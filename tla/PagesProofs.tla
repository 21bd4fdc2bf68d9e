---------------------------- MODULE PagesProofs -----------------------------
(***************************************************************************)
(* What holds of the components of MCPages for any numbers of subscribers, *)
(* entries, sockets, profiles, operations and steps: the connections of    *)
(* the window have owners, the page of the subscriptions marks the switch  *)
(* that is under way, forms hold what they say, the scripts keep what they *)
(* must, what listens, samples or runs belongs to a view, and views show   *)
(* the last that there is.                                                 *)
(***************************************************************************)
EXTENDS MCPages, SettingsProofs, TLAPS

-----------------------------------------------------------------------------
(* The settings.                                                           *)

\* What SettingsProofs shows of the behaviours of the settings holds of all of them.
LEMMA SettingsBehave == PageSpec => SettingsSpec
  <1>1. Start => SettingsStart
    BY DEF Start
  <1>2. [Step]_all => [SettingsStep]_<<part, settings>>
    BY DEF Step, PagesStep, all, pages
  <1> QED BY <1>1, <1>2, PTL DEF PageSpec, SettingsSpec

-----------------------------------------------------------------------------
(* The streams of the window.                                              *)

\* An entry that was not made has nothing, one that was made and is not closed
\* has subscribers, and one that is closed has let go of its socket.
Entries(e) ==
    /\ e > made => /\ owners[e] = {} /\ active[e] = Nobody /\ ws[e] = 0
                   /\ ~timer[e] /\ ~closed[e] /\ connecting[e] = Idle
    /\ e <= made /\ ~closed[e] => owners[e] # {}
    /\ closed[e] => ws[e] = 0

Works == [s : 0 .. MaxSockets, at : {"idle", "asked", "loading"}]
StreamTypes ==
    /\ TypeOK /\ made \in 0 .. MaxEntries /\ asked \in 0 .. MaxSockets
    /\ timer \in [Ids -> BOOLEAN] /\ closed \in [Ids -> BOOLEAN]
    /\ connecting \in [Ids -> Works]
    /\ reconnects \in [Sockets -> 0 .. made]

\* A hook is among the owners of the entry that its key leads to.
Subscribers ==
    /\ \A h \in Hooks : sub[h] # 0 =>
          sub[h] \in 1 .. made /\ h \in owners[sub[h]] /\ shared[subKey[h]] = sub[h]
    /\ \A k \in Keys : shared[k] # 0 => shared[k] \in 1 .. made /\ ~closed[shared[k]]
    /\ \A k, l \in Keys : shared[k] # 0 /\ shared[k] = shared[l] => k = l

\* Who connects asks for a socket of its own, and has not yet got another.
Asking ==
    /\ \A e \in Ids : connecting[e].at # "idle" => connecting[e].s \in 1 .. asked
    /\ \A e \in Ids : connecting[e].at = "asked" => ws[e] = 0 /\ state[connecting[e].s] = "asked"
    /\ \A e \in Ids : connecting[e].at = "loading" => ws[e] \in {0, connecting[e].s}
    /\ \A e, f \in Ids : connecting[e].at # "idle" /\ connecting[f].at # "idle"
                            /\ connecting[e].s = connecting[f].s => e = f
    /\ \A s \in Sockets : s > asked => state[s] = "none"
    /\ \A e, f \in Ids : connecting[e].at = "loading" /\ ws[f] = connecting[e].s => e = f

\* A socket that an entry has is open, and no other entry has it.
OneEntry == \A e, f \in Ids : ws[e] # 0 /\ ws[e] = ws[f] => e = f
Held == \A e \in Ids : ws[e] # 0 => ws[e] \in Sockets /\ state[ws[e]] = "open"

StreamInv ==
    /\ StreamTypes /\ (\A e \in Ids : Entries(e)) /\ Subscribers
    /\ Asking /\ Held /\ OneEntry /\ SocketsOwned

\* A socket is asked for, or none: nothing changes for the sockets there are.
LEMMA AskInv ==
    ASSUME StreamInv, NEW e \in Ids, e <= made',
           (MayConnect(e) /\ Ask(e)) \/ UNCHANGED <<asked, connecting, state>>,
           UNCHANGED ws
    PROVE  /\ connecting' \in [Ids -> Works] /\ asked' \in 0 .. MaxSockets
           /\ state' \in [Sockets -> {"none", "asked", "open", "closing", "gone"}]
           /\ \A f \in Ids : f # e => connecting'[f] = connecting[f]
           /\ \A s \in Sockets : state'[s] = "open" <=> state[s] = "open"
           /\ Asking' /\ Held'
  <1>1. CASE UNCHANGED <<asked, connecting, state>>
    BY <1>1, Zenon DEF StreamInv, StreamTypes, TypeOK, Asking, Held
  <1>2. CASE MayConnect(e) /\ Ask(e) /\ asked < MaxSockets
    <2> DEFINE n == asked + 1
    <2>1. /\ n \in Sockets /\ n \in 0 .. MaxSockets /\ asked' = n /\ asked \in 0 .. MaxSockets
          /\ connecting' = [connecting EXCEPT ![e] = [s |-> n, at |-> "asked"]]
          /\ state' = [state EXCEPT ![n] = "asked"]
      BY <1>2, StreamBounds DEF Ask, StreamInv, StreamTypes, Sockets
    <2>2. /\ connecting[e].at = "idle" /\ ws[e] = 0 /\ state[n] = "none"
      BY <1>2, <2>1 DEF MayConnect, Idle, StreamInv, Asking
    <2>3. /\ connecting \in [Ids -> Works] /\ ws \in [Ids -> 0 .. MaxSockets]
          /\ state \in [Sockets -> {"none", "asked", "open", "closing", "gone"}]
      BY DEF StreamInv, StreamTypes, TypeOK
    <2> HIDE DEF n
    <2>4. /\ connecting' \in [Ids -> Works]
          /\ state' \in [Sockets -> {"none", "asked", "open", "closing", "gone"}]
      BY <2>1, <2>3 DEF Works
    <2>5. /\ connecting'[e].s = n /\ connecting'[e].at = "asked"
          /\ \A f \in Ids : f # e => connecting'[f] = connecting[f]
          /\ state'[n] = "asked" /\ \A s \in Sockets : s # n => state'[s] = state[s]
      BY <2>1, <2>3
    <2>6. \A f \in Ids : connecting[f].at # "idle" =>
             connecting[f].s \in 1 .. asked /\ connecting[f].s \in Sockets /\ connecting[f].s # n
      BY <2>1, StreamBounds DEF StreamInv, Asking, Sockets, n
    <2>7. \A f \in Ids : ws[f] # 0 => ws[f] \in Sockets /\ ws[f] # n /\ state[ws[f]] = "open"
      BY <2>2 DEF StreamInv, Held
    <2>8. Held'
      BY <2>5, <2>7 DEF Held
    <2>9. Asking'
      <3>1. \A f \in Ids : connecting'[f].at # "idle" => connecting'[f].s \in 1 .. asked'
        BY <2>1, <2>5, <2>6 DEF n
      <3>2. \A f \in Ids : connecting'[f].at = "asked"
                => ws[f] = 0 /\ state'[connecting'[f].s] = "asked"
        BY <2>2, <2>5, <2>6 DEF StreamInv, Asking
      <3>3. \A f \in Ids : connecting'[f].at = "loading" => ws[f] \in {0, connecting'[f].s}
        BY <2>5 DEF StreamInv, Asking
      <3>4. \A f, g \in Ids : connecting'[f].at # "idle" /\ connecting'[g].at # "idle"
                                /\ connecting'[f].s = connecting'[g].s => f = g
        BY <2>5, <2>6 DEF StreamInv, Asking
      <3>5. \A s \in Sockets : s > asked' => state'[s] = "none"
        BY <2>1, <2>5 DEF StreamInv, Asking, n, Sockets
      <3>6. \A f, g \in Ids : connecting'[f].at = "loading" /\ ws[g] = connecting'[f].s => f = g
        BY <2>5 DEF StreamInv, Asking
      <3> QED BY <3>1, <3>2, <3>3, <3>4, <3>5, <3>6 DEF Asking
    <2>10. \A s \in Sockets : state'[s] = "open" <=> state[s] = "open"
      BY <2>2, <2>5
    <2> QED BY <2>1, <2>4, <2>5, <2>8, <2>9, <2>10
  <1> QED BY <1>1, <1>2 DEF Ask

\* What the invariant says of the types of the variables.
LEMMA StreamFacts ==
    ASSUME StreamInv
    PROVE  /\ sub \in [Hooks -> 0 .. MaxEntries] /\ subKey \in [Hooks -> Keys]
           /\ shared \in [Keys -> 0 .. MaxEntries] /\ ws \in [Ids -> 0 .. MaxSockets]
           /\ owners \in [Ids -> SUBSET Hooks] /\ active \in [Ids -> Hooks \cup {Nobody}]
           /\ timer \in [Ids -> BOOLEAN] /\ closed \in [Ids -> BOOLEAN]
           /\ listens \in [Sockets -> BOOLEAN] /\ key \in Keys
           /\ state \in [Sockets -> {"none", "asked", "open", "closing", "gone"}]
           /\ connecting \in [Ids -> Works] /\ reconnects \in [Sockets -> 0 .. made]
           /\ made \in 0 .. MaxEntries /\ made \in Nat /\ asked \in 0 .. MaxSockets
           /\ \A e \in Ids : e \in Nat /\ e > 0
           /\ \A s \in Sockets : s \in Nat /\ s > 0
  BY StreamBounds DEF StreamInv, StreamTypes, TypeOK, Ids, Sockets

LEMMA SubscribeInv == ASSUME StreamInv, NEW h \in Hooks, Subscribe(h) PROVE StreamInv'
  <1> DEFINE e == EntryOf(key)
  <1>1. /\ sub[h] = 0 /\ e <= MaxEntries
        /\ made' = (IF shared[key] = 0 THEN e ELSE made)
        /\ shared' = [shared EXCEPT ![key] = e]
        /\ sub' = [sub EXCEPT ![h] = e] /\ subKey' = [subKey EXCEPT ![h] = key]
        /\ owners' = [owners EXCEPT ![e] = owners[e] \cup {h}]
        /\ active' = [active EXCEPT ![e] = IF active[e] = Nobody THEN h ELSE active[e]]
        /\ (MayConnect(e) /\ Ask(e)) \/ UNCHANGED <<asked, connecting, state>>
        /\ UNCHANGED <<logs, key, ws, timer, closed, listens, reconnects>>
    BY DEF Subscribe, entries
  <1>2. /\ e \in Ids /\ made' \in 0 .. MaxEntries /\ made <= made' /\ e <= made' /\ e \in 1 .. made'
        /\ \A f \in Ids : f # e /\ f > made' <=> f # e /\ f > made
        /\ ~closed[e]
        /\ shared[key] = 0 => e = made + 1 /\ made' = e
        /\ shared[key] # 0 => e = shared[key] /\ made' = made
    <2>1. CASE shared[key] = 0
      <3>1. e = made + 1 /\ made' = e /\ e \in Ids /\ e > made
        BY <1>1, <2>1, StreamFacts, StreamBounds DEF EntryOf, Ids
      <3>2. ~closed[e]
        BY <3>1 DEF StreamInv, Entries
      <3> QED BY <1>1, <2>1, <3>1, <3>2, StreamFacts DEF Ids
    <2>2. CASE shared[key] # 0
      <3>1. e = shared[key] /\ made' = made /\ e \in 1 .. made /\ ~closed[e]
        BY <1>1, <2>2, StreamFacts DEF EntryOf, StreamInv, Subscribers
      <3> QED BY <1>1, <2>2, <3>1, StreamFacts, StreamBounds DEF Ids
    <2> QED BY <2>1, <2>2
  <1> HIDE DEF e
  <1>3. /\ connecting' \in [Ids -> Works] /\ asked' \in 0 .. MaxSockets
        /\ state' \in [Sockets -> {"none", "asked", "open", "closing", "gone"}]
        /\ \A f \in Ids : f # e => connecting'[f] = connecting[f]
        /\ \A s \in Sockets : state'[s] = "open" <=> state[s] = "open"
        /\ Asking' /\ Held'
    BY <1>1, <1>2, AskInv
  <1>4. /\ \A f \in Ids : f # e => owners'[f] = owners[f] /\ active'[f] = active[f]
        /\ owners'[e] = owners[e] \cup {h}
        /\ \A g \in Hooks : g # h => sub'[g] = sub[g] /\ subKey'[g] = subKey[g]
        /\ sub'[h] = e /\ subKey'[h] = key
        /\ \A k \in Keys : k # key => shared'[k] = shared[k]
        /\ shared'[key] = e
    BY <1>1, <1>2, StreamFacts
  <1>5. StreamTypes'
    <2>1. reconnects' \in [Sockets -> 0 .. made']
      BY <1>1, <1>2, StreamFacts
    <2>2. /\ sub' \in [Hooks -> 0 .. MaxEntries] /\ subKey' \in [Hooks -> Keys]
          /\ shared' \in [Keys -> 0 .. MaxEntries]
          /\ owners' \in [Ids -> SUBSET Hooks] /\ active' \in [Ids -> Hooks \cup {Nobody}]
      BY <1>1, <1>2, StreamFacts, StreamBounds
    <2>3. \A f \in Ids : connecting'[f].s \in 0 .. MaxSockets
      BY <1>3 DEF Works
    <2> QED BY <1>1, <1>2, <1>3, <2>1, <2>2, <2>3, StreamFacts DEF StreamTypes, TypeOK
  <1>6. \A f \in Ids : Entries(f)'
    <2> TAKE f \in Ids
    <2>1. CASE f = e
      BY <1>1, <1>2, <1>4, <2>1, StreamFacts DEF Entries
    <2>2. CASE f # e
      <3>0. (f > made' <=> f > made) /\ (f <= made' <=> f <= made)
        BY <1>2, <2>2, StreamFacts
      <3>1. /\ Entries(f) /\ (f > made' <=> f > made) /\ (f <= made' <=> f <= made)
            /\ connecting'[f] = connecting[f] /\ owners'[f] = owners[f] /\ active'[f] = active[f]
        BY <1>3, <1>4, <2>2, <3>0, Zenon DEF StreamInv
      <3>2. timer'[f] = timer[f] /\ closed'[f] = closed[f] /\ ws'[f] = ws[f]
        BY <1>1
      <3> QED BY <3>1, <3>2, Zenon DEF Entries
    <2> QED BY <2>1, <2>2
  <1>7. Subscribers'
    <2>1. \A k \in Keys : shared[k] # 0 => shared[k] \in 1 .. made /\ ~closed[shared[k]]
      BY DEF StreamInv, Subscribers
    <2>2. \A k \in Keys : shared'[k] # 0 => shared'[k] \in 1 .. made' /\ ~closed'[shared'[k]]
      BY <1>1, <1>2, <1>4, <2>1, StreamFacts
    <2>3. \A k, l \in Keys : shared'[k] # 0 /\ shared'[k] = shared'[l] => k = l
      BY <1>2, <1>4, <2>1, StreamFacts DEF StreamInv, Subscribers
    <2>4. ASSUME NEW g \in Hooks, sub'[g] # 0
          PROVE  sub'[g] \in 1 .. made' /\ g \in owners'[sub'[g]] /\ shared'[subKey'[g]] = sub'[g]
      <3>1. CASE g = h
        BY <1>2, <1>4, <3>1
      <3>2. CASE g # h
        <4>1. /\ sub'[g] = sub[g] /\ sub[g] \in 1 .. made /\ g \in owners[sub[g]]
              /\ shared[subKey[g]] = sub[g] /\ subKey'[g] = subKey[g] /\ subKey[g] \in Keys
              /\ sub[g] \in Ids
          BY <1>4, <2>4, <3>2, StreamFacts DEF StreamInv, Subscribers, Ids
        <4>2. sub'[g] \in 1 .. made' /\ g \in owners'[sub'[g]]
          BY <1>2, <1>4, <4>1, StreamFacts
        <4>3. shared'[subKey[g]] = sub[g]
          BY <1>2, <1>4, <4>1
        <4> QED BY <4>1, <4>2, <4>3
      <3> QED BY <3>1, <3>2
    <2> QED BY <2>2, <2>3, <2>4 DEF Subscribers
  <1>8. SocketsOwned'
    <2>1. \A f \in Ids : owners[f] # {} => owners'[f] # {}
      BY <1>4
    <2> QED BY <1>1, <1>3, <2>1 DEF StreamInv, SocketsOwned
  <1>9. OneEntry'
    BY <1>1 DEF StreamInv, OneEntry
  <1> QED BY <1>3, <1>5, <1>6, <1>7, <1>8, <1>9 DEF StreamInv

\* An entry lets go of its socket and nothing begins to connect.
LEMMA CloseInv ==
    ASSUME StreamInv, NEW e \in Ids, CloseSocket(e), UNCHANGED <<connecting, asked>>
    PROVE  /\ ws' \in [Ids -> 0 .. MaxSockets] /\ ws'[e] = 0
           /\ state' \in [Sockets -> {"none", "asked", "open", "closing", "gone"}]
           /\ \A f \in Ids : f # e => ws'[f] = ws[f]
           /\ \A s \in Sockets : state'[s] = "open" <=> state[s] = "open" /\ s # ws[e]
           /\ Asking' /\ Held'
  <1>1. /\ ws' = [ws EXCEPT ![e] = 0]
        /\ state' = [s \in Sockets |-> IF s = ws[e] THEN "closing" ELSE state[s]]
    BY DEF CloseSocket
  <1>2. /\ ws' \in [Ids -> 0 .. MaxSockets] /\ ws'[e] = 0 /\ \A f \in Ids : f # e => ws'[f] = ws[f]
        /\ state' \in [Sockets -> {"none", "asked", "open", "closing", "gone"}]
        /\ \A s \in Sockets : s # ws[e] => state'[s] = state[s]
        /\ \A s \in Sockets : s = ws[e] => state'[s] = "closing"
    BY <1>1, StreamFacts, StreamBounds
  <1>3. \A f \in Ids : ws[f] # 0 /\ ws[f] = ws[e] => f = e
    BY DEF StreamInv, OneEntry
  <1>4. Held'
    BY <1>2, <1>3 DEF StreamInv, Held
  <1>5. \A f \in Ids : connecting[f].at = "asked" =>
            /\ connecting[f].s \in Sockets /\ connecting[f].s # ws[e]
    <2> SUFFICES ASSUME NEW f \in Ids, connecting[f].at = "asked"
                 PROVE  connecting[f].s \in Sockets /\ connecting[f].s # ws[e]
      OBVIOUS
    <2>1. connecting[f].s \in 1 .. asked /\ state[connecting[f].s] = "asked"
      BY DEF StreamInv, Asking
    <2>2. connecting[f].s \in Sockets /\ connecting[f].s # 0
      BY <2>1, StreamFacts, StreamBounds DEF Sockets
    <2>3. ws[e] # 0 => state[ws[e]] = "open"
      BY DEF StreamInv, Held
    <2> QED BY <2>1, <2>2, <2>3
  <1>6. ws[e] # 0 => ws[e] <= asked
    BY StreamFacts DEF StreamInv, Asking, Held
  <1>7. Asking'
    <2>1. \A s \in Sockets : s > asked => state'[s] = "none"
      BY <1>2, <1>6, StreamFacts DEF StreamInv, Asking
    <2>2. \A f \in Ids : connecting[f].at = "asked" =>
             ws'[f] = 0 /\ state'[connecting[f].s] = "asked"
      BY <1>2, <1>5 DEF StreamInv, Asking
    <2>3. \A f \in Ids : connecting[f].at = "loading" => ws'[f] \in {0, connecting[f].s}
      BY <1>2 DEF StreamInv, Asking
    <2>4. \A f, g \in Ids : connecting[f].at = "loading" /\ ws'[g] = connecting[f].s => f = g
      <3>1. \A f \in Ids : connecting[f].at = "loading" => connecting[f].s # 0
        BY StreamFacts DEF StreamInv, Asking
      <3> QED BY <1>2, <3>1 DEF StreamInv, Asking
    <2> QED BY <2>1, <2>2, <2>3, <2>4 DEF StreamInv, Asking
  <1> QED BY <1>2, <1>4, <1>7

LEMMA UnsubscribeInv == ASSUME StreamInv, NEW h \in Hooks, Unsubscribe(h) PROVE StreamInv'
  <1> DEFINE e == sub[h]
             rest == owners[e] \ {h}
  <1>1. /\ e # 0 /\ sub' = [sub EXCEPT ![h] = 0]
        /\ owners' = [owners EXCEPT ![e] = rest]
        /\ active' = [active EXCEPT ![e] = PickActive(e, rest)]
        /\ UNCHANGED <<logs, key, subKey, made, connecting, listens, asked, reconnects>>
    BY DEF Unsubscribe
  <1>2. /\ e \in Ids /\ e \in 1 .. made /\ h \in owners[e] /\ shared[subKey[h]] = e
        /\ subKey[h] \in Keys
    BY <1>1, StreamFacts DEF StreamInv, Subscribers, Ids
  <1>3. PickActive(e, rest) \in Hooks \cup {Nobody}
    BY <1>2, StreamFacts DEF PickActive
  <1> HIDE DEF e
  <1>4. /\ \A g \in Hooks : g # h => sub'[g] = sub[g]
        /\ sub'[h] = 0 /\ owners'[e] = rest /\ \A f \in Ids : f # e => owners'[f] = owners[f]
        /\ \A f \in Ids : f # e => active'[f] = active[f]
    BY <1>1, <1>2, StreamFacts
  <1>5. /\ sub' \in [Hooks -> 0 .. MaxEntries] /\ rest \subseteq Hooks
        /\ owners' \in [Ids -> SUBSET Hooks] /\ active' \in [Ids -> Hooks \cup {Nobody}]
    BY <1>1, <1>2, <1>3, StreamFacts, StreamBounds
  <1>6. CASE rest # {}
    <2>1. UNCHANGED <<shared, closed, timer, ws, state>>
      BY <1>6 DEF Unsubscribe, e
    <2>2. StreamTypes'
      BY <1>1, <1>5, <2>1 DEF StreamInv, StreamTypes, TypeOK
    <2>3. \A f \in Ids : Entries(f)'
      <3> TAKE f \in Ids
      <3>1. Entries(f)
        BY DEF StreamInv
      <3>2. CASE f = e
        BY <1>1, <1>2, <1>4, <1>6, <2>1, <3>1, <3>2, StreamFacts DEF Entries
      <3>3. CASE f # e
        BY <1>1, <1>4, <2>1, <3>1, <3>3, Zenon DEF Entries
      <3> QED BY <3>2, <3>3
    <2>4. Subscribers'
      <3>1. ASSUME NEW g \in Hooks, sub'[g] # 0
            PROVE  sub[g] # 0 /\ g # h /\ sub'[g] = sub[g]
        BY <1>4, <3>1
      <3>2. \A f \in Ids : \A g \in Hooks : g # h /\ g \in owners[f] => g \in owners'[f]
        BY <1>4
      <3>3. \A g \in Hooks : sub[g] # 0 => sub[g] \in Ids
        BY StreamFacts DEF Ids
      <3> QED BY <1>1, <2>1, <3>1, <3>2, <3>3 DEF StreamInv, Subscribers
    <2>5. SocketsOwned'
      <3>1. \A f \in Ids : owners[f] # {} => owners'[f] # {}
        BY <1>4, <1>6
      <3> QED BY <2>1, <3>1 DEF StreamInv, SocketsOwned
    <2>6. Asking' /\ Held' /\ OneEntry'
      BY <1>1, <2>1 DEF StreamInv, Asking, Held, OneEntry
    <2> QED BY <2>2, <2>3, <2>4, <2>5, <2>6 DEF StreamInv
  <1>7. CASE rest = {}
    <2>1. /\ closed' = [closed EXCEPT ![e] = TRUE] /\ timer' = [timer EXCEPT ![e] = FALSE]
          /\ shared' = [shared EXCEPT ![subKey[h]] = 0] /\ CloseSocket(e)
      BY <1>7 DEF Unsubscribe, e
    <2>2. /\ ws' \in [Ids -> 0 .. MaxSockets] /\ ws'[e] = 0
          /\ state' \in [Sockets -> {"none", "asked", "open", "closing", "gone"}]
          /\ \A f \in Ids : f # e => ws'[f] = ws[f]
          /\ \A s \in Sockets : state'[s] = "open" <=> state[s] = "open" /\ s # ws[e]
          /\ Asking' /\ Held'
      BY <1>1, <1>2, <2>1, CloseInv
    <2>3. /\ closed' \in [Ids -> BOOLEAN] /\ timer' \in [Ids -> BOOLEAN]
          /\ shared' \in [Keys -> 0 .. MaxEntries]
          /\ closed'[e] /\ ~timer'[e] /\ shared'[subKey[h]] = 0
          /\ \A f \in Ids : f # e => (closed'[f] <=> closed[f]) /\ (timer'[f] <=> timer[f])
          /\ \A k \in Keys : k # subKey[h] => shared'[k] = shared[k]
      BY <1>2, <2>1, StreamFacts, StreamBounds
    <2>4. StreamTypes'
      BY <1>1, <1>5, <2>2, <2>3 DEF StreamInv, StreamTypes, TypeOK
    <2>5. \A f \in Ids : Entries(f)'
      <3> TAKE f \in Ids
      <3>1. CASE f = e
        BY <1>1, <1>2, <2>2, <2>3, <3>1, StreamFacts DEF Entries
      <3>2. CASE f # e
        <4>1. Entries(f)
          BY DEF StreamInv
        <4> QED BY <1>1, <1>4, <2>2, <2>3, <3>2, <4>1, Zenon DEF Entries
      <3> QED BY <3>1, <3>2
    <2>6. Subscribers'
      <3>1. \A k \in Keys : shared'[k] # 0 =>
               k # subKey[h] /\ shared'[k] = shared[k] /\ shared[k] # e /\ shared[k] \in Ids
        BY <1>2, <2>3, StreamFacts DEF StreamInv, Subscribers, Ids
      <3>2. \A k \in Keys : shared'[k] # 0 => shared'[k] \in 1 .. made /\ ~closed'[shared'[k]]
        BY <2>3, <3>1 DEF StreamInv, Subscribers
      <3>3. \A k, l \in Keys : shared'[k] # 0 /\ shared'[k] = shared'[l] => k = l
        BY <3>1 DEF StreamInv, Subscribers
      <3>4. ASSUME NEW g \in Hooks, sub'[g] # 0
            PROVE  sub'[g] \in 1 .. made /\ g \in owners'[sub'[g]] /\ shared'[subKey[g]] = sub'[g]
        <4>1. /\ g # h /\ sub'[g] = sub[g] /\ sub[g] \in 1 .. made /\ g \in owners[sub[g]]
              /\ shared[subKey[g]] = sub[g] /\ sub[g] \in Ids /\ subKey[g] \in Keys
          BY <1>4, <3>4, StreamFacts DEF StreamInv, Subscribers, Ids
        <4>2. sub[g] # e
          BY <1>7, <4>1
        <4>3. g \in owners'[sub[g]] /\ shared'[subKey[g]] = sub[g]
          BY <1>2, <1>4, <2>3, <4>1, <4>2
        <4> QED BY <4>1, <4>3
      <3> QED BY <1>1, <3>2, <3>3, <3>4 DEF Subscribers
    <2>7. SocketsOwned'
      <3> SUFFICES ASSUME NEW s \in Sockets, state'[s] = "open"
                   PROVE  \E f \in Ids : ws'[f] = s /\ ~closed'[f] /\ owners'[f] # {}
        BY DEF SocketsOwned
      <3>1. state[s] = "open" /\ s # ws[e]
        BY <2>2
      <3>2. PICK f \in Ids : ws[f] = s /\ ~closed[f] /\ owners[f] # {}
        BY <3>1 DEF StreamInv, SocketsOwned
      <3> QED BY <1>4, <2>2, <2>3, <3>1, <3>2
    <2>8. OneEntry'
      BY <2>2 DEF StreamInv, OneEntry
    <2> QED BY <2>2, <2>4, <2>5, <2>6, <2>7, <2>8 DEF StreamInv
  <1> QED BY <1>6, <1>7

\* An entry that connects, or takes a timer or a socket, is one that was made.
LEMMA MadeFacts ==
    ASSUME StreamInv, NEW e \in Ids
    PROVE  timer[e] \/ connecting[e] # Idle \/ active[e] # Nobody \/ ws[e] # 0 => e \in 1 .. made
  BY StreamFacts DEF StreamInv, Entries

\* Steps in which nobody comes or goes: only entries that were made change.
LEMMA SameHooks ==
    ASSUME StreamInv, UNCHANGED <<hooks, closed>>, asked' \in 0 .. MaxSockets, key' \in Keys,
           connecting' \in [Ids -> Works], ws' \in [Ids -> 0 .. MaxSockets],
           state' \in [Sockets -> {"none", "asked", "open", "closing", "gone"}],
           timer' \in [Ids -> BOOLEAN], listens' \in [Sockets -> BOOLEAN],
           reconnects' \in [Sockets -> 0 .. made],
           \A f \in Ids : f > made => ws'[f] = 0 /\ ~timer'[f] /\ connecting'[f] = Idle,
           \A f \in Ids : closed[f] => ws'[f] = 0,
           \A s \in Sockets : state'[s] = "open" => \E f \in Ids : ws'[f] = s /\ ~closed[f],
           Asking', Held', OneEntry'
    PROVE  StreamInv'
  <1>1. UNCHANGED <<sub, subKey, owners, active, shared, made, closed>>
    BY DEF hooks
  <1>2. StreamTypes'
    <2>1. \A f \in Ids : connecting'[f].s \in 0 .. MaxSockets
      BY DEF Works
    <2> QED BY <1>1, <2>1, StreamFacts DEF StreamTypes, TypeOK
  <1>3. \A f \in Ids : Entries(f)'
    BY <1>1, Zenon DEF StreamInv, Entries
  <1>4. Subscribers'
    BY <1>1 DEF StreamInv, Subscribers
  <1>5. SocketsOwned'
    <2> SUFFICES ASSUME NEW s \in Sockets, state'[s] = "open"
                 PROVE  \E f \in Ids : ws'[f] = s /\ ~closed[f] /\ owners[f] # {}
      BY <1>1 DEF SocketsOwned
    <2>1. PICK f \in Ids : ws'[f] = s /\ ~closed[f]
      OBVIOUS
    <2>2. ~(f > made)
      BY <2>1, StreamFacts
    <2>3. owners[f] # {}
      BY <2>1, <2>2, StreamFacts DEF StreamInv, Entries
    <2> QED BY <2>1, <2>3
  <1> QED BY <1>2, <1>3, <1>4, <1>5 DEF StreamInv

\* The entry e is about a socket that it alone asked for.
LEMMA WorkFacts ==
    ASSUME StreamInv, NEW e \in Ids, connecting[e].at \in {"asked", "loading"}
    PROVE  /\ connecting[e].s \in Sockets /\ connecting[e].s # 0 /\ connecting[e].s <= asked
           /\ e \in 1 .. made /\ connecting[e] # Idle
           /\ \A f \in Ids : f # e => ws[f] # connecting[e].s
           /\ \A f \in Ids : f # e /\ connecting[f].at # "idle"
                                => connecting[f].s # connecting[e].s
           /\ connecting[e].at = "asked" => ws[e] = 0 /\ state[connecting[e].s] = "asked"
           /\ connecting[e].at = "loading" => ws[e] \in {0, connecting[e].s}
  <1> DEFINE s == connecting[e].s
  <1>1. s \in 1 .. asked /\ s \in Sockets /\ s # 0 /\ s <= asked
    BY StreamFacts, StreamBounds DEF StreamInv, Asking, Sockets
  <1>2. connecting[e] # Idle
    BY DEF Idle
  <1>3. \A f \in Ids : f # e /\ connecting[f].at # "idle" => connecting[f].s # s
    BY DEF StreamInv, Asking
  <1>4. \A f \in Ids : f # e => ws[f] # s
    BY <1>1 DEF StreamInv, Asking, Held
  <1> HIDE DEF s
  <1>5. /\ connecting[e].at = "asked" => ws[e] = 0 /\ state[s] = "asked"
        /\ connecting[e].at = "loading" => ws[e] \in {0, s}
    BY DEF StreamInv, Asking, s
  <1> QED BY <1>1, <1>2, <1>3, <1>4, <1>5, MadeFacts DEF s

\* The end of a connecting: the entry e has the socket or not.
LEMMA WorkEnds ==
    ASSUME StreamInv, NEW e \in Ids, connecting[e].at \in {"asked", "loading"},
           NEW w \in Works, w.at = "idle" \/ (w.at = "loading" /\ w.s = connecting[e].s),
           connecting' = [connecting EXCEPT ![e] = w], UNCHANGED asked,
           NEW t \in {"open", "closing", "gone"},
           state' = [state EXCEPT ![connecting[e].s] = t],
           \/ ws' = ws /\ (t = "open" \/ ws[e] = 0)
           \/ ws' = [ws EXCEPT ![e] = connecting[e].s] /\ t = "open"
    PROVE  /\ connecting' \in [Ids -> Works] /\ ws' \in [Ids -> 0 .. MaxSockets]
           /\ state' \in [Sockets -> {"none", "asked", "open", "closing", "gone"}]
           /\ Asking' /\ Held' /\ OneEntry'
           /\ \A f \in Ids : f # e => ws'[f] = ws[f] /\ connecting'[f] = connecting[f]
           /\ \A s \in Sockets : s # connecting[e].s => state'[s] = state[s]
           /\ state'[connecting[e].s] = t /\ connecting'[e] = w
  <1> DEFINE s == connecting[e].s
  <1>1. /\ s \in Sockets /\ s # 0 /\ s <= asked
        /\ \A f \in Ids : f # e => ws[f] # s
        /\ \A f \in Ids : f # e /\ connecting[f].at # "idle" => connecting[f].s # s
        /\ ws[e] \in {0, s}
    BY WorkFacts
  <1>w. w.at = "loading" => w.s = s
    OBVIOUS
  <1>s. /\ state' = [state EXCEPT ![s] = t]
        /\ \/ ws' = ws /\ (t = "open" \/ ws[e] = 0)
           \/ ws' = [ws EXCEPT ![e] = s] /\ t = "open"
    OBVIOUS
  <1> HIDE DEF s
  <1>2. /\ connecting' \in [Ids -> Works] /\ connecting'[e] = w
        /\ \A f \in Ids : f # e => connecting'[f] = connecting[f]
    BY StreamFacts
  <1>3. /\ state' \in [Sockets -> {"none", "asked", "open", "closing", "gone"}]
        /\ state'[s] = t /\ \A r \in Sockets : r # s => state'[r] = state[r]
    BY <1>1, <1>s, StreamFacts
  <1>4. /\ ws' \in [Ids -> 0 .. MaxSockets] /\ ws'[e] \in {0, s} /\ (ws'[e] = s => t = "open")
        /\ \A f \in Ids : f # e => ws'[f] = ws[f]
    BY <1>1, <1>s, StreamFacts, StreamBounds DEF Sockets
  <1>5. Held'
    <2> SUFFICES ASSUME NEW f \in Ids, ws'[f] # 0
                 PROVE  ws'[f] \in Sockets /\ state'[ws'[f]] = "open"
      BY DEF Held
    <2>1. CASE f = e
      BY <1>1, <1>3, <1>4, <2>1
    <2>2. CASE f # e
      BY <1>1, <1>3, <1>4, <2>2 DEF StreamInv, Held
    <2> QED BY <2>1, <2>2
  <1>6. OneEntry'
    BY <1>1, <1>4 DEF StreamInv, OneEntry
  <1>7. Asking'
    <2>1. \A f \in Ids : connecting'[f].at # "idle" => connecting'[f].s \in 1 .. asked
      BY <1>1, <1>2, StreamFacts, WorkFacts DEF StreamInv, Asking, Sockets, s
    <2>2. \A f \in Ids : connecting'[f].at = "asked" => f # e
      BY <1>2
    <2>3. \A f \in Ids : connecting'[f].at = "asked" =>
             ws'[f] = 0 /\ state'[connecting'[f].s] = "asked"
      <3> SUFFICES ASSUME NEW f \in Ids, f # e, connecting[f].at = "asked"
                   PROVE  ws'[f] = 0 /\ state'[connecting[f].s] = "asked"
        BY <1>2, <2>2
      <3>1. connecting[f].s \in Sockets /\ connecting[f].s # s /\ ws[f] = 0
               /\ state[connecting[f].s] = "asked"
        BY <1>1, WorkFacts
      <3> QED BY <1>3, <1>4, <3>1
    <2>4. \A f \in Ids : connecting'[f].at = "loading" => ws'[f] \in {0, connecting'[f].s}
      BY <1>1, <1>2, <1>4, <1>w DEF StreamInv, Asking
    <2>5. \A f, g \in Ids : connecting'[f].at # "idle" /\ connecting'[g].at # "idle"
                              /\ connecting'[f].s = connecting'[g].s => f = g
      BY <1>1, <1>2, <1>w DEF StreamInv, Asking
    <2>6. \A r \in Sockets : r > asked => state'[r] = "none"
      BY <1>1, <1>3, StreamFacts DEF StreamInv, Asking, Sockets
    <2>7. \A f, g \in Ids : connecting'[f].at = "loading" /\ ws'[g] = connecting'[f].s => f = g
      <3> SUFFICES ASSUME NEW f \in Ids, NEW g \in Ids, f # g, connecting'[f].at = "loading"
                   PROVE  ws'[g] # connecting'[f].s
        OBVIOUS
      <3>1. CASE f = e
        BY <1>1, <1>2, <1>4, <1>w, <3>1
      <3>2. CASE f # e
        <4>1. /\ connecting'[f] = connecting[f] /\ connecting[f].at = "loading"
              /\ connecting[f].s # s /\ connecting[f].s # 0
          BY <1>1, <1>2, <3>2, WorkFacts
        <4> QED BY <1>4, <4>1 DEF StreamInv, Asking
      <3> QED BY <3>1, <3>2
    <2> QED BY <2>1, <2>3, <2>4, <2>5, <2>6, <2>7 DEF Asking
  <1> QED BY <1>2, <1>3, <1>4, <1>5, <1>6, <1>7 DEF s

LEMMA IdleWork == Idle \in Works /\ Idle.at = "idle"
  BY StreamBounds DEF Idle, Works

LEMMA ConnectedInv == ASSUME StreamInv, NEW e \in Ids, Connected(e) PROVE StreamInv'
  <1> DEFINE s == connecting[e].s
  <1>1. /\ connecting[e].at = "asked"
        /\ UNCHANGED <<logs, key, hooks, closed, asked, reconnects>>
    BY DEF Connected
  <1>2. s \in Sockets /\ e \in 1 .. made /\ ws[e] = 0
    BY <1>1, WorkFacts
  <1>3. PICK w \in Works, t \in {"open", "closing", "gone"} :
          /\ w.at = "idle" \/ (w.at = "loading" /\ w.s = s)
          /\ connecting' = [connecting EXCEPT ![e] = w] /\ state' = [state EXCEPT ![s] = t]
          /\ timer' \in [Ids -> BOOLEAN] /\ listens' \in [Sockets -> BOOLEAN]
          /\ \A f \in Ids : f # e => timer'[f] = timer[f]
          /\ \/ ws' = ws /\ (t = "open" \/ ws[e] = 0) /\ closed[e] /\ t = "closing"
             \/ ws' = [ws EXCEPT ![e] = s] /\ t = "open" /\ ~closed[e]
    <2> DEFINE fetch == [s |-> s, at |-> "loading"]
    <2>1. CASE closed[e]
      <3>1. /\ connecting' = [connecting EXCEPT ![e] = Idle]
            /\ state' = [state EXCEPT ![s] = "closing"] /\ UNCHANGED <<ws, timer, listens>>
        BY <2>1 DEF Connected
      <3> HIDE DEF s
      <3> QED BY <1>2, <2>1, <3>1, IdleWork, StreamFacts
    <2>2. CASE ~closed[e] /\ logs
      <3>1. /\ connecting' = [connecting EXCEPT ![e].at = "loading"]
            /\ state' = [state EXCEPT ![s] = "open"] /\ ws' = [ws EXCEPT ![e] = s]
            /\ timer' = [timer EXCEPT ![e] = FALSE] /\ UNCHANGED listens
        BY <2>2 DEF Connected
      <3>2. [connecting[e] EXCEPT !.at = "loading"] = fetch /\ fetch \in Works
        BY <1>2, StreamFacts DEF Works
      <3>3. connecting' = [connecting EXCEPT ![e] = fetch] /\ fetch.at = "loading" /\ fetch.s = s
        BY <3>1, <3>2
      <3> HIDE DEF s, fetch
      <3> QED BY <1>2, <2>2, <3>1, <3>2, <3>3, StreamFacts
    <2>3. CASE ~closed[e] /\ ~logs
      <3>1. /\ connecting' = [connecting EXCEPT ![e] = Idle]
            /\ state' = [state EXCEPT ![s] = "open"] /\ ws' = [ws EXCEPT ![e] = s]
            /\ timer' = [timer EXCEPT ![e] = FALSE] /\ listens' = [listens EXCEPT ![s] = TRUE]
        BY <2>3 DEF Connected
      <3> HIDE DEF s
      <3> QED BY <1>2, <2>3, <3>1, IdleWork, StreamFacts
    <2> QED BY <2>1, <2>2, <2>3
  <1>4. /\ connecting' \in [Ids -> Works] /\ ws' \in [Ids -> 0 .. MaxSockets]
        /\ state' \in [Sockets -> {"none", "asked", "open", "closing", "gone"}]
        /\ Asking' /\ Held' /\ OneEntry'
        /\ \A f \in Ids : f # e => ws'[f] = ws[f] /\ connecting'[f] = connecting[f]
        /\ \A r \in Sockets : r # s => state'[r] = state[r]
        /\ state'[s] = t
    BY <1>1, <1>3, WorkEnds
  <1> HIDE DEF s
  <1>5. ws'[e] = IF closed[e] THEN 0 ELSE s
    BY <1>2, <1>3, StreamFacts
  <1>6. \A f \in Ids : f > made => ws'[f] = 0 /\ ~timer'[f] /\ connecting'[f] = Idle
    BY <1>2, <1>3, <1>4, StreamFacts DEF StreamInv, Entries
  <1>7. \A f \in Ids : closed[f] => ws'[f] = 0
    BY <1>4, <1>5 DEF StreamInv, Entries
  <1>8. ASSUME NEW r \in Sockets, state'[r] = "open" PROVE \E f \in Ids : ws'[f] = r /\ ~closed[f]
    <2>1. CASE r = s
      BY <1>3, <1>4, <1>5, <1>8, <2>1
    <2>2. CASE r # s
      <3>1. PICK f \in Ids : ws[f] = r /\ ~closed[f]
        BY <1>4, <1>8, <2>2 DEF StreamInv, SocketsOwned
      <3>2. f # e
        BY <1>2, <3>1, StreamFacts
      <3> QED BY <1>4, <3>1, <3>2
    <2> QED BY <2>1, <2>2
  <1> QED BY <1>1, <1>3, <1>4, <1>6, <1>7, <1>8, StreamFacts, SameHooks

LEMMA ConnectFailedInv == ASSUME StreamInv, NEW e \in Ids, ConnectFailed(e) PROVE StreamInv'
  <1> DEFINE s == connecting[e].s
  <1>1. /\ connecting[e].at = "asked" /\ state' = [state EXCEPT ![s] = "gone"]
        /\ connecting' = [connecting EXCEPT ![e] = Idle]
        /\ timer' = [timer EXCEPT ![e] = ~closed[e] /\ ws[e] = 0]
        /\ UNCHANGED <<logs, key, hooks, ws, closed, listens, asked, reconnects>>
    BY DEF ConnectFailed
  <1>2. s \in Sockets /\ e \in 1 .. made /\ ws[e] = 0
    BY <1>1, WorkFacts
  <1>3. /\ connecting' \in [Ids -> Works] /\ Asking' /\ Held' /\ OneEntry'
        /\ state' \in [Sockets -> {"none", "asked", "open", "closing", "gone"}]
        /\ \A f \in Ids : f # e => connecting'[f] = connecting[f]
        /\ \A r \in Sockets : r # s => state'[r] = state[r]
        /\ state'[s] = "gone"
    BY <1>1, <1>2, IdleWork, WorkEnds
  <1> HIDE DEF s
  <1>4. timer' \in [Ids -> BOOLEAN] /\ \A f \in Ids : f # e => timer'[f] = timer[f]
    BY <1>1, StreamFacts
  <1>5. \A f \in Ids : f > made => ws[f] = 0 /\ ~timer'[f] /\ connecting'[f] = Idle
    BY <1>2, <1>3, <1>4, StreamFacts DEF StreamInv, Entries
  <1>6. \A f \in Ids : closed[f] => ws[f] = 0
    BY DEF StreamInv, Entries
  <1>7. \A r \in Sockets : state'[r] = "open" => \E f \in Ids : ws[f] = r /\ ~closed[f]
    BY <1>3 DEF StreamInv, SocketsOwned
  <1> QED BY <1>1, <1>3, <1>4, <1>5, <1>6, <1>7, StreamFacts, SameHooks

LEMMA LogsLoadedInv ==
    ASSUME StreamInv, NEW e \in Ids, NEW good \in BOOLEAN, LogsLoaded(e, good) PROVE StreamInv'
  <1> DEFINE s == connecting[e].s
  <1>1. /\ connecting[e].at = "loading" /\ connecting' = [connecting EXCEPT ![e] = Idle]
        /\ listens' \in [Sockets -> BOOLEAN]
        /\ UNCHANGED <<logs, key, hooks, ws, timer, closed, asked, reconnects>>
    BY StreamFacts DEF LogsLoaded, entries
  <1>2. s \in Sockets /\ e \in 1 .. made /\ ws[e] \in {0, s} /\ s # 0 /\ s <= asked
    BY <1>1, WorkFacts
  <1>3. \A f \in Ids : closed[f] => ws[f] = 0
    BY DEF StreamInv, Entries
  <1>4. state[s] = "open" => ~closed[e]
    BY <1>1, <1>2, <1>3, WorkFacts DEF StreamInv, SocketsOwned
  <1>5. state' = state
    <2>1. state' \in {state, [state EXCEPT ![s] = state[s]]}
      BY <1>4 DEF LogsLoaded
    <2> QED BY <2>1, <1>2, StreamFacts
  <1> HIDE DEF s
  <1>6. /\ connecting' \in [Ids -> Works] /\ connecting'[e] = Idle
        /\ \A f \in Ids : f # e => connecting'[f] = connecting[f]
    BY <1>1, IdleWork, StreamFacts
  <1>7. Held' /\ OneEntry'
    BY <1>1, <1>5 DEF StreamInv, Held, OneEntry
  <1>8. Asking'
    <2>1. \A f \in Ids : connecting'[f].at # "idle" => f # e /\ connecting'[f] = connecting[f]
      BY <1>6, IdleWork
    <2>2. /\ \A f \in Ids : connecting'[f].at # "idle" => connecting'[f].s \in 1 .. asked
          /\ \A f \in Ids : connecting'[f].at = "asked"
                => ws[f] = 0 /\ state[connecting'[f].s] = "asked"
          /\ \A f \in Ids : connecting'[f].at = "loading" => ws[f] \in {0, connecting'[f].s}
      BY <2>1 DEF StreamInv, Asking
    <2>3. \A f, g \in Ids : connecting'[f].at # "idle" /\ connecting'[g].at # "idle"
                              /\ connecting'[f].s = connecting'[g].s => f = g
      BY <2>1 DEF StreamInv, Asking
    <2>4. \A f, g \in Ids : connecting'[f].at = "loading" /\ ws[g] = connecting'[f].s => f = g
      BY <2>1 DEF StreamInv, Asking
    <2>5. \A r \in Sockets : r > asked => state[r] = "none"
      BY DEF StreamInv, Asking
    <2> QED BY <1>1, <1>5, <2>2, <2>3, <2>4, <2>5 DEF Asking
  <1>9. \A f \in Ids : f > made => ws[f] = 0 /\ ~timer[f] /\ connecting'[f] = Idle
    BY <1>6 DEF StreamInv, Entries
  <1>10. \A r \in Sockets : state[r] = "open" => \E f \in Ids : ws[f] = r /\ ~closed[f]
    BY DEF StreamInv, SocketsOwned
  <1> QED BY <1>1, <1>3, <1>5, <1>6, <1>7, <1>8, <1>9, <1>10, StreamFacts, SameHooks

LEMMA TimerFiresInv == ASSUME StreamInv, NEW e \in Ids, TimerFires(e) PROVE StreamInv'
  <1>1. /\ timer[e] /\ timer' = [timer EXCEPT ![e] = FALSE]
        /\ (MayConnect(e) /\ Ask(e)) \/ UNCHANGED <<asked, connecting, state>>
        /\ UNCHANGED <<logs, key, hooks, ws, closed, listens, reconnects>>
    BY DEF TimerFires
  <1>2. e \in 1 .. made /\ made' = made /\ e <= made'
    BY <1>1, MadeFacts, StreamFacts DEF hooks
  <1>3. /\ connecting' \in [Ids -> Works] /\ asked' \in 0 .. MaxSockets
        /\ state' \in [Sockets -> {"none", "asked", "open", "closing", "gone"}]
        /\ \A f \in Ids : f # e => connecting'[f] = connecting[f]
        /\ \A s \in Sockets : state'[s] = "open" <=> state[s] = "open"
        /\ Asking' /\ Held'
    BY <1>1, <1>2, AskInv
  <1>4. timer' \in [Ids -> BOOLEAN] /\ \A f \in Ids : f # e => timer'[f] = timer[f]
    BY <1>1, StreamFacts
  <1>5. \A f \in Ids : f > made => ws[f] = 0 /\ ~timer'[f] /\ connecting'[f] = Idle
    BY <1>2, <1>3, <1>4, StreamFacts DEF StreamInv, Entries
  <1>6. \A f \in Ids : closed[f] => ws[f] = 0
    BY DEF StreamInv, Entries
  <1>7. \A s \in Sockets : state'[s] = "open" => \E f \in Ids : ws[f] = s /\ ~closed[f]
    BY <1>3 DEF StreamInv, SocketsOwned
  <1>8. OneEntry'
    BY <1>1 DEF StreamInv, OneEntry
  <1> QED BY <1>1, <1>3, <1>4, <1>5, <1>6, <1>7, <1>8, StreamFacts, SameHooks

LEMMA ClosedInv == ASSUME StreamInv, NEW s \in Sockets, Closed(s) PROVE StreamInv'
  <1> DEFINE e == reconnects[s]
  <1>1. /\ state[s] = "closing" /\ state' = [state EXCEPT ![s] = "gone"]
        /\ listens' = [listens EXCEPT ![s] = FALSE]
        /\ reconnects' = [reconnects EXCEPT ![s] = 0]
        /\ UNCHANGED <<logs, key, hooks, ws, closed, connecting, asked>>
        /\ timer' = timer \/ (e # 0 /\ timer' = [timer EXCEPT ![e] = TRUE])
    BY DEF Closed
  <1>2. e \in 0 .. made
    BY StreamFacts
  <1> HIDE DEF e
  <1>3. /\ state' \in [Sockets -> {"none", "asked", "open", "closing", "gone"}]
        /\ state'[s] = "gone" /\ \A r \in Sockets : r # s => state'[r] = state[r]
        /\ listens' \in [Sockets -> BOOLEAN] /\ reconnects' \in [Sockets -> 0 .. made]
    BY <1>1, StreamFacts
  <1>4. timer' \in [Ids -> BOOLEAN] /\ \A f \in Ids : f # e => timer'[f] = timer[f]
    BY <1>1, StreamFacts
  <1>5. \A f \in Ids : f > made => ws[f] = 0 /\ ~timer'[f] /\ connecting[f] = Idle
    BY <1>2, <1>4, StreamFacts DEF StreamInv, Entries
  <1>6. \A f \in Ids : closed[f] => ws[f] = 0
    BY DEF StreamInv, Entries
  <1>7. \A r \in Sockets : state'[r] = "open" => \E f \in Ids : ws[f] = r /\ ~closed[f]
    BY <1>3 DEF StreamInv, SocketsOwned
  <1>8. Held' /\ OneEntry'
    BY <1>1, <1>3 DEF StreamInv, Held, OneEntry
  <1>9. Asking'
    <2>1. \A f \in Ids : connecting[f].at = "asked" =>
             connecting[f].s \in Sockets /\ connecting[f].s # s
      BY <1>1, WorkFacts
    <2>2. \A f \in Ids : connecting[f].at = "asked" => state'[connecting[f].s] = "asked"
      BY <1>3, <2>1 DEF StreamInv, Asking
    <2>3. \A r \in Sockets : r > asked => state'[r] = "none"
      BY <1>1, <1>3 DEF StreamInv, Asking
    <2> QED BY <1>1, <2>2, <2>3 DEF StreamInv, Asking
  <1> QED BY <1>1, <1>3, <1>4, <1>5, <1>6, <1>7, <1>8, <1>9, StreamFacts, SameHooks

LEMMA BrokenInv ==
    ASSUME StreamInv, NEW s \in Sockets, NEW e \in Ids, Broken(s, e) PROVE StreamInv'
  <1>1. /\ ~closed[e] /\ active[e] # Nobody /\ CloseSocket(e)
        /\ timer' = [timer EXCEPT ![e] = (ws[e] = 0)]
        /\ reconnects' = IF ws[e] = 0 THEN reconnects ELSE [reconnects EXCEPT ![ws[e]] = e]
        /\ UNCHANGED <<logs, key, hooks, closed, connecting, listens, asked>>
    BY DEF Broken
  <1>2. e \in 1 .. made
    BY <1>1, MadeFacts
  <1>3. /\ ws' \in [Ids -> 0 .. MaxSockets] /\ ws'[e] = 0 /\ Asking' /\ Held'
        /\ state' \in [Sockets -> {"none", "asked", "open", "closing", "gone"}]
        /\ \A f \in Ids : f # e => ws'[f] = ws[f]
        /\ \A r \in Sockets : state'[r] = "open" <=> state[r] = "open" /\ r # ws[e]
    BY <1>1, CloseInv
  <1>4. timer' \in [Ids -> BOOLEAN] /\ \A f \in Ids : f # e => timer'[f] = timer[f]
    BY <1>1, StreamFacts
  <1>5. reconnects' \in [Sockets -> 0 .. made]
    <2>1. CASE ws[e] = 0
      BY <1>1, <2>1, StreamFacts
    <2>2. CASE ws[e] # 0
      <3>1. reconnects' = [reconnects EXCEPT ![ws[e]] = e] /\ e \in 0 .. made
        BY <1>1, <1>2, <2>2, StreamFacts
      <3> QED BY <3>1, StreamFacts
    <2> QED BY <2>1, <2>2
  <1>6. \A f \in Ids : f > made => ws'[f] = 0 /\ ~timer'[f] /\ connecting[f] = Idle
    BY <1>2, <1>3, <1>4, StreamFacts DEF StreamInv, Entries
  <1>7. \A f \in Ids : closed[f] => ws'[f] = 0
    BY <1>3 DEF StreamInv, Entries
  <1>8. \A r \in Sockets : state'[r] = "open" => \E f \in Ids : ws'[f] = r /\ ~closed[f]
    BY <1>3 DEF StreamInv, SocketsOwned
  <1>9. OneEntry'
    BY <1>3 DEF StreamInv, OneEntry
  <1> QED BY <1>1, <1>3, <1>4, <1>5, <1>6, <1>7, <1>8, <1>9, StreamFacts, SameHooks

LEMMA StreamInit == Init => StreamInv
  <1> SUFFICES ASSUME Init PROVE StreamInv
    OBVIOUS
  <1>1. StreamTypes
    BY IdleWork, StreamBounds DEF Init, StreamTypes, TypeOK, Keys, Ids, Sockets, Works, Idle
  <1>2. \A e \in Ids : Entries(e)
    BY StreamBounds DEF Init, Entries, Ids
  <1>3. Subscribers
    BY DEF Init, Subscribers
  <1>4. Asking
    BY IdleWork DEF Init, Asking
  <1>5. Held /\ OneEntry /\ SocketsOwned
    BY DEF Init, Held, OneEntry, SocketsOwned
  <1> QED BY <1>1, <1>2, <1>3, <1>4, <1>5 DEF StreamInv

LEMMA StreamStep == StreamInv /\ [Next]_vars => StreamInv'
  <1> SUFFICES ASSUME StreamInv, [Next]_vars PROVE StreamInv'
    OBVIOUS
  <1>1. ASSUME NEW h \in Hooks, Subscribe(h) \/ Disabled(h) PROVE StreamInv'
    BY <1>1, SubscribeInv, UnsubscribeInv DEF Disabled
  <1>2. CASE Refresh \/ UNCHANGED vars
    <2>1. /\ key' \in Keys
          /\ UNCHANGED <<hooks, ws, timer, closed, connecting, state, listens, asked, reconnects>>
      BY <1>2, StreamFacts, StreamBounds DEF Refresh, vars, entries, sockets, Keys
    <2>2. Asking' /\ Held' /\ OneEntry'
      BY <2>1 DEF StreamInv, Asking, Held, OneEntry
    <2>3. /\ \A f \in Ids : f > made => ws[f] = 0 /\ ~timer[f] /\ connecting[f] = Idle
          /\ \A f \in Ids : closed[f] => ws[f] = 0
      BY DEF StreamInv, Entries
    <2>4. \A r \in Sockets : state[r] = "open" => \E f \in Ids : ws[f] = r /\ ~closed[f]
      BY DEF StreamInv, SocketsOwned
    <2> QED BY <2>1, <2>2, <2>3, <2>4, StreamFacts, SameHooks
  <1>3. ASSUME NEW e \in Ids, Connected(e) \/ ConnectFailed(e) \/ TimerFires(e) PROVE StreamInv'
    BY <1>3, ConnectedInv, ConnectFailedInv, TimerFiresInv
  <1>4. ASSUME NEW e \in Ids, NEW good \in BOOLEAN, LogsLoaded(e, good) PROVE StreamInv'
    BY <1>4, LogsLoadedInv
  <1>5. ASSUME NEW s \in Sockets, Closed(s) \/ \E e \in Ids : Broken(s, e) PROVE StreamInv'
    BY <1>5, ClosedInv, BrokenInv
  <1> QED BY <1>1, <1>2, <1>3, <1>4, <1>5 DEF Next

\* An open socket has an owner.
LEMMA StreamsHold == Spec => []SocketsOwned
  <1>1. StreamInv => SocketsOwned
    BY DEF StreamInv
  <1> QED BY <1>1, StreamInit, StreamStep, PTL DEF Spec

\* The streams behave as Streams says, whatever the behaviour is about.
LEMMA StreamsBehave == PageSpec => Spec
  <1>1. Start => Init
    BY DEF Start
  <1>2. [Step]_all => [Next]_vars
    BY DEF Step, PagesStep, all, pages
  <1> QED BY <1>1, <1>2, PTL DEF PageSpec, Spec

\* An open socket of the window's streams has an entry that will end it, in whatever
\* order subscribers come and go, calls are answered and timers fire.
THEOREM SocketsOwnedHolds == PageSpec => []SocketsOwned
  <1> QED BY StreamsBehave, StreamsHold, PTL

-----------------------------------------------------------------------------
(* The page of the subscriptions.                                          *)

Deletions ==
    [todo : SUBSET PageProfiles, current : BOOLEAN, at : {"idle", "call", "after", "end"}]

PageTypes ==
    /\ items \subseteq PageProfiles /\ cur \in PageProfiles \cup {P!None}
    /\ seen \in [items : SUBSET PageProfiles, current : PageProfiles \cup {P!None}]
    /\ pSeq \in Nat /\ switching \in PageProfiles \cup {P!None} /\ calls \subseteq P!Calls
    /\ activatings \subseteq PageProfiles /\ chosen \subseteq PageProfiles
    /\ deletion \in [P!Ways -> Deletions]

\* The runs have numbers of their own, the latest of which is seq.
Numbered ==
    /\ \A c \in calls : c.seq <= pSeq
    /\ \A c, d \in calls : c.seq = d.seq => c = d

\* A spinner is that of the switch, unless an operation shows its own.
Spinners == enhancing = "no" /\ deletion = P!NoDeletion => activatings \subseteq {switching}

Tracked ==
    /\ \A c \in P!Live : c.seq = pSeq => switching = c.profile
    /\ (\A c \in P!Live : c.seq # pSeq) => switching = P!None

PageInv == PageTypes /\ Numbered /\ Spinners /\ Tracked

LEMMA PageInvTracks == PageInv => P!SwitchTracked
  <1> SUFFICES ASSUME PageInv, P!Live = {}, enhancing = "no", deletion = P!NoDeletion
      PROVE activatings = {}
    BY DEF PageInv, Tracked, P!SwitchTracked
  <1>1. switching = P!None
    BY DEF PageInv, Tracked
  <1> QED BY <1>1, PageAssumption DEF PageInv, Spinners, PageTypes, P!None

LEMMA PageInit == P!Init => PageInv
  BY PageAssumption DEF P!Init, PageInv, PageTypes, Numbered, Spinners, Tracked, P!Live, P!Fetched, P!Calls, P!None, P!NoDeletion, P!Idle, Deletions

\* What leaves the runs and the switch as they are.
LEMMA PageSameRuns ==
    ASSUME PageInv, PageTypes', Spinners', UNCHANGED <<pSeq, switching, calls>>
    PROVE  PageInv'
  BY DEF PageInv, Numbered, Tracked, P!Live

\* A run that ends, or goes on, is no other run.
LEMMA PageEndInv ==
    ASSUME PageInv, NEW c \in calls, P!Cleanup(c) \/ (~c.live /\ calls' = calls \ {c} /\ UNCHANGED <<switching, activatings>>),
           UNCHANGED <<pSeq, enhancing, deletion>>
    PROVE  /\ switching' \in PageProfiles \cup {P!None} /\ calls' \subseteq P!Calls
           /\ activatings' \subseteq PageProfiles
           /\ Numbered' /\ Spinners' /\ Tracked'
  <1>1. calls' = calls \ {c}
    BY DEF P!Cleanup
  <1>2. Numbered'
    BY <1>1 DEF PageInv, Numbered
  <1>3. CASE P!Cleanup(c) /\ switching = c.profile /\ ~P!Outdated(c)
    <2>1. switching' = P!None /\ activatings' = activatings \ {c.profile}
      BY <1>3 DEF P!Cleanup, P!Cleared
    <2>2. \A d \in P!Live' : d.seq # pSeq
      BY <1>1, <1>3 DEF P!Live, PageInv, Numbered, P!Outdated
    <2>3. Tracked'
      BY <2>1, <2>2 DEF Tracked
    <2>4. Spinners'
      BY <2>1, <1>3 DEF PageInv, Spinners
    <2> QED BY <1>1, <1>2, <2>1, <2>3, <2>4 DEF PageInv, PageTypes
  <1>4. CASE UNCHANGED <<switching, activatings>> /\ (~c.live \/ c.seq # pSeq)
    <2>1. \A d \in P!Live : d.seq = pSeq => d \in P!Live'
      BY <1>1, <1>4 DEF P!Live
    <2>2. P!Live' \subseteq P!Live
      BY <1>1 DEF P!Live
    <2>3. Tracked'
      BY <1>4, <2>1, <2>2 DEF PageInv, Tracked
    <2>4. Spinners'
      BY <1>4 DEF PageInv, Spinners
    <2> QED BY <1>1, <1>2, <1>4, <2>3, <2>4 DEF PageInv, PageTypes
  <1>5. c.live /\ c.seq = pSeq => switching = c.profile
    BY DEF PageInv, Tracked, P!Live
  <1> QED BY <1>3, <1>4, <1>5 DEF P!Cleanup, P!Outdated

LEMMA PageSelectInv ==
    ASSUME PageInv, NEW p \in PageProfiles, NEW force \in BOOLEAN, P!Select(p, force)
    PROVE  PageInv'
  <1> DEFINE new == [seq |-> pSeq', profile |-> p, at |-> "patch", live |-> TRUE]
  <1>1. /\ pSeq' = pSeq + 1 /\ switching' = p /\ calls' = calls \cup {new}
        /\ UNCHANGED <<items, cur, seen, chosen, enhancing, deletion>>
    BY DEF P!Select, P!batchVars
  <1>2. \A c \in calls : c.seq \in Nat /\ c.seq < pSeq'
    BY <1>1 DEF PageInv, PageTypes, P!Calls, Numbered
  <1>3. activatings' = (activatings \cup {p})  \/ activatings' = ((activatings \ {switching}) \cup {p})
    BY DEF P!Select, P!Interrupt
  <1>4. Spinners'
    <2>1. switching \in {P!None, p} => activatings' = activatings \cup {p}
      BY DEF P!Select, P!Interrupt
    <2>2. switching \notin {P!None, p} => activatings' = (activatings \ {switching}) \cup {p}
      BY DEF P!Select, P!Interrupt
    <2>3. P!None \notin activatings
      BY PageAssumption DEF PageInv, PageTypes, P!None
    <2> QED BY <1>1, <2>1, <2>2, <2>3 DEF PageInv, Spinners
  <1>5. pSeq \in Nat /\ pSeq' \in Nat /\ new \in P!Calls /\ new.seq = pSeq'
    BY <1>1 DEF PageInv, PageTypes, P!Calls
  <1>6. PageTypes' /\ Numbered'
    <2> HIDE DEF new
    <2>1. PageTypes'
      BY <1>1, <1>3, <1>5 DEF PageInv, PageTypes
    <2>2. \A c \in calls' : c = new \/ c \in calls
      BY <1>1
    <2>3. \A c \in calls' : c.seq <= pSeq'
      BY <1>2, <1>5, <2>2
    <2>4. \A c, d \in calls' : c.seq = d.seq => c = d
      BY <1>2, <1>5, <2>2 DEF PageInv, Numbered
    <2> QED BY <2>1, <2>3, <2>4 DEF Numbered
  <1>7. Tracked'
    <2>1. new \in P!Live' /\ new.seq = pSeq' /\ new.profile = p
      BY <1>1 DEF P!Live
    <2>2. \A c \in P!Live' : c.seq = pSeq' => c = new
      BY <1>1, <1>2 DEF P!Live, PageInv, PageTypes
    <2> QED BY <1>1, <2>1, <2>2 DEF Tracked
  <1> QED BY <1>4, <1>6, <1>7 DEF PageInv

LEMMA PagePatchedInv ==
    ASSUME PageInv, NEW c \in calls, NEW answer \in {"done", "refused", "error"}, P!Patched(c, answer)
    PROVE  PageInv'
  <1>1. UNCHANGED <<items, pSeq, enhancing, deletion, chosen>>
    BY DEF P!Patched, P!batchVars
  <1>2. /\ cur' \in PageProfiles \cup {P!None}
        /\ seen' \in [items : SUBSET PageProfiles, current : PageProfiles \cup {P!None}]
    BY DEF P!Patched, P!Answered, P!Fetched, PageInv, PageTypes, P!Calls
  <1>3. CASE ~c.live \/ P!Outdated(c) \/ P!Aborted(c) \/ answer = "error"
    <2>1. P!Cleanup(c) \/ (~c.live /\ calls' = calls \ {c} /\ UNCHANGED <<switching, activatings>>)
      BY <1>3 DEF P!Patched
    <2>2. /\ switching' \in PageProfiles \cup {P!None} /\ calls' \subseteq P!Calls
          /\ activatings' \subseteq PageProfiles
          /\ Numbered' /\ Spinners' /\ Tracked'
      BY <1>1, <2>1, PageEndInv
    <2> QED BY <1>1, <1>2, <2>2 DEF PageInv, PageTypes
  <1>4. CASE c.live /\ ~(P!Outdated(c) \/ P!Aborted(c) \/ answer = "error")
    <2> DEFINE onward == [c EXCEPT !.at = "logs"]
    <2>1. calls' = (calls \ {c}) \cup {onward} /\ UNCHANGED <<switching, activatings>>
      BY <1>4 DEF P!Patched
    <2>2. onward \in P!Calls /\ onward.seq = c.seq /\ onward.profile = c.profile /\ onward.live
      BY <1>4 DEF PageInv, PageTypes, P!Calls
    <2> HIDE DEF onward
    <2>3. PageTypes'
      BY <1>1, <1>2, <2>1, <2>2 DEF PageInv, PageTypes
    <2>4. Numbered'
      BY <1>1, <2>1, <2>2 DEF PageInv, Numbered
    <2>5. Tracked'
      <3>1. c.seq = pSeq /\ c \in P!Live /\ onward \in P!Live' /\ switching = c.profile
        BY <1>4, <2>1, <2>2 DEF P!Outdated, P!Live, PageInv, Tracked
      <3>2. \A d \in P!Live' : d = onward \/ d \in P!Live
        BY <2>1 DEF P!Live
      <3> QED BY <1>1, <2>1, <2>2, <3>1, <3>2 DEF PageInv, Tracked
    <2>6. Spinners'
      BY <1>1, <2>1 DEF PageInv, Spinners
    <2> QED BY <2>3, <2>4, <2>5, <2>6 DEF PageInv
  <1> QED BY <1>3, <1>4

LEMMA PageSwitchedInv ==
    ASSUME PageInv, NEW c \in calls, P!Switched(c)
    PROVE  PageInv'
  <1>1. UNCHANGED <<items, cur, seen, pSeq, enhancing, deletion, chosen>>
    BY DEF P!Switched, P!batchVars
  <1>2. P!Cleanup(c) \/ (~c.live /\ calls' = calls \ {c} /\ UNCHANGED <<switching, activatings>>)
    BY DEF P!Switched
  <1> QED BY <1>1, <1>2, PageEndInv DEF PageInv, PageTypes

LEMMA PageLeaveInv ==
    ASSUME PageInv, P!Leave
    PROVE  PageInv'
  <1>1. /\ calls' = {[c EXCEPT !.live = FALSE] : c \in calls}
        /\ switching' = P!None /\ activatings' = {} /\ chosen' = {}
        /\ deletion' = P!NoDeletion /\ UNCHANGED <<items, cur, seen, pSeq>>
    BY DEF P!Leave
  <1>2. \A d \in calls' : \E c \in calls : d = [c EXCEPT !.live = FALSE]
    BY <1>1
  <1>3. \A c \in calls : /\ [c EXCEPT !.live = FALSE] \in P!Calls
                         /\ [c EXCEPT !.live = FALSE].seq = c.seq
                         /\ [c EXCEPT !.live = FALSE].live = FALSE
    BY DEF PageInv, PageTypes, P!Calls
  <1>4. PageTypes'
    BY <1>1, <1>2, <1>3 DEF PageInv, PageTypes, Deletions, P!NoDeletion, P!Idle
  <1>5. Numbered'
    <2>1. ASSUME NEW d \in calls' PROVE d.seq <= pSeq'
      <3>1. PICK a \in calls : d = [a EXCEPT !.live = FALSE]
        BY <1>2
      <3>2. d.seq = a.seq
        BY <1>3, <3>1
      <3> QED BY <1>1, <3>2 DEF PageInv, Numbered
    <2>2. ASSUME NEW d \in calls', NEW e \in calls', d.seq = e.seq PROVE d = e
      <3>1. PICK a \in calls : d = [a EXCEPT !.live = FALSE]
        BY <1>2
      <3>2. PICK b \in calls : e = [b EXCEPT !.live = FALSE]
        BY <1>2
      <3>3. a = b
        BY <1>3, <2>2, <3>1, <3>2 DEF PageInv, Numbered
      <3> QED BY <3>1, <3>2, <3>3
    <2> QED BY <2>1, <2>2 DEF Numbered
  <1>6. P!Live' = {}
    BY <1>2, <1>3 DEF P!Live
  <1> QED BY <1>1, <1>4, <1>5, <1>6 DEF PageInv, Tracked, Spinners

\* A deletion that is at a step is under way.
LEMMA DeletionRuns ==
    ASSUME NEW w \in P!Ways, deletion'[w].at # "idle"
    PROVE  deletion' # P!NoDeletion
  <1>1. P!NoDeletion[w].at = "idle"
    BY DEF P!NoDeletion, P!Idle
  <1> QED BY <1>1

\* The operations beside the switches.
PageOther ==
    \/ \E p \in PageProfiles : \/ P!Delete(p) \/ P!Choose(p) \/ P!Drop(p)
                               \/ \E w \in P!Ways, good \in BOOLEAN : P!Deleted(w, p, good)
                               \/ \E e \in P!Errors \cup {P!None} : P!Imported(p, e)
    \/ \E c \in timers : P!Background(c)
    \/ P!Return \/ (\E good \in BOOLEAN : P!Fetch(good)) \/ P!Enhance \/ P!Emergency \/ P!Enhanced
    \/ P!DeleteChosen \/ (\E w \in P!Ways : P!AfterDeletion(w) \/ P!EndDeletion(w))
    \/ P!ToggleBatch \/ P!ChooseAll \/ P!Import \/ P!Refreshed \/ UNCHANGED P!vars

LEMMA PageOtherInv ==
    ASSUME PageInv, PageOther
    PROVE  PageInv'
  <1> USE DEF P!switchVars, P!batchVars
  <1>1. P!Current \subseteq PageProfiles
    BY DEF PageInv, PageTypes, P!Current
  <1>2. ASSUME NEW who, who # "no", P!Begin(who), UNCHANGED <<switching, deletion>>
        PROVE Spinners' /\ activatings' \subseteq PageProfiles
    BY <1>1, <1>2 DEF P!Begin, PageInv, PageTypes, Spinners
  <1>3. ASSUME NEW p \in PageProfiles,
               \/ P!Delete(p) \/ P!Choose(p) \/ P!Drop(p)
               \/ \E w \in P!Ways, good \in BOOLEAN : P!Deleted(w, p, good)
               \/ \E e \in P!Errors \cup {P!None} : P!Imported(p, e)
        PROVE PageInv'
    <2>1. CASE P!Delete(p)
      <3> DEFINE begun == [todo |-> {p}, current |-> seen.current = p, at |-> "call"]
      <3>1. deletion' = [deletion EXCEPT !["one"] = begun] /\ begun \in Deletions /\ begun.at = "call"
        BY <2>1 DEF P!Delete, Deletions
      <3> HIDE DEF begun
      <3>2. deletion' \in [P!Ways -> Deletions] /\ deletion'["one"].at = "call" /\ "one" \in P!Ways
        BY <3>1 DEF PageInv, PageTypes, P!Ways
      <3>3. deletion' # P!NoDeletion
        BY <3>2, DeletionRuns
      <3>4. activatings' = {p} /\ UNCHANGED <<items, cur, seen, pSeq, switching, calls, chosen>>
        BY <2>1 DEF P!Delete
      <3> QED BY <3>2, <3>3, <3>4, PageSameRuns DEF PageInv, PageTypes, Spinners
    <2>2. CASE P!Choose(p)
      BY <2>2, PageSameRuns DEF P!Choose, PageInv, PageTypes, Spinners
    <2>3. CASE P!Drop(p)
      BY <2>3, PageSameRuns DEF P!Drop, PageInv, PageTypes, Spinners, P!Fetched
    <2>4. ASSUME NEW w \in P!Ways, NEW good \in BOOLEAN, P!Deleted(w, p, good) PROVE PageInv'
      <3>1. UNCHANGED <<seen, pSeq, switching, calls, chosen, enhancing>>
        BY <2>4 DEF P!Deleted
      <3>2. CASE good /\ p \in items
        <4> DEFINE going == [deletion[w] EXCEPT
                               !.todo = @ \ {p},
                               !.at = IF deletion[w].todo = {p} THEN "after" ELSE "call"]
        <4>1. deletion' = [deletion EXCEPT ![w] = going]
          BY <2>4, <3>2 DEF P!Deleted
        <4>2. going \in Deletions /\ going.at # "idle"
          BY DEF Deletions, PageInv, PageTypes
        <4> HIDE DEF going
        <4>3. deletion' \in [P!Ways -> Deletions] /\ deletion'[w].at # "idle"
          BY <4>1, <4>2 DEF PageInv, PageTypes
        <4>4. cur' \in PageProfiles \cup {P!None} /\ items' \subseteq PageProfiles
          BY <2>4, <3>2 DEF P!Deleted, PageInv, PageTypes
        <4>5. UNCHANGED activatings /\ deletion' # P!NoDeletion
          BY <2>4, <3>2, <4>3, DeletionRuns DEF P!Deleted
        <4> QED BY <3>1, <4>3, <4>4, <4>5, PageSameRuns DEF PageInv, PageTypes, Spinners
      <3>3. CASE ~(good /\ p \in items)
        <4>1. activatings' = {} /\ UNCHANGED <<items, cur>>
          BY <2>4, <3>3 DEF P!Deleted
        <4>2. deletion' = [deletion EXCEPT ![w] = P!Idle] /\ P!Idle \in Deletions
          BY <2>4, <3>3 DEF P!Deleted, Deletions, P!Idle
        <4>3. deletion' \in [P!Ways -> Deletions]
          BY <4>2 DEF PageInv, PageTypes
        <4> QED BY <3>1, <4>1, <4>3, PageSameRuns DEF PageInv, PageTypes, Spinners
      <3> QED BY <3>2, <3>3
    <2>5. ASSUME NEW e \in P!Errors \cup {P!None}, P!Imported(p, e) PROVE PageInv'
      BY <2>5, PageSameRuns DEF P!Imported, PageInv, PageTypes, Spinners
    <2> QED BY <1>3, <2>1, <2>2, <2>3, <2>4, <2>5
  <1>4. CASE (\E c \in timers : P!Background(c)) \/ P!Import \/ UNCHANGED P!vars
    BY <1>4, PageSameRuns DEF P!Background, P!Import, P!vars, PageInv, PageTypes, Spinners
  <1>5. CASE P!Return \/ \E good \in BOOLEAN : P!Fetch(good)
    BY <1>5, PageSameRuns DEF P!Return, P!Fetch, P!Fetched, PageInv, PageTypes, Spinners
  <1>6. CASE P!ToggleBatch \/ P!ChooseAll
    BY <1>6, PageSameRuns DEF P!ToggleBatch, P!ChooseAll, PageInv, PageTypes, Spinners
  <1>7. CASE P!Enhance \/ P!Emergency
    <2>1. P!Begin("page") /\ UNCHANGED <<items, cur, pSeq, switching, calls, deletion, chosen>>
      BY <1>7 DEF P!Enhance, P!Emergency
    <2>2. seen' \in [items : SUBSET PageProfiles, current : PageProfiles \cup {P!None}]
      BY <1>7 DEF P!Enhance, P!Emergency, P!Fetched, PageInv, PageTypes
    <2> QED BY <1>2, <2>1, <2>2, PageSameRuns DEF PageInv, PageTypes
  <1>8. CASE P!Enhanced
    BY <1>8, PageSameRuns DEF P!Enhanced, PageInv, PageTypes, Spinners
  <1>9. CASE P!DeleteChosen
    <2> DEFINE begun == [todo |-> chosen, at |-> "call", current |-> seen.current \in chosen]
    <2>1. deletion' = [deletion EXCEPT !["many"] = begun] /\ begun \in Deletions /\ begun.at = "call"
      BY <1>9 DEF P!DeleteChosen, Deletions, PageInv, PageTypes
    <2> HIDE DEF begun
    <2>2. deletion' \in [P!Ways -> Deletions] /\ deletion'["many"].at = "call" /\ "many" \in P!Ways
      BY <2>1 DEF PageInv, PageTypes, P!Ways
    <2>3. deletion' # P!NoDeletion
      BY <2>2, DeletionRuns
    <2>4. /\ activatings' = activatings \cup (chosen \cap P!Current)
          /\ UNCHANGED <<items, cur, seen, pSeq, switching, calls, chosen>>
      BY <1>9 DEF P!DeleteChosen
    <2> QED BY <1>1, <2>2, <2>3, <2>4, PageSameRuns DEF PageInv, PageTypes, Spinners
  <1>10. ASSUME NEW w \in P!Ways, P!AfterDeletion(w) PROVE PageInv'
    <2> DEFINE going == [deletion[w] EXCEPT !.at = "end"]
    <2>1. deletion' = [deletion EXCEPT ![w] = going] /\ going \in Deletions /\ going.at = "end"
      BY <1>10 DEF P!AfterDeletion, Deletions, PageInv, PageTypes
    <2> HIDE DEF going
    <2>2. deletion' \in [P!Ways -> Deletions] /\ deletion'[w].at = "end"
      BY <2>1 DEF PageInv, PageTypes
    <2>3. deletion' # P!NoDeletion
      BY <2>2, DeletionRuns
    <2>4. activatings' \subseteq PageProfiles
      BY <1>1, <1>10 DEF P!AfterDeletion, P!Begin, PageInv, PageTypes
    <2>5. seen' = P!Fetched(items, cur) /\ UNCHANGED <<items, cur, pSeq, switching, calls, chosen>>
      BY <1>10 DEF P!AfterDeletion
    <2> QED BY <2>2, <2>3, <2>4, <2>5, PageSameRuns DEF P!Fetched, PageInv, PageTypes, Spinners
  <1>11. ASSUME NEW w \in P!Ways, P!EndDeletion(w) PROVE PageInv'
    <2>1. activatings' = {} /\ UNCHANGED <<items, cur, seen, pSeq, switching, calls>>
      BY <1>11 DEF P!EndDeletion
    <2>2. chosen' \subseteq PageProfiles
      BY <1>11 DEF P!EndDeletion, PageInv, PageTypes
    <2>3. deletion' \in [P!Ways -> Deletions]
      BY <1>11 DEF P!EndDeletion, PageInv, PageTypes, Deletions, P!Idle
    <2> QED BY <2>1, <2>2, <2>3, PageSameRuns DEF PageInv, PageTypes, Spinners
  <1>12. CASE P!Refreshed
    <2>1. CASE import = "fetch"
      <3>1. P!Begin("import") /\ seen' = P!Fetched(items, cur)
            /\ UNCHANGED <<items, cur, pSeq, switching, calls, deletion, chosen>>
        BY <1>12, <2>1 DEF P!Refreshed
      <3> QED BY <1>2, <3>1, PageSameRuns DEF PageInv, PageTypes, P!Fetched
    <2>2. CASE import # "fetch"
      BY <1>12, <2>2, PageSameRuns DEF P!Refreshed, PageInv, PageTypes, Spinners
    <2> QED BY <2>1, <2>2
  <1> QED BY <1>3, <1>4, <1>5, <1>6, <1>7, <1>8, <1>9, <1>10, <1>11, <1>12 DEF PageOther

LEMMA PageNext == PageInv /\ [P!Next]_(P!vars) => PageInv'
  <1> SUFFICES ASSUME PageInv, [P!Next]_(P!vars) PROVE PageInv'
    OBVIOUS
  <1>1. \/ \E p \in PageProfiles, force \in BOOLEAN : P!Select(p, force)
        \/ \E c \in calls, a \in {"done", "refused", "error"} : P!Patched(c, a)
        \/ \E c \in calls : P!Switched(c)
        \/ P!Leave \/ PageOther
    BY DEF P!Next, PageOther
  <1> QED BY <1>1, PageSelectInv, PagePatchedInv, PageSwitchedInv, PageLeaveInv, PageOtherInv

\* The page behaves as ProfilesPage says, whatever the behaviour is about.
LEMMA PageBehaves == PageSpec => [](P!SwitchTracked)
  <1>1. Start => P!Init
    BY DEF Start
  <1>2. [Step]_all => [P!Next]_(P!vars)
    BY DEF Step, PagesStep, all, pages, Pvars, P!vars, P!switchVars, P!batchVars
  <1> QED BY <1>1, <1>2, PageInit, PageNext, PageInvTracks, PTL DEF PageSpec

\* The page marks exactly the latest switch under way, however many runs replaced one
\* another and whatever is refused, aborted, deleted or reactivated meanwhile, and no
\* spinner is left when nothing is under way.
THEOREM SwitchTrackedHolds == PageSpec => []SwitchTracked
  <1>1. P!SwitchTracked => SwitchTracked
    BY DEF SwitchTracked
  <1> QED BY <1>1, PageBehaves, PTL

-----------------------------------------------------------------------------
(* The editor of a document.                                               *)

DocReads == [run : Nat, text : DocTexts \cup {D!Empty}]

DocTypes ==
    /\ dFile \in DocTexts \cup {D!Empty} /\ saved \in DocTexts \cup {D!Empty} /\ run \in Nat /\ loads \subseteq DocReads
    /\ dSaving \in [at : {"no", "sent", "written", "reload"}, text : DocTexts \cup {D!Empty},
                   old : DocTexts \cup {D!Empty}, reopened : BOOLEAN, crossed : BOOLEAN]

\* Each effect has a read of its own, and the last one is that of the editor.
OneRead ==
    /\ \A l \in loads : l.run <= run
    /\ \A l, m \in loads : l.run = m.run => l = m

\* Unless the editor was opened while a save was on its way: once it has loaded,
\* nothing of it is on its way.
NoneLeft ==
    ~dSaving.crossed /\ (~loading \/ dSaving.at # "no") =>
        \A l \in loads : l.run # run

\* What the file is when no save succeeds.
DocKept == IF dSaving.at = "no" THEN dFile ELSE dSaving.old

\* What it has read, and what it will, is the file.
ReadsFile ==
    ~dSaving.crossed =>
        /\ saved \in {D!Empty, DocKept}
        /\ dSaving.at = "reload" => dFile = dSaving.old
        /\ dSaving.at = "no" =>
             \A l \in loads : l.run = run => l.text \in {D!Empty, dFile}

DocInv == DocTypes /\ OneRead /\ NoneLeft /\ ReadsFile

LEMMA DocClean == DocInv => D!CleanIsFile
  BY DEF DocInv, ReadsFile, DocKept, D!CleanIsFile, D!Dirty, D!NotSaving

LEMMA DocInit == DocValid \subseteq DocTexts /\ D!Init => DocInv
  BY DEF D!Init, DocInv, DocTypes, OneRead, NoneLeft, ReadsFile, DocKept, D!NotSaving

\* A new effect: nothing that is on its way is its own.
LEMMA DocResetInv ==
    ASSUME DocInv, run' = run + 1, saved' = D!Empty, UNCHANGED <<dFile, loads>>,
           dSaving' = dSaving \/ dSaving' = D!Ended
    PROVE  DocInv'
  <1>1. \A l \in loads : l.run # run'
    BY DEF DocInv, DocTypes, OneRead, DocReads
  <1>2. \A l \in loads : l.run <= run'
    BY DEF DocInv, DocTypes, OneRead, DocReads
  <1>3. DocTypes'
    <2>1. CASE dSaving' = dSaving
      BY <2>1 DEF DocInv, DocTypes
    <2>2. CASE dSaving' = D!Ended
      <3>1. dSaving.crossed \in BOOLEAN
        BY DEF DocInv, DocTypes
      <3>2. D!Ended \in [at : {"no", "sent", "written", "reload"}, text : DocTexts \cup {D!Empty},
                       old : DocTexts \cup {D!Empty}, reopened : BOOLEAN, crossed : BOOLEAN]
        BY <3>1 DEF D!Ended, D!NotSaving
      <3> QED BY <2>2, <3>2 DEF DocInv, DocTypes
    <2> QED BY <2>1, <2>2
  <1>4. dSaving'.at = "reload" => dSaving' = dSaving
    BY DEF D!Ended, D!NotSaving
  <1>5. ReadsFile'
    BY <1>1, <1>4 DEF DocInv, ReadsFile
  <1> QED BY <1>1, <1>2, <1>3, <1>5 DEF DocInv, OneRead, NoneLeft

LEMMA DocOpenedInv ==
    ASSUME DocInv, NEW k, D!Opened(k)
    PROVE  DocInv'
  <1> DEFINE new == [run |-> run', text |-> D!Empty]
  <1>1. /\ run' = run + 1 /\ saved' = D!Empty /\ loading' = TRUE /\ dFile' = dFile
        /\ loads' = loads \cup {new}
        /\ dSaving' = [dSaving EXCEPT !.reopened = dSaving.at # "no", !.crossed = dSaving.at # "no"]
    BY DEF D!Opened, D!Reset
  <1>2. \A l \in loads : l.run \in Nat /\ l.run < run'
    BY <1>1 DEF DocInv, DocTypes, OneRead, DocReads
  <1>3. new \in DocReads /\ new.run = run' /\ new.text = D!Empty /\ run' \in Nat
    BY <1>1 DEF DocInv, DocTypes, DocReads
  <1>4. /\ dSaving'.at = dSaving.at /\ dSaving'.old = dSaving.old
        /\ dSaving'.crossed = (dSaving.at # "no")
    BY <1>1 DEF DocInv, DocTypes
  <1> HIDE DEF new
  <1>5. DocTypes'
    BY <1>1, <1>3, <1>4 DEF DocInv, DocTypes
  <1>6. \A l \in loads' : l = new \/ l \in loads
    BY <1>1
  <1>7. OneRead'
    <2>1. \A l \in loads' : l.run <= run'
      BY <1>2, <1>3, <1>6
    <2>2. \A l, m \in loads' : l.run = m.run => l = m
      BY <1>2, <1>3, <1>6 DEF DocInv, OneRead
    <2> QED BY <2>1, <2>2 DEF OneRead
  <1>8. NoneLeft' /\ ReadsFile'
    <2>1. ~dSaving'.crossed => dSaving'.at = "no"
      BY <1>4
    <2> QED BY <1>1, <1>2, <1>3, <1>6, <2>1 DEF NoneLeft, ReadsFile
  <1> QED BY <1>5, <1>7, <1>8 DEF DocInv

LEMMA DocReadInv ==
    ASSUME DocInv, NEW l \in loads, D!ReadFile(l)
    PROVE  DocInv'
  <1> DEFINE m == [l EXCEPT !.text = dFile]
  <1>1. loads' = (loads \ {l}) \cup {m} /\ UNCHANGED <<dFile, saved, loading, run, dSaving>>
    BY DEF D!ReadFile
  <1>2. m \in DocReads /\ m.run = l.run /\ m.text = dFile
    BY DEF DocInv, DocTypes, DocReads
  <1> HIDE DEF m
  <1>3. DocTypes'
    BY <1>1, <1>2 DEF DocInv, DocTypes
  <1>4. OneRead'
    BY <1>1, <1>2 DEF DocInv, OneRead
  <1>5. NoneLeft' /\ ReadsFile'
    BY <1>1, <1>2 DEF DocInv, NoneLeft, ReadsFile, DocKept
  <1> QED BY <1>3, <1>4, <1>5 DEF DocInv

LEMMA DocLoadedInv ==
    ASSUME DocInv, NEW l \in loads, NEW good \in BOOLEAN, D!Loaded(l, good)
    PROVE  DocInv'
  <1>1. loads' = loads \ {l} /\ UNCHANGED <<dFile, run, dSaving>> /\ l.text # D!Empty
    BY DEF D!Loaded
  <1>2. saved' = saved \/ (l.run = run /\ saved' = l.text)
    BY DEF D!Loaded
  <1>3. l.run # run => UNCHANGED <<saved, loading>>
    BY DEF D!Loaded
  <1>4. DocTypes'
    BY <1>1, <1>2 DEF DocInv, DocTypes, DocReads
  <1>5. OneRead'
    BY <1>1 DEF DocInv, OneRead
  <1>6. NoneLeft'
    <2>1. CASE l.run = run
      BY <1>1, <2>1 DEF DocInv, OneRead, NoneLeft
    <2>2. CASE l.run # run
      BY <1>1, <1>3, <2>2 DEF DocInv, NoneLeft
    <2> QED BY <2>1, <2>2
  <1>7. ReadsFile'
    <2>1. ~dSaving.crossed /\ l.run = run => dSaving.at = "no" /\ l.text = dFile
      BY <1>1 DEF DocInv, NoneLeft, ReadsFile
    <2> QED BY <1>1, <1>2, <2>1 DEF DocInv, ReadsFile, DocKept
  <1> QED BY <1>4, <1>5, <1>6, <1>7 DEF DocInv

LEMMA DocSaveInv ==
    ASSUME DocInv, value \in DocTexts \cup {D!Empty}, D!Save \/ D!Written
    PROVE  DocInv'
  <1>1. CASE D!Save
    <2>1. /\ dSaving' = [at |-> "sent", text |-> value, old |-> dFile, reopened |-> FALSE,
                        crossed |-> dSaving.crossed]
          /\ dSaving.at = "no" /\ ~loading /\ UNCHANGED <<dFile, saved, loading, run, loads>>
      BY <1>1 DEF D!Save, D!docVars, D!DisableSave
    <2>2. DocTypes'
      BY <2>1 DEF DocInv, DocTypes
    <2> QED BY <2>1, <2>2 DEF DocInv, OneRead, NoneLeft, ReadsFile, DocKept
  <1>2. CASE D!Written
    <2>1. /\ dSaving' = [dSaving EXCEPT !.at = "written"] /\ dFile' = dSaving.text
          /\ dSaving.at = "sent" /\ UNCHANGED <<saved, loading, run, loads>>
      BY <1>2 DEF D!Written, D!docVars
    <2> QED BY <2>1 DEF DocInv, DocTypes, OneRead, NoneLeft, ReadsFile, DocKept
  <1> QED BY <1>1, <1>2

LEMMA DocEndInv ==
    ASSUME DocInv, NEW k, D!Accepted(k) \/ D!Refused(k) \/ D!SaveFailed(k)
    PROVE  DocInv'
  <1>1. CASE D!Accepted(k)
    BY <1>1, DocResetInv DEF D!Accepted, D!Reset
  <1>2. CASE D!Refused(k)
    <2>1. /\ dSaving' = [dSaving EXCEPT !.at = "reload"] /\ dFile' = dSaving.old
          /\ dSaving.at = "written" /\ UNCHANGED <<saved, run, loads>>
      BY <1>2 DEF D!Refused
    <2> QED BY <2>1 DEF DocInv, DocTypes, OneRead, NoneLeft, ReadsFile, DocKept
  <1>3. CASE D!SaveFailed(k)
    <2>1. /\ dSaving' = D!Ended /\ dFile' = dSaving.old
          /\ dSaving.at # "no" /\ UNCHANGED <<saved, loading, run, loads>>
      BY <1>3 DEF D!SaveFailed, D!docVars
    <2>2. dSaving'.at = "no" /\ dSaving'.crossed = dSaving.crossed /\ DocTypes'
      BY <2>1 DEF DocInv, DocTypes, D!Ended, D!NotSaving
    <2> QED BY <2>1, <2>2 DEF DocInv, OneRead, NoneLeft, ReadsFile, DocKept
  <1> QED BY <1>1, <1>2, <1>3

LEMMA DocReloadedInv ==
    ASSUME DocInv, NEW good \in BOOLEAN, D!Reloaded(good)
    PROVE  DocInv'
  <1>1. CASE good
    BY <1>1, DocResetInv DEF D!Reloaded, D!Reset
  <1>2. CASE ~good
    <2>1. /\ dSaving' = D!Ended /\ dSaving.at = "reload"
          /\ UNCHANGED <<dFile, saved, run, loads>>
      BY <1>2 DEF D!Reloaded
    <2>2. dSaving'.at = "no" /\ dSaving'.crossed = dSaving.crossed /\ DocTypes'
      BY <2>1 DEF DocInv, DocTypes, D!Ended, D!NotSaving
    <2> QED BY <2>1, <2>2 DEF DocInv, OneRead, NoneLeft, ReadsFile, DocKept
  <1> QED BY <1>1, <1>2

DocFull == DocInv /\ value \in DocTexts \cup {D!Empty}

LEMMA DocStep == DocFull /\ [D!Next]_(D!vars) => DocFull'
  <1> SUFFICES ASSUME DocFull, [D!Next]_(D!vars) PROVE DocInv' /\ value' \in DocTexts \cup {D!Empty}
    BY DEF DocFull
  <1> USE DEF DocFull, D!docVars
  <1>1. ASSUME NEW l \in loads, D!ReadFile(l) \/ \E good \in BOOLEAN : D!Loaded(l, good)
        PROVE  DocInv' /\ value' \in DocTexts \cup {D!Empty}
    <2>1. l.text \in DocTexts \cup {D!Empty}
      BY DEF DocInv, DocTypes, DocReads
    <2> QED BY <1>1, <2>1, DocReadInv, DocLoadedInv DEF D!ReadFile, D!Loaded
  <1>2. CASE D!OpenFile \/ D!OpenMerge \/ D!OpenScript \/ D!OpenGlobal
    <2>1. PICK k \in D!Files : D!Opened(k)
      BY <1>2 DEF D!OpenFile, D!OpenMerge, D!OpenScript, D!OpenGlobal, D!Files
    <2> QED BY <2>1, DocOpenedInv DEF D!Opened, D!Reset
  <1>3. CASE D!Close \/ D!SaveIgnored
    BY <1>3, DocResetInv DEF D!Close, D!SaveIgnored, D!Reset
  <1>4. ASSUME NEW x \in DocTexts, D!Type(x) \/ D!Paste(x) \/ D!Format(x)
        PROVE  DocInv' /\ value' \in DocTexts \cup {D!Empty}
    <2>1. D!Edited(x)
      BY <1>4 DEF D!Type, D!Paste, D!Format
    <2> QED BY <2>1 DEF D!Edited, DocInv, DocTypes, OneRead, NoneLeft, ReadsFile, DocKept
  <1>5. CASE D!Save \/ D!Written
    BY <1>5, DocSaveInv DEF D!Save, D!Written
  <1>6. CASE D!SaveProfile \/ D!SaveMerge \/ D!SaveScript \/ D!SaveGlobal
    <2>1. PICK k \in D!Files : D!Accepted(k) \/ D!Refused(k) \/ D!SaveFailed(k)
      BY <1>6 DEF D!SaveProfile, D!SaveMerge, D!SaveScript, D!SaveGlobal, D!Files
    <2> QED BY <2>1, DocEndInv DEF D!Accepted, D!Refused, D!SaveFailed, D!Reset
  <1>7. ASSUME NEW good \in BOOLEAN, D!Reloaded(good)
        PROVE  DocInv' /\ value' \in DocTexts \cup {D!Empty}
    BY <1>7, DocReloadedInv DEF D!Reloaded, D!Reset
  <1>8. CASE UNCHANGED D!vars
    BY <1>8 DEF D!vars, DocInv, DocTypes, OneRead, NoneLeft, ReadsFile, DocKept
  <1> QED BY <1>1, <1>2, <1>3, <1>4, <1>5, <1>6, <1>7, <1>8 DEF D!Next

LEMMA DocHolds == PageSpec => []D!CleanIsFile
  <1>1. Start => DocFull
    BY DocInit, DocAssumption DEF Start, DocFull, D!Init
  <1>2. [Step]_all => [D!Next]_(D!vars)
    BY DEF Step, PagesStep, all, pages, Dvars, D!vars, D!docVars
  <1>3. DocFull => D!CleanIsFile
    BY DocClean DEF DocFull
  <1> QED BY <1>1, <1>2, <1>3, DocStep, PTL DEF PageSpec

-----------------------------------------------------------------------------
(* The form of a profile.                                                  *)

\* What is saved is the form it was called with, and nothing is reported before
\* its end; what is restored is an edit.
FormInv ==
    /\ stored \in [FormUids \cup {F!Nobody} -> F!Options]
    /\ form.option \in F!Options /\ form.uid \in FormUids \cup {F!Nobody}
    /\ form = [type |-> form.type, uid |-> form.uid, url |-> form.url, option |-> form.option]
    /\ openType \in {"new", "edit"}
    /\ fSaving = [at |-> fSaving.at, type |-> fSaving.type, form |-> fSaving.form]
    /\ fSaving.form.option \in F!Options /\ fSaving.form.uid \in FormUids \cup {F!Nobody}
    /\ fSaving.type \in {"new", "edit"} /\ fSaving.at \in F!Steps
    /\ fSaving.at # "none" => ended = "none"
    /\ fSaving.at = "restore" => fSaving.type = "edit"
    /\ F!ProxyKept

LEMMA FormInit == F!Init => FormInv
  <1> SUFFICES ASSUME F!Init PROVE FormInv
    OBVIOUS
  <1>1. PICK w \in BOOLEAN : stored = [u \in FormUids \cup {F!Nobody} |->
          [F!Default.option EXCEPT !.with = w, !.interval = TRUE, !.rest = (u # F!Nobody)]]
    BY DEF F!Init
  <1>2. \A u : [F!Default.option EXCEPT !.with = w, !.interval = TRUE, !.rest = (u # F!Nobody)] \in F!Options
    BY DEF F!Default, F!Options
  <1>3. stored \in [FormUids \cup {F!Nobody} -> F!Options]
    BY <1>1, <1>2
  <1> QED BY <1>3 DEF F!Init, FormInv, F!Default, F!NotSaving, F!Options, F!Steps, F!ProxyKept, F!Edited

\* The form is filled in: what is saved is not touched.
LEMMA FormFilledInv ==
    ASSUME FormInv, UNCHANGED <<stored, fSaving, ended>>, openType' \in {"new", "edit"},
           form' = [type |-> form'.type, uid |-> form'.uid, url |-> form'.url, option |-> form'.option],
           form'.option \in F!Options, form'.uid \in FormUids \cup {F!Nobody}
    PROVE  FormInv'
  BY DEF FormInv, F!ProxyKept, F!Edited

LEMMA FormFillInv ==
    ASSUME FormInv,
           \/ F!Create \/ F!PickFile \/ F!Close \/ F!Reset \/ F!FillUrl \/ F!FillInterval
           \/ \E u \in FormUids : F!Edit(u)
           \/ \E t \in {"remote", "local"} : F!ChooseType(t)
           \/ \E b \in BOOLEAN : F!UseSystemProxy(b) \/ F!UseClashProxy(b)
    PROVE  FormInv'
  <1> DEFINE Whole(f) == f = [type |-> f.type, uid |-> f.uid, url |-> f.url, option |-> f.option]
                         /\ f.option \in F!Options /\ f.uid \in FormUids \cup {F!Nobody}
  <1>0. Whole(form)
    BY DEF FormInv
  <1>1. ASSUME NEW f, F!Fill(f), Whole(f) PROVE FormInv'
    <2>1. form' = f /\ UNCHANGED <<stored, fSaving, ended, openType>>
      BY <1>1 DEF F!Fill
    <2> QED BY <1>1, <2>1, FormFilledInv DEF FormInv
  <1>2. CASE F!Create \/ F!PickFile \/ F!Close
    BY <1>0, <1>2, FormFilledInv DEF F!Create, F!PickFile, F!Close, FormInv
  <1>3. CASE F!Reset
    BY <1>3, FormFilledInv DEF F!Reset, FormInv, F!Default, F!Options
  <1>4. CASE F!FillUrl
    <2>1. F!Fill([form EXCEPT !.url = ~@])
      BY <1>4 DEF F!FillUrl
    <2>2. Whole([form EXCEPT !.url = ~@])
      BY <1>0
    <2> HIDE DEF Whole
    <2> QED BY <1>1, <2>1, <2>2
  <1>5. CASE F!FillInterval
    <2>1. F!Fill([form EXCEPT !.option.interval = ~@])
      BY <1>5 DEF F!FillInterval
    <2>2. Whole([form EXCEPT !.option.interval = ~@])
      <3>1. [form EXCEPT !.option.interval = ~@] =
              [type |-> form.type, uid |-> form.uid, url |-> form.url,
               option |-> [form.option EXCEPT !.interval = ~@]]
        BY <1>0
      <3>2. [form.option EXCEPT !.interval = ~@] \in F!Options
        BY <1>0 DEF F!Options
      <3> QED BY <1>0, <3>1, <3>2
    <2> HIDE DEF Whole
    <2> QED BY <1>1, <2>1, <2>2
  <1>6. ASSUME NEW u \in FormUids, F!Edit(u) PROVE FormInv'
    <2>1. stored[u] \in F!Options
      BY DEF FormInv
    <2> QED BY <1>6, <2>1, FormFilledInv DEF F!Edit
  <1>7. ASSUME NEW t \in {"remote", "local"}, F!ChooseType(t) PROVE FormInv'
    <2>1. F!Fill([form EXCEPT !.type = t])
      BY <1>7 DEF F!ChooseType
    <2>2. Whole([form EXCEPT !.type = t])
      BY <1>0
    <2> HIDE DEF Whole
    <2> QED BY <1>1, <2>1, <2>2
  <1>8. ASSUME NEW b \in BOOLEAN, F!UseSystemProxy(b) PROVE FormInv'
    <2> DEFINE g == [form EXCEPT !.option.with = b, !.option.self = @ /\ ~b]
    <2>1. F!Fill(g)
      BY <1>8 DEF F!UseSystemProxy
    <2>2. Whole(g)
      <3> DEFINE o == [form.option EXCEPT !.with = b]
                 h == [type |-> form.type, uid |-> form.uid, url |-> form.url, option |-> o]
                 v == form.option.self /\ ~b
      <3>1. [form EXCEPT !.option.with = b] = h
        BY <1>0
      <3>2. g = [h EXCEPT !.option.self = v]
        BY <3>1
      <3>3. v \in BOOLEAN /\ o \in F!Options
        BY <1>0 DEF F!Options
      <3> HIDE DEF o, v, g
      <3>4. g = [type |-> form.type, uid |-> form.uid, url |-> form.url,
                 option |-> [o EXCEPT !.self = v]]
        BY <3>2
      <3>5. [o EXCEPT !.self = v] \in F!Options
        BY <3>3 DEF F!Options
      <3> QED BY <1>0, <3>4, <3>5
    <2> HIDE DEF Whole, g
    <2> QED BY <1>1, <2>1, <2>2
  <1>9. ASSUME NEW b \in BOOLEAN, F!UseClashProxy(b) PROVE FormInv'
    <2> DEFINE g == [form EXCEPT !.option.self = b, !.option.with = @ /\ ~b]
    <2>1. F!Fill(g)
      BY <1>9 DEF F!UseClashProxy
    <2>2. Whole(g)
      <3> DEFINE o == [form.option EXCEPT !.self = b]
                 h == [type |-> form.type, uid |-> form.uid, url |-> form.url, option |-> o]
                 v == form.option.with /\ ~b
      <3>1. [form EXCEPT !.option.self = b] = h
        BY <1>0
      <3>2. g = [h EXCEPT !.option.with = v]
        BY <3>1
      <3>3. v \in BOOLEAN /\ o \in F!Options
        BY <1>0 DEF F!Options
      <3> HIDE DEF o, v, g
      <3>4. g = [type |-> form.type, uid |-> form.uid, url |-> form.url,
                 option |-> [o EXCEPT !.with = v]]
        BY <3>2
      <3>5. [o EXCEPT !.with = v] \in F!Options
        BY <3>3 DEF F!Options
      <3> QED BY <1>0, <3>4, <3>5
    <2> HIDE DEF Whole, g
    <2> QED BY <1>1, <2>1, <2>2
  <1> QED BY <1>2, <1>3, <1>4, <1>5, <1>6, <1>7, <1>8, <1>9

\* What a save does next, and how it ends.
LEMMA FormGoesInv ==
    ASSUME FormInv, NEW at \in F!Steps, F!Goes(at), fSaving.at # "none",
           at = "restore" => fSaving.type = "edit",
           stored' \in [FormUids \cup {F!Nobody} -> F!Options]
    PROVE  FormInv'
  BY DEF F!Goes, F!form_, FormInv, F!ProxyKept, F!Edited

LEMMA FormFailureInv ==
    ASSUME FormInv, F!Failure
    PROVE  FormInv'
  BY DEF F!Failure, F!form_, FormInv, F!ProxyKept, F!Edited, F!Steps

LEMMA FormSuccessInv ==
    ASSUME FormInv, NEW o \in F!Options, F!Patched(o), F!Success,
           fSaving.type = "edit" => /\ o.with = fSaving.form.option.with
                                   /\ o.self = fSaving.form.option.self
    PROVE  FormInv'
  <1>1. /\ fSaving' = [fSaving EXCEPT !.at = "none"] /\ ended' = "ok"
        /\ UNCHANGED <<form, openType>>
        /\ stored' = [stored EXCEPT ![IF fSaving.type = "new" THEN F!Nobody ELSE fSaving.form.uid] = o]
    BY DEF F!Success, F!Patched
  <1>2. stored' \in [FormUids \cup {F!Nobody} -> F!Options]
    BY <1>1 DEF FormInv
  <1>3. fSaving'.type = fSaving.type /\ fSaving'.form = fSaving.form /\ fSaving'.at = "none"
        /\ fSaving' = [at |-> fSaving'.at, type |-> fSaving'.type, form |-> fSaving'.form]
    BY <1>1 DEF FormInv
  <1>4. fSaving.type = "edit" => stored'[fSaving.form.uid] = o
    BY <1>1 DEF FormInv
  <1> QED BY <1>1, <1>2, <1>3, <1>4 DEF FormInv, F!ProxyKept, F!Edited, F!Steps

LEMMA FormSaveInv ==
    ASSUME FormInv, NEW good \in BOOLEAN, F!Ok \/ F!First(good) \/ F!Retry(good) \/ F!Restore(good)
    PROVE  FormInv'
  <1>0. fSaving.form.option \in F!Options /\ F!Retried \in F!Options /\ F!Originals \in F!Options
        /\ F!Originals.with = fSaving.form.option.with /\ F!Originals.self = fSaving.form.option.self
    BY DEF FormInv, F!Retried, F!Originals, F!Options, F!Default
  <1>1. CASE F!Ok
    BY <1>1 DEF F!Ok, F!form_, FormInv, F!ProxyKept, F!Edited, F!Steps
  <1>2. CASE F!First(good)
    BY <1>0, <1>2, FormSuccessInv, FormGoesInv, FormFailureInv DEF F!First, F!Steps, FormInv
  <1>3. CASE F!Retry(good)
    <2>1. ASSUME F!Patched(F!Retried), F!Goes("restore"), fSaving.type # "new" PROVE FormInv'
      <3>1. stored' \in [FormUids \cup {F!Nobody} -> F!Options]
        BY <1>0, <2>1 DEF F!Patched, FormInv
      <3> QED BY <1>3, <2>1, <3>1, FormGoesInv DEF F!Retry, FormInv, F!Steps
    <2>2. ASSUME F!Patched(F!Retried), F!Success, fSaving.type = "new" PROVE FormInv'
      BY <1>0, <2>2, FormSuccessInv
    <2> QED BY <1>3, <2>1, <2>2, FormFailureInv DEF F!Retry
  <1>4. CASE F!Restore(good)
    BY <1>0, <1>4, FormSuccessInv, FormFailureInv DEF F!Restore
  <1> QED BY <1>1, <1>2, <1>3, <1>4

LEMMA FormStep == FormInv /\ [F!Next]_(F!vars) => FormInv'
  <1> SUFFICES ASSUME FormInv, [F!Next]_(F!vars) PROVE FormInv'
    OBVIOUS
  <1>1. CASE UNCHANGED F!vars
    BY <1>1 DEF F!vars, F!form_, FormInv, F!ProxyKept, F!Edited
  <1> QED BY <1>1, FormFillInv, FormSaveInv DEF F!Next

LEMMA FormHolds == PageSpec => []F!ProxyKept
  <1>1. Start => FormInv
    BY FormInit DEF Start
  <1>2. [Step]_all => [F!Next]_(F!vars)
    BY DEF Step, PagesStep, all, pages, Fvars, F!vars, F!form_
  <1>3. FormInv => F!ProxyKept
    BY DEF FormInv
  <1> QED BY <1>1, <1>2, <1>3, FormStep, PTL DEF PageSpec

\* What a form or an editor holds is what it says it holds: a clean document is the
\* file whatever reads and saves are late, and an edit that succeeds at the second
\* attempt keeps the chosen proxy.
THEOREM FormsFaithfulHolds == PageSpec => []FormsFaithful
  <1>1. D!CleanIsFile /\ F!ProxyKept => FormsFaithful
    BY DEF FormsFaithful
  <1> QED BY <1>1, DocHolds, FormHolds, PTL

-----------------------------------------------------------------------------
(* The clean-up of the locales.                                            *)

TextFile == [state : {"absent", "torn", "intact"}, keys : SUBSET L!Keys]

\* The keys of a file are of its namespace.
TextTypes ==
    /\ format \in {"multi-file", "yaml-file"}
    /\ disk \in [L!Langs -> [L!Files -> TextFile]] /\ backup \in [L!Langs -> [L!Files -> TextFile]]
    /\ before \in [L!Langs -> [L!Files -> TextFile]] /\ data \in [L!Langs -> SUBSET L!Keys]
    /\ index \in [L!Langs -> SUBSET LocaleSpaces]
    /\ writing \in [lang : L!Langs, keys : SUBSET L!Keys, files : SUBSET L!Files, saved : SUBSET L!Files]
    /\ todo \subseteq L!Langs /\ pc \in {"idle", "process", "write"}
TextSorted ==
    format = "multi-file" => \A l \in L!Langs, f \in L!Files : \A k \in disk[l][f].keys : k[1] = f

\* While a run goes on, and after one that ended well: what it has loaded is what there
\* was, the locales that are left are as they were, the others have what is used.
Running == pc # "idle" \/ ok
Rewritten(l) == \A f \in L!Files : disk[l][f] = L!Content(f, L!Updated(l))
TextRun ==
    /\ \A l \in L!Langs : data[l] = UNION {before[l][f].keys : f \in L!Files}
    /\ format = "multi-file" =>
         \A l \in L!Langs, f \in L!Files : \A k \in before[l][f].keys : k[1] = f
    /\ \A l \in todo : disk[l] = before[l]
    /\ ~options.apply => disk = before
    /\ options.apply => \A l \in L!Langs \ todo :
         \/ pc = "write" /\ l = writing.lang
         \/ Rewritten(l) /\ (format = "multi-file" => index[l] = L!Spaces(L!Updated(l)))
    /\ ok => pc = "idle" /\ todo = {}

\* Where a file of the locale that is written is: backed up or not, written or not.
TextWriting ==
    /\ options.apply /\ writing.lang \notin todo /\ writing.keys = L!Updated(writing.lang) /\ ~ok
    /\ \A f \in L!Files :
        /\ f \in writing.files => disk[writing.lang][f] = before[writing.lang][f]
        /\ f \notin writing.files => disk[writing.lang][f] = L!Content(f, writing.keys)
        /\ f \in writing.saved => backup[writing.lang][f] = before[writing.lang][f]
        /\ f \notin writing.files \cup writing.saved /\ options.backup =>
             before[writing.lang][f] \in {L!Absent, disk[writing.lang][f]}

TextInv ==
    /\ TextTypes /\ TextSorted /\ L!OldKept /\ (Running => TextRun) /\ (pc = "write" => TextWriting)

\* A key that the sources ask for and whose namespace is known counts as used.
LEMMA AskedIsUsed ==
    ASSUME NEW spaces, NEW k \in L!Keys, NEW e \in sources, k \in L!Asks(e), k[1] \in spaces
    PROVE  L!IsKeyUsed(k, L!Usage(spaces))
  <1>1. CASE e.form \in L!Dynamic
    <2>1. e.space = k[1]
      BY <1>1 DEF L!Asks
    <2>2. k[1] \in L!Prefix(e, spaces)
      BY <1>1, <2>1 DEF L!Prefix
    <2>3. k[1] \in L!Usage(spaces).prefixes
      BY <2>2 DEF L!Usage
    <2> QED BY <2>3 DEF L!IsKeyUsed
  <1>2. CASE e.form \notin L!Dynamic
    <2>1. <<e.space, e.leaf>> = k
      BY <1>2 DEF L!Asks
    <2> QED BY <1>2, <2>1 DEF L!IsKeyUsed, L!Quoted
  <1> QED BY <1>1, <1>2

\* What a locale becomes depends on what was loaded, the options and the sources.
LEMMA SameUpdated ==
    ASSUME UNCHANGED <<data, options, sources>>
    PROVE  \A l : L!Updated(l)' = L!Updated(l)
  <1>1. \A spaces : L!Usage(spaces)' = L!Usage(spaces)
    BY Zenon DEF L!Usage
  <1>2. \A k, usage : L!IsKeyUsed(k, usage)' <=> L!IsKeyUsed(k, usage)
    BY Zenon DEF L!IsKeyUsed, L!Quoted
  <1>3. \A l : L!Report(l).unused = {k \in data[l] : ~L!IsKeyUsed(k, L!Usage(L!Spaces(data[LocaleBase])))}
    BY DEF L!Report
  <1>4. \A l : (L!Report(l).unused)' = {k \in data[l] : ~L!IsKeyUsed(k, L!Usage(L!Spaces(data[LocaleBase])))}
    BY <1>1, <1>2, Zenon DEF L!Report
  <1>5. \A keys : L!Aligned(keys)' = L!Aligned(keys)
    BY Zenon DEF L!Aligned
  <1> QED BY <1>3, <1>4, <1>5, Zenon DEF L!Updated

LEMMA UpdatedKeys ==
    ASSUME TextTypes, NEW l \in L!Langs
    PROVE  L!Updated(l) \subseteq L!Keys /\ L!Spaces(L!Updated(l)) \subseteq LocaleSpaces
  <1>1. data[l] \subseteq L!Keys /\ data[LocaleBase] \subseteq L!Keys
    BY DEF TextTypes, L!Langs
  <1>2. L!Aligned(data[l]) \subseteq L!Keys
    BY <1>1 DEF L!Aligned
  <1>3. L!Updated(l) \subseteq L!Keys
    BY <1>1, <1>2 DEF L!Updated
  <1> QED BY <1>3 DEF L!Spaces, L!Keys

LEMMA ContentFacts ==
    ASSUME NEW keys \in SUBSET L!Keys, NEW f \in L!Files, format \in {"multi-file", "yaml-file"}
    PROVE  /\ L!Content(f, keys) \in TextFile
           /\ format = "multi-file" => /\ \A k \in L!Content(f, keys).keys : k[1] = f
                                       /\ L!Content(f, keys) # L!Absent <=> f \in L!Spaces(keys)
           /\ \A k \in keys : (format = "multi-file" => k[1] = f) => k \in L!Content(f, keys).keys
  <1>1. CASE f = L!Whole
    <2>1. format = "yaml-file"
      BY <1>1, LocaleAssumption DEF L!Files
    <2> QED BY <1>1, <2>1 DEF L!Content, L!Intact, TextFile
  <1>2. CASE f # L!Whole /\ f \in L!Spaces(keys)
    <2>1. format = "multi-file"
      BY <1>2 DEF L!Files
    <2> QED BY <1>2, <2>1 DEF L!Content, L!Intact, L!Absent, TextFile
  <1>3. CASE f # L!Whole /\ f \notin L!Spaces(keys)
    <2>1. format = "multi-file"
      BY <1>3 DEF L!Files
    <2>2. \A k \in keys : k[1] # f
      BY <1>3 DEF L!Spaces
    <2> QED BY <1>3, <2>1, <2>2 DEF L!Content, L!Absent, TextFile
  <1> QED BY <1>1, <1>2, <1>3

LEMMA TextKept == TextInv => L!UsedKept /\ L!OldKept /\ L!IndexMatches
  <1> SUFFICES ASSUME TextInv PROVE L!UsedKept /\ L!IndexMatches
    BY DEF TextInv
  <1>1. ASSUME L!Done PROVE TextRun /\ todo = {} /\ pc # "write"
    BY <1>1 DEF L!Done, TextInv, Running, TextRun
  <1>2. L!UsedKept
    <2> SUFFICES ASSUME L!Done, NEW l \in L!Langs, NEW f \in L!Files, NEW k \in before[l][f].keys,
                        k[1] \in L!Spaces(L!Known), \E e \in sources : k \in L!Asks(e),
                        options.align /\ ~options.keepExtra => k \in L!Known
                 PROVE  k \in disk[l][f].keys
      BY DEF L!UsedKept
    <2>1. k \in L!Keys /\ LocaleBase \in L!Langs /\ (format = "multi-file" => k[1] = f)
      BY <1>1 DEF TextInv, TextTypes, TextFile, TextRun, L!Langs
    <2>2. k \in data[l] /\ data[LocaleBase] = L!Known
      BY <1>1, <2>1 DEF TextRun, L!Known
    <2>3. CASE ~options.apply
      BY <1>1, <2>3 DEF TextRun
    <2>4. CASE options.apply
      <3>1. L!IsKeyUsed(k, L!Usage(L!Spaces(data[LocaleBase])))
        BY <2>1, <2>2, AskedIsUsed
      <3>2. k \notin L!Report(l).unused
        BY <3>1 DEF L!Report
      <3>3. k \in L!Updated(l)
        BY <2>2, <3>2 DEF L!Updated, L!Aligned
      <3>4. L!Updated(l) \in SUBSET L!Keys /\ disk[l][f] = L!Content(f, L!Updated(l))
        BY <1>1, <2>4, UpdatedKeys DEF TextInv, TextRun, Rewritten
      <3> QED BY <2>1, <3>3, <3>4, ContentFacts DEF TextInv, TextTypes
    <2> QED BY <2>3, <2>4
  <1>3. L!IndexMatches
    <2> SUFFICES ASSUME L!Done, options.apply, format = "multi-file", NEW l \in L!Langs
                 PROVE  index[l] = L!Present(disk, l)
      BY DEF L!IndexMatches
    <2>1. Rewritten(l) /\ index[l] = L!Spaces(L!Updated(l))
      BY <1>1 DEF TextRun
    <2>2. L!Updated(l) \in SUBSET L!Keys /\ L!Spaces(L!Updated(l)) \subseteq LocaleSpaces
      BY UpdatedKeys DEF TextInv
    <2>3. \A f \in L!Files : disk[l][f] # L!Absent <=> f \in L!Spaces(L!Updated(l))
      BY <2>1, <2>2, ContentFacts DEF Rewritten
    <2>4. L!Files = LocaleSpaces
      BY DEF L!Files
    <2> QED BY <2>1, <2>2, <2>3, <2>4 DEF L!Present
  <1> QED BY <1>2, <1>3
LEMMA TextInit == L!Init => TextInv
  <1> SUFFICES ASSUME L!Init PROVE TextInv
    OBVIOUS
  <1>0. ~Running /\ options = L!NoOptions /\ pc = "idle"
    BY DEF L!Init, Running
  <1>1. PICK start \in [L!Langs -> LocaleContents] :
          /\ disk = [l \in L!Langs |-> [f \in L!Files |-> L!Content(f, start[l])]]
          /\ index = [l \in L!Langs |-> IF format = "yaml-file" THEN {} ELSE L!Spaces(start[l])]
    BY Zenon DEF L!Init
  <1>2. \A l \in L!Langs : start[l] \in SUBSET L!Keys /\ L!Spaces(start[l]) \subseteq LocaleSpaces
    BY LocaleAssumption DEF L!Keys, L!Spaces
  <1>3. format \in {"multi-file", "yaml-file"}
    BY DEF L!Init
  <1>4. disk \in [L!Langs -> [L!Files -> TextFile]] /\ TextSorted
    BY <1>1, <1>2, <1>3, ContentFacts DEF TextSorted
  <1>5. L!Absent \in TextFile /\ L!NotWriting \in [lang : L!Langs, keys : SUBSET L!Keys, files : SUBSET L!Files, saved : SUBSET L!Files]
    BY DEF TextFile, L!Absent, L!NotWriting, L!Langs
  <1>6. index \in [L!Langs -> SUBSET LocaleSpaces]
    BY <1>1, <1>2
  <1>7. TextTypes
    BY <1>3, <1>4, <1>5, <1>6 DEF TextTypes, L!Init
  <1> QED BY <1>0, <1>4, <1>7 DEF TextInv, L!OldKept, L!NoOptions

LEMMA TextStarts == ASSUME TextInv, NEW o \in L!Options, L!Start(o) PROVE TextInv'
  <1>1. /\ pc' = "process" /\ ok' = FALSE /\ data' = [l \in L!Langs |-> L!Load(l)]
        /\ todo' = L!Langs /\ before' = disk
        /\ UNCHANGED <<format, sources, disk, backup, index, writing>>
    BY DEF L!Start, L!files
  <1>2. \A l \in L!Langs : L!Load(l) = UNION {before'[l][f].keys : f \in L!Files}
    BY <1>1 DEF L!Load
  <1>3. \A l \in L!Langs : L!Load(l) \subseteq L!Keys
    BY DEF TextInv, TextTypes, TextFile, L!Load
  <1>4. TextTypes'
    BY <1>1, <1>3 DEF TextInv, TextTypes, L!Files
  <1>5. TextSorted' /\ L!OldKept'
    BY <1>1 DEF TextInv, TextSorted, L!OldKept, L!Files
  <1>6. TextRun'
    BY <1>1, <1>2 DEF TextInv, TextSorted, TextRun, L!Files
  <1> QED BY <1>1, <1>4, <1>5, <1>6 DEF TextInv

LEMMA TextProcesses == ASSUME TextInv, L!ProcessLocale PROVE TextInv'
  <1>1. PICK l \in L!Next1 :
          /\ todo' = todo \ {l}
          /\ IF options.apply
             THEN /\ pc' = "write"
                  /\ writing' = [lang |-> l, keys |-> L!Updated(l), saved |-> {},
                                 files |-> {f \in L!Files : disk[l][f] # L!Absent \/ L!Content(f, L!Updated(l)) # L!Absent}]
             ELSE UNCHANGED <<pc, writing>>
    BY Zenon DEF L!ProcessLocale
  <1>2. pc = "process" /\ UNCHANGED <<format, sources, disk, backup, index, options, ok, data, before>>
    BY DEF L!ProcessLocale, L!files
  <1>3. l \in todo /\ l \in L!Langs
    BY DEF L!Next1, TextInv, TextTypes
  <1>4. L!Updated(l) \subseteq L!Keys
    BY <1>3, UpdatedKeys DEF TextInv
  <1>5. TextTypes' /\ TextSorted'
    <2>1. writing' \in [lang : L!Langs, keys : SUBSET L!Keys, files : SUBSET L!Files, saved : SUBSET L!Files]
      <3>1. CASE options.apply
        <4> DEFINE fs == {f \in L!Files : disk[l][f] # L!Absent \/ L!Content(f, L!Updated(l)) # L!Absent}
        <4>1. fs \in SUBSET L!Files
          OBVIOUS
        <4>2. writing' = [lang |-> l, keys |-> L!Updated(l), saved |-> {}, files |-> fs]
          BY <1>1, <3>1
        <4> HIDE DEF fs
        <4> QED BY <1>3, <1>4, <4>1, <4>2
      <3>2. CASE ~options.apply
        BY <1>1, <3>2 DEF TextInv, TextTypes
      <3> QED BY <3>1, <3>2
    <2>2. todo' \subseteq L!Langs /\ pc' \in {"idle", "process", "write"}
      BY <1>1, <1>2 DEF TextInv, TextTypes
    <2> QED BY <1>2, <2>1, <2>2 DEF TextInv, TextTypes, TextSorted, L!Files
  <1>6. TextRun /\ ~ok
    BY <1>2 DEF TextInv, Running, TextRun
  <1>7. \A m : L!Updated(m)' = L!Updated(m)
    BY <1>2, SameUpdated
  <1>8. TextRun'
    <2>1. \A m \in L!Langs \ todo' : options.apply =>
             \/ pc' = "write" /\ m = writing'.lang
             \/ Rewritten(m)' /\ (format = "multi-file" => index[m] = L!Spaces(L!Updated(m)))
      <3> SUFFICES ASSUME NEW m \in L!Langs \ todo', options.apply, ~(pc' = "write" /\ m = writing'.lang)
                   PROVE  Rewritten(m)' /\ (format = "multi-file" => index[m] = L!Spaces(L!Updated(m)))
        OBVIOUS
      <3>1. m \in L!Langs \ todo
        BY <1>1
      <3>2. Rewritten(m) /\ (format = "multi-file" => index[m] = L!Spaces(L!Updated(m)))
        BY <1>2, <1>6, <3>1 DEF TextRun
      <3> QED BY <1>2, <1>7, <3>2 DEF Rewritten, L!Files, L!Content, L!Intact, L!Spaces
    <2>2. \A m : L!Spaces(L!Updated(m))' = L!Spaces(L!Updated(m))
      BY <1>7 DEF L!Spaces
    <2> QED BY <1>1, <1>2, <1>6, <2>1, <2>2 DEF TextRun, L!Files
  <1>9. ASSUME options.apply PROVE TextWriting' /\ L!OldKept'
    <2>1. /\ writing'.lang = l /\ writing'.keys = L!Updated(l) /\ writing'.saved = {}
          /\ writing'.files = {f \in L!Files : disk[l][f] # L!Absent \/ L!Content(f, L!Updated(l)) # L!Absent}
      BY <1>1, <1>9
    <2>2. disk[l] = before[l]
      BY <1>3, <1>6 DEF TextRun
    <2>3. \A f \in L!Files : f \notin writing'.files => disk[l][f] = L!Content(f, L!Updated(l)) /\ disk[l][f] = L!Absent
      BY <2>1
    <2>4. L!Updated(l)' = L!Updated(l) /\ l \notin todo' /\ L!Files' = L!Files
      BY <1>1, <1>2, <1>7 DEF L!Files
    <2>5. TextWriting'
      BY <1>2, <1>6, <1>9, <2>1, <2>2, <2>3, <2>4 DEF TextWriting, L!Content, L!Intact, L!Spaces, L!Absent
    <2>6. L!OldKept'
      BY <1>2, <2>1, <2>2, <2>4 DEF L!OldKept
    <2> QED BY <2>5, <2>6
  <1>10. ASSUME ~options.apply PROVE pc' = "process" /\ L!OldKept'
    BY <1>1, <1>2, <1>10 DEF L!OldKept
  <1> QED BY <1>5, <1>8, <1>9, <1>10 DEF TextInv

LEMMA TextBacksUp == ASSUME TextInv, NEW f \in L!Files, L!Backup(f) PROVE TextInv'
  <1> DEFINE w == writing.lang
  <1>1. /\ pc = "write" /\ f \in writing.files /\ options.backup /\ f \notin writing.saved
        /\ backup' = [backup EXCEPT ![w][f] = disk[w][f]]
        /\ writing' = [writing EXCEPT !.saved = @ \cup {f}]
        /\ UNCHANGED <<format, sources, disk, index, options, pc, ok, todo, data, before>>
    BY DEF L!Backup, L!NeedsBackup
  <1>2. TextTypes /\ TextRun /\ TextWriting /\ w \in L!Langs /\ ~ok
    BY <1>1 DEF TextInv, TextTypes, Running, TextWriting
  <1>3. /\ writing'.lang = w /\ writing'.keys = writing.keys /\ writing'.files = writing.files
        /\ writing'.saved = writing.saved \cup {f}
        /\ writing' \in [lang : L!Langs, keys : SUBSET L!Keys, files : SUBSET L!Files, saved : SUBSET L!Files]
    BY <1>1, <1>2 DEF TextTypes
  <1>4. /\ backup' \in [L!Langs -> [L!Files -> TextFile]]
        /\ \A g \in L!Files : backup'[w][g] = IF g = f THEN disk[w][f] ELSE backup[w][g]
    BY <1>1, <1>2 DEF TextTypes
  <1> HIDE DEF w
  <1>5. TextTypes' /\ TextSorted'
    BY <1>1, <1>2, <1>3, <1>4 DEF TextInv, TextTypes, TextSorted, L!Files
  <1>6. (\A m : L!Updated(m)' = L!Updated(m)) /\ L!Files' = L!Files
    BY <1>1, SameUpdated DEF L!Files
  <1>7. TextRun'
    BY <1>1, <1>2, <1>3, <1>6 DEF TextRun, Rewritten, L!Content, L!Intact, L!Spaces, w
  <1>8. TextWriting'
    BY <1>1, <1>2, <1>3, <1>4, <1>6 DEF TextWriting, L!Content, L!Intact, L!Spaces, w
  <1>9. L!OldKept'
    <2> SUFFICES ASSUME NEW g \in L!Files, options.apply PROVE before[w][g] \in {L!Absent, disk[w][g], backup'[w][g]}
      BY <1>1, <1>3, <1>6 DEF L!OldKept
    <2>1. before[w][g] \in {L!Absent, disk[w][g], backup[w][g]}
      BY <1>1, <1>2 DEF TextInv, L!OldKept, w, L!Done
    <2>2. disk[w][f] = before[w][f]
      BY <1>1, <1>2 DEF TextWriting, w
    <2> QED BY <1>4, <2>1, <2>2
  <1> QED BY <1>1, <1>5, <1>7, <1>8, <1>9 DEF TextInv
LEMMA TextWrites == ASSUME TextInv, NEW f \in L!Files, L!Write(f) PROVE TextInv'
  <1> DEFINE w == writing.lang
  <1>1. /\ pc = "write" /\ f \in writing.files
        /\ options.backup => f \in writing.saved \/ disk[w][f] = L!Absent
        /\ disk' = [disk EXCEPT ![w][f] = L!Content(f, writing.keys)]
        /\ writing' = [writing EXCEPT !.files = @ \ {f}]
        /\ UNCHANGED <<format, sources, backup, index, options, pc, ok, todo, data, before>>
    BY DEF L!Write, L!NeedsBackup
  <1>2. TextTypes /\ TextRun /\ TextWriting /\ w \in L!Langs /\ ~ok /\ w \notin todo
    BY <1>1 DEF TextInv, TextTypes, Running, TextWriting
  <1>3. /\ writing'.lang = w /\ writing'.keys = writing.keys /\ writing'.saved = writing.saved
        /\ writing'.files = writing.files \ {f}
        /\ writing' \in [lang : L!Langs, keys : SUBSET L!Keys, files : SUBSET L!Files, saved : SUBSET L!Files]
    BY <1>1, <1>2 DEF TextTypes
  <1>4. /\ L!Content(f, writing.keys) \in TextFile
        /\ format = "multi-file" => \A k \in L!Content(f, writing.keys).keys : k[1] = f
    <2>1. writing.keys \in SUBSET L!Keys /\ format \in {"multi-file", "yaml-file"}
      BY <1>2 DEF TextTypes
    <2> QED BY <2>1, ContentFacts
  <1>5. /\ disk' \in [L!Langs -> [L!Files -> TextFile]]
        /\ \A g \in L!Files : disk'[w][g] = IF g = f THEN L!Content(f, writing.keys) ELSE disk[w][g]
        /\ \A l \in L!Langs : l # w => disk'[l] = disk[l]
    BY <1>1, <1>2, <1>4 DEF TextTypes
  <1> HIDE DEF w
  <1>6. TextTypes' /\ TextSorted'
    <2>1. L!Files' = L!Files
      BY <1>1 DEF L!Files
    <2>2. TextTypes'
      BY <1>1, <1>2, <1>3, <1>5, <2>1 DEF TextTypes
    <2>3. TextSorted'
      <3> SUFFICES ASSUME format = "multi-file", NEW l \in L!Langs, NEW g \in L!Files, NEW k \in disk'[l][g].keys
                   PROVE  k[1] = g
        BY <1>1, <2>1 DEF TextSorted
      <3>1. \A x \in disk[l][g].keys : x[1] = g
        BY DEF TextInv, TextSorted
      <3>2. CASE l = w /\ g = f
        BY <1>4, <1>5, <3>2
      <3>3. CASE ~(l = w /\ g = f)
        BY <1>2, <1>5, <3>1, <3>3
      <3> QED BY <3>2, <3>3
    <2> QED BY <2>2, <2>3
  <1>7. (\A m : L!Updated(m)' = L!Updated(m)) /\ L!Files' = L!Files /\ options.apply
    BY <1>1, <1>2, SameUpdated DEF L!Files, TextWriting
  <1>8. TextRun'
    BY <1>1, <1>2, <1>3, <1>5, <1>7 DEF TextRun, Rewritten, L!Content, L!Intact, L!Spaces, w
  <1>9. ASSUME NEW g \in L!Files
        PROVE  /\ g \in writing'.files => disk'[w][g] = before[w][g]
               /\ g \notin writing'.files => disk'[w][g] = L!Content(g, writing.keys)
               /\ g \in writing.saved => backup[w][g] = before[w][g]
               /\ g \notin writing'.files \cup writing.saved /\ options.backup =>
                    before[w][g] \in {L!Absent, disk'[w][g]}
               /\ options.backup => before[w][g] \in {L!Absent, disk'[w][g], backup[w][g]}
    <2>1. /\ g \in writing.files => disk[w][g] = before[w][g]
          /\ g \notin writing.files => disk[w][g] = L!Content(g, writing.keys)
          /\ g \in writing.saved => backup[w][g] = before[w][g]
          /\ g \notin writing.files \cup writing.saved /\ options.backup =>
               before[w][g] \in {L!Absent, disk[w][g]}
      BY <1>2 DEF TextWriting, w
    <2>2. CASE g = f
      BY <1>1, <1>3, <1>5, <2>1, <2>2 DEF w
    <2>3. CASE g # f
      BY <1>1, <1>3, <1>5, <2>1, <2>3
    <2> QED BY <2>2, <2>3
  <1>10. TextWriting'
    <2>1. writing'.keys = L!Updated(w)' /\ w \notin todo' /\ ~ok' /\ options'.apply
      BY <1>1, <1>2, <1>3, <1>7 DEF TextWriting, w
    <2>2. ASSUME NEW g \in L!Files
          PROVE  /\ g \in writing'.files => disk'[writing'.lang][g] = before'[writing'.lang][g]
                 /\ g \notin writing'.files => disk'[writing'.lang][g] = L!Content(g, writing'.keys)
                 /\ g \in writing'.saved => backup'[writing'.lang][g] = before'[writing'.lang][g]
                 /\ g \notin writing'.files \cup writing'.saved /\ options'.backup =>
                      before'[writing'.lang][g] \in {L!Absent, disk'[writing'.lang][g]}
      BY <1>1, <1>3, <1>9, Zenon
    <2> QED BY <1>3, <1>7, <2>1, <2>2 DEF TextWriting, w
  <1>11. L!OldKept'
    BY <1>1, <1>3, <1>7, <1>9 DEF L!OldKept
  <1> QED BY <1>1, <1>6, <1>8, <1>10, <1>11 DEF TextInv

LEMMA TextLocaleDone == ASSUME TextInv, L!FinishLocale PROVE TextInv'
  <1> DEFINE w == writing.lang
  <1>1. /\ pc = "write" /\ writing.files = {} /\ pc' = "process" /\ writing' = L!NotWriting
        /\ index' = IF format = "yaml-file" THEN index ELSE [index EXCEPT ![w] = L!Spaces(writing.keys)]
        /\ backup' = [backup EXCEPT ![w] = [f \in DOMAIN @ |-> IF f \in writing.saved THEN L!Absent ELSE @[f]]]
        /\ UNCHANGED <<format, sources, disk, options, ok, todo, data, before>>
    BY DEF L!FinishLocale
  <1>2. TextTypes /\ TextRun /\ TextWriting /\ w \in L!Langs /\ ~ok /\ L!Files' = L!Files
    BY <1>1 DEF TextInv, TextTypes, Running, TextWriting, L!Files
  <1>3. L!NotWriting \in [lang : L!Langs, keys : SUBSET L!Keys, files : SUBSET L!Files, saved : SUBSET L!Files]
    BY DEF L!NotWriting, L!Langs
  <1>4. backup' \in [L!Langs -> [L!Files -> TextFile]]
    <2>1. L!Absent \in TextFile /\ backup[w] \in [L!Files -> TextFile]
      BY <1>2 DEF TextFile, L!Absent, TextTypes
    <2>2. [f \in DOMAIN backup[w] |-> IF f \in writing.saved THEN L!Absent ELSE backup[w][f]] \in [L!Files -> TextFile]
      BY <2>1
    <2> QED BY <1>1, <1>2, <2>2 DEF TextTypes
  <1>5. index' \in [L!Langs -> SUBSET LocaleSpaces]
    <2>1. L!Spaces(writing.keys) \subseteq LocaleSpaces
      BY <1>2, UpdatedKeys DEF TextWriting
    <2> QED BY <1>1, <1>2, <2>1 DEF TextTypes
  <1>6. TextTypes' /\ TextSorted' /\ L!OldKept'
    BY <1>1, <1>2, <1>3, <1>4, <1>5 DEF TextInv, TextTypes, TextSorted, L!OldKept
  <1>7. \A m : L!Updated(m)' = L!Updated(m)
    BY <1>1, SameUpdated
  <1>8. Rewritten(w) /\ (format = "multi-file" => index'[w] = L!Spaces(L!Updated(w)))
    BY <1>1, <1>2 DEF TextWriting, Rewritten, TextTypes
  <1>9. ASSUME NEW m \in L!Langs \ todo, options.apply
        PROVE  Rewritten(m) /\ (format = "multi-file" => index'[m] = L!Spaces(L!Updated(m)))
    <2>1. CASE m = w
      BY <1>8, <2>1
    <2>2. CASE m # w
      <3>1. index'[m] = index[m]
        BY <1>1, <1>2, <1>9, <2>2 DEF TextTypes
      <3> QED BY <1>2, <1>9, <2>2, <3>1 DEF TextRun
    <2> QED BY <2>1, <2>2
  <1> HIDE DEF w
  <1>10. TextRun'
    <2>1. \A m : L!Spaces(L!Updated(m))' = L!Spaces(L!Updated(m)) /\ (Rewritten(m)' <=> Rewritten(m))
      BY <1>1, <1>2, <1>7 DEF L!Spaces, Rewritten, L!Content, L!Intact
    <2> QED BY <1>1, <1>2, <1>9, <2>1 DEF TextRun
  <1> QED BY <1>1, <1>6, <1>10 DEF TextInv

LEMMA TextEnds == ASSUME TextInv, L!Finish PROVE TextInv'
  <1>1. /\ pc = "process" /\ todo = {} /\ pc' = "idle" /\ ok' = TRUE
        /\ UNCHANGED <<format, sources, disk, backup, index, options, todo, data, writing, before>>
    BY DEF L!Finish, L!files
  <1>2. TextTypes' /\ TextSorted' /\ L!OldKept'
    BY <1>1 DEF TextInv, TextTypes, TextSorted, L!OldKept, L!Done, L!Files
  <1>3. TextRun
    BY <1>1 DEF TextInv, Running
  <1>4. (\A m : L!Updated(m)' = L!Updated(m)) /\ L!Files' = L!Files
    BY <1>1, SameUpdated DEF L!Files
  <1>5. TextRun'
    BY <1>1, <1>3, <1>4 DEF TextRun, Rewritten, L!Content, L!Intact, L!Spaces
  <1> QED BY <1>1, <1>2, <1>5 DEF TextInv

LEMMA TextFails == ASSUME TextInv, NEW torn, L!Fail(torn) PROVE TextInv'
  <1> DEFINE w == writing.lang
  <1>1. /\ pc = "write" /\ pc' = "idle"
        /\ \A f \in torn : options.backup => f \in writing.saved \/ disk[w][f] = L!Absent
        /\ torn \subseteq writing.files
        /\ disk' = [disk EXCEPT ![w] = [f \in DOMAIN @ |-> IF f \in torn THEN L!Torn ELSE @[f]]]
        /\ UNCHANGED <<format, sources, backup, index, options, ok, todo, data, writing, before>>
    BY DEF L!Fail, L!NeedsBackup
  <1>2. TextTypes /\ TextWriting /\ w \in L!Langs /\ ~ok /\ L!Files' = L!Files
    BY <1>1 DEF TextInv, TextTypes, TextWriting, L!Files
  <1>3. L!Torn \in TextFile /\ L!Torn.keys = {} /\ disk[w] \in [L!Files -> TextFile]
    BY <1>2 DEF TextFile, L!Torn, TextTypes
  <1>4. /\ disk' \in [L!Langs -> [L!Files -> TextFile]]
        /\ \A f \in L!Files : disk'[w][f] = IF f \in torn THEN L!Torn ELSE disk[w][f]
        /\ \A l \in L!Langs : l # w => disk'[l] = disk[l]
    <2>1. [f \in DOMAIN disk[w] |-> IF f \in torn THEN L!Torn ELSE disk[w][f]] \in [L!Files -> TextFile]
      BY <1>3
    <2> QED BY <1>1, <1>2, <1>3, <2>1 DEF TextTypes
  <1> HIDE DEF w
  <1>5. TextTypes'
    BY <1>1, <1>2, <1>4 DEF TextTypes
  <1>6. TextSorted'
    BY <1>1, <1>2, <1>3, <1>4 DEF TextInv, TextSorted
  <1>7. L!OldKept'
    <2> SUFFICES ASSUME NEW f \in L!Files, options.backup, options.apply
                 PROVE  before[w][f] \in {L!Absent, disk'[w][f], backup[w][f]}
      BY <1>1, <1>2 DEF L!OldKept, w
    <2>1. /\ before[w][f] \in {L!Absent, disk[w][f], backup[w][f]}
          /\ f \in torn => before[w][f] \in {L!Absent, backup[w][f]}
      BY <1>1, <1>2 DEF TextInv, L!OldKept, L!Done, TextWriting, w
    <2> QED BY <1>4, <2>1
  <1> QED BY <1>1, <1>2, <1>5, <1>6, <1>7 DEF TextInv, Running

LEMMA TextStep == TextInv /\ [L!Next]_(L!vars) => TextInv'
  <1> SUFFICES ASSUME TextInv, [L!Next]_(L!vars) PROVE TextInv'
    OBVIOUS
  <1>1. CASE UNCHANGED L!vars
    <2>1. UNCHANGED <<format, sources, disk, backup, index, options, pc, ok, todo, data, writing, before>>
      BY <1>1 DEF L!vars, L!files
    <2>2. (\A m : L!Updated(m)' = L!Updated(m)) /\ L!Files' = L!Files
      BY <2>1, SameUpdated DEF L!Files
    <2>3. TextTypes' /\ TextSorted' /\ L!OldKept' /\ (Running' <=> Running)
      BY <2>1, <2>2 DEF TextInv, TextTypes, TextSorted, L!OldKept, L!Done, Running
    <2>4. TextRun => TextRun'
      BY <2>1, <2>2 DEF TextRun, Rewritten, L!Content, L!Intact, L!Spaces
    <2>5. TextWriting => TextWriting'
      BY <2>1, <2>2 DEF TextWriting, L!Content, L!Intact, L!Spaces
    <2> QED BY <2>1, <2>3, <2>4, <2>5 DEF TextInv
  <1> QED BY <1>1, TextStarts, TextProcesses, TextBacksUp, TextWrites, TextLocaleDone, TextEnds, TextFails
          DEF L!Next

\* A clean-up of the locales takes no text away that the sources ask for, leaves every
\* old file itself or its backup wherever it fails, and makes the index of the files
\* that there are.
LEMMA LocalesHold == PageSpec => [](L!UsedKept /\ L!OldKept /\ L!IndexMatches)
  <1>1. Start => TextInv
    BY TextInit DEF Start
  <1>2. [Step]_all => [L!Next]_(L!vars)
    BY DEF Step, PagesStep, all, pages, Lvars, L!vars, L!files
  <1>3. TextInv => L!UsedKept /\ L!OldKept /\ L!IndexMatches
    BY TextKept
  <1> QED BY <1>1, <1>2, <1>3, TextStep, PTL DEF PageSpec

\* The scripts keep files: a clean-up of the locales takes no text away that the sources
\* ask for, and wherever it fails what a file was when that run began is in it or in
\* its backup; the script of the files to pack, whatever fails, is interrupted or is
\* tried again, ends well only when all are there, and leaves no core, binary or script
\* torn but what an interrupt tore.
THEOREM FilesKeptHolds == PageSpec => []FilesKept
  <1>1. L!UsedKept /\ L!OldKept /\ L!IndexMatches /\ Z!RunComplete /\ Z!PartsOwned => FilesKept
    BY DEF FilesKept
  <1> QED BY <1>1, LocalesHold, PackHolds, SettingsBehave, PTL

-----------------------------------------------------------------------------
(* What belongs to what is shown.                                          *)

\* An answer to `listen' is of a rendering, and who listens of the last one.
ItemInv ==
    /\ \A l \in listening : l = [k \in {"topic", "render", "live"} |-> l[k]]
    /\ I!ListenersOwned

LEMMA ItemStep == ItemInv /\ [I!Next]_(I!vars) => ItemInv'
  <1> SUFFICES ASSUME ItemInv, [I!Next]_(I!vars) PROVE ItemInv'
    OBVIOUS
  <1>1. ASSUME UNCHANGED <<iMounted, renders, listening>> PROVE ItemInv'
    BY <1>1 DEF ItemInv, I!ListenersOwned
  <1>2. ASSUME NEW r, listening' = {l \in listening : ~l.live} \cup I!Listen(r) PROVE ItemInv'
    <2>1. \A l \in listening' : l = [k \in {"topic", "render", "live"} |-> l[k]]
      BY <1>2 DEF ItemInv, I!Listen
    <2>2. \A l \in listening' : ~l.live
      BY <1>2 DEF I!Listen
    <2> QED BY <2>1, <2>2 DEF ItemInv, I!ListenersOwned
  <1>3. CASE I!Render \/ I!Mount
    BY <1>2, <1>3 DEF I!Render, I!Mount, I!Relisten
  <1>4. CASE I!Unmount
    BY <1>4 DEF I!Unmount, ItemInv, I!ListenersOwned
  <1>5. ASSUME NEW l \in listening, NEW stays \in BOOLEAN, I!Answered(l, stays), stays => ~I!Disposed(l)
        PROVE  ItemInv'
    <2> DEFINE m == [l EXCEPT !.live = TRUE]
    <2>1. m = [k \in {"topic", "render", "live"} |-> m[k]] /\ m.render = l.render
      BY DEF ItemInv
    <2>2. UNCHANGED <<iMounted, renders>> /\ listening' = (listening \ {l}) \cup (IF stays THEN {m} ELSE {})
      BY <1>5 DEF I!Answered
    <2> HIDE DEF m
    <2> QED BY <1>5, <2>1, <2>2 DEF ItemInv, I!ListenersOwned, I!Disposed
  <1>6. ASSUME NEW l \in listening, NEW good \in BOOLEAN, I!TimerListening(l, good) \/ I!UpdateListening(l, good)
        PROVE  ItemInv'
    BY <1>5, <1>6 DEF I!TimerListening, I!UpdateListening
  <1>7. CASE UNCHANGED I!vars
    BY <1>1, <1>7 DEF I!vars
  <1>8. CASE \/ I!OpenMenu \/ I!OpenHome \/ I!EditInfo \/ I!ForceSelect \/ I!ShareQrCode \/ I!EditFile
             \/ I!EditRules \/ I!EditProxies \/ I!EditGroups \/ I!EditMerge \/ I!EditScript
             \/ I!OpenFile \/ I!FileOpened \/ I!DeleteEntry \/ I!CloseDialog \/ I!ConfirmDelete
             \/ I!Click \/ I!ToggleSelection
    BY <1>1, <1>8 DEF I!OpenMenu, I!OpenHome, I!EditInfo, I!ForceSelect, I!ShareQrCode, I!EditFile,
         I!EditRules, I!EditProxies, I!EditGroups, I!EditMerge, I!EditScript, I!OpenFile, I!FileOpened,
         I!DeleteEntry, I!CloseDialog, I!ConfirmDelete, I!Click, I!ToggleSelection, I!Opens, I!Asks, I!Chosen
  <1>9. CASE (\E e \in {"update", "updateViaProxy"} : I!UpdateEntry(e)) \/ I!Refresh \/ I!AutoUpdate
             \/ I!IntervalPatched \/ \E u \in updates : I!UpdateEnded(u)
    BY <1>1, <1>9 DEF I!UpdateEntry, I!Refresh, I!AutoUpdate, I!IntervalPatched, I!UpdateEnded
  <1>10. CASE (\E e \in events : I!StartedHeard(e) \/ I!CompletedHeard(e) \/ I!TimerHeard(e))
              \/ I!ToggleTime \/ I!Soon \/ I!FetchRead \/ I!FetchDone
    BY <1>1, <1>10 DEF I!StartedHeard, I!CompletedHeard, I!TimerHeard, I!ToggleTime, I!Soon, I!FetchRead, I!FetchDone
  <1> QED BY <1>3, <1>4, <1>6, <1>7, <1>8, <1>9, <1>10 DEF I!Next

LEMMA ItemHolds == PageSpec => []I!ListenersOwned
  <1>1. I!Init => ItemInv
    BY DEF I!Init, I!Listen, ItemInv, I!ListenersOwned
  <1>2. Start => ItemInv
    BY <1>1 DEF Start
  <1>3. [Step]_all => [I!Next]_(I!vars)
    BY DEF Step, PagesStep, all, pages, Ivars, I!vars, I!item, I!view, I!times
  <1>4. ItemInv => I!ListenersOwned
    BY DEF ItemInv
  <1> QED BY <1>2, <1>3, <1>4, ItemStep, PTL DEF PageSpec

\* There is a worker while the graphs are shown.
WorkerInv ==
    /\ worker = [k \in {"on", "range", "sampler", "throttled"} |-> worker[k]]
    /\ shown => worker.on

LEMMA WorkerStep == WorkerInv /\ [T!Next]_(T!vars) => WorkerInv'
  <1> SUFFICES ASSUME WorkerInv, [T!Next]_(T!vars) PROVE WorkerInv'
    OBVIOUS
  <1>1. ASSUME UNCHANGED <<shown, worker>> PROVE WorkerInv'
    BY <1>1 DEF WorkerInv
  <1>2. ASSUME NEW posted, T!Post(posted) PROVE WorkerInv'
    BY <1>2 DEF T!Post, WorkerInv
  <1>3. CASE T!HandleInit \/ T!HandleAppend \/ T!HandleSetRange \/ T!HandleRequest \/ T!Throttled
    BY <1>3 DEF T!HandleInit, T!HandleAppend, T!HandleSetRange, T!HandleRequest, T!Throttled, T!Received, WorkerInv
  <1>4. CASE T!Show \/ T!OpenHome
    BY <1>1, <1>2, <1>4 DEF T!Show, T!OpenHome, T!Mounting
  <1>5. CASE T!Hide
    BY <1>5 DEF T!Hide, T!Stop, T!NoWorker, WorkerInv
  <1>6. CASE T!LeaveHome \/ T!OnSnapshot \/ T!RefreshNow \/ T!Tick \/ UNCHANGED T!vars
    BY <1>1, <1>6 DEF T!LeaveHome, T!OnSnapshot, T!RefreshNow, T!Tick, T!vars
  <1>7. ASSUME NEW v \in T!Speeds, T!HandleMessage(v) PROVE WorkerInv'
    BY <1>1, <1>2, <1>7 DEF T!HandleMessage
  <1>8. ASSUME NEW r \in 1 .. SampleTicks, T!RequestRange(r) PROVE WorkerInv'
    BY <1>2, <1>8 DEF T!RequestRange
  <1> QED BY <1>3, <1>4, <1>5, <1>6, <1>7, <1>8 DEF T!Next

LEMMA WorkerHolds == PageSpec => []T!WorkerServes
  <1>1. T!Init => WorkerInv
    BY DEF T!Init, T!NoWorker, WorkerInv
  <1>2. Start => WorkerInv
    BY <1>1 DEF Start
  <1>3. [Step]_all => [T!Next]_(T!vars)
    BY DEF Step, PagesStep, all, pages, Tvars, T!vars, T!counting, T!graph
  <1>4. WorkerInv => T!WorkerServes
    BY DEF WorkerInv, T!WorkerServes, T!Registered
  <1> QED BY <1>2, <1>3, <1>4, WorkerStep, PTL DEF PageSpec

LEMMA FramesStep == G!FramesOwned /\ [G!Next]_(G!vars) => (G!FramesOwned)'
  <1> SUFFICES ASSUME G!FramesOwned, [G!Next]_(G!vars) PROVE (G!FramesOwned)'
    OBVIOUS
  <1>1. ASSUME gMounted' \/ UNCHANGED <<gMounted, drawFrame, hoverFrame, moveFrame, debounced>>
        PROVE  (G!FramesOwned)'
    BY <1>1 DEF G!FramesOwned
  <1>2. CASE \/ \E s \in G!Series : G!Fresh(s) /\ G!NewPoints(s)
             \/ G!ShowPoints \/ G!DrawGraph \/ G!DrawHoverOverlay \/ G!HandleTimeRangeClick
             \/ \E c \in BOOLEAN : G!ToggleStyle(c)
    BY <1>1, <1>2 DEF G!NewPoints, G!ShowPoints, G!DrawGraph, G!DrawHoverOverlay, G!HandleTimeRangeClick,
         G!ToggleStyle, G!FramesOwned
  <1>3. CASE \/ \E x \in {0, PlotWidth} : G!HandleMouseMove(x)
             \/ G!MoveTooltip \/ G!HandleMouseLeave
             \/ \E v, f \in BOOLEAN : G!FocusChanges(v, f)
             \/ G!Resize \/ G!Tick \/ UNCHANGED G!vars
    BY <1>1, <1>3 DEF G!HandleMouseMove, G!MoveTooltip, G!HandleMouseLeave, G!FocusChanges, G!Resize, G!Tick,
         G!vars, G!shown, G!frames, G!FramesOwned
  <1>4. CASE G!Mount \/ G!HandleRetry
    BY <1>1, <1>4 DEF G!Mount, G!HandleRetry, G!Mounts
  <1>5. CASE G!Unmount \/ G!ComponentDidCatch
    BY <1>5 DEF G!Unmount, G!ComponentDidCatch, G!Unmounts, G!Cancels, G!FramesOwned
  <1> QED BY <1>2, <1>3, <1>4, <1>5 DEF G!Next

LEMMA FramesHold == PageSpec => []G!FramesOwned
  <1>1. G!Init => G!FramesOwned
    BY DEF G!Init, G!FramesOwned
  <1>2. Start => G!FramesOwned
    BY <1>1 DEF Start
  <1>3. [Step]_all => [G!Next]_(G!vars)
    BY DEF Step, PagesStep, all, pages, Gvars, G!vars, G!shown, G!window, G!frames
  <1> QED BY <1>2, <1>3, FramesStep, PTL DEF PageSpec
\* A listener that there is will be cleaned up; a job that is idle has nothing left.
DataInv ==
    /\ listeners \subseteq cleanups /\ A!NoListenerLeft
    /\ jobs = [j \in {"one", "all"} |-> jobs[j]]
    /\ \A j \in {"one", "all"} :
         /\ jobs[j] = [k \in {"phase", "left"} |-> jobs[j][k]]
         /\ jobs[j] # A!Idle => jobs[j].phase # "idle"
    /\ A!SpinnersEnd

\* A step of the button: the job at j becomes that, and these rows spin.
LEMMA JobMoves ==
    ASSUME DataInv, NEW j \in {"one", "all"}, NEW phase, NEW left, phase # "idle",
           A!SetJob(j, [phase |-> phase, left |-> left]), updating' \subseteq updating,
           j = "one" => left = jobs["one"].left /\ jobs["one"] # A!Idle,
           UNCHANGED <<aMounted, listeners, cleanups>>
    PROVE  DataInv'
  <1> DEFINE becomes == [phase |-> phase, left |-> left]
  <1>1. becomes.phase = phase /\ becomes.left = left /\ becomes = [k \in {"phase", "left"} |-> becomes[k]] /\ becomes # A!Idle
    BY DEF A!Idle
  <1>2. jobs' = [jobs EXCEPT ![j] = becomes]
    BY DEF A!SetJob
  <1> HIDE DEF becomes
  <1>3. /\ jobs' = [i \in {"one", "all"} |-> jobs'[i]] /\ jobs'[j] = becomes
        /\ \A i \in {"one", "all"} : i # j => jobs'[i] = jobs[i]
    BY <1>2 DEF DataInv
  <1>4. (A!SpinnersEnd)'
    BY <1>1, <1>3 DEF DataInv, A!SpinnersEnd
  <1> QED BY <1>1, <1>3, <1>4 DEF DataInv, A!NoListenerLeft

\* A job ends: the row of one that is alone does not spin any more.
LEMMA JobEnds ==
    ASSUME DataInv, NEW j \in {"one", "all"}, jobs[j].phase # "idle", A!End(j),
           UNCHANGED <<aMounted, listeners, cleanups>>
    PROVE  DataInv'
  <1>1. A!Idle = [k \in {"phase", "left"} |-> A!Idle[k]]
    BY DEF A!Idle
  <1>2. /\ jobs' = [i \in {"one", "all"} |-> jobs'[i]] /\ jobs'[j] = A!Idle
        /\ \A i \in {"one", "all"} : i # j => jobs'[i] = jobs[i]
    BY DEF A!End, A!SetJob, DataInv
  <1>3. updating' = IF j = "all" THEN {} ELSE updating \ {Head(jobs[j].left)}
    BY DEF A!End, A!Spin
  <1>4. (A!SpinnersEnd)'
    <2> SUFFICES ASSUME NEW n \in updating' PROVE jobs'["all"] # A!Idle
      BY DEF A!SpinnersEnd
    <2>1. j = "one" /\ n \in updating /\ n # Head(jobs["one"].left)
      BY <1>3
    <2>2. jobs["all"] # A!Idle
      BY <2>1 DEF DataInv, A!SpinnersEnd
    <2> QED BY <1>2, <2>1, <2>2
  <1> QED BY <1>1, <1>2, <1>4 DEF DataInv, A!NoListenerLeft

LEMMA DataStep == DataInv /\ [A!Next]_(A!vars) => DataInv'
  <1> SUFFICES ASSUME DataInv, [A!Next]_(A!vars) PROVE DataInv'
    OBVIOUS
  <1>1. ASSUME UNCHANGED <<aMounted, listeners, cleanups, updating, jobs>> PROVE DataInv'
    BY <1>1 DEF DataInv, A!NoListenerLeft, A!SpinnersEnd
  <1>2. CASE \/ A!Time \/ A!Fallen \/ A!Activated \/ A!CoreChanges \/ A!RefreshAll
             \/ \E q \in A!Queries : A!Answer(q)
             \/ UNCHANGED A!vars
    BY <1>1, <1>2 DEF A!Time, A!Fallen, A!Activated, A!CoreChanges, A!RefreshAll, A!Answer,
         A!effect, A!button, A!vars
  <1>3. ASSUME UNCHANGED <<updating, jobs>>, listeners' \subseteq cleanups', (A!NoListenerLeft)' PROVE DataInv'
    BY <1>3 DEF DataInv, A!SpinnersEnd
  <1>4. CASE A!Registered
    <2>1. UNCHANGED <<updating, jobs, aMounted>>
      BY <1>4 DEF A!Registered, A!button
    <2>2. UNCHANGED <<listeners, cleanups>> \/ A!AddCleanup(A!Events[registering])
      BY <1>4 DEF A!Registered
    <2> QED BY <1>3, <2>1, <2>2 DEF A!AddCleanup, DataInv, A!NoListenerLeft
  <1>5. CASE A!Unmount
    <2>1. UNCHANGED <<updating, jobs, cleanups>> /\ listeners' = listeners \ cleanups
      BY <1>5 DEF A!Unmount, A!button
    <2> QED BY <1>3, <2>1 DEF DataInv, A!NoListenerLeft
  <1>6. CASE (\E id \in DataProfiles : A!HandleProfileChanged(id)) \/ A!HandleRefreshProxy
    BY <1>1, <1>6 DEF A!HandleProfileChanged, A!HandleRefreshProxy, A!button
  <1>7. CASE A!ProxyDialog \/ A!RuleDialog
    BY <1>1, <1>7 DEF A!ProxyDialog, A!RuleDialog, A!Open, A!HandleClose, A!effect
  <1>8. CASE A!UpdateProxyProvider \/ A!UpdateRuleProvider
    <2>1. PICK n : A!UpdateProvider(n)
      BY <1>8 DEF A!UpdateProxyProvider, A!UpdateRuleProvider
    <2> DEFINE becomes == [phase |-> "update", left |-> <<n>>]
    <2>2. becomes = [k \in {"phase", "left"} |-> becomes[k]] /\ becomes # A!Idle /\ Head(becomes.left) = n /\ becomes.phase # "idle"
      BY DEF A!Idle
    <2>3. /\ jobs["one"] = A!Idle /\ jobs' = [jobs EXCEPT !["one"] = becomes] /\ updating' = updating \cup {n}
          /\ UNCHANGED <<aMounted, listeners, cleanups>>
      BY <2>1 DEF A!UpdateProvider, A!SetJob, A!Spin, A!effect
    <2> HIDE DEF becomes
    <2>4. /\ jobs' = [i \in {"one", "all"} |-> jobs'[i]] /\ jobs'["one"] = becomes /\ jobs'["all"] = jobs["all"]
      BY <2>3 DEF DataInv
    <2>5. (A!SpinnersEnd)'
      BY <2>2, <2>3, <2>4 DEF DataInv, A!SpinnersEnd
    <2> QED BY <2>2, <2>3, <2>4, <2>5 DEF DataInv, A!NoListenerLeft
  <1>9. CASE A!UpdateProxyProviders \/ A!UpdateRuleProviders
    <2> DEFINE becomes == [phase |-> "update", left |-> DataProviders]
    <2>1. becomes = [k \in {"phase", "left"} |-> becomes[k]] /\ becomes # A!Idle /\ becomes.phase # "idle"
      BY DEF A!Idle
    <2>2. jobs' = [jobs EXCEPT !["all"] = becomes] /\ UNCHANGED <<aMounted, listeners, cleanups>>
      BY <1>9 DEF A!UpdateProxyProviders, A!UpdateRuleProviders, A!UpdateAllProviders, A!SetJob, A!effect
    <2> HIDE DEF becomes
    <2>3. /\ jobs' = [i \in {"one", "all"} |-> jobs'[i]] /\ jobs'["all"] = becomes /\ jobs'["one"] = jobs["one"]
      BY <2>2 DEF DataInv
    <2>4. (A!SpinnersEnd)'
      BY <2>1, <2>3 DEF A!SpinnersEnd
    <2> QED BY <2>1, <2>2, <2>3, <2>4 DEF DataInv, A!NoListenerLeft
  <1>10. CASE A!OneAnswered
    <2>1. jobs["one"].phase = "update" /\ UNCHANGED <<aMounted, listeners, cleanups>>
      BY <1>10 DEF A!OneAnswered, A!effect
    <2>2. \/ A!SetJob("one", [jobs["one"] EXCEPT !.phase = "first"]) /\ UNCHANGED updating
          \/ A!End("one")
      BY <1>10 DEF A!OneAnswered
    <2>3. [jobs["one"] EXCEPT !.phase = "first"] = [phase |-> "first", left |-> jobs["one"].left]
      BY DEF DataInv
    <2>4. jobs["one"] # A!Idle
      BY <2>1 DEF A!Idle
    <2> QED BY <2>1, <2>2, <2>3, <2>4, JobMoves, JobEnds
  <1>11. CASE A!AllAnswered
    <2>1. UNCHANGED <<aMounted, listeners, cleanups>> /\ updating' \subseteq updating
      BY <1>11 DEF A!AllAnswered, A!effect, A!Spin
    <2>2. \/ A!SetJob("all", [phase |-> "update", left |-> Tail(jobs["all"].left)])
          \/ A!SetJob("all", [phase |-> "first", left |-> <<>>])
      BY <1>11, Zenon DEF A!AllAnswered
    <2> QED BY <2>1, <2>2, JobMoves
  <1>12. ASSUME NEW j \in {"one", "all"}, A!Refreshed(j) PROVE DataInv'
    <2>1. jobs[j].phase # "idle" /\ UNCHANGED <<aMounted, listeners, cleanups>>
      BY <1>12 DEF A!Refreshed, A!effect
    <2>2. \/ A!SetJob(j, [jobs[j] EXCEPT !.phase = "second"]) /\ UNCHANGED updating
          \/ A!End(j)
      BY <1>12 DEF A!Refreshed
    <2>3. [jobs[j] EXCEPT !.phase = "second"] = [phase |-> "second", left |-> jobs[j].left]
      BY DEF DataInv
    <2>4. jobs[j] # A!Idle
      BY <2>1 DEF A!Idle
    <2> QED BY <2>1, <2>2, <2>3, <2>4, JobMoves, JobEnds
  <1> QED BY <1>2, <1>4, <1>5, <1>6, <1>7, <1>8, <1>9, <1>10, <1>11, <1>12 DEF A!Next

LEMMA DataHolds == PageSpec => [](A!NoListenerLeft /\ A!SpinnersEnd)
  <1>1. A!Init => DataInv
    BY DEF A!Init, A!Idle, DataInv, A!NoListenerLeft, A!SpinnersEnd
  <1>2. Start => DataInv
    BY <1>1 DEF Start
  <1>3. [Step]_all => [A!Next]_(A!vars)
    BY DEF Step, PagesStep, all, pages, Avars, A!vars, A!shownData, A!queries, A!effect, A!button
  <1>4. DataInv => A!NoListenerLeft /\ A!SpinnersEnd
    BY DEF DataInv
  <1> QED BY <1>2, <1>3, <1>4, DataStep, PTL DEF PageSpec

-----------------------------------------------------------------------------
(* All resources.                                                          *)

\* Whoever renders, leaves or answers late: nothing listens, works, is drawn, ticks or
\* spins for an item, a graph, a provider of data, a row, an address or a check of the
\* media that does not want it any more, and what is shown has the listeners, the
\* worker and the interval that it needs.  Of the entries of the tests it says that
\* each that is shown has its own listener and that no test is marked which is over,
\* not that those that are gone leave no listener.
THEOREM ResourcesOwnedHolds == PageSpec => []ResourcesOwned
  <1>1. /\ I!ListenersOwned /\ T!WorkerServes /\ G!FramesOwned
        /\ A!NoListenerLeft /\ A!SpinnersEnd /\ J!TestsEnd
        /\ X!IntervalOwned /\ X!RevalidationEnds /\ X!ServicesAsked /\ W!ChecksEnd
        => ResourcesOwned
    BY DEF ResourcesOwned
  <1> QED BY <1>1, ItemHolds, WorkerHolds, FramesHold, DataHolds, EntriesHold, AddressHolds,
             UnlockHolds, SettingsBehave, PTL

-----------------------------------------------------------------------------
(* The last samples, in the sidebar.                                       *)

\* A drawing is pending or the last one is of all samples.
LEMMA SidebarStep == B!DrawsLatest /\ [B!Next]_(B!vars) => (B!DrawsLatest)'
  <1> SUFFICES ASSUME B!DrawsLatest, [B!Next]_(B!vars) PROVE (B!DrawsLatest)'
    OBVIOUS
  <1>1. CASE B!StillFrame
    BY <1>1 DEF B!StillFrame, B!DrawGraph, B!DrawsLatest
  <1>2. CASE B!FrameTimer
    BY <1>2 DEF B!FrameTimer, B!DrawsLatest
  <1>3. ASSUME NEW early \in BOOLEAN, NEW done \in BOOLEAN, B!AnimatedFrame(early, done)
        PROVE  (B!DrawsLatest)'
    BY <1>3 DEF B!AnimatedFrame, B!DrawGraph, B!DrawsLatest
  <1>4. CASE B!AppendData
    BY <1>4 DEF B!AppendData, B!draws, B!DrawsLatest
  <1>5. CASE B!HandleData
    BY <1>5 DEF B!HandleData, B!RequestDraw, B!draws, B!DrawsLatest
  <1>6. CASE B!ToggleStyle \/ B!Redraw
    BY <1>6 DEF B!ToggleStyle, B!Redraw, B!RequestDraw, B!DrawsLatest
  <1>7. CASE B!Mount \/ B!Unmount
    BY <1>7 DEF B!Mount, B!Unmount, B!DrawsLatest
  <1>8. CASE UNCHANGED B!vars
    BY <1>8 DEF B!vars, B!draws, B!DrawsLatest
  <1> QED BY <1>1, <1>2, <1>3, <1>4, <1>5, <1>6, <1>7, <1>8 DEF B!Next

LEMMA SidebarHolds == PageSpec => []B!DrawsLatest
  <1>1. B!Init => B!DrawsLatest
    BY DEF B!Init, B!DrawsLatest
  <1>2. Start => B!DrawsLatest
    BY <1>1 DEF Start
  <1>3. [Step]_all => [B!Next]_(B!vars)
    BY DEF Step, PagesStep, all, pages, Bvars, B!vars, B!draws
  <1> QED BY <1>2, <1>3, SidebarStep, PTL DEF PageSpec

-----------------------------------------------------------------------------
(* The last data of the core.                                              *)

\* The last data that could be shown, and the time since which there are none.
LastInv ==
    /\ aNow \in Nat \ {0} /\ fallback \in BOOLEAN
    /\ raw \in DataUsable => aLast = raw /\ since = 0 /\ badSince = 0
    /\ raw \notin DataUsable /\ aLast # 0 =>
        /\ since = badSince /\ since \in Nat \ {0}
        /\ IF fallback THEN aTimer = since + DataGrace ELSE aNow >= since + DataGrace

LEMMA LastReceived ==
    ASSUME LastInv, NEW v, A!Receive(v), UNCHANGED aNow
    PROVE  LastInv'
  <1> USE DataAssumption
  <1>0. /\ raw' = v /\ aNow' = aNow /\ aNow \in Nat \ {0}
        /\ badSince' = IF v \in DataUsable THEN 0 ELSE IF raw \in DataUsable THEN aNow ELSE badSince
    BY DEF A!Receive, LastInv
  <1>1. CASE v = raw
    <2>1. UNCHANGED <<aLast, since, fallback, aTimer>>
      BY <1>1 DEF A!Receive
    <2> QED BY <1>0, <1>1, <2>1 DEF LastInv
  <1>2. CASE v # raw /\ v \in DataUsable
    <2>1. aLast' = v /\ since' = 0 /\ fallback' = FALSE
      BY <1>2 DEF A!Receive
    <2> QED BY <1>0, <1>2, <2>1 DEF LastInv
  <1>3. CASE v # raw /\ v \notin DataUsable /\ aLast = 0
    <2>1. aLast' = 0 /\ fallback' = FALSE
      BY <1>3 DEF A!Receive
    <2> QED BY <1>0, <1>3, <2>1 DEF LastInv
  <1>4. CASE v # raw /\ v \notin DataUsable /\ aLast # 0
    <2>1. /\ since' = A!Since /\ aLast' = aLast
          /\ fallback' = (aNow < since' + DataGrace)
          /\ aTimer' = IF fallback' THEN since' + DataGrace ELSE 0
      BY <1>4 DEF A!Receive
    <2>2. since' = badSince' /\ since' \in Nat \ {0}
      BY <1>0, <1>4, <2>1 DEF A!Since, LastInv
    <2>3. aLast' # 0 /\ raw' \notin DataUsable /\ fallback' \in BOOLEAN /\ DataGrace \in Nat
      BY <1>0, <1>4, <2>1, <2>2
    <2>4. fallback' => aTimer' = since' + DataGrace
      BY <2>1
    <2>5. ~fallback' => aNow' >= since' + DataGrace
      <3>1. ASSUME NEW a \in Nat, NEW b \in Nat, ~(a < b) PROVE a >= b
        BY <3>1
      <3>2. aNow \in Nat /\ since' + DataGrace \in Nat
        BY <1>0, <2>2, <2>3
      <3> QED BY <1>0, <2>1, <3>1, <3>2
    <2> QED BY <1>0, <2>2, <2>3, <2>4, <2>5 DEF LastInv
  <1> QED BY <1>1, <1>2, <1>3, <1>4

\* The other actions leave the data alone; those of the clock let the time pass.
LEMMA LastStep == LastInv /\ [A!Next]_(A!vars) => LastInv'
  <1> SUFFICES ASSUME LastInv, [A!Next]_(A!vars) PROVE LastInv'
    OBVIOUS
  <1> USE DataAssumption
  <1>1. ASSUME UNCHANGED <<A!shownData, aNow>> PROVE LastInv'
    BY <1>1 DEF A!shownData, LastInv
  <1>2. CASE A!Time
    <2>1. UNCHANGED A!shownData /\ aNow' = aNow + 1
      BY <1>2 DEF A!Time
    <2> QED BY <2>1 DEF A!shownData, LastInv
  <1>3. CASE A!Fallen
    <2>1. /\ aTimer # 0 /\ aNow >= aTimer /\ aTimer' = 0 /\ fallback' = FALSE
          /\ UNCHANGED <<raw, aLast, since, badSince, aNow>>
      BY <1>3 DEF A!Fallen
    <2> QED BY <2>1 DEF LastInv
  <1>4. CASE A!Activated
    BY <1>4, LastReceived DEF A!Activated
  <1>5. ASSUME NEW q \in A!Queries, A!Answer(q) PROVE LastInv'
    <2>1. UNCHANGED aNow /\ (A!Receive(aCore) \/ UNCHANGED A!shownData)
      BY <1>5 DEF A!Answer
    <2> QED BY <1>1, <2>1, LastReceived
  <1>6. CASE A!CoreChanges \/ A!RefreshAll \/ A!Registered \/ A!Unmount \/ A!HandleRefreshProxy
    BY <1>1, <1>6 DEF A!CoreChanges, A!RefreshAll, A!Registered, A!Unmount, A!HandleRefreshProxy
  <1>7. CASE \E id \in DataProfiles : A!HandleProfileChanged(id)
    BY <1>1, <1>7 DEF A!HandleProfileChanged
  <1>8. CASE A!UpdateProxyProvider \/ A!UpdateRuleProvider \/ A!UpdateProxyProviders \/ A!UpdateRuleProviders
    BY <1>1, <1>8 DEF A!UpdateProxyProvider, A!UpdateRuleProvider, A!UpdateProxyProviders, A!UpdateRuleProviders,
       A!UpdateProvider, A!UpdateAllProviders
  <1>9. CASE A!ProxyDialog \/ A!RuleDialog
    BY <1>1, <1>9 DEF A!ProxyDialog, A!RuleDialog, A!Open, A!HandleClose
  <1>10. CASE A!OneAnswered \/ A!AllAnswered
    BY <1>1, <1>10 DEF A!OneAnswered, A!AllAnswered
  <1>11. CASE \E j \in {"one", "all"} : A!Refreshed(j)
    BY <1>1, <1>11 DEF A!Refreshed
  <1>12. CASE UNCHANGED A!vars
    BY <1>1, <1>12 DEF A!vars
  <1> QED BY <1>2, <1>3, <1>4, <1>5, <1>6, <1>7, <1>8, <1>9, <1>10, <1>11, <1>12 DEF A!Next

LEMMA LastHolds == PageSpec => []A!LastDataShown
  <1>1. A!Init => LastInv
    <2> SUFFICES ASSUME A!Init PROVE LastInv
      OBVIOUS
    <2>1. raw = 0 /\ aLast = 0 /\ fallback = FALSE /\ aNow = DataThrottle + 1
      BY DEF A!Init
    <2>2. DataThrottle \in Nat /\ 0 \notin DataUsable
      BY DataAssumption
    <2>3. aNow \in Nat \ {0}
      BY <2>1, <2>2
    <2> QED BY <2>1, <2>2, <2>3 DEF LastInv
  <1>2. Start => LastInv
    BY <1>1 DEF Start
  <1>3. [Step]_all => [A!Next]_(A!vars)
    BY DEF Step, PagesStep, all, pages, Avars, A!vars, A!shownData, A!queries, A!effect, A!button
  <1>4. LastInv => A!LastDataShown
    BY DataAssumption DEF LastInv, A!LastDataShown, A!Shown
  <1> QED BY <1>2, <1>3, <1>4, LastStep, PTL DEF PageSpec

-----------------------------------------------------------------------------
(* The graph of the home page.                                             *)

\* Products and quotients.
LEMMA ProductGrows ==
    ASSUME NEW a \in Int, NEW b \in Int, NEW c \in Nat, a <= b PROVE a * c <= b * c
  <1>1. b - a \in Nat /\ (b - a) * c = b * c - a * c
    OBVIOUS
  <1>2. \A p, q \in Nat : p * q \in Nat
    OBVIOUS
  <1>3. (b - a) * c \in Nat
    BY <1>1, <1>2
  <1>4. a * c \in Int /\ b * c \in Int
    OBVIOUS
  <1> QED BY <1>1, <1>3, <1>4

LEMMA QuotientBelow ==
    ASSUME NEW a \in Nat, NEW b \in Nat \ {0}
    PROVE  /\ a \div b \in Nat /\ b * (a \div b) <= a /\ a < b * (a \div b) + b
  OBVIOUS

LEMMA MultipleOf ==
    ASSUME NEW a \in Nat, NEW b \in Nat \ {0}, a % b = 0
    PROVE  a = b * (a \div b) /\ a \div b \in Nat
  OBVIOUS

LEMMA MultipleIs ==
    ASSUME NEW q \in Nat, NEW b \in Nat \ {0}
    PROVE  (b * q) % b = 0 /\ b * q \in Nat
  OBVIOUS

LEMMA CeilAbove ==
    ASSUME NEW a \in Nat, NEW b \in Nat \ {0}
    PROVE  G!CeilDiv(a, b) \in Nat /\ G!CeilDiv(a, b) * b >= a
  <1>1. a + b - 1 \in Nat
    OBVIOUS
  <1> DEFINE q == (a + b - 1) \div b
  <1>2. q \in Nat /\ b * q <= a + b - 1 /\ a + b - 1 < b * q + b
    BY <1>1, QuotientBelow
  <1>3. b * q \in Nat /\ q * b = b * q
    BY <1>2
  <1>4. b * q >= a
    BY <1>2, <1>3
  <1> QED BY <1>2, <1>3, <1>4 DEF G!CeilDiv

\* Two multiples are a divisor apart.
LEMMA MultiplesApart ==
    ASSUME NEW i \in Nat, NEW j \in Nat, NEW e \in Nat \ {0}, i % e = 0, j % e = 0, i < j
    PROVE  j - i >= e
  <1>1. PICK p \in Nat : i = e * p
    BY MultipleOf
  <1>2. PICK q \in Nat : j = e * q
    BY MultipleOf
  <1>3. q > p
    <2>1. SUFFICES ASSUME q <= p PROVE FALSE
      OBVIOUS
    <2>2. q * e <= p * e
      BY <2>1, ProductGrows
    <2> QED BY <1>1, <1>2, <2>2
  <1>4. (p + 1) * e <= q * e
    BY <1>3, ProductGrows
  <1>5. (p + 1) * e = e * p + e /\ q * e = e * q
    OBVIOUS
  <1> QED BY <1>1, <1>2, <1>4, <1>5

\* Labels of the times do not overlap: they are a step apart, and the last one stays
\* only where there is room.
LEMMA LabelsApart ==
    ASSUME NEW n \in Nat, NEW r \in G!Ranges,
           NEW i \in G!TimeLabels(n, r), NEW j \in G!TimeLabels(n, r), i < j
    PROVE  (j - i) * PlotWidth >= G!Strategy(r).apart * (n - 1)
  <1> DEFINE apart == G!Strategy(r).apart
             target == IF n < G!Strategy(r).labels THEN n ELSE G!Strategy(r).labels
             step == IF target = 1 THEN n ELSE G!Larger(1, n \div (target - 1))
             each == G!Larger(step, G!CeilDiv(n * apart, PlotWidth))
             inner == {k \in 1..(n - 1 - each) : k % each = 0}
             prior == IF inner = {} THEN 0 ELSE CHOOSE k \in inner : \A m \in inner : m <= k
             end == IF n > 1 /\ (n - 1 - prior) * PlotWidth >= apart * (n - 1) THEN {n - 1} ELSE {}
  <1>1. PlotWidth \in Nat \ {0}
    BY PlotAssumption
  <1>2. apart \in Nat /\ G!Strategy(r).labels \in {6, 8}
    BY DEF G!Strategy, G!Ranges
  <1>3. G!TimeLabels(n, r) = IF n = 0 THEN {} ELSE {0} \cup inner \cup end
    BY DEF G!TimeLabels
  <1>4. n > 0
    BY <1>3
  <1>5. step \in Nat \ {0}
    <2>1. target \in Nat /\ target > 0
      BY <1>2, <1>4
    <2>2. CASE target = 1
      BY <1>4, <2>2
    <2>3. CASE target # 1
      <3>1. target - 1 \in Nat \ {0}
        BY <2>1, <2>3
      <3>2. n \div (target - 1) \in Nat
        BY <3>1, QuotientBelow
      <3> HIDE DEF target
      <3> QED BY <2>3, <3>2 DEF G!Larger
    <2> QED BY <2>2, <2>3
  <1>6. each \in Nat \ {0} /\ each * PlotWidth >= apart * (n - 1)
    <2>1. n * apart \in Nat /\ n * apart >= apart * (n - 1)
      BY <1>2, <1>4
    <2> DEFINE c == G!CeilDiv(n * apart, PlotWidth)
    <2>2. c \in Nat /\ c * PlotWidth >= n * apart
      BY <1>1, <2>1, CeilAbove
    <2> HIDE DEF c, step, apart
    <2>3. each \in Nat \ {0} /\ c <= each
      BY <1>5, <2>2 DEF G!Larger, c
    <2> HIDE DEF each
    <2>4. c * PlotWidth <= each * PlotWidth
      BY <1>1, <2>2, <2>3, ProductGrows
    <2>5. c * PlotWidth \in Int /\ each * PlotWidth \in Int /\ apart * (n - 1) \in Int
      BY <1>1, <1>2, <1>4, <2>2, <2>3 DEF apart
    <2> QED BY <2>1, <2>2, <2>3, <2>4, <2>5
  <1> HIDE DEF each, apart
  <1>7. \A k \in inner : k \in Nat /\ k >= each /\ k <= n - 1 - each /\ k % each = 0
    <2> SUFFICES ASSUME NEW k \in inner PROVE k \in Nat /\ k >= each /\ k <= n - 1 - each /\ k % each = 0
      OBVIOUS
    <2>1. k \in Nat \ {0} /\ k <= n - 1 - each /\ k % each = 0
      BY <1>6
    <2>2. 0 % each = 0
      BY <1>6
    <2>3. k - 0 >= each
      BY <1>6, <2>1, <2>2, MultiplesApart
    <2> QED BY <2>1, <2>3
  <1>8. ASSUME NEW k \in inner PROVE prior \in inner /\ k <= prior
    <2> DEFINE room == n - 1 - each
    <2>1. room \in Nat \ {0} /\ room >= each
      BY <1>6, <1>7, <1>8
    <2> DEFINE high == each * (room \div each)
    <2>2. room \div each \in Nat /\ high <= room /\ room < high + each
      BY <1>6, <2>1, QuotientBelow
    <2>3. high \in Nat /\ high % each = 0
      BY <1>6, <2>2, MultipleIs
    <2>4. high \in inner
      BY <1>6, <2>1, <2>2, <2>3
    <2>5. ASSUME NEW m \in inner PROVE m <= high
      <3>1. m \in Nat /\ m <= room /\ m % each = 0
        BY <1>7, <2>5
      <3>2. ~(high < m)
        <4> SUFFICES ASSUME high < m PROVE FALSE
          OBVIOUS
        <4>1. m - high >= each
          BY <1>6, <2>3, <3>1, MultiplesApart
        <4> HIDE DEF high, room
        <4> QED BY <1>6, <2>1, <2>2, <2>3, <3>1, <4>1
      <3> QED BY <2>3, <3>1, <3>2
    <2> HIDE DEF high, inner
    <2>6. \E h \in inner : \A m \in inner : m <= h
      BY <2>4, <2>5
    <2> QED BY <1>8, <2>6 DEF prior
  <1>9. i \in Nat /\ j \in Nat /\ i <= n - 1 /\ j <= n - 1
    BY <1>3, <1>4, <1>6, <1>7
  <1>10. CASE j \in inner
    <2>1. i % each = 0 /\ j % each = 0
      <3>1. 0 % each = 0
        BY <1>6
      <3>2. i # n - 1
        BY <1>6, <1>7, <1>9, <1>10
      <3> QED BY <1>3, <1>4, <1>7, <1>10, <3>1, <3>2
    <2>2. j - i >= each
      BY <1>6, <1>9, <2>1, MultiplesApart
    <2>3. each * PlotWidth <= (j - i) * PlotWidth
      BY <1>1, <1>6, <1>9, <2>2, ProductGrows
    <2>4. each * PlotWidth \in Int /\ (j - i) * PlotWidth \in Int /\ apart * (n - 1) \in Int
      BY <1>1, <1>2, <1>6, <1>9 DEF apart
    <2> QED BY <1>6, <2>3, <2>4 DEF apart
  <1>11. CASE j \notin inner
    <2>1. j = n - 1 /\ (n - 1 - prior) * PlotWidth >= apart * (n - 1)
      BY <1>3, <1>4, <1>9, <1>11
    <2>2. prior \in Nat /\ i <= prior
      <3>1. CASE i \in inner
        BY <1>7, <1>8, <3>1
      <3>2. CASE i \notin inner
        <4>1. i = 0
          BY <1>3, <1>4, <1>9, <2>1, <3>2
        <4>2. prior \in Nat
          <5>1. CASE inner = {}
            BY <5>1
          <5>2. CASE inner # {}
            BY <1>7, <1>8, <5>2
          <5> QED BY <5>1, <5>2
        <4> HIDE DEF prior
        <4> QED BY <4>1, <4>2
      <3> QED BY <3>1, <3>2
    <2> HIDE DEF prior
    <2>3. (n - 1 - prior) * PlotWidth <= (j - i) * PlotWidth
      BY <1>1, <1>9, <2>1, <2>2, ProductGrows
    <2>4. (n - 1 - prior) * PlotWidth \in Int /\ (j - i) * PlotWidth \in Int /\ apart * (n - 1) \in Int
      BY <1>1, <1>2, <1>9, <2>2 DEF apart
    <2> QED BY <2>1, <2>3, <2>4 DEF apart
  <1> QED BY <1>10, <1>11

\* A series that can be drawn, and a picture of one.
Drawable(s) == {s.n, s.lo, s.hi} \subseteq Nat /\ s.lo <= s.hi
PictureOf(p) == Drawable(p.series) /\ p.range \in G!Ranges

\* The axis has two ends, and the line lies between them.
LEMMA LineInside ==
    ASSUME NEW s, Drawable(s)
    PROVE  /\ G!Ticks(G!Scale(s))[1] < G!Ticks(G!Scale(s))[2]
           /\ G!Ticks(G!Scale(s))[2] < G!Ticks(G!Scale(s))[3]
           /\ \A y \in G!Line(s, G!Scale(s)) : y.over >= 0 /\ y.over <= y.under
  <1> DEFINE top == G!Scale(s).top
             bottom == G!Scale(s).bottom
  <1>1. s.n \in Nat /\ s.lo \in Nat /\ s.hi \in Nat /\ s.lo <= s.hi
    BY DEF Drawable
  <1>2. /\ top \in Nat /\ bottom \in Nat /\ bottom + 2 <= top
        /\ s.n = 0 \/ (bottom <= 10 * s.lo /\ 10 * s.hi <= top)
    <2>1. CASE s.n = 0 \/ s.hi = 0
      BY <1>1, <2>1 DEF G!Scale
    <2>2. CASE s.n # 0 /\ s.hi # 0 /\ s.hi - s.lo = 0
      BY <1>1, <2>2 DEF G!Scale
    <2>3. CASE s.n # 0 /\ s.hi # 0 /\ s.hi - s.lo # 0
      <3>1. /\ top = 10 * s.hi + (s.hi - s.lo)
            /\ bottom = IF 10 * s.lo > s.hi - s.lo THEN 10 * s.lo - (s.hi - s.lo) ELSE 0
        BY <2>3 DEF G!Scale
      <3> HIDE DEF top, bottom
      <3> QED BY <1>1, <2>3, <3>1
    <2> QED BY <2>1, <2>2, <2>3
  <1>3. /\ G!Ticks(G!Scale(s))[1] = bottom /\ G!Ticks(G!Scale(s))[3] = top
        /\ G!Ticks(G!Scale(s))[2] = (bottom + top) \div 2
    BY DEF G!Ticks
  <1>4. ASSUME NEW y \in G!Line(s, G!Scale(s)) PROVE y.over >= 0 /\ y.over <= y.under
    <2>1. s.n # 0 /\ (y = G!Y(s.lo, G!Scale(s)) \/ y = G!Y(s.hi, G!Scale(s)))
      BY <1>1, <1>4 DEF G!Line
    <2>2. y.under = top - bottom /\ (y.over = 10 * s.lo - bottom \/ y.over = 10 * s.hi - bottom)
      BY <2>1 DEF G!Y
    <2> HIDE DEF top, bottom
    <2> QED BY <1>1, <1>2, <2>1, <2>2
  <1> HIDE DEF top, bottom
  <1>5. bottom < (bottom + top) \div 2 /\ (bottom + top) \div 2 < top
    BY <1>2
  <1> QED BY <1>3, <1>4, <1>5

LEMMA PictureInside == PictureOf(canvas) => G!DrawnInside
  <1> SUFFICES ASSUME PictureOf(canvas) PROVE G!DrawnInside
    OBVIOUS
  <1>1. Drawable(canvas.series) /\ canvas.range \in G!Ranges /\ canvas.series.n \in Nat
    BY DEF PictureOf, Drawable
  <1>2. \A i, j \in G!TimeLabels(canvas.series.n, canvas.range) :
          i < j => (j - i) * PlotWidth >= G!Strategy(canvas.range).apart * (canvas.series.n - 1)
    BY <1>1, LabelsApart
  <1> QED BY <1>1, <1>2, LineInside DEF G!DrawnInside

\* Whatever waits to be shown or drawn can be drawn.
PlotInv ==
    /\ Drawable(display) /\ gRange \in G!Ranges /\ PictureOf(canvas)
    /\ debounced # G!None => Drawable(debounced)
    /\ drawFrame # G!None => PictureOf(drawFrame.of)

LEMMA DrawableSeries == Drawable(G!Empty) /\ \A s \in G!Series : Drawable(s)
  <1>1. Drawable(G!Empty)
    BY DEF G!Empty, Drawable
  <1>2. ASSUME NEW s \in G!Series PROVE Drawable(s)
    <2>1. /\ s \in [id : 1..PlotSteps, n : PlotLengths, lo : 0..PlotSpeed, hi : 0..PlotSpeed, t : 0..PlotClock]
          /\ s.lo <= s.hi
      BY <1>2 DEF G!Series
    <2>2. s.n \in PlotLengths /\ s.lo \in Nat /\ s.hi \in Nat
      BY <2>1
    <2> QED BY <2>1, <2>2, PlotAssumption DEF Drawable
  <1> QED BY <1>1, <1>2

\* A frame that is asked for draws what is shown, or one that was asked for before.
LEMMA PlotScheduled ==
    ASSUME PlotInv, NEW s, Drawable(s), NEW st, NEW r \in G!Ranges, drawFrame' = G!ScheduleDraw(s, st, r)
    PROVE  drawFrame' # G!None => PictureOf(drawFrame'.of)
  <1>1. CASE drawFrame = G!None
    <2>1. drawFrame'.of.series = s /\ drawFrame'.of.range = r
      BY <1>1 DEF G!ScheduleDraw, G!Picture
    <2> QED BY <2>1 DEF PictureOf
  <1>2. CASE drawFrame # G!None
    BY <1>2 DEF G!ScheduleDraw, PlotInv
  <1> QED BY <1>1, <1>2

LEMMA PlotStep == PlotInv /\ [G!Next]_(G!vars) => PlotInv'
  <1> SUFFICES ASSUME PlotInv, [G!Next]_(G!vars) PROVE PlotInv'
    OBVIOUS
  <1>1. ASSUME UNCHANGED <<display, gRange, canvas, debounced, drawFrame>> PROVE PlotInv'
    BY <1>1 DEF PlotInv
  <1>2. ASSUME UNCHANGED <<display, canvas, debounced>>, NEW st, gRange' \in G!Ranges,
               drawFrame' = G!ScheduleDraw(display, st, gRange')
        PROVE  PlotInv'
    <2>1. Drawable(display)
      BY DEF PlotInv
    <2>2. drawFrame' # G!None => PictureOf(drawFrame'.of)
      BY <1>2, <2>1, PlotScheduled
    <2> QED BY <1>2, <2>2 DEF PlotInv
  <1>3. ASSUME NEW s \in G!Series, G!NewPoints(s) PROVE PlotInv'
    <2>1. debounced' = s /\ UNCHANGED <<display, gRange, canvas, drawFrame>>
      BY <1>3 DEF G!NewPoints, G!frames
    <2> QED BY <1>3, <2>1, DrawableSeries DEF PlotInv
  <1>4. CASE G!ShowPoints
    <2>1. /\ debounced # G!None /\ debounced' = G!None /\ display' = debounced
          /\ UNCHANGED <<gRange, canvas>>
          /\ UNCHANGED drawFrame \/ drawFrame' = G!ScheduleDraw(debounced, style, gRange)
      BY <1>4 DEF G!ShowPoints, G!Rendered
    <2>2. Drawable(debounced) /\ gRange \in G!Ranges
      BY <2>1 DEF PlotInv
    <2>3. drawFrame' # G!None => PictureOf(drawFrame'.of)
      <3>1. CASE UNCHANGED drawFrame
        BY <3>1 DEF PlotInv
      <3>2. CASE drawFrame' = G!ScheduleDraw(debounced, style, gRange)
        BY <2>2, <3>2, PlotScheduled
      <3> QED BY <2>1, <3>1, <3>2
    <2> QED BY <2>1, <2>2, <2>3 DEF PlotInv
  <1>5. CASE G!DrawGraph
    <2>1. /\ drawFrame # G!None /\ drawFrame' = G!None /\ canvas' \in {canvas, drawFrame.of}
          /\ UNCHANGED <<display, gRange, debounced>>
      BY <1>5 DEF G!DrawGraph, G!shown
    <2> QED BY <2>1 DEF PlotInv
  <1>6. CASE G!DrawHoverOverlay \/ G!MoveTooltip \/ G!HandleMouseLeave \/ G!Tick
    BY <1>1, <1>6 DEF G!DrawHoverOverlay, G!MoveTooltip, G!HandleMouseLeave, G!Tick, G!shown, G!frames
  <1>7. CASE G!HandleTimeRangeClick
    <2>1. gRange' \in G!Ranges
      BY <1>7 DEF G!HandleTimeRangeClick, G!Ranges, PlotInv
    <2> QED BY <1>2, <1>7, <2>1 DEF G!HandleTimeRangeClick, G!Rendered
  <1>8. ASSUME NEW c \in BOOLEAN, G!ToggleStyle(c) PROVE PlotInv'
    <2>1. UNCHANGED <<display, canvas, debounced, gRange>> /\ gRange' \in G!Ranges
      BY <1>8 DEF G!ToggleStyle, PlotInv
    <2>2. UNCHANGED drawFrame \/ drawFrame' = G!ScheduleDraw(display, style', gRange')
      BY <1>8, <2>1 DEF G!ToggleStyle, G!Rendered
    <2> QED BY <1>1, <1>2, <2>1, <2>2
  <1>9. CASE \E x \in {0, PlotWidth} : G!HandleMouseMove(x)
    BY <1>1, <1>9 DEF G!HandleMouseMove, G!shown
  <1>10. CASE G!Resize \/ \E v, f \in BOOLEAN : G!FocusChanges(v, f)
    <2>1. UNCHANGED <<display, canvas, debounced, gRange>> /\ gRange' \in G!Ranges
      BY <1>10 DEF G!Resize, G!FocusChanges, G!shown, PlotInv
    <2>2. drawFrame' = G!ScheduleDraw(display, style, gRange')
      BY <1>10, <2>1 DEF G!Resize, G!FocusChanges
    <2> QED BY <1>2, <2>1, <2>2
  <1>11. ASSUME G!Mounts PROVE PlotInv'
    <2>1. /\ display' = G!Empty /\ debounced' = G!Empty /\ gRange' = 10 /\ canvas' = G!Blank
          /\ drawFrame' = G!ScheduleDraw(G!Empty, "bezier", 10)
      BY <1>11 DEF G!Mounts, G!Rendered
    <2>2. 10 \in G!Ranges /\ PictureOf(G!Blank) /\ Drawable(G!Empty)
      BY DrawableSeries DEF G!Ranges, G!Blank, G!Picture, PictureOf
    <2>3. drawFrame' # G!None => PictureOf(drawFrame'.of)
      BY <2>1, <2>2, PlotScheduled
    <2> QED BY <2>1, <2>2, <2>3 DEF PlotInv
  <1>12. CASE G!Mount \/ G!HandleRetry
    BY <1>11, <1>12 DEF G!Mount, G!HandleRetry
  <1>13. CASE G!Unmount \/ G!ComponentDidCatch
    <2>1. /\ drawFrame' = G!None /\ debounced' = G!None /\ UNCHANGED <<display, gRange, canvas>>
      BY <1>13 DEF G!Unmount, G!ComponentDidCatch, G!Unmounts, G!Cancels
    <2> QED BY <2>1 DEF PlotInv
  <1>14. CASE UNCHANGED G!vars
    BY <1>1, <1>14 DEF G!vars, G!shown, G!frames
  <1> QED BY <1>3, <1>4, <1>5, <1>6, <1>7, <1>8, <1>9, <1>10, <1>12, <1>13, <1>14 DEF G!Next

LEMMA PlotHolds == PageSpec => []G!DrawnInside
  <1>1. G!Init => PlotInv
    <2> SUFFICES ASSUME G!Init PROVE PlotInv
      OBVIOUS
    <2>1. /\ display = G!Empty /\ debounced = G!None /\ drawFrame = G!None /\ gRange = 10 /\ canvas = G!Blank
      BY DEF G!Init
    <2>2. 10 \in G!Ranges /\ PictureOf(G!Blank) /\ Drawable(G!Empty)
      BY DrawableSeries DEF G!Ranges, G!Blank, G!Picture, PictureOf
    <2> QED BY <2>1, <2>2 DEF PlotInv
  <1>2. Start => PlotInv
    BY <1>1 DEF Start
  <1>3. [Step]_all => [G!Next]_(G!vars)
    BY DEF Step, PagesStep, all, pages, Gvars, G!vars, G!shown, G!window, G!frames
  <1>4. PlotInv => G!DrawnInside
    BY PictureInside DEF PlotInv
  <1> QED BY <1>2, <1>3, <1>4, PlotStep, PTL DEF PageSpec

-----------------------------------------------------------------------------
(* What is shown.                                                          *)

\* However the frames and the answers of the core come in: the graphs lie inside of their
\* canvas and end up with the last samples, data stay for the grace and no longer, and
\* the card shows the address or says why not.  The list of the tests becomes the stored
\* one while no patch failed or overtook another, the rows of the media are the stored
\* ones while no page that is gone has stored others.
THEOREM ViewsCurrentHolds == PageSpec => []ViewsCurrent
  <1>1. /\ G!DrawnInside /\ B!DrawsLatest /\ A!LastDataShown /\ J!ListAgrees
        /\ X!AddressKnown /\ W!RowsStored
        => ViewsCurrent
    BY DEF ViewsCurrent
  <1> QED BY <1>1, PlotHolds, SidebarHolds, LastHolds, ListHolds, AddressHolds, UnlockHolds,
             SettingsBehave, PTL
=============================================================================
