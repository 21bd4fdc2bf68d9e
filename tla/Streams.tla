------------------------------- MODULE Streams -------------------------------
(***************************************************************************)
(* The shared subscriptions of the window to a stream of the core: the     *)
(* connections, traffic, memory or logs (useMihomoWsSubscription,          *)
(* src/src/hooks/use-mihomo-ws-subscription.ts, and MihomoWebSocket of     *)
(* src/crates/tauri-plugin-mihomo/guest-js/index.ts).                      *)
(*                                                                         *)
(* All who subscribe with one key share an entry, its socket and its timer *)
(* of reconnection; the first of them that is mounted handles messages.    *)
(* An entry lives from the first subscriber of its key to the last, but    *)
(* what it has asked for outlives it.                                      *)
(***************************************************************************)
EXTENDS Naturals

CONSTANTS
    Hooks,      \* components that subscribe
    MaxKeys,    \* bound: refreshes change the key
    MaxEntries, \* bound: entries made
    MaxSockets  \* bound: sockets asked for

ASSUME StreamBounds == {MaxKeys, MaxEntries, MaxSockets} \subseteq Nat

Nobody == "nobody"
Keys == 0..MaxKeys
Ids == 1..MaxEntries
Sockets == 1..MaxSockets

VARIABLES
    logs,       \* whether it is the stream of logs, which first loads the older ones
    key,        \* of the refreshes, in localStorage
    sub,        \* the entry each hook holds, 0 for none
    subKey,     \* the key it was subscribed with
    shared,     \* sharedSubscriptions: the entry of each key
    made,       \* entries made so far
    owners, active, ws, timer, closed,  \* fields of the entries
    connecting, \* socket that connectWs is about, and what it awaits
    state,      \* of the sockets: "none", "asked", "open", "closing", "gone"
    listens,    \* whether the socket has the listener
    reconnects, \* entries of whose scheduleReconnect the socket's end is awaited
    asked       \* sockets asked for so far

hooks == <<sub, subKey, owners, active, shared, made>>
entries == <<ws, timer, closed>>
sockets == <<state, listens, asked>>
vars == <<logs, key, hooks, entries, connecting, sockets, reconnects>>

Idle == [s |-> 0, at |-> "idle"]

TypeOK ==
    /\ key \in Keys /\ sub \in [Hooks -> 0..MaxEntries] /\ subKey \in [Hooks -> Keys]
    /\ shared \in [Keys -> 0..MaxEntries] /\ ws \in [Ids -> 0..MaxSockets]
    /\ owners \in [Ids -> SUBSET Hooks] /\ active \in [Ids -> Hooks \cup {Nobody}]
    /\ {timer, closed} \subseteq [Ids -> BOOLEAN] /\ listens \in [Sockets -> BOOLEAN]
    /\ state \in [Sockets -> {"none", "asked", "open", "closing", "gone"}]
    /\ \A e \in Ids : connecting[e].s \in 0..MaxSockets

Init ==
    /\ logs \in BOOLEAN /\ key = 0
    /\ sub = [h \in Hooks |-> 0] /\ subKey = [h \in Hooks |-> 0]
    /\ shared = [k \in Keys |-> 0] /\ made = 0
    /\ owners = [e \in Ids |-> {}] /\ active = [e \in Ids |-> Nobody]
    /\ ws = [e \in Ids |-> 0] /\ timer = [e \in Ids |-> FALSE] /\ closed = [e \in Ids |-> FALSE]
    /\ connecting = [e \in Ids |-> Idle]
    /\ state = [s \in Sockets |-> "none"] /\ listens = [s \in Sockets |-> FALSE]
    /\ reconnects = [s \in Sockets |-> 0] /\ asked = 0

-----------------------------------------------------------------------------
(* Entries.                                                                *)

\* An entry for the key, made if there is none: what `shared', `made' and the id
\* become.
EntryOf(k) == IF shared[k] = 0 THEN made + 1 ELSE shared[k]

\* connectWs, unless the entry is closed or has a socket or one on its way.
MayConnect(e) == ~closed[e] /\ connecting[e] = Idle /\ ws[e] = 0

Ask(e) ==
    IF asked < MaxSockets
    THEN /\ asked' = asked + 1
         /\ connecting' = [connecting EXCEPT ![e] = [s |-> asked', at |-> "asked"]]
         /\ state' = [state EXCEPT ![asked'] = "asked"]
    ELSE UNCHANGED <<asked, connecting, state>>

\* The one that handles messages: it stays as long as it is mounted.
PickActive(e, os) ==
    IF active[e] \in os THEN active[e]
    ELSE IF os = {} THEN Nobody ELSE CHOOSE h \in os : TRUE

-----------------------------------------------------------------------------
(* Subscribers.                                                            *)

Subscribe(h) ==
    /\ sub[h] = 0
    /\ LET e == EntryOf(key)
       IN  /\ e <= MaxEntries
           /\ made' = IF shared[key] = 0 THEN e ELSE made
           /\ shared' = [shared EXCEPT ![key] = e]
           /\ sub' = [sub EXCEPT ![h] = e] /\ subKey' = [subKey EXCEPT ![h] = key]
           /\ owners' = [owners EXCEPT ![e] = @ \cup {h}]
           /\ active' = [active EXCEPT ![e] = IF @ = Nobody THEN h ELSE @]
           /\ IF MayConnect(e) THEN Ask(e) ELSE UNCHANGED <<asked, connecting, state>>
    /\ UNCHANGED <<logs, key, entries, listens, reconnects>>

\* closeSharedSocket: the entry lets go of the socket, whose end takes a call.
CloseSocket(e) ==
    /\ ws' = [ws EXCEPT ![e] = 0]
    /\ state' = [s \in Sockets |-> IF s = ws[e] THEN "closing" ELSE state[s]]

\* The cleanup of the effect: of an unmounted hook, or one with another key.
Unsubscribe(h) ==
    /\ sub[h] # 0
    /\ LET e == sub[h]
           rest == owners[e] \ {h}
       IN  /\ sub' = [sub EXCEPT ![h] = 0]
           /\ owners' = [owners EXCEPT ![e] = rest]
           /\ active' = [active EXCEPT ![e] = PickActive(e, rest)]
           /\ IF rest # {} THEN UNCHANGED <<shared, closed, timer, ws, state>>
              ELSE /\ closed' = [closed EXCEPT ![e] = TRUE]
                   /\ timer' = [timer EXCEPT ![e] = FALSE]
                   /\ shared' = [shared EXCEPT ![subKey[h]] = 0]
                   /\ CloseSocket(e)
    /\ UNCHANGED <<logs, key, subKey, made, connecting, listens, asked, reconnects>>

\* refresh: a new key; hooks with the old one subscribe anew when they are rendered.
Refresh ==
    /\ key < MaxKeys /\ key' = key + 1
    /\ UNCHANGED <<logs, hooks, entries, connecting, sockets, reconnects>>

\* The logs are turned off, or the window hidden.
Disabled(h) == Unsubscribe(h)

-----------------------------------------------------------------------------
(* Connecting.                                                             *)

\* connect() has answered.
\* Mutant of the next definition: whether the entry has been closed is not asked.
ConnectedAnyway(e) ==
    /\ connecting[e].at = "asked"
    /\ LET s == connecting[e].s
       IN  /\ ws' = [ws EXCEPT ![e] = s] /\ timer' = [timer EXCEPT ![e] = FALSE]
           /\ state' = [state EXCEPT ![s] = "open"]
           /\ listens' = [listens EXCEPT ![s] = TRUE]
           /\ connecting' = [connecting EXCEPT ![e] = Idle]
    /\ UNCHANGED <<logs, key, hooks, closed, asked, reconnects>>

Connected(e) ==
    /\ connecting[e].at = "asked"
    /\ LET s == connecting[e].s
       IN  IF closed[e]
           THEN /\ state' = [state EXCEPT ![s] = "closing"]
                /\ connecting' = [connecting EXCEPT ![e] = Idle]
                /\ UNCHANGED <<ws, timer, listens>>
           ELSE /\ ws' = [ws EXCEPT ![e] = s] /\ timer' = [timer EXCEPT ![e] = FALSE]
                /\ state' = [state EXCEPT ![s] = "open"]
                /\ IF logs
                   THEN connecting' = [connecting EXCEPT ![e].at = "loading"] /\ UNCHANGED listens
                   ELSE /\ connecting' = [connecting EXCEPT ![e] = Idle]
                        /\ listens' = [listens EXCEPT ![s] = TRUE]
    /\ UNCHANGED <<logs, key, hooks, closed, asked, reconnects>>

\* It has failed: another attempt is made in a second.
ConnectFailed(e) ==
    /\ connecting[e].at = "asked"
    /\ state' = [state EXCEPT ![connecting[e].s] = "gone"]
    /\ connecting' = [connecting EXCEPT ![e] = Idle]
    /\ timer' = [timer EXCEPT ![e] = ~closed[e] /\ ws[e] = 0]
    /\ UNCHANGED <<logs, key, hooks, ws, closed, listens, asked, reconnects>>

\* onConnected of the logs has loaded the older ones; or it has not, and then
\* nobody listens to the socket, which stays.
LogsLoaded(e, ok) ==
    /\ connecting[e].at = "loading"
    /\ LET s == connecting[e].s
       IN  IF ~ok THEN UNCHANGED <<listens, state>>
           ELSE IF closed[e]
           THEN /\ state' = [state EXCEPT ![s] = IF @ = "open" THEN "closing" ELSE @]
                /\ UNCHANGED listens
           ELSE listens' = [listens EXCEPT ![s] = TRUE] /\ UNCHANGED state
    /\ connecting' = [connecting EXCEPT ![e] = Idle]
    /\ UNCHANGED <<logs, key, hooks, entries, asked, reconnects>>

TimerFires(e) ==
    /\ timer[e] /\ timer' = [timer EXCEPT ![e] = FALSE]
    /\ IF MayConnect(e) THEN Ask(e) ELSE UNCHANGED <<asked, connecting, state>>
    /\ UNCHANGED <<logs, key, hooks, ws, closed, listens, reconnects>>

-----------------------------------------------------------------------------
(* Sockets.                                                                *)

\* "Websocket error": the core has gone away.  Whoever handles it reconnects, once
\* the socket of the entry is closed; without a listener nobody learns of it.
Broken(s, e) ==
    /\ listens[s] /\ ~closed[e] /\ active[e] # Nobody
    /\ ws[e] = s \/ reconnects[s] = e
    /\ timer' = [timer EXCEPT ![e] = ws[e] = 0]
    /\ CloseSocket(e)
    /\ reconnects' = IF ws[e] = 0 THEN reconnects ELSE [reconnects EXCEPT ![ws[e]] = e]
    /\ UNCHANGED <<logs, key, hooks, closed, connecting, listens, asked>>

\* ws_disconnect has answered: the listeners are dropped, and a reconnection due.
Closed(s) ==
    /\ state[s] = "closing"
    /\ state' = [state EXCEPT ![s] = "gone"] /\ listens' = [listens EXCEPT ![s] = FALSE]
    /\ LET e == reconnects[s]
       IN  IF e # 0 /\ ~closed[e] THEN timer' = [timer EXCEPT ![e] = TRUE] ELSE UNCHANGED timer
    /\ reconnects' = [reconnects EXCEPT ![s] = 0]
    /\ UNCHANGED <<logs, key, hooks, ws, closed, connecting, asked>>

-----------------------------------------------------------------------------

Next ==
    \/ \E h \in Hooks : Subscribe(h) \/ Disabled(h)
    \/ Refresh
    \/ \E e \in Ids : Connected(e) \/ ConnectFailed(e) \/ TimerFires(e)
                      \/ \E ok \in BOOLEAN : LogsLoaded(e, ok)
    \/ \E s \in Sockets : Closed(s) \/ \E e \in Ids : Broken(s, e)

Spec == Init /\ [][Next]_vars

-----------------------------------------------------------------------------
(* Properties.                                                             *)

\* A socket that is open has an owner: its entry has subscribers and will close it
\* with the last of them, in whatever order subscribers come and go and calls to
\* connect, load and disconnect are answered (use-mihomo-ws-subscription.ts:85).
SocketsOwned ==
    \A s \in Sockets :
        state[s] = "open" => \E e \in Ids : ws[e] = s /\ ~closed[e] /\ owners[e] # {}
=============================================================================
