--------------------------- MODULE ProxiesProofs ---------------------------
(***************************************************************************)
(* What holds of the page of the proxies for any groups, nodes, buttons,   *)
(* helpers and number of clicks: the choice of a proxy, the latency tests, *)
(* the chain of proxies and the card of the current node.  The choice is   *)
(* proved of its own specification, the others of PageSpec, whose          *)
(* behaviours are each of one component.                                   *)
(***************************************************************************)
EXTENDS MCProxies, FiniteSetTheorems, SequenceTheorems, WellFoundedInduction, TLAPS

-----------------------------------------------------------------------------
(* The choice of a proxy.  The loop of use-proxy-selection.ts ends with    *)
(* the last click: a request that is replaced in the slot is never the     *)
(* last, and the loop ends only when the slot is empty.                    *)

\* While the loop runs, the last click is what waits or, when nothing waits,
\* what is executed.
LastIsKept ==
    running # NoChoice => last = IF pending = NoChoice THEN running ELSE pending

Inv == TypeOK /\ LastIsKept

LEMMA ChoiceIsNotNone == NoChoice \notin Choice
  BY NodesAssumption DEF NoChoice, Choice, None

LEMMA InitInv == Init => Inv
  <1> SUFFICES ASSUME Init PROVE Inv
    OBVIOUS
  <1>1. saved \in Selections
    BY DEF Init, Selections
  <1>2. TypeOK
    BY <1>1, BoundsAssumption DEF Init, TypeOK
  <1>3. LastIsKept
    BY DEF Init, LastIsKept
  <1> QED BY <1>2, <1>3 DEF Inv

\* Taking the next request: what is executed is a choice, or the loop is over.
LEMMA TakeTypes ==
    ASSUME NEW r \in Choice \cup {NoChoice}, NEW base \in Selections, Take(r, base)
    PROVE  /\ running' \in Choice \cup {NoChoice} /\ pending' = NoChoice
           /\ attempt' \in 0 .. 2 /\ closure' \in Selections
           /\ running' = r
  BY DEF Take

LEMMA PersistedType ==
    ASSUME TypeOK, running # NoChoice
    PROVE  /\ Persisted(running) \in Selections
           /\ [now EXCEPT ![running.group] = running.node] \in Selections
  <1>1. running \in Choice
    BY DEF TypeOK
  <1>2. running.group \in Groups /\ running.node \in Nodes
    BY <1>1 DEF Choice
  <1> QED BY <1>2 DEF TypeOK, Persisted, Selections

LEMMA SelectInv ==
    ASSUME Inv, NEW g \in Groups, NEW n \in Nodes, Select(g, n) PROVE Inv'
  <1> DEFINE request == [group |-> g, node |-> n]
  <1>1. request \in Choice /\ request # NoChoice
    BY ChoiceIsNotNone DEF Choice
  <1>2. /\ last' = request /\ clicks' \in 0 .. MaxClicks
        /\ UNCHANGED <<now, saved, profiles, patches, reloads>>
    BY BoundsAssumption DEF Select, Inv, TypeOK
  <1>3. CASE attempt = 0
    <2>1. Take(request, profiles)
      BY <1>3 DEF Select
    <2>2. TypeOK'
      BY <1>1, <1>2, <2>1, TakeTypes DEF Inv, TypeOK
    <2> QED BY <1>1, <1>2, <2>1, <2>2 DEF Inv, LastIsKept, Take
  <1>4. CASE attempt # 0
    <2>1. pending' = request /\ UNCHANGED <<running, attempt, closure>>
      BY <1>4 DEF Select
    <2> QED BY <1>1, <1>2, <2>1 DEF Inv, TypeOK, LastIsKept
  <1> QED BY <1>3, <1>4

LEMMA ExecutedInv == ASSUME Inv, Executed PROVE Inv'
  <1>1. /\ now' \in Selections /\ patches' \subseteq Selections
        /\ Take(pending, closure)
        /\ UNCHANGED <<saved, profiles, last, clicks, reloads>>
    BY PersistedType DEF Executed, Inv, TypeOK
  <1>2. TypeOK'
    BY <1>1, TakeTypes DEF Inv, TypeOK
  <1>3. LastIsKept'
    <2> SUFFICES ASSUME running' # NoChoice PROVE last' = running' /\ pending' = NoChoice
      BY DEF LastIsKept
    <2>1. pending # NoChoice /\ running' = pending /\ pending' = NoChoice
      BY <1>1 DEF Take
    <2> QED BY <1>1, <2>1 DEF Executed, Inv, LastIsKept
  <1> QED BY <1>2, <1>3 DEF Inv

LEMMA RefusedInv == ASSUME Inv, Refused PROVE Inv'
  <1>1. UNCHANGED <<now, saved, profiles, patches, last, clicks, reloads>>
    BY DEF Refused
  <1>2. CASE attempt = 1
    BY <1>1, <1>2 DEF Refused, Inv, TypeOK, LastIsKept
  <1>3. CASE attempt # 1
    <2>1. Take(pending, closure)
      BY <1>3 DEF Refused
    <2>2. TypeOK'
      BY <1>1, <2>1, TakeTypes DEF Inv, TypeOK
    <2>3. LastIsKept'
      BY <1>1, <2>1 DEF Refused, Take, Inv, LastIsKept
    <2> QED BY <2>2, <2>3 DEF Inv
  <1> QED BY <1>2, <1>3

LEMMA OthersInv ==
    ASSUME Inv,
           \/ \E p \in patches : Save(p)
           \/ FetchProfiles
           \/ \E fresh \in Selections : Reload(fresh)
    PROVE  Inv'
  <1>1. ASSUME NEW p \in patches, Save(p) PROVE Inv'
    BY <1>1 DEF Save, Inv, TypeOK, LastIsKept
  <1>2. CASE FetchProfiles
    BY <1>2 DEF FetchProfiles, Inv, TypeOK, LastIsKept
  <1>3. ASSUME NEW fresh \in Selections, Reload(fresh) PROVE Inv'
    BY <1>3, BoundsAssumption DEF Reload, Inv, TypeOK, LastIsKept
  <1> QED BY <1>1, <1>2, <1>3

LEMMA StepInv == Inv /\ [Next]_vars => Inv'
  <1> SUFFICES ASSUME Inv, [Next]_vars PROVE Inv'
    OBVIOUS
  <1>1. ASSUME NEW g \in Groups, NEW n \in Nodes, Select(g, n) PROVE Inv'
    BY <1>1, SelectInv
  <1>2. CASE UNCHANGED vars
    BY <1>2 DEF vars, Inv, TypeOK, LastIsKept
  <1> QED BY <1>1, <1>2, ExecutedInv, RefusedInv, OthersInv DEF Next

\* The variables of the loop have their types in every behaviour.
THEOREM TypeCorrect == Spec => []TypeOK
  <1>1. Inv => TypeOK
    BY DEF Inv
  <1> QED BY <1>1, InitInv, StepInv, PTL DEF Spec

\* The loop ends with the request of the last click, which the core has taken
\* or refused twice, whatever was clicked while it ran.
THEOREM LastChoiceHolds == Spec => LastChoiceWins
  <1> DEFINE Ends == (attempt # 0 /\ attempt' = 0) =>
                        /\ running = last
                        /\ now'[last.group] = last.node \/ attempt = 2
  <1>1. ASSUME Inv, [Next]_vars PROVE [Ends]_vars
    <2> SUFFICES ASSUME attempt # 0, attempt' = 0
                 PROVE  /\ running = last
                        /\ now'[last.group] = last.node \/ attempt = 2
      OBVIOUS
    <2>1. Executed \/ Refused
      BY <1>1 DEF Next, Select, Save, FetchProfiles, Reload, vars
    <2>2. CASE Executed
      <3>1. pending = NoChoice /\ running # NoChoice
        BY <2>2 DEF Executed, Take
      <3>2. running = last /\ running.group \in Groups
        BY <1>1, <3>1 DEF Inv, TypeOK, LastIsKept, Choice
      <3>3. now'[running.group] = running.node
        BY <1>1, <2>2, <3>2 DEF Executed, Inv, TypeOK, Selections
      <3> QED BY <3>2, <3>3
    <2>3. CASE Refused
      <3>1. attempt = 2
        BY <1>1, <2>3 DEF Refused, Inv, TypeOK
      <3>2. pending = NoChoice /\ running # NoChoice
        BY <2>3, <3>1 DEF Refused, Take
      <3> QED BY <1>1, <3>1, <3>2 DEF Inv, LastIsKept
    <2> QED BY <2>1, <2>2, <2>3
  <1> QED BY <1>1, InitInv, StepInv, PTL DEF Spec, LastChoiceWins

-----------------------------------------------------------------------------
(* The latency tests.  A mark that no answer will take away has a check    *)
(* that runs, a helper on its way to it, or a list that comes to it.       *)

\* Between its lists a button has no helpers.
TeamsRest ==
    \A l \in D!Lists : list[l].at # "helping" => \A a \in D!Team(l) : call[a].at = "idle"

\* An actor has a node while its check waits or runs, and only a check that
\* runs is the latest of its node.
CallSteps ==
    \A a \in D!Actors :
        /\ call[a].at \in {"idle", "done"} <=> call[a].name = "none"
        /\ call[a].latest => call[a].at \in {"asked", "answered"}

\* A helper leaves its list when the list is aborted or has no node left.
HelpersLeave ==
    \A l \in D!Lists : \A a \in D!Team(l) :
        list[l].at = "helping" /\ call[a].at = "done"
            => list[l].aborted \/ list[l].index = Len(Checked)

\* A node carries the mark while its latest check runs or a helper is about to
\* check it, or else while a list runs that comes to it yet or gives it up.
Left(l) == {Checked[i] : i \in list[l].index + 1 .. Len(Checked)}
MarkCovered ==
    \A n \in D!Unmanaged : cache[n].state = "testing" =>
        \/ \E a \in D!Actors : /\ call[a].name = n
                               /\ call[a].latest \/ call[a].at = "waiting"
        \/ \E l \in D!Lists : /\ list[l].at = "helping"
                              /\ list[l].aborted \/ n \in Left(l)

DelayInv ==
    /\ D!TypeOK /\ TeamsRest /\ CallSteps /\ HelpersLeave /\ MarkCovered
    /\ D!LatestWins

LEMMA DelayFacts ==
    /\ D!Unmanaged \subseteq D!Names /\ "none" \notin D!Names
    /\ Len(Checked) \in Nat
    /\ \A i \in 1 .. Len(Checked) : Checked[i] \in D!Unmanaged
    /\ \A l \in D!Lists, h \in 1 .. Helpers :
          <<l, h>> \in D!Actors \ Clickers /\ <<l, h>> \in D!Team(l)
    /\ Clickers \subseteq D!Actors
    /\ \A l \in D!Lists : D!Team(l) \subseteq D!Actors \ Clickers
    /\ \A l, k \in D!Lists : D!Team(l) \cap D!Team(k) # {} => l = k
    /\ \A h \in 1 .. Helpers : h \in 1 .. Len(Checked)
  <1>1. Len(Checked) \in Nat /\ Helpers \in 1 .. Len(Checked)
    BY DelayAssumption
  <1>2. \A l \in D!Lists : D!Team(l) \subseteq D!Lists \X (1 .. Helpers)
    BY DEF D!Team
  <1>3. \A l, k \in D!Lists : D!Team(l) \cap D!Team(k) # {} => l = k
    BY DEF D!Team
  <1>4. \A l \in D!Lists, h \in 1 .. Helpers : <<l, h>> \in D!Team(l)
    BY DEF D!Team
  <1> QED BY <1>1, <1>2, <1>3, <1>4, DelayAssumption DEF D!Actors, D!Names, D!Unmanaged

\* Ask gives the caller its check and takes the place of the latest from those
\* of the same node.
LEMMA AskFacts ==
    ASSUME D!TypeOK, CallSteps, NEW a \in D!Actors, NEW n \in D!Names,
           NEW v \in Views \cup {"card", "gone"}, NEW asked, asked = D!Ask(a, n, v)
    PROVE  /\ asked \in [D!Actors -> D!Calls]
           /\ asked[a].name = n /\ asked[a].latest /\ asked[a].at = "asked"
           /\ \A b \in D!Actors \ {a} :
                 /\ asked[b].at = call[b].at /\ asked[b].name = call[b].name
                 /\ asked[b].latest = (call[b].latest /\ call[b].name # n)
    <1>1. \A b \in D!Actors : call[b] \in D!Calls
    BY DEF D!TypeOK
  <1>2. DOMAIN asked = D!Actors
    BY DEF D!Ask
  <1>3. asked[a] = [at |-> "asked", name |-> n, latest |-> TRUE, answer |-> "none", view |-> v]
    BY DEF D!Ask
  <1>4. \A b \in D!Actors \ {a} :
           asked[b] = [call[b] EXCEPT !.latest = call[b].latest /\ call[b].name # n]
    BY DEF D!Ask
  <1>5. asked[a] \in D!Calls
    BY <1>3 DEF D!Calls
  <1>6. ASSUME NEW b \in D!Actors \ {a}
        PROVE  /\ asked[b] \in D!Calls
               /\ asked[b].at = call[b].at /\ asked[b].name = call[b].name
               /\ asked[b].latest = (call[b].latest /\ call[b].name # n)
    <2>1. call[b] \in D!Calls
      BY <1>1
    <2>2. asked[b] = [call[b] EXCEPT !.latest = call[b].latest /\ call[b].name # n]
      BY <1>4
    <2> DEFINE newer == call[b].latest /\ call[b].name # n
    <2>3. newer \in BOOLEAN
      OBVIOUS
    <2>4. asked[b] = [call[b] EXCEPT !.latest = newer]
      BY <2>2
    <2> HIDE DEF newer
    <2>5. asked[b] \in D!Calls /\ asked[b].latest = newer
      BY <2>1, <2>3, <2>4 DEF D!Calls
    <2>6. asked[b].at = call[b].at /\ asked[b].name = call[b].name
      BY <2>1, <2>4 DEF D!Calls
    <2>8. asked[b].latest = (call[b].latest /\ call[b].name # n)
      BY <2>5, Zenon DEF newer
    <2> QED BY <2>5, <2>6, <2>8, Zenon
  <1> QED BY <1>2, <1>3, <1>5, <1>6 DEF D!Ask

\* What is written is of its node, and the others keep what they have.
LEMMA SetFacts ==
    ASSUME D!TypeOK, NEW new, DOMAIN new \subseteq D!Names, D!SetDelays(new),
           \A n \in DOMAIN new : new[n] \in D!Entries /\ ~new[n].late
    PROVE  /\ cache' \in [D!Names -> D!Entries] /\ dPending' \subseteq D!Names
           /\ \A n \in D!Names : cache'[n] = IF n \in DOMAIN new THEN new[n] ELSE cache[n]
           /\ D!LatestWins => D!LatestWins'
  BY DEF D!TypeOK, D!SetDelays, D!LatestWins

\* A step that begins a check of n for a, and marks n.
LEMMA AskInv ==
    ASSUME DelayInv, NEW a \in D!Actors, NEW n \in D!Names,
           NEW v \in Views \cup {"card", "gone"},
           call' = D!Ask(a, n, v), D!SetDelays([m \in {n} |-> D!Marked]), UNCHANGED list,
           \A l \in D!Lists : a \in D!Team(l) => list[l].at = "helping",
           call[a].name \in {n, "none"},
           item' \in [Views -> D!Names \cup {"none"}],
           shown' \in [Views -> D!Entries \cup {D!Entry("history")}]
    PROVE  DelayInv'
  <1>1. /\ call' \in [D!Actors -> D!Calls]
        /\ call'[a].name = n /\ call'[a].latest /\ call'[a].at = "asked"
        /\ \A b \in D!Actors \ {a} :
              /\ call'[b].at = call[b].at /\ call'[b].name = call[b].name
              /\ call'[b].latest = (call[b].latest /\ call[b].name # n)
    BY AskFacts DEF DelayInv
  <1> DEFINE new == [m \in {n} |-> D!Marked]
  <1>2. DOMAIN new = {n} /\ new[n] = D!Marked
    OBVIOUS
  <1>3. D!Marked \in D!Entries /\ ~D!Marked.late /\ D!Marked.state = "testing"
    BY DEF D!Marked, D!Entry, D!Entries
  <1>4. /\ cache' \in [D!Names -> D!Entries] /\ dPending' \subseteq D!Names
        /\ \A m \in D!Names : cache'[m] = IF m \in DOMAIN new THEN new[m] ELSE cache[m]
        /\ D!LatestWins => D!LatestWins'
    <2> HIDE DEF new
    <2>1. DOMAIN new \subseteq D!Names /\ D!SetDelays(new)
      BY <1>2 DEF new
    <2>2. \A m \in DOMAIN new : new[m] \in D!Entries /\ ~new[m].late
      BY <1>2, <1>3
    <2> QED BY <2>1, <2>2, SetFacts DEF DelayInv
  <1>5. D!TypeOK'
    BY <1>1, <1>4 DEF DelayInv, D!TypeOK
  <1>6. TeamsRest'
    BY <1>1, DelayFacts DEF DelayInv, TeamsRest
  <1>7. CallSteps'
    <2>1. ASSUME NEW b \in D!Actors \ {a}
          PROVE  /\ call'[b].at \in {"idle", "done"} <=> call'[b].name = "none"
                 /\ call'[b].latest => call'[b].at \in {"asked", "answered"}
      BY <1>1 DEF DelayInv, CallSteps
    <2>2. /\ call'[a].at \notin {"idle", "done"} /\ call'[a].name # "none"
          /\ call'[a].at \in {"asked", "answered"}
      BY <1>1, DelayFacts
    <2> QED BY <2>1, <2>2, Zenon DEF CallSteps
  <1>8. HelpersLeave'
    BY <1>1, DelayFacts DEF DelayInv, HelpersLeave
  <1>9. MarkCovered'
    <2> SUFFICES ASSUME NEW m \in D!Unmanaged, cache'[m].state = "testing"
                 PROVE  \/ \E b \in D!Actors : /\ call'[b].name = m
                                               /\ call'[b].latest \/ call'[b].at = "waiting"
                        \/ \E l \in D!Lists : /\ list'[l].at = "helping"
                                              /\ list'[l].aborted \/ m \in Left(l)'
      BY DEF MarkCovered
    <2>1. CASE m = n
      BY <1>1, <2>1
    <2>2. CASE m # n
      <3>1. cache[m].state = "testing"
        BY <1>2, <1>4, <2>2, DelayFacts
      <3>2. CASE \E l \in D!Lists : /\ list[l].at = "helping"
                                    /\ list[l].aborted \/ m \in Left(l)
        BY <3>2 DEF Left
      <3>3. ASSUME NEW b \in D!Actors, call[b].name = m,
                   call[b].latest \/ call[b].at = "waiting"
            PROVE  call'[b].name = m /\ (call'[b].latest \/ call'[b].at = "waiting")
        <4>1. b # a
          BY <2>2, <3>3, DelayFacts
        <4> QED BY <1>1, <2>2, <3>3, <4>1
      <3> QED BY <3>1, <3>2, <3>3 DEF DelayInv, MarkCovered
    <2> QED BY <2>1, <2>2
  <1> QED BY <1>4, <1>5, <1>6, <1>7, <1>8, <1>9 DEF DelayInv

LEMMA ItemTypes ==
    ASSUME D!TypeOK
    PROVE  /\ \A v \in Views : item[v] \in D!Names \cup {"none"}
           /\ \A n \in D!Names : cache[n] \in D!Entries
           /\ \A a \in D!Actors : call[a] \in D!Calls
           /\ D!Entry("testing") \in D!Entries /\ D!Entry("none") \in D!Entries
                     /\ D!Entry("ok") \in D!Entries /\ D!Entry("error") \in D!Entries
                     /\ ~D!Entry("ok").late /\ ~D!Entry("error").late
           /\ ~D!Entry("testing").late
                     /\ D!Entry("ok").state = "ok" /\ D!Entry("error").state = "error"
  BY DEF D!TypeOK, D!Entry, D!Entries

\* The steps by which a check begins.
LEMMA BeginsInv ==
    ASSUME DelayInv,
           \/ \E a \in Clickers, v \in Views : D!Click(a, v)
           \/ \E a \in Clickers, n \in D!Names : D!AutoCheck(a, n)
           \/ \E l \in D!Lists, h \in 1 .. Helpers : D!HelperAsks(l, h)
    PROVE  DelayInv'
  <1>1. D!TypeOK /\ CallSteps
    BY DEF DelayInv
  <1>2. D!Idle.name = "none" /\ D!Marked \in D!Entries
    BY ItemTypes, <1>1 DEF D!Idle, D!Marked
  <1>3. ASSUME NEW a \in Clickers, NEW v \in Views, D!Click(a, v) PROVE DelayInv'
    <2>1. item[v] \in D!Names /\ a \in D!Actors
      BY <1>1, <1>3, DelayFacts, ItemTypes DEF D!Click
    <2>2. shown' \in [Views -> D!Entries \cup {D!Entry("history")}]
      BY <1>1, <1>2, <1>3 DEF D!Click, D!TypeOK
    <2>3. /\ call' = D!Ask(a, item[v], v) /\ D!SetDelays([m \in {item[v]} |-> D!Marked])
          /\ UNCHANGED <<item, list>> /\ call[a].name = "none"
      BY <1>2, <1>3 DEF D!Click
    <2>4. \A l \in D!Lists : a \notin D!Team(l)
      BY DelayFacts
    <2> QED BY <1>1, <2>1, <2>2, <2>3, <2>4, AskInv DEF D!TypeOK
  <1>4. ASSUME NEW a \in Clickers, NEW n \in D!Names, D!AutoCheck(a, n) PROVE DelayInv'
    <2>1. /\ call' = D!Ask(a, n, "card") /\ D!SetDelays([m \in {n} |-> D!Marked])
          /\ UNCHANGED <<item, shown, list>> /\ call[a].name = "none"
      BY <1>2, <1>4 DEF D!AutoCheck
    <2>2. \A l \in D!Lists : a \notin D!Team(l)
      BY DelayFacts
    <2> QED BY <1>1, <2>1, <2>2, AskInv, DelayFacts DEF D!TypeOK
  <1>5. ASSUME NEW l \in D!Lists, NEW h \in 1 .. Helpers, D!HelperAsks(l, h) PROVE DelayInv'
    <2> DEFINE a == <<l, h>>
               n == call[a].name
    <2>1. /\ call[a].at = "waiting" /\ call' = D!Ask(a, n, "gone")
          /\ D!SetDelays([m \in {n} |-> D!Marked]) /\ UNCHANGED <<item, shown, list>>
      BY <1>5 DEF D!HelperAsks
    <2>2. a \in D!Actors /\ a \in D!Team(l)
      BY DelayFacts
    <2> HIDE DEF a
    <2>3. n \in D!Names
      BY <1>1, <2>1, <2>2, ItemTypes DEF CallSteps, D!Calls
    <2>4. \A k \in D!Lists : a \in D!Team(k) => list[k].at = "helping"
      BY <2>1, <2>2 DEF DelayInv, TeamsRest
    <2> QED BY <1>1, <2>1, <2>2, <2>3, <2>4, AskInv DEF D!TypeOK
  <1> QED BY <1>3, <1>4, <1>5

\* A check goes on, or it is one of an item and ends without leaving its mark.
GoesOn(b) ==
    /\ call'[b].name = call[b].name /\ call'[b].latest = call[b].latest
    /\ call'[b].at = call[b].at \/ (call[b].at = "asked" /\ call'[b].at = "answered")
Freed(b) ==
    /\ b \in Clickers /\ call[b].at = "answered" /\ call'[b] = D!Idle
    /\ call[b].latest => cache'[call[b].name].state # "testing"

\* Steps that begin no check and mark nothing, and leave the lists as far as
\* they are.
LEMMA OtherInv ==
    ASSUME DelayInv, D!TypeOK', D!LatestWins',
           \A l \in D!Lists :
              /\ list'[l].at = "helping" <=> list[l].at = "helping"
              /\ list[l].at = "helping" => /\ list'[l].index = list[l].index
                                           /\ list'[l].aborted = list[l].aborted,
           \A b \in D!Actors : GoesOn(b) \/ Freed(b),
           \A n \in D!Unmanaged : cache'[n].state = "testing" => cache[n].state = "testing"
    PROVE  DelayInv'
  <1>1. /\ D!Idle.name = "none" /\ D!Idle.at = "idle" /\ D!Idle.latest = FALSE
    BY DEF D!Idle
  <1>2. TeamsRest'
    <2>1. ASSUME NEW l \in D!Lists, list[l].at # "helping", NEW a \in D!Team(l)
          PROVE  call'[a].at = "idle"
      <3>1. call[a].at = "idle" /\ a \in D!Actors
        BY <2>1, DelayFacts DEF DelayInv, TeamsRest
      <3> QED BY <3>1 DEF GoesOn, Freed
    <2> QED BY <2>1 DEF TeamsRest
  <1>3. CallSteps'
    <2>1. ASSUME NEW b \in D!Actors, GoesOn(b)
          PROVE  /\ call'[b].at \in {"idle", "done"} <=> call'[b].name = "none"
                 /\ call'[b].latest => call'[b].at \in {"asked", "answered"}
      BY <2>1 DEF DelayInv, CallSteps, GoesOn
    <2>2. ASSUME NEW b \in D!Actors, Freed(b)
          PROVE  /\ call'[b].at \in {"idle", "done"} <=> call'[b].name = "none"
                 /\ call'[b].latest => call'[b].at \in {"asked", "answered"}
      BY <1>1, <2>2 DEF Freed
    <2> QED BY <2>1, <2>2, Zenon DEF CallSteps
  <1>4. HelpersLeave'
    <2>1. ASSUME NEW l \in D!Lists, NEW a \in D!Team(l),
                 list'[l].at = "helping", call'[a].at = "done"
          PROVE  list'[l].aborted \/ list'[l].index = Len(Checked)
      <3>1. call[a].at = "done"
        BY <1>1, <2>1, DelayFacts DEF GoesOn, Freed
      <3> QED BY <2>1, <3>1 DEF DelayInv, HelpersLeave
    <2> QED BY <2>1 DEF HelpersLeave
  <1>5. MarkCovered'
    <2> SUFFICES ASSUME NEW m \in D!Unmanaged, cache'[m].state = "testing"
                 PROVE  \/ \E b \in D!Actors : /\ call'[b].name = m
                                               /\ call'[b].latest \/ call'[b].at = "waiting"
                        \/ \E l \in D!Lists : /\ list'[l].at = "helping"
                                              /\ list'[l].aborted \/ m \in Left(l)'
      BY DEF MarkCovered
    <2>1. CASE \E l \in D!Lists : /\ list[l].at = "helping"
                                  /\ list[l].aborted \/ m \in Left(l)
      BY <2>1 DEF Left
    <2>2. ASSUME NEW b \in D!Actors, call[b].name = m,
                 call[b].latest \/ call[b].at = "waiting"
          PROVE  call'[b].name = m /\ (call'[b].latest \/ call'[b].at = "waiting")
      BY <2>2 DEF GoesOn, Freed
    <2> QED BY <2>1, <2>2 DEF DelayInv, MarkCovered
  <1> QED BY <1>2, <1>3, <1>4, <1>5 DEF DelayInv

LEMMA QuietSteps ==
    ASSUME DelayInv,
           \/ D!Flush \/ D!StartPage
           \/ \E n \in D!Names : D!Expire(n)
           \/ \E v \in Views, n \in D!Names : D!Mount(v, n)
           \/ \E v \in Views : D!Unmount(v)
           \/ \E l \in D!Lists : D!EndList(l)
           \/ \E l \in D!Lists, reached \in Reached : D!GroupAnswer(l, reached)
    PROVE  DelayInv'
  <1>1. D!TypeOK /\ D!LatestWins
    BY DEF DelayInv
  <1> USE DelayFacts
  <1>2. CASE D!Flush
    <2>1. D!TypeOK'
      BY <1>1, <1>2 DEF D!Flush, D!TypeOK
    <2> QED BY <1>1, <1>2, <2>1, OtherInv DEF D!Flush, D!LatestWins, GoesOn
  <1>3. CASE D!StartPage
    <2>1. list' = [list EXCEPT !["page"].at = "healthcheck"]
      BY <1>3 DEF D!StartPage
    <2>2. D!TypeOK'
      BY <1>1, <1>3 DEF D!StartPage, D!TypeOK, D!Lists, D!ListStates
    <2>3. \A l \in D!Lists : (list'[l].at = "helping" <=> list[l].at = "helping")
             /\ list'[l].index = list[l].index /\ list'[l].aborted = list[l].aborted
      BY <1>1, <1>3 DEF D!StartPage, D!TypeOK, D!Lists, D!ListStates
    <2> QED BY <1>1, <1>3, <2>2, <2>3, OtherInv DEF D!StartPage, D!LatestWins, GoesOn
  <1>4. ASSUME NEW n \in D!Names, D!Expire(n) PROVE DelayInv'
    <2>1. D!TypeOK' /\ D!LatestWins'
      BY <1>1, <1>4 DEF D!Expire, D!TypeOK, D!LatestWins, D!Unknown, D!Entry, D!Entries
    <2>2. \A m \in D!Names : cache'[m].state = "testing" => cache[m].state = "testing"
      BY <1>1, <1>4 DEF D!Expire, D!TypeOK, D!Unknown, D!Entry, D!Entries
    <2> QED BY <1>4, <2>1, <2>2, OtherInv DEF D!Expire, GoesOn
  <1>5. ASSUME NEW v \in Views, NEW n \in D!Names, D!Mount(v, n) PROVE DelayInv'
    <2>1. D!Read(n) \subseteq D!Entries \cup {D!Entry("history")}
      BY <1>1, ItemTypes DEF D!Read, D!Unknown
    <2>2. D!TypeOK'
      BY <1>1, <1>5, <2>1 DEF D!Mount, D!TypeOK
    <2> QED BY <1>1, <1>5, <2>2, OtherInv DEF D!Mount, D!LatestWins, GoesOn
  <1>6. ASSUME NEW v \in Views, D!Unmount(v) PROVE DelayInv'
    <2>1. ASSUME NEW a \in D!Actors
          PROVE  call'[a] \in D!Calls /\ GoesOn(a)
      <3>1. call[a] \in D!Calls
        BY <1>1, ItemTypes
      <3>2. call'[a] = IF call[a].view = v THEN [call[a] EXCEPT !.view = "gone"] ELSE call[a]
        BY <1>6 DEF D!Unmount
      <3> QED BY <3>1, <3>2 DEF D!Calls, GoesOn
    <2>2. call' \in [D!Actors -> D!Calls]
      BY <1>6, <2>1 DEF D!Unmount
    <2>3. D!Unknown \in D!Entries
      BY <1>1, ItemTypes DEF D!Unknown
    <2>4. D!TypeOK'
      BY <1>1, <1>6, <2>2, <2>3 DEF D!Unmount, D!TypeOK
    <2> QED BY <1>1, <1>6, <2>1, <2>4, OtherInv DEF D!Unmount, D!LatestWins
  <1>7. ASSUME NEW l \in D!Lists, D!EndList(l) PROVE DelayInv'
    <2>1. D!TypeOK'
      BY <1>1, <1>7 DEF D!EndList, D!TypeOK, D!NoList, D!ListStates
    <2>2. \A k \in D!Lists : /\ list'[k].at = "helping" <=> list[k].at = "helping"
                             /\ list[k].at = "helping" => list'[k] = list[k]
      BY <1>1, <1>7 DEF D!EndList, D!TypeOK, D!NoList, D!ListStates
    <2> QED BY <1>1, <1>7, <2>1, <2>2, OtherInv DEF D!EndList, D!LatestWins, GoesOn
  <1>8. ASSUME NEW l \in D!Lists, NEW reached \in Reached, D!GroupAnswer(l, reached)
        PROVE  DelayInv'
    <2> DEFINE new == [n \in reached |-> D!Entry("ok")]
    <2>1. DOMAIN new \subseteq D!Names /\ \A n \in DOMAIN new : new[n] = D!Entry("ok")
      BY DelayAssumption
    <2>2. D!SetDelays(new)
      BY <1>8 DEF D!GroupAnswer
    <2> HIDE DEF new
    <2>3. /\ cache' \in [D!Names -> D!Entries] /\ dPending' \subseteq D!Names
          /\ \A n \in D!Names : cache'[n] = IF n \in DOMAIN new THEN new[n] ELSE cache[n]
          /\ D!LatestWins'
      BY <1>1, <2>1, <2>2, ItemTypes, SetFacts
    <2>4. \A n \in D!Names : cache'[n].state = "testing" => cache[n].state = "testing"
      BY <1>1, <2>1, <2>3, ItemTypes
    <2>5. D!TypeOK'
      <3>1. list' \in [D!Lists -> D!ListStates]
        <4>1. ASSUME NEW k \in D!Lists PROVE list'[k] \in D!ListStates
          <5>1. list[k] \in D!ListStates
            BY <1>1 DEF D!TypeOK
          <5>2. list'[k] = IF k = l THEN [list[k] EXCEPT !.group = FALSE] ELSE list[k]
            BY <1>1, <1>8 DEF D!GroupAnswer, D!TypeOK
          <5>3. CASE k = l
            <6>1. list'[k] = [list[k] EXCEPT !.group = FALSE]
              BY <5>2, <5>3
            <6> QED BY <5>1, <6>1 DEF D!ListStates
          <5> QED BY <5>1, <5>2, <5>3
        <4> QED BY <1>1, <1>8, <4>1 DEF D!GroupAnswer, D!TypeOK
      <3> QED BY <1>1, <1>8, <2>3, <3>1 DEF D!GroupAnswer, D!TypeOK
    <2>6. \A k \in D!Lists : /\ list'[k].at = list[k].at /\ list'[k].index = list[k].index
                             /\ list'[k].aborted = list[k].aborted
      BY <1>1, <1>8 DEF D!GroupAnswer, D!TypeOK
    <2> QED BY <1>8, <2>3, <2>4, <2>5, <2>6, OtherInv DEF D!GroupAnswer, GoesOn
  <1> QED BY <1>2, <1>3, <1>4, <1>5, <1>6, <1>7, <1>8

\* What a check writes when it ends.
LEMMA WrittenFacts ==
    ASSUME NEW a
    PROVE  /\ D!Written(a) \in D!Entries /\ D!Written(a).state \in {"ok", "error"}
           /\ D!Written(a).late = ~call[a].latest
  BY DEF D!Written, D!Entries

\* The steps by which a check of an item ends.
LEMMA EndsInv ==
    ASSUME DelayInv,
           \/ \E a \in D!Actors, s \in {"ok", "error", "unavailable"} : D!Answer(a, s)
           \/ \E a \in Clickers : D!Finish(a)
    PROVE  DelayInv'
  <1>1. D!TypeOK /\ D!LatestWins
    BY DEF DelayInv
  <1>2. ASSUME NEW a \in D!Actors, NEW s \in {"ok", "error", "unavailable"}, D!Answer(a, s)
        PROVE  DelayInv'
    <2>1. ASSUME NEW b \in D!Actors PROVE call'[b] \in D!Calls /\ GoesOn(b)
      <3>1. call[b] \in D!Calls
        BY <1>1, ItemTypes
      <3>2. call'[b] = IF b = a THEN [call[a] EXCEPT !.at = "answered", !.answer = s]
                                ELSE call[b]
        BY <1>1, <1>2 DEF D!Answer, D!TypeOK
      <3>3. call[a].at = "asked"
        BY <1>2 DEF D!Answer
      <3>4. CASE b # a
        BY <3>1, <3>2, <3>4 DEF GoesOn
      <3>5. CASE b = a
        <4>1. call'[a] = [call[a] EXCEPT !.at = "answered", !.answer = s]
          BY <3>2, <3>5
        <4>2. call'[a] \in D!Calls
          BY <3>1, <3>5, <4>1 DEF D!Calls
        <4> QED BY <3>1, <3>3, <3>5, <4>1, <4>2 DEF D!Calls, GoesOn
      <3> QED BY <3>4, <3>5
    <2>2. call' \in [D!Actors -> D!Calls]
      BY <1>1, <1>2, <2>1 DEF D!Answer, D!TypeOK
    <2>3. D!TypeOK'
      BY <1>1, <1>2, <2>2 DEF D!Answer, D!TypeOK
    <2> QED BY <1>1, <1>2, <2>1, <2>3, OtherInv DEF D!Answer, D!LatestWins
  <1>3. ASSUME NEW a \in Clickers, D!Finish(a) PROVE DelayInv'
    <2>1. a \in D!Actors /\ call[a] \in D!Calls /\ call[a].at = "answered"
      BY <1>1, <1>3, DelayFacts, ItemTypes DEF D!Finish
    <2>2. call[a].name \in D!Names
      BY <2>1 DEF DelayInv, CallSteps, D!Calls
    <2>3. /\ cache' \in [D!Names -> D!Entries] /\ dPending' \subseteq D!Names /\ D!LatestWins'
          /\ \A n \in D!Names : cache'[n].state = "testing" => cache[n].state = "testing"
          /\ call[a].latest => cache'[call[a].name].state # "testing"
      <3>1. CASE call[a].latest
        <4> DEFINE new == [m \in {call[a].name} |-> D!Written(a)]
        <4>1. D!SetDelays(new)
          BY <1>3, <3>1 DEF D!Finish, D!WriteResult, D!IsLatest
        <4>2. /\ DOMAIN new = {call[a].name}
              /\ \A n \in DOMAIN new : /\ new[n] \in D!Entries /\ ~new[n].late
                                       /\ new[n].state # "testing"
          BY <3>1, WrittenFacts
        <4> HIDE DEF new
        <4>3. /\ cache' \in [D!Names -> D!Entries] /\ dPending' \subseteq D!Names
              /\ \A n \in D!Names : cache'[n] = IF n \in DOMAIN new THEN new[n] ELSE cache[n]
              /\ D!LatestWins'
          BY <1>1, <2>2, <4>1, <4>2, SetFacts
        <4> QED BY <2>2, <4>2, <4>3
      <3>2. CASE ~call[a].latest
        BY <1>1, <1>3, <3>2 DEF D!Finish, D!WriteResult, D!IsLatest, D!TypeOK, D!LatestWins
      <3> QED BY <3>1, <3>2
    <2>4. ASSUME NEW b \in D!Actors PROVE call'[b] \in D!Calls /\ (GoesOn(b) \/ Freed(b))
      <3>1. call[b] \in D!Calls /\ D!Idle \in D!Calls
        BY <1>1, ItemTypes DEF D!Idle, D!Calls
      <3>2. call'[b] = IF b = a THEN D!Idle ELSE call[b]
        BY <1>1, <1>3 DEF D!Finish, D!TypeOK
      <3> QED BY <2>1, <2>3, <3>1, <3>2 DEF GoesOn, Freed
    <2>5. call' \in [D!Actors -> D!Calls]
      BY <1>1, <1>3, <2>4 DEF D!Finish, D!TypeOK
    <2>6. \A l \in D!Lists : /\ list'[l] \in D!ListStates /\ list'[l].at = list[l].at
                             /\ list'[l].index = list[l].index
                             /\ list'[l].aborted = list[l].aborted
      <3>1. ASSUME NEW l \in D!Lists
            PROVE  list[l] \in D!ListStates /\ D!Lost(a, l) \in BOOLEAN
        BY <1>1 DEF D!TypeOK, D!ListStates, D!Lost
      <3>2. \A l \in D!Lists : list'[l] = [list[l] EXCEPT !.lost = D!Lost(a, l)]
        BY <1>3 DEF D!Finish
      <3> QED BY <3>1, <3>2 DEF D!ListStates
    <2>7. list' \in [D!Lists -> D!ListStates]
      BY <1>3, <2>6 DEF D!Finish
    <2>8. shown' \in [Views -> D!Entries \cup {D!Entry("history")}]
      <3>1. D!Returned(a) \in D!Entries
        BY <1>1, <2>2, ItemTypes, WrittenFacts DEF D!Returned
      <3> QED BY <1>1, <1>3, <3>1 DEF D!Finish, D!TypeOK
    <2>9. D!TypeOK'
      BY <1>1, <1>3, <2>3, <2>5, <2>7, <2>8 DEF D!Finish, D!TypeOK, D!ListStates
    <2> QED BY <2>3, <2>4, <2>6, <2>9, OtherInv, DelayFacts
  <1> QED BY <1>2, <1>3

\* A helper that ends its check leaves the list or takes the next node.
LEMMA HelperFinishesInv ==
    ASSUME DelayInv, NEW l \in D!Lists, NEW h \in 1 .. Helpers, D!HelperFinishes(l, h)
    PROVE  DelayInv'
  <1> DEFINE a == <<l, h>>
             i == list[l].index + 1
             own == IF D!IsLatest(a) THEN {call[a].name} ELSE {}
             gone == list[l].aborted \/ D!Lost(a, l)
             ends == gone \/ i > Len(Checked)
             state == IF ends THEN [D!Idle EXCEPT !.at = "done"]
                      ELSE [D!Idle EXCEPT !.at = "waiting", !.name = Checked[i]]
             new == IF ends THEN [m \in own |-> D!Written(a)]
                    ELSE [m \in own \cup {Checked[i]} |->
                             IF m = Checked[i] THEN D!Marked ELSE D!Written(a)]
  <1>1. D!TypeOK /\ D!LatestWins
    BY DEF DelayInv
  <1>2. /\ a \in D!Actors /\ a \in D!Team(l) /\ call[a] \in D!Calls
        /\ call[a].at = "answered" /\ call[a].name \in D!Names
    <2>1. a \in D!Actors /\ a \in D!Team(l) /\ call[a].at = "answered"
      BY DelayFacts DEF D!HelperFinishes
    <2> QED BY <1>1, <2>1, ItemTypes DEF DelayInv, CallSteps, D!Calls
  <1>3. /\ D!SetDelays(new) /\ UNCHANGED <<item, shown>>
        /\ call' = [call EXCEPT ![a] = state]
    BY DEF D!HelperFinishes
  <1>4. /\ list' \in [D!Lists -> D!ListStates]
        /\ \A k \in D!Lists : list'[k].at = list[k].at
        /\ \A k \in D!Lists \ {l} : /\ list'[k].index = list[k].index
                                    /\ list'[k].aborted = list[k].aborted
        /\ ends => list'[l].aborted = gone /\ list'[l].index = list[l].index
        /\ ~ends => list'[l].index = i /\ list'[l].aborted = list[l].aborted
    <2> DEFINE known == [k \in D!Lists |-> [list[k] EXCEPT !.lost = D!Lost(a, k)]]
    <2>1. ASSUME NEW k \in D!Lists
          PROVE  /\ known[k] \in D!ListStates /\ known[k].at = list[k].at
                 /\ known[k].index = list[k].index /\ known[k].aborted = list[k].aborted
      <3>1. list[k] \in D!ListStates /\ D!Lost(a, k) \in BOOLEAN
        BY <1>1 DEF D!TypeOK, D!ListStates, D!Lost
      <3> QED BY <3>1 DEF D!ListStates
    <2>2. known \in [D!Lists -> D!ListStates]
      BY <2>1
    <2>3. list[l].index \in 0 .. Len(Checked) /\ gone \in BOOLEAN
      BY <1>1 DEF D!TypeOK, D!ListStates, D!Lost
    <2>4. CASE ends
      <3>1. list' = [known EXCEPT ![l].aborted = gone]
        BY <2>4 DEF D!HelperFinishes
      <3> HIDE DEF known, gone
      <3> QED BY <2>1, <2>2, <2>3, <2>4, <3>1 DEF D!ListStates
    <2>5. CASE ~ends
      <3>1. list' = [known EXCEPT ![l].index = i]
        BY <2>5 DEF D!HelperFinishes
      <3>2. i \in 0 .. Len(Checked)
        BY <2>3, <2>5, DelayFacts
      <3> HIDE DEF known, gone, i
      <3> QED BY <2>1, <2>2, <2>3, <2>5, <3>1, <3>2 DEF D!ListStates
    <2> QED BY <2>4, <2>5
  <1>5. ~ends => Checked[i] \in D!Unmanaged /\ Checked[i] \in D!Names /\ Checked[i] # "none"
    BY <1>1, DelayFacts DEF D!TypeOK, D!ListStates
  <1>6. /\ state \in D!Calls /\ ~state.latest
        /\ ends => state.at = "done" /\ state.name = "none"
        /\ ~ends => state.at = "waiting" /\ state.name = Checked[i]
    BY <1>5 DEF D!Idle, D!Calls
  <1>7. /\ call' \in [D!Actors -> D!Calls] /\ call'[a] = state
        /\ \A b \in D!Actors \ {a} : call'[b] = call[b]
    <2> HIDE DEF state, a
    <2> QED BY <1>1, <1>2, <1>3, <1>6 DEF D!TypeOK
  <1>8. /\ DOMAIN new = IF ends THEN own ELSE own \cup {Checked[i]}
        /\ \A m \in DOMAIN new : new[m] = IF ~ends /\ m = Checked[i] THEN D!Marked
                                          ELSE D!Written(a)
    OBVIOUS
  <1>9. own \subseteq D!Names /\ (own # {} => call[a].latest)
    BY <1>2 DEF D!IsLatest
  <1>10. /\ cache' \in [D!Names -> D!Entries] /\ dPending' \subseteq D!Names
         /\ \A m \in D!Names : cache'[m] = IF m \in DOMAIN new THEN new[m] ELSE cache[m]
         /\ D!LatestWins'
    <2>1. \A m \in DOMAIN new : new[m] \in D!Entries /\ ~new[m].late
      BY <1>1, <1>8, <1>9, WrittenFacts, ItemTypes DEF D!Marked
    <2>2. DOMAIN new \subseteq D!Names
      BY <1>5, <1>8, <1>9
    <2> HIDE DEF new
    <2> QED BY <1>1, <1>3, <2>1, <2>2, SetFacts
  <1>11. D!TypeOK'
    BY <1>1, <1>3, <1>4, <1>7, <1>10 DEF D!TypeOK
  <1>12. list[l].at = "helping"
    BY <1>2 DEF DelayInv, TeamsRest
  <1> HIDE DEF a, state, new, gone
  <1>13. TeamsRest'
    <2>1. \A k \in D!Lists \ {l} : a \notin D!Team(k)
      BY <1>2, DelayFacts
    <2> QED BY <1>4, <1>7, <1>12, <2>1, DelayFacts DEF DelayInv, TeamsRest
  <1>14. CallSteps'
    <2>1. /\ call'[a].at \in {"idle", "done"} <=> call'[a].name = "none"
          /\ ~call'[a].latest
      BY <1>5, <1>6, <1>7
    <2> QED BY <1>7, <2>1 DEF DelayInv, CallSteps
  <1>15. HelpersLeave'
    <2>1. list[l].index \in 0 .. Len(Checked) /\ Len(Checked) \in Nat
      BY <1>1, DelayFacts DEF D!TypeOK, D!ListStates
    <2>2. ends => list'[l].aborted \/ list'[l].index = Len(Checked)
      BY <1>4, <2>1
    <2>3. ASSUME NEW k \in D!Lists, NEW b \in D!Team(k),
                 list'[k].at = "helping", call'[b].at = "done"
          PROVE  list'[k].aborted \/ list'[k].index = Len(Checked)
      <3>1. CASE k # l
        <4>1. b # a /\ b \in D!Actors
          BY <1>2, <3>1, DelayFacts
        <4> QED BY <1>4, <1>7, <2>3, <3>1, <4>1 DEF DelayInv, HelpersLeave
      <3>2. CASE k = l /\ b = a
        BY <1>6, <1>7, <2>2, <2>3, <3>2
      <3>3. CASE k = l /\ b # a
        <4>1. list[l].aborted \/ list[l].index = Len(Checked)
          BY <1>4, <1>7, <2>3, <3>3, DelayFacts DEF DelayInv, HelpersLeave
        <4>2. ends
          BY <2>1, <4>1 DEF gone
        <4> QED BY <2>2, <3>3, <4>2
      <3> QED BY <3>1, <3>2, <3>3
    <2> QED BY <2>3 DEF HelpersLeave
  <1>16. MarkCovered'
    <2> SUFFICES ASSUME NEW m \in D!Unmanaged, cache'[m].state = "testing"
                 PROVE  \/ \E b \in D!Actors : /\ call'[b].name = m
                                               /\ call'[b].latest \/ call'[b].at = "waiting"
                        \/ \E k \in D!Lists : /\ list'[k].at = "helping"
                                              /\ list'[k].aborted \/ m \in Left(k)'
      BY DEF MarkCovered
    <2>1. CASE ~ends /\ m = Checked[i]
      BY <1>2, <1>6, <1>7, <2>1
    <2>2. CASE ~(~ends /\ m = Checked[i])
      <3>1. m \notin own /\ cache[m].state = "testing"
        BY <1>8, <1>10, <2>2, WrittenFacts, DelayFacts
      <3>2. ASSUME NEW b \in D!Actors, call[b].name = m,
                   call[b].latest \/ call[b].at = "waiting"
            PROVE  call'[b].name = m /\ (call'[b].latest \/ call'[b].at = "waiting")
        <4>1. b # a
          BY <1>2, <3>1, <3>2 DEF D!IsLatest
        <4> QED BY <1>7, <3>2, <4>1
      <3>3. ASSUME NEW k \in D!Lists, list[k].at = "helping",
                   list[k].aborted \/ m \in Left(k)
            PROVE  list'[k].at = "helping" /\ (list'[k].aborted \/ m \in Left(k)')
        <4>1. CASE k # l
          BY <1>4, <3>3, <4>1 DEF Left
        <4>2. CASE k = l /\ ends
          BY <1>1, <1>4, <3>3, <4>2, DelayFacts DEF gone, Left, D!TypeOK, D!ListStates
        <4>3. CASE k = l /\ ~ends
          <5>1. PICK j \in list[l].index + 1 .. Len(Checked) : Checked[j] = m
            BY <3>3, <4>3 DEF gone, Left
          <5>2. j \in list'[l].index + 1 .. Len(Checked)
            BY <1>1, <1>4, <2>2, <4>3, <5>1, DelayFacts DEF D!TypeOK, D!ListStates
          <5> QED BY <1>4, <3>3, <4>3, <5>1, <5>2 DEF Left
        <4> QED BY <4>1, <4>2, <4>3
      <3> QED BY <3>1, <3>2, <3>3 DEF DelayInv, MarkCovered
    <2> QED BY <2>1, <2>2
  <1> QED BY <1>10, <1>11, <1>13, <1>14, <1>15, <1>16 DEF DelayInv

\* The helpers are done: the marks that an aborted list leaves are given up.
LEMMA HelpersDoneInv ==
    ASSUME DelayInv, NEW l \in D!Lists, D!HelpersDone(l)
    PROVE  DelayInv'
  <1> DEFINE left == {n \in D!Unmanaged : cache[n].state = "testing"}
             new == [n \in left |-> D!Entry("error")]
  <1>1. D!TypeOK /\ D!LatestWins
    BY DEF DelayInv
  <1>2. /\ D!Idle.name = "none" /\ D!Idle.at = "idle" /\ D!Idle.latest = FALSE
        /\ D!Idle \in D!Calls
    BY DEF D!Idle, D!Calls
  <1>3. /\ list[l].at = "helping" /\ \A a \in D!Team(l) : call[a].at = "done"
        /\ call' = [a \in D!Actors |-> IF a \in D!Team(l) THEN D!Idle ELSE call[a]]
        /\ list' = [list EXCEPT ![l].at = "ended"] /\ UNCHANGED <<item, shown>>
    BY DEF D!HelpersDone
  <1>4. /\ cache' \in [D!Names -> D!Entries] /\ dPending' \subseteq D!Names /\ D!LatestWins'
        /\ \A n \in D!Unmanaged : cache'[n].state = "testing" => cache[n].state = "testing"
        /\ list[l].aborted => \A n \in D!Unmanaged : cache'[n].state # "testing"
    <2>1. CASE list[l].aborted
      <3>1. D!SetDelays(new)
        BY <2>1 DEF D!HelpersDone
      <3>2. DOMAIN new = left /\ \A n \in DOMAIN new : new[n] = D!Entry("error")
        OBVIOUS
      <3> HIDE DEF new
      <3>3. /\ cache' \in [D!Names -> D!Entries] /\ dPending' \subseteq D!Names
            /\ \A n \in D!Names : cache'[n] = IF n \in DOMAIN new THEN new[n] ELSE cache[n]
            /\ D!LatestWins'
        BY <1>1, <3>1, <3>2, SetFacts, ItemTypes, DelayFacts
      <3> QED BY <1>1, <3>2, <3>3, ItemTypes, DelayFacts
    <2>2. CASE ~list[l].aborted
      BY <1>1, <2>2 DEF D!HelpersDone, D!TypeOK, D!LatestWins
    <2> QED BY <2>1, <2>2
  <1>5. /\ list' \in [D!Lists -> D!ListStates] /\ list'[l].at = "ended"
        /\ \A k \in D!Lists \ {l} : list'[k] = list[k]
    <2>1. list \in [D!Lists -> D!ListStates]
      BY <1>1 DEF D!TypeOK
    <2>2. [list[l] EXCEPT !.at = "ended"] \in D!ListStates
      BY <2>1 DEF D!ListStates
    <2> QED BY <1>3, <2>1, <2>2 DEF D!ListStates
  <1>6. call' \in [D!Actors -> D!Calls]
    BY <1>1, <1>2, <1>3, ItemTypes
  <1>7. D!TypeOK'
    BY <1>1, <1>3, <1>4, <1>5, <1>6 DEF D!TypeOK
  <1>8. TeamsRest'
    BY <1>2, <1>3, <1>5, DelayFacts DEF DelayInv, TeamsRest
  <1>9. CallSteps'
    <2>1. ASSUME NEW b \in D!Actors
          PROVE  /\ call'[b].at \in {"idle", "done"} <=> call'[b].name = "none"
                 /\ call'[b].latest => call'[b].at \in {"asked", "answered"}
      <3>1. CASE b \in D!Team(l)
        BY <1>2, <1>3, <3>1
      <3>2. CASE b \notin D!Team(l)
        BY <1>3, <3>2 DEF DelayInv, CallSteps
      <3> QED BY <3>1, <3>2
    <2> QED BY <2>1 DEF CallSteps
  <1>10. HelpersLeave'
    BY <1>3, <1>5, DelayFacts DEF DelayInv, HelpersLeave
  <1>11. MarkCovered'
    <2> SUFFICES ASSUME NEW m \in D!Unmanaged, cache'[m].state = "testing"
                 PROVE  \/ \E b \in D!Actors : /\ call'[b].name = m
                                               /\ call'[b].latest \/ call'[b].at = "waiting"
                        \/ \E k \in D!Lists : /\ list'[k].at = "helping"
                                              /\ list'[k].aborted \/ m \in Left(k)'
      BY DEF MarkCovered
    <2>1. ~list[l].aborted /\ cache[m].state = "testing"
      BY <1>4
    <2>2. m \notin Left(l)
      <3>1. <<l, 1>> \in D!Team(l)
        BY DelayAssumption, DelayFacts
      <3>2. list[l].index = Len(Checked)
        BY <1>3, <2>1, <3>1 DEF DelayInv, HelpersLeave
      <3> QED BY <3>2, DelayFacts DEF Left
    <2>3. ASSUME NEW b \in D!Actors, call[b].name = m,
                 call[b].latest \/ call[b].at = "waiting"
          PROVE  call'[b].name = m /\ (call'[b].latest \/ call'[b].at = "waiting")
      <3>1. b \notin D!Team(l)
        BY <1>3, <2>3, DelayFacts DEF DelayInv, CallSteps
      <3> QED BY <1>3, <2>3, <3>1
    <2>4. ASSUME NEW k \in D!Lists, list[k].at = "helping",
                 list[k].aborted \/ m \in Left(k)
          PROVE  list'[k].at = "helping" /\ (list'[k].aborted \/ m \in Left(k)')
      BY <1>5, <2>1, <2>2, <2>4 DEF Left
    <2> QED BY <2>1, <2>3, <2>4 DEF DelayInv, MarkCovered
  <1> QED BY <1>4, <1>7, <1>8, <1>9, <1>10, <1>11 DEF DelayInv

\* A list marks its nodes: the helpers have the first of them, and come to the
\* others.
LEMMA BeginHelpingInv ==
    ASSUME DelayInv, NEW l \in D!Lists, list[l].at # "helping",
           NEW marked, marked \subseteq D!Names, D!BeginHelping(l, marked)
    PROVE  DelayInv'
  <1> DEFINE first == Checked[1]
             lead == <<l, 1>>
             asked == D!Ask(lead, first, "gone")
             new == [n \in marked |-> D!Marked]
             state(h) == [D!Idle EXCEPT !.at = "waiting", !.name = Checked[h]]
  <1>1. D!TypeOK /\ D!LatestWins /\ CallSteps
    BY DEF DelayInv
  <1>2. /\ lead \in D!Team(l) /\ lead \in D!Actors
        /\ first \in D!Names /\ first # "none" /\ 1 \in 1 .. Helpers
        /\ Helpers \in 1 .. Len(Checked)
    BY DelayFacts, DelayAssumption
  <1>3. /\ D!SetDelays(new) /\ UNCHANGED <<item, shown>>
        /\ call' = [a \in D!Actors |->
                       IF a \in D!Team(l) \ {lead} THEN state(a[2]) ELSE asked[a]]
        /\ list' = [list EXCEPT ![l] = [at |-> "helping", index |-> Helpers,
                                        aborted |-> FALSE, lost |-> FALSE,
                                        group |-> TRUE]]
    BY DEF D!BeginHelping
  <1>4. /\ asked \in [D!Actors -> D!Calls]
        /\ asked[lead].name = first /\ asked[lead].latest /\ asked[lead].at = "asked"
        /\ \A b \in D!Actors \ {lead} :
              /\ asked[b].at = call[b].at /\ asked[b].name = call[b].name
              /\ asked[b].latest = (call[b].latest /\ call[b].name # first)
    <2> HIDE DEF lead, first
    <2> QED BY <1>1, <1>2, AskFacts
  <1>5. ASSUME NEW h \in 1 .. Helpers
        PROVE  /\ state(h) \in D!Calls /\ state(h).at = "waiting"
               /\ state(h).name = Checked[h] /\ ~state(h).latest
               /\ Checked[h] \in D!Unmanaged /\ Checked[h] # "none"
    <2>1. Checked[h] \in D!Unmanaged /\ Checked[h] \in D!Names /\ Checked[h] # "none"
      BY DelayFacts
    <2> QED BY <2>1 DEF D!Idle, D!Calls
  <1>6. ASSUME NEW b \in D!Team(l) \ {lead}
        PROVE  \E h \in 1 .. Helpers : call'[b] = state(h)
    <2> HIDE DEF state, asked, lead
    <2>1. PICK h \in 1 .. Helpers : b = <<l, h>>
      BY DEF D!Team
    <2>2. b \in D!Actors /\ b[2] = h
      BY <2>1, DelayFacts
    <2> QED BY <1>3, <2>1, <2>2
  <1>7. ASSUME NEW h \in 1 .. Helpers
        PROVE  /\ <<l, h>> \in D!Actors /\ call'[<<l, h>>].name = Checked[h]
               /\ call'[<<l, h>>].latest \/ call'[<<l, h>>].at = "waiting"
    <2>1. CASE h = 1
      BY <1>2, <1>3, <1>4, <2>1
    <2>2. CASE h # 1
      <3>1. <<l, h>> \in D!Team(l) \ {lead} /\ <<l, h>>[2] = h
        BY <2>2, DelayFacts
      <3> QED BY <1>3, <1>5, <3>1, DelayFacts
    <2> QED BY <2>1, <2>2
  <1> HIDE DEF asked, lead, first, new, state
  <1>8. \A b \in D!Actors \ D!Team(l) : call'[b] = asked[b]
    BY <1>3
  <1>9. call' \in [D!Actors -> D!Calls]
    <2>1. ASSUME NEW b \in D!Actors PROVE call'[b] \in D!Calls
      BY <1>3, <1>4, <1>5, <1>6
    <2> QED BY <1>3, <2>1
  <1>10. DOMAIN new = marked /\ \A n \in DOMAIN new : new[n] = D!Marked
    BY DEF new
  <1>11. /\ cache' \in [D!Names -> D!Entries] /\ dPending' \subseteq D!Names
         /\ \A n \in D!Names : cache'[n] = IF n \in DOMAIN new THEN new[n] ELSE cache[n]
         /\ D!LatestWins'
    BY <1>1, <1>3, <1>10, SetFacts, ItemTypes DEF D!Marked
  <1>12. /\ list' \in [D!Lists -> D!ListStates]
         /\ list'[l].at = "helping" /\ list'[l].index = Helpers
         /\ \A k \in D!Lists \ {l} : list'[k] = list[k]
    <2>1. list \in [D!Lists -> D!ListStates]
      BY <1>1 DEF D!TypeOK
    <2>2. [at |-> "helping", index |-> Helpers, aborted |-> FALSE, lost |-> FALSE,
           group |-> TRUE] \in D!ListStates
      BY <1>2, DelayFacts DEF D!ListStates
    <2> QED BY <1>3, <2>1, <2>2
  <1>13. D!TypeOK'
    BY <1>1, <1>3, <1>9, <1>11, <1>12 DEF D!TypeOK
  <1>14. TeamsRest'
    <2>1. ASSUME NEW k \in D!Lists, list'[k].at # "helping", NEW b \in D!Team(k)
          PROVE  call'[b].at = "idle"
      <3>1. k # l /\ b \in D!Actors \ D!Team(l) /\ b # lead
        BY <1>2, <1>12, <2>1, DelayFacts
      <3>2. call[b].at = "idle"
        BY <1>12, <2>1, <3>1 DEF DelayInv, TeamsRest
      <3> QED BY <1>4, <1>8, <3>1, <3>2
    <2> QED BY <2>1 DEF TeamsRest
  <1>15. CallSteps'
    <2>1. ASSUME NEW b \in D!Actors
          PROVE  /\ call'[b].at \in {"idle", "done"} <=> call'[b].name = "none"
                 /\ call'[b].latest => call'[b].at \in {"asked", "answered"}
      <3>1. CASE b \in D!Team(l) \ {lead}
        BY <1>5, <1>6, <3>1
      <3>2. CASE b = lead
        BY <1>2, <1>3, <1>4, <3>2
      <3>3. CASE b \notin D!Team(l)
        BY <1>1, <1>2, <1>4, <1>8, <3>3 DEF CallSteps
      <3> QED BY <3>1, <3>2, <3>3
    <2> QED BY <2>1 DEF CallSteps
  <1>16. HelpersLeave'
    <2>1. ASSUME NEW k \in D!Lists, NEW b \in D!Team(k),
                 list'[k].at = "helping", call'[b].at = "done"
          PROVE  list'[k].aborted \/ list'[k].index = Len(Checked)
      <3>1. b \notin D!Team(l)
        <4>1. CASE b = lead
          BY <1>2, <1>3, <1>4, <2>1, <4>1
        <4>2. CASE b \in D!Team(l) \ {lead}
          BY <1>5, <1>6, <2>1, <4>2
        <4> QED BY <4>1, <4>2
      <3>2. k # l /\ b \in D!Actors /\ b # lead
        BY <1>2, <2>1, <3>1, DelayFacts
      <3> QED BY <1>4, <1>8, <1>12, <2>1, <3>1, <3>2 DEF DelayInv, HelpersLeave
    <2> QED BY <2>1 DEF HelpersLeave
  <1>17. MarkCovered'
    <2> SUFFICES ASSUME NEW m \in D!Unmanaged, cache'[m].state = "testing"
                 PROVE  \/ \E b \in D!Actors : /\ call'[b].name = m
                                               /\ call'[b].latest \/ call'[b].at = "waiting"
                        \/ \E k \in D!Lists : /\ list'[k].at = "helping"
                                              /\ list'[k].aborted \/ m \in Left(k)'
      BY DEF MarkCovered
    <2>1. PICK j \in 1 .. Len(Checked) : Checked[j] = m
      BY DEF D!Unmanaged
    <2>2. CASE j \in 1 .. Helpers
      BY <1>7, <2>1, <2>2
    <2>3. CASE j \notin 1 .. Helpers
      <3>1. j \in list'[l].index + 1 .. Len(Checked)
        BY <1>2, <1>12, <2>3, DelayFacts
      <3> QED BY <1>12, <2>1, <3>1 DEF Left
    <2> QED BY <2>2, <2>3
  <1> QED BY <1>11, <1>13, <1>14, <1>15, <1>16, <1>17 DEF DelayInv

LEMMA DelayInit == D!Init => DelayInv
  <1> SUFFICES ASSUME D!Init PROVE DelayInv
    OBVIOUS
  <1>1. /\ D!Unknown \in D!Entries /\ ~D!Unknown.late /\ D!Unknown.state # "testing"
        /\ D!Idle \in D!Calls /\ D!Idle.at = "idle" /\ D!Idle.name = "none"
        /\ ~D!Idle.latest
        /\ D!NoList \in D!ListStates /\ D!NoList.at = "idle"
    BY DelayFacts DEF D!Unknown, D!Entry, D!Entries, D!Idle, D!Calls, D!NoList, D!ListStates
  <1>2. D!TypeOK
    BY <1>1 DEF D!Init, D!TypeOK
  <1> QED BY <1>1, <1>2, DelayFacts DEF D!Init, DelayInv, TeamsRest, CallSteps,
          HelpersLeave, MarkCovered, D!LatestWins

LEMMA DelayStep == DelayInv /\ D!Next => DelayInv'
  <1> SUFFICES ASSUME DelayInv, D!Next PROVE DelayInv'
    OBVIOUS
  <1>1. ASSUME NEW l \in D!Lists, NEW h \in 1 .. Helpers, D!HelperFinishes(l, h)
        PROVE  DelayInv'
    BY <1>1, HelperFinishesInv
  <1>2. ASSUME NEW l \in D!Lists, D!HelpersDone(l) PROVE DelayInv'
    BY <1>2, HelpersDoneInv
  <1>3. CASE D!PageHelps
    BY <1>3, BeginHelpingInv, DelayFacts DEF D!PageHelps, D!Lists
  <1>4. CASE D!StartCard
    <2>1. list["card"].at # "helping"
      BY <1>4 DEF D!StartCard, D!CardBusy
    <2> QED BY <1>4, <2>1, BeginHelpingInv DEF D!StartCard, D!Lists
  <1> QED BY <1>1, <1>2, <1>3, <1>4, QuietSteps, BeginsInv, EndsInv DEF D!Next, D!Work

LEMMA DelayKept == DelayInv /\ UNCHANGED Dvars => DelayInv'
  <1> SUFFICES ASSUME DelayInv, UNCHANGED Dvars PROVE DelayInv'
    OBVIOUS
  <1>1. UNCHANGED <<cache, dPending, item, shown, call, list>>
    BY DEF Dvars
  <1>2. D!TypeOK' /\ D!LatestWins'
    BY <1>1 DEF DelayInv, D!TypeOK, D!LatestWins
  <1>3. TeamsRest' /\ CallSteps' /\ HelpersLeave' /\ MarkCovered'
    BY <1>1 DEF DelayInv, TeamsRest, CallSteps, HelpersLeave, MarkCovered, Left
  <1> QED BY <1>2, <1>3 DEF DelayInv

LEMMA DelayNoMark == DelayInv => D!NoMarkLeft
  <1> SUFFICES ASSUME DelayInv, D!Quiet, \A a \in D!Actors : call[a] = D!Idle,
                      NEW n \in D!Unmanaged, cache[n].state = "testing"
               PROVE  FALSE
    BY DEF D!NoMarkLeft
  <1>1. \A a \in D!Actors : call[a].name = "none"
    BY DEF D!Idle
  <1>2. \A l \in D!Lists : list[l].at # "helping"
    BY DEF D!Quiet
  <1> QED BY <1>1, <1>2, DelayFacts DEF DelayInv, MarkCovered

\* In a behaviour of the latency tests the invariant holds all the time.
LEMMA DelayHolds == PageSpec => [](part = "delay" => DelayInv)
  <1>1. Start => (part = "delay" => DelayInv)
    BY DelayInit DEF Start
  <1>2. (part = "delay" => DelayInv) /\ [Step]_all => (part = "delay" => DelayInv)'
    <2> SUFFICES ASSUME part' = "delay", part = "delay" => DelayInv, [Step]_all
                 PROVE  DelayInv'
      OBVIOUS
    <2>1. part = "delay" /\ DelayInv
      BY DEF Step, all
    <2>2. D!Next \/ UNCHANGED Dvars
      BY <2>1 DEF Step, all
    <2> QED BY <2>1, <2>2, DelayStep, DelayKept
  <1> QED BY <1>1, <1>2, PTL DEF PageSpec

\* An answer that comes late never replaces the mark or the result of a later
\* check of its node.
THEOREM LatestWinsHolds == PageSpec => []LatestWins
  <1>1. (part = "delay" => DelayInv) => LatestWins
    BY DEF LatestWins, DelayInv
  <1> QED BY <1>1, DelayHolds, PTL

\* When nothing tests any more no node that was marked waits for a result,
\* however checks of items, of the page and of the card overlapped, and also
\* when a list was cut short.
THEOREM NoMarkLeftHolds == PageSpec => []NoMarkLeft
  <1>1. (part = "delay" => DelayInv) => NoMarkLeft
    BY DelayNoMark DEF NoMarkLeft
  <1> QED BY <1>1, DelayHolds, PTL

-----------------------------------------------------------------------------
(* The chain of proxies.  Whatever the page edits, the runtime             *)
(* configuration holds the dialers of one chain without repetition, or     *)
(* those that the profile brought.                                         *)

\* A sequence of nodes, each of which occurs once.
Simple(c) ==
    /\ c \in Seq(ChainNodes)
    /\ \A i, j \in 1 .. Len(c) : c[i] = c[j] => i = j

\* What is left after an element is taken out of a sequence.
LEMMA RemoveFacts ==
    ASSUME NEW S, NEW s \in Seq(S), NEW i \in 1 .. Len(s)
    PROVE  /\ C!RemoveAt(s, i) \in Seq(S) /\ Len(C!RemoveAt(s, i)) = Len(s) - 1
           /\ \A k \in 1 .. Len(s) - 1 :
                 C!RemoveAt(s, i)[k] = s[IF k < i THEN k ELSE k + 1]
  <1> DEFINE u == SubSeq(s, 1, i - 1)
             v == SubSeq(s, i + 1, Len(s))
  <1>1. Len(s) \in Nat /\ \A k \in 1 .. Len(s) : s[k] \in S
    OBVIOUS
  <1>2. u \in Seq(S) /\ Len(u) = i - 1 /\ \A k \in 1 .. i - 1 : u[k] = s[k]
    BY <1>1, SubSeqProperties
  <1>3. /\ v \in Seq(S) /\ Len(v) = Len(s) - i
        /\ \A k \in 1 .. Len(s) - i : v[k] = s[i + k]
    BY <1>1, SubSeqProperties
  <1>4. C!RemoveAt(s, i) = u \o v
    BY DEF C!RemoveAt
  <1> HIDE DEF u, v
  <1>5. /\ u \o v \in Seq(S) /\ Len(u \o v) = Len(u) + Len(v)
        /\ \A k \in 1 .. Len(u) + Len(v) :
              (u \o v)[k] = IF k <= Len(u) THEN u[k] ELSE v[k - Len(u)]
    BY <1>2, <1>3, ConcatProperties
  <1>6. Len(u) + Len(v) = Len(s) - 1
    BY <1>1, <1>2, <1>3
  <1>7. ASSUME NEW k \in 1 .. Len(s) - 1
        PROVE  (u \o v)[k] = s[IF k < i THEN k ELSE k + 1]
    <2>1. CASE k < i
      BY <1>1, <1>2, <1>5, <1>6, <2>1
    <2>2. CASE ~(k < i)
      <3>1. (u \o v)[k] = v[k - (i - 1)] /\ k - (i - 1) \in 1 .. Len(s) - i
        BY <1>1, <1>2, <1>5, <1>6, <2>2
      <3>2. i + (k - (i - 1)) = k + 1
        BY <1>1
      <3> QED BY <1>3, <2>2, <3>1, <3>2
    <2> QED BY <2>1, <2>2
  <1> QED BY <1>4, <1>5, <1>6, <1>7

\* An element is put into a sequence.
LEMMA InsertFacts ==
    ASSUME NEW S, NEW s \in Seq(S), NEW i \in 1 .. Len(s) + 1, NEW e \in S
    PROVE  /\ C!InsertAt(s, i, e) \in Seq(S) /\ Len(C!InsertAt(s, i, e)) = Len(s) + 1
           /\ \A k \in 1 .. Len(s) + 1 :
                 C!InsertAt(s, i, e)[k] = IF k < i THEN s[k] ELSE IF k = i THEN e ELSE s[k - 1]
  <1> DEFINE u == SubSeq(s, 1, i - 1)
             v == SubSeq(s, i, Len(s))
             w == u \o <<e>>
  <1>1. Len(s) \in Nat /\ \A k \in 1 .. Len(s) : s[k] \in S
    OBVIOUS
  <1>2. u \in Seq(S) /\ Len(u) = i - 1 /\ \A k \in 1 .. i - 1 : u[k] = s[k]
    BY <1>1, SubSeqProperties
  <1>3. /\ v \in Seq(S) /\ Len(v) = Len(s) - i + 1
        /\ \A k \in 1 .. Len(s) - i + 1 : v[k] = s[i + k - 1]
    BY <1>1, SubSeqProperties
  <1>4. <<e>> \in Seq(S) /\ Len(<<e>>) = 1 /\ <<e>>[1] = e
    OBVIOUS
  <1>5. C!InsertAt(s, i, e) = w \o v
    BY DEF C!InsertAt
  <1> HIDE DEF u, v
  <1>6. /\ w \in Seq(S) /\ Len(w) = i
        /\ \A k \in 1 .. i : w[k] = IF k < i THEN s[k] ELSE e
    BY <1>1, <1>2, <1>4, ConcatProperties
  <1> HIDE DEF w
  <1>7. /\ w \o v \in Seq(S) /\ Len(w \o v) = Len(w) + Len(v)
        /\ \A k \in 1 .. Len(w) + Len(v) :
              (w \o v)[k] = IF k <= Len(w) THEN w[k] ELSE v[k - Len(w)]
    BY <1>3, <1>6, ConcatProperties
  <1>8. Len(w) + Len(v) = Len(s) + 1
    BY <1>1, <1>3, <1>6
  <1>9. ASSUME NEW k \in 1 .. Len(s) + 1
        PROVE  (w \o v)[k] = IF k < i THEN s[k] ELSE IF k = i THEN e ELSE s[k - 1]
    <2>1. CASE k <= i
      BY <1>1, <1>6, <1>7, <1>8, <2>1
    <2>2. CASE ~(k <= i)
      <3>1. (w \o v)[k] = v[k - i] /\ k - i \in 1 .. Len(s) - i + 1
        BY <1>1, <1>6, <1>7, <1>8, <2>2
      <3>2. i + (k - i) - 1 = k - 1
        BY <1>1
      <3> QED BY <1>3, <2>2, <3>1, <3>2
    <2> QED BY <2>1, <2>2
  <1> QED BY <1>5, <1>7, <1>8, <1>9

\* The three edits of the page keep every node from occurring twice.
LEMMA RemovedSimple ==
    ASSUME NEW c, Simple(c), NEW i \in 1 .. Len(c)
    PROVE  /\ Simple(C!RemoveAt(c, i))
           /\ \A k \in 1 .. Len(C!RemoveAt(c, i)) : C!RemoveAt(c, i)[k] # c[i]
  <1> DEFINE r == C!RemoveAt(c, i)
  <1>1. /\ r \in Seq(ChainNodes) /\ Len(r) = Len(c) - 1 /\ Len(c) \in Nat
        /\ \A k \in 1 .. Len(c) - 1 : r[k] = c[IF k < i THEN k ELSE k + 1]
    <2>1. c \in Seq(ChainNodes)
      BY DEF Simple
    <2> HIDE DEF r
    <2>2. r = C!RemoveAt(c, i)
      BY Zenon DEF r
    <2> QED BY <2>1, <2>2, RemoveFacts
  <1> HIDE DEF r
  <1>2. \A k \in 1 .. Len(c) - 1 : r[k] # c[i]
    BY <1>1 DEF Simple
  <1>3. \A k, l \in 1 .. Len(c) - 1 : r[k] = r[l] => k = l
    BY <1>1 DEF Simple
  <1>4. Simple(r)
    BY <1>1, <1>3 DEF Simple
  <1> QED BY <1>1, <1>2, <1>4 DEF r

LEMMA MovedSimple ==
    ASSUME NEW c, Simple(c), NEW i \in 1 .. Len(c), NEW j \in 1 .. Len(c)
    PROVE  Simple(C!InsertAt(C!RemoveAt(c, i), j, c[i]))
  <1> DEFINE r == C!RemoveAt(c, i)
             m == C!InsertAt(r, j, c[i])
  <1>1. /\ Simple(r) /\ Len(r) = Len(c) - 1 /\ Len(c) \in Nat /\ c[i] \in ChainNodes
        /\ \A k \in 1 .. Len(r) : r[k] # c[i]
    <2>1. c \in Seq(ChainNodes) /\ Len(c) \in Nat /\ c[i] \in ChainNodes
      BY DEF Simple
    <2>2. Simple(r) /\ \A k \in 1 .. Len(r) : r[k] # c[i]
      BY RemovedSimple
    <2>3. Len(r) = Len(c) - 1
      BY <2>1, RemoveFacts
    <2> QED BY <2>1, <2>2, <2>3
  <1> HIDE DEF r
  <1>2. /\ m \in Seq(ChainNodes) /\ Len(m) = Len(c)
        /\ \A k \in 1 .. Len(c) :
              m[k] = IF k < j THEN r[k] ELSE IF k = j THEN c[i] ELSE r[k - 1]
    <2>1. r \in Seq(ChainNodes) /\ j \in 1 .. Len(r) + 1 /\ Len(r) + 1 = Len(c)
      BY <1>1 DEF Simple
    <2>2. ASSUME NEW e \in ChainNodes
          PROVE  /\ C!InsertAt(r, j, e) \in Seq(ChainNodes)
                 /\ Len(C!InsertAt(r, j, e)) = Len(r) + 1
                 /\ \A k \in 1 .. Len(r) + 1 :
                       C!InsertAt(r, j, e)[k] = IF k < j THEN r[k]
                                                ELSE IF k = j THEN e ELSE r[k - 1]
      BY <2>1, InsertFacts
    <2>3. /\ m \in Seq(ChainNodes) /\ Len(m) = Len(r) + 1
          /\ \A k \in 1 .. Len(r) + 1 :
                m[k] = IF k < j THEN r[k] ELSE IF k = j THEN c[i] ELSE r[k - 1]
      BY <1>1, <2>2
    <2> HIDE DEF m
    <2> QED BY <2>1, <2>3
  <1> HIDE DEF m
  <1>3. ASSUME NEW k \in 1 .. Len(c), NEW l \in 1 .. Len(c), m[k] = m[l] PROVE k = l
    <2>1. /\ Len(r) = Len(c) - 1 /\ Len(c) \in Nat /\ \A p \in 1 .. Len(r) : r[p] # c[i]
          /\ \A p, q \in 1 .. Len(r) : r[p] = r[q] => p = q
      BY <1>1 DEF Simple
    <2>2. CASE k = j \/ l = j
      BY <1>2, <1>3, <2>1, <2>2
    <2>3. CASE k # j /\ l # j
      <3> DEFINE back(p) == IF p < j THEN p ELSE p - 1
      <3>1. /\ back(k) \in 1 .. Len(r) /\ back(l) \in 1 .. Len(r)
            /\ back(k) = back(l) => k = l
        BY <2>1, <2>3
      <3>2. m[k] = r[back(k)] /\ m[l] = r[back(l)]
        BY <1>2, <2>3
      <3> HIDE DEF back
      <3> QED BY <1>3, <2>1, <3>1, <3>2
    <2> QED BY <2>2, <2>3
  <1>4. Simple(m)
    BY <1>2, <1>3 DEF Simple
  <1> QED BY <1>4 DEF m, r

LEMMA AddedSimple ==
    ASSUME NEW c, Simple(c), NEW n \in ChainNodes, n \notin C!ToSet(c)
    PROVE  Simple(Append(c, n))
  <1>1. c \in Seq(ChainNodes) /\ Len(c) \in Nat /\ DOMAIN c = 1 .. Len(c)
    BY DEF Simple
  <1>3. \A k \in 1 .. Len(c) : c[k] # n
    BY <1>1, Zenon DEF C!ToSet
  <1>2. /\ Append(c, n) \in Seq(ChainNodes) /\ Len(Append(c, n)) = Len(c) + 1
        /\ \A k \in 1 .. Len(c) : Append(c, n)[k] = c[k]
        /\ Append(c, n)[Len(c) + 1] = n
    BY <1>1, AppendProperties
  <1> DEFINE a == Append(c, n)
  <1>4. \A k, l \in 1 .. Len(a) : a[k] = a[l] => k = l
    <2> HIDE DEF a
    <2>1. \A k \in 1 .. Len(a) : k \in 1 .. Len(c) \/ k = Len(c) + 1
      BY <1>1, <1>2 DEF a
    <2> QED BY <1>1, <1>2, <1>3, <2>1 DEF a, Simple
  <1> QED BY <1>2, <1>4 DEF Simple

\* A set of numbers that is not empty has a least one.
LEMMA Least ==
    ASSUME NEW T \in SUBSET Nat, T # {}
    PROVE  \E k \in T : \A l \in T : ~(l < k)
  <1>1. PICK k \in T : \A l \in T : <<l, k>> \notin OpToRel(<, Nat)
    BY WFMin, NatLessThanWellFounded
  <1> QED BY <1>1 DEF OpToRel

\* The dialers that a chain gives: each node dials through the one before it, as far
\* as the configuration has it.
LEMMA DialersFacts ==
    ASSUME NEW c, Simple(c), NEW N, NEW d, d = C!Dialers(N, c)
    PROVE  /\ DOMAIN d = N
           /\ \A i \in 2 .. Len(c) : c[i] \in N => d[c[i]] = c[i - 1]
           /\ \A n \in N : d[n] # C!None => \E i \in 2 .. Len(c) : c[i] = n
           /\ Len(c) > 0 /\ c[1] \in N => d[c[1]] = C!None
  <1>1. /\ Len(c) \in Nat /\ \A i, j \in 1 .. Len(c) : c[i] = c[j] => i = j
    BY DEF Simple
  <1>2. ASSUME NEW i \in 2 .. Len(c), c[i] \in N PROVE d[c[i]] = c[i - 1]
    <2>1. (CHOOSE j \in 2 .. Len(c) : c[j] = c[i]) = i
      BY <1>1
    <2> QED BY <1>1, <1>2, <2>1 DEF C!Dialers
  <1>3. ASSUME NEW n \in N, ~\E i \in 2 .. Len(c) : c[i] = n
        PROVE  d[n] = C!None
    BY <1>3 DEF C!Dialers
  <1>4. DOMAIN d = N
    BY DEF C!Dialers
  <1>5. Len(c) > 0 /\ c[1] \in N => d[c[1]] = C!None
    BY <1>1, <1>3
  <1> QED BY <1>2, <1>3, <1>4, <1>5

\* The dialers that a chain gives form no circle: of the nodes of a set that is
\* closed the first in the chain would have its dialer before it.
LEMMA NoCircle ==
    ASSUME NEW c, Simple(c), NEW N \in SUBSET ChainNodes, NEW d, d = C!Dialers(N, c),
           NEW S \in SUBSET N, \A n \in S : d[n] \in S
    PROVE  S = {}
  <1> SUFFICES ASSUME S # {} PROVE FALSE
    OBVIOUS
  <1> DEFINE T == {i \in 1 .. Len(c) : c[i] \in S}
  <1>1. Len(c) \in Nat /\ T \in SUBSET Nat
    BY DEF Simple
  <1>2. \A n \in S : \E i \in 2 .. Len(c) : c[i] = n
    BY DialersFacts, ChainAssumption
  <1>3. T # {}
    BY <1>1, <1>2
  <1>4. PICK k \in T : \A l \in T : ~(l < k)
    BY <1>1, <1>3, Least
  <1>5. k \in 2 .. Len(c)
    BY <1>1, <1>2, <1>4 DEF Simple
  <1>6. k - 1 \in T
    <2>1. d[c[k]] = c[k - 1] /\ c[k] \in S
      BY <1>4, <1>5, DialersFacts
    <2> QED BY <1>1, <1>5, <2>1
  <1> QED BY <1>1, <1>4, <1>6

\* What the page, the handlers of the button and the runtime configuration know of
\* each other: the dialers are those that a profile brought or those of a chain.
Works == [at : {"idle", "save", "select", "clear", "direct", "refresh"},
          chain : Seq(ChainNodes), target : ChainGroups \cup {"GLOBAL", C!None},
          mount : {"button", "page", "gone"}]
ChainTypes ==
    /\ exitNode \in ChainNodes \cup {C!None} /\ loading \in ChainNodes \cup {C!None}
    /\ calls \in {0, 1} /\ group \in ChainGroups \cup {C!None}
    /\ work \in [Buttons -> Works] /\ owner \in Buttons \cup {C!None}
Once == Simple(chain) /\ Simple(items) /\ Simple(connected)
Handling ==
    \A h \in Buttons : /\ Simple(work[h].chain)
                       /\ work[h].at # "idle" => Len(work[h].chain) >= 2
Dials(c) == dialer = C!Dialers(DOMAIN dialer, c)
Whole(c) == Dials(c) /\ \A i \in 1 .. Len(c) : c[i] \in DOMAIN dialer
Dialing ==
    /\ DOMAIN dialer \in SUBSET ChainNodes
    /\ dialer \in Brought \/ \E c : Simple(c) /\ Dials(c)
Saved == owner # C!None => work[owner].at = "select" /\ Whole(work[owner].chain)
Connected ==
    connected # <<>> => /\ Len(connected) >= 2 /\ Whole(connected)
                        /\ exitNode # C!None => exitNode = C!Last(connected)
ChainInv == ChainTypes /\ Once /\ Handling /\ Dialing /\ Saved /\ Connected

LEMMA EmptySimple == Simple(<<>>)
  BY DEF Simple

LEMMA Finite ==
    /\ C!Cardinality(ChainNodes) = Cardinality(ChainNodes)
    /\ Cardinality(ChainNodes) \in Nat
  <1>1. C!Cardinality(ChainNodes) = Cardinality(ChainNodes)
    BY Zenon DEF C!Cardinality, Cardinality
  <1> QED BY <1>1, ChainAssumption, FS_CardinalityType

LEMMA ChainIsSeq ==
    ASSUME NEW c \in C!Chains
    PROVE  c \in Seq(ChainNodes) /\ Len(c) \in Nat
  <1>1. PICK n \in 0 .. Cardinality(ChainNodes) : c \in [1 .. n -> ChainNodes]
    BY Finite, Zenon DEF C!Chains
  <1> QED BY <1>1, Finite, IsASeq

LEMMA BroughtFacts ==
    ASSUME NEW d \in Brought PROVE DOMAIN d \in SUBSET ChainNodes
  <1>1. d \in C!Configurations
    BY ChainAssumption
  <1>2. PICK S \in SUBSET ChainNodes : d \in [S -> ChainNodes \cup {C!None, C!Outside}]
    BY <1>1, Zenon DEF C!Configurations
  <1> QED BY <1>2

LEMMA IdleFacts == C!Idle \in Works /\ C!Idle.at = "idle" /\ Simple(C!Idle.chain)
  BY EmptySimple DEF C!Idle, Works

LEMMA ChainInit == C!Init => ChainInv
  <1> SUFFICES ASSUME C!Init PROVE ChainInv
    OBVIOUS
  <1>1. /\ chain = items /\ connected = <<>> /\ exitNode \in ChainNodes \cup {C!None}
        /\ loading \in {exitNode, C!None} /\ owner = C!None /\ dialer \in Brought
        /\ calls = 0 /\ work = [h \in Buttons |-> C!Idle] /\ group = C!None
    BY DEF C!Init
  <1>2. items \in C!Chains /\ C!IsOnce(items)
    BY DEF C!Init
  <1>3. Simple(items)
    BY <1>2, ChainIsSeq DEF Simple, C!IsOnce
  <1>4. ChainTypes /\ Handling
    BY <1>1, IdleFacts DEF ChainTypes, Handling
  <1>5. Dialing
    BY <1>1, BroughtFacts DEF Dialing
  <1> QED BY <1>1, <1>3, <1>4, <1>5, EmptySimple DEF ChainInv, Once, Saved, Connected

\* Where each handler is does not depend on what is left of where it was started.
LEMMA LeftFacts ==
    ASSUME ChainTypes, NEW m \in {"button", "page"}, work' = C!Left(m)
    PROVE  /\ work' \in [Buttons -> Works]
           /\ \A h \in Buttons : work'[h].at = work[h].at /\ work'[h].chain = work[h].chain
  <1>1. ASSUME NEW h \in Buttons
        PROVE  /\ work'[h] \in Works
               /\ work'[h].at = work[h].at /\ work'[h].chain = work[h].chain
    <2>1. work[h] \in Works
      BY DEF ChainTypes
    <2>2. work'[h] \in {work[h], [work[h] EXCEPT !.mount = "gone"], [work[h] EXCEPT !.mount = "page"]}
      BY DEF C!Left
    <2> QED BY <2>1, <2>2 DEF Works
  <1>2. work' = [h \in Buttons |-> work'[h]]
    BY DEF C!Left
  <1> QED BY <1>1, <1>2

\* The dialers form no circle unless a profile brought one, which is DialersEnd.
LEMMA ChainEnds == ChainInv => C!DialersEnd
  BY NoCircle DEF ChainInv, Dialing, Dials, C!DialersEnd

\* What the back end finds has no node twice: the first that recurs would have a
\* dialer before it that recurs too, or be the first of all, whose dialer is no node.
LEMMA FoundSimple ==
    ASSUME NEW exit, NEW c \in C!Walk(exit)
    PROVE  Simple(c)
  <1>1. CASE c = <<>>
    BY <1>1, EmptySimple
  <1>2. CASE c # <<>>
    <2>1. /\ c \in C!Chains /\ C!ToSet(c) \subseteq DOMAIN dialer
          /\ \A i \in 2 .. Len(c) : dialer[c[i]] = c[i - 1]
          /\ dialer[c[1]] \notin DOMAIN dialer
      BY <1>2 DEF C!Walk, C!Leading
    <2>2. c \in Seq(ChainNodes) /\ Len(c) \in Nat /\ DOMAIN c = 1 .. Len(c)
      BY <2>1, ChainIsSeq
    <2>3. \A i \in 1 .. Len(c) : c[i] \in DOMAIN dialer
      BY <2>1, <2>2, Zenon DEF C!ToSet
    <2> DEFINE T == {i \in 1 .. Len(c) : \E j \in 1 .. Len(c) : i < j /\ c[i] = c[j]}
    <2>4. T = {}
      <3> SUFFICES ASSUME T # {} PROVE FALSE
        OBVIOUS
      <3>0. T \in SUBSET Nat
        BY <2>2
      <3>1. PICK k \in T : \A l \in T : ~(l < k)
        BY <3>0, Least
      <3>2. PICK j \in 1 .. Len(c) : k < j /\ c[k] = c[j]
        BY <3>1
      <3>3. j \in 2 .. Len(c) /\ dialer[c[k]] = c[j - 1] /\ j - 1 \in 1 .. Len(c)
        BY <2>1, <2>2, <3>1, <3>2
      <3>4. k # 1
        BY <2>1, <2>3, <3>3
      <3>5. k \in 2 .. Len(c) /\ c[k - 1] = c[j - 1]
        BY <2>1, <2>2, <3>1, <3>3, <3>4
      <3>6. k - 1 \in T /\ k - 1 < k
        BY <2>2, <3>2, <3>3, <3>5
      <3> QED BY <3>1, <3>6
    <2>5. \A i, j \in 1 .. Len(c) : c[i] = c[j] => i = j
      BY <2>2, <2>4
    <2> QED BY <2>2, <2>5 DEF Simple
  <1> QED BY <1>1, <1>2

\* The steps by which the page edits its chain.
LEMMA EditsInv ==
    ASSUME ChainInv,
           \/ \E n \in ChainNodes : C!Add(n)
           \/ \E i \in 1 .. Len(chain) : C!RemoveNode(i)
           \/ \E i, j \in 1 .. Len(chain) : C!Move(i, j)
           \/ C!UpdateDelays \/ C!Loaded
    PROVE  ChainInv'
  <1>1. ASSUME Simple(chain'), Simple(items'), loading' \in ChainNodes \cup {C!None},
               UNCHANGED <<work, exitNode, dialer, calls, connected, group, owner>>
        PROVE  ChainInv'
    BY <1>1 DEF ChainInv, ChainTypes, Once, Handling, Dialing, Dials, Whole, Saved, Connected
  <1>2. Simple(chain) /\ loading \in ChainNodes \cup {C!None}
    BY DEF ChainInv, ChainTypes, Once
  <1>3. ASSUME NEW c, Simple(c), C!Edit, C!ShowChain(c) PROVE ChainInv'
    BY <1>1, <1>2, <1>3 DEF C!Edit, C!ShowChain
  <1>4. ASSUME NEW n \in ChainNodes, C!Add(n) PROVE ChainInv'
    BY <1>2, <1>3, <1>4, AddedSimple DEF C!Add
  <1>5. ASSUME NEW i \in 1 .. Len(chain), C!RemoveNode(i) PROVE ChainInv'
    BY <1>2, <1>3, <1>5, RemovedSimple DEF C!RemoveNode
  <1>6. ASSUME NEW i \in 1 .. Len(chain), NEW j \in 1 .. Len(chain), C!Move(i, j)
        PROVE  ChainInv'
    BY <1>2, <1>3, <1>6, MovedSimple DEF C!Move
  <1>7. CASE C!UpdateDelays
    BY <1>1, <1>2, <1>7 DEF C!UpdateDelays, C!ShowChain
  <1>8. CASE C!Loaded
    <2>1. Simple(chain') /\ Simple(items')
      BY <1>8, FoundSimple DEF C!Loaded, C!ShowChain, ChainInv, Once
    <2> QED BY <1>1, <1>8, <2>1 DEF C!Loaded
  <1> QED BY <1>4, <1>5, <1>6, <1>7, <1>8

\* The steps by which the page drops its chain, comes, goes or changes its mode.
LEMMA PageInv ==
    ASSUME ChainInv,
           \/ \E g \in ChainGroups \cup {group} : C!Drop(g)
           \/ C!Toggle \/ C!Leave \/ C!Return
    PROVE  ChainInv'
  <1>1. Once /\ ChainTypes
    BY DEF ChainInv
  <1>2. ASSUME NEW g \in ChainGroups \cup {group}, C!Drop(g) PROVE ChainInv'
    <2>1. /\ chain' = <<>> /\ items' = <<>> /\ exitNode' = C!None /\ calls' = 1
          /\ group' = g /\ UNCHANGED <<dialer, loading, work, owner, connected>>
      BY <1>2 DEF C!Drop, C!ShowChain
    <2> QED BY <2>1, EmptySimple DEF ChainInv, ChainTypes, Once, Handling, Dialing, Dials,
                                     Whole, Saved, Connected
  <1>3. CASE C!Toggle \/ C!Leave \/ C!Return
    <2>1. /\ \E m \in {"button", "page"} : work' \in {work, C!Left(m)}
          /\ chain' \in {chain, items, <<>>} /\ items' = items
          /\ calls' \in {0, 1} /\ loading' \in {C!None, exitNode} /\ group' \in {group, C!None}
          /\ UNCHANGED <<exitNode, dialer, owner, connected>>
      BY <1>1, <1>3 DEF C!Toggle, C!Leave, C!Return, ChainTypes
    <2>2. /\ work' \in [Buttons -> Works]
          /\ \A h \in Buttons : work'[h].at = work[h].at /\ work'[h].chain = work[h].chain
      BY <1>1, <2>1, LeftFacts DEF ChainTypes
    <2>3. ChainTypes' /\ Once'
      BY <1>1, <2>1, <2>2, EmptySimple DEF ChainTypes, Once
    <2>4. Handling' /\ Dialing'
      BY <2>1, <2>2 DEF ChainInv, Handling, Dialing, Dials
    <2>5. Saved' /\ Connected'
      BY <2>1, <2>2 DEF ChainInv, ChainTypes, Saved, Connected, Dials, Whole
    <2> QED BY <2>3, <2>4, <2>5 DEF ChainInv
  <1> QED BY <1>2, <1>3

\* New dialers end a connection that was known.
LEMMA WriteFacts ==
    ASSUME ChainInv, NEW c, Simple(c), C!Write(c)
    PROVE  /\ DOMAIN dialer' = DOMAIN dialer /\ Dialing' /\ connected' = <<>>
           /\ dialer' = C!Dialers(DOMAIN dialer', c)
  <1>1. dialer' = C!Dialers(DOMAIN dialer, c) /\ connected' = <<>>
    BY DEF C!Write
  <1>2. DOMAIN dialer' = DOMAIN dialer
    BY <1>1 DEF C!Dialers
  <1> QED BY <1>1, <1>2 DEF ChainInv, Dialing, Dials

\* The steps of the configuration that the page does not wait for.
LEMMA ConfigurationInv ==
    ASSUME ChainInv, C!Regenerate \/ \E ok \in BOOLEAN : C!Cleared(ok)
    PROVE  ChainInv'
  <1>1. CASE UNCHANGED <<dialer, owner, connected>>
    <2>1. calls' \in {0, 1} /\ UNCHANGED <<chain, items, exitNode, work, loading, group>>
      BY DEF C!Regenerate, C!Cleared, ChainInv, ChainTypes
    <2> QED BY <1>1, <2>1 DEF ChainInv, ChainTypes, Once, Handling, Dialing, Dials, Whole,
                              Saved, Connected
  <1>2. CASE Dialing' /\ owner' = C!None /\ connected' = <<>>
    <2>1. calls' \in {0, 1} /\ UNCHANGED <<chain, items, exitNode, work, loading, group>>
      BY DEF C!Regenerate, C!Cleared, ChainInv, ChainTypes
    <2> QED BY <1>2, <2>1, EmptySimple DEF ChainInv, ChainTypes, Once, Handling, Saved, Connected
  <1>3. CASE C!Regenerate
    <2>1. dialer' \in Brought /\ owner' = C!None /\ connected' = <<>>
      BY <1>3 DEF C!Regenerate
    <2>2. Dialing'
      BY <2>1, BroughtFacts DEF Dialing
    <2> QED BY <1>2, <2>1, <2>2
  <1>4. ASSUME NEW ok \in BOOLEAN, C!Cleared(ok) PROVE ChainInv'
    <2>1. CASE ok
      BY <1>2, <1>4, <2>1, EmptySimple, WriteFacts DEF C!Cleared
    <2>2. CASE ~ok
      BY <1>1, <1>4, <2>2 DEF C!Cleared
    <2> QED BY <2>1, <2>2
  <1> QED BY <1>3, <1>4

\* The steps of handleConnect.
LEMMA ConnectInv ==
    ASSUME ChainInv, NEW h \in Buttons,
           \/ C!Press(h)
           \/ \E ok \in BOOLEAN : \/ C!SaveChain(h, ok) \/ C!SelectExit(h, ok)
                                  \/ C!ClearChain(h, ok) \/ C!Disconnected(h, ok)
           \/ \E n \in ChainNodes \cup {"DIRECT"} : C!SelectDirect(h, n)
    PROVE  ChainInv'
  <1>1. /\ work \in [Buttons -> Works] /\ work[h] \in Works
        /\ Simple(work[h].chain) /\ Handling /\ ChainTypes /\ Once
    BY DEF ChainInv, ChainTypes, Handling
  \* What the handler does to itself.
  <1>2. ASSUME NEW l \in {"select", "direct", "refresh"}, C!Proceed(h, l), work[h].at # "idle"
        PROVE  /\ work' \in [Buttons -> Works] /\ Handling'
               /\ work'[h].at = l /\ work'[h].chain = work[h].chain
               /\ \A k \in Buttons \ {h} : work'[k] = work[k]
    <2>1. work' = [work EXCEPT ![h] = [work[h] EXCEPT !.at = l]]
      BY <1>2 DEF C!Proceed
    <2>2. [work[h] EXCEPT !.at = l] \in Works /\ [work[h] EXCEPT !.at = l].at = l
          /\ [work[h] EXCEPT !.at = l].chain = work[h].chain
      BY <1>1 DEF Works
    <2> HIDE DEF Works
    <2> QED BY <1>1, <1>2, <2>1, <2>2 DEF Handling
  <1>3. ASSUME C!End(h)
        PROVE  /\ work' \in [Buttons -> Works] /\ Handling'
               /\ \A k \in Buttons \ {h} : work'[k] = work[k]
    BY <1>1, <1>3, IdleFacts DEF C!End, Handling
  \* A step that leaves dialers and connection alone.
  <1>4. ASSUME work' \in [Buttons -> Works], Handling', work[h].at # "select",
               \A k \in Buttons \ {h} : work'[k] = work[k],
               UNCHANGED <<dialer, owner, connected, loading, calls, group>>,
               exitNode' \in {exitNode, C!None}, Simple(chain'), Simple(items')
        PROVE  ChainInv'
    <2>1. ChainTypes' /\ Once' /\ Dialing' /\ Connected'
      BY <1>1, <1>4 DEF ChainInv, ChainTypes, Once, Dialing, Dials, Whole, Connected
    <2>2. Saved'
      BY <1>1, <1>4 DEF ChainInv, ChainTypes, Saved, Dials, Whole
    <2> QED BY <1>4, <2>1, <2>2 DEF ChainInv
  <1>5. CASE C!Press(h)
    <2>1. /\ work[h].at = "idle" /\ Simple(chain) /\ Len(chain) >= 2
          /\ UNCHANGED <<chain, items, exitNode, dialer, calls, loading, connected, group, owner>>
      BY <1>1, <1>5, IdleFacts DEF C!Press, Once
    <2>2. PICK w : /\ work' = [work EXCEPT ![h] = w] /\ w.chain = chain /\ w \in Works
      <3> DEFINE w == [at |-> IF C!IsConnected THEN "clear" ELSE "save",
                       chain |-> chain, target |-> C!Target, mount |-> "button"]
      <3>1. C!Target \in ChainGroups \cup {"GLOBAL", C!None}
        BY <1>1, ChainAssumption DEF C!Target, C!ActiveGroup, ChainTypes
      <3>2. work' = [work EXCEPT ![h] = w]
        BY <1>5 DEF C!Press
      <3>3. w.chain = chain /\ w \in Works
        BY <2>1, <3>1 DEF Works, Simple
      <3> HIDE DEF w
      <3> QED BY <3>2, <3>3
    <2>3. work' \in [Buttons -> Works] /\ \A k \in Buttons \ {h} : work'[k] = work[k]
      BY <1>1, <2>2
    <2>4. Handling'
      BY <1>1, <2>1, <2>2 DEF Handling
    <2> QED BY <1>1, <1>4, <2>1, <2>3, <2>4 DEF Once
  <1>6. ASSUME NEW ok \in BOOLEAN, C!SaveChain(h, ok) PROVE ChainInv'
    <2>1. /\ work[h].at = "save" /\ C!Proceed(h, "select")
          /\ UNCHANGED <<chain, items, exitNode, calls, loading, group>>
      BY <1>6 DEF C!SaveChain
    <2>2. CASE ok
      <3>1. /\ C!Write(work[h].chain)
            /\ owner' = IF C!ToSet(work[h].chain) \subseteq DOMAIN dialer THEN h ELSE C!None
        BY <1>6, <2>2 DEF C!SaveChain
      <3>2. /\ Dialing' /\ connected' = <<>> /\ DOMAIN dialer' = DOMAIN dialer
            /\ dialer' = C!Dialers(DOMAIN dialer', work[h].chain)
        BY <1>1, <3>1, WriteFacts
      <3>3. ASSUME owner' # C!None
            PROVE  owner' = h /\ \A i \in 1 .. Len(work[h].chain) : work[h].chain[i] \in DOMAIN dialer'
        <4>1. DOMAIN work[h].chain = 1 .. Len(work[h].chain)
          BY <1>1 DEF Simple
        <4> QED BY <3>1, <3>2, <3>3, <4>1 DEF C!ToSet
      <3>4. Saved'
        BY <1>2, <2>1, <3>2, <3>3 DEF Saved, Whole, Dials
      <3>5. ChainTypes' /\ Once' /\ Connected'
        BY <1>1, <1>2, <2>1, <3>1, <3>2, EmptySimple DEF ChainTypes, Once, Connected
      <3> QED BY <1>2, <2>1, <3>2, <3>4, <3>5 DEF ChainInv
    <2>3. CASE ~ok
      BY <1>1, <1>2, <1>4, <1>6, <2>1, <2>3 DEF C!SaveChain, Once
    <2> QED BY <2>2, <2>3
  <1>7. ASSUME NEW ok \in BOOLEAN, C!SelectExit(h, ok) PROVE ChainInv'
    <2>1. /\ work[h].at = "select" /\ C!End(h)
          /\ exitNode' = IF ok THEN C!Last(work[h].chain) ELSE exitNode
          /\ connected' = IF ok THEN IF owner = h THEN work[h].chain ELSE <<>> ELSE connected
          /\ owner' = IF owner = h THEN C!None ELSE owner
          /\ UNCHANGED <<chain, items, dialer, calls, loading, group>>
      BY <1>7 DEF C!SelectExit
    <2>2. Len(work[h].chain) >= 2 /\ C!Last(work[h].chain) \in ChainNodes
      BY <1>1, <2>1 DEF Handling, Simple, C!Last
    <2>3. ChainTypes' /\ Once' /\ Dialing'
      BY <1>1, <1>3, <2>1, <2>2, EmptySimple DEF ChainInv, ChainTypes, Once, Dialing, Dials
    <2>4. Saved'
      BY <1>1, <1>3, <2>1 DEF ChainInv, ChainTypes, Saved, Whole, Dials
    <2>5. Connected'
      <3>1. owner = h => Whole(work[h].chain)
        BY ChainAssumption DEF ChainInv, Saved
      <3> QED BY <2>1, <2>2, <3>1 DEF ChainInv, Connected, Whole, Dials
    <2> QED BY <1>3, <2>1, <2>3, <2>4, <2>5 DEF ChainInv
  <1>8. ASSUME NEW ok \in BOOLEAN, C!ClearChain(h, ok) PROVE ChainInv'
    <2>1. /\ work[h].at = "clear" /\ C!Proceed(h, "direct")
          /\ UNCHANGED <<chain, items, exitNode, calls, loading, group>>
      BY <1>8 DEF C!ClearChain
    <2>2. CASE ok
      <3>1. owner' = C!None /\ Dialing' /\ connected' = <<>>
        BY <1>8, <2>2, EmptySimple, WriteFacts DEF C!ClearChain
      <3> QED BY <1>1, <1>2, <2>1, <3>1, EmptySimple DEF ChainInv, ChainTypes, Once, Saved, Connected
    <2>3. CASE ~ok
      BY <1>1, <1>2, <1>4, <1>8, <2>1, <2>3 DEF C!ClearChain, Once
    <2> QED BY <2>2, <2>3
  <1>9. ASSUME NEW n, C!SelectDirect(h, n) PROVE ChainInv'
    <2>1. /\ work[h].at = "direct" /\ C!Proceed(h, "refresh") /\ exitNode' = C!None
          /\ items' = <<>> /\ UNCHANGED <<chain, dialer, calls, loading, connected, group, owner>>
      BY <1>9 DEF C!SelectDirect
    <2> QED BY <1>1, <1>2, <1>4, <2>1, EmptySimple DEF Once
  <1>10. ASSUME NEW ok \in BOOLEAN, C!Disconnected(h, ok) PROVE ChainInv'
    <2>1. /\ work[h].at = "refresh" /\ C!End(h)
          /\ UNCHANGED <<exitNode, dialer, calls, loading, connected, group, owner>>
          /\ chain' \in {chain, <<>>} /\ items' \in {items, <<>>}
      BY <1>10 DEF C!Disconnected, C!ShowChain
    <2> QED BY <1>1, <1>3, <1>4, <2>1, EmptySimple DEF Once
  <1> QED BY <1>5, <1>6, <1>7, <1>8, <1>9, <1>10

LEMMA ChainStep == ChainInv /\ C!Next => ChainInv'
  <1> SUFFICES ASSUME ChainInv, C!Next PROVE ChainInv'
    OBVIOUS
  <1> QED BY EditsInv, PageInv, ConfigurationInv, ConnectInv, Zenon DEF C!Next

LEMMA ChainKept == ChainInv /\ UNCHANGED Cvars => ChainInv'
  BY DEF ChainInv, ChainTypes, Once, Handling, Dialing, Dials, Whole, Saved, Connected, Cvars

\* A chain is no longer than there are nodes.
LEMMA SimpleShort ==
    ASSUME NEW c, Simple(c)
    PROVE  Len(c) \in 0 .. Cardinality(ChainNodes)
  <1>1. c \in Seq(ChainNodes) /\ Len(c) \in Nat /\ DOMAIN c = 1 .. Len(c)
    BY DEF Simple
  <1>2. c \in Injection(1 .. Len(c), ChainNodes)
    BY <1>1 DEF Simple, Injection, IsInjective
  <1>3. IsFiniteSet(1 .. Len(c)) /\ Cardinality(1 .. Len(c)) = Len(c)
    BY <1>1, FS_Interval
  <1>4. Cardinality(1 .. Len(c)) <= Cardinality(ChainNodes)
    BY <1>2, <1>3, ChainAssumption, FS_Injection
  <1> QED BY <1>1, <1>3, <1>4, Finite

\* Two chains of the same dialers that end in one node and begin with one whose
\* dialer is no node are one.
LEMMA OneWay ==
    ASSUME NEW c, Simple(c), NEW d, Simple(d), Len(c) > 0, Len(d) > 0,
           NEW f, c[Len(c)] = d[Len(d)],
           \A i \in 2 .. Len(c) : f[c[i]] = c[i - 1],
           \A i \in 2 .. Len(d) : f[d[i]] = d[i - 1],
           NEW X, f[c[1]] \notin X, f[d[1]] \notin X,
           \A i \in 1 .. Len(c) : c[i] \in X, \A i \in 1 .. Len(d) : d[i] \in X
    PROVE  c = d
  <1>1. /\ c \in Seq(ChainNodes) /\ Len(c) \in Nat /\ d \in Seq(ChainNodes) /\ Len(d) \in Nat
    BY DEF Simple
  <1> DEFINE T == {k \in Nat : k < Len(c) /\ k < Len(d) /\ c[Len(c) - k] # d[Len(d) - k]}
  <1>2. T = {}
    <2> SUFFICES ASSUME T # {} PROVE FALSE
      OBVIOUS
    <2>1. PICK k \in T : \A l \in T : ~(l < k)
      BY Least
    <2>2. k > 0 /\ k - 1 \in Nat /\ k - 1 \notin T
      BY <1>1, <2>1
    <2>3. c[Len(c) - (k - 1)] = d[Len(d) - (k - 1)]
      BY <1>1, <2>1, <2>2
    <2>4. /\ Len(c) - (k - 1) \in 2 .. Len(c) /\ Len(d) - (k - 1) \in 2 .. Len(d)
          /\ Len(c) - (k - 1) - 1 = Len(c) - k /\ Len(d) - (k - 1) - 1 = Len(d) - k
      BY <1>1, <2>1, <2>2
    <2> QED BY <2>1, <2>3, <2>4
  <1>3. \A k \in Nat : k < Len(c) /\ k < Len(d) => c[Len(c) - k] = d[Len(d) - k]
    BY <1>2
  <1> HIDE DEF T
  <1>4. ~(Len(c) < Len(d))
    <2> SUFFICES ASSUME Len(c) < Len(d) PROVE FALSE
      OBVIOUS
    <2>1. /\ Len(c) - 1 \in Nat /\ Len(c) - (Len(c) - 1) = 1
          /\ Len(c) - 1 < Len(c) /\ Len(c) - 1 < Len(d)
      BY <1>1
    <2>2. c[1] = d[Len(d) - (Len(c) - 1)]
      <3>1. c[Len(c) - (Len(c) - 1)] = d[Len(d) - (Len(c) - 1)]
        BY <1>3, <2>1
      <3> QED BY <2>1, <3>1
    <2>3. Len(d) - (Len(c) - 1) \in 2 .. Len(d) /\ Len(d) - (Len(c) - 1) - 1 \in 1 .. Len(d)
      BY <1>1
    <2> QED BY <1>1, <2>2, <2>3
  <1>5. ~(Len(d) < Len(c))
    <2> SUFFICES ASSUME Len(d) < Len(c) PROVE FALSE
      OBVIOUS
    <2>1. /\ Len(d) - 1 \in Nat /\ Len(d) - (Len(d) - 1) = 1
          /\ Len(d) - 1 < Len(d) /\ Len(d) - 1 < Len(c)
      BY <1>1
    <2>2. d[1] = c[Len(c) - (Len(d) - 1)]
      <3>1. c[Len(c) - (Len(d) - 1)] = d[Len(d) - (Len(d) - 1)]
        BY <1>3, <2>1
      <3> QED BY <2>1, <3>1
    <2>3. Len(c) - (Len(d) - 1) \in 2 .. Len(c) /\ Len(c) - (Len(d) - 1) - 1 \in 1 .. Len(c)
      BY <1>1
    <2> QED BY <1>1, <2>2, <2>3
  <1>6. Len(c) = Len(d)
    BY <1>1, <1>4, <1>5
  <1>7. \A i \in 1 .. Len(c) : c[i] = d[i]
    <2> TAKE i \in 1 .. Len(c)
    <2>1. /\ Len(c) - i \in Nat /\ Len(c) - i < Len(c)
          /\ Len(c) - (Len(c) - i) = i /\ Len(d) - (Len(c) - i) = i
      BY <1>1, <1>6
    <2> QED BY <1>3, <1>6, <2>1
  <1> QED BY <1>1, <1>6, <1>7, SeqEqual

\* The walk from the exit node finds the connected chain and nothing else.
LEMMA ChainAgain == ChainInv => C!ChainFound
  <1> SUFFICES ASSUME ChainInv, connected # <<>>, exitNode # C!None
               PROVE  C!Walk(exitNode) = {connected}
    BY DEF C!ChainFound
  <1>1. /\ Simple(connected) /\ Len(connected) >= 2 /\ Len(connected) \in Nat
        /\ dialer = C!Dialers(DOMAIN dialer, connected)
        /\ \A i \in 1 .. Len(connected) : connected[i] \in DOMAIN dialer
        /\ DOMAIN dialer \in SUBSET ChainNodes
        /\ exitNode = C!Last(connected)
    BY DEF ChainInv, Once, Dialing, Connected, Whole, Dials, Simple
  <1>2. /\ \A i \in 2 .. Len(connected) : dialer[connected[i]] = connected[i - 1]
        /\ dialer[connected[1]] = C!None /\ C!None \notin DOMAIN dialer
    BY <1>1, DialersFacts, ChainAssumption
  <1>3. exitNode = connected[Len(connected)]
    BY <1>1 DEF C!Last
  <1>4. exitNode \in DOMAIN dialer /\ dialer[exitNode] # C!None
    BY <1>1, <1>2, <1>3
  <1>5. connected \in C!Walk(exitNode)
    <2>1. connected \in [1 .. Len(connected) -> ChainNodes] /\ DOMAIN connected = 1 .. Len(connected)
      BY <1>1 DEF Simple
    <2>2. connected \in C!Chains
      BY <1>1, <2>1, SimpleShort, Finite DEF C!Chains
    <2>3. C!ToSet(connected) \subseteq DOMAIN dialer
      BY <1>1, <2>1 DEF C!ToSet
    <2>4. connected \in C!Leading(exitNode)
      BY <1>1, <1>2, <2>2, <2>3 DEF C!Leading
    <2> QED BY <1>2, <1>4, <2>4 DEF C!Walk
  <1>6. ASSUME NEW c \in C!Walk(exitNode) PROVE c = connected
    <2>1. /\ c # <<>> /\ C!Last(c) = exitNode /\ dialer[c[1]] \notin DOMAIN dialer
          /\ C!ToSet(c) \subseteq DOMAIN dialer
          /\ \A i \in 2 .. Len(c) : dialer[c[i]] = c[i - 1]
      BY <1>4 DEF C!Walk, C!Leading
    <2>2. Simple(c)
      BY FoundSimple
    <2>3. /\ Len(c) > 0 /\ c[Len(c)] = exitNode /\ DOMAIN c = 1 .. Len(c)
      BY <2>1, <2>2 DEF C!Last, Simple
    <2>4. \A i \in 1 .. Len(c) : c[i] \in DOMAIN dialer
      BY <2>1, <2>3, Zenon DEF C!ToSet
    <2>5. /\ Len(connected) > 0 /\ c[Len(c)] = connected[Len(connected)]
          /\ dialer[connected[1]] \notin DOMAIN dialer
      BY <1>1, <1>2, <1>3, <2>3
    <2> QED BY <1>1, <1>2, <2>1, <2>2, <2>3, <2>4, <2>5, OneWay
  <1> QED BY <1>5, <1>6

\* In a behaviour of the chain the invariant holds all the time.
LEMMA ChainHolds == PageSpec => [](part = "chain" => ChainInv)
  <1>1. Start => (part = "chain" => ChainInv)
    BY ChainInit, Zenon DEF Start
  <1>2. (part = "chain" => ChainInv) /\ [Step]_all => (part = "chain" => ChainInv)'
    <2> SUFFICES ASSUME part = "chain" => ChainInv, [Step]_all, part' = "chain"
                 PROVE  ChainInv'
      OBVIOUS
    <2>1. part = "chain" /\ (C!Next \/ UNCHANGED Cvars)
      BY DEF Step, all
    <2> QED BY <2>1, ChainStep, ChainKept
  <1> QED BY <1>1, <1>2, PTL DEF PageSpec

\* Whatever is edited, moved, connected, cleared, reloaded or regenerated in
\* between, and however many connects overlap, the dialers of the runtime
\* configuration form no circle but one that a profile brings.
THEOREM DialersEndHolds == PageSpec => []DialersEnd
  <1>1. (part = "chain" => ChainInv) => DialersEnd
    BY ChainEnds, Zenon DEF DialersEnd
  <1> QED BY <1>1, ChainHolds, PTL

\* A chain that was connected is the one that the back end finds from the exit node
\* that is remembered: it leads there, the dialer of its first node is no node, and
\* no other chain does both.  It is found until something writes the dialers, a
\* new configuration included, or the exit node of another handler is remembered.
THEOREM ChainFoundHolds == PageSpec => []ChainFound
  <1>1. (part = "chain" => ChainInv) => ChainFound
    BY ChainAgain, Zenon DEF ChainFound
  <1> QED BY <1>1, ChainHolds, PTL

-----------------------------------------------------------------------------
(* The card of the current node.  What the user chose last is what the     *)
(* loop of this card ends with, what is shown is of the nodes that were    *)
(* fetched, and one chain of tests lives as long as there is a node.       *)

IsLoop(l) == l = [k \in {"here", "running", "waiting"} |-> l[k]] /\ l.here \in BOOLEAN
IsCheck(c) == c = [k \in {"kind", "live", "here", "at", "group", "nodes", "sorts"} |-> c[k]]
IsTimer(t) == t = [k \in {"node", "group", "void"} |-> t[k]] /\ t.void \in BOOLEAN

CardTypes ==
    /\ core = [uid |-> core.uid, now |-> core.now] /\ core.uid \in CardUids
    /\ core.now = [g \in K!ShownGroups |-> core.now[g]]
    /\ kMode \in {"rule", "global", "direct"} /\ kMounted \in BOOLEAN
    /\ stored = [u \in CardUids \cup {""} |-> stored[u]]
    /\ wanted = [u \in CardUids \cup {""} |-> wanted[u]]
    /\ uid \in CardUids \cup {""} /\ data.uid \in CardUids \cup {""}
    /\ timer = K!NoTimer \/ (timer # K!NoTimer /\ IsTimer(timer))
    /\ \A l \in loops : IsLoop(l)

\* The loop of this card ends with the choice whose timer runs, unless it has ended
\* and the core uses the node.
LastOf(l) == IF l.waiting = <<>> THEN l.running ELSE l.waiting[1]
LoopsKept ==
    /\ \A l, m \in loops : l.here /\ m.here => l = m
    /\ ~kMounted => timer = K!NoTimer /\ \A l \in loops : ~l.here
    /\ timer # K!NoTimer /\ ~timer.void =>
        /\ \A l \in loops : l.here => LastOf(l) = [group |-> timer.group, node |-> timer.node]
        /\ (\A l \in loops : ~l.here) => timer.group \in K!ShownGroups /\ core.now[timer.group] = timer.node

\* What the card shows is of the nodes that it has, which are those of the core
\* unless a refresh is under way, or is the last choice.
ShownChoice ==
    /\ \A l \in loops : l.here => LastOf(l) = [group |-> kGroup, node |-> proxy]
    /\ (\A l \in loops : ~l.here) => kGroup \in K!ShownGroups /\ core.now[kGroup] = proxy
ShownKept ==
    /\ ~owed /\ data.uid # "" => data = core
    /\ kMounted /\ data.uid # "" => groups = K!Registered(data, match)
    /\ ~kMounted \/ data.uid = "" => groups = <<>>
    /\ kMounted /\ kMode # "direct" /\ groups # <<>> /\ timer = K!NoTimer /\ ~late
           => proxy = data.now[kGroup] \/ ShownChoice

\* The subscription u has the group that was chosen for it.
Has(u) == wanted[u] # "" /\ K!Named(K!Registered([uid |-> u], CardMatch[u]), wanted[u]) # {}
MemoryKept ==
    /\ \A u \in CardUids \ lost : Has(u) => stored[u] = wanted[u]
    /\ (/\ kMounted /\ kMode = "rule" /\ data.uid # "" /\ uid = data.uid /\ uid \notin lost /\ Has(uid))
           => kGroup = wanted[uid]

ChecksKept ==
    /\ \A c \in checks : IsCheck(c) /\ (c.live => c.here) /\ (c.at = "timer" => c.live)
    /\ \A c, d \in checks : c.live /\ d.live => c = d
    /\ (\E c \in checks : c.live) <=> K!Watching
    /\ busy \in BOOLEAN /\ (busy <=> \E c \in checks : c.at = "test" /\ c.here)
    /\ \A c, d \in checks : c.at = "test" /\ c.here /\ d.at = "test" /\ d.here => c = d

CardInv == CardTypes /\ LoopsKept /\ ShownKept /\ MemoryKept /\ ChecksKept /\ K!ListOrdered

LEMMA RegisteredSame ==
    ASSUME NEW d, NEW e, NEW m, d.uid = e.uid PROVE K!Registered(d, m) = K!Registered(e, m)
  <1>1. K!NodesOf(d.uid) = K!NodesOf(e.uid) /\ CardGroupsOf[d.uid] = CardGroupsOf[e.uid]
    BY Zenon
  <1>2. K!Group(d, m) = K!Group(e, m)
    BY <1>1 DEF K!Group
  <1>3. K!HasGroup(d, m) <=> K!HasGroup(e, m)
    BY <1>1, Zenon DEF K!HasGroup
  <1> QED BY <1>1, <1>2, <1>3 DEF K!Registered

\* Steps after which the card is rendered with what was fetched.
Rendering ==
    K!FetchProxies \/ K!FetchProfiles \/ K!FetchRules
    \/ (\E m \in {"rule", "global", "direct"} : K!FetchMode(m)) \/ K!Return

LEMMA FollowFacts ==
    ASSUME NEW both \in BOOLEAN, K!Follow(both)
    PROVE  /\ UNCHANGED <<sortType, timer, loops, busy, kDelay, tests, wanted>>
           /\ K!Relist /\ K!Rewatch(checks)
           /\ ~kMounted' \/ data'.uid = "" => UNCHANGED <<groups, kGroup, proxy, stored, lost>>
           /\ late' = (late /\ (~kMounted' \/ data'.uid = ""))
  <1>1. ~kMounted' \/ data'.uid = "" => UNCHANGED <<groups, kGroup, proxy, stored, lost>>
    BY Zenon DEF K!Follow
  <1> QED BY <1>1, Zenon DEF K!Follow

LEMMA RenderingFacts ==
    ASSUME CardInv, Rendering
    PROVE  /\ core' = core /\ kMode' \in {"rule", "global", "direct"} /\ kMounted' \in BOOLEAN
           /\ (kMounted => kMounted') /\ uid' \in CardUids \cup {""}
           /\ (data' = data /\ owed' = owed) \/ (data' = core /\ owed' = FALSE)
           /\ \E both \in BOOLEAN : K!Follow(both)
  <1>0. /\ kMode \in {"rule", "global", "direct"} /\ kMounted \in BOOLEAN
        /\ uid \in CardUids \cup {""} /\ core.uid \in CardUids
    BY DEF CardInv, CardTypes
  <1>1. CASE K!FetchProxies
    BY <1>0, <1>1 DEF K!FetchProxies
  <1>2. CASE K!FetchProfiles
    BY <1>0, <1>2 DEF K!FetchProfiles
  <1>3. CASE K!FetchRules
    BY <1>0, <1>3 DEF K!FetchRules
  <1>4. CASE \E m \in {"rule", "global", "direct"} : K!FetchMode(m)
    <2>1. PICK m \in {"rule", "global", "direct"} : K!FetchMode(m)
      BY <1>4
    <2> QED BY <1>0, <2>1 DEF K!FetchMode
  <1>5. CASE K!Return
    BY <1>0, <1>5 DEF K!Return, K!fetched
  <1> QED BY <1>1, <1>2, <1>3, <1>4, <1>5 DEF Rendering

\* What is shown afterwards, and what is remembered.
Initial(st) == K!InitialGroup(data', uid', kMode', st)
LEMMA ShownFacts ==
    ASSUME CardInv, Rendering, kMounted', data'.uid # ""
    PROVE  \/ \E st \in {stored, K!Migrated(stored, uid')} :
                (kMode' # "rule" => st = stored) /\ K!ShowGroups(Initial(st), st)
           \/ /\ K!FetchRules /\ K!ShowGroups(kGroup, stored)
  <1>1. CASE K!FetchProxies \/ K!FetchProfiles \/ (\E m \in {"rule", "global", "direct"} : K!FetchMode(m)) \/ K!Return
    <2>1. K!Follow(TRUE)
      BY <1>1 DEF K!FetchProxies, K!FetchProfiles, K!FetchMode, K!Return
    <2> DEFINE st == IF kMode' = "rule" THEN K!Migrated(stored, uid') ELSE stored
    <2>2. K!ShowGroups(Initial(st), st)
      BY <2>1 DEF K!Follow, Initial
    <2>3. st \in {stored, K!Migrated(stored, uid')} /\ (kMode' # "rule" => st = stored)
      OBVIOUS
    <2> HIDE DEF st
    <2> QED BY <2>2, <2>3
  <1>2. CASE K!FetchRules
    BY <1>2 DEF K!FetchRules, K!Follow
  <1> QED BY <1>1, <1>2 DEF Rendering

\* Tests disturb neither what was fetched, what is shown nor what was chosen.
Testing ==
    K!HandleCheckDelay
    \/ \E c \in checks :
        K!AutoCheck(c) \/ K!Refreshed(c) \/ \E result \in [c.nodes -> CardResults] : K!Answered(c, result)

LEMMA TestingFacts ==
    ASSUME Testing
    PROVE  UNCHANGED <<core, data, uid, kMode, match, stored, sortType, kMounted, groups, kGroup, proxy,
                       timer, loops, owed, wanted, lost, late>>
  <1> DEFINE same == UNCHANGED <<core, data, uid, kMode, match, stored, sortType, kMounted, groups, kGroup,
                                 proxy, timer, loops, owed, wanted, lost, late>>
  <1>1. K!HandleCheckDelay => same
    BY DEF K!HandleCheckDelay, K!Begin, K!fetched, K!view, K!choice, K!notes
  <1>2. ASSUME NEW c \in checks PROVE K!AutoCheck(c) => same
    BY DEF K!AutoCheck, K!Begin, K!fetched, K!view, K!choice, K!notes
  <1>3. ASSUME NEW c \in checks PROVE K!Refreshed(c) => same
    <2>1. K!Refreshed(c) =>
            UNCHANGED <<K!fetched, stored, sortType, kMounted, K!view, K!choice, busy, kDelay, tests, wanted,
                        lost, late, steps>>
      BY Zenon DEF K!Refreshed
    <2> QED BY <2>1 DEF K!fetched, K!view, K!choice
  <1>4. ASSUME NEW c \in checks, NEW result PROVE K!Answered(c, result) => same
    BY DEF K!Answered, K!fetched, K!view, K!choice, K!notes
  <1> HIDE DEF same
  <1>5. same
    BY <1>1, <1>2, <1>3, <1>4, Zenon DEF Testing
  <1> QED BY <1>5 DEF same

LEMMA CardCases ==
    ASSUME K!Next
    PROVE  \/ Rendering \/ Testing \/ K!FetchAgain
           \/ \E u \in CardUids : K!SwitchProfile(u)
           \/ \E i \in 1 .. Len(groups) : K!HandleGroupChange(i)
           \/ \E n \in K!ToSet(options) : K!HandleProxyChange(n)
           \/ K!ShowChoice \/ K!HandleSortTypeChange \/ K!Leave
           \/ \E l \in loops : K!Selected(l) \/ K!Refused(l)
  BY Zenon DEF K!Next, Rendering, Testing

LEMMA NextRequest ==
    ASSUME NEW l, IsLoop(l), NEW r, NEW m, m = [l EXCEPT !.running = r, !.waiting = <<>>]
    PROVE  IsLoop(m) /\ m.here = l.here /\ m.running = r /\ m.waiting = <<>>
  BY DEF IsLoop

\* The loop l takes the request that waits, or ends.
LEMMA TakenFacts ==
    ASSUME CardInv, NEW l \in loops, K!Taken(l)
    PROVE  /\ \E next :
                /\ IsLoop(next) /\ next.here = l.here /\ next.running = l.waiting[1] /\ next.waiting = <<>>
                /\ loops' = (loops \ {l}) \cup IF l.waiting = <<>> THEN {} ELSE {next}
           /\ owed' = TRUE /\ UNCHANGED <<data, uid, kMode, match, stored, sortType, kMounted, groups, kGroup,
                                         proxy, options, wanted, lost, unsorted, checks, busy, kDelay>>
  <1> DEFINE r == l.waiting[1]
             next == [l EXCEPT !.running = r, !.waiting = <<>>]
  <1>1. IsLoop(l)
    BY DEF CardInv, CardTypes
  <1>2. loops' = (loops \ {l}) \cup IF l.waiting = <<>> THEN {} ELSE {next}
    BY DEF K!Taken
  <1>3. IsLoop(next) /\ next.here = l.here /\ next.running = r /\ next.waiting = <<>>
    <2> HIDE DEF r
    <2>1. \A m : m = next => IsLoop(m) /\ m.here = l.here /\ m.running = r /\ m.waiting = <<>>
      BY <1>1, NextRequest
    <2> HIDE DEF next
    <2> QED BY <2>1
  <1>4. owed' = TRUE /\ UNCHANGED <<data, uid, kMode, match, stored, sortType, kMounted, groups, kGroup, proxy,
                                    options, wanted, lost, unsorted, checks, busy, kDelay>>
    BY DEF K!Taken, K!view, K!work
  <1> HIDE DEF next
  <1> QED BY <1>2, <1>3, <1>4

\* The last request of the loop of this card stays, and the loop ends after it.
LEMMA TakenLoops ==
    ASSUME CardInv, NEW l \in loops, K!Taken(l)
    PROVE  /\ \A a, b \in loops' : a.here /\ b.here => a = b
           /\ \A a \in loops' : IsLoop(a)
           /\ \A a \in loops' : a.here => \E b \in loops : b.here /\ LastOf(a) = LastOf(b)
           /\ (\A a \in loops' : ~a.here) => (\A b \in loops : ~b.here) \/ (l.here /\ LastOf(l) = l.running)
           /\ l.here => \A a \in loops' : a.here => l.waiting # <<>>
  <1>1. PICK next : /\ IsLoop(next) /\ next.here = l.here /\ next.running = l.waiting[1] /\ next.waiting = <<>>
                    /\ loops' = (loops \ {l}) \cup IF l.waiting = <<>> THEN {} ELSE {next}
    BY TakenFacts, Zenon
  <1>2. /\ \A a, b \in loops : a.here /\ b.here => a = b
        /\ \A a \in loops : IsLoop(a)
    BY DEF CardInv, LoopsKept, CardTypes
  <1>3. \A a, b \in loops' : a.here /\ b.here => a = b
    BY <1>1, <1>2
  <1>4. \A a \in loops' : IsLoop(a)
    BY <1>1, <1>2
  <1>5. l.waiting # <<>> => LastOf(next) = LastOf(l)
    BY <1>1 DEF LastOf
  <1>6. \A a \in loops' : a.here => \E b \in loops : b.here /\ LastOf(a) = LastOf(b)
    BY <1>1, <1>5
  <1>7. (\A a \in loops' : ~a.here) => (\A b \in loops : ~b.here) \/ (l.here /\ LastOf(l) = l.running)
    BY <1>1 DEF LastOf
  <1>8. l.here => \A a \in loops' : a.here => l.waiting # <<>>
    BY <1>1, <1>2
  <1> QED BY <1>3, <1>4, <1>6, <1>7, <1>8

\* The user chooses another node.
LEMMA ProxyChangeLoops ==
    ASSUME CardInv, NEW n, K!HandleProxyChange(n)
    PROVE  /\ LoopsKept' /\ (\A l \in loops' : IsLoop(l))
           /\ timer' # K!NoTimer /\ IsTimer(timer')
           /\ UNCHANGED <<core, data, uid, kMode, match, stored, sortType, kMounted, groups, kGroup, proxy, options,
                          owed, busy, checks, kDelay, wanted, lost, late, unsorted>>
  <1>1. /\ kMounted /\ K!Requested([group |-> kGroup, node |-> n])
        /\ timer' = [node |-> n, group |-> kGroup, void |-> FALSE]
        /\ UNCHANGED <<core, data, uid, kMode, match, stored, sortType, kMounted, groups, kGroup, proxy, options,
                       owed, busy, checks, kDelay, wanted, lost, late, unsorted>>
    BY DEF K!HandleProxyChange, K!fetched, K!view, K!work, K!notes
  <1> DEFINE r == [group |-> kGroup, node |-> n]
             Replaced(l) == [l EXCEPT !.waiting = <<r>>]
  <1>2. timer'.group = kGroup /\ timer'.node = n /\ timer'.void = FALSE /\ IsTimer(timer')
    BY <1>1 DEF IsTimer
  <1>3. timer' # K!NoTimer
    BY <1>1 DEF K!NoTimer
  <1>4. /\ \A l, m \in loops : l.here /\ m.here => l = m
        /\ \A l \in loops : IsLoop(l)
    BY DEF CardInv, LoopsKept, CardTypes
  <1>5. \A l \in loops : LET m == Replaced(l) IN IsLoop(m) /\ m.here = l.here /\ LastOf(m) = r
    BY <1>4 DEF IsLoop, LastOf
  <1>6. r = [group |-> timer'.group, node |-> timer'.node]
    BY <1>2
  <1>7. CASE \E l \in loops : l.here
    <2>1. loops' = {IF l.here THEN Replaced(l) ELSE l : l \in loops}
      BY <1>1, <1>7, Zenon DEF K!Requested
    <2>2. PICK l \in loops : l.here
      BY <1>7
    <2> DEFINE next == Replaced(l)
    <2>3. IsLoop(next) /\ next.here /\ LastOf(next) = r
      BY <1>5, <2>2, Zenon
    <2> HIDE DEF Replaced, r
    <2>4. next \in loops' /\ \A m \in loops' : m = next \/ (m \in loops /\ ~m.here)
      BY <1>4, <2>1, <2>2
    <2> HIDE DEF next
    <2>5. LoopsKept'
      BY <1>1, <1>2, <1>6, <2>3, <2>4 DEF LoopsKept, LastOf
    <2> QED BY <1>1, <1>2, <1>3, <1>4, <2>3, <2>4, <2>5
  <1>8. CASE ~\E l \in loops : l.here
    <2> DEFINE next == [here |-> TRUE, running |-> r, waiting |-> <<>>]
    <2>1. loops' = loops \cup {next}
      BY <1>1, <1>8, Zenon DEF K!Requested
    <2>2. IsLoop(next) /\ next.here /\ LastOf(next) = r
      BY DEF IsLoop, LastOf
    <2> HIDE DEF next, r
    <2>3. LoopsKept'
      BY <1>1, <1>2, <1>6, <1>8, <2>1, <2>2 DEF LoopsKept, LastOf
    <2> QED BY <1>1, <1>2, <1>3, <1>4, <2>1, <2>2, <2>3
  <1> QED BY <1>7, <1>8

LEMMA GroupShown ==
    ASSUME NEW d, d.uid \in CardUids, NEW name, K!HasGroup(d, name) PROVE name \in K!ShownGroups
  <1>1. CASE name = "GLOBAL"
    BY <1>1 DEF K!ShownGroups
  <1>2. CASE \E x \in K!ToSet(CardGroupsOf[d.uid]) : x.name = name
    <2>1. name \in {x.name : x \in K!ToSet(CardGroupsOf[d.uid])}
      BY <1>2
    <2>2. name \in K!GroupNames
      BY <2>1 DEF K!GroupNames
    <2> QED BY <2>2 DEF K!ShownGroups
  <1> QED BY <1>1, <1>2 DEF K!HasGroup

LEMMA VoidFacts ==
    ASSUME timer = K!NoTimer \/ (timer # K!NoTimer /\ IsTimer(timer)), NEW b \in BOOLEAN, K!Void(b)
    PROVE  /\ timer' = K!NoTimer <=> timer = K!NoTimer
           /\ timer' # K!NoTimer =>
                /\ IsTimer(timer') /\ timer'.group = timer.group /\ timer'.node = timer.node
                /\ ~timer'.void => ~timer.void /\ ~b
           /\ late' = (late \/ (/\ b /\ timer = K!NoTimer /\ kMounted /\ kMode # "direct" /\ groups # <<>>
                                /\ proxy # data.now[kGroup]))
  <1>0. late' = (late \/ (/\ b /\ timer = K!NoTimer /\ kMounted /\ kMode # "direct" /\ groups # <<>>
                          /\ proxy # data.now[kGroup]))
    BY Zenon DEF K!Void
  <1>1. CASE timer = K!NoTimer
    BY <1>0, <1>1 DEF K!Void
  <1>2. CASE timer # K!NoTimer /\ ~b
    BY <1>0, <1>2 DEF K!Void
  <1>3. CASE timer # K!NoTimer /\ b
    <2>1. IsTimer(timer) /\ timer' = [timer EXCEPT !.void = TRUE]
      BY <1>3 DEF K!Void
    <2>2. IsTimer(timer') /\ timer'.group = timer.group /\ timer'.node = timer.node /\ timer'.void
      BY <2>1 DEF IsTimer
    <2>3. timer' # K!NoTimer
      BY <2>2 DEF IsTimer, K!NoTimer
    <2> QED BY <1>0, <1>3, <2>2, <2>3
  <1> QED BY <1>1, <1>2, <1>3

LEMMA SelectedCore ==
    ASSUME CardInv, NEW l \in loops, K!Selected(l)
    PROVE  /\ l.running.group \in K!ShownGroups
           /\ core'.now[l.running.group] = l.running.node
           /\ \A x \in K!ShownGroups \ {l.running.group} : core'.now[x] = core.now[x]
  <1> DEFINE g == l.running.group
             n == l.running.node
  <1>1. core' = [core EXCEPT !.now[g] = n] /\ K!HasGroup(core, g)
    BY DEF K!Selected
  <1>2. /\ core = [uid |-> core.uid, now |-> core.now] /\ core.uid \in CardUids
        /\ core.now = [x \in K!ShownGroups |-> core.now[x]]
    BY DEF CardInv, CardTypes
  <1> HIDE DEF g, n
  <1>3. g \in K!ShownGroups
    BY <1>1, <1>2, GroupShown
  <1>4. core'.now = [core.now EXCEPT ![g] = n]
    BY <1>1, <1>2
  <1>5. core'.now[g] = n /\ \A x \in K!ShownGroups \ {g} : core'.now[x] = core.now[x]
    BY <1>2, <1>3, <1>4
  <1> QED BY <1>3, <1>5 DEF g, n

\* A request of the card is answered: the loop takes the next one.
LEMMA SelectedLoops ==
    ASSUME CardInv, NEW l \in loops, K!Selected(l)
    PROVE  LoopsKept'
  <1> DEFINE g == l.running.group
             n == l.running.node
  <1>1. /\ K!Taken(l) /\ core' = [core EXCEPT !.now[g] = n] /\ K!HasGroup(core, g)
        /\ K!Void(~l.here /\ g = K!Chosen.group)
    BY DEF K!Selected
  <1>2. /\ \A a, b \in loops : a.here /\ b.here => a = b
        /\ \A a \in loops : IsLoop(a)
        /\ ~kMounted => timer = K!NoTimer /\ \A a \in loops : ~a.here
        /\ timer = K!NoTimer \/ (timer # K!NoTimer /\ IsTimer(timer))
        /\ core = [uid |-> core.uid, now |-> core.now]
        /\ core.now = [x \in K!ShownGroups |-> core.now[x]]
    BY DEF CardInv, LoopsKept, CardTypes
  <1>3. g \in K!ShownGroups
    <2> HIDE DEF g
    <2> QED BY <1>1, GroupShown DEF CardInv, CardTypes
  <1>4. core'.now[g] = n /\ \A x \in K!ShownGroups \ {g} : core'.now[x] = core.now[x]
    <2>1. core'.now = [core.now EXCEPT ![g] = n]
      BY <1>1, <1>2
    <2> QED BY <1>2, <1>3, <2>1
  <1>5. /\ timer' = K!NoTimer <=> timer = K!NoTimer
        /\ timer' # K!NoTimer =>
             /\ timer'.group = timer.group /\ timer'.node = timer.node
             /\ ~timer'.void => ~timer.void /\ (l.here \/ timer.group # g)
    BY <1>1, <1>2, VoidFacts DEF K!Chosen
  <1>6. kMounted' = kMounted
    BY <1>1, TakenFacts
  <1>7. ~kMounted' => timer' = K!NoTimer /\ \A a \in loops' : ~a.here
    BY <1>1, <1>2, <1>5, <1>6, TakenLoops
  <1>8. ASSUME timer' # K!NoTimer, ~timer'.void
        PROVE  /\ \A a \in loops' : a.here => LastOf(a) = [group |-> timer'.group, node |-> timer'.node]
               /\ (\A a \in loops' : ~a.here) => timer'.group \in K!ShownGroups /\ core'.now[timer'.group] = timer'.node
    <2>1. /\ \A a \in loops : a.here => LastOf(a) = [group |-> timer.group, node |-> timer.node]
          /\ (\A a \in loops : ~a.here) => timer.group \in K!ShownGroups /\ core.now[timer.group] = timer.node
      BY <1>5, <1>8 DEF CardInv, LoopsKept
    <2>2. \A a \in loops' : a.here => LastOf(a) = [group |-> timer'.group, node |-> timer'.node]
      BY <1>1, <1>5, <1>8, <2>1, TakenLoops
    <2>3. ASSUME \A a \in loops' : ~a.here PROVE timer'.group \in K!ShownGroups /\ core'.now[timer'.group] = timer'.node
      <3>1. CASE l.here
        <4>1. LastOf(l) = l.running
          BY <1>1, <2>3, <3>1, TakenLoops
        <4>2. l.running = [group |-> timer.group, node |-> timer.node]
          BY <2>1, <3>1, <4>1
        <4> QED BY <1>3, <1>4, <1>5, <1>8, <4>2
      <3>2. CASE ~l.here
        <4>1. \A a \in loops : ~a.here
          BY <1>1, <2>3, <3>2, TakenLoops
        <4>2. core.now[timer.group] = timer.node /\ timer.group \in K!ShownGroups /\ timer.group # g
          BY <1>5, <1>8, <2>1, <3>2, <4>1
        <4> QED BY <1>4, <1>5, <1>8, <4>2
      <3> QED BY <3>1, <3>2
    <2> QED BY <2>2, <2>3
  <1> QED BY <1>1, <1>7, <1>8, TakenLoops DEF LoopsKept

LEMMA RefusedLoops ==
    ASSUME CardInv, NEW l \in loops, K!Refused(l)
    PROVE  LoopsKept'
  <1>1. /\ K!Taken(l) /\ core' = core
        /\ K!Void(l.here /\ l.running = K!Chosen)
    BY DEF K!Refused
  <1>2. /\ \A a, b \in loops : a.here /\ b.here => a = b
        /\ ~kMounted => timer = K!NoTimer /\ \A a \in loops : ~a.here
        /\ timer = K!NoTimer \/ (timer # K!NoTimer /\ IsTimer(timer))
        /\ l.here \in BOOLEAN
    BY DEF CardInv, LoopsKept, CardTypes, IsLoop
  <1>3. /\ timer' = K!NoTimer <=> timer = K!NoTimer
        /\ timer' # K!NoTimer =>
             /\ timer'.group = timer.group /\ timer'.node = timer.node
             /\ ~timer'.void =>
                  ~timer.void /\ ~(l.here /\ l.running = [group |-> timer.group, node |-> timer.node])
    BY <1>1, <1>2, VoidFacts DEF K!Chosen
  <1>4. kMounted' = kMounted
    BY <1>1, TakenFacts
  <1>5. ~kMounted' => timer' = K!NoTimer /\ \A a \in loops' : ~a.here
    BY <1>1, <1>2, <1>3, <1>4, TakenLoops
  <1>6. ASSUME timer' # K!NoTimer, ~timer'.void
        PROVE  /\ \A a \in loops' : a.here => LastOf(a) = [group |-> timer'.group, node |-> timer'.node]
               /\ (\A a \in loops' : ~a.here) => timer'.group \in K!ShownGroups /\ core'.now[timer'.group] = timer'.node
    <2>1. /\ \A a \in loops : a.here => LastOf(a) = [group |-> timer.group, node |-> timer.node]
          /\ (\A a \in loops : ~a.here) => timer.group \in K!ShownGroups /\ core.now[timer.group] = timer.node
      BY <1>3, <1>6 DEF CardInv, LoopsKept
    <2>2. \A a \in loops' : a.here => LastOf(a) = [group |-> timer'.group, node |-> timer'.node]
      BY <1>1, <1>3, <1>6, <2>1, TakenLoops
    <2>3. ASSUME l.here, LastOf(l) = l.running PROVE FALSE
      <3>1. l.running = [group |-> timer.group, node |-> timer.node]
        BY <2>1, <2>3
      <3> QED BY <1>3, <1>6, <2>3, <3>1
    <2>4. (\A a \in loops' : ~a.here) => \A a \in loops : ~a.here
      BY <1>1, <2>3, TakenLoops
    <2> QED BY <1>1, <1>3, <1>6, <2>1, <2>2, <2>4
  <1> QED BY <1>1, <1>5, <1>6, TakenLoops DEF LoopsKept

\* The loops and the timer of the card in the steps that make no request.
LEMMA LeaveFacts ==
    ASSUME CardInv, K!Leave
    PROVE  /\ kMounted' = FALSE /\ timer' = K!NoTimer /\ \A l \in loops' : ~l.here /\ IsLoop(l)
           /\ UNCHANGED <<core, data, uid, kMode, match, stored, sortType, owed, kDelay, wanted, lost>>
           /\ groups' = <<>> /\ kGroup' = "" /\ proxy' = K!None /\ busy' = FALSE
           /\ checks' = {[c EXCEPT !.here = FALSE] : c \in K!Dispose(checks)}
  <1>1. /\ loops' = {[l EXCEPT !.here = FALSE] : l \in loops}
        /\ \A l \in loops : IsLoop(l)
    BY DEF K!Leave, CardInv, CardTypes
  <1>2. \A l \in loops' : ~l.here /\ IsLoop(l)
    BY <1>1 DEF IsLoop
  <1>3. UNCHANGED <<core, data, uid, kMode, match, stored, sortType, owed, kDelay, wanted, lost>>
    BY DEF K!Leave, K!fetched
  <1> QED BY <1>2, <1>3, Zenon DEF K!Leave

LEMMA SwitchFacts ==
    ASSUME CardInv, NEW u \in CardUids, K!SwitchProfile(u)
    PROVE  /\ core' = K!Fresh(u) /\ owed' = TRUE /\ K!Void(TRUE)
           /\ UNCHANGED <<data, uid, kMode, match, stored, sortType, kMounted, groups, kGroup, proxy, options,
                          loops, busy, checks, kDelay, wanted, lost, unsorted>>
  BY DEF K!SwitchProfile, K!view, K!work

\* The nodes are those that are known already.
LEMMA AgainFacts ==
    ASSUME K!FetchAgain
    PROVE  /\ data = core /\ owed' = FALSE
           /\ UNCHANGED <<core, data, uid, kMode, match, stored, sortType, kMounted, groups, kGroup, proxy, options,
                          timer, loops, busy, checks, kDelay, wanted, lost, late, unsorted>>
  BY DEF K!FetchAgain, K!fetched, K!view, K!work, K!notes

LEMMA LoopsStep == ASSUME CardInv, K!Next PROVE LoopsKept'
  <1>0. /\ \A l, m \in loops : l.here /\ m.here => l = m
        /\ ~kMounted => timer = K!NoTimer /\ \A l \in loops : ~l.here
        /\ timer = K!NoTimer \/ (timer # K!NoTimer /\ IsTimer(timer))
    BY DEF CardInv, CardTypes, LoopsKept
  <1>1. CASE Rendering
    <2>1. core' = core /\ UNCHANGED <<timer, loops>> /\ (kMounted => kMounted')
      BY <1>1, RenderingFacts, FollowFacts
    <2> QED BY <2>1 DEF CardInv, LoopsKept
  <1>2. CASE Testing
    BY <1>2, TestingFacts DEF CardInv, LoopsKept
  <1>3. ASSUME NEW u \in CardUids, K!SwitchProfile(u) PROVE LoopsKept'
    <2>1. timer' = K!NoTimer \/ (timer' # K!NoTimer /\ timer'.void)
      BY <1>0, <1>3, SwitchFacts, VoidFacts
    <2>2. timer = K!NoTimer => timer' = K!NoTimer
      BY <1>0, <1>3, SwitchFacts, VoidFacts
    <2> QED BY <1>0, <1>3, <2>1, <2>2, SwitchFacts DEF LoopsKept
  <1>4. ASSUME NEW i \in 1 .. Len(groups), K!HandleGroupChange(i) PROVE LoopsKept'
    <2>1. UNCHANGED <<core, timer, loops, kMounted>>
      BY <1>4 DEF K!HandleGroupChange, K!fetched, K!choice
    <2> QED BY <2>1 DEF CardInv, LoopsKept
  <1>5. ASSUME NEW n, K!HandleProxyChange(n) PROVE LoopsKept'
    BY <1>5, ProxyChangeLoops
  <1>6. CASE K!ShowChoice
    <2>1. UNCHANGED <<loops, kMounted>> /\ timer' = K!NoTimer
      BY <1>6 DEF K!ShowChoice
    <2> QED BY <1>0, <2>1 DEF LoopsKept
  <1>7. CASE K!HandleSortTypeChange
    <2>1. UNCHANGED <<core, timer, loops, kMounted>>
      BY <1>7 DEF K!HandleSortTypeChange, K!fetched, K!choice
    <2> QED BY <2>1 DEF CardInv, LoopsKept
  <1>8. CASE K!Leave
    BY <1>8, LeaveFacts DEF LoopsKept
  <1>9. ASSUME NEW l \in loops, K!Selected(l) \/ K!Refused(l) PROVE LoopsKept'
    BY <1>9, SelectedLoops, RefusedLoops
  <1>10. CASE K!FetchAgain
    BY <1>10, AgainFacts DEF CardInv, LoopsKept
  <1> QED BY <1>1, <1>2, <1>3, <1>4, <1>5, <1>6, <1>7, <1>8, <1>9, <1>10, CardCases

LEMMA ShowFacts ==
    ASSUME NEW g, NEW st, K!ShowGroups(g, st)
    PROVE  /\ groups' = K!Registered(data', match')
           /\ kMode' # "direct" /\ groups' # <<>> => proxy' = data'.now[kGroup']
  <1>1. CASE kMode' = "direct"
    BY <1>1 DEF K!ShowGroups
  <1>2. CASE kMode' = "global"
    BY <1>2 DEF K!ShowGroups
  <1>3. CASE kMode' # "direct" /\ kMode' # "global"
    BY <1>3 DEF K!ShowGroups
  <1> QED BY <1>1, <1>2, <1>3

LEMMA ShownStep == ASSUME CardInv, K!Next PROVE ShownKept'
  <1> DEFINE Right == /\ kMounted /\ kMode # "direct" /\ groups # <<>> /\ timer = K!NoTimer /\ ~late
                         => proxy = data.now[kGroup] \/ ShownChoice
  <1>0. /\ ~owed /\ data.uid # "" => data = core
        /\ kMounted /\ data.uid # "" => groups = K!Registered(data, match)
        /\ ~kMounted \/ data.uid = "" => groups = <<>>
        /\ Right
    BY DEF CardInv, ShownKept
  <1>1. CASE Rendering
    <2>1. /\ core' = core /\ UNCHANGED <<timer, loops>> /\ (kMounted => kMounted')
          /\ (data' = data /\ owed' = owed) \/ (data' = core /\ owed' = FALSE)
      BY <1>1, RenderingFacts, FollowFacts
    <2>2. ~owed' /\ data'.uid # "" => data' = core'
      <3>1. CASE data' = data /\ owed' = owed
        BY <1>0, <2>1, <3>1, Zenon
      <3>2. CASE data' = core /\ owed' = FALSE
        BY <2>1, <3>2
      <3> QED BY <2>1, <3>1, <3>2
    <2>3. ASSUME kMounted', data'.uid # ""
          PROVE  /\ groups' = K!Registered(data', match')
                 /\ kMode' # "direct" /\ groups' # <<>> => proxy' = data'.now[kGroup']
      <3>1. \/ \E st \in {stored, K!Migrated(stored, uid')} : K!ShowGroups(Initial(st), st)
            \/ K!ShowGroups(kGroup, stored)
        BY <1>1, <2>3, ShownFacts, Zenon
      <3>2. PICK g, st : K!ShowGroups(g, st)
        BY <3>1, Zenon
      <3> QED BY <3>2, ShowFacts, Zenon
    <2>4. ASSUME ~kMounted' \/ data'.uid = "" PROVE groups' = <<>>
      <3>1. groups' = groups
        BY <1>1, <2>4, RenderingFacts, FollowFacts
      <3>2. ~kMounted \/ data.uid = ""
        BY <2>1, <2>4, CardAssumption DEF CardInv, CardTypes
      <3> QED BY <1>0, <3>1, <3>2
    <2> QED BY <2>2, <2>3, <2>4 DEF ShownKept
  <1>2. CASE Testing
    <2>1. UNCHANGED <<core, data, match, owed, timer, loops, kMode, kMounted, groups, kGroup, proxy, late>>
      BY <1>2, TestingFacts
    <2> QED BY <1>0, <2>1 DEF ShownKept, ShownChoice
  <1>3. ASSUME NEW u \in CardUids, K!SwitchProfile(u) PROVE ShownKept'
    <2>1. /\ owed' = TRUE /\ UNCHANGED <<data, kMode, match, kMounted, groups, kGroup, proxy, loops>>
          /\ timer' = K!NoTimer => timer = K!NoTimer
          /\ late' = (late \/ (/\ timer = K!NoTimer /\ kMounted /\ kMode # "direct" /\ groups # <<>>
                               /\ proxy # data.now[kGroup]))
      BY <1>3, SwitchFacts, VoidFacts DEF CardInv, CardTypes
    <2> QED BY <1>0, <2>1 DEF ShownKept
  <1>4. ASSUME NEW i \in 1 .. Len(groups), K!HandleGroupChange(i) PROVE ShownKept'
    <2>1. UNCHANGED <<core, data, match, owed, timer, loops, kMode, kMounted, groups>> /\ proxy' = data.now[kGroup']
      BY <1>4 DEF K!HandleGroupChange, K!fetched, K!choice
    <2> QED BY <1>0, <2>1 DEF ShownKept
  <1>5. ASSUME NEW n, K!HandleProxyChange(n) PROVE ShownKept'
    BY <1>0, <1>5, ProxyChangeLoops DEF ShownKept
  <1>6. CASE K!ShowChoice
    <2>1. /\ UNCHANGED <<core, data, match, owed, loops, kMode, kMounted, groups, kGroup>>
          /\ timer # K!NoTimer /\ proxy' = timer.node
          /\ ~late' => timer.group = kGroup /\ ~timer.void
      BY <1>6 DEF K!ShowChoice, K!fetched
    <2>2. ~late' => ShownChoice'
      BY <2>1 DEF CardInv, LoopsKept, ShownChoice
    <2> QED BY <1>0, <2>1, <2>2 DEF ShownKept
  <1>7. CASE K!HandleSortTypeChange
    <2>1. UNCHANGED <<core, data, match, owed, timer, loops, kMode, kMounted, groups, kGroup, proxy, late>>
      BY <1>7 DEF K!HandleSortTypeChange, K!fetched, K!choice, K!view
    <2> QED BY <1>0, <2>1 DEF ShownKept, ShownChoice
  <1>8. CASE K!Leave
    BY <1>0, <1>8, LeaveFacts DEF ShownKept
  <1>9. ASSUME NEW l \in loops, K!Selected(l) \/ K!Refused(l) PROVE ShownKept'
    <2>1. K!Taken(l) /\ IsLoop(l) /\ (timer = K!NoTimer \/ (timer # K!NoTimer /\ IsTimer(timer)))
      BY <1>9 DEF K!Selected, K!Refused, CardInv, CardTypes
    <2>2. owed' = TRUE /\ UNCHANGED <<data, match, kMode, kMounted, groups, kGroup, proxy>>
      BY <2>1, TakenFacts
    <2>3. ASSUME kMounted, kMode # "direct", groups # <<>>, timer' = K!NoTimer, ~late', proxy # data.now[kGroup]
          PROVE  ShownChoice'
      <3>1. timer = K!NoTimer /\ ~late
        BY <1>9, <2>1, <2>3, VoidFacts DEF K!Selected, K!Refused, IsLoop
      <3>2. ShownChoice /\ K!Chosen = [group |-> kGroup, node |-> proxy]
        BY <1>0, <2>2, <2>3, <3>1 DEF K!Chosen
      <3>3. \A a \in loops' : a.here => LastOf(a) = [group |-> kGroup, node |-> proxy]
        BY <2>1, <3>2, TakenLoops DEF ShownChoice
      <3>4. ASSUME \A a \in loops' : ~a.here
            PROVE  \/ (\A a \in loops : ~a.here) /\ kGroup \in K!ShownGroups /\ core.now[kGroup] = proxy
                   \/ l.here /\ l.running = [group |-> kGroup, node |-> proxy]
        BY <2>1, <3>2, <3>4, TakenLoops DEF ShownChoice
      <3>5. CASE K!Selected(l)
        <4>1. K!Void(~l.here /\ l.running.group = kGroup)
          BY <3>2, <3>5 DEF K!Selected
        <4>2. l.here \/ l.running.group # kGroup
          BY <2>1, <2>3, <3>1, <4>1, VoidFacts
        <4>3. /\ l.running.group \in K!ShownGroups
              /\ core'.now[l.running.group] = l.running.node
              /\ \A x \in K!ShownGroups \ {l.running.group} : core'.now[x] = core.now[x]
          BY <3>5, SelectedCore
        <4> QED BY <2>2, <3>3, <3>4, <4>2, <4>3 DEF ShownChoice
      <3>6. CASE K!Refused(l)
        <4>1. K!Void(l.here /\ l.running = [group |-> kGroup, node |-> proxy]) /\ core' = core
          BY <3>2, <3>6 DEF K!Refused
        <4>2. ~(l.here /\ l.running = [group |-> kGroup, node |-> proxy])
          BY <2>1, <2>3, <3>1, <4>1, VoidFacts DEF IsLoop
        <4> QED BY <2>2, <3>3, <3>4, <4>1, <4>2 DEF ShownChoice
      <3> QED BY <1>9, <3>5, <3>6
    <2> QED BY <1>0, <2>2, <2>3 DEF ShownKept
  <1>10. CASE K!FetchAgain
    <2>1. /\ data = core
          /\ UNCHANGED <<core, data, match, kMode, kMounted, groups, kGroup, proxy, timer, loops, late>>
      BY <1>10, AgainFacts
    <2>2. ShownChoice => ShownChoice'
      BY <2>1 DEF ShownChoice
    <2> QED BY <1>0, <2>1, <2>2 DEF ShownKept
  <1> QED BY <1>1, <1>2, <1>3, <1>4, <1>5, <1>6, <1>7, <1>8, <1>9, <1>10, CardCases

\* The list depends on nothing that the other steps disturb.
LEMMA SameList ==
    ASSUME UNCHANGED <<data, kMode, groups, kGroup, sortType, kDelay>> PROVE K!Listed' = K!Listed
  BY Zenon DEF K!Listed

LEMMA SameOrder ==
    ASSUME K!ListOrdered, UNCHANGED <<data, kMode, groups, kGroup, sortType, kDelay, kMounted, options, unsorted>>,
           (\A c \in checks' : c.at = "timer") => \A c \in checks : c.at = "timer"
    PROVE  K!ListOrdered'
  BY SameList DEF K!ListOrdered

LEMMA Relisted == K!Relist => K!ListOrdered'
  BY DEF K!Relist, K!ListOrdered

LEMMA DisposeFacts ==
    ASSUME \A c \in checks : IsCheck(c)
    PROVE  /\ \A d \in K!Dispose(checks) : \E c \in checks :
                /\ d = [c EXCEPT !.live = FALSE] /\ IsCheck(d) /\ c.at # "timer"
                /\ d.at = c.at /\ d.here = c.here /\ d.live = FALSE
           /\ \A c \in checks : c.at # "timer" =>
                \E d \in K!Dispose(checks) : d.at = c.at /\ d.here = c.here
  <1> DEFINE Ended(c) == [c EXCEPT !.live = FALSE]
  <1>1. \A c \in checks : LET d == Ended(c) IN
            d.at = c.at /\ d.here = c.here /\ d.live = FALSE /\ IsCheck(d)
    BY DEF IsCheck
  <1>2. K!Dispose(checks) = {Ended(c) : c \in {d \in checks : d.at # "timer"}}
    BY Zenon DEF K!Dispose
  <1>3. \A c \in checks : Ended(c) = [c EXCEPT !.live = FALSE]
    OBVIOUS
  <1> HIDE DEF Ended
  <1> QED BY <1>1, <1>2, <1>3

LEMMA RewatchKeeps ==
    ASSUME CardInv, K!Rewatch(checks), \A c \in checks' : c.at = "timer"
    PROVE  \A c \in checks : c.at = "timer"
  <1> SUFFICES ASSUME NEW c \in checks, c.at # "timer" PROVE FALSE
    OBVIOUS
  <1>1. CASE K!Watched' = K!Watched
    BY <1>1 DEF K!Rewatch
  <1>2. CASE K!Watched' # K!Watched
    <2>1. PICK d \in K!Dispose(checks) : d.at = c.at
      BY DisposeFacts DEF CardInv, ChecksKept
    <2>2. d \in checks'
      BY <1>2, <2>1 DEF K!Rewatch
    <2> QED BY <2>1, <2>2
  <1> QED BY <1>1, <1>2

\* A test begins.
LEMMA BeginFacts ==
    ASSUME NEW rest, NEW c, IsCheck(c), NEW name, NEW nodes, K!Begin(rest, c, name, nodes)
    PROVE  /\ ~busy /\ busy' = TRUE
           /\ \E d : /\ IsCheck(d) /\ d.at = "test" /\ d.here = c.here /\ d.live = c.live
                    /\ checks' = rest \cup {d}
  <1>1. PICK d : d = [c EXCEPT !.at = "test", !.group = name, !.nodes = nodes]
    OBVIOUS
  <1>2. checks' = rest \cup {d} /\ ~busy /\ busy' = TRUE
    BY <1>1, Zenon DEF K!Begin
  <1>3. IsCheck(d) /\ d.at = "test" /\ d.here = c.here /\ d.live = c.live
    BY <1>1 DEF IsCheck
  <1> QED BY <1>2, <1>3, Zenon

LEMMA AskedCheck ==
    ASSUME NEW d, d = [K!Chain EXCEPT !.kind = "manual", !.live = FALSE, !.sorts = TRUE]
    PROVE  IsCheck(d) /\ d.here /\ d.live = FALSE
  BY DEF K!Chain, IsCheck

LEMMA ListStep == ASSUME CardInv, K!Next PROVE K!ListOrdered'
  <1>0. K!ListOrdered
    BY DEF CardInv
  <1>1. CASE Rendering
    BY <1>1, RenderingFacts, FollowFacts, Relisted
  <1>2. ASSUME NEW rest, NEW c, IsCheck(c), NEW name, NEW nodes, K!Begin(rest, c, name, nodes)
        PROVE  K!ListOrdered'
    <2>1. \E d \in checks' : d.at = "test"
      BY <1>2, BeginFacts
    <2> QED BY <2>1 DEF K!ListOrdered
  <1>3. ASSUME NEW c \in checks, K!Refreshed(c) PROVE K!ListOrdered'
    <2>1. CASE c.here /\ c.sorts
      BY <1>3, <2>1, Relisted DEF K!Refreshed
    <2>2. CASE ~(c.here /\ c.sorts)
      BY <1>3, <2>2 DEF K!Refreshed, K!ListOrdered
    <2> QED BY <2>1, <2>2
  <1>4. ASSUME NEW c \in checks, NEW result, K!Answered(c, result) PROVE K!ListOrdered'
    <2> DEFINE d == [c EXCEPT !.at = "refresh"]
    <2>1. d \in checks'
      BY <1>4 DEF K!Answered
    <2>2. d.at = "refresh"
      BY DEF CardInv, ChecksKept, IsCheck
    <2> QED BY <2>1, <2>2 DEF K!ListOrdered
  <1>5. ASSUME NEW u \in CardUids, K!SwitchProfile(u) PROVE K!ListOrdered'
    <2>1. UNCHANGED <<data, kMode, groups, kGroup, sortType, kDelay, kMounted, options, unsorted, checks>>
      BY <1>5, SwitchFacts
    <2> QED BY <1>0, <2>1, SameOrder
  <1>6. ASSUME NEW i \in 1 .. Len(groups), K!HandleGroupChange(i) PROVE K!ListOrdered'
    BY <1>6, Relisted DEF K!HandleGroupChange
  <1>7. ASSUME NEW n, K!HandleProxyChange(n) PROVE K!ListOrdered'
    BY <1>0, <1>7, ProxyChangeLoops, SameOrder
  <1>8. CASE K!ShowChoice
    <2>1. /\ K!Rewatch(checks)
          /\ UNCHANGED <<data, kMode, groups, kGroup, sortType, kDelay, kMounted, options, unsorted>>
      BY <1>8 DEF K!ShowChoice, K!fetched
    <2> QED BY <1>0, <2>1, RewatchKeeps, SameOrder
  <1>9. CASE K!HandleSortTypeChange
    BY <1>9, Relisted DEF K!HandleSortTypeChange
  <1>10. CASE K!Leave
    BY <1>10, LeaveFacts DEF K!ListOrdered
  <1>11. ASSUME NEW l \in loops, K!Selected(l) \/ K!Refused(l) PROVE K!ListOrdered'
    <2>1. K!Taken(l)
      BY <1>11 DEF K!Selected, K!Refused
    <2> QED BY <1>0, <2>1, TakenFacts, SameOrder
  <1>12. CASE Testing
    <2>1. CASE K!HandleCheckDelay
      <3>1. PICK d : d = [K!Chain EXCEPT !.kind = "manual", !.live = FALSE, !.sorts = TRUE]
        OBVIOUS
      <3>2. \E name, nodes : K!Begin(checks, d, name, nodes)
        BY <2>1, <3>1, Zenon DEF K!HandleCheckDelay
      <3> QED BY <1>2, <3>1, <3>2, AskedCheck
    <2>2. ASSUME NEW c \in checks, K!AutoCheck(c) PROVE K!ListOrdered'
      <3>1. PICK d : d = [c EXCEPT !.sorts = sortType = 1]
        OBVIOUS
      <3>2. K!Begin(checks \ {c}, d, kGroup, {proxy})
        BY <2>2, <3>1, Zenon DEF K!AutoCheck
      <3>3. IsCheck(d)
        BY <3>1 DEF CardInv, ChecksKept, IsCheck
      <3> QED BY <1>2, <3>2, <3>3
    <2> QED BY <1>3, <1>4, <1>12, <2>1, <2>2 DEF Testing
  <1>13. CASE K!FetchAgain
    BY <1>0, <1>13, AgainFacts, SameOrder
  <1> QED BY <1>1, <1>5, <1>6, <1>7, <1>8, <1>9, <1>10, <1>11, <1>12, <1>13, CardCases

LEMMA NewChain ==
    /\ IsCheck(K!Chain) /\ K!Chain.live = TRUE /\ K!Chain.here = TRUE /\ K!Chain.at = "timer"
  BY DEF K!Chain, IsCheck

\* The chains after the effect of the chain, when the other state of the tests stays.
LEMMA RewatchChecks ==
    ASSUME CardInv, K!Rewatch(checks), busy' = busy
    PROVE  ChecksKept'
  <1>0. /\ \A c \in checks : IsCheck(c) /\ (c.live => c.here) /\ (c.at = "timer" => c.live)
        /\ \A c, d \in checks : c.live /\ d.live => c = d
        /\ (\E c \in checks : c.live) <=> K!Watching
        /\ busy \in BOOLEAN /\ (busy <=> \E c \in checks : c.at = "test" /\ c.here)
        /\ \A c, d \in checks : c.at = "test" /\ c.here /\ d.at = "test" /\ d.here => c = d
    BY DEF CardInv, ChecksKept
  <1>1. CASE K!Watched' = K!Watched
    <2>1. checks' = checks
      BY <1>1 DEF K!Rewatch
    <2>2. K!Watching' <=> K!Watching
      BY <1>1 DEF K!Watched, K!Watching
    <2> QED BY <1>0, <2>1, <2>2 DEF ChecksKept
  <1>2. CASE K!Watched' # K!Watched
    <2> DEFINE old == K!Dispose(checks)
    <2>1. checks' = old \cup IF K!Watching' THEN {K!Chain} ELSE {}
      BY <1>2 DEF K!Rewatch
    <2>2. /\ \A d \in old : \E c \in checks :
               /\ d = [c EXCEPT !.live = FALSE] /\ IsCheck(d) /\ c.at # "timer"
               /\ d.at = c.at /\ d.here = c.here /\ d.live = FALSE
          /\ \A c \in checks : c.at # "timer" => \E d \in old : d.at = c.at /\ d.here = c.here
      BY <1>0, DisposeFacts
    <2>3. \A d, e \in old : d.at = "test" /\ d.here /\ e.at = "test" /\ e.here => d = e
      <3> SUFFICES ASSUME NEW d \in old, NEW e \in old, d.at = "test", d.here, e.at = "test", e.here
                   PROVE  d = e
        OBVIOUS
      <3>1. PICK c \in checks : d = [c EXCEPT !.live = FALSE] /\ d.at = c.at /\ d.here = c.here
        BY <2>2, Zenon
      <3>2. PICK b \in checks : e = [b EXCEPT !.live = FALSE] /\ e.at = b.at /\ e.here = b.here
        BY <2>2, Zenon
      <3>3. c = b
        BY <1>0, <3>1, <3>2
      <3> QED BY <3>1, <3>2, <3>3, Zenon
    <2> HIDE DEF old
    <2>4. \A c \in checks' : IsCheck(c) /\ (c.live => c.here) /\ (c.at = "timer" => c.live)
      BY <2>1, <2>2, NewChain
    <2>5. \A c, d \in checks' : c.live /\ d.live => c = d
      BY <2>1, <2>2, NewChain
    <2>6. (\E c \in checks' : c.live) <=> K!Watching'
      BY <2>1, <2>2, NewChain
    <2>7. busy' <=> \E c \in checks' : c.at = "test" /\ c.here
      <3>1. (\E c \in checks : c.at = "test" /\ c.here) <=> \E c \in old : c.at = "test" /\ c.here
        BY <2>2
      <3>2. (\E c \in checks' : c.at = "test" /\ c.here) <=> \E c \in old : c.at = "test" /\ c.here
        BY <2>1, NewChain
      <3> QED BY <1>0, <3>1, <3>2
    <2>8. \A c, d \in checks' : c.at = "test" /\ c.here /\ d.at = "test" /\ d.here => c = d
      BY <2>1, <2>3, NewChain
    <2> QED BY <1>0, <2>4, <2>5, <2>6, <2>7, <2>8 DEF ChecksKept
  <1> QED BY <1>1, <1>2

LEMMA SameChecks ==
    ASSUME CardInv, UNCHANGED <<checks, busy, kMode, kMounted, kGroup, proxy>> PROVE ChecksKept'
  BY DEF CardInv, ChecksKept, K!Watching

LEMMA LeaveChecks == ASSUME CardInv, K!Leave PROVE ChecksKept'
  <1>0. \A c \in checks : IsCheck(c)
    BY DEF CardInv, ChecksKept
  <1>1. checks' = {[c EXCEPT !.here = FALSE] : c \in K!Dispose(checks)} /\ kMounted' = FALSE /\ busy' = FALSE
    BY LeaveFacts
  <1>2. \A d \in K!Dispose(checks) : IsCheck(d) /\ d.live = FALSE /\ d.at # "timer"
    BY <1>0, DisposeFacts
  <1>3. \A d \in checks' : IsCheck(d) /\ d.live = FALSE /\ d.here = FALSE /\ d.at # "timer"
    BY <1>1, <1>2 DEF IsCheck
  <1> QED BY <1>1, <1>3 DEF ChecksKept, K!Watching

LEMMA TestingWatches == Testing => (K!Watching' <=> K!Watching)
  BY TestingFacts DEF K!Watching

LEMMA ChecksStep == ASSUME CardInv, K!Next PROVE ChecksKept'
  <1>0. /\ \A c \in checks : IsCheck(c) /\ (c.live => c.here) /\ (c.at = "timer" => c.live)
        /\ \A c, d \in checks : c.live /\ d.live => c = d
        /\ (\E c \in checks : c.live) <=> K!Watching
        /\ busy \in BOOLEAN /\ (busy <=> \E c \in checks : c.at = "test" /\ c.here)
        /\ \A c, d \in checks : c.at = "test" /\ c.here /\ d.at = "test" /\ d.here => c = d
    BY DEF CardInv, ChecksKept
  <1>1. CASE Rendering
    BY <1>1, RenderingFacts, FollowFacts, RewatchChecks
  <1>2. ASSUME NEW u \in CardUids, K!SwitchProfile(u) PROVE ChecksKept'
    BY <1>2, SwitchFacts, SameChecks
  <1>3. ASSUME NEW i \in 1 .. Len(groups), K!HandleGroupChange(i) PROVE ChecksKept'
    BY <1>3, RewatchChecks DEF K!HandleGroupChange
  <1>4. ASSUME NEW n, K!HandleProxyChange(n) PROVE ChecksKept'
    BY <1>4, ProxyChangeLoops, SameChecks
  <1>5. CASE K!ShowChoice
    BY <1>5, RewatchChecks DEF K!ShowChoice
  <1>6. CASE K!HandleSortTypeChange
    BY <1>6, RewatchChecks DEF K!HandleSortTypeChange
  <1>7. CASE K!Leave
    BY <1>7, LeaveChecks
  <1>8. ASSUME NEW l \in loops, K!Selected(l) \/ K!Refused(l) PROVE ChecksKept'
    <2>1. K!Taken(l)
      BY <1>8 DEF K!Selected, K!Refused
    <2> QED BY <2>1, TakenFacts, SameChecks
  <1>9. ASSUME K!HandleCheckDelay PROVE ChecksKept'
    <2>1. PICK c : c = [K!Chain EXCEPT !.kind = "manual", !.live = FALSE, !.sorts = TRUE]
      OBVIOUS
    <2>2. PICK name, nodes : K!Begin(checks, c, name, nodes)
      BY <1>9, <2>1, Zenon DEF K!HandleCheckDelay
    <2>3. IsCheck(c) /\ c.here /\ c.live = FALSE
      BY <2>1, AskedCheck
    <2>4. PICK d : /\ IsCheck(d) /\ d.at = "test" /\ d.here = c.here /\ d.live = c.live
                   /\ checks' = checks \cup {d} /\ ~busy /\ busy' = TRUE
      BY <2>2, <2>3, BeginFacts
    <2>5. K!Watching' <=> K!Watching
      <3>1. Testing
        BY <1>9 DEF Testing
      <3> QED BY <3>1, TestingWatches
    <2> QED BY <1>0, <2>3, <2>4, <2>5 DEF ChecksKept
  <1>10. ASSUME NEW c \in checks, K!AutoCheck(c) PROVE ChecksKept'
    <2>1. PICK b : b = [c EXCEPT !.sorts = sortType = 1]
      OBVIOUS
    <2>2. K!Begin(checks \ {c}, b, kGroup, {proxy}) /\ c.at = "timer"
      BY <1>10, <2>1, Zenon DEF K!AutoCheck
    <2>3. IsCheck(b) /\ b.here = c.here /\ b.live = c.live
      BY <1>0, <2>1 DEF IsCheck
    <2>4. PICK d : /\ IsCheck(d) /\ d.at = "test" /\ d.here = c.here /\ d.live = c.live
                   /\ checks' = (checks \ {c}) \cup {d} /\ ~busy /\ busy' = TRUE
      BY <2>2, <2>3, BeginFacts
    <2>5. K!Watching' <=> K!Watching
      <3>1. Testing
        BY <1>10 DEF Testing
      <3> QED BY <3>1, TestingWatches
    <2>6. c.live /\ c.here
      BY <1>0, <2>2
    <2> QED BY <1>0, <2>4, <2>5, <2>6 DEF ChecksKept
  <1>11. ASSUME NEW c \in checks, NEW result \in [c.nodes -> CardResults], K!Answered(c, result) PROVE ChecksKept'
    <2> DEFINE d == [c EXCEPT !.at = "refresh"]
    <2>1. checks' = (checks \ {c}) \cup {d} /\ busy' = (busy /\ ~c.here) /\ c.at = "test"
      BY <1>11 DEF K!Answered
    <2>2. IsCheck(d) /\ d.at = "refresh" /\ d.here = c.here /\ d.live = c.live
      BY <1>0 DEF IsCheck
    <2>3. K!Watching' <=> K!Watching
      <3>1. Testing
        BY <1>11 DEF Testing
      <3> QED BY <3>1, TestingWatches
    <2> HIDE DEF d
    <2>4. busy' <=> \E b \in checks' : b.at = "test" /\ b.here
      BY <1>0, <2>1, <2>2
    <2> QED BY <1>0, <2>1, <2>2, <2>3, <2>4 DEF ChecksKept
  <1>12. ASSUME NEW c \in checks, K!Refreshed(c) PROVE ChecksKept'
    <2>1. checks' = (checks \ {c}) \cup (IF c.live THEN {K!Chain} ELSE {}) /\ busy' = busy /\ c.at = "refresh"
      BY <1>12, Zenon DEF K!Refreshed
    <2>2. K!Watching' <=> K!Watching
      <3>1. Testing
        BY <1>12 DEF Testing
      <3> QED BY <3>1, TestingWatches
    <2> QED BY <1>0, <2>1, <2>2, NewChain DEF ChecksKept
  <1>13. CASE Testing
    BY <1>9, <1>10, <1>11, <1>12, <1>13 DEF Testing
  <1>14. CASE K!FetchAgain
    BY <1>14, AgainFacts, SameChecks
  <1> QED BY <1>1, <1>2, <1>3, <1>4, <1>5, <1>6, <1>7, <1>8, <1>13, <1>14, CardCases

\* A value that is remembered for one subscription disturbs no other one.
IsMemory(st) == st = [u \in CardUids \cup {""} |-> st[u]]
LEMMA MigratedFacts ==
    ASSUME NEW st, IsMemory(st), NEW u \in CardUids \cup {""}
    PROVE  LET m == K!Migrated(st, u) IN
             /\ IsMemory(m) /\ \A v \in CardUids : v # u => m[v] = st[v]
             /\ st[u] # "" => m = st
  <1> DEFINE m == K!Migrated(st, u)
  <1>1. CASE u # "" /\ st[u] = ""
    <2>1. m = [st EXCEPT ![u] = st[""], ![""] = ""]
      BY <1>1 DEF K!Migrated
    <2> HIDE DEF m
    <2>2. IsMemory(m) /\ \A v \in CardUids : v # u => m[v] = st[v]
      BY <2>1, CardAssumption DEF IsMemory
    <2> QED BY <1>1, <2>2 DEF m
  <1>2. CASE ~(u # "" /\ st[u] = "")
    <2>1. m = st
      BY <1>2, Zenon DEF K!Migrated
    <2> HIDE DEF m
    <2>2. IsMemory(m) /\ \A v \in CardUids : v # u => m[v] = st[v]
      BY <2>1
    <2> QED BY <2>1, <2>2 DEF m
  <1> QED BY <1>1, <1>2

\* The groups that are shown, from what was remembered.
LEMMA ShowMemory ==
    ASSUME NEW g, NEW st, IsMemory(st), K!ShowGroups(g, st), uid' \in CardUids \cup {""}, wanted' = wanted,
           kMounted', data'.uid # "",
           \A u \in CardUids \ lost : Has(u) => st[u] = wanted[u],
           kMode' = "rule" /\ uid' = data'.uid /\ uid' \notin lost /\ Has(uid') => g = wanted[uid']
    PROVE  MemoryKept' /\ IsMemory(stored')
  <1> DEFINE gs == K!Registered(data', match')
  <1>0. \A u : Has(u)' <=> Has(u)
    BY DEF Has
  <1>1. CASE stored' = st /\ lost' = lost /\ (kMode' = "rule" => kGroup' = g)
    BY <1>0, <1>1 DEF MemoryKept
  <1>2. ASSUME kMode' = "rule", K!Named(gs, g) = {}, kGroup' = gs[1].name,
               stored' = K!Written(st, uid', gs[1].name),
               lost' = IF data'.uid # uid' \/ match' # CardMatch[data'.uid] THEN lost \cup {uid'} ELSE lost
        PROVE  MemoryKept' /\ IsMemory(stored')
    <2>1. lost \subseteq lost'
      BY <1>2
    <2>2. IsMemory(stored') /\ \A v \in CardUids : v # uid' => stored'[v] = st[v]
      <3>1. stored' = K!Written(st, uid', gs[1].name)
        BY <1>2
      <3> QED BY <3>1, CardAssumption DEF IsMemory, K!Written
    <2>3. ASSUME uid' \notin lost', uid' \in CardUids, Has(uid') PROVE FALSE
      <3>1. data'.uid = uid' /\ match' = CardMatch[uid']
        BY <1>2, <2>3
      <3>2. g = wanted[uid']
        BY <1>2, <2>1, <2>3, <3>1
      <3>3. gs = K!Registered([uid |-> uid'], CardMatch[uid'])
        <4> DEFINE d == [uid |-> uid']
        <4>1. d.uid = uid'
          OBVIOUS
        <4> HIDE DEF d
        <4>2. data'.uid = d.uid
          BY <3>1, <4>1
        <4>3. K!Registered(data', match') = K!Registered(d, match')
          BY <4>2, RegisteredSame, Zenon
        <4> QED BY <3>1, <4>3 DEF d
      <3> QED BY <1>2, <2>3, <3>2, <3>3 DEF Has
    <2>4. \A u \in CardUids \ lost' : Has(u) => stored'[u] = wanted[u]
      BY <2>1, <2>2, <2>3
    <2>5. ~(uid' = data'.uid /\ uid' \notin lost' /\ Has(uid'))
      BY <2>3
    <2> QED BY <1>0, <2>2, <2>4, <2>5 DEF MemoryKept
  <1>3. \/ stored' = st /\ lost' = lost /\ (kMode' = "rule" => kGroup' = g)
        \/ /\ kMode' = "rule" /\ K!Named(gs, g) = {} /\ kGroup' = gs[1].name
           /\ stored' = K!Written(st, uid', gs[1].name)
           /\ lost' = IF data'.uid # uid' \/ match' # CardMatch[data'.uid] THEN lost \cup {uid'} ELSE lost
    <2>1. CASE kMode' = "direct" \/ kMode' = "global"
      BY <2>1, Zenon DEF K!ShowGroups
    <2>2. CASE kMode' # "direct" /\ kMode' # "global"
      BY <2>2, Zenon DEF K!ShowGroups
    <2> QED BY <2>1, <2>2
  <1> QED BY <1>1, <1>2, <1>3

LEMMA RenderingMemory == ASSUME CardInv, Rendering PROVE MemoryKept' /\ IsMemory(stored')
  <1>0. /\ uid' \in CardUids \cup {""} /\ wanted' = wanted
        /\ ~kMounted' \/ data'.uid = "" => UNCHANGED <<groups, kGroup, proxy, stored, lost>>
    BY RenderingFacts, FollowFacts
  <1>1. IsMemory(stored) /\ \A u \in CardUids \ lost : Has(u) => stored[u] = wanted[u]
    BY DEF CardInv, MemoryKept, CardTypes, IsMemory
  <1>2. CASE ~kMounted' \/ data'.uid = ""
    <2>1. UNCHANGED <<stored, lost>>
      BY <1>0, <1>2
    <2>2. \A u : Has(u)' <=> Has(u)
      BY <1>0 DEF Has
    <2> QED BY <1>0, <1>1, <1>2, <2>1, <2>2 DEF MemoryKept
  <1>3. CASE kMounted' /\ data'.uid # ""
    <2>1. ASSUME NEW st \in {stored, K!Migrated(stored, uid')}, K!ShowGroups(Initial(st), st)
          PROVE  MemoryKept' /\ IsMemory(stored')
      <3>1. IsMemory(st) /\ (\A v \in CardUids : v # uid' => st[v] = stored[v]) /\ (stored[uid'] # "" => st = stored)
        BY <1>0, <1>1, <2>1, MigratedFacts
      <3>2. \A u \in CardUids \ lost : Has(u) => st[u] = wanted[u]
        BY <1>1, <3>1 DEF Has
      <3>3. ASSUME kMode' = "rule", uid' = data'.uid, uid' \notin lost, Has(uid')
            PROVE  Initial(st) = wanted[uid']
        <4>1. st[uid'] = wanted[uid'] /\ wanted[uid'] # ""
          BY <1>0, <1>3, <3>2, <3>3 DEF Has
        <4> QED BY <3>3, <4>1 DEF Initial, K!InitialGroup
      <3> QED BY <1>0, <1>3, <2>1, <3>1, <3>2, <3>3, ShowMemory
    <2>2. ASSUME K!FetchRules, K!ShowGroups(kGroup, stored)
          PROVE  MemoryKept' /\ IsMemory(stored')
      <3>1. UNCHANGED <<data, uid, kMode, kMounted>>
        BY <2>2 DEF K!FetchRules
      <3>2. kMode' = "rule" /\ uid' = data'.uid /\ uid' \notin lost /\ Has(uid') => kGroup = wanted[uid']
        BY <1>3, <3>1 DEF CardInv, MemoryKept
      <3> QED BY <1>0, <1>1, <1>3, <2>2, <3>2, ShowMemory
    <2> QED BY <1>3, <2>1, <2>2, ShownFacts
  <1> QED BY <1>2, <1>3

LEMMA SameMemory ==
    ASSUME CardInv, UNCHANGED <<stored, wanted, lost, kMode, data, uid, kGroup>>, kMounted' => kMounted
    PROVE  MemoryKept'
  <1>1. \A u : Has(u)' <=> Has(u)
    BY DEF Has
  <1> QED BY <1>1 DEF CardInv, MemoryKept

LEMMA ChosenMemory ==
    ASSUME CardInv, NEW i, K!HandleGroupChange(i)
    PROVE  MemoryKept' /\ IsMemory(stored') /\ IsMemory(wanted')
  <1>1. /\ stored' = K!Written(stored, uid, kGroup') /\ wanted' = [wanted EXCEPT ![uid] = kGroup']
        /\ lost' = lost \ {uid} /\ UNCHANGED <<data, uid, kMode, kMounted>>
    BY DEF K!HandleGroupChange, K!fetched
  <1>2. /\ IsMemory(stored) /\ IsMemory(wanted) /\ uid \in CardUids \cup {""}
        /\ \A u \in CardUids \ lost : Has(u) => stored[u] = wanted[u]
    BY DEF CardInv, MemoryKept, CardTypes, IsMemory
  <1>3. IsMemory(stored') /\ stored'[uid] = kGroup' /\ \A v \in CardUids : v # uid => stored'[v] = stored[v]
    BY <1>1, <1>2, CardAssumption DEF IsMemory, K!Written
  <1>4. IsMemory(wanted') /\ wanted'[uid] = kGroup' /\ \A v \in CardUids : v # uid => wanted'[v] = wanted[v]
    BY <1>1, <1>2 DEF IsMemory
  <1>5. \A u \in CardUids : u # uid => (Has(u)' <=> Has(u))
    BY <1>4 DEF Has
  <1>6. \A u \in CardUids \ lost' : Has(u)' => stored'[u] = wanted'[u]
    BY <1>1, <1>2, <1>3, <1>4, <1>5
  <1> QED BY <1>1, <1>3, <1>4, <1>6 DEF MemoryKept

LEMMA MemoryStep == ASSUME CardInv, K!Next PROVE MemoryKept'
  <1>1. CASE Rendering
    BY <1>1, RenderingMemory
  <1>2. CASE Testing
    BY <1>2, TestingFacts, SameMemory
  <1>3. ASSUME NEW u \in CardUids, K!SwitchProfile(u) PROVE MemoryKept'
    BY <1>3, SwitchFacts, SameMemory
  <1>4. ASSUME NEW i \in 1 .. Len(groups), K!HandleGroupChange(i) PROVE MemoryKept'
    BY <1>4, ChosenMemory
  <1>5. ASSUME NEW n, K!HandleProxyChange(n) PROVE MemoryKept'
    BY <1>5, ProxyChangeLoops, SameMemory
  <1>6. CASE K!ShowChoice
    <2>1. UNCHANGED <<stored, wanted, lost, kMode, data, uid, kGroup, kMounted>>
      BY <1>6 DEF K!ShowChoice, K!fetched
    <2> QED BY <2>1, SameMemory
  <1>7. CASE K!HandleSortTypeChange
    <2>1. UNCHANGED <<stored, wanted, lost, kMode, data, uid, kGroup, kMounted>>
      BY <1>7 DEF K!HandleSortTypeChange, K!fetched, K!view
    <2> QED BY <2>1, SameMemory
  <1>8. CASE K!Leave
    <2>1. kMounted' = FALSE /\ UNCHANGED <<stored, wanted, lost>>
      BY <1>8, LeaveFacts
    <2>2. \A u : Has(u)' <=> Has(u)
      BY <2>1 DEF Has
    <2> QED BY <2>1, <2>2 DEF CardInv, MemoryKept
  <1>9. ASSUME NEW l \in loops, K!Selected(l) \/ K!Refused(l) PROVE MemoryKept'
    <2>1. K!Taken(l)
      BY <1>9 DEF K!Selected, K!Refused
    <2> QED BY <2>1, TakenFacts, SameMemory
  <1>10. CASE K!FetchAgain
    BY <1>10, AgainFacts, SameMemory
  <1> QED BY <1>1, <1>2, <1>3, <1>4, <1>5, <1>6, <1>7, <1>8, <1>9, <1>10, CardCases

LEMMA TypesStep == ASSUME CardInv, K!Next PROVE CardTypes'
  <1> DEFINE CoreOK == /\ core = [uid |-> core.uid, now |-> core.now] /\ core.uid \in CardUids
                       /\ core.now = [g \in K!ShownGroups |-> core.now[g]]
             TimerOK == timer = K!NoTimer \/ (timer # K!NoTimer /\ IsTimer(timer))
             LoopsOK == \A l \in loops : IsLoop(l)
             OthersOK == /\ kMode \in {"rule", "global", "direct"} /\ kMounted \in BOOLEAN
                         /\ uid \in CardUids \cup {""} /\ data.uid \in CardUids \cup {""}
             MemoryOK == IsMemory(stored) /\ IsMemory(wanted)
  <1>0. CardTypes <=> CoreOK /\ TimerOK /\ LoopsOK /\ OthersOK /\ MemoryOK
    BY Zenon DEF CardTypes, IsMemory
  <1>a. CardTypes' <=> CoreOK' /\ TimerOK' /\ LoopsOK' /\ OthersOK' /\ MemoryOK'
    BY Zenon DEF CardTypes, IsMemory
  <1>b. CoreOK /\ TimerOK /\ LoopsOK /\ OthersOK /\ MemoryOK
    BY <1>0 DEF CardInv
  <1>1. CASE Rendering
    <2>1. /\ core' = core /\ kMode' \in {"rule", "global", "direct"} /\ kMounted' \in BOOLEAN
          /\ uid' \in CardUids \cup {""} /\ data' \in {data, core} /\ UNCHANGED <<timer, loops, wanted>>
      BY <1>1, RenderingFacts, FollowFacts
    <2>2. IsMemory(stored')
      BY <1>1, RenderingMemory
    <2>3. data'.uid \in CardUids \cup {""}
      BY <1>b, <2>1
    <2> QED BY <1>a, <1>b, <2>1, <2>2, <2>3
  <1>2. CASE Testing
    <2>1. UNCHANGED <<core, timer, loops, stored, wanted, kMode, kMounted, uid, data>>
      BY <1>2, TestingFacts
    <2> QED BY <1>a, <1>b, <2>1
  <1>3. ASSUME NEW u \in CardUids, K!SwitchProfile(u) PROVE CardTypes'
    <2>1. core' = K!Fresh(u) /\ UNCHANGED <<loops, stored, wanted, kMode, kMounted, uid, data>>
      BY <1>3, SwitchFacts
    <2>2. CoreOK'
      BY <2>1 DEF K!Fresh
    <2>3. TimerOK'
      BY <1>b, <1>3, SwitchFacts, VoidFacts
    <2> QED BY <1>a, <1>b, <2>1, <2>2, <2>3
  <1>4. ASSUME NEW i \in 1 .. Len(groups), K!HandleGroupChange(i) PROVE CardTypes'
    <2>1. UNCHANGED <<core, timer, loops, kMode, kMounted, uid, data>>
      BY <1>4 DEF K!HandleGroupChange, K!fetched, K!choice
    <2> QED BY <1>a, <1>b, <1>4, <2>1, ChosenMemory
  <1>5. ASSUME NEW n, K!HandleProxyChange(n) PROVE CardTypes'
    <2>1. /\ UNCHANGED <<core, stored, wanted, kMode, kMounted, uid, data>>
          /\ LoopsOK' /\ TimerOK'
      BY <1>5, ProxyChangeLoops
    <2> QED BY <1>a, <1>b, <2>1
  <1>6. CASE K!ShowChoice
    <2>1. UNCHANGED <<core, loops, stored, wanted, kMode, kMounted, uid, data>> /\ timer' = K!NoTimer
      BY <1>6 DEF K!ShowChoice, K!fetched
    <2> QED BY <1>a, <1>b, <2>1
  <1>7. CASE K!HandleSortTypeChange
    <2>1. UNCHANGED <<core, timer, loops, stored, wanted, kMode, kMounted, uid, data>>
      BY <1>7 DEF K!HandleSortTypeChange, K!fetched, K!choice
    <2> QED BY <1>a, <1>b, <2>1
  <1>8. CASE K!Leave
    <2>1. /\ UNCHANGED <<core, stored, wanted, kMode, uid, data>> /\ kMounted' = FALSE
          /\ timer' = K!NoTimer /\ LoopsOK'
      BY <1>8, LeaveFacts
    <2> QED BY <1>a, <1>b, <2>1
  <1>9. ASSUME NEW l \in loops, K!Selected(l) \/ K!Refused(l) PROVE CardTypes'
    <2>1. K!Taken(l)
      BY <1>9 DEF K!Selected, K!Refused
    <2>2. UNCHANGED <<stored, wanted, kMode, kMounted, uid, data>>
      BY <2>1, TakenFacts
    <2>3. LoopsOK'
      BY <2>1, TakenLoops
    <2>4. \E b \in BOOLEAN : K!Void(b)
      <3>1. l.here \in BOOLEAN
        BY <1>b DEF IsLoop
      <3> QED BY <1>9, <3>1 DEF K!Selected, K!Refused
    <2>5. TimerOK'
      BY <1>b, <2>4, VoidFacts
    <2>6. CoreOK'
      <3>1. CASE core' = core
        BY <1>b, <3>1
      <3>2. CASE core' = [core EXCEPT !.now[l.running.group] = l.running.node]
        BY <1>b, <3>2
      <3> QED BY <1>9, <3>1, <3>2 DEF K!Selected, K!Refused
    <2> QED BY <1>a, <1>b, <2>2, <2>3, <2>5, <2>6
  <1>10. CASE K!FetchAgain
    <2>1. UNCHANGED <<core, timer, loops, stored, wanted, kMode, kMounted, uid, data>>
      BY <1>10, AgainFacts
    <2> QED BY <1>a, <1>b, <2>1
  <1> QED BY <1>1, <1>2, <1>3, <1>4, <1>5, <1>6, <1>7, <1>8, <1>9, <1>10, CardCases

LEMMA CardInit == K!Init /\ stored = CardMemory => CardInv
  <1> SUFFICES ASSUME K!Init, stored = CardMemory PROVE CardInv
    OBVIOUS
  <1>1. PICK u \in CardUids : core = K!Fresh(u)
    BY DEF K!Init
  <1>2. /\ data.uid = "" /\ uid = "" /\ kMode = "rule" /\ wanted = stored /\ kMounted = TRUE
        /\ groups = <<>> /\ kGroup = "" /\ options = <<>> /\ timer = K!NoTimer /\ loops = {} /\ busy = FALSE
        /\ checks = {} /\ lost = {}
    BY DEF K!Init
  <1>3. IsMemory(stored)
    BY CardAssumption DEF IsMemory
  <1>4. CardTypes
    BY <1>1, <1>2, <1>3 DEF CardTypes, K!Fresh, IsMemory
  <1>5. LoopsKept
    BY <1>2 DEF LoopsKept
  <1>6. ShownKept
    BY <1>2, Zenon DEF ShownKept
  <1>7. MemoryKept
    BY <1>2 DEF MemoryKept
  <1>8. ChecksKept
    BY <1>2 DEF ChecksKept, K!Watching
  <1>9. K!ListOrdered
    <2>1. K!Named(groups, kGroup) = {}
      <3>1. Len(groups) = 0
        BY <1>2
      <3>2. 1 .. Len(groups) = {}
        BY <3>1
      <3>3. K!Named(groups, kGroup) = {i \in 1 .. Len(groups) : groups[i].name = kGroup}
        BY Zenon DEF K!Named
      <3> QED BY <3>2, <3>3, Zenon
    <2>2. K!Listed = <<>>
      BY <1>2, <2>1 DEF K!Listed, K!ProxyOptions
    <2> QED BY <1>2, <2>2 DEF K!ListOrdered
  <1> QED BY <1>4, <1>5, <1>6, <1>7, <1>8, <1>9 DEF CardInv

LEMMA CardStep == CardInv /\ K!Next => CardInv'
  BY TypesStep, LoopsStep, ShownStep, MemoryStep, ChecksStep, ListStep DEF CardInv

LEMMA CardKept == CardInv /\ UNCHANGED Kvars => CardInv'
  <1> SUFFICES ASSUME CardInv, UNCHANGED Kvars PROVE CardInv'
    OBVIOUS
  <1>1. UNCHANGED <<core, data, uid, kMode, match, stored, sortType, kMounted, groups, kGroup, proxy, options, timer,
                    loops, owed, busy, checks, kDelay, wanted, lost, late, unsorted>>
    BY DEF Kvars
  <1>2. CardTypes'
    BY <1>1 DEF CardInv, CardTypes
  <1>3. LoopsKept' /\ ShownKept'
    BY <1>1 DEF CardInv, LoopsKept, ShownKept, ShownChoice
  <1>4. MemoryKept' /\ ChecksKept' /\ K!ListOrdered'
    BY <1>1, SameMemory, SameChecks, SameOrder DEF CardInv
  <1> QED BY <1>2, <1>3, <1>4 DEF CardInv

\* In a behaviour of the card the invariant holds all the time.
LEMMA CardHolds == PageSpec => [](part = "card" => CardInv)
  <1>1. Start => (part = "card" => CardInv)
    BY CardInit, Zenon DEF Start
  <1>2. (part = "card" => CardInv) /\ [Step]_all => (part = "card" => CardInv)'
    <2> SUFFICES ASSUME part = "card" => CardInv, [Step]_all, part' = "card"
                 PROVE  CardInv'
      OBVIOUS
    <2>1. part = "card" /\ (K!Next \/ UNCHANGED Kvars)
      BY DEF Step, all
    <2> QED BY <2>1, CardStep, CardKept
  <1> QED BY <1>1, <1>2, PTL DEF PageSpec

LEMMA CardOneChain == CardInv => K!OneChain
  BY DEF CardInv, ChecksKept, K!OneChain

\* What CurrentShown and GroupRemembered say of one state.
LEMMA CardShows == CardInv => K!CurrentShown /\ K!GroupRemembered
  <1> SUFFICES ASSUME CardInv PROVE K!CurrentShown /\ K!GroupRemembered
    OBVIOUS
  <1>1. K!CurrentShown
    <2>1. data.uid = core.uid => data.uid # ""
      BY CardAssumption DEF CardInv, CardTypes
    <2> QED BY <2>1 DEF CardInv, ShownKept, ShownChoice, K!CurrentShown
  <1>2. K!GroupRemembered
    <2> SUFFICES ASSUME kMounted, kMode = "rule", data.uid # "", uid = data.uid, match = CardMatch[uid],
                        wanted[uid] # "", K!Named(groups, wanted[uid]) # {}, uid \notin lost
                 PROVE  kGroup = wanted[uid]
      BY DEF K!GroupRemembered
    <2> DEFINE d == [uid |-> uid]
    <2>1. data.uid = d.uid
      OBVIOUS
    <2> HIDE DEF d
    <2>2. K!Registered(data, match) = K!Registered(d, match)
      BY <2>1, RegisteredSame, Zenon
    <2>3. groups = K!Registered([uid |-> uid], CardMatch[uid])
      BY <2>2 DEF CardInv, ShownKept, d
    <2> QED BY <2>3 DEF CardInv, MemoryKept, Has
  <1> QED BY <1>1, <1>2

\* The card tests its node in one chain, however often the node, the group or the order
\* changes.  It shows the node that the core uses when no choice is under way, unless
\* what is shown is a choice of another view, or was refused or overtaken (late); the
\* group that was chosen for the subscription, unless the memory of it was overwritten
\* while two subscriptions were mixed (lost); its list in the order of the results,
\* unless the last test was for an older order or mount (unsorted).
THEOREM CardAgreesHolds == PageSpec => []CardAgrees
  <1>1. CardInv => K!ListOrdered
    BY DEF CardInv
  <1>2. (part = "card" => CardInv) => CardAgrees
    BY <1>1, CardOneChain, CardShows, Zenon DEF CardAgrees
  <1> QED BY <1>2, CardHolds, PTL
=============================================================================
