---------------------------- MODULE DelayManager ----------------------------
(***************************************************************************)
(* The latency tests of the interface: the cache of src/src/services/      *)
(* delay.ts, the items that show it and the callers that test one node or  *)
(* a whole group.                                                          *)
(*                                                                         *)
(* A check writes the mark "testing", sends a request and writes what      *)
(* comes back, unless a later check of the same node has begun.  A list    *)
(* marks all its nodes first and lets a few helpers check them one after   *)
(* the other; the answer of the group request writes with no generation.   *)
(***************************************************************************)
EXTENDS Naturals, Sequences, FiniteSets

CONSTANTS
    Reached,    \* sets of nodes that the answer of a group request may name
    Managed,    \* nodes of a provider: a list marks them and leaves them out
    Order,      \* the nodes without a provider, in the order of the group
    Views,      \* places of the page where an item may be mounted
    Clickers,   \* calls that an item has running
    Helpers,    \* helpers of one list: min(concurrency, names, 10)
    MaxBusy     \* bound on the checks and lists that overlap

Unmanaged == {Order[i] : i \in 1 .. Len(Order)}
Names == Managed \cup Unmanaged
Lists == {"page", "card"}
Actors == Clickers \cup (Lists \X (1 .. Helpers))

VARIABLES
    cache,      \* what is known of each node, and which check wrote it
    pending,    \* pendingItemUpdates: nodes whose listeners wait for a frame
    item,       \* the node whose item a view holds
    shown,      \* delayState of that item
    call,       \* the check each actor is in
    list        \* the group check behind each button

vars == <<cache, pending, item, shown, call, list>>

\* `late': a check wrote this after another check of the node had begun.
Entry(s) == [state |-> s, late |-> FALSE]
Unknown == Entry("none")
Marked == Entry("testing")
Entries == [state : {"none", "testing", "ok", "error"}, late : BOOLEAN]

\* `latest': the generation of the call is still the requestGeneration of its
\* node.  Nothing else of the counters is observed.
Idle == [at |-> "idle", name |-> "none", latest |-> FALSE, answer |-> "none",
         view |-> "gone"]
Calls == [at : {"idle", "waiting", "asked", "answered", "done"},
          name : Names \cup {"none"}, latest : BOOLEAN,
          answer : {"none", "ok", "error", "unavailable"},
          view : Views \cup {"card", "gone"}]

NoList == [at |-> "idle", index |-> 0, aborted |-> FALSE, lost |-> FALSE,
           group |-> FALSE]
ListStates == [at : {"idle", "healthcheck", "helping", "ended"},
               index : 0 .. Len(Order), aborted : BOOLEAN, lost : BOOLEAN,
               group : BOOLEAN]

TypeOK ==
    /\ cache \in [Names -> Entries]
    /\ pending \subseteq Names
    /\ item \in [Views -> Names \cup {"none"}]
    /\ shown \in [Views -> Entries \cup {Entry("history")}]
    /\ call \in [Actors -> Calls]
    /\ list \in [Lists -> ListStates]

Init ==
    /\ cache = [n \in Names |-> Unknown]
    /\ pending = {}
    /\ item = [v \in Views |-> "none"]
    /\ shown = [v \in Views |-> Unknown]
    /\ call = [a \in Actors |-> Idle]
    /\ list = [l \in Lists |-> NoList]

-----------------------------------------------------------------------------
(* The cache.                                                              *)

\* setDelay of every node of `new': cache, queue, next frame.
SetDelays(new) ==
    /\ cache' = [n \in Names |-> IF n \in DOMAIN new THEN new[n] ELSE cache[n]]
    /\ pending' = pending \cup DOMAIN new

\* The queue of a frame goes to the listeners of each node, in order: the
\* last update, which is the entry of the cache, is what stays.
Flush ==
    /\ pending # {}
    /\ pending' = {}
    /\ shown' = [v \in Views |-> IF item[v] \in pending THEN cache[item[v]]
                                                        ELSE shown[v]]
    /\ UNCHANGED <<cache, item, call, list>>

Running(n) == \E a \in Actors : call[a].name = n
Quiet == \A l \in Lists : list[l].at = "idle"

\* CACHE_TTL: an entry that nothing has written for half an hour is dropped
\* by the next reader.
Expire(n) ==
    /\ cache[n].state # "none" /\ ~Running(n) /\ Quiet /\ n \notin pending
    /\ cache' = [cache EXCEPT ![n] = Unknown]
    /\ UNCHANGED <<pending, item, shown, call, list>>

-----------------------------------------------------------------------------
(* The items.                                                              *)

\* Mutant of the next definition.
ReadNothing(n) == {Unknown}

\* updateDelay: the entry of the cache, or the last record of the history.
Read(n) ==
    IF cache[n].state # "none" THEN {cache[n]}
    ELSE {Unknown, Entry("history")}

\* The effects of the item: listen, then read.  They run again when the list
\* of proxies is fetched anew.
Mount(v, n) ==
    /\ item[v] \in {"none", n}
    /\ item' = [item EXCEPT ![v] = n]
    /\ \E e \in Read(n) : shown' = [shown EXCEPT ![v] = e]
    /\ UNCHANGED <<cache, pending, call, list>>

\* The item goes; its call, if one runs, has nobody to tell.
Unmount(v) ==
    /\ item[v] # "none"
    /\ item' = [item EXCEPT ![v] = "none"]
    /\ shown' = [shown EXCEPT ![v] = Unknown]
    /\ call' = [a \in Actors |->
                  IF call[a].view = v THEN [call[a] EXCEPT !.view = "gone"]
                                      ELSE call[a]]
    /\ UNCHANGED <<cache, pending, list>>

-----------------------------------------------------------------------------
(* checkDelay, from the item and from the automatic check of the home card. *)

\* A new generation of n: the calls before it are superseded.
Ask(a, n, v) ==
    [b \in Actors |->
        IF b = a THEN [at |-> "asked", name |-> n, latest |-> TRUE,
                       answer |-> "none", view |-> v]
        ELSE [call[b] EXCEPT !.latest = @ /\ call[b].name # n]]

HasRoom ==
    Cardinality({a \in Clickers : call[a] # Idle})
        + Cardinality({l \in Lists : list[l].at # "idle"}) < MaxBusy

\* onDelay of an item, under the lock of that item.
Click(a, v) ==
    LET n == item[v] IN
    /\ a \in Clickers /\ call[a] = Idle /\ n # "none"
    /\ \A b \in Clickers : call[b].view # v
    /\ HasRoom
    /\ call' = Ask(a, n, v)
    /\ SetDelays([m \in {n} |-> Marked])
    /\ shown' = [shown EXCEPT ![v] = Marked]
    /\ UNCHANGED <<item, list>>

\* autoCheckInProgressRef: the card runs one check of its own at a time.
CardBusy == list["card"].at # "idle" \/ \E a \in Clickers : call[a].view = "card"

\* checkCurrentProxyDelay, from its timer: not while another runs.
AutoCheck(a, n) ==
    /\ a \in Clickers /\ call[a] = Idle /\ n \in Unmanaged
    /\ ~CardBusy
    /\ HasRoom
    /\ call' = Ask(a, n, "card")
    /\ SetDelays([m \in {n} |-> Marked])
    /\ UNCHANGED <<item, shown, list>>

\* The core answers, fails the test, or is not there.
Answer(a, s) ==
    /\ call[a].at = "asked"
    /\ call' = [call EXCEPT ![a].at = "answered", ![a].answer = s]
    /\ UNCHANGED <<cache, pending, item, shown, list>>

\* Mutant of the next definition.
AlwaysLatest(a) == TRUE

IsLatest(a) == call[a].latest
Written(a) == [state |-> IF call[a].answer = "ok" THEN "ok" ELSE "error",
               late |-> ~call[a].latest]
\* coreFailureGeneration, as each list sees it: has it moved since I began?
Lost(a, l) == list[l].lost \/ (call[a].answer = "unavailable" /\ list[l].at = "helping")

\* After half a second of display: a superseded check leaves the cache alone.
WriteResult(a) ==
    IF IsLatest(a) THEN SetDelays([m \in {call[a].name} |-> Written(a)])
    ELSE UNCHANGED <<cache, pending>>

\* What checkDelay returns.
Returned(a) ==
    IF IsLatest(a) \/ cache[call[a].name].state = "none" THEN Written(a)
    ELSE cache[call[a].name]

Finish(a) ==
    /\ a \in Clickers /\ call[a].at = "answered"
    /\ WriteResult(a)
    /\ shown' = [v \in Views |-> IF v = call[a].view THEN Returned(a) ELSE shown[v]]
    /\ call' = [call EXCEPT ![a] = Idle]
    /\ list' = [l \in Lists |-> [list[l] EXCEPT !.lost = Lost(a, l)]]
    /\ UNCHANGED <<item>>

-----------------------------------------------------------------------------
(* checkListDelay and its two callers.                                     *)

Team(l) == {<<l, h>> : h \in 1 .. Helpers}

\* The page asks the providers first, and only then marks its nodes.
StartPage ==
    /\ list["page"].at = "idle" /\ HasRoom
    /\ list' = [list EXCEPT !["page"].at = "healthcheck"]
    /\ UNCHANGED <<cache, pending, item, shown, call>>

\* Marks the nodes, then lets every helper take one.  The first asks at once;
\* the others wait up to 200 ms.
BeginHelping(l, marked) ==
    LET first == Order[1] IN
    /\ SetDelays([n \in marked |-> Marked])
    /\ call' = [a \in Actors |->
                  IF a \in Team(l) \ {<<l, 1>>}
                  THEN [Idle EXCEPT !.at = "waiting", !.name = Order[a[2]]]
                  ELSE Ask(<<l, 1>>, first, "gone")[a]]
    /\ list' = [list EXCEPT ![l] = [at |-> "helping", index |-> Helpers,
                                    aborted |-> FALSE, lost |-> FALSE,
                                    group |-> TRUE]]
    /\ UNCHANGED <<item, shown>>

PageHelps == list["page"].at = "healthcheck" /\ BeginHelping("page", Unmanaged)

\* checkCurrentGroupDelay marks every node, and tests those with no provider.
StartCard ==
    /\ ~CardBusy /\ HasRoom
    /\ BeginHelping("card", Names)

\* The random wait is over: checkDelay.
HelperAsks(l, h) ==
    LET a == <<l, h>>  n == call[a].name IN
    /\ call[a].at = "waiting"
    /\ call' = Ask(a, n, "gone")
    /\ SetDelays([m \in {n} |-> Marked])
    /\ UNCHANGED <<item, shown, list>>

\* The check of a helper ends.  If the core was lost since the list began the
\* list is aborted; else the helper takes the next node and marks it again.
HelperFinishes(l, h) ==
    LET a == <<l, h>>
        i == list[l].index + 1
        stop == list[l].aborted \/ Lost(a, l)
        known == [k \in Lists |-> [list[k] EXCEPT !.lost = Lost(a, k)]]
        own == IF IsLatest(a) THEN {call[a].name} ELSE {}
    IN
    /\ call[a].at = "answered"
    /\ IF stop \/ i > Len(Order)
       THEN /\ SetDelays([m \in own |-> Written(a)])
            /\ call' = [call EXCEPT ![a] = [Idle EXCEPT !.at = "done"]]
            /\ list' = [known EXCEPT ![l].aborted = stop]
       ELSE /\ SetDelays([m \in own \cup {Order[i]} |->
                             IF m = Order[i] THEN Marked ELSE Written(a)])
            /\ call' = [call EXCEPT ![a] = [Idle EXCEPT !.at = "waiting",
                                                        !.name = Order[i]]]
            /\ list' = [known EXCEPT ![l].index = i]
    /\ UNCHANGED <<item, shown>>

\* Mutant of the next definition.
HelpersDoneNoCleanup(l) ==
    /\ list[l].at = "helping"
    /\ \A a \in Team(l) : call[a].at = "done"
    /\ call' = [a \in Actors |-> IF a \in Team(l) THEN Idle ELSE call[a]]
    /\ list' = [list EXCEPT ![l].at = "ended"]
    /\ UNCHANGED <<cache, pending, item, shown>>

\* Promise.all of the helpers: an aborted list gives up the nodes it left.
HelpersDone(l) ==
    /\ list[l].at = "helping"
    /\ \A a \in Team(l) : call[a].at = "done"
    /\ LET left == {n \in Unmanaged : cache[n].state = "testing"} IN
       IF list[l].aborted THEN SetDelays([n \in left |-> Entry("error")])
       ELSE UNCHANGED <<cache, pending>>
    /\ call' = [a \in Actors |-> IF a \in Team(l) THEN Idle ELSE call[a]]
    /\ list' = [list EXCEPT ![l].at = "ended"]
    /\ UNCHANGED <<item, shown>>

\* The answer of delayGroup names the nodes that could be reached.
GroupAnswer(l, reached) ==
    /\ list[l].group
    /\ SetDelays([n \in reached |-> Entry("ok")])
    /\ list' = [list EXCEPT ![l].group = FALSE]
    /\ UNCHANGED <<item, shown, call>>

\* allSettled: the button is free again.
EndList(l) ==
    /\ list[l].at = "ended" /\ ~list[l].group
    /\ list' = [list EXCEPT ![l] = NoList]
    /\ UNCHANGED <<cache, pending, item, shown, call>>

-----------------------------------------------------------------------------

Work ==
    \/ Flush
    \/ \E a \in Actors, s \in {"ok", "error", "unavailable"} : Answer(a, s)
    \/ \E a \in Clickers : Finish(a)
    \/ PageHelps
    \/ \E l \in Lists : HelpersDone(l) \/ EndList(l)
    \/ \E l \in Lists, h \in 1 .. Helpers : HelperAsks(l, h) \/ HelperFinishes(l, h)
    \/ \E l \in Lists, reached \in Reached : GroupAnswer(l, reached)

Next ==
    \/ Work
    \/ \E n \in Names : Expire(n)
    \/ \E v \in Views, n \in Names : Mount(v, n)
    \/ \E v \in Views : Unmount(v)
    \/ \E a \in Clickers, v \in Views : Click(a, v)
    \/ \E a \in Clickers, n \in Names : AutoCheck(a, n)
    \/ StartPage \/ StartCard

Spec == Init /\ [][Next]_vars

-----------------------------------------------------------------------------
(* Properties.                                                             *)

\* What the cache holds of a request is of the latest request for that node:
\* an answer that comes late never replaces the mark or the result of a check
\* that began after it (delay.ts:301, :329).
LatestWins ==
    \A n \in Names : ~cache[n].late

\* The mark "testing" stands for a test: when no caller is at work no node that
\* a list tests carries it, also after a list that the loss of the core cut short.
NoMarkLeft ==
    (Quiet /\ \A a \in Actors : call[a] = Idle) =>
        \A n \in Unmanaged : cache[n].state # "testing"

=============================================================================
