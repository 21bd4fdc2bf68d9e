------------------------------ MODULE ProxyCard ------------------------------
(***************************************************************************)
(* The card of the current node on the home page (src/src/components/home/ *)
(* current-proxy-card.tsx): the group and the node that it shows, the      *)
(* group that it remembers for each subscription, the order of its list,   *)
(* and the tests that it makes by itself or when asked.                    *)
(*                                                                         *)
(* The core has one subscription; the mode, the rules, the nodes and the   *)
(* subscription that the card knows are fetched apart.  Nodes are numbers  *)
(* in the order of their names, 0 is DIRECT, and every group has a current *)
(* node.  Answers of tests are those of DelayManager; nodes of providers   *)
(* are left to it.  Automatic tests are switched on, as they are unless    *)
(* enable_auto_delay_detection says otherwise.                             *)
(***************************************************************************)
EXTENDS Integers, Sequences, FiniteSets, SequencesExt

CONSTANTS
    Uids,
    GroupsOf,    \* of a subscription, its groups: records of name, type and all
    Primary,     \* of a subscription, the group that looks like the main one
    Match,       \* of a subscription, the policy of its last MATCH rule, or ""
    Results,     \* of tests, in milliseconds, 0 for a failure
    Timeout,
    MaxSteps,    \* bound: what the user and the core do
    MaxTests     \* bound: tests

None == -1
NoTimer == [node |-> None]

VARIABLES
    core,       \* its subscription, and the current node of each group
    data,       \* proxies, of the subscription "" before the first answer
    uid,        \* the subscription that useProfiles has, or ""
    mode, match,
    stored,     \* STORAGE_KEY_GROUP of each subscription, and without one
    sortType,   \* also in localStorage
    mounted,
    groups, group, proxy, \* state; displayProxy is the record of proxy
    options,    \* proxyOptions: memorised by the rendering
    timer,      \* timeoutRef, with the group of its click
    loops,      \* of useProxySelection, one for each mount at most
    owed,       \* whether a refresh is under way
    busy,       \* autoCheckInProgressRef
    checks,     \* chains of timers and tests, and tests that were asked for
    delay,      \* the cache of the latency tests
    wanted,     \* history: the group that the user chose last
    lost,       \* history: subscriptions whose memory was overwritten while what
                \* is known was of two of them
    late,       \* history: what is shown is a choice of another view, or one that was
                \* refused or overtaken
    unsorted,   \* history: the last test ended for an older order or mount
    steps, tests

fetched == <<core, data, uid, mode, match>>
view == <<groups, group, proxy>>
choice == <<timer, loops, owed>>
work == <<busy, checks, delay, tests>>
notes == <<wanted, lost, late, unsorted>>
vars == <<fetched, stored, sortType, mounted, view, options, choice, work, notes, steps>>

GroupNames == UNION {{g.name : g \in ToSet(GroupsOf[u])} : u \in Uids}
NodesOf(u) == UNION {ToSet(g.all) : g \in ToSet(GroupsOf[u])}
AllNodes == {0} \cup UNION {NodesOf(u) : u \in Uids}
ShownGroups == GroupNames \cup {"GLOBAL"}

UserStep == steps < MaxSteps /\ steps' = steps + 1

-----------------------------------------------------------------------------
(* What the queries answer.                                                *)

Ordered(nodes) == SetToSortSeq(nodes, <)

\* proxies.groups, proxies.global and proxies.records.
Group(d, name) ==
    IF name = "GLOBAL" THEN [name |-> name, type |-> "Selector", all |-> <<0>> \o Ordered(NodesOf(d.uid))]
    ELSE CHOOSE g \in ToSet(GroupsOf[d.uid]) : g.name = name
HasGroup(d, name) == name = "GLOBAL" \/ \E g \in ToSet(GroupsOf[d.uid]) : g.name = name
Record(d, n) == IF n \in NodesOf(d.uid) \cup {0} THEN n ELSE None

\* The current nodes of a core that has just loaded a subscription.
Fresh(u) ==
    [uid |-> u,
     now |-> [g \in ShownGroups |->
                 IF HasGroup([uid |-> u], g) THEN Head(Group([uid |-> u], g).all) ELSE None]]

\* registerGroup: that of the MATCH rule first, then the selectors.
Registered(d, m) ==
    LET is(g) == g.type = "Selector" /\ g.name # m
        first == IF m # "" /\ HasGroup(d, m) THEN <<Group(d, m)>> ELSE <<>>
    IN  first \o SelectSeq(GroupsOf[d.uid], is)

Named(gs, name) == {i \in 1..Len(gs) : gs[i].name = name}

-----------------------------------------------------------------------------
(* The list.                                                               *)

\* categorizeDelay.
Category(d) ==
    CASE d = 0 -> <<3, Timeout>>
      [] d < 0 -> <<5, 0>>
      [] d > 100000 -> <<4, d>>
      [] Timeout <= d /\ d <= 100000 -> <<3, d>>
      [] OTHER -> <<0, d>>

\* sortWithLatency.
SortWithLatency(s, name, sort, times) ==
    LET key(n) == <<Category(times[name][n])[1], Category(times[name][n])[2], n>>
        before(a, b) ==
            \E i \in 1..3 : key(a)[i] < key(b)[i] /\ \A j \in 1..(i - 1) : key(a)[j] = key(b)[j]
    IN  CASE sort = 0 -> s
          [] sort = 1 -> SortSeq(s, before)
          [] sort = 2 -> SortSeq(s, <)

ProxyOptions(d, m, gs, name, sort, times) ==
    CASE m = "direct" -> <<0>>
      [] m = "global" /\ d.uid # "" ->
            SortWithLatency(SelectSeq(Group(d, "GLOBAL").all, LAMBDA n : n # 0), "GLOBAL", sort, times)
      [] m # "direct" /\ ~(m = "global" /\ d.uid # "") ->
            IF Named(gs, name) = {} THEN <<>>
            ELSE SortWithLatency(gs[CHOOSE i \in Named(gs, name) : TRUE].all, name, sort, times)

Listed == ProxyOptions(data, mode, groups, group, sortType, delay)
Relist == options' = Listed' /\ unsorted' = FALSE

-----------------------------------------------------------------------------
(* The group that is remembered.                                           *)

\* readProfileScopedItem: a value without a subscription becomes that of the first
\* one that asks.
Migrated(st, u) ==
    IF u # "" /\ st[u] = "" THEN [st EXCEPT ![u] = st[""], ![""] = ""] ELSE st

\* writeProfileScopedItem.
Written(st, u, g) == [st EXCEPT ![""] = "", ![u] = g]

-----------------------------------------------------------------------------
(* The chain of tests of the current node.                                 *)

Chain == [kind |-> "auto", live |-> TRUE, here |-> TRUE, at |-> "timer",
          group |-> "", nodes |-> {}, sorts |-> FALSE]

\* What the effect of the chain depends on.
Watched == <<mounted, mode = "direct", group, proxy, sortType>>

Watching == mounted /\ mode # "direct" /\ group # "" /\ proxy # None

\* Mutant of the next definition: the timer of the previous rendering stays.
DisposeLater(set) == {[c EXCEPT !.live = c.at = "timer" /\ c.live] : c \in set}

\* The cleanup of the effect: a test that is under way ends without another timer.
Dispose(set) == {[c EXCEPT !.live = FALSE] : c \in {d \in set : d.at # "timer"}}

Rewatch(set) ==
    checks' = IF Watched' = Watched THEN set
              ELSE Dispose(set) \cup IF Watching' THEN {Chain} ELSE {}

-----------------------------------------------------------------------------
(* The two effects that follow what was fetched.                           *)

\* The first effect: the group of the mode, or the one that is remembered.
InitialGroup(d, u, m, st) ==
    CASE m = "global" -> "GLOBAL"
      [] m = "direct" -> "DIRECT"
      [] m = "rule" -> IF st[u] # "" THEN st[u] ELSE Primary[d.uid]

\* The second effect, after the first one left the group g: the groups, and what of
\* them is shown.  A group that there is not gives way to the first one, which is
\* remembered in its place.
ShowGroups(g, st) ==
    LET gs == Registered(data', match')
        now(name) == data'.now[name]
        found == Named(gs, g) # {}
    IN  /\ groups' = gs
        /\ \/ /\ mode' = "direct" /\ group' = "DIRECT" /\ proxy' = 0
              /\ stored' = st /\ UNCHANGED lost
           \/ /\ mode' = "global" /\ group' = "GLOBAL" /\ proxy' = now("GLOBAL")
              /\ stored' = st /\ UNCHANGED lost
           \/ /\ mode' = "rule" /\ found /\ group' = g /\ proxy' = now(g)
              /\ stored' = st /\ UNCHANGED lost
           \/ /\ mode' = "rule" /\ ~found /\ gs # <<>>
              /\ group' = gs[1].name /\ proxy' = now(gs[1].name)
              /\ stored' = Written(st, uid', gs[1].name)
              /\ lost' = IF data'.uid # uid' \/ match' # Match[data'.uid] THEN lost \cup {uid'} ELSE lost
           \/ /\ mode' = "rule" /\ gs = <<>> /\ group' = g /\ proxy' = None
              /\ stored' = st /\ UNCHANGED lost

\* The rendering with the mode, the nodes, the rules and the subscription that were
\* fetched; `both' unless only the rules changed.
Follow(both) ==
    /\ IF ~mounted' \/ data'.uid = "" THEN UNCHANGED <<groups, group, proxy, stored, lost>>
       ELSE LET st == IF both /\ mode' = "rule" THEN Migrated(stored, uid') ELSE stored
            IN  ShowGroups(IF both THEN InitialGroup(data', uid', mode', st) ELSE group, st)
    /\ late' = (late /\ (~mounted' \/ data'.uid = ""))
    /\ UNCHANGED <<sortType, timer, loops, busy, delay, tests, wanted>>
    /\ Relist /\ Rewatch(checks)

FetchProxies ==
    /\ data' = core /\ owed' = FALSE
    /\ UNCHANGED <<core, uid, mode, match, mounted, steps>> /\ Follow(TRUE)

FetchProfiles ==
    /\ uid # core.uid /\ uid' = core.uid
    /\ UNCHANGED <<core, data, mode, match, mounted, owed, steps>> /\ Follow(TRUE)

FetchRules ==
    /\ match # Match[core.uid] /\ match' = Match[core.uid]
    /\ UNCHANGED <<core, data, uid, mode, mounted, owed, steps>> /\ Follow(FALSE)

FetchMode(m) ==
    /\ UserStep /\ m # mode /\ mode' = m
    /\ UNCHANGED <<core, data, uid, match, mounted, owed>> /\ Follow(TRUE)

\* A rendering for the same answer as before: react-query keeps the object, so that
\* no effect runs.
FetchAgain ==
    /\ owed /\ data = core /\ owed' = FALSE
    /\ UNCHANGED <<fetched, stored, sortType, mounted, view, options, timer, loops, work, notes, steps>>

\* The choice whose timer runs, or else what is shown.
Chosen ==
    IF timer = NoTimer THEN [group |-> group, node |-> proxy]
    ELSE [group |-> timer.group, node |-> timer.node]

\* A choice that has come to nothing: it will be shown, or it is shown before any
\* answer that has it.
Void(gone) ==
    /\ timer' = IF gone /\ timer # NoTimer THEN [timer EXCEPT !.void = TRUE] ELSE timer
    /\ late' = (late \/ (/\ gone /\ timer = NoTimer /\ mounted /\ mode # "direct" /\ groups # <<>>
                         /\ proxy # data.now[group]))

\* The core loads another subscription, and an event says so (AppData).
SwitchProfile(u) ==
    /\ UserStep /\ u # core.uid /\ core' = Fresh(u) /\ owed' = TRUE
    /\ Void(TRUE)
    /\ UNCHANGED <<data, uid, mode, match, stored, sortType, mounted, view, options, loops, work,
                   wanted, lost, unsorted>>

-----------------------------------------------------------------------------
(* What the user does.                                                     *)

HandleGroupChange(i) ==
    /\ UserStep /\ mounted /\ mode = "rule" /\ groups[i].name # group
    /\ group' = groups[i].name /\ proxy' = data.now[group']
    /\ stored' = Written(stored, uid, group')
    /\ wanted' = [wanted EXCEPT ![uid] = group'] /\ lost' = lost \ {uid} /\ late' = FALSE
    /\ UNCHANGED <<fetched, sortType, mounted, groups, choice, busy, delay, tests>>
    /\ Relist /\ Rewatch(checks)

\* changeProxy: a request waits while another one is executed, and replaces the one
\* that waited.
Requested(r) ==
    loops' = IF \E l \in loops : l.here
             THEN {IF l.here THEN [l EXCEPT !.waiting = <<r>>] ELSE l : l \in loops}
             ELSE loops \cup {[here |-> TRUE, running |-> r, waiting |-> <<>>]}

\* STORAGE_KEY_PROXY is written, too; nothing reads it.
HandleProxyChange(n) ==
    /\ UserStep /\ mounted /\ mode # "direct" /\ n # proxy
    /\ timer' = [node |-> n, group |-> group, void |-> FALSE]
    /\ Requested([group |-> group, node |-> n])
    /\ UNCHANGED <<fetched, stored, sortType, mounted, view, options, owed, work, notes>>

\* debouncedSetState, 300 ms after the last choice.
ShowChoice ==
    /\ timer # NoTimer /\ timer' = NoTimer /\ proxy' = timer.node
    /\ late' = (late \/ timer.group # group \/ timer.void)
    /\ UNCHANGED <<fetched, stored, sortType, mounted, groups, group, options, loops, owed, busy,
                   delay, tests, wanted, lost, unsorted, steps>>
    /\ Rewatch(checks)

HandleSortTypeChange ==
    /\ UserStep /\ mounted /\ sortType' = (sortType + 1) % 3
    /\ UNCHANGED <<fetched, stored, mounted, view, choice, busy, delay, tests, wanted, lost, late>>
    /\ Relist /\ Rewatch(checks)

\* Another page, and back: a new card, whose first rendering has what is cached.
Leave ==
    /\ UserStep /\ mounted /\ mounted' = FALSE
    /\ timer' = NoTimer /\ loops' = {[l EXCEPT !.here = FALSE] : l \in loops}
    /\ checks' = {[c EXCEPT !.here = FALSE] : c \in Dispose(checks)}
    /\ groups' = <<>> /\ group' = "" /\ proxy' = None /\ options' = <<>> /\ busy' = FALSE
    /\ late' = FALSE /\ unsorted' = FALSE
    /\ UNCHANGED <<fetched, stored, sortType, owed, delay, tests, wanted, lost>>

Return ==
    /\ UserStep /\ ~mounted /\ mounted' = TRUE
    /\ UNCHANGED <<fetched, owed>> /\ Follow(TRUE)

-----------------------------------------------------------------------------
(* The requests of choices.                                                *)

\* The loop l takes the request that waits, or ends; then onSuccess or onError
\* refreshes the nodes.  That of a card which was left goes on.
Taken(l) ==
    /\ owed' = TRUE
    /\ loops' = (loops \ {l}) \cup
           IF l.waiting = <<>> THEN {} ELSE {[l EXCEPT !.running = l.waiting[1], !.waiting = <<>>]}
    /\ UNCHANGED <<data, uid, mode, match, stored, sortType, mounted, view, options, work,
                   wanted, lost, unsorted, steps>>

Selected(l) ==
    /\ HasGroup(core, l.running.group) /\ l.running.node \in ToSet(Group(core, l.running.group).all)
    /\ core' = [core EXCEPT !.now[l.running.group] = l.running.node]
    /\ Void(~l.here /\ l.running.group = Chosen.group)
    /\ Taken(l)

\* Both attempts failed, which neither stops the timer nor takes back what it showed.
Refused(l) ==
    /\ Void(l.here /\ l.running = Chosen)
    /\ UNCHANGED core /\ Taken(l)

-----------------------------------------------------------------------------
(* The tests.                                                              *)

Begin(rest, c, name, nodes) ==
    /\ tests < MaxTests /\ tests' = tests + 1
    /\ ~busy /\ busy' = TRUE
    /\ delay' = [delay EXCEPT ![name] = [n \in AllNodes |-> IF n \in nodes THEN -2 ELSE @[n]]]
    /\ checks' = rest \cup {[c EXCEPT !.at = "test", !.group = name, !.nodes = nodes]}
    /\ UNCHANGED <<fetched, stored, sortType, mounted, view, options, choice, notes>>

\* checkCurrentProxyDelay by a timer.  One that must not test sets its next timer.
AutoCheck(c) ==
    /\ c.at = "timer" /\ Record(data, proxy) # None
    /\ Begin(checks \ {c}, [c EXCEPT !.sorts = sortType = 1], group, {proxy}) /\ UNCHANGED steps

\* checkCurrentGroupDelay: of a whole group, one at a time.
HandleCheckDelay ==
    /\ UserStep /\ mounted /\ mode # "direct" /\ group # ""
    /\ ~\E c \in checks : c.kind = "manual" /\ c.here
    /\ LET names == IF mode = "global" THEN ToSet(Group(data, "GLOBAL").all)
                    ELSE UNION {ToSet(groups[i].all) : i \in Named(groups, group)}
       IN  names # {} /\ Begin(checks, [Chain EXCEPT !.kind = "manual", !.live = FALSE, !.sorts = TRUE], group, names)

Answered(c, result) ==
    /\ c.at = "test"
    /\ delay' = [delay EXCEPT ![c.group] = [n \in AllNodes |-> IF n \in c.nodes THEN result[n] ELSE @[n]]]
    /\ checks' = (checks \ {c}) \cup {[c EXCEPT !.at = "refresh"]}
    /\ busy' = (busy /\ ~c.here)
    /\ UNCHANGED <<fetched, stored, sortType, mounted, view, options, choice, notes, tests, steps>>

\* The refresh after a test has ended, with new data or not.
Refreshed(c) ==
    /\ c.at = "refresh"
    /\ checks' = (checks \ {c}) \cup IF c.live THEN {Chain} ELSE {}
    /\ UNCHANGED <<fetched, stored, sortType, mounted, view, choice, busy, delay, tests, wanted, lost,
                   late, steps>>
    /\ IF c.here /\ c.sorts THEN Relist ELSE unsorted' = mounted /\ UNCHANGED options

-----------------------------------------------------------------------------
Init ==
    /\ core \in {Fresh(u) : u \in Uids}
    /\ data = [uid |-> "", now |-> [g \in ShownGroups |-> None]]
    /\ uid = "" /\ mode = "rule" /\ match = ""
    /\ stored \in [Uids \cup {""} -> GroupNames \cup {""}]
    /\ sortType \in 0..2
    /\ mounted = TRUE
    /\ groups = <<>> /\ group = "" /\ proxy = None /\ options = <<>>
    /\ timer = NoTimer /\ loops = {} /\ owed = FALSE
    /\ busy = FALSE /\ checks = {} /\ delay = [g \in ShownGroups |-> [n \in AllNodes |-> -1]]
    /\ wanted = stored /\ lost = {} /\ late = FALSE /\ unsorted = FALSE
    /\ steps = 0 /\ tests = 0

Next ==
    \/ FetchProxies \/ FetchAgain \/ FetchProfiles \/ FetchRules
    \/ \E m \in {"rule", "global", "direct"} : FetchMode(m)
    \/ \E u \in Uids : SwitchProfile(u)
    \/ \E i \in 1..Len(groups) : HandleGroupChange(i)
    \/ \E n \in ToSet(options) : HandleProxyChange(n)
    \/ ShowChoice \/ HandleSortTypeChange \/ Leave \/ Return
    \/ \E l \in loops : Selected(l) \/ Refused(l)
    \/ HandleCheckDelay
    \/ \E c \in checks :
        \/ AutoCheck(c) \/ Refreshed(c)
        \/ \E result \in [c.nodes -> Results] : Answered(c, result)

Spec == Init /\ [][Next]_vars

TypeOK ==
    /\ core.uid \in Uids /\ data.uid \in Uids \cup {""} /\ uid \in Uids \cup {""}
    /\ stored \in [Uids \cup {""} -> GroupNames \cup {""}]
    /\ group \in ShownGroups \cup {"DIRECT", ""} /\ proxy \in AllNodes \cup {None}
    /\ ToSet(options) \subseteq AllNodes /\ Cardinality({l \in loops : l.here}) <= 1

-----------------------------------------------------------------------------
(* Properties.                                                             *)

\* The node that the card shows as the current one is that of the core, when no
\* choice is under way and both are of one subscription: neither the timer of a
\* choice nor a test, a mode or another group leaves an older one
\* (current-proxy-card.tsx:544).
CurrentShown ==
    (/\ mounted /\ data.uid = core.uid /\ mode # "direct" /\ groups # <<>>
     /\ timer = NoTimer /\ loops = {} /\ ~owed /\ ~late)
        => proxy = core.now[group]

\* A group that the user chose is shown again after the mode, the page or the
\* subscription changed and came back, as long as the subscription has it
\* (current-proxy-card.tsx:357).
GroupRemembered ==
    (/\ mounted /\ mode = "rule" /\ data.uid # "" /\ uid = data.uid /\ match = Match[uid]
     /\ wanted[uid] # "" /\ Named(groups, wanted[uid]) # {} /\ uid \notin lost)
        => group = wanted[uid]

\* Tests follow one another in a single chain while there is a node to test, and
\* in none when there is not, however often the node, the group or the order
\* changes while one is under way (current-proxy-card.tsx:719).
OneChain ==
    /\ (\E c \in checks : c.live) <=> Watching
    /\ \A c, d \in checks : c.live /\ d.live => c = d
    /\ \A c \in checks : c.at = "timer" => c.live
    /\ busy <=> \E c \in checks : c.at = "test" /\ c.here
    /\ \A c, d \in checks : c.at = "test" /\ c.here /\ d.at = "test" /\ d.here => c = d

\* When tests have ended the list is in the order that was chosen, with what they
\* found (current-proxy-card.tsx:801).
ListOrdered ==
    (mounted /\ ~unsorted /\ \A c \in checks : c.at = "timer") => options = Listed
=============================================================================
