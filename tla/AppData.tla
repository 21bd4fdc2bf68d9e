------------------------------- MODULE AppData -------------------------------
(***************************************************************************)
(* src/providers/app-data-provider.tsx: the data of the core that every    *)
(* page reads, their queries, and the events that ask for new ones.  The   *)
(* button of the providers of proxies (src/components/proxy/              *)
(* provider-button.tsx) and of rules (src/components/rule/                 *)
(* provider-button.tsx) update a provider and ask for the data again.      *)
(*                                                                         *)
(* Only the data of the proxies have a value: 0 before the first answer,   *)
(* then the version that the core had.  Each button is on a page of its    *)
(* own; a behaviour is of one of them, and of the queries that it uses.    *)
(***************************************************************************)
EXTENDS Naturals, Sequences, FiniteSets

CONSTANTS
    Usable,      \* versions of the core with something to show
    MaxVersion,  \* bound: versions of the core
    Grace, Throttle, \* LAST_USABLE_DATA_GRACE_MS, refreshThrottle
    MaxClock,    \* bound: time
    Profiles,    \* the profiles that an event names
    Names,       \* the providers of each kind, a sequence
    MaxSteps     \* bound: events and steps of a user and of the core

Kinds == {"proxy", "rule"}
Refreshes(kind) == \* what follows an update
    IF kind = "proxy" THEN <<"proxies", "proxyProviders">> ELSE <<"rules", "ruleProviders">>

VARIABLES
    kind,     \* of the button of the page
    core,     \* version of the core
    raw,      \* rawProxiesData
    last, since, fallback, timer, \* of useLastUsableData; 0 is none
    badSince, \* history: the time at which what could be shown was lost
    now,
    fetching, loaded, \* queries under way, queries with data
    mounted, registering, listeners, cleanups, \* of the effect that listens
    profileSeen, proxyRefresh, \* its lastProfileId and the two times
    open, updating, jobs, \* of the button
    steps

shownData == <<raw, last, since, fallback, timer, badSince>>
queries == <<fetching, loaded>>
effect == <<mounted, registering, listeners, cleanups, profileSeen, proxyRefresh>>
Queries == {"proxies", Refreshes(kind)[1], Refreshes(kind)[2]}

button == <<kind, open, updating, jobs>>
vars == <<core, shownData, now, queries, effect, button, steps>>

Step == steps < MaxSteps /\ steps' = steps + 1
Time == now < MaxClock /\ now' = now + 1
        /\ UNCHANGED <<core, shownData, queries, effect, button, steps>>

-----------------------------------------------------------------------------
(* The last usable data.                                                   *)

\* What the pages get.
Shown == IF raw \notin Usable /\ fallback /\ last # 0 THEN last ELSE raw

\* Mutant of the next definition: the time starts anew with all data.
SinceNow == now
Since == IF since = 0 THEN now ELSE since

\* The layout effect of a rendering with the data v: the timer of the previous one is
\* cleared.
Receive(v) ==
    /\ raw' = v
    /\ badSince' = IF v \in Usable THEN 0 ELSE IF raw \in Usable THEN now ELSE badSince
    /\ CASE v = raw -> UNCHANGED <<last, since, fallback, timer>>
         [] v # raw /\ v \in Usable -> last' = v /\ since' = 0 /\ fallback' = FALSE /\ timer' = 0
         [] v # raw /\ v \notin Usable /\ last = 0 ->
              since' = 0 /\ fallback' = FALSE /\ timer' = 0 /\ UNCHANGED last
         [] OTHER ->
              /\ since' = Since /\ UNCHANGED last
              /\ fallback' = (now < since' + Grace)
              /\ timer' = IF fallback' THEN since' + Grace ELSE 0

Fallen ==
    /\ timer # 0 /\ now >= timer /\ timer' = 0 /\ fallback' = FALSE
    /\ UNCHANGED <<core, raw, last, since, badSince, now, queries, effect, button, steps>>

-----------------------------------------------------------------------------
(* The queries, and the core.                                              *)

\* A refetch replaces the one under way.
Refetch(qs) == fetching' = fetching \cup (qs \cap Queries) /\ UNCHANGED loaded

\* An answer, or the end of the retries.
Answer(q) ==
    /\ q \in fetching /\ fetching' = fetching \ {q}
    /\ \/ /\ loaded' = loaded \cup {q}
          /\ IF q = "proxies" THEN Receive(core) ELSE UNCHANGED shownData
       \/ UNCHANGED <<loaded, shownData>>
    /\ UNCHANGED <<core, now, effect, button, steps>>

\* activateSelected of use-profiles.ts puts new data in the place of the query's.
Activated ==
    /\ "proxies" \in loaded /\ raw # core /\ Receive(core)
    /\ UNCHANGED <<core, now, queries, effect, button, steps>>

CoreChanges ==
    /\ Step /\ core < MaxVersion /\ core' = core + 1
    /\ UNCHANGED <<shownData, now, queries, effect, button>>

RefreshAll ==
    /\ Step /\ Refetch(Queries)
    /\ UNCHANGED <<core, shownData, now, effect, button>>

-----------------------------------------------------------------------------
(* The events.                                                             *)

Events == <<"profile-changed", "verge://refresh-proxy-config">>

\* Mutant of the next definition: a listener that comes too late is kept.
AddCleanupAlways(e) ==
    listeners' = listeners \cup {e} /\ cleanups' = cleanups \cup {e}
AddCleanup(e) ==
    IF mounted THEN listeners' = listeners \cup {e} /\ cleanups' = cleanups \cup {e}
    ELSE UNCHANGED <<listeners, cleanups>>

\* initializeListeners: one listener after the other, whether or not it fails.
Registered ==
    /\ registering # 0
    /\ AddCleanup(Events[registering]) \/ UNCHANGED <<listeners, cleanups>>
    /\ registering' = IF registering = 1 THEN 2 ELSE 0
    /\ UNCHANGED <<core, shownData, now, queries, mounted, profileSeen, proxyRefresh, button, steps>>

Unmount ==
    /\ Step /\ mounted /\ mounted' = FALSE
    /\ listeners' = listeners \ cleanups
    /\ UNCHANGED <<core, shownData, now, queries, registering, cleanups, profileSeen,
                   proxyRefresh, button>>

HandleProfileChanged(id) ==
    /\ Step /\ Events[1] \in listeners
    /\ ~(profileSeen.id = id /\ now - profileSeen.at < Throttle)
    /\ profileSeen' = [id |-> id, at |-> now]
    /\ Refetch({"rules", "ruleProviders"})
    /\ UNCHANGED <<core, shownData, now, mounted, registering, listeners, cleanups, proxyRefresh, button>>

HandleRefreshProxy ==
    /\ Step /\ Events[2] \in listeners
    /\ now - proxyRefresh > Throttle
    /\ proxyRefresh' = now
    /\ Refetch({"proxies"})
    /\ UNCHANGED <<core, shownData, now, mounted, registering, listeners, cleanups, profileSeen, button>>

-----------------------------------------------------------------------------
(* The button.  A job is a call of updateProvider ("one") or of           *)
(* updateAllProviders ("all"), each under a lock of its own.               *)

Idle == [phase |-> "idle", left |-> <<>>]
SetJob(j, job) == jobs' = [jobs EXCEPT ![j] = job]
Spin(names) == updating' = names

\* There is a button if there are providers.
Open ==
    /\ Step /\ ~open /\ Refreshes(kind)[2] \in loaded /\ open' = TRUE
    /\ UNCHANGED <<core, shownData, now, queries, effect, kind, updating, jobs>>

HandleClose ==
    /\ Step /\ open /\ open' = FALSE
    /\ UNCHANGED <<core, shownData, now, queries, effect, kind, updating, jobs>>

\* The icon of a row is off while the row spins.
UpdateProvider(n) ==
    /\ Step /\ open /\ n \notin updating /\ jobs["one"] = Idle
    /\ SetJob("one", [phase |-> "update", left |-> <<n>>]) /\ Spin(updating \cup {n})
    /\ UNCHANGED <<core, shownData, now, queries, effect, kind, open>>

UpdateAllProviders ==
    /\ Step /\ open /\ jobs["all"] = Idle
    /\ SetJob("all", [phase |-> "update", left |-> Names])
    /\ Spin({Names[i] : i \in DOMAIN Names})
    /\ UNCHANGED <<core, shownData, now, queries, effect, kind, open>>

\* Mutant of the next definition: what failed is not cleared.
EndKeeping(j) ==
    /\ SetJob(j, Idle)
    /\ Spin(IF j = "all" THEN updating ELSE updating \ {Head(jobs[j].left)})
End(j) ==
    /\ SetJob(j, Idle)
    /\ Spin(IF j = "all" THEN {} ELSE updating \ {Head(jobs[j].left)})

OneAnswered ==
    /\ jobs["one"].phase = "update"
    /\ \/ /\ SetJob("one", [jobs["one"] EXCEPT !.phase = "first"])
          /\ Refetch({Refreshes(kind)[1]}) /\ UNCHANGED updating
       \/ End("one") /\ UNCHANGED queries
    /\ UNCHANGED <<core, shownData, now, effect, kind, open, steps>>

\* One that fails keeps spinning until all are done.
AllAnswered ==
    LET left == jobs["all"].left IN
    /\ jobs["all"].phase = "update"
    /\ Spin(updating \ {Head(left)}) \/ UNCHANGED updating
    /\ IF Tail(left) # <<>>
       THEN SetJob("all", [phase |-> "update", left |-> Tail(left)]) /\ UNCHANGED queries
       ELSE SetJob("all", [phase |-> "first", left |-> <<>>]) /\ Refetch({Refreshes(kind)[1]})
    /\ UNCHANGED <<core, shownData, now, effect, kind, open, steps>>

Refreshed(j) ==
    /\ \/ /\ jobs[j].phase = "first" /\ Refreshes(kind)[1] \notin fetching
          /\ SetJob(j, [jobs[j] EXCEPT !.phase = "second"])
          /\ Refetch({Refreshes(kind)[2]}) /\ UNCHANGED updating
       \/ /\ jobs[j].phase = "second" /\ Refreshes(kind)[2] \notin fetching
          /\ End(j) /\ UNCHANGED queries
    /\ UNCHANGED <<core, shownData, now, effect, kind, open, steps>>

UpdateProxyProvider == kind = "proxy" /\ \E i \in DOMAIN Names : UpdateProvider(Names[i])
UpdateRuleProvider == kind = "rule" /\ \E i \in DOMAIN Names : UpdateProvider(Names[i])
UpdateProxyProviders == kind = "proxy" /\ UpdateAllProviders
UpdateRuleProviders == kind = "rule" /\ UpdateAllProviders
ProxyDialog == kind = "proxy" /\ (Open \/ HandleClose)
RuleDialog == kind = "rule" /\ (Open \/ HandleClose)

-----------------------------------------------------------------------------

TypeOK ==
    /\ raw \in 0..MaxVersion /\ last \in Usable \cup {0} /\ fallback \in BOOLEAN
    /\ fetching \subseteq Queries /\ loaded \subseteq Queries /\ registering \in 0..2
    /\ \A j \in {"one", "all"} : jobs[j].phase \in {"idle", "update", "first", "second"}

Init ==
    /\ kind \in Kinds /\ core = 1 /\ raw = 0 /\ last = 0 /\ since = 0 /\ fallback = FALSE /\ timer = 0 /\ badSince = 0
    /\ now = Throttle + 1 /\ fetching = Queries /\ loaded = {}
    /\ mounted = TRUE /\ registering = 1 /\ listeners = {} /\ cleanups = {}
    /\ profileSeen = [id |-> "none", at |-> 0] /\ proxyRefresh = 0
    /\ open = FALSE /\ updating = {} /\ jobs = [j \in {"one", "all"} |-> Idle]
    /\ steps = 0

Next ==
    \/ Time \/ Fallen \/ Activated \/ CoreChanges \/ RefreshAll \/ \E q \in Queries : Answer(q)
    \/ Registered \/ Unmount
    \/ \E id \in Profiles : HandleProfileChanged(id)
    \/ HandleRefreshProxy
    \/ UpdateProxyProvider \/ UpdateProxyProviders \/ ProxyDialog
    \/ UpdateRuleProvider \/ UpdateRuleProviders \/ RuleDialog
    \/ OneAnswered \/ AllAnswered \/ \E j \in {"one", "all"} : Refreshed(j)

Spec == Init /\ [][Next]_vars

-----------------------------------------------------------------------------

\* Data that can be shown are shown at once; without them the last ones stay for the
\* grace, however often the core answers, and a timer ends them
\* (app-data-provider.tsx:83).
LastDataShown ==
    /\ raw \in Usable => Shown = raw
    /\ raw \notin Usable /\ last # 0 =>
        IF now < badSince + Grace THEN Shown = last
        ELSE Shown # raw => timer = badSince + Grace

\* An effect that is gone leaves no listener, even one that was being registered
\* (app-data-provider.tsx:211).
NoListenerLeft == ~mounted => listeners = {}

\* A row spins only while a job may still change it: whatever fails, nothing spins
\* for ever (provider-button.tsx:130).
SpinnersEnd ==
    \A n \in updating :
        jobs["all"] # Idle \/ (jobs["one"] # Idle /\ Head(jobs["one"].left) = n)
=============================================================================
