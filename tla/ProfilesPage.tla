---------------------------- MODULE ProfilesPage ----------------------------
(***************************************************************************)
(* The page of the subscriptions, src/src/pages/profiles.tsx: switching    *)
(* from one to another with switches that replace one another, the         *)
(* reactivation that several operations end with, deleting one or many,    *)
(* importing, adding dropped files and sorting.                            *)
(*                                                                         *)
(* The back end holds the list and the current subscription; the page what *)
(* it has fetched of them.  Calls go on when the page is left.             *)
(***************************************************************************)
EXTENDS Naturals, FiniteSets

CONSTANTS
    Profiles,
    MaxSteps    \* bound: what the user does

None == "none"
Errors == {"legacy tls", "other"}

VARIABLES
    items, cur,     \* the list and the current subscription of the back end
    seen, failed,   \* what useProfiles has fetched, and whether that failed last
    mounted,
    seq,            \* requestSequenceRef
    switching,      \* switchingProfileRef
    calls,          \* runs of activateProfile: number, subscription, step
    aborted,        \* numbers of the runs whose controller was aborted
    timers,         \* runs that wait 50 ms with executeBackgroundTasks
    activatings,    \* subscriptions that are shown as being activated
    enhancing,      \* the lock of onEnhance, and for whom it runs
    deletion,       \* of onDelete and of deleteSelectedProfiles, which have a lock each
    batch, chosen,  \* batchMode and selectedProfiles
    import,         \* step of onImport
    restored,       \* history: the last switch selected its nodes again
    steps

switchVars == <<seq, switching, calls, aborted, timers, restored>>
batchVars == <<batch, chosen>>
vars == <<items, cur, seen, failed, mounted, switchVars, activatings, enhancing, deletion,
          batchVars, import, steps>>

Ways == {"one", "many"}
Idle == [todo |-> {}, current |-> FALSE, at |-> "idle"]
NoDeletion == [w \in Ways |-> Idle]

Calls == [seq : Nat, profile : Profiles, at : {"patch", "logs"}, live : BOOLEAN]

TypeOK ==
    /\ items \subseteq Profiles /\ seen.items \subseteq Profiles
    /\ switching \in Profiles \cup {None} /\ calls \subseteq Calls
    /\ activatings \subseteq Profiles \cup {None} /\ chosen \subseteq Profiles
    /\ enhancing \in {"no", "page", "import"} \cup Ways
    /\ import \in {"idle", "first", "retry", "fetch", "enhance"}

User == mounted /\ steps < MaxSteps /\ steps' = steps + 1

Fetched(it, c) == [items |-> it, current |-> c]

Init ==
    /\ items \in SUBSET Profiles /\ cur \in items \cup {None}
    /\ Cardinality(items) = 2 /\ cur # None
    /\ seen = Fetched(items, cur) /\ failed = FALSE /\ mounted = TRUE
    /\ seq = 0 /\ switching = None /\ calls = {} /\ aborted = {} /\ timers = {}
    /\ activatings = {} /\ enhancing = "no" /\ deletion = NoDeletion
    /\ batch = FALSE /\ chosen = {} /\ import = "idle"
    /\ restored = TRUE /\ steps = 0

\* The buttons above the list.
Header ==
    IF batch THEN {"all", "done"} \cup (IF chosen = {} THEN {} ELSE {"delete"})
    ELSE {"batch", "reactivate"} \cup (IF failed THEN {"emergency"} ELSE {})

\* What the item of a subscription offers: a spinner covers it while it is
\* being activated, and in batch mode the menu chooses instead of deleting.
Offered(p) ==
    IF p \notin seen.items THEN {}
    ELSE {"force"} \cup (IF p \in activatings THEN {} ELSE {"select"})
                   \cup (IF batch THEN {"choose"} ELSE {"delete"})

-----------------------------------------------------------------------------
(* Switching.                                                              *)

\* isRequestOutdated and isOperationAborted.
Outdated(c) == c.seq # seq
Aborted(c) == c.seq \in aborted

\* handleProfileInterrupt: the controller of the run before is aborted.
Interrupt(p) ==
    IF switching \in {None, p} THEN UNCHANGED aborted /\ activatings' = activatings \cup {p}
    ELSE /\ aborted' = aborted \cup {c.seq : c \in {d \in calls : d.seq = seq}}
         /\ activatings' = (activatings \ {switching}) \cup {p}

\* onSelect: not what is being switched to, and what is current only on demand.
Clicked(p, force) ==
    /\ (IF force THEN "force" ELSE "select") \in Offered(p)
    /\ switching # p /\ (force \/ p # seen.current)

\* The first half of activateProfile, up to the call of patchProfiles.
Select(p, force) ==
    /\ User /\ Clicked(p, force)
    /\ seq' = seq + 1 /\ switching' = p
    /\ Interrupt(p)
    /\ calls' = calls \cup {[seq |-> seq', profile |-> p, at |-> "patch", live |-> TRUE]}
    /\ UNCHANGED <<items, cur, seen, failed, mounted, timers, restored, enhancing, deletion,
                   batchVars, import>>

Cleared(c) == switching' = None /\ activatings' = activatings \ {c.profile}

\* Mutant of the next definition: a run cleans up whoever took over.
CleanupAlways(c) == Cleared(c) /\ calls' = calls \ {c}

\* The end of a run: only the run that is still the latest cleans up.
Cleanup(c) ==
    /\ IF switching = c.profile /\ ~Outdated(c)
       THEN Cleared(c)
       ELSE UNCHANGED <<switching, activatings>>
    /\ calls' = calls \ {c}

\* After an error the profiles are fetched, after a refusal unless it was aborted.
Answered(c, answer) ==
    IF c.live /\ (answer = "error" \/ (answer = "refused" /\ ~Aborted(c)))
    THEN seen' = Fetched(items, cur) /\ failed' = FALSE
    ELSE UNCHANGED <<seen, failed>>

\* The answer of patchProfiles: an error ends the run, a refusal does not.
Patched(c, answer) ==
    /\ c \in calls /\ c.at = "patch"
    /\ cur' = IF answer = "done" /\ c.profile \in items THEN c.profile ELSE cur
    /\ Answered(c, answer)
    /\ IF ~c.live THEN calls' = calls \ {c} /\ UNCHANGED <<switching, activatings>>
       ELSE IF Outdated(c) \/ Aborted(c) \/ answer = "error" THEN Cleanup(c)
       ELSE /\ calls' = (calls \ {c}) \cup {[c EXCEPT !.at = "logs"]}
            /\ UNCHANGED <<switching, activatings>>
    /\ UNCHANGED <<items, mounted, seq, aborted, timers, restored, enhancing, deletion,
                   batchVars, import, steps>>

\* mutateLogs has answered: the timer is set and the run ends.
Switched(c) ==
    /\ c \in calls /\ c.at = "logs"
    /\ IF c.live THEN Cleanup(c) ELSE calls' = calls \ {c} /\ UNCHANGED <<switching, activatings>>
    /\ timers' = timers \cup {c}
    /\ UNCHANGED <<items, cur, seen, failed, mounted, seq, aborted, restored, enhancing, deletion,
                   batchVars, import, steps>>

\* executeBackgroundTasks: activateSelected, for the switch that is the latest.
Background(c) ==
    /\ c \in timers /\ timers' = timers \ {c}
    /\ restored' = (~Outdated(c) /\ switching = c.profile /\ ~Aborted(c))
    /\ UNCHANGED <<items, cur, seen, failed, mounted, seq, switching, calls, aborted, activatings,
                   enhancing, deletion, batchVars, import, steps>>

\* The page is left, and comes back with nothing of what it had.
Leave ==
    /\ User /\ mounted' = FALSE
    /\ aborted' = aborted \cup {c.seq : c \in {d \in calls : d.seq = seq /\ switching # None}}
    /\ calls' = {[c EXCEPT !.live = FALSE] : c \in calls}
    /\ timers' = {} /\ switching' = None
    /\ activatings' = {} /\ chosen' = {} /\ batch' = FALSE
    /\ enhancing' = "no" /\ deletion' = NoDeletion /\ import' = "idle"
    /\ UNCHANGED <<items, cur, seen, failed, seq, restored>>

Return ==
    /\ ~mounted /\ mounted' = TRUE
    /\ seen' = Fetched(items, cur) /\ failed' = FALSE
    /\ UNCHANGED <<items, cur, switchVars, activatings, enhancing, deletion, batchVars,
                   import, steps>>

\* useProfiles fetches: profile-changed, or an operation that asks for it.
Fetch(ok) ==
    /\ mounted /\ failed' = ~ok
    /\ seen' = IF ok THEN Fetched(items, cur) ELSE seen
    /\ UNCHANGED <<items, cur, mounted, switchVars, activatings, enhancing, deletion,
                   batchVars, import, steps>>

-----------------------------------------------------------------------------
(* Reactivation.  A lock: a second call while it runs does nothing.        *)

Current == {seen.current} \ {None}

Begin(who) ==
    IF enhancing = "no" /\ switching = None
    THEN enhancing' = who /\ activatings' = activatings \cup Current
    ELSE UNCHANGED <<enhancing, activatings>>

\* The button, the dialog and the editors of the page.
Enhance ==
    /\ User /\ "reactivate" \in Header /\ enhancing = "no" /\ switching = None
    /\ Begin("page")
    /\ UNCHANGED <<items, cur, seen, failed, mounted, switchVars, deletion, batchVars, import>>

\* The button that is shown when the profiles could not be fetched.
Emergency ==
    /\ User /\ "emergency" \in Header
    /\ seen' = Fetched(items, cur) /\ failed' = FALSE
    /\ Begin("page")
    /\ UNCHANGED <<items, cur, mounted, switchVars, deletion, batchVars, import>>

\* enhanceProfiles has answered: only the spinner of a switch stays.
Enhanced ==
    /\ enhancing # "no" /\ enhancing' = "no"
    /\ activatings' = activatings \cap {switching}
    /\ UNCHANGED <<items, cur, seen, failed, mounted, switchVars, deletion, import, batchVars, steps>>

-----------------------------------------------------------------------------
(* Deleting.                                                               *)

\* onDelete, confirmed in the item.
Delete(p) ==
    /\ User /\ "delete" \in Offered(p) /\ deletion["one"] = Idle
    /\ deletion' = [deletion EXCEPT !["one"] = [todo |-> {p}, current |-> seen.current = p,
                                               at |-> "call"]]
    /\ activatings' = {p}
    /\ UNCHANGED <<items, cur, seen, failed, mounted, switchVars, enhancing, batchVars, import>>

\* deleteSelectedProfiles, which does not wait for the other (and costs no step: what
\* is chosen bounds it).
DeleteChosen ==
    /\ mounted /\ "delete" \in Header /\ deletion["many"] = Idle
    /\ deletion' = [deletion EXCEPT !["many"] = [todo |-> chosen, at |-> "call",
                                                current |-> seen.current \in chosen]]
    /\ activatings' = activatings \cup (chosen \cap Current)
    /\ UNCHANGED <<items, cur, seen, failed, mounted, switchVars, enhancing, batchVars, import, steps>>

\* deleteProfile, one after the other; the first failure ends it all.
Deleted(w, p, ok) ==
    /\ deletion[w].at = "call" /\ p \in deletion[w].todo
    /\ IF ok /\ p \in items
       THEN /\ items' = items \ {p}
            /\ cur' = IF cur # p THEN cur
                      ELSE IF items' = {} THEN None ELSE CHOOSE q \in items' : TRUE
            /\ deletion' = [deletion EXCEPT
                               ![w].todo = @ \ {p},
                               ![w].at = IF deletion[w].todo = {p} THEN "after" ELSE "call"]
            /\ UNCHANGED <<activatings>>
       ELSE /\ deletion' = [deletion EXCEPT ![w] = Idle] /\ activatings' = {}
            /\ UNCHANGED <<items, cur>>
    /\ UNCHANGED <<seen, failed, mounted, switchVars, enhancing, batchVars, import, steps>>

\* The profiles are fetched, and a deleted current one is followed by a
\* reactivation, unless one runs already.
AfterDeletion(w) ==
    /\ deletion[w].at = "after"
    /\ seen' = Fetched(items, cur) /\ failed' = FALSE
    /\ IF deletion[w].current THEN Begin(w) ELSE UNCHANGED <<enhancing, activatings>>
    /\ deletion' = [deletion EXCEPT ![w].at = "end"]
    /\ UNCHANGED <<items, cur, mounted, switchVars, batchVars, import, steps>>

EndDeletion(w) ==
    /\ deletion[w].at = "end" /\ enhancing # w
    /\ deletion' = [deletion EXCEPT ![w] = Idle] /\ activatings' = {}
    /\ IF w = "many" THEN batch' = FALSE /\ chosen' = {} ELSE UNCHANGED batchVars
    /\ UNCHANGED <<items, cur, seen, failed, mounted, switchVars, enhancing, import, steps>>

ToggleBatch ==
    /\ User /\ batch' = ~batch
    /\ chosen' = IF batch THEN chosen ELSE {}
    /\ UNCHANGED <<items, cur, seen, failed, mounted, switchVars, activatings, enhancing, deletion, import>>

Choose(p) ==
    /\ User /\ "choose" \in Offered(p)
    /\ chosen' = IF p \in chosen THEN chosen \ {p} ELSE chosen \cup {p}
    /\ UNCHANGED <<items, cur, seen, failed, mounted, switchVars, activatings, enhancing, deletion,
                   batch, import>>

\* The box above the list: whether all are chosen is told by their number.
IsAllSelected == seen.items # {} /\ Cardinality(chosen) = Cardinality(seen.items)

ChooseAll ==
    /\ User /\ "all" \in Header
    /\ chosen' = IF IsAllSelected THEN {} ELSE seen.items
    /\ UNCHANGED <<items, cur, seen, failed, mounted, switchVars, activatings, enhancing, deletion,
                   batch, import>>

-----------------------------------------------------------------------------
(* Adding.                                                                 *)

Import ==
    /\ User /\ import = "idle" /\ import' = "first"
    /\ UNCHANGED <<items, cur, seen, failed, mounted, switchVars, activatings, enhancing, deletion,
                   batchVars>>

\* importProfile: a failure is tried once more through the own proxy, unless the
\* server speaks a TLS that is too old for that as well.
Imported(p, error) ==
    /\ import \in {"first", "retry"}
    /\ IF error = None
       THEN p \notin items /\ items' = items \cup {p} /\ import' = "fetch"
       ELSE /\ import' = IF import = "first" /\ error = "other" THEN "retry" ELSE "idle"
            /\ UNCHANGED items
    /\ UNCHANGED <<cur, seen, failed, mounted, switchVars, activatings, enhancing, deletion,
                   batchVars, steps>>

\* performRobustRefresh, which fetches again when it fails, and reactivates.
Refreshed ==
    /\ \/ /\ import = "fetch" /\ import' = "enhance"
          /\ seen' = Fetched(items, cur) /\ failed' = FALSE /\ Begin("import")
       \/ /\ import = "enhance" /\ enhancing # "import" /\ import' = "idle"
          /\ UNCHANGED <<seen, failed, enhancing, activatings>>
    /\ UNCHANGED <<items, cur, mounted, switchVars, deletion, batchVars, steps>>

\* A dropped file: createProfile, then the profiles are fetched.
Drop(p) ==
    /\ User /\ p \notin items
    /\ items' = items \cup {p} /\ seen' = Fetched(items', cur) /\ failed' = FALSE
    /\ UNCHANGED <<cur, mounted, switchVars, activatings, enhancing, deletion, batchVars, import>>

-----------------------------------------------------------------------------

Next ==
    \/ \E p \in Profiles : \/ \E force \in BOOLEAN : Select(p, force)
                           \/ Delete(p) \/ Choose(p) \/ Drop(p)
                           \/ \E w \in Ways, ok \in BOOLEAN : Deleted(w, p, ok)
                           \/ \E e \in Errors \cup {None} : Imported(p, e)
    \/ \E c \in calls : Switched(c) \/ \E a \in {"done", "refused", "error"} : Patched(c, a)
    \/ \E c \in timers : Background(c)
    \/ Leave \/ Return \/ (\E ok \in BOOLEAN : Fetch(ok)) \/ Enhance \/ Emergency \/ Enhanced
    \/ DeleteChosen \/ (\E w \in Ways : AfterDeletion(w) \/ EndDeletion(w))
    \/ ToggleBatch \/ ChooseAll
    \/ Import \/ Refreshed

Spec == Init /\ [][Next]_vars

-----------------------------------------------------------------------------
(* Properties.                                                             *)

Live == {c \in calls : c.live}

\* The page takes a subscription for one that is being switched to exactly while
\* the latest run for it is under way, however many runs replaced one another,
\* and when nothing is under way no item keeps its spinner (profiles.tsx:543).
SwitchTracked ==
    /\ \A c \in Live : c.seq = seq => switching = c.profile
    /\ (\A c \in Live : c.seq # seq) => switching = None
    /\ (Live = {} /\ enhancing = "no" /\ deletion = NoDeletion) => activatings = {}
=============================================================================
