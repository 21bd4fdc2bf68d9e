--------------------------- MODULE ProxySelection ---------------------------
(***************************************************************************)
(* The choice of a node in a group, from the page of the proxies and from  *)
(* the home card (src/src/hooks/use-proxy-selection.ts, use-profiles.ts).  *)
(*                                                                         *)
(* The core holds what is selected, the file of profiles what is to be     *)
(* selected again, and the interface a copy of each that it fetched at     *)
(* some moment before.                                                     *)
(***************************************************************************)
EXTENDS Naturals, FiniteSets

CONSTANTS
    Groups,     \* the groups of the core, GLOBAL among them
    Nodes,
    Members,    \* [Groups -> SUBSET Nodes]
    Kind,       \* [Groups -> type of the group]
    MaxPatches, \* bound on the calls of patchProfile under way
    MaxClicks,  \* bound on the choices of the user
    MaxReloads  \* bound on the times the core loads the profile

None == "none"

\* No node has the name that stands for none.
ASSUME NodesAssumption == None \notin Nodes
ASSUME BoundsAssumption == {MaxPatches, MaxClicks, MaxReloads} \subseteq Nat

Choice == [group : Groups, node : Nodes]
NoChoice == [group |-> None, node |-> None]
Selections == [Groups -> Nodes \cup {None}]

VARIABLES
    now,        \* what the core has selected
    saved,      \* `selected' of the current profile, in the file
    profiles,   \* `selected' of the current profile, as useProfiles holds it
    pending,    \* pendingRequestRef
    running,    \* the request that executeChange works on
    attempt,    \* 0 while idle, 1 for the request, 2 for its repetition
    closure,    \* `current.selected' of the render that began the loop
    patches,    \* calls of patchProfile that are on their way
    last,       \* history: the last choice of the user
    clicks, reloads     \* how many there were

vars == <<now, saved, profiles, pending, running, attempt, closure,
          patches, last, clicks, reloads>>

TypeOK ==
    /\ now \in Selections /\ saved \in Selections
    /\ profiles \in Selections
    /\ {pending, running, last} \subseteq Choice \cup {NoChoice}
    /\ attempt \in 0 .. 2
    /\ closure \in Selections
    /\ patches \subseteq Selections
    /\ clicks \in 0 .. MaxClicks /\ reloads \in 0 .. MaxReloads

Init ==
    /\ now \in {s \in Selections : \A g \in Groups : s[g] \in Members[g]}
    /\ saved = [g \in Groups |-> None]
    /\ profiles = saved /\ closure = saved
    /\ pending = NoChoice /\ running = NoChoice /\ attempt = 0
    /\ patches = {}
    /\ clicks = 0 /\ reloads = 0
    /\ last = NoChoice

-----------------------------------------------------------------------------
(* changeProxy and its loop.                                               *)

\* flushChangeQueue takes the request that waits, if there is one.
Take(request, base) ==
    /\ running' = request
    /\ attempt' = IF request = NoChoice THEN 0 ELSE 1
    /\ closure' = base
    /\ pending' = NoChoice

\* Mutant of Select: the slot holds the first request that waits.
SelectFirst(g, n) ==
    LET request == [group |-> g, node |-> n] IN
    /\ n \in Members[g]
    /\ Kind[g] \in {"Selector", "URLTest", "Fallback"}
    /\ clicks < MaxClicks /\ clicks' = clicks + 1
    /\ last' = request
    /\ IF attempt = 0 THEN Take(request, profiles)
       ELSE /\ pending' = IF pending = NoChoice THEN request ELSE pending
            /\ UNCHANGED <<running, attempt, closure>>
    /\ UNCHANGED <<now, saved, profiles, patches, reloads>>

\* handleChangeProxy: a click on a node.  Groups that cannot be told are left
\* alone.  The loop, if it does not run, begins with the functions of this render.
Select(g, n) ==
    LET request == [group |-> g, node |-> n] IN
    /\ n \in Members[g]
    /\ Kind[g] \in {"Selector", "URLTest", "Fallback"}
    /\ clicks < MaxClicks /\ clicks' = clicks + 1
    /\ last' = request
    /\ IF attempt = 0 THEN Take(request, profiles)
       ELSE pending' = request /\ UNCHANGED <<running, attempt, closure>>
    /\ UNCHANGED <<now, saved, profiles, patches, reloads>>

\* persistSelection: the selections that the closure knew, with this one added.
Persisted(r) == [closure EXCEPT ![r.group] = r.node]

\* The core has taken the node: save, and take the next request.  The refresh of
\* what the page shows and the closing of old connections change nothing here.
Executed ==
    /\ Cardinality(patches) < MaxPatches
    /\ running # NoChoice
    /\ now' = [now EXCEPT ![running.group] = running.node]
    /\ patches' = patches \cup {Persisted(running)}
    /\ Take(pending, closure)
    /\ UNCHANGED <<saved, profiles, last, clicks, reloads>>

\* The core has refused: once more the same, then onError.
Refused ==
    /\ running # NoChoice
    /\ IF attempt = 1
       THEN attempt' = 2 /\ UNCHANGED <<running, closure, pending>>
       ELSE Take(pending, closure)
    /\ UNCHANGED <<now, saved, profiles, patches, last, clicks, reloads>>

\* patchProfile replaces the whole `selected'.  useProfiles is not told: for a
\* selection patchCurrent does not fetch the profiles again.
Save(p) ==
    /\ p \in patches
    /\ saved' = p
    /\ patches' = patches \ {p}
    /\ UNCHANGED <<now, profiles, pending, running, attempt, closure, last, clicks, reloads>>

\* A page that uses the profiles is mounted, or profile-changed arrives.
FetchProfiles ==
    /\ profiles # saved
    /\ profiles' = saved
    /\ UNCHANGED <<now, saved, pending, running, attempt, closure,
                   patches, last, clicks, reloads>>

\* The core has loaded the profile anew and selects what it likes; the page of
\* the profiles has fetched them.  activateSelected would select what was saved,
\* but its caller always skips it (see ProfilesPage).
Reload(fresh) ==
    /\ reloads < MaxReloads /\ reloads' = reloads + 1
    /\ fresh \in Selections /\ \A g \in Groups : fresh[g] \in Members[g]
    /\ now' = fresh
    /\ profiles' = saved
    /\ UNCHANGED <<saved, pending, running, attempt, closure, patches, last, clicks>>

-----------------------------------------------------------------------------

Next ==
    \/ \E g \in Groups, n \in Nodes : Select(g, n)
    \/ Executed \/ Refused
    \/ \E p \in patches : Save(p)
    \/ FetchProfiles
    \/ \E fresh \in Selections : Reload(fresh)

Spec == Init /\ [][Next]_vars

-----------------------------------------------------------------------------
(* Properties.                                                             *)

\* The requests settle on the last click: the loop ends with the request of that
\* click, which the core has then selected or refused twice.  Requests that
\* arrive while one is executed wait in a single slot, which keeps the latest.
LastChoiceWins ==
    [][(attempt # 0 /\ attempt' = 0) =>
         /\ running = last
         /\ now'[last.group] = last.node \/ attempt = 2]_vars
=============================================================================
