------------------------------- MODULE Tunnels -------------------------------
(***************************************************************************)
(* src/components/setting/mods/tunnels-viewer.tsx: the dialog of the       *)
(* tunnels of the core, and what it uses of src/hooks/use-clash.ts.        *)
(*                                                                         *)
(* An entry is checked before it is added to a draft, and one of the       *)
(* checks asks the back end; the user may go on meanwhile.                 *)
(***************************************************************************)
EXTENDS Naturals, Sequences, SequencesExt, FiniteSets

CONSTANTS
    LocalHosts, TargetHosts, \* texts of a user: "" is missing, "bad" is refused
    Groups,   \* the nodes of each group of proxies, a function to sequences
    MaxSteps, \* bound: steps of the user
    MaxAdds   \* bound: additions under way

Ports == {"", "bad", "53"}
Networks == {"tcp", "udp", "tcp+udp"}

VARIABLES
    saved,    \* tunnels of the running configuration
    seen,     \* of the interface: clash.tunnels
    open, expanded, values, draft, \* of the dialog
    adds,     \* calls of handleAdd that wait for isPortInUse
    patching, \* the tunnels that patchClash sends, under its lock
    fetches,  \* calls of handleSave that wait for mutateClash
    kept, deleted, \* history: entries that the draft was opened with or got; and lost
    ids,      \* history: the number of entries that were made
    steps

dialog == <<open, expanded, values, draft>>
history == <<kept, deleted, ids>>
vars == <<saved, seen, dialog, adds, patching, fetches, history, steps>>

Blank == [local |-> "", localPort |-> "", target |-> "", targetPort |-> "",
          network |-> "tcp+udp", group |-> "", proxy |-> ""]
Ids(tunnels) == {tunnels[i].id : i \in DOMAIN tunnels}

UserStep == steps < MaxSteps /\ steps' = steps + 1

-----------------------------------------------------------------------------
(* The form.                                                               *)

Open ==
    /\ UserStep /\ ~open
    /\ open' = TRUE /\ values' = Blank /\ draft' = seen /\ expanded' = (seen = <<>>)
    /\ kept' = Ids(seen) /\ deleted' = {}
    /\ UNCHANGED <<saved, seen, adds, patching, fetches, ids>>

Close ==
    /\ UserStep /\ open /\ open' = FALSE
    /\ UNCHANGED <<saved, seen, expanded, values, draft, adds, patching, fetches, history>>

Expand ==
    /\ UserStep /\ open /\ expanded' = ~expanded
    /\ UNCHANGED <<saved, seen, open, values, draft, adds, patching, fetches, history>>

Change(v) ==
    /\ UserStep /\ open /\ expanded /\ values' = v /\ v # values
    /\ UNCHANGED <<saved, seen, open, expanded, draft, adds, patching, fetches, history>>

ChangeNetwork == \E n \in Networks : Change([values EXCEPT !.network = n])

\* A user fills in each side at once.
ChangeLocal == \E h \in LocalHosts, p \in Ports : Change([values EXCEPT !.local = h, !.localPort = p])
ChangeTarget == \E h \in TargetHosts, p \in Ports : Change([values EXCEPT !.target = h, !.targetPort = p])

\* A group brings its first node; an empty one throws.
ChangeGroup ==
    \/ Change([values EXCEPT !.group = "", !.proxy = ""])
    \/ \E g \in DOMAIN Groups :
        Groups[g] # <<>> /\ Change([values EXCEPT !.group = g, !.proxy = Head(Groups[g])])

ChangeProxy ==
    /\ values.group # ""
    /\ \E n \in ToSet(Groups[values.group]) \cup {""} : Change([values EXCEPT !.proxy = n])

-----------------------------------------------------------------------------
(* Adding and deleting.                                                    *)

Complete(v) == "" \notin {v.local, v.localPort, v.target, v.targetPort}

\* The host of a listener is one of this machine or of its network.
ListenHost(host) == host \in {"localhost", "private"}
Host(host) == host # "bad"

Entry(v) ==
    [network |-> IF v.network = "tcp+udp" THEN {"tcp", "udp"} ELSE {v.network},
     address |-> <<v.local, v.localPort>>, target |-> <<v.target, v.targetPort>>,
     proxy |-> v.proxy, id |-> ids + 1]

\* handleAdd until it asks whether the port is in use.  The values are those of the
\* rendering.
Add ==
    /\ UserStep /\ open /\ expanded
    /\ Complete(values) /\ ListenHost(values.local) /\ values.localPort # "bad"
    /\ Len(adds) < MaxAdds
    /\ adds' = Append(adds, [values |-> values, draft |-> draft])
    /\ UNCHANGED <<saved, seen, dialog, patching, fetches, history>>

\* The checks of the other side, and the new entry; what is typed is cleared.
Accepted(add) == Host(add.values.target) /\ add.values.targetPort # "bad"

\* Mutant of the next definition: the list is that of the rendering.
InsertInto(add) == draft' = Append(add.draft, Entry(add.values))
Insert(add) == draft' = Append(draft, Entry(add.values))

Answered(i) ==
    /\ adds' = RemoveAt(adds, i)
    /\ \/ UNCHANGED <<values, draft, kept, ids>>  \* it is in use
       \/ /\ Accepted(adds[i]) /\ Insert(adds[i])
          /\ values' = [Blank EXCEPT !.group = values.group, !.proxy = values.proxy]
          /\ ids' = ids + 1 /\ kept' = kept \cup {ids'}
    /\ UNCHANGED <<saved, seen, open, expanded, patching, fetches, deleted, steps>>

Delete(i) ==
    /\ UserStep /\ open
    /\ draft' = RemoveAt(draft, i) /\ deleted' = deleted \cup {draft[i].id}
    /\ UNCHANGED <<saved, seen, open, expanded, values, adds, patching, fetches, kept, ids>>

-----------------------------------------------------------------------------
(* Saving.                                                                 *)

\* handleSave has no lock but that of patchClash: a call during another one is dropped,
\* and taken for done.
Save ==
    /\ UserStep /\ open
    /\ IF patching = {} THEN patching' = {draft} /\ UNCHANGED fetches
       ELSE fetches' = fetches + 1 /\ UNCHANGED patching
    /\ UNCHANGED <<saved, seen, dialog, adds, history>>

\* A failure leaves the dialog open.
Patched ==
    /\ \/ \E tunnels \in patching : saved' = tunnels /\ fetches' = fetches + 1
       \/ patching # {} /\ UNCHANGED <<saved, fetches>>
    /\ patching' = {}
    /\ UNCHANGED <<seen, dialog, adds, history, steps>>

\* mutateClash; the dialog is closed.
Fetched ==
    /\ fetches > 0 /\ fetches' = fetches - 1
    /\ seen' = saved /\ open' = FALSE
    /\ UNCHANGED <<saved, expanded, values, draft, adds, patching, history, steps>>

-----------------------------------------------------------------------------

TypeOK ==
    /\ values.network \in Networks /\ values.localPort \in Ports
    /\ Len(adds) <= MaxAdds /\ Cardinality(patching) <= 1 /\ fetches \in Nat

Init ==
    /\ saved = <<>> /\ seen = <<>> /\ open = FALSE /\ expanded = FALSE /\ values = Blank /\ draft = <<>>
    /\ adds = <<>> /\ patching = {} /\ fetches = 0
    /\ kept = {} /\ deleted = {} /\ ids = 0 /\ steps = 0

Next ==
    \/ Open \/ Close \/ Expand
    \/ ChangeNetwork \/ ChangeLocal \/ ChangeTarget \/ ChangeGroup \/ ChangeProxy
    \/ Add \/ \E i \in DOMAIN adds : Answered(i)
    \/ \E i \in DOMAIN draft : Delete(i)
    \/ Save \/ Patched \/ Fetched

Spec == Init /\ [][Next]_vars

-----------------------------------------------------------------------------

\* No addition loses another one or brings back what was deleted while it was checked
\* (tunnels-viewer.tsx:150).
DraftKept ==
    open => /\ Ids(draft) = kept \ deleted
            /\ \A i, j \in DOMAIN draft : i < j => draft[i].id < draft[j].id
=============================================================================
