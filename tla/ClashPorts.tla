------------------------------ MODULE ClashPorts ------------------------------
(***************************************************************************)
(* src/components/setting/mods/clash-port-viewer.tsx: the ports of the     *)
(* core.  They are saved twice, in the configuration of the core and in    *)
(* that of the program, by two requests that run at the same time.         *)
(***************************************************************************)
EXTENDS Naturals, FiniteSets

CONSTANTS
    Texts,     \* ports that a user may enter; 0 is an empty field
    MaxSaves,  \* bound: saves that were sent
    MaxSteps   \* bound: steps of the user

Kinds == {"mixed", "socks", "http", "redir", "tproxy"}
Rank == [mixed |-> 1, socks |-> 2, http |-> 3, redir |-> 4, tproxy |-> 5]

VARIABLES
    clash,    \* the ports of the core's configuration
    verge,    \* those of the program, and which are on
    seen,     \* the latter, as the interface has it
    open, values, original, \* of the dialog
    checking, \* the save that asks whether ports are in use, under the lock
    tasks,    \* saves that were sent: saveSettings
    latest,   \* the number of the last of them
    overlapped, \* history: a save was sent while another was under way
    failed,   \* history: one of the two requests failed
    steps

dialog == <<open, values, original>>
vars == <<clash, verge, seen, dialog, checking, tasks, latest, overlapped, failed, steps>>

Saved(v) == [port |-> v.port, on |-> v.on]
UserStep == steps < MaxSteps /\ steps' = steps + 1

-----------------------------------------------------------------------------
(* The form.                                                               *)

Open ==
    /\ UserStep /\ ~open
    /\ open' = TRUE /\ values' = seen /\ original' = seen
    /\ UNCHANGED <<clash, verge, seen, checking, tasks, latest, overlapped, failed>>

Close ==
    /\ UserStep /\ open /\ open' = FALSE
    /\ UNCHANGED <<clash, verge, seen, values, original, checking, tasks, latest, overlapped, failed>>

Edit(v) ==
    /\ UserStep /\ open /\ values' = v
    /\ UNCHANGED <<clash, verge, seen, open, original, checking, tasks, latest, overlapped, failed>>

\* Text and random port of a kind that is on.
EditPort(k) == values.on[k] /\ \E p \in Texts \ {values.port[k]} : Edit([values EXCEPT !.port[k] = p])
Enable(k) == Edit([values EXCEPT !.on[k] = ~@])

MixedRow == EditPort("mixed")
SocksRow == EditPort("socks") \/ Enable("socks")
HttpRow == EditPort("http") \/ Enable("http")
RedirRow == EditPort("redir") \/ Enable("redir")

-----------------------------------------------------------------------------
(* Saving: onSave, under a lock until the requests are sent.               *)

On(v) == {k \in Kinds : v.on[k]}
Distinct(v) == \A j, k \in On(v) : v.port[j] = v.port[k] => j = k
InRange(v) == \A k \in On(v) : v.port[k] <= 65535

\* changedPorts, and which of them is asked for first
Changed(v, old) == {k \in On(v) : v.port[k] # old.port[k]}
First(kinds) == CHOOSE k \in kinds : \A j \in kinds : Rank[k] <= Rank[j]

None == {}

Save ==
    /\ UserStep /\ open /\ checking = None
    /\ Distinct(values) /\ InRange(values)
    /\ checking' = {[values |-> values, original |-> original, free |-> {}, todo |-> Changed(values, original)]}
    /\ UNCHANGED <<clash, verge, seen, dialog, tasks, latest, overlapped, failed>>

\* isPortInUse of the first of them: one that is in use restores the form.
PortChecked ==
    /\ \E c \in checking :
        /\ c.todo # {}
        /\ \/ /\ checking' = {[c EXCEPT !.todo = @ \ {First(@)}, !.free = @ \cup {c.values.port[First(c.todo)]}]}
              /\ UNCHANGED values
           \/ checking' = None /\ values' = c.original
    /\ UNCHANGED <<clash, verge, seen, open, original, tasks, latest, overlapped, failed, steps>>

\* A call of patchInfo during another one is dropped, and is as one that is done.
InfoStarts == IF \E t \in tasks : t.info = "sent" THEN "dropped" ELSE "sent"

\* Mutant of the next definition: what is sent is what the form has by then.
SendShown(c) ==
    tasks' = tasks \cup {[n |-> latest + 1, values |-> values, original |-> c.original, free |-> c.free,
                          info |-> InfoStarts, verge |-> "sent"]}

\* saveSettings, of the values that were checked.
SendSettings(c) ==
    tasks' = tasks \cup {[n |-> latest + 1, values |-> c.values, original |-> c.original, free |-> c.free,
                          info |-> InfoStarts, verge |-> "sent"]}

Checked ==
    /\ \E c \in checking : c.todo = {} /\ SendSettings(c)
    /\ latest < MaxSaves /\ latest' = latest + 1
    /\ checking' = None
    /\ overlapped' = (overlapped \/ tasks # {})
    /\ UNCHANGED <<clash, verge, seen, dialog, failed, steps>>

-----------------------------------------------------------------------------
(* The two requests.                                                       *)

Update(t, u) == tasks' = (tasks \ {t}) \cup {u}

\* validatePorts: patchInfo refuses ports that the dialog accepts, those that are off
\* included.
Valid(v) == \A k \in Kinds : v.port[k] = 0 \/ v.port[k] \in 1000..65535

\* Of the request, or of validatePorts.
InfoDone(t) ==
    /\ t.info = "sent"
    /\ \/ Valid(t.values) /\ clash' = t.values.port /\ Update(t, [t EXCEPT !.info = "done"]) /\ UNCHANGED failed
       \/ failed' = TRUE /\ Update(t, [t EXCEPT !.info = "failed"]) /\ UNCHANGED clash
    /\ UNCHANGED <<verge, seen, dialog, checking, latest, overlapped, steps>>

VergeDone(t) ==
    /\ t.verge = "sent"
    /\ \/ verge' = Saved(t.values) /\ Update(t, [t EXCEPT !.verge = "fetch"]) /\ UNCHANGED failed
       \/ failed' = TRUE /\ Update(t, [t EXCEPT !.verge = "failed"]) /\ UNCHANGED verge
    /\ UNCHANGED <<clash, seen, dialog, checking, latest, overlapped, steps>>

VergeFetched(t) ==
    /\ t.verge = "fetch" /\ seen' = verge
    /\ Update(t, [t EXCEPT !.verge = "done"])
    /\ UNCHANGED <<clash, verge, dialog, checking, latest, overlapped, failed, steps>>

\* Both are done; the dialog hears only of the last save.
SaveEnds(t) ==
    /\ t.info \in {"done", "dropped"} /\ t.verge = "done"
    /\ tasks' = tasks \ {t}
    /\ open' = (open /\ t.n # latest)
    /\ UNCHANGED <<clash, verge, seen, values, original, checking, latest, overlapped, failed, steps>>

\* Or both have answered and one has failed.
SaveFails(t) ==
    /\ t.info # "sent" /\ t.verge \in {"done", "failed"} /\ "failed" \in {t.info, t.verge}
    /\ tasks' = tasks \ {t}
    /\ UNCHANGED <<clash, verge, seen, dialog, checking, latest, overlapped, failed, steps>>

-----------------------------------------------------------------------------

TypeOK ==
    /\ DOMAIN clash = Kinds /\ DOMAIN verge.port = Kinds /\ DOMAIN values.on = Kinds
    /\ Cardinality(checking) <= 1 /\ latest <= MaxSaves

Default == [port |-> [mixed |-> 7897, socks |-> 7898, http |-> 7899, redir |-> 7895, tproxy |-> 7896],
            on |-> [k \in Kinds |-> k = "mixed"]]

Init ==
    /\ clash = Default.port /\ verge = Default /\ seen = Default
    /\ open = FALSE /\ values = Default /\ original = Default
    /\ checking = None /\ tasks = {} /\ latest = 0 /\ overlapped = FALSE /\ failed = FALSE /\ steps = 0

Next ==
    \/ Open \/ Close \/ MixedRow \/ SocksRow \/ HttpRow \/ RedirRow
    \/ Save \/ PortChecked \/ Checked
    \/ \E t \in tasks : InfoDone(t) \/ VergeDone(t) \/ VergeFetched(t) \/ SaveEnds(t) \/ SaveFails(t)

Spec == Init /\ [][Next]_vars

-----------------------------------------------------------------------------

\* Whatever is entered while ports are checked, what is sent has distinct ports, each of
\* which is as it was or was found free (clash-port-viewer.tsx:150).
SentIsChecked ==
    \A t \in tasks :
        /\ Distinct(t.values) /\ InRange(t.values)
        /\ \A k \in On(t.values) : t.values.port[k] \in t.free \cup {t.original.port[k]}

\* The core and the program have the same ports when no save is under way and none has
\* failed or overlapped (clash-port-viewer.tsx:64).
PortsAgree == tasks = {} /\ ~failed /\ ~overlapped => clash = verge.port
=============================================================================
