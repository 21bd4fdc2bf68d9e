---------------------------- MODULE ProfileForm ----------------------------
(***************************************************************************)
(* The dialog that creates a subscription or edits one                     *)
(* (src/src/components/profile/profile-viewer.tsx): its form, the saving   *)
(* with a second attempt through the application's own proxy, and the      *)
(* resets of the form half a second after the dialog is closed.            *)
(***************************************************************************)
EXTENDS Naturals

CONSTANTS
    Uids,       \* subscriptions that exist
    MaxSteps    \* bound: what the user does

Nobody == "nobody"

\* `rest' stands for the options the dialog does not show: the enhancements of the
\* subscription; `interval' for those it shows without a rule.
Options == [with : BOOLEAN, self : BOOLEAN, interval : BOOLEAN, rest : BOOLEAN]
Default == [type |-> "remote", uid |-> Nobody, url |-> FALSE,
            option |-> [with |-> FALSE, self |-> FALSE, interval |-> FALSE, rest |-> FALSE]]

VARIABLES
    stored,     \* options of the subscriptions, and of one that is created
    local,      \* whether a subscription is a file of the user's
    open, openType, form, file,     \* file: fileDataRef
    resets,     \* a reset of the form is due
    saving,     \* handleOk: the form it was called with and the step it awaits
    ended,      \* how the last one ended
    current, activating,    \* profiles.current, and what the page was told last
    steps

form_ == <<open, openType, form, file, resets>>
vars == <<stored, local, form_, saving, ended, current, activating, steps>>

Steps == {"none", "first", "retry", "restore"}
NotSaving == [at |-> "none", type |-> "new", form |-> Default]

TypeOK ==
    /\ stored \in [Uids \cup {Nobody} -> Options] /\ local \in [Uids -> BOOLEAN]
    /\ openType \in {"new", "edit"} /\ {open, file, resets, activating} \subseteq BOOLEAN
    /\ form.option \in Options /\ form.uid \in Uids \cup {Nobody}
    /\ saving.at \in Steps /\ ended \in {"none", "ok", "error"}

\* Subscriptions have what they were created with, and all their enhancements.
Init ==
    /\ local \in [Uids -> BOOLEAN] /\ current \in Uids
    /\ stored \in {[u \in Uids \cup {Nobody} |->
                      [Default.option EXCEPT !.with = w, !.interval = TRUE, !.rest = (u # Nobody)]] :
                   w \in BOOLEAN}
    /\ open = FALSE /\ openType = "new" /\ form = Default /\ file = FALSE /\ resets = FALSE
    /\ saving = NotSaving /\ ended = "none" /\ activating = FALSE /\ steps = 0

User == steps < MaxSteps /\ steps' = steps + 1

-----------------------------------------------------------------------------
(* The form.                                                               *)

Create ==
    /\ ~open /\ User /\ openType' = "new" /\ open' = TRUE
    /\ UNCHANGED <<stored, local, form, file, resets, saving, ended, current, activating>>

\* What the item has is put into the form; the rest of the form stays, an address
\* for one.
Edit(u) ==
    /\ ~open /\ User /\ openType' = "edit" /\ open' = TRUE
    /\ form' = [type |-> IF local[u] THEN "local" ELSE "remote", uid |-> u,
                url |-> form.url \/ ~local[u], option |-> stored[u]]
    /\ UNCHANGED <<stored, local, file, resets, saving, ended, current, activating>>

Fill(f) ==
    /\ open /\ User /\ form' = f
    /\ UNCHANGED <<stored, local, open, openType, file, resets, saving, ended, current, activating>>

IsRemote == form.type = "remote"

ChooseType(t) == t # form.type /\ Fill([form EXCEPT !.type = t])
FillUrl == IsRemote /\ Fill([form EXCEPT !.url = ~@])
FillInterval == Fill([form EXCEPT !.option.interval = ~@])

\* One of the proxies at most: the effects take the other back.
UseSystemProxy(b) == IsRemote /\ Fill([form EXCEPT !.option.with = b, !.option.self = @ /\ ~b])
UseClashProxy(b) == IsRemote /\ Fill([form EXCEPT !.option.self = b, !.option.with = @ /\ ~b])

PickFile ==
    /\ open /\ ~IsRemote /\ openType = "new" /\ User /\ file' = TRUE
    /\ UNCHANGED <<stored, local, open, openType, form, resets, saving, ended, current, activating>>

Close ==
    /\ open /\ User /\ open' = FALSE /\ file' = FALSE /\ resets' = TRUE
    /\ UNCHANGED <<stored, local, openType, form, saving, ended, current, activating>>

\* 500 ms after.  The dialog may be open again.
Reset ==
    /\ resets /\ resets' = FALSE /\ form' = Default
    /\ UNCHANGED <<stored, local, open, openType, file, saving, ended, current, activating, steps>>

-----------------------------------------------------------------------------
(* Saving.                                                                 *)

\* handleOk, a lock, with the values of the form and the kind of the dialog.
Ok ==
    /\ open /\ saving.at = "none" /\ User
    /\ IF IsRemote /\ ~form.url THEN ended' = "error" /\ UNCHANGED saving
       ELSE /\ ended' = "none"
            /\ saving' = [at |-> "first", type |-> openType, form |-> form]
    /\ UNCHANGED <<stored, local, form_, current, activating>>

\* patch_profile puts the options given in the place of those there were; what is
\* not given is not kept.
Patched(o) ==
    stored' = [stored EXCEPT ![IF saving.type = "new" THEN Nobody ELSE saving.form.uid] = o]

Retried == [saving.form.option EXCEPT !.with = FALSE, !.self = TRUE]
Originals == [Default.option EXCEPT !.with = saving.form.option.with,
                                    !.self = saving.form.option.self]

Success ==
    /\ saving' = [saving EXCEPT !.at = "none"] /\ ended' = "ok"
    /\ open' = FALSE /\ resets' = TRUE /\ file' = FALSE
    /\ activating' = (saving.type = "edit" /\ saving.form.uid = current)
    /\ UNCHANGED <<local, openType, form, current, steps>>

Goes(at) ==
    /\ saving' = [saving EXCEPT !.at = at]
    /\ UNCHANGED <<local, form_, ended, current, activating, steps>>

Failure ==
    /\ saving' = [saving EXCEPT !.at = "none"] /\ ended' = "error"
    /\ UNCHANGED <<local, form_, current, activating, steps, stored>>

\* An edit whose form was reset meanwhile has no uid.
NoUid == saving.type = "edit" /\ saving.form.uid = Nobody

First(ok) ==
    /\ saving.at = "first"
    /\ \/ ok /\ ~NoUid /\ Patched(saving.form.option) /\ Success
       \/ (~ok \/ NoUid) /\ saving.form.type = "remote" /\ Goes("retry") /\ UNCHANGED stored
       \/ (~ok \/ NoUid) /\ saving.form.type # "remote" /\ Failure

\* Mutant of the next definition: the setting is not put back.
RetryOnly(ok) ==
    /\ saving.at = "retry"
    /\ \/ ok /\ ~NoUid /\ Patched(Retried) /\ Success
       \/ (~ok \/ NoUid) /\ Failure

Retry(ok) ==
    /\ saving.at = "retry"
    /\ \/ ok /\ ~NoUid /\ Patched(Retried) /\ IF saving.type = "new" THEN Success ELSE Goes("restore")
       \/ (~ok \/ NoUid) /\ Failure

Restore(ok) ==
    /\ saving.at = "restore"
    /\ IF ok THEN Patched(Originals) /\ Success ELSE Failure

-----------------------------------------------------------------------------

Next ==
    \/ Create \/ PickFile \/ Close \/ Reset \/ Ok \/ FillUrl \/ FillInterval
    \/ \E u \in Uids : Edit(u)
    \/ \E t \in {"remote", "local"} : ChooseType(t)
    \/ \E b \in BOOLEAN : UseSystemProxy(b) \/ UseClashProxy(b)
    \/ \E ok \in BOOLEAN : First(ok) \/ Retry(ok) \/ Restore(ok)

Spec == Init /\ [][Next]_vars

-----------------------------------------------------------------------------
(* Properties.                                                             *)

Edited == ended = "ok" /\ saving.type = "edit"

\* An edit that reports success has left the proxy the user chose, even where it
\* took the second attempt, which chooses another (profile-viewer.tsx:169).
ProxyKept ==
    Edited => /\ stored[saving.form.uid].with = saving.form.option.with
              /\ stored[saving.form.uid].self = saving.form.option.self

\* It has left the other options of the form as well: what the second attempt puts
\* back is the setting of the proxies (profile-viewer.tsx:168).
OptionsKept == Edited => stored[saving.form.uid] = saving.form.option
=============================================================================
