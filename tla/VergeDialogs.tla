----------------------------- MODULE VergeDialogs -----------------------------
(***************************************************************************)
(* Three forms of src/components/setting/mods that save settings of the    *)
(* program: that of the external controller (controller-viewer), the       *)
(* miscellaneous ones (misc-viewer) and those of the automatic backups     *)
(* (auto-backup-settings), with patchVerge of src/hooks/use-verge.ts.      *)
(*                                                                         *)
(* They share no setting, so a behaviour is one of a single form.          *)
(***************************************************************************)
EXTENDS Naturals, Sequences

CONSTANTS
    Addresses, \* texts for the controller; "any" is an unspecified address
    Numbers,   \* numbers that a user types
    NaN,       \* one of them, which stands for a text that is none; greater than 168
    MaxSteps   \* bound: steps of the user

VARIABLES
    dialog,  \* the form of this behaviour
    stored,  \* what the back end has
    seen,    \* of the interface: verge and clashInfo
    open,
    controller, misc, \* the values of the two dialogs
    pendingValues, intervalInputDraft, \* of the automatic backups, none or one
    saving,  \* the save under way, under its lock
    info,    \* a refetch of clashInfo is under way
    told,    \* history: what the last save said that it saved
    steps

forms == <<controller, misc>>
backups == <<pendingValues, intervalInputDraft>>
vars == <<dialog, stored, seen, open, forms, backups, saving, info, told, steps>>

UserStep == steps < MaxSteps /\ steps' = steps + 1
On(d) == dialog = d /\ UserStep /\ open

Close ==
    /\ UserStep /\ open /\ dialog # "backup" /\ open' = FALSE
    /\ UNCHANGED <<dialog, stored, seen, forms, backups, saving, info, told>>

-----------------------------------------------------------------------------
(* patchVerge: the patch, then the settings are fetched again.             *)

\* The part of the back end that `next' changes.
Patched(next) ==
    /\ stored' = next /\ saving' = {[s EXCEPT !.at = "refetch"] : s \in saving}
    /\ UNCHANGED <<dialog, seen, open, forms, backups, info, told, steps>>

Fail ==
    /\ saving' = {}
    /\ UNCHANGED <<dialog, stored, seen, open, forms, info, told, steps>>

Refetch == seen' = [seen EXCEPT !.on = stored.on, !.misc = stored.misc, !.backup = stored.backup]

-----------------------------------------------------------------------------
(* The external controller.                                                *)

Blank(text) == text \in {"", " "}

\* The interface is told an address that it can reach, and a default for one that is none.
ShownAddress(address) == IF address = "any" \/ Blank(address) THEN "local" ELSE address

ShownController == [on |-> seen.on, address |-> seen.address, secret |-> seen.secret]

OpenController ==
    /\ dialog = "controller" /\ UserStep /\ ~open /\ open' = TRUE
    /\ controller' = ShownController
    /\ UNCHANGED <<dialog, stored, seen, misc, backups, saving, info, told>>

EditController(c) ==
    /\ On("controller") /\ saving = {} /\ c # controller /\ controller' = c
    /\ UNCHANGED <<dialog, stored, seen, open, misc, backups, saving, info, told>>
EnableRow == EditController([controller EXCEPT !.on = ~@])
AddressRow ==
    controller.on /\ \E a \in Addresses : EditController([controller EXCEPT !.address = a])
SecretRow ==
    controller.on /\ \E s \in {"", " ", "new"} : EditController([controller EXCEPT !.secret = s])

Save(of, values) ==
    /\ On(of) /\ saving = {} /\ told' = {}
    /\ saving' = {[at |-> "patch", controller |-> controller, misc |-> values]}
    /\ UNCHANGED <<dialog, stored, seen, open, forms, backups, info>>

SaveController == Save("controller", misc)

EnablePatched ==
    /\ dialog = "controller"
    /\ \E s \in saving :
        /\ s.at = "patch"
        /\ Patched([stored EXCEPT !.on = s.controller.on]) \/ (Fail /\ UNCHANGED backups)

\* Only now is it looked whether there is an address and a secret.
Checked ==
    /\ dialog = "controller"
    /\ \E s \in saving :
        /\ s.at = "refetch" /\ Refetch
        /\ saving' = IF s.controller.on /\ (Blank(s.controller.address) \/ Blank(s.controller.secret))
                     THEN {} ELSE {[s EXCEPT !.at = "info"]}
    /\ UNCHANGED <<dialog, stored, open, forms, backups, info, told, steps>>

\* Mutant of the next definition: what the form has now is what is sent.
InfoSent(s) == [stored EXCEPT !.address = controller.address, !.secret = controller.secret]
InfoPatch(s) ==
    IF s.controller.on
    THEN [stored EXCEPT !.address = s.controller.address, !.secret = s.controller.secret]
    ELSE [stored EXCEPT !.address = ""]

\* The core starts again; the file may still fail to be written, after the patch holds.
InfoPatched ==
    /\ \E s \in saving :
        /\ s.at = "info"
        /\ \/ stored' = InfoPatch(s) /\ info' = TRUE /\ open' = FALSE /\ told' = {s}
           \/ stored' \in {stored, InfoPatch(s)} /\ UNCHANGED <<info, open, told>>
    /\ saving' = {}
    /\ UNCHANGED <<dialog, seen, forms, backups, steps>>

InfoRefetched ==
    /\ info /\ info' = FALSE
    /\ seen' = [seen EXCEPT !.address = ShownAddress(stored.address), !.secret = stored.secret]
    /\ UNCHANGED <<dialog, stored, open, forms, backups, saving, told, steps>>

-----------------------------------------------------------------------------
(* The miscellaneous settings.                                             *)

FirstMisc ==
    [level |-> "warn", size |-> 128, count |-> 8, close |-> TRUE, check |-> TRUE, enhanced |-> TRUE,
     columns |-> 6, clean |-> 2, detect |-> TRUE, interval |-> 5, test |-> "", timeout |-> 10000]

\* What the form has before it is first opened.
FirstValues == [FirstMisc EXCEPT !.size = 8, !.count = 12, !.detect = FALSE]

OpenMisc ==
    /\ dialog = "misc" /\ UserStep /\ ~open /\ open' = TRUE /\ misc' = seen.misc
    /\ UNCHANGED <<dialog, stored, seen, controller, backups, saving, info, told>>

EditMisc(m) ==
    /\ On("misc") /\ m # misc /\ misc' = m
    /\ UNCHANGED <<dialog, stored, seen, open, controller, backups, saving, info, told>>

\* Math.max(1, parseInt(text) || default).
AtLeastOne(n, default) == IF n \in {0, NaN} THEN default ELSE n

LevelRow == \E l \in {"trace", "silent"} : EditMisc([misc EXCEPT !.level = l])
SizeRow == \E n \in Numbers : EditMisc([misc EXCEPT !.size = AtLeastOne(n, 128)])
CountRow == \E n \in Numbers : EditMisc([misc EXCEPT !.count = AtLeastOne(n, 1)])
AutoCloseRow == EditMisc([misc EXCEPT !.close = ~@])
AutoCheckRow == EditMisc([misc EXCEPT !.check = ~@])
EnhancedRow == EditMisc([misc EXCEPT !.enhanced = ~@])
ColumnsRow == \E n \in 1..6 : EditMisc([misc EXCEPT !.columns = n])
LogCleanRow == \E n \in 0..4 : EditMisc([misc EXCEPT !.clean = n])
DetectionRow == EditMisc([misc EXCEPT !.detect = ~@])
IntervalRow == misc.detect /\ \E n \in Numbers : EditMisc([misc EXCEPT !.interval = AtLeastOne(n, 1)])
TestRow == \E u \in {"", "url"} : EditMisc([misc EXCEPT !.test = u])
TimeoutRow == \E n \in Numbers : EditMisc([misc EXCEPT !.timeout = n])

\* Mutant of the next definition: the timeout is sent as it was typed.
Typed(m) == m
Sent(m) == [m EXCEPT !.timeout = IF @ \in {0, NaN} THEN 10000 ELSE @]

SaveMisc == Save("misc", Sent(misc))

MiscPatched ==
    /\ dialog = "misc"
    /\ \E s \in saving :
        /\ s.at = "patch"
        /\ Patched([stored EXCEPT !.misc = s.misc]) \/ (Fail /\ UNCHANGED backups)

MiscSaved ==
    /\ dialog = "misc"
    /\ \E s \in saving : s.at = "refetch" /\ Refetch /\ told' = {s}
    /\ saving' = {} /\ open' = FALSE
    /\ UNCHANGED <<dialog, stored, forms, backups, info, steps>>

-----------------------------------------------------------------------------
(* The automatic backups.                                                  *)

\* Values that were sent are shown until the settings are those.
Values == IF pendingValues \in {{}, {seen.backup}} THEN seen.backup ELSE CHOOSE v \in pendingValues : TRUE

\* A patch during another one is dropped by the lock.
ApplyPatch(partial, payload) ==
    IF saving = {}
    THEN /\ pendingValues' = {partial}
         /\ saving' = {[at |-> "patch", backup |-> payload]}
    ELSE UNCHANGED <<pendingValues, saving>>

\* A click leaves the field first, which ends its draft.
ClickSwitch ==
    On("backup") /\ (intervalInputDraft = <<>> \/ ~Values.on) /\ UNCHANGED intervalInputDraft
Rest == UNCHANGED <<dialog, stored, seen, open, forms, info, told>>

HandleScheduleToggle ==
    ApplyPatch([Values EXCEPT !.on = ~@], [stored.backup EXCEPT !.on = ~Values.on, !.hours = Values.hours])
HandleChangeToggle ==
    ApplyPatch([Values EXCEPT !.change = ~@], [stored.backup EXCEPT !.change = ~Values.change])
ScheduleSwitch == ClickSwitch /\ HandleScheduleToggle /\ Rest
ChangeSwitch == ClickSwitch /\ HandleChangeToggle /\ Rest

HandleIntervalInputChange ==
    /\ On("backup") /\ Values.on /\ intervalInputDraft' \in {<<n>> : n \in Numbers}
    /\ UNCHANGED <<pendingValues, saving>> /\ Rest

Clamped(n) == IF n < 1 THEN 1 ELSE IF n > 168 THEN 168 ELSE n

CommitIntervalInput ==
    LET hours == IF intervalInputDraft \in {<<>>, <<NaN>>} THEN Values.hours ELSE Clamped(intervalInputDraft[1])
    IN /\ intervalInputDraft' = <<>>
       /\ IF hours = Values.hours THEN UNCHANGED <<pendingValues, saving>>
          ELSE ApplyPatch([Values EXCEPT !.hours = hours], [stored.backup EXCEPT !.hours = hours])

\* Enter, or the field is left.
IntervalField == On("backup") /\ Values.on /\ intervalInputDraft # <<>> /\ CommitIntervalInput /\ Rest

\* Mutant of the next definition: what was sent stays shown after it failed.
BackupFailedKeeping == UNCHANGED backups
BackupFailed == pendingValues' = {} /\ UNCHANGED intervalInputDraft

BackupPatched ==
    /\ dialog = "backup"
    /\ \E s \in saving :
        /\ s.at = "patch"
        /\ Patched([stored EXCEPT !.backup = s.backup]) \/ (Fail /\ BackupFailed)

BackupSaved ==
    /\ dialog = "backup" /\ \E s \in saving : s.at = "refetch" /\ Refetch
    /\ saving' = {}
    /\ UNCHANGED <<dialog, stored, open, forms, backups, info, told, steps>>

-----------------------------------------------------------------------------

Positive(m) == m.size >= 1 /\ m.count >= 1 /\ m.interval >= 1 /\ m.timeout \notin {0, NaN}

TypeOK ==
    /\ Positive(seen.misc) /\ seen.backup.hours \in 1..168
    /\ intervalInputDraft = <<>> \/ Len(intervalInputDraft) = 1

Init ==
    /\ dialog \in {"controller", "misc", "backup"}
    /\ \E on \in BOOLEAN :
        stored = [on |-> on, address |-> "own", secret |-> "old", misc |-> FirstMisc,
                  backup |-> [on |-> on, hours |-> 24, change |-> TRUE]]
    /\ seen = stored /\ open = (dialog = "backup")
    /\ controller = ShownController /\ misc = FirstValues
    /\ pendingValues = {} /\ intervalInputDraft = <<>> /\ saving = {} /\ info = FALSE
    /\ told = {} /\ steps = 0

Next ==
    \/ Close \/ OpenController \/ EnableRow \/ AddressRow \/ SecretRow \/ SaveController
    \/ EnablePatched \/ Checked \/ InfoPatched \/ InfoRefetched
    \/ OpenMisc \/ LevelRow \/ SizeRow \/ CountRow \/ AutoCloseRow \/ AutoCheckRow \/ EnhancedRow
    \/ ColumnsRow \/ LogCleanRow \/ DetectionRow \/ IntervalRow \/ TestRow \/ TimeoutRow
    \/ SaveMisc \/ MiscPatched \/ MiscSaved
    \/ ScheduleSwitch \/ ChangeSwitch \/ HandleIntervalInputChange \/ IntervalField
    \/ BackupPatched \/ BackupSaved

Spec == Init /\ [][Next]_vars

-----------------------------------------------------------------------------

\* A save that said it was done has saved what the dialog showed at the click, together,
\* although the dialog was closed and opened again before the second request
\* (controller-viewer.tsx:72).
ControllerSaved ==
    \A s \in told : dialog = "controller" =>
        /\ stored.on = s.controller.on
        /\ stored.on => stored.address = s.controller.address /\ stored.secret = s.controller.secret

\* What is stored of the miscellaneous settings can be used, whatever was typed, and is
\* what the last save said (misc-viewer.tsx:62).
MiscKept ==
    /\ Positive(stored.misc)
    /\ \A s \in told : dialog = "misc" => stored.misc = s.misc

\* Once no patch is under way, the switches and the interval of the backups show what
\* is stored, whether patches succeeded, failed or were dropped
\* (auto-backup-settings.tsx:59).
AutoBackupShown == saving = {} => Values = stored.backup
=============================================================================
