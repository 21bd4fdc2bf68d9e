------------------------- MODULE ProfileSwitchProofs -------------------------
(***************************************************************************)
(* The locks and flags of module ProfileSwitch do what they are for, for   *)
(* any callers, profiles and number of commands: operation_lock and        *)
(* async_modify_lock are held exactly inside their sections, whatever the  *)
(* timeout drops; CURRENT_SWITCHING_PROFILE is set exactly while its one   *)
(* switch runs; and no draft of the list outlives that switch.             *)
(*                                                                         *)
(* `Inv` is inductive.  Each lemma proves one of its conjuncts, with one   *)
(* step for each group of actions: calls, the update under operation_lock, *)
(* its timeout, the end of a switch, the changes of the list.              *)
(***************************************************************************)
EXTENDS ProfileSwitch, TLAPS

-----------------------------------------------------------------------------
(* The operations on lists return lists.                                   *)
LEMMA ListFacts ==
    ASSUME NEW l \in List, NEW p \in Profiles
    PROVE  /\ Patch(l, p) \in List /\ Append(l, p) \in List
           /\ Deleted(l, p) \subseteq List
  BY DEF List, Patch, Append, Deleted

(* The invariant holds when the app has started.                           *)
LEMMA InitHolds == Init => Inv
<1> SUFFICES ASSUME Init PROVE Inv
  OBVIOUS
<1> USE ConstantsAssumption, NoDraftAssumption DEF Init
<1>1. data \in List /\ data.current \in Profiles /\ rtDraft \in Config
  BY DEF List, Config
<1>2. ProfileTypes /\ RuntimeTypes /\ CoreTypes
  BY <1>1 DEF ProfileTypes, RuntimeTypes, CoreTypes
<1>3. ControlTypes
  BY <1>1 DEF ControlTypes, Steps, Commands
<1>4. NoteTypes
  BY <1>1, 0 \in 0..MaxOps DEF NoteTypes
<1>5. OpHeld /\ ModHeld
  BY DEF OpHeld, ModHeld, UpdateSteps
<1>6. OneSwitch /\ DraftOwned /\ SwitchSteps /\ BackupKept
  BY DEF OneSwitch, SwitchRuns, DraftOwned, SwitchSteps, BackupKept
<1> QED
  BY <1>2, <1>3, <1>4, <1>5, <1>6 DEF Inv, TypeOK

(* Every step keeps the types of the profile store.                        *)
LEMMA ProfileTypesStep == Inv /\ [Next]_vars => ProfileTypes'
<1> SUFFICES ASSUME Inv, [Next]_vars PROVE ProfileTypes'
  OBVIOUS
<1> USE DEF Inv, TypeOK, ProfileTypes, ControlTypes, Latest, Applied,
        profileVars, vars
<1>1. ASSUME NEW t \in Tasks, Call(t) PROVE ProfileTypes'
  BY <1>1, ListFacts DEF Call, Begin, BeginSwitch, BeginImport, BeginDelete,
       BeginChain, BeginUpdate
<1>2. ASSUME NEW t \in Tasks, AcquireOp(t) \/ Generate(t) \/ Backup(t) \/
                              WriteRun(t)
      PROVE  ProfileTypes'
  BY <1>2 DEF AcquireOp, Generate, Backup, WriteRun, Release, DropBackup,
       FileConfig, RtLatest
<1>3. ASSUME NEW t \in Tasks, SkipReload(t) \/ SendReload(t) \/ Reloaded(t) \/
                              ReloadFailed(t)
      PROVE  ProfileTypes'
  BY <1>3 DEF SkipReload, SendReload, Reloaded, ReloadFailed, Accept,
       DropBackup, Release
<1>4. ASSUME NEW t \in Tasks, Validated(t) \/ ValidationFailed(t) \/
                              StopForRestart(t) \/ Restarted(t) \/
                              RestartFailed(t)
      PROVE  ProfileTypes'
  BY <1>4 DEF Validated, ValidationFailed, StopForRestart, Restarted,
       RestartFailed, Reject, DropBackup, Release, Accept
<1>5. ASSUME NEW t \in Tasks, Cancel(t)
      PROVE  ProfileTypes'
  BY <1>5 DEF Cancel, TimesOut
<1>6. ASSUME NEW t \in Tasks, CommitSwitch(t) \/ DiscardSwitch(t) \/
                              RestorePrevious(t)
      PROVE  ProfileTypes'
  BY <1>6, ListFacts DEF CommitSwitch, DiscardSwitch, RestorePrevious
<1>7. ASSUME NEW t \in Tasks, AcquireModify(t) \/ AppendItem(t) \/
                              AppendFails(t)
      PROVE  ProfileTypes'
  BY <1>7, ListFacts DEF AcquireModify, AppendItem, AppendFails
<1>8. ASSUME NEW t \in Tasks, DeleteItem(t) \/ DeleteFails(t) \/ Save(t)
      PROVE  ProfileTypes'
  BY <1>8, ListFacts DEF DeleteItem, DeleteFails, Save
<1>9. ASSUME NEW t \in Tasks, PublishImport(t) \/ StoreImport(t)
      PROVE  ProfileTypes'
  BY <1>9 DEF PublishImport, StoreImport
<1>10. CASE BeginExit \/ CoreReloads \/ OrphanLoads
  BY <1>10 DEF BeginExit, CoreReloads, OrphanLoads
<1>11. CASE UNCHANGED vars
  BY <1>11
<1> QED
  BY <1>1, <1>2, <1>3, <1>4, <1>5, <1>6, <1>7, <1>8, <1>9, <1>10,
     <1>11 DEF Next, Call, Proceed, Answered

(* Every step keeps the types of the runtime store and its files.          *)
LEMMA RuntimeTypesStep == Inv /\ [Next]_vars => RuntimeTypes'
<1> SUFFICES ASSUME Inv, [Next]_vars PROVE RuntimeTypes'
  OBVIOUS
<1> USE DEF Inv, TypeOK, ProfileTypes, RuntimeTypes, BackupKept, UpdateSteps,
        At, Config, RtLatest, Applied, runtimeVars, vars
<1>1. ASSUME NEW t \in Tasks, Call(t) PROVE RuntimeTypes'
  BY <1>1, ConstantsAssumption, NoDraftAssumption DEF Call, Begin,
       BeginSwitch, BeginImport, BeginDelete, BeginChain, BeginUpdate
<1>2. ASSUME NEW t \in Tasks, AcquireOp(t)
      PROVE  RuntimeTypes'
  BY <1>2 DEF AcquireOp, Release, List, Latest
<1>3. ASSUME NEW t \in Tasks, Generate(t)
      PROVE  RuntimeTypes'
  BY <1>3 DEF Generate, Release
<1>4. ASSUME NEW t \in Tasks, Backup(t)
      PROVE  RuntimeTypes'
  BY <1>4 DEF Backup
<1>5. ASSUME NEW t \in Tasks, WriteRun(t)
      PROVE  RuntimeTypes'
  BY <1>5 DEF WriteRun, Release, DropBackup, FileConfig
<1>6. ASSUME NEW t \in Tasks, SkipReload(t) \/ SendReload(t) \/ Reloaded(t) \/
                              ReloadFailed(t)
      PROVE  RuntimeTypes'
  BY <1>6, ConstantsAssumption, NoDraftAssumption DEF SkipReload, SendReload,
       Reloaded, ReloadFailed, Accept, DropBackup, Release
<1>7. ASSUME NEW t \in Tasks, Validated(t) \/ ValidationFailed(t) \/
                              StopForRestart(t) \/ Restarted(t) \/
                              RestartFailed(t)
      PROVE  RuntimeTypes'
  BY <1>7, ConstantsAssumption, NoDraftAssumption DEF Validated,
       ValidationFailed, StopForRestart, Restarted, RestartFailed, Reject,
       DropBackup, Release, Accept
<1>8. ASSUME NEW t \in Tasks, Cancel(t)
      PROVE  RuntimeTypes'
  BY <1>8 DEF Cancel, TimesOut
<1>9. ASSUME NEW t \in Tasks, CommitSwitch(t) \/ DiscardSwitch(t) \/
                              RestorePrevious(t)
      PROVE  RuntimeTypes'
  BY <1>9 DEF CommitSwitch, DiscardSwitch, RestorePrevious
<1>10. ASSUME NEW t \in Tasks, AcquireModify(t) \/ AppendItem(t) \/
                               AppendFails(t)
      PROVE  RuntimeTypes'
  BY <1>10 DEF AcquireModify, AppendItem, AppendFails
<1>11. ASSUME NEW t \in Tasks, DeleteItem(t) \/ DeleteFails(t) \/ Save(t)
      PROVE  RuntimeTypes'
  BY <1>11 DEF DeleteItem, DeleteFails, Save
<1>12. ASSUME NEW t \in Tasks, PublishImport(t) \/ StoreImport(t)
      PROVE  RuntimeTypes'
  BY <1>12 DEF PublishImport, StoreImport
<1>13. CASE BeginExit \/ CoreReloads \/ OrphanLoads
  BY <1>13 DEF BeginExit, CoreReloads, OrphanLoads
<1>14. CASE UNCHANGED vars
  BY <1>14
<1> QED
  BY <1>1, <1>2, <1>3, <1>4, <1>5, <1>6, <1>7, <1>8, <1>9, <1>10, <1>11,
     <1>12, <1>13, <1>14 DEF Next, Call, Proceed, Answered

(* Every step keeps the types of the core and its requests.                *)
LEMMA CoreTypesStep == Inv /\ [Next]_vars => CoreTypes'
<1> SUFFICES ASSUME Inv, [Next]_vars PROVE CoreTypes'
  OBVIOUS
<1> USE DEF Inv, TypeOK, RuntimeTypes, CoreTypes, coreVars, vars
<1>1. ASSUME NEW t \in Tasks, Call(t) PROVE CoreTypes'
  BY <1>1 DEF Call, Begin, BeginSwitch, BeginImport, BeginDelete, BeginChain,
       BeginUpdate
<1>2. ASSUME NEW t \in Tasks, AcquireOp(t) \/ Generate(t) \/ Backup(t) \/
                              WriteRun(t)
      PROVE  CoreTypes'
  BY <1>2 DEF AcquireOp, Generate, Backup, WriteRun, Release, DropBackup,
       FileConfig, RtLatest
<1>3. ASSUME NEW t \in Tasks, SkipReload(t) \/ SendReload(t) \/ Reloaded(t) \/
                              ReloadFailed(t)
      PROVE  CoreTypes'
  BY <1>3 DEF SkipReload, SendReload, Reloaded, ReloadFailed, Accept,
       DropBackup, Release
<1>4. ASSUME NEW t \in Tasks, Validated(t) \/ ValidationFailed(t) \/
                              StopForRestart(t) \/ Restarted(t) \/
                              RestartFailed(t)
      PROVE  CoreTypes'
  BY <1>4 DEF Validated, ValidationFailed, StopForRestart, Restarted,
       RestartFailed, Reject, DropBackup, Release, Accept
<1>5. ASSUME NEW t \in Tasks, Cancel(t)
      PROVE  CoreTypes'
  BY <1>5 DEF Cancel, TimesOut
<1>6. ASSUME NEW t \in Tasks, CommitSwitch(t) \/ DiscardSwitch(t) \/
                              RestorePrevious(t)
      PROVE  CoreTypes'
  BY <1>6 DEF CommitSwitch, DiscardSwitch, RestorePrevious
<1>7. ASSUME NEW t \in Tasks, AcquireModify(t) \/ AppendItem(t) \/
                              AppendFails(t)
      PROVE  CoreTypes'
  BY <1>7 DEF AcquireModify, AppendItem, AppendFails
<1>8. ASSUME NEW t \in Tasks, DeleteItem(t) \/ DeleteFails(t) \/ Save(t)
      PROVE  CoreTypes'
  BY <1>8 DEF DeleteItem, DeleteFails, Save
<1>9. ASSUME NEW t \in Tasks, PublishImport(t) \/ StoreImport(t)
      PROVE  CoreTypes'
  BY <1>9 DEF PublishImport, StoreImport
<1>10. CASE BeginExit \/ CoreReloads \/ OrphanLoads
  BY <1>10 DEF BeginExit, CoreReloads, OrphanLoads
<1>11. CASE UNCHANGED vars
  BY <1>11
<1> QED
  BY <1>1, <1>2, <1>3, <1>4, <1>5, <1>6, <1>7, <1>8, <1>9, <1>10,
     <1>11 DEF Next, Call, Proceed, Answered

(* Every step keeps the types of locks, flags and program counters.        *)
LEMMA ControlTypesStep == Inv /\ [Next]_vars => ControlTypes'
<1> SUFFICES ASSUME Inv, [Next]_vars PROVE ControlTypes'
  OBVIOUS
<1> USE DEF Inv, TypeOK, ProfileTypes, ControlTypes, Goto, At, controlVars,
        switchVars, commandVars, Steps, UpdateSteps, Commands, vars
<1>1. ASSUME NEW t \in Tasks, NEW p \in Profiles, BeginSwitch(t, p)
      PROVE  ControlTypes'
  BY <1>1 DEF Begin, BeginSwitch, List
<1>2. ASSUME NEW t \in Tasks, NEW p \in Profiles, BeginImport(t, p)
      PROVE  ControlTypes'
  BY <1>2 DEF Begin, BeginImport
<1>3. ASSUME NEW t \in Tasks, NEW p \in Profiles, BeginDelete(t, p)
      PROVE  ControlTypes'
  BY <1>3 DEF Begin, BeginDelete
<1>4. ASSUME NEW t \in Tasks, NEW e \in Edits, BeginChain(t, e)
      PROVE  ControlTypes'
  BY <1>4 DEF Begin, BeginChain
<1>5. ASSUME NEW t \in Tasks, BeginUpdate(t)
      PROVE  ControlTypes'
  BY <1>5 DEF Begin, BeginUpdate
<1>6. ASSUME NEW t \in Tasks, AcquireOp(t) \/ Generate(t) \/ Backup(t) \/
                              WriteRun(t)
      PROVE  ControlTypes'
  BY <1>6 DEF AcquireOp, Generate, Backup, WriteRun, Release, DropBackup,
       FileConfig, RtLatest
<1>7. ASSUME NEW t \in Tasks, SkipReload(t) \/ SendReload(t) \/ Reloaded(t) \/
                              ReloadFailed(t)
      PROVE  ControlTypes'
  BY <1>7 DEF SkipReload, SendReload, Reloaded, ReloadFailed, Accept,
       DropBackup, Release
<1>8. ASSUME NEW t \in Tasks, Validated(t) \/ ValidationFailed(t) \/
                              StopForRestart(t) \/ Restarted(t) \/
                              RestartFailed(t)
      PROVE  ControlTypes'
  BY <1>8 DEF Validated, ValidationFailed, StopForRestart, Restarted,
       RestartFailed, Reject, DropBackup, Release, Accept
<1>9. ASSUME NEW t \in Tasks, Cancel(t)
      PROVE  ControlTypes'
  BY <1>9 DEF Cancel, TimesOut
<1>10. ASSUME NEW t \in Tasks, CommitSwitch(t)
      PROVE  ControlTypes'
  BY <1>10 DEF CommitSwitch
<1>11. ASSUME NEW t \in Tasks, DiscardSwitch(t)
      PROVE  ControlTypes'
  BY <1>11 DEF DiscardSwitch
<1>12. ASSUME NEW t \in Tasks, RestorePrevious(t)
      PROVE  ControlTypes'
  BY <1>12 DEF RestorePrevious, SwitchSteps
<1>13. ASSUME NEW t \in Tasks, AcquireModify(t) \/ AppendItem(t) \/
                               AppendFails(t)
      PROVE  ControlTypes'
  BY <1>13 DEF AcquireModify, AppendItem, AppendFails
<1>14. ASSUME NEW t \in Tasks, DeleteItem(t)
      PROVE  ControlTypes'
  BY <1>14 DEF DeleteItem
<1>15. ASSUME NEW t \in Tasks, DeleteFails(t)
      PROVE  ControlTypes'
  BY <1>15 DEF DeleteFails
<1>16. ASSUME NEW t \in Tasks, Save(t)
      PROVE  ControlTypes'
  BY <1>16 DEF Save
<1>17. ASSUME NEW t \in Tasks, PublishImport(t)
      PROVE  ControlTypes'
  BY <1>17 DEF PublishImport, Applied
<1>18. ASSUME NEW t \in Tasks, StoreImport(t)
      PROVE  ControlTypes'
  BY <1>18 DEF StoreImport
<1>19. CASE BeginExit \/ CoreReloads \/ OrphanLoads
  BY <1>19 DEF BeginExit, CoreReloads, OrphanLoads
<1>20. CASE UNCHANGED vars
  BY <1>20
<1> QED
  BY <1>1, <1>2, <1>3, <1>4, <1>5, <1>6, <1>7, <1>8, <1>9, <1>10, <1>11,
     <1>12, <1>13, <1>14, <1>15, <1>16, <1>17, <1>18, <1>19, <1>20 DEF Next,
     Call, Proceed, Answered

(* Every step keeps the types of the notes.                                *)
LEMMA NoteTypesStep == Inv /\ [Next]_vars => NoteTypes'
<1> SUFFICES ASSUME Inv, [Next]_vars PROVE NoteTypes'
  OBVIOUS
<1> USE DEF Inv, TypeOK, ControlTypes, NoteTypes, history, noteVars, vars
<1>1. ASSUME NEW t \in Tasks, Call(t) PROVE NoteTypes'
  BY <1>1, ConstantsAssumption DEF Call, Begin, BeginSwitch, BeginImport,
       BeginDelete, BeginChain, BeginUpdate
<1>2. ASSUME NEW t \in Tasks, AcquireOp(t) \/ Generate(t) \/ Backup(t) \/
                              WriteRun(t)
      PROVE  NoteTypes'
  BY <1>2 DEF AcquireOp, Generate, Backup, WriteRun, Release, DropBackup,
       FileConfig, RtLatest
<1>3. ASSUME NEW t \in Tasks, SkipReload(t)
      PROVE  NoteTypes'
  BY <1>3 DEF SkipReload
<1>4. ASSUME NEW t \in Tasks, SendReload(t)
      PROVE  NoteTypes'
  BY <1>4 DEF SendReload
<1>5. ASSUME NEW t \in Tasks, Reloaded(t)
      PROVE  NoteTypes'
  BY <1>5 DEF Reloaded, Accept, DropBackup, Release, CoreTypes
<1>6. ASSUME NEW t \in Tasks, ReloadFailed(t)
      PROVE  NoteTypes'
  BY <1>6 DEF ReloadFailed
<1>7. ASSUME NEW t \in Tasks, Validated(t)
      PROVE  NoteTypes'
  BY <1>7 DEF Validated
<1>8. ASSUME NEW t \in Tasks, ValidationFailed(t)
      PROVE  NoteTypes'
  BY <1>8 DEF ValidationFailed, Reject, DropBackup, Release
<1>9. ASSUME NEW t \in Tasks, StopForRestart(t)
      PROVE  NoteTypes'
  BY <1>9 DEF StopForRestart
<1>10. ASSUME NEW t \in Tasks, Restarted(t)
      PROVE  NoteTypes'
  BY <1>10 DEF Restarted, Accept, DropBackup, Release, CoreTypes
<1>11. ASSUME NEW t \in Tasks, RestartFailed(t)
      PROVE  NoteTypes'
  BY <1>11 DEF RestartFailed, Reject, DropBackup, Release
<1>12. ASSUME NEW t \in Tasks, Cancel(t)
      PROVE  NoteTypes'
  BY <1>12 DEF Cancel, TimesOut
<1>13. ASSUME NEW t \in Tasks, CommitSwitch(t) \/ DiscardSwitch(t) \/
                               RestorePrevious(t)
      PROVE  NoteTypes'
  BY <1>13 DEF CommitSwitch, DiscardSwitch, RestorePrevious
<1>14. ASSUME NEW t \in Tasks, AcquireModify(t) \/ AppendItem(t) \/
                               AppendFails(t)
      PROVE  NoteTypes'
  BY <1>14 DEF AcquireModify, AppendItem, AppendFails
<1>15. ASSUME NEW t \in Tasks, DeleteItem(t) \/ DeleteFails(t) \/ Save(t)
      PROVE  NoteTypes'
  BY <1>15 DEF DeleteItem, DeleteFails, Save
<1>16. ASSUME NEW t \in Tasks, PublishImport(t)
      PROVE  NoteTypes'
  BY <1>16 DEF PublishImport
<1>17. ASSUME NEW t \in Tasks, StoreImport(t)
      PROVE  NoteTypes'
  BY <1>17 DEF StoreImport, SwitchSteps, At
<1>18. CASE BeginExit \/ CoreReloads \/ OrphanLoads
  BY <1>18 DEF BeginExit, CoreReloads, OrphanLoads
<1>19. CASE UNCHANGED vars
  BY <1>19
<1> QED
  BY <1>1, <1>2, <1>3, <1>4, <1>5, <1>6, <1>7, <1>8, <1>9, <1>10, <1>11,
     <1>12, <1>13, <1>14, <1>15, <1>16, <1>17, <1>18, <1>19 DEF Next, Call,
     Proceed, Answered

(* operation_lock changes hands only with the program counter.             *)
LEMMA OpHeldStep == Inv /\ [Next]_vars => OpHeld'
<1> SUFFICES ASSUME Inv, [Next]_vars PROVE OpHeld'
  OBVIOUS
<1> USE DEF Inv, TypeOK, ControlTypes, Goto, At, controlVars, Steps,
        UpdateSteps, vars, OpHeld
<1>1. ASSUME NEW t \in Tasks, Call(t) PROVE OpHeld'
  BY <1>1, ConstantsAssumption DEF Call, Begin, BeginSwitch, BeginImport,
       BeginDelete, BeginChain, BeginUpdate
<1>2. ASSUME NEW t \in Tasks, AcquireOp(t) \/ Generate(t) \/ Backup(t) \/
                              WriteRun(t)
      PROVE  OpHeld'
  BY <1>2, ConstantsAssumption DEF AcquireOp, Generate, Backup, WriteRun,
       Release, DropBackup, FileConfig, RtLatest
<1>3. ASSUME NEW t \in Tasks, SkipReload(t) \/ SendReload(t) \/ Reloaded(t) \/
                              ReloadFailed(t)
      PROVE  OpHeld'
  BY <1>3, ConstantsAssumption DEF SkipReload, SendReload, Reloaded,
       ReloadFailed, Accept, DropBackup, Release
<1>4. ASSUME NEW t \in Tasks, Validated(t) \/ ValidationFailed(t) \/
                              StopForRestart(t) \/ Restarted(t) \/
                              RestartFailed(t)
      PROVE  OpHeld'
  BY <1>4, ConstantsAssumption DEF Validated, ValidationFailed,
       StopForRestart, Restarted, RestartFailed, Reject, DropBackup, Release,
       Accept
<1>5. ASSUME NEW t \in Tasks, Cancel(t)
      PROVE  OpHeld'
  BY <1>5, ConstantsAssumption DEF Cancel, TimesOut
<1>6. ASSUME NEW t \in Tasks, CommitSwitch(t) \/ DiscardSwitch(t) \/
                              RestorePrevious(t)
      PROVE  OpHeld'
  BY <1>6, ConstantsAssumption DEF CommitSwitch, DiscardSwitch,
       RestorePrevious
<1>7. ASSUME NEW t \in Tasks, AcquireModify(t) \/ AppendItem(t) \/
                              AppendFails(t)
      PROVE  OpHeld'
  BY <1>7, ConstantsAssumption DEF AcquireModify, AppendItem, AppendFails
<1>8. ASSUME NEW t \in Tasks, DeleteItem(t) \/ DeleteFails(t) \/ Save(t)
      PROVE  OpHeld'
  BY <1>8, ConstantsAssumption DEF DeleteItem, DeleteFails, Save
<1>9. ASSUME NEW t \in Tasks, PublishImport(t) \/ StoreImport(t)
      PROVE  OpHeld'
  BY <1>9, ConstantsAssumption DEF PublishImport, StoreImport
<1>10. CASE BeginExit \/ CoreReloads \/ OrphanLoads
  BY <1>10 DEF BeginExit, CoreReloads, OrphanLoads
<1>11. CASE UNCHANGED vars
  BY <1>11
<1> QED
  BY <1>1, <1>2, <1>3, <1>4, <1>5, <1>6, <1>7, <1>8, <1>9, <1>10,
     <1>11 DEF Next, Call, Proceed, Answered

(* async_modify_lock changes hands only with the program counter.          *)
LEMMA ModHeldStep == Inv /\ [Next]_vars => ModHeld'
<1> SUFFICES ASSUME Inv, [Next]_vars PROVE ModHeld'
  OBVIOUS
<1> USE DEF Inv, TypeOK, ControlTypes, Goto, At, controlVars, Steps,
        UpdateSteps, vars, ModHeld, profileVars
<1>1. ASSUME NEW t \in Tasks, Call(t) PROVE ModHeld'
  BY <1>1, ConstantsAssumption DEF Call, Begin, BeginSwitch, BeginImport,
       BeginDelete, BeginChain, BeginUpdate
<1>2. ASSUME NEW t \in Tasks, AcquireOp(t) \/ Generate(t) \/ Backup(t) \/
                              WriteRun(t)
      PROVE  ModHeld'
  BY <1>2, ConstantsAssumption DEF AcquireOp, Generate, Backup, WriteRun,
       Release, DropBackup, FileConfig, RtLatest
<1>3. ASSUME NEW t \in Tasks, SkipReload(t) \/ SendReload(t) \/ Reloaded(t) \/
                              ReloadFailed(t)
      PROVE  ModHeld'
  BY <1>3, ConstantsAssumption DEF SkipReload, SendReload, Reloaded,
       ReloadFailed, Accept, DropBackup, Release
<1>4. ASSUME NEW t \in Tasks, Validated(t) \/ ValidationFailed(t) \/
                              StopForRestart(t) \/ Restarted(t) \/
                              RestartFailed(t)
      PROVE  ModHeld'
  BY <1>4, ConstantsAssumption DEF Validated, ValidationFailed,
       StopForRestart, Restarted, RestartFailed, Reject, DropBackup, Release,
       Accept
<1>5. ASSUME NEW t \in Tasks, Cancel(t)
      PROVE  ModHeld'
  BY <1>5, ConstantsAssumption DEF Cancel, TimesOut
<1>6. ASSUME NEW t \in Tasks, CommitSwitch(t) \/ DiscardSwitch(t) \/
                              RestorePrevious(t)
      PROVE  ModHeld'
  BY <1>6, ConstantsAssumption DEF CommitSwitch, DiscardSwitch,
       RestorePrevious
<1>7. ASSUME NEW t \in Tasks, AcquireModify(t) \/ AppendItem(t) \/
                              AppendFails(t)
      PROVE  ModHeld'
  BY <1>7, ConstantsAssumption DEF AcquireModify, AppendItem, AppendFails
<1>8. ASSUME NEW t \in Tasks, DeleteItem(t) \/ DeleteFails(t) \/ Save(t)
      PROVE  ModHeld'
  BY <1>8, ConstantsAssumption DEF DeleteItem, DeleteFails, Save
<1>9. ASSUME NEW t \in Tasks, PublishImport(t) \/ StoreImport(t)
      PROVE  ModHeld'
  BY <1>9, ConstantsAssumption DEF PublishImport, StoreImport
<1>10. CASE BeginExit \/ CoreReloads \/ OrphanLoads
  BY <1>10 DEF BeginExit, CoreReloads, OrphanLoads
<1>11. CASE UNCHANGED vars
  BY <1>11
<1> QED
  BY <1>1, <1>2, <1>3, <1>4, <1>5, <1>6, <1>7, <1>8, <1>9, <1>10,
     <1>11 DEF Next, Call, Proceed, Answered

(* The flag is set and given back with the switch it is about.             *)
LEMMA OneSwitchStep == Inv /\ [Next]_vars => OneSwitch'
<1> SUFFICES ASSUME Inv, [Next]_vars PROVE OneSwitch'
  OBVIOUS
<1> USE DEF Inv, TypeOK, ControlTypes, Goto, At, controlVars, Steps,
        UpdateSteps, vars, OneSwitch, SwitchRuns, SwitchSteps, switchVars,
        commandVars
<1>1. ASSUME NEW t \in Tasks, Call(t) PROVE OneSwitch'
  BY <1>1 DEF Call, Begin, BeginSwitch, BeginImport, BeginDelete, BeginChain,
       BeginUpdate
<1>2. ASSUME NEW t \in Tasks, AcquireOp(t) \/ Generate(t) \/ Backup(t) \/
                              WriteRun(t)
      PROVE  OneSwitch'
  BY <1>2 DEF AcquireOp, Generate, Backup, WriteRun, Release, DropBackup,
       FileConfig, RtLatest
<1>3. ASSUME NEW t \in Tasks, SkipReload(t) \/ SendReload(t) \/ Reloaded(t) \/
                              ReloadFailed(t)
      PROVE  OneSwitch'
  BY <1>3 DEF SkipReload, SendReload, Reloaded, ReloadFailed, Accept,
       DropBackup, Release
<1>4. ASSUME NEW t \in Tasks, Validated(t) \/ ValidationFailed(t) \/
                              StopForRestart(t) \/ Restarted(t) \/
                              RestartFailed(t)
      PROVE  OneSwitch'
  BY <1>4 DEF Validated, ValidationFailed, StopForRestart, Restarted,
       RestartFailed, Reject, DropBackup, Release, Accept
<1>5. ASSUME NEW t \in Tasks, Cancel(t)
      PROVE  OneSwitch'
  BY <1>5 DEF Cancel, TimesOut
<1>6. ASSUME NEW t \in Tasks, CommitSwitch(t) \/ DiscardSwitch(t) \/
                              RestorePrevious(t)
      PROVE  OneSwitch'
  BY <1>6 DEF CommitSwitch, DiscardSwitch, RestorePrevious
<1>7. ASSUME NEW t \in Tasks, AcquireModify(t) \/ AppendItem(t) \/
                              AppendFails(t)
      PROVE  OneSwitch'
  BY <1>7 DEF AcquireModify, AppendItem, AppendFails
<1>8. ASSUME NEW t \in Tasks, DeleteItem(t)
      PROVE  OneSwitch'
  BY <1>8 DEF DeleteItem
<1>9. ASSUME NEW t \in Tasks, DeleteFails(t)
      PROVE  OneSwitch'
  BY <1>9 DEF DeleteFails
<1>10. ASSUME NEW t \in Tasks, Save(t)
      PROVE  OneSwitch'
  BY <1>10 DEF Save
<1>11. ASSUME NEW t \in Tasks, PublishImport(t)
      PROVE  OneSwitch'
  BY <1>11 DEF PublishImport
<1>12. ASSUME NEW t \in Tasks, StoreImport(t)
      PROVE  OneSwitch'
  BY <1>12 DEF StoreImport
<1>13. CASE BeginExit \/ CoreReloads \/ OrphanLoads
  BY <1>13 DEF BeginExit, CoreReloads, OrphanLoads
<1>14. CASE UNCHANGED vars
  BY <1>14
<1> QED
  BY <1>1, <1>2, <1>3, <1>4, <1>5, <1>6, <1>7, <1>8, <1>9, <1>10, <1>11,
     <1>12, <1>13, <1>14 DEF Next, Call, Proceed, Answered

(* A draft is closed before the flag of its switch is given back.          *)
LEMMA DraftOwnedStep == Inv /\ [Next]_vars => DraftOwned'
<1> SUFFICES ASSUME Inv, [Next]_vars PROVE DraftOwned'
  OBVIOUS
<1> USE DEF Inv, TypeOK, ControlTypes, Goto, At, controlVars, Steps,
        UpdateSteps, vars, OneSwitch, SwitchRuns, SwitchSteps, switchVars,
        commandVars, DraftOwned, profileVars, Applied
<1>1. ASSUME NEW t \in Tasks, Call(t) PROVE DraftOwned'
  BY <1>1 DEF Call, Begin, BeginSwitch, BeginImport, BeginDelete, BeginChain,
       BeginUpdate
<1>2. ASSUME NEW t \in Tasks, AcquireOp(t) \/ Generate(t) \/ Backup(t) \/
                              WriteRun(t)
      PROVE  DraftOwned'
  BY <1>2 DEF AcquireOp, Generate, Backup, WriteRun, Release, DropBackup,
       FileConfig, RtLatest
<1>3. ASSUME NEW t \in Tasks, SkipReload(t) \/ SendReload(t) \/ Reloaded(t) \/
                              ReloadFailed(t)
      PROVE  DraftOwned'
  BY <1>3 DEF SkipReload, SendReload, Reloaded, ReloadFailed, Accept,
       DropBackup, Release
<1>4. ASSUME NEW t \in Tasks, Validated(t) \/ ValidationFailed(t) \/
                              StopForRestart(t) \/ Restarted(t) \/
                              RestartFailed(t)
      PROVE  DraftOwned'
  BY <1>4 DEF Validated, ValidationFailed, StopForRestart, Restarted,
       RestartFailed, Reject, DropBackup, Release, Accept
<1>5. ASSUME NEW t \in Tasks, Cancel(t)
      PROVE  DraftOwned'
  BY <1>5 DEF Cancel, TimesOut
<1>6. ASSUME NEW t \in Tasks, CommitSwitch(t) \/ DiscardSwitch(t) \/
                              RestorePrevious(t)
      PROVE  DraftOwned'
  BY <1>6 DEF CommitSwitch, DiscardSwitch, RestorePrevious
<1>7. ASSUME NEW t \in Tasks, AcquireModify(t) \/ AppendItem(t) \/
                              AppendFails(t)
      PROVE  DraftOwned'
  BY <1>7 DEF AcquireModify, AppendItem, AppendFails
<1>8. ASSUME NEW t \in Tasks, DeleteItem(t) \/ DeleteFails(t) \/ Save(t)
      PROVE  DraftOwned'
  BY <1>8 DEF DeleteItem, DeleteFails, Save
<1>9. ASSUME NEW t \in Tasks, PublishImport(t) \/ StoreImport(t)
      PROVE  DraftOwned'
  BY <1>9 DEF PublishImport, StoreImport
<1>10. CASE BeginExit \/ CoreReloads \/ OrphanLoads
  BY <1>10 DEF BeginExit, CoreReloads, OrphanLoads
<1>11. CASE UNCHANGED vars
  BY <1>11
<1> QED
  BY <1>1, <1>2, <1>3, <1>4, <1>5, <1>6, <1>7, <1>8, <1>9, <1>10,
     <1>11 DEF Next, Call, Proceed, Answered

(* Only a switch waits for a result, and it saves with no draft open.      *)
LEMMA SwitchStepsStep == Inv /\ [Next]_vars => SwitchSteps'
<1> SUFFICES ASSUME Inv, [Next]_vars PROVE SwitchSteps'
  OBVIOUS
<1> USE DEF Inv, TypeOK, ControlTypes, Goto, At, controlVars, Steps,
        UpdateSteps, vars, OneSwitch, SwitchRuns, SwitchSteps, switchVars,
        commandVars, DraftOwned, profileVars, Applied
<1>1. ASSUME NEW t \in Tasks, Call(t) PROVE SwitchSteps'
  BY <1>1 DEF Call, Begin, BeginSwitch, BeginImport, BeginDelete, BeginChain,
       BeginUpdate
<1>2. ASSUME NEW t \in Tasks, AcquireOp(t) \/ Generate(t) \/ Backup(t) \/
                              WriteRun(t)
      PROVE  SwitchSteps'
  BY <1>2 DEF AcquireOp, Generate, Backup, WriteRun, Release, DropBackup,
       FileConfig, RtLatest
<1>3. ASSUME NEW t \in Tasks, SkipReload(t) \/ SendReload(t) \/ Reloaded(t) \/
                              ReloadFailed(t)
      PROVE  SwitchSteps'
  BY <1>3 DEF SkipReload, SendReload, Reloaded, ReloadFailed, Accept,
       DropBackup, Release
<1>4. ASSUME NEW t \in Tasks, Validated(t) \/ ValidationFailed(t) \/
                              StopForRestart(t) \/ Restarted(t) \/
                              RestartFailed(t)
      PROVE  SwitchSteps'
  BY <1>4 DEF Validated, ValidationFailed, StopForRestart, Restarted,
       RestartFailed, Reject, DropBackup, Release, Accept
<1>5. ASSUME NEW t \in Tasks, Cancel(t)
      PROVE  SwitchSteps'
  BY <1>5 DEF Cancel, TimesOut
<1>6. ASSUME NEW t \in Tasks, CommitSwitch(t) \/ DiscardSwitch(t) \/
                              RestorePrevious(t)
      PROVE  SwitchSteps'
  BY <1>6 DEF CommitSwitch, DiscardSwitch, RestorePrevious
<1>7. ASSUME NEW t \in Tasks, AcquireModify(t) \/ AppendItem(t) \/
                              AppendFails(t)
      PROVE  SwitchSteps'
  BY <1>7 DEF AcquireModify, AppendItem, AppendFails
<1>8. ASSUME NEW t \in Tasks, DeleteItem(t) \/ DeleteFails(t) \/ Save(t)
      PROVE  SwitchSteps'
  BY <1>8 DEF DeleteItem, DeleteFails, Save
<1>9. ASSUME NEW t \in Tasks, PublishImport(t) \/ StoreImport(t)
      PROVE  SwitchSteps'
  BY <1>9 DEF PublishImport, StoreImport
<1>10. CASE BeginExit \/ CoreReloads \/ OrphanLoads
  BY <1>10 DEF BeginExit, CoreReloads, OrphanLoads
<1>11. CASE UNCHANGED vars
  BY <1>11
<1> QED
  BY <1>1, <1>2, <1>3, <1>4, <1>5, <1>6, <1>7, <1>8, <1>9, <1>10,
     <1>11 DEF Next, Call, Proceed, Answered

(* A backup is removed only by the operation that made it, as it ends.     *)
LEMMA BackupKeptStep == Inv /\ [Next]_vars => BackupKept'
<1> SUFFICES ASSUME Inv, [Next]_vars PROVE BackupKept'
  OBVIOUS
<1> USE DEF Inv, TypeOK, RuntimeTypes, ControlTypes, OpHeld, BackupKept, Goto,
        At, controlVars, runtimeVars, Steps, UpdateSteps, vars
<1>1. ASSUME NEW t \in Tasks, Call(t) PROVE BackupKept'
  BY <1>1, ConstantsAssumption DEF Call, Begin, BeginSwitch, BeginImport,
       BeginDelete, BeginChain, BeginUpdate
<1>2. ASSUME NEW t \in Tasks, AcquireOp(t)
      PROVE  BackupKept'
  BY <1>2, ConstantsAssumption DEF AcquireOp, Release
<1>3. ASSUME NEW t \in Tasks, Generate(t)
      PROVE  BackupKept'
  BY <1>3, ConstantsAssumption DEF Generate, Release
<1>4. ASSUME NEW t \in Tasks, Backup(t)
      PROVE  BackupKept'
  BY <1>4, ConstantsAssumption, NoDraftAssumption DEF Backup
<1>5. ASSUME NEW t \in Tasks, WriteRun(t)
      PROVE  BackupKept'
  BY <1>5, ConstantsAssumption DEF WriteRun, Release, DropBackup, FileConfig,
       RtLatest
<1>6. ASSUME NEW t \in Tasks, SkipReload(t)
      PROVE  BackupKept'
  BY <1>6, ConstantsAssumption DEF SkipReload
<1>7. ASSUME NEW t \in Tasks, SendReload(t)
      PROVE  BackupKept'
  BY <1>7, ConstantsAssumption DEF SendReload
<1>8. ASSUME NEW t \in Tasks, Reloaded(t)
      PROVE  BackupKept'
  BY <1>8, ConstantsAssumption DEF Reloaded, Accept, DropBackup, Release
<1>9. ASSUME NEW t \in Tasks, ReloadFailed(t)
      PROVE  BackupKept'
  BY <1>9, ConstantsAssumption DEF ReloadFailed
<1>10. ASSUME NEW t \in Tasks, Validated(t) \/ ValidationFailed(t) \/
                               StopForRestart(t) \/ Restarted(t) \/
                               RestartFailed(t)
      PROVE  BackupKept'
  BY <1>10, ConstantsAssumption DEF Validated, ValidationFailed,
       StopForRestart, Restarted, RestartFailed, Reject, DropBackup, Release,
       Accept
<1>11. ASSUME NEW t \in Tasks, Cancel(t)
      PROVE  BackupKept'
  BY <1>11, ConstantsAssumption DEF Cancel, TimesOut
<1>12. ASSUME NEW t \in Tasks, CommitSwitch(t)
      PROVE  BackupKept'
  BY <1>12, ConstantsAssumption DEF CommitSwitch
<1>13. ASSUME NEW t \in Tasks, DiscardSwitch(t)
      PROVE  BackupKept'
  BY <1>13, ConstantsAssumption DEF DiscardSwitch
<1>14. ASSUME NEW t \in Tasks, RestorePrevious(t)
      PROVE  BackupKept'
  BY <1>14, ConstantsAssumption DEF RestorePrevious
<1>15. ASSUME NEW t \in Tasks, AcquireModify(t) \/ AppendItem(t) \/
                               AppendFails(t)
      PROVE  BackupKept'
  <2>1. CASE AcquireModify(t)
    BY <2>1, ConstantsAssumption DEF AcquireModify
  <2>2. CASE AppendItem(t)
    BY <2>2, ConstantsAssumption DEF AppendItem
  <2>3. CASE AppendFails(t)
    BY <2>3, ConstantsAssumption DEF AppendFails
  <2> QED  BY <1>15, <2>1, <2>2, <2>3
<1>16. ASSUME NEW t \in Tasks, DeleteItem(t) \/ DeleteFails(t) \/ Save(t)
      PROVE  BackupKept'
  BY <1>16, ConstantsAssumption DEF DeleteItem, DeleteFails, Save
<1>17. ASSUME NEW t \in Tasks, PublishImport(t) \/ StoreImport(t)
      PROVE  BackupKept'
  BY <1>17, ConstantsAssumption DEF PublishImport, StoreImport
<1>18. CASE BeginExit \/ CoreReloads \/ OrphanLoads
  BY <1>18 DEF BeginExit, CoreReloads, OrphanLoads
<1>19. CASE UNCHANGED vars
  BY <1>19
<1> QED
  BY <1>1, <1>2, <1>3, <1>4, <1>5, <1>6, <1>7, <1>8, <1>9, <1>10, <1>11,
     <1>12, <1>13, <1>14, <1>15, <1>16, <1>17, <1>18, <1>19 DEF Next, Call,
     Proceed, Answered

-----------------------------------------------------------------------------
(* The inductive invariant holds in every reachable state.                 *)
THEOREM InvHolds == Spec => []Inv
<1>1. Init => Inv
  BY InitHolds
<1>2. Inv /\ [Next]_vars => Inv'
  BY ProfileTypesStep, RuntimeTypesStep, CoreTypesStep, ControlTypesStep,
     NoteTypesStep, OpHeldStep, ModHeldStep, OneSwitchStep, DraftOwnedStep,
     SwitchStepsStep, BackupKeptStep DEF Inv, TypeOK
<1> QED
  BY <1>1, <1>2, PTL DEF Spec

-----------------------------------------------------------------------------
(* The properties of the runs.  They hold for the commands that keep them: *)
(* each theorem says which must not be called, and README.md what happens  *)
(* then.  A task never shows a command that is not called.                 *)
Called == \A t \in Tasks :
    /\ kind[t] \in Kinds \cup {"update", "restore"}
    /\ kind[t] = "restore" => "switch" \in Kinds

(* A task takes the kind of the command that is called.                    *)
LEMMA CalledStep == Inv /\ Called /\ [Next]_vars => Called'
<1> SUFFICES ASSUME Inv, Called, [Next]_vars PROVE Called'
  OBVIOUS
<1> USE DEF Inv, TypeOK, ControlTypes, Goto, At, vars, controlVars,
        commandVars, SwitchSteps, Called
<1>1. ASSUME NEW t \in Tasks, Call(t) PROVE Called'
  BY <1>1 DEF Call, Begin, BeginSwitch, BeginImport, BeginDelete, BeginChain,
       BeginUpdate
<1>2. ASSUME NEW t \in Tasks, AcquireOp(t) \/ Generate(t) \/ Backup(t) \/
                              WriteRun(t)
      PROVE  Called'
  BY <1>2 DEF AcquireOp, Release, Generate, Backup, WriteRun, DropBackup,
       FileConfig, RtLatest
<1>3. ASSUME NEW t \in Tasks, SkipReload(t) \/ SendReload(t) \/ Reloaded(t) \/
                              ReloadFailed(t)
      PROVE  Called'
  BY <1>3 DEF SkipReload, SendReload, Reloaded, Accept, DropBackup, Release,
       ReloadFailed
<1>4. ASSUME NEW t \in Tasks, Validated(t) \/ ValidationFailed(t) \/
                              StopForRestart(t) \/ Restarted(t) \/
                              RestartFailed(t)
      PROVE  Called'
  BY <1>4 DEF Validated, FileConfig, RtLatest, ValidationFailed, Reject,
       DropBackup, Release, StopForRestart, Restarted, Accept, RestartFailed
<1>5. ASSUME NEW t \in Tasks, Cancel(t)
      PROVE  Called'
  BY <1>5 DEF Cancel, TimesOut
<1>6. ASSUME NEW t \in Tasks, CommitSwitch(t) \/ DiscardSwitch(t) \/
                              RestorePrevious(t)
      PROVE  Called'
  BY <1>6 DEF CommitSwitch, Applied, DiscardSwitch, RestorePrevious
<1>7. ASSUME NEW t \in Tasks, AcquireModify(t) \/ AppendItem(t) \/
                              AppendFails(t)
      PROVE  Called'
  BY <1>7 DEF AcquireModify, AppendItem, AppendFails
<1>8. ASSUME NEW t \in Tasks, DeleteItem(t) \/ DeleteFails(t) \/ Save(t)
      PROVE  Called'
  BY <1>8 DEF DeleteItem, DeleteFails, Save
<1>9. ASSUME NEW t \in Tasks, PublishImport(t) \/ StoreImport(t)
      PROVE  Called'
  BY <1>9 DEF PublishImport, Applied, StoreImport
<1>10. CASE BeginExit \/ CoreReloads \/ OrphanLoads
  BY <1>10 DEF BeginExit, CoreReloads, OrphanLoads
<1>11. CASE UNCHANGED vars
  BY <1>11
<1> QED
  BY <1>1, <1>2, <1>3, <1>4, <1>5, <1>6, <1>7, <1>8, <1>9, <1>10, <1>11 DEF Next,
     Call, Proceed, Answered

THEOREM CalledHolds == Spec => []Called
<1>1. Init => Called
  BY DEF Init, Called
<1>2. Inv /\ Called /\ [Next]_vars => Called'
  BY CalledStep
<1> QED
  BY <1>1, <1>2, InvHolds, PTL DEF Spec

-----------------------------------------------------------------------------
(* profiles.yaml follows the committed list: where they differ and no      *)
(* write failed, somebody is about to save.                                *)
SaveDue == saved # data /\ ~unsaved =>
    \E t \in Tasks : pc[t] \in {"wantSave", "saving"}

(* Whoever changes the list goes on to save it.                            *)
LEMMA SaveDueStep ==
    ASSUME "deeplink" \notin Kinds
    PROVE  Inv /\ Called /\ SaveDue /\ [Next]_vars => SaveDue'
<1> SUFFICES ASSUME Inv, Called, SaveDue, [Next]_vars PROVE SaveDue'
  OBVIOUS
<1> USE DEF Inv, TypeOK, ControlTypes, Goto, At, vars, controlVars,
        commandVars, ModHeld, profileVars, history, noteVars, SaveDue
<1>0. \A t \in Tasks : kind[t] # "deeplink"
  BY DEF Called
<1>1. ASSUME NEW t \in Tasks, Call(t) PROVE SaveDue'
  BY <1>1 DEF Call, Begin, BeginSwitch, BeginImport, BeginDelete, BeginChain,
       BeginUpdate
<1>2. ASSUME NEW t \in Tasks, AcquireOp(t) \/ Generate(t) \/ Backup(t) \/
                              WriteRun(t)
      PROVE  SaveDue'
  BY <1>2 DEF AcquireOp, Release, Generate, Backup, WriteRun, DropBackup,
       FileConfig, RtLatest
<1>3. ASSUME NEW t \in Tasks, SkipReload(t) \/ SendReload(t) \/ Reloaded(t) \/
                              ReloadFailed(t)
      PROVE  SaveDue'
  BY <1>3 DEF SkipReload, SendReload, Reloaded, Accept, DropBackup, Release,
       ReloadFailed
<1>4. ASSUME NEW t \in Tasks, Validated(t) \/ ValidationFailed(t) \/
                              StopForRestart(t) \/ Restarted(t) \/
                              RestartFailed(t)
      PROVE  SaveDue'
  BY <1>4 DEF Validated, FileConfig, RtLatest, ValidationFailed, Reject,
       DropBackup, Release, StopForRestart, Restarted, Accept, RestartFailed
<1>5. ASSUME NEW t \in Tasks, Cancel(t)
      PROVE  SaveDue'
  BY <1>5 DEF Cancel, TimesOut, UpdateSteps
<1>6. ASSUME NEW t \in Tasks, CommitSwitch(t)
      PROVE  SaveDue'
  BY <1>6 DEF CommitSwitch, Applied
<1>7. ASSUME NEW t \in Tasks, DiscardSwitch(t)
      PROVE  SaveDue'
  BY <1>7 DEF DiscardSwitch
<1>8. ASSUME NEW t \in Tasks, RestorePrevious(t)
      PROVE  SaveDue'
  BY <1>8 DEF RestorePrevious, Applied
<1>9. ASSUME NEW t \in Tasks, AcquireModify(t)
      PROVE  SaveDue'
  BY <1>9 DEF AcquireModify
<1>10. ASSUME NEW t \in Tasks, AppendItem(t)
      PROVE  SaveDue'
  BY <1>10, <1>0 DEF AppendItem
<1>11. ASSUME NEW t \in Tasks, AppendFails(t)
      PROVE  SaveDue'
  BY <1>11 DEF AppendFails
<1>12. ASSUME NEW t \in Tasks, DeleteItem(t)
      PROVE  SaveDue'
  BY <1>12 DEF DeleteItem
<1>13. ASSUME NEW t \in Tasks, DeleteFails(t)
      PROVE  SaveDue'
  BY <1>13 DEF DeleteFails
<1>14. ASSUME NEW t \in Tasks, Save(t)
      PROVE  SaveDue'
  BY <1>14 DEF Save
<1>15. ASSUME NEW t \in Tasks, PublishImport(t)
      PROVE  SaveDue'
  BY <1>15, <1>0 DEF PublishImport, SwitchSteps
<1>16. ASSUME NEW t \in Tasks, StoreImport(t)
      PROVE  SaveDue'
  BY <1>16, <1>0 DEF StoreImport, SwitchSteps
<1>17. CASE BeginExit \/ CoreReloads \/ OrphanLoads
  BY <1>17 DEF BeginExit, CoreReloads, OrphanLoads
<1>18. CASE UNCHANGED vars
  BY <1>18
<1> QED
  BY <1>1, <1>2, <1>3, <1>4, <1>5, <1>6, <1>7, <1>8, <1>9, <1>10, <1>11,
     <1>12, <1>13, <1>14, <1>15, <1>16, <1>17, <1>18 DEF Next,
     Call, Proceed, Answered

(* What the next start reads is what the app showed, through any switches, *)
(* imports and deletes; a deep link saves without the lock and is the one  *)
(* command that can undo this (StoreImport).                               *)
THEOREM SavedListAgrees ==
    ASSUME "deeplink" \notin Kinds PROVE Spec => []SavedAgrees
<1>1. Init => SaveDue
  BY DEF Init, SaveDue
<1>2. Inv /\ Called /\ SaveDue /\ [Next]_vars => SaveDue'
  BY SaveDueStep
<1>3. SaveDue => SavedAgrees
  BY DEF SaveDue, SavedAgrees, Quiet, At
<1> QED
  BY <1>1, <1>2, <1>3, InvHolds, CalledHolds, PTL DEF Spec

-----------------------------------------------------------------------------
(* The list of profiles when no switch is made: nobody opens a draft, so   *)
(* every change of the list goes through the clone made under the lock.    *)
NoSwitch == draft = NoDraft /\ \A t \in Tasks : kind[t] \notin {"switch", "restore"}

LEMMA NoSwitchHere ==
    ASSUME "switch" \notin Kinds, Inv, Called PROVE NoSwitch
<1>1. \A t \in Tasks : kind[t] \notin {"switch", "restore"}
  BY DEF Called
<1>2. ~switching
  BY <1>1 DEF Inv, OneSwitch, SwitchRuns
<1> QED
  BY <1>1, <1>2 DEF Inv, DraftOwned, NoSwitch

\* The clone is the list for as long as the lock is held.
BaseCurrent == modLock # None => base = data

\* A delete is about a profile somebody asked to delete, an import past its
\* append is in the list, and so is every import that was reported.
DeletesAsked == \A t \in Tasks :
    kind[t] = "delete" /\ pc[t] \in {"wantMod", "modify"} => arg[t] \in removed
Listed(p) == p \in data.items \cup removed
ImportsListed == \A t \in Tasks :
    (kind[t] = "import" /\ pc[t] \in {"wantSave", "saving"}) \/ pc[t] \in {"publish", "store"}
        => Listed(arg[t])
AckedListed == \A p \in acked : Listed(p)

(* The clone and the list change only as the lock is taken or given back.  *)
LEMMA BaseCurrentStep ==
    ASSUME "switch" \notin Kinds
    PROVE  Inv /\ Called /\ BaseCurrent /\ [Next]_vars => BaseCurrent'
<1> SUFFICES ASSUME Inv, Called, BaseCurrent, [Next]_vars PROVE BaseCurrent'
  OBVIOUS
<1> USE DEF Inv, TypeOK, ControlTypes, Goto, At, vars, controlVars,
        commandVars, ModHeld, profileVars, BaseCurrent
<1>0. draft = NoDraft /\ \A t \in Tasks : kind[t] \notin {"switch", "restore"}
  BY NoSwitchHere DEF NoSwitch
<1>1. ASSUME NEW t \in Tasks, Call(t) PROVE BaseCurrent'
  BY <1>1, ConstantsAssumption DEF Call, Begin, BeginSwitch, BeginImport,
       BeginDelete, BeginChain, BeginUpdate
<1>2. ASSUME NEW t \in Tasks, AcquireOp(t) \/ Generate(t) \/ Backup(t) \/
                              WriteRun(t)
      PROVE  BaseCurrent'
  BY <1>2, ConstantsAssumption DEF AcquireOp, Release, Generate, Backup,
       WriteRun, DropBackup, FileConfig, RtLatest
<1>3. ASSUME NEW t \in Tasks, SkipReload(t) \/ SendReload(t) \/ Reloaded(t) \/
                              ReloadFailed(t)
      PROVE  BaseCurrent'
  BY <1>3, ConstantsAssumption DEF SkipReload, SendReload, Reloaded, Accept,
       DropBackup, Release, ReloadFailed
<1>4. ASSUME NEW t \in Tasks, Validated(t) \/ ValidationFailed(t) \/
                              StopForRestart(t) \/ Restarted(t) \/
                              RestartFailed(t)
      PROVE  BaseCurrent'
  BY <1>4, ConstantsAssumption DEF Validated, FileConfig, RtLatest,
       ValidationFailed, Reject, DropBackup, Release, StopForRestart,
       Restarted, Accept, RestartFailed
<1>5. ASSUME NEW t \in Tasks, Cancel(t)
      PROVE  BaseCurrent'
  BY <1>5, ConstantsAssumption DEF Cancel, TimesOut
<1>6. ASSUME NEW t \in Tasks, CommitSwitch(t)
      PROVE  BaseCurrent'
  BY <1>6, <1>0 DEF CommitSwitch, SwitchSteps
<1>7. ASSUME NEW t \in Tasks, DiscardSwitch(t)
      PROVE  BaseCurrent'
  BY <1>7, <1>0 DEF DiscardSwitch, SwitchSteps
<1>8. ASSUME NEW t \in Tasks, RestorePrevious(t)
      PROVE  BaseCurrent'
  BY <1>8, <1>0 DEF RestorePrevious, SwitchSteps
<1>9. ASSUME NEW t \in Tasks, AcquireModify(t) \/ AppendItem(t) \/
                              AppendFails(t)
      PROVE  BaseCurrent'
  BY <1>9, ConstantsAssumption DEF AcquireModify, AppendItem, AppendFails
<1>10. ASSUME NEW t \in Tasks, DeleteItem(t) \/ DeleteFails(t)
      PROVE  BaseCurrent'
  BY <1>10, ConstantsAssumption DEF DeleteItem, DeleteFails
<1>11. ASSUME NEW t \in Tasks, Save(t)
      PROVE  BaseCurrent'
  BY <1>11, ConstantsAssumption DEF Save
<1>12. ASSUME NEW t \in Tasks, PublishImport(t)
      PROVE  BaseCurrent'
  BY <1>12, <1>0 DEF PublishImport, Applied
<1>13. ASSUME NEW t \in Tasks, StoreImport(t)
      PROVE  BaseCurrent'
  BY <1>13, ConstantsAssumption DEF StoreImport
<1>14. CASE BeginExit \/ CoreReloads \/ OrphanLoads
  BY <1>14 DEF BeginExit, CoreReloads, OrphanLoads
<1>15. CASE UNCHANGED vars
  BY <1>15
<1> QED
  BY <1>1, <1>2, <1>3, <1>4, <1>5, <1>6, <1>7, <1>8, <1>9, <1>10, <1>11,
     <1>12, <1>13, <1>14, <1>15 DEF Next,
     Call, Proceed, Answered

(* The list loses only profiles somebody asked to delete.                  *)
LEMMA ListGrows ==
    ASSUME "switch" \notin Kinds, Inv, Called, BaseCurrent, DeletesAsked, [Next]_vars
    PROVE  \A p : Listed(p) => Listed(p)'
<1> USE DEF Listed
<1> USE DEF Inv, TypeOK, ControlTypes, Goto, At, vars, controlVars,
        commandVars, ModHeld, profileVars, history, noteVars
<1>0. draft = NoDraft /\ \A t \in Tasks : kind[t] \notin {"switch", "restore"}
  BY NoSwitchHere DEF NoSwitch
<1>1. ASSUME NEW t \in Tasks, Call(t) PROVE \A p : Listed(p) => Listed(p)'
  BY <1>1 DEF Call, Begin, BeginSwitch, BeginImport, BeginDelete, BeginChain,
       BeginUpdate
<1>2. ASSUME NEW t \in Tasks, AcquireOp(t) \/ Generate(t) \/ Backup(t) \/
                              WriteRun(t)
      PROVE  \A p : Listed(p) => Listed(p)'
  BY <1>2 DEF AcquireOp, Release, Generate, Backup, WriteRun, DropBackup,
       FileConfig, RtLatest
<1>3. ASSUME NEW t \in Tasks, SkipReload(t) \/ SendReload(t) \/ Reloaded(t) \/
                              ReloadFailed(t)
      PROVE  \A p : Listed(p) => Listed(p)'
  BY <1>3 DEF SkipReload, SendReload, Reloaded, Accept, DropBackup, Release,
       ReloadFailed
<1>4. ASSUME NEW t \in Tasks, Validated(t) \/ ValidationFailed(t) \/
                              StopForRestart(t) \/ Restarted(t) \/
                              RestartFailed(t)
      PROVE  \A p : Listed(p) => Listed(p)'
  BY <1>4 DEF Validated, FileConfig, RtLatest, ValidationFailed, Reject,
       DropBackup, Release, StopForRestart, Restarted, Accept, RestartFailed
<1>5. ASSUME NEW t \in Tasks, Cancel(t)
      PROVE  \A p : Listed(p) => Listed(p)'
  BY <1>5 DEF Cancel, TimesOut
<1>6. ASSUME NEW t \in Tasks, CommitSwitch(t)
      PROVE  \A p : Listed(p) => Listed(p)'
  BY <1>6, <1>0 DEF CommitSwitch, SwitchSteps
<1>7. ASSUME NEW t \in Tasks, DiscardSwitch(t)
      PROVE  \A p : Listed(p) => Listed(p)'
  BY <1>7, <1>0 DEF DiscardSwitch, SwitchSteps
<1>8. ASSUME NEW t \in Tasks, RestorePrevious(t)
      PROVE  \A p : Listed(p) => Listed(p)'
  BY <1>8, <1>0 DEF RestorePrevious, SwitchSteps
<1>9. ASSUME NEW t \in Tasks, AcquireModify(t)
      PROVE  \A p : Listed(p) => Listed(p)'
  BY <1>9 DEF AcquireModify
<1>10. ASSUME NEW t \in Tasks, AppendItem(t)
      PROVE  \A p : Listed(p) => Listed(p)'
  <2>1. modLock = t
    BY <1>10 DEF AppendItem, ModHeld
  <2>2. base = data
    BY <2>1, ConstantsAssumption DEF BaseCurrent
  <2> QED BY <1>10, <2>2 DEF AppendItem, Append
<1>11. ASSUME NEW t \in Tasks, AppendFails(t)
      PROVE  \A p : Listed(p) => Listed(p)'
  BY <1>11 DEF AppendFails
<1>12. ASSUME NEW t \in Tasks, DeleteItem(t)
      PROVE  \A p : Listed(p) => Listed(p)'
  <2>1. modLock = t
    BY <1>12 DEF DeleteItem, ModHeld
  <2>2. base = data /\ arg[t] \in removed
    BY <1>12, <2>1, ConstantsAssumption DEF BaseCurrent, DeletesAsked, DeleteItem
  <2>3. data'.items = data.items \ {arg[t]}
    BY <1>12, <2>2 DEF DeleteItem, Deleted, ProfileTypes, List
  <2> QED BY <1>12, <2>2, <2>3 DEF DeleteItem
<1>13. ASSUME NEW t \in Tasks, DeleteFails(t)
      PROVE  \A p : Listed(p) => Listed(p)'
  BY <1>13 DEF DeleteFails
<1>14. ASSUME NEW t \in Tasks, Save(t)
      PROVE  \A p : Listed(p) => Listed(p)'
  <2>1. modLock = t
    BY <1>14 DEF Save, ModHeld
  <2>2. base = data
    BY <2>1, ConstantsAssumption DEF BaseCurrent
  <2> QED BY <1>14, <2>2 DEF Save
<1>15. ASSUME NEW t \in Tasks, PublishImport(t)
      PROVE  \A p : Listed(p) => Listed(p)'
  BY <1>15, <1>0 DEF PublishImport, Applied
<1>16. ASSUME NEW t \in Tasks, StoreImport(t)
      PROVE  \A p : Listed(p) => Listed(p)'
  BY <1>16 DEF StoreImport
<1>17. CASE BeginExit \/ CoreReloads \/ OrphanLoads
  BY <1>17 DEF BeginExit, CoreReloads, OrphanLoads
<1>18. CASE UNCHANGED vars
  BY <1>18
<1> QED
  BY <1>1, <1>2, <1>3, <1>4, <1>5, <1>6, <1>7, <1>8, <1>9, <1>10, <1>11,
     <1>12, <1>13, <1>14, <1>15, <1>16, <1>17, <1>18 DEF Next,
     Call, Proceed, Answered

(* Calling delete is what asks for it.                                     *)
LEMMA DeletesAskedStep == Inv /\ DeletesAsked /\ [Next]_vars => DeletesAsked'
<1> SUFFICES ASSUME Inv, DeletesAsked, [Next]_vars PROVE DeletesAsked'
  OBVIOUS
<1> USE DEF Inv, TypeOK, ControlTypes, Goto, At, vars, controlVars,
        commandVars, SwitchSteps, history, noteVars, DeletesAsked
<1>1. ASSUME NEW t \in Tasks, NEW p \in Profiles, BeginSwitch(t, p)
      PROVE  DeletesAsked'
  BY <1>1 DEF Begin, BeginSwitch
<1>2. ASSUME NEW t \in Tasks, NEW p \in Profiles, BeginImport(t, p)
      PROVE  DeletesAsked'
  BY <1>2 DEF Begin, BeginImport
<1>3. ASSUME NEW t \in Tasks, NEW p \in Profiles, BeginDelete(t, p)
      PROVE  DeletesAsked'
  BY <1>3 DEF Begin, BeginDelete
<1>4. ASSUME NEW t \in Tasks, NEW e \in Edits, BeginChain(t, e)
      PROVE  DeletesAsked'
  BY <1>4 DEF Begin, BeginChain
<1>5. ASSUME NEW t \in Tasks, BeginUpdate(t)
      PROVE  DeletesAsked'
  BY <1>5 DEF Begin, BeginUpdate
<1>6. ASSUME NEW t \in Tasks, AcquireOp(t) \/ Generate(t) \/ Backup(t) \/
                              WriteRun(t)
      PROVE  DeletesAsked'
  BY <1>6 DEF AcquireOp, Release, Generate, Backup, WriteRun, DropBackup,
       FileConfig, RtLatest
<1>7. ASSUME NEW t \in Tasks, SkipReload(t) \/ SendReload(t) \/ Reloaded(t) \/
                              ReloadFailed(t)
      PROVE  DeletesAsked'
  BY <1>7 DEF SkipReload, SendReload, Reloaded, Accept, DropBackup, Release,
       ReloadFailed
<1>8. ASSUME NEW t \in Tasks, Validated(t) \/ ValidationFailed(t) \/
                              StopForRestart(t) \/ Restarted(t) \/
                              RestartFailed(t)
      PROVE  DeletesAsked'
  BY <1>8 DEF Validated, FileConfig, RtLatest, ValidationFailed, Reject,
       DropBackup, Release, StopForRestart, Restarted, Accept, RestartFailed
<1>9. ASSUME NEW t \in Tasks, Cancel(t)
      PROVE  DeletesAsked'
  BY <1>9 DEF Cancel, TimesOut
<1>10. ASSUME NEW t \in Tasks, CommitSwitch(t) \/ DiscardSwitch(t) \/
                               RestorePrevious(t)
      PROVE  DeletesAsked'
  BY <1>10 DEF CommitSwitch, Applied, DiscardSwitch, RestorePrevious
<1>11. ASSUME NEW t \in Tasks, AcquireModify(t) \/ AppendItem(t) \/
                               AppendFails(t)
      PROVE  DeletesAsked'
  BY <1>11 DEF AcquireModify, AppendItem, AppendFails
<1>12. ASSUME NEW t \in Tasks, DeleteItem(t)
      PROVE  DeletesAsked'
  BY <1>12 DEF DeleteItem
<1>13. ASSUME NEW t \in Tasks, DeleteFails(t)
      PROVE  DeletesAsked'
  BY <1>13 DEF DeleteFails
<1>14. ASSUME NEW t \in Tasks, Save(t)
      PROVE  DeletesAsked'
  BY <1>14 DEF Save
<1>15. ASSUME NEW t \in Tasks, PublishImport(t) \/ StoreImport(t)
      PROVE  DeletesAsked'
  BY <1>15 DEF PublishImport, Applied, StoreImport
<1>16. CASE BeginExit \/ CoreReloads \/ OrphanLoads
  BY <1>16 DEF BeginExit, CoreReloads, OrphanLoads
<1>17. CASE UNCHANGED vars
  BY <1>17
<1> QED
  BY <1>1, <1>2, <1>3, <1>4, <1>5, <1>6, <1>7, <1>8, <1>9, <1>10, <1>11,
     <1>12, <1>13, <1>14, <1>15, <1>16, <1>17 DEF Next,
     Call, Proceed, Answered

(* An import appends its profile before it saves.                          *)
LEMMA ImportsListedStep ==
    ASSUME "switch" \notin Kinds
    PROVE  Inv /\ Called /\ BaseCurrent /\ DeletesAsked /\
           ImportsListed /\ [Next]_vars => ImportsListed'
<1> SUFFICES ASSUME Inv, Called, BaseCurrent, DeletesAsked, ImportsListed,
                    [Next]_vars
             PROVE  ImportsListed'
  OBVIOUS
<1> USE DEF Inv, TypeOK, ControlTypes, Goto, At, vars, controlVars,
        commandVars, SwitchSteps, ImportsListed
<1>0. draft = NoDraft /\ \A t \in Tasks : kind[t] \notin {"switch", "restore"}
  BY NoSwitchHere DEF NoSwitch
<1>a. \A p : Listed(p) => Listed(p)'
  BY ListGrows
<1>1. ASSUME NEW t \in Tasks, NEW p \in Profiles, BeginSwitch(t, p)
      PROVE  ImportsListed'
  BY <1>1, <1>a DEF Begin, BeginSwitch
<1>2. ASSUME NEW t \in Tasks, NEW p \in Profiles, BeginImport(t, p)
      PROVE  ImportsListed'
  BY <1>2, <1>a DEF Begin, BeginImport
<1>3. ASSUME NEW t \in Tasks, NEW p \in Profiles, BeginDelete(t, p)
      PROVE  ImportsListed'
  BY <1>3, <1>a DEF Begin, BeginDelete
<1>4. ASSUME NEW t \in Tasks, NEW e \in Edits, BeginChain(t, e)
      PROVE  ImportsListed'
  BY <1>4, <1>a DEF Begin, BeginChain
<1>5. ASSUME NEW t \in Tasks, BeginUpdate(t)
      PROVE  ImportsListed'
  BY <1>5, <1>a DEF Begin, BeginUpdate
<1>6. ASSUME NEW t \in Tasks, AcquireOp(t) \/ Generate(t) \/ Backup(t) \/
                              WriteRun(t)
      PROVE  ImportsListed'
  BY <1>6, <1>a DEF AcquireOp, Release, Generate, Backup, WriteRun,
       DropBackup, FileConfig, RtLatest
<1>7. ASSUME NEW t \in Tasks, SkipReload(t) \/ SendReload(t) \/ Reloaded(t) \/
                              ReloadFailed(t)
      PROVE  ImportsListed'
  BY <1>7, <1>a DEF SkipReload, SendReload, Reloaded, Accept, DropBackup,
       Release, ReloadFailed
<1>8. ASSUME NEW t \in Tasks, Validated(t) \/ ValidationFailed(t) \/
                              StopForRestart(t) \/ Restarted(t) \/
                              RestartFailed(t)
      PROVE  ImportsListed'
  BY <1>8, <1>a DEF Validated, FileConfig, RtLatest, ValidationFailed, Reject,
       DropBackup, Release, StopForRestart, Restarted, Accept, RestartFailed
<1>9. ASSUME NEW t \in Tasks, Cancel(t)
      PROVE  ImportsListed'
  BY <1>9, <1>a DEF Cancel, TimesOut
<1>10. ASSUME NEW t \in Tasks, CommitSwitch(t)
      PROVE  ImportsListed'
  BY <1>10, <1>0 DEF CommitSwitch, SwitchSteps
<1>11. ASSUME NEW t \in Tasks, DiscardSwitch(t)
      PROVE  ImportsListed'
  BY <1>11, <1>0 DEF DiscardSwitch, SwitchSteps
<1>12. ASSUME NEW t \in Tasks, RestorePrevious(t)
      PROVE  ImportsListed'
  BY <1>12, <1>0 DEF RestorePrevious, SwitchSteps
<1>13. ASSUME NEW t \in Tasks, AcquireModify(t)
      PROVE  ImportsListed'
  BY <1>13, <1>a DEF AcquireModify
<1>14. ASSUME NEW t \in Tasks, AppendItem(t)
      PROVE  ImportsListed'
  <2>1. arg[t] \in data'.items /\ arg' = arg /\ kind' = kind
    BY <1>14 DEF AppendItem, Append
  <2>2. Listed(arg[t])'
    BY <2>1 DEF Listed
  <2> QED BY <1>14, <1>a, <2>1, <2>2 DEF AppendItem
<1>15. ASSUME NEW t \in Tasks, AppendFails(t)
      PROVE  ImportsListed'
  BY <1>15, <1>a DEF AppendFails
<1>16. ASSUME NEW t \in Tasks, DeleteItem(t)
      PROVE  ImportsListed'
  BY <1>16, <1>a DEF DeleteItem
<1>17. ASSUME NEW t \in Tasks, DeleteFails(t)
      PROVE  ImportsListed'
  BY <1>17, <1>a DEF DeleteFails
<1>18. ASSUME NEW t \in Tasks, Save(t)
      PROVE  ImportsListed'
  BY <1>18, <1>a DEF Save
<1>19. ASSUME NEW t \in Tasks, PublishImport(t)
      PROVE  ImportsListed'
  BY <1>19, <1>a DEF PublishImport, Applied
<1>20. ASSUME NEW t \in Tasks, StoreImport(t)
      PROVE  ImportsListed'
  BY <1>20, <1>a DEF StoreImport
<1>21. CASE BeginExit \/ CoreReloads \/ OrphanLoads
  BY <1>21, <1>a DEF BeginExit, CoreReloads, OrphanLoads
<1>22. CASE UNCHANGED vars
  BY <1>22, <1>a
<1> QED
  BY <1>1, <1>2, <1>3, <1>4, <1>5, <1>6, <1>7, <1>8, <1>9, <1>10, <1>11,
     <1>12, <1>13, <1>14, <1>15, <1>16, <1>17, <1>18, <1>19, <1>20, <1>21,
     <1>22 DEF Next,
     Call, Proceed, Answered

(* A report follows the append.                                            *)
LEMMA AckedListedStep ==
    ASSUME "switch" \notin Kinds
    PROVE  Inv /\ Called /\ BaseCurrent /\ DeletesAsked /\
           ImportsListed /\ AckedListed /\ [Next]_vars => AckedListed'
<1> SUFFICES ASSUME Inv, Called, BaseCurrent, DeletesAsked, ImportsListed,
                    AckedListed, [Next]_vars
             PROVE  AckedListed'
  OBVIOUS
<1> USE DEF Inv, TypeOK, ControlTypes, Goto, At, vars, controlVars,
        commandVars, history, noteVars, AckedListed
<1>0. draft = NoDraft /\ \A t \in Tasks : kind[t] \notin {"switch", "restore"}
  BY NoSwitchHere DEF NoSwitch
<1>a. \A p : Listed(p) => Listed(p)'
  BY ListGrows
<1>1. ASSUME NEW t \in Tasks, Call(t) PROVE AckedListed'
  BY <1>1, <1>a DEF Call, Begin, BeginSwitch, BeginImport, BeginDelete,
       BeginChain, BeginUpdate
<1>2. ASSUME NEW t \in Tasks, AcquireOp(t) \/ Generate(t) \/ Backup(t) \/
                              WriteRun(t)
      PROVE  AckedListed'
  BY <1>2, <1>a DEF AcquireOp, Release, Generate, Backup, WriteRun,
       DropBackup, FileConfig, RtLatest
<1>3. ASSUME NEW t \in Tasks, SkipReload(t) \/ SendReload(t) \/ Reloaded(t) \/
                              ReloadFailed(t)
      PROVE  AckedListed'
  BY <1>3, <1>a DEF SkipReload, SendReload, Reloaded, Accept, DropBackup,
       Release, ReloadFailed
<1>4. ASSUME NEW t \in Tasks, Validated(t) \/ ValidationFailed(t) \/
                              StopForRestart(t) \/ Restarted(t) \/
                              RestartFailed(t)
      PROVE  AckedListed'
  BY <1>4, <1>a DEF Validated, FileConfig, RtLatest, ValidationFailed, Reject,
       DropBackup, Release, StopForRestart, Restarted, Accept, RestartFailed
<1>5. ASSUME NEW t \in Tasks, Cancel(t)
      PROVE  AckedListed'
  BY <1>5, <1>a DEF Cancel, TimesOut
<1>6. ASSUME NEW t \in Tasks, CommitSwitch(t)
      PROVE  AckedListed'
  BY <1>6, <1>0 DEF CommitSwitch, SwitchSteps
<1>7. ASSUME NEW t \in Tasks, DiscardSwitch(t)
      PROVE  AckedListed'
  BY <1>7, <1>0 DEF DiscardSwitch, SwitchSteps
<1>8. ASSUME NEW t \in Tasks, RestorePrevious(t)
      PROVE  AckedListed'
  BY <1>8, <1>0 DEF RestorePrevious, SwitchSteps
<1>9. ASSUME NEW t \in Tasks, AcquireModify(t) \/ AppendItem(t) \/
                              AppendFails(t)
      PROVE  AckedListed'
  BY <1>9, <1>a DEF AcquireModify, AppendItem, AppendFails
<1>10. ASSUME NEW t \in Tasks, DeleteItem(t) \/ DeleteFails(t)
      PROVE  AckedListed'
  BY <1>10, <1>a DEF DeleteItem, DeleteFails
<1>11. ASSUME NEW t \in Tasks, Save(t)
      PROVE  AckedListed'
  BY <1>11, <1>a DEF Save, ImportsListed
<1>12. ASSUME NEW t \in Tasks, PublishImport(t)
      PROVE  AckedListed'
  BY <1>12, <1>a DEF PublishImport, Applied
<1>13. ASSUME NEW t \in Tasks, StoreImport(t)
      PROVE  AckedListed'
  BY <1>13, <1>a DEF StoreImport, ImportsListed
<1>14. CASE BeginExit \/ CoreReloads \/ OrphanLoads
  BY <1>14, <1>a DEF BeginExit, CoreReloads, OrphanLoads
<1>15. CASE UNCHANGED vars
  BY <1>15, <1>a
<1> QED
  BY <1>1, <1>2, <1>3, <1>4, <1>5, <1>6, <1>7, <1>8, <1>9, <1>10, <1>11,
     <1>12, <1>13, <1>14, <1>15 DEF Next,
     Call, Proceed, Answered

(* Who changes the list holds the lock, or opened a draft.                 *)
LEMMA ListChanges ==
    ASSUME "switch" \notin Kinds, Inv, Called, [Next]_vars
    PROVE  data' = data \/ \E u \in Tasks :
               modLock = u /\ (pc[u] = "modify" \/ (pc[u] = "saving" /\ data' = base))
<1> DEFINE Changed ==
        data' = data \/ \E u \in Tasks :
            modLock = u /\ (pc[u] = "modify" \/ (pc[u] = "saving" /\ data' = base))
<1> USE DEF Inv, TypeOK, ControlTypes, Goto, At, vars, controlVars,
        commandVars, ModHeld, profileVars
<1>0. draft = NoDraft /\ \A t \in Tasks : kind[t] \notin {"switch", "restore"}
  BY NoSwitchHere DEF NoSwitch
<1>1. ASSUME NEW t \in Tasks, Call(t) PROVE Changed
  BY <1>1 DEF Call, Begin, BeginSwitch, BeginImport, BeginDelete, BeginChain,
       BeginUpdate
<1>2. ASSUME NEW t \in Tasks, AcquireOp(t) \/ Generate(t) \/ Backup(t) \/
                              WriteRun(t)
      PROVE  Changed
  BY <1>2 DEF AcquireOp, Release, Generate, Backup, WriteRun, DropBackup,
       FileConfig, RtLatest
<1>3. ASSUME NEW t \in Tasks, SkipReload(t) \/ SendReload(t) \/ Reloaded(t) \/
                              ReloadFailed(t)
      PROVE  Changed
  BY <1>3 DEF SkipReload, SendReload, Reloaded, Accept, DropBackup, Release,
       ReloadFailed
<1>4. ASSUME NEW t \in Tasks, Validated(t) \/ ValidationFailed(t) \/
                              StopForRestart(t) \/ Restarted(t) \/
                              RestartFailed(t)
      PROVE  Changed
  BY <1>4 DEF Validated, FileConfig, RtLatest, ValidationFailed, Reject,
       DropBackup, Release, StopForRestart, Restarted, Accept, RestartFailed
<1>5. ASSUME NEW t \in Tasks, Cancel(t)
      PROVE  Changed
  BY <1>5 DEF Cancel, TimesOut
<1>6. ASSUME NEW t \in Tasks, CommitSwitch(t)
      PROVE  Changed
  BY <1>6, <1>0 DEF CommitSwitch, SwitchSteps
<1>7. ASSUME NEW t \in Tasks, DiscardSwitch(t)
      PROVE  Changed
  BY <1>7, <1>0 DEF DiscardSwitch, SwitchSteps
<1>8. ASSUME NEW t \in Tasks, RestorePrevious(t)
      PROVE  Changed
  BY <1>8, <1>0 DEF RestorePrevious, SwitchSteps
<1>9. ASSUME NEW t \in Tasks, AcquireModify(t)
      PROVE  Changed
  BY <1>9 DEF AcquireModify
<1>10. ASSUME NEW t \in Tasks, AppendItem(t)
      PROVE  Changed
  BY <1>10 DEF AppendItem
<1>11. ASSUME NEW t \in Tasks, AppendFails(t)
      PROVE  Changed
  BY <1>11 DEF AppendFails
<1>12. ASSUME NEW t \in Tasks, DeleteItem(t)
      PROVE  Changed
  BY <1>12 DEF DeleteItem
<1>13. ASSUME NEW t \in Tasks, DeleteFails(t)
      PROVE  Changed
  BY <1>13 DEF DeleteFails
<1>14. ASSUME NEW t \in Tasks, Save(t)
      PROVE  Changed
  BY <1>14 DEF Save
<1>15. ASSUME NEW t \in Tasks, PublishImport(t)
      PROVE  Changed
  BY <1>15, <1>0 DEF PublishImport, Applied
<1>16. ASSUME NEW t \in Tasks, StoreImport(t)
      PROVE  Changed
  BY <1>16 DEF StoreImport
<1>17. CASE BeginExit \/ CoreReloads \/ OrphanLoads
  BY <1>17 DEF BeginExit, CoreReloads, OrphanLoads
<1>18. CASE UNCHANGED vars
  BY <1>18
<1> QED
  BY <1>1, <1>2, <1>3, <1>4, <1>5, <1>6, <1>7, <1>8, <1>9, <1>10, <1>11,
     <1>12, <1>13, <1>14, <1>15, <1>16, <1>17, <1>18 DEF Next,
     Call, Proceed, Answered

ListKept == BaseCurrent /\ DeletesAsked /\ ImportsListed /\ AckedListed

LEMMA ListKeptStep ==
    ASSUME "switch" \notin Kinds
    PROVE  Inv /\ Called /\ ListKept /\ [Next]_vars => ListKept'
  BY BaseCurrentStep, DeletesAskedStep, ImportsListedStep, AckedListedStep DEF ListKept

LEMMA ListKeptInit == Init => ListKept
  BY DEF Init, ListKept, BaseCurrent, DeletesAsked, ImportsListed, AckedListed

(* However imports, deep links and deletes interleave, a profile whose     *)
(* import was reported stays in the list until somebody deletes it.        *)
THEOREM ImportsStay ==
    ASSUME "switch" \notin Kinds PROVE Spec => []NoLostImport
<1>1. Init => ListKept
  BY ListKeptInit
<1>2. Inv /\ Called /\ ListKept /\ [Next]_vars => ListKept'
  BY ListKeptStep
<1>3. ListKept => NoLostImport
  BY DEF ListKept, AckedListed, Listed, NoLostImport
<1> QED
  BY <1>1, <1>2, <1>3, InvHolds, CalledHolds, PTL DEF Spec

(* The write-back of a save changes the list only beside a switch.         *)
THEOREM SavesAreWriteBacks ==
    ASSUME "switch" \notin Kinds PROVE Spec => SavesChangeNothing
<1>1. Init => ListKept
  BY ListKeptInit
<1>2. Inv /\ Called /\ ListKept /\ [Next]_vars => ListKept'
  BY ListKeptStep
<1>3. ASSUME Inv, Called, ListKept, [Next]_vars
      PROVE  [\A t \in Tasks : At(t, "saving") /\ pc'[t] # "saving" => data' = data]_vars
  <2>1. SUFFICES ASSUME NEW t \in Tasks, At(t, "saving"), pc'[t] # "saving"
                 PROVE  data' = data
    OBVIOUS
  <2>2. modLock = t /\ base = data
    BY <1>3, <2>1, ConstantsAssumption DEF Inv, ModHeld, At, ListKept, BaseCurrent
  <2>3. data' = data \/ \E u \in Tasks :
           modLock = u /\ (pc[u] = "modify" \/ (pc[u] = "saving" /\ data' = base))
    BY <1>3, ListChanges
  <2> QED BY <2>1, <2>2, <2>3 DEF At
<1> QED
  BY <1>1, <1>2, <1>3, InvHolds, CalledHolds, PTL DEF Spec, SavesChangeNothing

-----------------------------------------------------------------------------
(* What the holder of operation_lock knows, when the runtime draft is not  *)
(* edited behind its back: the draft it generated is the one in the file,  *)
(* and past the validation the core accepts it.                            *)
Applying == {"reload", "answer", "validate", "restart", "starting"}

DraftKept == \A t \in Tasks : pc[t] \in Applying \cup {"backup", "write"} => rtDraft \in Config
FileWritten == \A t \in Tasks : pc[t] \in Applying => run = rtDraft
CoreLoaded == \A t \in Tasks : pc[t] = "answer" /\ reload = "ok" => core = run
FileAccepted == \A t \in Tasks : pc[t] \in {"restart", "starting"} => Accepts(run)

(* Only one task is inside the section of operation_lock.                  *)
LEMMA OneHolder ==
    ASSUME OpHeld, NEW t \in Tasks, NEW u \in Tasks,
           pc[t] \in UpdateSteps \ {"wantOp"}, pc[u] \in UpdateSteps \ {"wantOp"}
    PROVE  t = u
  BY DEF OpHeld

(* The draft is made by Generate and dropped as the operation ends.        *)
LEMMA DraftKeptStep ==
    ASSUME "chain" \notin Kinds
    PROVE  Inv /\ Called /\ DraftKept /\ [Next]_vars => DraftKept'
<1> SUFFICES ASSUME Inv, Called, DraftKept, [Next]_vars PROVE DraftKept'
  OBVIOUS
<1> USE DEF Inv, TypeOK, ControlTypes, Goto, At, vars, controlVars,
        commandVars, RuntimeTypes, runtimeVars, coreVars, UpdateSteps,
        Applying, DraftKept
<1>0. \A t \in Tasks : kind[t] # "chain"
  BY DEF Called
<1>a. \A t, u \in Tasks : pc[t] \in UpdateSteps \ {"wantOp"}
          /\ pc[u] \in UpdateSteps \ {"wantOp"} => t = u
  BY OneHolder
<1>1. ASSUME NEW t \in Tasks, NEW p \in Profiles, BeginSwitch(t, p)
      PROVE  DraftKept'
  BY <1>1, <1>0, <1>a, ConstantsAssumption, NoDraftAssumption DEF Begin,
       BeginSwitch
<1>2. ASSUME NEW t \in Tasks, NEW p \in Profiles, BeginImport(t, p)
      PROVE  DraftKept'
  BY <1>2, <1>0, <1>a, ConstantsAssumption, NoDraftAssumption DEF Begin,
       BeginImport
<1>3. ASSUME NEW t \in Tasks, NEW p \in Profiles, BeginDelete(t, p)
      PROVE  DraftKept'
  BY <1>3, <1>0, <1>a, ConstantsAssumption, NoDraftAssumption DEF Begin,
       BeginDelete
<1>4. ASSUME NEW t \in Tasks, NEW e \in Edits, BeginChain(t, e)
      PROVE  DraftKept'
  BY <1>4, <1>0, <1>a, ConstantsAssumption, NoDraftAssumption DEF Begin,
       BeginChain
<1>5. ASSUME NEW t \in Tasks, BeginUpdate(t)
      PROVE  DraftKept'
  BY <1>5, <1>0, <1>a, ConstantsAssumption, NoDraftAssumption DEF Begin,
       BeginUpdate
<1>6. ASSUME NEW t \in Tasks, AcquireOp(t)
      PROVE  DraftKept'
  BY <1>6, <1>0, <1>a, ConstantsAssumption, NoDraftAssumption DEF AcquireOp,
       Release
<1>7. ASSUME NEW t \in Tasks, Generate(t)
      PROVE  DraftKept'
  BY <1>7, <1>0, <1>a, ConstantsAssumption, NoDraftAssumption DEF Generate,
       Release, Config
<1>8. ASSUME NEW t \in Tasks, Backup(t)
      PROVE  DraftKept'
  BY <1>8, <1>0, <1>a, ConstantsAssumption, NoDraftAssumption DEF Backup
<1>9. ASSUME NEW t \in Tasks, WriteRun(t)
      PROVE  DraftKept'
  BY <1>9, <1>0, <1>a, ConstantsAssumption, NoDraftAssumption DEF WriteRun,
       Release, DropBackup, FileConfig, RtLatest
<1>10. ASSUME NEW t \in Tasks, SkipReload(t)
      PROVE  DraftKept'
  BY <1>10, <1>0, <1>a, ConstantsAssumption, NoDraftAssumption DEF SkipReload
<1>11. ASSUME NEW t \in Tasks, SendReload(t)
      PROVE  DraftKept'
  BY <1>11, <1>0, <1>a, ConstantsAssumption, NoDraftAssumption DEF SendReload
<1>12. ASSUME NEW t \in Tasks, Reloaded(t)
      PROVE  DraftKept'
  BY <1>12, <1>0, <1>a, ConstantsAssumption, NoDraftAssumption DEF Reloaded,
       Accept, DropBackup, Release
<1>13. ASSUME NEW t \in Tasks, ReloadFailed(t)
      PROVE  DraftKept'
  BY <1>13, <1>0, <1>a, ConstantsAssumption, NoDraftAssumption DEF
       ReloadFailed
<1>14. ASSUME NEW t \in Tasks, Validated(t) \/ ValidationFailed(t) \/
                               StopForRestart(t)
      PROVE  DraftKept'
  BY <1>14, <1>0, <1>a, ConstantsAssumption, NoDraftAssumption DEF Validated,
       FileConfig, RtLatest, ValidationFailed, Reject, DropBackup, Release,
       StopForRestart
<1>15. ASSUME NEW t \in Tasks, Restarted(t)
      PROVE  DraftKept'
  BY <1>15, <1>0, <1>a, ConstantsAssumption, NoDraftAssumption DEF Restarted,
       Accept, DropBackup, Release
<1>16. ASSUME NEW t \in Tasks, RestartFailed(t)
      PROVE  DraftKept'
  BY <1>16, <1>0, <1>a, ConstantsAssumption, NoDraftAssumption DEF
       RestartFailed, Reject, DropBackup, Release
<1>17. ASSUME NEW t \in Tasks, Cancel(t)
      PROVE  DraftKept'
  BY <1>17, <1>0, <1>a, ConstantsAssumption, NoDraftAssumption DEF Cancel,
       TimesOut
<1>18. ASSUME NEW t \in Tasks, CommitSwitch(t) \/ DiscardSwitch(t) \/
                               RestorePrevious(t)
      PROVE  DraftKept'
  BY <1>18, <1>0, <1>a, ConstantsAssumption, NoDraftAssumption DEF
       CommitSwitch, Applied, DiscardSwitch, RestorePrevious
<1>19. ASSUME NEW t \in Tasks, AcquireModify(t) \/ AppendItem(t) \/
                               AppendFails(t)
      PROVE  DraftKept'
  BY <1>19, <1>0, <1>a, ConstantsAssumption, NoDraftAssumption DEF
       AcquireModify, AppendItem, AppendFails
<1>20. ASSUME NEW t \in Tasks, DeleteItem(t) \/ DeleteFails(t) \/ Save(t)
      PROVE  DraftKept'
  BY <1>20, <1>0, <1>a, ConstantsAssumption, NoDraftAssumption DEF DeleteItem,
       DeleteFails, Save
<1>21. ASSUME NEW t \in Tasks, PublishImport(t) \/ StoreImport(t)
      PROVE  DraftKept'
  BY <1>21, <1>0, <1>a, ConstantsAssumption, NoDraftAssumption DEF
       PublishImport, Applied, StoreImport
<1>22. CASE BeginExit \/ CoreReloads \/ OrphanLoads
  BY <1>22, <1>0, <1>a DEF BeginExit, CoreReloads, OrphanLoads
<1>23. CASE UNCHANGED vars
  BY <1>23, <1>0, <1>a
<1> QED
  BY <1>1, <1>2, <1>3, <1>4, <1>5, <1>6, <1>7, <1>8, <1>9, <1>10, <1>11,
     <1>12, <1>13, <1>14, <1>15, <1>16, <1>17, <1>18, <1>19, <1>20, <1>21,
     <1>22, <1>23 DEF Next,
     Call, Proceed, Answered

(* The runtime file is written from the draft.                             *)
LEMMA FileWrittenStep ==
    ASSUME "chain" \notin Kinds
    PROVE  Inv /\ Called /\ DraftKept /\ FileWritten /\ [Next]_vars => FileWritten'
<1> SUFFICES ASSUME Inv, Called, DraftKept, FileWritten, [Next]_vars
             PROVE  FileWritten'
  OBVIOUS
<1> USE DEF Inv, TypeOK, ControlTypes, Goto, At, vars, controlVars,
        commandVars, RuntimeTypes, runtimeVars, coreVars, UpdateSteps,
        Applying, DraftKept, FileWritten
<1>0. \A t \in Tasks : kind[t] # "chain"
  BY DEF Called
<1>a. \A t, u \in Tasks : pc[t] \in UpdateSteps \ {"wantOp"}
          /\ pc[u] \in UpdateSteps \ {"wantOp"} => t = u
  BY OneHolder
<1>1. ASSUME NEW t \in Tasks, NEW p \in Profiles, BeginSwitch(t, p)
      PROVE  FileWritten'
  BY <1>1, <1>0, <1>a, ConstantsAssumption, NoDraftAssumption DEF Begin,
       BeginSwitch
<1>2. ASSUME NEW t \in Tasks, NEW p \in Profiles, BeginImport(t, p)
      PROVE  FileWritten'
  BY <1>2, <1>0, <1>a, ConstantsAssumption, NoDraftAssumption DEF Begin,
       BeginImport
<1>3. ASSUME NEW t \in Tasks, NEW p \in Profiles, BeginDelete(t, p)
      PROVE  FileWritten'
  BY <1>3, <1>0, <1>a, ConstantsAssumption, NoDraftAssumption DEF Begin,
       BeginDelete
<1>4. ASSUME NEW t \in Tasks, NEW e \in Edits, BeginChain(t, e)
      PROVE  FileWritten'
  BY <1>4, <1>0, <1>a, ConstantsAssumption, NoDraftAssumption DEF Begin,
       BeginChain
<1>5. ASSUME NEW t \in Tasks, BeginUpdate(t)
      PROVE  FileWritten'
  BY <1>5, <1>0, <1>a, ConstantsAssumption, NoDraftAssumption DEF Begin,
       BeginUpdate
<1>6. ASSUME NEW t \in Tasks, AcquireOp(t)
      PROVE  FileWritten'
  BY <1>6, <1>0, <1>a, ConstantsAssumption, NoDraftAssumption DEF AcquireOp,
       Release
<1>7. ASSUME NEW t \in Tasks, Generate(t)
      PROVE  FileWritten'
  BY <1>7, <1>0, <1>a, ConstantsAssumption, NoDraftAssumption DEF Generate,
       Release
<1>8. ASSUME NEW t \in Tasks, Backup(t)
      PROVE  FileWritten'
  BY <1>8, <1>0, <1>a, ConstantsAssumption, NoDraftAssumption DEF Backup
<1>9. ASSUME NEW t \in Tasks, WriteRun(t)
      PROVE  FileWritten'
  BY <1>9, <1>0, <1>a, ConstantsAssumption, NoDraftAssumption DEF WriteRun,
       Release, DropBackup, FileConfig, RtLatest
<1>10. ASSUME NEW t \in Tasks, SkipReload(t)
      PROVE  FileWritten'
  BY <1>10, <1>0, <1>a, ConstantsAssumption, NoDraftAssumption DEF SkipReload
<1>11. ASSUME NEW t \in Tasks, SendReload(t)
      PROVE  FileWritten'
  BY <1>11, <1>0, <1>a, ConstantsAssumption, NoDraftAssumption DEF SendReload
<1>12. ASSUME NEW t \in Tasks, Reloaded(t)
      PROVE  FileWritten'
  BY <1>12, <1>0, <1>a, ConstantsAssumption, NoDraftAssumption DEF Reloaded,
       Accept, DropBackup, Release
<1>13. ASSUME NEW t \in Tasks, ReloadFailed(t)
      PROVE  FileWritten'
  BY <1>13, <1>0, <1>a, ConstantsAssumption, NoDraftAssumption DEF
       ReloadFailed
<1>14. ASSUME NEW t \in Tasks, Validated(t) \/ ValidationFailed(t) \/
                               StopForRestart(t)
      PROVE  FileWritten'
  BY <1>14, <1>0, <1>a, ConstantsAssumption, NoDraftAssumption DEF Validated,
       FileConfig, RtLatest, ValidationFailed, Reject, DropBackup, Release,
       StopForRestart
<1>15. ASSUME NEW t \in Tasks, Restarted(t)
      PROVE  FileWritten'
  BY <1>15, <1>0, <1>a, ConstantsAssumption, NoDraftAssumption DEF Restarted,
       Accept, DropBackup, Release
<1>16. ASSUME NEW t \in Tasks, RestartFailed(t)
      PROVE  FileWritten'
  BY <1>16, <1>0, <1>a, ConstantsAssumption, NoDraftAssumption DEF
       RestartFailed, Reject, DropBackup, Release
<1>17. ASSUME NEW t \in Tasks, Cancel(t)
      PROVE  FileWritten'
  BY <1>17, <1>0, <1>a, ConstantsAssumption, NoDraftAssumption DEF Cancel,
       TimesOut
<1>18. ASSUME NEW t \in Tasks, CommitSwitch(t) \/ DiscardSwitch(t) \/
                               RestorePrevious(t)
      PROVE  FileWritten'
  BY <1>18, <1>0, <1>a, ConstantsAssumption, NoDraftAssumption DEF
       CommitSwitch, Applied, DiscardSwitch, RestorePrevious
<1>19. ASSUME NEW t \in Tasks, AcquireModify(t) \/ AppendItem(t) \/
                               AppendFails(t)
      PROVE  FileWritten'
  BY <1>19, <1>0, <1>a, ConstantsAssumption, NoDraftAssumption DEF
       AcquireModify, AppendItem, AppendFails
<1>20. ASSUME NEW t \in Tasks, DeleteItem(t) \/ DeleteFails(t) \/ Save(t)
      PROVE  FileWritten'
  BY <1>20, <1>0, <1>a, ConstantsAssumption, NoDraftAssumption DEF DeleteItem,
       DeleteFails, Save
<1>21. ASSUME NEW t \in Tasks, PublishImport(t) \/ StoreImport(t)
      PROVE  FileWritten'
  BY <1>21, <1>0, <1>a, ConstantsAssumption, NoDraftAssumption DEF
       PublishImport, Applied, StoreImport
<1>22. CASE BeginExit \/ CoreReloads \/ OrphanLoads
  BY <1>22, <1>0, <1>a DEF BeginExit, CoreReloads, OrphanLoads
<1>23. CASE UNCHANGED vars
  BY <1>23, <1>0, <1>a
<1> QED
  BY <1>1, <1>2, <1>3, <1>4, <1>5, <1>6, <1>7, <1>8, <1>9, <1>10, <1>11,
     <1>12, <1>13, <1>14, <1>15, <1>16, <1>17, <1>18, <1>19, <1>20, <1>21,
     <1>22, <1>23 DEF Next,
     Call, Proceed, Answered

(* The answer to a reload is about the file it was asked to load.          *)
LEMMA CoreLoadedStep ==
    ASSUME "chain" \notin Kinds
    PROVE  Inv /\ Called /\ CoreLoaded /\ [Next]_vars => CoreLoaded'
<1> SUFFICES ASSUME Inv, Called, CoreLoaded, [Next]_vars PROVE CoreLoaded'
  OBVIOUS
<1> USE DEF Inv, TypeOK, ControlTypes, Goto, At, vars, controlVars,
        commandVars, RuntimeTypes, runtimeVars, coreVars, UpdateSteps,
        Applying, CoreLoaded
<1>0. \A t \in Tasks : kind[t] # "chain"
  BY DEF Called
<1>a. \A t, u \in Tasks : pc[t] \in UpdateSteps \ {"wantOp"}
          /\ pc[u] \in UpdateSteps \ {"wantOp"} => t = u
  BY OneHolder
<1>1. ASSUME NEW t \in Tasks, NEW p \in Profiles, BeginSwitch(t, p)
      PROVE  CoreLoaded'
  BY <1>1, <1>0, <1>a, ConstantsAssumption, NoDraftAssumption DEF Begin,
       BeginSwitch
<1>2. ASSUME NEW t \in Tasks, NEW p \in Profiles, BeginImport(t, p)
      PROVE  CoreLoaded'
  BY <1>2, <1>0, <1>a, ConstantsAssumption, NoDraftAssumption DEF Begin,
       BeginImport
<1>3. ASSUME NEW t \in Tasks, NEW p \in Profiles, BeginDelete(t, p)
      PROVE  CoreLoaded'
  BY <1>3, <1>0, <1>a, ConstantsAssumption, NoDraftAssumption DEF Begin,
       BeginDelete
<1>4. ASSUME NEW t \in Tasks, NEW e \in Edits, BeginChain(t, e)
      PROVE  CoreLoaded'
  BY <1>4, <1>0, <1>a, ConstantsAssumption, NoDraftAssumption DEF Begin,
       BeginChain
<1>5. ASSUME NEW t \in Tasks, BeginUpdate(t)
      PROVE  CoreLoaded'
  BY <1>5, <1>0, <1>a, ConstantsAssumption, NoDraftAssumption DEF Begin,
       BeginUpdate
<1>6. ASSUME NEW t \in Tasks, AcquireOp(t)
      PROVE  CoreLoaded'
  BY <1>6, <1>0, <1>a, ConstantsAssumption, NoDraftAssumption DEF AcquireOp,
       Release
<1>7. ASSUME NEW t \in Tasks, Generate(t)
      PROVE  CoreLoaded'
  BY <1>7, <1>0, <1>a, ConstantsAssumption, NoDraftAssumption DEF Generate,
       Release
<1>8. ASSUME NEW t \in Tasks, Backup(t)
      PROVE  CoreLoaded'
  BY <1>8, <1>0, <1>a, ConstantsAssumption, NoDraftAssumption DEF Backup
<1>9. ASSUME NEW t \in Tasks, WriteRun(t)
      PROVE  CoreLoaded'
  BY <1>9, <1>0, <1>a, ConstantsAssumption, NoDraftAssumption DEF WriteRun,
       Release, DropBackup, FileConfig, RtLatest
<1>10. ASSUME NEW t \in Tasks, SkipReload(t)
      PROVE  CoreLoaded'
  BY <1>10, <1>0, <1>a, ConstantsAssumption, NoDraftAssumption DEF SkipReload
<1>11. ASSUME NEW t \in Tasks, SendReload(t)
      PROVE  CoreLoaded'
  BY <1>11, <1>0, <1>a, ConstantsAssumption, NoDraftAssumption DEF SendReload
<1>12. ASSUME NEW t \in Tasks, Reloaded(t)
      PROVE  CoreLoaded'
  BY <1>12, <1>0, <1>a, ConstantsAssumption, NoDraftAssumption DEF Reloaded,
       Accept, DropBackup, Release
<1>13. ASSUME NEW t \in Tasks, ReloadFailed(t)
      PROVE  CoreLoaded'
  BY <1>13, <1>0, <1>a, ConstantsAssumption, NoDraftAssumption DEF
       ReloadFailed
<1>14. ASSUME NEW t \in Tasks, Validated(t) \/ ValidationFailed(t) \/
                               StopForRestart(t)
      PROVE  CoreLoaded'
  BY <1>14, <1>0, <1>a, ConstantsAssumption, NoDraftAssumption DEF Validated,
       FileConfig, RtLatest, ValidationFailed, Reject, DropBackup, Release,
       StopForRestart
<1>15. ASSUME NEW t \in Tasks, Restarted(t)
      PROVE  CoreLoaded'
  BY <1>15, <1>0, <1>a, ConstantsAssumption, NoDraftAssumption DEF Restarted,
       Accept, DropBackup, Release
<1>16. ASSUME NEW t \in Tasks, RestartFailed(t)
      PROVE  CoreLoaded'
  BY <1>16, <1>0, <1>a, ConstantsAssumption, NoDraftAssumption DEF
       RestartFailed, Reject, DropBackup, Release
<1>17. ASSUME NEW t \in Tasks, Cancel(t)
      PROVE  CoreLoaded'
  BY <1>17, <1>0, <1>a, ConstantsAssumption, NoDraftAssumption DEF Cancel,
       TimesOut
<1>18. ASSUME NEW t \in Tasks, CommitSwitch(t) \/ DiscardSwitch(t) \/
                               RestorePrevious(t)
      PROVE  CoreLoaded'
  BY <1>18, <1>0, <1>a, ConstantsAssumption, NoDraftAssumption DEF
       CommitSwitch, Applied, DiscardSwitch, RestorePrevious
<1>19. ASSUME NEW t \in Tasks, AcquireModify(t) \/ AppendItem(t) \/
                               AppendFails(t)
      PROVE  CoreLoaded'
  BY <1>19, <1>0, <1>a, ConstantsAssumption, NoDraftAssumption DEF
       AcquireModify, AppendItem, AppendFails
<1>20. ASSUME NEW t \in Tasks, DeleteItem(t) \/ DeleteFails(t) \/ Save(t)
      PROVE  CoreLoaded'
  BY <1>20, <1>0, <1>a, ConstantsAssumption, NoDraftAssumption DEF DeleteItem,
       DeleteFails, Save
<1>21. ASSUME NEW t \in Tasks, PublishImport(t) \/ StoreImport(t)
      PROVE  CoreLoaded'
  BY <1>21, <1>0, <1>a, ConstantsAssumption, NoDraftAssumption DEF
       PublishImport, Applied, StoreImport
<1>22. CASE BeginExit \/ CoreReloads \/ OrphanLoads
  BY <1>22, <1>0, <1>a DEF BeginExit, CoreReloads, OrphanLoads
<1>23. CASE UNCHANGED vars
  BY <1>23, <1>0, <1>a
<1> QED
  BY <1>1, <1>2, <1>3, <1>4, <1>5, <1>6, <1>7, <1>8, <1>9, <1>10, <1>11,
     <1>12, <1>13, <1>14, <1>15, <1>16, <1>17, <1>18, <1>19, <1>20, <1>21,
     <1>22, <1>23 DEF Next,
     Call, Proceed, Answered

(* The validation judges what is in the file.                              *)
LEMMA FileAcceptedStep ==
    ASSUME "chain" \notin Kinds
    PROVE  Inv /\ Called /\ DraftKept /\ FileWritten /\ FileAccepted /\
           [Next]_vars => FileAccepted'
<1> SUFFICES ASSUME Inv, Called, DraftKept, FileWritten, FileAccepted,
                    [Next]_vars
             PROVE  FileAccepted'
  OBVIOUS
<1> USE DEF Inv, TypeOK, ControlTypes, Goto, At, vars, controlVars,
        commandVars, RuntimeTypes, runtimeVars, coreVars, UpdateSteps,
        Applying, DraftKept, FileWritten, FileAccepted, Accepts
<1>0. \A t \in Tasks : kind[t] # "chain"
  BY DEF Called
<1>a. \A t, u \in Tasks : pc[t] \in UpdateSteps \ {"wantOp"}
          /\ pc[u] \in UpdateSteps \ {"wantOp"} => t = u
  BY OneHolder
<1>1. ASSUME NEW t \in Tasks, NEW p \in Profiles, BeginSwitch(t, p)
      PROVE  FileAccepted'
  BY <1>1, <1>0, <1>a, ConstantsAssumption, NoDraftAssumption DEF Begin,
       BeginSwitch
<1>2. ASSUME NEW t \in Tasks, NEW p \in Profiles, BeginImport(t, p)
      PROVE  FileAccepted'
  BY <1>2, <1>0, <1>a, ConstantsAssumption, NoDraftAssumption DEF Begin,
       BeginImport
<1>3. ASSUME NEW t \in Tasks, NEW p \in Profiles, BeginDelete(t, p)
      PROVE  FileAccepted'
  BY <1>3, <1>0, <1>a, ConstantsAssumption, NoDraftAssumption DEF Begin,
       BeginDelete
<1>4. ASSUME NEW t \in Tasks, NEW e \in Edits, BeginChain(t, e)
      PROVE  FileAccepted'
  BY <1>4, <1>0, <1>a, ConstantsAssumption, NoDraftAssumption DEF Begin,
       BeginChain
<1>5. ASSUME NEW t \in Tasks, BeginUpdate(t)
      PROVE  FileAccepted'
  BY <1>5, <1>0, <1>a, ConstantsAssumption, NoDraftAssumption DEF Begin,
       BeginUpdate
<1>6. ASSUME NEW t \in Tasks, AcquireOp(t)
      PROVE  FileAccepted'
  BY <1>6, <1>0, <1>a, ConstantsAssumption, NoDraftAssumption DEF AcquireOp,
       Release
<1>7. ASSUME NEW t \in Tasks, Generate(t)
      PROVE  FileAccepted'
  BY <1>7, <1>0, <1>a, ConstantsAssumption, NoDraftAssumption DEF Generate,
       Release
<1>8. ASSUME NEW t \in Tasks, Backup(t)
      PROVE  FileAccepted'
  BY <1>8, <1>0, <1>a, ConstantsAssumption, NoDraftAssumption DEF Backup
<1>9. ASSUME NEW t \in Tasks, WriteRun(t)
      PROVE  FileAccepted'
  BY <1>9, <1>0, <1>a, ConstantsAssumption, NoDraftAssumption DEF WriteRun,
       Release, DropBackup, FileConfig, RtLatest
<1>10. ASSUME NEW t \in Tasks, SkipReload(t)
      PROVE  FileAccepted'
  BY <1>10, <1>0, <1>a, ConstantsAssumption, NoDraftAssumption DEF SkipReload
<1>11. ASSUME NEW t \in Tasks, SendReload(t)
      PROVE  FileAccepted'
  BY <1>11, <1>0, <1>a, ConstantsAssumption, NoDraftAssumption DEF SendReload
<1>12. ASSUME NEW t \in Tasks, Reloaded(t)
      PROVE  FileAccepted'
  BY <1>12, <1>0, <1>a, ConstantsAssumption, NoDraftAssumption DEF Reloaded,
       Accept, DropBackup, Release
<1>13. ASSUME NEW t \in Tasks, ReloadFailed(t)
      PROVE  FileAccepted'
  BY <1>13, <1>0, <1>a, ConstantsAssumption, NoDraftAssumption DEF
       ReloadFailed
<1>14. ASSUME NEW t \in Tasks, Validated(t)
      PROVE  FileAccepted'
  BY <1>14, <1>0, <1>a, ConstantsAssumption, NoDraftAssumption DEF Validated,
       FileConfig, RtLatest
<1>15. ASSUME NEW t \in Tasks, ValidationFailed(t) \/ StopForRestart(t)
      PROVE  FileAccepted'
  BY <1>15, <1>0, <1>a, ConstantsAssumption, NoDraftAssumption DEF
       ValidationFailed, Reject, DropBackup, Release, StopForRestart
<1>16. ASSUME NEW t \in Tasks, Restarted(t)
      PROVE  FileAccepted'
  BY <1>16, <1>0, <1>a, ConstantsAssumption, NoDraftAssumption DEF Restarted,
       Accept, DropBackup, Release
<1>17. ASSUME NEW t \in Tasks, RestartFailed(t)
      PROVE  FileAccepted'
  BY <1>17, <1>0, <1>a, ConstantsAssumption, NoDraftAssumption DEF
       RestartFailed, Reject, DropBackup, Release
<1>18. ASSUME NEW t \in Tasks, Cancel(t)
      PROVE  FileAccepted'
  BY <1>18, <1>0, <1>a, ConstantsAssumption, NoDraftAssumption DEF Cancel,
       TimesOut
<1>19. ASSUME NEW t \in Tasks, CommitSwitch(t) \/ DiscardSwitch(t) \/
                               RestorePrevious(t)
      PROVE  FileAccepted'
  BY <1>19, <1>0, <1>a, ConstantsAssumption, NoDraftAssumption DEF
       CommitSwitch, Applied, DiscardSwitch, RestorePrevious
<1>20. ASSUME NEW t \in Tasks, AcquireModify(t) \/ AppendItem(t) \/
                               AppendFails(t)
      PROVE  FileAccepted'
  BY <1>20, <1>0, <1>a, ConstantsAssumption, NoDraftAssumption DEF
       AcquireModify, AppendItem, AppendFails
<1>21. ASSUME NEW t \in Tasks, DeleteItem(t) \/ DeleteFails(t) \/ Save(t)
      PROVE  FileAccepted'
  BY <1>21, <1>0, <1>a, ConstantsAssumption, NoDraftAssumption DEF DeleteItem,
       DeleteFails, Save
<1>22. ASSUME NEW t \in Tasks, PublishImport(t) \/ StoreImport(t)
      PROVE  FileAccepted'
  BY <1>22, <1>0, <1>a, ConstantsAssumption, NoDraftAssumption DEF
       PublishImport, Applied, StoreImport
<1>23. CASE BeginExit \/ CoreReloads \/ OrphanLoads
  BY <1>23, <1>0, <1>a DEF BeginExit, CoreReloads, OrphanLoads
<1>24. CASE UNCHANGED vars
  BY <1>24, <1>0, <1>a
<1> QED
  BY <1>1, <1>2, <1>3, <1>4, <1>5, <1>6, <1>7, <1>8, <1>9, <1>10, <1>11,
     <1>12, <1>13, <1>14, <1>15, <1>16, <1>17, <1>18, <1>19, <1>20, <1>21,
     <1>22, <1>23, <1>24 DEF Next,
     Call, Proceed, Answered

DraftApplied == DraftKept /\ FileWritten /\ CoreLoaded /\ FileAccepted

LEMMA DraftAppliedInit == Init => DraftApplied
  BY DEF Init, DraftApplied, DraftKept, FileWritten, CoreLoaded, FileAccepted, Applying

LEMMA DraftAppliedStep ==
    ASSUME "chain" \notin Kinds
    PROVE  Inv /\ Called /\ DraftApplied /\ [Next]_vars => DraftApplied'
  BY DraftKeptStep, FileWrittenStep, CoreLoadedStep, FileAcceptedStep DEF DraftApplied

(* The committed runtime configuration changes when an operation succeeds, *)
(* and then it is what the core runs.                                      *)
LEMMA CommitRuns ==
    ASSUME Inv, DraftApplied, [Next]_vars
    PROVE  rt' # rt => rt' = core'
<1> DEFINE Runs == rt' # rt => rt' = core'
<1> USE DEF vars, runtimeVars
<1>1. ASSUME NEW t \in Tasks, Call(t) PROVE Runs
  BY <1>1 DEF Call, Begin, BeginSwitch, BeginImport, BeginDelete, BeginChain,
       BeginUpdate
<1>2. ASSUME NEW t \in Tasks, AcquireOp(t) \/ Generate(t) \/ Backup(t) \/
                              WriteRun(t)
      PROVE  Runs
  BY <1>2 DEF AcquireOp, Release, Generate, Backup, WriteRun, DropBackup,
       FileConfig, RtLatest
<1>3. ASSUME NEW t \in Tasks, SkipReload(t) \/ SendReload(t)
      PROVE  Runs
  BY <1>3 DEF SkipReload, SendReload
<1>4. ASSUME NEW t \in Tasks, Reloaded(t)
      PROVE  Runs
  <2>1. core = run /\ run = rtDraft /\ rtDraft \in Config
    BY <1>4 DEF Reloaded, At, DraftApplied, DraftKept, FileWritten, CoreLoaded, Applying
  <2> QED BY <1>4, <2>1 DEF Reloaded, Accept, Applied
<1>5. ASSUME NEW t \in Tasks, ReloadFailed(t)
      PROVE  Runs
  BY <1>5 DEF ReloadFailed
<1>6. ASSUME NEW t \in Tasks, Validated(t) \/ ValidationFailed(t) \/
                              StopForRestart(t)
      PROVE  Runs
  BY <1>6 DEF Validated, FileConfig, RtLatest, ValidationFailed, Reject,
       DropBackup, Release, StopForRestart
<1>7. ASSUME NEW t \in Tasks, Restarted(t)
      PROVE  Runs
  <2>1. Accepts(run) /\ run = rtDraft /\ rtDraft \in Config
    BY <1>7 DEF Restarted, At, DraftApplied, DraftKept, FileWritten, FileAccepted, Applying
  <2> QED BY <1>7, <2>1, NoDraftAssumption DEF Restarted, Accept, Applied
<1>8. ASSUME NEW t \in Tasks, RestartFailed(t)
      PROVE  Runs
  BY <1>8 DEF RestartFailed, Reject, DropBackup, Release
<1>9. ASSUME NEW t \in Tasks, Cancel(t)
      PROVE  Runs
  BY <1>9 DEF Cancel, TimesOut
<1>10. ASSUME NEW t \in Tasks, CommitSwitch(t) \/ DiscardSwitch(t) \/
                               RestorePrevious(t)
      PROVE  Runs
  BY <1>10 DEF CommitSwitch, Applied, DiscardSwitch, RestorePrevious
<1>11. ASSUME NEW t \in Tasks, AcquireModify(t) \/ AppendItem(t) \/
                               AppendFails(t)
      PROVE  Runs
  BY <1>11 DEF AcquireModify, AppendItem, AppendFails
<1>12. ASSUME NEW t \in Tasks, DeleteItem(t) \/ DeleteFails(t) \/ Save(t)
      PROVE  Runs
  BY <1>12 DEF DeleteItem, DeleteFails, Save
<1>13. ASSUME NEW t \in Tasks, PublishImport(t) \/ StoreImport(t)
      PROVE  Runs
  BY <1>13 DEF PublishImport, Applied, StoreImport
<1>14. CASE BeginExit \/ CoreReloads \/ OrphanLoads
  BY <1>14 DEF BeginExit, CoreReloads, OrphanLoads
<1>15. CASE UNCHANGED vars
  BY <1>15
<1> QED
  BY <1>1, <1>2, <1>3, <1>4, <1>5, <1>6, <1>7, <1>8, <1>9, <1>10, <1>11,
     <1>12, <1>13, <1>14, <1>15 DEF Next,
     Call, Proceed, Answered

(* A runtime configuration is committed only when the core runs it, as     *)
(* long as cmd/runtime.rs does not edit the draft an operation is applying. *)
THEOREM CommitsRun ==
    ASSUME "chain" \notin Kinds PROVE Spec => AppliedRuns
<1>1. Init => DraftApplied
  BY DraftAppliedInit
<1>2. Inv /\ Called /\ DraftApplied /\ [Next]_vars => DraftApplied'
  BY DraftAppliedStep
<1>3. Inv /\ DraftApplied /\ [Next]_vars => [rt' # rt => rt' = core']_vars
  BY CommitRuns
<1> QED
  BY <1>1, <1>2, <1>3, InvHolds, CalledHolds, PTL DEF Spec, AppliedRuns

-----------------------------------------------------------------------------
(* Where the profile list, the runtime file and the core stand during a    *)
(* switch, while switches and the exit are the only commands.              *)
Agree(p) == core # None /\ core.src = p /\ core = run

(* A task that does not switch is idle, or saves what a failed switch      *)
(* restored; and a reload is asked for by the one that waits for it.       *)
KindSteps == \A t \in Tasks :
    /\ kind[t] \in {"switch", "restore", "update"}
    /\ kind[t] = "update" => pc[t] = "idle"
    /\ kind[t] = "restore" => pc[t] \in {"idle", "wantSave", "saving"}
AnswerAwaited == reload # "none" => \E t \in Tasks : pc[t] = "answer"

(* From its draft to the core: the switch opens a draft of the list, reads *)
(* its current profile, generates that profile's configuration, and when   *)
(* it is accepted the core runs it.                                        *)
DraftOpen == \A t \in Tasks :
    kind[t] = "switch" /\ pc[t] \in UpdateSteps \cup {"accepted"} => draft # NoDraft
SeenDraft == \A t \in Tasks :
    kind[t] = "switch" /\ pc[t] \in UpdateSteps \ {"wantOp"} => seen = draft.current
DraftSource == \A t \in Tasks :
    pc[t] \in Applying \cup {"backup", "write"} => rtDraft.src = seen
AcceptedAgrees == \A t \in Tasks :
    kind[t] = "switch" /\ pc[t] = "accepted" /\ ~doubt => Agree(draft.current)

(* The way back: until it is accepted the previous profile is the current  *)
(* one of the committed list, outside the section that touches it the core *)
(* runs it, and inside the backup holds it.                                *)
PrevKept == \A t \in Tasks :
    kind[t] = "switch" /\ ~doubt /\ pc[t] \in UpdateSteps \cup {"failed", "restoring"}
        => prev = data.current
CurrentAgrees == \A t \in Tasks :
    kind[t] = "switch" /\ ~doubt /\ pc[t] \in {"wantOp", "generate", "backup", "write",
            "failed", "restoring", "wantSave", "saving"}
        => Agree(data.current)
BackupAgrees == \A t \in Tasks :
    kind[t] = "switch" /\ ~doubt /\ hasBackup /\ pc[t] \in Applying \cup {"write"}
        => backup # None /\ backup.src = data.current
RestoreOpen == \A t \in Tasks :
    kind[t] = "switch" /\ ~doubt /\ pc[t] = "restoring"
        => draft # NoDraft /\ draft.current = data.current

AtRest == ~doubt /\ ~switching => Agree(data.current)

SwitchPath ==
    /\ KindSteps /\ AnswerAwaited
    /\ DraftOpen /\ SeenDraft /\ DraftSource /\ AcceptedAgrees
    /\ PrevKept /\ CurrentAgrees /\ BackupAgrees /\ RestoreOpen /\ AtRest

(* A restored profile is saved by a task that goes idle afterwards.        *)
LEMMA KindStepsStep ==
    ASSUME Kinds \subseteq {"switch", "exit"}
    PROVE  Inv /\ Called /\ KindSteps /\ [Next]_vars => KindSteps'
<1> SUFFICES ASSUME Inv, Called, KindSteps, [Next]_vars PROVE KindSteps'
  OBVIOUS
<1> USE DEF Inv, TypeOK, ControlTypes, Goto, At, vars, controlVars,
        commandVars, KindSteps, UpdateSteps
<1>0. Kinds \cap {"update", "chain", "import", "deeplink", "delete"} = {}
  OBVIOUS
<1>1. ASSUME NEW t \in Tasks, NEW p \in Profiles, BeginSwitch(t, p)
      PROVE  KindSteps'
  BY <1>1, <1>0 DEF Begin, BeginSwitch
<1>2. ASSUME NEW t \in Tasks, NEW p \in Profiles, BeginImport(t, p)
      PROVE  KindSteps'
  BY <1>2, <1>0 DEF Begin, BeginImport
<1>3. ASSUME NEW t \in Tasks, NEW p \in Profiles, BeginDelete(t, p)
      PROVE  KindSteps'
  BY <1>3, <1>0 DEF Begin, BeginDelete
<1>4. ASSUME NEW t \in Tasks, NEW e \in Edits, BeginChain(t, e)
      PROVE  KindSteps'
  BY <1>4, <1>0 DEF Begin, BeginChain
<1>5. ASSUME NEW t \in Tasks, BeginUpdate(t)
      PROVE  KindSteps'
  BY <1>5, <1>0 DEF Begin, BeginUpdate
<1>6. ASSUME NEW t \in Tasks, AcquireOp(t) \/ Generate(t) \/ Backup(t) \/
                              WriteRun(t)
      PROVE  KindSteps'
  BY <1>6, <1>0 DEF AcquireOp, Release, Generate, Backup, WriteRun,
       DropBackup, FileConfig, RtLatest
<1>7. ASSUME NEW t \in Tasks, SkipReload(t) \/ SendReload(t) \/ Reloaded(t) \/
                              ReloadFailed(t)
      PROVE  KindSteps'
  BY <1>7, <1>0 DEF SkipReload, SendReload, Reloaded, Accept, DropBackup,
       Release, ReloadFailed
<1>8. ASSUME NEW t \in Tasks, Validated(t) \/ ValidationFailed(t) \/
                              StopForRestart(t) \/ Restarted(t) \/
                              RestartFailed(t)
      PROVE  KindSteps'
  BY <1>8, <1>0 DEF Validated, FileConfig, RtLatest, ValidationFailed, Reject,
       DropBackup, Release, StopForRestart, Restarted, Accept, RestartFailed
<1>9. ASSUME NEW t \in Tasks, Cancel(t)
      PROVE  KindSteps'
  BY <1>9, <1>0 DEF Cancel, TimesOut
<1>10. ASSUME NEW t \in Tasks, CommitSwitch(t)
      PROVE  KindSteps'
  BY <1>10, <1>0 DEF CommitSwitch, Applied
<1>11. ASSUME NEW t \in Tasks, DiscardSwitch(t)
      PROVE  KindSteps'
  BY <1>11, <1>0 DEF DiscardSwitch
<1>12. ASSUME NEW t \in Tasks, RestorePrevious(t)
      PROVE  KindSteps'
  BY <1>12, <1>0 DEF RestorePrevious, Applied, SwitchSteps
<1>13. ASSUME NEW t \in Tasks, AcquireModify(t)
      PROVE  KindSteps'
  BY <1>13, <1>0 DEF AcquireModify
<1>14. ASSUME NEW t \in Tasks, AppendItem(t)
      PROVE  KindSteps'
  BY <1>14, <1>0 DEF AppendItem
<1>15. ASSUME NEW t \in Tasks, AppendFails(t)
      PROVE  KindSteps'
  BY <1>15, <1>0 DEF AppendFails
<1>16. ASSUME NEW t \in Tasks, DeleteItem(t)
      PROVE  KindSteps'
  BY <1>16, <1>0 DEF DeleteItem
<1>17. ASSUME NEW t \in Tasks, DeleteFails(t)
      PROVE  KindSteps'
  BY <1>17, <1>0 DEF DeleteFails
<1>18. ASSUME NEW t \in Tasks, Save(t)
      PROVE  KindSteps'
  BY <1>18, <1>0 DEF Save
<1>19. ASSUME NEW t \in Tasks, PublishImport(t)
      PROVE  KindSteps'
  BY <1>19, <1>0 DEF PublishImport, Applied
<1>20. ASSUME NEW t \in Tasks, StoreImport(t)
      PROVE  KindSteps'
  BY <1>20, <1>0 DEF StoreImport
<1>21. CASE BeginExit \/ CoreReloads \/ OrphanLoads
  BY <1>21, <1>0 DEF BeginExit, CoreReloads, OrphanLoads
<1>22. CASE UNCHANGED vars
  BY <1>22, <1>0
<1> QED
  BY <1>1, <1>2, <1>3, <1>4, <1>5, <1>6, <1>7, <1>8, <1>9, <1>10, <1>11,
     <1>12, <1>13, <1>14, <1>15, <1>16, <1>17, <1>18, <1>19, <1>20, <1>21,
     <1>22 DEF Next,
     Call, Proceed, Answered

(* At most one task switches, and at most one is under operation_lock.     *)
OneSwitcher == \A t, u \in Tasks : SwitchRuns(t) /\ SwitchRuns(u) => t = u
OneApplier == \A t, u \in Tasks :
    pc[t] \in UpdateSteps \ {"wantOp"} /\ pc[u] \in UpdateSteps \ {"wantOp"} => t = u

LEMMA Alone == Inv => OneSwitcher /\ OneApplier
  BY OneHolder DEF Inv, OneSwitch, OneSwitcher, OneApplier

(* The steps that are left.                                                *)
LEMMA OnlySwitches ==
    ASSUME Kinds \subseteq {"switch", "exit"}, Inv, KindSteps, [Next]_vars
    PROVE  \/ \E t \in Tasks : \E p \in Profiles : BeginSwitch(t, p)
           \/ \E t \in Tasks :
                 \/ AcquireOp(t) \/ Generate(t) \/ Backup(t) \/ WriteRun(t)
                 \/ SkipReload(t) \/ SendReload(t) \/ ReloadFailed(t) \/ Validated(t)
                 \/ StopForRestart(t) \/ Reloaded(t) \/ Restarted(t)
                 \/ ValidationFailed(t) \/ RestartFailed(t) \/ Cancel(t)
                 \/ CommitSwitch(t) \/ DiscardSwitch(t) \/ RestorePrevious(t)
                 \/ AcquireModify(t) \/ Save(t)
           \/ BeginExit \/ CoreReloads \/ OrphanLoads
           \/ UNCHANGED vars
<1>1. ASSUME NEW t \in Tasks
      PROVE  /\ ~BeginUpdate(t)
             /\ \A e \in Edits : ~BeginChain(t, e)
             /\ \A p \in Profiles : ~BeginImport(t, p) /\ ~BeginDelete(t, p)
  BY DEF BeginUpdate, BeginChain, BeginImport, BeginDelete, Begin
<1>2. ASSUME NEW t \in Tasks
      PROVE  /\ ~AppendItem(t) /\ ~AppendFails(t) /\ ~DeleteItem(t) /\ ~DeleteFails(t)
             /\ ~PublishImport(t) /\ ~StoreImport(t)
  <2>1. kind[t] \notin {"import", "deeplink", "delete"}
    BY DEF KindSteps
  <2> QED BY <2>1 DEF AppendItem, AppendFails, DeleteItem, DeleteFails, PublishImport,
                      StoreImport, Inv, SwitchSteps, At
<1> QED
  BY <1>1, <1>2, Zenon DEF Next, Call, Proceed, Answered

(* Whoever leaves the wait takes the request with it, or makes it an orphan. *)
LEMMA AnswerAwaitedStep ==
    ASSUME Kinds \subseteq {"switch", "exit"}
    PROVE  Inv /\ KindSteps /\ AnswerAwaited /\ [Next]_vars => AnswerAwaited'
<1> SUFFICES ASSUME Inv, KindSteps, AnswerAwaited, [Next]_vars PROVE AnswerAwaited'
  OBVIOUS
<1> USE DEF Inv, TypeOK, ControlTypes, Goto, At, vars, controlVars,
        commandVars, UpdateSteps, Applying, KindSteps, OneSwitcher,
        OneApplier, SwitchRuns, CoreTypes, coreVars, AnswerAwaited
<1>0. OneSwitcher /\ OneApplier
  BY Alone
<1>1. ASSUME NEW t \in Tasks, NEW p \in Profiles, BeginSwitch(t, p)
      PROVE  AnswerAwaited'
  BY <1>1, <1>0, ConstantsAssumption, NoDraftAssumption DEF Begin, BeginSwitch
<1>2. ASSUME NEW t \in Tasks, AcquireOp(t) \/ Generate(t) \/ Backup(t) \/
                              WriteRun(t)
      PROVE  AnswerAwaited'
  BY <1>2, <1>0, ConstantsAssumption, NoDraftAssumption DEF AcquireOp,
       Release, Generate, Backup, WriteRun, DropBackup, FileConfig, RtLatest
<1>3. ASSUME NEW t \in Tasks, SkipReload(t)
      PROVE  AnswerAwaited'
  BY <1>3, <1>0, ConstantsAssumption, NoDraftAssumption DEF SkipReload
<1>4. ASSUME NEW t \in Tasks, SendReload(t)
      PROVE  AnswerAwaited'
  BY <1>4, <1>0, ConstantsAssumption, NoDraftAssumption DEF SendReload
<1>5. ASSUME NEW t \in Tasks, ReloadFailed(t) \/ Validated(t) \/
                              StopForRestart(t)
      PROVE  AnswerAwaited'
  BY <1>5, <1>0, ConstantsAssumption, NoDraftAssumption DEF ReloadFailed,
       Validated, FileConfig, RtLatest, StopForRestart
<1>6. ASSUME NEW t \in Tasks, Reloaded(t) \/ Restarted(t)
      PROVE  AnswerAwaited'
  BY <1>6, <1>0, ConstantsAssumption, NoDraftAssumption DEF Reloaded, Accept,
       DropBackup, Release, Restarted
<1>7. ASSUME NEW t \in Tasks, ValidationFailed(t) \/ RestartFailed(t)
      PROVE  AnswerAwaited'
  BY <1>7, <1>0, ConstantsAssumption, NoDraftAssumption DEF ValidationFailed,
       Reject, DropBackup, Release, RestartFailed
<1>8. ASSUME NEW t \in Tasks, Cancel(t)
      PROVE  AnswerAwaited'
  BY <1>8, <1>0, ConstantsAssumption, NoDraftAssumption DEF Cancel, TimesOut
<1>9. ASSUME NEW t \in Tasks, CommitSwitch(t) \/ DiscardSwitch(t) \/
                              RestorePrevious(t)
      PROVE  AnswerAwaited'
  BY <1>9, <1>0, ConstantsAssumption, NoDraftAssumption DEF CommitSwitch,
       Applied, DiscardSwitch, RestorePrevious
<1>10. ASSUME NEW t \in Tasks, AcquireModify(t) \/ Save(t)
      PROVE  AnswerAwaited'
  BY <1>10, <1>0, ConstantsAssumption, NoDraftAssumption DEF AcquireModify,
       Save
<1>11. CASE BeginExit \/ CoreReloads \/ OrphanLoads
  BY <1>11, <1>0 DEF BeginExit, CoreReloads, OrphanLoads
<1>12. CASE UNCHANGED vars
  BY <1>12, <1>0
<1> QED
  BY <1>1, <1>2, <1>3, <1>4, <1>5, <1>6, <1>7, <1>8, <1>9, <1>10, <1>11,
     <1>12, OnlySwitches

(* The draft is closed by the commit or the discard of its switch.         *)
LEMMA DraftOpenStep ==
    ASSUME Kinds \subseteq {"switch", "exit"}
    PROVE  Inv /\ KindSteps /\ DraftOpen /\ [Next]_vars => DraftOpen'
<1> SUFFICES ASSUME Inv, KindSteps, DraftOpen, [Next]_vars PROVE DraftOpen'
  OBVIOUS
<1> USE DEF Inv, TypeOK, ControlTypes, Goto, At, vars, controlVars,
        commandVars, UpdateSteps, Applying, KindSteps, OneSwitcher,
        OneApplier, SwitchRuns, ProfileTypes, profileVars, DraftOpen
<1>0. OneSwitcher /\ OneApplier
  BY Alone
<1>1. ASSUME NEW t \in Tasks, NEW p \in Profiles, BeginSwitch(t, p)
      PROVE  DraftOpen'
  BY <1>1, <1>0, ConstantsAssumption, NoDraftAssumption DEF Begin,
       BeginSwitch, Latest, Patch, List
<1>2. ASSUME NEW t \in Tasks, AcquireOp(t) \/ Generate(t) \/ Backup(t) \/
                              WriteRun(t)
      PROVE  DraftOpen'
  BY <1>2, <1>0, ConstantsAssumption, NoDraftAssumption DEF AcquireOp,
       Release, Generate, Backup, WriteRun, DropBackup, FileConfig, RtLatest
<1>3. ASSUME NEW t \in Tasks, SkipReload(t) \/ SendReload(t) \/
                              ReloadFailed(t) \/ Validated(t) \/
                              StopForRestart(t)
      PROVE  DraftOpen'
  BY <1>3, <1>0, ConstantsAssumption, NoDraftAssumption DEF SkipReload,
       SendReload, ReloadFailed, Validated, FileConfig, RtLatest,
       StopForRestart
<1>4. ASSUME NEW t \in Tasks, Reloaded(t) \/ Restarted(t)
      PROVE  DraftOpen'
  BY <1>4, <1>0, ConstantsAssumption, NoDraftAssumption DEF Reloaded, Accept,
       DropBackup, Release, Restarted
<1>5. ASSUME NEW t \in Tasks, ValidationFailed(t) \/ RestartFailed(t)
      PROVE  DraftOpen'
  BY <1>5, <1>0, ConstantsAssumption, NoDraftAssumption DEF ValidationFailed,
       Reject, DropBackup, Release, RestartFailed
<1>6. ASSUME NEW t \in Tasks, Cancel(t)
      PROVE  DraftOpen'
  BY <1>6, <1>0, ConstantsAssumption, NoDraftAssumption DEF Cancel, TimesOut
<1>7. ASSUME NEW t \in Tasks, CommitSwitch(t)
      PROVE  DraftOpen'
  BY <1>7, <1>0, ConstantsAssumption, NoDraftAssumption DEF CommitSwitch,
       Applied
<1>8. ASSUME NEW t \in Tasks, DiscardSwitch(t)
      PROVE  DraftOpen'
  BY <1>8, <1>0, ConstantsAssumption, NoDraftAssumption DEF DiscardSwitch
<1>9. ASSUME NEW t \in Tasks, RestorePrevious(t)
      PROVE  DraftOpen'
  BY <1>9, <1>0, ConstantsAssumption, NoDraftAssumption DEF RestorePrevious,
       Applied
<1>10. ASSUME NEW t \in Tasks, AcquireModify(t) \/ Save(t)
      PROVE  DraftOpen'
  BY <1>10, <1>0, ConstantsAssumption, NoDraftAssumption DEF AcquireModify,
       Save
<1>11. CASE BeginExit \/ CoreReloads \/ OrphanLoads
  BY <1>11, <1>0 DEF BeginExit, CoreReloads, OrphanLoads
<1>12. CASE UNCHANGED vars
  BY <1>12, <1>0
<1> QED
  BY <1>1, <1>2, <1>3, <1>4, <1>5, <1>6, <1>7, <1>8, <1>9, <1>10, <1>11,
     <1>12, OnlySwitches

(* Under operation_lock nobody else reads, and nobody edits the draft.     *)
LEMMA SeenDraftStep ==
    ASSUME Kinds \subseteq {"switch", "exit"}
    PROVE  Inv /\ KindSteps /\ DraftOpen /\ SeenDraft /\ [Next]_vars => SeenDraft'
<1> SUFFICES ASSUME Inv, KindSteps, DraftOpen, SeenDraft, [Next]_vars
             PROVE  SeenDraft'
  OBVIOUS
<1> USE DEF Inv, TypeOK, ControlTypes, Goto, At, vars, controlVars,
        commandVars, UpdateSteps, Applying, KindSteps, OneSwitcher,
        OneApplier, SwitchRuns, ProfileTypes, profileVars, runtimeVars,
        DraftOpen, SeenDraft
<1>0. OneSwitcher /\ OneApplier
  BY Alone
<1>1. ASSUME NEW t \in Tasks, NEW p \in Profiles, BeginSwitch(t, p)
      PROVE  SeenDraft'
  <2>1. \A u \in Tasks : ~SwitchRuns(u)
    BY <1>1 DEF BeginSwitch, OneSwitch
  <2> QED BY <1>1, <2>1 DEF Begin, BeginSwitch
<1>2. ASSUME NEW t \in Tasks, AcquireOp(t)
      PROVE  SeenDraft'
  BY <1>2, <1>0, ConstantsAssumption, NoDraftAssumption DEF AcquireOp,
       Release, Latest
<1>3. ASSUME NEW t \in Tasks, Generate(t) \/ Backup(t) \/ WriteRun(t)
      PROVE  SeenDraft'
  BY <1>3, <1>0, ConstantsAssumption, NoDraftAssumption DEF Generate, Release,
       Backup, WriteRun, DropBackup, FileConfig, RtLatest
<1>4. ASSUME NEW t \in Tasks, SkipReload(t) \/ SendReload(t) \/
                              ReloadFailed(t) \/ Validated(t) \/
                              StopForRestart(t)
      PROVE  SeenDraft'
  BY <1>4, <1>0, ConstantsAssumption, NoDraftAssumption DEF SkipReload,
       SendReload, ReloadFailed, Validated, FileConfig, RtLatest,
       StopForRestart
<1>5. ASSUME NEW t \in Tasks, Reloaded(t) \/ Restarted(t)
      PROVE  SeenDraft'
  BY <1>5, <1>0, ConstantsAssumption, NoDraftAssumption DEF Reloaded, Accept,
       DropBackup, Release, Restarted
<1>6. ASSUME NEW t \in Tasks, ValidationFailed(t) \/ RestartFailed(t)
      PROVE  SeenDraft'
  BY <1>6, <1>0, ConstantsAssumption, NoDraftAssumption DEF ValidationFailed,
       Reject, DropBackup, Release, RestartFailed
<1>7. ASSUME NEW t \in Tasks, Cancel(t)
      PROVE  SeenDraft'
  BY <1>7, <1>0, ConstantsAssumption, NoDraftAssumption DEF Cancel, TimesOut
<1>8. ASSUME NEW t \in Tasks, CommitSwitch(t)
      PROVE  SeenDraft'
  BY <1>8, <1>0, ConstantsAssumption, NoDraftAssumption DEF CommitSwitch,
       Applied
<1>9. ASSUME NEW t \in Tasks, DiscardSwitch(t)
      PROVE  SeenDraft'
  BY <1>9, <1>0, ConstantsAssumption, NoDraftAssumption DEF DiscardSwitch
<1>10. ASSUME NEW t \in Tasks, RestorePrevious(t)
      PROVE  SeenDraft'
  BY <1>10, <1>0, ConstantsAssumption, NoDraftAssumption DEF RestorePrevious,
       Applied
<1>11. ASSUME NEW t \in Tasks, AcquireModify(t) \/ Save(t)
      PROVE  SeenDraft'
  BY <1>11, <1>0, ConstantsAssumption, NoDraftAssumption DEF AcquireModify,
       Save
<1>12. CASE BeginExit \/ CoreReloads \/ OrphanLoads
  BY <1>12, <1>0 DEF BeginExit, CoreReloads, OrphanLoads
<1>13. CASE UNCHANGED vars
  BY <1>13, <1>0
<1> QED
  BY <1>1, <1>2, <1>3, <1>4, <1>5, <1>6, <1>7, <1>8, <1>9, <1>10, <1>11,
     <1>12, <1>13, OnlySwitches

(* The configuration is generated from the profile that was read.          *)
LEMMA DraftSourceStep ==
    ASSUME Kinds \subseteq {"switch", "exit"}
    PROVE  Inv /\ KindSteps /\ DraftSource /\ [Next]_vars => DraftSource'
<1> SUFFICES ASSUME Inv, KindSteps, DraftSource, [Next]_vars PROVE DraftSource'
  OBVIOUS
<1> USE DEF Inv, TypeOK, ControlTypes, Goto, At, vars, controlVars,
        commandVars, UpdateSteps, Applying, KindSteps, OneSwitcher,
        OneApplier, SwitchRuns, RuntimeTypes, runtimeVars, DraftSource
<1>0. OneSwitcher /\ OneApplier
  BY Alone
<1>1. ASSUME NEW t \in Tasks, NEW p \in Profiles, BeginSwitch(t, p)
      PROVE  DraftSource'
  BY <1>1, <1>0, ConstantsAssumption, NoDraftAssumption DEF Begin, BeginSwitch
<1>2. ASSUME NEW t \in Tasks, AcquireOp(t)
      PROVE  DraftSource'
  BY <1>2, <1>0, ConstantsAssumption, NoDraftAssumption DEF AcquireOp, Release
<1>3. ASSUME NEW t \in Tasks, Generate(t)
      PROVE  DraftSource'
  BY <1>3, <1>0, ConstantsAssumption, NoDraftAssumption DEF Generate, Release,
       Config
<1>4. ASSUME NEW t \in Tasks, Backup(t)
      PROVE  DraftSource'
  BY <1>4, <1>0, ConstantsAssumption, NoDraftAssumption DEF Backup
<1>5. ASSUME NEW t \in Tasks, WriteRun(t)
      PROVE  DraftSource'
  BY <1>5, <1>0, ConstantsAssumption, NoDraftAssumption DEF WriteRun, Release,
       DropBackup, FileConfig, RtLatest
<1>6. ASSUME NEW t \in Tasks, SkipReload(t) \/ SendReload(t) \/
                              ReloadFailed(t) \/ Validated(t) \/
                              StopForRestart(t)
      PROVE  DraftSource'
  BY <1>6, <1>0, ConstantsAssumption, NoDraftAssumption DEF SkipReload,
       SendReload, ReloadFailed, Validated, FileConfig, RtLatest,
       StopForRestart
<1>7. ASSUME NEW t \in Tasks, Reloaded(t)
      PROVE  DraftSource'
  BY <1>7, <1>0, ConstantsAssumption, NoDraftAssumption DEF Reloaded, Accept,
       DropBackup, Release
<1>8. ASSUME NEW t \in Tasks, Restarted(t)
      PROVE  DraftSource'
  BY <1>8, <1>0, ConstantsAssumption, NoDraftAssumption DEF Restarted, Accept,
       DropBackup, Release
<1>9. ASSUME NEW t \in Tasks, ValidationFailed(t) \/ RestartFailed(t)
      PROVE  DraftSource'
  BY <1>9, <1>0, ConstantsAssumption, NoDraftAssumption DEF ValidationFailed,
       Reject, DropBackup, Release, RestartFailed
<1>10. ASSUME NEW t \in Tasks, Cancel(t)
      PROVE  DraftSource'
  BY <1>10, <1>0, ConstantsAssumption, NoDraftAssumption DEF Cancel, TimesOut
<1>11. ASSUME NEW t \in Tasks, CommitSwitch(t) \/ DiscardSwitch(t) \/
                               RestorePrevious(t)
      PROVE  DraftSource'
  BY <1>11, <1>0, ConstantsAssumption, NoDraftAssumption DEF CommitSwitch,
       Applied, DiscardSwitch, RestorePrevious
<1>12. ASSUME NEW t \in Tasks, AcquireModify(t) \/ Save(t)
      PROVE  DraftSource'
  BY <1>12, <1>0, ConstantsAssumption, NoDraftAssumption DEF AcquireModify,
       Save
<1>13. CASE BeginExit \/ CoreReloads \/ OrphanLoads
  BY <1>13, <1>0 DEF BeginExit, CoreReloads, OrphanLoads
<1>14. CASE UNCHANGED vars
  BY <1>14, <1>0
<1> QED
  BY <1>1, <1>2, <1>3, <1>4, <1>5, <1>6, <1>7, <1>8, <1>9, <1>10, <1>11,
     <1>12, <1>13, <1>14, OnlySwitches

(* An operation is accepted when the core runs what was generated.         *)
LEMMA AcceptedAgreesStep ==
    ASSUME Kinds \subseteq {"switch", "exit"}
    PROVE  Inv /\ KindSteps /\ AnswerAwaited /\ DraftApplied /\
           SeenDraft /\ DraftSource /\ AcceptedAgrees /\ [Next]_vars => AcceptedAgrees'
<1> SUFFICES ASSUME Inv, KindSteps, AnswerAwaited, DraftApplied, SeenDraft,
                    DraftSource, AcceptedAgrees, [Next]_vars
             PROVE  AcceptedAgrees'
  OBVIOUS
<1> USE DEF Inv, TypeOK, ControlTypes, Goto, At, vars, controlVars,
        commandVars, UpdateSteps, Applying, KindSteps, OneSwitcher,
        OneApplier, SwitchRuns, runtimeVars, profileVars, coreVars, history,
        noteVars, Agree, AnswerAwaited, SeenDraft, DraftSource, AcceptedAgrees
<1>0. OneSwitcher /\ OneApplier
  BY Alone
<1>1. ASSUME NEW t \in Tasks, NEW p \in Profiles, BeginSwitch(t, p)
      PROVE  AcceptedAgrees'
  <2>1. \A u \in Tasks : ~SwitchRuns(u)
    BY <1>1 DEF BeginSwitch, OneSwitch
  <2> QED BY <1>1, <2>1 DEF Begin, BeginSwitch
<1>2. ASSUME NEW t \in Tasks, AcquireOp(t) \/ Generate(t) \/ Backup(t) \/
                              WriteRun(t)
      PROVE  AcceptedAgrees'
  BY <1>2, <1>0, ConstantsAssumption, NoDraftAssumption DEF AcquireOp,
       Release, Generate, Backup, WriteRun, DropBackup, FileConfig, RtLatest
<1>3. ASSUME NEW t \in Tasks, SkipReload(t) \/ SendReload(t) \/
                              ReloadFailed(t) \/ Validated(t) \/
                              StopForRestart(t)
      PROVE  AcceptedAgrees'
  BY <1>3, <1>0, ConstantsAssumption, NoDraftAssumption DEF SkipReload,
       SendReload, ReloadFailed, Validated, FileConfig, RtLatest,
       StopForRestart
<1>4. ASSUME NEW t \in Tasks, Reloaded(t)
      PROVE  AcceptedAgrees'
  <2>1. core = run /\ run = rtDraft /\ rtDraft \in Config /\ rtDraft.src = seen
    BY <1>4 DEF Reloaded, DraftApplied, DraftKept, FileWritten, CoreLoaded
  <2>2. core' = run' /\ run' \in Config /\ run'.src = seen
    BY <1>4, <2>1 DEF Reloaded
  <2>3. core' # None
    BY <2>2, NoDraftAssumption
  <2> QED BY <1>4, <2>2, <2>3, <1>0 DEF Reloaded, Accept, Release
<1>5. ASSUME NEW t \in Tasks, Restarted(t)
      PROVE  AcceptedAgrees'
  <2>1. Accepts(run) /\ run = rtDraft /\ rtDraft \in Config /\ rtDraft.src = seen
    BY <1>5 DEF Restarted, DraftApplied, DraftKept, FileWritten, FileAccepted
  <2>2. core' = run' /\ run' \in Config /\ run'.src = seen
    BY <1>5, <2>1 DEF Restarted
  <2>3. core' # None
    BY <2>2, NoDraftAssumption
  <2> QED BY <1>5, <2>2, <2>3, <1>0 DEF Restarted, Accept, Release
<1>6. ASSUME NEW t \in Tasks, ValidationFailed(t) \/ RestartFailed(t)
      PROVE  AcceptedAgrees'
  BY <1>6, <1>0, ConstantsAssumption, NoDraftAssumption DEF ValidationFailed,
       Reject, DropBackup, Release, RestartFailed
<1>7. ASSUME NEW t \in Tasks, Cancel(t)
      PROVE  AcceptedAgrees'
  BY <1>7, <1>0, ConstantsAssumption, NoDraftAssumption DEF Cancel, TimesOut
<1>8. ASSUME NEW t \in Tasks, CommitSwitch(t)
      PROVE  AcceptedAgrees'
  BY <1>8, <1>0, ConstantsAssumption, NoDraftAssumption DEF CommitSwitch,
       Applied
<1>9. ASSUME NEW t \in Tasks, DiscardSwitch(t)
      PROVE  AcceptedAgrees'
  BY <1>9, <1>0, ConstantsAssumption, NoDraftAssumption DEF DiscardSwitch
<1>10. ASSUME NEW t \in Tasks, RestorePrevious(t)
      PROVE  AcceptedAgrees'
  BY <1>10, <1>0, ConstantsAssumption, NoDraftAssumption DEF RestorePrevious,
       Applied
<1>11. ASSUME NEW t \in Tasks, AcquireModify(t)
      PROVE  AcceptedAgrees'
  BY <1>11, <1>0, ConstantsAssumption, NoDraftAssumption DEF AcquireModify
<1>12. ASSUME NEW t \in Tasks, Save(t)
      PROVE  AcceptedAgrees'
  BY <1>12, <1>0, ConstantsAssumption, NoDraftAssumption DEF Save
<1>13. CASE BeginExit \/ CoreReloads \/ OrphanLoads
  <2>1. CASE BeginExit \/ OrphanLoads
    BY <1>13, <2>1 DEF BeginExit, OrphanLoads
  <2>2. CASE CoreReloads
    <3>1. PICK u \in Tasks : pc[u] = "answer" /\ kind[u] = "switch"
      BY <2>2 DEF CoreReloads, AnswerAwaited, KindSteps
    <3> QED BY <2>2, <3>1, <1>0 DEF CoreReloads
  <2> QED BY <1>13, <2>1, <2>2
<1>14. CASE UNCHANGED vars
  BY <1>14, <1>0
<1> QED
  BY <1>1, <1>2, <1>3, <1>4, <1>5, <1>6, <1>7, <1>8, <1>9, <1>10, <1>11,
     <1>12, <1>13, <1>14, OnlySwitches

(* A save that changes the current profile is in doubt.                    *)
LEMMA PrevKeptStep ==
    ASSUME Kinds \subseteq {"switch", "exit"}
    PROVE  Inv /\ KindSteps /\ PrevKept /\ [Next]_vars => PrevKept'
<1> SUFFICES ASSUME Inv, KindSteps, PrevKept, [Next]_vars PROVE PrevKept'
  OBVIOUS
<1> USE DEF Inv, TypeOK, ControlTypes, Goto, At, vars, controlVars,
        commandVars, UpdateSteps, Applying, KindSteps, OneSwitcher,
        OneApplier, SwitchRuns, profileVars, switchVars, history, noteVars,
        PrevKept
<1>0. OneSwitcher /\ OneApplier
  BY Alone
<1>1. ASSUME NEW t \in Tasks, NEW p \in Profiles, BeginSwitch(t, p)
      PROVE  PrevKept'
  BY <1>1, <1>0, ConstantsAssumption, NoDraftAssumption DEF Begin, BeginSwitch
<1>2. ASSUME NEW t \in Tasks, AcquireOp(t) \/ Generate(t) \/ Backup(t) \/
                              WriteRun(t)
      PROVE  PrevKept'
  BY <1>2, <1>0, ConstantsAssumption, NoDraftAssumption DEF AcquireOp,
       Release, Generate, Backup, WriteRun, DropBackup, FileConfig, RtLatest
<1>3. ASSUME NEW t \in Tasks, SkipReload(t) \/ SendReload(t) \/
                              ReloadFailed(t) \/ Validated(t) \/
                              StopForRestart(t)
      PROVE  PrevKept'
  BY <1>3, <1>0, ConstantsAssumption, NoDraftAssumption DEF SkipReload,
       SendReload, ReloadFailed, Validated, FileConfig, RtLatest,
       StopForRestart
<1>4. ASSUME NEW t \in Tasks, Reloaded(t) \/ Restarted(t)
      PROVE  PrevKept'
  BY <1>4, <1>0, ConstantsAssumption, NoDraftAssumption DEF Reloaded, Accept,
       DropBackup, Release, Restarted
<1>5. ASSUME NEW t \in Tasks, ValidationFailed(t) \/ RestartFailed(t)
      PROVE  PrevKept'
  BY <1>5, <1>0, ConstantsAssumption, NoDraftAssumption DEF ValidationFailed,
       Reject, DropBackup, Release, RestartFailed
<1>6. ASSUME NEW t \in Tasks, Cancel(t)
      PROVE  PrevKept'
  BY <1>6, <1>0, ConstantsAssumption, NoDraftAssumption DEF Cancel, TimesOut
<1>7. ASSUME NEW t \in Tasks, CommitSwitch(t)
      PROVE  PrevKept'
  BY <1>7, <1>0, ConstantsAssumption, NoDraftAssumption DEF CommitSwitch,
       Applied
<1>8. ASSUME NEW t \in Tasks, DiscardSwitch(t)
      PROVE  PrevKept'
  BY <1>8, <1>0, ConstantsAssumption, NoDraftAssumption DEF DiscardSwitch
<1>9. ASSUME NEW t \in Tasks, RestorePrevious(t)
      PROVE  PrevKept'
  BY <1>9, <1>0, ConstantsAssumption, NoDraftAssumption DEF RestorePrevious,
       Applied
<1>10. ASSUME NEW t \in Tasks, AcquireModify(t)
      PROVE  PrevKept'
  BY <1>10, <1>0, ConstantsAssumption, NoDraftAssumption DEF AcquireModify
<1>11. ASSUME NEW t \in Tasks, Save(t)
      PROVE  PrevKept'
  BY <1>11, <1>0, ConstantsAssumption, NoDraftAssumption DEF Save
<1>12. CASE BeginExit \/ CoreReloads \/ OrphanLoads
  BY <1>12, <1>0 DEF BeginExit, CoreReloads, OrphanLoads
<1>13. CASE UNCHANGED vars
  BY <1>13, <1>0
<1> QED
  BY <1>1, <1>2, <1>3, <1>4, <1>5, <1>6, <1>7, <1>8, <1>9, <1>10, <1>11,
     <1>12, <1>13, OnlySwitches

(* Given up, the file and the core are back at the previous profile.       *)
LEMMA CurrentAgreesStep ==
    ASSUME Kinds \subseteq {"switch", "exit"}
    PROVE  Inv /\ KindSteps /\ AcceptedAgrees /\ BackupAgrees /\
           AtRest /\ AnswerAwaited /\ DraftOpen /\ CurrentAgrees /\
           [Next]_vars => CurrentAgrees'
<1> SUFFICES ASSUME Inv, KindSteps, AcceptedAgrees, BackupAgrees, AtRest,
                    AnswerAwaited, DraftOpen, CurrentAgrees, [Next]_vars
             PROVE  CurrentAgrees'
  OBVIOUS
<1> USE DEF Inv, TypeOK, ControlTypes, Goto, At, vars, controlVars,
        commandVars, UpdateSteps, Applying, KindSteps, OneSwitcher,
        OneApplier, SwitchRuns, ProfileTypes, profileVars, runtimeVars,
        coreVars, switchVars, history, noteVars, Agree, BackupKept,
        AcceptedAgrees, BackupAgrees, AtRest, AnswerAwaited, DraftOpen,
        CurrentAgrees
<1>0. OneSwitcher /\ OneApplier
  BY Alone
<1>1. ASSUME NEW t \in Tasks, NEW p \in Profiles, BeginSwitch(t, p)
      PROVE  CurrentAgrees'
  BY <1>1, <1>0, ConstantsAssumption, NoDraftAssumption DEF Begin, BeginSwitch
<1>2. ASSUME NEW t \in Tasks, AcquireOp(t)
      PROVE  CurrentAgrees'
  BY <1>2, <1>0, ConstantsAssumption, NoDraftAssumption DEF AcquireOp, Release
<1>3. ASSUME NEW t \in Tasks, Generate(t)
      PROVE  CurrentAgrees'
  BY <1>3, <1>0, ConstantsAssumption, NoDraftAssumption DEF Generate, Release
<1>4. ASSUME NEW t \in Tasks, Backup(t)
      PROVE  CurrentAgrees'
  BY <1>4, <1>0, ConstantsAssumption, NoDraftAssumption DEF Backup
<1>5. ASSUME NEW t \in Tasks, WriteRun(t)
      PROVE  CurrentAgrees'
  BY <1>5, <1>0, ConstantsAssumption, NoDraftAssumption DEF WriteRun, Release,
       DropBackup, FileConfig, RtLatest
<1>6. ASSUME NEW t \in Tasks, SkipReload(t) \/ SendReload(t) \/
                              ReloadFailed(t) \/ Validated(t) \/
                              StopForRestart(t)
      PROVE  CurrentAgrees'
  BY <1>6, <1>0, ConstantsAssumption, NoDraftAssumption DEF SkipReload,
       SendReload, ReloadFailed, Validated, FileConfig, RtLatest,
       StopForRestart
<1>7. ASSUME NEW t \in Tasks, Reloaded(t) \/ Restarted(t)
      PROVE  CurrentAgrees'
  BY <1>7, <1>0, ConstantsAssumption, NoDraftAssumption DEF Reloaded, Accept,
       DropBackup, Release, Restarted
<1>8. ASSUME NEW t \in Tasks, ValidationFailed(t)
      PROVE  CurrentAgrees'
  BY <1>8, <1>0, ConstantsAssumption, NoDraftAssumption DEF ValidationFailed,
       Reject, DropBackup, Release
<1>9. ASSUME NEW t \in Tasks, RestartFailed(t)
      PROVE  CurrentAgrees'
  BY <1>9, <1>0, ConstantsAssumption, NoDraftAssumption DEF RestartFailed,
       Reject, DropBackup, Release
<1>10. ASSUME NEW t \in Tasks, Cancel(t)
      PROVE  CurrentAgrees'
  BY <1>10, <1>0, ConstantsAssumption, NoDraftAssumption DEF Cancel, TimesOut
<1>11. ASSUME NEW t \in Tasks, CommitSwitch(t)
      PROVE  CurrentAgrees'
  BY <1>11, <1>0, ConstantsAssumption, NoDraftAssumption DEF CommitSwitch,
       Applied
<1>12. ASSUME NEW t \in Tasks, DiscardSwitch(t)
      PROVE  CurrentAgrees'
  BY <1>12, <1>0, ConstantsAssumption, NoDraftAssumption DEF DiscardSwitch
<1>13. ASSUME NEW t \in Tasks, RestorePrevious(t)
      PROVE  CurrentAgrees'
  BY <1>13, <1>0, ConstantsAssumption, NoDraftAssumption DEF RestorePrevious,
       Applied
<1>14. ASSUME NEW t \in Tasks, AcquireModify(t)
      PROVE  CurrentAgrees'
  BY <1>14, <1>0, ConstantsAssumption, NoDraftAssumption DEF AcquireModify
<1>15. ASSUME NEW t \in Tasks, Save(t)
      PROVE  CurrentAgrees'
  BY <1>15, <1>0, ConstantsAssumption, NoDraftAssumption DEF Save
<1>16. CASE BeginExit \/ CoreReloads \/ OrphanLoads
  <2>1. CASE BeginExit \/ OrphanLoads
    BY <1>16, <2>1 DEF BeginExit, OrphanLoads
  <2>2. CASE CoreReloads
    <3>1. PICK u \in Tasks : pc[u] = "answer" /\ kind[u] = "switch"
      BY <2>2 DEF CoreReloads, AnswerAwaited, KindSteps
    <3> QED BY <2>2, <3>1, <1>0 DEF CoreReloads
  <2> QED BY <1>16, <2>1, <2>2
<1>17. CASE UNCHANGED vars
  BY <1>17, <1>0
<1> QED
  BY <1>1, <1>2, <1>3, <1>4, <1>5, <1>6, <1>7, <1>8, <1>9, <1>10, <1>11,
     <1>12, <1>13, <1>14, <1>15, <1>16, <1>17, OnlySwitches

(* The backup is a copy of the file the core runs.                         *)
LEMMA BackupAgreesStep ==
    ASSUME Kinds \subseteq {"switch", "exit"}
    PROVE  Inv /\ KindSteps /\ CurrentAgrees /\ BackupAgrees /\
           [Next]_vars => BackupAgrees'
<1> SUFFICES ASSUME Inv, KindSteps, CurrentAgrees, BackupAgrees, [Next]_vars
             PROVE  BackupAgrees'
  OBVIOUS
<1> USE DEF Inv, TypeOK, ControlTypes, Goto, At, vars, controlVars,
        commandVars, UpdateSteps, Applying, KindSteps, OneSwitcher,
        OneApplier, SwitchRuns, ProfileTypes, profileVars, runtimeVars,
        history, noteVars, Agree, CurrentAgrees, BackupAgrees
<1>0. OneSwitcher /\ OneApplier
  BY Alone
<1>1. ASSUME NEW t \in Tasks, NEW p \in Profiles, BeginSwitch(t, p)
      PROVE  BackupAgrees'
  BY <1>1, <1>0, ConstantsAssumption, NoDraftAssumption DEF Begin, BeginSwitch
<1>2. ASSUME NEW t \in Tasks, AcquireOp(t)
      PROVE  BackupAgrees'
  BY <1>2, <1>0, ConstantsAssumption, NoDraftAssumption DEF AcquireOp, Release
<1>3. ASSUME NEW t \in Tasks, Generate(t)
      PROVE  BackupAgrees'
  BY <1>3, <1>0, ConstantsAssumption, NoDraftAssumption DEF Generate, Release
<1>4. ASSUME NEW t \in Tasks, Backup(t)
      PROVE  BackupAgrees'
  BY <1>4, <1>0, ConstantsAssumption, NoDraftAssumption DEF Backup
<1>5. ASSUME NEW t \in Tasks, WriteRun(t)
      PROVE  BackupAgrees'
  BY <1>5, <1>0, ConstantsAssumption, NoDraftAssumption DEF WriteRun, Release,
       DropBackup, FileConfig, RtLatest
<1>6. ASSUME NEW t \in Tasks, SkipReload(t)
      PROVE  BackupAgrees'
  BY <1>6, <1>0, ConstantsAssumption, NoDraftAssumption DEF SkipReload
<1>7. ASSUME NEW t \in Tasks, SendReload(t)
      PROVE  BackupAgrees'
  BY <1>7, <1>0, ConstantsAssumption, NoDraftAssumption DEF SendReload
<1>8. ASSUME NEW t \in Tasks, ReloadFailed(t)
      PROVE  BackupAgrees'
  BY <1>8, <1>0, ConstantsAssumption, NoDraftAssumption DEF ReloadFailed
<1>9. ASSUME NEW t \in Tasks, Validated(t)
      PROVE  BackupAgrees'
  BY <1>9, <1>0, ConstantsAssumption, NoDraftAssumption DEF Validated,
       FileConfig, RtLatest
<1>10. ASSUME NEW t \in Tasks, StopForRestart(t)
      PROVE  BackupAgrees'
  BY <1>10, <1>0, ConstantsAssumption, NoDraftAssumption DEF StopForRestart
<1>11. ASSUME NEW t \in Tasks, Reloaded(t) \/ Restarted(t)
      PROVE  BackupAgrees'
  BY <1>11, <1>0, ConstantsAssumption, NoDraftAssumption DEF Reloaded, Accept,
       DropBackup, Release, Restarted
<1>12. ASSUME NEW t \in Tasks, ValidationFailed(t) \/ RestartFailed(t)
      PROVE  BackupAgrees'
  BY <1>12, <1>0, ConstantsAssumption, NoDraftAssumption DEF ValidationFailed,
       Reject, DropBackup, Release, RestartFailed
<1>13. ASSUME NEW t \in Tasks, Cancel(t)
      PROVE  BackupAgrees'
  BY <1>13, <1>0, ConstantsAssumption, NoDraftAssumption DEF Cancel, TimesOut
<1>14. ASSUME NEW t \in Tasks, CommitSwitch(t)
      PROVE  BackupAgrees'
  BY <1>14, <1>0, ConstantsAssumption, NoDraftAssumption DEF CommitSwitch,
       Applied
<1>15. ASSUME NEW t \in Tasks, DiscardSwitch(t)
      PROVE  BackupAgrees'
  BY <1>15, <1>0, ConstantsAssumption, NoDraftAssumption DEF DiscardSwitch
<1>16. ASSUME NEW t \in Tasks, RestorePrevious(t)
      PROVE  BackupAgrees'
  BY <1>16, <1>0, ConstantsAssumption, NoDraftAssumption DEF RestorePrevious,
       Applied
<1>17. ASSUME NEW t \in Tasks, AcquireModify(t)
      PROVE  BackupAgrees'
  BY <1>17, <1>0, ConstantsAssumption, NoDraftAssumption DEF AcquireModify
<1>18. ASSUME NEW t \in Tasks, Save(t)
      PROVE  BackupAgrees'
  BY <1>18, <1>0, ConstantsAssumption, NoDraftAssumption DEF Save
<1>19. CASE BeginExit \/ CoreReloads \/ OrphanLoads
  <2>1. UNCHANGED <<kind, pc, hasBackup, backup, data>> /\ (doubt => doubt')
    BY <1>19 DEF BeginExit, CoreReloads, OrphanLoads
  <2> QED BY <2>1
<1>20. CASE UNCHANGED vars
  BY <1>20, <1>0
<1> QED
  BY <1>1, <1>2, <1>3, <1>4, <1>5, <1>6, <1>7, <1>8, <1>9, <1>10, <1>11,
     <1>12, <1>13, <1>14, <1>15, <1>16, <1>17, <1>18, <1>19, <1>20,
     OnlySwitches

(* What is restored is the current profile of the committed list.          *)
LEMMA RestoreOpenStep ==
    ASSUME Kinds \subseteq {"switch", "exit"}
    PROVE  Inv /\ KindSteps /\ PrevKept /\ RestoreOpen /\ [Next]_vars => RestoreOpen'
<1> SUFFICES ASSUME Inv, KindSteps, PrevKept, RestoreOpen, [Next]_vars
             PROVE  RestoreOpen'
  OBVIOUS
<1> USE DEF Inv, TypeOK, ControlTypes, Goto, At, vars, controlVars,
        commandVars, UpdateSteps, Applying, KindSteps, OneSwitcher,
        OneApplier, SwitchRuns, ProfileTypes, profileVars, history, noteVars,
        switchVars, PrevKept, RestoreOpen
<1>0. OneSwitcher /\ OneApplier
  BY Alone
<1>1. ASSUME NEW t \in Tasks, NEW p \in Profiles, BeginSwitch(t, p)
      PROVE  RestoreOpen'
  <2>1. \A u \in Tasks : ~SwitchRuns(u)
    BY <1>1 DEF BeginSwitch, OneSwitch
  <2> QED BY <1>1, <2>1 DEF Begin, BeginSwitch
<1>2. ASSUME NEW t \in Tasks, AcquireOp(t) \/ Generate(t) \/ Backup(t) \/
                              WriteRun(t)
      PROVE  RestoreOpen'
  BY <1>2, <1>0, ConstantsAssumption, NoDraftAssumption DEF AcquireOp,
       Release, Generate, Backup, WriteRun, DropBackup, FileConfig, RtLatest
<1>3. ASSUME NEW t \in Tasks, SkipReload(t) \/ SendReload(t) \/
                              ReloadFailed(t) \/ Validated(t) \/
                              StopForRestart(t)
      PROVE  RestoreOpen'
  BY <1>3, <1>0, ConstantsAssumption, NoDraftAssumption DEF SkipReload,
       SendReload, ReloadFailed, Validated, FileConfig, RtLatest,
       StopForRestart
<1>4. ASSUME NEW t \in Tasks, Reloaded(t) \/ Restarted(t)
      PROVE  RestoreOpen'
  BY <1>4, <1>0, ConstantsAssumption, NoDraftAssumption DEF Reloaded, Accept,
       DropBackup, Release, Restarted
<1>5. ASSUME NEW t \in Tasks, ValidationFailed(t) \/ RestartFailed(t)
      PROVE  RestoreOpen'
  BY <1>5, <1>0, ConstantsAssumption, NoDraftAssumption DEF ValidationFailed,
       Reject, DropBackup, Release, RestartFailed
<1>6. ASSUME NEW t \in Tasks, Cancel(t)
      PROVE  RestoreOpen'
  BY <1>6, <1>0, ConstantsAssumption, NoDraftAssumption DEF Cancel, TimesOut
<1>7. ASSUME NEW t \in Tasks, CommitSwitch(t)
      PROVE  RestoreOpen'
  BY <1>7, <1>0, ConstantsAssumption, NoDraftAssumption DEF CommitSwitch,
       Applied
<1>8. ASSUME NEW t \in Tasks, DiscardSwitch(t)
      PROVE  RestoreOpen'
  BY <1>8, <1>0, ConstantsAssumption, NoDraftAssumption DEF DiscardSwitch,
       Patch, List
<1>9. ASSUME NEW t \in Tasks, RestorePrevious(t)
      PROVE  RestoreOpen'
  BY <1>9, <1>0, ConstantsAssumption, NoDraftAssumption DEF RestorePrevious,
       Applied
<1>10. ASSUME NEW t \in Tasks, AcquireModify(t)
      PROVE  RestoreOpen'
  BY <1>10, <1>0, ConstantsAssumption, NoDraftAssumption DEF AcquireModify
<1>11. ASSUME NEW t \in Tasks, Save(t)
      PROVE  RestoreOpen'
  BY <1>11, <1>0, ConstantsAssumption, NoDraftAssumption DEF Save
<1>12. CASE BeginExit \/ CoreReloads \/ OrphanLoads
  BY <1>12, <1>0 DEF BeginExit, CoreReloads, OrphanLoads
<1>13. CASE UNCHANGED vars
  BY <1>13, <1>0
<1> QED
  BY <1>1, <1>2, <1>3, <1>4, <1>5, <1>6, <1>7, <1>8, <1>9, <1>10, <1>11,
     <1>12, <1>13, OnlySwitches

(* A switch gives its flag back with everything in agreement.              *)
LEMMA AtRestStep ==
    ASSUME Kinds \subseteq {"switch", "exit"}
    PROVE  Inv /\ KindSteps /\ CurrentAgrees /\ RestoreOpen /\
           AnswerAwaited /\ PrevKept /\ AtRest /\ [Next]_vars => AtRest'
<1> SUFFICES ASSUME Inv, KindSteps, CurrentAgrees, RestoreOpen, AnswerAwaited,
                    PrevKept, AtRest, [Next]_vars
             PROVE  AtRest'
  OBVIOUS
<1> USE DEF Inv, TypeOK, ControlTypes, Goto, At, vars, controlVars,
        commandVars, UpdateSteps, Applying, KindSteps, OneSwitcher,
        OneApplier, SwitchRuns, ProfileTypes, profileVars, runtimeVars,
        coreVars, switchVars, history, noteVars, Agree, OneSwitch, SwitchRuns,
        CurrentAgrees, RestoreOpen, AnswerAwaited, PrevKept, AtRest
<1>0. OneSwitcher /\ OneApplier
  BY Alone
<1>1. ASSUME NEW t \in Tasks, NEW p \in Profiles, BeginSwitch(t, p)
      PROVE  AtRest'
  BY <1>1, <1>0, ConstantsAssumption, NoDraftAssumption DEF Begin, BeginSwitch
<1>2. ASSUME NEW t \in Tasks, AcquireOp(t) \/ Generate(t) \/ Backup(t) \/
                              WriteRun(t)
      PROVE  AtRest'
  BY <1>2, <1>0, ConstantsAssumption, NoDraftAssumption DEF AcquireOp,
       Release, Generate, Backup, WriteRun, DropBackup, FileConfig, RtLatest
<1>3. ASSUME NEW t \in Tasks, SkipReload(t) \/ SendReload(t) \/
                              ReloadFailed(t) \/ Validated(t) \/
                              StopForRestart(t)
      PROVE  AtRest'
  BY <1>3, <1>0, ConstantsAssumption, NoDraftAssumption DEF SkipReload,
       SendReload, ReloadFailed, Validated, FileConfig, RtLatest,
       StopForRestart
<1>4. ASSUME NEW t \in Tasks, Reloaded(t) \/ Restarted(t)
      PROVE  AtRest'
  BY <1>4, <1>0, ConstantsAssumption, NoDraftAssumption DEF Reloaded, Accept,
       DropBackup, Release, Restarted
<1>5. ASSUME NEW t \in Tasks, ValidationFailed(t) \/ RestartFailed(t)
      PROVE  AtRest'
  BY <1>5, <1>0, ConstantsAssumption, NoDraftAssumption DEF ValidationFailed,
       Reject, DropBackup, Release, RestartFailed
<1>6. ASSUME NEW t \in Tasks, Cancel(t)
      PROVE  AtRest'
  BY <1>6, <1>0, ConstantsAssumption, NoDraftAssumption DEF Cancel, TimesOut
<1>7. ASSUME NEW t \in Tasks, CommitSwitch(t)
      PROVE  AtRest'
  BY <1>7, <1>0, ConstantsAssumption, NoDraftAssumption DEF CommitSwitch,
       Applied
<1>8. ASSUME NEW t \in Tasks, DiscardSwitch(t)
      PROVE  AtRest'
  BY <1>8, <1>0, ConstantsAssumption, NoDraftAssumption DEF DiscardSwitch
<1>9. ASSUME NEW t \in Tasks, RestorePrevious(t)
      PROVE  AtRest'
  BY <1>9, <1>0, ConstantsAssumption, NoDraftAssumption DEF RestorePrevious,
       Applied
<1>10. ASSUME NEW t \in Tasks, AcquireModify(t)
      PROVE  AtRest'
  BY <1>10, <1>0, ConstantsAssumption, NoDraftAssumption DEF AcquireModify
<1>11. ASSUME NEW t \in Tasks, Save(t)
      PROVE  AtRest'
  BY <1>11, <1>0, ConstantsAssumption, NoDraftAssumption DEF Save
<1>12. CASE BeginExit \/ CoreReloads \/ OrphanLoads
  <2>1. CASE BeginExit \/ OrphanLoads
    BY <1>12, <2>1 DEF BeginExit, OrphanLoads
  <2>2. CASE CoreReloads
    <3>1. PICK u \in Tasks : pc[u] = "answer" /\ kind[u] = "switch"
      BY <2>2 DEF CoreReloads, AnswerAwaited, KindSteps
    <3>2. switching /\ switching' /\ ~Quiet
      BY <2>2, <3>1 DEF CoreReloads, Quiet
    <3> QED BY <2>2, <3>2 DEF CoreReloads
  <2> QED BY <1>12, <2>1, <2>2
<1>13. CASE UNCHANGED vars
  BY <1>13, <1>0
<1> QED
  BY <1>1, <1>2, <1>3, <1>4, <1>5, <1>6, <1>7, <1>8, <1>9, <1>10, <1>11,
     <1>12, <1>13, OnlySwitches

LEMMA SwitchPathInit == Init => SwitchPath
<1> SUFFICES ASSUME Init PROVE SwitchPath
  OBVIOUS
<1>1. AtRest
  BY ConstantsAssumption, NoDraftAssumption DEF Init, AtRest, Agree, Config
<1> QED
  BY <1>1 DEF Init, SwitchPath, KindSteps, AnswerAwaited, DraftOpen, SeenDraft,
       DraftSource, AcceptedAgrees, PrevKept, CurrentAgrees, BackupAgrees,
       RestoreOpen, UpdateSteps, Applying

LEMMA SwitchPathStep ==
    ASSUME Kinds \subseteq {"switch", "exit"}
    PROVE  Inv /\ Called /\ DraftApplied /\ SwitchPath /\ [Next]_vars => SwitchPath'
<1>1. SwitchPath => KindSteps
  BY DEF SwitchPath
<1> QED
  BY <1>1, KindStepsStep, AnswerAwaitedStep, DraftOpenStep, SeenDraftStep,
     DraftSourceStep, AcceptedAgreesStep, PrevKeptStep, CurrentAgreesStep,
     BackupAgreesStep, RestoreOpenStep, AtRestStep DEF SwitchPath

(* Through any number of accepted, rejected and cancelled switches, when   *)
(* every command has ended the current profile, the runtime file and the   *)
(* core agree, but where the code itself gave up on it (`doubt').          *)
THEOREM IdleStatesAgree ==
    ASSUME Kinds \subseteq {"switch", "exit"} PROVE Spec => []IdleAgrees
<1>1. Init => DraftApplied /\ SwitchPath
  BY DraftAppliedInit, SwitchPathInit
<1>2. Inv /\ Called /\ DraftApplied /\ SwitchPath /\ [Next]_vars
          => DraftApplied' /\ SwitchPath'
  <2>1. "chain" \notin Kinds
    OBVIOUS
  <2> QED BY <2>1, DraftAppliedStep, SwitchPathStep
<1>3. Inv /\ SwitchPath => IdleAgrees
  <2> SUFFICES ASSUME Inv, SwitchPath, Quiet, ~doubt PROVE Agree(data.current)
    BY DEF IdleAgrees, Agree
  <2>1. ~switching
    BY DEF Inv, OneSwitch, SwitchRuns, Quiet, At
  <2> QED BY <2>1 DEF SwitchPath, AtRest
<1> QED
  BY <1>1, <1>2, <1>3, InvHolds, CalledHolds, PTL DEF Spec
=============================================================================
