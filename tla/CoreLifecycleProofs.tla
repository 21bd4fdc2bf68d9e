------------------------- MODULE CoreLifecycleProofs -------------------------
(***************************************************************************)
(* Proofs about CoreLifecycle, for any number of sidecars and sessions.    *)
(***************************************************************************)
EXTENDS CoreLifecycle, TLAPS

(* The invariant holds before the app has started anything.                *)
LEMMA InvInit == Init => Inv
  <1> SUFFICES ASSUME Init PROVE Inv
    OBVIOUS
  <1>1. tun \in BOOLEAN /\ admin \in BOOLEAN /\ toggled \in BOOLEAN
    BY Zenon DEF Init
  <1>2. TypeOK
    BY <1>1, BoundsAssumption DEF Init, TypeOK, AppTypes, ControlTypes, WorldTypes, Modes, Pids
  <1>3. NothingToJoin /\ OneSidecar /\ SessionFresh /\ NoFakeSidecar
    BY DEF Init, NothingToJoin, OneSidecar, SessionFresh, NoFakeSidecar
  <1> QED BY <1>2, <1>3 DEF Inv

(* The steps of an operation that stops the core.                          *)
LEMMA InvStop ==
    ASSUME Inv, StopNothing \/ StopSidecar \/ Exited \/ StopService \/ StopReply
    PROVE  Inv'
  <1> USE BoundsAssumption DEF Inv, TypeOK, AppTypes, ControlTypes, WorldTypes, Modes, Pids, NothingToJoin, OneSidecar,
          SessionFresh, NoFakeSidecar, Stopped, Goto, Finish
  <1>1. CASE StopNothing
    BY <1>1 DEF StopNothing, appVars, procVars, svcVars
  <1>2. CASE StopSidecar
    <2>1. AppTypes'
      BY <1>2 DEF StopSidecar, TakeNothing, TakeAndKill, TakeInVain, procVars, svcVars
    <2>2. ControlTypes'
      BY <1>2 DEF StopSidecar, TakeNothing, TakeAndKill, TakeInVain, procVars, svcVars
    <2>3. WorldTypes'
      BY <1>2 DEF StopSidecar, TakeNothing, TakeAndKill, TakeInVain, procVars, svcVars
    <2>4. NothingToJoin' /\ OneSidecar' /\ SessionFresh'
      BY <1>2 DEF StopSidecar, TakeNothing, TakeAndKill, TakeInVain, procVars, svcVars
    <2>5. NoFakeSidecar'
      BY <1>2 DEF StopSidecar, TakeNothing, TakeAndKill, TakeInVain, procVars, svcVars
    <2> QED BY <2>1, <2>2, <2>3, <2>4, <2>5 DEF Inv, TypeOK
  <1>3. CASE Exited
    BY <1>3 DEF Exited, procVars, svcVars
  <1>4. CASE StopService
    BY <1>4 DEF StopService, CannotStop, AskStop, appVars, procVars
  <1>5. CASE StopReply
    BY <1>5 DEF StopReply, procVars, svcVars
  <1> QED BY <1>1, <1>2, <1>3, <1>4, <1>5

(* The steps that prepare a start or start through the service.            *)
LEMMA InvService ==
    ASSUME Inv,
           \/ Prepare \/ GenerateFile \/ CheckManager \/ SendStart \/ StartReply
           \/ UseServiceSocket \/ ServiceReady \/ ServiceNotReady
           \/ UndoService \/ ServiceUndone \/ ServiceFailed
    PROVE  Inv'
  <1> USE BoundsAssumption DEF Inv, TypeOK, AppTypes, ControlTypes, WorldTypes, Modes, Pids, NothingToJoin, OneSidecar,
          SessionFresh, NoFakeSidecar, Goto, Finish
  <1>1. CASE Prepare
    BY <1>1 DEF Prepare, Known, procVars, svcVars
  <1>2. CASE SendStart
    BY <1>2 DEF SendStart, procVars
  <1>3. CASE StartReply
    BY <1>3 DEF StartReply, procVars, svcVars
  <1>4. CASE ServiceReady
    BY <1>4 DEF ServiceReady, procVars, svcVars
  <1>5. CASE ServiceNotReady
    BY <1>5 DEF ServiceNotReady, appVars, procVars, svcVars
  <1>6. CASE ServiceFailed
    <2>1. AppTypes'
      BY <1>6 DEF ServiceFailed, MayFallBack, procVars, svcVars
    <2>2. ControlTypes'
      BY <1>6 DEF ServiceFailed, MayFallBack, procVars, svcVars
    <2>3. WorldTypes'
      BY <1>6 DEF ServiceFailed, MayFallBack, procVars, svcVars
    <2>4. NothingToJoin' /\ OneSidecar' /\ SessionFresh'
      BY <1>6 DEF ServiceFailed, MayFallBack, procVars, svcVars
    <2>5. NoFakeSidecar'
      BY <1>6 DEF ServiceFailed, MayFallBack, procVars, svcVars
    <2> QED BY <2>1, <2>2, <2>3, <2>4, <2>5 DEF Inv, TypeOK
  <1>7. CASE GenerateFile \/ CheckManager
    BY <1>7 DEF GenerateFile, CheckManager, appVars, procVars, svcVars
  <1>8. CASE UseServiceSocket
    BY <1>8 DEF UseServiceSocket, procVars, svcVars
  <1>9. CASE UndoService
    BY <1>9 DEF UndoService, CannotStop, AskStop, appVars, procVars
  <1>10. CASE ServiceUndone
    BY <1>10 DEF ServiceUndone, procVars, svcVars
  <1> QED BY <1>1, <1>2, <1>3, <1>4, <1>5, <1>6, <1>7, <1>8, <1>9, <1>10

(* The steps that start a sidecar.                                         *)
LEMMA InvSidecar ==
    ASSUME Inv,
           \/ KillStale \/ WaitUnavailable \/ Spawn
           \/ SidecarReady \/ SidecarUndo \/ SidecarUndone
    PROVE  Inv'
  <1> USE BoundsAssumption DEF Inv, TypeOK, AppTypes, ControlTypes, WorldTypes, Modes, Pids, NothingToJoin, OneSidecar,
          SessionFresh, NoFakeSidecar, Goto, Finish
  <1>1. CASE KillStale
    BY <1>1 DEF KillStale, appVars
  <1>2. CASE WaitUnavailable
    BY <1>2 DEF WaitUnavailable, procVars, svcVars
  <1>3. CASE Spawn
    <2>1. AppTypes'
      BY <1>3 DEF Spawn, svcVars
    <2>2. ControlTypes'
      BY <1>3 DEF Spawn, svcVars
    <2>3. WorldTypes'
      <3>1. UNCHANGED <<dying, peeked, svcVars>>
        BY <1>3 DEF Spawn
      <3>2. \/ UNCHANGED <<lastPid, running, listener>>
            \/ /\ lastPid' \in Pids /\ running' = running \cup {lastPid'}
               /\ listener' = [listener EXCEPT ![lastPid'] = "on"]
        BY <1>3 DEF Spawn
      <3>3. lastPid' \in 0..MaxPid
        BY <3>2
      <3>4. running' \in SUBSET Pids
        BY <3>2
      <3>5. listener' \in [Pids -> {"none", "on", "event", "peek", "match", "took"}]
        BY <3>2
      <3> QED BY <3>1, <3>3, <3>4, <3>5 DEF svcVars
    <2>4. NothingToJoin' /\ OneSidecar' /\ SessionFresh'
      BY <1>3 DEF Spawn, svcVars
    <2>5. NoFakeSidecar'
      BY <1>3 DEF Spawn, svcVars
    <2> QED BY <2>1, <2>2, <2>3, <2>4, <2>5 DEF Inv, TypeOK
  <1>4. CASE SidecarReady
    BY <1>4 DEF SidecarReady, appVars, procVars, svcVars
  <1>5. CASE SidecarUndo
    <2>1. AppTypes'
      BY <1>5 DEF SidecarUndo, TakeNothing, TakeAndKill, TakeInVain, procVars, svcVars
    <2>2. ControlTypes'
      BY <1>5 DEF SidecarUndo, TakeNothing, TakeAndKill, TakeInVain, procVars, svcVars
    <2>3. WorldTypes'
      BY <1>5 DEF SidecarUndo, TakeNothing, TakeAndKill, TakeInVain, procVars, svcVars
    <2>4. NothingToJoin' /\ OneSidecar' /\ SessionFresh'
      BY <1>5 DEF SidecarUndo, TakeNothing, TakeAndKill, TakeInVain, procVars, svcVars
    <2>5. NoFakeSidecar'
      BY <1>5 DEF SidecarUndo, TakeNothing, TakeAndKill, TakeInVain, procVars, svcVars
    <2> QED BY <2>1, <2>2, <2>3, <2>4, <2>5 DEF Inv, TypeOK
  <1>6. CASE SidecarUndone
    BY <1>6 DEF SidecarUndone, procVars, svcVars
  <1> QED BY <1>1, <1>2, <1>3, <1>4, <1>5, <1>6

(* The event tasks of the sidecars.                                        *)
LEMMA InvListener ==
    ASSUME Inv, NEW p \in Pids,
           ProcessExit(p) \/ Peek(p) \/ Compare(p) \/ TakeChild(p) \/ ClearMode(p)
    PROVE  Inv'
  <1> USE BoundsAssumption DEF Inv, TypeOK, AppTypes, ControlTypes, WorldTypes, Modes, Pids, NothingToJoin, OneSidecar,
          SessionFresh, NoFakeSidecar
  <1>1. CASE ProcessExit(p)
    BY <1>1 DEF ProcessExit, appVars, svcVars, ctlVars
  <1>2. CASE Peek(p)
    BY <1>2 DEF Peek, appVars, svcVars, ctlVars
  <1>3. CASE Compare(p)
    BY <1>3 DEF Compare, appVars, svcVars, ctlVars
  <1>4. CASE TakeChild(p)
    BY <1>4 DEF TakeChild, svcVars, ctlVars
  <1>5. CASE ClearMode(p)
    BY <1>5 DEF ClearMode, svcVars, ctlVars
  <1> QED BY <1>1, <1>2, <1>3, <1>4, <1>5

(* The callers, the installer, the service and the user.                   *)
LEMMA InvOthers ==
    ASSUME Inv,
           \/ SetupProbe \/ Start \/ StopOrRestart \/ Cancel \/ Installer
           \/ InstallBegin \/ Uninstall \/ ServiceUp \/ ServiceCrash \/ ServiceCoreCrash
           \/ ToggleTun
    PROVE  Inv'
  <1> USE BoundsAssumption DEF Inv, TypeOK, AppTypes, ControlTypes, WorldTypes, Modes, Pids, NothingToJoin, OneSidecar,
          SessionFresh, NoFakeSidecar, Finish
  <1>1. CASE SetupProbe
    BY <1>1 DEF SetupProbe, procVars, svcVars
  <1>2. CASE Start \/ StopOrRestart \/ Cancel
    BY <1>2 DEF Start, StopOrRestart, Cancel, appVars, procVars, svcVars
  <1>3. CASE Installer
    <2>1. AppTypes'
      BY <1>3 DEF Installer, InstallRun, InstallWait, procVars, svcVars
    <2>2. ControlTypes'
      BY <1>3 DEF Installer, InstallRun, InstallWait, procVars, svcVars
    <2>3. WorldTypes'
      <3>1. UNCHANGED <<procVars, lastGen>>
        BY <1>3 DEF Installer, InstallRun, InstallWait, svcVars
      <3>2. svc' \in {"absent", "silent", "up"} /\ svcCore' \in 0..MaxGen
        BY <1>3 DEF Installer, InstallRun, InstallWait, svcVars
      <3> QED BY <3>1, <3>2 DEF procVars
    <2>4. NothingToJoin' /\ OneSidecar' /\ SessionFresh'
      BY <1>3 DEF Installer, InstallRun, InstallWait, procVars, svcVars
    <2>5. NoFakeSidecar'
      BY <1>3 DEF Installer, InstallRun, InstallWait, procVars, svcVars
    <2> QED BY <2>1, <2>2, <2>3, <2>4, <2>5 DEF Inv, TypeOK
  <1>4. CASE InstallBegin
    BY <1>4 DEF InstallBegin, appVars, procVars
  <1>5. CASE Uninstall
    BY <1>5 DEF Uninstall, procVars, ctlVars
  <1>6. CASE ServiceUp
    BY <1>6 DEF ServiceUp, appVars, procVars, ctlVars
  <1>7. CASE ServiceCrash
    BY <1>7 DEF ServiceCrash, appVars, procVars, ctlVars
  <1>8. CASE ServiceCoreCrash
    BY <1>8 DEF ServiceCoreCrash, appVars, procVars, ctlVars
  <1>9. CASE ToggleTun
    BY <1>9 DEF ToggleTun, procVars, svcVars, ctlVars
  <1> QED BY <1>1, <1>2, <1>3, <1>4, <1>5, <1>6, <1>7, <1>8, <1>9

(* The invariant is inductive.                                             *)
LEMMA InvNext == Inv /\ [Next]_vars => Inv'
  <1> SUFFICES ASSUME Inv, [Next]_vars PROVE Inv'
    OBVIOUS
  <1>1. CASE UNCHANGED vars
    BY <1>1 DEF vars, appVars, procVars, svcVars, ctlVars, Inv, TypeOK, AppTypes,
       ControlTypes, WorldTypes, NothingToJoin, OneSidecar, SessionFresh, NoFakeSidecar
  <1>2. CASE Next
    BY <1>2, InvStop, InvService, InvSidecar, InvListener, InvOthers DEF Next, Operation, World
  <1> QED BY <1>1, <1>2

(* Types hold, and the four parts of the invariant, in every state.        *)
THEOREM InvHolds == Spec => []Inv
  BY InvInit, InvNext, PTL DEF Spec

(* Two sidecars never run side by side, however often operations are       *)
(* cancelled and event tasks are late.                                     *)
THEOREM SidecarsExclude == Spec => []OneSidecar
  <1>1. Inv => OneSidecar
    BY DEF Inv
  <1> QED BY <1>1, InvHolds, PTL

(* No operation presents the session of an earlier start to the service.   *)
THEOREM SessionsAreFresh == Spec => []SessionFresh
  <1>1. Inv => SessionFresh
    BY DEF Inv
  <1> QED BY <1>1, InvHolds, PTL

(* Without elevation, TUN never meets a sidecar that is being started.     *)
THEOREM SidecarsAreHonest == Spec => []NoFakeSidecar
  <1>1. Inv => NoFakeSidecar
    BY DEF Inv
  <1> QED BY <1>1, InvHolds, PTL
=============================================================================
