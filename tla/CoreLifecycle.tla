---------------------------- MODULE CoreLifecycle ----------------------------
(***************************************************************************)
(* Starting, stopping and restarting the Mihomo core                       *)
(* (core/manager/{mod,lifecycle,state}.rs, core/service.rs).  The core     *)
(* runs as a child process of the app ("sidecar") or under a privileged    *)
(* service that is reached over IPC and hands out ownership sessions.      *)
(*                                                                         *)
(* One operation at a time holds operation_lock: `pc` is where it stands,  *)
(* and every await is a step, so that the world may move in between: a     *)
(* core dies, the service restarts or its answer is lost, an installer     *)
(* replaces the service, the caller drops the operation.                   *)
(***************************************************************************)
EXTENDS Naturals, FiniteSets

CONSTANTS
    MaxPid,     \* bound: sidecars spawned
    MaxGen      \* bound: ownership sessions the service hands out

ASSUME BoundsAssumption == MaxPid \in Nat /\ MaxGen \in Nat

Pids == 1..MaxPid
Modes == {"Service", "Sidecar", "NotRunning"}

VARIABLES
    mode,       \* State.running_mode
    child,      \* State.child_sidecar: the pid of the child held, or 0
    session,    \* ACTIVE_SERVICE_SESSION: its generation, or 0
    socket,     \* whose API socket the Mihomo client uses
    status,     \* SERVICE_MANAGER: "Checking", "Ready", or any other ("NotReady")
    tun,        \* verge.enable_tun_mode, latest value
    admin,      \* is the app elevated
    pc, op,     \* the operation that holds operation_lock, and its next step
    exitPid,    \* the process a stop waits for
    installer,  \* the service operation that holds SERVICE_MANAGER
    booted      \* setup: "no", "probed" (init_service_manager), "yes" (start_core called)

(* The world outside the manager.                                          *)
VARIABLES
    running,    \* sidecars alive that nobody told to stop
    dying,      \* sidecars alive that were told to stop
    listener,   \* listener[p]: the event task of sidecar p
    peeked,     \* peeked[p]: the child that task holds an Arc of, or 0
    lastPid,
    svc,        \* the service: "absent", "silent" (socket file only), "up"
    svcCore,    \* generation of the core the service runs, or 0
    lastGen

appVars == <<mode, child, session, socket, status, tun, admin>>
procVars == <<running, dying, listener, peeked, lastPid>>
svcVars == <<svc, svcCore, lastGen>>
ctlVars == <<pc, op, exitPid, installer, booted>>

VARIABLE toggled    \* history: TUN switched since the operation last looked at it

vars == <<appVars, procVars, svcVars, ctlVars, toggled>>

AppTypes ==
    /\ mode \in Modes /\ child \in 0..MaxPid /\ session \in 0..MaxGen
    /\ socket \in {"sidecar", "service"}
    /\ status \in {"Checking", "Ready", "NotReady"}
    /\ tun \in BOOLEAN /\ admin \in BOOLEAN /\ toggled \in BOOLEAN

ControlTypes ==
    /\ op \in {"none", "start", "stop", "restart"}
    /\ pc \in {"idle", "stop", "stopReply", "exit", "prepare",
               "svcGenerate", "svcWait", "svcSend", "svcReply", "svcSocket", "svcApi",
               "svcUndo", "svcUndoReply", "svcFailed",
               "kill", "wait", "spawn", "scApi", "scUndo", "scUndoExit"}
    /\ exitPid \in 0..MaxPid
    /\ installer \in {"none", "install", "waitIpc"}
    /\ booted \in {"no", "probed", "yes"}

WorldTypes ==
    /\ running \in SUBSET Pids /\ dying \in SUBSET Pids
    /\ listener \in [Pids -> {"none", "on", "event", "peek", "match", "took"}]
    /\ peeked \in [Pids -> 0..MaxPid]
    /\ lastPid \in 0..MaxPid /\ lastGen \in 0..MaxGen /\ svcCore \in 0..MaxGen
    /\ svc \in {"absent", "silent", "up"}

TypeOK == AppTypes /\ ControlTypes /\ WorldTypes

Init ==
    /\ mode = "NotRunning" /\ child = 0 /\ session = 0 /\ socket = "sidecar"
    /\ status = "Checking" /\ tun \in BOOLEAN /\ admin \in BOOLEAN
    /\ pc = "idle" /\ op = "none" /\ exitPid = 0 /\ installer = "none" /\ booted = "no"
    /\ toggled = FALSE
    /\ running = {} /\ dying = {} /\ lastPid = 0
    /\ listener = [p \in Pids |-> "none"] /\ peeked = [p \in Pids |-> 0]
    /\ svc \in {"absent", "silent", "up"} /\ svcCore = 0 /\ lastGen = 0

(* A core that answers on the socket the client uses.  A probe of it may   *)
(* still fail (it is starting, or slow): only success needs a live core.   *)
ApiAnswers == IF socket = "sidecar" THEN running \cup dying # {} ELSE svcCore # 0

Finish == pc' = "idle" /\ op' = "none"
Goto(l) == pc' = l /\ op' = op

-----------------------------------------------------------------------------
(* The operations take operation_lock.                                     *)

(* init_service_manager: one probe, if the socket file exists.             *)
SetupProbe ==
    /\ booted = "no" /\ installer = "none"
    /\ booted' = "probed"
    /\ status' = IF svc = "absent" THEN status
                 ELSE IF svc = "up" THEN "Ready" ELSE "NotReady"
    /\ UNCHANGED <<mode, child, session, socket, tun, admin, procVars, svcVars, pc, op, exitPid, installer, toggled>>

(* start_core, first from CoreManager::init and later as a command.        *)
Start ==
    /\ pc = "idle" /\ booted # "no"
    /\ booted' = "yes" /\ pc' = "prepare" /\ op' = "start"
    /\ UNCHANGED <<appVars, procVars, svcVars, exitPid, installer, toggled>>

StopOrRestart ==
    /\ pc = "idle" /\ booted = "yes"
    /\ pc' = "stop" /\ op' \in {"stop", "restart"}
    /\ UNCHANGED <<appVars, procVars, svcVars, exitPid, installer, booted, toggled>>

(* The caller drops the future at an await: `quit` gives stop_core three   *)
(* seconds, and a profile switch that times out drops a restart.           *)
Cancel ==
    /\ pc # "idle" /\ op \in {"stop", "restart"}
    /\ Finish
    /\ UNCHANGED <<appVars, procVars, svcVars, exitPid, installer, booted, toggled>>

-----------------------------------------------------------------------------
(* stop_core_unlocked: `Stopped(ok)` is what follows it in its caller.     *)
Stopped(ok) == IF ok /\ op = "restart" THEN Goto("prepare") ELSE Finish

StopNothing ==
    /\ pc = "stop" /\ mode = "NotRunning"
    /\ Stopped(TRUE)
    /\ UNCHANGED <<appVars, procVars, svcVars, exitPid, installer, booted, toggled>>

(* take_child_sidecar: swaps the child out; `Arc::try_unwrap` yields it    *)
(* only if nobody else holds the Arc.                                      *)
Unshared == child # 0 /\ \A p \in Pids : peeked[p] # child

(* stop_core_by_sidecar, from `from`: no child, or child.kill(), which may *)
(* fail: the child is given up all the same, and the mode stays.           *)
TakeNothing(from) ==
    /\ pc = from /\ ~Unshared
    /\ child' = 0 /\ mode' = "NotRunning"
    /\ UNCHANGED <<session, socket, status, tun, admin, procVars, svcVars, exitPid, installer, booted, toggled>>

TakeAndKill(from, to) ==
    /\ pc = from /\ Unshared
    /\ child' = 0 /\ exitPid' = child
    /\ running' = running \ {child}
    /\ dying' = IF child \in running THEN dying \cup {child} ELSE dying
    /\ Goto(to)
    /\ UNCHANGED <<mode, session, socket, status, tun, admin, listener, peeked, lastPid,
                   svcVars, installer, booted, toggled>>

TakeInVain(from) ==
    /\ pc = from /\ Unshared
    /\ child' = 0 /\ Finish
    /\ UNCHANGED <<mode, session, socket, status, tun, admin, procVars, svcVars, exitPid,
                   installer, booted, toggled>>

StopSidecar ==
    /\ mode = "Sidecar"
    /\ \/ TakeNothing("stop") /\ Stopped(TRUE)
       \/ TakeAndKill("stop", "exit")
       \/ TakeInVain("stop")

(* wait_for_process_exit.                                                  *)
Exited ==
    /\ pc = "exit"
    /\ \/ exitPid \notin dying /\ mode' = "NotRunning" /\ Stopped(TRUE)
       \/ exitPid \in dying /\ mode' = mode /\ Stopped(FALSE)         \* two seconds passed
    /\ UNCHANGED <<child, session, socket, status, tun, admin, procVars, svcVars, exitPid, installer, booted, toggled>>

(* service::stop_core_by_service.  The service stops the core of the       *)
(* current session only, and its answer may be lost.                       *)
CannotStop == session = 0 \/ svc # "up"         \* no session, or no connection: Err

AskStop(to) ==
    /\ ~CannotStop
    /\ svcCore' = IF session = svcCore THEN 0 ELSE svcCore
    /\ Goto(to)

StopService ==
    /\ pc = "stop" /\ mode = "Service"
    /\ \/ CannotStop /\ Finish /\ UNCHANGED svcCore
       \/ AskStop("stopReply")
    /\ UNCHANGED <<appVars, procVars, svc, lastGen, exitPid, installer, booted, toggled>>

StopReply ==
    /\ pc = "stopReply"
    /\ \/ mode' = "NotRunning" /\ session' = 0 /\ Stopped(TRUE)
       \/ /\ svcCore # session                                 \* "session is stale or invalid"
          /\ mode' = mode
          /\ IF op = "restart" THEN session' = 0 /\ Goto("prepare")
                               ELSE session' = session /\ Finish
       \/ mode' = mode /\ session' = session /\ Finish         \* no answer
    /\ UNCHANGED <<child, socket, status, tun, admin, procVars, svcVars, exitPid, installer, booted, toggled>>

-----------------------------------------------------------------------------
(* Mutant: what is known is what is seen, whatever the manager's states.   *)
KnownRaw == IF status = "Checking" THEN svc ELSE status

(* prepare_startup, under SERVICE_MANAGER: what the manager knows of the   *)
(* service, a first probe if it knows nothing, the mode, and TUN turned    *)
(* off where it could not work.                                            *)
Known == IF status = "Checking" /\ svc # "absent"
         THEN IF svc = "up" THEN "Ready" ELSE "NotReady"
         ELSE status

Prepare ==
    /\ pc = "prepare" /\ installer = "none"
    /\ status' = Known /\ toggled' = FALSE
    /\ LET tunOff == tun /\ ~admin /\ Known # "Ready" IN
          /\ tun' = IF tunOff THEN FALSE ELSE tun
          /\ \/ /\ mode' = IF Known = "Ready" THEN "Service" ELSE "Sidecar"
                /\ Goto(IF Known = "Ready" THEN "svcGenerate" ELSE "kill")
             \/ tunOff /\ mode' = mode /\ Finish               \* save_file failed
    /\ UNCHANGED <<child, session, socket, admin, procVars, svcVars, exitPid, installer, booted>>

-----------------------------------------------------------------------------
(* start_core_by_service.                                                  *)

(* Mutant: the session of the last start is kept until the next answer.    *)
SendStartKeepsSession ==
    /\ pc = "svcSend" /\ svc = "up" /\ lastGen < MaxGen
    /\ lastGen' = lastGen + 1 /\ svcCore' = lastGen'
    /\ Goto("svcReply")
    /\ UNCHANGED <<appVars, procVars, svc, exitPid, installer, booted, toggled>>

GenerateFile ==
    /\ pc = "svcGenerate"
    /\ Goto("svcWait") \/ Goto("svcFailed")
    /\ UNCHANGED <<appVars, procVars, svcVars, exitPid, installer, booted, toggled>>

(* run_core_by_service: SERVICE_MANAGER is waited for a second time, by    *)
(* when an installer may have it; the status found there is trusted, any   *)
(* other makes one attempt to connect.                                     *)
CheckManager ==
    /\ pc = "svcWait" /\ installer = "none"
    /\ Goto(IF status = "Ready" \/ svc = "up" THEN "svcSend" ELSE "svcFailed")
    /\ UNCHANGED <<appVars, procVars, svcVars, exitPid, installer, booted, toggled>>

(* start_with_existing_service up to the request: the session is forgotten *)
(* first.  Starting replaces the core the service runs.                    *)
SendStart ==
    /\ pc = "svcSend" /\ session' = 0
    /\ \/ Goto("svcFailed") /\ UNCHANGED <<svcCore, lastGen>>
       \/ /\ svc = "up" /\ lastGen < MaxGen
          /\ lastGen' = lastGen + 1 /\ svcCore' = lastGen'
          /\ Goto("svcReply")
    /\ UNCHANGED <<mode, child, socket, status, tun, admin, procVars, svc, exitPid, installer, booted, toggled>>

StartReply ==
    /\ pc = "svcReply"
    /\ \/ session' = lastGen /\ Goto("svcSocket")
       \/ session' = session /\ Goto("svcFailed")             \* 35 s passed, or an error
    /\ UNCHANGED <<mode, child, socket, status, tun, admin, procVars, svcVars, exitPid, installer, booted, toggled>>

(* The writer of the logs and the staging are asked about, without effect; *)
(* then the client gets the socket of the service, which may fail.         *)
UseServiceSocket ==
    /\ pc = "svcSocket"
    /\ \/ socket' = "service" /\ Goto("svcApi")
       \/ socket' = socket /\ Goto("svcFailed")
    /\ UNCHANGED <<mode, child, session, status, tun, admin, procVars, svcVars, exitPid, installer, booted, toggled>>

(* API and TUN ready; otherwise the core is stopped through the service,   *)
(* which may fail as well.                                                 *)
ServiceReady ==
    /\ pc = "svcApi" /\ svcCore # 0
    /\ mode' = "Service" /\ Finish
    /\ UNCHANGED <<child, session, socket, status, tun, admin, procVars, svcVars, exitPid, installer, booted, toggled>>

ServiceNotReady ==
    /\ pc = "svcApi" /\ Goto("svcUndo")
    /\ UNCHANGED <<appVars, procVars, svcVars, exitPid, installer, booted, toggled>>

UndoService ==
    /\ pc = "svcUndo"
    /\ \/ CannotStop /\ Goto("svcFailed") /\ UNCHANGED svcCore
       \/ AskStop("svcUndoReply")
    /\ UNCHANGED <<appVars, procVars, svc, lastGen, exitPid, installer, booted, toggled>>

(* A stop that the service reports as done ends the session, whatever core *)
(* the service has by then; an error or no answer keeps it.                *)
ServiceUndone ==
    /\ pc = "svcUndoReply"
    /\ session' \in {0, session} /\ Goto("svcFailed")
    /\ UNCHANGED <<mode, child, socket, status, tun, admin, procVars, svcVars, exitPid, installer, booted, toggled>>

AlwaysFallBack == TRUE        \* mutant: TUN is not looked at

MayFallBack == ~tun \/ admin

(* The Err branch of start_core_unlocked.                                  *)
ServiceFailed ==
    /\ pc = "svcFailed" /\ toggled' = FALSE
    /\ \/ session # 0 /\ mode' = mode /\ Finish
       \/ session = 0 /\ ApiAnswers /\ mode' = mode /\ Finish
       \/ session = 0 /\ ~MayFallBack /\ mode' = "NotRunning" /\ Finish
       \/ session = 0 /\ MayFallBack /\ mode' = "Sidecar" /\ Goto("kill")
    /\ UNCHANGED <<child, session, socket, status, tun, admin, procVars, svcVars, exitPid, installer, booted>>

-----------------------------------------------------------------------------
(* start_core_by_sidecar.                                                  *)

(* Mutant: no pkill.                                                       *)
KillNothing ==
    /\ pc = "kill" /\ Goto("wait")
    /\ UNCHANGED <<appVars, procVars, svcVars, exitPid, installer, booted, toggled>>

(* pkill -f verge-mihomo: root's processes only if the app is root.        *)
KillStale ==
    /\ pc = "kill"
    /\ dying' = dying \cup running /\ running' = {}
    /\ svcCore' = IF admin THEN 0 ELSE svcCore
    /\ Goto("wait")
    /\ UNCHANGED <<appVars, listener, peeked, lastPid, svc, lastGen, exitPid, installer, booted, toggled>>

(* wait_for_core_api_unavailable; then the client's socket is switched.    *)
WaitUnavailable ==
    /\ pc = "wait"
    /\ \/ socket' = "sidecar" /\ Goto("spawn")
       \/ ApiAnswers /\ socket' = socket /\ Finish             \* two seconds passed
    /\ UNCHANGED <<mode, child, session, status, tun, admin, procVars, svcVars, exitPid, installer, booted, toggled>>

(* generate_file and spawn; the child replaces the one held.               *)
Spawn ==
    /\ pc = "spawn"
    /\ \/ /\ lastPid < MaxPid
          /\ lastPid' = lastPid + 1
          /\ running' = running \cup {lastPid'}
          /\ child' = lastPid' /\ mode' = "Sidecar"
          /\ listener' = [listener EXCEPT ![lastPid'] = "on"]
          /\ Goto("scApi")
       \/ Finish /\ UNCHANGED <<lastPid, running, child, mode, listener>>
    /\ UNCHANGED <<session, socket, status, tun, admin, dying, peeked, svcVars, exitPid, installer, booted, toggled>>

SidecarReady ==
    /\ pc = "scApi"
    /\ \/ ApiAnswers /\ Finish
       \/ Goto("scUndo")                                       \* no API, or no TUN
    /\ UNCHANGED <<appVars, procVars, svcVars, exitPid, installer, booted, toggled>>

(* `let _ = self.stop_core_by_sidecar().await`, then Err.                  *)
SidecarUndo ==
    \/ TakeNothing("scUndo") /\ Finish
    \/ TakeAndKill("scUndo", "scUndoExit")
    \/ TakeInVain("scUndo")

SidecarUndone ==
    /\ pc = "scUndoExit"
    /\ mode' = IF exitPid \notin dying THEN "NotRunning" ELSE mode
    /\ Finish
    /\ UNCHANGED <<child, session, socket, status, tun, admin, procVars, svcVars, exitPid, installer, booted, toggled>>

-----------------------------------------------------------------------------
(* The event task of a sidecar.                                            *)

ProcessExit(p) ==
    /\ p \in running \cup dying
    /\ running' = running \ {p} /\ dying' = dying \ {p}
    /\ listener' = [listener EXCEPT ![p] = "event"]
    /\ UNCHANGED <<appVars, peeked, lastPid, svcVars, ctlVars, toggled>>

(* Terminated: get_child_sidecar_pid() clones the Arc ...                  *)
Peek(p) ==
    /\ listener[p] = "event"
    /\ listener' = [listener EXCEPT ![p] = "peek"]
    /\ peeked' = [peeked EXCEPT ![p] = child]
    /\ UNCHANGED <<appVars, running, dying, lastPid, svcVars, ctlVars, toggled>>

(* ... and compares its pid;                                               *)
Compare(p) ==
    /\ listener[p] = "peek"
    /\ listener' = [listener EXCEPT ![p] = IF peeked[p] = p THEN "match" ELSE "none"]
    /\ peeked' = [peeked EXCEPT ![p] = 0]
    /\ UNCHANGED <<appVars, running, dying, lastPid, svcVars, ctlVars, toggled>>

(* take_child_sidecar(), whatever it holds by now;                         *)
TakeChild(p) ==
    /\ listener[p] = "match"
    /\ listener' = [listener EXCEPT ![p] = "took"]
    /\ child' = 0
    /\ UNCHANGED <<mode, session, socket, status, tun, admin, running, dying, peeked, lastPid,
                   svcVars, ctlVars, toggled>>

(* set_running_mode(NotRunning).                                           *)
ClearMode(p) ==
    /\ listener[p] = "took"
    /\ listener' = [listener EXCEPT ![p] = "none"]
    /\ mode' = "NotRunning"
    /\ UNCHANGED <<child, session, socket, status, tun, admin, running, dying, peeked, lastPid,
                   svcVars, ctlVars, toggled>>

-----------------------------------------------------------------------------
(* The service: it is replaced by the install commands and may crash,      *)
(* start late or be restarted by launchd at any moment.                    *)

(* install, reinstall (uninstall first), repair: SERVICE_MANAGER is held.  *)
InstallBegin ==
    /\ installer = "none" /\ booted = "yes"
    /\ installer' = "install"
    /\ svc' \in {svc, "absent"}
    /\ svcCore' = IF svc' = svc THEN svcCore ELSE 0
    /\ UNCHANGED <<appVars, procVars, lastGen, pc, op, exitPid, booted, toggled>>

InstallRun ==
    /\ installer = "install"
    /\ \/ /\ svc' \in {"silent", "up"} /\ svcCore' = 0
          /\ status' = "NotReady" /\ installer' = "waitIpc"
       \/ installer' = "none" /\ UNCHANGED <<svc, svcCore, status>>   \* refused
    /\ UNCHANGED <<mode, child, session, socket, tun, admin, procVars, lastGen, pc, op, exitPid, booted, toggled>>

(* Mutant: the wait has no last try.                                       *)
InstallWaitForever == installer = "waitIpc" /\ svc = "up" /\ installer' = "none"
    /\ status' = "Ready"
    /\ UNCHANGED <<mode, child, session, socket, tun, admin, procVars, svcVars, exitPid, pc, op, booted, toggled>>

(* wait_for_service_ipc: twenty tries.                                     *)
InstallWait ==
    /\ installer = "waitIpc"
    /\ installer' = "none"
    /\ status' = IF svc = "up" THEN "Ready" ELSE status
    /\ UNCHANGED <<mode, child, session, socket, tun, admin, procVars, svcVars, pc, op, exitPid, booted, toggled>>

Uninstall ==
    /\ installer = "none" /\ booted = "yes"
    /\ svc' = "absent" /\ svcCore' = 0 /\ status' = "NotReady"
    /\ UNCHANGED <<mode, child, session, socket, tun, admin, procVars, lastGen, ctlVars, toggled>>

ServiceUp ==
    /\ svc = "silent" /\ svc' = "up"
    /\ UNCHANGED <<appVars, procVars, svcCore, lastGen, ctlVars, toggled>>

ServiceCrash ==
    /\ svc = "up" /\ svc' = "silent" /\ svcCore' = 0
    /\ UNCHANGED <<appVars, procVars, lastGen, ctlVars, toggled>>

ServiceCoreCrash ==
    /\ svcCore # 0 /\ svcCore' = 0
    /\ UNCHANGED <<appVars, procVars, svc, lastGen, ctlVars, toggled>>

(* The user's switch (patch_verge), which does not take operation_lock.    *)
ToggleTun ==
    /\ booted = "yes"
    /\ tun' = ~tun /\ toggled' = TRUE
    /\ UNCHANGED <<mode, child, session, socket, status, admin, procVars, svcVars, ctlVars>>

-----------------------------------------------------------------------------
Operation ==
    \/ StopNothing \/ StopSidecar \/ Exited \/ StopService \/ StopReply
    \/ Prepare
    \/ GenerateFile \/ CheckManager \/ SendStart \/ StartReply \/ UseServiceSocket
    \/ ServiceReady \/ ServiceNotReady \/ UndoService \/ ServiceUndone \/ ServiceFailed
    \/ KillStale \/ WaitUnavailable \/ Spawn \/ SidecarReady \/ SidecarUndo \/ SidecarUndone

Installer == InstallRun \/ InstallWait

World ==
    \/ \E p \in Pids : ProcessExit(p) \/ Peek(p) \/ Compare(p) \/ TakeChild(p) \/ ClearMode(p)
    \/ InstallBegin \/ Uninstall \/ ServiceUp \/ ServiceCrash \/ ServiceCoreCrash \/ ToggleTun

Next ==
    \/ SetupProbe \/ Start \/ StopOrRestart \/ Cancel
    \/ Operation \/ Installer \/ World

Spec == Init /\ [][Next]_vars

(* Awaits end: the core's probes and the IPC calls have deadlines, tokio's *)
(* Mutex hands SERVICE_MANAGER over in FIFO order.                         *)
FairSpec ==
    /\ Spec
    /\ WF_vars(Operation) /\ SF_vars(Prepare) /\ SF_vars(CheckManager)
    /\ WF_vars(Installer)

-----------------------------------------------------------------------------
(* The inductive invariant: between pkill and the spawn nothing runs.      *)
NothingToJoin == pc \in {"wait", "spawn"} => running = {}

(* At most one sidecar runs that nobody told to stop: a new one is spawned *)
(* only after `pkill`, under operation_lock.                               *)
OneSidecar == \A p, q \in running : p = q

(* The session kept is the one of the newest core the service was asked to *)
(* run, or none: no operation acts with the proof of an earlier start.     *)
SessionFresh == session \in {0, lastGen}

(* Without elevation no sidecar start is under way while TUN is on, unless *)
(* the user turned TUN on since the operation decided to start one.        *)
NoFakeSidecar ==
    pc \in {"kill", "wait", "spawn"} /\ ~admin /\ ~toggled => ~tun

Inv == TypeOK /\ NothingToJoin /\ OneSidecar /\ SessionFresh /\ NoFakeSidecar

(* An operation gives operation_lock back.                                 *)
OperationEnds == pc # "idle" ~> pc = "idle"

(* A core that nobody told to stop.                                        *)
Cores == Cardinality(running) + (IF svcCore # 0 THEN 1 ELSE 0)

(* Never a sidecar beside a core of the service ("to avoid two cores",     *)
(* lifecycle.rs:48).                                                       *)
NoDualCore == Cores <= 1

-----------------------------------------------------------------------------
(* Two bounds of the runs that are not in the guards: one sidecar beside   *)
(* two service sessions, or three sidecars without a service, so that the  *)
(* event task of one can hold the child of the next while a third starts.  *)
NoService == svc = "absent" /\ installer = "none" /\ ~tun
SidecarsOrSessions == lastPid <= 1 \/ (NoService /\ lastGen = 0)
=============================================================================
