---------------------------- MODULE ProfileSwitch ----------------------------
(***************************************************************************)
(* Switching the profile and applying the configuration generated from it  *)
(* (cmd/profile.rs, core/manager/config.rs, config/config.rs), beside the  *)
(* commands that change the profile list (config/profiles.rs,              *)
(* utils/resolve/scheme.rs) or the runtime draft (cmd/runtime.rs).         *)
(*                                                                         *)
(* Every await is a step.  Two locks serialise parts of the work: the      *)
(* CoreManager's operation_lock the application of a configuration, the    *)
(* profile store's async_modify_lock the changes of the committed list.    *)
(* A draft of either store is under neither lock.  The core itself is      *)
(* reduced to the configuration it runs; how it is started and stopped is  *)
(* module CoreLifecycle, the two stores are module ConfigStore.            *)
(***************************************************************************)
EXTENDS Naturals

CONSTANTS
    Tasks,      \* callers of the commands
    Profiles,   \* profile uids
    Initial,    \* the profiles in the list at boot
    Edits,      \* proxy-chain edits of the runtime configuration
    Rejected,   \* profiles and edits the core does not accept
    Kinds,      \* the commands this instance calls
    None,       \* no profile, no configuration, no task
    NoDraft,    \* the store has no draft
    MaxOps      \* bound: commands called

ASSUME ConstantsAssumption ==
    /\ Initial \subseteq Profiles
    /\ Rejected \subseteq Profiles \cup Edits
    /\ None \notin Tasks \cup Profiles \cup Edits
    /\ MaxOps \in Nat

Config == [src : Profiles \cup {None}, edit : Edits \cup {None}]
List == [items : SUBSET Profiles, current : Profiles \cup {None}]

ASSUME NoDraftAssumption ==
    /\ NoDraft # None
    /\ NoDraft \notin Config /\ NoDraft \notin List
    /\ None \notin Config

VARIABLES
    data, draft,    \* the profile store: committed list and draft
    saved,          \* profiles.yaml
    files,          \* profile files in the profiles directory
    modLock, base,  \* holder of async_modify_lock and the clone it works on
    rt, rtDraft,    \* the runtime store: committed configuration and draft
    run, backup,    \* the runtime file and its .bak copy
    hasBackup,      \* has_backup of the operation under way
    seen,           \* the current profile `enhance` read
    core,           \* the configuration the core runs, or None
    reload,         \* the API reload: "none", "sent", "ok", "err"
    orphan,         \* a request whose caller is gone may still reach the core
    opLock,         \* holder of operation_lock
    switching,      \* CURRENT_SWITCHING_PROFILE
    prev,           \* previous_profile of the switch under way
    exiting,        \* Handle::is_exiting
    pc, kind, arg,  \* each task's next step, command and argument
    refresh,        \* refresh[t]: t updates the core when the list is saved
    held            \* held[t]: the list deep link t is about to save

VARIABLES           \* history and bounds
    ops,            \* commands called
    used,           \* uids ever given to a profile
    acked,          \* imports reported as done
    removed,        \* profiles somebody called delete for
    unsaved,        \* the last attempt to write profiles.yaml failed
    doubt           \* a cancelled or failed step left the core in doubt

profileVars == <<data, draft, saved, files, modLock, base>>
runtimeVars == <<rt, rtDraft, run, backup, hasBackup, seen>>
coreVars == <<core, reload, orphan>>
switchVars == <<switching, prev, exiting>>
commandVars == <<kind, arg, refresh, held>>
noteVars == <<ops, used, acked, removed, unsaved>>
controlVars == <<opLock, switchVars, pc, commandVars>>
history == <<noteVars, doubt>>
vars == <<profileVars, runtimeVars, coreVars, controlVars, history>>

Commands == {"switch", "update", "chain", "import", "deeplink", "delete", "restore"}
UpdateSteps == {"wantOp", "generate", "backup", "write", "reload", "answer",
                "validate", "restart", "starting"}
Steps == UpdateSteps \cup {"idle", "accepted", "failed", "restoring", "wantMod",
                           "modify", "wantSave", "saving", "publish", "store"}

Init ==
    /\ \E p \in Initial \ Rejected : data = [items |-> Initial, current |-> p]
    /\ draft = NoDraft /\ saved = data /\ files = Initial
    /\ modLock = None /\ base = data
    \* init_config leaves the first configuration in the runtime draft.
    /\ rt = None /\ rtDraft = [src |-> data.current, edit |-> None]
    /\ run = rtDraft /\ backup = None /\ hasBackup = FALSE /\ seen = None
    /\ core = run /\ reload = "none" /\ orphan = FALSE
    /\ opLock = None /\ switching = FALSE /\ prev = None /\ exiting = FALSE
    /\ pc = [t \in Tasks |-> "idle"] /\ kind = [t \in Tasks |-> "update"]
    /\ arg = [t \in Tasks |-> None] /\ refresh = [t \in Tasks |-> FALSE]
    /\ held = [t \in Tasks |-> data]
    /\ ops = 0 /\ used = Initial /\ acked = {} /\ removed = {}
    /\ unsaved = FALSE /\ doubt = FALSE

Accepts(c) == c.src \notin Rejected /\ c.edit \notin Rejected

Latest == IF draft = NoDraft THEN data ELSE draft
RtLatest == IF rtDraft = NoDraft THEN rt ELSE rtDraft

(* Draft::apply                                                            *)
Applied(committed, d) == IF d = NoDraft THEN committed ELSE d

(* IProfiles::patch_config: only a listed profile becomes current.         *)
Patch(list, p) == IF p \in list.items THEN [list EXCEPT !.current = p] ELSE list

Append(list, p) ==
    [items |-> list.items \cup {p},
     current |-> IF list.current = None THEN p ELSE list.current]

(* IProfiles::delete_item; which profile comes first is not modelled.      *)
Deleted(list, p) ==
    LET rest == list.items \ {p} IN
    IF list.current \notin {p, None} THEN {[list EXCEPT !.items = rest]}
    ELSE IF rest = {} THEN {[items |-> rest, current |-> None]}
    ELSE {[items |-> rest, current |-> q] : q \in rest}

Goto(t, step) == pc' = [pc EXCEPT ![t] = step]
At(t, step) == pc[t] = step

-----------------------------------------------------------------------------
(* Calling a command.                                                      *)

Begin(t, k, a) ==
    /\ At(t, "idle") /\ k \in Kinds /\ ops < MaxOps
    /\ ops' = ops + 1
    /\ kind' = [kind EXCEPT ![t] = k]
    /\ arg' = [arg EXCEPT ![t] = a]

(* patch_profiles_config; while a switch runs another one returns Busy.    *)
BeginSwitch(t, p) ==
    /\ Begin(t, "switch", p)
    /\ p \in data.items
    /\ ~switching
    /\ switching' = TRUE
    /\ prev' = data.current
    /\ draft' = Patch(Latest, p)
    /\ Goto(t, "wantOp")
    /\ UNCHANGED <<data, saved, files, modLock, base, runtimeVars, coreVars,
                   opLock, exiting, refresh, held, used, acked, removed, unsaved,
                   doubt>>

(* update_config_forced from any other command.                            *)
BeginUpdate(t) ==
    /\ Begin(t, "update", None)
    /\ Goto(t, "wantOp")
    /\ UNCHANGED <<profileVars, runtimeVars, coreVars, opLock, switchVars,
                   refresh, held, used, acked, removed, unsaved, doubt>>

(* update_proxy_chain_config_in_runtime: edits the runtime draft at once.  *)
BeginChain(t, e) ==
    /\ Begin(t, "chain", e)
    /\ rtDraft' = IF RtLatest = None THEN None ELSE [RtLatest EXCEPT !.edit = e]
    /\ Goto(t, "wantOp")
    /\ UNCHANGED <<profileVars, rt, run, backup, hasBackup, seen, coreVars,
                   opLock, switchVars, refresh, held, used, acked, removed, unsaved,
                   doubt>>

(* import_profile and the deep link's import_subscription, once fetched.   *)
BeginImport(t, p) ==
    /\ \E k \in {"import", "deeplink"} : Begin(t, k, p)
    /\ p \notin used
    /\ used' = used \cup {p}
    /\ refresh' = [refresh EXCEPT ![t] = Latest.current = None]
    /\ Goto(t, "wantMod")
    /\ UNCHANGED <<profileVars, runtimeVars, coreVars, opLock, switchVars, held,
                   acked, removed, unsaved, doubt>>

BeginDelete(t, p) ==
    /\ Begin(t, "delete", p)
    /\ p \in data.items
    /\ removed' = removed \cup {p}
    /\ Goto(t, "wantMod")
    /\ UNCHANGED <<profileVars, runtimeVars, coreVars, opLock, switchVars,
                   refresh, held, used, acked, unsaved, doubt>>

BeginExit ==
    /\ "exit" \in Kinds
    /\ exiting' = TRUE
    /\ UNCHANGED <<profileVars, runtimeVars, coreVars, opLock, switching, prev,
                   pc, commandVars, history>>

-----------------------------------------------------------------------------
(* How an operation under operation_lock ends.                             *)

Release(t, switchStep) ==
    /\ opLock' = None
    /\ Goto(t, IF kind[t] = "switch" THEN switchStep ELSE "idle")

DropBackup == backup' = IF hasBackup THEN None ELSE backup

(* The core took the configuration: the draft is committed.                *)
Accept(t) ==
    /\ rt' = Applied(rt, rtDraft)
    /\ rtDraft' = NoDraft
    /\ DropBackup
    /\ doubt' = orphan
    /\ Release(t, "accepted")

(* Mutant: the rejected configuration stays in the runtime file.           *)
RejectKeepsFile(t) ==
    /\ run' = run
    /\ doubt' = (doubt \/ core # backup \/ ~hasBackup)
    /\ DropBackup
    /\ rtDraft' = NoDraft
    /\ Release(t, "failed")

(* The configuration is given up: the old runtime file is copied back.     *)
Reject(t) ==
    /\ \/ /\ hasBackup
          /\ run' = backup
          /\ doubt' = (doubt \/ core # backup)
       \/ /\ run' = run
          /\ doubt' = TRUE
    /\ DropBackup
    /\ rtDraft' = NoDraft
    /\ Release(t, "failed")

-----------------------------------------------------------------------------
(* update_config_with_force and apply_generate_config.                     *)

AcquireOp(t) ==
    /\ At(t, "wantOp") /\ opLock = None
    /\ \/ /\ kind[t] = "chain"
          /\ opLock' = t
          /\ Goto(t, "backup")
          /\ UNCHANGED seen
       \/ /\ kind[t] # "chain" /\ ~exiting
          /\ opLock' = t
          /\ seen' = Latest.current
          /\ Goto(t, "generate")
       \/ /\ kind[t] # "chain" /\ exiting
          /\ Release(t, "failed")
          /\ UNCHANGED seen
    /\ UNCHANGED <<profileVars, rt, rtDraft, run, backup, hasBackup, coreVars,
                   switchVars, commandVars, history>>

(* perform_config_update: the profile's file may be missing or unreadable. *)
Generate(t) ==
    /\ At(t, "generate")
    /\ \/ /\ seen \in files \cup {None}
          /\ rtDraft' = [src |-> seen, edit |-> None]
          /\ Goto(t, "backup")
          /\ UNCHANGED opLock
       \/ /\ rtDraft' = NoDraft
          /\ Release(t, "failed")
    /\ UNCHANGED <<profileVars, rt, run, backup, hasBackup, seen, coreVars,
                   switchVars, commandVars, history>>

Backup(t) ==
    /\ At(t, "backup")
    /\ \/ backup' = run /\ hasBackup' = TRUE
       \/ hasBackup' = FALSE /\ UNCHANGED backup
    /\ Goto(t, "write")
    /\ UNCHANGED <<profileVars, rt, rtDraft, run, seen, coreVars, opLock,
                   switchVars, commandVars, history>>

(* Mutant: the committed configuration is preferred to the draft.          *)
FileCommitted == IF rt # None THEN rt ELSE RtLatest

(* Config::generate_file: the latest configuration, else the committed one. *)
FileConfig == IF RtLatest # None THEN RtLatest ELSE rt

WriteRun(t) ==
    /\ At(t, "write")
    /\ \/ /\ FileConfig # None
          /\ run' = FileConfig
          /\ Goto(t, "reload")
          /\ UNCHANGED <<rtDraft, backup, opLock>>
       \/ /\ DropBackup
          /\ rtDraft' = NoDraft
          /\ Release(t, "failed")
          /\ UNCHANGED run
    /\ UNCHANGED <<profileVars, rt, hasBackup, seen, coreVars, switchVars,
                   commandVars, history>>

(* A core under the service is not reloaded; which mode is CoreLifecycle's. *)
SkipReload(t) ==
    /\ At(t, "reload")
    /\ Goto(t, "validate")
    /\ UNCHANGED <<profileVars, runtimeVars, coreVars, opLock, switchVars,
                   commandVars, history>>

SendReload(t) ==
    /\ At(t, "reload")
    /\ reload' = "sent"
    /\ Goto(t, "answer")
    /\ UNCHANGED <<profileVars, runtimeVars, core, orphan, opLock, switchVars,
                   commandVars, history>>

(* The core loads the file it is pointed at, if it runs and accepts it.    *)
CoreReloads ==
    /\ reload = "sent"
    /\ IF core # None /\ Accepts(run)
       THEN core' = run /\ reload' = "ok"
       ELSE reload' = "err" /\ UNCHANGED core
    /\ UNCHANGED <<profileVars, runtimeVars, orphan, controlVars, history>>

(* A request nobody waits for any more is carried out all the same.        *)
OrphanLoads ==
    /\ orphan
    /\ orphan' = FALSE
    /\ core' = IF Accepts(run) THEN run ELSE core
    /\ doubt' = TRUE
    /\ UNCHANGED <<profileVars, runtimeVars, reload, controlVars, noteVars>>

Reloaded(t) ==
    /\ At(t, "answer") /\ reload = "ok"
    /\ reload' = "none"
    /\ Accept(t)
    /\ UNCHANGED <<profileVars, run, hasBackup, seen, core, orphan, switchVars,
                   commandVars, noteVars>>

(* The core refused, or its answer did not come.                           *)
ReloadFailed(t) ==
    /\ At(t, "answer")
    /\ reload' = "none"
    /\ orphan' = (orphan \/ reload = "sent")
    /\ Goto(t, "validate")
    /\ UNCHANGED <<profileVars, runtimeVars, core, opLock, switchVars,
                   commandVars, history>>

(* validate_config_outcome: writes the latest configuration to the check   *)
(* file and lets the core's -t run judge it, unless one of them fails.     *)
Validated(t) ==
    /\ At(t, "validate") /\ ~exiting
    /\ FileConfig # None /\ Accepts(FileConfig)
    /\ Goto(t, "restart")
    /\ UNCHANGED <<profileVars, runtimeVars, coreVars, opLock, switchVars,
                   commandVars, history>>

ValidationFailed(t) ==
    /\ At(t, "validate")
    /\ Reject(t)
    /\ UNCHANGED <<profileVars, rt, hasBackup, seen, coreVars, switchVars,
                   commandVars, noteVars>>

StopForRestart(t) ==
    /\ At(t, "restart")
    /\ core' = None
    /\ Goto(t, "starting")
    /\ UNCHANGED <<profileVars, runtimeVars, reload, orphan, opLock, switchVars,
                   commandVars, history>>

Restarted(t) ==
    /\ At(t, "starting")
    /\ core' = IF Accepts(run) THEN run ELSE None
    /\ Accept(t)
    /\ UNCHANGED <<profileVars, run, hasBackup, seen, reload, orphan, switchVars,
                   commandVars, noteVars>>

RestartFailed(t) ==
    /\ pc[t] \in {"restart", "starting"}
    /\ Reject(t)
    /\ UNCHANGED <<profileVars, rt, hasBackup, seen, coreVars, switchVars,
                   commandVars, noteVars>>

(* Mutant: the timeout covers the wait for operation_lock only.            *)
QueueTimesOut(t) == kind[t] = "switch" /\ At(t, "wantOp")

(* The 30 s timeout of perform_config_update covers the whole update,      *)
TimesOut(t) == kind[t] = "switch" /\ pc[t] \in UpdateSteps

(* and drops it where it is: its lock is released, its drafts, its .bak    *)
(* and its stopped core stay, and what was asked may still be carried out. *)
Cancel(t) ==
    /\ TimesOut(t)
    /\ opLock' = IF opLock = t THEN None ELSE opLock
    /\ orphan' = (orphan \/ (At(t, "answer") /\ reload = "sent") \/ At(t, "starting"))
    /\ reload' = IF At(t, "answer") THEN "none" ELSE reload
    /\ doubt' = TRUE
    /\ Goto(t, "failed")
    /\ UNCHANGED <<profileVars, runtimeVars, core, switchVars, commandVars,
                   noteVars>>

-----------------------------------------------------------------------------
(* The end of a switch: handle_success, discard_and_restore.               *)

(* Mutant: the list a switch committed is not saved.                       *)
CommitUnsaved(t) ==
    /\ At(t, "accepted")
    /\ data' = Applied(data, draft)
    /\ draft' = NoDraft
    /\ switching' = FALSE
    /\ Goto(t, "idle")
    /\ UNCHANGED <<saved, files, modLock, base, runtimeVars, coreVars, opLock,
                   prev, exiting, commandVars, history>>

CommitSwitch(t) ==
    /\ At(t, "accepted")
    /\ data' = Applied(data, draft)
    /\ draft' = NoDraft
    /\ Goto(t, "wantSave")
    /\ UNCHANGED <<saved, files, modLock, base, runtimeVars, coreVars, opLock,
                   switchVars, commandVars, history>>

(* Mutant: the flag is given back before the previous profile is.          *)
DiscardEarly(t) ==
    /\ At(t, "failed")
    /\ draft' = IF prev = None THEN NoDraft ELSE Patch(data, prev)
    /\ switching' = FALSE
    /\ Goto(t, IF prev = None THEN "idle" ELSE "restoring")
    /\ UNCHANGED <<data, saved, files, modLock, base, runtimeVars, coreVars,
                   opLock, prev, exiting, commandVars, history>>

DiscardSwitch(t) ==
    /\ At(t, "failed")
    /\ IF prev = None
       THEN draft' = NoDraft /\ switching' = FALSE /\ Goto(t, "idle")
       ELSE draft' = Patch(data, prev) /\ Goto(t, "restoring") /\ UNCHANGED switching
    /\ UNCHANGED <<data, saved, files, modLock, base, runtimeVars, coreVars,
                   opLock, prev, exiting, commandVars, history>>

(* restore_previous_profile applies; the save is a task of its own.        *)
RestorePrevious(t) ==
    /\ At(t, "restoring")
    /\ data' = Applied(data, draft)
    /\ draft' = NoDraft
    /\ switching' = FALSE
    /\ kind' = [kind EXCEPT ![t] = "restore"]
    /\ Goto(t, "wantSave")
    /\ UNCHANGED <<saved, files, modLock, base, runtimeVars, coreVars, opLock,
                   prev, exiting, arg, refresh, held, history>>

-----------------------------------------------------------------------------
(* Changes of the committed list (Draft::with_data_modify).                *)

(* Mutant: with_data_modify without async_modify_lock.                     *)
AcquireUnlocked(t) ==
    /\ pc[t] \in {"wantMod", "wantSave"}
    /\ modLock' = t
    /\ base' = data
    /\ Goto(t, IF At(t, "wantMod") THEN "modify" ELSE "saving")
    /\ UNCHANGED <<data, draft, saved, files, runtimeVars, coreVars, opLock,
                   switchVars, commandVars, history>>

AcquireModify(t) ==
    /\ pc[t] \in {"wantMod", "wantSave"} /\ modLock = None
    /\ modLock' = t
    /\ base' = data
    /\ Goto(t, IF At(t, "wantMod") THEN "modify" ELSE "saving")
    /\ UNCHANGED <<data, draft, saved, files, runtimeVars, coreVars, opLock,
                   switchVars, commandVars, history>>

AppendItem(t) ==
    /\ At(t, "modify") /\ kind[t] \in {"import", "deeplink"}
    /\ files' = files \cup {arg[t]}
    /\ data' = Append(base, arg[t])
    /\ modLock' = None
    /\ Goto(t, IF kind[t] = "import" THEN "wantSave" ELSE "publish")
    /\ UNCHANGED <<draft, saved, base, runtimeVars, coreVars, opLock, switchVars,
                   commandVars, history>>

(* Writing the file fails: the deep link discards the store's draft.       *)
AppendFails(t) ==
    /\ At(t, "modify") /\ kind[t] \in {"import", "deeplink"}
    /\ draft' = IF kind[t] = "deeplink" THEN NoDraft ELSE draft
    /\ modLock' = None
    /\ Goto(t, "idle")
    /\ UNCHANGED <<data, saved, files, base, runtimeVars, coreVars, opLock,
                   switchVars, commandVars, history>>

DeleteItem(t) ==
    /\ At(t, "modify") /\ kind[t] = "delete" /\ arg[t] \in base.items
    /\ files' = files \ {arg[t]}
    /\ data' \in Deleted(base, arg[t])
    /\ saved' = data' /\ unsaved' = FALSE
    /\ modLock' = None
    /\ refresh' = [refresh EXCEPT ![t] = base.current \in {arg[t], None}]
    /\ Goto(t, "wantSave")
    /\ UNCHANGED <<draft, base, runtimeVars, coreVars, opLock, switchVars, kind,
                   arg, held, ops, used, acked, removed, doubt>>

(* The item is gone, or its file is removed and then saving fails.         *)
DeleteFails(t) ==
    /\ At(t, "modify") /\ kind[t] = "delete"
    /\ files' = IF arg[t] \in base.items THEN files \ {arg[t]} ELSE files
    /\ modLock' = None
    /\ Goto(t, "idle")
    /\ UNCHANGED <<data, draft, saved, base, runtimeVars, coreVars, opLock,
                   switchVars, commandVars, history>>

(* profiles_save_file_safe, which also writes its clone back.  A switch    *)
(* ends here, an import is reported, a delete may go on to the core.       *)
Save(t) ==
    /\ At(t, "saving")
    /\ modLock' = None
    /\ \/ /\ saved' = base /\ data' = base /\ unsaved' = FALSE
          /\ Goto(t, IF kind[t] = "delete" /\ refresh[t] THEN "wantOp" ELSE "idle")
       \/ Goto(t, "idle") /\ unsaved' = TRUE /\ UNCHANGED <<saved, data>>
    /\ switching' = (switching /\ kind[t] # "switch")
    /\ acked' = IF kind[t] = "import" THEN acked \cup {arg[t]} ELSE acked
    /\ doubt' = (doubt \/ data'.current # data.current)
    /\ UNCHANGED <<draft, files, base, runtimeVars, coreVars, opLock, prev,
                   exiting, commandVars, ops, used, removed>>

(* The deep link then applies the store's draft, whoever opened it, and    *)
(* saves the committed list without the lock.                              *)
PublishImport(t) ==
    /\ At(t, "publish")
    /\ data' = Applied(data, draft)
    /\ draft' = NoDraft
    /\ held' = [held EXCEPT ![t] = data']
    /\ Goto(t, "store")
    /\ UNCHANGED <<saved, files, modLock, base, runtimeVars, coreVars, opLock,
                   switchVars, kind, arg, refresh, history>>

StoreImport(t) ==
    /\ At(t, "store")
    /\ saved' = held[t] /\ unsaved' = FALSE
    /\ acked' = acked \cup {arg[t]}
    /\ Goto(t, IF refresh[t] /\ Latest.current = arg[t] THEN "wantOp" ELSE "idle")
    /\ UNCHANGED <<data, draft, files, modLock, base, runtimeVars, coreVars,
                   opLock, switchVars, commandVars, ops, used, removed, doubt>>

Call(t) ==
    \/ \E p \in Profiles : BeginSwitch(t, p) \/ BeginImport(t, p) \/ BeginDelete(t, p)
    \/ \E e \in Edits : BeginChain(t, e)
    \/ BeginUpdate(t)

(* What the app does by itself: waiting for nothing but locks and files.   *)
Proceed(t) ==
    \/ AcquireOp(t) \/ Generate(t) \/ Backup(t) \/ WriteRun(t)
    \/ SkipReload(t) \/ SendReload(t)
    \/ StopForRestart(t)
    \/ CommitSwitch(t) \/ DiscardSwitch(t) \/ RestorePrevious(t)
    \/ AcquireModify(t) \/ AppendItem(t) \/ AppendFails(t)
    \/ DeleteItem(t) \/ DeleteFails(t) \/ Save(t)
    \/ PublishImport(t) \/ StoreImport(t)

(* What waits for the core or for its -t run.                              *)
Answered(t) ==
    \/ Reloaded(t) \/ ReloadFailed(t)
    \/ Validated(t) \/ ValidationFailed(t)
    \/ Restarted(t) \/ RestartFailed(t)

Next ==
    \/ \E t \in Tasks : Call(t) \/ Proceed(t) \/ Answered(t) \/ Cancel(t)
    \/ BeginExit \/ CoreReloads \/ OrphanLoads

Spec == Init /\ [][Next]_vars

(* Nothing obliges the core or its -t run to answer: only the app's own    *)
(* steps and the timeout are fair.                                         *)
(* The modify lock is a tokio mutex, which is granted in FIFO order.       *)
Fairness == \A t \in Tasks :
    WF_vars(Proceed(t)) /\ WF_vars(Cancel(t)) /\ SF_vars(AcquireModify(t))

FairSpec == Spec /\ Fairness

-----------------------------------------------------------------------------
(* Every variable has its type.                                            *)
ProfileTypes ==
    /\ data \in List /\ draft \in List \cup {NoDraft} /\ saved \in List
    /\ files \subseteq Profiles
    /\ modLock \in Tasks \cup {None} /\ base \in List

RuntimeTypes ==
    /\ rt \in Config \cup {None} /\ rtDraft \in Config \cup {None, NoDraft}
    /\ run \in Config /\ backup \in Config \cup {None} /\ hasBackup \in BOOLEAN
    /\ seen \in Profiles \cup {None}

CoreTypes ==
    /\ core \in Config \cup {None}
    /\ reload \in {"none", "sent", "ok", "err"} /\ orphan \in BOOLEAN

ControlTypes ==
    /\ opLock \in Tasks \cup {None}
    /\ switching \in BOOLEAN /\ prev \in Profiles \cup {None} /\ exiting \in BOOLEAN
    /\ pc \in [Tasks -> Steps] /\ kind \in [Tasks -> Commands]
    /\ arg \in [Tasks -> Profiles \cup Edits \cup {None}]
    /\ \A t \in Tasks : kind[t] \notin {"update", "chain"} => arg[t] \in Profiles
    /\ refresh \in [Tasks -> BOOLEAN] /\ held \in [Tasks -> List]

NoteTypes ==
    /\ used \subseteq Profiles /\ acked \subseteq Profiles /\ removed \subseteq Profiles
    /\ ops \in 0..MaxOps /\ unsaved \in BOOLEAN /\ doubt \in BOOLEAN

TypeOK == ProfileTypes /\ RuntimeTypes /\ CoreTypes /\ ControlTypes /\ NoteTypes

Quiet == \A t \in Tasks : At(t, "idle")

(* operation_lock is held by the one task that applies a configuration,    *)
(* and async_modify_lock by the one that works on a clone of the list:     *)
(* also when the timeout drops its holder.                                 *)
OpHeld == \A t \in Tasks : opLock = t <=> pc[t] \in UpdateSteps \ {"wantOp"}
ModHeld == \A t \in Tasks : modLock = t <=> pc[t] \in {"modify", "saving"}

SwitchRuns(t) == kind[t] = "switch" /\ pc[t] # "idle"

(* CURRENT_SWITCHING_PROFILE is set exactly while one switch runs, to the  *)
(* end of whatever handles its result.                                     *)
OneSwitch ==
    /\ switching <=> \E t \in Tasks : SwitchRuns(t)
    /\ \A t, u \in Tasks : SwitchRuns(t) /\ SwitchRuns(u) => t = u

(* No draft of the list outlives the switch that opened it.                *)
DraftOwned == draft # NoDraft => switching

(* A switch is what waits for its result, a deep link what publishes, and  *)
(* a switch that has committed its own draft saves with none open: what    *)
(* OneSwitch and DraftOwned need to be inductive.                          *)
SwitchSteps == \A t \in Tasks :
    /\ pc[t] \in {"accepted", "failed", "restoring"} => kind[t] = "switch"
    /\ pc[t] \in {"publish", "store"} => kind[t] = "deeplink"
    /\ kind[t] = "switch" /\ pc[t] \in {"wantSave", "saving"} => draft = NoDraft

(* Whoever may have to copy the old runtime file back still has the copy.  *)
BackupKept == \A t \in Tasks :
    hasBackup /\ pc[t] \in UpdateSteps \ {"wantOp", "generate", "backup"} => backup # None

Inv ==
    /\ TypeOK /\ OpHeld /\ ModHeld /\ OneSwitch /\ DraftOwned
    /\ SwitchSteps /\ BackupKept

(* When every command has ended, the current profile of the list, the      *)
(* runtime file and the core agree, through any number of accepted and     *)
(* rejected switches.  `doubt` names what the code gives up on: a timeout, *)
(* a request that outlived its caller, a failed restart or restore, and a  *)
(* save that wrote an older list over a switch.                            *)
IdleAgrees ==
    Quiet /\ ~doubt => core # None /\ core.src = data.current /\ core = run

(* What the next start reads is what the app showed: profiles.yaml follows *)
(* every commit and every restore, unless writing it failed.               *)
SavedAgrees == Quiet /\ ~unsaved => saved = data

(* A runtime configuration is committed only when the core runs it         *)
(* (cmd/runtime.rs: apply is for the CoreManager, after validation).       *)
AppliedRuns == [][rt' # rt => rt' = core']_vars

(* A profile whose import was reported stays in the list until deleted.    *)
NoLostImport == acked \ removed \subseteq data.items

(* Saving the list does not change it.                                     *)
SavesChangeNothing ==
    [][\A t \in Tasks : At(t, "saving") /\ pc'[t] # "saving" => data' = data]_vars

(* A switch always ends, whatever the core does: the next one is not Busy. *)
SwitchEnds == switching ~> ~switching
=============================================================================
