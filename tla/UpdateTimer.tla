----------------------------- MODULE UpdateTimer -----------------------------
(***************************************************************************)
(* The timer that updates subscriptions in the background                  *)
(* (src-tauri/src/core/timer.rs) and the commands that change what it has  *)
(* to do (src-tauri/src/cmd/profile.rs).                                   *)
(*                                                                         *)
(* Three kinds of actors run concurrently.  Commands change the interval   *)
(* of a subscription and refresh the timer: the refresh reads the profile  *)
(* list, replaces the cached map under a lock and, the lock released,      *)
(* sends the new map.  The scheduler owns a delay queue and the state of   *)
(* each subscription it tracks; it takes commands from an unbounded FIFO   *)
(* channel and expired entries from the queue.  Each update it starts is a *)
(* task of its own that reports its end through the same channel.          *)
(*                                                                         *)
(* Time is abstract: a queued entry may expire at any moment, but it       *)
(* carries the interval it was armed with.  What an update does to the     *)
(* profile is in ProfileSwitch.                                            *)
(***************************************************************************)
EXTENDS Naturals, Sequences, FiniteSets, Functions

CONSTANTS Uid,        \* the subscriptions
          Interval,   \* positive update intervals
          Key,        \* slots of the delay queue (bounds the entries)
          Task,       \* command tasks (bounds the commands in flight)
          NoKey,      \* Option::None for a queue key
          MaxEdits    \* bound on the commands that change a setting

ASSUME IntervalPositive == Interval \subseteq Nat \ {0}
ASSUME NoKeyIsNone == NoKey \notin Key
ASSUME MaxEditsNat == MaxEdits \in Nat

VARIABLES
    profile,     \* each uid: not created yet, in the profile list, or deleted
    settings,    \* profiles: the interval of each subscription, 0 for none
    unannounced, \* subscriptions changed by a path that does not refresh
    edits,       \* number of commands begun so far
    commands,    \* the state of each command task
    cache,       \* Timer::timer_map
    started,     \* Timer::initialized, and run_scheduler spawned
    channel,     \* the command channel
    tasks,       \* the scheduler's tasks: HashMap<uid, TaskState>
    queue,       \* the scheduler's DelayQueue, as a set of entries
    waiting,     \* updates spawned that wait for the start-up to end
    updating,    \* updates that run
    overlapped   \* subscriptions dropped while their update was running

userVars  == <<profile, settings, unannounced, edits>>
schedVars == <<tasks, queue, overlapped>>
jobVars   == <<waiting, updating>>
vars == <<userVars, commands, cache, started, channel, schedVars, jobVars>>

------------------------------------------------------------------------------
(* The data.                                                               *)

Maps == UNION {[S -> Interval] : S \in SUBSET Uid}

Message == [type : {"Apply"}, map : Maps]
           \cup [type : {"RunNow", "TaskFinished"}, uid : Uid]

TaskState == [key : Key \cup {NoKey}, interval : Interval, running : BOOLEAN]

Entry == [key : Key, uid : Uid, interval : Interval]

Pc == {"idle", "patch", "read", "install", "send", "overdue"}

Command == [pc : Pc, uid : Uid, to : Interval \cup {0}, refresh : BOOLEAN,
            map : Maps, boot : BOOLEAN, due : SUBSET Uid]

NoMap == [u \in {} |-> 0]

\* The subscriptions that want background updates, with their interval.
gen_map == [u \in {v \in Uid : settings[v] # 0} |-> settings[u]]

\* Keys of entries still in the queue; queue.remove and queue.reset panic on
\* any other.
Live == {e.key : e \in queue}

\* One unused slot for each subscription of S.
Slots(S) == {f \in [S -> Key \ Live] : IsInjective(f)}
Slot(S) == CHOOSE f \in Slots(S) : TRUE

schedule_task(S, f, m) == {[key |-> f[u], uid |-> u, interval |-> m[u]] : u \in S}

Idle(t) == commands[t].pc = "idle"

Become(t, c) == commands' = [commands EXCEPT ![t] = c]

UserTypes ==
    /\ profile \in [Uid -> {"new", "present", "deleted"}]
    /\ settings \in [Uid -> Interval \cup {0}]
    /\ unannounced \subseteq Uid
    /\ edits \in 0 .. MaxEdits

CommandTypes ==
    /\ commands \in [Task -> Command]
    /\ cache \in Maps
    /\ started \in BOOLEAN

SchedulerTypes ==
    /\ \E S \in SUBSET Uid : tasks \in [S -> TaskState]
    /\ queue \subseteq Entry
    /\ overlapped \subseteq Uid

JobTypes == waiting \in [Uid -> Nat] /\ updating \in [Uid -> Nat]

TypeOK ==
    /\ UserTypes
    /\ CommandTypes
    /\ SchedulerTypes
    /\ JobTypes
    /\ channel \in Seq(Message)

Init ==
    /\ profile \in [Uid -> {"new", "present"}]
    /\ settings \in [Uid -> Interval \cup {0}]
    /\ \A u \in Uid : profile[u] = "new" => settings[u] = 0
    /\ unannounced = {u \in Uid : settings[u] # 0}
    /\ edits = 0
    /\ \E u \in Uid :
         commands = [t \in Task |->
            [pc |-> "idle", uid |-> u, to |-> 0, refresh |-> FALSE,
             map |-> NoMap, boot |-> FALSE, due |-> {}]]
    /\ cache = NoMap
    /\ started = FALSE
    /\ channel = << >>
    /\ tasks = NoMap
    /\ queue = {}
    /\ waiting = [u \in Uid |-> 0]
    /\ updating = [u \in Uid |-> 0]
    /\ overlapped = {}

------------------------------------------------------------------------------
(* Commands.  The bound MaxEdits limits the changes of a setting.          *)

Begin(t) == Idle(t) /\ edits < MaxEdits /\ edits' = edits + 1

\* patch_profile, first half: whether the timer has to be refreshed is
\* decided from the settings before the patch.
PatchProfile(t, u, i) ==
    /\ Begin(t)
    /\ profile[u] = "present"
    /\ Become(t, [commands[t] EXCEPT !.pc = "patch", !.uid = u, !.to = i,
                                     !.refresh = (settings[u] # i)])
    /\ UNCHANGED <<profile, settings, unannounced, cache, started, channel,
                   schedVars, jobVars>>

\* patch_profile, second half: the patch is saved and a refresh is spawned; a
\* profile deleted in between is an error.
PatchSaved(t) ==
    LET c == commands[t]
        found == profile[c.uid] = "present" IN
    /\ c.pc = "patch"
    /\ settings' = IF found THEN [settings EXCEPT ![c.uid] = c.to] ELSE settings
    /\ Become(t, [c EXCEPT !.pc = IF found /\ c.refresh THEN "read" ELSE "idle",
                           !.refresh = FALSE])
    /\ UNCHANGED <<profile, unannounced, edits, cache, started, channel, schedVars,
                   jobVars>>

\* delete_profile: the item is gone at once; the timer is refreshed at the
\* end, unless regenerating the core's configuration failed.
DeleteProfile(t, u) ==
    /\ Begin(t)
    /\ profile[u] = "present"
    /\ profile' = [profile EXCEPT ![u] = "deleted"]
    /\ settings' = [settings EXCEPT ![u] = 0]
    /\ \/ /\ Become(t, [commands[t] EXCEPT !.pc = "read"])
          /\ UNCHANGED unannounced
       \/ /\ unannounced' = unannounced \cup {u}
          /\ UNCHANGED commands
    /\ UNCHANGED <<cache, started, channel, schedVars, jobVars>>

\* import_profile, create_profile, and an interval an update learns from the
\* server's answer: the timer is not told.
ImportProfile(t, u, i) ==
    /\ Begin(t)
    /\ profile[u] # "deleted"
    /\ settings[u] = 0
    /\ profile' = [profile EXCEPT ![u] = "present"]
    /\ settings' = [settings EXCEPT ![u] = i]
    /\ unannounced' = unannounced \cup {u}
    /\ UNCHANGED <<commands, cache, started, channel, schedVars, jobVars>>

\* Timer::init, up to its refresh: only the first caller passes the flag.
TimerInit(t) ==
    /\ Idle(t)
    /\ ~started
    /\ started' = TRUE
    /\ Become(t, [commands[t] EXCEPT !.pc = "read", !.boot = TRUE])
    /\ UNCHANGED <<userVars, cache, channel, schedVars, jobVars>>

\* refresh, line by line: the profile list is read before the lock is taken,
\* and the map is sent after the lock is released.
RefreshRead(t) ==
    /\ commands[t].pc = "read"
    /\ Become(t, [commands[t] EXCEPT !.pc = "install", !.map = gen_map])
    /\ unannounced' = {}
    /\ UNCHANGED <<profile, settings, edits, cache, started, channel, schedVars,
                   jobVars>>

\* After its refresh, init looks for overdue subscriptions; other refreshes
\* end.
AfterRefresh(t) ==
    \E late \in SUBSET {u \in Uid : settings[u] # 0} :
        LET overdue == IF commands[t].boot THEN late ELSE {} IN
        Become(t, [commands[t] EXCEPT
            !.pc = IF overdue = {} THEN "idle" ELSE "overdue",
            !.map = NoMap, !.boot = FALSE, !.due = overdue])

RefreshInstall(t) ==
    /\ commands[t].pc = "install"
    /\ \/ /\ cache = commands[t].map
          /\ AfterRefresh(t)
          /\ UNCHANGED cache
       \/ /\ cache # commands[t].map
          /\ cache' = commands[t].map
          /\ Become(t, [commands[t] EXCEPT !.pc = "send"])
    /\ UNCHANGED <<userVars, started, channel, schedVars, jobVars>>

RefreshSend(t) ==
    /\ commands[t].pc = "send"
    /\ channel' = Append(channel, [type |-> "Apply", map |-> commands[t].map])
    /\ AfterRefresh(t)
    /\ UNCHANGED <<userVars, cache, started, schedVars, jobVars>>

\* init: one RunNow for each overdue subscription.
RunOverdue(t, u) ==
    /\ commands[t].pc = "overdue"
    /\ u \in commands[t].due
    /\ channel' = Append(channel, [type |-> "RunNow", uid |-> u])
    /\ LET rest == commands[t].due \ {u} IN
       Become(t, [commands[t] EXCEPT !.due = rest,
                                     !.pc = IF rest = {} THEN "idle" ELSE @])
    /\ UNCHANGED <<userVars, cache, started, schedVars, jobVars>>

------------------------------------------------------------------------------
(* The scheduler.  Each action is one iteration of its select loop.        *)

Received(type) ==
    /\ started
    /\ channel # << >>
    /\ Head(channel).type = type
    /\ channel' = Tail(channel)

\* mark_task_running and spawn_update_task, when the update may start.
Spawn(u) == waiting' = [waiting EXCEPT ![u] = @ + 1]

\* Mutant: the interval of a tracked subscription is left as it was.
update_task_interval_stale(state, i, slot) == [state EXCEPT !.key = slot]

\* update_task_interval: a queued entry is re-armed; without one, and when no
\* update runs, an entry is made.
update_task_interval(state, i, slot) ==
    [state EXCEPT !.interval = i, !.key = slot]

\* apply_timer_map: entries and state of subscriptions that left the map are
\* dropped, new ones are armed, a changed interval re-arms.
apply_timer_map(m) ==
    LET kept    == DOMAIN tasks \cap DOMAIN m
        changed == {u \in kept : tasks[u].interval # m[u]}
        arm     == (DOMAIN m \ DOMAIN tasks)
                   \cup {u \in changed : tasks[u].key = NoKey /\ ~tasks[u].running}
        slot    == Slot(arm)
        rearmed == {tasks[u].key : u \in changed}
        gone    == {tasks[u].key : u \in DOMAIN tasks \ DOMAIN m}
        state(u) ==
            IF u \notin DOMAIN tasks
            THEN [key |-> slot[u], interval |-> m[u], running |-> FALSE]
            ELSE IF u \in changed
            THEN update_task_interval(tasks[u], m[u],
                                      IF u \in arm THEN slot[u] ELSE tasks[u].key)
            ELSE tasks[u]
    IN  /\ Slots(arm) # {}
        /\ tasks' = [u \in DOMAIN m |-> state(u)]
        /\ queue' = {IF e.key \in rearmed THEN [e EXCEPT !.interval = m[e.uid]] ELSE e :
                        e \in {q \in queue : q.key \notin gone}}
                    \cup schedule_task(arm, slot, m)
        /\ overlapped' = overlapped
              \cup {u \in DOMAIN tasks \ DOMAIN m : tasks[u].running}

Apply ==
    /\ Received("Apply")
    /\ apply_timer_map(Head(channel).map)
    /\ UNCHANGED <<userVars, commands, cache, started, jobVars>>

\* Mutant: the queued entry stays beside the update that is started at once.
RunTaskNowKeepsEntry ==
    /\ Received("RunNow")
    /\ LET u == Head(channel).uid IN
       IF u \in DOMAIN tasks /\ ~tasks[u].running
       THEN tasks' = [tasks EXCEPT ![u].running = TRUE, ![u].key = NoKey] /\ Spawn(u)
       ELSE UNCHANGED <<tasks, waiting>>
    /\ UNCHANGED <<userVars, commands, cache, started, queue, overlapped, updating>>

\* run_task_now: unless an update runs, start one and drop the queued entry.
RunTaskNow ==
    /\ Received("RunNow")
    /\ LET u == Head(channel).uid IN
       \/ /\ u \in DOMAIN tasks
          /\ ~tasks[u].running
          /\ tasks' = [tasks EXCEPT ![u].running = TRUE, ![u].key = NoKey]
          /\ queue' = {e \in queue : e.key # tasks[u].key}
          /\ Spawn(u)
       \/ /\ u \in DOMAIN tasks => tasks[u].running
          /\ UNCHANGED <<tasks, queue, waiting>>
    /\ UNCHANGED <<userVars, commands, cache, started, overlapped, updating>>

\* finish_task: the update is over, arm the next one.
FinishTask ==
    /\ Received("TaskFinished")
    /\ LET u == Head(channel).uid IN
       \/ /\ u \in DOMAIN tasks
          /\ Slots({u}) # {}
          /\ LET slot == Slot({u}) IN
             /\ tasks' = [tasks EXCEPT ![u].running = FALSE, ![u].key = slot[u]]
             /\ queue' = queue \cup schedule_task({u}, slot, [v \in {u} |-> tasks[v].interval])
       \/ /\ u \notin DOMAIN tasks
          /\ UNCHANGED <<tasks, queue>>
    /\ UNCHANGED <<userVars, commands, cache, started, overlapped, jobVars>>

\* Mutant: the state keeps the key of the entry that expired.
RunExpiredTaskKeepsKey(u) ==
    /\ started
    /\ \E e \in queue : e.uid = u /\ queue' = queue \ {e}
    /\ IF u \in DOMAIN tasks
       THEN /\ tasks' = [tasks EXCEPT ![u].running = TRUE]
            /\ IF tasks[u].running THEN UNCHANGED waiting ELSE Spawn(u)
       ELSE UNCHANGED <<tasks, waiting>>
    /\ UNCHANGED <<userVars, commands, cache, started, channel, overlapped,
                   updating>>

\* run_expired_task: an entry of the queue expires; the state forgets its key
\* whichever entry it was.
RunExpiredTask(u) ==
    /\ started
    /\ \E e \in queue :
         /\ e.uid = u
         /\ queue' = queue \ {e}
    /\ \/ /\ u \in DOMAIN tasks
          /\ tasks' = [tasks EXCEPT ![u].key = NoKey, ![u].running = TRUE]
          /\ IF tasks[u].running THEN UNCHANGED waiting ELSE Spawn(u)
       \/ /\ u \notin DOMAIN tasks
          /\ UNCHANGED <<tasks, waiting>>
    /\ UNCHANGED <<userVars, commands, cache, started, channel, overlapped,
                   updating>>

------------------------------------------------------------------------------
(* An update task: it waits for the start-up to end (five seconds at most), *)
(* updates the profile (forty seconds at most) and reports.                 *)

StartUpdate(u) ==
    /\ waiting[u] > 0
    /\ waiting' = [waiting EXCEPT ![u] = @ - 1]
    /\ updating' = [updating EXCEPT ![u] = @ + 1]
    /\ UNCHANGED <<userVars, commands, cache, started, channel, schedVars>>

\* Mutant: an update that ends without an answer is not reported.
EndUpdateSilent(u) ==
    /\ updating[u] > 0
    /\ updating' = [updating EXCEPT ![u] = @ - 1]
    /\ \/ channel' = Append(channel, [type |-> "TaskFinished", uid |-> u])
       \/ UNCHANGED channel
    /\ UNCHANGED <<userVars, commands, cache, started, schedVars, waiting>>

EndUpdate(u) ==
    /\ updating[u] > 0
    /\ updating' = [updating EXCEPT ![u] = @ - 1]
    /\ channel' = Append(channel, [type |-> "TaskFinished", uid |-> u])
    /\ UNCHANGED <<userVars, commands, cache, started, schedVars, waiting>>

User(t) ==
    \E u \in Uid :
        \/ \E i \in Interval \cup {0} : PatchProfile(t, u, i)
        \/ \E i \in Interval : ImportProfile(t, u, i)
        \/ DeleteProfile(t, u)

Progress(t) ==
    \/ PatchSaved(t) \/ TimerInit(t)
    \/ RefreshRead(t) \/ RefreshInstall(t) \/ RefreshSend(t)
    \/ \E u \in Uid : RunOverdue(t, u)

Receive == Apply \/ RunTaskNow \/ FinishTask

Next ==
    \/ \E t \in Task : User(t) \/ Progress(t)
    \/ Receive
    \/ \E u \in Uid : RunExpiredTask(u) \/ StartUpdate(u) \/ EndUpdate(u)

Spec == Init /\ [][Next]_vars

\* Commands run to their end; the scheduler serves its channel and its queue;
\* every delay elapses; every update ends, at its timeout if not before.
Fairness ==
    /\ \A t \in Task : WF_vars(Progress(t))
    /\ WF_vars(Receive)
    /\ \A u \in Uid : /\ WF_vars(RunExpiredTask(u))
                      /\ WF_vars(StartUpdate(u))
                      /\ WF_vars(EndUpdate(u))

FairSpec == Spec /\ Fairness

------------------------------------------------------------------------------
(* Properties.                                                             *)

\* The key a task state holds is that of a queued entry of its own, armed
\* with its current interval: queue.remove and queue.reset never panic, and a
\* changed interval takes effect at once.
KeysLive ==
    \A u \in DOMAIN tasks : tasks[u].key # NoKey =>
        [key |-> tasks[u].key, uid |-> u, interval |-> tasks[u].interval] \in queue

\* Two entries never share a slot, and no two subscriptions share a key.
SlotsDistinct == \A d, e \in queue : d.key = e.key => d = e

Reported(u) == \E n \in 1 .. Len(channel) :
    channel[n].type = "TaskFinished" /\ channel[n].uid = u

\* No tracked subscription is forgotten: one that is not queued has an update
\* under way, or a report of its end on the way to the scheduler.
NotStalled ==
    \A u \in DOMAIN tasks :
        IF tasks[u].running
        THEN waiting[u] > 0 \/ updating[u] > 0 \/ Reported(u)
        ELSE tasks[u].key # NoKey

Inv == TypeOK /\ KeysLive /\ SlotsDistinct /\ NotStalled

\* A tracked subscription has exactly one turn: one queued entry, or one
\* update, or one report.  An untracked one has none.  The exception is a
\* subscription that was dropped while its update was running.
OneTurn ==
    \A u \in Uid \ overlapped :
        Cardinality({e \in queue : e.uid = u}) + waiting[u] + updating[u]
        + Cardinality({n \in 1 .. Len(channel) :
                          channel[n].type = "TaskFinished" /\ channel[n].uid = u})
        = IF u \in DOMAIN tasks THEN 1 ELSE 0

\* Nothing is under way between the settings and the scheduler.
Settled ==
    /\ started
    /\ \A t \in Task : commands[t].pc = "idle"
    /\ \A n \in 1 .. Len(channel) : channel[n].type # "Apply"

\* Once refreshes have settled, the scheduler tracks exactly the
\* subscriptions that want updates, at their interval; the paths that do not
\* refresh the timer are excepted.
SettingsScheduled ==
    Settled =>
        /\ cache = [u \in DOMAIN tasks |-> tasks[u].interval]
        /\ \A u \in Uid \ unannounced :
             IF settings[u] = 0 THEN u \notin DOMAIN tasks
             ELSE u \in DOMAIN tasks /\ tasks[u].interval = settings[u]

\* A subscription the settings keep enabled, and the timer was told of, is
\* updated again and again.
UpdatesRecur ==
    \A u \in Uid :
        <>[](settings[u] # 0 /\ u \notin unannounced) => []<>(updating[u] > 0)

==============================================================================
