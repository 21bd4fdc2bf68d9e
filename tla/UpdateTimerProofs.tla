-------------------------- MODULE UpdateTimerProofs --------------------------
(***************************************************************************)
(* Proofs about UpdateTimer, for any set of subscriptions, intervals,      *)
(* queue slots and concurrent commands.                                    *)
(***************************************************************************)
EXTENDS UpdateTimer, FiniteSetTheorems, SequenceTheorems, TLAPS

(* The maps and the slots.                                                 *)
LEMMA GenMapIsMap ==
    ASSUME settings \in [Uid -> Interval \cup {0}] PROVE gen_map \in Maps
  <1> DEFINE S == {v \in Uid : settings[v] # 0}
  <1>1. gen_map \in [S -> Interval]
    BY DEF gen_map
  <1> QED BY <1>1 DEF Maps

LEMMA NoMapIsMap == NoMap \in Maps
  BY DEF NoMap, Maps

LEMMA SlotFree ==
    ASSUME NEW S, Slots(S) # {}
    PROVE  /\ Slot(S) \in [S -> Key \ Live]
           /\ \A u, v \in S : Slot(S)[u] = Slot(S)[v] => u = v
  <1>1. Slot(S) \in Slots(S)
    BY DEF Slot
  <1> QED BY <1>1 DEF Slots, IsInjective

(* Receiving drops one message and keeps the others.                       *)
LEMMA ReceivedKeeps ==
    ASSUME NEW type, Received(type), channel \in Seq(Message)
    PROVE  /\ channel' \in Seq(Message)
           /\ Head(channel) \in Message
           /\ \A u : Reported(u) /\ (type # "TaskFinished" \/ Head(channel).uid # u)
                       => Reported(u)'
  <1>1. channel # << >> /\ channel' = Tail(channel) /\ Head(channel).type = type
    BY DEF Received
  <1>2. channel' \in Seq(Message) /\ Head(channel) \in Message
    BY <1>1, HeadTailProperties
  <1>3. ASSUME NEW u, Reported(u), type # "TaskFinished" \/ Head(channel).uid # u
        PROVE  Reported(u)'
    <2>1. PICK n \in 1 .. Len(channel) :
             channel[n].type = "TaskFinished" /\ channel[n].uid = u
      BY <1>3 DEF Reported
    <2>2. n # 1
      BY <2>1, <1>1, <1>3
    <2>3. n - 1 \in 1 .. Len(channel') /\ channel'[n - 1] = channel[n]
      BY <2>2, <1>1, HeadTailProperties
    <2> QED BY <2>1, <2>3 DEF Reported
  <1> QED BY <1>2, <1>3

LEMMA SendKeeps ==
    ASSUME NEW m \in Message, channel \in Seq(Message), channel' = Append(channel, m)
    PROVE  /\ channel' \in Seq(Message)
           /\ \A u : Reported(u) => Reported(u)'
           /\ m.type = "TaskFinished" => Reported(m.uid)'
  <1>1. /\ channel' \in Seq(Message)
        /\ Len(channel') = Len(channel) + 1
        /\ \A n \in 1 .. Len(channel) : channel'[n] = channel[n]
        /\ channel'[Len(channel) + 1] = m
    BY AppendProperties
  <1>2. Len(channel) \in Nat
    OBVIOUS
  <1> QED BY <1>1, <1>2 DEF Reported

LEMMA InvInit == Init => Inv
  <1> SUFFICES ASSUME Init PROVE Inv
    OBVIOUS
  <1>1. commands \in [Task -> Command]
    BY NoMapIsMap DEF Init, Command, Pc
  <1>2. UserTypes
    BY MaxEditsNat DEF Init, UserTypes
  <1>5. CommandTypes
    BY <1>1, NoMapIsMap DEF Init, CommandTypes
  <1>6. JobTypes /\ channel \in Seq(Message)
    BY DEF Init, JobTypes
  <1>3. SchedulerTypes
    <2>1. tasks \in [{} -> TaskState] /\ {} \in SUBSET Uid
      BY DEF Init, NoMap
    <2> QED BY <2>1 DEF Init, SchedulerTypes
  <1>4. KeysLive /\ SlotsDistinct /\ NotStalled
    BY DEF Init, KeysLive, SlotsDistinct, NotStalled, NoMap
  <1> QED BY <1>2, <1>3, <1>4, <1>5, <1>6 DEF Inv, TypeOK

(* A step that leaves the scheduler alone and takes nothing from the       *)
(* channel keeps what is said of the scheduler.                            *)
LEMMA SchedulerUntouched ==
    ASSUME KeysLive, SlotsDistinct, NotStalled, UNCHANGED schedVars,
           \A u \in Uid : waiting[u] > 0 \/ updating[u] > 0 \/ Reported(u)
                      => (waiting[u] > 0 \/ updating[u] > 0 \/ Reported(u))',
           DOMAIN tasks \subseteq Uid
    PROVE  KeysLive' /\ SlotsDistinct' /\ NotStalled'
  <1> USE DEF schedVars
  <1>1. KeysLive' /\ SlotsDistinct'
    BY DEF KeysLive, SlotsDistinct
  <1>2. NotStalled'
    BY DEF NotStalled
  <1> QED BY <1>1, <1>2

(* The commands change settings, never the scheduler.                      *)
LEMMA InvCommands ==
    ASSUME Inv, NEW t \in Task, User(t) \/ Progress(t)
    PROVE  Inv'
  <1> USE IntervalPositive, MaxEditsNat
  <1>a. /\ TypeOK /\ UserTypes /\ CommandTypes /\ SchedulerTypes /\ JobTypes
        /\ channel \in Seq(Message) /\ DOMAIN tasks \subseteq Uid
    BY DEF Inv, TypeOK, SchedulerTypes
  <1>b. ASSUME UNCHANGED <<schedVars, jobVars>>, UserTypes', CommandTypes',
               channel' \in Seq(Message), \A u : Reported(u) => Reported(u)'
        PROVE  Inv'
    <2>1. SchedulerTypes' /\ JobTypes'
      BY <1>a, <1>b DEF SchedulerTypes, JobTypes, schedVars, jobVars
    <2>2. KeysLive' /\ SlotsDistinct' /\ NotStalled'
      BY <1>a, <1>b, SchedulerUntouched DEF Inv, jobVars
    <2> QED BY <1>b, <2>1, <2>2 DEF Inv, TypeOK
  <1>c. UNCHANGED channel => channel' \in Seq(Message) /\ \A u : Reported(u) => Reported(u)'
    BY <1>a DEF Reported
  <1>1. CASE User(t)
    <2>1. UNCHANGED <<schedVars, jobVars, channel, cache, started>>
      BY <1>1 DEF User, PatchProfile, DeleteProfile, ImportProfile
    <2>2. UserTypes' /\ commands' \in [Task -> Command]
      <3>1. Begin(t) => edits' \in 0 .. MaxEdits
        BY <1>a DEF Begin, UserTypes
      <3>2. \E u \in Uid : \/ \E i \in Interval \cup {0} : PatchProfile(t, u, i)
                           \/ \E i \in Interval : ImportProfile(t, u, i)
                           \/ DeleteProfile(t, u)
        BY <1>1, Zenon DEF User
      <3>3. ASSUME NEW u \in Uid, NEW i \in Interval \cup {0}, PatchProfile(t, u, i)
            PROVE  UserTypes' /\ commands' \in [Task -> Command]
        <4>1. UserTypes'
          BY <3>1, <3>3, <1>a DEF PatchProfile, UserTypes
        <4>2. PICK b \in BOOLEAN :
                 Become(t, [commands[t] EXCEPT !.pc = "patch", !.uid = u, !.to = i,
                                               !.refresh = b])
          BY <3>3, Zenon DEF PatchProfile
        <4>3. commands' \in [Task -> Command]
          BY <4>2, <1>a DEF CommandTypes, Command, Pc, Become
        <4> QED BY <4>1, <4>3
      <3>4. ASSUME NEW u \in Uid, NEW i \in Interval, ImportProfile(t, u, i)
            PROVE  UserTypes' /\ commands' \in [Task -> Command]
        BY <3>1, <3>4, <1>a DEF ImportProfile, UserTypes, CommandTypes
      <3>5. ASSUME NEW u \in Uid, DeleteProfile(t, u)
            PROVE  UserTypes' /\ commands' \in [Task -> Command]
        <4>1. UserTypes'
          BY <3>1, <3>5, <1>a DEF DeleteProfile, UserTypes
        <4>2. commands' \in [Task -> Command]
          BY <3>5, <1>a DEF DeleteProfile, CommandTypes, Command, Pc, Become
        <4> QED BY <4>1, <4>2
      <3> QED BY <3>2, <3>3, <3>4, <3>5
    <2>3. CommandTypes'
      BY <2>1, <2>2, <1>a DEF CommandTypes
    <2> QED BY <2>1, <2>2, <2>3, <1>b, <1>c
  <1>2. CASE PatchSaved(t)
    <2>1. UserTypes'
      BY <1>2, <1>a DEF PatchSaved, UserTypes, CommandTypes, Command, Pc, Become
    <2>2. commands' \in [Task -> Command]
      <3>1. PICK pc \in Pc :
               Become(t, [commands[t] EXCEPT !.pc = pc, !.refresh = FALSE])
        BY <1>2 DEF PatchSaved, Pc
      <3> QED BY <3>1, <1>a DEF CommandTypes, Command, Become
    <2>3. CommandTypes'
      BY <2>2, <1>2, <1>a DEF PatchSaved, CommandTypes
    <2> QED BY <2>1, <2>3, <1>2, <1>b, <1>c DEF PatchSaved
  <1>3. CASE TimerInit(t)
    <2>1. UserTypes'
      BY <1>3, <1>a DEF TimerInit, UserTypes, userVars
    <2>2. commands' \in [Task -> Command]
      BY <1>3, <1>a DEF TimerInit, CommandTypes, Command, Pc, Become
    <2>3. CommandTypes'
      BY <2>2, <1>3, <1>a DEF TimerInit, CommandTypes
    <2> QED BY <2>1, <2>3, <1>3, <1>b, <1>c DEF TimerInit
  <1>4. CASE RefreshRead(t)
    <2>1. UserTypes'
      BY <1>4, <1>a DEF RefreshRead, UserTypes
    <2>2. gen_map \in Maps
      BY <1>a, GenMapIsMap DEF UserTypes
    <2>3. commands' \in [Task -> Command]
      BY <2>2, <1>4, <1>a DEF RefreshRead, CommandTypes, Command, Pc, Become
    <2>4. CommandTypes'
      BY <2>3, <1>4, <1>a DEF RefreshRead, CommandTypes
    <2> QED BY <2>1, <2>4, <1>4, <1>b, <1>c DEF RefreshRead
  <1>d. AfterRefresh(t) => commands' \in [Task -> Command]
    <2> SUFFICES ASSUME AfterRefresh(t) PROVE commands' \in [Task -> Command]
      OBVIOUS
    <2>1. PICK due \in SUBSET Uid, pc \in {"idle", "overdue"} :
             Become(t, [commands[t] EXCEPT !.pc = pc, !.map = NoMap,
                                           !.boot = FALSE, !.due = due])
      BY Zenon DEF AfterRefresh
    <2> QED BY <2>1, <1>a, NoMapIsMap DEF CommandTypes, Command, Pc, Become
  <1>5. CASE RefreshInstall(t)
    <2>1. UserTypes'
      BY <1>5, <1>a DEF RefreshInstall, UserTypes, userVars
    <2>2. CommandTypes'
      BY <1>5, <1>a, <1>d DEF RefreshInstall, CommandTypes, Command, Pc, Become
    <2> QED BY <2>1, <2>2, <1>5, <1>b, <1>c DEF RefreshInstall
  <1>6. CASE RefreshSend(t)
    <2>1. UserTypes' /\ CommandTypes'
      BY <1>6, <1>a, <1>d DEF RefreshSend, UserTypes, CommandTypes, userVars
    <2>2. [type |-> "Apply", map |-> commands[t].map] \in Message
      BY <1>a DEF CommandTypes, Command, Message
    <2>3. channel' \in Seq(Message) /\ \A u : Reported(u) => Reported(u)'
      BY <2>2, <1>6, <1>a, SendKeeps DEF RefreshSend
    <2> QED BY <2>1, <2>3, <1>6, <1>b DEF RefreshSend
  <1>7. ASSUME NEW u \in Uid, RunOverdue(t, u) PROVE Inv'
    <2>1. UserTypes'
      BY <1>7, <1>a DEF RunOverdue, UserTypes, userVars
    <2>4. commands' \in [Task -> Command]
      <3>1. PICK pc \in Pc :
               Become(t, [commands[t] EXCEPT !.due = commands[t].due \ {u}, !.pc = pc])
        BY <1>7, <1>a DEF RunOverdue, Pc, CommandTypes, Command
      <3>2. commands[t].due \ {u} \in SUBSET Uid
        BY <1>a DEF CommandTypes, Command
      <3> QED BY <3>1, <3>2, <1>a DEF CommandTypes, Command, Become
    <2>5. CommandTypes'
      BY <2>4, <1>7, <1>a DEF RunOverdue, CommandTypes
    <2>2. [type |-> "RunNow", uid |-> u] \in Message
      BY DEF Message
    <2>3. channel' \in Seq(Message) /\ \A v : Reported(v) => Reported(v)'
      BY <2>2, <1>7, <1>a, SendKeeps DEF RunOverdue
    <2> QED BY <2>1, <2>3, <2>5, <1>7, <1>b DEF RunOverdue
  <1> QED BY <1>1, <1>2, <1>3, <1>4, <1>5, <1>6, <1>7 DEF Progress

(* The scheduler's steps.                                                  *)
LEMMA InvApply == ASSUME Inv, Apply PROVE Inv'
  <1> DEFINE m       == Head(channel).map
             kept    == DOMAIN tasks \cap DOMAIN m
             changed == {u \in kept : tasks[u].interval # m[u]}
             idle    == {u \in changed : tasks[u].key = NoKey /\ ~tasks[u].running}
             arm     == (DOMAIN m \ DOMAIN tasks) \cup idle
             slot    == Slot(arm)
             rearmed == {tasks[u].key : u \in changed}
             gone    == {tasks[u].key : u \in DOMAIN tasks \ DOMAIN m}
             rest    == {q \in queue : q.key \notin gone}
             reset(e) == IF e.key \in rearmed THEN [e EXCEPT !.interval = m[e.uid]] ELSE e
             fresh   == schedule_task(arm, slot, m)
             state(u) == IF u \notin DOMAIN tasks
                         THEN [key |-> slot[u], interval |-> m[u], running |-> FALSE]
                         ELSE IF u \in changed
                         THEN [tasks[u] EXCEPT !.interval = m[u],
                                   !.key = IF u \in arm THEN slot[u] ELSE tasks[u].key]
                         ELSE tasks[u]
  <1>1. /\ TypeOK /\ SchedulerTypes /\ channel \in Seq(Message)
        /\ KeysLive /\ SlotsDistinct /\ NotStalled
    BY DEF Inv, TypeOK
  <1>2. PICK S \in SUBSET Uid : tasks \in [S -> TaskState]
    BY <1>1 DEF SchedulerTypes
  <1>3. PICK M \in SUBSET Uid : m \in [M -> Interval]
    BY <1>1, ReceivedKeeps DEF Apply, Message, Maps, Received
  <1>4. /\ Slots(arm) # {}
        /\ tasks' = [u \in DOMAIN m |-> state(u)]
        /\ queue' = {reset(e) : e \in rest} \cup fresh
        /\ overlapped' \subseteq overlapped \cup DOMAIN tasks
    BY DEF Apply, apply_timer_map, update_task_interval
  <1>5. slot \in [arm -> Key \ Live] /\ \A u, v \in arm : slot[u] = slot[v] => u = v
    <2> HIDE DEF arm
    <2> QED BY <1>4, SlotFree
  <1>6. \A u \in DOMAIN tasks : tasks[u].key # NoKey =>
           /\ tasks[u].key \in Live
           /\ \A v \in DOMAIN tasks : tasks[v].key = tasks[u].key => v = u
    BY <1>1 DEF KeysLive, SlotsDistinct, Live
  <1>7. UserTypes' /\ CommandTypes' /\ JobTypes'
    BY <1>1 DEF TypeOK, Apply, userVars, jobVars, UserTypes, CommandTypes, JobTypes
  <1>8. channel' \in Seq(Message) /\ \A u : Reported(u) => Reported(u)'
    BY <1>1, ReceivedKeeps DEF Apply
  <1>9. \A u \in DOMAIN tasks : tasks[u] \in TaskState /\ u \in Uid
    BY <1>2
  <1>10. DOMAIN m = M /\ \A u \in M : u \in Uid /\ m[u] \in Interval
    BY <1>3
  <1>11. \A u \in M : tasks'[u] = state(u)
    BY <1>4, <1>10
  <1>12. fresh = {[key |-> slot[u], uid |-> u, interval |-> m[u]] : u \in arm}
    BY DEF schedule_task
  <1>13. arm \subseteq M /\ changed \subseteq M
    BY <1>10
  <1>14. queue \subseteq Entry /\ \A e \in queue : e.key \in Live
    BY <1>1 DEF SchedulerTypes, Live
  <1> HIDE DEF arm, slot, fresh, m
  <1>22. queue' = {reset(q) : q \in rest} \cup fresh
    BY <1>4
  <1>15. \A u \in M : tasks'[u] \in TaskState
    <2> SUFFICES ASSUME NEW u \in M PROVE state(u) \in TaskState
      BY <1>11
    <2>1. CASE u \notin DOMAIN tasks
      <3>1. u \in arm
        BY <2>1, <1>10 DEF arm
      <3> QED BY <2>1, <3>1, <1>5, <1>10 DEF TaskState
    <2>2. CASE u \in DOMAIN tasks
      BY <2>2, <1>5, <1>9, <1>10 DEF TaskState
    <2> QED BY <2>1, <2>2
  <1>16. \A e \in rest : reset(e) \in Entry /\ reset(e).key = e.key /\ reset(e).uid = e.uid
    <2> SUFFICES ASSUME NEW e \in rest
                 PROVE  reset(e) \in Entry /\ reset(e).key = e.key /\ reset(e).uid = e.uid
      OBVIOUS
    <2>1. e \in Entry /\ e \in queue
      BY <1>14
    <2>2. CASE e.key \notin rearmed
      BY <2>1, <2>2
    <2>3. CASE e.key \in rearmed
      <3>1. PICK u \in changed : tasks[u].key = e.key
        BY <2>3
      <3>2. tasks[u].key # NoKey
        BY <3>1, <2>1, NoKeyIsNone DEF Entry
      <3>3. [key |-> tasks[u].key, uid |-> u, interval |-> tasks[u].interval] \in queue
        BY <3>1, <3>2, <1>1 DEF KeysLive
      <3>4. e.uid = u
        BY <3>1, <3>3, <2>1, <1>1 DEF SlotsDistinct
      <3>5. m[e.uid] \in Interval
        BY <3>4, <3>1, <1>10, <1>13
      <3> QED BY <2>1, <2>3, <3>5 DEF Entry
    <2> QED BY <2>2, <2>3
  <1>17. fresh \subseteq Entry
    BY <1>5, <1>10, <1>12, <1>13 DEF Entry
  <1>18. SchedulerTypes'
    <2>1. tasks' \in [M -> TaskState]
      BY <1>4, <1>10, <1>15
    <2>2. queue' \subseteq Entry
      BY <1>4, <1>16, <1>17
    <2> QED BY <2>1, <2>2, <1>1, <1>4, <1>9 DEF SchedulerTypes
  <1>19. KeysLive'
    <2> SUFFICES ASSUME NEW u \in M, tasks'[u].key # NoKey
                 PROVE  [key |-> tasks'[u].key, uid |-> u,
                         interval |-> tasks'[u].interval] \in queue'
      BY <1>4, <1>10 DEF KeysLive
    <2>1. CASE u \in arm
      <3>1. tasks'[u].key = slot[u] /\ tasks'[u].interval = m[u]
        <4>1. CASE u \notin DOMAIN tasks
          <5>1. tasks'[u] = [key |-> slot[u], interval |-> m[u], running |-> FALSE]
            BY <4>1, <1>11
          <5> QED BY <5>1
        <4>2. CASE u \in DOMAIN tasks
          <5>1. u \in changed
            BY <2>1, <4>2 DEF arm
          <5> QED BY <2>1, <4>2, <5>1, <1>9, <1>11 DEF TaskState
        <4> QED BY <4>1, <4>2
      <3>2. [key |-> slot[u], uid |-> u, interval |-> m[u]] \in fresh
        BY <2>1, <1>12
      <3> QED BY <3>1, <3>2, <1>22, Zenon
    <2>2. CASE u \notin arm
      <3> DEFINE e == [key |-> tasks[u].key, uid |-> u, interval |-> tasks[u].interval]
      <3>1. u \in DOMAIN tasks
        BY <2>2, <1>10 DEF arm
      <3>2. tasks'[u].key = tasks[u].key
        BY <2>2, <3>1, <1>9, <1>11 DEF TaskState
      <3>3. e \in queue
        BY <3>1, <3>2, <1>1 DEF KeysLive
      <3>4. e.key \notin gone
        BY <3>1, <3>2, <1>6, <1>10
      <3>5. e \in rest
        BY <3>3, <3>4
      <3>6. reset(e) = [key |-> tasks'[u].key, uid |-> u, interval |-> tasks'[u].interval]
        <4>1. CASE u \in changed
          <5>1. e.key \in rearmed
            BY <4>1
          <5>2. tasks'[u].interval = m[u]
            BY <4>1, <3>1, <1>9, <1>11 DEF TaskState
          <5> QED BY <5>1, <5>2, <3>2
        <4>2. CASE u \notin changed
          <5>1. e.key \notin rearmed
            BY <4>2, <3>1, <3>2, <1>6
          <5>2. tasks'[u] = tasks[u]
            BY <4>2, <3>1, <1>11
          <5> QED BY <5>1, <5>2
        <4> QED BY <4>1, <4>2
      <3>7. reset(e) \in {reset(q) : q \in rest}
        BY <3>5
      <3> QED BY <3>6, <3>7, <1>22, Zenon
    <2> QED BY <2>1, <2>2
  <1>20. SlotsDistinct'
    <2> SUFFICES ASSUME NEW d \in queue', NEW e \in queue', d.key = e.key PROVE d = e
      BY DEF SlotsDistinct
    <2>1. \A f \in fresh : f.key \notin Live
      BY <1>5, <1>12
    <2>2. \A f \in rest : reset(f).key \in Live
      BY <1>14, <1>16
    <2>3. CASE d \in fresh /\ e \in fresh
      <3>1. PICK u \in arm : d = [key |-> slot[u], uid |-> u, interval |-> m[u]]
        BY <2>3, <1>12
      <3>2. PICK v \in arm : e = [key |-> slot[v], uid |-> v, interval |-> m[v]]
        BY <2>3, <1>12
      <3>3. u = v
        BY <3>1, <3>2, <1>5
      <3> QED BY <3>1, <3>2, <3>3
    <2>4. CASE d \notin fresh /\ e \notin fresh
      <3>1. PICK f \in rest : d = reset(f)
        BY <2>4, <1>4
      <3>2. PICK g \in rest : e = reset(g)
        BY <2>4, <1>4
      <3>3. f = g
        BY <3>1, <3>2, <1>1, <1>16 DEF SlotsDistinct
      <3> QED BY <3>1, <3>2, <3>3
    <2> QED BY <2>1, <2>2, <2>3, <2>4, <1>4
  <1>21. NotStalled'
    <2> SUFFICES ASSUME NEW u \in M
                 PROVE  IF tasks'[u].running
                        THEN waiting'[u] > 0 \/ updating'[u] > 0 \/ Reported(u)'
                        ELSE tasks'[u].key # NoKey
      BY <1>4, <1>10 DEF NotStalled
    <2>1. CASE u \notin DOMAIN tasks
      <3>1. u \in arm
        BY <2>1, <1>10 DEF arm
      <3>2. slot[u] \in Key
        BY <3>1, <1>5
      <3>3. tasks'[u] = [key |-> slot[u], interval |-> m[u], running |-> FALSE]
        BY <2>1, <1>11
      <3> QED BY <3>2, <3>3, NoKeyIsNone
    <2>2. CASE u \in DOMAIN tasks
      <3>1. tasks'[u].running = tasks[u].running
        BY <2>2, <1>9, <1>11 DEF TaskState
      <3>2. ~tasks[u].running => tasks'[u].key # NoKey
        BY <2>2, <1>1, <1>5, <1>9, <1>11, NoKeyIsNone DEF NotStalled, TaskState, arm
      <3> QED BY <2>2, <3>1, <3>2, <1>1, <1>8 DEF NotStalled, Apply, jobVars
    <2> QED BY <2>1, <2>2
  <1> QED BY <1>7, <1>8, <1>18, <1>19, <1>20, <1>21 DEF Inv, TypeOK

LEMMA InvRunTaskNow == ASSUME Inv, RunTaskNow PROVE Inv'
  <1> DEFINE u == Head(channel).uid
  <1>1. /\ TypeOK /\ SchedulerTypes /\ JobTypes /\ channel \in Seq(Message)
        /\ KeysLive /\ SlotsDistinct /\ NotStalled
    BY DEF Inv, TypeOK
  <1>2. PICK S \in SUBSET Uid : tasks \in [S -> TaskState]
    BY <1>1 DEF SchedulerTypes
  <1>3. /\ channel' \in Seq(Message) /\ \A v : Reported(v) => Reported(v)'
        /\ u \in Uid
    BY <1>1, ReceivedKeeps DEF RunTaskNow, Message, Received
  <1>4. UserTypes' /\ CommandTypes'
    BY <1>1 DEF TypeOK, RunTaskNow, userVars, UserTypes, CommandTypes
  <1>5. UNCHANGED updating /\ overlapped' = overlapped
    BY DEF RunTaskNow
  <1>6. CASE /\ u \in DOMAIN tasks
             /\ ~tasks[u].running
             /\ tasks' = [tasks EXCEPT ![u].running = TRUE, ![u].key = NoKey]
             /\ queue' = {e \in queue : e.key # tasks[u].key}
             /\ Spawn(u)
    <2> HIDE DEF u
    <2>1. tasks' \in [S -> TaskState]
      BY <1>2, <1>6 DEF TaskState
    <2>2. SchedulerTypes' /\ JobTypes'
      BY <1>1, <1>3, <1>5, <1>6, <2>1 DEF SchedulerTypes, JobTypes, Spawn
    <2>3. KeysLive'
      <3> SUFFICES ASSUME NEW v \in S, tasks'[v].key # NoKey
                   PROVE  [key |-> tasks'[v].key, uid |-> v,
                           interval |-> tasks'[v].interval] \in queue'
        BY <2>1 DEF KeysLive
      <3>1. v # u /\ tasks'[v] = tasks[v]
        BY <1>2, <1>6 DEF TaskState
      <3>2. [key |-> tasks[v].key, uid |-> v, interval |-> tasks[v].interval] \in queue
        BY <3>1, <1>1, <1>2 DEF KeysLive
      <3>3. tasks[v].key # tasks[u].key
        BY <3>1, <3>2, <1>1, <1>2, <1>6 DEF KeysLive, SlotsDistinct
      <3> QED BY <3>1, <3>2, <3>3, <1>6
    <2>4. SlotsDistinct'
      BY <1>1, <1>6 DEF SlotsDistinct
    <2>5. NotStalled'
      BY <1>1, <1>2, <1>3, <1>5, <1>6, <2>1 DEF NotStalled, JobTypes, Spawn, TaskState
    <2> QED BY <1>3, <1>4, <2>2, <2>3, <2>4, <2>5 DEF Inv, TypeOK
  <1>7. CASE UNCHANGED <<tasks, queue, waiting>>
    <2>1. SchedulerTypes' /\ JobTypes'
      BY <1>1, <1>5, <1>7 DEF SchedulerTypes, JobTypes
    <2>2. KeysLive' /\ SlotsDistinct' /\ NotStalled'
      BY <1>1, <1>3, <1>5, <1>7 DEF KeysLive, SlotsDistinct, NotStalled
    <2> QED BY <1>3, <1>4, <2>1, <2>2 DEF Inv, TypeOK
  <1> QED BY <1>6, <1>7 DEF RunTaskNow

LEMMA InvFinishTask == ASSUME Inv, FinishTask PROVE Inv'
  <1> DEFINE u == Head(channel).uid
             slot == Slot({u})
             fresh == [key |-> slot[u], uid |-> u, interval |-> tasks[u].interval]
  <1>1. /\ TypeOK /\ SchedulerTypes /\ channel \in Seq(Message)
        /\ KeysLive /\ SlotsDistinct /\ NotStalled
    BY DEF Inv, TypeOK
  <1>2. PICK S \in SUBSET Uid : tasks \in [S -> TaskState]
    BY <1>1 DEF SchedulerTypes
  <1>3. /\ channel' \in Seq(Message)
        /\ \A v : Reported(v) /\ v # u => Reported(v)'
        /\ u \in Uid
    BY <1>1, ReceivedKeeps DEF FinishTask, Message, Received
  <1>4. UserTypes' /\ CommandTypes' /\ JobTypes'
    BY <1>1 DEF TypeOK, FinishTask, userVars, jobVars, UserTypes, CommandTypes, JobTypes
  <1>5. UNCHANGED <<waiting, updating, overlapped>>
    BY DEF FinishTask, jobVars
  <1>6. CASE /\ u \in DOMAIN tasks
             /\ Slots({u}) # {}
             /\ tasks' = [tasks EXCEPT ![u].running = FALSE, ![u].key = slot[u]]
             /\ queue' = queue \cup schedule_task({u}, slot, [v \in {u} |-> tasks[v].interval])
    <2>1. slot[u] \in Key /\ slot[u] \notin Live
      BY <1>6, SlotFree
    <2>2. queue' = queue \cup {fresh}
      BY <1>6 DEF schedule_task
    <2> HIDE DEF u, slot
    <2>3. tasks' \in [S -> TaskState]
      BY <1>2, <1>6, <2>1 DEF TaskState
    <2>4. fresh \in Entry
      BY <1>2, <1>3, <1>6, <2>1 DEF TaskState, Entry
    <2>5. SchedulerTypes'
      BY <1>1, <1>5, <2>2, <2>3, <2>4 DEF SchedulerTypes
    <2>6. KeysLive'
      BY <1>1, <1>2, <1>6, <2>2, <2>3 DEF KeysLive, TaskState
    <2>7. SlotsDistinct'
      BY <1>1, <2>1, <2>2 DEF SlotsDistinct, Live
    <2>8. NotStalled'
      BY <1>1, <1>2, <1>3, <1>5, <1>6, <2>1, <2>3, NoKeyIsNone DEF NotStalled, TaskState
    <2> QED BY <1>3, <1>4, <2>5, <2>6, <2>7, <2>8 DEF Inv, TypeOK
  <1>7. CASE u \notin DOMAIN tasks /\ UNCHANGED <<tasks, queue>>
    <2>1. SchedulerTypes'
      BY <1>1, <1>5, <1>7 DEF SchedulerTypes
    <2>2. KeysLive' /\ SlotsDistinct' /\ NotStalled'
      BY <1>1, <1>3, <1>5, <1>7 DEF KeysLive, SlotsDistinct, NotStalled
    <2> QED BY <1>3, <1>4, <2>1, <2>2 DEF Inv, TypeOK
  <1> QED BY <1>6, <1>7 DEF FinishTask

LEMMA InvRunExpiredTask ==
    ASSUME Inv, NEW u \in Uid, RunExpiredTask(u) PROVE Inv'
  <1>1. /\ TypeOK /\ SchedulerTypes /\ JobTypes /\ channel \in Seq(Message)
        /\ KeysLive /\ SlotsDistinct /\ NotStalled
    BY DEF Inv, TypeOK
  <1>2. PICK S \in SUBSET Uid : tasks \in [S -> TaskState]
    BY <1>1 DEF SchedulerTypes
  <1>3. PICK e \in queue : e.uid = u /\ queue' = queue \ {e}
    BY DEF RunExpiredTask
  <1>4. UserTypes' /\ CommandTypes' /\ channel' \in Seq(Message)
    BY <1>1 DEF TypeOK, RunExpiredTask, userVars, UserTypes, CommandTypes
  <1>5. UNCHANGED <<channel, updating, overlapped>> /\ \A v : Reported(v) => Reported(v)'
    BY DEF RunExpiredTask, Reported
  <1>6. SlotsDistinct'
    BY <1>1, <1>3 DEF SlotsDistinct
  <1>7. CASE /\ u \in DOMAIN tasks
             /\ tasks' = [tasks EXCEPT ![u].key = NoKey, ![u].running = TRUE]
             /\ IF tasks[u].running THEN UNCHANGED waiting ELSE Spawn(u)
    <2>1. tasks' \in [S -> TaskState]
      BY <1>2, <1>7 DEF TaskState
    <2>2. JobTypes'
      BY <1>1, <1>5, <1>7 DEF JobTypes, Spawn
    <2>3. SchedulerTypes'
      BY <1>1, <1>3, <1>5, <2>1 DEF SchedulerTypes
    <2>4. KeysLive'
      BY <1>1, <1>2, <1>3, <1>7, <2>1 DEF KeysLive, TaskState
    <2>5. NotStalled'
      <3> SUFFICES ASSUME NEW v \in S
                   PROVE  IF tasks'[v].running
                          THEN waiting'[v] > 0 \/ updating'[v] > 0 \/ Reported(v)'
                          ELSE tasks'[v].key # NoKey
        BY <2>1 DEF NotStalled
      <3>1. CASE v = u /\ ~tasks[u].running
        <4>1. waiting'[u] = waiting[u] + 1 /\ waiting[u] \in Nat
          BY <3>1, <1>1, <1>7 DEF JobTypes, Spawn
        <4>2. tasks'[u].running
          BY <1>2, <1>7 DEF TaskState
        <4> QED BY <3>1, <4>1, <4>2
      <3>2. CASE v = u /\ tasks[u].running
        BY <3>2, <1>1, <1>2, <1>5, <1>7 DEF NotStalled, TaskState
      <3>3. CASE v # u
        <4>1. tasks'[v] = tasks[v] /\ waiting'[v] = waiting[v]
          BY <3>3, <1>1, <1>2, <1>7 DEF JobTypes, Spawn
        <4> QED BY <4>1, <1>1, <1>2, <1>5 DEF NotStalled
      <3> QED BY <3>1, <3>2, <3>3
    <2> QED BY <1>4, <1>6, <2>2, <2>3, <2>4, <2>5 DEF Inv, TypeOK
  <1>8. CASE u \notin DOMAIN tasks /\ UNCHANGED <<tasks, waiting>>
    <2>1. SchedulerTypes' /\ JobTypes'
      BY <1>1, <1>3, <1>5, <1>8 DEF SchedulerTypes, JobTypes
    <2>2. KeysLive' /\ NotStalled'
      BY <1>1, <1>3, <1>5, <1>8 DEF KeysLive, NotStalled
    <2> QED BY <1>4, <1>6, <2>1, <2>2 DEF Inv, TypeOK
  <1> QED BY <1>7, <1>8 DEF RunExpiredTask

(* An update that starts, or ends and is reported, is not lost sight of.   *)
LEMMA InvUpdates ==
    ASSUME Inv, NEW u \in Uid, StartUpdate(u) \/ EndUpdate(u) PROVE Inv'
  <1>1. /\ TypeOK /\ SchedulerTypes /\ JobTypes /\ channel \in Seq(Message)
        /\ KeysLive /\ SlotsDistinct /\ NotStalled /\ DOMAIN tasks \subseteq Uid
    BY DEF Inv, TypeOK, SchedulerTypes
  <1>2. UserTypes' /\ CommandTypes' /\ UNCHANGED schedVars
    BY <1>1 DEF TypeOK, StartUpdate, EndUpdate, userVars, UserTypes, CommandTypes
  <1>3. SchedulerTypes'
    BY <1>1, <1>2 DEF SchedulerTypes, schedVars
  <1>4. JobTypes'
    <2>1. CASE StartUpdate(u)
      BY <2>1, <1>1 DEF JobTypes, StartUpdate
    <2>2. CASE EndUpdate(u)
      BY <2>2, <1>1 DEF JobTypes, EndUpdate
    <2> QED BY <2>1, <2>2
  <1>5. /\ channel' \in Seq(Message)
        /\ \A v : Reported(v) => Reported(v)'
        /\ EndUpdate(u) => Reported(u)'
    <2>1. CASE StartUpdate(u)
      <3>1. ~EndUpdate(u)
        BY <2>1, <1>1 DEF StartUpdate, EndUpdate, JobTypes
      <3> QED BY <2>1, <3>1, <1>1 DEF StartUpdate, Reported
    <2>2. CASE EndUpdate(u)
      <3>1. [type |-> "TaskFinished", uid |-> u] \in Message
        BY DEF Message
      <3> QED BY <2>2, <3>1, <1>1, SendKeeps DEF EndUpdate
    <2> QED BY <2>1, <2>2
  <1>6. ASSUME NEW v \in Uid, waiting[v] > 0 \/ updating[v] > 0 \/ Reported(v)
        PROVE  (waiting[v] > 0 \/ updating[v] > 0 \/ Reported(v))'
    <2>1. CASE StartUpdate(u)
      BY <2>1, <1>1, <1>5, <1>6 DEF StartUpdate, JobTypes
    <2>2. CASE EndUpdate(u)
      BY <2>2, <1>1, <1>5, <1>6 DEF EndUpdate, JobTypes
    <2> QED BY <2>1, <2>2
  <1>7. KeysLive' /\ SlotsDistinct' /\ NotStalled'
    BY <1>1, <1>2, <1>6, SchedulerUntouched
  <1> QED BY <1>2, <1>3, <1>4, <1>5, <1>7 DEF Inv, TypeOK

LEMMA InvStutter == ASSUME Inv, UNCHANGED vars PROVE Inv'
  BY DEF Inv, TypeOK, UserTypes, CommandTypes, SchedulerTypes, JobTypes, KeysLive,
         SlotsDistinct, NotStalled, Reported, vars, userVars, schedVars, jobVars

(* The delay queue never sees a key it does not hold, and no tracked       *)
(* subscription is forgotten: however commands, refreshes, updates and     *)
(* removals interleave, it is queued, or an update will report and queue   *)
(* it again.                                                               *)
THEOREM InvHolds == Spec => []Inv
  <1>1. Init => Inv
    BY InvInit
  <1>2. Inv /\ [Next]_vars => Inv'
    <2> SUFFICES ASSUME Inv, [Next]_vars PROVE Inv'
      OBVIOUS
    <2>1. ASSUME NEW t \in Task, User(t) \/ Progress(t) PROVE Inv'
      BY <2>1, InvCommands
    <2>2. CASE Receive
      BY <2>2, InvApply, InvRunTaskNow, InvFinishTask DEF Receive
    <2>3. ASSUME NEW u \in Uid, RunExpiredTask(u) \/ StartUpdate(u) \/ EndUpdate(u)
          PROVE  Inv'
      BY <2>3, InvRunExpiredTask, InvUpdates
    <2>4. CASE UNCHANGED vars
      BY <2>4, InvStutter
    <2> QED BY <2>1, <2>2, <2>3, <2>4 DEF Next
  <1> QED BY <1>1, <1>2, PTL DEF Spec

\* The two parts of the invariant a reader should know of.
COROLLARY NothingStalls == Spec => []NotStalled
  <1>1. Inv => NotStalled
    BY DEF Inv
  <1> QED BY <1>1, InvHolds, PTL

COROLLARY KeysStayLive == Spec => []KeysLive
  <1>1. Inv => KeysLive
    BY DEF Inv
  <1> QED BY <1>1, InvHolds, PTL

-----------------------------------------------------------------------------
(* One turn.  OneTurn counts entries, updates and reports.  What is        *)
(* inductive says which of the three there is, and that `running' tells:   *)
(* a count alone would let an entry stand for an update.                   *)

Entries(u) == {e \in queue : e.uid = u}

Reports(u) == {n \in 1 .. Len(channel) :
                 channel[n].type = "TaskFinished" /\ channel[n].uid = u}

NoEntry(u) == Entries(u) = {}
OneEntry(u) == \E e \in queue : Entries(u) = {e}
NoReport(u) == Reports(u) = {}
OneReport(u) == \E n \in Reports(u) : Reports(u) = {n}

NoUpdate(u) == waiting[u] = 0 /\ updating[u] = 0 /\ NoReport(u)

\* Exactly one update of u: about to start, running, or reported.
OneUpdate(u) ==
    \/ waiting[u] = 1 /\ updating[u] = 0 /\ NoReport(u)
    \/ waiting[u] = 0 /\ updating[u] = 1 /\ NoReport(u)
    \/ waiting[u] = 0 /\ updating[u] = 0 /\ OneReport(u)

Turn(u) ==
    \/ u \notin DOMAIN tasks /\ NoEntry(u) /\ NoUpdate(u)
    \/ u \in DOMAIN tasks /\ ~tasks[u].running /\ OneEntry(u) /\ NoUpdate(u)
    \/ u \in DOMAIN tasks /\ tasks[u].running /\ NoEntry(u) /\ OneUpdate(u)

Turns == \A u \in Uid \ overlapped : Turn(u)

(* The reports in the channel, as messages arrive at its end and leave at  *)
(* its head.                                                               *)
LEMMA ReportsSent ==
    ASSUME NEW m \in Message, channel \in Seq(Message), channel' = Append(channel, m),
           NEW u
    PROVE  IF m.type = "TaskFinished" /\ m.uid = u
           THEN NoReport(u) => OneReport(u)'
           ELSE (NoReport(u) => NoReport(u)') /\ (OneReport(u) => OneReport(u)')
  <1>1. /\ Len(channel') = Len(channel) + 1 /\ Len(channel) \in Nat
        /\ \A n \in 1 .. Len(channel) : channel'[n] = channel[n]
        /\ channel'[Len(channel) + 1] = m
    BY AppendProperties
  <1>2. CASE m.type = "TaskFinished" /\ m.uid = u
    <2>1. Reports(u)' = Reports(u) \cup {Len(channel) + 1}
      BY <1>1, <1>2 DEF Reports
    <2> QED BY <1>2, <2>1 DEF NoReport, OneReport
  <1>3. CASE ~(m.type = "TaskFinished" /\ m.uid = u)
    <2>1. Reports(u)' = Reports(u)
      BY <1>1, <1>3 DEF Reports
    <2> QED BY <1>3, <2>1 DEF NoReport, OneReport
  <1> QED BY <1>2, <1>3

LEMMA ReportsReceived ==
    ASSUME NEW type, Received(type), channel \in Seq(Message), NEW u
    PROVE  IF type = "TaskFinished" /\ Head(channel).uid = u
           THEN ~NoReport(u) /\ (OneReport(u) => NoReport(u)')
           ELSE (NoReport(u) => NoReport(u)') /\ (OneReport(u) => OneReport(u)')
  <1>1. /\ channel # << >> /\ channel[1].type = type /\ Head(channel) = channel[1]
        /\ Len(channel) \in Nat /\ Len(channel) # 0
        /\ Len(channel') = Len(channel) - 1
        /\ \A n \in 1 .. Len(channel') : channel'[n] = channel[n + 1]
    BY HeadTailProperties DEF Received
  <1>2. \A n : n \in Reports(u)' <=> n + 1 \in Reports(u) /\ n \in 1 .. Len(channel')
    BY <1>1 DEF Reports
  <1>3. \A n \in Reports(u) : n \in Nat /\ (n = 1 \/ n - 1 \in 1 .. Len(channel'))
    BY <1>1 DEF Reports
  <1>4. CASE type = "TaskFinished" /\ Head(channel).uid = u
    <2>1. 1 \in Reports(u)
      BY <1>1, <1>4 DEF Reports
    <2>2. OneReport(u) => NoReport(u)'
      <3> SUFFICES ASSUME NEW k \in Reports(u), Reports(u) = {k}, NEW n \in Reports(u)'
                   PROVE  FALSE
        BY DEF OneReport, NoReport
      <3>1. n + 1 \in Reports(u) /\ n \in 1 .. Len(channel')
        BY <1>2
      <3> QED BY <3>1, <2>1
    <2> QED BY <1>4, <2>1, <2>2 DEF NoReport
  <1>5. CASE ~(type = "TaskFinished" /\ Head(channel).uid = u)
    <2>1. 1 \notin Reports(u)
      BY <1>1, <1>5 DEF Reports
    <2>2. NoReport(u) => NoReport(u)'
      BY <1>2 DEF NoReport
    <2>3. OneReport(u) => OneReport(u)'
      <3> SUFFICES ASSUME NEW k \in Reports(u), Reports(u) = {k}
                   PROVE  OneReport(u)'
        BY DEF OneReport
      <3>1. k \in Nat /\ k - 1 \in 1 .. Len(channel') /\ (k - 1) + 1 = k
        BY <2>1, <1>3
      <3>2. k - 1 \in Reports(u)'
        BY <3>1, <1>2
      <3>3. ASSUME NEW n \in Reports(u)' PROVE n = k - 1
        <4>1. n + 1 \in Reports(u) /\ n \in 1 .. Len(channel')
          BY <1>2
        <4> QED BY <4>1, <3>1
      <3>4. Reports(u)' = {k - 1}
        BY <3>2, <3>3
      <3> QED BY <3>2, <3>4 DEF OneReport
    <2> QED BY <1>5, <2>2, <2>3
  <1> QED BY <1>4, <1>5

(* A step that changes neither a subscription's state nor what it has      *)
(* under way keeps its turn.                                               *)
LEMMA TurnKept ==
    ASSUME NEW u, Turn(u),
           NoReport(u) => NoReport(u)', OneReport(u) => OneReport(u)',
           NoEntry(u) => NoEntry(u)', OneEntry(u) => OneEntry(u)',
           waiting'[u] = waiting[u], updating'[u] = updating[u],
           u \in DOMAIN tasks <=> u \in DOMAIN tasks',
           u \in DOMAIN tasks => tasks'[u].running = tasks[u].running
    PROVE  Turn(u)'
  BY DEF Turn, NoUpdate, OneUpdate

LEMMA TurnsInit == Init => Turns
  BY DEF Init, Turns, Turn, NoUpdate, NoReport, Reports, NoEntry, Entries, NoMap

(* Commands send the scheduler no report.                                  *)
LEMMA TurnsCommands ==
    ASSUME Inv, Turns, NEW t \in Task, User(t) \/ Progress(t)
    PROVE  Turns'
  <1>1. channel \in Seq(Message) /\ CommandTypes
    BY DEF Inv, TypeOK
  <1>2. UNCHANGED <<schedVars, jobVars>>
    BY DEF User, Progress, PatchProfile, DeleteProfile, ImportProfile, PatchSaved,
           TimerInit, RefreshRead, RefreshInstall, RefreshSend, RunOverdue
  <1>3. \/ UNCHANGED channel
        \/ \E m \in Message : m.type # "TaskFinished" /\ channel' = Append(channel, m)
    <2>1. CASE User(t) \/ PatchSaved(t) \/ TimerInit(t) \/ RefreshRead(t) \/ RefreshInstall(t)
      BY <2>1 DEF User, PatchProfile, DeleteProfile, ImportProfile, PatchSaved,
                  TimerInit, RefreshRead, RefreshInstall
    <2>2. CASE RefreshSend(t)
      <3>1. [type |-> "Apply", map |-> commands[t].map] \in Message
        BY <1>1 DEF CommandTypes, Command, Message
      <3> QED BY <3>1, <2>2 DEF RefreshSend
    <2>3. ASSUME NEW u \in Uid, RunOverdue(t, u)
          PROVE  \E m \in Message : m.type # "TaskFinished" /\ channel' = Append(channel, m)
      <3>1. [type |-> "RunNow", uid |-> u] \in Message
        BY DEF Message
      <3> QED BY <3>1, <2>3 DEF RunOverdue
    <2> QED BY <2>1, <2>2, <2>3 DEF Progress
  <1>4. SUFFICES ASSUME NEW u \in Uid \ overlapped PROVE Turn(u)'
    BY <1>2 DEF Turns, schedVars
  <1>5. (NoReport(u) => NoReport(u)') /\ (OneReport(u) => OneReport(u)')
    <2>1. CASE UNCHANGED channel
      BY <2>1 DEF NoReport, OneReport, Reports
    <2>2. ASSUME NEW m \in Message, m.type # "TaskFinished", channel' = Append(channel, m)
          PROVE  (NoReport(u) => NoReport(u)') /\ (OneReport(u) => OneReport(u)')
      BY <2>2, <1>1, ReportsSent
    <2> QED BY <1>3, <2>1, <2>2
  <1>6. (NoEntry(u) => NoEntry(u)') /\ (OneEntry(u) => OneEntry(u)')
    BY <1>2 DEF NoEntry, OneEntry, Entries, schedVars
  <1>7. /\ waiting'[u] = waiting[u] /\ updating'[u] = updating[u]
        /\ tasks' = tasks
    BY <1>2 DEF schedVars, jobVars
  <1> QED BY <1>5, <1>6, <1>7, TurnKept DEF Turns

LEMMA TurnsStutter == ASSUME Turns, UNCHANGED vars PROVE Turns'
  BY DEF Turns, Turn, NoUpdate, OneUpdate, NoReport, OneReport, Reports, NoEntry,
         OneEntry, Entries, vars, schedVars, jobVars

(* Starting an update and reporting its end move the turn along.           *)
LEMMA TurnsUpdates ==
    ASSUME Inv, Turns, NEW v \in Uid, StartUpdate(v) \/ EndUpdate(v)
    PROVE  Turns'
  <1>1. channel \in Seq(Message) /\ waiting \in [Uid -> Nat] /\ updating \in [Uid -> Nat]
    BY DEF Inv, TypeOK, JobTypes
  <1>2. UNCHANGED schedVars
    BY DEF StartUpdate, EndUpdate
  <1>3. SUFFICES ASSUME NEW u \in Uid \ overlapped PROVE Turn(u)'
    BY <1>2 DEF Turns, schedVars
  <1>4. Turn(u)
    BY DEF Turns
  <1>5. (NoEntry(u) => NoEntry(u)') /\ (OneEntry(u) => OneEntry(u)') /\ tasks' = tasks
    BY <1>2 DEF NoEntry, OneEntry, Entries, schedVars
  <1>6. CASE StartUpdate(v)
    <2>1. (NoReport(u) => NoReport(u)') /\ (OneReport(u) => OneReport(u)')
      BY <1>6 DEF StartUpdate, NoReport, OneReport, Reports
    <2>2. CASE u # v
      <3>1. waiting'[u] = waiting[u] /\ updating'[u] = updating[u]
        BY <2>2, <1>1, <1>6 DEF StartUpdate
      <3> QED BY <3>1, <2>1, <1>4, <1>5, TurnKept
    <2>3. CASE u = v
      <3>1. /\ waiting[u] > 0 /\ waiting'[u] = waiting[u] - 1
            /\ updating'[u] = updating[u] + 1
        BY <2>3, <1>1, <1>6 DEF StartUpdate
      <3>2. u \in DOMAIN tasks /\ tasks[u].running /\ NoEntry(u) /\ OneUpdate(u)
        BY <3>1, <1>1, <1>4 DEF Turn, NoUpdate
      <3>3. waiting[u] = 1 /\ updating[u] = 0 /\ NoReport(u)
        BY <3>1, <3>2 DEF OneUpdate
      <3>4. OneUpdate(u)'
        BY <3>1, <3>3, <2>1 DEF OneUpdate
      <3> QED BY <3>2, <3>4, <1>5 DEF Turn
    <2> QED BY <2>2, <2>3
  <1>7. CASE EndUpdate(v)
    <2> DEFINE report == [type |-> "TaskFinished", uid |-> v]
    <2>1. report \in Message /\ channel' = Append(channel, report)
      BY <1>7 DEF EndUpdate, Message
    <2>2. CASE u # v
      <3>1. (NoReport(u) => NoReport(u)') /\ (OneReport(u) => OneReport(u)')
        BY <2>1, <2>2, <1>1, ReportsSent
      <3>2. waiting'[u] = waiting[u] /\ updating'[u] = updating[u]
        BY <2>2, <1>1, <1>7 DEF EndUpdate
      <3> QED BY <3>1, <3>2, <1>4, <1>5, TurnKept
    <2>3. CASE u = v
      <3>1. /\ updating[u] > 0 /\ updating'[u] = updating[u] - 1
            /\ waiting'[u] = waiting[u]
        BY <2>3, <1>1, <1>7 DEF EndUpdate
      <3>2. u \in DOMAIN tasks /\ tasks[u].running /\ NoEntry(u) /\ OneUpdate(u)
        BY <3>1, <1>1, <1>4 DEF Turn, NoUpdate
      <3>3. waiting[u] = 0 /\ updating[u] = 1 /\ NoReport(u)
        BY <3>1, <3>2 DEF OneUpdate
      <3>4. OneReport(u)'
        BY <3>3, <2>1, <2>3, <1>1, ReportsSent
      <3>5. OneUpdate(u)'
        BY <3>1, <3>3, <3>4 DEF OneUpdate
      <3> QED BY <3>2, <3>5, <1>5 DEF Turn
    <2> QED BY <2>2, <2>3
  <1> QED BY <1>6, <1>7

(* An entry that expires belongs to a subscription that is idle, unless    *)
(* that was dropped and is excepted.                                       *)
LEMMA TurnsRunExpiredTask ==
    ASSUME Inv, Turns, NEW v \in Uid, RunExpiredTask(v)
    PROVE  Turns'
  <1>1. PICK S \in SUBSET Uid : tasks \in [S -> TaskState]
    BY DEF Inv, TypeOK, SchedulerTypes
  <1>2. waiting \in [Uid -> Nat] /\ UNCHANGED <<channel, updating, overlapped>>
    BY DEF Inv, TypeOK, JobTypes, RunExpiredTask
  <1>3. PICK e \in queue : e.uid = v /\ queue' = queue \ {e}
    BY DEF RunExpiredTask
  <1>4. SUFFICES ASSUME NEW u \in Uid \ overlapped PROVE Turn(u)'
    BY <1>2 DEF Turns
  <1>5. Turn(u)
    BY DEF Turns
  <1>6. (NoReport(u) => NoReport(u)') /\ (OneReport(u) => OneReport(u)')
    BY <1>2 DEF NoReport, OneReport, Reports
  <1>7. CASE u # v
    <2>1. Entries(u)' = Entries(u)
      BY <1>3, <1>7 DEF Entries
    <2>2. (NoEntry(u) => NoEntry(u)') /\ (OneEntry(u) => OneEntry(u)')
      BY <2>1, <1>3, <1>7 DEF NoEntry, OneEntry, Entries
    <2>3. /\ waiting'[u] = waiting[u]
          /\ u \in DOMAIN tasks <=> u \in DOMAIN tasks'
          /\ u \in DOMAIN tasks => tasks'[u].running = tasks[u].running
      BY <1>1, <1>2, <1>7 DEF RunExpiredTask, Spawn
    <2> QED BY <2>2, <2>3, <1>2, <1>5, <1>6, TurnKept
  <1>8. CASE u = v
    <2>1. e \in Entries(u)
      BY <1>3, <1>8 DEF Entries
    <2>2. u \in DOMAIN tasks /\ ~tasks[u].running /\ OneEntry(u) /\ NoUpdate(u)
      BY <2>1, <1>5 DEF Turn, NoEntry
    <2>3. NoEntry(u)'
      <3>1. Entries(u) = {e}
        BY <2>1, <2>2 DEF OneEntry
      <3> QED BY <3>1, <1>3 DEF NoEntry, Entries
    <2>4. u \in DOMAIN tasks' /\ tasks'[u].running /\ waiting'[u] = waiting[u] + 1
      <3>1. /\ tasks' = [tasks EXCEPT ![u].key = NoKey, ![u].running = TRUE]
            /\ Spawn(u)
        BY <2>2, <1>8 DEF RunExpiredTask
      <3>2. tasks'[u].running
        BY <2>2, <3>1, <1>1 DEF TaskState
      <3> QED BY <2>2, <3>1, <3>2, <1>1, <1>2 DEF Spawn
    <2>5. OneUpdate(u)'
      BY <2>2, <2>4, <1>2, <1>6 DEF NoUpdate, OneUpdate
    <2> QED BY <2>3, <2>4, <2>5 DEF Turn
  <1> QED BY <1>7, <1>8

(* The one entry of an idle subscription is the one its key names.         *)
LEMMA KeyEntry ==
    ASSUME Inv, NEW u \in DOMAIN tasks, ~tasks[u].running
    PROVE  [key |-> tasks[u].key, uid |-> u, interval |-> tasks[u].interval] \in Entries(u)
  BY DEF Inv, NotStalled, KeysLive, Entries

(* A run at once replaces the entry; while an update runs it is ignored.   *)
LEMMA TurnsRunTaskNow ==
    ASSUME Inv, Turns, RunTaskNow
    PROVE  Turns'
  <1> DEFINE v == Head(channel).uid
  <1>1. PICK S \in SUBSET Uid : tasks \in [S -> TaskState]
    BY DEF Inv, TypeOK, SchedulerTypes
  <1>2. /\ channel \in Seq(Message) /\ waiting \in [Uid -> Nat] /\ SlotsDistinct
        /\ UNCHANGED <<updating, overlapped>> /\ Received("RunNow")
    BY DEF Inv, TypeOK, JobTypes, RunTaskNow
  <1>3. SUFFICES ASSUME NEW u \in Uid \ overlapped PROVE Turn(u)'
    BY <1>2 DEF Turns
  <1>4. Turn(u)
    BY DEF Turns
  <1>5. (NoReport(u) => NoReport(u)') /\ (OneReport(u) => OneReport(u)')
    BY <1>2, ReportsReceived
  <1>6. CASE /\ v \in DOMAIN tasks
             /\ ~tasks[v].running
             /\ tasks' = [tasks EXCEPT ![v].running = TRUE, ![v].key = NoKey]
             /\ queue' = {e \in queue : e.key # tasks[v].key}
             /\ Spawn(v)
    <2> DEFINE k == [key |-> tasks[v].key, uid |-> v, interval |-> tasks[v].interval]
    <2>1. k \in queue
      BY <1>6, KeyEntry DEF Entries
    <2>2. queue' = queue \ {k}
      BY <2>1, <1>2, <1>6 DEF SlotsDistinct
    <2> HIDE DEF v
    <2>3. CASE u # v
      <3>1. Entries(u)' = Entries(u)
        BY <2>2, <2>3 DEF Entries
      <3>2. (NoEntry(u) => NoEntry(u)') /\ (OneEntry(u) => OneEntry(u)')
        BY <3>1, <2>2, <2>3 DEF NoEntry, OneEntry, Entries
      <3>3. /\ waiting'[u] = waiting[u]
            /\ u \in DOMAIN tasks <=> u \in DOMAIN tasks'
            /\ u \in DOMAIN tasks => tasks'[u].running = tasks[u].running
        BY <1>1, <1>2, <1>6, <2>3 DEF Spawn
      <3> QED BY <3>2, <3>3, <1>2, <1>4, <1>5, TurnKept
    <2>4. CASE u = v
      <3>1. OneEntry(u) /\ NoUpdate(u)
        BY <2>4, <1>4, <1>6 DEF Turn
      <3>2. Entries(u) = {k}
        BY <3>1, <2>1, <2>4 DEF OneEntry, Entries
      <3>3. NoEntry(u)'
        BY <3>2, <2>2 DEF NoEntry, Entries
      <3>4. u \in DOMAIN tasks' /\ tasks'[u].running /\ waiting'[u] = waiting[u] + 1
        BY <2>4, <1>1, <1>2, <1>6 DEF Spawn, TaskState
      <3>5. OneUpdate(u)'
        BY <3>1, <3>4, <1>2, <1>5 DEF NoUpdate, OneUpdate
      <3> QED BY <3>3, <3>4, <3>5 DEF Turn
    <2> QED BY <2>3, <2>4
  <1>7. CASE UNCHANGED <<tasks, queue, waiting>>
    <2>1. (NoEntry(u) => NoEntry(u)') /\ (OneEntry(u) => OneEntry(u)')
      BY <1>7 DEF NoEntry, OneEntry, Entries
    <2> QED BY <2>1, <1>2, <1>4, <1>5, <1>7, TurnKept
  <1> QED BY <1>6, <1>7 DEF RunTaskNow

(* A report finds its subscription running, and gives it one new entry.    *)
LEMMA TurnsFinishTask ==
    ASSUME Inv, Turns, FinishTask
    PROVE  Turns'
  <1> DEFINE v == Head(channel).uid
             slot == Slot({v})
             fresh == [key |-> slot[v], uid |-> v, interval |-> tasks[v].interval]
  <1>1. PICK S \in SUBSET Uid : tasks \in [S -> TaskState]
    BY DEF Inv, TypeOK, SchedulerTypes
  <1>2. /\ channel \in Seq(Message) /\ Received("TaskFinished")
        /\ UNCHANGED <<waiting, updating, overlapped>>
    BY DEF Inv, TypeOK, FinishTask, jobVars
  <1>3. SUFFICES ASSUME NEW u \in Uid \ overlapped PROVE Turn(u)'
    BY <1>2 DEF Turns
  <1>4. Turn(u)
    BY DEF Turns
  <1>5. IF v = u
        THEN ~NoReport(u) /\ (OneReport(u) => NoReport(u)')
        ELSE (NoReport(u) => NoReport(u)') /\ (OneReport(u) => OneReport(u)')
    BY <1>2, ReportsReceived
  <1>6. CASE /\ v \in DOMAIN tasks
             /\ Slots({v}) # {}
             /\ tasks' = [tasks EXCEPT ![v].running = FALSE, ![v].key = slot[v]]
             /\ queue' = queue \cup schedule_task({v}, slot, [w \in {v} |-> tasks[w].interval])
    <2>1. queue' = queue \cup {fresh}
      BY <1>6 DEF schedule_task
    <2> HIDE DEF v, slot
    <2>2. CASE u # v
      <3>1. Entries(u)' = Entries(u)
        BY <2>1, <2>2 DEF Entries
      <3>2. (NoEntry(u) => NoEntry(u)') /\ (OneEntry(u) => OneEntry(u)')
        BY <3>1, <2>1 DEF NoEntry, OneEntry
      <3>3. /\ u \in DOMAIN tasks <=> u \in DOMAIN tasks'
            /\ u \in DOMAIN tasks => tasks'[u].running = tasks[u].running
        BY <1>1, <1>6, <2>2
      <3> QED BY <2>2, <3>2, <3>3, <1>2, <1>4, <1>5, TurnKept
    <2>3. CASE u = v
      <3>1. NoEntry(u) /\ OneUpdate(u)
        BY <2>3, <1>4, <1>5, <1>6 DEF Turn, NoUpdate
      <3>2. waiting[u] = 0 /\ updating[u] = 0 /\ OneReport(u)
        BY <2>3, <3>1, <1>5 DEF OneUpdate
      <3>3. Entries(u)' = {fresh}
        BY <2>1, <2>3, <3>1 DEF NoEntry, Entries
      <3>4. OneEntry(u)' /\ NoUpdate(u)'
        BY <2>1, <2>3, <3>2, <3>3, <1>2, <1>5 DEF OneEntry, NoUpdate
      <3>5. u \in DOMAIN tasks' /\ ~tasks'[u].running
        BY <2>3, <1>1, <1>6 DEF TaskState
      <3> QED BY <3>4, <3>5 DEF Turn
    <2> QED BY <2>2, <2>3
  <1>7. CASE v \notin DOMAIN tasks /\ UNCHANGED <<tasks, queue>>
    <2>1. v # u
      BY <1>4, <1>5, <1>7 DEF Turn, NoUpdate
    <2>2. (NoEntry(u) => NoEntry(u)') /\ (OneEntry(u) => OneEntry(u)')
      BY <1>7 DEF NoEntry, OneEntry, Entries
    <2> QED BY <2>1, <2>2, <1>2, <1>4, <1>5, <1>7, TurnKept
  <1> QED BY <1>6, <1>7 DEF FinishTask

(* A new map drops the entry of an idle subscription that left, arms each  *)
(* new one once, and re-arms what it keeps without a second entry.         *)
LEMMA TurnsApply ==
    ASSUME Inv, Turns, Apply
    PROVE  Turns'
  <1> DEFINE m       == Head(channel).map
             kept    == DOMAIN tasks \cap DOMAIN m
             changed == {u \in kept : tasks[u].interval # m[u]}
             idle    == {u \in changed : tasks[u].key = NoKey /\ ~tasks[u].running}
             arm     == (DOMAIN m \ DOMAIN tasks) \cup idle
             slot    == Slot(arm)
             rearmed == {tasks[u].key : u \in changed}
             gone    == {tasks[u].key : u \in DOMAIN tasks \ DOMAIN m}
             rest    == {q \in queue : q.key \notin gone}
             reset(e) == IF e.key \in rearmed THEN [e EXCEPT !.interval = m[e.uid]] ELSE e
             entry(u) == [key |-> slot[u], uid |-> u, interval |-> m[u]]
             state(u) == IF u \notin DOMAIN tasks
                         THEN [key |-> slot[u], interval |-> m[u], running |-> FALSE]
                         ELSE IF u \in changed
                         THEN [tasks[u] EXCEPT !.interval = m[u],
                                   !.key = IF u \in arm THEN slot[u] ELSE tasks[u].key]
                         ELSE tasks[u]
  <1>1. /\ channel \in Seq(Message) /\ KeysLive /\ SlotsDistinct /\ NotStalled
        /\ queue \subseteq Entry /\ Received("Apply") /\ UNCHANGED <<waiting, updating>>
    BY DEF Inv, TypeOK, SchedulerTypes, Apply, jobVars
  <1>2. PICK S \in SUBSET Uid : tasks \in [S -> TaskState]
    BY DEF Inv, TypeOK, SchedulerTypes
  <1>3. /\ tasks' = [u \in DOMAIN m |-> state(u)]
        /\ queue' = {reset(e) : e \in rest} \cup {entry(u) : u \in arm}
        /\ overlapped' = overlapped \cup {u \in DOMAIN tasks \ DOMAIN m : tasks[u].running}
    BY DEF Apply, apply_timer_map, update_task_interval, schedule_task
  <1>4. \A u \in DOMAIN tasks : tasks[u] \in TaskState
    BY <1>2
  <1>5. \A e \in queue : reset(e).uid = e.uid
    BY <1>1 DEF Entry
  <1>6. ASSUME NEW u \in DOMAIN tasks PROVE u \in arm => tasks[u].key = NoKey /\ ~tasks[u].running
    OBVIOUS
  <1>7. arm \subseteq DOMAIN m
    OBVIOUS
  <1>8. \A u : u \in DOMAIN m /\ u \notin DOMAIN tasks => u \in arm
    OBVIOUS
  <1>9. \A u \in DOMAIN tasks : ~tasks[u].running => u \notin arm
    BY <1>1, <1>6 DEF NotStalled
  <1>10. ASSUME NEW u \in DOMAIN tasks, ~tasks[u].running, u \in DOMAIN m
         PROVE  tasks[u].key \notin gone
    <2>1. tasks[u].key # NoKey
      BY <1>1, <1>10 DEF NotStalled
    <2>2. ASSUME NEW w \in DOMAIN tasks, tasks[w].key = tasks[u].key PROVE w = u
      BY <2>1, <2>2, <1>1 DEF KeysLive, SlotsDistinct
    <2> QED BY <2>2, <1>10
  <1>11. \A u \in DOMAIN tasks : u \notin DOMAIN m => tasks[u].key \in gone
    OBVIOUS
  <1>12. \A u \in DOMAIN m : u \in DOMAIN tasks => tasks'[u].running = tasks[u].running
    BY <1>3, <1>4 DEF TaskState
  <1>13. \A u \in DOMAIN m : u \notin DOMAIN tasks => ~tasks'[u].running
    BY <1>3
  <1>14. DOMAIN tasks' = DOMAIN m
    BY <1>3
  <1> HIDE DEF arm, gone, state, reset, m
  <1>15. \A u : u \notin arm /\ NoEntry(u) => NoEntry(u)'
    BY <1>3, <1>5 DEF NoEntry, Entries
  <1>16. \A u \in arm : NoEntry(u) => OneEntry(u)'
    <2> SUFFICES ASSUME NEW u \in arm, NoEntry(u) PROVE OneEntry(u)'
      OBVIOUS
    <2>1. entry(u) \in queue'
      BY <1>3
    <2>2. Entries(u)' = {entry(u)}
      BY <2>1, <1>3, <1>5 DEF NoEntry, Entries
    <2> QED BY <2>1, <2>2 DEF OneEntry
  <1>17. SUFFICES ASSUME NEW u \in Uid \ overlapped'
                  PROVE  Turn(u)'
    BY DEF Turns
  <1>18. Turn(u) /\ (u \in DOMAIN tasks /\ u \notin DOMAIN m => ~tasks[u].running)
    BY <1>3 DEF Turns
  <1>19. (NoReport(u) => NoReport(u)') /\ (OneReport(u) => OneReport(u)')
    BY <1>1, ReportsReceived
  <1>20. (NoUpdate(u) => NoUpdate(u)') /\ (OneUpdate(u) => OneUpdate(u)')
    BY <1>1, <1>19 DEF NoUpdate, OneUpdate
  <1>21. CASE u \notin DOMAIN tasks
    <2>1. NoEntry(u) /\ NoUpdate(u)
      BY <1>18, <1>21 DEF Turn
    <2>2. CASE u \in DOMAIN m
      <3>1. OneEntry(u)'
        BY <2>1, <2>2, <1>8, <1>16, <1>21
      <3> QED BY <3>1, <2>1, <2>2, <1>13, <1>14, <1>20, <1>21 DEF Turn
    <2>3. CASE u \notin DOMAIN m
      <3>1. NoEntry(u)'
        BY <2>1, <2>3, <1>7, <1>15
      <3> QED BY <3>1, <2>1, <2>3, <1>14, <1>20 DEF Turn
    <2> QED BY <2>2, <2>3
  <1>22. CASE u \in DOMAIN tasks /\ tasks[u].running
    <2>1. NoEntry(u) /\ OneUpdate(u) /\ u \in DOMAIN m
      BY <1>18, <1>22 DEF Turn
    <2>2. NoEntry(u)'
      BY <2>1, <1>6, <1>15, <1>22
    <2> QED BY <2>1, <2>2, <1>12, <1>14, <1>20, <1>22 DEF Turn
  <1>23. CASE u \in DOMAIN tasks /\ ~tasks[u].running
    <2> DEFINE k == [key |-> tasks[u].key, uid |-> u, interval |-> tasks[u].interval]
    <2>1. OneEntry(u) /\ NoUpdate(u)
      BY <1>18, <1>23 DEF Turn
    <2>2. k \in queue /\ Entries(u) = {k}
      BY <2>1, <1>23, KeyEntry DEF OneEntry, Entries
    <2>3. u \notin arm
      BY <1>9, <1>23
    <2>4. CASE u \in DOMAIN m
      <3>1. k \in rest
        BY <2>2, <2>4, <1>10, <1>23
      <3>2. reset(k) \in queue'
        BY <3>1, <1>3
      <3>3. ASSUME NEW e \in queue' PROVE e.uid = u <=> e = reset(k)
        <4>1. CASE \E w \in arm : e = entry(w)
          BY <4>1, <2>2, <2>3, <1>5
        <4>2. CASE \E q \in rest : e = reset(q)
          <5>1. PICK q \in rest : e = reset(q)
            BY <4>2
          <5>2. e.uid = q.uid /\ q \in queue
            BY <5>1, <1>5
          <5>3. q.uid = u <=> q = k
            BY <2>2, <5>2 DEF Entries
          <5>4. e = reset(k) => e.uid = u
            BY <2>2, <1>5
          <5> QED BY <5>1, <5>2, <5>3, <5>4
        <4> QED BY <4>1, <4>2, <1>3
      <3>4. OneEntry(u)'
        BY <3>2, <3>3 DEF OneEntry, Entries
      <3> QED BY <2>1, <2>4, <3>4, <1>12, <1>14, <1>20, <1>23 DEF Turn
    <2>5. CASE u \notin DOMAIN m
      <3>1. k \notin rest
        BY <2>5, <1>11, <1>23
      <3>2. NoEntry(u)'
        BY <3>1, <2>2, <2>3, <1>3, <1>5 DEF NoEntry, Entries
      <3> QED BY <2>1, <2>5, <3>2, <1>14, <1>20 DEF Turn
    <2> QED BY <2>4, <2>5
  <1> QED BY <1>21, <1>22, <1>23

LEMMA TurnsStep == Inv /\ Turns /\ [Next]_vars => Turns'
  <1> SUFFICES ASSUME Inv, Turns, [Next]_vars PROVE Turns'
    OBVIOUS
  <1>1. ASSUME NEW t \in Task, User(t) \/ Progress(t) PROVE Turns'
    BY <1>1, TurnsCommands
  <1>2. CASE Receive
    BY <1>2, TurnsApply, TurnsRunTaskNow, TurnsFinishTask DEF Receive
  <1>3. ASSUME NEW u \in Uid, RunExpiredTask(u) \/ StartUpdate(u) \/ EndUpdate(u)
        PROVE  Turns'
    BY <1>3, TurnsRunExpiredTask, TurnsUpdates
  <1>4. CASE UNCHANGED vars
    BY <1>4, TurnsStutter
  <1> QED BY <1>1, <1>2, <1>3, <1>4 DEF Next

(* What is inductive says what OneTurn counts.                             *)
LEMMA TurnsCounted == ASSUME Turns PROVE OneTurn
  <1> SUFFICES ASSUME NEW u \in Uid \ overlapped
               PROVE  Cardinality(Entries(u)) + waiting[u] + updating[u]
                      + Cardinality(Reports(u)) = IF u \in DOMAIN tasks THEN 1 ELSE 0
    BY Zenon DEF OneTurn, Entries, Reports
  <1>1. Turn(u)
    BY DEF Turns
  <1>2. /\ NoEntry(u) => Cardinality(Entries(u)) = 0
        /\ NoReport(u) => Cardinality(Reports(u)) = 0
    BY FS_EmptySet DEF NoEntry, NoReport
  <1>3. /\ OneEntry(u) => Cardinality(Entries(u)) = 1
        /\ OneReport(u) => Cardinality(Reports(u)) = 1
    <2>1. \A e : Cardinality({e}) = 1
      BY FS_Singleton
    <2> QED BY <2>1 DEF OneEntry, OneReport
  <1> QED BY <1>1, <1>2, <1>3 DEF Turn, NoUpdate, OneUpdate

(* A subscription is never updated twice for one interval and never left   *)
(* out: at any moment it has one queued entry, one update or one report,   *)
(* however runs at once, new maps and expiries interleave.                 *)
THEOREM OneTurnHolds == Spec => []OneTurn
  <1>1. Init => Turns
    BY TurnsInit
  <1>2. Inv /\ Turns /\ [Next]_vars => Turns'
    BY TurnsStep
  <1>3. Turns => OneTurn
    BY TurnsCounted
  <1> QED BY <1>1, <1>2, <1>3, InvHolds, PTL DEF Spec

-----------------------------------------------------------------------------
(* The settings and the scheduler, when one command runs at a time.  The   *)
(* refreshes of two commands may send their maps in the other order, and   *)
(* then the older one stays (RefreshRead, RefreshInstall, RefreshSend).    *)

\* The map the scheduler works by.
Tracked == [u \in DOMAIN tasks |-> tasks[u].interval]

NoApply == \A n \in 1 .. Len(channel) : channel[n].type # "Apply"

\* m is the map of the last Apply in the channel.
LastApply(m) == \E n \in 1 .. Len(channel) :
    /\ channel[n].type = "Apply" /\ channel[n].map = m
    /\ \A k \in n + 1 .. Len(channel) : channel[k].type # "Apply"

\* The map the scheduler will work by once it has read its channel.
Heading(m) == (m = Tracked /\ NoApply) \/ LastApply(m)

\* m is what the settings ask for, as far as the timer was told.
Announced(m) ==
    \A u \in Uid \ unannounced :
        IF settings[u] = 0 THEN u \notin DOMAIN m
        ELSE u \in DOMAIN m /\ m[u] = settings[u]

\* What holds at each step of a command: with no refresh under way the cache
\* is what the settings ask for; the decision of patch_profile is about the
\* settings the patch replaces; the map read is not outdated before it is
\* sent; and but for the one about to be sent the scheduler has every map.
Cached(t) == commands[t].pc \in {"idle", "patch", "overdue"} => Announced(cache)
Decided(t) == commands[t].pc = "patch" =>
    commands[t].refresh = (settings[commands[t].uid] # commands[t].to)
Refreshing(t) == commands[t].pc \in {"install", "send"} => commands[t].map = gen_map
Sending(t) == IF commands[t].pc = "send" THEN cache = commands[t].map ELSE Heading(cache)

Follows(t) == Cached(t) /\ Decided(t) /\ Refreshing(t) /\ Sending(t)

LEMMA GenMapAnnounced ==
    ASSUME settings \in [Uid -> Interval \cup {0}] PROVE Announced(gen_map)
  BY DEF Announced, gen_map

(* The last map survives whatever else enters or leaves the channel.       *)
LEMMA HeadingSent ==
    ASSUME NEW m \in Message, channel \in Seq(Message), channel' = Append(channel, m)
    PROVE  /\ m.type # "Apply" /\ Tracked' = Tracked =>
                \A c : Heading(c) => (c = Tracked' /\ NoApply') \/ LastApply(c)'
           /\ m.type = "Apply" => LastApply(m.map)'
  <1>1. /\ Len(channel') = Len(channel) + 1 /\ Len(channel) \in Nat
        /\ \A n \in 1 .. Len(channel) : channel'[n] = channel[n]
        /\ channel'[Len(channel) + 1] = m
    BY AppendProperties
  <1>2. ASSUME m.type # "Apply", NoApply PROVE NoApply'
    BY <1>1, <1>2 DEF NoApply
  <1>3. ASSUME m.type # "Apply", NEW c, LastApply(c) PROVE LastApply(c)'
    <2>1. PICK n \in 1 .. Len(channel) :
             /\ channel[n].type = "Apply" /\ channel[n].map = c
             /\ \A k \in n + 1 .. Len(channel) : channel[k].type # "Apply"
      BY <1>3 DEF LastApply
    <2>2. n \in 1 .. Len(channel') /\ channel'[n] = channel[n]
      BY <1>1
    <2>3. \A k \in n + 1 .. Len(channel') : channel'[k].type # "Apply"
      BY <2>1, <1>1, <1>3
    <2> QED BY <2>1, <2>2, <2>3 DEF LastApply
  <1>4. ASSUME m.type = "Apply" PROVE LastApply(m.map)'
    <2>1. Len(channel) + 1 \in 1 .. Len(channel')
      BY <1>1
    <2>2. \A k \in (Len(channel) + 1) + 1 .. Len(channel') : channel'[k].type # "Apply"
      BY <1>1
    <2> QED BY <2>1, <2>2, <1>1, <1>4 DEF LastApply
  <1> QED BY <1>2, <1>3, <1>4 DEF Heading

LEMMA HeadingReceived ==
    ASSUME NEW type, Received(type), channel \in Seq(Message), NEW c, Heading(c),
           IF type = "Apply" THEN Tracked' = Head(channel).map ELSE Tracked' = Tracked
    PROVE  (c = Tracked' /\ NoApply') \/ LastApply(c)'
  <1>1. /\ channel # << >> /\ channel[1].type = type /\ Head(channel) = channel[1]
        /\ Len(channel) \in Nat /\ Len(channel) # 0
        /\ Len(channel') = Len(channel) - 1
        /\ \A n \in 1 .. Len(channel') : channel'[n] = channel[n + 1]
    BY HeadTailProperties DEF Received
  <1>2. CASE c = Tracked /\ NoApply
    <2>1. type # "Apply"
      BY <1>1, <1>2 DEF NoApply
    <2>2. NoApply'
      BY <1>1, <1>2 DEF NoApply
    <2> QED BY <2>1, <2>2, <1>2
  <1>3. CASE LastApply(c)
    <2>1. PICK n \in 1 .. Len(channel) :
             /\ channel[n].type = "Apply" /\ channel[n].map = c
             /\ \A k \in n + 1 .. Len(channel) : channel[k].type # "Apply"
      BY <1>3 DEF LastApply
    <2>2. CASE n = 1
      <3>1. c = Tracked'
        BY <2>1, <2>2, <1>1
      <3>2. NoApply'
        BY <2>1, <2>2, <1>1 DEF NoApply
      <3> QED BY <3>1, <3>2
    <2>3. CASE n # 1
      <3>1. n - 1 \in 1 .. Len(channel') /\ channel'[n - 1] = channel[n]
        BY <2>3, <1>1
      <3>2. \A k \in (n - 1) + 1 .. Len(channel') : channel'[k].type # "Apply"
        BY <2>1, <1>1
      <3> QED BY <3>1, <3>2, <2>1 DEF LastApply
    <2> QED BY <2>2, <2>3
  <1> QED BY <1>2, <1>3 DEF Heading

LEMMA FollowsInit == ASSUME NEW t, Task = {t} PROVE Init => Follows(t)
  <1> SUFFICES ASSUME Init PROVE Follows(t)
    OBVIOUS
  <1>1. commands[t].pc = "idle"
    BY DEF Init
  <1>2. Announced(cache)
    BY DEF Init, Announced, NoMap
  <1>3. Heading(cache)
    <2>1. NoMap = Tracked
      BY DEF Init, NoMap, Tracked
    <2> QED BY <2>1 DEF Init, Heading, NoApply
  <1> QED BY <1>1, <1>2, <1>3 DEF Follows, Cached, Decided, Refreshing, Sending

(* The scheduler's steps keep Heading; they touch nothing else a command   *)
(* relies on.                                                              *)
LEMMA FollowsScheduler ==
    ASSUME Inv, NEW t \in Task, Follows(t),
           UNCHANGED <<userVars, commands, cache>>,
           \A c : Heading(c) => Heading(c)'
    PROVE  Follows(t)'
  <1>1. Cached(t)' /\ Decided(t)' /\ Refreshing(t)'
    BY DEF Follows, Cached, Decided, Refreshing, Announced, gen_map, userVars
  <1>2. Sending(t)'
    BY DEF Follows, Sending
  <1> QED BY <1>1, <1>2 DEF Follows

LEMMA HeadingApply ==
    ASSUME Inv, Apply, NEW c, Heading(c) PROVE Heading(c)'
  <1> DEFINE m == Head(channel).map
             changed == {u \in DOMAIN tasks \cap DOMAIN m : tasks[u].interval # m[u]}
             idle == {u \in changed : tasks[u].key = NoKey /\ ~tasks[u].running}
             arm == (DOMAIN m \ DOMAIN tasks) \cup idle
             slot == Slot(arm)
             state(u) == IF u \notin DOMAIN tasks
                         THEN [key |-> slot[u], interval |-> m[u], running |-> FALSE]
                         ELSE IF u \in changed
                         THEN [tasks[u] EXCEPT !.interval = m[u],
                                   !.key = IF u \in arm THEN slot[u] ELSE tasks[u].key]
                         ELSE tasks[u]
  <1>1. channel \in Seq(Message) /\ Received("Apply")
    BY DEF Inv, TypeOK, Apply
  <1>2. PICK S \in SUBSET Uid : tasks \in [S -> TaskState]
    BY DEF Inv, TypeOK, SchedulerTypes
  <1>3. tasks' = [u \in DOMAIN m |-> state(u)]
    BY DEF Apply, apply_timer_map, update_task_interval
  <1>4. m \in Maps
    <2>1. Head(channel) \in Message /\ Head(channel).type = "Apply"
      BY <1>1, ReceivedKeeps DEF Received
    <2> QED BY <2>1 DEF Message
  <1>5. m = [u \in DOMAIN m |-> m[u]]
    BY <1>4 DEF Maps
  <1>6. \A u \in DOMAIN tasks : tasks[u] \in TaskState
    BY <1>2
  <1> HIDE DEF m, slot, arm
  <1>7. \A u \in DOMAIN m : state(u).interval = m[u]
    BY <1>6 DEF TaskState
  <1>8. Tracked' = m
    <2>1. Tracked' = [u \in DOMAIN tasks' |-> tasks'[u].interval]
      BY DEF Tracked
    <2>2. DOMAIN tasks' = DOMAIN m /\ \A u \in DOMAIN m : tasks'[u].interval = m[u]
      BY <1>3, <1>7
    <2> QED BY <2>1, <2>2, <1>5
  <1>9. (c = Tracked' /\ NoApply') \/ LastApply(c)'
    BY <1>1, <1>8, HeadingReceived DEF m
  <1> QED BY <1>9 DEF Heading

LEMMA HeadingServed ==
    ASSUME Inv, RunTaskNow \/ FinishTask \/ \E u \in Uid : RunExpiredTask(u),
           NEW c, Heading(c)
    PROVE  Heading(c)'
  <1>1. PICK S \in SUBSET Uid : tasks \in [S -> TaskState]
    BY DEF Inv, TypeOK, SchedulerTypes
  <1>2. channel \in Seq(Message)
    BY DEF Inv, TypeOK
  <1>3. /\ DOMAIN tasks' = DOMAIN tasks
        /\ \A v \in DOMAIN tasks : tasks'[v].interval = tasks[v].interval
    <2> DEFINE same == /\ DOMAIN tasks' = DOMAIN tasks
                       /\ \A v \in DOMAIN tasks : tasks'[v].interval = tasks[v].interval
    <2>1. ASSUME NEW v \in DOMAIN tasks, NEW r \in BOOLEAN, NEW k,
                 \/ tasks' = [tasks EXCEPT ![v].running = r, ![v].key = k]
                 \/ tasks' = [tasks EXCEPT ![v].key = k, ![v].running = r]
          PROVE  same
      <3>1. ASSUME NEW w \in DOMAIN tasks
            PROVE  DOMAIN tasks' = DOMAIN tasks /\ tasks'[w].interval = tasks[w].interval
        <4>1. tasks[w] \in TaskState
          BY <1>1
        <4> QED BY <2>1, <4>1 DEF TaskState
      <3> QED BY <3>1
    <2>2. tasks' = tasks => same
      OBVIOUS
    <2> HIDE DEF same
    <2>3. RunTaskNow => same
      BY <2>1, <2>2 DEF RunTaskNow
    <2>4. FinishTask => same
      BY <2>1, <2>2 DEF FinishTask
    <2>5. ASSUME NEW u \in Uid, RunExpiredTask(u) PROVE same
      BY <2>1, <2>2, <2>5 DEF RunExpiredTask
    <2>6. same
      BY <2>3, <2>4, <2>5
    <2> QED BY <2>6 DEF same
  <1>4. Tracked' = Tracked
    <2>1. Tracked' = [u \in DOMAIN tasks' |-> tasks'[u].interval]
      BY DEF Tracked
    <2> QED BY <2>1, <1>3 DEF Tracked
  <1>5. CASE RunTaskNow
    <2>1. Received("RunNow")
      BY <1>5 DEF RunTaskNow
    <2> QED BY <2>1, <1>2, <1>4, HeadingReceived DEF Heading
  <1>6. CASE FinishTask
    <2>1. Received("TaskFinished")
      BY <1>6 DEF FinishTask
    <2> QED BY <2>1, <1>2, <1>4, HeadingReceived DEF Heading
  <1>7. CASE \E u \in Uid : RunExpiredTask(u)
    <2>1. UNCHANGED channel
      BY <1>7 DEF RunExpiredTask
    <2> QED BY <2>1, <1>4 DEF Heading, NoApply, LastApply
  <1> QED BY <1>5, <1>6, <1>7

LEMMA HeadingUpdates ==
    ASSUME Inv, NEW u \in Uid, StartUpdate(u) \/ EndUpdate(u), NEW c, Heading(c)
    PROVE  Heading(c)'
  <1>1. channel \in Seq(Message) /\ Tracked' = Tracked
    BY DEF Inv, TypeOK, Tracked, StartUpdate, EndUpdate, schedVars
  <1>2. CASE StartUpdate(u)
    BY <1>1, <1>2 DEF StartUpdate, Heading, NoApply, LastApply
  <1>3. CASE EndUpdate(u)
    <2>1. [type |-> "TaskFinished", uid |-> u] \in Message
      BY DEF Message
    <2> QED BY <2>1, <1>1, <1>3, HeadingSent DEF EndUpdate, Heading
  <1> QED BY <1>2, <1>3

(* The steps of the command, which is the only one.                        *)
LEMMA FollowsUser ==
    ASSUME Inv, NEW t, Task = {t}, Follows(t), User(t)
    PROVE  Follows(t)'
  <1>1. /\ settings \in [Uid -> Interval \cup {0}] /\ commands \in [Task -> Command]
    BY DEF Inv, TypeOK, UserTypes, CommandTypes
  <1>2. /\ commands[t].pc = "idle" /\ Announced(cache) /\ Heading(cache)
        /\ UNCHANGED <<cache, channel, tasks>>
    BY DEF User, PatchProfile, ImportProfile, DeleteProfile, Begin, Idle,
           Follows, Cached, Sending, schedVars
  <1>3. Heading(cache)'
    BY <1>2 DEF Heading, Tracked, NoApply, LastApply
  <1>4. ASSUME NEW u \in Uid, NEW i \in Interval \cup {0}, PatchProfile(t, u, i)
        PROVE  Follows(t)'
    <2>1. /\ commands'[t].pc = "patch" /\ commands'[t].uid = u /\ commands'[t].to = i
          /\ commands'[t].refresh = (settings[u] # i)
      BY <1>1, <1>4 DEF PatchProfile, Become, Command
    <2>2. UNCHANGED <<settings, unannounced, cache>>
      BY <1>4 DEF PatchProfile
    <2>3. Announced(cache)'
      BY <2>2, <1>2 DEF Announced
    <2> QED BY <2>1, <2>2, <2>3, <1>3 DEF Follows, Cached, Decided, Refreshing, Sending
  <1>5. ASSUME NEW u \in Uid, NEW i \in Interval, ImportProfile(t, u, i)
        PROVE  Follows(t)'
    <2>1. UNCHANGED commands
      BY <1>5 DEF ImportProfile
    <2>2. Announced(cache)'
      BY <1>1, <1>2, <1>5 DEF ImportProfile, Announced
    <2> QED BY <2>1, <2>2, <1>2, <1>3 DEF Follows, Cached, Decided, Refreshing, Sending
  <1>6. ASSUME NEW u \in Uid, DeleteProfile(t, u)
        PROVE  Follows(t)'
    <2>1. CASE UNCHANGED commands
      <3>1. Announced(cache)'
        BY <2>1, <1>1, <1>2, <1>6 DEF DeleteProfile, Announced, Become, Command
      <3> QED BY <2>1, <3>1, <1>2, <1>3 DEF Follows, Cached, Decided, Refreshing, Sending
    <2>2. CASE Become(t, [commands[t] EXCEPT !.pc = "read"])
      <3>1. commands'[t].pc = "read"
        BY <2>2, <1>1 DEF Become, Command
      <3> QED BY <3>1, <1>3 DEF Follows, Cached, Decided, Refreshing, Sending
    <2> QED BY <2>1, <2>2, <1>6 DEF DeleteProfile
  <1> QED BY <1>4, <1>5, <1>6 DEF User

LEMMA FollowsProgress ==
    ASSUME Inv, NEW t, Task = {t}, Follows(t), Progress(t)
    PROVE  Follows(t)'
  <1>1. /\ settings \in [Uid -> Interval \cup {0}] /\ commands \in [Task -> Command]
        /\ channel \in Seq(Message)
    BY DEF Inv, TypeOK, UserTypes, CommandTypes
  <1>2. ASSUME UNCHANGED <<tasks, channel, cache>>, commands[t].pc # "send"
        PROVE  Heading(cache)'
    BY <1>2 DEF Follows, Sending, Heading, Tracked, NoApply, LastApply
  <1>3. UNCHANGED tasks
    BY DEF Progress, PatchSaved, TimerInit, RefreshRead, RefreshInstall, RefreshSend,
           RunOverdue, schedVars
  <1>4. CASE PatchSaved(t)
    <2> DEFINE c == commands[t]
               found == profile[c.uid] = "present"
    <2>1. /\ c.pc = "patch" /\ UNCHANGED <<unannounced, cache, channel>>
          /\ settings' = IF found THEN [settings EXCEPT ![c.uid] = c.to] ELSE settings
          /\ commands' = [commands EXCEPT ![t] =
                [c EXCEPT !.pc = IF found /\ c.refresh THEN "read" ELSE "idle",
                          !.refresh = FALSE]]
      BY <1>4 DEF PatchSaved, Become
    <2>2. Announced(cache) /\ c.refresh = (settings[c.uid] # c.to)
      BY <2>1 DEF Follows, Cached, Decided
    <2>3. Heading(cache)'
      BY <2>1, <1>2, <1>3
    <2>4. commands'[t].pc = IF found /\ c.refresh THEN "read" ELSE "idle"
      BY <2>1, <1>1 DEF Command
    <2>5. ~(found /\ c.refresh) => settings' = settings
      BY <2>1, <2>2, <1>1
    <2>6. ~(found /\ c.refresh) => Announced(cache)'
      BY <2>1, <2>2, <2>5 DEF Announced
    <2> QED BY <2>3, <2>4, <2>6 DEF Follows, Cached, Decided, Refreshing, Sending
  <1>5. CASE TimerInit(t)
    <2>1. commands'[t].pc = "read"
      BY <1>1, <1>5 DEF TimerInit, Become, Command
    <2>2. Heading(cache)'
      BY <1>2, <1>3, <1>5 DEF TimerInit, Idle
    <2> QED BY <2>1, <2>2 DEF Follows, Cached, Decided, Refreshing, Sending
  <1>6. CASE RefreshRead(t)
    <2>1. commands'[t].pc = "install" /\ commands'[t].map = gen_map
      BY <1>1, <1>6 DEF RefreshRead, Become, Command
    <2>2. gen_map' = gen_map
      BY <1>6 DEF RefreshRead, gen_map
    <2>3. Heading(cache)'
      BY <1>2, <1>3, <1>6 DEF RefreshRead
    <2> QED BY <2>1, <2>2, <2>3 DEF Follows, Cached, Decided, Refreshing, Sending
  <1>7. ASSUME AfterRefresh(t) PROVE commands'[t].pc \in {"idle", "overdue"}
    <2>1. PICK due \in SUBSET Uid, pc \in {"idle", "overdue"} :
             Become(t, [commands[t] EXCEPT !.pc = pc, !.map = NoMap,
                                           !.boot = FALSE, !.due = due])
      BY <1>7, Zenon DEF AfterRefresh
    <2> QED BY <2>1, <1>1 DEF Become, Command
  <1>8. ASSUME commands[t].pc \in {"install", "send"}, UNCHANGED userVars,
               cache' = commands[t].map
        PROVE  Announced(cache)'
    <2>1. cache' = gen_map
      BY <1>8 DEF Follows, Refreshing
    <2>2. Announced(gen_map)
      BY <1>1, GenMapAnnounced
    <2> QED BY <2>1, <2>2, <1>8 DEF Announced, userVars
  <1>9. CASE RefreshInstall(t)
    <2>1. /\ commands[t].pc = "install" /\ UNCHANGED <<userVars, channel>>
          /\ commands[t].map = gen_map
      BY <1>9 DEF RefreshInstall, Follows, Refreshing
    <2>2. CASE cache = commands[t].map /\ AfterRefresh(t) /\ UNCHANGED cache
      <3>1. Announced(cache)'
        BY <2>1, <2>2, <1>8
      <3>2. Heading(cache)'
        BY <2>1, <2>2, <1>2, <1>3
      <3> QED BY <3>1, <3>2, <2>2, <1>7 DEF Follows, Cached, Decided, Refreshing, Sending
    <2>3. CASE /\ cache' = commands[t].map
               /\ Become(t, [commands[t] EXCEPT !.pc = "send"])
      <3>1. commands'[t].pc = "send" /\ commands'[t].map = commands[t].map
        BY <2>3, <1>1 DEF Become, Command
      <3>2. gen_map' = gen_map
        BY <2>1 DEF gen_map, userVars
      <3> QED BY <2>1, <2>3, <3>1, <3>2 DEF Follows, Cached, Decided, Refreshing, Sending
    <2> QED BY <2>2, <2>3, <1>9 DEF RefreshInstall
  <1>10. CASE RefreshSend(t)
    <2> DEFINE msg == [type |-> "Apply", map |-> commands[t].map]
    <2>1. /\ commands[t].pc = "send" /\ UNCHANGED <<userVars, cache>>
          /\ channel' = Append(channel, msg) /\ AfterRefresh(t)
      BY <1>10 DEF RefreshSend
    <2>2. cache = commands[t].map
      BY <2>1 DEF Follows, Sending
    <2>3. msg \in Message
      BY <1>1 DEF Command, Message
    <2>4. LastApply(cache)'
      BY <2>1, <2>2, <2>3, <1>1, HeadingSent DEF LastApply
    <2>5. Announced(cache)'
      BY <2>1, <2>2, <1>8
    <2> QED BY <2>1, <2>4, <2>5, <1>7
            DEF Follows, Cached, Decided, Refreshing, Sending, Heading
  <1>11. ASSUME NEW u \in Uid, RunOverdue(t, u) PROVE Follows(t)'
    <2> DEFINE msg == [type |-> "RunNow", uid |-> u]
               rest == commands[t].due \ {u}
    <2>1. /\ commands[t].pc = "overdue" /\ UNCHANGED <<userVars, cache>>
          /\ channel' = Append(channel, msg)
          /\ Become(t, [commands[t] EXCEPT !.due = rest,
                                     !.pc = IF rest = {} THEN "idle" ELSE @])
      BY <1>11 DEF RunOverdue
    <2>2. commands'[t].pc \in {"idle", "overdue"}
      BY <2>1, <1>1 DEF Become, Command
    <2>3. msg \in Message
      BY DEF Message
    <2>4. Announced(cache) /\ Heading(cache)
      BY <2>1 DEF Follows, Cached, Sending
    <2>5. Tracked' = Tracked
      BY <1>3 DEF Tracked
    <2>6. (cache = Tracked' /\ NoApply') \/ LastApply(cache)'
      BY <2>1, <2>3, <2>4, <2>5, <1>1, HeadingSent
    <2>7. Heading(cache)' /\ Announced(cache)'
      BY <2>1, <2>4, <2>6 DEF Heading, Announced, userVars, LastApply
    <2> QED BY <2>2, <2>7 DEF Follows, Cached, Decided, Refreshing, Sending
  <1> QED BY <1>4, <1>5, <1>6, <1>9, <1>10, <1>11 DEF Progress

LEMMA FollowsStep ==
    ASSUME NEW t, Task = {t} PROVE Inv /\ Follows(t) /\ [Next]_vars => Follows(t)'
  <1> SUFFICES ASSUME Inv, Follows(t), [Next]_vars PROVE Follows(t)'
    OBVIOUS
  <1>1. CASE User(t) \/ Progress(t)
    BY <1>1, FollowsUser, FollowsProgress
  <1>2. CASE Receive \/ \E u \in Uid : RunExpiredTask(u) \/ StartUpdate(u) \/ EndUpdate(u)
    <2>1. UNCHANGED <<userVars, commands, cache>>
      BY <1>2 DEF Receive, Apply, RunTaskNow, FinishTask, RunExpiredTask, StartUpdate,
                  EndUpdate
    <2>2. \A c : Heading(c) => Heading(c)'
      BY <1>2, HeadingApply, HeadingServed, HeadingUpdates DEF Receive
    <2> QED BY <2>1, <2>2, FollowsScheduler
  <1>3. CASE UNCHANGED vars
    <2>1. \A c : Heading(c) => Heading(c)'
      BY <1>3 DEF Heading, Tracked, NoApply, LastApply, vars, schedVars
    <2> QED BY <2>1, <1>3, FollowsScheduler DEF vars
  <1> QED BY <1>1, <1>2, <1>3 DEF Next

(* When commands do not overlap, a refresh never leaves the scheduler with *)
(* an outdated map: once nothing is under way it tracks exactly the        *)
(* subscriptions the timer was told of, each at the interval of the        *)
(* settings, for any subscriptions and any sequence of changes.            *)
THEOREM SettingsAreScheduled ==
    ASSUME NEW t, Task = {t} PROVE Spec => []SettingsScheduled
  <1>1. Init => Follows(t)
    BY FollowsInit
  <1>2. Inv /\ Follows(t) /\ [Next]_vars => Follows(t)'
    BY FollowsStep
  <1>3. Follows(t) => SettingsScheduled
    <2> SUFFICES ASSUME Follows(t), Settled PROVE
            /\ cache = Tracked
            /\ \A u \in Uid \ unannounced :
                 IF settings[u] = 0 THEN u \notin DOMAIN tasks
                 ELSE u \in DOMAIN tasks /\ tasks[u].interval = settings[u]
      BY DEF SettingsScheduled, Tracked
    <2>1. commands[t].pc = "idle" /\ NoApply
      BY DEF Settled, NoApply
    <2>2. cache = Tracked /\ Announced(cache)
      BY <2>1 DEF Follows, Cached, Sending, Heading, LastApply, NoApply
    <2> QED BY <2>2 DEF Announced, Tracked
  <1> QED BY <1>1, <1>2, <1>3, InvHolds, PTL DEF Spec

==============================================================================
