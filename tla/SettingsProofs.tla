--------------------------- MODULE SettingsProofs ---------------------------
(***************************************************************************)
(* What holds of the components of MCSettings for any numbers of tasks,    *)
(* connections, saves and steps: the connections of the tray have owners,  *)
(* forms hold what they say, what a dialog saved reaches the system, of    *)
(* the backups only what was agreed to is deleted or restored; and the     *)
(* lemmas from which PagesProofs shows what it says of the tests, the      *)
(* address, the media and the files to pack.                               *)
(***************************************************************************)
EXTENDS MCSettings, SequenceTheorems, FiniteSetTheorems, TLAPS

-----------------------------------------------------------------------------
(* The speed beside the icon of the tray.                                  *)

\* An id is held where it is used, and a stop of the future has not begun.
TrayHeld ==
    /\ \A t \in Y!Tasks : yMade[t] # Y!None => yPc[t] = "inserted"
    /\ \A t \in Y!Tasks : yTaken[t] # Y!None <=> yPc[t] = "disconnect"
    /\ \A k \in Y!Stops : yTaken[k] # Y!None <=> cleanup[k].at = "disconnect"
    /\ \A k \in Y!Stops : k < -ySteps => cleanup[k].at = "none" /\ cleanup[k].task = Y!None

\* A task that was given up is not started again, and only such a task is aborted.
TrayGivenUp ==
    /\ \A k \in Y!Stops : cleanup[k].task # Y!None =>
        cleanup[k].task # speedTask /\ yPc[cleanup[k].task] # "none"
    /\ \A t \in yAborted : t # speedTask
    /\ speedTask # Y!None => yPc[speedTask] # "none"
    /\ \A t \in yAborted : yPc[t] # "none"

\* A task that runs is the one of the handle, or a clean-up waits for it.
TasksCleaned ==
    \A t \in Y!Tasks : Y!Running(t) /\ t # speedTask => \E k \in Y!Taking : cleanup[k].task = t

\* An id in the cell is taken in the end.
IdTaken == speedId # Y!None => Y!TaskRuns \/ Y!Taking # {}

\* The id of a connection is somewhere, or its end is certain.
TrayKept(c) ==
    \/ speedId = c
    \/ \E t \in Y!Tasks : yMade[t] = c
    \/ \E a \in Y!Tasks \cup Y!Stops : yTaken[a] = c
    \/ c \in forced \/ peer[c] = "closed"

TrayAllKept == \A c \in yManager \ (overwritten \cup yDropped) : TrayKept(c)

TrayInv == Y!TypeOK /\ TrayHeld /\ TrayGivenUp /\ TasksCleaned /\ IdTaken /\ Y!EntriesServed /\ TrayAllKept

\* Every action keeps the types.
LEMMA TrayTypeStep ==
    ASSUME TrayTasks \in Nat \ {0}, TrayConns \in Nat, TrayStops \in Nat,
           Y!TypeOK, TrayHeld, Y!Next
    PROVE  Y!TypeOK'
<1>1. CASE Y!StartTask
  BY <1>1 DEF Y!StartTask, Y!UserStep, Y!TaskRuns, Y!Running, Y!tray, Y!sockets, Y!notes, Y!TypeOK, TrayHeld, Y!None,
      Y!Tasks, Y!Conns, Y!Stops
<1>2. CASE Y!StopTask
  BY <1>2 DEF Y!StopTask, Y!UserStep, Y!tray, Y!sockets, Y!notes, Y!TypeOK, TrayHeld, Y!None, Y!Tasks, Y!Conns, Y!Stops
<1>3. CASE Y!ClearAllWsConnections
  BY <1>3 DEF Y!ClearAllWsConnections, Y!UserStep, Y!Unlocked, Y!tray, Y!sockets, Y!notes, Y!TypeOK, TrayHeld,
      Y!None, Y!Tasks, Y!Conns, Y!Stops
<1>4. CASE Y!Exit
  BY <1>4 DEF Y!Exit, Y!UserStep, Y!tray, Y!sockets, Y!notes, Y!TypeOK, TrayHeld, Y!None, Y!Tasks, Y!Conns, Y!Stops
<1>5. ASSUME NEW t \in Y!Tasks, Y!Connected(t) PROVE Y!TypeOK'
  BY <1>5 DEF Y!Connected, Y!Insert, Y!Unlocked, Y!tray, Y!sockets, Y!notes, Y!TypeOK, TrayHeld, Y!None, Y!Tasks,
      Y!Conns, Y!Stops
<1>6. ASSUME NEW t \in Y!Tasks, Y!Stored(t) PROVE Y!TypeOK'
  BY <1>6 DEF Y!Stored, Y!SetSpeedConnectionId, Y!tray, Y!sockets, Y!notes, Y!TypeOK, TrayHeld, Y!None, Y!Tasks,
      Y!Conns, Y!Stops
<1>7. ASSUME NEW t \in Y!Tasks, Y!ConnectFailed(t) PROVE Y!TypeOK'
  BY <1>7 DEF Y!ConnectFailed, Y!tray, Y!sockets, Y!notes, Y!TypeOK, TrayHeld, Y!None, Y!Tasks, Y!Conns, Y!Stops
<1>8. ASSUME NEW t \in Y!Tasks, Y!ListeningEnds(t) PROVE Y!TypeOK'
  BY <1>8 DEF Y!ListeningEnds, Y!Take, Y!tray, Y!sockets, Y!notes, Y!TypeOK, TrayHeld, Y!None, Y!Tasks, Y!Conns, Y!Stops
<1>9. ASSUME NEW t \in Y!Tasks, Y!LockedByTask(t) PROVE Y!TypeOK'
  BY <1>9 DEF Y!LockedByTask, Y!Lock, Y!tray, Y!sockets, Y!notes, Y!TypeOK, TrayHeld, Y!None, Y!Tasks, Y!Conns, Y!Stops
<1>10. ASSUME NEW t \in Y!Tasks, Y!DisconnectedByTask(t) PROVE Y!TypeOK'
  <2>1. t \in Y!Tasks \cup Y!Stops /\ yTaken[t] \in Y!Conns
    BY <1>10 DEF Y!DisconnectedByTask, Y!TypeOK, TrayHeld
  <2>2. yTaken' \in [Y!Tasks \cup Y!Stops -> Y!Conns \cup {Y!None}]
    BY <1>10, <2>1 DEF Y!DisconnectedByTask, Y!TypeOK
  <2>3. UNCHANGED <<yManager, reader, peer>> /\ forced' \in {forced, forced \cup {yTaken[t]}} /\ holder' \in {holder, Y!None}
    BY <1>10 DEF Y!DisconnectedByTask, Y!NotFound, Y!Sent, Y!sockets
  <2>4. yPc' \in [Y!Tasks -> {"none", "turn", "connect", "inserted", "listen", "disconnect", "ended"}]
    BY <1>10 DEF Y!DisconnectedByTask, Y!TypeOK
  <2>5. QED
    BY <1>10, <2>1, <2>2, <2>3, <2>4 DEF Y!DisconnectedByTask, Y!TypeOK, Y!notes
<1>11. ASSUME NEW t \in Y!Tasks, Y!Retry(t) PROVE Y!TypeOK'
  BY <1>11 DEF Y!Retry, Y!tray, Y!sockets, Y!notes, Y!TypeOK, TrayHeld, Y!None, Y!Tasks, Y!Conns, Y!Stops
<1>12. ASSUME NEW t \in Y!Tasks, Y!LeaveLoop(t) PROVE Y!TypeOK'
  BY <1>12 DEF Y!LeaveLoop, Y!SetSpeedConnectionId, Y!tray, Y!sockets, Y!notes, Y!TypeOK, TrayHeld, Y!None, Y!Tasks,
      Y!Conns, Y!Stops
<1>13. ASSUME NEW t \in Y!Tasks, Y!Aborted(t) PROVE Y!TypeOK'
  BY <1>13 DEF Y!Aborted, Y!Running, Y!tray, Y!sockets, Y!notes, Y!TypeOK, TrayHeld, Y!None, Y!Tasks, Y!Conns, Y!Stops
<1>14. ASSUME NEW k \in Y!Stops, Y!Abort(k) PROVE Y!TypeOK'
  BY <1>14 DEF Y!Abort, Y!tray, Y!sockets, Y!notes, Y!TypeOK, TrayHeld, Y!None, Y!Tasks, Y!Conns, Y!Stops
<1>15. ASSUME NEW k \in Y!Stops, Y!TakenByStop(k) PROVE Y!TypeOK'
  BY <1>15 DEF Y!TakenByStop, Y!Joined, Y!Take, Y!tray, Y!sockets, Y!notes, Y!TypeOK, TrayHeld, Y!None, Y!Tasks, Y!Conns,
      Y!Stops
<1>16. ASSUME NEW k \in Y!Stops, Y!LockedByStop(k) PROVE Y!TypeOK'
  BY <1>16 DEF Y!LockedByStop, Y!Lock, Y!tray, Y!sockets, Y!notes, Y!TypeOK, TrayHeld, Y!None, Y!Tasks, Y!Conns, Y!Stops
<1>17. ASSUME NEW k \in Y!Stops, Y!DisconnectedByStop(k) PROVE Y!TypeOK'
  <2>1. k \in Y!Tasks \cup Y!Stops /\ yTaken[k] \in Y!Conns
    BY <1>17 DEF Y!DisconnectedByStop, Y!TypeOK, TrayHeld
  <2>2. yTaken' \in [Y!Tasks \cup Y!Stops -> Y!Conns \cup {Y!None}]
    BY <1>17, <2>1 DEF Y!DisconnectedByStop, Y!TypeOK
  <2>3. UNCHANGED <<yManager, reader, peer>> /\ forced' \in {forced, forced \cup {yTaken[k]}} /\ holder' \in {holder, Y!None}
    BY <1>17 DEF Y!DisconnectedByStop, Y!NotFound, Y!Sent, Y!sockets
  <2>4. cleanup' \in [Y!Stops -> [at : {"none", "spawned", "wait", "disconnect", "done"}, task : Y!Tasks \cup {Y!None}]]
    BY <1>17 DEF Y!DisconnectedByStop, Y!TypeOK
  <2>5. QED
    BY <1>17, <2>1, <2>2, <2>3, <2>4 DEF Y!DisconnectedByStop, Y!TypeOK, Y!notes
<1>18. ASSUME NEW c \in Y!Conns, Y!Look(c) PROVE Y!TypeOK'
  BY <1>18 DEF Y!Look, Y!Unlocked, Y!tray, Y!sockets, Y!notes, Y!TypeOK, TrayHeld, Y!None, Y!Tasks, Y!Conns, Y!Stops
<1>19. ASSUME NEW c \in Y!Conns, Y!Message(c) PROVE Y!TypeOK'
  BY <1>19 DEF Y!Message, Y!tray, Y!sockets, Y!notes, Y!TypeOK, TrayHeld, Y!None, Y!Tasks, Y!Conns, Y!Stops
<1>20. ASSUME NEW c \in Y!Conns, Y!Close(c) PROVE Y!TypeOK'
  BY <1>20 DEF Y!Close, Y!tray, Y!sockets, Y!notes, Y!TypeOK, TrayHeld, Y!None, Y!Tasks, Y!Conns, Y!Stops
<1>21. ASSUME NEW c \in Y!Conns, Y!Remove(c) PROVE Y!TypeOK'
  BY <1>21 DEF Y!Remove, Y!Unlocked, Y!tray, Y!sockets, Y!notes, Y!TypeOK, TrayHeld, Y!None, Y!Tasks, Y!Conns, Y!Stops
<1>22. ASSUME NEW c \in Y!Conns, Y!PeerCloses(c) PROVE Y!TypeOK'
  BY <1>22 DEF Y!PeerCloses, Y!tray, Y!sockets, Y!notes, Y!TypeOK, TrayHeld, Y!None, Y!Tasks, Y!Conns, Y!Stops
<1>23. ASSUME NEW c \in Y!Conns, Y!ForceRemove(c) PROVE Y!TypeOK'
  BY <1>23 DEF Y!ForceRemove, Y!Unlocked, Y!tray, Y!sockets, Y!notes, Y!TypeOK, TrayHeld, Y!None, Y!Tasks, Y!Conns, Y!Stops
<1>24. QED
  BY <1>1, <1>2, <1>3, <1>4, <1>5, <1>6, <1>7, <1>8, <1>9, <1>10, <1>11, <1>12, <1>13, <1>14,
      <1>15, <1>16, <1>17, <1>18, <1>19, <1>20, <1>21, <1>22, <1>23 DEF Y!Next

\* Every action keeps ids where they are held, and tasks apart from those given up.
LEMMA TrayGivenUpStep ==
    ASSUME TrayTasks \in Nat \ {0}, TrayConns \in Nat, TrayStops \in Nat,
           Y!TypeOK, TrayHeld, TrayGivenUp, Y!Next
    PROVE  (TrayHeld /\ TrayGivenUp)'
<1>1. CASE Y!StartTask
  BY <1>1 DEF Y!StartTask, Y!UserStep, Y!TaskRuns, Y!Running, Y!tray, Y!sockets, Y!notes, Y!TypeOK, TrayHeld,
      TrayGivenUp, Y!None, Y!Tasks, Y!Conns, Y!Stops
<1>2. CASE Y!StopTask
  BY <1>2 DEF Y!StopTask, Y!UserStep, Y!tray, Y!sockets, Y!notes, Y!TypeOK, TrayHeld, TrayGivenUp, Y!None, Y!Tasks,
      Y!Conns, Y!Stops
<1>3. CASE Y!ClearAllWsConnections
  BY <1>3 DEF Y!ClearAllWsConnections, Y!UserStep, Y!Unlocked, Y!tray, Y!sockets, Y!notes, Y!TypeOK, TrayHeld,
      TrayGivenUp, Y!None, Y!Tasks, Y!Conns, Y!Stops
<1>4. CASE Y!Exit
  BY <1>4 DEF Y!Exit, Y!UserStep, Y!tray, Y!sockets, Y!notes, Y!TypeOK, TrayHeld, TrayGivenUp, Y!None, Y!Tasks, Y!Conns, Y!Stops
<1>5. ASSUME NEW t \in Y!Tasks, Y!Connected(t) PROVE (TrayHeld /\ TrayGivenUp)'
  BY <1>5 DEF Y!Connected, Y!Insert, Y!Unlocked, Y!tray, Y!sockets, Y!notes, Y!TypeOK, TrayHeld, TrayGivenUp, Y!None,
      Y!Tasks, Y!Conns, Y!Stops
<1>6. ASSUME NEW t \in Y!Tasks, Y!Stored(t) PROVE (TrayHeld /\ TrayGivenUp)'
  BY <1>6 DEF Y!Stored, Y!SetSpeedConnectionId, Y!tray, Y!sockets, Y!notes, Y!TypeOK, TrayHeld, TrayGivenUp, Y!None,
      Y!Tasks, Y!Conns, Y!Stops
<1>7. ASSUME NEW t \in Y!Tasks, Y!ConnectFailed(t) PROVE (TrayHeld /\ TrayGivenUp)'
  BY <1>7 DEF Y!ConnectFailed, Y!tray, Y!sockets, Y!notes, Y!TypeOK, TrayHeld, TrayGivenUp, Y!None, Y!Tasks, Y!Conns, Y!Stops
<1>8. ASSUME NEW t \in Y!Tasks, Y!ListeningEnds(t) PROVE (TrayHeld /\ TrayGivenUp)'
  BY <1>8 DEF Y!ListeningEnds, Y!Take, Y!tray, Y!sockets, Y!notes, Y!TypeOK, TrayHeld, TrayGivenUp, Y!None, Y!Tasks,
      Y!Conns, Y!Stops
<1>9. ASSUME NEW t \in Y!Tasks, Y!LockedByTask(t) PROVE (TrayHeld /\ TrayGivenUp)'
  BY <1>9 DEF Y!LockedByTask, Y!Lock, Y!tray, Y!sockets, Y!notes, Y!TypeOK, TrayHeld, TrayGivenUp, Y!None, Y!Tasks,
      Y!Conns, Y!Stops
<1>10. ASSUME NEW t \in Y!Tasks, Y!DisconnectedByTask(t) PROVE (TrayHeld /\ TrayGivenUp)'
  BY <1>10 DEF Y!DisconnectedByTask, Y!NotFound, Y!Sent, Y!Unlocked, Y!tray, Y!sockets, Y!notes, Y!TypeOK, TrayHeld,
      TrayGivenUp, Y!None, Y!Tasks, Y!Conns, Y!Stops
<1>11. ASSUME NEW t \in Y!Tasks, Y!Retry(t) PROVE (TrayHeld /\ TrayGivenUp)'
  BY <1>11 DEF Y!Retry, Y!tray, Y!sockets, Y!notes, Y!TypeOK, TrayHeld, TrayGivenUp, Y!None, Y!Tasks, Y!Conns, Y!Stops
<1>12. ASSUME NEW t \in Y!Tasks, Y!LeaveLoop(t) PROVE (TrayHeld /\ TrayGivenUp)'
  BY <1>12 DEF Y!LeaveLoop, Y!SetSpeedConnectionId, Y!tray, Y!sockets, Y!notes, Y!TypeOK, TrayHeld, TrayGivenUp,
      Y!None, Y!Tasks, Y!Conns, Y!Stops
<1>13. ASSUME NEW t \in Y!Tasks, Y!Aborted(t) PROVE (TrayHeld /\ TrayGivenUp)'
  BY <1>13 DEF Y!Aborted, Y!Running, Y!tray, Y!sockets, Y!notes, Y!TypeOK, TrayHeld, TrayGivenUp, Y!None, Y!Tasks, Y!Conns,
      Y!Stops
<1>14. ASSUME NEW k \in Y!Stops, Y!Abort(k) PROVE (TrayHeld /\ TrayGivenUp)'
  BY <1>14 DEF Y!Abort, Y!tray, Y!sockets, Y!notes, Y!TypeOK, TrayHeld, TrayGivenUp, Y!None, Y!Tasks, Y!Conns, Y!Stops
<1>15. ASSUME NEW k \in Y!Stops, Y!TakenByStop(k) PROVE (TrayHeld /\ TrayGivenUp)'
  BY <1>15 DEF Y!TakenByStop, Y!Joined, Y!Take, Y!tray, Y!sockets, Y!notes, Y!TypeOK, TrayHeld, TrayGivenUp, Y!None,
      Y!Tasks, Y!Conns, Y!Stops
<1>16. ASSUME NEW k \in Y!Stops, Y!LockedByStop(k) PROVE (TrayHeld /\ TrayGivenUp)'
  BY <1>16 DEF Y!LockedByStop, Y!Lock, Y!tray, Y!sockets, Y!notes, Y!TypeOK, TrayHeld, TrayGivenUp, Y!None, Y!Tasks,
      Y!Conns, Y!Stops
<1>17. ASSUME NEW k \in Y!Stops, Y!DisconnectedByStop(k) PROVE (TrayHeld /\ TrayGivenUp)'
  BY <1>17 DEF Y!DisconnectedByStop, Y!NotFound, Y!Sent, Y!Unlocked, Y!tray, Y!sockets, Y!notes, Y!TypeOK, TrayHeld,
      TrayGivenUp, Y!None, Y!Tasks, Y!Conns, Y!Stops
<1>18. ASSUME NEW c \in Y!Conns, Y!Look(c) PROVE (TrayHeld /\ TrayGivenUp)'
  BY <1>18 DEF Y!Look, Y!Unlocked, Y!tray, Y!sockets, Y!notes, Y!TypeOK, TrayHeld, TrayGivenUp, Y!None, Y!Tasks, Y!Conns,
      Y!Stops
<1>19. ASSUME NEW c \in Y!Conns, Y!Message(c) PROVE (TrayHeld /\ TrayGivenUp)'
  BY <1>19 DEF Y!Message, Y!tray, Y!sockets, Y!notes, Y!TypeOK, TrayHeld, TrayGivenUp, Y!None, Y!Tasks, Y!Conns, Y!Stops
<1>20. ASSUME NEW c \in Y!Conns, Y!Close(c) PROVE (TrayHeld /\ TrayGivenUp)'
  BY <1>20 DEF Y!Close, Y!tray, Y!sockets, Y!notes, Y!TypeOK, TrayHeld, TrayGivenUp, Y!None, Y!Tasks, Y!Conns, Y!Stops
<1>21. ASSUME NEW c \in Y!Conns, Y!Remove(c) PROVE (TrayHeld /\ TrayGivenUp)'
  BY <1>21 DEF Y!Remove, Y!Unlocked, Y!tray, Y!sockets, Y!notes, Y!TypeOK, TrayHeld, TrayGivenUp, Y!None, Y!Tasks, Y!Conns,
      Y!Stops
<1>22. ASSUME NEW c \in Y!Conns, Y!PeerCloses(c) PROVE (TrayHeld /\ TrayGivenUp)'
  BY <1>22 DEF Y!PeerCloses, Y!tray, Y!sockets, Y!notes, Y!TypeOK, TrayHeld, TrayGivenUp, Y!None, Y!Tasks, Y!Conns, Y!Stops
<1>23. ASSUME NEW c \in Y!Conns, Y!ForceRemove(c) PROVE (TrayHeld /\ TrayGivenUp)'
  BY <1>23 DEF Y!ForceRemove, Y!Unlocked, Y!tray, Y!sockets, Y!notes, Y!TypeOK, TrayHeld, TrayGivenUp, Y!None, Y!Tasks,
      Y!Conns, Y!Stops
<1>24. QED
  BY <1>1, <1>2, <1>3, <1>4, <1>5, <1>6, <1>7, <1>8, <1>9, <1>10, <1>11, <1>12, <1>13, <1>14,
      <1>15, <1>16, <1>17, <1>18, <1>19, <1>20, <1>21, <1>22, <1>23 DEF Y!Next

\* Every action leaves tasks and ids to somebody who ends them.
LEMMA TrayCleanStep ==
    ASSUME TrayTasks \in Nat \ {0}, TrayConns \in Nat, TrayStops \in Nat,
           Y!TypeOK, TrayHeld, TrayGivenUp, TasksCleaned, IdTaken, Y!Next
    PROVE  (TasksCleaned /\ IdTaken)'
<1>1. CASE Y!StartTask
  BY <1>1 DEF Y!StartTask, Y!UserStep, Y!TaskRuns, Y!Running, Y!tray, Y!sockets, Y!notes, Y!TypeOK, TrayHeld,
      TrayGivenUp, TasksCleaned, IdTaken, Y!TaskRuns, Y!Running, Y!Taking, Y!None, Y!Tasks, Y!Conns, Y!Stops
<1>2. CASE Y!StopTask
  <2> DEFINE k == -(ySteps')
  <2>1. k \in Y!Stops /\ ySteps' = ySteps + 1 /\ k = -ySteps' /\ speedTask' = Y!None
    BY <1>2 DEF Y!StopTask, Y!UserStep, Y!tray, Y!sockets, Y!notes, Y!TypeOK, TrayHeld, TrayGivenUp, TasksCleaned,
        IdTaken, Y!TaskRuns, Y!Running, Y!Taking, Y!None, Y!Tasks, Y!Conns, Y!Stops
  <2>2. cleanup' = [cleanup EXCEPT ![k] = [at |-> "spawned", task |-> speedTask]]
    BY <1>2 DEF Y!StopTask
  <2>3. cleanup'[k] = [at |-> "spawned", task |-> speedTask] /\ \A i \in Y!Stops : i # k => cleanup'[i] = cleanup[i]
    BY <2>1, <2>2 DEF Y!TypeOK
  <2>4. cleanup[k].at = "none"
    BY <2>1 DEF TrayHeld, Y!TypeOK, Y!Stops
  <2>5. k \in Y!Taking' /\ yPc' = yPc
    BY <2>1, <2>3, <1>2 DEF Y!StopTask, Y!Taking
  <2>6. Y!Taking \subseteq Y!Taking'
    BY <2>3, <2>5 DEF Y!Taking
  <2>7. ASSUME NEW t \in Y!Tasks, Y!Running(t)' PROVE \E i \in Y!Taking' : cleanup'[i].task = t
    <3>1. CASE t = speedTask
      BY <3>1, <2>3, <2>5
    <3>2. CASE t # speedTask
      <4>1. PICK i \in Y!Taking : cleanup[i].task = t
        BY <3>2, <2>5, <2>7 DEF TasksCleaned, Y!Running
      <4>2. i # k
        BY <4>1, <2>4 DEF Y!Taking
      <4>3. QED
        BY <4>1, <4>2, <2>3, <2>6 DEF Y!Taking
    <3>3. QED
      BY <3>1, <3>2
  <2>8. QED
    BY <2>5, <2>7 DEF TasksCleaned, IdTaken
<1>3. CASE Y!ClearAllWsConnections
  BY <1>3 DEF Y!ClearAllWsConnections, Y!UserStep, Y!Unlocked, Y!tray, Y!sockets, Y!notes, Y!TypeOK, TrayHeld,
      TrayGivenUp, TasksCleaned, IdTaken, Y!TaskRuns, Y!Running, Y!Taking, Y!None, Y!Tasks, Y!Conns, Y!Stops
<1>4. CASE Y!Exit
  BY <1>4 DEF Y!Exit, Y!UserStep, Y!tray, Y!sockets, Y!notes, Y!TypeOK, TrayHeld, TrayGivenUp, TasksCleaned, IdTaken,
      Y!TaskRuns, Y!Running, Y!Taking, Y!None, Y!Tasks, Y!Conns, Y!Stops
<1>5. ASSUME NEW t \in Y!Tasks, Y!Connected(t) PROVE (TasksCleaned /\ IdTaken)'
  BY <1>5 DEF Y!Connected, Y!Insert, Y!Unlocked, Y!tray, Y!sockets, Y!notes, Y!TypeOK, TrayHeld, TrayGivenUp,
      TasksCleaned, IdTaken, Y!TaskRuns, Y!Running, Y!Taking, Y!None, Y!Tasks, Y!Conns, Y!Stops
<1>6. ASSUME NEW t \in Y!Tasks, Y!Stored(t) PROVE (TasksCleaned /\ IdTaken)'
  <2>1. Y!Running(t) /\ Y!Running(t)' /\ \A u \in Y!Tasks : Y!Running(u)' <=> Y!Running(u)
    BY <1>6 DEF Y!Stored, Y!SetSpeedConnectionId, Y!tray, Y!sockets, Y!notes, Y!TypeOK, TrayHeld, TrayGivenUp,
        TasksCleaned, IdTaken, Y!TaskRuns, Y!Running, Y!Taking, Y!None, Y!Tasks, Y!Conns, Y!Stops
  <2>2. UNCHANGED <<speedTask, cleanup>> /\ Y!Taking' = Y!Taking
    BY <1>6 DEF Y!Stored, Y!Taking
  <2>3. TasksCleaned'
    BY <2>1, <2>2 DEF TasksCleaned
  <2>4. t = speedTask => Y!TaskRuns'
    BY <2>1, <2>2 DEF Y!TaskRuns, Y!None, Y!Tasks
  <2>5. t # speedTask => Y!Taking' # {}
    BY <2>1, <2>2 DEF TasksCleaned
  <2>6. QED
    BY <2>3, <2>4, <2>5 DEF IdTaken
<1>7. ASSUME NEW t \in Y!Tasks, Y!ConnectFailed(t) PROVE (TasksCleaned /\ IdTaken)'
  BY <1>7 DEF Y!ConnectFailed, Y!tray, Y!sockets, Y!notes, Y!TypeOK, TrayHeld, TrayGivenUp, TasksCleaned, IdTaken,
      Y!TaskRuns, Y!Running, Y!Taking, Y!None, Y!Tasks, Y!Conns, Y!Stops
<1>8. ASSUME NEW t \in Y!Tasks, Y!ListeningEnds(t) PROVE (TasksCleaned /\ IdTaken)'
  BY <1>8 DEF Y!ListeningEnds, Y!Take, Y!tray, Y!sockets, Y!notes, Y!TypeOK, TrayHeld, TrayGivenUp, TasksCleaned,
      IdTaken, Y!TaskRuns, Y!Running, Y!Taking, Y!None, Y!Tasks, Y!Conns, Y!Stops
<1>9. ASSUME NEW t \in Y!Tasks, Y!LockedByTask(t) PROVE (TasksCleaned /\ IdTaken)'
  BY <1>9 DEF Y!LockedByTask, Y!Lock, Y!tray, Y!sockets, Y!notes, Y!TypeOK, TrayHeld, TrayGivenUp, TasksCleaned,
      IdTaken, Y!TaskRuns, Y!Running, Y!Taking, Y!None, Y!Tasks, Y!Conns, Y!Stops
<1>10. ASSUME NEW t \in Y!Tasks, Y!DisconnectedByTask(t) PROVE (TasksCleaned /\ IdTaken)'
  BY <1>10 DEF Y!DisconnectedByTask, Y!NotFound, Y!Sent, Y!Unlocked, Y!tray, Y!sockets, Y!notes, Y!TypeOK, TrayHeld,
      TrayGivenUp, TasksCleaned, IdTaken, Y!TaskRuns, Y!Running, Y!Taking, Y!None, Y!Tasks, Y!Conns, Y!Stops
<1>11. ASSUME NEW t \in Y!Tasks, Y!Retry(t) PROVE (TasksCleaned /\ IdTaken)'
  BY <1>11 DEF Y!Retry, Y!tray, Y!sockets, Y!notes, Y!TypeOK, TrayHeld, TrayGivenUp, TasksCleaned, IdTaken,
      Y!TaskRuns, Y!Running, Y!Taking, Y!None, Y!Tasks, Y!Conns, Y!Stops
<1>12. ASSUME NEW t \in Y!Tasks, Y!LeaveLoop(t) PROVE (TasksCleaned /\ IdTaken)'
  BY <1>12 DEF Y!LeaveLoop, Y!SetSpeedConnectionId, Y!tray, Y!sockets, Y!notes, Y!TypeOK, TrayHeld, TrayGivenUp,
      TasksCleaned, IdTaken, Y!TaskRuns, Y!Running, Y!Taking, Y!None, Y!Tasks, Y!Conns, Y!Stops
<1>13. ASSUME NEW t \in Y!Tasks, Y!Aborted(t) PROVE (TasksCleaned /\ IdTaken)'
  BY <1>13 DEF Y!Aborted, Y!Running, Y!tray, Y!sockets, Y!notes, Y!TypeOK, TrayHeld, TrayGivenUp, TasksCleaned,
      IdTaken, Y!TaskRuns, Y!Running, Y!Taking, Y!None, Y!Tasks, Y!Conns, Y!Stops
<1>14. ASSUME NEW k \in Y!Stops, Y!Abort(k) PROVE (TasksCleaned /\ IdTaken)'
  BY <1>14 DEF Y!Abort, Y!tray, Y!sockets, Y!notes, Y!TypeOK, TrayHeld, TrayGivenUp, TasksCleaned, IdTaken,
      Y!TaskRuns, Y!Running, Y!Taking, Y!None, Y!Tasks, Y!Conns, Y!Stops
<1>15. ASSUME NEW k \in Y!Stops, Y!TakenByStop(k) PROVE (TasksCleaned /\ IdTaken)'
  BY <1>15 DEF Y!TakenByStop, Y!Joined, Y!Take, Y!tray, Y!sockets, Y!notes, Y!TypeOK, TrayHeld, TrayGivenUp,
      TasksCleaned, IdTaken, Y!TaskRuns, Y!Running, Y!Taking, Y!None, Y!Tasks, Y!Conns, Y!Stops
<1>16. ASSUME NEW k \in Y!Stops, Y!LockedByStop(k) PROVE (TasksCleaned /\ IdTaken)'
  BY <1>16 DEF Y!LockedByStop, Y!Lock, Y!tray, Y!sockets, Y!notes, Y!TypeOK, TrayHeld, TrayGivenUp, TasksCleaned,
      IdTaken, Y!TaskRuns, Y!Running, Y!Taking, Y!None, Y!Tasks, Y!Conns, Y!Stops
<1>17. ASSUME NEW k \in Y!Stops, Y!DisconnectedByStop(k) PROVE (TasksCleaned /\ IdTaken)'
  <2>1. UNCHANGED <<speedTask, speedId, yPc>> /\ cleanup' = [cleanup EXCEPT ![k].at = "done"] /\ cleanup[k].at = "disconnect"
    BY <1>17 DEF Y!DisconnectedByStop
  <2>2. \A i \in Y!Taking : i \in Y!Taking' /\ cleanup'[i].task = cleanup[i].task
    BY <2>1 DEF Y!Taking, Y!TypeOK
  <2>3. TasksCleaned'
    BY <2>1, <2>2 DEF TasksCleaned, Y!Running
  <2>4. QED
    BY <2>1, <2>2, <2>3 DEF IdTaken, Y!TaskRuns, Y!Running
<1>18. ASSUME NEW c \in Y!Conns, Y!Look(c) PROVE (TasksCleaned /\ IdTaken)'
  BY <1>18 DEF Y!Look, Y!Unlocked, Y!tray, Y!sockets, Y!notes, Y!TypeOK, TrayHeld, TrayGivenUp, TasksCleaned,
      IdTaken, Y!TaskRuns, Y!Running, Y!Taking, Y!None, Y!Tasks, Y!Conns, Y!Stops
<1>19. ASSUME NEW c \in Y!Conns, Y!Message(c) PROVE (TasksCleaned /\ IdTaken)'
  BY <1>19 DEF Y!Message, Y!tray, Y!sockets, Y!notes, Y!TypeOK, TrayHeld, TrayGivenUp, TasksCleaned, IdTaken,
      Y!TaskRuns, Y!Running, Y!Taking, Y!None, Y!Tasks, Y!Conns, Y!Stops
<1>20. ASSUME NEW c \in Y!Conns, Y!Close(c) PROVE (TasksCleaned /\ IdTaken)'
  BY <1>20 DEF Y!Close, Y!tray, Y!sockets, Y!notes, Y!TypeOK, TrayHeld, TrayGivenUp, TasksCleaned, IdTaken,
      Y!TaskRuns, Y!Running, Y!Taking, Y!None, Y!Tasks, Y!Conns, Y!Stops
<1>21. ASSUME NEW c \in Y!Conns, Y!Remove(c) PROVE (TasksCleaned /\ IdTaken)'
  BY <1>21 DEF Y!Remove, Y!Unlocked, Y!tray, Y!sockets, Y!notes, Y!TypeOK, TrayHeld, TrayGivenUp, TasksCleaned,
      IdTaken, Y!TaskRuns, Y!Running, Y!Taking, Y!None, Y!Tasks, Y!Conns, Y!Stops
<1>22. ASSUME NEW c \in Y!Conns, Y!PeerCloses(c) PROVE (TasksCleaned /\ IdTaken)'
  BY <1>22 DEF Y!PeerCloses, Y!tray, Y!sockets, Y!notes, Y!TypeOK, TrayHeld, TrayGivenUp, TasksCleaned, IdTaken,
      Y!TaskRuns, Y!Running, Y!Taking, Y!None, Y!Tasks, Y!Conns, Y!Stops
<1>23. ASSUME NEW c \in Y!Conns, Y!ForceRemove(c) PROVE (TasksCleaned /\ IdTaken)'
  BY <1>23 DEF Y!ForceRemove, Y!Unlocked, Y!tray, Y!sockets, Y!notes, Y!TypeOK, TrayHeld, TrayGivenUp, TasksCleaned,
      IdTaken, Y!TaskRuns, Y!Running, Y!Taking, Y!None, Y!Tasks, Y!Conns, Y!Stops
<1>24. QED
  BY <1>1, <1>2, <1>3, <1>4, <1>5, <1>6, <1>7, <1>8, <1>9, <1>10, <1>11, <1>12, <1>13, <1>14,
      <1>15, <1>16, <1>17, <1>18, <1>19, <1>20, <1>21, <1>22, <1>23 DEF Y!Next

\* Every action keeps the readers of the map.
LEMMA TrayServedStep ==
    ASSUME TrayTasks \in Nat \ {0}, TrayConns \in Nat, TrayStops \in Nat,
           Y!TypeOK, Y!EntriesServed, Y!Next
    PROVE  Y!EntriesServed'
<1>1. CASE Y!StartTask
  BY <1>1 DEF Y!StartTask, Y!UserStep, Y!TaskRuns, Y!Running, Y!tray, Y!sockets, Y!notes, Y!TypeOK,
      Y!EntriesServed, Y!None, Y!Tasks, Y!Conns, Y!Stops
<1>2. CASE Y!StopTask
  BY <1>2 DEF Y!StopTask, Y!UserStep, Y!tray, Y!sockets, Y!notes, Y!TypeOK, Y!EntriesServed, Y!None, Y!Tasks,
      Y!Conns, Y!Stops
<1>3. CASE Y!ClearAllWsConnections
  BY <1>3 DEF Y!ClearAllWsConnections, Y!UserStep, Y!Unlocked, Y!tray, Y!sockets, Y!notes, Y!TypeOK,
      Y!EntriesServed, Y!None, Y!Tasks, Y!Conns, Y!Stops
<1>4. CASE Y!Exit
  BY <1>4 DEF Y!Exit, Y!UserStep, Y!tray, Y!sockets, Y!notes, Y!TypeOK, Y!EntriesServed, Y!None, Y!Tasks, Y!Conns, Y!Stops
<1>5. ASSUME NEW t \in Y!Tasks, Y!Connected(t) PROVE Y!EntriesServed'
  <2>1. PICK c \in Y!Conns : Y!Insert(c)
    BY <1>5 DEF Y!Connected
  <2>2. yManager' = yManager \cup {c} /\ reader' = [reader EXCEPT ![c] = "check"]
    BY <2>1 DEF Y!Insert
  <2>3. QED
    BY <2>2 DEF Y!EntriesServed, Y!TypeOK
<1>6. ASSUME NEW t \in Y!Tasks, Y!Stored(t) PROVE Y!EntriesServed'
  BY <1>6 DEF Y!Stored, Y!SetSpeedConnectionId, Y!tray, Y!sockets, Y!notes, Y!TypeOK, Y!EntriesServed, Y!None,
      Y!Tasks, Y!Conns, Y!Stops
<1>7. ASSUME NEW t \in Y!Tasks, Y!ConnectFailed(t) PROVE Y!EntriesServed'
  BY <1>7 DEF Y!ConnectFailed, Y!tray, Y!sockets, Y!notes, Y!TypeOK, Y!EntriesServed, Y!None, Y!Tasks, Y!Conns, Y!Stops
<1>8. ASSUME NEW t \in Y!Tasks, Y!ListeningEnds(t) PROVE Y!EntriesServed'
  BY <1>8 DEF Y!ListeningEnds, Y!Take, Y!tray, Y!sockets, Y!notes, Y!TypeOK, Y!EntriesServed, Y!None, Y!Tasks,
      Y!Conns, Y!Stops
<1>9. ASSUME NEW t \in Y!Tasks, Y!LockedByTask(t) PROVE Y!EntriesServed'
  BY <1>9 DEF Y!LockedByTask, Y!Lock, Y!tray, Y!sockets, Y!notes, Y!TypeOK, Y!EntriesServed, Y!None, Y!Tasks,
      Y!Conns, Y!Stops
<1>10. ASSUME NEW t \in Y!Tasks, Y!DisconnectedByTask(t) PROVE Y!EntriesServed'
  BY <1>10 DEF Y!DisconnectedByTask, Y!NotFound, Y!Sent, Y!Unlocked, Y!tray, Y!sockets, Y!notes, Y!TypeOK,
      Y!EntriesServed, Y!None, Y!Tasks, Y!Conns, Y!Stops
<1>11. ASSUME NEW t \in Y!Tasks, Y!Retry(t) PROVE Y!EntriesServed'
  BY <1>11 DEF Y!Retry, Y!tray, Y!sockets, Y!notes, Y!TypeOK, Y!EntriesServed, Y!None, Y!Tasks, Y!Conns, Y!Stops
<1>12. ASSUME NEW t \in Y!Tasks, Y!LeaveLoop(t) PROVE Y!EntriesServed'
  BY <1>12 DEF Y!LeaveLoop, Y!SetSpeedConnectionId, Y!tray, Y!sockets, Y!notes, Y!TypeOK, Y!EntriesServed,
      Y!None, Y!Tasks, Y!Conns, Y!Stops
<1>13. ASSUME NEW t \in Y!Tasks, Y!Aborted(t) PROVE Y!EntriesServed'
  BY <1>13 DEF Y!Aborted, Y!Running, Y!tray, Y!sockets, Y!notes, Y!TypeOK, Y!EntriesServed, Y!None, Y!Tasks, Y!Conns,
      Y!Stops
<1>14. ASSUME NEW k \in Y!Stops, Y!Abort(k) PROVE Y!EntriesServed'
  BY <1>14 DEF Y!Abort, Y!tray, Y!sockets, Y!notes, Y!TypeOK, Y!EntriesServed, Y!None, Y!Tasks, Y!Conns, Y!Stops
<1>15. ASSUME NEW k \in Y!Stops, Y!TakenByStop(k) PROVE Y!EntriesServed'
  BY <1>15 DEF Y!TakenByStop, Y!Joined, Y!Take, Y!tray, Y!sockets, Y!notes, Y!TypeOK, Y!EntriesServed, Y!None,
      Y!Tasks, Y!Conns, Y!Stops
<1>16. ASSUME NEW k \in Y!Stops, Y!LockedByStop(k) PROVE Y!EntriesServed'
  BY <1>16 DEF Y!LockedByStop, Y!Lock, Y!tray, Y!sockets, Y!notes, Y!TypeOK, Y!EntriesServed, Y!None, Y!Tasks,
      Y!Conns, Y!Stops
<1>17. ASSUME NEW k \in Y!Stops, Y!DisconnectedByStop(k) PROVE Y!EntriesServed'
  BY <1>17 DEF Y!DisconnectedByStop, Y!NotFound, Y!Sent, Y!Unlocked, Y!tray, Y!sockets, Y!notes, Y!TypeOK,
      Y!EntriesServed, Y!None, Y!Tasks, Y!Conns, Y!Stops
<1>18. ASSUME NEW c \in Y!Conns, Y!Look(c) PROVE Y!EntriesServed'
  BY <1>18 DEF Y!Look, Y!Unlocked, Y!tray, Y!sockets, Y!notes, Y!TypeOK, Y!EntriesServed, Y!None, Y!Tasks, Y!Conns,
      Y!Stops
<1>19. ASSUME NEW c \in Y!Conns, Y!Message(c) PROVE Y!EntriesServed'
  BY <1>19 DEF Y!Message, Y!tray, Y!sockets, Y!notes, Y!TypeOK, Y!EntriesServed, Y!None, Y!Tasks, Y!Conns, Y!Stops
<1>20. ASSUME NEW c \in Y!Conns, Y!Close(c) PROVE Y!EntriesServed'
  BY <1>20 DEF Y!Close, Y!tray, Y!sockets, Y!notes, Y!TypeOK, Y!EntriesServed, Y!None, Y!Tasks, Y!Conns, Y!Stops
<1>21. ASSUME NEW c \in Y!Conns, Y!Remove(c) PROVE Y!EntriesServed'
  BY <1>21 DEF Y!Remove, Y!Unlocked, Y!tray, Y!sockets, Y!notes, Y!TypeOK, Y!EntriesServed, Y!None, Y!Tasks, Y!Conns,
      Y!Stops
<1>22. ASSUME NEW c \in Y!Conns, Y!PeerCloses(c) PROVE Y!EntriesServed'
  BY <1>22 DEF Y!PeerCloses, Y!tray, Y!sockets, Y!notes, Y!TypeOK, Y!EntriesServed, Y!None, Y!Tasks, Y!Conns, Y!Stops
<1>23. ASSUME NEW c \in Y!Conns, Y!ForceRemove(c) PROVE Y!EntriesServed'
  BY <1>23 DEF Y!ForceRemove, Y!Unlocked, Y!tray, Y!sockets, Y!notes, Y!TypeOK, Y!EntriesServed, Y!None, Y!Tasks,
      Y!Conns, Y!Stops
<1>24. QED
  BY <1>1, <1>2, <1>3, <1>4, <1>5, <1>6, <1>7, <1>8, <1>9, <1>10, <1>11, <1>12, <1>13, <1>14,
      <1>15, <1>16, <1>17, <1>18, <1>19, <1>20, <1>21, <1>22, <1>23 DEF Y!Next

\* Every action keeps the ids of the connections of the map.
LEMMA TrayKeptStep ==
    ASSUME TrayTasks \in Nat \ {0}, TrayConns \in Nat, TrayStops \in Nat,
           Y!TypeOK, TrayHeld, TrayAllKept, Y!Next
    PROVE  TrayAllKept'
<1>1. CASE Y!StartTask
  BY <1>1 DEF Y!StartTask, Y!UserStep, Y!TaskRuns, Y!Running, Y!tray, Y!sockets, Y!notes, Y!TypeOK, TrayHeld,
      TrayAllKept, TrayKept, Y!None, Y!Tasks, Y!Conns, Y!Stops
<1>2. CASE Y!StopTask
  BY <1>2 DEF Y!StopTask, Y!UserStep, Y!tray, Y!sockets, Y!notes, Y!TypeOK, TrayHeld, TrayAllKept, TrayKept, Y!None, Y!Tasks,
      Y!Conns, Y!Stops
<1>3. CASE Y!ClearAllWsConnections
  BY <1>3 DEF Y!ClearAllWsConnections, Y!UserStep, Y!Unlocked, Y!tray, Y!sockets, Y!notes, Y!TypeOK, TrayHeld,
      TrayAllKept, TrayKept, Y!None, Y!Tasks, Y!Conns, Y!Stops
<1>4. CASE Y!Exit
  BY <1>4 DEF Y!Exit, Y!UserStep, Y!tray, Y!sockets, Y!notes, Y!TypeOK, TrayHeld, TrayAllKept, TrayKept, Y!None, Y!Tasks,
      Y!Conns, Y!Stops
<1>5. ASSUME NEW t \in Y!Tasks, Y!Connected(t) PROVE TrayAllKept'
  <2>1. PICK c \in Y!Conns : Y!Insert(c) /\ yMade' = [yMade EXCEPT ![t] = c]
    BY <1>5 DEF Y!Connected
  <2>2. yManager' = yManager \cup {c} /\ yMade'[t] = c
    BY <2>1 DEF Y!Insert, Y!TypeOK
  <2>3. yMade[t] = Y!None
    BY <1>5 DEF Y!Connected, TrayHeld
  <2>4. UNCHANGED <<speedId, yTaken, forced, peer, overwritten, yDropped>>
    BY <1>5 DEF Y!Connected, Y!notes
  <2>5. ASSUME NEW d \in Y!Conns, d # c, TrayKept(d) PROVE TrayKept(d)'
    BY <2>1, <2>3, <2>4, <2>5 DEF TrayKept, Y!TypeOK, Y!None, Y!Conns
  <2>6. TrayKept(c)'
    BY <2>2 DEF TrayKept
  <2>7. QED
    BY <2>2, <2>4, <2>5, <2>6 DEF TrayAllKept, Y!TypeOK
<1>6. ASSUME NEW t \in Y!Tasks, Y!Stored(t) PROVE TrayAllKept'
  BY <1>6 DEF Y!Stored, Y!SetSpeedConnectionId, Y!tray, Y!sockets, Y!notes, Y!TypeOK, TrayHeld, TrayAllKept, TrayKept,
      Y!None, Y!Tasks, Y!Conns, Y!Stops
<1>7. ASSUME NEW t \in Y!Tasks, Y!ConnectFailed(t) PROVE TrayAllKept'
  BY <1>7 DEF Y!ConnectFailed, Y!tray, Y!sockets, Y!notes, Y!TypeOK, TrayHeld, TrayAllKept, TrayKept, Y!None, Y!Tasks,
      Y!Conns, Y!Stops
<1>8. ASSUME NEW t \in Y!Tasks, Y!ListeningEnds(t) PROVE TrayAllKept'
  <2>1. yTaken[t] = Y!None /\ t \in Y!Tasks \cup Y!Stops
    BY <1>8 DEF Y!ListeningEnds, TrayHeld
  <2>2. yTaken' = [yTaken EXCEPT ![t] = speedId] /\ UNCHANGED <<yMade, forced, peer, yManager, overwritten, yDropped>>
    BY <1>8 DEF Y!ListeningEnds, Y!Take, Y!sockets, Y!notes
  <2>3. ASSUME NEW c \in Y!Conns, TrayKept(c) PROVE TrayKept(c)'
    <3>1. yTaken'[t] = speedId /\ \A a \in Y!Tasks \cup Y!Stops : a # t => yTaken'[a] = yTaken[a]
      BY <2>1, <2>2 DEF Y!TypeOK
    <3>2. yTaken[t] # c
      BY <2>1 DEF Y!None, Y!Conns
    <3>3. QED
      BY <2>1, <2>2, <2>3, <3>1, <3>2 DEF TrayKept
  <2>4. QED
    BY <2>2, <2>3 DEF TrayAllKept, Y!TypeOK
<1>9. ASSUME NEW t \in Y!Tasks, Y!LockedByTask(t) PROVE TrayAllKept'
  BY <1>9 DEF Y!LockedByTask, Y!Lock, Y!tray, Y!sockets, Y!notes, Y!TypeOK, TrayHeld, TrayAllKept, TrayKept, Y!None, Y!Tasks,
      Y!Conns, Y!Stops
<1>10. ASSUME NEW t \in Y!Tasks, Y!DisconnectedByTask(t) PROVE TrayAllKept'
  <2>1. ASSUME NEW c \in Y!Conns, c \in yManager, TrayKept(c) PROVE TrayKept(c)'
    <3>1. t \in Y!Tasks \cup Y!Stops /\ yTaken' = [yTaken EXCEPT ![t] = Y!None]
      BY <1>10 DEF Y!DisconnectedByTask
    <3>2. \A a \in Y!Tasks \cup Y!Stops : a # t => yTaken'[a] = yTaken[a]
      BY <3>1 DEF Y!TypeOK
    <3>3. UNCHANGED <<yMade, speedId, peer>> /\ forced \subseteq forced'
      BY <1>10 DEF Y!DisconnectedByTask, Y!NotFound, Y!Sent, Y!sockets
    <3>4. yTaken[t] = c => c \in forced'
      BY <1>10, <2>1 DEF Y!DisconnectedByTask, Y!NotFound, Y!Sent
    <3>5. QED
      BY <2>1, <3>1, <3>2, <3>3, <3>4 DEF TrayKept
  <2>2. UNCHANGED <<yManager, overwritten, yDropped>>
    BY <1>10 DEF Y!DisconnectedByTask, Y!NotFound, Y!Sent, Y!sockets, Y!notes
  <2>3. QED
    BY <2>1, <2>2 DEF TrayAllKept, Y!TypeOK
<1>11. ASSUME NEW t \in Y!Tasks, Y!Retry(t) PROVE TrayAllKept'
  BY <1>11 DEF Y!Retry, Y!tray, Y!sockets, Y!notes, Y!TypeOK, TrayHeld, TrayAllKept, TrayKept, Y!None, Y!Tasks, Y!Conns, Y!Stops
<1>12. ASSUME NEW t \in Y!Tasks, Y!LeaveLoop(t) PROVE TrayAllKept'
  BY <1>12 DEF Y!LeaveLoop, Y!SetSpeedConnectionId, Y!tray, Y!sockets, Y!notes, Y!TypeOK, TrayHeld, TrayAllKept,
      TrayKept, Y!None, Y!Tasks, Y!Conns, Y!Stops
<1>13. ASSUME NEW t \in Y!Tasks, Y!Aborted(t) PROVE TrayAllKept'
  BY <1>13 DEF Y!Aborted, Y!Running, Y!tray, Y!sockets, Y!notes, Y!TypeOK, TrayHeld, TrayAllKept, TrayKept, Y!None, Y!Tasks,
      Y!Conns, Y!Stops
<1>14. ASSUME NEW k \in Y!Stops, Y!Abort(k) PROVE TrayAllKept'
  BY <1>14 DEF Y!Abort, Y!tray, Y!sockets, Y!notes, Y!TypeOK, TrayHeld, TrayAllKept, TrayKept, Y!None, Y!Tasks, Y!Conns, Y!Stops
<1>15. ASSUME NEW k \in Y!Stops, Y!TakenByStop(k) PROVE TrayAllKept'
  <2>1. yTaken[k] = Y!None /\ k \in Y!Tasks \cup Y!Stops
    BY <1>15 DEF Y!TakenByStop, TrayHeld
  <2>2. yTaken' = [yTaken EXCEPT ![k] = speedId] /\ UNCHANGED <<yMade, forced, peer, yManager, overwritten, yDropped>>
    BY <1>15 DEF Y!TakenByStop, Y!Take, Y!sockets, Y!notes
  <2>3. ASSUME NEW c \in Y!Conns, TrayKept(c) PROVE TrayKept(c)'
    <3>1. yTaken'[k] = speedId /\ \A a \in Y!Tasks \cup Y!Stops : a # k => yTaken'[a] = yTaken[a]
      BY <2>1, <2>2 DEF Y!TypeOK
    <3>2. yTaken[k] # c
      BY <2>1 DEF Y!None, Y!Conns
    <3>3. QED
      BY <2>1, <2>2, <2>3, <3>1, <3>2 DEF TrayKept
  <2>4. QED
    BY <2>2, <2>3 DEF TrayAllKept, Y!TypeOK
<1>16. ASSUME NEW k \in Y!Stops, Y!LockedByStop(k) PROVE TrayAllKept'
  BY <1>16 DEF Y!LockedByStop, Y!Lock, Y!tray, Y!sockets, Y!notes, Y!TypeOK, TrayHeld, TrayAllKept, TrayKept, Y!None,
      Y!Tasks, Y!Conns, Y!Stops
<1>17. ASSUME NEW k \in Y!Stops, Y!DisconnectedByStop(k) PROVE TrayAllKept'
  <2>1. ASSUME NEW c \in Y!Conns, c \in yManager, TrayKept(c) PROVE TrayKept(c)'
    <3>1. k \in Y!Tasks \cup Y!Stops /\ yTaken' = [yTaken EXCEPT ![k] = Y!None]
      BY <1>17 DEF Y!DisconnectedByStop
    <3>2. \A a \in Y!Tasks \cup Y!Stops : a # k => yTaken'[a] = yTaken[a]
      BY <3>1 DEF Y!TypeOK
    <3>3. UNCHANGED <<yMade, speedId, peer>> /\ forced \subseteq forced'
      BY <1>17 DEF Y!DisconnectedByStop, Y!NotFound, Y!Sent, Y!sockets
    <3>4. yTaken[k] = c => c \in forced'
      BY <1>17, <2>1 DEF Y!DisconnectedByStop, Y!NotFound, Y!Sent
    <3>5. QED
      BY <2>1, <3>1, <3>2, <3>3, <3>4 DEF TrayKept
  <2>2. UNCHANGED <<yManager, overwritten, yDropped>>
    BY <1>17 DEF Y!DisconnectedByStop, Y!NotFound, Y!Sent, Y!sockets, Y!notes
  <2>3. QED
    BY <2>1, <2>2 DEF TrayAllKept, Y!TypeOK
<1>18. ASSUME NEW c \in Y!Conns, Y!Look(c) PROVE TrayAllKept'
  BY <1>18 DEF Y!Look, Y!Unlocked, Y!tray, Y!sockets, Y!notes, Y!TypeOK, TrayHeld, TrayAllKept, TrayKept, Y!None, Y!Tasks,
      Y!Conns, Y!Stops
<1>19. ASSUME NEW c \in Y!Conns, Y!Message(c) PROVE TrayAllKept'
  BY <1>19 DEF Y!Message, Y!tray, Y!sockets, Y!notes, Y!TypeOK, TrayHeld, TrayAllKept, TrayKept, Y!None, Y!Tasks, Y!Conns, Y!Stops
<1>20. ASSUME NEW c \in Y!Conns, Y!Close(c) PROVE TrayAllKept'
  BY <1>20 DEF Y!Close, Y!tray, Y!sockets, Y!notes, Y!TypeOK, TrayHeld, TrayAllKept, TrayKept, Y!None, Y!Tasks, Y!Conns, Y!Stops
<1>21. ASSUME NEW c \in Y!Conns, Y!Remove(c) PROVE TrayAllKept'
  BY <1>21 DEF Y!Remove, Y!Unlocked, Y!tray, Y!sockets, Y!notes, Y!TypeOK, TrayHeld, TrayAllKept, TrayKept, Y!None, Y!Tasks,
      Y!Conns, Y!Stops
<1>22. ASSUME NEW c \in Y!Conns, Y!PeerCloses(c) PROVE TrayAllKept'
  BY <1>22 DEF Y!PeerCloses, Y!tray, Y!sockets, Y!notes, Y!TypeOK, TrayHeld, TrayAllKept, TrayKept, Y!None, Y!Tasks, Y!Conns,
      Y!Stops
<1>23. ASSUME NEW c \in Y!Conns, Y!ForceRemove(c) PROVE TrayAllKept'
  BY <1>23 DEF Y!ForceRemove, Y!Unlocked, Y!tray, Y!sockets, Y!notes, Y!TypeOK, TrayHeld, TrayAllKept, TrayKept, Y!None,
      Y!Tasks, Y!Conns, Y!Stops
<1>24. QED
  BY <1>1, <1>2, <1>3, <1>4, <1>5, <1>6, <1>7, <1>8, <1>9, <1>10, <1>11, <1>12, <1>13, <1>14,
      <1>15, <1>16, <1>17, <1>18, <1>19, <1>20, <1>21, <1>22, <1>23 DEF Y!Next

\* The strengthened invariant holds in every state.
LEMMA TrayHolds == Y!Spec => []TrayInv
<1>1. Y!Init => TrayInv
  <2> SUFFICES ASSUME Y!Init PROVE TrayInv
    OBVIOUS
  <2>1. Y!TypeOK /\ TrayHeld /\ TrayGivenUp
    <3>1. Y!TypeOK
      BY TrayAssumption DEF Y!Init, Y!TypeOK, Y!None, Y!Tasks, Y!Conns, Y!Stops
    <3>2. TrayHeld
      BY TrayAssumption DEF Y!Init, TrayHeld, Y!None, Y!Tasks, Y!Conns, Y!Stops
    <3>3. TrayGivenUp
      <4>1. 1 \in Y!Tasks
        BY TrayAssumption DEF Y!Tasks
      <4>2. QED
        BY <4>1 DEF Y!Init, TrayGivenUp, Y!None
    <3>4. QED
      BY <3>1, <3>2, <3>3
  <2>2. TasksCleaned /\ IdTaken
    BY TrayAssumption DEF Y!Init, TasksCleaned, IdTaken, Y!Running, Y!None, Y!Tasks
  <2>3. Y!EntriesServed /\ TrayAllKept
    BY DEF Y!Init, Y!EntriesServed, TrayAllKept
  <2>4. QED
    BY <2>1, <2>2, <2>3 DEF TrayInv
<1>2. TrayInv /\ [Y!Next]_(Y!vars) => TrayInv'
  <2> SUFFICES ASSUME TrayInv, [Y!Next]_(Y!vars) PROVE TrayInv'
    OBVIOUS
  <2>1. CASE Y!Next
    BY TrayAssumption, <2>1, TrayTypeStep, TrayGivenUpStep, TrayCleanStep, TrayServedStep, TrayKeptStep DEF TrayInv
  <2>2. CASE UNCHANGED Y!vars
    <3>1. Y!TypeOK' /\ TrayHeld' /\ TrayGivenUp'
      BY <2>2 DEF TrayInv, Y!TypeOK, TrayHeld, TrayGivenUp, Y!vars, Y!tray, Y!sockets, Y!notes
    <3>2. TasksCleaned' /\ IdTaken' /\ Y!EntriesServed' /\ TrayAllKept'
      BY <2>2 DEF TrayInv, TasksCleaned, IdTaken, Y!TaskRuns, Y!Running, Y!Taking, Y!EntriesServed, TrayAllKept,
          TrayKept,
                  Y!vars, Y!tray, Y!sockets, Y!notes
    <3>3. QED
      BY <3>1, <3>2 DEF TrayInv
  <2>3. QED
    BY <2>1, <2>2
<1>3. QED
  BY <1>1, <1>2, PTL DEF Y!Spec

\* An id that is held, in the cell or by a task or clean-up, ends its connection.
LEMMA TrayOwned == TrayInv => Y!ConnectionsOwned
  BY DEF TrayInv, Y!TypeOK, TrayAllKept, TrayKept, IdTaken, Y!ConnectionsOwned, Y!Owned, Y!None, Y!Conns

\* After the last clean-up of the stops neither a task nor an id is left.
LEMMA TrayStopped == TrayInv => Y!StoppedEnds
<1>1. ASSUME TrayInv, speedTask = Y!None, ~Y!Cleaning PROVE speedId = Y!None /\ \A t \in Y!Tasks : ~Y!Running(t)
  <2>1. Y!Taking = {}
    BY <1>1 DEF Y!Cleaning, Y!Taking
  <2>2. speedId = Y!None
    BY <1>1, <2>1 DEF TrayInv, IdTaken, Y!TaskRuns
  <2>3. \A t \in Y!Tasks : ~Y!Running(t)
    BY <1>1, <2>1 DEF TrayInv, TasksCleaned, Y!None, Y!Tasks
  <2>4. QED
    BY <2>2, <2>3
<1> QED BY <1>1 DEF Y!StoppedEnds

\* The tray behaves as TraySpeed says, whatever the behaviour is about.
LEMMA TrayBehaves == SettingsSpec => Y!Spec
  <1>1. SettingsStart => Y!Init
    BY DEF SettingsStart
  <1>2. [SettingsStep]_<<part, settings>> => [Y!Next]_(Y!vars)
    BY DEF SettingsStep, DialogStep, HomeStep, settings, dialogs, Yvars, Y!vars, Y!tray, Y!sockets, Y!notes
  <1> QED BY <1>1, <1>2, PTL DEF SettingsSpec, Y!Spec

\* Every connection of the tray to the core has somebody who will end it and a reader,
\* in whatever order tasks are started, stopped and aborted and calls are answered, and
\* after the last clean-up of the stops neither a task nor an id is left.
THEOREM SpeedOwnedHolds == SettingsSpec => []SpeedOwned
<1>1. TrayInv => SpeedOwned
  BY TrayOwned, TrayStopped DEF TrayInv, SpeedOwned
<1> QED BY <1>1, TrayBehaves, TrayHolds, PTL

-----------------------------------------------------------------------------
(* The settings of DNS.                                                    *)

\* What a form of the dialog is: a function of the settings with one of the modes.
IsForm(v) == v = [k \in Q!Keys |-> v[k]] /\ v["mode"] \in Q!Modes

LEMMA FormOfIsForm == ASSUME NEW doc PROVE IsForm(Q!FormOf(doc))
  BY DEF Q!FormOf, IsForm, Q!Keys, Q!Modes, Q!Default

LEMMA DefaultIsForm == IsForm(Q!Default)
  BY DEF IsForm, Q!Default, Q!Keys, Q!Modes

\* What generateDnsConfig makes of each setting.
DnsClean(v) == [k \in Q!Keys |-> CASE k = "servers" -> Q!ParseList(v[k])
                              [] k = "policy" -> Q!ParseNameserverPolicy(v[k])
                              [] k = "hosts" -> Q!ParseHosts(v[k])
                              [] OTHER -> v[k]]

DnsWritten(v) ==
    Q!Keys \ ((IF Q!ParseNameserverPolicy(v["policy"]) = {} THEN {"policy"} ELSE {})
            \cup (IF Q!ParseHosts(v["hosts"]) = {} THEN {"hosts"} ELSE {}))

LEMMA ConfigOfForm ==
    ASSUME NEW v, IsForm(v)
    PROVE  Q!ConfigOf(v) = Q!Map([k \in DnsWritten(v) |-> DnsClean(v)[k]])
  <1> DEFINE full == [v EXCEPT !.servers = Q!ParseList(@),
                              !.policy = Q!ParseNameserverPolicy(v["policy"]),
                              !.hosts = Q!ParseHosts(v["hosts"])]
  <1>1. \A k \in Q!Keys : full[k] = DnsClean(v)[k]
    BY DEF IsForm, DnsClean, Q!Keys
  <1>2. Q!ConfigOf(v) = Q!Map([k \in DnsWritten(v) |-> full[k]])
    BY DEF Q!ConfigOf, DnsWritten
  <1>3. DnsWritten(v) \subseteq Q!Keys
    BY DEF DnsWritten
  <1> HIDE DEF full
  <1>4. [k \in DnsWritten(v) |-> full[k]] = [k \in DnsWritten(v) |-> DnsClean(v)[k]]
    BY <1>1, <1>3
  <1> QED BY <1>2, <1>4

\* The settings that a form gives are those of the form that is made of them.
LEMMA DnsRoundTrip ==
    ASSUME NEW v, IsForm(v)
    PROVE  Q!ConfigOf(Q!FormOf(Q!ConfigOf(v))) = Q!ConfigOf(v)
  <1> DEFINE c == [k \in DnsWritten(v) |-> DnsClean(v)[k]]
             w == Q!FormOf(Q!ConfigOf(v))
  <1>1. Q!ConfigOf(v) = Q!Map(c)
    BY ConfigOfForm
  <1>2. w = [[k \in Q!Keys |-> Q!Get(c, k)] EXCEPT !["mode"] = IF @ \in Q!Modes THEN @ ELSE Q!Default["mode"]]
    BY <1>1 DEF Q!FormOf, Q!Map
  <1>3. {"ipv6", "mode", "servers"} \subseteq DnsWritten(v) /\ DnsWritten(v) \subseteq Q!Keys
    BY DEF DnsWritten, Q!Keys
  <1>4. c["mode"] = v["mode"]
    BY <1>3 DEF DnsClean, Q!Keys
  <1>5. \A k \in Q!Keys : w[k] = IF k \in DnsWritten(v) THEN DnsClean(v)[k] ELSE Q!Default[k]
    <2>1. \A k \in Q!Keys : Q!Get(c, k) = IF k \in DnsWritten(v) THEN DnsClean(v)[k] ELSE Q!Default[k]
      BY DEF Q!Get
    <2>2. Q!Get(c, "mode") = v["mode"]
      BY <1>3, <1>4 DEF Q!Get
    <2> HIDE DEF c, w
    <2> QED BY <1>2, <2>1, <2>2 DEF IsForm
  <1>6. Q!ParseNameserverPolicy(w["policy"]) = Q!ParseNameserverPolicy(v["policy"])
    BY <1>5 DEF DnsWritten, DnsClean, Q!Keys, Q!ParseNameserverPolicy, Q!Default
  <1>7. Q!ParseHosts(w["hosts"]) = Q!ParseHosts(v["hosts"])
    BY <1>5 DEF DnsWritten, DnsClean, Q!Keys, Q!ParseHosts, Q!Default
  <1>8. Q!ParseList(w["servers"]) = Q!ParseList(v["servers"])
    BY <1>3, <1>5 DEF DnsClean, Q!Keys, Q!ParseList
  <1>9. w["ipv6"] = v["ipv6"] /\ w["mode"] = v["mode"]
    BY <1>3, <1>5 DEF DnsClean, Q!Keys
  <1>10. IsForm(w)
    BY FormOfIsForm
  <1> HIDE DEF w
  <1>11. DnsWritten(w) = DnsWritten(v) /\ DnsClean(w) = DnsClean(v)
    BY <1>6, <1>7, <1>8, <1>9 DEF DnsWritten, DnsClean, Q!Keys
  <1>12. Q!ConfigOf(w) = Q!ConfigOf(v)
    BY <1>10, <1>11, ConfigOfForm
  <1> QED BY <1>12 DEF w

\* While the document is shown and nothing is pending it is what the form gives, or
\* no map of settings; what is being applied was read from the file and is valid.
DnsInv ==
    /\ IsForm(values) /\ qTimers \in Seq(DnsTexts)
    /\ ~visual => late = <<>>
    /\ ~visual /\ qTimers = <<>> /\ qText.is = "map" => qText = Q!ConfigOf(values)
    /\ qSaving = Q!Idle \/ qSaving = [at |-> qSaving.at, doc |-> qSaving.doc, apply |-> qSaving.apply]
    /\ qSaving.at \in {"validate", "apply", "end"} => qFile = qSaving.doc
    /\ qSaving.at = "apply" => Q!Valid(qFile)
    /\ applied # Q!Empty => Q!Valid(applied)

LEMMA DnsAgrees == DnsInv => Q!FormAgrees /\ Q!AppliedValid
  BY DnsRoundTrip DEF DnsInv, Q!FormAgrees, Q!AppliedValid

LEMMA DnsInit == Q!Init => DnsInv
  BY DefaultIsForm DEF Q!Init, DnsInv, Q!Idle

\* The form and the document: with the same document saved and applied.
LEMMA DnsSetInv ==
    ASSUME DnsInv, NEW v, IsForm(v), Q!SetValues(v), UNCHANGED <<qFile, qSaving, applied>>,
           qTimers' \in Seq(DnsTexts), late' = late, visual' = visual
    PROVE  DnsInv'
  BY DEF Q!SetValues, DnsInv

LEMMA DnsChangeInv ==
    ASSUME DnsInv, NEW v, IsForm(v), Q!HandleChange(v)
    PROVE  DnsInv'
  BY DEF Q!HandleChange, Q!UserStep, Q!SetValues, DnsInv

LEMMA DnsSaveInv ==
    ASSUME DnsInv, Q!Save \/ Q!SaveWritten \/ Q!Validated \/ Q!Applied \/ Q!SaveEnds
    PROVE  DnsInv'
  <1>1. CASE Q!Save
    BY <1>1 DEF Q!Save, Q!Meanwhile, Q!form, Q!delays, Q!loads, DnsInv, Q!Idle
  <1>2. CASE Q!SaveWritten
    BY <1>2 DEF Q!SaveWritten, Q!Meanwhile, Q!form, Q!delays, Q!loads, DnsInv, Q!Idle
  <1>3. CASE Q!Validated
    BY <1>3 DEF Q!Validated, Q!Meanwhile, Q!form, Q!delays, Q!loads, DnsInv, Q!Idle
  <1>4. CASE Q!Applied
    BY <1>4 DEF Q!Applied, Q!Meanwhile, Q!form, Q!delays, Q!loads, DnsInv, Q!Idle
  <1>5. CASE Q!SaveEnds
    BY <1>5 DEF Q!SaveEnds, Q!Meanwhile, Q!form, Q!delays, Q!loads, DnsInv, Q!Idle
  <1> QED BY <1>1, <1>2, <1>3, <1>4, <1>5

LEMMA DnsStep == DnsInv /\ [Q!Next]_(Q!vars) => DnsInv'
  <1> SUFFICES ASSUME DnsInv, [Q!Next]_(Q!vars) PROVE DnsInv'
    OBVIOUS
  <1> USE DEF Q!form, Q!delays, Q!loads
  <1>1. IsForm(values) /\ qTimers \in Seq(DnsTexts)
    BY DEF DnsInv
  <1>2. CASE Q!ChangeMode \/ Q!ChangeSwitch \/ Q!ChangeServers \/ Q!ChangePolicy \/ Q!ChangeHosts
    <2>1. PICK v : IsForm(v) /\ Q!HandleChange(v)
      <3>1. \A m \in Q!Modes : IsForm([values EXCEPT !.mode = m])
        BY <1>1 DEF IsForm, Q!Keys
      <3>2. IsForm([values EXCEPT !.ipv6 = ~@])
        BY <1>1 DEF IsForm, Q!Keys
      <3>3. \A x : /\ IsForm([values EXCEPT !.servers = x]) /\ IsForm([values EXCEPT !.policy = x])
                   /\ IsForm([values EXCEPT !.hosts = x])
        BY <1>1 DEF IsForm, Q!Keys
      <3> QED BY <1>2, <3>1, <3>2, <3>3
              DEF Q!ChangeMode, Q!ChangeSwitch, Q!ChangeServers, Q!ChangePolicy, Q!ChangeHosts
    <2> QED BY <2>1, DnsChangeInv
  <1>3. CASE Q!LateWrite
    BY <1>3 DEF Q!LateWrite, DnsInv
  <1>4. CASE Q!ParseTimer
    <2>1. qTimers' \in Seq(DnsTexts)
      BY <1>1, <1>4 DEF Q!ParseTimer
    <2> QED BY <1>4, <2>1, DnsSetInv, FormOfIsForm DEF Q!ParseTimer
  <1>5. CASE Q!ResetToDefaults
    BY <1>1, <1>5, DnsSetInv, DefaultIsForm DEF Q!ResetToDefaults
  <1>6. CASE Q!Toggle
    <2>1. IsForm(values')
      BY <1>1, <1>6, FormOfIsForm DEF Q!Toggle, Q!UpdateValuesFromYaml
    <2> QED BY <1>6, <2>1 DEF Q!Toggle, Q!UserStep, DnsInv
  <1>7. ASSUME NEW t \in DnsTexts, Q!HandleYamlChange(t) PROVE DnsInv'
    <2>1. t.is = "map" => qTimers' = Append(qTimers, t) /\ qTimers' # <<>> /\ qTimers' \in Seq(DnsTexts)
      BY <1>1, <1>7 DEF Q!HandleYamlChange
    <2> QED BY <1>7, <2>1 DEF Q!HandleYamlChange, DnsInv
  <1>8. CASE Q!Open \/ Q!Close \/ Q!ChangeEnabled \/ UNCHANGED Q!vars
    BY <1>8 DEF Q!Open, Q!Close, Q!ChangeEnabled, Q!vars, DnsInv
  <1>9. CASE Q!Checked
    <2>1. CASE qFile.is = "absent"
      BY <1>1, <1>9, <2>1, DnsSetInv, DefaultIsForm DEF Q!Checked
    <2>2. CASE qFile.is # "absent"
      BY <1>9, <2>2 DEF Q!Checked, DnsInv
    <2> QED BY <2>1, <2>2
  <1>10. CASE Q!ReadDone
    <2>1. CASE Q!SetValues(Q!FormOf(qFile)) \/ Q!SetValues(Q!Default)
      BY <1>1, <1>10, <2>1, DnsSetInv, DefaultIsForm, FormOfIsForm DEF Q!ReadDone
    <2>2. CASE qText' = Q!Empty /\ UNCHANGED values
      BY <1>10, <2>2 DEF Q!ReadDone, DnsInv, Q!Empty
    <2> QED BY <1>10, <2>1, <2>2 DEF Q!ReadDone
  <1> QED BY <1>2, <1>3, <1>4, <1>5, <1>6, <1>7, <1>8, <1>9, <1>10, DnsSaveInv DEF Q!Next

LEMMA DnsHolds == SettingsSpec => [](Q!FormAgrees /\ Q!AppliedValid)
  <1>1. SettingsStart => DnsInv
    BY DnsInit DEF SettingsStart
  <1>2. [SettingsStep]_<<part, settings>> => [Q!Next]_(Q!vars)
    BY DEF SettingsStep, DialogStep, HomeStep, settings, dialogs, Qvars, Q!vars, Q!form, Q!delays, Q!loads
  <1> QED BY <1>1, <1>2, DnsAgrees, DnsStep, PTL DEF SettingsSpec

-----------------------------------------------------------------------------
(* The tunnels.                                                            *)

\* A list of entries that were made one after the other, of the first n.
Made(t, n) ==
    /\ t \in Seq({t[i] : i \in DOMAIN t})
    /\ \A i \in DOMAIN t : t[i].id \in 1 .. n
    /\ \A i, j \in DOMAIN t : i < j => t[i].id < t[j].id

TunnelInv ==
    /\ ids \in Nat
    /\ Made(draft, ids) /\ Made(uSeen, ids) /\ Made(uSaved, ids)
    /\ \A t \in patching : Made(t, ids)
    /\ U!Ids(draft) = kept \ deleted /\ deleted \subseteq 1 .. ids

LEMMA TunnelKept == TunnelInv => U!DraftKept
  BY DEF TunnelInv, U!DraftKept, Made

LEMMA TunnelInit == U!Init => TunnelInv
  <1> SUFFICES ASSUME U!Init PROVE TunnelInv
    OBVIOUS
  <1>1. Made(<<>>, 0) /\ U!Ids(<<>>) = {}
    BY DEF Made, U!Ids
  <1> QED BY <1>1 DEF U!Init, TunnelInv

LEMMA MadeLater ==
    ASSUME NEW n \in Nat, NEW t, Made(t, n)
    PROVE  Made(t, n + 1)
  BY DEF Made

LEMMA MadeAppend ==
    ASSUME NEW n \in Nat, NEW t, Made(t, n), NEW e, e.id = n + 1
    PROVE  Made(Append(t, e), n + 1) /\ U!Ids(Append(t, e)) = U!Ids(t) \cup {n + 1}
  <1> DEFINE Elems == {t[i] : i \in DOMAIN t} \cup {e}
             u == Append(t, e)
  <1>1. t \in Seq(Elems)
    BY SeqMonotonic DEF Made
  <1>2. /\ u \in Seq(Elems) /\ Len(u) = Len(t) + 1 /\ u[Len(t) + 1] = e
        /\ \A i \in 1 .. Len(t) : u[i] = t[i]
    BY <1>1
  <1>3. Len(t) \in Nat /\ DOMAIN t = 1 .. Len(t) /\ DOMAIN u = 1 .. (Len(t) + 1)
    BY <1>1, <1>2
  <1> HIDE DEF u, Elems
  <1>4. u \in Seq({u[i] : i \in DOMAIN u})
    BY <1>2, <1>3, IsASeq
  <1>5. \A i \in DOMAIN u : u[i].id \in 1 .. (n + 1)
    BY <1>2, <1>3 DEF Made
  <1>6. \A i, j \in DOMAIN u : i < j => u[i].id < u[j].id
    <2>1. \A i, j \in 1 .. Len(t) : i < j => t[i].id < t[j].id
      BY <1>3 DEF Made
    <2>2. \A i \in 1 .. Len(t) : t[i].id \in Nat /\ t[i].id <= n
      BY <1>3 DEF Made
    <2> SUFFICES ASSUME NEW i \in DOMAIN u, NEW j \in DOMAIN u, i < j PROVE u[i].id < u[j].id
      OBVIOUS
    <2>3. CASE j = Len(t) + 1
      BY <1>2, <1>3, <2>2, <2>3
    <2>4. CASE j # Len(t) + 1
      BY <1>2, <1>3, <2>1, <2>4
    <2> QED BY <2>3, <2>4
  <1>7. U!Ids(u) = U!Ids(t) \cup {n + 1}
    <2>1. \A i \in DOMAIN u : u[i].id \in U!Ids(t) \cup {n + 1}
      BY <1>2, <1>3 DEF U!Ids
    <2>2. \A i \in DOMAIN t : t[i].id \in U!Ids(u)
      BY <1>2, <1>3 DEF U!Ids
    <2>3. n + 1 \in U!Ids(u)
      BY <1>2, <1>3 DEF U!Ids
    <2> QED BY <2>1, <2>2, <2>3 DEF U!Ids
  <1> QED BY <1>4, <1>5, <1>6, <1>7 DEF Made, u

LEMMA RemoveAtFacts ==
    ASSUME NEW Elems, NEW s \in Seq(Elems), NEW i \in 1 .. Len(s)
    PROVE  /\ U!RemoveAt(s, i) \in Seq(Elems) /\ Len(U!RemoveAt(s, i)) = Len(s) - 1
           /\ \A k \in 1 .. Len(s) - 1 :
                U!RemoveAt(s, i)[k] = IF k < i THEN s[k] ELSE s[k + 1]
  <1> DEFINE a == SubSeq(s, 1, i - 1)
             b == SubSeq(s, i + 1, Len(s))
  <1>0. Len(s) \in Nat
    OBVIOUS
  <1>1. a \in Seq(Elems) /\ Len(a) = i - 1 /\ \A k \in 1 .. i - 1 : a[k] = s[k]
    BY <1>0, SubSeqProperties
  <1>2. b \in Seq(Elems) /\ Len(b) = Len(s) - i /\ \A k \in 1 .. Len(s) - i : b[k] = s[k + i]
    BY <1>0, SubSeqProperties
  <1> HIDE DEF a, b
  <1>3. /\ a \o b \in Seq(Elems) /\ Len(a \o b) = Len(s) - 1
        /\ \A k \in 1 .. Len(s) - 1 : (a \o b)[k] = IF k < i THEN s[k] ELSE s[k + 1]
    <2>1. /\ a \o b \in Seq(Elems) /\ Len(a \o b) = Len(a) + Len(b)
          /\ \A k \in 1 .. Len(a) + Len(b) :
                (a \o b)[k] = IF k <= Len(a) THEN a[k] ELSE b[k - Len(a)]
      BY <1>1, <1>2, ConcatProperties
    <2>2. Len(a) + Len(b) = Len(s) - 1
      BY <1>0, <1>1, <1>2
    <2>3. ASSUME NEW k \in 1 .. Len(s) - 1
          PROVE  (a \o b)[k] = IF k < i THEN s[k] ELSE s[k + 1]
      <3>1. CASE k < i
        BY <1>0, <1>1, <2>1, <2>2, <3>1
      <3>2. CASE ~(k < i)
        <4>1. k - Len(a) \in 1 .. Len(s) - i /\ k - Len(a) + i = k + 1 /\ ~(k <= Len(a))
          BY <1>0, <1>1, <3>2
        <4>2. (a \o b)[k] = b[k - Len(a)]
          BY <2>1, <2>2, <4>1
        <4> QED BY <1>2, <3>2, <4>1, <4>2
      <3> QED BY <3>1, <3>2
    <2> QED BY <2>1, <2>2, <2>3
  <1> QED BY <1>3 DEF U!RemoveAt, a, b

LEMMA MadeRemove ==
    ASSUME NEW n \in Nat, NEW t, Made(t, n), NEW i \in DOMAIN t
    PROVE  Made(U!RemoveAt(t, i), n) /\ U!Ids(U!RemoveAt(t, i)) = U!Ids(t) \ {t[i].id}
  <1> DEFINE Elems == {t[k] : k \in DOMAIN t}
             u == U!RemoveAt(t, i)
  <1>1. t \in Seq(Elems) /\ Len(t) \in Nat /\ DOMAIN t = 1 .. Len(t) /\ i \in 1 .. Len(t)
    BY DEF Made
  <1> HIDE DEF Elems
  <1>2. /\ u \in Seq(Elems) /\ Len(u) = Len(t) - 1 /\ DOMAIN u = 1 .. Len(t) - 1
        /\ \A k \in 1 .. Len(t) - 1 : u[k] = IF k < i THEN t[k] ELSE t[k + 1]
    <2>1. Len(U!RemoveAt(t, i)) = Len(t) - 1 /\ U!RemoveAt(t, i) \in Seq(Elems)
      BY <1>1, RemoveAtFacts
    <2>2. \A k \in 1 .. Len(t) - 1 : U!RemoveAt(t, i)[k] = IF k < i THEN t[k] ELSE t[k + 1]
      BY <1>1, RemoveAtFacts
    <2> QED BY <2>1, <2>2
  <1> HIDE DEF u
  <1>a. /\ \A k \in 1 .. Len(t) : t[k].id \in 1 .. n
        /\ \A j, k \in 1 .. Len(t) : j < k => t[j].id < t[k].id
    BY <1>1 DEF Made
  <1>b. \A k \in 1 .. Len(t) : t[k].id \in U!Ids(t)
    BY <1>1 DEF U!Ids
  <1>3. u \in Seq({u[k] : k \in DOMAIN u})
    BY <1>1, <1>2, IsASeq
  <1>4. \A k \in DOMAIN u : /\ k \in DOMAIN t /\ k + 1 \in DOMAIN t
                            /\ k < i => u[k] = t[k]
                            /\ k >= i => u[k] = t[k + 1]
    BY <1>1, <1>2
  <1>5. \A k \in DOMAIN u : u[k].id \in 1 .. n /\ u[k].id # t[i].id /\ u[k].id \in U!Ids(t)
    <2> SUFFICES ASSUME NEW k \in DOMAIN u
        PROVE  u[k].id \in 1 .. n /\ u[k].id # t[i].id /\ u[k].id \in U!Ids(t)
      OBVIOUS
    <2>1. k \in Nat /\ k \in 1 .. Len(t) /\ k + 1 \in 1 .. Len(t)
      BY <1>1, <1>2
    <2>2. CASE k < i
      BY <1>1, <1>4, <1>a, <1>b, <2>1, <2>2
    <2>3. CASE k >= i
      BY <1>1, <1>4, <1>a, <1>b, <2>1, <2>3
    <2> QED BY <1>1, <2>1, <2>2, <2>3
  <1>6. \A j, k \in DOMAIN u : j < k => u[j].id < u[k].id
    <2> SUFFICES ASSUME NEW j \in DOMAIN u, NEW k \in DOMAIN u, j < k PROVE u[j].id < u[k].id
      OBVIOUS
    <2>1. j \in Nat /\ k \in Nat
      BY <1>1, <1>2
    <2>2. CASE k < i
      BY <1>1, <1>4, <1>a, <2>1, <2>2
    <2>3. CASE j < i /\ k >= i
      BY <1>1, <1>4, <1>a, <2>1, <2>3
    <2>4. CASE j >= i
      BY <1>1, <1>4, <1>a, <2>1, <2>4
    <2> QED BY <1>1, <2>1, <2>2, <2>3, <2>4
  <1>7. ASSUME NEW k \in DOMAIN t, k # i PROVE t[k].id \in U!Ids(u)
    <2>1. CASE k < i
      <3>1. k \in DOMAIN u /\ u[k] = t[k]
        BY <1>1, <1>2, <2>1
      <3> QED BY <3>1 DEF U!Ids
    <2>2. CASE k > i
      <3>1. k - 1 \in DOMAIN u /\ u[k - 1] = t[k]
        BY <1>1, <1>2, <2>2
      <3> QED BY <3>1 DEF U!Ids
    <2> QED BY <1>1, <1>7, <2>1, <2>2
  <1>8. U!Ids(u) = U!Ids(t) \ {t[i].id}
    <2>1. U!Ids(u) \subseteq U!Ids(t) \ {t[i].id}
      BY <1>5 DEF U!Ids
    <2>2. U!Ids(t) \ {t[i].id} \subseteq U!Ids(u)
      BY <1>7 DEF U!Ids
    <2> QED BY <2>1, <2>2
  <1> QED BY <1>3, <1>5, <1>6, <1>8 DEF Made, u

\* What leaves the lists as they are, or makes one of another.
LEMMA TunnelSame ==
    ASSUME TunnelInv, UNCHANGED <<draft, kept, deleted, ids>>, uSaved' \in patching \cup {uSaved},
           uSeen' \in {uSeen, uSaved}, patching' \in {{}, {draft}, patching}
    PROVE  TunnelInv'
  BY DEF TunnelInv

LEMMA TunnelNext == TunnelInv /\ [U!Next]_(U!vars) => TunnelInv'
  <1> SUFFICES ASSUME TunnelInv, [U!Next]_(U!vars) PROVE TunnelInv'
    OBVIOUS
  <1> USE DEF U!dialog, U!history
  <1>1. CASE U!Open
    BY <1>1 DEF U!Open, TunnelInv
  <1>2. CASE U!Close \/ U!Expand \/ U!Add \/ U!Save \/ U!Patched \/ U!Fetched \/ UNCHANGED U!vars
    BY <1>2, TunnelSame DEF U!Close, U!Expand, U!Add, U!Save, U!Patched, U!Fetched, U!vars
  <1>3. CASE U!ChangeNetwork \/ U!ChangeLocal \/ U!ChangeTarget \/ U!ChangeGroup \/ U!ChangeProxy
    <2>1. PICK v : U!Change(v)
      BY Zenon, <1>3 DEF U!ChangeNetwork, U!ChangeLocal, U!ChangeTarget, U!ChangeGroup, U!ChangeProxy
    <2> QED BY <2>1, TunnelSame DEF U!Change
  <1>4. ASSUME NEW i \in DOMAIN adds, U!Answered(i) PROVE TunnelInv'
    <2>1. CASE UNCHANGED <<draft, kept, ids>>
      BY <1>4, <2>1, TunnelSame DEF U!Answered
    <2>2. CASE U!Insert(adds[i]) /\ ids' = ids + 1 /\ kept' = kept \cup {ids'}
      <3>1. PICK e : e.id = ids + 1 /\ draft' = Append(draft, e)
        BY <2>2 DEF U!Insert, U!Entry
      <3>2. ids \in Nat /\ Made(draft', ids') /\ U!Ids(draft') = U!Ids(draft) \cup {ids + 1}
        BY <2>2, <3>1, MadeAppend DEF TunnelInv
      <3>3. UNCHANGED <<uSeen, uSaved, patching, deleted>>
        BY <1>4 DEF U!Answered
      <3>4. /\ Made(uSeen', ids') /\ Made(uSaved', ids') /\ \A t \in patching' : Made(t, ids')
        BY <2>2, <3>3, MadeLater DEF TunnelInv
      <3>5. ids + 1 \notin deleted /\ deleted' \subseteq 1 .. ids'
        BY <2>2, <3>2, <3>3 DEF TunnelInv
      <3>6. U!Ids(draft') = kept' \ deleted'
        BY <2>2, <3>2, <3>3, <3>5 DEF TunnelInv
      <3> QED BY <2>2, <3>2, <3>4, <3>5, <3>6 DEF TunnelInv
    <2> QED BY <1>4, <2>1, <2>2 DEF U!Answered
  <1>5. ASSUME NEW i \in DOMAIN draft, U!Delete(i) PROVE TunnelInv'
    <2>1. /\ draft' = U!RemoveAt(draft, i) /\ deleted' = deleted \cup {draft[i].id}
          /\ UNCHANGED <<uSaved, uSeen, patching, kept, ids>>
      BY <1>5 DEF U!Delete
    <2>2. Made(draft', ids) /\ U!Ids(draft') = U!Ids(draft) \ {draft[i].id} /\ draft[i].id \in 1 .. ids
      <3>1. ids \in Nat /\ Made(draft, ids)
        BY DEF TunnelInv
      <3>2. draft[i].id \in 1 .. ids
        BY <3>1 DEF Made
      <3> QED BY <2>1, <3>1, <3>2, MadeRemove
    <2> QED BY <2>1, <2>2 DEF TunnelInv
  <1> QED BY <1>1, <1>2, <1>3, <1>4, <1>5 DEF U!Next

LEMMA TunnelHolds == SettingsSpec => []U!DraftKept
  <1>1. SettingsStart => TunnelInv
    BY TunnelInit DEF SettingsStart
  <1>2. [SettingsStep]_<<part, settings>> => [U!Next]_(U!vars)
    BY DEF SettingsStep, DialogStep, HomeStep, settings, dialogs, Uvars, U!vars, U!dialog, U!history
  <1> QED BY <1>1, <1>2, TunnelKept, TunnelNext, PTL DEF SettingsSpec

-----------------------------------------------------------------------------
(* The system proxy.                                                       *)

SysFields == S!Settings \cup {"on"}

\* A save or reset: what it may become keeps what it will patch.
IsSysTask(t) ==
    /\ t = [k \in DOMAIN t |-> t[k]] /\ {"at", "pac"} \subseteq DOMAIN t
    /\ t.at \in {"patch", "refetch", "check", "off", "on"}
    /\ t.at \in {"patch", "refetch"} => DOMAIN t.patch \subseteq S!Settings /\ t.reset \in BOOLEAN

SysConfigs ==
    /\ sSaved = [k \in SysFields |-> sSaved[k]] /\ sSaved.on \in BOOLEAN
    /\ sSeen = [k \in SysFields |-> sSeen[k]] /\ sSeen.on \in BOOLEAN
    /\ sValue = [k \in S!Settings |-> sValue[k]]

SysSwitch ==
    /\ busy = [at |-> busy.at, target |-> busy.target] /\ busy.target \in BOOLEAN
    /\ busy.at \in {"idle", "patch", "refetch"}
    /\ sPending \in {{}, {TRUE}, {FALSE}} /\ wanted \in BOOLEAN
    /\ port \in 1..2 /\ seenPort \in 1..2

SysTypes == SysConfigs /\ SysSwitch /\ \A t \in tasks : IsSysTask(t)

\* What the system learns of at once is as it was saved.
OsFollows ==
    IF sSaved.on
    THEN os.on /\ os.pac = sSaved.pac /\ os.bypass = sSaved.bypass /\ os.content = sSaved.content
    ELSE os = S!Off

\* What the user wanted last is saved, or is on its way.
WantedKept ==
    /\ tasks = {} \/ busy = S!Idle
    /\ busy = S!Idle => sSeen.on = wanted /\ (sSaved.on # wanted => wanted /\ \E t \in tasks : t.at = "on")
    /\ busy # S!Idle => (wanted <=> IF sPending = {} THEN busy.target ELSE TRUE \in sPending)
    /\ busy.at = "refetch" => sSaved.on = busy.target
    /\ \A t \in tasks : t.at \in {"off", "on"} => wanted

\* A save without a reset that changes what the system does not learn of at once began
\* while the proxy was off.
ResetsPlanned ==
    \A t \in tasks : t.at = "patch" /\ ~t.reset /\ DOMAIN t.patch \cap {"host", "use_default"} # {} => ~wanted

\* What the system has not is on its way.
SysDue ==
    os # S!System(sSaved, port) =>
        \/ seenPort # port
        \/ \E t \in tasks : t.at \in {"check", "off", "on"} \/ (t.at = "refetch" /\ t.reset)

SysGood == OsFollows /\ WantedKept /\ ResetsPlanned /\ SysDue
SysInv == SysTypes /\ (~sFailed /\ ~crossed => SysGood)

LEMMA SysInit == S!Init => SysInv
  <1> SUFFICES ASSUME S!Init PROVE SysInv
    OBVIOUS
  <1>1. SysTypes
    <2>1. sSaved = [k \in SysFields |-> sSaved[k]] /\ sSaved.on \in BOOLEAN
      <3>1. PICK m \in BOOLEAN, b \in BOOLEAN, c \in {S!Template, <<"name", 1>>} :
              sSaved = [pac |-> m, host |-> "name", bypass |-> "", use_default |-> TRUE, check |-> TRUE,
                        duration |-> 10, content |-> c, on |-> b]
        BY DEF S!Init
      <3> DEFINE fresh == [pac |-> m, host |-> "name", bypass |-> "", use_default |-> TRUE, check |-> TRUE,
                           duration |-> 10, content |-> c, on |-> b]
      <3>2. DOMAIN fresh = SysFields
        BY DEF SysFields, S!Settings
      <3>3. fresh = [k \in DOMAIN fresh |-> fresh[k]] /\ fresh.on = b
        OBVIOUS
      <3> QED BY <3>1, <3>2, <3>3
    <2>2. sValue = [k \in S!Settings |-> sValue[k]]
      BY <2>1 DEF S!Init, SysFields, S!Form
    <2>3. /\ busy = [at |-> busy.at, target |-> busy.target] /\ busy.target \in BOOLEAN
          /\ busy.at \in {"idle", "patch", "refetch"}
      BY DEF S!Init, S!Idle
    <2>5. sSeen = [k \in SysFields |-> sSeen[k]]
      <3>1. sSeen = sSaved
        BY DEF S!Init
      <3> QED BY <2>1, <3>1, Zenon
    <2>4. sSeen = sSaved /\ sPending = {} /\ wanted = sSaved.on /\ port = 1 /\ seenPort = 1 /\ tasks = {}
      BY DEF S!Init, S!None
    <2> QED BY <2>1, <2>2, <2>3, <2>4, <2>5 DEF SysTypes, SysConfigs, SysSwitch
  <1>2. SysGood
    BY DEF S!Init, SysGood, OsFollows, WantedKept, ResetsPlanned, SysDue, S!System, S!Idle
  <1> QED BY <1>1, <1>2 DEF SysInv

\* What a patch makes of the configuration and of the system.
LEMMA SysPatched ==
    ASSUME SysTypes, NEW patch, DOMAIN patch \subseteq SysFields, S!Patch(patch)
    PROVE  /\ sSaved' = [k \in SysFields |-> sSaved'[k]]
           /\ \A k \in SysFields : sSaved'[k] = IF k \in DOMAIN patch THEN patch[k] ELSE sSaved[k]
           /\ os' = IF DOMAIN patch \cap S!Flagged # {} THEN S!System(sSaved', port) ELSE os
           /\ sFailed' = sFailed
  <1>1. sSaved' = [k \in SysFields |-> IF k \in DOMAIN patch THEN patch[k] ELSE sSaved[k]]
    BY DEF S!Patch, S!Patched, SysTypes, SysConfigs
  <1>2. \A k \in SysFields : sSaved'[k] = IF k \in DOMAIN patch THEN patch[k] ELSE sSaved[k]
    BY <1>1
  <1> QED BY <1>1, <1>2 DEF S!Patch

\* The system has what is saved, once it learned of it.
LEMMA SysSystem ==
    ASSUME sSaved'.on \in BOOLEAN, os' = S!System(sSaved', port)
    PROVE  OsFollows'
  BY DEF S!System, OsFollows

\* A task goes on.
LEMMA SysBecomes ==
    ASSUME NEW t, IsSysTask(t), NEW at \in {"refetch", "check", "off", "on"}
    PROVE  LET u == [t EXCEPT !.at = at]
           IN  /\ at = "refetch" /\ t.at = "patch" => IsSysTask(u)
               /\ at # "refetch" => IsSysTask(u)
               /\ u.at = at /\ u.pac = t.pac
               /\ t.at \in {"patch", "refetch"} => u.reset = t.reset /\ u.patch = t.patch
  <1> DEFINE u == [t EXCEPT !.at = at]
  <1>1. /\ t = [k \in DOMAIN t |-> t[k]] /\ {"at", "pac"} \subseteq DOMAIN t
    BY DEF IsSysTask
  <1>2. DOMAIN u = DOMAIN t /\ u = [k \in DOMAIN u |-> u[k]] /\ u.at = at /\ u.pac = t.pac
    BY <1>1
  <1>3. u.reset = t.reset /\ u.patch = t.patch
    BY <1>1
  <1> HIDE DEF u
  <1>4. /\ at = "refetch" /\ t.at = "patch" => IsSysTask(u)
        /\ at # "refetch" => IsSysTask(u)
    BY <1>1, <1>2, <1>3 DEF IsSysTask
  <1> QED BY <1>2, <1>3, <1>4 DEF u

\* What a save changes is what the form has other than what is seen.
LEMMA SysDifferences == S!Differences = [k \in DOMAIN S!Differences |-> S!Differences[k]] /\ DOMAIN S!Differences \subseteq S!Settings
  BY DEF S!Differences

\* The form stays a form.
LEMMA SysEdits ==
    ASSUME SysTypes, \/ S!EditHost \/ S!EditMode \/ S!EditDuration \/ S!EditUseDefault
                     \/ S!EditBypass \/ S!EditCheck \/ S!EditContent
    PROVE  \E v : S!Edit(v) /\ v = [k \in S!Settings |-> v[k]]
  <1> USE DEF SysTypes, SysConfigs
  <1>1. CASE S!EditHost
    BY <1>1 DEF S!EditHost
  <1>2. CASE S!EditMode
    BY <1>2 DEF S!EditMode
  <1>3. CASE S!EditDuration
    BY <1>3 DEF S!EditDuration
  <1>4. CASE S!EditUseDefault
    <2> DEFINE b == IF sValue.use_default /\ sValue.bypass = "" THEN "list" ELSE sValue.bypass
              v == [sValue EXCEPT !.use_default = ~@, !.bypass = b]
    <2>1. S!Edit(v)
      BY <1>4, Zenon DEF S!EditUseDefault
    <2>2. v = [k \in S!Settings |-> v[k]]
      <3> HIDE DEF b
      <3> QED OBVIOUS
    <2> QED BY <2>1, <2>2
  <1>5. CASE S!EditBypass
    <2>1. PICK b \in {"", "list", "bad"} : S!Edit([sValue EXCEPT !.bypass = b])
      BY <1>5, Zenon DEF S!EditBypass
    <2> DEFINE v == [sValue EXCEPT !.bypass = b]
    <2>2. v = [k \in S!Settings |-> v[k]]
      OBVIOUS
    <2> QED BY <2>1, <2>2
  <1>6. CASE S!EditCheck
    <2> DEFINE v == [sValue EXCEPT !.check = ~@]
    <2>1. S!Edit(v)
      BY <1>6, Zenon DEF S!EditCheck
    <2>2. v = [k \in S!Settings |-> v[k]]
      OBVIOUS
    <2> QED BY <2>1, <2>2
  <1>7. CASE S!EditContent
    BY <1>7 DEF S!EditContent
  <1> QED BY <1>1, <1>2, <1>3, <1>4, <1>5, <1>6, <1>7

LEMMA SysTypesDialog ==
    ASSUME SysTypes, S!Open \/ S!Close \/ S!Save \/ S!ChangePort \/ S!PortSeen \/ (\E v : S!Edit(v) /\ v = [k \in S!Settings |-> v[k]])
    PROVE  SysTypes'
  <1> USE DEF S!ports, S!switch
  <1>1. CASE S!Open
    <2>1. sValue' = [k \in S!Settings |-> sValue'[k]]
      BY <1>1 DEF S!Open, S!Form
    <2> QED BY <1>1, <2>1 DEF S!Open, SysTypes, SysConfigs, SysSwitch
  <1>2. CASE S!Close
    BY <1>2 DEF S!Close, SysTypes, SysConfigs, SysSwitch
  <1>3. CASE S!Save
    <2> DEFINE u == [at |-> "patch", patch |-> S!Differences, reset |-> S!NeedReset /\ sSeen.on, pac |-> sValue.pac]
    <2>1. tasks' = tasks \cup {u} /\ sSeen' = S!Patched(sSeen, S!Differences) /\ SysSwitch' /\ sSaved' = sSaved /\ sValue' = sValue
      BY <1>3 DEF S!Save, SysTypes, SysSwitch
    <2>2. IsSysTask(u)
      <3>1. u.patch = S!Differences /\ u.reset \in BOOLEAN /\ u.at = "patch" /\ DOMAIN u = {"at", "patch", "reset", "pac"}
        BY DEF SysTypes, SysConfigs, S!NeedReset
      <3>2. u = [k \in DOMAIN u |-> u[k]]
        OBVIOUS
      <3> HIDE DEF u
      <3> QED BY <3>1, <3>2, SysDifferences DEF IsSysTask
    <2>3. sSeen' = [k \in SysFields |-> sSeen'[k]] /\ sSeen'.on = sSeen.on
      BY <2>1, SysDifferences DEF S!Patched, SysTypes, SysConfigs, SysFields, S!Settings
    <2> HIDE DEF u
    <2>4. SysConfigs'
      BY <2>1, <2>3 DEF SysTypes, SysConfigs
    <2> QED BY <2>1, <2>2, <2>4 DEF SysTypes
  <1>4. CASE S!ChangePort
    <2>1. port' \in 1..2 /\ seenPort' = seenPort
      BY <1>4 DEF S!ChangePort, SysTypes, SysSwitch
    <2>2. SysConfigs' /\ tasks' = tasks /\ busy' = busy /\ sPending' = sPending /\ wanted' = wanted
      BY <1>4 DEF S!ChangePort, SysTypes, SysConfigs
    <2> QED BY <2>1, <2>2 DEF SysTypes, SysSwitch
  <1>5. CASE S!PortSeen
    <2> DEFINE u == [at |-> "check", port |-> port, pac |-> sValue.pac]
    <2>1. tasks' \in {tasks, tasks \cup {u}} /\ SysSwitch' /\ SysConfigs'
      BY <1>5 DEF S!PortSeen, SysTypes, SysSwitch, SysConfigs
    <2>2. IsSysTask(u)
      BY DEF IsSysTask
    <2> QED BY <2>1, <2>2 DEF SysTypes
  <1>6. CASE \E v : S!Edit(v) /\ v = [k \in S!Settings |-> v[k]]
    <2>1. PICK v : S!Edit(v) /\ v = [k \in S!Settings |-> v[k]]
      BY <1>6
    <2>2. sValue' = [k \in S!Settings |-> sValue'[k]]
      <3>1. sValue' = v
        BY <2>1 DEF S!Edit
      <3> QED BY <2>1, <3>1, Zenon
    <2> QED BY <2>1, <2>2 DEF S!Edit, SysTypes, SysConfigs, SysSwitch
  <1> QED BY <1>1, <1>2, <1>3, <1>4, <1>5, <1>6

\* The saves and resets.
LEMMA SysTypesTask ==
    ASSUME SysTypes, NEW t \in tasks,
           S!SavePatched(t) \/ S!SaveRefetched(t) \/ S!ResetChecked(t) \/ S!ResetOff(t) \/ S!ResetOn(t)
    PROVE  SysTypes'
  <1> USE DEF S!ports, S!switch, S!Rest
  <1>0. IsSysTask(t)
    BY DEF SysTypes
  <1>1. CASE S!SavePatched(t)
    <2>1. tasks' = tasks \ {t} \/ tasks' = (tasks \ {t}) \cup {[t EXCEPT !.at = "refetch"]}
      BY <1>1 DEF S!SavePatched, S!Becomes, S!Ends
    <2>2. IsSysTask([t EXCEPT !.at = "refetch"])
      BY <1>0, <1>1, SysBecomes DEF S!SavePatched
    <2>3. sSaved' = [k \in SysFields |-> sSaved'[k]] /\ sSaved'.on \in BOOLEAN
      <3>1. CASE UNCHANGED sSaved
        BY <3>1 DEF SysTypes, SysConfigs
      <3>2. CASE S!Patch(t.patch)
        <4>1. DOMAIN t.patch \subseteq SysFields /\ "on" \notin DOMAIN t.patch
          BY <1>0, <1>1 DEF IsSysTask, S!SavePatched, SysFields, S!Settings
        <4> QED BY <3>2, <4>1, SysPatched DEF SysTypes, SysConfigs, SysFields
      <3> QED BY <1>1, <3>1, <3>2 DEF S!SavePatched, S!PatchFails
    <2>4. sSeen' = sSeen /\ sValue' = sValue /\ SysSwitch'
      BY <1>1 DEF S!SavePatched, SysTypes, SysSwitch
    <2>5. SysConfigs'
      BY <2>3, <2>4 DEF SysTypes, SysConfigs
    <2> QED BY <2>1, <2>2, <2>4, <2>5 DEF SysTypes
  <1>2. CASE S!SaveRefetched(t)
    <2>1. tasks' = tasks \ {t} \/ tasks' = (tasks \ {t}) \cup {[t EXCEPT !.at = "check"]}
      BY <1>2 DEF S!SaveRefetched, S!Becomes, S!Ends
    <2>2. IsSysTask([t EXCEPT !.at = "check"])
      BY <1>0, SysBecomes
    <2>3. sSeen' = [k \in SysFields |-> sSeen'[k]]
      <3>1. sSeen' = sSaved /\ sSaved = [k \in SysFields |-> sSaved[k]]
        BY <1>2 DEF S!SaveRefetched, SysTypes, SysConfigs
      <3> QED BY <3>1, Zenon
    <2>4. SysConfigs' /\ SysSwitch'
      BY <1>2, <2>3 DEF S!SaveRefetched, SysTypes, SysConfigs, SysSwitch
    <2> QED BY <2>1, <2>2, <2>4 DEF SysTypes
  <1>3. CASE S!ResetChecked(t)
    <2>1. tasks' = tasks \ {t} \/ tasks' = (tasks \ {t}) \cup {[t EXCEPT !.at = "off"]}
      BY <1>3 DEF S!ResetChecked, S!Becomes, S!Ends
    <2>2. IsSysTask([t EXCEPT !.at = "off"])
      BY <1>0, SysBecomes
    <2> QED BY <1>3, <2>1, <2>2 DEF S!ResetChecked, SysTypes, SysConfigs, SysSwitch
  <1>4. ASSUME NEW b \in BOOLEAN, S!Patch([on |-> b]) \/ S!PatchFails, sSeen' = sSeen, sValue' = sValue
        PROVE  SysConfigs'
    <2>1. CASE S!PatchFails
      BY <1>4, <2>1 DEF S!PatchFails, SysTypes, SysConfigs
    <2>2. CASE S!Patch([on |-> b])
      <3>1. DOMAIN [on |-> b] \subseteq SysFields /\ [on |-> b]["on"] = b
        BY DEF SysFields
      <3>2. sSaved' = [k \in SysFields |-> sSaved'[k]] /\ sSaved'.on = b
        BY <2>2, <3>1, SysPatched DEF SysFields
      <3> QED BY <1>4, <3>2 DEF SysTypes, SysConfigs
    <2> QED BY <1>4, <2>1, <2>2
  <1>5. CASE S!ResetOff(t)
    <2>1. tasks' = tasks \ {t} \/ tasks' = (tasks \ {t}) \cup {[t EXCEPT !.at = "on"]}
      BY <1>5 DEF S!ResetOff, S!Becomes, S!Ends
    <2>2. IsSysTask([t EXCEPT !.at = "on"])
      BY <1>0, SysBecomes
    <2>3. SysConfigs' /\ SysSwitch'
      BY <1>4, <1>5 DEF S!ResetOff, SysTypes, SysSwitch
    <2> QED BY <2>1, <2>2, <2>3 DEF SysTypes
  <1>6. CASE S!ResetOn(t)
    <2>1. SysConfigs' /\ SysSwitch'
      BY <1>4, <1>6 DEF S!ResetOn, SysTypes, SysSwitch
    <2> QED BY <1>6, <2>1 DEF S!ResetOn, S!Ends, SysTypes
  <1> QED BY <1>1, <1>2, <1>3, <1>5, <1>6

\* The switch.
LEMMA SysTypesSwitch ==
    ASSUME SysTypes, (\E b \in BOOLEAN : S!Toggle(b)) \/ S!TogglePatched \/ S!ToggleRefetched
    PROVE  SysTypes'
  <1> USE DEF S!ports
  <1>1. CASE \E b \in BOOLEAN : S!Toggle(b)
    <2>1. PICK b \in BOOLEAN : S!Toggle(b)
      BY <1>1
    <2>2. sSeen' = [k \in SysFields |-> sSeen'[k]] /\ sSeen'.on = b
      BY <2>1 DEF S!Toggle, SysTypes, SysConfigs, SysFields
    <2>3. SysSwitch'
      <3>1. sPending' \in {{}, {TRUE}, {FALSE}} /\ wanted' \in BOOLEAN
        BY <2>1 DEF S!Toggle, S!None, SysTypes, SysSwitch
      <3>2. /\ busy' = [at |-> busy'.at, target |-> busy'.target] /\ busy'.target \in BOOLEAN
            /\ busy'.at \in {"idle", "patch", "refetch"}
        BY <2>1 DEF S!Toggle, SysTypes, SysSwitch
      <3> QED BY <2>1, <3>1, <3>2 DEF S!Toggle, SysTypes, SysSwitch
    <2> QED BY <2>1, <2>2, <2>3 DEF S!Toggle, SysTypes, SysConfigs
  <1>2. CASE S!TogglePatched
    <2>1. /\ busy' = [at |-> busy'.at, target |-> busy'.target] /\ busy'.target \in BOOLEAN
          /\ busy'.at \in {"idle", "patch", "refetch"}
      <3>1. busy = [at |-> busy.at, target |-> busy.target] /\ busy.target \in BOOLEAN
        BY DEF SysTypes, SysSwitch
      <3>2. CASE busy' = [busy EXCEPT !.at = "refetch"]
        <4>1. busy' = [at |-> "refetch", target |-> busy.target]
          BY <3>1, <3>2
        <4> QED BY <3>1, <4>1
      <3>3. CASE busy' = S!Idle
        BY <3>3 DEF S!Idle
      <3> QED BY <1>2, <3>2, <3>3 DEF S!TogglePatched
    <2>2. SysSwitch'
      BY <1>2, <2>1 DEF S!TogglePatched, SysTypes, SysSwitch
    <2>3. sSaved' = [k \in SysFields |-> sSaved'[k]] /\ sSaved'.on \in BOOLEAN
      <3>1. CASE S!PatchFails
        BY <3>1 DEF S!PatchFails, SysTypes, SysConfigs
      <3>2. CASE S!Patch([on |-> busy.target])
        <4>1. DOMAIN [on |-> busy.target] \subseteq SysFields /\ [on |-> busy.target]["on"] = busy.target
          BY DEF SysFields
        <4>2. busy.target \in BOOLEAN
          BY DEF SysTypes, SysSwitch
        <4> QED BY <3>2, <4>1, <4>2, SysPatched DEF SysFields
      <3> QED BY <1>2, <3>1, <3>2 DEF S!TogglePatched
    <2> QED BY <1>2, <2>2, <2>3 DEF S!TogglePatched, SysTypes, SysConfigs
  <1>3. CASE S!ToggleRefetched
    <2>1. sSeen' = [k \in SysFields |-> sSeen'[k]]
      <3>1. sSeen' = sSaved /\ sSaved = [k \in SysFields |-> sSaved[k]]
        BY <1>3 DEF S!ToggleRefetched, SysTypes, SysConfigs
      <3> QED BY <3>1, Zenon
    <2>2. SysSwitch'
      <3> DEFINE b == TRUE \in sPending
      <3>1. b \in BOOLEAN
        BY DEF SysTypes, SysSwitch
      <3>2. busy' = [at |-> "idle", target |-> FALSE] \/ busy' = [at |-> "patch", target |-> b]
        BY <1>3 DEF S!ToggleRefetched, S!Idle
      <3> HIDE DEF b
      <3>3. /\ busy' = [at |-> busy'.at, target |-> busy'.target] /\ busy'.target \in BOOLEAN
            /\ busy'.at \in {"idle", "patch", "refetch"}
        <4>1. CASE busy' = [at |-> "idle", target |-> FALSE]
          BY <4>1
        <4>2. CASE busy' = [at |-> "patch", target |-> b]
          BY <3>1, <4>2
        <4> QED BY <3>2, <4>1, <4>2
      <3> QED BY <1>3, <3>3 DEF S!ToggleRefetched, S!None, SysTypes, SysSwitch
    <2> QED BY <1>3, <2>1, <2>2 DEF S!ToggleRefetched, SysTypes, SysConfigs
  <1> QED BY <1>1, <1>2, <1>3

\* A task that ends leaves what the others hold.
LEMMA SysGoodDialog ==
    ASSUME SysTypes, SysGood, ~crossed', ~sFailed',
           S!Open \/ S!Close \/ S!Save \/ S!ChangePort \/ S!PortSeen \/ (\E v : S!Edit(v))
    PROVE  SysGood'
  <1> USE DEF S!ports, S!switch
  <1>1. CASE S!Open \/ S!Close \/ (\E v : S!Edit(v))
    <2>1. UNCHANGED <<sSaved, sSeen, port, seenPort, os, tasks, sPending, busy, wanted>>
      BY <1>1 DEF S!Open, S!Close, S!Edit
    <2> QED BY <2>1 DEF SysGood, OsFollows, WantedKept, ResetsPlanned, SysDue, S!System
  <1>2. CASE S!ChangePort
    <2>1. UNCHANGED <<sSaved, sSeen, os, tasks, sPending, busy, wanted>> /\ seenPort' # port'
      BY <1>2 DEF S!ChangePort, SysTypes, SysSwitch
    <2> QED BY <2>1 DEF SysGood, OsFollows, WantedKept, ResetsPlanned, SysDue, S!System
  <1>3. CASE S!PortSeen
    <2> DEFINE u == [at |-> "check", port |-> port, pac |-> sValue.pac]
    <2>1. /\ UNCHANGED <<sSaved, sSeen, os, port, sPending, busy, wanted>> /\ seenPort' = port /\ busy = S!Idle
          /\ tasks' = IF sSeen.on THEN tasks \cup {u} ELSE tasks
      BY <1>3 DEF S!PortSeen
    <2>2. u.at = "check"
      OBVIOUS
    <2> HIDE DEF u
    <2>3. OsFollows' /\ ResetsPlanned' /\ WantedKept'
      BY <2>1, <2>2 DEF SysGood, OsFollows, WantedKept, ResetsPlanned
    <2>4. SysDue'
      <3>1. CASE sSeen.on
        BY <2>1, <2>2, <3>1 DEF SysDue
      <3>2. CASE ~sSeen.on
        <4>1. ~sSaved.on /\ tasks' = tasks
          BY <2>1, <3>2 DEF SysGood, WantedKept, SysTypes, SysConfigs, SysSwitch
        <4>2. os = S!System(sSaved, port)
          BY <4>1 DEF SysGood, OsFollows, S!System
        <4> QED BY <2>1, <4>2 DEF SysDue, S!System
      <3> QED BY <3>1, <3>2
    <2> QED BY <2>3, <2>4 DEF SysGood
  <1>4. CASE S!Save
    <2> DEFINE u == [at |-> "patch", patch |-> S!Differences, reset |-> S!NeedReset /\ sSeen.on, pac |-> sValue.pac]
    <2>1. /\ UNCHANGED <<sSaved, os, port, seenPort, sPending, busy, wanted>> /\ tasks' = tasks \cup {u} /\ busy = S!Idle
          /\ sSeen' = S!Patched(sSeen, S!Differences)
      BY <1>4 DEF S!Save
    <2>2. u.at = "patch" /\ u.patch = S!Differences /\ u.reset = (S!NeedReset /\ sSeen.on)
      OBVIOUS
    <2> HIDE DEF u
    <2>3. sSeen'.on = sSeen.on
      BY <2>1, SysDifferences DEF S!Patched, S!Settings, SysTypes, SysConfigs, SysFields
    <2>4. DOMAIN u.patch \cap {"host", "use_default"} # {} => S!NeedReset
      BY <2>2 DEF S!NeedReset
    <2>5. OsFollows' /\ WantedKept' /\ SysDue'
      BY <2>1, <2>2, <2>3 DEF SysGood, OsFollows, WantedKept, SysDue, S!System
    <2>6. ResetsPlanned'
      <3>1. sSeen.on = wanted /\ wanted' = wanted
        BY <2>1 DEF SysGood, WantedKept
      <3>2. \A t \in tasks' : t \in tasks \/ t = u
        BY <2>1
      <3> QED BY <2>2, <2>4, <3>1, <3>2 DEF SysGood, ResetsPlanned
    <2> QED BY <2>5, <2>6 DEF SysGood
  <1> QED BY <1>1, <1>2, <1>3, <1>4

\* A patch leaves what it does not name.
LEMMA SysPatchedOn ==
    ASSUME SysTypes, NEW b \in BOOLEAN, S!Patch([on |-> b])
    PROVE  sSaved'.on = b /\ sSaved'.on \in BOOLEAN /\ os' = S!System(sSaved', port)
  <1>1. DOMAIN [on |-> b] \subseteq SysFields /\ [on |-> b]["on"] = b /\ DOMAIN [on |-> b] = {"on"}
    BY DEF SysFields
  <1>2. DOMAIN [on |-> b] \cap S!Flagged # {} /\ "on" \in SysFields
    BY <1>1 DEF S!Flagged, SysFields
  <1> QED BY <1>1, <1>2, SysPatched

LEMMA SysGoodPatched ==
    ASSUME SysTypes, SysGood, ~sFailed', NEW t \in tasks, S!SavePatched(t)
    PROVE  SysGood'
  <1> DEFINE u == [t EXCEPT !.at = "refetch"]
  <1>0. IsSysTask(t) /\ t.at = "patch"
    BY DEF SysTypes, S!SavePatched
  <1>1. IsSysTask(u) /\ u.at = "refetch" /\ u.reset = t.reset
    BY <1>0, SysBecomes
  <1>2. tasks' = (tasks \ {t}) \cup {u} /\ (UNCHANGED <<sSaved, os>> \/ S!Patch(t.patch))
    BY DEF S!SavePatched, S!Becomes, S!Ends, S!PatchFails
  <1>3. UNCHANGED <<sSeen, port, seenPort, sPending, busy, wanted>>
    BY DEF S!SavePatched, S!Rest, S!ports, S!switch
  <1>4. DOMAIN t.patch \subseteq SysFields /\ DOMAIN t.patch \subseteq S!Settings /\ "on" \notin DOMAIN t.patch
    BY <1>0 DEF IsSysTask, SysFields, S!Settings
  <1> HIDE DEF u
  <1>5. busy = S!Idle /\ sSeen.on = wanted /\ (sSaved.on # wanted => wanted /\ \E v \in tasks : v.at = "on")
    BY DEF SysGood, WantedKept
  <1>6. sSaved'.on = sSaved.on
    <2>1. CASE S!Patch(t.patch)
      BY <1>4, <2>1, SysPatched DEF SysFields
    <2> QED BY <1>2, <2>1
  <1>7. WantedKept' /\ ResetsPlanned'
    <2>1. \A v \in tasks : v.at = "on" => v \in tasks'
      BY <1>0, <1>2
    <2>2. \A v \in tasks' : v \in tasks \/ v = u
      BY <1>2
    <2>3. ResetsPlanned'
      BY <1>1, <1>3, <2>2 DEF SysGood, ResetsPlanned
    <2>4. \A v \in tasks' : v.at \in {"off", "on"} => wanted'
      BY <1>1, <1>3, <2>2 DEF SysGood, WantedKept
    <2>5. sSaved'.on # wanted' => wanted' /\ \E v \in tasks' : v.at = "on"
      BY <1>3, <1>5, <1>6, <2>1
    <2> QED BY <1>3, <1>5, <2>3, <2>4, <2>5 DEF WantedKept, S!Idle
  <1>8. ASSUME os' = os, S!System(sSaved', port) = S!System(sSaved, port)
        PROVE  SysDue'
    <2>1. \A v \in tasks : v # t => v \in tasks'
      BY <1>2
    <2>2. port' = port /\ seenPort' = seenPort
      BY <1>3
    <2>3. S!System(sSaved, port)' = S!System(sSaved', port)
      BY <2>2 DEF S!System
    <2> QED BY <1>0, <1>8, <2>1, <2>2, <2>3 DEF SysGood, SysDue
  <1>9. CASE UNCHANGED <<sSaved, os>>
    <2>1. OsFollows'
      BY <1>9 DEF SysGood, OsFollows
    <2>2. S!System(sSaved', port) = S!System(sSaved, port)
      BY <1>9 DEF S!System
    <2> QED BY <1>7, <1>8, <1>9, <2>1, <2>2 DEF SysGood
  <1>10. CASE S!Patch(t.patch) /\ DOMAIN t.patch \cap S!Flagged # {}
    <2>1. os' = S!System(sSaved', port) /\ sSaved'.on \in BOOLEAN
      BY <1>4, <1>6, <1>10, SysPatched DEF SysTypes, SysConfigs
    <2>2. OsFollows'
      BY <2>1, SysSystem
    <2>3. SysDue'
      BY <1>3, <2>1 DEF SysDue, S!System
    <2> QED BY <1>7, <2>2, <2>3 DEF SysGood
  <1>11. CASE S!Patch(t.patch) /\ DOMAIN t.patch \cap S!Flagged = {}
    <2>1. os' = os /\ \A k \in SysFields : sSaved'[k] = IF k \in DOMAIN t.patch THEN t.patch[k] ELSE sSaved[k]
      BY <1>4, <1>11, SysPatched
    <2>2. sSaved'.pac = sSaved.pac /\ sSaved'.bypass = sSaved.bypass /\ sSaved'.content = sSaved.content
      BY <1>11, <2>1 DEF S!Flagged, SysFields, S!Settings
    <2>3. OsFollows'
      BY <1>6, <2>1, <2>2 DEF SysGood, OsFollows
    <2>4. SysDue'
      <3>1. CASE DOMAIN t.patch \cap {"host", "use_default"} = {}
        <4>1. sSaved'.host = sSaved.host /\ sSaved'.use_default = sSaved.use_default
          BY <2>1, <3>1 DEF SysFields, S!Settings
        <4>2. S!System(sSaved', port) = S!System(sSaved, port)
          BY <1>6, <2>2, <4>1 DEF S!System
        <4> QED BY <1>8, <2>1, <4>2
      <3>2. CASE t.reset
        <4>1. u \in tasks' /\ u.at = "refetch" /\ u.reset
          BY <1>1, <1>2, <3>2
        <4> QED BY <4>1 DEF SysDue
      <3>3. CASE DOMAIN t.patch \cap {"host", "use_default"} # {} /\ ~t.reset
        <4>1. ~wanted
          BY <1>0, <3>3 DEF SysGood, ResetsPlanned
        <4>2. ~sSaved.on
          BY <1>5, <4>1 DEF SysTypes, SysConfigs, SysSwitch
        <4>3. os' = S!Off /\ S!System(sSaved', port') = S!Off
          BY <1>6, <2>1, <4>2 DEF SysGood, OsFollows, S!System
        <4> QED BY <4>3 DEF SysDue, S!System
      <3> QED BY <3>1, <3>2, <3>3
    <2> QED BY <1>7, <2>3, <2>4 DEF SysGood
  <1> QED BY <1>2, <1>9, <1>10, <1>11

LEMMA SysGoodTask ==
    ASSUME SysTypes, SysGood, ~crossed', ~sFailed', NEW t \in tasks,
           S!SaveRefetched(t) \/ S!ResetChecked(t) \/ S!ResetOff(t) \/ S!ResetOn(t)
    PROVE  SysGood'
  <1>0. IsSysTask(t)
    BY DEF SysTypes
  <1>1. busy = S!Idle /\ sSeen.on = wanted /\ (sSaved.on # wanted => wanted /\ \E v \in tasks : v.at = "on")
    BY DEF SysGood, WantedKept
  <1>2. UNCHANGED <<port, seenPort, sPending, busy, wanted>>
    BY DEF S!SaveRefetched, S!ResetChecked, S!ResetOff, S!ResetOn, S!Rest, S!ports, S!switch
  <1>3. CASE S!SaveRefetched(t)
    <2> DEFINE u == [t EXCEPT !.at = "check"]
    <2>1. u.at = "check"
      BY <1>0, SysBecomes
    <2> HIDE DEF u
    <2>2. /\ sSeen' = sSaved /\ UNCHANGED <<sSaved, os>> /\ \A v \in tasks : v.at # "on"
          /\ tasks' = IF t.reset THEN (tasks \ {t}) \cup {u} ELSE tasks \ {t}
      BY <1>3 DEF S!SaveRefetched, S!Becomes, S!Ends, u
    <2>3. \A v \in tasks' : v \in tasks \/ v = u
      BY <2>2
    <2>4. WantedKept' /\ ResetsPlanned' /\ OsFollows'
      BY <1>1, <1>2, <2>1, <2>2, <2>3 DEF SysGood, WantedKept, ResetsPlanned, OsFollows
    <2>5. SysDue'
      <3>1. S!System(sSaved, port)' = S!System(sSaved, port)
        BY <1>2, <2>2 DEF S!System
      <3>2. t.reset => u \in tasks'
        BY <2>2
      <3>3. \A v \in tasks : v # t => v \in tasks'
        BY <2>2
      <3>4. t.at = "refetch"
        BY <1>3 DEF S!SaveRefetched
      <3> QED BY <1>2, <2>1, <2>2, <3>1, <3>2, <3>3, <3>4 DEF SysGood, SysDue
    <2> QED BY <2>4, <2>5 DEF SysGood
  <1>4. CASE S!ResetChecked(t)
    <2> DEFINE u == [t EXCEPT !.at = "off"]
    <2>1. u.at = "off"
      BY <1>0, SysBecomes
    <2> HIDE DEF u
    <2>2. /\ UNCHANGED <<sSaved, sSeen, os>> /\ t.pac = sSaved.pac /\ t.at = "check"
          /\ tasks' = IF S!Active(t.pac) THEN (tasks \ {t}) \cup {u} ELSE tasks \ {t}
      BY <1>4 DEF S!ResetChecked, S!Becomes, S!Ends, u
    <2>3. \A v \in tasks' : v \in tasks \/ (v = u /\ S!Active(t.pac))
      BY <2>2
    <2>4. S!Active(t.pac) => wanted
      BY <1>1 DEF SysGood, OsFollows, S!Active, S!Off, SysTypes, SysConfigs, SysSwitch
    <2>5. \A v \in tasks : v # t => v \in tasks'
      BY <2>2
    <2>6. WantedKept'
      BY <1>1, <1>2, <2>1, <2>2, <2>3, <2>4, <2>5 DEF SysGood, WantedKept
    <2>7. ResetsPlanned' /\ OsFollows'
      BY <1>2, <2>1, <2>2, <2>3 DEF SysGood, ResetsPlanned, OsFollows
    <2>8. SysDue'
      <3>1. S!System(sSaved, port)' = S!System(sSaved, port)
        BY <1>2, <2>2 DEF S!System
      <3>2. CASE S!Active(t.pac)
        BY <2>1, <2>2, <3>2 DEF SysDue
      <3>3. CASE ~S!Active(t.pac)
        <4>1. ~sSaved.on
          BY <2>2, <3>3 DEF SysGood, OsFollows, S!Active
        <4>2. os = S!System(sSaved, port)
          BY <4>1 DEF SysGood, OsFollows, S!System
        <4> QED BY <2>2, <3>1, <4>2 DEF SysDue
      <3> QED BY <3>2, <3>3
    <2> QED BY <2>6, <2>7, <2>8 DEF SysGood
  <1>5. CASE S!ResetOff(t)
    <2> DEFINE u == [t EXCEPT !.at = "on"]
    <2>1. u.at = "on"
      BY <1>0, SysBecomes
    <2> HIDE DEF u
    <2>2. S!Patch([on |-> FALSE]) /\ UNCHANGED sSeen /\ t.at = "off" /\ tasks' = (tasks \ {t}) \cup {u}
      BY <1>5 DEF S!ResetOff, S!PatchFails, S!Becomes, S!Ends, u
    <2>3. sSaved'.on \in BOOLEAN /\ os' = S!System(sSaved', port)
      BY <2>2, SysPatchedOn
    <2>4. OsFollows' /\ SysDue'
      BY <1>2, <2>3, SysSystem DEF SysDue, S!System
    <2>5. wanted /\ \A v \in tasks' : v \in tasks \/ v = u
      BY <2>2 DEF SysGood, WantedKept
    <2>6. WantedKept' /\ ResetsPlanned'
      BY <1>1, <1>2, <2>1, <2>2, <2>5 DEF SysGood, WantedKept, ResetsPlanned, S!Idle
    <2> QED BY <2>4, <2>6 DEF SysGood
  <1>6. CASE S!ResetOn(t)
    <2>2. S!Patch([on |-> TRUE]) /\ UNCHANGED sSeen /\ t.at = "on" /\ tasks' = tasks \ {t}
      BY <1>6 DEF S!ResetOn, S!PatchFails, S!Ends
    <2>3. sSaved'.on /\ sSaved'.on \in BOOLEAN /\ os' = S!System(sSaved', port)
      BY <2>2, SysPatchedOn
    <2>4. OsFollows' /\ SysDue'
      BY <1>2, <2>3, SysSystem DEF SysDue, S!System
    <2>5. wanted /\ sSaved'.on = wanted
      BY <2>2, <2>3 DEF SysGood, WantedKept, SysTypes, SysSwitch
    <2>6. WantedKept' /\ ResetsPlanned'
      BY <1>1, <1>2, <2>2, <2>5 DEF SysGood, WantedKept, ResetsPlanned, S!Idle
    <2> QED BY <2>4, <2>6 DEF SysGood
  <1> QED BY <1>3, <1>4, <1>5, <1>6

LEMMA SysGoodSwitch ==
    ASSUME SysTypes, SysGood, ~crossed', ~sFailed',
           (\E b \in BOOLEAN : S!Toggle(b)) \/ S!TogglePatched \/ S!ToggleRefetched
    PROVE  SysGood'
  <1> USE DEF S!ports
  <1>1. CASE \E b \in BOOLEAN : S!Toggle(b)
    <2>1. PICK b \in BOOLEAN : S!Toggle(b)
      BY <1>1
    <2>2. /\ UNCHANGED <<sSaved, os, port, seenPort, tasks>> /\ tasks = {} /\ wanted' = b
          /\ IF busy = S!Idle THEN sPending' = {} /\ busy' = [at |-> "patch", target |-> b]
             ELSE sPending' = {b} /\ busy' = busy
      BY <2>1 DEF S!Toggle, S!None
    <2>3. OsFollows' /\ ResetsPlanned'
      BY <2>2 DEF SysGood, OsFollows, ResetsPlanned
    <2>4. SysDue'
      BY <2>2 DEF SysGood, SysDue, S!System
    <2>5. (wanted' <=> IF sPending' = {} THEN busy'.target ELSE TRUE \in sPending') /\ busy' # S!Idle
      <3>1. CASE busy = S!Idle
        <4>1. busy' = [at |-> "patch", target |-> b] /\ sPending' = {} /\ wanted' = b
          BY <2>2, <3>1
        <4>2. busy'.at = "patch" /\ busy'.target = b /\ S!Idle.at = "idle"
          BY <4>1 DEF S!Idle
        <4>3. busy' # S!Idle
          BY <4>2
        <4> QED BY <4>1, <4>2, <4>3
      <3>2. CASE busy # S!Idle
        <4>1. (TRUE \in {b}) <=> b
          OBVIOUS
        <4> QED BY <2>2, <3>2, <4>1
      <3> QED BY <3>1, <3>2
    <2>6. busy'.at = "refetch" => sSaved'.on = busy'.target
      BY <2>2 DEF SysGood, WantedKept
    <2>7. WantedKept'
      BY <2>2, <2>5, <2>6 DEF WantedKept
    <2> QED BY <2>3, <2>4, <2>7 DEF SysGood
  <1>2. CASE S!TogglePatched
    <2>1. /\ S!Patch([on |-> busy.target]) /\ busy' = [busy EXCEPT !.at = "refetch"] /\ busy # S!Idle
          /\ UNCHANGED <<sSeen, port, seenPort, tasks, sPending, wanted>>
      BY <1>2 DEF S!TogglePatched, S!PatchFails, S!Idle
    <2>2. busy.target \in BOOLEAN
      BY DEF SysTypes, SysSwitch
    <2>3. sSaved'.on = busy.target /\ sSaved'.on \in BOOLEAN /\ os' = S!System(sSaved', port)
      BY <2>1, <2>2, SysPatchedOn
    <2>4. OsFollows' /\ SysDue'
      BY <2>1, <2>3, SysSystem DEF SysDue, S!System
    <2>5. busy'.at = "refetch" /\ busy'.target = busy.target
      <3>1. busy = [at |-> busy.at, target |-> busy.target]
        BY DEF SysTypes, SysSwitch
      <3>2. busy' = [at |-> "refetch", target |-> busy.target]
        BY <2>1, <3>1
      <3> QED BY <3>2
    <2>6. tasks = {}
      BY <2>1 DEF SysGood, WantedKept
    <2>7. WantedKept' /\ ResetsPlanned'
      BY <2>1, <2>3, <2>5, <2>6 DEF SysGood, WantedKept, ResetsPlanned, S!Idle
    <2> QED BY <2>4, <2>7 DEF SysGood
  <1>3. CASE S!ToggleRefetched
    <2>1. /\ sSeen' = sSaved /\ sPending' = {} /\ UNCHANGED <<sSaved, os, port, seenPort, tasks, wanted>>
          /\ busy' = IF sPending = {} THEN S!Idle ELSE [at |-> "patch", target |-> TRUE \in sPending]
      BY <1>3 DEF S!ToggleRefetched, S!None
    <2>2. OsFollows' /\ ResetsPlanned'
      BY <2>1 DEF SysGood, OsFollows, ResetsPlanned
    <2>3. SysDue'
      BY <2>1 DEF SysGood, SysDue, S!System
    <2>4. /\ tasks = {} /\ (wanted <=> IF sPending = {} THEN busy.target ELSE TRUE \in sPending)
          /\ sSaved.on = busy.target
      <3>1. busy.at = "refetch" /\ busy # S!Idle
        BY <1>3 DEF S!ToggleRefetched, S!Idle
      <3> QED BY <3>1, Zenon DEF SysGood, WantedKept
    <2>5. WantedKept'
      BY <2>1, <2>4 DEF WantedKept, S!Idle
    <2> QED BY <2>2, <2>3, <2>5 DEF SysGood
  <1> QED BY <1>1, <1>2, <1>3

\* The system proxy has what was saved.
LEMMA SysHolds == SettingsSpec => [](S!SystemIsSaved /\ S!LastClickWins)
  <1>1. SettingsStart => SysInv
    BY SysInit DEF SettingsStart
  <1>2. [SettingsStep]_<<part, settings>> => [S!Next]_(S!vars)
    BY DEF SettingsStep, DialogStep, HomeStep, settings, dialogs, Svars, S!vars, S!ports, S!switch
  <1>3. SysInv /\ [S!Next]_(S!vars) => SysInv'
    <2> SUFFICES ASSUME SysInv, [S!Next]_(S!vars) PROVE SysInv'
      OBVIOUS
    <2>1. CASE UNCHANGED S!vars
      BY <2>1 DEF S!vars, S!ports, S!switch, SysInv, SysTypes, SysConfigs, SysSwitch,
                  SysGood, OsFollows, WantedKept, ResetsPlanned, SysDue, S!System
    <2>2. CASE S!Next
      <3>1. ~sFailed' => ~sFailed
        BY <2>2 DEF S!Next, S!Open, S!Close, S!Save, S!ChangePort, S!PortSeen, S!EditHost, S!EditMode,
                    S!EditDuration, S!EditUseDefault, S!EditBypass, S!EditCheck, S!EditContent, S!Edit,
                    S!SavePatched, S!SaveRefetched, S!ResetChecked, S!ResetOff, S!ResetOn, S!Toggle,
                    S!TogglePatched, S!ToggleRefetched, S!Patch, S!PatchFails
      <3>2. ~crossed' => ~crossed
        BY <2>2 DEF S!Next, S!Open, S!Close, S!Save, S!ChangePort, S!PortSeen, S!EditHost, S!EditMode,
                    S!EditDuration, S!EditUseDefault, S!EditBypass, S!EditCheck, S!EditContent, S!Edit,
                    S!SavePatched, S!SaveRefetched, S!ResetChecked, S!ResetOff, S!ResetOn, S!Toggle,
                    S!TogglePatched, S!ToggleRefetched
      <3>3. SysTypes /\ (~sFailed' /\ ~crossed' => SysGood)
        BY <3>1, <3>2 DEF SysInv
      <3>4. SUFFICES SysTypes' /\ (~sFailed' /\ ~crossed' => SysGood')
        BY DEF SysInv
      <3>5. CASE S!Open \/ S!Close \/ S!Save \/ S!ChangePort \/ S!PortSeen
        BY <3>3, <3>5, SysTypesDialog, SysGoodDialog
      <3>6. CASE \/ S!EditHost \/ S!EditMode \/ S!EditDuration \/ S!EditUseDefault
                 \/ S!EditBypass \/ S!EditCheck \/ S!EditContent
        <4>1. \E v : S!Edit(v) /\ v = [k \in S!Settings |-> v[k]]
          BY <3>3, <3>6, SysEdits
        <4>2. \E v : S!Edit(v)
          BY <4>1
        <4> QED BY <3>3, <4>1, <4>2, SysTypesDialog, SysGoodDialog
      <3>7. CASE \E t \in tasks : S!SavePatched(t) \/ S!SaveRefetched(t) \/ S!ResetChecked(t)
                                 \/ S!ResetOff(t) \/ S!ResetOn(t)
        BY <3>3, <3>7, SysTypesTask, SysGoodPatched, SysGoodTask
      <3>8. CASE (\E b \in BOOLEAN : S!Toggle(b)) \/ S!TogglePatched \/ S!ToggleRefetched
        BY <3>3, <3>8, SysTypesSwitch, SysGoodSwitch
      <3> QED BY <2>2, <3>5, <3>6, <3>7, <3>8 DEF S!Next
    <2> QED BY <2>1, <2>2
  <1>4. SysInv => S!SystemIsSaved /\ S!LastClickWins
    <2> SUFFICES ASSUME SysInv, S!Quiet, ~crossed PROVE os = S!System(sSaved, port) /\ sSaved.on = wanted
      BY DEF S!SystemIsSaved, S!LastClickWins
    <2> QED BY DEF SysInv, S!Quiet, SysGood, SysDue, WantedKept
  <1> QED BY <1>1, <1>2, <1>3, <1>4, PTL DEF SettingsSpec

-----------------------------------------------------------------------------
(* The ports of the core.                                                  *)

IsPortCheck(c) == c = [values |-> c.values, original |-> c.original, free |-> c.free, todo |-> c.todo]
IsPortSave(t) ==
    t = [n |-> t.n, values |-> t.values, original |-> t.original, free |-> t.free, info |-> t.info, verge |-> t.verge]

\* Of a check under way: what is not free yet is to be asked for.
PortsAsked ==
    \A c \in checking :
        /\ IsPortCheck(c) /\ O!Distinct(c.values) /\ O!InRange(c.values)
        /\ \A k \in O!On(c.values) : c.values.port[k] \in c.free \cup {c.original.port[k]} \/ k \in c.todo

\* A save that is alone has changed what its requests have answered.
PortsSaved ==
    /\ \A t, u \in oTasks : t = u
    /\ oTasks = {} => clash = verge.port
    /\ \A t \in oTasks :
        /\ t.info \in {"sent", "done"} /\ t.verge # "failed"
        /\ t.info = "done" => clash = t.values.port
        /\ t.verge \in {"fetch", "done"} => verge.port = t.values.port

PortInv ==
    /\ PortsAsked /\ \A t \in oTasks : IsPortSave(t)
    /\ O!SentIsChecked
    /\ ~oFailed /\ ~overlapped => PortsSaved

LEMMA PortInit == O!Init => PortInv
  BY DEF O!Init, PortInv, PortsAsked, PortsSaved, O!SentIsChecked, O!None, O!Default

\* The form.
LEMMA PortForm ==
    ASSUME PortInv, O!Open \/ O!Close \/ O!MixedRow \/ O!SocksRow \/ O!HttpRow \/ O!RedirRow
    PROVE  PortInv'
  <1>1. UNCHANGED <<clash, verge, checking, oTasks, overlapped, oFailed>>
    BY DEF O!Open, O!Close, O!MixedRow, O!SocksRow, O!HttpRow, O!RedirRow, O!EditPort, O!Enable, O!Edit
  <1> QED BY <1>1 DEF PortInv, PortsAsked, PortsSaved, O!SentIsChecked

LEMMA PortCheck ==
    ASSUME PortInv, O!Save \/ O!PortChecked
    PROVE  PortInv'
  <1>1. UNCHANGED <<clash, verge, oTasks, overlapped, oFailed>>
    BY DEF O!Save, O!PortChecked
  <1>2. CASE O!Save
    <2> DEFINE c == [values |-> oValues, original |-> original, free |-> {}, todo |-> O!Changed(oValues, original)]
    <2>1. checking' = {c} /\ O!Distinct(oValues) /\ O!InRange(oValues)
      BY <1>2 DEF O!Save
    <2>2. /\ IsPortCheck(c) /\ c.values = oValues /\ c.original = original /\ c.free = {}
          /\ c.todo = O!Changed(oValues, original)
      BY DEF IsPortCheck
    <2> HIDE DEF c
    <2>3. \A k \in O!On(c.values) : c.values.port[k] \in c.free \cup {c.original.port[k]} \/ k \in c.todo
      BY <2>2 DEF O!Changed
    <2>5. O!Distinct(c.values) /\ O!InRange(c.values)
      BY <2>1, <2>2
    <2>4. PortsAsked'
      BY <2>1, <2>2, <2>3, <2>5 DEF PortsAsked
    <2> QED BY <1>1, <2>4 DEF PortInv, PortsSaved, O!SentIsChecked
  <1>3. CASE O!PortChecked
    <2>1. PICK c \in checking :
            \/ checking' = {[c EXCEPT !.todo = @ \ {O!First(@)}, !.free = @ \cup {c.values.port[O!First(c.todo)]}]}
            \/ checking' = {}
      BY <1>3 DEF O!PortChecked, O!None
    <2> DEFINE k0 == O!First(c.todo)
               d == [values |-> c.values, original |-> c.original, free |-> c.free \cup {c.values.port[k0]},
                     todo |-> c.todo \ {k0}]
    <2>2. checking' = {d} \/ checking' = {}
      <3>1. ASSUME NEW x, NEW y, NEW e, e = [c EXCEPT !.todo = x, !.free = y]
            PROVE  e = [values |-> c.values, original |-> c.original, free |-> y, todo |-> x]
        <4>1. PICK v, o, f, w : c = [values |-> v, original |-> o, free |-> f, todo |-> w]
          <5>1. c = [values |-> c.values, original |-> c.original, free |-> c.free, todo |-> c.todo]
            BY DEF PortInv, PortsAsked, IsPortCheck
          <5> QED BY <5>1, Zenon
        <4>2. c.values = v /\ c.original = o
          BY <4>1
        <4> QED BY <3>1, <4>1, <4>2
      <3>2. c.todo \ {O!First(c.todo)} = c.todo \ {k0}
        OBVIOUS
      <3> QED BY <2>1, <3>1, Zenon
    <2> HIDE DEF k0
    <2>3. /\ IsPortCheck(d) /\ d.values = c.values /\ d.original = c.original
          /\ d.free = c.free \cup {c.values.port[k0]} /\ d.todo = c.todo \ {k0}
      BY DEF IsPortCheck
    <2> HIDE DEF d
    <2>4. PortsAsked'
      BY <2>2, <2>3 DEF PortInv, PortsAsked
    <2> QED BY <1>1, <2>4 DEF PortInv, PortsSaved, O!SentIsChecked
  <1> QED BY <1>2, <1>3

LEMMA PortSend ==
    ASSUME PortInv, O!Checked
    PROVE  PortInv'
  <1>1. PICK c \in checking : c.todo = {} /\ O!SendSettings(c)
    BY DEF O!Checked
  <1> DEFINE t == [n |-> latest + 1, values |-> c.values, original |-> c.original, free |-> c.free,
                   info |-> O!InfoStarts, verge |-> "sent"]
  <1>2. /\ oTasks' = oTasks \cup {t} /\ checking' = {} /\ UNCHANGED <<clash, verge, oFailed>>
        /\ (~overlapped' => oTasks = {} /\ ~overlapped)
    BY <1>1 DEF O!Checked, O!SendSettings, O!None
  <1>3. /\ IsPortSave(t) /\ t.values = c.values /\ t.original = c.original /\ t.free = c.free
        /\ t.info = O!InfoStarts /\ t.verge = "sent"
    BY DEF IsPortSave
  <1> HIDE DEF t
  <1>4. O!SentIsChecked'
    BY <1>1, <1>2, <1>3 DEF PortInv, PortsAsked, O!SentIsChecked
  <1>5. ~oFailed' /\ ~overlapped' => PortsSaved'
    BY <1>2, <1>3 DEF PortInv, PortsSaved, O!InfoStarts
  <1> QED BY <1>2, <1>3, <1>4, <1>5 DEF PortInv, PortsAsked

LEMMA PortTask ==
    ASSUME PortInv, NEW t \in oTasks,
           O!InfoDone(t) \/ O!VergeDone(t) \/ O!VergeFetched(t) \/ O!SaveEnds(t) \/ O!SaveFails(t)
    PROVE  PortInv'
  <1>1. UNCHANGED <<checking, overlapped>> /\ (~oFailed' => ~oFailed) /\ IsPortSave(t)
    BY DEF O!InfoDone, O!VergeDone, O!VergeFetched, O!SaveEnds, O!SaveFails, O!dialog, PortInv
  <1>2. CASE O!SaveEnds(t) \/ O!SaveFails(t)
    <2>1. oTasks' = oTasks \ {t} /\ UNCHANGED <<clash, verge, oFailed>>
      BY <1>2 DEF O!SaveEnds, O!SaveFails
    <2>2. ~oFailed' /\ ~overlapped' => PortsSaved'
      <3>1. CASE O!SaveEnds(t)
        BY <1>1, <2>1, <3>1 DEF PortInv, PortsSaved, O!SaveEnds
      <3>2. CASE O!SaveFails(t)
        BY <1>1, <2>1, <3>2 DEF PortInv, PortsSaved, O!SaveFails
      <3> QED BY <1>2, <3>1, <3>2
    <2> QED BY <1>1, <2>1, <2>2 DEF PortInv, PortsAsked, O!SentIsChecked
  <1>3. ASSUME NEW u, oTasks' = (oTasks \ {t}) \cup {u}, IsPortSave(u), u.values = t.values,
               u.original = t.original, u.free = t.free,
               ~oFailed' => /\ u.info \in {"sent", "done", t.info} /\ (u.verge # "failed" \/ t.verge = "failed")
                            /\ u.info = "done" => clash' = t.values.port \/ (t.info = "done" /\ clash' = clash)
                            /\ u.verge \in {"fetch", "done"} =>
                                  verge'.port = t.values.port \/ (t.verge \in {"fetch", "done"} /\ verge' = verge)
        PROVE  PortInv'
    <2>1. O!SentIsChecked'
      BY <1>3 DEF PortInv, O!SentIsChecked
    <2>2. ~oFailed' /\ ~overlapped' => PortsSaved'
      <3> SUFFICES ASSUME ~oFailed', ~overlapped' PROVE PortsSaved'
        OBVIOUS
      <3>1. oTasks' = {u} /\ PortsSaved
        BY <1>1, <1>3 DEF PortInv, PortsSaved
      <3> QED BY <1>3, <3>1 DEF PortsSaved
    <2> QED BY <1>1, <1>3, <2>1, <2>2 DEF PortInv, PortsAsked
  <1>4. CASE O!InfoDone(t)
    <2>1. PICK i \in {"done", "failed"} :
            /\ oTasks' = (oTasks \ {t}) \cup {[t EXCEPT !.info = i]} /\ verge' = verge
            /\ i = "done" => clash' = t.values.port
            /\ i = "failed" => oFailed' /\ clash' = clash
      BY <1>4 DEF O!InfoDone, O!Update
    <2> DEFINE u == [n |-> t.n, values |-> t.values, original |-> t.original, free |-> t.free, info |-> i, verge |-> t.verge]
    <2>2. [t EXCEPT !.info = i] = u
      BY <1>1 DEF IsPortSave
    <2>3. /\ IsPortSave(u) /\ u.values = t.values /\ u.original = t.original /\ u.free = t.free
          /\ u.info = i /\ u.verge = t.verge
      BY DEF IsPortSave
    <2> HIDE DEF u
    <2> QED BY <1>3, <2>1, <2>2, <2>3
  <1>5. CASE O!VergeDone(t) \/ O!VergeFetched(t)
    <2>1. PICK i \in {"fetch", "done", "failed"} :
            /\ oTasks' = (oTasks \ {t}) \cup {[t EXCEPT !.verge = i]} /\ clash' = clash
            /\ i = "fetch" => verge'.port = t.values.port
            /\ i = "done" => t.verge = "fetch" /\ verge' = verge
            /\ i = "failed" => oFailed' /\ verge' = verge
      BY <1>5 DEF O!VergeDone, O!VergeFetched, O!Update, O!Saved
    <2> DEFINE u == [n |-> t.n, values |-> t.values, original |-> t.original, free |-> t.free, info |-> t.info, verge |-> i]
    <2>2. [t EXCEPT !.verge = i] = u
      BY <1>1 DEF IsPortSave
    <2>3. /\ IsPortSave(u) /\ u.values = t.values /\ u.original = t.original /\ u.free = t.free
          /\ u.info = t.info /\ u.verge = i
      BY DEF IsPortSave
    <2> HIDE DEF u
    <2> QED BY <1>3, <2>1, <2>2, <2>3
  <1> QED BY <1>2, <1>4, <1>5

\* What is sent was checked, and the core and the program agree.
LEMMA PortHolds == SettingsSpec => [](O!SentIsChecked /\ O!PortsAgree)
  <1>1. SettingsStart => PortInv
    BY PortInit DEF SettingsStart
  <1>2. [SettingsStep]_<<part, settings>> => [O!Next]_(O!vars)
    BY DEF SettingsStep, DialogStep, HomeStep, settings, dialogs, Ovars, O!vars, O!dialog
  <1>3. PortInv /\ [O!Next]_(O!vars) => PortInv'
    <2> SUFFICES ASSUME PortInv, [O!Next]_(O!vars) PROVE PortInv'
      OBVIOUS
    <2>1. CASE UNCHANGED O!vars
      BY <2>1 DEF O!vars, O!dialog, PortInv, PortsAsked, PortsSaved, O!SentIsChecked
    <2>2. CASE O!Next
      BY <2>2, PortForm, PortCheck, PortSend, PortTask DEF O!Next
    <2> QED BY <2>1, <2>2
  <1>4. PortInv => O!SentIsChecked /\ O!PortsAgree
    BY DEF PortInv, PortsSaved, O!PortsAgree
  <1> QED BY <1>1, <1>2, <1>3, <1>4, PTL DEF SettingsSpec

-----------------------------------------------------------------------------
(* The settings that are saved as soon as they are changed.                *)

VergeRequests == {r \in requests : r.key \in K!Verge}
ClashRequests == {r \in requests : r.key \in K!Clash}

IsGuardRequest(r) ==
    /\ r = [key |-> r.key, value |-> r.value, view |-> r.view, guard |-> r.guard, at |-> r.at]
    /\ r.key \in K!Keys \ {"dns"}
    /\ r.key \in K!Clash => r.guard /\ r.at = "patch"

GuardTypes ==
    /\ DOMAIN kSaved = K!Keys /\ DOMAIN kSeen = K!Keys
    /\ kSaved = [k \in K!Keys |-> kSaved[k]] /\ kSeen = [k \in K!Keys |-> kSeen[k]]
    /\ \A r \in requests : IsGuardRequest(r)
    /\ \A c \in choosing : c.key \in K!Picked
    /\ dns = [at |-> dns.at, on |-> dns.on] /\ dns.on \in 0..1 /\ dnsShown \in 0..1

\* The settings of the program: without a request they are shown as they are saved; the
\* request that is alone took its view when they were.
VergeKept ==
    /\ "verge" \notin kCrossed /\ VergeRequests = {} => \A k \in K!Verge : kSeen[k] = kSaved[k]
    /\ "verge" \notin together =>
        /\ \A r, q \in VergeRequests : r = q
        /\ \A b, c \in choosing : b = c
        /\ VergeRequests = {} \/ choosing = {}
        /\ dns = K!Off \/ (VergeRequests = {} /\ choosing = {})
    /\ "verge" \notin together \cup kCrossed =>
        \A r \in VergeRequests : r.guard /\ r.at # "fetch" => \A k \in K!Verge : r.view[k] = kSaved[k]

\* Those of the core: there is one request, and all but its own is shown as it is saved.
ClashKept ==
    /\ \A r, q \in ClashRequests : r = q
    /\ "clash" \notin kCrossed /\ ClashRequests = {} /\ ~refetch => \A k \in K!Clash : kSeen[k] = kSaved[k]
    /\ "clash" \notin together \cup kCrossed =>
        \A r \in ClashRequests :
            r.view[r.key] = kSaved[r.key] /\ \A k \in K!Clash \ {r.key} : kSeen[k] = kSaved[k]

\* The switch of DNS shows what its request will have saved.
DnsKept ==
    /\ dns.at \in {"off", "patch", "apply", "undo"} /\ (dns.at = "off" => dns = K!Off)
    /\ dns.at = "off" => "dns" \in kCrossed \/ dnsShown = kSaved["dns"]
    /\ dns.at = "patch" => dnsShown = dns.on
    /\ dns.at = "apply" => dnsShown = dns.on /\ kSaved["dns"] = dns.on
    /\ dns.at = "undo" => dnsShown = 1 - dns.on

GuardInv == GuardTypes /\ VergeKept /\ ClashKept /\ DnsKept

LEMMA KeyFacts ==
    /\ K!Keys = K!Verge \cup K!Clash /\ K!Verge \cap K!Clash = {} /\ "dns" \in K!Verge
    /\ K!Guarded \subseteq K!Verge \ {"dns"} /\ K!Picked \subseteq K!Verge \ {"dns"}
  BY DEF K!Keys, K!Verge, K!Clash, K!Guarded, K!Picked, K!StatsRows, K!NoticeRow, K!HoverRow, K!DelayRow,
         K!NavigationRows, K!TrayRows, K!SystemRows, K!BasicRows, K!IconRows, K!ScriptRow, K!LanRow, K!ClashRows

LEMMA GuardInit == K!Init => GuardInv
  <1> SUFFICES ASSUME K!Init PROVE GuardInv
    OBVIOUS
  <1>1. /\ kSaved = [k \in K!Keys |-> IF k \in K!HoverRow THEN 1 ELSE 0] /\ kSeen = kSaved
        /\ requests = {} /\ choosing = {} /\ dns = [at |-> "off", on |-> 0] /\ dnsShown = 0 /\ K!Off = dns
    BY DEF K!Init, K!Off
  <1>2. GuardTypes
    BY <1>1 DEF GuardTypes
  <1>3. kSaved["dns"] = 0
    BY <1>1, KeyFacts DEF K!HoverRow
  <1> QED BY <1>1, <1>2, <1>3 DEF GuardInv, VergeKept, ClashKept, DnsKept, VergeRequests, ClashRequests

\* What a step leaves alone.
LEMMA VergeAside ==
    ASSUME VergeKept, VergeRequests' = VergeRequests, choosing' = choosing, dns' = dns,
           \A k \in K!Verge : kSeen'[k] = kSeen[k] /\ kSaved'[k] = kSaved[k],
           "verge" \in together' <=> "verge" \in together, "verge" \in kCrossed' <=> "verge" \in kCrossed
    PROVE  VergeKept'
  BY DEF VergeKept

LEMMA ClashAside ==
    ASSUME ClashKept, ClashRequests' = ClashRequests, refetch => refetch',
           \A k \in K!Clash : kSeen'[k] = kSeen[k] /\ kSaved'[k] = kSaved[k],
           "clash" \in together' <=> "clash" \in together, "clash" \in kCrossed' <=> "clash" \in kCrossed
    PROVE  ClashKept'
  BY DEF ClashKept, ClashRequests

LEMMA DnsAside ==
    ASSUME DnsKept, dns' = dns, dnsShown' = dnsShown, kSaved'["dns"] = kSaved["dns"], "dns" \in kCrossed => "dns" \in kCrossed'
    PROVE  DnsKept'
  BY DEF DnsKept

\* A request goes on.
LEMMA GuardBecomes ==
    ASSUME NEW r, IsGuardRequest(r), NEW at, r.key \in K!Verge
    PROVE  LET u == [r EXCEPT !.at = at]
           IN  IsGuardRequest(u) /\ u.key = r.key /\ u.view = r.view /\ u.guard = r.guard /\ u.at = at
  <1> DEFINE u == [key |-> r.key, value |-> r.value, view |-> r.view, guard |-> r.guard, at |-> at]
  <1>1. [r EXCEPT !.at = at] = u
    BY DEF IsGuardRequest
  <1>2. u.key = r.key /\ u.value = r.value /\ u.view = r.view /\ u.guard = r.guard /\ u.at = at
    OBVIOUS
  <1>3. u = [key |-> u.key, value |-> u.value, view |-> u.view, guard |-> u.guard, at |-> u.at]
    OBVIOUS
  <1> HIDE DEF u
  <1> QED BY <1>1, <1>2, <1>3, KeyFacts DEF IsGuardRequest

LEMMA GuardShown ==
    ASSUME NEW keys, NEW from, kSeen' = K!Shown(keys, from)
    PROVE  /\ DOMAIN kSeen' = K!Keys /\ kSeen' = [k \in K!Keys |-> kSeen'[k]]
           /\ \A k \in K!Keys : kSeen'[k] = IF k \in keys THEN from[k] ELSE kSeen[k]
  BY DEF K!Shown

LEMMA GuardExcept ==
    ASSUME NEW f, f = [k \in K!Keys |-> f[k]], NEW key \in K!Keys, NEW v, NEW g, g = [f EXCEPT ![key] = v]
    PROVE  /\ DOMAIN g = K!Keys /\ g = [k \in K!Keys |-> g[k]]
           /\ \A k \in K!Keys : g[k] = IF k = key THEN v ELSE f[k]
  OBVIOUS

\* A change of a setting of the program.
LEMMA GuardChange ==
    ASSUME GuardInv, NEW k, NEW v, K!Change(k, v)
    PROVE  GuardInv'
  <1> DEFINE at == IF k \in K!DelayRow THEN "wait" ELSE "patch"
             r == [key |-> k, value |-> v, view |-> kSeen, guard |-> TRUE, at |-> at]
  <1>1. /\ k \in K!Guarded /\ kSeen' = [kSeen EXCEPT ![k] = v] /\ requests' = requests \cup {r} /\ K!Starts(k)
        /\ UNCHANGED <<kSaved, choosing, refetch, dnsShown, dns, kCrossed>>
    BY DEF K!Change, K!Request, K!switch
  <1>2. k \in K!Verge /\ k \in K!Keys /\ k \notin K!Clash /\ k # "dns"
    BY <1>1, KeyFacts
  <1>3. /\ IsGuardRequest(r) /\ r.key = k /\ r.view = kSeen
    BY <1>2 DEF IsGuardRequest
  <1> HIDE DEF r
  <1>4. /\ DOMAIN kSeen' = K!Keys /\ kSeen' = [j \in K!Keys |-> kSeen'[j]]
        /\ \A j \in K!Keys : j # k => kSeen'[j] = kSeen[j]
    BY <1>1, <1>2, GuardExcept DEF GuardInv, GuardTypes
  <1>5. together' = IF VergeRequests # {} \/ choosing # {} \/ dns # K!Off THEN together \cup {"verge"} ELSE together
    BY <1>1, <1>2, KeyFacts DEF K!Starts, K!Store, K!Busy, VergeRequests, GuardInv, GuardTypes, IsGuardRequest
  <1>6. VergeRequests' = VergeRequests \cup {r} /\ ClashRequests' = ClashRequests
    BY <1>1, <1>2, <1>3 DEF VergeRequests, ClashRequests
  <1>7. GuardTypes'
    BY <1>1, <1>3, <1>4 DEF GuardInv, GuardTypes
  <1>8. VergeKept'
    <2>1. VergeRequests' # {}
      BY <1>6
    <2>2. "verge" \notin together' => VergeRequests = {} /\ choosing = {} /\ dns = K!Off /\ "verge" \notin together
      BY <1>5
    <2>3. "verge" \notin together' => VergeRequests' = {r}
      BY <1>6, <2>2
    <2>4. "verge" \notin together' \cup kCrossed' => \A j \in K!Verge : r.view[j] = kSaved'[j]
      BY <1>1, <1>3, <2>2 DEF GuardInv, VergeKept
    <2> QED BY <1>1, <2>1, <2>2, <2>3, <2>4 DEF VergeKept
  <1>9. ClashKept'
    BY <1>1, <1>2, <1>4, <1>5, <1>6, ClashAside, KeyFacts DEF GuardInv
  <1>10. DnsKept'
    BY <1>1, DnsAside DEF GuardInv
  <1> QED BY <1>7, <1>8, <1>9, <1>10 DEF GuardInv

\* A file was cleared or chosen.
LEMMA GuardPut ==
    ASSUME GuardInv, NEW k \in K!Picked, NEW v, NEW view, K!Put(k, v, view),
           UNCHANGED <<kSaved, refetch, dnsShown, dns, kCrossed>>,
           "clash" \in together' <=> "clash" \in together,
           choosing' \subseteq choosing,
           "verge" \notin together' => "verge" \notin together /\ VergeRequests = {} /\ choosing' = {} /\ dns = K!Off
    PROVE  GuardInv'
  <1> DEFINE r == [key |-> k, value |-> v, view |-> kSeen, guard |-> FALSE, at |-> "patch"]
  <1>1. kSeen' = K!Shown(K!Verge, [view EXCEPT ![k] = v]) /\ requests' = requests \cup {r}
    BY DEF K!Put, K!Request
  <1>2. k \in K!Verge /\ k \in K!Keys /\ k \notin K!Clash /\ k # "dns"
    BY KeyFacts
  <1>3. IsGuardRequest(r) /\ r.key = k /\ r.guard = FALSE
    BY <1>2 DEF IsGuardRequest
  <1> HIDE DEF r
  <1>4. /\ DOMAIN kSeen' = K!Keys /\ kSeen' = [j \in K!Keys |-> kSeen'[j]]
        /\ \A j \in K!Clash : kSeen'[j] = kSeen[j]
    BY <1>1, GuardShown, KeyFacts
  <1>6. VergeRequests' = VergeRequests \cup {r} /\ ClashRequests' = ClashRequests
    BY <1>1, <1>2, <1>3 DEF VergeRequests, ClashRequests
  <1>7. GuardTypes'
    BY <1>1, <1>3, <1>4 DEF GuardInv, GuardTypes
  <1>8. VergeKept'
    <2>1. VergeRequests' # {}
      BY <1>6
    <2>2. "verge" \notin together' => VergeRequests' = {r}
      BY <1>6
    <2> QED BY <1>3, <2>1, <2>2 DEF VergeKept
  <1>9. ClashKept'
    BY <1>4, <1>6, ClashAside DEF GuardInv
  <1>10. DnsKept'
    BY DnsAside DEF GuardInv
  <1> QED BY <1>7, <1>8, <1>9, <1>10 DEF GuardInv

\* What else starts with the settings of the program.
LEMMA GuardStarts ==
    ASSUME GuardInv, NEW k \in K!Verge, K!Starts(k)
    PROVE  together' = IF VergeRequests # {} \/ choosing # {} \/ dns # K!Off THEN together \cup {"verge"} ELSE together
  BY KeyFacts DEF K!Starts, K!Store, K!Busy, VergeRequests, GuardInv, GuardTypes, IsGuardRequest

LEMMA GuardFiles ==
    ASSUME GuardInv, (\E k \in GuardedKeys : K!Clear(k) \/ K!Browse(k)) \/ (\E c \in choosing : K!Chosen(c))
    PROVE  GuardInv'
  <1> USE DEF K!switch
  <1>1. ASSUME NEW k, K!Clear(k)
        PROVE  GuardInv'
    <2>1. k \in K!Picked /\ K!Put(k, 0, kSeen) /\ K!Starts(k) /\ UNCHANGED <<kSaved, choosing, refetch, dnsShown, dns, kCrossed>>
      BY <1>1 DEF K!Clear
    <2>2. k \in K!Verge
      BY <2>1, KeyFacts
    <2> QED BY <2>1, <2>2, GuardPut, GuardStarts
  <1>2. ASSUME NEW k, K!Browse(k)
        PROVE  GuardInv'
    <2> DEFINE c == [key |-> k, view |-> kSeen]
    <2>1. /\ k \in K!Picked /\ K!Starts(k) /\ choosing' = choosing \cup {c}
          /\ UNCHANGED <<kSaved, kSeen, requests, refetch, dnsShown, dns, kCrossed>>
      BY <1>2 DEF K!Browse
    <2>2. k \in K!Verge /\ c.key = k
      BY <2>1, KeyFacts
    <2> HIDE DEF c
    <2>3. together' = IF VergeRequests # {} \/ choosing # {} \/ dns # K!Off THEN together \cup {"verge"} ELSE together
      BY <2>1, <2>2, GuardStarts
    <2>4. VergeRequests' = VergeRequests /\ ClashRequests' = ClashRequests
      BY <2>1 DEF VergeRequests, ClashRequests
    <2>5. GuardTypes'
      BY <2>1, <2>2 DEF GuardInv, GuardTypes
    <2>6. VergeKept'
      BY <2>1, <2>3, <2>4 DEF GuardInv, VergeKept
    <2>7. ClashKept' /\ DnsKept'
      BY <2>1, <2>3, <2>4, ClashAside, DnsAside DEF GuardInv
    <2> QED BY <2>5, <2>6, <2>7 DEF GuardInv
  <1>3. ASSUME NEW c \in choosing, K!Chosen(c)
        PROVE  GuardInv'
    <2>1. /\ choosing' = choosing \ {c} /\ (K!Put(c.key, 1, c.view) \/ UNCHANGED <<kSeen, requests>>)
          /\ UNCHANGED <<kSaved, refetch, dnsShown, dns, together, kCrossed>>
      BY <1>3 DEF K!Chosen
    <2>2. c.key \in K!Picked
      BY DEF GuardInv, GuardTypes
    <2>3. "verge" \notin together => VergeRequests = {} /\ choosing' = {} /\ dns = K!Off
      BY <2>1 DEF GuardInv, VergeKept
    <2>4. CASE K!Put(c.key, 1, c.view)
      BY <2>1, <2>2, <2>3, <2>4, GuardPut
    <2>5. CASE UNCHANGED <<kSeen, requests>>
      <3>1. VergeRequests' = VergeRequests /\ ClashRequests' = ClashRequests
        BY <2>5 DEF VergeRequests, ClashRequests
      <3>2. GuardTypes'
        BY <2>1, <2>5 DEF GuardInv, GuardTypes
      <3>3. VergeKept'
        BY <2>1, <2>3, <2>5, <3>1 DEF GuardInv, VergeKept
      <3>4. ClashKept' /\ DnsKept'
        BY <2>1, <2>5, <3>1, ClashAside, DnsAside DEF GuardInv
      <3> QED BY <3>2, <3>3, <3>4 DEF GuardInv
    <2> QED BY <2>1, <2>4, <2>5
  <1> QED BY <1>1, <1>2, <1>3

\* A request for the settings of the program goes on.
LEMMA GuardGoes ==
    ASSUME GuardInv, NEW r \in requests, K!Debounced(r) \/ K!Patched(r)
    PROVE  GuardInv'
  <1> USE DEF K!switch
  <1>1. IsGuardRequest(r) /\ r.key \in K!Verge /\ r.key \in K!Keys /\ r.key \notin K!Clash /\ r.key # "dns"
    BY KeyFacts DEF GuardInv, GuardTypes, IsGuardRequest, K!Debounced, K!Patched
  <1>2. PICK at \in {"patch", "fetch"} :
          /\ K!Becomes(r, at) /\ UNCHANGED <<kSeen, choosing, refetch, dnsShown, dns, together, kCrossed>>
          /\ at = "patch" => r.at = "wait" /\ kSaved' = kSaved
          /\ at = "fetch" => kSaved' = [kSaved EXCEPT ![r.key] = r.value]
    BY DEF K!Debounced, K!Patched
  <1> DEFINE u == [r EXCEPT !.at = at]
  <1>3. IsGuardRequest(u) /\ u.key = r.key /\ u.view = r.view /\ u.guard = r.guard /\ u.at = at
    BY <1>1, GuardBecomes
  <1>4. requests' = (requests \ {r}) \cup {u}
    BY <1>2 DEF K!Becomes
  <1> HIDE DEF u
  <1>5. VergeRequests' = (VergeRequests \ {r}) \cup {u} /\ ClashRequests' = ClashRequests /\ r \in VergeRequests
    BY <1>1, <1>3, <1>4 DEF VergeRequests, ClashRequests
  <1>6. /\ DOMAIN kSaved' = K!Keys /\ kSaved' = [k \in K!Keys |-> kSaved'[k]]
        /\ \A k \in K!Keys : k # r.key => kSaved'[k] = kSaved[k]
    <2>1. CASE at = "patch"
      BY <1>2, <2>1 DEF GuardInv, GuardTypes
    <2>2. CASE at = "fetch"
      BY <1>1, <1>2, <2>2, GuardExcept DEF GuardInv, GuardTypes
    <2> QED BY <2>1, <2>2
  <1>7. GuardTypes'
    BY <1>2, <1>3, <1>4, <1>6 DEF GuardInv, GuardTypes
  <1>8. VergeKept'
    <2>1. VergeRequests' # {}
      BY <1>5
    <2>2. "verge" \notin together => VergeRequests' = {u} /\ choosing = {} /\ dns = K!Off
      BY <1>5 DEF GuardInv, VergeKept
    <2>3. "verge" \notin together \cup kCrossed /\ u.guard /\ u.at # "fetch" => \A k \in K!Verge : u.view[k] = kSaved'[k]
      <3>1. "verge" \notin together \cup kCrossed /\ r.guard /\ r.at # "fetch" => \A k \in K!Verge : r.view[k] = kSaved[k]
        BY <1>5 DEF GuardInv, VergeKept
      <3> QED BY <1>2, <1>3, <3>1
    <2> QED BY <1>2, <2>1, <2>2, <2>3 DEF VergeKept
  <1>9. ClashKept'
    BY <1>1, <1>2, <1>5, <1>6, ClashAside, KeyFacts DEF GuardInv
  <1>10. DnsKept'
    BY <1>1, <1>2, <1>6, DnsAside, KeyFacts DEF GuardInv
  <1> QED BY <1>7, <1>8, <1>9, <1>10 DEF GuardInv

LEMMA GuardFetched ==
    ASSUME GuardInv, NEW r \in requests, K!Fetched(r)
    PROVE  GuardInv'
  <1> DEFINE others == choosing # {} \/ dns # K!Off \/ \E q \in requests \ {r} : K!Store(q.key) = "verge"
  <1>1. /\ requests' = requests \ {r} /\ kSeen' = K!Shown(K!Verge, kSaved) /\ r.at = "fetch"
        /\ UNCHANGED <<kSaved, choosing, refetch, dnsShown, dns>>
        /\ together' = IF others THEN together ELSE together \ {"verge"}
        /\ kCrossed' = IF others THEN kCrossed ELSE kCrossed \ {"verge"}
    BY DEF K!Fetched, K!Ends, K!Synced, K!switch
  <1>2. IsGuardRequest(r) /\ r \in VergeRequests /\ r.key \notin K!Clash
    BY <1>1, KeyFacts DEF GuardInv, GuardTypes, IsGuardRequest, VergeRequests
  <1>3. VergeRequests' = VergeRequests \ {r} /\ ClashRequests' = ClashRequests
    BY <1>1, <1>2 DEF VergeRequests, ClashRequests
  <1>4. ~others => VergeRequests' = {} /\ choosing = {} /\ dns = K!Off
    BY <1>1, KeyFacts DEF VergeRequests, K!Store, GuardInv, GuardTypes, IsGuardRequest
  <1> HIDE DEF others
  <1>5. /\ DOMAIN kSeen' = K!Keys /\ kSeen' = [j \in K!Keys |-> kSeen'[j]]
        /\ \A j \in K!Verge : kSeen'[j] = kSaved[j]
        /\ \A j \in K!Clash : kSeen'[j] = kSeen[j]
    BY <1>1, GuardShown, KeyFacts
  <1>6. GuardTypes'
    BY <1>1, <1>5 DEF GuardInv, GuardTypes
  <1>7. VergeKept'
    <2>1. "verge" \notin kCrossed' /\ VergeRequests' = {} => \A k \in K!Verge : kSeen'[k] = kSaved'[k]
      BY <1>1, <1>5
    <2>2. CASE others
      <3>1. together' = together /\ kCrossed' = kCrossed
        BY <1>1, <2>2
      <3>2. VergeRequests' \subseteq VergeRequests /\ UNCHANGED <<choosing, dns, kSaved>>
        BY <1>1, <1>3
      <3> QED BY <2>1, <3>1, <3>2 DEF GuardInv, VergeKept
    <2>3. CASE ~others
      BY <1>1, <1>4, <2>1, <2>3 DEF VergeKept
    <2> QED BY <2>2, <2>3
  <1>8. ClashKept'
    BY <1>1, <1>3, <1>5, ClashAside DEF GuardInv
  <1>9. DnsKept'
    BY <1>1, DnsAside DEF GuardInv
  <1> QED BY <1>6, <1>7, <1>8, <1>9 DEF GuardInv

\* A request that fails takes its change back, unless it has no guard.
LEMMA GuardFails ==
    ASSUME GuardInv, NEW r \in requests, K!PatchFails(r)
    PROVE  GuardInv'
  <1>1. /\ requests' = requests \ {r} /\ r.at = "patch"
        /\ IF r.guard THEN K!Rollback(r) ELSE UNCHANGED kSeen
        /\ kCrossed' = kCrossed \cup IF ~r.guard \/ K!Store(r.key) \in together THEN {K!Store(r.key)} ELSE {}
        /\ UNCHANGED <<kSaved, choosing, refetch, dnsShown, dns, together>>
    BY DEF K!PatchFails, K!Ends, K!switch
  <1>2. IsGuardRequest(r) /\ r.key \in K!Keys
    BY DEF GuardInv, GuardTypes, IsGuardRequest
  <1>3. VergeRequests' = VergeRequests \ {r} /\ ClashRequests' = ClashRequests \ {r}
    BY <1>1 DEF VergeRequests, ClashRequests
  <1>4. DnsKept'
    BY <1>1, DnsAside DEF GuardInv
  <1>5. CASE r.key \in K!Verge
    <2>1. K!Store(r.key) = "verge" /\ r \in VergeRequests /\ r \notin ClashRequests
      BY <1>5, KeyFacts DEF K!Store, VergeRequests, ClashRequests
    <2>2. /\ DOMAIN kSeen' = K!Keys /\ kSeen' = [j \in K!Keys |-> kSeen'[j]]
          /\ \A j \in K!Verge : r.guard => kSeen'[j] = r.view[j]
          /\ \A j \in K!Clash : kSeen'[j] = kSeen[j]
      <3>1. CASE r.guard
        <4>1. kSeen' = K!Shown(K!Verge, r.view)
          BY <1>1, <1>5, <3>1 DEF K!Rollback
        <4> QED BY <4>1, GuardShown, KeyFacts
      <3>2. CASE ~r.guard
        BY <1>1, <3>2 DEF GuardInv, GuardTypes
      <3> QED BY <3>1, <3>2
    <2>3. GuardTypes'
      BY <1>1, <2>2 DEF GuardInv, GuardTypes
    <2>4. "verge" \notin kCrossed' => "verge" \notin kCrossed /\ r.guard /\ "verge" \notin together
      BY <1>1, <2>1
    <2>5. "verge" \notin kCrossed' => \A k \in K!Verge : kSeen'[k] = kSaved[k]
      BY <1>1, <2>1, <2>2, <2>4 DEF GuardInv, VergeKept
    <2>6. VergeKept'
      BY <1>1, <1>3, <2>4, <2>5 DEF GuardInv, VergeKept
    <2>7. ClashKept'
      <3>1. "clash" \in kCrossed' <=> "clash" \in kCrossed
        BY <1>1, <2>1
      <3>2. ClashRequests' = ClashRequests
        BY <1>3, <2>1
      <3> QED BY <1>1, <2>2, <3>1, <3>2, ClashAside DEF GuardInv
    <2> QED BY <1>4, <2>3, <2>6, <2>7 DEF GuardInv
  <1>6. CASE r.key \in K!Clash
    <2>1. K!Store(r.key) = "clash" /\ r \in ClashRequests /\ r \notin VergeRequests /\ r.key \notin K!Verge /\ r.guard
      BY <1>2, <1>6, KeyFacts DEF K!Store, VergeRequests, ClashRequests, IsGuardRequest
    <2>2. /\ DOMAIN kSeen' = K!Keys /\ kSeen' = [j \in K!Keys |-> kSeen'[j]]
          /\ \A j \in K!Keys : kSeen'[j] = IF j = r.key THEN r.view[r.key] ELSE kSeen[j]
      <3>1. kSeen' = [kSeen EXCEPT ![r.key] = r.view[r.key]]
        BY <1>1, <2>1 DEF K!Rollback
      <3> QED BY <1>2, <3>1, GuardExcept DEF GuardInv, GuardTypes
    <2>3. GuardTypes'
      BY <1>1, <2>2 DEF GuardInv, GuardTypes
    <2>4. VergeKept'
      <3>1. VergeRequests' = VergeRequests
        BY <1>3, <2>1
      <3>2. \A k \in K!Verge : kSeen'[k] = kSeen[k]
        BY <2>1, <2>2, KeyFacts
      <3>3. "verge" \in kCrossed' <=> "verge" \in kCrossed
        BY <1>1, <2>1
      <3> QED BY <1>1, <3>1, <3>2, <3>3, VergeAside DEF GuardInv
    <2>5. ClashKept'
      <3>1. ClashRequests' = {}
        BY <1>3, <2>1 DEF GuardInv, ClashKept
      <3>2. "clash" \notin kCrossed' => "clash" \notin together \cup kCrossed
        BY <1>1, <2>1
      <3>3. "clash" \notin kCrossed' => \A k \in K!Clash : kSeen'[k] = kSaved[k]
        BY <2>1, <2>2, <3>2, KeyFacts DEF GuardInv, ClashKept
      <3> QED BY <1>1, <3>1, <3>3 DEF ClashKept
    <2> QED BY <1>4, <2>3, <2>4, <2>5 DEF GuardInv
  <1> QED BY <1>2, <1>5, <1>6, KeyFacts

\* The settings of the core.
LEMMA GuardClash ==
    ASSUME GuardInv, NEW k, NEW v, K!ChangeClash(k, v)
    PROVE  GuardInv'
  <1> DEFINE r == [key |-> k, value |-> v, view |-> kSeen, guard |-> TRUE, at |-> "patch"]
  <1>1. /\ k \in K!Clash /\ kSeen' = [kSeen EXCEPT ![k] = v] /\ K!Starts(k)
        /\ requests' = IF ClashRequests # {} THEN requests ELSE requests \cup {r}
        /\ UNCHANGED <<kSaved, choosing, refetch, dnsShown, dns, kCrossed>>
    BY DEF K!ChangeClash, K!Request, K!switch, ClashRequests
  <1>2. k \in K!Keys /\ k \notin K!Verge /\ k # "dns"
    BY <1>1, KeyFacts
  <1>3. IsGuardRequest(r) /\ r.key = k /\ r.view = kSeen
    BY <1>2 DEF IsGuardRequest
  <1> HIDE DEF r
  <1>4. /\ DOMAIN kSeen' = K!Keys /\ kSeen' = [j \in K!Keys |-> kSeen'[j]]
        /\ \A j \in K!Keys : j # k => kSeen'[j] = kSeen[j]
    BY <1>1, <1>2, GuardExcept DEF GuardInv, GuardTypes
  <1>5. together' = IF ClashRequests # {} \/ refetch THEN together \cup {"clash"} ELSE together
    BY <1>1, <1>2, KeyFacts DEF K!Starts, K!Store, K!Busy, ClashRequests, GuardInv, GuardTypes, IsGuardRequest
  <1>6. /\ VergeRequests' = VergeRequests
        /\ ClashRequests' = IF ClashRequests # {} THEN ClashRequests ELSE {r}
    BY <1>1, <1>2, <1>3 DEF VergeRequests, ClashRequests
  <1>7. GuardTypes'
    BY <1>1, <1>3, <1>4 DEF GuardInv, GuardTypes
  <1>8. VergeKept'
    BY <1>1, <1>2, <1>4, <1>5, <1>6, VergeAside, KeyFacts DEF GuardInv
  <1>9. ClashKept'
    <2>1. \A q, p \in ClashRequests' : q = p
      BY <1>6 DEF GuardInv, ClashKept
    <2>2. ClashRequests' # {}
      BY <1>6
    <2>3. ASSUME "clash" \notin together' \cup kCrossed'
          PROVE  \A q \in ClashRequests' :
                    q.view[q.key] = kSaved'[q.key] /\ \A j \in K!Clash \ {q.key} : kSeen'[j] = kSaved'[j]
      <3>1. ClashRequests = {} /\ ~refetch /\ "clash" \notin kCrossed
        BY <1>1, <1>5, <2>3
      <3>2. ClashRequests' = {r} /\ \A j \in K!Clash : kSeen[j] = kSaved[j]
        BY <1>6, <3>1 DEF GuardInv, ClashKept
      <3> QED BY <1>1, <1>3, <1>4, <3>2, KeyFacts
    <2> QED BY <2>1, <2>2, <2>3 DEF ClashKept
  <1>10. DnsKept'
    BY <1>1, DnsAside DEF GuardInv
  <1> QED BY <1>7, <1>8, <1>9, <1>10 DEF GuardInv

LEMMA GuardClashGoes ==
    ASSUME GuardInv, (\E r \in requests : K!ClashPatched(r)) \/ K!ClashFetched
    PROVE  GuardInv'
  <1> USE DEF K!switch
  <1>1. ASSUME NEW r \in requests, K!ClashPatched(r)
        PROVE  GuardInv'
    <2>1. /\ requests' = requests \ {r} /\ r.key \in K!Clash /\ kSaved' = [kSaved EXCEPT ![r.key] = r.value] /\ refetch'
          /\ UNCHANGED <<kSeen, choosing, dnsShown, dns, together, kCrossed>>
      BY <1>1 DEF K!ClashPatched, K!Ends
    <2>2. r.key \in K!Keys /\ r.key \notin K!Verge /\ r \in ClashRequests /\ r \notin VergeRequests
      BY <2>1, KeyFacts DEF VergeRequests, ClashRequests
    <2>3. /\ DOMAIN kSaved' = K!Keys /\ kSaved' = [k \in K!Keys |-> kSaved'[k]]
          /\ \A k \in K!Keys : k # r.key => kSaved'[k] = kSaved[k]
      BY <2>1, <2>2, GuardExcept DEF GuardInv, GuardTypes
    <2>4. VergeRequests' = VergeRequests /\ ClashRequests' = {}
      <3>1. VergeRequests' = VergeRequests \ {r} /\ ClashRequests' = ClashRequests \ {r}
        BY <2>1 DEF VergeRequests, ClashRequests
      <3> QED BY <2>2, <3>1 DEF GuardInv, ClashKept
    <2>5. GuardTypes'
      BY <2>1, <2>3 DEF GuardInv, GuardTypes
    <2>6. VergeKept' /\ DnsKept'
      BY <2>1, <2>2, <2>3, <2>4, VergeAside, DnsAside, KeyFacts DEF GuardInv
    <2>7. ClashKept'
      BY <2>1, <2>4 DEF ClashKept
    <2> QED BY <2>5, <2>6, <2>7 DEF GuardInv
  <1>2. CASE K!ClashFetched
    <2>1. /\ ~refetch' /\ kSeen' = K!Shown(K!Clash, kSaved)
          /\ together' = IF ClashRequests # {} THEN together ELSE together \ {"clash"}
          /\ kCrossed' = IF ClashRequests # {} THEN kCrossed ELSE kCrossed \ {"clash"}
          /\ UNCHANGED <<kSaved, requests, choosing, dnsShown, dns>>
      BY <1>2, KeyFacts DEF K!ClashFetched, K!Synced, K!Store, ClashRequests
    <2>2. /\ DOMAIN kSeen' = K!Keys /\ kSeen' = [j \in K!Keys |-> kSeen'[j]]
          /\ \A j \in K!Clash : kSeen'[j] = kSaved[j]
          /\ \A j \in K!Verge : kSeen'[j] = kSeen[j]
      BY <2>1, GuardShown, KeyFacts
    <2>3. VergeRequests' = VergeRequests /\ ClashRequests' = ClashRequests
      BY <2>1 DEF VergeRequests, ClashRequests
    <2>4. GuardTypes'
      BY <2>1, <2>2 DEF GuardInv, GuardTypes
    <2>5. VergeKept' /\ DnsKept'
      BY <2>1, <2>2, <2>3, VergeAside, DnsAside, KeyFacts DEF GuardInv
    <2>6. ClashKept'
      <3>1. \A k \in K!Clash : kSeen'[k] = kSaved'[k]
        BY <2>1, <2>2
      <3>2. ClashRequests # {} => together' = together /\ kCrossed' = kCrossed
        BY <2>1
      <3>3. "clash" \notin together' \cup kCrossed' => \A q \in ClashRequests : q.view[q.key] = kSaved[q.key]
        BY <3>2 DEF GuardInv, ClashKept
      <3> QED BY <2>1, <2>3, <3>1, <3>3 DEF GuardInv, ClashKept
    <2> QED BY <2>4, <2>5, <2>6 DEF GuardInv
  <1> QED BY <1>1, <1>2

\* The switch of DNS.
LEMMA GuardDns ==
    ASSUME GuardInv, K!DnsToggle \/ K!DnsPatched \/ K!DnsApplied \/ K!DnsUndone \/ K!DnsFetches
    PROVE  GuardInv'
  <1> USE DEF K!switch
  <1>1. UNCHANGED <<requests, choosing>> /\ (refetch => refetch') /\ "dns" \in K!Keys /\ "dns" \notin K!Clash
    BY KeyFacts DEF K!DnsToggle, K!DnsPatched, K!DnsApplied, K!DnsUndone, K!DnsFetches
  <1>2. VergeRequests' = VergeRequests /\ ClashRequests' = ClashRequests
    BY <1>1 DEF VergeRequests, ClashRequests
  <1>3. CASE K!DnsToggle
    <2>1. /\ dns = K!Off /\ dnsShown' = 1 - dnsShown /\ dns' = [at |-> "patch", on |-> 1 - dnsShown] /\ K!Starts("dns")
          /\ UNCHANGED <<kSaved, kSeen, refetch, kCrossed>>
      BY <1>3 DEF K!DnsToggle
    <2>2. together' = IF VergeRequests # {} \/ choosing # {} \/ dns # K!Off THEN together \cup {"verge"} ELSE together
      BY <2>1, KeyFacts, GuardStarts
    <2>3. dns'.at = "patch" /\ dns'.on = 1 - dnsShown /\ dns' = [at |-> dns'.at, on |-> dns'.on] /\ 1 - dnsShown \in 0..1
      BY <2>1 DEF GuardInv, GuardTypes
    <2>4. GuardTypes'
      BY <1>1, <2>1, <2>3 DEF GuardInv, GuardTypes
    <2>5. VergeKept'
      BY <1>1, <1>2, <2>1, <2>2 DEF GuardInv, VergeKept
    <2>6. ClashKept'
      BY <1>1, <1>2, <2>1, <2>2, ClashAside DEF GuardInv
    <2>7. DnsKept'
      BY <2>1, <2>3 DEF DnsKept
    <2> QED BY <2>4, <2>5, <2>6, <2>7 DEF GuardInv
  <1>4. CASE K!DnsFetches
    <2>1. UNCHANGED <<kSaved, kSeen, dnsShown, dns, together, kCrossed>>
      BY <1>4 DEF K!DnsFetches
    <2>2. GuardTypes'
      BY <1>1, <2>1 DEF GuardInv, GuardTypes
    <2> QED BY <1>1, <1>2, <2>1, <2>2, VergeAside, ClashAside, DnsAside DEF GuardInv
  \* What the request does, but for its own state.
  <1>5. ASSUME dns # K!Off, UNCHANGED together, kCrossed' \in {kCrossed, kCrossed \cup {"dns"}},
               \/ UNCHANGED <<kSaved, kSeen>>
               \/ \E n \in 0..1 : kSaved' = [kSaved EXCEPT !["dns"] = n] /\ kSeen' = K!Shown(K!Verge, kSaved')
        PROVE  /\ DOMAIN kSaved' = K!Keys /\ DOMAIN kSeen' = K!Keys
               /\ kSaved' = [k \in K!Keys |-> kSaved'[k]] /\ kSeen' = [k \in K!Keys |-> kSeen'[k]]
               /\ VergeKept' /\ ClashKept'
    <2>1. CASE UNCHANGED <<kSaved, kSeen>>
      <3>1. VergeKept'
        BY <1>1, <1>2, <1>5, <2>1 DEF GuardInv, VergeKept
      <3>2. ClashKept'
        BY <1>1, <1>2, <1>5, <2>1, ClashAside DEF GuardInv
      <3> QED BY <2>1, <3>1, <3>2 DEF GuardInv, GuardTypes
    <2>2. ASSUME NEW n \in 0..1, kSaved' = [kSaved EXCEPT !["dns"] = n], kSeen' = K!Shown(K!Verge, kSaved')
          PROVE  /\ DOMAIN kSaved' = K!Keys /\ DOMAIN kSeen' = K!Keys
                 /\ kSaved' = [k \in K!Keys |-> kSaved'[k]] /\ kSeen' = [k \in K!Keys |-> kSeen'[k]]
                 /\ VergeKept' /\ ClashKept'
      <3>1. /\ DOMAIN kSaved' = K!Keys /\ kSaved' = [k \in K!Keys |-> kSaved'[k]]
            /\ \A k \in K!Keys : k # "dns" => kSaved'[k] = kSaved[k]
        BY <1>1, <2>2, GuardExcept DEF GuardInv, GuardTypes
      <3>2. /\ DOMAIN kSeen' = K!Keys /\ kSeen' = [k \in K!Keys |-> kSeen'[k]]
            /\ \A k \in K!Keys : kSeen'[k] = IF k \in K!Verge THEN kSaved'[k] ELSE kSeen[k]
        BY <2>2, GuardShown
      <3>3. \A k \in K!Verge : kSeen'[k] = kSaved'[k]
        BY <3>2, KeyFacts
      <3>4. \A k \in K!Clash : kSeen'[k] = kSeen[k] /\ kSaved'[k] = kSaved[k]
        BY <1>1, <3>1, <3>2, KeyFacts
      <3>5. VergeKept'
        BY <1>1, <1>2, <1>5, <3>3 DEF GuardInv, VergeKept
      <3>6. ClashKept'
        BY <1>1, <1>2, <1>5, <3>4, ClashAside DEF GuardInv
      <3> QED BY <3>1, <3>2, <3>5, <3>6
    <2> QED BY <1>5, <2>1, <2>2
  <1>6. ASSUME NEW at, dns' = [dns EXCEPT !.at = at]
        PROVE  dns' = [at |-> dns'.at, on |-> dns'.on] /\ dns'.on = dns.on /\ dns'.at = at
    <2>1. dns' = [at |-> at, on |-> dns.on]
      <3>1. dns = [at |-> dns.at, on |-> dns.on]
        BY DEF GuardInv, GuardTypes
      <3> QED BY <1>6, <3>1
    <2> QED BY <2>1
  <1>7. dns.on \in 0..1 /\ 1 - dns.on \in 0..1 /\ dnsShown \in 0..1 /\ DOMAIN kSaved = K!Keys
    BY DEF GuardInv, GuardTypes
  <1>8. CASE K!DnsPatched
    <2>1. dns.at = "patch" /\ dns # K!Off /\ UNCHANGED <<refetch, together, kCrossed>>
      BY <1>8 DEF K!DnsPatched, K!Off
    <2>2. CASE /\ kSaved' = [kSaved EXCEPT !["dns"] = dns.on] /\ kSeen' = K!Shown(K!Verge, kSaved')
               /\ dns' = [dns EXCEPT !.at = "apply"] /\ UNCHANGED dnsShown
      <3>1. /\ DOMAIN kSaved' = K!Keys /\ DOMAIN kSeen' = K!Keys
            /\ kSaved' = [k \in K!Keys |-> kSaved'[k]] /\ kSeen' = [k \in K!Keys |-> kSeen'[k]]
            /\ VergeKept' /\ ClashKept'
        BY <1>5, <1>7, <2>1, <2>2
      <3>2. dns' = [at |-> dns'.at, on |-> dns'.on] /\ dns'.on = dns.on /\ dns'.at = "apply"
        BY <1>6, <2>2
      <3>3. kSaved'["dns"] = dns.on
        BY <1>1, <1>7, <2>2
      <3>4. DnsKept'
        BY <2>1, <2>2, <3>2, <3>3 DEF GuardInv, DnsKept
      <3>5. GuardTypes'
        BY <1>1, <1>7, <2>2, <3>1, <3>2 DEF GuardInv, GuardTypes
      <3> QED BY <3>1, <3>4, <3>5 DEF GuardInv
    <2>3. CASE dnsShown' = 1 - dns.on /\ dns' = [dns EXCEPT !.at = "undo"] /\ UNCHANGED <<kSaved, kSeen>>
      <3>1. VergeKept' /\ ClashKept'
        BY <1>5, <2>1, <2>3
      <3>2. dns' = [at |-> dns'.at, on |-> dns'.on] /\ dns'.on = dns.on /\ dns'.at = "undo"
        BY <1>6, <2>3
      <3>3. DnsKept'
        BY <2>3, <3>2 DEF DnsKept
      <3>4. GuardTypes'
        BY <1>1, <1>7, <2>3, <3>2 DEF GuardInv, GuardTypes
      <3> QED BY <3>1, <3>3, <3>4 DEF GuardInv
    <2> QED BY <1>8, <2>2, <2>3 DEF K!DnsPatched
  <1>9. CASE K!DnsApplied
    <2>1. dns.at = "apply" /\ dns # K!Off /\ UNCHANGED <<kSaved, kSeen, refetch, together, kCrossed>>
      BY <1>9 DEF K!DnsApplied, K!Off
    <2>2. VergeKept' /\ ClashKept'
      BY <1>5, <2>1
    <2>3. CASE dns' = K!Off /\ UNCHANGED dnsShown
      <3>1. DnsKept'
        BY <2>1, <2>3 DEF GuardInv, DnsKept, K!Off
      <3>2. GuardTypes'
        BY <1>1, <1>7, <2>1, <2>3 DEF GuardInv, GuardTypes, K!Off
      <3> QED BY <2>2, <3>1, <3>2 DEF GuardInv
    <2>4. CASE dnsShown' = 1 - dns.on /\ dns' = [dns EXCEPT !.at = "undo"]
      <3>1. dns' = [at |-> dns'.at, on |-> dns'.on] /\ dns'.on = dns.on /\ dns'.at = "undo"
        BY <1>6, <2>4
      <3>2. DnsKept'
        BY <2>4, <3>1 DEF DnsKept
      <3>3. GuardTypes'
        BY <1>1, <1>7, <2>1, <2>4, <3>1 DEF GuardInv, GuardTypes
      <3> QED BY <2>2, <3>2, <3>3 DEF GuardInv
    <2> QED BY <1>9, <2>3, <2>4 DEF K!DnsApplied
  <1>10. CASE K!DnsUndone
    <2>1. dns.at = "undo" /\ dns # K!Off /\ dns' = K!Off /\ UNCHANGED <<refetch, together, dnsShown>>
      BY <1>10 DEF K!DnsUndone, K!Off
    <2>2. CASE /\ kSaved' = [kSaved EXCEPT !["dns"] = 1 - dns.on] /\ kSeen' = K!Shown(K!Verge, kSaved')
               /\ UNCHANGED kCrossed
      <3>1. /\ DOMAIN kSaved' = K!Keys /\ DOMAIN kSeen' = K!Keys
            /\ kSaved' = [k \in K!Keys |-> kSaved'[k]] /\ kSeen' = [k \in K!Keys |-> kSeen'[k]]
            /\ VergeKept' /\ ClashKept'
        BY <1>5, <1>7, <2>1, <2>2
      <3>2. kSaved'["dns"] = 1 - dns.on
        BY <1>1, <1>7, <2>2
      <3>3. DnsKept'
        BY <2>1, <2>2, <3>2 DEF GuardInv, DnsKept, K!Off
      <3>4. GuardTypes'
        BY <1>1, <1>7, <2>1, <3>1 DEF GuardInv, GuardTypes, K!Off
      <3> QED BY <3>1, <3>3, <3>4 DEF GuardInv
    <2>3. CASE kCrossed' = kCrossed \cup {"dns"} /\ UNCHANGED <<kSaved, kSeen>>
      <3>1. VergeKept' /\ ClashKept'
        BY <1>5, <2>1, <2>3
      <3>2. DnsKept'
        BY <2>1, <2>3 DEF DnsKept, K!Off
      <3>3. GuardTypes'
        BY <1>1, <1>7, <2>1, <2>3 DEF GuardInv, GuardTypes, K!Off
      <3> QED BY <3>1, <3>2, <3>3 DEF GuardInv
    <2> QED BY <1>10, <2>2, <2>3 DEF K!DnsUndone
  <1> QED BY <1>3, <1>4, <1>8, <1>9, <1>10

\* A setting shows what is saved, when nothing is under way.
LEMMA GuardHolds == SettingsSpec => []K!SettingsShown
  <1>1. SettingsStart => GuardInv
    BY GuardInit DEF SettingsStart
  <1>2. [SettingsStep]_<<part, settings>> => [K!Next]_(K!vars)
    BY DEF SettingsStep, DialogStep, HomeStep, settings, dialogs, Kvars, K!vars, K!switch
  <1>3. GuardInv /\ [K!Next]_(K!vars) => GuardInv'
    <2> SUFFICES ASSUME GuardInv, [K!Next]_(K!vars) PROVE GuardInv'
      OBVIOUS
    <2>1. CASE UNCHANGED K!vars
      BY <2>1 DEF K!vars, K!switch, GuardInv, GuardTypes, VergeKept, ClashKept, DnsKept, VergeRequests, ClashRequests
    <2>2. CASE K!Next
      BY <2>2, GuardChange, GuardFiles, GuardGoes, GuardFetched, GuardFails, GuardClash, GuardClashGoes, GuardDns DEF K!Next
    <2> QED BY <2>1, <2>2
  <1>4. GuardInv => K!SettingsShown
    <2> SUFFICES ASSUME GuardInv PROVE K!SettingsShown
      OBVIOUS
    <2>1. dns = K!Off => "dns" \in kCrossed \/ dnsShown = kSaved["dns"]
      BY DEF GuardInv, DnsKept, K!Off
    <2>2. ASSUME requests = {}, choosing = {}, ~refetch, dns = K!Off, NEW k \in K!Keys
          PROVE  K!Store(k) \in kCrossed \/ kSeen[k] = kSaved[k]
      <3>1. VergeRequests = {} /\ ClashRequests = {}
        BY <2>2 DEF VergeRequests, ClashRequests
      <3> QED BY <2>2, <3>1, KeyFacts DEF GuardInv, VergeKept, ClashKept, K!Store
    <2> QED BY <2>1, <2>2 DEF K!SettingsShown
  <1> QED BY <1>1, <1>2, <1>3, <1>4, PTL DEF SettingsSpec

-----------------------------------------------------------------------------
(* TUN and the origins of the controller.                                  *)

\* What the settings of TUN are asked for.
IsTun(v) == {"autoRoute", "exclude"} \subseteq DOMAIN v
Routes(v) == v.autoRoute => v.exclude # "bad"

IsCall(c) ==
    /\ c = [of |-> c.of, at |-> c.at, tun |-> c.tun, cors |-> c.cors, id |-> c.id]
    /\ c.of \in {"save", "reset", "cors"}
    /\ c.of # "cors" => IsTun(c.tun) /\ Routes(c.tun)

AreCalls(t) ==
    /\ t \in Seq({t[k] : k \in DOMAIN t})
    /\ \A k \in DOMAIN t : IsCall(t[k])

CoreForms ==
    /\ rStored = [tun |-> rStored.tun, cors |-> rStored.cors] /\ rSeen = [tun |-> rSeen.tun, cors |-> rSeen.cors]
    /\ IsTun(rStored.tun) /\ IsTun(rSeen.tun) /\ IsTun(tun)

\* The controller has what is stored, or a restart is to come.
RestartDue == running = rStored.cors \/ \E k \in DOMAIN rCalls : rCalls[k].at = "restart"

CoreInv ==
    /\ CoreForms /\ AreCalls(rCalls)
    /\ Routes(rStored.tun)
    /\ ~rDropped => rSeen.tun = rStored.tun
    /\ ~behind => RestartDue

LEMMA CallsAppended ==
    ASSUME NEW t, AreCalls(t), NEW c, IsCall(c)
    PROVE  /\ AreCalls(Append(t, c))
           /\ \A k \in DOMAIN t : k \in DOMAIN Append(t, c) /\ Append(t, c)[k] = t[k]
           /\ \E k \in DOMAIN Append(t, c) : Append(t, c)[k] = c
  <1> DEFINE Elems == {t[k] : k \in DOMAIN t} \cup {c}
             u == Append(t, c)
  <1>1. t \in Seq(Elems) /\ c \in Elems
    <2>1. t \in Seq({t[k] : k \in DOMAIN t})
      BY DEF AreCalls
    <2>2. t \in [1 .. Len(t) -> Elems] /\ Len(t) \in Nat
      BY <2>1
    <2> HIDE DEF Elems
    <2>3. t \in Seq(Elems)
      BY <2>2
    <2> QED BY <2>3 DEF Elems
  <1> HIDE DEF Elems
  <1>2. /\ u \in Seq(Elems) /\ DOMAIN u = 1 .. Len(t) + 1 /\ DOMAIN t = 1 .. Len(t) /\ Len(t) \in Nat
        /\ \A k \in 1 .. Len(t) : u[k] = t[k]
        /\ u[Len(t) + 1] = c
    BY <1>1
  <1>3. Len(t) + 1 \in DOMAIN u /\ \A k \in DOMAIN u : (k \in DOMAIN t /\ u[k] = t[k]) \/ u[k] = c
    BY <1>2
  <1> HIDE DEF u
  <1>4. u \in Seq({u[k] : k \in DOMAIN u})
    BY <1>2, IsASeq
  <1>5. AreCalls(u)
    BY <1>3, <1>4 DEF AreCalls
  <1>6. \A k \in DOMAIN t : k \in DOMAIN u /\ u[k] = t[k]
    BY <1>2
  <1> QED BY <1>2, <1>3, <1>5, <1>6 DEF u

LEMMA CallsRemoved ==
    ASSUME NEW t, AreCalls(t), NEW i \in DOMAIN t
    PROVE  /\ AreCalls(R!RemoveAt(t, i))
           /\ \A k \in DOMAIN t : k # i => \E j \in DOMAIN R!RemoveAt(t, i) : R!RemoveAt(t, i)[j] = t[k]
  <1> DEFINE Elems == {t[k] : k \in DOMAIN t}
             u == R!RemoveAt(t, i)
  <1>0. u = U!RemoveAt(t, i)
    BY DEF R!RemoveAt, U!RemoveAt
  <1>1. t \in Seq(Elems) /\ Len(t) \in Nat /\ DOMAIN t = 1 .. Len(t) /\ i \in 1 .. Len(t)
    BY DEF AreCalls
  <1> HIDE DEF Elems, u
  <1>2. /\ u \in Seq(Elems) /\ Len(u) = Len(t) - 1 /\ DOMAIN u = 1 .. Len(t) - 1
        /\ \A k \in 1 .. Len(t) - 1 : u[k] = IF k < i THEN t[k] ELSE t[k + 1]
    <2>1. Len(u) = Len(t) - 1 /\ u \in Seq(Elems)
      BY <1>0, <1>1, RemoveAtFacts
    <2>2. \A k \in 1 .. Len(t) - 1 : u[k] = IF k < i THEN t[k] ELSE t[k + 1]
      BY <1>0, <1>1, RemoveAtFacts
    <2> QED BY <2>1, <2>2
  <1>3. u \in Seq({u[k] : k \in DOMAIN u})
    BY <1>1, <1>2, IsASeq
  <1>4. \A k \in DOMAIN u : IsCall(u[k])
    <2> SUFFICES ASSUME NEW k \in DOMAIN u PROVE IsCall(u[k])
      OBVIOUS
    <2>1. k \in DOMAIN t /\ k + 1 \in DOMAIN t
      BY <1>1, <1>2
    <2>2. CASE k < i
      BY <1>2, <2>1, <2>2 DEF AreCalls
    <2>3. CASE ~(k < i)
      BY <1>2, <2>1, <2>3 DEF AreCalls
    <2> QED BY <2>2, <2>3
  <1>5. ASSUME NEW k \in DOMAIN t, k # i PROVE \E j \in DOMAIN u : u[j] = t[k]
    <2>1. CASE k < i
      <3>1. k \in DOMAIN u /\ u[k] = t[k]
        BY <1>1, <1>2, <2>1
      <3> QED BY <3>1
    <2>2. CASE k > i
      <3>1. k - 1 \in DOMAIN u /\ u[k - 1] = t[k]
        BY <1>1, <1>2, <2>2
      <3> QED BY <3>1
    <2> QED BY <1>1, <1>5, <2>1, <2>2
  <1> QED BY <1>3, <1>4, <1>5 DEF AreCalls, u

LEMMA CallsUpdated ==
    ASSUME NEW t, AreCalls(t), NEW i \in DOMAIN t, NEW at
    PROVE  LET u == [t EXCEPT ![i].at = at]
           IN  /\ AreCalls(u) /\ DOMAIN u = DOMAIN t /\ u[i].at = at
               /\ \A k \in DOMAIN t : k # i => u[k] = t[k]
  <1> DEFINE u == [t EXCEPT ![i].at = at]
             c == [of |-> t[i].of, at |-> at, tun |-> t[i].tun, cors |-> t[i].cors, id |-> t[i].id]
  <1>0. t[i] = [of |-> t[i].of, at |-> t[i].at, tun |-> t[i].tun, cors |-> t[i].cors, id |-> t[i].id] /\ IsCall(t[i])
    BY DEF AreCalls, IsCall
  <1>1. [t[i] EXCEPT !.at = at] = c
    BY <1>0
  <1>2. IsCall(c) /\ c.at = at
    BY <1>0 DEF IsCall
  <1> HIDE DEF c
  <1>3. t \in Seq({t[k] : k \in DOMAIN t}) /\ DOMAIN t = 1 .. Len(t) /\ Len(t) \in Nat
    BY DEF AreCalls
  <1>4. DOMAIN u = DOMAIN t /\ u[i] = c /\ \A k \in DOMAIN t : k # i => u[k] = t[k]
    BY <1>1, <1>3
  <1>5. u \in Seq({u[k] : k \in DOMAIN u})
    <2>1. u = [k \in 1 .. Len(t) |-> u[k]]
      BY <1>3
    <2> HIDE DEF u
    <2> DEFINE Els == {u[k] : k \in DOMAIN u}
    <2>2. \A k \in 1 .. Len(t) : u[k] \in Els
      BY <1>3, <1>4
    <2> HIDE DEF Els
    <2>3. [k \in 1 .. Len(t) |-> u[k]] \in Seq(Els)
      BY <1>3, <2>2
    <2>4. u \in Seq(Els)
      BY <2>1, <2>3, Zenon
    <2> QED BY <2>4 DEF Els
  <1> HIDE DEF u
  <1>6. AreCalls(u)
    BY <1>2, <1>4, <1>5 DEF AreCalls
  <1> QED BY <1>2, <1>4, <1>6 DEF u

LEMMA NoCalls ==
    ASSUME NEW t, t = <<>>
    PROVE  DOMAIN t = {}
  <1>1. \A s \in Seq({}) : Len(s) = 0 => DOMAIN s = {}
    OBVIOUS
  <1>2. t \in Seq({}) /\ Len(t) = 0
    BY EmptySeq
  <1> QED BY <1>1, <1>2, Zenon

LEMMA CoreInit == R!Init => CoreInv
  <1> SUFFICES ASSUME R!Init PROVE CoreInv
    OBVIOUS
  <1>1. PICK e \in {"", "bad"} :
          rStored = [tun |-> [R!Defaults EXCEPT !.exclude = e, !.autoRoute = (e = "")],
                     cors |-> [private |-> TRUE, origins |-> DevOrigins]]
    BY DEF R!Init
  <1> DEFINE v == [R!Defaults EXCEPT !.exclude = e, !.autoRoute = (e = "")]
  <1>2. IsTun(R!Defaults) /\ IsTun(R!FirstTun)
    BY DEF IsTun, R!Defaults, R!FirstTun
  <1>3. IsTun(v) /\ Routes(v)
    BY DEF IsTun, Routes, R!Defaults
  <1> HIDE DEF v
  <1>4. rStored = [tun |-> v, cors |-> [private |-> TRUE, origins |-> DevOrigins]]
    BY <1>1 DEF v
  <1>5. rSeen = rStored /\ tun = R!FirstTun /\ rCalls = <<>> /\ running = rStored.cors
    BY DEF R!Init
  <1>6. AreCalls(rCalls)
    <2> DEFINE Els == {rCalls[k] : k \in DOMAIN rCalls}
    <2>1. rCalls = <<>> /\ DOMAIN rCalls = {}
      BY <1>5, NoCalls
    <2> HIDE DEF Els
    <2>2. rCalls \in Seq(Els)
      <3>1. <<>> \in Seq(Els)
        BY EmptySeq
      <3> QED BY <2>1, <3>1, Zenon
    <2> QED BY <2>1, <2>2 DEF AreCalls, Els
  <1> QED BY <1>2, <1>3, <1>4, <1>5, <1>6 DEF CoreInv, CoreForms, RestartDue

\* The forms change alone.
LEMMA CoreForm ==
    ASSUME CoreInv, R!Close \/ R!OpenTun \/ R!OpenCors \/ (\E v : R!ChangeTun(v) /\ IsTun(v)) \/ (\E c : R!ChangeCors(c))
    PROVE  CoreInv'
  <1>1. UNCHANGED <<rStored, rSeen, running, rCalls, rDropped, behind>>
    BY DEF R!Close, R!OpenTun, R!OpenCors, R!ChangeTun, R!ChangeCors, R!forms, R!work, R!ghosts
  <1>2. tun' = tun \/ tun' = rSeen.tun \/ IsTun(tun')
    BY DEF R!Close, R!OpenTun, R!OpenCors, R!ChangeTun, R!ChangeCors, R!forms
  <1> QED BY <1>1, <1>2 DEF CoreInv, CoreForms, RestartDue

LEMMA CoreEdits ==
    ASSUME CoreInv, \/ R!ChangeStack \/ R!ChangeDevice \/ R!ChangeAutoRoute \/ R!ChangeStrictRoute
                    \/ R!ChangeDetection \/ R!ChangeHijack \/ R!ChangeMtu \/ R!ChangeExclude
    PROVE  \E v : R!ChangeTun(v) /\ IsTun(v)
  <1>1. IsTun(tun)
    BY DEF CoreInv, CoreForms
  <1>2. CASE R!ChangeStack
    BY <1>1, <1>2 DEF R!ChangeStack, IsTun
  <1>3. CASE R!ChangeDevice
    <2>1. PICK d \in {"", "utun7"} : R!ChangeTun([tun EXCEPT !.device = d])
      BY <1>3, Zenon DEF R!ChangeDevice
    <2>2. IsTun([tun EXCEPT !.device = d])
      BY <1>1 DEF IsTun
    <2> QED BY <2>1, <2>2
  <1>4. CASE R!ChangeAutoRoute
    BY <1>1, <1>4 DEF R!ChangeAutoRoute, IsTun
  <1>5. CASE R!ChangeStrictRoute
    BY <1>1, <1>5 DEF R!ChangeStrictRoute, IsTun
  <1>6. CASE R!ChangeDetection
    BY <1>1, <1>6 DEF R!ChangeDetection, IsTun
  <1>7. CASE R!ChangeHijack
    <2>1. PICK h \in {"", "all"} : R!ChangeTun([tun EXCEPT !.hijack = h])
      BY <1>7, Zenon DEF R!ChangeHijack
    <2>2. IsTun([tun EXCEPT !.hijack = h])
      BY <1>1 DEF IsTun
    <2> QED BY <2>1, <2>2
  <1>8. CASE R!ChangeMtu
    <2>1. PICK n \in {0, 9000} : R!ChangeTun([tun EXCEPT !.mtu = n])
      BY <1>8 DEF R!ChangeMtu
    <2>2. IsTun([tun EXCEPT !.mtu = n])
      BY <1>1 DEF IsTun
    <2> QED BY <2>1, <2>2
  <1>9. CASE R!ChangeExclude
    <2>1. PICK e \in {"", "net", "bad"} : R!ChangeTun([tun EXCEPT !.exclude = e])
      BY <1>9, Zenon DEF R!ChangeExclude
    <2>2. IsTun([tun EXCEPT !.exclude = e])
      BY <1>1 DEF IsTun
    <2> QED BY <2>1, <2>2
  <1> QED BY <1>2, <1>3, <1>4, <1>5, <1>6, <1>7, <1>8, <1>9

\* A patch is sent, or dropped.
LEMMA CorePatch ==
    ASSUME CoreInv, NEW call, IsCall(call), call.of # "cors", R!PatchTun(call),
           UNCHANGED <<rStored, running, behind>>, IsTun(tun')
    PROVE  CoreInv'
  <1>1. CASE rPatching = {}
    <2>1. rCalls' = Append(rCalls, call) /\ UNCHANGED <<rDropped, rSeen>>
      BY <1>1 DEF R!PatchTun, R!Patch
    <2>2. AreCalls(rCalls') /\ \A k \in DOMAIN rCalls : k \in DOMAIN rCalls' /\ rCalls'[k] = rCalls[k]
      BY <2>1, CallsAppended DEF CoreInv
    <2> QED BY <2>1, <2>2 DEF CoreInv, CoreForms, RestartDue
  <1>2. CASE rPatching # {}
    <2>1. rCalls' = rCalls /\ rDropped' = TRUE /\ rSeen' = [rSeen EXCEPT !.tun = call.tun]
      BY <1>2 DEF R!PatchTun, R!Patch, R!Applied
    <2>2. rSeen' = [tun |-> call.tun, cors |-> rSeen.cors]
      BY <2>1 DEF CoreInv, CoreForms
    <2>3. rSeen' = [tun |-> rSeen'.tun, cors |-> rSeen'.cors] /\ rSeen'.tun = call.tun
      BY <2>2
    <2>4. IsTun(rSeen'.tun)
      BY <2>3 DEF IsCall
    <2> QED BY <2>1, <2>3, <2>4 DEF CoreInv, CoreForms, RestartDue
  <1> QED BY <1>1, <1>2

LEMMA CoreSaves ==
    ASSUME CoreInv, R!SaveTun \/ R!ResetTun \/ R!SaveCors
    PROVE  CoreInv'
  <1> USE DEF R!forms
  <1>1. CASE R!SaveTun
    <2> DEFINE v == R!Normal(tun)
               call == [of |-> "save", at |-> "patch", tun |-> v, cors |-> cors, id |-> 0]
    <2>1. /\ ~R!ExcludeError /\ R!PatchTun(call) /\ UNCHANGED <<rStored, running, behind, tun>>
      BY <1>1 DEF R!SaveTun, R!TunCall
    <2>2. v.autoRoute = tun.autoRoute /\ v.exclude = tun.exclude /\ IsTun(v)
      BY DEF R!Normal, CoreInv, CoreForms, IsTun
    <2> HIDE DEF v
    <2>3. IsTun(v) /\ Routes(v)
      BY <2>1, <2>2 DEF R!ExcludeError, Routes
    <2>4. IsCall(call) /\ call.of # "cors"
      BY <2>3 DEF IsCall
    <2> HIDE DEF call
    <2> QED BY <2>1, <2>4, CorePatch DEF CoreInv, CoreForms
  <1>2. CASE R!ResetTun
    <2> DEFINE call == [of |-> "reset", at |-> "patch", tun |-> R!Defaults, cors |-> cors, id |-> 0]
    <2>1. R!PatchTun(call) /\ UNCHANGED <<rStored, running, behind>> /\ tun' = R!Defaults
      BY <1>2 DEF R!ResetTun, R!TunCall
    <2>2. IsTun(R!Defaults) /\ Routes(R!Defaults)
      BY DEF IsTun, Routes, R!Defaults
    <2>3. IsCall(call) /\ call.of # "cors"
      BY <2>2 DEF IsCall
    <2> HIDE DEF call
    <2> QED BY <2>1, <2>2, <2>3, CorePatch
  <1>3. CASE R!SaveCors
    <2> DEFINE o == [cors EXCEPT !.origins = R!NotBlank(R!FullOrigins(@))]
               call == [of |-> "cors", at |-> "patch", tun |-> tun, id |-> count + 1, cors |-> o]
    <2>1. /\ R!Patch(call, Append(rCalls, [call EXCEPT !.at = "restart"]))
          /\ UNCHANGED <<rStored, running, rSeen, tun, behind>>
      BY <1>3 DEF R!SaveCors
    <2> HIDE DEF o
    <2>2. [call EXCEPT !.at = "restart"] = [of |-> "cors", at |-> "restart", tun |-> tun, id |-> count + 1, cors |-> o]
      OBVIOUS
    <2>3. IsCall(call) /\ IsCall([call EXCEPT !.at = "restart"])
      BY <2>2 DEF IsCall
    <2> HIDE DEF call
    <2>4. PICK c : IsCall(c) /\ rCalls' = Append(rCalls, c) /\ (~rDropped' => ~rDropped)
      BY <2>1, <2>3 DEF R!Patch
    <2>5. AreCalls(rCalls') /\ \A k \in DOMAIN rCalls : k \in DOMAIN rCalls' /\ rCalls'[k] = rCalls[k]
      BY <2>4, CallsAppended DEF CoreInv
    <2> QED BY <2>1, <2>4, <2>5 DEF CoreInv, CoreForms, RestartDue
  <1> QED BY <1>1, <1>2, <1>3

\* The configuration is fetched.
LEMMA CoreSeen ==
    ASSUME CoreForms, rSeen' \in {rSeen, rStored}
    PROVE  /\ rSeen' = [tun |-> rSeen'.tun, cors |-> rSeen'.cors] /\ IsTun(rSeen'.tun)
           /\ rSeen.tun = rStored.tun => rSeen'.tun = rStored.tun
  BY DEF CoreForms

\* The rest of the calls.
LEMMA CoreCall ==
    ASSUME CoreInv, NEW i \in DOMAIN rCalls, R!TunPatched(i) \/ R!CorsPatched(i) \/ R!RestartCore(i) \/ R!CorsDone(i)
    PROVE  CoreInv'
  <1> USE DEF R!forms, R!ghosts
  <1>1. /\ AreCalls(R!RemoveAt(rCalls, i))
        /\ \A k \in DOMAIN rCalls : k # i =>
              \E j \in DOMAIN R!RemoveAt(rCalls, i) : R!RemoveAt(rCalls, i)[j] = rCalls[k]
    BY CallsRemoved DEF CoreInv
  <1>2. \A at : /\ AreCalls([rCalls EXCEPT ![i].at = at]) /\ DOMAIN [rCalls EXCEPT ![i].at = at] = DOMAIN rCalls
                /\ [rCalls EXCEPT ![i].at = at][i].at = at
                /\ \A k \in DOMAIN rCalls : k # i => [rCalls EXCEPT ![i].at = at][k] = rCalls[k]
    BY CallsUpdated DEF CoreInv
  \* A call that waits for no restart leaves those that do.
  <1>3. ASSUME rCalls[i].at # "restart", RestartDue, UNCHANGED <<running, rStored>>, rCalls' = R!RemoveAt(rCalls, i)
        PROVE  RestartDue'
    BY <1>1, <1>3 DEF RestartDue
  <1>4. IsCall(rCalls[i])
    BY DEF CoreInv, AreCalls
  <1>5. CASE R!TunPatched(i)
    <2> DEFINE c == rCalls[i]
    <2>1. c.at = "patch" /\ c.of # "cors" /\ rCalls' = R!RemoveAt(rCalls, i) /\ UNCHANGED <<running, tun, rDropped, behind>>
      BY <1>5 DEF R!TunPatched
    <2>2. CASE rStored' = [rStored EXCEPT !.tun = c.tun] /\ rSeen' = [rSeen EXCEPT !.tun = c.tun]
      <3>1. IsTun(c.tun) /\ Routes(c.tun)
        BY <1>4, <2>1 DEF IsCall
      <3> HIDE DEF c
      <3>2. rStored' = [tun |-> c.tun, cors |-> rStored.cors] /\ rSeen' = [tun |-> c.tun, cors |-> rSeen.cors]
        BY <2>2 DEF CoreInv, CoreForms
      <3>3. /\ rStored' = [tun |-> rStored'.tun, cors |-> rStored'.cors] /\ rStored'.tun = c.tun /\ rStored'.cors = rStored.cors
            /\ rSeen' = [tun |-> rSeen'.tun, cors |-> rSeen'.cors] /\ rSeen'.tun = c.tun
        BY <3>2
      <3>4. CoreForms'
        BY <2>1, <3>1, <3>3 DEF CoreInv, CoreForms
      <3>5. ~behind => RestartDue'
        BY <1>1, <2>1, <3>3 DEF CoreInv, RestartDue, c
      <3> QED BY <1>1, <2>1, <3>1, <3>3, <3>4, <3>5 DEF CoreInv
    <2>3. CASE UNCHANGED <<rStored, rSeen>>
      BY <1>1, <1>3, <2>1, <2>3 DEF CoreInv, CoreForms
    <2> QED BY <1>5, <2>2, <2>3 DEF R!TunPatched, R!Applied
  <1>6. CASE R!CorsPatched(i)
    <2>1. rCalls[i].at = "patch" /\ UNCHANGED <<running, rSeen, tun, rDropped, behind>>
      BY <1>6 DEF R!CorsPatched
    <2>2. CASE rStored' = [rStored EXCEPT !.cors = rCalls[i].cors] /\ rCalls' = [rCalls EXCEPT ![i].at = "restart"]
      <3>1. AreCalls(rCalls') /\ i \in DOMAIN rCalls' /\ rCalls'[i].at = "restart"
        BY <1>2, <2>2
      <3>2. rStored' = [tun |-> rStored.tun, cors |-> rCalls[i].cors]
        BY <2>2 DEF CoreInv, CoreForms
      <3>3. rStored' = [tun |-> rStored'.tun, cors |-> rStored'.cors] /\ rStored'.tun = rStored.tun
        BY <3>2
      <3> QED BY <2>1, <3>1, <3>3 DEF CoreInv, CoreForms, RestartDue
    <2>3. CASE rCalls' = R!RemoveAt(rCalls, i) /\ rStored' = rStored
      BY <1>1, <1>3, <2>1, <2>3 DEF CoreInv, CoreForms
    <2> QED BY <1>6, <2>2, <2>3 DEF R!CorsPatched
  <1>7. CASE R!RestartCore(i)
    <2>1. UNCHANGED <<rStored, rSeen, tun, rDropped>>
      BY <1>7 DEF R!RestartCore
    <2>2. CASE running' = rStored.cors /\ rCalls' = [rCalls EXCEPT ![i].at = "fetch"]
      BY <1>2, <2>1, <2>2 DEF CoreInv, CoreForms, RestartDue
    <2>3. CASE behind' = TRUE /\ rCalls' = R!RemoveAt(rCalls, i)
      BY <1>1, <2>1, <2>3 DEF CoreInv, CoreForms
    <2> QED BY <1>7, <2>2, <2>3 DEF R!RestartCore
  <1>8. CASE R!CorsDone(i)
    <2>1. /\ rCalls[i].at = "fetch" /\ rSeen' \in {rSeen, rStored} /\ rCalls' = R!RemoveAt(rCalls, i)
          /\ UNCHANGED <<rStored, running, tun, rDropped, behind>>
      BY <1>8 DEF R!CorsDone
    <2>2. /\ rSeen' = [tun |-> rSeen'.tun, cors |-> rSeen'.cors] /\ IsTun(rSeen'.tun)
          /\ rSeen.tun = rStored.tun => rSeen'.tun = rStored.tun
      BY <2>1, CoreSeen DEF CoreInv
    <2> QED BY <1>1, <1>3, <2>1, <2>2 DEF CoreInv, CoreForms
  <1> QED BY <1>5, <1>6, <1>7, <1>8

LEMMA CoreNext == CoreInv /\ [R!Next]_(R!vars) => CoreInv'
  <1> SUFFICES ASSUME CoreInv, [R!Next]_(R!vars) PROVE CoreInv'
    OBVIOUS
  <1>1. CASE UNCHANGED R!vars
    BY <1>1 DEF R!vars, R!forms, R!work, R!ghosts, CoreInv, CoreForms, RestartDue
  <1>2. CASE R!Refetched
    <2>1. rSeen' \in {rSeen, rStored} /\ UNCHANGED <<rStored, running, tun, rCalls, rDropped, behind>>
      BY <1>2 DEF R!Refetched, R!forms, R!ghosts
    <2>2. /\ rSeen' = [tun |-> rSeen'.tun, cors |-> rSeen'.cors] /\ IsTun(rSeen'.tun)
          /\ rSeen.tun = rStored.tun => rSeen'.tun = rStored.tun
      BY <2>1, CoreSeen DEF CoreInv
    <2> QED BY <2>1, <2>2 DEF CoreInv, CoreForms, RestartDue
  <1>3. CASE R!AllowPrivate \/ R!AddOrigin \/ R!UpdateOrigin \/ R!DeleteOrigin
    <2>1. \E c : R!ChangeCors(c)
      BY <1>3, Zenon DEF R!AllowPrivate, R!AddOrigin, R!UpdateOrigin, R!DeleteOrigin
    <2> QED BY <2>1, CoreForm
  <1>4. CASE \/ R!ChangeStack \/ R!ChangeDevice \/ R!ChangeAutoRoute \/ R!ChangeStrictRoute
             \/ R!ChangeDetection \/ R!ChangeHijack \/ R!ChangeMtu \/ R!ChangeExclude
    BY <1>4, CoreEdits, CoreForm
  <1>5. CASE R!Next
    BY <1>2, <1>3, <1>4, <1>5, CoreForm, CoreSaves, CoreCall DEF R!Next
  <1> QED BY <1>1, <1>5

\* The routes that are stored can be used, and the core and the interface have what is.
LEMMA CoreHolds == SettingsSpec => [](R!RoutesValid /\ R!TunShown /\ R!OriginsApplied)
  <1>1. SettingsStart => CoreInv
    BY CoreInit DEF SettingsStart
  <1>2. [SettingsStep]_<<part, settings>> => [R!Next]_(R!vars)
    BY DEF SettingsStep, DialogStep, HomeStep, settings, dialogs, Rvars, R!vars, R!forms, R!work, R!ghosts
  <1>3. CoreInv => R!RoutesValid /\ R!TunShown /\ R!OriginsApplied
    <2> SUFFICES ASSUME CoreInv PROVE R!RoutesValid /\ R!TunShown /\ R!OriginsApplied
      OBVIOUS
    <2>1. rCalls = <<>> => DOMAIN rCalls = {}
      OBVIOUS
    <2> QED BY <2>1 DEF CoreInv, Routes, RestartDue, R!RoutesValid, R!TunShown, R!OriginsApplied
  <1> QED BY <1>1, <1>2, <1>3, CoreNext, PTL DEF SettingsSpec

-----------------------------------------------------------------------------
(* The settings of the program.                                            *)

IsVerge(v) == v = [on |-> v.on, address |-> v.address, secret |-> v.secret, misc |-> v.misc, backup |-> v.backup]
IsBackup(b) == b = [on |-> b.on, hours |-> b.hours, change |-> b.change]
IsMisc(m) == {"size", "count", "interval", "timeout"} \subseteq DOMAIN m
\* The form has numbers, but for the timeout.
Filled(m) == m.size >= 1 /\ m.count >= 1 /\ m.interval >= 1

IsSaving(s) ==
    IF vDialog = "backup"
    THEN s = [at |-> s.at, backup |-> s.backup] /\ IsBackup(s.backup) /\ s.at \in {"patch", "refetch"}
    ELSE /\ s = [at |-> s.at, controller |-> s.controller, misc |-> s.misc]
         /\ s.at \in {"patch", "refetch", "info"} /\ (s.at = "info" => vDialog = "controller")

VergeTypes ==
    /\ vDialog \in {"controller", "misc", "backup"}
    /\ IsVerge(vStored) /\ IsVerge(vSeen) /\ IsBackup(vStored.backup)
    /\ \A s \in vSaving : IsSaving(s)
    /\ \A r, s \in vSaving : r = s

\* What was typed is stored as it can be used.
MiscInv ==
    /\ IsMisc(misc) /\ IsMisc(vStored.misc) /\ IsMisc(vSeen.misc)
    /\ Filled(misc) /\ V!Positive(vStored.misc) /\ V!Positive(vSeen.misc)
    /\ vDialog = "misc" => \A s \in vSaving : IsMisc(s.misc) /\ V!Positive(s.misc)

\* A save has stored what it has come to, and what is told is told of the last one.
ToldInv ==
    /\ vSaving # {} /\ vDialog # "backup" => told = {}
    /\ vDialog = "controller" => \A s \in vSaving : s.at # "patch" => vStored.on = s.controller.on
    /\ vDialog = "misc" => \A s \in vSaving : s.at # "patch" => vStored.misc = s.misc
    /\ vDialog = "backup" => told = {}
    /\ V!ControllerSaved
    /\ \A s \in told : vDialog = "misc" => vStored.misc = s.misc

\* What the switches of the backups show is stored, or is what the save sends.
BackupInv ==
    /\ vDialog # "backup" => vSeen.backup = vStored.backup /\ pendingValues = {}
    /\ vDialog = "backup" =>
        /\ vSaving = {} => vSeen.backup = vStored.backup /\ pendingValues \in {{}, {vStored.backup}}
        /\ \A s \in vSaving :
            /\ pendingValues = {s.backup}
            /\ IF s.at = "patch" THEN vSeen.backup = vStored.backup ELSE vStored.backup = s.backup

DialogInv == VergeTypes /\ MiscInv /\ ToldInv /\ BackupInv

LEMMA DialogInit == V!Init => DialogInv
  <1> SUFFICES ASSUME V!Init PROVE DialogInv
    OBVIOUS
  <1>1. PICK b \in BOOLEAN :
          vStored = [on |-> b, address |-> "own", secret |-> "old", misc |-> V!FirstMisc,
                     backup |-> [on |-> b, hours |-> 24, change |-> TRUE]]
    BY DEF V!Init
  <1>2. /\ vSeen = vStored /\ misc = V!FirstValues /\ pendingValues = {} /\ vSaving = {} /\ told = {}
        /\ vDialog \in {"controller", "misc", "backup"}
    BY DEF V!Init
  <1>3. /\ IsMisc(V!FirstMisc) /\ IsMisc(V!FirstValues)
        /\ Filled(V!FirstValues) /\ V!Positive(V!FirstMisc)
    BY VergeAssumption DEF IsMisc, Filled, V!Positive, V!FirstMisc, V!FirstValues
  <1>4. IsVerge(vStored) /\ vStored.misc = V!FirstMisc /\ IsBackup(vStored.backup)
    BY <1>1 DEF IsVerge, IsBackup
  <1>5. MiscInv
    BY <1>2, <1>3, <1>4 DEF MiscInv
  <1> QED BY <1>2, <1>4, <1>5 DEF DialogInv, VergeTypes, ToldInv, BackupInv, V!ControllerSaved

\* What a step leaves alone.
LEMMA MiscAside ==
    ASSUME MiscInv, UNCHANGED vDialog, vStored'.misc = vStored.misc, vSeen'.misc \in {vSeen.misc, vStored.misc},
           misc' = misc \/ misc' = vSeen.misc \/ (IsMisc(misc') /\ Filled(misc')),
           vDialog = "misc" => vSaving' \subseteq vSaving
    PROVE  MiscInv'
  BY DEF MiscInv, V!Positive, Filled

LEMMA ToldAside ==
    ASSUME ToldInv, UNCHANGED <<vDialog, vStored, told>>, vSaving' \subseteq vSaving
    PROVE  ToldInv'
  BY DEF ToldInv, V!ControllerSaved

LEMMA BackupAside ==
    ASSUME BackupInv, UNCHANGED <<vDialog, pendingValues>>, vStored'.backup = vStored.backup,
           vSeen'.backup = vSeen.backup, vDialog = "backup" => vSaving' = vSaving
    PROVE  BackupInv'
  BY DEF BackupInv

LEMMA TypesAside ==
    ASSUME VergeTypes, UNCHANGED <<vDialog, vStored, vSeen>>, vSaving' \subseteq vSaving
    PROVE  VergeTypes'
  BY DEF VergeTypes, IsSaving

\* The forms change alone.
LEMMA DialogForms ==
    ASSUME DialogInv, \/ V!Close \/ V!OpenController \/ V!EnableRow \/ V!AddressRow \/ V!SecretRow
                      \/ V!OpenMisc \/ (\E m : V!EditMisc(m) /\ IsMisc(m) /\ Filled(m))
                      \/ V!HandleIntervalInputChange
    PROVE  DialogInv'
  <1>1. UNCHANGED <<vDialog, vStored, vSeen, vSaving, told, pendingValues>>
    BY DEF V!Close, V!OpenController, V!EnableRow, V!AddressRow, V!SecretRow, V!EditController, V!OpenMisc, V!EditMisc,
           V!HandleIntervalInputChange, V!Rest, V!backups, V!forms
  <1>2. misc' = misc \/ misc' = vSeen.misc \/ (IsMisc(misc') /\ Filled(misc'))
    BY DEF V!Close, V!OpenController, V!EnableRow, V!AddressRow, V!SecretRow, V!EditController, V!OpenMisc, V!EditMisc,
           V!HandleIntervalInputChange, V!Rest, V!backups, V!forms
  <1> QED BY <1>1, <1>2, MiscAside, ToldAside, BackupAside, TypesAside DEF DialogInv

\* A number that is typed is at least one.
LEMMA NumbersAtLeastOne ==
    ASSUME NEW n \in VergeNumbers, NEW d \in Nat \ {0}
    PROVE  V!AtLeastOne(n, d) >= 1
  BY VergeAssumption DEF V!AtLeastOne

LEMMA MiscRows ==
    ASSUME DialogInv, \/ V!LevelRow \/ V!SizeRow \/ V!CountRow \/ V!AutoCloseRow \/ V!AutoCheckRow \/ V!EnhancedRow
                      \/ V!ColumnsRow \/ V!LogCleanRow \/ V!DetectionRow \/ V!IntervalRow \/ V!TestRow \/ V!TimeoutRow
    PROVE  \E m : V!EditMisc(m) /\ IsMisc(m) /\ Filled(m)
  <1>1. IsMisc(misc) /\ Filled(misc)
    BY DEF DialogInv, MiscInv
  <1> USE DEF IsMisc, Filled
  <1>2. CASE V!LevelRow
    <2>1. PICK l : V!EditMisc([misc EXCEPT !.level = l])
      BY <1>2, Zenon DEF V!LevelRow
    <2> DEFINE m == [misc EXCEPT !.level = l]
    <2>2. IsMisc(m) /\ Filled(m)
      BY <1>1
    <2> QED BY <2>1, <2>2
  <1>3. CASE V!SizeRow
    <2>1. PICK n \in VergeNumbers : V!EditMisc([misc EXCEPT !.size = V!AtLeastOne(n, 128)])
      BY <1>3 DEF V!SizeRow
    <2> DEFINE k == V!AtLeastOne(n, 128)
    <2>2. k >= 1
      BY NumbersAtLeastOne
    <2> HIDE DEF k
    <2> DEFINE m == [misc EXCEPT !.size = k]
    <2>3. IsMisc(m) /\ Filled(m)
      BY <1>1, <2>2
    <2> QED BY <2>1, <2>3 DEF k
  <1>4. CASE V!CountRow
    <2>1. PICK n \in VergeNumbers : V!EditMisc([misc EXCEPT !.count = V!AtLeastOne(n, 1)])
      BY <1>4 DEF V!CountRow
    <2> DEFINE k == V!AtLeastOne(n, 1)
    <2>2. k >= 1
      BY NumbersAtLeastOne
    <2> HIDE DEF k
    <2> DEFINE m == [misc EXCEPT !.count = k]
    <2>3. IsMisc(m) /\ Filled(m)
      BY <1>1, <2>2
    <2> QED BY <2>1, <2>3 DEF k
  <1>5. CASE V!IntervalRow
    <2>1. PICK n \in VergeNumbers : V!EditMisc([misc EXCEPT !.interval = V!AtLeastOne(n, 1)])
      BY <1>5 DEF V!IntervalRow
    <2> DEFINE k == V!AtLeastOne(n, 1)
    <2>2. k >= 1
      BY NumbersAtLeastOne
    <2> HIDE DEF k
    <2> DEFINE m == [misc EXCEPT !.interval = k]
    <2>3. IsMisc(m) /\ Filled(m)
      BY <1>1, <2>2
    <2> QED BY <2>1, <2>3 DEF k
  <1>6. CASE V!TimeoutRow
    <2>1. PICK n \in VergeNumbers : V!EditMisc([misc EXCEPT !.timeout = n])
      BY <1>6 DEF V!TimeoutRow
    <2> DEFINE m == [misc EXCEPT !.timeout = n]
    <2>3. IsMisc(m) /\ Filled(m)
      BY <1>1
    <2> QED BY <2>1, <2>3
  <1>7. CASE V!ColumnsRow
    <2>1. PICK n \in 1..6 : V!EditMisc([misc EXCEPT !.columns = n])
      BY <1>7 DEF V!ColumnsRow
    <2> DEFINE m == [misc EXCEPT !.columns = n]
    <2>3. IsMisc(m) /\ Filled(m)
      BY <1>1
    <2> QED BY <2>1, <2>3
  <1>8. CASE V!LogCleanRow
    <2>1. PICK n \in 0..4 : V!EditMisc([misc EXCEPT !.clean = n])
      BY <1>8 DEF V!LogCleanRow
    <2> DEFINE m == [misc EXCEPT !.clean = n]
    <2>3. IsMisc(m) /\ Filled(m)
      BY <1>1
    <2> QED BY <2>1, <2>3
  <1>9. CASE V!TestRow
    <2>1. PICK u : V!EditMisc([misc EXCEPT !.test = u])
      BY <1>9, Zenon DEF V!TestRow
    <2> DEFINE m == [misc EXCEPT !.test = u]
    <2>3. IsMisc(m) /\ Filled(m)
      BY <1>1
    <2> QED BY <2>1, <2>3
  <1>10. CASE V!AutoCloseRow \/ V!AutoCheckRow \/ V!EnhancedRow \/ V!DetectionRow
    <2>1. PICK m \in {[misc EXCEPT !.close = ~@], [misc EXCEPT !.check = ~@], [misc EXCEPT !.enhanced = ~@],
                      [misc EXCEPT !.detect = ~@]} : V!EditMisc(m)
      BY <1>10, Zenon DEF V!AutoCloseRow, V!AutoCheckRow, V!EnhancedRow, V!DetectionRow
    <2>2. IsMisc(m) /\ Filled(m)
      BY <1>1
    <2> QED BY <2>1, <2>2
  <1> QED BY <1>2, <1>3, <1>4, <1>5, <1>6, <1>7, <1>8, <1>9, <1>10

\* What is sent of the miscellaneous settings can be used.
LEMMA SentPositive ==
    ASSUME NEW m, IsMisc(m), Filled(m)
    PROVE  IsMisc(V!Sent(m)) /\ V!Positive(V!Sent(m))
  <1> DEFINE n == V!Sent(m)
  <1>1. /\ IsMisc(n) /\ n.size = m.size /\ n.count = m.count /\ n.interval = m.interval
        /\ n.timeout = IF m.timeout \in {0, NotANumber} THEN 10000 ELSE m.timeout
    BY DEF IsMisc, V!Sent
  <1>2. n.timeout \notin {0, NotANumber}
    BY <1>1, VergeAssumption
  <1> QED BY <1>1, <1>2 DEF Filled, V!Positive

LEMMA DialogSaves ==
    ASSUME DialogInv, NEW of \in {"controller", "misc"}, NEW sent, V!Save(of, sent),
           of = "misc" => IsMisc(sent) /\ V!Positive(sent)
    PROVE  DialogInv'
  <1> DEFINE s == [at |-> "patch", controller |-> controller, misc |-> sent]
  <1>1. /\ vDialog = of /\ vSaving = {} /\ told' = {} /\ vSaving' = {s}
        /\ UNCHANGED <<vDialog, vStored, vSeen, misc, pendingValues>>
    BY DEF V!Save, V!On, V!forms, V!backups
  <1>2. s.at = "patch" /\ s.misc = sent /\ s = [at |-> s.at, controller |-> s.controller, misc |-> s.misc]
    OBVIOUS
  <1> HIDE DEF s
  <1>3. VergeTypes'
    BY <1>1, <1>2 DEF DialogInv, VergeTypes, IsSaving
  <1>4. MiscInv'
    BY <1>1, <1>2 DEF DialogInv, MiscInv, V!Positive, Filled
  <1>5. ToldInv'
    BY <1>1, <1>2 DEF DialogInv, ToldInv, V!ControllerSaved
  <1>6. BackupInv'
    BY <1>1, <1>2 DEF DialogInv, BackupInv
  <1> QED BY <1>3, <1>4, <1>5, <1>6 DEF DialogInv

\* The records of the back end and of what is under way.
LEMMA StoredExcept ==
    ASSUME IsVerge(vStored), NEW x
    PROVE  /\ IsVerge([vStored EXCEPT !.on = x]) /\ [vStored EXCEPT !.on = x].on = x
           /\ [vStored EXCEPT !.on = x].misc = vStored.misc /\ [vStored EXCEPT !.on = x].backup = vStored.backup
           /\ IsVerge([vStored EXCEPT !.misc = x]) /\ [vStored EXCEPT !.misc = x].misc = x
           /\ [vStored EXCEPT !.misc = x].backup = vStored.backup
           /\ IsVerge([vStored EXCEPT !.backup = x]) /\ [vStored EXCEPT !.backup = x].misc = vStored.misc
           /\ [vStored EXCEPT !.backup = x].backup = x
  BY DEF IsVerge

WithAddress(r, x) == [r EXCEPT !.address = x]
WithInfo(r, x, y) == [r EXCEPT !.address = x, !.secret = y]
Fetched(r, x, y, z) == [r EXCEPT !.on = x, !.misc = y, !.backup = z]

LEMMA AddressExcept ==
    ASSUME NEW r, IsVerge(r), NEW x
    PROVE  LET n == WithAddress(r, x) IN IsVerge(n) /\ n.on = r.on /\ n.misc = r.misc /\ n.backup = r.backup
  BY DEF IsVerge, WithAddress

LEMMA VergePoints ==
    ASSUME NEW r
    PROVE  IsVerge(r) <=> r = [k \in {"on", "address", "secret", "misc", "backup"} |-> r[k]]
  BY DEF IsVerge

LEMMA InfoExcept ==
    ASSUME NEW r, IsVerge(r), NEW x, NEW y
    PROVE  LET n == WithInfo(r, x, y) IN
             /\ IsVerge(n) /\ n.on = r.on /\ n.misc = r.misc /\ n.backup = r.backup
             /\ n.address = x /\ n.secret = y
  <1> DEFINE n == WithInfo(r, x, y)
  <1>1. r = [k \in {"on", "address", "secret", "misc", "backup"} |-> r[k]]
    BY VergePoints
  <1>2. n = [r EXCEPT !.address = x, !.secret = y]
    BY Zenon DEF WithInfo
  <1> HIDE DEF n
  <1>3. n = [k \in {"on", "address", "secret", "misc", "backup"} |-> n[k]]
    BY <1>1, <1>2
  <1>4. n.on = r.on /\ n.misc = r.misc /\ n.backup = r.backup /\ n.address = x /\ n.secret = y
    BY <1>1, <1>2
  <1> QED BY <1>3, <1>4, VergePoints DEF n

LEMMA SeenExcept ==
    ASSUME NEW r, IsVerge(r), NEW x, NEW y, NEW z
    PROVE  LET n == Fetched(r, x, y, z) IN IsVerge(n) /\ n.misc = y /\ n.backup = z
  <1> DEFINE n == Fetched(r, x, y, z)
  <1>1. r = [k \in {"on", "address", "secret", "misc", "backup"} |-> r[k]]
    BY VergePoints
  <1>2. n = [r EXCEPT !.on = x, !.misc = y, !.backup = z]
    BY Zenon DEF Fetched
  <1> HIDE DEF n
  <1>3. n = [k \in {"on", "address", "secret", "misc", "backup"} |-> n[k]] /\ n.misc = y /\ n.backup = z
    BY <1>1, <1>2
  <1> QED BY <1>3, VergePoints DEF n

LEMMA SavingMoves ==
    ASSUME VergeTypes, NEW s \in vSaving, NEW a \in {"refetch", "info"}, a = "info" => vDialog = "controller",
           NEW t, t = [s EXCEPT !.at = a]
    PROVE  /\ IsSaving(t) /\ t.at = a
           /\ vDialog # "backup" => t.controller = s.controller /\ t.misc = s.misc
           /\ vDialog = "backup" => t.backup = s.backup
  <1>1. IsSaving(s) /\ vDialog \in {"controller", "misc", "backup"}
    BY DEF VergeTypes
  <1>2. CASE vDialog = "backup"
    <2>1. s = [at |-> s.at, backup |-> s.backup] /\ IsBackup(s.backup)
      BY <1>1, <1>2 DEF IsSaving
    <2>2. t = [at |-> a, backup |-> s.backup]
      BY <2>1
    <2>3. t.at = a /\ t.backup = s.backup
      BY <2>2
    <2> QED BY <1>2, <2>1, <2>2, <2>3 DEF IsSaving
  <1>3. CASE vDialog # "backup"
    <2>1. s = [at |-> s.at, controller |-> s.controller, misc |-> s.misc]
      BY <1>1, <1>3 DEF IsSaving
    <2>2. t = [at |-> a, controller |-> s.controller, misc |-> s.misc]
      BY <2>1
    <2>3. t.at = a /\ t.controller = s.controller /\ t.misc = s.misc
      BY <2>2
    <2> QED BY <1>3, <2>2, <2>3 DEF IsSaving
  <1> QED BY <1>2, <1>3

\* A request that failed ends its save.
LEMMA DialogFails ==
    ASSUME DialogInv, vDialog # "backup", V!Fail, UNCHANGED V!backups
    PROVE  DialogInv'
  <1>1. vSaving' = {} /\ UNCHANGED <<vDialog, vStored, vSeen, misc, pendingValues, told>>
    BY DEF V!Fail, V!forms, V!backups
  <1> QED BY <1>1, MiscAside, ToldAside, BackupAside, TypesAside DEF DialogInv

LEMMA ControllerPatched ==
    ASSUME DialogInv, V!EnablePatched
    PROVE  DialogInv'
  <1>1. PICK s \in vSaving : s.at = "patch" /\ (V!Patched([vStored EXCEPT !.on = s.controller.on]) \/ (V!Fail /\ UNCHANGED V!backups))
    BY Zenon DEF V!EnablePatched
  <1>2. vDialog = "controller"
    BY DEF V!EnablePatched
  <1>3. CASE V!Fail /\ UNCHANGED V!backups
    BY <1>2, <1>3, DialogFails
  <1>4. CASE V!Patched([vStored EXCEPT !.on = s.controller.on])
    <2> DEFINE next == [vStored EXCEPT !.on = s.controller.on]
    <2> DEFINE t == [s EXCEPT !.at = "refetch"]
    <2>1. /\ vStored' = next /\ vSaving' = {[r EXCEPT !.at = "refetch"] : r \in vSaving}
          /\ UNCHANGED <<vDialog, vSeen, misc, pendingValues, told>>
      BY <1>4 DEF V!Patched, V!forms, V!backups
    <2>2. vSaving = {s}
      BY DEF DialogInv, VergeTypes
    <2>3. vSaving' = {t}
      BY <2>1, <2>2
    <2>4. IsVerge(next) /\ next.on = s.controller.on /\ next.misc = vStored.misc /\ next.backup = vStored.backup
      BY StoredExcept DEF DialogInv, VergeTypes
    <2>5. IsSaving(t) /\ t.at = "refetch" /\ t.controller = s.controller
      BY <1>2, SavingMoves DEF DialogInv
    <2> HIDE DEF next, t
    <2>6. VergeTypes'
      BY <2>1, <2>3, <2>4, <2>5 DEF DialogInv, VergeTypes, IsSaving
    <2>7. MiscInv'
      BY <1>2, <2>1, <2>4, MiscAside DEF DialogInv
    <2>8. ToldInv'
      BY <1>2, <2>1, <2>2, <2>3, <2>4, <2>5 DEF DialogInv, ToldInv, V!ControllerSaved
    <2>9. BackupInv'
      BY <1>2, <2>1, <2>4 DEF DialogInv, BackupInv
    <2> QED BY <2>6, <2>7, <2>8, <2>9 DEF DialogInv
  <1> QED BY <1>1, <1>3, <1>4

LEMMA ControllerChecked ==
    ASSUME DialogInv, V!Checked
    PROVE  DialogInv'
  <1>1. PICK s \in vSaving :
          /\ s.at = "refetch" /\ V!Refetch
          /\ vSaving' \in {{}, {[s EXCEPT !.at = "info"]}}
    BY Zenon DEF V!Checked
  <1>2. vDialog = "controller" /\ UNCHANGED <<vDialog, vStored, misc, pendingValues, told>>
    BY DEF V!Checked, V!forms, V!backups
  <1> DEFINE t == [s EXCEPT !.at = "info"]
  <1> DEFINE next == [vSeen EXCEPT !.on = vStored.on, !.misc = vStored.misc, !.backup = vStored.backup]
  <1>3. vSeen' = next /\ vSaving' \subseteq {t}
    BY <1>1 DEF V!Refetch
  <1>4. IsSaving(t) /\ t.at = "info" /\ t.controller = s.controller
    BY <1>2, SavingMoves DEF DialogInv
  <1>5. IsVerge(next) /\ next.misc = vStored.misc /\ next.backup = vStored.backup
    <2>1. IsVerge(vSeen)
      BY DEF DialogInv, VergeTypes
    <2>2. next = Fetched(vSeen, vStored.on, vStored.misc, vStored.backup)
      BY Zenon DEF Fetched
    <2> HIDE DEF next
    <2> QED BY <2>1, <2>2, SeenExcept
  <1> HIDE DEF next, t
  <1>6. VergeTypes'
    BY <1>2, <1>3, <1>4, <1>5 DEF DialogInv, VergeTypes, IsSaving
  <1>7. MiscInv'
    BY <1>2, <1>3, <1>5, MiscAside DEF DialogInv
  <1>8. ToldInv'
    BY <1>1, <1>2, <1>3, <1>4, <1>5 DEF DialogInv, ToldInv, V!ControllerSaved
  <1>9. BackupInv'
    BY <1>2, <1>3, <1>5 DEF DialogInv, BackupInv
  <1> QED BY <1>6, <1>7, <1>8, <1>9 DEF DialogInv

LEMMA ControllerStored ==
    ASSUME DialogInv, V!InfoPatched
    PROVE  DialogInv'
  <1>1. PICK s \in vSaving :
          /\ s.at = "info"
          /\ \/ vStored' = V!InfoPatch(s) /\ told' = {s}
             \/ vStored' \in {vStored, V!InfoPatch(s)} /\ told' = told
    BY Zenon DEF V!InfoPatched
  <1>2. vSaving' = {} /\ UNCHANGED <<vDialog, vSeen, misc, pendingValues>>
    BY DEF V!InfoPatched, V!forms, V!backups
  <1>3. vDialog = "controller" /\ told = {} /\ vStored.on = s.controller.on
    BY <1>1 DEF DialogInv, VergeTypes, IsSaving, ToldInv
  <1> DEFINE next == V!InfoPatch(s)
  <1>4. /\ IsVerge(next) /\ next.on = vStored.on /\ next.misc = vStored.misc /\ next.backup = vStored.backup
        /\ s.controller.on => next.address = s.controller.address /\ next.secret = s.controller.secret
    <2>1. IsVerge(vStored)
      BY DEF DialogInv, VergeTypes
    <2>2. CASE s.controller.on
      <3>1. next = WithInfo(vStored, s.controller.address, s.controller.secret)
        BY <2>2, Zenon DEF V!InfoPatch, WithInfo
      <3> HIDE DEF next
      <3> QED BY <2>1, <3>1, InfoExcept
    <2>3. CASE ~s.controller.on
      <3>1. next = WithAddress(vStored, "")
        BY <2>3, Zenon DEF V!InfoPatch, WithAddress
      <3> HIDE DEF next
      <3> QED BY <2>1, <2>3, <3>1, AddressExcept
    <2> QED BY <2>2, <2>3
  <1> HIDE DEF next
  <1>5. /\ vStored' = next \/ vStored' = vStored
        /\ told' \subseteq {s} /\ (told' # {} => vStored' = next)
    BY <1>1, <1>3 DEF next
  <1>6. VergeTypes'
    BY <1>2, <1>4, <1>5 DEF DialogInv, VergeTypes, IsSaving
  <1>7. MiscInv'
    BY <1>2, <1>3, <1>4, <1>5, MiscAside DEF DialogInv
  <1>8. ToldInv'
    BY <1>2, <1>3, <1>4, <1>5 DEF DialogInv, ToldInv, V!ControllerSaved
  <1>9. BackupInv'
    BY <1>2, <1>3, <1>4, <1>5 DEF DialogInv, BackupInv
  <1> QED BY <1>6, <1>7, <1>8, <1>9 DEF DialogInv

LEMMA ControllerSeen ==
    ASSUME DialogInv, V!InfoRefetched
    PROVE  DialogInv'
  <1>1. UNCHANGED <<vDialog, vStored, misc, pendingValues, vSaving, told>>
    BY DEF V!InfoRefetched, V!forms, V!backups
  <1>2. IsVerge(vSeen') /\ vSeen'.misc = vSeen.misc /\ vSeen'.backup = vSeen.backup
    <2>1. PICK x, y : vSeen' = WithInfo(vSeen, x, y)
      BY Zenon DEF V!InfoRefetched, WithInfo
    <2>2. IsVerge(vSeen)
      BY DEF DialogInv, VergeTypes
    <2> QED BY <2>1, <2>2, InfoExcept
  <1>3. VergeTypes'
    BY <1>1, <1>2 DEF DialogInv, VergeTypes, IsSaving
  <1> QED BY <1>1, <1>2, <1>3, MiscAside, ToldAside, BackupAside DEF DialogInv

LEMMA MiscSends ==
    ASSUME DialogInv, V!MiscPatched
    PROVE  DialogInv'
  <1>1. PICK s \in vSaving : s.at = "patch" /\ (V!Patched([vStored EXCEPT !.misc = s.misc]) \/ (V!Fail /\ UNCHANGED V!backups))
    BY Zenon DEF V!MiscPatched
  <1>2. vDialog = "misc"
    BY DEF V!MiscPatched
  <1>3. CASE V!Fail /\ UNCHANGED V!backups
    BY <1>2, <1>3, DialogFails
  <1>4. CASE V!Patched([vStored EXCEPT !.misc = s.misc])
    <2> DEFINE next == [vStored EXCEPT !.misc = s.misc]
    <2> DEFINE t == [s EXCEPT !.at = "refetch"]
    <2>1. /\ vStored' = next /\ vSaving' = {[r EXCEPT !.at = "refetch"] : r \in vSaving}
          /\ UNCHANGED <<vDialog, vSeen, misc, pendingValues, told>>
      BY <1>4 DEF V!Patched, V!forms, V!backups
    <2>2. vSaving = {s}
      BY DEF DialogInv, VergeTypes
    <2>3. vSaving' = {t}
      BY <2>1, <2>2
    <2>4. IsVerge(next) /\ next.misc = s.misc /\ next.backup = vStored.backup
      BY StoredExcept DEF DialogInv, VergeTypes
    <2>5. IsSaving(t) /\ t.at = "refetch" /\ t.misc = s.misc
      BY <1>2, SavingMoves DEF DialogInv
    <2>6. IsMisc(s.misc) /\ V!Positive(s.misc)
      BY <1>2 DEF DialogInv, MiscInv
    <2> HIDE DEF next, t
    <2>7. VergeTypes'
      BY <2>1, <2>3, <2>4, <2>5 DEF DialogInv, VergeTypes, IsSaving
    <2>8. MiscInv'
      BY <1>2, <2>1, <2>3, <2>4, <2>5, <2>6 DEF DialogInv, MiscInv, V!Positive, Filled
    <2>9. ToldInv'
      BY <1>2, <2>1, <2>2, <2>3, <2>4, <2>5 DEF DialogInv, ToldInv, V!ControllerSaved
    <2>10. BackupInv'
      BY <1>2, <2>1, <2>4 DEF DialogInv, BackupInv
    <2> QED BY <2>7, <2>8, <2>9, <2>10 DEF DialogInv
  <1> QED BY <1>1, <1>3, <1>4

LEMMA MiscEnds ==
    ASSUME DialogInv, V!MiscSaved
    PROVE  DialogInv'
  <1>1. PICK s \in vSaving : s.at = "refetch" /\ V!Refetch /\ told' = {s}
    BY Zenon DEF V!MiscSaved
  <1>2. vDialog = "misc" /\ vSaving' = {} /\ UNCHANGED <<vDialog, vStored, misc, pendingValues>>
    BY DEF V!MiscSaved, V!forms, V!backups
  <1> DEFINE next == [vSeen EXCEPT !.on = vStored.on, !.misc = vStored.misc, !.backup = vStored.backup]
  <1>3. vSeen' = next
    BY <1>1 DEF V!Refetch
  <1>4. IsVerge(next) /\ next.misc = vStored.misc /\ next.backup = vStored.backup
    <2>1. IsVerge(vSeen)
      BY DEF DialogInv, VergeTypes
    <2>2. next = Fetched(vSeen, vStored.on, vStored.misc, vStored.backup)
      BY Zenon DEF Fetched
    <2> HIDE DEF next
    <2> QED BY <2>1, <2>2, SeenExcept
  <1> HIDE DEF next
  <1>5. VergeTypes'
    BY <1>2, <1>3, <1>4 DEF DialogInv, VergeTypes, IsSaving
  <1>6. MiscInv'
    BY <1>2, <1>3, <1>4, MiscAside DEF DialogInv
  <1>7. ToldInv'
    BY <1>1, <1>2 DEF DialogInv, ToldInv, V!ControllerSaved
  <1>8. BackupInv'
    BY <1>2, <1>3, <1>4 DEF DialogInv, BackupInv
  <1> QED BY <1>5, <1>6, <1>7, <1>8 DEF DialogInv

-----------------------------------------------------------------------------
(* The automatic backups.                                                  *)

\* A patch of the backups sends what the switches show.
LEMMA BackupApplies ==
    ASSUME DialogInv, vDialog = "backup", NEW b, NEW p, V!ApplyPatch(b, p), V!Rest,
           vSaving = {} => p = b /\ IsBackup(b)
    PROVE  DialogInv'
  <1>1. UNCHANGED <<vDialog, vStored, vSeen, misc, told>>
    BY DEF V!Rest, V!forms
  <1>2. CASE vSaving # {}
    <2>1. UNCHANGED <<pendingValues, vSaving>>
      BY <1>2 DEF V!ApplyPatch
    <2> QED BY <1>1, <2>1, MiscAside, ToldAside, BackupAside, TypesAside DEF DialogInv
  <1>3. CASE vSaving = {}
    <2> DEFINE s == [at |-> "patch", backup |-> b]
    <2>1. pendingValues' = {b} /\ vSaving' = {s}
      BY <1>3 DEF V!ApplyPatch
    <2>2. s.at = "patch" /\ s.backup = b /\ s = [at |-> s.at, backup |-> s.backup]
      OBVIOUS
    <2> HIDE DEF s
    <2>3. VergeTypes'
      BY <1>1, <1>3, <2>1, <2>2 DEF DialogInv, VergeTypes, IsSaving
    <2>4. MiscInv'
      BY <1>1, MiscAside DEF DialogInv
    <2>5. ToldInv'
      BY <1>1 DEF DialogInv, ToldInv, V!ControllerSaved
    <2>6. BackupInv'
      BY <1>1, <1>3, <2>1, <2>2 DEF DialogInv, BackupInv
    <2> QED BY <2>3, <2>4, <2>5, <2>6 DEF DialogInv
  <1> QED BY <1>2, <1>3

\* Outside a save the switches show what is stored.
LEMMA ValuesStored ==
    ASSUME DialogInv, vSaving = {}
    PROVE  V!Values = vStored.backup
  BY DEF DialogInv, VergeTypes, BackupInv, V!Values

LEMMA BackupExcept ==
    ASSUME NEW b, IsBackup(b), NEW x, NEW n,
           n \in {[b EXCEPT !.on = x], [b EXCEPT !.change = x], [b EXCEPT !.hours = x]}
    PROVE  IsBackup(n)
  BY DEF IsBackup

LEMMA BackupBoth ==
    ASSUME NEW b, IsBackup(b), NEW x, NEW h, h = b.hours, NEW n, n = [b EXCEPT !.on = x, !.hours = h]
    PROVE  n = [b EXCEPT !.on = x]
  <1>1. b = [k \in {"on", "hours", "change"} |-> b[k]]
    BY DEF IsBackup
  <1>2. n = [k \in {"on", "hours", "change"} |-> n[k]] /\ n.on = x /\ n.hours = h /\ n.change = b.change
    BY <1>1
  <1> DEFINE m == [b EXCEPT !.on = x]
  <1>3. m = [k \in {"on", "hours", "change"} |-> m[k]] /\ m.on = x /\ m.hours = h /\ m.change = b.change
    BY <1>1
  <1> HIDE DEF m
  <1>4. n = m
    BY <1>2, <1>3
  <1> QED BY <1>4 DEF m

LEMMA ScheduleClicks ==
    ASSUME DialogInv, V!ScheduleSwitch
    PROVE  DialogInv'
  <1> DEFINE v == V!Values
             b == [v EXCEPT !.on = ~v.on]
             p == [vStored.backup EXCEPT !.on = ~v.on, !.hours = v.hours]
  <1>1. vDialog = "backup" /\ V!ApplyPatch(b, p) /\ V!Rest
    BY Zenon DEF V!ScheduleSwitch, V!ClickSwitch, V!On, V!HandleScheduleToggle
  <1>2. vSaving = {} => p = b /\ IsBackup(b)
    <2> SUFFICES ASSUME vSaving = {} PROVE p = b /\ IsBackup(b)
      OBVIOUS
    <2>1. v = vStored.backup /\ IsBackup(v)
      BY ValuesStored DEF DialogInv, VergeTypes
    <2>2. p = [v EXCEPT !.on = ~v.on, !.hours = v.hours]
      BY <2>1, Zenon
    <2> HIDE DEF v, p
    <2>3. IsBackup(b)
      BY <2>1, BackupExcept
    <2>4. p = b
      BY <2>1, <2>2, BackupBoth
    <2> QED BY <2>3, <2>4
  <1> HIDE DEF v, b, p
  <1> QED BY <1>1, <1>2, BackupApplies

LEMMA ChangeClicks ==
    ASSUME DialogInv, V!ChangeSwitch
    PROVE  DialogInv'
  <1> DEFINE v == V!Values
             b == [v EXCEPT !.change = ~v.change]
             p == [vStored.backup EXCEPT !.change = ~v.change]
  <1>1. vDialog = "backup" /\ V!ApplyPatch(b, p) /\ V!Rest
    BY Zenon DEF V!ChangeSwitch, V!ClickSwitch, V!On, V!HandleChangeToggle
  <1>2. vSaving = {} => p = b /\ IsBackup(b)
    <2> SUFFICES ASSUME vSaving = {} PROVE p = b /\ IsBackup(b)
      OBVIOUS
    <2>1. v = vStored.backup /\ IsBackup(v)
      BY ValuesStored DEF DialogInv, VergeTypes
    <2>2. p = b
      BY <2>1, Zenon
    <2> HIDE DEF v, p
    <2>3. IsBackup(b)
      BY <2>1, BackupExcept
    <2> QED BY <2>2, <2>3
  <1> HIDE DEF v, b, p
  <1> QED BY <1>1, <1>2, BackupApplies

LEMMA IntervalCommits ==
    ASSUME DialogInv, V!IntervalField
    PROVE  DialogInv'
  <1> DEFINE v == V!Values
  <1>1. PICK h : \/ UNCHANGED <<pendingValues, vSaving>>
                 \/ V!ApplyPatch([v EXCEPT !.hours = h], [vStored.backup EXCEPT !.hours = h])
    BY Zenon DEF V!IntervalField, V!CommitIntervalInput
  <1>2. vDialog = "backup" /\ V!Rest
    BY Zenon DEF V!IntervalField, V!On
  <1> DEFINE b == [v EXCEPT !.hours = h]
             p == [vStored.backup EXCEPT !.hours = h]
  <1>3. CASE UNCHANGED <<pendingValues, vSaving>>
    <2>1. UNCHANGED <<vDialog, vStored, vSeen, misc, told>>
      BY <1>2 DEF V!Rest, V!forms
    <2> QED BY <1>3, <2>1, MiscAside, ToldAside, BackupAside, TypesAside DEF DialogInv
  <1>4. CASE V!ApplyPatch(b, p)
    <2>1. vSaving = {} => p = b /\ IsBackup(b)
      <3> SUFFICES ASSUME vSaving = {} PROVE p = b /\ IsBackup(b)
        OBVIOUS
      <3>1. v = vStored.backup /\ IsBackup(v)
        BY ValuesStored DEF DialogInv, VergeTypes
      <3>2. p = b
        BY <3>1, Zenon
      <3> HIDE DEF v, p
      <3>3. IsBackup(b)
        BY <3>1, BackupExcept
      <3> QED BY <3>2, <3>3
    <2> HIDE DEF v, b, p
    <2> QED BY <1>2, <1>4, <2>1, BackupApplies
  <1> HIDE DEF v, b, p
  <1> QED BY <1>1, <1>3, <1>4 DEF b, p

LEMMA BackupSends ==
    ASSUME DialogInv, V!BackupPatched
    PROVE  DialogInv'
  <1>1. PICK s \in vSaving : s.at = "patch" /\ (V!Patched([vStored EXCEPT !.backup = s.backup]) \/ (V!Fail /\ V!BackupFailed))
    BY Zenon DEF V!BackupPatched
  <1>2. vDialog = "backup"
    BY DEF V!BackupPatched
  <1>3. CASE V!Fail /\ V!BackupFailed
    <2>1. vSaving' = {} /\ pendingValues' = {} /\ UNCHANGED <<vDialog, vStored, vSeen, misc, told>>
      BY <1>3 DEF V!Fail, V!BackupFailed, V!forms
    <2>2. BackupInv'
      BY <1>1, <1>2, <2>1 DEF DialogInv, BackupInv
    <2> QED BY <2>1, <2>2, MiscAside, ToldAside, TypesAside DEF DialogInv
  <1>4. CASE V!Patched([vStored EXCEPT !.backup = s.backup])
    <2> DEFINE next == [vStored EXCEPT !.backup = s.backup]
    <2> DEFINE t == [s EXCEPT !.at = "refetch"]
    <2>1. /\ vStored' = next /\ vSaving' = {[r EXCEPT !.at = "refetch"] : r \in vSaving}
          /\ UNCHANGED <<vDialog, vSeen, misc, pendingValues, told>>
      BY <1>4 DEF V!Patched, V!forms, V!backups
    <2>2. vSaving = {s}
      BY DEF DialogInv, VergeTypes
    <2>3. vSaving' = {t}
      BY <2>1, <2>2
    <2>4. IsVerge(next) /\ next.misc = vStored.misc /\ next.backup = s.backup /\ IsBackup(s.backup)
      BY <1>2, StoredExcept DEF DialogInv, VergeTypes, IsSaving
    <2>5. IsSaving(t) /\ t.at = "refetch" /\ t.backup = s.backup
      BY <1>2, SavingMoves DEF DialogInv
    <2> HIDE DEF next, t
    <2>6. VergeTypes'
      BY <2>1, <2>3, <2>4, <2>5 DEF DialogInv, VergeTypes, IsSaving
    <2>7. MiscInv'
      BY <1>2, <2>1, <2>4, MiscAside DEF DialogInv
    <2>8. ToldInv'
      BY <1>2, <2>1 DEF DialogInv, ToldInv, V!ControllerSaved
    <2>9. BackupInv'
      BY <1>2, <2>1, <2>2, <2>3, <2>4, <2>5 DEF DialogInv, BackupInv
    <2> QED BY <2>6, <2>7, <2>8, <2>9 DEF DialogInv
  <1> QED BY <1>1, <1>3, <1>4

LEMMA BackupEnds ==
    ASSUME DialogInv, V!BackupSaved
    PROVE  DialogInv'
  <1>1. PICK s \in vSaving : s.at = "refetch" /\ V!Refetch
    BY Zenon DEF V!BackupSaved
  <1>2. vDialog = "backup" /\ vSaving' = {} /\ UNCHANGED <<vDialog, vStored, misc, pendingValues, told>>
    BY DEF V!BackupSaved, V!forms, V!backups
  <1> DEFINE next == [vSeen EXCEPT !.on = vStored.on, !.misc = vStored.misc, !.backup = vStored.backup]
  <1>3. vSeen' = next
    BY <1>1 DEF V!Refetch
  <1>4. IsVerge(next) /\ next.misc = vStored.misc /\ next.backup = vStored.backup
    <2>1. IsVerge(vSeen)
      BY DEF DialogInv, VergeTypes
    <2>2. next = Fetched(vSeen, vStored.on, vStored.misc, vStored.backup)
      BY Zenon DEF Fetched
    <2> HIDE DEF next
    <2> QED BY <2>1, <2>2, SeenExcept
  <1> HIDE DEF next
  <1>5. VergeTypes'
    BY <1>2, <1>3, <1>4 DEF DialogInv, VergeTypes, IsSaving
  <1>6. MiscInv'
    BY <1>2, <1>3, <1>4, MiscAside DEF DialogInv
  <1>7. ToldInv'
    BY <1>2 DEF DialogInv, ToldInv, V!ControllerSaved
  <1>8. BackupInv'
    BY <1>1, <1>2, <1>3, <1>4 DEF DialogInv, BackupInv
  <1> QED BY <1>5, <1>6, <1>7, <1>8 DEF DialogInv

LEMMA DialogStill ==
    ASSUME DialogInv, UNCHANGED Vvars
    PROVE  DialogInv'
  <1>1. UNCHANGED <<vDialog, vStored, vSeen, vSaving, told, pendingValues, misc>>
    BY DEF Vvars
  <1> QED BY <1>1, MiscAside, ToldAside, BackupAside, TypesAside DEF DialogInv

LEMMA DialogNext == DialogInv /\ (V!Next \/ UNCHANGED Vvars) => DialogInv'
  <1> SUFFICES ASSUME DialogInv, V!Next \/ UNCHANGED Vvars PROVE DialogInv'
    OBVIOUS
  <1>1. CASE \/ V!Close \/ V!OpenController \/ V!EnableRow \/ V!AddressRow \/ V!SecretRow
             \/ V!OpenMisc \/ V!HandleIntervalInputChange
    BY <1>1, DialogForms
  <1>2. CASE \/ V!LevelRow \/ V!SizeRow \/ V!CountRow \/ V!AutoCloseRow \/ V!AutoCheckRow \/ V!EnhancedRow
             \/ V!ColumnsRow \/ V!LogCleanRow \/ V!DetectionRow \/ V!IntervalRow \/ V!TestRow \/ V!TimeoutRow
    <2>1. \E m : V!EditMisc(m) /\ IsMisc(m) /\ Filled(m)
      BY <1>2, MiscRows
    <2> QED BY <2>1, DialogForms
  <1>3. CASE V!SaveController
    BY <1>3, DialogSaves DEF V!SaveController
  <1>4. CASE V!SaveMisc
    <2>1. IsMisc(misc) /\ Filled(misc)
      BY DEF DialogInv, MiscInv
    <2> QED BY <1>4, <2>1, SentPositive, DialogSaves DEF V!SaveMisc
  <1>5. CASE V!EnablePatched \/ V!Checked \/ V!InfoPatched \/ V!InfoRefetched
    BY <1>5, ControllerPatched, ControllerChecked, ControllerStored, ControllerSeen
  <1>6. CASE V!MiscPatched \/ V!MiscSaved
    BY <1>6, MiscSends, MiscEnds
  <1>7. CASE V!ScheduleSwitch \/ V!ChangeSwitch \/ V!IntervalField \/ V!BackupPatched \/ V!BackupSaved
    BY <1>7, ScheduleClicks, ChangeClicks, IntervalCommits, BackupSends, BackupEnds
  <1>8. CASE UNCHANGED Vvars
    BY <1>8, DialogStill
  <1> QED BY <1>1, <1>2, <1>3, <1>4, <1>5, <1>6, <1>7, <1>8, Zenon DEF V!Next

\* What a dialog of the program said that it saved is stored, what is stored can be used,
\* and the switches of the backups show what is stored (controller-viewer.tsx:72,
\* misc-viewer.tsx:62, auto-backup-settings.tsx:59).
LEMMA VergeHolds == SettingsSpec => [](V!ControllerSaved /\ V!MiscKept /\ V!AutoBackupShown)
  <1>1. SettingsStart => DialogInv
    BY DialogInit DEF SettingsStart
  <1>2. DialogInv /\ [SettingsStep]_<<part, settings>> => DialogInv'
    <2>1. [SettingsStep]_<<part, settings>> => V!Next \/ UNCHANGED Vvars
      BY DEF SettingsStep, DialogStep, HomeStep, settings, dialogs
    <2> QED BY <2>1, DialogNext
  <1>3. DialogInv => V!ControllerSaved /\ V!MiscKept /\ V!AutoBackupShown
    <2> SUFFICES ASSUME DialogInv PROVE V!ControllerSaved /\ V!MiscKept /\ V!AutoBackupShown
      OBVIOUS
    <2> QED BY ValuesStored DEF DialogInv, MiscInv, ToldInv, V!MiscKept, V!AutoBackupShown
  <1> QED BY <1>1, <1>2, <1>3, PTL DEF SettingsSpec

-----------------------------------------------------------------------------
(* The dialogs together.                                                   *)

\* Whatever dialog a behaviour is about, what it holds is what it says it holds, and once
\* nothing is under way what it saved is what the system has and what is shown
\* (dns-viewer.tsx:447, tunnels-viewer.tsx:150, sysproxy-viewer.tsx:133,
\* use-system-proxy-state.ts:44, clash-port-viewer.tsx:64, guard-state.tsx:73,
\* tun-viewer.tsx:55, external-controller-cors.tsx:125, and the dialogs of the program).
\* It is a claim about saves that followed one another and did not fail for the system
\* proxy and the ports (failed, crossed, overlapped), about changes that did not fail
\* beside another for the guarded settings (crossed), about patches that were not
\* dropped for TUN (dropped) and about the last restart that ended well for the origins
\* (behind); the other conjuncts have no such condition.
THEOREM SettingsAppliedHolds == SettingsSpec => []SettingsApplied
  <1> DEFINE P == /\ Q!FormAgrees /\ Q!AppliedValid
                  /\ U!DraftKept
                  /\ S!SystemIsSaved /\ S!LastClickWins
                  /\ O!SentIsChecked /\ O!PortsAgree
                  /\ K!SettingsShown
                  /\ R!RoutesValid /\ R!TunShown /\ R!OriginsApplied
                  /\ V!ControllerSaved /\ V!MiscKept /\ V!AutoBackupShown
  <1>1. P => SettingsApplied
    BY DEF SettingsApplied
  <1> QED BY <1>1, DnsHolds, TunnelHolds, SysHolds, PortHolds, GuardHolds, CoreHolds, VergeHolds, PTL

-----------------------------------------------------------------------------
(* The backups.                                                            *)

IsList(t) == t \in Seq({t[k] : k \in DOMAIN t})

LEMMA ListAppended ==
    ASSUME NEW t, IsList(t), NEW e
    PROVE  /\ IsList(Append(t, e)) /\ DOMAIN Append(t, e) = 1 .. Len(t) + 1
           /\ Len(t) \in Nat /\ DOMAIN t = 1 .. Len(t)
           /\ \A k \in DOMAIN t : Append(t, e)[k] = t[k]
           /\ Append(t, e)[Len(t) + 1] = e
  <1> DEFINE Elems == {t[k] : k \in DOMAIN t} \cup {e}
             u == Append(t, e)
  <1>1. t \in Seq(Elems) /\ e \in Elems
    <2>1. t \in Seq({t[k] : k \in DOMAIN t})
      BY DEF IsList
    <2>2. t \in [1 .. Len(t) -> Elems] /\ Len(t) \in Nat
      BY <2>1
    <2> HIDE DEF Elems
    <2>3. t \in Seq(Elems)
      BY <2>2
    <2> QED BY <2>3 DEF Elems
  <1> HIDE DEF Elems
  <1>2. /\ u \in Seq(Elems) /\ DOMAIN u = 1 .. Len(t) + 1 /\ DOMAIN t = 1 .. Len(t) /\ Len(t) \in Nat
        /\ \A k \in 1 .. Len(t) : u[k] = t[k]
        /\ u[Len(t) + 1] = e
    BY <1>1
  <1> HIDE DEF u
  <1>3. IsList(u)
    BY <1>2, IsASeq DEF IsList
  <1> QED BY <1>2, <1>3 DEF u

LEMMA ListRemoved ==
    ASSUME NEW t, IsList(t), NEW i \in DOMAIN t
    PROVE  /\ IsList(M!RemoveAt(t, i)) /\ DOMAIN M!RemoveAt(t, i) = 1 .. Len(t) - 1
           /\ Len(t) \in Nat /\ DOMAIN t = 1 .. Len(t)
           /\ \A k \in 1 .. Len(t) - 1 : M!RemoveAt(t, i)[k] = IF k < i THEN t[k] ELSE t[k + 1]
           /\ \A k \in DOMAIN t : k # i => \E j \in DOMAIN M!RemoveAt(t, i) : M!RemoveAt(t, i)[j] = t[k]
  <1> DEFINE Elems == {t[k] : k \in DOMAIN t}
             u == M!RemoveAt(t, i)
  <1>0. u = U!RemoveAt(t, i)
    BY DEF M!RemoveAt, U!RemoveAt
  <1>1. t \in Seq(Elems) /\ Len(t) \in Nat /\ DOMAIN t = 1 .. Len(t) /\ i \in 1 .. Len(t)
    BY DEF IsList
  <1> HIDE DEF Elems, u
  <1>2. /\ u \in Seq(Elems) /\ Len(u) = Len(t) - 1 /\ DOMAIN u = 1 .. Len(t) - 1
        /\ \A k \in 1 .. Len(t) - 1 : u[k] = IF k < i THEN t[k] ELSE t[k + 1]
    <2>1. Len(u) = Len(t) - 1 /\ u \in Seq(Elems)
      BY <1>0, <1>1, RemoveAtFacts
    <2>2. \A k \in 1 .. Len(t) - 1 : u[k] = IF k < i THEN t[k] ELSE t[k + 1]
      BY <1>0, <1>1, RemoveAtFacts
    <2> QED BY <2>1, <2>2
  <1>3. u \in Seq({u[k] : k \in DOMAIN u})
    BY <1>1, <1>2, IsASeq
  <1>4. IsList(u)
    BY <1>3 DEF IsList
  <1>5. ASSUME NEW k \in DOMAIN t, k # i PROVE \E j \in DOMAIN u : u[j] = t[k]
    <2>1. CASE k < i
      <3>1. k \in DOMAIN u /\ u[k] = t[k]
        BY <1>1, <1>2, <2>1
      <3> QED BY <3>1
    <2>2. CASE k > i
      <3>1. k - 1 \in DOMAIN u /\ u[k - 1] = t[k]
        BY <1>1, <1>2, <2>2
      <3> QED BY <3>1
    <2> QED BY <1>1, <1>5, <2>1, <2>2
  <1>6. DOMAIN u = 1 .. Len(t) - 1 /\ \A k \in 1 .. Len(t) - 1 : u[k] = IF k < i THEN t[k] ELSE t[k + 1]
    BY <1>2
  <1>7. \A k \in DOMAIN t : k # i => \E j \in DOMAIN u : u[j] = t[k]
    BY <1>5
  <1> QED BY <1>1, <1>4, <1>6, <1>7 DEF u

\* A list of as many elements.
LEMMA ListMapped ==
    ASSUME NEW t, IsList(t), NEW u, u = [k \in DOMAIN t |-> u[k]]
    PROVE  IsList(u) /\ DOMAIN u = DOMAIN t
  <1>1. DOMAIN t = 1 .. Len(t) /\ Len(t) \in Nat
    BY DEF IsList
  <1>2. u = [k \in 1 .. Len(t) |-> u[k]] /\ DOMAIN u = 1 .. Len(t)
    BY <1>1
  <1> DEFINE Els == {u[k] : k \in DOMAIN u}
  <1>3. \A k \in 1 .. Len(t) : u[k] \in Els
    BY <1>2
  <1> HIDE DEF Els
  <1>4. [k \in 1 .. Len(t) |-> u[k]] \in Seq(Els)
    BY <1>1, <1>3
  <1>5. u \in Seq(Els)
    BY <1>2, <1>4, Zenon
  <1> QED BY <1>1, <1>2, <1>5 DEF Els, IsList

LEMMA EmptyList ==
    ASSUME NEW t, t = <<>>
    PROVE  IsList(t) /\ DOMAIN t = {}
  <1>1. DOMAIN t = {}
    BY NoCalls
  <1> DEFINE Els == {t[k] : k \in DOMAIN t}
  <1>2. \A Elems : t \in Seq(Elems)
    BY EmptySeq
  <1>3. t \in Seq(Els)
    BY <1>2
  <1> QED BY <1>1, <1>3 DEF IsList


\* The dialog of the server and the first one: what marks a call ends with it.
ServerInv ==
    /\ IsList(serverCalls)
    /\ \A k \in DOMAIN serverCalls :
         serverCalls[k] = [x \in {"is", "signature", "then", "alive"} |-> serverCalls[k][x]]
    /\ busyAction # "none" => backingUp.target # "none" \/ DOMAIN serverCalls # {}
    /\ localImporting => importing
    /\ serverLoading => \E k \in DOMAIN serverCalls : serverCalls[k].alive

LEMMA ServerCalled ==
    ASSUME ServerInv, NEW is, NEW signature, NEW then, M!ServerCall(is, signature, then),
           UNCHANGED <<backingUp, localImporting, importing>>
    PROVE  ServerInv'
  <1> DEFINE c == [is |-> is, signature |-> signature, then |-> then, alive |-> TRUE]
  <1>0. serverCalls' = Append(serverCalls, c) /\ IsList(serverCalls)
    BY DEF M!ServerCall, ServerInv
  <1>1. c = [x \in {"is", "signature", "then", "alive"} |-> c[x]] /\ c.alive
    OBVIOUS
  <1> HIDE DEF c
  <1>2. /\ IsList(serverCalls') /\ DOMAIN serverCalls' = 1 .. Len(serverCalls) + 1
        /\ Len(serverCalls) \in Nat /\ DOMAIN serverCalls = 1 .. Len(serverCalls)
        /\ \A k \in DOMAIN serverCalls : serverCalls'[k] = serverCalls[k]
        /\ serverCalls'[Len(serverCalls) + 1] = c
    BY <1>0, ListAppended
  <1>3. \A k \in DOMAIN serverCalls' : k \in DOMAIN serverCalls \/ k = Len(serverCalls) + 1
    BY <1>2
  <1>4. Len(serverCalls) + 1 \in DOMAIN serverCalls'
    BY <1>2
  <1> QED BY <1>1, <1>2, <1>3, <1>4 DEF ServerInv

\* The call i is now about the list.
LEMMA ServerGoesOn ==
    ASSUME ServerInv, NEW i \in DOMAIN serverCalls, serverCalls' = [serverCalls EXCEPT ![i].is = "list"],
           serverLoading' = (serverLoading \/ serverCalls[i].alive),
           UNCHANGED <<backingUp, localImporting, importing>>
    PROVE  ServerInv'
  <1>0. \A k \in DOMAIN serverCalls :
          serverCalls[k] = [x \in {"is", "signature", "then", "alive"} |-> serverCalls[k][x]]
    BY DEF ServerInv
  <1> DEFINE c == [serverCalls[i] EXCEPT !.is = "list"]
  <1>1. c = [x \in {"is", "signature", "then", "alive"} |-> c[x]] /\ c.alive = serverCalls[i].alive
    BY <1>0
  <1>2. /\ serverCalls' = [k \in DOMAIN serverCalls |-> serverCalls'[k]] /\ serverCalls'[i] = c
        /\ \A k \in DOMAIN serverCalls : k # i => serverCalls'[k] = serverCalls[k]
    OBVIOUS
  <1> HIDE DEF c
  <1>3. IsList(serverCalls') /\ DOMAIN serverCalls' = DOMAIN serverCalls
    BY <1>2, ListMapped DEF ServerInv
  <1> QED BY <1>1, <1>2, <1>3 DEF ServerInv

\* The call i is over.
LEMMA ServerCallEnds ==
    ASSUME ServerInv, NEW i \in DOMAIN serverCalls, M!EndCall(i),
           UNCHANGED <<backingUp, localImporting, importing>>
    PROVE  ServerInv'
  <1> DEFINE u == M!RemoveAt(serverCalls, i)
  <1>1. serverCalls' = u /\ IsList(serverCalls) /\ busyAction' = "none"
    BY DEF M!EndCall, ServerInv
  <1>2. /\ IsList(u) /\ DOMAIN u = 1 .. Len(serverCalls) - 1
        /\ Len(serverCalls) \in Nat /\ DOMAIN serverCalls = 1 .. Len(serverCalls)
        /\ \A k \in 1 .. Len(serverCalls) - 1 : u[k] = IF k < i THEN serverCalls[k] ELSE serverCalls[k + 1]
        /\ \A k \in DOMAIN serverCalls : k # i => \E j \in DOMAIN u : u[j] = serverCalls[k]
    BY <1>1, ListRemoved
  <1> HIDE DEF u
  <1>3. \A k \in DOMAIN u : \E j \in DOMAIN serverCalls : u[k] = serverCalls[j]
    <2> TAKE k \in DOMAIN u
    <2>1. k \in 1 .. Len(serverCalls) - 1 /\ k \in DOMAIN serverCalls /\ k + 1 \in DOMAIN serverCalls
      BY <1>2
    <2> QED BY <1>2, <2>1
  <1>4. \A k \in DOMAIN u : u[k] = [x \in {"is", "signature", "then", "alive"} |-> u[k][x]]
    <2> TAKE k \in DOMAIN u
    <2>1. PICK j \in DOMAIN serverCalls : u[k] = serverCalls[j]
      BY <1>3
    <2>2. serverCalls[j] = [x \in {"is", "signature", "then", "alive"} |-> serverCalls[j][x]]
      BY DEF ServerInv
    <2> QED BY <2>1, <2>2, Zenon
  <1>5. serverLoading' => \E k \in DOMAIN u : u[k].alive
    <2> SUFFICES ASSUME serverLoading' PROVE \E k \in DOMAIN u : u[k].alive
      OBVIOUS
    <2>1. serverLoading /\ ~serverCalls[i].alive
      BY DEF M!EndCall
    <2>2. PICK k \in DOMAIN serverCalls : serverCalls[k].alive
      BY <2>1 DEF ServerInv
    <2>3. PICK j \in DOMAIN u : u[j] = serverCalls[k]
      BY <1>2, <2>1, <2>2
    <2> QED BY <2>2, <2>3
  <1> QED BY <1>1, <1>2, <1>4, <1>5 DEF ServerInv

LEMMA ServerStep == ServerInv /\ [M!Next]_(M!vars) => ServerInv'
  <1> SUFFICES ASSUME ServerInv, [M!Next]_(M!vars) PROVE ServerInv'
    OBVIOUS
  <1>1. ASSUME UNCHANGED <<serverCalls, busyAction, backingUp, localImporting, importing, serverLoading>>
        PROVE  ServerInv'
    BY <1>1 DEF ServerInv
  <1>2. CASE M!Open \/ \E s \in M!Sources : M!OpenHistory(s) \/ M!ChangeSource(s)
    BY <1>1, <1>2 DEF M!Open, M!OpenHistory, M!ChangeSource, M!main, M!server
  <1>3. CASE M!HistoryEffect \/ (\E i \in DOMAIN mFetches : M!Fetched(i)) \/ M!HandleRefresh
    BY <1>1, <1>3 DEF M!HistoryEffect, M!Fetched, M!HandleRefresh, M!main, M!server
  <1>4. CASE M!CloseHistory \/ M!ChangePage \/ M!HandleDelete \/ M!HandleRestore
    BY <1>1, <1>4 DEF M!CloseHistory, M!ChangePage, M!HandleDelete, M!HandleRestore, M!Ask, M!main, M!server
  <1>5. CASE M!CloseConfirmDialog \/ M!HandleConfirmAction
    BY <1>1, <1>5 DEF M!CloseConfirmDialog, M!HandleConfirmAction, M!main, M!server
  <1>6. CASE M!Deleted \/ M!Restored
    BY <1>1, <1>6 DEF M!Deleted, M!Restored, M!main, M!server
  <1>7. CASE M!ConfirmFailed \/ \E i \in DOMAIN restarts : M!Restart(i)
    BY <1>1, <1>7 DEF M!ConfirmFailed, M!Restart, M!main, M!server
  <1>8. CASE M!OpenServer \/ M!CloseServer \/ M!EditServer
    BY <1>1, <1>8 DEF M!OpenServer, M!CloseServer, M!EditServer, M!main
  <1>9. CASE M!Close
    <2>1. /\ \A k \in DOMAIN serverCalls :
              serverCalls[k] = [x \in {"is", "signature", "then", "alive"} |-> serverCalls[k][x]]
          /\ serverCalls' = [k \in DOMAIN serverCalls |-> [serverCalls[k] EXCEPT !.alive = FALSE]]
          /\ serverLoading' = FALSE /\ UNCHANGED <<busyAction, backingUp, localImporting, importing>>
      BY <1>9 DEF M!Close, ServerInv
    <2>2. \A k \in DOMAIN serverCalls :
              serverCalls'[k] = [x \in {"is", "signature", "then", "alive"} |-> serverCalls'[k][x]]
      BY <2>1
    <2>3. serverCalls' = [k \in DOMAIN serverCalls |-> serverCalls'[k]]
      BY <2>1
    <2>4. IsList(serverCalls') /\ DOMAIN serverCalls' = DOMAIN serverCalls
      BY <2>3, ListMapped DEF ServerInv
    <2> QED BY <2>1, <2>2, <2>4 DEF ServerInv
  <1>10. ASSUME NEW s \in M!Sources, M!HandleBackup(s) PROVE ServerInv'
    BY <1>10 DEF M!HandleBackup, M!server, M!Sources, ServerInv
  <1>11. CASE M!BackedUp
    BY <1>11 DEF M!BackedUp, M!server, ServerInv
  <1>12. CASE M!HandleImport \/ M!FileChosen \/ M!Imported
    BY <1>12 DEF M!HandleImport, M!FileChosen, M!Imported, M!server, ServerInv
  <1>13. CASE M!ServerEffect
    <2>1. CASE UNCHANGED <<serverLoading, busyAction, serverCalls>>
      BY <1>13, <2>1, <1>1 DEF M!ServerEffect
    <2>2. CASE M!ServerCall("list", mSeen, "none")
      BY <1>13, <2>2, ServerCalled DEF M!ServerEffect
    <2> QED BY <1>13, <2>1, <2>2 DEF M!ServerEffect
  <1>14. CASE M!SaveServer \/ M!BackupOnServer \/ M!RefreshServer
    <2>1. PICK is, then : M!ServerClick(is, then)
      BY <1>14, Zenon DEF M!SaveServer, M!BackupOnServer, M!RefreshServer
    <2> QED BY <2>1, ServerCalled DEF M!ServerClick
  <1>15. ASSUME NEW i \in DOMAIN serverCalls, M!ServerSaved(i) PROVE ServerInv'
    <2>1. CASE M!EndCall(i)
      BY <1>15, <2>1, ServerCallEnds DEF M!ServerSaved
    <2> QED BY <1>15, <2>1, ServerGoesOn DEF M!ServerSaved
  <1>16. ASSUME NEW i \in DOMAIN serverCalls, M!ServerBackedUp(i) PROVE ServerInv'
    <2>1. CASE M!EndCall(i)
      BY <1>16, <2>1, ServerCallEnds DEF M!ServerBackedUp
    <2> QED BY <1>16, <2>1, ServerGoesOn DEF M!ServerBackedUp
  <1>17. ASSUME NEW i \in DOMAIN serverCalls, M!Refreshed(i) PROVE ServerInv'
    BY <1>17, ServerCallEnds DEF M!Refreshed
  <1>18. CASE UNCHANGED M!vars
    BY <1>18, <1>1 DEF M!vars, M!main, M!server
  <1> QED BY <1>2, <1>3, <1>4, <1>5, <1>6, <1>7, <1>8, <1>9, <1>10, <1>11, <1>12, <1>13, <1>14,
             <1>15, <1>16, <1>17, <1>18, Zenon DEF M!Next


\* A restart that is awaited has its timer.
RestartInv ==
    IsList(restarts) /\ (isRestarting => restarted \/ \E k \in DOMAIN restarts : restarts[k])

LEMMA RestartStep == RestartInv /\ [M!Next]_(M!vars) => RestartInv'
  <1> SUFFICES ASSUME RestartInv, [M!Next]_(M!vars) PROVE RestartInv'
    OBVIOUS
  <1>1. ASSUME UNCHANGED <<restarts, isRestarting, restarted>> PROVE RestartInv'
    BY <1>1 DEF RestartInv
  <1>2. CASE M!Open \/ \E s \in M!Sources : M!OpenHistory(s) \/ M!HandleBackup(s) \/ M!ChangeSource(s)
    BY <1>1, <1>2 DEF M!Open, M!OpenHistory, M!HandleBackup, M!ChangeSource, M!history, M!calls
  <1>3. CASE M!BackedUp \/ M!HandleImport \/ M!FileChosen \/ M!Imported
    BY <1>1, <1>3 DEF M!BackedUp, M!HandleImport, M!FileChosen, M!Imported, M!history, M!calls
  <1>4. CASE M!HistoryEffect \/ (\E i \in DOMAIN mFetches : M!Fetched(i)) \/ M!HandleRefresh
    BY <1>1, <1>4 DEF M!HistoryEffect, M!Fetched, M!HandleRefresh
  <1>5. CASE M!CloseHistory \/ M!ChangePage \/ M!HandleDelete \/ M!HandleRestore
    BY <1>1, <1>5 DEF M!CloseHistory, M!ChangePage, M!HandleDelete, M!HandleRestore, M!Ask, M!history, M!calls
  <1>6. CASE M!CloseConfirmDialog \/ M!HandleConfirmAction \/ M!Deleted \/ M!ConfirmFailed
    BY <1>1, <1>6 DEF M!CloseConfirmDialog, M!HandleConfirmAction, M!Deleted, M!ConfirmFailed, M!calls
  <1>7. CASE M!OpenServer \/ M!CloseServer \/ M!EditServer \/ M!ServerEffect
    BY <1>1, <1>7 DEF M!OpenServer, M!CloseServer, M!EditServer, M!ServerEffect, M!history, M!calls
  <1>8. CASE M!SaveServer \/ M!BackupOnServer \/ M!RefreshServer
    <2>1. PICK is, then : M!ServerClick(is, then)
      BY <1>8, Zenon DEF M!SaveServer, M!BackupOnServer, M!RefreshServer
    <2> QED BY <2>1, <1>1 DEF M!ServerClick, M!history, M!calls
  <1>9. CASE \E i \in DOMAIN serverCalls : M!ServerSaved(i) \/ M!ServerBackedUp(i) \/ M!Refreshed(i)
    BY <1>1, <1>9 DEF M!ServerSaved, M!ServerBackedUp, M!Refreshed, M!history, M!calls
  <1>10. CASE M!Close
    <2>1. /\ restarts' = [k \in DOMAIN restarts |-> FALSE] /\ isRestarting' = FALSE /\ IsList(restarts)
      BY <1>10 DEF M!Close, RestartInv
    <2>2. restarts' = [k \in DOMAIN restarts |-> restarts'[k]]
      BY <2>1
    <2>3. IsList(restarts')
      BY <2>1, <2>2, ListMapped
    <2> QED BY <2>1, <2>3 DEF RestartInv
  <1>11. CASE M!Restored
    <2>1. /\ restarts' = Append(restarts, job.alive) /\ isRestarting' = (isRestarting \/ job.alive)
          /\ restarted' = restarted /\ IsList(restarts)
      BY <1>11 DEF M!Restored, M!server, RestartInv
    <2> DEFINE alive == job.alive
    <2> HIDE DEF alive
    <2>2. restarts' = Append(restarts, alive)
      BY <2>1 DEF alive
    <2>3. /\ IsList(restarts') /\ DOMAIN restarts' = 1 .. Len(restarts) + 1
          /\ Len(restarts) \in Nat /\ DOMAIN restarts = 1 .. Len(restarts)
          /\ \A k \in DOMAIN restarts : restarts'[k] = restarts[k]
          /\ restarts'[Len(restarts) + 1] = alive
      BY <2>1, <2>2, ListAppended
    <2>4. Len(restarts) + 1 \in DOMAIN restarts' /\ \A k \in DOMAIN restarts : k \in DOMAIN restarts'
      BY <2>3
    <2>5. isRestarting' = (isRestarting \/ alive)
      BY <2>1 DEF alive
    <2> QED BY <2>1, <2>3, <2>4, <2>5, Zenon DEF RestartInv
  <1>12. ASSUME NEW i \in DOMAIN restarts, M!Restart(i) PROVE RestartInv'
    <2> DEFINE u == M!RemoveAt(restarts, i)
    <2>1. /\ restarts' = u /\ IsList(restarts) /\ ~restarted
          /\ restarted' = TRUE \/ isRestarting' = (isRestarting /\ ~restarts[i])
      BY <1>12 DEF M!Restart, M!Settled, RestartInv
    <2>2. IsList(u) /\ \A k \in DOMAIN restarts : k # i => \E j \in DOMAIN u : u[j] = restarts[k]
      BY <2>1, ListRemoved
    <2> HIDE DEF u
    <2>3. ASSUME isRestarting' = (isRestarting /\ ~restarts[i]), isRestarting'
          PROVE  \E j \in DOMAIN u : u[j]
      <3>1. PICK k \in DOMAIN restarts : restarts[k]
        BY <2>1, <2>3 DEF RestartInv
      <3>2. k # i
        BY <2>3, <3>1
      <3> QED BY <2>2, <3>1, <3>2
    <2> QED BY <2>1, <2>2, <2>3 DEF RestartInv
  <1>13. CASE UNCHANGED M!vars
    BY <1>13, <1>1 DEF M!vars, M!history, M!calls
  <1> QED BY <1>2, <1>3, <1>4, <1>5, <1>6, <1>7, <1>8, <1>9, <1>10, <1>11, <1>12, <1>13, Zenon DEF M!Next

\* The question on the screen, the job that was agreed to and the reads of the list:
\* while the call is under way the question stays; after it, one read ends the job.
Ends(f) == f.last /\ f.alive
QuestionInv ==
    /\ IsList(mFetches) /\ source \in M!Sources
    /\ \A k \in DOMAIN mFetches :
         /\ mFetches[k] = [x \in {"source", "signature", "alive", "last"} |-> mFetches[k][x]]
         /\ mFetches[k].source \in M!Sources
    /\ job = [x \in {"of", "deps", "alive", "phase"} |-> job[x]]
    /\ job.phase \in {"idle", "call", "refresh"}
    /\ job.phase # "idle" => job.alive
    /\ job.phase = "call" =>
         isConfirming /\ mPending = job.of /\ mPending # M!Nothing /\ job.deps[2] \in M!Sources
    /\ mPending # M!Nothing => mOpen /\ historyOpen
    /\ isConfirming \/ isRestoring => job.phase # "idle"
    /\ isRestoring => job.phase = "call" /\ job.of.action = "restore"
    /\ mLoading => \E k \in DOMAIN mFetches : mFetches[k].alive
    /\ \A k \in DOMAIN mFetches : Ends(mFetches[k]) => job.phase = "refresh"
    /\ \A k, l \in DOMAIN mFetches : Ends(mFetches[k]) /\ Ends(mFetches[l]) => k = l

\* A read is added, or none; only a new read is marked to be the last.
LEMMA ListRead ==
    ASSUME QuestionInv, NEW d, NEW force, NEW last, M!FetchRows(d, force, last), d[2] \in M!Sources,
           last => job.phase = "call"
    PROVE  \/ UNCHANGED <<mFetches, mLoading>>
           \/ /\ IsList(mFetches') /\ mFetches' # mFetches
              /\ \A k \in DOMAIN mFetches' :
                   /\ mFetches'[k] = [x \in {"source", "signature", "alive", "last"} |-> mFetches'[k][x]]
                   /\ mFetches'[k].source \in M!Sources
              /\ mLoading' => \E k \in DOMAIN mFetches' : mFetches'[k].alive
              /\ \A k \in DOMAIN mFetches' : Ends(mFetches'[k]) => last \/ job.phase = "refresh"
              /\ \A k, l \in DOMAIN mFetches' : Ends(mFetches'[k]) /\ Ends(mFetches'[l]) => k = l
  <1> DEFINE f == [source |-> d[2], signature |-> d[3], alive |-> TRUE, last |-> last]
  <1>1. UNCHANGED <<mFetches, mLoading>> \/ mFetches' = Append(mFetches, f)
    BY DEF M!FetchRows
  <1> SUFFICES ASSUME mFetches' = Append(mFetches, f)
               PROVE  /\ IsList(mFetches') /\ mFetches' # mFetches
                      /\ \A k \in DOMAIN mFetches' :
                           /\ mFetches'[k] = [x \in {"source", "signature", "alive", "last"} |-> mFetches'[k][x]]
                           /\ mFetches'[k].source \in M!Sources
                      /\ mLoading' => \E k \in DOMAIN mFetches' : mFetches'[k].alive
                      /\ \A k \in DOMAIN mFetches' : Ends(mFetches'[k]) => last \/ job.phase = "refresh"
                      /\ \A k, l \in DOMAIN mFetches' : Ends(mFetches'[k]) /\ Ends(mFetches'[l]) => k = l
    BY <1>1
  <1>2. /\ f = [x \in {"source", "signature", "alive", "last"} |-> f[x]]
        /\ f.source \in M!Sources /\ f.alive /\ f.last = last
    OBVIOUS
  <1> HIDE DEF f
  <1>3. /\ IsList(mFetches') /\ DOMAIN mFetches' = 1 .. Len(mFetches) + 1
        /\ Len(mFetches) \in Nat /\ DOMAIN mFetches = 1 .. Len(mFetches)
        /\ \A k \in DOMAIN mFetches : mFetches'[k] = mFetches[k]
        /\ mFetches'[Len(mFetches) + 1] = f
    BY ListAppended DEF QuestionInv
  <1>4. \A k \in DOMAIN mFetches' : k \in DOMAIN mFetches \/ k = Len(mFetches) + 1
    BY <1>3
  <1>5. Len(mFetches) + 1 \in DOMAIN mFetches' /\ Len(mFetches) + 1 \notin DOMAIN mFetches
    BY <1>3
  <1>6. mFetches' # mFetches
    BY <1>5
  <1>7. \A k \in DOMAIN mFetches' :
          /\ mFetches'[k] = [x \in {"source", "signature", "alive", "last"} |-> mFetches'[k][x]]
          /\ mFetches'[k].source \in M!Sources
    BY <1>2, <1>3, <1>4 DEF QuestionInv
  <1>8. \E k \in DOMAIN mFetches' : mFetches'[k].alive
    BY <1>2, <1>3, <1>5
  <1>9. \A k \in DOMAIN mFetches' : Ends(mFetches'[k]) => last \/ job.phase = "refresh"
    BY <1>2, <1>3, <1>4 DEF QuestionInv, Ends
  <1>10. ASSUME NEW k \in DOMAIN mFetches', NEW l \in DOMAIN mFetches', Ends(mFetches'[k]), Ends(mFetches'[l])
         PROVE  k = l
    <2>1. CASE k \in DOMAIN mFetches /\ l \in DOMAIN mFetches
      BY <1>3, <1>10, <2>1 DEF QuestionInv
    <2>2. ASSUME last PROVE \A m \in DOMAIN mFetches : ~Ends(mFetches'[m])
      BY <1>3, <2>2 DEF QuestionInv
    <2>3. CASE last
      BY <1>4, <1>10, <2>2, <2>3
    <2>4. CASE ~last
      BY <1>2, <1>3, <1>4, <1>10, <2>1, <2>4 DEF Ends
    <2> QED BY <2>3, <2>4
  <1> QED BY <1>3, <1>6, <1>7, <1>8, <1>9, <1>10


\* Steps that leave the reads, the marks and the question alone.
Asked == <<mFetches, source, job, mPending, mOpen, historyOpen, isConfirming, isRestoring, mLoading>>

LEMMA ListReadStep ==
    ASSUME QuestionInv, M!FetchRows(M!Deps, FALSE, FALSE) \/ M!FetchRows(M!Deps, TRUE, FALSE), mOpen,
           UNCHANGED <<source, job, mPending, mOpen, historyOpen, isConfirming, isRestoring>>
    PROVE  QuestionInv'
  <1> DEFINE d == M!Deps
  <1>1. d[2] \in M!Sources
    BY DEF M!Deps, QuestionInv
  <1> HIDE DEF d
  <1>2. PICK force \in BOOLEAN : M!FetchRows(d, force, FALSE)
    BY DEF d
  <1>3. \/ UNCHANGED <<mFetches, mLoading>>
        \/ /\ IsList(mFetches') /\ mFetches' # mFetches
           /\ \A k \in DOMAIN mFetches' :
                /\ mFetches'[k] = [x \in {"source", "signature", "alive", "last"} |-> mFetches'[k][x]]
                /\ mFetches'[k].source \in M!Sources
           /\ mLoading' => \E k \in DOMAIN mFetches' : mFetches'[k].alive
           /\ \A k \in DOMAIN mFetches' : Ends(mFetches'[k]) => FALSE \/ job.phase = "refresh"
           /\ \A k, l \in DOMAIN mFetches' : Ends(mFetches'[k]) /\ Ends(mFetches'[l]) => k = l
    BY <1>1, <1>2, ListRead
  <1> QED BY <1>3 DEF QuestionInv

LEMMA ListAnswered ==
    ASSUME QuestionInv, NEW i \in DOMAIN mFetches, M!Fetched(i)
    PROVE  QuestionInv'
  <1> DEFINE f == mFetches[i]
             u == M!RemoveAt(mFetches, i)
  <1>1. /\ mFetches' = u /\ mLoading' = (mLoading /\ ~f.alive)
        /\ job' = IF Ends(f) THEN M!NoJob ELSE job
        /\ isConfirming' = (isConfirming /\ ~Ends(f))
        /\ UNCHANGED <<source, mOpen, historyOpen, isRestoring, mPending>>
    BY DEF M!Fetched, M!main, M!shown, Ends
  <1>2. /\ IsList(u) /\ DOMAIN u = 1 .. Len(mFetches) - 1
        /\ Len(mFetches) \in Nat /\ DOMAIN mFetches = 1 .. Len(mFetches)
        /\ \A k \in 1 .. Len(mFetches) - 1 : u[k] = IF k < i THEN mFetches[k] ELSE mFetches[k + 1]
        /\ \A k \in DOMAIN mFetches : k # i => \E j \in DOMAIN u : u[j] = mFetches[k]
    BY ListRemoved DEF QuestionInv
  <1>3. Ends(f) => job.phase = "refresh"
    BY DEF QuestionInv
  <1>4. mLoading => \E k \in DOMAIN mFetches : mFetches[k].alive
    BY DEF QuestionInv
  <1> HIDE DEF u
  <1> DEFINE At(k) == IF k < i THEN k ELSE k + 1
  <1>5. \A k \in DOMAIN u : At(k) \in DOMAIN mFetches /\ At(k) # i /\ u[k] = mFetches[At(k)]
    BY <1>2
  <1>6. \A k, l \in DOMAIN u : At(k) = At(l) => k = l
    BY <1>2
  <1> HIDE DEF At
  <1>7. \A k \in DOMAIN u :
          /\ u[k] = [x \in {"source", "signature", "alive", "last"} |-> u[k][x]]
          /\ u[k].source \in M!Sources
          /\ Ends(u[k]) => job.phase = "refresh" /\ ~Ends(f)
    <2> TAKE k \in DOMAIN u
    <2>1. At(k) \in DOMAIN mFetches /\ At(k) # i /\ u[k] = mFetches[At(k)]
      BY <1>5
    <2> DEFINE g == mFetches[At(k)]
    <2>2. /\ g = [x \in {"source", "signature", "alive", "last"} |-> g[x]] /\ g.source \in M!Sources
          /\ Ends(g) => job.phase = "refresh" /\ ~Ends(f)
      BY <2>1 DEF QuestionInv
    <2> HIDE DEF g
    <2>3. u[k] = g
      BY <2>1 DEF g
    <2> QED BY <2>2, <2>3, Zenon
  <1>8. \A k, l \in DOMAIN u : Ends(u[k]) /\ Ends(u[l]) => k = l
    <2> TAKE k, l \in DOMAIN u
    <2>1. At(k) \in DOMAIN mFetches /\ u[k] = mFetches[At(k)] /\ At(l) \in DOMAIN mFetches /\ u[l] = mFetches[At(l)]
      BY <1>5
    <2>2. Ends(mFetches[At(k)]) /\ Ends(mFetches[At(l)]) => At(k) = At(l)
      BY <2>1 DEF QuestionInv
    <2> QED BY <1>6, <2>1, <2>2
  <1>9. mLoading' => \E k \in DOMAIN u : u[k].alive
    <2> SUFFICES ASSUME mLoading' PROVE \E k \in DOMAIN u : u[k].alive
      OBVIOUS
    <2>1. PICK k \in DOMAIN mFetches : mFetches[k].alive /\ k # i
      BY <1>1, <1>4
    <2>2. PICK j \in DOMAIN u : u[j] = mFetches[k]
      BY <1>2, <2>1
    <2> QED BY <2>1, <2>2
  <1>10. /\ IsList(mFetches')
         /\ \A k \in DOMAIN mFetches' :
              /\ mFetches'[k] = [x \in {"source", "signature", "alive", "last"} |-> mFetches'[k][x]]
              /\ mFetches'[k].source \in M!Sources
         /\ \A k, l \in DOMAIN mFetches' : Ends(mFetches'[k]) /\ Ends(mFetches'[l]) => k = l
         /\ mLoading' => \E k \in DOMAIN mFetches' : mFetches'[k].alive
    BY <1>1, <1>2, <1>7, <1>8, <1>9
  <1>11. CASE Ends(f)
    <2>1. /\ job' = M!NoJob /\ ~isConfirming' /\ ~isRestoring'
          /\ \A k \in DOMAIN mFetches' : ~Ends(mFetches'[k])
      BY <1>1, <1>3, <1>7, <1>11 DEF QuestionInv
    <2>2. job' = [x \in {"of", "deps", "alive", "phase"} |-> job'[x]] /\ job'.phase = "idle"
      BY <2>1 DEF M!NoJob
    <2> QED BY <1>1, <1>10, <2>1, <2>2 DEF QuestionInv
  <1>12. CASE ~Ends(f)
    <2>1. job' = job /\ (isConfirming' <=> isConfirming)
      BY <1>1, <1>12
    <2>2. \A k \in DOMAIN mFetches' : Ends(mFetches'[k]) => job.phase = "refresh"
      BY <1>1, <1>7
    <2> QED BY <1>1, <1>10, <2>1, <2>2 DEF QuestionInv
  <1> QED BY <1>11, <1>12

\* The answer to a job, which is over or reads the list first.
LEMMA QuestionAnswered == QuestionInv /\ (M!Deleted \/ M!Restored \/ M!ConfirmFailed) => QuestionInv'
  <1> SUFFICES ASSUME QuestionInv, M!Deleted \/ M!Restored \/ M!ConfirmFailed PROVE QuestionInv'
    OBVIOUS
  <1>1. /\ job.phase = "call" /\ job.alive /\ job.deps[2] \in M!Sources
        /\ job = [x \in {"of", "deps", "alive", "phase"} |-> job[x]]
        /\ mPending # M!Nothing /\ mOpen /\ historyOpen
        /\ UNCHANGED <<source, mOpen, historyOpen>>
        /\ mPending' \in {mPending, M!Nothing}
    BY DEF M!Deleted, M!Restored, M!ConfirmFailed, M!Cleared, M!main, M!shown, QuestionInv
  <1>2. \A k \in DOMAIN mFetches : ~Ends(mFetches[k])
    BY <1>1 DEF QuestionInv
  <1>3. ASSUME M!Finally, UNCHANGED <<mFetches, mLoading>> PROVE QuestionInv'
    <2>1. job' = M!NoJob /\ ~isConfirming' /\ ~isRestoring'
      BY <1>1, <1>3 DEF M!Finally
    <2>2. job' = [x \in {"of", "deps", "alive", "phase"} |-> job'[x]] /\ job'.phase = "idle"
      BY <2>1 DEF M!NoJob
    <2> QED BY <1>1, <1>2, <1>3, <2>1, <2>2 DEF QuestionInv
  <1>4. CASE M!Restored \/ M!ConfirmFailed
    BY <1>3, <1>4 DEF M!Restored, M!ConfirmFailed
  <1>5. CASE M!Deleted
    <2> DEFINE d == job.deps
    <2>1. d[2] \in M!Sources
      BY <1>1
    <2>2. M!FetchRows(d, FALSE, TRUE)
      BY <1>5 DEF M!Deleted
    <2> HIDE DEF d
    <2>3. \/ UNCHANGED <<mFetches, mLoading>>
          \/ /\ IsList(mFetches') /\ mFetches' # mFetches
             /\ \A k \in DOMAIN mFetches' :
                  /\ mFetches'[k] = [x \in {"source", "signature", "alive", "last"} |-> mFetches'[k][x]]
                  /\ mFetches'[k].source \in M!Sources
             /\ mLoading' => \E k \in DOMAIN mFetches' : mFetches'[k].alive
             /\ \A k \in DOMAIN mFetches' : Ends(mFetches'[k]) => TRUE \/ job.phase = "refresh"
             /\ \A k, l \in DOMAIN mFetches' : Ends(mFetches'[k]) /\ Ends(mFetches'[l]) => k = l
      BY <1>1, <2>1, <2>2, ListRead
    <2>4. CASE mFetches' = mFetches
      BY <1>3, <1>5, <2>3, <2>4 DEF M!Deleted
    <2>5. CASE mFetches' # mFetches
      <3>1. /\ job' = [job EXCEPT !.phase = "refresh"] /\ isConfirming' = isConfirming /\ isRestoring' = isRestoring
            /\ mPending' = M!Nothing /\ ~isRestoring
        BY <1>1, <1>5, <2>5 DEF M!Deleted, M!Cleared, QuestionInv
      <3>2. /\ job' = [x \in {"of", "deps", "alive", "phase"} |-> job'[x]]
            /\ job'.phase = "refresh" /\ job'.alive
        BY <1>1, <3>1
      <3> QED BY <1>1, <2>3, <2>5, <3>1, <3>2 DEF QuestionInv
    <2> QED BY <2>4, <2>5
  <1> QED BY <1>4, <1>5


LEMMA QuestionStep == QuestionInv /\ [M!Next]_(M!vars) => QuestionInv'
  <1> SUFFICES ASSUME QuestionInv, [M!Next]_(M!vars) PROVE QuestionInv'
    OBVIOUS
  <1>1. ASSUME UNCHANGED Asked PROVE QuestionInv'
    BY <1>1 DEF Asked, QuestionInv
  <1>2. CASE M!Open \/ \E s \in M!Sources : M!OpenHistory(s)
    <2>1. /\ mOpen' /\ (mOpen /\ historyOpen => historyOpen') /\ source' \in M!Sources
          /\ UNCHANGED <<mFetches, job, mPending, isConfirming, isRestoring, mLoading>>
      BY <1>2 DEF M!Open, M!OpenHistory, M!ShowHistory, M!OnMain, M!shown, M!history, M!calls, M!main, QuestionInv
    <2> QED BY <2>1 DEF QuestionInv
  <1>3. CASE M!Imported
    <2>1. /\ (historyOpen => historyOpen') /\ source' \in M!Sources
          /\ UNCHANGED <<mFetches, job, mPending, isConfirming, isRestoring, mLoading, mOpen>>
      BY <1>3 DEF M!Imported, M!ShowHistory, M!Sources, M!shown, M!history, M!calls, QuestionInv
    <2> QED BY <2>1 DEF QuestionInv
  <1>4. CASE \E i \in DOMAIN serverCalls : M!ServerSaved(i) \/ M!ServerBackedUp(i) \/ M!Refreshed(i)
    <2>1. /\ (historyOpen => historyOpen') /\ source' \in M!Sources
          /\ UNCHANGED <<mFetches, job, mPending, isConfirming, isRestoring, mLoading, mOpen>>
      BY <1>4 DEF M!ServerSaved, M!ServerBackedUp, M!Refreshed, M!ShowHistory, M!Sources, M!shown,
                  M!history, M!calls, QuestionInv
    <2> QED BY <2>1 DEF QuestionInv
  <1>5. CASE \E s \in M!Sources : M!HandleBackup(s)
    BY <1>1, <1>5 DEF Asked, M!HandleBackup, M!shown, M!history, M!calls
  <1>6. CASE \E s \in M!Sources : M!ChangeSource(s)
    <2>1. /\ source' \in M!Sources
          /\ UNCHANGED <<mFetches, job, mPending, mOpen, historyOpen, isConfirming, isRestoring, mLoading>>
      BY <1>6 DEF M!ChangeSource, M!main, M!history, M!calls
    <2> QED BY <2>1 DEF QuestionInv
  <1>7. CASE M!BackedUp \/ M!HandleImport \/ M!FileChosen
    BY <1>1, <1>7 DEF Asked, M!BackedUp, M!HandleImport, M!FileChosen, M!shown, M!history, M!calls
  <1>8. CASE M!HistoryEffect
    <2>1. CASE mOpen
      BY <1>8, <2>1, ListReadStep DEF M!HistoryEffect, M!main, M!shown
    <2> QED BY <1>1, <1>8, <2>1 DEF Asked, M!HistoryEffect, M!main, M!shown
  <1>9. CASE \E i \in DOMAIN mFetches : M!Fetched(i)
    BY <1>9, ListAnswered
  <1>10. CASE M!HandleRefresh
    BY <1>10, ListReadStep DEF M!HandleRefresh, M!OnHistory, M!main, M!shown
  <1>11. CASE M!CloseHistory
    <2>1. /\ mPending = M!Nothing
          /\ UNCHANGED <<mFetches, source, job, mPending, mOpen, isConfirming, isRestoring, mLoading>>
      BY <1>11 DEF M!CloseHistory, M!OnHistory, M!main, M!history, M!calls
    <2> QED BY <2>1 DEF QuestionInv
  <1>12. CASE M!ChangePage
    BY <1>1, <1>12 DEF Asked, M!ChangePage, M!main, M!history, M!calls
  <1>13. CASE M!HandleDelete \/ M!HandleRestore
    <2>1. /\ mOpen /\ historyOpen /\ ~isConfirming
          /\ UNCHANGED <<mFetches, source, job, mOpen, historyOpen, isConfirming, isRestoring, mLoading>>
      BY <1>13 DEF M!HandleDelete, M!HandleRestore, M!Ask, M!OnHistory, M!IsBusy, M!main, M!shown, M!calls
    <2>2. job.phase # "call"
      BY <2>1 DEF QuestionInv
    <2> QED BY <2>1, <2>2 DEF QuestionInv
  <1>14. CASE M!CloseConfirmDialog
    <2>1. /\ ~isConfirming /\ mPending' = M!Nothing
          /\ UNCHANGED <<mFetches, source, job, mOpen, historyOpen, isConfirming, isRestoring, mLoading>>
      BY <1>14 DEF M!CloseConfirmDialog, M!main, M!shown, M!calls
    <2>2. job.phase # "call"
      BY <2>1 DEF QuestionInv
    <2> QED BY <2>1, <2>2 DEF QuestionInv
  <1>15. CASE M!HandleConfirmAction
    <2>1. /\ mPending # M!Nothing /\ job.phase = "idle" /\ mOpen /\ historyOpen
          /\ job' = [of |-> mPending, deps |-> M!Deps, alive |-> TRUE, phase |-> "call"]
          /\ isConfirming' = TRUE /\ isRestoring' = (isRestoring \/ mPending.action = "restore")
          /\ UNCHANGED <<mFetches, source, mPending, mOpen, historyOpen, mLoading>>
      BY <1>15 DEF M!HandleConfirmAction, M!main, M!shown, QuestionInv
    <2> DEFINE d == M!Deps
    <2>2. d[2] \in M!Sources
      BY <2>1 DEF M!Deps, QuestionInv
    <2> HIDE DEF d
    <2>3. job' = [of |-> mPending, deps |-> d, alive |-> TRUE, phase |-> "call"]
      BY <2>1 DEF d
    <2>4. /\ job' = [x \in {"of", "deps", "alive", "phase"} |-> job'[x]]
          /\ job'.phase = "call" /\ job'.alive /\ job'.of = mPending /\ job'.deps = d
      BY <2>3
    <2>5. isRestoring' => mPending.action = "restore"
      BY <2>1 DEF QuestionInv
    <2>6. \A k \in DOMAIN mFetches : ~Ends(mFetches[k])
      BY <2>1 DEF QuestionInv
    <2> QED BY <2>1, <2>2, <2>4, <2>5, <2>6 DEF QuestionInv
  <1>16. CASE M!Deleted \/ M!Restored \/ M!ConfirmFailed
    BY <1>16, QuestionAnswered
  <1>17. CASE \E i \in DOMAIN restarts : M!Restart(i)
    BY <1>1, <1>17 DEF Asked, M!Restart, M!main, M!shown
  <1>18. CASE M!OpenServer \/ M!CloseServer \/ M!EditServer \/ M!ServerEffect
    BY <1>1, <1>18 DEF Asked, M!OpenServer, M!CloseServer, M!EditServer, M!ServerEffect, M!main, M!shown,
                       M!history, M!calls
  <1>19. CASE M!SaveServer \/ M!BackupOnServer \/ M!RefreshServer
    <2>1. PICK is, then : M!ServerClick(is, then)
      BY <1>19, Zenon DEF M!SaveServer, M!BackupOnServer, M!RefreshServer
    <2> QED BY <2>1, <1>1 DEF Asked, M!ServerClick, M!shown, M!history, M!calls
  <1>20. CASE M!Close
    <2>1. /\ ~historyOpen /\ mPending = M!Nothing
          /\ mPending' = M!Nothing /\ ~isConfirming' /\ ~isRestoring' /\ ~mLoading' /\ source' = source
          /\ mFetches' = [k \in DOMAIN mFetches |-> [mFetches[k] EXCEPT !.alive = FALSE]]
          /\ job' = IF job.phase = "refresh" THEN M!NoJob ELSE [job EXCEPT !.alive = FALSE]
      BY <1>20 DEF M!Close, M!OnMain, M!shown, QuestionInv
    <2>2. /\ job.phase \in {"idle", "refresh"}
          /\ job = [x \in {"of", "deps", "alive", "phase"} |-> job[x]]
      BY <2>1 DEF QuestionInv
    <2>3. job' = [x \in {"of", "deps", "alive", "phase"} |-> job'[x]] /\ job'.phase = "idle"
      BY <2>1, <2>2 DEF M!NoJob
    <2>4. \A k \in DOMAIN mFetches :
            /\ mFetches[k] = [x \in {"source", "signature", "alive", "last"} |-> mFetches[k][x]]
            /\ mFetches[k].source \in M!Sources
      BY DEF QuestionInv
    <2>5. \A k \in DOMAIN mFetches :
            /\ mFetches'[k] = [x \in {"source", "signature", "alive", "last"} |-> mFetches'[k][x]]
            /\ mFetches'[k].source \in M!Sources /\ ~mFetches'[k].alive
      BY <2>1, <2>4
    <2>6. mFetches' = [k \in DOMAIN mFetches |-> mFetches'[k]]
      BY <2>1
    <2>7. IsList(mFetches') /\ DOMAIN mFetches' = DOMAIN mFetches
      BY <2>6, ListMapped DEF QuestionInv
    <2>8. \A k \in DOMAIN mFetches' : ~Ends(mFetches'[k])
      BY <2>5, <2>7 DEF Ends
    <2>9. source' \in M!Sources
      BY <2>1 DEF QuestionInv
    <2> QED BY <2>1, <2>3, <2>5, <2>7, <2>8, <2>9 DEF QuestionInv
  <1>21. CASE UNCHANGED M!vars
    BY <1>21, <1>1 DEF Asked, M!vars, M!main, M!shown, M!history, M!calls
  <1> QED BY <1>2, <1>3, <1>4, <1>5, <1>6, <1>7, <1>8, <1>9, <1>10, <1>11, <1>12, <1>13, <1>14,
             <1>15, <1>16, <1>17, <1>18, <1>19, <1>20, <1>21, Zenon DEF M!Next


\* The rows are a list, and so are those of any finite set of backups.
IsRows(r) == \E n \in Nat : r = [k \in 1 .. n |-> r[k]]
RowsInv ==
    /\ page \in Nat /\ IsRows(rows)
    /\ files = [s \in M!Sources |-> files[s]] /\ \A s \in M!Sources : IsFiniteSet(files[s])

LEMMA RowsLength ==
    ASSUME NEW n \in Nat, NEW r, r = [k \in 1 .. n |-> r[k]]
    PROVE  Len(r) = n /\ DOMAIN r = 1 .. n /\ (r # <<>> => n > 0)
  <1> DEFINE Els == {r[k] : k \in 1 .. n}
  <1>1. \A k \in 1 .. n : r[k] \in Els
    OBVIOUS
  <1> HIDE DEF Els
  <1>2. [k \in 1 .. n |-> r[k]] \in Seq(Els) /\ Len([k \in 1 .. n |-> r[k]]) = n
    BY <1>1
  <1>3. DOMAIN [k \in 1 .. n |-> r[k]] = 1 .. n
    OBVIOUS
  <1>4. r \in Seq(Els) /\ Len(r) = n /\ DOMAIN r = 1 .. n
    BY <1>2, <1>3, Zenon
  <1>5. n = 0 => r = <<>>
    BY <1>4, EmptySeq
  <1> QED BY <1>4, <1>5

LEMMA Division ==
    ASSUME NEW a \in Nat, NEW p \in Nat \ {0}
    PROVE  a \div p \in Nat /\ (a \div p) * p <= a /\ a < (a \div p) * p + p
  OBVIOUS

\* The page that is shown begins with a row, when there is one.
LEMMA PageBegins ==
    ASSUME RowsInv
    PROVE  /\ M!CurrentPage \in Nat
           /\ rows # <<>> => M!CurrentPage * BackupPage + 1 \in DOMAIN rows
  <1> DEFINE c == M!CurrentPage
             full == (Len(rows) + BackupPage - 1) \div BackupPage
  <1>1. PICK n \in Nat : rows = [k \in 1 .. n |-> rows[k]]
    BY DEF RowsInv, IsRows
  <1>2. Len(rows) = n /\ DOMAIN rows = 1 .. n /\ (rows # <<>> => n > 0) /\ page \in Nat
        /\ BackupPage \in Nat \ {0}
    BY <1>1, RowsLength, BackupAssumption DEF RowsInv
  <1>3. n + BackupPage - 1 \in Nat
    BY <1>2
  <1>4. full \in Nat /\ full * BackupPage <= n + BackupPage - 1 /\ n + BackupPage - 1 < full * BackupPage + BackupPage
    BY <1>2, <1>3, Division
  <1>5. c = IF page < M!PageCount THEN page ELSE M!PageCount - 1
    BY DEF M!CurrentPage
  <1>6. M!PageCount = IF full = 0 THEN 1 ELSE full
    BY DEF M!PageCount
  <1> HIDE DEF c, full
  <1>7. M!PageCount \in Nat \ {0}
    BY <1>4, <1>6
  <1>8. c \in Nat /\ c <= M!PageCount - 1
    BY <1>2, <1>5, <1>7
  <1>9. ASSUME n > 0 PROVE c * BackupPage + 1 \in DOMAIN rows
    <2>1. full # 0
      BY <1>2, <1>4, <1>9
    <2>2. c + 1 <= full
      BY <1>4, <1>6, <1>8, <2>1
    <2>3. (c + 1) * BackupPage <= full * BackupPage
      BY <1>2, <1>4, <1>8, <2>2
    <2>4. (c + 1) * BackupPage = c * BackupPage + BackupPage /\ c * BackupPage \in Nat
      BY <1>2, <1>8
    <2>5. full * BackupPage \in Nat
      BY <1>2, <1>4
    <2> DEFINE x == c * BackupPage
               y == full * BackupPage
    <2> HIDE DEF x, y
    <2>6. x \in Nat /\ y \in Nat /\ x + BackupPage <= y /\ y <= n + BackupPage - 1
      BY <1>4, <2>3, <2>4, <2>5 DEF x, y
    <2>7. x + 1 \in 1 .. n
      BY <1>2, <2>6
    <2> QED BY <1>2, <2>7 DEF x
  <1> QED BY <1>2, <1>8, <1>9 DEF c

LEMMA BuiltRows ==
    ASSUME NEW list, IsFiniteSet(list)
    PROVE  IsRows(M!BuildRows(list))
  <1>1. M!Cardinality(list) = Cardinality(list)
    BY Zenon DEF M!Cardinality, Cardinality
  <1>2. Cardinality(list) \in Nat
    BY FS_CardinalityType
  <1> DEFINE n == Cardinality(list)
  <1> HIDE DEF n
  <1>3. n \in Nat /\ M!Cardinality(list) = n
    BY <1>1, <1>2 DEF n
  <1>4. M!BuildRows(list) = [k \in 1 .. n |-> M!BuildRows(list)[k]]
    BY <1>3 DEF M!BuildRows
  <1> QED BY <1>3, <1>4 DEF IsRows

LEMMA NoRowsAtAll == IsRows(M!NoRows)
  <1>1. M!NoRows = [k \in 1 .. 0 |-> M!NoRows[k]]
    BY NoCalls DEF M!NoRows
  <1> QED BY <1>1 DEF IsRows

\* Backups come and go one by one.
LEMMA BackupMade ==
    ASSUME RowsInv, NEW s, M!Created(s)
    PROVE  files' = [r \in M!Sources |-> files'[r]] /\ \A r \in M!Sources : IsFiniteSet(files'[r])
  <1>1. /\ files = [r \in M!Sources |-> files[r]]
        /\ \A r \in M!Sources : IsFiniteSet(files[r])
    BY DEF RowsInv
  <1>2. PICK f : files' = files \/ files' = [files EXCEPT ![s] = @ \cup {f}]
    BY Zenon DEF M!Created
  <1>3. \A r \in M!Sources : IsFiniteSet(files[r] \cup {f})
    BY <1>1, FS_AddElement
  <1> QED BY <1>1, <1>2, <1>3

LEMMA BackupDeleted ==
    ASSUME RowsInv, NEW s, NEW f, files' = [files EXCEPT ![s] = @ \ {f}]
    PROVE  files' = [r \in M!Sources |-> files'[r]] /\ \A r \in M!Sources : IsFiniteSet(files'[r])
  <1>1. /\ files = [r \in M!Sources |-> files[r]]
        /\ \A r \in M!Sources : IsFiniteSet(files[r])
    BY DEF RowsInv
  <1>2. \A r \in M!Sources : IsFiniteSet(files[r] \ {f})
    BY <1>1, FS_RemoveElement
  <1> QED BY <1>1, <1>2

LEMMA RowsRead ==
    ASSUME NEW d, NEW force, NEW last, M!FetchRows(d, force, last)
    PROVE  rows' \in {rows, M!NoRows}
  BY DEF M!FetchRows


LEMMA PageStep == QuestionInv /\ RowsInv /\ [M!Next]_(M!vars) => RowsInv'
  <1> SUFFICES ASSUME QuestionInv, RowsInv, [M!Next]_(M!vars) PROVE RowsInv'
    OBVIOUS
  <1>1. ASSUME UNCHANGED <<page, rows, files>> PROVE RowsInv'
    BY <1>1 DEF RowsInv
  <1>2. ASSUME rows' \in {rows, M!NoRows}, UNCHANGED <<page, files>> PROVE RowsInv'
    <2>1. IsRows(rows')
      BY <1>2, NoRowsAtAll DEF RowsInv
    <2> QED BY <1>2, <2>1 DEF RowsInv
  <1>3. ASSUME page' \in Nat, UNCHANGED <<rows, files>> PROVE RowsInv'
    BY <1>3 DEF RowsInv
  <1>4. ASSUME NEW s, UNCHANGED files \/ M!Created(s), page' \in {page, 0}, UNCHANGED rows PROVE RowsInv'
    <2>1. files' = [r \in M!Sources |-> files'[r]] /\ \A r \in M!Sources : IsFiniteSet(files'[r])
      BY <1>4, BackupMade DEF RowsInv
    <2> QED BY <1>4, <2>1 DEF RowsInv
  <1>5. CASE M!Open \/ (\E s \in M!Sources : M!HandleBackup(s)) \/ M!HandleImport \/ M!FileChosen
    BY <1>1, <1>5 DEF M!Open, M!HandleBackup, M!HandleImport, M!FileChosen, M!back, M!shown, M!history
  <1>6. CASE \E s \in M!Sources : M!OpenHistory(s) \/ M!ChangeSource(s)
    BY <1>3, <1>6 DEF M!OpenHistory, M!ChangeSource, M!ShowHistory, M!back, M!history
  <1>7. CASE M!Close
    BY <1>2, <1>7 DEF M!Close, M!back, M!shown
  <1>8. CASE M!BackedUp
    BY <1>4, <1>8, Zenon DEF M!BackedUp, M!shown, M!history
  <1>9. CASE M!Imported
    <2>1. UNCHANGED files \/ M!Created("local")
      BY <1>9 DEF M!Imported
    <2>2. page' \in {page, 0} /\ UNCHANGED rows
      BY <1>9 DEF M!Imported, M!ShowHistory, M!shown, M!history
    <2> QED BY <1>4, <2>1, <2>2
  <1>10. CASE M!HistoryEffect
    <2>1. rows' \in {rows, M!NoRows} /\ UNCHANGED <<page, files>>
      BY <1>10 DEF M!HistoryEffect, M!FetchRows, M!back, M!shown
    <2> QED BY <1>2, <2>1
  <1>11. ASSUME NEW i \in DOMAIN mFetches, M!Fetched(i) PROVE RowsInv'
    <2>1. mFetches[i].source \in M!Sources
      BY <1>11 DEF QuestionInv
    <2> DEFINE list == files[mFetches[i].source]
    <2>2. IsFiniteSet(list)
      BY <2>1 DEF RowsInv
    <2>3. rows' \in {rows, M!NoRows, M!BuildRows(list)} /\ UNCHANGED <<page, files>>
      BY <1>11 DEF M!Fetched, M!back, M!shown
    <2> HIDE DEF list
    <2>4. IsRows(rows')
      BY <2>2, <2>3, BuiltRows, NoRowsAtAll DEF RowsInv
    <2> QED BY <2>3, <2>4 DEF RowsInv
  <1>12. CASE M!HandleRefresh
    <2>1. rows' \in {rows, M!NoRows} /\ UNCHANGED <<page, files>>
      BY <1>12 DEF M!HandleRefresh, M!FetchRows, M!back, M!shown
    <2> QED BY <1>2, <2>1
  <1>13. CASE M!CloseHistory \/ M!HandleDelete \/ M!HandleRestore \/ M!CloseConfirmDialog \/ M!HandleConfirmAction
    BY <1>1, <1>13 DEF M!CloseHistory, M!HandleDelete, M!HandleRestore, M!Ask, M!CloseConfirmDialog,
                       M!HandleConfirmAction, M!back, M!shown, M!history
  <1>14. CASE M!ChangePage
    <2>1. /\ (M!CurrentPage > 0 /\ page' = M!CurrentPage - 1) \/ page' = M!CurrentPage + 1
          /\ UNCHANGED <<rows, files>>
      BY <1>14 DEF M!ChangePage, M!back, M!history
    <2>2. page' \in Nat
      BY <2>1, PageBegins
    <2> QED BY <1>3, <2>1, <2>2
  <1>15. CASE M!Deleted
    <2>1. PICK s, f : files' = [files EXCEPT ![s] = @ \ {f}]
      BY <1>15, Zenon DEF M!Deleted
    <2>2. files' = [r \in M!Sources |-> files'[r]] /\ \A r \in M!Sources : IsFiniteSet(files'[r])
      BY <2>1, BackupDeleted
    <2>3. rows' \in {rows, M!NoRows} /\ UNCHANGED page
      BY <1>15, RowsRead DEF M!Deleted, M!shown
    <2>4. IsRows(rows')
      BY <2>3, NoRowsAtAll DEF RowsInv
    <2> QED BY <2>2, <2>3, <2>4 DEF RowsInv
  <1>16. CASE M!Restored \/ M!ConfirmFailed \/ \E i \in DOMAIN restarts : M!Restart(i)
    BY <1>1, <1>16 DEF M!Restored, M!ConfirmFailed, M!Restart, M!back, M!shown
  <1>17. CASE M!OpenServer \/ M!CloseServer \/ M!EditServer \/ M!ServerEffect
    BY <1>1, <1>17 DEF M!OpenServer, M!CloseServer, M!EditServer, M!ServerEffect, M!back, M!shown, M!history
  <1>18. CASE M!SaveServer \/ M!BackupOnServer \/ M!RefreshServer
    <2>1. PICK is, then : M!ServerClick(is, then)
      BY <1>18, Zenon DEF M!SaveServer, M!BackupOnServer, M!RefreshServer
    <2> QED BY <2>1, <1>1 DEF M!ServerClick, M!back, M!shown, M!history
  <1>19. ASSUME NEW i \in DOMAIN serverCalls, M!ServerSaved(i) PROVE RowsInv'
    BY <1>1, <1>19 DEF M!ServerSaved, M!shown, M!history
  <1>20. ASSUME NEW i \in DOMAIN serverCalls, M!ServerBackedUp(i) PROVE RowsInv'
    <2>1. UNCHANGED files \/ M!Created("webdav")
      BY <1>20 DEF M!ServerBackedUp
    <2>2. UNCHANGED <<page, rows>>
      BY <1>20 DEF M!ServerBackedUp, M!shown, M!history
    <2> QED BY <1>4, <2>1, <2>2
  <1>21. ASSUME NEW i \in DOMAIN serverCalls, M!Refreshed(i) PROVE RowsInv'
    <2>1. page' \in {page, 0} /\ UNCHANGED <<rows, files>>
      BY <1>21 DEF M!Refreshed, M!ShowHistory, M!back, M!shown, M!history
    <2> QED BY <1>4, <2>1
  <1>22. CASE UNCHANGED M!vars
    BY <1>22, <1>1 DEF M!vars, M!back, M!shown, M!history
  <1> QED BY <1>5, <1>6, <1>7, <1>8, <1>9, <1>10, <1>11, <1>12, <1>13, <1>14, <1>15, <1>16, <1>17,
             <1>18, <1>19, <1>20, <1>21, <1>22, Zenon DEF M!Next

BackupsInv == ServerInv /\ RestartInv /\ QuestionInv /\ RowsInv

LEMMA BackupsInit == M!Init => BackupsInv
  <1> SUFFICES ASSUME M!Init PROVE BackupsInv
    OBVIOUS
  <1>1. ServerInv
    BY EmptyList DEF M!Init, ServerInv
  <1>2. RestartInv
    BY EmptyList DEF M!Init, RestartInv
  <1>3. QuestionInv
    <2>1. IsList(mFetches) /\ DOMAIN mFetches = {}
      BY EmptyList DEF M!Init
    <2>2. /\ job = [x \in {"of", "deps", "alive", "phase"} |-> job[x]] /\ job.phase = "idle"
      BY DEF M!Init, M!NoJob
    <2> QED BY <2>1, <2>2 DEF M!Init, M!Sources, QuestionInv
  <1>4. RowsInv
    <2>1. files \in [M!Sources -> {1 .. 2, 1 .. 3}] /\ page = 0 /\ rows = M!NoRows
      BY DEF M!Init
    <2>2. IsFiniteSet(1 .. 2) /\ IsFiniteSet(1 .. 3)
      <3>1. 1 \in Int /\ 2 \in Int /\ 3 \in Int
        OBVIOUS
      <3>2. \A a, b \in Int : IsFiniteSet(a .. b)
        BY FS_Interval
      <3> QED BY <3>1, <3>2, Zenon
    <2> QED BY <2>1, <2>2, NoRowsAtAll DEF RowsInv
  <1> QED BY <1>1, <1>2, <1>3, <1>4 DEF BackupsInv

\* What the user agrees to is what is asked and done, a page that is shown has rows,
\* and no mark of the dialogs of the backups outlives what it is for, whatever fails, is
\* closed or overlaps (backup-viewer.tsx:76, backup-history-viewer.tsx:178, 191, 222).
THEOREM BackupsConfirmedHolds == SettingsSpec => []BackupsConfirmed
  <1>1. SettingsStart => BackupsInv
    BY BackupsInit DEF SettingsStart
  <1>2. BackupsInv /\ [SettingsStep]_<<part, settings>> => BackupsInv'
    <2>1. [SettingsStep]_<<part, settings>> => M!Next \/ UNCHANGED Mvars
      BY DEF SettingsStep, DialogStep, HomeStep, settings, dialogs
    <2>2. UNCHANGED Mvars => UNCHANGED M!vars
      BY DEF Mvars, M!vars, M!back, M!main, M!shown, M!history, M!calls, M!server
    <2> QED BY <2>1, <2>2, ServerStep, RestartStep, QuestionStep, PageStep DEF BackupsInv
  <1>3. BackupsInv => BackupsConfirmed
    <2> SUFFICES ASSUME BackupsInv PROVE M!BusyEnds /\ M!ConfirmedOnly /\ M!PageFilled
      BY DEF BackupsConfirmed
    <2>1. serverCalls = <<>> => DOMAIN serverCalls = {}
      BY NoCalls
    <2>2. M!BusyEnds
      BY <2>1 DEF BackupsInv, ServerInv, RestartInv, QuestionInv, M!BusyEnds
    <2>3. M!ConfirmedOnly
      BY DEF BackupsInv, QuestionInv, M!ConfirmedOnly
    <2>4. M!PageFilled
      <3> DEFINE x == M!CurrentPage * BackupPage
      <3>1. M!CurrentPage \in Nat /\ BackupPage \in Nat \ {0} /\ (rows # <<>> => x + 1 \in DOMAIN rows)
        BY PageBegins, BackupAssumption DEF BackupsInv
      <3>2. x \in Nat
        BY <3>1
      <3>3. M!PagedRows = {k \in DOMAIN rows : x < k /\ k <= x + BackupPage}
        BY DEF M!PagedRows
      <3> HIDE DEF x
      <3>4. ASSUME rows # <<>> PROVE x + 1 \in M!PagedRows
        BY <3>1, <3>2, <3>3, <3>4
      <3> QED BY <3>4 DEF M!PageFilled, M!NoRows
    <2> QED BY <2>2, <2>3, <2>4
  <1> QED BY <1>1, <1>2, <1>3, PTL DEF SettingsSpec

-----------------------------------------------------------------------------
(* The list of the tests.                                                  *)

\* The entries: what is tested, and the listeners.
EntriesInv ==
    /\ jDelay = [u \in J!Uids |-> jDelay[u]] /\ jTests \in [J!Uids -> Nat]
    /\ \A l \in jListeners : l = [k \in {"uid", "url", "at", "own"} |-> l[k]]
    /\ J!TestsEnd

LEMMA EntriesRender ==
    ASSUME EntriesInv, J!Render
    PROVE  EntriesInv'
  <1>1. jDelay' = [u \in J!Uids |-> jDelay'[u]] /\ jTests' \in [J!Uids -> Nat]
    BY DEF J!Render, EntriesInv, J!Uids
  <1>2. \A u \in J!Uids : jDelay'[u] = "testing" => jTests'[u] > 0
    BY DEF J!Render, EntriesInv, J!TestsEnd
  <1>3. jListeners' = J!Registered
    BY DEF J!Render
  <1>4. \A l \in jListeners' : l = [k \in {"uid", "url", "at", "own"} |-> l[k]]
    BY <1>3 DEF J!Registered, J!Stay, EntriesInv
  <1>5. ASSUME NEW e \in J!Items' PROVE \E l \in jListeners' : l.own /\ l.uid = e.uid /\ l.url = e.url
    <2>1. CASE e \in J!Items
      <3>1. PICK l \in jListeners : l.own /\ l.uid = e.uid /\ l.url = e.url
        BY <2>1 DEF EntriesInv, J!TestsEnd
      <3>2. l \in J!Stay /\ J!Same(l)
        BY <1>5, <2>1, <3>1 DEF J!Stay, J!Same, J!Shown
      <3> QED BY <1>3, <3>1, <3>2 DEF J!Registered
    <2>2. CASE e \notin J!Items
      <3> DEFINE new == [uid |-> e.uid, url |-> e.url, at |-> "asked", own |-> TRUE]
      <3>1. new \in jListeners'
        BY <1>3, <1>5, <2>2 DEF J!Registered
      <3> QED BY <3>1
    <2> QED BY <2>1, <2>2
  <1> QED BY <1>1, <1>2, <1>4, <1>5 DEF EntriesInv, J!TestsEnd, J!Uids

LEMMA EntriesSame ==
    ASSUME EntriesInv, UNCHANGED <<jSeen, jMounted, jListeners>>,
           jDelay' = [u \in J!Uids |-> jDelay'[u]], jTests' \in [J!Uids -> Nat],
           \A u \in J!Uids : jDelay'[u] = "testing" => jTests'[u] > 0
    PROVE  EntriesInv'
  BY DEF EntriesInv, J!TestsEnd, J!Items, J!Rows, J!Uids

LEMMA EntriesStep == EntriesInv /\ [J!Next]_(J!vars) => EntriesInv'
  <1> SUFFICES ASSUME EntriesInv, [J!Next]_(J!vars) PROVE EntriesInv'
    OBVIOUS
  <1>1. ASSUME UNCHANGED <<jSeen, jMounted, jDelay, jTests, jListeners>> PROVE EntriesInv'
    BY <1>1 DEF EntriesInv, J!TestsEnd, J!Items, J!Rows, J!Uids
  <1>2. ASSUME NEW l \in jListeners, J!Listen(l) PROVE EntriesInv'
    <2> DEFINE new == [l EXCEPT !.at = "live"]
    <2>1. new = [k \in {"uid", "url", "at", "own"} |-> new[k]] /\ new.uid = l.uid /\ new.url = l.url /\ new.own = l.own
      BY DEF EntriesInv
    <2>2. jListeners' = (jListeners \ {l}) \cup {new} /\ UNCHANGED <<jSeen, jMounted, jDelay, jTests>>
      BY <1>2 DEF J!Listen
    <2> HIDE DEF new
    <2>3. J!Items' = J!Items
      BY <2>2 DEF J!Items, J!Rows
    <2>4. \A e \in J!Items' : \E k \in jListeners' : k.own /\ k.uid = e.uid /\ k.url = e.url
      BY <2>1, <2>2, <2>3 DEF EntriesInv, J!TestsEnd
    <2> QED BY <2>1, <2>2, <2>4 DEF EntriesInv, J!TestsEnd, J!Uids
  <1>3. ASSUME NEW u \in J!Uids, J!OnDelay(u) PROVE EntriesInv'
    <2>1. /\ UNCHANGED <<jSeen, jMounted, jListeners>> /\ jDelay' = [jDelay EXCEPT ![u] = "testing"]
          /\ jTests' = [jTests EXCEPT ![u] = @ + 1]
      BY <1>3 DEF J!OnDelay
    <2>2. jDelay' = [v \in J!Uids |-> jDelay'[v]] /\ jTests' \in [J!Uids -> Nat]
          /\ \A v \in J!Uids : jDelay'[v] = "testing" => jTests'[v] > 0
      BY <2>1 DEF EntriesInv, J!TestsEnd
    <2> QED BY <2>1, <2>2, EntriesSame
  <1>4. ASSUME NEW u \in J!Uids, J!Result(u) PROVE EntriesInv'
    <2>1. /\ UNCHANGED <<jSeen, jMounted, jListeners>> /\ jDelay' = [jDelay EXCEPT ![u] = "result"]
          /\ jTests[u] > 0 /\ jTests' = [jTests EXCEPT ![u] = @ - 1]
      BY <1>4 DEF J!Result
    <2>2. jDelay' = [v \in J!Uids |-> jDelay'[v]] /\ jTests' \in [J!Uids -> Nat]
          /\ \A v \in J!Uids : jDelay'[v] = "testing" => jTests'[v] > 0
      BY <2>1 DEF EntriesInv, J!TestsEnd
    <2> QED BY <2>1, <2>2, EntriesSame
  <1>5. CASE J!TestAll
    <2>1. /\ UNCHANGED <<jSeen, jMounted, jListeners>>
          /\ jDelay' = [u \in J!Uids |-> IF J!Heard(u) > 0 THEN "testing" ELSE jDelay[u]]
          /\ jTests' = [u \in J!Uids |-> jTests[u] + J!Heard(u)]
      BY <1>5 DEF J!TestAll
    <2>2. \A u : J!Heard(u) \in Nat
      BY DEF J!Heard
    <2>3. jDelay' = [v \in J!Uids |-> jDelay'[v]] /\ jTests' \in [J!Uids -> Nat]
          /\ \A v \in J!Uids : jDelay'[v] = "testing" => jTests'[v] > 0
      BY <2>1, <2>2 DEF EntriesInv, J!TestsEnd
    <2> QED BY <2>1, <2>3, EntriesSame
  <1>6. ASSUME NEW c \in jCalls, J!Land(c) \/ J!Answer(c) \/ J!Fail(c) \/ J!SendIdle(c) PROVE EntriesInv'
    BY <1>1, <1>6 DEF J!Land, J!Answer, J!Fail, J!SendIdle, J!entries
  <1>7. CASE J!Refetch \/ J!FetchRead
    BY <1>1, <1>7 DEF J!Refetch, J!FetchRead, J!entries
  <1>8. CASE J!FetchDone \/ J!FetchFails
    BY <1>8, EntriesRender DEF J!FetchDone, J!FetchFails, J!FetchEnds
  <1>9. CASE J!Visit \/ J!Leave \/ J!OnDragEnd \/ \E u \in J!Uids : J!OnDelete(u)
    BY <1>9, EntriesRender DEF J!Visit, J!Leave, J!OnDragEnd, J!OnDelete, J!Change
  <1>10. CASE J!Create \/ J!HandleClose \/ J!Reset \/ J!HandleOk
    BY <1>1, <1>10 DEF J!Create, J!HandleClose, J!Reset, J!HandleOk, J!entries
  <1>11. CASE (\E e \in J!Items : J!Edit(e)) \/ \E a \in TestUrls : J!Type(a)
    BY <1>1, <1>11 DEF J!Edit, J!Type, J!entries
  <1>12. CASE UNCHANGED J!vars
    BY <1>1, <1>12 DEF J!vars, J!entries
  <1> QED BY <1>2, <1>3, <1>4, <1>5, <1>6, <1>7, <1>8, <1>9, <1>10, <1>11, <1>12 DEF J!Next

LEMMA EntriesHold == SettingsSpec => []J!TestsEnd
  <1>1. J!Init => EntriesInv
    <2> SUFFICES ASSUME J!Init PROVE EntriesInv
      OBVIOUS
    <2>1. /\ jDelay = [u \in J!Uids |-> "none"] /\ jTests = [u \in J!Uids |-> 0]
          /\ jListeners = {[uid |-> e.uid, url |-> e.url, at |-> "asked", own |-> TRUE] : e \in J!Items}
      BY DEF J!Init
    <2>2. /\ jDelay = [u \in J!Uids |-> jDelay[u]] /\ jTests \in [J!Uids -> Nat]
          /\ \A u \in J!Uids : jDelay[u] # "testing"
      BY <2>1
    <2>3. \A l \in jListeners : l = [k \in {"uid", "url", "at", "own"} |-> l[k]]
      BY <2>1
    <2>4. ASSUME NEW e \in J!Items
          PROVE  \E l \in jListeners : l.own /\ l.uid = e.uid /\ l.url = e.url
      <3>1. [uid |-> e.uid, url |-> e.url, at |-> "asked", own |-> TRUE] \in jListeners
        BY <2>1
      <3> QED BY <3>1
    <2> QED BY <2>2, <2>3, <2>4 DEF EntriesInv, J!TestsEnd
  <1>2. SettingsStart => EntriesInv
    BY <1>1 DEF SettingsStart
  <1>3. [SettingsStep]_<<part, settings>> => [J!Next]_(J!vars)
    BY DEF SettingsStep, DialogStep, HomeStep, settings, homes, Jvars, J!vars, J!dialog, J!requests, J!entries
  <1>4. EntriesInv => J!TestsEnd
    BY DEF EntriesInv
  <1> QED BY <1>2, <1>3, <1>4, EntriesStep, PTL DEF SettingsSpec

-----------------------------------------------------------------------------
(* The list of the tests that is stored.                                   *)

\* The patches of the list of the tests, numbered as they were made.
CallFields == {"n", "by", "at", "list", "shows", "live"}
CallsTyped ==
    /\ jAsked \in Nat
    /\ \A c \in jCalls :
          /\ c = [k \in CallFields |-> c[k]] /\ c.n \in Nat /\ c.n <= jAsked
          /\ c.at \in {"idle", "sent", "landed", "waiting"}
    /\ \A c, d \in jCalls : c.n = d.n => c = d

\* Unless patches overtook one another, those that wait for the list were made before
\* those that do not, those that are stored before those that are not, and one edit at
\* most waits.
Early(c) == c.at \in {"idle", "sent"}
CallsOrdered ==
    ~jCrossed =>
        /\ \A c, d \in jCalls :
              (~Early(c) /\ Early(d)) \/ (c.at = "waiting" /\ d.at # "waiting") => c.n < d.n
        /\ \A c, d \in jCalls :
              c.at = "waiting" /\ c.by = "edit" /\ d.at = "waiting" /\ d.by = "edit" => c = d

\* What a patch stored is still stored, or a later one that landed is answered after it.
Covered(c) == c.list = jStored \/ \E m \in jCalls : m.at = "landed" /\ m.n > c.n
CallsCovered ==
    ~jCrossed =>
        \A c \in jCalls :
            /\ c.at = "landed" \/ (c.at = "waiting" /\ c.by = "edit") => Covered(c)
            /\ c.by = "edit" => c.shows = c.list

\* What a refetch read is stored, unless another answer will make it read again.
ReadStored ==
    jFetch.at = "read" => jFetch.list = jStored \/ \E m \in jCalls : m.at = "landed"

\* Without a refetch, what is shown is stored, but for a change that is on its way.
ShownStored ==
    ~jFailed /\ ~jCrossed /\ jFetch.at = "none" /\ (\A c \in jCalls : Early(c) /\ c.by # "row")
        => jSeen = jStored

ListInv == CallsTyped /\ CallsOrdered /\ CallsCovered /\ ReadStored /\ ShownStored

\* A call goes on.
Moved(c, d, a) ==
    /\ jCalls' = (jCalls \ {c}) \cup {d} /\ d = [k \in CallFields |-> d[k]]
    /\ d.n = c.n /\ d.by = c.by /\ d.list = c.list /\ d.shows = c.shows /\ d.at = a

LEMMA CallMoves ==
    ASSUME CallsTyped, NEW c \in jCalls, NEW a \in {"sent", "landed", "waiting"},
           jCalls' = (jCalls \ {c}) \cup {[c EXCEPT !.at = a]}, UNCHANGED jAsked
    PROVE  CallsTyped' /\ \E d : Moved(c, d, a)
  <1> DEFINE d == [c EXCEPT !.at = a]
  <1>1. c = [k \in CallFields |-> c[k]]
    BY DEF CallsTyped
  <1>2. /\ d = [k \in CallFields |-> d[k]] /\ d.at = a
        /\ d.n = c.n /\ d.by = c.by /\ d.list = c.list /\ d.shows = c.shows
    BY <1>1 DEF CallFields
  <1> HIDE DEF d
  <1>3. Moved(c, d, a)
    BY <1>2 DEF Moved, d
  <1>4. CallsTyped'
    BY <1>3 DEF CallsTyped, Moved, CallFields
  <1> QED BY <1>3, <1>4

LEMMA CallAdded ==
    ASSUME ListInv, NEW by, NEW at \in {"idle", "sent"}, NEW want, NEW shows,
           J!Patch(J!Call(by, at, want, shows)), UNCHANGED <<jStored, jFetch, jFailed>>,
           jCrossed => jCrossed', by = "edit" => jCrossed' \/ shows = want,
           by = "row" \/ UNCHANGED jSeen
    PROVE  ListInv'
  <1> DEFINE new == J!Call(by, at, want, shows)
  <1>1. /\ jCalls' = jCalls \cup {new} /\ jAsked' = jAsked + 1
        /\ new = [k \in CallFields |-> new[k]] /\ new.n = jAsked + 1 /\ new.at = at
        /\ new.by = by /\ new.list = want /\ new.shows = shows
    BY DEF J!Patch, J!Call, CallFields
  <1> HIDE DEF new
  <1>2. CallsTyped'
    BY <1>1 DEF ListInv, CallsTyped
  <1>3. \A c \in jCalls : c.n < new.n
    BY <1>1 DEF ListInv, CallsTyped
  <1>4. CallsOrdered'
    <2> SUFFICES ASSUME ~jCrossed' PROVE CallsOrdered'
      BY DEF CallsOrdered
    <2>1. ~jCrossed
      OBVIOUS
    <2> QED BY <1>1, <1>3, <2>1 DEF ListInv, CallsOrdered, Early
  <1>5. CallsCovered'
    BY <1>1 DEF ListInv, CallsCovered, Covered
  <1>6. ReadStored' /\ ShownStored'
    BY <1>1 DEF ListInv, ReadStored, ShownStored, Early
  <1> QED BY <1>2, <1>4, <1>5, <1>6 DEF ListInv

LEMMA CallLands == ASSUME ListInv, NEW c \in jCalls, J!Land(c) PROVE ListInv'
  <1>1. CallsTyped /\ c.at = "sent"
    BY DEF ListInv, J!Land
  <1>2. /\ jStored' = c.list /\ jCalls' = (jCalls \ {c}) \cup {[c EXCEPT !.at = "landed"]}
        /\ UNCHANGED <<jSeen, jAsked, jFetch, jFailed>>
        /\ ~jCrossed' => ~jCrossed /\ \A d \in jCalls : ~(d.n < c.n /\ Early(d))
    BY DEF J!Land, Early
  <1>3. CallsTyped' /\ \E d : Moved(c, d, "landed")
    BY <1>1, <1>2, CallMoves
  <1>4. PICK d : Moved(c, d, "landed")
    BY <1>3
  <1>5. /\ jCalls' = (jCalls \ {c}) \cup {d} /\ d.n = c.n /\ d.by = c.by /\ d.list = c.list
        /\ d.shows = c.shows /\ d.at = "landed" /\ d \in jCalls'
    BY <1>4 DEF Moved
  <1>6. ~jCrossed' => (\A e \in jCalls : Early(e) /\ e # c => c.n < e.n) /\ \A e \in jCalls : ~Early(e) => e.n < c.n
    BY <1>1, <1>2 DEF ListInv, CallsTyped, CallsOrdered, Early
  <1>7. CallsOrdered'
    BY <1>1, <1>2, <1>5, <1>6 DEF ListInv, CallsOrdered, Early
  <1>8. CallsCovered'
    BY <1>1, <1>2, <1>5, <1>6 DEF ListInv, CallsCovered, Covered, Early
  <1>9. ReadStored' /\ ShownStored'
    BY <1>2, <1>5 DEF ReadStored, ShownStored, Early
  <1> QED BY <1>3, <1>7, <1>8, <1>9 DEF ListInv

LEMMA CallAnswered == ASSUME ListInv, NEW c \in jCalls, J!Answer(c) PROVE ListInv'
  <1>1. CallsTyped /\ c.at = "landed"
    BY DEF ListInv, J!Answer
  <1>2. /\ jFetch' = J!Asked /\ jCalls' = (jCalls \ {c}) \cup {[c EXCEPT !.at = "waiting"]}
        /\ UNCHANGED <<jSeen, jStored, jAsked, jFailed>>
        /\ ~jCrossed' => ~jCrossed /\ \A d \in jCalls : d.n < c.n => d.at = "waiting" /\ d.by # "edit"
    BY DEF J!Answer
  <1>3. CallsTyped' /\ \E d : Moved(c, d, "waiting")
    BY <1>1, <1>2, CallMoves
  <1>4. PICK d : Moved(c, d, "waiting")
    BY <1>3
  <1>5. /\ jCalls' = (jCalls \ {c}) \cup {d} /\ d.n = c.n /\ d.by = c.by /\ d.list = c.list
        /\ d.shows = c.shows /\ d.at = "waiting"
    BY <1>4 DEF Moved
  <1>6. ~jCrossed' => /\ \A e \in jCalls : e.at # "waiting" /\ e # c => c.n < e.n
                      /\ \A e \in jCalls : e.at = "waiting" => e.n < c.n /\ e.by # "edit"
    BY <1>1, <1>2 DEF ListInv, CallsTyped, CallsOrdered, Early
  <1>7. CallsOrdered'
    BY <1>1, <1>2, <1>5, <1>6 DEF ListInv, CallsOrdered, Early
  <1>8. CallsCovered'
    <2> SUFFICES ASSUME ~jCrossed', NEW e \in jCalls'
                 PROVE  /\ e.at = "landed" \/ (e.at = "waiting" /\ e.by = "edit") => Covered(e)'
                        /\ e.by = "edit" => e.shows = e.list
      BY DEF CallsCovered
    <2>1. ~jCrossed /\ CallsCovered
      BY <1>2 DEF ListInv
    <2>2. CASE e = d
      <3>1. Covered(c)
        BY <1>1, <2>1 DEF CallsCovered
      <3>2. Covered(d)'
        BY <1>1, <1>2, <1>5, <3>1 DEF Covered, ListInv, CallsTyped
      <3> QED BY <1>5, <2>1, <2>2, <3>2 DEF CallsCovered
    <2>3. CASE e # d
      <3>1. e \in jCalls /\ e # c
        BY <1>5, <2>3
      <3>2. ASSUME e.at = "landed" \/ (e.at = "waiting" /\ e.by = "edit") PROVE Covered(e)'
        <4>1. Covered(e) /\ c.n < e.n
          BY <1>6, <2>1, <3>1, <3>2 DEF CallsCovered
        <4> QED BY <1>1, <1>2, <1>5, <3>1, <4>1 DEF Covered, ListInv, CallsTyped
      <3> QED BY <2>1, <3>1, <3>2 DEF CallsCovered
    <2> QED BY <2>2, <2>3
  <1>9. ReadStored' /\ ShownStored'
    BY <1>2 DEF ReadStored, ShownStored, J!Asked
  <1> QED BY <1>3, <1>7, <1>8, <1>9 DEF ListInv

LEMMA CallFails == ASSUME ListInv, NEW c \in jCalls, J!Fail(c) PROVE ListInv'
  <1>1. c.at = "sent" /\ jCalls' = jCalls \ {c} /\ UNCHANGED <<jSeen, jStored, jAsked, jFetch, jCrossed>>
        /\ (~jFailed' => ~jFailed /\ c.by # "row")
    BY DEF J!Fail
  <1>2. CallsTyped' /\ CallsOrdered'
    BY <1>1 DEF ListInv, CallsTyped, CallsOrdered, Early
  <1>3. CallsCovered' /\ ReadStored'
    BY <1>1 DEF ListInv, CallsCovered, Covered, ReadStored
  <1>4. ShownStored'
    BY <1>1 DEF ListInv, ShownStored, Early
  <1> QED BY <1>2, <1>3, <1>4 DEF ListInv

LEMMA CallSent == ASSUME ListInv, NEW c \in jCalls, J!SendIdle(c) PROVE ListInv'
  <1>1. CallsTyped /\ c.at = "idle"
    BY DEF ListInv, J!SendIdle
  <1>2. /\ jCalls' = (jCalls \ {c}) \cup {[c EXCEPT !.at = "sent"]}
        /\ UNCHANGED <<jSeen, jStored, jAsked, jFetch, jCrossed, jFailed>>
    BY DEF J!SendIdle
  <1>3. CallsTyped' /\ \E d : Moved(c, d, "sent")
    BY <1>1, <1>2, CallMoves
  <1>4. PICK d : Moved(c, d, "sent")
    BY <1>3
  <1>5. /\ jCalls' = (jCalls \ {c}) \cup {d} /\ d.n = c.n /\ d.by = c.by /\ d.list = c.list
        /\ d.shows = c.shows /\ d.at = "sent" /\ d \in jCalls'
    BY <1>4 DEF Moved
  <1>6. CallsOrdered'
    BY <1>1, <1>2, <1>5 DEF ListInv, CallsOrdered, Early
  <1>7. CallsCovered' /\ ReadStored'
    BY <1>1, <1>2, <1>5 DEF ListInv, CallsCovered, Covered, ReadStored
  <1>8. ShownStored'
    BY <1>1, <1>2, <1>5 DEF ListInv, ShownStored, Early
  <1> QED BY <1>3, <1>6, <1>7, <1>8 DEF ListInv

\* The refetch ends: those that wait go on, and the edit among them shows its list.
LEMMA FetchEnded ==
    ASSUME ListInv, NEW want, J!FetchEnds(want),
           jFailed' \/ (UNCHANGED jFailed /\ jFetch.at = "read" /\ want = jFetch.list)
    PROVE  ListInv'
  <1>1. /\ jFetch' \in {J!Asked, J!NoFetch} /\ jCalls' = jCalls \ J!Waiting
        /\ UNCHANGED <<jStored, jAsked, jCrossed>>
        /\ jSeen' = IF \E c \in J!Waiting : c.by = "edit" THEN J!First(J!Waiting).shows ELSE want
    BY DEF J!FetchEnds, J!Continue
  <1>2. J!Waiting = {c \in jCalls : c.at = "waiting"}
    BY DEF J!Waiting
  <1>3. CallsTyped' /\ CallsOrdered'
    BY <1>1 DEF ListInv, CallsTyped, CallsOrdered, Early
  <1>4. CallsCovered'
    BY <1>1, <1>2 DEF ListInv, CallsCovered, Covered
  <1>5. ReadStored'
    BY <1>1 DEF ReadStored, J!Asked, J!NoFetch
  <1>6. ShownStored'
    <2> SUFFICES ASSUME ~jFailed', ~jCrossed', \A c \in jCalls' : Early(c) PROVE jSeen' = jStored'
      BY DEF ShownStored
    <2>1. ~jCrossed /\ want = jFetch.list /\ jFetch.at = "read"
      BY <1>1
    <2>2. \A c \in jCalls : c.at # "landed"
      BY <1>1, <1>2 DEF Early
    <2>3. want = jStored
      BY <2>1, <2>2 DEF ListInv, ReadStored
    <2>4. ASSUME NEW e \in J!Waiting, e.by = "edit" PROVE jSeen' = jStored
      <3>1. \A c \in J!Waiting : c.by = "edit" => c = e
        BY <1>2, <2>1, <2>4 DEF ListInv, CallsOrdered
      <3>2. e.n <= e.n
        BY <1>2 DEF ListInv, CallsTyped
      <3>3. \E c \in J!Waiting : c.by = "edit" /\ \A d \in J!Waiting : d.by = "edit" => c.n <= d.n
        BY <2>4, <3>1, <3>2
      <3>4. J!First(J!Waiting) \in J!Waiting /\ J!First(J!Waiting).by = "edit"
        BY <3>3 DEF J!First
      <3>5. J!First(J!Waiting) = e
        BY <3>1, <3>4
      <3>6. e.shows = e.list /\ e.list = jStored
        BY <1>2, <2>1, <2>2, <2>4 DEF ListInv, CallsCovered, Covered
      <3> QED BY <1>1, <2>4, <3>5, <3>6
    <2> QED BY <1>1, <2>3, <2>4
  <1> QED BY <1>3, <1>4, <1>5, <1>6 DEF ListInv

\* The list is left: the calls go on without the dialog.
LEMMA ListLeft == ASSUME ListInv, J!Leave PROVE ListInv'
  <1> DEFINE Off(c) == [c EXCEPT !.live = FALSE]
  <1>1. /\ jCalls' = {Off(c) : c \in jCalls}
        /\ UNCHANGED <<jSeen, jStored, jAsked, jFetch, jCrossed, jFailed>>
    BY DEF J!Leave
  <1>2. \A c \in jCalls : /\ Off(c) = [k \in CallFields |-> Off(c)[k]] /\ Off(c).n = c.n
                          /\ Off(c).by = c.by /\ Off(c).at = c.at
                          /\ Off(c).list = c.list /\ Off(c).shows = c.shows
    BY DEF ListInv, CallsTyped, CallFields
  <1> HIDE DEF Off
  <1>3. /\ \A c \in jCalls : Off(c) \in jCalls'
        /\ \A d \in jCalls' : \E c \in jCalls : d = Off(c)
    BY <1>1
  <1>4. CallsTyped'
    BY <1>1, <1>2, <1>3 DEF ListInv, CallsTyped
  <1>5. CallsOrdered'
    <2> SUFFICES ASSUME ~jCrossed', NEW p \in jCalls', NEW q \in jCalls'
                 PROVE  /\ (~Early(p) /\ Early(q)) \/ (p.at = "waiting" /\ q.at # "waiting") => p.n < q.n
                        /\ p.at = "waiting" /\ p.by = "edit" /\ q.at = "waiting" /\ q.by = "edit" => p = q
      BY DEF CallsOrdered, Early
    <2>1. PICK c \in jCalls : p = Off(c)
      BY <1>3
    <2>2. PICK d \in jCalls : q = Off(d)
      BY <1>3
    <2> QED BY <1>1, <1>2, <2>1, <2>2 DEF ListInv, CallsOrdered, Early
  <1>6. CallsCovered'
    <2> SUFFICES ASSUME ~jCrossed', NEW p \in jCalls'
                 PROVE  /\ p.at = "landed" \/ (p.at = "waiting" /\ p.by = "edit") => Covered(p)'
                        /\ p.by = "edit" => p.shows = p.list
      BY DEF CallsCovered
    <2>1. PICK c \in jCalls : p = Off(c)
      BY <1>3
    <2>2. Covered(c) => Covered(p)'
      BY <1>1, <1>2, <1>3, <2>1 DEF Covered
    <2> QED BY <1>1, <1>2, <2>1, <2>2 DEF ListInv, CallsCovered
  <1>7. ReadStored'
    BY <1>1, <1>2, <1>3 DEF ListInv, ReadStored
  <1>8. ShownStored'
    BY <1>1, <1>2, <1>3 DEF ListInv, ShownStored, Early
  <1> QED BY <1>4, <1>5, <1>6, <1>7, <1>8 DEF ListInv

LEMMA ListStep == ListInv /\ [J!Next]_(J!vars) => ListInv'
  <1> SUFFICES ASSUME ListInv, [J!Next]_(J!vars) PROVE ListInv'
    OBVIOUS
  <1>1. ASSUME UNCHANGED <<jSeen, jStored, jCalls, jAsked, jFetch, jCrossed, jFailed>> PROVE ListInv'
    BY <1>1 DEF ListInv, CallsTyped, CallsOrdered, CallsCovered, Covered, ReadStored, ShownStored, Early
  <1>2. ASSUME UNCHANGED <<jSeen, J!requests>> PROVE ListInv'
    BY <1>1, <1>2 DEF J!requests
  <1>3. CASE (\E l \in jListeners : J!Listen(l)) \/ J!TestAll
    BY <1>2, <1>3 DEF J!Listen, J!TestAll
  <1>4. CASE \E u \in J!Uids : J!OnDelay(u) \/ J!Result(u)
    BY <1>2, <1>4 DEF J!OnDelay, J!Result
  <1>5. ASSUME NEW want, NEW at \in {"idle", "sent"}, J!Change(want, at) PROVE ListInv'
    <2>1. J!Patch(J!Call("row", at, want, want)) /\ UNCHANGED <<jStored, jFetch, jCrossed, jFailed>>
      BY <1>5 DEF J!Change
    <2> QED BY <2>1, CallAdded
  <1>6. CASE \E u \in J!Uids : J!OnDelete(u)
    BY <1>5, <1>6 DEF J!OnDelete
  <1>7. CASE J!OnDragEnd
    BY <1>5, <1>7 DEF J!OnDragEnd
  <1>8. CASE \E c \in jCalls : J!Land(c) \/ J!Answer(c) \/ J!Fail(c) \/ J!SendIdle(c)
    BY <1>8, CallLands, CallAnswered, CallFails, CallSent
  <1>9. CASE J!Refetch \/ J!FetchRead
    <2>1. UNCHANGED <<jSeen, jStored, jCalls, jAsked, jCrossed>>
      BY <1>9 DEF J!Refetch, J!FetchRead
    <2>2. jFetch' = J!Asked \/ jFetch' = [at |-> "read", list |-> jStored]
      BY <1>9 DEF J!Refetch, J!FetchRead
    <2>3. CallsTyped' /\ CallsOrdered' /\ CallsCovered'
      BY <2>1 DEF ListInv, CallsTyped, CallsOrdered, CallsCovered, Covered, Early
    <2>4. ReadStored' /\ ShownStored'
      BY <2>1, <2>2 DEF ReadStored, ShownStored, J!Asked
    <2> QED BY <2>3, <2>4 DEF ListInv
  <1>10. CASE J!FetchDone \/ J!FetchFails
    BY <1>10, FetchEnded DEF J!FetchDone, J!FetchFails
  <1>11. CASE J!Visit
    <2>1. /\ \/ J!Patch(J!Call("default", "sent", J!Default, jSeen))
             \/ UNCHANGED <<jCalls, jAsked>>
          /\ UNCHANGED <<jSeen, jStored, jFetch, jCrossed, jFailed>>
      BY <1>11 DEF J!Visit
    <2> QED BY <1>1, <2>1, CallAdded
  <1>12. CASE J!Leave
    BY <1>12, ListLeft
  <1>13. CASE J!HandleOk
    <2>1. UNCHANGED <<jSeen, jStored, jFetch, jFailed>>
      BY <1>13 DEF J!HandleOk
    <2>2. CASE jOpenType = "new"
      <3>1. /\ J!Patch(J!Call("new", "sent", Append(J!Held, [jForm EXCEPT !.uid = jMade + 1]), jSeen))
            /\ UNCHANGED jCrossed
        BY <1>13, <2>2 DEF J!HandleOk
      <3> QED BY <2>1, <3>1, CallAdded
    <2>3. CASE jOpenType # "new"
      <3>1. /\ J!Patch(J!Call("edit", "sent", J!Patched(J!Held), J!Patched(J!Rows)))
            /\ jCrossed' = (jCrossed \/ jSeen = J!Absent)
        BY <1>13, <2>3 DEF J!HandleOk
      <3>2. jCrossed' \/ J!Held = J!Rows
        BY <3>1 DEF J!Held, J!Rows
      <3>3. jCrossed' \/ J!Patched(J!Rows) = J!Patched(J!Held)
        BY <3>2
      <3>4. jCrossed => jCrossed'
        BY <3>1
      <3> QED BY <2>1, <3>1, <3>3, <3>4, CallAdded
    <2> QED BY <2>2, <2>3
  <1>14. CASE J!Create \/ J!HandleClose \/ J!Reset
    BY <1>2, <1>14 DEF J!Create, J!HandleClose, J!Reset
  <1>15. CASE (\E e \in J!Items : J!Edit(e)) \/ \E a \in TestUrls : J!Type(a)
    BY <1>2, <1>15 DEF J!Edit, J!Type
  <1>16. CASE UNCHANGED J!vars
    BY <1>2, <1>16 DEF J!vars
  <1> QED BY <1>3, <1>4, <1>6, <1>7, <1>8, <1>9, <1>10, <1>11, <1>12, <1>13, <1>14, <1>15, <1>16
          DEF J!Next

LEMMA ListHolds == SettingsSpec => []J!ListAgrees
  <1>1. J!Init => ListInv
    BY DEF J!Init, J!NoFetch, ListInv, CallsTyped, CallsOrdered, CallsCovered, ReadStored, ShownStored
  <1>2. SettingsStart => ListInv
    BY <1>1 DEF SettingsStart
  <1>3. [SettingsStep]_<<part, settings>> => [J!Next]_(J!vars)
    BY DEF SettingsStep, DialogStep, HomeStep, settings, homes, Jvars, J!vars, J!dialog, J!requests, J!entries
  <1>4. ListInv => J!ListAgrees
    BY DEF ListInv, ShownStored, J!ListAgrees
  <1> QED BY <1>2, <1>3, <1>4, ListStep, PTL DEF SettingsSpec

-----------------------------------------------------------------------------
(* The card of the address.                                                *)

\* A request that waits after an attempt asked every service, and a card that is shown
\* has asked.
IpRequest ==
    /\ xFailures \in Nat /\ xFetching \in {"none", "runs", "waits", "pauses"}
    /\ xService # 0 => xFetching = "runs" /\ xService \in xAsked
    /\ xAbortTimer => xService # 0
    /\ xFetching \in {"waits", "pauses"} /\ xFailures > 0 => xAsked = X!Services
    /\ xError /\ xFetching = "none" => xAsked = X!Services
    /\ xMounted /\ xAnswer = 0 /\ xFetching = "none" => xError
\* The interval, as the effect knows it.
IpIntervals ==
    /\ xMade \in Nat /\ xTimer \in Nat /\ xNow \in Nat \ {0}
    /\ (~xMounted => ~xIntersected) /\ X!IntervalOwned
\* The ticks.
IpTicking ==
    /\ \A h \in xHandlers : h = [k \in {"n", "at", "live"} |-> h[k]]
    /\ X!RevalidationEnds

IpInv == IpRequest /\ IpIntervals /\ IpTicking

LEMMA IpRefetches ==
    ASSUME IpRequest, X!Refetch
    PROVE  IpRequest' /\ xFetching' # "none"
  <1>1. CASE X!Begin
    BY <1>1 DEF X!Begin, IpRequest
  <1>2. CASE xFetching # "none" /\ UNCHANGED <<xAnswer, xError, xFetching, xFailures, X!attempt>>
    BY <1>2 DEF IpRequest, X!attempt, X!Services
  <1> QED BY <1>1, <1>2 DEF X!Refetch

\* The requests settle: the ticks that wait for it are gone.
LEMMA IpSettles ==
    ASSUME IpTicking, X!Settle
    PROVE  IpTicking'
  <1>1. \A h \in xHandlers' : h \in xHandlers /\ h.at # "waiting"
    BY DEF X!Settle
  <1>2. xCountdown' # "revalidating"
    BY DEF X!Settle, IpTicking, X!RevalidationEnds
  <1> QED BY <1>1, <1>2 DEF IpTicking, X!RevalidationEnds

LEMMA IpRejected ==
    ASSUME IpRequest, IpTicking, NEW again \in BOOLEAN, X!Rejected(again), xAsked = X!Services, xFetching # "none",
           UNCHANGED <<xMounted, xAnswer, xAsked>>, xService' = 0, ~xAbortTimer'
    PROVE  IpRequest' /\ IpTicking'
  <1>1. X!Services' = X!Services
    BY DEF X!Services
  <1>2. CASE again
    BY <1>1, <1>2 DEF X!Rejected, IpRequest, IpTicking, X!RevalidationEnds
  <1>3. CASE ~again
    <2>1. xError' /\ xFetching' = "none" /\ xFailures' = 0 /\ X!Settle
      BY <1>3 DEF X!Rejected, X!Idle
    <2>2. IpTicking'
      BY <2>1, IpSettles
    <2> QED BY <1>1, <2>1, <2>2 DEF IpRequest
  <1> QED BY <1>2, <1>3

LEMMA IpSameIntervals ==
    IpIntervals /\ UNCHANGED <<xMounted, xIntersected, xHidden, xTimer, xIntervals, xMade, xNow>> => IpIntervals'
  BY DEF IpIntervals, X!IntervalOwned
LEMMA IpSameRequest ==
    ASSUME IpRequest,
           UNCHANGED <<xMounted, xAnswer, xError, xFetching, xFailures, xService, xAsked, xAbortTimer>>
    PROVE  IpRequest'
  BY DEF IpRequest, X!Services
LEMMA IpSameTicking ==
    ASSUME IpTicking, UNCHANGED <<xHandlers, xCountdown>>, xFetching' = "none" => xFetching = "none" PROVE IpTicking'
  BY DEF IpTicking, X!RevalidationEnds

LEMMA IpAttempt ==
    ASSUME IpInv,
           \/ (\E s \in X!Services : X!AskService(s)) \/ X!Abort \/ X!AskAgain \/ X!Answers \/ X!ServiceFails
           \/ X!Continue \/ X!Pauses
    PROVE  IpInv'
  <1> IpRequest /\ IpIntervals /\ IpTicking
    BY DEF IpInv
  <1>1. CASE \E s \in X!Services : X!AskService(s)
    <2>1. PICK s \in X!Services : X!AskService(s)
      BY <1>1
    <2>2. IpRequest'
      BY <2>1 DEF X!AskService, IpRequest, X!Services
    <2>3. IpIntervals' /\ IpTicking'
      BY <2>1, IpSameIntervals, IpSameTicking DEF X!AskService, X!card, X!window
    <2> QED BY <2>2, <2>3 DEF IpInv
  <1>2. CASE X!Abort \/ X!AskAgain
    <2>1. UNCHANGED <<xMounted, xIntersected, xHidden, xTimer, xIntervals, xMade, xNow, xHandlers, xCountdown, xFetching>>
          /\ UNCHANGED <<xAnswer, xError, xFailures, xService, xAsked>> /\ (xAbortTimer' => xAbortTimer)
      BY <1>2 DEF X!Abort, X!AskAgain, X!card, X!window
    <2>2. IpRequest'
      BY <2>1 DEF IpRequest, X!Services
    <2> QED BY <2>1, <2>2, IpSameIntervals, IpSameTicking DEF IpInv
  <1>3. CASE X!Answers
    <2>1. /\ xAnswer' = xNow /\ xError' = FALSE /\ xFetching' = "none" /\ xFailures' = 0 /\ X!Settle
          /\ xService' = 0 /\ xAbortTimer' = FALSE
          /\ UNCHANGED <<xMounted, xIntersected, xHidden, xTimer, xIntervals, xMade, xNow, xAsked>>
      BY <1>3 DEF X!Answers, X!Idle, X!window
    <2>2. IpRequest'
      BY <2>1 DEF IpRequest, IpIntervals
    <2> QED BY <2>1, <2>2, IpSameIntervals, IpSettles DEF IpInv
  <1>4. CASE X!ServiceFails
    <2>1. /\ xService # 0 /\ xService' = 0 /\ xAbortTimer' = FALSE
          /\ UNCHANGED <<xMounted, xIntersected, xHidden, xTimer, xIntervals, xMade, xNow, xAnswer, xAsked>>
      BY <1>4 DEF X!ServiceFails, X!window
    <2>2. CASE xAsked = X!Services
      <3>1. X!Rejected(xFailures < X!Retries /\ ~xNoRetry)
        BY <1>4, <2>2 DEF X!ServiceFails
      <3>2. IpRequest' /\ IpTicking'
        BY <2>1, <2>2, <3>1, IpRejected DEF IpRequest
      <3> QED BY <2>1, <3>2, IpSameIntervals DEF IpInv
    <2>3. CASE xAsked # X!Services
      <3>1. UNCHANGED <<xError, xFetching, xFailures, xHandlers, xCountdown>>
        BY <1>4, <2>3 DEF X!ServiceFails
      <3>2. IpRequest'
        BY <2>1, <3>1 DEF IpRequest, X!Services
      <3> QED BY <2>1, <3>1, <3>2, IpSameIntervals, IpSameTicking DEF IpInv
    <2> QED BY <2>2, <2>3
  <1>5. CASE X!Continue
    <2>1. /\ xFetching \in {"waits", "pauses"}
          /\ UNCHANGED <<xMounted, xIntersected, xHidden, xTimer, xIntervals, xMade, xNow, xAnswer>>
      BY <1>5 DEF X!Continue, X!window
    <2>2. CASE xNoRetry /\ xFailures > 0
      <3>1. X!Rejected(FALSE) /\ UNCHANGED <<xService, xAsked, xAbortTimer>>
        BY <1>5, <2>2 DEF X!Continue, X!attempt
      <3>2. xAsked = X!Services /\ xService' = 0 /\ ~xAbortTimer'
        BY <2>1, <2>2, <3>1 DEF IpRequest
      <3>3. IpRequest' /\ IpTicking'
        BY <2>1, <3>1, <3>2, IpRejected
      <3> QED BY <2>1, <3>3, IpSameIntervals DEF IpInv
    <2>3. CASE ~(xNoRetry /\ xFailures > 0)
      <3>1. xFetching' = "runs" /\ xAsked' = {}
            /\ UNCHANGED <<xError, xFailures, xHandlers, xCountdown, xService, xAbortTimer>>
        BY <1>5, <2>3 DEF X!Continue
      <3>2. IpRequest'
        BY <2>1, <3>1 DEF IpRequest, X!Services
      <3> QED BY <2>1, <3>1, <3>2, IpSameIntervals, IpSameTicking DEF IpInv
    <2> QED BY <2>2, <2>3
  <1>6. CASE X!Pauses
    <2>1. /\ xFetching = "waits" /\ xFetching' = "pauses"
          /\ UNCHANGED <<xMounted, xIntersected, xHidden, xTimer, xIntervals, xMade, xNow, xHandlers, xCountdown>>
          /\ UNCHANGED <<xAnswer, xError, xFailures, xService, xAsked, xAbortTimer>>
      BY <1>6 DEF X!Pauses, X!card, X!window, X!attempt
    <2>2. IpRequest'
      BY <2>1 DEF IpRequest, X!Services
    <2> QED BY <2>1, <2>2, IpSameIntervals, IpSameTicking DEF IpInv
  <1> QED BY <1>1, <1>2, <1>3, <1>4, <1>5, <1>6

LEMMA IpCardSteps ==
    ASSUME IpInv, X!Mount \/ X!Unmount \/ X!Intersect \/ X!VisibilityChange \/ X!NetworkChange
    PROVE  IpInv'
  <1> IpRequest /\ IpIntervals /\ IpTicking
    BY DEF IpInv
  <1>1. CASE X!Mount
    <2>1. /\ ~xMounted /\ xMounted' = TRUE
          /\ UNCHANGED <<xIntersected, xHidden, xTimer, xIntervals, xMade, xNow, xHandlers, xCountdown>>
          /\ IF xAnswer = 0 THEN X!Refetch ELSE UNCHANGED X!query
      BY <1>1 DEF X!Mount, X!card, X!window
    <2>2. IpIntervals'
      BY <2>1 DEF IpIntervals, X!IntervalOwned
    <2>3. CASE xAnswer = 0
      <3> IpRequest' /\ xFetching' # "none"
        BY <2>1, <2>3, IpRefetches
      <3> QED BY <2>1, <2>2, IpSameTicking DEF IpInv
    <2>4. CASE xAnswer # 0
      <3>1. UNCHANGED <<xAnswer, xError, xFetching, xFailures, xService, xAsked, xAbortTimer>>
        BY <2>1, <2>4 DEF X!query, X!request, X!attempt
      <3>2. IpRequest'
        BY <2>4, <3>1 DEF IpRequest, X!Services
      <3> QED BY <2>1, <2>2, <3>1, <3>2, IpSameTicking DEF IpInv
    <2> QED BY <2>3, <2>4
  <1>2. CASE X!Unmount
    <2>1. /\ xMounted' = FALSE /\ xIntersected' = FALSE /\ X!Pause /\ xCountdown' = "countdown"
          /\ xHandlers' = {[h EXCEPT !.live = FALSE] : h \in xHandlers}
          /\ UNCHANGED <<xHidden, xMade, xNow, xAnswer, xError, xFetching, xFailures, xService, xAsked, xAbortTimer>>
      BY <1>2 DEF X!Unmount, X!window, X!attempt
    <2>2. IpIntervals'
      BY <2>1 DEF IpIntervals, X!IntervalOwned, X!Pause
    <2>3. \A h \in xHandlers' : h = [k \in {"n", "at", "live"} |-> h[k]] /\ \E g \in xHandlers : g.at = h.at
      BY <2>1 DEF IpTicking
    <2>4. IpTicking'
      BY <2>1, <2>3 DEF IpTicking, X!RevalidationEnds
    <2>5. IpRequest'
      BY <2>1 DEF IpRequest, X!Services
    <2> QED BY <2>2, <2>4, <2>5 DEF IpInv
  <1>3. CASE X!Intersect
    <2>1. /\ xMounted /\ ~xIntersected /\ xIntersected' /\ X!Resume
          /\ UNCHANGED <<xMounted, xHidden, xNow, xHandlers, xCountdown>>
          /\ UNCHANGED <<xAnswer, xError, xFetching, xFailures, xService, xAsked, xAbortTimer>>
      BY <1>3 DEF X!Intersect, X!window, X!query, X!request, X!attempt
    <2>2. IpIntervals'
      BY <2>1 DEF IpIntervals, X!IntervalOwned, X!Resume
    <2> QED BY <2>1, <2>2, IpSameRequest, IpSameTicking DEF IpInv
  <1>4. CASE X!VisibilityChange
    <2>1. /\ xHidden' = ~xHidden
          /\ UNCHANGED <<xMounted, xIntersected, xNow, xHandlers, xCountdown>>
          /\ UNCHANGED <<xAnswer, xError, xFetching, xFailures, xService, xAsked, xAbortTimer>>
      BY <1>4 DEF X!VisibilityChange, X!query, X!request, X!attempt
    <2>2. \/ ~xMounted /\ UNCHANGED <<xTimer, xIntervals, xMade>>
          \/ xMounted /\ ~xHidden /\ X!Pause /\ UNCHANGED xMade
          \/ xMounted /\ xHidden /\ xIntersected /\ xTimer = 0 /\ X!Resume
          \/ xMounted /\ xHidden /\ ~(xIntersected /\ xTimer = 0) /\ UNCHANGED <<xTimer, xIntervals, xMade>>
      BY <1>4 DEF X!VisibilityChange
    <2>3. ASSUME UNCHANGED <<xTimer, xIntervals, xMade>>, xMounted => xHidden /\ ~(xIntersected /\ xTimer = 0)
          PROVE  IpIntervals'
      BY <2>1, <2>3 DEF IpIntervals, X!IntervalOwned
    <2>4. ASSUME ~xHidden, X!Pause, UNCHANGED xMade PROVE IpIntervals'
      BY <2>1, <2>4 DEF IpIntervals, X!IntervalOwned, X!Pause
    <2>5. ASSUME xMounted, xIntersected, xTimer = 0, X!Resume PROVE IpIntervals'
      BY <2>1, <2>5 DEF IpIntervals, X!IntervalOwned, X!Resume
    <2>6. IpIntervals'
      BY <2>2, <2>3, <2>4, <2>5
    <2> QED BY <2>1, <2>6, IpSameRequest, IpSameTicking DEF IpInv
  <1>5. CASE X!NetworkChange
    <2>1. /\ UNCHANGED <<xMounted, xIntersected, xHidden, xTimer, xIntervals, xMade, xNow, xHandlers, xCountdown>>
          /\ UNCHANGED <<xAnswer, xError, xFetching, xFailures, xService, xAsked, xAbortTimer>>
      BY <1>5 DEF X!NetworkChange, X!card, X!query, X!request, X!attempt
    <2> QED BY <2>1, IpSameIntervals, IpSameRequest, IpSameTicking DEF IpInv
  <1> QED BY <1>1, <1>2, <1>3, <1>4, <1>5

LEMMA IpTickSteps ==
    ASSUME IpInv,
           \/ X!Time \/ X!Tick \/ X!Mutate \/ X!Forget
           \/ \E h \in xHandlers : X!WindowVisible(h) \/ X!WindowInvisible(h)
    PROVE  IpInv'
  <1> IpRequest /\ IpIntervals /\ IpTicking
    BY DEF IpInv
  <1>1. CASE X!Time
    <2>1. /\ UNCHANGED <<xMounted, xIntersected, xHidden, xTimer, xIntervals, xMade, xHandlers, xCountdown>>
          /\ UNCHANGED <<xAnswer, xError, xFetching, xFailures, xService, xAsked, xAbortTimer>> /\ xNow' = xNow + 1
      BY <1>1 DEF X!Time, X!card, X!window, X!query, X!request, X!attempt
    <2>2. IpIntervals'
      BY <2>1 DEF IpIntervals, X!IntervalOwned
    <2> QED BY <2>1, <2>2, IpSameRequest, IpSameTicking DEF IpInv
  <1>2. CASE X!Tick
    <2>1. /\ UNCHANGED <<xMounted, xIntersected, xHidden, xTimer, xIntervals, xMade, xNow>>
          /\ UNCHANGED <<xAnswer, xError, xFetching, xFailures, xService, xAsked, xAbortTimer>>
          /\ \/ xCountdown' = "countdown" /\ UNCHANGED xHandlers
             \/ /\ UNCHANGED xCountdown
                /\ \E n : xHandlers' = xHandlers \cup {[n |-> n, at |-> "asking", live |-> TRUE]}
      BY <1>2 DEF X!Tick, X!window, X!query, X!request, X!attempt
    <2>2. IpTicking'
      <3>1. CASE xCountdown' = "countdown" /\ UNCHANGED xHandlers
        BY <2>1, <3>1 DEF IpTicking, X!RevalidationEnds
      <3>2. ASSUME UNCHANGED xCountdown, NEW n, xHandlers' = xHandlers \cup {[n |-> n, at |-> "asking", live |-> TRUE]}
            PROVE IpTicking'
        <4> DEFINE new == [n |-> n, at |-> "asking", live |-> TRUE]
        <4>1. new = [k \in {"n", "at", "live"} |-> new[k]] /\ new.at = "asking"
          OBVIOUS
        <4>2. xHandlers' = xHandlers \cup {new}
          BY <3>2
        <4> HIDE DEF new
        <4> QED BY <2>1, <3>2, <4>1, <4>2 DEF IpTicking, X!RevalidationEnds
      <3> QED BY <2>1, <3>1, <3>2
    <2> QED BY <2>1, <2>2, IpSameIntervals, IpSameRequest DEF IpInv
  <1>3. CASE X!Mutate
    <2>1. /\ UNCHANGED <<xMounted, xIntersected, xHidden, xTimer, xIntervals, xMade, xNow, xHandlers, xCountdown>>
          /\ X!Refetch
      BY <1>3 DEF X!Mutate, X!card, X!window
    <2> QED BY <2>1, IpSameIntervals, IpRefetches, IpSameTicking DEF IpInv
  <1>4. CASE X!Forget
    <2>1. /\ UNCHANGED <<xMounted, xIntersected, xHidden, xTimer, xIntervals, xMade, xNow, xHandlers, xCountdown>>
          /\ UNCHANGED <<xFetching, xFailures, xService, xAsked, xAbortTimer>>
          /\ ~xMounted /\ xError' = FALSE
      BY <1>4 DEF X!Forget, X!card, X!window, X!request, X!attempt
    <2>2. IpRequest'
      BY <2>1 DEF IpRequest, X!Services
    <2> QED BY <2>1, <2>2, IpSameIntervals, IpSameTicking DEF IpInv
  <1>5. ASSUME NEW h \in xHandlers, X!WindowVisible(h) PROVE IpInv'
    <2> DEFINE new == [h EXCEPT !.at = "waiting"]
    <2>1. new = [k \in {"n", "at", "live"} |-> new[k]] /\ new.at = "waiting" /\ new.live = h.live
      BY DEF IpTicking
    <2>2. /\ xHandlers' = (xHandlers \ {h}) \cup {new} /\ h.at = "asking" /\ X!Refetch
          /\ xCountdown' = (IF h.live THEN "revalidating" ELSE xCountdown)
          /\ UNCHANGED <<xMounted, xIntersected, xHidden, xTimer, xIntervals, xMade, xNow>>
      BY <1>5 DEF X!WindowVisible, X!window
    <2> HIDE DEF new
    <2>3. IpRequest' /\ xFetching' # "none"
      BY <2>2, IpRefetches
    <2>4. IpTicking'
      BY <2>1, <2>2, <2>3 DEF IpTicking, X!RevalidationEnds
    <2> QED BY <2>2, <2>3, <2>4, IpSameIntervals DEF IpInv
  <1>6. ASSUME NEW h \in xHandlers, X!WindowInvisible(h) PROVE IpInv'
    <2>1. /\ UNCHANGED <<xMounted, xIntersected, xHidden, xTimer, xIntervals, xMade, xNow, xCountdown>>
          /\ UNCHANGED <<xAnswer, xError, xFetching, xFailures, xService, xAsked, xAbortTimer>>
          /\ h.at = "asking" /\ xHandlers' = xHandlers \ {h}
      BY <1>6 DEF X!WindowInvisible, X!card, X!window, X!query, X!request, X!attempt
    <2>2. IpTicking'
      BY <2>1 DEF IpTicking, X!RevalidationEnds
    <2> QED BY <2>1, <2>2, IpSameIntervals, IpSameRequest DEF IpInv
  <1> QED BY <1>1, <1>2, <1>3, <1>4, <1>5, <1>6

LEMMA IpStep == IpInv /\ [X!Next]_(X!vars) => IpInv'
  <1> SUFFICES ASSUME IpInv, [X!Next]_(X!vars) PROVE IpInv'
    OBVIOUS
  <1>1. CASE UNCHANGED X!vars
    <2>1. /\ UNCHANGED <<xMounted, xIntersected, xHidden, xTimer, xIntervals, xMade, xNow, xHandlers, xCountdown>>
          /\ UNCHANGED <<xAnswer, xError, xFetching, xFailures, xService, xAsked, xAbortTimer>>
      BY <1>1 DEF X!vars, X!card, X!window, X!query, X!request, X!attempt
    <2> QED BY <2>1, IpSameIntervals, IpSameRequest, IpSameTicking DEF IpInv
  <1> QED BY <1>1, IpAttempt, IpCardSteps, IpTickSteps DEF X!Next

LEMMA AddressHolds ==
    SettingsSpec => [](X!IntervalOwned /\ X!RevalidationEnds /\ X!ServicesAsked /\ X!AddressKnown)
  <1>1. X!Init => IpInv
    BY DEF X!Init, IpInv, IpRequest, IpIntervals, IpTicking, X!IntervalOwned, X!RevalidationEnds
  <1>2. SettingsStart => IpInv
    BY <1>1 DEF SettingsStart
  <1>3. [SettingsStep]_<<part, settings>> => [X!Next]_(X!vars)
    BY DEF SettingsStep, DialogStep, HomeStep, settings, homes, Xvars, X!vars, X!card, X!window, X!query, X!request, X!attempt
  <1>4. IpInv => X!IntervalOwned /\ X!RevalidationEnds /\ X!ServicesAsked /\ X!AddressKnown
    BY DEF IpInv, IpRequest, IpIntervals, IpTicking, X!ServicesAsked, X!AddressKnown, X!View
  <1> QED BY <1>2, <1>3, <1>4, IpStep, PTL DEF SettingsSpec

-----------------------------------------------------------------------------
(* The media of the unlock page.                                           *)

\* A check that the page speaks of is under way, one of one item alone.
UnlockInv ==
    /\ \A j \in wJobs : j = [k \in {"n", "does", "name", "with", "live"} |-> j[k]] /\ j.live \in BOOLEAN
    /\ wCheckingAll \in BOOLEAN /\ wLockAll \in BOOLEAN /\ wLockOne \in BOOLEAN
    /\ W!ChecksEnd /\ W!RowsStored
    /\ \A j \in wJobs : j.live /\ j.does = "one" => wLoadingItems = {j.name}
    /\ \A i, j \in wJobs : i.live /\ i.does = "one" /\ j.live /\ j.does = "one" => i = j

\* Rows that are stored and read again are the same.
LEMMA RowsReadBack ==
    ASSUME NEW rs, rs = [m \in DOMAIN rs |-> rs[m]]
    PROVE  W!Dedupe(W!Stored(rs)) = rs
  <1>1. \A x : Len(<<x>>) = 1 /\ <<x>>[1] = x
    OBVIOUS
  <1>2. /\ DOMAIN W!Stored(rs) = DOMAIN rs
        /\ \A m \in DOMAIN rs : W!Stored(rs)[m] = <<rs[m]>>
    BY DEF W!Stored
  <1>3. W!Dedupe(W!Stored(rs)) = [m \in DOMAIN rs |-> rs[m]]
    BY <1>1, <1>2 DEF W!Dedupe
  <1> QED BY <1>3

LEMMA UnlockShows ==
    ASSUME W!RowsStored, NEW rs, rs = [m \in DOMAIN rs |-> rs[m]], NEW live \in BOOLEAN,
           W!Show(rs, live), UNCHANGED wMounted
    PROVE  (W!RowsStored)'
  <1>1. W!Dedupe(W!Stored(rs)) = rs
    BY RowsReadBack
  <1>2. live => wRows' = W!Dedupe(wDisk)'
    BY <1>1 DEF W!Show, W!Dedupe
  <1> QED BY <1>2 DEF W!Show, W!RowsStored

LEMMA UnlockJobEnds ==
    ASSUME UnlockInv, NEW j \in wJobs, W!AllEnds(j) \/ W!OneEnds(j), (W!RowsStored)'
    PROVE  UnlockInv'
  <1>1. wJobs' = wJobs \ {j} /\ wCheckingAll' \in BOOLEAN /\ wLockAll' \in BOOLEAN /\ wLockOne' \in BOOLEAN
    BY DEF W!AllEnds, W!OneEnds, UnlockInv
  <1>2. CASE W!AllEnds(j)
    <2>1. j.does = "all" /\ UNCHANGED <<wLoadingItems, wLockOne>>
      BY <1>2 DEF W!AllEnds
    <2>2. \/ ~wCheckingAll' /\ ~wLockAll'
          \/ ~j.live /\ wCheckingAll' = wCheckingAll /\ wLockAll' = wLockAll
      BY <1>2 DEF W!AllEnds, UnlockInv
    <2>3. (W!ChecksEnd)'
      BY <1>1, <2>1, <2>2 DEF W!ChecksEnd, UnlockInv
    <2> QED BY <1>1, <2>1, <2>3 DEF UnlockInv
  <1>3. CASE W!OneEnds(j)
    <2>1. j.does = "one" /\ UNCHANGED <<wCheckingAll, wLockAll>>
      BY <1>3 DEF W!OneEnds
    <2>2. CASE j.live
      <3>1. wLoadingItems' = {} /\ ~wLockOne' /\ \A i \in wJobs' : ~(i.live /\ i.does = "one")
        BY <1>1, <1>3, <2>1, <2>2 DEF W!OneEnds, UnlockInv
      <3>2. (W!ChecksEnd)'
        BY <1>1, <2>1, <3>1 DEF W!ChecksEnd, UnlockInv
      <3> QED BY <1>1, <2>1, <3>1, <3>2 DEF UnlockInv
    <2>3. CASE ~j.live
      <3>1. wLoadingItems' = wLoadingItems /\ (wLockOne' <=> wLockOne)
        BY <1>3, <2>3 DEF W!OneEnds
      <3>2. (W!ChecksEnd)'
        BY <1>1, <2>1, <2>3, <3>1 DEF W!ChecksEnd, UnlockInv
      <3> QED BY <1>1, <2>1, <3>1, <3>2 DEF UnlockInv
    <2> QED BY <2>2, <2>3
  <1> QED BY <1>2, <1>3

LEMMA UnlockStep == UnlockInv /\ [W!Next]_(W!vars) => UnlockInv'
  <1> SUFFICES ASSUME UnlockInv, [W!Next]_(W!vars) PROVE UnlockInv'
    OBVIOUS
  <1>1. CASE UNCHANGED W!vars
    BY <1>1 DEF W!vars, W!page, UnlockInv, W!ChecksEnd, W!RowsStored, W!Dedupe, W!Prefer
  <1>2. CASE W!Mount
    <2> DEFINE new == W!Job("items", "", W!Dedupe(wDisk))
    <2>1. new = [k \in {"n", "does", "name", "with", "live"} |-> new[k]] /\ new.does = "items" /\ new.live \in BOOLEAN
      BY DEF W!Job
    <2>2. wJobs' = wJobs \cup {new} /\ UNCHANGED <<wCheckingAll, wLoadingItems, wLockAll, wLockOne>>
          /\ wRows' = W!Dedupe(wDisk) /\ wDisk' = wDisk
      BY <1>2 DEF W!Mount
    <2> HIDE DEF new
    <2>3. (W!RowsStored)'
      BY <2>2 DEF W!RowsStored, W!Dedupe
    <2> QED BY <2>1, <2>2, <2>3 DEF UnlockInv, W!ChecksEnd
  <1>3. CASE W!Unmount
    <2>1. wJobs' = {[j EXCEPT !.live = FALSE] : j \in wJobs} /\ ~wCheckingAll' /\ ~wLockAll' /\ ~wLockOne'
          /\ wLoadingItems' = {} /\ ~wMounted'
      BY <1>3 DEF W!Unmount
    <2>2. \A j \in wJobs' : j = [k \in {"n", "does", "name", "with", "live"} |-> j[k]] /\ ~j.live /\ j.live \in BOOLEAN
      BY <2>1 DEF UnlockInv
    <2>3. (W!ChecksEnd)' /\ (W!RowsStored)' /\ wCheckingAll' \in BOOLEAN /\ wLockAll' \in BOOLEAN /\ wLockOne' \in BOOLEAN
      BY <1>3, <2>1 DEF W!ChecksEnd, W!RowsStored, W!Unmount
    <2> QED BY <2>2, <2>3 DEF UnlockInv
  <1>4. CASE W!CheckAllMedia
    <2> DEFINE new == W!Job("all", "", W!NoRows)
    <2>1. new = [k \in {"n", "does", "name", "with", "live"} |-> new[k]] /\ new.does = "all" /\ new.live /\ new.live \in BOOLEAN
      BY DEF W!Job
    <2>2. wJobs' = wJobs \cup {new} /\ wCheckingAll' /\ wLockAll' /\ UNCHANGED <<wLoadingItems, wLockOne>>
          /\ wCheckingAll' \in BOOLEAN /\ wLockAll' \in BOOLEAN /\ UNCHANGED <<wMounted, wRows, wOthers, wDisk>>
      BY <1>4 DEF W!CheckAllMedia
    <2> HIDE DEF new
    <2>3. (W!RowsStored)' /\ (W!ChecksEnd)'
      BY <2>1, <2>2 DEF W!RowsStored, W!Dedupe, W!ChecksEnd, UnlockInv
    <2> QED BY <2>1, <2>2, <2>3 DEF UnlockInv
  <1>5. ASSUME NEW m \in W!Names, W!CheckSingleMedia(m) PROVE UnlockInv'
    <2> DEFINE new == W!Job("one", m, wRows)
    <2>1. new = [k \in {"n", "does", "name", "with", "live"} |-> new[k]] /\ new.does = "one" /\ new.live /\ new.live \in BOOLEAN /\ new.name = m
      BY DEF W!Job
    <2>2. wJobs' = wJobs \cup {new} /\ ~wLockOne /\ wLockOne' /\ wLoadingItems' = wLoadingItems \cup {m}
          /\ UNCHANGED <<wCheckingAll, wLockAll>>
          /\ wLockOne' \in BOOLEAN /\ UNCHANGED <<wMounted, wRows, wOthers, wDisk>>
      BY <1>5 DEF W!CheckSingleMedia
    <2> HIDE DEF new
    <2>3. wLoadingItems = {} /\ \A j \in wJobs : ~(j.live /\ j.does = "one")
      BY <2>2 DEF UnlockInv, W!ChecksEnd
    <2>4. (W!RowsStored)' /\ (W!ChecksEnd)'
      BY <2>1, <2>2, <2>3 DEF W!RowsStored, W!Dedupe, W!ChecksEnd, UnlockInv
    <2>5. \A j \in wJobs' : j.live /\ j.does = "one" => j = new
      BY <2>2, <2>3
    <2> QED BY <2>1, <2>2, <2>3, <2>4, <2>5 DEF UnlockInv
  <1>6. ASSUME NEW j \in wJobs, W!CheckFails(j) PROVE UnlockInv'
    <2>1. (W!RowsStored)'
      BY <1>6 DEF W!CheckFails, W!AllEnds, W!OneEnds, W!RowsStored, W!Dedupe, UnlockInv
    <2> QED BY <1>6, <2>1, UnlockJobEnds DEF W!CheckFails
  <1>7. ASSUME NEW j \in wJobs, NEW answers \in BOOLEAN, W!GetUnlockItems(j, answers) PROVE UnlockInv'
    <2>1. wJobs' = wJobs \ {j} /\ j.does = "items" /\ UNCHANGED <<wMounted, wCheckingAll, wLoadingItems, wLockAll, wLockOne>>
      BY <1>7 DEF W!GetUnlockItems
    <2>2. (W!RowsStored)'
      <3>1. W!Merge(j.with) = [m \in DOMAIN W!Merge(j.with) |-> W!Merge(j.with)[m]]
        BY DEF W!Merge
      <3>2. W!Show(W!Merge(j.with), j.live) \/ UNCHANGED <<wRows, wDisk, wOthers>>
        BY <1>7 DEF W!GetUnlockItems
      <3>3. CASE UNCHANGED <<wRows, wDisk, wOthers>>
        BY <2>1, <3>3 DEF UnlockInv, W!RowsStored, W!Dedupe
      <3> QED BY <2>1, <3>1, <3>2, <3>3, UnlockShows DEF UnlockInv
    <2>3. (W!ChecksEnd)'
      BY <2>1 DEF W!ChecksEnd, UnlockInv
    <2> QED BY <2>1, <2>2, <2>3 DEF UnlockInv
  <1>8. ASSUME NEW j \in wJobs, NEW result \in W!Rows(W!Checked, UnlockMedia),
               W!AllAnswers(j, result) \/ W!OneAnswers(j, result)
        PROVE  UnlockInv'
    <2>1. result = [m \in DOMAIN result |-> result[m]]
      BY DEF W!Rows
    <2>2. wMounted' = wMounted
      BY <1>8 DEF W!AllAnswers, W!OneAnswers, W!AllEnds, W!OneEnds
    <2> DEFINE checked == [m \in DOMAIN j.with |-> IF m = j.name THEN result[m] ELSE j.with[m]]
    <2>3. checked = [m \in DOMAIN checked |-> checked[m]]
      OBVIOUS
    <2>4. W!Show(result, j.live) \/ W!Show(checked, j.live) \/ UNCHANGED <<wRows, wDisk, wOthers>>
      BY <1>8 DEF W!AllAnswers, W!OneAnswers
    <2> HIDE DEF checked
    <2>5. CASE UNCHANGED <<wRows, wDisk, wOthers>>
      <3> (W!RowsStored)'
        BY <2>2, <2>5 DEF UnlockInv, W!RowsStored, W!Dedupe
      <3> QED BY <1>8, UnlockJobEnds DEF W!AllAnswers, W!OneAnswers
    <2>6. ASSUME NEW rs, rs = [m \in DOMAIN rs |-> rs[m]], W!Show(rs, j.live) PROVE UnlockInv'
      <3> (W!RowsStored)'
        BY <2>2, <2>6, UnlockShows DEF UnlockInv
      <3> QED BY <1>8, UnlockJobEnds DEF W!AllAnswers, W!OneAnswers
    <2> QED BY <2>1, <2>3, <2>4, <2>5, <2>6
  <1> QED BY <1>1, <1>2, <1>3, <1>4, <1>5, <1>6, <1>7, <1>8 DEF W!Next

LEMMA UnlockHolds == SettingsSpec => [](W!ChecksEnd /\ W!RowsStored)
  <1>1. W!Init => UnlockInv
    BY DEF W!Init, UnlockInv, W!ChecksEnd, W!RowsStored
  <1>2. SettingsStart => UnlockInv
    BY <1>1 DEF SettingsStart
  <1>3. [SettingsStep]_<<part, settings>> => [W!Next]_(W!vars)
    BY DEF SettingsStep, DialogStep, HomeStep, settings, homes, Wvars, W!vars, W!page
  <1>4. UnlockInv => W!ChecksEnd /\ W!RowsStored
    BY DEF UnlockInv
  <1> QED BY <1>2, <1>3, <1>4, UnlockStep, PTL DEF SettingsSpec

-----------------------------------------------------------------------------
(* The files to pack.                                                      *)

\* What a task that is done leaves, as a forced run wants it.
Packed(f) == zFiles[f] # Z!None /\ (zForce => zFiles[f] # Z!Torn)
TaskDone(t) ==
    /\ t \in Z!Sidecars => Packed(t) /\ (zForce => zFiles[t] = Z!Whole(zVersion[t]))
    /\ t = Z!Bundle => \A b \in Z!BinarySet : Packed(b)
    /\ t \in PrebuildResources => zFiles[t] # Z!None
    /\ t \in PrebuildScripts => zFiles[t] = Z!Whole(zSources[t])

\* The files of a task.
FilesOf(t) == IF t = Z!Bundle THEN Z!BinarySet ELSE {t}

PackTypes ==
    /\ zFiles = [f \in Z!Names |-> zFiles[f]]
    /\ zVersion = [s \in Z!Sidecars |-> zVersion[s]]
    /\ zTask \in DOMAIN PrebuildTasks /\ zLeft \in DOMAIN PrebuildBinaries
    /\ zAt \in {"idle", "begin", "resolve", "copy", "writing"}
    /\ zAt = "copy" => Z!Current = Z!Bundle

\* The tasks before the one that runs are done, and of its binaries those before.
PackInv ==
    /\ PackTypes
    /\ zAt # "idle" => zEnded = "no" /\ \A i \in 1 .. zTask - 1 : TaskDone(PrebuildTasks[i])
    /\ zAt \in {"copy", "writing"} /\ Z!Current = Z!Bundle =>
          \A i \in 1 .. zLeft - 1 : Packed(PrebuildBinaries[i])
    /\ Z!RunComplete /\ Z!PartsOwned

LEMMA PackConstants ==
    /\ DOMAIN PrebuildTasks = 1 .. Len(PrebuildTasks) /\ Len(PrebuildTasks) \in Nat \ {0}
    /\ DOMAIN PrebuildBinaries = 1 .. Len(PrebuildBinaries) /\ Len(PrebuildBinaries) \in Nat \ {0}
    /\ \A i \in DOMAIN PrebuildBinaries : PrebuildBinaries[i] \in Z!BinarySet
    /\ \A i \in DOMAIN PrebuildTasks : FilesOf(PrebuildTasks[i]) \subseteq Z!Names
    /\ \A i, j \in DOMAIN PrebuildTasks :
          i # j => FilesOf(PrebuildTasks[i]) \cap FilesOf(PrebuildTasks[j]) = {}
    /\ Z!None # Z!Torn /\ \A v : Z!Whole(v) # Z!None /\ Z!Whole(v) # Z!Torn
  <1>1. /\ DOMAIN PrebuildTasks = 1 .. Len(PrebuildTasks) /\ Len(PrebuildTasks) \in Nat
        /\ DOMAIN PrebuildBinaries = 1 .. Len(PrebuildBinaries) /\ Len(PrebuildBinaries) \in Nat
    BY PrebuildAssumption
  <1>2. Len(PrebuildBinaries) # 0
    BY PrebuildAssumption
  <1>3. Len(PrebuildTasks) # 0
    <2>1. \E i \in DOMAIN PrebuildTasks : PrebuildTasks[i] = Z!Bundle
      BY PrebuildAssumption
    <2> QED BY <1>1, <2>1
  <1>4. \A i \in DOMAIN PrebuildBinaries : PrebuildBinaries[i] \in Z!BinarySet
    BY DEF Z!BinarySet
  <1>5. \A i \in DOMAIN PrebuildTasks :
           PrebuildTasks[i] \in Z!Sidecars \cup {Z!Bundle} \cup PrebuildResources \cup PrebuildScripts
    BY PrebuildAssumption, <1>1
  <1>6. \A i \in DOMAIN PrebuildTasks : FilesOf(PrebuildTasks[i]) \subseteq Z!Names
    BY <1>5 DEF FilesOf, Z!Names
  <1>7. \A i, j \in DOMAIN PrebuildTasks :
           i # j => FilesOf(PrebuildTasks[i]) \cap FilesOf(PrebuildTasks[j]) = {}
    BY <1>5, PrebuildAssumption DEF FilesOf
  <1>8. Z!None # Z!Torn /\ \A v : Z!Whole(v) # Z!None /\ Z!Whole(v) # Z!Torn
    BY DEF Z!None, Z!Torn, Z!Whole
  <1> QED BY <1>1, <1>2, <1>3, <1>4, <1>6, <1>7, <1>8

LEMMA TargetOf == PackTypes => Z!Target \in FilesOf(Z!Current) /\ Z!Target \in Z!Names
  BY PackConstants DEF PackTypes, Z!Target, Z!Current, FilesOf

\* The tasks before the current one stay done.
LEMMA TasksStay ==
    ASSUME PackInv, zAt # "idle", UNCHANGED <<zSources, zForce>>,
           \A f \in Z!Names \ FilesOf(Z!Current) : zFiles'[f] = zFiles[f],
           \A s \in Z!Sidecars \ {Z!Current} : zVersion'[s] = zVersion[s]
    PROVE  \A i \in 1 .. zTask - 1 : TaskDone(PrebuildTasks[i])'
  <1> SUFFICES ASSUME NEW i \in 1 .. zTask - 1 PROVE TaskDone(PrebuildTasks[i])'
    OBVIOUS
  <1> DEFINE t == PrebuildTasks[i]
  <1>1. zTask \in DOMAIN PrebuildTasks /\ i \in DOMAIN PrebuildTasks /\ i # zTask
    BY PackConstants DEF PackInv, PackTypes
  <1>2. FilesOf(t) \subseteq Z!Names /\ FilesOf(t) \cap FilesOf(Z!Current) = {} /\ t # Z!Current
    BY <1>1, PackConstants, PrebuildAssumption DEF Z!Current
  <1>3. TaskDone(t) /\ \A f \in FilesOf(t) : zFiles'[f] = zFiles[f]
    BY <1>2 DEF PackInv
  <1>4. t \in Z!Sidecars \cup {Z!Bundle} \cup PrebuildResources \cup PrebuildScripts
    BY <1>1, PackConstants, PrebuildAssumption
  <1>5. t # Z!Bundle => t \in FilesOf(t)
    BY DEF FilesOf
  <1>6. t = Z!Bundle => FilesOf(t) = Z!BinarySet
    BY DEF FilesOf
  <1> HIDE DEF t
  <1>7. TaskDone(t)'
    BY <1>2, <1>3, <1>4, <1>5, <1>6, PrebuildAssumption DEF TaskDone, Packed
  <1> QED BY <1>7 DEF t

\* Nothing but the file that is written is changed, and it does not stay torn unless it
\* is downloaded as it is.
Writing ==
    \/ UNCHANGED zFiles /\ (zAt = "writing" => Z!Target \in PrebuildResources)
    \/ \E x : zFiles' = [zFiles EXCEPT ![Z!Target] = x] /\ (x # Z!Torn \/ Z!Target \in PrebuildResources)
    \/ /\ Z!Current \in Z!Sidecars
       /\ \E x : zFiles' = [zFiles EXCEPT ![Z!Current] = x] /\ x # Z!Torn
Frame == UNCHANGED <<zSources, zForce, zVersion, zCut>>

LEMMA WritingFacts ==
    ASSUME PackInv, zAt # "idle", Writing, Frame
    PROVE  /\ zFiles' = [f \in Z!Names |-> zFiles'[f]]
           /\ \A f \in Z!Names \ FilesOf(Z!Current) : zFiles'[f] = zFiles[f]
           /\ \A f \in Z!Names \ PrebuildResources : zFiles'[f] = Z!Torn => f \in zCut
           /\ \A i \in 1 .. zTask - 1 : TaskDone(PrebuildTasks[i])'
  <1>1. Z!Target \in FilesOf(Z!Current) /\ Z!Target \in Z!Names
    BY TargetOf DEF PackInv
  <1>2. Z!Current \in Z!Sidecars => Z!Current \in FilesOf(Z!Current) /\ Z!Target = Z!Current
    BY PrebuildAssumption DEF FilesOf, Z!Target
  <1>3. \/ UNCHANGED zFiles /\ (zAt = "writing" => Z!Target \in PrebuildResources)
        \/ \E x : zFiles' = [zFiles EXCEPT ![Z!Target] = x] /\ (x # Z!Torn \/ Z!Target \in PrebuildResources)
    BY <1>2 DEF Writing
  <1>4. zFiles' = [f \in Z!Names |-> zFiles'[f]] /\ \A f \in Z!Names : f # Z!Target => zFiles'[f] = zFiles[f]
    BY <1>1, <1>3 DEF PackInv, PackTypes
  <1>5. \A f \in Z!Names \ PrebuildResources : zFiles'[f] = Z!Torn => f \in zCut
    BY <1>1, <1>3, <1>4 DEF PackInv, Z!PartsOwned, PackTypes
  <1>6. \A f \in Z!Names \ FilesOf(Z!Current) : zFiles'[f] = zFiles[f]
    BY <1>1, <1>4
  <1>7. \A i \in 1 .. zTask - 1 : TaskDone(PrebuildTasks[i])'
    BY <1>6, TasksStay DEF Frame
  <1> QED BY <1>4, <1>5, <1>6, <1>7

LEMMA PackFails ==
    ASSUME PackInv, zAt # "idle", Writing, Frame, Z!Fails, UNCHANGED zLeft
    PROVE  PackInv'
  <1>1. /\ zTask' = zTask /\ zAt' \in {"idle", "begin"} /\ zEnded' # "well"
        /\ zAt' = "begin" => zEnded' = "no"
    BY DEF Z!Fails, PackInv
  <1>2. PackTypes'
    BY <1>1, WritingFacts DEF PackInv, PackTypes, Frame
  <1>3. (Z!PartsOwned)'
    BY WritingFacts DEF Z!PartsOwned, Frame
  <1>4. (Z!RunComplete)'
    BY <1>1 DEF Z!RunComplete
  <1> QED BY <1>1, <1>2, <1>3, <1>4, WritingFacts DEF PackInv

LEMMA PackSucceeds ==
    ASSUME PackInv, zAt # "idle", Writing, Frame, Z!Succeeds, UNCHANGED zLeft,
           NEW t, t = Z!Current, TaskDone(t)'
    PROVE  PackInv'
  <1>1. \/ zTask = Len(PrebuildTasks) /\ zAt' = "idle" /\ zEnded' = "well" /\ zTask' = zTask
        \/ zTask # Len(PrebuildTasks) /\ zAt' = "begin" /\ zTask' = zTask + 1 /\ zEnded' = "no"
    BY DEF Z!Succeeds, PackInv
  <1>2. zTask' \in DOMAIN PrebuildTasks
    BY <1>1, PackConstants DEF PackInv, PackTypes
  <1>3. PackTypes'
    BY <1>1, <1>2, WritingFacts DEF PackInv, PackTypes, Frame
  <1>4. (Z!PartsOwned)'
    BY WritingFacts DEF Z!PartsOwned, Frame
  <1>5. \A i \in 1 .. zTask : TaskDone(PrebuildTasks[i])'
    BY WritingFacts, PackConstants DEF PackInv, PackTypes, Z!Current
  <1>6. CASE zTask # Len(PrebuildTasks)
    <2>1. (Z!RunComplete)'
      BY <1>1, <1>6 DEF Z!RunComplete
    <2> QED BY <1>1, <1>3, <1>4, <1>5, <1>6, <2>1, PackConstants DEF PackInv, PackTypes
  <1>7. CASE zTask = Len(PrebuildTasks)
    <2>1. \A u \in Z!Sidecars \cup {Z!Bundle} \cup PrebuildResources \cup PrebuildScripts : TaskDone(u)'
      BY <1>5, <1>7, PrebuildAssumption, PackConstants
    <2>2. \A f \in PrebuildScripts : zFiles'[f] = Z!Whole(zSources'[f])
      BY <2>1 DEF TaskDone
    <2>3. \A s \in Z!Sidecars : Packed(s)' /\ (zForce' => zFiles'[s] = Z!Whole(zVersion'[s]))
      BY <2>1 DEF TaskDone
    <2>4. (\A f \in Z!BinarySet : Packed(f)') /\ \A f \in PrebuildResources : zFiles'[f] # Z!None
      BY <2>1 DEF TaskDone
    <2>5. \A f \in PrebuildScripts : Packed(f)'
      BY <2>2, PackConstants DEF Packed, Z!None, Z!Torn, Z!Whole
    <2>6. (Z!RunComplete)'
      BY <2>2, <2>3, <2>4, <2>5, PackConstants DEF Z!RunComplete, Packed, Z!Names
    <2> QED BY <1>1, <1>3, <1>4, <1>7, <2>6 DEF PackInv
  <1> QED BY <1>6, <1>7

\* A file begins to be written.
LEMMA PackWrites ==
    ASSUME PackInv, zAt # "idle", Z!Writes(Z!Target), Frame, UNCHANGED zLeft,
           Z!Current = Z!Bundle => zAt = "copy"
    PROVE  PackInv'
  <1>1. zFiles' = [zFiles EXCEPT ![Z!Target] = Z!Torn] /\ zAt' = "writing" /\ UNCHANGED <<zTask, zEnded>>
    BY DEF Z!Writes
  <1>2. Z!Target \in FilesOf(Z!Current) /\ Z!Target \in Z!Names
    BY TargetOf DEF PackInv
  <1>3. zFiles' = [f \in Z!Names |-> zFiles'[f]] /\ \A f \in Z!Names : f # Z!Target => zFiles'[f] = zFiles[f]
    BY <1>1, <1>2 DEF PackInv, PackTypes
  <1>4. PackTypes' /\ Z!Current' = Z!Current /\ Z!Target' = Z!Target
    BY <1>1, <1>3 DEF PackInv, PackTypes, Frame, Z!Current, Z!Target
  <1>5. (Z!PartsOwned)'
    <2> SUFFICES ASSUME NEW f \in Z!Names \ PrebuildResources, zFiles'[f] = Z!Torn, f # Z!Target PROVE f \in zCut
      BY <1>1, <1>4 DEF Z!PartsOwned, Frame, Z!Torn
    <2>1. zFiles[f] = Z!Torn
      BY <1>3
    <2> QED BY <2>1 DEF PackInv, Z!PartsOwned
  <1>6. \A i \in 1 .. zTask - 1 : TaskDone(PrebuildTasks[i])'
    <2>1. \A f \in Z!Names \ FilesOf(Z!Current) : zFiles'[f] = zFiles[f]
      BY <1>2, <1>3
    <2> QED BY <2>1, TasksStay DEF Frame
  <1>7. (Z!RunComplete)'
    BY <1>1 DEF Z!RunComplete, PackInv
  <1>8. Z!Current = Z!Bundle => \A i \in 1 .. zLeft - 1 : Packed(PrebuildBinaries[i])'
    <2> SUFFICES ASSUME Z!Current = Z!Bundle, NEW i \in 1 .. zLeft - 1 PROVE Packed(PrebuildBinaries[i])'
      OBVIOUS
    <2>1. zLeft \in DOMAIN PrebuildBinaries /\ i \in DOMAIN PrebuildBinaries /\ i # zLeft
      BY PackConstants DEF PackInv, PackTypes
    <2>2. PrebuildBinaries[i] # Z!Target /\ PrebuildBinaries[i] \in Z!Names
      BY <2>1, PackConstants, PrebuildAssumption DEF Z!Target, Z!Names
    <2>3. Packed(PrebuildBinaries[i])
      BY DEF PackInv
    <2> QED BY <1>3, <2>2, <2>3 DEF Packed, Frame
  <1> QED BY <1>1, <1>4, <1>5, <1>6, <1>7, <1>8 DEF PackInv, Frame

\* A step before anything is written.
LEMMA PackGoesOn ==
    ASSUME PackInv, zAt # "idle", zAt # "writing", UNCHANGED <<zFiles, zTask, zEnded, zSources, zForce, zCut>>,
           zAt' \in {"resolve", "copy"}, zLeft' \in DOMAIN PrebuildBinaries,
           zAt' = "copy" => Z!Current = Z!Bundle /\ \A i \in 1 .. zLeft' - 1 : Packed(PrebuildBinaries[i]),
           zVersion' = [s \in Z!Sidecars |-> zVersion'[s]],
           \A s \in Z!Sidecars \ {Z!Current} : zVersion'[s] = zVersion[s]
    PROVE  PackInv'
  <1>1. PackTypes' /\ Z!Current' = Z!Current
    BY DEF PackInv, PackTypes, Z!Current
  <1>2. \A i \in 1 .. zTask - 1 : TaskDone(PrebuildTasks[i])'
    BY TasksStay
  <1>3. (Z!RunComplete)' /\ (Z!PartsOwned)'
    BY DEF PackInv, Z!RunComplete, Z!PartsOwned
  <1>4. zAt' \in {"copy", "writing"} => \A i \in 1 .. zLeft' - 1 : Packed(PrebuildBinaries[i])'
    BY DEF Packed
  <1> QED BY <1>1, <1>2, <1>3, <1>4 DEF PackInv

\* A step while the script does not run.
LEMMA PackIdle ==
    ASSUME PackInv, zAt = "idle", zAt' = "idle", UNCHANGED <<zForce, zVersion, zLeft, zTask>>,
           zFiles' = [f \in Z!Names |-> zFiles'[f]],
           \A f \in Z!Names : zFiles'[f] = Z!Torn => zFiles[f] = Z!Torn,
           zCut \subseteq zCut',
           zEnded' = "well" => UNCHANGED <<zFiles, zSources, zEnded>>
    PROVE  PackInv'
  <1>1. PackTypes'
    BY DEF PackInv, PackTypes
  <1>2. (Z!RunComplete)'
    BY DEF PackInv, Z!RunComplete
  <1>3. (Z!PartsOwned)'
    BY DEF PackInv, Z!PartsOwned, Z!Torn
  <1> QED BY <1>1, <1>2, <1>3 DEF PackInv

LEMMA PackSidecar ==
    ASSUME PackInv, NEW s \in Z!Sidecars,
           \/ Z!GetVersion(s) \/ Z!VersionFails(s) \/ Z!SkipSidecar(s) \/ Z!Download(s) \/ Z!Unpack(s)
           \/ Z!Unpacked(s) \/ Z!SidecarFails(s)
    PROVE  PackInv'
  <1>1. s # Z!Bundle /\ s \notin PrebuildResources /\ s \notin PrebuildScripts
    BY PrebuildAssumption
  <1>2. CASE Z!GetVersion(s)
    <2>1. s = Z!Current /\ zAt = "begin" /\ zAt' = "resolve"
          /\ UNCHANGED <<zFiles, zTask, zEnded, zSources, zForce, zCut, zLeft>>
          /\ \E v : zVersion' = [zVersion EXCEPT ![s] = v]
      BY <1>2 DEF Z!GetVersion, Z!Running, Z!outside, Z!arguments
    <2>2. zVersion' = [r \in Z!Sidecars |-> zVersion'[r]] /\ \A r \in Z!Sidecars \ {s} : zVersion'[r] = zVersion[r]
      BY <2>1 DEF PackInv, PackTypes
    <2>3. zLeft' \in DOMAIN PrebuildBinaries
      BY <2>1 DEF PackInv, PackTypes
    <2> QED BY <2>1, <2>2, <2>3, PackGoesOn
  <1>3. CASE Z!VersionFails(s)
    BY <1>3, PackFails DEF Z!VersionFails, Z!Running, Z!outside, Z!arguments, Writing, Frame
  <1>4. CASE Z!SkipSidecar(s)
    <2>1. s = Z!Current /\ zAt = "resolve" /\ Z!Succeeds /\ Writing /\ Frame /\ UNCHANGED zLeft /\ ~zForce /\ zFiles[s] # Z!None
          /\ UNCHANGED <<zFiles, zForce>>
      BY <1>4 DEF Z!SkipSidecar, Z!Running, Z!outside, Z!arguments, Writing, Frame
    <2>2. TaskDone(s)'
      BY <1>1, <2>1 DEF TaskDone, Packed, Z!None
    <2> QED BY <2>1, <2>2, PackSucceeds
  <1>5. CASE Z!Download(s)
    <2>1. /\ zAt = "resolve" /\ zAt' = zAt
          /\ UNCHANGED <<zFiles, zTask, zEnded, zSources, zForce, zCut, zLeft, zVersion>>
      BY <1>5 DEF Z!Download, Z!Wanted, Z!Running, Z!outside, Z!arguments, Z!progress
    <2>2. zLeft' \in DOMAIN PrebuildBinaries /\ zVersion' = [r \in Z!Sidecars |-> zVersion'[r]]
      BY <2>1 DEF PackInv, PackTypes
    <2> QED BY <2>1, <2>2, PackGoesOn
  <1>6. CASE Z!Unpack(s)
    <2>1. s = Z!Current /\ zAt = "resolve" /\ Z!Writes(s) /\ Frame /\ UNCHANGED zLeft
      BY <1>6 DEF Z!Unpack, Z!Wanted, Z!Running, Z!outside, Z!arguments, Frame
    <2>2. Z!Target = s
      BY <1>1, <2>1 DEF Z!Target
    <2> QED BY <1>1, <2>1, <2>2, PackWrites
  <1>7. CASE Z!Unpacked(s)
    <2>1. s = Z!Current /\ zAt = "writing" /\ Z!Succeeds /\ Frame /\ UNCHANGED zLeft
          /\ zFiles' = [zFiles EXCEPT ![s] = Z!Whole(zVersion[s])]
      BY <1>7 DEF Z!Unpacked, Z!Put, Z!Running, Z!outside, Z!arguments, Frame
    <2>2. Z!Whole(zVersion[s]) # Z!Torn /\ Z!Whole(zVersion[s]) # Z!None
      BY PackConstants
    <2>3. Writing
      BY <2>1, <2>2 DEF Writing
    <2>4. zFiles'[s] = Z!Whole(zVersion[s]) /\ zVersion' = zVersion
      BY <2>1 DEF PackInv, PackTypes, Z!Names, Frame
    <2>5. TaskDone(s)'
      BY <1>1, <2>2, <2>4 DEF TaskDone, Packed, Z!None, Z!Torn, Z!Whole
    <2> QED BY <2>1, <2>3, <2>5, PackSucceeds
  <1>8. CASE Z!SidecarFails(s)
    <2>1. s = Z!Current /\ zAt # "idle" /\ Z!Fails /\ Frame /\ UNCHANGED zLeft
          /\ zFiles' = [zFiles EXCEPT ![s] = Z!None]
      BY <1>8 DEF Z!SidecarFails, Z!Wanted, Z!Put, Z!Running, Z!outside, Z!arguments, Frame
    <2>2. Writing
      BY <2>1, PackConstants DEF Writing
    <2> QED BY <2>1, <2>2, PackFails
  <1> QED BY <1>2, <1>3, <1>4, <1>5, <1>6, <1>7, <1>8

LEMMA PackBundle ==
    ASSUME PackInv, Z!SkipBundle \/ Z!FetchBundle \/ Z!CopyBinary \/ Z!BinaryCopied \/ Z!BundleFails
    PROVE  PackInv'
  <1>1. Z!Bundle \notin Z!Sidecars /\ Z!Bundle \notin PrebuildResources /\ Z!Bundle \notin PrebuildScripts
    BY PrebuildAssumption
  <1>2. CASE Z!SkipBundle
    <2>1. Z!Current = Z!Bundle /\ zAt = "begin" /\ Z!Succeeds /\ Writing /\ Frame /\ UNCHANGED zLeft /\ ~zForce /\ Z!AllThere
          /\ UNCHANGED <<zFiles, zForce>>
      BY <1>2 DEF Z!SkipBundle, Z!Running, Z!outside, Z!arguments, Writing, Frame
    <2>2. TaskDone(Z!Bundle)'
      BY <1>1, <2>1 DEF TaskDone, Packed, Z!AllThere, Z!None
    <2> QED BY <2>1, <2>2, PackSucceeds
  <1>3. CASE Z!FetchBundle
    <2>1. /\ Z!Current = Z!Bundle /\ zAt = "begin" /\ zLeft' = 1 /\ zAt' = "copy"
          /\ UNCHANGED <<zFiles, zTask, zEnded, zSources, zForce, zCut, zVersion>>
      BY <1>3 DEF Z!FetchBundle, Z!Running, Z!outside, Z!arguments
    <2>2. zLeft' \in DOMAIN PrebuildBinaries /\ zVersion' = [r \in Z!Sidecars |-> zVersion'[r]]
          /\ 1 .. zLeft' - 1 = {}
      BY <2>1, PackConstants DEF PackInv, PackTypes
    <2> QED BY <2>1, <2>2, PackGoesOn
  <1>4. CASE Z!CopyBinary
    <2>1. Z!Current = Z!Bundle /\ zAt = "copy" /\ Z!Writes(PrebuildBinaries[zLeft]) /\ Frame /\ UNCHANGED zLeft
      BY <1>4 DEF Z!CopyBinary, Z!Running, Z!outside, Z!arguments, Frame
    <2>2. Z!Target = PrebuildBinaries[zLeft]
      BY <2>1 DEF Z!Target
    <2> QED BY <2>1, <2>2, PackWrites
  <1>5. CASE Z!BinaryCopied
    <2>1. /\ Z!Current = Z!Bundle /\ zAt = "writing" /\ Frame
          /\ zFiles' = [zFiles EXCEPT ![PrebuildBinaries[zLeft]] = Z!Whole(1)]
          /\ \/ zLeft = Len(PrebuildBinaries) /\ Z!Succeeds /\ UNCHANGED zLeft
             \/ zLeft # Len(PrebuildBinaries) /\ zLeft' = zLeft + 1 /\ zAt' = "copy" /\ UNCHANGED <<zTask, zEnded>>
      BY <1>5 DEF Z!BinaryCopied, Z!Put, Z!Running, Z!outside, Z!arguments, Frame
    <2>2. Z!Target = PrebuildBinaries[zLeft] /\ zLeft \in DOMAIN PrebuildBinaries
      BY <2>1 DEF Z!Target, PackInv, PackTypes
    <2>3. Writing
      BY <2>1, <2>2, PackConstants DEF Writing
    <2>4. \A i \in 1 .. zLeft : Packed(PrebuildBinaries[i])'
      <3> SUFFICES ASSUME NEW i \in 1 .. zLeft PROVE Packed(PrebuildBinaries[i])'
        OBVIOUS
      <3>1. i \in DOMAIN PrebuildBinaries /\ PrebuildBinaries[i] \in Z!Names
        BY <2>2, PackConstants DEF Z!Names
      <3>2. CASE i = zLeft
        BY <2>1, <3>1, <3>2, PackConstants DEF PackInv, PackTypes, Packed, Z!None, Z!Torn, Z!Whole
      <3>3. CASE i # zLeft
        <4>1. PrebuildBinaries[i] # PrebuildBinaries[zLeft]
          BY <2>2, <3>1, <3>3, PrebuildAssumption
        <4>2. i \in 1 .. zLeft - 1
          BY <2>2, <3>3, PackConstants
        <4>3. Packed(PrebuildBinaries[i])
          BY <2>1, <4>2 DEF PackInv
        <4>4. zFiles'[PrebuildBinaries[i]] = zFiles[PrebuildBinaries[i]]
          BY <2>1, <3>1, <4>1 DEF PackInv, PackTypes
        <4> QED BY <2>1, <4>3, <4>4 DEF Packed, Frame, Z!None, Z!Torn
      <3> QED BY <3>2, <3>3
    <2>5. CASE zLeft = Len(PrebuildBinaries)
      <3>1. TaskDone(Z!Bundle)'
        BY <1>1, <2>4, <2>5, PackConstants DEF TaskDone, Z!BinarySet
      <3> QED BY <2>1, <2>3, <2>5, <3>1, PackSucceeds
    <2>6. CASE zLeft # Len(PrebuildBinaries)
      <3>1. zLeft' = zLeft + 1 /\ zAt' = "copy" /\ UNCHANGED <<zTask, zEnded>>
        BY <2>1, <2>6
      <3>2. zLeft' \in DOMAIN PrebuildBinaries /\ zLeft' - 1 = zLeft
        BY <2>2, <2>6, <3>1, PackConstants
      <3>3. PackTypes' /\ Z!Current' = Z!Current
        BY <2>1, <2>3, <3>1, <3>2, WritingFacts DEF PackInv, PackTypes, Frame, Z!Current
      <3>4. (Z!PartsOwned)'
        BY <2>1, <2>3, WritingFacts DEF Z!PartsOwned, Frame
      <3>5. (Z!RunComplete)'
        BY <2>1, <3>1 DEF Z!RunComplete, PackInv
      <3>6. \A i \in 1 .. zTask - 1 : TaskDone(PrebuildTasks[i])'
        BY <2>1, <2>3, WritingFacts
      <3> QED BY <2>1, <2>4, <3>1, <3>2, <3>3, <3>4, <3>5, <3>6 DEF PackInv
    <2> QED BY <2>5, <2>6
  <1>6. CASE Z!BundleFails
    <2>1. Z!Current = Z!Bundle /\ zAt # "idle" /\ Z!Fails /\ Frame /\ UNCHANGED zLeft
          /\ \/ zAt # "writing" /\ UNCHANGED zFiles
             \/ zFiles' = [zFiles EXCEPT ![PrebuildBinaries[zLeft]] = Z!None]
      BY <1>6 DEF Z!BundleFails, Z!Put, Z!Running, Z!outside, Z!arguments, Frame
    <2>2. Writing
      BY <2>1, PackConstants DEF Writing, Z!Target
    <2> QED BY <2>1, <2>2, PackFails
  <1> QED BY <1>2, <1>3, <1>4, <1>5, <1>6

LEMMA PackResource ==
    ASSUME PackInv, NEW r \in PrebuildResources,
           Z!SkipResource(r) \/ Z!DownloadResource(r) \/ Z!ResourceDone(r) \/ Z!ResourceFails(r)
    PROVE  PackInv'
  <1>1. r # Z!Bundle /\ r \notin Z!Sidecars /\ r \notin PrebuildScripts /\ r \in Z!Names
    BY PrebuildAssumption DEF Z!Names
  <1>2. Z!Current = r => Z!Target = r
    BY <1>1 DEF Z!Target
  <1>3. CASE Z!SkipResource(r)
    <2>1. r = Z!Current /\ zAt = "begin" /\ Z!Succeeds /\ Writing /\ Frame /\ UNCHANGED zLeft /\ ~zForce /\ zFiles[r] # Z!None
          /\ UNCHANGED <<zFiles, zForce>>
      BY <1>3 DEF Z!SkipResource, Z!Running, Z!outside, Z!arguments, Writing, Frame
    <2>2. TaskDone(r)'
      BY <1>1, <2>1 DEF TaskDone
    <2> QED BY <2>1, <2>2, PackSucceeds
  <1>4. CASE Z!DownloadResource(r)
    <2>1. r = Z!Current /\ zAt = "begin" /\ Z!Writes(r) /\ Frame /\ UNCHANGED zLeft
      BY <1>4 DEF Z!DownloadResource, Z!Running, Z!outside, Z!arguments, Frame
    <2> QED BY <1>1, <1>2, <2>1, PackWrites
  <1>5. CASE Z!ResourceDone(r)
    <2>1. r = Z!Current /\ zAt = "writing" /\ Z!Succeeds /\ Frame /\ UNCHANGED zLeft
          /\ \E what \in {Z!Whole(1), Z!Torn} : zFiles' = [zFiles EXCEPT ![r] = what]
      BY <1>5 DEF Z!ResourceDone, Z!Put, Z!Running, Z!outside, Z!arguments, Frame
    <2>2. Writing
      BY <1>2, <2>1 DEF Writing
    <2>3. zFiles'[r] \in {Z!Whole(1), Z!Torn}
      BY <1>1, <2>1 DEF PackInv, PackTypes
    <2>4. TaskDone(r)'
      BY <1>1, <2>3, PackConstants DEF TaskDone
    <2> QED BY <2>1, <2>2, <2>4, PackSucceeds
  <1>6. CASE Z!ResourceFails(r)
    <2>1. r = Z!Current /\ zAt # "idle" /\ Z!Fails /\ Frame /\ UNCHANGED <<zLeft, zFiles>>
      BY <1>6 DEF Z!ResourceFails, Z!Running, Z!outside, Z!arguments, Frame
    <2>2. Writing
      BY <1>2, <2>1 DEF Writing
    <2> QED BY <2>1, <2>2, PackFails
  <1> QED BY <1>3, <1>4, <1>5, <1>6

LEMMA PackScript ==
    ASSUME PackInv, NEW f \in PrebuildScripts,
           Z!SkipScript(f) \/ Z!CopyScript(f) \/ Z!ScriptCopied(f) \/ Z!ScriptFails(f)
    PROVE  PackInv'
  <1>1. f # Z!Bundle /\ f \notin Z!Sidecars /\ f \notin PrebuildResources /\ f \in Z!Names
    BY PrebuildAssumption DEF Z!Names
  <1>2. Z!Current = f => Z!Target = f
    BY <1>1 DEF Z!Target
  <1>3. CASE Z!SkipScript(f)
    <2>1. f = Z!Current /\ zAt = "begin" /\ Z!Succeeds /\ Writing /\ Frame /\ UNCHANGED zLeft
          /\ zFiles[f] = Z!Whole(zSources[f]) /\ UNCHANGED <<zFiles, zSources>>
      BY <1>3 DEF Z!SkipScript, Z!HasFileChanged, Z!Running, Z!outside, Z!arguments, Writing, Frame
    <2>2. TaskDone(f)'
      BY <1>1, <2>1 DEF TaskDone, Z!Whole
    <2> QED BY <2>1, <2>2, PackSucceeds
  <1>4. CASE Z!CopyScript(f)
    <2>1. f = Z!Current /\ zAt = "begin" /\ Z!Writes(f) /\ Frame /\ UNCHANGED zLeft
      BY <1>4 DEF Z!CopyScript, Z!Running, Z!outside, Z!arguments, Frame
    <2> QED BY <1>1, <1>2, <2>1, PackWrites
  <1>5. CASE Z!ScriptCopied(f)
    <2>1. f = Z!Current /\ zAt = "writing" /\ Z!Succeeds /\ Frame /\ UNCHANGED <<zLeft, zSources>>
          /\ zFiles' = [zFiles EXCEPT ![f] = Z!Whole(zSources[f])]
      BY <1>5 DEF Z!ScriptCopied, Z!Put, Z!Running, Z!outside, Z!arguments, Frame
    <2>2. Writing
      BY <1>2, <2>1, PackConstants DEF Writing
    <2>3. zFiles'[f] = Z!Whole(zSources[f])
      BY <1>1, <2>1 DEF PackInv, PackTypes
    <2>4. TaskDone(f)'
      BY <1>1, <2>1, <2>3 DEF TaskDone, Z!Whole
    <2> QED BY <2>1, <2>2, <2>4, PackSucceeds
  <1>6. CASE Z!ScriptFails(f)
    <2>1. f = Z!Current /\ zAt = "writing" /\ Z!Fails /\ Frame /\ UNCHANGED zLeft
          /\ zFiles' = [zFiles EXCEPT ![f] = Z!None]
      BY <1>6 DEF Z!ScriptFails, Z!Put, Z!Running, Z!outside, Z!arguments, Frame
    <2>2. Writing
      BY <1>2, <2>1, PackConstants DEF Writing
    <2> QED BY <2>1, <2>2, PackFails
  <1> QED BY <1>3, <1>4, <1>5, <1>6

LEMMA PackStep == PackInv /\ [Z!Next]_(Z!vars) => PackInv'
  <1> SUFFICES ASSUME PackInv, [Z!Next]_(Z!vars) PROVE PackInv'
    OBVIOUS
  <1>1. CASE UNCHANGED Z!vars
    <2>1. UNCHANGED <<zFiles, zSources, zForce, zTask, zAt, zEnded, zLeft, zVersion, zCut>>
      BY <1>1 DEF Z!vars, Z!outside, Z!arguments, Z!progress
    <2> QED BY <2>1 DEF PackInv, PackTypes, TaskDone, Packed, Z!RunComplete, Z!PartsOwned, Z!Current, Z!Target, Z!None, Z!Torn, Z!Whole
  <1>2. CASE Z!Start
    <2>1. /\ zAt = "idle" /\ zAt' = "begin" /\ zTask' = 1 /\ zEnded' = "no" /\ UNCHANGED <<zFiles, zLeft, zCut>>
          /\ zVersion' = [s \in Z!Sidecars |-> 0]
      BY <1>2 DEF Z!Start
    <2>2. PackTypes' /\ 1 .. zTask' - 1 = {}
      BY <2>1, PackConstants DEF PackInv, PackTypes
    <2>3. (Z!RunComplete)' /\ (Z!PartsOwned)'
      BY <2>1 DEF PackInv, Z!RunComplete, Z!PartsOwned, Z!Torn
    <2> QED BY <2>1, <2>2, <2>3 DEF PackInv
  <1>3. CASE Z!Interrupt
    <2>1. /\ zAt' = "idle" /\ zEnded' = "cut" /\ zCut' = (IF zAt = "writing" THEN zCut \cup {Z!Target} ELSE zCut)
          /\ UNCHANGED <<zFiles, zTask, zLeft, zVersion>>
      BY <1>3 DEF Z!Interrupt
    <2>2. PackTypes'
      BY <2>1 DEF PackInv, PackTypes
    <2>3. (Z!RunComplete)' /\ (Z!PartsOwned)'
      BY <2>1 DEF PackInv, Z!RunComplete, Z!PartsOwned, Z!Torn
    <2> QED BY <2>1, <2>2, <2>3 DEF PackInv
  <1>4. ASSUME NEW s \in Z!Sidecars, Z!Release(s) PROVE PackInv'
    <2>1. UNCHANGED <<zFiles, zSources, zForce, zTask, zAt, zEnded, zLeft, zVersion, zCut>>
      BY <1>4 DEF Z!Release, Z!arguments, Z!progress
    <2> QED BY <2>1 DEF PackInv, PackTypes, TaskDone, Packed, Z!RunComplete, Z!PartsOwned, Z!Current, Z!Target, Z!None, Z!Torn, Z!Whole
  <1>5. ASSUME NEW f \in PrebuildScripts, Z!Change(f) PROVE PackInv'
    <2>1. zAt = "idle" /\ zAt' = "idle" /\ zEnded' = "no" /\ UNCHANGED <<zFiles, zForce, zTask, zLeft, zVersion, zCut>>
      BY <1>5 DEF Z!Change, Z!arguments
    <2>2. zFiles' = [g \in Z!Names |-> zFiles'[g]]
      BY <2>1 DEF PackInv, PackTypes
    <2> QED BY <2>1, <2>2, PackIdle
  <1>6. CASE Z!Forget
    <2>1. zAt = "idle" /\ zAt' = "idle" /\ UNCHANGED <<zFiles, zSources, zEnded, zForce, zTask, zLeft, zVersion, zCut>>
      BY <1>6 DEF Z!Forget, Z!arguments, Z!progress, Z!outside
    <2>2. zFiles' = [g \in Z!Names |-> zFiles'[g]]
      BY <2>1 DEF PackInv, PackTypes
    <2> QED BY <2>1, <2>2, PackIdle
  <1>7. ASSUME NEW f \in Z!Names, Z!Remove(f) PROVE PackInv'
    <2>1. zAt = "idle" /\ zAt' = "idle" /\ zEnded' = "no" /\ UNCHANGED <<zForce, zTask, zLeft, zVersion, zCut>>
          /\ zFiles' = [zFiles EXCEPT ![f] = Z!None]
      BY <1>7 DEF Z!Remove, Z!Put, Z!arguments
    <2>2. zFiles' = [g \in Z!Names |-> zFiles'[g]] /\ \A g \in Z!Names : zFiles'[g] = Z!Torn => zFiles[g] = Z!Torn
      BY <2>1, PackConstants DEF PackInv, PackTypes
    <2> QED BY <2>1, <2>2, PackIdle
  <1> QED BY <1>1, <1>2, <1>3, <1>4, <1>5, <1>6, <1>7, PackSidecar, PackBundle, PackResource, PackScript DEF Z!Next

LEMMA PackHolds == SettingsSpec => [](Z!RunComplete /\ Z!PartsOwned)
  <1>1. Z!Init => PackInv
    BY PackConstants DEF Z!Init, PackInv, PackTypes, Z!RunComplete, Z!PartsOwned
  <1>2. SettingsStart => PackInv
    BY <1>1 DEF SettingsStart
  <1>3. [SettingsStep]_<<part, settings>> => [Z!Next]_(Z!vars)
    BY DEF SettingsStep, DialogStep, HomeStep, settings, homes, Zvars, Z!vars, Z!outside, Z!stores, Z!arguments, Z!progress
  <1>4. PackInv => Z!RunComplete /\ Z!PartsOwned
    BY DEF PackInv
  <1> QED BY <1>2, <1>3, <1>4, PackStep, PTL DEF SettingsSpec
=============================================================================
