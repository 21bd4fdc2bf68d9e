------------------------------ MODULE TraySpeed ------------------------------
(***************************************************************************)
(* The speed beside the icon of the tray (core/tray/speed_task.rs): a task *)
(* that listens to the traffic of the core, is aborted and started again,  *)
(* and leaves the id of its connection in a cell that all of its           *)
(* generations share; on top of the connections of the plugin (crates/     *)
(* tauri-plugin-mihomo/src/mihomo.rs), a map under a lock with a reader    *)
(* for each.                                                               *)
(*                                                                         *)
(* An action is what a task does between two awaits, the only places where *)
(* it can be aborted, except that a new connection is inserted and its id  *)
(* stored in two.  What is received is left out: silence that is too long, *)
(* the end of a connection and the exit all end the listening.  There is a *)
(* tray icon, and the core reads what it is sent.                          *)
(***************************************************************************)
EXTENDS Integers

CONSTANTS
    MaxTasks, MaxConns,     \* bounds: tasks and connections ever
    MaxSteps                \* bound: starts, stops, reloads of the page and the exit

None == 0
Tasks == 1..MaxTasks
Conns == 1..MaxConns
Stops == -MaxSteps..-1      \* the clean-ups that a stop spawns

VARIABLES
    speedTask,      \* speed_task
    speedId,        \* speed_connection_id
    pc, aborted,    \* of the tasks, and those whose abort was asked for
    made,           \* the connection that a task has just inserted
    cleanup,        \* of each stop: where it is, and the task that it ends
    taken,          \* the id that a task or clean-up disconnects
    manager,        \* the ids in the map of connections
    holder,         \* who holds its lock across an await
    reader,         \* of each connection
    peer,           \* its other side: open, closed
    forced,         \* connections that a timer will remove
    exiting,
    overwritten,    \* history: ids replaced in the cell before anybody took them
    dropped,        \* history: ids whose disconnect was aborted
    steps

tray == <<speedTask, speedId, pc, aborted, made, cleanup, taken>>
sockets == <<manager, holder, reader, peer, forced>>
notes == <<exiting, overwritten, dropped>>
vars == <<tray, sockets, notes, steps>>

UserStep == steps < MaxSteps /\ steps' = steps + 1

-----------------------------------------------------------------------------
(* The connections of the plugin.                                          *)

Unlocked == holder = None

\* connect, once the other side has accepted.
Insert(c) ==
    /\ Unlocked /\ reader[c] = "none" /\ \A d \in Conns : d < c => reader[d] # "none"
    /\ manager' = manager \cup {c} /\ reader' = [reader EXCEPT ![c] = "check"]

\* The loop of a reader looks for its id before each message.
Look(c) ==
    /\ reader[c] = "check" /\ Unlocked
    /\ reader' = [reader EXCEPT ![c] = IF c \in manager THEN "next" ELSE "ended"]
    /\ UNCHANGED <<tray, manager, holder, peer, forced, notes, steps>>

Message(c) ==
    /\ reader[c] = "next" /\ peer[c] # "closed"
    /\ reader' = [reader EXCEPT ![c] = "check"]
    /\ UNCHANGED <<tray, manager, holder, peer, forced, notes, steps>>

\* A message of closing, an error or the end of the stream.
Close(c) ==
    /\ reader[c] = "next" /\ peer[c] = "closed"
    /\ reader' = [reader EXCEPT ![c] = "remove"]
    /\ UNCHANGED <<tray, manager, holder, peer, forced, notes, steps>>

Remove(c) ==
    /\ reader[c] = "remove" /\ Unlocked
    /\ manager' = manager \ {c} /\ reader' = [reader EXCEPT ![c] = "ended"]
    /\ UNCHANGED <<tray, holder, peer, forced, notes, steps>>

\* The core ends a connection by itself, or because it was asked to.
PeerCloses(c) ==
    /\ reader[c] # "none" /\ peer[c] # "closed" /\ peer' = [peer EXCEPT ![c] = "closed"]
    /\ UNCHANGED <<tray, manager, holder, reader, forced, notes, steps>>

ForceRemove(c) ==
    /\ c \in forced /\ Unlocked
    /\ forced' = forced \ {c} /\ manager' = manager \ {c}
    /\ UNCHANGED <<tray, holder, reader, peer, notes, steps>>

\* A page that is loaded clears the connections of everybody.
ClearAllWsConnections ==
    /\ UserStep /\ Unlocked /\ manager # {} /\ manager' = {}
    /\ UNCHANGED <<tray, holder, reader, peer, forced, notes>>

\* disconnect: an id that is not in the map is an error; otherwise the lock is held
\* while the message of closing is written.
Lock(a) ==
    /\ taken[a] \in manager /\ Unlocked /\ holder' = a
    /\ UNCHANGED <<manager, reader, peer, forced>>

NotFound(a) ==
    /\ taken[a] \notin manager /\ Unlocked
    /\ UNCHANGED sockets

Sent(a) ==
    /\ holder = a /\ holder' = None
    /\ forced' = forced \cup {taken[a]}
    /\ UNCHANGED <<manager, reader, peer>>

-----------------------------------------------------------------------------
(* The task.                                                               *)

Running(t) == pc[t] \notin {"none", "ended"}

TaskRuns == speedTask # None /\ Running(speedTask)

\* start_task leaves alone a task that has not finished.
StartTask ==
    /\ UserStep /\ ~exiting
    /\ ~TaskRuns
    /\ \E t \in Tasks :
        /\ pc[t] = "none" /\ \A u \in Tasks : u < t => pc[u] # "none"
        /\ speedTask' = t /\ pc' = [pc EXCEPT ![t] = "turn"]
    /\ UNCHANGED <<speedId, aborted, made, cleanup, taken, sockets, notes>>

\* stop_task takes the handle and spawns the clean-up, with or without a task.
StopTask ==
    /\ UserStep /\ speedTask' = None
    /\ cleanup' = [cleanup EXCEPT ![-steps'] = [at |-> "spawned", task |-> speedTask]]
    /\ UNCHANGED <<speedId, pc, aborted, made, taken, sockets, notes>>

\* set_speed_connection_id and what it forgets.
SetSpeedConnectionId(c) ==
    /\ speedId' = c
    /\ overwritten' = overwritten \cup ({speedId} \ {None, c})

Connected(t) ==
    /\ pc[t] = "connect" /\ t \notin aborted
    /\ \E c \in Conns : Insert(c) /\ made' = [made EXCEPT ![t] = c]
    /\ pc' = [pc EXCEPT ![t] = "inserted"]
    /\ UNCHANGED <<speedTask, speedId, aborted, cleanup, taken, holder, peer, forced, notes, steps>>

Stored(t) ==
    /\ pc[t] = "inserted" /\ SetSpeedConnectionId(made[t])
    /\ pc' = [pc EXCEPT ![t] = "listen"] /\ made' = [made EXCEPT ![t] = None]
    /\ UNCHANGED <<speedTask, aborted, cleanup, taken, sockets, exiting, dropped, steps>>

ConnectFailed(t) ==
    /\ pc[t] = "connect" /\ t \notin aborted /\ pc' = [pc EXCEPT ![t] = "turn"]
    /\ UNCHANGED <<speedTask, speedId, aborted, made, cleanup, taken, sockets, notes, steps>>

\* take_speed_connection_id.
Take(a) ==
    /\ speedId' = None /\ taken' = [taken EXCEPT ![a] = speedId]

\* Stale, Closed or ExitRequested: it disconnects the id in the cell, if any.
ListeningEnds(t) ==
    /\ pc[t] = "listen" /\ t \notin aborted /\ Take(t)
    /\ pc' = [pc EXCEPT ![t] = IF speedId = None THEN "turn" ELSE "disconnect"]
    /\ UNCHANGED <<speedTask, aborted, made, cleanup, sockets, notes, steps>>

LockedByTask(t) ==
    /\ pc[t] = "disconnect" /\ t \notin aborted /\ Lock(t)
    /\ UNCHANGED <<tray, notes, steps>>

DisconnectedByTask(t) ==
    /\ pc[t] = "disconnect" /\ t \notin aborted /\ (NotFound(t) \/ Sent(t))
    /\ taken' = [taken EXCEPT ![t] = None] /\ pc' = [pc EXCEPT ![t] = "turn"]
    /\ UNCHANGED <<speedTask, speedId, aborted, made, cleanup, notes, steps>>

\* A turn of the loop, the next ones after TRAY_SPEED_RETRY_DELAY.
Retry(t) ==
    /\ pc[t] = "turn" /\ t \notin aborted /\ ~exiting
    /\ pc' = [pc EXCEPT ![t] = "connect"]
    /\ UNCHANGED <<speedTask, speedId, aborted, made, cleanup, taken, sockets, notes, steps>>

LeaveLoop(t) ==
    /\ pc[t] = "turn" /\ t \notin aborted /\ exiting
    /\ pc' = [pc EXCEPT ![t] = "ended"] /\ SetSpeedConnectionId(None)
    /\ UNCHANGED <<speedTask, aborted, made, cleanup, taken, sockets, exiting, dropped, steps>>

\* The abort takes effect at an await, and drops what is under way there.
Aborted(t) ==
    /\ t \in aborted /\ Running(t) /\ pc[t] # "inserted"
    /\ pc' = [pc EXCEPT ![t] = "ended"] /\ taken' = [taken EXCEPT ![t] = None]
    /\ dropped' = dropped \cup ({taken[t]} \ {None})
    /\ holder' = IF holder = t THEN None ELSE holder
    /\ UNCHANGED <<speedTask, speedId, aborted, made, cleanup, manager, reader, peer, forced, exiting,
                   overwritten, steps>>

-----------------------------------------------------------------------------
(* The clean-up of a stop.                                                 *)

\* A task that runs may notice the abort some awaits later: it is then as if the abort
\* came as late, for the clean-up only waits.
Abort(k) ==
    /\ cleanup[k].at = "spawned" /\ cleanup[k].task # None
    /\ aborted' = aborted \cup {cleanup[k].task} /\ cleanup' = [cleanup EXCEPT ![k].at = "wait"]
    /\ UNCHANGED <<speedTask, speedId, pc, made, taken, sockets, notes, steps>>

\* Mutant of the next definition: the id is taken without waiting for the task.
JoinedAtOnce(k) == cleanup[k].at = "wait" \/ cleanup[k].task = None

Joined(k) ==
    \/ cleanup[k].at = "wait" /\ ~Running(cleanup[k].task)
    \/ cleanup[k].at = "spawned" /\ cleanup[k].task = None

TakenByStop(k) ==
    /\ cleanup[k].at \in {"spawned", "wait"} /\ Joined(k) /\ Take(k)
    /\ cleanup' = [cleanup EXCEPT ![k].at = IF speedId = None THEN "done" ELSE "disconnect"]
    /\ UNCHANGED <<speedTask, pc, aborted, made, sockets, notes, steps>>

LockedByStop(k) ==
    /\ cleanup[k].at = "disconnect" /\ Lock(k)
    /\ UNCHANGED <<tray, notes, steps>>

DisconnectedByStop(k) ==
    /\ cleanup[k].at = "disconnect" /\ (NotFound(k) \/ Sent(k))
    /\ taken' = [taken EXCEPT ![k] = None] /\ cleanup' = [cleanup EXCEPT ![k].at = "done"]
    /\ UNCHANGED <<speedTask, speedId, pc, aborted, made, notes, steps>>

Exit ==
    /\ UserStep /\ ~exiting /\ exiting' = TRUE
    /\ UNCHANGED <<tray, sockets, overwritten, dropped>>

-----------------------------------------------------------------------------
\* When the tray is made the task is started, or not.
Init ==
    /\ speedTask \in {None, 1} /\ speedId = None
    /\ pc = [t \in Tasks |-> IF t = speedTask THEN "turn" ELSE "none"]
    /\ aborted = {} /\ made = [t \in Tasks |-> None]
    /\ cleanup = [k \in Stops |-> [at |-> "none", task |-> None]]
    /\ taken = [a \in Tasks \cup Stops |-> None]
    /\ manager = {} /\ holder = None /\ forced = {}
    /\ reader = [c \in Conns |-> "none"] /\ peer = [c \in Conns |-> "open"]
    /\ exiting = FALSE /\ overwritten = {} /\ dropped = {} /\ steps = 0

Next ==
    \/ StartTask \/ StopTask \/ ClearAllWsConnections \/ Exit
    \/ \E t \in Tasks :
        \/ Connected(t) \/ Stored(t) \/ ConnectFailed(t) \/ ListeningEnds(t) \/ LockedByTask(t)
        \/ DisconnectedByTask(t) \/ Retry(t) \/ LeaveLoop(t) \/ Aborted(t)
    \/ \E k \in Stops : Abort(k) \/ TakenByStop(k) \/ LockedByStop(k) \/ DisconnectedByStop(k)
    \/ \E c \in Conns : Look(c) \/ Message(c) \/ Close(c) \/ Remove(c) \/ PeerCloses(c) \/ ForceRemove(c)

Spec == Init /\ [][Next]_vars

TypeOK ==
    /\ speedTask \in Tasks \cup {None} /\ speedId \in Conns \cup {None}
    /\ pc \in [Tasks -> {"none", "turn", "connect", "inserted", "listen", "disconnect", "ended"}]
    /\ aborted \subseteq Tasks /\ made \in [Tasks -> Conns \cup {None}]
    /\ cleanup \in [Stops -> [at : {"none", "spawned", "wait", "disconnect", "done"},
                              task : Tasks \cup {None}]]
    /\ taken \in [Tasks \cup Stops -> Conns \cup {None}]
    /\ manager \subseteq Conns /\ holder \in Tasks \cup Stops \cup {None}
    /\ reader \in [Conns -> {"none", "check", "next", "remove", "ended"}]
    /\ peer \in [Conns -> {"open", "closed"}] /\ forced \subseteq Conns
    /\ steps \in 0..MaxSteps

-----------------------------------------------------------------------------
(* Properties.                                                             *)

\* Clean-ups that will take the id in the cell.
Taking == {k \in Stops : cleanup[k].at \in {"spawned", "wait"}}

Cleaning == \E k \in Stops : cleanup[k].at \notin {"none", "done"}

Owned(c) ==
    \/ speedId = c /\ (TaskRuns \/ Taking # {})
    \/ \E t \in Tasks : made[t] = c
    \/ \E a \in Tasks \cup Stops : taken[a] = c
    \/ c \in forced \/ peer[c] = "closed"

\* A connection of the map has somebody who will end it, whoever was aborted, was
\* started meanwhile or took the id of another, except one whose id was overwritten
\* or whose disconnect was aborted (speed_task.rs:135).
ConnectionsOwned == \A c \in manager \ (overwritten \cup dropped) : Owned(c)

\* What is in the map is read until it is removed (mihomo.rs:195).
EntriesServed == \A c \in manager : reader[c] \in {"check", "next", "remove"}

\* Once the clean-ups of the stops have ended, no task and no id are left behind
\* (speed_task.rs:124).
StoppedEnds ==
    (speedTask = None /\ ~Cleaning) => speedId = None /\ \A t \in Tasks : ~Running(t)

=============================================================================
