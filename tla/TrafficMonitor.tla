--------------------------- MODULE TrafficMonitor ---------------------------
(***************************************************************************)
(* The traffic of the last minutes: the components that count it           *)
(* (use-traffic-data.ts), the worker they share (use-traffic-monitor.ts,   *)
(* traffic-monitor-worker.ts), its sampler (traffic-sampler.ts) and the    *)
(* graph of the home page that shows it.                                   *)
(*                                                                         *)
(* The sidebar ("layout") is always mounted, the statistics and the graph  *)
(* with the home page.  All of them register with the worker while the     *)
(* graph is on and the page visible (`shown').  A message of the core is   *)
(* handled by one subscriber, with the appendData that it had when it      *)
(* subscribed.  Times are in fractions 1/Ratio of a tick of the clock, so  *)
(* that the mean of Ratio times is a whole number.                         *)
(***************************************************************************)
EXTENDS Integers, Sequences, TLC

CONSTANTS
    RawTicks,    \* rawDataMinutes, also the largest range of the graph
    PackedTicks, \* compressedDataMinutes
    Ratio,       \* compressionRatio
    MaxClock,    \* bound: ticks
    MaxMessages, \* bound: messages of the core
    MaxSteps     \* bound: steps of the user

Counters == {"layout", "stats"}
Speeds == 1..2

VARIABLES
    clock,
    shown,      \* the graph is on and the page visible
    home,       \* whether the home page is open
    captured,   \* whether each counter was enabled when it subscribed
    active,     \* activeOwner of the subscription
    last,       \* lastTrafficSignature, lastTrafficTimestamp
    worker,     \* whether there is one, its range, sampler and throttleTimer
    inbox,      \* messages to the worker
    outbox,     \* snapshots on their way from it
    held,       \* latestSnapshot.availableDataPoints of the graph
    now,        \* of the graph
    range,      \* rangeMinutes of the graph
    taken,      \* history: the points appended since the worker was started
    messages,   \* of the core, so far
    steps       \* of the user, so far

counting == <<captured, active, last, messages>>
graph == <<held, now, range>>
vars == <<clock, shown, home, counting, worker, inbox, outbox, graph, taken, steps>>

Time(c) == Ratio * c
EmptySampler == [raw |-> <<>>, packed |-> <<>>, queue |-> <<>>]
NoWorker == [on |-> FALSE, range |-> RawTicks, sampler |-> EmptySampler, throttled |-> FALSE]

TypeOK ==
    /\ clock \in 0..MaxClock /\ now \in 0..MaxClock
    /\ captured \in [Counters -> BOOLEAN] /\ active \in Counters
    /\ worker.on \in BOOLEAN /\ worker.throttled \in BOOLEAN

UserStep == steps < MaxSteps /\ steps' = steps + 1

Registered == IF ~shown THEN {} ELSE {"layout"} \cup IF home THEN {"stats", "graph"} ELSE {}
GraphMounted == "graph" \in Registered

-----------------------------------------------------------------------------
(* TrafficDataSampler.                                                     *)

After(points, c) == SelectSeq(points, LAMBDA p : p.t > Time(c))
Sum(q) == LET f[i \in 0..Len(q)] == IF i = 0 THEN 0 ELSE f[i - 1] + q[i].t IN f[Len(q)]

Packed(q) == [t |-> Sum(q) \div Ratio, v |-> 0]

AddDataPoint(s, p) ==
    LET queue == Append(s.queue, p)
        full == Len(queue) >= Ratio
        packed == IF full THEN Append(s.packed, Packed(queue)) ELSE s.packed
    IN  [raw |-> After(Append(s.raw, p), clock - RawTicks),
         queue |-> IF full THEN <<>> ELSE queue,
         packed |-> After(packed, clock - PackedTicks)]

\* Mutant of the next definition: compressed points are not limited to those older
\* than the raw ones.
AllForRange(s, ticks) ==
    IF ticks <= RawTicks THEN After(s.raw, clock - ticks)
    ELSE After(s.packed, clock - ticks) \o After(s.raw, clock - ticks)

\* Raw points of the time, before them the compressed ones that are older than those.
DataForTimeRange(s, ticks) ==
    LET raw == After(s.raw, clock - ticks)
        old == SelectSeq(After(s.packed, clock - ticks), LAMBDA p : p.t <= Time(clock - RawTicks))
    IN  IF ticks <= RawTicks THEN raw
        ELSE SortSeq(old \o raw, LAMBDA p, q : p.t < q.t)

-----------------------------------------------------------------------------
(* The worker: one message of its inbox at a time.                         *)

\* broadcastSnapshot
Snapshot(s) == Append(outbox, DataForTimeRange(s, PackedTicks))

Received ==
    /\ worker.on /\ inbox # <<>> /\ inbox' = Tail(inbox)
    /\ UNCHANGED <<clock, shown, home, counting, graph, taken, steps>>

HandleInit ==
    /\ Received /\ Head(inbox).type = "init"
    /\ worker' = [worker EXCEPT !.sampler = EmptySampler, !.range = Head(inbox).range]
    /\ outbox' = Append(outbox, <<>>)

HandleAppend ==
    /\ Received /\ Head(inbox).type = "append"
    /\ worker' = [worker EXCEPT !.sampler = AddDataPoint(@, Head(inbox).point), !.throttled = TRUE]
    /\ UNCHANGED outbox

HandleSetRange ==
    /\ Received /\ Head(inbox).type = "setRange"
    /\ worker' = [worker EXCEPT !.range = Head(inbox).range]
    /\ outbox' = IF worker.range # Head(inbox).range THEN Snapshot(worker.sampler) ELSE outbox

HandleRequest ==
    /\ Received /\ Head(inbox).type = "request"
    /\ outbox' = Snapshot(worker.sampler) /\ UNCHANGED worker

\* The throttle of snapshots ends, 200 ms after the first append.
Throttled ==
    /\ worker.on /\ worker.throttled
    /\ worker' = [worker EXCEPT !.throttled = FALSE]
    /\ outbox' = Snapshot(worker.sampler)
    /\ UNCHANGED <<clock, shown, home, counting, inbox, graph, taken, steps>>

-----------------------------------------------------------------------------
(* TrafficWorkerClient: what the worker, its inbox, its outbox and `taken' *)
(* become.                                                                 *)

InitMessage == [type |-> "init", range |-> worker.range]

\* ensureStarted, and the messages that are posted then.
Post(posted) ==
    /\ inbox' = (IF worker.on THEN inbox ELSE <<InitMessage>>) \o posted
    /\ worker' = [worker EXCEPT !.on = TRUE]
    /\ UNCHANGED outbox

Stop ==
    /\ worker' = [NoWorker EXCEPT !.range = worker.range]
    /\ inbox' = <<>> /\ outbox' = <<>> /\ taken' = {}

-----------------------------------------------------------------------------
(* Components.                                                             *)

\* The graph is mounted: the effects start the worker, listen, ask for a snapshot
\* and for the range.
Mounting ==
    /\ Post(<<[type |-> "request"], [type |-> "setRange", range |-> RawTicks]>>)
    /\ held' = <<>> /\ now' = clock /\ range' = RawTicks

Show ==
    /\ UserStep /\ ~shown /\ shown' = TRUE
    /\ IF home THEN Mounting ELSE Post(<<>>) /\ UNCHANGED graph
    /\ UNCHANGED <<clock, home, counting, taken>>

\* Mutant of the next definition: the cleanup of each stops the worker.
StopWithPage ==
    /\ UserStep /\ home /\ home' = FALSE
    /\ active' = "layout"
    /\ IF shown THEN Stop ELSE UNCHANGED <<worker, inbox, outbox, taken>>
    /\ UNCHANGED <<clock, shown, captured, last, messages, graph>>

\* The page is hidden or the graph turned off: the last one registered stops the worker.
Hide == UserStep /\ shown /\ shown' = FALSE /\ Stop /\ UNCHANGED <<clock, home, counting, graph>>

OpenHome ==
    /\ UserStep /\ ~home /\ home' = TRUE
    /\ captured' = [captured EXCEPT !["stats"] = shown]
    /\ IF shown THEN Mounting ELSE UNCHANGED <<worker, inbox, outbox, graph>>
    /\ UNCHANGED <<clock, shown, active, last, messages, taken>>

LeaveHome ==
    /\ UserStep /\ home /\ home' = FALSE
    /\ active' = "layout"
    /\ UNCHANGED <<clock, shown, captured, last, messages, worker, inbox, outbox, graph, taken>>

\* shouldSkipDuplicateTraffic: equal messages within 50 ms.
Duplicate(v) == last = [t |-> clock, v |-> v]

\* A message of the core, handled by the active subscriber.
HandleMessage(v) ==
    /\ messages < MaxMessages /\ messages' = messages + 1
    /\ LET point == [t |-> Time(clock), v |-> v]
       IN  /\ last' = [t |-> clock, v |-> v]
           /\ IF Duplicate(v) \/ ~captured[active] THEN UNCHANGED <<worker, inbox, outbox, taken>>
              ELSE /\ Post(<<[type |-> "append", point |-> point]>>)
                   /\ taken' = (IF worker.on THEN taken ELSE {}) \cup {point}
    /\ UNCHANGED <<clock, shown, home, captured, active, graph, steps>>

\* A click on the range: setTimeRange, then the effect that asks for it.
RequestRange(r) ==
    /\ UserStep /\ GraphMounted /\ r # range /\ range' = r
    /\ Post(<<[type |-> "setRange", range |-> r]>>)
    /\ UNCHANGED <<clock, shown, home, counting, held, now, taken>>

OnSnapshot ==
    /\ outbox # <<>> /\ outbox' = Tail(outbox)
    /\ held' = IF GraphMounted THEN Head(outbox) ELSE held
    /\ UNCHANGED <<clock, shown, home, counting, worker, inbox, now, range, taken, steps>>

\* The timer of a second.
RefreshNow ==
    /\ GraphMounted /\ now # clock /\ now' = clock
    /\ UNCHANGED <<clock, shown, home, counting, worker, inbox, outbox, held, range, taken, steps>>

Tick ==
    /\ clock < MaxClock /\ clock' = clock + 1
    /\ UNCHANGED <<shown, home, counting, worker, inbox, outbox, graph, taken, steps>>

FilteredDataPoints == After(held, now - range)

-----------------------------------------------------------------------------

\* A page that is rendered while it is hidden subscribes with counting disabled.
Init ==
    /\ clock = 0 /\ home = FALSE /\ shown \in BOOLEAN
    /\ captured \in [Counters -> BOOLEAN] /\ (shown => captured["layout"])
    /\ ~captured["stats"]
    /\ active = "layout" /\ last = [t |-> -1, v |-> 0] /\ messages = 0
    /\ worker = [NoWorker EXCEPT !.on = shown]
    /\ inbox = (IF shown THEN <<InitMessage>> ELSE <<>>) /\ outbox = <<>>
    /\ held = <<>> /\ now = 0 /\ range = RawTicks /\ taken = {} /\ steps = 0

Next ==
    \/ HandleInit \/ HandleAppend \/ HandleSetRange \/ HandleRequest \/ Throttled
    \/ Show \/ Hide \/ OpenHome \/ LeaveHome
    \/ \E v \in Speeds : HandleMessage(v)
    \/ \E r \in 1..RawTicks : RequestRange(r)
    \/ OnSnapshot \/ RefreshNow \/ Tick

Spec == Init /\ [][Next]_vars

-----------------------------------------------------------------------------
(* Properties.                                                             *)

Quiet == inbox = <<>> /\ outbox = <<>> /\ ~worker.throttled /\ now = clock

\* When nothing is on its way, the graph shows each point that was appended and is
\* of its range, once and in order, whatever the throttle, the compression and
\* the restarts of the worker did (traffic-sampler.ts:94, use-traffic-monitor.ts:450).
SeriesComplete ==
    GraphMounted /\ Quiet =>
        LET s == FilteredDataPoints
        IN  /\ {s[i] : i \in DOMAIN s} = {p \in taken : p.t > Time(clock - range)}
            /\ \A i \in DOMAIN s \ {1} : s[i - 1].t <= s[i].t /\ s[i - 1] # s[i]

\* As long as a component is registered there is a worker
\* (use-traffic-monitor.ts:404).
WorkerServes == Registered # {} => worker.on
=============================================================================
