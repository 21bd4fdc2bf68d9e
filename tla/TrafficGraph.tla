---------------------------- MODULE TrafficGraph ----------------------------
(***************************************************************************)
(* The graph of the home page (enhanced-canvas-traffic-graph.tsx) inside   *)
(* its error boundary (traffic-error-boundary.tsx).                        *)
(*                                                                         *)
(* A series is known by its name, its length, its least and its greatest   *)
(* speed and the time of its last point.  Frames of animation are          *)
(* callbacks of the rendering that asked for them: each keeps the series,  *)
(* the style and the range of that rendering.                              *)
(***************************************************************************)
EXTENDS Integers, Sequences

CONSTANTS
    Width,     \* of the plot, in pixels
    Lengths,   \* numbers of points that a series may have
    Highest,   \* bound: speed
    Stale,     \* STALE_DATA_THRESHOLD, in ticks
    MaxClock,  \* bound: ticks
    MaxSteps   \* bound: events, of the user and of the page

None == [n |-> -1]
Empty == [id |-> 0, n |-> 0, lo |-> 0, hi |-> 0, t |-> 0]

VARIABLES
    boundary,  \* hasError and retryCount of the error boundary
    mounted,   \* whether the graph is
    points,    \* dataPoints of the last rendering
    debounced, \* series that debounceTimeoutRef is about to show
    display,   \* displayData
    style, range,
    visible, focused, \* isDocumentVisibleRef, isWindowFocusedRef
    pause,     \* pause_render_traffic_stats_on_blur
    lastData, stale,  \* lastDataTimestampRef, dataStaleRef
    mouse,     \* pendingMousePositionRef, -1 for none
    moveFrame, drawFrame, hoverFrame, \* frames asked for, and what they draw
    tooltip,
    canvas,    \* what is drawn
    clock, steps

shown == <<points, debounced, display, style, range>>
window == <<visible, focused, pause>>
frames == <<mouse, moveFrame, drawFrame, hoverFrame>>
vars == <<boundary, mounted, shown, window, lastData, stale, frames, tooltip, canvas, clock, steps>>

Ranges == {1, 5, 10}
MaxRetries == 3
Series == {s \in [id : 1..MaxSteps, n : Lengths, lo : 0..Highest, hi : 0..Highest, t : 0..MaxClock] :
             s.lo <= s.hi /\ s.n > 0}
NoTooltip == [visible |-> FALSE, index |-> -1]

UserStep == steps < MaxSteps /\ steps' = steps + 1

TypeOK ==
    /\ boundary.failed \in BOOLEAN /\ boundary.retries \in 0..MaxRetries
    /\ style \in {"bezier", "line"} /\ range \in Ranges
    /\ {points, display} \subseteq Series \cup {Empty}
    /\ debounced \in Series \cup {Empty, None} /\ mouse \in -1..Width

-----------------------------------------------------------------------------
(* Geometry, in tenths of the speed.                                       *)

\* Mutant of the next definition: series of one speed are not told apart.
PlainScale(s) ==
    LET spread == s.hi - s.lo
    IN  IF s.n = 0 \/ s.hi = 0 THEN [top |-> 10240, bottom |-> 0]
        ELSE [top |-> 10 * s.hi + spread, bottom |-> IF 10 * s.lo > spread THEN 10 * s.lo - spread ELSE 0]

\* computeYScale
Scale(s) ==
    LET spread == s.hi - s.lo
    IN  IF s.n = 0 \/ s.hi = 0 THEN [top |-> 10240, bottom |-> 0]
        ELSE IF spread = 0 THEN [top |-> 12 * s.hi, bottom |-> 0]
        ELSE [top |-> 10 * s.hi + spread, bottom |-> IF 10 * s.lo > spread THEN 10 * s.lo - spread ELSE 0]

\* calculateY, as a share of the height between the ends of the axis.
Y(v, scale) == [over |-> 10 * v - scale.bottom, under |-> scale.top - scale.bottom]

\* getYAxisTicks, drawYAxis
Ticks(scale) == <<scale.bottom, (scale.bottom + scale.top) \div 2, scale.top>>

\* drawTrafficLine: the ends of the line, of two points at least.
Line(s, scale) == IF s.n < 2 THEN {} ELSE {Y(s.lo, scale), Y(s.hi, scale)}

\* getTimeDisplayStrategy
Strategy(r) ==
    CASE r = 1 -> [labels |-> 6, apart |-> 35]
      [] r = 5 -> [labels |-> 6, apart |-> 38]
      [] OTHER -> [labels |-> 8, apart |-> 40]

CeilDiv(a, b) == (a + b - 1) \div b
Larger(a, b) == IF a > b THEN a ELSE b

\* drawTimeAxis: the points that have a label, at index i of n.
TimeLabels(n, r) ==
    LET s == Strategy(r)
        target == IF n < s.labels THEN n ELSE s.labels
        step == IF target = 1 THEN n ELSE Larger(1, n \div (target - 1))
        each == Larger(step, CeilDiv(n * s.apart, Width))
        inner == {i \in 1..(n - 1 - each) : i % each = 0}
        before == IF inner = {} THEN 0 ELSE CHOOSE i \in inner : \A j \in inner : j <= i
        last == IF n > 1 /\ (n - 1 - before) * Width >= s.apart * (n - 1) THEN {n - 1} ELSE {}
    IN  IF n = 0 THEN {} ELSE {0} \cup inner \cup last

Picture(s, st, r) == [series |-> s, style |-> st, range |-> r]
Blank == Picture(Empty, "bezier", 10)

-----------------------------------------------------------------------------
(* Drawing.                                                                *)

\* scheduleDrawGraph and scheduleHoverDraw of a rendering: a frame that is pending
\* stays as it is.
ScheduleDraw(s, st, r) == IF drawFrame = None THEN [n |-> s.n, of |-> Picture(s, st, r)] ELSE drawFrame
ScheduleHover(s) == IF hoverFrame = None THEN [n |-> s.n] ELSE hoverFrame

\* shouldSkipGraphDraw: it may find the data stale.
TooOld == lastData > 0 /\ clock - lastData > Stale
SkipsDraw == ~visible \/ (~focused /\ pause) \/ TooOld \/ stale

\* The frame of drawGraph and drawHoverOverlay.
DrawGraph ==
    /\ drawFrame # None /\ drawFrame' = None
    /\ stale' = (stale \/ (visible /\ (focused \/ ~pause) /\ TooOld))
    /\ canvas' = IF SkipsDraw THEN canvas ELSE drawFrame.of
    /\ UNCHANGED <<boundary, mounted, shown, window, lastData, mouse, moveFrame, hoverFrame, tooltip, clock, steps>>

DrawHoverOverlay ==
    /\ hoverFrame # None /\ hoverFrame' = None
    /\ UNCHANGED <<boundary, mounted, shown, window, lastData, stale, mouse, moveFrame, drawFrame, tooltip, canvas, clock, steps>>

\* What the effects that follow a new rendering schedule.
Rendered(s, st, r) ==
    /\ drawFrame' = ScheduleDraw(s, st, r)
    /\ hoverFrame' = ScheduleHover(s)

-----------------------------------------------------------------------------
(* Data.                                                                   *)

\* updateDisplayData: the monitor has a new series, which is shown in 50 ms.
NewPoints(s) ==
    /\ UserStep /\ mounted /\ s # points /\ points' = s
    /\ debounced' = s
    /\ UNCHANGED <<boundary, mounted, display, style, range, window, lastData, stale, frames, tooltip, canvas, clock>>

\* displayDataReducer, and the effect that looks at the age of the series.
ShowPoints ==
    /\ debounced # None /\ debounced' = None
    /\ display' = debounced
    /\ IF display = debounced THEN UNCHANGED <<lastData, stale, drawFrame, hoverFrame>>
       ELSE /\ lastData' = debounced.t
            /\ stale' = (debounced.n > 0 /\ debounced.t > 0 /\ clock - debounced.t > Stale)
            /\ Rendered(debounced, style, range)
    /\ UNCHANGED <<boundary, mounted, points, style, range, window, mouse, moveFrame, tooltip, canvas, clock, steps>>

-----------------------------------------------------------------------------
(* The user and the page.                                                  *)

HandleTimeRangeClick ==
    /\ UserStep /\ mounted
    /\ range' = (CASE range = 1 -> 5 [] range = 5 -> 10 [] OTHER -> 1)
    /\ Rendered(display, style, range')
    /\ UNCHANGED <<boundary, mounted, points, debounced, display, style, window, lastData, stale, mouse, moveFrame, tooltip, canvas, clock>>

\* A click is handled by the canvas or not, and by the box and the paper around it:
\* two or three calls of toggleStyle.
ToggleStyle(onCanvas) ==
    /\ UserStep /\ mounted
    /\ style' = IF onCanvas THEN (IF style = "bezier" THEN "line" ELSE "bezier") ELSE style
    /\ IF onCanvas THEN Rendered(display, style', range) ELSE UNCHANGED <<drawFrame, hoverFrame>>
    /\ UNCHANGED <<boundary, mounted, points, debounced, display, range, window, lastData, stale, mouse, moveFrame, tooltip, canvas, clock>>

\* handleMouseMove: the first move asks for a frame, later ones change its position.
HandleMouseMove(x) ==
    /\ UserStep /\ mounted /\ display.n > 0 /\ mouse' = x
    /\ moveFrame' = IF moveFrame = None THEN [n |-> display.n] ELSE moveFrame
    /\ UNCHANGED <<boundary, mounted, shown, window, lastData, stale, drawFrame, hoverFrame, tooltip, canvas, clock>>

\* The point that is the nearest to position x.
Nearest(x, n) == (2 * x * (n - 1) + Width) \div (2 * Width)

MoveTooltip ==
    /\ moveFrame # None /\ moveFrame' = None /\ mouse' = -1
    /\ tooltip' = [visible |-> TRUE, index |-> Nearest(mouse, moveFrame.n)]
    /\ hoverFrame' = IF tooltip' = tooltip THEN hoverFrame ELSE ScheduleHover(display)
    /\ UNCHANGED <<boundary, mounted, shown, window, lastData, stale, drawFrame, canvas, clock, steps>>

HandleMouseLeave ==
    /\ UserStep /\ mounted /\ mouse' = -1 /\ moveFrame' = None
    /\ tooltip' = [tooltip EXCEPT !.visible = FALSE]
    /\ hoverFrame' = IF tooltip' = tooltip THEN hoverFrame ELSE ScheduleHover(display)
    /\ UNCHANGED <<boundary, mounted, shown, window, lastData, stale, drawFrame, canvas, clock>>

\* handleFocusStateChange: focus and blur of the window, and its visibility.
FocusChanges(v, f) ==
    /\ UserStep /\ mounted /\ <<v, f>> # <<visible, focused>>
    /\ v # visible => f = v
    /\ visible' = v /\ focused' = f
    /\ drawFrame' = ScheduleDraw(display, style, range)
    /\ UNCHANGED <<boundary, mounted, shown, pause, lastData, stale, mouse, moveFrame, hoverFrame, tooltip, canvas, clock>>

\* The observer of the size of the canvas.
Resize ==
    /\ UserStep /\ mounted /\ drawFrame' = ScheduleDraw(display, style, range)
    /\ UNCHANGED <<boundary, mounted, shown, window, lastData, stale, mouse, moveFrame, hoverFrame, tooltip, canvas, clock>>

Tick ==
    /\ clock < MaxClock /\ clock' = clock + 1
    /\ UNCHANGED <<boundary, mounted, shown, window, lastData, stale, frames, tooltip, canvas, steps>>

-----------------------------------------------------------------------------
(* Mounting.                                                               *)

\* Mutant of the next definition: the series that is about to be shown is forgotten.
CancelsFrames == drawFrame' = None /\ hoverFrame' = None /\ moveFrame' = None /\ UNCHANGED debounced

\* The cleanups of the effects.
Cancels == drawFrame' = None /\ hoverFrame' = None /\ debounced' = None /\ moveFrame' = None

Unmounts ==
    /\ mounted /\ mounted' = FALSE /\ Cancels
    /\ UNCHANGED <<points, display, style, range, window, lastData, stale, mouse, tooltip, canvas, clock>>

Unmount == UserStep /\ Unmounts /\ UNCHANGED boundary

\* An error of a rendering: the boundary shows its fallback.
ComponentDidCatch == UserStep /\ Unmounts /\ boundary' = [boundary EXCEPT !.failed = TRUE]

Mounts ==
    /\ ~mounted /\ mounted' = TRUE
    /\ points' = Empty /\ debounced' = Empty /\ display' = Empty /\ style' = "bezier" /\ range' = 10
    /\ lastData' = 0 /\ stale' = FALSE /\ mouse' = -1 /\ moveFrame' = None
    /\ Rendered(Empty, "bezier", 10)
    /\ focused' = visible /\ tooltip' = NoTooltip /\ canvas' = Blank
    /\ UNCHANGED <<visible, pause, clock>>

Mount == UserStep /\ ~boundary.failed /\ Mounts /\ UNCHANGED boundary

HandleRetry ==
    /\ UserStep /\ boundary.failed /\ boundary.retries < MaxRetries
    /\ boundary' = [failed |-> FALSE, retries |-> boundary.retries + 1]
    /\ Mounts

-----------------------------------------------------------------------------

Init ==
    /\ boundary = [failed |-> FALSE, retries |-> 0] /\ mounted = FALSE
    /\ points = Empty /\ debounced = None /\ display = Empty /\ style = "bezier" /\ range = 10
    /\ visible = TRUE /\ focused = TRUE /\ pause \in BOOLEAN
    /\ lastData = 0 /\ stale = FALSE /\ mouse = -1
    /\ moveFrame = None /\ drawFrame = None /\ hoverFrame = None
    /\ tooltip = NoTooltip /\ canvas = Blank /\ clock = 1 /\ steps = 0

\* A series that the monitor may have now.
Fresh(s) == s.id = steps + 1 /\ s.t = clock

Next ==
    \/ \E s \in Series : Fresh(s) /\ NewPoints(s)
    \/ ShowPoints \/ DrawGraph \/ DrawHoverOverlay
    \/ HandleTimeRangeClick \/ \E c \in BOOLEAN : ToggleStyle(c)
    \/ \E x \in {0, Width} : HandleMouseMove(x)
    \/ MoveTooltip \/ HandleMouseLeave
    \/ \E v, f \in BOOLEAN : FocusChanges(v, f)
    \/ Resize \/ Tick \/ Mount \/ Unmount \/ ComponentDidCatch \/ HandleRetry

Spec == Init /\ [][Next]_vars

-----------------------------------------------------------------------------
(* Properties.                                                             *)

\* A graph that is not mounted has nothing pending that would touch it
\* (enhanced-canvas-traffic-graph.tsx:1034).
FramesOwned ==
    ~mounted => drawFrame = None /\ hoverFrame = None /\ moveFrame = None /\ debounced = None

\* What is drawn lies within the axis, which has two ends, and labels of the times
\* do not overlap (enhanced-canvas-traffic-graph.tsx:297, 579).
DrawnInside ==
    LET s == canvas.series
        scale == Scale(s)
        labels == TimeLabels(s.n, canvas.range)
    IN  /\ Ticks(scale)[1] < Ticks(scale)[2] /\ Ticks(scale)[2] < Ticks(scale)[3]
        /\ \A y \in Line(s, scale) : y.over >= 0 /\ y.over <= y.under
        /\ \A i, j \in labels : i < j => (j - i) * Width >= Strategy(canvas.range).apart * (s.n - 1)
=============================================================================
