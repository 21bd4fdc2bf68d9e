---------------------------- MODULE SidebarGraph ----------------------------
(***************************************************************************)
(* The small graph of the sidebar (traffic-graph.tsx, layout-traffic.tsx): *)
(* a sample a second, an animation of fifteen frames a second for each.    *)
(***************************************************************************)
EXTENDS Naturals, Sequences

CONSTANTS
    Points,  \* maxPoint
    MaxSteps \* bound: samples, clicks, changes

VARIABLES
    mounted,
    cache,      \* cacheRef: whether there has been traffic since the last sample
    list,       \* listRef: whether there was, in each sample
    style,      \* styleRef
    timer,      \* of samples
    raf,        \* the frame asked for: "none", "still" or "animated"
    frameTimer, \* whether the animation waits for its next frame
    drawn,      \* list and style of the last drawing
    steps

draws == <<raf, frameTimer>>
vars == <<mounted, cache, list, style, timer, draws, drawn, steps>>

TypeOK ==
    /\ {mounted, cache, style, timer, frameTimer} \subseteq BOOLEAN
    /\ list \in Seq(BOOLEAN) /\ raf \in {"none", "still", "animated"}

CreateDefaultList == [i \in 1..(Points + 2) |-> FALSE]
HasRetainedTraffic == \E i \in DOMAIN list : list[i]

UserStep == steps < MaxSteps /\ steps' = steps + 1

\* Mutant of the next definition: what is pending is not cancelled.
RequestDrawAlso(animate) ==
    /\ raf' = IF animate THEN "animated" ELSE "still"
    /\ UNCHANGED frameTimer

\* requestDraw, with cancelPendingDraw.
RequestDraw(animate) ==
    /\ raf' = IF animate THEN "animated" ELSE "still"
    /\ frameTimer' = FALSE

\* drawGraph: the list and the style of the time of the drawing.
DrawGraph == drawn' = [list |-> list, style |-> style]

StillFrame ==
    /\ raf = "still" /\ raf' = "none" /\ DrawGraph
    /\ UNCHANGED <<mounted, cache, list, style, timer, frameTimer, steps>>

\* drawAnimatedFrame: it is too early for it, or it draws and the animation goes
\* on, or ends.
AnimatedFrame(early, done) ==
    /\ raf = "animated"
    /\ raf' = IF early \/ done THEN "none" ELSE raf
    /\ frameTimer' = (frameTimer \/ early)
    /\ IF early THEN UNCHANGED drawn ELSE DrawGraph
    /\ UNCHANGED <<mounted, cache, list, style, timer, steps>>

FrameTimer ==
    /\ frameTimer /\ frameTimer' = FALSE /\ raf' = "animated"
    /\ UNCHANGED <<mounted, cache, list, style, timer, drawn, steps>>

\* A message of the core, which LayoutTraffic passes on.
AppendData ==
    /\ UserStep /\ mounted /\ cache' = TRUE
    /\ UNCHANGED <<mounted, list, style, timer, draws, drawn>>

\* handleData
HandleData ==
    /\ timer /\ cache' = FALSE
    /\ IF cache \/ HasRetainedTraffic
       THEN /\ list' = Append(IF Len(list) > Points + 2 THEN Tail(list) ELSE list, cache)
            /\ RequestDraw(TRUE)
       ELSE UNCHANGED <<list, draws>>
    /\ UNCHANGED <<mounted, style, timer, drawn, steps>>

ToggleStyle ==
    /\ UserStep /\ mounted /\ style' = ~style /\ RequestDraw(FALSE)
    /\ UNCHANGED <<mounted, cache, list, timer, drawn>>

\* Another size or palette.
Redraw ==
    /\ UserStep /\ mounted /\ RequestDraw(FALSE)
    /\ UNCHANGED <<mounted, cache, list, style, timer, drawn>>

Mount ==
    /\ UserStep /\ ~mounted /\ mounted' = TRUE
    /\ list' = CreateDefaultList /\ style' = TRUE /\ cache' = FALSE /\ timer' = TRUE
    /\ raf' = "still" /\ frameTimer' = FALSE
    /\ drawn' = [list |-> <<>>, style |-> TRUE]

Unmount ==
    /\ UserStep /\ mounted /\ mounted' = FALSE
    /\ timer' = FALSE /\ raf' = "none" /\ frameTimer' = FALSE
    /\ UNCHANGED <<cache, list, style, drawn>>

Init ==
    /\ mounted = FALSE /\ cache = FALSE /\ list = CreateDefaultList /\ style = TRUE
    /\ timer = FALSE /\ raf = "none" /\ frameTimer = FALSE
    /\ drawn = [list |-> <<>>, style |-> TRUE] /\ steps = 0

Next ==
    \/ StillFrame \/ FrameTimer \/ \E early, done \in BOOLEAN : AnimatedFrame(early, done)
    \/ AppendData \/ HandleData \/ ToggleStyle \/ Redraw \/ Mount \/ Unmount

Spec == Init /\ [][Next]_vars

-----------------------------------------------------------------------------

\* One drawing is pending at most, none without the graph, and when none is, the
\* graph shows all samples in the style chosen (traffic-graph.tsx:245).
DrawsLatest ==
    /\ ~(raf # "none" /\ frameTimer)
    /\ ~mounted => raf = "none" /\ ~frameTimer /\ ~timer
    /\ mounted /\ raf = "none" /\ ~frameTimer => drawn = [list |-> list, style |-> style]
=============================================================================
