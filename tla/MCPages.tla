---------------------------------- MODULE MCPages ----------------------------------
(***************************************************************************)
(* Small instances of the components of the pages of the profiles, of the  *)
(* connections and of home, of those that serve all pages, and of the      *)
(* script of the locales, beside those of MCSettings.  They share no state *)
(* but the back end, of which each models what it sees, so a behaviour is  *)
(* one of a single component, which `part' names.                          *)
(***************************************************************************)
EXTENDS Streams, MCSettings

CONSTANTS
    PageProfiles, PageSteps,                \* for ProfilesPage
    DocTexts, DocValid, DocSteps,           \* for EditorDocument
    FormUids, FormSteps,                    \* for ProfileForm
    ItemRenders, ItemUpdates, ItemClicks,   \* for ProfileItem
    SampleTicks, PackTicks, PackRatio, MonitorClock, MonitorMessages,
    MonitorSteps,                           \* for TrafficMonitor
    PlotWidth, PlotLengths, PlotSpeed, PlotStale, PlotClock, PlotSteps, \* for TrafficGraph
    DataUsable, DataVersions, DataGrace, DataThrottle, DataClock,
    DataProfiles, DataProviders, DataSteps, \* for AppData
    LocaleSpaces, LocaleLeaves, LocaleBase, LocaleOthers, LocaleContents,
    LocaleTrees, LocaleWhitelist, LocaleRuns \* for LocaleCleanup

VARIABLES
    kind, file, open, vis, list, seq, text, queued, deferred, idle, reading,
    saving, edits, items, cur, seen, failed, mounted, pSeq, switching, calls,
    aborted, timers, activatings, enhancing, deletion, batch, chosen, import,
    restored, steps, dKind, dFile, dOpen, editor, value, saved, loading, run,
    loads, dSaving, dSteps, url, home, option, iBatch, activating, iMounted,
    renders, listening, menu, dialog, mark, locks, updates, started, events,
    showNext, schedule, fetched, next, soon, iAsked, clicks, stored, local,
    fOpen, openType, form, fFile, resets, fSaving, ended, current, fActivating,
    fSteps, core, opened, message, cache, rendered, throttled, pending, nKind,
    layout, order, matches, detail, closing, nSeen, forgiven, nSteps, cMounted,
    cOrder, hidden, widths, sorting, manager, visibleCount, tick, cells, cSteps,
    clock, shown, tHome, captured, tActive, last, worker, inbox, outbox, held,
    now, range, taken, messages, tSteps, boundary, gMounted, points, debounced,
    display, style, gRange, visible, focused, pause, lastData, stale, mouse,
    moveFrame, drawFrame, hoverFrame, tooltip, canvas, gClock, gSteps, bMounted,
    bCache, bList, bStyle, bTimer, raf, frameTimer, drawn, bSteps, format,
    sources, disk, backup, index, options, pc, ok, todo, data, writing, before,
    runs, aKind, aCore, raw, aLast, since, fallback, aTimer, badSince, aNow,
    fetching, loaded, aMounted, registering, listeners, cleanups, profileSeen,
    proxyRefresh, aOpen, updating, jobs, aSteps, nextId, notices, hTimers,
    copying, hClock, hAsked, hClosed

OneRule == <<"o">>
NoEdits == [p \in {"prepend", "append", "delete"} |-> <<>>]
SomeEdits == {NoEdits, [NoEdits EXCEPT !["prepend"] = <<"a", "b">>, !["delete"] = <<"o", "o">>]}
Arg(is, of) == [is |-> is, of |-> of]
SomeExtras ==
    {<<>>, <<Arg("error", 1)>>, <<Arg("record", 1), Arg("error", 1)>>, <<Arg("record", 1), Arg("record", 2)>>,
     <<Arg("number", 2), Arg("record", 0), Arg("error", 1)>>,
     <<Arg("null", 0), Arg("error", 1), Arg("number", 0)>>, <<Arg("number", 1)>>}
NoticeCalls ==
    {[type |-> "error", message |-> m, extras |-> e] :
        m \in {Arg("key", 1), Arg("text", 1), Arg("error", 2), Arg("element", 1)}, e \in SomeExtras}
ThreeColumns == <<"host", "time", "type">>
Text(f, n, l) == [form |-> f, space |-> n, leaf |-> l]
Trees ==
    {{Text("call", "n", "x")}, {Text("template", "n", ""), Text("condition", "m", "x")},
     {Text("rust", "m", "x"), Text("other", "n", "x"), Text("attribute", "n", "y")}}
TwoProviders == <<"m", "n">>
TextKeys == {{}, {<<"m", "x">>}, {<<"m", "x">>, <<"n", "x">>, <<"n", "y">>}}

E == INSTANCE ProfileEditors WITH
    Original <- OneRule, Files <- SomeEdits, New <- {"a"}, MaxEdits <- 4
P == INSTANCE ProfilesPage WITH
    seq <- pSeq, Profiles <- PageProfiles, MaxSteps <- PageSteps
D == INSTANCE EditorDocument WITH
    kind <- dKind, file <- dFile, open <- dOpen, saving <- dSaving,
    steps <- dSteps, Texts <- DocTexts, Valid <- DocValid, MaxSteps <- DocSteps
I == INSTANCE ProfileItem WITH
    batch <- iBatch, mounted <- iMounted, asked <- iAsked,
    MaxRenders <- ItemRenders, MaxUpdates <- ItemUpdates, MaxClicks <- ItemClicks
F == INSTANCE ProfileForm WITH
    open <- fOpen, file <- fFile, saving <- fSaving,
    activating <- fActivating, steps <- fSteps, Uids <- FormUids,
    MaxSteps <- FormSteps
N == INSTANCE Connections WITH
    kind <- nKind, seen <- nSeen, steps <- nSteps, Ids <- {1, 2},
    MaxBytes <- 1, MaxClosed <- 2, MaxSteps <- 2
C == INSTANCE ConnectionColumns WITH
    mounted <- cMounted, order <- cOrder, steps <- cSteps,
    BaseColumns <- ThreeColumns, OldColumns <- {"dns"}, MaxSteps <- 4
T == INSTANCE TrafficMonitor WITH
    home <- tHome, active <- tActive, steps <- tSteps,
    RawTicks <- SampleTicks, PackedTicks <- PackTicks, Ratio <- PackRatio,
    MaxClock <- MonitorClock, MaxMessages <- MonitorMessages,
    MaxSteps <- MonitorSteps
G == INSTANCE TrafficGraph WITH
    mounted <- gMounted, range <- gRange, clock <- gClock, steps <- gSteps,
    Width <- PlotWidth, Lengths <- PlotLengths, Highest <- PlotSpeed,
    Stale <- PlotStale, MaxClock <- PlotClock, MaxSteps <- PlotSteps
B == INSTANCE SidebarGraph WITH
    mounted <- bMounted, cache <- bCache, list <- bList, style <- bStyle,
    timer <- bTimer, steps <- bSteps, Points <- 2, MaxSteps <- 5
L == INSTANCE LocaleCleanup WITH
    Namespaces <- LocaleSpaces, Leaves <- LocaleLeaves, Baseline <- LocaleBase,
    Others <- LocaleOthers, Contents <- LocaleContents,
    SourceTrees <- LocaleTrees, Whitelist <- LocaleWhitelist,
    MaxRuns <- LocaleRuns
A == INSTANCE AppData WITH
    kind <- aKind, core <- aCore, last <- aLast, timer <- aTimer,
    now <- aNow, mounted <- aMounted, open <- aOpen, steps <- aSteps,
    Usable <- DataUsable, MaxVersion <- DataVersions, Grace <- DataGrace,
    Throttle <- DataThrottle, MaxClock <- DataClock,
    Profiles <- DataProfiles, Names <- DataProviders, MaxSteps <- DataSteps
H == INSTANCE Notices WITH
    timers <- hTimers, clock <- hClock, asked <- hAsked, closed <- hClosed,
    Calls <- NoticeCalls, MaxShown <- 2, MaxClock <- 3
\* Those that the other components start with are among them, and the names of
\* what is none are not.
ASSUME PageAssumption ==
    {"p", "q"} \subseteq PageProfiles /\ "none" \notin PageProfiles
ASSUME DocAssumption == "a" \in DocValid /\ DocValid \subseteq DocTexts
ASSUME FormAssumption == "p" \in FormUids /\ "nobody" \notin FormUids
ASSUME PlotAssumption == PlotWidth \in Nat \ {0} /\ PlotLengths \subseteq Nat
ASSUME DataAssumption == 0 \notin DataUsable /\ {DataGrace, DataThrottle} \subseteq Nat
ASSUME LocaleAssumption ==
    L!Whole \notin LocaleSpaces /\ LocaleContents \subseteq SUBSET (LocaleSpaces \X LocaleLeaves)

Evars == <<kind, file, open, vis, list, seq, text, queued, deferred, idle,
           reading, saving, edits>>
Pvars == <<items, cur, seen, failed, mounted, pSeq, switching, calls,
           aborted, timers, activatings, enhancing, deletion, batch, chosen,
           import, restored, steps>>
Dvars == <<dKind, dFile, dOpen, editor, value, saved, loading, run, loads,
           dSaving, dSteps>>
Ivars == <<url, home, option, iBatch, activating, iMounted, renders,
           listening, menu, dialog, mark, locks, updates, started, events,
           showNext, schedule, fetched, next, soon, iAsked, clicks>>
Fvars == <<stored, local, fOpen, openType, form, fFile, resets, fSaving,
           ended, current, fActivating, fSteps>>
Nvars == <<core, opened, message, cache, rendered, throttled, pending, nKind,
           layout, order, matches, detail, closing, nSeen, forgiven, nSteps>>
Cvars == <<cMounted, cOrder, hidden, widths, sorting, manager, visibleCount,
           tick, cells, cSteps>>
Tvars == <<clock, shown, tHome, captured, tActive, last, worker, inbox,
           outbox, held, now, range, taken, messages, tSteps>>
Gvars == <<boundary, gMounted, points, debounced, display, style, gRange,
           visible, focused, pause, lastData, stale, mouse, moveFrame,
           drawFrame, hoverFrame, tooltip, canvas, gClock, gSteps>>
Bvars == <<bMounted, bCache, bList, bStyle, bTimer, raf, frameTimer, drawn,
           bSteps>>
Lvars == <<format, sources, disk, backup, index, options, pc, ok, todo, data,
           writing, before, runs>>
Avars == <<aKind, aCore, raw, aLast, since, fallback, aTimer, badSince, aNow,
           fetching, loaded, aMounted, registering, listeners, cleanups,
           profileSeen, proxyRefresh, aOpen, updating, jobs, aSteps>>
Hvars == <<nextId, notices, hTimers, copying, hClock, hAsked, hClosed>>
pages == <<vars, Evars, Pvars, Dvars, Ivars, Fvars, Nvars, Cvars, Tvars,
          Gvars, Bvars, Lvars, Avars, Hvars>>
all == <<part, pages, settings>>

PagesParts == {"streams", "editors", "page", "document", "item", "form", "connections", "columns", "monitor", "graph", "sidebar", "locales", "data", "notices"}
\* The components that this behaviour is not about start in one way.
Start ==
    /\ part \in PagesParts \cup SettingsParts
    /\ SettingsStart
    /\ Init /\ (part = "streams" \/ (~logs))
    /\ E!Init /\ (part = "editors" \/ (kind = "rules" /\ file = NoEdits))
    /\ P!Init /\ (part = "page" \/ (items = {"p", "q"} /\ cur = "p"))
    /\ D!Init /\ (part = "document" \/ (dKind = "profile" /\ dFile = "a"))
    /\ I!Init /\ ((part = "item" /\ home = url /\ (iBatch => option = {})) \/ (~url /\ option = {} /\ ~iBatch))
    /\ F!Init /\ (part = "form" \/ (current = "p" /\ \A u \in FormUids : ~local[u] /\ ~stored[u].with))
    /\ N!Init
    /\ C!Init /\ (part = "columns" \/ (cOrder = <<>> /\ hidden = {}))
    /\ T!Init /\ (part = "monitor" \/ (~shown /\ ~captured["layout"]))
    /\ G!Init /\ (part = "graph" \/ (pause))
    /\ B!Init
    /\ L!Init /\ (part = "locales" \/ (format = "yaml-file" /\ sources = {Text("call", "n", "x")} /\ \A l \in DOMAIN disk : L!Load(l) = {}))
    /\ A!Init /\ (part = "data" \/ (aKind = "proxy"))
    /\ H!Init

PagesStep ==
    /\ UNCHANGED <<part, settings>>
    /\ \/ part = "streams" /\ Next /\ UNCHANGED <<Evars, Pvars, Dvars, Ivars, Fvars,
                    Nvars, Cvars, Tvars, Gvars, Bvars, Lvars, Avars, Hvars>>
       \/ part = "editors" /\ E!Next /\ UNCHANGED <<vars, Pvars, Dvars, Ivars,
                    Fvars, Nvars, Cvars, Tvars, Gvars, Bvars, Lvars, Avars, Hvars>>
       \/ part = "page" /\ P!Next /\ UNCHANGED <<vars, Evars, Dvars, Ivars, Fvars,
                    Nvars, Cvars, Tvars, Gvars, Bvars, Lvars, Avars, Hvars>>
       \/ part = "document" /\ D!Next /\ UNCHANGED <<vars, Evars, Pvars, Ivars,
                    Fvars, Nvars, Cvars, Tvars, Gvars, Bvars, Lvars, Avars, Hvars>>
       \/ part = "item" /\ I!Next /\ UNCHANGED <<vars, Evars, Pvars, Dvars, Fvars,
                    Nvars, Cvars, Tvars, Gvars, Bvars, Lvars, Avars, Hvars>>
       \/ part = "form" /\ F!Next /\ UNCHANGED <<vars, Evars, Pvars, Dvars, Ivars,
                    Nvars, Cvars, Tvars, Gvars, Bvars, Lvars, Avars, Hvars>>
       \/ part = "connections" /\ N!Next /\ UNCHANGED <<vars, Evars, Pvars, Dvars,
                    Ivars, Fvars, Cvars, Tvars, Gvars, Bvars, Lvars, Avars, Hvars>>
       \/ part = "columns" /\ C!Next /\ UNCHANGED <<vars, Evars, Pvars, Dvars,
                    Ivars, Fvars, Nvars, Tvars, Gvars, Bvars, Lvars, Avars, Hvars>>
       \/ part = "monitor" /\ T!Next /\ UNCHANGED <<vars, Evars, Pvars, Dvars,
                    Ivars, Fvars, Nvars, Cvars, Gvars, Bvars, Lvars, Avars, Hvars>>
       \/ part = "graph" /\ G!Next /\ UNCHANGED <<vars, Evars, Pvars, Dvars, Ivars,
                    Fvars, Nvars, Cvars, Tvars, Bvars, Lvars, Avars, Hvars>>
       \/ part = "sidebar" /\ B!Next /\ UNCHANGED <<vars, Evars, Pvars, Dvars,
                    Ivars, Fvars, Nvars, Cvars, Tvars, Gvars, Lvars, Avars, Hvars>>
       \/ part = "locales" /\ L!Next /\ UNCHANGED <<vars, Evars, Pvars, Dvars,
                    Ivars, Fvars, Nvars, Cvars, Tvars, Gvars, Bvars, Avars, Hvars>>
       \/ part = "data" /\ A!Next /\ UNCHANGED <<vars, Evars, Pvars, Dvars, Ivars,
                    Fvars, Nvars, Cvars, Tvars, Gvars, Bvars, Lvars, Hvars>>
       \/ part = "notices" /\ H!Next /\ UNCHANGED <<vars, Evars, Pvars, Dvars,
                    Ivars, Fvars, Nvars, Cvars, Tvars, Gvars, Bvars, Lvars, Avars>>

Step == PagesStep \/ (SettingsStep /\ UNCHANGED pages)

PageSpec == Start /\ [][Step]_all

-----------------------------------------------------------------------------
(* The properties of the components.                                       *)

\* What is listed is what there is: the rows of an editor and its text say the same
\* (rules-editor-viewer.tsx:415), each connection is there once
\* (use-connection-data.ts:24), each column at its place (connection-table.tsx:436),
\* every point of the range (traffic-sampler.ts:94), and the notices that were asked
\* for, for as long as they were (notice-service.ts:335), with the details of an error
\* (notice-service.ts:68).
ListsFaithful ==
    /\ part = "editors" => E!RowsAgree
    /\ part = "connections" => N!ConnectionsListed
    /\ part = "columns" => C!ColumnsShown
    /\ part = "monitor" => T!SeriesComplete
    /\ part = "notices" => H!NoticesStay /\ H!NoticesEnd /\ H!DetailsShown

\* What an editor saves is what its rows show (groups-editor-viewer.tsx:506).
RowsSaved == [][E!SavesRows]_Evars

\* A switch in progress is one that the page shows and serialises
\* (profiles.tsx:543).
SwitchTracked == part = "page" => P!SwitchTracked

\* What a form or an editor holds is what it says it holds: a document that is not
\* dirty is the file (use-editor-document.ts:47), the proxy options of a profile are
\* those that were chosen (profile-viewer.tsx:169).
FormsFaithful ==
    /\ part = "document" => D!CleanIsFile
    /\ part = "form" => F!ProxyKept

\* A listener, a worker, a frame or an interval belongs to what is shown: to the item of
\* a profile (profile-item.tsx:620), to the graphs of the traffic
\* (use-traffic-monitor.ts:404, enhanced-canvas-traffic-graph.tsx:1034), to the provider
\* of the data (app-data-provider.tsx:211), to an entry of the tests (test-item.tsx:71, which
\* has its own there; what it leaves behind at :80 is not counted),
\* to the card of the address (ip-info-card.tsx:157); what marks a request ends with it:
\* that of a provider (provider-button.tsx:130), a test (test-item.tsx:50), the question
\* for the address (ip-info-card.tsx:129), a check of the media (unlock.tsx:224).
ResourcesOwned ==
    /\ part = "item" => I!ListenersOwned
    /\ part = "monitor" => T!WorkerServes
    /\ part = "graph" => G!FramesOwned
    /\ part = "data" => A!NoListenerLeft /\ A!SpinnersEnd
    /\ part = "tests" => J!TestsEnd
    /\ part = "address" => X!IntervalOwned /\ X!RevalidationEnds /\ X!ServicesAsked
    /\ part = "unlock" => W!ChecksEnd

\* What is shown is the last there is, inside of its canvas: the samples
\* (enhanced-canvas-traffic-graph.tsx:1034, traffic-graph.tsx:245), the data after the
\* last event (app-data-provider.tsx:83), the list of the tests that is stored, unless a
\* patch failed or overtook another (test.tsx:70), the address that was found
\* (ip-info-card.tsx:232), the rows of the media that are stored, unless a page that is
\* gone has stored others (unlock.tsx:233).
ViewsCurrent ==
    /\ part = "graph" => G!DrawnInside
    /\ part = "sidebar" => B!DrawsLatest
    /\ part = "data" => A!LastDataShown
    /\ part = "tests" => J!ListAgrees
    /\ part = "address" => X!AddressKnown
    /\ part = "unlock" => W!RowsStored

\* What the scripts write is there: a cleanup of the locales loses no text that the
\* sources use and, when it fails, none of the moment it began
\* (cleanup-unused-i18n.mjs:887, 1065), and what the program is packed with is complete
\* when its script ends well, and whole if that was forced, but for what is downloaded
\* as it is (prebuild.mjs:664).
FilesKept ==
    /\ part = "locales" => L!UsedKept /\ L!OldKept /\ L!IndexMatches
    /\ part = "prebuild" => Z!RunComplete /\ Z!PartsOwned
=============================================================================
