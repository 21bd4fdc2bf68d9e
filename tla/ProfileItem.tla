---------------------------- MODULE ProfileItem ----------------------------
(***************************************************************************)
(* The item of one subscription on the page of the subscriptions           *)
(* (src/src/components/profile/profile-item.tsx): its menu and dialogs,    *)
(* its updates, the mark of a running update, which all items share and    *)
(* which outlives them, and the time of the next update.                   *)
(*                                                                         *)
(* Effects that depend on a function made anew by every rendering listen   *)
(* anew after every rendering; listening and not listening any more are    *)
(* calls that take time.  Editors are in EditorDocument and ProfileEditors.*)
(***************************************************************************)
EXTENDS Integers

CONSTANTS
    MaxRenders, \* bound: renderings and mounts
    MaxUpdates, \* bound: updates by the back end's timer or another window
    MaxClicks   \* bound: what the user does

Enhancements == {"rules", "proxies", "groups", "merge", "script"}
Dialogs == Enhancements \cup {"file", "qr", "confirm"}
Topics == {"update", "timer"}

VARIABLES
    url, home, option,  \* itemData: remote, with a home page, its enhancements
    batch, activating,  \* properties the page gives
    mounted, renders,
    listening,  \* the calls of `listen' of its effects: topic, rendering, progress
    menu, dialog,       \* anchorEl; the dialog or editor that is open
    mark,       \* loadingCache of this item
    locks,      \* useLockFn: "update" and "fetch" under way, by this mount
    updates,    \* updates the back end is doing: number, asked for by which mount
    started,    \* number of updates of the back end so far
    events,     \* events on their way to the window
    showNext,   \* showNextUpdate
    schedule, fetched, next,    \* the timer's time, the answer on its way, the shown
    soon,       \* refreshTimeoutRef
    asked,      \* what the page was asked for last
    clicks

item == <<url, home, option, batch>>
view == <<menu, dialog, asked>>
times == <<showNext, fetched, next, soon>>
vars == <<item, activating, mounted, renders, listening, view, mark, locks, updates,
          started, events, times, schedule, clicks>>

Ref == [topic : Topics, render : 0..MaxRenders, live : BOOLEAN]

TypeOK ==
    /\ {url, home, batch, activating, mounted, menu, mark, showNext, soon} \subseteq BOOLEAN
    /\ option \subseteq Enhancements /\ dialog \in Dialogs \cup {"none"}
    /\ listening \subseteq Ref /\ locks \subseteq {"update", "fetch", "view"}
    /\ schedule \in 0..MaxUpdates /\ fetched \in -1..MaxUpdates /\ next \in -1..MaxUpdates

Listen(r) == [topic : Topics, render : {r}, live : {FALSE}]

Init ==
    /\ url \in BOOLEAN /\ home \in {FALSE, url}
    /\ option \in {{}, Enhancements} /\ batch \in BOOLEAN /\ activating = FALSE
    /\ mounted = TRUE /\ renders = 0 /\ listening = Listen(0)
    /\ menu = FALSE /\ dialog = "none" /\ asked = "none"
    /\ mark = FALSE /\ locks = {} /\ updates = {} /\ started = 0 /\ events = {}
    /\ showNext = FALSE /\ schedule = 0 /\ fetched = -1 /\ next = -1 /\ soon = FALSE
    /\ clicks = 0

User == mounted /\ clicks < MaxClicks /\ clicks' = clicks + 1

-----------------------------------------------------------------------------
(* Listening.                                                              *)

\* Effects of a new rendering: what the one before listens to is let go, or left
\* to the answer of its call.
Relisten(r) ==
    /\ renders' = r
    /\ listening' = {l \in listening : ~l.live} \cup Listen(r)

\* fetchNextUpdateTime, a lock: a call while one is under way does nothing.
Fetch == locks' = locks \cup {"fetch"}

\* Each rendering asks for the time anew while it is shown.
Render ==
    /\ mounted /\ renders < MaxRenders /\ Relisten(renders + 1)
    /\ activating' \in BOOLEAN /\ soon' = FALSE
    /\ IF showNext THEN Fetch ELSE UNCHANGED locks
    /\ UNCHANGED <<item, mounted, view, mark, updates, started, events, showNext,
                   fetched, next, schedule, clicks>>

\* `disposed' of an effect.
Disposed(l) == ~mounted \/ l.render # renders

\* A call of `listen' is answered, or fails.
Answered(l, kept) ==
    /\ ~l.live
    /\ listening' = (listening \ {l}) \cup (IF kept THEN {[l EXCEPT !.live = TRUE]} ELSE {})
    /\ UNCHANGED <<item, activating, mounted, renders, view, mark, locks, updates, started,
                   events, times, schedule, clicks>>

TimerListening(l, ok) == l.topic = "timer" /\ Answered(l, ok /\ ~Disposed(l))

\* Mutant of the next definition: it is kept whatever has happened since.
UpdateListeningAnyway(l, ok) == l.topic = "update" /\ Answered(l, ok)

UpdateListening(l, ok) == l.topic = "update" /\ Answered(l, ok /\ ~Disposed(l))

Unmount ==
    /\ mounted /\ mounted' = FALSE
    /\ listening' = {l \in listening : ~l.live}
    /\ menu' = FALSE /\ dialog' = "none" /\ locks' = {}
    /\ showNext' = FALSE /\ fetched' = -1 /\ next' = -1 /\ soon' = FALSE
    /\ updates' = {[u EXCEPT !.owned = FALSE] : u \in updates}
    /\ UNCHANGED <<item, activating, renders, asked, mark, started, events, schedule, clicks>>

Mount ==
    /\ ~mounted /\ renders < MaxRenders /\ mounted' = TRUE /\ Relisten(renders + 1)
    /\ UNCHANGED <<item, activating, view, mark, locks, updates, started, events, times,
                   schedule, clicks>>

-----------------------------------------------------------------------------
(* The menu.                                                               *)

FileMenu == {"select", "info", "file", "openFile", "delete"} \cup Enhancements
UrlMenu == FileMenu \cup {"qr", "update", "updateViaProxy"} \cup (IF home THEN {"home"} ELSE {})

OpenMenu ==
    /\ ~menu /\ dialog = "none" /\ User /\ menu' = TRUE
    /\ UNCHANGED <<item, activating, mounted, renders, listening, dialog, asked, mark, locks,
                   updates, started, events, times, schedule>>

\* An entry is chosen, and the menu closed; a missing enhancement is not offered.
Chosen(e) ==
    /\ menu /\ User /\ menu' = FALSE
    /\ e \in IF url THEN UrlMenu ELSE FileMenu
    /\ e \in Enhancements => e \in option
    /\ UNCHANGED <<item, activating, mounted, renders, listening, mark, started, events,
                   times, schedule>>

Opens(e, d) == Chosen(e) /\ dialog' = d /\ UNCHANGED <<asked, locks, updates>>
Asks(e, a) == Chosen(e) /\ asked' = a /\ UNCHANGED <<dialog, locks, updates>>

OpenHome == Asks("home", "home")
EditInfo == Asks("info", "edit")
ForceSelect == Asks("select", "force")
ShareQrCode == Opens("qr", "qr")
EditFile == Opens("file", "file")
EditRules == Opens("rules", "rules")
EditProxies == Opens("proxies", "proxies")
EditGroups == Opens("groups", "groups")
EditMerge == Opens("merge", "merge")
EditScript == Opens("script", "script")

OpenFile ==
    /\ Chosen("openFile") /\ locks' = locks \cup {"view"}
    /\ UNCHANGED <<dialog, asked, updates>>

FileOpened ==
    /\ "view" \in locks /\ locks' = locks \ {"view"}
    /\ UNCHANGED <<item, activating, mounted, renders, listening, view, mark, updates, started,
                   events, times, schedule, clicks>>

\* While several are chosen, to delete one means to choose it too.
DeleteEntry == IF batch THEN Asks("delete", "toggle") ELSE Opens("delete", "confirm")

CloseDialog ==
    /\ dialog # "none" /\ dialog' = "none"
    /\ UNCHANGED <<item, activating, mounted, renders, listening, menu, asked, mark, locks,
                   updates, started, events, times, schedule, clicks>>

ConfirmDelete ==
    /\ dialog = "confirm" /\ dialog' = "none" /\ asked' = "delete"
    /\ UNCHANGED <<item, activating, mounted, renders, listening, menu, mark, locks, updates,
                   started, events, times, schedule, clicks>>

\* A click on the item, or in the box shown while several are chosen.
Click ==
    /\ ~menu /\ dialog = "none" /\ ~activating /\ User /\ asked' = "select"
    /\ UNCHANGED <<item, activating, mounted, renders, listening, menu, dialog, mark, locks,
                   updates, started, events, times, schedule>>

ToggleSelection ==
    /\ batch /\ ~menu /\ dialog = "none" /\ User /\ asked' = "toggle"
    /\ UNCHANGED <<item, activating, mounted, renders, listening, menu, dialog, mark, locks,
                   updates, started, events, times, schedule>>

-----------------------------------------------------------------------------
(* Updates.                                                                *)

\* onUpdate, a lock.
Updates ==
    /\ started < MaxUpdates
    /\ IF "update" \in locks THEN UNCHANGED <<mark, locks, updates, started>>
       ELSE /\ mark' = TRUE /\ locks' = locks \cup {"update"} /\ started' = started + 1
            /\ updates' = updates \cup {[id |-> started', owned |-> TRUE, manual |-> TRUE]}

UpdateEntry(e) ==
    /\ menu /\ User /\ url /\ menu' = FALSE /\ Updates
    /\ UNCHANGED <<item, activating, mounted, renders, listening, dialog, asked, events, times, schedule>>

\* The button, disabled while an update is under way.
Refresh ==
    /\ url /\ ~menu /\ dialog = "none" /\ ~activating /\ ~mark /\ User /\ Updates
    /\ UNCHANGED <<item, activating, mounted, renders, listening, view, events, times, schedule>>

\* An update of the timer, which tells the window when it begins and ends.
AutoUpdate ==
    /\ url /\ started < MaxUpdates /\ started' = started + 1
    /\ updates' = updates \cup {[id |-> started', owned |-> FALSE, manual |-> FALSE]}
    /\ events' = events \cup {[id |-> started', what |-> "started"]}
    /\ UNCHANGED <<item, activating, mounted, renders, listening, view, mark, locks, times,
                   schedule, clicks>>

\* The update ends in the back end; the caller's `finally' runs, mounted or not.
UpdateEnded(u) ==
    /\ u \in updates /\ updates' = updates \ {u} /\ schedule' = u.id
    /\ events' = IF u.manual THEN events ELSE events \cup {[id |-> u.id, what |-> "completed"]}
    /\ mark' = (mark /\ ~u.manual)
    /\ locks' = IF u.owned THEN locks \ {"update"} ELSE locks
    /\ UNCHANGED <<item, activating, mounted, renders, listening, view, started, times, clicks>>

\* The interval is changed, and the timer tells the window.
IntervalPatched ==
    /\ started < MaxUpdates /\ started' = started + 1 /\ schedule' = started'
    /\ events' = events \cup {[id |-> started', what |-> "timer"]}
    /\ UNCHANGED <<item, activating, mounted, renders, listening, view, mark, locks, updates,
                   times, clicks>>

\* An event reaches those who listen, in the order it was sent; without any it is
\* lost.
Heard(e) ==
    /\ \A f \in events : f.id >= e.id /\ (f.id = e.id /\ f.what = "started" => f = e)
    /\ events' = events \ {e}

Listens(topic) == \E l \in listening : l.live /\ l.topic = topic

StartedHeard(e) ==
    /\ e.what = "started" /\ Heard(e)
    /\ mark' = (mark \/ Listens("update"))
    /\ UNCHANGED <<item, activating, mounted, renders, listening, view, locks, updates, started,
                   times, schedule, clicks>>

CompletedHeard(e) ==
    /\ e.what = "completed" /\ Heard(e)
    /\ mark' = (mark /\ ~Listens("update"))
    /\ IF Listens("update") /\ showNext THEN Fetch ELSE UNCHANGED locks
    /\ UNCHANGED <<item, activating, mounted, renders, listening, view, updates, started, times,
                   schedule, clicks>>

TimerHeard(e) ==
    /\ e.what = "timer" /\ Heard(e)
    /\ soon' = (soon \/ (Listens("timer") /\ showNext))
    /\ UNCHANGED <<item, activating, mounted, renders, listening, view, mark, locks, updates,
                   started, showNext, fetched, next, schedule, clicks>>

-----------------------------------------------------------------------------
(* The time of the next update.                                            *)

ToggleTime ==
    /\ url /\ ~menu /\ dialog = "none" /\ User /\ showNext' = ~showNext
    /\ IF showNext THEN UNCHANGED locks ELSE Fetch
    /\ UNCHANGED <<item, activating, mounted, renders, listening, view, mark, updates, started,
                   events, fetched, next, soon, schedule>>

\* One second after the timer's event.
Soon ==
    /\ soon /\ soon' = FALSE /\ Fetch
    /\ UNCHANGED <<item, activating, mounted, renders, listening, view, mark, updates, started,
                   events, showNext, fetched, next, schedule, clicks>>

FetchRead ==
    /\ "fetch" \in locks /\ fetched = -1 /\ fetched' = schedule
    /\ UNCHANGED <<item, activating, mounted, renders, listening, view, mark, locks, updates,
                   started, events, showNext, next, soon, schedule, clicks>>

FetchDone ==
    /\ fetched # -1 /\ next' = fetched /\ fetched' = -1 /\ locks' = locks \ {"fetch"}
    /\ UNCHANGED <<item, activating, mounted, renders, listening, view, mark, updates, started,
                   events, showNext, soon, schedule, clicks>>

-----------------------------------------------------------------------------

Next ==
    \/ Render \/ Unmount \/ Mount
    \/ \E l \in listening, ok \in BOOLEAN : TimerListening(l, ok) \/ UpdateListening(l, ok)
    \/ OpenMenu \/ OpenHome \/ EditInfo \/ ForceSelect \/ ShareQrCode \/ EditFile
    \/ EditRules \/ EditProxies \/ EditGroups \/ EditMerge \/ EditScript
    \/ OpenFile \/ FileOpened \/ DeleteEntry \/ CloseDialog \/ ConfirmDelete
    \/ Click \/ ToggleSelection
    \/ \E e \in {"update", "updateViaProxy"} : UpdateEntry(e)
    \/ Refresh \/ AutoUpdate \/ IntervalPatched
    \/ \E u \in updates : UpdateEnded(u)
    \/ \E e \in events : StartedHeard(e) \/ CompletedHeard(e) \/ TimerHeard(e)
    \/ ToggleTime \/ Soon \/ FetchRead \/ FetchDone

Spec == Init /\ [][Next]_vars

-----------------------------------------------------------------------------
(* Properties.                                                             *)

\* Whatever order renderings, the end of the item and the answers to `listen' come
\* in, no event is heard twice and none by an item that is gone: there is at most
\* one listener to a topic, of the last rendering (profile-item.tsx:620).
ListenersOwned ==
    \A l \in listening : l.live => mounted /\ l.render = renders
=============================================================================
