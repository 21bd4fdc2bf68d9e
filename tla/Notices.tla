-------------------------------- MODULE Notices --------------------------------
(***************************************************************************)
(* The notices of the interface: showNotice and hideNotice of              *)
(* src/services/notice-service.ts and their view, src/components/layout/   *)
(* notice-manager.tsx.                                                     *)
(*                                                                         *)
(* An argument is a record of what it is and of its content, a number;     *)
(* that of a number is its value, in seconds, and a record of content 0 is *)
(* empty.  A text is the argument that it is made of.                      *)
(***************************************************************************)
EXTENDS Naturals, Sequences, SequencesExt, FiniteSets

CONSTANTS
    Calls,    \* calls of showNotice: type, message and extras
    MaxShown, \* bound: notices that were shown
    MaxClock  \* bound: seconds

VARIABLES
    nextId, notices,
    timers,  \* those of the notices, each with the second when it is due
    copying, \* texts that are written to the clipboard
    clock,
    asked,   \* history: what each notice was asked to be, and when
    closed   \* history: the notices that the user closed

vars == <<nextId, notices, timers, copying, clock, asked, closed>>

V(is, of) == [is |-> is, of |-> of]
Nothing == V("undefined", 0)

-----------------------------------------------------------------------------
(* What a call means.                                                      *)

DEFAULT_DURATIONS == [success |-> 3, info |-> 5, error |-> 8]
ResolveDuration(type, override) == IF override = Nothing THEN DEFAULT_DURATIONS[type] ELSE override.of

IsPlainRecord(v) == v.is = "record"
Falsy(v) == v.is \in {"undefined", "null"} \/ v = V("number", 0)

\* Mutant of the next definition: a second record takes the place of the first.
ParseMore(p, extra) ==
    IF extra.is = "undefined" THEN p
    ELSE IF extra.is = "number" /\ p.duration = Nothing THEN [p EXCEPT !.duration = extra]
    ELSE IF IsPlainRecord(extra) THEN [p EXCEPT !.params = extra]
    ELSE IF Falsy(p.raw) THEN [p EXCEPT !.raw = extra] ELSE p

\* One more argument, from left to right.
ParseExtra(p, extra) ==
    IF extra.is = "undefined" THEN p
    ELSE IF extra.is = "number" /\ p.duration = Nothing THEN [p EXCEPT !.duration = extra]
    ELSE IF IsPlainRecord(extra) /\ p.params = Nothing THEN [p EXCEPT !.params = extra]
    ELSE IF Falsy(p.raw) THEN [p EXCEPT !.raw = extra] ELSE p

ParseNoticeExtras(extras) ==
    FoldLeft(ParseExtra, [params |-> Nothing, raw |-> Nothing, duration |-> Nothing], extras)

ExtractDisplayText(v) == IF v.is \in {"undefined", "null"} THEN Nothing ELSE v

\* Any parameter makes a text a key.
ShouldUseTranslationKey(message, params) ==
    message.is = "key" \/ (params # Nothing /\ params.of # 0)

Raw(text) == [form |-> "raw", prefix |-> Nothing, isKey |-> FALSE, text |-> text]
Prefixed(prefix, isKey, text) == [form |-> "prefixed", prefix |-> prefix, isKey |-> isKey, text |-> text]
Translated(key) == [form |-> "key", prefix |-> key, isKey |-> TRUE, text |-> Nothing]

NormalizeNoticeMessage(message, params, raw) ==
    LET rawText == ExtractDisplayText(raw)
        key == message.is = "descriptor" \/ ShouldUseTranslationKey(message, params)
    IN CASE message.is = "element" -> [Translated(message) EXCEPT !.form = "element"]
         [] message.is \in {"descriptor", "key", "text"} /\ rawText # Nothing ->
                Prefixed(message, key, rawText)
         [] message.is \in {"descriptor", "key", "text"} /\ rawText = Nothing ->
                IF key THEN Translated(message) ELSE Raw(message)
         [] OTHER -> Raw(IF rawText # Nothing THEN rawText ELSE ExtractDisplayText(message))

\* What is read, and what is copied of it.
ResolveNoticeMessage(n) == {n.content.prefix, n.content.text} \ {Nothing}
ResolveNoticeCopyText(n) ==
    IF n.content.form \in {"raw", "prefixed"} THEN n.content.text
    ELSE IF n.content.form = "element" THEN Nothing ELSE n.content.prefix

-----------------------------------------------------------------------------
(* The list.                                                               *)

BuildNotice(id, type, duration, content) ==
    [id |-> id, type |-> type, duration |-> duration, content |-> content]

BaseShowNotice(call) ==
    LET extras == ParseNoticeExtras(call.extras)
        duration == ResolveDuration(call.type, extras.duration)
        content == NormalizeNoticeMessage(call.message, extras.params, extras.raw)
    IN /\ nextId < MaxShown /\ nextId' = nextId + 1
       /\ timers' = timers \union (IF duration > 0 THEN {[id |-> nextId, due |-> clock + duration]} ELSE {})
       /\ notices' = Append(notices, BuildNotice(nextId, call.type, duration, content))
       /\ asked' = Append(asked, [call |-> call, at |-> clock])

ShowNotice ==
    /\ \E call \in Calls : BaseShowNotice(call)
    /\ UNCHANGED <<copying, clock, closed>>

\* Mutant of the next definition: the notices before it go with it.
HideUpTo(id) ==
    /\ notices' = SelectSeq(notices, LAMBDA n : n.id > id)
    /\ timers' = {t \in timers : t.id # id}
HideNotice(id) ==
    /\ notices' = SelectSeq(notices, LAMBDA n : n.id # id)
    /\ timers' = {t \in timers : t.id # id}

\* A timer may be late.
TimeoutFires ==
    /\ \E t \in timers : t.due <= clock /\ HideNotice(t.id)
    /\ UNCHANGED <<nextId, copying, clock, asked, closed>>

HandleClose ==
    /\ \E i \in DOMAIN notices : HideNotice(notices[i].id) /\ closed' = closed \union {notices[i].id}
    /\ UNCHANGED <<nextId, copying, clock, asked>>

HandleNoticeCopy ==
    /\ copying = {} /\ nextId < MaxShown
    /\ \E i \in DOMAIN notices : copying' = {ResolveNoticeCopyText(notices[i])} \ {Nothing}
    /\ UNCHANGED <<nextId, notices, timers, clock, asked, closed>>

Copied ==
    /\ copying # {} /\ copying' = {}
    /\ \/ BaseShowNotice([type |-> "success", message |-> V("key", 9), extras |-> <<V("number", 1)>>])
       \/ UNCHANGED <<nextId, notices, timers, asked>>
    /\ UNCHANGED <<clock, closed>>

Tick ==
    /\ clock < MaxClock /\ notices # <<>> /\ clock' = clock + 1
    /\ UNCHANGED <<nextId, notices, timers, copying, asked, closed>>

-----------------------------------------------------------------------------

TypeOK ==
    /\ nextId <= MaxShown /\ Len(asked) = nextId /\ Len(notices) <= nextId
    /\ \A t \in timers : t.id < nextId

Init ==
    /\ nextId = 0 /\ notices = <<>> /\ timers = {} /\ copying = {}
    /\ clock = 0 /\ asked = <<>> /\ closed = {}

Next == ShowNotice \/ TimeoutFires \/ HandleClose \/ HandleNoticeCopy \/ Copied \/ Tick

Spec == Init /\ [][Next]_vars

-----------------------------------------------------------------------------

\* The duration that was asked for: the first number.
Asked(a) ==
    LET i == SelectInSeq(a.call.extras, LAMBDA v : v.is = "number")
    IN IF i = 0 THEN DEFAULT_DURATIONS[a.call.type] ELSE a.call.extras[i].of

Present(id) == \E i \in DOMAIN notices : notices[i].id = id

\* A notice stays for as long as it was asked to, 0 for ever, unless it is closed, whatever
\* is shown, closed and times out beside it (notice-service.ts:318, 335).
NoticesStay ==
    \A i \in DOMAIN asked :
        (asked[i].at + Asked(asked[i]) > clock \/ Asked(asked[i]) = 0) /\ i - 1 \notin closed
            => Present(i - 1)

\* Exactly those that do not stay for ever have a timer that ends them.
NoticesEnd == {t.id : t \in timers} = {notices[i].id : i \in {j \in DOMAIN notices : notices[j].duration > 0}}

\* The first details of an error that a caller passes, after the parameters, are read and
\* copied, whatever else is passed in which order (notice-service.ts:68); only an element
\* that is the message hides them.
Details(call) ==
    LET used == {SelectInSeq(call.extras, IsPlainRecord), SelectInSeq(call.extras, LAMBDA v : v.is = "number")}
        rest == {i \in DOMAIN call.extras \ used : ~Falsy(call.extras[i])}
    IN IF rest = {} THEN Nothing ELSE call.extras[CHOOSE i \in rest : \A j \in rest : i <= j]
DetailsShown ==
    \A i \in DOMAIN notices :
        LET call == asked[notices[i].id + 1].call
        IN Details(call) # Nothing /\ call.message.is # "element" =>
            /\ Details(call) \in ResolveNoticeMessage(notices[i])
            /\ Details(call) = ResolveNoticeCopyText(notices[i])
=============================================================================
