-------------------------------- MODULE IpCard --------------------------------
(***************************************************************************)
(* The card of the home page with the address that the network shows       *)
(* (src/components/home/ip-info-card.tsx): the interval that asks again    *)
(* when the answer is too old, the request that it shares with the buttons *)
(* (react-query), and the services that the request asks one by one        *)
(* (src/services/api.ts).                                                  *)
(*                                                                         *)
(* The time is that of the ticks of the interval.  An answer is the time   *)
(* of it.  A request that another one replaced still asks its services,    *)
(* which nothing sees any more.                                            *)
(***************************************************************************)
EXTENDS Naturals

CONSTANTS
    ServiceCount,  \* services, 6 in the code
    RefreshTime,   \* ticks after which an answer is too old
    MaxClock,      \* bound: the time
    MaxHandlers,   \* bound: ticks that wait at a time
    MaxSteps       \* bound: steps of the user, of the window and of the network

VARIABLES
    mounted, intersected, \* the card is shown, and was in the viewport
    hidden, online,       \* the document, the network
    timer, intervals,     \* variable of the effect; intervals of the window
    countdown,            \* what the card shows below
    handlers,             \* onCountdownTick under way
    answer, error,        \* of the query: time of the data, 0 for none; it failed
    fetching, failures, noRetry, \* its request, its attempts, cancelRetry
    service, tries, asked, \* of the attempt: service, attempts of it, services asked
    abortTimer, aborted,  \* setTimeout of the service; it fired
    now, made, steps      \* time; intervals ever made; bound

card == <<intersected, timer, intervals, countdown>>
window == <<hidden, online>>
attempt == <<service, tries, asked, abortTimer, aborted>>
request == <<fetching, failures, noRetry, attempt>>
query == <<answer, error, request>>
vars == <<mounted, card, window, handlers, query, now, made, steps>>

Step == steps < MaxSteps /\ steps' = steps + 1

-----------------------------------------------------------------------------
(* The request: useIPInfo and getIpInfo.                                   *)

Services == 1 .. ServiceCount
Retries == 1     \* of the request
MaxRetries == 2  \* of a service

\* An attempt begins when there is a network.
Begin ==
    /\ fetching' = IF online THEN "runs" ELSE "pauses"
    /\ failures' = 0 /\ noRetry' = FALSE /\ asked' = {}
    /\ service' = 0 /\ tries' = 0 /\ abortTimer' = FALSE /\ aborted' = FALSE
    /\ error' = (error /\ answer # 0) /\ UNCHANGED answer

\* refetch replaces a request when there is an answer, and joins it when there is none.
Refetch ==
    IF fetching # "none" /\ answer = 0
    THEN noRetry' = FALSE /\ UNCHANGED <<answer, error, fetching, failures, attempt>>
    ELSE Begin

\* The services are shuffled.
AskService(s) ==
    /\ fetching = "runs" /\ service = 0 /\ s \in Services \ asked
    /\ service' = s /\ tries' = 1 /\ asked' = asked \cup {s}
    /\ abortTimer' = TRUE /\ aborted' = FALSE
    /\ UNCHANGED <<mounted, card, window, handlers, answer, error, fetching, failures, noRetry, now, made, steps>>

Abort ==
    /\ abortTimer /\ abortTimer' = FALSE /\ aborted' = TRUE
    /\ UNCHANGED <<mounted, card, window, handlers, answer, error, fetching, failures, noRetry, service, tries, asked, now, made, steps>>

\* asyncRetry asks a service again that did not answer.
AskAgain ==
    /\ service # 0 /\ tries <= MaxRetries /\ tries' = tries + 1
    /\ UNCHANGED <<mounted, card, window, handlers, answer, error, fetching, failures, noRetry, service, asked, abortTimer, aborted, now, made, steps>>

\* What waits for the request: its handlers of this card count down again.
Settle ==
    /\ handlers' = {h \in handlers : h.at # "waiting"}
    /\ countdown' = IF \E h \in handlers : h.at = "waiting" /\ h.live THEN "countdown" ELSE countdown
Idle == fetching' = "none" /\ failures' = 0 /\ noRetry' = FALSE

Answers ==
    /\ service # 0 /\ ~aborted /\ answer' = now /\ error' = FALSE
    /\ Idle /\ Settle
    /\ service' = 0 /\ tries' = 0 /\ abortTimer' = FALSE /\ aborted' = FALSE
    /\ UNCHANGED <<mounted, intersected, timer, intervals, window, asked, now, made, steps>>

\* The request has failed: it is made once more later, unless nobody wants it any more.
Rejected(again) ==
    IF again
    THEN fetching' = "waits" /\ failures' = failures + 1 /\ UNCHANGED <<error, noRetry, handlers, countdown>>
    ELSE error' = TRUE /\ Idle /\ Settle

\* A service did not answer in time, or its answer is of no use.
ServiceFails ==
    /\ service # 0 /\ service' = 0 /\ tries' = 0 /\ abortTimer' = FALSE /\ aborted' = FALSE
    /\ IF asked = Services
       THEN Rejected(failures < Retries /\ ~noRetry)
       ELSE UNCHANGED <<error, fetching, failures, noRetry, handlers, countdown>>
    /\ UNCHANGED <<mounted, intersected, timer, intervals, window, answer, asked, now, made, steps>>

\* What waits to be made again, or pauses, goes on when the window has the focus and
\* there is a network, or pauses.
Continue ==
    /\ fetching \in {"waits", "pauses"} /\ ~hidden /\ online
    /\ IF noRetry /\ failures > 0
       THEN Rejected(FALSE) /\ UNCHANGED attempt
       ELSE /\ fetching' = "runs" /\ asked' = {}
            /\ UNCHANGED <<error, failures, noRetry, handlers, countdown, service, tries, abortTimer, aborted>>
    /\ UNCHANGED <<mounted, intersected, timer, intervals, window, answer, now, made, steps>>
Pauses ==
    /\ fetching = "waits" /\ (hidden \/ ~online) /\ fetching' = "pauses"
    /\ UNCHANGED <<mounted, card, window, handlers, answer, error, failures, noRetry, attempt, now, made, steps>>

-----------------------------------------------------------------------------
(* The card.                                                               *)

Init ==
    /\ mounted = FALSE /\ intersected = FALSE /\ timer = 0 /\ intervals = {}
    /\ countdown = "countdown" /\ handlers = {} /\ hidden = FALSE /\ online \in BOOLEAN
    /\ answer = 0 /\ error = FALSE /\ fetching = "none" /\ failures = 0 /\ noRetry = FALSE
    /\ service = 0 /\ tries = 0 /\ asked = {} /\ abortTimer = FALSE /\ aborted = FALSE
    /\ now = 1 /\ made = 0 /\ steps = 0

\* The query is asked when it has no answer.
Mount ==
    /\ ~mounted /\ mounted' = TRUE
    /\ IF answer = 0 THEN Refetch ELSE UNCHANGED query
    /\ UNCHANGED <<card, window, handlers, now, made, steps>>

\* clearInterval, of the cleanup and of a document that hides.
Pause == timer' = 0 /\ intervals' = intervals \ {timer}
Resume == made' = made + 1 /\ timer' = made + 1 /\ intervals' = intervals \cup {made + 1}

Unmount ==
    /\ Step /\ mounted /\ mounted' = FALSE /\ intersected' = FALSE /\ Pause
    /\ countdown' = "countdown" /\ handlers' = {[h EXCEPT !.live = FALSE] : h \in handlers}
    /\ noRetry' = (fetching # "none")
    /\ UNCHANGED <<window, answer, error, fetching, failures, attempt, now, made>>

Intersect ==
    /\ mounted /\ ~intersected /\ intersected' = TRUE /\ Resume
    /\ UNCHANGED <<mounted, countdown, window, handlers, query, now, steps>>

VisibilityChange ==
    /\ Step /\ hidden' = ~hidden
    /\ IF ~mounted THEN UNCHANGED <<timer, intervals, made>>
       ELSE IF ~hidden THEN Pause /\ UNCHANGED made
       ELSE IF intersected /\ timer = 0 THEN Resume ELSE UNCHANGED <<timer, intervals, made>>
    /\ UNCHANGED <<mounted, intersected, countdown, online, handlers, query, now>>

NetworkChange ==
    /\ Step /\ online' = ~online
    /\ UNCHANGED <<mounted, card, hidden, handlers, query, now, made>>

Time == now < MaxClock /\ now' = now + 1 /\ UNCHANGED <<mounted, card, window, handlers, query, made, steps>>

\* onCountdownTick.
Tick ==
    /\ intervals # {} /\ answer # 0
    /\ IF now - answer < RefreshTime
       THEN countdown' = "countdown" /\ UNCHANGED handlers
       ELSE /\ intersected /\ online /\ countdown # "revalidating" /\ UNCHANGED countdown
            /\ \E n \in 1 .. MaxHandlers :
                  /\ \A h \in handlers : h.n # n
                  /\ handlers' = handlers \cup {[n |-> n, at |-> "asking", live |-> TRUE]}
    /\ UNCHANGED <<mounted, intersected, timer, intervals, window, query, now, made, steps>>

\* isVisible answers; a window that is not visible is left alone.
WindowVisible(h) ==
    /\ h \in handlers /\ h.at = "asking"
    /\ handlers' = (handlers \ {h}) \cup {[h EXCEPT !.at = "waiting"]}
    /\ countdown' = IF h.live THEN "revalidating" ELSE countdown
    /\ Refetch
    /\ UNCHANGED <<mounted, intersected, timer, intervals, window, now, made, steps>>
WindowInvisible(h) ==
    /\ h \in handlers /\ h.at = "asking" /\ handlers' = handlers \ {h}
    /\ UNCHANGED <<mounted, card, window, query, now, made, steps>>

\* What the card shows.
View ==
    IF answer = 0 /\ fetching \in {"runs", "waits"} THEN "loading"
    ELSE IF error THEN "error" ELSE "address"

\* The buttons.
Mutate ==
    /\ Step /\ mounted /\ Refetch
    /\ UNCHANGED <<mounted, card, window, handlers, now, made>>

\* The cache forgets an answer that nobody has shown for an hour.
Forget ==
    /\ Step /\ ~mounted /\ fetching = "none" /\ (answer # 0 \/ error)
    /\ answer' = 0 /\ error' = FALSE
    /\ UNCHANGED <<mounted, card, window, handlers, request, now, made>>

Next ==
    \/ \E s \in Services : AskService(s)
    \/ Abort \/ AskAgain \/ Answers \/ ServiceFails \/ Continue \/ Pauses
    \/ Mount \/ Unmount \/ Intersect \/ VisibilityChange \/ NetworkChange
    \/ Time \/ Tick \/ Mutate \/ Forget
    \/ \E h \in handlers : WindowVisible(h) \/ WindowInvisible(h)

Spec == Init /\ [][Next]_vars

-----------------------------------------------------------------------------
(* Properties.                                                             *)

\* There is never an interval that the effect does not know, none when the card is gone
\* or was never seen, and one when the document is visible (ip-info-card.tsx:157).
IntervalOwned ==
    /\ intervals = IF timer = 0 THEN {} ELSE {timer}
    /\ intervals # {} => mounted /\ intersected
    /\ mounted /\ intersected /\ ~hidden => intervals # {}

\* A card that says that it asks again has a tick that waits for a request under way
\* (ip-info-card.tsx:129).
RevalidationEnds ==
    /\ countdown = "revalidating" => \E h \in handlers : h.live /\ h.at = "waiting"
    /\ (\E h \in handlers : h.at = "waiting") => fetching # "none"

\* A request that failed asked every service, and the timer of a service ends with it
\* (api.ts:145, 215).
ServicesAsked ==
    /\ error /\ fetching = "none" => asked = Services
    /\ abortTimer => service \in asked /\ fetching = "runs"

\* A card without an address says that it is loading or has failed, unless it waits for
\* the network (ip-info-card.tsx:232).
AddressKnown == mounted /\ View = "address" => answer # 0 \/ fetching = "pauses"
=============================================================================
