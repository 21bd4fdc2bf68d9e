------------------------------- MODULE TestList -------------------------------
(***************************************************************************)
(* The list of the tests of sites: the page (src/pages/test.tsx) and the   *)
(* card of the home page (src/components/home/test-card.tsx), one of which *)
(* is shown at a time, the dialog that makes or changes an entry           *)
(* (src/components/test/test-viewer.tsx), the entries with their tests     *)
(* (src/components/test/test-item.tsx), and what they use of the settings  *)
(* of the program (src/hooks/use-verge.ts).                                *)
(*                                                                         *)
(* An entry has a uid and a url; its name and icon go with the url.  The   *)
(* result of a test is only that there is one.                             *)
(***************************************************************************)
EXTENDS Naturals, Sequences

CONSTANTS
    Urls,      \* urls of entries
    MaxUid,    \* bound: entries that are ever made
    MaxTests,  \* bound: tests of an entry under way
    MaxSteps   \* bound: steps of a user

Uids == 1 .. MaxUid
NoUrl == ""
Blank == [uid |-> 0, url |-> NoUrl] \* a form without values
Absent == <<Blank>>                 \* no list is stored
FirstUrl == CHOOSE u \in Urls : TRUE
Default == <<[uid |-> 1, url |-> FirstUrl], [uid |-> 2, url |-> FirstUrl]>>

VARIABLES
    stored,    \* test_list of the settings
    seen,      \* the list of the cached settings
    made,      \* uids made
    mounted, card, \* a list is shown; it is that of the home page
    open, openType, form, loading, resets, \* of the dialog; timers that empty it
    calls,     \* patches on their way
    asked,     \* patches made
    fetch,     \* the query of the settings
    delay, tests, \* of each entry: what it shows, its tests under way
    listeners, \* of the event that tests all
    crossed,   \* history: patches overtook one another, or changed a list not yet stored
    failed,    \* history: what is shown may not be stored, as a request failed
    steps

dialog == <<open, openType, form, loading, resets>>
requests == <<stored, made, calls, asked, fetch, crossed, failed>>
entries == <<delay, tests, listeners>>
vars == <<seen, mounted, card, dialog, requests, entries, steps>>

Step == steps < MaxSteps /\ steps' = steps + 1

-----------------------------------------------------------------------------
(* The entries that are shown.                                             *)

Rows == IF seen = Absent THEN Default ELSE seen
Items == IF mounted THEN {Rows[i] : i \in DOMAIN Rows} ELSE {}
Shown == {e.uid : e \in Items}

\* The effects of a rendering.  The cleanup of an entry that is gone or has another url
\* knows the listener of its effect only if that is registered by then.
Stay == {l \in listeners : \E e \in Items' : e.uid = l.uid /\ l.uid \in Shown}
Same(l) == \E e \in Items' : e.uid = l.uid /\ e.url = l.url
Registered ==
    {l \in Stay : ~l.own \/ Same(l)}
    \cup {[l EXCEPT !.own = FALSE] : l \in {k \in Stay : k.own /\ k.at = "asked" /\ ~Same(k)}}
    \cup {[uid |-> e.uid, url |-> e.url, at |-> "asked", own |-> TRUE] : e \in Items' \ Items}
Render ==
    /\ delay' = [u \in Uids |-> IF u \in Shown /\ u \in Shown' THEN delay[u] ELSE "none"]
    /\ tests' = [u \in Uids |-> IF u \in Shown /\ u \in Shown' THEN tests[u] ELSE 0]
    /\ listeners' = Registered

\* addListener answers: a listener of an entry that is gone tests what nobody sees.
Listen(l) ==
    /\ l \in listeners /\ l.at = "asked"
    /\ listeners' = (listeners \ {l}) \cup {[l EXCEPT !.at = "live"]}
    /\ UNCHANGED <<seen, mounted, card, dialog, requests, delay, tests, steps>>

-----------------------------------------------------------------------------
(* The tests.                                                              *)

\* onDelay, by a click or by the event that each listener hears.
OnDelay(u) ==
    /\ Step /\ u \in Shown /\ delay[u] # "testing" /\ tests[u] < MaxTests
    /\ delay' = [delay EXCEPT ![u] = "testing"] /\ tests' = [tests EXCEPT ![u] = @ + 1]
    /\ UNCHANGED <<seen, mounted, card, dialog, requests, listeners>>

Hearing(u) == {l \in listeners : l.uid = u /\ l.at = "live"}
Heard(u) == IF Hearing(u) = {} THEN 0 ELSE IF \E l \in Hearing(u) : \E m \in Hearing(u) : l # m THEN 2 ELSE 1
TestAll ==
    /\ Step /\ mounted /\ \A u \in Uids : tests[u] + Heard(u) <= MaxTests
    /\ delay' = [u \in Uids |-> IF Heard(u) > 0 THEN "testing" ELSE delay[u]]
    /\ tests' = [u \in Uids |-> tests[u] + Heard(u)]
    /\ UNCHANGED <<seen, mounted, card, dialog, requests, listeners>>

Result(u) ==
    /\ tests[u] > 0 /\ tests' = [tests EXCEPT ![u] = @ - 1]
    /\ delay' = [delay EXCEPT ![u] = "result"]
    /\ UNCHANGED <<seen, mounted, card, dialog, requests, listeners, steps>>

-----------------------------------------------------------------------------
(* The settings: patchVerge and mutateVerge.                               *)

\* shows: what an edit shows when it is stored.
Call(by, at, list, shows) ==
    [n |-> asked + 1, by |-> by, at |-> at, list |-> list, shows |-> shows, live |-> TRUE]
Patch(c) == calls' = calls \cup {c} /\ asked' = asked + 1

Land(c) ==
    /\ c \in calls /\ c.at = "sent"
    /\ stored' = c.list /\ calls' = (calls \ {c}) \cup {[c EXCEPT !.at = "landed"]}
    /\ crossed' = (crossed \/ \E d \in calls : d.n < c.n /\ d.at \in {"idle", "sent"})
    /\ UNCHANGED <<seen, made, mounted, card, dialog, asked, fetch, failed, entries, steps>>

Waiting == {c \in calls : c.at = "waiting"}
NoFetch == [at |-> "none", list |-> <<>>]
Asked == [at |-> "asked", list |-> <<>>]

\* What follows patchVerge in handleOk, for the calls of C: the change is shown, that of
\* the first one last, and the dialog that made it closes.
First(C) == CHOOSE c \in C : c.by = "edit" /\ \A d \in C : d.by = "edit" => c.n <= d.n
Continue(C, list) ==
    /\ seen' = IF \E c \in C : c.by = "edit" THEN First(C).shows ELSE list
    /\ IF \E c \in C : c.by \in {"new", "edit"} /\ c.live
       THEN /\ open' = FALSE /\ loading' = FALSE /\ resets' = resets + 1
            /\ UNCHANGED <<openType, form>>
       ELSE UNCHANGED dialog

\* The answer to a patch: its refetch replaces the one under way, and those that wait
\* for that one wait for it.
Answer(c) ==
    /\ c \in calls /\ c.at = "landed" /\ fetch' = Asked
    /\ calls' = (calls \ {c}) \cup {[c EXCEPT !.at = "waiting"]}
    /\ crossed' = (crossed \/ \E d \in calls : d.n < c.n /\ (d.at # "waiting" \/ d.by = "edit"))
    /\ UNCHANGED <<seen, stored, made, mounted, card, dialog, asked, failed, entries, steps>>

\* A patch that fails is not taken back where it is shown already.
Fail(c) ==
    /\ c \in calls /\ c.at = "sent" /\ calls' = calls \ {c}
    /\ failed' = (failed \/ c.by = "row")
    /\ loading' = (loading /\ ~(c.by \in {"new", "edit"} /\ c.live))
    /\ UNCHANGED <<seen, stored, made, mounted, card, open, openType, form, resets, asked,
                   fetch, crossed, entries, steps>>

\* A patch of the card is sent when the page is idle.
SendIdle(c) ==
    /\ c \in calls /\ c.at = "idle"
    /\ calls' = (calls \ {c}) \cup {[c EXCEPT !.at = "sent"]}
    /\ UNCHANGED <<seen, stored, made, mounted, card, dialog, asked, fetch, crossed, failed,
                   entries, steps>>

\* Another component asks for the settings.
Refetch ==
    /\ Step /\ fetch' = Asked
    /\ UNCHANGED <<seen, stored, made, mounted, card, dialog, calls, asked, crossed, failed, entries>>

FetchRead ==
    /\ fetch.at = "asked" /\ fetch' = [at |-> "read", list |-> stored] /\ failed' = FALSE
    /\ UNCHANGED <<seen, stored, made, mounted, card, dialog, calls, asked, crossed, entries, steps>>

\* An entry that was made is asked for once more.
FetchEnds(list) ==
    /\ fetch' = IF \E c \in Waiting : c.by = "new" THEN Asked ELSE NoFetch
    /\ calls' = calls \ Waiting /\ Continue(Waiting, list)
    /\ UNCHANGED <<stored, made, mounted, card, asked, crossed, steps>> /\ Render
FetchDone == fetch.at = "read" /\ FetchEnds(fetch.list) /\ UNCHANGED failed
FetchFails == fetch.at # "none" /\ FetchEnds(seen) /\ failed' = TRUE

-----------------------------------------------------------------------------
(* The list.                                                               *)

Init ==
    /\ stored \in {Absent, Default} /\ seen = stored /\ made = 2
    /\ mounted \in {FALSE, seen # Absent} /\ card \in BOOLEAN
    /\ open = FALSE /\ openType = "new" /\ form = Blank /\ loading = FALSE /\ resets = 0
    /\ calls = {} /\ asked = 0 /\ fetch = NoFetch
    /\ delay = [u \in Uids |-> "none"] /\ tests = [u \in Uids |-> 0] 
    /\ listeners = {[uid |-> e.uid, url |-> e.url, at |-> "asked", own |-> TRUE] : e \in Items}
    /\ crossed = FALSE /\ failed = FALSE /\ steps = 0

\* The effect of the list stores the entries it has when none are stored.
Visit ==
    /\ Step /\ ~mounted /\ mounted' = TRUE
    /\ IF seen = Absent THEN Patch(Call("default", "sent", Default, seen)) ELSE UNCHANGED <<calls, asked>>
    /\ UNCHANGED <<seen, card, stored, made, fetch, crossed, failed, dialog>> /\ Render

Leave ==
    /\ Step /\ mounted /\ mounted' = FALSE /\ card' \in BOOLEAN
    /\ calls' = {[c EXCEPT !.live = FALSE] : c \in calls}
    /\ open' = FALSE /\ openType' = "new" /\ form' = Blank /\ loading' = FALSE /\ resets' = 0
    /\ UNCHANGED <<seen, stored, made, asked, fetch, crossed, failed>> /\ Render

\* The list is shown before it is stored: a drag on the card waits for an idle page.
Change(list, at) ==
    /\ seen' = list /\ Patch(Call("row", at, list, list))
    /\ UNCHANGED <<stored, made, mounted, card, fetch, crossed, failed, dialog>> /\ Render

Without(list, u) == SelectSeq(list, LAMBDA e : e.uid # u)
OnDelete(u) == Step /\ ~open /\ u \in Shown /\ Change(Without(Rows, u), "sent")

\* reorder: the entry at i goes to j.
Reorder(list, i, j) ==
    [k \in DOMAIN list |->
        CASE k = j -> list[i] [] i <= k /\ k < j -> list[k + 1]
          [] j < k /\ k <= i -> list[k - 1] [] OTHER -> list[k]]
OnDragEnd ==
    /\ Step /\ mounted /\ ~open
    /\ \E i, j \in DOMAIN Rows :
          i # j /\ Change(Reorder(Rows, i, j), IF card THEN "idle" ELSE "sent")

-----------------------------------------------------------------------------
(* The dialog.                                                             *)

Create ==
    /\ Step /\ mounted /\ ~open /\ open' = TRUE /\ openType' = "new"
    /\ UNCHANGED <<seen, mounted, card, form, loading, resets, requests, entries>>
Edit(e) ==
    /\ Step /\ ~open /\ e \in Items /\ open' = TRUE /\ openType' = "edit" /\ form' = e
    /\ UNCHANGED <<seen, mounted, card, loading, resets, requests, entries>>
Type(url) ==
    /\ Step /\ open /\ form.url # url /\ form' = [form EXCEPT !.url = url]
    /\ UNCHANGED <<seen, mounted, card, open, openType, loading, resets, requests, entries>>
HandleClose ==
    /\ Step /\ open /\ open' = FALSE /\ resets' = resets + 1
    /\ UNCHANGED <<seen, mounted, card, openType, form, loading, requests, entries>>
\* The timer of a dialog that closed empties the one that is open.
Reset ==
    /\ resets > 0 /\ resets' = resets - 1 /\ form' = Blank
    /\ UNCHANGED <<seen, mounted, card, open, openType, loading, requests, entries, steps>>

\* handleOk: the dialog takes no list for an empty one.
Held == IF seen = Absent THEN <<>> ELSE seen
Patched(list) == [i \in DOMAIN list |-> IF list[i].uid = form.uid THEN form ELSE list[i]]
HandleOk ==
    /\ Step /\ open /\ ~loading /\ loading' = TRUE /\ form.url # NoUrl
    /\ IF openType = "new"
       THEN /\ made < MaxUid /\ made' = made + 1 /\ UNCHANGED crossed
            /\ Patch(Call("new", "sent", Append(Held, [form EXCEPT !.uid = made + 1]), seen))
       ELSE /\ form.uid # 0 /\ Patch(Call("edit", "sent", Patched(Held), Patched(Rows))) /\ UNCHANGED made
            /\ crossed' = (crossed \/ seen = Absent)
    /\ UNCHANGED <<seen, stored, mounted, card, open, openType, form, resets, fetch, failed, entries>>

Next ==
    \/ \E l \in listeners : Listen(l)
    \/ \E u \in Uids : OnDelay(u) \/ Result(u) \/ OnDelete(u)
    \/ TestAll
    \/ \E c \in calls : Land(c) \/ Answer(c) \/ Fail(c) \/ SendIdle(c)
    \/ Refetch \/ FetchRead \/ FetchDone \/ FetchFails
    \/ Visit \/ Leave \/ OnDragEnd
    \/ Create \/ HandleClose \/ Reset \/ HandleOk
    \/ \E e \in Items : Edit(e)
    \/ \E url \in Urls : Type(url)

Spec == Init /\ [][Next]_vars

-----------------------------------------------------------------------------
(* Properties.                                                             *)

\* An entry that says that it is tested has a test under way, and the event that tests
\* all reaches each entry with the url that it shows (test-item.tsx:50, 71).  Listeners
\* that are left behind when `listen' answers late (:80) are not counted.
TestsEnd ==
    /\ \A u \in Uids : delay[u] = "testing" => tests[u] > 0
    /\ \A e \in Items : \E l \in listeners : l.own /\ l.uid = e.uid /\ l.url = e.url

\* When no request is under way, none failed and none overtook another, the list that
\* is shown is the one that is stored (test.tsx:70, use-verge.ts:48).
ListAgrees == calls = {} /\ fetch.at = "none" /\ ~failed /\ ~crossed => seen = stored
=============================================================================
