---------------------------- MODULE Connections ----------------------------
(***************************************************************************)
(* The page of the connections (src/src/pages/connections.tsx) and its     *)
(* data: snapshots of the core's connections, each merged with what is     *)
(* known (use-connection-data.ts), at most once in 16 ms (the throttle of  *)
(* use-mihomo-ws-subscription.ts).                                         *)
(***************************************************************************)
EXTENDS Sequences, Naturals, SequencesExt

CONSTANTS
    Ids,        \* connections, numbers in the order they can be opened
    MaxBytes,   \* bound: what one transfers
    MaxClosed,  \* MAX_CLOSED_CONNS_NUM
    MaxSteps    \* bound: what the user does

None == [id \in {} |-> 0]
Empty == [active |-> <<>>, closed |-> <<>>]

VARIABLES
    core,       \* bytes of the connections of the core that are open
    opened,     \* ids opened so far
    message,    \* snapshots on their way, one at most
    cache, rendered,    \* the query's data, and those of the last rendering
    throttled, pending, \* timerId and pendingData of the throttle
    kind, layout, order, matches,   \* connectionsType, of the setting, curOrderOpt, match
    detail,     \* the connection in detail, and whether it was a closed one
    closing,    \* calls to close connections
    seen, forgiven,     \* history: ids ever known, and those the user cleared
    steps

page == <<kind, layout, order, matches, detail>>
stream == <<message, throttled, pending>>
history == <<seen, forgiven>>
vars == <<core, opened, stream, cache, rendered, page, closing, history, steps>>

NoDetail == [id |-> 0, closed |-> FALSE]
IdsOf(s) == {s[i].id : i \in DOMAIN s}

TypeOK ==
    /\ DOMAIN core \subseteq Ids /\ opened \subseteq Ids /\ closing \subseteq SUBSET Ids
    /\ throttled \in BOOLEAN /\ kind \in {"active", "closed"} /\ layout \in {"table", "list"}
    /\ order \in {"default", "uploadSpeed", "downloadSpeed"} /\ matches \subseteq Ids
    /\ \A d \in {cache, rendered} : IdsOf(d.active) \cup IdsOf(d.closed) \subseteq opened

Init ==
    /\ core = None /\ opened = {} /\ message = <<>> /\ cache = Empty /\ rendered = Empty
    /\ throttled = FALSE /\ pending = <<>>
    /\ kind = "active" /\ layout = "table" /\ order = "default" /\ matches = Ids
    /\ detail = NoDetail /\ closing = {} /\ seen = {} /\ forgiven = {} /\ steps = 0

User == steps < MaxSteps /\ steps' = steps + 1

-----------------------------------------------------------------------------
(* The core.                                                               *)

Opens(c) ==
    /\ c \in Ids \ opened /\ \A d \in Ids : d < c => d \in opened
    /\ opened' = opened \cup {c}
    /\ core' = [d \in DOMAIN core \cup {c} |-> IF d = c THEN 0 ELSE core[d]]
    /\ UNCHANGED <<stream, cache, rendered, page, closing, history, steps>>

Transfers(c) ==
    /\ c \in DOMAIN core /\ core[c] < MaxBytes /\ core' = [core EXCEPT ![c] = @ + 1]
    /\ UNCHANGED <<opened, stream, cache, rendered, page, closing, history, steps>>

Closes(cs) ==
    /\ cs \cap DOMAIN core # {} /\ core' = [d \in DOMAIN core \ cs |-> core[d]]
    /\ UNCHANGED <<opened, stream, cache, rendered, page, history, steps>>

Reports ==
    /\ message = <<>> /\ message' = <<core>>
    /\ UNCHANGED <<core, opened, throttled, pending, cache, rendered, page, closing, history, steps>>

-----------------------------------------------------------------------------
(* The data.                                                               *)

\* A connection that goes on, with the speed since the snapshot before; one that
\* has not moved stays what it was, its speed included.
Carry(prev, bytes) ==
    IF prev.bytes = bytes THEN prev ELSE [id |-> prev.id, bytes |-> bytes, speed |-> bytes - prev.bytes]

\* Those that are new, in the order of the snapshot.
Fresh(snap, known) ==
    LET new == SetToSortSeq(DOMAIN snap \ known, LAMBDA a, b : a < b)
    IN  [i \in DOMAIN new |-> [id |-> new[i], bytes |-> snap[new[i]], speed |-> 0]]

\* The last closed ones, MaxClosed of them.
LastClosed(s) == SubSeq(s, IF Len(s) > MaxClosed THEN Len(s) - MaxClosed + 1 ELSE 1, Len(s))

\* Mutant of the next definition: what goes on is not taken from the new ones.
MergeAll(snap, old) ==
    LET Open(c) == c.id \in DOMAIN snap
        Gone(c) == ~Open(c)
        carried == SelectSeq(old.active, Open)
    IN  [active |-> [i \in DOMAIN carried |-> Carry(carried[i], snap[carried[i].id])] \o Fresh(snap, {}),
         closed |-> LastClosed(old.closed \o SelectSeq(old.active, Gone))]

Merge(snap, old) ==
    LET Open(c) == c.id \in DOMAIN snap
        Gone(c) == ~Open(c)
        carried == SelectSeq(old.active, Open)
    IN  [active |-> [i \in DOMAIN carried |-> Carry(carried[i], snap[carried[i].id])]
                    \o Fresh(snap, IdsOf(carried)),
         closed |-> LastClosed(old.closed \o SelectSeq(old.active, Gone))]

Store(snap) ==
    /\ cache' = Merge(snap, cache) /\ seen' = seen \cup IdsOf(cache'.active)

\* The first message passes, those within 16 ms after it wait and the last is kept.
Throttle(snap) ==
    IF throttled THEN pending' = <<snap>> /\ UNCHANGED <<throttled, cache, seen>>
    ELSE throttled' = TRUE /\ Store(snap) /\ UNCHANGED pending

Handle ==
    /\ message # <<>> /\ message' = <<>> /\ Throttle(message[1])
    /\ UNCHANGED <<core, opened, rendered, page, closing, forgiven, steps>>

Flush ==
    /\ throttled /\ throttled' = FALSE /\ pending' = <<>>
    /\ IF pending # <<>> THEN Store(pending[1]) ELSE UNCHANGED <<cache, seen>>
    /\ UNCHANGED <<core, opened, message, rendered, page, closing, forgiven, steps>>

Render ==
    /\ rendered # cache /\ rendered' = cache
    /\ UNCHANGED <<core, opened, stream, cache, page, closing, history, steps>>

-----------------------------------------------------------------------------
(* The page.                                                               *)

List == IF kind = "active" THEN rendered.active ELSE rendered.closed
Shown == {c \in IdsOf(List) : c \in matches}

\* clearClosedConnections puts back what was rendered.
ClearClosedConnections == cache' = [active |-> rendered.active, closed |-> <<>>]

Clear ==
    /\ kind = "closed" /\ Shown # {} /\ User /\ ClearClosedConnections
    /\ forgiven' = forgiven \cup IdsOf(cache.active) \cup IdsOf(cache.closed)
    /\ UNCHANGED <<core, opened, stream, rendered, page, closing, seen>>

OnPage == User /\ UNCHANGED <<core, opened, stream, cache, rendered, closing, history>>

ChooseKind(k) == k # kind /\ kind' = k /\ UNCHANGED <<layout, order, matches, detail>> /\ OnPage
ToggleLayout ==
    /\ layout' = IF layout = "table" THEN "list" ELSE "table"
    /\ UNCHANGED <<kind, order, matches, detail>> /\ OnPage
ChooseOrder(o) ==
    /\ layout = "list" /\ o # order /\ order' = o
    /\ UNCHANGED <<kind, layout, matches, detail>> /\ OnPage
Search(m) == m # matches /\ matches' = m /\ UNCHANGED <<kind, layout, order, detail>> /\ OnPage

\* A detail that is open is not replaced.
OpenDetail(c, closed) == detail = NoDetail /\ detail' = [id |-> c, closed |-> closed]

ShowDetail(c) ==
    /\ c \in Shown /\ OpenDetail(c, kind = "closed")
    /\ UNCHANGED <<kind, layout, order, matches>> /\ OnPage
CloseDetail ==
    /\ detail # NoDetail /\ detail' = NoDetail
    /\ UNCHANGED <<core, opened, stream, cache, rendered, kind, layout, order, matches, closing,
                   history, steps>>

\* From the detail, the row of the list, or all of them: the core is asked.
CloseOne ==
    /\ detail # NoDetail /\ ~detail.closed /\ User
    /\ closing' = closing \cup {{detail.id}} /\ detail' = NoDetail
    /\ UNCHANGED <<core, opened, stream, cache, rendered, kind, layout, order, matches, history>>
CloseItem(c) ==
    /\ layout = "list" /\ kind = "active" /\ c \in Shown /\ User /\ closing' = closing \cup {{c}}
    /\ UNCHANGED <<core, opened, stream, cache, rendered, page, history>>
CloseAll ==
    /\ User /\ closing' = closing \cup {Ids}
    /\ UNCHANGED <<core, opened, stream, cache, rendered, page, history>>

CloseCall(cs) ==
    /\ cs \in closing /\ closing' = closing \ {cs}
    /\ core' = [d \in DOMAIN core \ cs |-> core[d]]
    /\ UNCHANGED <<opened, stream, cache, rendered, page, history, steps>>

-----------------------------------------------------------------------------

Next ==
    \/ \E c \in Ids : \/ Opens(c) \/ Transfers(c) \/ (Closes({c}) /\ UNCHANGED closing)
                      \/ ShowDetail(c) \/ CloseItem(c)
    \/ Reports \/ Handle \/ Flush \/ Render
    \/ Clear \/ ToggleLayout \/ CloseDetail \/ CloseOne \/ CloseAll
    \/ \E k \in {"active", "closed"} : ChooseKind(k)
    \/ \E o \in {"default", "uploadSpeed", "downloadSpeed"} : ChooseOrder(o)
    \/ \E m \in {Ids, {}} : Search(m)
    \/ \E cs \in closing : CloseCall(cs)

Spec == Init /\ [][Next]_vars

-----------------------------------------------------------------------------
(* Properties.                                                             *)

\* A connection is listed once, as an open or a closed one, and one that was ever
\* listed stays so until the user clears the list or it has filled up, whichever
\* snapshots the throttle skipped (use-connection-data.ts:24).
ConnectionsListed ==
    LET listed == cache.active \o cache.closed
    IN  /\ \A i, j \in DOMAIN listed : listed[i].id = listed[j].id => i = j
        /\ Len(cache.closed) < MaxClosed => seen \subseteq IdsOf(listed) \cup forgiven
=============================================================================
