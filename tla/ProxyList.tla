----------------------------- MODULE ProxyList ------------------------------
(***************************************************************************)
(* The list of the page of the proxies: src/src/components/proxy/          *)
(* use-render-list.ts, use-head-state.ts, use-filter-sort.ts and the heads *)
(* of the groups (proxy-head.tsx).                                         *)
(*                                                                         *)
(* The rows of a group are kept and used again while the group, its head   *)
(* and the width are the ones they were made from.  They hold the order by *)
(* latency of the moment they were made: nothing of the cache of latencies *)
(* is compared, so whoever changes latencies has to touch the head.        *)
(* The lists of the chain mode are made at every render and are never kept. *)
(***************************************************************************)
EXTENDS Naturals, Integers, Sequences, FiniteSets, SequencesExt

CONSTANTS
    Groups,     \* groups beside GLOBAL
    Hidden,     \* those that the configuration hides
    Proxies,    \* the nodes, in the order of the core
    Delays,     \* latencies that a test may find; -1 none, 1000000 error
    Timeout,    \* default_latency_timeout
    Widths      \* window widths to be told apart

Global == "GLOBAL"
All == Groups \cup {Global}
None == <<>>

VARIABLES
    mode,       \* rule or global
    now,        \* what the core reports of the groups: the same or something else
    delay,      \* [All -> [Proxies -> Delays]], as getDelayFix answers
    width,
    chain,      \* isChainMode, with the runtime configuration at hand
    heads,      \* state of useHeadStateNew: [All -> HeadState]
    cache,      \* groupCacheRef
    rows,       \* prevListRef, which is renderList outside of the chain mode
    testing,    \* handleCheckAll: its group, and whether the list was sorted by
                \* latency when it was clicked
    made        \* history: the mode that the rows were made for

vars == <<mode, now, delay, width, chain, heads, cache, rows, testing, made>>

\* textState, showType and testUrl change what a head shows, never the rows.
HeadState == [open : BOOLEAN, sortType : 0 .. 2, filter : {"none", "delay<"}]
DefaultState == [open |-> FALSE, sortType |-> 1, filter |-> "none"]
Heads == [All -> HeadState]

-----------------------------------------------------------------------------
(* filterSort.                                                             *)

\* filterProxies; the query "delay<500".
Filtered(g, filter) ==
    SelectSeq(Proxies, LAMBDA p :
        filter = "none" \/ (delay[g][p] >= 0 /\ delay[g][p] <= 500))

\* categorizeDelay: a real latency, a timeout, an error, no result.
Rank(d) ==
    IF d > 100000 THEN 4
    ELSE IF d = 0 \/ d >= Timeout THEN 3
    ELSE IF d < 0 THEN 5
    ELSE 0

Value(d) == IF Rank(d) = 5 THEN 0 ELSE IF d = 0 THEN Timeout ELSE d

Before(d, e) ==
    Rank(d) < Rank(e) \/ (Rank(d) = Rank(e) /\ Value(d) < Value(e))

\* list.sort is stable: what compares equal keeps its order.
SortedBy(s, lt(_, _)) ==
    LET place(i) == Cardinality({j \in DOMAIN s : lt(s[j], s[i])
                                     \/ (j < i /\ ~lt(s[i], s[j]))})
    IN  [k \in DOMAIN s |-> s[CHOOSE i \in DOMAIN s : place(i) = k - 1]]

FilterSort(g, h) ==
    LET list == Filtered(g, h.filter)
    IN  CASE h.sortType = 0 -> list
          [] h.sortType = 1 -> SortedBy(list, LAMBDA p, q : Before(delay[g][p], delay[g][q]))
          [] OTHER -> Reverse(list)     \* by name

-----------------------------------------------------------------------------
(* useRenderList.                                                          *)

Columns(w) == IF w = "wide" THEN 2 ELSE 1

\* groupProxies: rows of at most `size' nodes.
GroupProxies(s, size) ==
    [r \in 1 .. (Len(s) + size - 1) \div size |->
        SubSeq(s, (r - 1) * size + 1,
               IF r * size < Len(s) THEN r * size ELSE Len(s))]

UseRule(m) == m = "rule"
Shown(m) == IF UseRule(m) THEN SetToSeq(Groups) ELSE <<Global>>

\* The rows of a group: its title and, when it is open, its head and its nodes.
\* Each keeps the state of the head that it was made from.
Items(g, m, h, w) ==
    LET list == GroupProxies(FilterSort(g, h), Columns(w))
        item(type, nodes) == [type |-> type, of |-> g, head |-> h, nodes |-> nodes]
    IN  <<item("group", <<>>)>> \o
        (IF ~h.open /\ UseRule(m) THEN <<>>
         ELSE <<item("head", <<>>)>> \o
              (IF list = <<>> THEN <<item("empty", <<>>)>>
               ELSE [r \in DOMAIN list |-> item("row", list[r])]))

Key(n, w) == [now |-> n, col |-> Columns(w)]

\* Mutant of the next definition: the rows stay when the number of columns changes.
ValidAnyWidth(c, g, n, w) == c[g] # None /\ c[g].key.now = n

\* The head is compared as an object: SetHeads drops the entry (see there).
Valid(c, g, n, w) == c[g] # None /\ c[g].key = Key(n, w)

\* A render with mode m, selections n, heads h, width w and cache c.
Rendered(m, n, h, w, c) ==
    [g \in All |->
        IF g \in ToSet(Shown(m)) /\ ~Valid(c, g, n, w)
        THEN [key |-> Key(n, w), items |-> Items(g, m, h[g], w)]
        ELSE c[g]]

Visible(m, c) ==
    LET all == FlattenSeq([i \in DOMAIN Shown(m) |-> c[Shown(m)[i]].items])
    IN  IF UseRule(m) THEN SelectSeq(all, LAMBDA it : it.of \notin Hidden)
        ELSE Tail(all)

\* The list of the chain mode: every node as the configuration has it, under
\* the selected group, the first one, or a group made for the occasion.
ChainRows(w) ==
    LET list == GroupProxies(Proxies, Columns(w))
    IN  [r \in DOMAIN list |->
            [type |-> "row", of |-> "chain", head |-> DefaultState, nodes |-> list[r]]]

\* Where no entry had to be made, a list of the same length is taken for the last one.
Render(m, n, h, w, c, chained) ==
    IF chained THEN cache' = c /\ UNCHANGED <<rows, made>> ELSE
    LET new == Rendered(m, n, h, w, c)
        list == Visible(m, new)
    IN  /\ cache' = new
        /\ IF new = c /\ Len(list) = Len(rows) THEN UNCHANGED <<rows, made>>
                                              ELSE rows' = list /\ made' = m

-----------------------------------------------------------------------------
(* The state.                                                              *)

TypeOK ==
    /\ mode \in {"rule", "global"} /\ now \in BOOLEAN
    /\ delay \in [All -> [ToSet(Proxies) -> Delays]]
    /\ width \in Widths /\ chain \in BOOLEAN
    /\ heads \in Heads /\ made \in {"rule", "global"}
    /\ testing \in [group : All \cup {"none"}, sorts : BOOLEAN]

Default == [g \in All |-> DefaultState]
NoTest == [group |-> "none", sorts |-> FALSE]

Init ==
    /\ mode \in {"rule", "global"}
    /\ now = FALSE
    /\ delay = [g \in All |-> [p \in ToSet(Proxies) |-> -1]]
    /\ width \in Widths /\ chain = FALSE
    /\ heads = Default /\ testing = NoTest /\ made = mode
    /\ cache = Rendered(mode, now, heads, width, [g \in All |-> None])
    /\ rows = Visible(mode, cache)

\* An update of the head makes a new object, even when it says the same: the
\* rows of the group are made anew.
SetHeads(g, h) ==
    /\ heads' = [heads EXCEPT ![g] = h]
    /\ Render(mode, now, heads', width, [cache EXCEPT ![g] = None], chain)

\* A click on the title of a group, or a button or the filter of its head: those on
\* the page, with the state that they were made from.
Click(r) ==
    /\ ~chain
    /\ \/ /\ r.type = "group"
          /\ SetHeads(r.of, [heads[r.of] EXCEPT !.open = ~r.head.open])
       \/ /\ r.type = "head"
          /\ \/ SetHeads(r.of, [heads[r.of] EXCEPT !.sortType = (r.head.sortType + 1) % 3])
             \/ \E f \in {"none", "delay<"} \ {r.head.filter} :
                   SetHeads(r.of, [heads[r.of] EXCEPT !.filter = f])
    /\ UNCHANGED <<mode, now, delay, width, chain, testing>>

\* The core's data comes again, with another selection.
Refresh ==
    /\ now' = ~now
    /\ Render(mode, now', heads, width, cache, chain)
    /\ UNCHANGED <<mode, delay, width, chain, heads, testing>>

Resize(w) ==
    /\ w # width /\ width' = w
    /\ Render(mode, now, heads, w, cache, chain)
    /\ UNCHANGED <<mode, now, delay, chain, heads, testing>>

SetMode(m) ==
    /\ m # mode /\ mode' = m
    /\ Render(m, now, heads, width, cache, chain)
    /\ UNCHANGED <<now, delay, width, chain, heads, testing>>

SetChain ==
    /\ chain' = ~chain
    /\ Render(mode, now, heads, width, cache, chain')
    /\ UNCHANGED <<mode, now, delay, width, heads, testing>>

-----------------------------------------------------------------------------
(* handleCheckAll, as far as the list is concerned.                        *)

\* The button of a head.
CheckAll(r) ==
    /\ testing = NoTest /\ ~chain /\ r.type = "head"
    /\ testing' = [group |-> r.of, sorts |-> r.head.sortType = 1]
    /\ UNCHANGED <<mode, now, delay, width, chain, heads, cache, rows, made>>

\* A latency arrives; the rows stay where they are.
Measured(p, d) ==
    /\ testing # NoTest
    /\ delay' = [delay EXCEPT ![testing.group][p] = d]
    /\ UNCHANGED <<mode, now, width, chain, heads, cache, rows, testing, made>>

\* Mutant of the next definition: the head is not touched.
EndQuietly ==
    /\ testing # NoTest /\ testing' = NoTest
    /\ UNCHANGED <<mode, now, delay, width, chain, heads, cache, rows, made>>

\* All tests have ended: a list sorted by latency is made anew.  The head and the
\* order are those of the click, so that another order chosen meanwhile is undone.
EndCheckAll ==
    /\ testing # NoTest /\ testing' = NoTest
    /\ IF testing.sorts
       THEN SetHeads(testing.group, [heads[testing.group] EXCEPT !.sortType = 1])
       ELSE UNCHANGED <<heads, cache, rows, made>>
    /\ UNCHANGED <<mode, now, delay, width, chain>>

-----------------------------------------------------------------------------

Next ==
    \/ \E r \in ToSet(rows) : Click(r) \/ CheckAll(r)
    \/ Refresh
    \/ \E w \in Widths : Resize(w)
    \/ \E m \in {"rule", "global"} : SetMode(m)
    \/ SetChain
    \/ \E p \in ToSet(Proxies), d \in Delays : Measured(p, d)
    \/ EndCheckAll

Spec == Init /\ [][Next]_vars

-----------------------------------------------------------------------------
(* Properties.                                                             *)

RowsOf(list, g) == SelectSeq(list, LAMBDA it : it.of = g /\ it.type = "row")
NodesOf(list) == FlattenSeq([i \in DOMAIN list |-> list[i].nodes])

\* The rows shown of a group lose, repeat or invent no node, follow the head as it
\* is now, and fill the columns there are now.
Faithful(list, h) ==
    LET nodes == NodesOf(list)
        place(n) == CHOOSE i \in DOMAIN Proxies : Proxies[i] = n
    IN  /\ IsInjective(nodes) /\ ToSet(nodes) \subseteq ToSet(Proxies)
        /\ h.filter = "none" => ToSet(nodes) = ToSet(Proxies)
        /\ \A i, j \in DOMAIN nodes : i < j =>
              /\ h.sortType = 0 => place(nodes[i]) < place(nodes[j])
              /\ h.sortType = 2 => place(nodes[i]) > place(nodes[j])
        /\ \A r \in DOMAIN list :
              /\ Len(list[r].nodes) \in 1 .. Columns(width)
              /\ r # Len(list) => Len(list[r].nodes) = Columns(width)

\* The page shows the groups of its mode, each open one with all of its nodes, in
\* the order, filter and columns that are chosen, although most rows were made at
\* an earlier render (use-render-list.ts:89, :413).  The rows of the other mode are
\* shown only where theirs are as many, which the code takes for the same rows (:486).
RowsComplete ==
    IF chain THEN Faithful(ChainRows(width), [DefaultState EXCEPT !.sortType = 0])
    ELSE IF made # mode THEN Len(rows) = Len(Visible(mode, cache))
    ELSE \A g \in ToSet(Shown(mode)) \ Hidden :
            IF UseRule(mode) /\ ~heads[g].open THEN RowsOf(rows, g) = <<>>
            ELSE Faithful(RowsOf(rows, g), heads[g])

\* When the tests of a group end whose list was sorted by latency when they began,
\* its rows are in the order of what was found, with everything that failed behind
\* everything that did not, whatever was opened, sorted, filtered, resized or
\* switched in between (Changelog.md:254).
SortsRows ==
    (/\ testing # NoTest /\ testing' = NoTest /\ testing.sorts
     /\ ~chain /\ testing.group \in ToSet(Shown(mode)))
        => LET nodes == NodesOf(RowsOf(rows', testing.group))
               found(i) == delay[testing.group][nodes[i]]
           IN  \A i, j \in DOMAIN nodes :
                  (i < j /\ Rank(found(j)) = 0) =>
                      Rank(found(i)) = 0 /\ found(i) <= found(j)
=============================================================================
