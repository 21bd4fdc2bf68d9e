--------------------------------- MODULE MCProxies ---------------------------------
(***************************************************************************)
(* Small instances of the components of the page of the proxies and of the *)
(* card of the current proxy.  They share no state but the core, of which  *)
(* each models what it sees, so a behaviour is one of a single component,  *)
(* which `part' names.                                                     *)
(***************************************************************************)
EXTENDS ProxySelection, Integers, Sequences, FiniteSets, TLC

CONSTANTS
    Clickers, Views, Reached, Checked,      \* for DelayManager
    Managed, Helpers, MaxBusy,
    ChainNodes, ChainGroups, FirstGroup,    \* for ProxyChain
    Brought, Buttons, ChainSteps, StoredChains,
    Delays,
    CardUids, CardGroupsOf, CardPrimary, CardMatch, CardMemory, \* for ProxyCard
    CardResults, CardTimeout, CardSteps, CardTests

VARIABLES
    part,       \* the component that this behaviour is about
    cache, dPending, item, shown, call, list,
    mounted, chainMode, mode, group, chain, items, exitNode, dialer, cNow, calls,
    work, loading, cSteps, owner, connected,
    lMode, lNow, delay, width, lChain, heads, lCache, rows, testing, made,
    core, data, uid, kMode, match, stored, sortType, kMounted, groups,
    kGroup, proxy, options, timer, loops, owed, busy, checks, kDelay, wanted,
    lost, late, unsorted, steps, tests

SomeReached == {{}, {"b"}}
TwoNodes == <<"a", "b">>
AllMembers == [g \in Groups |-> Nodes]
Selectors == [g \in Groups |-> "Selector"]

\* A profile without dialers, one with a circle of two nodes, and one that lacks a node
\* and has another dial through a group.
PlainProfile == [n \in ChainNodes |-> "none"]
SomeProfiles ==
    {PlainProfile, [PlainProfile EXCEPT !["x"] = "y", !["y"] = "x"],
     [n \in ChainNodes \ {"y"} |-> IF n = "x" THEN "outside" ELSE "none"]}

\* The chains that an earlier run left in the store, one of each length; the exit node
\* and the profile are any.
OneOfEachLength == {<<>>, <<"x">>, <<"x", "y">>, <<"x", "y", "z">>}
Latencies == {-1, 100, 1000000}

\* Two subscriptions for the card: one group has the same name in both, and the
\* rules of the second name a group that is no selector.
CardGroup(name, type, all) == [name |-> name, type |-> type, all |-> all]
CardGroups ==
    [p |-> <<CardGroup("g", "Selector", <<2, 1>>), CardGroup("h", "Selector", <<1>>)>>,
     q |-> <<CardGroup("h", "Selector", <<1>>), CardGroup("k", "URLTest", <<2, 1>>)>>]
CardMains == [p |-> "h", q |-> "h"]
CardRules == [p |-> "", q |-> "k"]
Remembered == ("p" :> "g") @@ ("q" :> "k") @@ ("" :> "")

D == INSTANCE DelayManager WITH
    pending <- dPending, Order <- Checked
C == INSTANCE ProxyChain WITH
    now <- cNow, steps <- cSteps, Nodes <- ChainNodes, Groups <- ChainGroups,
    Default <- FirstGroup, OwnDialers <- Brought, Handlers <- Buttons, MaxSteps <- ChainSteps
L == INSTANCE ProxyList WITH
    mode <- lMode, now <- lNow, chain <- lChain, cache <- lCache,
    Groups <- {"g", "h"}, Hidden <- {"h"}, Proxies <- TwoNodes,
    Timeout <- 1000, Widths <- {"wide", "narrow"}
K == INSTANCE ProxyCard WITH
    mode <- kMode, mounted <- kMounted, group <- kGroup, delay <- kDelay,
    Uids <- CardUids, GroupsOf <- CardGroupsOf, Primary <- CardPrimary, Match <- CardMatch,
    Results <- CardResults, Timeout <- CardTimeout, MaxSteps <- CardSteps, MaxTests <- CardTests

\* A list of tests names nodes, once or more, and no button starts more helpers
\* than it has nodes (delay.ts:395); "none" is not a node's name.
ASSUME DelayAssumption ==
    /\ Checked \in Seq(D!Names) /\ Helpers \in 1 .. Len(Checked)
    /\ "none" \notin D!Names
    /\ Clickers \cap (D!Lists \X (1 .. Helpers)) = {}
    /\ Reached \subseteq SUBSET D!Names

\* There are finitely many nodes and a first group for the chain.
ASSUME ChainAssumption ==
    /\ IsFiniteSet(ChainNodes) /\ C!None \notin ChainNodes
    /\ FirstGroup \in ChainGroups /\ C!None \notin ChainGroups \cup Buttons
    /\ C!Outside \notin ChainNodes /\ Brought \subseteq C!Configurations

\* A subscription has a uid, and the card remembers a group or none for each.
ASSUME CardAssumption ==
    /\ CardUids # {} /\ "" \notin CardUids
    /\ CardMemory \in [CardUids \cup {""} -> K!GroupNames \cup {""}]

Dvars == <<cache, dPending, item, shown, call, list>>
Cvars == <<mounted, chainMode, mode, group, chain, items, exitNode, dialer, cNow,
           calls, work, loading, cSteps, owner, connected>>
Lvars == <<lMode, lNow, delay, width, lChain, heads, lCache, rows, testing, made>>
Kvars == <<core, data, uid, kMode, match, stored, sortType, kMounted, groups,
           kGroup, proxy, options, timer, loops, owed, busy, checks, kDelay,
           wanted, lost, late, unsorted, steps, tests>>
Parts == {"selection", "delay", "chain", "list", "card"}
all == <<part, vars, Dvars, Cvars, Lvars, Kvars>>

\* The components that this behaviour is not about start in one way.
Start ==
    /\ part \in Parts
    /\ Init /\ (part = "selection" \/ (\A g \in Groups : now[g] = CHOOSE n \in Nodes : TRUE))
    /\ D!Init
    /\ C!Init
    /\ \/ part = "chain" /\ items \in StoredChains
       \/ mode = "rule" /\ ~chainMode /\ items = <<>> /\ exitNode = C!None /\ dialer = PlainProfile
    /\ L!Init /\ (part = "list" \/ (lMode = "rule" /\ width = "wide"))
    /\ stored = CardMemory /\ sortType = 1
    /\ K!Init /\ (part = "card" \/ (core.uid = CHOOSE u \in CardUids : TRUE))

Step ==
    /\ UNCHANGED part
    /\ \/ part = "selection" /\ Next /\ UNCHANGED <<Dvars, Cvars, Lvars,
                    Kvars>>
       \/ part = "delay" /\ D!Next /\ UNCHANGED <<vars, Cvars, Lvars, Kvars>>
       \/ part = "chain" /\ C!Next /\ UNCHANGED <<vars, Dvars, Lvars, Kvars>>
       \/ part = "list" /\ L!Next /\ UNCHANGED <<vars, Dvars, Cvars, Kvars>>
       \/ part = "card" /\ K!Next /\ UNCHANGED <<vars, Dvars, Cvars, Lvars>>

PageSpec == Start /\ [][Step]_all

\* The list in one order, without filters, and one group of tests at a time.
OneOrder ==
    /\ heads["GLOBAL"].filter = "none" /\ heads["GLOBAL"].sortType # 2
    /\ \A p \in {"a", "b"} : delay["GLOBAL"][p] = -1

-----------------------------------------------------------------------------
(* The properties of the components.  LastChoiceWins is that of            *)
(* ProxySelection.                                                         *)

\* What the cache holds of a request is of the latest request for that node
\* (delay.ts:301).
LatestWins == part = "delay" => D!LatestWins

\* No mark "testing" is left when nothing tests (delay.ts:354).
NoMarkLeft == part = "delay" => D!NoMarkLeft

\* A chain that was connected is found again from its exit node, node for node
\* (proxy-chain.tsx:261).
ChainFound == part = "chain" => C!ChainFound

\* The dialers never form a circle, so the walk of the back end ends
\* (cmd/runtime.rs:59).
DialersEnd == part = "chain" => C!DialersEnd

\* The rows that are shown are those of the nodes, heads and columns there are, new or
\* kept (use-render-list.ts:413).
RowsComplete == part = "list" => L!RowsComplete

\* When the tests of a group end its rows are in the order of what was found
\* (Changelog.md:254).
SortedAfterCheck == [][L!SortsRows]_Lvars

\* The card tests its node in one chain; while no choice of another view and none that
\* was refused or overtaken is shown it has the node of the core, it has the group that
\* was chosen for the subscription unless its memory was overwritten, and its list is
\* in the order of the last results (current-proxy-card.tsx:481).
CardAgrees ==
    part = "card" => K!CurrentShown /\ K!GroupRemembered /\ K!OneChain /\ K!ListOrdered
=============================================================================
