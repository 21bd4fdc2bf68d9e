----------------------------- MODULE ProxyChain -----------------------------
(***************************************************************************)
(* The chain of proxies that the user puts together on the page of the     *)
(* proxies (src/src/components/proxy/proxy-chain.tsx, proxy-groups.tsx,    *)
(* pages/proxies.tsx).  The page holds the chain, the browser's store what *)
(* leads back to it, the runtime configuration the dialer of every node,   *)
(* and the core the node that is selected.  A call to the back end can     *)
(* take effect or be refused without the page being told; a refresh of the *)
(* profile, a switch or a setting makes a new runtime configuration.  A    *)
(* behaviour is one run of the app; the store outlives it.                 *)
(***************************************************************************)
EXTENDS Naturals, Sequences, FiniteSets, SequencesExt

CONSTANTS
    Nodes,
    Groups,     \* groups of type Selector, the first of which is the default
    Default,
    OwnDialers, \* the dialers that the nodes of a profile bring, see Regenerate
    Handlers,   \* bound: handleConnect under way at once
    MaxSteps    \* bound: what the user and the profiles do

None == "none"
Outside == "outside"    \* a dialer that is a group
Targets == Groups \cup {"GLOBAL"}
Chains == UNION {[1 .. n -> Nodes] : n \in 0 .. Cardinality(Nodes)}
IsOnce(c) == \A i, j \in 1 .. Len(c) : c[i] = c[j] => i = j

\* A configuration names some of the nodes, with a dialer or none.
Configurations == UNION {[S -> Nodes \cup {None, Outside}] : S \in SUBSET Nodes}

VARIABLES
    mounted,    \* the page is there
    chainMode,  \* proxy-chain-mode-enabled
    mode,       \* rule or global, the same all along
    group,      \* selectedGroup
    chain,      \* proxyChain of the page
    items,      \* proxy-chain-items, in the store
    exitNode,   \* proxy-chain-exit-node, in the store
    dialer,     \* dialer-proxy of each node in the runtime configuration
    now,        \* what the core has selected
    calls,      \* an update of the runtime configuration on its way (one: bound)
    work,       \* handleConnect, as often as it is under way
    loading,    \* the exit node whose chain fetchChainConfig asks for
    steps,
    owner,      \* history: the handler whose chain the configuration holds whole
    connected   \* history: the chain that was connected, until the dialers or the
                \* selection are written again

vars == <<mounted, chainMode, mode, group, chain, items, exitNode, dialer, now, calls,
          work, loading, steps, owner, connected>>

\* Where a handler is, what it captured, and what is left of where it was started:
\* the button (isConnecting), else the page, else nothing.
Idle == [at |-> "idle", chain |-> <<>>, target |-> None, mount |-> "gone"]

TypeOK ==
    /\ mounted \in BOOLEAN /\ chainMode \in BOOLEAN
    /\ mode \in {"rule", "global"} /\ group \in Groups \cup {None}
    /\ chain \in Chains /\ items \in Chains
    /\ exitNode \in Nodes \cup {None} /\ loading \in Nodes \cup {None}
    /\ dialer \in Configurations
    /\ now \in [Targets -> Nodes \cup {"DIRECT"}]
    /\ calls \in 0 .. 1 /\ steps \in 0 .. MaxSteps
    /\ \A h \in Handlers : work[h].at \in {"idle", "save", "select", "clear", "direct", "refresh"}
    /\ owner \in Handlers \cup {None} /\ connected \in Chains

\* The app starts with what earlier runs left in the store and a new configuration.
Init ==
    /\ mounted = TRUE /\ chainMode \in BOOLEAN
    /\ mode \in {"rule", "global"} /\ group = None
    /\ items \in {c \in Chains : IsOnce(c)} /\ chain = items
    /\ exitNode \in Nodes \cup {None}
    /\ dialer \in OwnDialers
    /\ now = [t \in Targets |-> "DIRECT"]
    /\ calls = 0 /\ work = [h \in Handlers |-> Idle]
    /\ loading = IF chainMode THEN exitNode ELSE None
    /\ steps = 0 /\ owner = None /\ connected = <<>>

Step == steps < MaxSteps /\ steps' = steps + 1

-----------------------------------------------------------------------------
(* The runtime configuration.                                              *)

\* update_proxy_chain_config: every dialer goes, then each node of the chain but
\* the first, if the configuration has it, dials through the one before it.
Dialers(names, c) ==
    [n \in names |-> IF \E i \in 2 .. Len(c) : c[i] = n
                     THEN c[(CHOOSE i \in 2 .. Len(c) : c[i] = n) - 1]
                     ELSE None]

Write(c) ==
    /\ dialer' = Dialers(DOMAIN dialer, c)
    /\ connected' = <<>>

\* The stretches that lead to a node, each through the dialer of the next.
Leading(exit) ==
    {c \in Chains : /\ c # <<>> /\ Last(c) = exit /\ ToSet(c) \subseteq DOMAIN dialer
                    /\ \A i \in 2 .. Len(c) : dialer[c[i]] = c[i - 1]}

\* Mutant of the next definition: the node without a dialer is left out.
WalkDialers(exit) ==
    IF exit \notin DOMAIN dialer \/ dialer[exit] = None THEN {<<>>}
    ELSE {c \in Leading(exit) : dialer[c[1]] \in DOMAIN dialer /\ dialer[dialer[c[1]]] = None}

\* get_runtime_proxy_chain_config: from the exit node along the dialers, then
\* turned round.  It begins with the node that has no dialer, or one that is no
\* node of the configuration, and is empty for an exit node without a dialer;
\* along a circle it never ends, and there is no answer.
Walk(exit) ==
    IF exit \notin DOMAIN dialer \/ dialer[exit] = None THEN {<<>>}
    ELSE {c \in Leading(exit) : dialer[c[1]] \notin DOMAIN dialer}

\* A call of updateProxyChainConfigInRuntime that nobody waits for: it clears.
Cleared(ok) ==
    /\ calls = 1 /\ calls' = 0
    /\ IF ok THEN Write(<<>>) /\ owner' = None ELSE UNCHANGED <<dialer, owner, connected>>
    /\ UNCHANGED <<mounted, chainMode, mode, group, chain, items, exitNode, now, work, loading, steps>>

\* A refresh of the profile, a switch or a setting: Config::generate replaces the
\* draft, with the dialers that the profile brings and no others.
Regenerate ==
    /\ Step
    /\ dialer' \in OwnDialers /\ owner' = None /\ connected' = <<>>
    /\ now' \in {now, [t \in Targets |-> "DIRECT"]}
    /\ UNCHANGED <<mounted, chainMode, mode, group, chain, items, exitNode, calls, work, loading>>

-----------------------------------------------------------------------------
(* The page.                                                               *)

ActiveGroup == IF group # None THEN group
               ELSE IF chainMode /\ mode = "rule" THEN Default ELSE None
Shown == mounted /\ chainMode

\* setProxyChain, and the effect that stores what is shown.
ShowChain(c) == chain' = c /\ items' = c

Edit ==
    /\ Shown /\ Step
    /\ UNCHANGED <<mounted, chainMode, mode, group, exitNode, dialer, now, calls,
                   work, loading, owner, connected>>

\* Mutant of the next definition.
AddAgain(n) == Edit /\ Len(chain) < 3 /\ ShowChain(Append(chain, n))

\* handleChangeProxy in the mode of chains: a node enters once.
Add(n) == Edit /\ n \notin ToSet(chain) /\ ShowChain(Append(chain, n))

RemoveNode(i) == Edit /\ i \in 1 .. Len(chain) /\ ShowChain(RemoveAt(chain, i))

\* handleDragEnd: arrayMove.
Move(i, j) ==
    /\ Edit /\ {i, j} \subseteq 1 .. Len(chain) /\ i # j
    /\ ShowChain(InsertAt(RemoveAt(chain, i), j, chain[i]))

\* updateDelays: another latency of a node is another chain, which is stored.
UpdateDelays ==
    /\ Shown /\ chain # <<>> /\ ShowChain(chain)
    /\ UNCHANGED <<mounted, chainMode, mode, group, exitNode, dialer, now, calls,
                   work, loading, steps, owner, connected>>

\* The button with the bin, and handleGroupSelect, drop everything at once; the
\* runtime configuration follows when the call arrives.
Drop(g) ==
    /\ Shown /\ Step /\ calls = 0
    /\ \/ g = group /\ chain # <<>>
       \/ g \in Groups /\ mode = "rule"
    /\ group' = g
    /\ ShowChain(<<>>) /\ exitNode' = None
    /\ calls' = 1
    /\ UNCHANGED <<mounted, chainMode, mode, dialer, now, work, loading, owner, connected>>

\* What is left of where each handler was started, after its button or page went.
Left(gone) ==
    [h \in Handlers |-> IF work[h].mount \in {"button", gone}
                        THEN [work[h] EXCEPT !.mount = IF gone = "page" THEN "gone" ELSE "page"]
                        ELSE work[h]]

\* onToggleChainMode: leaving the mode takes the button away, clears the runtime
\* configuration and keeps the chain; entering it asks for that of the exit node.
Toggle ==
    /\ mounted /\ Step /\ calls = 0
    /\ chainMode' = ~chainMode
    /\ calls' = IF chainMode THEN 1 ELSE 0
    /\ loading' = IF chainMode THEN None ELSE exitNode
    /\ work' = Left("button")
    /\ UNCHANGED <<mounted, mode, group, chain, items, exitNode, dialer, now, owner, connected>>

\* The page goes and comes back: chain and mode are restored from the store, the
\* choice of the group is not; the handlers that run go on without it.
Leave ==
    /\ mounted
    /\ mounted' = FALSE /\ loading' = None /\ chain' = <<>>
    /\ work' = Left("page")
    /\ UNCHANGED <<chainMode, mode, group, items, exitNode, dialer, now, calls,
                   steps, owner, connected>>

Return ==
    /\ ~mounted /\ Step
    /\ mounted' = TRUE /\ group' = None /\ chain' = items
    /\ loading' = IF chainMode THEN exitNode ELSE None
    /\ UNCHANGED <<chainMode, mode, items, exitNode, dialer, now, calls, work, owner, connected>>

\* fetchChainConfig answers: a chain that is not empty replaces the page's.
Loaded ==
    /\ loading # None /\ mounted
    /\ loading' = None
    /\ \E c \in Walk(loading) :
          IF c = <<>> THEN UNCHANGED <<chain, items>> ELSE ShowChain(c)
    /\ UNCHANGED <<mounted, chainMode, mode, group, exitNode, dialer, now, calls, work,
                   steps, owner, connected>>

-----------------------------------------------------------------------------
(* handleConnect.                                                          *)

Target == IF mode = "global" THEN "GLOBAL" ELSE ActiveGroup
IsConnected == Len(chain) >= 2 /\ Target # None /\ now[Target] = Last(chain)

\* The button: connect, or disconnect when the target has the last node selected.
\* It waits for its own handler only, not for one of an earlier button.
Press(h) ==
    /\ Shown /\ Step /\ Len(chain) >= 2 /\ Target # None
    /\ work[h] = Idle /\ \A k \in Handlers : work[k].mount # "button"
    /\ work' = [work EXCEPT ![h] = [at |-> IF IsConnected THEN "clear" ELSE "save",
                                    chain |-> chain, target |-> Target, mount |-> "button"]]
    /\ UNCHANGED <<mounted, chainMode, mode, group, chain, items, exitNode, dialer, now,
                   calls, loading, owner, connected>>

Proceed(h, l) == work' = [work EXCEPT ![h].at = l]
End(h) == work' = [work EXCEPT ![h] = Idle]

\* Connect, first: the configuration.  The command answers with success even if
\* the core did not take it.  The configuration may lack nodes of the chain.
SaveChain(h, ok) ==
    /\ work[h].at = "save" /\ Proceed(h, "select")
    /\ IF ok THEN /\ Write(work[h].chain)
                  /\ owner' = IF ToSet(work[h].chain) \subseteq DOMAIN dialer THEN h ELSE None
             ELSE UNCHANGED <<dialer, owner, connected>>
    /\ UNCHANGED <<mounted, chainMode, mode, group, chain, items, exitNode, now, calls,
                   loading, steps>>

\* Connect, second: the exit node, which is then remembered.
SelectExit(h, ok) ==
    /\ work[h].at = "select" /\ End(h)
    /\ IF ok THEN /\ now' = [now EXCEPT ![work[h].target] = Last(work[h].chain)]
                  /\ exitNode' = Last(work[h].chain)
                  /\ connected' = IF owner = h THEN work[h].chain ELSE <<>>
             ELSE UNCHANGED <<now, exitNode, connected>>
    /\ owner' = IF owner = h THEN None ELSE owner
    /\ UNCHANGED <<mounted, chainMode, mode, group, chain, items, dialer, calls, loading, steps>>

\* Disconnect, first: the configuration without dialers.
ClearChain(h, ok) ==
    /\ work[h].at = "clear" /\ Proceed(h, "direct")
    /\ IF ok THEN Write(<<>>) /\ owner' = None ELSE UNCHANGED <<dialer, owner, connected>>
    /\ UNCHANGED <<mounted, chainMode, mode, group, chain, items, exitNode, now, calls,
                   loading, steps>>

\* Disconnect, second: the target goes to DIRECT, or else to the first node, or
\* stays; what was remembered goes.
SelectDirect(h, n) ==
    /\ work[h].at = "direct" /\ Proceed(h, "refresh")
    /\ n \in {"DIRECT", work[h].chain[1], now[work[h].target]}
    /\ now' = [now EXCEPT ![work[h].target] = n]
    /\ exitNode' = None /\ items' = <<>>
    /\ UNCHANGED <<mounted, chainMode, mode, group, chain, dialer, calls, loading, steps,
                   owner, connected>>

\* Disconnect, third: the connections are closed and the nodes fetched, then the
\* chain goes, unless one of the two failed or the page is another by now.
Disconnected(h, ok) ==
    /\ work[h].at = "refresh" /\ End(h)
    /\ IF ok /\ work[h].mount # "gone" THEN ShowChain(<<>>) ELSE UNCHANGED <<chain, items>>
    /\ UNCHANGED <<mounted, chainMode, mode, group, exitNode, dialer, now, calls, loading,
                   steps, owner, connected>>

-----------------------------------------------------------------------------

Next ==
    \/ Regenerate
    \/ \E n \in Nodes : Add(n)
    \/ \E i \in 1 .. Len(chain) : RemoveNode(i)
    \/ \E i, j \in 1 .. Len(chain) : Move(i, j)
    \/ \E g \in Groups \cup {group} : Drop(g)
    \/ UpdateDelays \/ Toggle \/ Leave \/ Return \/ Loaded
    \/ \E ok \in BOOLEAN : Cleared(ok)
    \/ \E h \in Handlers :
          \/ Press(h)
          \/ \E ok \in BOOLEAN : \/ SaveChain(h, ok) \/ SelectExit(h, ok)
                                 \/ ClearChain(h, ok) \/ Disconnected(h, ok)
          \/ \E n \in Nodes \cup {"DIRECT"} : SelectDirect(h, n)

Spec == Init /\ [][Next]_vars

-----------------------------------------------------------------------------
(* Properties.                                                             *)

\* Along the dialers of some nodes one always comes to an end, whatever is edited,
\* moved, cleared, reloaded or regenerated in between and however many connects
\* overlap; only a profile can bring a circle of its own.  So the walk of the back
\* end comes to an end for every chain of the page (cmd/runtime.rs:59).
DialersEnd ==
    \/ dialer \in OwnDialers
    \/ \A S \in SUBSET DOMAIN dialer : (\A n \in S : dialer[n] \in S) => S = {}

\* A chain that was connected is found again from the remembered exit node, node
\* for node and in its order, although only the exit node was remembered and the
\* page may have come and gone, until the dialers are written or the selection of
\* another handler is remembered.  A new configuration ends it too: the exit node
\* stays remembered while its dialers are gone (core/manager/config.rs:93).
ChainFound ==
    (connected # <<>> /\ exitNode # None) => Walk(exitNode) = {connected}
=============================================================================
