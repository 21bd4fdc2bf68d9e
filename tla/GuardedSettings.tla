---------------------------- MODULE GuardedSettings ----------------------------
(***************************************************************************)
(* src/components/setting/mods/guard-state.tsx, and the settings that are  *)
(* saved as soon as they are changed: layout-viewer.tsx, setting-clash.tsx, *)
(* setting-verge-basic.tsx and setting-system.tsx.                         *)
(*                                                                         *)
(* A change is shown, sent, and taken back when it fails.  What a setting  *)
(* of the program takes back is the configuration of the rendering of its  *)
(* click; one of the core changes what is shown by then.                   *)
(***************************************************************************)
EXTENDS Naturals, FiniteSets

CONSTANTS
    Changed,  \* bound: the settings that are changed
    MaxSteps  \* bound: steps of the user

\* Settings of the program: the rows of the dialogs.
StatsRows == {"traffic_graph", "enable_memory_usage", "enable_group_icon", "pause_render"}
NoticeRow == {"notice_position"}
HoverRow == {"hover_navigator"}
DelayRow == {"hover_delay"}
NavigationRows == {"menu_icon", "collapse_navbar"}
TrayRows == {"tray_icon", "tray_speed", "proxy_groups_mode", "inline_modes"}
SystemRows == {"auto_launch", "silent_start"}
BasicRows == {"language", "theme_mode", "tray_event", "env_type", "start_page"}

\* Rows with a button of their own: they choose a file or clear it.
IconRows == {"common_icon", "sysproxy_icon", "tun_icon"}
ScriptRow == {"startup_script"}

\* Settings of the core.
LanRow == {"allow_lan"}
ClashRows == {"ipv6", "unified_delay", "log_level"}

Guarded == StatsRows \cup NoticeRow \cup HoverRow \cup DelayRow \cup NavigationRows \cup TrayRows \cup SystemRows \cup BasicRows
Picked == IconRows \cup ScriptRow
Verge == Guarded \cup Picked \cup {"dns"}
Clash == LanRow \cup ClashRows
Keys == Verge \cup Clash

\* Two values of each, and one more of a number.
Values(k) == IF k \in DelayRow THEN 0..2 ELSE 0..1

VARIABLES
    saved,    \* the two configurations
    seen,     \* as the interface has them
    requests, \* changes under way; those with a guard hold its lock
    choosing, \* dialogs that choose a file, each with the rendering of its click
    refetch,  \* mutateClash is under way
    clashLog, \* logLevel of the page of the logs
    dnsShown, dns, dnsLate, \* the switch of DNS, its request, and its timer
    together, \* history: the configurations of which changes overlapped, since they
              \* were last fetched with nothing under way
    crossed,  \* history: of which one failed then, or one without a guard failed
    steps

switch == <<dnsShown, dns, dnsLate>>
vars == <<saved, seen, requests, choosing, refetch, clashLog, switch, together, crossed, steps>>

Off == [at |-> "off", on |-> 0]

UserStep == steps < MaxSteps /\ steps' = steps + 1
Shown(keys, from) == [k \in Keys |-> IF k \in keys THEN from[k] ELSE seen[k]]

Store(k) == IF k \in Clash THEN "clash" ELSE "verge"
Busy(store) ==
    \/ \E r \in requests : Store(r.key) = store
    \/ store = "verge" /\ (choosing # {} \/ dns # Off)
    \/ store = "clash" /\ refetch

\* A change starts, and the configurations are fetched.
Starts(k) == together' = IF Busy(Store(k)) THEN together \cup {Store(k)} ELSE together
Synced(store, others) ==
    /\ together' = IF others THEN together ELSE together \ {store}
    /\ crossed' = IF others THEN crossed ELSE crossed \ {store}

\* lockRef: several changes at a time are one.
Locked(k) == \E r \in requests : r.key = k /\ r.guard

-----------------------------------------------------------------------------
(* The settings of the program.                                            *)

Request(k, v, guard, at) == [key |-> k, value |-> v, view |-> seen, guard |-> guard, at |-> at]

\* onChange, then onGuard, or a timer before it.
Change(k, v) ==
    /\ UserStep /\ k \in Guarded \cap Changed /\ ~Locked(k) /\ v # seen[k]
    /\ k \in DelayRow => seen["hover_navigator"] = 1
    /\ seen' = [seen EXCEPT ![k] = v]
    /\ requests' = requests \cup {Request(k, v, TRUE, IF k \in DelayRow THEN "wait" ELSE "patch")} /\ Starts(k)
    /\ UNCHANGED <<saved, choosing, refetch, clashLog, switch, crossed>>

Becomes(r, at) == requests' = (requests \ {r}) \cup {[r EXCEPT !.at = at]}
Ends(r) == requests' = requests \ {r}

Debounced(r) ==
    /\ r.at = "wait" /\ Becomes(r, "patch")
    /\ UNCHANGED <<saved, seen, choosing, refetch, clashLog, switch, together, crossed, steps>>

Patched(r) ==
    /\ r.at = "patch" /\ r.key \in Verge
    /\ saved' = [saved EXCEPT ![r.key] = r.value] /\ Becomes(r, "fetch")
    /\ UNCHANGED <<seen, choosing, refetch, clashLog, switch, together, crossed, steps>>

\* patchVerge fetches the configuration.
Fetched(r) ==
    /\ r.at = "fetch" /\ Ends(r)
    /\ seen' = Shown(Verge, saved)
    /\ Synced("verge", choosing # {} \/ dns # Off \/ \E q \in requests \ {r} : Store(q.key) = "verge")
    /\ UNCHANGED <<saved, choosing, refetch, clashLog, switch, steps>>

\* Mutant of the next definition: what is shown stays.
KeepShown(r) == UNCHANGED seen

\* onChange of the old value: that of the click.
Rollback(r) == seen' = IF r.key \in Verge THEN Shown(Verge, r.view) ELSE [seen EXCEPT ![r.key] = r.view[r.key]]

\* Without a guard, a failure has no effect.
PatchFails(r) ==
    /\ r.at = "patch" /\ Ends(r)
    /\ IF r.guard THEN Rollback(r) ELSE UNCHANGED seen
    /\ crossed' = crossed \cup IF ~r.guard \/ Store(r.key) \in together THEN {Store(r.key)} ELSE {}
    /\ UNCHANGED <<saved, choosing, refetch, clashLog, switch, together, steps>>

-----------------------------------------------------------------------------
(* The files.                                                              *)

\* The value of the rendering; the patch has no guard.
Put(k, v, view) ==
    /\ seen' = Shown(Verge, [view EXCEPT ![k] = v])
    /\ requests' = requests \cup {Request(k, v, FALSE, "patch")}

Clear(k) ==
    /\ UserStep /\ k \in Picked \cap Changed /\ seen[k] = 1 /\ Put(k, 0, seen) /\ Starts(k)
    /\ UNCHANGED <<saved, choosing, refetch, clashLog, switch, crossed>>

Browse(k) ==
    /\ UserStep /\ k \in Picked \cap Changed /\ (k \in IconRows => seen[k] = 0)
    /\ choosing' = choosing \cup {[key |-> k, view |-> seen]} /\ Starts(k)
    /\ UNCHANGED <<saved, seen, requests, refetch, clashLog, switch, crossed>>

\* The file of an icon is copied first, which may fail; paths of icons are not modelled.
Chosen(c) ==
    /\ choosing' = choosing \ {c}
    /\ Put(c.key, 1, c.view) \/ UNCHANGED <<seen, requests>>
    /\ UNCHANGED <<saved, refetch, clashLog, switch, together, crossed, steps>>

-----------------------------------------------------------------------------
(* The settings of the core.                                               *)

\* patchClash has one lock for all of them: a change meanwhile is shown, and lost.
ChangeClash(k, v) ==
    /\ UserStep /\ k \in Clash \cap Changed /\ ~Locked(k) /\ v # seen[k]
    /\ seen' = [seen EXCEPT ![k] = v]
    /\ clashLog' = IF k = "log_level" THEN v ELSE clashLog
    /\ requests' = IF \E r \in requests : r.key \in Clash THEN requests ELSE requests \cup {Request(k, v, TRUE, "patch")}
    /\ Starts(k)
    /\ UNCHANGED <<saved, choosing, refetch, switch, crossed>>

\* Mutant of the next definition: nothing is fetched.
PatchedOnly(r) ==
    /\ r.at = "patch" /\ r.key \in Clash /\ Ends(r)
    /\ saved' = [saved EXCEPT ![r.key] = r.value]
    /\ UNCHANGED <<seen, choosing, refetch, clashLog, switch, together, crossed, steps>>

\* patchClash does not wait for mutateClash.
ClashPatched(r) ==
    /\ r.at = "patch" /\ r.key \in Clash /\ Ends(r)
    /\ saved' = [saved EXCEPT ![r.key] = r.value] /\ refetch' = TRUE
    /\ UNCHANGED <<seen, choosing, clashLog, switch, together, crossed, steps>>

ClashFetched ==
    /\ refetch /\ refetch' = FALSE
    /\ seen' = Shown(Clash, saved)
    /\ Synced("clash", \E r \in requests : Store(r.key) = "clash")
    /\ UNCHANGED <<saved, requests, choosing, clashLog, switch, steps>>

-----------------------------------------------------------------------------
(* The switch of DNS: handleDnsToggle, under a lock.                       *)

DnsToggle ==
    /\ UserStep /\ dns = Off
    /\ dnsShown' = 1 - dnsShown /\ dns' = [at |-> "patch", on |-> 1 - dnsShown]
    /\ Starts("dns")
    /\ UNCHANGED <<saved, seen, requests, choosing, refetch, clashLog, dnsLate, crossed>>

\* patchVerge
DnsPatched ==
    /\ dns.at = "patch"
    /\ \/ saved' = [saved EXCEPT !["dns"] = dns.on] /\ seen' = Shown(Verge, saved')
          /\ dns' = [dns EXCEPT !.at = "apply"] /\ UNCHANGED dnsShown
       \/ dnsShown' = 1 - dns.on /\ dns' = [dns EXCEPT !.at = "undo"] /\ UNCHANGED <<saved, seen>>
    /\ UNCHANGED <<requests, choosing, refetch, clashLog, dnsLate, together, crossed, steps>>

\* apply_dns_config
DnsApplied ==
    /\ dns.at = "apply"
    /\ \/ dns' = Off /\ dnsLate' = TRUE /\ UNCHANGED dnsShown
       \/ dnsShown' = 1 - dns.on /\ dns' = [dns EXCEPT !.at = "undo"] /\ UNCHANGED dnsLate
    /\ UNCHANGED <<saved, seen, requests, choosing, refetch, clashLog, together, crossed, steps>>

\* A failure to undo is ignored.
DnsUndone ==
    /\ dns.at = "undo" /\ dns' = Off
    /\ \/ saved' = [saved EXCEPT !["dns"] = 1 - dns.on] /\ seen' = Shown(Verge, saved') /\ UNCHANGED crossed
       \/ crossed' = crossed \cup {"dns"} /\ UNCHANGED <<saved, seen>>
    /\ UNCHANGED <<requests, choosing, refetch, clashLog, dnsShown, dnsLate, together, steps>>

\* 500 ms later
DnsFetches ==
    /\ dnsLate /\ dnsLate' = FALSE /\ refetch' = TRUE
    /\ UNCHANGED <<saved, seen, requests, choosing, clashLog, dnsShown, dns, together, crossed, steps>>

-----------------------------------------------------------------------------

TypeOK ==
    /\ DOMAIN saved = Keys /\ DOMAIN seen = Keys
    /\ \A r, q \in requests : r.guard /\ q.guard /\ r.key = q.key => r = q
    /\ dns.at \in {"off", "patch", "apply", "undo"}

Init ==
    /\ saved = [k \in Keys |-> IF k \in HoverRow THEN 1 ELSE 0] /\ seen = saved
    /\ requests = {} /\ choosing = {} /\ refetch = FALSE /\ clashLog = 0
    /\ dnsShown = 0 /\ dns = Off /\ dnsLate = FALSE /\ together = {} /\ crossed = {} /\ steps = 0

Next ==
    \/ \E k \in Changed : \E v \in Values(k) : Change(k, v) \/ ChangeClash(k, v)
    \/ \E k \in Changed : Clear(k) \/ Browse(k)
    \/ \E c \in choosing : Chosen(c)
    \/ \E r \in requests : Debounced(r) \/ Patched(r) \/ Fetched(r) \/ PatchFails(r) \/ ClashPatched(r)
    \/ ClashFetched
    \/ DnsToggle \/ DnsPatched \/ DnsApplied \/ DnsUndone \/ DnsFetches

Spec == Init /\ [][Next]_vars

-----------------------------------------------------------------------------

\* When nothing is under way, what is shown is what is saved, whichever changes failed or
\* were dropped by a lock, unless one failed that overlapped another
\* (guard-state.tsx:73).
SettingsShown ==
    /\ requests = {} /\ choosing = {} /\ ~refetch /\ dns = Off => \A k \in Keys : Store(k) \in crossed \/ seen[k] = saved[k]
    /\ dns = Off => "dns" \in crossed \/ dnsShown = saved["dns"]
=============================================================================
