----------------------------- MODULE SystemProxy -----------------------------
(***************************************************************************)
(* src/components/setting/mods/sysproxy-viewer.tsx, the settings of the    *)
(* system proxy, and src/hooks/use-system-proxy-state.ts, its switch.      *)
(*                                                                         *)
(* Some settings reach the system only when the proxy is turned on.  So    *)
(* the dialog turns it off and on after it saved them, and whenever the    *)
(* mixed port has changed; the user may use the switch meanwhile.          *)
(***************************************************************************)
EXTENDS Naturals, FiniteSets

CONSTANTS
    Hosts,    \* that a user may choose: "name", "ip6" or "bad"
    MaxTasks, \* bound: saves and resets under way
    MaxSteps  \* bound: steps of the user

None == {}
Idle == [at |-> "idle", target |-> FALSE]
Template == <<"%proxy_host%", 0>>   \* DEFAULT_PAC
Settings == {"pac", "host", "bypass", "use_default", "check", "duration", "content"}

\* process_terminated_flags: the patches that the system learns of at once.
Flagged == {"on", "pac", "content", "bypass", "duration"}

VARIABLES
    saved,    \* the configuration
    seen,     \* that of the interface: verge
    port, seenPort, \* mixed-port, and clashConfig.mixedPort
    os,       \* proxy of the system
    open, value, \* of the dialog
    tasks,    \* saves and resets of the proxy under way
    pending, busy, \* pendingRef, and what the loop of the switch awaits
    wanted,   \* history: what the user wanted last
    crossed,  \* history: the switch and a save or reset overlapped, the configuration
              \* was fetched during a reset, or a reset looked at an unsaved mode
    failed,   \* history: a request failed
    steps

ports == <<port, seenPort>>
switch == <<pending, busy, wanted>>
vars == <<saved, seen, ports, os, open, value, tasks, switch, crossed, failed, steps>>

Form(config) == [k \in Settings |-> config[k]]
Patched(config, patch) == [k \in DOMAIN config |-> IF k \in DOMAIN patch THEN patch[k] ELSE config[k]]

\* What the system has when the configuration is applied.
Off == [on |-> FALSE]
System(config, p) ==
    IF ~config.on THEN Off
    ELSE [on |-> TRUE, pac |-> config.pac, host |-> config.host, bypass |-> config.bypass,
          use_default |-> config.use_default, content |-> config.content, port |-> p]

\* patch_verge, which may fail; it fails as a whole.
Patch(patch) ==
    /\ saved' = Patched(saved, patch)
    /\ os' = IF DOMAIN patch \cap Flagged # {} THEN System(saved', port) ELSE os
    /\ UNCHANGED failed
PatchFails == failed' = TRUE /\ UNCHANGED <<saved, os>>

UserStep == steps < MaxSteps /\ steps' = steps + 1

-----------------------------------------------------------------------------
(* The dialog.                                                             *)

\* The form starts from the configuration that is seen.
Open ==
    /\ UserStep /\ ~open /\ open' = TRUE /\ value' = Form(seen)
    /\ UNCHANGED <<saved, seen, ports, os, tasks, switch, crossed, failed>>

Close ==
    /\ UserStep /\ open /\ open' = FALSE
    /\ UNCHANGED <<saved, seen, ports, os, value, tasks, switch, crossed, failed>>

\* setValue; all but the host are disabled while the proxy is off.
Edit(v) ==
    /\ UserStep /\ open /\ v # value /\ value' = v
    /\ v # [value EXCEPT !.host = v.host] => seen.on
    /\ UNCHANGED <<saved, seen, ports, os, open, tasks, switch, crossed, failed>>

EditHost == \E h \in Hosts : Edit([value EXCEPT !.host = h])
EditMode == Edit([value EXCEPT !.pac = ~@])
EditDuration == \E n \in {0, 10} : Edit([value EXCEPT !.duration = n])

\* The default list is filled in when it is no longer used and there is no other.
EditUseDefault ==
    ~value.pac /\ Edit([value EXCEPT !.use_default = ~@, !.bypass = IF value.use_default /\ @ = "" THEN "list" ELSE @])
EditBypass == ~value.pac /\ ~value.use_default /\ \E b \in {"", "list", "bad"} : Edit([value EXCEPT !.bypass = b])

EditCheck == ~value.pac /\ Edit([value EXCEPT !.check = ~@])

\* openPacEditor, handleSavePac
EditContent == value.pac /\ Edit([value EXCEPT !.content = Template])

\* %proxy_host% and %mixed-port% are replaced for good.
Fill(content, host) == IF content = Template THEN <<host, seenPort>> ELSE content

\* An IPv6 address is put into brackets.
Bracketed(host) == IF host = "ip6" THEN "[ip6]" ELSE host

Acceptable ==
    /\ value.duration >= 1
    /\ ~value.check \/ value.pac \/ value.use_default \/ value.bypass # "bad"
    /\ value.host \in {"name", "ip6"}

\* What the save changes, of what is seen.
Differences ==
    LET new == [value EXCEPT !.content = Fill(@, value.host), !.host = Bracketed(@)]
    IN  [k \in {k \in Settings : new[k] # seen[k]} |-> new[k]]

NeedReset == DOMAIN Differences \cap {"pac", "host", "content", "bypass", "use_default"} # {}

\* Mutant of the next definition: the proxy is never turned off and on.
SaveOnly ==
    /\ UserStep /\ open /\ Acceptable /\ open' = FALSE
    /\ Cardinality(tasks) < MaxTasks
    /\ seen' = Patched(seen, Differences)
    /\ tasks' = tasks \cup {[at |-> "patch", patch |-> Differences, reset |-> FALSE, pac |-> value.pac]}
    /\ crossed' = (crossed \/ busy # Idle)
    /\ UNCHANGED <<saved, ports, os, value, switch, failed>>

\* onSave: the dialog is closed, what is seen is changed, and the rest goes on alone.
Save ==
    /\ UserStep /\ open /\ Acceptable /\ open' = FALSE
    /\ Cardinality(tasks) < MaxTasks
    /\ seen' = Patched(seen, Differences)
    /\ tasks' = tasks \cup {[at |-> "patch", patch |-> Differences, reset |-> NeedReset /\ seen.on, pac |-> value.pac]}
    /\ crossed' = (crossed \/ busy # Idle)
    /\ UNCHANGED <<saved, ports, os, value, switch, failed>>

Rest == UNCHANGED <<ports, open, value, switch, steps>>
Becomes(t, at) == tasks' = (tasks \ {t}) \cup {[t EXCEPT !.at = at]}
Ends(t) == tasks' = tasks \ {t}

\* Nothing is patched when nothing is changed.
SavePatched(t) ==
    /\ t.at = "patch"
    /\ \/ /\ IF DOMAIN t.patch = {} THEN UNCHANGED <<saved, os, failed>> ELSE Patch(t.patch)
          /\ Becomes(t, "refetch")
       \/ DOMAIN t.patch # {} /\ PatchFails /\ Ends(t)
    /\ UNCHANGED <<seen, crossed>> /\ Rest

\* patchVerge fetches the configuration; 50 ms later the proxy may be reset.
SaveRefetched(t) ==
    /\ t.at = "refetch" /\ seen' = saved
    /\ IF t.reset THEN Becomes(t, "check") ELSE Ends(t)
    /\ crossed' = (crossed \/ \E u \in tasks : u.at = "on")
    /\ UNCHANGED <<saved, os, failed>> /\ Rest

-----------------------------------------------------------------------------
(* The reset, of a save and of a change of the mixed port.                 *)

\* The core has another mixed port; bound: the interface has seen the one before.
ChangePort ==
    /\ UserStep /\ seenPort = port /\ port' = 3 - port
    /\ UNCHANGED <<saved, seen, seenPort, os, open, value, tasks, switch, crossed, failed>>

\* The effect on clashConfig.mixedPort.
PortSeen ==
    /\ seenPort # port /\ seenPort' = port
    /\ Cardinality(tasks) < MaxTasks
    /\ tasks' = IF seen.on THEN tasks \cup {[at |-> "check", port |-> port, pac |-> value.pac]} ELSE tasks
    /\ crossed' = (crossed \/ busy # Idle)
    /\ UNCHANGED <<saved, seen, port, os, open, value, switch, failed, steps>>

\* Is the proxy of that mode in use?
Active(pac) == os.on /\ os.pac = pac

ResetChecked(t) ==
    /\ t.at = "check"
    /\ IF Active(t.pac) THEN Becomes(t, "off") ELSE Ends(t)
    /\ crossed' = (crossed \/ t.pac # saved.pac)
    /\ UNCHANGED <<saved, seen, os, failed>> /\ Rest

ResetOff(t) ==
    /\ t.at = "off"
    /\ \/ Patch([on |-> FALSE]) /\ Becomes(t, "on")
       \/ PatchFails /\ Ends(t)
    /\ UNCHANGED <<seen, crossed>> /\ Rest

ResetOn(t) ==
    /\ t.at = "on" /\ Ends(t)
    /\ Patch([on |-> TRUE]) \/ PatchFails
    /\ UNCHANGED <<seen, crossed>> /\ Rest

-----------------------------------------------------------------------------
(* The switch: toggleSystemProxy.                                          *)

\* Mutant of the next definition: a click during a request is forgotten.
ToggleUnlessBusy(b) ==
    /\ UserStep /\ seen' = [seen EXCEPT !.on = b] /\ wanted' = b
    /\ IF busy = Idle THEN pending' = None /\ busy' = [at |-> "patch", target |-> b] ELSE UNCHANGED <<pending, busy>>
    /\ crossed' = (crossed \/ tasks # {})
    /\ UNCHANGED <<saved, ports, os, open, value, tasks, failed>>

Toggle(b) ==
    /\ UserStep /\ seen' = [seen EXCEPT !.on = b] /\ wanted' = b
    /\ IF busy = Idle THEN pending' = None /\ busy' = [at |-> "patch", target |-> b] ELSE pending' = {b} /\ UNCHANGED busy
    /\ crossed' = (crossed \/ tasks # {})
    /\ UNCHANGED <<saved, ports, os, open, value, tasks, failed>>

\* A failure ends the loop.
TogglePatched ==
    /\ busy.at = "patch"
    /\ \/ Patch([on |-> busy.target]) /\ busy' = [busy EXCEPT !.at = "refetch"]
       \/ PatchFails /\ busy' = Idle
    /\ UNCHANGED <<seen, ports, open, value, tasks, pending, wanted, crossed, steps>>

ToggleRefetched ==
    /\ busy.at = "refetch" /\ seen' = saved
    /\ pending' = None
    /\ busy' = IF pending = None THEN Idle ELSE [at |-> "patch", target |-> TRUE \in pending]
    /\ UNCHANGED <<saved, ports, os, open, value, tasks, wanted, crossed, failed, steps>>

-----------------------------------------------------------------------------

TypeOK ==
    /\ Settings \subseteq DOMAIN saved /\ DOMAIN seen = DOMAIN saved /\ DOMAIN value = Settings
    /\ Cardinality(tasks) <= MaxTasks /\ {port, seenPort} \subseteq 1..2

Init ==
    /\ \E m, b \in BOOLEAN, c \in {Template, <<"name", 1>>} :
        saved = [pac |-> m, host |-> "name", bypass |-> "", use_default |-> TRUE, check |-> TRUE, duration |-> 10,
                 content |-> c, on |-> b]
    /\ seen = saved /\ port = 1 /\ seenPort = 1 /\ os = System(saved, 1)
    /\ open = FALSE /\ value = Form(seen) /\ tasks = {}
    /\ pending = None /\ busy = Idle /\ wanted = saved.on
    /\ crossed = FALSE /\ failed = FALSE /\ steps = 0

Next ==
    \/ Open \/ Close \/ Save \/ ChangePort \/ PortSeen
    \/ EditHost \/ EditMode \/ EditDuration \/ EditUseDefault \/ EditBypass \/ EditCheck \/ EditContent
    \/ \E t \in tasks : SavePatched(t) \/ SaveRefetched(t) \/ ResetChecked(t) \/ ResetOff(t) \/ ResetOn(t)
    \/ \E b \in BOOLEAN : Toggle(b)
    \/ TogglePatched \/ ToggleRefetched

Spec == Init /\ [][Next]_vars

-----------------------------------------------------------------------------

Quiet == tasks = {} /\ busy = Idle /\ seenPort = port /\ ~failed

\* The system has the settings that were saved and the port of the core, when nothing
\* is under way (sysproxy-viewer.tsx:132).
SystemIsSaved == Quiet /\ ~crossed => os = System(saved, port)

\* The last click on the switch wins (use-system-proxy-state.ts:44).
LastClickWins == Quiet /\ ~crossed => saved.on = wanted
=============================================================================
