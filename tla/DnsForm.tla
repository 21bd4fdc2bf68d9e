------------------------------- MODULE DnsForm -------------------------------
(***************************************************************************)
(* src/components/setting/mods/dns-viewer.tsx: the settings of DNS, as a   *)
(* form and as a document.  Each of the two is written from the other: the *)
(* document by effects and timers after a change of the form, the form     *)
(* 300 ms after a change of the document.                                  *)
(*                                                                         *)
(* Setting the form always ends in an effect that writes the document, so  *)
(* the two are one step.                                                   *)
(***************************************************************************)
EXTENDS Naturals, Sequences

CONSTANTS
    Texts,      \* documents that a user may write
    MaxTimers,  \* bound: changes of a document in 300 ms
    MaxSteps    \* bound: steps of the user

\* A document is [is |-> "broken"], "empty", "scalar", or "map" with the settings that
\* it has: a function of some of these keys.
Keys == {"ipv6", "mode", "servers", "policy", "hosts"}
Modes == {"fake-ip", "redir-host"}
Map(config) == [is |-> "map", of |-> config]
Empty == [is |-> "empty"]

VARIABLES
    file,       \* dns_config.yaml
    enabled,    \* clash.dns.enable of the running configuration
    applied,    \* the document that the dialog applied last
    open, visual, \* open, visualization
    values,     \* of the form
    text,       \* yamlContent
    late,       \* forms that timers of 0 ms are about to write to the document
    timers,     \* documents that timers of 300 ms are about to write to the form
    checks, reads, \* requests of initDnsConfig under way
    saving,     \* of onSave
    steps

form == <<values, text>>
delays == <<late, timers>>
loads == <<checks, reads>>
vars == <<file, enabled, applied, open, visual, form, delays, loads, saving, steps>>

-----------------------------------------------------------------------------
(* Conversions.                                                            *)

\* DEFAULT_DNS_CONFIG
Default == [ipv6 |-> TRUE, mode |-> "fake-ip", servers |-> {"s"}, policy |-> {}, hosts |-> {}]

\* parseList: blank items are dropped.
ParseList(items) == items \ {""}

\* parseNameserverPolicy: what is not a domain with its servers is dropped.
ParseNameserverPolicy(items) == items \ {"", "junk"}

\* parseHosts
ParseHosts(items) == items \ {"", "junk"}

Get(config, key) == IF key \in DOMAIN config THEN config[key] ELSE Default[key]

\* updateValuesFromConfig, formatNameserverPolicy, formatHosts: an unknown mode is the
\* default, other keys are forgotten.
FormOf(doc) ==
    LET config == IF doc.is = "map" THEN doc.of ELSE [k \in {} |-> 0]
    IN  [[k \in Keys |-> Get(config, k)] EXCEPT !.mode = IF @ \in Modes THEN @ ELSE Default.mode]

\* generateDnsConfig: a policy or hosts without entries are left out.
ConfigOf(v) ==
    LET policy == ParseNameserverPolicy(v.policy)
        hosts == ParseHosts(v.hosts)
        all == [v EXCEPT !.servers = ParseList(@), !.policy = policy, !.hosts = hosts]
    IN  Map([k \in Keys \ ((IF policy = {} THEN {"policy"} ELSE {}) \cup (IF hosts = {} THEN {"hosts"} ELSE {}))
             |-> all[k]])

-----------------------------------------------------------------------------
(* The form and the document.                                              *)

\* setValues, and the effect that calls updateYamlFromValues.
SetValues(v) == values' = v /\ text' = ConfigOf(v)

\* A click or a key; timers of 0 ms are over before.
UserStep == steps < MaxSteps /\ steps' = steps + 1 /\ late = <<>>

\* handleChange: the timer still has the form of the last rendering.
HandleChange(v) ==
    /\ UserStep /\ open /\ visual /\ v # values
    /\ SetValues(v) /\ late' = <<values>>
    /\ UNCHANGED <<file, enabled, applied, open, visual, timers, loads, saving>>

\* The settings of one value: enable, listen, enhancedMode, ...
ChangeMode == \E m \in Modes : HandleChange([values EXCEPT !.mode = m])
ChangeSwitch == HandleChange([values EXCEPT !.ipv6 = ~@])
ChangeServers == \E s \in {{}, {"s"}, {"s", ""}} : HandleChange([values EXCEPT !.servers = s])
ChangePolicy == \E p \in {{}, {"p", "junk"}} : HandleChange([values EXCEPT !.policy = p])
ChangeHosts == \E h \in {{}, {"h"}} : HandleChange([values EXCEPT !.hosts = h])

LateWrite ==
    /\ late # <<>> /\ late' = <<>>
    /\ text' = ConfigOf(late[1])
    /\ UNCHANGED <<file, enabled, applied, open, visual, values, timers, loads, saving, steps>>

\* handleYamlChange
HandleYamlChange(t) ==
    /\ UserStep /\ open /\ ~visual /\ t # text
    /\ text' = t
    /\ IF t.is = "map" THEN Len(timers) < MaxTimers /\ timers' = Append(timers, t) ELSE UNCHANGED timers
    /\ UNCHANGED <<file, enabled, applied, open, visual, values, late, loads, saving>>

ParseTimer ==
    /\ timers # <<>> /\ timers' = Tail(timers)
    /\ SetValues(FormOf(Head(timers)))
    /\ UNCHANGED <<file, enabled, applied, open, visual, late, loads, saving, steps>>

ResetToDefaults ==
    /\ UserStep /\ open /\ SetValues(Default)
    /\ UNCHANGED <<file, enabled, applied, open, visual, delays, loads, saving>>

\* updateValuesFromYaml: the effect skips the document.
UpdateValuesFromYaml == values' = IF text.is \in {"broken", "empty"} THEN values ELSE FormOf(text)

\* Mutant of the next definition: the document is not written anew.
ShowOnly ==
    /\ UserStep /\ open /\ visual' = ~visual
    /\ IF visual' THEN UpdateValuesFromYaml ELSE UNCHANGED values
    /\ UNCHANGED <<file, enabled, applied, open, text, delays, loads, saving>>

\* The button, and the effect of visualization.
Toggle ==
    /\ UserStep /\ open /\ visual' = ~visual
    /\ IF visual' THEN UpdateValuesFromYaml /\ UNCHANGED text
       ELSE text' = ConfigOf(values) /\ UNCHANGED values
    /\ UNCHANGED <<file, enabled, applied, open, delays, loads, saving>>

-----------------------------------------------------------------------------
(* Opening: initDnsConfig.                                                 *)

Open ==
    /\ UserStep /\ ~open /\ open' = TRUE /\ checks' = checks + 1
    /\ UNCHANGED <<file, enabled, applied, visual, form, delays, reads, saving>>

Close ==
    /\ UserStep /\ open /\ open' = FALSE
    /\ UNCHANGED <<file, enabled, applied, visual, form, delays, loads, saving>>

Checked ==
    /\ checks > 0 /\ checks' = checks - 1
    /\ IF file.is = "absent" THEN SetValues(Default) /\ UNCHANGED reads
       ELSE reads' = reads + 1 /\ UNCHANGED form
    /\ UNCHANGED <<file, enabled, applied, open, visual, delays, saving, steps>>

\* A file that does not parse is as one that cannot be read; an empty one leaves the form.
ReadDone ==
    /\ reads > 0 /\ reads' = reads - 1
    /\ \/ file.is # "broken" /\ IF file.is = "empty" THEN text' = Empty /\ UNCHANGED values
                                ELSE SetValues(FormOf(file))
       \/ SetValues(Default)
    /\ UNCHANGED <<file, enabled, applied, open, visual, delays, checks, saving, steps>>

-----------------------------------------------------------------------------
(* Saving: onSave, under a lock.                                           *)

Idle == [at |-> "no"]
Meanwhile == UNCHANGED <<enabled, visual, form, delays, loads>>

\* The core refuses settings without servers.
Valid(doc) == doc.is = "map" /\ ("servers" \in DOMAIN doc.of => doc.of.servers # {})

\* What is not an object is refused.
Save ==
    /\ UserStep /\ open /\ saving = Idle
    /\ LET doc == IF visual THEN ConfigOf(values) ELSE text
       IN  saving' = IF doc.is = "map" THEN [at |-> "write", doc |-> doc, apply |-> enabled] ELSE Idle
    /\ UNCHANGED <<file, applied, open>> /\ Meanwhile

\* save_dns_config; a failure ends the save.
SaveWritten ==
    /\ saving.at = "write"
    /\ \/ file' = saving.doc /\ saving' = [saving EXCEPT !.at = "validate"]
       \/ saving' = Idle /\ UNCHANGED file
    /\ UNCHANGED <<applied, open, steps>> /\ Meanwhile

\* validate_dns_config: what is refused stays in the file.
Validated ==
    /\ saving.at = "validate"
    /\ \/ Valid(file) /\ saving' = [saving EXCEPT !.at = IF saving.apply THEN "apply" ELSE "end"]
       \/ saving' = Idle
    /\ UNCHANGED <<file, applied, open, steps>> /\ Meanwhile

\* apply_dns_config reads the file again.
Applied ==
    /\ saving.at = "apply"
    /\ \/ applied' = file /\ saving' = [saving EXCEPT !.at = "end"]
       \/ saving' = Idle /\ UNCHANGED applied
    /\ UNCHANGED <<file, open, steps>> /\ Meanwhile

SaveEnds ==
    /\ saving.at = "end" /\ saving' = Idle /\ open' = FALSE
    /\ UNCHANGED <<file, applied, steps>> /\ Meanwhile

\* The DNS of the running configuration is turned on or off elsewhere.
ChangeEnabled ==
    /\ UserStep /\ ~open /\ enabled' = ~enabled
    /\ UNCHANGED <<file, applied, open, visual, form, delays, loads, saving>>

-----------------------------------------------------------------------------

TypeOK ==
    /\ DOMAIN values = Keys /\ values.mode \in Modes
    /\ visual \in BOOLEAN /\ open \in BOOLEAN /\ Len(timers) <= MaxTimers /\ Len(late) <= 1
    /\ saving.at \in {"no", "write", "validate", "apply", "end"}

Init ==
    /\ file \in Texts \cup {[is |-> "absent"]} /\ enabled \in BOOLEAN /\ applied = Empty
    /\ open = FALSE /\ visual = TRUE /\ values = Default /\ text = ConfigOf(Default)
    /\ late = <<>> /\ timers = <<>> /\ checks = 0 /\ reads = 0 /\ saving = Idle /\ steps = 0

Next ==
    \/ ChangeMode \/ ChangeSwitch \/ ChangeServers \/ ChangePolicy \/ ChangeHosts
    \/ LateWrite \/ ParseTimer \/ ResetToDefaults \/ Toggle
    \/ \E t \in Texts : HandleYamlChange(t)
    \/ Open \/ Close \/ Checked \/ ReadDone
    \/ Save \/ SaveWritten \/ Validated \/ Applied \/ SaveEnds
    \/ ChangeEnabled

Spec == Init /\ [][Next]_vars

-----------------------------------------------------------------------------

\* When no timer is pending, the form has the settings of the document that is shown,
\* however the two were changed and loaded (dns-viewer.tsx:447).
FormAgrees ==
    ~visual /\ late = <<>> /\ timers = <<>> /\ text.is = "map"
    => ConfigOf(FormOf(text)) = ConfigOf(values)

\* The dialog applies what it saved and the core accepted (dns-viewer.tsx:582).
AppliedValid ==
    /\ applied # Empty => Valid(applied)
    /\ saving.at \in {"apply", "end"} => file = saving.doc
=============================================================================
