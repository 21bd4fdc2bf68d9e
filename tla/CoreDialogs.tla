----------------------------- MODULE CoreDialogs -----------------------------
(***************************************************************************)
(* Two dialogs of src/components/setting/mods that patch the core: that of *)
(* TUN (tun-viewer) and that of the origins that its controller accepts    *)
(* (external-controller-cors), with patchClash of src/hooks/use-clash.ts.  *)
(*                                                                         *)
(* They share no setting, so a behaviour is one of a single dialog.  A     *)
(* text stands for what the code tells apart: "" is missing, "bad" is      *)
(* refused, " " is blank.                                                  *)
(***************************************************************************)
EXTENDS Naturals, Sequences, SequencesExt, FiniteSets

CONSTANTS
    Dev,      \* DEV_URLS, a sequence
    Origins,  \* texts that a user types as an origin
    MaxRows,  \* bound: origins of the dialog
    MaxCalls, \* bound: calls under way
    MaxSteps  \* bound: steps of the user

VARIABLES
    dialog,  \* the dialog of this behaviour
    stored,  \* what the back end has
    running, \* the origins of the controller since the core was last started
    seen,    \* of the interface: clash
    open,
    tun,     \* the values of the dialog of TUN
    cors,    \* corsConfig of the other
    patching, \* the patches that patchClash sends, under its lock
    calls,   \* calls of handlers under way
    count,   \* requests of saveConfig
    refetches, \* refetches of clash under way
    dropped, behind, \* history: a patch was dropped; the last restart failed
    steps

forms == <<tun, cors>>
work == <<patching, calls, count, refetches>>
ghosts == <<dropped, behind>>
vars == <<dialog, stored, running, seen, open, forms, work, ghosts, steps>>

UserStep == steps < MaxSteps /\ steps' = steps + 1
OnTun == dialog = "tun" /\ UserStep /\ open
OnCors == dialog = "cors" /\ UserStep /\ open

Close ==
    /\ UserStep /\ open /\ open' = FALSE
    /\ UNCHANGED <<dialog, stored, running, seen, forms, work, ghosts>>

-----------------------------------------------------------------------------
(* TUN.                                                                    *)

Defaults == [stack |-> "gvisor", device |-> "utun1024", autoRoute |-> TRUE, exclude |-> "",
             autoDetect |-> TRUE, hijack |-> "any:53", strict |-> FALSE, mtu |-> 1500]

\* What the form has before it is first opened.
FirstTun == [Defaults EXCEPT !.stack = "mixed"]

OpenTun ==
    /\ dialog = "tun" /\ UserStep /\ ~open /\ open' = TRUE /\ tun' = seen.tun
    /\ UNCHANGED <<dialog, stored, running, seen, cors, work, ghosts>>

ChangeTun(values) ==
    /\ OnTun /\ values # tun /\ tun' = values
    /\ UNCHANGED <<dialog, stored, running, seen, open, cors, work, ghosts>>
ChangeStack == ChangeTun([tun EXCEPT !.stack = "mixed"])
ChangeDevice == \E d \in {"", "utun7"} : ChangeTun([tun EXCEPT !.device = d])
ChangeAutoRoute == ChangeTun([tun EXCEPT !.autoRoute = ~@])
ChangeStrictRoute == ChangeTun([tun EXCEPT !.strict = ~@])
ChangeDetection == ChangeTun([tun EXCEPT !.autoDetect = ~@])
ChangeHijack == \E h \in {"", "all"} : ChangeTun([tun EXCEPT !.hijack = h])
ChangeMtu == \E n \in {0, 9000} : ChangeTun([tun EXCEPT !.mtu = n])
ChangeExclude == tun.autoRoute /\ \E e \in {"", "net", "bad"} : ChangeTun([tun EXCEPT !.exclude = e])

\* Mutant of the next definition: no address is refused.
ExcludeNever == FALSE
ExcludeError == tun.autoRoute /\ tun.exclude = "bad"

Normal(v) ==
    [v EXCEPT !.device = IF @ = "" THEN Defaults.device ELSE @, !.mtu = IF @ = 0 THEN 1500 ELSE @]

\* What follows a patch of TUN: mutateClash without a refetch; a save closes the dialog.
Applied(call) ==
    /\ seen' = [seen EXCEPT !.tun = call.tun]
    /\ open' = (open /\ call.of = "reset")

\* The lock drops a patch during another one; to the caller it is done.
Patch(call, next) ==
    IF patching = {} THEN patching' = {call} /\ calls' = Append(calls, call) /\ UNCHANGED dropped
    ELSE calls' = next /\ dropped' = TRUE /\ UNCHANGED patching

TunCall(of, values) == [of |-> of, at |-> "patch", tun |-> values, cors |-> cors, id |-> 0]
Busy(of) == \E i \in DOMAIN calls : calls[i].of = of

PatchTun(call) ==
    /\ Len(calls) < MaxCalls /\ Patch(call, calls)
    /\ IF patching = {} THEN UNCHANGED <<seen, open>> ELSE Applied(call)

SaveTun ==
    /\ OnTun /\ ~Busy("save") /\ ~ExcludeError /\ PatchTun(TunCall("save", Normal(tun)))
    /\ UNCHANGED <<dialog, stored, running, forms, count, refetches, behind>>

\* The button of the title has no lock of its own, and applies at once.
ResetTun ==
    /\ OnTun /\ tun' = Defaults /\ PatchTun(TunCall("reset", Defaults))
    /\ UNCHANGED <<dialog, stored, running, cors, count, refetches, behind>>

-----------------------------------------------------------------------------
(* The origins.                                                            *)

IsDev(origin) == \E i \in DOMAIN Dev : Dev[i] = origin
FilterBaseOrigins(list) == SelectSeq(list, LAMBDA o : ~IsDev(o))

\* Each once, in the order of its first place.
Unique(list) ==
    FoldLeft(LAMBDA acc, o : IF o \in ToSet(acc) THEN acc ELSE Append(acc, o), <<>>, list)
NotBlank(list) == SelectSeq(list, LAMBDA o : o \notin {"", " "})

\* Mutant of the next definition: those of the development are left out.
OwnOrigins(list) == Unique(list)
FullOrigins(list) == Unique(list \o Dev)

\* What the interface has, without the origins that are always there.
ShownCors == [seen.cors EXCEPT !.origins = FilterBaseOrigins(@)]

OpenCors ==
    /\ dialog = "cors" /\ UserStep /\ ~open /\ open' = TRUE
    /\ cors' = ShownCors
    /\ UNCHANGED <<dialog, stored, running, seen, tun, work, ghosts>>

ChangeCors(c) ==
    /\ OnCors /\ c # cors /\ cors' = c
    /\ UNCHANGED <<dialog, stored, running, seen, open, tun, work, ghosts>>
AllowPrivate == ChangeCors([cors EXCEPT !.private = ~@])
AddOrigin == Len(cors.origins) < MaxRows /\ ChangeCors([cors EXCEPT !.origins = Append(@, "")])
UpdateOrigin ==
    \E i \in DOMAIN cors.origins, o \in Origins : ChangeCors([cors EXCEPT !.origins[i] = o])
DeleteOrigin == \E i \in DOMAIN cors.origins : ChangeCors([cors EXCEPT !.origins = RemoveAt(@, i)])

\* handleSave does not wait for the request that it starts: its lock holds nothing.
SaveCors ==
    LET call == [of |-> "cors", at |-> "patch", tun |-> tun, id |-> count + 1,
                 cors |-> [cors EXCEPT !.origins = NotBlank(FullOrigins(@))]]
    IN /\ OnCors /\ count' = count + 1 /\ Len(calls) < MaxCalls
       /\ Patch(call, Append(calls, [call EXCEPT !.at = "restart"]))
       /\ UNCHANGED <<dialog, stored, running, seen, open, forms, refetches, behind>>

-----------------------------------------------------------------------------
(* The rest of the calls.                                                  *)

\* Mutant of the next definition: what is shown does not wait for the answer.
TunPatchedShown(i) ==
    /\ calls[i].at = "patch" /\ calls[i].of # "cors" /\ patching' = {}
    /\ (stored' = [stored EXCEPT !.tun = calls[i].tun] /\ refetches' = 1) \/ UNCHANGED <<stored, refetches>>
    /\ Applied(calls[i]) /\ calls' = RemoveAt(calls, i)
    /\ UNCHANGED <<dialog, running, forms, count, ghosts, steps>>

\* A patch that succeeds asks for the configuration again.
TunPatched(i) ==
    /\ calls[i].at = "patch" /\ calls[i].of # "cors" /\ patching' = {}
    /\ \/ stored' = [stored EXCEPT !.tun = calls[i].tun] /\ refetches' = 1 /\ Applied(calls[i])
       \/ UNCHANGED <<stored, seen, open, refetches>>
    /\ calls' = RemoveAt(calls, i)
    /\ UNCHANGED <<dialog, running, forms, count, ghosts, steps>>

CorsPatched(i) ==
    /\ calls[i].at = "patch" /\ calls[i].of = "cors" /\ patching' = {}
    /\ \/ /\ stored' = [stored EXCEPT !.cors = calls[i].cors] /\ refetches' = 1
          /\ calls' = [calls EXCEPT ![i].at = "restart"]
       \/ calls' = RemoveAt(calls, i) /\ UNCHANGED <<stored, refetches>>
    /\ UNCHANGED <<dialog, running, seen, open, forms, count, ghosts, steps>>

\* A refetch takes the place of the one under way.
Refetched ==
    /\ refetches > 0 /\ refetches' = 0 /\ (seen' = stored \/ UNCHANGED seen)
    /\ UNCHANGED <<dialog, stored, running, open, forms, patching, calls, count, ghosts, steps>>

\* Mutant of the next definition: the core is not started again.
RestartNever(i) ==
    /\ calls[i].at = "restart" /\ calls' = [calls EXCEPT ![i].at = "fetch"]
    /\ UNCHANGED <<dialog, stored, running, seen, open, forms, patching, count, refetches, ghosts, steps>>
RestartCore(i) ==
    /\ calls[i].at = "restart"
    /\ \/ /\ running' = stored.cors /\ behind' = FALSE
          /\ calls' = [calls EXCEPT ![i].at = "fetch"]
       \/ behind' = TRUE /\ calls' = RemoveAt(calls, i) /\ UNCHANGED running
    /\ UNCHANGED <<dialog, stored, seen, open, forms, patching, count, refetches, dropped, steps>>

\* mutateClash, which does not fail; the dialog is closed by the last request.
CorsDone(i) ==
    /\ calls[i].at = "fetch" /\ (seen' = stored \/ UNCHANGED seen) /\ refetches' = 0
    /\ open' = (open /\ calls[i].id # count) /\ calls' = RemoveAt(calls, i)
    /\ UNCHANGED <<dialog, stored, running, forms, patching, count, ghosts, steps>>

-----------------------------------------------------------------------------

TypeOK ==
    /\ Cardinality(patching) <= 1 /\ Len(calls) <= MaxCalls /\ refetches \in 0..1
    /\ Len(cors.origins) <= MaxRows + Len(Dev)
    /\ \A i \in DOMAIN calls : calls[i].at \in {"patch", "restart", "fetch"}

Init ==
    /\ dialog \in {"tun", "cors"}
    /\ \E exclude \in {"", "bad"} :
        stored = [tun |-> [Defaults EXCEPT !.exclude = exclude, !.autoRoute = (exclude = "")],
                  cors |-> [private |-> TRUE, origins |-> Dev]]
    /\ running = stored.cors /\ seen = stored /\ open = FALSE
    /\ tun = FirstTun /\ cors = ShownCors
    /\ patching = {} /\ calls = <<>> /\ count = 0 /\ refetches = 0
    /\ dropped = FALSE /\ behind = FALSE /\ steps = 0

Next ==
    \/ Close \/ OpenTun \/ SaveTun \/ ResetTun
    \/ ChangeStack \/ ChangeDevice \/ ChangeAutoRoute \/ ChangeStrictRoute \/ ChangeDetection
    \/ ChangeHijack \/ ChangeMtu \/ ChangeExclude
    \/ OpenCors \/ AllowPrivate \/ AddOrigin \/ UpdateOrigin \/ DeleteOrigin \/ SaveCors
    \/ Refetched
    \/ \E i \in DOMAIN calls : TunPatched(i) \/ CorsPatched(i) \/ RestartCore(i) \/ CorsDone(i)

Spec == Init /\ [][Next]_vars

-----------------------------------------------------------------------------

\* Automatic routes are never given addresses that are none, though those that were saved
\* without them, or of a reset under way, may be (tun-viewer.tsx:55).
RoutesValid == stored.tun.autoRoute => stored.tun.exclude # "bad"

\* Unless a patch was dropped, the interface ends up with the settings that are stored
\* (tun-viewer.tsx:107, 156).
TunShown == calls = <<>> /\ refetches = 0 /\ ~dropped => seen.tun = stored.tun

\* When the last restart has ended well, the controller accepts the origins that are
\* stored, whatever was saved meanwhile (external-controller-cors.tsx:125).
OriginsApplied == calls = <<>> /\ ~behind => running = stored.cors

\* The origins that are stored are never without those of the program, none is blank and
\* none is there twice (external-controller-cors.tsx:23).
OriginsWhole ==
    /\ \A i \in DOMAIN Dev : Dev[i] \in ToSet(stored.cors.origins)
    /\ NotBlank(stored.cors.origins) = Unique(stored.cors.origins)
=============================================================================
