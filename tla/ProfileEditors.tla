--------------------------- MODULE ProfileEditors ---------------------------
(***************************************************************************)
(* The editors of a subscription: rules-editor-viewer.tsx,                 *)
(* groups-editor-viewer.tsx and proxies-editor-viewer.tsx of               *)
(* src/src/components/profile.  A file of such an editor holds what is put *)
(* before and after the list of the subscription and what is taken out of  *)
(* it.  The editor shows it as rows or as text, and two effects keep the   *)
(* two alike: a change of the text is parsed into the rows in a transition *)
(* and a change of the rows is written into the text when the browser is   *)
(* idle.                                                                   *)
(*                                                                         *)
(* React commits the updates of an event and runs the effects of that      *)
(* commit before the next event.  Updates made outside of events wait in   *)
(* `queued' for a task of their own or for the next event, those of a      *)
(* transition in `deferred' until nothing else is queued; an update that   *)
(* was made later wins.                                                    *)
(***************************************************************************)
EXTENDS Naturals, Sequences, FiniteSets, SequencesExt

CONSTANTS
    Original,   \* list of the subscription
    New,        \* what the user may add
    Files,      \* documents that the file may hold at first
    MaxEdits    \* bound: steps of the user

Editors == {"rules", "groups", "proxies"}
Parts == {"prepend", "append", "delete"}
Nothing == [p \in Parts |-> <<>>]
Unset == [p \in Parts |-> {}]       \* no update of any part

VARIABLES
    kind,       \* which of the editors it is
    file,       \* document on disk
    open, vis,  \* the editor is mounted; visualization
    list,       \* ruleList, groupList, proxyList: <<>> until it is read
    seq,        \* prependSeq, appendSeq and deleteSeq
    text,       \* currData: a document, or "blank"
    queued,     \* [seq : updates of parts, text : set of at most one text]
    deferred,   \* updates of parts in a transition
    idle,       \* serialize, with the parts it was scheduled with
    reading,    \* fetchContent has not answered
    saving,     \* data handed to saveProfileFile
    edits

vars == <<kind, file, open, vis, list, seq, text, queued, deferred, idle,
          reading, saving, edits>>

\* "blank" is the empty string.  A text is canonical when yaml.dump made it.
Text(doc, by) == [doc |-> doc, by |-> by]
Blank == Text(Nothing, "blank")
Dump(s) == Text(s, "dump")

\* normalizeDeleteSeq: the editor of the groups takes a name once.
NormalizeDeleteSeq(s) ==
    SelectSeq([i \in DOMAIN s |-> <<i, s[i]>>],
              LAMBDA e : \A j \in 1 .. e[1] - 1 : s[j] # e[2])

\* What the parts become when a document is read.
Parsed(doc) ==
    IF kind # "groups" THEN doc
    ELSE [doc EXCEPT !["delete"] =
             LET kept == NormalizeDeleteSeq(@) IN [i \in DOMAIN kept |-> kept[i][2]]]

\* The values of the parts after updates u.
Updated(s, u) == [p \in Parts |-> IF u[p] = {} THEN s[p] ELSE CHOOSE v \in u[p] : TRUE]
AllOf(s) == [p \in Parts |-> {s[p]}]

-----------------------------------------------------------------------------
(* A commit with rows s, text x and mode v, and the two effects after it.  *)

\* Mutant of the next definition: the text is parsed after every commit.
ParseAlways(x, v, d) ==
    IF v /\ x # Blank THEN deferred' = AllOf(Parsed(x.doc)) ELSE deferred' = d

\* yaml.load of the text, when the rows are shown.
ParseText(x, v, d) ==
    IF (x # text \/ v # vis) /\ v /\ x # Blank
    THEN deferred' = AllOf(Parsed(x.doc))
    ELSE deferred' = d

\* Mutant of the next definition: deleteSeq is not a dependency.
ScheduleWithoutDelete(s, new) ==
    IF [s EXCEPT !["delete"] = <<>>] # [seq EXCEPT !["delete"] = <<>>]
    THEN idle' = {s} ELSE UNCHANGED idle

\* requestIdleCallback(serialize); the callback of before is cancelled.
Schedule(s, new) == IF new THEN idle' = {s} ELSE UNCHANGED idle

\* new: an array was made anew, whether or not it says the same.
Commit(s, x, v, d, new) ==
    /\ seq' = s /\ text' = x /\ vis' = v
    /\ queued' = [seq |-> Unset, text |-> {}]
    /\ ParseText(x, v, d)
    /\ Schedule(s, new)

QueuedText == IF queued.text = {} THEN text ELSE CHOOSE x \in queued.text : TRUE
QueuedSeq == Updated(seq, queued.seq)
HasSeq == queued.seq # Unset
HasQueued == HasSeq \/ queued.text # {}

-----------------------------------------------------------------------------
(* Opening the editor and reading the files.                               *)

TypeOK ==
    /\ kind \in Editors /\ open \in BOOLEAN /\ vis \in BOOLEAN
    /\ DOMAIN seq = Parts /\ DOMAIN file = Parts /\ list \in {<<>>, Original}
    /\ Cardinality(idle) <= 1 /\ Cardinality(saving) <= 1
    /\ reading \in BOOLEAN /\ edits \in 0 .. MaxEdits

Init ==
    /\ kind \in Editors /\ file \in Files
    /\ open = FALSE /\ vis = TRUE /\ list = <<>>
    /\ seq = Nothing /\ text = Blank /\ deferred = Unset
    /\ queued = [seq |-> Unset, text |-> {}]
    /\ idle = {} /\ reading = FALSE /\ saving = {} /\ edits = 0

User == edits < MaxEdits /\ edits' = edits + 1

\* The editor is mounted when it is opened: everything begins anew, and the
\* empty parts are the first to be written into the text.
Open ==
    /\ ~open /\ User
    /\ open' = TRUE /\ vis' = TRUE /\ list' = <<>>
    /\ seq' = Nothing /\ text' = Blank /\ deferred' = Unset
    /\ queued' = [seq |-> Unset, text |-> {}]
    /\ idle' = {Nothing} /\ reading' = TRUE
    /\ UNCHANGED <<kind, file, saving>>

Unmounted ==
    /\ open' = FALSE /\ idle' = {} /\ reading' = FALSE
    /\ queued' = [seq |-> Unset, text |-> {}] /\ deferred' = Unset
    /\ UNCHANGED <<vis, list, seq, text>>

Cancel == open /\ User /\ Unmounted /\ UNCHANGED <<kind, file, saving>>

\* fetchContent of the editor of the rules, of the groups and of the proxies.
Fetched(k) ==
    /\ open /\ reading /\ kind = k
    /\ reading' = FALSE
    /\ queued' = [seq |-> AllOf(Parsed(file)),
                  text |-> {IF file = Nothing THEN Blank ELSE Text(file, "file")}]
    /\ UNCHANGED <<kind, file, open, vis, list, seq, text, deferred, idle, saving, edits>>

FetchRules == Fetched("rules")
FetchGroups == Fetched("groups")
FetchProxies == Fetched("proxies")

\* fetchProfile: the list of the subscription, and the names that the form offers.
Listed(k) ==
    /\ open /\ list = <<>> /\ kind = k
    /\ list' = Original
    /\ UNCHANGED <<kind, file, open, vis, seq, text, queued, deferred, idle,
                   reading, saving, edits>>

ListRules == Listed("rules")
ListGroups == Listed("groups")
ListProxies == Listed("proxies")

-----------------------------------------------------------------------------
(* The tasks of React and of the browser.                                  *)

CommitQueued ==
    /\ open /\ HasQueued
    /\ Commit(QueuedSeq, QueuedText, vis,
              [p \in Parts |-> IF queued.seq[p] = {} THEN deferred[p] ELSE {}], HasSeq)
    /\ UNCHANGED <<kind, file, open, list, reading, saving, edits>>

CommitDeferred ==
    /\ open /\ ~HasQueued /\ deferred # Unset
    /\ Commit(Updated(seq, deferred), text, vis, Unset, TRUE)
    /\ UNCHANGED <<kind, file, open, list, reading, saving, edits>>

\* The callback of the idle time, in each of the editors.
Serialize(k) ==
    /\ open /\ kind = k
    /\ \E s \in idle : queued' = [queued EXCEPT !.text = {Dump(s)}]
    /\ idle' = {}
    /\ UNCHANGED <<kind, file, open, vis, list, seq, text, deferred, reading, saving, edits>>

SerializeRules == Serialize("rules")
SerializeGroups == Serialize("groups")
SerializeProxies == Serialize("proxies")

-----------------------------------------------------------------------------
(* The rows.                                                               *)

\* An event of the user that sets part p to v, as the rows on the page have it.
\* What is deferred for that part was asked for before.
Edit(p, v) ==
    /\ open /\ vis /\ User /\ v # seq[p]
    /\ Commit([QueuedSeq EXCEPT ![p] = v], QueuedText, vis,
              [q \in Parts |-> IF q = p \/ queued.seq[q] # {} THEN {} ELSE deferred[q]], TRUE)
    /\ UNCHANGED <<kind, file, open, list, reading, saving>>

\* A button of the form: prepend or append.
Added(p, new) == IF p = "prepend" THEN new \o seq[p] ELSE seq[p] \o new

AddRule(p, n) ==
    /\ kind = "rules" /\ ~Contains(seq[p], n)
    /\ Edit(p, Added(p, <<n>>))

AddGroup(p, n) ==
    /\ kind = "groups" /\ ~Contains(seq[p] \o list, n)
    /\ Edit(p, Added(p, <<n>>))

\* What the lines parse to is added to the latest rows, whatever they are then;
\* a name is taken once from the lines, but the rows may hold it already.
AddProxies(p, n) ==
    LET with(s) == IF p = "prepend" THEN <<n>> \o s ELSE s \o <<n>>
    IN  /\ kind = "proxies" /\ open /\ vis /\ User
        /\ Commit([QueuedSeq EXCEPT ![p] = with(@)], QueuedText, vis,
                  [q \in Parts |-> IF q = p THEN {with(v) : v \in deferred[q]}
                                   ELSE IF queued.seq[q] # {} THEN {} ELSE deferred[q]], TRUE)
        /\ UNCHANGED <<kind, file, open, list, reading, saving>>

\* The button of a row: what was added goes, what the subscription has is struck
\* out or comes back.
RemoveRow(k, p, n) ==
    /\ kind = k /\ p # "delete" /\ Edit(p, SelectSeq(seq[p], LAMBDA x : x # n))

StrikeRow(k, n) ==
    /\ kind = k /\ Contains(list, n)
    /\ Edit("delete", IF Contains(seq["delete"], n)
                      THEN SelectSeq(seq["delete"], LAMBDA x : x # n)
                      ELSE Append(seq["delete"], n))

RuleRow(p, n) == RemoveRow("rules", p, n) \/ StrikeRow("rules", n)
GroupRow(p, n) == RemoveRow("groups", p, n) \/ StrikeRow("groups", n)
ProxyRow(p, n) == RemoveRow("proxies", p, n) \/ StrikeRow("proxies", n)

\* reorder: the row at i goes to j.
Reorder(s, i, j) == InsertAt(RemoveAt(s, i), j, s[i])

DragRow(k, p, i, j) ==
    /\ kind = k /\ p # "delete" /\ {i, j} \subseteq DOMAIN seq[p] /\ i # j
    /\ Edit(p, Reorder(seq[p], i, j))

DragRule(p, i, j) == DragRow("rules", p, i, j)
DragGroup(p, i, j) == DragRow("groups", p, i, j)
DragProxy(p, i, j) == DragRow("proxies", p, i, j)

-----------------------------------------------------------------------------
(* A rule as text: its fields, with a comma between them.                  *)

\* The table of the rules, by what the form and validateRule tell apart.
RuleTypes ==
    {[name |-> "DOMAIN", required |-> TRUE, checked |-> FALSE, noResolve |-> FALSE],
     [name |-> "GEOIP", required |-> TRUE, checked |-> FALSE, noResolve |-> TRUE],
     [name |-> "NETWORK", required |-> TRUE, checked |-> TRUE, noResolve |-> FALSE],
     [name |-> "IP-CIDR", required |-> TRUE, checked |-> TRUE, noResolve |-> TRUE],
     [name |-> "MATCH", required |-> FALSE, checked |-> FALSE, noResolve |-> FALSE]}

\* A condition may have commas of its own: ((NETWORK,UDP),(DOMAIN,x)).
Conditions == {<<>>, <<"valid">>, <<"other">>, <<"((NETWORK", "UDP)", "(DOMAIN", "x))">>}
Policies == {"DIRECT", "PASS", "a group"}

\* validateRule: the texts that the form gives, none when it refuses.
RuleText(type, content, policy, noResolve) ==
    IF (type.required /\ content = <<>>) \/ (type.checked /\ content # <<"valid">>) THEN {}
    ELSE {<<type.name>> \o (IF type.required THEN content ELSE <<>>) \o <<policy>>
             \o (IF type.noResolve /\ noResolve THEN <<"no-resolve">> ELSE <<>>)}

\* What a row shows of a rule: its first field, its last, and all between them.
RuleItem(raw) ==
    LET rule == SelectSeq(raw, LAMBDA f : f # "no-resolve")
    IN  [type |-> Head(rule), policy |-> Last(rule), content |-> SubSeq(rule, 2, Len(rule) - 1)]

-----------------------------------------------------------------------------
(* The text, and saving.                                                   *)

Toggle ==
    /\ open /\ User
    /\ Commit(QueuedSeq, QueuedText, ~vis,
              [p \in Parts |-> IF queued.seq[p] = {} THEN deferred[p] ELSE {}], HasSeq)
    /\ UNCHANGED <<kind, file, open, list, reading, saving>>

Type(doc) ==
    /\ open /\ ~vis /\ User
    /\ Commit(QueuedSeq, Text(doc, "user"), vis,
              [p \in Parts |-> IF queued.seq[p] = {} THEN deferred[p] ELSE {}], HasSeq)
    /\ UNCHANGED <<kind, file, open, list, reading, saving>>

\* handleSave hands over the text as it was rendered.
SaveText(k) ==
    /\ open /\ kind = k /\ saving = {} /\ User
    /\ saving' = {text.doc}
    /\ UNCHANGED <<kind, file, open, vis, list, seq, text, queued, deferred, idle, reading>>

\* Mutant of the next definition: as the other two editors do it.
SaveGroupsText == SaveText("groups")

\* The editor of the groups makes the text of the rows first.
SaveGroups ==
    IF ~vis THEN SaveText("groups")
    ELSE /\ open /\ kind = "groups" /\ saving = {} /\ User
         /\ saving' = {seq}
         /\ Commit(QueuedSeq, Dump(seq), vis,
                   [p \in Parts |-> IF queued.seq[p] = {} THEN deferred[p] ELSE {}], HasSeq)
         /\ UNCHANGED <<kind, file, open, list, reading>>

SaveRules == SaveText("rules")
SaveProxies == SaveText("proxies")

\* The file is written, or refused and put back; an error leaves the editor open.
Saved ==
    /\ saving # {} /\ saving' = {}
    /\ \/ file' \in saving /\ Unmounted
       \/ UNCHANGED file /\ Unmounted
       \/ UNCHANGED <<file, open, vis, list, seq, text, queued, deferred, idle, reading>>
    /\ UNCHANGED <<kind, edits>>

-----------------------------------------------------------------------------

Rows == New \cup ToSet(Original)

Next ==
    \/ Open \/ Cancel \/ Toggle \/ Saved
    \/ FetchRules \/ FetchGroups \/ FetchProxies
    \/ ListRules \/ ListGroups \/ ListProxies
    \/ CommitQueued \/ CommitDeferred
    \/ SerializeRules \/ SerializeGroups \/ SerializeProxies
    \/ \E p \in {"prepend", "append"}, n \in New :
          AddRule(p, n) \/ AddGroup(p, n) \/ AddProxies(p, n)
    \/ \E p \in {"prepend", "append"}, n \in Rows :
          RuleRow(p, n) \/ GroupRow(p, n) \/ ProxyRow(p, n)
    \/ \E p \in {"prepend", "append"}, i, j \in 1 .. 2 :
          DragRule(p, i, j) \/ DragGroup(p, i, j) \/ DragProxy(p, i, j)
    \/ \E doc \in Files : Type(doc)
    \/ SaveRules \/ SaveGroups \/ SaveProxies

Spec == Init /\ [][Next]_vars

-----------------------------------------------------------------------------
(* Properties.                                                             *)

Quiet == ~HasQueued /\ deferred = Unset /\ idle = {}

\* The rows say what the text says: all of them when nothing is left to run,
\* whatever the order in which edits, parsing and serializing met
\* (rules-editor-viewer.tsx:415), and each row of a rule the fields that the form
\* was filled in with (rule-item.tsx:21).
RowsAgree ==
    /\ (open /\ vis /\ Quiet) => seq = Parsed(text.doc)
    /\ kind = "rules" =>
         \A t \in RuleTypes, c \in Conditions, p \in Policies, n \in BOOLEAN :
            \A raw \in RuleText(t, c, p, n) :
                RuleItem(raw) = [type |-> t.name, policy |-> p,
                                 content |-> IF t.required THEN c ELSE <<>>]

\* What is saved from the rows is what they show; the editor of the groups does
\* not even wait for the text to follow (groups-editor-viewer.tsx:506).
SavesRows ==
    (saving = {} /\ saving' # {} /\ vis /\ (Quiet \/ kind = "groups"))
        => \A doc \in saving' : Parsed(doc) = seq
=============================================================================
