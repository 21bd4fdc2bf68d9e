---------------------------- MODULE LocaleCleanup ----------------------------
(***************************************************************************)
(* scripts/cleanup-unused-i18n.mjs: it looks for the keys of texts that    *)
(* the sources use and takes the others out of the locale files.           *)
(*                                                                         *)
(* A key is a namespace and a leaf.  A locale of the front end is a file   *)
(* for each namespace and an index that imports them; one of the back end  *)
(* is one file.  A source is a set of expressions.  A run may fail, or be  *)
(* killed, at each access to a file; then it may be run again.             *)
(***************************************************************************)
EXTENDS Naturals, Sequences, FiniteSets

CONSTANTS
    Namespaces, Leaves,
    Baseline,     \* the locale that the others are compared with
    Others,       \* other locales
    Contents,     \* sets of keys that a locale may have at first
    SourceTrees,  \* sets of expressions that the sources may be
    Whitelist,    \* WHITELIST_KEYS
    MaxRuns       \* bound: runs of the script

Keys == Namespaces \X Leaves
Langs == {Baseline} \cup Others
Absent == [state |-> "absent", keys |-> {}]
Torn == [state |-> "torn", keys |-> {}]
Intact(keys) == [state |-> "intact", keys |-> keys]
Whole == "translation"   \* the one file of a locale of the back end

VARIABLES
    format,   \* "multi-file", or "yaml-file" and likewise "single-file"
    sources,
    disk,     \* of each locale, the content of each file
    backup,   \* .bak files
    index,    \* namespaces that the index of each locale imports
    options,  \* of the run
    pc,       \* "idle", "process", "write"
    ok,       \* whether the last run ended well
    todo,     \* locales to be processed
    data,     \* of each locale, as loaded when the run started
    writing,  \* the locale being written: its new keys, files to do, and backups
    before,   \* history: disk at the start of the run
    runs

files == <<disk, backup, index>>
vars == <<format, sources, files, options, pc, ok, todo, data, writing, before, runs>>

Files == IF format = "yaml-file" THEN {Whole} ELSE Namespaces
Present(d, l) == {f \in Files : d[l][f] # Absent}

\* loadFrontendLocales, loadBackendLocales: a file that cannot be parsed is empty.
Load(l) == UNION {disk[l][f].keys : f \in Files}

\* flattenLocale
Spaces(keys) == {k[1] : k \in keys}

-----------------------------------------------------------------------------
(* Which keys are used.                                                    *)

\* An expression is of a form: "call", t('n.l'); "notice", showNotice.error('n.l');
\* "other", f('n.l'); "binding", t(v) of a variable bound to such a text; "condition",
\* t(c ? 'n.l' : ..); "attribute", i18nKey='n.l'; "template", t(`n.${x}`);
\* "concatenation", t('n.' + x); "rust", t!("n.l"); "text", 'n.l' in another file.
Dynamic == {"template", "concatenation"}

\* What it asks for when it runs.
Asks(e) == IF e.form \in Dynamic THEN {k \in Keys : k[1] = e.space} ELSE {<<e.space, e.leaf>>}

\* collectImportSpecifiers, getCallExpressionChain, classifyCallExpression: is it one
\* of the functions that translate?  Then the namespace needs not be known.
Classified(e) == e.form \in {"call", "notice", "binding", "condition"} \cup Dynamic

\* resolveKeyFromExpression, resolveBindingValue: conditions are not resolved.
Resolved(e) == IF e.form \in {"condition"} \cup Dynamic THEN {} ELSE {<<e.space, e.leaf>>}

\* addKeyIfValid
Valid(keys, spaces, force) == {k \in keys : force \/ k[1] \in spaces}

\* collectUsedKeysFromTsFile
UsedInScript(e, spaces) ==
    IF Classified(e) THEN Valid(Resolved(e), spaces, TRUE)
    ELSE IF e.form = "attribute" THEN Valid(Resolved(e), spaces, FALSE) ELSE {}

\* collectUsedKeysFromRustFile, collectUsedKeysFromTextFile
UsedElsewhere(e, spaces) ==
    IF e.form \in {"rust", "text"} THEN Valid(Resolved(e), spaces, e.form = "rust") ELSE {}

\* addTemplatePrefixCandidate
Prefix(e, spaces) == IF e.form \in Dynamic /\ e.space \in spaces THEN {e.space} ELSE {}

\* findKeyInSources: the key is quoted somewhere.
Quoted(k) == \E e \in sources : e.form \notin Dynamic /\ <<e.space, e.leaf>> = k

\* collectUsedI18nKeys
Usage(spaces) ==
    [keys |-> UNION {UsedInScript(e, spaces) \cup UsedElsewhere(e, spaces) : e \in sources},
     prefixes |-> UNION {Prefix(e, spaces) : e \in sources}]

\* Mutant of the next definition: keys that are put together are not looked at.
IsKeyNamed(k, usage) == k \in Whitelist \/ k \in usage.keys \/ Quoted(k)

IsKeyUsed(k, usage) == k \in Whitelist \/ k \in usage.keys \/ k[1] \in usage.prefixes \/ Quoted(k)

\* diffLocaleKeys, and the keys that the sources use and no locale has.
Report(l) ==
    LET usage == Usage(Spaces(data[Baseline]))
    IN  [unused |-> {k \in data[l] : ~IsKeyUsed(k, usage)},
         missing |-> data[Baseline] \ data[l], extra |-> data[l] \ data[Baseline],
         inSource |-> IF l = Baseline THEN usage.keys \ data[Baseline] ELSE {}]

\* alignToBaseline
Aligned(keys) == data[Baseline] \cup IF options.keepExtra THEN keys ELSE keys \cap data[Baseline]

\* processLocale: the locale without the keys that it has and nobody uses
\* (removeKey, cleanupEmptyBranches).
Updated(l) == (IF options.align THEN Aligned(data[l]) ELSE data[l]) \ Report(l).unused

-----------------------------------------------------------------------------
(* The run.                                                                *)

\* parseArgs
Options == [apply : BOOLEAN, align : BOOLEAN, keepExtra : BOOLEAN, backup : BOOLEAN]

NotWriting == [lang |-> Baseline, keys |-> {}, files |-> {}, saved |-> {}]

\* main, parseArgs: the locales are loaded, the baseline is the first.
Start(o) ==
    /\ pc = "idle" /\ runs < MaxRuns /\ runs' = runs + 1
    /\ options' = o /\ pc' = "process" /\ ok' = FALSE
    /\ data' = [l \in Langs |-> Load(l)]
    /\ todo' = Langs /\ before' = disk
    /\ UNCHANGED <<format, sources, files, writing>>

Next1 == IF Baseline \in todo THEN {Baseline} ELSE todo

\* What a locale of those keys is, file by file.
Content(f, keys) ==
    IF f = Whole THEN Intact(keys)
    ELSE IF f \in Spaces(keys) THEN Intact({k \in keys : k[1] = f}) ELSE Absent

\* processLocale: without --apply it only reports.
ProcessLocale ==
    /\ pc = "process" /\ \E l \in Next1 :
        /\ todo' = todo \ {l}
        /\ IF options.apply
           THEN /\ pc' = "write"
                /\ writing' = [lang |-> l, keys |-> Updated(l), saved |-> {},
                               files |-> {f \in Files : disk[l][f] # Absent \/ Content(f, Updated(l)) # Absent}]
           ELSE UNCHANGED <<pc, writing>>
    /\ UNCHANGED <<format, sources, files, options, ok, data, before, runs>>

\* backupIfNeeded, ensureBackup
NeedsBackup(f) == options.backup /\ f \notin writing.saved /\ disk[writing.lang][f] # Absent

Backup(f) ==
    /\ pc = "write" /\ f \in writing.files /\ NeedsBackup(f)
    /\ backup' = [backup EXCEPT ![writing.lang][f] = disk[writing.lang][f]]
    /\ writing' = [writing EXCEPT !.saved = @ \cup {f}]
    /\ UNCHANGED <<format, sources, disk, index, options, pc, ok, todo, data, before, runs>>

\* Mutant of the next definition: the backup comes too late.
WriteFirst(f) ==
    /\ pc = "write" /\ f \in writing.files
    /\ disk' = [disk EXCEPT ![writing.lang][f] = Content(f, writing.keys)]
    /\ writing' = [writing EXCEPT !.files = @ \ {f}]
    /\ UNCHANGED <<format, sources, backup, index, options, pc, ok, todo, data, before, runs>>

\* writeLocale: a file is written, or removed when its namespace is gone.
Write(f) ==
    /\ pc = "write" /\ f \in writing.files /\ ~NeedsBackup(f)
    /\ disk' = [disk EXCEPT ![writing.lang][f] = Content(f, writing.keys)]
    /\ writing' = [writing EXCEPT !.files = @ \ {f}]
    /\ UNCHANGED <<format, sources, backup, index, options, pc, ok, todo, data, before, runs>>

\* regenerateLocaleIndex, then cleanupBackups.
FinishLocale ==
    /\ pc = "write" /\ writing.files = {} /\ pc' = "process"
    /\ index' = IF format = "yaml-file" THEN index
                ELSE [index EXCEPT ![writing.lang] = Spaces(writing.keys)]
    /\ backup' = [backup EXCEPT ![writing.lang] =
                     [f \in DOMAIN @ |-> IF f \in writing.saved THEN Absent ELSE @[f]]]
    /\ writing' = NotWriting
    /\ UNCHANGED <<format, sources, disk, options, ok, todo, data, before, runs>>

Finish ==
    /\ pc = "process" /\ todo = {} /\ pc' = "idle" /\ ok' = TRUE
    /\ UNCHANGED <<format, sources, files, options, todo, data, writing, before, runs>>

\* The script fails or is killed, maybe in the middle of a file.
Fail(torn) ==
    /\ pc = "write" /\ pc' = "idle" /\ torn \subseteq {f \in writing.files : ~NeedsBackup(f)}
    /\ Cardinality(torn) <= 1
    /\ disk' = [disk EXCEPT ![writing.lang] = [f \in DOMAIN @ |-> IF f \in torn THEN Torn ELSE @[f]]]
    /\ UNCHANGED <<format, sources, backup, index, options, ok, todo, data, writing, before, runs>>

-----------------------------------------------------------------------------

TypeOK ==
    /\ \A l \in Langs, f \in Files : disk[l][f].keys \subseteq Keys
    /\ DOMAIN backup = Langs /\ index \in [Langs -> SUBSET Namespaces]
    /\ pc \in {"idle", "process", "write"} /\ todo \subseteq Langs

NoOptions == [apply |-> FALSE, align |-> FALSE, keepExtra |-> FALSE, backup |-> FALSE]

Init ==
    /\ format \in {"multi-file", "yaml-file"} /\ sources \in SourceTrees
    /\ \E start \in [Langs -> Contents] :
        /\ disk = [l \in Langs |-> [f \in Files |-> Content(f, start[l])]]
        /\ index = [l \in Langs |-> IF format = "yaml-file" THEN {} ELSE Spaces(start[l])]
    /\ backup = [l \in Langs |-> [f \in Files |-> Absent]]
    /\ options = NoOptions /\ pc = "idle" /\ ok = FALSE /\ todo = {}
    /\ data = [l \in Langs |-> {}] /\ writing = NotWriting /\ before = disk /\ runs = 0

Next ==
    \/ \E o \in Options : Start(o)
    \/ ProcessLocale \/ FinishLocale \/ Finish
    \/ \E f \in Files : Backup(f) \/ Write(f) \/ Fail({f})
    \/ Fail({})

Spec == Init /\ [][Next]_vars

-----------------------------------------------------------------------------

Done == pc = "idle" /\ ok

\* The keys of the baseline when the run started.
Known == UNION {before[Baseline][f].keys : f \in Files}

\* A run that ended well has taken no key away that the sources ask for, unless the
\* baseline lacks it: its whole namespace, or the key when locales are aligned
\* (cleanup-unused-i18n.mjs:917).
UsedKept ==
    Done => \A l \in Langs, f \in Files :
        \A k \in before[l][f].keys :
            /\ k[1] \in Spaces(Known) /\ \E e \in sources : k \in Asks(e)
            /\ options.align /\ ~options.keepExtra => k \in Known
            => k \in disk[l][f].keys

\* What a file was when the run began is in the file or in its backup, wherever the run
\* is and when it has failed (cleanup-unused-i18n.mjs:1065).  It is no promise about an
\* earlier run: one that follows a failure makes the torn file its backup (:1050).
OldKept ==
    options.backup /\ options.apply /\ pc # "process" /\ ~Done =>
        \A f \in Files : before[writing.lang][f] \in {Absent, disk[writing.lang][f], backup[writing.lang][f]}

\* The index imports the files that there are, after a run that ended well
\* (cleanup-unused-i18n.mjs:1139).
IndexMatches ==
    Done /\ options.apply /\ format = "multi-file" => \A l \in Langs : index[l] = Present(disk, l)
=============================================================================
