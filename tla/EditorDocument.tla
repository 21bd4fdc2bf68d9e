--------------------------- MODULE EditorDocument ---------------------------
(***************************************************************************)
(* A file of a subscription in the text editor: useEditorDocument          *)
(* (src/src/hooks/use-editor-document.ts), the editor around it            *)
(* (editor-viewer.tsx) and those who save it: the item of a subscription   *)
(* its configuration, merge and script, and the global merge and script    *)
(* of profile-more.tsx.                                                    *)
(*                                                                         *)
(* Reading and saving are calls to the back end, which go on when the      *)
(* editor is closed and opened again.                                      *)
(***************************************************************************)
EXTENDS Naturals, FiniteSets

CONSTANTS
    Texts,
    Valid,      \* texts that the back end accepts
    MaxSteps    \* bound: what the user does

Files == {"profile", "merge", "script", "global"}
Empty == "empty"

VARIABLES
    kind,           \* which of the files it is
    file,           \* its content
    open,           \* fileOpen, mergeOpen, scriptOpen
    editor,         \* the text in Monaco, once it has been mounted
    value, saved, loading,  \* state of the hook
    run,            \* number of the effect that reads, to tell the aborted ones
    loads,          \* reads of the effects on their way
    saving,         \* handleSave: what it saves, how far it is, whether the editor
                    \* has been opened since, and (history) whether the editor
                    \* there is was opened while one was on its way
    steps

docVars == <<value, saved, loading, run, loads>>
vars == <<kind, file, open, editor, docVars, saving, steps>>

NotSaving == [at |-> "no", text |-> Empty, old |-> Empty, reopened |-> FALSE,
              crossed |-> FALSE]

TypeOK ==
    /\ kind \in Files /\ file \in Texts /\ open \in BOOLEAN
    /\ {value, saved, editor} \subseteq Texts \cup {Empty} /\ loading \in BOOLEAN
    /\ \A l \in loads : l.run <= run
    /\ saving.at \in {"no", "sent", "written", "reload"}

\* All are mounted with the item, closed.
Init ==
    /\ kind \in Files /\ file \in Valid /\ open = FALSE /\ editor = Empty
    /\ value = Empty /\ saved = Empty /\ loading = TRUE
    /\ run = 0 /\ loads = {} /\ saving = NotSaving /\ steps = 0

User == steps < MaxSteps /\ steps' = steps + 1
Dirty == value # saved

\* disableSave.
DisableSave == loading \/ ~Dirty

-----------------------------------------------------------------------------
(* The hook.                                                               *)

\* The effect of `open': the state is reset and, when open, the file is read.
\* What the effect before has asked for is aborted.
Reset(o) ==
    /\ open' = o
    /\ value' = Empty /\ saved' = Empty /\ loading' = TRUE
    /\ editor' = Empty /\ run' = run + 1

\* The back end reads the file when it gets to it.
ReadFile(l) ==
    /\ l \in loads /\ l.text = Empty
    /\ loads' = (loads \ {l}) \cup {[l EXCEPT !.text = file]}
    /\ UNCHANGED <<kind, file, open, editor, value, saved, loading, run, saving, steps>>

\* A read has answered.  Monaco is mounted with what there is when loading ends.
Loaded(l, ok) ==
    /\ l \in loads /\ l.text # Empty /\ loads' = loads \ {l}
    /\ IF l.run # run THEN UNCHANGED <<value, saved, loading, editor>>
       ELSE /\ loading' = FALSE
            /\ IF ok THEN value' = l.text /\ saved' = l.text ELSE UNCHANGED <<value, saved>>
            /\ editor' = value'
    /\ UNCHANGED <<kind, file, open, run, saving, steps>>

-----------------------------------------------------------------------------
(* The editor.                                                             *)

Opened(k) ==
    /\ ~open /\ kind = k /\ User /\ Reset(TRUE)
    /\ loads' = loads \cup {[run |-> run', text |-> Empty]}
    /\ saving' = [saving EXCEPT !.reopened = saving.at # "no", !.crossed = saving.at # "no"]
    /\ UNCHANGED <<kind, file>>

OpenFile == Opened("profile")
OpenMerge == Opened("merge")
OpenScript == Opened("script")
OpenGlobal == Opened("global")

Close == open /\ User /\ Reset(FALSE) /\ UNCHANGED <<kind, file, loads, saving>>

\* The text in Monaco changes, and the editor tells the hook.
Edited(x) ==
    /\ open /\ ~loading /\ User /\ x # value
    /\ editor' = x /\ value' = x
    /\ UNCHANGED <<kind, file, open, saved, loading, run, loads, saving>>

Type(x) == Edited(x)
Paste(x) == x # Empty /\ Edited(x)
Format(x) == value \in Valid /\ x \in Valid /\ Edited(x)

\* handleSave: the text as it was rendered.  Both the editor and its owner lock it:
\* the button of the editor that saves does nothing, but one that was opened
\* again meets the lock of the owner only, and is closed with nothing saved.
SaveIgnored ==
    /\ open /\ ~DisableSave /\ saving.at # "no" /\ saving.reopened /\ User
    /\ Reset(FALSE) /\ UNCHANGED <<kind, file, loads, saving>>

Save ==
    /\ open /\ ~DisableSave /\ saving.at = "no" /\ User
    /\ saving' = [at |-> "sent", text |-> value, old |-> file, reopened |-> FALSE,
                   crossed |-> saving.crossed]
    /\ UNCHANGED <<kind, file, open, editor, docVars>>

Ended == [NotSaving EXCEPT !.crossed = saving.crossed]

\* save_profile_file writes before it validates.
Written ==
    /\ saving.at = "sent"
    /\ file' = saving.text /\ saving' = [saving EXCEPT !.at = "written"]
    /\ UNCHANGED <<kind, open, editor, docVars, steps>>

\* The file is accepted: the text counts as saved, and the editor is closed.
Accepted(k) ==
    /\ kind = k /\ saving.at = "written" /\ saving.text \in Valid
    /\ Reset(FALSE) /\ saving' = Ended
    /\ UNCHANGED <<kind, file, loads, steps>>

\* It is refused and put back: the file is read again.
Refused(k) ==
    /\ kind = k /\ saving.at = "written" /\ saving.text \notin Valid
    /\ file' = saving.old
    /\ loading' = TRUE /\ saving' = [saving EXCEPT !.at = "reload"]
    /\ UNCHANGED <<kind, open, editor, value, saved, run, loads, steps>>

\* reload has answered and handleSave goes on to close the editor; when reading
\* fails handleSave fails and the editor stays.
Reloaded(ok) ==
    /\ saving.at = "reload" /\ saving' = Ended
    /\ IF ok THEN Reset(FALSE)
       ELSE loading' = FALSE /\ UNCHANGED <<open, editor, value, saved, run>>
    /\ UNCHANGED <<kind, file, loads, steps>>

\* An error, before the file is written or after, when it is put back.
SaveFailed(k) ==
    /\ kind = k /\ saving.at \in {"sent", "written"}
    /\ file' = saving.old
    /\ saving' = Ended
    /\ UNCHANGED <<kind, open, editor, docVars, steps>>

SaveProfile == Accepted("profile") \/ Refused("profile") \/ SaveFailed("profile")
SaveMerge == Accepted("merge") \/ Refused("merge") \/ SaveFailed("merge")
SaveScript == Accepted("script") \/ Refused("script") \/ SaveFailed("script")
SaveGlobal == Accepted("global") \/ Refused("global") \/ SaveFailed("global")

-----------------------------------------------------------------------------

Next ==
    \/ \E l \in loads : ReadFile(l) \/ \E ok \in BOOLEAN : Loaded(l, ok)
    \/ OpenFile \/ OpenMerge \/ OpenScript \/ OpenGlobal \/ Close
    \/ \E x \in Texts : Type(x) \/ Paste(x) \/ Format(x)
    \/ Save \/ SaveIgnored \/ Written \/ SaveProfile \/ SaveMerge \/ SaveScript \/ SaveGlobal
    \/ \E ok \in BOOLEAN : Reloaded(ok)

Spec == Init /\ [][Next]_vars

-----------------------------------------------------------------------------
(* Properties.                                                             *)

\* An editor that offers nothing to save shows the file, whatever reads of editors
\* that were open before are still on their way (use-editor-document.ts:47).  One
\* opened while a save was on its way may have read what that save put back, and
\* goes on doing so when that save has ended.
CleanIsFile ==
    (open /\ ~loading /\ ~Dirty /\ saving = NotSaving /\ value # Empty) => value = file
=============================================================================
