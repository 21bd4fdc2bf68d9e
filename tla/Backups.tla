------------------------------- MODULE Backups -------------------------------
(***************************************************************************)
(* src/components/setting/mods: the dialog of the backups (backup-viewer), *)
(* the list of those that there are (backup-history-viewer), the dialog of *)
(* the WebDAV server (backup-webdav-dialog, backup-config-viewer), and     *)
(* what is remembered of that server (src/services/webdav-status.ts).      *)
(*                                                                         *)
(* A dialog lies over the one that opened it.  The list and the dialog of  *)
(* the server are mounted while the first dialog is open; a call outlives  *)
(* them.  A backup is the time of its name; a configuration of the server  *)
(* is one text, and its signature is that text.                            *)
(***************************************************************************)
EXTENDS Naturals, Sequences, SequencesExt, FiniteSets

CONSTANTS
    Servers,  \* configurations of WebDAV
    Valid,    \* those that checkForm accepts
    None,     \* no configuration
    PageSize, \* rows of a page
    MaxFile,  \* bound: backups of a source
    MaxCalls, \* bound: calls under way of the list and of the server
    MaxSteps  \* bound: steps of the user

Sources == {"local", "webdav"}
NoRows == <<>>
Nothing == [action |-> "none", file |-> 0, source |-> "local"]
NoJob == [of |-> Nothing, deps |-> <<>>, alive |-> FALSE, phase |-> "idle"]

VARIABLES
    files,                   \* the backups of each source
    config, seen,            \* the server of the back end, and of the interface
    cache,                   \* webdav_status_cache
    open, busyAction, localImporting, backingUp, importing, \* of the first dialog
    historyOpen, source, page, \* also of the first, for the list
    rows, loading, isRestoring, isRestarting, isConfirming, pending, \* of the list
    deps, fetches, job, restarts, \* its effect and its calls
    webdavOpen, form, serverLoading, serverDeps, serverCalls, \* of the dialog of the server
    restarted, steps

back == <<files, config>>
main == <<open, busyAction, localImporting, backingUp, importing>>
shown == <<historyOpen, source, page>>
history == <<rows, loading, isRestoring, isRestarting, isConfirming, pending>>
calls == <<deps, fetches, job, restarts>>
server == <<webdavOpen, form, serverLoading, serverDeps, serverCalls>>
vars == <<back, seen, cache, main, shown, history, calls, server, restarted, steps>>

-----------------------------------------------------------------------------
(* What is remembered of the server: the last result, with its signature.  *)

GetStatus(signature) ==
    IF signature # None /\ cache.signature = signature THEN cache.status ELSE "unknown"
SetStatus(signature, status) ==
    cache' = IF signature = None THEN cache ELSE [signature |-> signature, status |-> status]

\* The dependencies of the two effects; an effect runs before anything else happens.
Deps == IF open THEN <<historyOpen, source, seen, GetStatus(seen)>> ELSE <<>>
ServerDeps == IF webdavOpen THEN <<seen, GetStatus(seen) # "failed">> ELSE <<>>
Settled == ~restarted /\ deps = Deps /\ serverDeps = ServerDeps
UserStep == Settled /\ steps < MaxSteps /\ steps' = steps + 1

-----------------------------------------------------------------------------
(* The first dialog.                                                       *)

OnMain == open /\ ~historyOpen /\ ~webdavOpen

Open ==
    /\ UserStep /\ ~open /\ open' = TRUE
    /\ UNCHANGED <<back, seen, cache, busyAction, localImporting, backingUp, importing, shown,
                   history, calls, server, restarted>>

\* What it holds is unmounted: the next list asks with a lock of its own.
Close ==
    /\ UserStep /\ OnMain /\ open' = FALSE
    /\ rows' = NoRows /\ loading' = FALSE /\ isRestoring' = FALSE /\ isRestarting' = FALSE
    /\ isConfirming' = FALSE /\ pending' = Nothing
    /\ deps' = <<>> /\ job' = IF job.phase = "refresh" THEN NoJob ELSE [job EXCEPT !.alive = FALSE]
    /\ fetches' = [i \in DOMAIN fetches |-> [fetches[i] EXCEPT !.alive = FALSE]]
    /\ restarts' = [i \in DOMAIN restarts |-> FALSE]
    /\ serverLoading' = FALSE
    /\ serverCalls' = [i \in DOMAIN serverCalls |-> [serverCalls[i] EXCEPT !.alive = FALSE]]
    /\ UNCHANGED <<back, seen, cache, busyAction, localImporting, backingUp, importing, shown,
                   webdavOpen, form, serverDeps, restarted>>

ShowHistory(target) == source' = target /\ page' = 0 /\ historyOpen' = TRUE

OpenHistory(target) ==
    /\ UserStep /\ OnMain /\ (target = "local" => busyAction # "local" /\ ~localImporting)
    /\ ShowHistory(target)
    /\ UNCHANGED <<back, seen, cache, main, history, calls, server, restarted>>

\* A new backup is later than those that there are.
Created(s) ==
    LET later == {f \in 1 .. MaxFile : \A g \in files[s] : f > g} IN
    files' = IF later = {} THEN files ELSE [files EXCEPT ![s] = @ \cup {Min(later)}]

\* handleBackup, under its lock; its button is off while it is said to be busy.
HandleBackup(target) ==
    /\ UserStep /\ OnMain /\ busyAction # target /\ (target = "local" => ~localImporting)
    /\ backingUp.target = "none"
    /\ busyAction' = target /\ backingUp' = [target |-> target, signature |-> seen]
    /\ UNCHANGED <<back, seen, cache, open, localImporting, importing, shown, history, calls,
                   server, restarted>>

\* Mutant of the next definition: a failure leaves the button as it is.
BackedUpKeeping ==
    /\ Settled /\ backingUp.target # "none" /\ backingUp' = [target |-> "none", signature |-> None]
    /\ \/ Created(backingUp.target) /\ busyAction' = "none" /\ UNCHANGED cache
       \/ UNCHANGED <<files, busyAction, cache>>
    /\ UNCHANGED <<config, seen, open, localImporting, importing, shown, history, calls, server,
                   restarted, steps>>
BackedUp ==
    /\ Settled /\ backingUp.target # "none" /\ backingUp' = [target |-> "none", signature |-> None]
    /\ busyAction' = "none"
    /\ \/ /\ Created(backingUp.target)
          /\ IF backingUp.target = "webdav" THEN SetStatus(backingUp.signature, "ready")
             ELSE UNCHANGED cache
       \/ /\ UNCHANGED files
          /\ IF backingUp.target = "webdav" THEN SetStatus(backingUp.signature, "failed")
             ELSE UNCHANGED cache
    /\ UNCHANGED <<config, seen, open, localImporting, importing, shown, history, calls, server,
                   restarted, steps>>

\* handleImport waits for the choice of a file, then for the import.
HandleImport ==
    /\ UserStep /\ OnMain /\ busyAction # "local" /\ ~importing
    /\ importing' = TRUE
    /\ UNCHANGED <<back, seen, cache, open, busyAction, localImporting, backingUp, shown, history,
                   calls, server, restarted>>

FileChosen ==
    /\ Settled /\ importing /\ ~localImporting
    /\ \/ localImporting' = TRUE /\ UNCHANGED importing
       \/ importing' = FALSE /\ UNCHANGED localImporting
    /\ UNCHANGED <<back, seen, cache, open, busyAction, backingUp, shown, history, calls, server,
                   restarted, steps>>

Imported ==
    /\ Settled /\ localImporting /\ localImporting' = FALSE /\ importing' = FALSE
    /\ \/ Created("local") /\ ShowHistory("local")
       \/ UNCHANGED <<files, shown>>
    /\ UNCHANGED <<config, seen, cache, open, busyAction, backingUp, history, calls, server,
                   restarted, steps>>

-----------------------------------------------------------------------------
(* The list.                                                               *)

IsBusy == loading \/ isRestoring \/ isRestarting \/ isConfirming
OnHistory == open /\ historyOpen /\ pending = Nothing

\* fetchRows with the values d of a rendering.  last: it ends a confirmed deletion.
FetchRows(d, force, last) ==
    IF ~d[1] THEN UNCHANGED <<rows, loading, fetches>>
    ELSE IF d[2] = "webdav" /\ (d[3] = None \/ (d[4] = "failed" /\ ~force))
    THEN rows' = NoRows /\ UNCHANGED <<loading, fetches>>
    ELSE /\ Len(fetches) < MaxCalls
         /\ loading' = TRUE /\ UNCHANGED rows
         /\ fetches' = Append(fetches, [source |-> d[2], signature |-> d[3], alive |-> TRUE, last |-> last])

\* The effect of the list: whenever fetchRows is another function.
HistoryEffect ==
    /\ ~restarted /\ deps # Deps /\ deps' = Deps
    /\ IF open THEN FetchRows(Deps, FALSE, FALSE) ELSE UNCHANGED <<rows, loading, fetches>>
    /\ UNCHANGED <<back, seen, cache, main, shown, isRestoring, isRestarting, isConfirming, pending,
                   job, restarts, server, restarted, steps>>

\* The newest first.
BuildRows(list) ==
    [i \in 1 .. Cardinality(list) |-> CHOOSE f \in list : Cardinality({g \in list : g > f}) = i - 1]

Fetched(i) ==
    LET f == fetches[i] IN
    /\ Settled /\ fetches' = RemoveAt(fetches, i)
    /\ \/ /\ rows' = IF f.alive THEN BuildRows(files[f.source]) ELSE rows
          /\ IF f.source = "webdav" THEN SetStatus(f.signature, "ready") ELSE UNCHANGED cache
       \/ /\ rows' = IF f.alive THEN NoRows ELSE rows
          /\ IF f.source = "webdav" THEN SetStatus(f.signature, "failed") ELSE UNCHANGED cache
    /\ loading' = (loading /\ ~f.alive)
    /\ job' = IF f.last /\ f.alive THEN NoJob ELSE job
    /\ isConfirming' = (isConfirming /\ ~(f.last /\ f.alive))
    /\ UNCHANGED <<back, seen, main, shown, isRestoring, isRestarting, pending, deps, restarts,
                   server, restarted, steps>>

HandleRefresh ==
    /\ UserStep /\ OnHistory /\ ~IsBusy /\ FetchRows(Deps, TRUE, FALSE)
    /\ UNCHANGED <<back, seen, cache, main, shown, isRestoring, isRestarting, isConfirming, pending,
                   deps, job, restarts, server, restarted>>

ChangeSource(s) ==
    /\ UserStep /\ OnHistory /\ ~IsBusy /\ s # source /\ source' = s /\ page' = 0
    /\ UNCHANGED <<back, seen, cache, main, historyOpen, history, calls, server, restarted>>

CloseHistory ==
    /\ UserStep /\ OnHistory /\ historyOpen' = FALSE
    /\ UNCHANGED <<back, seen, cache, main, source, page, history, calls, server, restarted>>

PageCount ==
    LET full == (Len(rows) + PageSize - 1) \div PageSize IN IF full = 0 THEN 1 ELSE full

\* Mutant of the next definition: the page that was chosen, whatever is left.
PageChosen == page
CurrentPage == IF page < PageCount THEN page ELSE PageCount - 1
PagedRows ==
    {i \in DOMAIN rows : CurrentPage * PageSize < i /\ i <= CurrentPage * PageSize + PageSize}

ChangePage ==
    /\ UserStep /\ OnHistory /\ ~IsBusy
    /\ \/ CurrentPage > 0 /\ page' = CurrentPage - 1
       \/ CurrentPage < PageCount - 1 /\ page' = CurrentPage + 1
    /\ UNCHANGED <<back, seen, cache, main, historyOpen, source, history, calls, server, restarted>>

\* handleDelete and handleRestore ask first.
Ask(action) ==
    /\ UserStep /\ OnHistory /\ ~IsBusy
    /\ \E i \in PagedRows : pending' = [action |-> action, file |-> rows[i], source |-> source]
    /\ UNCHANGED <<back, seen, cache, main, shown, rows, loading, isRestoring, isRestarting,
                   isConfirming, calls, server, restarted>>
HandleDelete == Ask("delete")
HandleRestore == Ask("restore")

\* Mutant of the next definition: it closes at any time.
CloseConfirmAlways ==
    /\ UserStep /\ pending # Nothing /\ pending' = Nothing
    /\ UNCHANGED <<back, seen, cache, main, shown, rows, loading, isRestoring, isRestarting,
                   isConfirming, calls, server, restarted>>
CloseConfirmDialog ==
    /\ UserStep /\ pending # Nothing /\ ~isConfirming /\ pending' = Nothing
    /\ UNCHANGED <<back, seen, cache, main, shown, rows, loading, isRestoring, isRestarting,
                   isConfirming, calls, server, restarted>>

HandleConfirmAction ==
    /\ UserStep /\ pending # Nothing /\ job.phase = "idle"
    /\ job' = [of |-> pending, deps |-> Deps, alive |-> TRUE, phase |-> "call"]
    /\ isConfirming' = TRUE /\ isRestoring' = (isRestoring \/ pending.action = "restore")
    /\ UNCHANGED <<back, seen, cache, main, shown, rows, loading, isRestarting, pending,
                   deps, fetches, restarts, server, restarted>>

Finally ==
    /\ job' = NoJob
    /\ isConfirming' = (isConfirming /\ ~job.alive) /\ isRestoring' = (isRestoring /\ ~job.alive)

Cleared == pending' = IF job.alive THEN Nothing ELSE pending

\* The list is read anew before the deletion ends.
Deleted ==
    /\ Settled /\ job.phase = "call" /\ job.of.action = "delete"
    /\ files' = [files EXCEPT ![job.of.source] = @ \ {job.of.file}] /\ Cleared
    /\ FetchRows(job.deps, FALSE, TRUE)
    /\ IF fetches' # fetches
       THEN job' = [job EXCEPT !.phase = "refresh"] /\ UNCHANGED <<isConfirming, isRestoring>>
       ELSE Finally
    /\ UNCHANGED <<config, seen, cache, main, shown, isRestarting, deps, restarts, server,
                   restarted, steps>>

Restored ==
    /\ Settled /\ job.phase = "call" /\ job.of.action = "restore"
    /\ Cleared /\ isRestarting' = (isRestarting \/ job.alive)
    /\ restarts' = Append(restarts, job.alive) /\ Finally
    /\ UNCHANGED <<back, seen, cache, main, shown, rows, loading, deps, fetches, server, restarted,
                   steps>>

ConfirmFailed ==
    /\ Settled /\ job.phase = "call" /\ Finally
    /\ UNCHANGED <<back, seen, cache, main, shown, rows, loading, isRestarting, pending, deps,
                   fetches, restarts, server, restarted, steps>>

\* The timer: the program restarts, or says why not.
Restart(i) ==
    /\ Settled /\ restarts' = RemoveAt(restarts, i)
    /\ \/ restarted' = TRUE /\ UNCHANGED isRestarting
       \/ isRestarting' = (isRestarting /\ ~restarts[i]) /\ UNCHANGED restarted
    /\ UNCHANGED <<back, seen, cache, main, shown, rows, loading, isRestoring, isConfirming, pending,
                   deps, fetches, job, server, steps>>

-----------------------------------------------------------------------------
(* The dialog of the server.                                               *)

OnServer == webdavOpen /\ ~historyOpen /\ ~serverLoading
HandleLoading(value) ==
    serverLoading' = value /\ busyAction' = IF value THEN "webdav" ELSE "none"
ServerCall(is, signature, then) ==
    /\ Len(serverCalls) < MaxCalls /\ HandleLoading(TRUE)
    /\ serverCalls' = Append(serverCalls, [is |-> is, signature |-> signature, then |-> then, alive |-> TRUE])

OpenServer ==
    /\ UserStep /\ OnMain /\ webdavOpen' = TRUE /\ form' = seen
    /\ UNCHANGED <<back, seen, cache, main, shown, history, calls, serverLoading, serverDeps,
                   serverCalls, restarted>>

CloseServer ==
    /\ UserStep /\ webdavOpen /\ ~historyOpen /\ webdavOpen' = FALSE
    /\ UNCHANGED <<back, seen, cache, main, shown, history, calls, form, serverLoading, serverDeps,
                   serverCalls, restarted>>

\* onInit, for a server that has not failed.
ServerEffect ==
    /\ ~restarted /\ serverDeps # ServerDeps /\ serverDeps' = ServerDeps
    /\ IF webdavOpen /\ seen # None /\ GetStatus(seen) # "failed"
       THEN ServerCall("list", seen, "none") ELSE UNCHANGED <<serverLoading, busyAction, serverCalls>>
    /\ UNCHANGED <<back, seen, cache, open, localImporting, backingUp, importing, shown, history,
                   calls, webdavOpen, form, restarted, steps>>

EditServer ==
    /\ UserStep /\ OnServer /\ \E s \in Servers \ {form} : form' = s
    /\ UNCHANGED <<back, seen, cache, main, shown, history, calls, webdavOpen, serverLoading,
                   serverDeps, serverCalls, restarted>>

Locked(then) == \E i \in DOMAIN serverCalls : serverCalls[i].then = then

CheckForm == form \in Valid

ServerClick(is, then) ==
    /\ UserStep /\ OnServer /\ (then # "none" => CheckForm /\ ~Locked(then))
    /\ ServerCall(is, form, then)
    /\ UNCHANGED <<back, seen, cache, open, localImporting, backingUp, importing, shown, history,
                   calls, webdavOpen, form, serverDeps, restarted>>

\* There is a button for saving, or those for the server that is saved.
SaveServer == (form # seen \/ seen = None) /\ ServerClick("save", "saved")
BackupOnServer == form = seen /\ seen # None /\ ServerClick("backup", "history")
RefreshServer == form = seen /\ seen # None /\ ServerClick("list", "none")

\* A call ends: what it set loading for is over.
EndCall(i) ==
    /\ serverCalls' = RemoveAt(serverCalls, i)
    /\ serverLoading' = (serverLoading /\ ~serverCalls[i].alive) /\ busyAction' = "none"

ServerSaved(i) ==
    LET c == serverCalls[i] IN
    /\ Settled /\ c.is = "save"
    /\ \/ /\ config' = c.signature /\ seen' = c.signature
          /\ SetStatus(c.signature, "unknown")
          /\ serverCalls' = [serverCalls EXCEPT ![i].is = "list"]
          /\ busyAction' = "webdav" /\ serverLoading' = (serverLoading \/ c.alive)
       \/ EndCall(i) /\ UNCHANGED <<config, seen, cache>>
    /\ UNCHANGED <<files, open, localImporting, backingUp, importing, shown, history, calls,
                   webdavOpen, form, serverDeps, restarted, steps>>

ServerBackedUp(i) ==
    LET c == serverCalls[i] IN
    /\ Settled /\ c.is = "backup"
    /\ \/ /\ Created("webdav")
          /\ serverCalls' = [serverCalls EXCEPT ![i].is = "list"]
          /\ busyAction' = "webdav" /\ serverLoading' = (serverLoading \/ c.alive) /\ UNCHANGED cache
       \/ EndCall(i) /\ SetStatus(c.signature, "failed") /\ UNCHANGED files
    /\ UNCHANGED <<config, seen, open, localImporting, backingUp, importing, shown, history, calls,
                   webdavOpen, form, serverDeps, restarted, steps>>

\* refreshWebdav; a backup then opens the list, and the server is taken for ready.
Refreshed(i) ==
    LET c == serverCalls[i] IN
    /\ Settled /\ c.is = "list" /\ EndCall(i)
    /\ \E status \in {"ready", "failed"} :
        SetStatus(c.signature, IF c.then = "history" THEN "ready" ELSE status)
    /\ IF c.then = "history" THEN ShowHistory("webdav") ELSE UNCHANGED shown
    /\ UNCHANGED <<back, seen, open, localImporting, backingUp, importing, history, calls,
                   webdavOpen, form, serverDeps, restarted, steps>>

-----------------------------------------------------------------------------

TypeOK ==
    /\ busyAction \in Sources \cup {"none"} /\ source \in Sources /\ seen \in Servers \cup {None}
    /\ job.phase \in {"idle", "call", "refresh"} /\ Len(fetches) <= MaxCalls
    /\ cache.status \in {"unknown", "ready", "failed"}

Init ==
    /\ files \in [Sources -> {1..2, 1..3}] /\ config \in Valid \cup {None} /\ seen = config
    /\ cache = [signature |-> None, status |-> "unknown"]
    /\ open = FALSE /\ busyAction = "none" /\ localImporting = FALSE /\ importing = FALSE
    /\ backingUp = [target |-> "none", signature |-> None]
    /\ historyOpen = FALSE /\ source = "local" /\ page = 0
    /\ rows = NoRows /\ loading = FALSE /\ isRestoring = FALSE /\ isRestarting = FALSE
    /\ isConfirming = FALSE /\ pending = Nothing
    /\ deps = <<>> /\ fetches = <<>> /\ job = NoJob /\ restarts = <<>>
    /\ webdavOpen = FALSE /\ form = None /\ serverLoading = FALSE /\ serverDeps = <<>>
    /\ serverCalls = <<>> /\ restarted = FALSE /\ steps = 0

Next ==
    \/ Open \/ Close \/ \E s \in Sources : OpenHistory(s) \/ HandleBackup(s) \/ ChangeSource(s)
    \/ BackedUp \/ HandleImport \/ FileChosen \/ Imported
    \/ HistoryEffect \/ \E i \in DOMAIN fetches : Fetched(i)
    \/ HandleRefresh \/ CloseHistory \/ ChangePage \/ HandleDelete \/ HandleRestore
    \/ CloseConfirmDialog \/ HandleConfirmAction \/ Deleted \/ Restored \/ ConfirmFailed
    \/ \E i \in DOMAIN restarts : Restart(i)
    \/ OpenServer \/ CloseServer \/ ServerEffect \/ EditServer
    \/ SaveServer \/ BackupOnServer \/ RefreshServer
    \/ \E i \in DOMAIN serverCalls : ServerSaved(i) \/ ServerBackedUp(i) \/ Refreshed(i)

Spec == Init /\ [][Next]_vars

-----------------------------------------------------------------------------

\* What is said to be busy is: whatever fails, is closed or overlaps, nothing stays
\* locked (backup-viewer.tsx:76, backup-history-viewer.tsx:178, 256).
BusyEnds ==
    /\ busyAction # "none" => backingUp.target # "none" \/ serverCalls # <<>>
    /\ localImporting => importing
    /\ loading => \E i \in DOMAIN fetches : fetches[i].alive
    /\ isConfirming \/ isRestoring => job.phase # "idle" /\ job.alive
    /\ isRestarting => restarted \/ \E i \in DOMAIN restarts : restarts[i]
    /\ serverLoading => \E i \in DOMAIN serverCalls : serverCalls[i].alive

\* What is deleted or restored is what the question on the screen names, and nothing else
\* is asked meanwhile (backup-history-viewer.tsx:222, 282).
ConfirmedOnly ==
    job.phase = "call" /\ job.alive => pending = job.of

\* A page of a list that is not empty has rows, though others were deleted
\* (backup-history-viewer.tsx:191).
PageFilled == rows # <<>> => PagedRows # {}
=============================================================================
