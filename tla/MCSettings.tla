-------------------------------- MODULE MCSettings --------------------------------
(***************************************************************************)
(* Small instances of the dialogs of the settings, of the backups, of the  *)
(* speed beside the icon of the tray, of what tests the network (the list  *)
(* of the tests, the card of the address, the media), and of the script of *)
(* the files to pack.  They share no state but the back end, of which each *)
(* models what it sees, so a behaviour is one of a single component, which *)
(* `part' names.                                                           *)
(***************************************************************************)
EXTENDS Integers, Sequences, TLC

CONSTANTS
    TrayTasks, TrayConns, TrayStops,        \* for TraySpeed
    DnsTexts, DnsTimers, DnsSteps,          \* for DnsForm
    ProxyHosts, ProxyTasks, ProxySteps,     \* for SystemProxy
    TunnelLocals, TunnelTargets, TunnelGroups, TunnelSteps, TunnelAdds, \* for Tunnels
    PortTexts, PortSaves, PortSteps,        \* for ClashPorts
    GuardedKeys, GuardedSteps,              \* for GuardedSettings
    DevOrigins, CoreOrigins, CoreRows, CoreCalls, CoreSteps, \* for CoreDialogs
    VergeAddresses, VergeNumbers, NotANumber, VergeSteps,    \* for VergeDialogs
    BackupServers, BackupValid, NoServer, BackupPage, BackupFiles,
    BackupCalls, BackupSteps,               \* for Backups
    TestUrls, TestUids, TestCount, TestSteps, \* for TestList
    IpServices, IpRefresh, IpClock, IpTicks, IpSteps, \* for IpCard
    UnlockMedia, UnlockOld, UnlockNote, UnlockSteps, \* for Unlock
    PrebuildBinaries, PrebuildResources, PrebuildScripts, PrebuildTasks,
    PrebuildRetry, PrebuildVersions, PrebuildSteps \* for Prebuild

VARIABLES
    part,       \* the component that this behaviour is about
    qFile, enabled, applied, qOpen, visual, values, qText, late, qTimers,
    checks, reads, qSaving, qSteps,
    sSaved, sSeen, port, seenPort, os, sOpen, sValue, tasks, sPending, busy,
    wanted, crossed, sFailed, sSteps,
    uSaved, uSeen, uOpen, expanded, uValues, draft, adds, patching, fetches,
    kept, deleted, ids, uSteps,
    clash, verge, oSeen, oOpen, oValues, original, checking, oTasks, latest,
    overlapped, oFailed, oSteps,
    kSaved, kSeen, requests, choosing, refetch, clashLog, dnsShown, dns,
    dnsLate, together, kCrossed, kSteps,
    rDialog, rStored, running, rSeen, rOpen, tun, cors, rPatching, rCalls,
    count, refetches, rDropped, behind, rSteps,
    vDialog, vStored, vSeen, vOpen, controller, misc, pendingValues,
    intervalInputDraft, vSaving, info, told, vSteps,
    files, config, mSeen, mCache, mOpen, busyAction, localImporting, backingUp,
    importing, historyOpen, source, page, rows, mLoading, isRestoring,
    isRestarting, isConfirming, mPending, deps, mFetches, job, restarts,
    webdavOpen, mForm, serverLoading, serverDeps, serverCalls, restarted, mSteps,
    speedTask, speedId, yPc, yAborted, yMade, cleanup, yTaken, yManager,
    holder, reader, peer, forced, exiting, overwritten, yDropped, ySteps,
    jStored, jSeen, jMade, jMounted, jCard, jOpen, jOpenType, jForm, jLoading,
    jResets, jCalls, jAsked, jFetch, jDelay, jTests, jListeners, jCrossed,
    jFailed, jSteps, xMounted, xIntersected, xHidden, xOnline, xTimer,
    xIntervals, xCountdown, xHandlers, xAnswer, xError, xFetching, xFailures,
    xNoRetry, xService, xTries, xAsked, xAbortTimer, xAborted, xNow, xMade,
    xSteps, wDisk, wMounted, wRows, wCheckingAll, wLoadingItems, wLockAll,
    wLockOne, wJobs, wOthers, wSteps, zFiles, zSources, zReleased, zArchives,
    zVersions, zHashes, zForce, zPinned, zTask, zTry, zAt, zLeft, zVersion,
    zEnded, zCut, zSteps

Docs ==
    {[is |-> "broken"], [is |-> "empty"], [is |-> "scalar"], [is |-> "map", of |-> [mode |-> "odd", servers |-> {}]],
     [is |-> "map", of |-> [policy |-> {"p"}, other |-> 1]]}
TwoGroups == [g |-> <<"n", "o">>, e |-> <<>>]
SomeKeys == {"traffic_graph", "hover_delay", "ipv6", "log_level", "common_icon", "startup_script"}
OneDev == <<"dev">>
TwoBinaries == <<"clash-verge-service", "clash-verge-service-install">>
FiveTasks == <<"verge-mihomo-alpha", "verge-mihomo", "service", "mmdb", "set_dns">>

Y == INSTANCE TraySpeed WITH
    pc <- yPc, aborted <- yAborted, made <- yMade, taken <- yTaken,
    manager <- yManager, dropped <- yDropped, steps <- ySteps,
    MaxTasks <- TrayTasks, MaxConns <- TrayConns, MaxSteps <- TrayStops
Q == INSTANCE DnsForm WITH
    file <- qFile, open <- qOpen, text <- qText, timers <- qTimers,
    saving <- qSaving, steps <- qSteps, Texts <- DnsTexts,
    MaxTimers <- DnsTimers, MaxSteps <- DnsSteps
S == INSTANCE SystemProxy WITH
    saved <- sSaved, seen <- sSeen, open <- sOpen, value <- sValue,
    pending <- sPending, failed <- sFailed, steps <- sSteps,
    Hosts <- ProxyHosts, MaxTasks <- ProxyTasks, MaxSteps <- ProxySteps
U == INSTANCE Tunnels WITH
    saved <- uSaved, seen <- uSeen, open <- uOpen, values <- uValues,
    steps <- uSteps, LocalHosts <- TunnelLocals,
    TargetHosts <- TunnelTargets, Groups <- TunnelGroups,
    MaxSteps <- TunnelSteps, MaxAdds <- TunnelAdds
O == INSTANCE ClashPorts WITH
    seen <- oSeen, open <- oOpen, values <- oValues, tasks <- oTasks,
    failed <- oFailed, steps <- oSteps, Texts <- PortTexts,
    MaxSaves <- PortSaves, MaxSteps <- PortSteps
K == INSTANCE GuardedSettings WITH
    saved <- kSaved, seen <- kSeen, crossed <- kCrossed, steps <- kSteps,
    Changed <- GuardedKeys, MaxSteps <- GuardedSteps
R == INSTANCE CoreDialogs WITH
    dialog <- rDialog, stored <- rStored, seen <- rSeen, open <- rOpen,
    patching <- rPatching, calls <- rCalls, steps <- rSteps,
    dropped <- rDropped,
    Dev <- DevOrigins, Origins <- CoreOrigins, MaxRows <- CoreRows,
    MaxCalls <- CoreCalls, MaxSteps <- CoreSteps
V == INSTANCE VergeDialogs WITH
    dialog <- vDialog, stored <- vStored, seen <- vSeen, open <- vOpen,
    saving <- vSaving, steps <- vSteps, Addresses <- VergeAddresses,
    Numbers <- VergeNumbers, NaN <- NotANumber, MaxSteps <- VergeSteps
M == INSTANCE Backups WITH
    seen <- mSeen, cache <- mCache, open <- mOpen, loading <- mLoading,
    pending <- mPending, fetches <- mFetches, form <- mForm, steps <- mSteps,
    Servers <- BackupServers, Valid <- BackupValid, None <- NoServer,
    PageSize <- BackupPage, MaxFile <- BackupFiles, MaxCalls <- BackupCalls,
    MaxSteps <- BackupSteps

J == INSTANCE TestList WITH
    stored <- jStored, seen <- jSeen, made <- jMade, mounted <- jMounted, card
    <- jCard, open <- jOpen, openType <- jOpenType, form <- jForm, loading <-
    jLoading, resets <- jResets, calls <- jCalls, asked <- jAsked, fetch <-
    jFetch, delay <- jDelay, tests <- jTests, listeners <- jListeners, crossed
    <- jCrossed, failed <- jFailed, steps <- jSteps, Urls <- TestUrls, MaxUid
    <- TestUids, MaxTests <- TestCount, MaxSteps <- TestSteps
X == INSTANCE IpCard WITH
    mounted <- xMounted, intersected <- xIntersected, hidden <- xHidden,
    online <- xOnline, timer <- xTimer, intervals <- xIntervals, countdown <-
    xCountdown, handlers <- xHandlers, answer <- xAnswer, error <- xError,
    fetching <- xFetching, failures <- xFailures, noRetry <- xNoRetry, service
    <- xService, tries <- xTries, asked <- xAsked, abortTimer <- xAbortTimer,
    aborted <- xAborted, now <- xNow, made <- xMade, steps <- xSteps,
    ServiceCount <- IpServices, RefreshTime <- IpRefresh, MaxClock <- IpClock,
    MaxHandlers <- IpTicks, MaxSteps <- IpSteps
W == INSTANCE Unlock WITH
    disk <- wDisk, mounted <- wMounted, rows <- wRows, checkingAll <-
    wCheckingAll, loadingItems <- wLoadingItems, lockAll <- wLockAll, lockOne
    <- wLockOne, jobs <- wJobs, others <- wOthers, steps <- wSteps, Media <-
    UnlockMedia, OldMedia <- UnlockOld, MaxNote <- UnlockNote, MaxSteps <-
    UnlockSteps
Z == INSTANCE Prebuild WITH
    files <- zFiles, sources <- zSources, released <- zReleased, archives <-
    zArchives, versions <- zVersions, hashes <- zHashes, force <- zForce,
    pinned <- zPinned, task <- zTask, try <- zTry, at <- zAt, left <- zLeft,
    version <- zVersion, ended <- zEnded, cut <- zCut, steps <- zSteps,
    Binaries <- PrebuildBinaries, Resources <- PrebuildResources, Scripts <-
    PrebuildScripts, Tasks <- PrebuildTasks, Retry <- PrebuildRetry,
    MaxVersion <- PrebuildVersions, MaxSteps <- PrebuildSteps

ASSUME TrayAssumption ==
    TrayTasks \in Nat \ {0} /\ TrayConns \in Nat /\ TrayStops \in Nat

\* A page of the backups has rows.
ASSUME BackupAssumption == BackupPage \in Nat \ {0}

\* What stands for a text that is no number is none of the defaults.
ASSUME VergeAssumption == VergeNumbers \subseteq Nat /\ NotANumber \in Nat /\ NotANumber > 168 /\ NotANumber # 10000

\* The tasks of the script of the files to pack are all its tasks, and their files apart.
ASSUME PrebuildAssumption ==
    /\ PrebuildBinaries \in Seq(Z!BinarySet) /\ PrebuildBinaries # <<>>
    /\ PrebuildTasks \in Seq(Z!Sidecars \cup {Z!Bundle} \cup PrebuildResources \cup PrebuildScripts)
    /\ \A t \in Z!Sidecars \cup {Z!Bundle} \cup PrebuildResources \cup PrebuildScripts :
          \E i \in DOMAIN PrebuildTasks : PrebuildTasks[i] = t
    /\ \A i, j \in DOMAIN PrebuildTasks : PrebuildTasks[i] = PrebuildTasks[j] => i = j
    /\ \A i, j \in DOMAIN PrebuildBinaries : PrebuildBinaries[i] = PrebuildBinaries[j] => i = j
    /\ Z!Bundle \notin Z!Sidecars \cup PrebuildResources \cup PrebuildScripts
    /\ Z!BinarySet \cap (Z!Sidecars \cup PrebuildResources \cup PrebuildScripts) = {}
    /\ Z!Sidecars \cap PrebuildResources = {} /\ Z!Sidecars \cap PrebuildScripts = {}
    /\ PrebuildResources \cap PrebuildScripts = {}

Yvars == <<speedTask, speedId, yPc, yAborted, yMade, cleanup, yTaken,
           yManager, holder, reader, peer, forced, exiting, overwritten,
           yDropped, ySteps>>
Qvars == <<qFile, enabled, applied, qOpen, visual, values, qText, late, qTimers,
           checks, reads, qSaving, qSteps>>
Svars == <<sSaved, sSeen, port, seenPort, os, sOpen, sValue, tasks, sPending,
           busy, wanted, crossed, sFailed, sSteps>>
Uvars == <<uSaved, uSeen, uOpen, expanded, uValues, draft, adds, patching,
           fetches, kept, deleted, ids, uSteps>>
Ovars == <<clash, verge, oSeen, oOpen, oValues, original, checking, oTasks,
           latest, overlapped, oFailed, oSteps>>
Kvars == <<kSaved, kSeen, requests, choosing, refetch, clashLog, dnsShown, dns,
           dnsLate, together, kCrossed, kSteps>>
Rvars == <<rDialog, rStored, running, rSeen, rOpen, tun, cors, rPatching,
           rCalls, count, refetches, rDropped, behind, rSteps>>
Vvars == <<vDialog, vStored, vSeen, vOpen, controller, misc, pendingValues,
           intervalInputDraft, vSaving, info, told, vSteps>>
Mvars == <<files, config, mSeen, mCache, mOpen, busyAction, localImporting,
           backingUp, importing, historyOpen, source, page, rows, mLoading,
           isRestoring, isRestarting, isConfirming, mPending, deps, mFetches,
           job, restarts, webdavOpen, mForm, serverLoading, serverDeps,
           serverCalls, restarted, mSteps>>
dialogs == <<Yvars, Qvars, Svars, Uvars, Ovars, Kvars, Rvars, Vvars, Mvars>>
Jvars == <<jStored, jSeen, jMade, jMounted, jCard, jOpen, jOpenType,
           jForm, jLoading, jResets, jCalls, jAsked, jFetch, jDelay,
           jTests, jListeners, jCrossed, jFailed, jSteps>>
Xvars == <<xMounted, xIntersected, xHidden, xOnline, xTimer, xIntervals,
           xCountdown, xHandlers, xAnswer, xError, xFetching, xFailures,
           xNoRetry, xService, xTries, xAsked, xAbortTimer, xAborted,
           xNow, xMade, xSteps>>
Wvars == <<wDisk, wMounted, wRows, wCheckingAll, wLoadingItems,
           wLockAll, wLockOne, wJobs, wOthers, wSteps>>
Zvars == <<zFiles, zSources, zReleased, zArchives, zVersions, zHashes,
           zForce, zPinned, zTask, zTry, zAt, zLeft, zVersion, zEnded, zCut,
           zSteps>>
homes == <<Jvars, Xvars, Wvars, Zvars>>
settings == <<dialogs, homes>>

SettingsParts == {"tray", "dns", "sysproxy", "tunnels", "ports", "guarded", "core", "verge", "backups", "tests", "address", "unlock", "prebuild"}
\* The components that this behaviour is not about start in one way.
SettingsStart ==
    /\ Y!Init /\ (part = "tray" \/ speedTask = 1)
    /\ Q!Init /\ (part = "dns" \/ (qFile.is = "absent" /\ ~enabled))
    /\ S!Init /\ (part = "sysproxy" \/ (~sSaved.on /\ ~sSaved.pac /\ sSaved.content[2] = 0))
    /\ U!Init
    /\ O!Init
    /\ K!Init
    /\ R!Init /\ (part = "core" \/ (rDialog = "tun" /\ rStored.tun.exclude = ""))
    /\ V!Init /\ (part = "verge" \/ (vDialog = "misc" /\ vStored.on))
    /\ M!Init /\ (part = "backups" \/ (files = [local |-> 1..2, webdav |-> 1..2] /\ config = NoServer))
    /\ J!Init /\ (part = "tests" \/ (jStored = J!Absent /\ ~jCard))
    /\ X!Init /\ (part = "address" \/ xOnline)
    /\ W!Init /\ (part = "unlock" \/ wDisk = [m \in {} |-> <<>>])
    /\ Z!Init

DialogStep ==
    /\ UNCHANGED homes
    /\ \/ part = "tray" /\ Y!Next /\ UNCHANGED <<Qvars, Svars, Uvars, Ovars, Kvars,
                    Rvars, Vvars, Mvars>>
       \/ part = "dns" /\ Q!Next /\ UNCHANGED <<Yvars, Svars, Uvars, Ovars, Kvars,
                    Rvars, Vvars, Mvars>>
       \/ part = "sysproxy" /\ S!Next /\ UNCHANGED <<Yvars, Qvars, Uvars, Ovars,
                    Kvars, Rvars, Vvars, Mvars>>
       \/ part = "tunnels" /\ U!Next /\ UNCHANGED <<Yvars, Qvars, Svars, Ovars,
                    Kvars, Rvars, Vvars, Mvars>>
       \/ part = "ports" /\ O!Next /\ UNCHANGED <<Yvars, Qvars, Svars, Uvars, Kvars,
                    Rvars, Vvars, Mvars>>
       \/ part = "guarded" /\ K!Next /\ UNCHANGED <<Yvars, Qvars, Svars, Uvars,
                    Ovars, Rvars, Vvars, Mvars>>
       \/ part = "core" /\ R!Next /\ UNCHANGED <<Yvars, Qvars, Svars, Uvars, Ovars,
                    Kvars, Vvars, Mvars>>
       \/ part = "verge" /\ V!Next /\ UNCHANGED <<Yvars, Qvars, Svars, Uvars, Ovars,
                    Kvars, Rvars, Mvars>>
       \/ part = "backups" /\ M!Next /\ UNCHANGED <<Yvars, Qvars, Svars, Uvars,
                    Ovars, Kvars, Rvars, Vvars>>

HomeStep ==
    /\ UNCHANGED dialogs
    /\ \/ part = "tests" /\ J!Next /\ UNCHANGED <<Xvars, Wvars, Zvars>>
       \/ part = "address" /\ X!Next /\ UNCHANGED <<Jvars, Wvars, Zvars>>
       \/ part = "unlock" /\ W!Next /\ UNCHANGED <<Jvars, Xvars, Zvars>>
       \/ part = "prebuild" /\ Z!Next /\ UNCHANGED <<Jvars, Xvars, Wvars>>

SettingsStep == (DialogStep \/ HomeStep) /\ UNCHANGED part

SettingsSpec == SettingsStart /\ [][SettingsStep]_<<part, settings>>

-----------------------------------------------------------------------------
(* The properties of the components.                                       *)

\* A connection to the core has a task or clean-up of the tray that will end it, and a
\* reader, whichever tasks were aborted, started or stopped meanwhile, and after the last
\* clean-up nothing is left (speed_task.rs:135).
SpeedOwned == part = "tray" => Y!ConnectionsOwned /\ Y!EntriesServed /\ Y!StoppedEnds

\* A form holds what it says it holds: the settings of DNS are those of the document and
\* those that are applied are valid (dns-viewer.tsx:447, 582), the tunnels are those of
\* the draft (tunnels-viewer.tsx:150).  Once nothing is under way, what a dialog saved
\* is what the system has and what is shown: the settings of the system proxy
\* (sysproxy-viewer.tsx:133) and the last click on its switch
\* (use-system-proxy-state.ts:44), unless a call failed or its tasks crossed; the ports
\* (clash-port-viewer.tsx:64), unless a save failed or overlapped another, and those that
\* are sent were checked in any case (:150); a setting that goes back when its change
\* fails (guard-state.tsx:73), unless that overlapped another change; the settings of TUN
\* unless a patch was dropped, and the origins of the controller since the last restart
\* that ended well (tun-viewer.tsx:107, external-controller-cors.tsx:125); what the
\* dialogs of the program save, whatever overlaps (controller-viewer.tsx:72,
\* misc-viewer.tsx:62, auto-backup-settings.tsx:59).
SettingsApplied ==
    /\ part = "dns" => Q!FormAgrees /\ Q!AppliedValid
    /\ part = "tunnels" => U!DraftKept
    /\ part = "sysproxy" => S!SystemIsSaved /\ S!LastClickWins
    /\ part = "ports" => O!SentIsChecked /\ O!PortsAgree
    /\ part = "guarded" => K!SettingsShown
    /\ part = "core" => R!RoutesValid /\ R!TunShown /\ R!OriginsApplied
    /\ part = "verge" => V!ControllerSaved /\ V!MiscKept /\ V!AutoBackupShown

\* The origins that are stored are whole: with those of the program, each once, none
\* blank (external-controller-cors.tsx:23).
OriginsKept == part = "core" => R!OriginsWhole

\* What marks a request of the backups ends with it, only those are deleted or restored
\* that were confirmed (backup-history-viewer.tsx:222), and a page is full (:191).
BackupsConfirmed == part = "backups" => M!BusyEnds /\ M!ConfirmedOnly /\ M!PageFilled
=============================================================================
