------------------------------- MODULE Prebuild -------------------------------
(***************************************************************************)
(* The script that gets what the program is packed with                    *)
(* (src/scripts/prebuild.mjs): the cores, the binaries of the service, the *)
(* databases and the scripts of the DNS, task by task, each tried several  *)
(* times; with its caches of versions and of hashes.  It may be            *)
(* interrupted anywhere and run again.                                     *)
(*                                                                         *)
(* A file has one of a few contents; its mode is left out, and with it the *)
(* task that only changes the modes of the binaries.  The platform is the  *)
(* only one that the script knows, so no task is left out.  The cache of   *)
(* hashes is read for the scripts alone, that of versions for the latest   *)
(* version alone.                                                          *)
(***************************************************************************)
EXTENDS Naturals, Sequences

CONSTANTS
    Binaries,   \* SERVICE_BINARIES, a sequence
    Resources,  \* files that are downloaded as they are
    Scripts,    \* files that are copied from the repository
    Tasks,      \* tasks
    Retry,      \* tries of a task, 5 in the code
    MaxVersion, \* bound: versions of a core, texts of a script
    MaxSteps    \* bound: runs, interrupts and changes from outside

Sidecars == {"verge-mihomo-alpha", "verge-mihomo"}
Bundle == "service" \* the task of the binaries
BinarySet == {Binaries[i] : i \in DOMAIN Binaries}
Names == Sidecars \cup BinarySet \cup Resources \cup Scripts

None == [is |-> "none", of |-> 0]
Torn == [is |-> "torn", of |-> 0] \* anything but what it should be
Whole(v) == [is |-> "whole", of |-> v]
Pinned == 1

VARIABLES
    files,     \* what is at the path of each name
    sources,   \* texts of the scripts in the repository
    released,  \* latest version of each core
    archives,  \* in the directory of each core below TEMP_DIR
    versions,  \* version cache, 0 for a version of more than an hour ago
    hashes,    \* hash cache, 0 for none
    force, pinned, \* FORCE, and the cores whose version is set
    task, try, at, left, \* of the run: its task, its try, where it is, its binary
    version,   \* META_VERSION and META_ALPHA_VERSION
    ended,     \* how the last run ended, if nothing changed since
    cut,       \* history: names whose writing was interrupted
    steps

outside == <<sources, released>>
stores == <<archives, versions, hashes>>
arguments == <<force, pinned>>
progress == <<task, try, at, ended>>
vars == <<files, outside, stores, arguments, progress, left, version, cut, steps>>

Step == steps < MaxSteps /\ steps' = steps + 1
Current == Tasks[task]
Target == IF Current = Bundle THEN Binaries[left] ELSE Current
Running(t, place) == at = place /\ Current = t

-----------------------------------------------------------------------------
(* The tasks, one after the other: runTask.                                *)

Succeeds ==
    /\ try' = 0
    /\ IF task = Len(Tasks)
       THEN at' = "idle" /\ ended' = "well" /\ UNCHANGED task
       ELSE at' = "begin" /\ task' = task + 1 /\ UNCHANGED ended
Fails ==
    /\ IF try + 1 = Retry THEN at' = "idle" /\ ended' = "failed" /\ UNCHANGED try
       ELSE at' = "begin" /\ try' = try + 1 /\ UNCHANGED ended
    /\ UNCHANGED task

\* A file is written in place.
Writes(f) == files' = [files EXCEPT ![f] = Torn] /\ at' = "writing" /\ UNCHANGED <<task, try, ended>>
Put(f, what) == files' = [files EXCEPT ![f] = what]

-----------------------------------------------------------------------------
(* The cores.                                                              *)

\* getLatestAlphaVersion and getLatestReleaseVersion: a cache that cannot be saved is
\* left as it was.
GetVersion(s) ==
    /\ Running(s, "begin") /\ at' = "resolve"
    /\ \/ s \in pinned /\ version' = [version EXCEPT ![s] = Pinned] /\ UNCHANGED versions
       \/ /\ s \notin pinned /\ ~force /\ versions[s] # 0
          /\ version' = [version EXCEPT ![s] = versions[s]] /\ UNCHANGED versions
       \/ /\ s \notin pinned /\ (force \/ versions[s] = 0)
          /\ version' = [version EXCEPT ![s] = released[s]]
          /\ versions' \in {versions, [versions EXCEPT ![s] = released[s]]}
    /\ UNCHANGED <<files, outside, archives, hashes, arguments, task, try, ended, left, cut, steps>>
VersionFails(s) ==
    /\ Running(s, "begin") /\ s \notin pinned /\ (force \/ versions[s] = 0) /\ Fails
    /\ UNCHANGED <<files, outside, stores, arguments, left, version, cut, steps>>

SkipSidecar(s) ==
    /\ Running(s, "resolve") /\ ~force /\ files[s] # None /\ Succeeds
    /\ UNCHANGED <<files, outside, stores, arguments, left, version, cut, steps>>

\* resolveSidecar takes an archive that is there; the first bytes of one that it
\* downloads are those of an archive, but nothing says that it is whole.
Wanted(s) == Running(s, "resolve") /\ (force \/ files[s] = None)
Archived(s) == \E a \in archives[s] : a.of = version[s]
Download(s) ==
    /\ Wanted(s) /\ ~Archived(s)
    /\ \E whole \in BOOLEAN : archives' = [archives EXCEPT ![s] = @ \cup {[of |-> version[s], whole |-> whole]}]
    /\ UNCHANGED <<files, outside, versions, hashes, arguments, progress, left, version, cut, steps>>
Unpack(s) ==
    /\ Wanted(s) /\ Archived(s) /\ Writes(s)
    /\ UNCHANGED <<outside, stores, arguments, left, version, cut, steps>>
Unpacked(s) ==
    /\ Running(s, "writing") /\ [of |-> version[s], whole |-> TRUE] \in archives[s]
    /\ Put(s, Whole(version[s])) /\ archives' = [archives EXCEPT ![s] = {}] /\ Succeeds
    /\ UNCHANGED <<outside, versions, hashes, arguments, left, version, cut, steps>>

\* A core that was there is gone as well, and so is the archive.
SidecarFails(s) ==
    /\ Wanted(s) \/ Running(s, "writing")
    /\ Put(s, None) /\ archives' = [archives EXCEPT ![s] = {}] /\ Fails
    /\ UNCHANGED <<outside, versions, hashes, arguments, left, version, cut, steps>>

-----------------------------------------------------------------------------
(* The binaries of the service: resolveServiceBundle.                      *)

AllThere == \A b \in BinarySet : files[b] # None
SkipBundle ==
    /\ Running(Bundle, "begin") /\ ~force /\ AllThere /\ Succeeds
    /\ UNCHANGED <<files, outside, stores, arguments, left, version, cut, steps>>
FetchBundle ==
    /\ Running(Bundle, "begin") /\ (force \/ ~AllThere)
    /\ left' = 1 /\ at' = "copy"
    /\ UNCHANGED <<files, outside, stores, arguments, task, try, ended, version, cut, steps>>
CopyBinary ==
    /\ Running(Bundle, "copy") /\ Writes(Binaries[left])
    /\ UNCHANGED <<outside, stores, arguments, left, version, cut, steps>>
BinaryCopied ==
    /\ Running(Bundle, "writing") /\ Put(Binaries[left], Whole(1))
    /\ IF left = Len(Binaries) THEN Succeeds /\ UNCHANGED left
       ELSE left' = left + 1 /\ at' = "copy" /\ UNCHANGED <<task, try, ended>>
    /\ UNCHANGED <<outside, stores, arguments, version, cut, steps>>

\* No archive, an archive without the binary, or no copy of it.
BundleFails ==
    /\ \/ Running(Bundle, "begin") /\ (force \/ ~AllThere) /\ UNCHANGED files
       \/ Running(Bundle, "copy") /\ UNCHANGED files
       \/ Running(Bundle, "writing") /\ Put(Binaries[left], None)
    /\ Fails
    /\ UNCHANGED <<outside, stores, arguments, left, version, cut, steps>>

-----------------------------------------------------------------------------
(* The other files: resolveResource.                                       *)

\* What a download that fails has written stays, and the next try takes it for the file.
SkipResource(r) ==
    /\ Running(r, "begin") /\ ~force /\ files[r] # None /\ Succeeds
    /\ UNCHANGED <<files, outside, stores, arguments, left, version, cut, steps>>
DownloadResource(r) ==
    /\ Running(r, "begin") /\ (force \/ files[r] = None) /\ Writes(r)
    /\ UNCHANGED <<outside, stores, arguments, left, version, cut, steps>>
\* What the server sends for a file that is no archive is taken as it is.
ResourceDone(r) ==
    /\ Running(r, "writing") /\ \E what \in {Whole(1), Torn} : Put(r, what)
    /\ Succeeds
    /\ UNCHANGED <<outside, stores, arguments, left, version, cut, steps>>
ResourceFails(r) ==
    /\ Running(r, "writing") \/ (Running(r, "begin") /\ (force \/ files[r] = None))
    /\ Fails
    /\ UNCHANGED <<files, outside, stores, arguments, left, version, cut, steps>>

\* hasFileChanged: a script is copied unless it, its source and the cached hash agree.
HasFileChanged(f) == force \/ files[f] # Whole(sources[f]) \/ hashes[f] # sources[f]
SkipScript(f) ==
    /\ Running(f, "begin") /\ ~HasFileChanged(f) /\ Succeeds
    /\ UNCHANGED <<files, outside, stores, arguments, left, version, cut, steps>>
CopyScript(f) ==
    /\ Running(f, "begin") /\ HasFileChanged(f) /\ Writes(f)
    /\ UNCHANGED <<outside, stores, arguments, left, version, cut, steps>>
ScriptCopied(f) ==
    /\ Running(f, "writing") /\ Put(f, Whole(sources[f])) /\ Succeeds
    /\ hashes' \in {hashes, [hashes EXCEPT ![f] = sources[f]]}
    /\ UNCHANGED <<outside, archives, versions, arguments, left, version, cut, steps>>
ScriptFails(f) ==
    /\ Running(f, "writing") /\ Put(f, None) /\ Fails
    /\ UNCHANGED <<outside, stores, arguments, left, version, cut, steps>>

-----------------------------------------------------------------------------
(* The runs, and what happens to the files besides.                        *)

Init ==
    /\ files = [f \in Names |-> None] /\ sources = [f \in Scripts |-> 1]
    /\ released = [s \in Sidecars |-> 2] /\ archives = [s \in Sidecars |-> {}]
    /\ versions = [s \in Sidecars |-> 0] /\ hashes = [f \in Scripts |-> 0]
    /\ force = FALSE /\ pinned = {} /\ task = 1 /\ try = 0 /\ at = "idle" /\ left = 1
    /\ version = [s \in Sidecars |-> 0] /\ ended = "no" /\ cut = {} /\ steps = 0

\* The release is that which is pinned unless the latest is asked for; the other one is
\* pinned only when a variable says so.
Start ==
    /\ Step /\ at = "idle" /\ at' = "begin" /\ task' = 1 /\ try' = 0 /\ ended' = "no"
    /\ force' \in BOOLEAN /\ pinned' \in {{}, {"verge-mihomo"}, Sidecars}
    /\ version' = [s \in Sidecars |-> 0]
    /\ UNCHANGED <<files, outside, stores, left, cut>>

\* An archive may be cut short as well.
Interrupt ==
    /\ Step /\ at # "idle" /\ at' = "idle" /\ ended' = "cut"
    /\ cut' = IF at = "writing" THEN cut \cup {Target} ELSE cut
    /\ \/ UNCHANGED archives
       \/ \E s \in Sidecars :
             /\ Wanted(s) /\ ~Archived(s)
             /\ archives' = [archives EXCEPT ![s] = @ \cup {[of |-> version[s], whole |-> FALSE]}]
    /\ UNCHANGED <<files, outside, versions, hashes, arguments, task, try, left, version>>

\* A core is released, a script is changed; a cache gets old, is cut short or removed; a
\* file is removed.
Release(s) ==
    /\ Step /\ released[s] < MaxVersion /\ released' = [released EXCEPT ![s] = @ + 1]
    /\ UNCHANGED <<files, sources, stores, arguments, progress, left, version, cut>>
Change(f) ==
    /\ Step /\ at = "idle" /\ sources[f] < MaxVersion /\ sources' = [sources EXCEPT ![f] = @ + 1]
    /\ ended' = "no"
    /\ UNCHANGED <<files, released, stores, arguments, task, try, at, left, version, cut>>
Forget ==
    /\ Step /\ at = "idle"
    /\ versions' \in {versions, [s \in Sidecars |-> 0]} /\ hashes' \in {hashes, [f \in Scripts |-> 0]}
    /\ archives' \in {archives, [s \in Sidecars |-> {}]}
    /\ UNCHANGED <<files, outside, arguments, progress, left, version, cut>>
Remove(f) ==
    /\ Step /\ at = "idle" /\ files[f] # None /\ Put(f, None) /\ ended' = "no"
    /\ UNCHANGED <<outside, stores, arguments, task, try, at, left, version, cut>>

Next ==
    \/ \E s \in Sidecars :
          \/ GetVersion(s) \/ VersionFails(s) \/ SkipSidecar(s) \/ Download(s) \/ Unpack(s)
          \/ Unpacked(s) \/ SidecarFails(s) \/ Release(s)
    \/ SkipBundle \/ FetchBundle \/ CopyBinary \/ BinaryCopied \/ BundleFails
    \/ \E r \in Resources : SkipResource(r) \/ DownloadResource(r) \/ ResourceDone(r) \/ ResourceFails(r)
    \/ \E f \in Scripts : SkipScript(f) \/ CopyScript(f) \/ ScriptCopied(f) \/ ScriptFails(f) \/ Change(f)
    \/ Start \/ Interrupt \/ Forget \/ \E f \in Names : Remove(f)

Spec == Init /\ [][Next]_vars

-----------------------------------------------------------------------------
(* Properties.                                                             *)

\* A run that ends well leaves every file there and the scripts those of the repository,
\* whatever the cache says; if it was forced, every file whole but those that are
\* downloaded as they are, and the cores of the versions it asked for, whatever failed
\* before (prebuild.mjs:123, 342, 429, 560).
RunComplete ==
    ended = "well" =>
        /\ \A f \in Names : files[f] # None
        /\ \A f \in Scripts : files[f] = Whole(sources[f])
        /\ force => /\ \A f \in Names \ Resources : files[f] # Torn
                    /\ \A s \in Sidecars : files[s] = Whole(version[s])

\* A core, a binary or a script that is not whole is being written, or was when some run
\* was interrupted, for only a failure removes it (prebuild.mjs:421, 546).
PartsOwned ==
    \A f \in Names \ Resources :
        files[f] = Torn => f \in cut \/ (at = "writing" /\ f = Target)
=============================================================================
