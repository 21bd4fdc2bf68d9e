-------------------------------- MODULE Unlock --------------------------------
(***************************************************************************)
(* The page of the media that the network unlocks (src/pages/unlock.tsx):  *)
(* the rows of earlier checks in the storage of the window, the items that *)
(* the back end knows, and the checks, of all items or of one, which go on *)
(* when the page is gone.                                                  *)
(*                                                                         *)
(* The rows are sorted by their names, so that a list of rows is a         *)
(* function of the names; two names that differ in case are one.  The      *)
(* region and the time of a check are one note, 0 for none.  The time of   *)
(* the last check, which nothing shows, and a storage that is full are     *)
(* left out.                                                               *)
(***************************************************************************)
EXTENDS Naturals, Sequences

CONSTANTS
    Media,     \* names that the back end knows
    OldMedia,  \* names that earlier versions knew
    MaxNote,   \* bound: notes
    MaxSteps   \* bound: steps of the user

Names == Media \cup OldMedia
Pending == [pending |-> TRUE, note |-> 0]
Checked == [pending : {FALSE}, note : 0 .. MaxNote]
Rows(of, S) == UNION {[M -> of] : M \in SUBSET S}
NoRows == [m \in {} |-> Pending]

VARIABLES
    disk,        \* the rows of each name in the storage
    mounted, rows, \* unlockItems
    checkingAll, loadingItems, \* what the page says of the checks
    lockAll, lockOne, \* useLockFn
    jobs,        \* calls under way
    others,      \* history: a page that is gone has stored rows since this one began
    steps

page == <<mounted, rows, checkingAll, loadingItems, lockAll, lockOne>>
vars == <<disk, page, jobs, others, steps>>

Step == steps < MaxSteps /\ steps' = steps + 1

-----------------------------------------------------------------------------
(* The rows.                                                               *)

\* dedupeUnlockItems: of two rows of a name, one that is checked, and the later one.
Prefer(item, existing) ==
    IF item.pending /\ ~existing.pending
    THEN [existing EXCEPT !.note = IF @ # 0 THEN @ ELSE item.note]
    ELSE [item EXCEPT !.note = IF @ # 0 THEN @ ELSE existing.note]
Dedupe(list) ==
    [m \in DOMAIN list |-> IF Len(list[m]) = 1 THEN list[m][1] ELSE Prefer(list[m][2], list[m][1])]

\* mergeUnlockItems: the names of the back end, and those that are stored.
Merge(existing) ==
    [m \in Media \cup DOMAIN existing |-> IF m \in DOMAIN existing THEN existing[m] ELSE Pending]

Stored(list) == [m \in DOMAIN list |-> <<list[m]>>]

\* setUnlockItems and saveResultsToStorage, of a page that may be gone.
Show(list, live) ==
    /\ rows' = IF live THEN list ELSE rows
    /\ disk' = Stored(list) /\ others' = (others \/ ~live)

-----------------------------------------------------------------------------
(* The page.                                                               *)

Init ==
    /\ disk \in UNION {[M -> {<<Pending>>} \cup {<<c>> : c \in Checked} \cup {<<Pending, c>> : c \in Checked}] :
                          M \in SUBSET Names}
    /\ mounted = FALSE /\ rows = NoRows /\ checkingAll = FALSE /\ loadingItems = {}
    /\ lockAll = FALSE /\ lockOne = FALSE /\ jobs = {} /\ others = FALSE /\ steps = 0

Job(does, name, with) == [n |-> steps, does |-> does, name |-> name, with |-> with, live |-> TRUE]

\* The effect of the page shows what is stored and asks for the items.
Mount ==
    /\ Step /\ ~mounted /\ mounted' = TRUE /\ rows' = Dedupe(disk) /\ others' = FALSE
    /\ jobs' = jobs \cup {Job("items", "", Dedupe(disk))}
    /\ UNCHANGED <<disk, checkingAll, loadingItems, lockAll, lockOne>>

Unmount ==
    /\ Step /\ mounted /\ mounted' = FALSE /\ rows' = NoRows
    /\ checkingAll' = FALSE /\ loadingItems' = {} /\ lockAll' = FALSE /\ lockOne' = FALSE
    /\ jobs' = {[j EXCEPT !.live = FALSE] : j \in jobs} /\ UNCHANGED <<disk, others>>

\* get_unlock_items answers; when it fails nothing happens.
GetUnlockItems(j, answers) ==
    /\ j \in jobs /\ j.does = "items" /\ jobs' = jobs \ {j}
    /\ IF answers THEN Show(Merge(j.with), j.live) ELSE UNCHANGED <<rows, disk, others>>
    /\ UNCHANGED <<mounted, checkingAll, loadingItems, lockAll, lockOne, steps>>

\* The buttons.  A check of one item goes on with the rows that were shown at its start.
CheckAllMedia ==
    /\ Step /\ mounted /\ ~checkingAll /\ ~lockAll /\ lockAll' = TRUE /\ checkingAll' = TRUE
    /\ jobs' = jobs \cup {Job("all", "", NoRows)}
    /\ UNCHANGED <<disk, mounted, rows, loadingItems, lockOne, others>>
CheckSingleMedia(m) ==
    /\ Step /\ m \in DOMAIN rows /\ m \notin loadingItems /\ ~checkingAll
    /\ ~lockOne /\ lockOne' = TRUE /\ loadingItems' = loadingItems \cup {m}
    /\ jobs' = jobs \cup {Job("one", m, rows)}
    /\ UNCHANGED <<disk, mounted, rows, checkingAll, lockAll, others>>

\* What ends a check, with an answer or not.
AllEnds(j) ==
    /\ j \in jobs /\ j.does = "all" /\ jobs' = jobs \ {j}
    /\ checkingAll' = (checkingAll /\ ~j.live) /\ lockAll' = (lockAll /\ ~j.live)
    /\ UNCHANGED <<mounted, loadingItems, lockOne, steps>>
OneEnds(j) ==
    /\ j \in jobs /\ j.does = "one" /\ jobs' = jobs \ {j}
    /\ loadingItems' = IF j.live THEN loadingItems \ {j.name} ELSE loadingItems
    /\ lockOne' = (lockOne /\ ~j.live)
    /\ UNCHANGED <<mounted, checkingAll, lockAll, steps>>

\* check_media_unlock answers, with the rows of the checks that did not break.
AllAnswers(j, result) == AllEnds(j) /\ Show(result, j.live)
OneAnswers(j, result) ==
    /\ OneEnds(j)
    /\ IF j.name \in DOMAIN result
       THEN Show([m \in DOMAIN j.with |-> IF m = j.name THEN result[m] ELSE j.with[m]], j.live)
       ELSE UNCHANGED <<rows, disk, others>>

\* It fails, or does not answer in time: a later answer is for nobody.
CheckFails(j) == (AllEnds(j) \/ OneEnds(j)) /\ UNCHANGED <<rows, disk, others>>

Next ==
    \/ Mount \/ Unmount \/ CheckAllMedia \/ \E m \in Names : CheckSingleMedia(m)
    \/ \E j \in jobs :
          \/ CheckFails(j) \/ \E answers \in BOOLEAN : GetUnlockItems(j, answers)
          \/ \E result \in Rows(Checked, Media) : AllAnswers(j, result) \/ OneAnswers(j, result)

Spec == Init /\ [][Next]_vars

-----------------------------------------------------------------------------
(* Properties.                                                             *)

\* What the page says of its checks ends with them, and so does what keeps others from
\* starting (unlock.tsx:224, 249).
ChecksEnd ==
    /\ checkingAll \/ lockAll => checkingAll /\ lockAll /\ \E j \in jobs : j.live /\ j.does = "all"
    /\ \A m \in loadingItems : lockOne /\ \E j \in jobs : j.live /\ j.does = "one" /\ j.name = m
    /\ lockOne => loadingItems # {}

\* The rows that are shown are those that are stored, unless a page that is gone has
\* stored others (unlock.tsx:186, 233, 271).
RowsStored == mounted /\ ~others => rows = Dedupe(disk)
=============================================================================
