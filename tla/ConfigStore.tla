----------------------------- MODULE ConfigStore -----------------------------
(***************************************************************************)
(* What `Draft<T>` (crates/clash-verge-draft) promises its callers, as a   *)
(* store of VALUES: one committed value, an optional draft, snapshots held *)
(* by readers, and asynchronous modifications of the committed value that  *)
(* are serialised by `async_modify_lock`.                                  *)
(*                                                                         *)
(* A value of type T is represented by the set of edits whose effect it    *)
(* contains; every closure that changes something adds an edit of its own. *)
(* Module Draft is the Arc/copy-on-write representation of this store.     *)
(***************************************************************************)
EXTENDS Naturals, Sequences, TLAPS

CONSTANTS
    Edits,      \* the distinct effects closures may have
    Readers,    \* callers that keep a snapshot across an await
    Modifiers,  \* tasks that call with_data_modify
    None        \* "no draft", "no snapshot", "lock free"

ASSUME NoneAssumption ==
    /\ None \notin Modifiers
    /\ \A v \in SUBSET Edits : v # None

VARIABLES
    data,       \* the committed value
    draft,      \* the draft, or None
    snap,       \* snap[r]: the value reader r holds, or None
    queue,      \* tasks waiting for async_modify_lock, in FIFO order
    lock,       \* the task that holds async_modify_lock, or None
    base        \* base[m]: the clone of the committed value m works on

(* History variables: they record which changes were acknowledged, and are *)
(* read by no guard but the one that makes every edit new.                 *)
VARIABLES
    used,         \* edits already made
    pending,      \* edits of the open draft
    durable,      \* acknowledged changes that no overlapping commit dropped
    ackedOpen,    \* modifications acknowledged since the draft was opened
    appliedOpen   \* draft edits applied since the lock holder cloned its base

storeVars == <<data, draft, snap, queue, lock, base>>
history == <<used, pending, durable, ackedOpen, appliedOpen>>
vars == <<storeVars, history>>

Value == SUBSET Edits

(* What one asynchronous closure may do: one new edit, or nothing.          *)
Changes == {{}} \cup {{e} : e \in Edits}

TypeOK ==
    /\ data \in Value
    /\ draft \in Value \cup {None}
    /\ snap \in [Readers -> Value \cup {None}]
    /\ queue \in Seq(Modifiers)
    /\ lock \in Modifiers \cup {None}
    /\ base \in [Modifiers -> Value]
    /\ used \in Value /\ pending \in Value /\ durable \in Value
    /\ ackedOpen \in Value /\ appliedOpen \in Value

Init ==
    /\ data = {} /\ draft = None
    /\ snap = [r \in Readers |-> None]
    /\ queue = <<>> /\ lock = None
    /\ base = [m \in Modifiers |-> {}]
    /\ used = {} /\ pending = {} /\ durable = {}
    /\ ackedOpen = {} /\ appliedOpen = {}

Latest == IF draft = None THEN data ELSE draft

Waiting(m) == \E i \in 1..Len(queue) : queue[i] = m

(* The queue when the task at place i leaves it.                           *)
Without(i) == [j \in 1..(Len(queue) - 1) |-> queue[IF j < i THEN j ELSE j + 1]]

-----------------------------------------------------------------------------
(* Synchronous operations: each runs under the inner RwLock.               *)

EditDraft(e) ==
    /\ e \in Edits \ used
    /\ draft' = Latest \cup {e}
    /\ used' = used \cup {e}
    /\ pending' = pending \cup {e}
    /\ ackedOpen' = IF draft = None THEN {} ELSE ackedOpen
    /\ UNCHANGED <<data, snap, queue, lock, base, durable, appliedOpen>>

Apply ==
    /\ draft # None
    /\ data' = draft
    /\ draft' = None
    /\ pending' = {}
    /\ durable' = (durable \ ackedOpen) \cup pending
    /\ appliedOpen' = appliedOpen \cup pending
    /\ UNCHANGED <<snap, queue, lock, base, used, ackedOpen>>

Discard ==
    /\ draft # None
    /\ draft' = None
    /\ pending' = {}
    /\ UNCHANGED <<data, snap, queue, lock, base, used, durable, ackedOpen, appliedOpen>>

ReadData(r) ==
    /\ snap' = [snap EXCEPT ![r] = data]
    /\ UNCHANGED <<data, draft, queue, lock, base, history>>

ReadLatest(r) ==
    /\ snap' = [snap EXCEPT ![r] = Latest]
    /\ UNCHANGED <<data, draft, queue, lock, base, history>>

DropSnapshot(r) ==
    /\ snap[r] # None
    /\ snap' = [snap EXCEPT ![r] = None]
    /\ UNCHANGED <<data, draft, queue, lock, base, history>>

-----------------------------------------------------------------------------
(* with_data_modify: lock().await, clone the committed value, run the      *)
(* asynchronous closure, store its result.  The future may be dropped at   *)
(* each await (tokio::time::timeout in the callers).                       *)

ModifyRequest(m) ==
    /\ ~Waiting(m) /\ lock # m
    /\ queue' = Append(queue, m)
    /\ UNCHANGED <<data, draft, snap, lock, base, history>>

BeginWith(m, clone) ==
    /\ lock = None
    /\ queue # <<>> /\ Head(queue) = m
    /\ queue' = Tail(queue)
    /\ lock' = m
    /\ base' = [base EXCEPT ![m] = clone]
    /\ appliedOpen' = {}
    /\ UNCHANGED <<data, draft, snap, used, pending, durable, ackedOpen>>

(* Mutants: the clone is an older one, or one of the draft.                *)
BeginStale(m) == BeginWith(m, base[m])
BeginFromLatest(m) == BeginWith(m, Latest)

(* Mutant: a mutex that wakes any waiter, as parking_lot's does.           *)
BeginUnfair(m) ==
    /\ lock = None
    /\ \E i \in 1..Len(queue) : queue[i] = m /\ queue' = Without(i)
    /\ lock' = m
    /\ UNCHANGED <<data, draft, snap, base, history>>

ModifyBegin(m) == BeginWith(m, data)

(* The closure returns Ok: a changed value, or the same one (save_file).   *)
ModifyCommit(m, new) ==
    /\ lock = m
    /\ new \in SUBSET (Edits \ used)
    /\ data' = base[m] \cup new
    /\ lock' = None
    /\ used' = used \cup new
    /\ durable' = (durable \ appliedOpen) \cup new
    /\ ackedOpen' = ackedOpen \cup new
    /\ UNCHANGED <<draft, snap, queue, base, pending, appliedOpen>>

(* The closure returns Err, or the future is dropped while it runs.        *)
ModifyFail(m) ==
    /\ lock = m
    /\ lock' = None
    /\ UNCHANGED <<data, draft, snap, queue, base, history>>

(* The future is dropped while it waits for the lock.                      *)
ModifyCancel(m) ==
    /\ \E i \in 1..Len(queue) :
          /\ queue[i] = m
          /\ queue' = Without(i)
    /\ UNCHANGED <<data, draft, snap, lock, base, history>>

Next ==
    \/ \E e \in Edits : EditDraft(e)
    \/ Apply
    \/ Discard
    \/ \E r \in Readers : ReadData(r) \/ ReadLatest(r) \/ DropSnapshot(r)
    \/ \E m \in Modifiers :
          \/ ModifyRequest(m) \/ ModifyBegin(m)
          \/ \E new \in Changes : ModifyCommit(m, new)
          \/ ModifyFail(m) \/ ModifyCancel(m)

Spec == Init /\ [][Next]_vars

(* tokio's Mutex is FIFO and a released lock wakes its head waiter; every  *)
(* closure the program passes ends (file writes) or is dropped.            *)
ModifyEnd(m) ==
    \/ \E new \in Changes : ModifyCommit(m, new)
    \/ ModifyFail(m)

Fairness ==
    \A m \in Modifiers : WF_vars(ModifyBegin(m)) /\ WF_vars(ModifyEnd(m))

FairSpec == Spec /\ Fairness

-----------------------------------------------------------------------------
(* Every acknowledged change -- a modification that returned Ok, an edit   *)
(* that was applied -- stays in the committed value, unless its            *)
(* transaction overlapped another commit in one of two ways: it was        *)
(* acknowledged while a draft was open that was applied later, or applied  *)
(* while a modification ran.  Nothing else is ever lost.                   *)
NoLostChange == durable \subseteq data

(* What an open draft has collected reaches no reader of the committed     *)
(* value before it is applied (an edit can still be discarded).            *)
DraftIsPrivate ==
    /\ pending \cap data = {}
    /\ draft = None => pending = {}
    /\ draft # None => pending \subseteq draft

(* The strengthening that makes NoLostChange inductive: the two values a   *)
(* later commit may put in place already hold what they must keep.         *)
Inv ==
    /\ TypeOK
    /\ NoLostChange
    /\ draft # None => durable \ ackedOpen \subseteq draft
    /\ lock # None => durable \ appliedOpen \subseteq base[lock]
    /\ DraftIsPrivate
    /\ data \subseteq used /\ pending \subseteq used
    /\ draft # None => draft \subseteq used
    /\ lock # None => base[lock] \subseteq used /\ base[lock] \cap pending = {}

(* A task that waits for async_modify_lock gets it or gives up: no failed  *)
(* or dropped closure keeps the lock.                                      *)
ModifyServed == \A m \in Modifiers : Waiting(m) ~> ~Waiting(m)

-----------------------------------------------------------------------------
(* The invariant, for any sets of edits, readers and tasks.                *)

(* The initial state satisfies the inductive invariant.                    *)
LEMMA InvInit == Init => Inv
  BY NoneAssumption DEF Init, Inv, TypeOK, Value, NoLostChange, DraftIsPrivate

(* The synchronous operations of the draft keep the invariant.             *)
LEMMA InvSync ==
    ASSUME Inv, \/ \E e \in Edits : EditDraft(e)
                \/ Apply \/ Discard
    PROVE  Inv'
  <1> USE NoneAssumption DEF Inv, TypeOK, Value, NoLostChange, DraftIsPrivate
  <1>1. ASSUME NEW e \in Edits, EditDraft(e) PROVE Inv'
    BY <1>1 DEF EditDraft, Latest
  <1>2. CASE Apply
    BY <1>2 DEF Apply
  <1>3. CASE Discard
    BY <1>3 DEF Discard
  <1> QED BY <1>1, <1>2, <1>3

(* Reading touches nothing but the reader's snapshot.                      *)
LEMMA InvRead ==
    ASSUME Inv, NEW r \in Readers, ReadData(r) \/ ReadLatest(r) \/ DropSnapshot(r)
    PROVE  Inv'
  BY NoneAssumption DEF Inv, TypeOK, Value, NoLostChange, DraftIsPrivate,
     ReadData, ReadLatest, DropSnapshot, Latest, history

(* Each step of an asynchronous modification keeps the invariant.          *)
LEMMA InvModify ==
    ASSUME Inv, NEW m \in Modifiers,
           \/ ModifyRequest(m) \/ ModifyBegin(m)
           \/ \E new \in SUBSET Edits : ModifyCommit(m, new)
           \/ ModifyFail(m) \/ ModifyCancel(m)
    PROVE  Inv'
  <1> USE NoneAssumption DEF Inv, TypeOK, Value, NoLostChange, DraftIsPrivate
  <1>1. CASE ModifyRequest(m)
    BY <1>1 DEF ModifyRequest, history
  <1>2. CASE ModifyBegin(m)
    BY <1>2 DEF ModifyBegin, BeginWith
  <1>3. ASSUME NEW new \in SUBSET Edits, ModifyCommit(m, new) PROVE Inv'
    BY <1>3 DEF ModifyCommit
  <1>4. CASE ModifyFail(m)
    BY <1>4 DEF ModifyFail, history
  <1>5. CASE ModifyCancel(m)
    BY <1>5 DEF ModifyCancel, Without, history
  <1> QED BY <1>1, <1>2, <1>3, <1>4, <1>5

(* The invariant is inductive.                                             *)
LEMMA InvNext == Inv /\ [Next]_vars => Inv'
  <1> SUFFICES ASSUME Inv, [Next]_vars PROVE Inv'
    OBVIOUS
  <1>1. CASE UNCHANGED vars
    BY <1>1 DEF vars, storeVars, history, Inv, TypeOK, NoLostChange, DraftIsPrivate
  <1>2. CASE Next
    BY <1>2, InvSync, InvRead, InvModify DEF Next, Changes
  <1> QED BY <1>1, <1>2

(* Every reachable state satisfies the inductive invariant.                *)
THEOREM InvHolds == Spec => []Inv
  BY InvInit, InvNext, PTL DEF Spec

(* No acknowledged change is lost but through an overlapping commit.       *)
THEOREM ChangesSurvive == Spec => []NoLostChange
  <1>1. Inv => NoLostChange
    BY DEF Inv
  <1> QED BY <1>1, InvHolds, PTL

(* An open draft's edits are invisible in the committed value.             *)
THEOREM DraftsArePrivate == Spec => []DraftIsPrivate
  <1>1. Inv => DraftIsPrivate
    BY DEF Inv
  <1> QED BY <1>1, InvHolds, PTL
=============================================================================
