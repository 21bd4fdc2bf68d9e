-------------------------------- MODULE Draft --------------------------------
(***************************************************************************)
(* `Draft<T>` as crates/clash-verge-draft/src/lib.rs builds it: the        *)
(* committed value and the optional draft are Arc pointers to cells of a   *)
(* shared heap.  Reading clones the pointer, `edit_draft` mutates the      *)
(* draft's cell in place when nobody else points at it and copies it       *)
(* otherwise (Arc::make_mut), `apply` moves the draft's pointer.           *)
(* The module shows that this sharing is invisible: it implements          *)
(* ConfigStore, whose snapshots are values that never change.              *)
(***************************************************************************)
EXTENDS Naturals, Sequences, TLAPS

CONSTANTS Edits, Readers, Modifiers, Cells, None

ASSUME NoneAssumption ==
    /\ None \notin Modifiers
    /\ None \notin Cells
    /\ \A v \in SUBSET Edits : v # None

VARIABLES
    heap,       \* heap[c]: the value stored in cell c
    dataRef,    \* inner.0: the Arc of the committed value
    draftRef,   \* inner.1: the Arc of the draft, or None
    snapRef,    \* snapRef[r]: the Arc reader r holds, or None
    queue, lock, base,
    used, pending, durable, ackedOpen, appliedOpen

history == <<used, pending, durable, ackedOpen, appliedOpen>>
vars == <<heap, dataRef, draftRef, snapRef, queue, lock, base, history>>

Value == SUBSET Edits

(* What one asynchronous closure may do: one new edit, or nothing.          *)
Changes == {{}} \cup {{e} : e \in Edits}

TypeOK ==
    /\ heap \in [Cells -> Value]
    /\ dataRef \in Cells
    /\ draftRef \in Cells \cup {None}
    /\ snapRef \in [Readers -> Cells \cup {None}]
    /\ queue \in Seq(Modifiers)
    /\ lock \in Modifiers \cup {None}
    /\ base \in [Modifiers -> Value]
    /\ used \in Value /\ pending \in Value /\ durable \in Value
    /\ ackedOpen \in Value /\ appliedOpen \in Value

(* A cell no Arc points at: the allocator may hand it out.                 *)
Fresh(c) ==
    /\ c \in Cells
    /\ c # dataRef /\ c # draftRef
    /\ \A r \in Readers : snapRef[r] # c

Init ==
    /\ heap = [c \in Cells |-> {}]
    /\ dataRef \in Cells /\ draftRef = None
    /\ snapRef = [r \in Readers |-> None]
    /\ queue = <<>> /\ lock = None
    /\ base = [m \in Modifiers |-> {}]
    /\ used = {} /\ pending = {} /\ durable = {}
    /\ ackedOpen = {} /\ appliedOpen = {}

LatestRef == IF draftRef = None THEN dataRef ELSE draftRef

Waiting(m) == \E i \in 1..Len(queue) : queue[i] = m

(* Arc::make_mut on the taken draft pointer clones the value when another  *)
(* Arc points at its cell: the committed slot (the draft was just opened   *)
(* as a clone of it) or a reader.                                          *)
SharedWithData == draftRef = None       \* mutant: readers are forgotten
Shared == draftRef = None \/ \E r \in Readers : snapRef[r] = draftRef

-----------------------------------------------------------------------------
EditDraft(e) ==
    /\ e \in Edits \ used
    /\ \/ /\ ~Shared
          /\ heap' = [heap EXCEPT ![draftRef] = @ \cup {e}]
          /\ draftRef' = draftRef
       \/ /\ Shared
          /\ \E c \in Cells :
                /\ Fresh(c)
                /\ heap' = [heap EXCEPT ![c] = heap[LatestRef] \cup {e}]
                /\ draftRef' = c
    /\ used' = used \cup {e}
    /\ pending' = pending \cup {e}
    /\ ackedOpen' = IF draftRef = None THEN {} ELSE ackedOpen
    /\ UNCHANGED <<dataRef, snapRef, queue, lock, base, durable, appliedOpen>>

(* Mutant: apply clones the draft's Arc instead of taking it.              *)
ApplyKeepsDraft ==
    /\ draftRef # None
    /\ dataRef' = draftRef
    /\ pending' = {}
    /\ UNCHANGED <<heap, draftRef, snapRef, queue, lock, base, used, durable, ackedOpen, appliedOpen>>

Apply ==
    /\ draftRef # None
    /\ dataRef' = draftRef
    /\ draftRef' = None
    /\ pending' = {}
    /\ durable' = (durable \ ackedOpen) \cup pending
    /\ appliedOpen' = appliedOpen \cup pending
    /\ UNCHANGED <<heap, snapRef, queue, lock, base, used, ackedOpen>>

Discard ==
    /\ draftRef # None
    /\ draftRef' = None
    /\ pending' = {}
    /\ UNCHANGED <<heap, dataRef, snapRef, queue, lock, base, used, durable, ackedOpen, appliedOpen>>

ReadData(r) ==
    /\ snapRef' = [snapRef EXCEPT ![r] = dataRef]
    /\ UNCHANGED <<heap, dataRef, draftRef, queue, lock, base, history>>

ReadLatest(r) ==
    /\ snapRef' = [snapRef EXCEPT ![r] = LatestRef]
    /\ UNCHANGED <<heap, dataRef, draftRef, queue, lock, base, history>>

DropSnapshot(r) ==
    /\ snapRef[r] # None
    /\ snapRef' = [snapRef EXCEPT ![r] = None]
    /\ UNCHANGED <<heap, dataRef, draftRef, queue, lock, base, history>>

ModifyRequest(m) ==
    /\ ~Waiting(m) /\ lock # m
    /\ queue' = Append(queue, m)
    /\ UNCHANGED <<heap, dataRef, draftRef, snapRef, lock, base, history>>

(* `local` is a clone of the committed T, not of its Arc.                  *)
ModifyBegin(m) ==
    /\ lock = None
    /\ queue # <<>> /\ Head(queue) = m
    /\ queue' = Tail(queue)
    /\ lock' = m
    /\ base' = [base EXCEPT ![m] = heap[dataRef]]
    /\ appliedOpen' = {}
    /\ UNCHANGED <<heap, dataRef, draftRef, snapRef, used, pending, durable, ackedOpen>>

(* Arc::from(new_local) allocates a cell of its own.                       *)
ModifyCommit(m, new) ==
    /\ lock = m
    /\ new \in SUBSET (Edits \ used)
    /\ \E c \in Cells :
          /\ Fresh(c)
          /\ heap' = [heap EXCEPT ![c] = base[m] \cup new]
          /\ dataRef' = c
    /\ lock' = None
    /\ used' = used \cup new
    /\ durable' = (durable \ appliedOpen) \cup new
    /\ ackedOpen' = ackedOpen \cup new
    /\ UNCHANGED <<draftRef, snapRef, queue, base, pending, appliedOpen>>

ModifyFail(m) ==
    /\ lock = m
    /\ lock' = None
    /\ UNCHANGED <<heap, dataRef, draftRef, snapRef, queue, base, history>>

ModifyCancel(m) ==
    /\ \E i \in 1..Len(queue) :
          /\ queue[i] = m
          /\ queue' = [j \in 1..(Len(queue) - 1) |-> queue[IF j < i THEN j ELSE j + 1]]
    /\ UNCHANGED <<heap, dataRef, draftRef, snapRef, lock, base, history>>

Next ==
    \/ \E e \in Edits : EditDraft(e)
    \/ Apply
    \/ Discard
    \/ \E r \in Readers : ReadData(r) \/ ReadLatest(r) \/ DropSnapshot(r)
    \/ \E m \in Modifiers :
          \/ ModifyRequest(m) \/ ModifyBegin(m)
          \/ \E new \in Changes : ModifyCommit(m, new)
          \/ ModifyFail(m) \/ ModifyCancel(m)

Spec == Init /\ [][Next]_vars

-----------------------------------------------------------------------------
(* What each pointer reads as.                                             *)
Deref(ref) == IF ref = None THEN None ELSE heap[ref]

Store == INSTANCE ConfigStore WITH
    data  <- heap[dataRef],
    draft <- Deref(draftRef),
    snap  <- [r \in Readers |-> Deref(snapRef[r])]

(* The copy-on-write representation implements the store of values: the    *)
(* in-place mutation of edit_draft is seen by nobody but the draft.        *)
ImplementsStore == Store!Spec

(* The draft never shares the cell of the committed value: otherwise an    *)
(* in-place edit would be published before apply, or survive a discard.    *)
DraftApart == draftRef # dataRef

Inv == TypeOK /\ DraftApart

(* A reader's snapshot is frozen: as long as it keeps the same Arc, the    *)
(* value behind it stays what it was, whatever edits happen meanwhile.     *)
SnapshotFrozen ==
    [][\A r \in Readers :
         snapRef[r] # None /\ snapRef'[r] = snapRef[r]
            => heap'[snapRef[r]] = heap[snapRef[r]]]_vars

-----------------------------------------------------------------------------
(* The store that the pointers implement, for any heap.                    *)

(* The committed cell and the draft's cell are distinct from the start.    *)
LEMMA InvInit == Init => Inv
  BY NoneAssumption DEF Init, Inv, TypeOK, Value, DraftApart

(* No step makes the draft share the cell of the committed value.          *)
LEMMA InvNext == Inv /\ [Next]_vars => Inv'
  <1> SUFFICES ASSUME Inv, [Next]_vars PROVE Inv'
    OBVIOUS
  <1> USE NoneAssumption DEF Inv, TypeOK, Value, DraftApart
  <1>1. ASSUME NEW e \in Edits, EditDraft(e) PROVE Inv'
    BY <1>1 DEF EditDraft, Shared, Fresh, LatestRef
  <1>2. CASE Apply
    BY <1>2 DEF Apply
  <1>3. CASE Discard
    BY <1>3 DEF Discard
  <1>4. ASSUME NEW r \in Readers, ReadData(r) \/ ReadLatest(r) \/ DropSnapshot(r)
        PROVE  Inv'
    BY <1>4 DEF ReadData, ReadLatest, DropSnapshot, LatestRef, history
  <1>5. ASSUME NEW m \in Modifiers, ModifyRequest(m) PROVE Inv'
    BY <1>5 DEF ModifyRequest, history
  <1>6. ASSUME NEW m \in Modifiers, ModifyBegin(m) PROVE Inv'
    BY <1>6 DEF ModifyBegin
  <1>7. ASSUME NEW m \in Modifiers, NEW new \in SUBSET Edits, ModifyCommit(m, new)
        PROVE  Inv'
    BY <1>7 DEF ModifyCommit, Fresh
  <1>8. ASSUME NEW m \in Modifiers, ModifyFail(m) PROVE Inv'
    BY <1>8 DEF ModifyFail, history
  <1>9. ASSUME NEW m \in Modifiers, ModifyCancel(m) PROVE Inv'
    BY <1>9 DEF ModifyCancel, history
  <1>10. CASE UNCHANGED vars
    BY <1>10 DEF vars, history
  <1> QED
    BY <1>1, <1>2, <1>3, <1>4, <1>5, <1>6, <1>7, <1>8, <1>9, <1>10 DEF Next, Changes

(* Types hold and the draft stays apart from the committed value.          *)
THEOREM DraftInvariant == Spec => []Inv
  BY InvInit, InvNext, PTL DEF Spec

-----------------------------------------------------------------------------
(* A snapshot's cell is never written: the step that edits in place edits  *)
(* a cell no reader points at, the others write a fresh cell.              *)
LEMMA HeldCellsKept ==
    ASSUME Inv, [Next]_vars, NEW r \in Readers, snapRef[r] # None
    PROVE  heap'[snapRef[r]] = heap[snapRef[r]]
  <1> USE NoneAssumption DEF Inv, TypeOK, Value
  <1>1. ASSUME NEW e \in Edits, EditDraft(e)
        PROVE  heap'[snapRef[r]] = heap[snapRef[r]]
    BY <1>1 DEF EditDraft, Shared, Fresh
  <1>2. ASSUME NEW m \in Modifiers, NEW new \in SUBSET Edits, ModifyCommit(m, new)
        PROVE  heap'[snapRef[r]] = heap[snapRef[r]]
    BY <1>2 DEF ModifyCommit, Fresh
  <1>3. ASSUME UNCHANGED heap
        PROVE  heap'[snapRef[r]] = heap[snapRef[r]]
    BY <1>3
  <1> QED
    BY <1>1, <1>2, <1>3 DEF Next, Changes, vars, Apply, Discard, ReadData, ReadLatest,
       DropSnapshot, ModifyRequest, ModifyBegin, ModifyFail, ModifyCancel

(* A reader that keeps its Arc keeps the value it read.                    *)
THEOREM SnapshotsFrozen == Spec => SnapshotFrozen
  <1>1. Inv /\ [Next]_vars =>
          [\A r \in Readers : snapRef[r] # None /\ snapRef'[r] = snapRef[r]
             => heap'[snapRef[r]] = heap[snapRef[r]]]_vars
    BY HeldCellsKept
  <1> QED BY <1>1, DraftInvariant, PTL DEF Spec, SnapshotFrozen

-----------------------------------------------------------------------------
(* The initial pointers read as the store's initial values.                *)
LEMMA RefinesInit == Init => Store!Init
  BY NoneAssumption DEF Init, Store!Init, Deref

(* `edit_draft` on the heap is edit_draft on values: in place or copied.   *)
LEMMA RefinesEdit ==
    ASSUME Inv, NEW e \in Edits, EditDraft(e)
    PROVE  Store!EditDraft(e)
  <1> USE NoneAssumption DEF Inv, TypeOK, Value, DraftApart, Deref
  <1>1. heap'[dataRef'] = heap[dataRef]
    BY DEF EditDraft, Fresh
  <1>2. draftRef' # None /\ heap'[draftRef'] = heap[LatestRef] \cup {e}
    BY DEF EditDraft, Fresh, LatestRef, Shared
  <1>3. Store!Latest = heap[LatestRef]
    BY DEF Store!Latest, LatestRef
  <1>4. \A r \in Readers : Deref(snapRef[r])' = Deref(snapRef[r])
    BY DEF EditDraft, Fresh, Shared
  <1>5. (draftRef = None) <=> (Deref(draftRef) = None)
    BY DEF Deref
  <1> QED BY <1>1, <1>2, <1>3, <1>4, <1>5 DEF EditDraft, Store!EditDraft

(* A modification's result lands in a fresh cell, so nothing else changes. *)
LEMMA RefinesCommit ==
    ASSUME Inv, NEW m \in Modifiers, NEW new \in SUBSET Edits, ModifyCommit(m, new)
    PROVE  Store!ModifyCommit(m, new)
  <1> USE NoneAssumption DEF Inv, TypeOK, Value, DraftApart, Deref
  <1>1. heap'[dataRef'] = base[m] \cup new
    BY DEF ModifyCommit, Fresh
  <1>2. Deref(draftRef)' = Deref(draftRef)
    BY DEF ModifyCommit, Fresh
  <1>3. \A r \in Readers : Deref(snapRef[r])' = Deref(snapRef[r])
    BY DEF ModifyCommit, Fresh
  <1> QED BY <1>1, <1>2, <1>3 DEF ModifyCommit, Store!ModifyCommit

(* Every step of the pointers is a step of the values, or a stutter.       *)
LEMMA RefinesNext == Inv /\ [Next]_vars => [Store!Next]_(Store!vars)
  <1> SUFFICES ASSUME Inv, [Next]_vars PROVE [Store!Next]_(Store!vars)
    OBVIOUS
  <1> USE NoneAssumption DEF Inv, TypeOK, Value, DraftApart, Deref
  <1>1. ASSUME NEW e \in Edits, EditDraft(e) PROVE Store!Next
    BY <1>1, RefinesEdit DEF Store!Next
  <1>2. CASE Apply
    <2>1. Store!Apply
      BY <1>2 DEF Apply, Store!Apply
    <2> QED BY <2>1 DEF Store!Next
  <1>3. CASE Discard
    <2>1. Store!Discard
      BY <1>3 DEF Discard, Store!Discard
    <2> QED BY <2>1 DEF Store!Next
  <1>4. ASSUME NEW r \in Readers, ReadData(r) \/ ReadLatest(r) \/ DropSnapshot(r)
        PROVE  Store!Next
    <2>1. CASE ReadData(r)
      BY <2>1 DEF ReadData, Store!ReadData, Store!Next, history, Store!history
    <2>2. CASE ReadLatest(r)
      BY <2>2 DEF ReadLatest, LatestRef, Store!ReadLatest, Store!Latest, Store!Next,
         history, Store!history
    <2>3. CASE DropSnapshot(r)
      BY <2>3 DEF DropSnapshot, Store!DropSnapshot, Store!Next, history, Store!history
    <2> QED BY <1>4, <2>1, <2>2, <2>3
  <1>5. ASSUME NEW m \in Modifiers,
               \/ ModifyRequest(m) \/ ModifyBegin(m) \/ ModifyFail(m) \/ ModifyCancel(m)
        PROVE  Store!Next
    <2>1. CASE ModifyRequest(m)
      BY <2>1 DEF ModifyRequest, Waiting, Store!ModifyRequest, Store!Waiting, Store!Next,
         history, Store!history
    <2>2. CASE ModifyBegin(m)
      BY <2>2 DEF ModifyBegin, Store!ModifyBegin, Store!BeginWith, Store!Next
    <2>3. CASE ModifyFail(m)
      BY <2>3 DEF ModifyFail, Store!ModifyFail, Store!Next, history, Store!history
    <2>4. CASE ModifyCancel(m)
      BY <2>4 DEF ModifyCancel, Store!ModifyCancel, Store!Without, Store!Next,
         history, Store!history
    <2> QED BY <1>5, <2>1, <2>2, <2>3, <2>4
  <1>6. ASSUME NEW m \in Modifiers, NEW new \in Changes, ModifyCommit(m, new)
        PROVE  Store!Next
    <2>1. new \in SUBSET Edits
      BY DEF Changes
    <2>2. Store!ModifyCommit(m, new)
      BY <1>6, <2>1, RefinesCommit
    <2> QED BY <2>2 DEF Store!Next, Changes, Store!Changes
  <1>7. CASE UNCHANGED vars
    BY <1>7 DEF vars, history, Store!vars, Store!storeVars, Store!history
  <1> QED BY <1>1, <1>2, <1>3, <1>4, <1>5, <1>6, <1>7 DEF Next

(* Arc sharing and copy-on-write are invisible to the callers.             *)
THEOREM Refinement == Spec => ImplementsStore
  BY RefinesInit, RefinesNext, DraftInvariant, PTL DEF Spec, ImplementsStore, Store!Spec
=============================================================================
