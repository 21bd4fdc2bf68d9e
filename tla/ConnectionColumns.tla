------------------------- MODULE ConnectionColumns -------------------------
(***************************************************************************)
(* The columns of the table of connections                                 *)
(* (src/src/components/connection/connection-table.tsx) and the dialog     *)
(* that shows, hides and reorders them (connection-column-manager.tsx).    *)
(* Order, visibility and widths are kept in localStorage, where a version  *)
(* with other columns may have left them.                                  *)
(***************************************************************************)
EXTENDS Sequences, Naturals, SequencesExt

CONSTANTS
    BaseColumns,    \* sequence of the columns there are
    OldColumns,     \* columns a version before has had
    MaxSteps        \* bound: what the user does

Fields == ToSet(BaseColumns)

VARIABLES
    mounted,    \* the effect that reconciles the order has run
    order, hidden, widths,  \* localStorage
    sorting,    \* column and direction
    manager,    \* whether the dialog is open
    visibleCount,   \* of the dialog: memoised until the columns are in another order
    tick, cells,    \* the shared timer of the relative times, and its listeners
    steps

stored == <<order, hidden, widths>>
vars == <<mounted, stored, sorting, manager, visibleCount, tick, cells, steps>>

Unsorted == <<>>
Visible == Fields \ hidden

TypeOK ==
    /\ {mounted, manager, tick} \subseteq BOOLEAN
    /\ ToSet(order) \subseteq Fields \cup OldColumns /\ hidden \subseteq Fields \cup OldColumns
    /\ widths \subseteq Fields /\ visibleCount \in 0..Len(BaseColumns) /\ cells \in 0..1

Init ==
    /\ mounted = FALSE
    /\ order \in {<<>>} \cup {Reverse(BaseColumns), SetToSeq(OldColumns) \o Tail(BaseColumns)}
    /\ hidden \in {h \in SUBSET (Fields \cup OldColumns) : Fields \ h # {}}
    /\ widths = {} /\ sorting = Unsorted /\ manager = FALSE /\ visibleCount = Len(BaseColumns)
    /\ tick = FALSE /\ cells = 0 /\ steps = 0

User == mounted /\ steps < MaxSteps /\ steps' = steps + 1

-----------------------------------------------------------------------------
(* The table.                                                              *)

\* What is stored of the columns there are, and then those that are missing.
ReconcileColumnOrder(storedOrder, baseFields) ==
    LET Known(f) == f \in ToSet(baseFields)
        Missing(f) == f \notin ToSet(storedOrder)
    IN  SelectSeq(storedOrder, Known) \o SelectSeq(baseFields, Missing)

Mount ==
    /\ ~mounted /\ mounted' = TRUE
    /\ order' = ReconcileColumnOrder(order, BaseColumns)
    /\ visibleCount' = Len(SelectSeq(BaseColumns, LAMBDA f : f \in Visible))
    /\ UNCHANGED <<hidden, widths, sorting, manager, tick, cells, steps>>

\* Mutant of the next definition: the last column may be hidden.
HideAny(next) == hidden' = next \cap Fields

\* handleColumnVisibilityChange: not the last one; columns there are not any more
\* are forgotten.
ChangeVisibility(next) ==
    hidden' = IF Fields \subseteq next THEN hidden ELSE next \cap Fields

\* handleColumnOrderChange; the columns of the dialog are counted anew.
ChangeOrder(next) ==
    /\ order' = ReconcileColumnOrder(next, BaseColumns)
    /\ visibleCount' = Len(SelectSeq(order', LAMBDA f : f \in Visible))

\* A click on a header sorts, in the other direction, and no more.
Sort(f) ==
    /\ f \in Visible /\ ~manager /\ User
    /\ sorting' = IF sorting = <<f, "desc">> THEN <<f, "asc">>
                  ELSE IF sorting = <<f, "asc">> THEN Unsorted ELSE <<f, "desc">>
    /\ UNCHANGED <<mounted, stored, manager, visibleCount, tick, cells>>

Resize(f) ==
    /\ f \in Visible /\ ~manager /\ User /\ widths' = widths \cup {f}
    /\ UNCHANGED <<mounted, order, hidden, sorting, manager, visibleCount, tick, cells>>

-----------------------------------------------------------------------------
(* The relative times: one timer for all cells that show one.              *)

CellShown ==
    /\ mounted /\ cells = 0 /\ "time" \in Visible /\ cells' = 1 /\ tick' = TRUE
    /\ UNCHANGED <<mounted, stored, sorting, manager, visibleCount, steps>>

CellGone ==
    /\ cells = 1 /\ cells' = 0 /\ tick' = FALSE
    /\ UNCHANGED <<mounted, stored, sorting, manager, visibleCount, steps>>

-----------------------------------------------------------------------------
(* The dialog.                                                             *)

OpenManager ==
    /\ ~manager /\ User /\ manager' = TRUE
    /\ UNCHANGED <<mounted, stored, sorting, visibleCount, tick, cells>>

CloseManager ==
    /\ manager /\ manager' = FALSE
    /\ UNCHANGED <<mounted, stored, sorting, visibleCount, tick, cells, steps>>

\* The box of a column; the last one's is disabled, by the count.
DisableToggle(f) == f \in Visible /\ visibleCount <= 1

Toggle(f) ==
    /\ manager /\ f \in Fields /\ ~DisableToggle(f) /\ User
    /\ ChangeVisibility(IF f \in hidden THEN hidden \ {f} ELSE hidden \cup {f})
    /\ UNCHANGED <<mounted, order, widths, sorting, manager, visibleCount, tick, cells>>

\* A column is dropped at the place of another.
DragEnd(f, g) ==
    /\ manager /\ f # g /\ User
    /\ \E i, j \in DOMAIN order :
          order[i] = f /\ order[j] = g /\ ChangeOrder(InsertAt(RemoveAt(order, i), j, f))
    /\ UNCHANGED <<mounted, hidden, widths, sorting, manager, tick, cells>>

ResetColumns ==
    /\ manager /\ User /\ ChangeVisibility({}) /\ order' = BaseColumns
    /\ visibleCount' \in {visibleCount, Len(BaseColumns)}
    /\ UNCHANGED <<mounted, widths, sorting, manager, tick, cells>>

-----------------------------------------------------------------------------

Next ==
    \/ Mount \/ OpenManager \/ CloseManager \/ ResetColumns \/ CellShown \/ CellGone
    \/ \E f \in Fields : Sort(f) \/ Resize(f) \/ Toggle(f)
    \/ \E f, g \in Fields : DragEnd(f, g)

Spec == Init /\ [][Next]_vars

-----------------------------------------------------------------------------
(* Properties.                                                             *)

\* Whatever was stored and however columns are hidden, dragged and reset, one of
\* them is shown, and each has one place (connection-table.tsx:436).
ColumnsShown ==
    /\ Visible # {}
    /\ mounted => ToSet(order) = Fields /\ Len(order) = Len(BaseColumns)
=============================================================================
