CONSTANTS
    Edits = {e1, e2}
    Readers = {r1, r2}
    Modifiers = {m1}
    Cells = {c1, c2, c3, c4, c5}
    None = None
SPECIFICATION Spec
INVARIANTS
    Inv
PROPERTIES
    ImplementsStore
    SnapshotFrozen
CHECK_DEADLOCK FALSE
