CONSTANTS
    Edits = {e1, e2, e3}
    Readers = {r1}
    Modifiers = {m1, m2}
    None = None
SPECIFICATION FairSpec
INVARIANTS
    NoLostChange
    Inv
PROPERTIES
    ModifyServed
CHECK_DEADLOCK FALSE
