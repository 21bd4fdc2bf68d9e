CONSTANTS
    Tasks = {t1, t2}
    Profiles = {p1, p2, p3}
    Initial = {p1, p2, p3}
    Edits = {x1}
    Rejected = {p2}
    Kinds = {"switch", "exit"}
    None = None
    NoDraft = NoDraft
    MaxOps = 2
SPECIFICATION FairSpec
INVARIANTS
    IdleAgrees
    SavedAgrees
    Inv
PROPERTIES
    AppliedRuns
    SwitchEnds
CHECK_DEADLOCK FALSE
