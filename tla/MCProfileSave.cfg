CONSTANTS
    Tasks = {t1, t2}
    Profiles = {p1, p2, p3, p4}
    Initial = {p1, p2, p3}
    Edits = {x1}
    Rejected = {p2}
    Kinds = {"switch"}
    None = None
    NoDraft = NoDraft
    MaxOps = 2
SPECIFICATION FairSpec
PROPERTIES
    SavesChangeNothing
CHECK_DEADLOCK FALSE
