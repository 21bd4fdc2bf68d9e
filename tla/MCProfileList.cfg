CONSTANTS
    Tasks = {t1, t2}
    Profiles = {p1, p2, p3, p4}
    Initial = {p1, p2}
    Edits = {x1}
    Rejected = {p2}
    Kinds = {"import", "deeplink", "delete", "update", "chain"}
    None = None
    NoDraft = NoDraft
    MaxOps = 3
SPECIFICATION Spec
INVARIANTS
    NoLostImport
CHECK_DEADLOCK FALSE
