CONSTANTS
    MaxPid = 1
    MaxGen = 1
SPECIFICATION Spec
INVARIANT
    NoDualCore
CHECK_DEADLOCK FALSE
