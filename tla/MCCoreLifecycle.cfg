CONSTANTS
    MaxPid = 3
    MaxGen = 2
SPECIFICATION FairSpec
CONSTRAINT SidecarsOrSessions
INVARIANTS
    SessionFresh
    NoFakeSidecar
    OneSidecar
PROPERTIES
    OperationEnds
CHECK_DEADLOCK FALSE
