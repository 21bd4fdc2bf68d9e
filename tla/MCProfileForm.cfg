CONSTANTS
    Uids = {"p", "q"}
    MaxSteps = 5
SPECIFICATION Spec
INVARIANTS OptionsKept
CHECK_DEADLOCK FALSE
