SPECIFICATION Spec
CONSTANTS
    Uid = {a, b}
    Interval = {1, 2}
    Key = {1, 2, 3, 4}
    Task = {t1, t2}
    NoKey = NoKey
    MaxEdits = 2
INVARIANT SettingsScheduled
CHECK_DEADLOCK FALSE
