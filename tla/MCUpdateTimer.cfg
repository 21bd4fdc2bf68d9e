SPECIFICATION FairSpec
CONSTANTS
    Uid = {a}
    Interval = {1, 2}
    Key = {1, 2, 3, 4}
    Task = {t1}
    NoKey = NoKey
    MaxEdits = 5
INVARIANTS Inv OneTurn SettingsScheduled
PROPERTY UpdatesRecur
CHECK_DEADLOCK FALSE
