CONSTANTS
    Groups = {g1, g2}
    Nodes = {n1, n2}
    Members <- AllMembers
    Kind <- Selectors
    MaxPatches = 2
    MaxClicks = 3
    MaxReloads = 1
    Clickers = {c1, c2}
    Views = {v1}
    Reached <- SomeReached
    Checked <- TwoNodes
    Managed = {}
    Helpers = 1
    MaxBusy = 2
    ChainNodes = {"x", "y", "z"}
    ChainGroups = {g}
    FirstGroup = g
    Brought <- SomeProfiles
    Buttons = {b1, b2}
    ChainSteps = 4
    StoredChains <- OneOfEachLength
    Delays <- Latencies
    CardUids = {"p", "q"}
    CardGroupsOf <- CardGroups
    CardPrimary <- CardMains
    CardMatch <- CardRules
    CardMemory <- Remembered
    CardResults = {0, 5}
    CardTimeout = 10
    CardSteps = 3
    CardTests = 1
SPECIFICATION PageSpec
CONSTRAINT OneOrder
INVARIANTS
    LatestWins
    NoMarkLeft
    ChainFound
    DialersEnd
    RowsComplete
    CardAgrees
PROPERTIES
    LastChoiceWins
    SortedAfterCheck
CHECK_DEADLOCK FALSE
