SPECIFICATION ComponentsSpec
CONSTANTS
    Parents = {p1}
    MaxChild = 3
    ChildGaps = {}
    Agents = {a, b}
    Keys = {k}
    None = none
    Solitary = TRUE
    Latest = 3
    Shipped = 2
    LatestIgnored = 2
    Marker = 1
    Touches <- Altered
    AuxRows = {r1, r2}
    DepRows = {d1}
    MaxEdits = 2
    MaxInterrupts = 2
    MaxId = 3
    Names = {n1}
    HookedIssues = {x, y}
    MaxChanges = 4
    Stores = {s1, s2}
    DataRows = {row}
    ConfigRows = {}
    Topics = {"topic"}
    Requested = {"main", "topic"}
    Prefix = prefix
    Free = Free
    Closed = Closed
    MaxTroubles = 2
    MaxRewrites = 2
INVARIANTS
    HandedOnce ReservedFree HolderCanRelease WaitersKept
    RekeyedWhereDue CommittedCursorHonest
    OnlyOutrunReplaced HooksFollowCommits BranchesAccounted
PROPERTIES
    IsExclusiveSlot OwnChangesOnly CommittedRowsSurvive
SYMMETRY Symmetry
