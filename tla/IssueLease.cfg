SPECIFICATION FairSpec
CONSTANTS
    Workers = {w1, w2}
    Supervisors = {s1, s2}
    Issues = {i1}
    NoOne = NoOne
    NoTime = NoTime
    TTL = 2
    Grace = 1
    Windows = {1, 2}
    UpdateStatuses = {"open", "in_progress", "closed"}
    MaxClock = 6
INVARIANTS PromiseKept
PROPERTIES StrandedWorkRecovered
