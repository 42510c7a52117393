SPECIFICATION MergeSpec
CONSTANTS
    w = w
    p = p
    c = c
    Issues = {w, p, c}
    WispIds = {}
    MayRelate <- Family
    Gaps = {}
    MaxBase = 3
    MaxEdits = 1
    SeedCap = 4
    Hook = TRUE
INVARIANTS FlagsFollowMerge
CHECK_DEADLOCK FALSE
