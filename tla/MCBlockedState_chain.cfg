SPECIFICATION FairSpec
CONSTANTS
    w = w
    p = p
    c = c
    b = b
    Issues = {w, p, c, b}
    WispIds = {}
    MayRelate <- Chain
    Gaps = {}
INVARIANTS IsBlockedConsistent BlockedForAReason NoBlockingCycle BlockedWorkExplained
PROPERTIES LoopTerminates
