CONSTANTS
    Clones = {a, b}
    Nobody = nobody
    Absent = absent
    Plans <- OneMemory
    CaptureMayFail = FALSE
    Strategies = {"", "theirs"}
SPECIFICATION SyncSpec
INVARIANT SyncConcludes
