CONSTANTS
    Clones = {a, b}
    Nobody = nobody
    Absent = absent
    Plans <- OneOfEach
    CaptureMayFail = FALSE
SPECIFICATION SettleSpec
INVARIANT LateWorkKept
