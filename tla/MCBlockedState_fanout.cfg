SPECIFICATION Spec
CONSTANTS
    w = w
    p = p
    c = c
    b = b
    Issues = {w, p, c, b}
    WispIds = {c}
    MayRelate <- Fanout
    Gaps = {}
INVARIANTS DirectionsAgree FreeWorkIsFree
