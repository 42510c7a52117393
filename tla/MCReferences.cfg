SPECIFICATION EdgesSpec
CONSTANTS
    a = a
    b = b
    c = c
    Ids = {a, b, c}
    Foreign <- OtherPrefix
    MayRelate <- Related
    Reuse = FALSE
    MaxEdges = 3
    MaxPrefixed = 1
    Nodes = {a, b, c}
    Blank = Blank
    MaxAsked = 2
SYMMETRY Alike
INVARIANTS EdgeIdsDerived TablesAgree CyclesDetected EdgesAnswered
PROPERTIES PromotionKeepsGraph RenameKeepsGraph NoNewOrphans
