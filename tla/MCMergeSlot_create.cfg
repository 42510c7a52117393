CONSTANTS
    Agents = {a, b}
    Keys = {k}
    None = none
    Solitary = FALSE
SPECIFICATION SlotSpec
INVARIANT HoldersExclude
