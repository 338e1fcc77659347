SPECIFICATION Spec
CONSTANTS
    g = g
    h = h
    Cells <- MCCells
    Programs <- Accumulate
    Modulus = 3
INVARIANTS
    SameEffects
CHECK_DEADLOCK FALSE
