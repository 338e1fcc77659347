SPECIFICATION Spec
CONSTANTS
    g = g
    h = h
    Cells <- MCCells
    Programs <- MCPrograms
    Modulus = 3
INVARIANTS
    SameEffects
    EdgesAgree
    NothingInvariantLeft
CHECK_DEADLOCK FALSE
