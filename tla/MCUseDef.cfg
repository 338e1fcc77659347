SPECIFICATION Spec
CONSTANTS
    phi = phi
    add = add
    b1 = b1
    b2 = b2
    NoValue = NoValue
    Values <- MCValues
    Users <- MCUsers
    Phis <- MCPhis
    Blocks <- MCBlocks
    MaxOperands = 4
    MaxPlain = 2
INVARIANTS
    TypeOK
    PhiShape
    UseListExact
    NoDangling
PROPERTIES
    ReplaceEnds
CHECK_DEADLOCK FALSE
