SPECIFICATION SpecShift
CONSTANTS
    vx = vx
    vy = vy
    Graphs <- OneGraph
    Vars <- MCVars
    Vals = {0, 1}
    unset = unset
    MaxInstrs = 5
PROPERTIES
    ImplementsMemory
CHECK_DEADLOCK FALSE
