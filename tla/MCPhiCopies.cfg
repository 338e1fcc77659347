SPECIFICATION SpecBoth
CONSTANTS
    vx = vx
    vy = vy
    Graphs <- MCGraphs
    Vars <- MCVars
    Vals = {0, 1}
    unset = unset
    MaxInstrs = 3
SYMMETRY Swap
INVARIANTS
    StackDepth
    PhisAtFrontier
    CrashOnlyUnset
    VariablesGone
PROPERTIES
    ImplementsMemory
CHECK_DEADLOCK FALSE
