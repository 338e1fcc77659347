SPECIFICATION Spec
CONSTANTS
    main = main
    f = f
    g = g
    lib = lib
    NoFunc = NoFunc
    Funcs <- MCFuncs
    Declared = {lib}
    Blocks <- MCBlocks
    block_func <- MCParent
    entry <- MCEntry
    Programs <- MCPrograms
INVARIANTS
    TypeOK
    PuritySound
    NeededStays
    DeadGone
PROPERTIES
    DeadCodeEnds
CHECK_DEADLOCK FALSE
