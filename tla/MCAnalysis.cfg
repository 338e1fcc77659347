SPECIFICATION SpecMC
CONSTANTS
    MaxFuncs = 2
    MaxBlocks = 11
    AnyShape = 7
    MaxDepth = 5
INVARIANTS
    Typed
    EdgesMirror
    CompleteIsTerminated
    CyclesHaveHeaders
    IdomCorrect
    DominatorsOnChain
    IdomClimbs
    FrontierExact
    OrderDecidesDominance
    CrashOnlyAtDeadPred
    LoopsNatural
    LoopsNested
PROPERTIES
    FirstFunctionEnds
CHECK_DEADLOCK FALSE
