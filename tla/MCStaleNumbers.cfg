SPECIFICATION SpecStale
CONSTANTS
    MaxFuncs = 2
    MaxBlocks = 11
    MaxDepth = 3
PROPERTIES
    AnalysisEnds
CHECK_DEADLOCK FALSE
