SPECIFICATION Spec
CONSTANTS
    Funcs = {f, g}
    Types = {"i1", "float", "ptr"}
    MaxArgs = 2
    MaxInstrs = 1
    AllocaSizes = {4}
    Vals = {1}
    StackTop = 96
    MaxDepth = 2
INVARIANTS
    LayoutSound
    FramesIntact
    ArgsArrive
PROPERTIES
    SmallReturnsRestore
CHECK_DEADLOCK FALSE
