SPECIFICATION Spec
CONSTANTS
    Funcs = {f}
    Types = {"ptr"}
    MaxArgs = 0
    MaxInstrs = 3
    AllocaSizes = {1008}
    Vals = {1}
    StackTop = 4160
    MaxDepth = 2
PROPERTIES
    ReturnsRestore
CHECK_DEADLOCK FALSE
