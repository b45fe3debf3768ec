CONSTANTS
    TableSize = 3
    NumPages = 30
    MaxMappings = 4
    MaxOps = 10
    Users = {u1, u2}
    Kernel = Kernel
    Lengths = {2}
    Image <- MCImage
    FreeVirtBase <- MCFreeVirtBase
    Device = 100
    None = None
SYMMETRY Symmetry
SPECIFICATION Spec
INVARIANTS TablesExact PagesOwned OnlyExhaustion
CHECK_DEADLOCK FALSE
