CONSTANTS
    Proc = {root, p1, p2, p3}
    Root = root
    MaxObjects = 2
    NoProc = NoProc
    NoObj = NoObj
    Kernel = Kernel
SYMMETRY Symmetry
SPECIFICATION Spec
INVARIANTS NoKernelFault OwnedOnce ContextsSound NothingLeaks
PROPERTIES ResumesStarter
CHECK_DEADLOCK FALSE
