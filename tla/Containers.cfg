SPECIFICATION Spec
CONSTANTS
    n1 = n1
    n2 = n2
    n3 = n3
    n4 = n4
    n5 = n5
    n6 = n6
    Nodes = {n1, n2, n3, n4, n5, n6}
    Null = Null
    Key <- KeyDef
    Bounds <- BoundsDef
    Letters = {"X", "space", "A"}
    ExitWord <- ExitDef
    Suffix <- SuffixDef
    cmd_max = 5
    HeapSize = 8
    ObjectBytes = 8
    FirstRoom = 2
    MaxRoom = 3
INVARIANTS TreeSound VectorsSound ShellSound
PROPERTIES Refines VectorSteps
CHECK_DEADLOCK FALSE
