CONSTANTS
    HeapSize = 8
    Sizes = {1, 2, 3}
SPECIFICATION Spec
INVARIANTS IInv BalancedIsWhole
PROPERTIES Implements
CHECK_DEADLOCK FALSE
