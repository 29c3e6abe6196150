SPECIFICATION Spec
CONSTANTS
    Seqs = {0, 1, 2, 3, 4, 5, 6, 7}
    Window = 2
    Cap = 2
    MaxPush = 8
INVARIANT InOrder
CHECK_DEADLOCK FALSE
