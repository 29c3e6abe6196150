SPECIFICATION Spec
CONSTANTS
    Seqs = {0, 1, 2, 3, 4, 5, 6, 7}
    Window = 2
    Cap = 3
    MaxPush = 6
INVARIANTS
    InOrder
    Conservation
    NoLossWithoutJump
CHECK_DEADLOCK FALSE
