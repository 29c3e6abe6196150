SPECIFICATION FairSpec
CONSTANTS
    Cap = 4
    Modulus = 8
    Lengths = {1, 3, 5}
    MaxBytes = 13
PROPERTIES
    ImplementsFifo
    Delivered
CHECK_DEADLOCK FALSE
