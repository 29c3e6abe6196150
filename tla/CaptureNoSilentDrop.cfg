SPECIFICATION Spec
CONSTANTS
    Capacity = 3
    Lengths = {1, 2}
    MaxBytes = 5
    Devices <- ModelDevices
CHECK_DEADLOCK FALSE
INVARIANT NoSilentDrop
