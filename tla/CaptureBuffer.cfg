SPECIFICATION FairSpec
CONSTANTS
    Capacity = 3
    Lengths = {1, 2}
    MaxBytes = 5
    Devices <- ModelDevices
INVARIANTS
    NothingLostUnlessRaced
    FormatTornOnlyToStereo
PROPERTY EventuallySent
CHECK_DEADLOCK FALSE
