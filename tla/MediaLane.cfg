SPECIFICATION LiveLaneSpec
CONSTANTS
    Seqs = {0,1,2}
    Window = 1
    Cap = 2
    MaxPush = 0
    Lanes = {"datagram", "stream"}
    Total = 3
    HeldMax = 2
    SniffTicks = 1
    EndTicks = 2
INVARIANTS
    LossExplained
    EndAfterEverything
PROPERTIES
    ReceiverEnds
