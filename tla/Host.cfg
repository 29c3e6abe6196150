SPECIFICATION HostSpec
CONSTANTS
    CONTROL_RESPONSE_TIMEOUT = 2
    RECONNECT_CAP = 5
    IDLE_EXPIRY = 3
    INITIAL_RECONNECT = 2
    PAIRING_WINDOW = 3
    Clients = {c1, c2}
    MaxCalls = 5
    RtThreads = {t1, t2}
    DepthMax = 3
    Kickers = {k1, k2}
    MaxStall = 2
    MaxDelay = 1
    ClockSteps <- ClockSets
    Farthest = 3
    MaxSteps = 1
    BlockLengths = {0, 2, 3}
    AppCapacity = 8
    SeqBits = 1
    Endpoints = {"a", "b"}
    WaveFormats <- Formats
    MaxPushes = 4
    Devices = {d1, d2}
    MaxChanges = 4
    MaxStarts = 2
    MaxBlocks = 2
    MaxConsents = 2
    MaxStops = 1
    MaxRouteChanges = 3
INVARIANTS
    BackoffSchedule
    StatusDescribesSink
    AbortExplained
    PushNeverAllocates
    OneStreamPerBuffer
    NoChangeForgotten
    StatusContract
    CleanStop
    RouteFollowed
PROPERTIES
    WaitsEnd
    CallsReturn
    StallCaught
CHECK_DEADLOCK FALSE
