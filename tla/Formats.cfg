SPECIFICATION FormatsSpec
CONSTANTS
    MaxFramePayload = 4096
    HeaderMaxLen = 64
    MaxControlMsg = 16384
    MaxDatagram = 1452
    Payloads = {0, 300, 4096, 4097}
    MaxItems = 2
    MaxChanges = 4
    FrameSamples = 3
    Half = 2
    Unit = 200
    Cadence = 4
    Gaps = {0, 3, 4, 5, 9}
    UpdateInterval = 4
    MaxStep = 3
    Deadband = 2
    Prefill = 2
    MaxEst = 40
    Window = 5
    MaxGap = 8
    MaxFrames = 7
    Subjects = {"wire", "policy", "codec", "drift"}
    Rates = {24000, 44100, 48000, 192000}
    Bodies = {"loud", "floor"}
    MaxEmitted = 2
INVARIANTS
    DecoderIgnoresCuts
    CodecLaws
    LosslessOnlyWhileGranted
    LaneAgrees
    BitExactIsIdentity
    ContinuousOutput
PROPERTIES
    NoOscillation
CHECK_DEADLOCK FALSE
