SPECIFICATION SinkSpec
CONSTANTS
    Codecs = {"flac"}
    Rates = {44, 48}
    Reprs = {"i16", "i24"}
    BlockSizes = {4}
    LosslessSamples = 1
    OpusSamples48 = 2
    OpusSamples44 = 1
    MaxBytes = 8
    MaxFormats = 1
INVARIANTS
    SealedAfterPairing
CHECK_DEADLOCK FALSE
