SPECIFICATION SecureSpec
CONSTANTS
    Words = 3
    Bits = 2
    MaxIndex = 8
    IndexLimit = 8
    MaxDamaged = 1
    Identities = {phone, speaker, replacement}
    Emitter = phone
    Window = 2
    Codecs = {"flac", "opus"}
    Rates = {4, 16, 24, 44, 48, 96}
    Reprs = {"i16", "i24"}
    BlockSizes = {3, 4, 9, 12}
    LosslessSamples = 1
    OpusSamples48 = 2
    OpusSamples44 = 1
    MaxBytes = 13
    MaxFormats = 2
INVARIANTS
    NonceUnique
    Agreement
    PinRespected
    CaptureExact
    TimePreserved
    RendersOnlySealed
PROPERTIES
    ImplementsReplaySpec
    RefusalExplained
    ListenerDecides
    OrphanEnds
CHECK_DEADLOCK FALSE
