SPECIFICATION AndroidSpec
CONSTANTS
    MaxConsents = 1
    MaxStops = 0
INVARIANTS
    FormatFirst
CHECK_DEADLOCK FALSE
