SPECIFICATION Spec
CONSTANTS
    MaxHeight = 3
    MaxWidth = 4
INVARIANTS
    EncodesPrefix
    RoundTrip
    BoxIsTight
CHECK_DEADLOCK FALSE
