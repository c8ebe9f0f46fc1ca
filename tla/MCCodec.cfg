\* The edges of every type, lists of them, and texts.
CONSTANTS
    Base = 32
    Short = 3
    Long = 6
    Clock <- TwoBits
    Unit = 10
    Second = 10
    Local = 600
    Limit = 10081
    Inputs <- MCInputs
SPECIFICATION Spec
INVARIANTS RoundTrip NullRoundTrip TextIsExact
CHECK_DEADLOCK FALSE
