\* Two rows, one of which cannot be converted.
CONSTANTS
    NRows = 2
SPECIFICATION Spec
INVARIANTS NilMeansAllSent
CHECK_DEADLOCK FALSE
