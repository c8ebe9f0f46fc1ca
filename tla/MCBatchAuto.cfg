\* Four rows of two schemas; replies name up to four positions, of rows or not.
CONSTANTS
    Size = 4
    Schemas = {s1, s2}
    Positions = {0, 1, 2, 3}
SYMMETRY SchemaSymmetry
SPECIFICATION AutoSpec
INVARIANTS ValidatedBeforeSent RequestsAreWhole NilMeansAnswered ErrorItemsAreTheIgnored
CHECK_DEADLOCK FALSE
