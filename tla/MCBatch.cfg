\* Three rows of every combination of kinds, with fairness.
CONSTANTS
    NRows = 3
SPECIFICATION FairSpec
INVARIANTS ErrorIsGenuine GoodBatchIsSentWhole FirstBadRowIsNamed
PROPERTIES CallReturns
CHECK_DEADLOCK FALSE
