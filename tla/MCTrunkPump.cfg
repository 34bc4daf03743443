CONSTANTS
    Cap = 1
SPECIFICATION FairSpec
PROPERTIES CloseFreesPump
CHECK_DEADLOCK FALSE
