SPECIFICATION FairSpec
CONSTANTS
    N = 3
    MaxEdits = 0
PROPERTIES
    ImplementsRewrite
    Ends
CHECK_DEADLOCK FALSE
