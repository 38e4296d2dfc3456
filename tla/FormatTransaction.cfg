SPECIFICATION Spec
CONSTANTS
    N = 2
    MaxEdits = 2
INVARIANTS
    TypeOK
    AllOrNothing
    FailureRestores
    NoLitter
    EarlyEditSurvives
CHECK_DEADLOCK FALSE
