SPECIFICATION Spec
CONSTANTS
    N = 1
    MaxEdits = 1
INVARIANTS
    EditBeforeCommitSurvives
CHECK_DEADLOCK FALSE
