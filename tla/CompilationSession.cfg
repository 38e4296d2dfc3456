CONSTANTS
    Counter = {"arena_entries"}
    Ceiling = {"directory_depth"}
    SizeMax = 3
    Diagnostics = 3
    Limit <- MCLimit
SPECIFICATION Spec
INVARIANTS
    TypeOK
    ChargesAddUp
    SuccessIsClean
    LimitIsNotARejection
    BudgetOnlyWhileCompiling
    IrGivenOnce
PROPERTY
    FirstRefusalIsReported
CHECK_DEADLOCK FALSE
