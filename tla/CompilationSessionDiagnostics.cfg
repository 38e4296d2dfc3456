CONSTANTS
    Counter = {"arena_entries"}
    Ceiling = {"directory_depth"}
    SizeMax = 3
    Diagnostics = 1
    Limit <- MCLimit
SPECIFICATION Spec
INVARIANT
    DiagnosticsCeiling
CHECK_DEADLOCK FALSE
