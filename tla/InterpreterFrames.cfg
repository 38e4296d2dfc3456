SPECIFICATION FairSpec
CONSTANTS
    Callable = {"main", "work"}
    Entry = "main"
    Local = {1, 2, 3, 4, 5, 6, 7, 8}
    Parameters <- MCParameters
    Owned = {1, 2, 5, 6, 7, 8}
    Exclusive = {3, 4}
    Scope = {"block", "arm"}
    Arms = {"arm"}
    Bindings <- MCBindings
    CallDepth = 2
    StepLimit = 6
INVARIANTS OrderIsRegistered CleansInReverse NoInternalInvariant
    LeftFramesAreEmpty CleanupsOwed CommitIsAllOrNothing
PROPERTY Ends
