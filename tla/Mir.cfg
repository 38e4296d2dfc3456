SPECIFICATION Spec
CHECK_DEADLOCK FALSE
CONSTANTS
    Local <- MCLocal
    Place <- MCPlace
    CopyPlace <- MCCopyPlace
    Mutable <- MCMutable
    Parameter <- MCParameter
    Access <- MCAccess
    Program <- MCProgram
    CallableOf <- MCCallableOf
    Changeable <- MCChangeable
    MaxDecisions = 4
    Seconds = {1, 2, 13}
    Core = {1, 2, 5}
INVARIANTS
    LoweredOrListed
    FixedPointsSettle
    
    
    ExecutorsAgree
