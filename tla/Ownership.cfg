SPECIFICATION Spec
CHECK_DEADLOCK FALSE
CONSTANTS
    Local <- MCLocal
    Place <- MCPlace
    CopyPlace <- MCCopyPlace
    Mutable <- MCMutable
    Parameter <- MCParameter
    Access <- MCAccess
    Program <- MCProgram
    BodyOf <- MCBodyOf
INVARIANTS
    TypeOK
    AcceptedIsSafe
    BorrowsHold
    RegionsHold
