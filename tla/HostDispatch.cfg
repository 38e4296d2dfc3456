CONSTANTS
    a = a
    b = b
    Console = Console
    Logger = Logger
    write = write
    log = log
    fake = fake
    Root = {a, b}
    Capability = {Console, Logger}
    CapabilityOf <- MCCapabilityOf
    Operation = {write, log, fake}
    Owner <- MCOwner
    Row <- MCRow
    Bodyful = {fake}
    DataOnly = {write, log}
    EntryRow <- MCEntryRow
    OperationLimit = 4
    HostCallLimit = 1
    MaxNesting = 3
    MaxOperations = 2
SPECIFICATION Spec
INVARIANTS
    ChainIsVisibleHandles
    OnlyGrantedCalls
    PreflightIsComplete
