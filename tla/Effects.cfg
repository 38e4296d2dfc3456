SPECIFICATION AllSpec
CONSTANTS
    Program <- MCProgram
    Operation <- MCOperation
    Atom <- MCAtom
    Family <- MCFamily
    Authority = {1, 2}
    MaxFrames = 3
    Bodies = {2, 4, 6}
    Leaves = {1, 3, 5, 7}
INVARIANTS
    InferredIsLeast
    RowsCover
PROPERTIES
    CheckEnds
CHECK_DEADLOCK FALSE
