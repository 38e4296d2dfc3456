SPECIFICATION AllSpec
CONSTANTS
    Program <- MCProgram
    Operation <- MCOperation
    Atom <- MCAtom
    Family <- MCFamily
    Authority = {1, 2}
    MaxFrames = 3
    Bodies = {2}
    Leaves = {1}
INVARIANTS
    RecursionIsLeast
CHECK_DEADLOCK FALSE
