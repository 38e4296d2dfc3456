CONSTANTS
    top = top
    sub = sub
    elsewhere = elsewhere
    link = link
    plain = plain
    empty = empty
    deep = deep
    None = None
    Directory = {top, sub, elsewhere}
    File = {plain, empty, deep}
    Link = {link}
    Top = top
    Target <- MCTarget
    Name = {1, 2, 3}
    SourceName = {1, 2}
    Tree <- MCTree
    Text <- MCText
    MaxBlocks = 2
    MaxChanges = 2
SPECIFICATION Spec
INVARIANTS
    NoTornSource
    FilesAreDistinct
    SteadyFilesAreLoaded
    OffsetsLocateFiles
CHECK_DEADLOCK FALSE
