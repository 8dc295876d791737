SPECIFICATION Spec
CONSTANTS
    a = a
    b = b
    c = c
    d = d
    e = e
    n1 = n1
    n2 = n2
    r1 = r1
    r2 = r2
    Ids <- MCIds
    TimeOf <- MCTimeOf
    TextOf <- MCTextOf
    Limit = 3
    Media <- MCMedia
    FileNames <- MCFileNames
    NoFile = NoFile
    live = live
    history = history
    Handlers <- MCHandlers
    Requests <- MCRequests
CONSTRAINT Bounds
INVARIANTS
    TypeOK
    WalkComplete
    PartIsExplained
PROPERTIES
    WholeForGood
    NameForGood
    WalkEnds
