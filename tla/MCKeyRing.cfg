CONSTANTS
    Replica = {a, b}
    NKeys = 2
    Delay = 3
    Overlap = 4
    BootDelay = 3
    BootOverlap = 2
    Poll = 1
    Sync = 1
    TokenLife = 1
    MaxFailures = 2
    MaxDeaths = 1
    MaxTime = 9
SPECIFICATION RingSpec
CONSTRAINT OneKind
SYMMETRY Symmetry
INVARIANTS OverlapCovers PublishBeforeSign AlwaysSigns
VIEW Readable
