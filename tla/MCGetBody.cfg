SPECIFICATION MCFairSpec
CONSTANTS
    MaxCallbacks = 2
    Length = 1
    Retries = 1
    MaxBodies = 2
INVARIANTS
    TimerOnlyDuringRead
    StallReported
    CloseReleasesAll
PROPERTIES
    StallIsFinal
    ReadReturns
    ImplementsIdleReader
