SPECIFICATION FairSpec
CONSTANTS
    Length = 2
    Retries = 2
    MaxBodies = 2
INVARIANTS
    OneVersionPrefix
    NoBodyLeaks
    ChecksumFailureStands
PROPERTIES
    FailureSticks
    ReadingEnds
