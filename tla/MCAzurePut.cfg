SPECIFICATION Spec
CONSTANTS
    BlockSize = 2
    Concurrency = 2
    Lengths = {0, 1, 2, 3, 4, 5}
    Sizes = {0, 1, 2, 3, 4, 5, 6}
    MaxTries = 2
INVARIANTS
    BlobIsWholeBody
    BodyFailureReported
PROPERTY
    KeepsContract
CHECK_DEADLOCK FALSE
