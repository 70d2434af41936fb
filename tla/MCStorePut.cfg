SPECIFICATION Spec
CONSTANTS
    Lengths = {0, 1, 2, 3, 4}
    Bounds = {0, 2, 3}
    Sizes <- SmallSizes
    Buffers = {1, 2, 5}
INVARIANTS
    StoredIsBody
    NothingPastLimit
    FailureReported
