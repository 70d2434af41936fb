SPECIFICATION Spec
CONSTANTS
    PartSize = 2
    Workers = 2
    Lengths = {0, 1, 2, 3, 4, 5}
    Sizes = {0, 1, 2, 3, 4, 5, 6}
    MaxParts = 3
    MaxTries = 2
INVARIANT AllOrNothing
CHECK_DEADLOCK FALSE
