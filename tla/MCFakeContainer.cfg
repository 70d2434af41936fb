SPECIFICATION Spec
CONSTANTS
    p1 = p1
    p2 = p2
    Callers <- TwoCallers
    Keys = {k1}
SYMMETRY CallerSymmetry
INVARIANT NotFoundMeansMissing
