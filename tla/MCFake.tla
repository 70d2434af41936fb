------------------------------- MODULE MCFake -------------------------------
\* Fake with two goroutines, which are alike, on one key.
EXTENDS Fake, TLC

CONSTANTS p1, p2

TwoCallers == {p1, p2}
CallerSymmetry == Permutations(TwoCallers)
=============================================================================
