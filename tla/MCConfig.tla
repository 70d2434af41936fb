------------------------------ MODULE MCConfig ------------------------------
\* Config with two Configs, which are alike, one option and one value.
EXTENDS Config, TLC

CONSTANTS a, b

TwoConfigs == {a, b}
ConfigSymmetry == Permutations(TwoConfigs)
=============================================================================
