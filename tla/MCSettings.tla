----------------------------- MODULE MCSettings -----------------------------
\* Settings for TLC: two accent colours, which are interchangeable.
EXTENDS Settings, TLC

CONSTANTS c1, c2
TwoColors == {c1, c2}
Symmetry == Permutations(Color)
=============================================================================
