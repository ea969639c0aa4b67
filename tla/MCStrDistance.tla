---------------------------- MODULE MCStrDistance ----------------------------
\* StrDistance for TLC: strings of three characters.
EXTENDS StrDistance

CONSTANTS x, y, z
ThreeChars == {x, y, z}
=============================================================================
