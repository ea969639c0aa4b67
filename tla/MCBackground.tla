---------------------------- MODULE MCBackground ----------------------------
\* Background for TLC: model values and bounds are in MCBackground.cfg.
EXTENDS Background
=============================================================================
