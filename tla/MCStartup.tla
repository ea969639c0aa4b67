------------------------------ MODULE MCStartup ------------------------------
\* Startup for TLC: three instances and one call, model values in MCStartup.cfg.
EXTENDS Startup
=============================================================================
