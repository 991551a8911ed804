------------------------- MODULE MCXrayConvergence -------------------------
\* XrayConvergence for TLC.
EXTENDS XrayConvergence
=============================================================================
