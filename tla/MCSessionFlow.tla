--------------------------- MODULE MCSessionFlow ---------------------------
EXTENDS SessionFlow, TLC
=============================================================================
