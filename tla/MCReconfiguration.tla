-------------------------- MODULE MCReconfiguration --------------------------
EXTENDS Reconfiguration
=============================================================================
