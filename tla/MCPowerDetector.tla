--------------------------- MODULE MCPowerDetector ---------------------------
EXTENDS PowerDetector
=============================================================================
