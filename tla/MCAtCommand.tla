---------------------------- MODULE MCAtCommand ----------------------------
EXTENDS AtCommand
AllOps == DOMAIN Scripts
=============================================================================
