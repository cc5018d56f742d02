------------------------------- MODULE MCBle -------------------------------
EXTENDS Ble, TLC
Symmetry == Permutations(Addresses)
=============================================================================
