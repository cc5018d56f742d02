---------------------------- MODULE MCBuffStream ----------------------------
EXTENDS BuffStream
\* The n-th byte of a write is n.
MCData == {[i \in 1 .. n |-> i] : n \in 0 .. 4}
=============================================================================
