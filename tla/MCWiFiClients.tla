---------------------------- MODULE MCWiFiClients ----------------------------
(* Small instances of WiFiClients for TLC. *)
EXTENDS WiFiClients, TLC

CONSTANTS c1, c2, c3

ThreeClients == {c1, c2, c3}

TwoObjects == {1, 2}

ClientSymmetry == Permutations(Clients)
=============================================================================
