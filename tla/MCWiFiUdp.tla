----------------------------- MODULE MCWiFiUdp -----------------------------
(* An instance of WiFiUdp for TLC: one WiFiUDP next to the clients. *)
EXTENDS WiFiUdp
CONSTANT u1
=============================================================================
