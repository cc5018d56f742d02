----------------------------- MODULE MCWifiMode -----------------------------
(* Instances of WifiMode for TLC. *)
EXTENDS WifiMode

CONSTANTS home

OneNetwork == {home}
=============================================================================
