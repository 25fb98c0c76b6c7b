------------------------------ MODULE MCWlanRx ------------------------------
(* Instances of WlanRx for TLC. *)
EXTENDS WlanRx

BothIfaces == 0..1
=============================================================================
