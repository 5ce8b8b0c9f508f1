------------------------------- MODULE MCWifi -------------------------------
(* Wifi with two interfaces and a network. *)
EXTENDS Wifi
=============================================================================
