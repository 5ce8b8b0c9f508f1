----------------------------- MODULE MCHeadUnit -----------------------------
(* HeadUnit with two phones that send two messages each, of up to two      *)
(* bytes, and with two WiFi interfaces, a network, and three things the    *)
(* user asks for.                                                          *)
EXTENDS HeadUnit
=============================================================================
