--------------------------- MODULE MCVideoOutput ---------------------------
(* VideoOutput with two short sessions. *)
EXTENDS VideoOutput
=============================================================================
