----------------------------- MODULE MCOutputs -----------------------------
(***************************************************************************)
(* Outputs on small instances: a ring of four samples, two phones that     *)
(* overlap at their ends, with two packets of video and two chunks of      *)
(* audio each, and a ring of two chunks.                                   *)
(***************************************************************************)
EXTENDS Outputs
=============================================================================
