------------------------------ MODULE MCInputs ------------------------------
(***************************************************************************)
(* Inputs on small instances: two phones that overlap at their ends, with  *)
(* two keys or touches, and a request each for the microphone or three of  *)
(* the first.                                                              *)
(***************************************************************************)
EXTENDS Inputs
=============================================================================
