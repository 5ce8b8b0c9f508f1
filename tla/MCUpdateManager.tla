-------------------------- MODULE MCUpdateManager --------------------------
(* UpdateManager with the three attempts of the code. *)
EXTENDS UpdateManager
=============================================================================
