---------------------------- MODULE MCProjection ----------------------------
(* Projection on a small instance: two connections in one execution.      *)
EXTENDS Projection, TLC

Symmetry == Permutations(Conn)
=============================================================================
