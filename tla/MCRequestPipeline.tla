-------------------------- MODULE MCRequestPipeline --------------------------
(* RequestPipeline on small instances; each cfg gives the constants. *)
EXTENDS RequestPipeline, TLC

Symmetric == Permutations(Sites)
=============================================================================
