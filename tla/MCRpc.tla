------------------------------- MODULE MCRpc -------------------------------
(* Rpc for TLC.  Threads of the dispatch pool are interchangeable.          *)
EXTENDS Rpc, TLC

Symmetry == Permutations(Threads)
=============================================================================
