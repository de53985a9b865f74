------------------------------ MODULE MCTarget ------------------------------
(* Target for TLC: processes and builds are interchangeable.               *)
EXTENDS Target, TLC

Sym == Permutations(Procs) \cup Permutations(Builds)
=============================================================================
