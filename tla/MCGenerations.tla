---------------------------- MODULE MCGenerations ----------------------------
(* Generations for TLC: builds and lock contents are interchangeable.      *)
EXTENDS Generations, TLC

Sym == Permutations(Builds) \cup Permutations(Locks)
=============================================================================
