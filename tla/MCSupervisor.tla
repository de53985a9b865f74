---------------------------- MODULE MCSupervisor ----------------------------
(* Supervisor for TLC, with Target's view of it; shares are alike.         *)
EXTENDS TargetView, TLC

Sym == Permutations(Shares)
=============================================================================
