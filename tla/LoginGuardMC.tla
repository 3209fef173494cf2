---------------------------- MODULE LoginGuardMC ----------------------------
(* Instances of LoginGuard for TLC. *)
EXTENDS LoginGuard, TLC

MCPermutations == Permutations(Worker)
=============================================================================
