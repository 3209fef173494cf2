----------------------------- MODULE AutoBanMC -----------------------------
(* Instances of AutoBan for TLC: workers and paths are
   interchangeable. *)
EXTENDS AutoBan, TLC

MCPermutations == Permutations(Worker) \cup Permutations(Path)
=============================================================================
