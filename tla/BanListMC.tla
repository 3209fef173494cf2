----------------------------- MODULE BanListMC -----------------------------
(* Instances of BanList for TLC: the workers are interchangeable, and so
   are the keys of rows. *)
EXTENDS BanList, TLC

MCPermutations == Permutations(Worker) \cup Permutations(PK)
=============================================================================
