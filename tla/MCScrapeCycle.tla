---------------------------- MODULE MCScrapeCycle ----------------------------
(* Instances of ScrapeCycle for TLC. *)
EXTENDS ScrapeCycle, TLC

Symmetry == Permutations(Workers) \cup Permutations(Threads)
=============================================================================
