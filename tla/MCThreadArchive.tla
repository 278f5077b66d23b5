--------------------------- MODULE MCThreadArchive ---------------------------
(* Bounded instances of ThreadArchive for TLC. *)
EXTENDS ThreadArchive

=============================================================================
