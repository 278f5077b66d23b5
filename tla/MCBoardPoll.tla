----------------------------- MODULE MCBoardPoll -----------------------------
(* Bounded instances of BoardPoll for TLC. *)
EXTENDS BoardPoll

=============================================================================
