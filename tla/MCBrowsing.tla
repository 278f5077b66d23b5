----------------------------- MODULE MCBrowsing -----------------------------
(* A bounded instance of Browsing for TLC. *)
EXTENDS Browsing

=============================================================================
