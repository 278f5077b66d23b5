---------------------------- MODULE MCPostUpload ----------------------------
(* A bounded instance of PostUpload for TLC. *)
EXTENDS PostUpload

=============================================================================
