--------------------------- MODULE MCModeratorTab ---------------------------
(* A bounded instance of ModeratorTab for TLC. *)
EXTENDS ModeratorTab

=============================================================================
