---------------------------- MODULE MCDenyTrial ----------------------------
(* DenyTrial for TLC. *)
EXTENDS DenyTrial

=============================================================================
