--------------------------- MODULE MCForwarding ---------------------------
(* Forwarding for TLC. No symmetry: the run checks liveness.                  *)
EXTENDS Forwarding

=============================================================================
