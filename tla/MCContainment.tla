--------------------------- MODULE MCContainment ---------------------------
(* Four processes: a chain of descendants and a pid to reuse. No symmetry:      *)
(* one of the properties is a liveness property.                              *)
EXTENDS Containment
=============================================================================
