--------------------------- MODULE MCNativeBuild ---------------------------
(* Two processes are enough here: a command and a survivor; longer chains are *)
(* the business of MCContainment. Every defect and every hole occurs, one of  *)
(* each at a time.                                                            *)
EXTENDS NativeBuild, TLC

Symmetry == Permutations(Pids)

(* Bound: with the hidden hole, through which every stage may forge what it   *)
(* hands over, commands of one process only.                                  *)
Alone == hole = "hidden" => Cardinality(Descendants) <= 1
=============================================================================
