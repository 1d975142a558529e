----------------------------- MODULE MCRefresh -----------------------------
(* The instances of Refresh that TLC checks: two reviewed policies, of which  *)
(* the second accepts a newer product source and raises the kernel floor.     *)
EXTENDS Refresh

MCPins == [s \in 1..2 |-> s]

(* A first release, two later ones each of which is a downgrade of the other, *)
(* and one whose kernel has a name nobody reviewed.                           *)
MCBases ==
  {[version |-> 1, kernel |-> 1], [version |-> 1, kernel |-> 2],
   [version |-> 2, kernel |-> 1], [version |-> 2, kernel |-> 0]}

MCPolicies ==
  <<[minVersion |-> 1, minKernel |-> 1, source |-> 1, native |-> 1],
    [minVersion |-> 1, minKernel |-> 2, source |-> 2, native |-> 2]>>

=============================================================================
