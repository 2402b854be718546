------------------------------- MODULE MCSem --------------------------------
(* ChSem for TLC: two threads, one more urgent than the other.             *)
EXTENDS ChSem, TLC
CONSTANTS t1, t2

TwoPrios == (Idle :> 1) @@ (t1 :> 2) @@ (t2 :> 3)
SemSymmetry == Permutations(Sems)
=============================================================================
