------------------------------- MODULE MCMtx --------------------------------
(* ChMtx for TLC: three threads of different priorities, two mutexes.      *)
EXTENDS ChMtx, TLC
CONSTANTS t1, t2, t3
Prios    == (Idle :> 1) @@ (t1 :> 2) @@ (t2 :> 3) @@ (t3 :> 4)
Fixed    == [t \in Threads |-> {}]
LowMoves == [t \in Threads |-> IF t = t1 THEN {2, 5} ELSE {}]
AllMove  == [t \in Threads |-> {2, 5}]
InOrder  == [m \in Mutexes |-> IF m = "m1" THEN 1 ELSE 2]
=============================================================================
