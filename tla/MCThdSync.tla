----------------------------- MODULE MCThdSync ------------------------------
(* ChWaits for TLC: three user threads, two of them peers.  Listener l1    *)
(* wants one of two flags; the other one is emitted as well.               *)
EXTENDS ChWaits, TLC
CONSTANTS t1, t2, t3
Prios    == (Idle :> 1) @@ (t1 :> 2) @@ (t2 :> 2) @@ (t3 :> 3)
L1Owner  == [l \in Listeners |-> t1]
L1Events == [l \in Listeners |-> {1}]
L1Wanted == [l \in Listeners |-> {"f1"}]
Masks    == {{1}, {0, 1}}
Sent     == {{}, {"f1"}, {"f2"}}
=============================================================================
