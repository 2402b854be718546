------------------------------ MODULE MCMboxes ------------------------------
(* ChMboxes for TLC: threads of different priority.                        *)
EXTENDS ChMboxes, TLC
CONSTANTS t1, t2
TwoPrios == (Idle :> 1) @@ (t1 :> 2) @@ (t2 :> 3)
=============================================================================
