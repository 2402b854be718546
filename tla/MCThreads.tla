----------------------------- MODULE MCThreads ------------------------------
(* ChThreads for TLC: main() and workers less, equally and more urgent.    *)
EXTENDS ChThreads, TLC
CONSTANTS main, t1, t2
Prios     == (Idle :> 1) @@ (t1 :> 2) @@ (main :> 3) @@ (t2 :> 4)
Peers     == (Idle :> 1) @@ (t1 :> 3) @@ (main :> 3) @@ (t2 :> 4)
=============================================================================
