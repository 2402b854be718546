-------------------------------- MODULE MCVT --------------------------------
(* ChVT for TLC.                                                           *)
EXTENDS ChVT, TLC
TimerSymmetry == Permutations(Timers)
=============================================================================
