------------------------------- MODULE MCLwip -------------------------------
(* LwipThread for TLC. *)
EXTENDS LwipThread
=============================================================================
