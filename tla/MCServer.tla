------------------------------ MODULE MCServer ------------------------------
(* The instance of Server for TLC: two requests of one account.              *)
EXTENDS Server

MCOpening == [u \in Users |-> 3]
=============================================================================
