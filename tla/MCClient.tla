------------------------------- MODULE MCClient -------------------------------
(***************************************************************************)
(* Instances of Client for TLC.                                            *)
(***************************************************************************)
EXTENDS Client

Calls2 == 1..2
Calls4 == 1..4
=============================================================================
