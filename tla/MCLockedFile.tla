----------------------------- MODULE MCLockedFile -----------------------------
(***************************************************************************)
(* Instances of LockedFile for TLC: one connection with two fids, another  *)
(* with one.                                                               *)
(***************************************************************************)
EXTENDS LockedFile

Two    == {"c1", "c2"}
Three  == {"f1", "f2", "f3"}
Asks   == {"OREAD", "ORDWR"}
One    == {"c1"}
Owners == [f \in Three |-> IF f = "f3" THEN "c2" ELSE "c1"]
=============================================================================
