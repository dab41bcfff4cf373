---------------------------- MODULE MCBroadcastFile ----------------------------
(***************************************************************************)
(* Instances of BroadcastFile for TLC.                                     *)
(***************************************************************************)
EXTENDS BroadcastFile

CONSTANTS t1, t2, t3, h1, h2

\* No thread and no handle is distinguished (sound for the safety runs only).
Symmetry == Permutations(Threads) \union Permutations(Handles)
=============================================================================
