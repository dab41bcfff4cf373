---------------------------- MODULE MCProxyFile ----------------------------
(***************************************************************************)
(* The instance of ProxyFile that TLC checks.                              *)
(***************************************************************************)
EXTENDS ProxyFile, TLC

CONSTANTS t1, t2, a, b

Two == {t1, t2}
NameSet == {a, b}
Symmetry == Permutations(Two) \union Permutations(NameSet)
=============================================================================
