------------------------------- MODULE MCPool -------------------------------
(***************************************************************************)
(* Instances of Pool for TLC: three devices, two or one of them made into  *)
(* the filesystem.                                                         *)
(***************************************************************************)
EXTENDS Pool, TLC

CONSTANTS h1, h2

OneHandle  == {h1}
TwoHandles == {h1, h2}
Symmetry   == Permutations(Handle)
=============================================================================
