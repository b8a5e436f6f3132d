------------------------------ MODULE MCCommit ------------------------------
(***************************************************************************)
(* Instances of Commit for TLC: a tree of two blocks, two more places to   *)
(* move them to, one or two mirrors, two superblock copies (64 KiB and     *)
(* 64 MiB, a device under 256 GiB).                                        *)
(***************************************************************************)
EXTENDS Commit, TLC

CONSTANTS a1, a2, a3, a4, m1, m2, h1, h2

FourPlaces   == {a1, a2, a3, a4}
ThreePlaces  == {a1, a2, a3}
TwoUsed      == {a1, a2}
OneUsed      == {a1}
TwoMirrors   == {m1, m2}
OneMirror    == {m1}
OneHandle    == {h1}
TwoHandles   == {h1, h2}

\* Places of one role, mirrors and handles are interchangeable: no action and
\* no property orders them.
Symmetry == Permutations(Mirror) \cup Permutations(Handle)
              \cup Permutations(Used) \cup Permutations(Addr \ Used)
=============================================================================
