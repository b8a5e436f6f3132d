------------------------------- MODULE MCTrees -------------------------------
(***************************************************************************)
(* Trees on a file of four sectors, leaves of two items and nodes of three *)
(* pointers, from volumes whose tree is a leaf, is taller, has a snapshot  *)
(* the top level has diverged from, and is taller still and shared.        *)
(***************************************************************************)
EXTENDS Trees

At(e, off, len) == [ext |-> e, off |-> off, len |-> len]
LeafOf(t, items) == [owner |-> t, kids |-> <<>>, items |-> items]
NodeOf(t, kids) == [owner |-> t, kids |-> kids, items |-> Empty]
OnAddr(f) == [a \in Addr |-> IF a \in DOMAIN f THEN f[a] ELSE Unowned]
OnExtent(f) == [e \in Extent |-> IF e \in DOMAIN f THEN f[e] ELSE <<>>]
OnTree(f) == [t \in Tree |-> IF t \in DOMAIN f THEN f[t] ELSE 0]

\* The contents an image starts with: sectors from `s` on, n of them.
Old(s, n) == [i \in 1 .. n |-> MaxOps + s + i - 1]

LeafImage ==
  [block |-> OnAddr(1 :> LeafOf(1, (0 :> Inode) @@ (1 :> At(1, 0, 4)))),
   root |-> OnTree(1 :> 1), last |-> OnTree(Empty), full |-> {},
   extent |-> OnExtent(1 :> Old(1, 4)), gen |-> [e \in Extent |-> 1], generation |-> 1]

TallImage ==
  [block |-> OnAddr((1 :> NodeOf(1, <<2, 3>>))
               @@ (2 :> LeafOf(1, (0 :> Inode) @@ (1 :> At(1, 0, 2))))
               @@ (3 :> LeafOf(1, 3 :> At(2, 0, 2)))),
   root |-> OnTree(1 :> 1), last |-> OnTree(Empty), full |-> {},
   extent |-> OnExtent((1 :> Old(1, 2)) @@ (2 :> Old(3, 2))),
   gen |-> [e \in Extent |-> 1], generation |-> 1]

DivergedImage ==
  [block |-> OnAddr((1 :> NodeOf(1, <<4, 3>>))
               @@ (2 :> LeafOf(1, (0 :> Inode) @@ (1 :> At(1, 0, 2))))
               @@ (3 :> LeafOf(1, 3 :> At(2, 0, 2)))
               @@ (4 :> LeafOf(1, (0 :> Inode) @@ (1 :> At(3, 0, 2))))
               @@ (5 :> NodeOf(2, <<2, 3>>))),
   root |-> OnTree((1 :> 1) @@ (2 :> 5)), last |-> OnTree((1 :> 2) @@ (2 :> 2)),
   full |-> {2},
   extent |-> OnExtent((1 :> Old(1, 2)) @@ (2 :> Old(3, 2)) @@ (3 :> Old(2, 2))),
   gen |-> [e \in Extent |-> IF e = 3 THEN 3 ELSE 1], generation |-> 3]

\* Three levels, with two snapshots that share everything under the roots.
DeepImage ==
  [block |-> OnAddr((1 :> NodeOf(1, <<4, 5>>))
               @@ (2 :> NodeOf(2, <<4, 5>>))
               @@ (3 :> NodeOf(3, <<4, 5>>))
               @@ (4 :> NodeOf(1, <<6, 7>>))
               @@ (5 :> NodeOf(1, <<8>>))
               @@ (6 :> LeafOf(1, (0 :> Inode) @@ (1 :> At(1, 0, 1))))
               @@ (7 :> LeafOf(1, 2 :> At(2, 0, 1)))
               @@ (8 :> LeafOf(1, 3 :> At(3, 0, 2)))),
   root |-> OnTree((1 :> 1) @@ (2 :> 2) @@ (3 :> 3)),
   last |-> OnTree((1 :> 3) @@ (2 :> 2) @@ (3 :> 3)), full |-> {},
   extent |-> OnExtent((1 :> Old(1, 1)) @@ (2 :> Old(2, 1)) @@ (3 :> Old(3, 2))),
   gen |-> [e \in Extent |-> 1], generation |-> 3]

Load(writes, cuts, punches, clones, inPlace, ops) ==
  [writes |-> writes, cuts |-> cuts, punches |-> punches, clones |-> clones,
   nocow |-> inPlace, ops |-> ops]

\* Files written and cut short; files with holes punched and ranges cloned;
\* and, for one operation less than it takes to go wrong, files cut whose
\* items share an extent.
MCStarts ==
  [image : {LeafImage, TallImage, DivergedImage},
   load : {Load({<<2, 4>>, <<3, 5>>}, {1, 2}, {}, {}, {FALSE}, 3),
           Load({<<2, 3>>, <<3, 4>>}, {}, {<<2, 3>>, <<2, 5>>}, {<<1, 3, 2>>}, BOOLEAN, 3)}]
    \cup [image : {DeepImage},
          load : {Load({<<1, 2>>, <<2, 4>>}, {1}, {<<2, 5>>}, {}, {FALSE}, 3)}]
    \cup [image : {LeafImage, TallImage},
          load : {Load({<<1, 4>>}, {1}, {<<2, 3>>}, {}, {FALSE}, 3)}]

\* A file of one extent with a hole punched, cut to nothing.
PunchedStarts ==
  [image : {LeafImage}, load : {Load({}, {1}, {<<2, 3>>}, {}, {FALSE}, 4)}]

=============================================================================
