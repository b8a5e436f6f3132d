----------------------------- MODULE MCLogReplay -----------------------------
(* Small volumes for LogReplay. *)
EXTENDS LogReplay

\* Two subvolumes: inodes 1.. in the first, 21.. in the second.
MCIno == 1 .. 5 \cup {21, 22}
MCHome == [i \in MCIno |-> IF i < 20 THEN 1 ELSE 2]
MCName == {"a", "b", "c"}
MCHash == [n \in MCName |-> IF n = "b" THEN 2 ELSE 1]
MCExtent == 1 .. 4
MCLen == [e \in MCExtent |-> IF e <= 2 THEN 6 ELSE 2]
MCBorn == [e \in MCExtent |-> IF e = 2 THEN 3 ELSE 6]
MCLastSnapshot == [t \in {1, 2} |-> 4]

I(kind, size) == [kind |-> kind, gen |-> 5, size |-> size]
N(i, d, index, name, far) == [ino |-> i, dir |-> d, index |-> index, name |-> name, far |-> far]

\* A file of three sectors with a second name, an empty directory.
Plain ==
  [inode |-> 1 :> I("dir", 0) @@ 2 :> I("dir", 0) @@ 3 :> I("file", 6),
   names |-> {N(2, 1, 2, "c", FALSE), N(3, 1, 3, "a", FALSE), N(3, 1, 4, "b", TRUE)},
   data |-> 1 :> None @@ 2 :> None @@ 3 :> (0 :> Item("regular", 1, 0, 6)),
   attr |-> {<<3, 1, "before">>}]

\* A file whose extent another subvolume shares, and one of a snapshotted extent.
Shared ==
  [inode |-> 1 :> I("dir", 0) @@ 2 :> I("file", 6) @@ 3 :> I("file", 1)
               @@ 21 :> I("dir", 0) @@ 22 :> I("file", 6),
   names |-> {N(2, 1, 2, "a", FALSE), N(3, 1, 3, "b", FALSE), N(22, 21, 2, "a", FALSE)},
   data |-> 1 :> None @@ 21 :> None @@ 3 :> (0 :> Inline(1))
              @@ 2 :> (0 :> Item("regular", 1, 0, 2) @@ 2 :> Item("regular", 1, 2, 4))
              @@ 22 :> (0 :> Item("regular", 1, 0, 4) @@ 4 :> Item("regular", 2, 0, 2)),
   attr |-> {}]

\* A file and a directory it can be moved into.
Move ==
  [inode |-> 1 :> I("dir", 0) @@ 2 :> I("dir", 0) @@ 3 :> I("file", 1),
   names |-> {N(2, 1, 2, "b", FALSE), N(3, 1, 3, "a", FALSE)},
   data |-> 1 :> None @@ 2 :> None @@ 3 :> (0 :> Inline(1)),
   attr |-> {}]

MCStarts == {Plain, Shared, Move}
=============================================================================
