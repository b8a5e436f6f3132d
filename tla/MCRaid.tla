-------------------------------- MODULE MCRaid --------------------------------
(***************************************************************************)
(* A chunk of each redundant profile: two mirrored units, a striped mirror *)
(* with an extent over both pairs, two full stripes of single parity, so   *)
(* that it rotates, and one of double parity with three data elements.     *)
(***************************************************************************)
EXTENDS Raid, Bitwise

\* The field of four elements, its generator 2.
ExpDef == [e \in 0 .. 2 |-> e + 1]
PlusDef(a, b) == a ^^ b

Extent(at, len, kind) == [at |-> at, len |-> len, kind |-> kind]
Chunk(profile, n, sub, units, extents) ==
  [layout |-> [profile |-> profile, n |-> n, sub |-> sub, units |-> units],
   held |-> extents, wrote |-> [u \in 0 .. units - 1 |-> (u + 1) % 4]]
ContentsDef == [c \in 0 .. 1 |-> [u \in 0 .. 3 |-> (u + c + 2) % 4]]

LayoutsDef ==
  {Chunk("raid1", 2, 1, 2, {Extent(0, 1, "tree"), Extent(1, 1, "data")}),
   Chunk("raid10", 4, 2, 2, {Extent(0, 2, "data")}),
   Chunk("raid5", 3, 1, 4, {Extent(0, 1, "tree"), Extent(2, 2, "data")}),
   Chunk("raid6", 5, 1, 3, {Extent(0, 1, "data"), Extent(1, 1, "nosum")})}

=============================================================================
