-------------------------------- MODULE Check --------------------------------
(***************************************************************************)
(* check, which writes nothing: a walk of every tree the volume declares,  *)
(* with each structure held against the others that describe the same      *)
(* thing.  An operator is one pass over what was read, as the set of what  *)
(* it reports; the modules that have the items say what that comes to.     *)
(*                                                                         *)
(* Left out: a read that fails, what a block says of its own level,        *)
(* generation and keys, the types of entries, the superblock copies, and   *)
(* how many findings of one kind are listed.                               *)
(***************************************************************************)
EXTENDS Integers, SequencesExt

-----------------------------------------------------------------------------
(* The trees: `kids` of every block, and the roots the root items name.      *)

Walked(kids, roots) ==
  LET walk[n \in 0 .. Cardinality(DOMAIN kids)] ==
        IF n = 0 THEN roots
        ELSE LET w == walk[n - 1] IN w \cup UNION {kids[b] : b \in w}
  IN  walk[Cardinality(DOMAIN kids)]

\* How often each block is come to: a root once, however many trees have it,
\* and once from every parent, whose children are gone through once.
ReachedTimes(kids, roots) ==
  LET walked == Walked(kids, roots)
  IN  [b \in walked |-> Cardinality({b} \cap roots)
                          + Cardinality({p \in walked : b \in kids[p]})]

-----------------------------------------------------------------------------
(* The extent tree: the references each tree block's item counts, the length *)
(* of each data extent, and the extents that file items name.                *)

BlocksAgainstTrees(times, refs) ==
  {<<"no extent item", b>> : b \in DOMAIN times \ DOMAIN refs}
    \cup {<<"reached too often", b>> :
            b \in {b \in DOMAIN times \cap DOMAIN refs : times[b] > Max({refs[b], 1})}}
    \cup {<<"reached by no tree", b>> : b \in DOMAIN refs \ DOMAIN times}

DataAgainstFiles(named, len) ==
  LET held == {x \in named : x.at \in DOMAIN len /\ len[x.at] = x.len}
  IN  {<<"no such data extent", x.at>> : x \in named \ held}
        \cup {<<"referenced by no file", e>> : e \in DOMAIN len \ {x.at : x \in held}}

\* Digests of sectors that no data extent holds.
Checksums(summed, len) ==
  {<<"digest of free space", s>> :
     s \in summed \ UNION {e .. e + len[e] - 1 : e \in DOMAIN len}}

-----------------------------------------------------------------------------
(* Block groups, by the chunk each is to have; every one is `size` long.     *)

BlockGroups(used, chunks, size, blocks, len, bytesUsed) ==
  LET in(g) == g .. g + size - 1
      held(g) == Cardinality(blocks \cap in(g))
                   + MapThenSumSet(LAMBDA e : len[e], DOMAIN len \cap in(g))
  IN  {<<"used", g>> : g \in {g \in DOMAIN used : used[g] # held(g)}}
        \cup {<<"no chunk", g>> : g \in DOMAIN used \ chunks}
        \cup {<<"no block group", g>> : g \in chunks \ DOMAIN used}
        \cup {<<"bytes used", n>> : n \in {bytesUsed} \
                {MapThenSumSet(LAMBDA g : used[g], DOMAIN used)}}

\* Of profiles that do not stripe: a device extent is as long as its chunk.
ChunksAgainstDevices(stripes, devExtents, devUsed, size) ==
  LET extent(g, i) == [dev |-> stripes[g][i][1], at |-> stripes[g][i][2], chunk |-> g]
      claimed == UNION {{extent(g, i) : i \in DOMAIN stripes[g]} : g \in DOMAIN stripes}
      at(e) == <<e.dev, e.at>>
      sum(dev) == size * Cardinality({e \in devExtents : e.dev = dev})
  IN  {<<"no device extent", at(e)>> : e \in claimed \ devExtents}
        \cup {<<"belongs to no chunk", at(e)>> :
                e \in {e \in devExtents : at(e) \notin {at(c) : c \in claimed}}}
        \cup {<<"device used", dev>> : dev \in {dev \in DOMAIN devUsed : devUsed[dev] # sum(dev)}}

\* What the free-space tree lists of a group, and what its extents leave.
FreeSpace(cached, computed) ==
  {<<"free space", g>> : g \in {g \in DOMAIN cached : cached[g] # computed[g]}}

-----------------------------------------------------------------------------
(* A subvolume's inodes and directories.                                     *)

Refs(t, i) == {r \in t.ref : r.ino = i}
Exts(t, i) == {r \in t.ext : r.ino = i}
BackReferred(t, e) ==
  \E r \in Refs(t, e.id) \cup Exts(t, e.id) : r.dir = e.dir /\ r.name = e.name

\* The rows of a directory, each as often as it occurs.
Rows(entries) ==
  [row \in {<<e.name, e.id>> : e \in entries} |->
     Cardinality({e \in entries : <<e.name, e.id>> = row})]

OfInode(t, i, length) ==
  LET inode == t.inode[i]
      index == {e \in t.index : e.dir = i}
      counted == IF inode.kind = "dir" THEN 1
                 ELSE Cardinality(Refs(t, i)) + Cardinality(Exts(t, i))
      size == MapThenSumSet(LAMBDA e : 2 * length[e.name], index)
  IN  {<<"link count", i>> : n \in {inode.nlink} \ {counted}}
        \cup {<<"size", i>> : n \in {s \in {inode.size} : inode.kind = "dir"} \ {size}}
        \cup {<<"twins", i>> : rows \in {Rows(index)} \ {Rows({e \in t.item : e.dir = i})}}

OfEntry(t, e, subvolumes) ==
  IF e.root THEN {<<"no such subvolume", e>> : id \in {e.id} \ subvolumes}
  ELSE IF e.id \notin DOMAIN t.inode THEN {<<"no such inode", e>>}
  ELSE {<<"no back-reference", x>> : x \in {x \in {e} : ~BackReferred(t, x)}}

\* An inode without its item is reported for that, and its entries not read.
Namespace(t, subvolumes, length) ==
  LET inos == DOMAIN t.inode \cup {r.ino : r \in t.ref \cup t.ext}
                \cup {e.dir : e \in t.item \cup t.index}
      read == {e \in t.item : e.dir \in DOMAIN t.inode}
  IN  {<<"no inode item", i>> : i \in inos \ DOMAIN t.inode}
        \cup UNION {OfInode(t, i, length) : i \in DOMAIN t.inode}
        \cup UNION {OfEntry(t, e, subvolumes) : e \in read}

=============================================================================
