------------------------------ MODULE Namespace ------------------------------
(***************************************************************************)
(* Names: create, mkdir, symlink, link, unlink, rmdir, rename, extended    *)
(* attributes, and the subvolumes filed under a name.  Each call is one    *)
(* transaction on the items of one tree, and here one step.                *)
(*                                                                         *)
(* A tree's items are kept as relations, one per item type: the records of *)
(* one item are those that agree on its key, and an item is there while it *)
(* has records.  INODE_REF is keyed by inode and directory, INODE_EXTREF by*)
(* the hash of directory and name, DIR_ITEM by the hash of the name; only  *)
(* how many records one item takes depends on that.  A file's data, and so *)
(* the refusals to release it, is Trees's; how a commit reaches the device *)
(* is Commit's.                                                            *)
(***************************************************************************)
EXTENDS Integers, Sequences, SequencesExt

CONSTANTS
  Subvol,       \* bound: ids a subvolume may get, FsTree among them
  FsTree,       \* the top-level subvolume, the lowest id
  Ino,          \* bound: inode numbers, Top the lowest
  Top,          \* the top directory, inode 256 of every tree
  Name,         \* names of entries and of attributes
  Length,       \* a name's length
  Hash,         \* a name's hash
  ExtHash,      \* the hash of <<directory, name>>
  Mode,         \* permission bits
  Value,        \* values of an attribute
  RefRoom,      \* how many records an INODE_REF item has room for
  ItemRoom,     \* how many a DIR_ITEM, an INODE_EXTREF or an XATTR_ITEM has
  ExtendedIref, \* whether the volume has the EXTENDED_IREF feature
  MaxLinks,     \* the most links an inode may have
  Starts        \* volumes to start from, and the bounds of what is done to each

DotDot == ".."

ASSUME NamespaceAssumption ==
  /\ Ino \subseteq Nat /\ IsFiniteSet(Ino) /\ Top \in Ino /\ \A i \in Ino : Top <= i
  /\ Subvol \subseteq Nat \ {0} /\ IsFiniteSet(Subvol)
  /\ FsTree \in Subvol /\ \A t \in Subvol : FsTree <= t
  /\ DotDot \notin Name /\ Length \in [Name -> Nat \ {0}]
  /\ {RefRoom, ItemRoom, MaxLinks} \subseteq Nat \ {0}

VARIABLES
  tree,         \* per subvolume: its items
  root,         \* per subvolume: its ROOT_ITEM, or that it has none
  rootRef,      \* ROOT_REF and ROOT_BACKREF, which are filed together
  uuids,        \* the subvolumes the UUID tree files
  orphans,      \* the ORPHAN_ITEMs of the root tree
  default,      \* what the root tree's `default` entry names
  generation,   \* the generation of the committed superblock
  load          \* bound: what is done in this behaviour, and how often

rootVars == <<root, rootRef, uuids, orphans, default>>
vars == <<tree, rootVars, generation, load>>

\* A ROOT_ITEM: whether there is one, how many entries refer to it, whether it
\* is read-only, and whether a stream brought it.
RootItem(ro) == [there |-> TRUE, refs |-> 1, ro |-> ro, received |-> FALSE]
NoRoot == [RootItem(FALSE) EXCEPT !.there = FALSE, !.refs = 0]

-----------------------------------------------------------------------------
(* A tree's items.                                                           *)

NewInode(k, m, gen) == [kind |-> k, nlink |-> 1, size |-> 0, gen |-> gen, mode |-> m]

\* Inode i's item, new or changed.
PutInode(t, i, inode) ==
  [t EXCEPT !.inode = [x \in DOMAIN @ \cup {i} |-> IF x = i THEN inode ELSE @[x]]]
GrowDir(t, d, by) ==
  PutInode(t, d, [t.inode[d] EXCEPT !.size = Max({0, @ + by})])
Linked(t, i, by) == PutInode(t, i, [t.inode[i] EXCEPT !.nlink = @ + by])

NoItems ==
  [inode |-> [i \in {} |-> 0], ref |-> {}, ext |-> {}, item |-> {}, index |-> {}, xattr |-> {}]
TopOnly(m, gen) ==
  [NoItems EXCEPT !.inode = [i \in {Top} |-> NewInode("dir", m, gen)],
                  !.ref = {[ino |-> Top, dir |-> Top, index |-> 0, name |-> DotDot]}]

LiveIn(roots) == {t \in Subvol : roots[t].refs > 0}
Live == LiveIn(root)

\* Items under an inode number, whatever their type.
Objectids(t) ==
  DOMAIN t.inode \cup {r.ino : r \in t.ref \cup t.ext \cup t.xattr}
    \cup {e.dir : e \in t.item \cup t.index}

IsDir(t, i) == i \in DOMAIN t.inode /\ t.inode[i].kind = "dir"

\* The record of a directory under a name, found through the name's hash.
Entry(t, d, n) == {e \in t.item : e.dir = d /\ e.name = n}
InodeOf(t, d, n) == {e.id : e \in {x \in Entry(t, d, n) : ~x.root}}

Index(t, d) == {e \in t.index : e.dir = d}
ReadDir(t, d) == {[name |-> e.name, id |-> e.id, root |-> e.root] : e \in Index(t, d)}

NextObjectid(t) == Max(Objectids(t)) + 1

\* Mutant: one past how many entries there are.
CountedIndex(t, d) == Cardinality(Index(t, d)) + 2

NextDirIndex(t, d) ==
  IF Index(t, d) = {} THEN 2 ELSE Max({e.index : e \in Index(t, d)}) + 1

\* Whether d is `ancestor` or below it: up each directory's first INODE_REF,
\* which of a sound tree reaches the top.
Parent(t, d) == Min({r.dir : r \in {x \in t.ref : x.ino = d}})
HasParent(t, d) == \E r \in t.ref : r.ino = d
IsWithin(t, d, ancestor) ==
  \A S \in SUBSET Ino :
    d \in S /\ (\A u \in S : HasParent(t, u) => Parent(t, u) \in S) => ancestor \in S

-----------------------------------------------------------------------------
(* Edits of a tree, each on what the ones before it left.                    *)

ByHash(t, d, n) == {e \in t.item : e.dir = d /\ Hash[e.name] = Hash[n]}
RefsIn(t, i, d) == {r \in t.ref : r.ino = i /\ r.dir = d}
ExtsIn(t, i, d, n) ==
  {r \in t.ext : r.ino = i /\ ExtHash[<<r.dir, r.name>>] = ExtHash[<<d, n>>]}

RefFits(t, i, d) == Cardinality(RefsIn(t, i, d)) < RefRoom
CanAdd(t, d, n, i) ==
  /\ Cardinality(ByHash(t, d, n)) < ItemRoom
  /\ RefFits(t, i, d) \/ (ExtendedIref /\ Cardinality(ExtsIn(t, i, d, n)) < ItemRoom)

AddRef(t, d, n, i, index) ==
  LET r == [ino |-> i, dir |-> d, index |-> index, name |-> n]
  IN  IF RefFits(t, i, d) THEN [t EXCEPT !.ref = @ \cup {r}]
                          ELSE [t EXCEPT !.ext = @ \cup {r}]

\* The directory's two entries, and its size, which counts each.
FileEntry(t, d, n, id, isRoot, index) ==
  [GrowDir(t, d, 2 * Length[n]) EXCEPT
     !.item = @ \cup {[dir |-> d, name |-> n, id |-> id, root |-> isRoot]},
     !.index = {x \in @ : x.dir # d \/ x.index # index}
                 \cup {[index |-> index, dir |-> d, name |-> n, id |-> id, root |-> isRoot]}]

AddEntry(t, d, n, i, index) == FileEntry(AddRef(t, d, n, i, index), d, n, i, FALSE, index)

\* The child's record of a name: in its INODE_REF, or else extended.
RefTo(t, d, n, i) ==
  LET named(set) == {r \in set : r.ino = i /\ r.dir = d /\ r.name = n}
  IN  IF named(t.ref) # {} THEN named(t.ref) ELSE named(t.ext)
CanDrop(t, d, n, i) ==
  \E r \in RefTo(t, d, n, i) : /\ Entry(t, d, n) # {}
                              /\ \E e \in Index(t, d) : e.index = r.index

UnfileEntry(t, d, n, index) ==
  [GrowDir(t, d, -2 * Length[n]) EXCEPT
     !.item = @ \ Entry(t, d, n),
     !.index = {x \in @ : x.dir # d \/ x.index # index}]
DropEntry(t, d, n, i) ==
  LET r == CHOOSE r \in RefTo(t, d, n, i) : TRUE
  IN  UnfileEntry([t EXCEPT !.ref = @ \ {r}, !.ext = @ \ {r}], d, n, r.index)

\* An inode that has lost a name: the count goes down, or everything it owns
\* goes, unless it owns what this does not handle.
Links(t, i) == IF IsDir(t, i) THEN 1 ELSE t.inode[i].nlink
CanDropLink(t, i) ==
  Links(t, i) = 1 => /\ \A r \in t.ref \cup t.ext : r.ino # i
                     /\ \A e \in t.item \cup t.index : e.dir # i
DropLink(t, i) ==
  IF Links(t, i) > 1
  THEN Linked(t, i, -1)
  ELSE [t EXCEPT !.inode = Restrict(@, DOMAIN @ \ {i}), !.xattr = {x \in @ : x.ino # i}]

-----------------------------------------------------------------------------
(* A transaction on tree t, through its handle; a subvolume's is read-only   *)
(* when its ROOT_ITEM says so.                                               *)

Commits(op) ==
  /\ op \in load.ops /\ generation < load.start + load.max
  /\ generation' = generation + 1 /\ UNCHANGED load
\* Mutant: a read-only subvolume is not refused.
WritableAnyway(t) == t \in Live

Writable(t) == t \in Live /\ (t = FsTree \/ ~root[t].ro)

WritingSubvolume(op, t, items) ==
  /\ Commits(op) /\ Writable(t) /\ t \in load.trees
  /\ tree' = [tree EXCEPT ![t] = items]
  /\ UNCHANGED rootVars

FreeName(t, d, n) == IsDir(t, d) /\ Entry(t, d, n) = {}

Create(t, d, n, k, m) ==
  LET i == NextObjectid(tree[t])
      made == PutInode(tree[t], i, NewInode(k, m, generation + 1))
  IN  /\ FreeName(tree[t], d, n) /\ i \in Ino /\ CanAdd(made, d, n, i)
      /\ WritingSubvolume("create", t, AddEntry(made, d, n, i, NextDirIndex(made, d)))

Linkable(t, i) == i \in DOMAIN t.inode /\ ~IsDir(t, i) /\ t.inode[i].nlink < MaxLinks

Link(t, i, d, n) ==
  LET now == tree[t]
  IN  /\ FreeName(now, d, n) /\ Linkable(now, i) /\ CanAdd(now, d, n, i)
      /\ WritingSubvolume("link", t,
           AddEntry(Linked(now, i, 1), d, n, i, NextDirIndex(now, d)))

\* A directory that is removed or replaced holds nothing, by its size and by
\* its index.
NonEmpty(t, i) == t.inode[i].size # 0 \/ Index(t, i) # {}

RemoveName(t, d, n, wantDir) ==
  LET now == tree[t]
  IN  /\ IsDir(now, d)
      /\ \E i \in InodeOf(now, d, n) :
           LET unnamed == DropEntry(now, d, n, i)
           IN  /\ IsDir(now, i) = wantDir /\ (wantDir => ~NonEmpty(now, i))
               /\ CanDrop(now, d, n, i) /\ CanDropLink(unnamed, i)
               /\ WritingSubvolume("remove", t, DropLink(unnamed, i))

\* What the new name replaces, if anything: not the same inode.
Replaceable(t, i, d2, n2, over) ==
  /\ over # i /\ IsDir(t, over) = IsDir(t, i) /\ (IsDir(t, i) => ~NonEmpty(t, over))
  /\ CanDrop(t, d2, n2, over) /\ CanDropLink(DropEntry(t, d2, n2, over), over)
\* Mutant: what is replaced loses its name, and stays.
ReplacedKept(t, d2, n2) ==
  IF Entry(t, d2, n2) = {} THEN t
  ELSE DropEntry(t, d2, n2, CHOOSE i \in InodeOf(t, d2, n2) : TRUE)

Replaced(t, d2, n2) ==
  IF Entry(t, d2, n2) = {} THEN t
  ELSE LET over == CHOOSE i \in InodeOf(t, d2, n2) : TRUE
       IN  DropLink(DropEntry(t, d2, n2, over), over)

BelowItself(t, i, d, d2) == IsDir(t, i) /\ d # d2 /\ IsWithin(t, d2, i)

Rename(t, d, n, d2, n2) ==
  LET now == tree[t]
      index == NextDirIndex(now, d2)
  IN  /\ IsDir(now, d) /\ IsDir(now, d2)
      /\ \E i \in InodeOf(now, d, n) :
           LET free == Replaced(now, d2, n2)
               gone == DropEntry(free, d, n, i)
           IN  /\ ~BelowItself(now, i, d, d2)
               /\ Entry(now, d2, n2) # {} =>
                    \E over \in InodeOf(now, d2, n2) : Replaceable(now, i, d2, n2, over)
               /\ CanDrop(free, d, n, i) /\ CanAdd(gone, d2, n2, i)
               /\ WritingSubvolume("rename", t, AddEntry(gone, d2, n2, i, index))

-----------------------------------------------------------------------------
(* Attributes, of the top-level subvolume only.                              *)

XattrsIn(t, i, n) == {x \in t.xattr : x.ino = i /\ Hash[x.name] = Hash[n]}
Named(t, i, n) == {x \in t.xattr : x.ino = i /\ x.name = n}

SetXattr(i, n, v) ==
  LET now == tree[FsTree]
      rest == now.xattr \ Named(now, i, n)
  IN  /\ i \in DOMAIN now.inode
      /\ Cardinality(XattrsIn(now, i, n) \ Named(now, i, n)) < ItemRoom
      /\ WritingSubvolume("xattr", FsTree,
           [now EXCEPT !.xattr = rest \cup {[ino |-> i, name |-> n, value |-> v]}])

RemoveXattr(i, n) ==
  LET now == tree[FsTree]
  IN  /\ i \in DOMAIN now.inode /\ Named(now, i, n) # {}
      /\ WritingSubvolume("xattr", FsTree, [now EXCEPT !.xattr = @ \ Named(now, i, n)])

ChangeInode(i, m) ==
  LET now == tree[FsTree]
  IN  /\ i \in DOMAIN now.inode
      /\ WritingSubvolume("mode", FsTree, PutInode(now, i, [now.inode[i] EXCEPT !.mode = m]))

-----------------------------------------------------------------------------
(* Subvolumes, filed in a directory of the top level.                        *)

NextSubvolumeId == Max({t \in Subvol : root[t].there} \cup {r.id : r \in rootRef}) + 1

LinkSubvolume(d, n, id) == FileEntry(tree[FsTree], d, n, id, TRUE, NextDirIndex(tree[FsTree], d))

NewSubvolume(op, d, n, items, ro) ==
  LET id == NextSubvolumeId
      now == tree[FsTree]
  IN  /\ Commits(op) /\ ~root[FsTree].ro
      /\ FreeName(now, d, n) /\ id \in Subvol /\ Cardinality(ByHash(now, d, n)) < ItemRoom
      /\ tree' = [tree EXCEPT ![FsTree] = LinkSubvolume(d, n, id), ![id] = items]
      /\ root' = [root EXCEPT ![id] = RootItem(ro)]
      /\ rootRef' = rootRef \cup {[parent |-> FsTree, id |-> id, dir |-> d,
                                   index |-> NextDirIndex(now, d), name |-> n]}
      /\ uuids' = uuids \cup {id}
      /\ UNCHANGED <<orphans, default>>

CreateSubvolume(d, n, m) ==
  NewSubvolume("subvolume", d, n, TopOnly(m, generation + 1), FALSE)

\* The snapshot holds its source as it stood before.
CreateSnapshot(source, d, n, ro) ==
  /\ source \in Live
  /\ NewSubvolume("snapshot", d, n, tree[source], ro)

DeleteSubvolume(d, n) ==
  LET now == tree[FsTree]
  IN  /\ Commits("delete") /\ ~root[FsTree].ro /\ IsDir(now, d)
      /\ \E e \in Entry(now, d, n), r \in rootRef :
           /\ e.root /\ root[e.id].there /\ default # e.id
           /\ \A x \in rootRef : x.parent # e.id
           /\ r.parent = FsTree /\ r.id = e.id /\ r.dir = d
           /\ \E x \in Index(now, d) : x.index = r.index
           /\ now.inode[d].size >= 2 * Length[n]
           /\ tree' = [tree EXCEPT ![FsTree] = UnfileEntry(now, d, n, r.index)]
           /\ root' = [root EXCEPT ![e.id].refs = 0]
           /\ rootRef' = rootRef \ {r}
           /\ uuids' = uuids \ {e.id}
           /\ orphans' = orphans \cup {e.id}
      /\ UNCHANGED default

\* The kernel's cleaner, on a mount of its own, drops a dead tree.
Clean(id) ==
  /\ Commits("delete") /\ id \in orphans
  /\ orphans' = orphans \ {id}
  /\ root' = [root EXCEPT ![id] = NoRoot]
  /\ tree' = [tree EXCEPT ![id] = NoItems]
  /\ UNCHANGED <<rootRef, uuids, default>>

SetReadOnly(id, ro) ==
  /\ Commits("readonly") /\ root[id].there /\ root[id].ro # ro
  /\ ro \/ ~root[id].received
  /\ root' = [root EXCEPT ![id].ro = ro]
  /\ UNCHANGED <<tree, rootRef, uuids, orphans, default>>

SetDefault(id) ==
  /\ Commits("default") /\ id \in Live /\ default # id
  /\ default' = id
  /\ UNCHANGED <<tree, root, rootRef, uuids, orphans>>

-----------------------------------------------------------------------------
(* Paths.                                                                    *)

\* Up each directory's one INODE_REF, to the names from the top.
DirectoryPath(t, d) ==
  LET path[i \in DOMAIN t.inode] ==
        IF i = Top THEN <<>>
        ELSE Append(path[Parent(t, i)], (CHOOSE r \in t.ref : r.ino = i /\ r.dir = Parent(t, i)).name)
  IN  path[d]

\* The path a listing prints for a subvolume: its chain of ROOT_BACKREFs.
PathOf(id) ==
  LET path[t \in Subvol] ==
        IF t = FsTree THEN <<>>
        ELSE LET r == CHOOSE r \in rootRef : r.id = t
             IN  path[r.parent] \o Append(DirectoryPath(tree[r.parent], r.dir), r.name)
  IN  path[id]

\* Mutant: any ROOT_REF of the subvolume will do.
BehindAny(t, d, e) == {r \in rootRef : r.id = e.id}

\* The subvolume behind an entry, when a ROOT_REF of this tree backs it.
SubvolumeBehind(t, d, e) ==
  {r \in rootRef : /\ r.parent = t /\ r.id = e.id /\ r.dir = d /\ r.name = e.name
                   /\ root[e.id].there}

\* One component of a path, from the directories walked so far; no walk at
\* all once it has failed.  An entry nothing backs shows an empty directory.
NoWalk == <<>>
Walk(walked, n) ==
  IF walked = NoWalk THEN NoWalk
  ELSE LET here == walked[Len(walked)]
           found == Entry(tree[here.tree], here.ino, n)
       IN  IF n = DotDot
           THEN IF Len(walked) > 1 THEN SubSeq(walked, 1, Len(walked) - 1) ELSE walked
           ELSE IF here.ino \notin DOMAIN tree[here.tree].inode
                   \/ ~IsDir(tree[here.tree], here.ino) \/ found = {}
           THEN NoWalk
           ELSE LET e == CHOOSE e \in found : TRUE
                IN  Append(walked,
                      IF ~e.root THEN [tree |-> here.tree, ino |-> e.id]
                      ELSE IF SubvolumeBehind(here.tree, here.ino, e) # {}
                      THEN [tree |-> e.id, ino |-> Top]
                      ELSE [tree |-> here.tree, ino |-> -1])
ResolvePath(path) == FoldLeft(Walk, <<[tree |-> FsTree, ino |-> Top]>>, path)

\* The subvolume whose top directory a path names, or none.
SubvolumeAt(path) ==
  LET walked == ResolvePath(path)
  IN  IF walked # NoWalk /\ walked[Len(walked)].ino = Top THEN walked[Len(walked)].tree ELSE 0

-----------------------------------------------------------------------------
Init ==
  /\ load \in Starts
  /\ tree = load.tree /\ root = load.root /\ rootRef = load.rootRef
  /\ uuids = {t \in Live : t # FsTree} /\ orphans = {} /\ default = FsTree
  /\ generation = load.start

OnTree(t) ==
  \E d \in DOMAIN tree[t].inode, n \in Name :
    \/ \E k \in load.kinds, m \in Mode : Create(t, d, n, k, m)
    \/ \E i \in DOMAIN tree[t].inode : Link(t, i, d, n)
    \/ \E wantDir \in BOOLEAN : RemoveName(t, d, n, wantDir)
    \/ \E d2 \in DOMAIN tree[t].inode, n2 \in Name : Rename(t, d, n, d2, n2)

OnAttributes ==
  \E i \in DOMAIN tree[FsTree].inode :
    \/ \E n \in Name, v \in Value : SetXattr(i, n, v)
    \/ \E n \in Name : RemoveXattr(i, n)
    \/ \E m \in Mode : ChangeInode(i, m)

OnSubvolumes ==
  \/ \E d \in DOMAIN tree[FsTree].inode, n \in Name :
       \/ \E m \in Mode : CreateSubvolume(d, n, m)
       \/ \E source \in Live, ro \in BOOLEAN : CreateSnapshot(source, d, n, ro)
       \/ DeleteSubvolume(d, n)
  \/ \E id \in Subvol :
       \/ Clean(id)
       \/ \E ro \in BOOLEAN : SetReadOnly(id, ro)
       \/ SetDefault(id)

Next == (\E t \in Live : OnTree(t)) \/ OnAttributes \/ OnSubvolumes

Spec == Init /\ [][Next]_vars

-----------------------------------------------------------------------------
\* A tree's items, each of the shape the code reads back.
EntryRecord == [dir : Ino, name : Name, id : Ino \cup Subvol, root : BOOLEAN]
IndexRecord == [index : Nat, dir : Ino, name : Name, id : Ino \cup Subvol, root : BOOLEAN]
RefRecord == [ino : Ino, dir : Ino, index : Nat, name : Name \cup {DotDot}]
Inode == [kind : {"file", "dir", "symlink"}, nlink : 1 .. MaxLinks, size : Nat, gen : Nat,
          mode : Mode]
OfShape(t) ==
  /\ t \in [inode : {t.inode}, ref : SUBSET RefRecord, ext : SUBSET RefRecord,
            item : SUBSET EntryRecord, index : SUBSET IndexRecord,
            xattr : SUBSET [ino : Ino, name : Name, value : Value]]
  /\ DOMAIN t.inode \subseteq Ino /\ t.inode \in [DOMAIN t.inode -> Inode]
  /\ \A set \in {t.ref, t.ext, t.item, t.index} : IsFiniteSet(set)

\* A directory's two indexes hold the same names, once each, and every name
\* of an inode has the one reference that says the same, in whichever item
\* it was filed: what a removal finds by, and refuses to go on without.
Unnumbered(e) == [dir |-> e.dir, name |-> e.name, id |-> e.id, root |-> e.root]
RefOf(e) == [ino |-> e.id, dir |-> e.dir, index |-> e.index, name |-> e.name]
EntriesAgree(t) ==
  /\ t.item = {Unnumbered(e) : e \in t.index}
  /\ \A e, f \in t.index : e.dir = f.dir /\ (e.name = f.name \/ e.index = f.index) => e = f
  /\ {RefOf(e) : e \in {e \in t.index : ~e.root}} = {r \in t.ref \cup t.ext : r.name # DotDot}
  /\ t.ref \cap t.ext = {}

\* No item takes more records than it has room for, and nothing is filed
\* under a number no inode has.
ItemsFit(t) ==
  /\ \A r \in t.ref : Cardinality(RefsIn(t, r.ino, r.dir)) <= RefRoom
  /\ \A r \in t.ext : Cardinality(ExtsIn(t, r.ino, r.dir, r.name)) <= ItemRoom
  /\ \A e \in t.item : Cardinality(ByHash(t, e.dir, e.name)) <= ItemRoom
  /\ Objectids(t) = DOMAIN t.inode

\* A file's link count is how many names it has, of which it has one at
\* least; a directory has one name, and an INODE_REF for it, by which one
\* finds up.
NamesOf(t, i) == {e \in t.item : e.id = i /\ ~e.root}
LinksCounted(t) ==
  \A i \in DOMAIN t.inode :
    /\ i # Top => Cardinality(NamesOf(t, i)) = t.inode[i].nlink
    /\ IsDir(t, i) => t.inode[i].nlink = 1 /\ \A r \in t.ext : r.ino # i

\* Names are in directories, and every directory is below the top, which
\* has no name: none was moved below itself.
Rooted(t) ==
  /\ IsDir(t, Top) /\ \A e \in t.item : IsDir(t, e.dir) /\ (~e.root => e.id # Top)
  /\ \A r \in t.ref \cup t.ext : r.name = DotDot => r.ino = Top /\ r.dir = Top
  /\ \A i \in DOMAIN t.inode : IsDir(t, i) => IsWithin(t, i, Top)

TreeExact(t) == EntriesAgree(t) /\ ItemsFit(t) /\ LinksCounted(t) /\ Rooted(t)

\* Every live subvolume but the first has one ROOT_REF, and the entry it
\* names, and the top level has no other entry of a subvolume; it is in the
\* UUID tree, and a dead one is an orphan instead; the default one is live.
EntryOf(r) == [index |-> r.index, dir |-> r.dir, name |-> r.name, id |-> r.id, root |-> TRUE]
RootsAgree(trees, roots, refs, uuid, orphan, named) ==
  LET live == LiveIn(roots)
  IN  /\ FsTree \in live /\ \A t \in live : roots[t].there
      /\ {r.id : r \in refs} = live \ {FsTree}
      /\ \A r, x \in refs : r.id = x.id => r = x
      /\ \A r \in refs : r.parent \in live /\ EntryOf(r) \in trees[r.parent].index
      /\ \A e \in trees[FsTree].index : e.root => \E r \in refs : r.parent = FsTree /\ EntryOf(r) = e
      /\ uuid = live \ {FsTree} /\ orphan = {t \in Subvol : roots[t].there} \ live
      /\ named \in live

\* A volume of which every item, of a name, an inode or a subvolume, tells of
\* the others.
Exact(trees, roots, refs, uuid, orphan, named) ==
  /\ trees \in [Subvol -> {trees[t] : t \in Subvol}] /\ \A t \in Subvol : OfShape(trees[t])
  /\ roots \in [Subvol -> [there : BOOLEAN, refs : {0, 1}, ro : BOOLEAN, received : BOOLEAN]]
  /\ refs \subseteq [parent : Subvol, id : Subvol, dir : Ino, index : Nat, name : Name]
  /\ \A t \in LiveIn(roots) : TreeExact(trees[t])
  /\ RootsAgree(trees, roots, refs, uuid, orphan, named)

\* The volumes to start from are such.
ASSUME StartsAreExact ==
  \A s \in Starts :
    /\ Exact(s.tree, s.root, s.rootRef, LiveIn(s.root) \ {FsTree}, {}, FsTree)
    /\ s.start \in Nat /\ s.kinds \subseteq {"file", "dir", "symlink"}

\* Every item of a name, of an inode and of a subvolume tells of the others.
NamesExact == Exact(tree, root, rootRef, uuids, orphans, default)

\* A directory's size is twice the length of its names: what an rmdir takes
\* for empty is.
SizesCounted ==
  \A t \in Live : \A i \in DOMAIN tree[t].inode :
    IsDir(tree[t], i) =>
      tree[t].inode[i].size =
        MapThenSumSet(LAMBDA e : 2 * Length[e.name], {e \in tree[t].item : e.dir = i})

Verifier == INSTANCE Check
Filed == {t \in Subvol : root[t].there}
Reported(t) == Verifier!Namespace(t, Filed, Length)

\* t short of one record, or with one link counted that is not there.
Damaged(t) ==
  {[t EXCEPT !.item = @ \ {e}] : e \in t.item}
    \cup {[t EXCEPT !.index = @ \ {e}] : e \in t.index}
    \cup {[t EXCEPT !.ref = @ \ {r}] : r \in {r \in t.ref : r.name # DotDot}}
    \cup {[t EXCEPT !.ext = @ \ {r}] : r \in t.ext}
    \cup {[t EXCEPT !.inode = Restrict(@, DOMAIN @ \ {i})] : i \in DOMAIN t.inode}
    \cup {[t EXCEPT !.inode[i].nlink = @ + 1] : i \in DOMAIN t.inode}

\* check (check.rs) reports nothing of what the calls make, but for an entry
\* that a snapshot kept of a subvolume since deleted, which no ROOT_REF backs;
\* and whichever one record a tree loses, it reports something more.
CheckAgrees ==
  /\ \A t \in Filed : \A x \in Reported(tree[t]) :
       /\ x[1] = "no such subvolume"
       /\ \A r \in rootRef : r.parent # t \/ r.id # x[2].id
  /\ \A t \in Live : LET now == Reported(tree[t]) IN
       \A damaged \in Damaged(tree[t]) : ~(Reported(damaged) \subseteq now)

\* The path a listing prints for a subvolume resolves to that subvolume, and
\* `..` from there to the directory that names it; and no other entry, of a
\* snapshot taken when an id was another's, leads there as well.
ListedPathResolves ==
  /\ \A r \in rootRef :
       /\ SubvolumeAt(PathOf(r.id)) = r.id
       /\ LET walked == ResolvePath(PathOf(r.id) \o <<DotDot>>)
          IN  walked[Len(walked)] = [tree |-> r.parent, ino |-> r.dir]
  /\ \A t, u \in Live : \A e \in tree[t].item, f \in tree[u].item :
       /\ e.root /\ f.root /\ e.id = f.id
       /\ SubvolumeBehind(t, e.dir, e) # {} /\ SubvolumeBehind(u, f.dir, f) # {}
       => t = u /\ e = f

\* What reads names finds what is there: check nothing amiss, rmdir what a
\* directory holds, a listed path its subvolume.
ReadersAgree == CheckAgrees /\ SizesCounted /\ ListedPathResolves

\* Nothing changes in a subvolume that is and stays read-only.
ReadOnlyUnchanged ==
  [][\A t \in Live \ {FsTree} : root[t].ro /\ root'[t].ro => tree'[t] = tree[t]]_vars

\* The items of every tree are names as a reader expects them: each call
\* changes the names it was asked to, and no others, at once.
EntriesOf(t) ==
  [k \in {<<e.dir, e.name>> : e \in t.item} |->
    LET e == CHOOSE e \in Entry(t, k[1], k[2]) : TRUE IN [root |-> e.root, id |-> e.id]]
KindsOf(t) == [i \in DOMAIN t.inode |-> t.inode[i].kind]
AttrsOf(t) ==
  [i \in DOMAIN t.inode |->
    {<<"mode", t.inode[i].mode>>}
      \cup {<<x.name, x.value>> : x \in {y \in t.xattr : y.ino = i}}]
LiveTree(t) == IF t \in Live THEN tree[t] ELSE NoItems
Names == INSTANCE Directories WITH
  Tree <- Subvol,
  entry <- [t \in Subvol |-> EntriesOf(LiveTree(t))],
  kind <- [t \in Subvol |-> KindsOf(LiveTree(t))],
  attr <- [t \in Subvol |-> AttrsOf(LiveTree(t))]
ImplementsDirectories == Names!Spec

=============================================================================
