----------------------------- MODULE MCNamespace -----------------------------
(***************************************************************************)
(* Namespace on volumes of a few inodes: a file with two names beside a    *)
(* directory, directories two deep, and a volume with a subvolume, inside  *)
(* which the kernel made another, and one that a stream brought.  Names a  *)
(* and b have one hash, an INODE_REF has room for one name and the items   *)
(* keyed by a hash for two.                                                *)
(***************************************************************************)
EXTENDS Namespace

Lengths == [n \in {"a", "b", "c"} |-> IF n = "c" THEN 2 ELSE 1]
Hashes == [n \in {"a", "b", "c"} |-> IF n = "c" THEN 1 ELSE 0]
ExtHashes == [k \in {1, 2, 3, 4, 5} \X {"a", "b", "c"} |-> IF k[1] = 1 THEN 0 ELSE k[1]]

Holding(t, d, n, k) ==
  LET i == NextObjectid(t)
  IN  AddEntry(PutInode(t, i, NewInode(k, 0, 1)), d, n, i, NextDirIndex(t, d))
Named2(t, d, n, i) ==
  AddEntry(Linked(t, i, 1), d, n, i, NextDirIndex(t, d))
With(t, d, n, id) == FileEntry(t, d, n, id, TRUE, NextDirIndex(t, d))
Bare == TopOnly(0, 1)

\* top: a and b are one file, c a directory.
Flat == Holding(Named2(Holding(Bare, 1, "a", "file"), 1, "b", 2), 1, "c", "dir")
\* top/a/a, directories, and a file in the deepest.
Deep == Holding(Holding(Holding(Bare, 1, "a", "dir"), 2, "a", "dir"), 3, "b", "file")
\* top: a is subvolume 2, c a directory; subvolume 2: a is subvolume 3.
Outer == With(Holding(Bare, 1, "c", "dir"), 1, "a", 2)
Inner == With(Bare, 1, "a", 3)
Ref(p, id, d, i, n) == [parent |-> p, id |-> id, dir |-> d, index |-> i, name |-> n]

On(f) == [t \in Subvol |-> IF t \in DOMAIN f THEN f[t] ELSE NoItems]
Roots(f) == [t \in Subvol |-> IF t \in DOMAIN f THEN f[t] ELSE NoRoot]
Start(items, roots, refs, trees, kinds, max, ops) ==
  [tree |-> On(items), root |-> Roots(roots), rootRef |-> refs, start |-> 1,
   trees |-> trees, kinds |-> kinds, max |-> max, ops |-> ops]
One(items, kinds, max, ops) ==
  Start(1 :> items, 1 :> RootItem(FALSE), {}, {1}, kinds, max, ops)

Received == [RootItem(TRUE) EXCEPT !.received = TRUE]

MCStarts ==
  {One(Flat, {"file"}, 3, {"link", "remove", "rename"}),
   One(Flat, {"dir", "symlink"}, 2, {"create", "remove", "rename"}),
   One(Deep, {"dir"}, 4, {"remove", "rename"}),
   One(Flat, {"file"}, 3, {"xattr", "mode", "remove", "create"}),
   Start((1 :> Outer) @@ (2 :> Inner) @@ (3 :> Bare),
         (1 :> RootItem(FALSE)) @@ (2 :> RootItem(FALSE)) @@ (3 :> Received),
         {Ref(1, 2, 1, 3, "a"), Ref(2, 3, 1, 2, "a")}, {}, {}, 3,
         {"subvolume", "snapshot", "delete", "default"}),
   Start((1 :> Outer) @@ (2 :> Bare), (1 :> RootItem(FALSE)) @@ (2 :> RootItem(FALSE)),
         {Ref(1, 2, 1, 3, "a")}, {2, 3}, {"file"}, 3,
         {"snapshot", "delete", "readonly", "create"}),
   Start(1 :> Bare, 1 :> RootItem(FALSE), {}, {1}, {"dir"}, 4,
         {"subvolume", "snapshot", "delete", "rename"})}

=============================================================================
