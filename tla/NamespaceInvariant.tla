------------------------- MODULE NamespaceInvariant -------------------------
(***************************************************************************)
(* Proofs about Namespace's trees: what filing a name, dropping one and    *)
(* dropping an inode leave of a tree whose items agree, for any names,     *)
(* hashes, room in an item, inodes and links.                              *)
(***************************************************************************)
EXTENDS Namespace, FiniteSetTheorems, TLAPS

-----------------------------------------------------------------------------
\* Numbers.

(* The greatest of a finite set of numbers.                                 *)
LEMMA Greatest ==
  ASSUME NEW T \in SUBSET Nat, T # {}, IsFiniteSet(T)
  PROVE  Max(T) \in T /\ \A j \in T : j <= Max(T)
<1>1. SUBSET T = FiniteSubsetsOf(T)
  BY FS_FiniteSubsetsOfFinite
<1> DEFINE seg == [m \in T |-> {j \in T : m <= j}]
           U == {seg[m] : m \in T}
<1>2. /\ \A m \in T : seg[m] \in U /\ seg[m] = {j \in T : m <= j}
      /\ \A x \in U : \E m \in T : x = seg[m]
      /\ U \in SUBSET SUBSET T /\ U # {}
  OBVIOUS
<1> HIDE DEF seg, U
<1>3. PICK x \in U : \A y \in U : ~ (<<y, x>> \in StrictSubsetOrdering(T))
  BY <1>1, <1>2, FS_StrictSubsetOrderingWellFounded, WFMin
<1>4. PICK m \in T : x = seg[m]
  BY <1>2
<1>5. ASSUME NEW j \in T, ~ (j <= m) PROVE FALSE
  <2>1. j \in Nat /\ m \in Nat /\ m < j
    BY <1>5
  <2>2. m \in seg[m] /\ m \notin seg[j]
    BY <1>2, <2>1
  <2>3. \A i \in seg[j] : i \in T /\ i \in Nat /\ j <= i
    BY <1>2
  <2>4. \A i \in seg[j] : i \in seg[m]
    BY <1>2, <2>1, <2>3
  <2>5. <<seg[j], seg[m]>> \in (SUBSET T) \X (SUBSET T) /\ seg[j] \in U
    BY <1>2
  <2>6. <<seg[j], seg[m]>> \in StrictSubsetOrdering(T)
    BY <2>2, <2>4, <2>5 DEF StrictSubsetOrdering
  <2>7. QED
    BY <1>3, <1>4, <2>5, <2>6
<1>6. \E y \in T : \A j \in T : j <= y
  BY <1>5
<1>7. QED
  BY <1>6 DEF Max

(* A size never goes below zero, whatever is taken off.                     *)
LEMMA Floor ==
  ASSUME NEW x \in Int
  PROVE  Max({0, x}) \in Nat
<1>1. PICK y \in {0, x} : \A j \in {0, x} : j <= y
  BY SMT
<1>2. Max({0, x}) \in {0, x} /\ \A j \in {0, x} : j <= Max({0, x})
  BY <1>1 DEF Max
<1>3. QED
  BY <1>2

-----------------------------------------------------------------------------
\* What each edit of a tree leaves.

\* The same inodes, but for the sizes of directories and when they were made.
SameInodes(t, u) ==
  /\ DOMAIN u.inode = DOMAIN t.inode
  /\ \A i \in DOMAIN t.inode :
       /\ u.inode[i].kind = t.inode[i].kind /\ u.inode[i].nlink = t.inode[i].nlink
       /\ u.inode[i].mode = t.inode[i].mode

NewEntry(d, n, id, isRoot, index) ==
  [index |-> index, dir |-> d, name |-> n, id |-> id, root |-> isRoot]

(* What an edit of a tree's records leaves of the record that holds them.   *)
LEMMA TwoFields ==
  ASSUME NEW a, NEW b, NEW c, NEW d, NEW e, NEW f,
         NEW g \in [inode : {a}, ref : {b}, ext : {c}, item : {d}, index : {e}, xattr : {f}],
         NEW p, NEW q
  PROVE  LET u == [g EXCEPT !.item = p, !.index = q]
         IN  /\ u \in [inode : {a}, ref : {b}, ext : {c}, item : {p}, index : {q}, xattr : {f}]
             /\ u.inode = a /\ u.ref = b /\ u.ext = c /\ u.item = p /\ u.index = q
             /\ u.xattr = f
OBVIOUS

(* The records of references replaced, and nothing else.                     *)
LEMMA TwoRefs ==
  ASSUME NEW a, NEW b, NEW c, NEW d, NEW e, NEW f,
         NEW g \in [inode : {a}, ref : {b}, ext : {c}, item : {d}, index : {e}, xattr : {f}],
         NEW p, NEW q
  PROVE  LET u == [g EXCEPT !.ref = p, !.ext = q]
         IN  /\ u \in [inode : {a}, ref : {p}, ext : {q}, item : {d}, index : {e}, xattr : {f}]
             /\ u.inode = a /\ u.ref = p /\ u.ext = q /\ u.item = d /\ u.index = e
             /\ u.xattr = f
OBVIOUS

(* Those of one kind replaced.                                               *)
LEMMA OneRef ==
  ASSUME NEW a, NEW b, NEW c, NEW d, NEW e, NEW f,
         NEW g \in [inode : {a}, ref : {b}, ext : {c}, item : {d}, index : {e}, xattr : {f}],
         NEW p
  PROVE  LET u == [g EXCEPT !.ref = p]
             w == [g EXCEPT !.ext = p]
         IN  /\ u \in [inode : {a}, ref : {p}, ext : {c}, item : {d}, index : {e}, xattr : {f}]
             /\ u.inode = a /\ u.ref = p /\ u.ext = c /\ u.item = d /\ u.index = e
             /\ u.xattr = f
             /\ w \in [inode : {a}, ref : {b}, ext : {p}, item : {d}, index : {e}, xattr : {f}]
             /\ w.inode = a /\ w.ref = b /\ w.ext = p /\ w.item = d /\ w.index = e
             /\ w.xattr = f
OBVIOUS

(* A tree's fields.                                                         *)
LEMMA Fields ==
  ASSUME NEW t, OfShape(t)
  PROVE  /\ t \in [inode : {t.inode}, ref : {t.ref}, ext : {t.ext}, item : {t.item},
                   index : {t.index}, xattr : {t.xattr}]
         /\ t.ref \subseteq RefRecord /\ t.ext \subseteq RefRecord
         /\ t.item \subseteq EntryRecord /\ t.index \subseteq IndexRecord
         /\ t.xattr \subseteq [ino : Ino, name : Name, value : Value]
         /\ DOMAIN t.inode \subseteq Ino /\ t.inode \in [DOMAIN t.inode -> Inode]
         /\ IsFiniteSet(t.ref) /\ IsFiniteSet(t.ext)
         /\ IsFiniteSet(t.item) /\ IsFiniteSet(t.index)
BY DEF OfShape

(* An inode's size, links and mode.                                         *)
LEMMA SizeOf ==
  ASSUME NEW x \in Inode, NEW v \in Nat
  PROVE  LET y == [x EXCEPT !.size = v]
         IN  y \in Inode /\ y.kind = x.kind /\ y.nlink = x.nlink /\ y.mode = x.mode
BY DEF Inode

(* An inode with another link count.                                         *)
LEMMA LinksOf ==
  ASSUME NEW x \in Inode, NEW v \in 1 .. MaxLinks
  PROVE  LET y == [x EXCEPT !.nlink = v]
         IN  y \in Inode /\ y.kind = x.kind /\ y.nlink = v /\ y.mode = x.mode
BY DEF Inode

(* An inode with another mode.                                               *)
LEMMA ModeOf ==
  ASSUME NEW x \in Inode, NEW v \in Mode
  PROVE  LET y == [x EXCEPT !.mode = v]
         IN  y \in Inode /\ y.kind = x.kind /\ y.nlink = x.nlink /\ y.mode = v
BY DEF Inode

(* An inode's item, put.                                                    *)
LEMMA Putting ==
  ASSUME NEW t, OfShape(t), NEW i \in Ino, NEW x \in Inode
  PROVE  LET u == PutInode(t, i, x)
         IN  /\ OfShape(u)
             /\ DOMAIN u.inode = DOMAIN t.inode \cup {i} /\ u.inode[i] = x
             /\ \A j \in DOMAIN t.inode : j # i => u.inode[j] = t.inode[j]
             /\ u.ref = t.ref /\ u.ext = t.ext /\ u.item = t.item /\ u.index = t.index
             /\ u.xattr = t.xattr
<1> DEFINE u == PutInode(t, i, x)
           f == [j \in DOMAIN t.inode \cup {i} |-> IF j = i THEN x ELSE t.inode[j]]
<1>1. /\ DOMAIN f = DOMAIN t.inode \cup {i} /\ f[i] = x
      /\ \A j \in DOMAIN t.inode : j # i => f[j] = t.inode[j]
      /\ f \in [DOMAIN f -> Inode] /\ DOMAIN f \subseteq Ino
  BY Fields
<1>2. u = [t EXCEPT !.inode = f]
  BY DEF PutInode
<1> HIDE DEF f
<1>3. /\ u \in [inode : {f}, ref : {t.ref}, ext : {t.ext}, item : {t.item},
                index : {t.index}, xattr : {t.xattr}]
      /\ u.inode = f /\ u.ref = t.ref /\ u.ext = t.ext /\ u.item = t.item /\ u.index = t.index
      /\ u.xattr = t.xattr
  BY <1>2, Fields
<1> HIDE DEF u
<1>4. OfShape(u)
  BY <1>1, <1>3, Fields DEF OfShape
<1>5. QED
  BY <1>1, <1>3, <1>4 DEF u

(* A directory's size, changed.                                             *)
LEMMA Growing ==
  ASSUME NEW t, OfShape(t), NEW d \in DOMAIN t.inode, NEW by \in Int
  PROVE  LET u == GrowDir(t, d, by)
         IN  /\ OfShape(u) /\ SameInodes(t, u)
             /\ u.ref = t.ref /\ u.ext = t.ext /\ u.item = t.item /\ u.index = t.index
             /\ u.xattr = t.xattr
<1> DEFINE x == t.inode[d]
           v == Max({0, x.size + by})
           y == [x EXCEPT !.size = v]
<1>1. x \in Inode /\ x.size \in Nat /\ d \in Ino
  BY Fields DEF Inode
<1>2. v \in Nat
  <2>1. x.size + by \in Int
    BY <1>1
  <2>2. QED
    BY <2>1, Floor
<1> HIDE DEF v, x
<1>3. y \in Inode /\ y.kind = x.kind /\ y.nlink = x.nlink /\ y.mode = x.mode
  BY <1>1, <1>2, SizeOf
<1> HIDE DEF y
<1>4. GrowDir(t, d, by) = PutInode(t, d, y)
  BY DEF GrowDir, x, y, v
<1> DEFINE u == PutInode(t, d, y)
<1>5. /\ OfShape(u) /\ DOMAIN u.inode = DOMAIN t.inode \cup {d} /\ u.inode[d] = y
      /\ \A j \in DOMAIN t.inode : j # d => u.inode[j] = t.inode[j]
      /\ u.ref = t.ref /\ u.ext = t.ext /\ u.item = t.item /\ u.index = t.index
      /\ u.xattr = t.xattr
  BY <1>1, <1>3, Putting
<1> HIDE DEF u
<1>6. SameInodes(t, u)
  BY <1>3, <1>5 DEF SameInodes, x
<1>7. QED
  BY <1>4, <1>5, <1>6 DEF u

(* The two entries of a name, filed.                                        *)
LEMMA Filing ==
  ASSUME NEW t, OfShape(t), NEW d \in DOMAIN t.inode, NEW n \in Name,
         NEW id \in Ino \cup Subvol, NEW isRoot \in BOOLEAN, NEW index \in Nat,
         \A e \in t.index : e.dir = d => e.index # index
  PROVE  LET u == FileEntry(t, d, n, id, isRoot, index)
             e == NewEntry(d, n, id, isRoot, index)
         IN  /\ OfShape(u) /\ SameInodes(t, u)
             /\ u.item = t.item \cup {Unnumbered(e)} /\ u.index = t.index \cup {e}
             /\ u.ref = t.ref /\ u.ext = t.ext /\ u.xattr = t.xattr
<1> DEFINE g == GrowDir(t, d, 2 * Length[n])
           e == NewEntry(d, n, id, isRoot, index)
           item == t.item \cup {[dir |-> d, name |-> n, id |-> id, root |-> isRoot]}
           u == FileEntry(t, d, n, id, isRoot, index)
<1>1. Length[n] \in Nat /\ 2 * Length[n] \in Int
  BY NamespaceAssumption
<1>2. /\ OfShape(g) /\ SameInodes(t, g)
      /\ g.ref = t.ref /\ g.ext = t.ext /\ g.item = t.item /\ g.index = t.index
      /\ g.xattr = t.xattr
  BY <1>1, Growing
<1>3. {x \in t.index : x.dir # d \/ x.index # index} = t.index
  OBVIOUS
<1> HIDE DEF g
<1>4. u = [g EXCEPT !.item = item, !.index = t.index \cup {e}]
  BY <1>2, <1>3 DEF FileEntry, g, NewEntry
<1>5. /\ e \in IndexRecord /\ Unnumbered(e) \in EntryRecord
      /\ Unnumbered(e) = [dir |-> d, name |-> n, id |-> id, root |-> isRoot]
  BY Fields DEF Unnumbered, NewEntry, IndexRecord, EntryRecord
<1>6. item = t.item \cup {Unnumbered(e)}
  BY <1>5
<1> HIDE DEF e, item, u
<1>7. /\ u \in [inode : {g.inode}, ref : {g.ref}, ext : {g.ext}, item : {item},
                index : {t.index \cup {e}}, xattr : {g.xattr}]
      /\ u.inode = g.inode /\ u.ref = g.ref /\ u.ext = g.ext /\ u.item = item
      /\ u.index = t.index \cup {e} /\ u.xattr = g.xattr
  <2>1. g \in [inode : {g.inode}, ref : {g.ref}, ext : {g.ext}, item : {g.item},
               index : {g.index}, xattr : {g.xattr}]
    BY <1>2, Fields
  <2>2. QED
    BY <1>4, <2>1, TwoFields
<1>8. /\ IsFiniteSet(u.item) /\ IsFiniteSet(u.index)
      /\ u.item \subseteq EntryRecord /\ u.index \subseteq IndexRecord
  <2>1. /\ IsFiniteSet(t.item) /\ IsFiniteSet(t.index)
        /\ t.item \subseteq EntryRecord /\ t.index \subseteq IndexRecord
    BY Fields
  <2>2. IsFiniteSet(t.item \cup {Unnumbered(e)}) /\ IsFiniteSet(t.index \cup {e})
    BY <2>1, FS_AddElement
  <2>3. QED
    BY <1>5, <1>6, <1>7, <2>1, <2>2
<1>9. OfShape(u)
  BY <1>2, <1>7, <1>8, Fields DEF OfShape
<1>10. SameInodes(t, u)
  BY <1>2, <1>7 DEF SameInodes
<1>11. QED
  BY <1>2, <1>6, <1>7, <1>9, <1>10 DEF u, e

(* The two entries of a name, unfiled.                                      *)
LEMMA Unfiling ==
  ASSUME NEW t, OfShape(t), NEW d \in DOMAIN t.inode, NEW n \in Name, NEW x \in t.index,
         x.dir = d, x.name = n, Entry(t, d, n) = {Unnumbered(x)},
         \A e \in t.index : e.dir = d /\ e.index = x.index => e = x
  PROVE  LET u == UnfileEntry(t, d, n, x.index)
         IN  /\ OfShape(u) /\ SameInodes(t, u)
             /\ u.item = t.item \ {Unnumbered(x)} /\ u.index = t.index \ {x}
             /\ u.ref = t.ref /\ u.ext = t.ext /\ u.xattr = t.xattr
<1> DEFINE g == GrowDir(t, d, -2 * Length[n])
           item == t.item \ {Unnumbered(x)}
           index == t.index \ {x}
           u == UnfileEntry(t, d, n, x.index)
<1>1. Length[n] \in Nat /\ -2 * Length[n] \in Int
  BY NamespaceAssumption
<1>2. /\ OfShape(g) /\ SameInodes(t, g)
      /\ g.ref = t.ref /\ g.ext = t.ext /\ g.item = t.item /\ g.index = t.index
      /\ g.xattr = t.xattr
  BY <1>1, Growing
<1>3. {e \in t.index : e.dir # d \/ e.index # x.index} = index
  OBVIOUS
<1> HIDE DEF g, index
<1>4. u = [g EXCEPT !.item = item, !.index = index]
  BY <1>2, <1>3 DEF UnfileEntry, g
<1> HIDE DEF item, u
<1>5. /\ u \in [inode : {g.inode}, ref : {g.ref}, ext : {g.ext}, item : {item},
                index : {index}, xattr : {g.xattr}]
      /\ u.inode = g.inode /\ u.ref = g.ref /\ u.ext = g.ext /\ u.item = item
      /\ u.index = index /\ u.xattr = g.xattr
  <2>1. g \in [inode : {g.inode}, ref : {g.ref}, ext : {g.ext}, item : {g.item},
               index : {g.index}, xattr : {g.xattr}]
    BY <1>2, Fields
  <2>2. QED
    BY <1>4, <2>1, TwoFields
<1>6. /\ IsFiniteSet(u.item) /\ IsFiniteSet(u.index)
      /\ u.item \subseteq EntryRecord /\ u.index \subseteq IndexRecord
  BY <1>5, Fields, FS_Subset DEF item, index
<1>7. OfShape(u)
  BY <1>2, <1>5, <1>6, Fields DEF OfShape
<1>8. SameInodes(t, u)
  BY <1>2, <1>5 DEF SameInodes
<1>9. QED
  BY <1>2, <1>5, <1>7, <1>8 DEF u, item, index

-----------------------------------------------------------------------------
\* What holds of a tree between the edits of one call, too: everything but
\* what is counted and where a directory is.

DirsSound(t) ==
  /\ IsDir(t, Top) /\ \A e \in t.item : IsDir(t, e.dir) /\ (~e.root => e.id # Top)
  /\ \A r \in t.ref \cup t.ext : r.name = DotDot => r.ino = Top /\ r.dir = Top
  /\ \A i \in DOMAIN t.inode :
       IsDir(t, i) => t.inode[i].nlink = 1 /\ \A r \in t.ext : r.ino # i

Sound(t) == OfShape(t) /\ EntriesAgree(t) /\ ItemsFit(t) /\ DirsSound(t)

(* An entry of one of a directory's indexes is in the other.                *)
LEMMA Indexed ==
  ASSUME NEW t, EntriesAgree(t)
  PROVE  /\ \A x \in t.index :
              /\ Unnumbered(x) \in t.item
              /\ Unnumbered(x).dir = x.dir /\ Unnumbered(x).name = x.name
              /\ Unnumbered(x).id = x.id /\ Unnumbered(x).root = x.root
         /\ \A e \in t.item : \E x \in t.index : e = Unnumbered(x)
         /\ \A x, y \in t.index : Unnumbered(x) = Unnumbered(y) => x = y
BY DEF EntriesAgree, Unnumbered

(* A name has one entry, and an index one.                                  *)
LEMMA OneEntry ==
  ASSUME NEW t, EntriesAgree(t), NEW x \in t.index
  PROVE  /\ Entry(t, x.dir, x.name) = {Unnumbered(x)}
         /\ \A e \in t.index : e.dir = x.dir /\ e.index = x.index => e = x
<1>1. \A e \in t.index : e.dir = x.dir /\ (e.name = x.name \/ e.index = x.index) => e = x
  BY DEF EntriesAgree
<1>2. \A e \in t.item : e.dir = x.dir /\ e.name = x.name => e = Unnumbered(x)
  BY <1>1, Indexed
<1>3. QED
  BY <1>1, <1>2, Indexed DEF Entry

(* The name of an inode has one reference.                                  *)
LEMMA Referenced ==
  ASSUME NEW t, OfShape(t), EntriesAgree(t)
  PROVE  /\ \A x \in t.index :
              /\ RefOf(x).ino = x.id /\ RefOf(x).dir = x.dir
              /\ RefOf(x).index = x.index /\ RefOf(x).name = x.name
              /\ ~x.root => RefOf(x) \in t.ref \cup t.ext
         /\ \A r \in t.ref \cup t.ext :
              r.name # DotDot => \E x \in t.index : ~x.root /\ r = RefOf(x)
         /\ \A x, y \in t.index :
              RefOf(x) = RefOf(y) /\ ~x.root /\ ~y.root => x = y
<1>1. {RefOf(e) : e \in {e \in t.index : ~e.root}} = {r \in t.ref \cup t.ext : r.name # DotDot}
  BY DEF EntriesAgree
<1>2. \A x \in t.index : /\ RefOf(x).ino = x.id /\ RefOf(x).dir = x.dir
                         /\ RefOf(x).index = x.index /\ RefOf(x).name = x.name
  BY DEF RefOf
<1>3. \A x \in t.index : ~x.root => RefOf(x) \in t.ref \cup t.ext
  BY <1>1
<1>4. \A r \in t.ref \cup t.ext :
        r.name # DotDot => \E x \in t.index : ~x.root /\ r = RefOf(x)
  BY <1>1
<1>5. \A x, y \in t.index : RefOf(x) = RefOf(y) => x = y
  BY <1>2 DEF EntriesAgree
<1>6. QED
  BY <1>2, <1>3, <1>4, <1>5

(* The reference of a name is found, wherever it is filed.                  *)
LEMMA OneReference ==
  ASSUME NEW t, OfShape(t), EntriesAgree(t), NEW x \in t.index, ~x.root
  PROVE  RefTo(t, x.dir, x.name, x.id) = {RefOf(x)}
<1> DEFINE named(set) == {r \in set : r.ino = x.id /\ r.dir = x.dir /\ r.name = x.name}
<1>1. x.name # DotDot
  BY Fields, NamespaceAssumption DEF IndexRecord
<1>2. \A r \in t.ref \cup t.ext : r.ino = x.id /\ r.dir = x.dir /\ r.name = x.name => r = RefOf(x)
  BY <1>1, Referenced DEF EntriesAgree
<1>3. named(t.ref) \subseteq {RefOf(x)} /\ named(t.ext) \subseteq {RefOf(x)}
  BY <1>2
<1>4. RefOf(x) \in named(t.ref) \/ RefOf(x) \in named(t.ext)
  BY Referenced
<1>5. QED
  BY <1>3, <1>4 DEF RefTo

(* Items that lose records are no fuller.                                   *)
LEMMA Fewer ==
  ASSUME NEW t, OfShape(t), ItemsFit(t), NEW u,
         u.ref \subseteq t.ref, u.ext \subseteq t.ext, u.item \subseteq t.item
  PROVE  /\ \A r \in u.ref : Cardinality(RefsIn(u, r.ino, r.dir)) <= RefRoom
         /\ \A r \in u.ext : Cardinality(ExtsIn(u, r.ino, r.dir, r.name)) <= ItemRoom
         /\ \A e \in u.item : Cardinality(ByHash(u, e.dir, e.name)) <= ItemRoom
<1>1. ASSUME NEW S, IsFiniteSet(S), NEW T, T \subseteq S, NEW m \in Nat, Cardinality(S) <= m
      PROVE  Cardinality(T) <= m
  <2>1. IsFiniteSet(T) /\ Cardinality(T) <= Cardinality(S)
    BY <1>1, FS_Subset
  <2>2. Cardinality(T) \in Nat /\ Cardinality(S) \in Nat
    BY <1>1, <2>1, FS_CardinalityType
  <2>3. QED
    BY <1>1, <2>1, <2>2
<1>2. RefRoom \in Nat /\ ItemRoom \in Nat
  BY NamespaceAssumption
<1>3. ASSUME NEW r \in u.ref PROVE Cardinality(RefsIn(u, r.ino, r.dir)) <= RefRoom
  <2>1. RefsIn(t, r.ino, r.dir) \subseteq t.ref /\ RefsIn(u, r.ino, r.dir) \subseteq RefsIn(t, r.ino, r.dir)
    BY DEF RefsIn
  <2>2. IsFiniteSet(RefsIn(t, r.ino, r.dir))
    BY <2>1, Fields, FS_Subset
  <2>3. Cardinality(RefsIn(t, r.ino, r.dir)) <= RefRoom
    BY DEF ItemsFit
  <2>4. QED
    BY <1>1, <1>2, <2>1, <2>2, <2>3
<1>4. ASSUME NEW r \in u.ext PROVE Cardinality(ExtsIn(u, r.ino, r.dir, r.name)) <= ItemRoom
  <2>1. /\ ExtsIn(t, r.ino, r.dir, r.name) \subseteq t.ext
        /\ ExtsIn(u, r.ino, r.dir, r.name) \subseteq ExtsIn(t, r.ino, r.dir, r.name)
    BY DEF ExtsIn
  <2>2. IsFiniteSet(ExtsIn(t, r.ino, r.dir, r.name))
    BY <2>1, Fields, FS_Subset
  <2>3. Cardinality(ExtsIn(t, r.ino, r.dir, r.name)) <= ItemRoom
    BY DEF ItemsFit
  <2>4. QED
    BY <1>1, <1>2, <2>1, <2>2, <2>3
<1>5. ASSUME NEW e \in u.item PROVE Cardinality(ByHash(u, e.dir, e.name)) <= ItemRoom
  <2>1. /\ ByHash(t, e.dir, e.name) \subseteq t.item
        /\ ByHash(u, e.dir, e.name) \subseteq ByHash(t, e.dir, e.name)
    BY DEF ByHash
  <2>2. IsFiniteSet(ByHash(t, e.dir, e.name))
    BY <2>1, Fields, FS_Subset
  <2>3. Cardinality(ByHash(t, e.dir, e.name)) <= ItemRoom
    BY DEF ItemsFit
  <2>4. QED
    BY <1>1, <1>2, <2>1, <2>2, <2>3
<1>6. QED
  BY <1>3, <1>4, <1>5

\* t without a name of an inode: its two entries and its reference.
Dropped(t, u, x) ==
  /\ SameInodes(t, u) /\ u.xattr = t.xattr
  /\ u.item = t.item \ {Unnumbered(x)} /\ u.index = t.index \ {x}
  /\ u.ref = t.ref \ {RefOf(x)} /\ u.ext = t.ext \ {RefOf(x)}

(* drop_entry takes one name, and all of it.                                *)
LEMMA DropsOne ==
  ASSUME NEW t, Sound(t), NEW x \in t.index, ~x.root
  PROVE  LET u == DropEntry(t, x.dir, x.name, x.id)
         IN  OfShape(u) /\ Dropped(t, u, x)
<1> DEFINE r == RefOf(x)
           g == [t EXCEPT !.ref = @ \ {r}, !.ext = @ \ {r}]
           u == DropEntry(t, x.dir, x.name, x.id)
<1>1. OfShape(t) /\ EntriesAgree(t)
  BY DEF Sound
<1>2. RefTo(t, x.dir, x.name, x.id) = {r}
  BY <1>1, OneReference
<1>3. u = UnfileEntry(g, x.dir, x.name, x.index)
  <2>1. (CHOOSE y \in {r} : TRUE) = r
    OBVIOUS
  <2>2. r.index = x.index
    BY DEF RefOf
  <2>3. QED
    BY <1>2, <2>1, <2>2 DEF DropEntry
<1>4. OfShape(g) /\ g.inode = t.inode /\ g.item = t.item /\ g.index = t.index
      /\ g.ref = t.ref \ {r} /\ g.ext = t.ext \ {r} /\ g.xattr = t.xattr
  <2> HIDE DEF r
  <2>1. g \in [inode : {t.inode}, ref : {t.ref \ {r}}, ext : {t.ext \ {r}}, item : {t.item},
               index : {t.index}, xattr : {t.xattr}]
        /\ g.inode = t.inode /\ g.item = t.item /\ g.index = t.index
        /\ g.ref = t.ref \ {r} /\ g.ext = t.ext \ {r} /\ g.xattr = t.xattr
    <3>1. t \in [inode : {t.inode}, ref : {t.ref}, ext : {t.ext}, item : {t.item},
                 index : {t.index}, xattr : {t.xattr}]
      BY <1>1, Fields
    <3> DEFINE p == t.ref \ {r}
               q == t.ext \ {r}
    <3> HIDE DEF p, q
    <3>2. g = [t EXCEPT !.ref = p, !.ext = q]
      BY DEF p, q
    <3> HIDE DEF g
    <3>3. g \in [inode : {t.inode}, ref : {p}, ext : {q}, item : {t.item},
               index : {t.index}, xattr : {t.xattr}]
        /\ g.inode = t.inode /\ g.item = t.item /\ g.index = t.index
        /\ g.ref = p /\ g.ext = q /\ g.xattr = t.xattr
      BY <3>1, <3>2, TwoRefs
    <3>4. QED
      BY <3>3 DEF p, q
  <2> HIDE DEF g
  <2>2. IsFiniteSet(t.ref \ {r}) /\ IsFiniteSet(t.ext \ {r})
    BY <1>1, Fields, FS_RemoveElement
  <2>3. QED
    BY <1>1, <2>1, <2>2, Fields DEF OfShape
<1> HIDE DEF g, r
<1>5. x.dir \in DOMAIN g.inode /\ x.name \in Name
  <2>1. Unnumbered(x) \in t.item /\ Unnumbered(x).dir = x.dir
    BY <1>1, Indexed
  <2>2. IsDir(t, x.dir)
    BY <2>1 DEF Sound, DirsSound
  <2>3. QED
    BY <1>1, <1>4, <2>2, Fields DEF IsDir, IndexRecord
<1>6. /\ Entry(g, x.dir, x.name) = {Unnumbered(x)}
      /\ \A e \in g.index : e.dir = x.dir /\ e.index = x.index => e = x
  <2>1. Entry(g, x.dir, x.name) = Entry(t, x.dir, x.name)
    BY <1>4 DEF Entry
  <2>2. QED
    BY <1>1, <1>4, <2>1, OneEntry
<1> DEFINE w == UnfileEntry(g, x.dir, x.name, x.index)
<1>7. /\ OfShape(w) /\ SameInodes(g, w)
      /\ w.item = g.item \ {Unnumbered(x)} /\ w.index = g.index \ {x}
      /\ w.ref = g.ref /\ w.ext = g.ext /\ w.xattr = g.xattr
  BY <1>4, <1>5, <1>6, Unfiling
<1> HIDE DEF w, u
<1>8. SameInodes(t, w)
  BY <1>4, <1>7 DEF SameInodes
<1>9. OfShape(u) /\ Dropped(t, u, x)
  BY <1>3, <1>4, <1>7, <1>8 DEF Dropped, w, r
<1>10. QED
  BY <1>9 DEF u

(* A tree without a name is as sound.                                       *)
LEMMA DroppedSound ==
  ASSUME NEW t, Sound(t), NEW x \in t.index, ~x.root, NEW u, OfShape(u), Dropped(t, u, x)
  PROVE  Sound(u)
<1>1. OfShape(t) /\ EntriesAgree(t) /\ ItemsFit(t) /\ DirsSound(t)
  BY DEF Sound
<1>2. EntriesAgree(u)
  <2>1. u.item = {Unnumbered(e) : e \in u.index}
    <3>1. ASSUME NEW e \in u.item PROVE \E y \in u.index : e = Unnumbered(y)
      BY <1>1, Indexed DEF Dropped
    <3>2. ASSUME NEW y \in u.index PROVE Unnumbered(y) \in u.item
      BY <1>1, Indexed DEF Dropped
    <3>3. QED
      BY <3>1, <3>2
  <2>2. \A e, f \in u.index : e.dir = f.dir /\ (e.name = f.name \/ e.index = f.index) => e = f
    BY <1>1 DEF Dropped, EntriesAgree
  <2>3. {RefOf(e) : e \in {e \in u.index : ~e.root}} = {r \in u.ref \cup u.ext : r.name # DotDot}
    <3>1. ASSUME NEW r \in u.ref \cup u.ext, r.name # DotDot
          PROVE  \E e \in u.index : ~e.root /\ r = RefOf(e)
      BY <1>1, <3>1, Referenced DEF Dropped
    <3>2. ASSUME NEW e \in u.index, ~e.root
          PROVE  RefOf(e) \in u.ref \cup u.ext /\ RefOf(e).name # DotDot
      <4>1. e \in t.index /\ e # x
        BY DEF Dropped
      <4>2. RefOf(e) \in t.ref \cup t.ext /\ RefOf(e) # RefOf(x) /\ RefOf(e).name = e.name
        BY <1>1, <3>2, <4>1, Referenced
      <4>3. e.name \in Name
        BY <1>1, <4>1, Fields DEF IndexRecord
      <4>4. QED
        BY <4>2, <4>3, NamespaceAssumption DEF Dropped
    <3>3. QED
      BY <3>1, <3>2
  <2>4. u.ref \cap u.ext = {}
    BY <1>1 DEF Dropped, EntriesAgree
  <2>5. QED
    BY <2>1, <2>2, <2>3, <2>4 DEF EntriesAgree
<1>3. ItemsFit(u)
  <2>1. /\ u.ref \subseteq t.ref /\ u.ext \subseteq t.ext /\ u.item \subseteq t.item
        /\ u.index \subseteq t.index /\ u.xattr = t.xattr /\ DOMAIN u.inode = DOMAIN t.inode
    BY DEF Dropped, SameInodes
  <2>2. Objectids(u) = DOMAIN u.inode
    <3>1. Objectids(t) = DOMAIN t.inode
      BY <1>1 DEF ItemsFit
    <3>2. Objectids(u) \subseteq Objectids(t)
      BY <2>1 DEF Objectids
    <3>3. DOMAIN u.inode \subseteq Objectids(u)
      BY DEF Objectids
    <3>4. QED
      BY <2>1, <3>1, <3>2, <3>3
  <2>3. QED
    BY <1>1, <2>1, <2>2, Fewer DEF ItemsFit
<1>4. DirsSound(u)
  <2>1. \A i : IsDir(u, i) <=> IsDir(t, i)
    BY DEF Dropped, SameInodes, IsDir
  <2>2. QED
    BY <1>1, <2>1 DEF DirsSound, Dropped, SameInodes
<1>5. QED
  BY <1>2, <1>3, <1>4 DEF Sound

\* t with a name for an inode: its two entries, and a reference where it fits.
Given(t, u, e) ==
  /\ SameInodes(t, u) /\ u.xattr = t.xattr
  /\ u.item = t.item \cup {Unnumbered(e)} /\ u.index = t.index \cup {e}
  /\ \/ RefFits(t, e.id, e.dir) /\ u.ref = t.ref \cup {RefOf(e)} /\ u.ext = t.ext
     \/ /\ Cardinality(ExtsIn(t, e.id, e.dir, e.name)) < ItemRoom
        /\ ~RefFits(t, e.id, e.dir) /\ u.ref = t.ref /\ u.ext = t.ext \cup {RefOf(e)}

(* add_entry gives one name, in all of its records.                         *)
LEMMA GivesOne ==
  ASSUME NEW t, OfShape(t), NEW d \in DOMAIN t.inode, NEW n \in Name, NEW i \in Ino,
         NEW index \in Nat, CanAdd(t, d, n, i),
         \A e \in t.index : e.dir = d => e.index # index
  PROVE  LET u == AddEntry(t, d, n, i, index)
         IN  OfShape(u) /\ Given(t, u, NewEntry(d, n, i, FALSE, index))
<1> DEFINE e == NewEntry(d, n, i, FALSE, index)
           r == [ino |-> i, dir |-> d, index |-> index, name |-> n]
           g == AddRef(t, d, n, i, index)
           u == AddEntry(t, d, n, i, index)
<1>1. r \in RefRecord /\ r = RefOf(e) /\ e.id = i /\ e.dir = d /\ e.name = n
  BY Fields DEF RefOf, NewEntry, RefRecord
<1>2. t \in [inode : {t.inode}, ref : {t.ref}, ext : {t.ext}, item : {t.item},
             index : {t.index}, xattr : {t.xattr}]
  BY Fields
<1>3. IsFiniteSet(t.ref \cup {r}) /\ IsFiniteSet(t.ext \cup {r})
  BY Fields, FS_AddElement
<1> DEFINE p == t.ref \cup {r}
           q == t.ext \cup {r}
<1>4. /\ p \subseteq RefRecord /\ q \subseteq RefRecord /\ IsFiniteSet(p) /\ IsFiniteSet(q)
  BY <1>1, <1>3, Fields
<1>5. g = IF RefFits(t, i, d) THEN [t EXCEPT !.ref = p] ELSE [t EXCEPT !.ext = q]
  BY DEF AddRef
<1> HIDE DEF r, g, u, p, q, e
<1>6. /\ g \in [inode : {g.inode}, ref : {g.ref}, ext : {g.ext}, item : {g.item},
                index : {g.index}, xattr : {g.xattr}]
      /\ g.inode = t.inode /\ g.item = t.item /\ g.index = t.index /\ g.xattr = t.xattr
      /\ RefFits(t, i, d) => g.ref = p /\ g.ext = t.ext
      /\ ~RefFits(t, i, d) => g.ref = t.ref /\ g.ext = q
  <2>1. CASE RefFits(t, i, d)
    BY <1>2, <1>5, <2>1, OneRef
  <2>2. CASE ~RefFits(t, i, d)
    BY <1>2, <1>5, <2>2, OneRef
  <2>3. QED
    BY <2>1, <2>2
<1>7. OfShape(g)
  BY <1>4, <1>6, Fields DEF OfShape
<1> DEFINE no == FALSE
           w == FileEntry(g, d, n, i, no, index)
<1>8. /\ OfShape(w) /\ SameInodes(g, w)
      /\ w.item = g.item \cup {Unnumbered(e)} /\ w.index = g.index \cup {e}
      /\ w.ref = g.ref /\ w.ext = g.ext /\ w.xattr = g.xattr
  <2>1. d \in DOMAIN g.inode /\ i \in Ino \cup Subvol /\ no \in BOOLEAN
    BY <1>6
  <2> HIDE DEF no
  <2>2. \A x \in g.index : x.dir = d => x.index # index
    BY <1>6
  <2>3. /\ OfShape(w) /\ SameInodes(g, w)
        /\ w.item = g.item \cup {Unnumbered(NewEntry(d, n, i, no, index))}
        /\ w.index = g.index \cup {NewEntry(d, n, i, no, index)}
        /\ w.ref = g.ref /\ w.ext = g.ext /\ w.xattr = g.xattr
    BY <1>7, <2>1, <2>2, Filing
  <2>4. QED
    BY <2>3 DEF e, no
<1>9. u = w
  BY DEF u, AddEntry, g
<1> HIDE DEF w
<1>10. SameInodes(t, w)
  BY <1>6, <1>8 DEF SameInodes
<1>11. ~RefFits(t, i, d) => Cardinality(ExtsIn(t, i, d, n)) < ItemRoom
  BY DEF CanAdd
<1>12. OfShape(u) /\ Given(t, u, e)
  BY <1>1, <1>6, <1>8, <1>9, <1>10, <1>11 DEF Given, p, q
<1>13. QED
  BY <1>12 DEF u, e

(* A set with room for one more.                                            *)
LEMMA OneMore ==
  ASSUME NEW S, IsFiniteSet(S), NEW x, NEW T, T \subseteq S \cup {x}, NEW m \in Nat
  PROVE  /\ Cardinality(S) < m => Cardinality(T) <= m
         /\ Cardinality(S) <= m /\ T \subseteq S => Cardinality(T) <= m
<1>1. /\ IsFiniteSet(S \cup {x}) /\ Cardinality(S) \in Nat
      /\ Cardinality(S \cup {x}) = IF x \in S THEN Cardinality(S) ELSE Cardinality(S) + 1
  BY FS_AddElement, FS_CardinalityType
<1>2. Cardinality(T) \in Nat /\ Cardinality(T) <= Cardinality(S \cup {x})
  BY <1>1, FS_Subset, FS_CardinalityType
<1>3. T \subseteq S => Cardinality(T) <= Cardinality(S)
  BY FS_Subset
<1>4. QED
  BY <1>1, <1>2, <1>3

(* A new name, in both indexes.                                             *)
LEMMA IndexedMore ==
  ASSUME NEW t, EntriesAgree(t), NEW e,
         \A x \in t.index : x.dir = e.dir => x.name # e.name /\ x.index # e.index,
         NEW u, u.item = t.item \cup {Unnumbered(e)}, u.index = t.index \cup {e}
  PROVE  /\ u.item = {Unnumbered(x) : x \in u.index}
         /\ \A x, y \in u.index : x.dir = y.dir /\ (x.name = y.name \/ x.index = y.index) => x = y
<1>1. ASSUME NEW x \in u.item PROVE \E y \in u.index : x = Unnumbered(y)
  BY Indexed
<1>2. ASSUME NEW y \in u.index PROVE Unnumbered(y) \in u.item
  BY Indexed
<1>3. \A x, y \in t.index : x.dir = y.dir /\ (x.name = y.name \/ x.index = y.index) => x = y
  BY DEF EntriesAgree
<1>4. QED
  BY <1>1, <1>2, <1>3

(* A name's two entries, in an item that has room.                          *)
LEMMA HashFits ==
  ASSUME NEW t, OfShape(t), ItemsFit(t), NEW e,
         Cardinality(ByHash(t, e.dir, e.name)) < ItemRoom,
         NEW u, u.item = t.item \cup {Unnumbered(e)}
  PROVE  \A x \in u.item : Cardinality(ByHash(u, x.dir, x.name)) <= ItemRoom
<1> SUFFICES ASSUME NEW x \in u.item PROVE Cardinality(ByHash(u, x.dir, x.name)) <= ItemRoom
  OBVIOUS
<1> DEFINE S == ByHash(t, x.dir, x.name)
           T == ByHash(u, x.dir, x.name)
<1>0. ItemRoom \in Nat
  BY NamespaceAssumption
<1>1. Unnumbered(e).dir = e.dir /\ Unnumbered(e).name = e.name
  BY DEF Unnumbered
<1>2. S \subseteq t.item /\ T \subseteq S \cup {Unnumbered(e)}
  BY DEF ByHash
<1>3. IsFiniteSet(S)
  BY <1>2, Fields, FS_Subset
<1>4. CASE Unnumbered(e) \in T
  <2>1. x.dir = e.dir /\ Hash[x.name] = Hash[e.name]
    BY <1>1, <1>4 DEF ByHash
  <2>2. S = ByHash(t, e.dir, e.name)
    BY <2>1 DEF ByHash
  <2>3. Cardinality(S) < ItemRoom
    BY <2>2
  <2> HIDE DEF S, T
  <2>4. Cardinality(T) <= ItemRoom
    BY <1>0, <1>2, <1>3, <2>3, OneMore
  <2>5. QED
    BY <2>4 DEF T
<1>5. CASE Unnumbered(e) \notin T
  <2>1. x # Unnumbered(e)
    BY <1>5 DEF ByHash
  <2>2. x \in t.item /\ Cardinality(S) <= ItemRoom
    BY <2>1 DEF ItemsFit
  <2>3. T \subseteq S
    BY <1>2, <1>5
  <2>4. QED
    BY <1>0, <1>2, <1>3, <2>2, <2>3, OneMore
<1>6. QED
  BY <1>4, <1>5

(* A name's reference, in the item that had room for it.                    *)
LEMMA ReferenceFits ==
  ASSUME NEW t, OfShape(t), ItemsFit(t), NEW e, NEW u, Given(t, u, e)
  PROVE  /\ \A r \in u.ref : Cardinality(RefsIn(u, r.ino, r.dir)) <= RefRoom
         /\ \A r \in u.ext : Cardinality(ExtsIn(u, r.ino, r.dir, r.name)) <= ItemRoom
<1> DEFINE f == RefOf(e)
<1>0. ItemRoom \in Nat /\ RefRoom \in Nat
  BY NamespaceAssumption
<1>1. f.ino = e.id /\ f.dir = e.dir /\ f.name = e.name
  BY DEF RefOf
<1> HIDE DEF f
<1>2. ASSUME NEW r \in u.ref PROVE Cardinality(RefsIn(u, r.ino, r.dir)) <= RefRoom
  <2> DEFINE S == RefsIn(t, r.ino, r.dir)
             T == RefsIn(u, r.ino, r.dir)
  <2>1. S \subseteq t.ref /\ T \subseteq S \cup {f}
    BY DEF RefsIn, Given, f
  <2>2. IsFiniteSet(S)
    BY <2>1, Fields, FS_Subset
  <2>3. CASE f \in T /\ f \notin t.ref
    <3>1. S = RefsIn(t, e.id, e.dir) /\ RefFits(t, e.id, e.dir)
      BY <1>1, <2>3 DEF RefsIn, Given, f
    <3>2. QED
      BY <1>0, <2>1, <2>2, <3>1, OneMore DEF RefFits
  <2>4. CASE f \notin T \/ f \in t.ref
    <3>1. T \subseteq S /\ (r # f \/ f \in t.ref)
      BY <2>1, <2>4 DEF RefsIn
    <3>2. r \in t.ref
      BY <3>1 DEF Given, f
    <3>3. Cardinality(S) <= RefRoom
      BY <3>2 DEF ItemsFit
    <3>4. QED
      BY <1>0, <2>1, <2>2, <3>1, <3>3, OneMore
  <2>5. QED
    BY <2>3, <2>4
<1>3. ASSUME NEW r \in u.ext PROVE Cardinality(ExtsIn(u, r.ino, r.dir, r.name)) <= ItemRoom
  <2> DEFINE S == ExtsIn(t, r.ino, r.dir, r.name)
             T == ExtsIn(u, r.ino, r.dir, r.name)
  <2>1. S \subseteq t.ext /\ T \subseteq S \cup {f}
    BY DEF ExtsIn, Given, f
  <2>2. IsFiniteSet(S)
    BY <2>1, Fields, FS_Subset
  <2>3. CASE f \in T /\ f \notin t.ext
    <3>1. /\ S = ExtsIn(t, e.id, e.dir, e.name)
          /\ Cardinality(ExtsIn(t, e.id, e.dir, e.name)) < ItemRoom
      BY <1>1, <2>3 DEF ExtsIn, Given, f
    <3>2. QED
      BY <1>0, <2>1, <2>2, <3>1, OneMore
  <2>4. CASE f \notin T \/ f \in t.ext
    <3>1. T \subseteq S /\ (r # f \/ f \in t.ext)
      BY <2>1, <2>4 DEF ExtsIn
    <3>2. r \in t.ext
      BY <3>1 DEF Given, f
    <3>3. Cardinality(S) <= ItemRoom
      BY <3>2 DEF ItemsFit
    <3>4. QED
      BY <1>0, <2>1, <2>2, <3>1, <3>3, OneMore
  <2>5. QED
    BY <2>3, <2>4
<1>4. QED
  BY <1>2, <1>3

\* A name and an index that a directory has not.
Fresh(t, e) ==
  /\ IsDir(t, e.dir) /\ e.name \in Name /\ e.index \in Nat
  /\ Entry(t, e.dir, e.name) = {}
  /\ \A x \in t.index : x.dir = e.dir => x.index # e.index

(* A fresh name is in neither index.                                        *)
LEMMA FreshIs ==
  ASSUME NEW t, EntriesAgree(t), NEW e, Fresh(t, e)
  PROVE  \A x \in t.index : x.dir = e.dir => x.name # e.name /\ x.index # e.index
<1>1. ASSUME NEW x \in t.index, x.dir = e.dir, x.name = e.name PROVE FALSE
  <2>1. Unnumbered(x) \in t.item /\ Unnumbered(x).dir = e.dir /\ Unnumbered(x).name = e.name
    BY <1>1, Indexed
  <2>2. QED
    BY <2>1 DEF Fresh, Entry
<1>2. QED
  BY <1>1 DEF Fresh

(* The items of a name's records are of inodes.                             *)
LEMMA UnderInodes ==
  ASSUME NEW t, Objectids(t) = DOMAIN t.inode
  PROVE  /\ \A r \in t.ref \cup t.ext : r.ino \in DOMAIN t.inode
         /\ \A x \in t.xattr : x.ino \in DOMAIN t.inode
         /\ \A e \in t.item \cup t.index : e.dir \in DOMAIN t.inode
BY DEF Objectids

(* Where every record is of an inode that is there, the objectids in use
   are the inodes'.                                                          *)
LEMMA InodesOnly ==
  ASSUME NEW t,
         \A r \in t.ref \cup t.ext : r.ino \in DOMAIN t.inode,
         \A x \in t.xattr : x.ino \in DOMAIN t.inode,
         \A e \in t.item \cup t.index : e.dir \in DOMAIN t.inode
  PROVE  Objectids(t) = DOMAIN t.inode
BY DEF Objectids

(* A tree with one name more is as sound.                                   *)
LEMMA GivenSound ==
  ASSUME NEW t, Sound(t), NEW e, Fresh(t, e), ~e.root,
         e.id \in DOMAIN t.inode, e.id # Top,
         IsDir(t, e.id) => \A r \in t.ref : r.ino # e.id,
         Cardinality(ByHash(t, e.dir, e.name)) < ItemRoom,
         NEW u, OfShape(u), Given(t, u, e)
  PROVE  Sound(u)
<1>1. OfShape(t) /\ EntriesAgree(t) /\ ItemsFit(t) /\ DirsSound(t)
  BY DEF Sound
<1>2. \A x \in t.index : x.dir = e.dir => x.name # e.name /\ x.index # e.index
  BY <1>1, FreshIs
<1>3. u.item = t.item \cup {Unnumbered(e)} /\ u.index = t.index \cup {e}
      /\ u.ref \cup u.ext = t.ref \cup t.ext \cup {RefOf(e)}
      /\ u.xattr = t.xattr /\ DOMAIN u.inode = DOMAIN t.inode
  BY DEF Given, SameInodes
<1>4. /\ RefOf(e).ino = e.id /\ RefOf(e).dir = e.dir
      /\ RefOf(e).index = e.index /\ RefOf(e).name = e.name
  BY DEF RefOf
<1>5. Unnumbered(e).dir = e.dir /\ Unnumbered(e).id = e.id /\ Unnumbered(e).root = e.root
  BY DEF Unnumbered
<1>6. e.name # DotDot
  BY NamespaceAssumption DEF Fresh
<1>7. RefOf(e) \notin t.ref \cup t.ext
  BY <1>1, <1>2, <1>4, <1>6, Referenced
<1>8. EntriesAgree(u)
  <2>1. /\ u.item = {Unnumbered(x) : x \in u.index}
        /\ \A x, y \in u.index : x.dir = y.dir /\ (x.name = y.name \/ x.index = y.index) => x = y
    BY <1>1, <1>2, <1>3, IndexedMore
  <2>2. {RefOf(x) : x \in {x \in u.index : ~x.root}} = {r \in u.ref \cup u.ext : r.name # DotDot}
    <3>1. ASSUME NEW r \in u.ref \cup u.ext, r.name # DotDot
          PROVE  \E x \in u.index : ~x.root /\ r = RefOf(x)
      BY <1>1, <1>3, <3>1, Referenced
    <3>2. ASSUME NEW x \in u.index, ~x.root
          PROVE  RefOf(x) \in u.ref \cup u.ext /\ RefOf(x).name # DotDot
      <4>1. CASE x = e
        BY <1>3, <1>4, <1>6, <4>1
      <4>2. CASE x \in t.index
        <5>1. RefOf(x) \in t.ref \cup t.ext /\ RefOf(x).name = x.name
          BY <1>1, <3>2, <4>2, Referenced
        <5>2. x.name \in Name
          BY <1>1, <4>2, Fields DEF IndexRecord
        <5>3. QED
          BY <1>3, <5>1, <5>2, NamespaceAssumption
      <4>3. QED
        BY <1>3, <4>1, <4>2
    <3>3. QED
      BY <3>1, <3>2
  <2>3. u.ref \cap u.ext = {}
    BY <1>1, <1>7 DEF Given, EntriesAgree
  <2>4. QED
    BY <2>1, <2>2, <2>3 DEF EntriesAgree
<1>9. ItemsFit(u)
  <2>1. /\ \A r \in u.ref : Cardinality(RefsIn(u, r.ino, r.dir)) <= RefRoom
        /\ \A r \in u.ext : Cardinality(ExtsIn(u, r.ino, r.dir, r.name)) <= ItemRoom
    BY <1>1, ReferenceFits
  <2>2. \A x \in u.item : Cardinality(ByHash(u, x.dir, x.name)) <= ItemRoom
    BY <1>1, <1>3, HashFits
  <2>3. Objectids(u) = DOMAIN u.inode
    <3>1. /\ \A r \in t.ref \cup t.ext : r.ino \in DOMAIN t.inode
          /\ \A x \in t.xattr : x.ino \in DOMAIN t.inode
          /\ \A x \in t.item \cup t.index : x.dir \in DOMAIN t.inode
      BY <1>1, UnderInodes DEF ItemsFit
    <3>2. e.dir \in DOMAIN t.inode
      BY DEF Fresh, IsDir
    <3>3. /\ \A r \in u.ref \cup u.ext : r.ino \in DOMAIN u.inode
          /\ \A x \in u.xattr : x.ino \in DOMAIN u.inode
          /\ \A x \in u.item \cup u.index : x.dir \in DOMAIN u.inode
      BY <1>3, <1>4, <1>5, <3>1, <3>2
    <3>4. QED
      BY <3>3, InodesOnly
  <2>4. QED
    BY <2>1, <2>2, <2>3 DEF ItemsFit
<1>10. DirsSound(u)
  <2>1. \A i : IsDir(u, i) <=> IsDir(t, i)
    BY DEF Given, SameInodes, IsDir
  <2>2. ASSUME IsDir(t, e.id) PROVE RefFits(t, e.id, e.dir)
    <3>1. RefsIn(t, e.id, e.dir) = {}
      BY <2>2 DEF RefsIn
    <3>2. QED
      BY <3>1, FS_EmptySet, NamespaceAssumption DEF RefFits
  <2>3. \A x \in u.item : IsDir(u, x.dir) /\ (~x.root => x.id # Top)
    BY <1>1, <1>3, <1>5, <2>1 DEF DirsSound, Fresh
  <2>4. \A r \in u.ref \cup u.ext : r.name = DotDot => r.ino = Top /\ r.dir = Top
    BY <1>1, <1>3, <1>4, <1>6 DEF DirsSound
  <2>5. ASSUME NEW i \in DOMAIN u.inode, IsDir(u, i)
        PROVE  u.inode[i].nlink = 1 /\ \A r \in u.ext : r.ino # i
    <3>1. i \in DOMAIN t.inode /\ IsDir(t, i) /\ u.inode[i].nlink = t.inode[i].nlink
      BY <1>3, <2>1, <2>5 DEF Given, SameInodes
    <3>2. t.inode[i].nlink = 1 /\ \A r \in t.ext : r.ino # i
      BY <1>1, <3>1 DEF DirsSound
    <3>3. \A r \in u.ext : r \in t.ext \/ (r.ino = e.id /\ ~RefFits(t, e.id, e.dir))
      BY <1>4 DEF Given
    <3>4. QED
      BY <2>2, <3>1, <3>2, <3>3
  <2>6. QED
    BY <1>1, <2>1, <2>3, <2>4, <2>5 DEF DirsSound
<1>11. QED
  BY <1>8, <1>9, <1>10 DEF Sound

\* t with a name for a subvolume: its two entries.
Mounted(t, u, e) ==
  /\ SameInodes(t, u) /\ u.xattr = t.xattr /\ u.ref = t.ref /\ u.ext = t.ext
  /\ u.item = t.item \cup {Unnumbered(e)} /\ u.index = t.index \cup {e}

(* A tree with one subvolume more is as sound.                              *)
LEMMA MountedSound ==
  ASSUME NEW t, Sound(t), NEW e, Fresh(t, e), e.root,
         Cardinality(ByHash(t, e.dir, e.name)) < ItemRoom,
         NEW u, OfShape(u), Mounted(t, u, e)
  PROVE  Sound(u)
<1>1. OfShape(t) /\ EntriesAgree(t) /\ ItemsFit(t) /\ DirsSound(t)
  BY DEF Sound
<1>2. \A x \in t.index : x.dir = e.dir => x.name # e.name /\ x.index # e.index
  BY <1>1, FreshIs
<1>3. u.item = t.item \cup {Unnumbered(e)} /\ u.index = t.index \cup {e}
      /\ u.ref = t.ref /\ u.ext = t.ext
      /\ u.xattr = t.xattr /\ DOMAIN u.inode = DOMAIN t.inode
  BY DEF Mounted, SameInodes
<1>4. Unnumbered(e).dir = e.dir /\ Unnumbered(e).root = e.root
  BY DEF Unnumbered
<1>5. EntriesAgree(u)
  <2>1. /\ u.item = {Unnumbered(x) : x \in u.index}
        /\ \A x, y \in u.index : x.dir = y.dir /\ (x.name = y.name \/ x.index = y.index) => x = y
    BY <1>1, <1>2, <1>3, IndexedMore
  <2>2. {x \in u.index : ~x.root} = {x \in t.index : ~x.root}
    BY <1>3
  <2>3. QED
    BY <1>1, <1>3, <2>1, <2>2 DEF EntriesAgree
<1>6. ItemsFit(u)
  <2>1. /\ \A r \in u.ref : Cardinality(RefsIn(u, r.ino, r.dir)) <= RefRoom
        /\ \A r \in u.ext : Cardinality(ExtsIn(u, r.ino, r.dir, r.name)) <= ItemRoom
    BY <1>1, <1>3 DEF ItemsFit, RefsIn, ExtsIn
  <2>2. \A x \in u.item : Cardinality(ByHash(u, x.dir, x.name)) <= ItemRoom
    BY <1>1, <1>3, HashFits
  <2>3. Objectids(u) = DOMAIN u.inode
    <3>1. /\ \A r \in t.ref \cup t.ext : r.ino \in DOMAIN t.inode
          /\ \A x \in t.xattr : x.ino \in DOMAIN t.inode
          /\ \A x \in t.item \cup t.index : x.dir \in DOMAIN t.inode
      BY <1>1, UnderInodes DEF ItemsFit
    <3>2. e.dir \in DOMAIN t.inode
      BY DEF Fresh, IsDir
    <3>3. QED
      BY <1>3, <1>4, <3>1, <3>2, InodesOnly
  <2>4. QED
    BY <2>1, <2>2, <2>3 DEF ItemsFit
<1>7. DirsSound(u)
  <2>1. \A i : IsDir(u, i) <=> IsDir(t, i)
    BY DEF Mounted, SameInodes, IsDir
  <2>2. \A x \in u.item : IsDir(u, x.dir) /\ (~x.root => x.id # Top)
    BY <1>1, <1>3, <1>4, <2>1 DEF DirsSound, Fresh
  <2>3. QED
    BY <1>1, <1>3, <2>1, <2>2 DEF DirsSound, Mounted, SameInodes
<1>8. QED
  BY <1>5, <1>6, <1>7 DEF Sound

\* t without a name of a subvolume.
Unmounted(t, u, x) ==
  /\ SameInodes(t, u) /\ u.xattr = t.xattr /\ u.ref = t.ref /\ u.ext = t.ext
  /\ u.item = t.item \ {Unnumbered(x)} /\ u.index = t.index \ {x}

(* delete_subvolume: the entry of a subvolume taken away with its index
   leaves the records agreeing.                                              *)
LEMMA UnmountedSound ==
  ASSUME NEW t, Sound(t), NEW x \in t.index, x.root, NEW u, OfShape(u), Unmounted(t, u, x)
  PROVE  Sound(u)
<1>1. OfShape(t) /\ EntriesAgree(t) /\ ItemsFit(t) /\ DirsSound(t)
  BY DEF Sound
<1>2. EntriesAgree(u)
  <2>1. u.item = {Unnumbered(e) : e \in u.index}
    <3>1. ASSUME NEW e \in u.item PROVE \E y \in u.index : e = Unnumbered(y)
      BY <1>1, Indexed DEF Unmounted
    <3>2. ASSUME NEW y \in u.index PROVE Unnumbered(y) \in u.item
      BY <1>1, Indexed DEF Unmounted
    <3>3. QED
      BY <3>1, <3>2
  <2>2. \A e, f \in u.index : e.dir = f.dir /\ (e.name = f.name \/ e.index = f.index) => e = f
    BY <1>1 DEF Unmounted, EntriesAgree
  <2>3. {e \in u.index : ~e.root} = {e \in t.index : ~e.root}
    BY DEF Unmounted
  <2>4. QED
    BY <1>1, <2>1, <2>2, <2>3 DEF EntriesAgree, Unmounted
<1>3. ItemsFit(u)
  <2>1. /\ u.ref \subseteq t.ref /\ u.ext \subseteq t.ext /\ u.item \subseteq t.item
        /\ u.index \subseteq t.index /\ u.xattr = t.xattr /\ DOMAIN u.inode = DOMAIN t.inode
    BY DEF Unmounted, SameInodes
  <2>2. Objectids(u) = DOMAIN u.inode
    <3>1. Objectids(t) = DOMAIN t.inode
      BY <1>1 DEF ItemsFit
    <3>2. Objectids(u) \subseteq Objectids(t)
      BY <2>1 DEF Objectids
    <3>3. DOMAIN u.inode \subseteq Objectids(u)
      BY DEF Objectids
    <3>4. QED
      BY <2>1, <3>1, <3>2, <3>3
  <2>3. QED
    BY <1>1, <2>1, <2>2, Fewer DEF ItemsFit
<1>4. DirsSound(u)
  <2>1. \A i : IsDir(u, i) <=> IsDir(t, i)
    BY DEF Unmounted, SameInodes, IsDir
  <2>2. QED
    BY <1>1, <2>1 DEF DirsSound, Unmounted, SameInodes
<1>5. QED
  BY <1>2, <1>3, <1>4 DEF Sound

(* An inode's item put, of the kind it was or of a new inode.               *)
LEMMA PutSound ==
  ASSUME NEW t, Sound(t), NEW i \in Ino, NEW x \in Inode,
         i \in DOMAIN t.inode => x.kind = t.inode[i].kind,
         x.kind = "dir" => x.nlink = 1
  PROVE  Sound(PutInode(t, i, x))
<1> DEFINE u == PutInode(t, i, x)
<1>1. OfShape(t) /\ EntriesAgree(t) /\ ItemsFit(t) /\ DirsSound(t)
  BY DEF Sound
<1>2. /\ OfShape(u)
      /\ DOMAIN u.inode = DOMAIN t.inode \cup {i} /\ u.inode[i] = x
      /\ \A j \in DOMAIN t.inode : j # i => u.inode[j] = t.inode[j]
      /\ u.ref = t.ref /\ u.ext = t.ext /\ u.item = t.item /\ u.index = t.index
      /\ u.xattr = t.xattr
  BY <1>1, Putting
<1> HIDE DEF u
<1>3. EntriesAgree(u)
  BY <1>1, <1>2 DEF EntriesAgree
<1>4. ItemsFit(u)
  <2>1. /\ \A r \in t.ref \cup t.ext : r.ino \in DOMAIN t.inode
        /\ \A y \in t.xattr : y.ino \in DOMAIN t.inode
        /\ \A e \in t.item \cup t.index : e.dir \in DOMAIN t.inode
    BY <1>1, UnderInodes DEF ItemsFit
  <2>2. Objectids(u) = DOMAIN u.inode
    BY <1>2, <2>1, InodesOnly
  <2>3. QED
    BY <1>1, <1>2, <2>2 DEF ItemsFit, RefsIn, ExtsIn, ByHash
<1>5. DirsSound(u)
  <2>1. \A j \in DOMAIN t.inode : IsDir(u, j) <=> IsDir(t, j)
    BY <1>2 DEF IsDir
  <2>2. IsDir(u, Top) /\ \A e \in u.item : IsDir(u, e.dir) /\ (~e.root => e.id # Top)
    BY <1>1, <1>2, <2>1 DEF DirsSound, IsDir
  <2>3. \A r \in u.ref \cup u.ext : r.name = DotDot => r.ino = Top /\ r.dir = Top
    BY <1>1, <1>2 DEF DirsSound
  <2>4. ASSUME NEW j \in DOMAIN u.inode, IsDir(u, j)
        PROVE  u.inode[j].nlink = 1 /\ \A r \in u.ext : r.ino # j
    <3>1. CASE j \in DOMAIN t.inode
      BY <1>1, <1>2, <2>1, <2>4, <3>1 DEF DirsSound, IsDir
    <3>2. CASE j \notin DOMAIN t.inode
      <4>1. j = i /\ x.kind = "dir"
        BY <1>2, <2>4, <3>2 DEF IsDir
      <4>2. \A r \in t.ext : r.ino \in DOMAIN t.inode
        BY <1>1, UnderInodes DEF ItemsFit
      <4>3. QED
        BY <1>2, <3>2, <4>1, <4>2
    <3>3. QED
      BY <3>1, <3>2
  <2>5. QED
    BY <2>2, <2>3, <2>4 DEF DirsSound
<1>6. QED
  BY <1>2, <1>3, <1>4, <1>5 DEF Sound, u

\* t without inode i and its attributes.
Freed(t, u, i) ==
  /\ DOMAIN u.inode = DOMAIN t.inode \ {i}
  /\ \A j \in DOMAIN u.inode : u.inode[j] = t.inode[j]
  /\ u.xattr = {x \in t.xattr : x.ino # i}
  /\ u.ref = t.ref /\ u.ext = t.ext /\ u.item = t.item /\ u.index = t.index

(* What of a tree an inode's release takes.                                 *)
LEMMA Freeing ==
  ASSUME NEW t, OfShape(t), NEW i \in DOMAIN t.inode
  PROVE  LET u == [t EXCEPT !.inode = Restrict(@, DOMAIN @ \ {i}),
                            !.xattr = {x \in @ : x.ino # i}]
         IN  OfShape(u) /\ Freed(t, u, i)
<1> DEFINE f == [j \in DOMAIN t.inode \ {i} |-> t.inode[j]]
           a == {x \in t.xattr : x.ino # i}
           u == [t EXCEPT !.inode = f, !.xattr = a]
<1>1. f = Restrict(t.inode, DOMAIN t.inode \ {i})
  BY DEF Restrict
<1>2. /\ DOMAIN f = DOMAIN t.inode \ {i} /\ \A j \in DOMAIN f : f[j] = t.inode[j]
      /\ DOMAIN f \subseteq Ino /\ f \in [DOMAIN f -> Inode]
  BY Fields
<1>3. a \subseteq [ino : Ino, name : Name, value : Value]
  BY Fields
<1> HIDE DEF f, a
<1>4. t \in [inode : {t.inode}, ref : {t.ref}, ext : {t.ext}, item : {t.item},
             index : {t.index}, xattr : {t.xattr}]
  BY Fields
<1>5. /\ u \in [inode : {f}, ref : {t.ref}, ext : {t.ext}, item : {t.item},
                index : {t.index}, xattr : {a}]
      /\ u.inode = f /\ u.ref = t.ref /\ u.ext = t.ext /\ u.item = t.item /\ u.index = t.index
      /\ u.xattr = a
  BY <1>4
<1> HIDE DEF u
<1>6. OfShape(u)
  BY <1>2, <1>3, <1>5, Fields DEF OfShape
<1>7. Freed(t, u, i)
  BY <1>2, <1>5 DEF Freed, a
<1>8. QED
  BY <1>1, <1>6, <1>7 DEF u, a

(* A tree without an inode that nothing names or is in is as sound.         *)
LEMMA FreedSound ==
  ASSUME NEW t, Sound(t), NEW i \in DOMAIN t.inode, i # Top,
         \A r \in t.ref \cup t.ext : r.ino # i, \A e \in t.item \cup t.index : e.dir # i,
         NEW u, OfShape(u), Freed(t, u, i)
  PROVE  Sound(u)
<1>1. OfShape(t) /\ EntriesAgree(t) /\ ItemsFit(t) /\ DirsSound(t)
  BY DEF Sound
<1>2. EntriesAgree(u)
  BY <1>1 DEF EntriesAgree, Freed
<1>3. ItemsFit(u)
  <2>1. /\ \A r \in t.ref \cup t.ext : r.ino \in DOMAIN t.inode
        /\ \A y \in t.xattr : y.ino \in DOMAIN t.inode
        /\ \A e \in t.item \cup t.index : e.dir \in DOMAIN t.inode
    BY <1>1, UnderInodes DEF ItemsFit
  <2>2. /\ \A r \in u.ref \cup u.ext : r.ino \in DOMAIN u.inode
        /\ \A y \in u.xattr : y.ino \in DOMAIN u.inode
        /\ \A e \in u.item \cup u.index : e.dir \in DOMAIN u.inode
    BY <2>1 DEF Freed
  <2>3. Objectids(u) = DOMAIN u.inode
    BY <2>2, InodesOnly
  <2>4. QED
    BY <1>1, <2>3 DEF ItemsFit, RefsIn, ExtsIn, ByHash, Freed
<1>4. DirsSound(u)
  <2>1. \A j : j # i => (IsDir(u, j) <=> IsDir(t, j))
    BY DEF IsDir, Freed
  <2>2. QED
    BY <1>1, <2>1 DEF DirsSound, Freed
<1>5. QED
  BY <1>2, <1>3, <1>4 DEF Sound

\* t with inode i's count one less.
Fewer1(t, u, i) ==
  /\ ~IsDir(t, i) /\ DOMAIN u.inode = DOMAIN t.inode
  /\ u.inode[i].nlink = t.inode[i].nlink - 1
  /\ \A j \in DOMAIN t.inode :
       /\ u.inode[j].kind = t.inode[j].kind /\ u.inode[j].mode = t.inode[j].mode
       /\ j # i => u.inode[j].nlink = t.inode[j].nlink
  /\ u.xattr = t.xattr
  /\ u.ref = t.ref /\ u.ext = t.ext /\ u.item = t.item /\ u.index = t.index

(* drop_link takes one link, or the inode.                                  *)
LEMMA LinkDropped ==
  ASSUME NEW t, Sound(t), NEW i \in DOMAIN t.inode, i # Top, CanDropLink(t, i)
  PROVE  LET u == DropLink(t, i)
         IN  /\ Sound(u)
             /\ t.inode[i].nlink \in Nat \ {0}
             /\ \/ t.inode[i].nlink > 1 /\ Fewer1(t, u, i)
                \/ /\ t.inode[i].nlink = 1 /\ Freed(t, u, i)
                   /\ \A e \in t.item \cup t.index : e.dir # i
<1> DEFINE u == DropLink(t, i)
           x == [t.inode[i] EXCEPT !.nlink = t.inode[i].nlink - 1]
<1>1. OfShape(t) /\ DirsSound(t)
  BY DEF Sound
<1>2. t.inode[i] \in Inode /\ i \in Ino /\ t.inode[i].nlink \in 1 .. MaxLinks
  BY <1>1, Fields DEF Inode
<1>3. MaxLinks \in Nat
  BY NamespaceAssumption
<1>4. t.inode[i].nlink \in Nat \ {0}
  BY <1>2, <1>3
<1>5. Links(t, i) = t.inode[i].nlink
  BY <1>1 DEF Links, DirsSound
<1>6. CASE t.inode[i].nlink > 1
  <2>1. ~IsDir(t, i)
    BY <1>1, <1>6 DEF DirsSound
  <2> DEFINE n == t.inode[i].nlink - 1
  <2>2. n \in 1 .. MaxLinks
    BY <1>2, <1>3, <1>6
  <2> HIDE DEF n
  <2>3. x = [t.inode[i] EXCEPT !.nlink = n]
    BY DEF n
  <2> HIDE DEF x
  <2>4. x \in Inode /\ x.kind = t.inode[i].kind /\ x.nlink = n /\ x.mode = t.inode[i].mode
    BY <1>2, <2>2, <2>3, LinksOf
  <2>5. u = PutInode(t, i, x)
    <3>1. t.inode[i].nlink + (-1) = t.inode[i].nlink - 1
      BY <1>4
    <3>2. QED
      BY <1>5, <1>6, <3>1 DEF DropLink, Linked, x
  <2>6. x.kind # "dir"
    BY <2>1, <2>4 DEF IsDir
  <2>7. Sound(PutInode(t, i, x))
    BY <1>2, <2>4, <2>6, PutSound
  <2> DEFINE w == PutInode(t, i, x)
  <2>8. /\ DOMAIN w.inode = DOMAIN t.inode \cup {i} /\ w.inode[i] = x
        /\ \A j \in DOMAIN t.inode : j # i => w.inode[j] = t.inode[j]
        /\ w.ref = t.ref /\ w.ext = t.ext /\ w.item = t.item /\ w.index = t.index
        /\ w.xattr = t.xattr
    BY <1>1, <1>2, <2>4, Putting
  <2> HIDE DEF w
  <2>9. Fewer1(t, w, i)
    BY <2>1, <2>4, <2>8 DEF Fewer1, n
  <2>10. QED
    BY <1>4, <1>6, <2>5, <2>7, <2>9 DEF w
<1>7. CASE ~(t.inode[i].nlink > 1)
  <2>1. t.inode[i].nlink = 1
    BY <1>4, <1>7
  <2>2. /\ \A r \in t.ref \cup t.ext : r.ino # i
        /\ \A e \in t.item \cup t.index : e.dir # i
    BY <1>5, <2>1 DEF CanDropLink
  <2> DEFINE w == [t EXCEPT !.inode = Restrict(@, DOMAIN @ \ {i}),
                            !.xattr = {y \in @ : y.ino # i}]
  <2>3. OfShape(w) /\ Freed(t, w, i)
    BY <1>1, Freeing, Zenon
  <2>4. u = w
    BY <1>5, <1>7 DEF DropLink
  <2> HIDE DEF u, w
  <2>5. Sound(w)
    BY <2>2, <2>3, FreedSound
  <2>6. QED
    BY <1>4, <2>1, <2>2, <2>3, <2>4, <2>5 DEF u
<1>8. QED
  BY <1>6, <1>7

-----------------------------------------------------------------------------
\* Counts, and the way up.

Counts(t) ==
  \A i \in DOMAIN t.inode : i # Top => Cardinality(NamesOf(t, i)) = t.inode[i].nlink

\* S has, with a directory, the one it is named in.
Rises(t, S) == \A e \in t.item : ~e.root /\ e.id \in S /\ IsDir(t, e.id) => e.dir \in S

Below(t, i, a) == \A S \in SUBSET Ino : i \in S /\ Rises(t, S) => a \in S

Whole(t) ==
  /\ Sound(t) /\ Counts(t)
  /\ \A i \in DOMAIN t.inode : IsDir(t, i) => Below(t, i, Top)

(* The names of an inode are finitely many.                                 *)
LEMMA NamesFinite ==
  ASSUME NEW t, OfShape(t), NEW i
  PROVE  /\ NamesOf(t, i) \subseteq t.item /\ IsFiniteSet(NamesOf(t, i))
         /\ Cardinality(NamesOf(t, i)) \in Nat
<1>1. NamesOf(t, i) \subseteq t.item
  BY DEF NamesOf
<1>2. IsFiniteSet(NamesOf(t, i))
  BY <1>1, Fields, FS_Subset
<1>3. QED
  BY <1>1, <1>2, FS_CardinalityType

(* One name more.                                                           *)
LEMMA CountMore ==
  ASSUME NEW t, OfShape(t), NEW u, NEW e, e \notin t.item, u.item = t.item \cup {e}, NEW i
  PROVE  /\ e.id = i /\ ~e.root =>
              Cardinality(NamesOf(u, i)) = Cardinality(NamesOf(t, i)) + 1
         /\ ~(e.id = i /\ ~e.root) => NamesOf(u, i) = NamesOf(t, i)
<1>1. ASSUME e.id = i, ~e.root
      PROVE  Cardinality(NamesOf(u, i)) = Cardinality(NamesOf(t, i)) + 1
  <2>1. NamesOf(u, i) = NamesOf(t, i) \cup {e} /\ e \notin NamesOf(t, i)
    BY <1>1 DEF NamesOf
  <2>2. QED
    BY <2>1, NamesFinite, FS_AddElement
<1>2. ~(e.id = i /\ ~e.root) => NamesOf(u, i) = NamesOf(t, i)
  BY DEF NamesOf
<1>3. QED
  BY <1>1, <1>2

(* One name less.                                                           *)
LEMMA CountLess ==
  ASSUME NEW t, OfShape(t), NEW u, NEW e \in t.item, u.item = t.item \ {e}, NEW i
  PROVE  /\ e.id = i /\ ~e.root =>
              Cardinality(NamesOf(u, i)) = Cardinality(NamesOf(t, i)) - 1
         /\ ~(e.id = i /\ ~e.root) => NamesOf(u, i) = NamesOf(t, i)
<1>1. ASSUME e.id = i, ~e.root
      PROVE  Cardinality(NamesOf(u, i)) = Cardinality(NamesOf(t, i)) - 1
  <2>1. NamesOf(u, i) = NamesOf(t, i) \ {e} /\ e \in NamesOf(t, i)
    BY <1>1 DEF NamesOf
  <2>2. QED
    BY <2>1, NamesFinite, FS_RemoveElement
<1>2. ~(e.id = i /\ ~e.root) => NamesOf(u, i) = NamesOf(t, i)
  BY DEF NamesOf
<1>3. QED
  BY <1>1, <1>2

(* An inode has a name, and a directory one.                                *)
LEMMA HasNames ==
  ASSUME NEW t, Sound(t), Counts(t), NEW i \in DOMAIN t.inode, i # Top
  PROVE  /\ \E e \in t.item : e.id = i /\ ~e.root
         /\ IsDir(t, i) => \A e, f \in NamesOf(t, i) : e = f
<1>1. OfShape(t) /\ DirsSound(t)
  BY DEF Sound
<1>2. t.inode[i].nlink \in 1 .. MaxLinks /\ MaxLinks \in Nat
  BY <1>1, Fields, NamespaceAssumption DEF Inode
<1>3. Cardinality(NamesOf(t, i)) = t.inode[i].nlink /\ IsFiniteSet(NamesOf(t, i))
  BY <1>1, NamesFinite DEF Counts
<1>4. NamesOf(t, i) # {}
  BY <1>2, <1>3, FS_EmptySet
<1>5. ASSUME IsDir(t, i) PROVE \A e, f \in NamesOf(t, i) : e = f
  <2>1. Cardinality(NamesOf(t, i)) = 1
    BY <1>1, <1>3, <1>5 DEF DirsSound
  <2>2. \E e : NamesOf(t, i) = {e}
    BY <1>3, <2>1, FS_Singleton
  <2>3. QED
    BY <2>2
<1>6. QED
  BY <1>4, <1>5 DEF NamesOf

(* The least of one number.                                                 *)
LEMMA LeastOne ==
  ASSUME NEW p \in Nat
  PROVE  Min({p}) = p
BY DEF Min

(* A directory's parent is where it is named, and the top's is the top.     *)
LEMMA ParentIs ==
  ASSUME NEW t, Sound(t), Counts(t)
  PROVE  /\ \A e \in t.item : ~e.root /\ IsDir(t, e.id) =>
              HasParent(t, e.id) /\ Parent(t, e.id) = e.dir
         /\ HasParent(t, Top) => Parent(t, Top) = Top
<1>1. OfShape(t) /\ EntriesAgree(t) /\ DirsSound(t)
  BY DEF Sound
<1>2. ASSUME NEW e \in t.item, ~e.root, IsDir(t, e.id)
      PROVE  HasParent(t, e.id) /\ Parent(t, e.id) = e.dir
  <2>1. e.id # Top /\ e.id \in DOMAIN t.inode
    BY <1>1, <1>2 DEF DirsSound, IsDir
  <2>2. PICK x \in t.index : e = Unnumbered(x)
    BY <1>1, Indexed
  <2>3. x.id = e.id /\ x.dir = e.dir /\ ~x.root
    BY <1>1, <1>2, <2>2, Indexed
  <2>4. RefOf(x) \in t.ref /\ RefOf(x).ino = e.id /\ RefOf(x).dir = e.dir
    <3>1. RefOf(x) \in t.ref \cup t.ext /\ RefOf(x).ino = e.id /\ RefOf(x).dir = e.dir
      BY <1>1, <2>3, Referenced
    <3>2. RefOf(x) \notin t.ext
      BY <1>1, <1>2, <2>1, <3>1 DEF DirsSound
    <3>3. QED
      BY <3>1, <3>2
  <2>5. ASSUME NEW r \in t.ref, r.ino = e.id PROVE r.dir = e.dir
    <3>1. r.name # DotDot
      BY <1>1, <2>1, <2>5 DEF DirsSound
    <3>2. PICK y \in t.index : ~y.root /\ r = RefOf(y)
      BY <1>1, <3>1, Referenced
    <3>3. y.id = e.id /\ y.dir = r.dir
      BY <1>1, <2>5, <3>2, Referenced
    <3>4. /\ Unnumbered(y) \in t.item /\ Unnumbered(y).id = e.id /\ ~Unnumbered(y).root
          /\ Unnumbered(y).dir = r.dir
      BY <1>1, <3>2, <3>3, Indexed
    <3>5. e \in NamesOf(t, e.id) /\ Unnumbered(y) \in NamesOf(t, e.id)
      BY <1>2, <3>4 DEF NamesOf
    <3>6. Unnumbered(y) = e
      BY <1>2, <2>1, <3>5, HasNames
    <3>7. QED
      BY <3>4, <3>6
  <2>6. {r.dir : r \in {r \in t.ref : r.ino = e.id}} = {e.dir}
    BY <2>4, <2>5
  <2>7. e.dir \in Nat
    BY <1>1, Fields, NamespaceAssumption DEF EntryRecord
  <2>8. QED
    BY <2>4, <2>6, <2>7, LeastOne DEF HasParent, Parent
<1>3. ASSUME HasParent(t, Top) PROVE Parent(t, Top) = Top
  <2>1. ASSUME NEW r \in t.ref, r.ino = Top PROVE r.dir = Top
    <3>1. CASE r.name = DotDot
      BY <1>1, <2>1, <3>1 DEF DirsSound
    <3>2. CASE r.name # DotDot
      <4>1. PICK y \in t.index : ~y.root /\ r = RefOf(y)
        BY <1>1, <3>2, Referenced
      <4>2. Unnumbered(y) \in t.item /\ Unnumbered(y).id = Top /\ ~Unnumbered(y).root
        BY <1>1, <2>1, <4>1, Indexed, Referenced
      <4>3. QED
        BY <1>1, <4>2 DEF DirsSound
    <3>3. QED
      BY <3>1, <3>2
  <2>2. {r.dir : r \in {r \in t.ref : r.ino = Top}} = {Top}
    BY <1>3, <2>1 DEF HasParent
  <2>3. QED
    BY <2>2, LeastOne, NamespaceAssumption DEF Parent
<1>4. QED
  BY <1>2, <1>3

(* is_within walks up the directories that names are in.                    *)
LEMMA WithinIs ==
  ASSUME NEW t, Sound(t), Counts(t), NEW i, IsDir(t, i), NEW a
  PROVE  IsWithin(t, i, a) <=> Below(t, i, a)
<1>1. OfShape(t) /\ EntriesAgree(t) /\ DirsSound(t)
  BY DEF Sound
<1>2. \A u : IsDir(t, u) => u \in DOMAIN t.inode /\ u \in Ino
  BY <1>1, Fields DEF IsDir
<1>3. ASSUME NEW S \in SUBSET Ino, i \in S, Rises(t, S), IsWithin(t, i, a) PROVE a \in S
  <2> DEFINE T == {u \in S : IsDir(t, u)}
  <2>1. ASSUME NEW u \in T, HasParent(t, u) PROVE Parent(t, u) \in T
    <3>1. CASE u = Top
      BY <2>1, <3>1, ParentIs
    <3>2. CASE u # Top
      <4>1. PICK e \in t.item : e.id = u /\ ~e.root
        BY <1>2, <3>2, HasNames
      <4>2. Parent(t, u) = e.dir
        BY <4>1, ParentIs
      <4>3. e.dir \in S /\ IsDir(t, e.dir)
        BY <1>1, <1>3, <4>1 DEF Rises, DirsSound
      <4>4. QED
        BY <4>2, <4>3
    <3>3. QED
      BY <3>1, <3>2
  <2>2. T \in SUBSET Ino /\ i \in T
    BY <1>3
  <2>3. a \in T
    BY <1>3, <2>1, <2>2 DEF IsWithin
  <2>4. QED
    BY <2>3
<1>4. ASSUME NEW S \in SUBSET Ino, i \in S, \A u \in S : HasParent(t, u) => Parent(t, u) \in S,
             Below(t, i, a)
      PROVE  a \in S
  <2>1. Rises(t, S)
    BY <1>4, ParentIs DEF Rises
  <2>2. QED
    BY <1>4, <2>1 DEF Below
<1>5. QED
  BY <1>3, <1>4 DEF IsWithin, Below

(* A tree is exact when it is whole.                                        *)
LEMMA ExactIsWhole ==
  ASSUME NEW t
  PROVE  Whole(t) <=> OfShape(t) /\ TreeExact(t)
<1>1. ASSUME Whole(t) PROVE OfShape(t) /\ TreeExact(t)
  <2>1. Sound(t) /\ Counts(t) /\ \A i \in DOMAIN t.inode : IsDir(t, i) => Below(t, i, Top)
    BY <1>1 DEF Whole
  <2>2. \A i \in DOMAIN t.inode : IsDir(t, i) => IsWithin(t, i, Top)
    BY <2>1, WithinIs
  <2>3. QED
    BY <2>1, <2>2 DEF TreeExact, Sound, DirsSound, Counts, LinksCounted, Rooted
<1>2. ASSUME OfShape(t), TreeExact(t) PROVE Whole(t)
  <2>1. Sound(t) /\ Counts(t)
    BY <1>2 DEF TreeExact, Sound, DirsSound, Counts, LinksCounted, Rooted
  <2>2. \A i \in DOMAIN t.inode : IsDir(t, i) => IsWithin(t, i, Top)
    BY <1>2 DEF TreeExact, Rooted
  <2>3. \A i \in DOMAIN t.inode : IsDir(t, i) => Below(t, i, Top)
    BY <2>1, <2>2, WithinIs
  <2>4. QED
    BY <2>1, <2>3 DEF Whole
<1>3. QED
  BY <1>1, <1>2
=============================================================================
