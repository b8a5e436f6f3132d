-------------------------- MODULE NamespaceProofs --------------------------
(***************************************************************************)
(* Proofs about Namespace, for any names, hashes, room in an item, inodes, *)
(* links and subvolumes, and any number of calls: the items of every name, *)
(* inode and subvolume go on telling of each other; a read-only subvolume  *)
(* does not change; and each call is one step of Directories.              *)
(***************************************************************************)
EXTENDS NamespaceInvariant

\* A name of an inode.
InodeEntry(d, n, i) == [dir |-> d, name |-> n, id |-> i, root |-> FALSE]

\* What becomes of the rest of a tree that comes to have the entries items.
Turned(t, u, items) ==
  /\ u.item = items
  /\ \A i \in DOMAIN t.inode \cap DOMAIN u.inode :
       u.inode[i].kind = t.inode[i].kind /\ u.inode[i].mode = t.inode[i].mode
  /\ u.xattr = {x \in t.xattr : x.ino \in DOMAIN u.inode}
  /\ \A e \in u.index \cup t.index : e.root => e \in u.index /\ e \in t.index

\* The inodes there were that u has no more are of no name of u.
Leaves(t, u) ==
  /\ DOMAIN u.inode \subseteq DOMAIN t.inode
  /\ \A j \in DOMAIN t.inode \ DOMAIN u.inode :
       j # Top /\ \A e \in u.item : e.root \/ e.id # j

-----------------------------------------------------------------------------
(* next_dir_index: past every index a directory has.                        *)
LEMMA PastEveryIndex ==
  ASSUME NEW t, OfShape(t), NEW d
  PROVE  /\ NextDirIndex(t, d) \in Nat
         /\ \A e \in t.index : e.dir = d => e.index < NextDirIndex(t, d)
<1> DEFINE S == {e.index : e \in Index(t, d)}
<1>1. Index(t, d) \subseteq t.index
  BY DEF Index
<1>2. IsFiniteSet(Index(t, d)) /\ Index(t, d) \subseteq IndexRecord
  BY <1>1, Fields, FS_Subset
<1>3. S \subseteq Nat
  BY <1>2 DEF IndexRecord
<1>4. IsFiniteSet(S)
  <2> DEFINE f == [e \in Index(t, d) |-> e.index]
  <2>1. f \in Surjection(Index(t, d), S)
    BY DEF Surjection
  <2>2. QED
    BY <1>2, <2>1, FS_Surjection
<1>5. CASE Index(t, d) = {}
  BY <1>5 DEF NextDirIndex, Index
<1>6. CASE Index(t, d) # {}
  <2>1. S # {} /\ S \in SUBSET Nat
    BY <1>3, <1>6
  <2> HIDE DEF S
  <2>2. Max(S) \in S /\ \A j \in S : j <= Max(S)
    BY <1>4, <2>1, Greatest
  <2>3. NextDirIndex(t, d) = Max(S) + 1
    BY <1>6 DEF NextDirIndex, S
  <2>4. \A e \in t.index : e.dir = d => e.index \in S
    BY DEF Index, S
  <2>5. QED
    BY <1>3, <2>2, <2>3, <2>4
<1>7. QED
  BY <1>5, <1>6

(* A free name's entry, at the next index, is fresh.                        *)
LEMMA NextIsFresh ==
  ASSUME NEW t, OfShape(t), NEW d, NEW n \in Name, FreeName(t, d, n), NEW id, NEW isRoot
  PROVE  LET e == NewEntry(d, n, id, isRoot, NextDirIndex(t, d))
         IN  /\ Fresh(t, e) /\ e.dir = d /\ e.name = n /\ e.id = id /\ e.root = isRoot
             /\ e.index = NextDirIndex(t, d)
             /\ \A x \in t.index : x.dir = d => x.index # NextDirIndex(t, d)
<1> DEFINE e == NewEntry(d, n, id, isRoot, NextDirIndex(t, d))
<1>1. /\ NextDirIndex(t, d) \in Nat
      /\ \A x \in t.index : x.dir = d => x.index < NextDirIndex(t, d)
  BY PastEveryIndex
<1>2. \A x \in t.index : x.index \in Nat
  BY Fields DEF IndexRecord
<1>3. \A x \in t.index : x.dir = d => x.index # NextDirIndex(t, d)
  BY <1>1, <1>2
<1>4. /\ e.dir = d /\ e.name = n /\ e.id = id /\ e.root = isRoot
      /\ e.index = NextDirIndex(t, d)
  BY DEF NewEntry
<1> HIDE DEF e
<1>5. Fresh(t, e)
  BY <1>1, <1>3, <1>4 DEF Fresh, FreeName
<1>6. QED
  BY <1>3, <1>4, <1>5 DEF e

(* An entry not there yet.                                                  *)
LEMMA NotYet ==
  ASSUME NEW t, NEW e, Fresh(t, e), e.root \in BOOLEAN
  PROVE  /\ Unnumbered(e) \notin t.item
         /\ Unnumbered(e) = [dir |-> e.dir, name |-> e.name, id |-> e.id, root |-> e.root]
         /\ Unnumbered(e).dir = e.dir /\ Unnumbered(e).name = e.name
         /\ Unnumbered(e).id = e.id /\ Unnumbered(e).root = e.root
BY DEF Unnumbered, Fresh, Entry

(* add_entry, on any tree between two edits.                                *)
LEMMA Gives ==
  ASSUME NEW t, Sound(t), NEW d, NEW n \in Name, FreeName(t, d, n),
         NEW i \in DOMAIN t.inode, i # Top, IsDir(t, i) => \A r \in t.ref : r.ino # i,
         CanAdd(t, d, n, i), NEW index \in Nat,
         \A x \in t.index : x.dir = d => x.index # index
  PROVE  LET u == AddEntry(t, d, n, i, index)
         IN  /\ Sound(u) /\ SameInodes(t, u) /\ u.xattr = t.xattr
             /\ InodeEntry(d, n, i) \notin t.item
             /\ Turned(t, u, t.item \cup {InodeEntry(d, n, i)})
<1> DEFINE no == FALSE
           e == NewEntry(d, n, i, no, index)
           u == AddEntry(t, d, n, i, index)
<1>1. OfShape(t) /\ ItemsFit(t)
  BY DEF Sound
<1>2. e.dir = d /\ e.name = n /\ e.id = i /\ e.root = no /\ e.index = index
  BY DEF NewEntry
<1> HIDE DEF e
<1>3. Fresh(t, e)
  BY <1>2 DEF Fresh, FreeName
<1>4. /\ Unnumbered(e) \notin t.item /\ Unnumbered(e) = InodeEntry(d, n, i)
  BY <1>2, <1>3, NotYet DEF InodeEntry
<1>5. d \in DOMAIN t.inode /\ i \in Ino
  BY <1>1, Fields DEF FreeName, IsDir
<1>6. OfShape(u) /\ Given(t, u, e)
  BY <1>1, <1>5, GivesOne DEF e
<1>7. Cardinality(ByHash(t, e.dir, e.name)) < ItemRoom
  BY <1>2 DEF CanAdd
<1>8. ~e.root
  BY <1>2
<1> HIDE DEF u, no
<1>9. Sound(u)
  BY <1>2, <1>3, <1>6, <1>7, <1>8, GivenSound
<1>10. SameInodes(t, u) /\ u.xattr = t.xattr /\ u.item = t.item \cup {Unnumbered(e)}
       /\ u.index = t.index \cup {e}
  BY <1>6 DEF Given
<1>11. \A x \in t.xattr : x.ino \in DOMAIN u.inode
  BY <1>1, <1>10, UnderInodes DEF ItemsFit, SameInodes
<1>12. u.xattr = {x \in t.xattr : x.ino \in DOMAIN u.inode}
  BY <1>10, <1>11
<1>13. Turned(t, u, t.item \cup {InodeEntry(d, n, i)})
  BY <1>4, <1>8, <1>10, <1>12 DEF Turned, SameInodes
<1>14. QED
  BY <1>4, <1>9, <1>10, <1>13 DEF u

(* create, mkdir and symlink: one inode and one name more.                  *)
LEMMA Creates ==
  ASSUME NEW t, Whole(t), NEW d, NEW n \in Name, FreeName(t, d, n),
         NEW i \in Ino, i \notin DOMAIN t.inode, NEW x \in Inode, x.nlink = 1,
         CanAdd(PutInode(t, i, x), d, n, i)
  PROVE  LET made == PutInode(t, i, x)
             u == AddEntry(made, d, n, i, NextDirIndex(made, d))
         IN  /\ Whole(u) /\ InodeEntry(d, n, i) \notin t.item
             /\ Turned(t, u, t.item \cup {InodeEntry(d, n, i)})
             /\ DOMAIN u.inode = DOMAIN t.inode \cup {i}
             /\ u.inode[i].kind = x.kind /\ u.inode[i].mode = x.mode
             /\ \A y \in u.xattr : y.ino # i
<1> DEFINE g == PutInode(t, i, x)
           index == NextDirIndex(g, d)
           u == AddEntry(g, d, n, i, index)
           b == InodeEntry(d, n, i)
<1>1. Sound(t) /\ OfShape(t) /\ ItemsFit(t) /\ DirsSound(t) /\ Counts(t)
  BY DEF Whole, Sound
<1>2. /\ OfShape(g)
      /\ DOMAIN g.inode = DOMAIN t.inode \cup {i} /\ g.inode[i] = x
      /\ \A j \in DOMAIN t.inode : j # i => g.inode[j] = t.inode[j]
      /\ g.ref = t.ref /\ g.ext = t.ext /\ g.item = t.item /\ g.index = t.index
      /\ g.xattr = t.xattr
  BY <1>1, Putting
<1>3. Sound(g)
  BY <1>1, PutSound
<1> HIDE DEF g
<1>4. /\ \A r \in t.ref \cup t.ext : r.ino # i
      /\ \A y \in t.xattr : y.ino # i
  BY <1>1, UnderInodes DEF ItemsFit
<1>5. i # Top
  BY <1>1 DEF DirsSound, IsDir
<1>6. FreeName(g, d, n)
  BY <1>2 DEF FreeName, IsDir, Entry
<1>7. index \in Nat /\ \A y \in g.index : y.dir = d => y.index # index
  <2>1. index \in Nat /\ \A y \in g.index : y.dir = d => y.index < index
    BY <1>2, PastEveryIndex
  <2>2. \A y \in g.index : y.index \in Nat
    BY <1>2, Fields DEF IndexRecord
  <2>3. QED
    BY <2>1, <2>2
<1>8. CanAdd(g, d, n, i)
  BY DEF g
<1> HIDE DEF index
<1>9. /\ Sound(u) /\ SameInodes(g, u) /\ u.xattr = g.xattr
      /\ b \notin g.item /\ Turned(g, u, g.item \cup {b})
  <2>1. i \in DOMAIN g.inode /\ \A r \in g.ref : r.ino # i
    BY <1>2, <1>4
  <2>2. QED
    BY <1>3, <1>5, <1>6, <1>7, <1>8, <2>1, Gives
<1> HIDE DEF u
<1>10. /\ u.item = t.item \cup {b} /\ b \notin t.item /\ u.xattr = t.xattr
       /\ DOMAIN u.inode = DOMAIN t.inode \cup {i}
       /\ \A e \in u.index \cup t.index : e.root => e \in u.index /\ e \in t.index
  BY <1>2, <1>9 DEF Turned, SameInodes
<1>11. /\ u.inode[i].kind = x.kind /\ u.inode[i].mode = x.mode /\ u.inode[i].nlink = 1
       /\ \A j \in DOMAIN t.inode :
            /\ u.inode[j].kind = t.inode[j].kind /\ u.inode[j].mode = t.inode[j].mode
            /\ u.inode[j].nlink = t.inode[j].nlink
  BY <1>2, <1>9 DEF SameInodes
<1>12. u.xattr = {y \in t.xattr : y.ino \in DOMAIN u.inode}
  <2>1. \A y \in t.xattr : y.ino \in DOMAIN t.inode
    BY <1>1, UnderInodes DEF ItemsFit
  <2>2. QED
    BY <1>10, <2>1
<1>13. Turned(t, u, t.item \cup {b})
  BY <1>10, <1>11, <1>12 DEF Turned
<1>14. b.id = i /\ ~b.root /\ b.dir = d
  BY DEF InodeEntry
<1> HIDE DEF b
<1>15. Counts(u)
  <2> SUFFICES ASSUME NEW j \in DOMAIN u.inode, j # Top
               PROVE  Cardinality(NamesOf(u, j)) = u.inode[j].nlink
    BY DEF Counts
  <2>1. CASE j = i
    <3>1. NamesOf(t, i) = {}
      <4>1. ASSUME NEW e \in t.item, e.id = i, ~e.root PROVE FALSE
        <5>1. PICK y \in t.index : e = Unnumbered(y)
          BY <1>1, Indexed DEF Sound
        <5>2. y.id = i /\ ~y.root
          BY <1>1, <4>1, <5>1, Indexed DEF Sound
        <5>3. RefOf(y) \in t.ref \cup t.ext /\ RefOf(y).ino = i
          BY <1>1, <5>2, Referenced DEF Sound
        <5>4. QED
          BY <1>4, <5>3
      <4>2. QED
        BY <4>1 DEF NamesOf
    <3>2. Cardinality(NamesOf(t, i)) = 0
      BY <3>1, FS_EmptySet
    <3>3. Cardinality(NamesOf(u, i)) = Cardinality(NamesOf(t, i)) + 1
      BY <1>1, <1>10, <1>14, CountMore
    <3>4. QED
      BY <1>11, <2>1, <3>2, <3>3
  <2>2. CASE j # i
    <3>1. NamesOf(u, j) = NamesOf(t, j)
      BY <1>1, <1>10, <1>14, <2>2, CountMore
    <3>2. QED
      BY <1>1, <1>10, <1>11, <2>2, <3>1 DEF Counts
  <2>3. QED
    BY <2>1, <2>2
<1>16. ASSUME NEW j \in DOMAIN u.inode, IsDir(u, j) PROVE Below(u, j, Top)
  <2> SUFFICES ASSUME NEW S \in SUBSET Ino, j \in S, Rises(u, S) PROVE Top \in S
    BY DEF Below
  <2>1. \A v \in DOMAIN t.inode : IsDir(t, v) => IsDir(u, v)
    BY <1>10, <1>11 DEF IsDir
  <2>2. Rises(t, S)
    BY <1>10, <2>1 DEF Rises, IsDir
  <2>3. CASE j = i
    <3>1. d \in S
      BY <1>10, <1>14, <1>16, <2>3 DEF Rises
    <3>2. d \in DOMAIN t.inode /\ Below(t, d, Top)
      BY DEF FreeName, Whole, IsDir
    <3>3. QED
      BY <2>2, <3>1, <3>2 DEF Below
  <2>4. CASE j # i
    <3>1. j \in DOMAIN t.inode /\ Below(t, j, Top)
      BY <1>10, <1>11, <1>16, <2>4 DEF Whole, IsDir
    <3>2. QED
      BY <2>2, <3>1 DEF Below
  <2>5. QED
    BY <2>3, <2>4
<1>17. Whole(u)
  BY <1>9, <1>15, <1>16 DEF Whole
<1>18. QED
  BY <1>4, <1>10, <1>11, <1>13, <1>17 DEF u, g, index, b

(* link: one name more of a file, and one link.                             *)
LEMMA Links1 ==
  ASSUME NEW t, Whole(t), NEW d, NEW n \in Name, FreeName(t, d, n),
         NEW i, Linkable(t, i), CanAdd(t, d, n, i)
  PROVE  LET u == AddEntry(Linked(t, i, 1), d, n, i, NextDirIndex(t, d))
         IN  /\ Whole(u) /\ InodeEntry(d, n, i) \notin t.item
             /\ Turned(t, u, t.item \cup {InodeEntry(d, n, i)})
             /\ DOMAIN u.inode = DOMAIN t.inode
<1> DEFINE m == t.inode[i].nlink + 1
           x == [t.inode[i] EXCEPT !.nlink = m]
           g == PutInode(t, i, x)
           index == NextDirIndex(t, d)
           u == AddEntry(g, d, n, i, index)
           b == InodeEntry(d, n, i)
<1>0. Linked(t, i, 1) = g
  BY DEF Linked
<1>1. Sound(t) /\ OfShape(t) /\ ItemsFit(t) /\ DirsSound(t) /\ Counts(t)
  BY DEF Whole, Sound
<1>2. /\ i \in DOMAIN t.inode /\ i \in Ino /\ t.inode[i] \in Inode
      /\ t.inode[i].nlink \in 1 .. MaxLinks /\ MaxLinks \in Nat /\ t.inode[i].nlink < MaxLinks
      /\ ~IsDir(t, i) /\ t.inode[i].kind # "dir"
  BY <1>1, Fields, NamespaceAssumption DEF Linkable, Inode, IsDir
<1>3. m \in 1 .. MaxLinks
  BY <1>2
<1> HIDE DEF m
<1>4. x \in Inode /\ x.kind = t.inode[i].kind /\ x.nlink = m /\ x.mode = t.inode[i].mode
  BY <1>2, <1>3, LinksOf
<1> HIDE DEF x
<1>5. /\ OfShape(g)
      /\ DOMAIN g.inode = DOMAIN t.inode \cup {i} /\ g.inode[i] = x
      /\ \A j \in DOMAIN t.inode : j # i => g.inode[j] = t.inode[j]
      /\ g.ref = t.ref /\ g.ext = t.ext /\ g.item = t.item /\ g.index = t.index
      /\ g.xattr = t.xattr
  BY <1>1, <1>2, <1>4, Putting
<1>6. Sound(g)
  BY <1>1, <1>2, <1>4, PutSound
<1> HIDE DEF g
<1>7. i # Top /\ DOMAIN g.inode = DOMAIN t.inode /\ \A j : IsDir(g, j) <=> IsDir(t, j)
  BY <1>1, <1>2, <1>4, <1>5 DEF DirsSound, IsDir
<1>8. FreeName(g, d, n)
  BY <1>5, <1>7 DEF FreeName, Entry
<1>9. index \in Nat /\ \A y \in t.index : y.dir = d => y.index # index
  <2>1. index \in Nat /\ \A y \in t.index : y.dir = d => y.index < index
    BY <1>1, PastEveryIndex
  <2>2. \A y \in t.index : y.index \in Nat
    BY <1>1, Fields DEF IndexRecord
  <2>3. QED
    BY <2>1, <2>2
<1>10. CanAdd(g, d, n, i)
  BY <1>5 DEF CanAdd, ByHash, RefFits, RefsIn, ExtsIn
<1> HIDE DEF index
<1>11. /\ Sound(u) /\ SameInodes(g, u) /\ u.xattr = g.xattr
       /\ b \notin g.item /\ Turned(g, u, g.item \cup {b})
  BY <1>2, <1>5, <1>6, <1>7, <1>8, <1>9, <1>10, Gives
<1> HIDE DEF u
<1>12. /\ u.item = t.item \cup {b} /\ b \notin t.item /\ u.xattr = t.xattr
       /\ DOMAIN u.inode = DOMAIN t.inode
       /\ \A e \in u.index \cup t.index : e.root => e \in u.index /\ e \in t.index
  BY <1>5, <1>7, <1>11 DEF Turned, SameInodes
<1>13. /\ u.inode[i].nlink = m
       /\ \A j \in DOMAIN t.inode :
            /\ u.inode[j].kind = t.inode[j].kind /\ u.inode[j].mode = t.inode[j].mode
            /\ j # i => u.inode[j].nlink = t.inode[j].nlink
  <2>1. \A j \in DOMAIN g.inode :
          /\ u.inode[j].kind = g.inode[j].kind /\ u.inode[j].nlink = g.inode[j].nlink
          /\ u.inode[j].mode = g.inode[j].mode
    BY <1>11 DEF SameInodes
  <2>2. QED
    BY <1>2, <1>4, <1>5, <1>7, <2>1
<1>14. u.xattr = {y \in t.xattr : y.ino \in DOMAIN u.inode}
  <2>1. \A y \in t.xattr : y.ino \in DOMAIN t.inode
    BY <1>1, UnderInodes DEF ItemsFit
  <2>2. QED
    BY <1>12, <2>1
<1>15. Turned(t, u, t.item \cup {b})
  BY <1>12, <1>13, <1>14 DEF Turned
<1>16. b.id = i /\ ~b.root /\ b.dir = d
  BY DEF InodeEntry
<1> HIDE DEF b
<1>17. Counts(u)
  <2> SUFFICES ASSUME NEW j \in DOMAIN u.inode, j # Top
               PROVE  Cardinality(NamesOf(u, j)) = u.inode[j].nlink
    BY DEF Counts
  <2>1. CASE j = i
    <3>1. Cardinality(NamesOf(u, i)) = Cardinality(NamesOf(t, i)) + 1
      BY <1>1, <1>12, <1>16, CountMore
    <3>2. Cardinality(NamesOf(t, i)) = t.inode[i].nlink
      BY <1>1, <1>2, <1>7 DEF Counts
    <3>3. QED
      BY <1>13, <2>1, <3>1, <3>2 DEF m
  <2>2. CASE j # i
    <3>1. NamesOf(u, j) = NamesOf(t, j)
      BY <1>1, <1>12, <1>16, <2>2, CountMore
    <3>2. QED
      BY <1>1, <1>12, <1>13, <2>2, <3>1 DEF Counts
  <2>3. QED
    BY <2>1, <2>2
<1>18. ASSUME NEW j \in DOMAIN u.inode, IsDir(u, j) PROVE Below(u, j, Top)
  <2> SUFFICES ASSUME NEW S \in SUBSET Ino, j \in S, Rises(u, S) PROVE Top \in S
    BY DEF Below
  <2>1. \A v : IsDir(t, v) <=> IsDir(u, v)
    BY <1>12, <1>13 DEF IsDir
  <2>2. Rises(t, S)
    BY <1>12, <2>1 DEF Rises
  <2>3. j \in DOMAIN t.inode /\ Below(t, j, Top)
    BY <1>12, <1>18, <2>1 DEF Whole
  <2>4. QED
    BY <2>2, <2>3 DEF Below
<1>19. Whole(u)
  BY <1>11, <1>17, <1>18 DEF Whole
<1>20. QED
  BY <1>0, <1>12, <1>15, <1>19 DEF u, index, b

(* A name of an inode, in its directory's index.                            *)
LEMMA NamedInode ==
  ASSUME NEW t, Sound(t), NEW d, NEW n, NEW i \in InodeOf(t, d, n)
  PROVE  /\ \E x \in t.index : /\ x.dir = d /\ x.name = n /\ x.id = i /\ ~x.root
                               /\ Unnumbered(x) = InodeEntry(d, n, i)
         /\ InodeEntry(d, n, i) \in t.item /\ InodeOf(t, d, n) = {i}
         /\ Entry(t, d, n) = {InodeEntry(d, n, i)}
         /\ IsDir(t, d) /\ n \in Name /\ i \in DOMAIN t.inode /\ i # Top
<1>1. OfShape(t) /\ EntriesAgree(t) /\ ItemsFit(t) /\ DirsSound(t)
  BY DEF Sound
<1>2. PICK e \in t.item : e.dir = d /\ e.name = n /\ ~e.root /\ e.id = i
  BY DEF InodeOf, Entry
<1>3. PICK x \in t.index : e = Unnumbered(x)
  BY <1>1, Indexed
<1>4. x.dir = d /\ x.name = n /\ x.id = i /\ ~x.root
  BY <1>1, <1>2, <1>3, Indexed
<1>5. Unnumbered(x) = InodeEntry(d, n, i)
  <2>1. x.root \in BOOLEAN
    BY <1>1, Fields DEF IndexRecord
  <2>2. x.root = FALSE
    BY <1>4, <2>1
  <2>3. QED
    BY <1>4, <2>2 DEF Unnumbered, InodeEntry
<1>6. Entry(t, d, n) = {InodeEntry(d, n, i)}
  BY <1>1, <1>4, <1>5, OneEntry
<1>7. InodeOf(t, d, n) = {i}
  <2>1. InodeEntry(d, n, i).id = i /\ ~InodeEntry(d, n, i).root
    BY DEF InodeEntry
  <2>2. QED
    BY <1>6, <2>1 DEF InodeOf
<1>8. IsDir(t, d) /\ i # Top
  BY <1>1, <1>2 DEF DirsSound
<1>9. n \in Name
  BY <1>1, <1>2, Fields DEF EntryRecord
<1>10. i \in DOMAIN t.inode
  BY <1>1, <1>4, Referenced, UnderInodes DEF ItemsFit
<1>11. QED
  BY <1>2, <1>3, <1>4, <1>5, <1>6, <1>7, <1>8, <1>9, <1>10

(* unlink, rmdir and what a rename replaces: one name less, and an inode    *)
(* less if it was the last.                                                 *)
LEMMA Removes ==
  ASSUME NEW t, Whole(t), NEW d, NEW n, NEW i \in InodeOf(t, d, n),
         IsDir(t, i) => Index(t, i) = {}, CanDropLink(DropEntry(t, d, n, i), i)
  PROVE  LET u == DropLink(DropEntry(t, d, n, i), i)
         IN  /\ Whole(u)
             /\ Turned(t, u, t.item \ {InodeEntry(d, n, i)})
             /\ Leaves(t, u) /\ \A j \in DOMAIN t.inode : j # i => j \in DOMAIN u.inode
             /\ \A e \in t.item : e.dir # i
             /\ u.index \subseteq t.index
<1> DEFINE g == DropEntry(t, d, n, i)
           u == DropLink(g, i)
           b == InodeEntry(d, n, i)
<1>1. Sound(t) /\ OfShape(t) /\ EntriesAgree(t) /\ ItemsFit(t) /\ DirsSound(t) /\ Counts(t)
  BY DEF Whole, Sound
<1>2. /\ b \in t.item /\ IsDir(t, d) /\ i \in DOMAIN t.inode /\ i # Top
      /\ b.id = i /\ ~b.root
  BY <1>1, NamedInode DEF InodeEntry
<1>3. PICK x \in t.index : /\ x.dir = d /\ x.name = n /\ x.id = i /\ ~x.root
                           /\ Unnumbered(x) = b
  BY <1>1, NamedInode
<1>4. OfShape(g) /\ Dropped(t, g, x)
  BY <1>1, <1>3, DropsOne
<1>5. Sound(g)
  BY <1>1, <1>3, <1>4, DroppedSound
<1>6. CanDropLink(g, i)
  OBVIOUS
<1> HIDE DEF g, b
<1>7. /\ SameInodes(t, g) /\ DOMAIN g.inode = DOMAIN t.inode /\ g.xattr = t.xattr
      /\ g.item = t.item \ {b} /\ g.index = t.index \ {x}
  BY <1>3, <1>4 DEF Dropped, SameInodes
<1>8. /\ Sound(u) /\ g.inode[i].nlink \in Nat \ {0}
      /\ \/ g.inode[i].nlink > 1 /\ Fewer1(g, u, i)
         \/ /\ g.inode[i].nlink = 1 /\ Freed(g, u, i)
            /\ \A e \in g.item \cup g.index : e.dir # i
  BY <1>2, <1>5, <1>6, <1>7, LinkDropped
<1> HIDE DEF u
<1>9. /\ u.item = t.item \ {b} /\ u.index = t.index \ {x}
      /\ DOMAIN u.inode \subseteq DOMAIN t.inode
      /\ \A j \in DOMAIN t.inode : j # i => j \in DOMAIN u.inode
      /\ \A j \in DOMAIN u.inode :
           /\ u.inode[j].kind = t.inode[j].kind /\ u.inode[j].mode = t.inode[j].mode
           /\ j # i => u.inode[j].nlink = t.inode[j].nlink
           /\ j = i => u.inode[j].nlink = t.inode[j].nlink - 1
  BY <1>2, <1>7, <1>8 DEF Fewer1, Freed, SameInodes
<1>10. u.xattr = {y \in t.xattr : y.ino \in DOMAIN u.inode}
  <2>1. \A y \in t.xattr : y.ino \in DOMAIN t.inode
    BY <1>1, UnderInodes DEF ItemsFit
  <2>2. CASE Fewer1(g, u, i)
    BY <1>7, <2>1, <2>2 DEF Fewer1
  <2>3. CASE Freed(g, u, i)
    BY <1>7, <2>1, <2>3 DEF Freed
  <2>4. QED
    BY <1>8, <2>2, <2>3
<1>11. Turned(t, u, t.item \ {b})
  BY <1>3, <1>9, <1>10 DEF Turned
<1>12. \A e \in t.item : e.dir # i
  <2>1. CASE IsDir(t, i)
    <3>1. \A y \in t.index : y.dir # i
      BY <2>1 DEF Index
    <3>2. QED
      BY <1>1, <3>1, Indexed
  <2>2. CASE ~IsDir(t, i)
    BY <1>1, <2>2 DEF DirsSound
  <2>3. QED
    BY <2>1, <2>2
<1>13. \A j : /\ j = i => Cardinality(NamesOf(u, j)) = Cardinality(NamesOf(t, j)) - 1
              /\ j # i => NamesOf(u, j) = NamesOf(t, j)
  BY <1>1, <1>2, <1>9, CountLess
<1>14. Counts(u)
  <2> SUFFICES ASSUME NEW j \in DOMAIN u.inode, j # Top
               PROVE  Cardinality(NamesOf(u, j)) = u.inode[j].nlink
    BY DEF Counts
  <2>1. Cardinality(NamesOf(t, j)) = t.inode[j].nlink
    BY <1>1, <1>9 DEF Counts
  <2>2. QED
    BY <1>9, <1>13, <2>1
<1>15. ASSUME NEW j \in DOMAIN t.inode \ DOMAIN u.inode
       PROVE  j = i /\ \A e \in u.item : e.root \/ e.id # j
  <2>1. j = i
    BY <1>9, <1>15
  <2>2. g.inode[i].nlink = 1
    BY <1>7, <1>8, <1>15, <2>1 DEF Fewer1
  <2>3. t.inode[i].nlink = 1
    BY <1>2, <1>7, <2>2 DEF SameInodes
  <2>4. Cardinality(NamesOf(t, i)) = 1
    BY <1>1, <1>2, <2>3 DEF Counts
  <2>5. Cardinality(NamesOf(u, i)) = 0
    BY <1>13, <2>4
  <2>6. IsFiniteSet(NamesOf(u, i))
    <3>1. OfShape(u)
      BY <1>8 DEF Sound
    <3>2. QED
      BY <3>1, NamesFinite
  <2>7. NamesOf(u, i) = {}
    BY <2>5, <2>6, FS_EmptySet
  <2>8. QED
    BY <2>1, <2>7 DEF NamesOf
<1>16. ASSUME NEW j \in DOMAIN u.inode, IsDir(u, j) PROVE Below(u, j, Top)
  <2> SUFFICES ASSUME NEW S \in SUBSET Ino, j \in S, Rises(u, S) PROVE Top \in S
    BY DEF Below
  <2>1. \A v \in DOMAIN u.inode : IsDir(t, v) <=> IsDir(u, v)
    BY <1>9 DEF IsDir
  <2>2. j \in DOMAIN t.inode /\ IsDir(t, j) /\ Below(t, j, Top)
    BY <1>9, <1>16, <2>1 DEF Whole
  <2>3. CASE IsDir(t, i)
    <3>1. t.inode[i].nlink = 1
      BY <1>1, <1>2, <2>3 DEF DirsSound
    <3>2. i \notin DOMAIN u.inode
      <4>1. g.inode[i].nlink = 1
        BY <1>2, <1>7, <3>1 DEF SameInodes
      <4>2. QED
        BY <1>8, <4>1 DEF Freed
    <3> DEFINE T == S \ {i}
    <3>3. Rises(t, T)
      <4>1. ASSUME NEW e \in t.item, ~e.root, e.id \in T, IsDir(t, e.id) PROVE e.dir \in T
        <5>1. e # b /\ e \in u.item
          BY <1>2, <1>9, <4>1
        <5>2. IsDir(u, e.id)
          BY <1>9, <2>1, <4>1 DEF IsDir
        <5>3. e.dir \in S /\ e.dir # i
          BY <1>12, <4>1, <5>1, <5>2 DEF Rises
        <5>4. QED
          BY <5>3
      <4>2. QED
        BY <4>1 DEF Rises
    <3>4. j \in T /\ T \in SUBSET Ino
      BY <3>2
    <3>5. Top \in T
      BY <2>2, <3>3, <3>4 DEF Below
    <3>6. QED
      BY <3>5
  <2>4. CASE ~IsDir(t, i)
    <3>1. Rises(t, S)
      <4>1. ASSUME NEW e \in t.item, ~e.root, e.id \in S, IsDir(t, e.id) PROVE e.dir \in S
        <5>1. e # b /\ e \in u.item
          BY <1>2, <1>9, <2>4, <4>1
        <5>2. IsDir(u, e.id)
          BY <1>9, <2>1, <2>4, <4>1 DEF IsDir
        <5>3. QED
          BY <4>1, <5>1, <5>2 DEF Rises
      <4>2. QED
        BY <4>1 DEF Rises
    <3>2. QED
      BY <2>2, <3>1 DEF Below
  <2>5. QED
    BY <2>3, <2>4
<1>17. Whole(u)
  BY <1>8, <1>14, <1>16 DEF Whole
<1>18. Leaves(t, u)
  BY <1>2, <1>9, <1>15 DEF Leaves
<1>19. QED
  BY <1>9, <1>11, <1>12, <1>17, <1>18 DEF u, g, b

(* A rename to a free name: one name is another's, and nothing else moves.  *)
LEMMA Moves ==
  ASSUME NEW t, Whole(t), NEW d, NEW n, NEW i \in InodeOf(t, d, n),
         NEW d2, NEW n2 \in Name, FreeName(t, d2, n2), NEW index \in Nat,
         \A x \in t.index : x.dir = d2 => x.index # index,
         CanAdd(DropEntry(t, d, n, i), d2, n2, i),
         IsDir(t, i) /\ d # d2 => ~Below(t, d2, i)
  PROVE  LET u == AddEntry(DropEntry(t, d, n, i), d2, n2, i, index)
         IN  /\ Whole(u) /\ InodeEntry(d2, n2, i) \notin t.item
             /\ Turned(t, u, (t.item \ {InodeEntry(d, n, i)}) \cup {InodeEntry(d2, n2, i)})
             /\ DOMAIN u.inode = DOMAIN t.inode
<1> DEFINE g == DropEntry(t, d, n, i)
           u == AddEntry(g, d2, n2, i, index)
           a == InodeEntry(d, n, i)
           b == InodeEntry(d2, n2, i)
<1>1. Sound(t) /\ OfShape(t) /\ EntriesAgree(t) /\ ItemsFit(t) /\ DirsSound(t) /\ Counts(t)
  BY DEF Whole, Sound
<1>2. /\ a \in t.item /\ IsDir(t, d) /\ i \in DOMAIN t.inode /\ i # Top
      /\ a.id = i /\ ~a.root /\ a.dir = d
  BY <1>1, NamedInode DEF InodeEntry
<1>3. PICK x \in t.index : /\ x.dir = d /\ x.name = n /\ x.id = i /\ ~x.root
                           /\ Unnumbered(x) = a
  BY <1>1, NamedInode
<1>4. OfShape(g) /\ Dropped(t, g, x)
  BY <1>1, <1>3, DropsOne
<1>5. Sound(g)
  BY <1>1, <1>3, <1>4, DroppedSound
<1>6. CanAdd(g, d2, n2, i)
  OBVIOUS
<1> HIDE DEF g, a
<1>7. /\ SameInodes(t, g) /\ DOMAIN g.inode = DOMAIN t.inode /\ g.xattr = t.xattr
      /\ g.item = t.item \ {a} /\ g.index = t.index \ {x}
      /\ g.ref = t.ref \ {RefOf(x)}
      /\ \A j : IsDir(g, j) <=> IsDir(t, j)
  BY <1>3, <1>4 DEF Dropped, SameInodes, IsDir
<1>8. FreeName(g, d2, n2)
  BY <1>7 DEF FreeName, Entry
<1>9. ASSUME IsDir(g, i) PROVE \A r \in g.ref : r.ino # i
  <2> SUFFICES ASSUME NEW r \in g.ref, r.ino = i PROVE FALSE
    OBVIOUS
  <2>0. r \in t.ref /\ r # RefOf(x)
    BY <1>7
  <2>1. r.name # DotDot
    BY <1>1, <1>2, <2>0 DEF DirsSound
  <2>2. PICK y \in t.index : ~y.root /\ r = RefOf(y)
    BY <1>1, <2>0, <2>1, Referenced
  <2>3. y.id = i
    BY <1>1, <2>2, Referenced
  <2>4. Unnumbered(y) \in NamesOf(t, i) /\ Unnumbered(x) \in NamesOf(t, i)
    BY <1>1, <1>3, <2>2, <2>3, Indexed DEF NamesOf
  <2>5. Unnumbered(y) = Unnumbered(x)
    BY <1>1, <1>2, <1>7, <1>9, <2>4, HasNames
  <2>6. y = x
    BY <1>1, <2>5, Indexed
  <2>7. QED
    BY <2>0, <2>2, <2>6
<1>10. /\ Sound(u) /\ SameInodes(g, u) /\ u.xattr = g.xattr
       /\ b \notin g.item /\ Turned(g, u, g.item \cup {b})
  <2>1. \A y \in g.index : y.dir = d2 => y.index # index
    BY <1>7
  <2>2. i \in DOMAIN g.inode /\ i # Top
    BY <1>2, <1>7
  <2>3. IsDir(g, i) => \A r \in g.ref : r.ino # i
    BY <1>9
  <2>4. QED
    BY <1>5, <1>6, <1>8, <2>1, <2>2, <2>3, Gives
<1> HIDE DEF u
<1>11. b.id = i /\ ~b.root /\ b.dir = d2 /\ b.name = n2 /\ b \notin t.item
  BY DEF InodeEntry, FreeName, Entry
<1> HIDE DEF b
<1>12. /\ u.item = (t.item \ {a}) \cup {b} /\ u.xattr = t.xattr
       /\ DOMAIN u.inode = DOMAIN t.inode
       /\ \A j \in DOMAIN t.inode :
            /\ u.inode[j].kind = t.inode[j].kind /\ u.inode[j].mode = t.inode[j].mode
            /\ u.inode[j].nlink = t.inode[j].nlink
       /\ \A e \in u.index \cup t.index : e.root => e \in u.index /\ e \in t.index
  <2>1. \A e \in u.index \cup g.index : e.root => e \in u.index /\ e \in g.index
    BY <1>10 DEF Turned
  <2>2. \A e \in u.index \cup t.index : e.root => e \in u.index /\ e \in t.index
    BY <1>3, <1>7, <2>1
  <2>3. QED
    BY <1>7, <1>10, <2>2 DEF Turned, SameInodes
<1>13. u.xattr = {y \in t.xattr : y.ino \in DOMAIN u.inode}
  <2>1. \A y \in t.xattr : y.ino \in DOMAIN t.inode
    BY <1>1, UnderInodes DEF ItemsFit
  <2>2. QED
    BY <1>12, <2>1
<1>14. Turned(t, u, (t.item \ {a}) \cup {b})
  BY <1>12, <1>13 DEF Turned
<1>15. Counts(u)
  <2> SUFFICES ASSUME NEW j \in DOMAIN u.inode, j # Top
               PROVE  Cardinality(NamesOf(u, j)) = u.inode[j].nlink
    BY DEF Counts
  <2>1. Cardinality(NamesOf(t, j)) = t.inode[j].nlink /\ Cardinality(NamesOf(t, j)) \in Nat
    BY <1>1, <1>12, NamesFinite DEF Counts
  <2>2. /\ j = i => Cardinality(NamesOf(g, j)) = Cardinality(NamesOf(t, j)) - 1
        /\ j # i => NamesOf(g, j) = NamesOf(t, j)
    BY <1>1, <1>2, <1>7, CountLess
  <2>3. /\ j = i => Cardinality(NamesOf(u, j)) = Cardinality(NamesOf(g, j)) + 1
        /\ j # i => NamesOf(u, j) = NamesOf(g, j)
    <3>1. u.item = g.item \cup {b} /\ b \notin g.item
      BY <1>7, <1>10, <1>12
    <3>2. QED
      BY <1>4, <1>11, <3>1, CountMore
  <2>4. QED
    BY <1>12, <2>1, <2>2, <2>3
<1>16. ASSUME NEW j \in DOMAIN u.inode, IsDir(u, j) PROVE Below(u, j, Top)
  <2> SUFFICES ASSUME NEW S \in SUBSET Ino, j \in S, Rises(u, S) PROVE Top \in S
    BY DEF Below
  <2>1. \A v : IsDir(t, v) <=> IsDir(u, v)
    BY <1>12 DEF IsDir
  <2>2. j \in DOMAIN t.inode /\ Below(t, j, Top)
    BY <1>12, <1>16, <2>1 DEF Whole
  <2>3. \A e \in t.item : e # a /\ ~e.root /\ e.id \in S /\ IsDir(t, e.id) => e.dir \in S
    BY <1>12, <2>1 DEF Rises
  <2>4. IsDir(t, i) /\ i \in S => d2 \in S
    BY <1>11, <1>12, <2>1 DEF Rises
  <2>5. CASE ~(IsDir(t, i) /\ i \in S) \/ d = d2
    <3>1. Rises(t, S)
      BY <1>2, <2>3, <2>4, <2>5 DEF Rises
    <3>2. QED
      BY <2>2, <3>1 DEF Below
  <2>6. CASE IsDir(t, i) /\ i \in S /\ d # d2
    <3>1. PICK R \in SUBSET Ino : d2 \in R /\ Rises(t, R) /\ i \notin R
      BY <2>6 DEF Below
    <3> DEFINE T == S \cap R
    <3>2. Rises(t, T)
      <4>1. ASSUME NEW e \in t.item, ~e.root, e.id \in T, IsDir(t, e.id) PROVE e.dir \in T
        <5>1. e # a
          BY <1>2, <3>1, <4>1
        <5>2. e.dir \in S
          BY <2>3, <4>1, <5>1
        <5>3. e.dir \in R
          BY <3>1, <4>1 DEF Rises
        <5>4. QED
          BY <5>2, <5>3
      <4>2. QED
        BY <4>1 DEF Rises
    <3>3. d2 \in T /\ T \in SUBSET Ino
      BY <2>4, <2>6, <3>1
    <3>4. d2 \in DOMAIN t.inode /\ Below(t, d2, Top)
      BY DEF FreeName, Whole, IsDir
    <3>5. Top \in T
      BY <3>2, <3>3, <3>4 DEF Below
    <3>6. QED
      BY <3>5
  <2>7. QED
    BY <2>5, <2>6
<1>17. Whole(u)
  BY <1>10, <1>15, <1>16 DEF Whole
<1>18. QED
  BY <1>11, <1>12, <1>14, <1>17 DEF u, g, a, b

(* No directory is below one that it holds.                                 *)
LEMMA NoCircle ==
  ASSUME NEW t, Whole(t), NEW d, NEW n, NEW i \in InodeOf(t, d, n), IsDir(t, i)
  PROVE  ~Below(t, d, i)
<1> DEFINE b == InodeEntry(d, n, i)
           M == {v \in Ino : Below(t, v, i)}
<1>1. Sound(t) /\ OfShape(t) /\ DirsSound(t) /\ Counts(t)
  BY DEF Whole, Sound
<1>2. b \in t.item /\ b.id = i /\ ~b.root /\ b.dir = d /\ i \in DOMAIN t.inode /\ i # Top
  BY <1>1, NamedInode DEF InodeEntry
<1> HIDE DEF b
<1> SUFFICES ASSUME Below(t, d, i) PROVE FALSE
  OBVIOUS
<1>3. Rises(t, M)
  <2> SUFFICES ASSUME NEW e \in t.item, ~e.root, e.id \in M, IsDir(t, e.id) PROVE e.dir \in M
    BY DEF Rises
  <2>1. e.dir \in Ino
    BY <1>1, Fields DEF EntryRecord
  <2>2. CASE e.id = i
    <3>1. e = b
      BY <1>1, <1>2, <2>2, HasNames DEF NamesOf
    <3>2. QED
      BY <1>2, <2>1, <3>1
  <2>3. CASE e.id # i
    <3>1. ASSUME NEW S \in SUBSET Ino, e.dir \in S, Rises(t, S) PROVE i \in S
      <4> DEFINE T == S \cup {e.id}
      <4>1. Rises(t, T)
        <5> SUFFICES ASSUME NEW f \in t.item, ~f.root, f.id \in T, IsDir(t, f.id)
                     PROVE  f.dir \in T
          BY DEF Rises
        <5>1. CASE f.id = e.id
          <6>1. e.id \in DOMAIN t.inode /\ e.id # Top
            BY <1>1 DEF IsDir, DirsSound
          <6>2. f = e
            BY <5>1, <6>1, <1>1, HasNames DEF NamesOf
          <6>3. QED
            BY <3>1, <6>2
        <5>2. CASE f.id # e.id
          BY <3>1, <5>2 DEF Rises
        <5>3. QED
          BY <5>1, <5>2
      <4>2. T \in SUBSET Ino /\ e.id \in T
        OBVIOUS
      <4>3. i \in T
        BY <4>1, <4>2 DEF Below
      <4>4. QED
        BY <2>3, <4>3
    <3>2. QED
      BY <2>1, <3>1 DEF Below
  <2>4. QED
    BY <2>2, <2>3
<1>4. i \in M
  BY <1>1, <1>2, Fields DEF Below
<1>5. Top \in M
  <2>1. Below(t, i, Top)
    BY <1>2 DEF Whole
  <2>2. QED
    BY <1>3, <1>4, <2>1 DEF Below
<1>6. Rises(t, {Top})
  BY <1>1 DEF Rises, DirsSound
<1>7. QED
  BY <1>2, <1>5, <1>6, NamespaceAssumption DEF Below

(* What a rename replaces is removed.                                       *)
LEMMA Replaces ==
  ASSUME NEW t, Whole(t), NEW i, NEW d, NEW n, NEW over \in InodeOf(t, d, n),
         Replaceable(t, i, d, n, over)
  PROVE  LET u == DropLink(DropEntry(t, d, n, over), over)
         IN  /\ Whole(u)
             /\ Turned(t, u, t.item \ {InodeEntry(d, n, over)})
             /\ Leaves(t, u) /\ \A j \in DOMAIN t.inode : j # over => j \in DOMAIN u.inode
             /\ \A e \in t.item : e.dir # over
             /\ u.index \subseteq t.index
<1>1. IsDir(t, over) => Index(t, over) = {}
  BY DEF Replaceable, NonEmpty
<1>2. CanDropLink(DropEntry(t, d, n, over), over)
  BY DEF Replaceable
<1>3. QED
  BY <1>1, <1>2, Removes

(* rename: over a free name, or a file, or an empty directory.              *)
LEMMA Renames ==
  ASSUME NEW t, Whole(t), NEW d, NEW n, NEW i \in InodeOf(t, d, n),
         NEW d2, IsDir(t, d2), NEW n2 \in Name, ~BelowItself(t, i, d, d2),
         Entry(t, d2, n2) # {} =>
           \E over \in InodeOf(t, d2, n2) : Replaceable(t, i, d2, n2, over),
         CanAdd(DropEntry(Replaced(t, d2, n2), d, n, i), d2, n2, i)
  PROVE  LET u == AddEntry(DropEntry(Replaced(t, d2, n2), d, n, i), d2, n2, i,
                           NextDirIndex(t, d2))
         IN  /\ Whole(u)
             /\ Turned(t, u, ((t.item \ Entry(t, d2, n2)) \ {InodeEntry(d, n, i)})
                               \cup {InodeEntry(d2, n2, i)})
             /\ Leaves(t, u)
             /\ Entry(t, d2, n2) # {} =>
                  \E over \in DOMAIN t.inode :
                    /\ Entry(t, d2, n2) = {InodeEntry(d2, n2, over)} /\ over # i
                    /\ IsDir(t, over) = IsDir(t, i)
                    /\ \A e \in t.item : e.dir # over
             /\ IsDir(t, i) => ~Below(t, d2, i)
<1> DEFINE f == Replaced(t, d2, n2)
           index == NextDirIndex(t, d2)
           u == AddEntry(DropEntry(f, d, n, i), d2, n2, i, index)
           a == InodeEntry(d, n, i)
           b == InodeEntry(d2, n2, i)
<1>1. Sound(t) /\ OfShape(t) /\ EntriesAgree(t) /\ ItemsFit(t) /\ DirsSound(t) /\ Counts(t)
  BY DEF Whole, Sound
<1>2. /\ a \in t.item /\ IsDir(t, d) /\ i \in DOMAIN t.inode /\ i # Top
      /\ a.id = i /\ ~a.root /\ a.dir = d /\ a.name = n
  BY <1>1, NamedInode DEF InodeEntry
<1>3. IsDir(t, i) => ~Below(t, d2, i)
  <2>1. CASE d = d2
    BY <2>1, NoCircle
  <2>2. CASE d # d2
    BY <1>1, <2>2, WithinIs DEF BelowItself
  <2>3. QED
    BY <2>1, <2>2
<1>4. index \in Nat /\ \A y \in t.index : y.dir = d2 => y.index # index
  <2>1. index \in Nat /\ \A y \in t.index : y.dir = d2 => y.index < index
    BY <1>1, PastEveryIndex
  <2>2. \A y \in t.index : y.index \in Nat
    BY <1>1, Fields DEF IndexRecord
  <2>3. QED
    BY <2>1, <2>2
<1>5. /\ Whole(f) /\ Turned(t, f, t.item \ Entry(t, d2, n2))
      /\ Leaves(t, f) /\ f.index \subseteq t.index
      /\ IsDir(f, d2) /\ i \in InodeOf(f, d, n)
      /\ i \in DOMAIN f.inode
      /\ Entry(t, d2, n2) # {} =>
           \E over \in DOMAIN t.inode :
             /\ Entry(t, d2, n2) = {InodeEntry(d2, n2, over)} /\ over # i
             /\ IsDir(t, over) = IsDir(t, i)
             /\ \A e \in t.item : e.dir # over
  <2>1. CASE Entry(t, d2, n2) = {}
    <3>1. f = t
      BY <2>1 DEF Replaced
    <3>2. \A y \in t.xattr : y.ino \in DOMAIN t.inode
      BY <1>1, UnderInodes DEF ItemsFit
    <3>3. Turned(t, t, t.item)
      BY <3>2 DEF Turned
    <3>4. t.item \ Entry(t, d2, n2) = t.item
      BY <2>1
    <3>5. Leaves(t, t)
      BY DEF Leaves
    <3>6. QED
      BY <1>2, <2>1, <3>1, <3>3, <3>4, <3>5
  <2>2. CASE Entry(t, d2, n2) # {}
    <3>1. PICK over \in InodeOf(t, d2, n2) : Replaceable(t, i, d2, n2, over)
      BY <2>2
    <3> DEFINE c == InodeEntry(d2, n2, over)
    <3>2. /\ c \in t.item /\ Entry(t, d2, n2) = {c} /\ InodeOf(t, d2, n2) = {over}
          /\ c.dir = d2 /\ c.id = over /\ ~c.root
          /\ over \in DOMAIN t.inode /\ over # Top
      BY <1>1, NamedInode DEF InodeEntry
    <3>3. /\ over # i /\ IsDir(t, over) = IsDir(t, i)
          /\ IsDir(t, over) => Index(t, over) = {}
          /\ CanDropLink(DropEntry(t, d2, n2, over), over)
      BY <3>1 DEF Replaceable, NonEmpty
    <3>4. f = DropLink(DropEntry(t, d2, n2, over), over)
      <4>1. (CHOOSE j \in {over} : TRUE) = over
        OBVIOUS
      <4>2. QED
        BY <2>2, <3>2, <4>1 DEF Replaced
    <3>5. /\ Whole(f) /\ Turned(t, f, t.item \ {c})
          /\ Leaves(t, f) /\ \A j \in DOMAIN t.inode : j # over => j \in DOMAIN f.inode
          /\ \A e \in t.item : e.dir # over
          /\ f.index \subseteq t.index
      <4> DEFINE w == DropLink(DropEntry(t, d2, n2, over), over)
      <4>3. /\ Whole(w) /\ Turned(t, w, t.item \ {c})
            /\ Leaves(t, w) /\ \A j \in DOMAIN t.inode : j # over => j \in DOMAIN w.inode
            /\ \A e \in t.item : e.dir # over
            /\ w.index \subseteq t.index
        BY <3>1, Replaces
      <4>4. f = w
        BY <3>4
      <4> HIDE DEF w, f, c
      <4>5. QED
        BY <4>3, <4>4
    <3> HIDE DEF f, c
    <3>6. d2 # over /\ d2 \in DOMAIN f.inode /\ i \in DOMAIN f.inode
      BY <1>2, <3>2, <3>3, <3>5 DEF IsDir
    <3>7. IsDir(f, d2)
      BY <3>5, <3>6 DEF Turned, IsDir
    <3>8. i \in InodeOf(f, d, n)
      <4>1. a \in f.item
        BY <1>2, <3>2, <3>3, <3>5 DEF Turned
      <4>2. QED
        BY <1>2, <4>1 DEF InodeOf, Entry
    <3>9. \E o \in DOMAIN t.inode :
            /\ Entry(t, d2, n2) = {InodeEntry(d2, n2, o)} /\ o # i
            /\ IsDir(t, o) = IsDir(t, i) /\ \A e \in t.item : e.dir # o
      BY <3>2, <3>3, <3>5 DEF c
    <3>10. QED
      BY <3>2, <3>3, <3>5, <3>6, <3>7, <3>8, <3>9
  <2>3. QED
    BY <2>1, <2>2
<1>6. CanAdd(DropEntry(f, d, n, i), d2, n2, i)
  OBVIOUS
<1> HIDE DEF f, index
<1>7. FreeName(f, d2, n2)
  BY <1>5 DEF FreeName, Turned, Entry
<1>8. IsDir(f, i) /\ d # d2 => ~Below(f, d2, i)
  <2> SUFFICES ASSUME IsDir(f, i) PROVE ~Below(f, d2, i)
    OBVIOUS
  <2>1. \A j : IsDir(f, j) => IsDir(t, j)
    BY <1>5 DEF Leaves, Turned, IsDir
  <2>2. PICK S \in SUBSET Ino : d2 \in S /\ Rises(t, S) /\ i \notin S
    BY <1>3, <2>1 DEF Below
  <2>3. Rises(f, S)
    BY <1>5, <2>1, <2>2 DEF Rises, Turned
  <2>4. QED
    BY <2>2, <2>3 DEF Below
<1>9. \A y \in f.index : y.dir = d2 => y.index # index
  BY <1>4, <1>5
<1>10. /\ Whole(u) /\ Turned(f, u, (f.item \ {a}) \cup {b}) /\ DOMAIN u.inode = DOMAIN f.inode
  BY <1>4, <1>5, <1>6, <1>7, <1>8, <1>9, Moves
<1>11. b.id = i /\ ~b.root
  BY DEF InodeEntry
<1> HIDE DEF u, a, b
<1>12. Turned(t, u, ((t.item \ Entry(t, d2, n2)) \ {a}) \cup {b})
  BY <1>5, <1>10 DEF Turned
<1>13. Leaves(t, u)
  <2>1. i \in DOMAIN u.inode
    BY <1>5, <1>10
  <2>2. QED
    BY <1>5, <1>10, <1>11, <2>1 DEF Leaves, Turned
<1>14. QED
  BY <1>3, <1>5, <1>10, <1>12, <1>13 DEF u, f, index, a, b

-----------------------------------------------------------------------------
(* A tree whose names of inodes are as they were is as whole.               *)
LEMMA SameNames ==
  ASSUME NEW t, Whole(t), NEW u, Sound(u), DOMAIN u.inode = DOMAIN t.inode,
         \A i \in DOMAIN t.inode :
           u.inode[i].kind = t.inode[i].kind /\ u.inode[i].nlink = t.inode[i].nlink,
         {e \in u.item : ~e.root} = {e \in t.item : ~e.root}
  PROVE  Whole(u)
<1>1. \A j : NamesOf(u, j) = NamesOf(t, j)
  BY DEF NamesOf
<1>2. Counts(u)
  BY <1>1 DEF Whole, Counts
<1>3. \A j : IsDir(u, j) <=> IsDir(t, j)
  BY DEF IsDir
<1>4. \A S : Rises(u, S) => Rises(t, S)
  BY <1>3 DEF Rises
<1>5. \A j \in DOMAIN u.inode : IsDir(u, j) => Below(u, j, Top)
  BY <1>3, <1>4 DEF Below, Whole
<1>6. QED
  BY <1>2, <1>5 DEF Whole

(* setxattr and removexattr: other attributes, of inodes there are.         *)
LEMMA Attributes ==
  ASSUME NEW t, Whole(t), NEW X,
         X \subseteq [ino : DOMAIN t.inode, name : Name, value : Value]
  PROVE  LET u == [t EXCEPT !.xattr = X]
         IN  Whole(u) /\ u.item = t.item /\ u.inode = t.inode /\ u.index = t.index
             /\ u.xattr = X
<1> DEFINE u == [t EXCEPT !.xattr = X]
<1>1. Sound(t) /\ OfShape(t) /\ EntriesAgree(t) /\ ItemsFit(t) /\ DirsSound(t)
  BY DEF Whole, Sound
<1>2. t \in [inode : {t.inode}, ref : {t.ref}, ext : {t.ext}, item : {t.item},
             index : {t.index}, xattr : {t.xattr}]
  BY <1>1, Fields
<1>3. /\ u \in [inode : {t.inode}, ref : {t.ref}, ext : {t.ext}, item : {t.item},
                index : {t.index}, xattr : {X}]
      /\ u.inode = t.inode /\ u.ref = t.ref /\ u.ext = t.ext /\ u.item = t.item
      /\ u.index = t.index /\ u.xattr = X
  BY <1>2
<1> HIDE DEF u
<1>4. OfShape(u)
  <2>1. X \subseteq [ino : Ino, name : Name, value : Value]
    BY <1>1, Fields
  <2>2. QED
    BY <1>1, <1>3, <2>1, Fields DEF OfShape
<1>5. EntriesAgree(u)
  BY <1>1, <1>3 DEF EntriesAgree
<1>6. ItemsFit(u)
  <2>1. /\ \A r \in t.ref \cup t.ext : r.ino \in DOMAIN t.inode
        /\ \A e \in t.item \cup t.index : e.dir \in DOMAIN t.inode
    BY <1>1, UnderInodes DEF ItemsFit
  <2>2. Objectids(u) = DOMAIN u.inode
    BY <1>3, <2>1, InodesOnly
  <2>3. QED
    BY <1>1, <1>3, <2>2 DEF ItemsFit, RefsIn, ExtsIn, ByHash
<1>7. DirsSound(u)
  BY <1>1, <1>3 DEF DirsSound, IsDir
<1>8. Whole(u)
  BY <1>3, <1>4, <1>5, <1>6, <1>7, SameNames DEF Sound
<1>9. QED
  BY <1>3, <1>8 DEF u

(* chmod: another mode.                                                     *)
LEMMA Modes ==
  ASSUME NEW t, Whole(t), NEW i \in DOMAIN t.inode, NEW m \in Mode
  PROVE  LET u == PutInode(t, i, [t.inode[i] EXCEPT !.mode = m])
         IN  /\ Whole(u) /\ u.item = t.item /\ u.index = t.index /\ u.xattr = t.xattr
             /\ DOMAIN u.inode = DOMAIN t.inode
             /\ u.inode[i].kind = t.inode[i].kind /\ u.inode[i].mode = m
             /\ \A j \in DOMAIN t.inode : j # i => u.inode[j] = t.inode[j]
<1> DEFINE x == [t.inode[i] EXCEPT !.mode = m]
           u == PutInode(t, i, x)
<1>1. Sound(t) /\ OfShape(t)
  BY DEF Whole, Sound
<1>2. t.inode[i] \in Inode /\ i \in Ino
  BY <1>1, Fields
<1>3. x \in Inode /\ x.kind = t.inode[i].kind /\ x.nlink = t.inode[i].nlink /\ x.mode = m
  BY <1>2, ModeOf
<1> HIDE DEF x
<1>4. /\ DOMAIN u.inode = DOMAIN t.inode \cup {i} /\ u.inode[i] = x
      /\ \A j \in DOMAIN t.inode : j # i => u.inode[j] = t.inode[j]
      /\ u.item = t.item /\ u.index = t.index /\ u.xattr = t.xattr
  BY <1>1, <1>2, <1>3, Putting
<1>5. Sound(u)
  <2>1. x.kind = "dir" => x.nlink = 1
    BY <1>1, <1>3 DEF Sound, DirsSound, IsDir
  <2>2. QED
    BY <1>1, <1>2, <1>3, <2>1, PutSound
<1> HIDE DEF u
<1>6. Whole(u)
  BY <1>3, <1>4, <1>5, SameNames
<1>7. QED
  BY <1>3, <1>4, <1>6 DEF u, x

(* A subvolume filed under a free name.                                     *)
LEMMA Mounts ==
  ASSUME NEW t, Whole(t), NEW d, NEW n \in Name, FreeName(t, d, n), NEW id \in Subvol,
         Cardinality(ByHash(t, d, n)) < ItemRoom
  PROVE  LET index == NextDirIndex(t, d)
             u == FileEntry(t, d, n, id, TRUE, index)
             e == NewEntry(d, n, id, TRUE, index)
         IN  /\ Whole(u) /\ Mounted(t, u, e) /\ e.root /\ Unnumbered(e) \notin t.item
             /\ Unnumbered(e) = [dir |-> d, name |-> n, id |-> id, root |-> TRUE]
             /\ d \in Ino /\ index \in Nat
<1> DEFINE yes == TRUE
           index == NextDirIndex(t, d)
           e == NewEntry(d, n, id, yes, index)
           u == FileEntry(t, d, n, id, yes, index)
<1>1. Sound(t) /\ OfShape(t)
  BY DEF Whole, Sound
<1>2. yes \in BOOLEAN
  OBVIOUS
<1>3. /\ Fresh(t, e) /\ e.dir = d /\ e.name = n /\ e.id = id /\ e.root = yes
      /\ e.index = index /\ \A x \in t.index : x.dir = d => x.index # index
  BY <1>1, NextIsFresh
<1>4. d \in DOMAIN t.inode /\ d \in Ino /\ index \in Nat
  BY <1>1, Fields, PastEveryIndex DEF FreeName, IsDir
<1> HIDE DEF yes, index
<1>5. /\ OfShape(u) /\ SameInodes(t, u)
      /\ u.item = t.item \cup {Unnumbered(e)} /\ u.index = t.index \cup {e}
      /\ u.ref = t.ref /\ u.ext = t.ext /\ u.xattr = t.xattr
  BY <1>1, <1>2, <1>3, <1>4, Filing
<1> HIDE DEF u, e
<1>6. Mounted(t, u, e)
  BY <1>5 DEF Mounted
<1>7. e.root
  BY <1>3 DEF yes
<1>8. Sound(u)
  BY <1>1, <1>3, <1>5, <1>6, <1>7, MountedSound
<1>9. Unnumbered(e).root /\ Unnumbered(e) \notin t.item
      /\ Unnumbered(e) = [dir |-> d, name |-> n, id |-> id, root |-> yes]
  BY <1>2, <1>3, <1>7, NotYet
<1>10. Whole(u)
  BY <1>5, <1>8, <1>9, SameNames DEF SameInodes
<1>11. QED
  BY <1>4, <1>6, <1>7, <1>9, <1>10 DEF u, e, yes, index

(* A subvolume's name, unfiled.                                             *)
LEMMA Unmounts ==
  ASSUME NEW t, Whole(t), NEW x \in t.index, x.root
  PROVE  LET u == UnfileEntry(t, x.dir, x.name, x.index)
         IN  Whole(u) /\ Unmounted(t, u, x)
<1> DEFINE u == UnfileEntry(t, x.dir, x.name, x.index)
<1>1. Sound(t) /\ OfShape(t) /\ EntriesAgree(t) /\ DirsSound(t)
  BY DEF Whole, Sound
<1>2. x.dir \in DOMAIN t.inode /\ x.name \in Name
  <2>1. Unnumbered(x) \in t.item /\ Unnumbered(x).dir = x.dir
    BY <1>1, Indexed
  <2>2. QED
    BY <1>1, <2>1, Fields DEF DirsSound, IsDir, IndexRecord
<1>3. /\ OfShape(u) /\ SameInodes(t, u)
      /\ u.item = t.item \ {Unnumbered(x)} /\ u.index = t.index \ {x}
      /\ u.ref = t.ref /\ u.ext = t.ext /\ u.xattr = t.xattr
  BY <1>1, <1>2, OneEntry, Unfiling
<1> HIDE DEF u
<1>4. Unmounted(t, u, x)
  BY <1>3 DEF Unmounted
<1>5. Sound(u)
  BY <1>1, <1>3, <1>4, UnmountedSound
<1>6. Unnumbered(x).root
  BY <1>1, Indexed
<1>7. Whole(u)
  BY <1>3, <1>5, <1>6, SameNames DEF SameInodes
<1>8. QED
  BY <1>4, <1>7 DEF u
-----------------------------------------------------------------------------
(* Inode numbers and inodes that calls make.                                *)
LEMMA NextIsNew ==
  ASSUME NEW t, Whole(t)
  PROVE  NextObjectid(t) \notin DOMAIN t.inode
<1>1. OfShape(t) /\ Objectids(t) = DOMAIN t.inode /\ Top \in DOMAIN t.inode
  BY DEF Whole, Sound, ItemsFit, DirsSound, IsDir
<1> DEFINE T == DOMAIN t.inode
<1>2. T \in SUBSET Nat /\ T # {} /\ IsFiniteSet(T)
  BY <1>1, Fields, FS_Subset, NamespaceAssumption
<1> HIDE DEF T
<1>3. Max(T) \in T /\ \A j \in T : j <= Max(T)
  BY <1>2, Greatest
<1>4. NextObjectid(t) = Max(T) + 1
  BY <1>1 DEF NextObjectid, T
<1>5. \A m \in T : (\A j \in T : j <= m) => m + 1 \notin T
  BY <1>2
<1>6. NextObjectid(t) \notin T
  BY <1>3, <1>4, <1>5
<1>7. QED
  BY <1>6 DEF T

(* An inode as it is made has one link.                                      *)
LEMMA NewInodeIs ==
  ASSUME NEW k \in {"file", "dir", "symlink"}, NEW m \in Mode, NEW gen \in Nat
  PROVE  /\ NewInode(k, m, gen) \in Inode /\ NewInode(k, m, gen).nlink = 1
         /\ NewInode(k, m, gen).kind = k /\ NewInode(k, m, gen).mode = m
<1>1. 1 \in 1 .. MaxLinks
  BY NamespaceAssumption
<1>2. QED
  BY <1>1 DEF NewInode, Inode

(* A new subvolume's tree.                                                  *)
LEMMA TopOnlyIs ==
  ASSUME NEW m \in Mode, NEW gen \in Nat
  PROVE  LET u == TopOnly(m, gen)
         IN  /\ Whole(u) /\ DOMAIN u.inode = {Top} /\ u.inode[Top] = NewInode("dir", m, gen)
             /\ u.item = {} /\ u.index = {} /\ u.xattr = {}
<1> DEFINE x == NewInode("dir", m, gen)
           f == [i \in {Top} |-> x]
           r == [ino |-> Top, dir |-> Top, index |-> 0, name |-> DotDot]
           u == TopOnly(m, gen)
<1>1. x \in Inode /\ x.nlink = 1 /\ x.kind = "dir"
  BY NewInodeIs
<1>2. r \in RefRecord /\ r.ino = Top /\ r.dir = Top /\ r.name = DotDot
  BY NamespaceAssumption DEF RefRecord
<1> HIDE DEF x, r
<1>3. f \in [{Top} -> Inode] /\ DOMAIN f = {Top} /\ f[Top] = x
  BY <1>1
<1> HIDE DEF f
<1>4. NoItems \in [inode : {NoItems.inode}, ref : {{}}, ext : {{}}, item : {{}}, index : {{}},
                   xattr : {{}}]
  BY DEF NoItems
<1>5. u = [NoItems EXCEPT !.inode = f, !.ref = {r}]
  BY DEF TopOnly, f, r, x
<1>6. /\ u \in [inode : {f}, ref : {{r}}, ext : {{}}, item : {{}}, index : {{}}, xattr : {{}}]
      /\ u.inode = f /\ u.ref = {r} /\ u.ext = {} /\ u.item = {} /\ u.index = {}
      /\ u.xattr = {}
  BY <1>4, <1>5
<1> HIDE DEF u
<1>7. OfShape(u)
  <2>1. IsFiniteSet({r}) /\ IsFiniteSet({})
    BY FS_Singleton, FS_EmptySet
  <2>2. u \in [inode : {f}, ref : SUBSET RefRecord, ext : SUBSET RefRecord,
               item : SUBSET EntryRecord, index : SUBSET IndexRecord,
               xattr : SUBSET [ino : Ino, name : Name, value : Value]]
    BY <1>2, <1>6
  <2>3. QED
    BY <1>3, <1>6, <2>1, <2>2, NamespaceAssumption DEF OfShape
<1>8. EntriesAgree(u)
  BY <1>2, <1>6 DEF EntriesAgree
<1>9. ItemsFit(u)
  <2>1. Objectids(u) = DOMAIN u.inode
    BY <1>2, <1>3, <1>6 DEF Objectids
  <2>2. RefsIn(u, r.ino, r.dir) = {r}
    BY <1>6 DEF RefsIn
  <2>3. Cardinality({r}) = 1 /\ 1 <= RefRoom
    BY FS_Singleton, NamespaceAssumption
  <2>4. QED
    BY <1>6, <2>1, <2>2, <2>3 DEF ItemsFit
<1>10. DirsSound(u)
  BY <1>1, <1>2, <1>3, <1>6 DEF DirsSound, IsDir
<1>11. Counts(u) /\ \A i \in DOMAIN u.inode : Below(u, i, Top)
  BY <1>3, <1>6 DEF Counts, Below
<1>12. QED
  BY <1>3, <1>6, <1>7, <1>8, <1>9, <1>10, <1>11 DEF Whole, Sound, u, x

(* A tree with no items is of the shape of one.                              *)
LEMMA NoItemsIs == OfShape(NoItems)
<1> DEFINE f == [i \in {} |-> 0]
<1>1. f \in [DOMAIN f -> Inode] /\ DOMAIN f = {}
  OBVIOUS
<1> HIDE DEF f
<1>2. NoItems = [inode |-> f, ref |-> {}, ext |-> {}, item |-> {}, index |-> {}, xattr |-> {}]
  BY DEF NoItems, f
<1>3. QED
  BY <1>1, <1>2, FS_EmptySet DEF OfShape
-----------------------------------------------------------------------------
\* The inductive invariant.
NamesInv == NamesExact /\ generation \in Nat /\ load \in Starts

\* A call that rewrites a live tree and leaves the subvolumes as they are.
Writes(t, u) ==
  /\ t \in Live /\ Writable(t) /\ Whole(u)
  /\ \A e \in u.index \cup tree[t].index : e.root => e \in u.index /\ e \in tree[t].index
  /\ tree' = [tree EXCEPT ![t] = u] /\ UNCHANGED rootVars
  /\ generation' = generation + 1 /\ UNCHANGED load

(* What the invariant says of a live tree, and of the roots.                *)
LEMMA LiveIs ==
  ASSUME NamesExact
  PROVE  /\ DOMAIN tree = Subvol /\ DOMAIN root = Subvol /\ Live \subseteq Subvol
         /\ FsTree \in Live /\ FsTree \in Subvol
         /\ \A t \in Subvol : OfShape(tree[t])
         /\ \A t \in Live : Whole(tree[t])
<1>1. \A t \in Live : OfShape(tree[t]) /\ TreeExact(tree[t])
  BY DEF NamesExact, Exact, Live, LiveIn
<1>2. \A t \in Live : Whole(tree[t])
  BY <1>1, ExactIsWhole
<1>3. DOMAIN tree = Subvol /\ DOMAIN root = Subvol /\ \A t \in Subvol : OfShape(tree[t])
  BY DEF NamesExact, Exact
<1>4. Live \subseteq Subvol /\ FsTree \in Live
  BY DEF NamesExact, Exact, RootsAgree, Live, LiveIn
<1>5. QED
  BY <1>2, <1>3, <1>4

(* What the calls of a run are asked to make.                                *)
LEMMA KindsToMake ==
  ASSUME NamesInv PROVE load.kinds \subseteq {"file", "dir", "symlink"}
BY StartsAreExact DEF NamesInv

(* A call that leaves its tree whole writes it.                              *)
LEMMA Writing ==
  ASSUME NEW op, NEW t, NEW u, WritingSubvolume(op, t, u), Whole(u),
         NEW items, Turned(tree[t], u, items)
  PROVE  Writes(t, u)
BY DEF WritingSubvolume, Commits, Writes, Turned, Writable

\* An inode more, and its one name.
Creation(t, u, d, n, i, k, m) ==
  /\ FreeName(t, d, n) /\ i \notin DOMAIN t.inode
  /\ Turned(t, u, t.item \cup {InodeEntry(d, n, i)})
  /\ DOMAIN u.inode = DOMAIN t.inode \cup {i}
  /\ u.inode[i].kind = k /\ u.inode[i].mode = m
  /\ \A y \in u.xattr : y.ino # i

(* namespace.rs, create and mkdir: a new inode, named, and the tree whole.  *)
LEMMA CreateMakes ==
  ASSUME NamesInv, NEW t \in Live, NEW d, NEW n \in Name, NEW k \in load.kinds, NEW m \in Mode,
         Create(t, d, n, k, m)
  PROVE  \E u : \E i \in Ino : Writes(t, u) /\ Creation(tree[t], u, d, n, i, k, m)
<1> DEFINE now == tree[t]
           i == NextObjectid(now)
           x == NewInode(k, m, generation + 1)
           made == PutInode(now, i, x)
           u == AddEntry(made, d, n, i, NextDirIndex(made, d))
<1>1. Whole(now)
  BY LiveIs DEF NamesInv
<1>2. /\ FreeName(now, d, n) /\ i \in Ino /\ CanAdd(made, d, n, i)
      /\ WritingSubvolume("create", t, u)
  BY DEF Create
<1>3. x \in Inode /\ x.nlink = 1 /\ x.kind = k /\ x.mode = m
  <2>1. k \in {"file", "dir", "symlink"} /\ generation + 1 \in Nat
    BY KindsToMake DEF NamesInv
  <2>2. QED
    BY <2>1, NewInodeIs
<1>4. i \notin DOMAIN now.inode
  BY <1>1, NextIsNew
<1> HIDE DEF i, x, now
<1>5. /\ Whole(u) /\ Turned(now, u, now.item \cup {InodeEntry(d, n, i)})
      /\ DOMAIN u.inode = DOMAIN now.inode \cup {i}
      /\ u.inode[i].kind = x.kind /\ u.inode[i].mode = x.mode
      /\ \A y \in u.xattr : y.ino # i
  BY <1>1, <1>2, <1>3, <1>4, Creates
<1> HIDE DEF u, made
<1>6. Writes(t, u)
  BY <1>2, <1>5, Writing DEF now
<1>7. Creation(now, u, d, n, i, k, m)
  BY <1>2, <1>3, <1>4, <1>5 DEF Creation
<1>8. QED
  BY <1>2, <1>6, <1>7 DEF now

(* namespace.rs, link: one name more, of an inode that is no
   directory.                                                                *)
LEMMA LinkMakes ==
  ASSUME NamesInv, NEW t \in Live, NEW d, NEW n \in Name, NEW i, Link(t, i, d, n)
  PROVE  \E u :
           /\ Writes(t, u) /\ FreeName(tree[t], d, n)
           /\ i \in DOMAIN tree[t].inode /\ ~IsDir(tree[t], i)
           /\ Turned(tree[t], u, tree[t].item \cup {InodeEntry(d, n, i)})
           /\ DOMAIN u.inode = DOMAIN tree[t].inode
<1> DEFINE now == tree[t]
           u == AddEntry(Linked(now, i, 1), d, n, i, NextDirIndex(now, d))
<1>1. Whole(now)
  BY LiveIs DEF NamesInv
<1>2. /\ FreeName(now, d, n) /\ Linkable(now, i) /\ CanAdd(now, d, n, i)
      /\ WritingSubvolume("link", t, u)
  BY DEF Link
<1> HIDE DEF now
<1>3. /\ Whole(u) /\ Turned(now, u, now.item \cup {InodeEntry(d, n, i)})
      /\ DOMAIN u.inode = DOMAIN now.inode
  BY <1>1, <1>2, Links1
<1> HIDE DEF u
<1>4. Writes(t, u)
  BY <1>2, <1>3, Writing DEF now
<1>5. QED
  BY <1>2, <1>3, <1>4 DEF now, Linkable

(* namespace.rs, unlink and rmdir: one name less, and the inode with its
   last; no entry is left in a directory that goes.                          *)
LEMMA RemoveMakes ==
  ASSUME NamesInv, NEW t \in Live, NEW d, NEW n, NEW wantDir \in BOOLEAN,
         RemoveName(t, d, n, wantDir)
  PROVE  \E u, i :
           /\ Writes(t, u) /\ i \in InodeOf(tree[t], d, n)
           /\ Turned(tree[t], u, tree[t].item \ {InodeEntry(d, n, i)})
           /\ Leaves(tree[t], u)
           /\ \A e \in tree[t].item : e.dir # i
<1> DEFINE now == tree[t]
<1>1. Whole(now)
  BY LiveIs DEF NamesInv
<1>2. PICK i \in InodeOf(now, d, n) :
        /\ IsDir(now, i) = wantDir /\ (wantDir => ~NonEmpty(now, i))
        /\ CanDropLink(DropEntry(now, d, n, i), i)
        /\ WritingSubvolume("remove", t, DropLink(DropEntry(now, d, n, i), i))
  BY DEF RemoveName
<1> DEFINE u == DropLink(DropEntry(now, d, n, i), i)
<1>3. IsDir(now, i) => Index(now, i) = {}
  BY <1>2 DEF NonEmpty
<1> HIDE DEF now
<1>4. /\ Whole(u) /\ Turned(now, u, now.item \ {InodeEntry(d, n, i)})
      /\ Leaves(now, u) /\ \A e \in now.item : e.dir # i
  BY <1>1, <1>2, <1>3, Removes
<1> HIDE DEF u
<1>5. WritingSubvolume("remove", t, u)
  BY <1>2 DEF u
<1>6. Writes(t, u)
  BY <1>4, <1>5, Writing DEF now
<1>7. QED
  BY <1>2, <1>4, <1>6 DEF now

\* One name is another's, whatever that was of.
Renaming(t, u, d, n, i, d2, n2) ==
  /\ i \in InodeOf(t, d, n) /\ IsDir(t, d2)
  /\ Turned(t, u, ((t.item \ Entry(t, d2, n2)) \ {InodeEntry(d, n, i)})
                    \cup {InodeEntry(d2, n2, i)})
  /\ Leaves(t, u)
  /\ Entry(t, d2, n2) # {} =>
       \E over \in DOMAIN t.inode :
         /\ Entry(t, d2, n2) = {InodeEntry(d2, n2, over)} /\ over # i
         /\ IsDir(t, over) = IsDir(t, i)
         /\ \A e \in t.item : e.dir # over
  /\ IsDir(t, i) => ~Below(t, d2, i)

(* namespace.rs, rename: the name moves, what it replaces goes, and no
   directory comes to lie below itself.                                      *)
LEMMA RenameMakes ==
  ASSUME NamesInv, NEW t \in Live, NEW d, NEW n, NEW d2, NEW n2 \in Name,
         Rename(t, d, n, d2, n2)
  PROVE  \E u, i : Writes(t, u) /\ Renaming(tree[t], u, d, n, i, d2, n2)
<1> DEFINE now == tree[t]
           U(i) == AddEntry(DropEntry(Replaced(now, d2, n2), d, n, i), d2, n2, i,
                            NextDirIndex(now, d2))
<1>1. Whole(now)
  BY LiveIs DEF NamesInv
<1>0. IsDir(now, d2)
  BY DEF Rename
<1>2. PICK i \in InodeOf(now, d, n) :
        /\ ~BelowItself(now, i, d, d2)
        /\ Entry(now, d2, n2) # {} =>
             \E over \in InodeOf(now, d2, n2) : Replaceable(now, i, d2, n2, over)
        /\ CanAdd(DropEntry(Replaced(now, d2, n2), d, n, i), d2, n2, i)
        /\ WritingSubvolume("rename", t, U(i))
  BY DEF Rename
<1> DEFINE u == U(i)
<1> HIDE DEF now
<1>3. /\ Whole(u)
      /\ Turned(now, u, ((now.item \ Entry(now, d2, n2)) \ {InodeEntry(d, n, i)})
                          \cup {InodeEntry(d2, n2, i)})
      /\ Leaves(now, u)
      /\ Entry(now, d2, n2) # {} =>
           \E over \in DOMAIN now.inode :
             /\ Entry(now, d2, n2) = {InodeEntry(d2, n2, over)} /\ over # i
             /\ IsDir(now, over) = IsDir(now, i)
             /\ \A e \in now.item : e.dir # over
      /\ IsDir(now, i) => ~Below(now, d2, i)
  BY <1>0, <1>1, <1>2, Renames
<1>4. WritingSubvolume("rename", t, u)
  BY <1>2
<1> HIDE DEF u
<1>5. Writes(t, u)
  BY <1>3, <1>4, Writing DEF now
<1>6. Renaming(now, u, d, n, i, d2, n2)
  BY <1>0, <1>2, <1>3 DEF Renaming
<1>7. QED
  BY <1>5, <1>6 DEF now
\* An inode's extended attributes.
XattrsOf(t, i) == {x \in t.xattr : x.ino = i}

\* A tree of which inode i has other attributes.
Altered(t, u, i) ==
  /\ u.item = t.item /\ DOMAIN u.inode = DOMAIN t.inode
  /\ \A j \in DOMAIN t.inode :
       /\ u.inode[j].kind = t.inode[j].kind
       /\ j # i => u.inode[j].mode = t.inode[j].mode /\ XattrsOf(u, j) = XattrsOf(t, j)

(* attrs.rs and xattr.rs: one inode's mode or attributes change.             *)
LEMMA AttributesMake ==
  ASSUME NamesInv, OnAttributes
  PROVE  \E u : \E i \in DOMAIN tree[FsTree].inode :
           Writes(FsTree, u) /\ Altered(tree[FsTree], u, i)
<1> DEFINE t == tree[FsTree]
<1>1. Whole(t) /\ FsTree \in Live
  BY LiveIs DEF NamesInv
<1>2. t.xattr \subseteq [ino : DOMAIN t.inode, name : Name, value : Value]
  <2>1. t.xattr \subseteq [ino : Ino, name : Name, value : Value]
    BY <1>1, Fields DEF Whole, Sound
  <2>2. \A x \in t.xattr : x.ino \in DOMAIN t.inode
    BY <1>1, UnderInodes DEF Whole, Sound, ItemsFit
  <2>3. QED
    BY <2>1, <2>2
<1>3. ASSUME NEW X, X \subseteq [ino : DOMAIN t.inode, name : Name, value : Value],
             NEW i \in DOMAIN t.inode, \A x \in X \cup t.xattr : x.ino # i => x \in X /\ x \in t.xattr,
             WritingSubvolume("xattr", FsTree, [t EXCEPT !.xattr = X])
      PROVE  \E u : Writes(FsTree, u) /\ Altered(t, u, i)
  <2> DEFINE u == [t EXCEPT !.xattr = X]
  <2> HIDE DEF t
  <2>1. /\ Whole(u) /\ u.item = t.item /\ u.inode = t.inode /\ u.index = t.index
        /\ u.xattr = X
    BY <1>1, <1>3, Attributes
  <2>2. WritingSubvolume("xattr", FsTree, u)
    BY <1>3
  <2> HIDE DEF u
  <2>3. Writes(FsTree, u)
    BY <2>1, <2>2 DEF WritingSubvolume, Commits, Writes, Writable, t
  <2>4. Altered(t, u, i)
    BY <1>3, <2>1 DEF Altered, XattrsOf
  <2>5. QED
    BY <2>3, <2>4
<1>4. PICK i \in DOMAIN t.inode :
        \/ \E n \in Name, v \in Value : SetXattr(i, n, v)
        \/ \E n \in Name : RemoveXattr(i, n)
        \/ \E m \in Mode : ChangeInode(i, m)
  BY DEF OnAttributes
<1>5. CASE \E n \in Name, v \in Value : SetXattr(i, n, v)
  <2>1. PICK n \in Name, v \in Value : SetXattr(i, n, v)
    BY <1>5
  <2> DEFINE y == [ino |-> i, name |-> n, value |-> v]
             X == (t.xattr \ Named(t, i, n)) \cup {y}
  <2>2. WritingSubvolume("xattr", FsTree, [t EXCEPT !.xattr = X])
    BY <2>1 DEF SetXattr
  <2>3. y \in [ino : DOMAIN t.inode, name : Name, value : Value] /\ y.ino = i
    OBVIOUS
  <2> HIDE DEF t, y
  <2>4. /\ X \subseteq [ino : DOMAIN t.inode, name : Name, value : Value]
        /\ \A x \in X \cup t.xattr : x.ino # i => x \in X /\ x \in t.xattr
    BY <1>2, <2>3 DEF Named
  <2> HIDE DEF X
  <2>5. QED
    BY <1>3, <2>2, <2>4 DEF t
<1>6. CASE \E n \in Name : RemoveXattr(i, n)
  <2>1. PICK n \in Name : RemoveXattr(i, n)
    BY <1>6
  <2> DEFINE X == t.xattr \ Named(t, i, n)
  <2>2. WritingSubvolume("xattr", FsTree, [t EXCEPT !.xattr = X])
    BY <2>1 DEF RemoveXattr
  <2> HIDE DEF t
  <2>3. /\ X \subseteq [ino : DOMAIN t.inode, name : Name, value : Value]
        /\ \A x \in X \cup t.xattr : x.ino # i => x \in X /\ x \in t.xattr
    BY <1>2 DEF Named
  <2> HIDE DEF X
  <2>4. QED
    BY <1>3, <2>2, <2>3 DEF t
<1>7. CASE \E m \in Mode : ChangeInode(i, m)
  <2>1. PICK m \in Mode : ChangeInode(i, m)
    BY <1>7
  <2> DEFINE u == PutInode(t, i, [t.inode[i] EXCEPT !.mode = m])
  <2>2. WritingSubvolume("mode", FsTree, u)
    BY <2>1 DEF ChangeInode
  <2> HIDE DEF t
  <2>3. /\ Whole(u) /\ u.item = t.item /\ u.index = t.index /\ u.xattr = t.xattr
        /\ DOMAIN u.inode = DOMAIN t.inode
        /\ u.inode[i].kind = t.inode[i].kind /\ u.inode[i].mode = m
        /\ \A j \in DOMAIN t.inode : j # i => u.inode[j] = t.inode[j]
    BY <1>1, Modes
  <2> HIDE DEF u
  <2>4. Writes(FsTree, u)
    BY <2>2, <2>3 DEF WritingSubvolume, Commits, Writes, Writable, t
  <2>5. Altered(t, u, i)
    BY <2>3 DEF Altered, XattrsOf
  <2>6. QED
    BY <2>4, <2>5 DEF t
<1>8. QED
  BY <1>4, <1>5, <1>6, <1>7

(* A rewritten tree leaves every item telling of the others.                *)
LEMMA WritesExact ==
  ASSUME NamesInv, NEW t, NEW u, Writes(t, u)
  PROVE  NamesInv'
<1>1. /\ t \in Live /\ t \in Subvol /\ Whole(u) /\ OfShape(u) /\ TreeExact(u)
      /\ tree' = [tree EXCEPT ![t] = u] /\ DOMAIN tree = Subvol
      /\ root' = root /\ rootRef' = rootRef /\ uuids' = uuids /\ orphans' = orphans
      /\ default' = default /\ generation' \in Nat /\ load' \in Starts
  BY LiveIs, ExactIsWhole DEF NamesInv, Writes, rootVars
<1>2. /\ tree' \in [Subvol -> {tree'[s] : s \in Subvol}] /\ tree'[t] = u
      /\ \A s \in Subvol : s # t => tree'[s] = tree[s]
  BY <1>1
<1>3. Exact(tree, root, rootRef, uuids, orphans, default)
  BY DEF NamesInv, NamesExact
<1>4. \A s \in Subvol : OfShape(tree'[s])
  BY <1>1, <1>2, <1>3 DEF Exact
<1>5. \A s \in LiveIn(root) : TreeExact(tree'[s])
  BY <1>1, <1>2, <1>3 DEF Exact, LiveIn
<1>6. RootsAgree(tree', root, rootRef, uuids, orphans, default)
  <2>1. RootsAgree(tree, root, rootRef, uuids, orphans, default)
    BY <1>3 DEF Exact
  <2>2. ASSUME NEW r \in rootRef
        PROVE  r.parent \in LiveIn(root) /\ EntryOf(r) \in tree'[r.parent].index
    <3>1. r.parent \in LiveIn(root) /\ EntryOf(r) \in tree[r.parent].index /\ EntryOf(r).root
      BY <2>1 DEF RootsAgree, EntryOf
    <3>2. r.parent \in Subvol
      BY <3>1 DEF LiveIn
    <3>3. QED
      BY <1>1, <1>2, <3>1, <3>2 DEF Writes
  <2>3. ASSUME NEW e \in tree'[FsTree].index, e.root
        PROVE  \E r \in rootRef : r.parent = FsTree /\ EntryOf(r) = e
    <3>1. e \in tree[FsTree].index
      BY <1>1, <1>2, <2>3, NamespaceAssumption DEF Writes
    <3>2. QED
      BY <2>1, <2>3, <3>1 DEF RootsAgree
  <2>4. QED
    BY <2>1, <2>2, <2>3 DEF RootsAgree
<1>7. Exact(tree', root, rootRef, uuids, orphans, default)
  BY <1>2, <1>3, <1>4, <1>5, <1>6 DEF Exact
<1>8. QED
  BY <1>1, <1>7 DEF NamesInv, NamesExact
-----------------------------------------------------------------------------
\* The subvolume id gets, under a name of the top level, the tree items.
Adds(d, n, id, items, u) ==
  LET now == tree[FsTree]
      e == NewEntry(d, n, id, TRUE, NextDirIndex(now, d))
  IN  /\ id \in Subvol /\ id \notin Live /\ id # FsTree /\ FreeName(now, d, n)
      /\ Whole(items) /\ Whole(u) /\ Mounted(now, u, e)
      /\ Unnumbered(e) = [dir |-> d, name |-> n, id |-> id, root |-> TRUE]
      /\ tree' = [tree EXCEPT ![FsTree] = u, ![id] = items]
      /\ Live' = Live \cup {id}

(* The next id is of no subvolume that is there.                            *)
LEMMA NextSubvolumeIsNew ==
  ASSUME NamesInv
  PROVE  /\ NextSubvolumeId \notin Live /\ NextSubvolumeId # FsTree
         /\ \A t \in Subvol : root[t].there => t # NextSubvolumeId
         /\ \A r \in rootRef : r.id # NextSubvolumeId
<1> DEFINE T == {t \in Subvol : root[t].there} \cup {r.id : r \in rootRef}
<1>1. /\ FsTree \in Live /\ Live \subseteq {t \in Subvol : root[t].there}
      /\ \A r \in rootRef : r.id \in Live
  BY DEF NamesInv, NamesExact, Exact, RootsAgree, Live, LiveIn
<1>2. T \in SUBSET Nat /\ T # {} /\ IsFiniteSet(T) /\ Live \subseteq T
  <2>1. T \subseteq Subvol /\ T # {} /\ Live \subseteq T
    BY <1>1
  <2> HIDE DEF T
  <2>2. QED
    BY <2>1, FS_Subset, NamespaceAssumption
<1>3. NextSubvolumeId = Max(T) + 1
  BY DEF NextSubvolumeId
<1> HIDE DEF T
<1>4. Max(T) \in T /\ \A j \in T : j <= Max(T)
  BY <1>2, Greatest
<1>5. \A m \in T : (\A j \in T : j <= m) => m + 1 \notin T
  BY <1>2
<1>6. NextSubvolumeId \notin T
  BY <1>3, <1>4, <1>5
<1>7. QED
  BY <1>1, <1>2, <1>6 DEF T

(* subvol.rs: a subvolume made or snapshotted is the tree it is made from,
   and an entry in the top level with its ROOT_REF.                          *)
LEMMA NewMakes ==
  ASSUME NamesInv, NEW op, NEW d, NEW n \in Name, NEW items, Whole(items), NEW ro \in BOOLEAN,
         NewSubvolume(op, d, n, items, ro)
  PROVE  /\ NamesInv'
         /\ \E id \in Subvol : \E u : Adds(d, n, id, items, u)
<1> DEFINE id == NextSubvolumeId
           now == tree[FsTree]
           index == NextDirIndex(now, d)
           u == LinkSubvolume(d, n, id)
           e == NewEntry(d, n, id, TRUE, index)
           r0 == [parent |-> FsTree, id |-> id, dir |-> d, index |-> index, name |-> n]
<1>1. /\ Commits(op) /\ FreeName(now, d, n) /\ id \in Subvol
      /\ Cardinality(ByHash(now, d, n)) < ItemRoom
      /\ tree' = [tree EXCEPT ![FsTree] = u, ![id] = items]
      /\ root' = [root EXCEPT ![id] = RootItem(ro)]
      /\ rootRef' = rootRef \cup {r0} /\ uuids' = uuids \cup {id}
      /\ orphans' = orphans /\ default' = default
  BY DEF NewSubvolume
<1>2. /\ id \notin Live /\ id # FsTree /\ \A r \in rootRef : r.id # id
      /\ \A t \in Subvol : root[t].there => t # id
  BY NextSubvolumeIsNew
<1>3. /\ Whole(now) /\ DOMAIN tree = Subvol /\ DOMAIN root = Subvol /\ FsTree \in Subvol
      /\ FsTree \in Live
  BY LiveIs DEF NamesInv
<1> HIDE DEF id, now
<1>4. /\ Whole(u) /\ Mounted(now, u, e) /\ e.root /\ Unnumbered(e) \notin now.item
      /\ Unnumbered(e) = [dir |-> d, name |-> n, id |-> id, root |-> TRUE]
      /\ d \in Ino /\ index \in Nat
  <2>1. u = FileEntry(now, d, n, id, TRUE, index)
    BY DEF LinkSubvolume, now
  <2> HIDE DEF u, e, index
  <2>2. QED
    BY <1>1, <1>3, <2>1, Mounts DEF e, index
<1> HIDE DEF u, index
<1>5. EntryOf(r0) = e /\ r0.parent = FsTree /\ r0.id = id
      /\ r0 \in [parent : Subvol, id : Subvol, dir : Ino, index : Nat, name : Name]
  BY <1>1, <1>3, <1>4 DEF EntryOf, NewEntry
<1> HIDE DEF r0, e
<1>6. u.index = now.index \cup {e}
  BY <1>4 DEF Mounted
<1>7. /\ tree' \in [Subvol -> {tree'[s] : s \in Subvol}]
      /\ tree'[FsTree] = u /\ tree'[id] = items
      /\ \A s \in Subvol : s # FsTree /\ s # id => tree'[s] = tree[s]
  BY <1>1, <1>2, <1>3
<1>8. RootItem(ro).there /\ RootItem(ro).refs = 1
      /\ RootItem(ro) \in [there : BOOLEAN, refs : {0, 1}, ro : BOOLEAN, received : BOOLEAN]
  BY DEF RootItem
<1>9. root'[id] = RootItem(ro) /\ \A s \in Subvol : s # id => root'[s] = root[s]
  BY <1>1, <1>3
<1>10. Live' = Live \cup {id} /\ LiveIn(root') = Live \cup {id} /\ Live = LiveIn(root)
  BY <1>1, <1>8, <1>9 DEF Live, LiveIn
<1>11. Exact(tree, root, rootRef, uuids, orphans, default)
  BY DEF NamesInv, NamesExact
<1>12. OfShape(items) /\ TreeExact(items) /\ OfShape(u) /\ TreeExact(u)
  BY <1>4, ExactIsWhole
<1>13. RootsAgree(tree', root', rootRef', uuids', orphans', default')
  <2>1. RootsAgree(tree, root, rootRef, uuids, orphans, default)
    BY <1>11 DEF Exact
  <2>2. FsTree \in Live' /\ \A s \in Live' : root'[s].there
    BY <1>8, <1>9, <1>10, <2>1 DEF RootsAgree, LiveIn
  <2>3. {r.id : r \in rootRef'} = Live' \ {FsTree}
    BY <1>1, <1>2, <1>5, <1>10, <2>1 DEF RootsAgree
  <2>4. \A r, x \in rootRef' : r.id = x.id => r = x
    BY <1>1, <1>2, <1>5, <2>1 DEF RootsAgree
  <2>5. ASSUME NEW r \in rootRef'
        PROVE  r.parent \in Live' /\ EntryOf(r) \in tree'[r.parent].index
    <3>1. CASE r \in rootRef
      <4>1. r.parent \in Live /\ EntryOf(r) \in tree[r.parent].index
        BY <1>10, <2>1, <3>1 DEF RootsAgree
      <4>2. QED
        BY <1>2, <1>6, <1>7, <1>10, <4>1 DEF LiveIn, now
    <3>2. CASE r = r0
      BY <1>5, <1>6, <1>7, <1>10, <2>2, <3>2
    <3>3. QED
      BY <1>1, <3>1, <3>2
  <2>6. ASSUME NEW f \in tree'[FsTree].index, f.root
        PROVE  \E r \in rootRef' : r.parent = FsTree /\ EntryOf(r) = f
    <3>1. CASE f = e
      BY <1>1, <1>5, <3>1
    <3>2. CASE f \in now.index
      BY <1>1, <2>1, <2>6, <3>2 DEF RootsAgree, now
    <3>3. QED
      BY <1>6, <1>7, <3>1, <3>2
  <2>7. uuids' = Live' \ {FsTree} /\ orphans' = {s \in Subvol : root'[s].there} \ Live'
    <3>1. uuids = Live \ {FsTree} /\ orphans = {s \in Subvol : root[s].there} \ Live
      BY <1>10, <2>1 DEF RootsAgree
    <3>2. {s \in Subvol : root'[s].there} = {s \in Subvol : root[s].there} \cup {id}
      BY <1>1, <1>8, <1>9
    <3>3. id \notin {s \in Subvol : root[s].there}
      BY <1>2
    <3>4. QED
      BY <1>1, <1>2, <1>10, <3>1, <3>2, <3>3
  <2>8. default' \in Live'
    BY <1>1, <1>10, <2>1 DEF RootsAgree
  <2>9. QED
    BY <1>10, <2>2, <2>3, <2>4, <2>5, <2>6, <2>7, <2>8 DEF RootsAgree
<1>14. root' \in [Subvol -> [there : BOOLEAN, refs : {0, 1}, ro : BOOLEAN, received : BOOLEAN]]
  BY <1>1, <1>8, <1>11 DEF Exact
<1>15. \A s \in Subvol : OfShape(tree'[s])
  BY <1>7, <1>11, <1>12 DEF Exact
<1>16. \A s \in Live' : TreeExact(tree'[s])
  BY <1>7, <1>10, <1>11, <1>12 DEF Exact, LiveIn
<1>17. Exact(tree', root', rootRef', uuids', orphans', default')
  <2>1. rootRef' \subseteq [parent : Subvol, id : Subvol, dir : Ino, index : Nat, name : Name]
    BY <1>1, <1>5, <1>11 DEF Exact
  <2>2. QED
    BY <1>7, <1>10, <1>13, <1>14, <1>15, <1>16, <2>1 DEF Exact
<1>18. NamesInv'
  BY <1>1, <1>17 DEF NamesInv, NamesExact, Commits
<1>19. Adds(d, n, id, items, u)
  BY <1>1, <1>2, <1>4, <1>10 DEF Adds, now, e, index
<1>20. QED
  BY <1>1, <1>18, <1>19
\* A subvolume loses its name in the top level.
Takes(d, n, id, u) ==
  /\ \E x \in tree[FsTree].index :
       /\ x.dir = d /\ x.name = n /\ x.id = id /\ x.root
       /\ Unmounted(tree[FsTree], u, x)
  /\ Whole(u) /\ id \in Live /\ id # FsTree
  /\ tree' = [tree EXCEPT ![FsTree] = u] /\ Live' = Live \ {id}

(* subvol.rs, delete_subvolume: the entry and its ROOT_REF go together.     *)
LEMMA DeleteMakes ==
  ASSUME NamesInv, NEW d, NEW n \in Name, DeleteSubvolume(d, n)
  PROVE  /\ NamesInv'
         /\ \E id \in Subvol : \E u : Takes(d, n, id, u)
<1> DEFINE now == tree[FsTree]
<1>1. PICK e \in Entry(now, d, n), r \in rootRef :
        /\ e.root /\ default # e.id
        /\ \A x \in rootRef : x.parent # e.id
        /\ r.parent = FsTree /\ r.id = e.id /\ r.dir = d
        /\ tree' = [tree EXCEPT ![FsTree] = UnfileEntry(now, d, n, r.index)]
        /\ root' = [root EXCEPT ![e.id].refs = 0]
        /\ rootRef' = rootRef \ {r} /\ uuids' = uuids \ {e.id} /\ orphans' = orphans \cup {e.id}
  BY DEF DeleteSubvolume
<1>2. Commits("delete") /\ default' = default
  BY DEF DeleteSubvolume
<1>3. /\ Whole(now) /\ DOMAIN tree = Subvol /\ DOMAIN root = Subvol /\ FsTree \in Subvol
      /\ FsTree \in Live /\ Live = LiveIn(root)
  BY LiveIs DEF NamesInv, Live
<1>4. Exact(tree, root, rootRef, uuids, orphans, default)
  BY DEF NamesInv, NamesExact
<1>5. RootsAgree(tree, root, rootRef, uuids, orphans, default)
  BY <1>4 DEF Exact
<1>6. EntriesAgree(now)
  BY <1>3 DEF Whole, Sound
<1>7. PICK x \in now.index : e = Unnumbered(x)
  BY <1>1, <1>6, Indexed DEF Entry
<1>8. x.dir = d /\ x.name = n /\ x.id = e.id /\ x.root
  <2>1. e.dir = d /\ e.name = n
    BY <1>1 DEF Entry
  <2>2. QED
    BY <1>1, <1>6, <1>7, <2>1, Indexed
<1>9. EntryOf(r) = x /\ x.index = r.index
  <2>1. PICK r1 \in rootRef : r1.parent = FsTree /\ EntryOf(r1) = x
    BY <1>5, <1>7, <1>8 DEF RootsAgree
  <2>2. r1.id = x.id /\ x.index = r1.index
    BY <2>1 DEF EntryOf
  <2>3. r1 = r
    BY <1>1, <1>5, <1>8, <2>2 DEF RootsAgree
  <2>4. QED
    BY <2>1, <2>2, <2>3
<1> DEFINE id == e.id
           u == UnfileEntry(now, d, n, r.index)
<1>10. id \in Live /\ id # FsTree /\ id \in Subvol
  <2>1. r.id \in Live \ {FsTree}
    BY <1>1, <1>3, <1>5 DEF RootsAgree
  <2>2. QED
    BY <1>1, <1>3, <2>1 DEF LiveIn
<1> HIDE DEF now
<1>11. Whole(u) /\ Unmounted(now, u, x)
  <2>1. u = UnfileEntry(now, x.dir, x.name, x.index)
    BY <1>8, <1>9
  <2> HIDE DEF u
  <2>2. QED
    BY <1>3, <1>7, <1>8, <2>1, Unmounts
<1> HIDE DEF u
<1>12. u.index = now.index \ {x}
  BY <1>11 DEF Unmounted
<1>13. /\ tree' = [tree EXCEPT ![FsTree] = u]
       /\ tree' \in [Subvol -> {tree'[s] : s \in Subvol}] /\ tree'[FsTree] = u
       /\ \A s \in Subvol : s # FsTree => tree'[s] = tree[s]
  BY <1>1, <1>3 DEF u
<1> HIDE DEF id
<1>14. /\ root' = [root EXCEPT ![id].refs = 0] /\ uuids' = uuids \ {id}
       /\ orphans' = orphans \cup {id} /\ rootRef' = rootRef \ {r} /\ r.id = id
       /\ default # id /\ \A y \in rootRef : y.parent # id
  BY <1>1 DEF id
<1>15. /\ root' \in [Subvol -> [there : BOOLEAN, refs : {0, 1}, ro : BOOLEAN, received : BOOLEAN]]
       /\ root'[id].refs = 0 /\ root'[id].there = root[id].there
       /\ \A s \in Subvol : s # id => root'[s] = root[s]
  <2>1. root[id] \in [there : BOOLEAN, refs : {0, 1}, ro : BOOLEAN, received : BOOLEAN]
    BY <1>4, <1>10 DEF Exact
  <2>2. [root[id] EXCEPT !.refs = 0]
          \in [there : BOOLEAN, refs : {0, 1}, ro : BOOLEAN, received : BOOLEAN]
    BY <2>1
  <2>3. [root[id] EXCEPT !.refs = 0].refs = 0 /\ [root[id] EXCEPT !.refs = 0].there = root[id].there
    BY <2>1
  <2>4. /\ root'[id] = [root[id] EXCEPT !.refs = 0]
        /\ \A s \in Subvol : s # id => root'[s] = root[s]
        /\ DOMAIN root' = Subvol /\ root' = [s \in Subvol |-> root'[s]]
    BY <1>3, <1>10, <1>14
  <2>5. \A s \in Subvol :
          root'[s] \in [there : BOOLEAN, refs : {0, 1}, ro : BOOLEAN, received : BOOLEAN]
    BY <1>4, <2>2, <2>4 DEF Exact
  <2>6. QED
    BY <2>3, <2>4, <2>5
<1>16. Live' = Live \ {id} /\ LiveIn(root') = Live \ {id}
  BY <1>3, <1>15 DEF Live, LiveIn
<1>17. RootsAgree(tree', root', rootRef', uuids', orphans', default')
  <2>1. FsTree \in Live' /\ \A s \in Live' : root'[s].there
    BY <1>3, <1>5, <1>10, <1>15, <1>16 DEF RootsAgree, LiveIn
  <2>2. {y.id : y \in rootRef'} = Live' \ {FsTree}
    BY <1>3, <1>5, <1>14, <1>16 DEF RootsAgree
  <2>3. \A y, z \in rootRef' : y.id = z.id => y = z
    BY <1>5, <1>14 DEF RootsAgree
  <2>4. ASSUME NEW y \in rootRef'
        PROVE  y.parent \in Live' /\ EntryOf(y) \in tree'[y.parent].index
    <3>1. y \in rootRef /\ y.id # id /\ y.parent # id
      BY <1>1, <1>5, <1>14 DEF RootsAgree
    <3>2. y.parent \in Live /\ EntryOf(y) \in tree[y.parent].index
      BY <1>3, <1>5, <3>1 DEF RootsAgree
    <3>3. EntryOf(y) # x
      <4>1. EntryOf(y).id = y.id
        BY DEF EntryOf
      <4>2. QED
        BY <1>8, <3>1, <4>1 DEF id
    <3>4. QED
      BY <1>12, <1>13, <1>16, <3>1, <3>2, <3>3, <1>3 DEF LiveIn, now
  <2>5. ASSUME NEW f \in tree'[FsTree].index, f.root
        PROVE  \E y \in rootRef' : y.parent = FsTree /\ EntryOf(y) = f
    <3>1. f \in now.index /\ f # x
      BY <1>12, <1>13
    <3>2. PICK y \in rootRef : y.parent = FsTree /\ EntryOf(y) = f
      BY <1>5, <2>5, <3>1 DEF RootsAgree, now
    <3>3. y # r
      BY <1>9, <3>1, <3>2
    <3>4. QED
      BY <1>14, <3>2, <3>3
  <2>6. uuids' = Live' \ {FsTree} /\ orphans' = {s \in Subvol : root'[s].there} \ Live'
    <3>1. uuids = Live \ {FsTree} /\ orphans = {s \in Subvol : root[s].there} \ Live
      BY <1>3, <1>5 DEF RootsAgree
    <3>2. {s \in Subvol : root'[s].there} = {s \in Subvol : root[s].there}
      BY <1>15
    <3>3. root[id].there
      BY <1>3, <1>5, <1>10 DEF RootsAgree
    <3>4. QED
      BY <1>10, <1>14, <1>16, <3>1, <3>2, <3>3
  <2>7. default' \in Live'
    BY <1>2, <1>3, <1>5, <1>14, <1>16 DEF RootsAgree
  <2>8. QED
    BY <1>16, <2>1, <2>2, <2>3, <2>4, <2>5, <2>6, <2>7 DEF RootsAgree
<1>18. OfShape(u) /\ TreeExact(u)
  BY <1>11, ExactIsWhole
<1>19. \A s \in Subvol : OfShape(tree'[s])
  BY <1>4, <1>13, <1>18 DEF Exact
<1>20. \A s \in Live' : TreeExact(tree'[s])
  BY <1>3, <1>4, <1>13, <1>16, <1>18 DEF Exact, LiveIn
<1>21. Exact(tree', root', rootRef', uuids', orphans', default')
  <2>1. rootRef' \subseteq [parent : Subvol, id : Subvol, dir : Ino, index : Nat, name : Name]
    BY <1>4, <1>14 DEF Exact
  <2>2. QED
    BY <1>13, <1>15, <1>16, <1>17, <1>19, <1>20, <2>1 DEF Exact
<1>22. NamesInv'
  BY <1>2, <1>21 DEF NamesInv, NamesExact, Commits
<1>23. Takes(d, n, id, u)
  BY <1>7, <1>8, <1>10, <1>11, <1>13, <1>16 DEF Takes, now, id
<1>24. QED
  BY <1>10, <1>22, <1>23
\* No live tree changes, nor which are live.
Rests == Live' = Live /\ \A t \in Live : tree'[t] = tree[t]

(* The removal of a dead subvolume's tree leaves every live one.             *)
LEMMA CleanMakes ==
  ASSUME NamesInv, NEW id \in Subvol, Clean(id)
  PROVE  NamesInv' /\ Rests
<1>1. /\ Commits("delete") /\ id \in orphans /\ orphans' = orphans \ {id}
      /\ root' = [root EXCEPT ![id] = NoRoot] /\ tree' = [tree EXCEPT ![id] = NoItems]
      /\ rootRef' = rootRef /\ uuids' = uuids /\ default' = default
  BY DEF Clean
<1>2. Exact(tree, root, rootRef, uuids, orphans, default)
  BY DEF NamesInv, NamesExact
<1>3. RootsAgree(tree, root, rootRef, uuids, orphans, default)
  BY <1>2 DEF Exact
<1>4. /\ DOMAIN tree = Subvol /\ DOMAIN root = Subvol /\ FsTree \in Live /\ FsTree \in Subvol
      /\ Live = LiveIn(root) /\ Live \subseteq Subvol
  BY LiveIs DEF NamesInv, Live
<1>5. id \notin Live
  BY <1>1, <1>3, <1>4 DEF RootsAgree
<1>6. /\ NoRoot.refs = 0 /\ ~NoRoot.there
      /\ NoRoot \in [there : BOOLEAN, refs : {0, 1}, ro : BOOLEAN, received : BOOLEAN]
  BY DEF NoRoot, RootItem
<1>7. /\ tree' \in [Subvol -> {tree'[s] : s \in Subvol}] /\ tree'[id] = NoItems
      /\ \A s \in Subvol : s # id => tree'[s] = tree[s]
      /\ root'[id] = NoRoot /\ \A s \in Subvol : s # id => root'[s] = root[s]
  BY <1>1, <1>4
<1>8. Live' = Live /\ LiveIn(root') = Live
  BY <1>4, <1>5, <1>6, <1>7 DEF Live, LiveIn
<1>9. RootsAgree(tree', root', rootRef', uuids', orphans', default')
  <2>1. FsTree \in Live' /\ \A s \in Live' : root'[s].there
    BY <1>3, <1>4, <1>5, <1>7, <1>8 DEF RootsAgree
  <2>2. \A r \in rootRef' : r.parent \in Live' /\ EntryOf(r) \in tree'[r.parent].index
    BY <1>1, <1>3, <1>4, <1>5, <1>7, <1>8 DEF RootsAgree
  <2>3. \A f \in tree'[FsTree].index : f.root =>
          \E r \in rootRef' : r.parent = FsTree /\ EntryOf(r) = f
    BY <1>1, <1>3, <1>4, <1>5, <1>7 DEF RootsAgree
  <2>4. orphans' = {s \in Subvol : root'[s].there} \ Live'
    <3>1. orphans = {s \in Subvol : root[s].there} \ Live
      BY <1>3, <1>4 DEF RootsAgree
    <3>2. {s \in Subvol : root'[s].there} = {s \in Subvol : root[s].there} \ {id}
      BY <1>6, <1>7
    <3>3. QED
      BY <1>1, <1>8, <3>1, <3>2
  <2>5. QED
    BY <1>1, <1>3, <1>4, <1>8, <2>1, <2>2, <2>3, <2>4 DEF RootsAgree
<1>10. root' \in [Subvol -> [there : BOOLEAN, refs : {0, 1}, ro : BOOLEAN, received : BOOLEAN]]
  BY <1>1, <1>2, <1>6 DEF Exact
<1>11. \A s \in Subvol : OfShape(tree'[s])
  BY <1>2, <1>7, NoItemsIs DEF Exact
<1>12. \A s \in Live' : TreeExact(tree'[s])
  BY <1>2, <1>4, <1>5, <1>7, <1>8 DEF Exact
<1>13. Exact(tree', root', rootRef', uuids', orphans', default')
  BY <1>1, <1>2, <1>7, <1>8, <1>9, <1>10, <1>11, <1>12 DEF Exact
<1>14. Rests
  BY <1>4, <1>5, <1>7, <1>8 DEF Rests
<1>15. QED
  BY <1>1, <1>13, <1>14 DEF NamesInv, NamesExact, Commits

(* So do the read-only flag and the default.                                 *)
LEMMA FlagsMake ==
  ASSUME NamesInv, NEW id \in Subvol,
         (\E ro \in BOOLEAN : SetReadOnly(id, ro)) \/ SetDefault(id)
  PROVE  NamesInv' /\ Rests
<1>1. Exact(tree, root, rootRef, uuids, orphans, default)
  BY DEF NamesInv, NamesExact
<1>2. RootsAgree(tree, root, rootRef, uuids, orphans, default)
  BY <1>1 DEF Exact
<1>3. DOMAIN root = Subvol /\ Live = LiveIn(root)
  BY LiveIs DEF NamesInv, Live
<1>4. CASE SetDefault(id)
  <2>1. /\ tree' = tree /\ root' = root /\ rootRef' = rootRef /\ uuids' = uuids
        /\ orphans' = orphans /\ default' = id /\ id \in Live /\ Commits("default")
    BY <1>4 DEF SetDefault
  <2>2. RootsAgree(tree, root, rootRef, uuids, orphans, id)
    BY <1>2, <1>3, <2>1 DEF RootsAgree
  <2>3. Exact(tree', root', rootRef', uuids', orphans', default')
    BY <1>1, <2>1, <2>2 DEF Exact
  <2>4. Rests
    BY <2>1 DEF Rests, Live, LiveIn
  <2>5. QED
    BY <2>1, <2>3, <2>4 DEF NamesInv, NamesExact, Commits
<1>5. ASSUME NEW ro \in BOOLEAN, SetReadOnly(id, ro) PROVE NamesInv' /\ Rests
  <2>1. /\ root' = [root EXCEPT ![id].ro = ro] /\ tree' = tree /\ rootRef' = rootRef
        /\ uuids' = uuids /\ orphans' = orphans /\ default' = default /\ Commits("readonly")
    BY <1>5 DEF SetReadOnly
  <2> DEFINE R == [there : BOOLEAN, refs : {0, 1}, ro : BOOLEAN, received : BOOLEAN]
  <2>2. root \in [Subvol -> R] /\ root[id] \in R
    BY <1>1 DEF Exact
  <2>3. /\ [root[id] EXCEPT !.ro = ro] \in R
        /\ [root[id] EXCEPT !.ro = ro].refs = root[id].refs
        /\ [root[id] EXCEPT !.ro = ro].there = root[id].there
    BY <2>2
  <2> HIDE DEF R
  <2>4. /\ root' \in [Subvol -> R]
        /\ \A s \in Subvol : root'[s].refs = root[s].refs /\ root'[s].there = root[s].there
    <3>1. /\ root'[id] = [root[id] EXCEPT !.ro = ro]
          /\ \A s \in Subvol : s # id => root'[s] = root[s]
          /\ root' = [s \in Subvol |-> root'[s]]
      BY <1>3, <2>1
    <3>2. \A s \in Subvol : root'[s] \in R
      BY <2>2, <2>3, <3>1
    <3>3. QED
      BY <2>3, <3>1, <3>2
  <2>5. Live' = Live /\ LiveIn(root') = LiveIn(root)
    BY <2>4 DEF Live, LiveIn
  <2>6. {s \in Subvol : root'[s].there} = {s \in Subvol : root[s].there}
    BY <2>4
  <2>7. \A s \in LiveIn(root') : root'[s].there
    BY <1>2, <2>4, <2>5 DEF RootsAgree, LiveIn
  <2>8. RootsAgree(tree, root', rootRef, uuids, orphans, default)
    BY <1>2, <2>5, <2>6, <2>7 DEF RootsAgree
  <2>9. Exact(tree', root', rootRef', uuids', orphans', default')
    BY <1>1, <2>1, <2>4, <2>5, <2>8 DEF Exact, R
  <2>10. Rests
    BY <2>1, <2>5 DEF Rests
  <2>11. QED
    BY <2>1, <2>9, <2>10 DEF NamesInv, NamesExact, Commits
<1>6. QED
  BY <1>4, <1>5

-----------------------------------------------------------------------------
(* Each step is of one of four kinds.                                       *)
LEMMA StepMakes ==
  ASSUME NamesInv, Next
  PROVE  /\ NamesInv'
         /\ \/ \E t, u : Writes(t, u)
            \/ \E d, n, id, items, u : Adds(d, n, id, items, u)
            \/ \E d, n, id, u : Takes(d, n, id, u)
            \/ Rests
<1>1. ASSUME NEW t \in Live, OnTree(t) PROVE \E u : Writes(t, u)
  <2>1. PICK d \in DOMAIN tree[t].inode, n \in Name :
          \/ \E k \in load.kinds, m \in Mode : Create(t, d, n, k, m)
          \/ \E i \in DOMAIN tree[t].inode : Link(t, i, d, n)
          \/ \E wantDir \in BOOLEAN : RemoveName(t, d, n, wantDir)
          \/ \E d2 \in DOMAIN tree[t].inode, n2 \in Name : Rename(t, d, n, d2, n2)
    BY <1>1 DEF OnTree
  <2>2. CASE \E k \in load.kinds, m \in Mode : Create(t, d, n, k, m)
    BY <2>2, CreateMakes
  <2>3. CASE \E i \in DOMAIN tree[t].inode : Link(t, i, d, n)
    BY <2>3, LinkMakes
  <2>4. CASE \E wantDir \in BOOLEAN : RemoveName(t, d, n, wantDir)
    BY <2>4, RemoveMakes
  <2>5. CASE \E d2 \in DOMAIN tree[t].inode, n2 \in Name : Rename(t, d, n, d2, n2)
    BY <2>5, RenameMakes
  <2>6. QED
    BY <2>1, <2>2, <2>3, <2>4, <2>5
<1>2. ASSUME OnAttributes PROVE \E u : Writes(FsTree, u)
  BY <1>2, AttributesMake
<1>3. ASSUME NEW d, NEW n \in Name, NEW m \in Mode, CreateSubvolume(d, n, m)
      PROVE  /\ NamesInv'
             /\ \E id, u : Adds(d, n, id, TopOnly(m, generation + 1), u)
  <2>1. Whole(TopOnly(m, generation + 1))
    BY TopOnlyIs DEF NamesInv
  <2>2. NewSubvolume("subvolume", d, n, TopOnly(m, generation + 1), FALSE)
    BY <1>3 DEF CreateSubvolume
  <2>3. QED
    BY <2>1, <2>2, NewMakes
<1>4. ASSUME NEW d, NEW n \in Name, NEW source \in Live, NEW ro \in BOOLEAN,
             CreateSnapshot(source, d, n, ro)
      PROVE  /\ NamesInv'
             /\ \E id, u : Adds(d, n, id, tree[source], u)
  <2>1. Whole(tree[source])
    BY LiveIs DEF NamesInv
  <2>2. NewSubvolume("snapshot", d, n, tree[source], ro)
    BY <1>4 DEF CreateSnapshot
  <2>3. QED
    BY <2>1, <2>2, NewMakes
<1>5. CASE \E t \in Live : OnTree(t)
  BY <1>1, <1>5, WritesExact
<1>6. CASE OnAttributes
  BY <1>2, <1>6, WritesExact
<1>7. CASE OnSubvolumes
  <2>1. CASE \E d \in DOMAIN tree[FsTree].inode, n \in Name :
               \/ \E m \in Mode : CreateSubvolume(d, n, m)
               \/ \E source \in Live, ro \in BOOLEAN : CreateSnapshot(source, d, n, ro)
               \/ DeleteSubvolume(d, n)
    BY <1>3, <1>4, <2>1, DeleteMakes
  <2>2. CASE \E id \in Subvol :
               \/ Clean(id)
               \/ \E ro \in BOOLEAN : SetReadOnly(id, ro)
               \/ SetDefault(id)
    BY <2>2, CleanMakes, FlagsMake
  <2>3. QED
    BY <1>7, <2>1, <2>2 DEF OnSubvolumes
<1>8. QED
  BY <1>5, <1>6, <1>7 DEF Next

(* A volume to start from is as the invariant says.                          *)
LEMMA StartsSo == Init => NamesInv
<1> SUFFICES ASSUME Init PROVE NamesInv
  OBVIOUS
<1>1. Exact(load.tree, load.root, load.rootRef, LiveIn(load.root) \ {FsTree}, {}, FsTree)
      /\ load.start \in Nat
  BY StartsAreExact DEF Init
<1>2. uuids = LiveIn(load.root) \ {FsTree}
  BY DEF Init, Live, LiveIn
<1>3. QED
  BY <1>1, <1>2 DEF Init, NamesInv, NamesExact

(* Every step keeps the invariant.                                           *)
LEMMA StaysSo == NamesInv /\ [Next]_vars => NamesInv'
<1> SUFFICES ASSUME NamesInv, [Next]_vars PROVE NamesInv'
  OBVIOUS
<1>1. CASE Next
  BY <1>1, StepMakes
<1>2. CASE UNCHANGED vars
  BY <1>2 DEF vars, rootVars, NamesInv, NamesExact
<1>3. QED
  BY <1>1, <1>2

\* Whatever calls are made, in whatever order, every name has its records in
\* both of its directory's indexes and in the inode it names, every link and
\* every record an item has room for is counted, every directory is below the
\* top, and every subvolume has its entry and its ROOT_REF.
THEOREM ItemsStayExact == Spec => []NamesExact
<1>1. NamesInv => NamesExact
  BY DEF NamesInv
<1>2. QED
  BY <1>1, StartsSo, StaysSo, PTL DEF Spec

\* A subvolume that is and stays read-only is as it was, whatever is done to
\* others, its own snapshots and the directory it is filed in included.
THEOREM ReadOnlyStays == Spec => ReadOnlyUnchanged
<1> DEFINE A == \A t \in Live \ {FsTree} : root[t].ro /\ root'[t].ro => tree'[t] = tree[t]
<1>1. NamesInv /\ [Next]_vars => [A]_vars
  <2> SUFFICES ASSUME NamesInv, Next, NEW t \in Live \ {FsTree}, root[t].ro, root'[t].ro
               PROVE  tree'[t] = tree[t]
    OBVIOUS
  <2>1. DOMAIN tree = Subvol /\ Live \subseteq Subvol /\ FsTree \in Live
    BY LiveIs DEF NamesInv
  <2>2. CASE \E s, u : Writes(s, u)
    BY <2>1, <2>2 DEF Writes, Writable
  <2>3. CASE \E d, n, id, items, u : Adds(d, n, id, items, u)
    BY <2>1, <2>3 DEF Adds
  <2>4. CASE \E d, n, id, u : Takes(d, n, id, u)
    BY <2>1, <2>4 DEF Takes
  <2>5. CASE Rests
    BY <2>5 DEF Rests
  <2>6. QED
    BY <2>2, <2>3, <2>4, <2>5, StepMakes
<1>2. QED
  BY <1>1, StartsSo, StaysSo, PTL DEF Spec, ReadOnlyUnchanged

-----------------------------------------------------------------------------
(* What Directories sees of a tree.                                         *)

\* The names of a tree's entries, and what an entry names.
Keys(items) == {<<e.dir, e.name>> : e \in items}
Meant(e) == [root |-> e.root, id |-> e.id]

(* A name of a directory is one DIR_ITEM.                                    *)
LEMMA OneByName ==
  ASSUME NEW t, Whole(t)
  PROVE  /\ \A e \in t.item : Entry(t, e.dir, e.name) = {e}
         /\ \A e, f \in t.item : e.dir = f.dir /\ e.name = f.name => e = f
<1>1. EntriesAgree(t)
  BY DEF Whole, Sound
<1>2. ASSUME NEW e \in t.item PROVE Entry(t, e.dir, e.name) = {e}
  <2>1. PICK x \in t.index : e = Unnumbered(x)
    BY <1>1, Indexed
  <2>2. e.dir = x.dir /\ e.name = x.name
    BY <1>1, <2>1, Indexed
  <2>3. QED
    BY <1>1, <2>1, <2>2, OneEntry
<1>3. \A e, f \in t.item : e.dir = f.dir /\ e.name = f.name => f \in Entry(t, e.dir, e.name)
  BY DEF Entry
<1>4. QED
  BY <1>2, <1>3

(* So the entries are a function of directory and name.                      *)
LEMMA EntriesAre ==
  ASSUME NEW t, Whole(t)
  PROVE  /\ DOMAIN EntriesOf(t) = Keys(t.item)
         /\ EntriesOf(t) = [k \in Keys(t.item) |-> EntriesOf(t)[k]]
         /\ \A e \in t.item : EntriesOf(t)[<<e.dir, e.name>>] = Meant(e)
<1>1. DOMAIN EntriesOf(t) = Keys(t.item)
  BY DEF EntriesOf, Keys
<1>2. EntriesOf(t) = [k \in Keys(t.item) |-> EntriesOf(t)[k]]
  BY DEF EntriesOf, Keys
<1>3. ASSUME NEW e \in t.item PROVE EntriesOf(t)[<<e.dir, e.name>>] = Meant(e)
  <2> DEFINE k == <<e.dir, e.name>>
  <2>1. k \in Keys(t.item) /\ k[1] = e.dir /\ k[2] = e.name
    BY DEF Keys
  <2> HIDE DEF k
  <2>2. EntriesOf(t)[k] = LET x == CHOOSE x \in Entry(t, k[1], k[2]) : TRUE
                          IN  [root |-> x.root, id |-> x.id]
    BY <2>1 DEF EntriesOf, Keys
  <2>3. Entry(t, k[1], k[2]) = {e}
    BY <2>1, OneByName
  <2>4. (CHOOSE x \in {e} : TRUE) = e
    OBVIOUS
  <2>5. EntriesOf(t)[k] = Meant(e)
    BY <2>2, <2>3, <2>4 DEF Meant
  <2>6. QED
    BY <2>5 DEF k
<1>4. QED
  BY <1>1, <1>2, <1>3

(* Any such function with the same values is that.                           *)
LEMMA EntriesSo ==
  ASSUME NEW u, Whole(u), NEW F, F = [k \in DOMAIN F |-> F[k]], DOMAIN F = Keys(u.item),
         \A e \in u.item : F[<<e.dir, e.name>>] = Meant(e)
  PROVE  EntriesOf(u) = F
<1>1. /\ EntriesOf(u) = [k \in Keys(u.item) |-> EntriesOf(u)[k]]
      /\ \A e \in u.item : EntriesOf(u)[<<e.dir, e.name>>] = Meant(e)
  BY EntriesAre
<1>2. ASSUME NEW k \in Keys(u.item) PROVE EntriesOf(u)[k] = F[k]
  <2>1. PICK e \in u.item : k = <<e.dir, e.name>>
    BY DEF Keys
  <2>2. EntriesOf(u)[<<e.dir, e.name>>] = F[<<e.dir, e.name>>]
    BY <1>1
  <2>3. QED
    BY <2>1, <2>2
<1>3. QED
  BY <1>1, <1>2

(* One entry less, and one more.                                            *)
LEMMA EntriesLess ==
  ASSUME NEW t, Whole(t), NEW b \in t.item
  PROVE  LET F == Names!Without(EntriesOf(t), {<<b.dir, b.name>>})
         IN  /\ DOMAIN F = Keys(t.item \ {b}) /\ F = [k \in DOMAIN F |-> F[k]]
             /\ \A e \in t.item \ {b} : F[<<e.dir, e.name>>] = Meant(e)
<1> DEFINE G == EntriesOf(t)
           kb == <<b.dir, b.name>>
           F == Names!Without(G, {kb})
<1>1. DOMAIN G = Keys(t.item) /\ \A e \in t.item : G[<<e.dir, e.name>>] = Meant(e)
  BY EntriesAre
<1>2. \A e \in t.item : <<e.dir, e.name>> = kb <=> e = b
  BY OneByName
<1> HIDE DEF G
<1>3. F = [k \in DOMAIN G \ {kb} |-> G[k]]
  BY DEF Names!Without, Names!Restrict
<1>4. DOMAIN G \ {kb} = Keys(t.item \ {b})
  BY <1>1, <1>2 DEF Keys
<1> HIDE DEF F
<1>5. DOMAIN F = Keys(t.item \ {b}) /\ F = [k \in DOMAIN F |-> F[k]]
  BY <1>3, <1>4
<1>6. ASSUME NEW e \in t.item \ {b} PROVE F[<<e.dir, e.name>>] = Meant(e)
  <2>1. <<e.dir, e.name>> \in Keys(t.item \ {b})
    BY DEF Keys
  <2>2. QED
    BY <1>1, <1>3, <1>4, <2>1
<1>7. QED
  BY <1>5, <1>6 DEF F, G

(* One record filed is one entry added.                                      *)
LEMMA EntriesMore ==
  ASSUME NEW u, Whole(u), NEW items, NEW b \in u.item,
         \A e \in u.item : e # b => e \in items,
         \A e \in items : e \in u.item \/ (e.dir = b.dir /\ e.name = b.name),
         NEW G, DOMAIN G = Keys(items), \A e \in items : G[<<e.dir, e.name>>] = Meant(e)
  PROVE  EntriesOf(u) = Names!Added(G, <<b.dir, b.name>>, Meant(b))
<1> DEFINE kb == <<b.dir, b.name>>
           F == Names!Added(G, kb, Meant(b))
<1>1. F = [k \in DOMAIN G \cup {kb} |-> IF k = kb THEN Meant(b) ELSE G[k]]
  BY DEF Names!Added
<1>2. DOMAIN G \cup {kb} = Keys(u.item)
  BY DEF Keys
<1>3. DOMAIN F = Keys(u.item) /\ F = [k \in DOMAIN F |-> F[k]]
  BY <1>1, <1>2
<1>4. ASSUME NEW e \in u.item PROVE F[<<e.dir, e.name>>] = Meant(e)
  <2>1. <<e.dir, e.name>> \in Keys(u.item)
    BY DEF Keys
  <2>2. CASE e = b
    BY <1>1, <2>2
  <2>3. CASE e # b
    <3>1. <<e.dir, e.name>> # kb
      BY <2>3, OneByName
    <3>2. QED
      BY <1>1, <1>2, <2>1, <2>3, <3>1
  <2>4. QED
    BY <2>2, <2>3
<1> HIDE DEF F
<1>5. EntriesOf(u) = F
  BY <1>3, <1>4, EntriesSo
<1>6. QED
  BY <1>5 DEF F

\* The inodes that still have a name.
Kept(e, D) == {i \in D : i = Top \/ Names!NamesOf(e, i) # {}}

(* The inodes a reader can name are those there are.                         *)
LEMMA KeptIs ==
  ASSUME NEW u, Whole(u), NEW D, DOMAIN u.inode \subseteq D,
         \A i \in D \ DOMAIN u.inode : i # Top /\ \A e \in u.item : e.root \/ e.id # i
  PROVE  Kept(EntriesOf(u), D) = DOMAIN u.inode
<1>1. /\ DOMAIN EntriesOf(u) = Keys(u.item)
      /\ \A e \in u.item : EntriesOf(u)[<<e.dir, e.name>>] = Meant(e)
  BY EntriesAre
<1> DEFINE G == EntriesOf(u)
<1> HIDE DEF G
<1>2. ASSUME NEW i
      PROVE  Names!NamesOf(G, i) # {} <=> \E e \in u.item : e.root = FALSE /\ e.id = i
  <2>1. ASSUME NEW e \in u.item
        PROVE  Meant(e) = Names!Inode(i) <=> e.root = FALSE /\ e.id = i
    BY DEF Meant, Names!Inode
  <2>2. \A k \in DOMAIN G : \E e \in u.item : k = <<e.dir, e.name>> /\ G[k] = Meant(e)
    BY <1>1 DEF Keys, G
  <2>3. \A e \in u.item : <<e.dir, e.name>> \in DOMAIN G /\ G[<<e.dir, e.name>>] = Meant(e)
    BY <1>1 DEF Keys, G
  <2>4. Names!NamesOf(G, i) = {k \in DOMAIN G : G[k] = Names!Inode(i)}
    BY DEF Names!NamesOf
  <2>5. ASSUME NEW k \in Names!NamesOf(G, i)
        PROVE  \E e \in u.item : e.root = FALSE /\ e.id = i
    <3>1. k \in DOMAIN G /\ G[k] = Names!Inode(i)
      BY <2>4
    <3>2. PICK e \in u.item : G[k] = Meant(e)
      BY <2>2, <3>1
    <3>3. QED
      BY <2>1, <3>1, <3>2
  <2>6. ASSUME NEW e \in u.item, e.root = FALSE, e.id = i
        PROVE  <<e.dir, e.name>> \in Names!NamesOf(G, i)
    <3>1. Meant(e) = Names!Inode(i)
      BY <2>1, <2>6
    <3>2. QED
      BY <2>3, <2>4, <3>1
  <2>7. QED
    BY <2>5, <2>6
<1>3. \A e \in u.item : e.root = FALSE <=> ~e.root
  <2>1. u.item \subseteq EntryRecord
    BY Fields DEF Whole, Sound
  <2>2. QED
    BY <2>1 DEF EntryRecord
<1>4. \A i \in DOMAIN u.inode : i # Top => \E e \in u.item : ~e.root /\ e.id = i
  BY HasNames DEF Whole
<1>5. Top \in DOMAIN u.inode
  BY DEF Whole, Sound, DirsSound, IsDir
<1>6. ASSUME NEW i \in D
      PROVE  (i = Top \/ Names!NamesOf(G, i) # {}) <=> i \in DOMAIN u.inode
  <2>1. CASE i \in DOMAIN u.inode
    <3>1. CASE i = Top
      BY <2>1, <3>1
    <3>2. CASE i # Top
      <4>1. PICK e \in u.item : ~e.root /\ e.id = i
        BY <1>4, <2>1, <3>2
      <4>2. Names!NamesOf(G, i) # {}
        BY <1>2, <1>3, <4>1
      <4>3. QED
        BY <2>1, <4>2
    <3>3. QED
      BY <3>1, <3>2
  <2>2. CASE i \notin DOMAIN u.inode
    BY <1>2, <1>3, <2>2
  <2>3. QED
    BY <2>1, <2>2
<1>7. Kept(G, D) = DOMAIN u.inode
  BY <1>6 DEF Kept
<1>8. QED
  BY <1>7 DEF G

\* An inode's attributes.
AttrsAt(t, i) == {<<"mode", t.inode[i].mode>>} \cup {<<x.name, x.value>> : x \in XattrsOf(t, i)}

(* Attributes and kinds, inode by inode.                                     *)
LEMMA AttrsAre ==
  ASSUME NEW t
  PROVE  /\ AttrsOf(t) = [i \in DOMAIN t.inode |-> AttrsAt(t, i)]
         /\ KindsOf(t) = [i \in DOMAIN t.inode |-> t.inode[i].kind]
BY DEF AttrsOf, AttrsAt, XattrsOf, KindsOf

\* The volume as Directories sees it.
Entries == [t \in Subvol |-> EntriesOf(LiveTree(t))]
Kinds == [t \in Subvol |-> KindsOf(LiveTree(t))]
Attrs == [t \in Subvol |-> AttrsOf(LiveTree(t))]

(* What Directories sees of a live subvolume is read from its tree.          *)
LEMMA Seen ==
  ASSUME NamesExact, NEW t \in Live
  PROVE  /\ t \in Subvol /\ Entries[t] = EntriesOf(tree[t])
         /\ Kinds[t] = KindsOf(tree[t]) /\ Attrs[t] = AttrsOf(tree[t])
         /\ \A i : Names!IsDir(t, i) <=> IsDir(tree[t], i)
<1>1. t \in Subvol /\ LiveTree(t) = tree[t]
  BY LiveIs DEF LiveTree
<1>2. Entries[t] = EntriesOf(tree[t]) /\ Kinds[t] = KindsOf(tree[t]) /\ Attrs[t] = AttrsOf(tree[t])
  BY <1>1 DEF Entries, Kinds, Attrs
<1>3. ASSUME NEW i PROVE Names!IsDir(t, i) <=> IsDir(tree[t], i)
  <2>1. Names!IsDir(t, i) <=> i \in DOMAIN Kinds[t] /\ Kinds[t][i] = "dir"
    BY DEF Names!IsDir, Kinds
  <2>2. Kinds[t] = [j \in DOMAIN tree[t].inode |-> tree[t].inode[j].kind]
    BY <1>2 DEF KindsOf
  <2>3. QED
    BY <2>1, <2>2 DEF IsDir
<1>4. QED
  BY <1>1, <1>2, <1>3

(* Its own way of saying that one tree alone changes.                        *)
LEMMA BecomesIs ==
  ASSUME NEW t, NEW e, NEW kinds, NEW attrs,
         Entries' = [Entries EXCEPT ![t] = e],
         Kinds' = [Kinds EXCEPT ![t] = Restrict(kinds, Kept(e, DOMAIN kinds))],
         Attrs' = [Attrs EXCEPT ![t] = Restrict(attrs, Kept(e, DOMAIN kinds))]
  PROVE  Names!Becomes(t, e, kinds, attrs)
BY DEF Names!Becomes, Entries, Kinds, Attrs, Kept, Names!Restrict, Restrict

(* What a call that rewrites a tree is seen to do.                          *)
LEMMA WritesSeen ==
  ASSUME NamesInv, NEW t, NEW u, Writes(t, u)
  PROVE  /\ Entries' = [Entries EXCEPT ![t] = EntriesOf(u)]
         /\ Kinds' = [Kinds EXCEPT ![t] = KindsOf(u)]
         /\ Attrs' = [Attrs EXCEPT ![t] = AttrsOf(u)]
<1>1. /\ t \in Live /\ t \in Subvol /\ tree' = [tree EXCEPT ![t] = u] /\ DOMAIN tree = Subvol
      /\ Live' = Live
  BY LiveIs DEF NamesInv, Writes, rootVars, Live
<1>2. \A s \in Subvol : LiveTree(s)' = IF s = t THEN u ELSE LiveTree(s)
  BY <1>1 DEF LiveTree
<1>3. QED
  BY <1>1, <1>2 DEF Entries, Kinds, Attrs

(* A tree written is, to Directories, what its items come to.                *)
LEMMA Becomes ==
  ASSUME NamesInv, NEW t, NEW u, Writes(t, u), NEW kinds, NEW attrs,
         DOMAIN u.inode \subseteq DOMAIN kinds,
         \A i \in DOMAIN kinds \ DOMAIN u.inode : i # Top /\ \A e \in u.item : e.root \/ e.id # i,
         \A i \in DOMAIN u.inode : kinds[i] = u.inode[i].kind /\ attrs[i] = AttrsAt(u, i)
  PROVE  Names!Becomes(t, EntriesOf(u), kinds, attrs)
<1>1. Kept(EntriesOf(u), DOMAIN kinds) = DOMAIN u.inode
  <2>1. Whole(u)
    BY DEF Writes
  <2> DEFINE D == DOMAIN kinds
  <2>2. DOMAIN u.inode \subseteq D
        /\ \A i \in D \ DOMAIN u.inode : i # Top /\ \A e \in u.item : e.root \/ e.id # i
    OBVIOUS
  <2> HIDE DEF D
  <2>3. Kept(EntriesOf(u), D) = DOMAIN u.inode
    BY <2>1, <2>2, KeptIs
  <2>4. QED
    BY <2>3 DEF D
<1>2. KindsOf(u) = Restrict(kinds, DOMAIN u.inode) /\ AttrsOf(u) = Restrict(attrs, DOMAIN u.inode)
  <2>1. KindsOf(u) = Restrict(kinds, DOMAIN u.inode)
    BY DEF KindsOf, Restrict
  <2>2. AttrsOf(u) = [i \in DOMAIN u.inode |-> AttrsAt(u, i)]
    BY AttrsAre
  <2>3. AttrsOf(u) = [i \in DOMAIN u.inode |-> attrs[i]]
    BY <2>2
  <2>4. QED
    BY <2>1, <2>3 DEF Restrict
<1>3. QED
  BY <1>1, <1>2, WritesSeen, BecomesIs

(* ... when it leaves the inodes it does not free as they were.             *)
LEMMA BecomesFewer ==
  ASSUME NamesInv, NEW t, NEW u, Writes(t, u), Leaves(tree[t], u), NEW items,
         Turned(tree[t], u, items)
  PROVE  Names!Becomes(t, EntriesOf(u), KindsOf(tree[t]), AttrsOf(tree[t]))
<1> DEFINE now == tree[t]
           kinds == KindsOf(now)
           attrs == AttrsOf(now)
<1>1. /\ DOMAIN kinds = DOMAIN now.inode
      /\ \A i \in DOMAIN now.inode : kinds[i] = now.inode[i].kind /\ attrs[i] = AttrsAt(now, i)
  BY AttrsAre
<1> HIDE DEF now, kinds, attrs
<1>2. DOMAIN u.inode \subseteq DOMAIN now.inode
  BY DEF Leaves, now
<1>3. ASSUME NEW i \in DOMAIN u.inode PROVE kinds[i] = u.inode[i].kind /\ attrs[i] = AttrsAt(u, i)
  <2>1. u.inode[i].kind = now.inode[i].kind /\ u.inode[i].mode = now.inode[i].mode
        /\ XattrsOf(u, i) = XattrsOf(now, i)
    BY <1>2 DEF Turned, XattrsOf, now
  <2>2. QED
    BY <1>1, <1>2, <2>1 DEF AttrsAt
<1>4. \A i \in DOMAIN kinds \ DOMAIN u.inode : i # Top /\ \A e \in u.item : e.root \/ e.id # i
  BY <1>1 DEF Leaves, now
<1>5. Names!Becomes(t, EntriesOf(u), kinds, attrs)
  BY <1>1, <1>2, <1>3, <1>4, Becomes
<1>6. QED
  BY <1>5 DEF kinds, attrs, now

-----------------------------------------------------------------------------
(* Each call, as Directories sees it.                                       *)
LEMMA CreateSeen ==
  ASSUME NamesInv, NEW t \in Live, NEW d \in DOMAIN tree[t].inode, NEW n \in Name,
         NEW k \in load.kinds, NEW m \in Mode, Create(t, d, n, k, m)
  PROVE  Names!OnTree(t)
<1> DEFINE now == tree[t]
           G == EntriesOf(now)
<1>1. PICK u : \E i \in Ino : Writes(t, u) /\ Creation(now, u, d, n, i, k, m)
  BY CreateMakes
<1>2. PICK i \in Ino : Writes(t, u) /\ Creation(now, u, d, n, i, k, m)
  BY <1>1
<1>3. /\ Writes(t, u) /\ FreeName(now, d, n) /\ i \notin DOMAIN now.inode
       /\ Turned(now, u, now.item \cup {InodeEntry(d, n, i)})
       /\ DOMAIN u.inode = DOMAIN now.inode \cup {i}
       /\ u.inode[i].kind = k /\ u.inode[i].mode = m
       /\ \A y \in u.xattr : y.ino # i
  BY <1>2 DEF Creation
<1>4. /\ Whole(now) /\ Whole(u) /\ t \in Subvol
      /\ Entries[t] = G /\ Kinds[t] = KindsOf(now) /\ Attrs[t] = AttrsOf(now)
      /\ Names!IsDir(t, d) /\ k \in {"file", "dir", "symlink"}
  BY <1>3, LiveIs, Seen, KindsToMake DEF NamesInv, Writes, FreeName
<1> DEFINE b == InodeEntry(d, n, i)
<1>5. b.dir = d /\ b.name = n /\ ~b.root /\ b.id = i /\ Meant(b) = Names!Inode(i)
  BY DEF InodeEntry, Meant, Names!Inode
<1> HIDE DEF now, b, G
<1>6. u.item = now.item \cup {b}
  BY <1>3 DEF Turned, b
<1>7. DOMAIN G = Keys(now.item) /\ \A e \in now.item : G[<<e.dir, e.name>>] = Meant(e)
  BY <1>4, EntriesAre DEF G
<1>8. <<d, n>> \notin DOMAIN G
  BY <1>3, <1>7 DEF FreeName, Entry, Keys
<1>9. EntriesOf(u) = Names!Added(G, <<d, n>>, Names!Inode(i))
  <2>1. EntriesOf(u) = Names!Added(G, <<b.dir, b.name>>, Meant(b))
    BY <1>4, <1>6, <1>7, EntriesMore
  <2>2. QED
    BY <1>5, <2>1
<1> DEFINE kinds == Names!Added(KindsOf(now), i, k)
           attrs == Names!Added(AttrsOf(now), i, {<<"mode", m>>})
<1>10. DOMAIN kinds = DOMAIN u.inode
  BY <1>3, AttrsAre DEF Names!Added
<1>11. ASSUME NEW j \in DOMAIN u.inode
      PROVE  kinds[j] = u.inode[j].kind /\ attrs[j] = AttrsAt(u, j)
  <2>1. /\ KindsOf(now) = [x \in DOMAIN now.inode |-> now.inode[x].kind]
        /\ AttrsOf(now) = [x \in DOMAIN now.inode |-> AttrsAt(now, x)]
    BY AttrsAre
  <2>2. CASE j = i
    <3>1. XattrsOf(u, i) = {}
      BY <1>3 DEF XattrsOf
    <3>2. AttrsAt(u, i) = {<<"mode", m>>}
      BY <1>3, <3>1 DEF AttrsAt
    <3>3. i \in DOMAIN kinds /\ kinds[i] = k /\ attrs[i] = {<<"mode", m>>}
      BY <1>3, <1>10, <2>1 DEF Names!Added
    <3>4. QED
      BY <1>3, <2>2, <3>2, <3>3
  <2>3. CASE j # i
    <3>1. j \in DOMAIN now.inode
      BY <1>3, <2>3
    <3>2. kinds[j] = now.inode[j].kind /\ attrs[j] = AttrsAt(now, j)
      BY <2>1, <2>3, <3>1 DEF Names!Added
    <3>3. /\ u.inode[j].kind = now.inode[j].kind /\ u.inode[j].mode = now.inode[j].mode
          /\ XattrsOf(u, j) = XattrsOf(now, j)
      BY <1>3, <3>1 DEF Turned, XattrsOf
    <3>4. QED
      BY <3>2, <3>3 DEF AttrsAt
  <2>4. QED
    BY <2>2, <2>3
<1>12. Names!Becomes(t, Names!Added(G, <<d, n>>, Names!Inode(i)), kinds, attrs)
  <2> HIDE DEF kinds, attrs
  <2>1. DOMAIN u.inode \subseteq DOMAIN kinds /\ DOMAIN kinds \ DOMAIN u.inode = {}
    BY <1>10
  <2>2. Names!Becomes(t, EntriesOf(u), kinds, attrs)
    BY <1>3, <1>11, <2>1, Becomes
  <2>3. QED
    BY <1>9, <2>2
<1>13. d \in DOMAIN KindsOf(now) /\ i \notin DOMAIN KindsOf(now)
  BY <1>3, AttrsAre DEF now
<1>14. Names!Becomes(t, Names!Added(Entries[t], <<d, n>>, Names!Inode(i)),
                     Names!Added(Kinds[t], i, k), Names!Added(Attrs[t], i, {<<"mode", m>>}))
  BY <1>4, <1>12
<1>15. Names!Create(t, d, n, i, k)
  BY <1>4, <1>8, <1>13, <1>14 DEF Names!Create, Entries, Kinds, Attrs
<1>16. d \in DOMAIN Kinds[t]
  BY <1>4, <1>13
<1>17. QED
  BY <1>4, <1>15, <1>16 DEF Names!OnTree, Kinds

(* A link is a name of an inode that has others.                             *)
LEMMA LinkSeen ==
  ASSUME NamesInv, NEW t \in Live, NEW d \in DOMAIN tree[t].inode, NEW n \in Name,
         NEW i \in DOMAIN tree[t].inode, Link(t, i, d, n)
  PROVE  Names!OnTree(t)
<1> DEFINE now == tree[t]
           G == EntriesOf(now)
           b == InodeEntry(d, n, i)
<1>1. PICK u :
        /\ Writes(t, u) /\ FreeName(now, d, n) /\ ~IsDir(now, i)
        /\ Turned(now, u, now.item \cup {b}) /\ DOMAIN u.inode = DOMAIN now.inode
  BY LinkMakes
<1>2. /\ Whole(now) /\ Whole(u) /\ t \in Subvol
      /\ Entries[t] = G /\ Kinds[t] = KindsOf(now) /\ Attrs[t] = AttrsOf(now)
      /\ Names!IsDir(t, d) /\ ~Names!IsDir(t, i)
  BY <1>1, LiveIs, Seen DEF NamesInv, Writes, FreeName
<1>3. b.dir = d /\ b.name = n /\ Meant(b) = Names!Inode(i)
  BY DEF InodeEntry, Meant, Names!Inode
<1>4. DOMAIN KindsOf(now) = DOMAIN now.inode
  BY AttrsAre
<1>5. Leaves(now, u)
  BY <1>1 DEF Leaves
<1>6. Names!Becomes(t, EntriesOf(u), KindsOf(now), AttrsOf(now))
  BY <1>1, <1>5, BecomesFewer
<1>7. d \in DOMAIN Kinds[t] /\ i \in DOMAIN Kinds[t]
  BY <1>2, <1>4
<1> HIDE DEF now, b, G
<1>8. u.item = now.item \cup {b}
  BY <1>1 DEF Turned
<1>9. DOMAIN G = Keys(now.item) /\ \A e \in now.item : G[<<e.dir, e.name>>] = Meant(e)
  BY <1>2, EntriesAre DEF G
<1>10. <<d, n>> \notin DOMAIN G
  BY <1>1, <1>9 DEF FreeName, Entry, Keys
<1>11. EntriesOf(u) = Names!Added(G, <<d, n>>, Names!Inode(i))
  <2>1. EntriesOf(u) = Names!Added(G, <<b.dir, b.name>>, Meant(b))
    BY <1>2, <1>8, <1>9, EntriesMore
  <2>2. QED
    BY <1>3, <2>1
<1>12. Names!Link(t, i, d, n)
  BY <1>2, <1>6, <1>7, <1>10, <1>11 DEF Names!Link, Entries, Kinds, Attrs
<1>13. QED
  BY <1>2, <1>7, <1>12 DEF Names!OnTree, Kinds

(* A removal takes the name, and the inode with its last.                    *)
LEMMA RemoveSeen ==
  ASSUME NamesInv, NEW t \in Live, NEW d \in DOMAIN tree[t].inode, NEW n \in Name,
         NEW wantDir \in BOOLEAN, RemoveName(t, d, n, wantDir)
  PROVE  Names!OnTree(t)
<1> DEFINE now == tree[t]
           G == EntriesOf(now)
<1>1. PICK u, i :
        /\ Writes(t, u) /\ i \in InodeOf(now, d, n)
        /\ Turned(now, u, now.item \ {InodeEntry(d, n, i)})
        /\ Leaves(now, u) /\ \A e \in now.item : e.dir # i
  BY RemoveMakes
<1> DEFINE b == InodeEntry(d, n, i)
<1>2. /\ Whole(now) /\ Whole(u) /\ t \in Subvol
      /\ Entries[t] = G /\ Kinds[t] = KindsOf(now) /\ Attrs[t] = AttrsOf(now)
  BY <1>1, LiveIs, Seen DEF NamesInv, Writes
<1>3. /\ b.dir = d /\ b.name = n /\ Meant(b) = Names!Inode(i)
      /\ Meant(b).root = FALSE /\ Meant(b).id = i
  BY DEF InodeEntry, Meant, Names!Inode
<1>4. b \in now.item
  BY <1>1, <1>2, NamedInode DEF Whole
<1>5. Names!Becomes(t, EntriesOf(u), KindsOf(now), AttrsOf(now))
  BY <1>1, BecomesFewer
<1>6. d \in DOMAIN Kinds[t]
  BY <1>2, AttrsAre
<1> HIDE DEF now, b
<1>7. u.item = now.item \ {b}
  BY <1>1 DEF Turned, b
<1>8. /\ DOMAIN G = Keys(now.item) /\ <<d, n>> \in DOMAIN G
      /\ G[<<d, n>>] = Meant(b)
  BY <1>2, <1>3, <1>4, EntriesAre DEF Keys
<1>9. Names!IsEmpty(G, i)
  BY <1>1, <1>8 DEF Names!IsEmpty, Keys
<1>10. EntriesOf(u) = Names!Without(G, {<<d, n>>})
  <2> DEFINE F == Names!Without(G, {<<b.dir, b.name>>})
  <2>1. /\ DOMAIN F = Keys(now.item \ {b}) /\ F = [k \in DOMAIN F |-> F[k]]
        /\ \A e \in now.item \ {b} : F[<<e.dir, e.name>>] = Meant(e)
    BY <1>2, <1>4, EntriesLess
  <2> HIDE DEF F, G
  <2>2. EntriesOf(u) = F
    <3>1. DOMAIN F = Keys(u.item) /\ \A e \in u.item : F[<<e.dir, e.name>>] = Meant(e)
      BY <1>7, <2>1
    <3>2. Whole(u) /\ F = [k \in DOMAIN F |-> F[k]]
      BY <1>2, <2>1
    <3>3. QED
      BY <3>1, <3>2, EntriesSo
  <2>3. QED
    BY <1>3, <2>2 DEF F
<1> HIDE DEF G
<1>11. Names!Remove(t, d, n)
  BY <1>2, <1>3, <1>5, <1>8, <1>9, <1>10 DEF Names!Remove, Entries, Kinds, Attrs
<1>12. QED
  BY <1>2, <1>6, <1>11 DEF Names!OnTree, Kinds

(* A rename takes one name and gives another, at once.                       *)
LEMMA RenameSeen ==
  ASSUME NamesInv, NEW t \in Live, NEW d \in DOMAIN tree[t].inode, NEW n \in Name,
         NEW d2 \in DOMAIN tree[t].inode, NEW n2 \in Name, Rename(t, d, n, d2, n2)
  PROVE  Names!OnTree(t)
<1> DEFINE now == tree[t]
           G == EntriesOf(now)
<1>1. PICK u, i : Writes(t, u) /\ Renaming(now, u, d, n, i, d2, n2)
  BY RenameMakes
<1> DEFINE a == InodeEntry(d, n, i)
           b == InodeEntry(d2, n2, i)
           F == Names!Without(G, {<<d, n>>})
<1>2. /\ Whole(now) /\ Whole(u) /\ t \in Subvol
      /\ Entries[t] = G /\ Kinds[t] = KindsOf(now) /\ Attrs[t] = AttrsOf(now)
      /\ \A j : Names!IsDir(t, j) <=> IsDir(now, j)
  BY <1>1, LiveIs, Seen DEF NamesInv, Writes
<1>3. /\ i \in InodeOf(now, d, n) /\ IsDir(now, d2) /\ Leaves(now, u)
      /\ Turned(now, u, ((now.item \ Entry(now, d2, n2)) \ {a}) \cup {b})
      /\ IsDir(now, i) => ~Below(now, d2, i)
  BY <1>1 DEF Renaming
<1>4. Entry(now, d2, n2) # {} =>
        \E over \in DOMAIN now.inode :
          /\ Entry(now, d2, n2) = {InodeEntry(d2, n2, over)} /\ over # i
          /\ IsDir(now, over) = IsDir(now, i)
          /\ \A e \in now.item : e.dir # over
  BY <1>1 DEF Renaming
<1>5. /\ a.dir = d /\ a.name = n /\ Meant(a) = Names!Inode(i)
      /\ b.dir = d2 /\ b.name = n2 /\ Meant(b) = Names!Inode(i)
      /\ Names!Inode(i).root = FALSE /\ Names!Inode(i).id = i
  BY DEF InodeEntry, Meant, Names!Inode
<1>6. a \in now.item
  BY <1>2, <1>3, NamedInode DEF Whole
<1>7. Names!Becomes(t, EntriesOf(u), KindsOf(now), AttrsOf(now))
  BY <1>1, <1>3, BecomesFewer
<1>8. d \in DOMAIN Kinds[t] /\ d2 \in DOMAIN Kinds[t]
  BY <1>2, AttrsAre
<1> HIDE DEF now, a, b
<1>9. /\ DOMAIN G = Keys(now.item) /\ <<d, n>> \in DOMAIN G /\ G[<<d, n>>] = Names!Inode(i)
      /\ \A e \in now.item : G[<<e.dir, e.name>>] = Meant(e)
  BY <1>2, <1>5, <1>6, EntriesAre DEF Keys
<1>10. u.item = ((now.item \ Entry(now, d2, n2)) \ {a}) \cup {b}
  BY <1>3 DEF Turned
<1>11. EntriesOf(u) = Names!Added(F, <<d2, n2>>, Names!Inode(i))
  <2>1. /\ DOMAIN F = Keys(now.item \ {a})
        /\ \A e \in now.item \ {a} : F[<<e.dir, e.name>>] = Meant(e)
    <3> DEFINE H == Names!Without(G, {<<a.dir, a.name>>})
    <3>1. /\ DOMAIN H = Keys(now.item \ {a}) /\ H = [k \in DOMAIN H |-> H[k]]
          /\ \A e \in now.item \ {a} : H[<<e.dir, e.name>>] = Meant(e)
      BY <1>2, <1>6, EntriesLess
    <3> HIDE DEF G
    <3>2. H = F
      BY <1>5
    <3> HIDE DEF F, H
    <3>3. QED
      BY <3>1, <3>2
  <2> HIDE DEF F, G
  <2>2. \A e \in u.item : e # b => e \in now.item \ {a}
    BY <1>10
  <2>3. \A e \in now.item \ {a} : e \in u.item \/ (e.dir = b.dir /\ e.name = b.name)
    BY <1>5, <1>10 DEF Entry
  <2>4. b \in u.item
    BY <1>10
  <2>5. EntriesOf(u) = Names!Added(F, <<b.dir, b.name>>, Meant(b))
    BY <1>2, <2>1, <2>2, <2>3, <2>4, EntriesMore
  <2>6. QED
    BY <1>5, <2>5
<1> HIDE DEF F
<1>12. IsDir(now, i) => i \notin Names!Above(G, d2)
  <2> SUFFICES ASSUME IsDir(now, i) PROVE i \notin Names!Above(G, d2)
    OBVIOUS
  <2>1. PICK S \in SUBSET Ino : d2 \in S /\ Rises(now, S) /\ i \notin S
    BY <1>3 DEF Below
  <2> DEFINE T == {j \in S : IsDir(now, j)}
  <2>2. T \in SUBSET Ino /\ d2 \in T /\ i \notin T
    BY <1>3, <2>1
  <2>3. ASSUME NEW k \in DOMAIN G, ~G[k].root, G[k].id \in T PROVE k[1] \in T
    <3>1. PICK e \in now.item : k = <<e.dir, e.name>>
      BY <1>9 DEF Keys
    <3>2. G[k] = Meant(e) /\ k[1] = e.dir
      BY <1>9, <3>1
    <3>3. ~e.root /\ e.id \in S /\ IsDir(now, e.id)
      BY <2>3, <3>2 DEF Meant
    <3>4. e.dir \in S
      BY <2>1, <3>3 DEF Rises
    <3>5. IsDir(now, e.dir)
      BY <1>2 DEF Whole, Sound, DirsSound
    <3>6. QED
      BY <3>2, <3>4, <3>5
  <2> HIDE DEF T
  <2>4. QED
    BY <2>2, <2>3 DEF Names!Above
<1>13. ASSUME <<d2, n2>> \in DOMAIN G
       PROVE  LET over == G[<<d2, n2>>]
              IN  /\ ~over.root /\ over # Names!Inode(i)
                  /\ IsDir(now, over.id) = IsDir(now, i)
                  /\ Names!IsEmpty(G, over.id)
  <2>1. Entry(now, d2, n2) # {}
    BY <1>9, <1>13 DEF Keys, Entry
  <2>2. PICK over \in DOMAIN now.inode :
          /\ Entry(now, d2, n2) = {InodeEntry(d2, n2, over)} /\ over # i
          /\ IsDir(now, over) = IsDir(now, i)
          /\ \A e \in now.item : e.dir # over
    BY <1>4, <2>1
  <2> DEFINE c == InodeEntry(d2, n2, over)
  <2>3. /\ c.dir = d2 /\ c.name = n2 /\ Meant(c) = Names!Inode(over)
        /\ Names!Inode(over).root = FALSE /\ Names!Inode(over).id = over
    BY DEF InodeEntry, Meant, Names!Inode
  <2>4. c \in now.item
    BY <2>2 DEF Entry
  <2> HIDE DEF c
  <2>5. G[<<d2, n2>>] = Names!Inode(over)
    BY <1>9, <2>3, <2>4
  <2>6. Names!Inode(over) # Names!Inode(i)
    BY <1>5, <2>2, <2>3
  <2>7. Names!IsEmpty(G, over)
    BY <1>9, <2>2 DEF Names!IsEmpty, Keys
  <2>8. QED
    BY <2>2, <2>3, <2>5, <2>6, <2>7
<1> HIDE DEF G
<1>14. Names!IsDir(t, d2)
  BY <1>2, <1>3
<1>15. i \notin Names!Above(Entries[t], d2) \/ ~Names!IsDir(t, i)
  BY <1>2, <1>12
<1>16. <<d2, n2>> \in DOMAIN Entries[t] =>
         LET over == Entries[t][<<d2, n2>>]
         IN  /\ ~over.root /\ over # Names!Inode(i)
             /\ Names!IsDir(t, over.id) = Names!IsDir(t, i)
             /\ Names!IsEmpty(Entries[t], over.id)
  <2>1. \A j : Names!IsDir(t, j) = IsDir(now, j)
    BY <1>2 DEF IsDir, Names!IsDir
  <2>2. QED
    BY <1>2, <1>13, <2>1
<1>17. Names!Becomes(t, Names!Added(Names!Without(Entries[t], {<<d, n>>}), <<d2, n2>>, Names!Inode(i)),
                     Kinds[t], Attrs[t])
  BY <1>2, <1>7, <1>11 DEF F
<1>18. <<d, n>> \in DOMAIN Entries[t] /\ Entries[t][<<d, n>>] = Names!Inode(i)
  BY <1>2, <1>9
<1>19. Names!Rename(t, d, n, d2, n2)
  BY <1>5, <1>14, <1>15, <1>16, <1>17, <1>18 DEF Names!Rename, Entries, Kinds, Attrs
<1>20. QED
  BY <1>2, <1>8, <1>19 DEF Names!OnTree, Kinds

(* A change of attributes changes no name.                                   *)
LEMMA AttributesSeen ==
  ASSUME NamesInv, OnAttributes
  PROVE  Names!OnTree(FsTree)
<1> DEFINE t == FsTree
           now == tree[FsTree]
<1>1. PICK u : \E i \in DOMAIN now.inode : Writes(t, u) /\ Altered(now, u, i)
  BY AttributesMake
<1>2. PICK i \in DOMAIN now.inode : Writes(t, u) /\ Altered(now, u, i)
  BY <1>1
<1>3. /\ Whole(now) /\ Whole(u) /\ t \in Subvol
      /\ Entries[t] = EntriesOf(now) /\ Kinds[t] = KindsOf(now) /\ Attrs[t] = AttrsOf(now)
  BY <1>2, LiveIs, Seen DEF NamesInv, Writes
<1> HIDE DEF now
<1>4. KindsOf(u) = KindsOf(now)
  BY <1>2 DEF KindsOf, Altered
<1>5. EntriesOf(u) = EntriesOf(now)
  BY <1>2 DEF EntriesOf, Entry, Altered
<1>6. AttrsOf(u) = [AttrsOf(now) EXCEPT ![i] = AttrsAt(u, i)]
  <2>1. \A j \in DOMAIN now.inode : j # i => AttrsAt(u, j) = AttrsAt(now, j)
    BY <1>2 DEF Altered, AttrsAt
  <2>2. DOMAIN u.inode = DOMAIN now.inode
    BY <1>2 DEF Altered
  <2>3. /\ AttrsOf(now) = [j \in DOMAIN now.inode |-> AttrsAt(now, j)]
        /\ AttrsOf(u) = [j \in DOMAIN u.inode |-> AttrsAt(u, j)]
    BY AttrsAre
  <2>4. QED
    BY <2>1, <2>2, <2>3
<1>7. /\ Entries' = [Entries EXCEPT ![t] = EntriesOf(u)]
      /\ Kinds' = [Kinds EXCEPT ![t] = KindsOf(u)]
      /\ Attrs' = [Attrs EXCEPT ![t] = AttrsOf(u)]
  BY <1>2, WritesSeen
<1>8. Entries' = Entries /\ Kinds' = Kinds
  BY <1>3, <1>4, <1>5, <1>7 DEF Entries, Kinds
<1>9. i \in DOMAIN Kinds[t] /\ Attrs'[t] = AttrsOf(u) /\ AttrsOf(u)[i] = AttrsAt(u, i)
  <2>1. DOMAIN KindsOf(now) = DOMAIN now.inode /\ DOMAIN AttrsOf(now) = DOMAIN now.inode
    BY AttrsAre
  <2>2. t \in DOMAIN Attrs
    BY <1>3 DEF Attrs
  <2>3. QED
    BY <1>3, <1>6, <1>7, <2>1, <2>2
<1>10. Attrs' = [Attrs EXCEPT ![t][i] = AttrsAt(u, i)]
  BY <1>3, <1>6, <1>7
<1>11. Names!Change(t, i, AttrsAt(u, i))
  BY <1>8, <1>9, <1>10 DEF Names!Change, Entries, Kinds, Attrs
<1>12. Attrs'[t][i] = AttrsAt(u, i)
  BY <1>9
<1>13. QED
  BY <1>9, <1>11, <1>12 DEF Names!OnTree, Kinds, Attrs

(* A subvolume made is an entry of the top level and a tree of its own.      *)
LEMMA AddsSeen ==
  ASSUME NamesInv, NEW d, NEW n, NEW id, NEW items, NEW u, Adds(d, n, id, items, u)
  PROVE  /\ Names!IsDir(FsTree, d) /\ <<d, n>> \notin DOMAIN Entries[FsTree]
         /\ d \in DOMAIN Kinds[FsTree] /\ FsTree \in Subvol /\ id \in Subvol
         /\ Entries' = [Entries EXCEPT
              ![FsTree] = Names!Added(@, <<d, n>>, Names!Subvolume(id)),
              ![id] = EntriesOf(items)]
         /\ Kinds' = [Kinds EXCEPT ![id] = KindsOf(items)]
         /\ Attrs' = [Attrs EXCEPT ![id] = AttrsOf(items)]
<1> DEFINE now == tree[FsTree]
           G == EntriesOf(now)
           b == [dir |-> d, name |-> n, id |-> id, root |-> TRUE]
           e == NewEntry(d, n, id, TRUE, NextDirIndex(now, d))
<1>1. /\ id \in Subvol /\ id \notin Live /\ id # FsTree /\ FreeName(now, d, n)
      /\ Whole(u) /\ Mounted(now, u, e) /\ Unnumbered(e) = b
      /\ tree' = [tree EXCEPT ![FsTree] = u, ![id] = items] /\ Live' = Live \cup {id}
  BY DEF Adds
<1>2. /\ Whole(now) /\ FsTree \in Subvol /\ FsTree \in Live /\ DOMAIN tree = Subvol
      /\ Entries[FsTree] = G /\ Kinds[FsTree] = KindsOf(now) /\ Attrs[FsTree] = AttrsOf(now)
      /\ \A j : Names!IsDir(FsTree, j) <=> IsDir(now, j)
  BY LiveIs, Seen DEF NamesInv
<1>3. b.dir = d /\ b.name = n /\ Meant(b) = Names!Subvolume(id)
  BY DEF Meant, Names!Subvolume
<1> HIDE DEF now, b, e, G
<1>4. u.item = now.item \cup {b} /\ SameInodes(now, u) /\ u.xattr = now.xattr
  BY <1>1 DEF Mounted
<1>5. DOMAIN G = Keys(now.item) /\ \A x \in now.item : G[<<x.dir, x.name>>] = Meant(x)
  BY <1>2, EntriesAre DEF G
<1>6. <<d, n>> \notin DOMAIN G
  BY <1>1, <1>5 DEF FreeName, Entry, Keys
<1>7. EntriesOf(u) = Names!Added(G, <<d, n>>, Names!Subvolume(id))
  <2>1. EntriesOf(u) = Names!Added(G, <<b.dir, b.name>>, Meant(b))
    BY <1>1, <1>4, <1>5, EntriesMore
  <2>2. QED
    BY <1>3, <2>1
<1>8. KindsOf(u) = KindsOf(now) /\ AttrsOf(u) = AttrsOf(now)
  BY <1>4 DEF KindsOf, AttrsOf, SameInodes
<1>9. Names!IsDir(FsTree, d) /\ d \in DOMAIN Kinds[FsTree]
  <2>1. DOMAIN KindsOf(now) = DOMAIN now.inode
    BY AttrsAre
  <2>2. QED
    BY <1>1, <1>2, <2>1 DEF FreeName, IsDir
<1>10. \A s \in Subvol :
         LiveTree(s)' = IF s = FsTree THEN u ELSE IF s = id THEN items ELSE LiveTree(s)
  BY <1>1, <1>2 DEF LiveTree
<1>11. Entries' = [Entries EXCEPT ![FsTree] = EntriesOf(u), ![id] = EntriesOf(items)]
  BY <1>1, <1>2, <1>10 DEF Entries
<1>12. Kinds' = [Kinds EXCEPT ![FsTree] = KindsOf(u), ![id] = KindsOf(items)]
  BY <1>1, <1>2, <1>10 DEF Kinds
<1>13. Attrs' = [Attrs EXCEPT ![FsTree] = AttrsOf(u), ![id] = AttrsOf(items)]
  BY <1>1, <1>2, <1>10 DEF Attrs
<1>14. DOMAIN Entries = Subvol /\ DOMAIN Kinds = Subvol /\ DOMAIN Attrs = Subvol
       /\ Entries = [s \in Subvol |-> Entries[s]] /\ Kinds = [s \in Subvol |-> Kinds[s]]
       /\ Attrs = [s \in Subvol |-> Attrs[s]]
  BY DEF Entries, Kinds, Attrs
<1>15. /\ Kinds' = [Kinds EXCEPT ![id] = KindsOf(items)]
       /\ Attrs' = [Attrs EXCEPT ![id] = AttrsOf(items)]
  BY <1>2, <1>8, <1>12, <1>13, <1>14
<1>16. Entries' = [Entries EXCEPT
              ![FsTree] = Names!Added(@, <<d, n>>, Names!Subvolume(id)),
              ![id] = EntriesOf(items)]
  BY <1>2, <1>7, <1>11, <1>14
<1>17. QED
  BY <1>1, <1>2, <1>6, <1>9, <1>15, <1>16

(* A subvolume made empty.                                                  *)
LEMMA EmptySeen ==
  ASSUME NEW m \in Mode, NEW gen \in Nat
  PROVE  LET u == TopOnly(m, gen)
         IN  /\ EntriesOf(u) = [k \in {} |-> 0] /\ KindsOf(u) = [i \in {Top} |-> "dir"]
             /\ AttrsOf(u) = [i \in {Top} |-> {<<"mode", m>>}]
<1> DEFINE u == TopOnly(m, gen)
<1>1. /\ Whole(u) /\ DOMAIN u.inode = {Top} /\ u.inode[Top] = NewInode("dir", m, gen)
      /\ u.item = {} /\ u.xattr = {}
  BY TopOnlyIs
<1>2. u.inode[Top].kind = "dir" /\ u.inode[Top].mode = m
  BY <1>1 DEF NewInode
<1> HIDE DEF u
<1>3. KindsOf(u) = [i \in {Top} |-> "dir"]
  BY <1>1, <1>2 DEF KindsOf
<1>4. AttrsOf(u) = [i \in {Top} |-> {<<"mode", m>>}]
  <2>1. XattrsOf(u, Top) = {}
    BY <1>1 DEF XattrsOf
  <2>2. AttrsAt(u, Top) = {<<"mode", m>>}
    BY <1>2, <2>1 DEF AttrsAt
  <2>3. AttrsOf(u) = [i \in DOMAIN u.inode |-> AttrsAt(u, i)]
    BY AttrsAre
  <2>4. QED
    BY <1>1, <2>2, <2>3
<1>5. EntriesOf(u) = [k \in {} |-> 0]
  <2> DEFINE F == [k \in {} |-> 0]
  <2>1. DOMAIN F = Keys(u.item) /\ F = [k \in DOMAIN F |-> F[k]]
    BY <1>1 DEF Keys
  <2> HIDE DEF F
  <2>2. EntriesOf(u) = F
    BY <1>1, <2>1, EntriesSo
  <2>3. QED
    BY <2>2 DEF F
<1>6. QED
  BY <1>3, <1>4, <1>5 DEF u

(* Which is what Directories has of a creation and of a snapshot.            *)
LEMMA NewSeen ==
  ASSUME NamesInv, NEW d, NEW n \in Name, NEW id, NEW items, NEW u, Adds(d, n, id, items, u),
         \/ \E m \in Mode : items = TopOnly(m, generation + 1)
         \/ \E source \in Live : items = tree[source]
  PROVE  Names!Next
<1>1. /\ Names!IsDir(FsTree, d) /\ <<d, n>> \notin DOMAIN Entries[FsTree]
      /\ d \in DOMAIN Kinds[FsTree] /\ FsTree \in Subvol /\ id \in Subvol
      /\ Entries' = [Entries EXCEPT
           ![FsTree] = Names!Added(@, <<d, n>>, Names!Subvolume(id)), ![id] = EntriesOf(items)]
      /\ Kinds' = [Kinds EXCEPT ![id] = KindsOf(items)]
      /\ Attrs' = [Attrs EXCEPT ![id] = AttrsOf(items)]
  BY AddsSeen
<1>2. ASSUME NEW like \in Subvol \cup {0}, NEW m \in Mode,
             EntriesOf(items) = IF like = 0 THEN [k \in {} |-> 0] ELSE Entries[like],
             KindsOf(items) = IF like = 0 THEN [i \in {Top} |-> "dir"] ELSE Kinds[like],
             AttrsOf(items) = IF like = 0 THEN [i \in {Top} |-> {<<"mode", m>>}]
                                          ELSE Attrs[like]
      PROVE  Names!Next
  <2>1. Names!NewTree(FsTree, d, n, id, like)
    BY <1>1, <1>2 DEF Names!NewTree, Entries, Kinds, Attrs
  <2>2. QED
    BY <1>1, <2>1 DEF Names!Next, Kinds
<1>3. CASE \E m \in Mode : items = TopOnly(m, generation + 1)
  <2>1. PICK m \in Mode : items = TopOnly(m, generation + 1)
    BY <1>3
  <2>2. generation + 1 \in Nat
    BY DEF NamesInv
  <2>3. /\ EntriesOf(items) = [k \in {} |-> 0] /\ KindsOf(items) = [i \in {Top} |-> "dir"]
        /\ AttrsOf(items) = [i \in {Top} |-> {<<"mode", m>>}]
    BY <2>1, <2>2, EmptySeen
  <2> DEFINE like == 0
  <2>4. like \in Subvol \cup {0} /\ like = 0
    OBVIOUS
  <2> HIDE DEF like
  <2>5. QED
    BY <1>2, <2>3, <2>4
<1>4. CASE \E source \in Live : items = tree[source]
  <2>1. PICK source \in Live : items = tree[source]
    BY <1>4
  <2>2. /\ source \in Subvol /\ Entries[source] = EntriesOf(items)
        /\ Kinds[source] = KindsOf(items) /\ Attrs[source] = AttrsOf(items)
    BY <2>1, Seen DEF NamesInv
  <2>3. source # 0
    BY <2>2, NamespaceAssumption
  <2>4. PICK m \in Mode : TRUE
    <3>1. Whole(items) /\ Top \in DOMAIN items.inode
      BY <2>1, LiveIs DEF NamesInv, Whole, Sound, DirsSound, IsDir
    <3>2. items.inode[Top] \in Inode
      BY <3>1, Fields DEF Whole, Sound
    <3>3. QED
      BY <3>2 DEF Inode
  <2>5. QED
    BY <1>2, <2>2, <2>3, <2>4
<1>5. QED
  BY <1>3, <1>4

(* A deletion takes the entry and shows the subvolume no more.               *)
LEMMA TakesSeen ==
  ASSUME NamesInv, NEW d, NEW n \in Name, NEW id, NEW u, Takes(d, n, id, u)
  PROVE  Names!Next
<1> DEFINE now == tree[FsTree]
           G == EntriesOf(now)
<1>1. PICK x \in now.index :
        x.dir = d /\ x.name = n /\ x.id = id /\ x.root /\ Unmounted(now, u, x)
  BY DEF Takes
<1>2. /\ Whole(u) /\ id \in Live /\ id # FsTree
      /\ tree' = [tree EXCEPT ![FsTree] = u] /\ Live' = Live \ {id}
  BY DEF Takes
<1>3. /\ Whole(now) /\ FsTree \in Subvol /\ FsTree \in Live /\ DOMAIN tree = Subvol
      /\ id \in Subvol
      /\ Entries[FsTree] = G /\ Kinds[FsTree] = KindsOf(now) /\ Attrs[FsTree] = AttrsOf(now)
  BY <1>2, LiveIs, Seen DEF NamesInv
<1> HIDE DEF now
<1> DEFINE b == Unnumbered(x)
<1>4. b \in now.item /\ b.dir = d /\ b.name = n /\ b.id = id /\ b.root
  BY <1>1, <1>3, Indexed DEF Whole, Sound
<1> HIDE DEF b
<1>5. u.item = now.item \ {b} /\ SameInodes(now, u) /\ u.xattr = now.xattr
  BY <1>1 DEF Unmounted, b
<1>6. /\ DOMAIN G = Keys(now.item) /\ <<d, n>> \in DOMAIN G
      /\ G[<<d, n>>].root /\ G[<<d, n>>].id = id
  <2>1. /\ DOMAIN G = Keys(now.item) /\ G[<<b.dir, b.name>>] = Meant(b)
    BY <1>3, <1>4, EntriesAre
  <2> HIDE DEF G
  <2>2. <<b.dir, b.name>> \in DOMAIN G
    BY <1>4, <2>1 DEF Keys
  <2>3. Meant(b).root = b.root /\ Meant(b).id = b.id
    BY DEF Meant
  <2>4. <<b.dir, b.name>> = <<d, n>>
    BY <1>4
  <2>5. G[<<d, n>>].root = b.root
    BY <2>1, <2>3, <2>4
  <2>6. G[<<d, n>>].root
    BY <1>4, <2>5, Zenon
  <2>7. QED
    BY <1>4, <2>1, <2>2, <2>3, <2>4, <2>6
<1>7. EntriesOf(u) = Names!Without(G, {<<d, n>>})
  <2> DEFINE F == Names!Without(G, {<<b.dir, b.name>>})
  <2>1. /\ DOMAIN F = Keys(now.item \ {b}) /\ F = [k \in DOMAIN F |-> F[k]]
        /\ \A e \in now.item \ {b} : F[<<e.dir, e.name>>] = Meant(e)
    BY <1>3, <1>4, EntriesLess
  <2> HIDE DEF F, G
  <2>2. EntriesOf(u) = F
    BY <1>2, <1>5, <2>1, EntriesSo
  <2>3. QED
    BY <1>4, <2>2 DEF F
<1> HIDE DEF G
<1>8. KindsOf(u) = KindsOf(now) /\ AttrsOf(u) = AttrsOf(now)
  BY <1>5 DEF KindsOf, AttrsOf, SameInodes
<1>9. \A s \in Subvol :
        LiveTree(s)' = IF s = FsTree THEN u ELSE IF s = id THEN NoItems ELSE LiveTree(s)
  BY <1>2, <1>3 DEF LiveTree
<1>10. /\ EntriesOf(NoItems) = [k \in {} |-> 0] /\ KindsOf(NoItems) = [k \in {} |-> ""]
       /\ AttrsOf(NoItems) = [k \in {} |-> {}]
  <2> DEFINE none == [i \in {} |-> 0]
  <2>1. DOMAIN none = {}
    OBVIOUS
  <2> HIDE DEF none
  <2>2. NoItems = [inode |-> none, ref |-> {}, ext |-> {}, item |-> {}, index |-> {}, xattr |-> {}]
    BY DEF NoItems, none
  <2>3. NoItems.item = {} /\ DOMAIN NoItems.inode = {}
    BY <2>1, <2>2
  <2>4. QED
    BY <2>3 DEF EntriesOf, KindsOf, AttrsOf
<1>11. /\ Entries' = [Entries EXCEPT ![FsTree] = EntriesOf(u), ![id] = EntriesOf(NoItems)]
       /\ Kinds' = [Kinds EXCEPT ![FsTree] = KindsOf(u), ![id] = KindsOf(NoItems)]
       /\ Attrs' = [Attrs EXCEPT ![FsTree] = AttrsOf(u), ![id] = AttrsOf(NoItems)]
  BY <1>2, <1>3, <1>9 DEF Entries, Kinds, Attrs
<1>12. /\ DOMAIN Entries = Subvol /\ DOMAIN Kinds = Subvol /\ DOMAIN Attrs = Subvol
       /\ Kinds = [s \in Subvol |-> Kinds[s]] /\ Attrs = [s \in Subvol |-> Attrs[s]]
  BY DEF Entries, Kinds, Attrs
<1>13. /\ Kinds' = [Kinds EXCEPT ![id] = KindsOf(NoItems)]
       /\ Attrs' = [Attrs EXCEPT ![id] = AttrsOf(NoItems)]
  BY <1>3, <1>8, <1>11, <1>12
<1>14. Entries' = [Entries EXCEPT ![FsTree] = Names!Without(@, {<<d, n>>}),
                                  ![id] = EntriesOf(NoItems)]
  BY <1>3, <1>7, <1>11, <1>12
<1>15. /\ <<d, n>> \in DOMAIN Entries[FsTree] /\ Entries[FsTree][<<d, n>>].root
       /\ Entries[FsTree][<<d, n>>].id = id
  BY <1>3, <1>6
<1>16. Names!DropTree(FsTree, d, n)
  BY <1>10, <1>13, <1>14, <1>15 DEF Names!DropTree, Entries, Kinds, Attrs
<1>17. d \in DOMAIN Kinds[FsTree]
  <2>1. d \in DOMAIN now.inode
    BY <1>3, <1>4 DEF Whole, Sound, DirsSound, IsDir
  <2>2. DOMAIN KindsOf(now) = DOMAIN now.inode
    BY AttrsAre
  <2>3. QED
    BY <1>3, <2>1, <2>2
<1>18. QED
  BY <1>3, <1>16, <1>17 DEF Names!Next, Kinds

(* What leaves every live tree as it was shows nothing.                      *)
LEMMA RestsSeen ==
  ASSUME NamesInv, Rests
  PROVE  UNCHANGED Names!vars
<1>1. \A s \in Subvol : LiveTree(s)' = LiveTree(s)
  BY DEF Rests, LiveTree
<1>2. QED
  BY <1>1 DEF Names!vars

(* Every call is one step of Directories, or none.                          *)
LEMMA CallSeen ==
  ASSUME NamesInv, Next
  PROVE  Names!Next \/ UNCHANGED Names!vars
<1>1. FsTree \in Live /\ Live \subseteq Subvol
  BY LiveIs DEF NamesInv
<1>2. ASSUME NEW t \in Live, Names!OnTree(t) PROVE Names!Next
  BY <1>1, <1>2 DEF Names!Next
<1>3. ASSUME NEW t \in Live, OnTree(t) PROVE Names!OnTree(t)
  <2>1. PICK d \in DOMAIN tree[t].inode, n \in Name :
          \/ \E k \in load.kinds, m \in Mode : Create(t, d, n, k, m)
          \/ \E i \in DOMAIN tree[t].inode : Link(t, i, d, n)
          \/ \E wantDir \in BOOLEAN : RemoveName(t, d, n, wantDir)
          \/ \E d2 \in DOMAIN tree[t].inode, n2 \in Name : Rename(t, d, n, d2, n2)
    BY <1>3 DEF OnTree
  <2>2. CASE \E k \in load.kinds, m \in Mode : Create(t, d, n, k, m)
    BY <2>2, CreateSeen
  <2>3. CASE \E i \in DOMAIN tree[t].inode : Link(t, i, d, n)
    BY <2>3, LinkSeen
  <2>4. CASE \E wantDir \in BOOLEAN : RemoveName(t, d, n, wantDir)
    BY <2>4, RemoveSeen
  <2>5. CASE \E d2 \in DOMAIN tree[t].inode, n2 \in Name : Rename(t, d, n, d2, n2)
    BY <2>5, RenameSeen
  <2>6. QED
    BY <2>1, <2>2, <2>3, <2>4, <2>5
<1>4. ASSUME NEW d, NEW n \in Name, NEW m \in Mode, CreateSubvolume(d, n, m)
      PROVE  Names!Next
  <2> DEFINE items == TopOnly(m, generation + 1)
  <2>1. Whole(items)
    BY TopOnlyIs DEF NamesInv
  <2>2. NewSubvolume("subvolume", d, n, items, FALSE)
    BY <1>4 DEF CreateSubvolume
  <2> HIDE DEF items
  <2>3. PICK id \in Subvol : \E u : Adds(d, n, id, items, u)
    BY <2>1, <2>2, NewMakes
  <2>4. \E x \in Mode : items = TopOnly(x, generation + 1)
    BY DEF items
  <2>5. QED
    BY <2>3, <2>4, NewSeen
<1>5. ASSUME NEW d, NEW n \in Name, NEW source \in Live, NEW ro \in BOOLEAN,
             CreateSnapshot(source, d, n, ro)
      PROVE  Names!Next
  <2> DEFINE items == tree[source]
  <2>1. Whole(items)
    BY LiveIs DEF NamesInv
  <2>2. NewSubvolume("snapshot", d, n, items, ro)
    BY <1>5 DEF CreateSnapshot
  <2> HIDE DEF items
  <2>3. PICK id \in Subvol : \E u : Adds(d, n, id, items, u)
    BY <2>1, <2>2, NewMakes
  <2>4. \E s \in Live : items = tree[s]
    BY DEF items
  <2>5. QED
    BY <2>3, <2>4, NewSeen
<1>6. ASSUME NEW d, NEW n \in Name, DeleteSubvolume(d, n)
      PROVE  Names!Next
  BY <1>6, DeleteMakes, TakesSeen
<1>7. ASSUME NEW id \in Subvol,
             \/ Clean(id)
             \/ \E ro \in BOOLEAN : SetReadOnly(id, ro)
             \/ SetDefault(id)
      PROVE  UNCHANGED Names!vars
  <2>1. Rests
    BY <1>7, CleanMakes, FlagsMake
  <2>2. QED
    BY <2>1, RestsSeen
<1>8. CASE \E t \in Live : OnTree(t)
  BY <1>2, <1>3, <1>8
<1>9. CASE OnAttributes
  BY <1>1, <1>2, <1>9, AttributesSeen
<1>10. CASE OnSubvolumes
  BY <1>4, <1>5, <1>6, <1>7, <1>10 DEF OnSubvolumes
<1>11. QED
  BY <1>8, <1>9, <1>10 DEF Next

(* And so does no step at all.                                               *)
LEMMA StillSeen ==
  ASSUME UNCHANGED vars
  PROVE  UNCHANGED Names!vars
<1>1. \A s \in Subvol : LiveTree(s)' = LiveTree(s)
  BY DEF vars, rootVars, LiveTree, Live
<1>2. QED
  BY <1>1 DEF Names!vars

\* What every call does to the items of a tree is what Directories says of its
\* names: the call's own change, of that tree and of no other, all at once.
THEOREM CallsAreDirectories == Spec => ImplementsDirectories
<1>1. NamesInv /\ [Next]_vars => [Names!Next]_(Names!vars)
  BY CallSeen, StillSeen
<1>2. QED
  BY <1>1, StartsSo, StaysSo, PTL DEF Spec, ImplementsDirectories, Names!Spec

=============================================================================
