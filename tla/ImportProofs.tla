---------------------------- MODULE ImportProofs ----------------------------
(***************************************************************************)
(* Proofs about Import, for any importers, jobs, private names and trouble *)
(* (failed commits, signals, kills, power cuts, other programs): no name   *)
(* ever shows part of a file, an import changes only what it was asked to, *)
(* and what it leaves behind it has told of.                               *)
(***************************************************************************)
EXTENDS Import, FiniteSetTheorems, SequenceTheorems, TLAPS

\* A private name is a file's, and no other name is that file's.
Placed(v) ==
  \A p \in DOMAIN v.dir : ~Public(p) =>
    KindAt(v, p) = "file" /\ \A q \in DOMAIN v.dir : v.dir[q] = v.dir[p] => q = p

\* What a public name may show.
WholeAt(path, data) ==
  \/ data = <<Theirs>>
  \/ \E i \in Importer : \E j \in FilesOf(i) :
       path \in Shows(around.jobs[i][j].path) /\ data = Source(i, j)

WholeIn(v) ==
  \A path \in DOMAIN v.dir : Public(path) /\ KindAt(v, path) = "file" =>
    WholeAt(path, v.node[v.dir[path]].data)

VolOK(v) == Sound(v) /\ Placed(v) /\ WholeIn(v)

-----------------------------------------------------------------------------
\* Paths and inode numbers.

(* A path's directory.                                                      *)
LEMMA FrontIs ==
  ASSUME NEW s \in Path
  PROVE  /\ Front(s) \in Seq(Name) /\ Len(Front(s)) = Len(s) - 1
         /\ \A i \in 1 .. Len(s) - 1 : Front(s)[i] = s[i]
<1>1. s \in Seq(Name) /\ Len(s) \in Nat \ {0}
  BY DEF Path
<1> DEFINE n == Len(s) - 1
<1>2. n \in Nat /\ 1 \in Int /\ n \in Int
  BY <1>1
<1>3. \A i \in 1 .. n : s[i] \in Name
  BY <1>1
<1> HIDE DEF n
<1>4. /\ SubSeq(s, 1, n) \in Seq(Name)
      /\ Len(SubSeq(s, 1, n)) = IF 1 <= n THEN n - 1 + 1 ELSE 0
      /\ \A i \in 1 .. n - 1 + 1 : SubSeq(s, 1, n)[i] = s[1 + i - 1]
  BY <1>2, <1>3, SubSeqProperties
<1>5. Len(SubSeq(s, 1, n)) = n /\ \A i \in 1 .. n : SubSeq(s, 1, n)[i] = s[i]
  BY <1>2, <1>4
<1>6. Front(s) = SubSeq(s, 1, n)
  BY DEF Front, n
<1>7. QED
  BY <1>4, <1>5, <1>6 DEF n

(* A name beside a path.                                                    *)
LEMMA BesideIs ==
  ASSUME NEW p \in Path, NEW n \in Name
  PROVE  /\ Append(Front(p), n) \in Path
         /\ Last(Append(Front(p), n)) = n
         /\ Front(Append(Front(p), n)) = Front(p)
<1> DEFINE f == Front(p)
           a == Append(f, n)
<1>1. f \in Seq(Name) /\ Len(f) \in Nat
  BY FrontIs
<1> HIDE DEF f
<1>2. /\ a \in Seq(Name) /\ a # <<>> /\ Len(a) = Len(f) + 1
      /\ \A i \in 1 .. Len(f) : a[i] = f[i]
      /\ a[Len(f) + 1] = n
  BY <1>1, AppendProperties
<1> HIDE DEF a
<1>3. a \in Path /\ Last(a) = n
  BY <1>2 DEF Path, Last
<1>4. /\ Front(a) \in Seq(Name) /\ Len(Front(a)) = Len(f)
      /\ \A i \in 1 .. Len(f) : Front(a)[i] = f[i]
  BY <1>1, <1>2, <1>3, FrontIs
<1> DEFINE g == Front(a)
<1>5. /\ g \in Seq(Name) /\ Len(g) = Len(f)
      /\ \A i \in 1 .. Len(g) : g[i] = f[i]
  BY <1>4
<1> HIDE DEF g
<1>6. g = f
  BY <1>1, <1>5, SeqEqual
<1>7. QED
  BY <1>3, <1>6 DEF a, f, g

(* Of finitely many numbers, one is the greatest.                           *)
LEMMA Greatest ==
  ASSUME NEW T \in SUBSET Nat, T # {}, IsFiniteSet(T)
  PROVE  Max(T) \in T /\ \A j \in T : j <= Max(T)
<1>1. SUBSET T = FiniteSubsetsOf(T)
  BY FS_FiniteSubsetsOfFinite
<1> DEFINE seg == [m \in T |-> {j \in T : m <= j}]
           U == {seg[m] : m \in T}
<1>2. /\ \A m \in T : seg[m] \in U /\ seg[m] = {j \in T : m <= j}
      /\ \A x \in U : \E m \in T : x = seg[m]
      /\ U \in SUBSET SUBSET T /\ U # {}
  OBVIOUS
<1> HIDE DEF seg, U
<1>3. PICK x \in U : \A y \in U : ~ (<<y, x>> \in StrictSubsetOrdering(T))
  BY <1>1, <1>2, FS_StrictSubsetOrderingWellFounded, WFMin
<1>4. PICK m \in T : x = seg[m]
  BY <1>2
<1>5. ASSUME NEW j \in T, ~ (j <= m) PROVE FALSE
  <2>1. j \in Nat /\ m \in Nat /\ m < j
    BY <1>5
  <2>2. m \in seg[m] /\ m \notin seg[j]
    BY <1>2, <2>1
  <2>3. \A i \in seg[j] : i \in T /\ i \in Nat /\ j <= i
    BY <1>2
  <2>4. \A i \in seg[j] : i \in seg[m]
    BY <1>2, <2>1, <2>3
  <2>5. <<seg[j], seg[m]>> \in (SUBSET T) \X (SUBSET T) /\ seg[j] \in U
    BY <1>2
  <2>6. <<seg[j], seg[m]>> \in StrictSubsetOrdering(T)
    BY <2>2, <2>4, <2>5 DEF StrictSubsetOrdering
  <2>7. QED
    BY <1>3, <1>4, <2>5, <2>6
<1>6. \E a \in T : \A j \in T : a >= j
  BY <1>5
<1>7. QED
  BY <1>6 DEF Max

(* next_objectid: a new inode's number is nobody's.                         *)
LEMMA NewIno ==
  ASSUME NEW v, Sound(v)
  PROVE  NextIno(v) \in Nat /\ NextIno(v) \notin DOMAIN v.node
<1> DEFINE T == DOMAIN v.node \cup {0}
<1>1. DOMAIN v.node = Range(v.dir) /\ Range(v.dir) \subseteq Nat
  BY DEF Sound, Range
<1>2. T \in SUBSET Nat /\ T # {} /\ IsFiniteSet(T)
  BY <1>1, FS_AddElement DEF Sound
<1> HIDE DEF T
<1>3. Max(T) \in Nat /\ \A j \in T : j <= Max(T)
  BY <1>2, Greatest
<1>4. NextIno(v) = 1 + Max(T)
  BY DEF NextIno, T
<1>5. NextIno(v) \notin T
  BY <1>2, <1>3, <1>4
<1>6. QED
  BY <1>3, <1>4, <1>5 DEF T

-----------------------------------------------------------------------------
\* What the library's calls make of a volume.

(* A name linked.                                                           *)
LEMMA LinkedIs ==
  ASSUME NEW v, Sound(v), NEW path, NEW o \in Nat
  PROVE  LET w == Linked(v, path, o)
         IN  /\ w = [gen |-> v.gen, dir |-> w.dir, node |-> v.node]
             /\ w.gen = v.gen /\ w.node = v.node
             /\ DOMAIN w.dir = DOMAIN v.dir \cup {path}
             /\ w.dir \in [DOMAIN w.dir -> Nat]
             /\ w.dir[path] = o
             /\ \A p \in DOMAIN v.dir : p # path => w.dir[p] = v.dir[p]
<1> DEFINE d == [p \in DOMAIN v.dir \cup {path} |-> IF p = path THEN o ELSE v.dir[p]]
<1>1. v = [gen |-> v.gen, dir |-> v.dir, node |-> v.node] /\ v.dir \in [DOMAIN v.dir -> Nat]
  BY DEF Sound
<1>2. /\ DOMAIN d = DOMAIN v.dir \cup {path} /\ d \in [DOMAIN d -> Nat]
      /\ d[path] = o /\ \A p \in DOMAIN v.dir : p # path => d[p] = v.dir[p]
  BY <1>1
<1>3. Linked(v, path, o) = [v EXCEPT !.dir = d]
  BY DEF Linked
<1> HIDE DEF d
<1>4. Linked(v, path, o) = [gen |-> v.gen, dir |-> d, node |-> v.node]
  BY <1>1, <1>3
<1>5. QED
  BY <1>2, <1>4

(* A name removed, and its inode with the last.                             *)
LEMMA UnlinkedIs ==
  ASSUME NEW v, NEW path,
         v = [gen |-> v.gen, dir |-> v.dir, node |-> v.node],
         v.dir \in [DOMAIN v.dir -> Nat], Range(v.dir) \subseteq DOMAIN v.node
  PROVE  LET w == Unlinked(v, path)
         IN  /\ w = [gen |-> v.gen, dir |-> w.dir, node |-> w.node]
             /\ w.gen = v.gen
             /\ DOMAIN w.dir = DOMAIN v.dir \ {path}
             /\ w.dir \in [DOMAIN w.dir -> Nat]
             /\ \A p \in DOMAIN w.dir : w.dir[p] = v.dir[p]
             /\ DOMAIN w.node = Range(w.dir) /\ Range(w.dir) \subseteq Range(v.dir)
             /\ w.node = [o \in Range(w.dir) |-> v.node[o]]
             /\ \A o \in DOMAIN w.node : o \in DOMAIN v.node /\ w.node[o] = v.node[o]
<1> DEFINE d == [p \in DOMAIN v.dir \ {path} |-> v.dir[p]]
           n == [o \in {o \in DOMAIN v.node : o \in Range(d)} |-> v.node[o]]
<1>1. /\ DOMAIN d = DOMAIN v.dir \ {path} /\ d \in [DOMAIN d -> Nat]
      /\ \A p \in DOMAIN d : d[p] = v.dir[p]
  OBVIOUS
<1>2. Range(d) \subseteq Range(v.dir)
  BY <1>1 DEF Range
<1>3. {o \in DOMAIN v.node : o \in Range(d)} = Range(d)
  BY <1>2
<1>4. n = [o \in Range(d) |-> v.node[o]]
  BY <1>3
<1>5. Unlinked(v, path) = [v EXCEPT !.dir = d, !.node = n]
  BY DEF Unlinked
<1>6. DOMAIN n = Range(d) /\ \A o \in DOMAIN n : o \in DOMAIN v.node /\ n[o] = v.node[o]
  BY <1>2, <1>4
<1> HIDE DEF d, n
<1>7. Unlinked(v, path) = [gen |-> v.gen, dir |-> d, node |-> n]
  BY <1>5
<1>8. QED
  BY <1>1, <1>2, <1>4, <1>6, <1>7

\* A new inode.
Blank(kind) == [kind |-> kind, data |-> <<>>, touched |-> FALSE]

(* A new inode and its name.                                                *)
LEMMA CreatedIs ==
  ASSUME NEW v, Sound(v), NEW path, NEW kind
  PROVE  LET w == Created(v, path, kind)
             o == NextIno(v)
         IN  /\ w = [gen |-> v.gen, dir |-> w.dir, node |-> w.node]
             /\ w.gen = v.gen
             /\ DOMAIN w.dir = DOMAIN v.dir \cup {path}
             /\ w.dir \in [DOMAIN w.dir -> Nat]
             /\ w.dir[path] = o /\ o \in Nat /\ o \notin DOMAIN v.node
             /\ \A p \in DOMAIN v.dir : p # path => w.dir[p] = v.dir[p]
             /\ DOMAIN w.node = DOMAIN v.node \cup {o}
             /\ w.node = [x \in DOMAIN w.node |-> w.node[x]]
             /\ w.node[o] = Blank(kind)
             /\ \A x \in DOMAIN v.node : w.node[x] = v.node[x]
<1> DEFINE o == NextIno(v)
           u == Linked(v, path, o)
           n == [x \in DOMAIN v.node \cup {o} |->
                  IF x = o THEN Blank(kind)
                  ELSE v.node[x]]
<1>1. o \in Nat /\ o \notin DOMAIN v.node
  BY NewIno
<1> HIDE DEF o
<1>2. /\ u = [gen |-> v.gen, dir |-> u.dir, node |-> v.node]
      /\ u.node = v.node
      /\ DOMAIN u.dir = DOMAIN v.dir \cup {path}
      /\ u.dir \in [DOMAIN u.dir -> Nat] /\ u.dir[path] = o
      /\ \A p \in DOMAIN v.dir : p # path => u.dir[p] = v.dir[p]
  BY <1>1, LinkedIs
<1>3. Created(v, path, kind) = [u EXCEPT !.node = n]
  BY <1>2 DEF Created, Blank, o
<1>4. /\ DOMAIN n = DOMAIN v.node \cup {o}
      /\ n = [x \in DOMAIN n |-> n[x]]
      /\ n[o] = Blank(kind)
      /\ \A x \in DOMAIN v.node : n[x] = v.node[x]
  BY <1>1
<1> HIDE DEF u, n
<1>5. Created(v, path, kind) = [gen |-> v.gen, dir |-> u.dir, node |-> n]
  BY <1>2, <1>3
<1>6. QED
  BY <1>1, <1>2, <1>4, <1>5 DEF o

(* What a volume that is one tree has under each name.                      *)
LEMMA SoundIs ==
  ASSUME NEW v, Sound(v)
  PROVE  /\ v = [gen |-> v.gen, dir |-> v.dir, node |-> v.node]
         /\ v.gen \in Nat /\ v.gen # 0 /\ DOMAIN v.dir \subseteq Path
         /\ v.dir \in [DOMAIN v.dir -> Nat]
         /\ DOMAIN v.node = Range(v.dir) /\ IsFiniteSet(Range(v.dir))
         /\ Range(v.dir) \subseteq DOMAIN v.node
         /\ v.node \in [Range(v.dir) -> Node]
         /\ \A p \in DOMAIN v.dir : /\ v.dir[p] \in Range(v.dir) /\ v.dir[p] \in DOMAIN v.node
                                    /\ v.node[v.dir[p]] \in Node
                                    /\ IsDir(v, Front(p))
                                    /\ Front(p) # p
<1>1. \A p \in DOMAIN v.dir : v.dir[p] \in Range(v.dir) /\ IsDir(v, Front(p))
  BY DEF Sound, Range
<1>2. /\ DOMAIN v.dir \subseteq Path /\ DOMAIN v.node = Range(v.dir)
      /\ v.node \in [Range(v.dir) -> Node]
  BY DEF Sound
<1>3. \A p \in Path : Front(p) # p
  <2> SUFFICES ASSUME NEW p \in Path PROVE Front(p) # p
    OBVIOUS
  <2>1. Len(Front(p)) = Len(p) - 1 /\ Len(p) \in Nat
    BY FrontIs DEF Path
  <2>2. QED
    BY <2>1
<1>4. QED
  BY <1>1, <1>2, <1>3 DEF Sound

(* A new entry beside others keeps the tree one.                            *)
LEMMA CreatedSound ==
  ASSUME NEW v, Sound(v), Placed(v), NEW path \in Path, path \notin DOMAIN v.dir,
         IsDir(v, Front(path)), NEW kind \in {"file", "dir", "symlink"},
         ~ Public(path) => kind = "file"
  PROVE  LET w == Created(v, path, kind)
         IN  /\ Sound(w) /\ Placed(w) /\ w.gen = v.gen
             /\ DOMAIN w.dir = DOMAIN v.dir \cup {path}
             /\ w.dir[path] = NextIno(v) /\ NextIno(v) \in Nat
             /\ \A p \in DOMAIN v.dir : /\ p # path /\ w.dir[p] = v.dir[p]
                                        /\ w.node[w.dir[p]] = v.node[v.dir[p]]
             /\ \A o \in DOMAIN v.node : w.node[o] = v.node[o]
             /\ w.node[w.dir[path]] = Blank(kind)
<1> DEFINE w == Created(v, path, kind)
           o == NextIno(v)
           new == Blank(kind)
<1>1. /\ w = [gen |-> v.gen, dir |-> w.dir, node |-> w.node]
      /\ w.gen = v.gen
      /\ DOMAIN w.dir = DOMAIN v.dir \cup {path}
      /\ w.dir \in [DOMAIN w.dir -> Nat]
      /\ w.dir[path] = o /\ o \in Nat /\ o \notin DOMAIN v.node
      /\ \A p \in DOMAIN v.dir : p # path => w.dir[p] = v.dir[p]
      /\ DOMAIN w.node = DOMAIN v.node \cup {o}
      /\ w.node = [x \in DOMAIN w.node |-> w.node[x]]
      /\ w.node[o] = new
      /\ \A x \in DOMAIN v.node : w.node[x] = v.node[x]
  BY CreatedIs
<1>2. new \in Node /\ new.kind = kind
  <2>1. <<>> \in Seq(Byte)
    OBVIOUS
  <2> DEFINE none == <<>>
  <2> HIDE DEF none
  <2>2. none \in Seq(Byte)
    BY <2>1 DEF none
  <2>3. /\ [kind |-> kind, data |-> none, touched |-> FALSE] \in Node
        /\ [kind |-> kind, data |-> none, touched |-> FALSE].kind = kind
    BY <2>2 DEF Node
  <2>4. QED
    BY <2>3 DEF none, Blank
<1> HIDE DEF w, o, new
<1>3. /\ v.gen \in Nat \ {0} /\ DOMAIN v.dir \subseteq Path
      /\ DOMAIN v.node = Range(v.dir) /\ IsFiniteSet(Range(v.dir))
      /\ v.node \in [Range(v.dir) -> Node]
      /\ \A p \in DOMAIN v.dir : v.dir[p] \in DOMAIN v.node /\ IsDir(v, Front(p))
  BY SoundIs
<1>4. Range(w.dir) = Range(v.dir) \cup {o}
  BY <1>1 DEF Range
<1>5. IsFiniteSet(Range(w.dir))
  BY <1>3, <1>4, FS_AddElement
<1>6. w.node \in [Range(w.dir) -> Node] /\ DOMAIN w.node = Range(w.dir)
  BY <1>1, <1>2, <1>3, <1>4
<1>7. /\ \A x \in DOMAIN v.node : w.node[x] = v.node[x]
      /\ \A p \in DOMAIN v.dir : w.dir[p] = v.dir[p] /\ w.node[w.dir[p]] = v.node[v.dir[p]]
      /\ w.node[w.dir[path]] = new
  BY <1>1, <1>3
<1>8. \A p : IsDir(v, p) => IsDir(w, p)
  BY <1>1, <1>7 DEF IsDir, Exists, KindAt
<1>9. Sound(w)
  <2>1. IsDir(w, Front(path)) /\ \A p \in DOMAIN v.dir : IsDir(w, Front(p))
    BY <1>3, <1>8
  <2>2. \A p \in DOMAIN w.dir : IsDir(w, Front(p))
    BY <1>1, <2>1
  <2>3. w.gen \in Nat \ {0} /\ DOMAIN w.dir \subseteq Path
    BY <1>1, <1>3
  <2>4. QED
    BY <1>1, <1>5, <1>6, <2>2, <2>3 DEF Sound
<1>10. Placed(w)
  <2> SUFFICES ASSUME NEW p \in DOMAIN w.dir, ~ Public(p)
               PROVE  /\ KindAt(w, p) = "file"
                      /\ \A q \in DOMAIN w.dir : w.dir[q] = w.dir[p] => q = p
    BY DEF Placed
  <2>1. CASE p = path
    BY <1>1, <1>2, <1>3, <1>7, <2>1 DEF KindAt
  <2>2. CASE p # path
    BY <1>1, <1>3, <1>7, <2>2 DEF KindAt, Placed
  <2>3. QED
    BY <2>1, <2>2
<1>11. QED
  BY <1>1, <1>7, <1>9, <1>10 DEF w, new, o

(* Nor does a name removed that nothing is under.                           *)
LEMMA UnlinkedSound ==
  ASSUME NEW v, Sound(v), Placed(v), NEW path, \A p \in DOMAIN v.dir : Front(p) # path
  PROVE  LET w == Unlinked(v, path)
         IN  /\ Sound(w) /\ Placed(w)
             /\ w.gen = v.gen
             /\ DOMAIN w.dir = DOMAIN v.dir \ {path}
             /\ \A p \in DOMAIN w.dir : /\ w.dir[p] = v.dir[p]
                                        /\ w.node[w.dir[p]] = v.node[v.dir[p]]
             /\ \A o \in DOMAIN w.node : o \in DOMAIN v.node /\ w.node[o] = v.node[o]
             /\ \A p : IsDir(v, p) /\ p # path => IsDir(w, p)
<1> DEFINE w == Unlinked(v, path)
<1>1. /\ v = [gen |-> v.gen, dir |-> v.dir, node |-> v.node]
      /\ v.gen \in Nat \ {0} /\ DOMAIN v.dir \subseteq Path
      /\ v.dir \in [DOMAIN v.dir -> Nat] /\ Range(v.dir) \subseteq DOMAIN v.node
      /\ IsFiniteSet(Range(v.dir)) /\ v.node \in [Range(v.dir) -> Node]
      /\ \A p \in DOMAIN v.dir : IsDir(v, Front(p))
  BY SoundIs
<1>2. /\ w = [gen |-> v.gen, dir |-> w.dir, node |-> w.node]
      /\ w.gen = v.gen
      /\ DOMAIN w.dir = DOMAIN v.dir \ {path}
      /\ w.dir \in [DOMAIN w.dir -> Nat]
      /\ \A p \in DOMAIN w.dir : w.dir[p] = v.dir[p]
      /\ DOMAIN w.node = Range(w.dir) /\ Range(w.dir) \subseteq Range(v.dir)
      /\ w.node = [o \in Range(w.dir) |-> v.node[o]]
      /\ \A o \in DOMAIN w.node : o \in DOMAIN v.node /\ w.node[o] = v.node[o]
  BY <1>1, UnlinkedIs
<1> HIDE DEF w
<1>3. \A p \in DOMAIN w.dir : w.dir[p] \in DOMAIN w.node /\ w.node[w.dir[p]] = v.node[v.dir[p]]
  BY <1>2 DEF Range
<1>4. \A p : IsDir(v, p) /\ p # path => IsDir(w, p)
  BY <1>2, <1>3 DEF IsDir, Exists, KindAt
<1>5. IsFiniteSet(Range(w.dir)) /\ w.node \in [Range(w.dir) -> Node]
  BY <1>1, <1>2, FS_Subset
<1>6. Sound(w)
  BY <1>1, <1>2, <1>4, <1>5 DEF Sound
<1>7. Placed(w)
  BY <1>2, <1>3 DEF Placed, KindAt
<1>8. QED
  BY <1>2, <1>3, <1>4, <1>6, <1>7 DEF w

(* A second name of what has a public one.                                  *)
LEMMA LinkedSound ==
  ASSUME NEW v, Sound(v), Placed(v), NEW path \in Path, path \notin DOMAIN v.dir,
         IsDir(v, Front(path)), Public(path), NEW of \in DOMAIN v.dir, Public(of)
  PROVE  LET w == Linked(v, path, v.dir[of])
         IN  /\ Sound(w) /\ Placed(w) /\ w.gen = v.gen
             /\ DOMAIN w.dir = DOMAIN v.dir \cup {path}
             /\ \A p \in DOMAIN v.dir : w.dir[p] = v.dir[p]
             /\ w.dir[path] = v.dir[of] /\ w.node = v.node
<1> DEFINE o == v.dir[of]
           w == Linked(v, path, o)
<1>1. /\ v.gen \in Nat \ {0} /\ DOMAIN v.dir \subseteq Path
      /\ v.dir \in [DOMAIN v.dir -> Nat]
      /\ DOMAIN v.node = Range(v.dir) /\ IsFiniteSet(Range(v.dir))
      /\ v.node \in [Range(v.dir) -> Node]
      /\ \A p \in DOMAIN v.dir : v.dir[p] \in DOMAIN v.node /\ IsDir(v, Front(p))
      /\ o \in Nat /\ o \in Range(v.dir)
  BY SoundIs
<1>2. \A p \in DOMAIN v.dir : ~ Public(p) => v.dir[p] # o
  BY DEF Placed
<1> HIDE DEF o
<1>3. /\ w = [gen |-> v.gen, dir |-> w.dir, node |-> v.node]
      /\ w.gen = v.gen /\ w.node = v.node
      /\ DOMAIN w.dir = DOMAIN v.dir \cup {path}
      /\ w.dir \in [DOMAIN w.dir -> Nat]
      /\ w.dir[path] = o
      /\ \A p \in DOMAIN v.dir : p # path => w.dir[p] = v.dir[p]
  BY <1>1, LinkedIs
<1> HIDE DEF w
<1>4. Range(w.dir) = Range(v.dir)
  BY <1>1, <1>3 DEF Range
<1>5. \A p : IsDir(v, p) => IsDir(w, p)
  BY <1>3 DEF IsDir, Exists, KindAt
<1>6. \A p \in DOMAIN w.dir : IsDir(w, Front(p))
  BY <1>1, <1>3, <1>5
<1>7. Sound(w)
  BY <1>1, <1>3, <1>4, <1>6 DEF Sound
<1>8. Placed(w)
  BY <1>2, <1>3 DEF Placed, KindAt
<1>9. QED
  BY <1>3, <1>7, <1>8 DEF w, o

\* An inode changed.
Put(v, o, n) == [v EXCEPT !.node = [@ EXCEPT ![o] = n]]

(* An inode changed, its kind kept.                                         *)
LEMMA NodeSound ==
  ASSUME NEW v, Sound(v), Placed(v), NEW o \in DOMAIN v.node, NEW n \in Node,
         n.kind = v.node[o].kind
  PROVE  LET w == Put(v, o, n)
         IN  /\ Sound(w) /\ Placed(w) /\ w.gen = v.gen /\ w.dir = v.dir
             /\ DOMAIN w.node = DOMAIN v.node /\ w.node[o] = n
             /\ \A x \in DOMAIN v.node : x # o => w.node[x] = v.node[x]
<1> DEFINE m == [v.node EXCEPT ![o] = n]
           w == Put(v, o, n)
<1>1. /\ v = [gen |-> v.gen, dir |-> v.dir, node |-> v.node]
      /\ v.gen \in Nat \ {0} /\ DOMAIN v.dir \subseteq Path
      /\ v.dir \in [DOMAIN v.dir -> Nat]
      /\ DOMAIN v.node = Range(v.dir) /\ IsFiniteSet(Range(v.dir))
      /\ v.node \in [Range(v.dir) -> Node]
      /\ \A p \in DOMAIN v.dir : v.dir[p] \in DOMAIN v.node /\ IsDir(v, Front(p))
  BY SoundIs
<1>2. /\ m \in [Range(v.dir) -> Node] /\ DOMAIN m = DOMAIN v.node /\ m[o] = n
      /\ \A x \in DOMAIN v.node : x # o => m[x] = v.node[x]
      /\ \A x \in DOMAIN v.node : m[x].kind = v.node[x].kind
  BY <1>1
<1>3. w = [gen |-> v.gen, dir |-> v.dir, node |-> m]
  BY <1>1 DEF Put
<1> HIDE DEF m
<1> HIDE DEF w
<1>4. \A p : IsDir(v, p) => IsDir(w, p)
  BY <1>1, <1>2, <1>3 DEF IsDir, Exists, KindAt
<1>5. Sound(w)
  BY <1>1, <1>2, <1>3, <1>4 DEF Sound
<1>6. Placed(w)
  BY <1>1, <1>2, <1>3 DEF Placed, KindAt
<1>7. QED
  BY <1>2, <1>3, <1>5, <1>6 DEF w, m

\* What a volume w holds when the file named from in v has been renamed to to.
RenamedInto(v, w, from, to) ==
  /\ Sound(w) /\ Placed(w) /\ w.gen = v.gen
  /\ DOMAIN w.dir = (DOMAIN v.dir \cup {to}) \ {from}
  /\ \A p \in DOMAIN v.dir : p \notin {from, to} => w.dir[p] = v.dir[p]
  /\ w.dir[to] = v.dir[from]
  /\ \A x \in DOMAIN w.node : x \in DOMAIN v.node /\ w.node[x] = v.node[x]
  /\ \A p \in DOMAIN w.dir : w.dir[p] \in DOMAIN w.node

(* A private name that becomes a public one, which then is of that inode.   *)
LEMMA RenamedSound ==
  ASSUME NEW v, Sound(v), Placed(v), NEW from \in DOMAIN v.dir, ~ Public(from),
         NEW to \in Path, Public(to), IsDir(v, Front(to)),
         to \in DOMAIN v.dir => KindAt(v, to) = "file"
  PROVE  RenamedInto(v, Renamed(v, from, to), from, to)
<1> DEFINE o == v.dir[from]
           u == Linked(v, to, o)
           w == Unlinked(u, from)
<1>1. /\ v.gen \in Nat \ {0} /\ DOMAIN v.dir \subseteq Path
      /\ v.dir \in [DOMAIN v.dir -> Nat]
      /\ DOMAIN v.node = Range(v.dir) /\ IsFiniteSet(Range(v.dir))
      /\ v.node \in [Range(v.dir) -> Node]
      /\ \A p \in DOMAIN v.dir : v.dir[p] \in DOMAIN v.node /\ IsDir(v, Front(p))
      /\ o \in Nat /\ o \in Range(v.dir)
  BY SoundIs
<1>2. /\ KindAt(v, from) = "file"
      /\ \A p \in DOMAIN v.dir : ~ Public(p) /\ p # from => v.dir[p] # o
      /\ from # to
  BY DEF Placed
<1> HIDE DEF o
<1>3. /\ u = [gen |-> v.gen, dir |-> u.dir, node |-> v.node]
      /\ u.gen = v.gen /\ u.node = v.node
      /\ DOMAIN u.dir = DOMAIN v.dir \cup {to}
      /\ u.dir \in [DOMAIN u.dir -> Nat]
      /\ u.dir[to] = o
      /\ \A p \in DOMAIN v.dir : p # to => u.dir[p] = v.dir[p]
  BY <1>1, LinkedIs
<1> HIDE DEF u
<1>4. Range(u.dir) \subseteq Range(v.dir)
  BY <1>1, <1>3 DEF Range
<1>5. /\ w = [gen |-> u.gen, dir |-> w.dir, node |-> w.node]
      /\ w.gen = u.gen
      /\ DOMAIN w.dir = DOMAIN u.dir \ {from}
      /\ w.dir \in [DOMAIN w.dir -> Nat]
      /\ \A p \in DOMAIN w.dir : w.dir[p] = u.dir[p]
      /\ DOMAIN w.node = Range(w.dir) /\ Range(w.dir) \subseteq Range(u.dir)
      /\ w.node = [x \in Range(w.dir) |-> u.node[x]]
      /\ \A x \in DOMAIN w.node : x \in DOMAIN u.node /\ w.node[x] = u.node[x]
  BY <1>1, <1>3, <1>4, UnlinkedIs
<1> HIDE DEF w
<1>6. /\ DOMAIN w.dir = (DOMAIN v.dir \cup {to}) \ {from}
      /\ \A p \in DOMAIN v.dir : p \notin {from, to} => w.dir[p] = v.dir[p]
      /\ w.dir[to] = o
  BY <1>2, <1>3, <1>5
<1>7. /\ \A p \in DOMAIN w.dir : w.dir[p] \in DOMAIN w.node
      /\ \A x \in DOMAIN w.node : x \in DOMAIN v.node /\ w.node[x] = v.node[x]
  BY <1>3, <1>5 DEF Range
<1>8. IsFiniteSet(Range(w.dir)) /\ w.node \in [Range(w.dir) -> Node]
  <2>1. Range(w.dir) \subseteq Range(v.dir)
    BY <1>4, <1>5
  <2>2. QED
    BY <1>1, <1>3, <1>5, <2>1, FS_Subset
<1>9. \A p : IsDir(v, p) => IsDir(w, p)
  <2> SUFFICES ASSUME NEW p, IsDir(v, p), p # <<>>
               PROVE  IsDir(w, p)
    BY DEF IsDir
  <2>1. p \in DOMAIN v.dir /\ KindAt(v, p) = "dir"
    BY DEF IsDir, Exists
  <2>2. p # from /\ p # to
    BY <1>2, <2>1
  <2>3. p \in DOMAIN w.dir /\ w.dir[p] = v.dir[p] /\ w.node[w.dir[p]] = v.node[v.dir[p]]
    BY <1>6, <1>7, <2>1, <2>2
  <2>4. QED
    BY <2>1, <2>3 DEF IsDir, Exists, KindAt
<1>10. \A p \in DOMAIN w.dir : IsDir(w, Front(p))
  BY <1>1, <1>6, <1>9
<1>11. Sound(w)
  <2>1. w.gen \in Nat \ {0} /\ DOMAIN w.dir \subseteq Path
    BY <1>1, <1>3, <1>5, <1>6
  <2>2. w = [gen |-> w.gen, dir |-> w.dir, node |-> w.node]
    BY <1>5
  <2>3. QED
    BY <1>5, <1>8, <1>10, <2>1, <2>2 DEF Sound
<1>12. Placed(w)
  <2> SUFFICES ASSUME NEW p \in DOMAIN w.dir, ~ Public(p)
               PROVE  /\ KindAt(w, p) = "file"
                      /\ \A q \in DOMAIN w.dir : w.dir[q] = w.dir[p] => q = p
    BY DEF Placed
  <2>1. p \in DOMAIN v.dir /\ p \notin {from, to} /\ w.dir[p] = v.dir[p] /\ v.dir[p] # o
    BY <1>2, <1>6
  <2>2. KindAt(v, p) = "file" /\ \A q \in DOMAIN v.dir : v.dir[q] = v.dir[p] => q = p
    BY <2>1 DEF Placed
  <2>3. QED
    BY <1>6, <1>7, <2>1, <2>2 DEF KindAt
<1>13. RenamedInto(v, w, from, to)
  BY <1>3, <1>5, <1>6, <1>7, <1>11, <1>12 DEF o, RenamedInto
<1>14. w = Renamed(v, from, to)
  BY DEF w, u, o, Renamed
<1>15. QED
  BY <1>13, <1>14

-----------------------------------------------------------------------------
\* The inductive invariant.

Staging(m) == m.phase \in {"write", "persisted", "publish"}
Prefix(i, j, n) == [k \in 1 .. n |-> <<i, j, k>>]
Follows(g, i, j, at) == \A k \in 1 .. Len(g) : g[k] = <<i, j, at + k>>

\* What an import is at: what it staged has a private name of its own, and
\* what it gathered is the next of the source.
ShapeOf(i, m) ==
  /\ m \in [job : Nat \ {0}, phase : Phases, rw : {m.rw},
            staged : [path : Seq(Name), name : Seq(Name), ino : Nat],
            gathered : Seq(Byte), at : Nat, counter : Nat, stuck : {m.stuck}]
  /\ m.job <= Len(around.jobs[i]) + 1
  /\ m.phase \notin {"next", "killed"} => m.job <= Len(around.jobs[i])
  /\ m.phase \in {"next", "killed"} => m.staged = NotStaged
  /\ m.phase = "killed" => m.rw = NoMount
  /\ Len(m.gathered) < Gathered
  /\ m.phase \notin {"write", "abort"} => m.gathered = <<>>
  /\ m.phase \in {"next", "killed", "publish"} => m.at = 0
  /\ m.staged # NotStaged => m.staged.name \in Path /\ IsPartial(m.staged.name, i)
  /\ Staging(m) => /\ m.staged # NotStaged
                   /\ around.jobs[i][m.job].op = "file"
                   /\ m.staged.path = around.jobs[i][m.job].path
  /\ m.phase = "write" =>
       /\ m.rw # NoMount
       /\ Exists(m.rw, m.staged.name) /\ m.rw.dir[m.staged.name] = m.staged.ino
       /\ m.at + Len(m.gathered) <= around.jobs[i][m.job].len
       /\ Follows(m.gathered, i, m.job, m.at)

\* The staged file, if it is still there, has what was written to it.
HeldOf(i, m, v) ==
  Staging(m) /\ Exists(v, m.staged.name) =>
    v.node[v.dir[m.staged.name]].data =
      Prefix(i, m.job, IF m.phase = "write" THEN m.at ELSE around.jobs[i][m.job].len)

\* A mount that is not stale shows the volume.
MountOf(i, m, v) ==
  /\ m.rw.gen \in Nat
  /\ m.phase # "killed" /\ m.job <= Len(around.jobs[i]) =>
       m.rw.gen <= v.gen /\ (m.rw.gen = v.gen => m.rw = v)
  /\ around.cuts = 0 => m.rw.gen <= v.gen

\* What StraysTold says of an import.
ToldOf(i, m, v, f) ==
  around.cuts = 0 => \A path \in DOMAIN v.dir : IsPartial(path, i) =>
    path = m.staged.name \/ path \in m.stuck \/ Range(f) \cap {"next", "killed"} # {}

AroundOK ==
  /\ around \in [jobs : {around.jobs}, bound : Nat, others : Nat, cuts : Nat]
  /\ around.jobs \in [Importer -> Seq(Job)]
  /\ \A i \in Importer : \A k \in 1 .. Len(around.jobs[i]) :
       LET j == around.jobs[i][k]
       IN  /\ j \in Job /\ Public(j.path)
           /\ j.op = "link" => j.of \in Path /\ Public(j.of)

IInv ==
  /\ AroundOK
  /\ VolOK(vol)
  /\ was = Settled \/ (VolOK(was) /\ was.gen < vol.gen)
  /\ imp \in [Importer -> {imp[i] : i \in Importer}]
  /\ faults \in [Importer -> Seq(Phases)]
  /\ \A i \in Importer : /\ ShapeOf(i, imp[i])
                         /\ HeldOf(i, imp[i], vol)
                         /\ MountOf(i, imp[i], vol)
                         /\ ToldOf(i, imp[i], vol, faults[i])

-----------------------------------------------------------------------------
\* What a step of an import does.

\* The private names of k that w has, v had, for the same bytes.
Keeps(k, v, w) ==
  \A p \in DOMAIN w.dir : IsPartial(p, k) =>
    p \in DOMAIN v.dir /\ w.node[w.dir[p]].data = v.node[v.dir[p]].data

\* A volume import i may make of the one there is.
MayMake(i, w) ==
  /\ VolOK(w) /\ w.gen = vol.gen
  /\ \A k \in Importer \ {i} : Keeps(k, vol, w)
  /\ AskedOf(i, w)

Effect(i) ==
  /\ UNCHANGED around
  /\ imp' \in [Importer -> {imp'[k] : k \in Importer}]
  /\ faults' \in [Importer -> Seq(Phases)]
  /\ \A k \in Importer \ {i} :
       imp'[k] = imp[k] /\ faults'[k] = faults[k] /\ Keeps(k, vol, vol')
  /\ \/ vol' = vol /\ was' = was
     \/ vol'.gen = vol.gen + 1 /\ VolOK(vol') /\ was' \in {Settled, vol}
  /\ ShapeOf(i, imp'[i])
  /\ HeldOf(i, imp'[i], vol')
  /\ MountOf(i, imp'[i], vol')
  /\ ToldOf(i, imp'[i], vol', faults'[i])
  /\ AskedOf(i, vol')

(* What is whole depends on the jobs alone.                                 *)
LEMMA JobsSame ==
  ASSUME around'.jobs = around.jobs
  PROVE  /\ \A path, data : WholeAt(path, data)' <=> WholeAt(path, data)
         /\ \A v : VolOK(v)' <=> VolOK(v)
         /\ \A i, m : ShapeOf(i, m)' <=> ShapeOf(i, m)
         /\ \A i, m, v : HeldOf(i, m, v)' <=> HeldOf(i, m, v)
<1>1. Targets' = Targets /\ Links' = Links
  BY DEF Targets, Links
<1>2. \A path : Shows(path)' = Shows(path)
  BY <1>1 DEF Shows
<1>3. /\ \A i \in Importer : FilesOf(i)' = FilesOf(i)
      /\ \A i, j : Source(i, j)' = Source(i, j)
  BY DEF FilesOf, Source
<1>4. \A path, data : WholeAt(path, data)' <=> WholeAt(path, data)
  BY <1>2, <1>3 DEF WholeAt
<1>5. \A v : VolOK(v)' <=> VolOK(v)
  BY <1>4 DEF VolOK, WholeIn
<1>6. \A i, m : ShapeOf(i, m)' <=> ShapeOf(i, m)
  BY DEF ShapeOf
<1>7. \A i, m, v : HeldOf(i, m, v)' <=> HeldOf(i, m, v)
  BY DEF HeldOf
<1>8. QED
  BY <1>4, <1>5, <1>6, <1>7

(* A step of one import leaves the others what they were.                   *)
LEMMA EffectKeeps ==
  ASSUME ImportAssumption, IInv, NEW i \in Importer, Effect(i)
  PROVE  IInv'
<1>1. around' = around
  BY DEF Effect
<1>2. AroundOK'
  BY <1>1 DEF IInv, AroundOK
<1>3. /\ VolOK(vol)' <=> VolOK(vol')
      /\ VolOK(was)' <=> VolOK(was')
      /\ \A k \in Importer : /\ ShapeOf(k, imp[k])' <=> ShapeOf(k, imp'[k])
                             /\ HeldOf(k, imp[k], vol)' <=> HeldOf(k, imp'[k], vol')
  BY <1>1, JobsSame
<1>4. vol.gen \in Nat /\ VolOK(vol)
  BY SoundIs DEF IInv, VolOK
<1>5. VolOK(vol') /\ (vol' = vol \/ vol'.gen = vol.gen + 1)
  BY <1>4 DEF Effect
<1>6. was' = Settled \/ (VolOK(was') /\ was'.gen < vol'.gen)
  <2>1. CASE vol' = vol /\ was' = was
    BY <2>1 DEF IInv
  <2>2. CASE vol'.gen = vol.gen + 1 /\ was' = Settled
    BY <2>2
  <2>3. CASE vol'.gen = vol.gen + 1 /\ was' = vol
    <3>1. was'.gen < vol'.gen
      BY <1>4, <2>3
    <3>2. QED
      BY <1>4, <2>3, <3>1
  <2>4. QED
    BY <2>1, <2>2, <2>3 DEF Effect
<1>7. ASSUME NEW k \in Importer \ {i}
      PROVE  /\ ShapeOf(k, imp'[k]) /\ HeldOf(k, imp'[k], vol')
             /\ MountOf(k, imp'[k], vol') /\ ToldOf(k, imp'[k], vol', faults'[k])
  <2> DEFINE m == imp[k]
  <2>1. imp'[k] = m /\ faults'[k] = faults[k] /\ Keeps(k, vol, vol')
    BY <1>7 DEF Effect
  <2>2. ShapeOf(k, m) /\ HeldOf(k, m, vol) /\ MountOf(k, m, vol) /\ ToldOf(k, m, vol, faults[k])
    BY <1>7 DEF IInv
  <2> HIDE DEF m
  <2>3. HeldOf(k, m, vol')
    <3>1. Staging(m) => IsPartial(m.staged.name, k)
      BY <2>2 DEF ShapeOf
    <3>2. QED
      BY <2>1, <2>2, <3>1 DEF HeldOf, Keeps, Exists
  <2>4. MountOf(k, m, vol')
    <3>1. CASE vol' = vol
      BY <2>2, <3>1
    <3>2. CASE vol'.gen = vol.gen + 1
      BY <1>4, <2>2, <3>2 DEF MountOf
    <3>3. QED
      BY <1>5, <3>1, <3>2
  <2>5. ToldOf(k, m, vol', faults[k])
    BY <2>1, <2>2 DEF ToldOf, Keeps
  <2>6. QED
    BY <2>1, <2>2, <2>3, <2>4, <2>5
<1>8. /\ ShapeOf(i, imp'[i]) /\ HeldOf(i, imp'[i], vol')
      /\ MountOf(i, imp'[i], vol') /\ ToldOf(i, imp'[i], vol', faults'[i])
  BY DEF Effect
<1>9. \A k \in Importer : /\ ShapeOf(k, imp'[k]) /\ HeldOf(k, imp'[k], vol')
                          /\ MountOf(k, imp'[k], vol') /\ ToldOf(k, imp'[k], vol', faults'[k])
  BY <1>7, <1>8
<1>10. \A k \in Importer : /\ MountOf(k, imp'[k], vol') => MountOf(k, imp[k], vol)'
                           /\ ToldOf(k, imp'[k], vol', faults'[k]) =>
                                ToldOf(k, imp[k], vol, faults[k])'
  BY <1>1 DEF MountOf, ToldOf
<1>11. imp' \in [Importer -> {imp'[k] : k \in Importer}] /\ faults' \in [Importer -> Seq(Phases)]
  BY DEF Effect
<1>12. QED
  BY <1>2, <1>3, <1>5, <1>6, <1>9, <1>10, <1>11 DEF IInv

-----------------------------------------------------------------------------
\* A call's outcomes.

(* What the invariant says of one import and of the volume.                 *)
LEMMA AtOne ==
  ASSUME IInv, NEW i \in Importer
  PROVE  /\ ShapeOf(i, imp[i]) /\ HeldOf(i, imp[i], vol) /\ MountOf(i, imp[i], vol)
         /\ ToldOf(i, imp[i], vol, faults[i])
         /\ faults[i] \in Seq(Phases) /\ imp[i].phase \in Phases
         /\ imp[i].job \in Nat \ {0} /\ imp[i].job <= Len(around.jobs[i]) + 1
         /\ around.jobs[i] \in Seq(Job) /\ Len(around.jobs[i]) \in Nat
         /\ VolOK(vol) /\ vol.gen \in Nat /\ vol.gen # 0
         /\ vol = [gen |-> vol.gen, dir |-> vol.dir, node |-> vol.node]
         /\ imp = [k \in Importer |-> imp[k]] /\ faults = [k \in Importer |-> faults[k]]
<1>1. /\ ShapeOf(i, imp[i]) /\ HeldOf(i, imp[i], vol) /\ MountOf(i, imp[i], vol)
      /\ ToldOf(i, imp[i], vol, faults[i]) /\ VolOK(vol)
      /\ imp \in [Importer -> {imp[k] : k \in Importer}] /\ faults \in [Importer -> Seq(Phases)]
      /\ AroundOK
  BY DEF IInv
<1>2. around.jobs[i] \in Seq(Job) /\ Len(around.jobs[i]) \in Nat
  BY <1>1 DEF AroundOK
<1>3. imp[i].phase \in Phases /\ imp[i].job \in Nat \ {0} /\ imp[i].job <= Len(around.jobs[i]) + 1
  BY <1>1 DEF ShapeOf
<1>4. /\ vol.gen \in Nat /\ vol.gen # 0
      /\ vol = [gen |-> vol.gen, dir |-> vol.dir, node |-> vol.node]
  BY <1>1, SoundIs DEF VolOK
<1>5. QED
  BY <1>1, <1>2, <1>3, <1>4

(* A commit counts the generation up, and is otherwise what was made.       *)
LEMMA Committed ==
  ASSUME IInv, NEW w, VolOK(w), w.gen = vol.gen
  PROVE  /\ Next1(w).gen = vol.gen + 1 /\ Next1(w).dir = w.dir /\ Next1(w).node = w.node
         /\ VolOK(Next1(w))
<1> DEFINE x == Next1(w)
<1>1. /\ w = [gen |-> w.gen, dir |-> w.dir, node |-> w.node]
      /\ vol.gen \in Nat
  BY SoundIs DEF VolOK, IInv
<1>2. x = [gen |-> vol.gen + 1, dir |-> w.dir, node |-> w.node]
  BY <1>1 DEF Next1
<1> HIDE DEF x
<1>3. x.gen = vol.gen + 1 /\ x.dir = w.dir /\ x.node = w.node
  BY <1>2
<1>4. \A p : IsDir(x, p) <=> IsDir(w, p)
  BY <1>3 DEF IsDir, Exists, KindAt
<1>5. Sound(x)
  <2>1. x.gen \in Nat \ {0}
    BY <1>1, <1>3
  <2>2. x = [gen |-> x.gen, dir |-> x.dir, node |-> x.node]
    BY <1>2, <1>3
  <2>3. QED
    BY <1>3, <1>4, <2>1, <2>2 DEF VolOK, Sound
<1>6. Placed(x) /\ WholeIn(x)
  BY <1>3 DEF VolOK, Placed, WholeIn, KindAt
<1>7. QED
  BY <1>3, <1>5, <1>6 DEF VolOK, x

(* A fault more is a fault told of.                                         *)
LEMMA Worse ==
  ASSUME NEW f \in Seq(Phases), NEW x \in Phases
  PROVE  /\ Append(f, x) \in Seq(Phases) /\ x \in Range(Append(f, x))
         /\ Range(f) \subseteq Range(Append(f, x))
<1> DEFINE g == Append(f, x)
<1>1. /\ g \in Seq(Phases) /\ Len(g) = Len(f) + 1 /\ Len(f) \in Nat
      /\ \A k \in 1 .. Len(f) : g[k] = f[k]
      /\ g[Len(f) + 1] = x
      /\ DOMAIN f = 1 .. Len(f) /\ DOMAIN g = 1 .. Len(g)
  BY AppendProperties, LenProperties
<1> HIDE DEF g
<1>2. x \in Range(g) /\ Range(f) \subseteq Range(g)
  BY <1>1 DEF Range
<1>3. QED
  BY <1>1, <1>2 DEF g

(* A call that changed nothing, or none.                                    *)
LEMMA FailsEffect ==
  ASSUME IInv, NEW i \in Importer, NEW m, Fails(i, m), UNCHANGED around,
         ShapeOf(i, m), HeldOf(i, m, vol), MountOf(i, m, vol), ToldOf(i, m, vol, faults[i])
  PROVE  Effect(i)
<1>1. /\ vol' = vol /\ was' = was /\ faults' = faults /\ around' = around
      /\ imp' = [imp EXCEPT ![i] = m]
  BY DEF Fails
<1>2. faults \in [Importer -> Seq(Phases)] /\ imp \in [Importer -> {imp[k] : k \in Importer}]
  BY DEF IInv
<1>3. /\ imp'[i] = m /\ \A k \in Importer \ {i} : imp'[k] = imp[k]
      /\ imp' \in [Importer -> {imp'[k] : k \in Importer}]
  BY <1>1, <1>2
<1>4. \A k \in Importer : Keeps(k, vol, vol)
  BY DEF Keeps
<1>5. AskedOf(i, vol)
  BY DEF AskedOf
<1>6. /\ HeldOf(i, imp'[i], vol') /\ MountOf(i, imp'[i], vol')
      /\ ToldOf(i, imp'[i], vol', faults'[i]) /\ ShapeOf(i, imp'[i]) /\ AskedOf(i, vol')
  BY <1>1, <1>3, <1>5
<1>7. QED
  BY <1>1, <1>2, <1>3, <1>4, <1>6 DEF Effect

(* A volume made and committed.                                             *)
LEMMA MadeEffect ==
  ASSUME IInv, NEW i \in Importer, NEW m, NEW w, MayMake(i, w), UNCHANGED around,
         vol' = Next1(w), was' \in {Settled, vol}, imp' = [imp EXCEPT ![i] = m],
         faults' \in [Importer -> Seq(Phases)],
         \A k \in Importer \ {i} : faults'[k] = faults[k],
         m.rw \in {NoMount, vol'},
         ShapeOf(i, m), HeldOf(i, m, w), ToldOf(i, m, w, faults'[i])
  PROVE  Effect(i)
<1>1. VolOK(w) /\ w.gen = vol.gen
  BY DEF MayMake
<1>2. /\ vol'.gen = vol.gen + 1 /\ vol'.dir = w.dir /\ vol'.node = w.node /\ VolOK(vol')
  BY <1>1, Committed
<1>3. vol.gen \in Nat /\ vol.gen # 0
  BY AtOne
<1>4. imp \in [Importer -> {imp[k] : k \in Importer}]
  BY DEF IInv
<1>5. /\ imp'[i] = m /\ \A k \in Importer \ {i} : imp'[k] = imp[k]
      /\ imp' \in [Importer -> {imp'[k] : k \in Importer}]
  BY <1>4
<1>6. \A k \in Importer \ {i} : Keeps(k, vol, vol')
  BY <1>2 DEF MayMake, Keeps
<1>7. AskedOf(i, vol')
  BY <1>2 DEF MayMake, AskedOf
<1>8. HeldOf(i, m, vol') /\ ToldOf(i, m, vol', faults'[i])
  BY <1>2 DEF HeldOf, ToldOf, Exists
<1>9. MountOf(i, m, vol')
  <2>1. CASE m.rw = NoMount
    <3>1. m.rw.gen = 0
      BY <2>1 DEF NoMount
    <3>2. QED
      BY <1>2, <1>3, <3>1 DEF MountOf
  <2>2. CASE m.rw = vol'
    BY <1>2, <1>3, <2>2 DEF MountOf
  <2>3. QED
    BY <2>1, <2>2
<1>10. QED
  BY <1>2, <1>5, <1>6, <1>7, <1>8, <1>9 DEF Effect

(* A mount no other handle has committed past shows the volume.             *)
LEMMA Current ==
  ASSUME IInv, NEW i \in Importer, ~Ended(i), ~Stale(i)
  PROVE  imp[i].rw = vol
<1>1. MountOf(i, imp[i], vol) /\ imp[i].phase # "killed" /\ imp[i].job <= Len(around.jobs[i])
  BY AtOne DEF Ended
<1>2. imp[i].rw.gen \in Nat /\ vol.gen \in Nat /\ ~(imp[i].rw.gen < vol.gen)
  BY <1>1, AtOne DEF MountOf, Stale
<1>3. QED
  BY <1>1, <1>2 DEF MountOf

(* An import that gave up still knows what it staged.                       *)
LEMMA Drops ==
  ASSUME ImportAssumption, IInv, NEW i \in Importer, ~Ended(i),
         NEW m, \/ m = Dropped(i)
                \/ m = [[imp[i] EXCEPT !.counter = @ + 1] EXCEPT !.rw = NoMount, !.phase = "abort"]
                   /\ imp[i].gathered = <<>>
  PROVE  /\ ShapeOf(i, m) /\ MountOf(i, m, vol) /\ m.rw = NoMount
         /\ \A v : HeldOf(i, m, v)
         /\ \A v, f : ToldOf(i, imp[i], v, f) => ToldOf(i, m, v, f)
<1> DEFINE a == imp[i]
<1>1. ShapeOf(i, a) /\ vol.gen \in Nat /\ a.phase # "killed" /\ a.job <= Len(around.jobs[i])
  BY AtOne DEF Ended
<1>2. 0 < Gathered /\ Len(<<>>) = 0 /\ <<>> \in Seq(Byte)
  BY DEF ImportAssumption
<1>3. /\ a \in [job : Nat \ {0}, phase : Phases, rw : {a.rw},
                staged : [path : Seq(Name), name : Seq(Name), ino : Nat],
                gathered : Seq(Byte), at : Nat, counter : Nat, stuck : {a.stuck}]
      /\ a.job <= Len(around.jobs[i]) + 1
      /\ a.staged # NotStaged => a.staged.name \in Path /\ IsPartial(a.staged.name, i)
  BY <1>1 DEF ShapeOf
<1> DEFINE n == IF m = Dropped(i) THEN a.counter ELSE a.counter + 1
<1>4. m = [a EXCEPT !.rw = NoMount, !.gathered = <<>>, !.phase = "abort", !.counter = n]
  <2>1. CASE m = Dropped(i)
    BY <1>3, <2>1 DEF Dropped
  <2>2. CASE m # Dropped(i)
    BY <1>3, <2>2
  <2>3. QED
    BY <2>1, <2>2
<1>5. n \in Nat
  BY <1>3
<1> HIDE DEF n
<1> DEFINE none == <<>>
<1>6. /\ m \in [job : Nat \ {0}, phase : {"abort"}, rw : {NoMount},
                staged : [path : Seq(Name), name : Seq(Name), ino : Nat],
                gathered : {none}, at : Nat, counter : Nat, stuck : {a.stuck}]
      /\ m.job = a.job /\ m.staged = a.staged /\ m.stuck = a.stuck /\ m.phase = "abort"
      /\ m.rw = NoMount /\ m.gathered = none
  <2> HIDE DEF none, a
  <2>1. m = [a EXCEPT !.rw = NoMount, !.gathered = none, !.phase = "abort", !.counter = n]
    BY <1>4 DEF none
  <2>2. QED
    BY <1>3, <1>5, <2>1
<1> HIDE DEF a, none
<1>7. none \in Seq(Byte) /\ Len(none) < Gathered
  BY <1>2 DEF none
<1>8. "abort" \in Phases
  BY DEF Phases
<1>9. m \in [job : Nat \ {0}, phase : Phases, rw : {m.rw},
             staged : [path : Seq(Name), name : Seq(Name), ino : Nat],
             gathered : Seq(Byte), at : Nat, counter : Nat, stuck : {m.stuck}]
  BY <1>6, <1>7, <1>8
<1>10. ShapeOf(i, m)
  BY <1>1, <1>3, <1>6, <1>7, <1>9 DEF ShapeOf, Staging
<1>11. m.rw.gen = 0
  BY <1>6 DEF NoMount
<1>12. MountOf(i, m, vol)
  <2>1. vol.gen # 0
    BY AtOne
  <2>2. QED
    BY <1>1, <1>11, <2>1 DEF MountOf
<1>13. \A v : HeldOf(i, m, v)
  BY <1>6 DEF HeldOf, Staging
<1>14. \A v, f : ToldOf(i, a, v, f) => ToldOf(i, m, v, f)
  BY <1>6 DEF ToldOf
<1>15. QED
  BY <1>6, <1>10, <1>12, <1>13, <1>14 DEF a

(* An error and nothing done.                                               *)
LEMMA DropEffect ==
  ASSUME ImportAssumption, IInv, NEW i \in Importer, ~Ended(i), UNCHANGED around,
         Fails(i, Dropped(i))
  PROVE  Effect(i)
<1>1. /\ ShapeOf(i, Dropped(i)) /\ MountOf(i, Dropped(i), vol) /\ HeldOf(i, Dropped(i), vol)
      /\ ToldOf(i, Dropped(i), vol, faults[i])
  BY Drops, AtOne
<1>2. QED
  BY <1>1, FailsEffect

(* A commit that failed late: the volume is as asked, the import aborts.    *)
LEMMA FailsLateEffect ==
  ASSUME ImportAssumption, IInv, NEW i \in Importer, UNCHANGED around,
         NEW m, NEW new, FailsLate(i, m, new), MayMake(i, new), m.rw = NoMount,
         ShapeOf(i, m), HeldOf(i, m, new),
         ToldOf(i, m, new, faults[i]) \/ imp[i].phase = "next"
  PROVE  Effect(i)
<1> DEFINE g == Append(faults[i], imp[i].phase)
<1>1. /\ vol' = Next1(new) /\ was' = vol /\ imp' = [imp EXCEPT ![i] = m]
      /\ faults' = [faults EXCEPT ![i] = g]
  BY DEF FailsLate
<1>2. /\ g \in Seq(Phases) /\ imp[i].phase \in Range(g) /\ Range(faults[i]) \subseteq Range(g)
  BY AtOne, Worse
<1> HIDE DEF g
<1>3. faults \in [Importer -> Seq(Phases)]
  BY DEF IInv
<1>4. /\ faults' \in [Importer -> Seq(Phases)] /\ faults'[i] = g
      /\ \A k \in Importer \ {i} : faults'[k] = faults[k]
  BY <1>1, <1>2, <1>3
<1>5. ToldOf(i, m, new, g)
  BY <1>2 DEF ToldOf
<1>6. QED
  BY <1>1, <1>4, <1>5, MadeEffect

(* A call, whichever way it ends.                                           *)
LEMMA CallEffect ==
  ASSUME ImportAssumption, IInv, NEW i \in Importer, ~Ended(i), UNCHANGED around,
         NEW me, NEW new, Call(i, me, new),
         NEW after,
         after = [me EXCEPT !.rw = IF me.phase = "persisted" THEN NoMount ELSE Next1(new)],
         ~Stale(i) => /\ MayMake(i, new)
                      /\ ShapeOf(i, after) /\ HeldOf(i, after, new)
                      /\ ToldOf(i, after, new, faults[i]) /\ ToldOf(i, imp[i], new, faults[i])
  PROVE  Effect(i)
<1>1. CASE Succeeds(i, me, new)
  <2>1. /\ ~Stale(i) /\ vol' = Next1(new) /\ was' = Settled /\ faults' = faults
        /\ imp' = [imp EXCEPT ![i] = after]
    BY <1>1 DEF Succeeds
  <2>2. faults \in [Importer -> Seq(Phases)]
    BY DEF IInv
  <2>3. after.rw \in {NoMount, vol'}
    <3>1. "rw" \in DOMAIN after
      BY <2>1 DEF ShapeOf
    <3>2. after.rw = IF me.phase = "persisted" THEN NoMount ELSE Next1(new)
      BY <3>1
    <3>3. QED
      BY <2>1, <3>2
  <2>4. QED
    BY <2>1, <2>2, <2>3, MadeEffect
<1>2. CASE FailsLate(i, Dropped(i), new)
  <2>1. ~Stale(i)
    BY <1>2 DEF FailsLate
  <2>2. /\ ShapeOf(i, Dropped(i)) /\ HeldOf(i, Dropped(i), new) /\ Dropped(i).rw = NoMount
        /\ ToldOf(i, Dropped(i), new, faults[i])
    BY <2>1, Drops
  <2>3. QED
    BY <1>2, <2>1, <2>2, FailsLateEffect
<1>3. CASE Fails(i, Dropped(i))
  BY <1>3, DropEffect
<1>4. QED
  BY <1>1, <1>2, <1>3 DEF Call

-----------------------------------------------------------------------------
\* The volumes an import may make.

(* Nobody has another's private names.                                      *)
LEMMA NamesApart ==
  ASSUME ImportAssumption, NEW i \in Importer, NEW k \in Importer \ {i}, NEW p, IsPartial(p, i)
  PROVE  ~ IsPartial(p, k)
  BY DEF ImportAssumption, IsPartial

(* What a private name has is whatever nobody else has.                     *)
LEMMA NothingUnder ==
  ASSUME NEW v, Sound(v), Placed(v), NEW p \in DOMAIN v.dir, ~ Public(p)
  PROVE  \A q \in DOMAIN v.dir : Front(q) # p
<1>1. KindAt(v, p) = "file" /\ p # <<>>
  BY SoundIs DEF Placed, Path
<1>2. \A q \in DOMAIN v.dir : IsDir(v, Front(q))
  BY SoundIs
<1>3. QED
  BY <1>1, <1>2 DEF IsDir

(* A directory or a symbolic link, or a staged file.                        *)
LEMMA MayCreate ==
  ASSUME ImportAssumption, IInv, NEW i \in Importer,
         NEW path \in Path, path \notin DOMAIN vol.dir, IsDir(vol, Front(path)),
         NEW kind \in {"file", "dir", "symlink"},
         kind = "file" => IsPartial(path, i), kind # "file" => Public(path)
  PROVE  LET w == Created(vol, path, kind)
         IN  /\ MayMake(i, w)
             /\ path \in DOMAIN w.dir /\ w.dir[path] = NextIno(vol)
             /\ NextIno(vol) \in Nat
             /\ w.node[w.dir[path]].data = <<>>
             /\ \A p \in DOMAIN w.dir : p = path \/ p \in DOMAIN vol.dir
<1> DEFINE v == vol
           w == Created(v, path, kind)
           o == NextIno(v)
<1>1. Sound(v) /\ Placed(v) /\ WholeIn(v) /\ path \notin DOMAIN v.dir /\ IsDir(v, Front(path))
  BY DEF IInv, VolOK
<1>2. ~ Public(path) => kind = "file"
  OBVIOUS
<1> HIDE DEF v
<1>3. /\ Sound(w) /\ Placed(w)
      /\ \A p \in DOMAIN v.dir : /\ p # path /\ w.dir[p] = v.dir[p]
                                 /\ w.node[w.dir[p]] = v.node[v.dir[p]]
      /\ \A x \in DOMAIN v.node : w.node[x] = v.node[x]
      /\ w.node[w.dir[path]] = Blank(kind)
  BY <1>1, <1>2, CreatedSound
<1>4. /\ w.gen = v.gen /\ DOMAIN w.dir = DOMAIN v.dir \cup {path}
      /\ w.dir[path] = o /\ o \in Nat
  BY <1>1, <1>2, CreatedSound
<1> HIDE DEF w, o
<1>5. KindAt(w, path) = kind /\ w.node[w.dir[path]].data = <<>>
  BY <1>3 DEF KindAt, Blank
<1>6. kind = "file" => ~ Public(path)
  BY DEF Public
<1>7. WholeIn(w)
  <2> SUFFICES ASSUME NEW p \in DOMAIN w.dir, Public(p), KindAt(w, p) = "file"
               PROVE  WholeAt(p, w.node[w.dir[p]].data)
    BY DEF WholeIn
  <2>1. p \in DOMAIN v.dir
    BY <1>4, <1>5, <1>6
  <2>2. QED
    BY <1>1, <1>3, <2>1 DEF WholeIn, KindAt
<1>8. ASSUME NEW k \in Importer \ {i} PROVE Keeps(k, v, w)
  <2>1. ~ IsPartial(path, k)
    BY NamesApart DEF Public
  <2>2. QED
    BY <1>3, <1>4, <2>1 DEF Keeps
<1>9. AskedOf(i, w)
  BY <1>3, <1>4 DEF AskedOf, v
<1>10. QED
  BY <1>1, <1>3, <1>4, <1>5, <1>7, <1>8, <1>9 DEF MayMake, VolOK, v, w, o

(* An inode of its own written to, or touched.                              *)
LEMMA MayChange ==
  ASSUME ImportAssumption, IInv, NEW i \in Importer,
         NEW o \in DOMAIN vol.node, NEW n \in Node, n.kind = vol.node[o].kind,
         \/ n.data = vol.node[o].data
         \/ /\ Exists(vol, imp[i].staged.name) /\ IsPartial(imp[i].staged.name, i)
            /\ vol.dir[imp[i].staged.name] = o
  PROVE  LET w == Put(vol, o, n)
         IN  MayMake(i, w) /\ w.dir = vol.dir /\ w.node[o] = n
<1> DEFINE v == vol
           w == Put(vol, o, n)
           s == imp[i].staged.name
<1>1. Sound(v) /\ Placed(v) /\ WholeIn(v)
  BY DEF IInv, VolOK
<1>2. /\ Sound(w) /\ Placed(w) /\ w.gen = v.gen /\ w.dir = v.dir
      /\ DOMAIN w.node = DOMAIN v.node /\ w.node[o] = n
      /\ \A x \in DOMAIN v.node : x # o => w.node[x] = v.node[x]
  BY <1>1, NodeSound
<1> HIDE DEF w
<1>3. /\ \A p \in DOMAIN v.dir : v.dir[p] \in DOMAIN v.node
      /\ \A x \in DOMAIN v.node : w.node[x].kind = v.node[x].kind
  BY <1>1, <1>2, SoundIs
<1>4. ASSUME NEW p \in DOMAIN v.dir, Public(p) \/ \E k \in Importer \ {i} : IsPartial(p, k)
      PROVE  w.node[w.dir[p]].data = v.node[v.dir[p]].data
  <2>1. CASE n.data = v.node[o].data
    BY <1>2, <1>3, <2>1
  <2>2. CASE Exists(v, s) /\ IsPartial(s, i) /\ v.dir[s] = o
    <3>1. ~ Public(s) /\ p # s
      BY <1>4, <2>2, NamesApart DEF Public
    <3>2. v.dir[p] # o
      BY <1>1, <2>2, <3>1 DEF Placed, Exists
    <3>3. QED
      BY <1>2, <1>3, <3>2
  <2>3. QED
    BY <2>1, <2>2
<1>5. WholeIn(w)
  BY <1>1, <1>2, <1>3, <1>4 DEF WholeIn, KindAt
<1>6. \A k \in Importer \ {i} : Keeps(k, v, w)
  BY <1>2, <1>4 DEF Keeps
<1>7. AskedOf(i, w)
  BY <1>2 DEF AskedOf
<1>8. QED
  BY <1>2, <1>5, <1>6, <1>7 DEF MayMake, VolOK, w

(* What may be shown under a name may be under a link to it.                *)
LEMMA LinkShows ==
  ASSUME NEW i \in Importer, NEW j \in Range(around.jobs[i]), j.op = "link", NEW data,
         WholeAt(j.of, data)
  PROVE  WholeAt(j.path, data)
<1>1. j \in Links /\ j.path \in Targets
  BY DEF Links, Targets
<1>2. \A p : j.of \in Shows(p) => j.path \in Shows(p)
  BY <1>1 DEF Shows
<1>3. QED
  BY <1>2 DEF WholeAt

(* What is imported for a name may be shown under it.                       *)
LEMMA OwnShows ==
  ASSUME NEW i \in Importer, NEW j \in DOMAIN around.jobs[i], around.jobs[i][j].op = "file"
  PROVE  WholeAt(around.jobs[i][j].path, Source(i, j))
<1> DEFINE p == around.jobs[i][j].path
<1>1. around.jobs[i][j] \in Range(around.jobs[i])
  BY DEF Range
<1>2. p \in Targets /\ j \in FilesOf(i)
  BY <1>1 DEF Targets, FilesOf
<1>3. p \in Shows(p)
  BY <1>2 DEF Shows
<1>4. QED
  BY <1>2, <1>3 DEF WholeAt

(* Another name for a public one.                                           *)
LEMMA MayLink ==
  ASSUME ImportAssumption, IInv, NEW i \in Importer, NEW j \in Range(around.jobs[i]),
         j.op = "link", j.path \in Path, Public(j.path), Public(j.of),
         j.of \in DOMAIN vol.dir, j.path \notin DOMAIN vol.dir, IsDir(vol, Front(j.path))
  PROVE  LET w == Linked(vol, j.path, vol.dir[j.of])
         IN  MayMake(i, w) /\ \A p \in DOMAIN w.dir : Public(p) \/ p \in DOMAIN vol.dir
<1> DEFINE v == vol
           w == Linked(v, j.path, v.dir[j.of])
<1>1. Sound(v) /\ Placed(v) /\ WholeIn(v)
  BY DEF IInv, VolOK
<1>2. /\ Sound(w) /\ Placed(w) /\ w.gen = v.gen
      /\ DOMAIN w.dir = DOMAIN v.dir \cup {j.path}
      /\ \A p \in DOMAIN v.dir : w.dir[p] = v.dir[p]
      /\ w.dir[j.path] = v.dir[j.of] /\ w.node = v.node
  BY <1>1, LinkedSound
<1> HIDE DEF w
<1>3. WholeIn(w)
  <2> SUFFICES ASSUME NEW p \in DOMAIN w.dir, Public(p), KindAt(w, p) = "file"
               PROVE  WholeAt(p, w.node[w.dir[p]].data)
    BY DEF WholeIn
  <2>1. CASE p \in DOMAIN v.dir
    BY <1>1, <1>2, <2>1 DEF WholeIn, KindAt
  <2>2. CASE p = j.path
    <3>1. WholeAt(j.of, w.node[w.dir[p]].data)
      BY <1>1, <1>2, <2>2 DEF WholeIn, KindAt
    <3>2. QED
      BY <2>2, <3>1, LinkShows
  <2>3. QED
    BY <1>2, <2>1, <2>2
<1>4. \A k \in Importer : Keeps(k, v, w)
  BY <1>2 DEF Keeps, Public
<1>5. AskedOf(i, w)
  BY <1>2 DEF AskedOf
<1>6. QED
  BY <1>2, <1>3, <1>4, <1>5 DEF MayMake, VolOK, w

(* The staged name removed.                                                 *)
LEMMA MayUnlink ==
  ASSUME ImportAssumption, IInv, NEW i \in Importer,
         NEW p \in DOMAIN vol.dir, IsPartial(p, i)
  PROVE  LET w == Unlinked(vol, p)
         IN  MayMake(i, w) /\ \A q \in DOMAIN w.dir : q # p /\ q \in DOMAIN vol.dir
<1> DEFINE v == vol
           w == Unlinked(v, p)
<1>1. Sound(v) /\ Placed(v) /\ WholeIn(v) /\ ~ Public(p)
  BY DEF IInv, VolOK, Public
<1>2. /\ Sound(w) /\ Placed(w)
      /\ w.gen = v.gen
      /\ DOMAIN w.dir = DOMAIN v.dir \ {p}
      /\ \A q \in DOMAIN w.dir : w.dir[q] = v.dir[q] /\ w.node[w.dir[q]] = v.node[v.dir[q]]
      /\ \A o \in DOMAIN w.node : o \in DOMAIN v.node /\ w.node[o] = v.node[o]
  BY <1>1, NothingUnder, UnlinkedSound
<1> HIDE DEF w
<1>3. WholeIn(w)
  BY <1>1, <1>2 DEF WholeIn, KindAt
<1>4. \A k \in Importer : Keeps(k, v, w)
  BY <1>2 DEF Keeps
<1>5. AskedOf(i, w)
  BY <1>2 DEF AskedOf
<1>6. QED
  BY <1>2, <1>3, <1>4, <1>5 DEF MayMake, VolOK, w

(* The staged file under the name it is for.                                *)
LEMMA MayRename ==
  ASSUME ImportAssumption, IInv, NEW i \in Importer,
         ~Ended(i), JobOf(i).op = "file", NEW to \in Path, to = JobOf(i).path, Public(to),
         NEW from \in DOMAIN vol.dir, from = imp[i].staged.name, IsPartial(from, i),
         vol.node[vol.dir[from]].data = Source(i, imp[i].job),
         IsDir(vol, Front(to)), ~Taken(i, to), ~Stale(i)
  PROVE  LET w == Renamed(vol, from, to)
         IN  MayMake(i, w) /\ \A q \in DOMAIN w.dir : Public(q) \/ (q # from /\ q \in DOMAIN vol.dir)
<1> DEFINE v == vol
           w == Renamed(v, from, to)
<1>1. Sound(v) /\ Placed(v) /\ WholeIn(v) /\ ~ Public(from)
  BY DEF IInv, VolOK, Public
<1>2. /\ to \in DOMAIN v.dir => KindAt(v, to) = "file" /\ i \in Replace
      /\ KindAt(v, from) = "file" /\ v.dir[from] \in DOMAIN v.node
  <2>1. imp[i].rw = v
    BY Current
  <2>2. KindAt(v, from) = "file" /\ v.dir[from] \in DOMAIN v.node
    BY <1>1, SoundIs DEF Placed
  <2>3. QED
    BY <2>1, <2>2 DEF Taken, Exists
<1>3. imp[i].job \in DOMAIN around.jobs[i] /\ JobOf(i) = around.jobs[i][imp[i].job]
      /\ v.node[v.dir[from]].data = Source(i, imp[i].job)
  <2>1. imp[i].job \in Nat \ {0} /\ imp[i].job <= Len(around.jobs[i])
    BY AtOne DEF Ended
  <2>2. DOMAIN around.jobs[i] = 1 .. Len(around.jobs[i]) /\ Len(around.jobs[i]) \in Nat
    BY AtOne, LenProperties
  <2>3. imp[i].job \in DOMAIN around.jobs[i]
    BY <2>1, <2>2
  <2>4. QED
    BY <2>3 DEF JobOf
<1>4. WholeAt(to, Source(i, imp[i].job))
  BY <1>3, OwnShows
<1>5. to \in Path /\ Public(to) /\ IsDir(v, Front(to)) /\ from \in DOMAIN v.dir
  OBVIOUS
<1> HIDE DEF v
<1>5a. RenamedInto(v, w, from, to)
  BY <1>1, <1>2, <1>5, RenamedSound
<1> HIDE DEF w
<1>6. /\ Sound(w) /\ Placed(w) /\ w.gen = v.gen
      /\ DOMAIN w.dir = (DOMAIN v.dir \cup {to}) \ {from}
      /\ \A p \in DOMAIN v.dir : p \notin {from, to} => w.dir[p] = v.dir[p]
      /\ w.dir[to] = v.dir[from]
      /\ \A x \in DOMAIN w.node : x \in DOMAIN v.node /\ w.node[x] = v.node[x]
      /\ \A p \in DOMAIN w.dir : w.dir[p] \in DOMAIN w.node
  BY <1>5a DEF RenamedInto
<1>7. from # to /\ to \in DOMAIN w.dir
  BY <1>1, <1>5, <1>6
<1>8. \A p \in DOMAIN w.dir :
        p # to => /\ p \in DOMAIN v.dir /\ w.dir[p] = v.dir[p]
                  /\ w.node[w.dir[p]] = v.node[v.dir[p]]
  BY <1>6
<1>9. w.node[w.dir[to]].data = Source(i, imp[i].job)
  BY <1>3, <1>6, <1>7
<1>10. WholeIn(w)
  <2> SUFFICES ASSUME NEW p \in DOMAIN w.dir, Public(p), KindAt(w, p) = "file"
               PROVE  WholeAt(p, w.node[w.dir[p]].data)
    BY DEF WholeIn
  <2>1. CASE p = to
    BY <1>4, <1>9, <2>1
  <2>2. CASE p # to
    BY <1>1, <1>8, <2>2 DEF WholeIn, KindAt
  <2>3. QED
    BY <2>1, <2>2
<1>11. \A k \in Importer : Keeps(k, v, w)
  BY <1>5, <1>8 DEF Keeps, Public, v
<1>12. AskedOf(i, w)
  <2>1. ASSUME NEW p \in DOMAIN v.dir, ~ IsPartial(p, i)
        PROVE  /\ p \in DOMAIN w.dir
               /\ \/ w.dir[p] = v.dir[p]
                  \/ i \in Replace /\ KindAt(v, p) = "file" /\ p = JobOf(i).path
                     /\ w.node[w.dir[p]].data = Source(i, imp[i].job)
    <3>1. p # from /\ p \in DOMAIN w.dir
      BY <1>6, <2>1
    <3>2. CASE p = to
      BY <1>2, <1>5, <1>9, <2>1, <3>1, <3>2
    <3>3. CASE p # to
      BY <1>8, <3>1, <3>3
    <3>4. QED
      BY <3>1, <3>2, <3>3
  <2>2. QED
    BY <1>6, <2>1 DEF AskedOf, v
<1>13. \A q \in DOMAIN w.dir : Public(q) \/ (q # from /\ q \in DOMAIN v.dir)
  BY <1>5, <1>6
<1>14. QED
  BY <1>6, <1>10, <1>11, <1>12, <1>13 DEF MayMake, VolOK, v, w

-----------------------------------------------------------------------------
\* The entries of a tree.

(* The job an import is at.                                                 *)
LEMMA JobIs ==
  ASSUME IInv, NEW i \in Importer, ~Ended(i)
  PROVE  /\ imp[i].phase # "killed" /\ imp[i].job <= Len(around.jobs[i])
         /\ imp[i].job \in DOMAIN around.jobs[i] /\ JobOf(i) = around.jobs[i][imp[i].job]
         /\ JobOf(i) \in Range(around.jobs[i]) /\ JobOf(i).len \in Nat
         /\ JobOf(i).path \in Path /\ Public(JobOf(i).path)
         /\ JobOf(i).op = "link" => JobOf(i).of \in Path /\ Public(JobOf(i).of)
<1>1. /\ imp[i].phase # "killed" /\ imp[i].job <= Len(around.jobs[i]) /\ imp[i].job \in Nat \ {0}
      /\ around.jobs[i] \in Seq(Job) /\ Len(around.jobs[i]) \in Nat
  BY AtOne DEF Ended
<1>2. imp[i].job \in 1 .. Len(around.jobs[i]) /\ DOMAIN around.jobs[i] = 1 .. Len(around.jobs[i])
  BY <1>1, LenProperties
<1>3. JobOf(i) = around.jobs[i][imp[i].job]
  BY DEF JobOf
<1>4. /\ JobOf(i) \in Job /\ Public(JobOf(i).path)
      /\ JobOf(i).op = "link" => JobOf(i).of \in Path /\ Public(JobOf(i).of)
  BY <1>2, <1>3 DEF IInv, AroundOK
<1>5. JobOf(i).path \in Path /\ JobOf(i).len \in Nat
  BY <1>4 DEF Job
<1>6. QED
  BY <1>1, <1>2, <1>3, <1>4, <1>5 DEF Range

(* An import with a job behind it.                                          *)
LEMMA OverIs ==
  ASSUME ImportAssumption, IInv, NEW i \in Importer, ~Ended(i), NEW rw, NEW stuck,
         NEW none, none = <<>>,
         NEW m, m = [job |-> imp[i].job + 1, phase |-> "next", rw |-> rw, staged |-> NotStaged,
                     gathered |-> none, at |-> 0, counter |-> imp[i].counter, stuck |-> stuck]
  PROVE  ShapeOf(i, m) /\ \A v : HeldOf(i, m, v)
<1>1. ShapeOf(i, imp[i]) /\ imp[i].job \in Nat \ {0} /\ Len(around.jobs[i]) \in Nat
  BY AtOne
<1>2. imp[i].job <= Len(around.jobs[i])
  BY JobIs
<1>3. imp[i].counter \in Nat
  BY <1>1 DEF ShapeOf
<1>4. <<>> \in Seq(Name) /\ <<>> \in Seq(Byte) /\ Len(<<>>) = 0
  OBVIOUS
<1>5. 0 < Gathered /\ Len(none) = 0 /\ none \in Seq(Byte) /\ none \in Seq(Name)
  BY <1>4 DEF ImportAssumption
<1>6. NotStaged = [path |-> none, name |-> none, ino |-> 0]
  BY DEF NotStaged
<1>7. NotStaged \in [path : Seq(Name), name : Seq(Name), ino : Nat]
  BY <1>5, <1>6
<1>8. "next" \in Phases
  BY DEF Phases
<1>9. /\ m \in [job : Nat \ {0}, phase : Phases, rw : {m.rw},
             staged : [path : Seq(Name), name : Seq(Name), ino : Nat],
             gathered : Seq(Byte), at : Nat, counter : Nat, stuck : {m.stuck}]
      /\ m.job = imp[i].job + 1 /\ m.phase = "next" /\ m.staged = NotStaged
      /\ m.gathered = none /\ m.at = 0
  BY <1>1, <1>3, <1>5, <1>7, <1>8
<1>10. ShapeOf(i, m)
  <2>1. m.job <= Len(around.jobs[i]) + 1 /\ Len(m.gathered) < Gathered
    BY <1>1, <1>2, <1>5, <1>9
  <2>2. QED
    BY <1>9, <2>1 DEF ShapeOf, Staging
<1>11. \A v : HeldOf(i, m, v)
  BY <1>9 DEF HeldOf, Staging
<1>12. QED
  BY <1>10, <1>11

(* No private name new, none left that was not told of.                     *)
LEMMA StillTold ==
  ASSUME NEW i \in Importer, NEW m, NEW n, NEW f, NEW w, ToldOf(i, m, vol, f),
         n.stuck = m.stuck,
         \/ /\ n.staged.name = m.staged.name
            /\ \A p \in DOMAIN w.dir : Public(p) \/ p \in DOMAIN vol.dir
         \/ \A p \in DOMAIN w.dir : Public(p) \/ (p # m.staged.name /\ p \in DOMAIN vol.dir)
  PROVE  ToldOf(i, n, w, f)
  BY DEF ToldOf, Public

(* JobDone: between two jobs nothing is staged.                             *)
LEMMA DoneIs ==
  ASSUME IInv, NEW i \in Importer, imp[i].phase = "next", NEW rw, NEW none, none = <<>>
  PROVE  /\ [JobDone(i) EXCEPT !.rw = rw] =
              [job |-> imp[i].job + 1, phase |-> "next", rw |-> rw, staged |-> NotStaged,
               gathered |-> none, at |-> 0, counter |-> imp[i].counter, stuck |-> imp[i].stuck]
         /\ JobDone(i) =
              [job |-> imp[i].job + 1, phase |-> "next", rw |-> imp[i].rw, staged |-> NotStaged,
               gathered |-> none, at |-> 0, counter |-> imp[i].counter, stuck |-> imp[i].stuck]
         /\ JobDone(i).phase = "next"
<1> DEFINE a == imp[i]
<1>1. /\ a \in [job : Nat \ {0}, phase : Phases, rw : {a.rw},
                staged : [path : Seq(Name), name : Seq(Name), ino : Nat],
                gathered : Seq(Byte), at : Nat, counter : Nat, stuck : {a.stuck}]
      /\ a.staged = NotStaged /\ a.gathered = none /\ a.at = 0
  BY AtOne DEF ShapeOf
<1>2. JobDone(i) = [a EXCEPT !.phase = "next", !.job = a.job + 1]
  BY DEF JobDone
<1> HIDE DEF a
<1> DEFINE b == [job |-> a.job + 1, phase |-> "next", rw |-> a.rw, staged |-> a.staged,
                 gathered |-> a.gathered, at |-> a.at, counter |-> a.counter, stuck |-> a.stuck]
<1>3. JobDone(i) = b
  BY <1>1, <1>2
<1>4. /\ b.phase = "next"
      /\ b = [job |-> a.job + 1, phase |-> "next", rw |-> a.rw, staged |-> NotStaged,
              gathered |-> none, at |-> 0, counter |-> a.counter, stuck |-> a.stuck]
      /\ [b EXCEPT !.rw = rw] =
           [job |-> a.job + 1, phase |-> "next", rw |-> rw, staged |-> NotStaged,
            gathered |-> none, at |-> 0, counter |-> a.counter, stuck |-> a.stuck]
  BY <1>1
<1>5. QED
  BY <1>3, <1>4 DEF a

(* An entry made, or not.                                                   *)
LEMMA EntryEffect ==
  ASSUME ImportAssumption, IInv, NEW i \in Importer, At(i, "next"),
         NEW new, Call(i, JobDone(i), new),
         ~Stale(i) => /\ MayMake(i, new)
                      /\ \A p \in DOMAIN new.dir : Public(p) \/ p \in DOMAIN vol.dir
  PROVE  Effect(i)
<1> DEFINE rw == IF JobDone(i).phase = "persisted" THEN NoMount ELSE Next1(new)
           after == [JobDone(i) EXCEPT !.rw = rw]
           none == <<>>
<1>1. imp[i].phase = "next" /\ ~Ended(i) /\ UNCHANGED around
  BY DEF At
<1>2. none = <<>>
  OBVIOUS
<1> HIDE DEF none
<1>3. after = [job |-> imp[i].job + 1, phase |-> "next", rw |-> rw, staged |-> NotStaged,
               gathered |-> none, at |-> 0, counter |-> imp[i].counter, stuck |-> imp[i].stuck]
  BY <1>1, <1>2, DoneIs
<1>4. after.staged = NotStaged /\ after.stuck = imp[i].stuck
  BY <1>3
<1>5. ShapeOf(i, after) /\ \A v : HeldOf(i, after, v)
  <2> HIDE DEF rw, after
  <2>1. QED
    BY <1>1, <1>2, <1>3, OverIs
<1>6. imp[i].staged = NotStaged /\ ToldOf(i, imp[i], vol, faults[i])
  BY <1>1, AtOne DEF ShapeOf
<1>7. ASSUME ~Stale(i)
      PROVE  ToldOf(i, after, new, faults[i]) /\ ToldOf(i, imp[i], new, faults[i])
  <2>1. after.staged.name = imp[i].staged.name
    BY <1>4, <1>6
  <2> HIDE DEF after
  <2>2. QED
    BY <1>4, <1>6, <1>7, <2>1, StillTold
<1>8. after = [JobDone(i) EXCEPT !.rw = IF JobDone(i).phase = "persisted" THEN NoMount ELSE Next1(new)]
  OBVIOUS
<1> HIDE DEF after
<1>9. QED
  BY <1>1, <1>5, <1>7, <1>8, CallEffect

(* A directory that was there.                                              *)
LEMMA MergedEffect ==
  ASSUME ImportAssumption, IInv, NEW i \in Importer, At(i, "next"), Fails(i, JobDone(i))
  PROVE  Effect(i)
<1> DEFINE none == <<>>
           m == JobDone(i)
<1>1. imp[i].phase = "next" /\ ~Ended(i) /\ UNCHANGED around /\ none = <<>>
  BY DEF At
<1> HIDE DEF none
<1>2. m = [job |-> imp[i].job + 1, phase |-> "next", rw |-> imp[i].rw, staged |-> NotStaged,
           gathered |-> none, at |-> 0, counter |-> imp[i].counter, stuck |-> imp[i].stuck]
  BY <1>1, DoneIs
<1> HIDE DEF m
<1>3. ShapeOf(i, m) /\ HeldOf(i, m, vol)
  BY <1>1, <1>2, OverIs
<1>4. /\ m.rw = imp[i].rw /\ m.staged = NotStaged /\ m.stuck = imp[i].stuck
  BY <1>2
<1>5. MountOf(i, m, vol)
  BY <1>1, <1>4, AtOne, JobIs DEF MountOf
<1>6. ToldOf(i, m, vol, faults[i])
  BY <1>1, <1>4, AtOne DEF ToldOf, ShapeOf
<1>7. QED
  BY <1>1, <1>3, <1>5, <1>6, FailsEffect DEF m

(* create_dir.                                                              *)
LEMMA CreateDirEffect ==
  ASSUME ImportAssumption, IInv, NEW i \in Importer, CreateDir(i)
  PROVE  Effect(i)
<1> DEFINE path == JobOf(i).path
           new == Created(imp[i].rw, path, "dir")
<1>1. At(i, "next") /\ ~Ended(i) /\ UNCHANGED around /\ path \in Path /\ Public(path)
  BY JobIs DEF CreateDir, OnJob, At
<1> HIDE DEF path, new
<1>2. \/ Fails(i, Dropped(i)) \/ Fails(i, JobDone(i))
      \/ /\ Call(i, JobDone(i), new) /\ Reached(imp[i].rw, path) /\ ~Exists(imp[i].rw, path)
  BY DEF CreateDir, path, new
<1>3. ASSUME ~Stale(i), Reached(imp[i].rw, path), ~Exists(imp[i].rw, path)
      PROVE  /\ MayMake(i, new)
             /\ \A p \in DOMAIN new.dir : Public(p) \/ p \in DOMAIN vol.dir
  <2>1. imp[i].rw = vol /\ path \notin DOMAIN vol.dir /\ IsDir(vol, Front(path))
    BY <1>1, <1>3, Current DEF Reached, Exists
  <2>2. new = Created(vol, path, "dir")
    BY <2>1 DEF new
  <2>3. QED
    BY <1>1, <2>1, <2>2, MayCreate
<1>4. QED
  BY <1>1, <1>2, <1>3, DropEffect, MergedEffect, EntryEffect

(* create_symbolic_link.                                                    *)
LEMMA CreateSymbolicLinkEffect ==
  ASSUME ImportAssumption, IInv, NEW i \in Importer, CreateSymbolicLink(i)
  PROVE  Effect(i)
<1> DEFINE path == JobOf(i).path
           new == Created(imp[i].rw, path, "symlink")
<1>1. At(i, "next") /\ ~Ended(i) /\ UNCHANGED around /\ path \in Path /\ Public(path)
  BY JobIs DEF CreateSymbolicLink, OnJob, At
<1> HIDE DEF path, new
<1>2. \/ Fails(i, Dropped(i))
      \/ /\ Call(i, JobDone(i), new) /\ Reached(imp[i].rw, path) /\ ~Exists(imp[i].rw, path)
  BY DEF CreateSymbolicLink, path, new
<1>3. ASSUME ~Stale(i), Reached(imp[i].rw, path), ~Exists(imp[i].rw, path)
      PROVE  /\ MayMake(i, new)
             /\ \A p \in DOMAIN new.dir : Public(p) \/ p \in DOMAIN vol.dir
  <2>1. imp[i].rw = vol /\ path \notin DOMAIN vol.dir /\ IsDir(vol, Front(path))
    BY <1>1, <1>3, Current DEF Reached, Exists
  <2>2. new = Created(vol, path, "symlink")
    BY <2>1 DEF new
  <2>3. QED
    BY <1>1, <2>1, <2>2, MayCreate
<1>4. QED
  BY <1>1, <1>2, <1>3, DropEffect, EntryEffect

(* create_hard_link.                                                        *)
LEMMA CreateHardLinkEffect ==
  ASSUME ImportAssumption, IInv, NEW i \in Importer, CreateHardLink(i)
  PROVE  Effect(i)
<1> DEFINE j == JobOf(i)
           new == Linked(imp[i].rw, j.path, imp[i].rw.dir[j.of])
<1>1. /\ At(i, "next") /\ ~Ended(i) /\ UNCHANGED around
      /\ j.op = "link" /\ j \in Range(around.jobs[i])
      /\ j.path \in Path /\ Public(j.path) /\ Public(j.of)
  BY JobIs DEF CreateHardLink, OnJob, At
<1> HIDE DEF j, new
<1>2. \/ Fails(i, Dropped(i))
      \/ /\ Call(i, JobDone(i), new) /\ Exists(imp[i].rw, j.of)
         /\ Reached(imp[i].rw, j.path) /\ ~Exists(imp[i].rw, j.path)
  BY DEF CreateHardLink, j, new
<1>3. ASSUME ~Stale(i), Exists(imp[i].rw, j.of), Reached(imp[i].rw, j.path),
             ~Exists(imp[i].rw, j.path)
      PROVE  /\ MayMake(i, new)
             /\ \A p \in DOMAIN new.dir : Public(p) \/ p \in DOMAIN vol.dir
  <2>1. /\ imp[i].rw = vol /\ j.of \in DOMAIN vol.dir /\ j.path \notin DOMAIN vol.dir
        /\ IsDir(vol, Front(j.path))
    BY <1>1, <1>3, Current DEF Reached, Exists
  <2>2. new = Linked(vol, j.path, vol.dir[j.of])
    BY <2>1 DEF new
  <2>3. QED
    BY <1>1, <2>1, <2>2, MayLink
<1>4. QED
  BY <1>1, <1>2, <1>3, DropEffect, EntryEffect

(* set_attributes.                                                          *)
LEMMA SetAttributesEffect ==
  ASSUME ImportAssumption, IInv, NEW i \in Importer, SetAttributes(i)
  PROVE  Effect(i)
<1> DEFINE path == JobOf(i).path
           v == imp[i].rw
           new == [v EXCEPT !.node[v.dir[path]].touched = TRUE]
<1>1. At(i, "next") /\ ~Ended(i) /\ UNCHANGED around
  BY DEF SetAttributes, OnJob, At
<1>2. Fails(i, Dropped(i)) \/ (Call(i, JobDone(i), new) /\ Exists(v, path))
  BY DEF SetAttributes
<1> HIDE DEF path
<1>3. ASSUME ~Stale(i), Exists(v, path)
      PROVE  /\ MayMake(i, new)
             /\ \A p \in DOMAIN new.dir : Public(p) \/ p \in DOMAIN vol.dir
  <2> DEFINE o == vol.dir[path]
             n == [vol.node[o] EXCEPT !.touched = TRUE]
             w == Put(vol, o, n)
  <2>1. v = vol /\ path \in DOMAIN vol.dir
    BY <1>1, <1>3, Current DEF Exists
  <2>2. o \in DOMAIN vol.node /\ vol.node[o] \in Node
    BY <2>1, SoundIs DEF IInv, VolOK
  <2>3. n \in Node /\ n.kind = vol.node[o].kind /\ n.data = vol.node[o].data
    BY <2>2 DEF Node
  <2>4. new = w
    BY <2>1 DEF Put
  <2> HIDE DEF o, n
  <2>5. MayMake(i, w) /\ w.dir = vol.dir
    BY <2>2, <2>3, MayChange
  <2> HIDE DEF w, new
  <2>6. QED
    BY <2>4, <2>5
<1> HIDE DEF new, v
<1>4. QED
  BY <1>1, <1>2, <1>3, DropEffect, EntryEffect

-----------------------------------------------------------------------------
\* One file.

(* A private name beside the destination, for the next attempt.             *)
LEMMA StagedName ==
  ASSUME ImportAssumption, NEW i \in Importer, NEW path \in Path,
         NEW c \in Nat, c < Len(Partial[i])
  PROVE  LET name == Append(Front(path), Partial[i][c + 1])
         IN  name \in Path /\ IsPartial(name, i) /\ Front(name) = Front(path)
<1> DEFINE n == Partial[i][c + 1]
           name == Append(Front(path), n)
<1>1. /\ Partial[i] \in Seq(Name) /\ Len(Partial[i]) \in Nat
      /\ DOMAIN Partial[i] = 1 .. Len(Partial[i])
  BY LenProperties DEF ImportAssumption
<1>2. c + 1 \in 1 .. Len(Partial[i])
  BY <1>1
<1>3. n \in Name /\ n \in Range(Partial[i])
  BY <1>1, <1>2 DEF Range
<1> HIDE DEF n
<1>4. name \in Path /\ Last(name) = n /\ Front(name) = Front(path)
  BY <1>3, BesideIs
<1> HIDE DEF name
<1>5. name \in Path /\ IsPartial(name, i) /\ Front(name) = Front(path)
  BY <1>3, <1>4 DEF IsPartial
<1>6. QED
  BY <1>5 DEF name, n

(* The first bytes of a source.                                             *)
LEMMA PrefixIs ==
  ASSUME NEW i \in Importer, NEW j \in Nat, NEW n \in Nat
  PROVE  Prefix(i, j, n) \in Seq(Byte) /\ Len(Prefix(i, j, n)) = n
<1> DEFINE e == [k \in Nat |-> <<i, j, k>>]
<1>1. \A k \in Nat : e[k] \in Byte /\ e[k] = <<i, j, k>>
  BY DEF Byte
<1> HIDE DEF e
<1>2. [k \in 1 .. n |-> e[k]] \in Seq(Byte) /\ Len([k \in 1 .. n |-> e[k]]) = n
  BY <1>1
<1>3. Prefix(i, j, n) = [k \in 1 .. n |-> e[k]]
  BY <1>1 DEF Prefix
<1>4. QED
  BY <1>2, <1>3

(* stage.                                                                   *)
LEMMA StageEffect ==
  ASSUME ImportAssumption, IInv, NEW i \in Importer, Stage(i)
  PROVE  Effect(i)
<1> DEFINE a == imp[i]
           v == a.rw
           path == JobOf(i).path
           name == Append(Front(path), Partial[i][a.counter + 1])
           rec == [path |-> path, name |-> name, ino |-> NextIno(v)]
           counted == [a EXCEPT !.counter = @ + 1]
           staged == [counted EXCEPT !.phase = "write", !.staged = rec]
           failed == [counted EXCEPT !.rw = NoMount, !.phase = "abort"]
           new == Created(v, name, "file")
           none == <<>>
<1>1. /\ At(i, "next") /\ ~Ended(i) /\ UNCHANGED around /\ a.phase = "next"
      /\ JobOf(i).op = "file" /\ a.counter < Len(Partial[i])
  BY DEF Stage, OnJob, At
<1>2. \/ Fails(i, Dropped(i))
      \/ /\ Reached(v, path) /\ ~Exists(v, name)
         /\ Succeeds(i, staged, new) \/ FailsLate(i, failed, new)
      \/ Fails(i, failed)
  BY DEF Stage
<1>3. /\ path \in Path /\ a.job \in DOMAIN around.jobs[i] /\ JobOf(i) = around.jobs[i][a.job]
      /\ a.job <= Len(around.jobs[i])
  BY <1>1, JobIs
<1>4. /\ a \in [job : Nat \ {0}, phase : Phases, rw : {a.rw},
                staged : [path : Seq(Name), name : Seq(Name), ino : Nat],
                gathered : Seq(Byte), at : Nat, counter : Nat, stuck : {a.stuck}]
      /\ a.staged = NotStaged /\ a.gathered = none /\ a.at = 0
      /\ a.job <= Len(around.jobs[i]) + 1
      /\ Len(a.gathered) < Gathered
  BY <1>1, AtOne DEF ShapeOf
<1>5. name \in Path /\ IsPartial(name, i) /\ Front(name) = Front(path)
  <2>1. a.counter \in Nat
    BY <1>4
  <2> HIDE DEF a, path
  <2>2. QED
    BY <1>1, <1>3, <2>1, StagedName
<1>6. ToldOf(i, a, vol, faults[i]) /\ vol.gen \in Nat
  BY AtOne
<1>7. /\ ShapeOf(i, failed) /\ MountOf(i, failed, vol) /\ failed.rw = NoMount
      /\ HeldOf(i, failed, vol) /\ HeldOf(i, failed, new)
      /\ ToldOf(i, failed, vol, faults[i])
  BY <1>1, <1>4, <1>6, Drops
<1> HIDE DEF failed
<1>8. ASSUME ~Stale(i), Reached(v, path), ~Exists(v, name)
      PROVE  /\ v = vol /\ MayMake(i, new) /\ name \in DOMAIN new.dir
             /\ new.dir[name] = NextIno(vol) /\ NextIno(vol) \in Nat
             /\ new.node[new.dir[name]].data = none
             /\ \A p \in DOMAIN new.dir : p = name \/ p \in DOMAIN vol.dir
  <2>1. v = vol /\ name \notin DOMAIN vol.dir /\ IsDir(vol, Front(name))
    BY <1>1, <1>5, <1>8, Current DEF Reached, Exists
  <2> HIDE DEF name, v
  <2>2. new = Created(vol, name, "file")
    BY <2>1
  <2> HIDE DEF new
  <2>3. QED
    BY <1>5, <2>1, <2>2, MayCreate
<1>9. CASE Reached(v, path) /\ ~Exists(v, name) /\ Succeeds(i, staged, new)
  <2> DEFINE after == [staged EXCEPT !.rw = IF staged.phase = "persisted" THEN NoMount ELSE vol']
  <2>1. /\ ~Stale(i) /\ vol' = Next1(new) /\ was' = Settled /\ faults' = faults
        /\ imp' = [imp EXCEPT ![i] = after]
    BY <1>9 DEF Succeeds
  <2> HIDE DEF path, name, new, none
  <2>2. /\ v = vol /\ MayMake(i, new) /\ name \in DOMAIN new.dir
        /\ new.dir[name] = NextIno(vol) /\ NextIno(vol) \in Nat
        /\ new.node[new.dir[name]].data = none
        /\ \A p \in DOMAIN new.dir : p = name \/ p \in DOMAIN vol.dir
    BY <1>8, <1>9, <2>1
  <2>3. vol'.gen = vol.gen + 1 /\ vol'.dir = new.dir /\ vol' # NoMount
    <3>1. vol'.gen = vol.gen + 1 /\ vol'.dir = new.dir
      BY <2>1, <2>2, Committed DEF MayMake
    <3>2. QED
      BY <1>6, <3>1 DEF NoMount
  <2> HIDE DEF a, v
  <2>4. rec \in [path : Seq(Name), name : Seq(Name), ino : Nat] /\ rec # NotStaged
    <3>1. path \in Seq(Name) /\ name \in Seq(Name) /\ name # <<>>
      BY <1>3, <1>5 DEF Path
    <3>2. NotStaged.name = <<>>
      BY DEF NotStaged
    <3>3. rec.name = name /\ rec \in [path : Seq(Name), name : Seq(Name), ino : Nat]
      BY <2>2, <3>1
    <3>4. QED
      BY <3>1, <3>2, <3>3
  <2>5. rec.name = name /\ rec.path = path /\ rec.ino = NextIno(vol)
    BY <2>2
  <2> HIDE DEF rec
  <2> DEFINE kept == [job : {a.job}, phase : {a.phase}, rw : {a.rw}, staged : {a.staged},
                      gathered : {none}, at : {a.at}, counter : Nat, stuck : {a.stuck}]
  <2>6. after \in [job : {a.job}, phase : {"write"}, rw : {vol'}, staged : {rec},
                   gathered : {none}, at : {a.at}, counter : Nat, stuck : {a.stuck}]
    <3>1. counted \in kept
      <4> DEFINE c == a.counter + 1
      <4>1. a \in kept /\ c \in Nat
        BY <1>4
      <4>2. counted = [a EXCEPT !.counter = c]
        OBVIOUS
      <4> HIDE DEF c, counted
      <4>3. QED
        BY <4>1, <4>2
    <3> HIDE DEF counted
    <3>2. staged \in [job : {a.job}, phase : {"write"}, rw : {a.rw}, staged : {rec},
                      gathered : {none}, at : {a.at}, counter : Nat, stuck : {a.stuck}]
      BY <3>1
    <3> HIDE DEF staged
    <3>3. staged.phase = "write" /\ after = [staged EXCEPT !.rw = vol']
      BY <3>2
    <3> HIDE DEF after
    <3>4. QED
      BY <3>2, <3>3
  <2> HIDE DEF after
  <2>7. /\ after \in [job : Nat \ {0}, phase : {"write"}, rw : {vol'},
                      staged : [path : Seq(Name), name : Seq(Name), ino : Nat],
                      gathered : {none}, at : Nat, counter : Nat, stuck : {a.stuck}]
        /\ after.job = a.job /\ after.phase = "write" /\ after.rw = vol' /\ after.staged = rec
        /\ after.gathered = none /\ after.at = 0 /\ after.stuck = a.stuck
    BY <1>4, <2>4, <2>6
  <2>8. /\ Len(none) = 0 /\ none \in Seq(Byte)
    BY DEF none
  <2>9. ShapeOf(i, after)
    <3>1. "write" \in Phases
      BY DEF Phases
    <3>2. after \in [job : Nat \ {0}, phase : Phases, rw : {after.rw},
                      staged : [path : Seq(Name), name : Seq(Name), ino : Nat],
                      gathered : Seq(Byte), at : Nat, counter : Nat, stuck : {after.stuck}]
      BY <2>7, <2>8, <3>1
    <3>3. Exists(after.rw, after.staged.name) /\ after.rw.dir[after.staged.name] = after.staged.ino
      BY <2>2, <2>3, <2>5, <2>7 DEF Exists
    <3>4. JobOf(i).len \in Nat /\ JobOf(i).path = path
      BY <1>1, JobIs DEF path
    <3>5. after.at + Len(after.gathered) <= around.jobs[i][after.job].len
      BY <1>3, <2>7, <2>8, <3>4 DEF a
    <3>6. around.jobs[i][after.job].op = "file" /\ after.staged.path = around.jobs[i][after.job].path
      BY <1>1, <1>3, <2>5, <2>7, <3>4 DEF a
    <3>7. after.job <= Len(around.jobs[i]) /\ Len(after.gathered) < Gathered
      BY <1>3, <1>4, <2>7 DEF a
    <3>8. QED
      BY <1>4, <1>5, <2>3, <2>4, <2>5, <2>7, <2>8, <3>2, <3>3, <3>5, <3>6, <3>7
         DEF ShapeOf, Follows
  <2>10. HeldOf(i, after, new)
    <3>1. new.node[new.dir[name]].data = Prefix(i, after.job, 0)
      <4>1. i \in Importer /\ after.job \in Nat /\ 0 \in Nat
        BY <2>7
      <4>2. Prefix(i, after.job, 0) = <<>>
        BY <4>1, PrefixIs, EmptySeq
      <4>3. QED
        BY <2>2, <4>2 DEF none
    <3>2. QED
      BY <2>5, <2>7, <3>1 DEF HeldOf
  <2>11. ToldOf(i, after, new, faults[i])
    <3>1. ~ IsPartial(<<>>, i) \/ \A p \in DOMAIN vol.dir : p # <<>>
      BY SoundIs DEF Path, IInv, VolOK
    <3>2. a.staged.name = <<>>
      BY <1>4 DEF NotStaged
    <3>3. \A p \in DOMAIN vol.dir : p # a.staged.name
      BY <3>2, SoundIs DEF Path, IInv, VolOK
    <3>4. QED
      BY <1>6, <2>2, <2>5, <2>7, <3>3 DEF ToldOf
  <2>12. faults \in [Importer -> Seq(Phases)] /\ after.rw \in {NoMount, vol'}
    BY <2>7 DEF IInv
  <2>13. QED
    BY <1>1, <2>1, <2>2, <2>9, <2>10, <2>11, <2>12, MadeEffect
<1>10. CASE Reached(v, path) /\ ~Exists(v, name) /\ FailsLate(i, failed, new)
  <2>1. ~Stale(i)
    BY <1>10 DEF FailsLate
  <2> HIDE DEF new, path, name
  <2>2. MayMake(i, new)
    BY <1>8, <1>10, <2>1
  <2>3. QED
    BY <1>1, <1>7, <1>10, <2>2, FailsLateEffect
<1>11. CASE Fails(i, failed)
  BY <1>1, <1>7, <1>11, FailsEffect
<1> HIDE DEF path, name, new, staged
<1>12. QED
  BY <1>1, <1>2, <1>9, <1>10, <1>11, DropEffect

\* An inode with other bytes.
Longer(v, o, data) == [v.node[o] EXCEPT !.data = data]

(* Such an inode is one, of the same kind.                                  *)
LEMMA LongerIs ==
  ASSUME NEW v, Sound(v), NEW o \in DOMAIN v.node, NEW data \in Seq(Byte)
  PROVE  LET n == Longer(v, o, data)
         IN  n \in Node /\ n.kind = v.node[o].kind /\ n.data = data
<1>1. v.node[o] \in Node
  BY SoundIs
<1>2. QED
  BY <1>1 DEF Node, Longer

(* Bytes written where the file ends are the source's next.                 *)
LEMMA WroteIs ==
  ASSUME NEW v, NEW o, NEW i, NEW j, NEW at, at \in Nat, v.node[o].data = Prefix(i, j, at),
         NEW g, g \in Seq(Byte), Follows(g, i, j, at), NEW end, end = at + Len(g)
  PROVE  Wrote(v, o, at, g) = Put(v, o, Longer(v, o, Prefix(i, j, end)))
<1> DEFINE m == v.node[o]
           d == [k \in 1 .. at + Len(g) |-> IF k <= at THEN m.data[k] ELSE g[k - at]]
           p == Prefix(i, j, end)
<1>1. Len(g) \in Nat
  OBVIOUS
<1>2. d = p
  <2>1. ASSUME NEW k \in 1 .. at + Len(g)
        PROVE  (IF k <= at THEN m.data[k] ELSE g[k - at]) = <<i, j, k>>
    <3>1. CASE k <= at
      <4>1. k \in 1 .. at
        BY <1>1, <3>1
      <4>2. m.data[k] = <<i, j, k>>
        BY <4>1 DEF Prefix
      <4>3. QED
        BY <3>1, <4>2
    <3>2. CASE ~(k <= at)
      <4>1. k - at \in 1 .. Len(g) /\ at + (k - at) = k
        BY <1>1, <3>2
      <4>2. g[k - at] = <<i, j, at + (k - at)>>
        BY <4>1 DEF Follows
      <4>3. QED
        BY <3>2, <4>1, <4>2
    <3>3. QED
      BY <3>1, <3>2
  <2>2. QED
    BY <2>1 DEF Prefix
<1>3. Wrote(v, o, at, g) = [v EXCEPT !.node[o].data = d]
  BY DEF Wrote
<1> HIDE DEF p, d
<1>4. [v EXCEPT !.node[o].data = p] = Put(v, o, Longer(v, o, p))
  BY DEF Put, Longer
<1>5. QED
  BY <1>2, <1>3, <1>4 DEF p

(* The staged file longer by what is gathered.                              *)
LEMMA MayWrite ==
  ASSUME ImportAssumption, IInv, NEW i \in Importer, NEW o \in DOMAIN vol.node,
         Exists(vol, imp[i].staged.name), IsPartial(imp[i].staged.name, i),
         vol.dir[imp[i].staged.name] = o,
         NEW n \in Node, n.kind = vol.node[o].kind, NEW w, w = Put(vol, o, n)
  PROVE  MayMake(i, w)
  BY MayChange

\* Import i with the source's next gathered, about to write it.
Writing(i, me) ==
  /\ me \in [job : {imp[i].job}, phase : {"write", "persisted"}, rw : {imp[i].rw},
             staged : {imp[i].staged}, gathered : Seq(Byte), at : {imp[i].at},
             counter : {imp[i].counter}, stuck : {imp[i].stuck}]
  /\ Follows(me.gathered, i, imp[i].job, imp[i].at)
  /\ imp[i].at + Len(me.gathered) <= JobOf(i).len
  /\ me.phase = "persisted" => imp[i].at + Len(me.gathered) = JobOf(i).len

(* What is gathered written at the end of the staged file.                  *)
LEMMA FlushEffect ==
  ASSUME ImportAssumption, IInv, NEW i \in Importer, At(i, "write"), NEW me, Flush(i, me),
         Writing(i, me)
  PROVE  Effect(i)
<1> DEFINE a == imp[i]
           o == a.staged.ino
           g == me.gathered
           none == <<>>
           at == a.at + Len(g)
           new == Wrote(a.rw, o, me.at, g)
           done == [me EXCEPT !.gathered = none, !.at = @ + Len(g)]
           rw == IF done.phase = "persisted" THEN NoMount ELSE Next1(new)
           after == [done EXCEPT !.rw = rw]
<1>1. ~Ended(i) /\ UNCHANGED around /\ a.phase = "write"
  BY DEF At
<1>2. Fails(i, Dropped(i)) \/ (Call(i, done, new) /\ o \in DOMAIN a.rw.node)
  BY DEF Flush
<1>3. /\ a \in [job : Nat \ {0}, phase : Phases, rw : {a.rw},
                staged : [path : Seq(Name), name : Seq(Name), ino : Nat],
                gathered : Seq(Byte), at : Nat, counter : Nat, stuck : {a.stuck}]
      /\ a.staged # NotStaged /\ a.staged.name \in Path /\ IsPartial(a.staged.name, i)
      /\ a.staged.path = around.jobs[i][a.job].path /\ around.jobs[i][a.job].op = "file"
      /\ a.rw # NoMount
      /\ Exists(a.rw, a.staged.name) /\ a.rw.dir[a.staged.name] = o
  BY <1>1, AtOne DEF ShapeOf, Staging
<1>4. /\ a.job \in Nat \ {0} /\ a.at \in Nat /\ a.counter \in Nat /\ Len(g) \in Nat /\ g \in Seq(Byte)
      /\ me.at = a.at /\ me.phase \in {"write", "persisted"}
      /\ a.job <= Len(around.jobs[i]) /\ JobOf(i) = around.jobs[i][a.job] /\ JobOf(i).len \in Nat
  <2>1. a.job \in Nat \ {0} /\ a.at \in Nat /\ a.counter \in Nat
    BY <1>3
  <2>2. g \in Seq(Byte) /\ me.at = a.at /\ me.phase \in {"write", "persisted"}
    BY DEF Writing
  <2>3. Len(g) \in Nat
    BY <2>2
  <2>4. a.job <= Len(around.jobs[i]) /\ JobOf(i) = around.jobs[i][a.job] /\ JobOf(i).len \in Nat
    BY <1>1, JobIs
  <2>5. QED
    BY <2>1, <2>2, <2>3, <2>4
<1>5. Len(none) = 0 /\ none \in Seq(Byte) /\ 0 < Gathered
  BY DEF ImportAssumption
<1>6. /\ at \in Nat /\ at <= JobOf(i).len /\ Follows(g, i, a.job, a.at)
      /\ me.phase = "persisted" => at = JobOf(i).len
  BY <1>4 DEF Writing
<1> HIDE DEF g, none, at, new
<1>7. done \in [job : {a.job}, phase : {me.phase}, rw : {a.rw}, staged : {a.staged},
                gathered : {none}, at : {at}, counter : {a.counter}, stuck : {a.stuck}]
  BY <1>4, <1>6 DEF at, g, Writing
<1>8. done.phase = me.phase
  BY <1>7
<1> HIDE DEF done
<1>9. /\ after \in [job : {a.job}, phase : {me.phase}, rw : {rw}, staged : {a.staged},
                    gathered : {none}, at : {at}, counter : {a.counter}, stuck : {a.stuck}]
      /\ after = [done EXCEPT !.rw = IF done.phase = "persisted" THEN NoMount ELSE Next1(new)]
  <2>1. after = [done EXCEPT !.rw = IF done.phase = "persisted" THEN NoMount ELSE Next1(new)]
    OBVIOUS
  <2> HIDE DEF rw
  <2>2. QED
    BY <1>7, <2>1 DEF rw
<1> HIDE DEF after, rw
<1>10. /\ after.job = a.job /\ after.phase = me.phase /\ after.rw = rw /\ after.staged = a.staged
       /\ after.gathered = none /\ after.at = at /\ after.stuck = a.stuck
  BY <1>9
<1>11. ASSUME ~Stale(i), o \in DOMAIN a.rw.node
       PROVE  /\ MayMake(i, new)
              /\ ShapeOf(i, after) /\ HeldOf(i, after, new)
              /\ ToldOf(i, after, new, faults[i]) /\ ToldOf(i, a, new, faults[i])
  <2>1. a.rw = vol /\ Exists(vol, a.staged.name) /\ vol.dir[a.staged.name] = o
    BY <1>1, <1>3, <1>11, Current
  <2>2. o \in DOMAIN vol.node
    BY <1>11, <2>1
  <2>3. Sound(vol) /\ vol.gen \in Nat
    BY AtOne DEF VolOK
  <2>4. vol.node[o].data = Prefix(i, a.job, a.at)
    BY <1>1, <2>1, AtOne DEF HeldOf, Staging
  <2>5. Follows(g, i, a.job, a.at)
    BY <1>6
  <2>6. a.job \in Nat /\ a.at \in Nat /\ g \in Seq(Byte) /\ IsPartial(a.staged.name, i)
    BY <1>3, <1>4
  <2>7. new = Wrote(vol, o, a.at, g)
    BY <1>4, <2>1 DEF new
  <2>8. MayMake(i, new) /\ new.dir = vol.dir /\ new.node[o].data = Prefix(i, a.job, at)
    <3> DEFINE p == Prefix(i, a.job, at)
               n == Longer(vol, o, p)
    <3>1. p \in Seq(Byte)
      BY <1>6, <2>6, PrefixIs
    <3>2. /\ Exists(vol, imp[i].staged.name) /\ IsPartial(imp[i].staged.name, i)
          /\ vol.dir[imp[i].staged.name] = o
      BY <2>1, <2>6
    <3>3. at = a.at + Len(g)
      BY DEF at
    <3> HIDE DEF a, o
    <3>4. new = Put(vol, o, n)
      BY <2>4, <2>5, <2>6, <2>7, <3>3, WroteIs
    <3> HIDE DEF p
    <3>5. n \in Node /\ n.kind = vol.node[o].kind /\ n.data = p
      BY <2>2, <2>3, <3>1, LongerIs
    <3> HIDE DEF n
    <3>6. MayMake(i, new)
      BY <2>2, <3>2, <3>4, <3>5, MayWrite
    <3>7. new.dir = vol.dir /\ new.node[o] = n
      <4>1. vol = [gen |-> vol.gen, dir |-> vol.dir, node |-> vol.node]
        BY <2>3, SoundIs
      <4>2. QED
        BY <2>2, <3>4, <4>1 DEF Put
    <3>8. QED
      BY <3>5, <3>6, <3>7 DEF p
  <2>9. Next1(new) # NoMount /\ Next1(new).dir = vol.dir
    <3>1. Next1(new).gen = vol.gen + 1 /\ Next1(new).dir = vol.dir
      BY <2>8, Committed DEF MayMake
    <3>2. NoMount.gen = 0
      BY DEF NoMount
    <3>3. QED
      BY <2>3, <3>1, <3>2
  <2>10. ShapeOf(i, after)
    <3>1. {"write", "persisted"} \subseteq Phases
      BY DEF Phases
    <3>2. after \in [job : Nat \ {0}, phase : Phases, rw : {after.rw},
                     staged : [path : Seq(Name), name : Seq(Name), ino : Nat],
                     gathered : Seq(Byte), at : Nat, counter : Nat, stuck : {after.stuck}]
      BY <1>3, <1>4, <1>5, <1>6, <1>9, <1>10, <3>1
    <3>3. after.phase = "write" =>
            /\ after.rw # NoMount /\ Exists(after.rw, after.staged.name)
            /\ after.rw.dir[after.staged.name] = after.staged.ino
      BY <1>8, <1>10, <2>1, <2>9 DEF rw, Exists
    <3>4. /\ after.at + Len(after.gathered) <= around.jobs[i][after.job].len
          /\ Len(after.gathered) < Gathered
          /\ after.job <= Len(around.jobs[i]) + 1 /\ after.job <= Len(around.jobs[i])
          /\ Follows(after.gathered, i, after.job, after.at)
      <4>1. Len(around.jobs[i]) \in Nat /\ Gathered \in Nat
        BY AtOne DEF ImportAssumption
      <4>2. at + 0 <= JobOf(i).len
        BY <1>4, <1>6
      <4>3. Follows(after.gathered, i, after.job, after.at)
        BY <1>5, <1>10 DEF Follows
      <4>4. QED
        BY <1>4, <1>5, <1>6, <1>10, <4>1, <4>2, <4>3
    <3>5. after.phase \in {"write", "persisted"} /\ after.staged # NotStaged
      BY <1>3, <1>4, <1>10
    <3>6. QED
      BY <1>3, <1>10, <3>2, <3>3, <3>4, <3>5 DEF ShapeOf, Staging, none
  <2>11. HeldOf(i, after, new)
    <3>1. (IF after.phase = "write" THEN after.at ELSE around.jobs[i][after.job].len) = at
      BY <1>4, <1>6, <1>10
    <3>2. new.node[new.dir[after.staged.name]].data = Prefix(i, after.job, at)
      BY <1>10, <2>1, <2>8
    <3>3. QED
      BY <3>1, <3>2 DEF HeldOf
  <2>12. ToldOf(i, after, new, faults[i]) /\ ToldOf(i, a, new, faults[i])
    <3>1. ToldOf(i, a, vol, faults[i])
      BY AtOne
    <3>2. QED
      BY <1>10, <2>8, <3>1 DEF ToldOf
  <2>13. QED
    BY <2>8, <2>10, <2>11, <2>12
<1>12. CASE Call(i, done, new) /\ o \in DOMAIN a.rw.node
  BY <1>1, <1>9, <1>11, <1>12, CallEffect
<1>13. QED
  BY <1>1, <1>2, <1>12, DropEffect

(* write_at.                                                                *)
LEMMA WriteAtEffect ==
  ASSUME ImportAssumption, IInv, NEW i \in Importer, WriteAt(i)
  PROVE  Effect(i)
<1> DEFINE a == imp[i]
           n == Len(a.gathered)
           held == a.at + n
           b == Source(i, a.job)[held + 1]
           g == Append(a.gathered, b)
           me == [a EXCEPT !.gathered = g]
<1>1. /\ At(i, "write") /\ ~Ended(i) /\ UNCHANGED around /\ a.phase = "write"
      /\ held < JobOf(i).len
      /\ \/ Len(me.gathered) >= Gathered /\ Flush(i, me)
         \/ ~(Len(me.gathered) >= Gathered) /\ Fails(i, me)
  BY DEF WriteAt, At
<1>2. /\ ShapeOf(i, a) /\ HeldOf(i, a, vol) /\ MountOf(i, a, vol) /\ ToldOf(i, a, vol, faults[i])
  BY AtOne
<1>3. /\ a \in [job : Nat \ {0}, phase : Phases, rw : {a.rw},
                staged : [path : Seq(Name), name : Seq(Name), ino : Nat],
                gathered : Seq(Byte), at : Nat, counter : Nat, stuck : {a.stuck}]
      /\ Follows(a.gathered, i, a.job, a.at)
  BY <1>1, <1>2 DEF ShapeOf
<1>4. /\ a.job \in Nat /\ a.at \in Nat /\ a.gathered \in Seq(Byte) /\ n \in Nat /\ held \in Nat
      /\ a.counter \in Nat
  <2>1. a.job \in Nat /\ a.at \in Nat /\ a.gathered \in Seq(Byte) /\ a.counter \in Nat
    BY <1>3
  <2>2. n \in Nat
    BY <2>1, LenProperties
  <2>3. QED
    BY <2>1, <2>2
<1>5. a.job <= Len(around.jobs[i]) /\ JobOf(i) = around.jobs[i][a.job] /\ JobOf(i).len \in Nat
  BY <1>1, JobIs
<1>6. b = <<i, a.job, held + 1>> /\ b \in Byte
  <2>1. held + 1 \in 1 .. JobOf(i).len
    <3>1. held < JobOf(i).len /\ JobOf(i).len \in Nat
      BY <1>1, <1>5
    <3>2. held \in Nat
      BY <1>4
    <3> HIDE DEF held
    <3>3. QED
      BY <3>1, <3>2
  <2>2. b = <<i, a.job, held + 1>>
    <3>1. held + 1 \in 1 .. around.jobs[i][a.job].len
      BY <1>5, <2>1
    <3>2. Source(i, a.job)[held + 1] = <<i, a.job, held + 1>>
      BY <3>1 DEF Source
    <3>3. QED
      BY <3>2
  <2>3. QED
    BY <1>4, <2>2 DEF Byte
<1> HIDE DEF b
<1>7. /\ g \in Seq(Byte) /\ Len(g) = n + 1 /\ Follows(g, i, a.job, a.at)
  <2>1. /\ g \in Seq(Byte) /\ Len(g) = n + 1 /\ g[n + 1] = b
        /\ \A k \in 1 .. n : g[k] = a.gathered[k]
    <3> DEFINE s == a.gathered
    <3>1. s \in Seq(Byte) /\ b \in Byte
      BY <1>4, <1>6
    <3> HIDE DEF s
    <3>2. /\ Append(s, b) \in Seq(Byte) /\ Len(Append(s, b)) = Len(s) + 1
          /\ Append(s, b)[Len(s) + 1] = b
          /\ \A k \in 1 .. Len(s) : Append(s, b)[k] = s[k]
      BY <3>1, AppendProperties
    <3>3. QED
      BY <3>2 DEF s
  <2> HIDE DEF g
  <2>2. ASSUME NEW k \in 1 .. Len(g) PROVE g[k] = <<i, a.job, a.at + k>>
    <3>1. CASE k = n + 1
      BY <1>4, <1>6, <2>1, <3>1
    <3>2. CASE k # n + 1
      <4>1. k \in 1 .. n
        BY <1>4, <2>1, <3>2
      <4>2. QED
        BY <1>3, <2>1, <4>1 DEF Follows
    <3>3. QED
      BY <3>1, <3>2
  <2>3. QED
    BY <2>1, <2>2 DEF Follows
<1> HIDE DEF g
<1>8. /\ me \in [job : {a.job}, phase : {a.phase}, rw : {a.rw}, staged : {a.staged},
                 gathered : {g}, at : {a.at}, counter : {a.counter}, stuck : {a.stuck}]
  BY <1>3
<1> HIDE DEF me
<1>9. /\ me.job = a.job /\ me.phase = "write" /\ me.rw = a.rw /\ me.staged = a.staged
      /\ me.gathered = g /\ me.at = a.at /\ me.stuck = a.stuck
  BY <1>1, <1>8
<1>10. me.at + Len(me.gathered) <= JobOf(i).len
  <2>1. a.at + n < JobOf(i).len
    BY <1>1
  <2>2. n \in Nat /\ a.at \in Nat /\ JobOf(i).len \in Nat
    BY <1>4, <1>5
  <2> HIDE DEF n, a
  <2>3. a.at + (n + 1) <= JobOf(i).len
    BY <2>1, <2>2
  <2>4. me.at = a.at /\ Len(me.gathered) = n + 1
    BY <1>7, <1>9
  <2>5. QED
    BY <2>3, <2>4
<1>11. Writing(i, me)
  <2>1. me \in [job : {a.job}, phase : {"write", "persisted"}, rw : {a.rw}, staged : {a.staged},
                gathered : Seq(Byte), at : {a.at}, counter : {a.counter}, stuck : {a.stuck}]
    BY <1>1, <1>7, <1>8
  <2>2. QED
    BY <1>7, <1>9, <1>10, <2>1 DEF Writing
<1>12. CASE ~(Len(me.gathered) >= Gathered) /\ Fails(i, me)
  <2>1. ShapeOf(i, me)
    <3>1. me \in [job : Nat \ {0}, phase : Phases, rw : {me.rw},
                  staged : [path : Seq(Name), name : Seq(Name), ino : Nat],
                  gathered : Seq(Byte), at : Nat, counter : Nat, stuck : {me.stuck}]
      BY <1>3, <1>7, <1>8, <1>9
    <3>2. Len(me.gathered) < Gathered
      BY <1>4, <1>7, <1>9, <1>12 DEF ImportAssumption
    <3>3. me.at + Len(me.gathered) <= around.jobs[i][me.job].len
      BY <1>5, <1>9, <1>10
    <3>4. Follows(me.gathered, i, me.job, me.at)
      BY <1>7, <1>9
    <3> HIDE DEF a
    <3>5. QED
      BY <1>1, <1>2, <1>9, <3>1, <3>2, <3>3, <3>4 DEF ShapeOf, Staging
  <2>2. HeldOf(i, me, vol)
    BY <1>1, <1>2, <1>9 DEF HeldOf, Staging
  <2>3. MountOf(i, me, vol)
    BY <1>1, <1>2, <1>9 DEF MountOf
  <2>4. ToldOf(i, me, vol, faults[i])
    BY <1>2, <1>9 DEF ToldOf
  <2>5. QED
    BY <1>1, <1>12, <2>1, <2>2, <2>3, <2>4, FailsEffect
<1>13. QED
  BY <1>1, <1>11, <1>12, FlushEffect

(* persist.                                                                 *)
LEMMA PersistEffect ==
  ASSUME ImportAssumption, IInv, NEW i \in Importer, Persist(i)
  PROVE  Effect(i)
<1> DEFINE a == imp[i]
           me == [a EXCEPT !.phase = "persisted"]
           m == [a EXCEPT !.phase = "persisted", !.rw = NoMount]
<1>1. /\ At(i, "write") /\ ~Ended(i) /\ UNCHANGED around /\ a.phase = "write"
      /\ a.at + Len(a.gathered) = JobOf(i).len
      /\ \/ a.gathered = <<>> /\ Fails(i, m)
         \/ Flush(i, me)
  BY DEF Persist, At
<1>2. /\ ShapeOf(i, a) /\ HeldOf(i, a, vol) /\ MountOf(i, a, vol) /\ ToldOf(i, a, vol, faults[i])
      /\ vol.gen \in Nat /\ vol.gen # 0
  BY AtOne
<1>3. /\ a \in [job : Nat \ {0}, phase : Phases, rw : {a.rw},
                staged : [path : Seq(Name), name : Seq(Name), ino : Nat],
                gathered : Seq(Byte), at : Nat, counter : Nat, stuck : {a.stuck}]
      /\ Follows(a.gathered, i, a.job, a.at)
  BY <1>1, <1>2 DEF ShapeOf
<1>4. JobOf(i) = around.jobs[i][a.job] /\ JobOf(i).len \in Nat /\ a.at \in Nat
  BY <1>1, <1>3, JobIs
<1>5. CASE Flush(i, me)
  <2>1. me \in [job : {a.job}, phase : {"persisted"}, rw : {a.rw}, staged : {a.staged},
                gathered : {a.gathered}, at : {a.at}, counter : {a.counter}, stuck : {a.stuck}]
    BY <1>3
  <2>2. a.gathered \in Seq(Byte)
    BY <1>3
  <2> HIDE DEF me
  <2>3. me \in [job : {a.job}, phase : {"write", "persisted"}, rw : {a.rw}, staged : {a.staged},
                gathered : Seq(Byte), at : {a.at}, counter : {a.counter}, stuck : {a.stuck}]
    BY <2>1, <2>2
  <2>4. me.gathered = a.gathered
    BY <2>1
  <2>5. a.at + Len(me.gathered) <= JobOf(i).len /\ a.at + Len(me.gathered) = JobOf(i).len
    BY <1>1, <1>4, <2>4
  <2>6. Writing(i, me)
    BY <1>3, <2>3, <2>4, <2>5 DEF Writing
  <2>7. QED
    BY <1>1, <1>5, <2>6, FlushEffect
<1>6. CASE a.gathered = <<>> /\ Fails(i, m)
  <2>1. m \in [job : {a.job}, phase : {"persisted"}, rw : {NoMount}, staged : {a.staged},
               gathered : {a.gathered}, at : {a.at}, counter : {a.counter}, stuck : {a.stuck}]
    BY <1>3
  <2> HIDE DEF m
  <2>2. /\ m.job = a.job /\ m.phase = "persisted" /\ m.rw = NoMount /\ m.staged = a.staged
        /\ m.gathered = a.gathered /\ m.at = a.at /\ m.stuck = a.stuck
    BY <2>1
  <2>3. a.at = JobOf(i).len
    <3>1. Len(a.gathered) = 0
      BY <1>6
    <3>2. QED
      BY <1>1, <1>4, <3>1
  <2>4. m \in [job : Nat \ {0}, phase : Phases, rw : {m.rw},
               staged : [path : Seq(Name), name : Seq(Name), ino : Nat],
               gathered : Seq(Byte), at : Nat, counter : Nat, stuck : {m.stuck}]
    <3>1. "persisted" \in Phases
      BY DEF Phases
    <3>2. QED
      BY <1>3, <2>1, <2>2, <3>1
  <2>5. a.gathered = <<>>
    BY <1>6
  <2>6. ShapeOf(i, m)
    BY <1>1, <1>2, <2>2, <2>4, <2>5 DEF ShapeOf, Staging
  <2>7. HeldOf(i, m, vol)
    BY <1>1, <1>2, <1>4, <2>2, <2>3 DEF HeldOf, Staging
  <2>8. MountOf(i, m, vol) /\ ToldOf(i, m, vol, faults[i])
    <3>1. m.rw.gen = 0
      BY <2>2 DEF NoMount
    <3>2. QED
      BY <1>2, <2>2, <3>1 DEF MountOf, ToldOf
  <2>9. QED
    BY <1>1, <1>6, <2>6, <2>7, <2>8, FailsEffect
<1>7. QED
  BY <1>1, <1>5, <1>6

(* read_back and verify.                                                    *)
LEMMA ReadBackEffect ==
  ASSUME ImportAssumption, IInv, NEW i \in Importer, ReadBack(i)
  PROVE  Effect(i)
<1> DEFINE a == imp[i]
           o == a.staged.ino
           same == o \in DOMAIN vol.node /\ vol.node[o].data = Source(i, a.job)
           ph == IF i \in Verify /\ ~same THEN "abort" ELSE "publish"
           m == [[a EXCEPT !.at = 0] EXCEPT !.phase = ph]
<1>1. UNCHANGED around /\ a.phase = "persisted" /\ Fails(i, m)
  BY DEF ReadBack
<1>2. /\ ShapeOf(i, a) /\ HeldOf(i, a, vol) /\ MountOf(i, a, vol) /\ ToldOf(i, a, vol, faults[i])
  BY AtOne
<1>3. a \in [job : Nat \ {0}, phase : Phases, rw : {a.rw},
             staged : [path : Seq(Name), name : Seq(Name), ino : Nat],
             gathered : Seq(Byte), at : Nat, counter : Nat, stuck : {a.stuck}]
  BY <1>1, <1>2 DEF ShapeOf
<1>4. ph \in {"abort", "publish"}
  OBVIOUS
<1> HIDE DEF ph
<1>5. m \in [job : {a.job}, phase : {ph}, rw : {a.rw}, staged : {a.staged},
             gathered : {a.gathered}, at : {0}, counter : {a.counter}, stuck : {a.stuck}]
  <2> DEFINE b == [a EXCEPT !.at = 0]
  <2>1. b \in [job : {a.job}, phase : {a.phase}, rw : {a.rw}, staged : {a.staged},
               gathered : {a.gathered}, at : {0}, counter : {a.counter}, stuck : {a.stuck}]
    BY <1>3
  <2>2. m = [b EXCEPT !.phase = ph]
    OBVIOUS
  <2> HIDE DEF b, m
  <2>3. QED
    BY <2>1, <2>2
<1> HIDE DEF m
<1>6. /\ m.job = a.job /\ m.phase = ph /\ m.rw = a.rw /\ m.staged = a.staged
      /\ m.gathered = a.gathered /\ m.at = 0 /\ m.stuck = a.stuck
  BY <1>5
<1>7. ShapeOf(i, m)
  <2>1. "abort" \in Phases /\ "publish" \in Phases /\ 0 \in Nat
    BY DEF Phases
  <2>2. m \in [job : Nat \ {0}, phase : Phases, rw : {m.rw},
               staged : [path : Seq(Name), name : Seq(Name), ino : Nat],
               gathered : Seq(Byte), at : Nat, counter : Nat, stuck : {m.stuck}]
    BY <1>3, <1>4, <1>5, <1>6, <2>1
  <2>3. QED
    BY <1>1, <1>2, <1>4, <1>6, <2>2 DEF ShapeOf, Staging
<1>8. HeldOf(i, m, vol)
  BY <1>1, <1>2, <1>4, <1>6 DEF HeldOf, Staging
<1>9. MountOf(i, m, vol) /\ ToldOf(i, m, vol, faults[i])
  BY <1>1, <1>2, <1>4, <1>6 DEF MountOf, ToldOf
<1>10. QED
  BY <1>1, <1>7, <1>8, <1>9, FailsEffect DEF m

(* mount_rw.                                                                *)
LEMMA MountRwEffect ==
  ASSUME ImportAssumption, IInv, NEW i \in Importer, MountRw(i)
  PROVE  Effect(i)
<1> DEFINE a == imp[i]
           m == [a EXCEPT !.rw = vol]
<1>1. /\ UNCHANGED around /\ a.phase \in {"next", "write", "publish", "abort"} /\ ~Ended(i)
      /\ a.rw = NoMount /\ Fails(i, m)
  BY DEF MountRw, Mounted, Fails
<1>2. /\ ShapeOf(i, a) /\ HeldOf(i, a, vol) /\ MountOf(i, a, vol) /\ ToldOf(i, a, vol, faults[i])
      /\ vol.gen \in Nat
  BY AtOne
<1>3. a \in [job : Nat \ {0}, phase : Phases, rw : {a.rw},
             staged : [path : Seq(Name), name : Seq(Name), ino : Nat],
             gathered : Seq(Byte), at : Nat, counter : Nat, stuck : {a.stuck}]
  BY <1>2 DEF ShapeOf
<1>4. m \in [job : Nat \ {0}, phase : Phases, rw : {m.rw},
             staged : [path : Seq(Name), name : Seq(Name), ino : Nat],
             gathered : Seq(Byte), at : Nat, counter : Nat, stuck : {m.stuck}]
  BY <1>3
<1>5. /\ m.job = a.job /\ m.phase = a.phase /\ m.rw = vol /\ m.staged = a.staged
      /\ m.gathered = a.gathered /\ m.at = a.at /\ m.stuck = a.stuck
  BY <1>3
<1> HIDE DEF m
<1>6. ShapeOf(i, m)
  BY <1>1, <1>2, <1>4, <1>5 DEF ShapeOf, Staging
<1>7. HeldOf(i, m, vol) /\ ToldOf(i, m, vol, faults[i])
  BY <1>2, <1>5 DEF HeldOf, Staging, ToldOf
<1>8. MountOf(i, m, vol)
  BY <1>2, <1>5 DEF MountOf
<1>9. QED
  BY <1>1, <1>6, <1>7, <1>8, FailsEffect DEF m

(* A signal.                                                                *)
LEMMA CancelEffect ==
  ASSUME ImportAssumption, IInv, NEW i \in Importer, Cancel(i)
  PROVE  Effect(i)
<1> DEFINE a == imp[i]
           m == [a EXCEPT !.phase = "abort"]
<1>1. UNCHANGED around /\ a.phase \in {"write", "persisted", "publish"} /\ Fails(i, m)
  BY DEF Cancel, Fails
<1>2. /\ ShapeOf(i, a) /\ MountOf(i, a, vol) /\ ToldOf(i, a, vol, faults[i])
  BY AtOne
<1>3. a \in [job : Nat \ {0}, phase : Phases, rw : {a.rw},
             staged : [path : Seq(Name), name : Seq(Name), ino : Nat],
             gathered : Seq(Byte), at : Nat, counter : Nat, stuck : {a.stuck}]
  BY <1>2 DEF ShapeOf
<1>4. /\ m \in [job : Nat \ {0}, phase : Phases, rw : {m.rw},
                staged : [path : Seq(Name), name : Seq(Name), ino : Nat],
                gathered : Seq(Byte), at : Nat, counter : Nat, stuck : {m.stuck}]
  <2>1. "abort" \in Phases
    BY DEF Phases
  <2>2. QED
    BY <1>3, <2>1
<1>5. /\ m.job = a.job /\ m.phase = "abort" /\ m.rw = a.rw /\ m.staged = a.staged
      /\ m.gathered = a.gathered /\ m.at = a.at /\ m.stuck = a.stuck
  BY <1>3
<1> HIDE DEF m
<1>6. ShapeOf(i, m)
  BY <1>1, <1>2, <1>4, <1>5 DEF ShapeOf, Staging
<1>7. HeldOf(i, m, vol) /\ ToldOf(i, m, vol, faults[i]) /\ MountOf(i, m, vol)
  BY <1>1, <1>2, <1>5 DEF HeldOf, Staging, ToldOf, MountOf
<1>8. QED
  BY <1>1, <1>6, <1>7, FailsEffect DEF m

(* A new process takes over.                                                *)
LEMMA AgainEffect ==
  ASSUME ImportAssumption, IInv, NEW i \in Importer, Again(i)
  PROVE  Effect(i)
<1> DEFINE a == imp[i]
<1>1. PICK n \in {0, a.counter} :
        UNCHANGED around /\ a.phase = "killed" /\ Fails(i, [a EXCEPT !.phase = "next", !.counter = n])
  BY DEF Again, Fails
<1> DEFINE m == [a EXCEPT !.phase = "next", !.counter = n]
<1>2. /\ ShapeOf(i, a) /\ MountOf(i, a, vol) /\ ToldOf(i, a, vol, faults[i])
      /\ vol.gen \in Nat /\ vol.gen # 0
  BY AtOne
<1>3. /\ a \in [job : Nat \ {0}, phase : Phases, rw : {a.rw},
             staged : [path : Seq(Name), name : Seq(Name), ino : Nat],
             gathered : Seq(Byte), at : Nat, counter : Nat, stuck : {a.stuck}]
      /\ a.rw = NoMount
  BY <1>1, <1>2 DEF ShapeOf
<1>4. /\ m \in [job : Nat \ {0}, phase : Phases, rw : {m.rw},
                staged : [path : Seq(Name), name : Seq(Name), ino : Nat],
                gathered : Seq(Byte), at : Nat, counter : Nat, stuck : {m.stuck}]
      /\ m.job = a.job /\ m.phase = "next" /\ m.rw = a.rw /\ m.staged = a.staged
      /\ m.gathered = a.gathered /\ m.at = a.at /\ m.stuck = a.stuck
  <2>1. "next" \in Phases /\ n \in Nat
    BY <1>3 DEF Phases
  <2>2. QED
    BY <1>3, <2>1
<1> HIDE DEF m
<1>5. ShapeOf(i, m)
  BY <1>1, <1>2, <1>4 DEF ShapeOf, Staging
<1>6. MountOf(i, m, vol)
  <2>1. m.rw.gen = 0
    BY <1>3, <1>4 DEF NoMount
  <2>2. QED
    BY <1>2, <2>1 DEF MountOf
<1>7. HeldOf(i, m, vol) /\ ToldOf(i, m, vol, faults[i])
  BY <1>2, <1>4 DEF HeldOf, Staging, ToldOf
<1>8. QED
  BY <1>1, <1>5, <1>6, <1>7, FailsEffect DEF m

(* publish.                                                                 *)
LEMMA PublishEffect ==
  ASSUME ImportAssumption, IInv, NEW i \in Importer, Publish(i)
  PROVE  Effect(i)
<1> DEFINE a == imp[i]
           s == a.staged
           me == [JobDone(i) EXCEPT !.staged = NotStaged]
           new == Renamed(a.rw, s.name, s.path)
           none == <<>>
           rw == IF me.phase = "persisted" THEN NoMount ELSE Next1(new)
           after == [me EXCEPT !.rw = rw]
<1>1. /\ ~Ended(i) /\ UNCHANGED around /\ a.phase = "publish"
      /\ \/ Fails(i, Dropped(i))
         \/ /\ ~Taken(i, s.path) /\ Exists(a.rw, s.name) /\ IsDir(a.rw, Front(s.path))
            /\ Call(i, me, new)
  BY DEF Publish, At
<1>2. /\ ShapeOf(i, a) /\ HeldOf(i, a, vol) /\ ToldOf(i, a, vol, faults[i])
  BY AtOne
<1>3. /\ a \in [job : Nat \ {0}, phase : Phases, rw : {a.rw},
                staged : [path : Seq(Name), name : Seq(Name), ino : Nat],
                gathered : Seq(Byte), at : Nat, counter : Nat, stuck : {a.stuck}]
      /\ a.gathered = none /\ a.at = 0 /\ s # NotStaged /\ s.name \in Path /\ IsPartial(s.name, i)
      /\ s.path = around.jobs[i][a.job].path /\ around.jobs[i][a.job].op = "file"
  BY <1>1, <1>2 DEF ShapeOf, Staging
<1>4. /\ JobOf(i) = around.jobs[i][a.job] /\ JobOf(i).path \in Path /\ Public(JobOf(i).path)
  BY <1>1, JobIs
<1>5. none = <<>>
  OBVIOUS
<1> HIDE DEF none, new
<1>6. /\ me \in [job : {a.job + 1}, phase : {"next"}, rw : {a.rw}, staged : {NotStaged},
                 gathered : {none}, at : {0}, counter : {a.counter}, stuck : {a.stuck}]
  <2> DEFINE d == JobDone(i)
  <2>1. d \in [job : {a.job + 1}, phase : {"next"}, rw : {a.rw}, staged : {s},
               gathered : {none}, at : {0}, counter : {a.counter}, stuck : {a.stuck}]
    BY <1>3 DEF JobDone
  <2> HIDE DEF d, s
  <2>2. me = [d EXCEPT !.staged = NotStaged]
    BY DEF d
  <2> HIDE DEF me, a
  <2>3. QED
    BY <2>1, <2>2
<1>7. me.phase = "next"
  BY <1>6
<1> HIDE DEF me
<1>8. /\ after \in [job : {a.job + 1}, phase : {"next"}, rw : {Next1(new)}, staged : {NotStaged},
                    gathered : {none}, at : {0}, counter : {a.counter}, stuck : {a.stuck}]
      /\ after = [me EXCEPT !.rw = IF me.phase = "persisted" THEN NoMount ELSE Next1(new)]
  <2>1. after = [me EXCEPT !.rw = IF me.phase = "persisted" THEN NoMount ELSE Next1(new)]
    OBVIOUS
  <2>2. after = [me EXCEPT !.rw = Next1(new)]
    BY <1>7
  <2> HIDE DEF after, a
  <2>3. QED
    BY <1>6, <2>1, <2>2
<1> HIDE DEF after
<1>9. /\ after.staged = NotStaged /\ after.stuck = a.stuck
      /\ after = [job |-> a.job + 1, phase |-> "next", rw |-> after.rw, staged |-> NotStaged,
                  gathered |-> none, at |-> 0, counter |-> a.counter, stuck |-> a.stuck]
  BY <1>8
<1>10. ShapeOf(i, after) /\ \A v : HeldOf(i, after, v)
  BY <1>1, <1>5, <1>9, OverIs
<1>11. ASSUME ~Taken(i, s.path), Exists(a.rw, s.name), IsDir(a.rw, Front(s.path)), ~Stale(i)
       PROVE  /\ MayMake(i, new)
              /\ ToldOf(i, after, new, faults[i]) /\ ToldOf(i, a, new, faults[i])
  <2>1. a.rw = vol
    BY <1>1, <1>11, Current
  <2>2. s.name \in DOMAIN vol.dir /\ IsDir(vol, Front(s.path))
    BY <1>11, <2>1 DEF Exists
  <2>3. vol.node[vol.dir[s.name]].data = Source(i, a.job)
    BY <1>1, <1>2, <2>2 DEF HeldOf, Staging, Exists, Prefix, Source
  <2>4. s.path = JobOf(i).path /\ s.path \in Path /\ Public(s.path) /\ JobOf(i).op = "file"
    BY <1>3, <1>4
  <2>5. new = Renamed(vol, s.name, s.path)
    BY <2>1 DEF new
  <2>6. /\ MayMake(i, new)
        /\ \A q \in DOMAIN new.dir : Public(q) \/ (q # s.name /\ q \in DOMAIN vol.dir)
    <3> DEFINE to == s.path
               from == s.name
    <3>1. to \in Path /\ to = JobOf(i).path /\ Public(to)
          /\ from \in DOMAIN vol.dir /\ from = imp[i].staged.name /\ IsPartial(from, i)
          /\ vol.node[vol.dir[from]].data = Source(i, imp[i].job)
          /\ IsDir(vol, Front(to)) /\ ~Taken(i, to)
      BY <1>3, <1>11, <2>2, <2>3, <2>4
    <3>2. new = Renamed(vol, from, to)
      BY <2>5
    <3> HIDE DEF to, from
    <3>3. /\ MayMake(i, new)
          /\ \A q \in DOMAIN new.dir : Public(q) \/ (q # from /\ q \in DOMAIN vol.dir)
      BY <1>1, <1>11, <2>4, <3>1, <3>2, MayRename
    <3>4. QED
      BY <3>3 DEF from
  <2>7. QED
    BY <1>2, <1>9, <2>6, StillTold
<1>12. CASE /\ ~Taken(i, s.path) /\ Exists(a.rw, s.name) /\ IsDir(a.rw, Front(s.path))
            /\ Call(i, me, new)
  BY <1>1, <1>8, <1>10, <1>11, <1>12, CallEffect
<1>13. QED
  BY <1>1, <1>12, DropEffect

(* abort.                                                                   *)
LEMMA AbortEffect ==
  ASSUME ImportAssumption, IInv, NEW i \in Importer, Abort(i)
  PROVE  Effect(i)
<1> DEFINE a == imp[i]
           name == a.staged.name
           none == <<>>
           over == [JobDone(i) EXCEPT !.staged = NotStaged, !.gathered = <<>>,
                                      !.at = 0, !.rw = NoMount]
           told == [over EXCEPT !.stuck = @ \cup {name}]
           new == Unlinked(a.rw, name)
<1>1. /\ ~Ended(i) /\ UNCHANGED around /\ a.phase = "abort"
      /\ \/ a.staged = NotStaged /\ Fails(i, over)
         \/ /\ a.staged # NotStaged /\ ~Exists(a.rw, name) /\ Fails(i, IF Stale(i) THEN told ELSE over)
         \/ /\ a.staged # NotStaged /\ Exists(a.rw, name) /\ ~Stale(i)
            /\ vol' = Next1(new) /\ was' = Settled
            /\ imp' = [imp EXCEPT ![i] = over] /\ UNCHANGED faults
         \/ a.staged # NotStaged /\ Exists(a.rw, name) /\ FailsLate(i, told, new)
         \/ a.staged # NotStaged /\ Fails(i, told)
  BY DEF Abort, At
<1>2. /\ ShapeOf(i, a) /\ ToldOf(i, a, vol, faults[i]) /\ vol.gen \in Nat /\ vol.gen # 0
  BY AtOne
<1>3. /\ a \in [job : Nat \ {0}, phase : Phases, rw : {a.rw},
                staged : [path : Seq(Name), name : Seq(Name), ino : Nat],
                gathered : Seq(Byte), at : Nat, counter : Nat, stuck : {a.stuck}]
      /\ a.staged # NotStaged => name \in Path /\ IsPartial(name, i)
  BY <1>1, <1>2 DEF ShapeOf
<1>4. none = <<>>
  OBVIOUS
<1>5. over \in [job : {a.job + 1}, phase : {"next"}, rw : {NoMount}, staged : {NotStaged},
                gathered : {none}, at : {0}, counter : {a.counter}, stuck : {a.stuck}]
  <2> DEFINE d == JobDone(i)
  <2>1. d \in [job : {a.job + 1}, phase : {"next"}, rw : {a.rw}, staged : {a.staged},
               gathered : {a.gathered}, at : {a.at}, counter : {a.counter}, stuck : {a.stuck}]
    BY <1>3 DEF JobDone
  <2> HIDE DEF d
  <2>2. over = [d EXCEPT !.staged = NotStaged, !.gathered = none, !.at = 0, !.rw = NoMount]
    BY DEF d
  <2> HIDE DEF over, none, a
  <2>3. QED
    BY <2>1, <2>2
<1> HIDE DEF over, none
<1>6. told \in [job : {a.job + 1}, phase : {"next"}, rw : {NoMount}, staged : {NotStaged},
                gathered : {none}, at : {0}, counter : {a.counter}, stuck : {a.stuck \cup {name}}]
  <2> HIDE DEF a, name
  <2>1. QED
    BY <1>5
<1> HIDE DEF told
<1>7. /\ over.staged = NotStaged /\ over.stuck = a.stuck /\ over.rw = NoMount
      /\ over = [job |-> a.job + 1, phase |-> "next", rw |-> NoMount, staged |-> NotStaged,
                 gathered |-> none, at |-> 0, counter |-> a.counter, stuck |-> a.stuck]
  BY <1>5
<1>8. /\ told.staged = NotStaged /\ told.stuck = a.stuck \cup {name} /\ told.rw = NoMount
      /\ told = [job |-> a.job + 1, phase |-> "next", rw |-> NoMount, staged |-> NotStaged,
                 gathered |-> none, at |-> 0, counter |-> a.counter, stuck |-> a.stuck \cup {name}]
  BY <1>6
<1>9. ShapeOf(i, over) /\ \A v : HeldOf(i, over, v)
  BY <1>1, <1>4, <1>7, OverIs
<1>10. ShapeOf(i, told) /\ \A v : HeldOf(i, told, v)
  BY <1>1, <1>4, <1>8, OverIs
<1>11. ToldOf(i, told, vol, faults[i])
  BY <1>2, <1>8 DEF ToldOf
<1>12. MountOf(i, over, vol) /\ MountOf(i, told, vol)
  <2>1. over.rw.gen = 0 /\ told.rw.gen = 0
    BY <1>7, <1>8 DEF NoMount
  <2>2. QED
    BY <1>2, <2>1 DEF MountOf
<1>13. CASE a.staged = NotStaged /\ Fails(i, over)
  <2>1. ToldOf(i, over, vol, faults[i])
    BY <1>2, <1>7, <1>13 DEF ToldOf
  <2>2. QED
    BY <1>1, <1>9, <1>12, <1>13, <2>1, FailsEffect
<1>14. CASE Fails(i, told)
  BY <1>1, <1>10, <1>11, <1>12, <1>14, FailsEffect
<1>15. CASE a.staged # NotStaged /\ ~Exists(a.rw, name) /\ Fails(i, IF Stale(i) THEN told ELSE over)
  <2>1. CASE Stale(i)
    BY <1>14, <1>15, <2>1
  <2>2. CASE ~Stale(i)
    <3>1. name \notin DOMAIN vol.dir /\ Fails(i, over)
      BY <1>1, <1>15, <2>2, Current DEF Exists
    <3>2. ToldOf(i, over, vol, faults[i])
      BY <1>2, <1>7, <3>1 DEF ToldOf
    <3>3. QED
      BY <1>1, <1>9, <1>12, <3>1, <3>2, FailsEffect
  <2>3. QED
    BY <2>1, <2>2
<1>16. ASSUME a.staged # NotStaged, Exists(a.rw, name), ~Stale(i)
       PROVE  /\ MayMake(i, new)
              /\ ToldOf(i, over, new, faults[i]) /\ ToldOf(i, told, new, faults[i])
  <2>1. a.rw = vol /\ name \in DOMAIN vol.dir /\ IsPartial(name, i)
    BY <1>1, <1>3, <1>16, Current DEF Exists
  <2>2. new = Unlinked(vol, name)
    BY <2>1
  <2> HIDE DEF new
  <2>3. MayMake(i, new) /\ \A q \in DOMAIN new.dir : q # name /\ q \in DOMAIN vol.dir
    <3> HIDE DEF name
    <3>1. QED
      BY <2>1, <2>2, MayUnlink
  <2>4. QED
    BY <1>2, <1>7, <1>8, <2>3 DEF ToldOf
<1> HIDE DEF new
<1>17. CASE /\ a.staged # NotStaged /\ Exists(a.rw, name) /\ ~Stale(i)
            /\ vol' = Next1(new) /\ was' = Settled
            /\ imp' = [imp EXCEPT ![i] = over] /\ UNCHANGED faults
  <2>1. faults' \in [Importer -> Seq(Phases)] /\ faults' = faults
    BY <1>17 DEF IInv
  <2>2. QED
    BY <1>1, <1>7, <1>9, <1>16, <1>17, <2>1, MadeEffect
<1>18. CASE a.staged # NotStaged /\ Exists(a.rw, name) /\ FailsLate(i, told, new)
  <2>1. ~Stale(i)
    BY <1>18 DEF FailsLate
  <2>2. QED
    BY <1>1, <1>8, <1>10, <1>16, <1>18, <2>1, FailsLateEffect
<1>19. QED
  BY <1>1, <1>13, <1>14, <1>15, <1>17, <1>18

(* A process that was killed has nothing.                                   *)
LEMMA KilledIs ==
  ASSUME ImportAssumption, IInv, NEW i \in Importer
  PROVE  /\ ShapeOf(i, Killed(i)) /\ \A v : HeldOf(i, Killed(i), v)
         /\ Killed(i).rw = NoMount /\ Killed(i).phase = "killed" /\ MountOf(i, Killed(i), vol)
<1> DEFINE a == imp[i]
           m == Killed(i)
           none == <<>>
<1>1. ShapeOf(i, a) /\ vol.gen \in Nat /\ vol.gen # 0 /\ Len(around.jobs[i]) \in Nat
  BY AtOne
<1>2. a.counter \in Nat
  BY <1>1 DEF ShapeOf
<1>3. none \in Seq(Byte) /\ none \in Seq(Name) /\ Len(none) = 0 /\ 0 < Gathered
  BY DEF ImportAssumption
<1>4. NotStaged \in [path : Seq(Name), name : Seq(Name), ino : Nat]
  <2>1. NotStaged = [path |-> none, name |-> none, ino |-> 0]
    BY DEF NotStaged
  <2> HIDE DEF none
  <2>2. QED
    BY <1>3, <2>1
<1>5. Fresh \in [job : {1}, phase : {"next"}, rw : {NoMount}, staged : {NotStaged},
                 gathered : {none}, at : {0}, counter : {0}, stuck : {{}}]
  <2> HIDE DEF none
  <2>1. Fresh = [job |-> 1, phase |-> "next", rw |-> NoMount, staged |-> NotStaged,
                 gathered |-> none, at |-> 0, counter |-> 0, stuck |-> {}]
    BY DEF Fresh, none
  <2>2. QED
    BY <2>1
<1> HIDE DEF none
<1>6. m \in [job : {1}, phase : {"killed"}, rw : {NoMount}, staged : {NotStaged},
             gathered : {none}, at : {0}, counter : {a.counter}, stuck : {a.stuck}]
  <2>1. m = [Fresh EXCEPT !.phase = "killed", !.counter = a.counter, !.stuck = a.stuck]
    BY DEF Killed
  <2> HIDE DEF m, a
  <2>2. QED
    BY <1>5, <2>1
<1> HIDE DEF m
<1>7. /\ m.job = 1 /\ m.phase = "killed" /\ m.rw = NoMount /\ m.staged = NotStaged
      /\ m.gathered = none /\ m.at = 0 /\ m.stuck = a.stuck
  BY <1>6
<1>8. m \in [job : Nat \ {0}, phase : Phases, rw : {m.rw},
             staged : [path : Seq(Name), name : Seq(Name), ino : Nat],
             gathered : Seq(Byte), at : Nat, counter : Nat, stuck : {m.stuck}]
  <2>1. "killed" \in Phases /\ 1 \in Nat \ {0} /\ 0 \in Nat
    BY DEF Phases
  <2>2. QED
    BY <1>2, <1>3, <1>4, <1>6, <1>7, <2>1
<1>9. ShapeOf(i, m)
  BY <1>1, <1>3, <1>7, <1>8 DEF ShapeOf, Staging, none
<1>10. \A v : HeldOf(i, m, v)
  BY <1>7 DEF HeldOf, Staging
<1>11. MountOf(i, m, vol)
  <2>1. m.rw.gen = 0
    BY <1>7 DEF NoMount
  <2>2. QED
    BY <1>1, <1>7, <2>1 DEF MountOf
<1>12. QED
  BY <1>7, <1>9, <1>10, <1>11 DEF m

(* A kill.                                                                  *)
LEMMA KillEffect ==
  ASSUME ImportAssumption, IInv, NEW i \in Importer, Kill(i)
  PROVE  Effect(i)
<1> DEFINE m == Killed(i)
           g == Append(faults[i], "killed")
<1>1. /\ vol' = vol /\ was' = was /\ around' = around
      /\ imp' = [imp EXCEPT ![i] = m] /\ faults' = [faults EXCEPT ![i] = g]
  BY DEF Kill
<1>2. "killed" \in Phases
  BY DEF Phases
<1>3. g \in Seq(Phases) /\ "killed" \in Range(g)
  BY <1>2, AtOne, Worse
<1> HIDE DEF m, g
<1>4. imp \in [Importer -> {imp[k] : k \in Importer}] /\ faults \in [Importer -> Seq(Phases)]
  BY DEF IInv
<1>5. /\ imp'[i] = m /\ faults'[i] = g
      /\ \A k \in Importer \ {i} : imp'[k] = imp[k] /\ faults'[k] = faults[k]
      /\ imp' \in [Importer -> {imp'[k] : k \in Importer}] /\ faults' \in [Importer -> Seq(Phases)]
  BY <1>1, <1>3, <1>4
<1>6. ShapeOf(i, m) /\ MountOf(i, m, vol) /\ HeldOf(i, m, vol)
  BY KilledIs DEF m
<1>7. ToldOf(i, m, vol, g)
  BY <1>3 DEF ToldOf
<1>8. /\ \A k \in Importer : Keeps(k, vol, vol)
      /\ AskedOf(i, vol)
  BY DEF Keeps, AskedOf
<1>9. QED
  BY <1>1, <1>5, <1>6, <1>7, <1>8 DEF Effect

(* A step of an import.                                                     *)
LEMMA StepEffect ==
  ASSUME ImportAssumption, IInv, NEW i \in Importer,
         Steps(i) \/ Cancel(i) \/ Kill(i) \/ Again(i)
  PROVE  Effect(i)
<1>1. CASE ImportFile(i)
  BY <1>1, StageEffect, WriteAtEffect, PersistEffect, ReadBackEffect, PublishEffect, AbortEffect
  DEF ImportFile
<1>2. CASE ImportEntry(i)
  BY <1>2, CreateDirEffect, CreateSymbolicLinkEffect, CreateHardLinkEffect, SetAttributesEffect
  DEF ImportEntry
<1>3. CASE MountRw(i) \/ Cancel(i) \/ Kill(i) \/ Again(i)
  BY <1>3, MountRwEffect, CancelEffect, KillEffect, AgainEffect
<1>4. QED
  BY <1>1, <1>2, <1>3 DEF Steps

-----------------------------------------------------------------------------
\* What other programs and the power do.

(* Another program's commit that keeps what imports staged.                 *)
LEMMA ChangeKeeps ==
  ASSUME ImportAssumption, IInv, NEW w, VolOK(w), w.gen = vol.gen,
         \A k \in Importer : Keeps(k, vol, w), Change(w)
  PROVE  IInv'
<1>1. /\ vol' = Next1(w) /\ was' = Settled /\ imp' = imp /\ faults' = faults
      /\ around' = [around EXCEPT !.others = @ + 1]
  BY DEF Change
<1>2. /\ vol'.gen = vol.gen + 1 /\ vol'.dir = w.dir /\ vol'.node = w.node /\ VolOK(vol')
  BY <1>1, Committed
<1>3. AroundOK /\ around \in [jobs : {around.jobs}, bound : Nat, others : Nat, cuts : Nat]
  BY DEF IInv, AroundOK
<1>4. /\ around' \in [jobs : {around.jobs}, bound : Nat, others : Nat, cuts : Nat]
      /\ around'.cuts = around.cuts /\ around'.jobs = around.jobs
  BY <1>1, <1>3
<1>5. AroundOK'
  BY <1>3, <1>4 DEF AroundOK
<1>6. ASSUME NEW k \in Importer
      PROVE  /\ ShapeOf(k, imp[k]) /\ HeldOf(k, imp[k], vol')
             /\ MountOf(k, imp[k], vol') /\ ToldOf(k, imp[k], vol', faults[k])
  <2> DEFINE m == imp[k]
  <2>1. /\ ShapeOf(k, m) /\ HeldOf(k, m, vol) /\ MountOf(k, m, vol) /\ ToldOf(k, m, vol, faults[k])
        /\ vol.gen \in Nat
    BY AtOne
  <2>2. Keeps(k, vol, w)
    OBVIOUS
  <2> HIDE DEF m
  <2>3. Keeps(k, vol, vol')
    BY <1>2, <2>2 DEF Keeps
  <2>4. HeldOf(k, m, vol')
    <3>1. Staging(m) => IsPartial(m.staged.name, k)
      BY <2>1 DEF ShapeOf
    <3>2. QED
      BY <2>1, <2>3, <3>1 DEF HeldOf, Keeps, Exists
  <2>5. MountOf(k, m, vol')
    BY <1>2, <2>1 DEF MountOf
  <2>6. ToldOf(k, m, vol', faults[k])
    BY <2>1, <2>3 DEF ToldOf, Keeps
  <2>7. QED
    BY <2>1, <2>4, <2>5, <2>6 DEF m
<1>7. \A k \in Importer : /\ ShapeOf(k, imp[k])' /\ HeldOf(k, imp[k], vol)'
                          /\ MountOf(k, imp[k], vol)' /\ ToldOf(k, imp[k], vol, faults[k])'
  <2>1. \A k \in Importer : /\ ShapeOf(k, imp[k])' <=> ShapeOf(k, imp'[k])
                            /\ HeldOf(k, imp[k], vol)' <=> HeldOf(k, imp'[k], vol')
                            /\ MountOf(k, imp'[k], vol') => MountOf(k, imp[k], vol)'
                            /\ ToldOf(k, imp'[k], vol', faults'[k]) =>
                                 ToldOf(k, imp[k], vol, faults[k])'
    BY <1>4, JobsSame DEF MountOf, ToldOf
  <2>2. QED
    BY <1>1, <1>6, <2>1
<1>8. VolOK(vol)' <=> VolOK(vol')
  BY <1>4, JobsSame
<1>9. (was = Settled)'
  BY <1>1
<1>10. (imp \in [Importer -> {imp[i] : i \in Importer}] /\ faults \in [Importer -> Seq(Phases)])'
  BY <1>1 DEF IInv
<1>11. QED
  BY <1>2, <1>5, <1>7, <1>8, <1>9, <1>10 DEF IInv

(* Another program's file under a name that was free.                       *)
LEMMA TheirsIs ==
  ASSUME NEW v, VolOK(v), NEW path \in Path, Public(path), path \notin DOMAIN v.dir,
         IsDir(v, Front(path))
  PROVE  LET new == Created(v, path, "file")
             w == Wrote(new, new.dir[path], 0, <<Theirs>>)
         IN  VolOK(w) /\ w.gen = v.gen /\ \A k \in Importer : Keeps(k, v, w)
<1> DEFINE new == Created(v, path, "file")
           o == new.dir[path]
           bytes == <<Theirs>>
           w == Wrote(new, o, 0, bytes)
<1>1. Sound(v) /\ Placed(v) /\ WholeIn(v)
  BY DEF VolOK
<1>2. /\ Sound(new) /\ Placed(new) /\ new.gen = v.gen
      /\ DOMAIN new.dir = DOMAIN v.dir \cup {path}
      /\ \A p \in DOMAIN v.dir : p # path /\ new.dir[p] = v.dir[p]
      /\ \A x \in DOMAIN v.node : new.node[x] = v.node[x]
  <2>1. "file" \in {"file", "dir", "symlink"}
    OBVIOUS
  <2>2. QED
    BY <1>1, <2>1, CreatedSound
<1>3. o = NextIno(v) /\ NextIno(v) \notin DOMAIN v.node
  BY <1>1, CreatedIs
<1> HIDE DEF new
<1>4. /\ \A p \in DOMAIN v.dir : v.dir[p] \in DOMAIN v.node
      /\ \A p \in DOMAIN new.dir : new.dir[p] \in DOMAIN new.node
  BY <1>1, <1>2, SoundIs
<1>5. o \in DOMAIN new.node
  BY <1>2, <1>4
<1>6. bytes \in Seq(Byte) /\ Len(bytes) = 1 /\ bytes[1] = Theirs
  BY DEF Theirs, Byte
<1> HIDE DEF bytes, o
<1>7. w = Put(new, o, Longer(new, o, bytes))
  <2> DEFINE old == new.node[o].data
             d == [k \in 1 .. 0 + Len(bytes) |-> IF k <= 0 THEN old[k] ELSE bytes[k - 0]]
  <2>1. DOMAIN d = 1 .. 1 /\ d[1] = bytes[1] /\ d = [k \in 1 .. 1 |-> d[k]]
    BY <1>6
  <2>2. DOMAIN bytes = 1 .. 1 /\ bytes = [k \in 1 .. 1 |-> bytes[k]]
    BY <1>6
  <2>3. w = [new EXCEPT !.node[o].data = d]
    BY DEF Wrote
  <2> HIDE DEF d
  <2>4. d = bytes
    BY <2>1, <2>2
  <2>5. [new EXCEPT !.node[o].data = bytes] = Put(new, o, Longer(new, o, bytes))
    BY DEF Put, Longer
  <2>6. QED
    BY <2>3, <2>4, <2>5
<1> DEFINE n == Longer(new, o, bytes)
<1>8. n \in Node /\ n.kind = new.node[o].kind /\ n.data = bytes
  BY <1>2, <1>5, <1>6, LongerIs
<1>9. w = Put(new, o, n)
  BY <1>7
<1> HIDE DEF w, n
<1>10. /\ Sound(w) /\ Placed(w) /\ w.gen = new.gen /\ w.dir = new.dir
       /\ DOMAIN w.node = DOMAIN new.node /\ w.node[o] = n
       /\ \A x \in DOMAIN new.node : x # o => w.node[x] = new.node[x]
  BY <1>2, <1>5, <1>8, <1>9, NodeSound
<1>11. \A p \in DOMAIN v.dir : w.dir[p] = v.dir[p] /\ w.node[w.dir[p]] = v.node[v.dir[p]]
  <2> SUFFICES ASSUME NEW p \in DOMAIN v.dir
               PROVE  w.dir[p] = v.dir[p] /\ w.node[w.dir[p]] = v.node[v.dir[p]]
    OBVIOUS
  <2>1. p \in DOMAIN new.dir /\ new.dir[p] = v.dir[p] /\ v.dir[p] \in DOMAIN v.node
    BY <1>2, <1>4
  <2>2. v.dir[p] \in DOMAIN new.node /\ v.dir[p] # o
    BY <1>3, <1>4, <2>1
  <2>3. QED
    BY <1>2, <1>10, <2>1, <2>2
<1>12. DOMAIN w.dir = DOMAIN v.dir \cup {path} /\ w.node[w.dir[path]].data = <<Theirs>>
  BY <1>2, <1>8, <1>10 DEF o, bytes
<1>13. WholeIn(w)
  <2> SUFFICES ASSUME NEW p \in DOMAIN w.dir, Public(p), KindAt(w, p) = "file"
               PROVE  WholeAt(p, w.node[w.dir[p]].data)
    BY DEF WholeIn
  <2>1. CASE p \in DOMAIN v.dir
    BY <1>1, <1>11, <2>1 DEF WholeIn, KindAt
  <2>2. CASE p = path
    BY <1>12, <2>2 DEF WholeAt
  <2>3. QED
    BY <1>12, <2>1, <2>2
<1>14. \A k \in Importer : Keeps(k, v, w)
  BY <1>11, <1>12 DEF Keeps, Public
<1>15. QED
  BY <1>2, <1>10, <1>13, <1>14 DEF VolOK, w, o, new, bytes

(* A name removed that nothing is under.                                    *)
LEMMA LessIs ==
  ASSUME NEW v, VolOK(v), NEW path, \A p \in DOMAIN v.dir : Front(p) # path
  PROVE  LET w == Unlinked(v, path)
         IN  /\ VolOK(w) /\ w.gen = v.gen /\ path \notin DOMAIN w.dir
             /\ \A k \in Importer : Keeps(k, v, w)
             /\ \A p : IsDir(v, p) /\ p # path => IsDir(w, p)
<1> DEFINE w == Unlinked(v, path)
<1>1. Sound(v) /\ Placed(v) /\ WholeIn(v)
  BY DEF VolOK
<1>2. /\ Sound(w) /\ Placed(w) /\ w.gen = v.gen
      /\ DOMAIN w.dir = DOMAIN v.dir \ {path}
      /\ \A p \in DOMAIN w.dir : /\ w.dir[p] = v.dir[p]
                                 /\ w.node[w.dir[p]] = v.node[v.dir[p]]
      /\ \A p : IsDir(v, p) /\ p # path => IsDir(w, p)
  BY <1>1, UnlinkedSound
<1> HIDE DEF w
<1>3. WholeIn(w)
  BY <1>1, <1>2 DEF WholeIn, KindAt
<1>4. \A k \in Importer : Keeps(k, v, w)
  BY <1>2 DEF Keeps
<1>5. QED
  BY <1>2, <1>3, <1>4 DEF VolOK, w

(* Another program removes a name.                                          *)
LEMMA OtherRemovesKeeps ==
  ASSUME ImportAssumption, IInv, NEW path, OtherRemoves(path)
  PROVE  IInv'
<1> DEFINE w == Unlinked(vol, path)
<1>1. Change(w) /\ \A p \in DOMAIN vol.dir : Front(p) # path
  BY DEF OtherRemoves
<1>2. VolOK(vol)
  BY DEF IInv
<1>3. VolOK(w) /\ w.gen = vol.gen /\ \A k \in Importer : Keeps(k, vol, w)
  BY <1>1, <1>2, LessIs
<1> HIDE DEF w
<1>4. QED
  BY <1>1, <1>3, ChangeKeeps

(* Another program puts a file under a name an import is for.               *)
LEMMA OtherPutsKeeps ==
  ASSUME ImportAssumption, IInv, NEW path \in Targets, OtherPuts(path)
  PROVE  IInv'
<1> DEFINE v == IF Exists(vol, path) THEN Unlinked(vol, path) ELSE vol
           new == Created(v, path, "file")
           w == Wrote(new, new.dir[path], 0, <<Theirs>>)
<1>1. IsDir(vol, Front(path)) /\ ~IsDir(vol, path) /\ Change(w)
  BY DEF OtherPuts
<1>2. VolOK(vol)
  BY DEF IInv
<1>3. path \in Path /\ Public(path)
  <2>1. PICK i \in Importer : \E j \in Range(around.jobs[i]) : path = j.path
    BY DEF Targets
  <2>2. PICK j \in Range(around.jobs[i]) : path = j.path
    BY <2>1
  <2>3. PICK k \in DOMAIN around.jobs[i] : j = around.jobs[i][k]
    BY DEF Range
  <2>4. around.jobs[i] \in Seq(Job) /\ DOMAIN around.jobs[i] = 1 .. Len(around.jobs[i])
    BY AtOne, LenProperties
  <2>5. j \in Job /\ Public(j.path)
    BY <2>3, <2>4 DEF IInv, AroundOK
  <2>6. QED
    BY <2>2, <2>5 DEF Job
<1>4. /\ VolOK(v) /\ v.gen = vol.gen /\ path \notin DOMAIN v.dir /\ IsDir(v, Front(path))
      /\ \A k \in Importer : Keeps(k, vol, v)
  <2>1. CASE Exists(vol, path)
    <3>1. v = Unlinked(vol, path) /\ path \in DOMAIN vol.dir
      BY <2>1 DEF Exists
    <3>2. /\ \A p \in DOMAIN vol.dir : Front(p) # path
          /\ Front(path) # path
      BY <1>1, <1>2, <3>1, SoundIs DEF VolOK
    <3> HIDE DEF v
    <3>3. QED
      BY <1>1, <1>2, <3>1, <3>2, LessIs
  <2>2. CASE ~Exists(vol, path)
    BY <1>1, <1>2, <2>2 DEF Exists, Keeps
  <2>3. QED
    BY <2>1, <2>2
<1> HIDE DEF v
<1>5. VolOK(w) /\ w.gen = v.gen /\ \A k \in Importer : Keeps(k, v, w)
  BY <1>3, <1>4, TheirsIs
<1> HIDE DEF w
<1>6. \A k \in Importer : Keeps(k, vol, w)
  BY <1>4, <1>5 DEF Keeps
<1>7. QED
  BY <1>1, <1>4, <1>5, <1>6, ChangeKeeps

(* The power goes.                                                          *)
LEMMA PowerCutKeeps ==
  ASSUME ImportAssumption, IInv, PowerCut
  PROVE  IInv'
<1>1. /\ vol' \in {vol} \cup ({was} \ {Settled}) /\ was' = Settled
      /\ imp' = [i \in Importer |-> IF Ended(i) THEN imp[i] ELSE Killed(i)]
      /\ faults' = [i \in Importer |-> IF Ended(i) THEN faults[i] ELSE Append(faults[i], "killed")]
      /\ around' = [around EXCEPT !.cuts = @ + 1]
  BY DEF PowerCut
<1>2. VolOK(vol')
  BY <1>1 DEF IInv
<1>3. AroundOK /\ around \in [jobs : {around.jobs}, bound : Nat, others : Nat, cuts : Nat]
  BY DEF IInv, AroundOK
<1>4. /\ around' \in [jobs : {around.jobs}, bound : Nat, others : Nat, cuts : Nat]
      /\ around'.cuts = around.cuts + 1 /\ around'.jobs = around.jobs
  BY <1>1, <1>3
<1>5. around'.cuts # 0
  BY <1>3, <1>4
<1>6. AroundOK'
  BY <1>3, <1>4 DEF AroundOK
<1>7. vol'.gen \in Nat
  BY <1>2, SoundIs DEF VolOK
<1>8. ASSUME NEW k \in Importer
      PROVE  /\ imp'[k] = IF Ended(k) THEN imp[k] ELSE Killed(k)
             /\ faults'[k] \in Seq(Phases)
             /\ ShapeOf(k, imp'[k]) /\ HeldOf(k, imp'[k], vol') /\ imp'[k].rw.gen \in Nat
             /\ imp'[k].phase = "killed" \/ imp'[k].job > Len(around.jobs[k])
  <2>1. CASE Ended(k)
    <3>1. imp'[k] = imp[k] /\ faults'[k] = faults[k]
      BY <1>1, <2>1
    <3>2. /\ ShapeOf(k, imp[k]) /\ MountOf(k, imp[k], vol) /\ faults[k] \in Seq(Phases)
          /\ imp[k].job \in Nat /\ Len(around.jobs[k]) \in Nat
      BY AtOne
    <3>3. imp[k].phase = "killed" \/ imp[k].job > Len(around.jobs[k])
      BY <2>1 DEF Ended
    <3>4. ~ Staging(imp[k])
      BY <3>2, <3>3 DEF ShapeOf, Staging
    <3>5. QED
      BY <2>1, <3>1, <3>2, <3>3, <3>4 DEF HeldOf, MountOf
  <2>2. CASE ~Ended(k)
    <3>1. imp'[k] = Killed(k) /\ faults'[k] = Append(faults[k], "killed")
      BY <1>1, <2>2
    <3>2. ShapeOf(k, Killed(k)) /\ HeldOf(k, Killed(k), vol') /\ MountOf(k, Killed(k), vol)
          /\ Killed(k).phase = "killed"
      BY KilledIs
    <3>3. "killed" \in Phases /\ faults[k] \in Seq(Phases)
      BY AtOne DEF Phases
    <3>4. faults'[k] \in Seq(Phases)
      BY <3>1, <3>3, Worse
    <3>5. Killed(k).rw.gen \in Nat
      BY <3>2 DEF MountOf
    <3>6. QED
      BY <2>2, <3>1, <3>2, <3>4, <3>5
  <2>3. QED
    BY <2>1, <2>2
<1>9. \A k \in Importer : /\ ShapeOf(k, imp[k])' <=> ShapeOf(k, imp'[k])
                          /\ HeldOf(k, imp[k], vol)' <=> HeldOf(k, imp'[k], vol')
  BY <1>4, JobsSame
<1>10. ASSUME NEW k \in Importer
       PROVE  MountOf(k, imp[k], vol)' /\ ToldOf(k, imp[k], vol, faults[k])'
  <2>1. /\ imp'[k].rw.gen \in Nat
        /\ imp'[k].phase = "killed" \/ imp'[k].job > Len(around.jobs[k])
        /\ ShapeOf(k, imp'[k])
    BY <1>8
  <2>2. imp'[k].job \in Nat /\ Len(around.jobs[k]) \in Nat
    BY <2>1, AtOne DEF ShapeOf
  <2>3. ~(imp'[k].phase # "killed" /\ imp'[k].job <= Len(around'.jobs[k]))
    BY <1>4, <2>1, <2>2
  <2>4. QED
    BY <1>5, <2>1, <2>3 DEF MountOf, ToldOf
<1>11. VolOK(vol)' <=> VolOK(vol')
  BY <1>4, JobsSame
<1>12. imp' \in [Importer -> {imp'[k] : k \in Importer}] /\ faults' \in [Importer -> Seq(Phases)]
  <2>1. /\ imp' = [k \in Importer |-> imp'[k]] /\ faults' = [k \in Importer |-> faults'[k]]
    BY <1>1
  <2>2. QED
    BY <1>8, <2>1
<1>13. QED
  BY <1>1, <1>2, <1>6, <1>8, <1>9, <1>10, <1>11, <1>12 DEF IInv

-----------------------------------------------------------------------------
\* The theorems.

(* A first process has done nothing.                                        *)
LEMMA FreshIs ==
  ASSUME ImportAssumption, NEW i \in Importer, Len(around.jobs[i]) \in Nat
  PROVE  /\ ShapeOf(i, Fresh) /\ \A v : HeldOf(i, Fresh, v)
         /\ Fresh.rw = NoMount
<1> DEFINE none == <<>>
           m == Fresh
<1>1. none \in Seq(Byte) /\ none \in Seq(Name) /\ Len(none) = 0 /\ 0 < Gathered
  BY DEF ImportAssumption
<1>2. NotStaged \in [path : Seq(Name), name : Seq(Name), ino : Nat]
  <2>1. NotStaged = [path |-> none, name |-> none, ino |-> 0]
    BY DEF NotStaged
  <2> HIDE DEF none
  <2>2. QED
    BY <1>1, <2>1
<1>3. m \in [job : {1}, phase : {"next"}, rw : {NoMount}, staged : {NotStaged},
             gathered : {none}, at : {0}, counter : {0}, stuck : {{}}]
  <2> HIDE DEF none
  <2>1. m = [job |-> 1, phase |-> "next", rw |-> NoMount, staged |-> NotStaged,
             gathered |-> none, at |-> 0, counter |-> 0, stuck |-> {}]
    BY DEF Fresh, none
  <2>2. QED
    BY <2>1
<1> HIDE DEF none, m
<1>4. /\ m.job = 1 /\ m.phase = "next" /\ m.rw = NoMount /\ m.staged = NotStaged
      /\ m.gathered = none /\ m.at = 0
  BY <1>3
<1>5. m \in [job : Nat \ {0}, phase : Phases, rw : {m.rw},
             staged : [path : Seq(Name), name : Seq(Name), ino : Nat],
             gathered : Seq(Byte), at : Nat, counter : Nat, stuck : {m.stuck}]
  <2>1. "next" \in Phases /\ 1 \in Nat \ {0} /\ 0 \in Nat
    BY DEF Phases
  <2>2. QED
    BY <1>1, <1>2, <1>3, <1>4, <2>1
<1>6. ShapeOf(i, m)
  BY <1>1, <1>4, <1>5 DEF ShapeOf, Staging, none
<1>7. \A v : HeldOf(i, m, v)
  BY <1>4 DEF HeldOf, Staging
<1>8. QED
  BY <1>4, <1>6, <1>7 DEF m

(* It holds at first.                                                       *)
LEMMA InitIInv ==
  ASSUME ImportAssumption, StartsAssumption, Init
  PROVE  IInv
<1>1. PICK s \in Starts :
        /\ vol = s.vol
        /\ around = [jobs |-> s.jobs, bound |-> s.bound, others |-> 0, cuts |-> 0]
  BY DEF Init
<1>2. /\ was = Settled /\ imp = [i \in Importer |-> Fresh] /\ faults = [i \in Importer |-> <<>>]
  BY DEF Init
<1>3. /\ Sound(vol) /\ s.bound \in Nat
      /\ \A path \in DOMAIN vol.dir :
           Public(path) /\ (KindAt(vol, path) = "file" =>
                              vol.node[vol.dir[path]].data = <<Theirs>>)
      /\ s.jobs \in [Importer -> Seq(Job)]
      /\ \A i \in Importer : \A j \in Range(s.jobs[i]) :
           Public(j.path) /\ (j.op = "link" => j.of \in Path /\ Public(j.of))
  BY <1>1 DEF StartsAssumption
<1>4. /\ around \in [jobs : {around.jobs}, bound : Nat, others : Nat, cuts : Nat]
      /\ around.jobs = s.jobs
  BY <1>1, <1>3
<1>5. AroundOK
  <2> SUFFICES ASSUME NEW i \in Importer, NEW k \in 1 .. Len(around.jobs[i])
               PROVE  LET j == around.jobs[i][k]
                      IN  /\ j \in Job /\ Public(j.path)
                          /\ j.op = "link" => j.of \in Path /\ Public(j.of)
    BY <1>3, <1>4 DEF AroundOK
  <2>1. around.jobs[i] \in Seq(Job) /\ around.jobs[i] = s.jobs[i]
    BY <1>3, <1>4
  <2>2. k \in DOMAIN around.jobs[i] /\ around.jobs[i][k] \in Job
    BY <2>1
  <2>3. around.jobs[i][k] \in Range(s.jobs[i])
    BY <2>1, <2>2 DEF Range
  <2>4. QED
    BY <1>3, <2>2, <2>3
<1>6. VolOK(vol)
  BY <1>3 DEF VolOK, Placed, WholeIn, WholeAt
<1>7. imp \in [Importer -> {imp[i] : i \in Importer}]
  BY <1>2
<1>8. faults \in [Importer -> Seq(Phases)]
  BY <1>2
<1>9. ASSUME NEW i \in Importer
      PROVE  /\ ShapeOf(i, imp[i]) /\ HeldOf(i, imp[i], vol)
             /\ MountOf(i, imp[i], vol) /\ ToldOf(i, imp[i], vol, faults[i])
  <2>1. imp[i] = Fresh /\ Len(around.jobs[i]) \in Nat
    BY <1>2, <1>3, <1>4
  <2>2. ShapeOf(i, imp[i]) /\ HeldOf(i, imp[i], vol) /\ imp[i].rw = NoMount
    BY <2>1, FreshIs
  <2>3. imp[i].rw.gen = 0 /\ vol.gen \in Nat /\ vol.gen # 0
    BY <1>3, <2>2, SoundIs DEF NoMount
  <2>4. MountOf(i, imp[i], vol)
    BY <2>3 DEF MountOf
  <2>5. ToldOf(i, imp[i], vol, faults[i])
    BY <1>3 DEF ToldOf, Public
  <2>6. QED
    BY <2>2, <2>4, <2>5
<1>10. QED
  BY <1>2, <1>5, <1>6, <1>7, <1>8, <1>9 DEF IInv

(* Nothing happens.                                                         *)
LEMMA StutterKeeps ==
  ASSUME IInv, UNCHANGED vars
  PROVE  IInv'
<1>1. vol' = vol /\ was' = was /\ imp' = imp /\ faults' = faults /\ around' = around
  BY DEF vars
<1>2. /\ VolOK(vol)' <=> VolOK(vol')
      /\ VolOK(was)' <=> VolOK(was')
      /\ \A k \in Importer : /\ ShapeOf(k, imp[k])' <=> ShapeOf(k, imp'[k])
                             /\ HeldOf(k, imp[k], vol)' <=> HeldOf(k, imp'[k], vol')
  BY <1>1, JobsSame
<1>3. AroundOK'
  BY <1>1 DEF IInv, AroundOK
<1>4. \A k \in Importer : MountOf(k, imp[k], vol)' /\ ToldOf(k, imp[k], vol, faults[k])'
  BY <1>1 DEF IInv, MountOf, ToldOf
<1>5. QED
  BY <1>1, <1>2, <1>3, <1>4 DEF IInv

(* And every step keeps it.                                                 *)
LEMMA NextIInv ==
  ASSUME ImportAssumption, IInv, [Next]_vars
  PROVE  IInv'
<1>1. ASSUME NEW i \in Importer, Steps(i) \/ Cancel(i) \/ Kill(i) \/ Again(i)
      PROVE  IInv'
  BY <1>1, StepEffect, EffectKeeps
<1>2. QED
  BY <1>1, OtherPutsKeeps, OtherRemovesKeeps, PowerCutKeeps, StutterKeeps DEF Next

(* The inductive invariant holds whatever imports, other programs, faults   *)
(* and power cuts do.                                                       *)
THEOREM ImportInvariant == Spec => []IInv
<1>1. Init => IInv
  BY ImportAssumption, StartsAssumption, InitIInv
<1>2. IInv /\ [Next]_vars => IInv'
  BY ImportAssumption, NextIInv
<1>3. QED
  BY <1>1, <1>2, PTL DEF Spec

(* Whole: no name that is not private ever shows part of what an import     *)
(* writes, and names and inodes stay those of one tree.                     *)
THEOREM NeverPart == Spec => []Whole
<1>1. ASSUME IInv PROVE Whole
  <2>1. VolOK(vol) /\ (was = Settled \/ (VolOK(was) /\ was.gen < vol.gen))
    BY <1>1 DEF IInv
  <2>2. ASSUME NEW i \in Importer
        PROVE  /\ imp[i].phase \in Phases
               /\ imp[i].job \in 1 .. Len(around.jobs[i]) + 1
               /\ Len(imp[i].gathered) < Gathered
               /\ imp[i].rw.gen <= vol.gen \/ around.cuts > 0
    <3>1. /\ ShapeOf(i, imp[i]) /\ MountOf(i, imp[i], vol) /\ imp[i].phase \in Phases
          /\ imp[i].job \in Nat \ {0} /\ imp[i].job <= Len(around.jobs[i]) + 1
          /\ Len(around.jobs[i]) \in Nat
      BY <1>1, AtOne
    <3>2. around.cuts \in Nat
      BY <1>1 DEF IInv, AroundOK
    <3>3. imp[i].job \in 1 .. Len(around.jobs[i]) + 1
      BY <3>1
    <3>4. Len(imp[i].gathered) < Gathered
      BY <3>1 DEF ShapeOf
    <3>5. imp[i].rw.gen <= vol.gen \/ around.cuts > 0
      BY <3>1, <3>2 DEF MountOf
    <3>6. QED
      BY <3>1, <3>3, <3>4, <3>5
  <2>3. TypeOK
    BY <2>1, <2>2 DEF TypeOK, VolOK
  <2>4. QED
    BY <2>1, <2>3 DEF Whole, VolOK, WholeIn, WholeAt
<1>2. QED
  BY <1>1, ImportInvariant, PTL

(* StraysTold: short of a power cut, a private name left in the volume is   *)
(* one its import is at, or has told of, or was killed over.                *)
THEOREM LeftoversTold == Spec => []StraysTold
<1>1. IInv => StraysTold
  BY DEF IInv, ToldOf, StraysTold
<1>2. QED
  BY <1>1, ImportInvariant, PTL

(* OnlyAsked: a call of an import takes no name from another's file but by  *)
(* publishing all of its own under --replace, and changes the bytes of no   *)
(* inode but the one it staged.                                             *)
THEOREM ChangesOnlyAsked == Spec => OnlyAsked
<1>1. ASSUME IInv, [Next]_vars
      PROVE  [\A i \in Importer : imp'[i] # imp[i] /\ around' = around => AskedOf(i, vol')]_vars
  <2> SUFFICES ASSUME Next, NEW i \in Importer, imp'[i] # imp[i], around' = around
               PROVE  AskedOf(i, vol')
    BY <1>1
  <2>1. around \in [jobs : {around.jobs}, bound : Nat, others : Nat, cuts : Nat]
    BY <1>1 DEF IInv, AroundOK
  <2>2. ASSUME NEW w, Change(w) PROVE FALSE
    <3>1. imp' = imp
      BY <2>2 DEF Change
    <3>2. QED
      BY <3>1
  <2>3. ~PowerCut
    <3>1. SUFFICES ASSUME PowerCut PROVE FALSE
      OBVIOUS
    <3>2. around' = [around EXCEPT !.cuts = @ + 1]
      BY <3>1 DEF PowerCut
    <3>3. around'.cuts = around.cuts + 1 /\ around.cuts \in Nat
      BY <2>1, <3>2
    <3>4. QED
      BY <3>3
  <2>4. /\ \A path \in Targets : ~OtherPuts(path)
        /\ \A path \in DOMAIN vol.dir : ~OtherRemoves(path)
    BY <2>2 DEF OtherPuts, OtherRemoves
  <2>5. PICK k \in Importer : Steps(k) \/ Cancel(k) \/ Kill(k) \/ Again(k)
    BY <2>3, <2>4 DEF Next
  <2>6. Effect(k)
    BY <1>1, <2>5, ImportAssumption, StepEffect
  <2>7. k = i
    BY <2>6 DEF Effect
  <2>8. QED
    BY <2>6, <2>7 DEF Effect
<1>2. QED
  BY <1>1, ImportInvariant, PTL DEF Spec, OnlyAsked

=============================================================================
