-------------------------------- MODULE Trees --------------------------------
(***************************************************************************)
(* The transactions that change the file of a subvolume, or the            *)
(* subvolumes: one action per operation, each planned, rendered and        *)
(* committed as a whole.  A plan copies every block from the changed       *)
(* leaves up to the root, keeps the blocks another tree reaches, splits    *)
(* what is full and removes what is empty; the extent tree's records are   *)
(* edited for every reference that moves.  Where a change does not suit    *)
(* the records as they stand it is refused, and nothing is written.        *)
(*                                                                         *)
(* How a commit reaches the device is Commit's; here it is one step.  Which *)
(* free address a block is given is told apart only by its order.  Keyed   *)
(* and shared references filed as items of their own, and the refusals for *)
(* want of room in a record, are left out: a reference is in the record.   *)
(***************************************************************************)
EXTENDS Backrefs

CONSTANTS
  Starts,     \* volumes to start from, each with what is done to it
  MaxOps      \* bound: how many operations are made at most

VARIABLES
  generation, \* the generation of the committed superblock
  clock,      \* how many operations were made; what the next one writes
  load,       \* what is done: writes, cuts, punches, clones, and how many
  nocow,      \* whether the file is nodatacow and nodatasum
  outcome     \* "done", or what the last change was refused for

vars == <<treeVars, generation, clock, load, nocow, outcome>>

\* What a sector may hold: a hole's 0, an operation's number, or one of the
\* numbers after those, which the images start with.
Value == 0 .. MaxOps + Sectors

Contents(f) == [s \in Sector |-> Read(f, s)]

Subvolume == INSTANCE Subvolumes WITH
  file <- [t \in Tree |-> IF t \in Live \ dead THEN Contents(File(t))
                                              ELSE [s \in {} |-> 0]]

-----------------------------------------------------------------------------
(* A change: what it does to items by key, which of the tree's items give    *)
(* their reference up and whether with the extent, which of the items it     *)
(* puts share an extent and which bring one; for a snapshot, its source, its *)
(* id and the blocks that gain a reference from its root; what is deleted.   *)

Gone == [ext |-> 0, off |-> 0, len |-> -1]

\* The file's inode is touched by every change of it.
FileChange(edits) ==
  [edits |-> (0 :> Inode) @@ edits, releases |-> Empty, drops |-> Empty,
   shares |-> Empty, news |-> {}, source |-> 0, snap |-> 0, gain |-> {}, deleted |-> {}]

-----------------------------------------------------------------------------
(* The plan: the blocks touched, which of them are kept for other trees, and *)
(* the new homes of each, one for every part it is split into and none when  *)
(* it is emptied.                                                            *)

\* The items of leaf l once the edits that land in it are made.
Edited(l, edits, lands) ==
  LET here == {k \in DOMAIN edits : lands[k] = l}
      keys == (DOMAIN block[l].items \ here) \cup {k \in here : edits[k] # Gone}
  IN  [k \in keys |-> IF k \in here THEN edits[k] ELSE block[l].items[k]]

Ceiling(n, size) == (n + size - 1) \div size

\* Mutant: the block of the root the change gives up is free already.
FreeAtOnce == {a \in Addr : blockRec[a] = NoRecord \/ a = root[Top]}

\* The free addresses in order, and 0 once they have run out.
FreeAddr == {a \in Addr : blockRec[a] = NoRecord}
Spare ==
  Sorted(FreeAddr) \o [i \in 1 .. 3 * Cardinality(Addr) |-> 0]

Plan(t, w) ==
  LET under == [b \in Blocks(t) |-> Under(b)]
      lands == [k \in DOMAIN w.edits |-> LeafFor(t, k)]
      path(a) == {b \in DOMAIN under : a \in under[b]}
      touched == UNION {path(lands[k]) : k \in DOMAIN lands}
      edited == [l \in {lands[k] : k \in DOMAIN lands} |-> Edited(l, w.edits, lands)]
      parts[b \in touched] ==
        IF Leaf(b)
        THEN Ceiling(Cardinality(DOMAIN edited[b]), LeafMax)
        ELSE Ceiling(MapThenSumSet(LAMBDA k : IF k \in touched THEN parts[k] ELSE 1,
                                   Kids(b)), NodeMax)
      \* The split a node is given allows for no child that leaves it.
      allowed[b \in touched] ==
        IF Leaf(b) THEN Max({1, parts[b]})
        ELSE Ceiling(MapThenSumSet(LAMBDA k : IF k \in touched THEN allowed[k] ELSE 1,
                                   Kids(b)), NodeMax)
      upTo(b) == MapThenSumSet(LAMBDA c : parts[c], {c \in touched : c < b})
      count == MapThenSumSet(LAMBDA c : parts[c], touched)
      spare == Spare
  IN  [tree    |-> t,
       touched |-> touched,
       kept    |-> {b \in touched : \E a \in path(b) :
                                      a \in w.gain \/ blockRec[a].refs > 1},
       edited  |-> edited,
       homes   |-> [b \in touched |-> SubSeq(spare, upTo(b) + 1, upTo(b) + parts[b])],
       misfit  |-> {b \in touched : allowed[b] > 1 /\ parts[b] # allowed[b]},
       created |-> spare[count + 1],
       grown   |-> spare[count + 2]]

Homes(p) == UNION {ToSet(p.homes[b]) : b \in p.touched}
Released(p) == p.touched \ p.kept
Grows(p) == Len(p.homes[root[p.tree]]) > 1
NewRoot(p) == IF Grows(p) THEN p.grown ELSE p.homes[root[p.tree]][1]

\* The i-th of n parts of a sequence, as even as they come.
Part(s, i, n) == SubSeq(s, ((i - 1) * Len(s)) \div n + 1, (i * Len(s)) \div n)

\* The i-th part of block b rendered: the children where they are going, or
\* the leaf's items as edited.
Rendered(p, b, i) ==
  LET n == Len(p.homes[b])
      kids == FlattenSeq([j \in DOMAIN block[b].kids |->
                LET k == block[b].kids[j]
                IN  IF k \in p.touched THEN p.homes[k] ELSE <<k>>])
  IN  [owner |-> p.tree,
       kids  |-> IF Leaf(b) THEN <<>> ELSE Part(kids, i, n),
       items |-> IF Leaf(b)
                 THEN [k \in ToSet(Part(Sorted(DOMAIN p.edited[b]), i, n)) |->
                        p.edited[b][k]]
                 ELSE Empty]

\* Every block the plan writes, by address.  A new subvolume's root is a
\* copy of its source's as committed.
Written(p, w) ==
  LET moved == [a \in Homes(p) |->
        LET b == CHOOSE b \in p.touched : a \in ToSet(p.homes[b])
            i == CHOOSE i \in DOMAIN p.homes[b] : p.homes[b][i] = a
        IN  Rendered(p, b, i)]
      grown == IF Grows(p)
               THEN p.grown :> [owner |-> p.tree, kids |-> p.homes[root[p.tree]],
                                items |-> Empty]
               ELSE Empty
      created == IF w.snap # 0
                 THEN p.created :> [block[root[w.source]] EXCEPT !.owner = w.snap]
                 ELSE Empty
  IN  moved @@ grown @@ created

-----------------------------------------------------------------------------
(* Tree block references.  A kept block of this tree's own goes on naming    *)
(* its children, by its address from now on; the copy of any other kept      *)
(* block, and of one flagged FULL_BACKREF, names them anew by the tree.      *)

Own(p, b) == block[b].owner = p.tree /\ ~blockRec[b].full
Names(p, b) == IF b \in p.kept THEN ~Own(p, b) ELSE blockRec[b].full

\* Kept blocks given the tree's reference by the copy of their parent, which
\* they give straight back when they are copied in turn.
Above(p, a) == {b \in p.touched : a \in Kids(b)}
\* Mutant: what the copy of a parent gives is forgotten.
GivenNone(p) == {}


Given(p) == {c \in p.kept : \E b \in Above(p, c) : Names(p, b)}

SharedAdds(p, a) == {b \in Above(p, a) \cap p.kept : Own(p, b)}
SharedDrops(p, a) ==
  {b \in Above(p, a) \ p.kept : blockRec[b].full /\ a \notin Released(p)}
\* Mutant: the copy of a kept block names its children anew only when that
\* block was flagged FULL_BACKREF, and not when it was another tree's.
KeyedAddsFullOnly(p, w, a) ==
  {t \in {p.tree} : a \notin p.touched /\ \E b \in Above(p, a) : blockRec[b].full}
    \cup {t \in {w.snap} : a \in w.gain}


KeyedAdds(p, w, a) ==
  {t \in {p.tree} : a \notin p.touched /\ \E b \in Above(p, a) : Names(p, b)}
    \cup {t \in {w.snap} : a \in w.gain}
KeyedDrops(p, a) == {t \in {p.tree} : a \in p.kept \ Given(p)}

\* The blocks whose records the plan edits or deletes.
Concerned(p, w) == p.touched \cup UNION {Kids(b) : b \in p.touched} \cup w.gain

BlockAfter(p, w, a) ==
  LET r == blockRec[a]
  IN  [keyed  |-> (r.keyed \cup KeyedAdds(p, w, a)) \ KeyedDrops(p, a),
       shared |-> (r.shared \cup SharedAdds(p, a)) \ SharedDrops(p, a),
       full   |-> r.full \/ (a \in p.kept /\ Own(p, a)),
       refs   |-> r.refs + Cardinality(KeyedAdds(p, w, a)) + Cardinality(SharedAdds(p, a))
                    - Cardinality(KeyedDrops(p, a)) - Cardinality(SharedDrops(p, a))]

\* Whether a record holds what the plan takes from it, and not yet what it
\* is given; and for a block released, nothing but this tree's reference.
BlockSuits(p, w, a) ==
  LET r == blockRec[a]
      adds == KeyedAdds(p, w, a)
  IN  /\ r # NoRecord
      /\ a \in Released(p) => r.refs = 1
      /\ a \in Given(p) => ~Own(p, a)
      /\ adds \cap r.keyed = {} /\ SharedAdds(p, a) \cap r.shared = {}
      /\ SharedDrops(p, a) \subseteq r.shared
      /\ KeyedDrops(p, a) \subseteq r.keyed \cup adds
      /\ KeyedDrops(p, a) # {} =>
           r.refs + Cardinality(adds) + Cardinality(SharedAdds(p, a)) > 1

NewRecord(t) == [keyed |-> {t}, shared |-> {}, full |-> FALSE, refs |-> 1]

-----------------------------------------------------------------------------
(* Data references.  A kept leaf of the tree's own refers to its extents by  *)
(* its address; a copy that names them anew refers to them by the tree, but  *)
(* for the references the change takes out again, which are never written.   *)

Fewer(b, c) == [r \in DOMAIN b \cap DOMAIN c |-> Min({b[r], c[r]})]
NamingEach(ls, e) == [l \in ls |-> Cardinality(Naming(block[l].items, e))]

\* What the change and the moves it takes do to the record of extent e.
DataMoves(p, w, e) ==
  LET leaves == {l \in p.touched : Leaf(l) /\ Naming(block[l].items, e) # {}}
      given == BagSum(LAMBDA l : DataRefs(p.tree, block[l].items, e),
                      {l \in leaves : Names(p, l)})
      taken == DataRefs(p.tree, w.drops, e)
      cancelled == Fewer(given, taken)
  IN  [sharedAdds  |-> NamingEach({l \in leaves \cap p.kept : Own(p, l)}, e),
       sharedDrops |-> NamingEach({l \in leaves \ p.kept : blockRec[l].full}, e),
       keyedAdds   |-> given (-) cancelled,
       releases    |-> DataRefs(p.tree, w.releases, e),
       drops       |-> taken (-) cancelled,
       shares      |-> DataRefs(p.tree, w.shares, e),
       copied      |-> IF w.snap # 0 /\ Leaf(root[w.source])
                       THEN DataRefs(w.snap, block[root[w.source]].items, e)
                       ELSE EmptyBag]

\* The record once the moves are made, before the change itself is.
DataMoved(e, m) ==
  LET r == dataRec[e]
  IN  [r EXCEPT !.shared = (@ (+) m.sharedAdds) (-) m.sharedDrops,
                !.keyed = @ (+) m.keyedAdds,
                !.refs = @ + BagCardinality(m.sharedAdds) + BagCardinality(m.keyedAdds)
                           - BagCardinality(m.sharedDrops)]

DataAfter(e, m) ==
  LET r == DataMoved(e, m)
  IN  IF m.releases # EmptyBag THEN NoRecord
      ELSE [r EXCEPT !.keyed = ((@ (-) m.drops) (+) m.shares) (+) m.copied,
                     !.refs = @ - BagCardinality(m.drops) + BagCardinality(m.shares)
                                + BagCardinality(m.copied)]

\* Why the change is refused extent e: the record is not what the plan read
\* in the leaves; it holds more than is released; what is dropped is all it
\* holds; or it is not as a snapshot found it.
DataRefusals(e, m) ==
  LET r == DataMoved(e, m)
  IN  {x \in {"plan"} :
         \/ \E l \in DOMAIN m.sharedDrops : CopiesIn(l, dataRec[e].shared) # m.sharedDrops[l]
         \/ ~(m.drops \sqsubseteq r.keyed)}
      \cup {x \in {"held"} :
         /\ m.releases # EmptyBag
         /\ ~(r.keyed = m.releases /\ r.shared = EmptyBag
                /\ r.refs = BagCardinality(m.releases))}
      \cup {x \in {"last"} :
         m.drops # EmptyBag /\ r.refs <= BagCardinality(m.drops)}
      \cup {x \in {"differs"} : m.copied # EmptyBag /\ r # dataRec[e]}

\* A new extent: one reference, from the item that brought it.
NewExtent(t, k) ==
  [keyed |-> (<<t, k>> :> 1), shared |-> EmptyBag, refs |-> 1, gen |-> generation + 1]

-----------------------------------------------------------------------------
(* A change planned, rendered and committed, or refused.                     *)

Refusals(p, w, moves) ==
  LET homes == Homes(p) \cup {a \in {p.grown} : Grows(p)}
                 \cup {a \in {p.created} : w.snap # 0}
  IN  {x \in {"space"} : 0 \in homes}
      \cup {x \in {"split"} : p.misfit # {}}
      \cup {x \in {"plan"} : \E a \in Concerned(p, w) : ~BlockSuits(p, w, a)}
      \cup UNION {DataRefusals(e, moves[e]) : e \in DOMAIN moves}

\* Change w made to tree t by plan p, with `put` the contents of its new
\* extents; `after` is what becomes of the records of extents there were.
Apply(t, w, p, put, after) ==
  \E written \in {Written(p, w)} :
    /\ block' = [a \in Addr |-> IF a \in DOMAIN written THEN written[a]
                               ELSE IF a \in Released(p) THEN Unowned
                               ELSE block[a]]
    /\ blockRec' = [a \in Addr |->
         IF a \in DOMAIN written THEN NewRecord(written[a].owner)
         ELSE IF a \in Released(p) THEN NoRecord
         ELSE IF a \in Concerned(p, w) THEN BlockAfter(p, w, a)
         ELSE blockRec[a]]
    /\ extent' = [e \in Extent |->
         IF e \in DOMAIN put THEN put[e]
         ELSE IF e \in DOMAIN after /\ after[e] = NoRecord THEN <<>>
         ELSE extent[e]]
    /\ dataRec' = [e \in Extent |->
         IF e \in DOMAIN put THEN NewExtent(t, CHOOSE k \in w.news : w.edits[k].ext = e)
         ELSE IF e \in DOMAIN after THEN after[e]
         ELSE NoRecord]
    /\ root' = [x \in Tree |-> IF x = t THEN NewRoot(p)
                              ELSE IF x = w.snap THEN p.created
                              ELSE root[x]]
    /\ last' = [x \in Tree |-> IF w.snap # 0 /\ x \in {w.source, w.snap}
                              THEN generation + 1 ELSE last[x]]
    /\ dead' = dead \cup w.deleted
    /\ generation' = generation + 1
    /\ clock' = clock + 1
    /\ outcome' = "done"

\* The change planned, and made or refused.  (\E binds what LET would name, so
\* that TLC evaluates each once.)
Commit(t, change, put) ==
  \E w \in {change} : \E p \in {Plan(t, w)} :
    \E moves \in {[e \in {e \in Extent : dataRec[e] # NoRecord} |-> DataMoves(p, w, e)]} :
      /\ \/ /\ outcome' \in Refusals(p, w, moves)
            /\ UNCHANGED <<treeVars, generation, clock>>
         \/ /\ Refusals(p, w, moves) = {}
            /\ Apply(t, w, p, put, [e \in DOMAIN moves |-> DataAfter(e, moves[e])])
      /\ UNCHANGED <<load, nocow>>

-----------------------------------------------------------------------------
(* The operations.                                                           *)

\* A handle that writes tree t: a change refused leaves everything as it was,
\* so nothing new comes after it.
Handle(t) == outcome = "done" /\ clock < load.ops /\ t \in Live \ dead

\* How many references the record of the extent of item k counts.
Refs(f, k) == dataRec[f[k].ext].refs
Only(f, S) == [k \in S |-> f[k]]

\* What sector s reads once lo up to hi are written.
Laid(f, lo, hi, s) == IF lo <= s /\ s < hi THEN clock + 1 ELSE Read(f, s)

\* Each item the write meets is copied whole, and each run of hole in its
\* range is filled; every one becomes an extent of its own.  The old extent
\* is released when the items copied are all that refer to it.
Write(t, lo, hi) ==
  LET f == File(t)
      copied == Meeting(f, lo, hi)
      hole == {s \in lo .. hi - 1 : Holder(f, s) = {}}
      runs == {s \in hole : s - 1 \notin hole}
      len == [k \in copied \cup runs |->
               IF k \in copied THEN f[k].len
               ELSE Min({n \in k .. hi : n \notin hole}) - k]
      at == Sorted(copied \cup runs)
      new == Sorted({e \in Extent : dataRec[e] = NoRecord})
      ours(k) == {j \in copied : f[j].ext = f[k].ext}
      shared == {k \in copied : Cardinality(ours(k)) < Refs(f, k) \/ LeafShared(t, k)}
      items == [k \in copied \cup runs |->
        [ext |-> new[CHOOSE i \in DOMAIN at : at[i] = k], off |-> 0, len |-> len[k]]]
  IN  /\ Handle(t)
      /\ ~nocow
      /\ \A k \in copied : Cardinality(ours(k)) <= Refs(f, k)
      /\ Len(at) <= Len(new)
      /\ Commit(t, [FileChange(items) EXCEPT !.news = copied \cup runs,
                                             !.releases = Only(f, copied \ shared),
                                             !.drops = Only(f, shared)],
                [e \in {items[k].ext : k \in copied \cup runs} |->
                  LET k == CHOOSE k \in copied \cup runs : items[k].ext = e
                  IN  [i \in 1 .. len[k] |-> Laid(f, lo, hi, k + i - 1)]])

\* Mutant: a snapshot taken since the extent was written is overlooked.
InPlaceUnderSnapshot(f, k) == Refs(f, k) = 1

\* Whether item k may be written where it lies: no other item refers to its
\* extent, and the extent is of a transaction after the last snapshot.
InPlace(f, k) == Refs(f, k) = 1 /\ dataRec[f[k].ext].gen > last[Top]

\* A nodatacow file of the top level is written where it lies, and nothing is
\* committed, when every sector of the range lies in such an item.
WriteInPlace(lo, hi) ==
  LET f == File(Top)
      met == Meeting(f, lo, hi)
      at(e) == CHOOSE k \in met : f[k].ext = e
  IN  /\ Handle(Top)
      /\ nocow
      /\ \A s \in lo .. hi - 1 : Holder(f, s) # {}
      /\ \A k \in met : InPlace(f, k)
      /\ extent' = [e \in Extent |->
           IF e \notin {f[k].ext : k \in met} THEN extent[e]
           ELSE [i \in DOMAIN extent[e] |->
                  LET s == RefOffset(at(e), f[at(e)]) + i - 1
                  IN  IF Holder(f, s) = {at(e)} /\ lo <= s /\ s < hi
                      THEN clock + 1 ELSE extent[e][i]]]
      /\ clock' = clock + 1
      /\ UNCHANGED <<block, blockRec, dataRec, root, last, dead,
                     generation, load, nocow, outcome>>

\* The file is cut to the sectors before n: items from there on go, each with
\* its extent when the record counts it alone, and one across it is shortened.
Truncate(t, n) ==
  LET f == File(t)
      gone == {k \in DOMAIN f : n <= k}
      short == Meeting(f, n, n + 1) \ gone
      alone == {k \in gone : Refs(f, k) = 1 /\ ~LeafShared(t, k)}
  IN  /\ Handle(t)
      /\ Commit(t, [FileChange([k \in gone \cup short |->
                      IF k \in gone THEN Gone ELSE [f[k] EXCEPT !.len = n - k]])
                    EXCEPT !.releases = Only(f, alone), !.drops = Only(f, gone \ alone)],
                Empty)

\* What replacing sectors lo up to hi does to the items that meet them: those
\* inside go, one across an edge keeps what is outside it, and one across
\* both is split in two that name one extent.
Covered(f, lo, hi) == {k \in Meeting(f, lo, hi) : lo <= k /\ k + f[k].len <= hi}
Backs(f, lo, hi) == {k \in Meeting(f, lo, hi) : hi < k + f[k].len}
CutRange(f, lo, hi) ==
  LET back(k) == [f[k] EXCEPT !.off = @ + hi - k, !.len = @ - (hi - k)]
  IN  [k \in {hi : b \in Backs(f, lo, hi)} |->
        back(CHOOSE b \in Backs(f, lo, hi) : TRUE)]
        @@ [k \in Meeting(f, lo, hi) |->
             IF k < lo THEN [f[k] EXCEPT !.len = lo - k] ELSE Gone]
Splits(f, lo, hi) ==
  Only(CutRange(f, lo, hi), {hi : k \in {b \in Backs(f, lo, hi) : b < lo}})

\* Of the items deleted, those that give their extent up with their
\* reference: they are all it has, and in no leaf another tree reaches.
DropCovered(t, f, covered) ==
  {k \in covered :
    LET drops == {j \in covered : f[j].ext = f[k].ext}
    IN  /\ Refs(f, k) = Cardinality(drops)
        /\ \A j \in drops : ~LeafShared(t, j)}

Punch(t, lo, hi) ==
  LET f == File(t)
      covered == Covered(f, lo, hi)
      alone == DropCovered(t, f, covered)
  IN  /\ Handle(t)
      /\ Meeting(f, lo, hi) # {}
      /\ Commit(t, [FileChange(CutRange(f, lo, hi))
                    EXCEPT !.releases = Only(f, alone),
                           !.drops = Only(f, covered \ alone),
                           !.shares = Splits(f, lo, hi)],
                Empty)

\* The items of the n sectors from src, each cut to them and put as far from
\* dst as it is from src.
Cloned(f, src, dst, n) ==
  LET from(k) == Max({k, src})
      to(k) == Min({k + f[k].len, src + n})
      met == Meeting(f, src, src + n)
  IN  [key \in {from(k) + dst - src : k \in met} |->
        LET k == CHOOSE k \in met : from(k) + dst - src = key
        IN  [ext |-> f[k].ext, off |-> f[k].off + from(k) - k, len |-> to(k) - from(k)]]

\* n sectors of the top level's file are cloned within it from src to dst:
\* what was there goes as a hole is punched, and every item of the source's
\* range is put under its new key with a reference of its own.
Clone(src, dst, n) ==
  LET f == File(Top)
      covered == Covered(f, dst, dst + n)
      alone == DropCovered(Top, f, covered)
      items == Cloned(f, src, dst, n)
  IN  /\ Handle(Top)
      /\ src + n <= dst \/ dst + n <= src
      /\ Commit(Top, [FileChange(items @@ CutRange(f, dst, dst + n))
                      EXCEPT !.releases = Only(f, alone),
                             !.drops = Only(f, covered \ alone),
                             !.shares = items @@ Splits(f, dst, dst + n)],
                Empty)

\* A snapshot of s, whose name goes into the top level.  Its root is a copy of
\* s's: the children of a node gain its reference, and the extents a leaf
\* names gain one for every item.
Snapshot(s) ==
  LET new == Max(Live) + 1
  IN  /\ Handle(Top)
      /\ s \in Live \ dead
      /\ new \in Tree
      /\ Commit(Top, [FileChange(Empty) EXCEPT !.source = s, !.snap = new,
                                               !.gain = Kids(root[s])],
                Empty)

\* Subvolume s loses its name in the top level and is marked for the kernel's
\* cleaner; its blocks stay.
Delete(s) ==
  /\ Handle(Top)
  /\ s \in Live \ (dead \cup {Top})
  /\ Commit(Top, [FileChange(Empty) EXCEPT !.deleted = {s}], Empty)

-----------------------------------------------------------------------------

\* A start is a volume, whose records say what its trees say, and a workload.
Init ==
  /\ \E start \in Starts :
       /\ load = start.load
       /\ LET i == start.image
          IN  /\ block = i.block /\ root = i.root /\ last = i.last
              /\ extent = i.extent /\ generation = i.generation
              /\ blockRec = [a \in Addr |->
                   IF a \in Reached THEN BlockRule(a, i.full) ELSE NoRecord]
              /\ dataRec = [e \in Extent |->
                   IF e \in Named THEN DataRule(e, i.full) @@ [gen |-> i.gen[e]]
                   ELSE NoRecord]
  /\ dead = {} /\ clock = 0 /\ outcome = "done" /\ nocow \in load.nocow

Next ==
  \/ \E t \in Tree : \E r \in load.writes : Write(t, r[1], r[2])
  \/ \E t \in Tree : \E n \in load.cuts : Truncate(t, n)
  \/ \E t \in Tree : \E r \in load.punches : Punch(t, r[1], r[2])
  \/ \E r \in load.writes : WriteInPlace(r[1], r[2])
  \/ \E r \in load.clones : Clone(r[1], r[2], r[3])
  \/ \E s \in Tree : Snapshot(s)
  \/ \E s \in Tree : Delete(s)

Spec == Init /\ [][Next]_vars

-----------------------------------------------------------------------------
(* Properties.                                                               *)

\* Everything is of its kind, and every item lies within its extent.
TypeOK ==
  /\ \A a \in Addr :
       /\ block[a].owner \in Tree \cup {0}
       /\ Kids(a) \subseteq Addr
       /\ DOMAIN block[a].items \subseteq 0 .. Sectors
       /\ \A k \in DOMAIN block[a].items \ {0} :
            LET item == block[a].items[k]
            IN  /\ item.ext \in Extent /\ item.off \in Nat /\ item.len \in Nat \ {0}
                /\ item.off + item.len <= Len(extent[item.ext])
       /\ blockRec[a] = NoRecord \/
            /\ blockRec[a].keyed \subseteq Tree /\ blockRec[a].shared \subseteq Addr
            /\ blockRec[a].full \in BOOLEAN /\ blockRec[a].refs \in Nat
  /\ \A e \in Extent :
       /\ \A i \in DOMAIN extent[e] : extent[e][i] \in Value
       /\ dataRec[e] = NoRecord \/
            /\ IsABag(dataRec[e].keyed) /\ IsABag(dataRec[e].shared)
            /\ dataRec[e].refs \in Nat /\ dataRec[e].gen \in 0 .. generation
  /\ root \in [Tree -> Addr \cup {0}]
  /\ last \in [Tree -> 0 .. generation]
  /\ dead \subseteq Tree
  /\ clock \in 0 .. MaxOps
  /\ outcome \in {"done", "space", "split", "plan", "held", "last", "differs"}

\* The records of tree blocks and of data extents say exactly what the trees
\* say: nothing is leaked, nothing reached is free, and no reference is
\* missing, doubled or left to a block that is gone (apply_records, backrefs).
RefsExact == BlocksExact /\ DataExact

\* A block not flagged FULL_BACKREF is one its owner reaches: the references
\* it implies by its owner's name are the owner's to take out
\* (drop_kept_tree_ref, backrefs).
OwnerReaches == \A a \in Reached \ Full : a \in Blocks(block[a].owner)

\* check (check.rs) reports nothing of the records, and whichever one is gone,
\* or counts a shared block's references short, or describes what no tree
\* reaches, it reports that; an extent's count it does not hold against files.
Verifier == INSTANCE Check
TreeExtents == [a \in {a \in Addr : blockRec[a] # NoRecord} |-> blockRec[a].refs]
DataExtents == [e \in {e \in Extent : dataRec[e] # NoRecord} |-> Len(extent[e])]
Without(f, k) == [x \in DOMAIN f \ {k} |-> f[x]]
CheckAgrees ==
  LET times == Verifier!ReachedTimes([a \in Addr |-> Kids(a)], {root[t] : t \in Live})
      refs == TreeExtents
      len == DataExtents
      named == {[at |-> e, len |-> Len(extent[e])] : e \in Named}
      blocks(r) == Verifier!BlocksAgainstTrees(times, r)
      data(l) == Verifier!DataAgainstFiles(named, l)
  IN  /\ blocks(refs) = {} /\ data(len) = {}
      /\ \A a \in Addr :
           IF a \in DOMAIN refs
           THEN /\ blocks(Without(refs, a)) # {}
                /\ refs[a] > 1 => blocks([refs EXCEPT ![a] = @ - 1]) # {}
           ELSE blocks((a :> 1) @@ refs) # {}
      /\ \A e \in Extent :
           data(IF e \in DOMAIN len THEN Without(len, e) ELSE (e :> 1) @@ len) # {}

\* What the records say, altogether: of a block, of an extent, and of who is
\* to take a block's references out; and check finds that they do.
RecordsExact == TypeOK /\ RefsExact /\ OwnerReaches /\ CheckAgrees

\* No legal call leads to a change whose plan the records do not bear out.
PlanApplies == outcome # "plan"

\* A record is gone with the last reference to what it describes
\* (reduce_total, drop_inline_data_ref, truncate).
NothingLeaked == \A e \in Extent : dataRec[e] # NoRecord => dataRec[e].refs > 0

\* Cutting a file is never refused for what its own items hold: an extent they
\* alone refer to is released with the last of them (shrink_item, drop_link).
\* Not kept (README, Known departures).
ShrinkReleases == outcome # "last"

\* A transaction puts no block and no extent where a committed tree has one:
\* until its superblock is out a cut brings those trees back
\* (next_free_block_for, find_data_extents, plan_nodatacow_write).
OldTreeIntact ==
  [][/\ \A a \in Reached : block'[a] \in {block[a], Unowned}
     /\ \A e \in Named : generation' # generation => extent'[e] \in {extent[e], <<>>}]_vars

\* An operation on one subvolume changes that one's file alone, and as asked;
\* a snapshot starts out as its source stood.
Isolation == Subvolume!Spec

=============================================================================
