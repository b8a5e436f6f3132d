------------------------------- MODULE Writes -------------------------------
(* Filesystem::write: which of its paths a write takes, and what each asks   *)
(* of its transaction. A path is planned from the committed volume alone;    *)
(* one that takes a write in parts hands the parts back to be planned each   *)
(* in its turn, after the one before it has committed.                       *)
EXTENDS Extents

End(o) == o.off + Len(o.data)
Write(ino, off, data) == [op |-> "write", ino |-> ino, off |-> off, data |-> data]
Zeros(n) == [i \in 1..n |-> 0]

-----------------------------------------------------------------------------
(* In place. *)

\* write_at: every byte in a regular, plain extent nothing else names, or
\* nothing at all; no transaction.
InPlaceRefused(o) ==
  LET items == files[o.ino].items IN
  \/ End(o) > files[o.ino].size
  \/ \E b \in o.off .. (End(o) - 1) : \A k \in Holding(items, b \div S) :
       ~(/\ items[k].kind = "reg" /\ ~items[k].packed
         /\ RefsTotal(items[k].at) = 1 /\ InsideExtent(items[k]))

\* The file's sectors a write in place covers, and what each then holds.
InPlaceSectors(o) == (o.off \div S) .. ((End(o) - 1) \div S)
InPlaceAt(o, s) ==
  LET items == files[o.ino].items  k == Max(Holding(items, s)) IN
  items[k].at + items[k].off + s - k
InPlaceBytes(o, s) ==
  [n \in 1..S |-> LET b == s * S + n - 1 IN
    IF o.off <= b /\ b < End(o) THEN o.data[b - o.off + 1] ELSE disk[InPlaceAt(o, s)][n]]

WriteAt(o) == IF InPlaceRefused(o) THEN Refused ELSE [kind |-> "poke", write |-> o]

-----------------------------------------------------------------------------
(* Inline data. *)

WriteInline(o) ==
  LET f == files[o.ino]  held == Len(f.items[0].data)  end == End(o)
      data == Overlay(f.items[0].data, o.off, o.data) IN
  IF ~HasInline(f.items) THEN None
  ELSE IF end > held /\ (held # f.size \/ o.off > held) THEN Refused
  ELSE IF Len(data) >= S THEN (IF end > f.size THEN None ELSE Refused)
  ELSE Transaction([NoChange(o.ino) EXCEPT
         !.items = [f.items EXCEPT ![0] = InlineItem(data)],
         !.size = IF end > held THEN end ELSE @,
         !.nbytes = IF end > held THEN @ - held + end ELSE @])

-----------------------------------------------------------------------------
(* Preallocated space. *)

PreallocHolding(items, from, stop) ==
  {k \in Preallocated(items) : k <= from /\ stop <= EndOf(items, k)}
PreallocHolds(items, from, stop) == PreallocHolding(items, from, stop) # {}

\* prealloc_window: only an extent with the one reference is written.
WindowRefused(it) == RefsTotal(it.at) # 1 \/ ~InsideExtent(it)
PreallocRefused(items, s) ==
  \E k \in PreallocHolding(items, s, s + 1) : WindowRefused(items[k])

EdgesWithin(items, off, end) ==
  {e \in UNION {{k, EndOf(items, k)} : k \in Preallocated(items)} : off < e * S /\ e * S < end}
EndsWithin(items, off, end) ==
  {EndOf(items, k) : k \in {j \in Preallocated(items) :
     j * S <= off /\ off < EndOf(items, j) * S /\ EndOf(items, j) * S < end}}

\* The write's sectors turn regular where they lie; what is left of the item
\* on either side stays preallocated, each part more adding a reference.
Parts(it, k, from, stop) ==
  LET part(s, e, kind) == (s :> [it EXCEPT !.kind = kind, !.off = @ + s - k, !.num = e - s]) IN
  part(from, stop, "reg")
  @@ (IF k < from THEN part(k, from, "pre") ELSE <<>>)
  @@ (IF stop < k + it.num THEN part(stop, k + it.num, "pre") ELSE <<>>)

WritePrealloc(o) ==
  LET f == files[o.ino]  end == End(o)  grows == end > f.size
      from == o.off \div S  stop == Ceil(end)
      held == PreallocHolding(f.items, from, stop)
      k == Max(held)  it == f.items[k]  parts == Parts(it, k, from, stop)
      bytes == Overlay(Zeros((stop - from) * S), o.off - from * S, o.data) IN
  IF held = {} \/ (~grows /\ (o.off % S # 0 \/ end % S # 0)) THEN None
  ELSE IF WindowRefused(it) THEN Refused
  ELSE Transaction([NoChange(o.ino) EXCEPT
         !.items = parts @@ @,
         !.size = IF grows THEN end ELSE @,
         !.writes = Laid(it.at + it.off + from - k, bytes),
         !.shares = IF Cardinality(DOMAIN parts) = 1 THEN EmptyBag
                   ELSE Ref(o.ino, f.items, k) :> Cardinality(DOMAIN parts) - 1])

\* Mutant: what a copy takes of an item running past it is not discounted.
PreallocCutsUncounted(ino, at, stop) ==
  LET items == files[ino].items
      cut == {k \in Preallocated(items) : at <= k /\ k < stop}
      whole == {k \in cut : EndOf(items, k) <= stop} IN
  [cut |-> cut,
   refused |-> \E k \in whole : RefsTotal(items[k].at) # 1,
   rest |-> IF cut = whole THEN <<>>
            ELSE LET k == Max(cut) IN
                 (stop :> [items[k] EXCEPT !.off = @ + stop - k, !.num = @ - (stop - k)]),
   releases |-> Refs(ino, items, whole),
   bytes |-> S * SumOver(whole, LAMBDA k : items[k].num)]

\* prealloc_cuts: the preallocated items a copy over [at, stop) runs over go,
\* with their extents, and one running past it starts again there.
PreallocCuts(ino, at, stop) ==
  LET items == files[ino].items
      cut == {k \in Preallocated(items) : at <= k /\ k < stop}
      whole == {k \in cut : EndOf(items, k) <= stop} IN
  [cut |-> cut,
   refused |-> \E k \in whole : RefsTotal(items[k].at) # 1,
   rest |-> IF cut = whole THEN <<>>
            ELSE LET k == Max(cut) IN
                 (stop :> [items[k] EXCEPT !.off = @ + stop - k, !.num = @ - (stop - k)]),
   releases |-> Refs(ino, items, whole),
   bytes |-> S * SumOver(cut, LAMBDA k :
     IF k \in whole THEN items[k].num ELSE stop - k)]

-----------------------------------------------------------------------------
(* Copies. *)

\* The parts of [from, to) no item but inline data covers, in sectors.
Uncovered(items, from, to) ==
  {s \in from .. (to - 1) : \A k \in Holding(items, s) : items[k].kind = "inline"}
Runs(sectors) ==
  {r \in sectors \X sectors :
     /\ r[1] <= r[2] /\ r[1] .. r[2] \subseteq sectors
     /\ r[1] - 1 \notin sectors /\ r[2] + 1 \notin sectors}
CowGaps(items, from, to) == Runs(Uncovered(items, from, to))
HoleItems(runs) == Merge(SetToSeq({(r[1] :> HoleItem(r[2] - r[1] + 1)) : r \in runs}))

\* What a copy does to explicit hole items around the hole targets it fills.
CowHoleEdits(items, targets) ==
  LET filled == UNION {targets[i].start .. (targets[i].start + targets[i].len - 1) :
                         i \in {j \in DOMAIN targets : targets[j].hole}}
      span(k) == k .. (EndOf(items, k) - 1)
      hit == {k \in DOMAIN items : ~noHoles /\ items[k].kind = "hole" /\ span(k) \cap filled # {}} IN
  [gone |-> hit, put |-> HoleItems(UNION {Runs(span(k) \ filled) : k \in hit})]

Target(start, len) == [start |-> start, len |-> len, hole |-> TRUE, inline |-> 0]
TakenItem(items, k) == [start |-> k, len |-> items[k].num, hole |-> FALSE, inline |-> 0]

\* One span of plan_cow_targets: whole regular items, and holes by whole
\* sectors to the next item, joined to a hole target that ends where they start.
RECURSIVE Walk(_, _, _, _)
Walk(items, pos, end, plan) ==
  LET s == pos \div S  solid == {k \in DOMAIN items : items[k].kind # "hole"}
      held == Holding(items, s) \cap solid
      next == {k \in solid : k > s}
      stop == Min({Ceil(end)} \cup next)
      last == plan.targets[Len(plan.targets)]
      joins == /\ plan.targets # <<>> /\ last.hole /\ last.inline = 0
               /\ last.start + last.len = s IN
  IF pos >= end \/ ~plan.ok THEN plan
  ELSE IF held # {}
  THEN LET k == Max(held) IN
       IF items[k].kind # "reg" \/ ~InsideExtent(items[k]) THEN [plan EXCEPT !.ok = FALSE]
       ELSE Walk(items, EndOf(items, k) * S, end,
              [plan EXCEPT !.targets = Append(@, TakenItem(items, k))])
  ELSE Walk(items, stop * S, end,
         [plan EXCEPT !.targets = IF joins
           THEN Append(Front(@), [last EXCEPT !.len = stop - last.start])
           ELSE Append(@, Target(s, stop - s))])

InlineMoveLeavesGap(off) == off \div S > 1

\* plan_cow_targets: inline data's own copy, then the old last sector, then
\* the write. Shared: the extent has references beyond the write's own items.
PlanCowTargets(ino, tail, off, end, move) ==
  LET items == files[ino].items  gap == InlineMoveLeavesGap(off)
      stop == IF gap THEN 1 ELSE Ceil(end)
      moved == IF move THEN <<[Target(0, stop) EXCEPT !.inline = Len(items[0].data)]>> ELSE <<>>
      solid == IF move THEN Less(items, {0}) ELSE items
      start == [ok |-> ~move \/ end > Len(items[0].data), targets |-> moved]
      old == IF tail THEN Walk(solid, files[ino].size, files[ino].size + 1, start) ELSE start
      past(p) == IF p.targets = <<>> THEN off
                 ELSE LET l == p.targets[Len(p.targets)] IN Max({off, (l.start + l.len) * S}) IN
  Walk(solid, past(old), end, old)

Ours(items, targets, e) ==
  Cardinality({i \in DOMAIN targets : ~targets[i].hole /\ items[targets[i].start].at = e})
Shared(items, targets, t) ==
  Ours(items, targets, items[t.start].at) < RefsTotal(items[t.start].at)

\* encode_copy: a unit is stored in one sector when that saves one and its
\* bytes allow it (here: all alike), and plain otherwise.
Compresses(plain) == Len(plain) > S /\ \A i \in DOMAIN plain : plain[i] = plain[1]
Pieces(ino, o, t) ==
  LET plain == ReadAt(ino, t.start * S, t.len * S)
      from == Max({o.off, t.start * S})  to == Min({End(o), (t.start + t.len) * S})
      laid == IF from < to
              THEN Overlay(plain, from - t.start * S, SubSeq(o.data, from - o.off + 1, to - o.off))
              ELSE plain
      unit == IF files[ino].compress THEN Unit ELSE t.len
      piece(n) == LET bytes == SubSeq(laid, n * unit * S + 1, Min({(n + 1) * unit, t.len}) * S) IN
        [start |-> t.start + n * unit, bytes |-> bytes, num |-> Len(bytes) \div S,
         packed |-> files[ino].compress /\ Compresses(bytes)] IN
  [n \in 1..((t.len + unit - 1) \div unit) |-> piece(n - 1)]

DiskLen(p) == IF p.packed THEN 1 ELSE p.num
Stored(p, at) == IF p.packed THEN (at :> p.bytes) ELSE Laid(at, p.bytes)

\* A copy's way: whether it leaves the size alone, and the sector of the
\* preallocated item it runs on over, if any.
Copying(keep, through) == [keep |-> keep, through |-> through]
Ordinary == Copying(FALSE, -1)

\* write_cow_copying, first half: what is copied, and what of the file goes.
CopyTargets(o, move, way) ==
  LET f == files[o.ino]  end == End(o)
      beyond == end > f.size /\ (~move \/ InlineMoveLeavesGap(o.off))
      tail == beyond /\ ~move /\ o.off > f.size /\ f.size % S # 0
      through == way.through >= 0
      plan == PlanCowTargets(o.ino, tail, o.off, IF through THEN way.through * S ELSE end, move)
      last == plan.targets[Len(plan.targets)]
      reaches == plan.targets # <<>> /\ last.hole /\ last.start + last.len = way.through IN
  [ok |-> plan.ok /\ (through => reaches),
   gaps |-> IF beyond /\ ~noHoles THEN CowGaps(f.items, Ceil(f.size), o.off \div S) ELSE {},
   over |-> IF through THEN PreallocCuts(o.ino, way.through, Ceil(end))
            ELSE PreallocCuts(o.ino, 0, 0),
   targets |-> IF ~through \/ ~reaches THEN plan.targets
               ELSE Append(Front(plan.targets), [last EXCEPT !.len = Ceil(end) - last.start])]

\* write_cow_copying, second half: the pieces put in place of what goes.
CowWrite(o, move, way, plan, pieces, at) ==
  LET f == files[o.ino]  end == End(o)  targets == plan.targets  over == plan.over
      holes == CowHoleEdits(f.items, targets)
      taken == {targets[i].start : i \in {j \in DOMAIN targets : ~targets[j].hole}}
      shared == {k \in taken : Shared(f.items, targets, [start |-> k])}
      placed == Merge([i \in DOMAIN pieces |->
        (pieces[i].start :> Reg(at[i], 0, pieces[i].num, pieces[i].packed))])
      filled == S * SumOver(DOMAIN targets, LAMBDA i : IF targets[i].hole THEN targets[i].len ELSE 0)
      inline == SumOver(DOMAIN targets, LAMBDA i : targets[i].inline) IN
  [NoChange(o.ino) EXCEPT
    !.items = placed @@ HoleItems(plan.gaps) @@ over.rest @@ holes.put
              @@ Less(@, taken \cup (IF move THEN {0} ELSE {}) \cup holes.gone \cup over.cut),
    !.size = IF way.keep THEN @ ELSE Max({end, @}),
    !.nbytes = IF filled > 0 \/ end > f.size THEN @ + filled - inline - over.bytes ELSE @,
    !.releases = Refs(o.ino, f.items, taken \ shared) (+) over.releases,
    !.unrefs = Refs(o.ino, f.items, shared),
    !.adds = {[at |-> at[i], len |-> DiskLen(pieces[i]), key |-> pieces[i].start]
               : i \in DOMAIN pieces},
    !.writes = Merge([i \in DOMAIN pieces |-> Stored(pieces[i], at[i])])]

CountedOnce(t) == [t EXCEPT !.delta =
  SumOver(t.adds, LAMBDA a : a.len) - SumOver(Named(t.releases), LAMBDA e : extents[e].len)]

WriteCowPlanned(o, move, way, plan) ==
  LET pieces == FlattenSeq([i \in DOMAIN plan.targets |-> Pieces(o.ino, o, plan.targets[i])])
      news == FindExtents([i \in DOMAIN pieces |-> DiskLen(pieces[i])]) IN
  IF ~plan.ok \/ plan.over.refused \/ ~news.ok THEN Refused
  ELSE Transaction(CountedOnce(CowWrite(o, move, way, plan, pieces, news.at)))

WriteCowCopying(o, move, way) == WriteCowPlanned(o, move, way, CopyTargets(o, move, way))

-----------------------------------------------------------------------------
(* Which way a write goes. *)

\* Mutant: the second part is left to the caller.
InTwoFirst(o, at) == Then(<<Write(o.ino, o.off, SubSeq(o.data, 1, at * S - o.off))>>)

InTwo(o, at) ==
  LET n == at * S - o.off IN
  Then(<<Write(o.ino, o.off, SubSeq(o.data, 1, n)),
         Write(o.ino, at * S, SubSeq(o.data, n + 1, Len(o.data)))>>)

\* reach_of_prealloc: how the sectors [from, stop) come to a preallocated item.
RECURSIVE Reach(_, _, _, _)
Reach(items, left, at, over) ==
  LET k == Min(left) IN
  IF left = {} THEN [at |-> -1]
  ELSE IF k > at
  THEN IF left \subseteq Preallocated(items)
       THEN [at |-> k, through |-> TRUE, over |-> TRUE] ELSE [at |-> -1]
  ELSE IF items[k].kind = "pre" THEN [at |-> k, through |-> FALSE, over |-> over]
  ELSE Reach(items, left \ {k}, EndOf(items, k), over \/ items[k].kind = "hole")
ReachOfPrealloc(items, from, stop) ==
  LET r == Reach(items, Touching(items, from, stop), from, FALSE) IN
  IF r.at > from THEN r ELSE [at |-> -1]

WriteGrowingIntoPrealloc(o) ==
  LET f == files[o.ino]  items == f.items  end == End(o)
      from == o.off \div S  stop == Ceil(end)
      after == Ceil(f.size)  odd == f.size % S # 0
      tail == odd /\ o.off >= after * S
      ends == EndsWithin(items, o.off, end)
      reach == ReachOfPrealloc(items, from, stop)
      first == IF odd /\ o.off > f.size /\ after = from THEN after - 1 ELSE from
      dirty == \E k \in Holding(items, first) : items[k].kind = "reg" IN
  IF PreallocHolds(items, from, stop)
  THEN IF \/ tail /\ PreallocHolds(items, f.size \div S, f.size \div S + 1)
          \/ ~noHoles /\ after < from /\ CowGaps(items, after, from) # {}
       THEN None
       ELSE IF PreallocRefused(items, from) THEN Refused
       ELSE IF tail
       THEN Then(<<[op |-> "tail", ino |-> o.ino], [o EXCEPT !.op = "into"]>>)
       ELSE WritePrealloc(o)
  ELSE IF ends # {} THEN InTwo(o, Min(ends))
  ELSE IF reach.at < 0 THEN None
  ELSE IF reach.over /\ dirty THEN Refused
  ELSE IF reach.through THEN WriteCowCopying(o, FALSE, Copying(FALSE, reach.at))
  ELSE IF PreallocRefused(items, reach.at) THEN Refused
  ELSE InTwo(o, reach.at)

\* The old last sector, copied with zeros past the old end, the size kept.
WriteTail(ino) ==
  LET size == files[ino].size IN
  WriteCowCopying(Write(ino, size, Zeros(Ceil(size) * S - size)), FALSE, Copying(TRUE, -1))

FirstOf(a, b) == IF a.kind = "none" THEN b ELSE a

\* write_cow: inline data kept inline or moved, preallocated space filled, a
\* write spanning its edge taken in two, everything else copied.
WriteCow(o, move) ==
  LET f == files[o.ino]  end == End(o)
      inline == IF ~move /\ (end <= f.size \/ (o.off <= f.size /\ f.size < S))
                THEN WriteInline(o) ELSE None
      moves == move \/ (end > f.size /\ HasInline(f.items))
      edges == EdgesWithin(f.items, o.off, end)
      prealloc == IF moves THEN None
                  ELSE IF end > f.size THEN WriteGrowingIntoPrealloc(o)
                  ELSE IF edges # {} THEN InTwo(o, Min(edges)) ELSE WritePrealloc(o) IN
  FirstOf(inline, FirstOf(prealloc, WriteCowCopying(o, moves, Ordinary)))

PlanWrite(o) == IF o.data = <<>> THEN Done ELSE IF files[o.ino].nocow THEN WriteAt(o) ELSE WriteCow(o, FALSE)
PlanMove(o) == IF files[o.ino].nocow THEN Refused ELSE WriteCow(o, TRUE)
=============================================================================
