------------------------------- MODULE Files -------------------------------
(* The calls that change a file's length or a range of it, and the system:   *)
(* one call at a time, carried out part by part, each part a transaction     *)
(* that commits, is refused, or is cut off with some of its data written.    *)
EXTENDS Writes

Odd(ino) == files[ino].size % S # 0

-----------------------------------------------------------------------------
(* truncate. *)

\* Mutant: an odd old end is not filled.
GrowUnfilled(o) ==
  LET f == files[o.ino]
      gaps == IF noHoles THEN {} ELSE CowGaps(f.items, Ceil(f.size), Ceil(o.size)) IN
  Transaction(Recounted([NoChange(o.ino) EXCEPT !.items = HoleItems(gaps) @@ @, !.size = o.size]))

\* Growing: the old last sector is filled with zeros first, by a write of its
\* own (which moves inline data out), and the truncate is called again.
Grow(o) ==
  LET f == files[o.ino]
      boundary == IF HasInline(f.items) THEN (f.size \div S + 1) * S ELSE Ceil(f.size) * S
      fill == Write(o.ino, f.size, Zeros(Min({o.size, boundary}) - f.size))
      gaps == IF noHoles THEN {} ELSE CowGaps(f.items, Ceil(f.size), Ceil(o.size)) IN
  IF Odd(o.ino) /\ f.items # <<>> /\ ~noHoles THEN Refused
  ELSE IF HasInline(f.items) THEN Then(<<[fill EXCEPT !.op = "move"], o>>)
  ELSE IF Odd(o.ino) /\ f.items # <<>> THEN Then(<<fill, o>>)
  ELSE Transaction(Recounted([NoChange(o.ino) EXCEPT
         !.items = HoleItems(gaps) @@ @, !.size = o.size]))

\* shrink_item: what is left of one item by a cut to `size` bytes.
ShrunkItem(it, k, size) ==
  IF it.kind = "inline" THEN InlineItem(SubSeq(it.data, 1, Min({size, Len(it.data)})))
  ELSE [it EXCEPT !.num = Min({@, Ceil(size) - k})]

\* Each item past the end goes; its extent too when it is the one reference,
\* and only the reference otherwise.
Shrink(o) ==
  LET items == files[o.ino].items
      gone == {k \in DOMAIN items : k >= Ceil(o.size)}
      held == gone \cap Allocated(items)
      sole == {k \in held : RefsTotal(items[k].at) = 1} IN
  IF \E k \in held : ~InsideExtent(items[k]) THEN Refused
  ELSE Transaction(Recounted([NoChange(o.ino) EXCEPT
         !.items = [k \in DOMAIN items \ gone |-> ShrunkItem(items[k], k, o.size)],
         !.size = o.size,
         !.releases = Refs(o.ino, items, sole),
         !.unrefs = Refs(o.ino, items, held \ sole)]))

PlanTruncate(o) ==
  LET size == files[o.ino].size IN
  IF o.size = size THEN Done ELSE IF o.size > size THEN Grow(o) ELSE Shrink(o)

-----------------------------------------------------------------------------
(* Replacing a range. *)

\* cut_range: what [lo, hi) leaves of the items that run into it, out of it or
\* through it, those it covers, and those it splits in two.
Covered(items, lo, hi) == {k \in Touching(items, lo, hi) : lo <= k /\ EndOf(items, k) <= hi}
\* Mutant: an item split in two names its extent once.
SplitsNone(items, lo, hi) == {}

Splits(items, lo, hi) ==
  {k \in Touching(items, lo, hi) \cap Allocated(items) : k < lo /\ hi < EndOf(items, k)}
CutRange(items, lo, hi) ==
  LET hit == Touching(items, lo, hi)
      front == {k \in hit : k < lo}  back == {k \in hit : EndOf(items, k) > hi} IN
  [k \in front |-> [items[k] EXCEPT !.num = lo - k]]
  @@ [s \in {hi : k \in back} |-> LET k == Max(back) IN
       [items[k] EXCEPT !.off = @ + hi - k, !.num = @ - (hi - k)]]
  @@ Less(items, hit)

\* drop_covered: an extent whose every reference goes is released.
AllGo(items, gone, e) == Cardinality({k \in gone : items[k].at = e}) = RefsTotal(e)
DropCovered(ino, items, covered) ==
  LET held == covered \cap Allocated(items)
      freed == {k \in held : AllGo(items, held, items[k].at)} IN
  [ok |-> \A k \in held : InsideExtent(items[k]),
   releases |-> Refs(ino, items, freed), unrefs |-> Refs(ino, items, held \ freed)]

Rewrite(sector, from, to) == [sector |-> sector, from |-> from, to |-> to]
Change(cut, rewrites, holes, size) ==
  [cut |-> cut, rewrites |-> rewrites, holes |-> holes, size |-> size]

HoldingItem(items, s) == Holding(items, s) \cap Allocated(items)
RewrittenBytes(ino, r) ==
  Zeroed(ReadAt(ino, r.sector * S, S), r.from - r.sector * S, r.to - r.sector * S)

\* written_in_place: a sector of a preallocated extent this file alone holds.
InPlaceKeys(items, r) == HoldingItem(items, r.sector) \cap Preallocated(items)
RewriteRefused(ino, r) ==
  LET items == files[ino].items IN
  \E k \in HoldingItem(items, r.sector) :
    \/ items[k].kind = "reg" /\ files[ino].nocow
    \/ items[k].kind = "pre" /\
         \/ ~InsideExtent(items[k])
         \/ RefsTotal(items[k].at) # Cardinality({j \in DOMAIN items : items[j].at = items[k].at})

Joinable(items, a, b) ==
  /\ items[a].kind = "reg" /\ items[b].kind = "reg" /\ ~items[a].packed /\ ~items[b].packed
  /\ EndOf(items, a) = b /\ items[a].at = items[b].at /\ RefOf(items, a) = RefOf(items, b)
Join(items, a, b) ==
  IF a = {} \/ b = {} THEN items
  ELSE LET x == Max(a)  y == Min(b) IN
       IF Joinable(items, x, y)
       THEN Less([items EXCEPT ![x].num = @ + items[y].num], {y}) ELSE items

\* join_written_sectors: with the neighbour after it, then the one before.
JoinWritten(items, s) ==
  LET after == Join(items, {s}, {k \in DOMAIN items : k > s}) IN
  Join(after, {k \in DOMAIN items : k < s}, {s})

\* change_range: the range cut, its edges' sectors rewritten where they lie or
\* to a new sector each, its holes preallocated.
ChangeRange(ino, c) ==
  LET items == files[ino].items
      lo == c.cut[1]  hi == c.cut[2]  cutting == lo < hi
      left == IF cutting THEN CutRange(items, lo, hi) ELSE items
      covered == IF cutting THEN Covered(items, lo, hi) ELSE {}
      split == IF cutting THEN Splits(items, lo, hi) ELSE {}
      inPlace == SelectSeq(c.rewrites, LAMBDA r : InPlaceKeys(items, r) # {})
      copied == SelectSeq(c.rewrites, LAMBDA r : InPlaceKeys(items, r) = {})
      key(r) == Max(InPlaceKeys(items, r))
      regular(r) == [items[key(r)] EXCEPT !.kind = "reg", !.off = @ + r.sector - key(r), !.num = 1]
      marked == Merge([i \in DOMAIN inPlace |-> (inPlace[i].sector :> regular(inPlace[i]))]) @@ left
      joined == FoldLeft(LAMBDA its, r : JoinWritten(its, r.sector), marked, inPlace)
      alone == {items[key(inPlace[i])].at : i \in DOMAIN inPlace}
      named(its) == Refs(ino, its, {k \in DOMAIN its : its[k].at \in alone})
      elsewhere(keys) == {k \in keys : items[k].at \notin alone}
      dropped == DropCovered(ino, items, elsewhere(covered))
      news == FindExtents([i \in DOMAIN copied |-> 1]
                          \o [i \in DOMAIN c.holes |-> c.holes[i][2] - c.holes[i][1] + 1])
      sector(i) == news.at[i]
      hole(i) == news.at[Len(copied) + i]
      len(i) == c.holes[i][2] - c.holes[i][1] + 1
      placed == Merge([i \in DOMAIN c.holes |-> (c.holes[i][1] :> Pre(hole(i), 0, len(i)))])
                @@ Merge([i \in DOMAIN copied |-> (copied[i].sector :> Reg(sector(i), 0, 1, FALSE))]) IN
  IF \/ \E i \in DOMAIN c.rewrites : RewriteRefused(ino, c.rewrites[i])
     \/ ~dropped.ok \/ ~news.ok
  THEN Refused
  ELSE Transaction(Recounted([NoChange(ino) EXCEPT
    !.items = placed @@ joined,
    !.size = c.size,
    !.releases = dropped.releases,
    !.unrefs = dropped.unrefs (+) (named(items) (-) named(joined)),
    !.shares = Refs(ino, items, elsewhere(split)) (+) (named(joined) (-) named(items)),
    !.adds = {[at |-> sector(i), len |-> 1, key |-> copied[i].sector] : i \in DOMAIN copied}
             \cup {[at |-> hole(i), len |-> len(i), key |-> c.holes[i][1]] : i \in DOMAIN c.holes},
    !.writes = Merge([i \in DOMAIN inPlace |->
                  ((items[key(inPlace[i])].at + regular(inPlace[i]).off)
                    :> RewrittenBytes(ino, inPlace[i]))])
               @@ Merge([i \in DOMAIN copied |-> (sector(i) :> RewrittenBytes(ino, copied[i]))])]))

RangeRefused(o) == o.len = 0 \/ ~noHoles \/ HasInline(files[o.ino].items)

\* fallocate: every hole of the range, the file's partial last sector zeroed
\* first when the range runs past it.
PlanFallocate(o) ==
  LET f == files[o.ino]  end == o.off + o.len
      last == f.size \div S
      past == end > f.size /\ Odd(o.ino)
      span == (o.off \div S) .. (Ceil(end) - 1)
      holes == Runs({s \in span : Holding(f.items, s) = {}} \ (IF past THEN {last} ELSE {})) IN
  IF RangeRefused(o) THEN Refused
  ELSE IF \E k \in Touching(f.items, o.off \div S, Ceil(end)) :
            f.items[k].at = 0 \/ (f.items[k].kind = "reg" /\ k * S >= f.size)
  THEN Refused
  ELSE ChangeRange(o.ino, Change(
    IF past THEN <<last, last + 1>> ELSE <<0, 0>>,
    IF past THEN <<Rewrite(last, f.size, (last + 1) * S)>> ELSE <<>>,
    SetToSortSeq(holes, LAMBDA a, b : a[1] < b[1]),
    IF o.keep THEN f.size ELSE Max({f.size, end})))

\* plan_punch: from the first extent in the range; part of a sector is zeroed
\* where the range starts or ends inside one that holds an extent.
PunchPlan(items, size, start, end) ==
  LET first == start \div S  rounded == Ceil(size) * S
      front == start % S # 0 /\ start < rounded
      hi == end \div S
      back == end % S # 0 /\ end < rounded /\ HoldingItem(items, hi) # {} IN
  IF first = (end - 1) \div S /\ end - start < S
  THEN IF start >= rounded THEN Change(<<first, first>>, <<>>, <<>>, size)
       ELSE Change(<<first, first + 1>>, <<Rewrite(first, start, end)>>, <<>>, size)
  ELSE Change(<<IF front THEN first ELSE Ceil(start), IF back THEN hi + 1 ELSE hi>>,
         (IF front THEN <<Rewrite(first, start, (first + 1) * S)>> ELSE <<>>)
         \o (IF back THEN <<Rewrite(hi, hi * S, end)>> ELSE <<>>), <<>>, size)

PlanPunch(o) ==
  LET f == files[o.ino]  end == o.off + o.len
      starts == {Max({k * S, o.off}) : k \in {j \in Allocated(f.items) :
                   EndOf(f.items, j) * S > o.off}} IN
  IF RangeRefused(o) THEN Refused
  ELSE IF starts = {} \/ Min(starts) >= end THEN Done
  ELSE ChangeRange(o.ino, PunchPlan(f.items, f.size, Min(starts), end))

-----------------------------------------------------------------------------
(* clone_range and dedupe_range. *)

Overlap(a, b, n) == a < b + n /\ b < a + n
JoinRefused(o) == files[o.src].nocow # files[o.ino].nocow \/ ~noHoles

\* The items of `src` over `span` sectors from `from`, as `dst` names them.
Clones(src, from, span, at) ==
  LET items == files[src].items
      taken == Touching(items, from, from + span) \cap Allocated(items)
      begin(k) == Max({k, from})
      end(k) == Min({EndOf(items, k), from + span}) IN
  [s \in {at + begin(k) - from : k \in taken} |->
    LET k == CHOOSE k \in taken : s = at + begin(k) - from IN
    [items[k] EXCEPT !.off = @ + begin(k) - k, !.num = end(k) - begin(k)]]

\* remap: what the destination holds in the range is dropped, and the source's
\* items are put there, each a reference more to its extent.
Remap(o, span, len) ==
  LET f == files[o.ino]  at == o.off \div S  from == o.from \div S
      size == Max({f.size, o.off + len})
      left == CutRange(f.items, at, at + span)
      dropped == DropCovered(o.ino, f.items, Covered(f.items, at, at + span))
      clones == Clones(o.src, from, span, at) IN
  IF \/ HasInline(f.items) \/ (HasInline(files[o.src].items) /\ from = 0)
     \/ size > f.size /\ Odd(o.ino) /\ f.items # <<>>
     \/ ~dropped.ok \/ \E k \in DOMAIN clones : ~InsideExtent(clones[k])
  THEN Refused
  ELSE Transaction(Recounted([NoChange(o.ino) EXCEPT
    !.items = clones @@ left,
    !.size = size,
    !.releases = dropped.releases,
    !.unrefs = dropped.unrefs,
    !.shares = Refs(o.ino, f.items, Splits(f.items, at, at + span))
               (+) Refs(o.ino, clones, DOMAIN clones)]))

\* clone_span: the kernel's rules for a clone's range.
PlanClone(o) ==
  LET source == files[o.src].size
      len == IF o.len = 0 THEN source - o.from ELSE o.len
      span == Ceil(o.from + len) - o.from \div S IN
  IF \/ JoinRefused(o) \/ o.from > source \/ o.from + len > source
     \/ o.from % S # 0 \/ o.off % S # 0
     \/ len % S # 0 /\ o.from + len # source
  THEN Refused
  ELSE IF len = 0 THEN Done
  ELSE IF \/ len % S # 0 /\ o.off + len < files[o.ino].size
          \/ o.src = o.ino /\ Overlap(o.from, o.off, span * S)
  THEN Refused
  ELSE Remap(o, span, len)

\* dedupe_span, same_bytes: whole sectors of the two, or both to their ends.
PlanDedupe(o) ==
  LET source == files[o.src].size  target == files[o.ino].size
      ends == o.from + o.len = source /\ o.off + o.len = target
      len == IF ends THEN o.len ELSE o.len - (o.len % S)
      span == IF ends THEN Ceil(source) - o.from \div S ELSE len \div S IN
  IF JoinRefused(o) THEN Refused
  ELSE IF o.len = 0 THEN Done
  ELSE IF \/ o.from + o.len > source \/ o.off + o.len > target
          \/ o.from % S # 0 \/ o.off % S # 0
  THEN Refused
  ELSE IF len = 0 THEN Done
  ELSE IF o.src = o.ino /\ Overlap(o.from, o.off, span * S) THEN Refused
  ELSE IF ReadAt(o.src, o.from, len) # ReadAt(o.ino, o.off, len) THEN Done
  ELSE Remap(o, span, len)

-----------------------------------------------------------------------------
(* defragment_to. *)

Movable(items, k) ==
  /\ items[k].kind = "reg" /\ ~items[k].packed
  /\ Cardinality({j \in DOMAIN items : items[j].at = items[k].at}) = 1

\* Adjacent movable items, taken from the left while they come to no more
\* than the target; two or more of them are a run.
DefragRuns(items, target) ==
  LET total(run) == SumOver(Range(run), LAMBDA k : items[k].num)
      closed(acc) == IF Len(acc.run) < 2 THEN acc.runs ELSE Append(acc.runs, acc.run)
      step(acc, k) ==
        IF /\ acc.run # <<>> /\ Movable(items, k) /\ EndOf(items, acc.run[Len(acc.run)]) = k
           /\ total(acc.run) + items[k].num <= target
        THEN [acc EXCEPT !.run = Append(@, k)]
        ELSE [runs |-> closed(acc),
              run |-> IF Movable(items, k) /\ items[k].num < target THEN <<k>> ELSE <<>>] IN
  closed(FoldLeft(step, [runs |-> <<>>, run |-> <<>>], SetToSortSeq(DOMAIN items, <)))

PlanDefrag(o) ==
  LET items == files[o.ino].items
      runs == DefragRuns(items, o.target)
      members == UNION {Range(runs[i]) : i \in DOMAIN runs}
      len(i) == SumOver(Range(runs[i]), LAMBDA k : items[k].num)
      news == FindExtents([i \in DOMAIN runs |-> len(i)])
      shared == {k \in members : RefsTotal(items[k].at) # 1}
      t == [NoChange(o.ino) EXCEPT
        !.items = Merge([i \in DOMAIN runs |-> (runs[i][1] :> Reg(news.at[i], 0, len(i), FALSE))])
                  @@ Less(@, members),
        !.releases = Refs(o.ino, items, members \ shared),
        !.unrefs = Refs(o.ino, items, shared),
        !.adds = {[at |-> news.at[i], len |-> len(i), key |-> runs[i][1]] : i \in DOMAIN runs},
        !.writes = Merge([i \in DOMAIN runs |->
                     Laid(news.at[i], ReadAt(o.ino, runs[i][1] * S, len(i) * S))])] IN
  IF runs = <<>> THEN Done
  ELSE IF \/ \E k \in members : ~InsideExtent(items[k]) \/ RefOf(items, k) < 0
          \/ ~news.ok
  THEN Refused
  ELSE Transaction([t EXCEPT !.delta = Moved(t)])

-----------------------------------------------------------------------------
(* One call at a time. *)

NoCall == [op |-> "none"]

Init ==
  \E l \in Layouts :
    /\ noHoles = l.noHoles /\ files = l.files /\ extents = l.extents
    /\ csums = l.csums /\ used = SumOver(DOMAIN l.extents, LAMBDA e : l.extents[e].len)
    /\ disk = l.disk
    /\ want = [i \in Inos |-> Contents(i)]
    /\ todo = <<>> /\ call = NoCall /\ ended = "" /\ calls = 0 /\ cuts = 0

\* A write's bytes are the number of the call that makes it.
Numbered(o) == IF o.op = "write" THEN [o EXCEPT !.data = [i \in DOMAIN @ |-> calls + 1]] ELSE o

Ask(o) ==
  /\ todo = <<>> /\ calls < MaxCalls
  /\ LET p == Numbered(o) IN
       /\ todo' = <<p>>
       /\ call' = [op |-> p.op, before |-> want, goal |-> Meaning(p, want)]
  /\ calls' = calls + 1 /\ ended' = ""
  /\ UNCHANGED <<noHoles, volume, disk, want, cuts>>

Ends(how) == todo' = <<>> /\ call' = NoCall /\ ended' = how

\* One part of the call is over, and the next is planned from what it left.
PartDone ==
  /\ want' = Meaning(Head(todo), want)
  /\ IF Len(todo) = 1 THEN Ends("done") ELSE todo' = Tail(todo) /\ UNCHANGED <<call, ended>>

Committed(t) ==
  /\ files' = [files EXCEPT ![t.ino].items = t.items, ![t.ino].size = t.size,
                            ![t.ino].nbytes = t.nbytes]
  /\ extents' = ExtentsAfter(t)
  /\ csums' = CsumsAfter(t)
  /\ used' = used + t.delta
  /\ disk' = t.writes @@ disk
  /\ PartDone
  /\ UNCHANGED cuts

\* Power lost before the superblocks: any of the data may be on the device.
LostPower(t) ==
  /\ cuts < MaxCuts
  /\ cuts' = cuts + 1
  /\ \E landed \in SUBSET DOMAIN t.writes :
       disk' = [s \in landed |-> t.writes[s]] @@ disk
  /\ Ends("cut")
  /\ UNCHANGED <<volume, want>>

\* A write in place has no commit: power lost leaves any of its sectors.
Poked(o) ==
  \E landed \in SUBSET InPlaceSectors(o) :
    /\ landed # InPlaceSectors(o) => cuts < MaxCuts
    /\ disk' = [a \in {InPlaceAt(o, s) : s \in landed} |->
                 InPlaceBytes(o, CHOOSE s \in landed : InPlaceAt(o, s) = a)] @@ disk
    /\ IF landed = InPlaceSectors(o) THEN PartDone /\ UNCHANGED cuts
       ELSE /\ want' = [want EXCEPT ![o.ino] = [i \in DOMAIN @ |->
                         IF (i - 1) \div S \in landed THEN Meaning(o, want)[o.ino][i] ELSE @[i]]]
            /\ cuts' = cuts + 1 /\ Ends("cut")
    /\ UNCHANGED volume

Carry(plan) ==
  /\ CASE plan.kind = "refused" -> Ends("refused") /\ UNCHANGED <<volume, disk, want, cuts>>
       [] plan.kind = "done" -> PartDone /\ UNCHANGED <<volume, disk, cuts>>
       [] plan.kind = "then" -> /\ todo' = plan.ops \o Tail(todo)
                                /\ UNCHANGED <<volume, disk, want, call, ended, cuts>>
       [] plan.kind = "commit" -> Committed(plan.txn) \/ LostPower(plan.txn)
       [] plan.kind = "poke" -> Poked(plan.write)
  /\ UNCHANGED <<noHoles, calls>>

Doing(op) == todo # <<>> /\ Head(todo).op = op

WriteStep == Doing("write") /\ Carry(PlanWrite(Head(todo)))
MoveInline == Doing("move") /\ Carry(PlanMove(Head(todo)))
ZeroTail == Doing("tail") /\ Carry(WriteTail(Head(todo).ino))
WriteInto == Doing("into") /\ Carry(WritePrealloc(Head(todo)))
Truncate == Doing("truncate") /\ Carry(PlanTruncate(Head(todo)))
Fallocate == Doing("fallocate") /\ Carry(PlanFallocate(Head(todo)))
PunchHole == Doing("punch") /\ Carry(PlanPunch(Head(todo)))
CloneRange == Doing("clone") /\ Carry(PlanClone(Head(todo)))
DedupeRange == Doing("dedupe") /\ Carry(PlanDedupe(Head(todo)))
Defragment == Doing("defrag") /\ Carry(PlanDefrag(Head(todo)))

Next ==
  \/ \E o \in Requests : Ask(o)
  \/ WriteStep \/ MoveInline \/ ZeroTail \/ WriteInto \/ Truncate \/ Fallocate
  \/ PunchHole \/ CloneRange \/ DedupeRange \/ Defragment

Spec == Init /\ [][Next]_vars

-----------------------------------------------------------------------------
(* What a reader of these calls expects. *)

Span(items, k) == k .. (EndOf(items, k) - 1)

\* Items of a file never overlap, and without NO_HOLES leave no sector below
\* its size uncovered.
TypeOK ==
  /\ \A i \in Inos : LET items == files[i].items IN
       /\ \A j \in DOMAIN items, k \in DOMAIN items :
            j # k => Span(items, j) \cap Span(items, k) = {}
       /\ ~noHoles /\ ~HasInline(items) => Uncovered(items, 0, Ceil(files[i].size)) = {}
  /\ \A k \in DOMAIN todo : todo[k].ino \in Inos
  /\ ended \in {"", "done", "refused", "cut"}
  /\ calls \in 0 .. MaxCalls /\ cuts \in 0 .. MaxCuts

\* Between any two parts of any call, after a refusal and after a power cut,
\* every file reads as the calls and parts of calls that took place leave it,
\* every digest verifies and no byte of another file or of free space shows.
ReadsRight == \A i \in Inos : Contents(i) = want[i]

\* The extent tree counts, for each file and offset, exactly the items that
\* name an extent; none is kept that nothing names, none overlaps another.
RefsExact ==
  /\ \A i \in Inos : \A k \in Allocated(files[i].items) :
       files[i].items[k].at \in DOMAIN extents /\ InsideExtent(files[i].items[k])
  /\ \A e \in DOMAIN extents :
       LET items == {x \in Inos \X UNION {DOMAIN files[i].items : i \in Inos} :
                       x[2] \in DOMAIN files[x[1]].items /\ files[x[1]].items[x[2]].at = e}
           ref(x) == <<x[1], RefOf(files[x[1]].items, x[2])>> IN
       /\ items # {}
       /\ extents[e].refs = [r \in {ref(x) : x \in items} |-> Cardinality({x \in items : ref(x) = r})]
       /\ \A d \in DOMAIN extents : d # e => Sectors(d) \cap Sectors(e) = {}

\* Digests are of allocated sectors only, and every sector a checksummed
\* file's regular item names has the digest of what it holds.
DigestsExact ==
  /\ DOMAIN csums \subseteq UNION {Sectors(e) : e \in DOMAIN extents}
  /\ \A i \in Inos : \A k \in DOMAIN files[i].items :
       LET it == files[i].items[k]
           of == IF it.packed THEN {it.at} ELSE (it.at + it.off) .. (it.at + it.off + it.num - 1) IN
       it.kind = "reg" /\ Summed(i) =>
         \A s \in of : s \in DOMAIN csums /\ csums[s] = disk[s]

\* The inode's byte count is that of its items, whichever way it was reached:
\* adjusted by a write, counted again by everything else.
NbytesExact == \A i \in Inos : files[i].nbytes = CountedBytes(files[i].items)

\* check (check.rs) reports nothing of the extents and digests, whatever was
\* cut off; without an extent's record it reports the extent, and its digests.
Verifier == INSTANCE Check
CheckAgrees ==
  LET len == [e \in DOMAIN extents |-> extents[e].len]
      named == UNION {{[at |-> files[i].items[k].at, len |-> len[files[i].items[k].at]] :
                         k \in Allocated(files[i].items)} : i \in Inos}
      data(l) == Verifier!DataAgainstFiles(named, l)
      digests(l) == Verifier!Checksums(DOMAIN csums, l)
  IN  /\ data(len) = {} /\ digests(len) = {}
      /\ \A e \in DOMAIN len :
           /\ data(Less(len, {e})) # {}
           /\ digests(Less(len, {e})) # {} <=> Sectors(e) \cap DOMAIN csums # {}

\* What is kept beside a file's bytes: its items, their digests, its count;
\* and check finds it so.
CountsExact == TypeOK /\ DigestsExact /\ NbytesExact /\ CheckAgrees

\* A call that ends well did all it says to the bytes, however many parts it
\* took, and nothing else.
DoneAsAsked == [][ended' = "done" /\ todo # <<>> => want' = call.goal]_<<todo, ended>>

\* The three that follow are what the code says of itself and does not keep
\* (README, Known departures).

\* namespace.rs of bytes_used: it "gives back what each released extent held".
UsedExact == used = SumOver(DOMAIN extents, LAMBDA e : extents[e].len)

\* truncate: a file is never refused getting shorter (none of the refusals it
\* lists is about references).
ShrinkTaken ==
  [][todo # <<>> /\ ended' = "refused" =>
       ~(Head(todo).op = "truncate" /\ Head(todo).size < files[Head(todo).ino].size)]_<<todo, ended>>

\* write: "Nothing is written unless the whole range can be".
AllOrNothing ==
  [][ended' = "refused" /\ call.op = "write" => want' = call.before]_<<todo, ended>>
=============================================================================
