-------------------------------- MODULE Chunks --------------------------------
(***************************************************************************)
(* The chunks a volume's devices are cut into and the block groups in      *)
(* them, and the calls that change them: balance, which moves a group's    *)
(* contents into a new chunk by several transactions; resize; the removal  *)
(* of an emptied device; and trim, which discards what is free.            *)
(*                                                                         *)
(* Lengths are counted in units, each as long as a stripe, a sector and a  *)
(* tree block; superblock copies take one.  How a commit reaches the       *)
(* devices is Commit's, which of a pool's members know of it is Pool's,    *)
(* and references by parent leaf are Trees': here a commit is one step and *)
(* a reference names a tree, an inode and an offset.  Which of the volume's *)
(* trees a transaction touches is not told apart: one block changes with   *)
(* every commit, the chunk tree's with every change of a chunk, and one    *)
(* stays where it is unless it is moved.                                   *)
(***************************************************************************)
EXTENDS Integers, FiniteSets, Bags, FiniteSetsExt, SequencesExt, Functions

CONSTANTS
  ChunkLen,       \* units in a chunk
  SuperAt,    \* the units of a device that superblock copies are in
  Batch,      \* EXTENTS_PER_TRANSACTION
  Volumes,    \* the volumes to start from
  Balances,   \* what a balance may be asked for
  Sizes,      \* the sizes a volume may be asked to become
  MaxCalls    \* bound: how many calls are made at most

ASSUME ChunksAssumption ==
  /\ ChunkLen \in Nat \ {0} /\ Batch \in Nat \ {0} /\ MaxCalls \in Nat
  /\ SuperAt \subseteq Nat /\ 0 \in SuperAt /\ IsFiniteSet(SuperAt)

None == 0
Hot == "hot"        \* a block every commit rewrites: the root tree's
Cold == "cold"      \* a block no commit here has a reason to rewrite
ChunkTree == "chunk tree"
Block == {Hot, Cold, ChunkTree}
Owner(b) == IF b = ChunkTree THEN "SYSTEM" ELSE "METADATA"

VARIABLES
  fs,         \* the volume as last committed
  disk,       \* what each unit of each device holds
  step,       \* what the call under way does next, "idle" when there is none
  call,       \* what that call is about
  leaving,    \* the device it moves chunks off, or None
  calls,      \* how many calls were made
  outcome     \* what the last call that ended came to

vars == <<fs, disk, step, call, leaving, calls, outcome>>

NoCall == [todo |-> <<>>, made |-> <<>>, group |-> None, new |-> None,
           batches |-> <<>>, at |-> 0]
Steps == {"next", "trees", "copy", "commit", "undo", "drop"}
Zero == <<"zero">>
Super == <<"super">>

-----------------------------------------------------------------------------
(* A volume: its chunk tree, device tree, block groups, free-space tree,     *)
(* extent records and the file items that name them.                         *)

Sum(S, f(_)) == MapThenSumSet(f, S)
Span(at, len) == at .. at + len - 1

Groups(f) == DOMAIN f.chunk
Units(g) == Span(g, ChunkLen)
GroupOf(a) == (a \div ChunkLen) * ChunkLen
Holds(f, g, kind) == kind \in f.chunk[g].kind

\* Where each copy of a logical unit is: a device and a unit of it.
Copies(f, a) ==
  LET c == f.chunk[GroupOf(a)]
  IN  {<<c.stripes[i][1], c.stripes[i][2] + a - GroupOf(a)>> : i \in DOMAIN c.stripes}

\* What the extent tree records as allocated in a group.
Extents(f, g) == {at \in DOMAIN f.rec : GroupOf(at) = g}
Blocks(f, g) == {b \in Block : GroupOf(f.tree[b]) = g}
Allocated(f, g) ==
  UNION {Span(at, f.rec[at].len) : at \in Extents(f, g)}
    \cup {f.tree[b] : b \in Blocks(f, g)}
Gaps(f, g) == Units(g) \ Allocated(f, g)

OnSuperblock(f, a) == \E p \in Copies(f, a) : p[2] \in SuperAt
Writable(f, g) == \A i \in DOMAIN f.chunk[g].stripes : f.chunk[g].stripes[i][1] \in f.writable
OnLeaving(f, g, dev) == \E i \in DOMAIN f.chunk[g].stripes : f.chunk[g].stripes[i][1] = dev

\* The least unit a new block may take: in a group for its tree, not the one
\* being emptied, and last in a group on the device chunks are leaving.
CandidateBlocks(f, b, taken, emptying) ==
  {a \in UNION {Gaps(f, g) : g \in {g \in Groups(f) : /\ Holds(f, g, Owner(b))
                                                      /\ Writable(f, g)
                                                      /\ g # emptying}} :
     a \notin taken /\ ~OnSuperblock(f, a)}

NextFree(f, b, taken, emptying, off) ==
  LET free == CandidateBlocks(f, b, taken, emptying)
      first == {a \in free : ~OnLeaving(f, GroupOf(a), off)}
  IN  IF free = {} THEN None ELSE IF first # {} THEN Min(first) ELSE Min(free)

\* Where the blocks a transaction copies go, each clear of those before it.
Placed(f, dirty, emptying, off) ==
  LET order == SetToSeq(dirty)
      place[i \in 0 .. Len(order)] ==
        IF i = 0 THEN <<>>
        ELSE Append(place[i - 1],
                    NextFree(f, order[i], ToSet(place[i - 1]), emptying, off))
  IN  [b \in dirty |-> place[Len(order)][CHOOSE i \in DOMAIN order : order[i] = b]]

\* The groups' counters and the free-space tree after a change of what is
\* allocated, moved by the difference as the plan's deltas are.
Given(old, new, g) == Allocated(old, g) \ Allocated(new, g)
GroupDelta(old, new, g) ==
  Cardinality(Allocated(new, g) \ Allocated(old, g)) - Cardinality(Given(old, new, g))

FreeAfter(old, new, g) ==
  (new.free[g] \cup Given(old, new, g)) \ (Allocated(new, g) \ Allocated(old, g))

Accounted(old, new) ==
  LET both == Groups(old) \cap Groups(new)
      moved == [g \in both |-> GroupDelta(old, new, g)]
  IN  [new EXCEPT
        !.used = [g \in DOMAIN @ |-> IF g \in both THEN @[g] + moved[g] ELSE @[g]],
        !.free = [g \in DOMAIN @ |-> IF g \in both THEN FreeAfter(old, new, g) ELSE @[g]],
        !.bytesUsed = @ + Sum(both, LAMBDA g : moved[g])]

\* What comes of committing a change that leaves the volume as new, with the
\* blocks dirty copied: nothing, when there is no room for them all.
Commits(new, dirty, emptying) ==
  LET placed == Placed(fs, dirty, emptying, leaving)
  IN  IF \E b \in dirty : placed[b] = None THEN {}
      ELSE {Accounted(fs, [new EXCEPT !.tree = placed @@ fs.tree])}

\* The devices once the commit of f is written: its new blocks, every copy of
\* them, and the superblocks of the devices it counts.
Written(f, dirty) ==
  LET placed == [b \in dirty |-> Copies(fs, f.tree[b])]
  IN  [p \in DOMAIN disk |->
         IF \E b \in dirty : p \in placed[b]
         THEN <<"tree", CHOOSE b \in dirty : p \in placed[b]>>
         ELSE IF p[1] \in f.writable /\ p[2] \in SuperAt THEN Super ELSE disk[p]]

-----------------------------------------------------------------------------
(* Reading                                                                   *)

\* A sector of an extent from whichever copy verifies, or Zero.
Verified(f, at, s) ==
  IF \E p \in Copies(f, at + s) : disk[p] = <<"data", f.rec[at].data, s>>
  THEN <<"data", f.rec[at].data, s>> ELSE Zero

Contents(f) ==
  [k \in DOMAIN f.item |->
     [s \in 0 .. f.item[k].len - 1 |-> Verified(f, f.item[k].at, f.item[k].off + s)]]

-----------------------------------------------------------------------------
(* What a balance relocates, and what it refuses.                            *)

Profiles == {"single", "dup", "raid1"}
CopiesOf(profile) == IF profile = "single" THEN 1 ELSE 2

Threshold(usage) == IF usage = 0 THEN 1 ELSE (ChunkLen * usage) \div 100

Selects(b, g) ==
  /\ fs.chunk[g].kind \cap b.kinds # {}
  /\ fs.chunk[g].profile \in b.profiles
  /\ fs.chunk[g].profile # b.convert
  /\ fs.used[g] < Threshold(b.usage) \/ b.usage = 101

\* The file offset of an extent's first unit, as its items' references say.
RefOf(k, i) == <<k[1], k[2], k[3] - i.off>>
Naming(f, at, ref) == {k \in DOMAIN f.item : f.item[k].at = at /\ RefOf(k, f.item[k]) = ref}

DataExtent(at) ==
  [at |-> at, rec |-> fs.rec[at],
   items |-> UNION {Naming(fs, at, ref) : ref \in DOMAIN fs.rec[at].refs}]

DataExtents(g) ==
  [i \in 1 .. Cardinality(Extents(fs, g)) |->
     DataExtent(SetToSortSeq(Extents(fs, g), <)[i])]

Enumerable(g) ==
  \A at \in Extents(fs, g), ref \in UNION {DOMAIN fs.rec[a].refs : a \in Extents(fs, g)} :
    ref \in DOMAIN fs.rec[at].refs =>
      Cardinality(Naming(fs, at, ref)) = fs.rec[at].refs[ref]

Evacuable(g) == ~Holds(fs, g, "DATA") /\ \A b \in Blocks(fs, g) : b \notin fs.shared

Converts(own, to) == {own, to} = {"single", "dup"} \/ own = to

Relocatable(g, to) ==
  /\ g \in Groups(fs)
  /\ ~Holds(fs, g, "SYSTEM")
  /\ IF Holds(fs, g, "METADATA") THEN Evacuable(g) ELSE Enumerable(g)
  /\ Converts(fs.chunk[g].profile, to)
  /\ fs.chunk[g].profile \in {"single", "dup"}
  /\ Writable(fs, g)
  /\ fs.freeTree
  /\ ~Holds(fs, g, "METADATA") =>
       /\ \A at \in Extents(fs, g) : fs.rec[at].digests
       /\ fs.used[g] = Sum(Extents(fs, g), LAMBDA at : fs.rec[at].len)

-----------------------------------------------------------------------------
(* A chunk allocated                                                         *)

Taken(dev) == UNION {Span(e.at, ChunkLen) : e \in {e \in fs.devExtents : e.dev = dev}}
Reserved == {0} \cup SuperAt

\* The first hole of a device clear of what is taken, of its first unit and
\* of every superblock copy.
Hole(dev, taken) ==
  LET fits == {at \in 0 .. fs.devItem[dev].total - ChunkLen :
                 Span(at, ChunkLen) \cap (taken \cup Reserved) = {}}
  IN  IF fits = {} THEN None ELSE Min(fits)

Stripes(dev, copies) ==
  LET place[n \in 0 .. copies] ==
        IF n = 0 THEN <<>>
        ELSE Append(place[n - 1],
                    Hole(dev, Taken(dev) \cup UNION {Span(place[n - 1][i], ChunkLen) : i \in 1 .. n - 1}))
  IN  place[copies]

Unallocated(dev) == fs.devItem[dev].total - Cardinality(Taken(dev))

\* Mutant: whichever has room.
CandidatesAny(copies) ==
  {dev \in fs.writable : None \notin ToSet(Stripes(dev, copies))}

\* The writable devices with room, but for the one chunks are leaving.
Candidates(copies) ==
  {dev \in fs.writable \ {leaving} : None \notin ToSet(Stripes(dev, copies))}

Chosen(copies) ==
  CHOOSE dev \in Candidates(copies) :
    \A other \in Candidates(copies) :
      \/ Unallocated(dev) > Unallocated(other)
      \/ Unallocated(dev) = Unallocated(other) /\ dev <= other

NextLogical == Max({g + ChunkLen : g \in Groups(fs)})

DeviceUsed(f, dev, by) ==
  [f EXCEPT !.devItem[dev].used = @ + by, !.superItem[dev].used = @ + by]

WithChunk(kind, profile) ==
  LET dev == Chosen(CopiesOf(profile))
      at == Stripes(dev, CopiesOf(profile))
      new == NextLogical
  IN  DeviceUsed([fs EXCEPT
        !.chunk = (new :> [kind |-> kind, profile |-> profile,
                           stripes |-> [i \in DOMAIN at |-> <<dev, at[i]>>]]) @@ @,
        !.devExtents = @ \cup {[dev |-> dev, at |-> at[i], chunk |-> new] : i \in DOMAIN at},
        !.used = (new :> 0) @@ @,
        !.free = (new :> Units(new)) @@ @], dev, ChunkLen * CopiesOf(profile))

-----------------------------------------------------------------------------
(* A group removed                                                           *)

ExtentsOf(g) == {e \in fs.devExtents : e.chunk = g}

Removable(g) ==
  /\ fs.used[g] = 0 /\ Allocated(fs, g) = {}
  /\ Cardinality(ExtentsOf(g)) = Len(fs.chunk[g].stripes)
  /\ Cardinality({e.dev : e \in ExtentsOf(g)}) = 1
  /\ \A e \in ExtentsOf(g) : fs.devItem[e.dev].used >= ChunkLen * Cardinality(ExtentsOf(g))

WithoutChunk(g) ==
  LET dev == (CHOOSE e \in ExtentsOf(g) : TRUE).dev
      but(r) == Restrict(r, Groups(fs) \ {g})
  IN  DeviceUsed([fs EXCEPT
        !.chunk = but(@), !.used = but(@), !.free = but(@),
        !.devExtents = @ \ ExtentsOf(g)], dev, -(ChunkLen * Cardinality(ExtentsOf(g))))

-----------------------------------------------------------------------------
(* A batch of data extents moved                                             *)

\* First fit, each extent clear of those placed before it.
Fits(g, len, taken) ==
  {a \in Units(g) : /\ Span(a, len) \subseteq Gaps(fs, g) \ taken
                    /\ \A u \in Span(a, len) : ~OnSuperblock(fs, u)}

PlacedIn(gs, lens) ==
  LET place[i \in 0 .. Len(lens)] ==
        IF i = 0 THEN <<>>
        ELSE LET taken == UNION {Span(place[i - 1][j], lens[j]) :
                                   j \in {j \in 1 .. i - 1 : place[i - 1][j] # None}}
                 fits == UNION {Fits(g, lens[i], taken) : g \in {g \in gs : Writable(fs, g)}}
             IN  Append(place[i - 1], IF fits = {} THEN None ELSE Min(fits))
  IN  place[Len(lens)]

Targets(batch, to) == PlacedIn({to}, [i \in DOMAIN batch |-> batch[i].rec.len])

\* Mutant: the first piece over and over.
CopiedFirst(batch, news) ==
  [p \in DOMAIN disk |->
     LET here == {<<i, s>> \in (DOMAIN batch) \X (0 .. ChunkLen - 1) :
                    s < batch[i].rec.len /\ p \in Copies(fs, news[i] + s)}
     IN  IF here = {} THEN disk[p]
         ELSE LET h == CHOOSE h \in here : TRUE IN Verified(fs, batch[h[1]].at, 0)]

\* Every copy of the new places, with what was read of the old.
Copied(batch, news) ==
  [p \in DOMAIN disk |->
     LET here == {<<i, s>> \in (DOMAIN batch) \X (0 .. ChunkLen - 1) :
                    s < batch[i].rec.len /\ p \in Copies(fs, news[i] + s)}
     IN  IF here = {} THEN disk[p]
         ELSE LET h == CHOOSE h \in here : TRUE IN Verified(fs, batch[h[1]].at, h[2])]

ReadsBack(batch) ==
  \A i \in DOMAIN batch : \A s \in 0 .. batch[i].rec.len - 1 :
    Verified(fs, batch[i].at, s) # Zero

\* The commit's change: each record moved, and every item naming it.
Repointed(batch, news) ==
  LET olds == {batch[i].at : i \in DOMAIN batch}
      itemsOf(i) == batch[i].items
  IN  [fs EXCEPT
        !.rec = [a \in {news[i] : i \in DOMAIN batch} |->
                   batch[CHOOSE i \in DOMAIN batch : news[i] = a].rec]
                @@ Restrict(@, DOMAIN @ \ olds),
        !.item = [k \in DOMAIN @ |->
                    IF \E i \in DOMAIN batch : k \in itemsOf(i)
                    THEN [@[k] EXCEPT !.at = news[CHOOSE i \in DOMAIN batch : k \in itemsOf(i)]]
                    ELSE @[k]]]

-----------------------------------------------------------------------------
(* A call begins: what is chosen is chosen once, and all of it checked       *)
(* before anything is written.                                               *)

Init ==
  \E v \in Volumes :
    /\ fs = v.fs /\ disk = v.disk
    /\ step = "idle" /\ call = NoCall /\ leaving = None /\ calls = 0 /\ outcome = "mounted"

Ends(what) == step' = "idle" /\ call' = NoCall /\ leaving' = None /\ outcome' = what

Begins(todo, off) ==
  /\ step = "idle" /\ calls < MaxCalls
  /\ calls' = calls + 1
  /\ UNCHANGED <<fs, disk>>
  /\ IF \E i \in DOMAIN todo : ~Relocatable(todo[i][1], todo[i][2])
     THEN Ends("refused")
     ELSE /\ step' = "next" /\ call' = [NoCall EXCEPT !.todo = todo]
          /\ leaving' = off
          /\ UNCHANGED outcome

ConvertTo(b, g) == IF b.convert = "keep" THEN fs.chunk[g].profile ELSE b.convert

\* Each group the first of bs that selects it.
Balance(bs) ==
  LET by(g) == {i \in DOMAIN bs : Selects(bs[i], g)}
      chosen == SetToSortSeq({g \in Groups(fs) : by(g) # {}}, <)
  IN  Begins([i \in DOMAIN chosen |->
                <<chosen[i], ConvertTo(bs[Min(by(chosen[i]))], chosen[i])>>], None)

RelocateOff(g, dev) ==
  /\ Cardinality(DOMAIN fs.devItem) > 1 /\ dev \in fs.writable
  /\ OnLeaving(fs, g, dev)
  /\ Begins(<<<<g, fs.chunk[g].profile>>>>, dev)

-----------------------------------------------------------------------------
(* Its transactions                                                          *)

At(s) == step = s /\ UNCHANGED calls

Goes(s) == step' = s /\ UNCHANGED <<call, leaving, outcome>>

\* A batch that fails before any was committed takes the new chunk away.
BatchFails ==
  IF call.at = 1 THEN Goes("undo")
                 ELSE Ends("failed")

Batches(es) ==
  [i \in 1 .. (Len(es) + Batch - 1) \div Batch |->
     SubSeq(es, (i - 1) * Batch + 1, Min({i * Batch, Len(es)}))]

AfterBatch(i, n) == IF i < n THEN "copy" ELSE "drop"

AllocateChunk ==
  /\ At("next") /\ call.todo # <<>>
  /\ LET g == Head(call.todo)[1]
         to == Head(call.todo)[2]
         done == IF ~Relocatable(g, to) \/ Candidates(CopiesOf(to)) = {} THEN {}
                 ELSE Commits(WithChunk(fs.chunk[g].kind, to), {Hot, ChunkTree}, None)
         batches == IF Holds(fs, g, "METADATA") THEN <<>> ELSE Batches(DataExtents(g))
     IN  \/ /\ done = {} /\ Ends("failed") /\ UNCHANGED <<fs, disk>>
         \/ \E f \in done :
              /\ fs' = f /\ disk' = Written(f, {Hot, ChunkTree})
              /\ call' = [call EXCEPT !.group = g, !.new = NextLogical,
                                      !.batches = batches, !.at = 1]
              /\ step' = IF Holds(fs, g, "METADATA") THEN "trees"
                         ELSE AfterBatch(0, Len(batches))
              /\ UNCHANGED <<leaving, outcome>>

CopyTrees ==
  /\ At("trees")
  /\ LET inside == Blocks(fs, call.group)
         dirty == inside \cup {Hot}
         done == Commits(fs, dirty, call.group)
     IN  \/ /\ inside = {} /\ Goes("drop") /\ UNCHANGED <<fs, disk>>
         \/ /\ inside # {} /\ done = {} /\ Ends("failed") /\ UNCHANGED <<fs, disk>>
         \/ \E f \in done :
              /\ inside # {} /\ fs' = f /\ disk' = Written(f, dirty)
              /\ Goes("drop")

WriteBatch ==
  /\ At("copy") /\ UNCHANGED fs
  /\ LET batch == call.batches[call.at]
         news == Targets(batch, call.new)
     IN  IF None \in ToSet(news) \/ ~ReadsBack(batch)
         THEN BatchFails /\ UNCHANGED disk
         ELSE disk' = Copied(batch, news) /\ Goes("commit")

CommitBatch ==
  /\ At("commit")
  /\ LET batch == call.batches[call.at]
         done == Commits(Repointed(batch, Targets(batch, call.new)), {Hot}, None)
     IN  \/ done = {} /\ BatchFails /\ UNCHANGED <<fs, disk>>
         \/ \E f \in done :
              /\ fs' = f /\ disk' = Written(f, {Hot})
              /\ step' = AfterBatch(call.at, Len(call.batches))
              /\ call' = [call EXCEPT !.at = @ + 1]
              /\ UNCHANGED <<leaving, outcome>>

\* The group removed and what is done next, or the call failed.
Removes(g, emptying, next) ==
  LET done == IF Removable(g) THEN Commits(WithoutChunk(g), {Hot, ChunkTree}, emptying) ELSE {}
  IN  \/ done = {} /\ Ends("failed") /\ UNCHANGED <<fs, disk>>
      \/ \E f \in done : fs' = f /\ disk' = Written(f, {Hot, ChunkTree}) /\ next

\* Mutant: the group is tried again in another chunk.
DropNewAgain ==
  At("undo") /\ Removes(call.new, None, step' = "next" /\ UNCHANGED <<call, leaving, outcome>>)

DropNew == At("undo") /\ Removes(call.new, None, Ends("failed"))

Relocated ==
  [call EXCEPT !.todo = Tail(@),
               !.made = Append(@, <<call.group, call.new, Head(call.todo)[2]>>)]

\* Mutant: the commit before has forgotten which group is being emptied.
DropOldForgot ==
  /\ At("drop")
  /\ Removes(call.group, None, step' = "next" /\ call' = Relocated /\ UNCHANGED <<leaving, outcome>>)

DropOld ==
  /\ At("drop")
  /\ Removes(call.group, IF Holds(fs, call.group, "METADATA") THEN call.group ELSE None,
            step' = "next" /\ call' = Relocated /\ UNCHANGED <<leaving, outcome>>)

Returns == At("next") /\ call.todo = <<>> /\ Ends("done") /\ UNCHANGED <<fs, disk>>

Step ==
  AllocateChunk \/ CopyTrees \/ WriteBatch \/ CommitBatch \/ DropNew \/ DropOld \/ Returns

\* A read or a write that the device refuses, before the transaction commits.
DeviceError ==
  /\ step # "idle" /\ call.todo # <<>> /\ UNCHANGED <<fs, disk, calls>>
  /\ IF step \in {"copy", "commit"} THEN BatchFails ELSE Ends("failed")

PowerCut == step # "idle" /\ Ends("cut") /\ UNCHANGED <<fs, disk, calls>>

-----------------------------------------------------------------------------
(* The calls made in one step                                                *)

Called ==
  /\ step = "idle" /\ calls < MaxCalls /\ calls' = calls + 1
  /\ UNCHANGED <<step, call, leaving>>

\* A file's range written anew: its old extent goes once nothing names it.
WriteFile(k) ==
  LET old == fs.item[k]
      new == PlacedIn({g \in Groups(fs) : fs.chunk[g].kind = {"DATA"}}, <<old.len>>)[1]
      ref == <<k[1], k[2], k[3]>>
      refs == fs.rec[old.at].refs (-) SetToBag({RefOf(k, old)})
      kept == IF refs = EmptyBag THEN Restrict(fs.rec, DOMAIN fs.rec \ {old.at})
              ELSE [fs.rec EXCEPT ![old.at].refs = refs]
      put == [fs EXCEPT !.item[k] = [at |-> new, off |-> 0, len |-> old.len],
                        !.rec = (new :> [len |-> old.len, data |-> calls + 1, digests |-> TRUE,
                                         refs |-> SetToBag({ref})]) @@ kept]
      done == IF new = None THEN {} ELSE Commits(put, {Hot}, None)
  IN  /\ Called
      /\ \/ done = {} /\ outcome' = "refused" /\ UNCHANGED <<fs, disk>>
         \/ \E f \in done :
              /\ fs' = f /\ outcome' = "wrote"
              /\ disk' = [p \in DOMAIN disk |->
                   IF \E s \in 0 .. old.len - 1 : p \in Copies(f, new + s)
                   THEN <<"data", calls + 1,
                          CHOOSE s \in 0 .. old.len - 1 : p \in Copies(f, new + s)>>
                   ELSE Written(f, {Hot})[p]]

\* The end of the last chunk on a device.
InUse(dev) == Max({0} \cup {e.at + ChunkLen : e \in {e \in fs.devExtents : e.dev = dev}})

Resize(size) ==
  /\ Called
  /\ LET dev == CHOOSE dev \in DOMAIN fs.devItem : TRUE
         sized == [fs EXCEPT !.devItem[dev].total = size, !.superItem[dev].total = size,
                             !.totalBytes = size]
         held == Cardinality({p \in DOMAIN disk : p[1] = dev})
         done == IF \/ Cardinality(DOMAIN fs.devItem) # 1
                    \/ size > held \/ size < InUse(dev)
                 THEN {} ELSE Commits(sized, {Hot, ChunkTree}, None)
     IN  \/ size = fs.totalBytes /\ outcome' = "done" /\ UNCHANGED <<fs, disk>>
         \/ size # fs.totalBytes /\ done = {} /\ outcome' = "refused" /\ UNCHANGED <<fs, disk>>
         \/ \E f \in done : /\ size # fs.totalBytes /\ fs' = f
                            /\ disk' = Written(f, {Hot, ChunkTree}) /\ outcome' = "done"

\* The device leaves the pool, and then says it belongs to none.
RemoveDevice(dev) ==
  /\ Called
  /\ LET but(r) == Restrict(r, DOMAIN fs.devItem \ {dev})
         done == IF \/ Cardinality(DOMAIN fs.devItem) = 1 \/ dev \notin fs.writable
                    \/ \E e \in fs.devExtents : e.dev = dev
                 THEN {}
                 ELSE Commits([fs EXCEPT !.devItem = but(@), !.superItem = but(@),
                                 !.writable = @ \ {dev},
                                 !.totalBytes = @ - fs.devItem[dev].total],
                              {Hot, ChunkTree}, None)
     IN  \/ done = {} /\ outcome' = "refused" /\ UNCHANGED <<fs, disk>>
         \/ \E f \in done :
              /\ fs' = f /\ outcome' = "done"
              /\ disk' = [p \in DOMAIN disk |->
                   IF p[1] = dev /\ p[2] \in SuperAt THEN Zero
                   ELSE Written(f, {Hot, ChunkTree})[p]]

\* Every copy of every free run, as the free-space tree lists them.
TrimRanges == UNION {UNION {Copies(fs, a) : a \in fs.free[g]} : g \in Groups(fs)}

Trim ==
  /\ Called /\ outcome' = "done" /\ UNCHANGED fs
  /\ disk' = [p \in DOMAIN disk |-> IF p \in TrimRanges THEN Zero ELSE disk[p]]

Next ==
  \/ \E bs \in Balances : Balance(bs)
  \/ \E g \in Groups(fs), dev \in fs.writable : RelocateOff(g, dev)
  \/ Step
  \/ DeviceError
  \/ PowerCut
  \/ \E k \in DOMAIN fs.item : WriteFile(k)
  \/ \E size \in Sizes : Resize(size)
  \/ \E dev \in DOMAIN fs.devItem : RemoveDevice(dev)
  \/ Trim

-----------------------------------------------------------------------------
(* Properties                                                                *)

\* The committed volume is well formed, the disk holds one thing in each unit,
\* and a call is somewhere in its steps.
TypeOK ==
  /\ \A g \in Groups(fs) :
       /\ g \in Nat /\ g % ChunkLen = 0
       /\ fs.chunk[g].kind \subseteq {"DATA", "METADATA", "SYSTEM"}
       /\ fs.chunk[g].profile \in Profiles
       /\ Len(fs.chunk[g].stripes) = CopiesOf(fs.chunk[g].profile)
       /\ fs.free[g] \subseteq Units(g) /\ fs.used[g] \in 0 .. ChunkLen
  /\ DOMAIN fs.used = Groups(fs) /\ DOMAIN fs.free = Groups(fs)
  /\ fs.bytesUsed \in Nat /\ fs.writable \subseteq DOMAIN fs.devItem
  /\ step \in {"idle"} \cup Steps
  /\ step = "idle" => call = NoCall /\ leaving = None
  /\ calls \in 0 .. MaxCalls
  /\ outcome \in {"mounted", "refused", "failed", "cut", "done", "wrote"}

\* The chunk tree, the device tree and the device items tell of the same
\* stripes, at every commit: each on a device, inside it, past its first
\* unit, clear of every other, and counted where the superblock counts it.
ChunksAgree ==
  /\ fs.devExtents = UNION {{[dev |-> fs.chunk[g].stripes[i][1], at |-> fs.chunk[g].stripes[i][2],
                              chunk |-> g] : i \in DOMAIN fs.chunk[g].stripes} : g \in Groups(fs)}
  /\ Sum(Groups(fs), LAMBDA g : Len(fs.chunk[g].stripes)) = Cardinality(fs.devExtents)
  /\ \A dev \in DOMAIN fs.devItem :
       LET here == {e \in fs.devExtents : e.dev = dev}
       IN  /\ Cardinality(Taken(dev)) = ChunkLen * Cardinality(here)
           /\ Taken(dev) \subseteq 1 .. fs.devItem[dev].total - 1
           /\ fs.devItem[dev].used = Cardinality(Taken(dev))
           /\ dev \in fs.writable => fs.superItem[dev] = fs.devItem[dev]
  /\ {e.dev : e \in fs.devExtents} \subseteq DOMAIN fs.devItem
  /\ fs.totalBytes = Sum(DOMAIN fs.devItem, LAMBDA dev : fs.devItem[dev].total)

\* Every extent and tree block is in one group, clear of the others, and the
\* group's counter, its free-space records and the superblock's total say so.
SpaceExact ==
  LET held(g) == Sum(Extents(fs, g), LAMBDA at : fs.rec[at].len) + Cardinality(Blocks(fs, g))
  IN  /\ {GroupOf(a) : a \in DOMAIN fs.rec} \cup {GroupOf(fs.tree[b]) : b \in Block}
           \subseteq Groups(fs)
      /\ \A g \in Groups(fs) :
           /\ Allocated(fs, g) \subseteq Units(g)
           /\ Cardinality(Allocated(fs, g)) = held(g)
           /\ fs.used[g] = held(g)
           /\ fs.free[g] = Gaps(fs, g)
      /\ fs.bytesUsed = Sum(Groups(fs), LAMBDA g : fs.used[g])

\* Each extent record counts the file items that name it, by reference, and
\* no item names an extent without one.
RefsAddUp ==
  /\ \A k \in DOMAIN fs.item : fs.item[k].at \in DOMAIN fs.rec
  /\ \A at \in DOMAIN fs.rec :
       LET naming == {k \in DOMAIN fs.item : fs.item[k].at = at}
       IN  fs.rec[at].refs = [ref \in {RefOf(k, fs.item[k]) : k \in naming} |->
                                Cardinality({k \in naming : RefOf(k, fs.item[k]) = ref})]

\* check (check.rs) reports nothing of the volume committed, and would of a
\* device extent or a block group gone, of an extent record gone, and of a
\* unit that is free and not listed.
Verifier == INSTANCE Check
CheckAgrees ==
  LET stripes == [g \in Groups(fs) |-> fs.chunk[g].stripes]
      devUsed == [dev \in DOMAIN fs.devItem |-> fs.devItem[dev].used]
      len == [at \in DOMAIN fs.rec |-> fs.rec[at].len]
      named == {[at |-> fs.item[k].at, len |-> len[fs.item[k].at]] : k \in DOMAIN fs.item}
      blocks == {fs.tree[b] : b \in Block}
      gaps == [g \in Groups(fs) |-> Gaps(fs, g)]
      groups(used) ==
        Verifier!BlockGroups(used, Groups(fs), ChunkLen, blocks, len, fs.bytesUsed)
      devices(exts) == Verifier!ChunksAgainstDevices(stripes, exts, devUsed, ChunkLen)
      data(l) == Verifier!DataAgainstFiles(named, l)
  IN  /\ groups(fs.used) = {} /\ devices(fs.devExtents) = {} /\ data(len) = {}
      /\ Verifier!FreeSpace(fs.free, gaps) = {}
      /\ \A g \in Groups(fs) : groups(Restrict(fs.used, Groups(fs) \ {g})) # {}
      /\ \A e \in fs.devExtents : devices(fs.devExtents \ {e}) # {}
      /\ \A at \in DOMAIN len : data(Restrict(len, DOMAIN len \ {at})) # {}
      /\ \A g \in Groups(fs) : \A u \in fs.free[g] :
           Verifier!FreeSpace([fs.free EXCEPT ![g] = @ \ {u}], gaps) # {}

\* At every commit the trees that map, count and reference space agree, and
\* check finds that they do.
VolumeExact == TypeOK /\ ChunksAgree /\ SpaceExact /\ RefsAddUp /\ CheckAgrees

\* Files and trees read what they held, whatever a call moves, wherever it
\* fails or the power goes, and whatever is trimmed; only a write of a file
\* changes one.
Readable == \A b \in Block : \E p \in Copies(fs, fs.tree[b]) : disk[p] = <<"tree", b>>
ContentsKept ==
  [][/\ outcome' = "wrote" \/ Contents(fs)' = Contents(fs)
     /\ Readable']_<<fs, disk>>

\* What a commit writes is on every copy: extents a call moved as well.
EveryCopy ==
  [][\A at \in DOMAIN fs'.rec \ DOMAIN fs.rec, s \in 0 .. ChunkLen - 1 :
       s < fs'.rec[at].len =>
         \A p \in Copies(fs', at + s) : disk'[p] = <<"data", fs'.rec[at].data, s>>]_fs

\* What is relocated is neither changed nor left with a copy behind: a reader
\* finds the same bytes, on whichever device it looks.
CopiesKept == ContentsKept /\ EveryCopy

\* A call that returns success did what was asked: each group it chose is
\* gone, its chunk replaced by one of the profile asked for, with no stripe on
\* the device chunks are leaving.
AsAsked ==
  [][step = "next" /\ step' = "idle" /\ outcome' = "done" =>
       \A i \in DOMAIN call.made :
         LET new == call.made[i][2]
         IN  /\ call.made[i][1] \notin Groups(fs)
             /\ new \in Groups(fs)
             /\ fs.chunk[new].profile = call.made[i][3]
             /\ leaving # None => ~OnLeaving(fs, new, leaving)]_<<step, call>>

\* A call ends: what it allocates is never relocated in its turn.
CallEnds == (step # "idle") ~> (step = "idle")

\* Each superblock copy of a device is there to be read.  A trim does not keep
\* this (README, Known departures).
SuperblocksKept ==
  \A dev \in fs.writable : \A u \in SuperAt :
    <<dev, u>> \in DOMAIN disk => disk[<<dev, u>>] = Super

\* A call made runs to its end, unless the power goes: each of its steps, and
\* nothing but them, an error and a power cut, moves `step` on.
Proceeds == step # "idle" /\ \E s \in {"idle"} \cup Steps : step' = s

Spec == Init /\ [][Next]_vars /\ WF_step(Proceeds)

=============================================================================
