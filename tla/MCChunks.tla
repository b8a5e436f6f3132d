------------------------------- MODULE MCChunks -------------------------------
(***************************************************************************)
(* Small volumes for Chunks: one device with a file in two extents, one of *)
(* them shared and part of it named twice; the same with duplicated data,  *)
(* one copy of which is bad, and metadata whose second copy lies over the  *)
(* second superblock; a pool with an empty device; a pool with a seed.     *)
(***************************************************************************)
EXTENDS Chunks

Super2 == 8

Chunk(kind, profile, stripes) == [kind |-> kind, profile |-> profile, stripes |-> stripes]

\* The volume with these chunks, on devices of these sizes, with these
\* records, items and tree blocks, formatted.
Formatted(chunks, totals, writable, recs, items, trees) ==
  LET bare == [chunk |-> chunks, rec |-> recs, item |-> items, tree |-> trees,
               writable |-> writable, shared |-> {}, freeTree |-> TRUE,
               devExtents |-> UNION {{[dev |-> chunks[g].stripes[i][1],
                                       at |-> chunks[g].stripes[i][2], chunk |-> g] :
                                      i \in DOMAIN chunks[g].stripes} : g \in DOMAIN chunks}]
      devItem == [dev \in DOMAIN totals |->
                    [total |-> totals[dev],
                     used |-> ChunkLen * Cardinality({e \in bare.devExtents : e.dev = dev})]]
      used == [g \in DOMAIN chunks |-> Cardinality(Allocated(bare, g))]
  IN  [k \in DOMAIN bare |-> bare[k]]
      @@ ("devItem" :> devItem) @@ ("superItem" :> devItem) @@ ("used" :> used)
      @@ ("free" :> [g \in DOMAIN chunks |-> Gaps(bare, g)])
      @@ ("bytesUsed" :> Sum(DOMAIN chunks, LAMBDA g : used[g]))
      @@ ("totalBytes" :> Sum(DOMAIN totals, LAMBDA dev : totals[dev]))

\* What its devices hold, with the copies in bad unreadable.
Platter(f, held, bad) ==
  [p \in UNION {{dev} \X (0 .. held[dev] - 1) : dev \in DOMAIN held} |->
     LET extents == {at \in DOMAIN f.rec : \E s \in 0 .. f.rec[at].len - 1 : p \in Copies(f, at + s)}
         blocks == {b \in Block : p \in Copies(f, f.tree[b])}
     IN  IF p[2] \in SuperAt THEN Super
         ELSE IF p \in bad THEN Zero
         ELSE IF extents # {}
         THEN LET at == CHOOSE at \in extents : TRUE
              IN  <<"data", f.rec[at].data,
                    CHOOSE s \in 0 .. f.rec[at].len - 1 : p \in Copies(f, at + s)>>
         ELSE IF blocks # {} THEN <<"tree", CHOOSE b \in blocks : TRUE>> ELSE Zero]

Volume(f, held, bad) == [fs |-> f, disk |-> Platter(f, held, bad)]

Item(at, off, len) == [at |-> at, off |-> off, len |-> len]
Record(len, data, refs) == [len |-> len, data |-> data, digests |-> TRUE, refs |-> refs]

\* A file 257 of tree 5 names the first extent twice, by parts that are one
\* reference, and a clone 258 in tree 256 shares it; the second is 257's.
Recs(g) ==
  (g :> Record(2, 101, (<<5, 257, 0>> :> 2) @@ (<<256, 258, 0>> :> 1)))
  @@ (g + 2 :> Record(1, 102, <<5, 257, 2>> :> 1))
Items(g) ==
  (<<5, 257, 0>> :> Item(g, 0, 1)) @@ (<<5, 257, 1>> :> Item(g, 1, 1))
  @@ (<<256, 258, 0>> :> Item(g, 0, 2)) @@ (<<5, 257, 2>> :> Item(g + 2, 0, 1))

Trees(meta, sys) == (Hot :> meta) @@ (Cold :> meta + 2) @@ (ChunkTree :> sys)

DATA == {"DATA"}
META == {"METADATA"}
SYS == {"SYSTEM"}

\* One device of 32 units held, 29 of them the volume's.
OneDevice ==
  Formatted((4 :> Chunk(SYS, "single", <<<<1, 1>>>>))
            @@ (8 :> Chunk(DATA, "single", <<<<1, 12>>>>))
            @@ (12 :> Chunk(META, "dup", <<<<1, 16>>, <<1, 20>>>>)),
            1 :> 32, {1}, Recs(8), Items(8), Trees(12, 4))

\* The metadata's second copy lies over the second superblock.
Duplicated ==
  Formatted((4 :> Chunk(SYS, "single", <<<<1, 1>>>>))
            @@ (8 :> Chunk(DATA, "dup", <<<<1, 12>>, <<1, 16>>>>))
            @@ (12 :> Chunk(META, "single", <<<<1, 7>>>>)),
            1 :> 28, {1}, Recs(8), Items(8), (Hot :> 12) @@ (Cold :> 14) @@ (ChunkTree :> 4))

\* Device 1 can be emptied: the system chunk is on device 2.
Pool ==
  Formatted((4 :> Chunk(SYS, "single", <<<<2, 1>>>>))
            @@ (8 :> Chunk(DATA, "single", <<<<1, 1>>>>))
            @@ (12 :> Chunk(META, "single", <<<<1, 12>>>>)),
            (1 :> 16) @@ (2 :> 17), {1, 2}, Recs(8), Items(8), Trees(12, 4))

\* Device 1 is a seed, with a data group of its own.
Seeded ==
  Formatted((4 :> Chunk(SYS, "single", <<<<2, 1>>>>))
            @@ (8 :> Chunk(DATA, "single", <<<<1, 1>>>>))
            @@ (12 :> Chunk(META, "single", <<<<2, 9>>>>))
            @@ (16 :> Chunk(DATA, "single", <<<<2, 13>>>>)),
            (1 :> 17) @@ (2 :> 25), {2},
            Recs(8) @@ (17 :> Record(1, 103, <<5, 259, 0>> :> 1)),
            Items(8) @@ (<<5, 259, 0>> :> Item(17, 0, 1)), Trees(12, 4))

Held(f) == [dev \in DOMAIN f.devItem |-> f.devItem[dev].total]

VolumesDef ==
  {Volume(OneDevice, 1 :> 36, {}),
   Volume(Duplicated, Held(Duplicated), {<<1, 12>>}),
   Volume(Pool, Held(Pool), {}),
   Volume(Seeded, Held(Seeded), {})}

AnyUsage == 101
Asked(kinds, usage, convert) ==
  [kinds |-> kinds, usage |-> usage, profiles |-> Profiles, convert |-> convert]

BalancesDef ==
  {<<Asked({"DATA"}, AnyUsage, "keep")>>,
   <<Asked({"DATA"}, AnyUsage, "dup"), Asked({"METADATA"}, AnyUsage, "single")>>,
   <<Asked({"METADATA"}, AnyUsage, "dup"), Asked({"DATA", "METADATA"}, 60, "keep")>>,
   <<Asked({"DATA"}, AnyUsage, "single")>>}

SizesDef == {22, 24, 28, 36, 40}

=============================================================================
