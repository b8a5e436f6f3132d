------------------------------ MODULE LogReplay ------------------------------
(***************************************************************************)
(* What an fsync left in a log tree, and the read-write mount that folds   *)
(* it into the committed trees in one transaction, or refuses it whole.    *)
(*                                                                         *)
(* The kernel writes the log: it is the environment here.  It changes      *)
(* names, data and attributes in memory, and an fsync logs any of the      *)
(* inodes changed, in any of the forms a log has.  Power is then lost.     *)
(* The mount reads the log (Replayable, Applied), writes the blocks of its *)
(* transaction one at a time and publishes it; power may be lost between   *)
(* any two of them, and the next mount begins again.                       *)
(*                                                                         *)
(* A tree is a function from keys <<objectid, type, offset>> to items.     *)
(* Lengths are in half sectors.  Left out: the identity an inode must keep *)
(* (flags, device, block group), encodings other than plain, times.        *)
(***************************************************************************)
EXTENDS Integers, Sequences, FiniteSets, FiniteSetsExt, SequencesExt, TLC

CONSTANTS
  Starts,       \* the committed volumes a run begins with, as descriptions
  Ino,          \* the inode numbers there is room for
  Home,         \* the subvolume each of them is in
  Name,         \* names of directory entries
  Hash,         \* name_hash
  Extent,       \* the data extents there is room for
  ExtentLen,          \* the length of each
  Born,         \* the generation of each that is committed
  LastSnapshot, \* each subvolume's last_snapshot
  LogBlocks,    \* the addresses of the log trees' blocks
  FreeBlocks,   \* other addresses no extent record covers
  NewBlocks,    \* how many blocks a replay's transaction writes
  Leavers,      \* may a log hold a directory a file left, and the file only as existing
  MaxChanges,   \* bound: changes before the fsync
  MaxCuts       \* bound: power losses during replay

ASSUME LogReplayAssumption ==
  /\ Ino \subseteq Nat /\ IsFiniteSet(Ino)
  /\ \A e \in Extent : ExtentLen[e] \in Nat \ {0}
  /\ LogBlocks \cap FreeBlocks = {}
  /\ NewBlocks <= Cardinality(FreeBlocks)
  /\ MaxChanges \in Nat /\ MaxCuts \in Nat

VARIABLES
  items,      \* the committed subvolumes' items
  rec,        \* the extent tree's record of each extent: its references
  sums,       \* the extents the checksum tree has digests for
  now,        \* the volume in memory when the fsync returned, as a description
  log,        \* the log's items, or none
  logSums,    \* and the digests it holds
  synced,     \* what the fsync logged: inodes in full, directories, and from which index
  intact,     \* the extents whose data is on the device as it was logged
  plan,       \* the transaction the mount in progress has validated
  over,       \* the log blocks written over
  put,        \* how many blocks of the replay's transaction are written
  mount,      \* "running", "down", "replaying", "up" or "refused"
  changes, cuts

vars == <<items, rec, sums, now, log, logSums, synced, intact, over, plan, put, mount, changes, cuts>>

Sector == 2
OpenEnd == 100                  \* where an index range that is open ends
None == [k \in {} |-> 0]
NoPlan == [items |-> None, rec |-> None, sums |-> {}]

InodeKey(i) == <<i, "INODE", 0>>
Keys(tree, i, types) == {k \in DOMAIN tree : k[1] = i /\ k[2] \in types}
Records(tree, i, types) == UNION {tree[k] : k \in Keys(tree, i, types)}
RefTypes == {"REF", "EXTREF"}

\* A file extent item, keyed by the file offset it begins at.
Item(type, extent, off, num) == [type |-> type, extent |-> extent, off |-> off, num |-> num]
Inline(num) == Item("inline", 0, 0, num)
Hole(num) == Item("hole", 0, 0, num)

\* The bytes it counts in its inode's nbytes, and those it covers.
Counted(d) == IF d.type = "hole" THEN 0 ELSE d.num
Span(d) == IF d.type = "inline" THEN Max({d.num, 1}) ELSE d.num

Offsets(tree, i) == {k[3] : k \in Keys(tree, i, {"DATA"})}
DataOf(tree, i) == [at \in Offsets(tree, i) |-> tree[<<i, "DATA", at>>]]
CountedIn(data) == MapThenSumSet(LAMBDA at : Counted(data[at]), DOMAIN data)

-----------------------------------------------------------------------------
(* A description of a volume, and the items and records it calls for         *)

\* v.inode: kind, gen, size; v.names: [ino, dir, index, name, far], far for one
\* filed in an INODE_EXTREF; v.data: each inode's extent items; v.attr.
NameRecord(n) == <<n.dir, n.index, n.name>>
EntryOf(v, n) == <<n.ino, n.name, v.inode[n.ino].kind>>

ItemsOf(v) ==
  LET live == DOMAIN v.inode
      named(i) == {n \in v.names : n.ino = i}
      size(i) == IF v.inode[i].kind = "dir" THEN 2 * Cardinality({n \in v.names : n.dir = i})
                 ELSE v.inode[i].size
      refKey(n) == IF n.far THEN <<n.ino, "EXTREF", <<n.dir, n.name>>>> ELSE <<n.ino, "REF", n.dir>>
      inodes == [k \in {InodeKey(i) : i \in live} |->
                   [kind |-> v.inode[k[1]].kind, gen |-> v.inode[k[1]].gen, size |-> size(k[1]),
                    nlink |-> IF named(k[1]) = {} THEN 1 ELSE Cardinality(named(k[1])),
                    nbytes |-> CountedIn(v.data[k[1]])]]
      refs == [k \in {refKey(n) : n \in v.names} |->
                   {NameRecord(n) : n \in {m \in v.names : refKey(m) = k}}]
      index == [k \in {<<n.dir, "INDEX", n.index>> : n \in v.names} |->
                   {EntryOf(v, n) : n \in {m \in v.names : m.dir = k[1] /\ m.index = k[3]}}]
      hashed == [k \in {<<n.dir, "ITEM", Hash[n.name]>> : n \in v.names} |->
                   {EntryOf(v, n) : n \in {m \in v.names : m.dir = k[1] /\ Hash[m.name] = k[3]}}]
      data == [k \in UNION {{<<i, "DATA", at>> : at \in DOMAIN v.data[i]} : i \in live} |->
                   v.data[k[1]][k[3]]]
      attrs == [k \in {<<a[1], "XATTR", a[2]>> : a \in v.attr} |->
                   {a[3] : a \in {b \in v.attr : b[1] = k[1] /\ b[2] = k[3]}}]
  IN  inodes @@ refs @@ index @@ hashed @@ data @@ attrs

\* The references the file items of `tree` are to each extent: an inode and
\* the file offset at which the extent's first byte would sit.
RefsTo(tree, e) ==
  LET naming == {k \in DOMAIN tree : k[2] = "DATA" /\ tree[k].extent = e}
      ref(k) == <<k[1], k[3] - tree[k].off>>
  IN  [r \in {ref(k) : k \in naming} |-> Cardinality({k \in naming : ref(k) = r})]
Named(tree) == {tree[k].extent : k \in {l \in DOMAIN tree : l[2] = "DATA"}} \ {0}
RecordsOf(tree) == [e \in Named(tree) |-> RefsTo(tree, e)]

Count(refs, r) == IF r \in DOMAIN refs THEN refs[r] ELSE 0

-----------------------------------------------------------------------------
(* What each logged inode is to the replay                                   *)

Has(i) == InodeKey(i) \in DOMAIN items
Logged == {k[1] : k \in {l \in DOMAIN log : l[2] = "INODE"}}
InLog(i) == log[InodeKey(i)]
Committed(i) == items[InodeKey(i)]

Created == {i \in Logged : ~Has(i) /\ InLog(i).kind # "dir"}
NewDirs == {i \in Logged : ~Has(i) /\ InLog(i).kind = "dir"}
Both(kind) == {i \in Logged : Has(i) /\ InLog(i).kind = kind /\ Committed(i).kind = kind}
Dirs == Both("dir")
ExistsOnly == {i \in Both("file") : InLog(i).gen = 0}
Files == Both("file") \ ExistsOnly

Classified ==
  /\ Logged = Created \cup NewDirs \cup Dirs \cup ExistsOnly \cup Files
  /\ {k[1] : k \in DOMAIN log} = Logged

Speaks(d) == d \in Dirs \cup NewDirs
InRange(d, index) == \E k \in Keys(log, d, {"RANGE"}) : k[3] <= index /\ index <= log[k]

\* The log's entry of directory `d` at `index` names inode `i` `name`.
EntryNames(d, index, i, name) ==
  /\ <<d, "INDEX", index>> \in DOMAIN log
  /\ \E kind \in {"file", "dir", "link", "node"} : log[<<d, "INDEX", index>>] = {<<i, name, kind>>}

-----------------------------------------------------------------------------
(* The data of a file the log creates or holds in full                       *)

\* A regular or hole item cut to `num` bytes from `skip` into it.
Cut(d, skip, num) == [d EXCEPT !.off = IF d.extent = 0 THEN 0 ELSE @ + skip, !.num = num]

\* `data` less what the logged item `d` at `at` covers, with it in place.
Replace(data, at, d) ==
  LET stop == at + Span(d)
      end(k) == k + Span(data[k])
      hit == {k \in DOMAIN data : k < stop /\ at < end(k)}
      cut == {k \in hit : data[k].type # "inline"}
      heads == {k \in cut : k < at}
      tails == {k \in cut : end(k) > stop}
  IN  [k \in {at} |-> d]
        @@ [k \in {stop : t \in tails} |->
              LET t == CHOOSE t \in tails : TRUE IN Cut(data[t], stop - t, end(t) - stop)]
        @@ [k \in heads |-> Cut(data[k], 0, at - k)]
        @@ [k \in DOMAIN data \ hit |-> data[k]]

\* An inline extent is replaced only from the file's first byte.
Replaceable(data, at, d) ==
  /\ d.type = "inline" => at = 0
  /\ \A k \in DOMAIN data :
       (data[k].type = "inline" /\ k < at + Span(d) /\ at < k + Span(data[k])) => at = 0

\* The items cut at the file's end, `size` rounded up to a sector.
RoundUp(size) == ((size + Sector - 1) \div Sector) * Sector
CutAt(data, end) ==
  [k \in {l \in DOMAIN data : l < end} |->
     IF data[k].type # "inline" /\ k + Span(data[k]) > end
     THEN Cut(data[k], 0, end - k) ELSE data[k]]

Reconcile(data, logged, size) ==
  CutAt(FoldLeft(LAMBDA acc, at : Replace(acc, at, logged[at]), data,
                 SetToSortSeq(DOMAIN logged, <)),
        RoundUp(size))
DataAfter(i) == Reconcile(DataOf(items, i), DataOf(log, i), InLog(i).size)

Reconcilable(i) ==
  LET data == DataOf(items, i)
      logged == DataOf(log, i)
  IN  /\ \A at \in DOMAIN logged : Replaceable(data, at, logged[at])
      /\ Cardinality(DOMAIN DataAfter(i)) > 1 =>
           \A at \in DOMAIN DataAfter(i) : DataAfter(i)[at].type # "inline"

\* What a created inode of each type may hold.
FreshData(i) ==
  LET logged == DataOf(log, i) IN
  /\ Keys(items, i, RefTypes \cup {"DATA", "XATTR"}) = {}
  /\ InLog(i).gen = 0 => logged = None
  /\ InLog(i).kind = "link" => /\ DOMAIN logged = {0}
                               /\ logged[0] = Inline(InLog(i).size)
                               /\ InLog(i).size # 0
  /\ InLog(i).kind = "node" => logged = None /\ InLog(i).size = 0

\* An existing file keeps every committed name in the references logged, and
\* gains only names a logged directory's entry gives it.
NamesHad(k) == IF k \in DOMAIN items THEN items[k] ELSE {}
Gained(i) == UNION {log[k] \ NamesHad(k) : k \in Keys(log, i, RefTypes)}
KeepsNames(i) ==
  /\ \A k \in Keys(log, i, RefTypes) : NamesHad(k) \subseteq log[k]
  /\ \A n \in Gained(i) : n[1] \in Dirs /\ EntryNames(n[1], n[2], i, n[3])
  /\ Gained(i) # {} => Cardinality(Records(items, i, RefTypes)) = Committed(i).nlink
  /\ InLog(i).nlink = Committed(i).nlink + Cardinality(Gained(i))

FilesReplayable ==
  /\ \A i \in Files \cup Created :
       /\ Reconcilable(i)
       /\ Keys(log, i, {"ITEM", "INDEX", "RANGE"}) = {}
  /\ \A i \in Created : FreshData(i)
  /\ \A i \in Files : /\ Committed(i).nbytes = CountedIn(DataOf(items, i))
                      /\ Committed(i).gen = InLog(i).gen /\ Committed(i).nlink # 0
                      /\ KeepsNames(i)

\* The nbytes logged is not read: it is counted from what is left.
InodeAfter(i, gen) == [InLog(i) EXCEPT !.nbytes = CountedIn(DataAfter(i)),
                                       !.gen = IF i \in Created /\ @ = 0 THEN gen ELSE @]

FilePuts(i, gen) ==
  {<<"file", InodeKey(i), InodeAfter(i, gen)>>}
    \cup {<<"file", <<i, "DATA", at>>, DataAfter(i)[at]>> : at \in DOMAIN DataAfter(i)}
    \cup {<<"file", k, log[k]>> : k \in Keys(log, i, {"XATTR"})}
    \cup {<<"file", k, log[k]>> : k \in IF i \in Files THEN Keys(log, i, RefTypes) ELSE {}}
FileDeletes(i) ==
  {<<"file", k>> : k \in Keys(items, i, {"XATTR"}) \ DOMAIN log}
    \cup {<<"file", <<i, "DATA", at>>>> : at \in Offsets(items, i) \ DOMAIN DataAfter(i)}

-----------------------------------------------------------------------------
(* The names of an inode the log creates or holds only to say it exists      *)

Unsaid == Created \cup ExistsOnly \cup NewDirs
RefsRead(i) == Keys(log, i, IF i \in Created THEN RefTypes ELSE {"REF"})
NamesRead(i) == UNION {log[k] : k \in RefsRead(i)}

\* A name at an index the log does not speak for stays the committed one.
Kept(i, n) == i \in ExistsOnly /\ n[1] \in Dirs /\ ~InRange(n[1], n[2])
\* One in a directory the log does not speak for is entered from the reference.
Entered(i) == {n \in NamesRead(i) : ~Speaks(n[1]) /\ i \in Created}

NameReplayable(i, k, n) ==
  /\ n[1] \notin NewDirs => Has(n[1]) /\ Committed(n[1]).kind = "dir"
  /\ IF Speaks(n[1]) /\ ~Kept(i, n)
     THEN /\ EntryNames(n[1], n[2], i, n[3])
          /\ i \in Created => log[<<n[1], "INDEX", n[2]>>] = {<<i, n[3], InLog(i).kind>>}
     ELSE /\ i \notin NewDirs
          /\ i \in ExistsOnly => k \in DOMAIN items /\ n \in items[k]
          /\ i \in Created => {<<n[1], "ITEM", Hash[n[3]]>>, <<n[1], "INDEX", n[2]>>}
                                \cap DOMAIN items = {}

\* Names an inode logged only to say it exists keeps outside the log.
Outside(i) ==
  UNION {items[k] : k \in {l \in Keys(items, i, {"REF"}) : <<i, "REF", l[3]>> \notin DOMAIN log}}
    \cup Records(items, i, {"EXTREF"})
\* Mutant: the extended references the log never holds are not counted.
NamesAfterLogged(i) == Cardinality(NamesRead(i))
NamesAfter(i) == Cardinality(NamesRead(i)) +
                   IF i \in ExistsOnly THEN Cardinality(Outside(i)) ELSE 0

NamesReplayable ==
  /\ \A i \in Unsaid : \A k \in RefsRead(i) : \A n \in log[k] : NameReplayable(i, k, n)
  /\ \A i \in Created \cup NewDirs : InLog(i).nlink = NamesAfter(i) /\ InLog(i).nlink # 0
  /\ \A i \in NewDirs : InLog(i).nlink = 1
  /\ \A i \in ExistsOnly :
       /\ Keys(log, i, {"EXTREF", "DATA", "XATTR", "ITEM", "INDEX", "RANGE"}) = {}
       /\ \A n \in Records(items, i, {"EXTREF"}) : ~(n[1] \in Dirs /\ InRange(n[1], n[2]))
       /\ NamesAfter(i) # 0

\* A renamed inode must have lost every name its logged references no longer hold.
RenamesReplayable ==
  \A i \in ExistsOnly : \A k \in Keys(items, i, {"REF"}) \cap DOMAIN log :
    \A n \in items[k] \ log[k] :
      k[3] \in Dirs /\ InRange(k[3], n[2]) /\ <<k[3], "INDEX", n[2]>> \notin DOMAIN log

NamePuts(i) ==
  {<<"name", k, log[k]>> : k \in RefsRead(i)}
    \cup UNION {{<<"name", <<n[1], "ITEM", Hash[n[3]]>>, {<<i, n[3], InLog(i).kind>>}>>,
                 <<"name", <<n[1], "INDEX", n[2]>>, {<<i, n[3], InLog(i).kind>>}>>} : n \in Entered(i)}
    \cup IF i \in ExistsOnly
         THEN {<<"name", InodeKey(i), [Committed(i) EXCEPT !.nlink = NamesAfter(i)]>>} ELSE {}

\* A directory the log does not speak for grows by the names entered in it.
Grown == {n[1] : n \in UNION {Entered(i) : i \in Created}}
GrowthOf(d) == MapThenSumSet(LAMBDA i : 2 * Cardinality({n \in Entered(i) : n[1] = d}), Created)
GrownPuts(d) == {<<"grown", InodeKey(d), [Committed(d) EXCEPT !.size = @ + GrowthOf(d)]>>}

-----------------------------------------------------------------------------
(* The directories the log speaks for                                        *)

\* Mutant: the log taken to speak for the whole directory.
GoneAnywhere(d) == {k \in Keys(items, d, {"INDEX"}) : k \notin DOMAIN log}
\* The committed entries of `d` in a logged range that the log lacks, and the
\* logged ones `d` lacks.
Gone(d) == {k \in Keys(items, d, {"INDEX"}) : InRange(d, k[3]) /\ k \notin DOMAIN log}
Added(d) == {k \in Keys(log, d, {"INDEX"}) : k \notin DOMAIN items}

Entry(tree, k) == CHOOSE e \in tree[k] : TRUE
HashKey(tree, k) == <<k[1], "ITEM", Hash[Entry(tree, k)[2]]>>
Child(k) == Entry(items, k)[1]
GoneName(k) == <<k[1], k[3], Entry(items, k)[2]>>

\* The name is the one record of the one reference item of an inode.
OnlyName(i, n) == /\ Cardinality(Keys(items, i, RefTypes)) = 1
                  /\ Records(items, i, RefTypes) = {n}
LosesOne(k) == /\ Child(k) \notin Logged
               /\ ~OnlyName(Child(k), GoneName(k))
               /\ Committed(Child(k)).kind = "file" /\ Committed(Child(k)).nlink > 1
Removes(k) == Child(k) \notin Logged /\ ~LosesOne(k)

GoneReplayable(k) ==
  LET i == Child(k) n == GoneName(k) IN
  /\ HashKey(items, k) \in DOMAIN items /\ items[HashKey(items, k)] = items[k]
  /\ i \in Logged => i \in ExistsOnly /\ n \notin Records(log, i, RefTypes)
  /\ LosesOne(k) => \E r \in Keys(items, i, {"REF"}) : n \in items[r]
  /\ Removes(k) => /\ OnlyName(i, n) /\ Committed(i).nlink = 1
                   /\ Committed(i).kind = "dir" =>
                        Committed(i).size = 0 /\ Keys(items, i, {"ITEM", "INDEX"}) = {}
AddedReplayable(k) ==
  LET e == Entry(log, k) IN
  /\ <<k[1], k[3], e[2]>> \in Records(log, e[1], RefTypes)
  /\ HashKey(log, k) \notin DOMAIN items

GoneOf(ds) == UNION {Gone(d) : d \in ds}
Removed == {Child(k) : k \in {l \in GoneOf(Dirs) : Removes(l)}}
Lost(i) == {GoneName(k) : k \in {l \in GoneOf(Dirs) : LosesOne(l) /\ Child(l) = i}}
Losers == {Child(k) : k \in {l \in GoneOf(Dirs) : LosesOne(l)}}

Delta(d) == 2 * (Cardinality(Added(d)) - Cardinality(Gone(d)))
DirReplayable(d) ==
  LET before == IF d \in Dirs THEN Committed(d).size ELSE 0 IN
  /\ Keys(log, d, {"EXTREF", "DATA", "XATTR", "ITEM"}) = {}
  /\ d \in NewDirs => Keys(items, d, {"REF", "ITEM", "INDEX", "XATTR", "DATA"}) = {}
  /\ d \in Dirs => /\ \A k \in Keys(log, d, {"REF"}) : k \in DOMAIN items /\ items[k] = log[k]
                   /\ \A k \in Keys(log, d, {"INDEX"}) : InRange(d, k[3])
                   /\ \A k \in Keys(log, d, {"INDEX"}) \cap DOMAIN items : log[k] = items[k]
                   /\ Committed(d).nlink = InLog(d).nlink /\ Committed(d).gen = InLog(d).gen
  /\ \A k \in Gone(d) : GoneReplayable(k)
  /\ \A k \in Added(d) : AddedReplayable(k)
  /\ before + Delta(d) = InLog(d).size
  /\ d \notin Grown
DirsReplayable ==
  /\ \A d \in Dirs \cup NewDirs : DirReplayable(d)
  /\ \A k, l \in GoneOf(Dirs) : (Removes(k) /\ Removes(l) /\ Child(k) = Child(l)) => k = l
  /\ Losers \cap Removed = {}
  /\ \A i \in Losers : Cardinality(Lost(i)) < Committed(i).nlink

DirPuts(d) ==
  {<<"dir", InodeKey(d), [InLog(d) EXCEPT !.nbytes = IF d \in Dirs THEN Committed(d).nbytes ELSE @]>>}
    \cup UNION {{<<"dir", k, log[k]>>, <<"dir", HashKey(log, k), log[k]>>} : k \in Added(d)}
DirDeletes(d) ==
  UNION {{<<"dir", k>>, <<"dir", HashKey(items, k)>>} : k \in Gone(d)}
ChildDeletes(i) == {<<"child", k>> : k \in Keys(items, i, {"INODE", "REF", "EXTREF", "XATTR", "DATA"})}

\* An inode keeping other names loses the record of each that went.
LostRefs(i) == {k \in Keys(items, i, {"REF"}) : \E n \in Lost(i) : n[1] = k[3]}
LostPuts(i) ==
  {<<"lost", InodeKey(i), [Committed(i) EXCEPT !.nlink = @ - Cardinality(Lost(i))]>>}
    \cup {<<"lost", k, items[k] \ Lost(i)>> : k \in {l \in LostRefs(i) : ~(items[l] \subseteq Lost(i))}}
LostDeletes(i) == {<<"lost", k>> : k \in {l \in LostRefs(i) : items[l] \subseteq Lost(i)}}

-----------------------------------------------------------------------------
(* The transaction: its edits, and the extent records they call for          *)

Generation == 9                 \* of the transaction that replays

\* Edits of each pass; no two may be of one key.
Puts == UNION ({FilePuts(i, Generation) : i \in Files \cup Created} \cup {NamePuts(i) : i \in Unsaid}
                 \cup {DirPuts(d) : d \in Dirs \cup NewDirs} \cup {LostPuts(i) : i \in Losers}
                 \cup {GrownPuts(d) : d \in Grown})
Deletes == UNION ({FileDeletes(i) : i \in Files \cup Created} \cup {DirDeletes(d) : d \in Dirs}
                    \cup {ChildDeletes(i) : i \in Removed} \cup {LostDeletes(i) : i \in Losers})
KeysOf(edits) == {e[2] : e \in edits}
OneEditPerKey(puts, deletes) ==
  /\ Cardinality(KeysOf(puts)) = Cardinality(puts)
  /\ Cardinality(KeysOf(deletes)) = Cardinality(deletes)
  /\ KeysOf(puts) \cap KeysOf(deletes) = {}
  /\ puts # {} \/ deletes # {}

Apply(puts, deletes) ==
  LET value == [k \in KeysOf(puts) |-> (CHOOSE e \in puts : e[2] = k)[3]]
  IN  [k \in DOMAIN items \ (DOMAIN value \cup KeysOf(deletes)) |-> items[k]] @@ value

\* The references a transaction that leaves the tree `after` adds to each
\* extent and drops, by inode and offset.
Change(after, e) ==
  LET was == RefsTo(items, e)
      is == RefsTo(after, e)
      change == [r \in DOMAIN was \cup DOMAIN is |-> Count(is, r) - Count(was, r)]
  IN  [r \in {q \in DOMAIN change : change[q] # 0} |-> change[r]]
Changes(after) ==
  LET change == [e \in Extent |-> Change(after, e)]
  IN  [e \in {x \in Extent : change[x] # None} |-> change[e]]
Recorded(e) == IF e \in DOMAIN rec THEN rec[e] ELSE None
RecordAfter(e, change) ==
  LET sum == [r \in DOMAIN Recorded(e) \cup DOMAIN change |->
                Count(Recorded(e), r) + Count(change, r)]
  IN  [r \in {q \in DOMAIN sum : sum[q] # 0} |-> sum[r]]

\* An extent from before the latest snapshot of a subvolume that names it may be
\* shared through that snapshot's blocks.
Unshared(e, change) == \A r \in DOMAIN change : Born[e] > LastSnapshot[Home[r[1]]]
RecordsReplayable(change) ==
  \A e \in DOMAIN change :
    /\ e \in DOMAIN rec => Unshared(e, change[e])
    /\ LET after == RecordAfter(e, change[e]) IN \A r \in DOMAIN after : after[r] > 0

\* The log's digests must be exactly those of the new extents' bytes.
SumsReplayable(new) == logSums = new /\ new \subseteq intact

\* The transaction the log calls for.
Plan ==
  LET puts == Puts
      deletes == Deletes
      after == Apply(puts, deletes)
      change == Changes(after)
      new == DOMAIN change \ DOMAIN rec
      rec1 == [e \in DOMAIN rec \cup new |->
                 IF e \in DOMAIN change THEN RecordAfter(e, change[e]) ELSE rec[e]]
      released == {e \in DOMAIN rec1 : rec1[e] = None}
  IN  [ok |-> OneEditPerKey(puts, deletes) /\ RecordsReplayable(change) /\ SumsReplayable(new),
       items |-> after,
       rec |-> [e \in DOMAIN rec1 \ released |-> rec1[e]],
       sums |-> (sums \ released) \cup new]

Replayable ==
  /\ over = {}
  /\ Classified
  /\ FilesReplayable /\ NamesReplayable /\ DirsReplayable /\ RenamesReplayable

-----------------------------------------------------------------------------
(* The volume before the mount: what the kernel does, and what an fsync logs *)

\* An inode number is never reused; neither is an index of a directory.
NextIno(t) == Max({i \in Ino : Home[i] = t /\ (i \in DOMAIN now.inode \/ Has(i))}) + 1
NextIndex(d) ==
  1 + Max({1} \cup {n.index : n \in {m \in now.names : m.dir = d}}
              \cup {k[3] : k \in Keys(items, d, {"INDEX"})})
NewName(i, d, name, far) == [ino |-> i, dir |-> d, index |-> NextIndex(d), name |-> name, far |-> far]
LiveDirs == {i \in DOMAIN now.inode : now.inode[i].kind = "dir"}
LiveFiles == {i \in DOMAIN now.inode : now.inode[i].kind = "file"}
Unused(d, name) == ~\E n \in now.names : n.dir = d /\ n.name = name
Empty(i) == ~\E n \in now.names : n.dir = i

Running == mount = "running" /\ changes < MaxChanges
Changed(v) == /\ now' = v /\ changes' = changes + 1
              /\ UNCHANGED <<items, rec, sums, log, logSums, synced, intact, over, plan, put, mount, cuts>>

Make(kind, d, name) ==
  /\ Running /\ Unused(d, name)
  /\ LET i == NextIno(Home[d])
         size == IF kind = "link" THEN 1 ELSE 0
     IN  /\ i \in Ino
         /\ Changed([now EXCEPT
              !.inode = i :> [kind |-> kind, gen |-> Generation, size |-> size] @@ @,
              !.data = i :> (IF kind = "link" THEN 0 :> Inline(1) ELSE None) @@ @,
              !.names = @ \cup {NewName(i, d, name, FALSE)}])

Link(i, d, name, far) ==
  /\ Running /\ Unused(d, name) /\ Home[i] = Home[d]
  /\ Changed([now EXCEPT !.names = @ \cup {NewName(i, d, name, far)}])

Drop(v, i) == [v EXCEPT !.inode = [j \in DOMAIN @ \ {i} |-> @[j]],
                        !.data = [j \in DOMAIN @ \ {i} |-> @[j]],
                        !.attr = {a \in @ : a[1] # i}]
Unlink(n) ==
  /\ Running /\ Empty(n.ino)
  /\ LET v == [now EXCEPT !.names = @ \ {n}]
     IN  Changed(IF \E m \in v.names : m.ino = n.ino THEN v ELSE Drop(v, n.ino))

Rename(n, d, name) ==
  /\ Running /\ Unused(d, name) /\ Home[n.ino] = Home[d]
  /\ now.inode[n.ino].kind # "dir"
  /\ Changed([now EXCEPT !.names = (@ \ {n}) \cup {NewName(n.ino, d, name, FALSE)}])

\* Extents no record and no item names, the next a write is given.
Unwritten == Extent \ (DOMAIN rec \cup Named(ItemsOf(now)))
\* The file's items once `d` covers its bytes from `at`.
Overlay(data, at, d) ==
  LET stop == at + d.num
      covering(b) == {k \in DOMAIN data : k <= b /\ b < k + data[k].num}
      starts == {at} \cup {k \in DOMAIN data : k < at \/ k >= stop}
                  \cup {b \in {stop} : covering(b) # {}}
      part(b) ==
        LET k == Max(covering(b))
            upTo == IF b < at THEN Min({at, k + data[k].num}) ELSE k + data[k].num
        IN  [data[k] EXCEPT !.off = IF data[k].extent = 0 THEN 0 ELSE @ + (b - k), !.num = upTo - b]
  IN  [b \in starts |-> IF b = at THEN d ELSE part(b)]

Write(i, at) ==
  /\ Running /\ Unwritten # {} /\ at <= RoundUp(now.inode[i].size)
  /\ \A k \in DOMAIN now.data[i] : now.data[i][k].type # "inline"
  /\ LET e == Min(Unwritten) IN
     Changed([now EXCEPT !.data[i] = Overlay(@, at, Item("regular", e, 0, ExtentLen[e])),
                         !.inode[i].size = Max({@, at + ExtentLen[e]})])

Punch(i, at) ==
  /\ Running /\ at + Sector <= now.inode[i].size
  /\ \A k \in DOMAIN now.data[i] : now.data[i][k].type # "inline"
  /\ Changed([now EXCEPT !.data[i] = Overlay(@, at, Hole(Sector))])

WriteInline(i) ==
  /\ Running /\ now.inode[i].size < Sector
  /\ Changed([now EXCEPT !.data[i] = 0 :> Inline(1), !.inode[i].size = 1])

Truncate(i, size) ==
  /\ Running /\ size < now.inode[i].size
  /\ Changed([now EXCEPT !.data[i] = CutAt(@, RoundUp(size)), !.inode[i].size = size])

SetAttr(i, h) ==
  /\ Running
  /\ LET set == {a \in now.attr : a[1] = i /\ a[2] = h}
     IN  Changed([now EXCEPT !.attr = IF set = {} THEN @ \cup {<<i, h, "now">>} ELSE @ \ set])

-----------------------------------------------------------------------------
(* The fsync                                                                 *)

\* What of the file is not mapped as the committed items map it.
SameMapping(c, k, d, at) ==
  /\ d.extent # 0 /\ c.extent = d.extent /\ c.off - k = d.off - at
  /\ k <= at /\ at + d.num <= k + c.num
Modified(i) ==
  {at \in DOMAIN now.data[i] :
     ~\E k \in Offsets(items, i) :
        SameMapping(items[<<i, "DATA", k>>], k, now.data[i][at], at)}

ChangedInodes ==
  LET tree == ItemsOf(now)
      of(t, i) == {<<k, t[k]>> : k \in {l \in DOMAIN t : l[1] = i}}
  IN  {i \in DOMAIN now.inode : of(tree, i) # of(items, i)}

\* The log of a set of inodes: files in `full` with their data, attributes and
\* references, files in `exist` only to say they exist, directories in `dirs`
\* with the entries from an index on.
LogOf(full, exist, dirs, from) ==
  LET tree == ItemsOf(now)
      take(ks) == [k \in ks |-> tree[k]]
      files == [k \in {InodeKey(i) : i \in full} |-> [tree[k] EXCEPT !.nbytes = 0]]
      exists == [k \in {InodeKey(i) : i \in exist} |->
                   [tree[k] EXCEPT !.nbytes = 0, !.gen = 0,
                                   !.size = IF tree[k].kind = "file" THEN 0 ELSE @]]
      data == {<<i, "DATA", at>> : <<i, at>> \in
                 UNION {{<<j, at>> : at \in Modified(j)} : j \in full}}
  IN  files @@ exists @@ take(data)
        @@ take(UNION {Keys(tree, i, RefTypes \cup {"XATTR"}) : i \in full})
        @@ take(UNION {Keys(tree, i, IF Has(i) THEN {"REF"} ELSE RefTypes) : i \in exist})
        @@ take(UNION {Keys(tree, d, {"INODE", "REF"}) : d \in dirs})
        @@ take(UNION {{k \in Keys(tree, d, {"INDEX"}) : k[3] >= from} : d \in dirs})
        @@ [k \in {<<d, "RANGE", from>> : d \in dirs} |-> OpenEnd]

\* A file that has left a directory altogether.
Left(i, d) == <<i, "REF", d>> \in DOMAIN items /\ ~\E n \in now.names : n.ino = i /\ n.dir = d

Fsync ==
  /\ mount = "running"
  /\ \E S \in SUBSET ChangedInodes \ {{}} : \E full \in SUBSET (S \ LiveDirs) : \E from \in {2, 4} :
       LET l == LogOf(full, S \ (full \cup LiveDirs), S \cap LiveDirs, from)
           new == Named(l) \ DOMAIN rec
       IN  /\ ~Leavers => \A i \in S \ (full \cup LiveDirs), d \in S \cap LiveDirs : ~Left(i, d)
           /\ log' = l /\ logSums' = new
           /\ synced' = [full |-> full, dirs |-> S \cap LiveDirs, from |-> from]
           /\ \E torn \in {{}} \cup {{e} : e \in new} : intact' = Extent \ torn
  /\ mount' = "down"
  /\ UNCHANGED <<items, rec, sums, now, over, plan, put, changes, cuts>>

-----------------------------------------------------------------------------
(* The mount                                                                 *)

Init ==
  /\ \E v \in Starts : /\ now = v /\ items = ItemsOf(v) /\ rec = RecordsOf(ItemsOf(v))
                       /\ sums = Named(ItemsOf(v))
  /\ plan = NoPlan
  /\ log = None /\ logSums = {} /\ intact = Extent /\ over = {} /\ put = 0
  /\ synced = [full |-> {}, dirs |-> {}, from |-> 0]
  /\ mount = "running" /\ changes = 0 /\ cuts = 0

\* Everything is validated before the first write.
ReadLog ==
  /\ mount = "down"
  /\ LET ok == Replayable
         p == Plan
     IN  IF ok /\ p.ok
         THEN mount' = "replaying" /\ plan' = [items |-> p.items, rec |-> p.rec, sums |-> p.sums]
         ELSE mount' = "refused" /\ UNCHANGED plan
  /\ put' = 0
  /\ UNCHANGED <<items, rec, sums, now, log, logSums, synced, intact, over, changes, cuts>>

\* Mutant: the log's blocks are free to the transaction.
PinnedNone == {}
\* Log blocks have no extent record: only the pins keep the transaction's own
\* blocks off them until the commit that clears the log.
Pinned == LogBlocks
FreePlaces == (FreeBlocks \cup LogBlocks) \ Pinned
PutBlock ==
  /\ mount = "replaying" /\ put < NewBlocks
  /\ put' = put + 1
  /\ \E a \in FreePlaces : over' = over \cup ({a} \cap LogBlocks)
  /\ UNCHANGED <<items, rec, sums, now, log, logSums, synced, intact, plan, mount, changes, cuts>>

\* The commit installs the replay and clears the log at once.
Publish ==
  /\ mount = "replaying" /\ put = NewBlocks
  /\ items' = plan.items /\ rec' = plan.rec /\ sums' = plan.sums
  /\ log' = None /\ mount' = "up"
  /\ plan' = NoPlan
  /\ UNCHANGED <<now, logSums, synced, intact, over, put, changes, cuts>>

\* Power is lost, and the volume mounted again.
PowerCut ==
  /\ mount = "replaying" /\ cuts < MaxCuts
  /\ mount' = "down" /\ put' = 0 /\ plan' = NoPlan /\ cuts' = cuts + 1
  /\ UNCHANGED <<items, rec, sums, now, log, logSums, synced, intact, over, changes>>

Run ==
  \/ \E d \in LiveDirs, name \in Name :
       \/ \E kind \in {"file", "dir", "link", "node"} : Make(kind, d, name)
       \/ \E i \in LiveFiles, far \in BOOLEAN : Link(i, d, name, far)
       \/ \E n \in now.names : Rename(n, d, name)
  \/ \E n \in now.names : Unlink(n)
  \/ \E i \in LiveFiles : \/ WriteInline(i) \/ SetAttr(i, 1)
                          \/ \E at \in {0, 2, 4} : Write(i, at) \/ Punch(i, at)
                          \/ \E size \in {0, 1, 3} : Truncate(i, size)

Next == Run \/ Fsync \/ ReadLog \/ PutBlock \/ Publish \/ PowerCut

\* A mount called goes on to its end unless power is lost: its steps are those
\* of ReadLog, PutBlock and Publish, the only ones to move `mount` or `put` and
\* leave `cuts`.
Proceeds ==
  /\ mount \in {"down", "replaying"}
  /\ \E m \in {"replaying", "refused", "up"}, n \in 0 .. NewBlocks :
       mount' = m /\ put' = n /\ cuts' = cuts

Spec == Init /\ [][Next]_vars /\ WF_<<mount, put>>(Proceeds)

-----------------------------------------------------------------------------
(* Properties                                                                *)

\* What a tree describes, read from its inodes and references alone.
Describe(tree) ==
  LET live == {k[1] : k \in {l \in DOMAIN tree : l[2] = "INODE"}}
  IN  [inode |-> [i \in live |-> [kind |-> tree[InodeKey(i)].kind, gen |-> tree[InodeKey(i)].gen,
                                  size |-> tree[InodeKey(i)].size]],
       names |-> UNION {{[ino |-> k[1], dir |-> n[1], index |-> n[2], name |-> n[3],
                          far |-> k[2] = "EXTREF"] : n \in tree[k]} :
                        k \in {l \in DOMAIN tree : l[2] \in RefTypes /\ l[1] \in live}},
       data |-> [i \in live |-> DataOf(tree, i)],
       attr |-> UNION {{<<k[1], k[3], a>> : a \in tree[k]} :
                       k \in {l \in DOMAIN tree : l[2] = "XATTR" /\ l[1] \in live}}]

\* The states of the mount and the values of the log and the records belong to
\* what they are declared to hold.
TypeOK ==
  /\ \A k \in DOMAIN items : k[1] \in Ino
  /\ DOMAIN rec \subseteq Extent /\ sums \subseteq Extent /\ logSums \subseteq Extent
  /\ intact \subseteq Extent /\ over \subseteq LogBlocks /\ put \in 0 .. NewBlocks
  /\ mount \in {"running", "down", "replaying", "up", "refused"}
  /\ changes \in 0 .. MaxChanges /\ cuts \in 0 .. MaxCuts

\* Every name of the committed trees is in a DIR_INDEX, a DIR_ITEM and a
\* reference of its inode that agree, and link counts, nbytes and directory
\* sizes count them: a replay leaves no tree half named, and a link count "is what
\* its names now are" (log_tree.rs:986).  It is so of every log Fsync writes with
\* Leavers FALSE.  With Leavers TRUE it is not: a file moved from one directory
\* to another, both logged, and itself logged as existing only, keeps the
\* reference to the one it left and counts it.
NamesAgree == items = ItemsOf(Describe(items))

\* Every extent record lists exactly the references file items make to it, and
\* the checksum tree covers exactly the recorded extents.
ExtentsExact == rec = RecordsOf(items) /\ sums = DOMAIN rec

\* The committed trees tell of themselves and of the space without a fault, after
\* the replay of any log but those only Leavers lets in.
TreesExact == TypeOK /\ NamesAgree /\ ExtentsExact

\* A replay that is accepted gives each file logged in full the data, names and
\* attributes it had when its fsync returned, and each directory logged its
\* entries in the logged range.
SyncedKept ==
  mount = "up" =>
    LET tree == ItemsOf(now)
        of(t, i) == [k \in Keys(t, i, {"INODE", "REF", "EXTREF", "DATA", "XATTR"}) |-> t[k]]
        entries(t, d) == [k \in {l \in Keys(t, d, {"INDEX"}) : l[3] >= synced.from} |-> t[k]]
    IN  /\ \A i \in synced.full : of(items, i) = of(tree, i)
        /\ \A d \in synced.dirs : entries(items, d) = entries(tree, d)

\* A replay takes nothing from an inode the log does not hold but the names a
\* logged range lost, and all of it only with the last of them.
OthersKept ==
  [][\A i \in {j \in Ino : Has(j)} \ Logged :
       LET rest(t) == [k \in Keys(t, i, {"DATA", "XATTR"}) |-> t[k]]
           names(t) == Records(t, i, RefTypes)
       IN  /\ names(items') \subseteq names(items)
           /\ \A n \in names(items) \ names(items') :
                InRange(n[1], n[2]) /\ <<n[1], "INDEX", n[2]>> \notin DOMAIN log
           /\ IF InodeKey(i) \in DOMAIN items' THEN rest(items') = rest(items)
              ELSE names(items') = {} /\ rest(items') = None]_items

\* What was synced is what comes back, and the rest of the tree stays as it was
\* committed.
SyncedAlone == []SyncedKept /\ OthersKept

\* A replay once begun is completed, by this mount or by one after a power cut:
\* no interrupted replay destroys the log the next mount needs.
SyncedRecovers == (mount = "replaying") ~> (mount = "up")
=============================================================================
