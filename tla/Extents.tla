------------------------------ MODULE Extents ------------------------------
(* What a file holds, and every call that changes it: write (copy on write,  *)
(* in place for nodatacow, into inline data, into preallocated space),       *)
(* truncate, fallocate, punch_hole, clone_range, dedupe_range, defragment.   *)
(* A call is one or several transactions; each writes its data first and     *)
(* then commits the items, extent records, digests and counters that name    *)
(* it, and a power cut before the commit leaves any of the data behind and   *)
(* the old metadata. One subvolume, never snapshotted.                       *)
(*                                                                           *)
(* A sector holds S bytes. Items, extents and digests are counted in         *)
(* sectors, offsets of calls and sizes in bytes. Address 0 is a hole's.      *)
EXTENDS Integers, SequencesExt

CONSTANTS
  Inos,      \* the regular files
  Unit,      \* sectors one compressed extent may decode to
  Space,     \* the data block group: a set of disk sectors above 0
  Layouts,   \* the volumes to start from
  Requests,  \* the calls
  MaxCalls,  \* bound: calls made
  MaxCuts    \* bound: power cuts

S == 2

VARIABLES
  noHoles,   \* whether the volume has the NO_HOLES feature
  files,     \* committed: each file's inode and EXTENT_DATA items
  extents,   \* committed: each data extent's length and references
  csums,     \* committed: the digest of each checksummed sector
  used,      \* committed: the superblock's bytes_used, in sectors of data
  disk,      \* what each sector of the group holds
  todo,      \* what the running call has left to do
  call,      \* ghost: the running call, what the files held, and should hold
  want,      \* ghost: what each file's reader is owed
  ended,     \* how the last call ended
  calls, cuts

vars == <<noHoles, files, extents, csums, used, disk, todo, call, want, ended, calls, cuts>>
volume == <<files, extents, csums, used>>

-----------------------------------------------------------------------------
(* Items. *)

Reg(at, off, num, packed) ==
  [kind |-> "reg", at |-> at, off |-> off, num |-> num, packed |-> packed, data |-> <<>>]
Pre(at, off, num) == [Reg(at, off, num, FALSE) EXCEPT !.kind = "pre"]
HoleItem(num) == [Reg(0, 0, num, FALSE) EXCEPT !.kind = "hole"]
InlineItem(data) == [Reg(0, 0, 1, FALSE) EXCEPT !.kind = "inline", !.data = data]

Ceil(b) == (b + S - 1) \div S
Less(f, keys) == [k \in DOMAIN f \ keys |-> f[k]]
EndOf(items, k) == k + items[k].num
Holding(items, s) == {k \in DOMAIN items : k <= s /\ s < EndOf(items, k)}
Allocated(items) == {k \in DOMAIN items : items[k].at # 0}
HasInline(items) == 0 \in DOMAIN items /\ items[0].kind = "inline"
Preallocated(items) == {k \in DOMAIN items : items[k].kind = "pre"}
Touching(items, lo, hi) == {k \in DOMAIN items : EndOf(items, k) > lo /\ k < hi}

\* The offset an item's reference is filed under. Where the code subtracts
\* without wrapping, a release build wraps to the number that stands for this.
RefOf(items, k) == k - items[k].off
Ref(ino, items, k) == [at |-> items[k].at, ref |-> <<ino, RefOf(items, k)>>]
Refs(ino, items, keys) ==
  [r \in {Ref(ino, items, k) : k \in keys} |-> Cardinality({k \in keys : Ref(ino, items, k) = r})]

Sectors(e) == e .. (e + extents[e].len - 1)
RefsTotal(e) == BagCardinality(extents[e].refs)
InsideExtent(it) == it.packed \/ it.off + it.num <= extents[it.at].len

-----------------------------------------------------------------------------
(* Reading. *)

Summed(ino) == ~files[ino].nocow

\* A sector whose digest does not match is an error, shown as no byte at all.
Verified(ino, s, n) ==
  IF Summed(ino) /\ s \in DOMAIN csums /\ csums[s] # disk[s] THEN -1 ELSE disk[s][n]

Decoded(ino, it, n) ==
  CASE it.kind = "inline" -> IF n < Len(it.data) THEN it.data[n + 1] ELSE 0
    [] it.kind = "reg" /\ it.packed -> Verified(ino, it.at, it.off * S + n + 1)
    [] it.kind = "reg" /\ ~it.packed ->
         Verified(ino, it.at + it.off + (n \div S), (n % S) + 1)
    [] OTHER -> 0

Byte(ino, b) ==
  LET items == files[ino].items  held == Holding(items, b \div S) IN
  IF held = {} THEN 0
  ELSE LET k == Max(held) IN Decoded(ino, items[k], b - k * S)

ReadAt(ino, from, n) ==
  [i \in 1..n |-> IF from + i - 1 < files[ino].size THEN Byte(ino, from + i - 1) ELSE 0]

Contents(ino) == ReadAt(ino, 0, files[ino].size)

-----------------------------------------------------------------------------
(* What each call means to a reader. *)

Resized(b, n) == [i \in 1..n |-> IF i <= Len(b) THEN b[i] ELSE 0]
Overlay(b, off, data) ==
  [i \in 1..Max({Len(b), IF data = <<>> THEN 0 ELSE off + Len(data)}) |->
    IF off < i /\ i <= off + Len(data) THEN data[i - off]
    ELSE IF i <= Len(b) THEN b[i] ELSE 0]
Zeroed(b, from, to) == [i \in DOMAIN b |-> IF from < i /\ i <= to THEN 0 ELSE b[i]]

Meaning(o, w) ==
  CASE o.op \in {"write", "move", "into"} -> [w EXCEPT ![o.ino] = Overlay(@, o.off, o.data)]
    [] o.op = "truncate" -> [w EXCEPT ![o.ino] = Resized(@, o.size)]
    [] o.op = "fallocate" /\ ~o.keep ->
         [w EXCEPT ![o.ino] = Resized(@, Max({Len(@), o.off + o.len}))]
    [] o.op = "punch" -> [w EXCEPT ![o.ino] = Zeroed(@, o.off, o.off + o.len)]
    [] o.op = "clone" ->
         LET end == IF o.len = 0 THEN Len(w[o.src]) ELSE Min({o.from + o.len, Len(w[o.src])}) IN
         [w EXCEPT ![o.ino] = Overlay(@, o.off, SubSeq(w[o.src], o.from + 1, end))]
    [] OTHER -> w

-----------------------------------------------------------------------------
(* Transactions: what a call asks of the extent and checksum trees. *)

Refused == [kind |-> "refused"]
Done == [kind |-> "done"]
None == [kind |-> "none"]
Then(ops) == [kind |-> "then", ops |-> ops]

\* DataWrite, with nothing in it: the file's items, size and nbytes as they
\* are, no reference added or dropped, nothing allocated, written or counted.
NoChange(ino) ==
  [ino |-> ino, items |-> files[ino].items, size |-> files[ino].size,
   nbytes |-> files[ino].nbytes, releases |-> EmptyBag, unrefs |-> EmptyBag, shares |-> EmptyBag,
   adds |-> {}, writes |-> <<>>, delta |-> 0]

Named(refs) == {r.at : r \in DOMAIN refs}
BagOf(refs, e) ==
  [m \in {r.ref : r \in {x \in DOMAIN refs : x.at = e}} |-> refs[[at |-> e, ref |-> m]]]

\* released_extents, dropped_references: a released extent's record lists the
\* change's references and no other, and an extent losing references keeps one.
ApplyDrops(t) ==
  /\ \A e \in Named(t.releases) : extents[e].refs = BagOf(t.releases, e)
  /\ \A e \in Named(t.unrefs) :
       /\ BagOf(t.unrefs, e) \sqsubseteq extents[e].refs
       /\ BagCardinality(BagOf(t.unrefs, e)) < RefsTotal(e)

Released(t) == UNION {Sectors(e) : e \in Named(t.releases)}

\* csum_edits: space about to be written holds no digest yet.
NoStaleDigest(t) == Summed(t.ino) => DOMAIN t.writes \cap DOMAIN csums = {}

Transaction(t) ==
  IF ApplyDrops(t) /\ NoStaleDigest(t) THEN [kind |-> "commit", txn |-> t] ELSE Refused

ExtentsAfter(t) ==
  [e \in (DOMAIN extents \ Named(t.releases)) \cup {a.at : a \in t.adds} |->
    IF e \in DOMAIN extents
    THEN [extents[e] EXCEPT !.refs = (@ (-) BagOf(t.unrefs, e)) (+) BagOf(t.shares, e)]
    ELSE LET a == CHOOSE x \in t.adds : x.at = e IN
         [len |-> a.len, refs |-> SetToBag({<<t.ino, a.key>>})]]

\* csum_edits, kept_runs: the digests of what is released go, and those of
\* what a checksummed file wrote come.
CsumsAfter(t) ==
  (IF Summed(t.ino) THEN t.writes ELSE <<>>) @@ Less(csums, Released(t))

\* find_data_extents: each length at the lowest address with room for it,
\* clear of everything allocated now, what is about to be released included.
Free == Space \ UNION {Sectors(e) : e \in DOMAIN extents}
FindExtents(lens) ==
  FoldLeft(LAMBDA found, len :
    LET room == {a \in Free : a .. (a + len - 1) \subseteq Free \ found.taken} IN
    IF ~found.ok \/ room = {} THEN [found EXCEPT !.ok = FALSE]
    ELSE [found EXCEPT !.at = Append(@, Min(room)),
                       !.taken = @ \cup (Min(room) .. (Min(room) + len - 1))],
    [ok |-> TRUE, at |-> <<>>, taken |-> {}], lens)

SumOver(T, F(_)) == MapThenSumSet(F, T)
CountedBytes(items) ==
  SumOver(DOMAIN items, LAMBDA k :
    CASE items[k].kind = "inline" -> Len(items[k].data)
      [] items[k].at # 0 -> items[k].num * S
      [] OTHER -> 0)

\* commit_dirty_with: bytes_used moves by every release and every extent added.
Moved(t) ==
  SumOver(t.adds, LAMBDA a : a.len)
  - SumOver(DOMAIN t.releases, LAMBDA r : t.releases[r] * extents[r.at].len)

Recounted(t) == [t EXCEPT !.nbytes = CountedBytes(t.items), !.delta = Moved(t)]

\* The sectors of a copy stored plain, from its first.
Laid(at, bytes) == [s \in at .. (at + Len(bytes) \div S - 1) |->
  SubSeq(bytes, (s - at) * S + 1, (s - at + 1) * S)]
Merge(fs) == FoldLeft(LAMBDA a, b : b @@ a, <<>>, fs)
=============================================================================
