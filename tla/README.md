# A verification development for the Btrfs driver

TLA+ models of the write side of this driver, TLC runs over small instances of
them, and TLAPS proofs for every size. Modules are named for the part of the
code they model; PROJECT.json maps each definition to its lines.

## 1. The system

The crate reads and writes one on-disk format. Its write side is a stack:

| component | code | state it keeps | operations |
|---|---|---|---|
| commit protocol | `commit.rs`, `super_write.rs`, `superblock.rs` | superblock copies, tree blocks on the device, the device's write cache | `commit_with`, `refuse_stale`, `read_superblock`, `set_label` |
| device pool | `devices.rs`, the pool half of `fs.rs` | which devices carry a superblock, at which id, count and generation | `mount_pool_rw`, `add_device`, `replace_device`, `remove_device` |
| mount and read path | `fs.rs`, `btree.rs` | a handle: superblock, chunk map, tree roots, node cache | `mount*`, `remount_rw`, block reads over mirrors, `read_at` |
| transaction planner | `transaction.rs`, `block_group.rs`, `tree_write.rs`, `leaf_edit.rs` | a `Plan`: rewrites, kept blocks, splits, removals; extent, free-space and block-group records | `plan_transaction_closed_with`, `render_plan_with` |
| subvolumes | `subvol.rs` | root items, root refs, reference counts of shared blocks | create, snapshot, delete, set default |
| file writes | `cow_write.rs`, `write.rs`, `truncate.rs`, `fallocate.rs`, `clone.rs`, `defrag.rs` | file extents, data extents and their references, checksums | write, truncate, punch, clone, defragment |
| namespace | `namespace.rs`, `dir.rs`, `inode.rs`, `xattr.rs`, `attrs.rs` | directory items, inode refs, link counts | create, link, unlink, rename, rmdir |
| log replay | `log_tree.rs` | an fsync log named by the superblock, pinned ranges | `replay_inode_only_log` on mount |
| chunks and balance | `chunk.rs`, `raid56.rs`, `balance.rs`, `resize.rs`, `trim.rs` | chunk map, device extents, parity | relocate, resize, rebuild a stripe |
| scrub | `scrub.rs` | none of its own | verify every copy and parity element, rewrite the bad ones |
| check | `check.rs` | none | hold each structure against those that describe the same thing |
| send streams | `send.rs`, `send/incremental.rs` | a stream; the receiver's names as the sender believes them | full and incremental streams |
| import | `cli/btrfs/import.rs` | a staged name, a kept mount | stage, write, publish, abort |
| verity, mkfs, C ABI, other commands | the files of those names | none beyond the above | compute, convert, or set up |

How they meet. Every operation that changes the filesystem makes one `DataWrite`
(edits to items, extents taken and released), which the planner closes over
the records of its own moves: each changed block gets a new home, and the
records of old and new homes dirty further blocks. The rendered blocks go to
`commit_with`, which writes them, flushes, writes the superblocks, flushes
again; then the handle mounts itself again (`remount_rw`). Handles share
nothing but the device: one learns of another's commit by reading the
superblock (`refuse_stale`).

What is hard. Power can be lost anywhere and the device's cache writes back
what it likes; calls fail half way and are retried; processes are killed while
the device's cache is not; several handles of one volume are open; several
devices must agree; blocks are shared between trees and freed blocks reused;
some operations (replace, balance, a write over the edge of preallocated space,
an import) are more than one commit; one name is four records and one extent
reference is two. The hazards are listed with their lines in PROJECT.json.

What makes each part correct:

* commit: a reader always finds one whole transaction, before or after;
  an acknowledged commit stays; one generation names one tree; no commit is
  lost under another.
* pool: some set of devices always mounts and shows what was acknowledged; a
  superblock never vouches for data that is not there; no removal or
  replacement is undone.
* planner and subvolumes: a block has exactly the references that reach it,
  free space is exactly what nothing references, a change in one tree is not
  seen in another.
* file writes: bytes shared with another file or snapshot do not change under
  it; what is read is what the last commit wrote.
* namespace: the records of a name agree, so that it can be found, counted and
  removed; each call changes the names it was asked to and no others.
* log replay: what was synced is back, nothing else is changed, and the result
  of an interrupted and repeated replay is that of one.
* chunks: the trees that map, count and reference space agree at every commit,
  and files read the same throughout; what a call succeeded in is done.
* RAID and scrub: what the profile bears loses nothing, and a repair makes
  nothing worse.
* check: it reports nothing of what the other operations make, and one missing
  record is always reported.
* send: the receiver can apply every command, and ends with the child.
* import: no name ever shows part of a file, and what is left behind is told.

## 2. Modules

### AtomicStore
The promise: a reader sees one transaction, `shown`; `survivors` are those a
power cut may leave. A commit publishes, a flush settles, a cut picks.

### Commit
One device. `block`, `super` are what a read returns now, `blockCut`,
`superCut` the contents a power cut may leave of each place: what the last
flush left and everything written since. A tree is the function from places to
the transaction that wrote the block there, so a reused block shows as another
writer's. A handle goes `Idle -> Planned -> Blocks -> Supers -> Reopen`, one
action per step of `commit_with`: `Plan` (the closure, on free places only),
`MakeImages` (the stale check and the images), `PutBlock` (each block to each
mirror), `Barrier`, `PutSuper` (each copy), `CommitPoint`, `Remount`.
`Spec` adds power cuts, `FaultSpec` failing calls and killed processes,
`TornSpec` superblock copies torn by a cut.

The transaction's content is abstracted to the places it releases and takes:
any non-empty choice, which includes every plan the planner can make. Chunk
trees are kept as the transaction that wrote them, since the image inherits the
field when the commit does not set it.

### Pool
Several devices. A device is its superblock area (newest copy: transaction,
device id, device count, whether it is the primary) and the set of transactions
whose blocks on it are all there; both with what a cut may leave. Transactions
carry the device ids of their chunk tree (`ids`) and those holding extents
(`ext`). A commit is four steps, a replace six; `kept` is the set of
transactions that a mount may show. Wiping one of two devices of the same id
before mounting is the operator's (`WipeDouble`), as `devices.rs:74-76` asks.
`Mount` is stricter than the code about it: no device is mounted while another that
claims its id is attached, where the code cannot see what it is not given. Mounting
one of the two alone and the other later would fork the pool, which the
documentation leaves to the operator as well.

### Subvolumes
The promise to whoever uses subvolumes: each holds a file of its own; a step
changes one file, in a way some operation may, or makes a new subvolume that
starts out as its source stands. No blocks and no extents.

### Backrefs
The state of the subvolumes' trees: blocks (owner, children or items), each
block's METADATA_ITEM and each data extent's EXTENT_ITEM with the references it
lists, ROOT_ITEMs. And the rule of Btrfs back references, stated over the whole
state: `BlockRule` and `DataRule` compute what a record must say from the trees
alone, which is what the incremental edits of `transaction.rs` are checked
against. The rule is the format's, the property `RefsExact` uses it; only the
descents and reference offsets are mapped to code.

### Trees
One action per operation: `Write`, `WriteInPlace`, `Truncate`, `Punch`, `Clone`,
`Snapshot`, `Delete`. Each builds the `DataWrite` the code builds (`FileChange`:
edits, releases, drops, shares, new extents; a snapshot's children gaining
references), and `Commit` plans, renders and commits it as a whole:

* `Plan`: the blocks from each edited leaf to the root (`touched`), those kept
  because something on their path counts another reference (`kept`), the items
  each leaf ends with, the new homes of each block (none when emptied, several
  when split) and of a root that grows. `misfit` is where `plan_splits` and the
  render disagree about a node, which is refused.
* `BlockAfter`, `DataMoves`, `DataMoved`, `DataAfter`: the edits `backrefs` and
  `apply_records` make to the records, in the code's order: releases, a
  snapshot's gains, shared references of kept blocks, what kept blocks give up,
  what FULL_BACKREF copies give up and name anew, data releases, drops, shares.
* `BlockSuits`, `DataRefusals`: what the render checks. A refusal sets `outcome`
  to its reason and leaves all else; nothing follows it.

A file is a function from the key of an item (its first sector; 0 for the inode)
to extent, offset and length; a data extent's contents are who wrote each
sector, so that `Isolation` can compare files. Trees implements Subvolumes under
the mapping that reads each live subvolume's file.

The file's size is not modelled: an item past the end and a hole read as zeros
either way. One file per subvolume; the trees that describe the volume (root,
extent, free space, checksum) are their records here, not blocks of their own.

### Directories, Namespace
Directories is the promise of names: every tree a hierarchy, a call one change
of it. Namespace has one action per call of `namespace.rs`, `xattr.rs` and
`subvol.rs`, each one transaction on one tree. A tree's items are relations, one
per item type; records that share a key share an item, and only how many fit
into one depends on that: INODE_REF by inode and directory (`RefRoom`),
INODE_EXTREF and DIR_ITEM by hash (`ItemRoom`). The edits are made one on the
other, as the code's are: a rename drops what it replaces, drops the old name,
files the new one under an index taken before either. `Clean`, the removal of a
dead subvolume's tree, is the kernel's. Namespace implements Directories
(`ImplementsDirectories`) under the mapping that reads DIR_ITEMs, inodes and
attributes; a subvolume that is not live shows nothing. What holds of the items
is `NamesExact`; what those who read them make of it (check, rmdir by a
directory's size, the listing of subvolumes and the resolution of its paths) is
`ReadersAgree`. Where an item is looked for by going up from directory to
directory, `IsWithin` says it without a count of steps: whatever set of inodes
is closed under going up and has the one in it has the other.

### Check
`check.rs` as pure operators, one per pass, each the set of what the pass
reports. Nothing here has state: Namespace, Trees, Chunks and Files evaluate the
passes over the items they have, in `CheckAgrees` (in Namespace a part of
`ReadersAgree`): nothing is reported of any
reachable state, and damage to one record (a DIR_ITEM, DIR_INDEX, reference,
inode or link count; an extent record or its count; a device extent; a block
group; a unit of free space) is. Two things it does not see, by what the passes
compare: the index number kept with a back-reference, by which a removal finds
the DIR_INDEX, and how many references a data extent counts.

### Send
Sender and receiver of one stream. The sender's passes of `incremental.rs` are
phases, and a step is one turn of a pass's loop, which writes a few commands to
`out`: take names away (orphans among them), make names, remove directories,
data and attributes of kept inodes, owners, times; a full stream is the same
without a parent. The receiver applies the first command of `out` to `recv`, a
model of what the kernel's receiver does with it, and notes in `refused` what it
cannot apply. `ns` is the sender's belief about the receiver's names.

### LogReplay
The kernel's side (`Make`, `Link`, `Unlink`, `Rename`, `Write`, `Punch`,
`WriteInline`, `Truncate`, `SetAttr`, then `Fsync`) is external and writes a log
of any of the inodes changed in any form the code reads: in full, as existing
only, as a directory with the ranges of its index. The mount reads it
(`ReadLog`): `Replayable` is the conjunction of the classifications and refusals
of `log_tree.rs`, `Plan` the edits, `RecordAfter` the extent references,
`Pinned` the log's own blocks. `PutBlock` writes one block of the transaction,
`Publish` its superblock; power may go before each.

### Chunks
Balance, relocation off a device, resize, device removal, trim and a file write
over block groups. `fs` is the volume as committed (chunks, device extents,
device items, extent records with their references, file items, tree blocks,
counters, free space), `disk` what every unit of every device holds. A
relocation is the code's loop, a step each: choose (`Begins`, once), allocate
the chunk, move tree blocks, copy a batch, commit the batch, drop the old
group, undo on failure. `DeviceError` and `PowerCut` may come between any two.

### Raid
One chunk of raid1, raid10, raid5 or raid6. The field of the parity arithmetic
(P is a sum, Q a sum weighted by powers of a generator, the four rebuild formulas of
`raid56.rs`) is a parameter, as the code's tables give it: the powers of a generator
(`Exp`) and sums (`Plus`), which are to be those of a field (`FieldAssumption`). The
code's has 256 values; the run's has four, enough for what the rebuilds use. `Write`
is a read-modify-write with a power
cut that may lose any of its writes, `ScrubRepair` is `scrub_repair` with its
order of repairs, `Decay` and `Fail` damage a unit. `harm` remembers which
stripes of a row were touched, so that a property can say what the profile is
able to bear.

### Extents, Writes, Files
Extents is the state of a volume's files (items, extents with references,
digests, counters, the sectors of the data group), the readers, and the pieces
of a transaction. Writes is `Filesystem::write`: in place, inline, into
preallocated space, copy on write, in parts. Files is truncate, fallocate,
punch, clone, dedupe, defragment, and the system: `Ask` begins a call, which is
a list of parts in `todo`; a step plans the first part from the committed volume
and it commits, is refused, is cut off with any of its data written, or turns
into several. `want` is what each file's reader is owed.

### Import
Two importing processes, each with a kept mount, over one volume; every call of
the importer's sink is an action. `ImportFile` and `ImportEntry` are the order
the shared driver, which is not in the repository, calls them in. A call's
commit succeeds, fails before anything is out, or fails after its superblock is
(`FailsLate`); other programs put and remove files, a signal cancels, a process
is killed, its command is given again, the power goes.

### The MC modules
Instances for TLC: the volumes, calls and layouts a run starts from, by name
and comment. MCTrees has pairs of volumes and workloads: the file
in a root leaf; under a node; with a snapshot already diverged; three levels
shared by two snapshots.

### The proof modules
CommitProofs (one device, no faults, and the refinement of AtomicStore), FaultProofs (one device with faults), PoolInvariant (Pool's
inductive invariant and lemmas on it), PoolProofs (its steps and theorems),
RaidProofs (the field and its sums, that the rebuilds give back what was lost, the
chunk's places, and then its steps and theorems),
ImportProofs (what the library's calls make of a volume, what a call of an import
may do, and the theorems), NamespaceInvariant (what each edit of one tree leaves
of it: a name filed, a name dropped, an inode changed, an inode freed) and
NamespaceProofs (what each call makes of those edits, the theorems, and the
refinement of Directories).

## 3. Runs

| run | specification | bounds | shows |
|---|---|---|---|
| commit_cut | Commit!Spec | 4 places in 2 mirrors, 2 superblock copies, 2 transactions, 2 cuts | whole tree, before or after, refines AtomicStore |
| commit_handles | Commit!FaultSpec | 2 handles, 3 places, 3 transactions, 1 failed call or killed process | one tree per generation, no lost commit, handles read whole trees |
| pool | Pool!Spec | 3 devices, 2 of them made into the pool, 4 ids, 3 transactions, 2 cuts, none while a device is being added | mounted pools are whole, superblocks vouch truly, the pool stays readable, no lost commit |
| trees | Trees!Spec | 3 subvolumes, 22 block addresses, 8 extents, 4 sectors, leaves of 2 items, nodes of 3 pointers, 3 operations on five volumes | records exact and clean for check, isolation (refines Subvolumes), nothing committed overwritten, every plan borne out |
| trees_leak | Trees!Spec | 4 operations from a one-extent file | violated: see Findings |
| namespace | Namespace!Spec | 3 names, two of them of one hash, room for 1 name in an INODE_REF and 2 in a hashed item, 3 or 4 calls on seven volumes | records of a name agree, as do check, sizes and listed paths, read-only trees unchanged, refines Directories |
| send | Send!Spec | every pair of trees of two directories and a file, and of files of a few extents; both versions, full and incremental | every command applies, the receiver ends with the child, kept inodes are kept, the sender never gives up |
| log_replay | LogReplay!Spec | 2 changes before the fsync, a log of any of the inodes changed, 1 cut, three volumes | what was synced is back and alone, trees and extents exact, an interrupted replay is completed |
| chunks | Chunks!Spec | chunks of 4 units, one superblock copy beside the first, batches of one extent, 3 calls with failures and cuts, four volumes of one or two devices | space accounts exact at every commit, files read the same, a success did as asked, calls end |
| raid | Raid!Spec | one chunk of each of four profiles, a field of four values, 2 calls, 2 damaged units | what the profile bears loses nothing, a clean scrub vouches, a repair harms nothing |
| files | Files!Spec | sectors of 2 bytes, twenty-four requests, 3 calls, 1 cut, seven volumes of two files | reads right, references and counts exact, a success did all of the call |
| import | Import!Spec | 2 processes, files of up to 3 bytes sent two at a time, five starts each with one or two outside troubles (another program, a failed commit, a signal, a kill, a power cut) | no partial file at any name, strays told, only what was asked changed |

Why the bounds suffice. *Commit, pool*: a commit can disturb only the
transaction before it and the one after, so two transactions (three with faults,
where a failed one lies between) make every overlap; a second cut is what makes
recovery from a recovered state; two mirrors and two copies are the least that
can disagree; four ids let two devices be added. The proofs of section 5 are for
every bound of theirs. *Trees*: addresses and extents never run out (the reason "space"
does not occur), so the only bounds that cut behaviour are three operations and
the shapes they start from, chosen so that each case of `backrefs` occurs: kept
and own, kept and another's, FULL_BACKREF and no longer kept, a child given its
reference by the copy of its parent (three levels and two snapshots), splits up
to a new root, emptied leaves and nodes. A punch, a snapshot and two cuts are
four operations: `trees` stops short of what `trees_leak` shows. *Namespace*:
two names of one hash and the rooms make a name spill from INODE_REF to
INODE_EXTREF, collide in a DIR_ITEM, and be refused; one call makes, one moves or
replaces, one removes. *Send*: every pair of trees of that size has every swap,
nesting exchange and reused number, and the length of the stream is not bounded.
*LogReplay*: a log speaks of an inode or does not, and a change involves one inode
and at most two directories, so two changes make every partial log of two that
touch. *Chunks*: a chunk of four holds an extent to move, one that stays and a
hole; batches of one make each relocation several transactions; the third call
meets what two interrupted ones left. *Raid*: two damaged units are what raid6
bears and one more than the others do; the field of four elements is the least in
which P and Q differ for three data elements. *Files*: two files share an extent
in the two ways there are (through a clone, in one file), and the third call cuts
what the second split. *Import*: two processes meet in every order,
and a second trouble is what meets the recovery from a first.

Fairness. Two modules claim that something ends.
* LogReplay (`SyncedRecovers`, weak fairness of the mount's own steps): a mount
  is one call that runs on by itself. The changes, the fsync and power cuts are
  under no fairness; a cut cannot come for ever.
* Chunks (`CallEnds`, weak fairness of a call's own steps): a relocation is a
  loop in one call. That it ends is not plain, since each turn allocates what the
  next might take for work.

The other modules claim no liveness: nothing in the code retries by itself, and
every operation is a finite loop its caller starts. A send stream, say, comes to its
end unless the sender returns an error, and that it never does is the invariant
`NeverGivesUp`.

`CHECK_DEADLOCK FALSE` is set in every run: a volume whose copies disagree takes
no more writes, a stream ends, a volume may be refused by every mount, and the
bounds on calls stop the rest.

## 4. Findings

`trees_leak`: an extent two items of one leaf name, in a FULL_BACKREF leaf that
only one tree reaches any more. Cutting the file drops two references (the record
counts 2), the leaf's copy takes its shared reference of two away, and the two
keyed ones it would add are cancelled against the drops: the record stays with no
reference, its space never freed. PROJECT.json quotes the sentences this is
against.

### Known departures

Modules state further properties the code, a comment or a test claims and the
code does not keep. TLC shows each violated under the constants given; none is
part of a run that passes.

| property | under | what happens |
|---|---|---|
| Commit `CutLeavesWholeTree` | FaultSpec, as `commit_cut` with one mirror, 1 cut, 1 fault | after a failed or killed commit the new superblock may be in the cache only (`commit.rs:310`). The next mount takes it as committed, reuses the blocks it released, and a cut before the next barrier brings back the older superblock over overwritten blocks; `commit.rs:121-126` calls the state that of a power cut. The proofs show it cannot happen without a fault |
| Commit `OneTreePerGeneration` | RaceSpec, as `commit_handles`, `MaxTx = 2`, no fault | two handles used at once both pass `refuse_stale` (`commit.rs:261`) before either writes a superblock: one generation names two trees, and the second takes the first one's acknowledged commit away, against `commit.rs:233-236` and `fs_btrfs.h:4` ("distinct handles are independent") |
| Commit `RecoversBeforeOrAfter` | TornSpec, as `commit_cut` | the first cut leaves the mirror a generation behind, the second tears the primary: a mount shows a transaction two back, against `tests/crash_consistency.rs:14-16` |
| Commit `SuperblockOfOneCommit` | FaultSpec, as `commit_cut`, no cut, 1 fault | the superblock image starts from bytes not verified (`commit.rs:439`), so a retry commits the chunk root of the attempt that failed, against `commit.rs:330` |
| Pool `AdditionCutWhole` | JoinSpec, `MaxId = 3`, `MaxTx = 2`, 1 cut | no flush separates an added device's superblock from the members' (`commit.rs:298-317`) and each device has a cache of its own, so the order `devices.rs:30-38` relies on is not the devices': a cut can leave the first member counting a device that carries no superblock, and no set of devices mounts whole |
| Pool `NoLostCommit` | FaultSpec, 2 devices, `MaxId = 2`, `MaxTx = 3`, no cut, 1 fault | a failed wipe of the removed device of the lowest id (`devices.rs:466`) leaves a handle behind the pool that `refuse_stale` does not notice |
| Trees `ShrinkReleases` | as `trees_leak` | `shrink_item` (`truncate.rs:318`) looks at one item at a time: a file whose items hold all of an extent's references between them can be neither cut nor unlinked, against `namespace.rs:612-613` |
| Send `Rebuilt` | `Starts <- CapableStarts` | data, size and owner sent after `security.capability` clear it at the receiver (`send.rs:861`), and one to be removed may be gone already |
| LogReplay `NamesAgree` | `Leavers = TRUE`, `MaxChanges = 1`, no cut | a file moved from one directory to another, where the log holds both directories and the file only as existing: the entry in the directory it left goes, but its reference there is kept as "a name in a directory the log does not mention" (`log_tree.rs:999`) and counted, so it has one entry, two references and two links, against `log_tree.rs:985-986` |
| Raid `FirstCopyUnreadable` | `Unreadable = TRUE`, 1 call, 1 fault | a data read whose first copy fails with an error, rather than with bytes that do not verify, fails (`fs.rs:2686`), where `scrub.rs:5` has it use the first copy that verifies |
| Chunks `SuperblocksKept` | as `chunks`, 1 call | a free run holds the superblock copies that lie in its group, and a trim discards it whole (`trim.rs:72`), against `trim.rs:105-107` |
| Files `UsedExact` | as `files` | an extent two items of one call give up is taken off `bytes_used` twice (`namespace.rs:890`; `828-829` says otherwise) |
| Files `ShrinkTaken` | as `files` | as `ShrinkReleases`, of clones as well (`truncate.rs:318-322`) |
| Files `AllOrNothing` | as `files` | a write over the edge of preallocated space is two transactions (`cow_write.rs:346-351`), of which the second may be refused or cut off, where `cow_write.rs:6-8` promises the old file or the new one |

What the runs say is so much narrower. `OneTreePerGeneration`,
`FreshHandleReadsWhole` and `NoLostCommit`, of Commit and of Pool, are checked and
proved of calls made one at a time (`Alone`). That is an assumption of the model:
nothing in the repository asks it of callers. `PoolStaysReadable` is checked and
proved where no addition of a device is cut short. `TreesExact`, of which
`NamesAgree` is part, is checked with `Leavers = FALSE`: a file that has left a
logged directory is then logged in full or not at all. Replay accepts the logs this
leaves out; whether a kernel writes one is outside this repository (`Fsync` is
external).

Known and not modelled as properties:

* Pool: two handles racing, as in Commit; a handle that does not notice
  another's `replace_device`, which leaves the generation as it was; a device left
  over from an interrupted addition, accepted once the members reach its
  generation.
* Trees: a write is refused when two items of one extent lie one in a leaf a
  snapshot reaches and one not; a snapshot of a subvolume whose root is a leaf is
  refused when the same transaction edits a record of its extents; a node whose
  children split and leave in one change is refused as a split that is not needed.
  The three leave the volume as it was. The reference offset of an item whose
  extent begins before the file does is a plain subtraction in `truncate.rs` and
  `cow_write.rs`, which panics in a debug build, and a wrapping one in `clone.rs`.
* Namespace: the top level's own read-only flag is not looked at
  (`namespace.rs:963-964`).
* Check: it reports the entry that a snapshot kept of a nested subvolume as naming
  a subvolume that does not exist once that subvolume is deleted and cleaned,
  though the library's own calls make that state and `subvol.rs:534-600` reads it
  as an empty directory; `CheckAgrees` excepts this report. It does not compare
  the index number kept with a back-reference, nor a data extent's count.
* Raid: `scrub_repair` fails on an unreadable copy of a sector without a checksum;
  an unreadable sector marks its copy bad for a whole window; an unreadable free
  data element makes scrub skip the parity of its row; a read-modify-write takes
  its neighbours unverified; an interrupted one leaves the write hole, which
  `harm` allows for.
* Files: a nodatacow file that ends inside a sector refuses to grow, where
  `truncate.rs` lists only inline nodatacow files.
* Import: after a signal, an abort whose kept mount is stale cannot unlink and
  reports the staged name instead (README.md:73 has it unlinked); a create or
  publish whose commit fails after its superblock is out is reported failed though
  it took effect; a killed process's successor of the same PID meets the staged
  name and is refused.

## 5. Proofs

Everything here is for every set of handles, places, mirrors, devices and ids,
and any number of transactions and cuts, unless the statement says otherwise;
for Import, for every set of processes, jobs and private names, and any number
of faults, cuts and changes by other programs; for Namespace, for every set of
subvolumes, inodes and names, every hash, any room in an item, any number of links
and of calls; for Raid, for every field of characteristic two with a generator, every
chunk of the four profiles that it is large enough for, and any number of calls and
damaged units.

| theorem | module | states |
|---|---|---|
| `TypeCorrect` | CommitProofs | `Spec => []TypeOK` |
| `CutSafe` | CommitProofs | `Spec => []CutLeavesWholeTree` |
| `CutAtomic` | CommitProofs | `Spec => []CutLeavesBeforeOrAfter` |
| `StoreImplemented` | CommitProofs | `Spec => ImplementsStore`: Commit implements AtomicStore |
| `GenerationsUnique` | FaultProofs | `FaultSpec \/ TornSpec => []OneTreePerGeneration` |
| `KeptWithoutFaults` | FaultProofs | `Spec => NoLostCommit /\ []FreshHandleReadsWhole /\ []OneTreePerGeneration` |
| `KeptAfterOneFault` | FaultProofs | `FaultSpec /\ []OneFault => NoLostCommit /\ []FreshHandleReadsWhole` |
| `KeptWhileIntact` | FaultProofs | `FaultSpec /\ []Intact => NoLostCommit /\ []FreshHandleReadsWhole` |
| `MountHasAll` | PoolProofs | one handle: `Spec => []PoolExact` |
| `SurvivorsVouch` | PoolProofs | one handle: `Spec => []SuperblockVouches` |
| `AlwaysOneToMount` | PoolProofs | one handle: `Spec => []PoolStaysReadable` |
| `PoolLosesNoCommit` | PoolProofs | one handle: `Spec => NoLostCommit` |
| `NeverPart` | ImportProofs | `Spec => []Whole` |
| `LeftoversTold` | ImportProofs | `Spec => []StraysTold` |
| `ChangesOnlyAsked` | ImportProofs | `Spec => OnlyAsked` |
| `ItemsStayExact` | NamespaceProofs | `Spec => []NamesExact` |
| `ReadOnlyStays` | NamespaceProofs | `Spec => ReadOnlyUnchanged` |
| `CallsAreDirectories` | NamespaceProofs | `Spec => ImplementsDirectories`: Namespace implements Directories |
| `NothingLostAlways` | RaidProofs | `Spec => []NothingLost` |
| `CleanScrubVouchesAlways` | RaidProofs | `Spec => []CleanScrubVouches` |
| `RepairSoundAlways` | RaidProofs | `Spec => RepairSound` |

Each action has a lemma that it preserves the invariant; the theorems combine them.

**Commit without faults.** None of the first three is inductive: that a cut
leaves a whole tree depends on which copies are out and what was flushed. The
inductive invariant `IInv` (theorem `Invariant`) is the conjunction of

* `TypeOK`, and `Known`: everything names a transaction planned already;
* `CopiesOrdered`: every superblock that may survive is of the transaction kept,
  of the one in flight, or of an older generation, and one copy at least can
  only be of the first two; so whatever survives, the newest is one of them;
* `OneCommit`, `HandlesOrdered`: one handle at most is in a commit, and an open
  handle read the transaction kept or an older generation. With the stale check
  this makes every transaction the child of the one kept;
* `Solid(kept)`: on every mirror, each block of the kept tree is the only
  content that may survive at its place;
* `WorkSound`: the new tree takes only places the kept tree does not reach,
  what is not still to be written is written, and from the barrier on the new
  tree is solid as well;
* `CopiesOut`: which copies carry the transaction, by the state of the commit.

For the refinement, `KeptSurvives` (until the second flush the kept transaction
can still survive, and the new one cannot before the primary copy goes out) is
inductive under `IInv`; from both follows `View` (what a reader sees and what can
survive, by the state of the commit: the abstract store's two variables), and with
it the primary copy is the store's `Publish`, the second flush its `Settle`, a power
cut its `Cut`, and every other step a stutter.

**Commit with faults.** One generation names one tree whatever happens. Its
invariant `GInv` says why: a commit's transaction is of the generation after its
base's (`NextOfBase`), and once the superblock images are made no other
transaction that a reader may find is past the base (`NonePast`): what the stale
check read stays so, one commit running at a time.

The other two properties are false of arbitrary faults. Two faults, or a cut and a
fault, can leave the newest copy torn and a reader one generation back, over
blocks already reused; TLC shows each. They are proved under hypotheses on the
behaviour that say exactly what is needed: `Intact` (every copy verifies, so a
failed call never puts a reader back) or `OneFault` (no cut, one fault; this is
the whole of the run `commit_handles`). `HInv` adds to `GInv` that
no open handle is ahead of what a reader finds (`NoneAhead`), that what is under
way was planned on it (`OnTop`), that what is still to be written goes where its
base has nothing (`TodoFree`), and that a handle up to date reads every block;
under `OneFault` the strengthening `Uniform` says how the copies
stand until the first fault: those before the handle's are its own, the rest its
base's.

**Pool.** `PInv` has, for every superblock that may survive, that it counts the
devices of a transaction planned (`CountsExact`), that one generation is one
transaction (`OnePerGeneration`), and that it vouches truly. Of an open handle,
`OpenSound` says what its pool is, what its call has planned and written, and that
the pool is `AtRest` (one transaction on every device, all of it there, the rest
of the devices older) or has its superblocks going out (`SupersOut`). Of the
devices with no handle, `ClosedSound` says the pool is at one transaction or
*between* two, of which the newer has no device the older has not. It is the last
that gives `AlwaysOneToMount`: the device of the lowest id decides which of the
two a mount shows, and its count is that of the devices there. `OlderLack`, that
no set of devices is all of an older transaction, is what keeps a mount from
going further back. The invariant was checked by TLC on instances of up to three
devices before it was proved.

`OneHandle`, at most one handle, is a hypothesis and not an economy: a replace moves no
generation, so a second handle cannot tell that the device it reads was replaced and
wiped (see Known departures). The run has one handle for the same reason. Cuts
while a device is added are out of `Spec`; with them the promise is not kept
(`AdditionCutWhole`, Known departures).

**Import.** `IInv` says of each import what it is at (`ShapeOf`: what it staged has
a private name of its own, what it gathered is the next of the source), that its
staged file, *if the name is still there*, has what was written to it (`HeldOf`;
another program may take the name away at any time), that a mount that is not
stale shows the volume (`MountOf`), and what it left is told of (`ToldOf`). Of the
volume, and of the one a power cut may bring back, it says that names and inodes are
one tree, public names show whole files, and a private name is its inode's only
one (`Placed`): so nothing written to a staged file shows elsewhere until the
rename, and a rename of a current mount publishes exactly the source. Every action
of an import is shown to have an `Effect`: the other imports' staged files stay
(`Keeps`), the volume is made of the one there is and not of one since committed
past, and what changes is what was asked (`AskedOf`). From that both the invariant
(`EffectKeeps`) and `OnlyAsked` follow; other programs and the power have lemmas of
their own. What may be shown under a name is closed under links (`Shows`): a job
may link to a name that another job links to.

**Namespace.** `NamesExact` is inductive, with the generation a number and the
calls of a run of kinds there are (`NamesInv`), but it was not as first stated. Every
subvolume's entry in the top level has its ROOT_REF (a snapshot's copies of such
entries are in the snapshot): without that, a deletion, which finds the entry by its
name and the ROOT_REF by id and directory, could take one and not the other. Names had to be in directories, the top had to have none,
and a directory's one reference had to be an INODE_REF, which is where `is_within`
looks. The parts an edit disturbs are kept apart: NamespaceInvariant proves of the
smallest edits what they leave of a tree that is `Sound` (its records agree and
fit) and of its link counts, so a rename is proved as the code makes it,
three edits one on the other. Collisions
need no case of their own: `HashFits` and `ReferenceFits` say that what `add_entry`
counts before it files a record bounds the item that the record joins, whatever
hashes the same. `WithinIs` says that the INODE_REFs which `is_within` goes up by lead
where the entries do: so a directory that a rename lets move is not above its new
parent, and every directory is still below the top.

Each call is shown to be of one of four kinds (`StepMakes`): it writes one tree
through a handle that may (`Writes`), adds a subvolume and the entry of it
(`Adds`), takes one away (`Takes`), or leaves every live tree as it was (`Rests`).
`ReadOnlyUnchanged` follows from the kinds alone. The refinement adds what
Directories sees of each (`CreateSeen`, `LinkSeen`, ... `RestsSeen`): entries are
read through DIR_ITEMs, of which a name has one, so filing a record is a function
with one more value and dropping one a function with one less (`EntriesMore`,
`EntriesLess`); an inode without a name is one the call has freed, and the only
one (`KeptIs`).

**Raid.** `NothingLost` speaks of reads, and reads of stripes that may be missing, so
it is not what a step preserves. The inductive invariant `IInv` says what the places
hold: extents lie apart in the chunk (`ExtentsOK`), and the chunk is `Backed`. Of
mirrors that is that every copy not harmed, of a unit with a checksum, holds what was
written. Of parity it is that *some* contents `x` of all the units explain each full
stripe: `x` is what was written wherever there is a checksum, and every element off
the stripe's `harm` is what `x` comes to there. What `x` is elsewhere is left open, as a unit
that nothing names, or one without a checksum, may have been overwritten, cut off or
damaged, and went into the parity as it was; a repair or a write picks another `x`.
A read-modify-write takes its neighbours unverified, and the invariant is how that
is borne: either the neighbour is not wanted, or its harm becomes the stripe's.

From `Backed` to reads is algebra, done first: `SumOf` less its terms (`SumLess`,
`SumLessTwo`), and from it that `rebuild` gives back what was lost from P, from Q, and
from both (`RebuildsP`, `RebuildsQ`, `RebuildsPQ`, which needs two powers of the generator
to differ, and so no more data elements than the generator has powers). `Recovers`
says that with no more elements gone than there are parities, some attempt of
`read_attempts` computes the one wanted, and the checksum tells which. The sums are
recursive functions; what they come to is shown by induction over `0 .. k` as a set
of numbers (`UpTo`), which the provers do take. `CleanScrubVouches` adds that a scrub's
silence is agreement of every part with the data (`NothingFound`), and that with too
few parts left nothing decodes (`Refused`). `RepairSound` adds to a step of the repair
what is left to be found (`Finds`, `RepairHealsStep`) and what is still there
(`There`, `RepairKeepsStep`). There, parity computed again from data that was
just mended agrees with what was written even where the new data did not reach the
disk, since either the old parity still explains the stripe or the new one does
(`StripeKept`).

Two faults in the models were found by proofs that failed. `refuse_stale` with
no readable copy on the device refuses, which Commit's `Stale` had left open. And
a commit's `target` in Pool was not reset, so that a replace that power cut off
left one for the next commit to be taken for a replace.

Assumptions: `CommitAssumption` (the sets are coherent, at least one mirror,
one to three copies), `PoolAssumption` (devices, at least one of them a member,
ids for all members), and for Import `ImportAssumption` (no two processes share a
private name: they hold the process number) and `StartsAssumption` (an import
starts on one tree of names, on which, as in what is imported, no name is a private
one, and whose files are other programs'), and for Namespace `NamespaceAssumption`
(numbers are ordered, the top's inode and the top-level subvolume are the lowest
there may be, the sets of numbers are finite, `..` is no entry's name, a name has
a length) and `StartsAreExact` (a volume to start from is one whose items agree, and
the kinds asked for are file, directory and symlink), and for Raid `RaidAssumption`,
`FieldAssumption` (the sums are those of a commutative group in which every value is
its own opposite, products distribute over them, and the powers of the generator are
all values but zero, each once: true of the 256 values and the polynomial of
`raid56.rs`, and evaluated by TLC for the four of the run) and `LayoutsAssumption` (a
chunk has whole rows, at least one data column and, with parity, no more of them than
the generator has powers; extents lie apart in it; contents are values), nothing else.
How many files a process may stage, `Len(Partial[i])`, is any number.

Only model-checked: everything of the other modules, and Namespace's
`ReadersAgree`: a directory's size is a sum over its entries and a path is read by
recursion over its components, which are inductions over data. Commit's and Pool's
properties under more faults than the hypotheses admit are false, see Known
departures. Liveness (Send, LogReplay, Chunks) and what RECURSIVE operators and
folds compute are out of the prover's reach. Files rests on Writes, whose parts are
cut off by such an operator.

## 6. Not modelled

* Bytes: checksums are "verifies or not", a block's content is who wrote it;
  compression, hashing, encodings and their parsers; the framing of streams.
* The plan's closure over the records of its own moves: that it settles, or
  refuses, within its rounds. Trees and Files take the records as relations,
  Chunks the free-space records and counters of whole transactions; the blocks of
  the extent, root, free-space and checksum trees are in none.
* References filed as items of their own beside an EXTENT_ITEM, and limits on the
  length of a record.
* Seed devices, parity profiles of a pool, raid0 and dup as profiles of their own.
* The node cache: cleared by every commit, so a reader cannot tell it is there
  (Commit's `FreshHandleReadsWhole` covers reads of reused blocks).
* Of check, the superblock copies and the header of each tree block; of send, the
  parser and special files; of log replay, `logged_file` and hashed ranges, which
  are always refused.
* fs-verity, the C ABI, argument parsing and printing of the other commands, the
  error type: computation or conversion around the operations above.

The note of each component in PROJECT.json says what of it is left out.

## 7. Plan

1. Proofs: the lemmas on `BlockRule`, and that a change of an unshared tree keeps
   records exact; that every sector a file names has its reference. Send and
   LogReplay, whose promises rest on folds over sets, stay with TLC.
2. The closure of the plan: `apply_free_space`, `carve`, `block_group_deltas` and
   the fixed point over the volume's own trees, in a module Chunks can use.
3. Composition of LogReplay and Chunks with AtomicStore in place of their own
   account of a commit.
4. Check's superblock copies, against Commit's states.
