-------------------------------- MODULE Pool --------------------------------
(***************************************************************************)
(* The devices one filesystem spans (src/devices.rs, src/commit.rs and the *)
(* pool half of src/fs.rs): mounting a set of devices for writing, a       *)
(* commit over several devices, a device added, replaced and removed, with *)
(* power cut in between.                                                   *)
(*                                                                         *)
(* Commit.tla has the blocks and the superblock copies of one device; here *)
(* a device's copies are one area, read as the newest copy and whether     *)
(* that copy is the primary, and its blocks are the set of transactions    *)
(* every block of which, of those stored on that device, is there.         *)
(*                                                                         *)
(* Spec is every operation with power cut at any moment but while a device *)
(* is being added; JoinSpec cuts it there too; FaultSpec lets a wipe fail. *)
(* Seed devices are left out.                                              *)
(***************************************************************************)
EXTENDS Integers, FiniteSets

CONSTANTS
  Handle,     \* handles of the filesystem
  NDevices,   \* devices attached to the machine
  NMembers,   \* how many of them mkfs made the filesystem on
  MaxId,      \* bound: device ids handed out
  MaxTx,      \* bound: transactions planned after mkfs's
  MaxCuts,    \* bound: power cuts
  MaxFaults   \* bound: failed wipes

ASSUME PoolAssumption ==
  /\ NDevices \in Nat \ {0}
  /\ NMembers \in 1 .. NDevices
  /\ MaxId \in Nat /\ NMembers <= MaxId
  /\ MaxTx \in Nat /\ MaxCuts \in Nat /\ MaxFaults \in Nat

Device == 1 .. NDevices
Id     == 1 .. MaxId
Tx     == 0 .. MaxTx
None   == 0

\* A device's superblock area: the transaction and the device id of the newest
\* copy, the devices it counts, whether that copy is the primary.
Area  == [tx : Tx, id : Id \cup {None}, count : 0 .. NDevices, first : BOOLEAN]
Blank == [tx |-> 0, id |-> None, count |-> 0, first |-> FALSE]

VARIABLES
  area, areaCut,   \* [Device -> Area], and what a power cut may leave
  data, dataCut,   \* [Device -> SUBSET Tx], the same
  made, gen, parent,  \* transactions planned; their generations and parents
  ids, ext,        \* of each transaction: the device ids its chunk tree lists,
                   \* and those that hold a device extent
  state, sb, pool, \* of each handle: the superblock it read, the device of each id
  mine, joining, leaving, target,  \* the call it is in
  image, todo,     \* the superblocks of the commit, and those not yet written
  kept,            \* history: the transaction last acknowledged or mounted; after
                   \* a power cut, those that may be
  cuts, faults

device  == <<area, areaCut, data, dataCut>>
history == <<made, gen, parent, ids, ext>>
work    == <<mine, joining, leaving, target, image, todo>>
vars == <<device, history, state, sb, pool, work, kept, cuts, faults>>

Closed == "closed"
Idle   == "idle"
Blocks == "blocks"    \* a commit: planned, superblock images made
Placed == "placed"    \* its tree blocks out
Supers == "supers"    \* the barrier passed, superblocks going out
Copy   == "copy"      \* a replace: device extents being copied
Copied == "copied"    \* copied and flushed
Named  == "named"     \* the target's superblocks written
Wipe   == "wipe"      \* the device that left still has its superblocks
Wiped  == "wiped"     \* they are zeroed, not yet flushed
Reopen == "reopen"
Busy   == {Blocks, Placed, Supers, Copy, Copied, Named, Wipe, Wiped, Reopen}

-----------------------------------------------------------------------------
\* Reading.

Members(p) == {p[i] : i \in {j \in Id : p[j] # None}}
Lowest(p)  == CHOOSE i \in Id : p[i] # None /\ \A j \in Id : p[j] # None => i <= j

\* The devices of S by the id their superblocks in a claim; open_pool reads
\* through the device of the lowest.
ById(a, S) == [i \in Id |-> IF \E d \in S : a[d].id = i
                            THEN CHOOSE d \in S : a[d].id = i ELSE None]
ReadThrough(a, S) == LET p == ById(a, S) IN a[p[Lowest(p)]]

\* mount_pool: two devices of one id are refused, and a superblock that counts
\* several devices is held to its count.
Mountable(a, S) ==
  /\ S # {}
  /\ \A d \in S : a[d].id # None
  /\ \A d, e \in S : a[d].id = a[e].id => d = e
  /\ LET s == ReadThrough(a, S) IN s.count > 1 => Cardinality(S) = s.count

\* Mutant: members of different generations are mounted together.
AnyGeneration(S) ==
  /\ Mountable(area, S)
  /\ \A d \in S : area[d].first

\* mount_pool_rw also wants one generation, and every newest copy the primary.
MountableRw(S) ==
  /\ Mountable(area, S)
  /\ \A d \in S : area[d].first
  /\ \A d, e \in S : gen[area[d].tx] = gen[area[e].tx]

\* Every block of t is on the devices p has for it, c being what they hold.
Readable(t, p, c) == \A i \in ext[t] : p[i] # None /\ t \in c[p[i]]

\* refuse_stale, on the device the mount reads its superblock from.
Fresh(h) ==
  LET s == area[pool[h][Lowest(pool[h])]]
  IN  s.id # None /\ gen[s.tx] <= gen[sb[h].tx]

-----------------------------------------------------------------------------
\* Writing.

WriteArea(d, a, between) ==
  /\ area' = [area EXCEPT ![d] = a]
  /\ areaCut' = [areaCut EXCEPT ![d] = @ \cup {a} \cup between]

\* A superblock written copy by copy: one cut short can leave a mirror newest.
WriteSuper(d, a) == WriteArea(d, a, {[a EXCEPT !.first = FALSE]})

\* A wipe zeroes the primary first.
WipeArea(d) ==
  WriteArea(d, Blank, {[a EXCEPT !.first = FALSE] : a \in areaCut[d] \ {Blank}})

FlushDevices(S) ==
  /\ areaCut' = [d \in Device |-> IF d \in S THEN {area[d]} ELSE areaCut[d]]
  /\ dataCut' = [d \in Device |-> IF d \in S THEN {data[d]} ELSE dataCut[d]]
  /\ UNCHANGED <<area, data>>

\* New blocks overwrite what the base's parents alone had.
WriteBlocks(S, b, t) ==
  /\ data' = [d \in Device |->
        IF d \in S THEN (data[d] \cap {b}) \cup {t} ELSE data[d]]
  /\ dataCut' = [d \in Device |->
        IF d \in S THEN dataCut[d] \cup {data[d] \cap {b}, (data[d] \cap {b}) \cup {t}}
        ELSE dataCut[d]]
  /\ UNCHANGED <<area, areaCut>>

-----------------------------------------------------------------------------
Init ==
  LET base == [d \in Device |->
        IF d <= NMembers THEN [tx |-> 0, id |-> d, count |-> NMembers, first |-> TRUE]
        ELSE Blank]
  IN  /\ area = base
      /\ areaCut = [d \in Device |-> {base[d]}]
      /\ data = [d \in Device |-> IF d <= NMembers THEN {0} ELSE {}]
      /\ dataCut = [d \in Device |-> {data[d]}]
      /\ made = 0
      /\ gen = [t \in Tx |-> 1]
      /\ parent = [t \in Tx |-> 0]
      /\ ids = [t \in Tx |-> 1 .. NMembers]
      /\ ext = [t \in Tx |-> 1 .. NMembers]
      /\ state = [h \in Handle |-> Closed]
      /\ sb = [h \in Handle |-> Blank]
      /\ pool = [h \in Handle |-> [i \in Id |-> None]]
      /\ mine = [h \in Handle |-> 0]
      /\ joining = [h \in Handle |-> None]
      /\ leaving = [h \in Handle |-> None]
      /\ target = [h \in Handle |-> None]
      /\ image = [h \in Handle |-> base]
      /\ todo = [h \in Handle |-> {}]
      /\ kept = {0}
      /\ cuts = 0
      /\ faults = 0

\* The operator attaches any set of devices, but not one of two that claim the
\* same id while the other is there ("the old device should be wiped before
\* both are attached together").
Mount(h) ==
  /\ state[h] = Closed
  /\ \E S \in SUBSET Device :
       /\ MountableRw(S)
       /\ \A d \in S, e \in Device \ S : area[e].id # area[d].id
       /\ sb' = [sb EXCEPT ![h] = ReadThrough(area, S)]
       /\ pool' = [pool EXCEPT ![h] = ById(area, S)]
       /\ kept' = {ReadThrough(area, S).tx}
  /\ state' = [state EXCEPT ![h] = Idle]
  /\ UNCHANGED <<device, history, work, cuts, faults>>

Close(h) ==
  /\ state[h] = Idle
  /\ state' = [state EXCEPT ![h] = Closed]
  /\ UNCHANGED <<device, history, sb, pool, work, kept, cuts, faults>>

\* The operator wipes one of two devices that claim the same id, not the newer.
WipeDouble ==
  /\ \A h \in Handle : state[h] = Closed
  /\ \E d, e \in Device :
       /\ d # e /\ area[d].id # None /\ area[e].id = area[d].id
       /\ gen[area[d].tx] <= gen[area[e].tx]
       /\ area' = [area EXCEPT ![d] = Blank]
       /\ areaCut' = [areaCut EXCEPT ![d] = {Blank}]
  /\ UNCHANGED <<data, dataCut, history, state, sb, pool, work, kept, cuts, faults>>

\* The first of a set of the handle's devices, in the order of their ids.
FirstOf(h, S) ==
  LET i == CHOOSE i \in Id : pool[h][i] \in S /\ \A j \in Id : pool[h][j] \in S => i <= j
  IN  pool[h][i]

\* The members a commit writes superblocks to.
WrittenMembers(h, leave) == Members(pool[h]) \ {leave}

\* The plan and the head of commit_with: a transaction with these members and
\* extents, and the superblock image of each device it writes, made from the
\* device's own.  A device that joins gets the first member's with its own id.
Begin(h, members, extents, count, join, leave) ==
  LET t == made + 1
      b == sb[h].tx
      S == WrittenMembers(h, leave)
      ImageOf(d) == IF area[d].id = None THEN Blank
                    ELSE [tx |-> t, id |-> area[d].id, first |-> TRUE,
                          count |-> IF count = None THEN area[d].count ELSE count]
  IN  /\ state[h] = Idle
      /\ made < MaxTx
      /\ Fresh(h)
      /\ Readable(b, pool[h], data)
      /\ made' = t
      /\ gen' = [gen EXCEPT ![t] = gen[b] + 1]
      /\ parent' = [parent EXCEPT ![t] = b]
      /\ ids' = [ids EXCEPT ![t] = members]
      /\ ext' = [ext EXCEPT ![t] = extents]
      /\ mine' = [mine EXCEPT ![h] = t]
      /\ joining' = [joining EXCEPT ![h] = join]
      /\ leaving' = [leaving EXCEPT ![h] = leave]
      /\ target' = [target EXCEPT ![h] = None]
      /\ image' = [image EXCEPT ![h] = [d \in Device |->
           IF d \in S THEN ImageOf(d)
           ELSE IF d = join
           THEN [ImageOf(FirstOf(h, S)) EXCEPT !.id = CHOOSE i \in members \ ids[b] : TRUE]
           ELSE Blank]]
      /\ todo' = [todo EXCEPT ![h] = S \cup ({join} \ {None})]
      /\ state' = [state EXCEPT ![h] = Blocks]
      /\ UNCHANGED <<device, sb, pool, kept, cuts, faults>>

\* Any other transaction: one that allocates a chunk on a device, or moves the
\* last off one, changes which devices hold extents.
Write(h) ==
  LET b == sb[h].tx
      given == {i \in ids[b] : pool[h][i] # None}
  IN  \E e \in {ext[b]} \cup {ext[b] \cup {i} : i \in given} \cup {ext[b] \ {i} : i \in given} :
        e # {} /\ Begin(h, ids[b], e, None, None, None)

LastDevid(b) == CHOOSE i \in ids[b] : \A j \in ids[b] : j <= i

\* add_device: the device after the last, on a device with no superblock of
\* this filesystem.
AddDevice(h) ==
  LET b == sb[h].tx
      i == LastDevid(b) + 1
  IN  /\ i <= MaxId
      /\ \E d \in Device :
           /\ area[d].id = None
           /\ Begin(h, ids[b] \cup {i}, ext[b], sb[h].count + 1, d, None)

\* remove_device: a member that holds no extent, in a mount of every device
\* the superblock counts, which are several.
RemoveDevice(h) ==
  LET b == sb[h].tx
      n == Cardinality(Members(pool[h]))
  IN  /\ n > 1 /\ n = sb[h].count
      /\ \E i \in ids[b] \ ext[b] :
           /\ pool[h][i] # None
           /\ Begin(h, ids[b] \ {i}, ext[b], n - 1, None, pool[h][i])

\* Step 1: the blocks, to the devices of the extents.
PutBlocks(h) ==
  /\ state[h] = Blocks
  /\ WriteBlocks({pool[h][i] : i \in ext[mine[h]] \cup ext[sb[h].tx]}, sb[h].tx, mine[h])
  /\ state' = [state EXCEPT ![h] = Placed]
  /\ UNCHANGED <<history, sb, pool, work, kept, cuts, faults>>

\* Mutant: only the device the mount reads through is flushed.
FlushLowest(h) ==
  /\ state[h] = Placed
  /\ FlushDevices({pool[h][Lowest(pool[h])]})
  /\ state' = [state EXCEPT ![h] = Supers]
  /\ UNCHANGED <<history, sb, pool, work, kept, cuts, faults>>

\* Step 2: the barrier, on every device the mount writes.
Barrier(h) ==
  /\ state[h] = Placed
  /\ FlushDevices(Members(pool[h]))
  /\ state' = [state EXCEPT ![h] = Supers]
  /\ UNCHANGED <<history, sb, pool, work, kept, cuts, faults>>

\* Step 3: the superblocks, a device that joins first, then by id.
PutSuper(h) ==
  /\ state[h] = Supers
  /\ todo[h] # {}
  /\ LET d == IF joining[h] \in todo[h] THEN joining[h] ELSE FirstOf(h, todo[h])
     IN  /\ WriteSuper(d, image[h][d])
         /\ todo' = [todo EXCEPT ![h] = @ \ {d}]
  /\ UNCHANGED <<data, dataCut, history, state, sb, pool, mine, joining, leaving,
                 target, image, kept, cuts, faults>>

\* Mutant: the call answered without the second flush.
NoSecondFlush(h) ==
  /\ state[h] = Supers
  /\ todo[h] = {}
  /\ kept' = {mine[h]}
  /\ state' = [state EXCEPT ![h] = IF leaving[h] = None THEN Reopen ELSE Wipe]
  /\ UNCHANGED <<device, history, sb, pool, work, cuts, faults>>

\* Step 4: the commit point; a device that left is wiped next.
CommitPoint(h) ==
  /\ state[h] = Supers
  /\ todo[h] = {}
  /\ FlushDevices(WrittenMembers(h, leaving[h]) \cup ({joining[h]} \ {None}))
  /\ kept' = {mine[h]}
  /\ state' = [state EXCEPT ![h] = IF leaving[h] = None THEN Reopen ELSE Wipe]
  /\ UNCHANGED <<history, sb, pool, work, cuts, faults>>

-----------------------------------------------------------------------------
\* replace_device: no transaction, and the generation does not move.

BeginReplace(h) ==
  /\ state[h] = Idle
  /\ Fresh(h)
  /\ \E i \in Id, d \in Device :
       /\ pool[h][i] # None
       /\ area[d].id = None
       /\ LET source == area[pool[h][i]]
          IN  source.first /\ source.id = i /\ gen[source.tx] = gen[sb[h].tx]
       /\ leaving' = [leaving EXCEPT ![h] = pool[h][i]]
       /\ target' = [target EXCEPT ![h] = d]
  /\ joining' = [joining EXCEPT ![h] = None]
  /\ state' = [state EXCEPT ![h] = Copy]
  /\ UNCHANGED <<device, history, sb, pool, mine, image, todo, kept, cuts, faults>>

\* Mutant: the copies are not flushed before the superblock vouches for them.
CopyUnflushed(h) ==
  /\ state[h] = Copy
  /\ data' = [data EXCEPT ![target[h]] = data[leaving[h]]]
  /\ dataCut' = [dataCut EXCEPT ![target[h]] = {{}, data[leaving[h]]}]
  /\ state' = [state EXCEPT ![h] = Copied]
  /\ UNCHANGED <<area, areaCut, history, sb, pool, work, kept, cuts, faults>>

\* 1. Every device extent copied, and the new device flushed; nothing reads it
\* as a member in between.
CopyExtents(h) ==
  /\ state[h] = Copy
  /\ data' = [data EXCEPT ![target[h]] = data[leaving[h]]]
  /\ dataCut' = [dataCut EXCEPT ![target[h]] = {data[leaving[h]]}]
  /\ state' = [state EXCEPT ![h] = Copied]
  /\ UNCHANGED <<area, areaCut, history, sb, pool, work, kept, cuts, faults>>

\* 2. The old device's superblock on the new one, and a flush.
NameTarget(h) ==
  /\ state[h] = Copied
  /\ WriteSuper(target[h], area[leaving[h]])
  /\ state' = [state EXCEPT ![h] = Named]
  /\ UNCHANGED <<data, dataCut, history, sb, pool, work, kept, cuts, faults>>

FlushTarget(h) ==
  /\ state[h] = Named
  /\ FlushDevices({target[h]})
  /\ state' = [state EXCEPT ![h] = Wipe]
  /\ UNCHANGED <<history, sb, pool, work, kept, cuts, faults>>

\* wipe_superblocks, of the device that was removed or replaced.
WipeLeaving(h) ==
  /\ state[h] = Wipe
  /\ WipeArea(leaving[h])
  /\ state' = [state EXCEPT ![h] = Wiped]
  /\ UNCHANGED <<data, dataCut, history, sb, pool, work, kept, cuts, faults>>

FlushWiped(h) ==
  /\ state[h] = Wiped
  /\ FlushDevices({leaving[h]})
  /\ state' = [state EXCEPT ![h] = Reopen]
  /\ UNCHANGED <<history, sb, pool, work, kept, cuts, faults>>

\* The devices of the handle once the call is done.
AfterCall(h) ==
  (Members(pool[h]) \ {leaving[h]}) \cup ({joining[h], target[h]} \ {None})

\* *self = mount_pool_rw(members): on a refusal the handle stays on what it had.
Remount(h) ==
  /\ state[h] = Reopen
  /\ LET S == AfterCall(h)
     IN  IF MountableRw(S)
         THEN /\ sb' = [sb EXCEPT ![h] = ReadThrough(area, S)]
              /\ pool' = [pool EXCEPT ![h] = ById(area, S)]
         ELSE UNCHANGED <<sb, pool>>
  /\ joining' = [joining EXCEPT ![h] = None]
  /\ leaving' = [leaving EXCEPT ![h] = None]
  /\ target' = [target EXCEPT ![h] = None]
  /\ state' = [state EXCEPT ![h] = Idle]
  /\ UNCHANGED <<device, history, mine, image, todo, kept, cuts, faults>>

-----------------------------------------------------------------------------
\* The contents a cut may leave, of all devices.
Outcomes(cut) == {f \in [Device -> UNION {cut[d] : d \in Device}] :
                    \A d \in Device : f[d] \in cut[d]}

InFlight == {mine[h] : h \in {g \in Handle : state[g] = Supers}}

\* Power is lost to every device at once.
PowerCut ==
  /\ cuts < MaxCuts
  /\ cuts' = cuts + 1
  /\ \E a \in Outcomes(areaCut) :
       area' = a /\ areaCut' = [d \in Device |-> {a[d]}]
  /\ \E c \in Outcomes(dataCut) :
       data' = c /\ dataCut' = [d \in Device |-> {c[d]}]
  /\ kept' = kept \cup InFlight
  /\ state' = [h \in Handle |-> Closed]
  /\ UNCHANGED <<history, sb, pool, work, faults>>

Fault == faults < MaxFaults /\ faults' = faults + 1

\* The wipe fails, its device being the one that is failing: the call returns
\* the error and the handle stays as it was.
WipeFails(h) ==
  /\ Fault
  /\ state[h] = Wipe
  /\ state' = [state EXCEPT ![h] = Idle]
  /\ joining' = [joining EXCEPT ![h] = None]
  /\ leaving' = [leaving EXCEPT ![h] = None]
  /\ target' = [target EXCEPT ![h] = None]
  /\ UNCHANGED <<device, history, sb, pool, mine, image, todo, kept, cuts>>

-----------------------------------------------------------------------------
\* One call at a time, which the code leaves to its callers.
Alone(h) == \A o \in Handle \ {h} : state[o] \notin Busy

Call(h) == \/ Mount(h) \/ Close(h)
           \/ Write(h)
           \/ AddDevice(h)
           \/ RemoveDevice(h)
           \/ BeginReplace(h)

CallStep(h) == \/ PutBlocks(h)
               \/ Barrier(h)
               \/ PutSuper(h)
               \/ CommitPoint(h)
               \/ CopyExtents(h)
               \/ NameTarget(h)
               \/ FlushTarget(h)
               \/ WipeLeaving(h)
               \/ FlushWiped(h)
               \/ Remount(h)

Adding == \E h \in Handle : state[h] \in Busy /\ joining[h] # None

Step      == (\E h \in Handle : (Alone(h) /\ Call(h)) \/ CallStep(h)) \/ WipeDouble
Next      == Step \/ (~ Adding /\ PowerCut)
JoinNext  == Step \/ PowerCut
FaultNext == Next \/ \E h \in Handle : WipeFails(h)

Spec      == Init /\ [][Next]_vars
JoinSpec  == Init /\ [][JoinNext]_vars
FaultSpec == Init /\ [][FaultNext]_vars

-----------------------------------------------------------------------------
(* Types, and that what is read now is one of the contents a cut may leave. *)
TypeOK ==
  /\ area \in [Device -> Area] /\ areaCut \in [Device -> SUBSET Area]
  /\ data \in [Device -> SUBSET Tx] /\ dataCut \in [Device -> SUBSET SUBSET Tx]
  /\ \A d \in Device : area[d] \in areaCut[d] /\ data[d] \in dataCut[d]
  /\ made \in Tx /\ kept \subseteq Tx
  /\ gen \in [Tx -> Nat] /\ parent \in [Tx -> Tx]
  /\ ids \in [Tx -> SUBSET Id] /\ ext \in [Tx -> SUBSET Id]
  /\ state \in [Handle -> {Closed, Idle} \cup Busy]
  /\ sb \in [Handle -> Area]
  /\ pool \in [Handle -> [Id -> Device \cup {None}]]
  /\ mine \in [Handle -> Tx]
  /\ {joining, leaving, target} \subseteq [Handle -> Device \cup {None}]
  /\ image \in [Handle -> [Device -> Area]]
  /\ todo \in [Handle -> SUBSET Device]
  /\ cuts \in 0 .. MaxCuts /\ faults \in 0 .. MaxFaults

(* A mount that may write has the filesystem's devices, each at its id, and *)
(* every block of the transaction it read (mount_pool_rw, which refuses "an *)
(* incomplete set" and a device that "missed a commit the others saw").     *)
MountedIsPool ==
  \A h \in Handle : state[h] = Idle /\ Fresh(h) =>
    /\ {i \in Id : pool[h][i] # None} = ids[sb[h].tx]
    /\ Readable(sb[h].tx, pool[h], data)

(* What a mount has in hand, on every device and in every handle.           *)
PoolExact == TypeOK /\ MountedIsPool

(* A device whose superblock survives a cut has every block it vouches for: *)
(* the trees of the transaction it names, and after a replace the extents   *)
(* copied (devices.rs, "until its superblock is written, nothing reads the  *)
(* new device as a member").                                                *)
SuperblockVouches ==
  \A d \in Device : \A a \in areaCut[d] :
    a.id # None /\ a.id \in ext[a.tx] => \A c \in dataCut[d] : a.tx \in c

\* A set of devices that a mount accepts and that shows all of a transaction,
\* the one last acknowledged or the one that was being committed.
ShowsWhole(S) ==
  /\ Mountable(area, S)
  /\ ReadThrough(area, S).tx \in kept
  /\ Readable(ReadThrough(area, S).tx, ById(area, S), data)

(* With every handle closed, power cut within a write, a removal or a       *)
(* replacement or not at all, some set of the devices shows a whole         *)
(* transaction, old or new (commit.rs, whose barriers are on every device   *)
(* of the pool; devices.rs:65 of a replace, "the order is what makes it     *)
(* safe to cut anywhere").  Spec cuts no addition short: AdditionCutWhole.  *)
PoolStaysReadable ==
  (\A h \in Handle : state[h] = Closed) => \E S \in SUBSET Device : ShowsWhole(S)

(* The same of an addition that was cut short: "a commit cut between the    *)
(* two then leaves one of two whole filesystems", the members' or the one   *)
(* with the new device (devices.rs:31-36).  It is not so: JoinSpec.         *)
AdditionCutWhole ==
  (\A h \in Handle : state[h] = Closed) /\ (\E h \in Handle : joining[h] # None)
    => \E S \in SUBSET Device : ShowsWhole(S)

(* No commit is lost under another: a mount shows what was acknowledged, or *)
(* after a power cut what was in flight, and a commit is planned on that    *)
(* (refuse_stale, "put the older tree back and use a generation twice").    *)
NoLostCommit ==
  [][ cuts' = cuts => \A t \in kept' : t \in kept \/ parent'[t] \in kept ]_vars
=============================================================================
