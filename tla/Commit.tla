------------------------------- MODULE Commit -------------------------------
(***************************************************************************)
(* A commit of one device as src/commit.rs performs it: the tree blocks of *)
(* a transaction to every mirror, a flush, the superblock copies in        *)
(* address order, a second flush, and the handle opened again.  Several    *)
(* handles of one volume exist; a handle refuses to write once another has *)
(* committed past the superblock it read.                                  *)
(*                                                                         *)
(* The device has a volatile write cache.  For each place the model keeps  *)
(* what a read returns now and the set of contents a power cut may leave   *)
(* there: everything written since the last flush, and what that flush     *)
(* left.  A block can also be left torn.                                   *)
(*                                                                         *)
(* Spec is the program with power cuts, its callers taken to make one call *)
(* at a time.  FaultSpec adds failing device calls and killed processes,   *)
(* TornSpec superblock copies torn by a cut; RaceSpec is two handles used  *)
(* at once, and nothing else.                                              *)
(***************************************************************************)
EXTENDS Integers, FiniteSets

CONSTANTS
  Handle,      \* handles of the volume, in one process or several
  Addr,        \* nodesize-aligned places a tree block can be
  Used,        \* the places the tree made by mkfs occupies
  Mirror,      \* copies of a block: two in a DUP group, one in SINGLE
  NCopies,     \* superblock copies the device is large enough for (1..3)
  MaxTx,       \* bound: transactions planned after mkfs's
  MaxCuts,     \* bound: power cuts
  MaxFaults    \* bound: failed device calls and killed processes

ASSUME CommitAssumption ==
  /\ Used \subseteq Addr
  /\ Mirror # {}
  /\ NCopies \in 1 .. 3
  /\ MaxTx \in Nat
  /\ MaxCuts \in Nat
  /\ MaxFaults \in Nat

Tx    == 0 .. MaxTx        \* transaction 0 is mkfs's
Free  == -1                \* nothing this volume's trees name
Torn  == -2                \* a block half written: no checksum verifies it
Stamp == Tx \cup {Free, Torn}
Place == Addr \X Mirror
Copy  == 1 .. NCopies      \* SUPER_OFFSETS, the primary first
Primary == 1

\* A superblock: the transaction whose root it names, the transaction whose
\* chunk tree it names, and whether its checksum verifies.
Super == [tx : Tx, chunk : Tx, ok : BOOLEAN]

VARIABLES
  block, blockCut,   \* [Place -> Stamp], [Place -> SUBSET Stamp]
  super, superCut,   \* [Copy -> Super],  [Copy -> SUBSET Super]
  made,              \* transactions planned so far
  gen, tree, parent, chunk,  \* of each transaction: its generation, the
                     \* writer of the block at each place it reaches (Free
                     \* where it reaches none), the one it was planned on,
                     \* and the one that wrote the chunk tree it reads
  state, base, mine, image, todo, copy,  \* of each handle
  kept,              \* history: the transaction last acknowledged or recovered
  cuts, faults       \* counters of the bounds above

device   == <<block, blockCut, super, superCut>>
history  == <<made, gen, tree, parent, chunk>>
handles  == <<state, base, mine, image, todo, copy>>
vars == <<device, history, handles, kept, cuts, faults>>

Closed  == "closed"
Idle    == "idle"      \* open for writing, between calls
Planned == "planned"   \* new homes chosen, nothing written
Blocks  == "blocks"    \* superblock images made, tree blocks going out
Supers  == "supers"    \* the barrier passed, superblock copies going out
Reopen  == "reopen"    \* committed, the mount not yet opened again
InCommit == {Planned, Blocks, Supers, Reopen}

-----------------------------------------------------------------------------
\* Reading.

\* read_superblock: the valid copy of the newest generation, the lowest
\* numbered of equals.
IsChosen(s, c) ==
  /\ s[c].ok
  /\ \A d \in Copy : s[d].ok =>
        \/ gen[s[d].tx] < gen[s[c].tx]
        \/ gen[s[d].tx] = gen[s[c].tx] /\ c <= d

Readable(s) == \E c \in Copy : s[c].ok
Chosen(s) == CHOOSE c \in Copy : IsChosen(s, c)
ChosenTx(s) == s[Chosen(s)].tx

Reaches(t) == {a \in Addr : tree[t][a] # Free}

\* A block is read from the first mirror that verifies.
Whole(t) == \A a \in Reaches(t) : \E m \in Mirror : block[<<a, m>>] = tree[t][a]

\* Mutant: no handle is ever refused.
NeverStale(h) == FALSE

\* refuse_stale: the device's newest generation is past the handle's, or no
\* superblock copy verifies.
Stale(h) == Readable(super) => gen[ChosenTx(super)] > gen[base[h]]

-----------------------------------------------------------------------------
\* Writing: what a read returns now, and what a power cut may leave.

WriteBlock(p, t) ==
  /\ block' = [block EXCEPT ![p] = t]
  /\ blockCut' = [blockCut EXCEPT ![p] = @ \cup {t, Torn}]

WriteSuper(c, s) ==
  /\ super' = [super EXCEPT ![c] = s]
  /\ superCut' = [superCut EXCEPT ![c] = @ \cup {s}]

Flush ==
  /\ blockCut' = [p \in Place |-> {block[p]}]
  /\ superCut' = [c \in Copy |-> {super[c]}]
  /\ UNCHANGED <<block, super>>

-----------------------------------------------------------------------------
\* Planning.

\* Mutant: the generation the handle read, reused.
SameGeneration(h) == gen[base[h]]

NextGeneration(h) == gen[base[h]] + 1

\* Mutant: a place the plan itself releases is taken again.
AnyPlace(h) == Addr

\* Where the plan's new blocks can go: places no block of the committed trees
\* is in, those the plan releases not among them.
FreePlaces(h) == Addr \ Reaches(base[h])

-----------------------------------------------------------------------------
Init ==
  /\ block = [p \in Place |-> IF p[1] \in Used THEN 0 ELSE Free]
  /\ blockCut = [p \in Place |-> {block[p]}]
  /\ super = [c \in Copy |-> [tx |-> 0, chunk |-> 0, ok |-> TRUE]]
  /\ superCut = [c \in Copy |-> {super[c]}]
  /\ made = 0
  /\ gen = [t \in Tx |-> 1]
  /\ tree = [t \in Tx |-> [a \in Addr |-> IF a \in Used THEN 0 ELSE Free]]
  /\ parent = [t \in Tx |-> 0]
  /\ chunk = [t \in Tx |-> 0]
  /\ state = [h \in Handle |-> Closed]
  /\ base = [h \in Handle |-> 0]
  /\ mine = [h \in Handle |-> 0]
  /\ image = [h \in Handle |-> [tx |-> 0, chunk |-> 0, ok |-> TRUE]]
  /\ todo = [h \in Handle |-> {}]
  /\ copy = [h \in Handle |-> 1]
  /\ kept = 0
  /\ cuts = 0
  /\ faults = 0

\* mount_rw: refused unless the superblock chosen is the primary copy and the
\* trees it names can be read.
Mountable == /\ Readable(super)
             /\ Chosen(super) = Primary
             /\ Whole(ChosenTx(super))

Mount(h) ==
  /\ state[h] = Closed
  /\ Mountable
  /\ state' = [state EXCEPT ![h] = Idle]
  /\ base' = [base EXCEPT ![h] = ChosenTx(super)]
  /\ UNCHANGED <<device, history, mine, image, todo, copy, kept, cuts, faults>>

Close(h) ==
  /\ state[h] = Idle
  /\ state' = [state EXCEPT ![h] = Closed]
  /\ UNCHANGED <<device, history, base, mine, image, todo, copy, kept, cuts, faults>>

\* require_writable, then the plan: every block the change touches, its
\* ancestors and the root tree's path among them, gets a place no block of
\* the committed trees is in, and one released block at least is the root
\* tree's root.  A plan may move the chunk tree's root as well.
Plan(h) ==
  /\ state[h] = Idle
  /\ made < MaxTx
  /\ ~Stale(h)
  /\ Whole(base[h])
  /\ LET t    == made + 1
         old  == tree[base[h]]
         used == Reaches(base[h])
     IN  \E released \in SUBSET used, taken \in SUBSET FreePlaces(h) :
           /\ released # {} /\ taken # {}
           /\ made' = t
           /\ gen' = [gen EXCEPT ![t] = NextGeneration(h)]
           /\ tree' = [tree EXCEPT ![t] =
                [a \in Addr |-> IF a \in taken THEN t
                                ELSE IF a \in released THEN Free ELSE old[a]]]
           /\ parent' = [parent EXCEPT ![t] = base[h]]
           /\ \E c \in {t, chunk[base[h]]} : chunk' = [chunk EXCEPT ![t] = c]
           /\ mine' = [mine EXCEPT ![h] = t]
           /\ todo' = [todo EXCEPT ![h] = taken \X Mirror]
           /\ state' = [state EXCEPT ![h] = Planned]
  /\ UNCHANGED <<device, base, image, copy, kept, cuts, faults>>

\* The head of commit_with: the second stale check, then the superblock
\* images.  An image is the bytes at the primary offset, unverified, with the
\* commit applied and a fresh checksum; the chunk root is set only by a
\* transaction that moved it.
MakeImages(h) ==
  /\ state[h] = Planned
  /\ IF Stale(h)
       THEN /\ state' = [state EXCEPT ![h] = Idle]
            /\ UNCHANGED <<image, copy>>
       ELSE /\ image' = [image EXCEPT ![h] =
                 [tx |-> mine[h],
                  chunk |-> IF chunk[mine[h]] = mine[h] THEN mine[h]
                            ELSE super[Primary].chunk,
                  ok |-> TRUE]]
            /\ copy' = [copy EXCEPT ![h] = Primary]
            /\ state' = [state EXCEPT ![h] = Blocks]
  /\ UNCHANGED <<device, history, base, mine, todo, kept, cuts, faults>>

\* Step 1: one tree block to one of its mirrors.
PutBlock(h) ==
  /\ state[h] = Blocks
  /\ \E p \in todo[h] :
       /\ WriteBlock(p, mine[h])
       /\ todo' = [todo EXCEPT ![h] = @ \ {p}]
  /\ UNCHANGED <<super, superCut, history, state, base, mine, image, copy,
                 kept, cuts, faults>>

\* Mutant: no barrier between the blocks and the superblocks.
NoBarrier(h) ==
  /\ state[h] = Blocks
  /\ todo[h] = {}
  /\ state' = [state EXCEPT ![h] = Supers]
  /\ UNCHANGED <<device, history, base, mine, image, todo, copy, kept, cuts, faults>>

\* Step 2: the barrier, once every block is out.
Barrier(h) ==
  /\ state[h] = Blocks
  /\ todo[h] = {}
  /\ Flush
  /\ state' = [state EXCEPT ![h] = Supers]
  /\ UNCHANGED <<history, base, mine, image, todo, copy, kept, cuts, faults>>

\* Mutant: a copy past the last the device holds.
OneCopyTooMany(h) ==
  /\ state[h] = Supers
  /\ copy[h] <= NCopies + 1
  /\ WriteSuper(copy[h], image[h])
  /\ copy' = [copy EXCEPT ![h] = @ + 1]
  /\ UNCHANGED <<block, blockCut, history, state, base, mine, image, todo,
                 kept, cuts, faults>>

\* Step 3: the superblock copies, in address order.
PutSuper(h) ==
  /\ state[h] = Supers
  /\ copy[h] <= NCopies
  /\ WriteSuper(copy[h], image[h])
  /\ copy' = [copy EXCEPT ![h] = @ + 1]
  /\ UNCHANGED <<block, blockCut, history, state, base, mine, image, todo,
                 kept, cuts, faults>>

\* Mutant: the call answered without the second flush.
NoSecondFlush(h) ==
  /\ state[h] = Supers
  /\ copy[h] > NCopies
  /\ kept' = mine[h]
  /\ state' = [state EXCEPT ![h] = Reopen]
  /\ UNCHANGED <<device, history, base, mine, image, todo, copy, cuts, faults>>

\* Step 4: the second flush, the commit point; the call has its answer.
CommitPoint(h) ==
  /\ state[h] = Supers
  /\ copy[h] > NCopies
  /\ Flush
  /\ kept' = mine[h]
  /\ state' = [state EXCEPT ![h] = Reopen]
  /\ UNCHANGED <<history, base, mine, image, todo, copy, cuts, faults>>

\* remount_rw: the handle on the generation just written, or, when the mount
\* is refused, still on the one before it.
Remount(h) ==
  /\ state[h] = Reopen
  /\ base' = [base EXCEPT ![h] = IF Mountable THEN ChosenTx(super) ELSE @]
  /\ state' = [state EXCEPT ![h] = Idle]
  /\ UNCHANGED <<device, history, mine, image, todo, copy, kept, cuts, faults>>

-----------------------------------------------------------------------------
\* Power is lost: every place keeps one of the contents that may survive, and
\* no handle does.
Left(cut) ==
  LET unsure == {x \in DOMAIN cut : \E u, v \in cut[x] : u # v}
      picks  == {f \in [unsure -> UNION {cut[x] : x \in unsure}] :
                   \A x \in unsure : f[x] \in cut[x]}
  IN  {[x \in DOMAIN cut |->
          IF x \in unsure THEN f[x] ELSE CHOOSE v \in cut[x] : TRUE] : f \in picks}

Leave(b, s) ==
  /\ cuts < MaxCuts
  /\ cuts' = cuts + 1
  /\ block' = b
  /\ blockCut' = [p \in Place |-> {b[p]}]
  /\ super' = s
  /\ superCut' = [c \in Copy |-> {s[c]}]
  /\ kept' = IF Readable(s) THEN ChosenTx(s) ELSE kept
  /\ state' = [h \in Handle |-> Closed]
  /\ UNCHANGED <<history, base, mine, image, todo, copy, faults>>

PowerCut == \E b \in Left(blockCut), s \in Left(superCut) : Leave(b, s)

\* The same with one superblock copy, in flight, torn.
TornCut ==
  \E b \in Left(blockCut), s \in Left(superCut) : \E c \in Copy :
    /\ Cardinality(superCut[c]) > 1
    /\ Leave(b, [s EXCEPT ![c].ok = FALSE])

-----------------------------------------------------------------------------
\* Faults: the call returns the error and the handle stays as it was, or the
\* process is killed and the device's cache is not.

Fault == faults < MaxFaults /\ faults' = faults + 1

\* A device call of the commit fails.  A write may have reached the device
\* whole or in part all the same; a failed flush flushes nothing.
Fail(h) ==
  /\ Fault
  /\ state[h] \in {Blocks, Supers}
  /\ state' = [state EXCEPT ![h] = Idle]
  /\ \/ UNCHANGED device
     \/ /\ state[h] = Blocks
        /\ \E p \in todo[h] : WriteBlock(p, Torn)
        /\ UNCHANGED <<super, superCut>>
     \/ /\ state[h] = Supers
        /\ copy[h] <= NCopies
        /\ \E intact \in BOOLEAN : WriteSuper(copy[h], [image[h] EXCEPT !.ok = intact])
        /\ UNCHANGED <<block, blockCut>>
  /\ UNCHANGED <<history, base, mine, image, todo, copy, kept, cuts>>

Kill(h) ==
  /\ Fault
  /\ state[h] \in InCommit
  /\ state' = [state EXCEPT ![h] = Closed]
  /\ UNCHANGED <<device, history, base, mine, image, todo, copy, kept, cuts>>

-----------------------------------------------------------------------------
\* The two stale checks are reads, not a lock: a second commit must not start
\* between the first one's check and its superblocks.  Nothing in the code sees to
\* that: that no other call is while one handle is in a commit is an assumption on
\* the callers, of every specification here but RaceSpec.
Alone(h) == \A o \in Handle \ {h} : state[o] \notin InCommit

CommitStep(h) == \/ MakeImages(h)
                 \/ PutBlock(h)
                 \/ Barrier(h)
                 \/ PutSuper(h)
                 \/ CommitPoint(h)
                 \/ Remount(h)

Call(h) == Alone(h) /\ (Mount(h) \/ Close(h) \/ Plan(h))

Next      == (\E h \in Handle : Call(h) \/ CommitStep(h)) \/ PowerCut
FaultNext == Next \/ \E h \in Handle : Fail(h) \/ Kill(h)
TornNext  == Next \/ TornCut
RaceNext  == \E h \in Handle : Mount(h) \/ Close(h) \/ Plan(h) \/ CommitStep(h)

Spec      == Init /\ [][Next]_vars
FaultSpec == Init /\ [][FaultNext]_vars
TornSpec  == Init /\ [][TornNext]_vars
RaceSpec  == Init /\ [][RaceNext]_vars

-----------------------------------------------------------------------------
(* Types, and the coherence of what is read with what may survive: the      *)
(* content a read returns now is one a power cut may leave.                 *)
TypeOK ==
  /\ block \in [Place -> Stamp]
  /\ blockCut \in [Place -> SUBSET Stamp]
  /\ \A p \in Place : block[p] \in blockCut[p]
  /\ super \in [Copy -> Super]
  /\ superCut \in [Copy -> SUBSET Super]
  /\ \A c \in Copy : super[c] \in superCut[c]
  /\ made \in Tx
  /\ gen \in [Tx -> Nat]
  /\ tree \in [Tx -> [Addr -> Tx \cup {Free}]]
  /\ parent \in [Tx -> Tx]
  /\ chunk \in [Tx -> Tx]
  /\ state \in [Handle -> {Closed, Idle} \cup InCommit]
  /\ base \in [Handle -> Tx]
  /\ mine \in [Handle -> Tx]
  /\ image \in [Handle -> Super]
  /\ todo \in [Handle -> SUBSET Place]
  /\ copy \in [Handle -> 1 .. NCopies + 1]
  /\ kept \in Tx
  /\ cuts \in 0 .. MaxCuts
  /\ faults \in 0 .. MaxFaults

\* The superblocks a power cut now would leave, one for each outcome.
Outcomes == Left(superCut)

\* Whatever a power cut leaves of the places, each block of the tree is intact
\* in one mirror.
SurelyWhole(t) ==
  \A a \in Reaches(t) : \E m \in Mirror : blockCut[<<a, m>>] = {tree[t][a]}

(* Power may be lost at any moment, the cache writing back any part of what *)
(* is in it: the superblock a reader then chooses names a tree every block  *)
(* of which is there (commit.rs, "the ORDER it does that in is the          *)
(* crash-consistency").                                                     *)
CutLeavesWholeTree ==
  \A s \in Outcomes : Readable(s) /\ SurelyWhole(ChosenTx(s))

(* What a power cut leaves is exactly the transaction last acknowledged (or *)
(* last recovered) or exactly the one being committed                       *)
(* (tests/crash_consistency.rs, "EXACTLY the filesystem before the commit   *)
(* or EXACTLY the one after it").                                           *)
CutLeavesBeforeOrAfter ==
  \A s \in Outcomes : Readable(s) =>
     \/ ChosenTx(s) = kept
     \/ \E h \in Handle : state[h] = Supers /\ ChosenTx(s) = mine[h]

(* A generation names one transaction: no two superblock copies that may    *)
(* survive carry the same generation and different roots (refuse_stale, "use*)
(* a generation twice").  Not kept by handles that commit at once: RaceSpec.*)
OneTreePerGeneration ==
  \A c, d \in Copy : \A u \in superCut[c], v \in superCut[d] :
     u.ok /\ v.ok /\ gen[u.tx] = gen[v.tx] => u.tx = v.tx

(* No commit is lost under another: while power stays on, the volume goes   *)
(* from a transaction only to one planned on it (refuse_stale, "put the     *)
(* older tree back").                                                       *)
NoLostCommit ==
  [][ cuts' = cuts /\ Readable(super) /\ Readable(super')
        /\ ChosenTx(super)' # ChosenTx(super)
      => parent'[ChosenTx(super)'] = ChosenTx(super) ]_vars

(* A handle that is not stale reads a tree every block of which is there,   *)
(* whatever other handles, failed calls and killed processes left behind    *)
(* (require_writable: only a stale handle's blocks "may already be reused").*)
FreshHandleReadsWhole ==
  \A h \in Handle : state[h] \in {Idle, Planned} /\ ~Stale(h) => Whole(base[h])

(* The superblock a reader chooses is of one transaction: the chunk tree it *)
(* names is the one that transaction was planned with.  Not kept when calls *)
(* fail (README, Known departures).                                         *)
SuperblockOfOneCommit ==
  Readable(super) => super[Chosen(super)].chunk = chunk[ChosenTx(super)]

(* After a power cut, one superblock copy perhaps torn by it, a mount that   *)
(* is not refused shows the transaction before the commit or the one after  *)
(* it (tests/crash_consistency.rs, whose cuts include "the primary copy     *)
(* torn").  Not kept over two cuts (README, Known departures).              *)
RecoversBeforeOrAfter ==
  [][ cuts' # cuts /\ Readable(super') =>
        \/ ChosenTx(super)' = kept
        \/ \E h \in Handle : state[h] = Supers /\ ChosenTx(super)' = mine[h] ]_vars

-----------------------------------------------------------------------------
\* The abstract store this implements: a tree with a block missing is none of
\* its transactions.
Damaged == -1

Shown == IF Whole(ChosenTx(super)) THEN ChosenTx(super) ELSE Damaged

Survivors ==
  {IF SurelyWhole(ChosenTx(s)) THEN ChosenTx(s) ELSE Damaged : s \in Outcomes}

Store == INSTANCE AtomicStore WITH shown <- Shown, survivors <- Survivors

(* The whole protocol, with its mirrors, copies and flushes, shows a reader *)
(* one transaction at a time and replaces it in one step.                   *)
ImplementsStore == Store!Spec
=============================================================================
