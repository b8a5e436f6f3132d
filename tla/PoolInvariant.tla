--------------------------- MODULE PoolInvariant ----------------------------
(***************************************************************************)
(* Proofs about Pool with one handle: whatever the devices, the ids handed *)
(* out, the transactions and the power cuts, a device whose superblock     *)
(* survives has the blocks it vouches for, a mount that may write has the  *)
(* filesystem's devices and all of its transaction, no commit is lost, and *)
(* a mount of some set of devices always shows one that was acknowledged.  *)
(***************************************************************************)
EXTENDS Pool, FiniteSetTheorems, TLAPS

USE DEF Closed, Idle, Blocks, Placed, Supers, Copy, Copied, Named, Wipe, Wiped, Reopen, Busy

\* Two handles of one pool are the callers' to keep apart: a replace moves no
\* generation, so the other handle cannot tell it is on a wiped device.
OneHandle == \A g, h \in Handle : g = h

-----------------------------------------------------------------------------
\* What holds of every superblock that may survive, whoever wrote it.

History == 0 .. made

TxSound == \A t \in History : ids[t] # {} /\ ext[t] \subseteq ids[t]

\* It is of a transaction planned, one of its devices, and counts them.
CountsExact ==
  \A d \in Device : \A a \in areaCut[d] : a.id # None =>
    a.tx \in History /\ a.id \in ids[a.tx] /\ a.count = Cardinality(ids[a.tx])

OnePerGeneration ==
  \A d, e \in Device : \A a \in areaCut[d], b \in areaCut[e] :
    a.id # None /\ b.id # None /\ gen[a.tx] = gen[b.tx] => a.tx = b.tx

\* No set of devices is all of a transaction older than k.
OlderLack(k) ==
  \A t \in History : gen[t] < gen[k] =>
    \E i \in ids[t] : \A d \in Device : \A a \in areaCut[d] : ~ (a.id = i /\ a.tx = t)

-----------------------------------------------------------------------------
\* The devices of a transaction: q gives one for each of its ids.

IsPool(k, q) ==
  /\ q \in [Id -> Device \cup {None}]
  /\ \A i \in Id : q[i] # None <=> i \in ids[k]

\* The superblock of the device of id i, once k is committed.
SuperOf(k, i) == [tx |-> k, id |-> i, count |-> Cardinality(ids[k]), first |-> TRUE]

Full(k, q) == \A i \in ids[k] : areaCut[q[i]] = {SuperOf(k, i)}

\* Whatever survives, the blocks of k are there.
Holds(k, q) == \A i \in ext[k] : \A c \in dataCut[q[i]] : k \in c

Strays(k, D) ==
  \A d \in Device \ D : \A a \in areaCut[d] : a.id # None => gen[a.tx] < gen[k]

\* A pool on its way from b to t, which has no device b has not; or at b, some
\* device perhaps there twice.
Between(b, t, q) ==
  /\ b \in History /\ t \in History
  /\ IsPool(b, q)
  /\ ids[t] \subseteq ids[b]
  /\ t = b \/ gen[t] = gen[b] + 1
  /\ \A i \in ids[b] : \A a \in areaCut[q[i]] : a.id = i /\ a.tx \in {b, t}
  /\ Holds(b, q) /\ Holds(t, q)
  /\ \A d \in Device \ Members(q) : \A a \in areaCut[d] :
        a.id # None => gen[a.tx] < gen[b] \/ (t = b /\ a.tx = b)
  /\ OlderLack(b)

-----------------------------------------------------------------------------
\* A handle at work.

Finishing(h) == state[h] \in {Wipe, Wiped, Reopen}
Replacing(h) == state[h] \in {Copy, Copied, Named} \/ (Finishing(h) /\ target[h] # None)
Committing(h) == state[h] \in {Blocks, Placed, Supers} \/ (Finishing(h) /\ target[h] = None)

\* The pool the call leaves.
Committed(h) ==
  [i \in Id |-> IF i \notin ids[mine[h]] THEN None
                ELSE IF pool[h][i] # None THEN pool[h][i] ELSE joining[h]]
Replaced(h) ==
  [i \in Id |-> IF pool[h][i] # None /\ pool[h][i] = leaving[h] THEN target[h] ELSE pool[h][i]]

NowTx(h) == IF Finishing(h) /\ target[h] = None THEN mine[h] ELSE sb[h].tx
NowPool(h) == IF ~ Finishing(h) THEN pool[h]
              ELSE IF target[h] = None THEN Committed(h) ELSE Replaced(h)

PoolKnown(h) ==
  /\ sb[h].tx \in History
  /\ sb[h].count = Cardinality(ids[sb[h].tx])
  /\ IsPool(sb[h].tx, pool[h])
  /\ \A i, j \in ids[sb[h].tx] : pool[h][i] = pool[h][j] => i = j

\* The transaction a commit plans: the base's devices, one more or one fewer.
PlanSound(h) ==
  LET b == sb[h].tx
      t == mine[h]
  IN  /\ t \in History
      /\ gen[t] = gen[b] + 1 /\ parent[t] = b
      /\ ext[t] \subseteq ids[b]
      /\ target[h] = None
      /\ state[h] \in {Wipe, Wiped} => leaving[h] # None
      /\ \/ joining[h] = None /\ leaving[h] = None /\ ids[t] = ids[b]
         \/ /\ joining[h] = None
            /\ \E i \in ids[b] : leaving[h] = pool[h][i] /\ ids[t] = ids[b] \ {i}
         \/ /\ leaving[h] = None
            /\ joining[h] \in Device \ Members(pool[h])
            /\ \E i \in Id \ ids[b] : ids[t] = ids[b] \cup {i}

\* The superblocks a commit writes.
ImagesSound(h) ==
  LET t == mine[h]
      q == Committed(h)
  IN  /\ \A i \in ids[t] : image[h][q[i]] = SuperOf(t, i)
      /\ todo[h] \subseteq Members(q)
      /\ state[h] # Supers => todo[h] = Members(q)

ReplaceSound(h) ==
  /\ target[h] \in Device \ Members(pool[h])
  /\ joining[h] = None
  /\ \E i \in ids[sb[h].tx] : leaving[h] = pool[h][i]
  /\ state[h] \in {Copy, Copied} => \A a \in areaCut[target[h]] : a.id = None
  /\ state[h] \in {Copied, Named} =>
       \A i \in ext[sb[h].tx] : leaving[h] = pool[h][i] =>
         \A c \in dataCut[target[h]] : sb[h].tx \in c
  /\ state[h] = Named =>
       \A i \in ids[sb[h].tx] : leaving[h] = pool[h][i] =>
         area[target[h]] = SuperOf(sb[h].tx, i)

\* Superblocks going out.
SupersOut(h) ==
  LET b == sb[h].tx
      t == mine[h]
      q == Committed(h)
  IN  /\ kept = {b}
      /\ OlderLack(b)
      /\ \A i \in ids[b] : \A a \in areaCut[pool[h][i]] : a.id = i /\ a.tx \in {b, t}
      /\ \A i \in ids[t] :
           IF q[i] \in todo[h] THEN areaCut[q[i]] = {area[q[i]]}
           ELSE area[q[i]] = SuperOf(t, i)
      /\ Holds(b, pool[h]) /\ Holds(t, pool[h])
      /\ Strays(b, Members(pool[h]) \cup {joining[h]})
      /\ joining[h] # None => \A a \in areaCut[joining[h]] :
           a.id # None => a.tx = t \/ gen[a.tx] < gen[b]

\* One transaction on every device of the pool, and nothing else but strays and
\* the device a replace leaves or names.
AtRest(h) ==
  LET k == NowTx(h)
      q == NowPool(h)
      twin == IF state[h] = Named THEN {target[h]}
              ELSE IF Finishing(h) /\ target[h] # None THEN {leaving[h]} ELSE {}
  IN  /\ kept = {k}
      /\ OlderLack(k)
      /\ Full(k, q)
      /\ Holds(k, q)
      /\ Strays(k, Members(q) \cup twin)
      /\ \A d \in twin : \A a \in areaCut[d] : a.id # None => gen[a.tx] < gen[k] \/ a.tx = k
      /\ state[h] = Reopen => Strays(k, Members(q))

\* The devices with a superblock not yet flushed.
Unflushed(h) ==
  CASE state[h] = Supers -> Members(Committed(h)) \ todo[h]
    [] state[h] = Named -> {target[h]}
    [] state[h] = Wiped -> {leaving[h]}
    [] OTHER -> {}

OpenSound(h) ==
  /\ PoolKnown(h)
  /\ Committing(h) => PlanSound(h)
  /\ state[h] \in {Blocks, Placed, Supers} => ImagesSound(h)
  /\ Replacing(h) => ReplaceSound(h)
  /\ IF state[h] = Supers THEN SupersOut(h) ELSE AtRest(h)
  /\ state[h] = Wiped => area[leaving[h]].id = None
  /\ state[h] = Placed => \A i \in ext[mine[h]] : mine[h] \in data[pool[h][i]]
  /\ \A d \in Device \ Unflushed(h) : areaCut[d] = {area[d]}

ClosedSound ==
  /\ \E b, t \in kept : \E q \in [Id -> Device \cup {None}] : Between(b, t, q)
  /\ \A d \in Device : areaCut[d] = {area[d]}

PInv ==
  /\ TypeOK
  /\ TxSound
  /\ CountsExact
  /\ OnePerGeneration
  /\ SuperblockVouches
  /\ \A h \in Handle : state[h] # Closed => OpenSound(h)
  /\ (\A h \in Handle : state[h] = Closed) => ClosedSound

-----------------------------------------------------------------------------
\* Ids, devices and what is read from them.

(* Of any ids the least and the greatest exist.                             *)
LEMMA Extremes ==
  ASSUME PoolAssumption, NEW T \in SUBSET Id, T # {}
  PROVE  /\ \E m \in T : \A j \in T : m <= j
         /\ \E m \in T : \A j \in T : j <= m
<1>1. IsFiniteSet(Id) /\ Id \subseteq Int
  BY FS_Interval DEF Id, PoolAssumption
<1>2. SUBSET Id = FiniteSubsetsOf(Id)
  BY <1>1, FS_FiniteSubsetsOfFinite
<1>3. \A U : U \in SUBSET SUBSET Id /\ U # {} =>
         \E x \in U : \A y \in U : ~ (y \subseteq x /\ y # x)
  <2> SUFFICES ASSUME NEW U \in SUBSET SUBSET Id, U # {}
               PROVE  \E x \in U : \A y \in U : ~ (y \subseteq x /\ y # x)
    OBVIOUS
  <2>1. PICK x \in U : \A y \in U : ~ (<<y, x>> \in StrictSubsetOrdering(Id))
    BY <1>2, FS_StrictSubsetOrderingWellFounded, WFMin
  <2>2. ASSUME NEW y \in U, y \subseteq x, y # x PROVE FALSE
    <3>1. <<y, x>> \in (SUBSET Id) \X (SUBSET Id)
      OBVIOUS
    <3>2. <<y, x>> \in StrictSubsetOrdering(Id)
      BY <2>2, <3>1 DEF StrictSubsetOrdering
    <3>3. QED
      BY <2>1, <3>2
  <2>3. QED
    BY <2>2
<1>4. ASSUME NEW seg \in [T -> SUBSET Id]
      PROVE  \E m \in T : \A j \in T : ~ (seg[j] \subseteq seg[m] /\ seg[j] # seg[m])
  <2> DEFINE U == {seg[m] : m \in T}
  <2>1. U \in SUBSET SUBSET Id /\ U # {} /\ \A j \in T : seg[j] \in U
    OBVIOUS
  <2>2. \A x \in U : \E m \in T : x = seg[m]
    OBVIOUS
  <2> HIDE DEF U
  <2>3. PICK x \in U : \A y \in U : ~ (y \subseteq x /\ y # x)
    BY <1>3, <2>1
  <2>4. QED
    BY <2>1, <2>2, <2>3
<1>5. \E m \in T : \A j \in T : m <= j
  <2> DEFINE seg == [m \in T |-> {j \in T : j <= m}]
  <2>1. seg \in [T -> SUBSET Id] /\ \A m \in T : seg[m] = {j \in T : j <= m}
    OBVIOUS
  <2> HIDE DEF seg
  <2>2. PICK m \in T : \A j \in T : ~ (seg[j] \subseteq seg[m] /\ seg[j] # seg[m])
    BY <1>4, <2>1
  <2>3. ASSUME NEW j \in T, ~ (m <= j) PROVE FALSE
    <3>1. j \in Int /\ m \in Int /\ j < m
      BY <1>1, <2>3
    <3>2. \A i \in T : i \in Int
      BY <1>1
    <3>3. m \in seg[m] /\ m \notin seg[j]
      BY <2>1, <3>1
    <3>4. ASSUME NEW i \in seg[j] PROVE i \in seg[m]
      <4>1. i \in T /\ i \in Int
        BY <2>1, <3>2
      <4>2. QED
        BY <2>1, <3>1, <4>1
    <3>5. QED
      BY <2>2, <3>3, <3>4
  <2>4. QED
    BY <2>3
<1>6. \E m \in T : \A j \in T : j <= m
  <2> DEFINE seg == [m \in T |-> {j \in T : m <= j}]
  <2>1. seg \in [T -> SUBSET Id] /\ \A m \in T : seg[m] = {j \in T : m <= j}
    OBVIOUS
  <2> HIDE DEF seg
  <2>2. PICK m \in T : \A j \in T : ~ (seg[j] \subseteq seg[m] /\ seg[j] # seg[m])
    BY <1>4, <2>1
  <2>3. ASSUME NEW j \in T, ~ (j <= m) PROVE FALSE
    <3>1. j \in Int /\ m \in Int /\ m < j
      BY <1>1, <2>3
    <3>2. \A i \in T : i \in Int
      BY <1>1
    <3>3. m \in seg[m] /\ m \notin seg[j]
      BY <2>1, <3>1
    <3>4. ASSUME NEW i \in seg[j] PROVE i \in seg[m]
      <4>1. i \in T /\ i \in Int
        BY <2>1, <3>2
      <4>2. QED
        BY <2>1, <3>1, <4>1
    <3>5. QED
      BY <2>2, <3>3, <3>4
  <2>4. QED
    BY <2>3
<1>7. QED
  BY <1>5, <1>6

(* Devices read by the id they claim are the pool they are the devices of.  *)
LEMMA PoolById ==
  ASSUME PoolAssumption, NEW k, ids[k] \subseteq Id, ids[k] # {}, NEW q, IsPool(k, q),
         NEW a, \A i \in ids[k] : a[q[i]].id = i
  PROVE  /\ Members(q) \subseteq Device /\ Members(q) # {}
         /\ Members(q) = {q[i] : i \in ids[k]}
         /\ \A d \in Members(q) : a[d].id \in ids[k] /\ q[a[d].id] = d
         /\ ById(a, Members(q)) = q
         /\ Lowest(q) \in ids[k] /\ \A j \in ids[k] : Lowest(q) <= j
         /\ ReadThrough(a, Members(q)) = a[q[Lowest(q)]]
         /\ Cardinality(Members(q)) = Cardinality(ids[k])
<1>1. Members(q) = {q[i] : i \in ids[k]}
  BY DEF Members, IsPool
<1>2. \A i \in ids[k] : q[i] \in Device
  BY DEF IsPool
<1>3. \A d \in Members(q) : a[d].id \in ids[k] /\ q[a[d].id] = d
  BY <1>1
<1>4. ById(a, Members(q)) = q
  <2>1. \A i \in Id : (IF \E d \in Members(q) : a[d].id = i
                       THEN CHOOSE d \in Members(q) : a[d].id = i ELSE None) = q[i]
    <3> SUFFICES ASSUME NEW i \in Id
                 PROVE  (IF \E d \in Members(q) : a[d].id = i
                         THEN CHOOSE d \in Members(q) : a[d].id = i ELSE None) = q[i]
      OBVIOUS
    <3>1. CASE i \in ids[k]
      <4>1. q[i] \in Members(q) /\ a[q[i]].id = i
        BY <1>1, <3>1
      <4>2. \A d \in Members(q) : a[d].id = i => d = q[i]
        BY <1>3
      <4>3. QED
        BY <4>1, <4>2
    <3>2. CASE i \notin ids[k]
      <4>1. q[i] = None
        BY <3>2 DEF IsPool
      <4>2. ~ \E d \in Members(q) : a[d].id = i
        BY <1>3, <3>2
      <4>3. QED
        BY <4>1, <4>2
    <3>3. QED
      BY <3>1, <3>2
  <2>2. q = [i \in Id |-> q[i]]
    BY DEF IsPool
  <2>3. QED
    BY <2>1, <2>2 DEF ById
<1>5. Lowest(q) \in ids[k] /\ \A j \in ids[k] : Lowest(q) <= j
  <2>1. PICK m \in ids[k] : \A j \in ids[k] : m <= j
    BY Extremes
  <2>2. m \in Id /\ q[m] # None /\ \A j \in Id : q[j] # None => m <= j
    BY <2>1 DEF IsPool
  <2>3. /\ Lowest(q) \in Id /\ q[Lowest(q)] # None
        /\ \A j \in Id : q[j] # None => Lowest(q) <= j
    BY <2>2 DEF Lowest
  <2>4. QED
    BY <2>3 DEF IsPool
<1>6. Cardinality(Members(q)) = Cardinality(ids[k])
  <2>1. IsFiniteSet(ids[k])
    <3>1. IsFiniteSet(Id)
      BY FS_Interval DEF Id, PoolAssumption
    <3>2. QED
      BY <3>1, FS_Subset
  <2> DEFINE f == [i \in ids[k] |-> q[i]]
  <2>2. f \in Bijection(ids[k], Members(q))
    <3>1. f \in [ids[k] -> Members(q)]
      BY <1>1
    <3>2. \A i, j \in ids[k] : f[i] = f[j] => i = j
      BY <1>3
    <3>3. \A d \in Members(q) : \E i \in ids[k] : f[i] = d
      BY <1>1
    <3>4. QED
      BY <3>1, <3>2, <3>3 DEF Bijection, Injection, Surjection, IsInjective
  <2>3. QED
    BY <2>1, <2>2, FS_Bijection DEF ExistsBijection
<1>7. Members(q) \subseteq Device /\ Members(q) # {}
  BY <1>1, <1>2
<1>8. ReadThrough(a, Members(q)) = a[q[Lowest(q)]]
  BY <1>4 DEF ReadThrough
<1>9. QED
  BY <1>1, <1>3, <1>4, <1>5, <1>6, <1>7, <1>8

(* What a committed superblock says.                                        *)
LEMMA SuperOfIs ==
  ASSUME NEW k, NEW i
  PROVE  /\ SuperOf(k, i).tx = k /\ SuperOf(k, i).id = i /\ SuperOf(k, i).first
         /\ SuperOf(k, i).count = Cardinality(ids[k])
BY DEF SuperOf

(* A pool of one transaction, every newest copy the primary, may be mounted *)
(* for writing.                                                             *)
LEMMA FullMountable ==
  ASSUME PoolAssumption, NEW k, ids[k] \subseteq Id, ids[k] # {}, NEW q, IsPool(k, q),
         \A i \in ids[k] : area[q[i]] = SuperOf(k, i)
  PROVE  /\ MountableRw(Members(q))
         /\ ById(area, Members(q)) = q
         /\ ReadThrough(area, Members(q)).tx = k
         /\ ReadThrough(area, Members(q)).id # None
         /\ ReadThrough(area, Members(q)).count = Cardinality(ids[k])
         /\ ReadThrough(area, Members(q)) = area[q[Lowest(q)]]
<1>1. \A i \in ids[k] : /\ area[q[i]].id = i /\ area[q[i]].tx = k /\ area[q[i]].first
                        /\ area[q[i]].count = Cardinality(ids[k])
  BY SuperOfIs
<1>2. /\ Members(q) # {}
      /\ \A d \in Members(q) : area[d].id \in ids[k] /\ q[area[d].id] = d
      /\ ById(area, Members(q)) = q
      /\ Lowest(q) \in ids[k]
      /\ ReadThrough(area, Members(q)) = area[q[Lowest(q)]]
      /\ Cardinality(Members(q)) = Cardinality(ids[k])
  BY <1>1, PoolById
<1>3. \A i \in Id : i # None
  BY DEF Id, None
<1>4. \A d \in Members(q) : area[d].tx = k /\ area[d].first /\ area[d].id # None
  BY <1>1, <1>2, <1>3
<1>5. /\ ReadThrough(area, Members(q)).tx = k
      /\ ReadThrough(area, Members(q)).count = Cardinality(ids[k])
      /\ ReadThrough(area, Members(q)).id # None
  BY <1>1, <1>2, <1>3
<1>6. Mountable(area, Members(q))
  BY <1>2, <1>4, <1>5 DEF Mountable
<1>7. QED
  BY <1>2, <1>4, <1>5, <1>6 DEF MountableRw

-----------------------------------------------------------------------------
\* Types.

(* Ids and devices start at one.                                            *)
LEMMA Numbers ==
  ASSUME PoolAssumption
  PROVE  /\ None \notin Device /\ None \notin Id
         /\ Device \subseteq Nat /\ Id \subseteq Nat /\ Tx \subseteq Nat
         /\ Blank \in Area /\ Blank.id = None
         /\ IsFiniteSet(Id) /\ IsFiniteSet(Device) /\ Cardinality(Device) = NDevices
<1>1. IsFiniteSet(Id) /\ IsFiniteSet(Device) /\ Cardinality(Device) = NDevices
  BY FS_Interval DEF Id, Device, PoolAssumption
<1>2. QED
  BY <1>1 DEF PoolAssumption, Device, Id, Tx, None, Blank, Area

(* What a handle and a device are.                                          *)
LEMMA Types ==
  ASSUME TypeOK, NEW h \in Handle
  PROVE  /\ \A d \in Device : /\ area[d] \in Area /\ area[d] \in areaCut[d]
                              /\ areaCut[d] \subseteq Area
                              /\ data[d] \in SUBSET Tx /\ data[d] \in dataCut[d]
                              /\ dataCut[d] \subseteq SUBSET Tx
         /\ sb[h] \in Area /\ pool[h] \in [Id -> Device \cup {None}] /\ mine[h] \in Tx
         /\ {joining[h], leaving[h], target[h]} \subseteq Device \cup {None}
         /\ image[h] \in [Device -> Area] /\ todo[h] \subseteq Device
BY DEF TypeOK

(* What a superblock area holds.                                            *)
LEMMA AreaIs ==
  ASSUME NEW a \in Area
  PROVE  /\ a.tx \in Tx /\ a.id \in Id \cup {None} /\ a.count \in 0 .. NDevices
         /\ a.first \in BOOLEAN
         /\ a = [tx |-> a.tx, id |-> a.id, count |-> a.count, first |-> a.first]
BY DEF Area

-----------------------------------------------------------------------------
\* A step that adds no superblock and no content but those that were there.

Echo ==
  /\ UNCHANGED history
  /\ \A d \in Device : \A a \in areaCut'[d] : a.id # None =>
       \E o \in areaCut[d] : o.tx = a.tx /\ o.id = a.id /\ o.count = a.count
  /\ \A d \in Device : dataCut'[d] \subseteq dataCut[d]

(* Such a step keeps what holds of every superblock that may survive.       *)
LEMMA EchoKeeps ==
  ASSUME Echo
  PROVE  /\ TxSound => TxSound'
         /\ CountsExact => CountsExact'
         /\ OnePerGeneration => OnePerGeneration'
         /\ SuperblockVouches => SuperblockVouches'
<1>1. made' = made /\ gen' = gen /\ ids' = ids /\ ext' = ext
  BY DEF Echo, history
<1>2. TxSound => TxSound'
  BY <1>1 DEF TxSound, History
<1>3. CountsExact => CountsExact'
  BY <1>1 DEF CountsExact, History, Echo
<1>4. ASSUME OnePerGeneration PROVE OnePerGeneration'
  <2> SUFFICES ASSUME NEW d \in Device, NEW e \in Device,
                      NEW a \in areaCut'[d], NEW c \in areaCut'[e],
                      a.id # None, c.id # None, gen[a.tx] = gen[c.tx]
               PROVE  a.tx = c.tx
    BY <1>1 DEF OnePerGeneration
  <2>1. PICK o \in areaCut[d] : o.tx = a.tx /\ o.id = a.id
    BY DEF Echo
  <2>2. PICK u \in areaCut[e] : u.tx = c.tx /\ u.id = c.id
    BY DEF Echo
  <2>3. QED
    BY <1>4, <2>1, <2>2 DEF OnePerGeneration
<1>5. ASSUME SuperblockVouches PROVE SuperblockVouches'
  <2> SUFFICES ASSUME NEW d \in Device, NEW a \in areaCut'[d],
                      a.id # None, a.id \in ext[a.tx], NEW c \in dataCut'[d]
               PROVE  a.tx \in c
    BY <1>1 DEF SuperblockVouches
  <2>1. PICK o \in areaCut[d] : o.tx = a.tx /\ o.id = a.id
    BY DEF Echo
  <2>2. c \in dataCut[d]
    BY DEF Echo
  <2>3. QED
    BY <1>5, <2>1, <2>2 DEF SuperblockVouches
<1>6. QED
  BY <1>2, <1>3, <1>4, <1>5

(* And what they say of one transaction and its pool.                       *)
LEMMA EchoKeepsPool ==
  ASSUME Echo, PoolAssumption, TypeOK, NEW k, NEW q
  PROVE  /\ IsPool(k, q)' <=> IsPool(k, q)
         /\ SuperOf(k, q)' = SuperOf(k, q)
         /\ OlderLack(k) => OlderLack(k)'
         /\ IsPool(k, q) /\ ids[k] \subseteq Id /\ ext[k] \subseteq ids[k] =>
              (Holds(k, q) => Holds(k, q)')
         /\ Strays(k, q) => Strays(k, q)'
<1>1. made' = made /\ gen' = gen /\ ids' = ids /\ ext' = ext
  BY DEF Echo, history
<1>2. (IsPool(k, q)' <=> IsPool(k, q)) /\ SuperOf(k, q)' = SuperOf(k, q)
  BY <1>1 DEF IsPool, SuperOf
<1>3. ASSUME OlderLack(k) PROVE OlderLack(k)'
  <2> SUFFICES ASSUME NEW x \in History, gen[x] < gen[k]
               PROVE  \E i \in ids[x] : \A d \in Device : \A a \in areaCut'[d] :
                        ~ (a.id = i /\ a.tx = x)
    BY <1>1 DEF OlderLack, History
  <2>1. PICK i \in ids[x] : \A d \in Device : \A a \in areaCut[d] : ~ (a.id = i /\ a.tx = x)
    BY <1>3 DEF OlderLack
  <2>2. i # None
    BY Numbers DEF TypeOK, History, Tx
  <2>3. QED
    BY <2>1, <2>2 DEF Echo
<1>4. ASSUME IsPool(k, q), ids[k] \subseteq Id, ext[k] \subseteq ids[k], Holds(k, q)
      PROVE  Holds(k, q)'
  <2>1. \A i \in ext[k] : q[i] \in Device
    BY <1>4 DEF IsPool
  <2>2. QED
    BY <1>1, <1>4, <2>1 DEF Holds, Echo
<1>5. ASSUME Strays(k, q) PROVE Strays(k, q)'
  BY <1>1, <1>5 DEF Strays, Echo
<1>6. QED
  BY <1>2, <1>3, <1>4, <1>5

-----------------------------------------------------------------------------
\* The pool a call leaves.

(* What a handle knows of its pool.                                         *)
LEMMA PoolKnownIs ==
  ASSUME PoolAssumption, TypeOK, TxSound, NEW h \in Handle, PoolKnown(h)
  PROVE  /\ sb[h].tx \in History /\ sb[h].tx \in Tx
         /\ ids[sb[h].tx] # {} /\ ids[sb[h].tx] \subseteq Id
         /\ ext[sb[h].tx] \subseteq ids[sb[h].tx]
         /\ \A i \in ids[sb[h].tx] : pool[h][i] \in Members(pool[h]) /\ pool[h][i] # None
         /\ Members(pool[h]) = {pool[h][i] : i \in ids[sb[h].tx]}
         /\ Members(pool[h]) \subseteq Device /\ None \notin Members(pool[h])
         /\ \A i \in Id : pool[h][i] # None <=> i \in ids[sb[h].tx]
<1>1. History \subseteq Tx
  BY Numbers DEF TypeOK, History, Tx
<1>2. sb[h].tx \in History /\ sb[h].tx \in Tx
  BY <1>1 DEF PoolKnown
<1>3. /\ ids[sb[h].tx] # {} /\ ids[sb[h].tx] \subseteq Id
      /\ ext[sb[h].tx] \subseteq ids[sb[h].tx]
  BY <1>2 DEF TypeOK, TxSound
<1>4. \A i \in Id : pool[h][i] # None <=> i \in ids[sb[h].tx]
  BY DEF PoolKnown, IsPool
<1>5. Members(pool[h]) = {pool[h][i] : i \in ids[sb[h].tx]}
  BY <1>3, <1>4 DEF Members
<1>6. pool[h] \in [Id -> Device \cup {None}]
  BY Types
<1>7. QED
  BY <1>2, <1>3, <1>4, <1>5, <1>6, Numbers

(* The pool of a commit: the base's devices, less the one that leaves and   *)
(* with the one that joins.                                                 *)
LEMMA CommittedIs ==
  ASSUME PoolAssumption, TypeOK, TxSound, NEW h \in Handle, PoolKnown(h), PlanSound(h)
  PROVE  /\ mine[h] \in Tx /\ ids[mine[h]] # {} /\ ids[mine[h]] \subseteq Id
         /\ ext[mine[h]] \subseteq ids[mine[h]]
         /\ IsPool(mine[h], Committed(h))
         /\ \A i \in ids[mine[h]] \cap ids[sb[h].tx] : Committed(h)[i] = pool[h][i]
         /\ \A i \in ids[mine[h]] \ ids[sb[h].tx] :
              Committed(h)[i] = joining[h] /\ joining[h] \in Device \ Members(pool[h])
         /\ \A i \in ids[sb[h].tx] \ ids[mine[h]] : leaving[h] = pool[h][i]
         /\ Members(Committed(h)) = WrittenMembers(h, leaving[h]) \cup ({joining[h]} \ {None})
         /\ \A i, j \in ids[mine[h]] : Committed(h)[i] = Committed(h)[j] => i = j
         /\ leaving[h] # None => leaving[h] \in Members(pool[h]) \ Members(Committed(h))
         /\ joining[h] # None => joining[h] \in Device \ Members(pool[h])
         /\ leaving[h] = None => ids[sb[h].tx] \subseteq ids[mine[h]]
         /\ joining[h] = None => ids[mine[h]] \subseteq ids[sb[h].tx]
         /\ ids[mine[h]] \cap ids[sb[h].tx] # {}
<1> DEFINE b == sb[h].tx
           t == mine[h]
           p == pool[h]
           q == Committed(h)
<1>1. History \subseteq Tx
  BY Numbers DEF TypeOK, History, Tx
<1>2. t \in Tx /\ t \in History
  BY <1>1 DEF PlanSound
<1>3. ids[t] # {} /\ ids[t] \subseteq Id /\ ext[t] \subseteq ids[t]
  BY <1>2 DEF TypeOK, TxSound
<1>4. /\ ids[b] # {} /\ ids[b] \subseteq Id
      /\ \A i \in ids[b] : p[i] \in Members(p) /\ p[i] # None
      /\ Members(p) = {p[i] : i \in ids[b]}
      /\ Members(p) \subseteq Device /\ None \notin Members(p)
      /\ \A i \in Id : p[i] # None <=> i \in ids[b]
  BY PoolKnownIs
<1>5. \A i, j \in ids[b] : p[i] = p[j] => i = j
  BY DEF PoolKnown
<1>6. \/ joining[h] = None /\ leaving[h] = None /\ ids[t] = ids[b]
      \/ /\ joining[h] = None
         /\ \E i \in ids[b] : leaving[h] = p[i] /\ ids[t] = ids[b] \ {i}
      \/ /\ leaving[h] = None
         /\ joining[h] \in Device \ Members(p)
         /\ \E i \in Id \ ids[b] : ids[t] = ids[b] \cup {i}
  BY DEF PlanSound
<1>7. \A i \in Id : q[i] = IF i \notin ids[t] THEN None
                           ELSE IF p[i] # None THEN p[i] ELSE joining[h]
  BY DEF Committed
<1>8. \A i \in ids[t] \cap ids[b] : q[i] = p[i]
  BY <1>4, <1>7
<1>9. \A i \in ids[t] \ ids[b] : q[i] = joining[h] /\ joining[h] \in Device \ Members(p)
  BY <1>3, <1>4, <1>6, <1>7
<1>10. \A i \in ids[b] \ ids[t] : leaving[h] = p[i]
  BY <1>6
<1>11. None \notin Device
  BY Numbers
<1>12. IsPool(t, q)
  <2>1. \A i \in Id : q[i] \in Device \cup {None}
    BY <1>3, <1>4, <1>7, <1>8, <1>9
  <2>2. q = [i \in Id |-> q[i]]
    BY DEF Committed
  <2>3. \A i \in Id : q[i] # None <=> i \in ids[t]
    BY <1>3, <1>4, <1>7, <1>8, <1>9, <1>11
  <2> HIDE DEF q
  <2>4. QED
    BY <2>1, <2>2, <2>3 DEF IsPool
<1>13. Members(q) = {q[i] : i \in ids[t]}
  BY <1>3, <1>12 DEF Members, IsPool
<1>14. \A i, j \in ids[t] : q[i] = q[j] => i = j
  <2> SUFFICES ASSUME NEW i \in ids[t], NEW j \in ids[t], q[i] = q[j] PROVE i = j
    OBVIOUS
  <2> HIDE DEF q, p, b, t
  <2>1. CASE i \in ids[b] /\ j \in ids[b]
    BY <2>1, <1>5, <1>8
  <2>2. CASE i \notin ids[b] /\ j \notin ids[b]
    BY <2>2, <1>6
  <2>3. CASE i \in ids[b] /\ j \notin ids[b]
    BY <2>3, <1>4, <1>8, <1>9
  <2>4. CASE i \notin ids[b] /\ j \in ids[b]
    BY <2>4, <1>4, <1>8, <1>9
  <2>5. QED
    BY <2>1, <2>2, <2>3, <2>4
<1>15. Members(q) = (Members(p) \ {leaving[h]}) \cup ({joining[h]} \ {None})
  <2> HIDE DEF q, p, b, t
  <2>1. ASSUME NEW d \in Members(q)
        PROVE  d \in (Members(p) \ {leaving[h]}) \cup ({joining[h]} \ {None})
    <3>1. PICK i \in ids[t] : d = q[i]
      BY <1>13, <2>1
    <3>2. CASE i \in ids[b]
      <4>1. d = p[i] /\ d \in Members(p)
        BY <3>1, <3>2, <1>4, <1>8
      <4>2. d # leaving[h]
        BY <4>1, <3>1, <3>2, <1>4, <1>5, <1>6
      <4>3. QED
        BY <4>1, <4>2
    <3>3. CASE i \notin ids[b]
      BY <3>1, <3>3, <1>9, <1>11
    <3>4. QED
      BY <3>2, <3>3
  <2>2. ASSUME NEW d \in Members(p) \ {leaving[h]} PROVE d \in Members(q)
    <3>1. PICK i \in ids[b] : d = p[i]
      BY <1>4, <2>2
    <3>2. i \in ids[t]
      BY <3>1, <2>2, <1>10
    <3>3. QED
      BY <3>1, <3>2, <1>8, <1>13
  <2>3. ASSUME joining[h] # None PROVE joining[h] \in Members(q)
    <3>1. PICK i \in Id \ ids[b] : ids[t] = ids[b] \cup {i}
      BY <2>3, <1>6
    <3>2. QED
      BY <3>1, <1>9, <1>13
  <2>4. QED
    BY <2>1, <2>2, <2>3
<1>16. leaving[h] # None => leaving[h] \in Members(p) /\ leaving[h] \notin Members(q)
  <2> HIDE DEF q, p, b, t
  <2>1. QED
    BY <1>4, <1>6, <1>15
<1>17. /\ joining[h] # None => joining[h] \in Device \ Members(p)
       /\ leaving[h] = None => ids[b] \subseteq ids[t]
       /\ joining[h] = None => ids[t] \subseteq ids[b]
       /\ ids[t] \cap ids[b] # {}
  <2> HIDE DEF q, p, b, t
  <2>1. joining[h] # None => joining[h] \in Device \ Members(p)
    BY <1>6
  <2>2. \A i \in ids[b] : leaving[h] = p[i] => leaving[h] # None
    BY <1>4
  <2>3. leaving[h] = None => ids[b] \subseteq ids[t]
    BY <1>6, <2>2
  <2>4. joining[h] = None => ids[t] \subseteq ids[b]
    BY <1>6, <1>7, <1>11
  <2>5. ids[t] \cap ids[b] # {}
    <3>1. PICK j \in ids[t] : TRUE
      BY <1>3
    <3>2. PICK i \in ids[b] : TRUE
      BY <1>4
    <3>3. CASE ids[t] \subseteq ids[b]
      BY <3>1, <3>3
    <3>4. CASE ids[b] \subseteq ids[t]
      BY <3>2, <3>4
    <3>5. QED
      BY <3>3, <3>4, <1>6
  <2>6. QED
    BY <2>1, <2>3, <2>4, <2>5
<1>18. QED
  BY <1>2, <1>3, <1>8, <1>9, <1>10, <1>12, <1>14, <1>15, <1>16, <1>17 DEF WrittenMembers

(* The pool of a replace: the target in the place of the device that leaves.*)
LEMMA ReplacedIs ==
  ASSUME PoolAssumption, TypeOK, TxSound, NEW h \in Handle, PoolKnown(h), ReplaceSound(h)
  PROVE  /\ target[h] # None /\ target[h] \notin Members(pool[h])
         /\ leaving[h] \in Members(pool[h]) /\ leaving[h] \notin Members(Replaced(h))
         /\ IsPool(sb[h].tx, Replaced(h))
         /\ \A i \in ids[sb[h].tx] :
              Replaced(h)[i] = IF pool[h][i] = leaving[h] THEN target[h] ELSE pool[h][i]
         /\ Members(Replaced(h)) = (Members(pool[h]) \ {leaving[h]}) \cup {target[h]}
         /\ \A i, j \in ids[sb[h].tx] : Replaced(h)[i] = Replaced(h)[j] => i = j
<1> DEFINE b == sb[h].tx
           p == pool[h]
           q == Replaced(h)
<1>1. /\ ids[b] # {} /\ ids[b] \subseteq Id
      /\ \A i \in ids[b] : p[i] \in Members(p) /\ p[i] # None
      /\ Members(p) = {p[i] : i \in ids[b]}
      /\ Members(p) \subseteq Device /\ None \notin Members(p)
      /\ \A i \in Id : p[i] # None <=> i \in ids[b]
  BY PoolKnownIs
<1>2. \A i, j \in ids[b] : p[i] = p[j] => i = j
  BY DEF PoolKnown
<1>3. target[h] \in Device /\ target[h] \notin Members(p)
  BY DEF ReplaceSound
<1>4. PICK r \in ids[b] : leaving[h] = p[r]
  BY DEF ReplaceSound
<1>5. \A i \in Id : q[i] = IF p[i] # None /\ p[i] = leaving[h] THEN target[h] ELSE p[i]
  BY DEF Replaced
<1>6. \A i \in ids[b] : q[i] = IF p[i] = leaving[h] THEN target[h] ELSE p[i]
  BY <1>1, <1>5
<1>7. None \notin Device
  BY Numbers
<1>8. IsPool(b, q)
  <2>1. \A i \in Id : q[i] \in Device \cup {None}
    BY <1>1, <1>3, <1>5
  <2>2. q = [i \in Id |-> q[i]]
    BY DEF Replaced
  <2>3. \A i \in Id : q[i] # None <=> i \in ids[b]
    BY <1>1, <1>3, <1>5, <1>7
  <2> HIDE DEF q
  <2>4. QED
    BY <2>1, <2>2, <2>3 DEF IsPool
<1>9. Members(q) = {q[i] : i \in ids[b]}
  BY <1>1, <1>8 DEF Members, IsPool
<1> HIDE DEF q, p, b
<1>10. \A i, j \in ids[b] : q[i] = q[j] => i = j
  BY <1>1, <1>2, <1>3, <1>6
<1>11. \A d : d \in Members(q) <=> d \in (Members(p) \ {leaving[h]}) \cup {target[h]}
  BY <1>1, <1>3, <1>4, <1>6, <1>9
<1>12. leaving[h] \in Members(p) /\ leaving[h] # target[h]
  BY <1>1, <1>3, <1>4
<1>13. QED
  BY <1>3, <1>6, <1>7, <1>8, <1>10, <1>11, <1>12 DEF q, p, b

-----------------------------------------------------------------------------
\* What is left when no handle is open.

(* Such a step keeps a pool on its way, if its devices have no new content. *)
LEMMA BetweenKept ==
  ASSUME Echo, PoolAssumption, TypeOK, TxSound, NEW b, NEW t, NEW q, Between(b, t, q),
         \A d \in Members(q) : areaCut'[d] \subseteq areaCut[d]
  PROVE  Between(b, t, q)'
<1>1. made' = made /\ gen' = gen /\ ids' = ids /\ ext' = ext
  BY DEF Echo, history
<1>2. b \in Tx /\ t \in Tx /\ b \in History /\ t \in History
  <2>1. History \subseteq Tx
    BY Numbers DEF TypeOK, History, Tx
  <2>2. QED
    BY <2>1 DEF Between
<1>3. /\ ids[b] \subseteq Id /\ ids[t] \subseteq ids[b]
      /\ ext[b] \subseteq ids[b] /\ ext[t] \subseteq ids[t]
      /\ IsPool(b, q)
  BY <1>2 DEF Between, TypeOK, TxSound
<1>4. \A i \in ids[b] : q[i] \in Members(q) /\ q[i] \in Device
  BY <1>3 DEF IsPool, Members
<1>5. IsPool(b, q)' /\ OlderLack(b)'
  BY EchoKeepsPool DEF Between
<1>6. \A i \in ids'[b] : \A a \in areaCut'[q[i]] : a.id = i /\ a.tx \in {b, t}
  BY <1>1, <1>4 DEF Between
<1>7. Holds(b, q)' /\ Holds(t, q)'
  BY <1>1, <1>3, <1>4 DEF Between, Holds, Echo
<1>8. \A d \in Device \ Members(q) : \A a \in areaCut'[d] :
        a.id # None => gen'[a.tx] < gen'[b] \/ (t = b /\ a.tx = b)
  <2> SUFFICES ASSUME NEW d \in Device \ Members(q), NEW a \in areaCut'[d], a.id # None
               PROVE  gen[a.tx] < gen[b] \/ (t = b /\ a.tx = b)
    BY <1>1
  <2>1. PICK o \in areaCut[d] : o.tx = a.tx /\ o.id = a.id
    BY DEF Echo
  <2>2. QED
    BY <2>1 DEF Between
<1>9. Members(q)' = Members(q)
  BY DEF Members
<1>10. b \in History' /\ t \in History' /\ ids'[t] \subseteq ids'[b]
       /\ (t = b \/ gen'[t] = gen'[b] + 1)
  BY <1>1 DEF Between, History
<1>11. QED
  BY <1>5, <1>6, <1>7, <1>8, <1>9, <1>10 DEF Between

(* Whatever a handle is doing, but adding a device, the pool is at one      *)
(* transaction or on its way to another.                                    *)
LEMMA OpenIsBetween ==
  ASSUME PoolAssumption, TypeOK, TxSound, NEW h \in Handle, state[h] # Closed, OpenSound(h),
         state[h] \in Busy => joining[h] = None
  PROVE  \E b, t \in kept \cup InFlight : \E q \in [Id -> Device \cup {None}] :
           Between(b, t, q)
<1>1. PoolKnown(h) /\ (Committing(h) => PlanSound(h)) /\ (Replacing(h) => ReplaceSound(h))
  BY DEF OpenSound
<1>2. state[h] \in {Closed, Idle} \cup Busy
  BY DEF TypeOK
<1>3. CASE state[h] = Supers
  <2> DEFINE b == sb[h].tx
             t == mine[h]
             q == pool[h]
  <2>1. PlanSound(h) /\ SupersOut(h)
    BY <1>1, <1>3 DEF Committing, OpenSound
  <2>2. joining[h] = None
    BY <1>3
  <2>3. b \in kept /\ t \in InFlight
    BY <1>3, <2>1 DEF SupersOut, InFlight
  <2>4. /\ b \in History /\ t \in History /\ IsPool(b, q) /\ gen[t] = gen[b] + 1
        /\ q \in [Id -> Device \cup {None}]
    BY <1>1, <2>1, Types DEF PoolKnown, PlanSound
  <2>5. ids[t] \subseteq ids[b]
    BY <1>1, <2>1, <2>2, CommittedIs
  <2>6. /\ \A i \in ids[b] : \A a \in areaCut[q[i]] : a.id = i /\ a.tx \in {b, t}
        /\ Holds(b, q) /\ Holds(t, q) /\ OlderLack(b)
    BY <2>1 DEF SupersOut
  <2>7. \A d \in Device \ Members(q) : \A a \in areaCut[d] : a.id # None => gen[a.tx] < gen[b]
    BY <2>1, <2>2, Numbers DEF SupersOut, Strays
  <2> HIDE DEF b, t, q
  <2>8. Between(b, t, q)
    BY <2>4, <2>5, <2>6, <2>7 DEF Between
  <2>9. QED
    BY <2>3, <2>4, <2>8
<1>4. CASE state[h] # Supers
  <2> DEFINE k == NowTx(h)
             q == NowPool(h)
  <2>1. AtRest(h)
    BY <1>4 DEF OpenSound
  <2>2. k \in History /\ IsPool(k, q)
    <3>1. CASE ~ Finishing(h)
      BY <3>1, <1>1 DEF NowTx, NowPool, PoolKnown
    <3>2. CASE Finishing(h) /\ target[h] = None
      <4>1. PlanSound(h)
        BY <3>2, <1>1 DEF Committing
      <4>2. QED
        BY <3>2, <1>1, <4>1, CommittedIs DEF NowTx, NowPool, PlanSound
    <3>3. CASE Finishing(h) /\ target[h] # None
      <4>1. ReplaceSound(h)
        BY <3>3, <1>1 DEF Replacing
      <4>2. QED
        BY <3>3, <1>1, <4>1, ReplacedIs DEF NowTx, NowPool, PoolKnown
    <3>4. QED
      BY <3>1, <3>2, <3>3
  <2>3. k \in kept /\ OlderLack(k) /\ Full(k, q) /\ Holds(k, q)
    BY <2>1 DEF AtRest
  <2>4. \A i \in ids[k] : \A a \in areaCut[q[i]] : a.id = i /\ a.tx \in {k, k}
    BY <2>3, SuperOfIs DEF Full
  <2>5. \A d \in Device \ Members(q) : \A a \in areaCut[d] :
          a.id # None => gen[a.tx] < gen[k] \/ a.tx = k
    BY <2>1 DEF AtRest, Strays
  <2>6. q \in [Id -> Device \cup {None}]
    BY <2>2 DEF IsPool
  <2> HIDE DEF k, q
  <2>7. Between(k, k, q)
    BY <2>2, <2>3, <2>4, <2>5 DEF Between
  <2>8. QED
    BY <2>3, <2>6, <2>7
<1>5. QED
  BY <1>3, <1>4
=============================================================================
