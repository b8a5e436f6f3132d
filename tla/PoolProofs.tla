----------------------------- MODULE PoolProofs -----------------------------
(***************************************************************************)
(* Proofs about Pool with one handle: whatever the devices, the ids handed *)
(* out, the transactions and the power cuts, a device whose superblock     *)
(* survives has the blocks it vouches for, a mount that may write has the  *)
(* filesystem's devices and all of its transaction, no commit is lost, and *)
(* a mount of some set of devices always shows one that was acknowledged.  *)
(***************************************************************************)
EXTENDS PoolInvariant

USE DEF Closed, Idle, Blocks, Placed, Supers, Copy, Copied, Named, Wipe, Wiped, Reopen, Busy

-----------------------------------------------------------------------------
\* The initial states.

(* mkfs leaves a pool of its members and one transaction.                   *)
LEMMA InitSound ==
  ASSUME PoolAssumption, Init
  PROVE  PInv
<1> DEFINE base == [d \in Device |->
             IF d <= NMembers THEN [tx |-> 0, id |-> d, count |-> NMembers, first |-> TRUE]
             ELSE Blank]
           q == [i \in Id |-> IF i <= NMembers THEN i ELSE None]
<1>1. /\ area = base /\ areaCut = [d \in Device |-> {base[d]}]
      /\ data = [d \in Device |-> IF d <= NMembers THEN {0} ELSE {}]
      /\ dataCut = [d \in Device |-> {data[d]}]
      /\ made = 0
      /\ gen = [t \in Tx |-> 1] /\ parent = [t \in Tx |-> 0]
      /\ ids = [t \in Tx |-> 1 .. NMembers] /\ ext = [t \in Tx |-> 1 .. NMembers]
      /\ kept = {0}
  BY DEF Init
<1>2. NMembers \in Nat \ {0} /\ NMembers <= NDevices /\ NMembers <= MaxId
      /\ NDevices \in Nat /\ MaxId \in Nat
  BY DEF PoolAssumption
<1>3. 0 \in Tx /\ History = {0} /\ 1 .. NMembers \subseteq Id
  BY <1>1, <1>2 DEF History, Tx, Id, PoolAssumption
<1>4. \A d \in Device : base[d] \in Area /\ (d <= NMembers => d \in Id)
  BY <1>2, <1>3, Numbers DEF Area, Device, Id
<1>5. TypeOK
  <2>1. /\ area \in [Device -> Area] /\ areaCut \in [Device -> SUBSET Area]
        /\ data \in [Device -> SUBSET Tx] /\ dataCut \in [Device -> SUBSET SUBSET Tx]
        /\ \A d \in Device : area[d] \in areaCut[d] /\ data[d] \in dataCut[d]
    <3> HIDE DEF base
    <3>1. area \in [Device -> Area] /\ areaCut \in [Device -> SUBSET Area]
      <4>1. area = [d \in Device |-> base[d]]
        BY <1>1 DEF base
      <4>2. QED
        BY <1>1, <1>4, <4>1
    <3>2. \A d \in Device : area[d] \in areaCut[d]
      BY <1>1
    <3>3. data \in [Device -> SUBSET Tx]
      BY <1>1, <1>3
    <3>4. QED
      BY <1>1, <3>1, <3>2, <3>3
  <2>2. /\ gen \in [Tx -> Nat] /\ parent \in [Tx -> Tx] /\ ids \in [Tx -> SUBSET Id]
        /\ ext \in [Tx -> SUBSET Id] /\ made \in Tx /\ kept \subseteq Tx
    BY <1>1, <1>3
  <2>3. /\ state \in [Handle -> {Closed, Idle} \cup Busy] /\ sb \in [Handle -> Area]
        /\ pool \in [Handle -> [Id -> Device \cup {None}]] /\ mine \in [Handle -> Tx]
        /\ {joining, leaving, target} \subseteq [Handle -> Device \cup {None}]
        /\ todo \in [Handle -> SUBSET Device]
        /\ cuts \in 0 .. MaxCuts /\ faults \in 0 .. MaxFaults
    BY <1>3, Numbers DEF Init, PoolAssumption
  <2>4. image \in [Handle -> [Device -> Area]]
    <3>1. image = [h \in Handle |-> base] /\ base \in [Device -> Area]
      BY <1>4 DEF Init
    <3> HIDE DEF base
    <3>2. QED
      BY <3>1
  <2>5. QED
    BY <2>1, <2>2, <2>3, <2>4 DEF TypeOK
<1>6. /\ ids[0] = 1 .. NMembers /\ ext[0] = 1 .. NMembers /\ gen[0] = 1
  BY <1>1, <1>3
<1>7. Cardinality(ids[0]) = NMembers
  BY <1>2, <1>6, FS_Interval
<1>8. \A d \in Device : \A a \in areaCut[d] :
        a = base[d] /\ (a.id # None => d <= NMembers /\ a = SuperOf(0, d))
  <2>1. \A d \in Device : d <= NMembers => base[d] = SuperOf(0, d)
    BY <1>7 DEF SuperOf
  <2>2. \A d \in Device : ~ (d <= NMembers) => base[d].id = None
    BY Numbers
  <2>3. \A d \in Device : areaCut[d] = {base[d]}
    BY <1>1
  <2> HIDE DEF base
  <2>4. QED
    BY <2>1, <2>2, <2>3
<1>9. TxSound
  <2>1. 1 \in ids[0] /\ ext[0] = ids[0]
    BY <1>2, <1>6
  <2> HIDE DEF base, q
  <2>2. QED
    BY <2>1, <1>3 DEF TxSound
<1>10. CountsExact
  <2>1. \A d \in Device : d <= NMembers => d \in ids[0]
    BY <1>2, <1>6 DEF Device
  <2> HIDE DEF base
  <2>2. ASSUME NEW d \in Device, NEW a \in areaCut[d], a.id # None
        PROVE  a.tx \in History /\ a.id \in ids[a.tx] /\ a.count = Cardinality(ids[a.tx])
    <3>1. d <= NMembers /\ a = SuperOf(0, d)
      BY <2>2, <1>8
    <3>2. a.tx = 0 /\ a.id = d /\ a.count = Cardinality(ids[0])
      BY <3>1, SuperOfIs
    <3>3. QED
      BY <3>1, <3>2, <2>1, <1>3
  <2>3. QED
    BY <2>2 DEF CountsExact
<1>11. OnePerGeneration
  BY <1>8, SuperOfIs DEF OnePerGeneration
<1>12. SuperblockVouches
  <2>1. \A d \in Device : \A c \in dataCut[d] : d <= NMembers => 0 \in c
    BY <1>1
  <2>2. QED
    BY <2>1, <1>8, SuperOfIs DEF SuperblockVouches
<1>13. ClosedSound
  <2>1. IsPool(0, q) /\ q \in [Id -> Device \cup {None}]
    BY <1>2, <1>6, Numbers DEF IsPool, Id, Device, None
  <2>2. \A i \in ids[0] : q[i] = i /\ q[i] \in Device
    BY <1>2, <1>3, <1>6 DEF Device
  <2>3. \A d \in Device : areaCut[d] = {area[d]}
    BY <1>1
  <2>4. \A d \in Device : d <= NMembers => area[d] = SuperOf(0, d)
    BY <1>1, <1>7 DEF SuperOf
  <2>5. \A d \in Device : d <= NMembers => d \in Members(q)
    <3>1. \A d \in Device : d <= NMembers => d \in Id /\ q[d] = d /\ d # None
      BY <1>2, Numbers DEF Id, Device
    <3> HIDE DEF q
    <3>2. QED
      BY <3>1 DEF Members
  <2>6. \A i \in ids[0] : i <= NMembers
    BY <1>6
  <2> HIDE DEF q
  <2>7. \A i \in ids[0] : \A a \in areaCut[q[i]] : a.id = i /\ a.tx \in {0, 0}
    BY <2>2, <2>3, <2>4, <2>6, SuperOfIs
  <2>8. Holds(0, q)
    BY <1>1, <1>6, <2>2, <2>6 DEF Holds
  <2>9. \A d \in Device \ Members(q) : \A a \in areaCut[d] : a.id = None
    BY <1>8, <2>5
  <2>10. OlderLack(0)
    BY <1>3, <1>6 DEF OlderLack
  <2>11. Between(0, 0, q)
    BY <1>3, <2>1, <2>7, <2>8, <2>9, <2>10 DEF Between
  <2>12. QED
    BY <1>1, <2>1, <2>3, <2>11 DEF ClosedSound
<1>14. \A h \in Handle : state[h] = Closed
  BY DEF Init
<1>15. QED
  BY <1>5, <1>9, <1>10, <1>11, <1>12, <1>13, <1>14 DEF PInv

-----------------------------------------------------------------------------
\* The steps.  What is shown of each is the invariant once it is taken.

(* The invariant of a step that leaves the handle open.                     *)
LEMMA OpenInv ==
  ASSUME OneHandle, NEW h \in Handle, state'[h] # Closed,
         TypeOK', TxSound', CountsExact', OnePerGeneration', SuperblockVouches', OpenSound(h)'
  PROVE  PInv'
BY DEF PInv, OneHandle

(* What the invariant says of the handle that takes a step.                 *)
LEMMA OpenNow ==
  ASSUME PoolAssumption, PInv, NEW h \in Handle, state[h] # Closed
  PROVE  /\ OpenSound(h)
         /\ TypeOK /\ TxSound /\ CountsExact /\ OnePerGeneration /\ SuperblockVouches
         /\ PoolKnown(h)
         /\ Committing(h) => PlanSound(h)
         /\ Replacing(h) => ReplaceSound(h)
         /\ state[h] = Supers => SupersOut(h)
         /\ state[h] # Supers => AtRest(h)
         /\ \A d \in Device \ Unflushed(h) : areaCut[d] = {area[d]}
BY DEF PInv, OpenSound

(* A handle closed leaves its pool.                                         *)
LEMMA CloseStep ==
  ASSUME PoolAssumption, OneHandle, PInv, NEW h \in Handle, Close(h)
  PROVE  PInv'
<1>1. state[h] = Idle /\ state' = [state EXCEPT ![h] = Closed]
      /\ UNCHANGED <<device, history, sb, pool, work, kept, cuts, faults>>
  BY DEF Close
<1>2. TypeOK /\ TxSound /\ OpenSound(h)
  BY <1>1, OpenNow
<1>3. TypeOK'
  BY <1>1, <1>2 DEF TypeOK, device, history, work
<1>4. Echo
  BY <1>1 DEF Echo, device, history
<1>5. TxSound' /\ CountsExact' /\ OnePerGeneration' /\ SuperblockVouches'
  BY <1>1, <1>4, EchoKeeps, OpenNow
<1>6. \A g \in Handle : state'[g] = Closed
  BY <1>1, <1>2 DEF OneHandle, TypeOK
<1>7. InFlight = {}
  BY <1>1 DEF InFlight, OneHandle
<1>8. PICK b \in kept, t \in kept, q \in [Id -> Device \cup {None}] : Between(b, t, q)
  BY <1>1, <1>2, <1>7, OpenIsBetween
<1>9. Between(b, t, q)'
  BY <1>1, <1>2, <1>4, <1>8, BetweenKept DEF device
<1>10. \A d \in Device : areaCut'[d] = {area'[d]}
  BY <1>1, OpenNow DEF device, Unflushed
<1>11. ClosedSound'
  BY <1>1, <1>8, <1>9, <1>10 DEF ClosedSound
<1>12. QED
  BY <1>3, <1>5, <1>6, <1>11 DEF PInv

(* Power cut leaves the pool at one transaction or between two.             *)
LEMMA PowerCutStep ==
  ASSUME PoolAssumption, OneHandle, PInv, PowerCut, ~ Adding
  PROVE  PInv'
<1>1. PICK a \in Outcomes(areaCut) : area' = a /\ areaCut' = [d \in Device |-> {a[d]}]
  BY DEF PowerCut
<1>2. PICK c \in Outcomes(dataCut) : data' = c /\ dataCut' = [d \in Device |-> {c[d]}]
  BY DEF PowerCut
<1>3. /\ cuts < MaxCuts /\ cuts' = cuts + 1 /\ kept' = kept \cup InFlight
      /\ state' = [h \in Handle |-> Closed]
      /\ UNCHANGED <<history, sb, pool, work, faults>>
  BY DEF PowerCut
<1>4. TypeOK /\ TxSound /\ CountsExact /\ OnePerGeneration /\ SuperblockVouches
  BY DEF PInv
<1>5. \A d \in Device : area'[d] \in areaCut[d] /\ areaCut'[d] = {area'[d]}
  BY <1>1 DEF Outcomes
<1>6. \A d \in Device : data'[d] \in dataCut[d] /\ dataCut'[d] = {data'[d]}
  BY <1>2 DEF Outcomes
<1>7. Echo
  BY <1>3, <1>5, <1>6 DEF Echo
<1>8. TypeOK'
  <2>1. area' \in [Device -> Area] /\ data' \in [Device -> SUBSET Tx]
    <3>1. area' \in [Device -> UNION {areaCut[d] : d \in Device}]
          /\ data' \in [Device -> UNION {dataCut[d] : d \in Device}]
      BY <1>1, <1>2 DEF Outcomes
    <3>2. \A d \in Device : areaCut[d] \subseteq Area /\ dataCut[d] \subseteq SUBSET Tx
      BY <1>4 DEF TypeOK
    <3>3. \A d \in Device : area'[d] \in Area /\ data'[d] \in SUBSET Tx
      BY <1>5, <1>6, <3>2
    <3>4. area' = [d \in Device |-> area'[d]] /\ data' = [d \in Device |-> data'[d]]
      BY <3>1
    <3>5. QED
      BY <3>3, <3>4
  <2>2. /\ areaCut' \in [Device -> SUBSET Area] /\ dataCut' \in [Device -> SUBSET SUBSET Tx]
        /\ \A d \in Device : area'[d] \in areaCut'[d] /\ data'[d] \in dataCut'[d]
    <3>1. areaCut' = [d \in Device |-> {area'[d]}] /\ dataCut' = [d \in Device |-> {data'[d]}]
      BY <1>1, <1>2
    <3>2. QED
      BY <2>1, <3>1
  <2>3. kept' \subseteq Tx
    BY <1>3, <1>4 DEF TypeOK, InFlight
  <2>4. cuts' \in 0 .. MaxCuts
    BY <1>3, <1>4 DEF TypeOK, PoolAssumption
  <2>5. QED
    BY <1>3, <1>4, <2>1, <2>2, <2>3, <2>4 DEF TypeOK, history, work
<1>9. TxSound' /\ CountsExact' /\ OnePerGeneration' /\ SuperblockVouches'
  BY <1>4, <1>7, EchoKeeps
<1>10. \E b, t \in kept' : \E q \in [Id -> Device \cup {None}] : Between(b, t, q)
  <2>1. CASE \A h \in Handle : state[h] = Closed
    BY <2>1, <1>3 DEF PInv, ClosedSound
  <2>2. CASE \E h \in Handle : state[h] # Closed
    <3>1. PICK h \in Handle : state[h] # Closed
      BY <2>2
    <3>2. OpenSound(h) /\ (state[h] \in Busy => joining[h] = None)
      BY <3>1 DEF PInv, Adding
    <3>3. QED
      BY <3>1, <3>2, <1>3, <1>4, OpenIsBetween
  <2>3. QED
    BY <2>1, <2>2
<1>11. PICK b \in kept', t \in kept', q \in [Id -> Device \cup {None}] : Between(b, t, q)
  BY <1>10
<1>12. \A d \in Members(q) : areaCut'[d] \subseteq areaCut[d]
  <2>1. Members(q) \subseteq Device
    BY Numbers DEF Members
  <2>2. QED
    BY <2>1, <1>5
<1>13. Between(b, t, q)'
  BY <1>4, <1>7, <1>11, <1>12, BetweenKept
<1>14. ClosedSound'
  BY <1>5, <1>11, <1>13 DEF ClosedSound
<1>15. \A h \in Handle : state'[h] = Closed
  BY <1>3
<1>16. QED
  BY <1>8, <1>9, <1>14, <1>15 DEF PInv

(* One of two devices of an id, not the newer, is not needed.               *)
LEMMA WipeDoubleStep ==
  ASSUME PoolAssumption, OneHandle, PInv, WipeDouble
  PROVE  PInv'
<1>1. \A h \in Handle : state[h] = Closed
  BY DEF WipeDouble
<1>2. PICK d \in Device, e \in Device :
        /\ d # e /\ area[d].id # None /\ area[e].id = area[d].id
        /\ gen[area[d].tx] <= gen[area[e].tx]
        /\ area' = [area EXCEPT ![d] = Blank]
        /\ areaCut' = [areaCut EXCEPT ![d] = {Blank}]
  BY DEF WipeDouble
<1>3. UNCHANGED <<data, dataCut, history, state, sb, pool, work, kept, cuts, faults>>
  BY DEF WipeDouble
<1>4. TypeOK /\ TxSound /\ CountsExact /\ OnePerGeneration /\ SuperblockVouches /\ ClosedSound
  BY <1>1 DEF PInv
<1>5. \A x \in Device :
        /\ areaCut'[x] = IF x = d THEN {Blank} ELSE areaCut[x]
        /\ area'[x] = IF x = d THEN Blank ELSE area[x]
  BY <1>2, <1>4 DEF TypeOK
<1>6. Blank \in Area /\ Blank.id = None
  BY Numbers
<1>7. TypeOK'
  BY <1>2, <1>3, <1>4, <1>6 DEF TypeOK, history, work
<1>8. Echo
  BY <1>3, <1>5, <1>6 DEF Echo
<1>9. TxSound' /\ CountsExact' /\ OnePerGeneration' /\ SuperblockVouches'
  BY <1>4, <1>8, EchoKeeps
<1>10. \A x \in Device : areaCut[x] = {area[x]} /\ areaCut'[x] = {area'[x]}
  BY <1>4, <1>5 DEF ClosedSound
<1>11. PICK b \in kept, t \in kept, q \in [Id -> Device \cup {None}] : Between(b, t, q)
  BY <1>4 DEF ClosedSound
<1>12. \E r \in [Id -> Device \cup {None}] : Between(b, IF d \in Members(q) THEN b ELSE t, r)'
  <2>1. b \in History /\ t \in History /\ b \in Tx /\ t \in Tx
    <3>1. History \subseteq Tx
      BY <1>4, Numbers DEF TypeOK, History, Tx
    <3>2. QED
      BY <3>1, <1>11 DEF Between
  <2>2. ids[b] \subseteq Id /\ ext[b] \subseteq ids[b] /\ ids[b] # {} /\ gen \in [Tx -> Nat]
    BY <2>1, <1>4 DEF TypeOK, TxSound
  <2>3. /\ IsPool(b, q) /\ OlderLack(b) /\ Holds(b, q)
        /\ t = b \/ gen[t] = gen[b] + 1
        /\ \A i \in ids[b] : \A a \in areaCut[q[i]] : a.id = i /\ a.tx \in {b, t}
        /\ \A x \in Device \ Members(q) : \A a \in areaCut[x] :
             a.id # None => gen[a.tx] < gen[b] \/ (t = b /\ a.tx = b)
    BY <1>11 DEF Between
  <2>4. \A i \in ids[b] : q[i] \in Device /\ q[i] \in Members(q)
    BY <2>2, <2>3 DEF IsPool, Members
  <2>5. Members(q) = {q[i] : i \in ids[b]}
    BY <2>2, <2>3 DEF IsPool, Members
  <2>6. CASE d \notin Members(q)
    <3>1. \A x \in Members(q) : areaCut'[x] \subseteq areaCut[x]
      BY <2>4, <2>5, <2>6, <1>5
    <3>2. QED
      BY <3>1, <2>6, <1>4, <1>8, <1>11, BetweenKept
  <2>7. CASE d \in Members(q)
    <3>1. PICK i \in ids[b] : d = q[i]
      BY <2>5, <2>7
    <3>2. area[d].id = i /\ area[d].tx \in {b, t}
      BY <3>1, <2>3, <1>10
    <3>3. e \notin Members(q)
      BY <3>1, <3>2, <2>3, <2>5, <1>2, <1>10
    <3>4. area[e].id = i /\ area[e].id # None
      BY <3>2, <1>2
    <3>5. gen[area[e].tx] < gen[b] \/ (t = b /\ area[e].tx = b)
      BY <2>3, <3>3, <3>4, <1>10
    <3>6. gen[area[e].tx] \in Nat /\ gen[b] \in Nat /\ gen[t] \in Nat
      BY <1>4, <2>1, <2>2, Types, AreaIs DEF TypeOK, Area
    <3>7. gen[area[d].tx] = gen[b] \/ gen[area[d].tx] = gen[b] + 1
      BY <3>2, <2>3
    <3>8. t = b /\ area[e].tx = b
      BY <3>5, <3>6, <3>7, <1>2
    <3>9. PICK r \in [Id -> Device \cup {None}] : \A j \in Id : r[j] = IF j = i THEN e ELSE q[j]
      <4>1. [j \in Id |-> IF j = i THEN e ELSE q[j]] \in [Id -> Device \cup {None}]
        OBVIOUS
      <4>2. QED
        BY <4>1
    <3>10. IsPool(b, r)
      BY <3>1, <3>9, <2>2, <2>3, Numbers DEF IsPool
    <3>11. Members(r) = {r[j] : j \in ids[b]}
      BY <2>2, <3>10 DEF IsPool, Members
    <3>12. \A j \in ids[b] : \A a \in areaCut'[r[j]] : a.id = j /\ a.tx \in {b, b}
      <4> SUFFICES ASSUME NEW j \in ids[b], NEW a \in areaCut'[r[j]]
                   PROVE  a.id = j /\ a.tx = b
        OBVIOUS
      <4>1. CASE j = i
        BY <4>1, <3>4, <3>8, <3>9, <2>2, <1>2, <1>5, <1>10
      <4>2. CASE j # i
        <5>1. r[j] = q[j] /\ q[j] \in Device
          BY <4>2, <3>9, <2>2, <2>4
        <5>2. q[j] # d
          BY <4>2, <3>1, <3>2, <2>3, <1>10, <5>1
        <5>3. QED
          BY <5>1, <5>2, <2>3, <3>8, <1>5
      <4>3. QED
        BY <4>1, <4>2
    <3>13. Holds(b, r)'
      <4> SUFFICES ASSUME NEW j \in ext[b], NEW c \in dataCut[r[j]] PROVE b \in c
        BY <1>3 DEF Holds, history
      <4>1. CASE j = i
        <5>1. r[j] = e /\ area[e] \in areaCut[e]
          BY <4>1, <3>9, <2>2, <1>10
        <5>2. QED
          BY <5>1, <4>1, <3>4, <3>8, <1>4 DEF SuperblockVouches
      <4>2. CASE j # i
        BY <4>2, <3>9, <2>2, <2>3 DEF Holds
      <4>3. QED
        BY <4>1, <4>2
    <3>14. \A x \in Device \ Members(r) : \A a \in areaCut'[x] :
             a.id # None => gen[a.tx] < gen[b] \/ (b = b /\ a.tx = b)
      <4> SUFFICES ASSUME NEW x \in Device \ Members(r), NEW a \in areaCut'[x], a.id # None
                   PROVE  gen[a.tx] < gen[b] \/ a.tx = b
        OBVIOUS
      <4>1. x # d /\ a \in areaCut[x]
        BY <1>5, <1>6
      <4>2. x \notin Members(q)
        <5>1. ASSUME NEW j \in ids[b], x = q[j] PROVE FALSE
          <6>1. j # i
            BY <5>1, <4>1, <3>1
          <6>2. r[j] = x
            BY <5>1, <6>1, <3>9, <2>2
          <6>3. QED
            BY <6>2, <3>11
        <5>2. QED
          BY <5>1, <2>5
      <4>3. QED
        BY <4>1, <4>2, <2>3
    <3>15. OlderLack(b)' /\ IsPool(b, r)'
      BY <1>4, <1>8, <2>3, <3>10, EchoKeepsPool
    <3>16. Members(r)' = Members(r)
      BY DEF Members
    <3>17. gen' = gen /\ ids' = ids /\ made' = made
      BY <1>3 DEF history
    <3>18. b \in History'
      BY <2>1, <3>17 DEF History
    <3>19. Between(b, b, r)'
      BY <3>12, <3>13, <3>14, <3>15, <3>16, <3>17, <3>18 DEF Between
    <3>20. QED
      BY <3>9, <3>19, <2>7
  <2>8. QED
    BY <2>6, <2>7
<1>13. ClosedSound'
  BY <1>3, <1>10, <1>11, <1>12 DEF ClosedSound
<1>14. QED
  BY <1>1, <1>3, <1>7, <1>9, <1>13 DEF PInv

(* What a handle knows, and what it plans, is untouched by a step of a call.*)
LEMMA SameCall ==
  ASSUME NEW h \in Handle, UNCHANGED <<history, sb, pool, mine, image>>
  PROVE  /\ PoolKnown(h) => PoolKnown(h)'
         /\ /\ UNCHANGED <<joining, leaving, target>> /\ PlanSound(h)
            /\ state'[h] \in {Wipe, Wiped} => leaving[h] # None
            => PlanSound(h)'
         /\ UNCHANGED <<joining>> => Committed(h)' = Committed(h)
         /\ UNCHANGED <<leaving, target>> => Replaced(h)' = Replaced(h)
         /\ Members(pool[h])' = Members(pool[h])
<1>1. PoolKnown(h) => PoolKnown(h)'
  BY DEF history, PoolKnown, IsPool, History
<1>2. ASSUME UNCHANGED <<joining, leaving, target>>, PlanSound(h),
             state'[h] \in {Wipe, Wiped} => leaving[h] # None
      PROVE  PlanSound(h)'
  BY <1>2 DEF history, PlanSound, History, Members
<1>3. UNCHANGED <<joining>> => Committed(h)' = Committed(h)
  BY DEF history, Committed
<1>4. UNCHANGED <<leaving, target>> => Replaced(h)' = Replaced(h)
  BY DEF Replaced
<1>5. Members(pool[h])' = Members(pool[h])
  BY DEF Members
<1>6. QED
  BY <1>1, <1>2, <1>3, <1>4, <1>5

(* A replace begins on a device with no superblock, no member's.            *)
LEMMA BeginReplaceStep ==
  ASSUME PoolAssumption, OneHandle, PInv, NEW h \in Handle, BeginReplace(h)
  PROVE  PInv'
<1>1. PICK i \in Id, d \in Device :
        /\ pool[h][i] # None /\ area[d].id = None
        /\ leaving' = [leaving EXCEPT ![h] = pool[h][i]]
        /\ target' = [target EXCEPT ![h] = d]
  BY DEF BeginReplace
<1>2. /\ state[h] = Idle
      /\ joining' = [joining EXCEPT ![h] = None]
      /\ state' = [state EXCEPT ![h] = Copy]
      /\ UNCHANGED <<device, history, sb, pool, mine, image, todo, kept, cuts, faults>>
  BY DEF BeginReplace
<1>3. TypeOK /\ TxSound /\ PoolKnown(h) /\ AtRest(h)
      /\ \A x \in Device \ Unflushed(h) : areaCut[x] = {area[x]}
  BY <1>2, OpenNow
<1>4. state'[h] = Copy /\ leaving'[h] = pool[h][i] /\ target'[h] = d /\ joining'[h] = None
  BY <1>1, <1>2, <1>3 DEF TypeOK
<1>5. i \in ids[sb[h].tx] /\ pool[h][i] \in Device
  BY <1>1, <1>3, PoolKnownIs
<1>6. TypeOK'
  BY <1>1, <1>2, <1>3, <1>5 DEF TypeOK, device, history
<1>7. Echo
  BY <1>2 DEF Echo, device, history
<1>8. TxSound' /\ CountsExact' /\ OnePerGeneration' /\ SuperblockVouches'
  BY <1>2, <1>7, EchoKeeps, OpenNow
<1>9. PoolKnown(h)' /\ Members(pool[h])' = Members(pool[h])
  BY <1>2, <1>3, SameCall
<1>10. \A x \in Device : areaCut'[x] = {area'[x]} /\ areaCut[x] = {area[x]}
  BY <1>2, <1>3 DEF Unflushed, device
<1>11. Full(sb[h].tx, pool[h]) /\ Holds(sb[h].tx, pool[h]) /\ OlderLack(sb[h].tx)
       /\ kept = {sb[h].tx} /\ Strays(sb[h].tx, Members(pool[h]))
  BY <1>2, <1>3 DEF AtRest, NowTx, NowPool, Finishing
<1>12. d \notin Members(pool[h])
  <2>1. ASSUME NEW j \in ids[sb[h].tx], d = pool[h][j] PROVE FALSE
    <3>1. area[d] = SuperOf(sb[h].tx, j)
      BY <2>1, <1>10, <1>11 DEF Full
    <3>2. j # None
      BY <1>3, Numbers, PoolKnownIs
    <3>3. QED
      BY <3>1, <3>2, <1>1, SuperOfIs
  <2>2. QED
    BY <2>1, <1>3, PoolKnownIs
<1>13. ReplaceSound(h)'
  <2>1. target'[h] \in Device \ Members(pool[h])' /\ joining'[h] = None
    BY <1>4, <1>9, <1>12
  <2>2. \E j \in ids'[sb'[h].tx] : leaving'[h] = pool'[h][j]
    BY <1>2, <1>4, <1>5 DEF history
  <2>3. \A a \in areaCut'[target'[h]] : a.id = None
    BY <1>1, <1>2, <1>4, <1>10 DEF device
  <2>4. QED
    BY <1>4, <2>1, <2>2, <2>3 DEF ReplaceSound
<1>14. AtRest(h)'
  <2>1. NowTx(h)' = sb[h].tx /\ NowPool(h)' = pool[h]
    BY <1>2, <1>4 DEF NowTx, NowPool, Finishing
  <2>2. gen' = gen /\ ids' = ids /\ ext' = ext /\ made' = made /\ kept' = kept
        /\ areaCut' = areaCut /\ dataCut' = dataCut
    BY <1>2 DEF device, history
  <2>3. Full(sb[h].tx, pool[h])' /\ Holds(sb[h].tx, pool[h])' /\ OlderLack(sb[h].tx)'
        /\ Strays(sb[h].tx, Members(pool[h]))'
    BY <1>2, <1>11, <2>2 DEF Full, Holds, OlderLack, Strays, SuperOf, History, Members
  <2>4. QED
    BY <1>2, <1>4, <1>11, <2>1, <2>2, <2>3 DEF AtRest, Finishing
<1>15. OpenSound(h)'
  BY <1>4, <1>9, <1>10, <1>13, <1>14 DEF OpenSound, Committing, Replacing, Finishing
<1>16. QED
  BY <1>4, <1>6, <1>8, <1>15, OpenInv

(* What a replace under way has.                                            *)
LEMMA ReplaceNow ==
  ASSUME PoolAssumption, PInv, NEW h \in Handle, state[h] \in {Copy, Copied, Named}
  PROVE  /\ TypeOK /\ TxSound /\ PoolKnown(h) /\ ReplaceSound(h) /\ OpenSound(h)
         /\ kept = {sb[h].tx} /\ OlderLack(sb[h].tx)
         /\ Full(sb[h].tx, pool[h]) /\ Holds(sb[h].tx, pool[h])
         /\ target[h] \in Device /\ target[h] # None /\ target[h] \notin Members(pool[h])
         /\ leaving[h] \in Members(pool[h]) /\ leaving[h] \in Device
         /\ \A d \in Device \ Members(pool[h]) : \A a \in areaCut[d] :
              a.id # None => gen[a.tx] < gen[sb[h].tx] \/ (state[h] = Named /\ a.tx = sb[h].tx)
         /\ \A d \in Device \ (Members(pool[h]) \cup {target[h]}) : \A a \in areaCut[d] :
              a.id # None => gen[a.tx] < gen[sb[h].tx]
         /\ \A d \in Device \ {target[h]} : areaCut[d] = {area[d]}
         /\ state[h] # Named => areaCut[target[h]] = {area[target[h]]}
<1>1. /\ TypeOK /\ TxSound /\ PoolKnown(h) /\ ReplaceSound(h) /\ OpenSound(h) /\ AtRest(h)
      /\ \A d \in Device \ Unflushed(h) : areaCut[d] = {area[d]}
  BY OpenNow DEF Replacing
<1>2. NowTx(h) = sb[h].tx /\ NowPool(h) = pool[h]
  BY DEF NowTx, NowPool, Finishing
<1>3. Unflushed(h) = IF state[h] = Named THEN {target[h]} ELSE {}
  BY DEF Unflushed
<1>4. target[h] \in Device /\ target[h] # None /\ target[h] \notin Members(pool[h])
  BY <1>1, Numbers DEF ReplaceSound
<1>5. leaving[h] \in Members(pool[h]) /\ leaving[h] \in Device
  BY <1>1, PoolKnownIs DEF ReplaceSound
<1>6. QED
  BY <1>1, <1>2, <1>3, <1>4, <1>5 DEF AtRest, Strays, Finishing

(* The extents of the device that leaves are copied to one nothing reads.   *)
LEMMA CopyExtentsStep ==
  ASSUME PoolAssumption, OneHandle, PInv, NEW h \in Handle, CopyExtents(h)
  PROVE  PInv'
<1> DEFINE b == sb[h].tx
           p == pool[h]
<1>1. /\ state[h] = Copy
      /\ data' = [data EXCEPT ![target[h]] = data[leaving[h]]]
      /\ dataCut' = [dataCut EXCEPT ![target[h]] = {data[leaving[h]]}]
      /\ state' = [state EXCEPT ![h] = Copied]
      /\ UNCHANGED <<area, areaCut, history, sb, pool, work, kept, cuts, faults>>
  BY DEF CopyExtents
<1>2. /\ TypeOK /\ TxSound /\ PoolKnown(h) /\ ReplaceSound(h)
      /\ kept = {b} /\ OlderLack(b) /\ Full(b, p) /\ Holds(b, p)
      /\ target[h] \in Device /\ target[h] # None /\ target[h] \notin Members(p)
      /\ leaving[h] \in Members(p) /\ leaving[h] \in Device
      /\ \A d \in Device \ Members(p) : \A a \in areaCut[d] : a.id # None => gen[a.tx] < gen[b]
      /\ \A d \in Device : areaCut[d] = {area[d]}
  BY <1>1, ReplaceNow
<1>3. state'[h] = Copied
  BY <1>1, <1>2 DEF TypeOK
<1>4. \A d \in Device :
        /\ data'[d] = IF d = target[h] THEN data[leaving[h]] ELSE data[d]
        /\ dataCut'[d] = IF d = target[h] THEN {data[leaving[h]]} ELSE dataCut[d]
  BY <1>1, <1>2 DEF TypeOK
<1>5. TypeOK'
  BY <1>1, <1>2, <1>4 DEF TypeOK, history, work
<1>6. gen' = gen /\ ids' = ids /\ ext' = ext /\ made' = made
      /\ joining' = joining /\ leaving' = leaving /\ target' = target
      /\ mine' = mine /\ image' = image
  BY <1>1 DEF history, work
<1>7. TxSound' /\ CountsExact' /\ OnePerGeneration'
  BY <1>1, <1>6, OpenNow DEF TxSound, CountsExact, OnePerGeneration, History
<1>8. \A a \in areaCut[target[h]] : a.id = None
  BY <1>1, <1>2 DEF ReplaceSound
<1>9. SuperblockVouches'
  BY <1>1, <1>4, <1>6, <1>8, OpenNow DEF SuperblockVouches
<1>10. PoolKnown(h)' /\ Members(p)' = Members(p)
  BY <1>1, <1>2, <1>6, SameCall
<1>11. /\ ext[b] \subseteq ids[b]
       /\ \A i \in ids[b] : p[i] \in Members(p) /\ p[i] \in Device /\ p[i] # target[h]
       /\ data[leaving[h]] \in dataCut[leaving[h]]
  BY <1>2, PoolKnownIs, Types
<1>12. ReplaceSound(h)'
  <2>1. \A i \in ext[b] : leaving[h] = p[i] => \A c \in dataCut'[target[h]] : b \in c
    BY <1>2, <1>4, <1>11 DEF Holds
  <2>2. \E i \in ids[b] : leaving[h] = p[i]
    BY <1>2 DEF ReplaceSound
  <2>3. joining[h] = None
    BY <1>2 DEF ReplaceSound
  <2>4. QED
    BY <1>1, <1>2, <1>3, <1>6, <1>8, <1>10, <2>1, <2>2, <2>3 DEF ReplaceSound
<1>13. AtRest(h)'
  <2>1. NowTx(h)' = b /\ NowPool(h)' = p
    BY <1>1, <1>3 DEF NowTx, NowPool, Finishing
  <2>2. Full(b, p)' /\ OlderLack(b)'
    BY <1>1, <1>2, <1>6 DEF Full, OlderLack, SuperOf, History
  <2>3. Holds(b, p)'
    BY <1>1, <1>2, <1>4, <1>6, <1>11 DEF Holds
  <2>4. Strays(b, Members(p))'
    BY <1>1, <1>2, <1>6, <1>10 DEF Strays
  <2>5. QED
    BY <1>1, <1>2, <1>3, <1>6, <2>1, <2>2, <2>3, <2>4 DEF AtRest, Finishing
<1>14. OpenSound(h)'
  BY <1>1, <1>2, <1>3, <1>10, <1>12, <1>13 DEF OpenSound, Committing, Replacing, Finishing
<1>15. QED
  BY <1>3, <1>5, <1>7, <1>9, <1>14, OpenInv

(* The target takes the superblock of the device that leaves, and has every *)
(* block it vouches for.                                                    *)
LEMMA NameTargetStep ==
  ASSUME PoolAssumption, OneHandle, PInv, NEW h \in Handle, NameTarget(h)
  PROVE  PInv'
<1> DEFINE b == sb[h].tx
           p == pool[h]
           a0 == area[leaving[h]]
           e == target[h]
<1>1. /\ state[h] = Copied
      /\ area' = [area EXCEPT ![e] = a0]
      /\ areaCut' = [areaCut EXCEPT ![e] = @ \cup {a0} \cup {[a0 EXCEPT !.first = FALSE]}]
      /\ state' = [state EXCEPT ![h] = Named]
      /\ UNCHANGED <<data, dataCut, history, sb, pool, work, kept, cuts, faults>>
  BY DEF NameTarget, WriteSuper, WriteArea
<1>2. /\ TypeOK /\ TxSound /\ PoolKnown(h) /\ ReplaceSound(h)
      /\ kept = {b} /\ OlderLack(b) /\ Full(b, p) /\ Holds(b, p)
      /\ e \in Device /\ e # None /\ e \notin Members(p)
      /\ leaving[h] \in Members(p) /\ leaving[h] \in Device
      /\ \A d \in Device \ Members(p) : \A a \in areaCut[d] : a.id # None => gen[a.tx] < gen[b]
      /\ \A d \in Device : areaCut[d] = {area[d]}
  BY <1>1, ReplaceNow
<1>3. state'[h] = Named
  BY <1>1, <1>2 DEF TypeOK
<1>4. PICK r \in ids[b] : leaving[h] = p[r]
  BY <1>2 DEF ReplaceSound
<1>5. a0 = SuperOf(b, r) /\ a0 \in Area /\ [a0 EXCEPT !.first = FALSE] \in Area
  <2>1. a0 \in Area
    BY <1>2, Types
  <2>2. areaCut[leaving[h]] = {SuperOf(b, r)}
    BY <1>2, <1>4 DEF Full
  <2>3. a0 = SuperOf(b, r)
    BY <1>2, <2>2
  <2> HIDE DEF a0
  <2>4. QED
    BY <2>1, <2>3 DEF Area
<1>6. /\ a0.tx = b /\ a0.id = r /\ a0.count = Cardinality(ids[b])
      /\ [a0 EXCEPT !.first = FALSE].tx = b /\ [a0 EXCEPT !.first = FALSE].id = r
      /\ [a0 EXCEPT !.first = FALSE].count = Cardinality(ids[b])
  BY <1>5, SuperOfIs DEF Area
<1>7. \A d \in Device :
        /\ area'[d] = IF d = e THEN a0 ELSE area[d]
        /\ d # e => areaCut'[d] = areaCut[d]
  BY <1>1, <1>2 DEF TypeOK
<1>8. areaCut'[e] = areaCut[e] \cup {a0} \cup {[a0 EXCEPT !.first = FALSE]}
  BY <1>1, <1>2 DEF TypeOK
<1>9. \A a \in areaCut'[e] : a.id # None =>
        a.tx = b /\ a.id = r /\ a.count = Cardinality(ids[b])
  <2>1. \A a \in areaCut[e] : a.id = None
    BY <1>1, <1>2 DEF ReplaceSound
  <2> HIDE DEF a0, b, e
  <2>2. QED
    BY <2>1, <1>6, <1>8
<1>10. gen' = gen /\ ids' = ids /\ ext' = ext /\ made' = made
       /\ joining' = joining /\ leaving' = leaving /\ target' = target
       /\ mine' = mine /\ image' = image
  BY <1>1 DEF history, work
<1>11. /\ b \in History /\ ext[b] \subseteq ids[b] /\ ids[b] \subseteq Id
       /\ \A i \in ids[b] : p[i] \in Members(p) /\ p[i] \in Device /\ p[i] # e /\ i # None
  BY <1>2, PoolKnownIs, Numbers
<1> HIDE DEF a0, e
<1>12. TypeOK'
  <2>1. area' \in [Device -> Area]
    BY <1>1, <1>2, <1>5 DEF TypeOK
  <2>2. areaCut' \in [Device -> SUBSET Area]
    BY <1>1, <1>2, <1>5 DEF TypeOK
  <2>3. \A d \in Device : area'[d] \in areaCut'[d]
    BY <1>2, <1>7, <1>8, Types
  <2>4. QED
    BY <1>1, <1>2, <2>1, <2>2, <2>3 DEF TypeOK, history, work
<1>13. TxSound'
  BY <1>10, OpenNow, <1>1 DEF TxSound, History
<1>14. CountsExact'
  <2>1. CountsExact
    BY <1>1, OpenNow
  <2>2. QED
    BY <2>1, <1>4, <1>7, <1>9, <1>10, <1>11 DEF CountsExact, History
<1>15. OnePerGeneration'
  <2>1. OnePerGeneration
    BY <1>1, OpenNow
  <2>2. \A d \in Device : \A a \in areaCut[d] : a.id # None /\ gen[a.tx] = gen[b] => a.tx = b
    <3>1. a0 \in areaCut[leaving[h]] /\ a0.id # None
      BY <1>2, <1>4, <1>6, <1>11 DEF a0
    <3>2. QED
      BY <3>1, <2>1, <1>2, <1>6 DEF OnePerGeneration
  <2> SUFFICES ASSUME NEW d \in Device, NEW x \in Device, NEW a \in areaCut'[d],
                      NEW c \in areaCut'[x], a.id # None, c.id # None, gen[a.tx] = gen[c.tx]
               PROVE  a.tx = c.tx
    BY <1>10 DEF OnePerGeneration
  <2>3. CASE d = e /\ x = e
    BY <2>3, <1>9
  <2>4. CASE d = e /\ x # e
    BY <2>4, <2>2, <1>7, <1>9
  <2>5. CASE d # e /\ x = e
    BY <2>5, <2>2, <1>7, <1>9
  <2>6. CASE d # e /\ x # e
    BY <2>6, <2>1, <1>7 DEF OnePerGeneration
  <2>7. QED
    BY <2>3, <2>4, <2>5, <2>6
<1>16. \A c \in dataCut[e] : r \in ext[b] => b \in c
  BY <1>1, <1>2, <1>4 DEF ReplaceSound, e
<1>17. SuperblockVouches'
  <2>1. SuperblockVouches
    BY <1>1, OpenNow
  <2>2. QED
    BY <2>1, <1>1, <1>7, <1>9, <1>10, <1>16 DEF SuperblockVouches
<1>18. PoolKnown(h)' /\ Members(p)' = Members(p)
  BY <1>1, <1>2, <1>10, SameCall
<1>19. ReplaceSound(h)'
  <2>1. \A i \in ids[b] : leaving[h] = p[i] => area'[e] = SuperOf(b, i)
    <3>1. \A i \in ids[b] : p[i] = p[r] => i = r
      BY <1>2, <1>4 DEF PoolKnown
    <3>2. QED
      BY <3>1, <1>2, <1>4, <1>5, <1>7
  <2>2. \A i \in ext[b] : leaving[h] = p[i] => \A c \in dataCut[e] : b \in c
    BY <1>1, <1>2 DEF ReplaceSound, e
  <2>3. joining[h] = None
    BY <1>2 DEF ReplaceSound
  <2>4. \A i : SuperOf(b, i)' = SuperOf(b, i)
    BY <1>1, <1>10 DEF SuperOf
  <2>5. e' = e /\ leaving'[h] = leaving[h] /\ p' = p /\ sb'[h] = sb[h] /\ state'[h] = Named
    BY <1>1, <1>3, <1>10 DEF e
  <2>6. target'[h] = e /\ target[h] = e
    BY <1>10 DEF e
  <2>7. QED
    BY <1>1, <1>2, <1>4, <1>10, <1>18, <2>1, <2>2, <2>3, <2>4, <2>5, <2>6 DEF ReplaceSound
<1>20. AtRest(h)'
  <2>1. NowTx(h)' = b /\ NowPool(h)' = p
    BY <1>1, <1>3 DEF NowTx, NowPool, Finishing
  <2>2. Full(b, p)'
    BY <1>1, <1>2, <1>7, <1>10, <1>11 DEF Full, SuperOf
  <2>3. Holds(b, p)'
    BY <1>1, <1>2, <1>10 DEF Holds
  <2>4. OlderLack(b)'
    <3> SUFFICES ASSUME NEW x \in History, gen[x] < gen[b]
                 PROVE  \E i \in ids[x] : \A d \in Device : \A a \in areaCut'[d] :
                          ~ (a.id = i /\ a.tx = x)
      BY <1>1, <1>10 DEF OlderLack, History
    <3>1. PICK i \in ids[x] : \A d \in Device : \A a \in areaCut[d] : ~ (a.id = i /\ a.tx = x)
      BY <1>2 DEF OlderLack
    <3>2. i # None /\ x # b
      <4>1. x \in Tx /\ b \in Tx
        BY <1>2, <1>11, Numbers DEF TypeOK, History, Tx
      <4>2. gen[x] \in Nat /\ gen[b] \in Nat /\ ids[x] \subseteq Id
        BY <1>2, <4>1 DEF TypeOK
      <4> HIDE DEF b
      <4>3. x # b
        BY <4>2
      <4>4. QED
        BY <4>2, <4>3, Numbers
    <3>3. QED
      BY <3>1, <3>2, <1>7, <1>9
  <2>5. Strays(b, Members(p) \cup {e})'
    BY <1>1, <1>2, <1>7, <1>10, <1>18 DEF Strays, e
  <2>6. \A a \in areaCut'[e] : a.id # None => a.tx = b
    BY <1>9
  <2>7. target'[h] = e
    BY <1>10 DEF e
  <2>8. b' = b /\ p' = p /\ e' = e /\ kept' = {b}
    BY <1>1, <1>2, <1>10 DEF e
  <2> HIDE DEF b, p
  <2>9. QED
    BY <1>3, <2>1, <2>2, <2>3, <2>4, <2>5, <2>6, <2>7, <2>8 DEF AtRest, Finishing
<1>21. \A d \in Device \ {target'[h]} : areaCut'[d] = {area'[d]}
  BY <1>2, <1>7, <1>10 DEF e
<1>22. OpenSound(h)'
  BY <1>1, <1>2, <1>3, <1>18, <1>19, <1>20, <1>21
     DEF OpenSound, Committing, Replacing, Finishing, Unflushed
<1>23. QED
  BY <1>3, <1>12, <1>13, <1>14, <1>15, <1>17, <1>22, OpenInv

(* What a call has once its superblocks are out.                            *)
LEMMA FinishNow ==
  ASSUME PoolAssumption, PInv, NEW h \in Handle, Finishing(h)
  PROVE  /\ TypeOK /\ TxSound /\ PoolKnown(h)
         /\ target[h] = None => PlanSound(h)
         /\ target[h] # None => ReplaceSound(h)
         /\ NowTx(h) \in History /\ ids[NowTx(h)] # {} /\ ids[NowTx(h)] \subseteq Id
         /\ ext[NowTx(h)] \subseteq ids[NowTx(h)]
         /\ IsPool(NowTx(h), NowPool(h))
         /\ Members(NowPool(h)) = AfterCall(h) /\ Members(NowPool(h)) \subseteq Device
         /\ \A i \in ids[NowTx(h)] :
              NowPool(h)[i] \in Members(NowPool(h)) /\ NowPool(h)[i] \in Device
         /\ \A i, j \in ids[NowTx(h)] : NowPool(h)[i] = NowPool(h)[j] => i = j
         /\ state[h] \in {Wipe, Wiped} => leaving[h] \in Device
         /\ leaving[h] \notin Members(NowPool(h))
         /\ kept = {NowTx(h)} /\ OlderLack(NowTx(h))
         /\ Full(NowTx(h), NowPool(h)) /\ Holds(NowTx(h), NowPool(h))
         /\ Strays(NowTx(h), Members(NowPool(h)) \cup {leaving[h]})
         /\ target[h] = None \/ state[h] = Reopen => Strays(NowTx(h), Members(NowPool(h)))
         /\ \A d \in Device \ Members(NowPool(h)) : \A a \in areaCut[d] :
              a.id # None => gen[a.tx] < gen[NowTx(h)] \/ (target[h] # None /\ a.tx = NowTx(h))
<1> DEFINE k == NowTx(h)
           q == NowPool(h)
<1>1. /\ TypeOK /\ TxSound /\ PoolKnown(h) /\ AtRest(h)
      /\ target[h] = None => PlanSound(h)
      /\ target[h] # None => ReplaceSound(h)
  BY OpenNow DEF Finishing, Committing, Replacing
<1>2. /\ state[h] \in {Wipe, Wiped} /\ target[h] = None => leaving[h] # None
      /\ target[h] # None => joining[h] = None
  BY <1>1 DEF PlanSound, ReplaceSound
<1>3. {joining[h], leaving[h], target[h]} \subseteq Device \cup {None} /\ None \notin Device
  BY <1>1, Types, Numbers
<1>4. Members(pool[h]) \subseteq Device /\ None \notin Members(pool[h])
  BY <1>1, PoolKnownIs
<1>5. /\ IsPool(k, q) /\ k \in History
      /\ Members(q) = AfterCall(h)
      /\ \A i, j \in ids[k] : q[i] = q[j] => i = j
      /\ state[h] \in {Wipe, Wiped} => leaving[h] \in Device
      /\ leaving[h] \notin Members(q)
  <2>1. CASE target[h] = None
    <3>1. k = mine[h] /\ q = Committed(h) /\ PlanSound(h)
      BY <2>1, <1>1 DEF NowTx, NowPool
    <3>2. /\ IsPool(k, q) /\ \A i, j \in ids[k] : q[i] = q[j] => i = j
          /\ Members(q) = (Members(pool[h]) \ {leaving[h]}) \cup ({joining[h]} \ {None})
          /\ leaving[h] # None => leaving[h] \notin Members(q)
          /\ k \in History
      BY <3>1, <1>1, CommittedIs DEF WrittenMembers, PlanSound
    <3>3. Members(q) = AfterCall(h)
      BY <3>2, <2>1 DEF AfterCall
    <3>4. leaving[h] \notin Members(q)
      BY <3>2, <1>4
    <3>5. QED
      BY <3>2, <3>3, <3>4, <2>1, <1>2, <1>3
  <2>2. CASE target[h] # None
    <3>1. k = sb[h].tx /\ q = Replaced(h) /\ ReplaceSound(h)
      BY <2>2, <1>1 DEF NowTx, NowPool
    <3>2. /\ IsPool(k, q) /\ \A i, j \in ids[k] : q[i] = q[j] => i = j
          /\ Members(q) = (Members(pool[h]) \ {leaving[h]}) \cup {target[h]}
          /\ leaving[h] \notin Members(q) /\ leaving[h] \in Members(pool[h])
          /\ k \in History
      BY <3>1, <1>1, ReplacedIs, PoolKnownIs
    <3>3. Members(q) = AfterCall(h)
      BY <3>2, <2>2, <1>2 DEF AfterCall
    <3>4. QED
      BY <3>2, <3>3, <1>4
  <2>3. QED
    BY <2>1, <2>2
<1>6. k \in Tx
  BY <1>1, <1>5, Numbers DEF TypeOK, History, Tx
<1>7. ids[k] # {} /\ ids[k] \subseteq Id /\ ext[k] \subseteq ids[k]
  BY <1>1, <1>5, <1>6 DEF TypeOK, TxSound
<1>8. \A i \in ids[k] : q[i] \in Members(q) /\ q[i] \in Device
  BY <1>5, <1>7 DEF IsPool, Members
<1>9. Members(q) \subseteq Device
  BY <1>3, <1>4, <1>5 DEF AfterCall
<1>10. /\ kept = {k} /\ OlderLack(k) /\ Full(k, q) /\ Holds(k, q)
       /\ Strays(k, Members(q) \cup (IF target[h] = None THEN {} ELSE {leaving[h]}))
       /\ state[h] = Reopen => Strays(k, Members(q))
       /\ target[h] # None => \A a \in areaCut[leaving[h]] :
            a.id # None => gen[a.tx] < gen[k] \/ a.tx = k
  BY <1>1 DEF AtRest, Finishing
<1>11. /\ Strays(k, Members(q) \cup {leaving[h]})
       /\ target[h] = None \/ state[h] = Reopen => Strays(k, Members(q))
       /\ \A d \in Device \ Members(q) : \A a \in areaCut[d] :
            a.id # None => gen[a.tx] < gen[k] \/ (target[h] # None /\ a.tx = k)
  <2> HIDE DEF k, q
  <2>1. QED
    BY <1>10 DEF Strays
<1>12. QED
  BY <1>1, <1>5, <1>7, <1>8, <1>9, <1>10, <1>11

(* A call goes on to its end: the members are untouched, and the device     *)
(* that left has no superblock when it does.                                *)
LEMMA FinishOn ==
  ASSUME PoolAssumption, PInv, NEW h \in Handle, Finishing(h), Echo,
         UNCHANGED <<sb, pool, work, kept>>,
         \/ state[h] = Wipe /\ state'[h] = Wiped
         \/ state[h] = Wiped /\ state'[h] = Reopen,
         \A d \in Device \ {leaving[h]} : areaCut'[d] = areaCut[d],
         state'[h] = Wiped => area'[leaving[h]].id = None,
         state'[h] = Reopen => \A a \in areaCut'[leaving[h]] : a.id = None,
         \A d \in Device : d # leaving[h] \/ state'[h] = Reopen => areaCut'[d] = {area'[d]}
  PROVE  OpenSound(h)'
<1> DEFINE k == NowTx(h)
           q == NowPool(h)
<1>1. gen' = gen /\ ids' = ids /\ ext' = ext /\ made' = made
      /\ joining' = joining /\ leaving' = leaving /\ target' = target
      /\ mine' = mine /\ image' = image /\ UNCHANGED history
  BY DEF Echo, history, work
<1>2. /\ TypeOK /\ TxSound /\ PoolKnown(h)
      /\ target[h] = None => PlanSound(h)
      /\ target[h] # None => ReplaceSound(h)
      /\ ids[k] \subseteq Id /\ ext[k] \subseteq ids[k] /\ IsPool(k, q)
      /\ \A i \in ids[k] : q[i] \in Members(q) /\ q[i] \in Device
      /\ leaving[h] \in Device /\ leaving[h] \notin Members(q)
      /\ kept = {k} /\ OlderLack(k) /\ Full(k, q) /\ Holds(k, q)
      /\ Strays(k, Members(q) \cup {leaving[h]})
      /\ target[h] = None => Strays(k, Members(q))
      /\ \A d \in Device \ Members(q) : \A a \in areaCut[d] :
              a.id # None => gen[a.tx] < gen[k] \/ (target[h] # None /\ a.tx = k)
  BY FinishNow
<1>3. PoolKnown(h)' /\ (target[h] = None => PlanSound(h)')
      /\ Committed(h)' = Committed(h) /\ Replaced(h)' = Replaced(h)
      /\ Members(pool[h])' = Members(pool[h])
  <2>1. leaving[h] # None
    BY <1>2, Numbers
  <2>2. QED
    BY <2>1, <1>1, <1>2, SameCall
<1>4. Finishing(h)'
  BY DEF Finishing
<1>5. NowTx(h)' = k /\ NowPool(h)' = q
  BY <1>1, <1>3, <1>4 DEF NowTx, NowPool
<1>6. target[h] # None => ReplaceSound(h)'
  BY <1>1, <1>2, <1>3 DEF ReplaceSound
<1>7. OlderLack(k)' /\ Holds(k, q)' /\ Strays(k, Members(q) \cup {leaving[h]})'
      /\ (target[h] = None => Strays(k, Members(q))')
  <2> HIDE DEF k, q
  <2>1. /\ \A x : OlderLack(x) => OlderLack(x)'
        /\ \A x, y : Strays(x, y) => Strays(x, y)'
        /\ \A x, y : IsPool(x, y) /\ ids[x] \subseteq Id /\ ext[x] \subseteq ids[x]
             => (Holds(x, y) => Holds(x, y)')
    BY <1>2, EchoKeepsPool
  <2>2. k' = k /\ q' = q /\ Members(q)' = Members(q)
    BY <1>5 DEF k, q, Members
  <2>3. QED
    BY <1>1, <1>2, <2>1, <2>2
<1>8. Full(k, q)'
  <2>1. k' = k /\ q' = q
    BY <1>5
  <2>2. \A i : SuperOf(k, i)' = SuperOf(k, i)
    BY <1>1, <2>1 DEF SuperOf
  <2> HIDE DEF k, q
  <2>3. \A i \in ids[k] : areaCut'[q[i]] = {SuperOf(k, i)}
    BY <1>2 DEF Full
  <2>4. QED
    BY <1>1, <2>1, <2>2, <2>3 DEF Full
<1>9. \A a \in areaCut'[leaving[h]] : a.id # None =>
        gen[a.tx] < gen[k] \/ (target[h] # None /\ a.tx = k)
  <2> HIDE DEF k, q
  <2> SUFFICES ASSUME NEW a \in areaCut'[leaving[h]], a.id # None
               PROVE  gen[a.tx] < gen[k] \/ (target[h] # None /\ a.tx = k)
    OBVIOUS
  <2>1. PICK o \in areaCut[leaving[h]] : o.tx = a.tx /\ o.id = a.id
    BY <1>2 DEF Echo
  <2>2. QED
    BY <1>2, <2>1
<1>10. AtRest(h)'
  <2>1. k' = k /\ q' = q /\ Members(q)' = Members(q)
    BY <1>5 DEF Members
  <2> HIDE DEF k, q
  <2>2. kept' = {k}
    BY <1>2
  <2>3. Strays(k, Members(q) \cup (IF target[h] # None THEN {leaving[h]} ELSE {}))'
    <3>1. CASE target[h] = None
      BY <3>1, <1>1, <1>7, <2>1 DEF Strays
    <3>2. CASE target[h] # None
      BY <3>2, <1>1, <1>7, <2>1 DEF Strays
    <3>3. QED
      BY <3>1, <3>2
  <2>4. state'[h] = Reopen => Strays(k, Members(q))'
    BY <1>1, <1>7, <2>1 DEF Strays
  <2>5. target[h] # None => \A a \in areaCut'[leaving[h]] : a.id # None =>
                              gen'[a.tx] < gen'[k] \/ a.tx = k
    BY <1>1, <1>9
  <2>6. state'[h] # Named
    OBVIOUS
  <2>7. NowTx(h)' = k /\ NowPool(h)' = q
    BY <1>5 DEF k, q
  <2>8. QED
    BY <1>1, <1>4, <1>7, <1>8, <2>1, <2>2, <2>3, <2>4, <2>5, <2>6, <2>7 DEF AtRest
<1>11. state'[h] # Supers /\ state'[h] \notin {Blocks, Placed, Copy, Copied, Named}
  OBVIOUS
<1>12. Committing(h)' => target[h] = None
  BY <1>1, <1>11 DEF Committing
<1>13. Replacing(h)' => target[h] # None
  BY <1>1, <1>11 DEF Replacing
<1>14. \A d \in Device \ Unflushed(h)' : areaCut'[d] = {area'[d]}
  BY <1>1 DEF Unflushed
<1>15. OpenSound(h)'
  BY <1>1, <1>3, <1>6, <1>10, <1>11, <1>12, <1>13, <1>14 DEF OpenSound
<1>16. QED
  BY <1>15

(* The device that left is wiped, which leaves nothing new on it.           *)
LEMMA WipeLeavingStep ==
  ASSUME PoolAssumption, OneHandle, PInv, NEW h \in Handle, WipeLeaving(h)
  PROVE  PInv'
<1> DEFINE d == leaving[h]
           old == {[a EXCEPT !.first = FALSE] : a \in areaCut[d] \ {Blank}}
<1>1. /\ state[h] = Wipe
      /\ area' = [area EXCEPT ![d] = Blank]
      /\ areaCut' = [areaCut EXCEPT ![d] = @ \cup {Blank} \cup old]
      /\ state' = [state EXCEPT ![h] = Wiped]
      /\ UNCHANGED <<data, dataCut, history, sb, pool, work, kept, cuts, faults>>
  BY DEF WipeLeaving, WipeArea, WriteArea
<1>2. Finishing(h) /\ TypeOK /\ d \in Device /\ Blank \in Area /\ Blank.id = None
  BY <1>1, FinishNow, Numbers DEF Finishing
<1>3. state'[h] = Wiped
  BY <1>1, <1>2 DEF TypeOK
<1>4. \A a \in old : a \in Area /\ \E o \in areaCut[d] :
                       o.tx = a.tx /\ o.id = a.id /\ o.count = a.count
  <2>1. areaCut[d] \subseteq Area
    BY <1>2, Types
  <2>2. QED
    BY <2>1 DEF Area
<1> HIDE DEF old
<1>5. \A x \in Device :
        /\ area'[x] = IF x = d THEN Blank ELSE area[x]
        /\ areaCut'[x] = IF x = d THEN areaCut[d] \cup {Blank} \cup old ELSE areaCut[x]
  BY <1>1, <1>2 DEF TypeOK
<1>6. TypeOK'
  <2>1. area' \in [Device -> Area] /\ \A x \in Device : area'[x] \in areaCut'[x]
    BY <1>1, <1>2, <1>5 DEF TypeOK
  <2>2. areaCut' \in [Device -> SUBSET Area]
    BY <1>1, <1>2, <1>4 DEF TypeOK
  <2>3. QED
    BY <1>1, <1>2, <2>1, <2>2 DEF TypeOK, history, work
<1>7. Echo
  BY <1>1, <1>2, <1>4, <1>5 DEF Echo
<1>8. TxSound' /\ CountsExact' /\ OnePerGeneration' /\ SuperblockVouches'
  BY <1>1, <1>7, EchoKeeps, OpenNow
<1>9. \A x \in Device : areaCut[x] = {area[x]}
  BY <1>1, OpenNow DEF Unflushed
<1>10. OpenSound(h)'
  BY <1>1, <1>2, <1>3, <1>5, <1>7, <1>9, FinishOn
<1>11. QED
  BY <1>3, <1>6, <1>8, <1>10, OpenInv

(* And flushed.                                                             *)
LEMMA FlushWipedStep ==
  ASSUME PoolAssumption, OneHandle, PInv, NEW h \in Handle, FlushWiped(h)
  PROVE  PInv'
<1> DEFINE d == leaving[h]
<1>1. /\ state[h] = Wiped
      /\ areaCut' = [x \in Device |-> IF x \in {d} THEN {area[x]} ELSE areaCut[x]]
      /\ dataCut' = [x \in Device |-> IF x \in {d} THEN {data[x]} ELSE dataCut[x]]
      /\ state' = [state EXCEPT ![h] = Reopen]
      /\ UNCHANGED <<area, data, history, sb, pool, work, kept, cuts, faults>>
  BY DEF FlushWiped, FlushDevices
<1>2. Finishing(h) /\ TypeOK /\ d \in Device
  BY <1>1, FinishNow DEF Finishing
<1>3. state'[h] = Reopen
  BY <1>1, <1>2 DEF TypeOK
<1>4. \A x \in Device : /\ area[x] \in areaCut[x] /\ area[x] \in Area /\ areaCut[x] \subseteq Area
                        /\ data[x] \in dataCut[x] /\ dataCut[x] \subseteq SUBSET Tx
  BY <1>2, Types
<1>5. TypeOK'
  BY <1>1, <1>2, <1>4 DEF TypeOK, history, work
<1>6. Echo
  BY <1>1, <1>4 DEF Echo
<1>7. TxSound' /\ CountsExact' /\ OnePerGeneration' /\ SuperblockVouches'
  BY <1>1, <1>6, EchoKeeps, OpenNow
<1>8. /\ \A x \in Device \ {d} : areaCut[x] = {area[x]}
      /\ area[d].id = None
  BY <1>1, OpenNow DEF Unflushed, OpenSound
<1>9. OpenSound(h)'
  BY <1>1, <1>2, <1>3, <1>6, <1>8, FinishOn
<1>10. QED
  BY <1>3, <1>5, <1>7, <1>9, OpenInv

(* The handle mounts what the call left, which no check refuses.            *)
LEMMA RemountStep ==
  ASSUME PoolAssumption, OneHandle, PInv, NEW h \in Handle, Remount(h)
  PROVE  PInv'
<1> DEFINE k == NowTx(h)
           q == NowPool(h)
<1>1. /\ state[h] = Reopen
      /\ IF MountableRw(AfterCall(h))
         THEN /\ sb' = [sb EXCEPT ![h] = ReadThrough(area, AfterCall(h))]
              /\ pool' = [pool EXCEPT ![h] = ById(area, AfterCall(h))]
         ELSE UNCHANGED <<sb, pool>>
      /\ joining' = [joining EXCEPT ![h] = None]
      /\ leaving' = [leaving EXCEPT ![h] = None]
      /\ target' = [target EXCEPT ![h] = None]
      /\ state' = [state EXCEPT ![h] = Idle]
      /\ UNCHANGED <<device, history, mine, image, todo, kept, cuts, faults>>
  BY DEF Remount
<1>2. /\ TypeOK /\ TxSound
      /\ k \in History /\ ids[k] # {} /\ ids[k] \subseteq Id
      /\ IsPool(k, q)
      /\ Members(q) = AfterCall(h)
      /\ \A i \in ids[k] : q[i] \in Members(q) /\ q[i] \in Device
      /\ \A i, j \in ids[k] : q[i] = q[j] => i = j
      /\ kept = {k} /\ OlderLack(k) /\ Full(k, q) /\ Holds(k, q) /\ Strays(k, Members(q))
  BY <1>1, FinishNow DEF Finishing
<1>3. \A i \in ids[k] : area[q[i]] = SuperOf(k, i)
  <2>1. \A x \in Device : area[x] \in areaCut[x]
    BY <1>2 DEF TypeOK
  <2> HIDE DEF k, q
  <2>2. QED
    BY <1>2, <2>1 DEF Full
<1>4. /\ MountableRw(Members(q))
      /\ ById(area, Members(q)) = q
      /\ ReadThrough(area, Members(q)).tx = k
      /\ ReadThrough(area, Members(q)).count = Cardinality(ids[k])
      /\ ReadThrough(area, Members(q)) = area[q[Lowest(q)]]
  BY <1>2, <1>3, FullMountable
<1>5. /\ sb' = [sb EXCEPT ![h] = ReadThrough(area, Members(q))]
      /\ pool' = [pool EXCEPT ![h] = q]
  BY <1>1, <1>2, <1>4
<1>6. ReadThrough(area, Members(q)) \in Area
  <2>1. Lowest(q) \in ids[k]
    <3>1. \A i \in ids[k] : area[q[i]].id = i
      BY <1>3, SuperOfIs
    <3>2. QED
      BY <3>1, <1>2, PoolById
  <2>2. QED
    BY <2>1, <1>2, <1>4, Types
<1>7. q \in [Id -> Device \cup {None}]
  BY <1>2 DEF IsPool
<1> HIDE DEF k, q
<1>8. /\ sb'[h].tx = k /\ sb'[h].count = Cardinality(ids[k]) /\ pool'[h] = q
      /\ state'[h] = Idle /\ target'[h] = None
  BY <1>1, <1>2, <1>4, <1>5 DEF TypeOK
<1>9. TypeOK'
  BY <1>1, <1>2, <1>5, <1>6, <1>7 DEF TypeOK, device, history
<1>10. /\ made' = made /\ gen' = gen /\ ids' = ids /\ ext' = ext /\ kept' = kept
       /\ areaCut' = areaCut /\ area' = area /\ dataCut' = dataCut
  BY <1>1 DEF device, history
<1>11. Echo
  BY <1>1, <1>10 DEF Echo
<1>12. TxSound' /\ CountsExact' /\ OnePerGeneration' /\ SuperblockVouches'
  BY <1>1, <1>11, EchoKeeps, OpenNow
<1>13. PoolKnown(h)'
  BY <1>2, <1>8, <1>10 DEF PoolKnown, IsPool, History
<1>14. AtRest(h)'
  <2>1. NowTx(h)' = k /\ NowPool(h)' = q
    BY <1>8 DEF NowTx, NowPool, Finishing
  <2>2. /\ \A i \in ids[k] : areaCut[q[i]] = {SuperOf(k, i)}
        /\ \A i \in ext[k] : \A c \in dataCut[q[i]] : k \in c
    BY <1>2 DEF Full, Holds
  <2>3. /\ \A i \in ids'[NowTx(h)'] : areaCut'[NowPool(h)'[i]] =
             {[tx |-> NowTx(h)', id |-> i, count |-> Cardinality(ids'[NowTx(h)']), first |-> TRUE]}
        /\ \A i \in ext'[NowTx(h)'] : \A c \in dataCut'[NowPool(h)'[i]] : NowTx(h)' \in c
    BY <1>10, <2>1, <2>2 DEF SuperOf
  <2>4. Full(NowTx(h), NowPool(h))' /\ Holds(NowTx(h), NowPool(h))'
    BY <2>3 DEF Full, Holds, SuperOf
  <2>5. OlderLack(NowTx(h))' /\ Strays(NowTx(h), Members(NowPool(h)))'
    BY <1>2, <1>10, <2>1 DEF OlderLack, Strays, History, Members
  <2>6. ~ Finishing(h)'
    BY <1>8 DEF Finishing
  <2>7. QED
    BY <1>2, <1>8, <1>10, <2>1, <2>4, <2>5, <2>6 DEF AtRest
<1>15. \A d \in Device : areaCut'[d] = {area'[d]}
  BY <1>1, <1>10, OpenNow DEF Unflushed
<1>16. OpenSound(h)'
  BY <1>8, <1>13, <1>14, <1>15 DEF OpenSound, Committing, Replacing, Finishing
<1>17. QED
  BY <1>8, <1>9, <1>12, <1>16, OpenInv

(* The target's superblocks are flushed: it is the member now.              *)
LEMMA FlushTargetStep ==
  ASSUME PoolAssumption, OneHandle, PInv, NEW h \in Handle, FlushTarget(h)
  PROVE  PInv'
<1> DEFINE b == sb[h].tx
           p == pool[h]
           e == target[h]
           q == Replaced(h)
<1>1. /\ state[h] = Named
      /\ areaCut' = [x \in Device |-> IF x \in {e} THEN {area[x]} ELSE areaCut[x]]
      /\ dataCut' = [x \in Device |-> IF x \in {e} THEN {data[x]} ELSE dataCut[x]]
      /\ state' = [state EXCEPT ![h] = Wipe]
      /\ UNCHANGED <<area, data, history, sb, pool, work, kept, cuts, faults>>
  BY DEF FlushTarget, FlushDevices
<1>2. /\ TypeOK /\ TxSound /\ PoolKnown(h) /\ ReplaceSound(h)
      /\ kept = {b} /\ OlderLack(b) /\ Full(b, p) /\ Holds(b, p)
      /\ e \in Device /\ e # None /\ e \notin Members(p)
      /\ leaving[h] \in Members(p) /\ leaving[h] \in Device
      /\ \A d \in Device \ (Members(p) \cup {e}) : \A a \in areaCut[d] :
           a.id # None => gen[a.tx] < gen[b]
      /\ \A d \in Device \ {e} : areaCut[d] = {area[d]}
  BY <1>1, ReplaceNow
<1>3. state'[h] = Wipe
  BY <1>1, <1>2 DEF TypeOK
<1>4. \A x \in Device : /\ area[x] \in areaCut[x] /\ area[x] \in Area /\ areaCut[x] \subseteq Area
                        /\ data[x] \in dataCut[x] /\ dataCut[x] \subseteq SUBSET Tx
  BY <1>2, Types
<1>5. TypeOK'
  BY <1>1, <1>2, <1>4 DEF TypeOK, history, work
<1>6. Echo
  BY <1>1, <1>4 DEF Echo
<1>7. TxSound' /\ CountsExact' /\ OnePerGeneration' /\ SuperblockVouches'
  BY <1>1, <1>6, EchoKeeps, OpenNow
<1>8. \A x \in Device :
        /\ areaCut'[x] = {area[x]} /\ area'[x] = area[x]
        /\ dataCut'[x] \subseteq dataCut[x]
  BY <1>1, <1>2, <1>4
<1>9. gen' = gen /\ ids' = ids /\ ext' = ext /\ made' = made
      /\ joining' = joining /\ leaving' = leaving /\ target' = target
      /\ mine' = mine /\ image' = image
  BY <1>1 DEF history, work
<1>10. /\ PoolKnown(h)' /\ Members(p)' = Members(p) /\ Replaced(h)' = q
  BY <1>1, <1>2, <1>9, SameCall
<1>11. /\ ids[b] \subseteq Id /\ ext[b] \subseteq ids[b] /\ Members(p) \subseteq Device
       /\ \A i \in ids[b] : p[i] \in Members(p) /\ p[i] \in Device
  BY <1>2, PoolKnownIs
<1>12. /\ \A i \in ids[b] : q[i] = IF p[i] = leaving[h] THEN e ELSE p[i]
       /\ Members(q) = (Members(p) \ {leaving[h]}) \cup {e}
       /\ leaving[h] \notin Members(q)
  BY <1>2, ReplacedIs
<1>13. ReplaceSound(h)'
  <2>1. e \in Device \ Members(p) /\ joining[h] = None /\ \E i \in ids[b] : leaving[h] = p[i]
    BY <1>2 DEF ReplaceSound
  <2>2. QED
    BY <1>1, <1>3, <1>9, <1>10, <2>1 DEF ReplaceSound
<1>14. AtRest(h)'
  <2>1. NowTx(h)' = b /\ NowPool(h)' = q
    BY <1>1, <1>2, <1>3, <1>9, <1>10 DEF NowTx, NowPool, Finishing
  <2>2. \A i \in ids[b] : areaCut'[q[i]] = {SuperOf(b, i)}
    <3>1. ASSUME NEW i \in ids[b], p[i] = leaving[h] PROVE areaCut'[q[i]] = {SuperOf(b, i)}
      <4>1. area[e] = SuperOf(b, i)
        BY <3>1, <1>1, <1>2 DEF ReplaceSound
      <4>2. q[i] = e
        BY <3>1, <1>12
      <4>3. QED
        BY <4>1, <4>2, <1>2, <1>8
    <3>2. ASSUME NEW i \in ids[b], p[i] # leaving[h] PROVE areaCut'[q[i]] = {SuperOf(b, i)}
      <4>1. q[i] = p[i] /\ areaCut[p[i]] = {SuperOf(b, i)}
        BY <3>2, <1>2, <1>12 DEF Full
      <4>2. QED
        BY <4>1, <1>4, <1>8, <1>11
    <3>3. QED
      BY <3>1, <3>2
  <2>3. \A i \in ext[b] : \A c \in dataCut'[q[i]] : b \in c
    <3>1. ASSUME NEW i \in ext[b], p[i] = leaving[h], NEW c \in dataCut'[q[i]] PROVE b \in c
      <4>1. \A c1 \in dataCut[e] : b \in c1
        BY <3>1, <1>1, <1>2 DEF ReplaceSound
      <4>2. q[i] = e
        BY <3>1, <1>11, <1>12
      <4>3. QED
        BY <3>1, <4>1, <4>2, <1>2, <1>8
    <3>2. ASSUME NEW i \in ext[b], p[i] # leaving[h], NEW c \in dataCut'[q[i]] PROVE b \in c
      <4>1. q[i] = p[i] /\ p[i] \in Device
        BY <3>2, <1>11, <1>12
      <4>2. QED
        BY <3>2, <4>1, <1>2, <1>8 DEF Holds
    <3>3. QED
      BY <3>1, <3>2
  <2>4. \A d \in Device \ (Members(q) \cup {leaving[h]}) : \A a \in areaCut'[d] :
          a.id # None => gen[a.tx] < gen[b]
    BY <1>2, <1>4, <1>8, <1>12
  <2>5. \A a \in areaCut'[leaving[h]] : a.tx = b
    <3>1. PICK r \in ids[b] : leaving[h] = p[r]
      BY <1>2 DEF ReplaceSound
    <3>2. areaCut[leaving[h]] = {SuperOf(b, r)}
      BY <3>1, <1>2 DEF Full
    <3>3. areaCut'[leaving[h]] = {SuperOf(b, r)}
      BY <3>2, <1>2, <1>4, <1>8
    <3>4. QED
      BY <3>3, SuperOfIs
  <2>6. OlderLack(b)'
    <3>1. \A x : OlderLack(x) => OlderLack(x)'
      BY <1>2, <1>6, EchoKeepsPool
    <3>2. b' = b
      BY <1>1
    <3> HIDE DEF b
    <3>3. QED
      BY <3>1, <3>2, <1>2
  <2>7. b' = b /\ q' = q
    BY <1>1, <1>10
  <2>8. Members(q)' = Members(q)
    BY <2>7 DEF Members
  <2>9. \A i : SuperOf(b, i)' = SuperOf(b, i)
    BY <1>9, <2>7 DEF SuperOf
  <2>10. target'[h] # None /\ leaving'[h] = leaving[h] /\ Finishing(h)' /\ kept' = {b}
    BY <1>1, <1>2, <1>3, <1>9 DEF Finishing
  <2> HIDE DEF b, q, p, e
  <2>11. Full(b, q)' /\ Holds(b, q)' /\ Strays(b, Members(q) \cup {leaving[h]})'
    BY <1>9, <2>2, <2>3, <2>4, <2>7, <2>8, <2>9, <2>10 DEF Full, Holds, Strays
  <2>12. QED
    BY <1>3, <2>1, <2>5, <2>6, <2>7, <2>8, <2>10, <2>11 DEF AtRest
<1>15. \A d \in Device : areaCut'[d] = {area'[d]}
  BY <1>8
<1>16. OpenSound(h)'
  BY <1>2, <1>3, <1>9, <1>10, <1>13, <1>14, <1>15
     DEF OpenSound, Committing, Replacing, Finishing
<1>17. QED
  BY <1>3, <1>5, <1>7, <1>16, OpenInv

-----------------------------------------------------------------------------
\* A commit.

(* The first of a set of the handle's devices is one of them.               *)
LEMMA FirstOfIs ==
  ASSUME PoolAssumption, NEW h \in Handle, NEW S, \E i \in Id : pool[h][i] \in S
  PROVE  FirstOf(h, S) \in S /\ \E i \in Id : FirstOf(h, S) = pool[h][i]
<1> DEFINE T == {i \in Id : pool[h][i] \in S}
<1>1. PICK m \in T : \A j \in T : m <= j
  BY Extremes
<1>2. \E i \in Id : pool[h][i] \in S /\ \A j \in Id : pool[h][j] \in S => i <= j
  BY <1>1
<1>3. QED
  BY <1>2 DEF FirstOf

(* What a handle at rest has.                                               *)
LEMMA RestNow ==
  ASSUME PoolAssumption, PInv, NEW h \in Handle, state[h] \in {Idle, Blocks, Placed}
  PROVE  /\ TypeOK /\ TxSound /\ PoolKnown(h) /\ OpenSound(h)
         /\ state[h] # Idle => PlanSound(h) /\ ImagesSound(h)
         /\ kept = {sb[h].tx} /\ OlderLack(sb[h].tx)
         /\ Full(sb[h].tx, pool[h]) /\ Holds(sb[h].tx, pool[h])
         /\ Strays(sb[h].tx, Members(pool[h]))
         /\ \A d \in Device : areaCut[d] = {area[d]}
         /\ \A i \in ids[sb[h].tx] : area[pool[h][i]] = SuperOf(sb[h].tx, i)
<1>1. /\ TypeOK /\ TxSound /\ PoolKnown(h) /\ OpenSound(h) /\ AtRest(h)
      /\ state[h] # Idle => PlanSound(h) /\ ImagesSound(h)
      /\ \A d \in Device \ Unflushed(h) : areaCut[d] = {area[d]}
  BY OpenNow DEF Committing, OpenSound
<1>2. NowTx(h) = sb[h].tx /\ NowPool(h) = pool[h]
  BY DEF NowTx, NowPool, Finishing
<1>3. Unflushed(h) = {}
  BY DEF Unflushed
<1>4. /\ kept = {sb[h].tx} /\ OlderLack(sb[h].tx)
      /\ Full(sb[h].tx, pool[h]) /\ Holds(sb[h].tx, pool[h])
      /\ Strays(sb[h].tx, Members(pool[h]))
  BY <1>1, <1>2 DEF AtRest, Finishing
<1>5. \A i \in ids[sb[h].tx] : pool[h][i] \in Device
  BY <1>1, PoolKnownIs
<1>6. \A d \in Device : areaCut[d] = {area[d]}
  BY <1>1, <1>3
<1>7. \A i \in ids[sb[h].tx] : area[pool[h][i]] = SuperOf(sb[h].tx, i)
  BY <1>4, <1>5, <1>6 DEF Full
<1>8. QED
  BY <1>1, <1>4, <1>6, <1>7

(* The plan of a transaction: the base's devices, one more or one fewer.    *)
LEMMA BeginStep ==
  ASSUME PoolAssumption, OneHandle, PInv, NEW h \in Handle,
         NEW members \in SUBSET Id, NEW extents, NEW count, NEW join, NEW leave,
         Begin(h, members, extents, count, join, leave),
         members # {}, extents \subseteq members, extents \subseteq ids[sb[h].tx],
         Cardinality(members) \in 0 .. NDevices,
         count = None => members = ids[sb[h].tx],
         count # None => count = Cardinality(members),
         \/ join = None /\ leave = None /\ members = ids[sb[h].tx]
         \/ /\ join = None
            /\ \E i \in ids[sb[h].tx] : leave = pool[h][i] /\ members = ids[sb[h].tx] \ {i}
         \/ /\ leave = None
            /\ join \in Device /\ area[join].id = None
            /\ \E i \in Id \ ids[sb[h].tx] : members = ids[sb[h].tx] \cup {i}
  PROVE  PInv'
<1> DEFINE t == made + 1
           b == sb[h].tx
           p == pool[h]
           S == WrittenMembers(h, leave)
           ImageOf(d) == IF area[d].id = None THEN Blank
                         ELSE [tx |-> t, id |-> area[d].id, first |-> TRUE,
                               count |-> IF count = None THEN area[d].count ELSE count]
           sup == [i \in Id |-> [tx |-> t, id |-> i, count |-> Cardinality(members),
                                 first |-> TRUE]]
           new == CHOOSE i \in members \ ids[b] : TRUE
           im == [d \in Device |->
                    IF d \in S THEN ImageOf(d)
                    ELSE IF d = join THEN [ImageOf(FirstOf(h, S)) EXCEPT !.id = new]
                    ELSE Blank]
           q == [i \in Id |-> IF i \notin members THEN None
                              ELSE IF p[i] # None THEN p[i] ELSE join]
<1>1. /\ state[h] = Idle /\ made < MaxTx
      /\ made' = t
      /\ gen' = [gen EXCEPT ![t] = gen[b] + 1]
      /\ parent' = [parent EXCEPT ![t] = b]
      /\ ids' = [ids EXCEPT ![t] = members]
      /\ ext' = [ext EXCEPT ![t] = extents]
      /\ mine' = [mine EXCEPT ![h] = t]
      /\ joining' = [joining EXCEPT ![h] = join]
      /\ leaving' = [leaving EXCEPT ![h] = leave]
      /\ target' = [target EXCEPT ![h] = None]
      /\ image' = [image EXCEPT ![h] = im]
      /\ todo' = [todo EXCEPT ![h] = S \cup ({join} \ {None})]
      /\ state' = [state EXCEPT ![h] = Blocks]
      /\ UNCHANGED <<device, sb, pool, kept, cuts, faults>>
  BY DEF Begin
<1>2. /\ TypeOK /\ TxSound /\ PoolKnown(h)
      /\ kept = {b} /\ OlderLack(b) /\ Full(b, p) /\ Holds(b, p) /\ Strays(b, Members(p))
      /\ \A d \in Device : areaCut[d] = {area[d]}
      /\ \A i \in ids[b] : area[p[i]] = SuperOf(b, i)
  BY <1>1, RestNow
<1>3. /\ b \in History /\ b \in Tx /\ ids[b] # {} /\ ids[b] \subseteq Id
      /\ ext[b] \subseteq ids[b]
      /\ \A i \in ids[b] : p[i] \in Members(p) /\ p[i] # None
      /\ Members(p) = {p[i] : i \in ids[b]}
      /\ Members(p) \subseteq Device /\ None \notin Members(p)
      /\ \A i \in Id : p[i] # None <=> i \in ids[b]
  BY <1>2, PoolKnownIs
<1>4. /\ t \in Tx /\ t \in Nat /\ t \notin History /\ made \in Nat /\ History \subseteq Tx
      /\ 0 .. t = History \cup {t}
  <2>1. made \in Nat /\ MaxTx \in Nat /\ made < MaxTx
    BY <1>1, <1>2 DEF TypeOK, Tx, PoolAssumption
  <2>2. t \in Tx /\ t \in Nat /\ t \notin History
    BY <2>1 DEF Tx, History
  <2>3. History \subseteq Tx
    BY <2>1 DEF Tx, History
  <2>4. \A x : x \in 0 .. t <=> x \in History \cup {t}
    BY <2>1 DEF History
  <2>5. QED
    BY <2>1, <2>2, <2>3, <2>4
<1>5. /\ gen'[t] = gen[b] + 1 /\ parent'[t] = b /\ ids'[t] = members /\ ext'[t] = extents
      /\ \A x \in History : /\ gen'[x] = gen[x] /\ parent'[x] = parent[x]
                            /\ ids'[x] = ids[x] /\ ext'[x] = ext[x]
      /\ gen[b] \in Nat /\ \A x \in History : gen[x] \in Nat
  BY <1>1, <1>2, <1>3, <1>4 DEF TypeOK
<1>6. /\ state'[h] = Blocks /\ mine'[h] = t /\ joining'[h] = join /\ leaving'[h] = leave
      /\ target'[h] = None /\ image'[h] = im /\ todo'[h] = S \cup ({join} \ {None})
  <2> HIDE DEF im, S, t
  <2>1. QED
    BY <1>1, <1>2 DEF TypeOK
<1>7. /\ area' = area /\ areaCut' = areaCut /\ data' = data /\ dataCut' = dataCut
      /\ sb' = sb /\ pool' = pool /\ kept' = kept
  BY <1>1 DEF device
<1>8. \A i, j \in ids[b] : p[i] = p[j] => i = j
  BY <1>2 DEF PoolKnown
<1>9. None \notin Device /\ None \notin Id
  BY Numbers
<1>10. \A i \in ids[b] : area[p[i]].id = i /\ area[p[i]].count = Cardinality(ids[b])
  BY <1>2, SuperOfIs
<1>11. join # None => join \in Device /\ join \notin Members(p)
  BY <1>3, <1>9, <1>10
<1>12. ASSUME NEW i \in ids[b] PROVE ImageOf(p[i]) = sup[i]
  <2>1. area[p[i]].id = i /\ area[p[i]].count = Cardinality(ids[b]) /\ i # None /\ i \in Id
    BY <1>3, <1>9, <1>10
  <2>2. (IF count = None THEN area[p[i]].count ELSE count) = Cardinality(members)
    BY <2>1
  <2> HIDE DEF p, b, S, q, im, new
  <2>3. ImageOf(p[i]) = [tx |-> t, id |-> i, first |-> TRUE, count |-> Cardinality(members)]
    BY <2>1, <2>2
  <2>4. QED
    BY <2>1, <2>3
<1>13. S = Members(p) \ {leave}
  BY DEF WrittenMembers
<1>14. \A i \in Id : sup[i].id = i /\ sup[i] \in Area
  BY <1>4 DEF Area
<1> HIDE DEF t, S, sup, ImageOf
<1>15. ASSUME join # None PROVE \E i \in Id \ ids[b] : members = ids[b] \cup {i} /\ im[join] = sup[i]
  <2>1. PICK i \in Id \ ids[b] : members = ids[b] \cup {i}
    BY <1>15
  <2>2. members \ ids[b] = {i}
    BY <2>1
  <2>3. new = i
    BY <2>2
  <2>4. leave = None
    BY <1>15
  <2>5. S = Members(p)
    BY <1>3, <1>13, <2>4
  <2>6. \E j \in Id : p[j] \in S
    BY <1>3, <2>5
  <2>7. FirstOf(h, S) \in S
    BY <2>6, FirstOfIs
  <2>8. PICK j \in ids[b] : FirstOf(h, S) = p[j]
    BY <2>5, <2>7, <1>3
  <2>9. ImageOf(FirstOf(h, S)) = sup[j]
    BY <2>8, <1>12
  <2>10. [sup[j] EXCEPT !.id = i] = sup[i]
    <3>1. j \in Id /\ i \in Id
      BY <1>3
    <3> DEFINE x == [sup[j] EXCEPT !.id = i]
    <3>2. sup[j] \in Area /\ sup[i] \in Area /\ sup[i].id = i
      BY <3>1, <1>14
    <3>3. sup[i].tx = sup[j].tx /\ sup[i].count = sup[j].count /\ sup[i].first = sup[j].first
      BY <3>1 DEF sup
    <3>4. x \in Area /\ x.tx = sup[j].tx /\ x.id = i /\ x.count = sup[j].count
          /\ x.first = sup[j].first
      BY <3>1, <3>2 DEF Area
    <3> HIDE DEF x
    <3>5. x = sup[i]
      BY <3>2, <3>3, <3>4, AreaIs
    <3>6. QED
      BY <3>5 DEF x
  <2>11. join \in Device /\ join \notin S
    BY <1>11, <1>15, <2>5
  <2>12. im[join] = [ImageOf(FirstOf(h, S)) EXCEPT !.id = new]
    BY <2>11, <1>15
  <2>13. QED
    BY <2>1, <2>3, <2>9, <2>10, <2>12
<1>16. \A i \in ids[b] : p[i] # leave => im[p[i]] = sup[i]
  BY <1>3, <1>12, <1>13
<1>17. im \in [Device -> Area]
  <2>1. ASSUME NEW d \in Device PROVE im[d] \in Area
    <3>1. CASE d \in S
      <4>1. PICK i \in ids[b] : d = p[i] /\ p[i] # leave
        BY <3>1, <1>3, <1>13
      <4>2. QED
        BY <4>1, <1>3, <1>14, <1>16
    <3>2. CASE d \notin S /\ d = join
      BY <3>2, <1>9, <1>14, <1>15
    <3>3. CASE d \notin S /\ d # join
      <4>1. im[d] = Blank
        BY <3>3
      <4>2. QED
        BY <4>1, Numbers
    <3>4. QED
      BY <3>1, <3>2, <3>3
  <2>2. QED
    BY <2>1
<1> HIDE DEF im
<1>18. TypeOK'
  <2>1. gen' \in [Tx -> Nat] /\ parent' \in [Tx -> Tx] /\ made' \in Tx
    BY <1>1, <1>2, <1>3, <1>4, <1>5 DEF TypeOK
  <2>2. ids' \in [Tx -> SUBSET Id] /\ ext' \in [Tx -> SUBSET Id]
    BY <1>1, <1>2, <1>3 DEF TypeOK
  <2>3. join \in Device \cup {None} /\ leave \in Device \cup {None}
    BY <1>3
  <2>4. S \cup ({join} \ {None}) \subseteq Device
    BY <1>3, <1>11, <1>13
  <2>5. image' \in [Handle -> [Device -> Area]] /\ mine' \in [Handle -> Tx]
        /\ todo' \in [Handle -> SUBSET Device]
    BY <1>1, <1>2, <1>4, <1>17, <2>4 DEF TypeOK
  <2>6. {joining', leaving', target'} \subseteq [Handle -> Device \cup {None}]
    BY <1>1, <1>2, <2>3 DEF TypeOK
  <2>7. QED
    BY <1>1, <1>2, <2>1, <2>2, <2>5, <2>6 DEF TypeOK, device
<1>19. History' = History \cup {t}
  BY <1>1, <1>4 DEF History
<1>20. TxSound'
  BY <1>2, <1>4, <1>5, <1>19 DEF TxSound
<1>21. \A d \in Device : \A a \in areaCut[d] : a.id # None => a.tx \in History
  BY <1>1, OpenNow DEF CountsExact
<1>22. CountsExact'
  <2>1. CountsExact
    BY <1>1, OpenNow
  <2>2. QED
    BY <2>1, <1>5, <1>7, <1>19, <1>21 DEF CountsExact
<1>23. OnePerGeneration'
  <2>1. OnePerGeneration
    BY <1>1, OpenNow
  <2>2. QED
    BY <2>1, <1>5, <1>7, <1>21 DEF OnePerGeneration
<1>24. SuperblockVouches'
  <2>1. SuperblockVouches
    BY <1>1, OpenNow
  <2>2. QED
    BY <2>1, <1>5, <1>7, <1>21 DEF SuperblockVouches
<1>25. PoolKnown(h)'
  BY <1>2, <1>3, <1>5, <1>7, <1>19 DEF PoolKnown, IsPool
<1>26. Members(pool[h])' = Members(p)
  BY <1>7 DEF Members
<1>27. PlanSound(h)'
  <2>1. mine'[h] \in History' /\ gen'[mine'[h]] = gen'[b] + 1 /\ parent'[mine'[h]] = b
        /\ ext'[mine'[h]] \subseteq ids'[b] /\ target'[h] = None
        /\ ids'[b] = ids[b] /\ ids'[mine'[h]] = members
    BY <1>3, <1>5, <1>6, <1>19
  <2>2. \/ join = None /\ leave = None /\ members = ids[b]
        \/ /\ join = None
           /\ \E i \in ids[b] : leave = p[i] /\ members = ids[b] \ {i}
        \/ /\ leave = None
           /\ join \in Device \ Members(p)
           /\ \E i \in Id \ ids[b] : members = ids[b] \cup {i}
    BY <1>9, <1>11
  <2>3. sb'[h].tx = b /\ pool'[h] = p
    BY <1>7
  <2> HIDE DEF b, p
  <2>4. QED
    BY <1>6, <1>26, <2>1, <2>2, <2>3 DEF PlanSound
<1>28. Committed(h)' = q
  BY <1>5, <1>6, <1>7 DEF Committed
<1>29. /\ \A i \in members \cap ids[b] : q[i] = p[i] /\ p[i] # leave
       /\ \A i \in members \ ids[b] : q[i] = join /\ join # None /\ members = ids[b] \cup {i}
       /\ \A i \in Id : q[i] # None <=> i \in members
  <2>1. \A i \in members \cap ids[b] : q[i] = p[i]
    BY <1>3
  <2>2. \A i \in members \cap ids[b] : p[i] # leave
    BY <1>3, <1>8
  <2>3. \A i \in members \ ids[b] : q[i] = join
    BY <1>3
  <2>4. \A i \in members \ ids[b] : join # None /\ members = ids[b] \cup {i}
    BY <1>9
  <2>5. \A i \in Id : i \notin members => q[i] = None
    OBVIOUS
  <2>6. QED
    BY <1>3, <2>1, <2>2, <2>3, <2>4, <2>5
<1> HIDE DEF q
<1>30. Members(q) = {q[i] : i \in members}
  BY <1>29 DEF Members
<1>31. S \cup ({join} \ {None}) = Members(q)
  <2>1. ASSUME NEW d \in S PROVE d \in Members(q)
    <3>1. PICK i \in ids[b] : d = p[i] /\ p[i] # leave
      BY <2>1, <1>3, <1>13
    <3>2. i \in members
      BY <3>1
    <3>3. QED
      BY <3>1, <3>2, <1>29, <1>30
  <2>2. ASSUME join # None PROVE join \in Members(q)
    <3>1. PICK i \in Id \ ids[b] : members = ids[b] \cup {i}
      BY <2>2
    <3>2. QED
      BY <3>1, <1>29, <1>30
  <2>3. ASSUME NEW d \in Members(q) PROVE d \in S \cup ({join} \ {None})
    <3>1. PICK i \in members : d = q[i]
      BY <2>3, <1>30
    <3>2. CASE i \in ids[b]
      BY <3>1, <3>2, <1>3, <1>13, <1>29
    <3>3. CASE i \notin ids[b]
      BY <3>1, <3>3, <1>29
    <3>4. QED
      BY <3>2, <3>3
  <2>4. QED
    BY <2>1, <2>2, <2>3
<1>32. ImagesSound(h)'
  <2>1. \A i \in members : im[q[i]] = sup[i]
    <3>1. \A i \in members \cap ids[b] : im[q[i]] = sup[i]
      BY <1>16, <1>29
    <3>2. ASSUME NEW i \in members \ ids[b] PROVE im[q[i]] = sup[i]
      <4>1. q[i] = join /\ join # None
        BY <3>2, <1>29
      <4>2. PICK j \in Id \ ids[b] : members = ids[b] \cup {j} /\ im[join] = sup[j]
        BY <4>1, <1>15
      <4>3. QED
        BY <3>2, <4>1, <4>2
    <3>3. QED
      BY <3>1, <3>2
  <2>2. \A i \in members : SuperOf(mine[h], i)' = sup[i]
    <3>1. mine'[h] = t /\ ids'[t] = members
      BY <1>5, <1>6
    <3>2. \A i \in Id : sup[i] = [tx |-> t, id |-> i, count |-> Cardinality(members),
                                  first |-> TRUE]
      BY DEF sup
    <3>3. QED
      BY <3>1, <3>2 DEF SuperOf
  <2>3. todo'[h] = Members(q) /\ Members(Committed(h))' = Members(q)
    BY <1>6, <1>28, <1>31 DEF Members
  <2>4. ids'[mine'[h]] = members /\ image'[h] = im
    BY <1>5, <1>6
  <2>5. QED
    BY <1>28, <2>1, <2>2, <2>3, <2>4 DEF ImagesSound
<1>33. AtRest(h)'
  <2>1. NowTx(h)' = b /\ NowPool(h)' = p
    BY <1>6, <1>7 DEF NowTx, NowPool, Finishing
  <2>2. /\ sb'[h].tx = b /\ pool'[h] = p /\ ids'[b] = ids[b] /\ ext'[b] = ext[b] /\ gen'[b] = gen[b]
    BY <1>3, <1>5, <1>7
  <2>3. \A i : SuperOf(sb[h].tx, i)' = SuperOf(b, i)
    BY <2>2 DEF SuperOf
  <2>4. \A i \in ids[b] : areaCut[p[i]] = {SuperOf(b, i)}
    BY <1>2 DEF Full
  <2>5. \A i \in ext[b] : \A c \in dataCut[p[i]] : b \in c
    BY <1>2 DEF Holds
  <2>6. \A d \in Device \ Members(p) : \A a \in areaCut[d] : a.id # None => gen'[a.tx] < gen[b]
    BY <1>2, <1>5, <1>21 DEF Strays
  <2>7. \A x \in History \cup {t} : gen'[x] < gen[b] =>
          \E i \in ids'[x] : \A d \in Device : \A a \in areaCut[d] : ~ (a.id = i /\ a.tx = x)
    <3>1. \A x \in History : gen[x] < gen[b] =>
            \E i \in ids[x] : \A d \in Device : \A a \in areaCut[d] : ~ (a.id = i /\ a.tx = x)
      BY <1>2 DEF OlderLack
    <3>2. ~ (gen'[t] < gen[b])
      BY <1>5
    <3>3. QED
      BY <3>1, <3>2, <1>5
  <2> HIDE DEF b, p
  <2>8. Full(sb[h].tx, pool[h])' /\ Holds(sb[h].tx, pool[h])'
    BY <1>7, <2>2, <2>3, <2>4, <2>5 DEF Full, Holds
  <2>9. OlderLack(sb[h].tx)' /\ Strays(sb[h].tx, Members(pool[h]))'
    BY <1>7, <1>19, <1>26, <2>2, <2>6, <2>7 DEF OlderLack, Strays
  <2>10. kept' = {b} /\ ~ Finishing(h)' /\ state'[h] = Blocks
    BY <1>2, <1>6, <1>7 DEF Finishing
  <2>11. QED
    BY <2>1, <2>2, <2>8, <2>9, <2>10, <1>26 DEF AtRest
<1>34. \A d \in Device : areaCut'[d] = {area'[d]}
  BY <1>2, <1>7
<1>35. OpenSound(h)'
  BY <1>6, <1>25, <1>27, <1>32, <1>33, <1>34 DEF OpenSound, Committing, Replacing, Finishing
<1>36. QED
  BY <1>6, <1>18, <1>20, <1>22, <1>23, <1>24, <1>35, OpenInv

(* The devices of a pool are as many as the base's ids, and its superblock  *)
(* counts them.                                                             *)
LEMMA PoolCount ==
  ASSUME PoolAssumption, TypeOK, TxSound, NEW h \in Handle, PoolKnown(h)
  PROVE  /\ IsFiniteSet(ids[sb[h].tx])
         /\ Cardinality(ids[sb[h].tx]) \in Nat
         /\ Cardinality(Members(pool[h])) = Cardinality(ids[sb[h].tx])
         /\ sb[h].count = Cardinality(ids[sb[h].tx])
         /\ Cardinality(ids[sb[h].tx]) \in 0 .. NDevices
<1> DEFINE b == sb[h].tx
           p == pool[h]
           f == [i \in ids[b] |-> p[i]]
<1>1. /\ ids[b] \subseteq Id /\ Members(p) = {p[i] : i \in ids[b]}
  BY PoolKnownIs
<1>2. IsFiniteSet(ids[b])
  BY <1>1, Numbers, FS_Subset
<1>3. f \in Bijection(ids[b], Members(p))
  <2>1. f \in [ids[b] -> Members(p)]
    BY <1>1
  <2>2. \A i, j \in ids[b] : f[i] = f[j] => i = j
    BY DEF PoolKnown
  <2>3. \A d \in Members(p) : \E i \in ids[b] : f[i] = d
    BY <1>1
  <2> HIDE DEF f
  <2>4. QED
    BY <2>1, <2>2, <2>3 DEF Bijection, Injection, Surjection, IsInjective
<1>4. Cardinality(Members(p)) = Cardinality(ids[b])
  BY <1>2, <1>3, FS_Bijection DEF ExistsBijection
<1>5. sb[h].count = Cardinality(ids[b]) /\ sb[h] \in Area
  BY Types DEF PoolKnown
<1>6. sb[h].count \in 0 .. NDevices
  BY <1>5, AreaIs
<1>7. Cardinality(ids[b]) \in Nat
  BY <1>2, FS_CardinalityType
<1>8. QED
  BY <1>2, <1>4, <1>5, <1>6, <1>7

(* Any transaction of the base's devices.                                   *)
LEMMA WriteStep ==
  ASSUME PoolAssumption, OneHandle, PInv, NEW h \in Handle, Write(h)
  PROVE  PInv'
<1> DEFINE b == sb[h].tx
<1>1. PICK e : /\ \/ e = ext[b]
                  \/ \E i \in {j \in ids[b] : pool[h][j] # None} : e = ext[b] \cup {i}
                  \/ \E i \in {j \in ids[b] : pool[h][j] # None} : e = ext[b] \ {i}
               /\ Begin(h, ids[b], e, None, None, None)
  BY DEF Write
<1>2. state[h] = Idle
  BY <1>1 DEF Begin
<1>3. TypeOK /\ TxSound /\ PoolKnown(h)
  BY <1>2, RestNow
<1>4. ids[b] # {} /\ ids[b] \subseteq Id /\ ext[b] \subseteq ids[b]
  BY <1>3, PoolKnownIs
<1>5. e \subseteq ids[b]
  BY <1>1, <1>4
<1>6. Cardinality(ids[b]) \in 0 .. NDevices
  BY <1>3, PoolCount
<1> HIDE DEF b
<1>7. ids[b] \in SUBSET Id
  BY <1>4
<1>8. QED
  BY <1>1, <1>4, <1>5, <1>6, <1>7, BeginStep DEF b

(* A device more.                                                           *)
LEMMA AddDeviceStep ==
  ASSUME PoolAssumption, OneHandle, PInv, NEW h \in Handle, AddDevice(h)
  PROVE  PInv'
<1> DEFINE b == sb[h].tx
           i == LastDevid(b) + 1
           members == ids[b] \cup {i}
           n == sb[h].count + 1
<1>1. i <= MaxId
  BY DEF AddDevice
<1>2. PICK d \in Device : area[d].id = None /\ Begin(h, members, ext[b], n, d, None)
  BY DEF AddDevice
<1>3. state[h] = Idle
  BY <1>2 DEF Begin
<1>4. /\ TypeOK /\ TxSound /\ PoolKnown(h)
      /\ \A j \in ids[b] : area[pool[h][j]] = SuperOf(b, j)
  BY <1>3, RestNow
<1>5. /\ ids[b] # {} /\ ids[b] \subseteq Id /\ ext[b] \subseteq ids[b]
      /\ Members(pool[h]) = {pool[h][j] : j \in ids[b]} /\ Members(pool[h]) \subseteq Device
  BY <1>4, PoolKnownIs
<1>6. LastDevid(b) \in ids[b] /\ \A j \in ids[b] : j <= LastDevid(b)
  <2>1. \E m \in ids[b] : \A j \in ids[b] : j <= m
    BY <1>5, Extremes
  <2>2. QED
    BY <2>1 DEF LastDevid
<1>7. i \in Id /\ i \notin ids[b]
  <2>1. LastDevid(b) \in Nat /\ LastDevid(b) >= 1
    BY <1>5, <1>6 DEF Id
  <2>2. i \in Id
    BY <2>1, <1>1 DEF Id, PoolAssumption
  <2>3. i \notin ids[b]
    BY <2>1, <1>6
  <2>4. QED
    BY <2>2, <2>3
<1>8. /\ IsFiniteSet(ids[b]) /\ Cardinality(ids[b]) \in Nat /\ sb[h].count = Cardinality(ids[b])
      /\ Cardinality(Members(pool[h])) = Cardinality(ids[b])
  BY <1>4, PoolCount
<1>9. Cardinality(members) = n /\ n # None
  <2>1. Cardinality(ids[b] \cup {i}) = Cardinality(ids[b]) + 1
    <3> HIDE DEF i, b
    <3>1. QED
      BY <1>7, <1>8, FS_AddElement
  <2>2. QED
    BY <2>1, <1>8 DEF None
<1>10. d \notin Members(pool[h])
  <2>1. \A j \in ids[b] : area[pool[h][j]].id = j /\ j # None
    BY <1>4, <1>5, SuperOfIs, Numbers
  <2>2. QED
    BY <2>1, <1>2, <1>5
<1>11. n <= NDevices
  <2>1. IsFiniteSet(Members(pool[h])) /\ IsFiniteSet(Device) /\ Cardinality(Device) = NDevices
    BY <1>5, Numbers, FS_Subset
  <2>2. Cardinality(Members(pool[h]) \cup {d}) = Cardinality(Members(pool[h])) + 1
    BY <2>1, <1>10, FS_AddElement
  <2>3. Members(pool[h]) \cup {d} \subseteq Device
    BY <1>5
  <2>4. Cardinality(Members(pool[h]) \cup {d}) <= Cardinality(Device)
    BY <2>1, <2>3, FS_Subset
  <2>5. QED
    BY <2>1, <2>2, <2>4, <1>8
<1>12. Cardinality(members) \in 0 .. NDevices
  BY <1>8, <1>9, <1>11 DEF PoolAssumption
<1>13. members \in SUBSET Id /\ members # {} /\ ext[b] \subseteq members
  BY <1>5, <1>7
<1>14. \E j \in Id \ ids[b] : members = ids[b] \cup {j}
  BY <1>7
<1> HIDE DEF b, members, n
<1>15. QED
  BY <1>2, <1>5, <1>9, <1>12, <1>13, <1>14, BeginStep DEF b

(* A device less.                                                           *)
LEMMA RemoveDeviceStep ==
  ASSUME PoolAssumption, OneHandle, PInv, NEW h \in Handle, RemoveDevice(h)
  PROVE  PInv'
<1> DEFINE b == sb[h].tx
           n == Cardinality(Members(pool[h]))
<1>1. n > 1
  BY DEF RemoveDevice
<1>2. PICK i \in ids[b] \ ext[b] :
        pool[h][i] # None /\ Begin(h, ids[b] \ {i}, ext[b], n - 1, None, pool[h][i])
  BY DEF RemoveDevice
<1> DEFINE members == ids[b] \ {i}
           leave == pool[h][i]
           c == n - 1
<1>3. state[h] = Idle
  BY <1>2 DEF Begin
<1>4. TypeOK /\ TxSound /\ PoolKnown(h)
  BY <1>3, RestNow
<1>5. ids[b] \subseteq Id /\ ext[b] \subseteq ids[b]
  BY <1>4, PoolKnownIs
<1>6. /\ IsFiniteSet(ids[b]) /\ Cardinality(ids[b]) \in Nat /\ n = Cardinality(ids[b])
      /\ Cardinality(ids[b]) \in 0 .. NDevices
  BY <1>4, PoolCount
<1>7. Cardinality(members) = c
  <2>1. i \in ids[b]
    BY <1>2
  <2>2. Cardinality(ids[b] \ {i}) = Cardinality(ids[b]) - 1
    <3> HIDE DEF b
    <3>1. QED
      BY <2>1, <1>6, FS_RemoveElement
  <2>3. QED
    BY <2>2, <1>6
<1>8. c # None /\ c \in 0 .. NDevices
  BY <1>1, <1>6 DEF None, PoolAssumption
<1>9. members # {}
  BY <1>7, <1>8, FS_EmptySet DEF None
<1>10. members \in SUBSET Id /\ ext[b] \subseteq members
  BY <1>2, <1>5
<1>11. \E j \in ids[b] : leave = pool[h][j] /\ members = ids[b] \ {j}
  BY <1>2
<1>12. Begin(h, members, ext[b], c, None, leave)
  BY <1>2
<1> HIDE DEF b, members, c, leave
<1>13. QED
  BY <1>5, <1>7, <1>8, <1>9, <1>10, <1>11, <1>12, BeginStep DEF b

(* The blocks overwrite what the base has not.                              *)
LEMMA PutBlocksStep ==
  ASSUME PoolAssumption, OneHandle, PInv, NEW h \in Handle, PutBlocks(h)
  PROVE  PInv'
<1> DEFINE b == sb[h].tx
           t == mine[h]
           p == pool[h]
           S == {p[i] : i \in ext[t] \cup ext[b]}
<1>1. /\ state[h] = Blocks
      /\ data' = [d \in Device |-> IF d \in S THEN (data[d] \cap {b}) \cup {t} ELSE data[d]]
      /\ dataCut' = [d \in Device |->
           IF d \in S THEN dataCut[d] \cup {data[d] \cap {b}, (data[d] \cap {b}) \cup {t}}
           ELSE dataCut[d]]
      /\ state' = [state EXCEPT ![h] = Placed]
      /\ UNCHANGED <<area, areaCut, history, sb, pool, work, kept, cuts, faults>>
  BY DEF PutBlocks, WriteBlocks
<1>2. /\ TypeOK /\ TxSound /\ PoolKnown(h) /\ PlanSound(h) /\ ImagesSound(h)
      /\ kept = {b} /\ OlderLack(b) /\ Full(b, p) /\ Holds(b, p) /\ Strays(b, Members(p))
      /\ \A d \in Device : areaCut[d] = {area[d]}
  BY <1>1, RestNow
<1>3. /\ b \in Tx /\ ids[b] \subseteq Id /\ ext[b] \subseteq ids[b]
      /\ \A i \in ids[b] : p[i] \in Members(p)
      /\ Members(p) \subseteq Device
  BY <1>2, PoolKnownIs
<1>4. t \in Tx /\ ext[t] \subseteq ids[b]
  BY <1>2, Types DEF PlanSound
<1>5. \A d \in Device :
        /\ d \in S => data'[d] = (data[d] \cap {b}) \cup {t}
        /\ d \notin S => data'[d] = data[d] /\ dataCut'[d] = dataCut[d]
        /\ d \in S => dataCut'[d] = dataCut[d] \cup {data[d] \cap {b}, (data[d] \cap {b}) \cup {t}}
  BY <1>1
<1>6. \A d \in S : \E i \in ids[b] : d = p[i]
  BY <1>3, <1>4
<1>7. \A i \in ext[t] : p[i] \in S
  OBVIOUS
<1> HIDE DEF S
<1>8. \A d \in Device : data[d] \in dataCut[d] /\ data[d] \subseteq Tx /\ dataCut[d] \subseteq SUBSET Tx
  BY <1>2, Types
<1>9. TypeOK'
  <2>1. data' \in [Device -> SUBSET Tx]
    <3>1. \A d \in Device : data'[d] \in SUBSET Tx
      BY <1>3, <1>4, <1>5, <1>8
    <3>2. data' = [d \in Device |-> data'[d]]
      BY <1>1
    <3>3. QED
      BY <3>1, <3>2
  <2>2. dataCut' \in [Device -> SUBSET SUBSET Tx]
    <3>1. \A d \in Device : dataCut'[d] \in SUBSET SUBSET Tx
      BY <1>3, <1>4, <1>5, <1>8
    <3>2. dataCut' = [d \in Device |-> dataCut'[d]]
      BY <1>1
    <3>3. QED
      BY <3>1, <3>2
  <2>3. \A d \in Device : data'[d] \in dataCut'[d]
    BY <1>5, <1>8
  <2>4. QED
    BY <1>1, <1>2, <2>1, <2>2, <2>3 DEF TypeOK, history, work
<1>10. state'[h] = Placed
  BY <1>1, <1>2 DEF TypeOK
<1>11. gen' = gen /\ ids' = ids /\ ext' = ext /\ made' = made
       /\ joining' = joining /\ leaving' = leaving /\ target' = target
       /\ mine' = mine /\ image' = image /\ todo' = todo
  BY <1>1 DEF history, work
<1>12. TxSound' /\ CountsExact' /\ OnePerGeneration'
  BY <1>1, <1>11, OpenNow DEF TxSound, CountsExact, OnePerGeneration, History
<1>13. \A i \in ext[b] : \A c \in dataCut'[p[i]] : b \in c
  <2> SUFFICES ASSUME NEW i \in ext[b], NEW c \in dataCut'[p[i]] PROVE b \in c
    OBVIOUS
  <2>1. p[i] \in Device /\ \A c1 \in dataCut[p[i]] : b \in c1
    BY <1>2, <1>3 DEF Holds
  <2>2. b \in data[p[i]]
    BY <2>1, <1>8
  <2>3. QED
    BY <2>1, <2>2, <1>5
<1>14. SuperblockVouches'
  <2>1. SuperblockVouches
    BY <1>1, OpenNow
  <2> SUFFICES ASSUME NEW d \in Device, NEW a \in areaCut[d], a.id # None, a.id \in ext[a.tx],
                      NEW c \in dataCut'[d]
               PROVE  a.tx \in c
    BY <1>1, <1>11 DEF SuperblockVouches
  <2>2. CASE d \notin S
    BY <2>1, <2>2, <1>5 DEF SuperblockVouches
  <2>3. CASE d \in S
    <3>1. PICK i \in ids[b] : d = p[i]
      BY <2>3, <1>6
    <3>2. a = SuperOf(b, i)
      BY <3>1, <1>2 DEF Full
    <3>3. a.tx = b /\ a.id = i
      BY <3>2, SuperOfIs
    <3>4. QED
      BY <3>1, <3>3, <1>13
  <2>4. QED
    BY <2>2, <2>3
<1>15. PoolKnown(h)' /\ Members(p)' = Members(p) /\ PlanSound(h)' /\ Committed(h)' = Committed(h)
  BY <1>1, <1>2, <1>10, <1>11, SameCall
<1>16. ImagesSound(h)'
  <2>1. \A i : SuperOf(t, i)' = SuperOf(t, i)
    BY <1>11 DEF SuperOf
  <2>2. Members(Committed(h))' = Members(Committed(h))
    BY <1>15 DEF Members
  <2>3. QED
    BY <1>1, <1>2, <1>10, <1>11, <1>15, <2>1, <2>2 DEF ImagesSound
<1>17. AtRest(h)'
  <2>1. NowTx(h)' = b /\ NowPool(h)' = p /\ ~ Finishing(h)'
    BY <1>1, <1>10 DEF NowTx, NowPool, Finishing
  <2>2. Full(b, p)' /\ OlderLack(b)' /\ Strays(b, Members(p))'
    BY <1>1, <1>2, <1>11, <1>15 DEF Full, OlderLack, SuperOf, History, Strays
  <2>3. Holds(b, p)'
    BY <1>1, <1>11, <1>13 DEF Holds
  <2>4. kept' = {b}
    BY <1>1, <1>2
  <2>5. b' = b /\ p' = p
    BY <1>1
  <2> HIDE DEF b, p
  <2>6. QED
    BY <1>10, <2>1, <2>2, <2>3, <2>4, <2>5, <1>15 DEF AtRest
<1>18. \A i \in ext'[mine'[h]] : mine'[h] \in data'[pool'[h][i]]
  BY <1>1, <1>3, <1>4, <1>5, <1>7, <1>11
<1>19. \A d \in Device : areaCut'[d] = {area'[d]}
  BY <1>1, <1>2
<1>20. OpenSound(h)'
  BY <1>10, <1>15, <1>16, <1>17, <1>18, <1>19 DEF OpenSound, Committing, Replacing, Finishing
<1>21. QED
  BY <1>9, <1>10, <1>12, <1>14, <1>20, OpenInv

(* The barrier: the blocks are there before a superblock is written.        *)
LEMMA BarrierStep ==
  ASSUME PoolAssumption, OneHandle, PInv, NEW h \in Handle, Barrier(h)
  PROVE  PInv'
<1> DEFINE b == sb[h].tx
           t == mine[h]
           p == pool[h]
           q == Committed(h)
<1>1. /\ state[h] = Placed
      /\ areaCut' = [x \in Device |-> IF x \in Members(p) THEN {area[x]} ELSE areaCut[x]]
      /\ dataCut' = [x \in Device |-> IF x \in Members(p) THEN {data[x]} ELSE dataCut[x]]
      /\ state' = [state EXCEPT ![h] = Supers]
      /\ UNCHANGED <<area, data, history, sb, pool, work, kept, cuts, faults>>
  BY DEF Barrier, FlushDevices
<1>2. /\ TypeOK /\ TxSound /\ PoolKnown(h) /\ PlanSound(h) /\ ImagesSound(h)
      /\ kept = {b} /\ OlderLack(b) /\ Full(b, p) /\ Holds(b, p) /\ Strays(b, Members(p))
      /\ \A d \in Device : areaCut[d] = {area[d]}
  BY <1>1, RestNow
<1>3. /\ ids[b] \subseteq Id /\ ext[b] \subseteq ids[b]
      /\ \A i \in ids[b] : p[i] \in Members(p)
      /\ Members(p) \subseteq Device
  BY <1>2, PoolKnownIs
<1>4. ext[t] \subseteq ids[b]
  BY <1>2 DEF PlanSound
<1>5. /\ IsPool(t, q) /\ ids[t] \subseteq Id
      /\ joining[h] # None => joining[h] \in Device \ Members(p)
  BY <1>2, CommittedIs
<1>6. \A x \in Device : /\ area[x] \in areaCut[x] /\ area[x] \in Area /\ areaCut[x] \subseteq Area
                        /\ data[x] \in dataCut[x] /\ dataCut[x] \subseteq SUBSET Tx
  BY <1>2, Types
<1>7. TypeOK'
  <2>1. areaCut' \in [Device -> SUBSET Area] /\ dataCut' \in [Device -> SUBSET SUBSET Tx]
    BY <1>1, <1>6
  <2>2. \A x \in Device : area[x] \in areaCut'[x] /\ data[x] \in dataCut'[x]
    BY <1>1, <1>6
  <2>3. QED
    BY <1>1, <1>2, <2>1, <2>2 DEF TypeOK, history, work
<1>8. Echo
  BY <1>1, <1>6 DEF Echo
<1>9. TxSound' /\ CountsExact' /\ OnePerGeneration' /\ SuperblockVouches'
  BY <1>1, <1>8, EchoKeeps, OpenNow
<1>10. state'[h] = Supers
  BY <1>1, <1>2 DEF TypeOK
<1>11. gen' = gen /\ ids' = ids /\ ext' = ext /\ made' = made
       /\ joining' = joining /\ leaving' = leaving /\ target' = target
       /\ mine' = mine /\ image' = image /\ todo' = todo
  BY <1>1 DEF history, work
<1>12. PoolKnown(h)' /\ Members(p)' = Members(p) /\ PlanSound(h)' /\ Committed(h)' = q
  BY <1>1, <1>2, <1>10, <1>11, SameCall
<1>13. Members(Committed(h))' = Members(q)
  BY <1>12 DEF Members
<1>14. ImagesSound(h)'
  <2>1. \A i : SuperOf(t, i)' = SuperOf(t, i)
    BY <1>11 DEF SuperOf
  <2>2. QED
    BY <1>1, <1>2, <1>10, <1>11, <1>12, <1>13, <2>1 DEF ImagesSound
<1>15. \A x \in Device : areaCut'[x] = {area'[x]} /\ areaCut'[x] = areaCut[x]
  BY <1>1, <1>2
<1>16. SupersOut(h)'
  <2>1. \A i \in ids[b] : \A a \in areaCut'[p[i]] : a.id = i /\ a.tx \in {b, t}
    BY <1>2, <1>3, <1>15, SuperOfIs DEF Full
  <2>2. \A i \in ids[t] : q[i] \in todo[h] /\ q[i] \in Device
    <3>1. todo[h] = Members(q)
      BY <1>1, <1>2 DEF ImagesSound
    <3>2. \A i \in ids[t] : q[i] \in Members(q) /\ q[i] \in Device
      BY <1>5 DEF IsPool, Members
    <3>3. QED
      BY <3>1, <3>2
  <2>3. /\ \A i \in ext[b] : \A c \in dataCut'[p[i]] : b \in c
        /\ \A i \in ext[t] : \A c \in dataCut'[p[i]] : t \in c
    <3>1. \A i \in ext[b] : b \in data[p[i]]
      BY <1>2, <1>3, <1>6 DEF Holds
    <3>2. \A i \in ext[t] : t \in data[p[i]]
      BY <1>1, RestNow DEF OpenSound
    <3>3. \A i \in ids[b] : dataCut'[p[i]] = {data[p[i]]}
      BY <1>1, <1>3
    <3>4. QED
      BY <1>3, <1>4, <3>1, <3>2, <3>3
  <2>4. \A x \in Device \ Members(p) : \A a \in areaCut'[x] : a.id # None => gen[a.tx] < gen[b]
    BY <1>2, <1>15 DEF Strays
  <2>5. \A x \in History : gen[x] < gen[b] =>
          \E i \in ids[x] : \A d \in Device : \A a \in areaCut'[d] : ~ (a.id = i /\ a.tx = x)
    BY <1>2, <1>15 DEF OlderLack
  <2>6. b' = b /\ t' = t /\ p' = p /\ q' = q
    BY <1>1, <1>11, <1>12
  <2> HIDE DEF b, t, p, q
  <2>7. Holds(b, p)' /\ Holds(t, p)' /\ OlderLack(b)' /\ Strays(b, Members(p) \cup {joining[h]})'
    BY <1>11, <1>12, <2>3, <2>4, <2>5, <2>6 DEF Holds, OlderLack, Strays, History
  <2>8. \A i \in ids'[t'] : IF q'[i] \in todo'[h] THEN areaCut'[q'[i]] = {area'[q'[i]]}
                            ELSE area'[q'[i]] = SuperOf(t, i)'
    BY <1>11, <1>15, <2>2, <2>6
  <2>9. joining'[h] # None => \A a \in areaCut'[joining'[h]] :
           a.id # None => a.tx = t' \/ gen'[a.tx] < gen'[b']
    BY <1>5, <1>11, <2>4, <2>6
  <2>10. kept' = {b'} /\ \A i \in ids'[b'] : \A a \in areaCut'[p'[i]] : a.id = i /\ a.tx \in {b', t'}
    BY <1>1, <1>2, <1>11, <2>1, <2>6
  <2>11. QED
    BY <2>7, <2>8, <2>9, <2>10 DEF SupersOut, b, t, p, q
<1>17. OpenSound(h)'
  BY <1>10, <1>12, <1>14, <1>15, <1>16 DEF OpenSound, Committing, Replacing, Finishing
<1>18. QED
  BY <1>7, <1>9, <1>10, <1>17, OpenInv

(* What a commit has with its superblocks going out.                        *)
LEMMA SupersNow ==
  ASSUME PoolAssumption, PInv, NEW h \in Handle, state[h] = Supers
  PROVE  /\ TypeOK /\ TxSound /\ PoolKnown(h) /\ PlanSound(h) /\ ImagesSound(h) /\ SupersOut(h)
         /\ sb[h].tx \in History /\ sb[h].tx \in Tx /\ mine[h] \in History /\ mine[h] \in Tx
         /\ gen[mine[h]] = gen[sb[h].tx] + 1 /\ gen[sb[h].tx] \in Nat
         /\ \A x \in History : gen[x] \in Nat
         /\ ids[sb[h].tx] \subseteq Id /\ ids[mine[h]] \subseteq Id
         /\ ext[sb[h].tx] \subseteq ids[sb[h].tx]
         /\ ext[mine[h]] \subseteq ids[mine[h]] \cap ids[sb[h].tx]
         /\ \A i \in ids[sb[h].tx] : pool[h][i] \in Members(pool[h]) /\ pool[h][i] \in Device
         /\ Members(pool[h]) = {pool[h][i] : i \in ids[sb[h].tx]}
         /\ Members(Committed(h)) = {Committed(h)[i] : i \in ids[mine[h]]}
         /\ \A i \in ids[mine[h]] : Committed(h)[i] \in Device /\ i # None
         /\ \A d \in Device \ (Members(Committed(h)) \ todo[h]) : areaCut[d] = {area[d]}
         /\ \A d \in Device : \A a \in areaCut[d] : a.id # None =>
              a.tx = mine[h] \/ a.tx = sb[h].tx \/ gen[a.tx] < gen[sb[h].tx]
         /\ \A d \in Device \ Members(pool[h]) : \A a \in areaCut[d] : a.id # None =>
              gen[a.tx] < gen[sb[h].tx] \/ (d = joining[h] /\ a.tx = mine[h])
<1> DEFINE b == sb[h].tx
           t == mine[h]
           p == pool[h]
           q == Committed(h)
<1>1. /\ TypeOK /\ TxSound /\ PoolKnown(h) /\ PlanSound(h) /\ ImagesSound(h) /\ SupersOut(h)
      /\ \A d \in Device \ (Members(q) \ todo[h]) : areaCut[d] = {area[d]}
  BY OpenNow DEF Committing, OpenSound, Unflushed
<1>2. b \in History /\ t \in History /\ b \in Tx /\ t \in Tx /\ History \subseteq Tx
  <2>1. History \subseteq Tx
    BY <1>1, Numbers DEF TypeOK, History, Tx
  <2>2. QED
    BY <2>1, <1>1 DEF PoolKnown, PlanSound
<1>3. gen[t] = gen[b] + 1 /\ gen[b] \in Nat /\ \A x \in History : gen[x] \in Nat
  BY <1>1, <1>2 DEF TypeOK, PlanSound
<1>4. /\ ids[b] \subseteq Id /\ ext[b] \subseteq ids[b]
      /\ \A i \in ids[b] : p[i] \in Members(p) /\ p[i] \in Device
      /\ Members(p) = {p[i] : i \in ids[b]}
  BY <1>1, PoolKnownIs
<1>5. ids[t] \subseteq Id /\ ext[t] \subseteq ids[t] /\ IsPool(t, q) /\ ext[t] \subseteq ids[b]
  BY <1>1, CommittedIs DEF PlanSound
<1>6. /\ \A i \in ids[t] : q[i] \in Device /\ i # None
      /\ Members(q) = {q[i] : i \in ids[t]}
  BY <1>5, Numbers DEF IsPool, Members
<1>7. \A d \in Device \ Members(p) : \A a \in areaCut[d] : a.id # None =>
        gen[a.tx] < gen[b] \/ (d = joining[h] /\ a.tx = t)
  <2> SUFFICES ASSUME NEW d \in Device \ Members(p), NEW a \in areaCut[d], a.id # None
               PROVE  gen[a.tx] < gen[b] \/ (d = joining[h] /\ a.tx = t)
    OBVIOUS
  <2>1. CASE d = joining[h]
    BY <2>1, <1>1, Numbers DEF SupersOut
  <2>2. CASE d # joining[h]
    BY <2>2, <1>1 DEF SupersOut, Strays
  <2>3. QED
    BY <2>1, <2>2
<1>8. \A d \in Device : \A a \in areaCut[d] : a.id # None =>
        a.tx = t \/ a.tx = b \/ gen[a.tx] < gen[b]
  <2> SUFFICES ASSUME NEW d \in Device, NEW a \in areaCut[d], a.id # None
               PROVE  a.tx = t \/ a.tx = b \/ gen[a.tx] < gen[b]
    OBVIOUS
  <2>1. CASE d \in Members(p)
    BY <2>1, <1>1, <1>4 DEF SupersOut
  <2>2. CASE d \notin Members(p)
    BY <2>2, <1>7
  <2>3. QED
    BY <2>1, <2>2
<1>9. QED
  BY <1>1, <1>2, <1>3, <1>4, <1>5, <1>6, <1>7, <1>8

(* A superblock goes out over blocks that are all there.                    *)
LEMMA PutSuperStep ==
  ASSUME PoolAssumption, OneHandle, PInv, NEW h \in Handle, PutSuper(h)
  PROVE  PInv'
<1> DEFINE b == sb[h].tx
           t == mine[h]
           p == pool[h]
           q == Committed(h)
           d == IF joining[h] \in todo[h] THEN joining[h] ELSE FirstOf(h, todo[h])
           a0 == image[h][d]
           a1 == [a0 EXCEPT !.first = FALSE]
<1>1. /\ state[h] = Supers /\ todo[h] # {}
      /\ area' = [area EXCEPT ![d] = a0]
      /\ areaCut' = [areaCut EXCEPT ![d] = @ \cup {a0} \cup {a1}]
      /\ todo' = [todo EXCEPT ![h] = @ \ {d}]
      /\ UNCHANGED <<data, dataCut, history, state, sb, pool, mine, joining, leaving,
                     target, image, kept, cuts, faults>>
  BY DEF PutSuper, WriteSuper, WriteArea
<1>2. /\ TypeOK /\ TxSound /\ PoolKnown(h) /\ PlanSound(h) /\ ImagesSound(h) /\ SupersOut(h)
      /\ b \in History /\ b \in Tx /\ t \in History /\ t \in Tx
      /\ gen[t] = gen[b] + 1 /\ gen[b] \in Nat /\ \A x \in History : gen[x] \in Nat
      /\ ids[b] \subseteq Id /\ ids[t] \subseteq Id
      /\ ext[b] \subseteq ids[b] /\ ext[t] \subseteq ids[t] \cap ids[b]
      /\ \A i \in ids[b] : p[i] \in Members(p) /\ p[i] \in Device
      /\ Members(p) = {p[i] : i \in ids[b]}
      /\ Members(q) = {q[i] : i \in ids[t]}
      /\ \A i \in ids[t] : q[i] \in Device /\ i # None
      /\ \A x \in Device \ (Members(q) \ todo[h]) : areaCut[x] = {area[x]}
      /\ \A x \in Device : \A a \in areaCut[x] : a.id # None =>
           a.tx = t \/ a.tx = b \/ gen[a.tx] < gen[b]
  BY <1>1, SupersNow
<1>3. /\ \A i \in ids[t] \cap ids[b] : q[i] = p[i]
      /\ \A i \in ids[t] \ ids[b] : q[i] = joining[h] /\ joining[h] \in Device \ Members(p)
      /\ Members(q) = (Members(p) \ {leaving[h]}) \cup ({joining[h]} \ {None})
      /\ \A i, j \in ids[t] : q[i] = q[j] => i = j
  BY <1>2, CommittedIs DEF WrittenMembers
<1>4. /\ \A i \in ids[t] : image[h][q[i]] = SuperOf(t, i)
      /\ todo[h] \subseteq Members(q)
  BY <1>2 DEF ImagesSound
<1>5. d \in todo[h]
  <2>1. CASE joining[h] \in todo[h]
    BY <2>1
  <2>2. CASE joining[h] \notin todo[h]
    <3>1. PICK x \in todo[h] : x \in Members(p)
      BY <2>2, <1>1, <1>3, <1>4
    <3>2. \E i \in Id : p[i] \in todo[h]
      BY <3>1, <1>2
    <3>3. FirstOf(h, todo[h]) \in todo[h]
      BY <3>2, FirstOfIs
    <3>4. QED
      BY <2>2, <3>3
  <2>3. QED
    BY <2>1, <2>2
<1> HIDE DEF d
<1>6. PICK r \in ids[t] : d = q[r]
  BY <1>2, <1>4, <1>5
<1>7. d \in Device /\ a0 = SuperOf(t, r) /\ a0 \in Area
  BY <1>2, <1>4, <1>6, Types
<1>8. a1 \in Area /\ a1.tx = a0.tx /\ a1.id = a0.id /\ a1.count = a0.count
  BY <1>7 DEF Area
<1>9. a0.tx = t /\ a0.id = r /\ a0.count = Cardinality(ids[t])
  BY <1>7, SuperOfIs
<1> HIDE DEF a0, a1
<1>10. \A x \in Device :
         /\ area'[x] = IF x = d THEN a0 ELSE area[x]
         /\ x # d => areaCut'[x] = areaCut[x]
  BY <1>1, <1>2, <1>7 DEF TypeOK
<1>11. areaCut'[d] = areaCut[d] \cup {a0} \cup {a1}
  BY <1>1, <1>2, <1>7 DEF TypeOK
<1>12. \A x \in Device : \A a \in areaCut'[x] :
         \/ a \in areaCut[x]
         \/ x = d /\ a.tx = t /\ a.id = r /\ a.count = Cardinality(ids[t])
  BY <1>8, <1>9, <1>10, <1>11
<1>13. todo'[h] = todo[h] \ {d}
  BY <1>1, <1>2 DEF TypeOK
<1>14. TypeOK'
  <2>1. area' \in [Device -> Area]
    BY <1>1, <1>2, <1>7 DEF TypeOK
  <2>2. areaCut' \in [Device -> SUBSET Area]
    BY <1>1, <1>2, <1>7, <1>8 DEF TypeOK
  <2>3. \A x \in Device : area'[x] \in areaCut'[x]
    <3>1. \A x \in Device : area[x] \in areaCut[x]
      BY <1>2 DEF TypeOK
    <3>2. QED
      BY <3>1, <1>10, <1>11
  <2>4. todo' \in [Handle -> SUBSET Device]
    BY <1>1, <1>2 DEF TypeOK
  <2>5. QED
    BY <1>1, <1>2, <2>1, <2>2, <2>3, <2>4 DEF TypeOK, history
<1>15. gen' = gen /\ ids' = ids /\ ext' = ext /\ made' = made /\ state' = state
       /\ joining' = joining /\ leaving' = leaving /\ target' = target
       /\ mine' = mine /\ image' = image /\ UNCHANGED history
  BY <1>1 DEF history
<1>16. TxSound'
  BY <1>2, <1>15 DEF TxSound, History
<1>17. CountsExact'
  <2>1. CountsExact
    BY <1>1, OpenNow
  <2>2. QED
    BY <2>1, <1>2, <1>6, <1>12, <1>15 DEF CountsExact, History
<1>18. OnePerGeneration'
  <2>1. OnePerGeneration
    BY <1>1, OpenNow
  <2>2. \A x \in Device : \A a \in areaCut[x] : a.id # None /\ gen[a.tx] = gen[t] => a.tx = t
    <3> SUFFICES ASSUME NEW x \in Device, NEW a \in areaCut[x], a.id # None, gen[a.tx] = gen[t]
                 PROVE  a.tx = t
      OBVIOUS
    <3>1. a.tx = t \/ a.tx = b \/ gen[a.tx] < gen[b]
      BY <1>2
    <3> HIDE DEF t, b
    <3>2. QED
      BY <3>1, <1>2
  <2> SUFFICES ASSUME NEW x \in Device, NEW y \in Device, NEW a \in areaCut'[x],
                      NEW c \in areaCut'[y], a.id # None, c.id # None, gen[a.tx] = gen[c.tx]
               PROVE  a.tx = c.tx
    BY <1>15 DEF OnePerGeneration
  <2>3. CASE a \in areaCut[x] /\ c \in areaCut[y]
    BY <2>1, <2>3 DEF OnePerGeneration
  <2>4. CASE a \in areaCut[x] /\ c.tx = t
    BY <2>2, <2>4
  <2>5. CASE a.tx = t /\ c \in areaCut[y]
    BY <2>2, <2>5
  <2>6. QED
    BY <2>3, <2>4, <2>5, <1>12
<1>19. SuperblockVouches'
  <2>1. SuperblockVouches
    BY <1>1, OpenNow
  <2> SUFFICES ASSUME NEW x \in Device, NEW a \in areaCut'[x], a.id # None, a.id \in ext[a.tx],
                      NEW c \in dataCut[x]
               PROVE  a.tx \in c
    BY <1>1, <1>15 DEF SuperblockVouches
  <2>2. CASE a \in areaCut[x]
    BY <2>1, <2>2 DEF SuperblockVouches
  <2>3. CASE x = d /\ a.tx = t /\ a.id = r
    <3>1. d = p[r] /\ r \in ext[t]
      BY <2>3, <1>2, <1>3, <1>6
    <3>2. QED
      BY <2>3, <3>1, <1>2 DEF SupersOut, Holds
  <2>4. QED
    BY <2>2, <2>3, <1>12
<1>20. PoolKnown(h)' /\ Members(p)' = Members(p) /\ PlanSound(h)' /\ Committed(h)' = q
  BY <1>1, <1>2, <1>15, SameCall
<1>21. Members(Committed(h))' = Members(q)
  BY <1>20 DEF Members
<1>22. ImagesSound(h)'
  <2>1. \A i : SuperOf(t, i)' = SuperOf(t, i)
    BY <1>15 DEF SuperOf
  <2>2. QED
    BY <1>1, <1>4, <1>13, <1>15, <1>20, <1>21, <2>1 DEF ImagesSound
<1>23. SupersOut(h)'
  <2>1. \A i \in ids[b] : \A a \in areaCut'[p[i]] : a.id = i /\ a.tx \in {b, t}
    <3> SUFFICES ASSUME NEW i \in ids[b], NEW a \in areaCut'[p[i]]
                 PROVE  a.id = i /\ a.tx \in {b, t}
      OBVIOUS
    <3>1. p[i] \in Device /\ p[i] \in Members(p)
      BY <1>2
    <3>2. CASE a \in areaCut[p[i]]
      BY <3>2, <1>2 DEF SupersOut
    <3>3. CASE p[i] = d /\ a.tx = t /\ a.id = r
      <4>1. r \in ids[b]
        BY <3>1, <3>3, <1>3, <1>6
      <4>2. p[r] = p[i]
        BY <4>1, <3>3, <1>3, <1>6
      <4>3. r = i
        BY <4>1, <4>2, <1>2 DEF PoolKnown
      <4>4. QED
        BY <3>3, <4>3
    <3>4. QED
      BY <3>1, <3>2, <3>3, <1>12
  <2>2. \A i \in ids[t] : IF q[i] \in todo'[h] THEN areaCut'[q[i]] = {area'[q[i]]}
                          ELSE area'[q[i]] = SuperOf(t, i)
    <3> SUFFICES ASSUME NEW i \in ids[t]
                 PROVE  IF q[i] \in todo'[h] THEN areaCut'[q[i]] = {area'[q[i]]}
                        ELSE area'[q[i]] = SuperOf(t, i)
      OBVIOUS
    <3>1. q[i] \in Device
      BY <1>2
    <3>2. IF q[i] \in todo[h] THEN areaCut[q[i]] = {area[q[i]]} ELSE area[q[i]] = SuperOf(t, i)
      BY <1>2 DEF SupersOut
    <3>3. CASE q[i] = d
      <4>1. i = r
        BY <3>3, <1>3, <1>6
      <4>2. q[i] \notin todo'[h]
        BY <3>3, <1>13
      <4>3. area'[q[i]] = a0
        BY <3>1, <3>3, <1>10
      <4>4. QED
        BY <4>1, <4>2, <4>3, <1>7
    <3>4. CASE q[i] # d
      BY <3>1, <3>2, <3>4, <1>10, <1>13
    <3>5. QED
      BY <3>3, <3>4
  <2>3. OlderLack(b) /\ kept = {b} /\ Holds(b, p) /\ Holds(t, p)
        /\ Strays(b, Members(p) \cup {joining[h]})
        /\ (joining[h] # None => \A a \in areaCut[joining[h]] :
              a.id # None => a.tx = t \/ gen[a.tx] < gen[b])
    BY <1>2 DEF SupersOut
  <2>4. \A x \in History : gen[x] < gen[b] =>
          \E i \in ids[x] : \A y \in Device : \A a \in areaCut'[y] : ~ (a.id = i /\ a.tx = x)
    <3> SUFFICES ASSUME NEW x \in History, gen[x] < gen[b]
                 PROVE  \E i \in ids[x] : \A y \in Device : \A a \in areaCut'[y] :
                          ~ (a.id = i /\ a.tx = x)
      OBVIOUS
    <3>1. PICK i \in ids[x] : \A y \in Device : \A a \in areaCut[y] : ~ (a.id = i /\ a.tx = x)
      BY <2>3 DEF OlderLack
    <3> HIDE DEF t, b
    <3>2. x # t
      BY <1>2
    <3>3. QED
      BY <3>1, <3>2, <1>12
  <2>5. \A x \in Device \ (Members(p) \cup {joining[h]}) : \A a \in areaCut'[x] :
          a.id # None => gen[a.tx] < gen[b]
    <3>1. \A x \in Device \ (Members(p) \cup {joining[h]}) : x # d
      BY <1>3, <1>6, <1>2
    <3>2. QED
      BY <3>1, <2>3, <1>10 DEF Strays
  <2>6. joining[h] # None => \A a \in areaCut'[joining[h]] :
          a.id # None => a.tx = t \/ gen[a.tx] < gen[b]
    <3>1. joining[h] # None => joining[h] \in Device
      BY <1>2, Types
    <3>2. QED
      BY <3>1, <2>3, <1>12
  <2>7. b' = b /\ t' = t /\ p' = p /\ q' = q
    BY <1>1, <1>15, <1>20
  <2>8. \A i : SuperOf(t, i)' = SuperOf(t, i)
    BY <1>15 DEF SuperOf
  <2> HIDE DEF b, t, p, q
  <2>9. Holds(b, p)' /\ Holds(t, p)' /\ OlderLack(b)' /\ Strays(b, Members(p) \cup {joining[h]})'
    BY <1>1, <1>15, <1>20, <2>3, <2>4, <2>5, <2>7 DEF Holds, OlderLack, Strays, History
  <2>10. /\ kept' = {b'}
         /\ \A i \in ids'[b'] : \A a \in areaCut'[p'[i]] : a.id = i /\ a.tx \in {b', t'}
         /\ \A i \in ids'[t'] : IF q'[i] \in todo'[h] THEN areaCut'[q'[i]] = {area'[q'[i]]}
                                ELSE area'[q'[i]] = SuperOf(t, i)'
         /\ joining'[h] # None => \A a \in areaCut'[joining'[h]] :
              a.id # None => a.tx = t' \/ gen'[a.tx] < gen'[b']
    BY <1>1, <1>15, <2>1, <2>2, <2>3, <2>6, <2>7, <2>8
  <2>11. QED
    BY <2>9, <2>10 DEF SupersOut, b, t, p, q
<1>24. \A x \in Device \ Unflushed(h)' : areaCut'[x] = {area'[x]}
  <2>1. Unflushed(h)' = Members(q) \ todo'[h]
    BY <1>1, <1>15, <1>21 DEF Unflushed
  <2>2. d \in Members(q) \ todo'[h]
    BY <1>2, <1>6, <1>13
  <2>3. QED
    BY <2>1, <2>2, <1>2, <1>10, <1>13
<1>25. OpenSound(h)'
  BY <1>1, <1>15, <1>20, <1>22, <1>23, <1>24 DEF OpenSound, Committing, Replacing, Finishing
<1>26. QED
  BY <1>1, <1>14, <1>15, <1>16, <1>17, <1>18, <1>19, <1>25, OpenInv

(* The commit point: every device written has the transaction, and no set   *)
(* of devices has all of an older one.                                      *)
LEMMA CommitPointStep ==
  ASSUME PoolAssumption, OneHandle, PInv, NEW h \in Handle, CommitPoint(h)
  PROVE  PInv' /\ kept' = {mine[h]} /\ parent'[mine[h]] \in kept
<1> DEFINE b == sb[h].tx
           t == mine[h]
           p == pool[h]
           q == Committed(h)
           F == WrittenMembers(h, leaving[h]) \cup ({joining[h]} \ {None})
<1>1. /\ state[h] = Supers /\ todo[h] = {}
      /\ areaCut' = [x \in Device |-> IF x \in F THEN {area[x]} ELSE areaCut[x]]
      /\ dataCut' = [x \in Device |-> IF x \in F THEN {data[x]} ELSE dataCut[x]]
      /\ kept' = {t}
      /\ state' = [state EXCEPT ![h] = IF leaving[h] = None THEN Reopen ELSE Wipe]
      /\ UNCHANGED <<area, data, history, sb, pool, work, cuts, faults>>
  BY DEF CommitPoint, FlushDevices
<1>2. /\ TypeOK /\ TxSound /\ PoolKnown(h) /\ PlanSound(h) /\ ImagesSound(h) /\ SupersOut(h)
      /\ b \in History /\ b \in Tx /\ t \in History /\ t \in Tx
      /\ gen[t] = gen[b] + 1 /\ gen[b] \in Nat /\ \A x \in History : gen[x] \in Nat
      /\ ids[b] \subseteq Id /\ ids[t] \subseteq Id
      /\ ext[b] \subseteq ids[b] /\ ext[t] \subseteq ids[t] \cap ids[b]
      /\ \A i \in ids[b] : p[i] \in Members(p) /\ p[i] \in Device
      /\ Members(p) = {p[i] : i \in ids[b]}
      /\ Members(q) = {q[i] : i \in ids[t]}
      /\ \A i \in ids[t] : q[i] \in Device /\ i # None
      /\ \A x \in Device \ (Members(q) \ todo[h]) : areaCut[x] = {area[x]}
      /\ \A x \in Device \ Members(p) : \A a \in areaCut[x] : a.id # None =>
           gen[a.tx] < gen[b] \/ (x = joining[h] /\ a.tx = t)
  BY <1>1, SupersNow
<1>3. /\ \A i \in ids[t] \cap ids[b] : q[i] = p[i]
      /\ \A i \in ids[t] \ ids[b] : q[i] = joining[h] /\ joining[h] \in Device \ Members(p)
      /\ \A i \in ids[b] \ ids[t] : leaving[h] = p[i]
      /\ Members(q) = F
      /\ ids[t] \cap ids[b] # {}
      /\ joining[h] # None => joining[h] \in Device \ Members(p)
  BY <1>2, CommittedIs
<1>4. target[h] = None /\ parent[t] = b
  BY <1>2 DEF PlanSound
<1>5. \A x \in Device : /\ area[x] \in areaCut[x] /\ area[x] \in Area /\ areaCut[x] \subseteq Area
                        /\ data[x] \in dataCut[x] /\ dataCut[x] \subseteq SUBSET Tx
  BY <1>2, Types
<1> HIDE DEF F
<1>6. \A x \in Device :
        /\ areaCut'[x] = {area[x]}
        /\ dataCut'[x] \subseteq dataCut[x]
  BY <1>1, <1>2, <1>3, <1>5
<1>7. TypeOK'
  <2>1. areaCut' \in [Device -> SUBSET Area] /\ dataCut' \in [Device -> SUBSET SUBSET Tx]
    BY <1>1, <1>5
  <2>2. \A x \in Device : area[x] \in areaCut'[x] /\ data[x] \in dataCut'[x]
    BY <1>1, <1>5
  <2>3. state' \in [Handle -> {Closed, Idle} \cup Busy]
    BY <1>1, <1>2 DEF TypeOK
  <2>4. QED
    BY <1>1, <1>2, <2>1, <2>2, <2>3 DEF TypeOK, history, work
<1>8. Echo
  BY <1>1, <1>5, <1>6 DEF Echo
<1>9. TxSound' /\ CountsExact' /\ OnePerGeneration' /\ SuperblockVouches'
  BY <1>1, <1>8, EchoKeeps, OpenNow
<1>10. state'[h] = IF leaving[h] = None THEN Reopen ELSE Wipe
  BY <1>1, <1>2 DEF TypeOK
<1>11. gen' = gen /\ ids' = ids /\ ext' = ext /\ made' = made /\ parent' = parent
       /\ joining' = joining /\ leaving' = leaving /\ target' = target
       /\ mine' = mine /\ image' = image /\ UNCHANGED history
  BY <1>1 DEF history, work
<1>12. PoolKnown(h)' /\ PlanSound(h)' /\ Committed(h)' = q
  BY <1>1, <1>2, <1>10, <1>11, SameCall
<1>13. \A i \in ids[t] : area[q[i]] = SuperOf(t, i)
  BY <1>1, <1>2 DEF SupersOut
<1>14. \A d \in Device \ Members(q) : area[d].id # None => gen[area[d].tx] < gen[t]
  <2> SUFFICES ASSUME NEW d \in Device \ Members(q), area[d].id # None
               PROVE  gen[area[d].tx] < gen[t]
    OBVIOUS
  <2>1. CASE d \in Members(p)
    <3>1. PICK i \in ids[b] : d = p[i]
      BY <2>1, <1>2
    <3>2. i \notin ids[t]
      BY <3>1, <1>2, <1>3
    <3>3. area[d].id = i /\ area[d].tx \in {b, t}
      BY <3>1, <1>2, <1>5 DEF SupersOut
    <3>4. area[d].tx # t
      BY <3>2, <3>3, <1>1, <1>5, OpenNow DEF CountsExact
    <3>5. area[d].tx = b
      BY <3>3, <3>4
    <3> HIDE DEF b, t
    <3>6. QED
      BY <3>5, <1>2
  <2>2. CASE d \notin Members(p)
    <3>1. d # joining[h]
      BY <1>3, Numbers DEF F
    <3>2. gen[area[d].tx] < gen[b]
      BY <2>2, <3>1, <1>2, <1>5
    <3>3. area[d].tx \in History
      BY <1>1, <1>5, OpenNow DEF CountsExact
    <3> HIDE DEF b, t
    <3>4. QED
      BY <3>2, <3>3, <1>2
  <2>3. QED
    BY <2>1, <2>2
<1>15. \A x \in History : gen[x] < gen[t] =>
         \E i \in ids[x] : \A d \in Device : ~ (area[d].id = i /\ area[d].tx = x)
  <2> SUFFICES ASSUME NEW x \in History, gen[x] < gen[t]
               PROVE  \E i \in ids[x] : \A d \in Device : ~ (area[d].id = i /\ area[d].tx = x)
    OBVIOUS
  <2>1. x \in Tx /\ ids[x] # {} /\ ids[x] \subseteq Id
    <3>1. x \in Tx
      BY <1>2, Numbers DEF TypeOK, History, Tx
    <3>2. QED
      BY <3>1, <1>2 DEF TypeOK, TxSound
  <2>2. CASE gen[x] < gen[b]
    BY <2>2, <1>2, <1>5 DEF SupersOut, OlderLack
  <2>3. CASE x # b /\ ~ (gen[x] < gen[b])
    <3>1. PICK i \in ids[x] : i # None
      BY <2>1, Numbers
    <3>2. ASSUME NEW d \in Device, area[d].id = i, area[d].tx = x PROVE FALSE
      <4>1. area[d].tx = t \/ area[d].tx = b \/ gen[area[d].tx] < gen[b]
        BY <3>1, <3>2, <1>1, <1>5, SupersNow
      <4>2. x # t
        <5> HIDE DEF t, b
        <5>1. QED
          BY <1>2
      <4>3. QED
        BY <3>2, <4>1, <4>2, <2>3
    <3>3. QED
      BY <3>2
  <2>4. CASE x = b
    <3>1. PICK i \in ids[t] \cap ids[b] : TRUE
      BY <1>3
    <3>2. ASSUME NEW d \in Device, area[d].id = i, area[d].tx = b PROVE FALSE
      <4>1. i # None /\ q[i] = p[i]
        BY <3>1, <1>2, <1>3
      <4>2. b # t
        <5> HIDE DEF t, b
        <5>1. QED
          BY <1>2
      <4>3. d \in Members(p)
        <5>1. ~ (gen[b] < gen[b])
          BY <1>2
        <5>2. QED
          BY <3>2, <4>1, <4>2, <5>1, <1>2, <1>5
      <4>4. PICK j \in ids[b] : d = p[j]
        BY <4>3, <1>2
      <4>5. j = i
        BY <3>2, <4>4, <1>2, <1>5 DEF SupersOut
      <4>6. area[d] = SuperOf(t, i)
        BY <3>1, <4>1, <4>4, <4>5, <1>13
      <4>7. QED
        BY <3>2, <4>2, <4>6, SuperOfIs
    <3>3. QED
      BY <3>1, <3>2, <2>4
  <2>5. QED
    BY <2>2, <2>3, <2>4
<1>16. AtRest(h)'
  <2>1. NowTx(h)' = t /\ NowPool(h)' = q
    BY <1>1, <1>4, <1>10, <1>11, <1>12 DEF NowTx, NowPool, Finishing
  <2>2. \A i \in ids[t] : areaCut'[q[i]] = {SuperOf(t, i)}
    BY <1>2, <1>6, <1>13
  <2>3. \A i \in ext[t] : \A c \in dataCut'[q[i]] : t \in c
    <3> SUFFICES ASSUME NEW i \in ext[t], NEW c \in dataCut'[q[i]] PROVE t \in c
      OBVIOUS
    <3>1. q[i] = p[i] /\ q[i] \in Device
      BY <1>2, <1>3
    <3>2. c \in dataCut[p[i]]
      BY <3>1, <1>6
    <3>3. QED
      BY <3>2, <1>2 DEF SupersOut, Holds
  <2>4. b' = b /\ t' = t /\ p' = p /\ q' = q
    BY <1>1, <1>11, <1>12
  <2>5. \A i : SuperOf(t, i)' = SuperOf(t, i)
    BY <1>11 DEF SuperOf
  <2>6. Members(q)' = Members(q)
    BY <2>4 DEF Members
  <2>7. kept' = {t} /\ target'[h] = None /\ state'[h] # Named
    BY <1>1, <1>4, <1>10, <1>11
  <2> HIDE DEF b, t, p, q
  <2>8. Full(t, q)' /\ Holds(t, q)'
    BY <1>11, <2>2, <2>3, <2>4, <2>5 DEF Full, Holds
  <2>9. OlderLack(t)' /\ Strays(t, Members(q))'
    BY <1>6, <1>11, <1>14, <1>15, <2>4, <2>6 DEF OlderLack, Strays, History
  <2>10. QED
    BY <2>1, <2>4, <2>6, <2>7, <2>8, <2>9 DEF AtRest
<1>17. \A x \in Device : areaCut'[x] = {area'[x]}
  BY <1>1, <1>6
<1>18. OpenSound(h)'
  BY <1>4, <1>10, <1>11, <1>12, <1>16, <1>17 DEF OpenSound, Committing, Replacing, Finishing
<1>19. PInv'
  BY <1>7, <1>9, <1>10, <1>18, OpenInv
<1>20. kept = {b}
  BY <1>2 DEF SupersOut
<1>21. QED
  BY <1>1, <1>4, <1>11, <1>19, <1>20

-----------------------------------------------------------------------------
\* A mount.

(* The devices a mount that may write accepts are the devices of one        *)
(* transaction, each at its id.                                             *)
LEMMA MountedIsOne ==
  ASSUME PoolAssumption, TypeOK, TxSound, CountsExact, OnePerGeneration,
         NEW S \in SUBSET Device, MountableRw(S)
  PROVE  LET x == ReadThrough(area, S).tx
             r == ById(area, S)
         IN  /\ x \in History /\ x \in Tx /\ ReadThrough(area, S) \in Area
             /\ ReadThrough(area, S).count = Cardinality(ids[x])
             /\ IsPool(x, r) /\ Members(r) = S
             /\ \A i \in ids[x] : r[i] \in S /\ area[r[i]] = SuperOf(x, i)
             /\ \A i, j \in ids[x] : r[i] = r[j] => i = j
<1> DEFINE m == ReadThrough(area, S)
           r == ById(area, S)
           D == {area[d].id : d \in S}
<1>1. /\ S # {} /\ \A d \in S : area[d].id # None /\ area[d].first
      /\ \A d, e \in S : area[d].id = area[e].id => d = e
      /\ m.count > 1 => Cardinality(S) = m.count
      /\ \A d, e \in S : gen[area[d].tx] = gen[area[e].tx]
  BY DEF MountableRw, Mountable
<1>2. \A d \in S : /\ area[d] \in Area /\ area[d].id \in Id
                   /\ area[d].tx \in History /\ area[d].id \in ids[area[d].tx]
                   /\ area[d].count = Cardinality(ids[area[d].tx])
  BY <1>1, AreaIs DEF TypeOK, CountsExact
<1>3. PICK s \in S : TRUE
  BY <1>1
<1> DEFINE x == area[s].tx
<1>4. \A d \in S : area[d].tx = x
  <2>1. \A d \in S : d \in Device /\ area[d] \in areaCut[d]
    BY DEF TypeOK
  <2>2. QED
    BY <2>1, <1>1, <1>3 DEF OnePerGeneration
<1>5. None \notin Device /\ None \notin Id /\ IsFiniteSet(Device) /\ IsFiniteSet(Id)
  BY Numbers
<1>6. \A i \in Id : r[i] = IF \E d \in S : area[d].id = i
                           THEN CHOOSE d \in S : area[d].id = i ELSE None
  BY DEF ById
<1>7. /\ \A d \in S : r[area[d].id] = d
      /\ \A i \in Id : r[i] # None => r[i] \in S /\ area[r[i]].id = i
      /\ r \in [Id -> Device \cup {None}]
  <2>1. \A d \in S : r[area[d].id] = d
    BY <1>1, <1>2, <1>6
  <2>2. \A i \in Id : r[i] # None => r[i] \in S /\ area[r[i]].id = i
    <3> SUFFICES ASSUME NEW i \in Id, r[i] # None PROVE r[i] \in S /\ area[r[i]].id = i
      OBVIOUS
    <3>1. PICK d \in S : area[d].id = i
      BY <1>6
    <3>2. r[i] = d
      BY <2>1, <3>1
    <3>3. QED
      BY <3>1, <3>2
  <2>3. r = [i \in Id |-> r[i]]
    BY DEF ById
  <2> HIDE DEF r
  <2>4. \A i \in Id : r[i] \in Device \cup {None}
    BY <2>2
  <2>5. QED
    BY <2>1, <2>2, <2>3, <2>4
<1>8. m = area[r[Lowest(r)]]
  BY DEF ReadThrough
<1> HIDE DEF r, m
<1>9. Lowest(r) \in Id /\ r[Lowest(r)] # None
  <2> DEFINE T == {i \in Id : r[i] # None}
  <2>1. T # {}
    BY <1>2, <1>3, <1>5, <1>7
  <2>2. PICK l \in T : \A j \in T : l <= j
    BY <2>1, Extremes
  <2>3. \E i \in Id : r[i] # None /\ \A j \in Id : r[j] # None => i <= j
    BY <2>2
  <2>4. QED
    BY <2>3 DEF Lowest
<1>10. m.tx = x /\ m \in Area /\ m.count = Cardinality(ids[x])
  BY <1>2, <1>4, <1>7, <1>8, <1>9
<1> HIDE DEF x
<1>11. x \in History /\ x \in Tx /\ ids[x] \subseteq Id /\ ids[x] # {}
  <2>1. x \in History
    BY <1>2, <1>3, <1>4
  <2>2. x \in Tx
    BY <2>1, Numbers DEF TypeOK, History, Tx
  <2>3. QED
    BY <2>1, <2>2 DEF TypeOK, TxSound
<1>12. D = ids[x]
  <2>1. D \subseteq ids[x] /\ D # {}
    BY <1>1, <1>2, <1>4
  <2>2. IsFiniteSet(ids[x]) /\ IsFiniteSet(S) /\ IsFiniteSet(D)
    BY <2>1, <1>5, <1>11, FS_Subset
  <2>3. Cardinality(D) = Cardinality(S)
    <3> DEFINE f == [d \in S |-> area[d].id]
    <3>1. f \in Bijection(S, D)
      <4>1. f \in [S -> D] /\ \A a, c \in S : f[a] = f[c] => a = c
        BY <1>1
      <4>2. \A i \in D : \E d \in S : f[d] = i
        OBVIOUS
      <4> HIDE DEF f, D
      <4>3. QED
        BY <4>1, <4>2 DEF Bijection, Injection, Surjection, IsInjective
    <3>2. QED
      BY <3>1, <2>2, FS_Bijection DEF ExistsBijection
  <2> HIDE DEF D
  <2>4. /\ Cardinality(D) \in Nat /\ Cardinality(ids[x]) \in Nat
        /\ Cardinality(D) <= Cardinality(ids[x]) /\ Cardinality(D) # 0
    BY <2>1, <2>2, FS_CardinalityType, FS_Subset, FS_EmptySet
  <2>5. Cardinality(ids[x]) = Cardinality(D)
    BY <2>3, <2>4, <1>1, <1>10
  <2>6. QED
    BY <2>1, <2>2, <2>5, FS_Subset
<1>13. \A i \in ids[x] : r[i] \in S /\ r[i] # None /\ area[r[i]].id = i
  BY <1>2, <1>5, <1>7, <1>12
<1>14. IsPool(x, r)
  <2>1. \A i \in Id : r[i] # None => i \in ids[x]
    BY <1>7, <1>12
  <2>2. QED
    BY <1>7, <1>11, <1>13, <2>1 DEF IsPool
<1>15. Members(r) = S
  <2>1. \A d \in Members(r) : d \in S
    BY <1>7 DEF Members
  <2>2. \A d \in S : area[d].id \in Id /\ r[area[d].id] = d /\ d # None
    BY <1>2, <1>5, <1>7
  <2>3. \A d \in S : d \in Members(r)
    BY <2>2 DEF Members
  <2>4. QED
    BY <2>1, <2>3
<1>16. \A i \in ids[x] : area[r[i]] = SuperOf(x, i)
  <2> SUFFICES ASSUME NEW i \in ids[x] PROVE area[r[i]] = SuperOf(x, i)
    OBVIOUS
  <2> DEFINE a == area[r[i]]
  <2>1. a \in Area /\ a.tx = x /\ a.id = i /\ a.count = Cardinality(ids[x])
    BY <1>2, <1>4, <1>13
  <2>2. a.first = TRUE
    BY <1>1, <1>13, <2>1, AreaIs
  <2> HIDE DEF a
  <2>3. a = [tx |-> a.tx, id |-> a.id, count |-> a.count, first |-> a.first]
    BY <2>1, AreaIs
  <2>4. a = SuperOf(x, i)
    BY <2>1, <2>2, <2>3 DEF SuperOf
  <2>5. QED
    BY <2>4 DEF a
<1>17. \A i, j \in ids[x] : r[i] = r[j] => i = j
  BY <1>13
<1>18. QED
  BY <1>10, <1>11, <1>13, <1>14, <1>15, <1>16, <1>17 DEF r, m

(* A mount shows the transaction last acknowledged or, after power was cut, *)
(* one of those that may be.                                                *)
LEMMA MountStep ==
  ASSUME PoolAssumption, OneHandle, PInv, NEW h \in Handle, Mount(h)
  PROVE  PInv' /\ kept' \subseteq kept
<1>1. PICK S \in SUBSET Device :
        /\ MountableRw(S)
        /\ \A d \in S, e \in Device \ S : area[e].id # area[d].id
        /\ sb' = [sb EXCEPT ![h] = ReadThrough(area, S)]
        /\ pool' = [pool EXCEPT ![h] = ById(area, S)]
        /\ kept' = {ReadThrough(area, S).tx}
  BY DEF Mount
<1>2. /\ state[h] = Closed /\ state' = [state EXCEPT ![h] = Idle]
      /\ UNCHANGED <<device, history, work, cuts, faults>>
  BY DEF Mount
<1>3. TypeOK /\ TxSound /\ CountsExact /\ OnePerGeneration /\ SuperblockVouches
  BY DEF PInv
<1>4. ClosedSound
  BY <1>2 DEF PInv, OneHandle
<1> DEFINE x == ReadThrough(area, S).tx
           r == ById(area, S)
<1>5. /\ x \in History /\ x \in Tx /\ ReadThrough(area, S) \in Area
      /\ ReadThrough(area, S).count = Cardinality(ids[x])
      /\ IsPool(x, r) /\ Members(r) = S
      /\ \A i \in ids[x] : r[i] \in S /\ area[r[i]] = SuperOf(x, i)
      /\ \A i, j \in ids[x] : r[i] = r[j] => i = j
  BY <1>1, <1>3, MountedIsOne
<1>6. PICK b \in kept, t \in kept, q \in [Id -> Device \cup {None}] : Between(b, t, q)
  BY <1>4 DEF ClosedSound
<1>7. \A d \in Device : areaCut[d] = {area[d]}
  BY <1>4 DEF ClosedSound
<1>8. /\ b \in History /\ t \in History /\ IsPool(b, q)
      /\ ids[t] \subseteq ids[b]
      /\ t = b \/ gen[t] = gen[b] + 1
      /\ \A i \in ids[b] : area[q[i]].id = i /\ area[q[i]].tx \in {b, t}
      /\ \A d \in Device \ Members(q) : area[d].id # None =>
           gen[area[d].tx] < gen[b] \/ (t = b /\ area[d].tx = b)
      /\ OlderLack(b)
  <2>1. \A i \in ids[b] : q[i] \in Device
    <3>1. ids[b] \subseteq Id
      BY <1>3, <1>6, Numbers DEF Between, TypeOK, History, Tx
    <3>2. QED
      BY <3>1, <1>6 DEF Between, IsPool
  <2>2. QED
    BY <2>1, <1>6, <1>7 DEF Between
<1>9. /\ History \subseteq Tx /\ \A y \in History : gen[y] \in Nat /\ ids[y] \subseteq Id
      /\ \A y \in History : ids[y] # {} /\ ext[y] \subseteq ids[y]
  <2>1. History \subseteq Tx
    BY <1>3, Numbers DEF TypeOK, History, Tx
  <2>2. QED
    BY <2>1, <1>3 DEF TypeOK, TxSound
<1>10. Members(q) = {q[i] : i \in ids[b]}
  BY <1>8, <1>9 DEF IsPool, Members
<1>11. \A i \in ids[x] : r[i] \in Device /\ area[r[i]].id = i /\ area[r[i]].tx = x /\ i # None
  BY <1>5, <1>9, SuperOfIs, Numbers
<1>12. \A d \in Device : area[d].id # None => area[d].tx \in History /\ area[d].id \in ids[area[d].tx]
  BY <1>3, <1>7 DEF CountsExact
<1> HIDE DEF x, r
<1>13. ~ (gen[x] < gen[b])
  BY <1>5, <1>7, <1>8, <1>11 DEF OlderLack
<1>14. x \in {b, t}
  <2>1. PICK i \in ids[x] : TRUE
    BY <1>5, <1>9
  <2>2. CASE r[i] \in Members(q)
    BY <2>2, <1>8, <1>10, <1>11
  <2>3. CASE r[i] \notin Members(q)
    BY <2>3, <1>8, <1>11, <1>13
  <2>4. QED
    BY <2>2, <2>3
<1>15. x # b => \A i \in ids[x] : i \in ids[b] /\ r[i] = q[i]
  <2> SUFFICES ASSUME x # b, NEW i \in ids[x] PROVE i \in ids[b] /\ r[i] = q[i]
    OBVIOUS
  <2>1. i \in ids[b]
    BY <1>8, <1>14
  <2>2. r[i] \in Members(q)
    BY <1>8, <1>11, <1>13, <1>14
  <2>3. PICK j \in ids[b] : r[i] = q[j]
    BY <2>2, <1>10
  <2>4. j = i
    BY <2>3, <1>8, <1>11
  <2>5. QED
    BY <2>1, <2>3, <2>4
<1>16. OlderLack(x)
  <2>1. CASE x = b
    BY <2>1, <1>8
  <2>2. CASE x # b
    <3>1. x = t /\ gen[x] = gen[b] + 1
      BY <2>2, <1>8, <1>14
    <3> SUFFICES ASSUME NEW y \in History, gen[y] < gen[x]
                 PROVE  \E i \in ids[y] : \A d \in Device : ~ (area[d].id = i /\ area[d].tx = y)
      BY <1>7 DEF OlderLack
    <3>2. gen[y] \in Nat /\ gen[b] \in Nat /\ ids[y] # {} /\ ids[y] \subseteq Id
      BY <1>8, <1>9
    <3>3. CASE gen[y] < gen[b]
      BY <3>3, <1>7, <1>8 DEF OlderLack
    <3>4. CASE gen[y] = gen[b]
      <4>1. \A d \in Device : area[d].id # None /\ area[d].tx = y => d \in Members(q)
        <5> SUFFICES ASSUME NEW d \in Device, area[d].id # None, area[d].tx = y,
                            d \notin Members(q)
                     PROVE  FALSE
          OBVIOUS
        <5>1. gen[area[d].tx] < gen[b] \/ t = b
          BY <1>8
        <5>2. QED
          BY <5>1, <3>1, <3>2, <3>4, <2>2
      <4>2. CASE y = b
        <5>1. PICK i \in ids[x] : TRUE
          BY <1>5, <1>9
        <5>2. i \in ids[b] /\ r[i] = q[i] /\ i # None
          BY <5>1, <1>11, <1>15, <2>2
        <5>3. ASSUME NEW d \in Device, area[d].id = i, area[d].tx = y PROVE FALSE
          <6>1. PICK j \in ids[b] : d = q[j]
            BY <5>2, <5>3, <4>1, <1>10
          <6>2. d = q[i]
            BY <6>1, <5>3, <1>8
          <6>3. QED
            BY <6>2, <5>1, <5>2, <5>3, <1>11, <4>2, <2>2
        <5>4. QED
          BY <5>2, <5>3, <4>2
      <4>3. CASE y # b
        <5>1. PICK i \in ids[y] : i # None
          BY <3>2, Numbers
        <5>2. ASSUME NEW d \in Device, area[d].id = i, area[d].tx = y PROVE FALSE
          <6>1. PICK j \in ids[b] : d = q[j]
            BY <5>1, <5>2, <4>1, <1>10
          <6>2. y \in {b, t}
            BY <6>1, <5>2, <1>8
          <6>3. gen[y] = gen[b] + 1
            BY <6>2, <4>3, <3>1
          <6>4. QED
            BY <6>3, <3>2, <3>4
        <5>3. QED
          BY <5>1, <5>2
      <4>4. QED
        BY <4>2, <4>3
    <3>5. QED
      BY <3>1, <3>2, <3>3, <3>4
  <2>3. QED
    BY <2>1, <2>2
<1>17. \A d \in Device \ S : area[d].id # None => gen[area[d].tx] < gen[x]
  <2> SUFFICES ASSUME NEW d \in Device \ S, area[d].id # None PROVE gen[area[d].tx] < gen[x]
    OBVIOUS
  <2>1. area[d].id \notin ids[x]
    BY <1>1, <1>5, <1>11
  <2>2. area[d].tx # x
    BY <2>1, <1>12
  <2>3. area[d].tx \in {b, t} \/ gen[area[d].tx] < gen[b]
    <3>1. CASE d \in Members(q)
      BY <3>1, <1>8, <1>10
    <3>2. CASE d \notin Members(q)
      BY <3>2, <1>8
    <3>3. QED
      BY <3>1, <3>2
  <2>4. gen[x] = gen[b] \/ gen[x] = gen[b] + 1
    BY <1>8, <1>14
  <2>5. gen[area[d].tx] \in Nat /\ gen[b] \in Nat
    BY <1>8, <1>9, <1>12
  <2>6. CASE gen[area[d].tx] < gen[b]
    BY <2>4, <2>5, <2>6
  <2>7. CASE area[d].tx \in {b, t} /\ x = b
    <3>1. area[d].tx = t /\ t # b
      BY <2>2, <2>7
    <3>2. d \in Members(q)
      BY <3>1, <1>8, <2>5, <1>9
    <3>3. PICK i \in ids[b] : d = q[i]
      BY <3>2, <1>10
    <3>4. area[d].id = i
      BY <3>3, <1>8
    <3>5. QED
      BY <3>3, <3>4, <2>1, <2>7
  <2>8. CASE area[d].tx \in {b, t} /\ x # b
    BY <2>2, <2>5, <2>8, <1>8, <1>14
  <2>9. QED
    BY <2>3, <2>6, <2>7, <2>8
<1>18. x \in kept
  BY <1>6, <1>14
<1>19. state'[h] = Idle /\ sb'[h] = ReadThrough(area, S) /\ pool'[h] = r
  BY <1>1, <1>2, <1>3 DEF TypeOK, r
<1>20. r \in [Id -> Device \cup {None}]
  BY <1>5 DEF IsPool
<1>21. TypeOK'
  <2>1. sb' \in [Handle -> Area]
    BY <1>1, <1>3, <1>5 DEF TypeOK
  <2>2. pool' \in [Handle -> [Id -> Device \cup {None}]]
    BY <1>1, <1>3, <1>20 DEF TypeOK, r
  <2>3. kept' \subseteq Tx
    BY <1>1, <1>5 DEF x
  <2>4. state' \in [Handle -> {Closed, Idle} \cup Busy]
    BY <1>2, <1>3 DEF TypeOK
  <2>5. QED
    BY <1>2, <1>3, <2>1, <2>2, <2>3, <2>4 DEF TypeOK, device, history, work
<1>22. /\ made' = made /\ gen' = gen /\ ids' = ids /\ ext' = ext
       /\ areaCut' = areaCut /\ area' = area /\ dataCut' = dataCut
  BY <1>2 DEF device, history
<1>23. Echo
  BY <1>2, <1>22 DEF Echo
<1>24. TxSound' /\ CountsExact' /\ OnePerGeneration' /\ SuperblockVouches'
  BY <1>3, <1>23, EchoKeeps
<1>25. PoolKnown(h)'
  BY <1>5, <1>19, <1>22 DEF PoolKnown, IsPool, History, x
<1>26. AtRest(h)'
  <2>1. NowTx(h)' = x /\ NowPool(h)' = r
    BY <1>19 DEF NowTx, NowPool, Finishing, x
  <2>2. \A i \in ids[x] : areaCut[r[i]] = {SuperOf(x, i)}
    BY <1>5, <1>7, <1>11
  <2>3. \A i \in ext[x] : \A c \in dataCut[r[i]] : x \in c
    <3>1. \A i \in ext[x] : i \in ids[x] /\ r[i] \in Device /\ area[r[i]] \in areaCut[r[i]]
      BY <1>5, <1>7, <1>9, <1>11
    <3>2. QED
      BY <3>1, <1>3, <1>11 DEF SuperblockVouches
  <2>4. /\ \A i \in ids'[NowTx(h)'] : areaCut'[NowPool(h)'[i]] =
             {[tx |-> NowTx(h)', id |-> i, count |-> Cardinality(ids'[NowTx(h)']), first |-> TRUE]}
        /\ \A i \in ext'[NowTx(h)'] : \A c \in dataCut'[NowPool(h)'[i]] : NowTx(h)' \in c
    BY <1>22, <2>1, <2>2, <2>3 DEF SuperOf
  <2>5. Full(NowTx(h), NowPool(h))' /\ Holds(NowTx(h), NowPool(h))'
    BY <2>4 DEF Full, Holds, SuperOf
  <2>6. OlderLack(NowTx(h))'
    BY <1>16, <1>22, <2>1 DEF OlderLack, History
  <2>7. Strays(NowTx(h), Members(NowPool(h)))'
    <3>1. Members(NowPool(h))' = S
      BY <1>5, <2>1 DEF Members
    <3>2. QED
      BY <3>1, <1>7, <1>17, <1>22, <2>1 DEF Strays
  <2>8. kept' = {x} /\ ~ Finishing(h)'
    BY <1>1, <1>19 DEF Finishing, x
  <2>9. QED
    BY <1>19, <2>1, <2>5, <2>6, <2>7, <2>8 DEF AtRest
<1>27. \A d \in Device : areaCut'[d] = {area'[d]}
  BY <1>7, <1>22
<1>28. OpenSound(h)'
  BY <1>19, <1>25, <1>26, <1>27 DEF OpenSound, Committing, Replacing, Finishing
<1>29. PInv'
  BY <1>19, <1>21, <1>24, <1>28, OpenInv
<1>30. kept' \subseteq kept
  BY <1>1, <1>18 DEF x
<1>31. QED
  BY <1>29, <1>30

-----------------------------------------------------------------------------
\* Every step, and what the invariant says.

(* What a handle is at stays as it is when nothing changes.                 *)
LEMMA SameOpen ==
  ASSUME UNCHANGED vars, NEW h \in Handle, OpenSound(h)
  PROVE  OpenSound(h)'
<1>1. /\ area' = area /\ areaCut' = areaCut /\ data' = data /\ dataCut' = dataCut
      /\ made' = made /\ gen' = gen /\ parent' = parent /\ ids' = ids /\ ext' = ext
      /\ state' = state /\ sb' = sb /\ pool' = pool
      /\ mine' = mine /\ joining' = joining /\ leaving' = leaving /\ target' = target
      /\ image' = image /\ todo' = todo /\ kept' = kept
  BY DEF vars, device, history, work
<1>2. /\ UNCHANGED <<history, sb, pool, mine, image>>
      /\ UNCHANGED <<joining, leaving, target>>
  BY <1>1 DEF history
<1>3. /\ PoolKnown(h) => PoolKnown(h)'
      /\ Committed(h)' = Committed(h) /\ Replaced(h)' = Replaced(h)
      /\ Members(pool[h])' = Members(pool[h])
  BY <1>2, SameCall
<1>4. PlanSound(h) => PlanSound(h)'
  BY <1>1, <1>3 DEF PlanSound, History
<1>5. /\ Finishing(h)' <=> Finishing(h)
      /\ Replacing(h)' <=> Replacing(h)
      /\ Committing(h)' <=> Committing(h)
  BY <1>1 DEF Finishing, Replacing, Committing
<1>6. NowTx(h)' = NowTx(h) /\ NowPool(h)' = NowPool(h)
  BY <1>1, <1>3, <1>5 DEF NowTx, NowPool
<1>7. \A q : Members(q)' = Members(q)
  BY DEF Members
<1>8. \A k, i : SuperOf(k, i)' = SuperOf(k, i)
  BY <1>1 DEF SuperOf
<1>9. ImagesSound(h) => ImagesSound(h)'
  BY <1>1, <1>3, <1>8 DEF ImagesSound, Members
<1>10. ReplaceSound(h) => ReplaceSound(h)'
  BY <1>1, <1>3, <1>8 DEF ReplaceSound
<1>11. AtRest(h) => AtRest(h)'
  BY <1>1, <1>5, <1>6, <1>7, <1>8 DEF AtRest, OlderLack, Full, Holds, Strays, History
<1>12. SupersOut(h) => SupersOut(h)'
  BY <1>1, <1>3, <1>7, <1>8 DEF SupersOut, OlderLack, Holds, Strays, History
<1>13. Unflushed(h)' = Unflushed(h)
  BY <1>1, <1>3, <1>7 DEF Unflushed
<1>14. QED
  BY <1>1, <1>3, <1>4, <1>5, <1>9, <1>10, <1>11, <1>12, <1>13 DEF OpenSound

(* Nor what is left when no handle is open.                                 *)
LEMMA SameClosed ==
  ASSUME UNCHANGED vars, PoolAssumption, TypeOK, TxSound, ClosedSound
  PROVE  ClosedSound'
<1>1. /\ areaCut' = areaCut /\ area' = area /\ kept' = kept
      /\ dataCut' = dataCut /\ UNCHANGED history
  BY DEF vars, device
<1>2. Echo
  BY <1>1 DEF Echo
<1>3. PICK b \in kept, t \in kept, q \in [Id -> Device \cup {None}] : Between(b, t, q)
  BY DEF ClosedSound
<1>4. Between(b, t, q)'
  BY <1>1, <1>2, <1>3, BetweenKept
<1>5. \A d \in Device : areaCut'[d] = {area'[d]}
  BY <1>1 DEF ClosedSound
<1>6. b \in kept' /\ t \in kept'
  BY <1>1
<1>7. QED
  BY <1>4, <1>5, <1>6 DEF ClosedSound

(* The invariant is kept, and so is every commit: a step that is no power   *)
(* cut leaves what may be mounted as it was, or one commit on.              *)
LEMMA PoolStep ==
  ASSUME PoolAssumption, OneHandle, PInv, [Next]_vars
  PROVE  /\ PInv'
         /\ cuts' = cuts => \A t \in kept' : t \in kept \/ parent'[t] \in kept
<1>1. ASSUME NEW h \in Handle, Call(h)
      PROVE  PInv' /\ kept' \subseteq kept
  <2>1. CASE Mount(h)
    BY <2>1, MountStep
  <2>2. CASE Close(h)
    BY <2>2, CloseStep DEF Close
  <2>3. CASE Write(h)
    <3>1. PInv'
      BY <2>3, WriteStep
    <3>2. kept' = kept
      BY <2>3 DEF Write, Begin
    <3>3. QED
      BY <3>1, <3>2
  <2>4. CASE AddDevice(h)
    <3>1. PInv'
      BY <2>4, AddDeviceStep
    <3>2. kept' = kept
      BY <2>4 DEF AddDevice, Begin
    <3>3. QED
      BY <3>1, <3>2
  <2>5. CASE RemoveDevice(h)
    <3>1. PInv'
      BY <2>5, RemoveDeviceStep
    <3>2. kept' = kept
      BY <2>5 DEF RemoveDevice, Begin
    <3>3. QED
      BY <3>1, <3>2
  <2>6. CASE BeginReplace(h)
    BY <2>6, BeginReplaceStep DEF BeginReplace
  <2>7. QED
    BY <1>1, <2>1, <2>2, <2>3, <2>4, <2>5, <2>6 DEF Call
<1>2. ASSUME NEW h \in Handle, CallStep(h), ~ CommitPoint(h)
      PROVE  PInv' /\ kept' = kept
  <2>1. CASE PutBlocks(h)
    BY <2>1, PutBlocksStep DEF PutBlocks
  <2>2. CASE Barrier(h)
    BY <2>2, BarrierStep DEF Barrier
  <2>3. CASE PutSuper(h)
    BY <2>3, PutSuperStep DEF PutSuper
  <2>4. CASE CopyExtents(h)
    BY <2>4, CopyExtentsStep DEF CopyExtents
  <2>5. CASE NameTarget(h)
    BY <2>5, NameTargetStep DEF NameTarget
  <2>6. CASE FlushTarget(h)
    BY <2>6, FlushTargetStep DEF FlushTarget
  <2>7. CASE WipeLeaving(h)
    BY <2>7, WipeLeavingStep DEF WipeLeaving
  <2>8. CASE FlushWiped(h)
    BY <2>8, FlushWipedStep DEF FlushWiped
  <2>9. CASE Remount(h)
    BY <2>9, RemountStep DEF Remount
  <2>10. QED
    BY <1>2, <2>1, <2>2, <2>3, <2>4, <2>5, <2>6, <2>7, <2>8, <2>9 DEF CallStep
<1>3. ASSUME NEW h \in Handle, CommitPoint(h)
      PROVE  PInv' /\ \A t \in kept' : parent'[t] \in kept
  BY <1>3, CommitPointStep
<1>4. ASSUME WipeDouble PROVE PInv' /\ kept' = kept
  BY <1>4, WipeDoubleStep DEF WipeDouble
<1>5. ASSUME PowerCut, ~ Adding PROVE PInv' /\ cuts' # cuts
  <2>1. cuts' = cuts + 1 /\ cuts \in Nat
    BY <1>5 DEF PowerCut, PInv, TypeOK, PoolAssumption
  <2>2. QED
    BY <1>5, <2>1, PowerCutStep
<1>6. ASSUME UNCHANGED vars PROVE PInv' /\ kept' = kept
  <2>1. UNCHANGED <<device, history, state, sb, pool, work, kept, cuts, faults>>
    BY <1>6 DEF vars
  <2>2. PInv'
    <3>1. TypeOK /\ TxSound /\ CountsExact /\ OnePerGeneration /\ SuperblockVouches
      BY DEF PInv
    <3>2. TypeOK'
      BY <2>1, <3>1 DEF TypeOK, device, history, work
    <3>3. TxSound' /\ CountsExact' /\ OnePerGeneration' /\ SuperblockVouches'
      <4>1. Echo
        BY <2>1 DEF Echo, device
      <4>2. QED
        BY <3>1, <4>1, EchoKeeps
    <3>4. ASSUME NEW h \in Handle PROVE OpenSound(h) => OpenSound(h)'
      BY <1>6, SameOpen
    <3>5. ClosedSound => ClosedSound'
      BY <1>6, SameClosed DEF PInv
    <3>6. state' = state
      BY <2>1
    <3>7. (\A h \in Handle : state'[h] # Closed => OpenSound(h)')
      BY <3>4, <3>6 DEF PInv
    <3>8. (\A h \in Handle : state'[h] = Closed) => ClosedSound'
      BY <3>5, <3>6 DEF PInv
    <3>9. QED
      BY <3>2, <3>3, <3>7, <3>8 DEF PInv
  <2>3. QED
    BY <2>1, <2>2
<1>7. QED
  BY <1>1, <1>2, <1>3, <1>4, <1>5, <1>6 DEF Next, Step

(* A handle that may write has its pool and all of its transaction.         *)
LEMMA InvMounted ==
  ASSUME PoolAssumption, PInv
  PROVE  PoolExact
<1>1. TypeOK
  BY DEF PInv
<1>2. ASSUME NEW h \in Handle, state[h] = Idle
      PROVE  /\ {i \in Id : pool[h][i] # None} = ids[sb[h].tx]
             /\ Readable(sb[h].tx, pool[h], data)
  <2>1. /\ TypeOK /\ TxSound /\ PoolKnown(h)
        /\ Holds(sb[h].tx, pool[h])
    BY <1>2, RestNow
  <2>2. /\ ids[sb[h].tx] \subseteq Id /\ ext[sb[h].tx] \subseteq ids[sb[h].tx]
        /\ \A i \in Id : pool[h][i] # None <=> i \in ids[sb[h].tx]
    BY <2>1, PoolKnownIs
  <2>3. \A i \in ids[sb[h].tx] : pool[h][i] \in Device
    BY <2>1, <2>2, PoolKnownIs
  <2>4. \A d \in Device : data[d] \in dataCut[d]
    BY <1>1, Types
  <2>5. Readable(sb[h].tx, pool[h], data)
    BY <2>1, <2>2, <2>3, <2>4 DEF Readable, Holds
  <2>6. QED
    BY <2>2, <2>5
<1>3. QED
  BY <1>1, <1>2 DEF PoolExact, MountedIsPool

(* A pool read through the device of its lowest id, with every device its   *)
(* superblock counts, is mounted and read.                                  *)
LEMMA PoolShows ==
  ASSUME PoolAssumption, TypeOK, TxSound, CountsExact,
         NEW k \in History, NEW q, IsPool(k, q), Holds(k, q),
         \A i \in ids[k] : area[q[i]].id = i,
         area[q[Lowest(q)]].tx = k
  PROVE  \E S \in SUBSET Device :
           /\ Mountable(area, S)
           /\ ReadThrough(area, S).tx = k
           /\ Readable(k, ById(area, S), data)
<1>1. k \in Tx
  BY Numbers DEF TypeOK, History, Tx
<1>2. ids[k] \subseteq Id /\ ids[k] # {} /\ ext[k] \subseteq ids[k]
  BY <1>1 DEF TypeOK, TxSound
<1>3. /\ Members(q) \subseteq Device /\ Members(q) # {}
      /\ \A d \in Members(q) : area[d].id \in ids[k] /\ q[area[d].id] = d
      /\ ById(area, Members(q)) = q
      /\ Lowest(q) \in ids[k]
      /\ ReadThrough(area, Members(q)) = area[q[Lowest(q)]]
      /\ Cardinality(Members(q)) = Cardinality(ids[k])
  BY <1>2, PoolById
<1>4. \A i \in ids[k] : q[i] \in Device /\ q[i] # None
  BY <1>2 DEF IsPool
<1>5. \A d \in Device : area[d] \in areaCut[d] /\ data[d] \in dataCut[d]
  BY DEF TypeOK
<1>6. ReadThrough(area, Members(q)).count = Cardinality(ids[k])
  <2> DEFINE l == Lowest(q)
  <2>1. q[l] \in Device /\ area[q[l]] \in areaCut[q[l]] /\ area[q[l]].id # None
    BY <1>2, <1>3, <1>4, <1>5, Numbers
  <2>2. area[q[l]].count = Cardinality(ids[area[q[l]].tx])
    BY <2>1 DEF CountsExact
  <2>3. QED
    BY <1>3, <2>2
<1>7. Mountable(area, Members(q))
  BY <1>2, <1>3, <1>6, Numbers DEF Mountable
<1>8. Readable(k, q, data)
  BY <1>2, <1>4, <1>5 DEF Readable, Holds
<1>9. QED
  BY <1>3, <1>7, <1>8

(* Of a pool on its way, one of the two transactions can be mounted: the    *)
(* one the device of the lowest id has.                                     *)
LEMMA InvReadable ==
  ASSUME PoolAssumption, PInv
  PROVE  PoolStaysReadable
<1> SUFFICES ASSUME \A h \in Handle : state[h] = Closed
             PROVE  \E S \in SUBSET Device :
                      /\ Mountable(area, S)
                      /\ ReadThrough(area, S).tx \in kept
                      /\ Readable(ReadThrough(area, S).tx, ById(area, S), data)
  BY DEF PoolStaysReadable, ShowsWhole
<1>1. TypeOK /\ TxSound /\ CountsExact /\ ClosedSound
  BY DEF PInv
<1>2. PICK b \in kept, t \in kept, q \in [Id -> Device \cup {None}] : Between(b, t, q)
  BY <1>1 DEF ClosedSound
<1>3. b \in History /\ t \in History /\ b \in Tx /\ t \in Tx
  BY <1>1, <1>2, Numbers DEF Between, TypeOK, History, Tx
<1>4. /\ ids[b] \subseteq Id /\ ids[b] # {} /\ ids[t] \subseteq ids[b] /\ ids[t] # {}
      /\ ext[b] \subseteq ids[b] /\ ext[t] \subseteq ids[t]
      /\ IsPool(b, q) /\ Holds(b, q) /\ Holds(t, q)
  BY <1>1, <1>2, <1>3 DEF Between, TypeOK, TxSound
<1>5. \A i \in ids[b] : q[i] \in Device /\ q[i] # None
  BY <1>4 DEF IsPool
<1>6. \A i \in ids[b] : area[q[i]] \in areaCut[q[i]]
  BY <1>1, <1>5 DEF TypeOK
<1>7. \A i \in ids[b] : area[q[i]].id = i /\ area[q[i]].tx \in {b, t}
  BY <1>2, <1>6 DEF Between
<1>8. \A i \in ids[b] : i \in ids[area[q[i]].tx]
  <2> SUFFICES ASSUME NEW i \in ids[b] PROVE i \in ids[area[q[i]].tx]
    OBVIOUS
  <2>1. i # None
    BY <1>4, Numbers
  <2>2. QED
    BY <1>1, <1>5, <1>6, <1>7, <2>1 DEF CountsExact
<1> DEFINE r == [i \in Id |-> IF i \in ids[t] THEN q[i] ELSE None]
<1>9. /\ IsPool(t, r)
      /\ \A i \in ids[t] : r[i] = q[i]
  BY <1>4, <1>5, Numbers DEF IsPool
<1> HIDE DEF r
<1>10. Holds(t, r)
  BY <1>4, <1>9 DEF Holds
<1>11. \A i \in ids[t] : area[r[i]].id = i
  BY <1>4, <1>7, <1>9
<1>12. /\ Lowest(q) \in ids[b] /\ \A j \in ids[b] : Lowest(q) <= j
  BY <1>4, <1>7, PoolById
<1>13. /\ Lowest(r) \in ids[t] /\ \A j \in ids[t] : Lowest(r) <= j
  <2>1. ids[t] \subseteq Id /\ ids[t] # {} /\ IsPool(t, r)
    BY <1>4, <1>9
  <2>2. QED
    BY <1>11, <2>1, PoolById
<1>14. CASE area[q[Lowest(q)]].tx = b
  <2>1. PICK S \in SUBSET Device : /\ Mountable(area, S)
                                   /\ ReadThrough(area, S).tx = b
                                   /\ Readable(b, ById(area, S), data)
    BY <1>1, <1>3, <1>4, <1>7, <1>14, PoolShows
  <2>2. QED
    BY <1>2, <2>1
<1>15. CASE area[q[Lowest(q)]].tx = t
  <2>1. Lowest(q) \in ids[t]
    BY <1>8, <1>12, <1>15
  <2>2. Lowest(q) = Lowest(r)
    <3>1. Lowest(q) <= Lowest(r) /\ Lowest(r) <= Lowest(q)
      BY <1>4, <1>12, <1>13, <2>1
    <3>2. Lowest(q) \in Nat /\ Lowest(r) \in Nat
      BY <1>4, <1>12, <1>13, Numbers
    <3>3. QED
      BY <3>1, <3>2
  <2>3. area[r[Lowest(r)]].tx = t
    BY <1>9, <1>15, <2>1, <2>2
  <2>4. PICK S \in SUBSET Device : /\ Mountable(area, S)
                                   /\ ReadThrough(area, S).tx = t
                                   /\ Readable(t, ById(area, S), data)
    BY <1>1, <1>3, <1>9, <1>10, <1>11, <2>3, PoolShows
  <2>5. QED
    BY <1>2, <2>4
<1>16. QED
  BY <1>7, <1>12, <1>14, <1>15

-----------------------------------------------------------------------------
\* The theorems: for any number of devices, ids, transactions and power cuts.

(* mount_pool_rw: a handle that may write has every device its transaction  *)
(* lists, each at its id, and every block of it.                            *)
THEOREM MountHasAll ==
  ASSUME OneHandle PROVE Spec => []PoolExact
<1>1. Init => PInv
  BY InitSound, PoolAssumption
<1>2. PInv /\ [Next]_vars => PInv'
  BY PoolStep, PoolAssumption, OneHandle
<1>3. PInv => PoolExact
  BY InvMounted, PoolAssumption
<1>4. QED
  BY <1>1, <1>2, <1>3, PTL DEF Spec

(* No superblock that may survive a cut, of a commit, a removal or a        *)
(* replace, vouches for blocks that may not (commit.rs, devices.rs).        *)
THEOREM SurvivorsVouch ==
  ASSUME OneHandle PROVE Spec => []SuperblockVouches
<1>1. Init => PInv
  BY InitSound, PoolAssumption
<1>2. PInv /\ [Next]_vars => PInv'
  BY PoolStep, PoolAssumption, OneHandle
<1>3. PInv => SuperblockVouches
  BY DEF PInv
<1>4. QED
  BY <1>1, <1>2, <1>3, PTL DEF Spec

(* devices.rs, "one of two whole filesystems": however often power is cut,  *)
(* but while a device is added, some set of the devices mounts and shows    *)
(* all of the transaction acknowledged last or of the one in flight.        *)
THEOREM AlwaysOneToMount ==
  ASSUME OneHandle PROVE Spec => []PoolStaysReadable
<1>1. Init => PInv
  BY InitSound, PoolAssumption
<1>2. PInv /\ [Next]_vars => PInv'
  BY PoolStep, PoolAssumption, OneHandle
<1>3. PInv => PoolStaysReadable
  BY InvReadable, PoolAssumption
<1>4. QED
  BY <1>1, <1>2, <1>3, PTL DEF Spec

(* refuse_stale: a mount shows a transaction that was acknowledged or, when *)
(* power went, in flight, and a commit is planned on it.                    *)
THEOREM PoolLosesNoCommit ==
  ASSUME OneHandle PROVE Spec => NoLostCommit
<1>1. Init => PInv
  BY InitSound, PoolAssumption
<1>2. PInv /\ [Next]_vars =>
        PInv' /\ [cuts' = cuts => \A t \in kept' : t \in kept \/ parent'[t] \in kept]_vars
  <2>1. ASSUME PInv, [Next]_vars
        PROVE  PInv' /\ (cuts' = cuts => \A t \in kept' : t \in kept \/ parent'[t] \in kept)
    BY <2>1, PoolStep, PoolAssumption, OneHandle
  <2>2. QED
    BY <2>1
<1>3. QED
  BY <1>1, <1>2, PTL DEF Spec, NoLostCommit
=============================================================================
