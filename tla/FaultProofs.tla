---------------------------- MODULE FaultProofs -----------------------------
(***************************************************************************)
(* Proofs about Commit where device calls fail, processes are killed and   *)
(* several handles are open: no generation ever names two transactions;    *)
(* and while every superblock copy verifies, or after one fault at most,   *)
(* no commit is lost under another and no handle that may write reads a    *)
(* block that was reused.                                                  *)
(***************************************************************************)
EXTENDS CommitProofs

-----------------------------------------------------------------------------
\* The invariant behind one transaction to a generation.

\* Every transaction anything names has been planned.
AllMade ==
  /\ \A h \in Handle : base[h] <= made /\ mine[h] <= made /\ image[h].tx <= made
  /\ \A c \in Copy : \A s \in superCut[c] : s.tx <= made

\* A transaction under way is one generation past its base.
NextOfBase ==
  \A h \in Handle : state[h] \in {Planned, Blocks, Supers} =>
    gen[mine[h]] = gen[base[h]] + 1 /\ parent[mine[h]] = base[h]

ImageIsMine ==
  \A h \in Handle : state[h] \in {Blocks, Supers} => image[h].tx = mine[h] /\ image[h].ok

\* Once the superblock images are made, no other transaction a reader may find
\* is past the base: what the stale check read stays so, and the barrier leaves
\* nothing but what it read.
NonePast ==
  \A h \in Handle :
    /\ state[h] = Blocks =>
         \A c \in Copy : super[c].ok => gen[super[c].tx] <= gen[base[h]]
    /\ state[h] = Supers =>
         \A c \in Copy : \A s \in superCut[c] :
           s.ok => s.tx = mine[h] \/ gen[s.tx] <= gen[base[h]]

GInv == /\ TypeOK
        /\ AllMade
        /\ OneCommit
        /\ NextOfBase
        /\ ImageIsMine
        /\ NonePast
        /\ OneTreePerGeneration

USE DEF Closed, Idle, Planned, Blocks, Supers, Reopen, InCommit, Free, Torn

\* Any step: of the program, a power cut that may tear a copy, a fault.
AnyNext == FaultNext \/ TornCut

(* The superblock chosen is one that verifies, of the newest generation.    *)
LEMMA ChosenNewest ==
  ASSUME CommitAssumption, gen \in [Tx -> Nat], NEW s \in [Copy -> Super], Readable(s)
  PROVE  /\ Chosen(s) \in Copy /\ s[Chosen(s)].ok /\ s[Chosen(s)].tx = ChosenTx(s)
         /\ ChosenTx(s) \in Tx
         /\ \A d \in Copy : s[d].ok => gen[s[d].tx] <= gen[ChosenTx(s)]
<1>1. \A c \in Copy : s[c].tx \in Tx /\ gen[s[c].tx] \in Nat
  BY DEF Super
<1>2. Chosen(s) \in Copy /\ IsChosen(s, Chosen(s))
  BY <1>1, ChosenExists
<1>3. QED
  BY <1>1, <1>2 DEF IsChosen, ChosenTx

(* A transaction planned keeps what it is.                                  *)
LEMMA HistoryKept ==
  ASSUME CommitAssumption, TypeOK, AnyNext
  PROVE  /\ made <= made'
         /\ \A t \in Tx : t <= made =>
              gen'[t] = gen[t] /\ parent'[t] = parent[t] /\ tree'[t] = tree[t]
<1> USE DEF TypeOK
<1>1. ASSUME NEW h \in Handle, Plan(h)
      PROVE  /\ made' = made + 1
             /\ \A t \in Tx : t <= made =>
                  gen'[t] = gen[t] /\ parent'[t] = parent[t] /\ tree'[t] = tree[t]
  BY <1>1 DEF Plan, Tx
<1>2. made \in Int /\ (UNCHANGED history => UNCHANGED <<made, gen, tree, parent, chunk>>)
  BY DEF Tx, history
<1>3. ASSUME NEW h \in Handle, Mount(h) \/ Close(h) PROVE UNCHANGED history
  BY <1>3 DEF Mount, Close
<1>4. ASSUME NEW h \in Handle, MakeImages(h) PROVE UNCHANGED history
  BY <1>4 DEF MakeImages
<1>5. ASSUME NEW h \in Handle, PutBlock(h) \/ PutSuper(h) PROVE UNCHANGED history
  BY <1>5 DEF PutBlock, PutSuper
<1>6. ASSUME NEW h \in Handle, Barrier(h) \/ CommitPoint(h) \/ Remount(h)
      PROVE  UNCHANGED history
  BY <1>6 DEF Barrier, CommitPoint, Remount
<1>7. ASSUME NEW h \in Handle, Fail(h) \/ Kill(h) PROVE UNCHANGED history
  BY <1>7 DEF Fail, Kill
<1>8. ASSUME PowerCut \/ TornCut PROVE UNCHANGED history
  BY <1>8 DEF PowerCut, TornCut, Leave
<1>9. CASE UNCHANGED history
  BY <1>2, <1>9
<1>10. QED
  BY <1>1, <1>2, <1>3, <1>4, <1>5, <1>6, <1>7, <1>8, <1>9
     DEF AnyNext, FaultNext, Next, Call, CommitStep

\* The types of what is on the device.
DeviceTypes ==
  /\ block \in [Place -> Stamp] /\ blockCut \in [Place -> SUBSET Stamp]
  /\ \A p \in Place : block[p] \in blockCut[p]
  /\ super \in [Copy -> Super] /\ superCut \in [Copy -> SUBSET Super]
  /\ \A c \in Copy : super[c] \in superCut[c]

(* Types under faults as well.                                              *)
LEMMA TypeAny ==
  ASSUME CommitAssumption, TypeOK, AnyNext
  PROVE  TypeOK'
<1> USE DEF TypeOK
<1>1. ASSUME Fault PROVE faults' \in 0 .. MaxFaults
  BY <1>1 DEF Fault, CommitAssumption
<1>2. ASSUME NEW h \in Handle, Fail(h) PROVE TypeOK'
  <2>1. faults' \in 0 .. MaxFaults /\ state' = [state EXCEPT ![h] = Idle]
        /\ UNCHANGED <<history, base, mine, image, todo, copy, kept, cuts>>
    BY <1>1, <1>2 DEF Fail
  <2>2. DeviceTypes'
    <3>1. CASE UNCHANGED device
      BY <3>1 DEF device, DeviceTypes
    <3>2. ASSUME NEW p \in todo[h], WriteBlock(p, Torn), UNCHANGED <<super, superCut>>
          PROVE  DeviceTypes'
      <4>1. p \in Place /\ Torn \in Stamp
        BY DEF Stamp
      <4>2. QED
        BY <3>2, <4>1 DEF WriteBlock, DeviceTypes
    <3>3. ASSUME NEW intact \in BOOLEAN, copy[h] <= NCopies,
                 WriteSuper(copy[h], [image[h] EXCEPT !.ok = intact]), UNCHANGED <<block, blockCut>>
          PROVE  DeviceTypes'
      <4>1. copy[h] \in Copy
        <5>1. copy[h] \in 1 .. NCopies + 1 /\ NCopies \in Int
          BY DEF CommitAssumption
        <5>2. QED
          BY <3>3, <5>1 DEF Copy
      <4>3. [image[h] EXCEPT !.ok = intact] \in Super
        <5>1. image[h] \in Super
          OBVIOUS
        <5>2. QED
          BY <5>1 DEF Super
      <4>2. QED
        BY <3>3, <4>1, <4>3 DEF WriteSuper, DeviceTypes
    <3>4. QED
      BY <1>2, <3>1, <3>2, <3>3 DEF Fail
  <2>3. QED
    BY <2>1, <2>2 DEF history, DeviceTypes
<1>3. ASSUME NEW h \in Handle, Kill(h) PROVE TypeOK'
  BY <1>1, <1>3 DEF Kill, device, history
<1>4. ASSUME TornCut PROVE TypeOK'
  <2>1. PICK b \in Left(blockCut), s \in Left(superCut), c \in Copy :
          Leave(b, [s EXCEPT ![c].ok = FALSE])
    BY <1>4 DEF TornCut
  <2>2. /\ b = [p \in Place |-> b[p]] /\ \A p \in Place : b[p] \in blockCut[p]
        /\ s = [d \in Copy |-> s[d]] /\ \A d \in Copy : s[d] \in superCut[d]
    BY CutPick
  <2> DEFINE torn == [s EXCEPT ![c].ok = FALSE]
  <2>3. b \in [Place -> Stamp] /\ torn \in [Copy -> Super]
    <3>1. b \in [Place -> Stamp] /\ s \in [Copy -> Super]
      BY <2>2
    <3>2. [s[c] EXCEPT !.ok = FALSE] \in Super
      <4>1. s[c] \in [tx : Tx, chunk : Tx, ok : BOOLEAN]
        BY <3>1 DEF Super
      <4>2. QED
        BY ONLY <4>1 DEF Super
    <3>3. QED
      BY <3>1, <3>2
  <2>4. Readable(torn) => ChosenTx(torn) \in Tx
    BY <2>3, ChosenNewest
  <2>5. cuts + 1 \in 0 .. MaxCuts
    BY <2>1 DEF Leave, CommitAssumption
  <2> HIDE DEF torn
  <2>6. Leave(b, torn)
    BY <2>1 DEF torn
  <2>7. QED
    BY <2>3, <2>4, <2>5, <2>6 DEF Leave, history
<1>5. QED
  BY <1>2, <1>3, <1>4, TypeStep DEF AnyNext, FaultNext


-----------------------------------------------------------------------------
\* One transaction to a generation, step by step.

(* A step that writes no superblock, and takes no handle further into a      *)
(* commit, keeps the invariant.                                             *)
LEMMA QuietKeeps ==
  ASSUME GInv, TypeOK', UNCHANGED <<super, superCut, history, mine, image>>,
         \A g \in Handle :
            /\ base'[g] <= made
            /\ \/ state'[g] = state[g] /\ base'[g] = base[g]
               \/ state'[g] \notin InCommit
  PROVE  GInv'
<1> USE DEF GInv
<1>1. AllMade'
  BY DEF AllMade, history
<1>2. OneCommit'
  BY DEF OneCommit
<1>3. NextOfBase'
  BY DEF NextOfBase, history
<1>4. ImageIsMine'
  BY DEF ImageIsMine
<1>5. NonePast'
  BY DEF NonePast, history
<1>6. OneTreePerGeneration'
  BY DEF OneTreePerGeneration, history
<1>7. QED
  BY <1>1, <1>2, <1>3, <1>4, <1>5, <1>6

(* A step after which nobody has a transaction under way, and which leaves   *)
(* on the device no superblock that could not be there before, perhaps      *)
(* torn, keeps the invariant.                                               *)
LEMMA SettledKeeps ==
  ASSUME GInv, TypeOK', OneCommit', UNCHANGED <<history, base, mine, image>>,
         \A g \in Handle : state'[g] \notin {Planned, Blocks, Supers},
         \A c \in Copy : \A s \in superCut'[c] :
            \E r \in superCut[c] : r.tx = s.tx /\ (s.ok => r.ok)
  PROVE  GInv'
<1> USE DEF GInv
<1>1. AllMade'
  BY DEF AllMade, history
<1>2. NextOfBase' /\ ImageIsMine' /\ NonePast'
  BY DEF NextOfBase, ImageIsMine, NonePast
<1>3. OneTreePerGeneration'
  BY DEF OneTreePerGeneration, history
<1>4. QED
  BY <1>1, <1>2, <1>3

(* A superblock copy of the transaction under way goes out, whole or torn:  *)
(* no other transaction a reader may find is of its generation.             *)
LEMMA SuperOutKeeps ==
  ASSUME GInv, TypeOK', NEW h \in Handle, state[h] = Supers,
         NEW st \in {Supers, Idle}, state' = [state EXCEPT ![h] = st],
         UNCHANGED <<history, base, mine, image>>,
         NEW c0 \in Copy, NEW s0 \in Super, s0.tx = mine[h], WriteSuper(c0, s0)
  PROVE  GInv'
<1> USE DEF GInv, TypeOK
<1>1. \A c \in Copy : \A s \in superCut'[c] : s \in superCut[c] \/ s = s0
  BY DEF WriteSuper
<1>2. gen[mine[h]] = gen[base[h]] + 1
  BY DEF NextOfBase
<1>3. \A c \in Copy : \A s \in superCut'[c] :
         s.ok => s.tx = mine[h] \/ gen[s.tx] <= gen[base[h]]
  BY <1>1 DEF NonePast
<1>4. \A g \in Handle : g # h => state[g] \notin InCommit /\ state'[g] \notin InCommit
  BY DEF OneCommit
<1>5. AllMade'
  BY <1>1 DEF AllMade, history
<1>6. OneCommit'
  BY <1>4 DEF OneCommit
<1>7. NextOfBase' /\ ImageIsMine'
  BY DEF NextOfBase, ImageIsMine, history
<1>8. NonePast'
  BY <1>3, <1>4 DEF NonePast, history
<1>9. OneTreePerGeneration'
  <2> SUFFICES ASSUME NEW c \in Copy, NEW d \in Copy,
                      NEW u \in superCut'[c], NEW v \in superCut'[d],
                      u.ok, v.ok, gen[u.tx] = gen[v.tx]
               PROVE  u.tx = v.tx
    BY DEF OneTreePerGeneration, history
  <2>1. gen[base[h]] \in Nat /\ gen[mine[h]] \in Nat
    OBVIOUS
  <2>2. CASE u \in superCut[c] /\ v \in superCut[d]
    BY <2>2 DEF OneTreePerGeneration
  <2>3. CASE u = s0 \/ v = s0
    BY <1>2, <1>3, <2>1, <2>3
  <2>4. QED
    BY <1>1, <2>2, <2>3
<1>10. QED
  BY <1>5, <1>6, <1>7, <1>8, <1>9

(* A transaction is planned one generation past the handle's.               *)
LEMMA PlanKeeps ==
  ASSUME CommitAssumption, GInv, TypeOK', NEW h \in Handle, Alone(h), Plan(h)
  PROVE  GInv'
<1> USE DEF GInv, TypeOK
<1>1. /\ made < MaxTx /\ made' = made + 1
      /\ gen' = [gen EXCEPT ![made + 1] = gen[base[h]] + 1]
      /\ parent' = [parent EXCEPT ![made + 1] = base[h]]
      /\ mine' = [mine EXCEPT ![h] = made + 1]
      /\ state' = [state EXCEPT ![h] = Planned]
      /\ UNCHANGED <<super, superCut, base, image>>
  BY DEF Plan, NextGeneration, device
<1>2. made \in Nat /\ made + 1 \in Tx
  BY <1>1 DEF Tx, CommitAssumption
<1>3. \A t \in Tx : t <= made => gen'[t] = gen[t]
  BY <1>1, <1>2
<1>4. /\ \A g \in Handle : base[g] \in Tx /\ base[g] <= made
      /\ \A c \in Copy : \A s \in superCut[c] : s.tx \in Tx /\ s.tx <= made
  BY DEF AllMade, Super
<1>5. \A g \in Handle : g # h => state'[g] = state[g] /\ state[g] \notin InCommit
  BY <1>1 DEF Alone
<1>6. AllMade'
  <2>1. /\ \A g \in Handle : /\ base[g] <= made + 1 /\ image[g].tx <= made + 1
                             /\ mine[g] <= made + 1
        /\ \A c \in Copy : \A s \in superCut[c] : s.tx <= made + 1
    <3>1. \A i \in Nat : i <= made => i <= made + 1
      BY <1>2
    <3>2. /\ \A g \in Handle : base[g] \in Nat /\ image[g].tx \in Nat /\ mine[g] \in Nat
          /\ \A c \in Copy : \A s \in superCut[c] : s.tx \in Nat
      <4>1. Tx \subseteq Nat
        BY DEF Tx
      <4>2. \A s \in Super : s.tx \in Nat
        BY <4>1 DEF Super
      <4>3. \A g \in Handle : base[g] \in Nat /\ image[g].tx \in Nat /\ mine[g] \in Nat
        BY <4>1, <4>2
      <4>4. \A c \in Copy : \A s \in superCut[c] : s.tx \in Nat
        BY <4>2
      <4>5. QED
        BY <4>3, <4>4
    <3>3. QED
      BY <3>1, <3>2 DEF AllMade
  <2>2. \A g \in Handle : mine'[g] = mine[g] \/ mine'[g] = made + 1
    BY <1>1
  <2>3. QED
    BY <1>1, <1>2, <2>1, <2>2 DEF AllMade
<1>7. OneCommit' /\ ImageIsMine' /\ NonePast'
  BY <1>1, <1>5 DEF OneCommit, ImageIsMine, NonePast
<1>8. NextOfBase'
  BY <1>1, <1>2, <1>3, <1>4, <1>5 DEF NextOfBase
<1>9. OneTreePerGeneration'
  BY <1>1, <1>3, <1>4 DEF OneTreePerGeneration
<1>10. QED
  BY <1>6, <1>7, <1>8, <1>9

(* The superblock images are made: the second stale check has just found no *)
(* generation past the base.                                                *)
LEMMA MakeImagesKeeps ==
  ASSUME CommitAssumption, GInv, TypeOK', NEW h \in Handle, MakeImages(h)
  PROVE  GInv'
<1> USE DEF GInv, TypeOK
<1>1. CASE Stale(h)
  <2>1. /\ UNCHANGED <<super, superCut, history, mine, image, base>>
        /\ state' = [state EXCEPT ![h] = Idle]
    BY <1>1 DEF MakeImages, device
  <2>2. QED
    BY <2>1, QuietKeeps DEF AllMade
<1>2. CASE ~ Stale(h)
  <2>1. /\ UNCHANGED <<super, superCut, history, mine, base>>
        /\ state[h] = Planned /\ state' = [state EXCEPT ![h] = Blocks]
        /\ \A g \in Handle : g # h => image'[g] = image[g]
        /\ image'[h].tx = mine[h] /\ image'[h].ok
    BY <1>2 DEF MakeImages, device
  <2>2. \A c \in Copy : super[c].ok => gen[super[c].tx] <= gen[base[h]]
    <3>1. Readable(super) /\ gen[ChosenTx(super)] <= gen[base[h]]
      <4>1. Readable(super) /\ ~ (gen[ChosenTx(super)] > gen[base[h]])
        BY <1>2 DEF Stale
      <4>2. ChosenTx(super) \in Tx
        BY <4>1, ChosenNewest
      <4>3. QED
        BY <4>1, <4>2
    <3>2. \A c \in Copy : super[c].ok => gen[super[c].tx] <= gen[ChosenTx(super)]
      BY <3>1, ChosenNewest
    <3>3. \A c \in Copy : gen[super[c].tx] \in Nat
      BY DEF Super
    <3>4. gen[ChosenTx(super)] \in Nat /\ gen[base[h]] \in Nat
      BY <3>1, ChosenNewest
    <3>5. QED
      BY <3>1, <3>2, <3>3, <3>4
  <2>3. \A g \in Handle : g # h => state'[g] = state[g] /\ state[g] \notin InCommit
    BY <2>1 DEF OneCommit
  <2>4. AllMade' /\ OneCommit' /\ NextOfBase' /\ ImageIsMine'
    <3>1. AllMade'
      BY <2>1 DEF AllMade, history
    <3>2. OneCommit'
      BY <2>1, <2>3 DEF OneCommit
    <3>3. NextOfBase'
      BY <2>1, <2>3 DEF NextOfBase, history
    <3>4. ImageIsMine'
      BY <2>1, <2>3 DEF ImageIsMine
    <3>5. QED
      BY <3>1, <3>2, <3>3, <3>4
  <2>5. NonePast'
    BY <2>1, <2>2, <2>3 DEF NonePast, history
  <2>6. OneTreePerGeneration'
    BY <2>1 DEF OneTreePerGeneration, history
  <2>7. QED
    BY <2>4, <2>5, <2>6
<1>3. QED
  BY <1>1, <1>2

(* The barrier leaves nothing but what a read finds, and that was checked.  *)
LEMMA BarrierKeeps ==
  ASSUME CommitAssumption, GInv, TypeOK', NEW h \in Handle, Barrier(h)
  PROVE  GInv'
<1> USE DEF GInv, TypeOK
<1>1. /\ UNCHANGED <<history, super, base, mine, image>>
      /\ superCut' = [c \in Copy |-> {super[c]}]
      /\ state[h] = Blocks /\ state' = [state EXCEPT ![h] = Supers]
  BY DEF Barrier, Flush
<1>2. \A c \in Copy : \A s \in superCut'[c] : s = super[c] /\ s \in superCut[c]
  BY <1>1
<1>3. \A g \in Handle : g # h => state'[g] = state[g] /\ state[g] \notin InCommit
  BY <1>1 DEF OneCommit
<1>4. AllMade'
  BY <1>1, <1>2 DEF AllMade, history
<1>5. OneCommit' /\ NextOfBase' /\ ImageIsMine'
  BY <1>1, <1>3 DEF OneCommit, NextOfBase, ImageIsMine, history
<1>6. NonePast'
  BY <1>1, <1>2, <1>3 DEF NonePast, history
<1>7. OneTreePerGeneration'
  BY <1>1, <1>2 DEF OneTreePerGeneration, history
<1>8. QED
  BY <1>4, <1>5, <1>6, <1>7

(* Power is lost, one copy perhaps torn.                                    *)
LEMMA LeaveKeeps ==
  ASSUME CommitAssumption, GInv, TypeOK', NEW b \in Left(blockCut), NEW s \in [Copy -> Super],
         \A c \in Copy : \E r \in superCut[c] : r.tx = s[c].tx /\ (s[c].ok => r.ok),
         Leave(b, s)
  PROVE  GInv'
<1>1. /\ UNCHANGED <<history, base, mine, image>>
      /\ superCut' = [c \in Copy |-> {s[c]}]
      /\ \A g \in Handle : state'[g] = Closed
  BY DEF Leave
<1>2. OneCommit'
  BY <1>1 DEF OneCommit
<1>3. QED
  BY <1>1, <1>2, SettledKeeps

(* Every step, a fault or a cut among them, keeps the invariant.            *)
LEMMA GStep ==
  ASSUME CommitAssumption, GInv, AnyNext
  PROVE  GInv'
<1>1. TypeOK /\ TypeOK'
  BY TypeAny DEF GInv
<1>2. /\ \A g \in Handle : base[g] <= made
      /\ Readable(super) => ChosenTx(super) <= made
  <2>1. ASSUME Readable(super) PROVE ChosenTx(super) <= made
    <3>1. Chosen(super) \in Copy /\ super[Chosen(super)].tx = ChosenTx(super)
      BY <1>1, <2>1, ChosenNewest DEF TypeOK
    <3>2. super[Chosen(super)] \in superCut[Chosen(super)]
      BY <1>1, <3>1 DEF TypeOK
    <3>3. QED
      BY <3>1, <3>2 DEF GInv, AllMade
  <2>2. QED
    BY <2>1 DEF GInv, AllMade
<1>3. ASSUME NEW h \in Handle, Mount(h) \/ Close(h) \/ Remount(h) PROVE GInv'
  <2>1. /\ UNCHANGED <<super, superCut, history, mine, image>>
        /\ \/ state' = [state EXCEPT ![h] = Idle]
           \/ state' = [state EXCEPT ![h] = Closed]
        /\ \/ base' = base
           \/ Readable(super) /\ base' = [base EXCEPT ![h] = ChosenTx(super)]
    BY <1>1, <1>3 DEF Mount, Close, Remount, Mountable, device, TypeOK
  <2>2. \A g \in Handle :
           /\ base'[g] <= made
           /\ \/ state'[g] = state[g] /\ base'[g] = base[g]
              \/ state'[g] \notin InCommit
    BY <1>1, <1>2, <2>1 DEF TypeOK
  <2>3. QED
    BY <1>1, <2>1, <2>2, QuietKeeps
<1>4. ASSUME NEW h \in Handle, Alone(h), Plan(h) PROVE GInv'
  BY <1>1, <1>4, PlanKeeps
<1>5. ASSUME NEW h \in Handle, MakeImages(h) PROVE GInv'
  BY <1>1, <1>5, MakeImagesKeeps
<1>6. ASSUME NEW h \in Handle, PutBlock(h) PROVE GInv'
  <2>1. UNCHANGED <<super, superCut, history, mine, image, state, base>>
    BY <1>6 DEF PutBlock
  <2>2. QED
    BY <1>1, <1>2, <2>1, QuietKeeps
<1>7. ASSUME NEW h \in Handle, Barrier(h) PROVE GInv'
  BY <1>1, <1>7, BarrierKeeps
<1>8. ASSUME NEW h \in Handle, PutSuper(h) PROVE GInv'
  <2>1. /\ state[h] = Supers /\ state' = [state EXCEPT ![h] = Supers]
        /\ UNCHANGED <<history, base, mine, image>>
        /\ WriteSuper(copy[h], image[h])
    BY <1>1, <1>8 DEF PutSuper, TypeOK
  <2>2. copy[h] \in Copy /\ image[h] \in Super /\ image[h].tx = mine[h]
    <3>1. copy[h] \in 1 .. NCopies + 1 /\ copy[h] <= NCopies /\ NCopies \in Int
      BY <1>1, <1>8 DEF PutSuper, TypeOK, CommitAssumption
    <3>2. QED
      BY <1>1, <2>1, <3>1 DEF Copy, TypeOK, GInv, ImageIsMine
  <2>3. Supers \in {Supers, Idle}
    OBVIOUS
  <2>4. QED
    BY ONLY <1>1, <2>1, <2>2, <2>3, SuperOutKeeps, GInv, h \in Handle
<1>9. ASSUME NEW h \in Handle, CommitPoint(h) PROVE GInv'
  <2>1. /\ UNCHANGED <<history, base, mine, image>>
        /\ superCut' = [c \in Copy |-> {super[c]}]
        /\ state[h] = Supers /\ state' = [state EXCEPT ![h] = Reopen]
    BY <1>9 DEF CommitPoint, Flush
  <2>2. \A g \in Handle : g # h => state'[g] = state[g] /\ state[g] \notin InCommit
    BY <1>1, <2>1 DEF OneCommit, GInv, TypeOK
  <2>3. OneCommit' /\ \A g \in Handle : state'[g] \notin {Planned, Blocks, Supers}
    BY <1>1, <2>1, <2>2 DEF OneCommit, TypeOK
  <2>4. \A c \in Copy : \A s \in superCut'[c] : s \in superCut[c]
    BY <1>1, <2>1 DEF TypeOK
  <2>5. QED
    BY <1>1, <2>1, <2>3, <2>4, SettledKeeps
<1>10. ASSUME NEW h \in Handle, Kill(h) PROVE GInv'
  <2>1. /\ UNCHANGED <<super, superCut, history, mine, image, base>>
        /\ state' = [state EXCEPT ![h] = Closed]
    BY <1>10 DEF Kill, device
  <2>2. QED
    BY <1>1, <1>2, <2>1, QuietKeeps DEF TypeOK
<1>11. ASSUME NEW h \in Handle, Fail(h) PROVE GInv'
  <2>1. /\ UNCHANGED <<history, mine, image, base>>
        /\ state' = [state EXCEPT ![h] = Idle]
    BY <1>11 DEF Fail
  <2>2. CASE UNCHANGED <<super, superCut>>
    BY <1>1, <1>2, <2>1, <2>2, QuietKeeps DEF TypeOK
  <2>3. ASSUME NEW intact \in BOOLEAN, state[h] = Supers, copy[h] <= NCopies,
               WriteSuper(copy[h], [image[h] EXCEPT !.ok = intact])
        PROVE  GInv'
    <3>1. copy[h] \in Copy
      <4>1. copy[h] \in 1 .. NCopies + 1 /\ NCopies \in Int
        BY <1>1 DEF TypeOK, CommitAssumption
      <4>2. QED
        BY <2>3, <4>1 DEF Copy
    <3>2. image[h] \in Super /\ image[h].tx = mine[h]
      BY <1>1, <2>3 DEF TypeOK, GInv, ImageIsMine
    <3>3. /\ [image[h] EXCEPT !.ok = intact] \in Super
          /\ [image[h] EXCEPT !.ok = intact].tx = mine[h]
      BY <3>2 DEF Super
    <3>4. Idle \in {Supers, Idle}
      OBVIOUS
    <3>5. QED
      BY ONLY <1>1, <2>1, <2>3, <3>1, <3>3, <3>4, SuperOutKeeps, GInv, h \in Handle
  <2>4. QED
    BY <1>11, <2>2, <2>3 DEF Fail, device
<1>12. ASSUME NEW b \in Left(blockCut), NEW s \in Left(superCut), Leave(b, s) PROVE GInv'
  <2>1. s \in [Copy -> Super] /\ \A c \in Copy : s[c] \in superCut[c]
    BY <1>1, CutPick DEF TypeOK
  <2>2. QED
    BY <1>1, <1>12, <2>1, LeaveKeeps
<1>13. ASSUME NEW b \in Left(blockCut), NEW s \in Left(superCut), NEW c \in Copy,
              Leave(b, [s EXCEPT ![c].ok = FALSE])
       PROVE  GInv'
  <2> DEFINE torn == [s EXCEPT ![c].ok = FALSE]
  <2>1. s \in [Copy -> Super] /\ \A d \in Copy : s[d] \in superCut[d]
    BY <1>1, CutPick DEF TypeOK
  <2>2. [s[c] EXCEPT !.ok = FALSE] \in Super /\ [s[c] EXCEPT !.ok = FALSE].tx = s[c].tx
        /\ ~ [s[c] EXCEPT !.ok = FALSE].ok
    <3>1. s[c] \in [tx : Tx, chunk : Tx, ok : BOOLEAN]
      BY <2>1 DEF Super
    <3>2. QED
      BY ONLY <3>1 DEF Super
  <2>3. torn \in [Copy -> Super]
    BY <2>1, <2>2
  <2>4. \A d \in Copy : \E r \in superCut[d] : r.tx = torn[d].tx /\ (torn[d].ok => r.ok)
    BY <2>1, <2>2
  <2>5. Leave(b, torn)
    BY <1>13
  <2> HIDE DEF torn
  <2>6. QED
    BY <1>1, <2>3, <2>4, <2>5, LeaveKeeps
<1>14. QED
  BY <1>3, <1>4, <1>5, <1>6, <1>7, <1>8, <1>9, <1>10, <1>11, <1>12, <1>13
     DEF AnyNext, FaultNext, Next, Call, CommitStep, PowerCut, TornCut

(* The device mkfs made satisfies it.                                       *)
LEMMA GInitially ==
  ASSUME CommitAssumption, Init
  PROVE  GInv
<1>1. IInv
  BY Initially
<1>2. \A h \in Handle : state[h] = Closed
  BY DEF Init
<1>3. \A c \in Copy : \A s \in superCut[c] : s.tx = 0
  BY DEF Init
<1>4. NextOfBase /\ ImageIsMine /\ NonePast
  BY <1>2 DEF NextOfBase, ImageIsMine, NonePast
<1>5. OneTreePerGeneration
  BY <1>3 DEF OneTreePerGeneration
<1>6. AllMade
  BY <1>1 DEF IInv, Known, AllMade
<1>7. QED
  BY <1>1, <1>4, <1>5, <1>6 DEF IInv, GInv

(* A step in which nothing happens keeps it.                                *)
LEMMA GStutters ==
  ASSUME GInv, UNCHANGED vars
  PROVE  GInv'
<1>1. TypeOK'
  BY DEF GInv, TypeOK, vars, device, history, handles
<1>2. UNCHANGED <<super, superCut, history, mine, image, base, state>>
  BY DEF vars, device, handles
<1>3. QED
  BY <1>1, <1>2, QuietKeeps DEF GInv, AllMade

(* refuse_stale, "use a generation twice": whatever calls fail, processes   *)
(* are killed, power cuts come and superblock copies are torn, and however  *)
(* many handles there are, no generation names two transactions.            *)
THEOREM GenerationsUnique ==
  /\ FaultSpec => []OneTreePerGeneration
  /\ TornSpec => []OneTreePerGeneration
<1>1. Init => GInv
  BY GInitially, CommitAssumption
<1>2. GInv /\ [FaultNext]_vars => GInv'
  BY GStep, GStutters, CommitAssumption DEF AnyNext
<1>3. GInv /\ [TornNext]_vars => GInv'
  BY GStep, GStutters, CommitAssumption DEF AnyNext, TornNext, FaultNext
<1>4. GInv => OneTreePerGeneration
  BY DEF GInv
<1>5. FaultSpec => []OneTreePerGeneration
  BY <1>1, <1>2, <1>4, PTL DEF FaultSpec
<1>6. TornSpec => []OneTreePerGeneration
  BY <1>1, <1>3, <1>4, PTL DEF TornSpec
<1>7. QED
  BY <1>5, <1>6

-----------------------------------------------------------------------------
\* No commit lost under another.

Now == ChosenTx(super)       \* the transaction a reader finds

\* With nothing to read, nothing is under way.
NothingUnread ==
  ~ Readable(super) => \A h \in Handle : state[h] \notin {Planned, Blocks, Supers}

\* No open handle is ahead of what a reader finds.
NoneAhead ==
  Readable(super) => \A h \in Handle : state[h] # Closed =>
    base[h] = Now \/ gen[base[h]] < gen[Now]

\* What is under way was planned on what a reader finds, or is found already.
OnTop ==
  Readable(super) => \A h \in Handle :
    /\ state[h] \in {Planned, Blocks} => base[h] = Now
    /\ state[h] = Supers => Now \in {base[h], mine[h]}

\* What is still to be written goes where the tree it was planned on has none.
TodoFree ==
  \A h \in Handle : state[h] \in {Planned, Blocks} =>
    \A p \in todo[h] : tree[base[h]][p[1]] = Free

\* An open handle on what a reader finds reads every block of it.
ReadsWhole ==
  Readable(super) => \A h \in Handle : state[h] # Closed /\ base[h] = Now => Whole(Now)

HInv == /\ GInv
        /\ NothingUnread
        /\ NoneAhead
        /\ OnTop
        /\ TodoFree
        /\ ReadsWhole

\* A call that fails does not put a reader back on an older generation.
FailuresHold ==
  \A h \in Handle : Fail(h) /\ Readable(super') => gen[Now] <= gen[Now']

(* What a read of the superblocks finds is a transaction planned, that of a *)
(* copy that verifies, and of two such copies of one generation it is one.  *)
LEMMA NowIs ==
  ASSUME CommitAssumption, GInv, Readable(super)
  PROVE  /\ Now \in Tx /\ Now <= made /\ gen[Now] \in Nat
         /\ \E c \in Copy : super[c].ok /\ super[c].tx = Now
         /\ \A c \in Copy : super[c].ok =>
               gen[super[c].tx] <= gen[Now]
               /\ (gen[super[c].tx] = gen[Now] => super[c].tx = Now)
<1> USE DEF GInv, TypeOK, Now
<1>1. /\ Chosen(super) \in Copy /\ super[Chosen(super)].ok
      /\ super[Chosen(super)].tx = ChosenTx(super) /\ ChosenTx(super) \in Tx
      /\ \A d \in Copy : super[d].ok => gen[super[d].tx] <= gen[ChosenTx(super)]
  BY ChosenNewest
<1>2. super[Chosen(super)] \in superCut[Chosen(super)]
  BY <1>1
<1>3. ChosenTx(super) <= made
  BY <1>1, <1>2 DEF AllMade
<1>4. \A c \in Copy : super[c].ok /\ gen[super[c].tx] = gen[ChosenTx(super)]
         => super[c].tx = ChosenTx(super)
  <2>1. OneTreePerGeneration /\ \A c \in Copy : super[c] \in superCut[c]
    OBVIOUS
  <2>2. QED
    BY ONLY <1>1, <2>1 DEF OneTreePerGeneration
<1>5. QED
  BY <1>1, <1>3, <1>4

(* A step that leaves the device alone, opens a handle on what a reader     *)
(* finds or moves none, and takes none further into a commit.               *)
LEMMA HandlesMove ==
  ASSUME CommitAssumption, HInv, GInv', UNCHANGED <<device, history, mine, image, todo>>,
         \A g \in Handle :
            \/ state'[g] = state[g] /\ base'[g] = base[g]
            \/ state[g] = Planned /\ state'[g] = Blocks /\ base'[g] = base[g]
            \/ /\ state'[g] \in {Idle, Closed}
               /\ base'[g] = base[g]
               /\ state'[g] = Idle => state[g] # Closed
            \/ /\ state'[g] = Idle
               /\ Readable(super) /\ base'[g] = Now /\ Whole(Now)
  PROVE  HInv'
<1> USE DEF HInv
<1>1. Now' = Now /\ (Readable(super)' <=> Readable(super)) /\ (Whole(Now)' <=> Whole(Now))
  <2>1. UNCHANGED <<super, gen, block, tree>>
    BY DEF device, history
  <2>2. Now' = Now /\ (Readable(super)' <=> Readable(super))
    BY <2>1 DEF Now, ChosenTx, Chosen, IsChosen, Readable
  <2>3. QED
    BY <2>1, <2>2 DEF Whole, Reaches
<1>2. NothingUnread'
  BY <1>1 DEF NothingUnread
<1>3. NoneAhead'
  BY <1>1 DEF NoneAhead, history
<1>4. OnTop'
  BY <1>1 DEF OnTop, history
<1>5. TodoFree'
  BY DEF TodoFree, history
<1>6. ReadsWhole'
  BY <1>1 DEF ReadsWhole
<1>7. QED
  BY <1>2, <1>3, <1>4, <1>5, <1>6

(* Planned on what a reader finds, since the handle is not stale and none is*)
(* ahead.                                                                   *)
LEMMA PlanOnTop ==
  ASSUME CommitAssumption, HInv, GInv', NEW h \in Handle, Alone(h), Plan(h)
  PROVE  HInv' /\ Now' = Now
<1> USE DEF HInv
<1>0. TypeOK /\ GInv
  BY DEF GInv
<1>1. /\ state[h] = Idle /\ ~ Stale(h) /\ made < MaxTx
      /\ UNCHANGED <<device, base, image, copy, kept, cuts, faults>>
  BY DEF Plan
<1>2. PICK released \in SUBSET Reaches(base[h]), taken \in SUBSET FreePlaces(h) :
        /\ made' = made + 1
        /\ gen' = [gen EXCEPT ![made + 1] = NextGeneration(h)]
        /\ tree' = [tree EXCEPT ![made + 1] =
             [a \in Addr |-> IF a \in taken THEN made + 1
                             ELSE IF a \in released THEN Free ELSE tree[base[h]][a]]]
        /\ todo' = [todo EXCEPT ![h] = taken \X Mirror]
        /\ state' = [state EXCEPT ![h] = Planned]
  BY DEF Plan
<1>3. made \in Nat /\ made + 1 \in Tx /\ \A t \in Tx : t <= made => t # made + 1
  BY <1>0, <1>1 DEF TypeOK, Tx, CommitAssumption
<1>4. \A t \in Tx : t <= made => gen'[t] = gen[t] /\ tree'[t] = tree[t]
  BY <1>0, <1>2, <1>3 DEF TypeOK
<1>5. Readable(super) /\ ~ (gen[Now] > gen[base[h]])
  BY <1>1 DEF Stale, Now
<1>6. Now \in Tx /\ Now <= made /\ gen[Now] \in Nat
  BY <1>5, <1>0, NowIs
<1>7. \A g \in Handle : base[g] \in Tx /\ base[g] <= made /\ gen[base[g]] \in Nat
  BY <1>0 DEF TypeOK, GInv, AllMade
<1>8. base[h] = Now
  BY <1>1, <1>5, <1>6, <1>7 DEF NoneAhead
<1>9. \A s : Readable(s)' <=> Readable(s)
  BY DEF Readable
<1>10. Now' = Now
  <2>1. \A c \in Copy : super[c].ok => super[c].tx \in Tx /\ super[c].tx <= made
    BY <1>0 DEF GInv, AllMade, TypeOK, Super
  <2>2. \A c \in Copy : IsChosen(super, c)' <=> IsChosen(super, c)
    BY <1>1, <1>4, <2>1 DEF IsChosen, device
  <2>3. QED
    BY <1>1, <2>2 DEF Now, ChosenTx, Chosen, device
<1>11. Readable(super)' <=> Readable(super)
  BY <1>1 DEF Readable, device
<1>12. Whole(Now)' <=> Whole(Now)
  BY <1>1, <1>4, <1>6, <1>10 DEF Whole, Reaches, device
<1>13. \A g \in Handle : g # h => state'[g] = state[g] /\ state[g] \notin InCommit
  BY <1>0, <1>2 DEF Alone, TypeOK
<1>14. state'[h] = Planned
  BY <1>0, <1>2 DEF TypeOK
<1>15. NothingUnread'
  BY <1>5, <1>11 DEF NothingUnread
<1>16. NoneAhead'
  BY <1>1, <1>4, <1>6, <1>7, <1>10, <1>11, <1>13, <1>8 DEF NoneAhead
<1>17. OnTop'
  BY <1>1, <1>8, <1>10, <1>13, <1>14 DEF OnTop
<1>18. TodoFree'
  <2>1. \A p \in todo'[h] : tree'[base[h]][p[1]] = Free
    <3>1. \A p \in todo'[h] : p[1] \in taken
      BY <1>0, <1>2 DEF TypeOK
    <3>2. \A a \in taken : tree[base[h]][a] = Free
      BY DEF FreePlaces, Reaches
    <3>3. QED
      BY <1>4, <1>7, <3>1, <3>2
  <2>2. QED
    BY <1>1, <1>13, <2>1 DEF TodoFree
<1>19. ReadsWhole'
  BY <1>1, <1>8, <1>10, <1>11, <1>12, <1>13 DEF ReadsWhole
<1>20. QED
  BY <1>10, <1>15, <1>16, <1>17, <1>18, <1>19

(* A block goes to a place the tree a reader finds has none in.             *)
LEMMA BlockOut ==
  ASSUME CommitAssumption, HInv, GInv', NEW h \in Handle, state[h] = Blocks,
         NEW p \in todo[h], NEW t, WriteBlock(p, t),
         UNCHANGED <<super, superCut, history, base, mine, image>>,
         \A g \in Handle : todo'[g] \subseteq todo[g],
         NEW st \in {Blocks, Idle}, state' = [state EXCEPT ![h] = st]
  PROVE  HInv'
<1> USE DEF HInv
<1>0. TypeOK /\ GInv
  BY DEF GInv
<1>1. Now' = Now /\ (Readable(super)' <=> Readable(super))
  BY DEF Now, ChosenTx, Chosen, IsChosen, Readable, history
<1>2. block' = [block EXCEPT ![p] = t]
  BY DEF WriteBlock
<1>3. \A g \in Handle : state'[g] # Closed => state[g] # Closed
  BY <1>0 DEF TypeOK
<1>4. \A g \in Handle : state'[g] \in {Planned, Blocks, Supers} => state'[g] = state[g]
  BY <1>0 DEF TypeOK
<1>5. Readable(super) /\ Whole(Now) => Whole(Now)'
  <2> SUFFICES ASSUME Readable(super), Whole(Now), NEW a \in Addr, tree[Now][a] # Free
               PROVE  \E m \in Mirror : block'[<<a, m>>] = tree[Now][a]
    BY <1>1 DEF Whole, Reaches, history
  <2>1. PICK m \in Mirror : block[<<a, m>>] = tree[Now][a]
    BY DEF Whole, Reaches
  <2>2. base[h] = Now /\ tree[Now][p[1]] = Free
    BY DEF OnTop, TodoFree
  <2>3. p # <<a, m>> /\ <<a, m>> \in Place
    BY <2>2 DEF Place
  <2>4. QED
    BY <1>0, <1>2, <2>1, <2>3 DEF TypeOK
<1>6. NothingUnread'
  BY <1>1, <1>4 DEF NothingUnread
<1>7. NoneAhead'
  BY <1>1, <1>3 DEF NoneAhead, history
<1>8. OnTop'
  BY <1>1, <1>4 DEF OnTop
<1>9. TodoFree'
  BY <1>4 DEF TodoFree, history
<1>10. ReadsWhole'
  BY <1>1, <1>3, <1>5 DEF ReadsWhole
<1>11. QED
  BY <1>6, <1>7, <1>8, <1>9, <1>10

(* A superblock copy goes out, the newest generation not falling: what a    *)
(* reader finds stays, or becomes the transaction written.                  *)
LEMMA SuperOut ==
  ASSUME CommitAssumption, HInv, GInv', NEW h \in Handle, state[h] = Supers,
         NEW st \in {Supers, Idle}, state' = [state EXCEPT ![h] = st],
         NEW c0 \in Copy, NEW s0 \in Super, s0.tx = mine[h], WriteSuper(c0, s0),
         UNCHANGED <<block, history, base, mine, image, todo>>,
         st = Supers => s0.ok,
         Readable(super') => gen[Now] <= gen[Now']
  PROVE  /\ HInv'
         /\ Readable(super') /\ Now' # Now => parent[Now'] = Now
<1> USE DEF HInv
<1>0. TypeOK /\ GInv
  BY DEF GInv
<1>1. super' = [super EXCEPT ![c0] = s0]
  BY DEF WriteSuper
<1>2. Readable(super) /\ Now \in {base[h], mine[h]}
  BY DEF NothingUnread, OnTop
<1>3. /\ gen[mine[h]] = gen[base[h]] + 1 /\ parent[mine[h]] = base[h]
      /\ gen[base[h]] \in Nat /\ gen[mine[h]] \in Nat
  BY <1>0 DEF GInv, NextOfBase, TypeOK
<1>4. \A g \in Handle : g # h => state'[g] = state[g] /\ state[g] \notin InCommit
  BY <1>0 DEF GInv, OneCommit, TypeOK
<1>5. ASSUME Readable(super') PROVE Now' \in {Now, mine[h]}
  <2>1. /\ GInv' /\ gen' = gen /\ Readable(super)'
    BY <1>5 DEF history, Readable
  <2>2. PICK c \in Copy : super'[c].ok /\ super'[c].tx = Now'
    <3>1. /\ Chosen(super') \in Copy /\ super'[Chosen(super')].ok
          /\ super'[Chosen(super')].tx = ChosenTx(super')
      BY <1>0, <1>5, <2>1, ChosenNewest DEF GInv, TypeOK
    <3>2. ChosenTx(super)' = ChosenTx(super')
      BY <2>1 DEF ChosenTx, Chosen, IsChosen
    <3>3. QED
      BY <3>1, <3>2 DEF Now
  <2>3. CASE c = c0
    BY <1>0, <1>1, <2>2, <2>3 DEF TypeOK
  <2>4. CASE c # c0
    <3>1. super[c].ok /\ super[c].tx = Now'
      BY <1>0, <1>1, <2>2, <2>4 DEF TypeOK
    <3>2. gen[Now'] <= gen[Now] /\ (gen[Now'] = gen[Now] => Now' = Now)
      BY <1>0, <1>2, <3>1, NowIs
    <3>3. gen[Now'] \in Nat /\ gen[Now] \in Nat
      BY <1>0, <1>2, <3>1, NowIs DEF TypeOK, Super
    <3>4. gen[Now] <= gen[Now']
      BY <1>5
    <3>5. QED
      BY <3>2, <3>3, <3>4
  <2>5. QED
    BY <2>3, <2>4
<1>6. \A g \in Handle : state[g] # Closed =>
        /\ base[g] = Now \/ gen[base[g]] < gen[Now]
        /\ gen[base[g]] <= gen[Now] /\ gen[base[g]] \in Nat /\ gen[Now] \in Nat
  BY <1>0, <1>2, NowIs DEF NoneAhead, TypeOK
<1>7. \A g \in Handle : state'[g] # Closed => state[g] # Closed
  BY <1>4
<1>8. Readable(super)' <=> Readable(super')
  BY DEF Readable
<1>9. TodoFree'
  BY <1>4 DEF TodoFree, history
<1>10. CASE ~ Readable(super')
  <2>1. ~ s0.ok
    BY <1>0, <1>1, <1>10 DEF Readable, TypeOK
  <2>2. \A g \in Handle : state'[g] \notin {Planned, Blocks, Supers}
    BY <1>0, <1>4, <2>1 DEF TypeOK
  <2>3. NothingUnread'
    BY <2>2 DEF NothingUnread
  <2>4. NoneAhead' /\ OnTop' /\ ReadsWhole'
    BY <1>8, <1>10 DEF NoneAhead, OnTop, ReadsWhole
  <2>5. QED
    BY <1>9, <1>10, <2>3, <2>4
<1>11. CASE Readable(super')
  <2>1. Now' \in {Now, mine[h]} /\ Readable(super)'
    BY <1>5, <1>8, <1>11
  <2>2. Now' # Now => Now' = mine[h] /\ Now = base[h]
    BY <1>2, <2>1
  <2>3. \A g \in Handle : state[g] # Closed =>
           base[g] = Now' \/ gen[base[g]] < gen[Now']
    BY <1>3, <1>6, <2>1, <2>2
  <2>4. NothingUnread'
    BY <2>1 DEF NothingUnread
  <2>5. NoneAhead'
    BY <1>7, <2>3 DEF NoneAhead, history
  <2>6. OnTop'
    BY <1>2, <1>4, <2>1, <2>2 DEF OnTop
  <2>7. \A t : Whole(t)' <=> Whole(t)
    BY DEF Whole, Reaches, history
  <2>8. ReadsWhole'
    <3>1. ASSUME NEW g \in Handle, state[g] # Closed, base[g] = Now' PROVE Now' = Now
      BY <1>3, <1>6, <2>2, <3>1
    <3>2. QED
      BY <1>2, <1>7, <2>7, <3>1 DEF ReadsWhole
  <2>9. Now' # Now => parent[Now'] = Now
    BY <1>3, <2>2
  <2>10. QED
    BY <1>9, <2>4, <2>5, <2>6, <2>8, <2>9
<1>12. QED
  BY <1>10, <1>11

(* A copy written whole never puts a reader back.                           *)
LEMMA WholeCopyHolds ==
  ASSUME CommitAssumption, HInv, GInv', NEW h \in Handle, state[h] = Supers,
         NEW c0 \in Copy, NEW s0 \in Super, s0.tx = mine[h], s0.ok, WriteSuper(c0, s0),
         UNCHANGED history
  PROVE  Readable(super') /\ gen[Now] <= gen[Now']
<1>0. TypeOK /\ GInv /\ TypeOK'
  BY DEF HInv, GInv
<1>1. super' = [super EXCEPT ![c0] = s0] /\ gen' = gen
  BY DEF WriteSuper, history
<1>2. super'[c0] = s0
  BY <1>0, <1>1 DEF TypeOK
<1>3. Readable(super') /\ Readable(super)'
  BY <1>2 DEF Readable
<1>4. Now' \in Tx /\ \A d \in Copy : super'[d].ok => gen[super'[d].tx] <= gen[Now']
  <2>1. super' \in [Copy -> Super] /\ gen \in [Tx -> Nat]
    BY <1>0 DEF TypeOK
  <2>2. Now' = ChosenTx(super')
    BY <1>1 DEF Now, ChosenTx, Chosen, IsChosen
  <2>3. QED
    BY <1>3, <2>1, <2>2, ChosenNewest
<1>5. Readable(super) /\ Now \in {base[h], mine[h]}
  BY DEF HInv, NothingUnread, OnTop
<1>6. PICK c \in Copy : super[c].ok /\ super[c].tx = Now
  BY <1>0, <1>5, NowIs
<1>7. CASE c = c0
  <2>1. gen[mine[h]] <= gen[Now']
    BY <1>2, <1>4
  <2>2. gen[mine[h]] = gen[base[h]] + 1 /\ gen[base[h]] \in Nat /\ gen[Now'] \in Nat
    BY <1>0, <1>4 DEF GInv, NextOfBase, TypeOK
  <2>3. QED
    BY <1>3, <1>5, <2>1, <2>2
<1>8. CASE c # c0
  <2>1. super'[c] = super[c]
    BY <1>0, <1>1, <1>8 DEF TypeOK
  <2>2. QED
    BY <1>3, <1>4, <1>6, <2>1
<1>9. QED
  BY <1>7, <1>8

(* The copy a handle is to write is one the device holds, and its image is  *)
(* of its transaction.                                                      *)
LEMMA CopyToWrite ==
  ASSUME CommitAssumption, GInv, NEW h \in Handle, state[h] = Supers, copy[h] <= NCopies
  PROVE  /\ copy[h] \in Copy
         /\ image[h] \in Super /\ image[h].tx = mine[h] /\ image[h].ok
         /\ \A intact \in BOOLEAN :
              LET s0 == [image[h] EXCEPT !.ok = intact]
              IN  s0 \in Super /\ s0.tx = mine[h] /\ s0.ok = intact
<1>1. copy[h] \in Copy
  <2>1. copy[h] \in 1 .. NCopies + 1 /\ NCopies \in Int
    BY DEF GInv, TypeOK, CommitAssumption
  <2>2. QED
    BY <2>1 DEF Copy
<1>2. image[h] \in Super /\ image[h].tx = mine[h] /\ image[h].ok
  BY DEF GInv, TypeOK, ImageIsMine
<1>3. QED
  BY <1>1, <1>2 DEF Super

(* Unless a failed call puts a reader back, every step keeps the invariant, *)
(* and moves a reader only to a transaction planned on the one before.      *)
LEMMA HStep ==
  ASSUME CommitAssumption, HInv, AnyNext, FailuresHold
  PROVE  /\ HInv'
         /\ cuts' = cuts /\ Readable(super') /\ Now' # Now => parent'[Now'] = Now
<1>0. GInv /\ GInv' /\ TypeOK /\ TypeOK'
  BY GStep DEF HInv, GInv
<1>1. ASSUME UNCHANGED <<super, gen>> PROVE Now' = Now
  BY <1>1 DEF Now, ChosenTx, Chosen, IsChosen
<1>2. ASSUME NEW h \in Handle, Mount(h) \/ Close(h) \/ Remount(h) \/ Kill(h)
      PROVE  HInv' /\ Now' = Now
  <2>1. UNCHANGED <<device, history, mine, image, todo>>
    BY <1>2 DEF Mount, Close, Remount, Kill
  <2>2. \A g \in Handle :
            \/ state'[g] = state[g] /\ base'[g] = base[g]
            \/ state[g] = Planned /\ state'[g] = Blocks /\ base'[g] = base[g]
            \/ /\ state'[g] \in {Idle, Closed}
               /\ base'[g] = base[g]
               /\ state'[g] = Idle => state[g] # Closed
            \/ /\ state'[g] = Idle
               /\ Readable(super) /\ base'[g] = Now /\ Whole(Now)
    <3>1. CASE Mount(h)
      BY <1>0, <3>1 DEF Mount, Mountable, Now, TypeOK
    <3>2. CASE Close(h)
      BY <1>0, <3>2 DEF Close, TypeOK
    <3>3. CASE Remount(h)
      BY <1>0, <3>3 DEF Remount, Mountable, Now, TypeOK
    <3>4. CASE Kill(h)
      BY <1>0, <3>4 DEF Kill, TypeOK
    <3>5. QED
      BY <1>2, <3>1, <3>2, <3>3, <3>4
  <2>3. UNCHANGED <<super, gen>>
    BY <2>1 DEF device, history
  <2>4. QED
    BY <1>0, <1>1, <2>1, <2>2, <2>3, HandlesMove
<1>3. ASSUME NEW h \in Handle, Alone(h), Plan(h) PROVE HInv' /\ Now' = Now
  BY <1>0, <1>3, PlanOnTop
<1>4. ASSUME NEW h \in Handle, MakeImages(h) PROVE HInv' /\ Now' = Now
  <2>1. /\ UNCHANGED <<device, history, base, mine, todo>>
        /\ state[h] = Planned
        /\ \/ state' = [state EXCEPT ![h] = Idle]
           \/ state' = [state EXCEPT ![h] = Blocks]
    BY <1>4 DEF MakeImages
  <2>2. UNCHANGED <<super, gen, block, tree>>
    BY <2>1 DEF device, history
  <2>3. Now' = Now
    BY <1>1, <2>2
  <2>4. Readable(super)' <=> Readable(super)
    BY <2>2 DEF Readable
  <2>5. Whole(Now)' <=> Whole(Now)
    BY <2>2, <2>3 DEF Whole, Reaches
  <2>6. /\ \A g \in Handle : state'[g] # Closed => state[g] # Closed
        /\ \A g \in Handle : state'[g] \in {Planned, Blocks} => state[g] \in {Planned, Blocks}
        /\ \A g \in Handle : state'[g] = Supers => state[g] = Supers
    BY <1>0, <2>1 DEF TypeOK
  <2>7. NothingUnread' /\ NoneAhead' /\ OnTop'
    BY <2>1, <2>2, <2>3, <2>4, <2>6 DEF HInv, NothingUnread, NoneAhead, OnTop
  <2>8. TodoFree' /\ ReadsWhole'
    BY <2>1, <2>2, <2>3, <2>4, <2>5, <2>6 DEF HInv, TodoFree, ReadsWhole
  <2>9. QED
    BY <1>0, <2>3, <2>7, <2>8 DEF HInv
<1>5. ASSUME NEW h \in Handle, PutBlock(h) PROVE HInv' /\ Now' = Now
  <2>1. /\ UNCHANGED <<super, superCut, history, base, mine, image>>
        /\ state[h] = Blocks /\ state' = [state EXCEPT ![h] = Blocks]
    BY <1>0, <1>5 DEF PutBlock, TypeOK
  <2>2. PICK p \in todo[h] : WriteBlock(p, mine[h]) /\ todo' = [todo EXCEPT ![h] = @ \ {p}]
    BY <1>5 DEF PutBlock
  <2>3. \A g \in Handle : todo'[g] \subseteq todo[g]
    BY <1>0, <2>2 DEF TypeOK
  <2>4. HInv'
    BY <1>0, <2>1, <2>2, <2>3, BlockOut
  <2>5. QED
    BY <1>1, <2>1, <2>4 DEF history
<1>6. ASSUME NEW h \in Handle, NEW st \in {Supers, Reopen},
             state[h] \in {Blocks, Supers}, st = Reopen => state[h] = Supers,
             state[h] = Blocks => st = Supers, state' = [state EXCEPT ![h] = st],
             UNCHANGED <<block, super, history, base, mine, image, todo>>
      PROVE  HInv' /\ Now' = Now
  <2>1. UNCHANGED <<super, gen, tree>>
    BY <1>6 DEF history
  <2>2. Now' = Now /\ (Readable(super)' <=> Readable(super)) /\ \A t : Whole(t)' <=> Whole(t)
    BY <1>1, <1>6, <2>1 DEF Readable, Whole, Reaches
  <2>3. \A g \in Handle :
          \/ state'[g] = state[g]
          \/ state[g] \in {Blocks, Supers} /\ state'[g] = Supers
          \/ state[g] = Supers /\ state'[g] = Reopen
    BY <1>0, <1>6 DEF TypeOK
  <2>4. NothingUnread' /\ NoneAhead' /\ OnTop'
    BY <1>6, <2>1, <2>2, <2>3 DEF HInv, NothingUnread, NoneAhead, OnTop
  <2>5. TodoFree' /\ ReadsWhole'
    BY <1>6, <2>1, <2>2, <2>3 DEF HInv, TodoFree, ReadsWhole
  <2>6. QED
    BY <1>0, <2>2, <2>4, <2>5 DEF HInv
<1>7. ASSUME NEW h \in Handle, Barrier(h) \/ CommitPoint(h) PROVE HInv' /\ Now' = Now
  <2>1. CASE Barrier(h)
    BY <1>6, <2>1 DEF Barrier, Flush
  <2>2. CASE CommitPoint(h)
    BY <1>6, <2>2 DEF CommitPoint, Flush
  <2>3. QED
    BY <1>7, <2>1, <2>2
<1>8. ASSUME NEW h \in Handle, PutSuper(h)
      PROVE  HInv' /\ (Readable(super') /\ Now' # Now => parent'[Now'] = Now)
  <2>1. /\ state[h] = Supers /\ state' = [state EXCEPT ![h] = Supers] /\ copy[h] <= NCopies
        /\ UNCHANGED <<block, history, base, mine, image, todo>>
        /\ WriteSuper(copy[h], image[h])
    BY <1>0, <1>8 DEF PutSuper, TypeOK
  <2>2. copy[h] \in Copy /\ image[h] \in Super /\ image[h].tx = mine[h] /\ image[h].ok
    BY <1>0, <2>1, CopyToWrite
  <2>3. gen[Now] <= gen[Now']
    BY <1>0, <2>1, <2>2, WholeCopyHolds
  <2>4. HInv' /\ (Readable(super') /\ Now' # Now => parent[Now'] = Now)
    BY <1>0, <2>1, <2>2, <2>3, SuperOut, Supers \in {Supers, Idle}
  <2>5. QED
    BY <2>1, <2>4 DEF history
<1>9. ASSUME NEW h \in Handle, Fail(h)
      PROVE  HInv' /\ (Readable(super') /\ Now' # Now => parent'[Now'] = Now)
  <2>1. /\ UNCHANGED <<history, base, mine, image, todo, copy, kept, cuts>>
        /\ state[h] \in {Blocks, Supers} /\ state' = [state EXCEPT ![h] = Idle]
    BY <1>9 DEF Fail
  <2>2. CASE UNCHANGED device
    <3>1. UNCHANGED <<super, gen>>
      BY <2>1, <2>2 DEF device, history
    <3>2. \A g \in Handle : \/ state'[g] = state[g] /\ base'[g] = base[g]
                            \/ /\ state'[g] = Idle /\ base'[g] = base[g]
                               /\ state[g] # Closed
      BY <1>0, <2>1 DEF TypeOK
    <3>3. HInv'
      BY <1>0, <2>1, <2>2, <3>2, HandlesMove
    <3>4. QED
      BY <1>1, <3>1, <3>3
  <2>3. ASSUME NEW p \in todo[h], state[h] = Blocks, WriteBlock(p, Torn),
               UNCHANGED <<super, superCut>>
        PROVE  HInv' /\ Now' = Now
    <3>1. Idle \in {Blocks, Idle} /\ \A g \in Handle : todo'[g] \subseteq todo[g]
      BY <2>1
    <3>2. HInv'
      BY <1>0, <2>1, <2>3, <3>1, BlockOut
    <3>3. QED
      BY <1>1, <2>1, <2>3, <3>2 DEF history
  <2>4. ASSUME NEW intact \in BOOLEAN, state[h] = Supers, copy[h] <= NCopies,
               WriteSuper(copy[h], [image[h] EXCEPT !.ok = intact]),
               UNCHANGED <<block, blockCut>>
        PROVE  HInv' /\ (Readable(super') /\ Now' # Now => parent'[Now'] = Now)
    <3>1. /\ copy[h] \in Copy
          /\ [image[h] EXCEPT !.ok = intact] \in Super
          /\ [image[h] EXCEPT !.ok = intact].tx = mine[h]
      BY <1>0, <2>4, CopyToWrite
    <3>2. Readable(super') => gen[Now] <= gen[Now']
      BY <1>9 DEF FailuresHold
    <3>3. Idle \in {Supers, Idle} /\ Idle # Supers
      OBVIOUS
    <3>4. HInv' /\ (Readable(super') /\ Now' # Now => parent[Now'] = Now)
      BY ONLY <1>0, <2>1, <2>4, <3>1, <3>2, <3>3, SuperOut, CommitAssumption, HInv, h \in Handle
    <3>5. QED
      BY <2>1, <3>4 DEF history
  <2>5. QED
    BY <1>9, <2>2, <2>3, <2>4 DEF Fail
<1>10. ASSUME NEW b, NEW s, Leave(b, s) PROVE HInv' /\ cuts' # cuts
  <2>1. \A g \in Handle : state'[g] = Closed
    BY <1>10 DEF Leave
  <2>2. NothingUnread' /\ NoneAhead' /\ OnTop' /\ TodoFree' /\ ReadsWhole'
    BY <2>1 DEF NothingUnread, NoneAhead, OnTop, TodoFree, ReadsWhole
  <2>3. cuts' # cuts
    BY <1>0, <1>10 DEF Leave, TypeOK
  <2>4. QED
    BY <1>0, <2>2, <2>3 DEF HInv
<1>11. QED
  BY <1>2, <1>3, <1>4, <1>5, <1>7, <1>8, <1>9, <1>10
     DEF AnyNext, FaultNext, Next, Call, CommitStep, PowerCut, TornCut

(* The device mkfs made satisfies the invariant.                            *)
LEMMA HInitially ==
  ASSUME CommitAssumption, Init
  PROVE  HInv
<1>1. GInv
  BY GInitially
<1>2. \A h \in Handle : state[h] = Closed
  BY DEF Init
<1>3. QED
  BY <1>1, <1>2 DEF HInv, NothingUnread, NoneAhead, OnTop, TodoFree, ReadsWhole

(* A step in which nothing happens keeps it.                                *)
LEMMA HStutters ==
  ASSUME CommitAssumption, HInv, UNCHANGED vars
  PROVE  HInv' /\ Now' = Now
<1>1. GInv'
  BY GStutters DEF HInv
<1>2. UNCHANGED <<device, history, mine, image, todo, state, base, super, gen>>
  BY DEF vars, handles, device, history
<1>3. HInv'
  BY <1>1, <1>2, HandlesMove
<1>4. Now' = Now
  BY <1>2 DEF Now, ChosenTx, Chosen, IsChosen
<1>5. QED
  BY <1>3, <1>4

\* The step NoLostCommit allows.
Succeeds ==
  cuts' = cuts /\ Readable(super) /\ Readable(super') /\ ChosenTx(super)' # ChosenTx(super)
    => parent'[ChosenTx(super)'] = ChosenTx(super)

(* A handle that is not stale is on what a reader finds, and reads all of   *)
(* it.                                                                      *)
LEMMA FreshReads ==
  ASSUME CommitAssumption, HInv
  PROVE  FreshHandleReadsWhole
<1> SUFFICES ASSUME NEW h \in Handle, state[h] \in {Idle, Planned}, ~ Stale(h)
             PROVE  Whole(base[h])
  BY DEF FreshHandleReadsWhole
<1>1. Readable(super) /\ ~ (gen[Now] > gen[base[h]])
  BY DEF Stale, Now
<1>2. gen[Now] \in Nat /\ gen[base[h]] \in Nat
  BY <1>1, NowIs DEF HInv, GInv, TypeOK
<1>3. base[h] = Now
  BY <1>1, <1>2 DEF HInv, NoneAhead
<1>4. QED
  BY <1>1, <1>3 DEF HInv, ReadsWhole

\* Every superblock copy on the device verifies.
Intact == \A c \in Copy : super[c].ok

(* A call that fails and leaves every copy one that verifies puts no reader *)
(* back.                                                                    *)
LEMMA IntactHolds ==
  ASSUME CommitAssumption, HInv, FaultNext, Intact'
  PROVE  FailuresHold
<1>0. GInv /\ GInv' /\ TypeOK
  BY GStep DEF HInv, GInv, AnyNext
<1> SUFFICES ASSUME NEW h \in Handle, Fail(h), Readable(super')
             PROVE  gen[Now] <= gen[Now']
  BY DEF FailuresHold
<1>1. UNCHANGED history
  BY DEF Fail
<1>2. CASE UNCHANGED super
  <2>1. Now' = Now /\ Readable(super)
    BY <1>1, <1>2 DEF Now, ChosenTx, Chosen, IsChosen, history
  <2>2. gen[Now] \in Nat
    BY <1>0, <2>1, NowIs
  <2>3. QED
    BY <2>1, <2>2
<1>3. ASSUME NEW intact \in BOOLEAN, state[h] = Supers, copy[h] <= NCopies,
             WriteSuper(copy[h], [image[h] EXCEPT !.ok = intact])
      PROVE  gen[Now] <= gen[Now']
  <2> DEFINE s0 == [image[h] EXCEPT !.ok = intact]
  <2>1. copy[h] \in Copy /\ s0 \in Super /\ s0.tx = mine[h] /\ s0.ok = intact
    BY <1>0, <1>3, CopyToWrite
  <2>2. super'[copy[h]] = s0
    BY <1>0, <1>3, <2>1 DEF WriteSuper, TypeOK
  <2>3. s0.ok
    BY <2>1, <2>2 DEF Intact
  <2>4. WriteSuper(copy[h], s0)
    BY <1>3
  <2> HIDE DEF s0
  <2>5. QED
    BY <1>0, <1>1, <1>3, <2>1, <2>3, <2>4, WholeCopyHolds
<1>4. QED
  BY <1>2, <1>3 DEF Fail, device

(* refuse_stale, "put the older tree back": with calls failing and processes*)
(* killed any number of times, any power cuts and any number of handles, no *)
(* commit is lost under another, and no handle that may write reads a block *)
(* that was reused, as long as every superblock copy on the device verifies.*)
THEOREM KeptWhileIntact ==
  FaultSpec /\ []Intact => NoLostCommit /\ []FreshHandleReadsWhole
<1>1. Init => HInv
  BY HInitially, CommitAssumption
<1>2. HInv /\ [FaultNext]_vars /\ Intact' => HInv' /\ [Succeeds]_vars
  <2>1. ASSUME HInv, FaultNext, Intact' PROVE HInv' /\ Succeeds
    <3>1. FailuresHold
      BY <2>1, IntactHolds, CommitAssumption
    <3>2. QED
      BY <2>1, <3>1, HStep, CommitAssumption DEF AnyNext, Succeeds, Now
  <2>2. ASSUME HInv, UNCHANGED vars PROVE HInv'
    BY <2>2, HStutters, CommitAssumption
  <2>3. QED
    BY <2>1, <2>2
<1>3. HInv => FreshHandleReadsWhole
  BY FreshReads, CommitAssumption
<1>4. QED
  BY <1>1, <1>2, <1>3, PTL DEF FaultSpec, NoLostCommit, Succeeds

(* The program with power cuts and no fault keeps every copy intact, so it  *)
(* loses no commit and reuses no block a handle may read.                   *)
THEOREM KeptWithoutFaults ==
  Spec => NoLostCommit /\ []FreshHandleReadsWhole /\ []OneTreePerGeneration
<1>1. IInv => Intact
  BY DEF IInv, TypeOK, CopiesOrdered, Intact
<1>2. [Next]_vars => [FaultNext]_vars
  BY DEF FaultNext
<1>3. Spec => FaultSpec
  BY <1>2, PTL DEF Spec, FaultSpec
<1>4. QED
  BY <1>1, <1>3, Invariant, KeptWhileIntact, GenerationsUnique, PTL

-----------------------------------------------------------------------------
\* One fault, and no cut.

\* Before anything fails every copy verifies, those out are the transaction's,
\* those still to go are of the transaction it was planned on, and between
\* commits all are of one transaction.
Uniform ==
  faults = 0 =>
    /\ Intact
    /\ \A h \in Handle :
         /\ state[h] = Blocks => copy[h] = Primary
         /\ state[h] = Supers => \A c \in Copy :
              super[c].tx = IF c < copy[h] THEN mine[h] ELSE base[h]
    /\ (\A h \in Handle : state[h] # Supers) =>
         \A c, d \in Copy : super[c].tx = super[d].tx

OneFault == cuts = 0 /\ faults <= 1

(* The first call to fail puts no reader back: a torn primary leaves copies *)
(* of the transaction before, all of them, and any other torn copy leaves   *)
(* the primary.                                                             *)
LEMMA FirstFaultHolds ==
  ASSUME CommitAssumption, HInv, Uniform, FaultNext, OneFault, OneFault'
  PROVE  FailuresHold
<1>0. GInv /\ GInv' /\ TypeOK /\ TypeOK'
  BY GStep DEF HInv, GInv, AnyNext
<1> SUFFICES ASSUME NEW h \in Handle, Fail(h), Readable(super')
             PROVE  gen[Now] <= gen[Now']
  BY DEF FailuresHold
<1>1. UNCHANGED history /\ faults = 0
  <2>1. faults \in Nat /\ faults' = faults + 1 /\ faults' <= 1
    BY <1>0 DEF Fail, Fault, OneFault, TypeOK
  <2>2. QED
    BY <2>1 DEF Fail
<1>2. CASE UNCHANGED super
  <2>1. Now' = Now /\ Readable(super)
    BY <1>1, <1>2 DEF Now, ChosenTx, Chosen, IsChosen, history
  <2>2. gen[Now] \in Nat
    BY <1>0, <2>1, NowIs
  <2>3. QED
    BY <2>1, <2>2
<1>3. ASSUME NEW s0 \in Super, state[h] = Supers, copy[h] \in Copy, s0.tx = mine[h],
             WriteSuper(copy[h], s0)
      PROVE  gen[Now] <= gen[Now']
  <2>1. CASE s0.ok
    BY <1>0, <1>1, <1>3, <2>1, WholeCopyHolds
  <2>2. CASE ~ s0.ok
    <3>1. super' = [super EXCEPT ![copy[h]] = s0] /\ gen' = gen
      BY <1>1, <1>3 DEF WriteSuper, history
    <3>2. PICK d \in Copy : super'[d].ok
      BY DEF Readable
    <3>3. d # copy[h] /\ \A c \in Copy : c # copy[h] => super'[c] = super[c]
      BY <1>0, <2>2, <3>1, <3>2 DEF TypeOK
    <3>4. \A c \in Copy : super[c].ok
                          /\ super[c].tx = IF c < copy[h] THEN mine[h] ELSE base[h]
      BY <1>1, <1>3 DEF Uniform, Intact
    <3>5. /\ Now' \in Tx
          /\ \A c \in Copy : super'[c].ok => gen[super'[c].tx] <= gen[Now']
      <4>1. super' \in [Copy -> Super] /\ gen \in [Tx -> Nat]
        BY <1>0 DEF TypeOK
      <4>2. Now' = ChosenTx(super')
        BY <3>1 DEF Now, ChosenTx, Chosen, IsChosen
      <4>3. QED
        BY <4>1, <4>2, ChosenNewest
    <3>6. Readable(super) /\ Now \in {base[h], mine[h]}
      BY <1>3 DEF HInv, NothingUnread, OnTop
    <3>7. gen[mine[h]] = gen[base[h]] + 1 /\ gen[base[h]] \in Nat
      BY <1>0, <1>3 DEF GInv, NextOfBase, TypeOK
    <3>8. Primary \in Copy /\ Copy \subseteq Int /\ \A c \in Copy :
            /\ ~ (c < Primary)
            /\ c # Primary => Primary < c
      BY DEF Primary, Copy, CommitAssumption
    <3>9. CASE copy[h] = Primary
      <4>1. \A c \in Copy : super[c].tx = base[h]
        BY <3>4, <3>8, <3>9
      <4>2. Now = base[h]
        BY <1>0, <3>6, <4>1, NowIs
      <4>3. gen[base[h]] <= gen[Now']
        BY <3>2, <3>3, <3>5, <4>1
      <4>4. QED
        BY <4>2, <4>3
    <3>10. CASE copy[h] # Primary
      <4>1. super[Primary].tx = mine[h] /\ super[Primary].ok /\ super'[Primary] = super[Primary]
        BY <1>3, <3>3, <3>4, <3>8, <3>10
      <4>2. gen[mine[h]] <= gen[Now']
        BY <3>5, <3>8, <4>1
      <4>3. gen[Now'] \in Nat /\ gen[Now] <= gen[mine[h]]
        BY <1>0, <3>5, <3>6, <3>7 DEF TypeOK
      <4>4. gen[Now] \in Nat /\ gen[mine[h]] \in Nat
        BY <3>6, <3>7
      <4>5. QED
        BY <4>2, <4>3, <4>4, <3>1
    <3>11. QED
      BY <3>9, <3>10
  <2>3. QED
    BY <2>1, <2>2
<1>4. ASSUME NEW intact \in BOOLEAN, state[h] = Supers, copy[h] <= NCopies,
             WriteSuper(copy[h], [image[h] EXCEPT !.ok = intact])
      PROVE  gen[Now] <= gen[Now']
  <2>1. /\ copy[h] \in Copy /\ [image[h] EXCEPT !.ok = intact] \in Super
        /\ [image[h] EXCEPT !.ok = intact].tx = mine[h]
    BY <1>0, <1>4, CopyToWrite
  <2>2. QED
    BY <1>3, <1>4, <2>1
<1>5. QED
  BY <1>2, <1>4 DEF Fail, device

(* Until something fails, every step keeps the copies as they should be.    *)
LEMMA UniformStep ==
  ASSUME CommitAssumption, HInv, Uniform, FaultNext, OneFault, OneFault'
  PROVE  Uniform'
<1>0. GInv /\ TypeOK /\ TypeOK'
  BY GStep DEF HInv, GInv, AnyNext
<1> SUFFICES ASSUME faults' = 0
             PROVE  /\ Intact'
                    /\ \A h \in Handle :
                         /\ state'[h] = Blocks => copy'[h] = Primary
                         /\ state'[h] = Supers => \A c \in Copy :
                              super'[c].tx = IF c < copy'[h] THEN mine'[h] ELSE base'[h]
                    /\ (\A h \in Handle : state'[h] # Supers) =>
                         \A c, d \in Copy : super'[c].tx = super'[d].tx
  BY DEF Uniform
<1>1. \A h \in Handle : ~ Fail(h) /\ ~ Kill(h)
  BY <1>0 DEF Fail, Kill, Fault, TypeOK
<1>2. ~ PowerCut
  BY <1>0 DEF PowerCut, Leave, OneFault, TypeOK
<1>3. PICK h \in Handle : Call(h) \/ CommitStep(h)
  BY <1>1, <1>2 DEF FaultNext, Next
<1>4. faults = 0
  BY <1>0, <1>3 DEF Call, CommitStep, Mount, Close, Plan, MakeImages, PutBlock, Barrier,
     PutSuper, CommitPoint, Remount
<1>5. /\ Intact
      /\ \A g \in Handle :
           /\ state[g] = Blocks => copy[g] = Primary
           /\ state[g] = Supers => \A c \in Copy :
                super[c].tx = IF c < copy[g] THEN mine[g] ELSE base[g]
      /\ (\A g \in Handle : state[g] # Supers) =>
           \A c, d \in Copy : super[c].tx = super[d].tx
  BY <1>4 DEF Uniform
<1>6. Primary \in Copy /\ \A c \in Copy : ~ (c < Primary)
  BY DEF Primary, Copy, CommitAssumption
<1>7. ASSUME UNCHANGED <<super, copy, mine>>,
             \A g \in Handle : \/ state'[g] = state[g] /\ base'[g] = base[g]
                               \/ state'[g] \notin {Blocks, Supers} /\ state[g] # Supers
      PROVE  Uniform'
  BY <1>5, <1>7 DEF Uniform, Intact
<1>8. CASE Mount(h) \/ Close(h) \/ Remount(h)
  <2>1. UNCHANGED <<super, copy, mine>> /\ state[h] # Supers
    BY <1>8 DEF Mount, Close, Remount, device
  <2>2. \A g \in Handle : \/ state'[g] = state[g] /\ base'[g] = base[g]
                          \/ state'[g] \notin {Blocks, Supers} /\ state[g] # Supers
    BY <1>0, <1>8, <2>1 DEF Mount, Close, Remount, TypeOK
  <2>3. Uniform'
    BY <1>7, <2>1, <2>2
  <2>4. QED
    BY <2>3 DEF Uniform
<1>9. CASE Plan(h)
  <2>1. /\ UNCHANGED <<super, base, copy>> /\ state[h] = Idle
        /\ state' = [state EXCEPT ![h] = Planned]
        /\ \A g \in Handle : g # h => mine'[g] = mine[g]
    BY <1>0, <1>9 DEF Plan, device, TypeOK
  <2>2. \A g \in Handle : g = h \/ state'[g] = state[g]
    BY <1>0, <2>1 DEF TypeOK
  <2>3. QED
    BY <1>0, <1>5, <2>1, <2>2 DEF Intact, TypeOK
<1>10. CASE MakeImages(h)
  <2>1. /\ UNCHANGED <<super, base, mine>> /\ state[h] = Planned
        /\ \A g \in Handle : g # h => state'[g] = state[g] /\ copy'[g] = copy[g]
        /\ \/ state'[h] = Idle /\ copy'[h] = copy[h]
           \/ state'[h] = Blocks /\ copy'[h] = Primary
    <3>1. /\ state \in [Handle -> {Closed, Idle, Planned, Blocks, Supers, Reopen}]
          /\ DOMAIN copy = Handle
      BY <1>0 DEF TypeOK
    <3>2. /\ UNCHANGED <<super, base, mine>> /\ state[h] = Planned
          /\ \/ state' = [state EXCEPT ![h] = Idle] /\ copy' = copy
             \/ /\ state' = [state EXCEPT ![h] = Blocks]
                /\ copy' = [copy EXCEPT ![h] = Primary]
      BY <1>10 DEF MakeImages, device
    <3>3. QED
      BY <3>1, <3>2
  <2>2. Intact'
    BY <1>5, <2>1 DEF Intact
  <2>3. \A g \in Handle : state'[g] = Blocks => copy'[g] = Primary
    BY <1>5, <2>1
  <2>4. \A g \in Handle : state'[g] = Supers =>
          g # h /\ state[g] = Supers /\ copy'[g] = copy[g]
    BY <2>1
  <2>5. (\A g \in Handle : state'[g] # Supers) => \A g \in Handle : state[g] # Supers
    BY <2>1
  <2>6. super' = super /\ base' = base /\ mine' = mine
    BY <2>1
  <2>7. QED
    BY <1>5, <2>2, <2>3, <2>4, <2>5, <2>6 DEF Uniform
<1>11. CASE PutBlock(h)
  BY <1>0, <1>5, <1>11 DEF PutBlock, TypeOK, Intact
<1>12. CASE Barrier(h)
  <2>1. /\ UNCHANGED <<super, base, mine, copy>>
        /\ state[h] = Blocks /\ state' = [state EXCEPT ![h] = Supers]
    BY <1>12 DEF Barrier, Flush
  <2>2. \A g \in Handle : g # h => state'[g] = state[g] /\ state[g] \notin InCommit
    BY <1>0, <2>1 DEF GInv, OneCommit, TypeOK
  <2>3. Readable(super) /\ base[h] = Now
    BY <2>1 DEF HInv, NothingUnread, OnTop
  <2>4. \A c \in Copy : super[c].tx = base[h]
    BY <1>0, <1>5, <2>1, <2>2, <2>3, NowIs
  <2>5. copy[h] = Primary
    BY <1>5, <2>1
  <2>6. QED
    BY <1>0, <1>5, <1>6, <2>1, <2>2, <2>4, <2>5 DEF Intact, TypeOK
<1>13. CASE PutSuper(h)
  <2>1. /\ UNCHANGED <<state, base, mine>> /\ state[h] = Supers /\ copy[h] <= NCopies
        /\ copy' = [copy EXCEPT ![h] = @ + 1]
        /\ super' = [super EXCEPT ![copy[h]] = image[h]]
    BY <1>13 DEF PutSuper, WriteSuper
  <2>2. copy[h] \in Copy /\ image[h].tx = mine[h] /\ image[h].ok
    BY <1>0, <2>1, CopyToWrite
  <2>3. \A g \in Handle : g # h => state[g] \notin InCommit
    BY <1>0, <2>1 DEF GInv, OneCommit
  <2>4. \A c \in Copy : c \in Int
    BY DEF Copy
  <2>5. \A c \in Copy : super'[c].tx = IF c < copy'[h] THEN mine[h] ELSE base[h]
    <3>1. \A c \in Copy : c < copy[h] + 1 <=> (c = copy[h] \/ c < copy[h])
      BY <2>2, <2>4
    <3>2. QED
      BY <1>0, <1>5, <2>1, <2>2, <3>1 DEF TypeOK
  <2>6. QED
    BY <1>0, <1>5, <2>1, <2>2, <2>3, <2>5 DEF Intact, TypeOK
<1>14. CASE CommitPoint(h)
  <2>1. /\ UNCHANGED <<super, base, mine, copy>> /\ state[h] = Supers /\ copy[h] > NCopies
        /\ state' = [state EXCEPT ![h] = Reopen]
    BY <1>14 DEF CommitPoint, Flush
  <2>2. \A g \in Handle : g # h => state'[g] = state[g] /\ state[g] \notin InCommit
    BY <1>0, <2>1 DEF GInv, OneCommit, TypeOK
  <2>3. \A c \in Copy : c < copy[h]
    <3>1. copy[h] \in 1 .. NCopies + 1 /\ NCopies \in Nat
      BY <1>0 DEF TypeOK, CommitAssumption
    <3>2. QED
      BY <2>1, <3>1 DEF Copy
  <2>4. QED
    BY <1>0, <1>5, <2>1, <2>2, <2>3 DEF Intact, TypeOK
<1>15. QED
  BY <1>3, <1>8, <1>9, <1>10, <1>11, <1>12, <1>13, <1>14 DEF Call, CommitStep

(* refuse_stale, "put the older tree back": one failed call or one killed   *)
(* process, wherever it strikes and however many handles are open, loses no *)
(* commit and lets no handle that may write read a reused block, while      *)
(* power stays on.                                                          *)
THEOREM KeptAfterOneFault ==
  FaultSpec /\ []OneFault => NoLostCommit /\ []FreshHandleReadsWhole
<1>1. Init => HInv /\ Uniform
  <2>1. ASSUME Init PROVE Uniform
    BY <2>1 DEF Init, Uniform, Intact
  <2>2. QED
    BY <2>1, HInitially, CommitAssumption
<1>2. HInv /\ Uniform /\ [FaultNext]_vars /\ OneFault /\ OneFault'
        => HInv' /\ Uniform' /\ [Succeeds]_vars
  <2>1. ASSUME HInv, Uniform, FaultNext, OneFault, OneFault'
        PROVE  HInv' /\ Uniform' /\ Succeeds
    <3>1. FailuresHold /\ Uniform'
      BY <2>1, FirstFaultHolds, UniformStep, CommitAssumption
    <3>2. QED
      BY <2>1, <3>1, HStep, CommitAssumption DEF AnyNext, Succeeds, Now
  <2>2. ASSUME HInv, Uniform, UNCHANGED vars PROVE HInv' /\ Uniform'
    BY <2>2, HStutters, CommitAssumption DEF Uniform, Intact, vars, device, handles
  <2>3. QED
    BY <2>1, <2>2
<1>3. HInv => FreshHandleReadsWhole
  BY FreshReads, CommitAssumption
<1>4. QED
  BY <1>1, <1>2, <1>3, PTL DEF FaultSpec, NoLostCommit, Succeeds
=============================================================================
