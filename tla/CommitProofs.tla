---------------------------- MODULE CommitProofs ----------------------------
(***************************************************************************)
(* Proofs about Commit: whatever the number of handles, places, mirrors,   *)
(* transactions and power cuts, a power cut leaves a whole tree, and it is *)
(* that of the transaction last acknowledged or of the one being           *)
(* committed; and Commit implements AtomicStore: a reader sees one         *)
(* transaction at a time, and a commit replaces it in one step, the write  *)
(* of the primary superblock copy.                                         *)
(***************************************************************************)
EXTENDS Commit, TLAPS

-----------------------------------------------------------------------------
\* The inductive invariant.

InFlight(t) == \E h \in Handle : state[h] = Supers /\ mine[h] = t

\* Every transaction anything names has been planned.
Known ==
  /\ kept <= made
  /\ \A h \in Handle : base[h] <= made /\ mine[h] <= made /\ image[h].tx <= made
  /\ \A c \in Copy : \A s \in superCut[c] : s.tx <= made

\* Every copy that may survive is of the transaction kept, of the one in
\* flight, or older; and one copy at least is no older.
CopiesOrdered ==
  /\ \A c \in Copy : \A s \in superCut[c] :
       /\ s.ok
       /\ s.tx = kept \/ InFlight(s.tx) \/ gen[s.tx] < gen[kept]
  /\ \E c \in Copy : \A s \in superCut[c] : s.tx = kept \/ InFlight(s.tx)

OneCommit ==
  \A g, h \in Handle : state[g] \in InCommit /\ state[h] \in InCommit => g = h

\* An open handle read the transaction kept, or an older one.
HandlesOrdered ==
  \A h \in Handle : state[h] # Closed =>
     base[h] = kept \/ gen[base[h]] < gen[kept]

\* The blocks of a tree are on every mirror and nothing else may survive there.
Solid(t) ==
  \A a \in Addr : \A m \in Mirror :
    tree[t][a] # Free => blockCut[<<a, m>>] = {tree[t][a]}

\* A transaction under way is the child of the one kept, its blocks are where
\* that one has none, and those not still to be written are written.
UnderWay(h) ==
  /\ gen[mine[h]] = gen[kept] + 1
  /\ \A a \in Addr :
       \/ tree[mine[h]][a] = Free
       \/ tree[mine[h]][a] = mine[h] /\ tree[kept][a] = Free
       \/ tree[mine[h]][a] = tree[kept][a]
  /\ \A p \in todo[h] : tree[mine[h]][p[1]] = mine[h] /\ tree[kept][p[1]] = Free

Written(h) ==
  \A a \in Addr : \A m \in Mirror :
    tree[mine[h]][a] = mine[h] /\ tree[kept][a] = Free =>
      <<a, m>> \in todo[h] \/ block[<<a, m>>] = mine[h]

WorkSound ==
  \A h \in Handle :
    /\ state[h] \in {Planned, Blocks, Supers} => UnderWay(h)
    /\ state[h] \in {Blocks, Supers} => image[h].tx = mine[h] /\ image[h].ok
    /\ state[h] \in {Planned, Blocks} => Written(h)
    /\ state[h] = Supers => Solid(mine[h])

\* The copies already out are the transaction's, the primary being the first.
CopiesOut ==
  \A h \in Handle :
    /\ state[h] = Blocks => copy[h] = Primary
    /\ state[h] = Supers => \A c \in Copy : c < copy[h] => super[c].tx = mine[h]

IInv == /\ TypeOK
        /\ Known
        /\ CopiesOrdered
        /\ OneCommit
        /\ HandlesOrdered
        /\ Solid(kept)
        /\ WorkSound
        /\ CopiesOut

-----------------------------------------------------------------------------
\* Reading and cutting.

USE DEF Closed, Idle, Planned, Blocks, Supers, Reopen, InCommit, Free, Torn

(* What a cut leaves at each place is one of the contents that may survive  *)
(* there.                                                                   *)
LEMMA LeftPick ==
  ASSUME NEW D, NEW cut, DOMAIN cut = D, \A x \in D : cut[x] # {},
         NEW f \in Left(cut)
  PROVE  /\ f = [x \in D |-> f[x]]
         /\ \A x \in D : f[x] \in cut[x]
<1> DEFINE unsure == {x \in DOMAIN cut : \E u, v \in cut[x] : u # v}
           picks == {p \in [unsure -> UNION {cut[x] : x \in unsure}] :
                       \A x \in unsure : p[x] \in cut[x]}
           left(p) == [x \in DOMAIN cut |->
                         IF x \in unsure THEN p[x] ELSE CHOOSE v \in cut[x] : TRUE]
<1>1. PICK p \in picks : f = left(p)
  BY DEF Left
<1>2. \A x \in unsure : p[x] \in cut[x]
  OBVIOUS
<1>3. \A x \in D : (CHOOSE v \in cut[x] : TRUE) \in cut[x]
  OBVIOUS
<1>4. QED
  BY <1>1, <1>2, <1>3

(* The same for the device's blocks and superblock copies.                  *)
LEMMA CutPick ==
  ASSUME TypeOK
  PROVE  /\ \A b \in Left(blockCut) :
              b = [p \in Place |-> b[p]] /\ \A p \in Place : b[p] \in blockCut[p]
         /\ \A s \in Left(superCut) :
              s = [c \in Copy |-> s[c]] /\ \A c \in Copy : s[c] \in superCut[c]
<1>1. DOMAIN blockCut = Place /\ \A p \in Place : blockCut[p] # {}
  BY DEF TypeOK
<1>2. DOMAIN superCut = Copy /\ \A c \in Copy : superCut[c] # {}
  BY DEF TypeOK
<1>3. QED
  BY <1>1, <1>2, LeftPick

(* Of at most three superblock copies with one valid, one is chosen.        *)
LEMMA ChosenExists ==
  ASSUME CommitAssumption, NEW s, \A c \in Copy : gen[s[c].tx] \in Nat, Readable(s)
  PROVE  Chosen(s) \in Copy /\ IsChosen(s, Chosen(s))
<1>1. Copy \subseteq {1, 2, 3} /\ Copy \subseteq Int
  BY DEF Copy, CommitAssumption
<1>2. PICK b \in Copy : s[b].ok
  BY DEF Readable
<1>3. \E c \in Copy : IsChosen(s, c)
  <2>1. PICK c \in Copy : /\ s[c].ok
                          /\ \A d \in Copy : s[d].ok => gen[s[d].tx] <= gen[s[c].tx]
    BY <1>1, <1>2, SMTT(30)
  <2>2. PICK c0 \in Copy : /\ s[c0].ok /\ gen[s[c0].tx] = gen[s[c].tx]
                           /\ \A d \in Copy : s[d].ok /\ gen[s[d].tx] = gen[s[c].tx] => c0 <= d
    BY <1>1, <2>1, SMTT(30)
  <2>3. IsChosen(s, c0)
    BY <1>1, <2>1, <2>2 DEF IsChosen
  <2>4. QED
    BY <2>3
<1>4. QED
  BY <1>3 DEF Chosen

(* Whichever of the copies that may survive do, the one chosen is of the    *)
(* transaction kept or of the one in flight, and every other is of the same *)
(* or older.                                                                *)
LEMMA CopiesChoose ==
  ASSUME CommitAssumption, IInv, NEW s, \A c \in Copy : s[c] \in superCut[c]
  PROVE  /\ Readable(s)
         /\ Chosen(s) \in Copy
         /\ s[Chosen(s)].ok
         /\ ChosenTx(s) = kept \/ InFlight(ChosenTx(s))
         /\ ChosenTx(s) \in Tx /\ ChosenTx(s) <= made
         /\ \A c \in Copy : s[c].tx = ChosenTx(s) \/ gen[s[c].tx] < gen[ChosenTx(s)]
<1>1. \A c \in Copy : /\ s[c].tx \in Tx /\ s[c].ok /\ s[c].tx <= made
                      /\ s[c].tx = kept \/ InFlight(s[c].tx) \/ gen[s[c].tx] < gen[kept]
  BY DEF IInv, TypeOK, CopiesOrdered, Known, Super
<1>2. gen \in [Tx -> Nat] /\ kept \in Tx
  BY DEF IInv, TypeOK
<1>3. PICK b \in Copy : s[b].tx = kept \/ InFlight(s[b].tx)
  BY DEF IInv, CopiesOrdered
<1>4. Readable(s)
  BY <1>1, <1>3 DEF Readable
<1>5. Chosen(s) \in Copy /\ IsChosen(s, Chosen(s))
  BY <1>1, <1>2, <1>4, ChosenExists
<1>6. \A t : InFlight(t) => t \in Tx /\ gen[t] = gen[kept] + 1
  BY DEF IInv, InFlight, WorkSound, UnderWay, TypeOK
<1>7. \A t, u : InFlight(t) /\ InFlight(u) => t = u
  BY DEF IInv, InFlight, OneCommit
<1>8. /\ s[Chosen(s)].ok
      /\ \A d \in Copy : gen[s[d].tx] <= gen[s[Chosen(s)].tx]
  BY <1>1, <1>2, <1>5 DEF IsChosen
<1>9. s[Chosen(s)].tx = kept \/ InFlight(s[Chosen(s)].tx)
  <2>1. gen[s[b].tx] >= gen[kept]
    BY <1>2, <1>3, <1>6
  <2>2. gen[s[Chosen(s)].tx] >= gen[kept]
    BY <1>1, <1>2, <1>5, <1>8, <2>1
  <2>3. QED
    BY <1>1, <1>2, <1>5, <2>2
<1>10. \A c \in Copy : s[c].tx = s[Chosen(s)].tx \/ gen[s[c].tx] < gen[s[Chosen(s)].tx]
  <2> SUFFICES ASSUME NEW c \in Copy
               PROVE  s[c].tx = s[Chosen(s)].tx \/ gen[s[c].tx] < gen[s[Chosen(s)].tx]
    OBVIOUS
  <2>1. CASE s[Chosen(s)].tx = kept
    BY <1>1, <1>2, <1>5, <1>6, <1>8, <2>1
  <2>2. CASE InFlight(s[Chosen(s)].tx)
    BY <1>1, <1>2, <1>5, <1>6, <1>7, <1>8, <2>2
  <2>3. QED
    BY <1>9, <2>1, <2>2
<1>11. QED
  BY <1>1, <1>4, <1>5, <1>8, <1>9, <1>10 DEF ChosenTx

(* A mount that is not refused reads the transaction kept, when no commit   *)
(* has a superblock out; so does the device with no commit in it at all.    *)
LEMMA DeviceShowsKept ==
  ASSUME CommitAssumption, IInv, \A h \in Handle : state[h] # Supers
  PROVE  Readable(super) /\ ChosenTx(super) = kept
<1>1. \A c \in Copy : super[c] \in superCut[c]
  BY DEF IInv, TypeOK
<1>2. \A t : ~ InFlight(t)
  BY DEF InFlight
<1>3. QED
  BY <1>1, <1>2, CopiesChoose

-----------------------------------------------------------------------------
\* Types.

(* Every step of the protocol keeps the types of the device, of the         *)
(* transactions and of the handles.                                         *)
LEMMA TypeStep ==
  ASSUME CommitAssumption, TypeOK, Next
  PROVE  TypeOK'
<1> USE DEF TypeOK
<1>0. TypeOK /\ \A s \in [Copy -> Super] : Readable(s) => ChosenTx(s) \in Tx
  <2> SUFFICES ASSUME NEW s \in [Copy -> Super], Readable(s) PROVE ChosenTx(s) \in Tx
    OBVIOUS
  <2>1. \A c \in Copy : s[c].tx \in Tx /\ gen[s[c].tx] \in Nat
    BY DEF Super
  <2>2. QED
    BY <2>1, ChosenExists DEF ChosenTx
<1>1. ASSUME NEW h \in Handle, Mount(h) PROVE TypeOK'
  <2>1. ChosenTx(super) \in Tx
    BY <1>0, <1>1 DEF Mount, Mountable
  <2>2. QED
    BY <1>0, <1>1, <2>1 DEF Mount, device, history
<1>2. ASSUME NEW h \in Handle, Close(h) PROVE TypeOK'
  BY <1>0, <1>2 DEF Close, device, history
<1>3. ASSUME NEW h \in Handle, Plan(h) PROVE TypeOK'
  <2>1. made + 1 \in Tx
    BY <1>0, <1>3 DEF Plan, Tx, CommitAssumption
  <2>2. NextGeneration(h) \in Nat
    BY <1>0 DEF NextGeneration
  <2>3. PICK released \in SUBSET Reaches(base[h]), taken \in SUBSET FreePlaces(h) :
          /\ made' = made + 1
          /\ gen' = [gen EXCEPT ![made + 1] = NextGeneration(h)]
          /\ tree' = [tree EXCEPT ![made + 1] =
               [a \in Addr |-> IF a \in taken THEN made + 1
                               ELSE IF a \in released THEN Free ELSE tree[base[h]][a]]]
          /\ parent' = [parent EXCEPT ![made + 1] = base[h]]
          /\ \E c \in {made + 1, chunk[base[h]]} : chunk' = [chunk EXCEPT ![made + 1] = c]
          /\ mine' = [mine EXCEPT ![h] = made + 1]
          /\ todo' = [todo EXCEPT ![h] = taken \X Mirror]
          /\ state' = [state EXCEPT ![h] = Planned]
    BY <1>3 DEF Plan
  <2>4. made' \in Tx /\ gen' \in [Tx -> Nat] /\ parent' \in [Tx -> Tx]
    BY <1>0, <2>1, <2>2, <2>3
  <2>5. tree' \in [Tx -> [Addr -> Tx \cup {Free}]]
    <3>1. [a \in Addr |-> IF a \in taken THEN made + 1
                          ELSE IF a \in released THEN Free ELSE tree[base[h]][a]]
             \in [Addr -> Tx \cup {Free}]
      BY <1>0, <2>1
    <3>2. QED
      BY <1>0, <2>1, <2>3, <3>1
  <2>6. chunk' \in [Tx -> Tx]
    BY <1>0, <2>1, <2>3
  <2>7. taken \X Mirror \in SUBSET Place
    BY DEF FreePlaces, Place
  <2>8. /\ mine' \in [Handle -> Tx]
        /\ todo' \in [Handle -> SUBSET Place]
        /\ state' \in [Handle -> {Closed, Idle} \cup InCommit]
    BY <1>0, <2>1, <2>3, <2>7
  <2>9. UNCHANGED <<device, base, image, copy, kept, cuts, faults>>
    BY <1>3 DEF Plan
  <2>10. QED
    BY <1>0, <2>4, <2>5, <2>6, <2>8, <2>9 DEF device
<1>4. ASSUME NEW h \in Handle, MakeImages(h) PROVE TypeOK'
  <2>1. Primary \in Copy /\ Primary \in 1 .. NCopies + 1
    BY DEF Primary, Copy, CommitAssumption
  <2>2. [tx |-> mine[h],
         chunk |-> IF chunk[mine[h]] = mine[h] THEN mine[h] ELSE super[Primary].chunk,
         ok |-> TRUE] \in Super
    BY <1>0, <2>1 DEF Super
  <2>3. CASE Stale(h)
    BY <1>0, <1>4, <2>3 DEF MakeImages, device, history
  <2>4. CASE ~ Stale(h)
    <3>1. image' \in [Handle -> Super]
      BY <1>0, <1>4, <2>2, <2>4 DEF MakeImages
    <3>2. copy' \in [Handle -> 1 .. NCopies + 1]
      BY <1>0, <1>4, <2>1, <2>4 DEF MakeImages
    <3>3. state' \in [Handle -> {Closed, Idle} \cup InCommit]
      BY <1>0, <1>4, <2>4 DEF MakeImages
    <3>4. UNCHANGED <<device, history, base, mine, todo, kept, cuts, faults>>
      BY <1>4 DEF MakeImages
    <3>5. QED
      BY <1>0, <3>1, <3>2, <3>3, <3>4 DEF device, history
  <2>5. QED
    BY <2>3, <2>4
<1>5. ASSUME NEW h \in Handle, PutBlock(h) PROVE TypeOK'
  <2>1. PICK p \in todo[h] : WriteBlock(p, mine[h]) /\ todo' = [todo EXCEPT ![h] = @ \ {p}]
    BY <1>5 DEF PutBlock
  <2>2. p \in Place /\ mine[h] \in Stamp /\ Torn \in Stamp
    BY <1>0 DEF Stamp
  <2>3. QED
    BY <1>0, <1>5, <2>1, <2>2 DEF PutBlock, WriteBlock, history
<1>6. ASSUME NEW h \in Handle, Barrier(h) PROVE TypeOK'
  BY <1>0, <1>6 DEF Barrier, Flush, history
<1>7. ASSUME NEW h \in Handle, PutSuper(h) PROVE TypeOK'
  <2>1. copy[h] \in Copy /\ copy[h] + 1 \in 1 .. NCopies + 1
    BY <1>0, <1>7 DEF PutSuper, Copy, CommitAssumption
  <2>2. QED
    BY <1>0, <1>7, <2>1 DEF PutSuper, WriteSuper, history
<1>8. ASSUME NEW h \in Handle, CommitPoint(h) PROVE TypeOK'
  BY <1>0, <1>8 DEF CommitPoint, Flush, history
<1>9. ASSUME NEW h \in Handle, Remount(h) PROVE TypeOK'
  <2>1. Mountable => ChosenTx(super) \in Tx
    BY <1>0 DEF Mountable
  <2>2. QED
    BY <1>0, <1>9, <2>1 DEF Remount, device, history
<1>10. ASSUME NEW b \in Left(blockCut), NEW s \in Left(superCut), Leave(b, s) PROVE TypeOK'
  <2>1. b = [p \in Place |-> b[p]] /\ \A p \in Place : b[p] \in blockCut[p]
    BY <1>0, CutPick
  <2>2. s = [c \in Copy |-> s[c]] /\ \A c \in Copy : s[c] \in superCut[c]
    BY <1>0, CutPick
  <2>3. b \in [Place -> Stamp] /\ s \in [Copy -> Super]
    BY <1>0, <2>1, <2>2
  <2>4. Readable(s) => ChosenTx(s) \in Tx
    BY <1>0, <2>3
  <2>5. cuts + 1 \in 0 .. MaxCuts
    BY <1>0, <1>10 DEF Leave, CommitAssumption
  <2>6. QED
    BY <1>0, <1>10, <2>3, <2>4, <2>5 DEF Leave, history
<1>11. QED
  BY <1>1, <1>2, <1>3, <1>4, <1>5, <1>6, <1>7, <1>8, <1>9, <1>10
     DEF Next, Call, CommitStep, PowerCut

-----------------------------------------------------------------------------
\* The invariant, action by action.

(* Opening a handle, closing one and opening it again after a commit change *)
(* nothing but that handle, which is in no commit afterwards.               *)
LEMMA HandleStep ==
  ASSUME CommitAssumption, IInv, TypeOK', NEW h \in Handle,
         UNCHANGED <<device, history, mine, image, todo, copy, kept>>,
         state[h] # Supers,
         NEW st \in {Closed, Idle}, state' = [state EXCEPT ![h] = st],
         \/ base' = base /\ (state[h] = Closed => st = Closed)
         \/ base' = [base EXCEPT ![h] = kept]
  PROVE  IInv'
<1> USE DEF IInv, TypeOK
<1>1. \A g \in Handle : state'[g] \in InCommit => state[g] \in InCommit /\ state'[g] = state[g]
  OBVIOUS
<1>2. \A t : InFlight(t)' <=> InFlight(t)
  BY DEF InFlight
<1>3. \A t : Solid(t)' <=> Solid(t)
  BY DEF Solid, device, history
<1>4. Known'
  BY DEF Known, device, history
<1>5. CopiesOrdered'
  BY <1>2 DEF CopiesOrdered, device, history
<1>6. OneCommit'
  BY <1>1 DEF OneCommit
<1>7. HandlesOrdered'
  BY DEF HandlesOrdered, history
<1>8. WorkSound'
  BY <1>1, <1>3 DEF WorkSound, UnderWay, Written, device, history
<1>9. CopiesOut'
  BY <1>1 DEF CopiesOut, device
<1>10. QED
  BY <1>3, <1>4, <1>5, <1>6, <1>7, <1>8, <1>9

(* Opening a handle reads the transaction kept: nobody has a superblock out.*)
LEMMA MountStep ==
  ASSUME CommitAssumption, IInv, TypeOK', NEW h \in Handle, Alone(h), Mount(h)
  PROVE  IInv'
<1>1. \A g \in Handle : state[g] # Supers
  BY DEF Alone, Mount
<1>2. ChosenTx(super) = kept
  BY <1>1, DeviceShowsKept
<1>3. QED
  BY <1>1, <1>2, HandleStep, Idle \in {Closed, Idle} DEF Mount

(* Closing a handle disturbs nothing.                                       *)
LEMMA CloseStep ==
  ASSUME CommitAssumption, IInv, TypeOK', NEW h \in Handle, Close(h)
  PROVE  IInv'
<1>1. Closed \in {Closed, Idle}
  OBVIOUS
<1>2. QED
  BY <1>1, HandleStep DEF Close

(* A handle whose commit was acknowledged opens on that commit.            *)
LEMMA RemountStep ==
  ASSUME CommitAssumption, IInv, TypeOK', NEW h \in Handle, Remount(h)
  PROVE  IInv'
<1>1. \A g \in Handle : state[g] # Supers
  BY DEF Remount, IInv, OneCommit
<1>2. ChosenTx(super) = kept
  BY <1>1, DeviceShowsKept
<1>3. base' = base \/ base' = [base EXCEPT ![h] = kept]
  BY <1>2 DEF Remount, IInv, TypeOK
<1>4. Idle \in {Closed, Idle} /\ state[h] # Closed
  BY DEF Remount
<1>5. QED
  BY <1>1, <1>3, <1>4, HandleStep DEF Remount

(* A transaction is planned on the one kept: a handle that is not stale read*)
(* nothing older.                                                           *)
LEMMA PlanStep ==
  ASSUME CommitAssumption, IInv, TypeOK', NEW h \in Handle, Alone(h), Plan(h)
  PROVE  IInv'
<1> USE DEF IInv, TypeOK
<1>1. \A g \in Handle : state[g] \notin InCommit
  BY DEF Alone, Plan
<1>2. Readable(super) /\ ChosenTx(super) = kept
  BY <1>1, DeviceShowsKept
<1>3. base[h] = kept
  BY <1>2 DEF Plan, Stale, HandlesOrdered
<1>4. PICK released \in SUBSET Reaches(base[h]), taken \in SUBSET FreePlaces(h) :
        /\ made' = made + 1
        /\ gen' = [gen EXCEPT ![made + 1] = gen[kept] + 1]
        /\ tree' = [tree EXCEPT ![made + 1] =
             [a \in Addr |-> IF a \in taken THEN made + 1
                             ELSE IF a \in released THEN Free ELSE tree[kept][a]]]
        /\ mine' = [mine EXCEPT ![h] = made + 1]
        /\ todo' = [todo EXCEPT ![h] = taken \X Mirror]
        /\ state' = [state EXCEPT ![h] = Planned]
  <2>1. PICK released \in SUBSET Reaches(base[h]), taken \in SUBSET FreePlaces(h) :
          /\ made' = made + 1
          /\ gen' = [gen EXCEPT ![made + 1] = NextGeneration(h)]
          /\ tree' = [tree EXCEPT ![made + 1] =
               [a \in Addr |-> IF a \in taken THEN made + 1
                               ELSE IF a \in released THEN Free ELSE tree[base[h]][a]]]
          /\ mine' = [mine EXCEPT ![h] = made + 1]
          /\ todo' = [todo EXCEPT ![h] = taken \X Mirror]
          /\ state' = [state EXCEPT ![h] = Planned]
    BY DEF Plan
  <2>2. NextGeneration(h) = gen[kept] + 1
    BY <1>3 DEF NextGeneration
  <2>3. tree' = [tree EXCEPT ![made + 1] =
             [a \in Addr |-> IF a \in taken THEN made + 1
                             ELSE IF a \in released THEN Free ELSE tree[kept][a]]]
    BY <1>3, <2>1
  <2>4. gen' = [gen EXCEPT ![made + 1] = gen[kept] + 1]
    BY <2>1, <2>2
  <2>5. QED
    BY <2>1, <2>3, <2>4
<1>5. UNCHANGED <<device, base, image, copy, kept, cuts, faults>>
  BY DEF Plan
<1>6. made + 1 \in Tx
  BY DEF Plan, Tx, CommitAssumption
<1>7. \A t \in Tx : t <= made => gen'[t] = gen[t] /\ tree'[t] = tree[t]
  BY <1>4 DEF Tx
<1>8. \A t : ~ InFlight(t) /\ ~ InFlight(t)'
  BY <1>1, <1>4 DEF InFlight
<1>9. \A a \in taken : a \in Addr /\ tree[kept][a] = Free
  BY <1>3 DEF FreePlaces, Reaches
<1>10. Known'
  <2>1. made' = made + 1 /\ kept' = kept /\ base' = base /\ image' = image /\ superCut' = superCut
    BY <1>4, <1>5 DEF device
  <2>2. \A t \in Tx : t <= made => t <= made + 1
    BY DEF Tx
  <2>3. \A g \in Handle : mine'[g] <= made + 1
    <3> SUFFICES ASSUME NEW g \in Handle PROVE mine'[g] <= made + 1
      OBVIOUS
    <3>1. mine[g] <= made /\ mine[g] \in Tx
      BY DEF Known
    <3>2. mine'[g] = made + 1 \/ mine'[g] = mine[g]
      BY <1>4
    <3>3. made + 1 \in Int /\ made + 1 <= made + 1
      BY <1>6 DEF Tx
    <3>4. mine[g] <= made + 1
      BY <2>2, <3>1
    <3>5. QED
      BY <3>2, <3>3, <3>4
  <2>4. \A c \in Copy : \A s \in superCut[c] : s.tx <= made + 1
    BY <2>2 DEF Known, Super
  <2>5. kept <= made + 1 /\ \A g \in Handle : base[g] <= made + 1 /\ image[g].tx <= made + 1
    BY <2>2 DEF Known, Super
  <2>6. QED
    BY <2>1, <2>3, <2>4, <2>5 DEF Known
<1>11. CopiesOrdered'
  BY <1>5, <1>7, <1>8 DEF CopiesOrdered, Known, device, Super
<1>12. OneCommit'
  BY <1>1, <1>4 DEF OneCommit
<1>13. HandlesOrdered'
  BY <1>3, <1>4, <1>5, <1>7 DEF HandlesOrdered, Known
<1>14. Solid(kept)'
  BY <1>5, <1>7 DEF Solid, Known, device
<1>15. UnderWay(h)' /\ Written(h)'
  <2>1. mine'[h] = made + 1 /\ todo'[h] = taken \X Mirror /\ kept' = kept
    BY <1>4, <1>5
  <2>2. gen'[made + 1] = gen[kept] + 1 /\ gen'[kept] = gen[kept] /\ tree'[kept] = tree[kept]
    BY <1>4, <1>6, <1>7 DEF Known
  <2>3. \A a \in Addr : tree'[made + 1][a] =
          IF a \in taken THEN made + 1 ELSE IF a \in released THEN Free ELSE tree[kept][a]
    BY <1>4, <1>6
  <2>4. \A a \in Addr : tree[kept][a] = Free /\ tree'[made + 1][a] = made + 1 => a \in taken
    <3>1. made + 1 # Free
      BY <1>6 DEF Tx
    <3>2. ASSUME NEW a \in Addr, tree[kept][a] = Free, a \notin taken
          PROVE  tree'[made + 1][a] = Free
      BY <2>3, <3>2
    <3>3. QED
      BY <3>1, <3>2
  <2>5. UnderWay(h)'
    BY <1>9, <2>1, <2>2, <2>3 DEF UnderWay
  <2>6. Written(h)'
    BY <2>1, <2>2, <2>4 DEF Written
  <2>7. QED
    BY <2>5, <2>6
<1>16. WorkSound'
  BY <1>1, <1>4, <1>15 DEF WorkSound
<1>17. CopiesOut'
  BY <1>1, <1>4 DEF CopiesOut
<1>18. QED
  BY <1>10, <1>11, <1>12, <1>13, <1>14, <1>16, <1>17

(* The head of a commit makes superblock images of its own transaction, or  *)
(* refuses and leaves the handle idle.                                      *)
LEMMA MakeImagesStep ==
  ASSUME CommitAssumption, IInv, TypeOK', NEW h \in Handle, MakeImages(h)
  PROVE  IInv'
<1> USE DEF IInv, TypeOK
<1>1. UNCHANGED <<device, history, base, mine, todo, kept, cuts, faults>>
  BY DEF MakeImages
<1>2. CASE Stale(h)
  <2>1. state[h] # Supers /\ state' = [state EXCEPT ![h] = Idle]
    BY <1>2 DEF MakeImages
  <2>2. image' = image /\ copy' = copy
    BY <1>2 DEF MakeImages
  <2>3. Idle \in {Closed, Idle} /\ state[h] # Closed
    BY DEF MakeImages
  <2>4. QED
    BY <1>1, <2>1, <2>2, <2>3, HandleStep
<1>3. CASE ~ Stale(h)
  <2>1. state[h] = Planned /\ state' = [state EXCEPT ![h] = Blocks]
    BY <1>3 DEF MakeImages
  <2>2. image'[h].tx = mine[h] /\ image'[h].ok /\ copy'[h] = Primary
    BY <1>3 DEF MakeImages
  <2>3. \A g \in Handle \ {h} : image'[g] = image[g] /\ copy'[g] = copy[g]
    BY <1>3 DEF MakeImages
  <2>4. \A t : InFlight(t)' <=> InFlight(t)
    BY <1>1, <2>1 DEF InFlight
  <2>5. \A t : Solid(t)' <=> Solid(t)
    BY <1>1 DEF Solid, device, history
  <2>6. Known'
    BY <1>1, <2>2, <2>3 DEF Known, device, history
  <2>7. CopiesOrdered'
    BY <1>1, <2>4 DEF CopiesOrdered, device, history
  <2>8. OneCommit'
    BY <2>1 DEF OneCommit
  <2>9. HandlesOrdered'
    BY <1>1, <2>1 DEF HandlesOrdered, history
  <2>10. Solid(kept)'
    BY <1>1, <2>5
  <2>11. WorkSound'
    <3> SUFFICES ASSUME NEW g \in Handle
                 PROVE  /\ state'[g] \in {Planned, Blocks, Supers} => UnderWay(g)'
                        /\ state'[g] \in {Blocks, Supers} => image'[g].tx = mine'[g] /\ image'[g].ok
                        /\ state'[g] \in {Planned, Blocks} => Written(g)'
                        /\ state'[g] = Supers => Solid(mine[g])'
      BY <1>1 DEF WorkSound
    <3>1. UnderWay(g)' <=> UnderWay(g)
      BY <1>1 DEF UnderWay, history
    <3>2. Written(g)' <=> Written(g)
      BY <1>1 DEF Written, history, device
    <3>3. CASE g = h
      BY <1>1, <2>1, <2>2, <3>1, <3>2, <3>3 DEF WorkSound
    <3>4. CASE g # h
      BY <1>1, <2>1, <2>3, <2>5, <3>1, <3>2, <3>4 DEF WorkSound
    <3>5. QED
      BY <3>3, <3>4
  <2>12. CopiesOut'
    BY <1>1, <2>1, <2>2, <2>3 DEF CopiesOut, device
  <2>13. QED
    BY <2>6, <2>7, <2>8, <2>9, <2>10, <2>11, <2>12
<1>4. QED
  BY <1>2, <1>3

(* A block goes to a place the transaction kept has none in, so that one's  *)
(* blocks stay on every mirror.                                             *)
LEMMA PutBlockStep ==
  ASSUME CommitAssumption, IInv, TypeOK', NEW h \in Handle, PutBlock(h)
  PROVE  IInv'
<1> USE DEF IInv, TypeOK
<1>1. PICK p \in todo[h] : WriteBlock(p, mine[h]) /\ todo' = [todo EXCEPT ![h] = @ \ {p}]
  BY DEF PutBlock
<1>2. UNCHANGED <<super, superCut, history, state, base, mine, image, copy, kept, cuts, faults>>
  BY DEF PutBlock
<1>3. state[h] = Blocks /\ p \in Place
  BY DEF PutBlock
<1>4. UnderWay(h) /\ Written(h)
  BY <1>3 DEF WorkSound
<1>5. tree[kept][p[1]] = Free /\ tree[mine[h]][p[1]] = mine[h]
  BY <1>4 DEF UnderWay
<1>6. \A q \in Place : q # p => block'[q] = block[q] /\ blockCut'[q] = blockCut[q]
  BY <1>1 DEF WriteBlock
<1>7. block'[p] = mine[h]
  BY <1>1, <1>3 DEF WriteBlock
<1>8. Solid(kept)'
  <2> SUFFICES ASSUME NEW a \in Addr, NEW m \in Mirror, tree[kept][a] # Free
               PROVE  blockCut'[<<a, m>>] = {tree[kept][a]}
    BY <1>2 DEF Solid, history
  <2>1. <<a, m>> \in Place /\ <<a, m>> # p
    BY <1>5 DEF Place
  <2>2. QED
    BY <1>6, <2>1 DEF Solid
<1>9. \A g \in Handle : g # h => state[g] \notin InCommit
  BY <1>3 DEF OneCommit
<1>10. UnderWay(h)'
  BY <1>1, <1>2, <1>4 DEF UnderWay, history
<1>11. Written(h)'
  <2> SUFFICES ASSUME NEW a \in Addr, NEW m \in Mirror,
                      tree[mine[h]][a] = mine[h], tree[kept][a] = Free
               PROVE  <<a, m>> \in todo'[h] \/ block'[<<a, m>>] = mine[h]
    BY <1>2 DEF Written, history
  <2>1. CASE <<a, m>> = p
    BY <1>7, <2>1
  <2>2. CASE <<a, m>> # p
    <3>1. <<a, m>> \in Place
      BY DEF Place
    <3>2. <<a, m>> \in todo[h] \/ block[<<a, m>>] = mine[h]
      BY <1>4 DEF Written
    <3>3. QED
      BY <1>1, <1>6, <2>2, <3>1, <3>2
  <2>3. QED
    BY <2>1, <2>2
<1>12. WorkSound'
  <2>1. image'[h].tx = mine'[h] /\ image'[h].ok /\ state'[h] = Blocks
    BY <1>2, <1>3 DEF WorkSound
  <2>2. \A g \in Handle : g # h => state'[g] \notin InCommit
    BY <1>2, <1>9
  <2>3. QED
    BY <1>10, <1>11, <2>1, <2>2 DEF WorkSound
<1>13. \A t : InFlight(t)' <=> InFlight(t)
  BY <1>2 DEF InFlight
<1>14. Known' /\ OneCommit' /\ HandlesOrdered' /\ CopiesOut'
  BY <1>2 DEF Known, OneCommit, HandlesOrdered, CopiesOut, history
<1>15. CopiesOrdered'
  BY <1>2, <1>13 DEF CopiesOrdered, history
<1>16. QED
  BY <1>8, <1>12, <1>14, <1>15

(* The barrier leaves every block of the transaction on every mirror, alone.*)
LEMMA BarrierStep ==
  ASSUME CommitAssumption, IInv, TypeOK', NEW h \in Handle, Barrier(h)
  PROVE  IInv'
<1> USE DEF IInv, TypeOK
<1>1. UNCHANGED <<block, super, history, base, mine, image, todo, copy, kept, cuts, faults>>
  BY DEF Barrier, Flush
<1>2. /\ blockCut' = [p \in Place |-> {block[p]}]
      /\ superCut' = [c \in Copy |-> {super[c]}]
  BY DEF Barrier, Flush
<1>3. state[h] = Blocks /\ todo[h] = {} /\ state' = [state EXCEPT ![h] = Supers]
  BY DEF Barrier
<1>4. UnderWay(h) /\ Written(h) /\ image[h].tx = mine[h] /\ image[h].ok
  BY <1>3 DEF WorkSound
<1>5. \A g \in Handle : g # h => state[g] \notin InCommit /\ state'[g] \notin InCommit
  BY <1>3 DEF OneCommit
<1>6. \A t : ~ InFlight(t)
  BY <1>3, <1>5 DEF InFlight
<1>7. \A c \in Copy : super[c] \in superCut[c]
  OBVIOUS
<1>8. \A p \in Place : \A t : blockCut[p] = {t} => block[p] = t
  OBVIOUS
<1>9. Solid(kept)'
  <2> SUFFICES ASSUME NEW a \in Addr, NEW m \in Mirror, tree[kept][a] # Free
               PROVE  blockCut'[<<a, m>>] = {tree[kept][a]}
    BY <1>1 DEF Solid, history
  <2>1. <<a, m>> \in Place
    BY DEF Place
  <2>2. block[<<a, m>>] = tree[kept][a]
    BY <1>8, <2>1 DEF Solid
  <2>3. QED
    BY <1>2, <2>1, <2>2
<1>10. Solid(mine[h])'
  <2> SUFFICES ASSUME NEW a \in Addr, NEW m \in Mirror, tree[mine[h]][a] # Free
               PROVE  blockCut'[<<a, m>>] = {tree[mine[h]][a]}
    BY <1>1 DEF Solid, history
  <2>1. <<a, m>> \in Place
    BY DEF Place
  <2>2. CASE tree[mine[h]][a] = mine[h] /\ tree[kept][a] = Free
    <3>1. block[<<a, m>>] = mine[h]
      BY <1>3, <1>4, <2>2 DEF Written
    <3>2. QED
      BY <1>2, <2>1, <2>2, <3>1
  <2>3. CASE tree[mine[h]][a] = tree[kept][a]
    <3>1. tree'[kept'][a] # Free /\ tree'[kept'][a] = tree[mine[h]][a]
      BY <1>1, <2>3 DEF history
    <3>2. QED
      BY <1>9, <3>1 DEF Solid
  <2>4. QED
    BY <1>4, <2>2, <2>3 DEF UnderWay
<1>11. UnderWay(h)'
  BY <1>1, <1>4 DEF UnderWay, history
<1>12. WorkSound'
  BY <1>1, <1>3, <1>4, <1>5, <1>10, <1>11 DEF WorkSound
<1>13. CopiesOrdered'
  <2>1. \A c \in Copy : superCut'[c] \subseteq superCut[c] /\ superCut'[c] # {}
    BY <1>2, <1>7
  <2>2. \A c \in Copy : \A s \in superCut'[c] : s.ok /\ (s.tx = kept \/ gen[s.tx] < gen[kept])
    BY <1>6, <2>1 DEF CopiesOrdered
  <2>3. \E c \in Copy : \A s \in superCut'[c] : s.tx = kept
    BY <1>6, <2>1 DEF CopiesOrdered
  <2>4. QED
    BY <1>1, <2>2, <2>3 DEF CopiesOrdered, history
<1>14. Known'
  <2>1. \A c \in Copy : superCut'[c] \subseteq superCut[c]
    BY <1>2, <1>7
  <2>2. QED
    BY <1>1, <2>1 DEF Known, history
<1>15. OneCommit'
  BY <1>3, <1>5 DEF OneCommit
<1>16. HandlesOrdered'
  BY <1>1, <1>3 DEF HandlesOrdered, history
<1>17. CopiesOut'
  <2>1. \A c \in Copy : ~ (c < copy[h])
    BY <1>3 DEF Copy, CopiesOut, Primary
  <2>2. QED
    BY <1>1, <1>3, <1>5, <2>1 DEF CopiesOut
<1>18. QED
  BY <1>9, <1>12, <1>13, <1>14, <1>15, <1>16, <1>17

(* A superblock copy goes out: the transaction is in flight, and the copy   *)
(* that was no older than the one kept still is, or is the transaction's.   *)
LEMMA PutSuperStep ==
  ASSUME CommitAssumption, IInv, TypeOK', NEW h \in Handle, PutSuper(h)
  PROVE  IInv'
<1> USE DEF IInv, TypeOK
<1>1. UNCHANGED <<block, blockCut, history, state, base, mine, image, todo, kept, cuts, faults>>
  BY DEF PutSuper
<1>2. state[h] = Supers /\ copy[h] <= NCopies /\ copy' = [copy EXCEPT ![h] = @ + 1]
  BY DEF PutSuper
<1>3. copy[h] \in Copy
  BY <1>2 DEF Copy, CommitAssumption
<1>4. /\ super' = [super EXCEPT ![copy[h]] = image[h]]
      /\ superCut' = [superCut EXCEPT ![copy[h]] = @ \cup {image[h]}]
  BY DEF PutSuper, WriteSuper
<1>5. image[h].tx = mine[h] /\ image[h].ok /\ Solid(mine[h]) /\ UnderWay(h)
  BY <1>2 DEF WorkSound
<1>6. InFlight(mine[h]) /\ \A t : InFlight(t)' <=> InFlight(t)
  BY <1>1, <1>2 DEF InFlight
<1>7. \A c \in Copy : \A s \in superCut'[c] : s \in superCut[c] \/ s = image[h]
  BY <1>4
<1>8. CopiesOrdered'
  <2>1. \A c \in Copy : \A s \in superCut'[c] :
           s.ok /\ (s.tx = kept \/ InFlight(s.tx) \/ gen[s.tx] < gen[kept])
    BY <1>5, <1>6, <1>7 DEF CopiesOrdered
  <2>2. PICK b \in Copy : \A s \in superCut[b] : s.tx = kept \/ InFlight(s.tx)
    BY DEF CopiesOrdered
  <2>3. \A s \in superCut'[b] : s.tx = kept \/ InFlight(s.tx)
    BY <1>5, <1>6, <1>7, <2>2
  <2>4. QED
    BY <1>1, <1>6, <2>1, <2>3 DEF CopiesOrdered, history
<1>9. Known'
  <2>1. \A c \in Copy : \A s \in superCut'[c] : s.tx <= made
    BY <1>5, <1>7 DEF Known
  <2>2. QED
    BY <1>1, <2>1 DEF Known, history
<1>10. \A t : Solid(t)' <=> Solid(t)
  BY <1>1 DEF Solid, history
<1>11. WorkSound'
  BY <1>1, <1>10 DEF WorkSound, UnderWay, Written, history
<1>12. CopiesOut'
  <2>1. \A g \in Handle : g # h => state[g] \notin InCommit
    BY <1>2 DEF OneCommit
  <2>2. \A c \in Copy : c < copy[h] + 1 => c = copy[h] \/ c < copy[h]
    BY <1>3 DEF Copy
  <2>3. \A c \in Copy : c < copy'[h] => super'[c].tx = mine[h]
    BY <1>2, <1>3, <1>4, <1>5, <2>2 DEF CopiesOut
  <2>4. QED
    BY <1>1, <1>2, <2>1, <2>3 DEF CopiesOut
<1>13. Solid(kept)' /\ OneCommit' /\ HandlesOrdered'
  BY <1>1, <1>10 DEF OneCommit, HandlesOrdered, history
<1>14. QED
  BY <1>8, <1>9, <1>11, <1>12, <1>13

(* The second flush: every copy is the transaction's, and nothing else can  *)
(* survive, so it is the one kept.                                          *)
LEMMA CommitPointStep ==
  ASSUME CommitAssumption, IInv, TypeOK', NEW h \in Handle, CommitPoint(h)
  PROVE  IInv'
<1> USE DEF IInv, TypeOK
<1>1. UNCHANGED <<block, super, history, base, mine, image, todo, copy, cuts, faults>>
  BY DEF CommitPoint, Flush
<1>2. /\ blockCut' = [p \in Place |-> {block[p]}]
      /\ superCut' = [c \in Copy |-> {super[c]}]
  BY DEF CommitPoint, Flush
<1>3. /\ state[h] = Supers /\ copy[h] > NCopies
      /\ kept' = mine[h] /\ state' = [state EXCEPT ![h] = Reopen]
  BY DEF CommitPoint
<1>4. Solid(mine[h]) /\ UnderWay(h)
  BY <1>3 DEF WorkSound
<1>5. \A g \in Handle : g # h => state[g] \notin InCommit
  BY <1>3 DEF OneCommit
<1>6. \A g \in Handle : state'[g] \notin {Planned, Blocks, Supers}
  BY <1>3, <1>5
<1>7. \A c \in Copy : c < copy[h]
  <2>1. copy[h] \in 1 .. NCopies + 1 /\ copy[h] > NCopies /\ NCopies \in Nat
    BY <1>3 DEF CommitAssumption
  <2>2. QED
    BY <2>1 DEF Copy
<1>8. \A c \in Copy : super[c].tx = mine[h] /\ super[c].ok
  <2>1. \A c \in Copy : super[c] \in superCut[c]
    OBVIOUS
  <2>2. QED
    BY <1>3, <1>7, <2>1 DEF CopiesOut, CopiesOrdered
<1>9. gen[mine[h]] = gen[kept] + 1
  BY <1>4 DEF UnderWay
<1>10. Solid(kept)'
  <2> SUFFICES ASSUME NEW a \in Addr, NEW m \in Mirror, tree[mine[h]][a] # Free
               PROVE  blockCut'[<<a, m>>] = {tree[mine[h]][a]}
    BY <1>1, <1>3 DEF Solid, history
  <2>1. <<a, m>> \in Place
    BY DEF Place
  <2>2. blockCut[<<a, m>>] = {tree[mine[h]][a]} /\ block[<<a, m>>] \in blockCut[<<a, m>>]
    BY <1>4, <2>1 DEF Solid
  <2>3. QED
    BY <1>2, <2>1, <2>2
<1>11. CopiesOrdered'
  <2>1. Primary \in Copy
    BY DEF Copy, Primary, CommitAssumption
  <2>2. \A c \in Copy : \A s \in superCut'[c] : s.tx = mine[h] /\ s.ok
    BY <1>2, <1>8
  <2>3. QED
    BY <1>1, <1>3, <2>1, <2>2 DEF CopiesOrdered
<1>12. Known'
  <2>1. \A c \in Copy : \A s \in superCut'[c] : s \in superCut[c]
    BY <1>2
  <2>2. QED
    BY <1>1, <1>3, <2>1 DEF Known, history
<1>13. OneCommit'
  BY <1>3, <1>5 DEF OneCommit
<1>14. HandlesOrdered'
  <2> SUFFICES ASSUME NEW g \in Handle, state'[g] # Closed
               PROVE  base[g] = mine[h] \/ gen[base[g]] < gen[mine[h]]
    BY <1>1, <1>3 DEF HandlesOrdered, history
  <2>1. state[g] # Closed
    BY <1>3
  <2>2. base[g] = kept \/ gen[base[g]] < gen[kept]
    BY <2>1 DEF HandlesOrdered
  <2>3. QED
    BY <1>9, <2>2
<1>15. WorkSound' /\ CopiesOut'
  BY <1>6 DEF WorkSound, CopiesOut
<1>16. QED
  BY <1>10, <1>11, <1>12, <1>13, <1>14, <1>15

(* A power cut leaves the transaction kept or the one in flight: both have  *)
(* every block on every mirror, so whichever is recovered is kept whole.    *)
LEMMA LeaveStep ==
  ASSUME CommitAssumption, IInv, TypeOK',
         NEW b \in Left(blockCut), NEW s \in Left(superCut), Leave(b, s)
  PROVE  IInv'
<1> USE DEF IInv, TypeOK
<1>1. /\ block' = b /\ blockCut' = [p \in Place |-> {b[p]}]
      /\ super' = s /\ superCut' = [c \in Copy |-> {s[c]}]
      /\ \A h \in Handle : state'[h] = Closed
      /\ UNCHANGED <<history, base, mine, image, todo, copy, faults>>
  BY DEF Leave
<1>2. /\ \A p \in Place : b[p] \in blockCut[p]
      /\ \A c \in Copy : s[c] \in superCut[c]
  BY CutPick
<1>3. /\ Readable(s) /\ Chosen(s) \in Copy
      /\ ChosenTx(s) = kept \/ InFlight(ChosenTx(s))
      /\ ChosenTx(s) \in Tx /\ ChosenTx(s) <= made
      /\ \A c \in Copy : s[c].tx = ChosenTx(s) \/ gen[s[c].tx] < gen[ChosenTx(s)]
  BY <1>2, CopiesChoose
<1>4. kept' = ChosenTx(s)
  BY <1>3 DEF Leave
<1>5. Solid(ChosenTx(s))
  BY <1>3 DEF InFlight, WorkSound
<1>6. Solid(kept)'
  <2> SUFFICES ASSUME NEW a \in Addr, NEW m \in Mirror, tree[kept'][a] # Free
               PROVE  blockCut'[<<a, m>>] = {tree[kept'][a]}
    BY <1>1 DEF Solid, history
  <2>1. <<a, m>> \in Place
    BY DEF Place
  <2>2. blockCut[<<a, m>>] = {tree[kept'][a]}
    BY <1>4, <1>5 DEF Solid
  <2>3. QED
    BY <1>1, <1>2, <2>1, <2>2
<1>7. CopiesOrdered'
  <2>1. \A c \in Copy : superCut'[c] = {s[c]} /\ s[c].ok
    BY <1>1, <1>2 DEF CopiesOrdered
  <2>2. \A c \in Copy : s[c].tx = kept' \/ gen[s[c].tx] < gen[kept']
    BY <1>3, <1>4
  <2>3. Chosen(s) \in Copy /\ s[Chosen(s)].tx = kept'
    BY <1>3, <1>4 DEF ChosenTx
  <2>4. QED
    BY <1>1, <2>1, <2>2, <2>3 DEF CopiesOrdered, history
<1>8. Known'
  <2>1. \A c \in Copy : \A u \in superCut'[c] : u \in superCut[c]
    BY <1>1, <1>2
  <2>2. QED
    BY <1>1, <1>3, <1>4, <2>1 DEF Known, history
<1>9. OneCommit' /\ HandlesOrdered' /\ WorkSound' /\ CopiesOut'
  BY <1>1 DEF OneCommit, HandlesOrdered, WorkSound, CopiesOut
<1>10. QED
  BY <1>6, <1>7, <1>8, <1>9

(* A step in which nothing happens keeps the invariant.                     *)
LEMMA Stuttering ==
  ASSUME IInv, UNCHANGED vars
  PROVE  IInv'
BY DEF IInv, TypeOK, Known, CopiesOrdered, OneCommit, HandlesOrdered, Solid,
       WorkSound, UnderWay, Written, CopiesOut, InFlight, vars, device, history, handles

-----------------------------------------------------------------------------
\* The theorems.

(* The device mkfs made, no handle open on it, satisfies the invariant.     *)
LEMMA Initially ==
  ASSUME CommitAssumption, Init
  PROVE  IInv
<1>1. 0 \in Tx /\ Tx \subseteq Nat /\ Primary \in Copy /\ Copy = 1 .. NCopies
  BY DEF Tx, Primary, Copy, CommitAssumption
<1>2. TypeOK
  <2>1. 0 \in 0 .. MaxCuts /\ 0 \in 0 .. MaxFaults /\ 1 \in 1 .. NCopies + 1
    BY DEF CommitAssumption
  <2>2. block \in [Place -> Stamp] /\ blockCut \in [Place -> SUBSET Stamp]
    BY <1>1 DEF Init, Stamp
  <2>3. [tx |-> 0, chunk |-> 0, ok |-> TRUE] \in Super
    BY <1>1 DEF Super
  <2>4. QED
    BY <1>1, <2>1, <2>2, <2>3 DEF Init, TypeOK
<1>3. \A c \in Copy : \A s \in superCut[c] : s.tx = 0 /\ s.ok
  BY DEF Init
<1>4. Known /\ CopiesOrdered
  <2>1. kept = 0 /\ made = 0
    BY DEF Init
  <2>2. Known
    BY <1>3, <2>1 DEF Init, Known
  <2>3. QED
    BY <1>1, <1>3, <2>1, <2>2 DEF CopiesOrdered
<1>5. Solid(kept)
  <2> SUFFICES ASSUME NEW a \in Addr, NEW m \in Mirror, tree[kept][a] # Free
               PROVE  blockCut[<<a, m>>] = {tree[kept][a]}
    BY DEF Solid
  <2>1. kept = 0 /\ tree[0] = [x \in Addr |-> IF x \in Used THEN 0 ELSE Free]
    BY <1>1 DEF Init
  <2>2. a \in Used /\ tree[kept][a] = 0
    BY <2>1
  <2>3. <<a, m>> \in Place /\ <<a, m>>[1] = a
    BY DEF Place
  <2>4. block[<<a, m>>] = 0
    BY <2>2, <2>3 DEF Init
  <2>5. QED
    BY <2>2, <2>3, <2>4 DEF Init
<1>6. OneCommit /\ HandlesOrdered /\ WorkSound /\ CopiesOut
  BY DEF Init, OneCommit, HandlesOrdered, WorkSound, CopiesOut
<1>7. QED
  BY <1>2, <1>4, <1>5, <1>6 DEF IInv

(* Every step of the program, and every power cut, keeps the invariant.     *)
LEMMA Inductive ==
  ASSUME CommitAssumption, IInv, [Next]_vars
  PROVE  IInv'
<1>1. CASE UNCHANGED vars
  BY <1>1, Stuttering
<1>2. CASE Next
  <2>1. TypeOK'
    BY <1>2, TypeStep DEF IInv
  <2>2. ASSUME NEW h \in Handle, Call(h) PROVE IInv'
    BY <2>1, <2>2, MountStep, CloseStep, PlanStep DEF Call
  <2>3. ASSUME NEW h \in Handle, CommitStep(h) PROVE IInv'
    BY <2>1, <2>3, MakeImagesStep, PutBlockStep, BarrierStep, PutSuperStep,
       CommitPointStep, RemountStep DEF CommitStep
  <2>4. ASSUME PowerCut PROVE IInv'
    BY <2>1, <2>4, LeaveStep DEF PowerCut
  <2>5. QED
    BY <1>2, <2>2, <2>3, <2>4 DEF Next
<1>3. QED
  BY <1>1, <1>2

(* The invariant holds in every state of the program run one call at a time,*)
(* with power cut at any moment.                                            *)
THEOREM Invariant == Spec => []IInv
<1>1. Init => IInv
  BY Initially, CommitAssumption
<1>2. IInv /\ [Next]_vars => IInv'
  BY Inductive, CommitAssumption
<1>3. QED
  BY <1>1, <1>2, PTL DEF Spec

(* Types: what is read at each place is one of the contents that may survive*)
(* there, and every counter keeps within its bound.                         *)
THEOREM TypeCorrect == Spec => []TypeOK
<1>1. IInv => TypeOK
  BY DEF IInv
<1>2. QED
  BY <1>1, Invariant, PTL

(* commit.rs: whenever power is cut, and whatever part of the cache reached *)
(* the medium, the superblock a reader then chooses names a tree every block*)
(* of which is there.                                                       *)
THEOREM CutSafe == Spec => []CutLeavesWholeTree
<1>1. ASSUME IInv PROVE CutLeavesWholeTree
  <2> SUFFICES ASSUME NEW s \in Outcomes
               PROVE  Readable(s) /\ SurelyWhole(ChosenTx(s))
    BY DEF CutLeavesWholeTree
  <2>1. \A c \in Copy : s[c] \in superCut[c]
    BY <1>1, CutPick DEF Outcomes, IInv
  <2>2. /\ Readable(s)
        /\ ChosenTx(s) = kept \/ InFlight(ChosenTx(s))
    BY <1>1, <2>1, CopiesChoose, CommitAssumption
  <2>3. Solid(ChosenTx(s))
    BY <1>1, <2>2 DEF IInv, InFlight, WorkSound
  <2>4. PICK m \in Mirror : TRUE
    BY CommitAssumption DEF CommitAssumption
  <2>5. QED
    BY <2>2, <2>3, <2>4 DEF SurelyWhole, Solid, Reaches
<1>2. QED
  BY <1>1, Invariant, PTL

(* commit.rs: what a power cut leaves is the transaction last acknowledged, *)
(* or last recovered, or the one being committed, and no other.             *)
THEOREM CutAtomic == Spec => []CutLeavesBeforeOrAfter
<1>1. ASSUME IInv PROVE CutLeavesBeforeOrAfter
  <2> SUFFICES ASSUME NEW s \in Outcomes
               PROVE  ChosenTx(s) = kept \/ InFlight(ChosenTx(s))
    BY DEF CutLeavesBeforeOrAfter, InFlight
  <2>1. \A c \in Copy : s[c] \in superCut[c]
    BY <1>1, CutPick DEF Outcomes, IInv
  <2>2. QED
    BY <1>1, <2>1, CopiesChoose, CommitAssumption
<1>2. QED
  BY <1>1, Invariant, PTL

-----------------------------------------------------------------------------
\* For the refinement of AtomicStore, what IInv does not say: until the
\* second flush the transaction kept can still survive, and the one being
\* committed cannot before its first superblock copy goes out.
KeptSurvives ==
  \A h \in Handle : state[h] = Supers =>
    /\ \A c \in Copy : \E s \in superCut[c] : s.tx # mine[h]
    /\ \E c \in Copy : \E s \in superCut[c] : s.tx = kept
    /\ copy[h] = Primary => \A c \in Copy : \A s \in superCut[c] : s.tx # mine[h]

(* Only the barrier brings a handle to its superblock copies, and a copy    *)
(* written adds to what may survive and takes nothing away.                 *)
LEMMA KeptInductive ==
  ASSUME CommitAssumption, IInv, KeptSurvives, IInv', [Next]_vars
  PROVE  KeptSurvives'
<1> USE DEF IInv, TypeOK
<1>1. ASSUME UNCHANGED <<superCut, mine, kept, copy>>,
             \A h \in Handle : state'[h] = Supers => state[h] = Supers
      PROVE  KeptSurvives'
  BY <1>1 DEF KeptSurvives
<1>2. ASSUME NEW h \in Handle, Mount(h) \/ Close(h) \/ Remount(h) PROVE KeptSurvives'
  BY <1>1, <1>2 DEF Mount, Close, Remount, device
<1>3. ASSUME NEW h \in Handle, state[h] \in InCommit, state'[h] # Supers,
             \A g \in Handle \ {h} : state'[g] = state[g]
      PROVE  KeptSurvives'
  BY <1>3 DEF KeptSurvives, OneCommit
<1>4. ASSUME NEW h \in Handle, Alone(h), Plan(h) PROVE KeptSurvives'
  BY <1>4 DEF Plan, Alone, KeptSurvives
<1>5. ASSUME NEW h \in Handle, MakeImages(h) PROVE KeptSurvives'
  <2>1. /\ state[h] = Planned
        /\ state' = [state EXCEPT ![h] = Idle] \/ state' = [state EXCEPT ![h] = Blocks]
    BY <1>5 DEF MakeImages
  <2>2. /\ state[h] \in InCommit /\ state'[h] # Supers
        /\ \A g \in Handle \ {h} : state'[g] = state[g]
    BY <2>1
  <2>3. QED
    BY <1>3, <2>2
<1>6. ASSUME NEW h \in Handle, PutBlock(h) PROVE KeptSurvives'
  BY <1>1, <1>6 DEF PutBlock
<1>7. ASSUME NEW h \in Handle, Barrier(h) PROVE KeptSurvives'
  <2>1. /\ \A c \in Copy : superCut'[c] = {super[c]} /\ super[c] \in superCut[c]
        /\ UNCHANGED <<mine, kept, gen>>
    BY <1>7 DEF Barrier, Flush, history
  <2>2. state[h] = Blocks /\ \A g \in Handle \ {h} : state'[g] # Supers
    BY <1>7 DEF Barrier, OneCommit
  <2>3. \A t : ~ InFlight(t)
    BY <2>2 DEF InFlight, OneCommit
  <2>4. gen[mine[h]] = gen[kept] + 1
    BY <2>2 DEF WorkSound, UnderWay
  <2>5. \A c \in Copy : super[c].tx # mine[h]
    <3>1. gen[kept] \in Nat
      OBVIOUS
    <3>2. \A c \in Copy : super[c].tx = kept \/ gen[super[c].tx] < gen[kept]
      BY <2>1, <2>3 DEF CopiesOrdered
    <3> HIDE DEF IInv, TypeOK
    <3>3. QED
      BY <2>4, <3>1, <3>2
  <2>6. \E c \in Copy : super[c].tx = kept
    BY <2>1, <2>3 DEF CopiesOrdered
  <2>7. \A c \in Copy : superCut'[c] = {super[c]}
    BY <2>1
  <2>8. mine' = mine /\ kept' = kept
    BY <2>1
  <2> HIDE DEF IInv, TypeOK
  <2>9. QED
    BY <2>2, <2>5, <2>6, <2>7, <2>8 DEF KeptSurvives
<1>8. ASSUME NEW h \in Handle, PutSuper(h) PROVE KeptSurvives'
  <2>1. /\ state[h] = Supers /\ copy'[h] # Primary
        /\ \A g \in Handle \ {h} : state'[g] # Supers
        /\ UNCHANGED <<state, mine, kept>>
    BY <1>8 DEF PutSuper, OneCommit, Primary, CommitAssumption
  <2>2. \A c \in Copy : superCut[c] \subseteq superCut'[c]
    BY <1>8 DEF PutSuper, WriteSuper
  <2>3. QED
    BY <2>1, <2>2 DEF KeptSurvives
<1>9. ASSUME NEW h \in Handle, CommitPoint(h) PROVE KeptSurvives'
  BY <1>3, <1>9 DEF CommitPoint
<1>10. ASSUME PowerCut PROVE KeptSurvives'
  BY <1>10 DEF PowerCut, Leave, KeptSurvives
<1>11. CASE UNCHANGED vars
  BY <1>1, <1>11 DEF vars, device, handles
<1>12. QED
  BY <1>2, <1>4, <1>5, <1>6, <1>7, <1>8, <1>9, <1>10, <1>11 DEF Next, Call, CommitStep

-----------------------------------------------------------------------------
\* The view a reader has.

\* A handle part of whose superblock copies are out.
Out(h) == state[h] = Supers /\ copy[h] # Primary

\* Outside a commit the transaction kept is all there is.  From the primary
\* copy on, the one being committed is what is read, and either may survive.
View ==
  /\ \A h \in Handle : Out(h) => Shown = mine[h] /\ Survivors = {kept, mine[h]}
  /\ (\A h \in Handle : ~ Out(h)) => Shown = kept /\ Survivors = {kept}

(* Any choice of one superblock a copy may hold is an outcome of a cut.     *)
LEMMA PickIsLeft ==
  ASSUME NEW D, NEW cut, DOMAIN cut = D, NEW f, f = [x \in D |-> f[x]],
         \A x \in D : f[x] \in cut[x]
  PROVE  f \in Left(cut)
<1> DEFINE unsure == {x \in DOMAIN cut : \E u, v \in cut[x] : u # v}
           g == [x \in unsure |-> f[x]]
           picks == {p \in [unsure -> UNION {cut[x] : x \in unsure}] :
                       \A x \in unsure : p[x] \in cut[x]}
           left(p) == [x \in DOMAIN cut |->
                     IF x \in unsure THEN p[x] ELSE CHOOSE v \in cut[x] : TRUE]
<1>1. \A x \in D : x \notin unsure => (CHOOSE v \in cut[x] : TRUE) = f[x]
  <2> SUFFICES ASSUME NEW x \in D, x \notin unsure
               PROVE  (CHOOSE v \in cut[x] : TRUE) = f[x]
    OBVIOUS
  <2>1. \A u, v \in cut[x] : u = v
    OBVIOUS
  <2>2. (CHOOSE v \in cut[x] : TRUE) \in cut[x]
    OBVIOUS
  <2>3. QED
    BY <2>1, <2>2
<1>2. left(g) = f
  BY <1>1
<1>3. g \in picks
  OBVIOUS
<1>4. Left(cut) = {left(p) : p \in picks}
  BY DEF Left
<1> HIDE DEF left, picks
<1>5. QED
  BY <1>2, <1>3, <1>4

(* A transaction all of whose blocks are on every mirror is read whole, now *)
(* and after any cut.                                                       *)
LEMMA SolidIsWhole ==
  ASSUME CommitAssumption, TypeOK, NEW t, Solid(t)
  PROVE  Whole(t) /\ SurelyWhole(t)
<1>1. PICK m \in Mirror : TRUE
  BY DEF CommitAssumption
<1>2. \A a \in Reaches(t) : blockCut[<<a, m>>] = {tree[t][a]}
  BY DEF Reaches, Solid
<1>3. \A a \in Reaches(t) : block[<<a, m>>] \in blockCut[<<a, m>>]
  BY DEF TypeOK, Reaches, Place
<1>4. QED
  BY <1>2, <1>3 DEF Whole, SurelyWhole

(* What survives a cut is what a reader then chooses, and all of it.        *)
LEMMA SurvivorsChosen ==
  ASSUME CommitAssumption, IInv
  PROVE  /\ \A s \in Outcomes : ChosenTx(s) = kept \/ InFlight(ChosenTx(s))
         /\ Survivors = {ChosenTx(s) : s \in Outcomes}
         /\ super \in Outcomes
         /\ Shown = ChosenTx(super)
<1> USE DEF IInv
<1>1. \A t : t = kept \/ InFlight(t) => Whole(t) /\ SurelyWhole(t)
  BY SolidIsWhole DEF InFlight, WorkSound
<1>2. \A s \in Outcomes : \A c \in Copy : s[c] \in superCut[c]
  BY CutPick DEF Outcomes
<1>3. \A s \in Outcomes : ChosenTx(s) = kept \/ InFlight(ChosenTx(s))
  BY <1>2, CopiesChoose
<1>4. Survivors = {ChosenTx(s) : s \in Outcomes}
  BY <1>1, <1>3 DEF Survivors
<1>5. \A c \in Copy : super[c] \in superCut[c]
  BY DEF TypeOK
<1>6. super \in Outcomes
  BY <1>5, PickIsLeft DEF Outcomes, TypeOK
<1>7. Shown = ChosenTx(super)
  BY <1>1, <1>3, <1>6 DEF Shown
<1>8. QED
  BY <1>3, <1>4, <1>6, <1>7

(* The view follows from the invariants.                                    *)
LEMMA ViewHolds ==
  ASSUME CommitAssumption, IInv, KeptSurvives
  PROVE  View
<1> USE DEF IInv
<1>1. \A s \in Outcomes : \A c \in Copy : s[c] \in superCut[c]
  BY CutPick DEF Outcomes
<1>2. /\ \A s \in Outcomes : ChosenTx(s) = kept \/ InFlight(ChosenTx(s))
      /\ Survivors = {ChosenTx(s) : s \in Outcomes}
      /\ super \in Outcomes
      /\ Shown = ChosenTx(super)
  BY SurvivorsChosen
<1>3. \A c \in Copy : super[c] \in superCut[c]
  BY DEF TypeOK
<1>4. ASSUME NEW h \in Handle, Out(h)
      PROVE  Shown = mine[h] /\ Survivors = {kept, mine[h]}
  <2>1. \A t : InFlight(t) <=> t = mine[h]
    BY <1>4 DEF Out, InFlight, OneCommit
  <2>2. mine[h] # kept /\ gen[mine[h]] = gen[kept] + 1 /\ gen[kept] \in Nat
    BY <1>4 DEF Out, WorkSound, UnderWay, TypeOK
  <2>3. Primary \in Copy /\ super[Primary].tx = mine[h]
    BY <1>4 DEF Out, CopiesOut, TypeOK, Copy, Primary, CommitAssumption
  <2>4. ChosenTx(super) = mine[h]
    <3>1. super[Primary].tx = ChosenTx(super) \/ gen[super[Primary].tx] < gen[ChosenTx(super)]
      BY <1>3, <2>3, CopiesChoose
    <3>2. ChosenTx(super) # kept
      BY <2>2, <2>3, <3>1
    <3>3. QED
      BY <1>2, <2>1, <3>2
  <2>5. \E s \in Outcomes : ChosenTx(s) = kept
    <3>1. PICK c0 \in Copy : \E s \in superCut[c0] : s.tx = kept
      BY <1>4 DEF Out, KeptSurvives
    <3> DEFINE old == [c \in Copy |->
              CHOOSE s \in superCut[c] : IF c = c0 THEN s.tx = kept ELSE s.tx # mine[h]]
    <3>2. \A c \in Copy : old[c] \in superCut[c] /\ old[c].tx # mine[h]
      BY <1>4, <2>2, <3>1 DEF Out, KeptSurvives
    <3>3. old \in Outcomes
      <4>1. DOMAIN superCut = Copy /\ old = [c \in Copy |-> old[c]]
        BY DEF TypeOK
      <4> HIDE DEF old
      <4>2. QED
        BY <3>2, <4>1, PickIsLeft DEF Outcomes
    <3>4. Chosen(old) \in Copy /\ ChosenTx(old) = old[Chosen(old)].tx
      <4> HIDE DEF old
      <4>1. QED
        BY <3>2, CopiesChoose DEF ChosenTx
    <3>5. ChosenTx(old) = kept
      <4> HIDE DEF old
      <4>1. QED
        BY <1>2, <2>1, <3>2, <3>3, <3>4
    <3>6. QED
      BY <3>3, <3>5
  <2>6. QED
    BY <1>2, <2>1, <2>4, <2>5
<1>5. ASSUME \A h \in Handle : ~ Out(h)
      PROVE  Shown = kept /\ Survivors = {kept}
  <2>1. \A s \in Outcomes : ~ InFlight(ChosenTx(s))
    <3> SUFFICES ASSUME NEW s \in Outcomes, NEW h \in Handle, state[h] = Supers
                 PROVE  ChosenTx(s) # mine[h]
      BY DEF InFlight
    <3>1. Chosen(s) \in Copy
      BY <1>1, CopiesChoose
    <3>2. s[Chosen(s)].tx # mine[h]
      BY <1>1, <1>5, <3>1 DEF Out, KeptSurvives
    <3>3. QED
      BY <3>2 DEF ChosenTx
  <2>2. \A s \in Outcomes : ChosenTx(s) = kept
    BY <1>2, <2>1
  <2>3. QED
    BY <1>2, <2>2
<1>6. QED
  BY <1>4, <1>5 DEF View

-----------------------------------------------------------------------------
\* The refinement.

(* Every step is one of the store's or leaves what it shows alone: the      *)
(* primary superblock copy publishes, the second flush settles, a power cut *)
(* cuts.                                                                    *)
LEMMA StoreStep ==
  ASSUME CommitAssumption, IInv, KeptSurvives, View, IInv', View', [Next]_vars
  PROVE  [Store!Next]_(Store!vars)
<1>1. ASSUME kept' = kept, \A h \in Handle : Out(h)' <=> Out(h),
             \A h \in Handle : Out(h) => mine'[h] = mine[h]
      PROVE  UNCHANGED Store!vars
  <2>1. CASE \E h \in Handle : Out(h)
    <3>1. PICK h \in Handle : Out(h)
      BY <2>1
    <3>2. Shown = mine[h] /\ Survivors = {kept, mine[h]}
      BY <3>1 DEF View
    <3>3. Out(h)'
      BY <1>1, <3>1
    <3>4. Shown' = mine'[h] /\ Survivors' = {kept', mine'[h]}
      BY <3>3 DEF View
    <3>5. QED
      BY <1>1, <3>1, <3>2, <3>4 DEF Store!vars
  <2>2. CASE \A h \in Handle : ~ Out(h)
    <3>1. Shown = kept /\ Survivors = {kept}
      BY <2>2 DEF View
    <3>2. \A h \in Handle : ~ Out(h)'
      BY <1>1, <2>2
    <3>3. Shown' = kept' /\ Survivors' = {kept'}
      BY <3>2 DEF View
    <3>4. QED
      BY <1>1, <3>1, <3>3 DEF Store!vars
  <2>3. QED
    BY <2>1, <2>2
<1>2. TypeOK /\ OneCommit
  BY DEF IInv
<1>3. ASSUME NEW h \in Handle, Mount(h) \/ Close(h) \/ Remount(h) PROVE UNCHANGED Store!vars
  <2>1. kept' = kept /\ mine' = mine /\ copy' = copy
    BY <1>3 DEF Mount, Close, Remount
  <2>2. \A g \in Handle : state'[g] = Supers <=> state[g] = Supers
    BY <1>2, <1>3 DEF Mount, Close, Remount, TypeOK
  <2>3. QED
    BY <1>1, <2>1, <2>2 DEF Out
<1>4. ASSUME NEW h \in Handle, Alone(h), Plan(h) PROVE UNCHANGED Store!vars
  <2>1. kept' = kept /\ \A g \in Handle : state[g] # Supers
    BY <1>4 DEF Plan, Alone
  <2>2. \A g \in Handle : state'[g] # Supers
    BY <1>2, <1>4, <2>1 DEF Plan, TypeOK
  <2>3. QED
    BY <1>1, <2>1, <2>2 DEF Out
<1>5. ASSUME NEW h \in Handle, MakeImages(h) PROVE UNCHANGED Store!vars
  <2>1. kept' = kept /\ mine' = mine /\ state[h] = Planned /\ state'[h] # Supers
    BY <1>2, <1>5 DEF MakeImages, TypeOK
  <2>2. \A g \in Handle \ {h} : state'[g] = state[g] /\ copy'[g] = copy[g]
    BY <1>2, <1>5 DEF MakeImages, TypeOK
  <2>3. QED
    BY <1>1, <2>1, <2>2 DEF Out
<1>6. ASSUME NEW h \in Handle, PutBlock(h) PROVE UNCHANGED Store!vars
  BY <1>1, <1>6 DEF PutBlock, Out
<1>7. ASSUME NEW h \in Handle, Barrier(h) PROVE UNCHANGED Store!vars
  <2>1. kept' = kept /\ mine' = mine /\ copy' = copy /\ copy[h] = Primary /\ state[h] = Blocks
    BY <1>7 DEF Barrier, IInv, CopiesOut
  <2>2. \A g \in Handle \ {h} : state'[g] = state[g]
    BY <1>2, <1>7 DEF Barrier, TypeOK
  <2>3. QED
    BY <1>1, <2>1, <2>2 DEF Out
<1>8. ASSUME NEW h \in Handle, PutSuper(h) PROVE Store!Publish \/ UNCHANGED Store!vars
  <2>1. /\ kept' = kept /\ mine' = mine /\ state' = state /\ state[h] = Supers
        /\ \A g \in Handle \ {h} : state[g] # Supers
    BY <1>2, <1>8 DEF PutSuper, OneCommit
  <2>2. Out(h)'
    BY <1>2, <1>8, <2>1 DEF PutSuper, TypeOK, Out, Primary, CommitAssumption
  <2>3. CASE Out(h)
    BY <1>1, <2>1, <2>2, <2>3 DEF Out
  <2>4. CASE ~ Out(h)
    <3>1. Shown = kept /\ Survivors = {kept}
      BY <2>1, <2>4 DEF View, Out
    <3>2. Shown' = mine[h] /\ Survivors' = {kept, mine[h]}
      BY <2>1, <2>2 DEF View
    <3>3. mine[h] \in Tx /\ mine[h] # kept
      BY <1>2, <2>1 DEF TypeOK, IInv, WorkSound, UnderWay
    <3>4. QED
      BY <3>1, <3>2, <3>3 DEF Store!Publish
  <2>5. QED
    BY <2>3, <2>4
<1>9. ASSUME NEW h \in Handle, CommitPoint(h) PROVE Store!Settle
  <2>1. /\ kept' = mine[h] /\ state[h] = Supers /\ copy[h] # Primary
        /\ \A g \in Handle : state'[g] # Supers
    BY <1>2, <1>9 DEF CommitPoint, TypeOK, OneCommit, Primary, CommitAssumption
  <2>2. Shown = mine[h] /\ Survivors = {kept, mine[h]}
    BY <2>1 DEF View, Out
  <2>3. Shown' = kept' /\ Survivors' = {kept'}
    BY <2>1 DEF View, Out
  <2>4. QED
    BY <2>1, <2>2, <2>3 DEF Store!Settle
<1>10. ASSUME PowerCut PROVE Store!Cut
  <2>1. PICK b \in Left(blockCut), s \in Left(superCut) : Leave(b, s)
    BY <1>10 DEF PowerCut
  <2>2. \A h \in Handle : state'[h] # Supers
    BY <2>1 DEF Leave
  <2>3. Shown' = kept' /\ Survivors' = {kept'}
    BY <2>2 DEF View, Out
  <2>4. kept' = ChosenTx(s)
    <3>1. \A c \in Copy : s[c] \in superCut[c]
      BY <1>2, CutPick
    <3>2. Readable(s)
      BY <3>1, CopiesChoose
    <3>3. QED
      BY <2>1, <3>2 DEF Leave
  <2>5. kept' \in Survivors
    BY <2>4, SurvivorsChosen DEF Outcomes
  <2>6. QED
    BY <2>3, <2>5 DEF Store!Cut
<1>11. CASE UNCHANGED vars
  BY <1>1, <1>11 DEF vars, handles, Out
<1>12. QED
  BY <1>3, <1>4, <1>5, <1>6, <1>7, <1>8, <1>9, <1>10, <1>11
     DEF Next, Call, CommitStep, Store!Next

(* The protocol, with its mirrors, superblock copies, caches and flushes, is*)
(* an atomic store: a reader sees one transaction at a time, a commit       *)
(* replaces it in one step, and a power cut shows one that was shown and not*)
(* yet superseded durably (commit.rs, "the ORDER it does that in is the     *)
(* crash-consistency").                                                     *)
THEOREM StoreImplemented == Spec => ImplementsStore
<1>1. Init => KeptSurvives
  BY DEF Init, KeptSurvives, Closed, Supers
<1>2. IInv /\ KeptSurvives /\ IInv' /\ [Next]_vars => KeptSurvives'
  BY KeptInductive, CommitAssumption
<1>3. IInv /\ KeptSurvives => View
  BY ViewHolds, CommitAssumption
<1>4. Init /\ View /\ IInv => Store!Init
  <2> SUFFICES ASSUME Init, View, IInv PROVE Store!Init
    OBVIOUS
  <2>1. \A h \in Handle : ~ Out(h)
    BY DEF Init, Out
  <2>2. Shown = kept /\ Survivors = {kept} /\ kept \in Tx
    BY <2>1 DEF View, IInv, TypeOK
  <2>3. QED
    BY <2>2 DEF Store!Init
<1>5. IInv /\ KeptSurvives /\ View /\ IInv' /\ View' /\ [Next]_vars
        => [Store!Next]_(Store!vars)
  BY StoreStep, CommitAssumption
<1>6. QED
  BY <1>1, <1>2, <1>3, <1>4, <1>5, Invariant, PTL DEF Spec, ImplementsStore, Store!Spec

=============================================================================
