------------------------------- MODULE Backrefs -------------------------------
(***************************************************************************)
(* The trees of a volume's subvolumes, the data extents their leaves name, *)
(* and the extent tree's records of both, with every reference each record *)
(* lists.  A snapshot shares its source's blocks, so a block or an extent  *)
(* may be reached along several paths; which references that calls for is  *)
(* the rule stated here, and Trees models the transactions that keep it.   *)
(*                                                                         *)
(* Left out: the trees that are not subvolumes' (the root, extent, free    *)
(* space and checksum trees close over themselves, plan_transaction_closed *)
(* _with), where in a record or beside it a reference is filed, and keys   *)
(* other than those of one file's inode and extents.                       *)
(***************************************************************************)
EXTENDS Integers, Sequences, FiniteSets, Bags, FiniteSetsExt, SequencesExt

CONSTANTS
  Tree,       \* the subvolume ids there is room for, in order
  Top,        \* FS_TREE: the top-level subvolume
  Addr,       \* the addresses a tree block can have
  Extent,     \* the data extents there is room for
  Sectors,    \* how many sectors a file may span
  LeafMax,    \* items a leaf holds
  NodeMax     \* key pointers a node holds

ASSUME BackrefsAssumption ==
  /\ Tree \subseteq Nat \ {0} /\ IsFiniteSet(Tree)
  /\ Top \in Tree /\ \A t \in Tree : Top <= t
  /\ Addr \subseteq Nat \ {0} /\ IsFiniteSet(Addr)
  /\ Extent \subseteq Nat \ {0} /\ IsFiniteSet(Extent)
  /\ Sectors \in Nat \ {0}
  /\ LeafMax \in Nat \ {0, 1} /\ NodeMax \in Nat \ {0, 1}

VARIABLES
  block,      \* what is at each address: its owner, a node's kids or a leaf's items
  blockRec,   \* each block's METADATA_ITEM
  extent,     \* what each data extent holds, sector by sector
  dataRec,    \* each data extent's EXTENT_ITEM
  root,       \* each subvolume's ROOT_ITEM: its root block, 0 for none
  last,       \* and the last_snapshot field of it
  dead        \* the subvolumes deleted and not yet cleaned up

treeVars == <<block, blockRec, extent, dataRec, root, last, dead>>

Empty == [k \in {} |-> 0]
Unowned == [owner |-> 0, kids |-> <<>>, items |-> Empty]
NoRecord == [refs |-> 0]

\* The file's items are keyed as the fs tree keys them: 0 for its INODE_ITEM,
\* s for the EXTENT_DATA item of the part that begins at sector s.
Inode == [ext |-> 0, off |-> 0, len |-> 0]
Sector == 1 .. Sectors

-----------------------------------------------------------------------------
(* Trees                                                                     *)

Leaf(a) == block[a].kids = <<>>
Kids(a) == ToSet(block[a].kids)

\* A block and everything it leads to.  Trees grow to four levels at most.
Down(as) == as \cup UNION {Kids(a) : a \in as}
Under(a) == Down(Down(Down({a})))

Live == {t \in Tree : root[t] # 0}
Blocks(t) == IF root[t] = 0 THEN {} ELSE Under(root[t])
Leaves(t) == {a \in Blocks(t) : Leaf(a)}
Reached == UNION {Blocks(t) : t \in Tree}

\* The blocks a descent in tree t goes through to reach `a`.
Path(t, a) == {b \in Blocks(t) : a \in Under(b)}
Parent(t, a) == CHOOSE b \in Blocks(t) : a \in Kids(b)

\* The leaf a descent for `key` reaches: the last that does not begin past it.
FirstKey(l) == Min(DOMAIN block[l].items)
LeafFor(t, key) ==
  LET first == [l \in Leaves(t) |-> FirstKey(l)]
  IN  CHOOSE l \in DOMAIN first :
        /\ first[l] <= key
        /\ \A m \in DOMAIN first : first[m] <= key => first[m] <= first[l]

\* The file's extent items in tree t, by key.
File(t) ==
  LET leaves == Leaves(t)
      holding == UNION {DOMAIN block[l].items : l \in leaves}
  IN  [k \in holding \ {0} |->
        block[CHOOSE l \in leaves : k \in DOMAIN block[l].items].items[k]]

\* Of a file's items, those that meet sectors lo up to hi; and what reading
\* sector s of it gives: a hole reads as zeros.
Meeting(f, lo, hi) == {k \in DOMAIN f : k < hi /\ lo < k + f[k].len}
Holder(f, s) == Meeting(f, s, s + 1)
Read(f, s) ==
  IF Holder(f, s) = {} THEN 0
  ELSE LET k == CHOOSE k \in Holder(f, s) : TRUE
       IN  extent[f[k].ext][f[k].off + s - k + 1]

\* Whether something other than tree t may reach the leaf of `key`.
LeafShared(t, key) ==
  LET l == LeafFor(t, key)
  IN  \E b \in Path(t, l) : blockRec[b].refs > 1

\* The members of a set of numbers in order.
Sorted(S) ==
  [i \in 1 .. Cardinality(S) |-> CHOOSE x \in S : Cardinality({y \in S : y < x}) = i - 1]

-----------------------------------------------------------------------------
(* References.  A data reference names where in the file the extent's first  *)
(* byte would sit: the item's key less how far into the extent it starts.    *)

RefOffset(key, item) == key - item.off

\* The items that name extent e, and the keyed references tree t holds by
\* them, each as often as an item makes it.
Naming(items, e) == {k \in DOMAIN items : items[k].ext = e}
DataRefs(t, items, e) ==
  LET offsets == {RefOffset(k, items[k]) : k \in Naming(items, e)}
  IN  [r \in {<<t, o>> : o \in offsets} |->
        Cardinality({k \in Naming(items, e) : RefOffset(k, items[k]) = r[2]})]

\* The sum of the bags f(x), for x in a set.
BagSum(f(_), S) == FoldSet(LAMBDA x, b : f(x) (+) b, EmptyBag, S)

\* The references of block c.  A root is held by its tree; a parent refers
\* to it by its own address when it is flagged FULL_BACKREF, and otherwise
\* by the tree that owns the parent.
ParentsOf(c) == {b \in Reached : c \in Kids(b)}
BlockRule(c, full) ==
  [keyed  |-> {t \in Live : root[t] = c}
                \cup {block[b].owner : b \in ParentsOf(c) \ full},
   shared |-> ParentsOf(c) \cap full,
   full   |-> c \in full,
   refs   |-> Cardinality({t \in Live : root[t] = c}) + Cardinality(ParentsOf(c))]

\* The references of data extent e, by the same rule over the leaves.
DataRule(e, full) ==
  LET leaves == {l \in Reached : Leaf(l) /\ Naming(block[l].items, e) # {}}
      keyed == BagSum(LAMBDA l : DataRefs(block[l].owner, block[l].items, e),
                      leaves \ full)
      shared == [l \in leaves \cap full |-> Cardinality(Naming(block[l].items, e))]
  IN  [keyed  |-> keyed,
       shared |-> shared,
       refs   |-> BagCardinality(keyed) + BagCardinality(shared)]

Named == UNION {{block[l].items[k].ext : k \in DOMAIN block[l].items}
                  : l \in {a \in Reached : Leaf(a)}} \ {0}

Full == {a \in Addr : blockRec[a] # NoRecord /\ blockRec[a].full}

\* Every record says exactly what the trees say, and there is one for
\* everything a tree reaches and for nothing else.
BlocksExact ==
  \A a \in Addr :
    blockRec[a] = IF a \in Reached THEN BlockRule(a, Full) ELSE NoRecord
DataExact ==
  \A e \in Extent :
    IF e \in Named
    THEN /\ dataRec[e] # NoRecord
         /\ DataRule(e, Full) = [keyed  |-> dataRec[e].keyed,
                                 shared |-> dataRec[e].shared,
                                 refs   |-> dataRec[e].refs]
    ELSE dataRec[e] = NoRecord

=============================================================================
