---------------------------- MODULE AtomicStore ----------------------------
(***************************************************************************)
(* What the commit protocol promises a reader, with no device in it: the   *)
(* volume shows one transaction at a time, a commit replaces the one shown *)
(* by its child in one step, and a power cut shows a transaction that was  *)
(* shown before the cut and not yet superseded durably.  Commit.tla        *)
(* implements it with tree blocks, superblock copies and two flushes.      *)
(***************************************************************************)
CONSTANT Tx                 \* transactions
VARIABLES shown,            \* the transaction a mount opened now would read
          survivors         \* those a mount after a power cut now may read

vars == <<shown, survivors>>

Init == \E t \in Tx : shown = t /\ survivors = {t}

\* A new transaction is issued: it is what readers see, not yet what they keep.
\* Nothing else is in doubt when it is.
Publish == \E t \in Tx : /\ survivors = {shown}
                         /\ t # shown
                         /\ shown' = t
                         /\ survivors' = survivors \cup {t}

\* The device has been flushed: only what is shown can survive.
Settle == /\ shown \in survivors
          /\ survivors' = {shown}
          /\ UNCHANGED shown

\* Power is lost: one of the survivors is all there is.
Cut == \E t \in survivors : shown' = t /\ survivors' = {t}

Next == Publish \/ Settle \/ Cut

Spec == Init /\ [][Next]_vars
=============================================================================
