----------------------------- MODULE Subvolumes -----------------------------
(***************************************************************************)
(* What the subvolumes of a volume promise whoever uses them: each holds   *)
(* a file of its own, an operation on one changes that one alone, and a    *)
(* snapshot starts out holding what its source held.  There are no blocks  *)
(* here, no references and no extents: Trees is shown to implement this.   *)
(***************************************************************************)
EXTENDS Integers

CONSTANTS
  Tree,       \* the ids a subvolume may have
  Sectors,    \* how many sectors the file may span
  Value       \* what a sector may hold; 0 is a hole's zeros

VARIABLE file \* each subvolume's file, by sector, or Absent

Sector == 1 .. Sectors
Absent == [s \in {} |-> 0]
Contents == [Sector -> Value]

TypeOK == file \in [Tree -> Contents \cup {Absent}]

Init == file \in [Tree -> Contents \cup {Absent}]

\* What may become of a file: sectors lo up to hi of it take the value v, the
\* hole's 0 among them; n sectors from `src` are cloned to `dst`; or it goes
\* with its subvolume.
Written(old, lo, hi, v) == [s \in Sector |-> IF lo <= s /\ s < hi THEN v ELSE old[s]]
Copied(old, src, dst, n) ==
  [s \in Sector |-> IF dst <= s /\ s < dst + n THEN old[s - dst + src] ELSE old[s]]

Outcomes(old) ==
  {Absent}
    \cup {Written(old, lo, hi, v) : lo \in Sector, hi \in 2 .. Sectors + 1, v \in Value}
    \cup {Copied(old, r[1], r[2], r[3]) : r \in
           {x \in Sector \X Sector \X Sector : x[1] + x[3] <= Sectors + 1
                                              /\ x[2] + x[3] <= Sectors + 1}}

\* Subvolume t changes and no other does.
Change(t) ==
  /\ file[t] # Absent
  /\ file' \in {[file EXCEPT ![t] = new] : new \in Outcomes(file[t])}

\* `new` starts out as `source` stands.
Snapshot(source, new) ==
  /\ file[source] # Absent
  /\ file[new] = Absent
  /\ file' = [file EXCEPT ![new] = file[source]]

Next ==
  \/ \E t \in Tree : Change(t)
  \/ \E source, new \in Tree : Snapshot(source, new)

Spec == Init /\ [][Next]_file

=============================================================================
