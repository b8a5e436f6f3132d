---------------------------------- MODULE Raid ----------------------------------
(***************************************************************************)
(* One chunk of a redundant profile on its devices: how a logical unit is  *)
(* mapped to its copies or to an element of a full stripe, read, rebuilt   *)
(* and written, read with members of the pool missing, scrubbed and        *)
(* repaired.                                                               *)
(*                                                                         *)
(* A unit is a sector, a tree block and a stripe element at once, and its  *)
(* contents one value of the field the parity arithmetic is that of, given *)
(* by its sums and the powers of its generator.  A digest is right exactly *)
(* when the unit holds what was last written and committed there.  A call  *)
(* holds the handle alone, so it is one step, and a power cut during it    *)
(* leaves any of its writes: none of them is flushed before the last.      *)
(***************************************************************************)
EXTENDS Integers, FiniteSets

CONSTANTS
  Order,      \* how many values of the field are not zero: 255 in the code
  Exp,        \* the powers of the generator, which are all of those
  Plus(_, _), \* the sum of two values: exclusive or in the code
  Layouts,    \* the chunks to start from
  Contents,   \* bound: what each call would write to each unit
  Deltas,     \* what damage changes a value by
  Unreadable, \* whether damage may also make a unit unreadable
  MaxCalls,   \* bound: how many calls are made at most
  MaxFaults   \* bound: how many units are damaged at most

ASSUME RaidAssumption ==
  /\ Deltas \subseteq 1 .. Order /\ Unreadable \in BOOLEAN
  /\ MaxCalls \in Nat /\ MaxFaults \in Nat

VARIABLES
  layout,     \* the chunk: its profile, stripes, sub-stripes and units
  disk,       \* what each stripe holds in each row
  held,       \* the extents the committed trees record
  wrote,      \* what was last committed to each unit
  harm,       \* history: which stripes of each row damage or a cut has touched
  calls, faults,
  outcome     \* what the last call came to

vars == <<layout, disk, held, wrote, harm, calls, faults, outcome>>

Value == 0 .. Order
None == -1      \* what cannot be read

-----------------------------------------------------------------------------
(* The field                                                                 *)

PowG(e) == Exp[e % Order]
Log(a) == CHOOSE e \in 0 .. Order - 1 : Exp[e] = a
Mul(a, b) == IF a = 0 \/ b = 0 THEN 0 ELSE PowG(Log(a) + Log(b))
Inv(a) == PowG(Order - Log(a))

\* The tables are those of a field in which every value is its own opposite.
ASSUME FieldAssumption ==
  /\ Order \in Nat \ {0} /\ Exp \in [0 .. Order - 1 -> 1 .. Order]
  /\ \A e, f \in 0 .. Order - 1 : Exp[e] = Exp[f] => e = f
  /\ \A a \in 1 .. Order : \E e \in 0 .. Order - 1 : Exp[e] = a
  /\ \A a, b \in Value : Plus(a, b) \in Value
  /\ \A a, b, c \in Value : /\ Plus(a, 0) = a /\ Plus(a, a) = 0 /\ Plus(a, b) = Plus(b, a)
                            /\ Plus(Plus(a, b), c) = Plus(a, Plus(b, c))
                            /\ Mul(a, Plus(b, c)) = Plus(Mul(a, b), Mul(a, c))

\* The units of a row of a chunk.
Columns(c) ==
  CASE c.profile = "raid5" -> c.n - 1
    [] c.profile = "raid6" -> c.n - 2
    [] c.profile = "raid10" -> c.n \div c.sub
    [] OTHER -> 1

\* A chunk has whole rows, data in each and no more of it than the generator
\* has powers; its extents lie apart in it, a tree block being one unit.
ASSUME LayoutsAssumption == \A l \in Layouts :
  LET c == l.layout
      unit == 0 .. c.units - 1
      span(e) == e.at .. e.at + e.len - 1
  IN  /\ c \in [profile : {"raid1", "raid10", "raid5", "raid6"}, n : Nat \ {0},
                sub : Nat \ {0}, units : Nat \ {0}]
      /\ c.profile = "raid10" => c.n % c.sub = 0
      /\ c.profile \in {"raid5", "raid6"} => Columns(c) \in 1 .. Order
      /\ c.units % Columns(c) = 0
      /\ \A e \in l.held : /\ e.at \in unit /\ e.len \in Nat \ {0} /\ span(e) \subseteq unit
                           /\ e.kind \in {"tree", "data", "nosum"}
                           /\ e.kind = "tree" => e.len = 1
      /\ \A e, f \in l.held : e # f => span(e) \cap span(f) = {}
      /\ l.wrote \in [unit -> Value]
      /\ \A k \in 0 .. MaxCalls - 1, u \in unit : Contents[k][u] \in Value

-----------------------------------------------------------------------------
(* Where things are                                                          *)

Stripe == 0 .. layout.n - 1
IsParity == layout.profile \in {"raid5", "raid6"}
ParityCount == IF layout.profile = "raid6" THEN 2 ELSE 1
DataCount == layout.n - ParityCount     \* data elements of a full stripe
Units == 0 .. layout.units - 1

\* The first k of these values added up, but for those at some indices.
SumOf(k, val, but) ==
  LET sum[i \in 0 .. k] ==
        IF i = 0 THEN 0
        ELSE IF i - 1 \in but THEN sum[i - 1] ELSE Plus(sum[i - 1], val[i - 1])
  IN  sum[k]

Mirrors == CASE IsParity -> 1 [] layout.profile = "raid10" -> layout.sub [] OTHER -> layout.n

\* The ways a unit can be read: its copies, or the one copy and the rebuilds.
Attempts ==
  CASE layout.profile = "raid5" -> 2
    [] layout.profile = "raid6" -> 3 + DataCount - 1
    [] OTHER -> Mirrors

\* Parity rotates by one stripe with each full stripe.
Placement(full) ==
  LET at(i) == (i + full) % layout.n
  IN  [data |-> [i \in 0 .. DataCount - 1 |-> at(i)], p |-> at(DataCount),
       q |-> IF layout.profile = "raid6" THEN {at(DataCount + 1)} ELSE {}]

Full(u) == u \div DataCount

MapMirror(u, m) ==
  CASE IsParity -> <<Placement(Full(u)).data[u % DataCount], Full(u)>>
    [] layout.profile = "raid10" ->
         LET groups == layout.n \div layout.sub
         IN  <<(u % groups) * layout.sub + m, u \div groups>>
    [] OTHER -> <<m, u>>

Row(u) == MapMirror(u, 0)[2]
Rows == {Row(u) : u \in Units}

\* Everything a rebuild of a unit reads.
ParityRead(full) ==
  LET place == Placement(full)
  IN  [data |-> [i \in DOMAIN place.data |-> <<place.data[i], full>>],
       p |-> <<place.p, full>>, q |-> {<<i, full>> : i \in place.q}]

-----------------------------------------------------------------------------
(* Parity, and what is computed again from it                                *)

Scaled(data) == [i \in DOMAIN data |-> Mul(PowG(i), data[i])]

\* Mutant: each data element counts the same in Q as in P.
ParityQOfP(data) ==
  LET P == SumOf(DataCount, data, {}) IN [p |-> P, q |-> P]

Parity(data) == [p |-> SumOf(DataCount, data, {}), q |-> SumOf(DataCount, Scaled(data), {})]

RebuildP(want, data, p) == Plus(p, SumOf(DataCount, data, {want}))

RebuildQ(want, data, q) ==
  Mul(Plus(q, SumOf(DataCount, Scaled(data), {want})), Inv(PowG(want)))

\* With data element other lost as well.
RebuildPQ(want, other, data, p, q) ==
  LET pxy == Plus(p, SumOf(DataCount, data, {want, other}))
      qxy == Plus(q, SumOf(DataCount, Scaled(data), {want, other}))
      scale == Inv(Plus(PowG(want), PowG(other)))
  IN  Mul(Plus(Mul(PowG(other), pxy), qxy), scale)

\* The data elements but for one, in order: attempt 3 loses the first of them.
Other(want, attempt) == IF attempt - 3 < want THEN attempt - 3 ELSE attempt - 2

-----------------------------------------------------------------------------
(* Reading, from the stripes present                                         *)

Element(d, present, at) == IF at[1] \in present THEN d[at] ELSE None

\* Attempt 1 onwards of a parity chunk; None when an element it needs is not
\* to be read.
ReadRebuilt(d, present, plan, want, attempt) ==
  LET lost == {want} \cup IF attempt >= 3 THEN {Other(want, attempt)} ELSE {}
      data == [i \in DOMAIN plan.data |->
                 IF i \in lost THEN None ELSE Element(d, present, plan.data[i])]
      p == Element(d, present, plan.p)
      q == IF plan.q = {} THEN None ELSE Element(d, present, CHOOSE at \in plan.q : TRUE)
  IN  IF \/ \E i \in DOMAIN data \ lost : data[i] = None
         \/ attempt # 2 /\ p = None
         \/ attempt >= 2 /\ q = None
      THEN None
      ELSE CASE attempt = 1 -> RebuildP(want, data, p)
             [] attempt = 2 -> RebuildQ(want, data, q)
             [] OTHER -> RebuildPQ(want, Other(want, attempt), data, p, q)

ReadOther(d, present, u, attempt) ==
  IF IsParity THEN ReadRebuilt(d, present, ParityRead(Full(u)), u % DataCount, attempt)
              ELSE Element(d, present, MapMirror(u, attempt))

\* The first attempt of a lost element is whichever other can be read.
ReadCopy(d, present, u, attempt) ==
  IF attempt > 0 THEN ReadOther(d, present, u, attempt)
  ELSE IF MapMirror(u, 0)[1] \in present THEN Element(d, present, MapMirror(u, 0))
  ELSE LET ways == {a \in 1 .. Attempts - 1 : ReadOther(d, present, u, a) # None}
       IN  IF ways = {} THEN None
           ELSE ReadOther(d, present, u, CHOOSE a \in ways : \A b \in ways : a <= b)

Span(e) == e.at .. e.at + e.len - 1
HeldUnits == UNION {Span(e) : e \in held}
Kind(u) == (CHOOSE e \in held : u \in Span(e)).kind
Covered(u) == Kind(u) \in {"tree", "data"}

Verifies(u, v) == Covered(u) /\ v = wrote[u]

\* A tree block: the first attempt that parses.
ReadTree(d, present, u) ==
  IF \E a \in 0 .. Attempts - 1 : Verifies(u, ReadCopy(d, present, u, a))
  THEN wrote[u] ELSE None

\* A sector of a file: a first read that fails ends it, one that does not
\* verify is followed by the other attempts.
ReadData(d, present, u) ==
  LET first == ReadCopy(d, present, u, 0)
  IN  IF first = None \/ ~Covered(u) THEN first ELSE ReadTree(d, present, u)

ReadBack(d, present, u) ==
  IF Kind(u) = "tree" THEN ReadTree(d, present, u) ELSE ReadData(d, present, u)

\* Whether a degraded mount without these stripes' devices is accepted.
Survives(missing) ==
  CASE missing = {} -> TRUE
    [] layout.profile = "raid5" -> Cardinality(missing) <= 1
    [] layout.profile = "raid6" -> Cardinality(missing) <= 2
    [] layout.profile = "raid10" ->
         \A g \in 0 .. layout.n \div layout.sub - 1 :
           \E m \in 0 .. layout.sub - 1 : g * layout.sub + m \notin missing
    [] OTHER -> Stripe \ missing # {}

-----------------------------------------------------------------------------
(* Writing                                                                   *)

\* A full stripe read, the new units put in, and its changed elements and
\* parity written.
StripeWrites(full, new) ==
  LET plan == ParityRead(full)
      touched == {i \in DOMAIN plan.data : full * DataCount + i \in DOMAIN new}
      data == [i \in DOMAIN plan.data |->
                 IF i \in touched THEN new[full * DataCount + i] ELSE disk[plan.data[i]]]
      parity == Parity(data)
  IN  [at \in {plan.data[i] : i \in touched} \cup {plan.p} \cup plan.q |->
         IF at = plan.p THEN parity.p
         ELSE IF at \in plan.q THEN parity.q
         ELSE data[CHOOSE i \in touched : plan.data[i] = at]]

\* Writes that do not meet, together.
AllOf(each) == [at \in UNION {DOMAIN w : w \in each} |-> (CHOOSE w \in each : at \in DOMAIN w)[at]]

CopyWrites(new) ==
  [at \in {MapMirror(u, m) : u \in DOMAIN new, m \in 0 .. Mirrors - 1} |->
     new[CHOOSE u \in DOMAIN new : \E m \in 0 .. Mirrors - 1 : MapMirror(u, m) = at]]

StripeReadable(full) ==
  \A i \in 0 .. DataCount - 1 : disk[ParityRead(full).data[i]] # None

\* The full stripes a write gets to, in order, before one it cannot read.
Reached(new) ==
  LET fulls == {Full(u) : u \in DOMAIN new}
  IN  {f \in fulls : \A g \in fulls : g <= f => StripeReadable(g)}

Writes(new) ==
  IF ~IsParity THEN CopyWrites(new)
  ELSE AllOf({StripeWrites(f, new) : f \in Reached(new)})

Finishes(new) == ~IsParity \/ Reached(new) = {Full(u) : u \in DOMAIN new}

Written(d, w, kept) == [at \in DOMAIN d |-> IF at \in DOMAIN w \cap kept THEN w[at] ELSE d[at]]

\* What a full stripe written over leaves harmed: everything, when a damaged
\* element holding what is still wanted went into its parity.
HarmAfter(full, new) ==
  LET neighbours == {u \in HeldUnits \ DOMAIN new : Full(u) = full /\ Covered(u)}
  IN  IF \E u \in neighbours : MapMirror(u, 0)[1] \in harm[full] THEN Stripe ELSE {}

ParityStripes(full) == {Placement(full).p} \cup Placement(full).q

-----------------------------------------------------------------------------
(* Scrub                                                                     *)

Error(u, m, what, repairable) ==
  [unit |-> u, mirror |-> m, what |-> what, repairable |-> repairable]

\* A way past the copies that verifies.
Rebuilt(d, u) ==
  \E a \in Mirrors .. Attempts - 1 : Verifies(u, ReadCopy(d, Stripe, u, a))

TreeErrors(d, u) ==
  LET bad == {m \in 0 .. Mirrors - 1 : ReadCopy(d, Stripe, u, m) # wrote[u]}
  IN  {Error(u, m, "tree", Cardinality(bad) < Mirrors \/ Rebuilt(d, u)) : m \in bad}

\* A copy of an extent that cannot be read through is bad in every sector.
DataErrors(d, e) ==
  LET unread(m) == \E u \in Span(e) : ReadCopy(d, Stripe, u, m) = None
      bad(u) == {m \in 0 .. Mirrors - 1 :
                   \/ unread(m)
                   \/ Covered(u) /\ ReadCopy(d, Stripe, u, m) # wrote[u]}
  IN  UNION {{Error(u, m, "data", Cardinality(bad(u)) < Mirrors \/ Rebuilt(d, u)) :
              m \in bad(u)} : u \in Span(e)}

CopyErrors(d) ==
  UNION {IF e.kind = "tree" THEN TreeErrors(d, e.at) ELSE DataErrors(d, e) : e \in held}

\* The parity elements of a full stripe that are not what its data computes
\* to, as what they should be.
ParityMismatches(d, full) ==
  LET plan == ParityRead(full)
      data == [i \in DOMAIN plan.data |-> d[plan.data[i]]]
      parity == Parity(data)
      due(at) == IF at = plan.p THEN parity.p ELSE parity.q
  IN  IF \/ \E i \in DOMAIN data : data[i] = None
         \/ ~\E u \in HeldUnits : Full(u) = full
      THEN <<>>
      ELSE [at \in {at \in {plan.p} \cup plan.q : d[at] # due(at)} |-> due(at)]

\* Mutant: Q is not compared.
ParityErrorsOfP(d, found) ==
  {Error(full * DataCount, 0, "parity", TRUE) :
     full \in {f \in Rows : /\ ~\E e \in found : Full(e.unit) = f
                            /\ ParityRead(f).p \in DOMAIN ParityMismatches(d, f)}}

\* A full stripe whose data is damaged is left to the data's own report.
ParityErrors(d, found) ==
  UNION {{Error(full * DataCount, IF at = ParityRead(full).p THEN 0 ELSE 1, "parity", TRUE) :
            at \in DOMAIN ParityMismatches(d, full)} :
         full \in {f \in Rows : ~\E e \in found : Full(e.unit) = f}}

Errors(d) == CopyErrors(d) \cup (IF IsParity THEN ParityErrors(d, CopyErrors(d)) ELSE {})

-----------------------------------------------------------------------------
(* Repair                                                                    *)

Precedes(e, f) ==
  \/ e.unit < f.unit
  \/ e.unit = f.unit /\ e.mirror < f.mirror

\* Of the copies found bad, those reported as having one to take their place.
Repairable(found) == {e \in found : e.repairable}
Unrepairable(found) == found \ Repairable(found)

\* The first for which no copy verifies after all ends the call.
Stuck(found) == {e \in Repairable(found) : ~Covered(e.unit)}
Repaired(found) == {e \in Repairable(found) : \A f \in Stuck(found) : Precedes(e, f)}

CopyRepairs(repaired) ==
  [at \in {MapMirror(e.unit, e.mirror) : e \in repaired} |->
     wrote[(CHOOSE e \in repaired : MapMirror(e.unit, e.mirror) = at).unit]]

\* Parity is computed again where it was bad or data was repaired, but not
\* from data nothing verifies.
Restriped(found) ==
  {f \in Rows : /\ \E e \in ParityErrors(disk, found) \cup Repaired(found) : Full(e.unit) = f
                /\ ~\E e \in Unrepairable(found) : Full(e.unit) = f}

\* Mutant: computed from the data as it was.
ParityRepairsEarly(d, found) == AllOf({ParityMismatches(disk, f) : f \in Restriped(found)})

ParityRepairs(d, found) == AllOf({ParityMismatches(d, f) : f \in Restriped(found)})

\* Copies are repaired first, parity computed from what they leave.
AllRepairs(found, copies) ==
  IF Stuck(found) = {} /\ IsParity
  THEN AllOf({copies, ParityRepairs(Written(disk, copies, DOMAIN copies), found)}) ELSE copies

-----------------------------------------------------------------------------
(* Actions                                                                   *)

\* What a place of the chunk holds when the units hold x.
Image(x, at) ==
  IF ~IsParity THEN x[CHOOSE u \in Units : \E m \in 0 .. Mirrors - 1 : MapMirror(u, m) = at]
  ELSE LET place == Placement(at[2])
           data == [i \in DOMAIN place.data |-> x[at[2] * DataCount + i]]
       IN  IF at[1] = place.p THEN Parity(data).p
           ELSE IF at[1] \in place.q THEN Parity(data).q
           ELSE data[CHOOSE i \in DOMAIN data : place.data[i] = at[1]]

\* A chunk whose extents read what was written, its parity in agreement.
Init ==
  \E l \in Layouts :
    /\ layout = l.layout /\ held = l.held /\ wrote = l.wrote
    /\ disk = [at \in Stripe \X Rows |-> Image(l.wrote, at)]
    /\ harm = [r \in Rows |-> {}]
    /\ calls = 0 /\ faults = 0 /\ outcome = "mounted"

Called == calls < MaxCalls /\ calls' = calls + 1 /\ UNCHANGED <<layout, faults>>

\* New units written to free space and committed.
Write(at, len, kind) ==
  LET span == at .. at + len - 1
      new == [u \in span |-> Contents[calls][u]]
      w == Writes(new)
  IN  /\ Called
      /\ span \subseteq Units \ HeldUnits
      /\ \/ /\ Finishes(new) /\ outcome' = "wrote"
            /\ disk' = Written(disk, w, DOMAIN w)
            /\ held' = held \cup {[at |-> at, len |-> len, kind |-> kind]}
            /\ wrote' = [u \in Units |-> IF u \in span THEN new[u] ELSE wrote[u]]
            /\ harm' = [r \in Rows |->
                 IF ~IsParity THEN harm[r] \ {p[1] : p \in {p \in DOMAIN w : p[2] = r}}
                 ELSE IF \E u \in span : Full(u) = r THEN HarmAfter(r, new) ELSE harm[r]]
         \/ \E kept \in SUBSET DOMAIN w :
              /\ outcome' = "cut" /\ UNCHANGED <<held, wrote>>
              /\ disk' = Written(disk, w, kept)
              /\ harm' = [r \in Rows |->
                   IF IsParity /\ \E u \in span : Full(u) = r
                   THEN harm[r] \cup ParityStripes(r) ELSE harm[r]]

\* An extent's last reference dropped.
Release(e) ==
  /\ Called /\ e \in held /\ held' = held \ {e} /\ outcome' = "released"
  /\ UNCHANGED <<disk, wrote, harm>>

\* A repair that does not finish wrote some of it.
ScrubWrites(w, found) ==
  \/ /\ Stuck(found) = {} /\ outcome' = "repaired"
     /\ disk' = Written(disk, w, DOMAIN w)
     /\ harm' = [r \in Rows |->
          IF \/ ~\E u \in HeldUnits : Row(u) = r
             \/ \E e \in Unrepairable(found) : Row(e.unit) = r
             \/ \E s \in Stripe : disk'[<<s, r>>] = None
          THEN harm[r] ELSE {}]
  \/ \E kept \in SUBSET DOMAIN w :
       /\ outcome' = IF Stuck(found) # {} /\ kept = DOMAIN w THEN "failed" ELSE "repair cut"
       /\ disk' = Written(disk, w, kept)
       /\ harm' = [r \in Rows |->
            IF IsParity THEN harm[r] \cup {s \in ParityStripes(r) : <<s, r>> \in kept}
            ELSE harm[r]]

ScrubFound(found) == ScrubWrites(AllRepairs(found, CopyRepairs(Repaired(found))), found)

ScrubRepair == Called /\ UNCHANGED <<held, wrote>> /\ ScrubFound(CopyErrors(disk))

Damage(at, to) ==
  /\ faults < MaxFaults /\ faults' = faults + 1
  /\ disk' = [disk EXCEPT ![at] = to]
  /\ harm' = [harm EXCEPT ![at[2]] = @ \cup {at[1]}]
  /\ outcome' = "damaged"
  /\ UNCHANGED <<layout, held, wrote, calls>>

Decay(at) ==
  /\ disk[at] # None
  /\ \E by \in Deltas : Damage(at, Plus(disk[at], by))

Fail(at) == Unreadable /\ disk[at] # None /\ Damage(at, None)

Next ==
  \/ \E at \in Units, len \in 1 .. 2, kind \in {"tree", "data", "nosum"} :
       (kind = "tree" => len = 1) /\ Write(at, len, kind)
  \/ \E e \in held : Release(e)
  \/ ScrubRepair
  \/ \E at \in DOMAIN disk : Decay(at) \/ Fail(at)

-----------------------------------------------------------------------------
(* Properties                                                                *)

\* The chunk's units are mapped to distinct places of its stripes, which hold
\* values, and extents do not overlap.
TypeOK ==
  /\ disk \in [Stripe \X Rows -> Value \cup {None}]
  /\ wrote \in [Units -> Value] /\ harm \in [Rows -> SUBSET Stripe]
  /\ \A e, f \in held : e # f => Span(e) \cap Span(f) = {}
  /\ \A u \in Units, v \in Units, m \in 0 .. Mirrors - 1, k \in 0 .. Mirrors - 1 :
       <<u, m>> # <<v, k>> => MapMirror(u, m) # MapMirror(v, k)
  /\ calls \in 0 .. MaxCalls /\ faults \in 0 .. MaxFaults
  /\ outcome \in {"mounted", "wrote", "released", "repaired", "failed", "cut", "repair cut",
                  "damaged"}

\* The first copy of a unit of a file is not unreadable.
Begins(lost, u) == Kind(u) = "tree" \/ ReadCopy(disk, Stripe \ lost, u, 0) # None

ReadsBack(lost, u) == ReadBack(disk, Stripe \ lost, u) = wrote[u]

\* Damage, cuts and missing devices that together stay within what the
\* profile survives lose nothing: every unit with a checksum reads back what
\* was committed, through the mirrors or the parity arithmetic.
Bearable ==
  \A lost \in SUBSET Stripe, u \in HeldUnits :
    Covered(u) /\ Survives(lost \cup harm[Row(u)]) /\ Begins(lost, u) => ReadsBack(lost, u)

\* Of a chunk mapped as it should be nothing bearable is lost.
NothingLost == TypeOK /\ Bearable

\* The same of a unit whose first copy is unreadable: a read uses the first
\* copy that verifies.  Not kept (README, Known departures).
FirstCopyUnreadable ==
  \A u \in HeldUnits : Covered(u) /\ Survives(harm[Row(u)]) => ReadsBack({}, u)

\* A scrub that finds nothing, and could read everything, vouches for the
\* redundancy: a degraded mount that is accepted then reads every unit as the
\* whole pool does, and one that is refused could not have read them all.
CleanScrubVouches ==
  /\ Errors(disk) = {} /\ (\A at \in DOMAIN disk : disk[at] # None) =>
       \A lost \in {l \in SUBSET Stripe : Survives(l)}, u \in HeldUnits :
         Covered(u) \/ IsParity => ReadBack(disk, Stripe \ lost, u) = ReadBack(disk, Stripe, u)
  /\ \A lost \in {l \in SUBSET Stripe : ~Survives(l)} :
       \E u \in Units : ReadCopy(disk, Stripe \ lost, u, 0) = None

\* After a repair a scrub finds something only in an extent or a full stripe
\* of which the repair reported that it could not mend a copy.
RepairHeals ==
  [][outcome' = "repaired" /\ calls' # calls =>
       \A e \in Errors(disk)' : \E f \in Unrepairable(CopyErrors(disk)) :
         \/ IsParity /\ Full(e.unit) = Full(f.unit)
         \/ \E x \in held : {e.unit, f.unit} \subseteq Span(x)]_<<disk, calls>>

\* A repair, finished or cut off with any of its writes lost, takes no unit
\* away that was still to be had: from the whole pool, and of mirrors from
\* each set of them that had it.
RepairKeeps ==
  [][outcome' \in {"repaired", "failed", "repair cut"} =>
       \A lost \in IF IsParity THEN {{}} ELSE SUBSET Stripe, u \in HeldUnits :
         /\ Covered(u) /\ Survives(lost \cup harm[Row(u)])
         /\ Begins(lost, u) \/ Begins(lost, u)'
         => ReadsBack(lost, u)']_disk

\* A scrub --repair mends what it can and reports the rest, and makes nothing
\* worse, cut off or not.
RepairSound == RepairHeals /\ RepairKeeps

Spec == Init /\ [][Next]_vars

=============================================================================
