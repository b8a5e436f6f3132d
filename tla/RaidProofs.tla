------------------------------ MODULE RaidProofs ------------------------------
(***************************************************************************)
(* Proofs about Raid: for every field the parity arithmetic may be that    *)
(* of, every chunk of the four profiles, every content and any number of   *)
(* calls and damaged units, what the profile bears loses nothing, a scrub  *)
(* that finds nothing vouches for the redundancy, and a repair mends what  *)
(* it can and takes nothing away, cut off or not.                          *)
(*                                                                         *)
(* First the field and its sums, and that raid56.rs's rebuilds give back   *)
(* what was lost; then where chunk.rs puts things, and which reads succeed *)
(* with which stripes missing; then the invariant, that the units of every *)
(* row hold what they should where no harm is; then a lemma for each step. *)
(***************************************************************************)
EXTENDS Raid, FiniteSetTheorems, TLAPS

-----------------------------------------------------------------------------
(* Numbers                                                                   *)

(* What dividing gives, and that nothing else multiplied back is the same.  *)
LEMMA Division ==
  ASSUME NEW n \in Int, n > 0, NEW a \in Int
  PROVE  a = n * (a \div n) + (a % n) /\ a % n \in 0 .. n - 1 /\ a \div n \in Int
OBVIOUS

(* Multiples of different numbers are n apart at least.                      *)
LEMMA Apart ==
  ASSUME NEW n \in Int, n > 0, NEW x \in Int, NEW y \in Int, x < y
  PROVE  n * x + n <= n * y /\ n * x \in Int /\ n * y \in Int
<1>1. y - x >= 1
  OBVIOUS
<1>2. n * (y - x) >= n
  BY <1>1
<1>3. n * (y - x) = n * y - n * x
  OBVIOUS
<1>4. QED
  BY <1>2, <1>3

(* A number is a multiple and a rest in one way only.                        *)
LEMMA Multiples ==
  ASSUME NEW n \in Int, n > 0, NEW p \in Int, NEW q \in Int,
         NEW r \in 0 .. n - 1, NEW s \in 0 .. n - 1, n * p + r = n * q + s
  PROVE  p = q /\ r = s
<1>1. n * p \in Int /\ n * q \in Int
  OBVIOUS
<1>2. p < q => n * p + n <= n * q
  BY Apart
<1>3. q < p => n * q + n <= n * p
  BY Apart
<1>4. QED
  BY <1>1, <1>2, <1>3

(* So dividing gives back what was multiplied.                               *)
LEMMA Quotient ==
  ASSUME NEW n \in Int, n > 0, NEW q \in Int, NEW r \in 0 .. n - 1, NEW a \in Int,
         a = n * q + r
  PROVE  a \div n = q /\ a % n = r
BY Division, Multiples

(* A number below n is its own rest.                                         *)
LEMMA Small ==
  ASSUME NEW n \in Int, n > 0, NEW r \in Int, 0 <= r, r < n
  PROVE  r % n = r
BY Quotient, r = n * 0 + r

(* And so it is gone once round.                                             *)
LEMMA SmallWrapped ==
  ASSUME NEW n \in Int, n > 0, NEW r \in Int, 0 <= r, r < n
  PROVE  (r + n) % n = r
BY Quotient, r + n = n * 1 + r

(* Numbers turned round by f: each comes from one.                          *)
LEMMA Rotates ==
  ASSUME NEW n \in Int, n > 0, NEW f \in Int
  PROVE  /\ \A i \in 0 .. n - 1 : (i + f) % n \in 0 .. n - 1
         /\ \A i, j \in 0 .. n - 1 : (i + f) % n = (j + f) % n => i = j
         /\ \A s \in 0 .. n - 1 : \E j \in 0 .. n - 1 : (j + f) % n = s
<1>1. \A i \in 0 .. n - 1 : (i + f) % n \in 0 .. n - 1
  BY Division
<1>2. ASSUME NEW i \in 0 .. n - 1, NEW j \in 0 .. n - 1, (i + f) % n = (j + f) % n
      PROVE  i = j
  <2> DEFINE a == (i + f) \div n
             b == (j + f) \div n
             r == (i + f) % n
  <2>1. i + f = n * a + r /\ j + f = n * b + r /\ a \in Int /\ b \in Int /\ r \in Int
    <3>1. i + f \in Int /\ j + f \in Int
      OBVIOUS
    <3>2. QED
      BY <1>2, <3>1, Division
  <2> HIDE DEF a, b, r
  <2>2. n * a \in Int /\ n * b \in Int
    BY <2>1
  <2>3. n * b + i = n * a + j
    BY <2>1, <2>2
  <2>4. (a < b => n * a + n <= n * b) /\ (b < a => n * b + n <= n * a)
    BY <2>1, Apart
  <2>5. ~ (a < b) /\ ~ (b < a)
    BY <2>2, <2>3, <2>4
  <2>6. QED
    BY <2>1, <2>5
<1>3. ASSUME NEW s \in 0 .. n - 1 PROVE \E j \in 0 .. n - 1 : (j + f) % n = s
  <2> DEFINE j == (s - f) % n
             q == (s - f) \div n
  <2>1. s - f = n * q + j /\ j \in 0 .. n - 1 /\ q \in Int
    BY Division
  <2> HIDE DEF j, q
  <2>2. n * (0 - q) = 0 - n * q /\ n * q \in Int
    BY <2>1
  <2>3. j + f = n * (0 - q) + s
    BY <2>1, <2>2
  <2>4. (j + f) % n = s
    <3>1. 0 - q \in Int /\ j + f \in Int
      BY <2>1
    <3> DEFINE a == j + f
               m == 0 - q
    <3>2. a = n * m + s /\ a \in Int /\ m \in Int
      BY <2>3, <3>1
    <3> HIDE DEF a, m
    <3>3. a % n = s
      BY <3>2, Quotient
    <3>4. QED
      BY <3>3 DEF a
  <2>5. QED
    BY <2>1, <2>4
<1>4. QED
  BY <1>1, <1>2, <1>3

(* Induction, over the numbers up to k.                                     *)
LEMMA UpTo ==
  ASSUME NEW k \in Nat, NEW S, 0 \in S, \A i \in 0 .. k - 1 : i \in S => i + 1 \in S
  PROVE  \A i \in 0 .. k : i \in S
<1> SUFFICES ASSUME NEW n \in 0 .. k, n \notin S PROVE FALSE
  OBVIOUS
<1> DEFINE T == (0 .. k) \ S
           seg == [m \in T |-> {j \in T : j <= m}]
           U == {seg[m] : m \in T}
<1>1. SUBSET T = FiniteSubsetsOf(T)
  <2>1. IsFiniteSet(0 .. k)
    BY FS_Interval
  <2>2. IsFiniteSet(T)
    BY <2>1, FS_Subset
  <2> HIDE DEF T
  <2>3. QED
    BY <2>2, FS_FiniteSubsetsOfFinite
<1>2. /\ \A m \in T : seg[m] \in U /\ seg[m] = {j \in T : j <= m}
      /\ \A x \in U : \E m \in T : x = seg[m]
      /\ U \in SUBSET SUBSET T /\ U # {}
  OBVIOUS
<1>3. \A m \in T : m \in Nat /\ m # 0 /\ m - 1 \in 0 .. k /\ m - 1 \in T
  OBVIOUS
<1> HIDE DEF T, seg, U
<1>4. PICK x \in U : \A y \in U : ~ (<<y, x>> \in StrictSubsetOrdering(T))
  BY <1>1, <1>2, FS_StrictSubsetOrderingWellFounded, WFMin
<1>5. PICK m \in T : x = seg[m]
  BY <1>2
<1>6. m - 1 \in T /\ m \in Nat
  BY <1>3
<1>7. m \in seg[m] /\ m \notin seg[m - 1]
  BY <1>2, <1>6
<1>8. ASSUME NEW j \in seg[m - 1] PROVE j \in seg[m]
  <2>1. j \in T /\ j <= m - 1
    BY <1>2, <1>6
  <2>2. j \in Nat
    BY <1>3, <2>1
  <2>3. j <= m
    BY <1>6, <2>1, <2>2
  <2>4. QED
    BY <1>2, <2>1, <2>3
<1>9. <<seg[m - 1], seg[m]>> \in StrictSubsetOrdering(T) /\ seg[m - 1] \in U
  BY <1>2, <1>6, <1>7, <1>8 DEF StrictSubsetOrdering
<1>10. QED
  BY <1>4, <1>5, <1>9

-----------------------------------------------------------------------------
(* The field                                                                 *)

(* Sums, as FieldAssumption has them.                                        *)
LEMMA PlusIs ==
  ASSUME NEW a \in Value, NEW b \in Value
  PROVE  /\ Plus(a, b) \in Value /\ Plus(a, 0) = a /\ Plus(a, a) = 0 /\ Plus(a, b) = Plus(b, a)
         /\ \A c \in Value : Plus(Plus(a, b), c) = Plus(a, Plus(b, c))
         /\ 0 \in Value
<1>1. 0 \in Value
  BY FieldAssumption DEF Value
<1>2. QED
  BY <1>1, FieldAssumption

(* A sum less one of its terms, twice.                                      *)
LEMMA PlusTwice ==
  ASSUME NEW a \in Value, NEW b \in Value
  PROVE  Plus(Plus(a, b), b) = a
<1>1. Plus(Plus(a, b), b) = Plus(a, Plus(b, b))
  BY PlusIs
<1>2. Plus(b, b) = 0 /\ Plus(a, 0) = a
  BY PlusIs
<1>3. QED
  BY <1>1, <1>2

(* The powers of the generator, all the values but zero, by their logs.     *)
LEMMA Powers ==
  /\ Order \in Nat /\ Order > 0
  /\ \A e \in Nat : e % Order \in 0 .. Order - 1 /\ PowG(e) \in 1 .. Order
  /\ \A e \in 0 .. Order - 1 : PowG(e) = Exp[e] /\ Log(PowG(e)) = e
  /\ \A a \in 1 .. Order : Log(a) \in 0 .. Order - 1 /\ PowG(Log(a)) = a
  /\ \A e, f \in 0 .. Order - 1 : PowG(e) = PowG(f) => e = f
<1>1. Order \in Nat /\ Order > 0
  BY FieldAssumption
<1>2. ASSUME NEW e \in Nat PROVE e % Order \in 0 .. Order - 1
  BY <1>1
<1>3. ASSUME NEW e \in Nat PROVE PowG(e) \in 1 .. Order
  <2>1. Exp \in [0 .. Order - 1 -> 1 .. Order]
    BY FieldAssumption
  <2>2. QED
    BY <1>2, <2>1 DEF PowG
<1>4. ASSUME NEW e \in 0 .. Order - 1 PROVE PowG(e) = Exp[e]
  <2>1. e % Order = e
    BY <1>1, Small
  <2>2. QED
    BY <2>1 DEF PowG
<1>5. ASSUME NEW a \in 1 .. Order
      PROVE  Log(a) \in 0 .. Order - 1 /\ Exp[Log(a)] = a
  BY FieldAssumption DEF Log
<1>6. ASSUME NEW e \in 0 .. Order - 1 PROVE Log(PowG(e)) = e
  <2>1. Exp[e] \in 1 .. Order
    BY FieldAssumption
  <2>2. Log(Exp[e]) \in 0 .. Order - 1 /\ Exp[Log(Exp[e])] = Exp[e]
    BY <1>5, <2>1
  <2>3. Log(Exp[e]) = e
    BY <2>2, FieldAssumption
  <2>4. QED
    BY <1>4, <2>3
<1>7. \A e, f \in 0 .. Order - 1 : PowG(e) = PowG(f) => e = f
  BY <1>6
<1>8. QED
  BY <1>1, <1>2, <1>3, <1>4, <1>5, <1>6, <1>7

(* A product is a value, and none of two values but zero.                   *)
LEMMA MulIs ==
  ASSUME NEW a \in Value, NEW b \in Value
  PROVE  /\ Mul(a, b) \in Value /\ Mul(a, b) = Mul(b, a)
         /\ \A c \in Value : Mul(a, Plus(b, c)) = Plus(Mul(a, b), Mul(a, c))
<1>1. Mul(a, b) \in Value
  <2>1. CASE a = 0 \/ b = 0
    BY <2>1, Powers DEF Mul, Value
  <2>2. CASE a # 0 /\ b # 0
    <3>1. a \in 1 .. Order /\ b \in 1 .. Order
      BY <2>2, Powers DEF Value
    <3>2. Log(a) + Log(b) \in Nat
      <4>1. Log(a) \in 0 .. Order - 1 /\ Log(b) \in 0 .. Order - 1 /\ Order \in Nat
        BY <3>1, Powers
      <4>2. QED
        BY <4>1
    <3>3. PowG(Log(a) + Log(b)) \in 1 .. Order
      BY <3>2, Powers
    <3>4. QED
      BY <2>2, <3>3, Powers DEF Mul, Value
  <2>3. QED
    BY <2>1, <2>2
<1>2. Mul(a, b) = Mul(b, a)
  <2>1. CASE a = 0 \/ b = 0
    BY <2>1 DEF Mul
  <2>2. CASE a # 0 /\ b # 0
    <3>1. a \in 1 .. Order /\ b \in 1 .. Order
      BY <2>2, Powers DEF Value
    <3>2. Log(a) + Log(b) = Log(b) + Log(a)
      <4>1. Log(a) \in 0 .. Order - 1 /\ Log(b) \in 0 .. Order - 1 /\ Order \in Nat
        BY <3>1, Powers
      <4>2. QED
        BY <4>1
    <3>3. QED
      BY <2>2, <3>2 DEF Mul
  <2>3. QED
    BY <2>1, <2>2
<1>3. QED
  BY <1>1, <1>2, FieldAssumption

(* Dividing by what was multiplied by.                                      *)
LEMMA MulInverse ==
  ASSUME NEW s \in 1 .. Order, NEW x \in Value
  PROVE  Inv(s) \in Value /\ Mul(Mul(s, x), Inv(s)) = x
<1> DEFINE o == Order
           l == Log(s)
           m == Log(x)
           i == (o - l) % o
           t == (l + m) % o
<1>1. o \in Nat /\ o > 0 /\ l \in 0 .. o - 1
  BY Powers
<1>2. /\ o - l \in Nat /\ i \in 0 .. o - 1
      /\ i = IF l = 0 THEN 0 ELSE o - l
  <2>1. o - l \in Nat /\ i \in 0 .. o - 1
    BY <1>1
  <2>2. CASE l = 0
    <3>1. (0 + o) % o = 0
      BY <1>1, SmallWrapped
    <3>2. QED
      BY <1>1, <2>1, <2>2, <3>1
  <2>3. CASE l # 0
    <3>1. o - l \in 0 .. o - 1
      BY <1>1, <2>3
    <3>2. QED
      BY <1>1, <2>1, <2>3, <3>1, Small
  <2>4. QED
    BY <2>2, <2>3
<1>3. Inv(s) = PowG(o - l)
  BY DEF Inv
<1>4. PowG(o - l) \in 1 .. o
  BY <1>2, Powers
<1>5. Inv(s) = Exp[i] /\ PowG(i) = Exp[i] /\ Log(PowG(i)) = i
  BY <1>2, <1>3, Powers DEF PowG
<1>6. CASE x = 0
  BY <1>3, <1>4, <1>6, Powers DEF Mul, Value
<1>7. CASE x # 0
  <2>1. x \in 1 .. o /\ s # 0
    BY <1>7, Powers DEF Value
  <2>2. m \in 0 .. o - 1 /\ PowG(m) = x
    BY <2>1, Powers
  <2>3. Mul(s, x) = PowG(l + m)
    BY <1>7, <2>1 DEF Mul
  <2> HIDE DEF l, m
  <2>4. l + m \in Nat /\ t \in 0 .. o - 1 /\ t = IF l + m < o THEN l + m ELSE l + m - o
    <3>1. l + m \in Nat /\ t \in 0 .. o - 1
      BY <1>1, <2>2
    <3>2. CASE l + m < o
      BY <1>1, <2>2, <3>1, <3>2, Small
    <3>3. CASE ~ (l + m < o)
      <4> DEFINE k == l + m - o
      <4>1. k \in Int /\ 0 <= k /\ k < o /\ l + m = k + o
        BY <1>1, <2>2, <3>3
      <4> HIDE DEF k
      <4>2. (k + o) % o = k
        BY <1>1, <4>1, SmallWrapped
      <4>3. QED
        BY <1>1, <3>1, <3>3, <4>1, <4>2 DEF k
    <3>4. QED
      BY <3>2, <3>3
  <2>5. PowG(l + m) = Exp[t] /\ PowG(t) = Exp[t] /\ Log(PowG(t)) = t /\ PowG(l + m) \in 1 .. o
    BY <2>4, Powers DEF PowG
  <2>6. Mul(Mul(s, x), Inv(s)) = PowG(t + i)
    BY <1>3, <1>4, <1>5, <2>3, <2>5 DEF Mul
  <2> HIDE DEF i, t
  <2>7. (t + i) % o = m
    <3>1. t + i = m \/ t + i = m + o
      BY <1>1, <1>2, <2>2, <2>4
    <3>2. m % o = m /\ (m + o) % o = m
      BY <1>1, <2>2, Small, SmallWrapped
    <3>3. QED
      BY <3>1, <3>2
  <2>8. m % o = m
    BY <1>1, <2>2, Small
  <2>9. PowG(t + i) = PowG(m)
    BY <2>7, <2>8 DEF PowG
  <2>10. Inv(s) \in Value
    BY <1>3, <1>4 DEF Value
  <2>11. QED
    BY <2>2, <2>6, <2>9, <2>10
<1>8. QED
  BY <1>6, <1>7

-----------------------------------------------------------------------------
(* Sums                                                                      *)

\* The sums of the first i of the values, for each i up to k.
Runs(g, k, val, but) ==
  /\ g \in [0 .. k -> Value] /\ g[0] = 0
  /\ \A i \in 0 .. k - 1 : g[i + 1] = IF i \in but THEN g[i] ELSE Plus(g[i], val[i])

(* There are such sums, by induction on k.                                   *)
LEMMA RunsExist ==
  ASSUME NEW k \in Nat, NEW val, NEW but, \A i \in 0 .. k - 1 : i \notin but => val[i] \in Value
  PROVE  \E g : Runs(g, k, val, but)
<1> DEFINE S == {i \in 0 .. k : \E g : Runs(g, i, val, but)}
<1>1. 0 \in S
  <2> DEFINE g == [j \in 0 .. 0 |-> 0]
  <2>1. 0 \in Value
    BY FieldAssumption DEF Value
  <2>2. Runs(g, 0, val, but)
    BY <2>1 DEF Runs
  <2>3. QED
    BY <2>2
<1>2. ASSUME NEW i \in 0 .. k - 1, i \in S PROVE i + 1 \in S
  <2>1. PICK g : Runs(g, i, val, but)
    BY <1>2
  <2> DEFINE v == IF i \in but THEN g[i] ELSE Plus(g[i], val[i])
             h == [j \in 0 .. i + 1 |-> IF j = i + 1 THEN v ELSE g[j]]
  <2>2. g \in [0 .. i -> Value] /\ g[0] = 0 /\ g[i] \in Value
    BY <2>1 DEF Runs
  <2>3. v \in Value
    BY <2>2, PlusIs
  <2>4. h \in [0 .. i + 1 -> Value] /\ h[0] = 0
    <3> HIDE DEF v
    <3>1. QED
      BY <2>2, <2>3
  <2>5. ASSUME NEW j \in 0 .. i
        PROVE  h[j + 1] = IF j \in but THEN h[j] ELSE Plus(h[j], val[j])
    <3>1. h[j] = g[j] /\ j + 1 \in 0 .. i + 1
      OBVIOUS
    <3>2. CASE j = i
      BY <3>1, <3>2
    <3>3. CASE j # i
      <4>1. j \in 0 .. i - 1 /\ h[j + 1] = g[j + 1]
        BY <3>1, <3>3
      <4>2. QED
        BY <2>1, <3>1, <4>1 DEF Runs
    <3>4. QED
      BY <3>2, <3>3
  <2>6. (i + 1) - 1 = i /\ i + 1 \in 0 .. k
    OBVIOUS
  <2> HIDE DEF h
  <2>7. Runs(h, i + 1, val, but)
    BY <2>4, <2>5, <2>6 DEF Runs
  <2>8. QED
    BY <2>6, <2>7
<1> HIDE DEF S
<1>3. k \in S
  BY <1>1, <1>2, UpTo
<1>4. QED
  BY <1>3 DEF S

(* And SumOf is the last of them.                                            *)
LEMMA SumRuns ==
  ASSUME NEW k \in Nat, NEW val, NEW but, \A i \in 0 .. k - 1 : i \notin but => val[i] \in Value
  PROVE  \E g : Runs(g, k, val, but) /\ SumOf(k, val, but) = g[k]
<1> DEFINE following(f) == [i \in 0 .. k |->
              IF i = 0 THEN 0
              ELSE IF i - 1 \in but THEN f[i - 1] ELSE Plus(f[i - 1], val[i - 1])]
           s == CHOOSE f : f = following(f)
<1>1. SumOf(k, val, but) = s[k]
  BY DEF SumOf
<1>2. PICK g : Runs(g, k, val, but)
  BY RunsExist
<1>3. g \in [0 .. k -> Value] /\ g[0] = 0
      /\ \A i \in 0 .. k - 1 : g[i + 1] = IF i \in but THEN g[i] ELSE Plus(g[i], val[i])
  BY <1>2 DEF Runs
<1>4. g = following(g)
  <2>1. \A i \in 0 .. k : i # 0 => i - 1 \in 0 .. k - 1 /\ (i - 1) + 1 = i
    OBVIOUS
  <2>2. \A i \in 0 .. k : g[i] = following(g)[i]
    BY <1>3, <2>1
  <2>3. QED
    BY <1>3, <2>2
<1>5. s = following(s)
  BY <1>4
<1> HIDE DEF s
<1>6. /\ s = [i \in 0 .. k |-> s[i]]
      /\ s[0] = 0
      /\ \A i \in 0 .. k - 1 : s[i + 1] = IF i \in but THEN s[i] ELSE Plus(s[i], val[i])
  <2> DEFINE body(i) == IF i = 0 THEN 0
                        ELSE IF i - 1 \in but THEN s[i - 1] ELSE Plus(s[i - 1], val[i - 1])
  <2>1. s = [i \in 0 .. k |-> body(i)]
    BY <1>5
  <2>2. ASSUME NEW i \in 0 .. k - 1 PROVE i + 1 \in 0 .. k /\ (i + 1) - 1 = i /\ i + 1 # 0
    OBVIOUS
  <2>3. body(0) = 0 /\ 0 \in 0 .. k
    OBVIOUS
  <2>4. ASSUME NEW i \in 0 .. k - 1
        PROVE  body(i + 1) = IF i \in but THEN s[i] ELSE Plus(s[i], val[i])
    BY <2>2
  <2> HIDE DEF body
  <2>5. s = [i \in 0 .. k |-> s[i]] /\ \A i \in 0 .. k : s[i] = body(i)
    BY <2>1
  <2>6. QED
    BY <2>2, <2>3, <2>4, <2>5
<1> DEFINE S == {i \in 0 .. k : s[i] = g[i]}
<1>7. 0 \in S
  BY <1>3, <1>6
<1>8. ASSUME NEW i \in 0 .. k - 1, i \in S PROVE i + 1 \in S
  <2>1. s[i + 1] = g[i + 1]
    BY <1>3, <1>6, <1>8
  <2>2. QED
    BY <2>1
<1> HIDE DEF S
<1>9. k \in S
  BY <1>7, <1>8, UpTo
<1>10. QED
  BY <1>1, <1>2, <1>9 DEF S

(* A sum of values is a value.                                               *)
LEMMA SumIs ==
  ASSUME NEW k \in Nat, NEW val, NEW but, \A i \in 0 .. k - 1 : i \notin but => val[i] \in Value
  PROVE  SumOf(k, val, but) \in Value
<1>1. PICK g : Runs(g, k, val, but) /\ SumOf(k, val, but) = g[k]
  BY SumRuns
<1>2. g \in [0 .. k -> Value] /\ k \in 0 .. k
  BY <1>1 DEF Runs
<1>3. QED
  BY <1>1, <1>2

(* A sum depends on the values it is of alone.                              *)
LEMMA SumAgrees ==
  ASSUME NEW k \in Nat, NEW val, NEW other, NEW but,
         \A i \in 0 .. k - 1 : i \notin but => val[i] \in Value /\ val[i] = other[i]
  PROVE  SumOf(k, val, but) = SumOf(k, other, but)
<1>1. PICK g : Runs(g, k, val, but) /\ SumOf(k, val, but) = g[k]
  BY SumRuns
<1>2. PICK h : Runs(h, k, other, but) /\ SumOf(k, other, but) = h[k]
  BY SumRuns
<1> DEFINE S == {i \in 0 .. k : g[i] = h[i]}
<1>3. 0 \in S
  BY <1>1, <1>2 DEF Runs
<1>4. ASSUME NEW i \in 0 .. k - 1, i \in S PROVE i + 1 \in S
  <2>1. g[i + 1] = h[i + 1]
    BY <1>1, <1>2, <1>4 DEF Runs
  <2>2. QED
    BY <2>1
<1> HIDE DEF S
<1>5. k \in S
  BY <1>3, <1>4, UpTo
<1>6. QED
  BY <1>1, <1>2, <1>5 DEF S

(* One of the values taken out of a sum.                                    *)
LEMMA SumTake ==
  ASSUME NEW k \in Nat, NEW val, NEW but, NEW w \in 0 .. k - 1, w \notin but,
         \A i \in 0 .. k - 1 : i \notin but => val[i] \in Value
  PROVE  SumOf(k, val, but) = Plus(val[w], SumOf(k, val, but \cup {w}))
<1> DEFINE less == but \cup {w}
<1>1. PICK g : Runs(g, k, val, but) /\ SumOf(k, val, but) = g[k]
  BY SumRuns
<1>2. PICK h : Runs(h, k, val, less) /\ SumOf(k, val, less) = h[k]
  BY SumRuns
<1>3. val[w] \in Value /\ \A i \in 0 .. k : g[i] \in Value /\ h[i] \in Value
  BY <1>1, <1>2 DEF Runs
<1> DEFINE S == {i \in 0 .. k : g[i] = IF i <= w THEN h[i] ELSE Plus(val[w], h[i])}
<1>4. 0 \in S
  BY <1>1, <1>2 DEF Runs
<1>5. ASSUME NEW i \in 0 .. k - 1, i \in S PROVE i + 1 \in S
  <2>1. /\ g[i + 1] = IF i \in but THEN g[i] ELSE Plus(g[i], val[i])
        /\ h[i + 1] = IF i \in less THEN h[i] ELSE Plus(h[i], val[i])
    BY <1>1, <1>2 DEF Runs
  <2>2. /\ g[i] = IF i <= w THEN h[i] ELSE Plus(val[w], h[i])
        /\ i + 1 \in 0 .. k /\ i \in 0 .. k
    BY <1>5
  <2>3. CASE i < w
    BY <2>1, <2>2, <2>3
  <2>4. CASE i = w
    <3>1. g[i + 1] = Plus(h[i], val[w]) /\ h[i + 1] = h[i] /\ ~ (i + 1 <= w)
      BY <2>1, <2>2, <2>4
    <3>2. Plus(h[i], val[w]) = Plus(val[w], h[i])
      BY <1>3, <2>2, PlusIs
    <3>3. QED
      BY <2>2, <3>1, <3>2
  <2>5. CASE i > w
    <3>1. g[i] = Plus(val[w], h[i]) /\ ~ (i + 1 <= w) /\ (i \in but <=> i \in less)
      BY <2>2, <2>5
    <3>2. CASE i \in but
      BY <2>1, <2>2, <3>1, <3>2
    <3>3. CASE i \notin but
      <4>1. g[i + 1] = Plus(Plus(val[w], h[i]), val[i]) /\ h[i + 1] = Plus(h[i], val[i])
        <5> HIDE DEF less
        <5>1. QED
          BY <2>1, <3>1, <3>3
      <4>2. val[i] \in Value /\ h[i] \in Value
        BY <1>3, <2>2, <3>3
      <4>3. Plus(Plus(val[w], h[i]), val[i]) = Plus(val[w], Plus(h[i], val[i]))
        BY <1>3, <4>2, PlusIs
      <4>4. QED
        BY <2>2, <3>1, <4>1, <4>3
    <3>4. QED
      BY <3>2, <3>3
  <2>6. QED
    BY <2>3, <2>4, <2>5
<1> HIDE DEF S
<1>6. k \in S
  BY <1>4, <1>5, UpTo
<1>7. ~ (k <= w)
  OBVIOUS
<1>8. QED
  BY <1>1, <1>2, <1>6, <1>7 DEF S

-----------------------------------------------------------------------------
(* Parity, and what is computed again from it                                *)

\* The data of one full stripe.
Elements == 0 .. DataCount - 1
Fits == DataCount \in Nat /\ DataCount > 0 /\ DataCount <= Order

\* Data that is what y is but perhaps at some indices.
Alike(data, y, but) ==
  /\ DOMAIN data = Elements /\ DOMAIN y = Elements
  /\ \A i \in Elements : y[i] \in Value /\ (i \notin but => data[i] = y[i])

(* The power of the generator that Q weighs an element by.                   *)
LEMMA Generates ==
  ASSUME Fits, NEW i \in Elements
  PROVE  PowG(i) \in 1 .. Order /\ PowG(i) \in Value /\ PowG(i) # 0
<1>1. i \in Nat
  BY DEF Elements, Fits
<1>2. PowG(i) \in 1 .. Order
  BY <1>1, Powers
<1>3. QED
  BY <1>2 DEF Value

(* Data that agree agree when weighed.                                       *)
LEMMA ScaledAlike ==
  ASSUME Fits, NEW data, NEW y, NEW but, Alike(data, y, but)
  PROVE  Alike(Scaled(data), Scaled(y), but)
<1>1. ASSUME NEW i \in Elements PROVE Scaled(y)[i] \in Value
  BY Generates, MulIs DEF Alike, Scaled
<1>2. QED
  BY <1>1 DEF Alike, Scaled

(* The parity of values is values.                                           *)
LEMMA ParityIs ==
  ASSUME Fits, NEW y, Alike(y, y, {})
  PROVE  Parity(y).p \in Value /\ Parity(y).q \in Value
<1>1. SumOf(DataCount, y, {}) \in Value
  BY SumIs DEF Alike, Elements, Fits
<1>2. SumOf(DataCount, Scaled(y), {}) \in Value
  <2>1. Alike(Scaled(y), Scaled(y), {})
    BY ScaledAlike
  <2>2. QED
    BY <2>1, SumIs DEF Alike, Elements, Fits
<1>3. QED
  BY <1>1, <1>2 DEF Parity

(* Equal data have equal parity.                                            *)
LEMMA ParityAgrees ==
  ASSUME Fits, NEW y, NEW z, Alike(z, y, {})
  PROVE  Parity(z).p = Parity(y).p /\ Parity(z).q = Parity(y).q
<1>1. SumOf(DataCount, y, {}) = SumOf(DataCount, z, {})
  BY SumAgrees DEF Alike, Elements, Fits
<1>2. SumOf(DataCount, Scaled(y), {}) = SumOf(DataCount, Scaled(z), {})
  <2>1. Alike(Scaled(z), Scaled(y), {})
    BY ScaledAlike
  <2>2. QED
    BY <2>1, SumAgrees DEF Alike, Elements, Fits
<1>3. QED
  BY <1>1, <1>2 DEF Parity

(* What is left of a sum when all but one of its values are taken off it.   *)
LEMMA SumLess ==
  ASSUME Fits, NEW want \in Elements, NEW data, NEW y, Alike(data, y, {want})
  PROVE  Plus(SumOf(DataCount, y, {}), SumOf(DataCount, data, {want})) = y[want]
<1> DEFINE s == SumOf(DataCount, y, {want})
<1>1. /\ DataCount \in Nat /\ want \in 0 .. DataCount - 1
      /\ \A i \in 0 .. DataCount - 1 : y[i] \in Value /\ (i # want => y[i] = data[i])
  BY DEF Alike, Elements, Fits
<1>2. SumOf(DataCount, y, {}) = Plus(y[want], SumOf(DataCount, y, {} \cup {want}))
  BY <1>1, SumTake
<1>3. SumOf(DataCount, y, {want}) = SumOf(DataCount, data, {want})
  BY <1>1, SumAgrees
<1>4. s \in Value
  BY <1>1, SumIs
<1>5. {} \cup {want} = {want}
  OBVIOUS
<1> HIDE DEF s
<1>6. Plus(Plus(y[want], s), s) = y[want]
  BY <1>1, <1>4, PlusTwice
<1>7. QED
  BY <1>2, <1>3, <1>5, <1>6 DEF s

(* And all but two.                                                         *)
LEMMA SumLessTwo ==
  ASSUME Fits, NEW want \in Elements, NEW other \in Elements, want # other,
         NEW data, NEW y, Alike(data, y, {want, other})
  PROVE  Plus(SumOf(DataCount, y, {}), SumOf(DataCount, data, {want, other}))
           = Plus(y[want], y[other])
<1> DEFINE s == SumOf(DataCount, y, {want, other})
<1>1. /\ DataCount \in Nat /\ want \in 0 .. DataCount - 1 /\ other \in 0 .. DataCount - 1
      /\ \A i \in 0 .. DataCount - 1 :
           y[i] \in Value /\ (i \notin {want, other} => y[i] = data[i])
  BY DEF Alike, Elements, Fits
<1>2. SumOf(DataCount, y, {}) = Plus(y[want], SumOf(DataCount, y, {} \cup {want}))
  <2>1. want \notin {}
    OBVIOUS
  <2>2. QED
    BY <1>1, <2>1, SumTake
<1>3. {} \cup {want} = {want} /\ {want} \cup {other} = {want, other} /\ other \notin {want}
  OBVIOUS
<1>4. SumOf(DataCount, y, {want}) = Plus(y[other], SumOf(DataCount, y, {want} \cup {other}))
  <2> DEFINE but == {want}
  <2>1. other \notin but /\ \A i \in 0 .. DataCount - 1 : i \notin but => y[i] \in Value
    BY <1>1
  <2> HIDE DEF but
  <2>2. SumOf(DataCount, y, but) = Plus(y[other], SumOf(DataCount, y, but \cup {other}))
    BY <1>1, <2>1, SumTake
  <2>3. QED
    BY <2>2 DEF but
<1>5. SumOf(DataCount, y, {want, other}) = SumOf(DataCount, data, {want, other})
  <2> DEFINE but == {want, other}
  <2>1. \A i \in 0 .. DataCount - 1 : i \notin but => y[i] \in Value /\ y[i] = data[i]
    BY <1>1
  <2> HIDE DEF but
  <2>2. SumOf(DataCount, y, but) = SumOf(DataCount, data, but)
    BY <1>1, <2>1, SumAgrees
  <2>3. QED
    BY <2>2 DEF but
<1>6. s \in Value /\ y[want] \in Value /\ y[other] \in Value
  BY <1>1, SumIs
<1>7. SumOf(DataCount, y, {}) = Plus(y[want], Plus(y[other], s))
  BY <1>2, <1>3, <1>4
<1> HIDE DEF s
<1>8. Plus(y[want], Plus(y[other], s)) = Plus(Plus(y[want], y[other]), s)
  BY <1>6, PlusIs
<1>9. Plus(y[want], y[other]) \in Value
  BY <1>6, PlusIs
<1>10. Plus(Plus(Plus(y[want], y[other]), s), s) = Plus(y[want], y[other])
  BY <1>6, <1>9, PlusTwice
<1>11. QED
  BY <1>5, <1>7, <1>8, <1>10 DEF s

(* raid56.rs, rebuild: from P and the other data comes the one lost.         *)
LEMMA RebuildsP ==
  ASSUME Fits, NEW want \in Elements, NEW data, NEW y, Alike(data, y, {want})
  PROVE  RebuildP(want, data, Parity(y).p) = y[want]
BY SumLess DEF RebuildP, Parity

(* From Q and the other data comes the one lost.                             *)
LEMMA RebuildsQ ==
  ASSUME Fits, NEW want \in Elements, NEW data, NEW y, Alike(data, y, {want})
  PROVE  RebuildQ(want, data, Parity(y).q) = y[want]
<1>1. Alike(Scaled(data), Scaled(y), {want})
  BY ScaledAlike
<1>2. Plus(SumOf(DataCount, Scaled(y), {}), SumOf(DataCount, Scaled(data), {want}))
        = Scaled(y)[want]
  BY <1>1, SumLess
<1>3. Scaled(y)[want] = Mul(PowG(want), y[want]) /\ y[want] \in Value
  BY DEF Scaled, Alike
<1>4. Mul(Mul(PowG(want), y[want]), Inv(PowG(want))) = y[want]
  BY <1>3, Generates, MulInverse
<1>5. QED
  BY <1>2, <1>3, <1>4 DEF RebuildQ, Parity

(* From P, Q and the data but two comes each of the two.                     *)
LEMMA RebuildsPQ ==
  ASSUME Fits, NEW want \in Elements, NEW other \in Elements, want # other,
         NEW data, NEW y, Alike(data, y, {want, other})
  PROVE  RebuildPQ(want, other, data, Parity(y).p, Parity(y).q) = y[want]
<1> DEFINE a == y[want]
           b == y[other]
           ga == PowG(want)
           gb == PowG(other)
           pxy == Plus(SumOf(DataCount, y, {}), SumOf(DataCount, data, {want, other}))
           qxy == Plus(SumOf(DataCount, Scaled(y), {}),
                       SumOf(DataCount, Scaled(data), {want, other}))
<1>1. a \in Value /\ b \in Value
  BY DEF Alike
<1>2. ga \in 1 .. Order /\ gb \in 1 .. Order /\ ga \in Value /\ gb \in Value
  BY Generates
<1>3. ga # gb
  <2>1. want \in 0 .. Order - 1 /\ other \in 0 .. Order - 1
    BY FieldAssumption DEF Elements, Fits
  <2>2. QED
    BY <2>1, Powers
<1>4. pxy = Plus(a, b)
  BY SumLessTwo
<1>5. qxy = Plus(Mul(ga, a), Mul(gb, b))
  <2>1. Alike(Scaled(data), Scaled(y), {want, other})
    BY ScaledAlike
  <2>2. qxy = Plus(Scaled(y)[want], Scaled(y)[other])
    BY <2>1, SumLessTwo
  <2>3. Scaled(y)[want] = Mul(ga, a) /\ Scaled(y)[other] = Mul(gb, b)
    BY DEF Scaled, Alike
  <2>4. QED
    BY <2>2, <2>3
<1>6. RebuildPQ(want, other, data, Parity(y).p, Parity(y).q)
        = Mul(Plus(Mul(gb, pxy), qxy), Inv(Plus(ga, gb)))
  BY DEF RebuildPQ, Parity
<1> HIDE DEF a, b, ga, gb, pxy, qxy
<1> DEFINE s == Plus(ga, gb)
<1>7. s \in 1 .. Order
  <2>1. s \in Value
    BY <1>2, PlusIs
  <2>2. s # 0
    <3>1. Plus(s, gb) = ga
      BY <1>2, PlusTwice
    <3>2. Plus(0, gb) = gb
      <4>1. 0 \in Value /\ Plus(gb, 0) = gb
        BY <1>2, PlusIs
      <4>2. QED
        BY <1>2, <4>1, PlusIs
    <3> HIDE DEF s
    <3>3. QED
      BY <1>3, <3>1, <3>2
  <2>3. QED
    BY <2>1, <2>2, Powers DEF Value
<1>8. Plus(Mul(gb, pxy), qxy) = Mul(s, a)
  <2> DEFINE u == Mul(ga, a)
             v == Mul(gb, a)
             w == Mul(gb, b)
  <2>1. u \in Value /\ v \in Value /\ w \in Value
    BY <1>1, <1>2, MulIs
  <2>2. Mul(gb, pxy) = Plus(v, w)
    BY <1>1, <1>2, <1>4, MulIs
  <2>3. Mul(s, a) = Plus(u, v)
    <3>1. s \in Value
      BY <1>2, PlusIs
    <3>2. Mul(s, a) = Mul(a, s) /\ Mul(a, s) = Plus(Mul(a, ga), Mul(a, gb))
      <4>1. Mul(a, s) = Plus(Mul(a, ga), Mul(a, gb))
        BY <1>1, <1>2, MulIs
      <4> HIDE DEF s
      <4>2. Mul(s, a) = Mul(a, s)
        BY <1>1, <3>1, MulIs
      <4>3. QED
        BY <4>1, <4>2
    <3>3. Mul(a, ga) = u /\ Mul(a, gb) = v
      BY <1>1, <1>2, MulIs
    <3>4. QED
      BY <3>2, <3>3
  <2> HIDE DEF u, v, w, s
  <2>4. Plus(Plus(v, w), Plus(u, w)) = Plus(u, v)
    <3>1. Plus(Plus(v, w), Plus(u, w)) = Plus(v, Plus(w, Plus(u, w)))
      <4>1. Plus(u, w) \in Value
        BY <2>1, PlusIs
      <4>2. QED
        BY <2>1, <4>1, PlusIs
    <3>2. Plus(w, Plus(u, w)) = Plus(Plus(u, w), w)
      <4>1. Plus(u, w) \in Value
        BY <2>1, PlusIs
      <4>2. QED
        BY <2>1, <4>1, PlusIs
    <3>3. Plus(Plus(u, w), w) = u
      BY <2>1, PlusTwice
    <3>4. Plus(v, u) = Plus(u, v)
      BY <2>1, PlusIs
    <3>5. QED
      BY <3>1, <3>2, <3>3, <3>4
  <2>5. qxy = Plus(u, w)
    BY <1>5 DEF u, w
  <2>6. QED
    BY <2>2, <2>3, <2>4, <2>5
<1>9. Mul(Mul(s, a), Inv(s)) = a
  BY <1>1, <1>7, MulInverse
<1>10. QED
  BY <1>6, <1>8, <1>9 DEF a, s

-----------------------------------------------------------------------------
(* Where things are                                                          *)

Mapped == \E l \in Layouts : layout = l.layout

(* What LayoutsAssumption says of the chunk there is.                        *)
LEMMA LayoutIs ==
  ASSUME Mapped
  PROVE  /\ layout.profile \in {"raid1", "raid10", "raid5", "raid6"}
         /\ layout.n \in Nat /\ layout.n > 0 /\ layout.sub \in Nat /\ layout.sub > 0
         /\ layout.units \in Nat /\ layout.units > 0
         /\ layout.profile = "raid10" => layout.n % layout.sub = 0
         /\ IsParity => Columns(layout) \in 1 .. Order
         /\ layout.units % Columns(layout) = 0
<1>1. PICK l \in Layouts : layout = l.layout
  BY DEF Mapped
<1>2. /\ layout \in [profile : {"raid1", "raid10", "raid5", "raid6"}, n : Nat \ {0},
                     sub : Nat \ {0}, units : Nat \ {0}]
      /\ layout.profile = "raid10" => layout.n % layout.sub = 0
      /\ layout.profile \in {"raid5", "raid6"} => Columns(layout) \in 1 .. Order
      /\ layout.units % Columns(layout) = 0
  BY <1>1, LayoutsAssumption
<1>3. QED
  BY <1>2 DEF IsParity

Groups == layout.n \div layout.sub

(* A row has as many units as the chunk has columns.                         *)
LEMMA Columned ==
  ASSUME Mapped
  PROVE  /\ Columns(layout) \in Nat /\ Columns(layout) > 0
         /\ IsParity => /\ DataCount = Columns(layout) /\ Fits
                        /\ layout.n = DataCount + ParityCount
         /\ layout.profile = "raid10" =>
              /\ Groups \in Nat /\ Groups > 0 /\ Groups = Columns(layout)
              /\ layout.n = layout.sub * Groups
         /\ layout.profile = "raid1" => Columns(layout) = 1
<1>1. CASE IsParity
  <2>1. Columns(layout) = DataCount /\ layout.n = DataCount + ParityCount
        /\ layout.profile # "raid1" /\ layout.profile # "raid10"
    BY <1>1, LayoutIs DEF IsParity, Columns, DataCount, ParityCount
  <2>2. Columns(layout) \in 1 .. Order /\ Order \in Nat
    BY <1>1, LayoutIs, FieldAssumption
  <2>3. QED
    BY <2>1, <2>2 DEF Fits
<1>2. CASE layout.profile = "raid10"
  <2>1. Columns(layout) = Groups /\ ~ IsParity /\ layout.profile # "raid1"
    BY <1>2 DEF Columns, Groups, IsParity
  <2>2. /\ layout.n \in Int /\ layout.n > 0 /\ layout.sub \in Int /\ layout.sub > 0
        /\ layout.n % layout.sub = 0
    BY <1>2, LayoutIs
  <2>3. layout.n = layout.sub * Groups + 0 /\ Groups \in Int
    BY <2>2, Division DEF Groups
  <2>4. ~ (Groups <= 0)
    <3>1. Groups < 1 => layout.sub * Groups + layout.sub <= layout.sub * 1
      BY <2>2, <2>3, Apart
    <3>2. QED
      BY <2>2, <2>3, <3>1
  <2>5. Groups \in Nat /\ Groups > 0 /\ layout.n = layout.sub * Groups
    BY <2>2, <2>3, <2>4
  <2>6. QED
    BY <2>1, <2>5
<1>3. CASE layout.profile = "raid1"
  BY <1>3 DEF Columns, IsParity
<1>4. QED
  BY <1>1, <1>2, <1>3, LayoutIs DEF IsParity

(* The row of a unit, and its column.                                       *)
LEMMA Rowed ==
  ASSUME Mapped
  PROVE  /\ \A u \in Units : /\ Row(u) = u \div Columns(layout) /\ Row(u) \in Rows
                             /\ Row(u) \in Nat
                             /\ u % Columns(layout) \in 0 .. Columns(layout) - 1
                             /\ u = Columns(layout) * Row(u) + (u % Columns(layout))
         /\ \A r \in Rows, i \in 0 .. Columns(layout) - 1 :
              /\ Columns(layout) * r + i \in Units /\ r \in Nat
              /\ (Columns(layout) * r + i) \div Columns(layout) = r
              /\ (Columns(layout) * r + i) % Columns(layout) = i
         /\ 0 \in Rows
<1> DEFINE c == Columns(layout)
           k == layout.units \div c
<1>1. c \in Nat /\ c > 0 /\ layout.units \in Nat /\ layout.units > 0 /\ layout.units % c = 0
  BY Columned, LayoutIs
<1>2. layout.units = c * k /\ k \in Int
  <2>1. layout.units = c * k + 0
    BY <1>1, Division
  <2>2. QED
    BY <1>1, <2>1, Division
<1>3. ASSUME NEW u \in Units PROVE Row(u) = u \div c
  <2>1. u \in Int
    BY DEF Units
  <2>2. CASE IsParity
    <3>1. Row(u) = Full(u)
      BY <2>2 DEF Row, MapMirror, IsParity
    <3>2. QED
      BY <2>2, <3>1, Columned DEF Full
  <2>3. CASE layout.profile = "raid10"
    BY <2>3, Columned DEF Row, MapMirror, Groups, IsParity
  <2>4. CASE layout.profile = "raid1"
    <3>1. u = 1 * u + 0
      BY <2>1
    <3>2. u \div 1 = u
      BY <2>1, <3>1, Quotient
    <3>3. QED
      BY <2>4, <3>2, Columned DEF Row, MapMirror, IsParity
  <2>5. QED
    BY <2>2, <2>3, <2>4, LayoutIs DEF IsParity
<1> HIDE DEF c, k
<1>4. ASSUME NEW u \in Units
      PROVE  /\ u \div c \in 0 .. k - 1 /\ u % c \in 0 .. c - 1
             /\ u = c * (u \div c) + (u % c)
  <2>1. u \in Int /\ u >= 0 /\ u < c * k
    BY <1>1, <1>2 DEF Units
  <2>2. u = c * (u \div c) + (u % c) /\ u % c \in 0 .. c - 1 /\ u \div c \in Int
    BY <1>1, <2>1, Division
  <2> DEFINE q == u \div c
             r == u % c
  <2>3. q \in Int /\ r \in 0 .. c - 1 /\ u = c * q + r
    BY <2>2
  <2> HIDE DEF q, r
  <2>4. (q < 0 => c * q + c <= c * 0) /\ (k < q => c * k + c <= c * q)
    BY <1>1, <1>2, <2>3, Apart
  <2>5. c * q \in Int /\ c * k \in Int /\ c * 0 = 0
    BY <1>1, <1>2, <2>3
  <2>7. ~ (q < 0) /\ ~ (k < q) /\ q # k
    BY <1>1, <2>1, <2>3, <2>4, <2>5
  <2>8. q \in 0 .. k - 1
    BY <1>2, <2>3, <2>7
  <2>9. QED
    BY <2>3, <2>8 DEF q, r
<1>5. ASSUME NEW r \in 0 .. k - 1, NEW i \in 0 .. c - 1
      PROVE  c * r + i \in Units /\ (c * r + i) \div c = r /\ (c * r + i) % c = i
  <2>1. r \in Int /\ i \in Int /\ 0 <= i /\ c * r \in Int
    BY <1>1, <1>2
  <2>2. c * r + c <= c * k
    BY <1>1, <1>2, Apart
  <2>3. c * r >= 0
    <3>1. 0 < r => c * 0 + c <= c * r
      BY <1>1, <2>1, Apart
    <3>2. c * 0 = 0
      BY <1>1
    <3>3. QED
      BY <1>1, <1>2, <2>1, <3>1, <3>2
  <2>4. c * r + i \in Units
    BY <1>1, <1>2, <2>1, <2>2, <2>3 DEF Units
  <2>5. QED
    BY <1>1, <2>1, <2>4, Quotient
<1>6. k > 0
  <2>1. ~ (k < 0)
    <3>1. k < 0 => c * k + c <= c * 0
      BY <1>1, <1>2, Apart
    <3>2. c * 0 = 0
      BY <1>1
    <3>3. QED
      BY <1>1, <1>2, <3>1, <3>2
  <2>2. k # 0
    BY <1>1, <1>2
  <2>3. QED
    BY <1>2, <2>1, <2>2
<1>7. ASSUME NEW r PROVE r \in Rows <=> r \in 0 .. k - 1
  <2>1. ASSUME r \in Rows PROVE r \in 0 .. k - 1
    BY <1>3, <1>4, <2>1 DEF Rows, c
  <2>2. ASSUME r \in 0 .. k - 1 PROVE r \in Rows
    <3>1. 0 \in 0 .. c - 1
      BY <1>1
    <3>2. c * r + 0 \in Units /\ (c * r + 0) \div c = r
      BY <1>5, <2>2, <3>1
    <3>3. Row(c * r + 0) = r
      BY <1>3, <3>2 DEF c
    <3>4. QED
      BY <3>2, <3>3 DEF Rows
  <2>3. QED
    BY <2>1, <2>2
<1>8. \A u \in Units : /\ Row(u) = u \div c /\ Row(u) \in Rows /\ Row(u) \in Nat
                       /\ u % c \in 0 .. c - 1 /\ u = c * Row(u) + (u % c)
  <2>1. ASSUME NEW u \in Units PROVE Row(u) = u \div c
    BY <1>3 DEF c
  <2>2. QED
    BY <1>2, <1>4, <1>7, <2>1
<1>9. /\ \A r \in Rows, i \in 0 .. c - 1 :
          /\ c * r + i \in Units /\ r \in Nat
          /\ (c * r + i) \div c = r /\ (c * r + i) % c = i
      /\ 0 \in Rows
  BY <1>2, <1>5, <1>6, <1>7
<1>10. QED
  BY <1>8, <1>9 DEF c

\* The stripe of the j-th element of full stripe f, parity coming after data,
\* the place it has there, and what is to be in it when the data is y.
At(j, f) == (j + f) % layout.n
Spot(j, f) == <<At(j, f), f>>
Word(y, j) ==
  IF j < DataCount THEN y[j] ELSE IF j = DataCount THEN Parity(y).p ELSE Parity(y).q

\* The elements of a full stripe, and those that are parity.
Parts == 0 .. layout.n - 1
Checks == DataCount .. layout.n - 1

(* A full stripe is data elements and then parity elements, one on each
   stripe.                                                                   *)
LEMMA PartsAre ==
  ASSUME Mapped, IsParity
  PROVE  /\ DataCount \in Nat /\ DataCount > 0 /\ Fits
         /\ Parts = Elements \cup Checks /\ Elements \cap Checks = {} /\ Elements \subseteq Parts
         /\ Checks = IF layout.profile = "raid6" THEN {DataCount, DataCount + 1} ELSE {DataCount}
         /\ layout.n \in Nat /\ layout.n > 0
         /\ Parts \subseteq Nat /\ Stripe = Parts
<1>1. /\ DataCount \in Nat /\ DataCount > 0 /\ Fits /\ layout.n = DataCount + ParityCount
      /\ layout.n \in Nat /\ layout.n > 0
  BY Columned, LayoutIs
<1>2. ParityCount = IF layout.profile = "raid6" THEN 2 ELSE 1
  BY DEF ParityCount
<1>3. layout.n = IF layout.profile = "raid6" THEN DataCount + 2 ELSE DataCount + 1
  BY <1>1, <1>2
<1>4. Checks = IF layout.profile = "raid6" THEN {DataCount, DataCount + 1} ELSE {DataCount}
  <2>1. CASE layout.profile = "raid6"
    <3>1. layout.n = DataCount + 2 /\ DataCount \in Int
      BY <1>1, <1>3, <2>1
    <3>2. DataCount .. (DataCount + 2) - 1 = {DataCount, DataCount + 1}
      BY <3>1
    <3>3. QED
      BY <2>1, <3>1, <3>2 DEF Checks
  <2>2. CASE layout.profile # "raid6"
    <3>1. layout.n = DataCount + 1 /\ DataCount \in Int
      BY <1>1, <1>3, <2>2
    <3>2. DataCount .. (DataCount + 1) - 1 = {DataCount}
      BY <3>1
    <3>3. QED
      BY <2>2, <3>1, <3>2 DEF Checks
  <2>3. QED
    BY <2>1, <2>2
<1>5. layout.n \in Int /\ DataCount \in Int /\ DataCount < layout.n
  BY <1>1, <1>3
<1>6. Parts = Elements \cup Checks /\ Elements \cap Checks = {} /\ Elements \subseteq Parts
  BY <1>1, <1>5 DEF Parts, Elements, Checks
<1>7. Parts \subseteq Nat /\ Stripe = Parts
  BY <1>1 DEF Parts, Stripe
<1>8. QED
  BY <1>1, <1>4, <1>6, <1>7

(* Each element of a full stripe has a stripe of its own, and each stripe
   an element.                                                              *)
LEMMA Spots ==
  ASSUME Mapped, IsParity, NEW f \in Nat
  PROVE  /\ \A j \in Parts : At(j, f) \in Stripe
         /\ \A j, k \in Parts : At(j, f) = At(k, f) => j = k
         /\ \A s \in Stripe : \E j \in Parts : At(j, f) = s
<1>1. layout.n \in Int /\ layout.n > 0 /\ f \in Int
  BY PartsAre
<1>2. QED
  BY <1>1, Rotates DEF At, Parts, Stripe

(* placement and parity_read put the parts where At says.                    *)
LEMMA SpotIs ==
  ASSUME Mapped, IsParity, NEW f \in Nat
  PROVE  /\ Placement(f).data = [i \in Elements |-> At(i, f)]
         /\ Placement(f).p = At(DataCount, f)
         /\ Placement(f).q = IF layout.profile = "raid6" THEN {At(DataCount + 1, f)} ELSE {}
         /\ ParityRead(f).data = [i \in Elements |-> Spot(i, f)]
         /\ ParityRead(f).p = Spot(DataCount, f)
         /\ ParityRead(f).q = IF layout.profile = "raid6" THEN {Spot(DataCount + 1, f)} ELSE {}
         /\ ParityStripes(f) = {At(j, f) : j \in Checks}
<1>1. /\ Placement(f).data = [i \in Elements |-> At(i, f)]
      /\ Placement(f).p = At(DataCount, f)
      /\ Placement(f).q = IF layout.profile = "raid6" THEN {At(DataCount + 1, f)} ELSE {}
  BY DEF Placement, At, Elements
<1>2. /\ ParityRead(f).data = [i \in DOMAIN Placement(f).data |-> <<Placement(f).data[i], f>>]
      /\ ParityRead(f).p = <<Placement(f).p, f>>
      /\ ParityRead(f).q = {<<i, f>> : i \in Placement(f).q}
  BY DEF ParityRead
<1>3. ParityRead(f).data = [i \in Elements |-> Spot(i, f)]
  BY <1>1, <1>2 DEF Spot
<1>4. ParityRead(f).q = IF layout.profile = "raid6" THEN {Spot(DataCount + 1, f)} ELSE {}
  BY <1>1, <1>2 DEF Spot
<1>5. ParityStripes(f) = {At(j, f) : j \in Checks}
  <2>1. CASE layout.profile = "raid6"
    BY <1>1, <2>1, PartsAre DEF ParityStripes
  <2>2. CASE layout.profile # "raid6"
    BY <1>1, <2>2, PartsAre DEF ParityStripes
  <2>3. QED
    BY <2>1, <2>2
<1>6. QED
  BY <1>1, <1>2, <1>3, <1>4, <1>5 DEF Spot

(* A unit of a parity chunk is an element of the full stripe it is in.      *)
LEMMA UnitIs ==
  ASSUME Mapped, IsParity
  PROVE  /\ \A u \in Units :
              /\ Full(u) = Row(u) /\ Full(u) \in Rows /\ Full(u) \in Nat
              /\ u % DataCount \in Elements /\ u = Full(u) * DataCount + (u % DataCount)
              /\ MapMirror(u, 0) = Spot(u % DataCount, Full(u))
         /\ \A f \in Rows, i \in Elements :
              /\ f * DataCount + i \in Units /\ f \in Nat
              /\ Full(f * DataCount + i) = f /\ (f * DataCount + i) % DataCount = i
              /\ MapMirror(f * DataCount + i, 0) = Spot(i, f)
         /\ Mirrors = 1
<1>1. DataCount = Columns(layout) /\ Elements = 0 .. Columns(layout) - 1 /\ DataCount \in Nat
  BY Columned DEF Elements
<1>2. ASSUME NEW u \in Units
      PROVE  /\ Full(u) = Row(u) /\ Full(u) \in Rows /\ Full(u) \in Nat
             /\ u % DataCount \in Elements /\ u = Full(u) * DataCount + (u % DataCount)
  <2>1. /\ Row(u) = u \div Columns(layout) /\ Row(u) \in Rows
        /\ Row(u) \in Nat /\ u % Columns(layout) \in 0 .. Columns(layout) - 1
        /\ u = Columns(layout) * Row(u) + (u % Columns(layout))
    BY Rowed
  <2>2. Full(u) = Row(u) /\ u % DataCount \in Elements
        /\ u = DataCount * Row(u) + (u % DataCount)
    BY <1>1, <2>1 DEF Full
  <2>3. DataCount * Row(u) = Row(u) * DataCount
    BY <1>1, <2>1
  <2>4. QED
    BY <2>1, <2>2, <2>3
<1>3. ASSUME NEW f \in Rows, NEW i \in Elements
      PROVE  /\ f * DataCount + i \in Units /\ f \in Nat
             /\ Full(f * DataCount + i) = f /\ (f * DataCount + i) % DataCount = i
  <2>1. /\ Columns(layout) * f + i \in Units /\ f \in Nat
        /\ (Columns(layout) * f + i) \div Columns(layout) = f
        /\ (Columns(layout) * f + i) % Columns(layout) = i
    BY <1>1, Rowed
  <2>2. DataCount * f = f * DataCount
    BY <1>1, <2>1
  <2>3. QED
    BY <1>1, <2>1, <2>2 DEF Full
<1>4. ASSUME NEW u \in Units PROVE MapMirror(u, 0) = Spot(u % DataCount, Full(u))
  <2>1. MapMirror(u, 0) = <<Placement(Full(u)).data[u % DataCount], Full(u)>>
    BY DEF MapMirror, IsParity
  <2>2. Placement(Full(u)).data[u % DataCount] = At(u % DataCount, Full(u))
    BY <1>2, SpotIs
  <2>3. QED
    BY <2>1, <2>2 DEF Spot
<1>5. ASSUME NEW f \in Rows, NEW i \in Elements PROVE MapMirror(f * DataCount + i, 0) = Spot(i, f)
  <2> DEFINE u == f * DataCount + i
  <2>1. u \in Units /\ Full(u) = f /\ u % DataCount = i
    BY <1>3
  <2> HIDE DEF u
  <2>2. MapMirror(u, 0) = Spot(i, f)
    BY <1>4, <2>1
  <2>3. QED
    BY <2>2 DEF u
<1>6. Mirrors = 1
  BY DEF Mirrors, IsParity
<1>7. QED
  BY <1>2, <1>3, <1>4, <1>5, <1>6

(* The places of the disk.                                                  *)
LEMMA Everywhere ==
  ASSUME Mapped, IsParity
  PROVE  /\ Rows \subseteq Nat
         /\ \A f \in Rows, j \in Parts : Spot(j, f) \in Stripe \X Rows
         /\ \A f, g \in Rows, j, k \in Parts : Spot(j, f) = Spot(k, g) => f = g /\ j = k
         /\ \A at \in Stripe \X Rows : \E j \in Parts : at = Spot(j, at[2])
<1>1. Rows \subseteq Nat
  BY Rowed DEF Rows
<1>2. ASSUME NEW at \in Stripe \X Rows PROVE \E j \in Parts : at = Spot(j, at[2])
  <2>1. PICK j \in Parts : At(j, at[2]) = at[1]
    BY <1>1, Spots
  <2>2. at = Spot(j, at[2])
    BY <2>1 DEF Spot
  <2>3. QED
    BY <2>2
<1>3. ASSUME NEW f \in Rows, NEW j \in Parts PROVE Spot(j, f) \in Stripe \X Rows
  BY <1>1, Spots DEF Spot
<1>4. ASSUME NEW f \in Rows, NEW g \in Rows, NEW j \in Parts, NEW k \in Parts,
             Spot(j, f) = Spot(k, g)
      PROVE  f = g /\ j = k
  BY <1>1, <1>4, Spots DEF Spot
<1>5. QED
  BY <1>1, <1>2, <1>3, <1>4

-----------------------------------------------------------------------------
(* Rebuilding                                                                *)

\* What an attempt does without, and what it reads.
Without(want, a) == {want} \cup IF a >= 3 THEN {Other(want, a)} ELSE {}
Needed(want, a) ==
  (Elements \ Without(want, a)) \cup (IF a # 2 THEN {DataCount} ELSE {})
    \cup (IF a >= 2 THEN {DataCount + 1} ELSE {})

(* An element is there to be read when its stripe is.                        *)
LEMMA ElementAt ==
  ASSUME NEW d, NEW present, NEW f, NEW j
  PROVE  Element(d, present, Spot(j, f)) = IF At(j, f) \in present THEN d[Spot(j, f)] ELSE None
<1> DEFINE at == Spot(j, f)
<1>1. at[1] = At(j, f)
  BY DEF Spot
<1> HIDE DEF at
<1>2. Element(d, present, at) = IF At(j, f) \in present THEN d[at] ELSE None
  BY <1>1 DEF Element
<1>3. QED
  BY <1>2 DEF at

(* The attempts of a parity chunk: the first read, P, Q, and P and Q with
   each other element lost.                                                  *)
LEMMA AttemptsAre ==
  ASSUME Mapped, IsParity
  PROVE  Attempts = IF layout.profile = "raid6" THEN DataCount + 2 ELSE 2
<1>1. DataCount \in Nat
  BY PartsAre
<1>2. Attempts = IF layout.profile = "raid6" THEN 3 + DataCount - 1 ELSE 2
  BY DEF Attempts, IsParity
<1>3. QED
  BY <1>1, <1>2

(* The later attempts do without each of the other data elements in turn.   *)
LEMMA OthersAre ==
  ASSUME Mapped, IsParity, NEW want \in Elements
  PROVE  /\ \A a \in 1 .. Attempts - 1 :
              /\ a \in Nat /\ (a >= 2 => layout.profile = "raid6")
              /\ a >= 3 => Other(want, a) \in Elements /\ Other(want, a) # want
         /\ layout.profile = "raid6" =>
              \A o \in Elements \ {want} :
                \E a \in 1 .. Attempts - 1 : a >= 3 /\ Other(want, a) = o
<1>1. DataCount \in Nat /\ want \in Nat /\ want < DataCount
  BY PartsAre DEF Elements
<1>2. Attempts = IF layout.profile = "raid6" THEN DataCount + 2 ELSE 2
  BY AttemptsAre
<1>3. ASSUME NEW a \in 1 .. Attempts - 1
      PROVE  /\ a \in Nat /\ (a >= 2 => layout.profile = "raid6")
             /\ a >= 3 => Other(want, a) \in Elements /\ Other(want, a) # want
  BY <1>1, <1>2 DEF Other, Elements
<1>4. ASSUME layout.profile = "raid6", NEW o \in Elements \ {want}
      PROVE  \E a \in 1 .. Attempts - 1 : a >= 3 /\ Other(want, a) = o
  <2>1. o \in Nat /\ o < DataCount /\ o # want
    BY <1>1 DEF Elements
  <2>2. CASE o < want
    <3>1. o + 3 \in 1 .. Attempts - 1 /\ o + 3 >= 3
      BY <1>1, <1>2, <1>4, <2>1, <2>2
    <3>2. Other(want, o + 3) = o
      BY <1>1, <2>1, <2>2 DEF Other
    <3>3. QED
      BY <3>1, <3>2
  <2>3. CASE o > want
    <3>1. o + 2 \in 1 .. Attempts - 1 /\ o + 2 >= 3
      BY <1>1, <1>2, <1>4, <2>1, <2>3
    <3>2. Other(want, o + 2) = o
      BY <1>1, <2>1, <2>3 DEF Other
    <3>3. QED
      BY <3>1, <3>2
  <2>4. QED
    BY <1>1, <2>1, <2>2, <2>3
<1>5. QED
  BY <1>3, <1>4

(* What each part of a full stripe holds when its data is y.                 *)
LEMMA WordIs ==
  ASSUME Mapped, IsParity, NEW y, Alike(y, y, {})
  PROVE  /\ \A j \in Parts : Word(y, j) \in Value /\ Word(y, j) # None
         /\ \A i \in Elements : Word(y, i) = y[i]
         /\ Word(y, DataCount) = Parity(y).p /\ Word(y, DataCount + 1) = Parity(y).q
<1>1. DataCount \in Nat
  BY PartsAre
<1>2. ASSUME NEW i \in Elements PROVE Word(y, i) = y[i] /\ y[i] \in Value
  BY <1>1 DEF Word, Alike, Elements
<1>3. Word(y, DataCount) = Parity(y).p /\ Word(y, DataCount + 1) = Parity(y).q
  BY <1>1 DEF Word
<1>4. ASSUME NEW j \in Parts PROVE Word(y, j) \in Value
  <2>1. j \in Nat /\ (j < DataCount => j \in Elements)
    BY <1>1, PartsAre DEF Elements
  <2>2. Parity(y).p \in Value /\ Parity(y).q \in Value
    BY PartsAre, ParityIs
  <2>3. QED
    BY <1>2, <2>1, <2>2 DEF Word
<1>5. \A v \in Value : v # None
  BY FieldAssumption DEF Value, None
<1>6. QED
  BY <1>2, <1>3, <1>4, <1>5

(* An attempt gives nothing when it cannot read all it needs, and the
   element lost when all that is as it should be.                           *)
LEMMA Rebuilds ==
  ASSUME Mapped, IsParity, NEW d, NEW present, NEW f \in Nat, NEW want \in Elements,
         NEW a \in 1 .. Attempts - 1
  PROVE  /\ (\E j \in Needed(want, a) : At(j, f) \notin present \/ d[Spot(j, f)] = None)
              => ReadRebuilt(d, present, ParityRead(f), want, a) = None
         /\ \A y : /\ Alike(y, y, {})
                   /\ \A j \in Needed(want, a) :
                        At(j, f) \in present /\ d[Spot(j, f)] = Word(y, j)
                   => ReadRebuilt(d, present, ParityRead(f), want, a) = Word(y, want)
<1> DEFINE plan == ParityRead(f)
           lost == {want} \cup IF a >= 3 THEN {Other(want, a)} ELSE {}
           data == [i \in DOMAIN plan.data |->
                      IF i \in lost THEN None ELSE Element(d, present, plan.data[i])]
           p == Element(d, present, plan.p)
           q == IF plan.q = {} THEN None ELSE Element(d, present, CHOOSE at \in plan.q : TRUE)
           got == ReadRebuilt(d, present, plan, want, a)
<1>1. got = IF \/ \E i \in DOMAIN data \ lost : data[i] = None
               \/ a # 2 /\ p = None
               \/ a >= 2 /\ q = None THEN None
            ELSE IF a = 1 THEN RebuildP(want, data, p)
            ELSE IF a = 2 THEN RebuildQ(want, data, q)
            ELSE RebuildPQ(want, Other(want, a), data, p, q)
  BY DEF ReadRebuilt
<1>2. /\ DOMAIN data = Elements /\ lost = Without(want, a)
      /\ \A i \in Elements \ lost : data[i] = IF At(i, f) \in present THEN d[Spot(i, f)] ELSE None
  <2>1. plan.data = [i \in Elements |-> Spot(i, f)]
    BY SpotIs
  <2> HIDE DEF plan
  <2>2. \A i \in Elements \ lost : data[i] = Element(d, present, Spot(i, f))
    BY <2>1
  <2>3. QED
    BY <2>1, <2>2, ElementAt DEF Without
<1>3. p = IF At(DataCount, f) \in present THEN d[Spot(DataCount, f)] ELSE None
  <2>1. p = Element(d, present, Spot(DataCount, f))
    BY SpotIs
  <2>2. QED
    BY <2>1, ElementAt
<1>4. /\ a \in Nat /\ a >= 1
      /\ a >= 3 => Other(want, a) \in Elements /\ Other(want, a) # want
  BY OthersAre
<1>5. ASSUME a >= 2
      PROVE  q = IF At(DataCount + 1, f) \in present THEN d[Spot(DataCount + 1, f)] ELSE None
  <2>1. plan.q = {Spot(DataCount + 1, f)}
    BY <1>5, OthersAre, SpotIs
  <2> HIDE DEF plan
  <2>2. (CHOOSE at \in plan.q : TRUE) = Spot(DataCount + 1, f) /\ plan.q # {}
    BY <2>1
  <2>3. q = Element(d, present, Spot(DataCount + 1, f))
    BY <2>2
  <2>4. QED
    BY <2>3, ElementAt
<1>6. /\ \A i \in Elements \ lost : i \in Needed(want, a)
      /\ a # 2 => DataCount \in Needed(want, a)
      /\ a >= 2 => DataCount + 1 \in Needed(want, a)
      /\ \A j \in Needed(want, a) : \/ j \in Elements \ lost
                                    \/ a # 2 /\ j = DataCount
                                    \/ a >= 2 /\ j = DataCount + 1
  BY <1>2 DEF Needed
<1> HIDE DEF lost, data, p, q, got
<1>7. ASSUME NEW j \in Needed(want, a), At(j, f) \notin present \/ d[Spot(j, f)] = None
      PROVE  got = None
  <2>1. CASE j \in Elements \ lost
    <3>1. \E i \in DOMAIN data \ lost : data[i] = None
      BY <1>2, <1>7, <2>1
    <3>2. QED
      BY <1>1, <3>1
  <2>2. CASE a # 2 /\ j = DataCount
    <3>1. p = None
      BY <1>3, <1>7, <2>2
    <3>2. QED
      BY <1>1, <2>2, <3>1
  <2>3. CASE a >= 2 /\ j = DataCount + 1
    <3>1. q = None
      BY <1>5, <1>7, <2>3
    <3>2. QED
      BY <1>1, <2>3, <3>1
  <2>4. QED
    BY <1>6, <2>1, <2>2, <2>3
<1>8. ASSUME NEW y, Alike(y, y, {}),
             \A j \in Needed(want, a) : At(j, f) \in present /\ d[Spot(j, f)] = Word(y, j)
      PROVE  got = y[want]
  <2>1. /\ \A i \in Elements : Word(y, i) = y[i] /\ Word(y, i) # None
        /\ Word(y, DataCount) = Parity(y).p /\ Word(y, DataCount + 1) = Parity(y).q
        /\ Word(y, DataCount) # None
        /\ a >= 2 => Word(y, DataCount + 1) # None
    <3>1. Elements \subseteq Parts /\ DataCount \in Parts
          /\ (layout.profile = "raid6" => DataCount + 1 \in Parts)
      BY PartsAre
    <3>2. a >= 2 => layout.profile = "raid6"
      BY OthersAre
    <3>3. QED
      BY <1>8, <3>1, <3>2, WordIs
  <2>2. \A i \in Elements \ lost : data[i] = y[i] /\ data[i] # None
    BY <1>2, <1>6, <1>8, <2>1
  <2>3. Alike(data, y, lost)
    BY <1>2, <1>8, <2>2 DEF Alike
  <2>4. a # 2 => p = Parity(y).p /\ p # None
    BY <1>3, <1>6, <1>8, <2>1
  <2>5. a >= 2 => q = Parity(y).q /\ q # None
    BY <1>5, <1>6, <1>8, <2>1
  <2>6. ~ (\E i \in DOMAIN data \ lost : data[i] = None)
    BY <1>2, <2>2
  <2>7. Fits
    BY PartsAre
  <2>8. CASE a = 1
    <3>1. lost = {want}
      BY <2>8 DEF lost
    <3>2. got = RebuildP(want, data, p)
      BY <1>1, <2>4, <2>6, <2>8
    <3>3. RebuildP(want, data, Parity(y).p) = y[want]
      BY <2>3, <2>7, <3>1, RebuildsP
    <3>4. QED
      BY <2>4, <2>8, <3>2, <3>3
  <2>9. CASE a = 2
    <3>1. lost = {want}
      BY <2>9 DEF lost
    <3>2. got = RebuildQ(want, data, q)
      BY <1>1, <2>5, <2>6, <2>9
    <3>3. RebuildQ(want, data, Parity(y).q) = y[want]
      BY <2>3, <2>7, <3>1, RebuildsQ
    <3>4. QED
      BY <2>5, <2>9, <3>2, <3>3
  <2>10. CASE a >= 3
    <3> DEFINE other == Other(want, a)
    <3>1. lost = {want, other} /\ other \in Elements /\ other # want
      BY <1>4, <2>10 DEF lost
    <3>2. got = RebuildPQ(want, other, data, p, q)
      BY <1>1, <1>4, <2>4, <2>5, <2>6, <2>10
    <3> HIDE DEF other
    <3>3. RebuildPQ(want, other, data, Parity(y).p, Parity(y).q) = y[want]
      BY <2>3, <2>7, <3>1, RebuildsPQ
    <3>4. p = Parity(y).p /\ q = Parity(y).q
      BY <1>4, <2>4, <2>5, <2>10
    <3>5. QED
      BY <3>2, <3>3, <3>4
  <2>11. QED
    BY <1>4, <2>8, <2>9, <2>10
<1>9. QED
  BY <1>7, <1>8, WordIs DEF got

(* Sets of one or two.                                                      *)
LEMMA Few ==
  ASSUME NEW M, IsFiniteSet(M)
  PROVE  /\ Cardinality(M) <= 1 => \A s, t \in M : s = t
         /\ Cardinality(M) <= 2 => \A s, t, v \in M : s = t \/ s = v \/ t = v
<1>1. ASSUME NEW s \in M, NEW t \in M, s # t
      PROVE  IsFiniteSet({s, t}) /\ Cardinality({s, t}) = 2
  <2>1. IsFiniteSet({s}) /\ Cardinality({s}) = 1
    BY FS_Singleton
  <2>2. t \notin {s} /\ {s} \cup {t} = {s, t}
    BY <1>1
  <2>3. QED
    BY <2>1, <2>2, FS_AddElement
<1>2. ASSUME NEW s \in M, NEW t \in M, s # t PROVE Cardinality(M) >= 2
  <2>1. {s, t} \subseteq M
    OBVIOUS
  <2>2. Cardinality({s, t}) <= Cardinality(M) /\ Cardinality(M) \in Nat
    BY <2>1, FS_Subset, FS_CardinalityType
  <2>3. QED
    BY <1>1, <1>2, <2>2
<1>3. ASSUME NEW s \in M, NEW t \in M, NEW v \in M, s # t, s # v, t # v
      PROVE  Cardinality(M) >= 3
  <2>1. IsFiniteSet({s, t}) /\ Cardinality({s, t}) = 2
    BY <1>1, <1>3
  <2>2. v \notin {s, t} /\ {s, t} \cup {v} = {s, t, v}
    BY <1>3
  <2>3. Cardinality({s, t, v}) = 3
    BY <2>1, <2>2, FS_AddElement
  <2>4. {s, t, v} \subseteq M
    OBVIOUS
  <2>5. Cardinality({s, t, v}) <= Cardinality(M) /\ Cardinality(M) \in Nat
    BY <2>4, FS_Subset, FS_CardinalityType
  <2>6. QED
    BY <2>3, <2>5
<1>4. Cardinality(M) \in Nat
  BY FS_CardinalityType
<1>5. QED
  BY <1>2, <1>3, <1>4

(* Sets of stripes are finite.                                               *)
LEMMA StripesFinite ==
  ASSUME Mapped, NEW M \in SUBSET Stripe
  PROVE  IsFiniteSet(M)
<1>1. layout.n \in Nat
  BY LayoutIs
<1>2. IsFiniteSet(Stripe)
  BY <1>1, FS_Interval DEF Stripe
<1>3. QED
  BY <1>2, FS_Subset

(* Of an element lost among as many as the profile survives some attempt
   needs none of those lost.                                                *)
LEMMA Decodes ==
  ASSUME Mapped, IsParity, NEW f \in Nat, NEW want \in Elements,
         NEW M \in SUBSET Stripe, Survives(M), At(want, f) \in M
  PROVE  \E a \in 1 .. Attempts - 1 : \A j \in Needed(want, a) : j \in Parts /\ At(j, f) \notin M
<1> DEFINE away(j) == At(j, f) \notin M
<1>1. IsFiniteSet(M)
  BY StripesFinite
<1>2. /\ DataCount \in Nat /\ Elements \subseteq Parts /\ DataCount \in Parts
      /\ want \in Parts /\ want # DataCount /\ want # DataCount + 1
      /\ (layout.profile = "raid6" => DataCount + 1 \in Parts)
  BY PartsAre DEF Elements
<1>3. \A j, k \in Parts : At(j, f) = At(k, f) => j = k
  BY Spots
<1>4. Attempts = IF layout.profile = "raid6" THEN DataCount + 2 ELSE 2
  BY AttemptsAre
<1>5. CASE layout.profile = "raid5"
  <2>1. Cardinality(M) <= 1
    <3>1. IsFiniteSet({}) /\ Cardinality({}) = 0
      BY FS_EmptySet
    <3>2. QED
      BY <1>5, <3>1 DEF Survives
  <2>2. \A s, t \in M : s = t
    BY <1>1, <2>1, Few
  <2>3. ASSUME NEW j \in Parts, j # want PROVE away(j)
    BY <1>2, <1>3, <2>2, <2>3
  <2>4. Needed(want, 1) = (Elements \ {want}) \cup {DataCount}
    BY DEF Needed, Without
  <2>5. 1 \in 1 .. Attempts - 1
    BY <1>4, <1>5
  <2>6. \A j \in Needed(want, 1) : j \in Parts /\ away(j)
    BY <1>2, <2>3, <2>4
  <2>7. QED
    BY <2>5, <2>6
<1>6. CASE layout.profile = "raid6"
  <2>1. Cardinality(M) <= 2
    <3>1. IsFiniteSet({}) /\ Cardinality({}) = 0
      BY FS_EmptySet
    <3>2. QED
      BY <1>6, <3>1 DEF Survives
  <2>2. \A s, t, v \in M : s = t \/ s = v \/ t = v
    BY <1>1, <2>1, Few
  <2>3. ASSUME NEW o \in Parts, o # want, ~ away(o), NEW j \in Parts, j # want, j # o
        PROVE  away(j)
    <3>1. At(j, f) # At(o, f) /\ At(j, f) # At(want, f) /\ At(o, f) # At(want, f)
      BY <1>2, <1>3, <2>3
    <3>2. QED
      BY <2>2, <2>3, <3>1
  <2> DEFINE others == Elements \ {want}
  <2>4. CASE \E o \in others : ~ away(o)
    <3>1. PICK o \in others : ~ away(o)
      BY <2>4
    <3>2. PICK a \in 1 .. Attempts - 1 : a >= 3 /\ Other(want, a) = o
      BY <1>6, <3>1, OthersAre
    <3>3. a \in Nat
      BY OthersAre
    <3>4. Needed(want, a) = (Elements \ {want, o}) \cup {DataCount, DataCount + 1}
      BY <3>2, <3>3 DEF Needed, Without
    <3>5. o \in Parts /\ o # want /\ o # DataCount /\ o # DataCount + 1
      BY <1>2, <3>1 DEF Elements
    <3>6. ASSUME NEW j \in Needed(want, a) PROVE j \in Parts /\ j # want /\ j # o
      BY <1>2, <1>6, <3>4, <3>5
    <3>7. \A j \in Needed(want, a) : j \in Parts /\ away(j)
      BY <2>3, <3>1, <3>5, <3>6
    <3>8. QED
      BY <3>7
  <2>5. CASE (\A o \in others : away(o)) /\ away(DataCount)
    <3>1. Needed(want, 1) = (Elements \ {want}) \cup {DataCount}
      BY DEF Needed, Without
    <3>2. 1 \in 1 .. Attempts - 1
      BY <1>2, <1>4
    <3>3. \A j \in Needed(want, 1) : j \in Parts /\ away(j)
      BY <1>2, <2>5, <3>1
    <3>4. QED
      BY <3>2, <3>3
  <2>6. CASE (\A o \in others : away(o)) /\ ~ away(DataCount)
    <3>1. Needed(want, 2) = (Elements \ {want}) \cup {DataCount + 1}
      BY DEF Needed, Without
    <3>2. 2 \in 1 .. Attempts - 1
      <4>1. DataCount > 0
        BY PartsAre
      <4>2. QED
        BY <1>2, <1>4, <1>6, <4>1
    <3>3. away(DataCount + 1)
      <4>1. DataCount + 1 # DataCount
        BY <1>2
      <4>2. QED
        BY <1>2, <1>6, <2>3, <2>6, <4>1
    <3>4. \A j \in Needed(want, 2) : j \in Parts /\ away(j)
      BY <1>2, <1>6, <2>6, <3>1, <3>3
    <3>5. QED
      BY <3>2, <3>4
  <2>7. QED
    BY <2>4, <2>5, <2>6
<1>7. QED
  BY <1>5, <1>6 DEF IsParity

(* A unit is to be had from what is left of a full stripe that is right
   but for what the profile survives.                                       *)
LEMMA Recovers ==
  ASSUME Mapped, IsParity, NEW d, NEW present, NEW u \in Units, NEW y, Alike(y, y, {}),
         NEW M \in SUBSET Stripe, Survives(M),
         \A j \in Parts : At(j, Full(u)) \notin M =>
           At(j, Full(u)) \in present /\ d[Spot(j, Full(u))] = Word(y, j)
  PROVE  \E a \in 0 .. Attempts - 1 : ReadCopy(d, present, u, a) = y[u % DataCount]
<1> DEFINE f == Full(u)
           want == u % DataCount
<1>1. f \in Nat /\ want \in Elements /\ want \in Parts /\ MapMirror(u, 0) = Spot(want, f)
  BY UnitIs, PartsAre
<1>2. Attempts \in Nat /\ Attempts >= 2
  <2>1. DataCount \in Nat
    BY PartsAre
  <2>2. QED
    BY <2>1, AttemptsAre
<1> HIDE DEF f, want
<1>3. CASE At(want, f) \notin M
  <2>1. At(want, f) \in present /\ d[Spot(want, f)] = y[want]
    BY <1>1, <1>3, WordIs DEF f
  <2>2. MapMirror(u, 0)[1] = At(want, f)
    BY <1>1 DEF Spot
  <2>3. ReadCopy(d, present, u, 0) = Element(d, present, Spot(want, f))
    BY <1>1, <2>1, <2>2 DEF ReadCopy
  <2>4. ReadCopy(d, present, u, 0) = y[want]
    BY <2>1, <2>3, ElementAt
  <2>5. QED
    BY <1>2, <2>4 DEF want
<1>4. CASE At(want, f) \in M
  <2>1. PICK a \in 1 .. Attempts - 1 :
               \A j \in Needed(want, a) : j \in Parts /\ At(j, f) \notin M
    BY <1>1, <1>4, Decodes
  <2>2. \A j \in Needed(want, a) : At(j, f) \in present /\ d[Spot(j, f)] = Word(y, j)
    BY <2>1 DEF f
  <2>3. ReadRebuilt(d, present, ParityRead(f), want, a) = y[want]
    <3>1. ReadRebuilt(d, present, ParityRead(f), want, a) = Word(y, want)
      BY <1>1, <2>2, Rebuilds
    <3>2. QED
      BY <1>1, <3>1, WordIs
  <2>4. a > 0 /\ a \in 0 .. Attempts - 1
    BY <1>2
  <2>5. ReadCopy(d, present, u, a) = ReadRebuilt(d, present, ParityRead(f), want, a)
    BY <2>4 DEF ReadCopy, ReadOther, f, want
  <2>6. QED
    BY <2>3, <2>4, <2>5 DEF want
<1>5. QED
  BY <1>3, <1>4

-----------------------------------------------------------------------------
(* Mirrors                                                                   *)

\* The stripe of a copy of a unit.
CopyAt(u, m) == IF layout.profile = "raid10" THEN layout.sub * (u % Groups) + m ELSE m

(* The copies of a unit are in its row, on stripes of the chunk.             *)
LEMMA MirrorIs ==
  ASSUME Mapped, ~ IsParity
  PROVE  /\ Mirrors \in Nat /\ Mirrors > 0 /\ Attempts = Mirrors
         /\ \A u \in Units, m \in 0 .. Mirrors - 1 :
              /\ MapMirror(u, m) = <<CopyAt(u, m), Row(u)>>
              /\ CopyAt(u, m) \in Stripe /\ Row(u) \in Rows
<1>1. layout.profile \in {"raid1", "raid10"}
  BY LayoutIs DEF IsParity
<1>2. Attempts = Mirrors /\ Mirrors \in Nat /\ Mirrors > 0
  BY <1>1, LayoutIs DEF Attempts, Mirrors, IsParity
<1>3. ASSUME NEW u \in Units, NEW m \in 0 .. Mirrors - 1
      PROVE  /\ MapMirror(u, m) = <<CopyAt(u, m), Row(u)>>
             /\ CopyAt(u, m) \in Stripe /\ Row(u) \in Rows
  <2>1. Row(u) \in Rows
    BY DEF Rows
  <2>2. CASE layout.profile = "raid10"
    <3> DEFINE g == u % Groups
    <3>1. Groups \in Nat /\ Groups > 0 /\ Groups = Columns(layout) /\ layout.n = layout.sub * Groups
      BY <2>2, Columned
    <3>2. g \in 0 .. Groups - 1
      BY <3>1, Rowed
    <3>3. MapMirror(u, m) = <<g * layout.sub + m, u \div Groups>>
          /\ MapMirror(u, 0) = <<g * layout.sub + 0, u \div Groups>>
      BY <2>2 DEF MapMirror, IsParity, Groups
    <3>4. Row(u) = u \div Groups
      BY <3>3 DEF Row
    <3>5. layout.sub \in Nat /\ layout.sub > 0 /\ m \in 0 .. layout.sub - 1
      <4>1. Mirrors = layout.sub
        BY <2>2 DEF Mirrors, IsParity
      <4>2. QED
        BY <4>1, LayoutIs
    <3> HIDE DEF g
    <3>6. g * layout.sub = layout.sub * g /\ layout.sub * g \in Int
      BY <3>2, <3>5
    <3>7. layout.sub * g + layout.sub <= layout.sub * Groups
      BY <3>1, <3>2, <3>5, Apart
    <3>8. layout.sub * g >= 0
      <4>1. 0 < g => layout.sub * 0 + layout.sub <= layout.sub * g
        BY <3>2, <3>5, Apart
      <4>2. layout.sub * 0 = 0
        BY <3>5
      <4>3. QED
        BY <3>2, <3>5, <3>6, <4>1, <4>2
    <3>9. layout.sub * g + m \in Stripe
      BY <3>1, <3>5, <3>6, <3>7, <3>8, LayoutIs DEF Stripe
    <3>10. CopyAt(u, m) = layout.sub * g + m
      BY <2>2 DEF CopyAt, g
    <3>11. QED
      BY <2>1, <3>3, <3>4, <3>6, <3>9, <3>10
  <2>3. CASE layout.profile = "raid1"
    <3>1. MapMirror(u, m) = <<m, u>> /\ MapMirror(u, 0) = <<0, u>> /\ Mirrors = layout.n
      BY <2>3 DEF MapMirror, Mirrors, IsParity
    <3>2. Row(u) = u /\ CopyAt(u, m) = m
      BY <2>3, <3>1 DEF Row, CopyAt
    <3>3. m \in Stripe
      BY <3>1 DEF Stripe
    <3>4. QED
      BY <2>1, <3>1, <3>2, <3>3
  <2>4. QED
    BY <1>1, <2>2, <2>3
<1>4. QED
  BY <1>2, <1>3

(* No two copies are in one place.                                          *)
LEMMA CopiesApart ==
  ASSUME Mapped, ~ IsParity, NEW u \in Units, NEW v \in Units,
         NEW m \in 0 .. Mirrors - 1, NEW k \in 0 .. Mirrors - 1,
         MapMirror(u, m) = MapMirror(v, k)
  PROVE  u = v /\ m = k
<1>1. CopyAt(u, m) = CopyAt(v, k) /\ Row(u) = Row(v)
  BY MirrorIs
<1>2. layout.profile \in {"raid1", "raid10"}
  BY LayoutIs DEF IsParity
<1>3. /\ u = Columns(layout) * Row(u) + (u % Columns(layout))
      /\ v = Columns(layout) * Row(v) + (v % Columns(layout))
      /\ u % Columns(layout) \in Nat /\ v % Columns(layout) \in Nat
  BY Rowed, Columned
<1>4. CASE layout.profile = "raid10"
  <2> DEFINE g == u % Groups
             h == v % Groups
             s == layout.sub
  <2>1. Groups = Columns(layout) /\ Mirrors = s /\ s \in Int /\ s > 0
    BY <1>4, Columned, LayoutIs DEF Mirrors, IsParity
  <2>2. s * g + m = s * h + k
    BY <1>1, <1>4 DEF CopyAt
  <2>3. g \in Int /\ h \in Int
    BY <1>3, <2>1
  <2> HIDE DEF g, h, s
  <2>4. g = h /\ m = k
    BY <2>1, <2>2, <2>3, Multiples
  <2>5. u = v
    BY <1>1, <1>3, <2>1, <2>4 DEF g, h
  <2>6. QED
    BY <2>4, <2>5
<1>5. CASE layout.profile = "raid1"
  <2>1. m = k
    BY <1>1, <1>5 DEF CopyAt
  <2>2. Row(u) = u /\ Row(v) = v
    BY <1>5 DEF Row, MapMirror, IsParity
  <2>3. QED
    BY <1>1, <2>1, <2>2
<1>6. QED
  BY <1>2, <1>4, <1>5

(* Of each unit a copy survives what the profile does.                      *)
LEMMA CopySurvives ==
  ASSUME Mapped, ~ IsParity, NEW u \in Units, NEW M \in SUBSET Stripe, Survives(M)
  PROVE  \E m \in 0 .. Mirrors - 1 : CopyAt(u, m) \notin M
<1>1. layout.profile \in {"raid1", "raid10"}
  BY LayoutIs DEF IsParity
<1>2. CASE M = {}
  <2>1. 0 \in 0 .. Mirrors - 1
    BY MirrorIs
  <2>2. QED
    BY <1>2, <2>1
<1>3. CASE M # {} /\ layout.profile = "raid10"
  <2>1. \A g \in 0 .. Groups - 1 : \E m \in 0 .. layout.sub - 1 : g * layout.sub + m \notin M
    BY <1>3 DEF Survives, Groups
  <2>2. u % Groups \in 0 .. Groups - 1 /\ layout.sub \in Nat /\ Groups \in Nat
    BY <1>3, Columned, Rowed, LayoutIs
  <2>3. PICK m \in 0 .. layout.sub - 1 : (u % Groups) * layout.sub + m \notin M
    BY <2>1, <2>2
  <2>4. Mirrors = layout.sub
    BY <1>3 DEF Mirrors, IsParity
  <2>5. (u % Groups) * layout.sub = layout.sub * (u % Groups)
    <3> DEFINE g == u % Groups
    <3>1. g \in Int /\ layout.sub \in Int
      BY <2>2
    <3> HIDE DEF g
    <3>2. g * layout.sub = layout.sub * g
      BY <3>1
    <3>3. QED
      BY <3>2 DEF g
  <2>6. QED
    BY <1>3, <2>3, <2>4, <2>5 DEF CopyAt
<1>4. CASE M # {} /\ layout.profile = "raid1"
  <2>1. Stripe \ M # {}
    BY <1>4 DEF Survives
  <2>2. Mirrors = layout.n
    BY <1>4 DEF Mirrors, IsParity
  <2>3. QED
    BY <1>4, <2>1, <2>2 DEF Stripe, CopyAt
<1>5. QED
  BY <1>1, <1>2, <1>3, <1>4

(* A copy that can be read is.                                              *)
LEMMA CopyReads ==
  ASSUME Mapped, ~ IsParity, NEW d, NEW present, NEW u \in Units, NEW m \in 0 .. Mirrors - 1,
         CopyAt(u, m) \in present
  PROVE  ReadCopy(d, present, u, m) = d[MapMirror(u, m)]
<1> DEFINE at == MapMirror(u, m)
<1>1. at[1] \in present /\ m \in Nat
  BY MirrorIs
<1>2. Element(d, present, MapMirror(u, m)) = d[MapMirror(u, m)]
  <2> HIDE DEF at
  <2>1. Element(d, present, at) = d[at]
    BY <1>1 DEF Element
  <2>2. QED
    BY <2>1 DEF at
<1>3. CASE m > 0
  BY <1>2, <1>3 DEF ReadCopy, ReadOther
<1>4. CASE m = 0
  BY <1>1, <1>2, <1>4 DEF ReadCopy
<1>5. QED
  BY <1>1, <1>3, <1>4

(* Every place holds a copy of some unit.                                   *)
LEMMA CopyEverywhere ==
  ASSUME Mapped, ~ IsParity, NEW at \in Stripe \X Rows
  PROVE  \E u \in Units, m \in 0 .. Mirrors - 1 : MapMirror(u, m) = at
<1> DEFINE s == at[1]
           r == at[2]
<1>1. at = <<s, r>> /\ s \in Stripe /\ r \in Rows
  OBVIOUS
<1> HIDE DEF s, r
<1>2. layout.profile \in {"raid1", "raid10"}
  BY LayoutIs DEF IsParity
<1>3. CASE layout.profile = "raid10"
  <2> DEFINE n == layout.sub
             g == s \div n
             m == s % n
  <2>1. /\ n \in Int /\ n > 0 /\ Groups \in Nat /\ Groups > 0 /\ Groups = Columns(layout)
        /\ layout.n = n * Groups /\ Mirrors = n
    BY <1>3, Columned, LayoutIs DEF Mirrors, IsParity
  <2>2. s \in Int /\ 0 <= s /\ s < n * Groups
    BY <1>1, <2>1, LayoutIs DEF Stripe
  <2>3. s = n * g + m /\ m \in 0 .. n - 1 /\ g \in Int
    BY <2>1, <2>2, Division
  <2> HIDE DEF n, g, m
  <2>4. g \in 0 .. Groups - 1
    <3>1. (g < 0 => n * g + n <= n * 0) /\ (Groups < g => n * Groups + n <= n * g)
      BY <2>1, <2>3, Apart
    <3>2. n * g \in Int /\ n * Groups \in Int /\ n * 0 = 0
      BY <2>1, <2>3
    <3>3. ~ (g < 0) /\ ~ (Groups < g) /\ g # Groups
      BY <2>1, <2>2, <2>3, <3>1, <3>2
    <3>4. QED
      BY <2>1, <2>3, <3>3
  <2> DEFINE u == Groups * r + g
  <2>5. u \in Units /\ u \div Groups = r /\ u % Groups = g
    BY <1>1, <2>1, <2>4, Rowed
  <2> HIDE DEF u
  <2>6. Row(u) = r
    BY <2>1, <2>5, Rowed
  <2>7. CopyAt(u, m) = s
    BY <1>3, <2>3, <2>5 DEF CopyAt, n
  <2>8. MapMirror(u, m) = at
    BY <1>1, <2>1, <2>3, <2>5, <2>6, <2>7, MirrorIs
  <2>9. QED
    BY <2>1, <2>3, <2>5, <2>8
<1>4. CASE layout.profile = "raid1"
  <2>1. Mirrors = layout.n /\ s \in 0 .. Mirrors - 1
    BY <1>1, <1>4 DEF Mirrors, IsParity, Stripe
  <2>2. PICK u \in Units : Row(u) = r
    BY <1>1 DEF Rows
  <2>3. CopyAt(u, s) = s
    BY <1>4 DEF CopyAt
  <2>4. MapMirror(u, s) = at
    BY <1>1, <2>1, <2>2, <2>3, MirrorIs
  <2>5. QED
    BY <2>1, <2>4
<1>5. QED
  BY <1>2, <1>3, <1>4

(* Units are mapped to places of their own.                                 *)
LEMMA PlacesApart ==
  ASSUME Mapped
  PROVE  /\ \A u, v \in Units, m, k \in 0 .. Mirrors - 1 :
              MapMirror(u, m) = MapMirror(v, k) => u = v /\ m = k
         /\ \A u \in Units, m \in 0 .. Mirrors - 1 :
              /\ MapMirror(u, m) \in Stripe \X Rows /\ MapMirror(u, m)[2] = Row(u)
              /\ Row(u) \in Rows
         /\ Mirrors \in Nat /\ Mirrors > 0
<1>1. CASE IsParity
  <2>1. Mirrors = 1 /\ \A m \in 0 .. Mirrors - 1 : m = 0
    BY <1>1, UnitIs
  <2>2. ASSUME NEW u \in Units PROVE MapMirror(u, 0) \in Stripe \X Rows /\ MapMirror(u, 0)[2] = Row(u)
    <3>1. /\ MapMirror(u, 0) = Spot(u % DataCount, Full(u)) /\ u % DataCount \in Parts
          /\ Full(u) \in Rows /\ Full(u) = Row(u)
      BY <1>1, UnitIs, PartsAre
    <3>2. QED
      BY <1>1, <3>1, Everywhere DEF Spot
  <2>3. ASSUME NEW u \in Units, NEW v \in Units, MapMirror(u, 0) = MapMirror(v, 0) PROVE u = v
    <3>1. /\ MapMirror(u, 0) = Spot(u % DataCount, Full(u)) /\ u % DataCount \in Parts
          /\ MapMirror(v, 0) = Spot(v % DataCount, Full(v)) /\ v % DataCount \in Parts
          /\ Full(u) \in Rows /\ Full(v) \in Rows
          /\ u = Full(u) * DataCount + (u % DataCount)
          /\ v = Full(v) * DataCount + (v % DataCount)
      BY <1>1, UnitIs, PartsAre
    <3>2. Full(u) = Full(v) /\ u % DataCount = v % DataCount
      BY <1>1, <2>3, <3>1, Everywhere
    <3>3. QED
      BY <3>1, <3>2
  <2>4. \A u \in Units : Row(u) \in Rows
    BY DEF Rows
  <2>5. QED
    BY <2>1, <2>2, <2>3, <2>4
<1>2. CASE ~ IsParity
  <2>1. ASSUME NEW u \in Units, NEW m \in 0 .. Mirrors - 1
        PROVE  /\ MapMirror(u, m) \in Stripe \X Rows /\ MapMirror(u, m)[2] = Row(u)
               /\ Row(u) \in Rows
    BY <1>2, MirrorIs
  <2>2. QED
    BY <1>2, <2>1, MirrorIs, CopiesApart
<1>3. QED
  BY <1>1, <1>2

-----------------------------------------------------------------------------
(* What the chunk is said to hold                                            *)

\* The data of a full stripe when the units hold x.
Of(x, f) == [i \in Elements |-> x[f * DataCount + i]]

(* The data elements a full stripe holds of the units.                       *)
LEMMA OfIs ==
  ASSUME Mapped, IsParity, NEW x \in [Units -> Value], NEW f \in Rows
  PROVE  /\ Alike(Of(x, f), Of(x, f), {})
         /\ \A j \in Parts : Word(Of(x, f), j) \in Value /\ Word(Of(x, f), j) # None
         /\ \A i \in Elements : /\ Word(Of(x, f), i) = x[f * DataCount + i]
                                /\ Of(x, f)[i] = x[f * DataCount + i]
<1>1. \A i \in Elements : f * DataCount + i \in Units
  BY UnitIs
<1>2. \A i \in Elements : Of(x, f)[i] = x[f * DataCount + i] /\ Of(x, f)[i] \in Value
  BY <1>1 DEF Of
<1>3. Alike(Of(x, f), Of(x, f), {})
  BY <1>2 DEF Alike, Of
<1>4. QED
  BY <1>2, <1>3, WordIs

(* The chunk made of what the units hold.                                   *)
LEMMA ImageOfParity ==
  ASSUME Mapped, IsParity, NEW x, NEW f \in Rows, NEW j \in Parts
  PROVE  Image(x, Spot(j, f)) = Word(Of(x, f), j)
<1> DEFINE at == Spot(j, f)
           place == Placement(at[2])
           data == [i \in DOMAIN place.data |-> x[at[2] * DataCount + i]]
<1>1. at[1] = At(j, f) /\ at[2] = f /\ f \in Nat
  BY Everywhere DEF Spot
<1>2. /\ place.data = [i \in Elements |-> At(i, f)] /\ place.p = At(DataCount, f)
      /\ place.q = IF layout.profile = "raid6" THEN {At(DataCount + 1, f)} ELSE {}
  BY <1>1, SpotIs
<1>3. data = Of(x, f)
  <2>1. DOMAIN place.data = Elements
    BY <1>2
  <2> HIDE DEF place, at
  <2>2. QED
    BY <1>1, <2>1 DEF Of
<1>4. Image(x, at) = IF at[1] = place.p THEN Parity(data).p
                     ELSE IF at[1] \in place.q THEN Parity(data).q
                     ELSE data[CHOOSE i \in DOMAIN data : place.data[i] = at[1]]
  BY DEF Image
<1>5. /\ DataCount \in Nat /\ DataCount \in Parts /\ Elements \subseteq Parts
      /\ Parts = Elements \cup Checks
      /\ Checks = IF layout.profile = "raid6" THEN {DataCount, DataCount + 1} ELSE {DataCount}
      /\ \A i \in Elements : i < DataCount
      /\ \A k, l \in Parts : At(k, f) = At(l, f) => k = l
  <2>1. /\ DataCount \in Nat /\ DataCount \in Parts /\ Elements \subseteq Parts
        /\ Parts = Elements \cup Checks
        /\ Checks = IF layout.profile = "raid6" THEN {DataCount, DataCount + 1} ELSE {DataCount}
    BY PartsAre
  <2>2. \A i \in Elements : i < DataCount
    BY <2>1 DEF Elements
  <2>3. \A k, l \in Parts : At(k, f) = At(l, f) => k = l
    BY <1>1, Spots
  <2>4. QED
    BY <2>1, <2>2, <2>3
<1> HIDE DEF place, data, at
<1>6. CASE j = DataCount
  BY <1>1, <1>2, <1>3, <1>4, <1>5, <1>6 DEF Word, at
<1>7. CASE j # DataCount /\ j \in Checks
  <2>1. j = DataCount + 1 /\ layout.profile = "raid6"
    BY <1>5, <1>7
  <2>2. at[1] # place.p /\ at[1] \in place.q
    BY <1>1, <1>2, <1>5, <1>7, <2>1
  <2>3. Word(Of(x, f), j) = Parity(Of(x, f)).q
    BY <1>5, <2>1 DEF Word
  <2>4. QED
    BY <1>3, <1>4, <2>2, <2>3 DEF at
<1>8. CASE j \in Elements
  <2>1. at[1] # place.p
    BY <1>1, <1>2, <1>5, <1>8
  <2>2. at[1] \notin place.q
    BY <1>1, <1>2, <1>5, <1>8
  <2>3. DOMAIN data = Elements
    BY <1>3 DEF Of
  <2>4. (CHOOSE i \in DOMAIN data : place.data[i] = at[1]) = j
    <3>1. \A i \in Elements : place.data[i] = at[1] <=> i = j
      BY <1>1, <1>2, <1>5, <1>8
    <3>2. QED
      BY <1>8, <2>3, <3>1
  <2>5. Image(x, at) = data[j]
    BY <1>4, <2>1, <2>2, <2>4
  <2>6. Word(Of(x, f), j) = Of(x, f)[j]
    BY <1>5, <1>8 DEF Word
  <2>7. QED
    BY <1>3, <2>5, <2>6 DEF at
<1>9. QED
  BY <1>5, <1>6, <1>7, <1>8

(* The chunk made of mirrored units holds each in every copy.                *)
LEMMA ImageOfCopies ==
  ASSUME Mapped, ~ IsParity, NEW x, NEW u \in Units, NEW m \in 0 .. Mirrors - 1
  PROVE  Image(x, MapMirror(u, m)) = x[u]
<1> DEFINE at == MapMirror(u, m)
<1>1. Image(x, at) = x[CHOOSE v \in Units : \E k \in 0 .. Mirrors - 1 : MapMirror(v, k) = at]
  BY DEF Image
<1>2. \A v \in Units : (\E k \in 0 .. Mirrors - 1 : MapMirror(v, k) = at) <=> v = u
  BY CopiesApart
<1> HIDE DEF at
<1>3. QED
  BY <1>1, <1>2 DEF at

-----------------------------------------------------------------------------
(* The inductive invariant                                                   *)

Outcomes == {"mounted", "wrote", "released", "repaired", "failed", "cut", "repair cut", "damaged"}

Typed ==
  /\ disk \in [Stripe \X Rows -> Value \cup {None}]
  /\ wrote \in [Units -> Value] /\ harm \in [Rows -> SUBSET Stripe]
  /\ calls \in 0 .. MaxCalls /\ faults \in 0 .. MaxFaults /\ outcome \in Outcomes

\* Extents of their own units, a tree block one unit.
ExtentsOK(h) ==
  /\ \A e \in h : /\ Span(e) \subseteq Units /\ e.at \in Units /\ e.len \in Nat \ {0}
                  /\ e.kind \in {"tree", "data", "nosum"} /\ (e.kind = "tree" => e.len = 1)
  /\ \A e, f \in h : e # f => Span(e) \cap Span(f) = {}

UnitsOf(h) == UNION {Span(e) : e \in h}
KindIn(h, u) == (CHOOSE e \in h : u \in Span(e)).kind
CoveredIn(h, u) == KindIn(h, u) \in {"tree", "data"}

\* The units hold x where d is not harmed: a parity chunk element by element,
\* whatever x is where nothing with a checksum is; another in every copy.
HoldsElements(x, d, h, w, g) ==
  /\ \A u \in UnitsOf(h) : CoveredIn(h, u) => x[u] = w[u]
  /\ \A f \in Rows, j \in Parts : At(j, f) \notin g[f] => d[Spot(j, f)] = Word(Of(x, f), j)
HoldsCopies(d, h, w, g) ==
  \A u \in UnitsOf(h), m \in 0 .. Mirrors - 1 :
    CoveredIn(h, u) /\ CopyAt(u, m) \notin g[Row(u)] => d[MapMirror(u, m)] = w[u]

Backed(d, h, w, g) ==
  IF IsParity THEN \E x \in [Units -> Value] : HoldsElements(x, d, h, w, g)
  ELSE HoldsCopies(d, h, w, g)

IInv == Mapped /\ Typed /\ ExtentsOK(held) /\ Backed(disk, held, wrote, harm)

(* A unit is of the kind of the one extent that holds it.                    *)
LEMMA KindIs ==
  ASSUME NEW h, ExtentsOK(h), NEW e \in h, NEW u \in Span(e)
  PROVE  KindIn(h, u) = e.kind /\ u \in UnitsOf(h) /\ u \in Units
<1>1. \A f \in h : u \in Span(f) => f = e
  BY DEF ExtentsOK
<1>2. (CHOOSE f \in h : u \in Span(f)) = e
  BY <1>1
<1>3. QED
  BY <1>2 DEF KindIn, UnitsOf, ExtentsOK

(* Raid's own names for these, of the extents held.                          *)
LEMMA HeldIs ==
  /\ HeldUnits = UnitsOf(held)
  /\ \A u : Kind(u) = KindIn(held, u) /\ (Covered(u) <=> CoveredIn(held, u))
BY DEF HeldUnits, UnitsOf, Kind, KindIn, Covered, CoveredIn

(* A held unit is in the chunk, and in an extent of its kind.                *)
LEMMA UnitsHeld ==
  ASSUME ExtentsOK(held)
  PROVE  /\ HeldUnits \subseteq Units
         /\ \A u \in HeldUnits : \E e \in held : u \in Span(e) /\ Kind(u) = e.kind
<1>1. \A u \in HeldUnits : \E e \in held : u \in Span(e)
  BY DEF HeldUnits
<1>2. ASSUME NEW e \in held, NEW u \in Span(e) PROVE Kind(u) = e.kind /\ u \in Units
  BY KindIs, HeldIs
<1>3. QED
  BY <1>1, <1>2

(* A chunk to start from is as the invariant says.                          *)
LEMMA IInvInit == Init => IInv
<1> SUFFICES ASSUME Init PROVE IInv
  OBVIOUS
<1>1. PICK l \in Layouts :
        /\ layout = l.layout /\ held = l.held /\ wrote = l.wrote
        /\ disk = [at \in Stripe \X Rows |-> Image(l.wrote, at)]
        /\ harm = [r \in Rows |-> {}]
        /\ calls = 0 /\ faults = 0 /\ outcome = "mounted"
  BY DEF Init
<1>2. Mapped
  BY <1>1 DEF Mapped
<1>3. /\ \A e \in held : /\ e.at \in Units /\ e.len \in Nat \ {0} /\ Span(e) \subseteq Units
                         /\ e.kind \in {"tree", "data", "nosum"} /\ (e.kind = "tree" => e.len = 1)
      /\ \A e, f \in held : e # f => Span(e) \cap Span(f) = {}
      /\ wrote \in [Units -> Value]
  <2> DEFINE unit == 0 .. l.layout.units - 1
             span(e) == e.at .. e.at + e.len - 1
  <2>1. /\ \A e \in l.held : /\ e.at \in unit /\ e.len \in Nat \ {0} /\ span(e) \subseteq unit
                             /\ e.kind \in {"tree", "data", "nosum"}
                             /\ (e.kind = "tree" => e.len = 1)
        /\ \A e, f \in l.held : e # f => span(e) \cap span(f) = {}
        /\ l.wrote \in [unit -> Value]
    <3>1. l \in Layouts
      OBVIOUS
    <3>2. \A e \in l.held : e.kind = "tree" => e.len = 1
      BY <3>1, LayoutsAssumption
    <3>3. \A e \in l.held : e.at \in unit /\ e.len \in Nat \ {0} /\ span(e) \subseteq unit
      BY <3>1, LayoutsAssumption
    <3>4. \A e \in l.held : e.kind \in {"tree", "data", "nosum"}
      BY <3>1, LayoutsAssumption
    <3>5. \A e, f \in l.held : e # f => span(e) \cap span(f) = {}
      BY <3>1, LayoutsAssumption
    <3>6. l.wrote \in [unit -> Value]
      BY <3>1, LayoutsAssumption
    <3>7. QED
      BY <3>2, <3>3, <3>4, <3>5, <3>6
  <2>2. layout = l.layout /\ held = l.held /\ wrote = l.wrote
    BY <1>1
  <2>3. Units = 0 .. l.layout.units - 1
    BY <2>2 DEF Units
  <2>4. \A e : Span(e) = e.at .. e.at + e.len - 1
    BY DEF Span
  <2>5. QED
    BY <2>1, <2>2, <2>3, <2>4
<1>4. ExtentsOK(held)
  BY <1>3 DEF ExtentsOK
<1>5. disk = [at \in Stripe \X Rows |-> Image(wrote, at)]
  BY <1>1
<1>6. disk \in [Stripe \X Rows -> Value \cup {None}]
  <2>1. ASSUME NEW at \in Stripe \X Rows PROVE Image(wrote, at) \in Value
    <3>1. CASE IsParity
      <4>1. PICK j \in Parts : at = Spot(j, at[2])
        BY <1>2, <3>1, Everywhere
      <4>2. at[2] \in Rows
        OBVIOUS
      <4>3. Image(wrote, at) = Word(Of(wrote, at[2]), j)
        BY <1>2, <3>1, <4>1, <4>2, ImageOfParity
      <4>4. QED
        BY <1>2, <1>3, <3>1, <4>2, <4>3, OfIs
    <3>2. CASE ~ IsParity
      <4>1. PICK u \in Units, m \in 0 .. Mirrors - 1 : MapMirror(u, m) = at
        BY <1>2, <3>2, CopyEverywhere
      <4>2. Image(wrote, MapMirror(u, m)) = wrote[u]
        BY <1>2, <3>2, ImageOfCopies
      <4>3. QED
        BY <1>3, <4>1, <4>2
    <3>3. QED
      BY <3>1, <3>2
  <2>2. QED
    BY <1>5, <2>1
<1>7. Typed
  <2>1. harm \in [Rows -> SUBSET Stripe]
    BY <1>1
  <2>2. calls \in 0 .. MaxCalls /\ faults \in 0 .. MaxFaults /\ outcome \in Outcomes
    BY <1>1, RaidAssumption DEF Outcomes
  <2>3. QED
    BY <1>3, <1>6, <2>1, <2>2 DEF Typed
<1>8. Backed(disk, held, wrote, harm)
  <2>1. CASE IsParity
    <3>1. ASSUME NEW f \in Rows, NEW j \in Parts PROVE disk[Spot(j, f)] = Word(Of(wrote, f), j)
      <4>1. Spot(j, f) \in Stripe \X Rows
        BY <1>2, <2>1, Everywhere
      <4>2. QED
        BY <1>2, <1>5, <2>1, <4>1, ImageOfParity
    <3>2. HoldsElements(wrote, disk, held, wrote, harm)
      BY <3>1 DEF HoldsElements
    <3>3. QED
      BY <1>3, <2>1, <3>2 DEF Backed
  <2>2. CASE ~ IsParity
    <3>1. ASSUME NEW u \in Units, NEW m \in 0 .. Mirrors - 1
          PROVE  disk[MapMirror(u, m)] = wrote[u]
      <4>1. MapMirror(u, m) \in Stripe \X Rows
        BY <1>2, PlacesApart
      <4>2. QED
        BY <1>2, <1>5, <2>2, <4>1, ImageOfCopies
    <3>2. UnitsOf(held) \subseteq Units
      BY <1>4, UnitsHeld, HeldIs
    <3>3. HoldsCopies(disk, held, wrote, harm)
      BY <3>1, <3>2 DEF HoldsCopies
    <3>4. QED
      BY <2>2, <3>3 DEF Backed
  <2>3. QED
    BY <2>1, <2>2
<1>9. QED
  BY <1>2, <1>4, <1>7, <1>8 DEF IInv

(* What it says: whatever is bearable is read.                              *)
LEMMA AnyVerifies ==
  ASSUME NEW d, NEW present, NEW u, Covered(u), NEW a \in 0 .. Attempts - 1,
         ReadCopy(d, present, u, a) = wrote[u],
         Kind(u) = "tree" \/ ReadCopy(d, present, u, 0) # None
  PROVE  ReadBack(d, present, u) = wrote[u]
<1>1. ReadTree(d, present, u) = wrote[u]
  BY DEF ReadTree, Verifies
<1>2. CASE Kind(u) = "tree"
  BY <1>1, <1>2 DEF ReadBack
<1>3. CASE Kind(u) # "tree"
  BY <1>1, <1>3 DEF ReadBack, ReadData
<1>4. QED
  BY <1>2, <1>3

(* Of a chunk as the invariant says, whatever the profile survives in a row
   can be read: a copy is left, or the parity decodes.                       *)
LEMMA IInvBears == IInv => Bearable
<1> SUFFICES ASSUME IInv, NEW lost \in SUBSET Stripe, NEW u \in HeldUnits, Covered(u),
                    Survives(lost \cup harm[Row(u)]), Begins(lost, u)
             PROVE  ReadsBack(lost, u)
  BY DEF Bearable
<1> DEFINE M == lost \cup harm[Row(u)]
           present == Stripe \ lost
<1>1. Mapped /\ ExtentsOK(held) /\ Backed(disk, held, wrote, harm)
  BY DEF IInv
<1>2. u \in Units /\ u \in UnitsOf(held) /\ CoveredIn(held, u) /\ Row(u) \in Rows
  BY <1>1, UnitsHeld, HeldIs DEF Rows
<1>3. M \in SUBSET Stripe /\ Survives(M)
  BY <1>2 DEF IInv, Typed
<1>4. \E a \in 0 .. Attempts - 1 : ReadCopy(disk, present, u, a) = wrote[u]
  <2>1. CASE IsParity
    <3>1. PICK x \in [Units -> Value] : HoldsElements(x, disk, held, wrote, harm)
      BY <1>1, <2>1 DEF Backed
    <3> DEFINE f == Full(u)
               y == Of(x, f)
    <3>2. f \in Rows /\ f = Row(u) /\ u % DataCount \in Elements
          /\ u = f * DataCount + (u % DataCount)
      BY <1>1, <1>2, <2>1, UnitIs
    <3>3. Alike(y, y, {}) /\ y[u % DataCount] = x[u]
      <4> HIDE DEF f
      <4>1. QED
        BY <1>1, <2>1, <3>2, OfIs
    <3>4. \A j \in Parts : At(j, f) \notin M =>
            At(j, f) \in present /\ disk[Spot(j, f)] = Word(y, j)
      <4>1. f \in Nat
        BY <1>1, <1>2, <2>1, UnitIs
      <4> HIDE DEF f, y
      <4>2. \A j \in Parts : At(j, f) \in Stripe
        BY <1>1, <2>1, <4>1, Spots
      <4>3. \A j \in Parts : At(j, f) \notin harm[f] => disk[Spot(j, f)] = Word(y, j)
        BY <3>1, <3>2 DEF HoldsElements, y
      <4>4. QED
        BY <3>2, <4>2, <4>3
    <3>5. x[u] = wrote[u]
      BY <1>2, <3>1 DEF HoldsElements
    <3> HIDE DEF y, M, present
    <3>6. \E a \in 0 .. Attempts - 1 : ReadCopy(disk, present, u, a) = y[u % DataCount]
      BY <1>1, <1>2, <1>3, <2>1, <3>3, <3>4, Recovers
    <3>7. QED
      BY <3>3, <3>5, <3>6
  <2>2. CASE ~ IsParity
    <3>1. PICK m \in 0 .. Mirrors - 1 : CopyAt(u, m) \notin M
      <4> HIDE DEF M
      <4>1. QED
        BY <1>1, <1>2, <1>3, <2>2, CopySurvives
    <3>2. disk[MapMirror(u, m)] = wrote[u]
      BY <1>1, <1>2, <2>2, <3>1 DEF Backed, HoldsCopies
    <3>3. CopyAt(u, m) \in present /\ m \in 0 .. Attempts - 1
      BY <1>1, <1>2, <2>2, <3>1, MirrorIs
    <3> HIDE DEF present
    <3>4. ReadCopy(disk, present, u, m) = disk[MapMirror(u, m)]
      BY <1>1, <1>2, <2>2, <3>3, CopyReads
    <3>5. QED
      BY <3>2, <3>3, <3>4
  <2>3. QED
    BY <2>1, <2>2
<1>5. Kind(u) = "tree" \/ ReadCopy(disk, present, u, 0) # None
  BY DEF Begins
<1> HIDE DEF present
<1>6. ReadBack(disk, present, u) = wrote[u]
  BY <1>4, <1>5, AnyVerifies
<1>7. QED
  BY <1>6 DEF ReadsBack, present

(* And its units are mapped to places of their own.                          *)
LEMMA IInvTypes == IInv => TypeOK
<1> SUFFICES ASSUME IInv PROVE TypeOK
  OBVIOUS
<1>1. \A u \in Units, v \in Units, m \in 0 .. Mirrors - 1, k \in 0 .. Mirrors - 1 :
        <<u, m>> # <<v, k>> => MapMirror(u, m) # MapMirror(v, k)
  BY PlacesApart DEF IInv
<1>2. \A e, f \in held : e # f => Span(e) \cap Span(f) = {}
  BY DEF IInv, ExtentsOK
<1>3. QED
  BY <1>1, <1>2 DEF IInv, Typed, Outcomes, TypeOK

-----------------------------------------------------------------------------
(* Steps                                                                     *)

(* The chunk stays where it is: nothing that is said of its layout changes. *)
LEMMA SteadyNames ==
  ASSUME Mapped, layout' = layout
  PROVE  /\ Mapped' /\ (IsParity' <=> IsParity) /\ Units' = Units /\ Stripe' = Stripe
         /\ Parts' = Parts /\ Elements' = Elements /\ DataCount' = DataCount
         /\ Mirrors' = Mirrors /\ Groups' = Groups
<1>1. Mapped' /\ (IsParity' <=> IsParity) /\ Units' = Units /\ Stripe' = Stripe
      /\ Parts' = Parts /\ Groups' = Groups
  BY DEF Mapped, IsParity, Units, Stripe, Parts, Groups
<1>2. DataCount' = DataCount
  BY DEF DataCount, ParityCount
<1>3. Elements' = Elements
  BY <1>2 DEF Elements
<1>4. Mirrors' = Mirrors
  BY DEF Mirrors, IsParity
<1>5. QED
  BY <1>1, <1>2, <1>3, <1>4

(* Nor of where its units are.                                               *)
LEMMA SteadyPlaces ==
  ASSUME Mapped, layout' = layout
  PROVE  /\ \A j, f : Spot(j, f)' = Spot(j, f) /\ At(j, f)' = At(j, f)
         /\ \A u, m : MapMirror(u, m)' = MapMirror(u, m) /\ CopyAt(u, m)' = CopyAt(u, m)
         /\ Rows' = Rows /\ \A u : Row(u)' = Row(u)
<1>1. \A j, f : Spot(j, f)' = Spot(j, f) /\ At(j, f)' = At(j, f)
  BY DEF Spot, At
<1>2. ASSUME NEW u, NEW m PROVE MapMirror(u, m)' = MapMirror(u, m)
  <2>1. DataCount' = DataCount
    BY SteadyNames
  <2>2. Full(u)' = Full(u)
    BY <2>1 DEF Full
  <2>3. \A f : Placement(f)'.data = Placement(f).data
    BY <2>1 DEF Placement
  <2>4. CASE IsParity
    <3>1. MapMirror(u, m) = <<Placement(Full(u)).data[u % DataCount], Full(u)>>
      BY <2>4 DEF MapMirror, IsParity
    <3>2. MapMirror(u, m)' = <<Placement(Full(u))'.data[u % DataCount'], Full(u)'>>
      BY <2>4 DEF MapMirror, IsParity
    <3>3. Placement(Full(u))'.data = Placement(Full(u)).data
      BY <2>1, <2>2 DEF Placement
    <3>4. QED
      BY <2>1, <2>2, <3>1, <3>2, <3>3
  <2>5. CASE layout.profile = "raid10"
    <3>1. MapMirror(u, m) = <<(u % Groups) * layout.sub + m, u \div Groups>>
      BY <2>5 DEF MapMirror, IsParity, Groups
    <3>2. MapMirror(u, m)' = <<(u % Groups') * layout.sub + m, u \div Groups'>>
      BY <2>5 DEF MapMirror, IsParity, Groups
    <3>3. Groups' = Groups
      BY SteadyNames
    <3>4. QED
      BY <3>1, <3>2, <3>3
  <2>6. CASE layout.profile = "raid1"
    BY <2>6 DEF MapMirror, IsParity
  <2>7. QED
    BY <2>4, <2>5, <2>6, LayoutIs DEF IsParity
<1>3. \A u, m : CopyAt(u, m)' = CopyAt(u, m)
  BY DEF CopyAt, Groups
<1>4. \A u : Row(u)' = Row(u)
  BY <1>2 DEF Row
<1>5. Rows' = Rows
  BY <1>4, SteadyNames DEF Rows
<1>6. QED
  BY <1>1, <1>2, <1>3, <1>4, <1>5

(* Nor of what its parity comes to.                                          *)
LEMMA SteadyWords ==
  ASSUME Mapped, layout' = layout
  PROVE  \A x, f, j : Of(x, f)' = Of(x, f) /\ Word(x, j)' = Word(x, j)
<1>1. DataCount' = DataCount /\ Elements' = Elements
  BY SteadyNames
<1>2. \A y : Parity(y)' = Parity(y)
  BY <1>1 DEF Parity
<1>3. \A x, f : Of(x, f)' = Of(x, f)
  BY <1>1 DEF Of
<1>4. \A y, j : Word(y, j)' = Word(y, j)
  BY <1>1, <1>2 DEF Word
<1>5. QED
  BY <1>3, <1>4

(* So what is to be shown of a step.                                        *)
LEMMA IInvNext ==
  ASSUME Mapped, layout' = layout,
         disk' \in [Stripe \X Rows -> Value \cup {None}], wrote' \in [Units -> Value],
         harm' \in [Rows -> SUBSET Stripe], calls' \in 0 .. MaxCalls,
         faults' \in 0 .. MaxFaults, outcome' \in Outcomes,
         ExtentsOK(held'), Backed(disk', held', wrote', harm')
  PROVE  IInv'
<1>1. Typed'
  BY SteadyNames, SteadyPlaces DEF Typed
<1>2. ExtentsOK(held)'
  <2>1. Units' = Units
    BY SteadyNames
  <2>2. QED
    BY <2>1 DEF ExtentsOK
<1>3. Backed(disk, held, wrote, harm)'
  <2>1. CASE IsParity
    <3>1. PICK x \in [Units -> Value] : HoldsElements(x, disk', held', wrote', harm')
      BY <2>1 DEF Backed
    <3>2. HoldsElements(x, disk, held, wrote, harm)'
      <4>1. Rows' = Rows /\ Parts' = Parts
        BY SteadyNames, SteadyPlaces
      <4>2. ASSUME NEW f \in Rows, NEW j \in Parts, At(j, f)' \notin harm'[f]
            PROVE  disk'[Spot(j, f)'] = Word(Of(x, f), j)'
        <5>1. At(j, f)' = At(j, f) /\ Spot(j, f)' = Spot(j, f)
          BY SteadyPlaces
        <5>2. Word(Of(x, f), j)' = Word(Of(x, f), j)
          <6>1. Of(x, f)' = Of(x, f)
            BY SteadyWords
          <6>2. DataCount' = DataCount
            BY SteadyNames
          <6>3. Parity(Of(x, f))' = Parity(Of(x, f))
            BY <6>1, <6>2 DEF Parity
          <6>4. QED
            BY <6>1, <6>2, <6>3 DEF Word
        <5>3. disk'[Spot(j, f)] = Word(Of(x, f), j)
          BY <3>1, <4>2, <5>1 DEF HoldsElements
        <5>4. QED
          BY <5>1, <5>2, <5>3
      <4>3. \A u \in UnitsOf(held') : CoveredIn(held', u) => x[u] = wrote'[u]
        BY <3>1 DEF HoldsElements
      <4>4. QED
        BY <4>1, <4>2, <4>3 DEF HoldsElements
    <3>3. QED
      BY <2>1, <3>2, SteadyNames DEF Backed
  <2>2. CASE ~ IsParity
    <3>1. HoldsCopies(disk', held', wrote', harm')
      BY <2>2 DEF Backed
    <3>2. HoldsCopies(disk, held, wrote, harm)'
      BY <3>1, SteadyNames, SteadyPlaces DEF HoldsCopies
    <3>3. QED
      BY <2>2, <3>2, SteadyNames DEF Backed
  <2>3. QED
    BY <2>1, <2>2
<1>4. QED
  BY <1>1, <1>2, <1>3, SteadyNames DEF IInv

(* An extent more changes the kind of no unit held.                          *)
LEMMA KindKept ==
  ASSUME NEW g, NEW h, ExtentsOK(g), ExtentsOK(h), g \subseteq h, NEW u \in UnitsOf(g)
  PROVE  u \in UnitsOf(h) /\ (CoveredIn(g, u) <=> CoveredIn(h, u))
<1>1. PICK e \in g : u \in Span(e)
  BY DEF UnitsOf
<1>2. KindIn(g, u) = e.kind /\ KindIn(h, u) = e.kind /\ u \in UnitsOf(h)
  BY <1>1, KindIs
<1>3. QED
  BY <1>2 DEF CoveredIn

(* An extent dropped leaves less to hold.                                    *)
LEMMA IInvRelease ==
  ASSUME IInv, NEW e \in held, Release(e)
  PROVE  IInv'
<1>1. /\ layout' = layout /\ disk' = disk /\ wrote' = wrote /\ harm' = harm
      /\ held' = held \ {e} /\ faults' = faults /\ calls' = calls + 1 /\ calls < MaxCalls
      /\ outcome' = "released"
  BY DEF Release, Called
<1>2. ExtentsOK(held')
  BY <1>1 DEF IInv, ExtentsOK
<1>3. ExtentsOK(held) /\ held' \subseteq held /\ Backed(disk, held, wrote, harm)
  BY <1>1 DEF IInv
<1>4. \A u \in UnitsOf(held') :
        u \in UnitsOf(held) /\ (CoveredIn(held', u) <=> CoveredIn(held, u))
  BY <1>2, <1>3, KindKept
<1>5. Backed(disk', held', wrote', harm')
  <2>1. CASE IsParity
    <3>1. PICK x \in [Units -> Value] : HoldsElements(x, disk, held, wrote, harm)
      BY <1>3, <2>1 DEF Backed
    <3>2. HoldsElements(x, disk', held', wrote', harm')
      BY <1>1, <1>4, <3>1 DEF HoldsElements
    <3>3. QED
      BY <2>1, <3>2 DEF Backed
  <2>2. CASE ~ IsParity
    <3>1. HoldsCopies(disk, held, wrote, harm)
      BY <1>3, <2>2 DEF Backed
    <3>2. HoldsCopies(disk', held', wrote', harm')
      BY <1>1, <1>4, <3>1 DEF HoldsCopies
    <3>3. QED
      BY <2>2, <3>2 DEF Backed
  <2>3. QED
    BY <2>1, <2>2
<1>6. calls' \in 0 .. MaxCalls
  BY <1>1, RaidAssumption DEF IInv, Typed
<1>7. outcome' \in Outcomes
  BY <1>1 DEF Outcomes
<1>8. QED
  BY <1>1, <1>2, <1>5, <1>6, <1>7, IInvNext DEF IInv, Typed

(* Damage is in harm: what is not harmed is as it was.                       *)
LEMMA IInvDamage ==
  ASSUME IInv, NEW at \in DOMAIN disk, NEW to \in Value \cup {None}, Damage(at, to)
  PROVE  IInv'
<1>1. /\ layout' = layout /\ held' = held /\ wrote' = wrote /\ calls' = calls
      /\ faults < MaxFaults /\ faults' = faults + 1 /\ outcome' = "damaged"
      /\ disk' = [disk EXCEPT ![at] = to]
      /\ harm' = [harm EXCEPT ![at[2]] = @ \cup {at[1]}]
  BY DEF Damage
<1>2. Mapped /\ ExtentsOK(held) /\ Backed(disk, held, wrote, harm)
      /\ disk \in [Stripe \X Rows -> Value \cup {None}] /\ harm \in [Rows -> SUBSET Stripe]
  BY DEF IInv, Typed
<1>3. at \in Stripe \X Rows /\ at[1] \in Stripe /\ at[2] \in Rows
  BY <1>2
<1>4. disk' \in [Stripe \X Rows -> Value \cup {None}] /\ harm' \in [Rows -> SUBSET Stripe]
  BY <1>1, <1>2, <1>3
<1>5. ASSUME NEW s \in Stripe, NEW r \in Rows, s \notin harm'[r]
      PROVE  s \notin harm[r] /\ disk'[<<s, r>>] = disk[<<s, r>>]
  <2>1. <<s, r>> \in Stripe \X Rows
    OBVIOUS
  <2>2. CASE r = at[2]
    <3>1. harm'[r] = harm[r] \cup {at[1]}
      BY <1>1, <1>2, <1>3, <2>2
    <3>2. <<s, r>> # at
      BY <1>5, <3>1
    <3>3. disk'[<<s, r>>] = disk[<<s, r>>]
      BY <1>1, <1>2, <2>1, <3>2
    <3>4. QED
      BY <1>5, <3>1, <3>3
  <2>3. CASE r # at[2]
    <3>1. harm'[r] = harm[r]
      BY <1>1, <1>2, <2>3
    <3>2. <<s, r>> # at
      BY <2>3
    <3>3. disk'[<<s, r>>] = disk[<<s, r>>]
      BY <1>1, <1>2, <2>1, <3>2
    <3>4. QED
      BY <1>5, <3>1, <3>3
  <2>4. QED
    BY <2>2, <2>3
<1>6. Backed(disk', held', wrote', harm')
  <2>1. CASE IsParity
    <3>1. PICK x \in [Units -> Value] : HoldsElements(x, disk, held, wrote, harm)
      BY <1>2, <2>1 DEF Backed
    <3>2. ASSUME NEW f \in Rows, NEW j \in Parts, At(j, f) \notin harm'[f]
          PROVE  disk'[Spot(j, f)] = Word(Of(x, f), j)
      <4>1. At(j, f) \in Stripe /\ Spot(j, f) = <<At(j, f), f>>
        BY <1>2, <2>1, Everywhere, Spots DEF Spot
      <4>2. At(j, f) \notin harm[f] /\ disk'[Spot(j, f)] = disk[Spot(j, f)]
        BY <1>5, <3>2, <4>1
      <4>3. QED
        BY <3>1, <4>2 DEF HoldsElements
    <3>3. HoldsElements(x, disk', held', wrote', harm')
      BY <1>1, <3>1, <3>2 DEF HoldsElements
    <3>4. QED
      BY <2>1, <3>3 DEF Backed
  <2>2. CASE ~ IsParity
    <3>1. HoldsCopies(disk, held, wrote, harm)
      BY <1>2, <2>2 DEF Backed
    <3>2. ASSUME NEW u \in UnitsOf(held), NEW m \in 0 .. Mirrors - 1,
                 CoveredIn(held, u), CopyAt(u, m) \notin harm'[Row(u)]
          PROVE  disk'[MapMirror(u, m)] = wrote[u]
      <4>1. u \in Units
        BY <1>2, UnitsHeld, HeldIs
      <4>2. /\ MapMirror(u, m) = <<CopyAt(u, m), Row(u)>>
            /\ CopyAt(u, m) \in Stripe /\ Row(u) \in Rows
        BY <1>2, <2>2, <4>1, MirrorIs
      <4>3. CopyAt(u, m) \notin harm[Row(u)] /\ disk'[MapMirror(u, m)] = disk[MapMirror(u, m)]
        BY <1>5, <3>2, <4>2
      <4>4. QED
        BY <3>1, <3>2, <4>3 DEF HoldsCopies
    <3>3. HoldsCopies(disk', held', wrote', harm')
      BY <1>1, <3>2 DEF HoldsCopies
    <3>4. QED
      BY <2>2, <3>3 DEF Backed
  <2>3. QED
    BY <2>1, <2>2
<1>7. faults' \in 0 .. MaxFaults
  BY <1>1, RaidAssumption DEF IInv, Typed
<1>8. outcome' \in Outcomes
  BY <1>1 DEF Outcomes
<1>9. QED
  BY <1>1, <1>2, <1>4, <1>6, <1>7, <1>8, IInvNext DEF IInv, Typed

-----------------------------------------------------------------------------
(* What a write puts where                                                   *)

\* The writes F[r], for r in R, and no others, no two of which meet.
Together(R, F, each) ==
  /\ \A r \in R : F[r] \in each
  /\ \A w \in each : \E r \in R : w = F[r]
  /\ \A r, s \in R : \A at : at \in DOMAIN F[r] /\ at \in DOMAIN F[s] => r = s

(* Writes to places that do not meet are together what each of them is.      *)
LEMMA AllOfIs ==
  ASSUME NEW R, NEW F, NEW each, Together(R, F, each)
  PROVE  /\ \A at : at \in DOMAIN AllOf(each) <=> \E r \in R : at \in DOMAIN F[r]
         /\ \A r \in R : \A at \in DOMAIN F[r] : AllOf(each)[at] = F[r][at]
<1> DEFINE places == UNION {DOMAIN w : w \in each}
<1>1. AllOf(each) = [at \in places |-> (CHOOSE w \in each : at \in DOMAIN w)[at]]
  BY DEF AllOf
<1>2. \A at : at \in places <=> \E r \in R : at \in DOMAIN F[r]
  BY DEF Together
<1>3. ASSUME NEW r \in R, NEW at \in DOMAIN F[r]
      PROVE  (CHOOSE w \in each : at \in DOMAIN w) = F[r]
  <2>1. F[r] \in each
    BY DEF Together
  <2>2. \A w \in each : at \in DOMAIN w => w = F[r]
    BY DEF Together
  <2>3. QED
    BY <2>1, <2>2
<1> HIDE DEF places
<1>4. ASSUME NEW r \in R, NEW at \in DOMAIN F[r] PROVE AllOf(each)[at] = F[r][at]
  <2>1. at \in places
    BY <1>2
  <2>2. QED
    BY <1>1, <1>3, <2>1
<1>5. DOMAIN AllOf(each) = places
  BY <1>1
<1>6. QED
  BY <1>2, <1>4, <1>5

\* The elements of a full stripe a write is of, and its data with them in.
Touched(f, new) == {i \in Elements : f * DataCount + i \in DOMAIN new}
Merged(f, new) ==
  [i \in Elements |-> IF i \in Touched(f, new) THEN new[f * DataCount + i] ELSE disk[Spot(i, f)]]

\* The elements of it that are written.
Rewritten(f, new) == Touched(f, new) \cup Checks

(* A full stripe's writes are its changed elements and all of its parity.    *)
LEMMA StripeWritesAre ==
  ASSUME Mapped, IsParity, NEW f \in Rows, NEW new
  PROVE  /\ DOMAIN StripeWrites(f, new) = {Spot(j, f) : j \in Rewritten(f, new)}
         /\ \A j \in Rewritten(f, new) :
              StripeWrites(f, new)[Spot(j, f)] = Word(Merged(f, new), j)
<1> DEFINE plan == ParityRead(f)
           touched == {i \in DOMAIN plan.data : f * DataCount + i \in DOMAIN new}
           data == [i \in DOMAIN plan.data |->
                      IF i \in touched THEN new[f * DataCount + i] ELSE disk[plan.data[i]]]
           parity == Parity(data)
           places == {plan.data[i] : i \in touched} \cup {plan.p} \cup plan.q
           here(at) == IF at = plan.p THEN parity.p
                       ELSE IF at \in plan.q THEN parity.q
                       ELSE data[CHOOSE i \in touched : plan.data[i] = at]
<1>1. StripeWrites(f, new) = [at \in places |-> here(at)]
  BY DEF StripeWrites
<1>2. /\ plan.data = [i \in Elements |-> Spot(i, f)] /\ plan.p = Spot(DataCount, f)
      /\ plan.q = IF layout.profile = "raid6" THEN {Spot(DataCount + 1, f)} ELSE {}
  BY Everywhere, SpotIs
<1>3. /\ DataCount \in Nat /\ Elements \subseteq Parts /\ DataCount \in Checks
      /\ Checks = IF layout.profile = "raid6" THEN {DataCount, DataCount + 1} ELSE {DataCount}
      /\ Checks \subseteq Parts /\ Elements \cap Checks = {}
  BY PartsAre
<1>4. touched = Touched(f, new) /\ touched \subseteq Elements
  BY <1>2 DEF Touched
<1>5. data = Merged(f, new)
  <2> HIDE DEF plan, touched
  <2>1. QED
    BY <1>2, <1>4 DEF Merged
<1>6. \A j, k \in Parts : Spot(j, f) = Spot(k, f) => j = k
  BY Everywhere
<1> HIDE DEF plan, touched, data
<1>7. places = {Spot(j, f) : j \in Rewritten(f, new)}
  <2>1. {plan.data[i] : i \in touched} = {Spot(j, f) : j \in Touched(f, new)}
    BY <1>2, <1>4
  <2>2. {plan.p} \cup plan.q = {Spot(j, f) : j \in Checks}
    BY <1>2, <1>3
  <2>3. QED
    BY <2>1, <2>2 DEF Rewritten
<1>8. ASSUME NEW j \in Touched(f, new) PROVE here(Spot(j, f)) = Word(Merged(f, new), j)
  <2>1. j \in Elements /\ j \in Parts /\ j < DataCount
    BY <1>3, <1>4 DEF Elements
  <2>2. Spot(j, f) # plan.p /\ Spot(j, f) \notin plan.q
    BY <1>2, <1>3, <1>6, <2>1
  <2>3. (CHOOSE i \in touched : plan.data[i] = Spot(j, f)) = j
    <3>1. \A i \in touched : plan.data[i] = Spot(j, f) <=> i = j
      BY <1>2, <1>3, <1>4, <1>6, <2>1
    <3>2. QED
      BY <1>4, <3>1
  <2>4. here(Spot(j, f)) = data[j]
    BY <2>2, <2>3
  <2>5. QED
    BY <1>5, <2>1, <2>4 DEF Word
<1>9. ASSUME NEW j \in Checks PROVE here(Spot(j, f)) = Word(Merged(f, new), j)
  <2>1. CASE j = DataCount
    <3>1. ~ (j < DataCount) /\ Spot(j, f) = plan.p
      BY <1>2, <1>3, <2>1
    <3>2. here(Spot(j, f)) = parity.p
      BY <3>1
    <3>3. QED
      BY <1>5, <2>1, <3>1, <3>2 DEF Word
  <2>2. CASE j # DataCount
    <3>1. j = DataCount + 1 /\ layout.profile = "raid6"
      BY <1>3, <2>2
    <3>2. Spot(j, f) # plan.p /\ Spot(j, f) \in plan.q
      BY <1>2, <1>3, <1>6, <2>2, <3>1
    <3>3. here(Spot(j, f)) = parity.q
      BY <3>2
    <3>4. ~ (j < DataCount)
      BY <1>3, <3>1
    <3>5. QED
      BY <1>5, <2>2, <3>3, <3>4 DEF Word
  <2>3. QED
    BY <2>1, <2>2
<1> HIDE DEF here, places
<1>10. \A j \in Rewritten(f, new) : here(Spot(j, f)) = Word(Merged(f, new), j)
  BY <1>8, <1>9 DEF Rewritten
<1>11. QED
  BY <1>1, <1>7, <1>10

(* A write of a parity chunk puts the whole of each full stripe it reached
   into agreement with its data.                                            *)
LEMMA WritesAre ==
  ASSUME Mapped, IsParity, NEW new, DOMAIN new \subseteq Units
  PROVE  /\ Reached(new) \subseteq Rows
         /\ \A f \in Reached(new) : /\ \A g \in Rows : g \notin Reached(new) => g # f
                                    /\ \A i \in Elements : disk[Spot(i, f)] # None
                                    /\ \E u \in DOMAIN new : Full(u) = f
         /\ \A f \in Rows, j \in Parts :
              /\ Spot(j, f) \in DOMAIN Writes(new) <=> f \in Reached(new) /\ j \in Rewritten(f, new)
              /\ f \in Reached(new) /\ j \in Rewritten(f, new) =>
                   Writes(new)[Spot(j, f)] = Word(Merged(f, new), j)
<1> DEFINE F == [f \in Rows |-> StripeWrites(f, new)]
           R == Reached(new)
<1>1. R \subseteq Rows /\ \A f \in R : StripeReadable(f) /\ \E u \in DOMAIN new : Full(u) = f
  <2>1. \A u \in DOMAIN new : Full(u) \in Rows /\ Full(u) \in Nat
    BY UnitIs
  <2>2. \A f \in R : (\E u \in DOMAIN new : Full(u) = f) /\ (f <= f => StripeReadable(f))
    BY DEF Reached
  <2>3. \A f \in R : f \in Nat /\ f \in Rows
    BY <2>1, <2>2
  <2>4. QED
    BY <2>2, <2>3
<1>2. ASSUME NEW f \in R, NEW i \in Elements PROVE disk[Spot(i, f)] # None
  <2>1. ParityRead(f).data[i] = Spot(i, f)
    <3>1. f \in Nat
      BY <1>1, Everywhere
    <3>2. ParityRead(f).data = [k \in Elements |-> Spot(k, f)]
      BY <3>1, SpotIs
    <3>3. QED
      BY <3>2
  <2>2. QED
    BY <1>1, <2>1 DEF StripeReadable, Elements
<1>3. \A f \in Rows : Rewritten(f, new) \subseteq Parts
  BY PartsAre DEF Rewritten, Touched
<1>4. \A f \in Rows : /\ DOMAIN F[f] = {Spot(j, f) : j \in Rewritten(f, new)}
                      /\ \A j \in Rewritten(f, new) : F[f][Spot(j, f)] = Word(Merged(f, new), j)
  BY StripeWritesAre
<1>5. Writes(new) = AllOf({F[f] : f \in R})
  <2>1. Writes(new) = AllOf({StripeWrites(f, new) : f \in R})
    BY DEF Writes
  <2>2. {StripeWrites(f, new) : f \in R} = {F[f] : f \in R}
    BY <1>1
  <2>3. QED
    BY <2>1, <2>2
<1> HIDE DEF F, R
<1>6. \A f, g \in Rows, j, k \in Parts : Spot(j, f) = Spot(k, g) => f = g /\ j = k
  BY Everywhere
<1>7. ASSUME NEW f \in R, NEW g \in R, NEW at, at \in DOMAIN F[f], at \in DOMAIN F[g] PROVE f = g
  <2>1. (\E j \in Rewritten(f, new) : at = Spot(j, f)) /\ \E k \in Rewritten(g, new) : at = Spot(k, g)
    BY <1>1, <1>4, <1>7
  <2>2. QED
    BY <1>1, <1>3, <1>6, <2>1
<1>8. /\ \A at : at \in DOMAIN Writes(new) <=> \E f \in R : at \in DOMAIN F[f]
      /\ \A f \in R : \A at \in DOMAIN F[f] : Writes(new)[at] = F[f][at]
  <2>1. \A r, s \in R : \A at : at \in DOMAIN F[r] /\ at \in DOMAIN F[s] => r = s
    BY <1>7
  <2> DEFINE each == {F[r] : r \in R}
             all == AllOf(each)
  <2>2. /\ \A at : at \in DOMAIN all <=> \E r \in R : at \in DOMAIN F[r]
        /\ \A r \in R : \A at \in DOMAIN F[r] : all[at] = F[r][at]
    <3>1. Together(R, F, each)
      BY <2>1 DEF Together
    <3> HIDE DEF each
    <3>2. QED
      BY <3>1, AllOfIs
  <2> HIDE DEF all
  <2>3. Writes(new) = all
    BY <1>5 DEF all
  <2>4. QED
    BY <2>2, <2>3
<1>9. ASSUME NEW f \in Rows, NEW j \in Parts
      PROVE  Spot(j, f) \in DOMAIN Writes(new) <=> f \in R /\ j \in Rewritten(f, new)
  <2>1. ASSUME f \in R, j \in Rewritten(f, new) PROVE Spot(j, f) \in DOMAIN Writes(new)
    BY <1>4, <1>8, <2>1
  <2>2. ASSUME Spot(j, f) \in DOMAIN Writes(new) PROVE f \in R /\ j \in Rewritten(f, new)
    <3>1. PICK g \in R : Spot(j, f) \in DOMAIN F[g]
      BY <1>8, <2>2
    <3>2. PICK k \in Rewritten(g, new) : Spot(j, f) = Spot(k, g)
      BY <1>1, <1>4, <3>1
    <3>3. QED
      BY <1>1, <1>3, <1>6, <3>2
  <2>3. QED
    BY <2>1, <2>2
<1>10. ASSUME NEW f \in R, NEW j \in Rewritten(f, new)
       PROVE  Writes(new)[Spot(j, f)] = Word(Merged(f, new), j)
  BY <1>1, <1>4, <1>8
<1>11. QED
  BY <1>1, <1>2, <1>9, <1>10 DEF R

(* Where the stripe can be read, what is written over it is values.          *)
LEMMA MergedIs ==
  ASSUME Mapped, IsParity, disk \in [Stripe \X Rows -> Value \cup {None}],
         NEW new, DOMAIN new \subseteq Units, \A u \in DOMAIN new : new[u] \in Value,
         NEW f \in Reached(new)
  PROVE  /\ Alike(Merged(f, new), Merged(f, new), {})
         /\ \A j \in Parts : Word(Merged(f, new), j) \in Value
         /\ \A i \in Elements : Word(Merged(f, new), i) = Merged(f, new)[i]
<1>1. f \in Rows /\ \A i \in Elements : disk[Spot(i, f)] # None
  BY WritesAre
<1>2. ASSUME NEW i \in Elements PROVE Merged(f, new)[i] \in Value
  <2>1. Spot(i, f) \in Stripe \X Rows
    BY <1>1, Everywhere, PartsAre
  <2>2. disk[Spot(i, f)] \in Value
    BY <1>1, <2>1
  <2>3. i \in Touched(f, new) => new[f * DataCount + i] \in Value
    BY DEF Touched
  <2>4. QED
    BY <2>2, <2>3 DEF Merged
<1>3. Alike(Merged(f, new), Merged(f, new), {})
  BY <1>2 DEF Alike, Merged
<1>4. QED
  BY <1>3, WordIs

(* What is on the disk after some of a write to a parity chunk, and that it
   is values.                                                               *)
LEMMA StripesWritten ==
  ASSUME IInv, IsParity, NEW new, DOMAIN new \subseteq Units, \A u \in DOMAIN new : new[u] \in Value,
         NEW kept, kept \subseteq DOMAIN Writes(new)
  PROVE  /\ Written(disk, Writes(new), kept) \in [Stripe \X Rows -> Value \cup {None}]
         /\ \A f \in Rows, j \in Parts :
              Written(disk, Writes(new), kept)[Spot(j, f)]
                = IF Spot(j, f) \in kept THEN Word(Merged(f, new), j) ELSE disk[Spot(j, f)]
<1> DEFINE w == Writes(new)
           d == Written(disk, w, kept)
<1>1. Mapped /\ disk \in [Stripe \X Rows -> Value \cup {None}]
  BY DEF IInv, Typed
<1>2. d = [at \in Stripe \X Rows |-> IF at \in DOMAIN w \cap kept THEN w[at] ELSE disk[at]]
  BY <1>1 DEF Written
<1> HIDE DEF d, w
<1>3. ASSUME NEW f \in Rows, NEW j \in Parts
      PROVE  /\ d[Spot(j, f)] = IF Spot(j, f) \in kept THEN Word(Merged(f, new), j)
                                ELSE disk[Spot(j, f)]
             /\ d[Spot(j, f)] \in Value \cup {None}
  <2> DEFINE at == Spot(j, f)
  <2>1. at \in Stripe \X Rows
    BY <1>1, Everywhere
  <2> HIDE DEF at
  <2>2. CASE at \in kept
    <3>1. f \in Reached(new) /\ w[at] = Word(Merged(f, new), j) /\ at \in DOMAIN w
      BY <1>1, <2>2, WritesAre DEF at, w
    <3>2. d[at] = w[at]
      BY <1>2, <2>1, <2>2, <3>1
    <3>3. Word(Merged(f, new), j) \in Value
      BY <1>1, <3>1, MergedIs
    <3>4. QED
      BY <2>2, <3>1, <3>2, <3>3 DEF at
  <2>3. CASE at \notin kept
    BY <1>1, <1>2, <2>1, <2>3 DEF at
  <2>4. QED
    BY <2>2, <2>3
<1>4. ASSUME NEW at \in Stripe \X Rows PROVE d[at] \in Value \cup {None}
  <2>1. PICK j \in Parts : at = Spot(j, at[2])
    BY <1>1, Everywhere
  <2>2. at[2] \in Rows
    OBVIOUS
  <2>3. QED
    BY <1>3, <2>1, <2>2
<1>5. d \in [Stripe \X Rows -> Value \cup {None}]
  BY <1>2, <1>4
<1>6. QED
  BY <1>3, <1>5 DEF d, w

\* What a write of an extent to free space is given.
Writing(span, new) ==
  span \subseteq Units \ HeldUnits /\ DOMAIN new = span /\ \A u \in span : new[u] \in Value

(* A write to a parity chunk that is cut off leaves data elements, written
   or not, and parity that counts as harmed.                                *)
LEMMA StripesCut ==
  ASSUME IInv, IsParity, NEW span, NEW new, Writing(span, new),
         NEW kept, kept \subseteq DOMAIN Writes(new), held' = held, wrote' = wrote,
         disk' = Written(disk, Writes(new), kept),
         harm' = [r \in Rows |-> IF \E u \in span : Full(u) = r
                                 THEN harm[r] \cup ParityStripes(r) ELSE harm[r]]
  PROVE  Backed(disk', held', wrote', harm') /\ harm' \in [Rows -> SUBSET Stripe]
<1>1. /\ Mapped /\ ExtentsOK(held) /\ Backed(disk, held, wrote, harm)
      /\ wrote \in [Units -> Value] /\ harm \in [Rows -> SUBSET Stripe]
  BY DEF IInv, Typed
<1>2. /\ DOMAIN new = span /\ span \subseteq Units /\ DOMAIN new \subseteq Units
      /\ \A u \in span : new[u] \in Value /\ u \notin HeldUnits
  BY DEF Writing
<1>3. PICK x \in [Units -> Value] : HoldsElements(x, disk, held, wrote, harm)
  BY <1>1 DEF Backed
<1> DEFINE z == [u \in Units |-> IF u \in span /\ MapMirror(u, 0) \in kept THEN new[u] ELSE x[u]]
<1>4. z \in [Units -> Value]
  BY <1>2
<1>5. \A f \in Rows, j \in Parts :
        disk'[Spot(j, f)] = IF Spot(j, f) \in kept THEN Word(Merged(f, new), j)
                            ELSE disk[Spot(j, f)]
  BY <1>2, StripesWritten
<1>6. \A f \in Rows, j \in Parts : Spot(j, f) \in kept =>
        f \in Reached(new) /\ j \in Rewritten(f, new)
  BY <1>1, <1>2, WritesAre
<1>7. ASSUME NEW u \in UnitsOf(held), CoveredIn(held, u) PROVE z[u] = wrote[u]
  <2>1. u \in HeldUnits /\ u \in Units
    BY <1>1, HeldIs, UnitsHeld
  <2>2. z[u] = x[u]
    BY <1>2, <2>1
  <2>3. QED
    BY <1>3, <1>7, <2>2 DEF HoldsElements
<1>8. ASSUME NEW f \in Rows, NEW i \in Elements
      PROVE  /\ z[f * DataCount + i] = IF f * DataCount + i \in span /\ Spot(i, f) \in kept
                                       THEN new[f * DataCount + i] ELSE x[f * DataCount + i]
             /\ (f * DataCount + i \in span => \E u \in span : Full(u) = f)
  BY <1>1, UnitIs
<1> HIDE DEF z
<1>9. ASSUME NEW f \in Rows, NEW j \in Parts, At(j, f) \notin harm'[f]
      PROVE  disk'[Spot(j, f)] = Word(Of(z, f), j)
  <2>1. At(j, f) \notin harm[f]
    BY <1>9
  <2>2. disk[Spot(j, f)] = Word(Of(x, f), j)
    BY <1>3, <2>1 DEF HoldsElements
  <2>3. CASE \E u \in span : Full(u) = f
    <3>1. At(j, f) \notin ParityStripes(f)
      BY <1>9, <2>3
    <3>2. j \in Elements
      <4>1. f \in Nat /\ Parts = Elements \cup Checks
        BY <1>1, Everywhere, PartsAre
      <4>2. ParityStripes(f) = {At(k, f) : k \in Checks}
        BY <1>1, <4>1, SpotIs
      <4>3. QED
        BY <3>1, <4>1, <4>2
    <3>3. Word(Of(z, f), j) = z[f * DataCount + j] /\ Word(Of(x, f), j) = x[f * DataCount + j]
      BY <1>1, <1>4, <3>2, OfIs
    <3>4. CASE Spot(j, f) \in kept
      <4>1. f \in Reached(new) /\ j \in Rewritten(f, new)
        BY <1>6, <3>4
      <4>2. j \in Touched(f, new)
        BY <1>1, <3>2, <4>1, PartsAre DEF Rewritten
      <4>3. f * DataCount + j \in span /\ Merged(f, new)[j] = new[f * DataCount + j]
        BY <1>2, <3>2, <4>2 DEF Touched, Merged
      <4>4. Word(Merged(f, new), j) = Merged(f, new)[j]
        BY <1>1, <3>2, PartsAre DEF Word, Elements
      <4>5. QED
        BY <1>5, <1>8, <3>2, <3>3, <3>4, <4>3, <4>4
    <3>5. CASE Spot(j, f) \notin kept
      BY <1>5, <1>8, <2>2, <3>2, <3>3, <3>5
    <3>6. QED
      BY <3>4, <3>5
  <2>4. CASE ~ \E u \in span : Full(u) = f
    <3>1. \A i \in Elements : z[f * DataCount + i] = x[f * DataCount + i]
      BY <1>8, <2>4
    <3>2. Of(z, f) = Of(x, f)
      BY <3>1 DEF Of
    <3>3. Spot(j, f) \notin kept
      BY <1>1, <1>2, <1>6, <2>4, WritesAre
    <3>4. QED
      BY <1>5, <2>2, <3>2, <3>3
  <2>5. QED
    BY <2>3, <2>4
<1>10. HoldsElements(z, disk', held', wrote', harm')
  BY <1>7, <1>9 DEF HoldsElements
<1>11. harm' \in [Rows -> SUBSET Stripe]
  <2>1. ASSUME NEW r \in Rows PROVE ParityStripes(r) \subseteq Stripe
    <3>1. r \in Nat /\ Checks \subseteq Parts
      BY <1>1, Everywhere, PartsAre
    <3>2. ParityStripes(r) = {At(k, r) : k \in Checks}
      BY <1>1, <3>1, SpotIs
    <3>3. \A k \in Checks : At(k, r) \in Stripe
      BY <1>1, <3>1, Spots
    <3>4. QED
      BY <3>2, <3>3
  <2>2. QED
    BY <1>1, <2>1
<1>12. QED
  BY <1>4, <1>10, <1>11 DEF Backed

(* One that is finished leaves full stripes in agreement, but for those a
   damaged neighbour went into the parity of, which are given up.           *)
LEMMA StripesDone ==
  ASSUME IInv, IsParity, NEW span, NEW new, Writing(span, new), Finishes(new),
         NEW e, Span(e) = span, held' = held \cup {e}, ExtentsOK(held'),
         wrote' = [u \in Units |-> IF u \in span THEN new[u] ELSE wrote[u]],
         disk' = Written(disk, Writes(new), DOMAIN Writes(new)),
         harm' = [r \in Rows |-> IF \E u \in span : Full(u) = r THEN HarmAfter(r, new)
                                 ELSE harm[r]]
  PROVE  Backed(disk', held', wrote', harm') /\ harm' \in [Rows -> SUBSET Stripe]
<1>1. /\ Mapped /\ ExtentsOK(held) /\ Backed(disk, held, wrote, harm)
      /\ wrote \in [Units -> Value] /\ harm \in [Rows -> SUBSET Stripe]
      /\ disk \in [Stripe \X Rows -> Value \cup {None}]
  BY DEF IInv, Typed
<1>2. /\ DOMAIN new = span /\ span \subseteq Units /\ DOMAIN new \subseteq Units
      /\ \A u \in span : new[u] \in Value /\ u \notin HeldUnits
  BY DEF Writing
<1>3. PICK x \in [Units -> Value] : HoldsElements(x, disk, held, wrote, harm)
  BY <1>1 DEF Backed
<1>4. \A f : f \in Reached(new) <=> \E u \in span : Full(u) = f
  BY <1>2 DEF Finishes
<1> DEFINE mended(f) == f \in Reached(new) /\ HarmAfter(f, new) = {}
           z == [u \in Units |-> IF u \in span THEN new[u]
                                 ELSE IF mended(Full(u)) THEN disk[MapMirror(u, 0)] ELSE x[u]]
<1>5. \A f \in Reached(new) : f \in Rows /\ \A i \in Elements : disk[Spot(i, f)] # None
  BY <1>1, <1>2, WritesAre
<1>6. ASSUME NEW u \in Units
      PROVE  /\ Full(u) \in Rows /\ u % DataCount \in Elements /\ Full(u) = Row(u)
             /\ u = Full(u) * DataCount + (u % DataCount)
             /\ MapMirror(u, 0) = Spot(u % DataCount, Full(u))
             /\ MapMirror(u, 0)[1] = At(u % DataCount, Full(u))
             /\ MapMirror(u, 0) \in Stripe \X Rows
  BY <1>1, UnitIs, PartsAre, Everywhere DEF Spot
<1>7. z \in [Units -> Value]
  <2>1. ASSUME NEW u \in Units, mended(Full(u)) PROVE disk[MapMirror(u, 0)] \in Value
    <3>1. disk[MapMirror(u, 0)] # None
      BY <1>5, <1>6, <2>1
    <3>2. QED
      BY <1>1, <1>6, <3>1
  <2> HIDE DEF mended
  <2>2. QED
    BY <1>2, <2>1
<1>8. \A f \in Rows, j \in Parts :
        disk'[Spot(j, f)] = IF Spot(j, f) \in DOMAIN Writes(new) THEN Word(Merged(f, new), j)
                            ELSE disk[Spot(j, f)]
  BY <1>2, StripesWritten
<1>9. \A f \in Rows, j \in Parts :
        Spot(j, f) \in DOMAIN Writes(new) <=> f \in Reached(new) /\ j \in Rewritten(f, new)
  BY <1>1, <1>2, WritesAre
<1>10. ASSUME NEW u \in UnitsOf(held'), CoveredIn(held', u) PROVE z[u] = wrote'[u]
  <2>1. CASE u \in span
    BY <1>2, <2>1
  <2>2. CASE u \notin span
    <3>1. u \in UnitsOf(held)
      BY <2>2 DEF UnitsOf
    <3>2. CoveredIn(held, u) /\ u \in HeldUnits /\ u \in Units /\ Covered(u)
      BY <1>1, <1>10, <3>1, KindKept, HeldIs, UnitsHeld
    <3>3. x[u] = wrote[u] /\ wrote'[u] = wrote[u]
      BY <1>3, <2>2, <3>1, <3>2 DEF HoldsElements
    <3>4. CASE mended(Full(u))
      <4>1. MapMirror(u, 0)[1] \notin harm[Full(u)]
        <5>1. Stripe # {}
          BY <1>1, PartsAre DEF Stripe
        <5>2. u \in HeldUnits \ DOMAIN new
          BY <1>2, <2>2, <3>2
        <5>3. QED
          BY <3>2, <3>4, <5>1, <5>2 DEF HarmAfter
      <4>2. disk[Spot(u % DataCount, Full(u))] = Word(Of(x, Full(u)), u % DataCount)
        <5>1. u % DataCount \in Parts
          BY <1>1, <1>6, <3>2, PartsAre
        <5>2. QED
          BY <1>3, <1>6, <3>2, <4>1, <5>1 DEF HoldsElements
      <4>3. Word(Of(x, Full(u)), u % DataCount) = x[u]
        BY <1>1, <1>6, <3>2, OfIs
      <4>4. z[u] = disk[MapMirror(u, 0)]
        BY <2>2, <3>2, <3>4
      <4>5. QED
        BY <1>6, <3>2, <3>3, <4>2, <4>3, <4>4
    <3>5. CASE ~ mended(Full(u))
      BY <2>2, <3>2, <3>3, <3>5
    <3>6. QED
      BY <3>4, <3>5
  <2>3. QED
    BY <2>1, <2>2
<1>11. ASSUME NEW f \in Rows, NEW i \in Elements
       PROVE  /\ z[f * DataCount + i] = IF f * DataCount + i \in span THEN new[f * DataCount + i]
                                        ELSE IF mended(f) THEN disk[Spot(i, f)]
                                        ELSE x[f * DataCount + i]
              /\ (f * DataCount + i \in span => \E u \in span : Full(u) = f)
  <2> DEFINE u == f * DataCount + i
  <2>1. u \in Units /\ Full(u) = f /\ MapMirror(u, 0) = Spot(i, f)
    BY <1>1, UnitIs
  <2> HIDE DEF u
  <2>2. z[u] = IF u \in span THEN new[u] ELSE IF mended(f) THEN disk[Spot(i, f)] ELSE x[u]
    BY <2>1
  <2> HIDE DEF z
  <2>3. u \in span => \E v \in span : Full(v) = f
    BY <2>1
  <2>4. QED
    BY <2>2, <2>3 DEF u
<1> HIDE DEF z
<1>12. ASSUME NEW f \in Rows, NEW j \in Parts, At(j, f) \notin harm'[f]
       PROVE  disk'[Spot(j, f)] = Word(Of(z, f), j)
  <2>1. CASE f \in Reached(new)
    <3>1. At(j, f) \in Stripe
      BY <1>1, Everywhere, Spots
    <3>2. harm'[f] = HarmAfter(f, new)
      BY <1>4, <2>1
    <3>3. mended(f)
      BY <1>12, <2>1, <3>1, <3>2 DEF HarmAfter
    <3>4. Of(z, f) = Merged(f, new)
      <4>1. \A i \in Elements : i \in Touched(f, new) <=> f * DataCount + i \in span
        BY <1>2 DEF Touched
      <4>2. \A i \in Elements : z[f * DataCount + i] =
              IF i \in Touched(f, new) THEN new[f * DataCount + i] ELSE disk[Spot(i, f)]
        BY <1>11, <3>3, <4>1
      <4>3. QED
        BY <4>2 DEF Of, Merged
    <3>5. CASE j \in Rewritten(f, new)
      BY <1>8, <1>9, <2>1, <3>4, <3>5
    <3>6. CASE j \notin Rewritten(f, new)
      <4>1. j \in Elements /\ j \notin Touched(f, new)
        BY <1>1, <3>6, PartsAre DEF Rewritten
      <4>2. Merged(f, new)[j] = disk[Spot(j, f)]
        BY <4>1 DEF Merged
      <4>3. Word(Merged(f, new), j) = Merged(f, new)[j]
        BY <1>1, <4>1, PartsAre DEF Word, Elements
      <4>4. QED
        BY <1>8, <1>9, <3>4, <3>6, <4>2, <4>3
    <3>7. QED
      BY <3>5, <3>6
  <2>2. CASE f \notin Reached(new)
    <3>1. ~ \E u \in span : Full(u) = f
      BY <1>4, <2>2
    <3>2. At(j, f) \notin harm[f]
      BY <1>12, <3>1
    <3>3. disk[Spot(j, f)] = Word(Of(x, f), j)
      BY <1>3, <3>2 DEF HoldsElements
    <3>4. \A i \in Elements : z[f * DataCount + i] = x[f * DataCount + i]
      BY <1>11, <2>2, <3>1
    <3>5. Of(z, f) = Of(x, f)
      BY <3>4 DEF Of
    <3>6. QED
      BY <1>8, <1>9, <2>2, <3>3, <3>5
  <2>3. QED
    BY <2>1, <2>2
<1>13. HoldsElements(z, disk', held', wrote', harm')
  BY <1>10, <1>12 DEF HoldsElements
<1>14. harm' \in [Rows -> SUBSET Stripe]
  BY <1>1 DEF HarmAfter
<1>15. QED
  BY <1>7, <1>13, <1>14 DEF Backed

-----------------------------------------------------------------------------
(* Writes of mirrors                                                         *)

(* A unit of a mirrored chunk is written to each of its copies.              *)
LEMMA CopyWritesAre ==
  ASSUME Mapped, ~ IsParity, NEW new, DOMAIN new \subseteq Units
  PROVE  /\ \A u \in Units, m \in 0 .. Mirrors - 1 :
              /\ MapMirror(u, m) \in DOMAIN Writes(new) <=> u \in DOMAIN new
              /\ u \in DOMAIN new => Writes(new)[MapMirror(u, m)] = new[u]
         /\ \A at \in DOMAIN Writes(new) :
              \E u \in DOMAIN new, m \in 0 .. Mirrors - 1 : at = MapMirror(u, m)
<1> DEFINE places == {MapMirror(u, m) : u \in DOMAIN new, m \in 0 .. Mirrors - 1}
<1>1. Writes(new) = [at \in places |->
                       new[CHOOSE u \in DOMAIN new : \E m \in 0 .. Mirrors - 1 : MapMirror(u, m) = at]]
  BY DEF Writes, CopyWrites
<1>2. \A u, v \in Units, m, k \in 0 .. Mirrors - 1 : MapMirror(u, m) = MapMirror(v, k) => u = v /\ m = k
  BY CopiesApart
<1>3. \A at : at \in places <=> \E u \in DOMAIN new, m \in 0 .. Mirrors - 1 : at = MapMirror(u, m)
  OBVIOUS
<1> HIDE DEF places
<1>4. ASSUME NEW u \in Units, NEW m \in 0 .. Mirrors - 1
      PROVE  MapMirror(u, m) \in places <=> u \in DOMAIN new
  BY <1>2, <1>3
<1>5. ASSUME NEW u \in DOMAIN new, NEW m \in 0 .. Mirrors - 1
      PROVE  Writes(new)[MapMirror(u, m)] = new[u]
  <2>1. MapMirror(u, m) \in places
    BY <1>3
  <2>2. \A v \in DOMAIN new : (\E k \in 0 .. Mirrors - 1 : MapMirror(v, k) = MapMirror(u, m)) <=> v = u
    BY <1>2
  <2>3. (CHOOSE v \in DOMAIN new : \E k \in 0 .. Mirrors - 1 : MapMirror(v, k) = MapMirror(u, m)) = u
    BY <2>2
  <2>4. QED
    BY <1>1, <2>1, <2>3
<1>6. QED
  BY <1>1, <1>3, <1>4, <1>5

(* Some of a write of mirrors leaves values, and what is held as it was.    *)
LEMMA CopiesWritten ==
  ASSUME IInv, ~ IsParity, NEW span, NEW new, Writing(span, new),
         NEW kept, kept \subseteq DOMAIN Writes(new)
  PROVE  /\ Written(disk, Writes(new), kept) \in [Stripe \X Rows -> Value \cup {None}]
         /\ \A u \in Units, m \in 0 .. Mirrors - 1 :
              Written(disk, Writes(new), kept)[MapMirror(u, m)]
                = IF MapMirror(u, m) \in kept THEN new[u] ELSE disk[MapMirror(u, m)]
         /\ \A u \in Units, m \in 0 .. Mirrors - 1 :
              MapMirror(u, m) \in DOMAIN Writes(new) <=> u \in span
<1> DEFINE w == Writes(new)
           d == Written(disk, w, kept)
<1>1. Mapped /\ disk \in [Stripe \X Rows -> Value \cup {None}]
  BY DEF IInv, Typed
<1>2. DOMAIN new = span /\ DOMAIN new \subseteq Units /\ \A u \in span : new[u] \in Value
  BY DEF Writing
<1>3. d = [at \in Stripe \X Rows |-> IF at \in DOMAIN w \cap kept THEN w[at] ELSE disk[at]]
  BY <1>1 DEF Written
<1>4. /\ \A u \in Units, m \in 0 .. Mirrors - 1 :
           /\ MapMirror(u, m) \in DOMAIN w <=> u \in span
           /\ u \in span => w[MapMirror(u, m)] = new[u]
      /\ \A at \in DOMAIN w : \E u \in span, m \in 0 .. Mirrors - 1 : at = MapMirror(u, m)
  BY <1>1, <1>2, CopyWritesAre
<1> HIDE DEF d, w
<1>5. \A at \in DOMAIN w : w[at] \in Value
  BY <1>2, <1>4
<1>6. d \in [Stripe \X Rows -> Value \cup {None}]
  BY <1>1, <1>3, <1>5
<1>7. ASSUME NEW u \in Units, NEW m \in 0 .. Mirrors - 1
      PROVE  d[MapMirror(u, m)] = IF MapMirror(u, m) \in kept THEN new[u]
                                  ELSE disk[MapMirror(u, m)]
  <2>1. MapMirror(u, m) \in Stripe \X Rows
    BY <1>1, PlacesApart
  <2>2. MapMirror(u, m) \in kept => MapMirror(u, m) \in DOMAIN w
    BY DEF w
  <2>3. QED
    BY <1>3, <1>4, <2>1, <2>2
<1>8. QED
  BY <1>4, <1>6, <1>7 DEF d, w

(* A write of mirrors cut off leaves what is held as it was.                 *)
LEMMA CopiesCut ==
  ASSUME IInv, ~ IsParity, NEW span, NEW new, Writing(span, new),
         NEW kept, kept \subseteq DOMAIN Writes(new), held' = held, wrote' = wrote,
         disk' = Written(disk, Writes(new), kept), harm' = harm
  PROVE  Backed(disk', held', wrote', harm')
<1>1. Mapped /\ ExtentsOK(held) /\ HoldsCopies(disk, held, wrote, harm)
  BY DEF IInv, Backed
<1>2. ASSUME NEW u \in UnitsOf(held), NEW m \in 0 .. Mirrors - 1
      PROVE  disk'[MapMirror(u, m)] = disk[MapMirror(u, m)]
  <2>1. u \in Units /\ u \notin span
    BY <1>1, HeldIs, UnitsHeld DEF Writing
  <2>2. MapMirror(u, m) \notin kept
    BY <2>1, CopiesWritten
  <2>3. QED
    BY <2>1, <2>2, CopiesWritten
<1>3. HoldsCopies(disk', held', wrote', harm')
  BY <1>1, <1>2 DEF HoldsCopies
<1>4. QED
  BY <1>3 DEF Backed

(* A finished one puts the new units in every copy, harmed or not.           *)
LEMMA CopiesDone ==
  ASSUME IInv, ~ IsParity, NEW span, NEW new, Writing(span, new),
         NEW e, Span(e) = span, held' = held \cup {e}, ExtentsOK(held'),
         wrote' = [u \in Units |-> IF u \in span THEN new[u] ELSE wrote[u]],
         disk' = Written(disk, Writes(new), DOMAIN Writes(new)),
         harm' = [r \in Rows |-> harm[r] \ {p[1] : p \in {p \in DOMAIN Writes(new) : p[2] = r}}]
  PROVE  Backed(disk', held', wrote', harm') /\ harm' \in [Rows -> SUBSET Stripe]
<1> DEFINE w == Writes(new)
<1>1. /\ Mapped /\ ExtentsOK(held) /\ HoldsCopies(disk, held, wrote, harm)
      /\ harm \in [Rows -> SUBSET Stripe]
  BY DEF IInv, Backed, Typed
<1>2. /\ \A u \in Units, m \in 0 .. Mirrors - 1 :
           disk'[MapMirror(u, m)] = IF MapMirror(u, m) \in DOMAIN w THEN new[u]
                                    ELSE disk[MapMirror(u, m)]
      /\ \A u \in Units, m \in 0 .. Mirrors - 1 : MapMirror(u, m) \in DOMAIN w <=> u \in span
  BY CopiesWritten
<1>3. \A at \in DOMAIN w : at = <<at[1], at[2]>>
  <2>1. \A at \in DOMAIN w : \E u \in Units, m \in 0 .. Mirrors - 1 : at = MapMirror(u, m)
    BY <1>1, CopyWritesAre DEF Writing
  <2>2. \A at \in DOMAIN w : at \in Stripe \X Rows
    BY <1>1, <2>1, PlacesApart
  <2>3. QED
    BY <2>2
<1> HIDE DEF w
<1>4. ASSUME NEW u \in UnitsOf(held'), NEW m \in 0 .. Mirrors - 1,
             CoveredIn(held', u), CopyAt(u, m) \notin harm'[Row(u)]
      PROVE  disk'[MapMirror(u, m)] = wrote'[u]
  <2>1. CASE u \in span
    <3>1. u \in Units
      BY <2>1 DEF Writing
    <3>2. QED
      BY <1>2, <2>1, <3>1
  <2>2. CASE u \notin span
    <3>1. u \in UnitsOf(held)
      BY <2>2 DEF UnitsOf
    <3>2. CoveredIn(held, u) /\ u \in Units
      BY <1>1, <1>4, <3>1, KindKept, HeldIs, UnitsHeld
    <3>3. /\ MapMirror(u, m) = <<CopyAt(u, m), Row(u)>> /\ CopyAt(u, m) \in Stripe
          /\ Row(u) \in Rows
      BY <1>1, <3>2, MirrorIs
    <3>4. MapMirror(u, m) \notin DOMAIN w
      BY <1>2, <2>2, <3>2
    <3>5. CopyAt(u, m) \notin harm[Row(u)]
      <4>1. harm'[Row(u)] = harm[Row(u)] \ {p[1] : p \in {p \in DOMAIN w : p[2] = Row(u)}}
        BY <3>3 DEF w
      <4>2. \A p \in DOMAIN w : p[2] = Row(u) => p[1] # CopyAt(u, m)
        BY <1>3, <3>3, <3>4
      <4>3. QED
        BY <1>4, <4>1, <4>2
    <3>6. disk[MapMirror(u, m)] = wrote[u]
      BY <1>1, <3>1, <3>2, <3>5 DEF HoldsCopies
    <3>7. QED
      BY <1>2, <2>2, <3>2, <3>4, <3>6
  <2>3. QED
    BY <2>1, <2>2
<1>5. HoldsCopies(disk', held', wrote', harm')
  BY <1>4 DEF HoldsCopies
<1>6. harm' \in [Rows -> SUBSET Stripe]
  BY <1>1
<1>7. QED
  BY <1>5, <1>6 DEF Backed

(* A write, finished or cut off, keeps the invariant.                        *)
LEMMA IInvWrite ==
  ASSUME IInv, NEW at \in Units, NEW len \in 1 .. 2, NEW kind \in {"tree", "data", "nosum"},
         kind = "tree" => len = 1, Write(at, len, kind)
  PROVE  IInv'
<1> DEFINE span == at .. at + len - 1
           new == [u \in span |-> Contents[calls][u]]
           w == Writes(new)
           e == [at |-> at, len |-> len, kind |-> kind]
<1>1. /\ Mapped /\ ExtentsOK(held) /\ wrote \in [Units -> Value] /\ calls \in 0 .. MaxCalls
      /\ harm \in [Rows -> SUBSET Stripe] /\ faults \in 0 .. MaxFaults /\ outcome \in Outcomes
  BY DEF IInv, Typed
<1>2. /\ calls < MaxCalls /\ calls' = calls + 1 /\ layout' = layout /\ faults' = faults
      /\ span \subseteq Units \ HeldUnits
  BY DEF Write, Called
<1>3. \/ /\ Finishes(new) /\ outcome' = "wrote" /\ disk' = Written(disk, w, DOMAIN w)
         /\ held' = held \cup {e}
         /\ wrote' = [u \in Units |-> IF u \in span THEN new[u] ELSE wrote[u]]
         /\ harm' = [r \in Rows |->
              IF ~IsParity THEN harm[r] \ {p[1] : p \in {p \in DOMAIN w : p[2] = r}}
              ELSE IF \E u \in span : Full(u) = r THEN HarmAfter(r, new) ELSE harm[r]]
      \/ \E kept \in SUBSET DOMAIN w :
           /\ outcome' = "cut" /\ held' = held /\ wrote' = wrote
           /\ disk' = Written(disk, w, kept)
           /\ harm' = [r \in Rows |-> IF IsParity /\ \E u \in span : Full(u) = r
                                      THEN harm[r] \cup ParityStripes(r) ELSE harm[r]]
  BY DEF Write
<1>4. Writing(span, new)
  <2>1. \A k \in 0 .. MaxCalls - 1, u \in Units : Contents[k][u] \in Value
    <3>1. PICK l \in Layouts : layout = l.layout
      BY <1>1 DEF Mapped
    <3>2. \A k \in 0 .. MaxCalls - 1, u \in 0 .. l.layout.units - 1 : Contents[k][u] \in Value
      BY LayoutsAssumption
    <3>3. QED
      BY <3>1, <3>2 DEF Units
  <2>2. calls \in 0 .. MaxCalls - 1
    BY <1>1, <1>2, RaidAssumption
  <2>3. \A u \in span : new[u] \in Value
    BY <1>2, <2>1, <2>2
  <2>4. QED
    BY <1>2, <2>3 DEF Writing
<1>5. Span(e) = span
  BY DEF Span
<1>6. ExtentsOK(held \cup {e})
  <2>1. /\ Span(e) \subseteq Units /\ e.at \in Units /\ e.len \in Nat \ {0}
        /\ e.kind \in {"tree", "data", "nosum"} /\ (e.kind = "tree" => e.len = 1)
    <3>1. len \in Nat \ {0}
      OBVIOUS
    <3>2. QED
      BY <1>2, <1>5, <3>1
  <2>2. \A f \in held : Span(f) \cap Span(e) = {}
    BY <1>2, <1>5 DEF HeldUnits
  <2> HIDE DEF e
  <2>3. QED
    BY <1>1, <2>1, <2>2 DEF ExtentsOK
<1> HIDE DEF span, new, w, e
<1>7. calls' \in 0 .. MaxCalls /\ faults' \in 0 .. MaxFaults
  BY <1>1, <1>2, RaidAssumption
<1>8. CASE /\ Finishes(new) /\ outcome' = "wrote" /\ disk' = Written(disk, w, DOMAIN w)
           /\ held' = held \cup {e}
           /\ wrote' = [u \in Units |-> IF u \in span THEN new[u] ELSE wrote[u]]
           /\ harm' = [r \in Rows |->
                IF ~IsParity THEN harm[r] \ {p[1] : p \in {p \in DOMAIN w : p[2] = r}}
                ELSE IF \E u \in span : Full(u) = r THEN HarmAfter(r, new) ELSE harm[r]]
  <2>1. ExtentsOK(held')
    BY <1>6, <1>8
  <2>2. disk' \in [Stripe \X Rows -> Value \cup {None}]
    <3>1. CASE IsParity
      BY <1>4, <1>8, <3>1, StripesWritten DEF w, Writing
    <3>2. CASE ~ IsParity
      BY <1>4, <1>8, <3>2, CopiesWritten DEF w
    <3>3. QED
      BY <3>1, <3>2
  <2>3. Backed(disk', held', wrote', harm') /\ harm' \in [Rows -> SUBSET Stripe]
    <3>1. CASE IsParity
      <4>1. harm' = [r \in Rows |-> IF \E u \in span : Full(u) = r THEN HarmAfter(r, new)
                                    ELSE harm[r]]
        BY <1>8, <3>1
      <4>2. /\ Finishes(new) /\ held' = held \cup {e}
            /\ wrote' = [u \in Units |-> IF u \in span THEN new[u] ELSE wrote[u]]
            /\ disk' = Written(disk, Writes(new), DOMAIN Writes(new))
        BY <1>8 DEF w
      <4>3. QED
        BY <1>4, <1>5, <2>1, <3>1, <4>1, <4>2, StripesDone
    <3>2. CASE ~ IsParity
      <4>1. harm' = [r \in Rows |-> harm[r] \ {p[1] : p \in {p \in DOMAIN w : p[2] = r}}]
        BY <1>8, <3>2
      <4>2. QED
        BY <1>4, <1>5, <1>8, <2>1, <3>2, <4>1, CopiesDone DEF w
    <3>3. QED
      BY <3>1, <3>2
  <2>4. wrote' \in [Units -> Value]
    BY <1>1, <1>4, <1>8 DEF Writing
  <2>5. outcome' \in Outcomes
    BY <1>8 DEF Outcomes
  <2>6. QED
    BY <1>1, <1>2, <1>7, <2>1, <2>2, <2>3, <2>4, <2>5, IInvNext
<1>9. ASSUME NEW kept \in SUBSET DOMAIN w, outcome' = "cut", held' = held, wrote' = wrote,
             disk' = Written(disk, w, kept),
             harm' = [r \in Rows |-> IF IsParity /\ \E u \in span : Full(u) = r
                                     THEN harm[r] \cup ParityStripes(r) ELSE harm[r]]
      PROVE  IInv'
  <2>1. disk' \in [Stripe \X Rows -> Value \cup {None}]
    <3>1. CASE IsParity
      BY <1>4, <1>9, <3>1, StripesWritten DEF w, Writing
    <3>2. CASE ~ IsParity
      BY <1>4, <1>9, <3>2, CopiesWritten DEF w
    <3>3. QED
      BY <3>1, <3>2
  <2>2. Backed(disk', held', wrote', harm') /\ harm' \in [Rows -> SUBSET Stripe]
    <3>1. CASE IsParity
      <4>1. harm' = [r \in Rows |-> IF \E u \in span : Full(u) = r
                                    THEN harm[r] \cup ParityStripes(r) ELSE harm[r]]
        BY <1>9, <3>1
      <4>2. QED
        BY <1>4, <1>9, <3>1, <4>1, StripesCut DEF w
    <3>2. CASE ~ IsParity
      <4>1. harm' = harm
        BY <1>1, <1>9, <3>2
      <4>2. QED
        BY <1>1, <1>4, <1>9, <3>2, <4>1, CopiesCut DEF w
    <3>3. QED
      BY <3>1, <3>2
  <2>3. outcome' \in Outcomes
    BY <1>9 DEF Outcomes
  <2>4. QED
    BY <1>1, <1>2, <1>7, <1>9, <2>1, <2>2, <2>3, IInvNext
<1>10. QED
  BY <1>3, <1>8, <1>9

-----------------------------------------------------------------------------
(* What a scrub finds                                                        *)

(* A tree block's bad copies are those that are not what was written.        *)
LEMMA TreeFound ==
  ASSUME NEW d, NEW u
  PROVE  /\ \A e \in TreeErrors(d, u) : /\ e.unit = u /\ e.mirror \in 0 .. Mirrors - 1
                                         /\ ReadCopy(d, Stripe, u, e.mirror) # wrote[u]
         /\ \A m \in 0 .. Mirrors - 1 : ReadCopy(d, Stripe, u, m) # wrote[u] =>
              \E e \in TreeErrors(d, u) : e.unit = u /\ e.mirror = m
<1> DEFINE bad == {m \in 0 .. Mirrors - 1 : ReadCopy(d, Stripe, u, m) # wrote[u]}
           can == Cardinality(bad) < Mirrors \/ Rebuilt(d, u)
<1>1. TreeErrors(d, u) = {Error(u, m, "tree", can) : m \in bad}
  BY DEF TreeErrors
<1>2. \A m : Error(u, m, "tree", can).unit = u /\ Error(u, m, "tree", can).mirror = m
  BY DEF Error
<1>3. \A m \in bad : m \in 0 .. Mirrors - 1 /\ ReadCopy(d, Stripe, u, m) # wrote[u]
  OBVIOUS
<1>4. \A m \in 0 .. Mirrors - 1 : ReadCopy(d, Stripe, u, m) # wrote[u] => m \in bad
  OBVIOUS
<1> HIDE DEF bad, can
<1>5. QED
  BY <1>1, <1>2, <1>3, <1>4

(* An extent's bad copies: every one of its units where one cannot be read,
   and those that do not verify.                                             *)
LEMMA DataFound ==
  ASSUME NEW d, NEW x
  PROVE  /\ \A e \in DataErrors(d, x) :
              /\ e.unit \in Span(x) /\ e.mirror \in 0 .. Mirrors - 1
              /\ \/ \E v \in Span(x) : ReadCopy(d, Stripe, v, e.mirror) = None
                 \/ Covered(e.unit) /\ ReadCopy(d, Stripe, e.unit, e.mirror) # wrote[e.unit]
         /\ \A u \in Span(x), m \in 0 .. Mirrors - 1 :
              \/ ReadCopy(d, Stripe, u, m) = None
              \/ Covered(u) /\ ReadCopy(d, Stripe, u, m) # wrote[u]
              => \E e \in DataErrors(d, x) : e.unit = u /\ e.mirror = m
<1> DEFINE unread(m) == \E u \in Span(x) : ReadCopy(d, Stripe, u, m) = None
           bad(u) == {m \in 0 .. Mirrors - 1 :
                        \/ unread(m)
                        \/ Covered(u) /\ ReadCopy(d, Stripe, u, m) # wrote[u]}
           can(u) == Cardinality(bad(u)) < Mirrors \/ Rebuilt(d, u)
           of(u) == {Error(u, m, "data", can(u)) : m \in bad(u)}
<1>1. DataErrors(d, x) = UNION {of(u) : u \in Span(x)}
  BY DEF DataErrors
<1>2. \A u : \A m \in bad(u) :
        /\ m \in 0 .. Mirrors - 1
        /\ \/ \E v \in Span(x) : ReadCopy(d, Stripe, v, m) = None
           \/ Covered(u) /\ ReadCopy(d, Stripe, u, m) # wrote[u]
  OBVIOUS
<1>3. \A u \in Span(x) : \A m \in 0 .. Mirrors - 1 :
        \/ ReadCopy(d, Stripe, u, m) = None
        \/ Covered(u) /\ ReadCopy(d, Stripe, u, m) # wrote[u]
        => m \in bad(u)
  OBVIOUS
<1> HIDE DEF bad, can
<1>4. ASSUME NEW u
      PROVE  /\ \A e \in of(u) : e.unit = u /\ e.mirror \in bad(u)
             /\ \A m \in bad(u) : \E e \in of(u) : e.unit = u /\ e.mirror = m
  <2> DEFINE here == bad(u)
             it == can(u)
             found == {Error(u, m, "data", it) : m \in here}
  <2>1. \A m : Error(u, m, "data", it).unit = u /\ Error(u, m, "data", it).mirror = m
    BY DEF Error
  <2>2. of(u) = found
    OBVIOUS
  <2> HIDE DEF here, it
  <2>3. /\ \A e \in found : e.unit = u /\ e.mirror \in here
        /\ \A m \in here : \E e \in found : e.unit = u /\ e.mirror = m
    BY <2>1
  <2> HIDE DEF found
  <2>4. QED
    BY <2>2, <2>3 DEF here
<1> HIDE DEF of
<1>5. QED
  BY <1>1, <1>2, <1>3, <1>4

(* An error is of a copy of a held unit that does not verify, or of a file's
   extent of which something in that copy cannot be read; and every such
   copy is found.                                                           *)
LEMMA CopiesFound ==
  ASSUME Mapped, ExtentsOK(held), NEW d
  PROVE  /\ \A e \in CopyErrors(d) : /\ e.unit \in HeldUnits /\ e.unit \in Units
                                     /\ e.mirror \in 0 .. Mirrors - 1
         /\ \A u \in HeldUnits, m \in 0 .. Mirrors - 1 :
              Covered(u) /\ ReadCopy(d, Stripe, u, m) # wrote[u] =>
                \E e \in CopyErrors(d) : e.unit = u /\ e.mirror = m
         /\ \A e \in CopyErrors(d) : \E x \in held :
              /\ e.unit \in Span(x)
              /\ \/ Covered(e.unit) /\ ReadCopy(d, Stripe, e.unit, e.mirror) # wrote[e.unit]
                 \/ /\ x.kind # "tree"
                    /\ \E v \in Span(x) : ReadCopy(d, Stripe, v, e.mirror) = None
         /\ \A x \in held, m \in 0 .. Mirrors - 1 : x.kind # "tree" =>
              \A v \in Span(x) : ReadCopy(d, Stripe, v, m) = None =>
                \E e \in CopyErrors(d) : e.unit = v /\ e.mirror = m
<1> DEFINE of(x) == IF x.kind = "tree" THEN TreeErrors(d, x.at) ELSE DataErrors(d, x)
<1>1. CopyErrors(d) = UNION {of(x) : x \in held}
  BY DEF CopyErrors
<1>2. ASSUME NEW x \in held, x.kind = "tree" PROVE Span(x) = {x.at} /\ Covered(x.at)
  <2>1. x.len = 1 /\ x.at \in Int
    BY <1>2 DEF ExtentsOK, Units
  <2>2. Span(x) = {x.at}
    BY <2>1 DEF Span
  <2>3. Kind(x.at) = x.kind
    BY <2>2, KindIs, HeldIs
  <2>4. QED
    BY <1>2, <2>2, <2>3 DEF Covered
<1>3. ASSUME NEW x \in held
      PROVE  /\ \A e \in of(x) :
                  /\ e.unit \in Span(x) /\ e.mirror \in 0 .. Mirrors - 1
                  /\ \/ Covered(e.unit) /\ ReadCopy(d, Stripe, e.unit, e.mirror) # wrote[e.unit]
                     \/ /\ x.kind # "tree"
                        /\ \E v \in Span(x) : ReadCopy(d, Stripe, v, e.mirror) = None
             /\ \A u \in Span(x), m \in 0 .. Mirrors - 1 :
                  Covered(u) /\ ReadCopy(d, Stripe, u, m) # wrote[u] =>
                    \E e \in of(x) : e.unit = u /\ e.mirror = m
             /\ x.kind # "tree" =>
                  \A v \in Span(x), m \in 0 .. Mirrors - 1 : ReadCopy(d, Stripe, v, m) = None =>
                    \E e \in of(x) : e.unit = v /\ e.mirror = m
  <2>1. CASE x.kind = "tree"
    <3>1. of(x) = TreeErrors(d, x.at)
      BY <2>1
    <3>2. Span(x) = {x.at} /\ Covered(x.at)
      BY <1>2, <2>1
    <3> HIDE DEF of
    <3>3. QED
      BY <2>1, <3>1, <3>2, TreeFound
  <2>2. CASE x.kind # "tree"
    <3>1. of(x) = DataErrors(d, x)
      BY <2>2
    <3> HIDE DEF of
    <3>2. QED
      BY <2>2, <3>1, DataFound
  <2>3. QED
    BY <2>1, <2>2
<1> HIDE DEF of
<1>4. \A u \in HeldUnits : u \in Units /\ \E x \in held : u \in Span(x)
  BY UnitsHeld
<1>5. \A x \in held : Span(x) \subseteq HeldUnits
  BY DEF HeldUnits
<1>6. ASSUME NEW u \in HeldUnits, NEW m \in 0 .. Mirrors - 1,
             Covered(u), ReadCopy(d, Stripe, u, m) # wrote[u]
      PROVE  \E e \in CopyErrors(d) : e.unit = u /\ e.mirror = m
  <2>1. PICK x \in held : u \in Span(x)
    BY <1>4
  <2>2. \E e \in of(x) : e.unit = u /\ e.mirror = m
    BY <1>3, <1>6, <2>1
  <2>3. QED
    BY <1>1, <2>2
<1>7. ASSUME NEW x \in held, NEW m \in 0 .. Mirrors - 1, x.kind # "tree",
             NEW v \in Span(x), ReadCopy(d, Stripe, v, m) = None
      PROVE  \E e \in CopyErrors(d) : e.unit = v /\ e.mirror = m
  <2>1. \E e \in of(x) : e.unit = v /\ e.mirror = m
    BY <1>3, <1>7
  <2>2. QED
    BY <1>1, <2>1
<1>8. ASSUME NEW e \in CopyErrors(d)
      PROVE  /\ e.unit \in HeldUnits /\ e.unit \in Units /\ e.mirror \in 0 .. Mirrors - 1
             /\ \E x \in held :
                  /\ e.unit \in Span(x)
                  /\ \/ Covered(e.unit) /\ ReadCopy(d, Stripe, e.unit, e.mirror) # wrote[e.unit]
                     \/ /\ x.kind # "tree"
                        /\ \E v \in Span(x) : ReadCopy(d, Stripe, v, e.mirror) = None
  <2>1. PICK x \in held : e \in of(x)
    BY <1>1
  <2>2. QED
    BY <1>3, <1>4, <1>5, <2>1
<1>9. QED
  BY <1>6, <1>7, <1>8

(* From the whole pool a copy is read off its own place.                    *)
LEMMA CopyRead ==
  ASSUME Mapped, NEW d, NEW u \in Units, NEW m \in 0 .. Mirrors - 1
  PROVE  ReadCopy(d, Stripe, u, m) = d[MapMirror(u, m)]
<1>1. CASE IsParity
  <2>1. m = 0
    BY <1>1, UnitIs
  <2>2. MapMirror(u, 0) = Spot(u % DataCount, Full(u))
    BY <1>1, UnitIs
  <2>3. At(u % DataCount, Full(u)) \in Stripe /\ MapMirror(u, 0)[1] = At(u % DataCount, Full(u))
    <3>1. u % DataCount \in Parts /\ Full(u) \in Nat
      BY <1>1, UnitIs, PartsAre
    <3>2. At(u % DataCount, Full(u)) \in Stripe
      BY <1>1, <3>1, Spots
    <3>3. QED
      BY <2>2, <3>2 DEF Spot
  <2>4. QED
    BY <2>1, <2>3 DEF ReadCopy, Element
<1>2. CASE ~ IsParity
  <2>1. CopyAt(u, m) \in Stripe
    BY <1>2, MirrorIs
  <2>2. QED
    BY <1>2, <2>1, CopyReads
<1>3. QED
  BY <1>1, <1>2

-----------------------------------------------------------------------------
(* What a repair writes                                                      *)

Found == CopyErrors(disk)
Mends == CopyRepairs(Repaired(Found))
Mended == Written(disk, Mends, DOMAIN Mends)
Put == AllRepairs(Found, Mends)

(* The copies repaired are those found bad and reported as repairable, of
   units with a checksum, and are given what was written.                   *)
LEMMA MendsAre ==
  ASSUME IInv
  PROVE  /\ \A u \in Units, m \in 0 .. Mirrors - 1 :
              /\ MapMirror(u, m) \in DOMAIN Mends <=>
                   \E e \in Repaired(Found) : e.unit = u /\ e.mirror = m
              /\ MapMirror(u, m) \in DOMAIN Mends =>
                   Mends[MapMirror(u, m)] = wrote[u] /\ Covered(u) /\ u \in HeldUnits
         /\ \A at \in DOMAIN Mends :
              \E u \in HeldUnits, m \in 0 .. Mirrors - 1 : at = MapMirror(u, m) /\ u \in Units
<1> DEFINE repaired == Repaired(Found)
           places == {MapMirror(e.unit, e.mirror) : e \in repaired}
<1>1. Mapped /\ ExtentsOK(held)
  BY DEF IInv
<1>2. \A e \in repaired : e \in Repairable(Found) /\ e \in Found
  BY DEF Repaired, Repairable
<1>3. \A e \in repaired : /\ e.unit \in HeldUnits /\ e.unit \in Units
                          /\ e.mirror \in 0 .. Mirrors - 1
  BY <1>1, <1>2, CopiesFound DEF Found
<1>4. ASSUME NEW e \in repaired PROVE Covered(e.unit)
  <2>1. e.unit \in Int /\ e.mirror \in Int
    BY <1>3 DEF Units
  <2>2. ~ Precedes(e, e)
    BY <2>1 DEF Precedes
  <2>3. e \notin Stuck(Found)
    BY <2>2 DEF Repaired
  <2>4. QED
    BY <1>2, <2>3 DEF Stuck
<1>5. Mends = [at \in places |->
                 wrote[(CHOOSE e \in repaired : MapMirror(e.unit, e.mirror) = at).unit]]
  BY DEF Mends, CopyRepairs
<1>6. \A at : at \in places <=> \E e \in repaired : at = MapMirror(e.unit, e.mirror)
  OBVIOUS
<1> HIDE DEF repaired, places
<1>7. ASSUME NEW u \in Units, NEW m \in 0 .. Mirrors - 1
      PROVE  MapMirror(u, m) \in places <=> \E e \in repaired : e.unit = u /\ e.mirror = m
  BY <1>1, <1>3, <1>6, PlacesApart
<1>8. ASSUME NEW u \in Units, NEW m \in 0 .. Mirrors - 1, MapMirror(u, m) \in places
      PROVE  Mends[MapMirror(u, m)] = wrote[u] /\ Covered(u) /\ u \in HeldUnits
  <2> DEFINE e == CHOOSE e \in repaired : MapMirror(e.unit, e.mirror) = MapMirror(u, m)
  <2>1. e \in repaired /\ MapMirror(e.unit, e.mirror) = MapMirror(u, m)
    BY <1>6, <1>8
  <2>2. Mends[MapMirror(u, m)] = wrote[e.unit]
    BY <1>5, <1>8
  <2> HIDE DEF e
  <2>3. e.unit = u
    BY <1>1, <1>3, <2>1, PlacesApart
  <2>4. QED
    BY <1>3, <1>4, <2>1, <2>2, <2>3
<1>9. DOMAIN Mends = places
  BY <1>5
<1>10. QED
  BY <1>3, <1>6, <1>7, <1>8, <1>9 DEF repaired

(* After the copies are repaired the chunk is as it was but for those.       *)
LEMMA MendedIs ==
  ASSUME IInv
  PROVE  /\ Mended \in [Stripe \X Rows -> Value \cup {None}]
         /\ \A u \in Units, m \in 0 .. Mirrors - 1 :
              Mended[MapMirror(u, m)] = IF MapMirror(u, m) \in DOMAIN Mends THEN wrote[u]
                                        ELSE disk[MapMirror(u, m)]
         /\ \A at \in Stripe \X Rows : at \notin DOMAIN Mends => Mended[at] = disk[at]
<1>1. /\ Mapped /\ ExtentsOK(held) /\ disk \in [Stripe \X Rows -> Value \cup {None}]
      /\ wrote \in [Units -> Value]
  BY DEF IInv, Typed
<1>2. Mended = [at \in Stripe \X Rows |-> IF at \in DOMAIN Mends THEN Mends[at] ELSE disk[at]]
  BY <1>1 DEF Mended, Written
<1>3. ASSUME NEW at \in DOMAIN Mends PROVE Mends[at] \in Value
  <2>1. PICK u \in HeldUnits, m \in 0 .. Mirrors - 1 : at = MapMirror(u, m) /\ u \in Units
    BY MendsAre
  <2>2. Mends[at] = wrote[u]
    BY <2>1, MendsAre
  <2>3. QED
    BY <1>1, <2>1, <2>2
<1>4. \A u \in Units, m \in 0 .. Mirrors - 1 : MapMirror(u, m) \in Stripe \X Rows
  BY <1>1, PlacesApart
<1>5. \A u \in Units, m \in 0 .. Mirrors - 1 :
        MapMirror(u, m) \in DOMAIN Mends => Mends[MapMirror(u, m)] = wrote[u]
  BY MendsAre
<1> HIDE DEF Mended, Mends
<1>6. QED
  BY <1>1, <1>2, <1>3, <1>4, <1>5

\* The data of a full stripe.
DataOf(d, f) == [i \in Elements |-> d[Spot(i, f)]]

(* Parity is found to disagree only where all of the data could be read and
   some of it is held, and is to become what the data comes to.             *)
LEMMA MismatchesAre ==
  ASSUME Mapped, IsParity, NEW d, NEW f \in Rows
  PROVE  /\ \A at \in DOMAIN ParityMismatches(d, f) : \E j \in Checks : at = Spot(j, f)
         /\ \A j \in Checks :
              Spot(j, f) \in DOMAIN ParityMismatches(d, f) <=>
                /\ \A i \in Elements : d[Spot(i, f)] # None
                /\ \E u \in HeldUnits : Full(u) = f
                /\ d[Spot(j, f)] # Word(DataOf(d, f), j)
         /\ \A j \in Checks : Spot(j, f) \in DOMAIN ParityMismatches(d, f) =>
              ParityMismatches(d, f)[Spot(j, f)] = Word(DataOf(d, f), j)
<1> DEFINE plan == ParityRead(f)
           data == [i \in DOMAIN plan.data |-> d[plan.data[i]]]
           parity == Parity(data)
           due(at) == IF at = plan.p THEN parity.p ELSE parity.q
           skipped == \/ \E i \in DOMAIN data : data[i] = None
                      \/ ~\E u \in HeldUnits : Full(u) = f
           wrong == {at \in {plan.p} \cup plan.q : d[at] # due(at)}
<1>1. ParityMismatches(d, f) = IF skipped THEN <<>> ELSE [at \in wrong |-> due(at)]
  BY DEF ParityMismatches
<1>2. f \in Nat
  BY Everywhere
<1>3. /\ plan.data = [i \in Elements |-> Spot(i, f)] /\ plan.p = Spot(DataCount, f)
      /\ plan.q = IF layout.profile = "raid6" THEN {Spot(DataCount + 1, f)} ELSE {}
  BY <1>2, SpotIs
<1>4. /\ DataCount \in Nat /\ Checks \subseteq Parts
      /\ Checks = IF layout.profile = "raid6" THEN {DataCount, DataCount + 1} ELSE {DataCount}
  BY PartsAre
<1>5. data = DataOf(d, f)
  BY <1>3 DEF DataOf
<1>6. \A j, k \in Checks : Spot(j, f) = Spot(k, f) => j = k
  BY <1>4, Everywhere
<1>7. skipped <=> \/ \E i \in Elements : d[Spot(i, f)] = None
                  \/ ~\E u \in HeldUnits : Full(u) = f
  BY <1>3
<1>8. {plan.p} \cup plan.q = {Spot(j, f) : j \in Checks}
  BY <1>3, <1>4
<1> HIDE DEF plan, data
<1>9. ASSUME NEW j \in Checks PROVE due(Spot(j, f)) = Word(DataOf(d, f), j)
  <2>1. CASE j = DataCount
    <3>1. Spot(j, f) = plan.p /\ ~ (j < DataCount)
      BY <1>3, <1>4, <2>1
    <3>2. QED
      BY <1>5, <2>1, <3>1 DEF Word
  <2>2. CASE j # DataCount
    <3>1. j = DataCount + 1 /\ ~ (j < DataCount) /\ DataCount \in Checks
      BY <1>4, <2>2
    <3>2. Spot(j, f) # plan.p
      BY <1>3, <1>6, <2>2, <3>1
    <3>3. due(Spot(j, f)) = parity.q
      BY <3>2
    <3>4. QED
      BY <1>5, <2>2, <3>1, <3>3 DEF Word
  <2>3. QED
    BY <2>1, <2>2
<1> HIDE DEF due, skipped
<1>10. DOMAIN ParityMismatches(d, f) = IF skipped THEN {} ELSE wrong
  <2>1. DOMAIN <<>> = {}
    OBVIOUS
  <2>2. QED
    BY <1>1, <2>1
<1>11. \A j \in Checks : Spot(j, f) \in wrong <=> d[Spot(j, f)] # Word(DataOf(d, f), j)
  BY <1>8, <1>9
<1>12. \A at \in wrong : \E j \in Checks : at = Spot(j, f)
  BY <1>8
<1> HIDE DEF wrong
<1>13. ASSUME NEW j \in Checks, Spot(j, f) \in DOMAIN ParityMismatches(d, f)
       PROVE  ParityMismatches(d, f)[Spot(j, f)] = Word(DataOf(d, f), j)
  <2>1. ~ skipped /\ Spot(j, f) \in wrong
    BY <1>10, <1>13
  <2>2. QED
    BY <1>1, <1>9, <2>1
<1>14. QED
  BY <1>7, <1>10, <1>11, <1>12, <1>13

(* Parity is written where it does not agree with the data the repair
   leaves, of the full stripes to compute again.                             *)
LEMMA RestripesAre ==
  ASSUME Mapped, IsParity, NEW d, NEW found
  PROVE  /\ \A at \in DOMAIN ParityRepairs(d, found) :
              \E f \in Restriped(found), j \in Checks : at = Spot(j, f)
         /\ \A f \in Rows, j \in Checks :
              /\ Spot(j, f) \in DOMAIN ParityRepairs(d, found) <=>
                   f \in Restriped(found) /\ Spot(j, f) \in DOMAIN ParityMismatches(d, f)
              /\ Spot(j, f) \in DOMAIN ParityRepairs(d, found) =>
                   ParityRepairs(d, found)[Spot(j, f)] = Word(DataOf(d, f), j)
<1> DEFINE R == Restriped(found)
           F == [f \in Rows |-> ParityMismatches(d, f)]
           each == {F[f] : f \in R}
           all == AllOf(each)
<1>1. R \subseteq Rows
  BY DEF Restriped
<1>2. all = ParityRepairs(d, found)
  <2>1. {ParityMismatches(d, f) : f \in R} = each
    BY <1>1
  <2>2. QED
    BY <2>1 DEF ParityRepairs
<1>3. \A f \in Rows : /\ F[f] = ParityMismatches(d, f)
                      /\ \A at \in DOMAIN F[f] : \E j \in Checks : at = Spot(j, f)
                      /\ \A j \in Checks : Spot(j, f) \in DOMAIN F[f] =>
                           F[f][Spot(j, f)] = Word(DataOf(d, f), j)
  BY MismatchesAre
<1>4. \A f, g \in Rows, j, k \in Checks : Spot(j, f) = Spot(k, g) => f = g /\ j = k
  BY PartsAre, Everywhere
<1> HIDE DEF R, F
<1>5. \A f, g \in R : \A at : at \in DOMAIN F[f] /\ at \in DOMAIN F[g] => f = g
  BY <1>1, <1>3, <1>4
<1>6. Together(R, F, each)
  BY <1>5 DEF Together
<1> HIDE DEF each
<1>7. /\ \A at : at \in DOMAIN all <=> \E f \in R : at \in DOMAIN F[f]
      /\ \A f \in R : \A at \in DOMAIN F[f] : all[at] = F[f][at]
  BY <1>6, AllOfIs
<1> HIDE DEF all
<1>8. ASSUME NEW f \in Rows, NEW j \in Checks
      PROVE  /\ Spot(j, f) \in DOMAIN all <=> f \in R /\ Spot(j, f) \in DOMAIN F[f]
             /\ Spot(j, f) \in DOMAIN all => all[Spot(j, f)] = Word(DataOf(d, f), j)
  <2>1. ASSUME NEW g \in R, Spot(j, f) \in DOMAIN F[g] PROVE f = g
    BY <1>1, <1>3, <1>4, <2>1
  <2>2. QED
    BY <1>1, <1>3, <1>7, <2>1
<1>9. \A at \in DOMAIN all : \E f \in R, j \in Checks : at = Spot(j, f)
  BY <1>1, <1>3, <1>7
<1>10. QED
  BY <1>2, <1>3, <1>8, <1>9 DEF R

(* What a repair of a parity chunk writes: data elements found bad, and the
   parity of full stripes that then do not agree.                           *)
LEMMA PutIs ==
  ASSUME IInv, IsParity
  PROVE  /\ \A f \in Rows, i \in Elements :
              /\ Spot(i, f) \in DOMAIN Put <=> Spot(i, f) \in DOMAIN Mends
              /\ Spot(i, f) \in DOMAIN Put => Put[Spot(i, f)] = wrote[f * DataCount + i]
         /\ \A f \in Rows, j \in Checks :
              /\ Spot(j, f) \notin DOMAIN Mends
              /\ Spot(j, f) \in DOMAIN Put <=>
                   /\ Stuck(Found) = {} /\ f \in Restriped(Found)
                   /\ Spot(j, f) \in DOMAIN ParityMismatches(Mended, f)
              /\ Spot(j, f) \in DOMAIN Put => Put[Spot(j, f)] = Word(DataOf(Mended, f), j)
<1> DEFINE again == ParityRepairs(Mended, Found)
           both == {Mends, again}
           F == [r \in {0, 1} |-> IF r = 0 THEN Mends ELSE again]
           all == AllOf(both)
<1>1. Mapped
  BY DEF IInv
<1>2. /\ \A f \in Rows, i \in Elements :
           /\ f * DataCount + i \in Units /\ 0 \in 0 .. Mirrors - 1
           /\ MapMirror(f * DataCount + i, 0) = Spot(i, f)
      /\ \A u \in Units, m \in 0 .. Mirrors - 1 :
           m = 0 /\ MapMirror(u, m) = Spot(u % DataCount, Full(u))
           /\ u % DataCount \in Elements /\ Full(u) \in Rows
  BY <1>1, UnitIs
<1>3. /\ \A f \in Rows, i \in Elements :
           Spot(i, f) \in DOMAIN Mends => Mends[Spot(i, f)] = wrote[f * DataCount + i]
      /\ \A at \in DOMAIN Mends : \E f \in Rows, i \in Elements : at = Spot(i, f)
  <2>1. \A f \in Rows, i \in Elements :
          Spot(i, f) \in DOMAIN Mends => Mends[Spot(i, f)] = wrote[f * DataCount + i]
    BY <1>2, MendsAre
  <2>2. \A at \in DOMAIN Mends :
          \E u \in HeldUnits, m \in 0 .. Mirrors - 1 : at = MapMirror(u, m) /\ u \in Units
    BY MendsAre
  <2>3. QED
    BY <1>2, <2>1, <2>2
<1>4. /\ \A at \in DOMAIN again : \E f \in Rows, j \in Checks : at = Spot(j, f)
      /\ \A f \in Rows, j \in Checks :
           /\ Spot(j, f) \in DOMAIN again <=>
                f \in Restriped(Found) /\ Spot(j, f) \in DOMAIN ParityMismatches(Mended, f)
           /\ Spot(j, f) \in DOMAIN again => again[Spot(j, f)] = Word(DataOf(Mended, f), j)
  <2>1. Restriped(Found) \subseteq Rows
    BY DEF Restriped
  <2>2. QED
    BY <1>1, <2>1, RestripesAre
<1>5. \A f, g \in Rows, i \in Elements, j \in Checks : Spot(i, f) # Spot(j, g)
  BY <1>1, PartsAre, Everywhere
<1>6. Put = IF Stuck(Found) = {} THEN all ELSE Mends
  BY DEF Put, AllRepairs, Mended
<1> HIDE DEF again
<1>7. Together({0, 1}, F, both)
  <2>1. F[0] = Mends /\ F[1] = again
    OBVIOUS
  <2>2. \A at : ~ (at \in DOMAIN Mends /\ at \in DOMAIN again)
    BY <1>3, <1>4, <1>5
  <2>3. \A r \in {0, 1} : F[r] \in both
    BY <2>1
  <2>4. \A w \in both : \E r \in {0, 1} : w = F[r]
    BY <2>1
  <2> HIDE DEF F, both
  <2>5. \A r, s \in {0, 1} : \A at : at \in DOMAIN F[r] /\ at \in DOMAIN F[s] => r = s
    BY <2>1, <2>2
  <2>6. QED
    BY <2>3, <2>4, <2>5 DEF Together
<1>8. F[0] = Mends /\ F[1] = again
  OBVIOUS
<1> HIDE DEF F, both
<1>9. /\ \A at : at \in DOMAIN all <=> at \in DOMAIN Mends \/ at \in DOMAIN again
      /\ \A at \in DOMAIN Mends : all[at] = Mends[at]
      /\ \A at \in DOMAIN again : all[at] = again[at]
  <2>1. /\ \A at : at \in DOMAIN all <=> \E r \in {0, 1} : at \in DOMAIN F[r]
        /\ \A r \in {0, 1} : \A at \in DOMAIN F[r] : all[at] = F[r][at]
    BY <1>7, AllOfIs
  <2>2. QED
    BY <1>8, <2>1
<1> HIDE DEF all
<1>10. ASSUME NEW f \in Rows, NEW i \in Elements
       PROVE  /\ Spot(i, f) \in DOMAIN Put <=> Spot(i, f) \in DOMAIN Mends
              /\ Spot(i, f) \in DOMAIN Put => Put[Spot(i, f)] = wrote[f * DataCount + i]
  BY <1>3, <1>4, <1>5, <1>6, <1>9
<1>11. ASSUME NEW f \in Rows, NEW j \in Checks
       PROVE  /\ Spot(j, f) \notin DOMAIN Mends
              /\ Spot(j, f) \in DOMAIN Put <=>
                   /\ Stuck(Found) = {} /\ f \in Restriped(Found)
                   /\ Spot(j, f) \in DOMAIN ParityMismatches(Mended, f)
              /\ Spot(j, f) \in DOMAIN Put => Put[Spot(j, f)] = Word(DataOf(Mended, f), j)
  BY <1>3, <1>4, <1>5, <1>6, <1>9
<1>12. QED
  BY <1>10, <1>11

(* Whatever of a repair is written, units are given only what they held, and
   the disk holds values.                                                   *)
LEMMA PutCopies ==
  ASSUME IInv
  PROVE  \A u \in Units, m \in 0 .. Mirrors - 1 :
           /\ MapMirror(u, m) \in Stripe \X Rows
           /\ MapMirror(u, m) \in DOMAIN Put <=> MapMirror(u, m) \in DOMAIN Mends
           /\ MapMirror(u, m) \in DOMAIN Put => Put[MapMirror(u, m)] = wrote[u]
<1> SUFFICES ASSUME NEW u \in Units, NEW m \in 0 .. Mirrors - 1
             PROVE  /\ MapMirror(u, m) \in Stripe \X Rows
                    /\ MapMirror(u, m) \in DOMAIN Put <=> MapMirror(u, m) \in DOMAIN Mends
                    /\ MapMirror(u, m) \in DOMAIN Put => Put[MapMirror(u, m)] = wrote[u]
  OBVIOUS
<1>1. Mapped
  BY DEF IInv
<1>2. CASE IsParity
  <2>1. /\ m = 0 /\ MapMirror(u, 0) = Spot(u % DataCount, Full(u))
        /\ Full(u) \in Rows /\ u % DataCount \in Elements
        /\ u = Full(u) * DataCount + (u % DataCount)
    BY <1>1, <1>2, UnitIs
  <2>2. QED
    BY <1>1, <1>2, <2>1, PutIs, PlacesApart
<1>3. CASE ~ IsParity
  <2>1. Put = Mends
    BY <1>3 DEF Put, AllRepairs
  <2>2. QED
    BY <1>1, <2>1, MendsAre, PlacesApart
<1>4. QED
  BY <1>2, <1>3

(* So of each copy, whatever part of the repair is written.                  *)
LEMMA CopiesPut ==
  ASSUME IInv, NEW kept, kept \subseteq DOMAIN Put
  PROVE  \A u \in Units, m \in 0 .. Mirrors - 1 :
           Written(disk, Put, kept)[MapMirror(u, m)]
             = IF MapMirror(u, m) \in kept THEN wrote[u] ELSE disk[MapMirror(u, m)]
<1> SUFFICES ASSUME NEW u \in Units, NEW m \in 0 .. Mirrors - 1
             PROVE  Written(disk, Put, kept)[MapMirror(u, m)]
                      = IF MapMirror(u, m) \in kept THEN wrote[u] ELSE disk[MapMirror(u, m)]
  OBVIOUS
<1>1. DOMAIN disk = Stripe \X Rows
  BY DEF IInv, Typed
<1>2. /\ MapMirror(u, m) \in Stripe \X Rows
      /\ MapMirror(u, m) \in DOMAIN Put => Put[MapMirror(u, m)] = wrote[u]
  BY PutCopies
<1>3. QED
  BY <1>1, <1>2 DEF Written

(* And of each part of a full stripe.                                        *)
LEMMA StripesPut ==
  ASSUME IInv, IsParity, NEW kept, kept \subseteq DOMAIN Put
  PROVE  \A f \in Rows :
           /\ \A i \in Elements : Written(disk, Put, kept)[Spot(i, f)]
                = IF Spot(i, f) \in kept THEN wrote[f * DataCount + i] ELSE disk[Spot(i, f)]
           /\ \A j \in Checks : Written(disk, Put, kept)[Spot(j, f)]
                = IF Spot(j, f) \in kept THEN Word(DataOf(Mended, f), j) ELSE disk[Spot(j, f)]
<1>1. Mapped /\ DOMAIN disk = Stripe \X Rows
  BY DEF IInv, Typed
<1>2. \A f \in Rows : /\ \A i \in Elements : Spot(i, f) \in Stripe \X Rows
                      /\ \A j \in Checks : Spot(j, f) \in Stripe \X Rows
  BY <1>1, PartsAre, Everywhere
<1>3. \A at \in Stripe \X Rows :
        Written(disk, Put, kept)[at] = IF at \in kept THEN Put[at] ELSE disk[at]
  BY <1>1 DEF Written
<1>4. QED
  BY <1>2, <1>3, PutIs

(* Data read whole is values, and so is the parity it comes to.             *)
LEMMA DataIs ==
  ASSUME Mapped, IsParity, NEW d \in [Stripe \X Rows -> Value \cup {None}], NEW f \in Rows,
         \A i \in Elements : d[Spot(i, f)] # None
  PROVE  /\ Alike(DataOf(d, f), DataOf(d, f), {})
         /\ \A j \in Parts : Word(DataOf(d, f), j) \in Value /\ Word(DataOf(d, f), j) # None
         /\ \A i \in Elements : Word(DataOf(d, f), i) = d[Spot(i, f)]
<1>1. \A i \in Elements : Spot(i, f) \in Stripe \X Rows
  BY PartsAre, Everywhere
<1>2. \A i \in Elements : d[Spot(i, f)] \in Value
  BY <1>1
<1>3. Alike(DataOf(d, f), DataOf(d, f), {})
  BY <1>2 DEF Alike, DataOf
<1>4. \A i \in Elements : DataOf(d, f)[i] = d[Spot(i, f)]
  BY DEF DataOf
<1>5. QED
  BY <1>3, <1>4, WordIs

(* A repair writes values.                                                   *)
LEMMA PutTyped ==
  ASSUME IInv, NEW kept, kept \subseteq DOMAIN Put
  PROVE  Written(disk, Put, kept) \in [Stripe \X Rows -> Value \cup {None}]
<1> DEFINE d == Written(disk, Put, kept)
<1>1. /\ Mapped /\ disk \in [Stripe \X Rows -> Value \cup {None}] /\ wrote \in [Units -> Value]
  BY DEF IInv, Typed
<1>2. d = [at \in Stripe \X Rows |-> IF at \in kept THEN Put[at] ELSE disk[at]]
  BY <1>1 DEF Written
<1> HIDE DEF d
<1>3. ASSUME NEW at \in Stripe \X Rows PROVE d[at] \in Value \cup {None}
  <2>1. CASE IsParity
    <3>1. PICK j \in Parts : at = Spot(j, at[2])
      BY <1>1, <2>1, Everywhere
    <3>2. at[2] \in Rows
      OBVIOUS
    <3>3. CASE j \in Elements
      <4>1. at[2] * DataCount + j \in Units
        BY <1>1, <2>1, <3>2, <3>3, UnitIs
      <4>2. d[at] = IF at \in kept THEN wrote[at[2] * DataCount + j] ELSE disk[at]
        BY <2>1, <3>1, <3>2, <3>3, StripesPut DEF d
      <4>3. QED
        BY <1>1, <4>1, <4>2
    <3>4. CASE j \in Checks
      <4>1. d[at] = IF at \in kept THEN Word(DataOf(Mended, at[2]), j) ELSE disk[at]
        BY <2>1, <3>1, <3>2, <3>4, StripesPut DEF d
      <4>2. ASSUME at \in kept PROVE Word(DataOf(Mended, at[2]), j) \in Value
        <5>1. Spot(j, at[2]) \in DOMAIN ParityMismatches(Mended, at[2])
          BY <2>1, <3>1, <3>2, <3>4, <4>2, PutIs
        <5>2. \A i \in Elements : Mended[Spot(i, at[2])] # None
          BY <1>1, <2>1, <3>2, <3>4, <5>1, MismatchesAre
        <5>3. Mended \in [Stripe \X Rows -> Value \cup {None}]
          BY MendedIs
        <5>4. QED
          BY <1>1, <2>1, <3>2, <5>2, <5>3, DataIs
      <4>3. QED
        BY <1>1, <4>1, <4>2
    <3>5. QED
      BY <1>1, <2>1, <3>3, <3>4, PartsAre
  <2>2. CASE ~ IsParity
    <3>1. PICK u \in Units, m \in 0 .. Mirrors - 1 : MapMirror(u, m) = at
      BY <1>1, <2>2, CopyEverywhere
    <3>2. d[at] = IF at \in kept THEN wrote[u] ELSE disk[at]
      BY <3>1, CopiesPut DEF d
    <3>3. QED
      BY <1>1, <3>2
  <2>3. QED
    BY <2>1, <2>2
<1>4. QED
  BY <1>2, <1>3 DEF d

(* A full stripe is reported for its parity when its parity does not agree
   and nothing else in it was found.                                        *)
LEMMA ParityFound ==
  ASSUME Mapped, IsParity, NEW d, NEW found
  PROVE  /\ \A e \in ParityErrors(d, found) :
              \E f \in Rows : /\ Full(e.unit) = f /\ ~ \E g \in found : Full(g.unit) = f
                            /\ \E at : at \in DOMAIN ParityMismatches(d, f)
         /\ \A f \in Rows : (~ \E g \in found : Full(g.unit) = f) =>
              \A at \in DOMAIN ParityMismatches(d, f) :
                \E e \in ParityErrors(d, found) : Full(e.unit) = f
<1> DEFINE rows == {f \in Rows : ~\E g \in found : Full(g.unit) = f}
           error(f, at) == Error(f * DataCount, IF at = ParityRead(f).p THEN 0 ELSE 1, "parity", TRUE)
           of(f) == {error(f, at) : at \in DOMAIN ParityMismatches(d, f)}
<1>1. ParityErrors(d, found) = UNION {of(f) : f \in rows}
  BY DEF ParityErrors
<1>2. ASSUME NEW f \in Rows PROVE Full(f * DataCount) = f
  <2>1. 0 \in Elements /\ f \in Nat /\ DataCount \in Nat
    BY PartsAre, Everywhere DEF Elements
  <2>2. f * DataCount + 0 = f * DataCount
    BY <2>1
  <2>3. Full(f * DataCount + 0) = f
    BY <2>1, UnitIs
  <2>4. QED
    BY <2>2, <2>3
<1>3. \A f, at : error(f, at).unit = f * DataCount
  BY DEF Error
<1> HIDE DEF error
<1>4. ASSUME NEW e \in ParityErrors(d, found)
      PROVE  \E f \in Rows : /\ Full(e.unit) = f /\ ~ \E g \in found : Full(g.unit) = f
                           /\ \E at : at \in DOMAIN ParityMismatches(d, f)
  <2>1. PICK f \in rows : e \in of(f)
    BY <1>1
  <2>2. PICK at \in DOMAIN ParityMismatches(d, f) : e = error(f, at)
    BY <2>1
  <2>3. f \in Rows /\ Full(e.unit) = f
    BY <1>2, <1>3, <2>2
  <2>4. QED
    BY <2>2, <2>3
<1>5. ASSUME NEW f \in Rows, ~ \E g \in found : Full(g.unit) = f,
             NEW at \in DOMAIN ParityMismatches(d, f)
      PROVE  \E e \in ParityErrors(d, found) : Full(e.unit) = f
  <2>1. f \in rows
    BY <1>5
  <2>2. error(f, at) \in of(f)
    OBVIOUS
  <2> HIDE DEF rows, of
  <2>3. error(f, at) \in ParityErrors(d, found)
    BY <1>1, <2>1, <2>2
  <2>4. QED
    BY <1>2, <1>3, <2>3
<1>6. QED
  BY <1>4, <1>5

(* Of a repair that is not stopped, a copy not reported as beyond repair
   holds what was written.                                                  *)
LEMMA CopyHeals ==
  ASSUME IInv, Stuck(Found) = {}, NEW u \in HeldUnits, Covered(u), NEW m \in 0 .. Mirrors - 1,
         ~ \E e \in Unrepairable(Found) : e.unit = u
  PROVE  /\ Mended[MapMirror(u, m)] = wrote[u]
         /\ Written(disk, Put, DOMAIN Put)[MapMirror(u, m)] = wrote[u]
<1>1. Mapped /\ ExtentsOK(held)
  BY DEF IInv
<1>2. u \in Units
  BY <1>1, UnitsHeld
<1>3. ReadCopy(disk, Stripe, u, m) = disk[MapMirror(u, m)]
  BY <1>1, <1>2, CopyRead
<1>4. CASE disk[MapMirror(u, m)] = wrote[u]
  BY <1>2, <1>4, MendedIs, CopiesPut
<1>5. CASE disk[MapMirror(u, m)] # wrote[u]
  <2>1. PICK e \in Found : e.unit = u /\ e.mirror = m
    BY <1>1, <1>3, <1>5, CopiesFound DEF Found
  <2>2. e \in Repairable(Found)
    BY <2>1 DEF Unrepairable
  <2>3. e \in Repaired(Found)
    BY <2>2 DEF Repaired
  <2>4. MapMirror(u, m) \in DOMAIN Mends
    BY <1>2, <2>1, <2>3, MendsAre
  <2>5. MapMirror(u, m) \in DOMAIN Put
    BY <1>2, <2>4, PutCopies
  <2>6. QED
    BY <1>2, <2>4, <2>5, MendedIs, CopiesPut
<1>6. QED
  BY <1>4, <1>5

(* And a full stripe nothing in which is beyond repair agrees, when all of
   its data can be read.                                                    *)
LEMMA RowAgrees ==
  ASSUME IInv, IsParity, Stuck(Found) = {}, NEW f \in Rows,
         ~ \E e \in Unrepairable(Found) : Full(e.unit) = f,
         \E u \in HeldUnits : Full(u) = f,
         NEW d, d = Written(disk, Put, DOMAIN Put), \A i \in Elements : d[Spot(i, f)] # None
  PROVE  \A j \in Checks : d[Spot(j, f)] = Word(DataOf(d, f), j)
<1> SUFFICES ASSUME NEW j \in Checks PROVE d[Spot(j, f)] = Word(DataOf(d, f), j)
  OBVIOUS
<1>1. Mapped /\ DOMAIN disk = Stripe \X Rows
  BY DEF IInv, Typed
<1>2. \A i \in Elements : f * DataCount + i \in Units
                          /\ MapMirror(f * DataCount + i, 0) = Spot(i, f) /\ 0 \in 0 .. Mirrors - 1
                          /\ Full(f * DataCount + i) = f
  BY <1>1, UnitIs
<1>3. \A i \in Elements : d[Spot(i, f)] = Mended[Spot(i, f)]
  <2>1. ASSUME NEW i \in Elements PROVE d[Spot(i, f)] = Mended[Spot(i, f)]
    <3>1. d[Spot(i, f)] = IF Spot(i, f) \in DOMAIN Put THEN wrote[f * DataCount + i]
                          ELSE disk[Spot(i, f)]
      BY StripesPut
    <3>2. Mended[Spot(i, f)] = IF Spot(i, f) \in DOMAIN Mends THEN wrote[f * DataCount + i]
                               ELSE disk[Spot(i, f)]
      BY <1>2, MendedIs
    <3>3. QED
      BY <3>1, <3>2, PutIs
  <2>2. QED
    BY <2>1
<1>4. DataOf(d, f) = DataOf(Mended, f)
  BY <1>3 DEF DataOf
<1>5. d[Spot(j, f)] = IF Spot(j, f) \in DOMAIN Put THEN Word(DataOf(Mended, f), j)
                      ELSE disk[Spot(j, f)]
  BY StripesPut
<1>6. CASE f \in Restriped(Found)
  <2>1. Mended[Spot(j, f)] = disk[Spot(j, f)]
    <3>1. Spot(j, f) \in Stripe \X Rows
      BY <1>1, PartsAre, Everywhere
    <3>2. QED
      BY <3>1, PutIs, MendedIs
  <2>2. Spot(j, f) \notin DOMAIN Put => Mended[Spot(j, f)] = Word(DataOf(Mended, f), j)
    <3>1. Spot(j, f) \notin DOMAIN Put => Spot(j, f) \notin DOMAIN ParityMismatches(Mended, f)
      BY <1>6, PutIs
    <3>2. QED
      BY <1>1, <1>3, <3>1, MismatchesAre
  <2>3. QED
    BY <1>4, <1>5, <2>1, <2>2
<1>7. CASE f \notin Restriped(Found)
  <2>1. ~ \E e \in ParityErrors(disk, Found) \cup Repaired(Found) : Full(e.unit) = f
    BY <1>7 DEF Restriped
  <2>2. ~ \E e \in Found : Full(e.unit) = f
    <3>1. \A e \in Found : e \in Unrepairable(Found) \/ e \in Repairable(Found)
      BY DEF Unrepairable
    <3>2. \A e \in Repairable(Found) : e \in Repaired(Found)
      BY DEF Repaired
    <3>3. QED
      BY <2>1, <3>1, <3>2
  <2>3. Spot(j, f) \notin DOMAIN ParityMismatches(disk, f)
    BY <1>1, <2>1, <2>2, ParityFound
  <2>4. \A i \in Elements : Spot(i, f) \notin DOMAIN Mends
    <3>1. \A i \in Elements : Spot(i, f) \in DOMAIN Mends =>
            \E e \in Repaired(Found) : e.unit = f * DataCount + i
      BY <1>2, MendsAre
    <3>2. QED
      BY <1>2, <2>1, <3>1
  <2>5. \A i \in Elements : d[Spot(i, f)] = disk[Spot(i, f)]
    BY <2>4, PutIs, StripesPut
  <2>6. DataOf(d, f) = DataOf(disk, f)
    BY <2>5 DEF DataOf
  <2>7. disk[Spot(j, f)] = Word(DataOf(disk, f), j)
    BY <1>1, <2>3, <2>5, MismatchesAre
  <2>8. d[Spot(j, f)] = disk[Spot(j, f)]
    BY <1>5, <1>7, PutIs
  <2>9. QED
    BY <2>6, <2>7, <2>8
<1>8. QED
  BY <1>6, <1>7

(* Cut off, a repair of a parity chunk leaves elements holding what they
   should, but for the parity written, which counts as harmed.              *)
LEMMA StripesRepairCut ==
  ASSUME IInv, IsParity, NEW kept, kept \subseteq DOMAIN Put, held' = held, wrote' = wrote,
         disk' = Written(disk, Put, kept),
         harm' = [r \in Rows |-> harm[r] \cup {s \in ParityStripes(r) : <<s, r>> \in kept}]
  PROVE  Backed(disk', held', wrote', harm') /\ harm' \in [Rows -> SUBSET Stripe]
<1>1. /\ Mapped /\ ExtentsOK(held) /\ Backed(disk, held, wrote, harm)
      /\ harm \in [Rows -> SUBSET Stripe]
  BY DEF IInv, Typed
<1>2. PICK x \in [Units -> Value] : HoldsElements(x, disk, held, wrote, harm)
  BY <1>1 DEF Backed
<1>3. ASSUME NEW f \in Rows
      PROVE  f \in Nat /\ ParityStripes(f) = {At(j, f) : j \in Checks} /\ ParityStripes(f) \subseteq Stripe
  <2>1. f \in Nat /\ Checks \subseteq Parts
    BY <1>1, Everywhere, PartsAre
  <2>2. ParityStripes(f) = {At(j, f) : j \in Checks}
    BY <1>1, <2>1, SpotIs
  <2>3. \A j \in Checks : At(j, f) \in Stripe
    BY <1>1, <2>1, Spots
  <2>4. QED
    BY <2>1, <2>2, <2>3
<1>4. ASSUME NEW f \in Rows, NEW j \in Parts, At(j, f) \notin harm'[f]
      PROVE  disk'[Spot(j, f)] = Word(Of(x, f), j)
  <2>1. /\ At(j, f) \notin harm[f]
        /\ At(j, f) \notin {s \in ParityStripes(f) : <<s, f>> \in kept}
    BY <1>4
  <2>2. disk[Spot(j, f)] = Word(Of(x, f), j)
    BY <1>2, <2>1 DEF HoldsElements
  <2>3. CASE j \in Elements
    <3> DEFINE u == f * DataCount + j
    <3>1. u \in Units /\ MapMirror(u, 0) = Spot(j, f) /\ 0 \in 0 .. Mirrors - 1
      BY <1>1, <2>3, UnitIs
    <3>2. disk'[Spot(j, f)] = IF Spot(j, f) \in kept THEN wrote[u] ELSE disk[Spot(j, f)]
      BY <2>3, StripesPut
    <3>3. Word(Of(x, f), j) = x[u]
      BY <1>1, <2>3, OfIs
    <3> HIDE DEF u
    <3>4. Spot(j, f) \in kept => u \in HeldUnits /\ Covered(u)
      BY <3>1, PutCopies, MendsAre
    <3>5. Spot(j, f) \in kept => x[u] = wrote[u]
      BY <1>2, <3>4, HeldIs DEF HoldsElements
    <3>6. QED
      BY <2>2, <3>2, <3>3, <3>5
  <2>4. CASE j \in Checks
    <3>1. At(j, f) \in ParityStripes(f)
      BY <1>3, <2>4
    <3>2. Spot(j, f) \notin kept
      BY <2>1, <3>1 DEF Spot
    <3>3. QED
      BY <2>2, <2>4, <3>2, StripesPut
  <2>5. QED
    BY <1>1, <2>3, <2>4, PartsAre
<1>5. HoldsElements(x, disk', held', wrote', harm')
  BY <1>2, <1>4 DEF HoldsElements
<1>6. harm' \in [Rows -> SUBSET Stripe]
  BY <1>1, <1>3
<1>7. QED
  BY <1>5, <1>6 DEF Backed

\* What a finished repair leaves of the harm done to a row.
Unhealed(d, r) ==
  \/ ~\E u \in HeldUnits : Row(u) = r
  \/ \E e \in Unrepairable(Found) : Row(e.unit) = r
  \/ \E s \in Stripe : d[<<s, r>>] = None

(* Finished, it leaves each full stripe in agreement that holds something,
   can be read whole and has nothing in it beyond repair, and writes no
   parity of any other.                                                     *)
LEMMA StripesRepaired ==
  ASSUME IInv, IsParity, Stuck(Found) = {}, held' = held, wrote' = wrote,
         disk' = Written(disk, Put, DOMAIN Put),
         harm' = [r \in Rows |-> IF Unhealed(disk', r) THEN harm[r] ELSE {}]
  PROVE  Backed(disk', held', wrote', harm') /\ harm' \in [Rows -> SUBSET Stripe]
<1>1. /\ Mapped /\ ExtentsOK(held) /\ Backed(disk, held, wrote, harm)
      /\ harm \in [Rows -> SUBSET Stripe]
      /\ disk' \in [Stripe \X Rows -> Value \cup {None}]
      /\ disk \in [Stripe \X Rows -> Value \cup {None}]
  BY PutTyped DEF IInv, Typed
<1>2. PICK x \in [Units -> Value] : HoldsElements(x, disk, held, wrote, harm)
  BY <1>1 DEF Backed
<1> DEFINE d == disk'
           open(f) == Unhealed(d, f)
           z == [u \in Units |-> IF open(Full(u)) THEN x[u] ELSE d[MapMirror(u, 0)]]
<1>3. ASSUME NEW u \in Units
      PROVE  /\ Full(u) \in Rows /\ u % DataCount \in Elements /\ Full(u) = Row(u)
             /\ MapMirror(u, 0) = Spot(u % DataCount, Full(u))
             /\ MapMirror(u, 0) = <<At(u % DataCount, Full(u)), Full(u)>>
             /\ At(u % DataCount, Full(u)) \in Stripe
             /\ MapMirror(u, 0) \in Stripe \X Rows /\ 0 \in 0 .. Mirrors - 1
  BY <1>1, UnitIs, PartsAre, Everywhere, Spots DEF Spot
<1>4. ASSUME NEW f \in Rows, ~ open(f)
      PROVE  /\ \A j \in Parts : d[Spot(j, f)] # None
             /\ \E u \in HeldUnits : Full(u) = f
             /\ ~ \E e \in Unrepairable(Found) : Full(e.unit) = f
  <2>1. \A j \in Parts : At(j, f) \in Stripe /\ Spot(j, f) = <<At(j, f), f>>
    BY <1>1, Everywhere, Spots DEF Spot
  <2>2. \A e \in Found : e.unit \in Units
    BY <1>1, CopiesFound DEF Found
  <2>3. Unrepairable(Found) \subseteq Found /\ HeldUnits \subseteq Units
    BY <1>1, UnitsHeld DEF Unrepairable
  <2> HIDE DEF d
  <2>4. QED
    BY <1>3, <1>4, <2>1, <2>2, <2>3 DEF Unhealed
<1>5. z \in [Units -> Value]
  <2>1. ASSUME NEW u \in Units, ~ open(Full(u)) PROVE d[MapMirror(u, 0)] \in Value
    <3>1. d[MapMirror(u, 0)] # None
      BY <1>1, <1>3, <1>4, <2>1, PartsAre
    <3>2. QED
      BY <1>1, <1>3, <3>1
  <2> HIDE DEF d, open
  <2>2. QED
    BY <2>1
<1>6. ASSUME NEW u \in UnitsOf(held), CoveredIn(held, u) PROVE z[u] = wrote[u]
  <2>1. u \in HeldUnits /\ Covered(u) /\ u \in Units
    BY <1>1, <1>6, HeldIs, UnitsHeld
  <2>2. x[u] = wrote[u]
    BY <1>2, <1>6 DEF HoldsElements
  <2>3. ~ open(Full(u)) => d[MapMirror(u, 0)] = wrote[u]
    <3>1. ~ open(Full(u)) => ~ \E e \in Unrepairable(Found) : e.unit = u
      BY <1>3, <1>4, <2>1
    <3>2. QED
      BY <1>3, <2>1, <3>1, CopyHeals
  <2> HIDE DEF d, open
  <2>4. QED
    BY <2>1, <2>2, <2>3
<1>7. ASSUME NEW f \in Rows, NEW i \in Elements
      PROVE  z[f * DataCount + i] = IF open(f) THEN x[f * DataCount + i] ELSE d[Spot(i, f)]
  <2> DEFINE u == f * DataCount + i
  <2>1. u \in Units /\ Full(u) = f /\ MapMirror(u, 0) = Spot(i, f)
    BY <1>1, UnitIs
  <2> HIDE DEF u, d, open
  <2>2. z[u] = IF open(f) THEN x[u] ELSE d[Spot(i, f)]
    BY <2>1
  <2> HIDE DEF z
  <2>3. QED
    BY <2>2 DEF u
<1>8. ASSUME NEW f \in Rows, NEW j \in Parts, At(j, f) \notin harm'[f]
      PROVE  d[Spot(j, f)] = Word(Of(z, f), j)
  <2>1. CASE ~ open(f)
    <3>1. Of(z, f) = DataOf(d, f)
      BY <1>7, <2>1 DEF Of, DataOf
    <3>2. \A i \in Elements : d[Spot(i, f)] # None
      BY <1>1, <1>4, <2>1, PartsAre
    <3>3. CASE j \in Elements
      <4>1. d \in [Stripe \X Rows -> Value \cup {None}]
        BY <1>1
      <4> HIDE DEF d, z, open
      <4>2. Word(DataOf(d, f), j) = d[Spot(j, f)]
        BY <1>1, <3>2, <3>3, <4>1, DataIs
      <4>3. QED
        BY <3>1, <4>2
    <3>4. CASE j \in Checks
      <4>1. /\ ~ \E e \in Unrepairable(Found) : Full(e.unit) = f
            /\ \E u \in HeldUnits : Full(u) = f
            /\ d = Written(disk, Put, DOMAIN Put)
        BY <1>4, <2>1
      <4> HIDE DEF d, z, open
      <4>2. \A k \in Checks : d[Spot(k, f)] = Word(DataOf(d, f), k)
        BY <3>2, <4>1, RowAgrees
      <4>3. QED
        BY <3>1, <3>4, <4>2
    <3>5. QED
      BY <1>1, <3>3, <3>4, PartsAre
  <2>2. CASE open(f)
    <3>1. At(j, f) \notin harm[f]
      BY <1>8, <2>2
    <3>2. disk[Spot(j, f)] = Word(Of(x, f), j)
      BY <1>2, <3>1 DEF HoldsElements
    <3>3. Of(z, f) = Of(x, f)
      BY <1>7, <2>2 DEF Of
    <3>4. d[Spot(j, f)] = disk[Spot(j, f)]
      <4>1. CASE j \in Elements
        <5> DEFINE u == f * DataCount + j
        <5>1. u \in Units /\ MapMirror(u, 0) = Spot(j, f) /\ 0 \in 0 .. Mirrors - 1
          BY <1>1, <4>1, UnitIs
        <5>2. Word(Of(x, f), j) = x[u]
          BY <1>1, <4>1, OfIs
        <5>3. d[Spot(j, f)] = IF Spot(j, f) \in DOMAIN Put THEN wrote[u] ELSE disk[Spot(j, f)]
          BY <4>1, StripesPut
        <5> HIDE DEF u, d
        <5>4. Spot(j, f) \in DOMAIN Put => u \in HeldUnits /\ Covered(u)
          BY <5>1, PutCopies, MendsAre
        <5>5. Spot(j, f) \in DOMAIN Put => x[u] = wrote[u]
          BY <1>2, <5>4, HeldIs DEF HoldsElements
        <5>6. QED
          BY <3>2, <5>2, <5>3, <5>5
      <4>2. CASE j \in Checks
        <5>1. ASSUME Spot(j, f) \in DOMAIN Put PROVE ~ open(f)
          <6>1. /\ f \in Restriped(Found)
                /\ Spot(j, f) \in DOMAIN ParityMismatches(Mended, f)
            BY <4>2, <5>1, PutIs
          <6>2. ~ \E e \in Unrepairable(Found) : Full(e.unit) = f
            BY <6>1 DEF Restriped
          <6>3. /\ \A i \in Elements : Mended[Spot(i, f)] # None
                /\ \E u \in HeldUnits : Full(u) = f
            BY <1>1, <4>2, <6>1, MismatchesAre
          <6>4. \A i \in Elements : d[Spot(i, f)] # None
            <7>1. ASSUME NEW i \in Elements PROVE d[Spot(i, f)] = Mended[Spot(i, f)]
              <8>1. /\ f * DataCount + i \in Units /\ 0 \in 0 .. Mirrors - 1
                    /\ MapMirror(f * DataCount + i, 0) = Spot(i, f)
                BY <1>1, UnitIs
              <8>2. QED
                BY <8>1, MendedIs, CopiesPut, PutCopies
            <7>2. QED
              BY <6>3, <7>1
          <6>5. \A k \in Checks : d[Spot(k, f)] # None
            <7>1. \A k \in Checks : d[Spot(k, f)] = Word(DataOf(d, f), k)
              <8>1. Stuck(Found) = {} /\ d = Written(disk, Put, DOMAIN Put)
                OBVIOUS
              <8> HIDE DEF d, z, open
              <8>2. QED
                BY <6>2, <6>3, <6>4, <8>1, RowAgrees
            <7>2. QED
              <8>1. d \in [Stripe \X Rows -> Value \cup {None}] /\ Checks \subseteq Parts
                BY <1>1, PartsAre
              <8> HIDE DEF d, z, open
              <8>2. \A k \in Parts : Word(DataOf(d, f), k) # None
                BY <1>1, <6>4, <8>1, DataIs
              <8>3. QED
                BY <7>1, <8>1, <8>2
          <6>6. \A s \in Stripe : d[<<s, f>>] # None
            <7>1. \A s \in Stripe : \E k \in Parts : <<s, f>> = Spot(k, f)
              BY <1>1, Everywhere, Spots DEF Spot
            <7>2. QED
              BY <1>1, <6>4, <6>5, <7>1, PartsAre
          <6>7. \A e \in Unrepairable(Found) : Row(e.unit) # f
            <7>1. \A e \in Unrepairable(Found) : e.unit \in Units
              BY <1>1, CopiesFound DEF Found, Unrepairable
            <7>2. QED
              BY <1>3, <6>2, <7>1
          <6>8. \E u \in HeldUnits : Row(u) = f
            BY <1>1, <1>3, <6>3, UnitsHeld
          <6> HIDE DEF d
          <6>9. QED
            BY <6>6, <6>7, <6>8 DEF Unhealed
        <5>2. QED
          BY <2>2, <4>2, <5>1, StripesPut
      <4>3. QED
        BY <1>1, <4>1, <4>2, PartsAre
    <3>5. QED
      BY <3>2, <3>3, <3>4
  <2>3. QED
    BY <2>1, <2>2
<1> HIDE DEF z, open
<1>9. HoldsElements(z, disk', held', wrote', harm')
  BY <1>6, <1>8 DEF HoldsElements
<1>10. harm' \in [Rows -> SUBSET Stripe]
  BY <1>1
<1>11. QED
  BY <1>5, <1>9, <1>10 DEF Backed

(* Of mirrors, a repair that is not finished leaves what was right as it
   was, and one that is finished mends every copy of a row it clears.       *)
LEMMA CopiesRepairCut ==
  ASSUME IInv, ~ IsParity, NEW kept, kept \subseteq DOMAIN Put, held' = held, wrote' = wrote,
         disk' = Written(disk, Put, kept), harm' = harm
  PROVE  Backed(disk', held', wrote', harm')
<1>1. Mapped /\ ExtentsOK(held) /\ HoldsCopies(disk, held, wrote, harm)
  BY DEF IInv, Backed
<1>2. \A u \in UnitsOf(held) : u \in Units
  BY <1>1, HeldIs, UnitsHeld
<1>3. \A u \in Units, m \in 0 .. Mirrors - 1 :
        disk'[MapMirror(u, m)] = IF MapMirror(u, m) \in kept THEN wrote[u]
                                 ELSE disk[MapMirror(u, m)]
  BY CopiesPut
<1>4. HoldsCopies(disk', held', wrote', harm')
  BY <1>1, <1>2, <1>3 DEF HoldsCopies
<1>5. QED
  BY <1>4 DEF Backed

(* A finished repair of mirrors leaves every copy it cleared of harm as
   written.                                                                  *)
LEMMA CopiesRepaired ==
  ASSUME IInv, ~ IsParity, Stuck(Found) = {}, held' = held, wrote' = wrote,
         disk' = Written(disk, Put, DOMAIN Put),
         harm' = [r \in Rows |-> IF Unhealed(disk', r) THEN harm[r] ELSE {}]
  PROVE  Backed(disk', held', wrote', harm') /\ harm' \in [Rows -> SUBSET Stripe]
<1>1. /\ Mapped /\ ExtentsOK(held) /\ HoldsCopies(disk, held, wrote, harm)
      /\ harm \in [Rows -> SUBSET Stripe]
  BY DEF IInv, Backed, Typed
<1>2. ASSUME NEW u \in UnitsOf(held), NEW m \in 0 .. Mirrors - 1,
             CoveredIn(held, u), CopyAt(u, m) \notin harm'[Row(u)]
      PROVE  disk'[MapMirror(u, m)] = wrote[u]
  <2>1. u \in Units /\ u \in HeldUnits /\ Covered(u)
    BY <1>1, <1>2, HeldIs, UnitsHeld
  <2>2. Row(u) \in Rows
    BY <1>1, <2>1, PlacesApart
  <2>3. CASE Unhealed(disk', Row(u))
    <3>1. CopyAt(u, m) \notin harm[Row(u)]
      BY <1>2, <2>2, <2>3
    <3>2. disk[MapMirror(u, m)] = wrote[u]
      BY <1>1, <1>2, <3>1 DEF HoldsCopies
    <3>3. QED
      BY <2>1, <3>2, CopiesPut
  <2>4. CASE ~ Unhealed(disk', Row(u))
    <3>1. ~ \E e \in Unrepairable(Found) : e.unit = u
      BY <2>4 DEF Unhealed
    <3>2. QED
      BY <2>1, <3>1, CopyHeals
  <2>5. QED
    BY <2>3, <2>4
<1>3. HoldsCopies(disk', held', wrote', harm')
  BY <1>2 DEF HoldsCopies
<1>4. harm' \in [Rows -> SUBSET Stripe]
  BY <1>1
<1>5. QED
  BY <1>3, <1>4 DEF Backed

\* The two ways a repair ends.
Ends(kept) ==
  /\ outcome' = IF Stuck(Found) # {} /\ kept = DOMAIN Put THEN "failed" ELSE "repair cut"
  /\ disk' = Written(disk, Put, kept)
  /\ harm' = [r \in Rows |->
       IF IsParity THEN harm[r] \cup {s \in ParityStripes(r) : <<s, r>> \in kept} ELSE harm[r]]

Finished ==
  /\ Stuck(Found) = {} /\ outcome' = "repaired" /\ disk' = Written(disk, Put, DOMAIN Put)
  /\ harm' = [r \in Rows |-> IF Unhealed(disk', r) THEN harm[r] ELSE {}]

(* A repair is finished, or some of it is written.                           *)
LEMMA ScrubRepairIs ==
  ASSUME ScrubRepair
  PROVE  /\ calls < MaxCalls /\ calls' = calls + 1 /\ layout' = layout /\ faults' = faults
         /\ held' = held /\ wrote' = wrote
         /\ Finished \/ \E kept \in SUBSET DOMAIN Put : Ends(kept)
<1>1. ScrubWrites(Put, Found)
  BY DEF ScrubRepair, ScrubFound, Put, Mends, Found
<1>2. Finished \/ \E kept \in SUBSET DOMAIN Put : Ends(kept)
  <2> HIDE DEF Put, Found
  <2>1. QED
    BY <1>1 DEF ScrubWrites, Finished, Ends, Unhealed
<1>3. QED
  BY <1>2 DEF ScrubRepair, Called

(* A repair, finished or cut off, keeps the invariant.                       *)
LEMMA IInvScrub ==
  ASSUME IInv, ScrubRepair
  PROVE  IInv'
<1>1. /\ calls < MaxCalls /\ calls' = calls + 1 /\ layout' = layout /\ faults' = faults
      /\ held' = held /\ wrote' = wrote
      /\ Finished \/ \E kept \in SUBSET DOMAIN Put : Ends(kept)
  BY ScrubRepairIs
<1>2. /\ Mapped /\ ExtentsOK(held) /\ wrote \in [Units -> Value] /\ calls \in 0 .. MaxCalls
      /\ harm \in [Rows -> SUBSET Stripe] /\ faults \in 0 .. MaxFaults
  BY DEF IInv, Typed
<1>3. calls' \in 0 .. MaxCalls /\ faults' \in 0 .. MaxFaults
  BY <1>1, <1>2, RaidAssumption
<1>4. CASE Finished
  <2>1. /\ Stuck(Found) = {} /\ outcome' = "repaired" /\ disk' = Written(disk, Put, DOMAIN Put)
        /\ harm' = [r \in Rows |-> IF Unhealed(disk', r) THEN harm[r] ELSE {}]
    BY <1>4 DEF Finished
  <2>2. disk' \in [Stripe \X Rows -> Value \cup {None}]
    BY <2>1, PutTyped
  <2>3. Backed(disk', held', wrote', harm') /\ harm' \in [Rows -> SUBSET Stripe]
    <3>1. CASE IsParity
      BY <1>1, <2>1, <3>1, StripesRepaired
    <3>2. CASE ~ IsParity
      BY <1>1, <2>1, <3>2, CopiesRepaired
    <3>3. QED
      BY <3>1, <3>2
  <2>4. outcome' \in Outcomes
    BY <2>1 DEF Outcomes
  <2>5. ExtentsOK(held')
    BY <1>1, <1>2
  <2>6. QED
    BY <1>1, <1>2, <1>3, <2>2, <2>3, <2>4, <2>5, IInvNext
<1>5. ASSUME NEW kept \in SUBSET DOMAIN Put, Ends(kept) PROVE IInv'
  <2>1. disk' = Written(disk, Put, kept) /\ kept \subseteq DOMAIN Put
    BY <1>5 DEF Ends
  <2>2. disk' \in [Stripe \X Rows -> Value \cup {None}]
    BY <2>1, PutTyped
  <2>3. Backed(disk', held', wrote', harm') /\ harm' \in [Rows -> SUBSET Stripe]
    <3>1. CASE IsParity
      <4>1. harm' = [r \in Rows |-> harm[r] \cup {s \in ParityStripes(r) : <<s, r>> \in kept}]
        BY <1>5, <3>1 DEF Ends
      <4>2. QED
        BY <1>1, <2>1, <3>1, <4>1, StripesRepairCut
    <3>2. CASE ~ IsParity
      <4>1. harm' = harm
        BY <1>2, <1>5, <3>2 DEF Ends
      <4>2. QED
        BY <1>1, <1>2, <2>1, <3>2, <4>1, CopiesRepairCut
    <3>3. QED
      BY <3>1, <3>2
  <2>4. outcome' \in Outcomes
    BY <1>5 DEF Ends, Outcomes
  <2>5. ExtentsOK(held')
    BY <1>1, <1>2
  <2>6. QED
    BY <1>1, <1>2, <1>3, <2>2, <2>3, <2>4, <2>5, IInvNext
<1>6. QED
  BY <1>1, <1>4, <1>5

(* Every step keeps the invariant.                                           *)
LEMMA IInvStep == IInv /\ [Next]_vars => IInv'
<1> SUFFICES ASSUME IInv, [Next]_vars PROVE IInv'
  OBVIOUS
<1>1. ASSUME NEW at \in Units, NEW len \in 1 .. 2, NEW kind \in {"tree", "data", "nosum"},
             kind = "tree" => len = 1, Write(at, len, kind)
      PROVE  IInv'
  BY <1>1, IInvWrite
<1>2. ASSUME NEW e \in held, Release(e) PROVE IInv'
  BY <1>2, IInvRelease
<1>3. CASE ScrubRepair
  BY <1>3, IInvScrub
<1>4. ASSUME NEW at \in DOMAIN disk, Decay(at) PROVE IInv'
  <2>1. PICK by \in Deltas : Damage(at, Plus(disk[at], by))
    BY <1>4 DEF Decay
  <2>2. disk[at] \in Value /\ by \in Value
    <3>1. disk[at] \in Value \cup {None} /\ disk[at] # None
      BY <1>4 DEF IInv, Typed, Decay
    <3>2. by \in 1 .. Order
      BY RaidAssumption
    <3>3. QED
      BY <3>1, <3>2 DEF Value
  <2>3. Plus(disk[at], by) \in Value
    BY <2>2, PlusIs
  <2>4. QED
    BY <2>1, <2>3, IInvDamage
<1>5. ASSUME NEW at \in DOMAIN disk, Fail(at) PROVE IInv'
  BY <1>5, IInvDamage DEF Fail
<1>6. CASE UNCHANGED vars
  <2>1. /\ layout' = layout /\ disk' = disk /\ held' = held /\ wrote' = wrote /\ harm' = harm
        /\ calls' = calls /\ faults' = faults /\ outcome' = outcome
    BY <1>6 DEF vars
  <2>2. /\ Mapped /\ ExtentsOK(held) /\ Backed(disk, held, wrote, harm) /\ Typed
    BY DEF IInv
  <2>3. ExtentsOK(held') /\ Backed(disk', held', wrote', harm')
    BY <2>1, <2>2
  <2>4. QED
    BY <2>1, <2>2, <2>3, IInvNext DEF Typed
<1>7. QED
  BY <1>1, <1>2, <1>3, <1>4, <1>5, <1>6 DEF Next

(* Whatever damage, cuts and missing devices there are in whatever order,
   every unit with a checksum reads back what was committed as long as they
   stay, in its row, within what the profile survives: through the mirrors,
   or the arithmetic of either parity.                                      *)
THEOREM NothingLostAlways == Spec => []NothingLost
<1>1. IInv => NothingLost
  BY IInvBears, IInvTypes DEF NothingLost
<1>2. QED
  BY <1>1, IInvInit, IInvStep, PTL DEF Spec

-----------------------------------------------------------------------------
(* A scrub that finds nothing                                                *)

(* A set of numbers has a least.                                             *)
LEMMA Least ==
  ASSUME NEW T \in SUBSET Nat, NEW k \in T
  PROVE  \E a \in T : \A b \in T : a <= b
<1> SUFFICES ASSUME \A a \in T : \E b \in T : b < a PROVE FALSE
  OBVIOUS
<1> DEFINE S == {i \in 0 .. k : \A b \in T : b >= i}
<1>1. 0 \in S
  OBVIOUS
<1>2. ASSUME NEW i \in 0 .. k - 1, i \in S PROVE i + 1 \in S
  <2>1. \A b \in T : b >= i
    BY <1>2
  <2>2. i \notin T
    BY <2>1
  <2>3. \A b \in T : b >= i + 1
    BY <2>1, <2>2
  <2>4. QED
    BY <2>3
<1> HIDE DEF S
<1>3. k \in S
  <2>1. k \in Nat /\ k \in 0 .. k
    OBVIOUS
  <2>2. \A i \in 0 .. k : i \in S
    BY <1>1, <1>2, <2>1, UpTo
  <2>3. QED
    BY <2>1, <2>2
<1>4. QED
  BY <1>3 DEF S

(* A unit whose first copy is away is read first as whichever other way of
   reading it works first.                                                  *)
LEMMA FirstAway ==
  ASSUME NEW d, NEW present, NEW u, MapMirror(u, 0)[1] \notin present
  PROVE  \/ /\ \A a \in 1 .. Attempts - 1 : ReadOther(d, present, u, a) = None
            /\ ReadCopy(d, present, u, 0) = None
         \/ \E a \in 1 .. Attempts - 1 : /\ ReadOther(d, present, u, a) # None
                                         /\ ReadCopy(d, present, u, 0) = ReadOther(d, present, u, a)
<1> DEFINE ways == {a \in 1 .. Attempts - 1 : ReadOther(d, present, u, a) # None}
           first == CHOOSE a \in ways : \A b \in ways : a <= b
<1>1. ReadCopy(d, present, u, 0) = IF ways = {} THEN None ELSE ReadOther(d, present, u, first)
  BY DEF ReadCopy
<1>2. ASSUME ways # {} PROVE first \in ways
  <2>1. PICK k \in ways : TRUE
    BY <1>2
  <2>2. ways \in SUBSET Nat
    OBVIOUS
  <2> HIDE DEF ways
  <2>3. \E a \in ways : \A b \in ways : a <= b
    BY <2>1, <2>2, Least
  <2>4. QED
    BY <2>3
<1> HIDE DEF first
<1>3. CASE ways = {}
  BY <1>1, <1>3
<1>4. CASE ways # {}
  <2>1. first \in 1 .. Attempts - 1 /\ ReadOther(d, present, u, first) # None
    BY <1>2, <1>4
  <2>2. QED
    BY <1>1, <1>4, <2>1
<1>5. QED
  BY <1>3, <1>4

(* In agreement, a full stripe is read right first with as many stripes away
   as it survives.                                                          *)
LEMMA StripeReads ==
  ASSUME Mapped, IsParity, NEW d, NEW lost \in SUBSET Stripe, Survives(lost),
         NEW u \in Units, NEW y, Alike(y, y, {}),
         \A j \in Parts : d[Spot(j, Full(u))] = Word(y, j)
  PROVE  ReadCopy(d, Stripe \ lost, u, 0) = y[u % DataCount] /\ y[u % DataCount] # None
<1> DEFINE f == Full(u)
           want == u % DataCount
           present == Stripe \ lost
<1>1. f \in Nat /\ want \in Elements /\ want \in Parts /\ MapMirror(u, 0) = Spot(want, f)
  BY UnitIs, PartsAre
<1>2. /\ MapMirror(u, 0)[1] = At(want, f)
      /\ \A j \in Parts : At(j, f) \in Stripe
  BY <1>1, Spots DEF Spot
<1>3. Word(y, want) = y[want] /\ y[want] # None
  BY <1>1, WordIs
<1>4. \A j \in Parts : d[Spot(j, f)] = Word(y, j)
  OBVIOUS
<1> HIDE DEF f, want
<1>5. CASE At(want, f) \notin lost
  <2>1. At(want, f) \in present
    BY <1>1, <1>2, <1>5
  <2> HIDE DEF present
  <2>2. ReadCopy(d, present, u, 0) = Element(d, present, Spot(want, f))
    BY <1>1, <1>2, <2>1 DEF ReadCopy
  <2>3. ReadCopy(d, present, u, 0) = d[Spot(want, f)]
    BY <2>1, <2>2, ElementAt
  <2>4. QED
    BY <1>1, <1>3, <1>4, <2>3 DEF want, present
<1>6. CASE At(want, f) \in lost
  <2>1. PICK a \in 1 .. Attempts - 1 :
               \A j \in Needed(want, a) : j \in Parts /\ At(j, f) \notin lost
    BY <1>1, <1>6, Decodes
  <2>2. ASSUME NEW b \in 1 .. Attempts - 1
        PROVE  /\ ReadOther(d, present, u, b) # None => ReadOther(d, present, u, b) = y[want]
               /\ (\A j \in Needed(want, b) : j \in Parts /\ At(j, f) \in present) =>
                    ReadOther(d, present, u, b) = y[want]
    <3> HIDE DEF present
    <3>1. ReadOther(d, present, u, b) = ReadRebuilt(d, present, ParityRead(f), want, b)
      BY DEF ReadOther, f, want
    <3>2. Needed(want, b) \subseteq Parts
      <4>1. (b >= 2 => layout.profile = "raid6") /\ b \in Nat
        BY <1>1, OthersAre
      <4>2. /\ Elements \subseteq Parts /\ DataCount \in Parts
            /\ layout.profile = "raid6" => DataCount + 1 \in Parts
        BY PartsAre
      <4>3. QED
        BY <4>1, <4>2 DEF Needed
    <3>3. ReadOther(d, present, u, b) # None =>
            \A j \in Needed(want, b) : At(j, f) \in present
      BY <1>1, <3>1, Rebuilds
    <3>4. (\A j \in Needed(want, b) : At(j, f) \in present) =>
            ReadRebuilt(d, present, ParityRead(f), want, b) = Word(y, want)
      BY <1>1, <1>4, <3>2, Rebuilds
    <3>5. QED
      BY <1>3, <3>1, <3>3, <3>4
  <2>3. \A j \in Needed(want, a) : j \in Parts /\ At(j, f) \in present
    BY <1>2, <2>1
  <2>4. MapMirror(u, 0)[1] \notin present
    BY <1>2, <1>6
  <2> HIDE DEF present
  <2>5. ReadOther(d, present, u, a) = y[want]
    BY <2>2, <2>3
  <2>6. \E b \in 1 .. Attempts - 1 : /\ ReadOther(d, present, u, b) # None
                                     /\ ReadCopy(d, present, u, 0) = ReadOther(d, present, u, b)
    BY <1>3, <2>4, <2>5, FirstAway
  <2>7. ReadCopy(d, present, u, 0) = y[want]
    BY <2>2, <2>6
  <2>8. QED
    BY <1>3, <2>7 DEF want, present
<1>7. QED
  BY <1>5, <1>6

(* Mirrors that all hold the same read so, whichever of them may be
   missing.                                                                  *)
LEMMA MirrorsRead ==
  ASSUME Mapped, ~ IsParity, NEW d, NEW lost \in SUBSET Stripe, Survives(lost),
         NEW u \in Units, NEW v, v # None, \A m \in 0 .. Mirrors - 1 : d[MapMirror(u, m)] = v
  PROVE  ReadCopy(d, Stripe \ lost, u, 0) = v
<1> DEFINE present == Stripe \ lost
<1>1. /\ Mirrors \in Nat /\ Mirrors > 0 /\ Attempts = Mirrors
      /\ \A m \in 0 .. Mirrors - 1 : /\ MapMirror(u, m) = <<CopyAt(u, m), Row(u)>>
                                     /\ MapMirror(u, m)[1] = CopyAt(u, m)
                                     /\ CopyAt(u, m) \in Stripe
  BY MirrorIs
<1>2. PICK m \in 0 .. Mirrors - 1 : CopyAt(u, m) \notin lost
  BY CopySurvives
<1>3. CopyAt(u, m) \in present
  BY <1>1, <1>2
<1>4. CASE CopyAt(u, 0) \in present
  <2>1. 0 \in 0 .. Mirrors - 1
    BY <1>1
  <2> HIDE DEF present
  <2>2. ReadCopy(d, present, u, 0) = d[MapMirror(u, 0)]
    BY <1>4, <2>1, CopyReads
  <2>3. QED
    BY <2>1, <2>2 DEF present
<1>5. CASE CopyAt(u, 0) \notin present
  <2> HIDE DEF present
  <2>1. m \in 1 .. Attempts - 1 /\ 0 \in 0 .. Mirrors - 1
    BY <1>1, <1>2, <1>3, <1>5
  <2>2. MapMirror(u, 0)[1] \notin present
    BY <1>1, <1>5, <2>1
  <2>3. \A a \in 1 .. Attempts - 1 :
          /\ ReadOther(d, present, u, a) # None => ReadOther(d, present, u, a) = v
          /\ CopyAt(u, a) \in present => ReadOther(d, present, u, a) = v
    <3>1. \A a \in 1 .. Attempts - 1 : a \in 0 .. Mirrors - 1
      BY <1>1
    <3>2. QED
      BY <1>1, <3>1 DEF ReadOther, Element
  <2>4. ReadOther(d, present, u, m) # None
    BY <1>3, <2>1, <2>3
  <2>5. ReadCopy(d, present, u, 0) = v
    BY <2>1, <2>2, <2>3, <2>4, FirstAway
  <2>6. QED
    BY <2>5 DEF present
<1>6. QED
  BY <1>4, <1>5

(* Nothing found, every unit with a checksum holds what was written in each
   of its copies, and each full stripe that can be read whole agrees.       *)
LEMMA NothingFound ==
  ASSUME IInv, Errors(disk) = {}, \A at \in DOMAIN disk : disk[at] # None
  PROVE  /\ \A u \in HeldUnits, m \in 0 .. Mirrors - 1 :
              Covered(u) => disk[MapMirror(u, m)] = wrote[u]
         /\ IsParity => \A u \in HeldUnits : \A j \in Parts :
              disk[Spot(j, Full(u))] = Word(DataOf(disk, Full(u)), j)
<1>1. /\ Mapped /\ ExtentsOK(held) /\ disk \in [Stripe \X Rows -> Value \cup {None}]
      /\ HeldUnits \subseteq Units
  BY UnitsHeld DEF IInv, Typed
<1>2. CopyErrors(disk) = {} /\ (IsParity => ParityErrors(disk, {}) = {})
  BY DEF Errors
<1>3. ASSUME NEW u \in HeldUnits, NEW m \in 0 .. Mirrors - 1, Covered(u)
      PROVE  disk[MapMirror(u, m)] = wrote[u]
  <2>1. ReadCopy(disk, Stripe, u, m) = disk[MapMirror(u, m)]
    BY <1>1, CopyRead
  <2>2. QED
    BY <1>1, <1>2, <1>3, <2>1, CopiesFound
<1>4. ASSUME IsParity, NEW u \in HeldUnits, NEW j \in Parts
      PROVE  disk[Spot(j, Full(u))] = Word(DataOf(disk, Full(u)), j)
  <2> DEFINE f == Full(u)
  <2>1. f \in Rows
    BY <1>1, <1>4, UnitIs
  <2>2. \E v \in HeldUnits : Full(v) = f
    OBVIOUS
  <2> HIDE DEF f
  <2>3. \A k \in Parts : Spot(k, f) \in Stripe \X Rows
    BY <1>1, <1>4, <2>1, Everywhere
  <2>4. \A i \in Elements : disk[Spot(i, f)] # None
    BY <1>1, <1>4, <2>3, PartsAre
  <2>5. CASE j \in Elements
    BY <1>1, <1>4, <2>1, <2>4, <2>5, DataIs DEF f
  <2>6. CASE j \in Checks
    <3>1. Spot(j, f) \notin DOMAIN ParityMismatches(disk, f)
      BY <1>1, <1>2, <1>4, <2>1, ParityFound
    <3>2. disk[Spot(j, f)] = Word(DataOf(disk, f), j)
      BY <1>1, <1>4, <2>1, <2>2, <2>4, <2>6, <3>1, MismatchesAre
    <3>3. QED
      BY <3>2 DEF f
  <2>7. QED
    BY <1>1, <1>4, <2>5, <2>6, PartsAre
<1>5. QED
  BY <1>3, <1>4

(* Where nothing is found the first read, rebuilt or not, is what the place
   of the unit holds.                                                        *)
LEMMA CleanReads ==
  ASSUME IInv, Errors(disk) = {}, \A at \in DOMAIN disk : disk[at] # None,
         NEW lost \in SUBSET Stripe, Survives(lost), NEW u \in HeldUnits, Covered(u) \/ IsParity
  PROVE  ReadCopy(disk, Stripe \ lost, u, 0) = disk[MapMirror(u, 0)]
         /\ disk[MapMirror(u, 0)] # None
<1>1. /\ Mapped /\ ExtentsOK(held) /\ disk \in [Stripe \X Rows -> Value \cup {None}]
      /\ u \in Units /\ wrote \in [Units -> Value]
  BY UnitsHeld DEF IInv, Typed
<1>2. CASE IsParity
  <2> DEFINE f == Full(u)
             y == DataOf(disk, f)
             want == u % DataCount
  <2>1. f \in Rows /\ want \in Elements /\ MapMirror(u, 0) = Spot(want, f)
    BY <1>1, <1>2, UnitIs
  <2>2. \A j \in Parts : disk[Spot(j, f)] = Word(y, j)
    BY <1>2, NothingFound
  <2>3. \A i \in Elements : disk[Spot(i, f)] # None
    <3> HIDE DEF f
    <3>1. \A i \in Elements : Spot(i, f) \in Stripe \X Rows
      BY <1>1, <1>2, <2>1, Everywhere, PartsAre
    <3>2. QED
      BY <1>1, <3>1
  <2>4. Alike(y, y, {}) /\ y[want] = disk[Spot(want, f)]
    <3> HIDE DEF f, want
    <3>1. Alike(y, y, {})
      BY <1>1, <1>2, <2>1, <2>3, DataIs
    <3>2. y[want] = disk[Spot(want, f)]
      BY <2>1 DEF DataOf
    <3>3. QED
      BY <3>1, <3>2
  <2> HIDE DEF y
  <2>5. ReadCopy(disk, Stripe \ lost, u, 0) = y[u % DataCount] /\ y[u % DataCount] # None
    BY <1>1, <1>2, <2>2, <2>4, StripeReads
  <2>6. QED
    BY <2>1, <2>4, <2>5
<1>3. CASE ~ IsParity
  <2>1. \A m \in 0 .. Mirrors - 1 : disk[MapMirror(u, m)] = wrote[u]
    BY <1>3, NothingFound
  <2>2. wrote[u] # None /\ 0 \in 0 .. Mirrors - 1
    <3>1. wrote[u] \in Value /\ Order \in Nat
      BY <1>1, FieldAssumption
    <3>2. QED
      BY <1>1, <1>3, <3>1, MirrorIs DEF Value, None
  <2>3. ReadCopy(disk, Stripe \ lost, u, 0) = wrote[u]
    <3> DEFINE v == wrote[u]
    <3>1. v # None /\ \A m \in 0 .. Mirrors - 1 : disk[MapMirror(u, m)] = v
      BY <2>1, <2>2
    <3> HIDE DEF v
    <3>2. ReadCopy(disk, Stripe \ lost, u, 0) = v
      BY <1>1, <1>3, <3>1, MirrorsRead
    <3>3. QED
      BY <3>2 DEF v
  <2>4. QED
    BY <2>1, <2>2, <2>3
<1>4. QED
  BY <1>2, <1>3

(* So a file and a tree block are read, the checks being passed.             *)
LEMMA CleanReadsBack ==
  ASSUME IInv, Errors(disk) = {}, \A at \in DOMAIN disk : disk[at] # None,
         NEW lost \in SUBSET Stripe, Survives(lost), NEW u \in HeldUnits, Covered(u) \/ IsParity
  PROVE  ReadBack(disk, Stripe \ lost, u) = IF Covered(u) THEN wrote[u] ELSE disk[MapMirror(u, 0)]
<1> DEFINE present == Stripe \ lost
<1>1. /\ Mapped /\ ExtentsOK(held) /\ u \in Units
  BY UnitsHeld DEF IInv
<1>2. /\ ReadCopy(disk, present, u, 0) = disk[MapMirror(u, 0)]
      /\ disk[MapMirror(u, 0)] # None
  BY CleanReads
<1> HIDE DEF present
<1>3. CASE Covered(u)
  <2>1. 0 \in 0 .. Mirrors - 1 /\ 0 \in 0 .. Attempts - 1
    <3>1. CASE IsParity
      <4>1. DataCount \in Nat
        BY <1>1, <3>1, PartsAre
      <4>2. QED
        BY <1>1, <3>1, <4>1, AttemptsAre, UnitIs
    <3>2. CASE ~ IsParity
      BY <1>1, <3>2, MirrorIs
    <3>3. QED
      BY <3>1, <3>2
  <2>2. disk[MapMirror(u, 0)] = wrote[u]
    BY <1>3, <2>1, NothingFound
  <2>3. ReadBack(disk, present, u) = wrote[u]
    BY <1>2, <1>3, <2>1, <2>2, AnyVerifies
  <2>4. QED
    BY <1>3, <2>3 DEF present
<1>4. CASE ~ Covered(u)
  <2>1. Kind(u) # "tree"
    BY <1>4 DEF Covered
  <2>2. ReadBack(disk, present, u) = ReadCopy(disk, present, u, 0)
    BY <1>4, <2>1 DEF ReadBack, ReadData
  <2>3. QED
    BY <1>2, <1>4, <2>2 DEF present
<1>5. QED
  BY <1>3, <1>4

(* A set with no two members, or no three, is that small.                   *)
LEMMA Fewer ==
  ASSUME NEW M
  PROVE  /\ (\A s, t \in M : s = t) => Cardinality(M) <= 1
         /\ (\A s, t, v \in M : s = t \/ s = v \/ t = v) => Cardinality(M) <= 2
<1>1. IsFiniteSet({}) /\ Cardinality({}) = 0
  BY FS_EmptySet
<1>2. \A s : IsFiniteSet({s}) /\ Cardinality({s}) = 1
  BY FS_Singleton
<1>3. ASSUME NEW s, NEW t, s # t PROVE Cardinality({s, t}) = 2
  <2>1. t \notin {s} /\ {s} \cup {t} = {s, t}
    BY <1>3
  <2>2. IsFiniteSet({s}) /\ Cardinality({s}) = 1
    BY <1>2
  <2>3. QED
    BY <2>1, <2>2, FS_AddElement
<1>4. CASE M = {}
  BY <1>1, <1>4
<1>5. CASE \E s : M = {s}
  BY <1>2, <1>5
<1>6. CASE M # {} /\ ~ \E s : M = {s}
  <2>1. PICK s \in M : TRUE
    BY <1>6
  <2>2. PICK t \in M : t # s
    BY <1>6, <2>1
  <2>3. (\A a, b, v \in M : a = b \/ a = v \/ b = v) => M = {s, t}
    BY <2>1, <2>2
  <2>4. Cardinality({s, t}) = 2
    BY <1>3, <2>2
  <2>5. ~ \A a, b \in M : a = b
    BY <2>1, <2>2
  <2>6. (\A a, b, v \in M : a = b \/ a = v \/ b = v) => Cardinality(M) <= 2
    <3>1. SUFFICES ASSUME \A a, b, v \in M : a = b \/ a = v \/ b = v PROVE Cardinality(M) = 2
      OBVIOUS
    <3>2. M = {s, t}
      BY <2>3, <3>1
    <3>3. QED
      BY <2>4, <3>2
  <2>7. QED
    BY <2>5, <2>6
<1>7. QED
  BY <1>4, <1>5, <1>6

(* A set of stripes a parity profile does not survive the loss of has a data
   element of the first full stripe in it, and one more for raid6's sake,
   that no attempt does without.                                            *)
LEMMA Undecodable ==
  ASSUME Mapped, IsParity, NEW lost \in SUBSET Stripe, ~ Survives(lost)
  PROVE  \E want \in Elements :
           /\ At(want, 0) \in lost
           /\ \A a \in 1 .. Attempts - 1 : \E j \in Needed(want, a) : At(j, 0) \in lost
<1>1. /\ DataCount \in Nat /\ DataCount > 0 /\ Parts = Elements \cup Checks
      /\ Checks = IF layout.profile = "raid6" THEN {DataCount, DataCount + 1} ELSE {DataCount}
      /\ Elements \cap Checks = {} /\ layout.profile \in {"raid5", "raid6"}
  BY PartsAre DEF IsParity
<1>2. \A s \in lost : \E j \in Parts : At(j, 0) = s
  BY Spots
<1> DEFINE gone(j) == At(j, 0) \in lost
<1>3. CASE layout.profile = "raid5"
  <2>1. ~ (Cardinality(lost) <= 1)
    BY <1>3 DEF Survives
  <2>2. PICK s \in lost, t \in lost : s # t
    BY <2>1, Fewer
  <2>3. PICK i \in Parts, k \in Parts : gone(i) /\ gone(k) /\ i # k
    <3>1. (\E i \in Parts : At(i, 0) = s) /\ \E k \in Parts : At(k, 0) = t
      BY <1>2
    <3>2. QED
      BY <2>2, <3>1
  <2>4. PICK want \in Elements, j \in Parts : gone(want) /\ gone(j) /\ j # want
    BY <1>1, <1>3, <2>3
  <2>5. Attempts = 2
    BY <1>3, AttemptsAre
  <2>6. j \in Needed(want, 1)
    <3>1. j \in Elements \/ j = DataCount
      BY <1>1, <1>3
    <3>2. QED
      BY <2>4, <3>1 DEF Needed, Without
  <2>7. \A a \in 1 .. Attempts - 1 : a = 1
    BY <2>5
  <2>8. QED
    BY <2>4, <2>6, <2>7
<1>4. CASE layout.profile = "raid6"
  <2>1. ~ (Cardinality(lost) <= 2)
    BY <1>4 DEF Survives
  <2>2. PICK s \in lost, t \in lost, v \in lost : s # t /\ s # v /\ t # v
    BY <2>1, Fewer
  <2>3. PICK i \in Parts, h \in Parts, l \in Parts :
               gone(i) /\ gone(h) /\ gone(l) /\ i # h /\ i # l /\ h # l
    <3>1. /\ \E p \in Parts : At(p, 0) = s
          /\ \E p \in Parts : At(p, 0) = t
          /\ \E p \in Parts : At(p, 0) = v
      BY <1>2
    <3>2. QED
      BY <2>2, <3>1
  <2>4. PICK want \in Elements, j \in Parts, k \in Parts :
               gone(want) /\ gone(j) /\ gone(k) /\ j # want /\ k # want /\ j # k
    <3> HIDE DEF gone
    <3>1. CASE i \in Elements
      BY <2>3, <3>1
    <3>2. CASE h \in Elements
      BY <2>3, <3>2
    <3>3. CASE l \in Elements
      BY <2>3, <3>3
    <3>4. QED
      BY <1>1, <1>4, <2>3, <3>1, <3>2, <3>3
  <2>5. ASSUME NEW a \in 1 .. Attempts - 1 PROVE \E o \in Needed(want, a) : gone(o)
    <3>1. a \in Nat /\ (a >= 3 => Other(want, a) \in Elements)
      BY OthersAre
    <3>2. /\ j \in Elements \cup {DataCount, DataCount + 1}
          /\ k \in Elements \cup {DataCount, DataCount + 1}
          /\ DataCount \notin Elements /\ DataCount + 1 \notin Elements
          /\ DataCount # DataCount + 1
      BY <1>1, <1>4
    <3>3. CASE a = 1
      <4>1. Needed(want, a) = (Elements \ {want}) \cup {DataCount}
        BY <3>3 DEF Needed, Without
      <4>2. j \in Needed(want, a) \/ k \in Needed(want, a)
        BY <2>4, <3>2, <4>1
      <4>3. QED
        BY <2>4, <4>2
    <3>4. CASE a = 2
      <4>1. Needed(want, a) = (Elements \ {want}) \cup {DataCount + 1}
        BY <3>4 DEF Needed, Without
      <4>2. j \in Needed(want, a) \/ k \in Needed(want, a)
        BY <2>4, <3>2, <4>1
      <4>3. QED
        BY <2>4, <4>2
    <3>5. CASE a >= 3
      <4>1. Needed(want, a) = (Elements \ {want, Other(want, a)}) \cup {DataCount, DataCount + 1}
        BY <3>1, <3>5 DEF Needed, Without
      <4>2. j \in Needed(want, a) \/ k \in Needed(want, a)
        BY <2>4, <3>2, <4>1
      <4>3. QED
        BY <2>4, <4>2
    <3>6. QED
      BY <3>1, <3>3, <3>4, <3>5
  <2>6. QED
    BY <2>4, <2>5
<1>5. QED
  BY <1>1, <1>3, <1>4

(* A mount is refused only when a unit cannot be read: with too few parts
   left nothing decodes, and without a copy nothing is read.                 *)
LEMMA Refused ==
  ASSUME Mapped, NEW d, NEW lost \in SUBSET Stripe, ~ Survives(lost)
  PROVE  \E u \in Units : ReadCopy(d, Stripe \ lost, u, 0) = None
<1> DEFINE present == Stripe \ lost
<1>1. CASE IsParity
  <2>1. PICK want \in Elements :
           /\ At(want, 0) \in lost
           /\ \A a \in 1 .. Attempts - 1 : \E j \in Needed(want, a) : At(j, 0) \in lost
    BY <1>1, Undecodable
  <2>2. 0 \in Rows
    BY Rowed
  <2> DEFINE u == 0 * DataCount + want
  <2>3. /\ u \in Units /\ Full(u) = 0 /\ u % DataCount = want
        /\ MapMirror(u, 0) = Spot(want, 0)
    BY <1>1, <2>2, UnitIs
  <2> HIDE DEF u
  <2>4. MapMirror(u, 0)[1] \notin present
    BY <2>1, <2>3 DEF Spot
  <2>5. ASSUME NEW a \in 1 .. Attempts - 1 PROVE ReadOther(d, present, u, a) = None
    <3>1. \E j \in Needed(want, a) : At(j, 0) \notin present
      BY <2>1
    <3> HIDE DEF present
    <3>2. ReadRebuilt(d, present, ParityRead(0), want, a) = None
      BY <1>1, <3>1, Rebuilds
    <3>3. QED
      BY <1>1, <2>3, <3>2 DEF ReadOther
  <2> HIDE DEF present
  <2>6. ReadCopy(d, present, u, 0) = None
    BY <2>4, <2>5, FirstAway
  <2>7. QED
    BY <2>3, <2>6 DEF present
<1>2. CASE ~ IsParity
  <2>1. PICK u \in Units : \A m \in 0 .. Mirrors - 1 : CopyAt(u, m) \in lost
    <3>1. layout.profile \in {"raid1", "raid10"}
      BY <1>2, LayoutIs DEF IsParity
    <3>2. CASE layout.profile = "raid1"
      <4>1. 0 \in Units
        BY LayoutIs DEF Units
      <4>2. lost = Stripe
        BY <3>2 DEF Survives
      <4>3. \A m \in 0 .. Mirrors - 1 : CopyAt(0, m) \in Stripe
        BY <1>2, <4>1, MirrorIs
      <4>4. QED
        BY <4>1, <4>2, <4>3
    <3>3. CASE layout.profile = "raid10"
      <4>1. PICK g \in 0 .. Groups - 1 : \A m \in 0 .. layout.sub - 1 : g * layout.sub + m \in lost
        BY <3>3 DEF Survives, Groups
      <4>2. Groups \in Nat /\ Groups > 0 /\ Groups = Columns(layout) /\ Mirrors = layout.sub
        BY <1>2, <3>3, Columned DEF Mirrors
      <4>3. g \in Units /\ g % Groups = g
        <5>1. Groups * 0 + g \in Units /\ (Groups * 0 + g) % Groups = g
          BY <4>2, Rowed
        <5>2. Groups * 0 + g = g
          BY <4>2
        <5>3. QED
          BY <5>1, <5>2
      <4>4. ASSUME NEW m \in 0 .. Mirrors - 1 PROVE CopyAt(g, m) \in lost
        <5>1. CopyAt(g, m) = layout.sub * g + m
          BY <3>3, <4>3 DEF CopyAt
        <5>2. layout.sub * g = g * layout.sub
          BY <4>2, LayoutIs
        <5>3. QED
          BY <4>1, <4>2, <5>1, <5>2
      <4>5. QED
        BY <4>3, <4>4
    <3>4. QED
      BY <3>1, <3>2, <3>3
  <2>2. /\ Mirrors \in Nat /\ Mirrors > 0 /\ Attempts = Mirrors
        /\ \A m \in 0 .. Mirrors - 1 : MapMirror(u, m)[1] = CopyAt(u, m)
    BY <1>2, MirrorIs
  <2>3. \A m \in 0 .. Mirrors - 1 : MapMirror(u, m)[1] \notin present
    BY <2>1, <2>2
  <2> HIDE DEF present
  <2>4. \A a \in 1 .. Attempts - 1 : ReadOther(d, present, u, a) = None
    BY <1>2, <2>2, <2>3 DEF ReadOther, Element
  <2>5. MapMirror(u, 0)[1] \notin present
    BY <2>2, <2>3
  <2>6. ReadCopy(d, present, u, 0) = None
    BY <2>4, <2>5, FirstAway
  <2>7. QED
    BY <2>6 DEF present
<1>3. QED
  BY <1>1, <1>2

(* A scrub that finds nothing on disks it could read vouches for every unit:
   read from a pool mounted degraded they are what they were, and a degraded
   mount is refused only when something could not be read.                  *)
THEOREM CleanScrubVouchesAlways == Spec => []CleanScrubVouches
<1>1. ASSUME IInv PROVE CleanScrubVouches
  <2>1. Mapped
    BY <1>1 DEF IInv
  <2>2. ASSUME Errors(disk) = {}, \A at \in DOMAIN disk : disk[at] # None,
               NEW lost \in {l \in SUBSET Stripe : Survives(l)}, NEW u \in HeldUnits,
               Covered(u) \/ IsParity
        PROVE  ReadBack(disk, Stripe \ lost, u) = ReadBack(disk, Stripe, u)
    <3>1. {} \in SUBSET Stripe /\ Survives({}) /\ Stripe \ {} = Stripe
      <4>1. Survives({})
        <5>1. Cardinality({}) = 0
          BY FS_EmptySet
        <5>2. 0 \in 0 .. layout.sub - 1
          BY <2>1, LayoutIs
        <5> DEFINE none == {}
        <5>3. /\ none = {} /\ Cardinality(none) <= 1 /\ Cardinality(none) <= 2
              /\ \A g : g \notin none
          BY <5>1
        <5> HIDE DEF none
        <5>4. Survives(none)
          BY <5>2, <5>3, <2>1, LayoutIs DEF Survives
        <5>5. QED
          BY <5>4 DEF none
      <4>2. QED
        BY <4>1
    <3>2. ReadBack(disk, Stripe \ {}, u) = IF Covered(u) THEN wrote[u] ELSE disk[MapMirror(u, 0)]
      BY <1>1, <2>2, <3>1, CleanReadsBack
    <3>3. ReadBack(disk, Stripe \ lost, u) = IF Covered(u) THEN wrote[u] ELSE disk[MapMirror(u, 0)]
      BY <1>1, <2>2, CleanReadsBack
    <3>4. QED
      BY <3>1, <3>2, <3>3
  <2>3. ASSUME NEW lost \in {l \in SUBSET Stripe : ~Survives(l)}
        PROVE  \E u \in Units : ReadCopy(disk, Stripe \ lost, u, 0) = None
    BY <2>1, Refused
  <2>4. QED
    BY <2>2, <2>3 DEF CleanScrubVouches
<1>2. IInv => CleanScrubVouches
  BY <1>1
<1>3. QED
  BY <1>2, IInvInit, IInvStep, PTL DEF Spec

-----------------------------------------------------------------------------
(* What a repair leaves to be found                                          *)

\* What a scrub can find: a copy that does not verify, one of an extent not
\* wholly readable, or a full stripe holding something that does not agree.
Finds(e) ==
  \/ \E x \in held :
       /\ e.unit \in Span(x) /\ e.mirror \in 0 .. Mirrors - 1
       /\ \/ Covered(e.unit) /\ disk[MapMirror(e.unit, e.mirror)] # wrote[e.unit]
          \/ /\ x.kind # "tree"
             /\ \E v \in Span(x) : disk[MapMirror(v, e.mirror)] = None
  \/ /\ IsParity
     /\ \E f \in Rows, j \in Checks : \E y :
          /\ Full(e.unit) = f /\ \E u \in HeldUnits : Full(u) = f
          /\ DOMAIN y = Elements
          /\ \A i \in Elements : y[i] = disk[Spot(i, f)] /\ y[i] # None
          /\ disk[Spot(j, f)] # Word(y, j)

FindsOnly == \A e \in Errors(disk) : Finds(e)

(* Nothing else is found.                                                    *)
LEMMA ErrorsAre == IInv => FindsOnly
<1> SUFFICES ASSUME IInv, NEW e \in Errors(disk) PROVE Finds(e)
  BY DEF FindsOnly
<1>1. Mapped /\ ExtentsOK(held)
  BY DEF IInv
<1>2. CASE e \in CopyErrors(disk)
  <2>1. e.mirror \in 0 .. Mirrors - 1 /\ e.unit \in Units
    BY <1>1, <1>2, CopiesFound
  <2>2. PICK x \in held :
          /\ e.unit \in Span(x)
          /\ \/ Covered(e.unit) /\ ReadCopy(disk, Stripe, e.unit, e.mirror) # wrote[e.unit]
             \/ /\ x.kind # "tree"
                /\ \E v \in Span(x) : ReadCopy(disk, Stripe, v, e.mirror) = None
    BY <1>1, <1>2, CopiesFound
  <2>3. Span(x) \subseteq Units
    BY <1>1 DEF ExtentsOK
  <2>4. \A v \in Units : ReadCopy(disk, Stripe, v, e.mirror) = disk[MapMirror(v, e.mirror)]
    BY <1>1, <2>1, CopyRead
  <2>5. QED
    BY <2>1, <2>2, <2>3, <2>4 DEF Finds
<1>3. CASE e \notin CopyErrors(disk)
  <2>1. IsParity /\ e \in ParityErrors(disk, CopyErrors(disk))
    BY <1>3 DEF Errors
  <2>2. PICK f \in Rows : Full(e.unit) = f /\ \E at : at \in DOMAIN ParityMismatches(disk, f)
    BY <1>1, <2>1, ParityFound
  <2>3. PICK j \in Checks : Spot(j, f) \in DOMAIN ParityMismatches(disk, f)
    BY <1>1, <2>1, <2>2, MismatchesAre
  <2>4. /\ \A i \in Elements : disk[Spot(i, f)] # None
        /\ \E u \in HeldUnits : Full(u) = f
        /\ disk[Spot(j, f)] # Word(DataOf(disk, f), j)
    BY <1>1, <2>1, <2>3, MismatchesAre
  <2> DEFINE y == DataOf(disk, f)
  <2>5. DOMAIN y = Elements /\ \A i \in Elements : y[i] = disk[Spot(i, f)] /\ y[i] # None
    BY <2>4 DEF DataOf
  <2>6. disk[Spot(j, f)] # Word(y, j)
    BY <2>4
  <2> HIDE DEF y
  <2>7. QED
    BY <2>1, <2>2, <2>4, <2>5, <2>6 DEF Finds
<1>4. QED
  BY <1>2, <1>3

\* What of a repair's result a scrub could find, with the names as they were.
Left(d, e) ==
  \/ \E x \in held :
       /\ e.unit \in Span(x) /\ e.mirror \in 0 .. Mirrors - 1
       /\ \/ Covered(e.unit) /\ d[MapMirror(e.unit, e.mirror)] # wrote[e.unit]
          \/ /\ x.kind # "tree"
             /\ \E v \in Span(x) : d[MapMirror(v, e.mirror)] = None
  \/ /\ IsParity
     /\ \E f \in Rows, j \in Checks : \E y :
          /\ Full(e.unit) = f /\ \E u \in HeldUnits : Full(u) = f
          /\ DOMAIN y = Elements
          /\ \A i \in Elements : y[i] = d[Spot(i, f)] /\ y[i] # None
          /\ d[Spot(j, f)] # Word(y, j)

(* A finished repair leaves something only where it reported that it could
   not mend a copy.                                                         *)
LEMMA LeftUnmended ==
  ASSUME IInv, Stuck(Found) = {}, NEW d, d = Written(disk, Put, DOMAIN Put), NEW e, Left(d, e)
  PROVE  \E g \in Unrepairable(Found) :
           \/ IsParity /\ Full(e.unit) = Full(g.unit)
           \/ \E x \in held : {e.unit, g.unit} \subseteq Span(x)
<1>1. /\ Mapped /\ ExtentsOK(held) /\ wrote \in [Units -> Value]
      /\ HeldUnits \subseteq Units
  BY UnitsHeld DEF IInv, Typed
<1>2. CASE \E x \in held :
             /\ e.unit \in Span(x) /\ e.mirror \in 0 .. Mirrors - 1
             /\ \/ Covered(e.unit) /\ d[MapMirror(e.unit, e.mirror)] # wrote[e.unit]
                \/ /\ x.kind # "tree"
                   /\ \E v \in Span(x) : d[MapMirror(v, e.mirror)] = None
  <2>1. PICK x \in held :
             /\ e.unit \in Span(x) /\ e.mirror \in 0 .. Mirrors - 1
             /\ \/ Covered(e.unit) /\ d[MapMirror(e.unit, e.mirror)] # wrote[e.unit]
                \/ /\ x.kind # "tree"
                   /\ \E v \in Span(x) : d[MapMirror(v, e.mirror)] = None
    BY <1>2
  <2>2. Span(x) \subseteq HeldUnits /\ Span(x) \subseteq Units
    BY <1>1 DEF HeldUnits
  <2>3. CASE Covered(e.unit) /\ d[MapMirror(e.unit, e.mirror)] # wrote[e.unit]
    <3> DEFINE u == e.unit
               m == e.mirror
    <3>1. u \in HeldUnits /\ m \in 0 .. Mirrors - 1 /\ Covered(u) /\ d[MapMirror(u, m)] # wrote[u]
      BY <2>1, <2>2, <2>3
    <3> HIDE DEF u, m
    <3>2. \E g \in Unrepairable(Found) : g.unit = u
      BY <3>1, CopyHeals
    <3>3. QED
      BY <2>1, <3>2 DEF u
  <2>4. CASE x.kind # "tree" /\ \E v \in Span(x) : d[MapMirror(v, e.mirror)] = None
    <3> DEFINE m == e.mirror
    <3>1. PICK v \in Span(x) : d[MapMirror(v, m)] = None
      BY <2>4
    <3>2. m \in 0 .. Mirrors - 1 /\ v \in Units /\ v \in HeldUnits
      BY <2>1, <2>2
    <3> HIDE DEF m
    <3>3. d[MapMirror(v, m)] = IF MapMirror(v, m) \in DOMAIN Put THEN wrote[v]
                               ELSE disk[MapMirror(v, m)]
      BY <3>2, CopiesPut
    <3>4. wrote[v] # None
      <4>1. wrote[v] \in Value /\ Order \in Nat
        BY <1>1, <3>2, FieldAssumption
      <4>2. QED
        BY <4>1 DEF Value, None
    <3>5. MapMirror(v, m) \notin DOMAIN Put /\ disk[MapMirror(v, m)] = None
      BY <3>1, <3>3, <3>4
    <3>6. ReadCopy(disk, Stripe, v, m) = None
      BY <1>1, <3>2, <3>5, CopyRead
    <3>7. PICK g \in Found : g.unit = v /\ g.mirror = m
      BY <1>1, <2>4, <3>2, <3>6, CopiesFound DEF Found
    <3>8. g \notin Repaired(Found)
      <4>1. MapMirror(v, m) \notin DOMAIN Mends
        BY <3>2, <3>5, PutCopies
      <4>2. QED
        BY <3>2, <3>7, <4>1, MendsAre
    <3>9. g \in Unrepairable(Found)
      BY <3>7, <3>8 DEF Unrepairable, Repaired
    <3>10. QED
      BY <2>1, <3>7, <3>9
  <2>5. QED
    BY <2>1, <2>3, <2>4
<1>3. CASE /\ IsParity
           /\ \E f \in Rows, j \in Checks : \E y :
                /\ Full(e.unit) = f /\ \E u \in HeldUnits : Full(u) = f
                /\ DOMAIN y = Elements
                /\ \A i \in Elements : y[i] = d[Spot(i, f)] /\ y[i] # None
                /\ d[Spot(j, f)] # Word(y, j)
  <2>0. PICK f \in Rows, j \in Checks : \E y :
                /\ Full(e.unit) = f /\ \E u \in HeldUnits : Full(u) = f
                /\ DOMAIN y = Elements
                /\ \A i \in Elements : y[i] = d[Spot(i, f)] /\ y[i] # None
                /\ d[Spot(j, f)] # Word(y, j)
    BY <1>3
  <2>1. PICK y :
                /\ Full(e.unit) = f /\ \E u \in HeldUnits : Full(u) = f
                /\ DOMAIN y = Elements
                /\ \A i \in Elements : y[i] = d[Spot(i, f)] /\ y[i] # None
                /\ d[Spot(j, f)] # Word(y, j)
    BY <2>0
  <2>2. \A i \in Elements : d[Spot(i, f)] # None
    BY <2>1
  <2>3. SUFFICES ASSUME ~ \E g \in Unrepairable(Found) : Full(g.unit) = f PROVE FALSE
    BY <1>3, <2>1
  <2>4. d[Spot(j, f)] = Word(DataOf(d, f), j)
    BY <1>3, <2>1, <2>2, <2>3, RowAgrees
  <2>5. Word(y, j) = Word(DataOf(d, f), j)
    <3>1. Alike(DataOf(d, f), DataOf(d, f), {}) /\ Fits
      <4>1. d \in [Stripe \X Rows -> Value \cup {None}]
        BY PutTyped
      <4>2. QED
        BY <1>1, <1>3, <2>2, <4>1, DataIs, PartsAre
    <3>2. Alike(y, DataOf(d, f), {})
      BY <2>1, <3>1 DEF Alike, DataOf
    <3>3. Parity(y).p = Parity(DataOf(d, f)).p /\ Parity(y).q = Parity(DataOf(d, f)).q
      BY <3>1, <3>2, ParityAgrees
    <3>4. ~ (j < DataCount)
      BY <1>1, <1>3, PartsAre
    <3>5. QED
      BY <3>3, <3>4 DEF Word
  <2>6. QED
    BY <2>1, <2>4, <2>5
<1>4. QED
  BY <1>2, <1>3 DEF Left

(* What a finished repair leaves to be found is of an extent or a full
   stripe it reported.                                                       *)
LEMMA RepairHealsStep ==
  ASSUME IInv, FindsOnly', ScrubRepair, outcome' = "repaired"
  PROVE  \A e \in Errors(disk)' : \E g \in Unrepairable(CopyErrors(disk)) :
           \/ IsParity /\ Full(e.unit) = Full(g.unit)
           \/ \E x \in held : {e.unit, g.unit} \subseteq Span(x)
<1>1. /\ layout' = layout /\ held' = held /\ wrote' = wrote
      /\ Finished \/ \E kept \in SUBSET DOMAIN Put : Ends(kept)
  BY ScrubRepairIs
<1>2. Finished
  BY <1>1 DEF Ends
<1>3. Stuck(Found) = {} /\ disk' = Written(disk, Put, DOMAIN Put) /\ Mapped
  BY <1>2 DEF Finished, IInv
<1>4. ASSUME NEW e \in Errors(disk)' PROVE Left(disk', e)
  <2>1. Finds(e)'
    BY DEF FindsOnly
  <2>2. /\ (IsParity' <=> IsParity) /\ Mirrors' = Mirrors /\ Elements' = Elements
        /\ Checks' = Checks /\ Rows' = Rows
        /\ \A j, f : Spot(j, f)' = Spot(j, f)
        /\ \A u, m : MapMirror(u, m)' = MapMirror(u, m)
        /\ \A y, j : Word(y, j)' = Word(y, j)
        /\ HeldUnits' = HeldUnits
        /\ \A x : Span(x)' = Span(x)
        /\ \A u : Full(u)' = Full(u) /\ (Covered(u)' <=> Covered(u))
    <3>1. DataCount' = DataCount
      BY <1>1, <1>3, SteadyNames
    <3>2. Checks' = Checks /\ \A u : Full(u)' = Full(u)
      BY <1>1, <3>1 DEF Checks, Full
    <3>3. HeldUnits' = HeldUnits /\ \A u : (Covered(u)' <=> Covered(u))
      BY <1>1 DEF HeldUnits, Covered, Kind, Span
    <3>4. \A x : Span(x)' = Span(x)
      BY DEF Span
    <3>5. QED
      BY <1>1, <1>3, <3>2, <3>3, <3>4, SteadyNames, SteadyPlaces, SteadyWords
  <2>3. QED
    BY <1>1, <2>1, <2>2 DEF Finds, Left
<1>5. ASSUME NEW e \in Errors(disk)'
      PROVE  \E g \in Unrepairable(Found) :
               \/ IsParity /\ Full(e.unit) = Full(g.unit)
               \/ \E x \in held : {e.unit, g.unit} \subseteq Span(x)
  BY <1>3, <1>4, LeftUnmended
<1>6. QED
  BY <1>5 DEF Found

-----------------------------------------------------------------------------
(* What a repair keeps                                                       *)

(* Whatever is written of a repair, a unit its full stripe survives the harm
   done to can still be computed: from what the stripe held, or from what
   its new parity was computed from.                                        *)
LEMMA StripeKept ==
  ASSUME IInv, IsParity, NEW kept, kept \subseteq DOMAIN Put,
         NEW d, d = Written(disk, Put, kept),
         NEW u \in HeldUnits, Covered(u), Survives(harm[Full(u)])
  PROVE  \E y, M : /\ Alike(y, y, {}) /\ y[u % DataCount] = wrote[u]
                   /\ M \in SUBSET Stripe /\ Survives(M)
                   /\ \A j \in Parts : At(j, Full(u)) \notin M =>
                        d[Spot(j, Full(u))] = Word(y, j)
<1>1. /\ Mapped /\ ExtentsOK(held) /\ wrote \in [Units -> Value]
      /\ harm \in [Rows -> SUBSET Stripe] /\ Backed(disk, held, wrote, harm)
      /\ u \in Units /\ disk \in [Stripe \X Rows -> Value \cup {None}]
  BY UnitsHeld DEF IInv, Typed
<1>2. PICK x \in [Units -> Value] : HoldsElements(x, disk, held, wrote, harm)
  BY <1>1 DEF Backed
<1> DEFINE f == Full(u)
           want == u % DataCount
           old == Of(x, f)
           new == DataOf(Mended, f)
<1>3. f \in Rows /\ f \in Nat /\ want \in Elements /\ u = f * DataCount + want
  BY <1>1, UnitIs
<1> HIDE DEF f, want
<1>4. \A i \in Elements : /\ f * DataCount + i \in Units /\ 0 \in 0 .. Mirrors - 1
                          /\ MapMirror(f * DataCount + i, 0) = Spot(i, f)
  BY <1>1, <1>3, UnitIs
<1>5. /\ Alike(old, old, {})
      /\ \A i \in Elements : Word(old, i) = old[i] /\ old[i] = x[f * DataCount + i]
  BY <1>1, <1>3, OfIs
<1>6. \A j \in Parts : At(j, f) \notin harm[f] => disk[Spot(j, f)] = Word(old, j)
  BY <1>2, <1>3 DEF HoldsElements
<1>7. x[u] = wrote[u]
  BY <1>2, HeldIs DEF HoldsElements
<1>8. /\ \A i \in Elements : d[Spot(i, f)] = IF Spot(i, f) \in kept THEN wrote[f * DataCount + i]
                                             ELSE disk[Spot(i, f)]
      /\ \A j \in Checks : d[Spot(j, f)] = IF Spot(j, f) \in kept THEN Word(new, j)
                                           ELSE disk[Spot(j, f)]
  BY <1>3, StripesPut
<1>9. ASSUME NEW i \in Elements, Spot(i, f) \in DOMAIN Mends
      PROVE  wrote[f * DataCount + i] = old[i]
  <2>1. f * DataCount + i \in HeldUnits /\ Covered(f * DataCount + i)
    BY <1>4, <1>9, MendsAre
  <2>2. x[f * DataCount + i] = wrote[f * DataCount + i]
    BY <1>2, <2>1, HeldIs DEF HoldsElements
  <2>3. QED
    BY <1>5, <2>2
<1>10. \A i \in Elements :
         /\ new[i] = IF Spot(i, f) \in DOMAIN Mends THEN old[i] ELSE disk[Spot(i, f)]
         /\ Spot(i, f) \in kept => Spot(i, f) \in DOMAIN Mends
  <2>1. \A i \in Elements : Mended[Spot(i, f)] =
          IF Spot(i, f) \in DOMAIN Mends THEN wrote[f * DataCount + i] ELSE disk[Spot(i, f)]
    BY <1>4, MendedIs
  <2>2. \A i \in Elements : new[i] = Mended[Spot(i, f)]
    BY DEF DataOf
  <2>3. \A i \in Elements : Spot(i, f) \in kept => Spot(i, f) \in DOMAIN Mends
    BY <1>3, PutIs
  <2> HIDE DEF new, old
  <2>4. QED
    BY <1>9, <2>1, <2>2, <2>3
<1>11. /\ Elements \subseteq Parts /\ Parts = Elements \cup Checks /\ Elements \cap Checks = {}
       /\ \A j \in Parts : At(j, f) \in Stripe
       /\ \A j, k \in Parts : At(j, f) = At(k, f) => j = k
  BY <1>1, <1>3, PartsAre, Spots
<1>12. harm[f] \in SUBSET Stripe /\ Survives(harm[f])
  BY <1>1, <1>3 DEF f
<1>13. old[want] = wrote[u]
  BY <1>3, <1>5, <1>7
<1>14. \A i \in Elements : At(i, f) \notin harm[f] => disk[Spot(i, f)] = old[i]
  BY <1>5, <1>6, <1>11
<1> HIDE DEF old, new
<1> DEFINE Kept(y, M) ==
      /\ Alike(y, y, {}) /\ y[want] = wrote[u] /\ M \in SUBSET Stripe /\ Survives(M)
      /\ \A j \in Parts : At(j, f) \notin M => d[Spot(j, f)] = Word(y, j)
<1>15. CASE \A j \in Checks : Spot(j, f) \in kept => Word(new, j) = Word(old, j)
  <2>1. ASSUME NEW j \in Parts, At(j, f) \notin harm[f] PROVE d[Spot(j, f)] = Word(old, j)
    <3>1. CASE j \in Elements
      BY <1>5, <1>8, <1>9, <1>10, <1>14, <2>1, <3>1
    <3>2. CASE j \in Checks
      BY <1>6, <1>8, <1>15, <2>1, <3>2
    <3>3. QED
      BY <1>11, <3>1, <3>2
  <2>2. Kept(old, harm[f])
    BY <1>5, <1>12, <1>13, <2>1
  <2>3. \E y, M : Kept(y, M)
    BY <2>2
  <2>4. QED
    BY <2>3 DEF f, want
<1>16. CASE ~ \A j \in Checks : Spot(j, f) \in kept => Word(new, j) = Word(old, j)
  <2>1. PICK c \in Checks : Spot(c, f) \in kept /\ Word(new, c) # Word(old, c)
    BY <1>16
  <2>2. /\ Stuck(Found) = {} /\ f \in Restriped(Found)
        /\ Spot(c, f) \in DOMAIN ParityMismatches(Mended, f)
    BY <1>3, <2>1, PutIs
  <2>3. \A i \in Elements : Mended[Spot(i, f)] # None
    BY <1>1, <1>3, <2>2, MismatchesAre
  <2>4. /\ Alike(new, new, {}) /\ \A i \in Elements : Word(new, i) = new[i]
    <3>1. Mended \in [Stripe \X Rows -> Value \cup {None}]
      BY MendedIs
    <3>2. Alike(new, new, {})
      BY <1>1, <1>3, <2>3, <3>1, DataIs DEF new
    <3>3. QED
      BY <1>1, <3>2, WordIs
  <2>5. new[want] = wrote[u]
    <3>1. Spot(want, f) \notin DOMAIN Mends => disk[Spot(want, f)] = wrote[u]
      <4>1. ~ \E e \in Unrepairable(Found) : e.unit = u
        BY <2>2 DEF Restriped, f
      <4>2. Mended[MapMirror(u, 0)] = wrote[u]
        BY <1>3, <1>4, <2>2, <4>1, CopyHeals
      <4>3. MapMirror(u, 0) = Spot(want, f)
        BY <1>3, <1>4
      <4>4. Mended[MapMirror(u, 0)] = IF MapMirror(u, 0) \in DOMAIN Mends THEN wrote[u]
                                      ELSE disk[MapMirror(u, 0)]
        BY <1>1, <1>3, <1>4, MendedIs
      <4>5. QED
        BY <4>2, <4>3, <4>4
    <3>2. QED
      BY <1>3, <1>10, <1>13, <3>1
  <2>6. PICK g \in Elements : new[g] # old[g]
    <3>1. ASSUME \A i \in Elements : new[i] = old[i] PROVE FALSE
      <4>1. Alike(old, new, {}) /\ Fits
        BY <1>1, <1>5, <2>4, <3>1, PartsAre DEF Alike
      <4>2. Parity(old).p = Parity(new).p /\ Parity(old).q = Parity(new).q
        BY <4>1, ParityAgrees
      <4>3. ~ (c < DataCount)
        BY <1>1, PartsAre
      <4>4. QED
        BY <2>1, <4>2, <4>3 DEF Word
    <3>2. QED
      BY <3>1
  <2>7. At(g, f) \in harm[f] /\ Spot(g, f) \notin DOMAIN Mends
    BY <1>10, <1>14, <2>6
  <2> DEFINE B == {i \in Elements : d[Spot(i, f)] # new[i]}
             lacking == B \cup (Checks \ {c})
             M == {At(j, f) : j \in lacking}
  <2>8. \A i \in B : i \in Elements /\ At(i, f) \in harm[f] /\ i # g
    <3>1. ASSUME NEW i \in B PROVE At(i, f) \in harm[f] /\ Spot(i, f) \in DOMAIN Mends
      <4>1. i \in Elements /\ d[Spot(i, f)] # new[i]
        OBVIOUS
      <4>2. Spot(i, f) \in DOMAIN Mends /\ Spot(i, f) \notin kept
        BY <1>8, <1>9, <1>10, <4>1
      <4>3. disk[Spot(i, f)] # old[i]
        BY <1>8, <1>10, <4>1, <4>2
      <4>4. QED
        BY <1>14, <4>1, <4>2, <4>3
    <3>2. QED
      BY <2>7, <3>1
  <2>9. M \in SUBSET Stripe
    BY <1>11
  <2>10. \A j \in Parts : At(j, f) \notin M => d[Spot(j, f)] = Word(new, j)
    <3>1. ASSUME NEW j \in Parts, At(j, f) \notin M PROVE d[Spot(j, f)] = Word(new, j)
      <4>1. j \notin lacking
        BY <3>1
      <4>2. CASE j \in Elements
        BY <2>4, <4>1, <4>2
      <4>3. CASE j \in Checks
        <5>1. j = c
          BY <4>1, <4>3
        <5>2. QED
          BY <1>8, <2>1, <5>1
      <4>4. QED
        BY <1>11, <4>2, <4>3
    <3>2. QED
      BY <3>1
  <2>11. IsFiniteSet(harm[f])
    BY <1>1, <1>12, StripesFinite
  <2>12. layout.profile \in {"raid5", "raid6"}
         /\ Checks = IF layout.profile = "raid6" THEN {DataCount, DataCount + 1} ELSE {DataCount}
    BY <1>1, PartsAre DEF IsParity
  <2>13. Survives(M)
    <3>1. CASE layout.profile = "raid5"
      <4>1. Cardinality(harm[f]) <= 1
        BY <1>12, <2>7, <3>1 DEF Survives
      <4>2. \A s, t \in harm[f] : s = t
        BY <2>11, <4>1, Few
      <4>3. B = {}
        BY <1>11, <2>7, <2>8, <4>2
      <4>4. lacking = {}
        BY <2>12, <3>1, <4>3
      <4>5. M = {}
        BY <4>4
      <4> HIDE DEF M
      <4>6. \A s, t \in M : s = t
        BY <4>5
      <4>7. Cardinality(M) <= 1
        BY <4>6, Fewer
      <4>8. QED
        BY <3>1, <4>7 DEF Survives
    <3>2. CASE layout.profile = "raid6"
      <4>1. Cardinality(harm[f]) <= 2
        BY <1>12, <2>7, <3>2 DEF Survives
      <4>2. \A s, t, v \in harm[f] : s = t \/ s = v \/ t = v
        BY <2>11, <4>1, Few
      <4> HIDE DEF B
      <4>3. \A i, k \in B : i = k
        BY <1>11, <2>7, <2>8, <4>2
      <4>4. \A i, k \in Checks \ {c} : i = k
        BY <2>12, <3>2
      <4>5. \A i, k, l \in lacking : i = k \/ i = l \/ k = l
        BY <4>3, <4>4
      <4> HIDE DEF lacking
      <4>6. \A s, t, v \in M : s = t \/ s = v \/ t = v
        BY <4>5
      <4> HIDE DEF M
      <4>7. Cardinality(M) <= 2
        BY <4>6, Fewer
      <4>8. QED
        BY <3>2, <4>7 DEF Survives
    <3>3. QED
      BY <2>12, <3>1, <3>2
  <2> HIDE DEF M
  <2>14. Kept(new, M)
    BY <2>4, <2>5, <2>9, <2>10, <2>13
  <2>15. \E y, N : Kept(y, N)
    BY <2>14
  <2>16. QED
    BY <2>15 DEF f, want
<1>17. QED
  BY <1>15, <1>16

(* Of mirrors, the same: a good copy is never written over by another.       *)
LEMMA CopyKept ==
  ASSUME IInv, ~ IsParity, NEW kept, kept \subseteq DOMAIN Put,
         NEW d, d = Written(disk, Put, kept), NEW lost \in SUBSET Stripe,
         NEW u \in HeldUnits, Covered(u), Survives(lost \cup harm[Row(u)])
  PROVE  \E m \in 0 .. Mirrors - 1 : CopyAt(u, m) \notin lost /\ d[MapMirror(u, m)] = wrote[u]
<1>1. /\ Mapped /\ HoldsCopies(disk, held, wrote, harm) /\ harm \in [Rows -> SUBSET Stripe]
      /\ u \in Units
  BY UnitsHeld DEF IInv, Typed, Backed
<1>2. lost \cup harm[Row(u)] \in SUBSET Stripe
  BY <1>1, PlacesApart
<1>3. PICK m \in 0 .. Mirrors - 1 : CopyAt(u, m) \notin lost \cup harm[Row(u)]
  BY <1>1, <1>2, CopySurvives
<1>4. disk[MapMirror(u, m)] = wrote[u]
  BY <1>1, <1>3, HeldIs DEF HoldsCopies
<1>5. d[MapMirror(u, m)] = wrote[u]
  BY <1>1, <1>4, CopiesPut
<1>6. QED
  BY <1>3, <1>5

\* The devices that are taken to be missing: none of a parity chunk's.
Losses == IF IsParity THEN {{}} ELSE SUBSET Stripe

\* A read of a file's unit begins with something that can be read.
Starts(lost, u) ==
  IF IsParity \/ CopyAt(u, 0) \notin lost THEN disk[MapMirror(u, 0)] # None
  ELSE \E m \in 0 .. Mirrors - 1 : CopyAt(u, m) \notin lost /\ disk[MapMirror(u, m)] # None

\* A unit is in a copy not missing, or its full stripe comes to it.
There(lost, u) ==
  IF IsParity
  THEN \E y, M : /\ Alike(y, y, {}) /\ y[u % DataCount] = wrote[u]
                 /\ M \in SUBSET Stripe /\ Survives(M)
                 /\ \A j \in Parts : At(j, Full(u)) \notin M =>
                      disk[Spot(j, Full(u))] = Word(y, j)
  ELSE \E m \in 0 .. Mirrors - 1 : CopyAt(u, m) \notin lost /\ disk[MapMirror(u, m)] = wrote[u]

Begun(lost, u) == Kind(u) = "tree" \/ Starts(lost, u)

ReadsWhatIsThere ==
  \A lost \in Losses, u \in HeldUnits :
    /\ Begins(lost, u) <=> Begun(lost, u)
    /\ Covered(u) /\ Begun(lost, u) /\ There(lost, u) => ReadsBack(lost, u)

(* A first read succeeds when the place of the unit is readable, or it is
   missing and some way round it is.                                         *)
LEMMA StartsIs ==
  ASSUME Mapped, NEW lost \in Losses, NEW u \in Units
  PROVE  ReadCopy(disk, Stripe \ lost, u, 0) # None <=> Starts(lost, u)
<1> DEFINE present == Stripe \ lost
<1>1. CASE IsParity
  <2>1. lost = {} /\ Stripe \ lost = Stripe /\ 0 \in 0 .. Mirrors - 1
    BY <1>1, UnitIs DEF Losses
  <2>2. ReadCopy(disk, Stripe, u, 0) = disk[MapMirror(u, 0)]
    BY <2>1, CopyRead
  <2>3. QED
    BY <1>1, <2>1, <2>2 DEF Starts
<1>2. CASE ~ IsParity
  <2>1. /\ Mirrors \in Nat /\ Mirrors > 0 /\ Attempts = Mirrors
        /\ \A m \in 0 .. Mirrors - 1 : /\ MapMirror(u, m)[1] = CopyAt(u, m)
                                       /\ CopyAt(u, m) \in Stripe
    BY <1>2, MirrorIs
  <2>2. \A m \in 0 .. Mirrors - 1 : CopyAt(u, m) \in present <=> CopyAt(u, m) \notin lost
    BY <2>1
  <2>3. 0 \in 0 .. Mirrors - 1
    BY <2>1
  <2> HIDE DEF present
  <2>4. \A a \in 1 .. Attempts - 1 :
          /\ a \in 0 .. Mirrors - 1
          /\ ReadOther(disk, present, u, a) =
               IF CopyAt(u, a) \notin lost THEN disk[MapMirror(u, a)] ELSE None
    BY <1>2, <2>1, <2>2 DEF ReadOther, Element
  <2>5. CASE CopyAt(u, 0) \notin lost
    <3>1. ReadCopy(disk, present, u, 0) = disk[MapMirror(u, 0)]
      BY <1>2, <2>2, <2>3, <2>5, CopyReads
    <3>2. QED
      BY <2>5, <3>1 DEF Starts, present
  <2>6. CASE CopyAt(u, 0) \in lost
    <3>1. MapMirror(u, 0)[1] \notin present
      BY <2>1, <2>2, <2>3, <2>6
    <3>2. ReadCopy(disk, present, u, 0) # None =>
            \E m \in 0 .. Mirrors - 1 : CopyAt(u, m) \notin lost /\ disk[MapMirror(u, m)] # None
      <4>1. ReadCopy(disk, present, u, 0) # None =>
              \E a \in 1 .. Attempts - 1 : ReadOther(disk, present, u, a) # None
        BY <3>1, FirstAway
      <4>2. QED
        BY <2>4, <4>1
    <3>3. ASSUME NEW m \in 0 .. Mirrors - 1, CopyAt(u, m) \notin lost,
                 disk[MapMirror(u, m)] # None
          PROVE  ReadCopy(disk, present, u, 0) # None
      <4>1. m \in 1 .. Attempts - 1
        BY <2>1, <2>6, <3>3
      <4>2. ReadOther(disk, present, u, m) # None
        BY <2>4, <3>3, <4>1
      <4>3. QED
        BY <3>1, <4>1, <4>2, FirstAway
    <3>4. QED
      BY <1>2, <2>6, <3>2, <3>3 DEF Starts, present
  <2>7. QED
    BY <2>5, <2>6
<1>3. QED
  BY <1>1, <1>2

(* What is there is read.                                                    *)
LEMMA ReadsThere == IInv => ReadsWhatIsThere
<1> SUFFICES ASSUME IInv, NEW lost \in Losses, NEW u \in HeldUnits
             PROVE  /\ Begins(lost, u) <=> Begun(lost, u)
                    /\ Covered(u) /\ Begun(lost, u) /\ There(lost, u) => ReadsBack(lost, u)
  BY DEF ReadsWhatIsThere
<1>1. Mapped /\ u \in Units
  BY UnitsHeld DEF IInv
<1>2. Begins(lost, u) <=> Begun(lost, u)
  BY <1>1, StartsIs DEF Begins, Begun
<1>3. ASSUME Covered(u), Begun(lost, u), There(lost, u) PROVE ReadsBack(lost, u)
  <2> DEFINE present == Stripe \ lost
  <2>1. Kind(u) = "tree" \/ ReadCopy(disk, present, u, 0) # None
    BY <1>2, <1>3 DEF Begins
  <2>2. \E a \in 0 .. Attempts - 1 : ReadCopy(disk, present, u, a) = wrote[u]
    <3>1. CASE IsParity
      <4>1. PICK y, M : /\ Alike(y, y, {}) /\ y[u % DataCount] = wrote[u]
                        /\ M \in SUBSET Stripe /\ Survives(M)
                        /\ \A j \in Parts : At(j, Full(u)) \notin M =>
                             disk[Spot(j, Full(u))] = Word(y, j)
        BY <1>3, <3>1 DEF There
      <4>2. \A j \in Parts : At(j, Full(u)) \in present
        <5>1. lost = {} /\ Full(u) \in Nat
          BY <1>1, <3>1, UnitIs DEF Losses
        <5>2. QED
          BY <1>1, <3>1, <5>1, Spots
      <4> HIDE DEF present
      <4>3. \E a \in 0 .. Attempts - 1 : ReadCopy(disk, present, u, a) = y[u % DataCount]
        BY <1>1, <3>1, <4>1, <4>2, Recovers
      <4>4. QED
        BY <4>1, <4>3
    <3>2. CASE ~ IsParity
      <4>1. PICK m \in 0 .. Mirrors - 1 :
                   CopyAt(u, m) \notin lost /\ disk[MapMirror(u, m)] = wrote[u]
        BY <1>3, <3>2 DEF There
      <4>2. CopyAt(u, m) \in present /\ m \in 0 .. Attempts - 1
        BY <1>1, <3>2, <4>1, MirrorIs
      <4> HIDE DEF present
      <4>3. ReadCopy(disk, present, u, m) = disk[MapMirror(u, m)]
        BY <1>1, <3>2, <4>2, CopyReads
      <4>4. QED
        BY <4>1, <4>2, <4>3
    <3>3. QED
      BY <3>1, <3>2
  <2> HIDE DEF present
  <2>3. ReadBack(disk, present, u) = wrote[u]
    BY <1>3, <2>1, <2>2, AnyVerifies
  <2>4. QED
    BY <2>3 DEF ReadsBack, present
<1>4. QED
  BY <1>2, <1>3

(* Finished or not, a repair has written some of what it would.              *)
LEMMA RepairWrites ==
  ASSUME ScrubRepair
  PROVE  \E kept \in SUBSET DOMAIN Put : disk' = Written(disk, Put, kept)
<1>1. CASE Finished
  <2>1. DOMAIN Put \in SUBSET DOMAIN Put
    OBVIOUS
  <2>2. QED
    BY <1>1, <2>1 DEF Finished
<1>2. QED
  BY <1>1, ScrubRepairIs DEF Ends

(* A repair, finished or cut off, leaves every unit to be had that was.      *)
LEMMA RepairKeepsStep ==
  ASSUME IInv, ReadsWhatIsThere', ScrubRepair, NEW lost \in Losses, NEW u \in HeldUnits,
         Covered(u), Survives(lost \cup harm[Row(u)]), Begins(lost, u) \/ Begins(lost, u)'
  PROVE  ReadsBack(lost, u)'
<1>1. layout' = layout /\ held' = held /\ wrote' = wrote
  BY ScrubRepairIs
<1>2. PICK kept \in SUBSET DOMAIN Put : disk' = Written(disk, Put, kept)
  BY RepairWrites
<1>3. Mapped /\ u \in Units /\ wrote \in [Units -> Value]
  BY UnitsHeld DEF IInv, Typed
<1>4. /\ (IsParity' <=> IsParity) /\ Stripe' = Stripe /\ Mirrors' = Mirrors /\ Parts' = Parts
      /\ Elements' = Elements /\ DataCount' = DataCount
      /\ \A j, f : Spot(j, f)' = Spot(j, f) /\ At(j, f)' = At(j, f)
      /\ \A v, m : MapMirror(v, m)' = MapMirror(v, m) /\ CopyAt(v, m)' = CopyAt(v, m)
      /\ \A y, j : Word(y, j)' = Word(y, j)
  BY <1>1, <1>3, SteadyNames, SteadyPlaces, SteadyWords
<1>5. /\ HeldUnits' = HeldUnits /\ (Covered(u)' <=> Covered(u)) /\ Kind(u)' = Kind(u)
      /\ Full(u)' = Full(u) /\ Losses' = Losses
  <2>1. HeldUnits' = HeldUnits /\ (Covered(u)' <=> Covered(u)) /\ Kind(u)' = Kind(u)
    BY <1>1 DEF HeldUnits, Covered, Kind, Span
  <2>2. Full(u)' = Full(u) /\ Losses' = Losses
    BY <1>4 DEF Full, Losses
  <2>3. QED
    BY <2>1, <2>2
<1>6. /\ \A y : Alike(y, y, {})' <=> Alike(y, y, {})
      /\ \A M : Survives(M)' <=> Survives(M)
  <2>1. \A y : Alike(y, y, {})' <=> Alike(y, y, {})
    BY <1>4 DEF Alike, Value
  <2>2. \A M : Survives(M)' <=> Survives(M)
    BY <1>1, <1>4 DEF Survives
  <2>3. QED
    BY <2>1, <2>2
<1>7. \A m \in 0 .. Mirrors - 1 : disk[MapMirror(u, m)] # None => disk'[MapMirror(u, m)] # None
  <2>1. \A m \in 0 .. Mirrors - 1 :
          disk'[MapMirror(u, m)] = IF MapMirror(u, m) \in kept THEN wrote[u] ELSE disk[MapMirror(u, m)]
    BY <1>2, <1>3, CopiesPut
  <2>2. wrote[u] # None
    <3>1. wrote[u] \in Value /\ Order \in Nat
      BY <1>3, FieldAssumption
    <3>2. QED
      BY <3>1 DEF Value, None
  <2>3. QED
    BY <2>1, <2>2
<1>8. Starts(lost, u) => Starts(lost, u)'
  <2>1. 0 \in 0 .. Mirrors - 1
    BY <1>3, PlacesApart
  <2>2. QED
    BY <1>4, <1>7, <2>1 DEF Starts, None
<1>9. Begun(lost, u)'
  <2>1. Begins(lost, u) <=> Begun(lost, u)
    BY ReadsThere DEF ReadsWhatIsThere
  <2>2. Begins(lost, u)' <=> Begun(lost, u)'
    BY <1>5 DEF ReadsWhatIsThere
  <2>3. QED
    BY <1>5, <1>8, <2>1, <2>2 DEF Begun
<1>10. There(lost, u)'
  <2>1. CASE IsParity
    <3>1. lost \cup harm[Row(u)] = harm[Full(u)]
      BY <1>3, <2>1, UnitIs DEF Losses
    <3> DEFINE d == disk'
    <3>2. \E y, M : /\ Alike(y, y, {}) /\ y[u % DataCount] = wrote[u]
                    /\ M \in SUBSET Stripe /\ Survives(M)
                    /\ \A j \in Parts : At(j, Full(u)) \notin M =>
                         d[Spot(j, Full(u))] = Word(y, j)
      <4>1. d = Written(disk, Put, kept)
        BY <1>2
      <4>2. Survives(harm[Full(u)]) /\ kept \subseteq DOMAIN Put
        <5>1. kept \subseteq DOMAIN Put
          BY <1>2
        <5>2. Survives(harm[Full(u)])
          BY <3>1
        <5>3. QED
          BY <5>1, <5>2
      <4> HIDE DEF d
      <4>3. QED
        BY <2>1, <4>1, <4>2, StripeKept
    <3>3. PICK y, M : /\ Alike(y, y, {}) /\ y[u % DataCount] = wrote[u]
                      /\ M \in SUBSET Stripe /\ Survives(M)
                      /\ \A j \in Parts : At(j, Full(u)) \notin M =>
                           d[Spot(j, Full(u))] = Word(y, j)
      BY <3>2
    <3>4. Alike(y, y, {})' /\ Survives(M)'
      BY <1>6, <3>3
    <3>5. (y[u % DataCount] = wrote[u])' /\ (M \in SUBSET Stripe)'
      BY <1>1, <1>4, <3>3
    <3>6. (\A j \in Parts : At(j, Full(u)) \notin M => disk[Spot(j, Full(u))] = Word(y, j))'
      BY <1>4, <1>5, <3>3
    <3>7. IsParity'
      BY <1>4, <2>1
    <3>8. QED
      BY <3>4, <3>5, <3>6, <3>7 DEF There
  <2>2. CASE ~ IsParity
    <3> DEFINE d == disk'
    <3>1. \E m \in 0 .. Mirrors - 1 : CopyAt(u, m) \notin lost /\ d[MapMirror(u, m)] = wrote[u]
      <4>1. d = Written(disk, Put, kept)
        BY <1>2
      <4>2. lost \in SUBSET Stripe
        BY <2>2 DEF Losses
      <4> HIDE DEF d
      <4>3. QED
        BY <2>2, <4>1, <4>2, CopyKept
    <3>2. QED
      BY <1>1, <1>4, <2>2, <3>1 DEF There
  <2>3. QED
    BY <2>1, <2>2
<1>11. QED
  BY <1>5, <1>9, <1>10 DEF ReadsWhatIsThere

(* A repair mends what it can, reports the rest, and takes away nothing that
   was to be had, finished or cut off.                                      *)
THEOREM RepairSoundAlways == Spec => RepairSound
<1>1. ASSUME IInv, [Next]_vars, FindsOnly', ReadsWhatIsThere'
      PROVE  /\ [outcome' = "repaired" /\ calls' # calls =>
                   \A e \in Errors(disk)' : \E f \in Unrepairable(CopyErrors(disk)) :
                     \/ IsParity /\ Full(e.unit) = Full(f.unit)
                     \/ \E x \in held : {e.unit, f.unit} \subseteq Span(x)]_<<disk, calls>>
             /\ [outcome' \in {"repaired", "failed", "repair cut"} =>
                   \A lost \in IF IsParity THEN {{}} ELSE SUBSET Stripe, u \in HeldUnits :
                     /\ Covered(u) /\ Survives(lost \cup harm[Row(u)])
                     /\ Begins(lost, u) \/ Begins(lost, u)'
                     => ReadsBack(lost, u)']_disk
  <2>1. ASSUME Next, ~ ScrubRepair PROVE outcome' \notin {"repaired", "failed", "repair cut"}
    <3>1. ASSUME NEW at \in Units, NEW len \in 1 .. 2, NEW kind, Write(at, len, kind)
          PROVE  outcome' \in {"wrote", "cut"}
      BY <3>1 DEF Write
    <3>2. ASSUME NEW e \in held, Release(e) PROVE outcome' = "released"
      BY <3>2 DEF Release
    <3>3. ASSUME NEW at, Decay(at) \/ Fail(at) PROVE outcome' = "damaged"
      BY <3>3 DEF Decay, Fail, Damage
    <3>4. outcome' \in {"wrote", "cut", "released", "damaged"}
      BY <2>1, <3>1, <3>2, <3>3 DEF Next
    <3>5. QED
      BY <3>4
  <2>2. CASE ScrubRepair
    <3>1. outcome' = "repaired" =>
            \A e \in Errors(disk)' : \E f \in Unrepairable(CopyErrors(disk)) :
              \/ IsParity /\ Full(e.unit) = Full(f.unit)
              \/ \E x \in held : {e.unit, f.unit} \subseteq Span(x)
      BY <1>1, <2>2, RepairHealsStep
    <3>2. \A lost \in Losses, u \in HeldUnits :
            /\ Covered(u) /\ Survives(lost \cup harm[Row(u)])
            /\ Begins(lost, u) \/ Begins(lost, u)'
            => ReadsBack(lost, u)'
      BY <1>1, <2>2, RepairKeepsStep
    <3>3. QED
      BY <3>1, <3>2 DEF Losses
  <2>3. CASE Next /\ ~ ScrubRepair
    BY <2>1, <2>3
  <2>4. CASE UNCHANGED vars
    BY <2>4 DEF vars
  <2>5. QED
    BY <1>1, <2>2, <2>3, <2>4
<1>2. QED
  BY <1>1, IInvInit, IInvStep, ErrorsAre, ReadsThere, PTL DEF Spec, RepairSound, RepairHeals, RepairKeeps

=============================================================================
