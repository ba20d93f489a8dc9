------------------------ MODULE DeclaredMemory_proofs ------------------------
(***************************************************************************)
(* declared_min_memory_bytes reads every binary as its writer meant it,    *)
(* for every width of groups and words and any number of sections and      *)
(* entries.                                                                *)
(***************************************************************************)
EXTENDS MCDeclaredMemory, SequenceTheorems, WellFoundedInduction, NaturalsInduction, TLAPS

(***************************************************************************)
(* Induction, with the property as a set.                                  *)
(***************************************************************************)

\* A non-empty set of naturals has a least element.
LEMMA LeastElement ==
  ASSUME NEW S \in SUBSET Nat, S # {}
  PROVE  \E m \in S : \A k \in S : m <= k
<1>1. PICK m \in S : \A k \in S : ~(<<k, m>> \in OpToRel(<, Nat))
  BY NatLessThanWellFounded, WFMin
<1>2. \A k, n \in Nat : <<k, n>> \in OpToRel(<, Nat) <=> k < n
  BY DEF OpToRel
<1>3. \A k \in S : m \in Nat /\ k \in Nat /\ ~(k < m)
  BY <1>1, <1>2, Zenon
<1> QED
  BY <1>3

\* What holds of 0 and passes from i to i + 1 below n holds up to n.
LEMMA InductionTo ==
  ASSUME NEW n \in Nat, NEW S, 0 \in S, \A i \in 0..(n - 1) : i \in S => i + 1 \in S
  PROVE  \A i \in 0..n : i \in S
<1> DEFINE out == {i \in 0..n : i \notin S}
<1> SUFFICES ASSUME out # {}
             PROVE  FALSE
  OBVIOUS
<1>1. out \in SUBSET Nat
  OBVIOUS
<1>2. PICK m \in out : \A k \in out : m <= k
  BY <1>1, LeastElement
<1>3. m \in 0..n /\ m \notin S /\ m # 0
  BY <1>2
<1>4. m - 1 \in 0..(n - 1) /\ m - 1 \in 0..n /\ ~(m <= m - 1) /\ (m - 1) + 1 = m
  BY <1>3
<1>5. m - 1 \in S
  BY <1>2, <1>4
<1>6. (m - 1) + 1 \in S
  BY <1>4, <1>5
<1> QED
  BY <1>3, <1>4, <1>6

\* f is what n steps of F make of a.
Iterates(f, a, F, n) ==
  /\ f[0] = a
  /\ \A i \in 1..n : f[i] = F[<<i, f[i - 1]>>]

\* A step can be repeated any number of times.
LEMMA Iterate ==
  ASSUME NEW n \in Nat, NEW S, NEW a \in S, NEW F \in [(1..n) \X S -> S]
  PROVE  \E f \in [0..n -> S] : Iterates(f, a, F, n)
<1> DEFINE P == {k \in Nat : \E f \in [0..k -> S] : Iterates(f, a, F, k)}
<1>1. 0 \in P
  <2>1. [i \in 0..0 |-> a] \in [0..0 -> S] /\ Iterates([i \in 0..0 |-> a], a, F, 0)
    BY DEF Iterates
  <2> QED
    BY <2>1
<1>2. ASSUME NEW k \in 0..(n - 1), k \in P
      PROVE  k + 1 \in P
  <2>1. PICK f \in [0..k -> S] : Iterates(f, a, F, k)
    BY <1>2
  <2>2. PICK x : x = F[<<k + 1, f[k]>>]
    OBVIOUS
  <2>3. x \in S
    BY <2>2
  <2>4. PICK g : g = [i \in 0..(k + 1) |-> IF i = k + 1 THEN x ELSE f[i]]
    OBVIOUS
  <2>5. g \in [0..(k + 1) -> S] /\ g[0] = a
    BY <2>1, <2>3, <2>4 DEF Iterates
  <2>6. ASSUME NEW i \in 1..(k + 1)
        PROVE  g[i] = F[<<i, g[i - 1]>>]
    <3>1. CASE i = k + 1
      <4>1. g[i] = x /\ g[i - 1] = f[k]
        BY <2>4, <3>1
      <4> QED
        BY <2>2, <3>1, <4>1
    <3>2. CASE i # k + 1
      <4>1. g[i] = f[i] /\ g[i - 1] = f[i - 1] /\ i \in 1..k
        BY <2>4, <3>2
      <4> QED
        BY <2>1, <4>1 DEF Iterates
    <3> QED
      BY <3>1, <3>2
  <2>7. Iterates(g, a, F, k + 1)
    BY <2>5, <2>6 DEF Iterates
  <2> QED
    BY <2>5, <2>7
<1> HIDE DEF P
<1>3. n \in P
  BY <1>1, <1>2, InductionTo
<1> USE DEF P
<1> QED
  BY <1>3

-----------------------------------------------------------------------------
(***************************************************************************)
(* Numbers and their groups.                                               *)
(***************************************************************************)

\* What is left of v after each number of groups.
IsRest(v, rest) ==
  rest = [i \in 0..MaxGroups |-> IF i = 0 THEN v ELSE rest[i - 1] \div GroupValues]

LEMMA RestExists ==
  ASSUME NEW v \in Nat
  PROVE  \E rest : IsRest(v, rest) /\ rest \in [0..MaxGroups -> Nat]
<1>1. MaxGroups \in Nat /\ GroupValues \in Nat /\ GroupValues >= 2
  BY EncodingAssumption
<1>2. PICK F : F = [x \in (1..MaxGroups) \X Nat |-> x[2] \div GroupValues]
  OBVIOUS
<1>3. \A n \in Nat : n \div GroupValues \in Nat
  BY <1>1
<1>4. F \in [(1..MaxGroups) \X Nat -> Nat]
  BY <1>2, <1>3
<1>5. PICK f \in [0..MaxGroups -> Nat] : Iterates(f, v, F, MaxGroups)
  BY <1>1, <1>4, Iterate
<1>6. ASSUME NEW i \in 0..MaxGroups
      PROVE  f[i] = IF i = 0 THEN v ELSE f[i - 1] \div GroupValues
  <2>1. CASE i = 0
    BY <1>5, <2>1 DEF Iterates
  <2>2. CASE i # 0
    <3>1. i \in 1..MaxGroups /\ f[i - 1] \in Nat
      BY <1>1, <2>2
    <3>2. f[i] = F[<<i, f[i - 1]>>]
      BY <1>5, <3>1 DEF Iterates
    <3> QED
      BY <1>2, <2>2, <3>1, <3>2
  <2> QED
    BY <2>1, <2>2
<1>7. f = [i \in 0..MaxGroups |-> f[i]]
  OBVIOUS
<1>8. IsRest(v, f)
  BY <1>6, <1>7 DEF IsRest
<1> QED
  BY <1>8

LEMMA RestUnique ==
  ASSUME NEW v, NEW f, NEW g, IsRest(v, f), IsRest(v, g), NEW k \in 0..MaxGroups
  PROVE  f[k] = g[k]
<1>1. MaxGroups \in Nat
  BY EncodingAssumption
<1> DEFINE S == {i \in 0..MaxGroups : f[i] = g[i]}
<1>2. 0 \in S
  BY <1>1 DEF IsRest
<1>3. ASSUME NEW i \in 0..(MaxGroups - 1), i \in S
      PROVE  i + 1 \in S
  <2>1. i + 1 \in 0..MaxGroups /\ i + 1 # 0 /\ (i + 1) - 1 = i
    BY <1>1
  <2>2. f[i + 1] = f[i] \div GroupValues /\ g[i + 1] = g[i] \div GroupValues
    BY <2>1 DEF IsRest
  <2> QED
    BY <1>3, <2>1, <2>2
<1> HIDE DEF S
<1>4. k \in S
  BY <1>1, <1>2, <1>3, InductionTo
<1> QED
  BY <1>4 DEF S

\* The shifts of encode.
LEMMA RestSteps ==
  ASSUME NEW v \in Nat
  PROVE  /\ Rest(v, 0) = v
         /\ \A k \in 0..MaxGroups : Rest(v, k) \in Nat
         /\ \A k \in 1..MaxGroups : Rest(v, k) = Rest(v, k - 1) \div GroupValues
<1>1. PICK rest : rest = CHOOSE r : IsRest(v, r)
  OBVIOUS
<1>2. PICK f : IsRest(v, f) /\ f \in [0..MaxGroups -> Nat]
  BY RestExists
<1>3. IsRest(v, rest)
  BY <1>1, <1>2, Zenon
<1>4. \A k : Rest(v, k) = rest[k]
  BY <1>1, Zenon DEF Rest, IsRest
<1>5. MaxGroups \in Nat
  BY EncodingAssumption
<1>6. \A k \in 0..MaxGroups : rest[k] = IF k = 0 THEN v ELSE rest[k - 1] \div GroupValues
  BY <1>3 DEF IsRest
<1>7. Rest(v, 0) = v
  BY <1>4, <1>5, <1>6
<1>8. ASSUME NEW k \in 0..MaxGroups
      PROVE  Rest(v, k) \in Nat
  <2>1. rest[k] = f[k]
    BY <1>2, <1>3, RestUnique
  <2> QED
    BY <1>2, <1>4, <2>1
<1>9. ASSUME NEW k \in 1..MaxGroups
      PROVE  Rest(v, k) = Rest(v, k - 1) \div GroupValues
  <2>1. k \in 0..MaxGroups /\ k # 0
    BY <1>5
  <2> QED
    BY <1>4, <1>6, <2>1
<1> QED
  BY <1>7, <1>8, <1>9

\* The place values of n groups, and the sums of groups up to each of them.
IsUnit(n, unit) ==
  unit = [k \in 0..n |-> IF k = 0 THEN 1 ELSE unit[k - 1] * GroupValues]
IsSum(groups, unit, n, sum) ==
  sum = [k \in 0..n |-> IF k = 0 THEN 0 ELSE sum[k - 1] + groups[k] * unit[k - 1]]

LEMMA UnitExists ==
  ASSUME NEW n \in Nat
  PROVE  \E unit : IsUnit(n, unit)
<1>1. GroupValues \in Nat
  BY EncodingAssumption
<1>2. PICK F : F = [x \in (1..n) \X Nat |-> x[2] * GroupValues]
  OBVIOUS
<1>3. \A i \in Nat : i * GroupValues \in Nat
  BY <1>1
<1>4. F \in [(1..n) \X Nat -> Nat]
  BY <1>2, <1>3
<1>5. PICK f \in [0..n -> Nat] : Iterates(f, 1, F, n)
  BY <1>4, Iterate
<1>6. ASSUME NEW i \in 0..n
      PROVE  f[i] = IF i = 0 THEN 1 ELSE f[i - 1] * GroupValues
  <2>1. CASE i = 0
    BY <1>5, <2>1 DEF Iterates
  <2>2. CASE i # 0
    <3>1. i \in 1..n /\ f[i - 1] \in Nat
      BY <2>2
    <3>2. f[i] = F[<<i, f[i - 1]>>]
      BY <1>5, <3>1 DEF Iterates
    <3> QED
      BY <1>2, <2>2, <3>1, <3>2
  <2> QED
    BY <2>1, <2>2
<1>7. f = [i \in 0..n |-> f[i]]
  OBVIOUS
<1>8. IsUnit(n, f)
  BY <1>6, <1>7 DEF IsUnit
<1> QED
  BY <1>8

LEMMA UnitType ==
  ASSUME NEW n \in Nat, NEW unit, IsUnit(n, unit)
  PROVE  /\ unit \in [0..n -> Nat] /\ unit[0] = 1
         /\ \A k \in 0..(n - 1) : unit[k + 1] = unit[k] * GroupValues
<1>1. GroupValues \in Nat
  BY EncodingAssumption
<1>2. \A k \in 0..n : unit[k] = IF k = 0 THEN 1 ELSE unit[k - 1] * GroupValues
  BY DEF IsUnit
<1>3. unit[0] = 1
  BY <1>2
<1>4. ASSUME NEW k \in 0..(n - 1)
      PROVE  unit[k + 1] = unit[k] * GroupValues
  <2>1. k + 1 \in 0..n /\ k + 1 # 0 /\ (k + 1) - 1 = k
    OBVIOUS
  <2> QED
    BY <1>2, <2>1
<1> DEFINE S == {i \in 0..n : unit[i] \in Nat}
<1>5. 0 \in S
  BY <1>3
<1>6. ASSUME NEW i \in 0..(n - 1), i \in S
      PROVE  i + 1 \in S
  <2>1. unit[i] \in Nat /\ i + 1 \in 0..n
    BY <1>6
  <2>2. unit[i] * GroupValues \in Nat
    BY <1>1, <2>1
  <2> QED
    BY <1>4, <2>1, <2>2
<1> HIDE DEF S
<1>7. \A i \in 0..n : i \in S
  BY <1>5, <1>6, InductionTo
<1>8. \A i \in 0..n : unit[i] \in Nat
  BY <1>7 DEF S
<1>9. unit \in [0..n -> Nat]
  BY <1>8 DEF IsUnit
<1> QED
  BY <1>3, <1>4, <1>9

LEMMA SumExists ==
  ASSUME NEW n \in Nat, NEW groups \in [1..n -> Nat], NEW unit \in [0..n -> Nat]
  PROVE  \E sum : IsSum(groups, unit, n, sum)
<1>1. PICK F : F = [x \in (1..n) \X Nat |-> x[2] + groups[x[1]] * unit[x[1] - 1]]
  OBVIOUS
<1>2. ASSUME NEW x \in (1..n) \X Nat
      PROVE  x[2] + groups[x[1]] * unit[x[1] - 1] \in Nat
  <2>1. x[2] \in Nat /\ groups[x[1]] \in Nat /\ unit[x[1] - 1] \in Nat
    OBVIOUS
  <2>2. ASSUME NEW a \in Nat, NEW b \in Nat, NEW c \in Nat
        PROVE  a + b * c \in Nat
    <3>1. PICK p \in Nat : p = b * c
      OBVIOUS
    <3>2. a + p \in Nat
      OBVIOUS
    <3> QED
      BY <3>1, <3>2, Zenon
  <2> QED
    BY <2>1, <2>2
<1>3. F \in [(1..n) \X Nat -> Nat]
  BY <1>1, <1>2
<1>4. PICK f \in [0..n -> Nat] : Iterates(f, 0, F, n)
  BY <1>3, Iterate
<1>5. ASSUME NEW i \in 0..n
      PROVE  f[i] = IF i = 0 THEN 0 ELSE f[i - 1] + groups[i] * unit[i - 1]
  <2>1. CASE i = 0
    BY <1>4, <2>1 DEF Iterates
  <2>2. CASE i # 0
    <3>1. i \in 1..n /\ f[i - 1] \in Nat
      BY <2>2
    <3>2. f[i] = F[<<i, f[i - 1]>>]
      BY <1>4, <3>1 DEF Iterates
    <3>3. F[<<i, f[i - 1]>>] = f[i - 1] + groups[i] * unit[i - 1]
      BY <1>1, <3>1
    <3> QED
      BY <2>2, <3>2, <3>3
  <2> QED
    BY <2>1, <2>2
<1>6. f = [i \in 0..n |-> f[i]]
  OBVIOUS
<1>7. IsSum(groups, unit, n, f)
  BY <1>5, <1>6 DEF IsSum
<1> QED
  BY <1>7

\* What the sums are, place by place.
SumSteps(groups, unit, n, sum) ==
  /\ sum \in [0..n -> Nat] /\ sum[0] = 0
  /\ \A k \in 0..(n - 1) : sum[k + 1] = sum[k] + groups[k + 1] * unit[k]

LEMMA SumType ==
  ASSUME NEW n \in Nat, NEW groups \in [1..n -> Nat], NEW unit \in [0..n -> Nat],
         NEW sum, IsSum(groups, unit, n, sum)
  PROVE  SumSteps(groups, unit, n, sum)
<1>1. \A k \in 0..n : sum[k] = IF k = 0 THEN 0 ELSE sum[k - 1] + groups[k] * unit[k - 1]
  BY DEF IsSum
<1>2. sum[0] = 0
  BY <1>1
<1>3. ASSUME NEW k \in 0..(n - 1)
      PROVE  sum[k + 1] = sum[k] + groups[k + 1] * unit[k]
  <2>1. k + 1 \in 0..n /\ k + 1 # 0 /\ (k + 1) - 1 = k
    OBVIOUS
  <2> QED
    BY <1>1, <2>1
<1> DEFINE S == {i \in 0..n : sum[i] \in Nat}
<1>4. 0 \in S
  BY <1>2
<1>5. ASSUME NEW i \in 0..(n - 1), i \in S
      PROVE  i + 1 \in S
  <2>1. sum[i] \in Nat /\ groups[i + 1] \in Nat /\ unit[i] \in Nat /\ i + 1 \in 0..n
    BY <1>5
  <2>2. PICK p \in Nat : p = groups[i + 1] * unit[i]
    BY <2>1
  <2>3. sum[i] + p \in Nat
    BY <2>1, <2>2
  <2> QED
    BY <1>3, <2>1, <2>2, <2>3
<1> HIDE DEF S
<1>6. \A i \in 0..n : i \in S
  BY <1>4, <1>5, InductionTo
<1>7. \A i \in 0..n : sum[i] \in Nat
  BY <1>6 DEF S
<1>8. sum \in [0..n -> Nat]
  BY <1>7 DEF IsSum
<1> QED
  BY <1>2, <1>3, <1>8 DEF SumSteps

\* number is the sum of its groups at their places (read_uleb).
LEMMA NumberIsSum ==
  ASSUME NEW n \in Nat, NEW groups \in [1..n -> Nat], Len(groups) = n
  PROVE  \E unit, sum : /\ IsUnit(n, unit) /\ IsSum(groups, unit, n, sum)
                        /\ number(groups) = sum[n] % WordValues
<1>1. PICK unit : unit = CHOOSE u : IsUnit(n, u)
  OBVIOUS
<1>2. IsUnit(n, unit)
  BY <1>1, UnitExists, Zenon
<1>3. unit \in [0..n -> Nat]
  BY <1>2, UnitType
<1>4. PICK sum : sum = CHOOSE s : IsSum(groups, unit, n, s)
  OBVIOUS
<1>5. IsSum(groups, unit, n, sum)
  <2>1. \E s : IsSum(groups, unit, n, s)
    BY <1>3, SumExists
  <2> QED
    BY <1>4, <2>1, Zenon
<1>6. number(groups) = sum[n] % WordValues
  <2>1. unit = CHOOSE u : IsUnit(Len(groups), u)
    BY <1>1, Zenon
  <2>2. sum = CHOOSE s : IsSum(groups, unit, Len(groups), s)
    BY <1>4, Zenon
  <2>3. number(groups) = sum[Len(groups)] % WordValues
    BY <2>1, <2>2, Zenon DEF number, IsUnit, IsSum
  <2> QED
    BY <2>3
<1> QED
  BY <1>2, <1>5, <1>6

LEMMA NumberType ==
  ASSUME NEW n \in Nat, NEW groups \in [1..n -> Nat], Len(groups) = n
  PROVE  number(groups) \in Nat
<1>1. PICK unit, sum : /\ IsUnit(n, unit) /\ IsSum(groups, unit, n, sum)
                       /\ number(groups) = sum[n] % WordValues
  BY NumberIsSum
<1>2. unit \in [0..n -> Nat]
  BY <1>1, UnitType
<1>3. SumSteps(groups, unit, n, sum)
  BY <1>1, <1>2, SumType
<1>4. sum[n] \in Nat
  BY <1>3 DEF SumSteps
<1> QED
  BY <1>1, <1>4, EncodingAssumption

\* One group more.
ShiftedSum(s, u, q, b) == s + u * q = (s + (q % b) * u) + (u * b) * (q \div b)

LEMMA Shifted ==
  ASSUME NEW s \in Nat, NEW u \in Nat, NEW q \in Nat, NEW b \in Nat, b >= 2
  PROVE  ShiftedSum(s, u, q, b)
<1>1. PICK g \in Nat, r \in Nat : g = q % b /\ r = q \div b /\ q = b * r + g
  BY SMTT(30)
<1>2. u * q = u * (b * r) + u * g
  BY <1>1
<1>3. u * (b * r) = (u * b) * r /\ u * g = g * u
  BY <1>1
<1>4. PICK x \in Nat, y \in Nat : x = (u * b) * r /\ y = g * u
  BY <1>1
<1> QED
  BY <1>1, <1>2, <1>3, <1>4 DEF ShiftedSum

\* The groups of a number are read back as the number, in as much of it as a word
\* holds.
LEMMA NumberOfGroups ==
  ASSUME NEW v \in Nat, NEW n \in 1..MaxGroups, Rest(v, n) = 0,
         NEW groups, groups = [i \in 1..n |-> Rest(v, i - 1) % GroupValues]
  PROVE  number(groups) = v % WordValues
<1>1. MaxGroups \in Nat /\ GroupValues \in Nat /\ GroupValues >= 2 /\ n \in Nat
  BY EncodingAssumption
<1>2. ASSUME NEW k \in 0..n
      PROVE  Rest(v, k) \in Nat
  <2>1. k \in 0..MaxGroups
    BY <1>1
  <2> QED
    BY <2>1, RestSteps
<1>3. ASSUME NEW k \in 1..n
      PROVE  Rest(v, k) = Rest(v, k - 1) \div GroupValues
  <2>1. k \in 1..MaxGroups
    BY <1>1
  <2> QED
    BY <2>1, RestSteps
<1>4. groups \in [1..n -> Nat] /\ Len(groups) = n
  <2>1. \A q \in Nat : q % GroupValues \in Nat
    BY <1>1
  <2>2. \A i \in 1..n : Rest(v, i - 1) \in Nat
    BY <1>1, <1>2
  <2> QED
    BY <1>1, <2>1, <2>2
<1>5. PICK unit, sum : /\ IsUnit(n, unit) /\ IsSum(groups, unit, n, sum)
                       /\ number(groups) = sum[n] % WordValues
  BY <1>1, <1>4, NumberIsSum
<1>6. /\ unit \in [0..n -> Nat] /\ unit[0] = 1
      /\ \A k \in 0..(n - 1) : unit[k + 1] = unit[k] * GroupValues
  BY <1>1, <1>5, UnitType
<1>7. /\ sum \in [0..n -> Nat] /\ sum[0] = 0
      /\ \A k \in 0..(n - 1) : sum[k + 1] = sum[k] + groups[k + 1] * unit[k]
  <2>1. n \in Nat /\ groups \in [1..n -> Nat] /\ unit \in [0..n -> Nat]
    BY <1>1, <1>4, <1>6
  <2>2. IsSum(groups, unit, n, sum)
    BY <1>5
  <2>3. SumSteps(groups, unit, n, sum)
    BY <2>1, <2>2, SumType
  <2> QED
    BY <2>3 DEF SumSteps
<1> DEFINE S == {k \in 0..n : sum[k] + unit[k] * Rest(v, k) = v}
<1>8. 0 \in S
  BY <1>1, <1>6, <1>7, RestSteps
<1>9. ASSUME NEW k \in 0..(n - 1), k \in S
      PROVE  k + 1 \in S
  <2>1. PICK q \in Nat, s \in Nat, u \in Nat : q = Rest(v, k) /\ s = sum[k] /\ u = unit[k]
    <3>1. k \in 0..n
      BY <1>1
    <3>2. Rest(v, k) \in Nat /\ sum[k] \in Nat /\ unit[k] \in Nat
      BY <1>2, <1>6, <1>7, <3>1
    <3> QED
      BY <3>2
  <2>2. k + 1 \in 1..n /\ k + 1 \in 0..n /\ (k + 1) - 1 = k
    BY <1>1
  <2>3. Rest(v, k + 1) = q \div GroupValues
    BY <1>3, <2>1, <2>2
  <2>4. groups[k + 1] = q % GroupValues
    BY <2>1, <2>2
  <2>5. sum[k + 1] = s + (q % GroupValues) * u /\ unit[k + 1] = u * GroupValues
    BY <1>6, <1>7, <2>1, <2>4
  <2>6. s + u * q = (s + (q % GroupValues) * u) + (u * GroupValues) * (q \div GroupValues)
    <3>1. ShiftedSum(s, u, q, GroupValues)
      BY <1>1, <2>1, Shifted
    <3> QED
      BY <3>1, Zenon DEF ShiftedSum
  <2>7. s + u * q = v
    BY <1>9, <2>1
  <2> QED
    BY <2>2, <2>3, <2>5, <2>6, <2>7
<1>10. n \in 0..n
  BY <1>1
<1> HIDE DEF S
<1>11. n \in S
  BY <1>1, <1>8, <1>9, <1>10, InductionTo
<1>12. sum[n] = v
  <2>1. sum[n] + unit[n] * 0 = v /\ unit[n] \in Nat /\ sum[n] \in Nat
    BY <1>6, <1>7, <1>10, <1>11 DEF S
  <2> QED
    BY <2>1
<1> QED
  BY <1>5, <1>12

-----------------------------------------------------------------------------
(***************************************************************************)
(* read_uleb                                                               *)
(***************************************************************************)

Bytes == Seq(Nat)

\* The number at pos takes k bytes.
EndsAt(bytes, pos, k) ==
  /\ k \in 1..MaxGroups
  /\ pos + k <= Len(bytes)
  /\ ~Follows(bytes[pos + k])
  /\ \A j \in 1..(k - 1) : Follows(bytes[pos + j])

\* Its groups.
Groups(bytes, pos, k) == [i \in 1..k |-> bytes[pos + i] % GroupValues]

\* c starts with b.
Extends(b, c) == Len(b) <= Len(c) /\ \A i \in 1..Len(b) : c[i] = b[i]

LEMMA EndsOnce ==
  ASSUME NEW bytes, NEW pos, NEW k, NEW m, EndsAt(bytes, pos, k), EndsAt(bytes, pos, m)
  PROVE  k = m
<1>1. MaxGroups \in Nat
  BY EncodingAssumption
<1>2. k \in Nat /\ m \in Nat /\ k >= 1 /\ m >= 1
  BY <1>1 DEF EndsAt
<1>3. CASE k < m
  <2>1. k \in 1..(m - 1)
    BY <1>2, <1>3
  <2> QED
    BY <2>1 DEF EndsAt
<1>4. CASE m < k
  <2>1. m \in 1..(k - 1)
    BY <1>2, <1>4
  <2> QED
    BY <2>1 DEF EndsAt
<1> QED
  BY <1>2, <1>3, <1>4

\* A number that ends is read, and nothing else is.
LEMMA ReadAt ==
  ASSUME NEW bytes, NEW pos, NEW k, EndsAt(bytes, pos, k)
  PROVE  read_uleb(bytes, pos) = Some(number(Groups(bytes, pos, k)), pos + k)
<1> DEFINE ends == {m \in 1..MaxGroups : /\ pos + m <= Len(bytes)
                                         /\ ~Follows(bytes[pos + m])
                                         /\ \A j \in 1..(m - 1) : Follows(bytes[pos + j])}
<1>1. read_uleb(bytes, pos) =
        IF ends = {} THEN None
        ELSE Some(number(Groups(bytes, pos, CHOOSE m \in ends : TRUE)), pos + (CHOOSE m \in ends : TRUE))
  BY DEF read_uleb, Groups
<1>2. \A m : m \in ends <=> EndsAt(bytes, pos, m)
  BY DEF EndsAt
<1> HIDE DEF ends
<1>3. k \in ends /\ \A m \in ends : m = k
  BY <1>2, EndsOnce
<1>4. (CHOOSE m \in ends : TRUE) = k
  BY <1>3
<1>5. ends # {}
  BY <1>3
<1> QED
  BY <1>1, <1>4, <1>5, Zenon

LEMMA ReadNothing ==
  ASSUME NEW bytes, NEW pos, \A k : ~EndsAt(bytes, pos, k)
  PROVE  read_uleb(bytes, pos) = None
<1> DEFINE ends == {m \in 1..MaxGroups : /\ pos + m <= Len(bytes)
                                         /\ ~Follows(bytes[pos + m])
                                         /\ \A j \in 1..(m - 1) : Follows(bytes[pos + j])}
<1>1. read_uleb(bytes, pos) =
        IF ends = {} THEN None
        ELSE Some(number(Groups(bytes, pos, CHOOSE m \in ends : TRUE)), pos + (CHOOSE m \in ends : TRUE))
  BY DEF read_uleb, Groups
<1>2. \A m : m \in ends <=> EndsAt(bytes, pos, m)
  BY DEF EndsAt
<1> HIDE DEF ends
<1>3. ends = {}
  BY <1>2
<1> QED
  BY <1>1, <1>3, Zenon

LEMMA OptionFields ==
  ASSUME NEW val, NEW pos
  PROVE  /\ Some(val, pos).some /\ Some(val, pos).val = val /\ Some(val, pos).pos = pos
         /\ ~None.some
BY DEF Some, None

\* Read is what read_uleb says of a number that is there: it ends after pos and
\* inside the bytes.
Reads(bytes, pos, val, end) ==
  /\ read_uleb(bytes, pos) = Some(val, end)
  /\ val \in Nat /\ end \in (pos + 1)..Len(bytes)

LEMMA ReadCases ==
  ASSUME NEW bytes \in Bytes, NEW pos \in Nat
  PROVE  \/ read_uleb(bytes, pos) = None
         \/ \E k, val, end : EndsAt(bytes, pos, k) /\ end = pos + k /\ Reads(bytes, pos, val, end)
<1>1. CASE \A k : ~EndsAt(bytes, pos, k)
  BY <1>1, ReadNothing
<1>2. CASE \E k : EndsAt(bytes, pos, k)
  <2>1. PICK k : EndsAt(bytes, pos, k)
    BY <1>2
  <2>2. k \in Nat /\ k >= 1 /\ Len(bytes) \in Nat /\ pos + k <= Len(bytes)
    BY <2>1, EncodingAssumption DEF EndsAt, Bytes
  <2>3. PICK groups : groups = Groups(bytes, pos, k)
    OBVIOUS
  <2>4. groups \in [1..k -> Nat] /\ Len(groups) = k
    <3>1. ASSUME NEW i \in 1..k
          PROVE  bytes[pos + i] % GroupValues \in Nat
      <4>1. pos + i \in 1..Len(bytes)
        BY <2>2
      <4>2. bytes[pos + i] \in Nat
        BY <4>1 DEF Bytes
      <4> QED
        BY <4>2, EncodingAssumption
    <3>2. groups \in [1..k -> Nat]
      BY <2>3, <3>1 DEF Groups
    <3> QED
      BY <2>2, <3>2
  <2>5. number(groups) \in Nat
    BY <2>2, <2>4, NumberType
  <2>6. read_uleb(bytes, pos) = Some(number(groups), pos + k)
    BY <2>1, <2>3, ReadAt
  <2>7. Reads(bytes, pos, number(groups), pos + k)
    BY <2>2, <2>5, <2>6 DEF Reads
  <2> QED
    BY <2>1, <2>7
<1> QED
  BY <1>1, <1>2

\* More bytes at the end change no number that was read.
LEMMA ReadExtends ==
  ASSUME NEW b \in Bytes, NEW c \in Bytes, Extends(b, c), NEW pos \in Nat,
         read_uleb(b, pos) # None
  PROVE  read_uleb(c, pos) = read_uleb(b, pos)
<1>1. PICK k : EndsAt(b, pos, k)
  BY ReadCases
<1>2. k \in Nat /\ k >= 1 /\ Len(b) \in Nat /\ Len(c) \in Nat /\ pos + k <= Len(b) /\ Len(b) <= Len(c)
  BY <1>1, EncodingAssumption DEF EndsAt, Bytes, Extends
<1>3. \A i \in 1..k : c[pos + i] = b[pos + i]
  <2> TAKE i \in 1..k
  <2>1. pos + i \in 1..Len(b)
    BY <1>2
  <2> QED
    BY <2>1 DEF Extends
<1>4. EndsAt(c, pos, k)
  <2>1. k \in 1..MaxGroups /\ pos + k <= Len(c)
    BY <1>1, <1>2 DEF EndsAt
  <2>2. k \in 1..k
    BY <1>2
  <2>3. ~Follows(c[pos + k])
    BY <1>1, <1>3, <2>2 DEF EndsAt
  <2>4. ASSUME NEW j \in 1..(k - 1)
        PROVE  Follows(c[pos + j])
    <3>1. j \in 1..k
      BY <1>2
    <3> QED
      BY <1>1, <1>3, <3>1 DEF EndsAt
  <2> QED
    BY <2>1, <2>3, <2>4 DEF EndsAt
<1>5. Groups(c, pos, k) = Groups(b, pos, k)
  BY <1>3 DEF Groups
<1> QED
  BY <1>1, <1>4, <1>5, ReadAt

-----------------------------------------------------------------------------
(***************************************************************************)
(* What is written is read back.                                           *)
(***************************************************************************)

\* r is s and then t.
IsJoined(r, s, t) ==
  /\ r \in Bytes /\ Len(r) \in Nat /\ Len(s) \in Nat /\ Len(t) \in Nat
  /\ Len(r) = Len(s) + Len(t)
  /\ \A i \in 1..Len(s) : r[i] = s[i]
  /\ \A i \in 1..Len(t) : r[Len(s) + i] = t[i]

LEMMA Joined ==
  ASSUME NEW s \in Bytes, NEW t \in Bytes
  PROVE  IsJoined(s \o t, s, t)
<1>1. s \in Seq(Nat) /\ t \in Seq(Nat)
  BY DEF Bytes
<1>2. Len(s) \in Nat /\ Len(t) \in Nat
  BY <1>1
<1>3. PICK r : r = s \o t
  OBVIOUS
<1>4. /\ r \in Seq(Nat) /\ Len(r) = Len(s) + Len(t)
      /\ \A i \in 1..(Len(s) + Len(t)) : r[i] = IF i <= Len(s) THEN s[i] ELSE t[i - Len(s)]
  BY <1>1, <1>3, ConcatProperties
<1>5. ASSUME NEW i \in 1..Len(s)
      PROVE  r[i] = s[i]
  <2>1. i \in 1..(Len(s) + Len(t)) /\ i <= Len(s)
    BY <1>2
  <2> QED
    BY <1>4, <2>1
<1>6. ASSUME NEW i \in 1..Len(t)
      PROVE  r[Len(s) + i] = t[i]
  <2>1. PICK j : j = Len(s) + i
    OBVIOUS
  <2>2. j \in 1..(Len(s) + Len(t)) /\ ~(j <= Len(s)) /\ j - Len(s) = i
    BY <1>2, <2>1
  <2> QED
    BY <1>4, <2>1, <2>2
<1> QED
  BY <1>2, <1>3, <1>4, <1>5, <1>6 DEF IsJoined, Bytes

\* The bytes of a number: all but the last are followed.
LEMMA EncodeBytes ==
  ASSUME NEW v \in Nat, NEW k \in 1..MaxGroups
  PROVE  /\ encode(v, k) \in Bytes /\ Len(encode(v, k)) = k
         /\ \A i \in 1..k : /\ Rest(v, i - 1) \in Nat
                            /\ encode(v, k)[i] % GroupValues = Rest(v, i - 1) % GroupValues
                            /\ Follows(encode(v, k)[i]) <=> i < k
<1>1. MaxGroups \in Nat /\ k \in Nat /\ GroupValues \in Nat /\ GroupValues >= 2
  BY EncodingAssumption
<1>2. PICK e : e = encode(v, k)
  OBVIOUS
<1>3. e = [i \in 1..k |-> (Rest(v, i - 1) % GroupValues) + (IF i < k THEN GroupValues ELSE 0)]
  BY <1>2 DEF encode
<1>4. ASSUME NEW i \in 1..k
      PROVE  /\ Rest(v, i - 1) \in Nat /\ e[i] \in Nat
             /\ e[i] % GroupValues = Rest(v, i - 1) % GroupValues
             /\ Follows(e[i]) <=> i < k
  <2>1. i - 1 \in 0..MaxGroups
    BY <1>1
  <2>2. PICK q \in Nat : q = Rest(v, i - 1)
    BY <2>1, RestSteps
  <2>3. PICK g \in Nat : g = q % GroupValues /\ g < GroupValues
    BY <1>1
  <2>4. e[i] = g + (IF i < k THEN GroupValues ELSE 0)
    BY <1>3, <2>2, <2>3
  <2>5. g % GroupValues = g /\ (g + GroupValues) % GroupValues = g
    BY <1>1, <2>3
  <2>6. CASE i < k
    <3>1. e[i] = g + GroupValues
      BY <2>4, <2>6
    <3> QED
      BY <1>1, <2>2, <2>3, <2>5, <2>6, <3>1 DEF Follows
  <2>7. CASE ~(i < k)
    <3>1. e[i] = g
      BY <2>3, <2>4, <2>7
    <3> QED
      BY <1>1, <2>2, <2>3, <2>5, <2>7, <3>1 DEF Follows
  <2> QED
    BY <2>6, <2>7
<1>5. e \in [1..k -> Nat]
  BY <1>3, <1>4
<1>6. e \in Bytes /\ Len(e) = k
  BY <1>1, <1>5 DEF Bytes
<1> QED
  BY <1>2, <1>4, <1>6

\* As far as bytes go from pos on, they are the encoding of v in k groups.
Encoded(bytes, pos, v, k) ==
  \A i \in 1..k : pos + i <= Len(bytes) => bytes[pos + i] = encode(v, k)[i]

LEMMA EncodedEnds ==
  ASSUME NEW bytes \in Bytes, NEW pos \in Nat, NEW v \in Nat, NEW k \in 1..MaxGroups,
         Encoded(bytes, pos, v, k), pos + k <= Len(bytes)
  PROVE  EndsAt(bytes, pos, k)
<1>1. k \in Nat /\ k >= 1 /\ Len(bytes) \in Nat
  BY EncodingAssumption DEF Bytes
<1>2. \A i \in 1..k : bytes[pos + i] = encode(v, k)[i]
  BY <1>1 DEF Encoded
<1>3. \A i \in 1..k : Follows(encode(v, k)[i]) <=> i < k
  BY EncodeBytes
<1>4. ~Follows(bytes[pos + k])
  BY <1>1, <1>2, <1>3
<1>5. \A j \in 1..(k - 1) : Follows(bytes[pos + j])
  BY <1>1, <1>2, <1>3
<1> QED
  BY <1>4, <1>5 DEF EndsAt

\* A number is read back, padded or not, in as much of it as a word holds.
LEMMA ReadBack ==
  ASSUME NEW bytes \in Bytes, NEW pos \in Nat, NEW v \in Nat, NEW k \in 1..MaxGroups,
         Encoded(bytes, pos, v, k), pos + k <= Len(bytes), Rest(v, k) = 0
  PROVE  read_uleb(bytes, pos) = Some(v % WordValues, pos + k)
<1>1. k \in Nat /\ k >= 1 /\ Len(bytes) \in Nat
  BY EncodingAssumption DEF Bytes
<1>2. EndsAt(bytes, pos, k)
  BY EncodedEnds
<1>3. \A i \in 1..k : bytes[pos + i] = encode(v, k)[i]
  BY <1>1 DEF Encoded
<1>4. \A i \in 1..k : encode(v, k)[i] % GroupValues = Rest(v, i - 1) % GroupValues
  BY EncodeBytes
<1>5. PICK groups : groups = [i \in 1..k |-> Rest(v, i - 1) % GroupValues]
  OBVIOUS
<1>6. Groups(bytes, pos, k) = groups
  BY <1>3, <1>4, <1>5 DEF Groups
<1>7. number(groups) = v % WordValues
  BY <1>5, NumberOfGroups
<1> QED
  BY <1>2, <1>6, <1>7, ReadAt

\* A number that is cut is not read: every byte that is left says that another
\* follows.
LEMMA ReadCut ==
  ASSUME NEW bytes \in Bytes, NEW pos \in Nat, NEW v \in Nat, NEW k \in 1..MaxGroups,
         Encoded(bytes, pos, v, k), Len(bytes) < pos + k
  PROVE  read_uleb(bytes, pos) = None
<1>1. MaxGroups \in Nat /\ k \in Nat /\ k >= 1 /\ Len(bytes) \in Nat
  BY EncodingAssumption DEF Bytes
<1>2. ASSUME NEW m, EndsAt(bytes, pos, m)
      PROVE  FALSE
  <2>1. m \in Nat /\ m >= 1 /\ pos + m <= Len(bytes) /\ ~Follows(bytes[pos + m])
    BY <1>1, <1>2 DEF EndsAt
  <2>2. m \in 1..k /\ m < k
    BY <1>1, <2>1
  <2>3. bytes[pos + m] = encode(v, k)[m]
    BY <2>1, <2>2 DEF Encoded
  <2>4. Follows(encode(v, k)[m])
    BY <2>2, EncodeBytes
  <2> QED
    BY <2>1, <2>3, <2>4
<1> QED
  BY <1>2, ReadNothing

-----------------------------------------------------------------------------
(***************************************************************************)
(* The entries of a memory section.                                        *)
(***************************************************************************)

\* A number below the values of a group is one byte.
LEMMA SmallNumber ==
  ASSUME NEW v \in 0..(GroupValues - 1)
  PROVE  /\ v \in Nat /\ 1 \in 1..MaxGroups
         /\ Rest(v, 1) = 0 /\ encode(v, 1)[1] = v /\ v % WordValues = v
<1>1. /\ GroupValues \in Nat /\ GroupValues >= 2 /\ WordValues \in Nat /\ WordValues >= GroupValues
      /\ MaxGroups \in Nat /\ MaxGroups >= 1
  BY EncodingAssumption
<1>2. v \in Nat /\ v < GroupValues /\ v < WordValues /\ 1 \in 1..MaxGroups
  BY <1>1
<1>3. Rest(v, 0) = v /\ Rest(v, 1) = Rest(v, 1 - 1) \div GroupValues
  BY <1>2, RestSteps
<1>4. v \div GroupValues = 0 /\ v % GroupValues = v /\ v % WordValues = v
  BY <1>1, <1>2
<1>5. encode(v, 1)[1] = (Rest(v, 1 - 1) % GroupValues) + (IF 1 < 1 THEN GroupValues ELSE 0)
  BY DEF encode
<1>6. encode(v, 1)[1] = v
  BY <1>2, <1>3, <1>4, <1>5
<1> QED
  BY <1>2, <1>3, <1>4, <1>6

\* memory_entry reads two numbers, or three.
LEMMA EntrySteps ==
  ASSUME NEW body, NEW s, NEW flags, flags = read_uleb(body, s.pos),
         NEW min, min = read_uleb(body, flags.pos),
         NEW end, end = IF flags.val % 2 = 1 THEN read_uleb(body, min.pos) ELSE min
  PROVE  memory_entry(body, s) = IF flags.some /\ min.some /\ end.some
                                   THEN Some(larger(s.val, min.val), end.pos) ELSE None
BY DEF memory_entry, Try

\* A read, as an option.
IsOption(o) == o = None \/ \E val, pos \in Nat : o = Some(val, pos)

LEMMA OptionCases ==
  ASSUME NEW o, IsOption(o)
  PROVE  /\ o # None => o.some /\ o.val \in Nat /\ o.pos \in Nat
         /\ o = None => ~o.some
         /\ o.some => o # None
<1>1. CASE o = None
  BY <1>1, OptionFields
<1>2. CASE \E val, pos \in Nat : o = Some(val, pos)
  <2>1. PICK val \in Nat, pos \in Nat : o = Some(val, pos)
    BY <1>2
  <2>2. o.some /\ o.val = val /\ o.pos = pos
    BY <2>1, OptionFields
  <2>3. o # None
    BY <2>2, OptionFields
  <2> QED
    BY <2>1, <2>2, <2>3
<1> QED
  BY <1>1, <1>2 DEF IsOption

LEMMA ReadIsOption ==
  ASSUME NEW bytes \in Bytes, NEW pos \in Nat
  PROVE  IsOption(read_uleb(bytes, pos))
<1>1. CASE read_uleb(bytes, pos) = None
  BY <1>1 DEF IsOption
<1>2. CASE \E k, val, end : EndsAt(bytes, pos, k) /\ end = pos + k /\ Reads(bytes, pos, val, end)
  <2>1. PICK val, end : Reads(bytes, pos, val, end)
    BY <1>2
  <2>2. val \in Nat /\ end \in Nat /\ read_uleb(bytes, pos) = Some(val, end)
    BY <2>1 DEF Reads, Bytes
  <2> QED
    BY <2>2 DEF IsOption
<1> QED
  BY <1>1, <1>2, ReadCases

\* More bytes at the end change no entry that was read.
LEMMA EntryExtends ==
  ASSUME NEW b \in Bytes, NEW c \in Bytes, Extends(b, c), NEW s, s.pos \in Nat,
         memory_entry(b, s) # None
  PROVE  memory_entry(c, s) = memory_entry(b, s)
<1>1. PICK flags : flags = read_uleb(b, s.pos)
  OBVIOUS
<1>2. PICK min : min = read_uleb(b, flags.pos)
  OBVIOUS
<1>3. PICK end : end = IF flags.val % 2 = 1 THEN read_uleb(b, min.pos) ELSE min
  OBVIOUS
<1>4. memory_entry(b, s) = IF flags.some /\ min.some /\ end.some
                             THEN Some(larger(s.val, min.val), end.pos) ELSE None
  BY <1>1, <1>2, <1>3, EntrySteps
<1>5. flags.some /\ min.some /\ end.some
  BY <1>4
<1>6. flags # None /\ flags.pos \in Nat
  BY <1>1, <1>5, ReadIsOption, OptionCases
<1>7. min # None /\ min.pos \in Nat
  BY <1>2, <1>5, <1>6, ReadIsOption, OptionCases
<1>8. flags = read_uleb(c, s.pos)
  BY <1>1, <1>6, ReadExtends
<1>9. min = read_uleb(c, flags.pos)
  BY <1>2, <1>6, <1>7, ReadExtends
<1>10. end = IF flags.val % 2 = 1 THEN read_uleb(c, min.pos) ELSE min
  <2>1. CASE flags.val % 2 = 1
    <3>1. end = read_uleb(b, min.pos)
      BY <1>3, <2>1
    <3>2. end # None
      BY <1>5, <1>7, <3>1, ReadIsOption, OptionCases
    <3>3. read_uleb(c, min.pos) = read_uleb(b, min.pos)
      BY <1>7, <3>1, <3>2, ReadExtends
    <3> QED
      BY <2>1, <3>1, <3>3
  <2>2. CASE ~(flags.val % 2 = 1)
    BY <1>3, <2>2
  <2> QED
    BY <2>1, <2>2
<1>11. memory_entry(c, s) = IF flags.some /\ min.some /\ end.some
                              THEN Some(larger(s.val, min.val), end.pos) ELSE None
  BY <1>8, <1>9, <1>10, EntrySteps
<1> QED
  BY <1>4, <1>11

\* The bytes of an entry, after n others.
EntryAt(c, n, e) ==
  /\ c \in Bytes
  /\ Len(c) = n + 1 + e.groups + (IF e.bounded THEN 1 ELSE 0)
  /\ c[n + 1] = IF e.bounded THEN 1 ELSE 0
  /\ Encoded(c, n + 1, e.min, e.groups)
  /\ e.bounded => Encoded(c, n + 1 + e.groups, e.min, 1)

LEMMA EntryType ==
  ASSUME NEW e \in Entry
  PROVE  e.min \in Nat /\ e.groups \in 1..MaxGroups /\ e.groups \in Nat /\ e.bounded \in BOOLEAN
<1>1. e.min \in Mins /\ e.groups \in 1..MaxGroups
  BY DEF Entry
<1>2. e.bounded \in BOOLEAN
  BY Zenon DEF Entry
<1>3. e.min \in Nat
  BY <1>1, WriterAssumption
<1>4. e.groups \in Nat
  BY <1>1, EncodingAssumption
<1> QED
  BY <1>1, <1>2, <1>3, <1>4, Zenon

LEMMA EntryBytes ==
  ASSUME NEW body \in Bytes, NEW e \in Entry
  PROVE  EntryAt(body \o encode_entry(e), Len(body), e) /\ Extends(body, body \o encode_entry(e))
<1>1. e.min \in Nat /\ e.groups \in 1..MaxGroups /\ e.groups \in Nat /\ e.bounded \in BOOLEAN
  BY EntryType
<1>2. PICK g : g = e.groups
  OBVIOUS
<1>3. PICK flag : flag = <<IF e.bounded THEN 1 ELSE 0>>
  OBVIOUS
<1>4. flag \in Bytes /\ Len(flag) = 1 /\ flag[1] = IF e.bounded THEN 1 ELSE 0
  BY <1>3 DEF Bytes
<1>5. PICK min : min = encode(e.min, g)
  OBVIOUS
<1>6. min \in Bytes /\ Len(min) = g
  BY <1>1, <1>2, <1>5, EncodeBytes
<1>7. PICK max : max = IF e.bounded THEN encode(e.min, 1) ELSE << >>
  OBVIOUS
<1>8. 1 \in 1..MaxGroups
  BY EncodingAssumption
<1>9. max \in Bytes /\ Len(max) = IF e.bounded THEN 1 ELSE 0
  <2>1. encode(e.min, 1) \in Bytes /\ Len(encode(e.min, 1)) = 1
    BY <1>1, <1>8, EncodeBytes
  <2>2. << >> \in Bytes /\ Len(<< >>) = 0
    BY DEF Bytes
  <2>3. CASE e.bounded
    BY <1>7, <2>1, <2>3
  <2>4. CASE ~e.bounded
    BY <1>7, <2>2, <2>4
  <2> QED
    BY <2>3, <2>4
<1>10. encode_entry(e) = (flag \o min) \o max
  BY <1>2, <1>3, <1>5, <1>7, Zenon DEF encode_entry
<1>11. PICK head : head = flag \o min
  OBVIOUS
<1>12. IsJoined(head, flag, min)
  BY <1>4, <1>6, <1>11, Joined
<1>13. head \in Bytes
  BY <1>12 DEF IsJoined
<1>14. PICK entry : entry = head \o max
  OBVIOUS
<1>15. IsJoined(entry, head, max)
  BY <1>9, <1>13, <1>14, Joined
<1>16. entry \in Bytes
  BY <1>15 DEF IsJoined
<1>17. PICK c : c = body \o entry
  OBVIOUS
<1>18. IsJoined(c, body, entry)
  BY <1>16, <1>17, Joined
<1>19. PICK n \in Nat : n = Len(body)
  BY DEF Bytes
<1>20. /\ c \in Bytes /\ Len(entry) \in Nat /\ Len(c) = n + Len(entry)
       /\ \A i \in 1..n : c[i] = body[i]
       /\ \A i \in 1..Len(entry) : c[n + i] = entry[i]
  BY <1>18, <1>19 DEF IsJoined
<1>21. /\ Len(head) = 1 + g /\ Len(entry) = 1 + g + Len(max)
  BY <1>4, <1>6, <1>12, <1>15 DEF IsJoined
<1>22. g \in Nat /\ g >= 1 /\ Len(max) \in Nat
  BY <1>1, <1>2, <1>9 DEF Bytes
<1>23. c[n + 1] = flag[1]
  <2>1. 1 \in 1..Len(flag) /\ 1 \in 1..Len(head) /\ 1 \in 1..Len(entry)
    BY <1>4, <1>21, <1>22
  <2>2. head[1] = flag[1]
    BY <1>12, <2>1 DEF IsJoined
  <2>3. entry[1] = head[1]
    BY <1>15, <2>1 DEF IsJoined
  <2> QED
    BY <1>20, <2>1, <2>2, <2>3
<1>24. ASSUME NEW i \in 1..g
       PROVE  c[(n + 1) + i] = min[i]
  <2>1. PICK j : j = 1 + i
    OBVIOUS
  <2>2. j \in 1..Len(head) /\ j \in 1..Len(entry) /\ (n + 1) + i = n + j
    BY <1>19, <1>21, <1>22, <2>1
  <2>3. head[j] = min[i]
    BY <1>4, <1>6, <1>12, <2>1 DEF IsJoined
  <2>4. entry[j] = head[j]
    BY <1>15, <2>2 DEF IsJoined
  <2>5. c[n + j] = entry[j]
    BY <1>20, <2>2
  <2> QED
    BY <2>2, <2>3, <2>4, <2>5
<1>25. ASSUME NEW i \in 1..Len(max)
       PROVE  c[((n + 1) + g) + i] = max[i]
  <2>1. PICK j : j = (1 + g) + i
    OBVIOUS
  <2>2. j \in 1..Len(entry) /\ ((n + 1) + g) + i = n + j
    BY <1>19, <1>21, <1>22, <2>1
  <2>3. entry[j] = max[i]
    BY <1>15, <1>21, <2>1 DEF IsJoined
  <2>4. c[n + j] = entry[j]
    BY <1>20, <2>2
  <2> QED
    BY <2>2, <2>3, <2>4
<1>26. Encoded(c, n + 1, e.min, g)
  BY <1>5, <1>24 DEF Encoded
<1>27. e.bounded => Encoded(c, (n + 1) + g, e.min, 1)
  BY <1>7, <1>9, <1>25 DEF Encoded
<1>28. Len(c) = n + 1 + g + (IF e.bounded THEN 1 ELSE 0)
  BY <1>9, <1>19, <1>20, <1>21, <1>22
<1>29. EntryAt(c, n, e)
  BY <1>2, <1>4, <1>20, <1>23, <1>26, <1>27, <1>28 DEF EntryAt
<1>30. Extends(body, c)
  BY <1>19, <1>20 DEF Extends
<1> QED
  BY <1>10, <1>11, <1>14, <1>17, <1>19, <1>29, <1>30

\* An entry is read back: its minimum, in as much of it as a word holds, and all
\* of its bytes (the loop of memory_entry).
LEMMA EntryReads ==
  ASSUME NEW n \in Nat, NEW e \in Entry, NEW c, EntryAt(c, n, e),
         Rest(e.min, e.groups) = 0, NEW v \in Nat
  PROVE  memory_entry(c, Some(v, n)) = Some(larger(v, e.min % WordValues), Len(c))
<1>1. e.min \in Nat /\ e.groups \in 1..MaxGroups /\ e.groups \in Nat /\ e.bounded \in BOOLEAN
  BY EntryType
<1>2. PICK g \in 1..MaxGroups : g = e.groups /\ g \in Nat
  BY <1>1
<1>3. PICK s : s = Some(v, n)
  OBVIOUS
<1>4. s.val = v /\ s.pos = n
  BY <1>3, OptionFields
<1>5. PICK f : f = IF e.bounded THEN 1 ELSE 0
  OBVIOUS
<1>6. f \in 0..(GroupValues - 1) /\ f \in Nat /\ (f = 1 <=> e.bounded) /\ (f = 0 <=> ~e.bounded)
  <2>1. 0 \in 0..(GroupValues - 1) /\ 1 \in 0..(GroupValues - 1)
    BY EncodingAssumption
  <2>2. CASE e.bounded
    BY <1>5, <2>1, <2>2
  <2>3. CASE ~e.bounded
    BY <1>5, <2>1, <2>3
  <2> QED
    BY <2>2, <2>3
<1>7. c \in Bytes /\ Len(c) = n + 1 + g + f /\ c[n + 1] = f
  BY <1>2, <1>5 DEF EntryAt
<1>8. PICK flags : flags = read_uleb(c, n)
  OBVIOUS
<1>9. flags = Some(f, n + 1)
  <2>1. /\ 1 \in 1..MaxGroups
        /\ Rest(f, 1) = 0 /\ encode(f, 1)[1] = f /\ f % WordValues = f
    BY <1>6, SmallNumber
  <2>2. Encoded(c, n, f, 1)
    BY <1>7, <2>1 DEF Encoded
  <2>3. n + 1 <= Len(c)
    BY <1>2, <1>6, <1>7
  <2>4. read_uleb(c, n) = Some(f % WordValues, n + 1)
    BY <1>6, <1>7, <2>1, <2>2, <2>3, ReadBack
  <2> QED
    BY <1>8, <2>1, <2>4
<1>10. flags.some /\ flags.val = f /\ flags.pos = n + 1
  BY <1>9, OptionFields
<1>11. PICK min : min = read_uleb(c, n + 1)
  OBVIOUS
<1>12. min = Some(e.min % WordValues, (n + 1) + g)
  <2>1. Encoded(c, n + 1, e.min, g)
    BY <1>2 DEF EntryAt
  <2>2. n + 1 \in Nat /\ (n + 1) + g <= Len(c)
    BY <1>2, <1>6, <1>7
  <2>3. Rest(e.min, g) = 0
    BY <1>2
  <2> QED
    BY <1>1, <1>2, <1>7, <1>11, <2>1, <2>2, <2>3, ReadBack
<1>13. min.some /\ min.val = e.min % WordValues /\ min.pos = (n + 1) + g
  BY <1>12, OptionFields
<1>14. PICK end : end = IF flags.val % 2 = 1 THEN read_uleb(c, min.pos) ELSE min
  OBVIOUS
<1>15. end.some /\ end.pos = Len(c)
  <2>1. CASE e.bounded
    <3>1. flags.val % 2 = 1
      BY <1>6, <1>10, <2>1
    <3>2. PICK p \in Nat : p = (n + 1) + g
      BY <1>2
    <3>3. Encoded(c, p, e.min, 1) /\ p + 1 = Len(c) /\ p + 1 <= Len(c)
      BY <1>2, <1>6, <1>7, <2>1, <3>2 DEF EntryAt
    <3>4. 1 \in 1..MaxGroups
      BY EncodingAssumption
    <3>5. EndsAt(c, p, 1)
      BY <1>1, <1>7, <3>3, <3>4, EncodedEnds
    <3>6. read_uleb(c, p) = Some(number(Groups(c, p, 1)), p + 1)
      BY <3>5, ReadAt
    <3>7. end = Some(number(Groups(c, p, 1)), p + 1)
      BY <1>13, <1>14, <3>1, <3>2, <3>6
    <3> QED
      BY <3>3, <3>7, OptionFields
  <2>2. CASE ~e.bounded
    <3>1. ~(flags.val % 2 = 1)
      BY <1>6, <1>10, <2>2
    <3>2. end = min
      BY <1>14, <3>1
    <3> QED
      BY <1>2, <1>6, <1>7, <1>13, <2>2, <3>2
  <2> QED
    BY <2>1, <2>2
<1>16. memory_entry(c, s) = IF flags.some /\ min.some /\ end.some
                              THEN Some(larger(s.val, min.val), end.pos) ELSE None
  BY <1>4, <1>8, <1>10, <1>11, <1>14, EntrySteps
<1> QED
  BY <1>3, <1>4, <1>10, <1>13, <1>15, <1>16

\* The bodies that encode_entries writes, entry by entry.
IsPart(n, entries, part) ==
  part = [i \in 0..n |-> IF i = 0 THEN encode(n, 1) ELSE part[i - 1] \o encode_entry(entries[i])]

\* The entries of a section, each of them with all its groups.
Entries(n, entries) ==
  /\ n \in 0..(GroupValues - 1)
  /\ entries \in [1..n -> Entry]
  /\ \A i \in 1..n : Rest(entries[i].min, entries[i].groups) = 0

PartSteps(n, entries, part) ==
  /\ part \in [0..n -> Bytes] /\ part[0] = encode(n, 1)
  /\ \A i \in 1..n : part[i] = part[i - 1] \o encode_entry(entries[i])

LEMMA PartExists ==
  ASSUME NEW n, NEW entries, Entries(n, entries)
  PROVE  \E part : IsPart(n, entries, part) /\ PartSteps(n, entries, part)
<1>1. n \in 0..(GroupValues - 1) /\ n \in Nat /\ entries \in [1..n -> Entry]
  BY EncodingAssumption DEF Entries
<1>2. PICK F : F = [x \in (1..n) \X Bytes |-> x[2] \o encode_entry(entries[x[1]])]
  OBVIOUS
<1>3. ASSUME NEW i \in 1..n, NEW body \in Bytes
      PROVE  body \o encode_entry(entries[i]) \in Bytes
  <2>1. PICK e \in Entry : e = entries[i]
    BY <1>1
  <2>2. EntryAt(body \o encode_entry(e), Len(body), e)
    BY <2>1, EntryBytes
  <2> QED
    BY <2>1, <2>2 DEF EntryAt
<1>4. F \in [(1..n) \X Bytes -> Bytes]
  BY <1>2, <1>3
<1>5. encode(n, 1) \in Bytes
  BY <1>1, SmallNumber, EncodeBytes
<1>6. PICK f \in [0..n -> Bytes] : Iterates(f, encode(n, 1), F, n)
  BY <1>1, <1>4, <1>5, Iterate
<1>7. f[0] = encode(n, 1)
  BY <1>6 DEF Iterates
<1>8. ASSUME NEW i \in 1..n
      PROVE  f[i] = f[i - 1] \o encode_entry(entries[i])
  <2>1. f[i] = F[<<i, f[i - 1]>>]
    BY <1>6 DEF Iterates
  <2>2. f[i - 1] \in Bytes
    BY <1>1, <1>6
  <2> QED
    BY <1>2, <2>1, <2>2
<1>9. ASSUME NEW i \in 0..n
      PROVE  f[i] = IF i = 0 THEN encode(n, 1) ELSE f[i - 1] \o encode_entry(entries[i])
  <2>1. CASE i = 0
    BY <1>7, <2>1
  <2>2. CASE i # 0
    <3>1. i \in 1..n
      BY <1>1, <2>2
    <3> QED
      BY <1>8, <2>2, <3>1
  <2> QED
    BY <2>1, <2>2
<1>10. f = [i \in 0..n |-> f[i]]
  BY <1>6
<1>11. IsPart(n, entries, f)
  BY <1>9, <1>10 DEF IsPart
<1>12. PartSteps(n, entries, f)
  BY <1>6, <1>7, <1>8 DEF PartSteps
<1> QED
  BY <1>11, <1>12

\* encode_entries is the last of them.
LEMMA EntriesBytes ==
  ASSUME NEW n, NEW entries, Entries(n, entries)
  PROVE  \E part : PartSteps(n, entries, part) /\ encode_entries(n, entries) = part[n]
<1>1. n \in Nat
  BY EncodingAssumption DEF Entries
<1>2. PICK p : p = CHOOSE q : IsPart(n, entries, q)
  OBVIOUS
<1>3. PICK part : IsPart(n, entries, part) /\ PartSteps(n, entries, part)
  BY PartExists
<1>4. IsPart(n, entries, p)
  BY <1>2, <1>3, Zenon
<1>5. encode_entries(n, entries) = p[n]
  BY <1>2, Zenon DEF encode_entries, IsPart
<1> DEFINE S == {i \in 0..n : p[i] = part[i]}
<1>6. 0 \in S
  BY <1>1, <1>3, <1>4 DEF IsPart
<1>7. ASSUME NEW i \in 0..(n - 1), i \in S
      PROVE  i + 1 \in S
  <2>1. i + 1 \in 0..n /\ i + 1 # 0 /\ (i + 1) - 1 = i
    BY <1>1
  <2>2. p[i + 1] = p[i] \o encode_entry(entries[i + 1])
    BY <1>4, <2>1 DEF IsPart
  <2>3. part[i + 1] = part[i] \o encode_entry(entries[i + 1])
    BY <1>3, <2>1 DEF IsPart
  <2> QED
    BY <1>7, <2>1, <2>2, <2>3
<1> HIDE DEF S
<1>8. n \in S
  BY <1>1, <1>6, <1>7, InductionTo
<1>9. p[n] = part[n]
  BY <1>8 DEF S
<1> QED
  BY <1>3, <1>5, <1>9

LEMMA ExtendsTransitive ==
  ASSUME NEW a \in Bytes, NEW b \in Bytes, NEW c \in Bytes, Extends(a, b), Extends(b, c)
  PROVE  Extends(a, c)
<1>1. Len(a) \in Nat /\ Len(b) \in Nat /\ Len(c) \in Nat
  BY DEF Bytes
<1>2. Len(a) <= Len(b) /\ Len(b) <= Len(c) /\ Len(a) <= Len(c)
  BY <1>1 DEF Extends
<1>3. ASSUME NEW i \in 1..Len(a)
      PROVE  c[i] = a[i]
  <2>1. i \in 1..Len(b)
    BY <1>1, <1>2
  <2> QED
    BY <2>1 DEF Extends
<1> QED
  BY <1>2, <1>3 DEF Extends

\* Each of the bodies is the start of the last.
LEMMA PartExtends ==
  ASSUME NEW n, NEW entries, Entries(n, entries), NEW part, PartSteps(n, entries, part),
         NEW i \in 0..n
  PROVE  Extends(part[i], part[n])
<1>1. n \in Nat /\ entries \in [1..n -> Entry]
  BY EncodingAssumption DEF Entries
<1>2. /\ part \in [0..n -> Bytes]
      /\ \A k \in 1..n : part[k] = part[k - 1] \o encode_entry(entries[k])
  BY DEF PartSteps
<1> DEFINE S == {k \in 0..n : i <= k => Extends(part[i], part[k])}
<1>3. \A k \in 0..n : k = i => Extends(part[i], part[k])
  BY DEF Extends
<1>4. 0 \in S
  BY <1>1, <1>3
<1>5. ASSUME NEW k \in 0..(n - 1), k \in S
      PROVE  k + 1 \in S
  <2>1. k + 1 \in 0..n /\ k \in 0..n /\ k + 1 \in 1..n /\ (k + 1) - 1 = k
    BY <1>1
  <2>2. CASE i = k + 1
    BY <1>3, <2>1, <2>2
  <2>3. CASE i <= k
    <3>1. PICK e \in Entry : e = entries[k + 1]
      BY <1>1, <2>1
    <3>2. part[k + 1] = part[k] \o encode_entry(e) /\ part[k] \in Bytes
      BY <1>2, <2>1, <3>1
    <3>3. Extends(part[k], part[k + 1])
      BY <3>2, EntryBytes
    <3>4. Extends(part[i], part[k])
      BY <1>5, <2>3
    <3>5. Extends(part[i], part[k + 1])
      BY <1>2, <2>1, <3>3, <3>4, ExtendsTransitive
    <3> QED
      BY <2>1, <3>5
  <2>4. CASE ~(i <= k + 1)
    BY <2>1, <2>4
  <2> QED
    BY <1>1, <2>1, <2>2, <2>3, <2>4
<1> HIDE DEF S
<1>6. \A k \in 0..n : k \in S
  BY <1>1, <1>4, <1>5, InductionTo
<1>7. n \in S
  BY <1>1, <1>6
<1> QED
  BY <1>1, <1>7 DEF S

\* The largest of max and the minima up to each of them.
Maxima(f, max, n, mins) ==
  /\ f \in [0..n -> Nat] /\ f[0] = max
  /\ \A i \in 1..n : f[i] = larger(f[i - 1], mins[i])

\* x is the largest of max and all the minima.
IsLargest(x, max, n, mins) ==
  /\ x \in Nat /\ x >= max
  /\ \A i \in 1..n : x >= mins[i]
  /\ x = max \/ \E i \in 1..n : x = mins[i]

LEMMA MaximaExist ==
  ASSUME NEW n \in Nat, NEW mins \in [1..n -> Nat], NEW max \in Nat
  PROVE  \E f : Maxima(f, max, n, mins)
<1>1. PICK F : F = [x \in (1..n) \X Nat |-> larger(x[2], mins[x[1]])]
  OBVIOUS
<1>2. ASSUME NEW i \in 1..n, NEW m \in Nat
      PROVE  larger(m, mins[i]) \in Nat
  BY DEF larger
<1>3. F \in [(1..n) \X Nat -> Nat]
  BY <1>1, <1>2
<1>4. PICK f \in [0..n -> Nat] : Iterates(f, max, F, n)
  BY <1>3, Iterate
<1>5. ASSUME NEW i \in 1..n
      PROVE  f[i] = larger(f[i - 1], mins[i])
  <2>1. f[i] = F[<<i, f[i - 1]>>]
    BY <1>4 DEF Iterates
  <2>2. f[i - 1] \in Nat
    BY <1>4
  <2> QED
    BY <1>1, <2>1, <2>2
<1> QED
  BY <1>4, <1>5 DEF Maxima, Iterates

LEMMA MaximaLargest ==
  ASSUME NEW n \in Nat, NEW mins \in [1..n -> Nat], NEW max \in Nat, NEW f, Maxima(f, max, n, mins)
  PROVE  IsLargest(f[n], max, n, mins)
<1>1. /\ f \in [0..n -> Nat] /\ f[0] = max
      /\ \A i \in 1..n : f[i] = larger(f[i - 1], mins[i])
  BY DEF Maxima
<1> DEFINE S == {k \in 0..n : IsLargest(f[k], max, k, mins)}
<1>2. 0 \in S
  <2>1. IsLargest(f[0], max, 0, mins)
    BY <1>1 DEF IsLargest
  <2> QED
    BY <2>1
<1>3. ASSUME NEW k \in 0..(n - 1), k \in S
      PROVE  k + 1 \in S
  <2>1. k \in Nat /\ k + 1 \in 0..n /\ k + 1 \in 1..n /\ (k + 1) - 1 = k
    OBVIOUS
  <2>2. PICK x \in Nat : x = f[k]
    BY <1>1
  <2>3. IsLargest(x, max, k, mins)
    BY <1>3, <2>2
  <2>4. PICK m \in Nat : m = mins[k + 1]
    BY <2>1
  <2>5. PICK y \in Nat : y = f[k + 1]
    BY <1>1
  <2>6. y = larger(x, m)
    BY <1>1, <2>1, <2>2, <2>4, <2>5
  <2>7. y >= x /\ y >= m /\ (y = x \/ y = m)
    BY <2>6 DEF larger
  <2>8. y >= max
    BY <2>3, <2>7 DEF IsLargest
  <2>9. ASSUME NEW i \in 1..(k + 1)
        PROVE  y >= mins[i]
    <3>1. CASE i = k + 1
      BY <2>4, <2>7, <3>1
    <3>2. CASE i # k + 1
      <4>1. i \in 1..k /\ i \in 1..n
        BY <2>1, <3>2
      <4>2. x >= mins[i] /\ mins[i] \in Nat
        BY <2>3, <4>1 DEF IsLargest
      <4> QED
        BY <2>7, <4>2
    <3> QED
      BY <3>1, <3>2
  <2>10. y = max \/ \E i \in 1..(k + 1) : y = mins[i]
    <3>1. CASE y = m
      BY <2>1, <2>4, <3>1
    <3>2. CASE y = x
      <4>1. x = max \/ \E i \in 1..k : x = mins[i]
        BY <2>3 DEF IsLargest
      <4>2. \A i \in 1..k : i \in 1..(k + 1)
        BY <2>1
      <4> QED
        BY <3>2, <4>1, <4>2
    <3> QED
      BY <2>7, <3>1, <3>2
  <2>11. IsLargest(y, max, k + 1, mins)
    BY <2>8, <2>9, <2>10 DEF IsLargest
  <2> QED
    BY <2>1, <2>5, <2>11
<1> HIDE DEF S
<1>4. \A k \in 0..n : k \in S
  BY <1>2, <1>3, InductionTo
<1>5. n \in S
  BY <1>4
<1> QED
  BY <1>5 DEF S

\* Largest finds it.
LEMMA LargestIs ==
  ASSUME NEW n \in Nat, NEW mins \in [1..n -> Nat], NEW max \in Nat,
         NEW x, IsLargest(x, max, n, mins)
  PROVE  Largest({mins[i] : i \in 1..n} \cup {max}) = x
<1> DEFINE T == {mins[i] : i \in 1..n} \cup {max}
<1>1. T \in SUBSET Nat
  OBVIOUS
<1>2. x \in T /\ \A y \in T : x >= y
  BY DEF IsLargest
<1> HIDE DEF T
<1>3. PICK z : z = CHOOSE y \in T : \A u \in T : y >= u
  OBVIOUS
<1>4. z \in T /\ \A u \in T : z >= u
  BY <1>2, <1>3, Zenon
<1>5. x \in Nat /\ z \in Nat /\ x >= z /\ z >= x
  BY <1>1, <1>2, <1>4
<1>6. z = x
  BY <1>5
<1>7. Largest(T) = z
  BY <1>3, Zenon DEF Largest
<1> QED
  BY <1>6, <1>7 DEF T

\* The minima of the entries, and what a word holds of them.
MinsOf(n, entries) == [i \in 1..n |-> entries[i].min]
WordsOf(n, entries) == [i \in 1..n |-> entries[i].min % WordValues]

LEMMA MinsType ==
  ASSUME NEW n, NEW entries, Entries(n, entries)
  PROVE  /\ n \in Nat
         /\ MinsOf(n, entries) \in [1..n -> Nat] /\ WordsOf(n, entries) \in [1..n -> Nat]
         /\ \A i \in 1..n : WordsOf(n, entries)[i] <= MinsOf(n, entries)[i]
<1>1. n \in Nat
  BY EncodingAssumption DEF Entries
<1>2. ASSUME NEW i \in 1..n
      PROVE  /\ entries[i].min \in Nat /\ entries[i].min % WordValues \in Nat
             /\ entries[i].min % WordValues <= entries[i].min
  <2>1. PICK e \in Entry : e = entries[i]
    BY DEF Entries
  <2>2. PICK m \in Nat : m = e.min
    BY EntryType
  <2>3. m % WordValues \in Nat /\ m % WordValues <= m
    <3>1. WordValues \in Nat /\ WordValues >= 2
      BY EncodingAssumption
    <3> QED
      BY <3>1
  <2> QED
    BY <2>1, <2>2, <2>3
<1> QED
  BY <1>1, <1>2 DEF MinsOf, WordsOf

\* The options that memory_section goes through.
IsSeen(body, max, count, seen) ==
  seen = [i \in 0..count.val |->
            IF i = 0 THEN Some(max, count.pos)
            ELSE Try(seen[i - 1], LAMBDA s : memory_entry(body, s))]

\* It reads back the body that the writer made: the largest minimum, up to the
\* last byte.
LEMMA MemoryReads ==
  ASSUME NEW n, NEW entries, Entries(n, entries), NEW max \in Nat,
         NEW body, body = encode_entries(n, entries)
  PROVE  /\ body \in Bytes
         /\ \E x : /\ memory_section(body, max) = Some(x, Len(body))
                   /\ IsLargest(x, max, n, WordsOf(n, entries))
<1>1. n \in Nat /\ n \in 0..(GroupValues - 1) /\ entries \in [1..n -> Entry]
  BY EncodingAssumption DEF Entries
<1>2. PICK part : PartSteps(n, entries, part) /\ body = part[n]
  BY EntriesBytes
<1>3. /\ part \in [0..n -> Bytes] /\ part[0] = encode(n, 1)
      /\ \A i \in 1..n : part[i] = part[i - 1] \o encode_entry(entries[i])
  BY <1>2 DEF PartSteps
<1>4. body \in Bytes
  BY <1>1, <1>2, <1>3
<1>5. PICK f : Maxima(f, max, n, WordsOf(n, entries))
  BY MinsType, MaximaExist
<1>6. /\ f \in [0..n -> Nat] /\ f[0] = max
      /\ \A i \in 1..n : f[i] = larger(f[i - 1], entries[i].min % WordValues)
  BY <1>5 DEF Maxima, WordsOf
<1>7. Len(part[0]) = 1
  <2>1. 1 \in 1..MaxGroups
    BY EncodingAssumption
  <2>2. Len(encode(n, 1)) = 1
    BY <1>1, <2>1, EncodeBytes
  <2> QED
    BY <1>3, <2>2
<1>8. PICK count : count = read_uleb(body, 0)
  OBVIOUS
<1>9. count = Some(n, 1)
  <2>1. Extends(part[0], body)
    BY <1>1, <1>2, PartExtends
  <2>2. /\ 1 \in 1..MaxGroups
        /\ Rest(n, 1) = 0 /\ encode(n, 1)[1] = n /\ n % WordValues = n
    BY <1>1, SmallNumber
  <2>3. 0 + 1 <= Len(body) /\ body[0 + 1] = n
    <3>1. 1 \in 1..Len(part[0])
      BY <1>7
    <3> QED
      BY <1>3, <1>7, <2>1, <2>2, <3>1 DEF Extends
  <2>4. Encoded(body, 0, n, 1)
    BY <2>2, <2>3 DEF Encoded
  <2>5. read_uleb(body, 0) = Some(n % WordValues, 0 + 1)
    BY <1>1, <1>4, <2>2, <2>3, <2>4, ReadBack
  <2> QED
    BY <1>8, <2>2, <2>5
<1>10. count.some /\ count.val = n /\ count.pos = 1
  BY <1>9, OptionFields
<1>11. ASSUME NEW i \in 1..n
       PROVE  memory_entry(body, Some(f[i - 1], Len(part[i - 1]))) = Some(f[i], Len(part[i]))
  <2>1. i \in 0..n /\ i - 1 \in 0..n
    BY <1>1
  <2>2. PICK b \in Bytes, c \in Bytes : b = part[i - 1] /\ c = part[i]
    BY <1>3, <2>1
  <2>3. PICK e \in Entry : e = entries[i] /\ Rest(e.min, e.groups) = 0
    BY <1>1 DEF Entries
  <2>4. PICK v \in Nat : v = f[i - 1]
    BY <1>6, <2>1
  <2>5. c = b \o encode_entry(e)
    BY <1>3, <2>2, <2>3
  <2>6. EntryAt(c, Len(b), e)
    BY <2>2, <2>5, EntryBytes
  <2>7. PICK k \in Nat : k = Len(b)
    BY <2>2 DEF Bytes
  <2>8. memory_entry(c, Some(v, k)) = Some(larger(v, e.min % WordValues), Len(c))
    BY <2>3, <2>6, <2>7, EntryReads
  <2>9. memory_entry(c, Some(v, k)) # None
    BY <2>8, OptionFields
  <2>10. Extends(c, body)
    BY <1>2, <2>1, <2>2, PartExtends
  <2>11. Some(v, k).pos \in Nat
    BY OptionFields
  <2>12. memory_entry(body, Some(v, k)) = memory_entry(c, Some(v, k))
    BY <1>4, <2>9, <2>10, <2>11, EntryExtends
  <2>13. f[i] = larger(v, e.min % WordValues)
    BY <1>6, <2>3, <2>4
  <2> QED
    BY <2>2, <2>4, <2>7, <2>8, <2>12, <2>13
<1>12. PICK w : w = [i \in 0..n |-> Some(f[i], Len(part[i]))]
  OBVIOUS
<1>13. ASSUME NEW i \in 1..n
       PROVE  w[i - 1].some /\ w[i] = memory_entry(body, w[i - 1])
  <2>1. i \in 0..n /\ i - 1 \in 0..n
    BY <1>1
  <2>2. w[i - 1] = Some(f[i - 1], Len(part[i - 1])) /\ w[i] = Some(f[i], Len(part[i]))
    BY <1>12, <2>1
  <2> QED
    BY <1>11, <2>2, OptionFields
<1>14. w[0] = Some(max, count.pos)
  <2>1. w[0] = Some(f[0], Len(part[0]))
    BY <1>1, <1>12
  <2> QED
    BY <1>6, <1>7, <1>10, <2>1
<1>15. ASSUME NEW i \in 0..n
       PROVE  w[i] = IF i = 0 THEN Some(max, count.pos)
                     ELSE Try(w[i - 1], LAMBDA s : memory_entry(body, s))
  <2>1. CASE i = 0
    BY <1>14, <2>1
  <2>2. CASE i # 0
    <3>1. i \in 1..n
      BY <1>1, <2>2
    <3> QED
      BY <1>13, <2>2, <3>1 DEF Try
  <2> QED
    BY <2>1, <2>2
<1>16. w = [i \in 0..n |-> w[i]]
  BY <1>12
<1>17. IsSeen(body, max, count, w)
  BY <1>10, <1>15, <1>16 DEF IsSeen
<1>18. PICK seen : seen = CHOOSE s : IsSeen(body, max, count, s)
  OBVIOUS
<1>19. IsSeen(body, max, count, seen)
  BY <1>17, <1>18, Zenon
<1>20. memory_section(body, max) = seen[count.val]
  <2>1. memory_section(body, max) =
          IF count.some THEN (CHOOSE s : IsSeen(body, max, count, s))[count.val] ELSE None
    <3>1. memory_section(body, max) =
            IF read_uleb(body, 0).some
              THEN (CHOOSE s : IsSeen(body, max, read_uleb(body, 0), s))[read_uleb(body, 0).val]
              ELSE None
      BY DEF memory_section, Try, IsSeen
    <3> QED
      BY <1>8, <3>1, Zenon
  <2> QED
    BY <1>10, <1>18, <2>1, Zenon
<1>21. \A i \in 0..n : seen[i] = IF i = 0 THEN Some(max, count.pos)
                                 ELSE Try(seen[i - 1], LAMBDA s : memory_entry(body, s))
  BY <1>10, <1>19 DEF IsSeen
<1> DEFINE S == {i \in 0..n : seen[i] = w[i]}
<1>22. 0 \in S
  <2>1. 0 \in 0..n
    BY <1>1
  <2>2. seen[0] = Some(max, count.pos)
    BY <1>21, <2>1
  <2> QED
    BY <1>14, <2>1, <2>2
<1>23. ASSUME NEW i \in 0..(n - 1), i \in S
       PROVE  i + 1 \in S
  <2>1. i + 1 \in 0..n /\ i + 1 # 0 /\ (i + 1) - 1 = i /\ i + 1 \in 1..n
    BY <1>1
  <2>2. seen[i + 1] = Try(seen[i], LAMBDA s : memory_entry(body, s))
    BY <1>21, <2>1
  <2>3. w[i].some /\ w[i + 1] = memory_entry(body, w[i])
    BY <1>13, <2>1
  <2>4. seen[i] = w[i]
    BY <1>23
  <2>5. seen[i + 1] = w[i + 1]
    BY <2>2, <2>3, <2>4 DEF Try
  <2> QED
    BY <2>1, <2>5
<1> HIDE DEF S
<1>24. \A i \in 0..n : i \in S
  BY <1>1, <1>22, <1>23, InductionTo
<1>25. n \in S
  BY <1>1, <1>24
<1>26. seen[n] = Some(f[n], Len(body))
  BY <1>1, <1>2, <1>12, <1>25 DEF S
<1>27. memory_section(body, max) = Some(f[n], Len(body))
  BY <1>10, <1>20, <1>26
<1>28. IsLargest(f[n], max, n, WordsOf(n, entries))
  BY <1>5, MinsType, MaximaLargest
<1> QED
  BY <1>4, <1>27, <1>28

-----------------------------------------------------------------------------
(***************************************************************************)
(* Sections.                                                               *)
(***************************************************************************)

LEMMA SameBytes ==
  ASSUME NEW s \in Bytes, NEW t \in Bytes, Len(s) = Len(t), \A i \in 1..Len(s) : s[i] = t[i]
  PROVE  s = t
<1>1. s \in Seq(Nat) /\ t \in Seq(Nat)
  BY DEF Bytes
<1> QED
  BY <1>1, SeqEqual

\* r is the l bytes of s from p on.
IsSlice(r, s, p, l) ==
  /\ r \in Bytes /\ Len(r) = l
  /\ \A i \in 1..l : r[i] = s[p + i]

LEMMA Slice ==
  ASSUME NEW s \in Bytes, NEW p \in Nat, NEW l \in Nat, p + l <= Len(s)
  PROVE  IsSlice(SubSeq(s, p + 1, p + l), s, p, l)
<1>1. Len(s) \in Nat /\ p + 1 \in Int /\ p + l \in Int
  BY DEF Bytes
<1>2. ASSUME NEW i \in (p + 1)..(p + l)
      PROVE  s[i] \in Nat
  <2>1. i \in 1..Len(s)
    BY <1>1
  <2> QED
    BY <2>1 DEF Bytes
<1>3. PICK r : r = SubSeq(s, p + 1, p + l)
  OBVIOUS
<1>4. /\ r \in Seq(Nat)
      /\ Len(r) = IF p + 1 <= p + l THEN (p + l) - (p + 1) + 1 ELSE 0
      /\ \A i \in 1..((p + l) - (p + 1) + 1) : r[i] = s[(p + 1) + i - 1]
  BY <1>1, <1>2, <1>3, SubSeqProperties
<1>5. Len(r) = l
  BY <1>4
<1>6. ASSUME NEW i \in 1..l
      PROVE  r[i] = s[p + i]
  <2>1. i \in 1..((p + l) - (p + 1) + 1) /\ (p + 1) + i - 1 = p + i
    OBVIOUS
  <2> QED
    BY <1>4, <2>1
<1> QED
  BY <1>3, <1>4, <1>5, <1>6 DEF IsSlice, Bytes

LEMMA SliceUnique ==
  ASSUME NEW r, NEW q, NEW s, NEW p, NEW l \in Nat, IsSlice(r, s, p, l), IsSlice(q, s, p, l)
  PROVE  r = q
BY SameBytes DEF IsSlice

\* section reads a length and takes a body.
LEMMA SectionSteps ==
  ASSUME NEW w, NEW s, NEW len, len = read_uleb(w, s.pos + 1),
         NEW body, body = section_body(w, len.pos, len.val),
         NEW max, max = IF w[s.pos + 1] = MemorySection THEN memory_section(body.val, s.val) ELSE s
  PROVE  section(w, s) = IF len.some /\ body.some /\ max.some
                           THEN Some(max.val, body.pos) ELSE None
BY DEF section, Try

\* More bytes at the end change no section that was read.
LEMMA SectionExtends ==
  ASSUME NEW b \in Bytes, NEW c \in Bytes, Extends(b, c),
         NEW s, s.pos \in Nat, s.pos < Len(b), section(b, s) # None
  PROVE  section(c, s) = section(b, s)
<1>1. PICK len : len = read_uleb(b, s.pos + 1)
  OBVIOUS
<1>2. PICK body : body = section_body(b, len.pos, len.val)
  OBVIOUS
<1>3. PICK max : max = IF b[s.pos + 1] = MemorySection THEN memory_section(body.val, s.val) ELSE s
  OBVIOUS
<1>4. section(b, s) = IF len.some /\ body.some /\ max.some
                        THEN Some(max.val, body.pos) ELSE None
  BY <1>1, <1>2, <1>3, SectionSteps
<1>5. len.some /\ body.some /\ max.some
  BY <1>4
<1>6. Len(b) \in Nat /\ Len(c) \in Nat /\ Len(b) <= Len(c) /\ s.pos + 1 \in Nat
  BY DEF Extends, Bytes
<1>7. len # None /\ len.pos \in Nat /\ len.val \in Nat
  BY <1>1, <1>5, <1>6, ReadIsOption, OptionCases
<1>8. len = read_uleb(c, s.pos + 1)
  BY <1>1, <1>6, <1>7, ReadExtends
<1>9. PICK p \in Nat, l \in Nat : p = len.pos /\ l = len.val
  BY <1>7
<1>10. p + l <= Len(b) /\ body = Some(SubSeq(b, p + 1, p + l), p + l)
  <2>1. body = IF p + l <= Len(b) THEN Some(SubSeq(b, p + 1, p + l), p + l) ELSE None
    BY <1>2, <1>9 DEF section_body
  <2> QED
    BY <1>5, <2>1, OptionFields
<1>11. SubSeq(c, p + 1, p + l) = SubSeq(b, p + 1, p + l)
  <2>1. p + l <= Len(c)
    BY <1>6, <1>10
  <2>2. IsSlice(SubSeq(b, p + 1, p + l), b, p, l)
    BY <1>10, Slice
  <2>3. IsSlice(SubSeq(c, p + 1, p + l), c, p, l)
    BY <2>1, Slice
  <2>4. ASSUME NEW i \in 1..l
        PROVE  c[p + i] = b[p + i]
    <3>1. p + i \in 1..Len(b)
      BY <1>6, <1>10
    <3> QED
      BY <3>1 DEF Extends
  <2>5. IsSlice(SubSeq(b, p + 1, p + l), c, p, l)
    BY <2>2, <2>4 DEF IsSlice
  <2> QED
    BY <2>3, <2>5, SliceUnique
<1>12. body = section_body(c, len.pos, len.val)
  <2>1. p + l <= Len(c)
    BY <1>6, <1>10
  <2> QED
    BY <1>9, <1>10, <1>11, <2>1 DEF section_body
<1>13. c[s.pos + 1] = b[s.pos + 1]
  <2>1. s.pos + 1 \in 1..Len(b)
    BY <1>6
  <2> QED
    BY <2>1 DEF Extends
<1>14. max = IF c[s.pos + 1] = MemorySection THEN memory_section(body.val, s.val) ELSE s
  BY <1>3, <1>13
<1>15. section(c, s) = IF len.some /\ body.some /\ max.some
                         THEN Some(max.val, body.pos) ELSE None
  BY <1>8, <1>12, <1>14, SectionSteps
<1> QED
  BY <1>4, <1>15

\* The bytes of a section with a length of k groups, after n others.
SectionAt(c, n, id, k, body) ==
  /\ c \in Bytes
  /\ Len(c) = n + 1 + k + Len(body)
  /\ c[n + 1] = id
  /\ Encoded(c, n + 1, Len(body), k)
  /\ \A i \in 1..Len(body) : c[((n + 1) + k) + i] = body[i]

LEMMA SectionBytes ==
  ASSUME NEW w \in Bytes, NEW id \in Nat, NEW body \in Bytes, NEW k \in 1..MaxGroups,
         NEW c, c = w \o Section(id, body, encode(Len(body), k))
  PROVE  SectionAt(c, Len(w), id, k, body) /\ Extends(w, c)
<1>1. PICK n \in Nat, l \in Nat : n = Len(w) /\ l = Len(body)
  BY DEF Bytes
<1>2. k \in Nat /\ k >= 1
  BY EncodingAssumption
<1>3. PICK first : first = <<id>>
  OBVIOUS
<1>4. first \in Bytes /\ Len(first) = 1 /\ first[1] = id
  BY <1>3 DEF Bytes
<1>5. PICK len : len = encode(l, k)
  OBVIOUS
<1>6. len \in Bytes /\ Len(len) = k
  BY <1>5, EncodeBytes
<1>7. PICK head : head = first \o len
  OBVIOUS
<1>8. IsJoined(head, first, len)
  BY <1>4, <1>6, <1>7, Joined
<1>9. head \in Bytes
  BY <1>8 DEF IsJoined
<1>10. PICK all : all = head \o body
  OBVIOUS
<1>11. IsJoined(all, head, body)
  BY <1>9, <1>10, Joined
<1>12. all \in Bytes
  BY <1>11 DEF IsJoined
<1>13. c = w \o all
  BY <1>1, <1>3, <1>5, <1>7, <1>10, Zenon DEF Section
<1>14. IsJoined(c, w, all)
  BY <1>12, <1>13, Joined
<1>15. /\ c \in Bytes /\ Len(all) \in Nat /\ Len(c) = n + Len(all)
       /\ \A i \in 1..n : c[i] = w[i]
       /\ \A i \in 1..Len(all) : c[n + i] = all[i]
  BY <1>1, <1>14 DEF IsJoined
<1>16. Len(head) = 1 + k /\ Len(all) = 1 + k + l
  BY <1>1, <1>4, <1>6, <1>8, <1>11 DEF IsJoined
<1>17. c[n + 1] = id
  <2>1. 1 \in 1..Len(first) /\ 1 \in 1..Len(head) /\ 1 \in 1..Len(all)
    BY <1>1, <1>2, <1>4, <1>16
  <2>2. head[1] = first[1]
    BY <1>8, <2>1 DEF IsJoined
  <2>3. all[1] = head[1]
    BY <1>11, <2>1 DEF IsJoined
  <2> QED
    BY <1>4, <1>15, <2>1, <2>2, <2>3
<1>18. ASSUME NEW i \in 1..k
       PROVE  c[(n + 1) + i] = len[i]
  <2>1. PICK j : j = 1 + i
    OBVIOUS
  <2>2. j \in 1..Len(head) /\ j \in 1..Len(all) /\ (n + 1) + i = n + j
    BY <1>1, <1>2, <1>16, <2>1
  <2>3. head[j] = len[i]
    BY <1>4, <1>6, <1>8, <2>1 DEF IsJoined
  <2>4. all[j] = head[j]
    BY <1>11, <2>2 DEF IsJoined
  <2>5. c[n + j] = all[j]
    BY <1>15, <2>2
  <2> QED
    BY <2>2, <2>3, <2>4, <2>5
<1>19. ASSUME NEW i \in 1..l
       PROVE  c[((n + 1) + k) + i] = body[i]
  <2>1. PICK j : j = (1 + k) + i
    OBVIOUS
  <2>2. j \in 1..Len(all) /\ ((n + 1) + k) + i = n + j
    BY <1>1, <1>2, <1>16, <2>1
  <2>3. all[j] = body[i]
    BY <1>1, <1>11, <1>16, <2>1 DEF IsJoined
  <2>4. c[n + j] = all[j]
    BY <1>15, <2>2
  <2> QED
    BY <2>2, <2>3, <2>4
<1>20. Encoded(c, n + 1, l, k)
  BY <1>5, <1>18 DEF Encoded
<1>21. Len(c) = n + 1 + k + l
  BY <1>1, <1>2, <1>15, <1>16
<1>22. SectionAt(c, n, id, k, body)
  BY <1>1, <1>15, <1>17, <1>19, <1>20, <1>21 DEF SectionAt
<1>23. Extends(w, c)
  BY <1>1, <1>15, <1>16, <1>2 DEF Extends
<1> QED
  BY <1>1, <1>22, <1>23

\* A length that fits its word is read back.
LEMMA LengthReads ==
  ASSUME NEW n \in Nat, NEW id \in Nat, NEW body \in Bytes, NEW k \in 1..MaxGroups,
         NEW c, SectionAt(c, n, id, k, body), NEW d \in Bytes, Extends(d, c), n < Len(d),
         Len(body) < WordValues, Rest(Len(body), k) = 0
  PROVE  /\ d[n + 1] = id
         /\ Len(d) < (n + 1) + k => read_uleb(d, n + 1) = None
         /\ (n + 1) + k <= Len(d) => read_uleb(d, n + 1) = Some(Len(body), (n + 1) + k)
<1>1. PICK l \in Nat : l = Len(body)
  BY DEF Bytes
<1>2. k \in Nat /\ Len(d) \in Nat /\ n + 1 \in Nat /\ Len(d) <= Len(c)
  BY EncodingAssumption DEF Bytes, Extends
<1>3. \A i \in 1..Len(d) : d[i] = c[i]
  BY DEF Extends
<1>4. d[n + 1] = id
  <2>1. n + 1 \in 1..Len(d)
    BY <1>2
  <2> QED
    BY <1>3, <2>1 DEF SectionAt
<1>5. Encoded(d, n + 1, l, k)
  <2>1. ASSUME NEW i \in 1..k, (n + 1) + i <= Len(d)
        PROVE  d[(n + 1) + i] = encode(l, k)[i]
    <3>1. (n + 1) + i \in 1..Len(d) /\ (n + 1) + i <= Len(c) /\ Len(c) \in Nat
      BY <1>2, <2>1 DEF SectionAt, Bytes
    <3>2. c[(n + 1) + i] = encode(l, k)[i]
      BY <1>1, <3>1 DEF SectionAt, Encoded
    <3> QED
      BY <1>3, <3>1, <3>2
  <2> QED
    BY <2>1 DEF Encoded
<1>6. l % WordValues = l
  BY <1>1, EncodingAssumption
<1>7. Len(d) < (n + 1) + k => read_uleb(d, n + 1) = None
  BY <1>2, <1>5, ReadCut
<1>8. (n + 1) + k <= Len(d) => read_uleb(d, n + 1) = Some(l % WordValues, (n + 1) + k)
  BY <1>1, <1>2, <1>5, ReadBack
<1> QED
  BY <1>1, <1>4, <1>6, <1>7, <1>8

\* A section that is cut is not read.
LEMMA SectionCut ==
  ASSUME NEW n \in Nat, NEW id \in Nat, NEW body \in Bytes, NEW k \in 1..MaxGroups,
         NEW c, SectionAt(c, n, id, k, body), NEW d \in Bytes, Extends(d, c), n < Len(d), Len(d) < Len(c),
         Len(body) < WordValues, Rest(Len(body), k) = 0, NEW v
  PROVE  section(d, Some(v, n)) = None
<1>1. PICK s : s = Some(v, n)
  OBVIOUS
<1>2. s.pos = n
  BY <1>1, OptionFields
<1>3. PICK len : len = read_uleb(d, s.pos + 1)
  OBVIOUS
<1>4. PICK rest : rest = section_body(d, len.pos, len.val)
  OBVIOUS
<1>5. PICK max : max = IF d[s.pos + 1] = MemorySection THEN memory_section(rest.val, s.val) ELSE s
  OBVIOUS
<1>6. section(d, s) = IF len.some /\ rest.some /\ max.some
                        THEN Some(max.val, rest.pos) ELSE None
  BY <1>3, <1>4, <1>5, SectionSteps
<1>7. k \in Nat /\ Len(d) \in Nat /\ Len(body) \in Nat
  BY EncodingAssumption DEF Bytes
<1>8. CASE Len(d) < (n + 1) + k
  <2>1. len = None
    BY <1>2, <1>3, <1>8, LengthReads
  <2>2. ~len.some
    BY <2>1, OptionFields
  <2> QED
    BY <1>1, <1>6, <2>2
<1>9. CASE (n + 1) + k <= Len(d)
  <2>1. len = Some(Len(body), (n + 1) + k)
    BY <1>2, <1>3, <1>9, LengthReads
  <2>2. len.val = Len(body) /\ len.pos = (n + 1) + k
    BY <2>1, OptionFields
  <2>3. ~(len.pos + len.val <= Len(d))
    BY <1>7, <2>2 DEF SectionAt
  <2>4. rest = None
    BY <1>4, <2>3 DEF section_body
  <2>5. ~rest.some
    BY <2>4, OptionFields
  <2> QED
    BY <1>1, <1>6, <2>5
<1> QED
  BY <1>7, <1>8, <1>9

\* A whole section is read: its body, if it is one of memories.
LEMMA SectionReads ==
  ASSUME NEW n \in Nat, NEW id \in Nat, NEW body \in Bytes, NEW k \in 1..MaxGroups,
         NEW c, SectionAt(c, n, id, k, body),
         Len(body) < WordValues, Rest(Len(body), k) = 0, NEW v, NEW x, NEW end,
         id = MemorySection => memory_section(body, v) = Some(x, end),
         id # MemorySection => x = v
  PROVE  section(c, Some(v, n)) = Some(x, Len(c))
<1>1. PICK s : s = Some(v, n)
  OBVIOUS
<1>2. s.some /\ s.val = v /\ s.pos = n
  BY <1>1, OptionFields
<1>3. PICK len : len = read_uleb(c, s.pos + 1)
  OBVIOUS
<1>4. PICK rest : rest = section_body(c, len.pos, len.val)
  OBVIOUS
<1>5. PICK max : max = IF c[s.pos + 1] = MemorySection THEN memory_section(rest.val, s.val) ELSE s
  OBVIOUS
<1>6. section(c, s) = IF len.some /\ rest.some /\ max.some
                        THEN Some(max.val, rest.pos) ELSE None
  BY <1>3, <1>4, <1>5, SectionSteps
<1>7. PICK l \in Nat : l = Len(body) /\ k \in Nat
  BY EncodingAssumption DEF Bytes
<1>8. c \in Bytes /\ Len(c) = n + 1 + k + l
  BY <1>7 DEF SectionAt
<1>9. Extends(c, c) /\ n < Len(c) /\ (n + 1) + k <= Len(c)
  BY <1>7, <1>8 DEF Extends
<1>10. len = Some(l, (n + 1) + k) /\ c[n + 1] = id
  BY <1>2, <1>3, <1>7, <1>8, <1>9, LengthReads
<1>11. len.some /\ len.val = l /\ len.pos = (n + 1) + k
  BY <1>10, OptionFields
<1>12. PICK p \in Nat : p = (n + 1) + k
  BY <1>7
<1>13. p + l <= Len(c) /\ p + l = Len(c)
  BY <1>7, <1>8, <1>12
<1>14. SubSeq(c, p + 1, p + l) = body
  <2>1. IsSlice(SubSeq(c, p + 1, p + l), c, p, l)
    BY <1>7, <1>8, <1>12, <1>13, Slice
  <2>2. IsSlice(body, c, p, l)
    BY <1>7, <1>12 DEF IsSlice, SectionAt
  <2> QED
    BY <1>7, <2>1, <2>2, SliceUnique
<1>15. rest = Some(body, Len(c))
  BY <1>4, <1>11, <1>12, <1>13, <1>14 DEF section_body
<1>16. rest.some /\ rest.val = body /\ rest.pos = Len(c)
  BY <1>15, OptionFields
<1>17. max.some /\ max.val = x
  <2>1. CASE id = MemorySection
    <3>1. max = Some(x, end)
      BY <1>2, <1>5, <1>10, <1>16, <2>1
    <3> QED
      BY <3>1, OptionFields
  <2>2. CASE id # MemorySection
    <3>1. max = s
      BY <1>2, <1>5, <1>10, <2>2
    <3> QED
      BY <1>2, <2>2, <3>1
  <2> QED
    BY <2>1, <2>2
<1> QED
  BY <1>1, <1>6, <1>11, <1>16, <1>17

-----------------------------------------------------------------------------
(***************************************************************************)
(* The loop over the sections.                                             *)
(***************************************************************************)

\* The first m rounds of the loop: the largest minimum and the position after
\* each of them.
Rounds(w, m, val, pos) ==
  /\ m \in Nat /\ val \in [0..m -> Nat] /\ pos \in [0..m -> Nat]
  /\ val[0] = 0 /\ pos[0] = Len(Header)
  /\ \A i \in 0..m : pos[i] <= Len(w)
  /\ \A i \in 1..m : /\ pos[i - 1] < pos[i]
                     /\ section(w, Some(val[i - 1], pos[i - 1])) = Some(val[i], pos[i])

\* All of w is read, with v as the largest minimum.
Parsed(w, v) ==
  \E m, val, pos : Rounds(w, m, val, pos) /\ val[m] = v /\ pos[m] = Len(w)

\* A section of w is not.
Broken(w) ==
  \E m, val, pos : /\ Rounds(w, m, val, pos) /\ pos[m] < Len(w)
                   /\ section(w, Some(val[m], pos[m])) = None

\* There are no more rounds than bytes.
LEMMA RoundsBound ==
  ASSUME NEW w \in Bytes, NEW m, NEW val, NEW pos, Rounds(w, m, val, pos)
  PROVE  m <= pos[m]
<1>1. /\ m \in Nat /\ pos \in [0..m -> Nat]
      /\ \A i \in 1..m : pos[i - 1] < pos[i]
  BY DEF Rounds
<1> DEFINE S == {i \in 0..m : i <= pos[i]}
<1>2. 0 \in S
  BY <1>1
<1>3. ASSUME NEW i \in 0..(m - 1), i \in S
      PROVE  i + 1 \in S
  <2>1. i + 1 \in 1..m /\ i + 1 \in 0..m /\ i \in 0..m /\ (i + 1) - 1 = i
    BY <1>1
  <2>2. pos[i] < pos[i + 1] /\ pos[i] \in Nat /\ pos[i + 1] \in Nat /\ i <= pos[i]
    BY <1>1, <1>3, <2>1
  <2> QED
    BY <2>1, <2>2
<1> HIDE DEF S
<1>4. \A i \in 0..m : i \in S
  BY <1>1, <1>2, <1>3, InductionTo
<1>5. m \in S
  BY <1>1, <1>4
<1> QED
  BY <1>5 DEF S

\* The loop of declared_pages.
Round(w, o) == Try(o, LAMBDA s : IF s.pos < Len(w) THEN section(w, s) ELSE s)
IsLoop(w, seen) ==
  seen = [k \in 0..Len(w) |-> IF k = 0 THEN Some(0, Len(Header)) ELSE Round(w, seen[k - 1])]

LEMMA LoopIs ==
  ASSUME NEW w \in Bytes, IsPrefix(Header, w), NEW f, DOMAIN f = 0..Len(w),
         f = [k \in 0..Len(w) |-> f[k]],
         f[0] = Some(0, Len(Header)), \A k \in 1..Len(w) : f[k] = Round(w, f[k - 1])
  PROVE  declared_pages(w) = f[Len(w)]
<1>1. PICK n \in Nat : n = Len(w)
  BY DEF Bytes
<1>2. ASSUME NEW k \in 0..n
      PROVE  f[k] = IF k = 0 THEN Some(0, Len(Header)) ELSE Round(w, f[k - 1])
  <2>1. CASE k = 0
    BY <2>1
  <2>2. CASE k # 0
    <3>1. k \in 1..n
      BY <1>1, <2>2
    <3> QED
      BY <1>1, <2>2, <3>1
  <2> QED
    BY <2>1, <2>2
<1>3. IsLoop(w, f)
  BY <1>1, <1>2 DEF IsLoop
<1>4. PICK seen : seen = CHOOSE s : IsLoop(w, s)
  OBVIOUS
<1>5. IsLoop(w, seen)
  BY <1>3, <1>4, Zenon
<1>6. declared_pages(w) = seen[Len(w)]
  <2>1. declared_pages(w) =
          IF IsPrefix(Header, w) THEN (CHOOSE s : IsLoop(w, s))[Len(w)] ELSE None
    BY DEF declared_pages, Try, IsLoop, Round
  <2> QED
    BY <1>4, <2>1, Zenon
<1>7. \A k \in 0..n : seen[k] = IF k = 0 THEN Some(0, Len(Header)) ELSE Round(w, seen[k - 1])
  BY <1>1, <1>5 DEF IsLoop
<1> DEFINE S == {k \in 0..n : seen[k] = f[k]}
<1>8. 0 \in S
  <2>1. 0 \in 0..n
    BY <1>1
  <2>2. seen[0] = Some(0, Len(Header))
    BY <1>7, <2>1
  <2> QED
    BY <2>1, <2>2
<1>9. ASSUME NEW k \in 0..(n - 1), k \in S
      PROVE  k + 1 \in S
  <2>1. k + 1 \in 0..n /\ k + 1 # 0 /\ (k + 1) - 1 = k
    BY <1>1
  <2>2. seen[k + 1] = Round(w, seen[k])
    BY <1>7, <2>1
  <2>3. f[k + 1] = Round(w, f[k])
    BY <1>2, <2>1
  <2> QED
    BY <1>9, <2>1, <2>2, <2>3
<1> HIDE DEF S
<1>10. \A k \in 0..n : k \in S
  BY <1>1, <1>8, <1>9, InductionTo
<1>11. n \in S
  BY <1>1, <1>10
<1>12. seen[n] = f[n]
  BY <1>11 DEF S
<1> QED
  BY <1>1, <1>6, <1>12

\* Its rounds, and then what it ends with.
LEMMA LoopEnds ==
  ASSUME NEW w \in Bytes, IsPrefix(Header, w), NEW m, NEW val, NEW pos, Rounds(w, m, val, pos),
         m <= Len(w), NEW end, m < Len(w) => end = Round(w, Some(val[m], pos[m])),
         end = Round(w, end)
  PROVE  declared_pages(w) = IF m < Len(w) THEN end ELSE Some(val[m], pos[m])
<1>1. PICK n \in Nat : n = Len(w)
  BY DEF Bytes
<1>2. /\ m \in Nat /\ val \in [0..m -> Nat] /\ pos \in [0..m -> Nat]
      /\ val[0] = 0 /\ pos[0] = Len(Header)
      /\ \A i \in 0..m : pos[i] <= Len(w)
      /\ \A i \in 1..m : /\ pos[i - 1] < pos[i]
                         /\ section(w, Some(val[i - 1], pos[i - 1])) = Some(val[i], pos[i])
  BY DEF Rounds
<1>3. PICK f : f = [k \in 0..n |-> IF k <= m THEN Some(val[k], pos[k]) ELSE end]
  OBVIOUS
<1>4. f[0] = Some(0, Len(Header))
  BY <1>1, <1>2, <1>3
<1>5. ASSUME NEW k \in 1..n
      PROVE  f[k] = Round(w, f[k - 1])
  <2>1. k \in 0..n /\ k - 1 \in 0..n
    BY <1>1
  <2>2. CASE k <= m
    <3>1. k \in 1..m /\ k - 1 \in 0..m /\ k \in 0..m /\ k - 1 <= m
      BY <1>1, <1>2, <2>2
    <3>2. PICK s : s = Some(val[k - 1], pos[k - 1])
      OBVIOUS
    <3>3. f[k - 1] = s /\ f[k] = Some(val[k], pos[k])
      BY <1>3, <2>1, <2>2, <3>1, <3>2
    <3>4. s.some /\ s.pos = pos[k - 1]
      BY <3>2, OptionFields
    <3>5. s.pos < Len(w)
      <4>1. pos[k - 1] \in Nat /\ pos[k] \in Nat /\ pos[k - 1] < pos[k] /\ pos[k] <= n
        BY <1>1, <1>2, <3>1
      <4> QED
        BY <1>1, <3>4, <4>1
    <3>6. Round(w, s) = section(w, s)
      BY <3>4, <3>5 DEF Round, Try
    <3>7. section(w, s) = Some(val[k], pos[k])
      BY <1>2, <3>1, <3>2
    <3> QED
      BY <3>3, <3>6, <3>7
  <2>3. CASE k = m + 1
    <3>1. ~(k <= m) /\ k - 1 = m /\ k - 1 <= m /\ m < Len(w)
      BY <1>1, <1>2, <2>3
    <3>2. f[k - 1] = Some(val[m], pos[m]) /\ f[k] = end
      BY <1>3, <2>1, <3>1
    <3> QED
      BY <3>1, <3>2
  <2>4. CASE ~(k <= m + 1)
    <3>1. ~(k <= m) /\ ~(k - 1 <= m)
      BY <1>1, <1>2, <2>4
    <3>2. f[k - 1] = end /\ f[k] = end
      BY <1>3, <2>1, <3>1
    <3> QED
      BY <3>2
  <2> QED
    BY <1>1, <1>2, <2>2, <2>3, <2>4
<1>6. DOMAIN f = 0..n /\ f = [k \in 0..n |-> f[k]]
  BY <1>3
<1>7. declared_pages(w) = f[n]
  BY <1>1, <1>4, <1>5, <1>6, LoopIs
<1>8. f[n] = IF n <= m THEN Some(val[n], pos[n]) ELSE end
  BY <1>1, <1>3
<1>9. CASE m < n
  <2>1. ~(n <= m)
    BY <1>1, <1>2, <1>9
  <2> QED
    BY <1>1, <1>7, <1>8, <1>9, <2>1
<1>10. CASE m = n
  BY <1>1, <1>7, <1>8, <1>10
<1> QED
  BY <1>1, <1>2, <1>9, <1>10

\* What declared_pages says of a binary that is read, and of one that is not.
LEMMA ParsedPages ==
  ASSUME NEW w \in Bytes, IsPrefix(Header, w), NEW v, Parsed(w, v)
  PROVE  v \in Nat /\ declared_pages(w) = Some(v, Len(w))
<1>1. PICK m, val, pos : Rounds(w, m, val, pos) /\ val[m] = v /\ pos[m] = Len(w)
  BY DEF Parsed
<1>2. m <= Len(w)
  BY <1>1, RoundsBound
<1>3. m \in Nat /\ v \in Nat
  BY <1>1 DEF Rounds
<1>4. PICK end : end = Some(v, Len(w))
  OBVIOUS
<1>5. end.some /\ end.pos = Len(w)
  BY <1>4, OptionFields
<1>6. Len(w) \in Nat
  BY DEF Bytes
<1>7. Round(w, end) = end
  BY <1>5, <1>6 DEF Round, Try
<1>8. Some(val[m], pos[m]) = end
  BY <1>1, <1>4
<1>9. declared_pages(w) = IF m < Len(w) THEN end ELSE Some(val[m], pos[m])
  BY <1>1, <1>2, <1>7, <1>8, LoopEnds
<1> QED
  BY <1>3, <1>4, <1>8, <1>9

LEMMA BrokenPages ==
  ASSUME NEW w \in Bytes, IsPrefix(Header, w), Broken(w)
  PROVE  declared_pages(w) = None
<1>1. PICK m, val, pos : /\ Rounds(w, m, val, pos) /\ pos[m] < Len(w)
                         /\ section(w, Some(val[m], pos[m])) = None
  BY DEF Broken
<1>2. m <= pos[m]
  BY <1>1, RoundsBound
<1>3. m \in Nat /\ pos[m] \in Nat /\ Len(w) \in Nat
  BY <1>1 DEF Rounds, Bytes
<1>4. m < Len(w) /\ m <= Len(w)
  BY <1>1, <1>2, <1>3
<1>5. PICK s : s = Some(val[m], pos[m])
  OBVIOUS
<1>6. s.some /\ s.pos = pos[m]
  BY <1>5, OptionFields
<1>7. Round(w, s) = None
  BY <1>1, <1>5, <1>6 DEF Round, Try
<1>8. Round(w, None) = None
  BY OptionFields DEF Round, Try
<1>9. declared_pages(w) = IF m < Len(w) THEN None ELSE Some(val[m], pos[m])
  BY <1>1, <1>4, <1>5, <1>7, <1>8, LoopEnds
<1> QED
  BY <1>4, <1>9

\* More bytes at the end change no round.
LEMMA RoundsExtend ==
  ASSUME NEW w \in Bytes, NEW c \in Bytes, Extends(w, c), NEW m, NEW val, NEW pos,
         Rounds(w, m, val, pos)
  PROVE  Rounds(c, m, val, pos)
<1>1. /\ m \in Nat /\ val \in [0..m -> Nat] /\ pos \in [0..m -> Nat]
      /\ val[0] = 0 /\ pos[0] = Len(Header)
      /\ \A i \in 0..m : pos[i] <= Len(w)
      /\ \A i \in 1..m : /\ pos[i - 1] < pos[i]
                         /\ section(w, Some(val[i - 1], pos[i - 1])) = Some(val[i], pos[i])
  BY DEF Rounds
<1>2. Len(w) \in Nat /\ Len(c) \in Nat /\ Len(w) <= Len(c)
  BY DEF Extends, Bytes
<1>3. \A i \in 0..m : pos[i] <= Len(c)
  BY <1>1, <1>2
<1>4. ASSUME NEW i \in 1..m
      PROVE  section(c, Some(val[i - 1], pos[i - 1])) = Some(val[i], pos[i])
  <2>1. i \in 0..m /\ i - 1 \in 0..m
    BY <1>1
  <2>2. PICK s : s = Some(val[i - 1], pos[i - 1])
    OBVIOUS
  <2>3. s.pos = pos[i - 1] /\ pos[i - 1] \in Nat /\ pos[i] \in Nat /\ pos[i - 1] < pos[i] /\ pos[i] <= Len(w)
    BY <1>1, <2>1, <2>2, OptionFields
  <2>4. s.pos \in Nat /\ s.pos < Len(w)
    BY <1>2, <2>3
  <2>5. section(w, s) = Some(val[i], pos[i])
    BY <1>1, <2>2
  <2>6. section(w, s) # None
    BY <2>5, OptionFields
  <2>7. section(c, s) = section(w, s)
    BY <2>4, <2>6, SectionExtends
  <2> QED
    BY <2>2, <2>5, <2>7
<1> QED
  BY <1>1, <1>3, <1>4 DEF Rounds

\* One section more is read, or is not.
LEMMA ParsedMore ==
  ASSUME NEW w \in Bytes, NEW c \in Bytes, Extends(w, c), Len(w) < Len(c), NEW v, Parsed(w, v),
         NEW x \in Nat, section(c, Some(v, Len(w))) = Some(x, Len(c))
  PROVE  Parsed(c, x)
<1>1. PICK m, val, pos : Rounds(w, m, val, pos) /\ val[m] = v /\ pos[m] = Len(w)
  BY DEF Parsed
<1>2. Rounds(c, m, val, pos)
  BY <1>1, RoundsExtend
<1>3. /\ m \in Nat /\ val \in [0..m -> Nat] /\ pos \in [0..m -> Nat]
      /\ val[0] = 0 /\ pos[0] = Len(Header)
      /\ \A i \in 0..m : pos[i] <= Len(c)
      /\ \A i \in 1..m : /\ pos[i - 1] < pos[i]
                         /\ section(c, Some(val[i - 1], pos[i - 1])) = Some(val[i], pos[i])
  BY <1>2 DEF Rounds
<1>4. PICK l \in Nat : l = Len(c)
  BY DEF Bytes
<1>5. PICK vals : vals = [i \in 0..(m + 1) |-> IF i = m + 1 THEN x ELSE val[i]]
  OBVIOUS
<1>6. PICK poss : poss = [i \in 0..(m + 1) |-> IF i = m + 1 THEN l ELSE pos[i]]
  OBVIOUS
<1>7. vals \in [0..(m + 1) -> Nat] /\ vals[0] = 0 /\ vals[m + 1] = x
  BY <1>3, <1>5
<1>8. poss \in [0..(m + 1) -> Nat] /\ poss[0] = Len(Header) /\ poss[m + 1] = l
  BY <1>3, <1>4, <1>6
<1>9. \A i \in 0..m : vals[i] = val[i] /\ poss[i] = pos[i]
  BY <1>3, <1>5, <1>6
<1>10. ASSUME NEW i \in 0..(m + 1)
       PROVE  poss[i] <= Len(c)
  <2>1. CASE i = m + 1
    BY <1>4, <1>8, <2>1
  <2>2. CASE i # m + 1
    <3>1. i \in 0..m
      BY <1>3, <2>2
    <3> QED
      BY <1>3, <1>9, <3>1
  <2> QED
    BY <2>1, <2>2
<1>11. ASSUME NEW i \in 1..(m + 1)
       PROVE  /\ poss[i - 1] < poss[i]
              /\ section(c, Some(vals[i - 1], poss[i - 1])) = Some(vals[i], poss[i])
  <2>1. CASE i = m + 1
    <3>1. i - 1 = m /\ m \in 0..m
      BY <1>3, <2>1
    <3>2. vals[i - 1] = v /\ poss[i - 1] = Len(w)
      BY <1>1, <1>9, <3>1
    <3>3. vals[i] = x /\ poss[i] = Len(c)
      BY <1>4, <1>7, <1>8, <2>1
    <3> QED
      BY <3>2, <3>3
  <2>2. CASE i # m + 1
    <3>1. i \in 1..m /\ i \in 0..m /\ i - 1 \in 0..m
      BY <1>3, <2>2
    <3>2. vals[i - 1] = val[i - 1] /\ poss[i - 1] = pos[i - 1] /\ vals[i] = val[i] /\ poss[i] = pos[i]
      BY <1>9, <3>1
    <3> QED
      BY <1>3, <3>1, <3>2
  <2> QED
    BY <2>1, <2>2
<1>12. m + 1 \in Nat
  BY <1>3
<1>13. Rounds(c, m + 1, vals, poss)
  BY <1>7, <1>8, <1>10, <1>11, <1>12 DEF Rounds
<1> QED
  BY <1>4, <1>7, <1>8, <1>13 DEF Parsed

LEMMA ParsedCut ==
  ASSUME NEW w \in Bytes, NEW d \in Bytes, Extends(w, d), Len(w) < Len(d), NEW v, Parsed(w, v),
         section(d, Some(v, Len(w))) = None
  PROVE  Broken(d)
<1>1. PICK m, val, pos : Rounds(w, m, val, pos) /\ val[m] = v /\ pos[m] = Len(w)
  BY DEF Parsed
<1>2. Rounds(d, m, val, pos)
  BY <1>1, RoundsExtend
<1> QED
  BY <1>1, <1>2 DEF Broken

-----------------------------------------------------------------------------
(***************************************************************************)
(* The invariant: every cut of the binary is read as its sections say.     *)
(***************************************************************************)

\* A binary cut where a section ends is read as what is left, one cut elsewhere
\* after the header is not read.
ReadAsCut(d, secs) ==
  IF Len(d) \in DOMAIN secs THEN Parsed(d, secs[Len(d)])
  ELSE Len(d) >= Len(Header) => Broken(d)

Ends(w, secs) ==
  /\ secs \in [DOMAIN secs -> Nat]
  /\ DOMAIN secs \subseteq Len(Header)..Len(w)
  /\ Len(w) \in DOMAIN secs

AllCuts(w, secs) == \A d \in Bytes : Extends(d, w) => ReadAsCut(d, secs)

\* All of it is read, as no more than it declares.
NoMore(w, secs) == \E v \in Nat : v <= secs[Len(w)] /\ Parsed(w, v)

CutInv ==
  /\ wasm \in Bytes /\ Extends(Header, wasm)
  /\ Ends(wasm, sections)
  /\ ~overflow => AllCuts(wasm, sections)
  /\ NoMore(wasm, sections)

\* What reading the body of a section makes of the largest minimum v before it.
BodyReads(id, body, n, words, v, x) ==
  /\ IsLargest(x, v, n, words)
  /\ id = MemorySection => memory_section(body, v) = Some(x, Len(body))
  /\ id # MemorySection => x = v

\* A section of n minima, of which a word holds words.
Writes(id, body, n, mins, words) ==
  /\ id \in Nat /\ body \in Bytes /\ Len(body) < WordValues
  /\ n \in Nat /\ mins \in [1..n -> Nat] /\ words \in [1..n -> Nat]
  /\ \A i \in 1..n : words[i] <= mins[i]
  /\ \A v \in Nat : \E x : BodyReads(id, body, n, words, v, x)

\* w2 is w and that section.
Written(w, w2, id, body) ==
  \E k \in 1..MaxGroups : /\ Rest(Len(body), k) = 0
                          /\ w2 = w \o Section(id, body, encode(Len(body), k))

LEMMA WrittenBytes ==
  ASSUME NEW w \in Bytes, NEW w2, NEW id, NEW body, NEW n, NEW mins, NEW words,
         Writes(id, body, n, mins, words), Written(w, w2, id, body)
  PROVE  w2 \in Bytes /\ Extends(w, w2) /\ Len(w) < Len(w2)
<1>1. id \in Nat /\ body \in Bytes
  BY DEF Writes
<1>2. PICK k \in 1..MaxGroups : w2 = w \o Section(id, body, encode(Len(body), k))
  BY DEF Written
<1>3. SectionAt(w2, Len(w), id, k, body) /\ Extends(w, w2)
  BY <1>1, <1>2, SectionBytes
<1>4. w2 \in Bytes /\ Len(w2) = Len(w) + 1 + k + Len(body)
  BY <1>3 DEF SectionAt
<1>5. k \in Nat /\ Len(w) \in Nat /\ Len(body) \in Nat
  BY <1>1, EncodingAssumption DEF Bytes
<1> QED
  BY <1>3, <1>4, <1>5

\* It is read with the largest of its minima.
LEMMA WrittenRead ==
  ASSUME NEW w \in Bytes, NEW w2, NEW id, NEW body, NEW n, NEW mins, NEW words,
         Writes(id, body, n, mins, words), Written(w, w2, id, body),
         NEW v \in Nat, Parsed(w, v)
  PROVE  \E x : IsLargest(x, v, n, words) /\ Parsed(w2, x)
<1>1. id \in Nat /\ body \in Bytes /\ Len(body) < WordValues
  BY DEF Writes
<1>2. PICK x : BodyReads(id, body, n, words, v, x)
  BY DEF Writes
<1>3. PICK k \in 1..MaxGroups : /\ Rest(Len(body), k) = 0
                                /\ w2 = w \o Section(id, body, encode(Len(body), k))
  BY DEF Written
<1>4. SectionAt(w2, Len(w), id, k, body)
  BY <1>1, <1>3, SectionBytes
<1>5. w2 \in Bytes /\ Extends(w, w2) /\ Len(w) < Len(w2)
  BY WrittenBytes
<1>6. PICK end : end = Len(body)
  OBVIOUS
<1>7. /\ id = MemorySection => memory_section(body, v) = Some(x, end)
      /\ id # MemorySection => x = v
      /\ x \in Nat
  BY <1>2, <1>6 DEF BodyReads, IsLargest
<1>8. PICK p \in Nat : p = Len(w)
  BY DEF Bytes
<1>9. section(w2, Some(v, Len(w))) = Some(x, Len(w2))
  <2>1. SectionAt(w2, p, id, k, body)
    BY <1>4, <1>8
  <2>2. k \in 1..MaxGroups /\ Rest(Len(body), k) = 0
    BY <1>3
  <2>3. id = MemorySection => memory_section(body, v) = Some(x, end)
    BY <1>7
  <2>4. id # MemorySection => x = v
    BY <1>7
  <2>5. section(w2, Some(v, p)) = Some(x, Len(w2))
    BY <1>1, <1>8, <2>1, <2>2, <2>3, <2>4, SectionReads
  <2> QED
    BY <1>8, <2>5
<1>10. Parsed(w2, x)
  BY <1>5, <1>7, <1>9, ParsedMore
<1> QED
  BY <1>2, <1>10 DEF BodyReads

\* A cut inside it is not.
LEMMA WrittenCut ==
  ASSUME NEW w \in Bytes, NEW w2, NEW id, NEW body, NEW n, NEW mins, NEW words,
         Writes(id, body, n, mins, words), Written(w, w2, id, body),
         NEW v \in Nat, Parsed(w, v),
         NEW d \in Bytes, Extends(d, w2), Len(w) < Len(d), Len(d) < Len(w2)
  PROVE  Broken(d)
<1>1. id \in Nat /\ body \in Bytes /\ Len(body) < WordValues
  BY DEF Writes
<1>2. PICK k \in 1..MaxGroups : /\ Rest(Len(body), k) = 0
                                /\ w2 = w \o Section(id, body, encode(Len(body), k))
  BY DEF Written
<1>3. SectionAt(w2, Len(w), id, k, body)
  BY <1>1, <1>2, SectionBytes
<1>4. Len(w) \in Nat /\ Len(d) \in Nat /\ Len(w2) \in Nat /\ w2 \in Bytes /\ Extends(w, w2)
  BY WrittenBytes DEF Bytes
<1>5. section(d, Some(v, Len(w))) = None
  <2>1. PICK p \in Nat : p = Len(w)
    BY <1>4
  <2>2. SectionAt(w2, p, id, k, body) /\ p < Len(d)
    BY <1>3, <2>1
  <2>3. k \in 1..MaxGroups /\ Rest(Len(body), k) = 0
    BY <1>2
  <2>4. section(d, Some(v, p)) = None
    BY <1>1, <2>1, <2>2, <2>3, SectionCut
  <2> QED
    BY <2>1, <2>4
<1>6. Extends(w, d)
  <2>1. ASSUME NEW i \in 1..Len(w)
        PROVE  d[i] = w[i]
    <3>1. i \in 1..Len(d)
      BY <1>4
    <3> QED
      BY <1>4, <3>1 DEF Extends
  <2> QED
    BY <1>4, <2>1 DEF Extends
<1> QED
  BY <1>5, <1>6, ParsedCut

\* The sections after it.
SectionsAfter(w, w2, secs, secs2, y) ==
  secs2 = [i \in DOMAIN secs \cup {Len(w2)} |-> IF i = Len(w2) THEN y ELSE secs[i]]

OneMore(len, secs, secs2, y) ==
  /\ secs2[len] = y
  /\ DOMAIN secs2 = DOMAIN secs \cup {len}
  /\ \A i \in DOMAIN secs : secs2[i] = secs[i]

LEMMA EndsAfter ==
  ASSUME NEW w \in Bytes, NEW w2 \in Bytes, Len(w) < Len(w2), NEW secs, Ends(w, secs),
         NEW y \in Nat, NEW secs2, SectionsAfter(w, w2, secs, secs2, y), Extends(Header, w)
  PROVE  Ends(w2, secs2) /\ OneMore(Len(w2), secs, secs2, y)
<1>1. Len(w) \in Nat /\ Len(w2) \in Nat /\ Len(Header) \in Nat /\ Len(Header) <= Len(w)
  BY EncodingAssumption DEF Bytes, Extends
<1>2. secs \in [DOMAIN secs -> Nat] /\ DOMAIN secs \subseteq Len(Header)..Len(w)
  BY DEF Ends
<1>3. secs2 = [i \in DOMAIN secs \cup {Len(w2)} |-> IF i = Len(w2) THEN y ELSE secs[i]]
  BY DEF SectionsAfter
<1>4. \A i \in DOMAIN secs : i # Len(w2)
  BY <1>1, <1>2
<1>5. DOMAIN secs2 = DOMAIN secs \cup {Len(w2)} /\ secs2[Len(w2)] = y
  BY <1>3
<1>6. \A i \in DOMAIN secs : secs2[i] = secs[i]
  BY <1>3, <1>4
<1>7. secs2 \in [DOMAIN secs2 -> Nat]
  BY <1>2, <1>3
<1>8. DOMAIN secs2 \subseteq Len(Header)..Len(w2)
  BY <1>1, <1>2, <1>5
<1> QED
  BY <1>5, <1>6, <1>7, <1>8 DEF Ends, OneMore

\* Every cut of w2 is read as it should be, when its last section is.
LEMMA CutsAfter ==
  ASSUME NEW w \in Bytes, NEW w2, NEW id, NEW body, NEW n, NEW mins, NEW words,
         Writes(id, body, n, mins, words), Written(w, w2, id, body),
         NEW secs, Ends(w, secs), AllCuts(w, secs), Extends(Header, w),
         NEW y \in Nat, Parsed(w2, y), NEW secs2, SectionsAfter(w, w2, secs, secs2, y)
  PROVE  AllCuts(w2, secs2)
<1>1. w2 \in Bytes /\ Extends(w, w2) /\ Len(w) < Len(w2)
  BY WrittenBytes
<1>2. /\ secs2[Len(w2)] = y /\ DOMAIN secs2 = DOMAIN secs \cup {Len(w2)}
      /\ \A i \in DOMAIN secs : secs2[i] = secs[i]
  <2>1. OneMore(Len(w2), secs, secs2, y)
    BY <1>1, EndsAfter
  <2> QED
    BY <2>1 DEF OneMore
<1>3. SUFFICES ASSUME NEW d \in Bytes, Extends(d, w2)
               PROVE  ReadAsCut(d, secs2)
  BY DEF AllCuts
<1>4. Len(w) \in Nat /\ Len(w2) \in Nat /\ Len(d) \in Nat /\ Len(d) <= Len(w2)
  BY <1>1, <1>3 DEF Bytes, Extends
<1>5. CASE Len(d) <= Len(w)
  <2>1. ASSUME NEW i \in 1..Len(d)
        PROVE  w[i] = d[i]
    <3>1. i \in 1..Len(w)
      BY <1>4, <1>5
    <3> QED
      BY <1>1, <1>3, <3>1 DEF Extends
  <2>2. Extends(d, w)
    BY <1>5, <2>1 DEF Extends
  <2>3. ReadAsCut(d, secs)
    BY <2>2 DEF AllCuts
  <2>4. Len(d) # Len(w2)
    BY <1>1, <1>4, <1>5
  <2> QED
    BY <1>2, <2>3, <2>4 DEF ReadAsCut
<1>6. CASE Len(d) = Len(w2)
  <2>1. d = w2
    BY <1>1, <1>3, <1>6, SameBytes DEF Extends
  <2> QED
    BY <1>2, <2>1 DEF ReadAsCut
<1>7. CASE Len(w) < Len(d) /\ Len(d) < Len(w2)
  <2>1. PICK v \in Nat : v = secs[Len(w)]
    BY DEF Ends
  <2>2. Parsed(w, v)
    <3>1. Extends(w, w)
      BY <1>4 DEF Extends
    <3>2. ReadAsCut(w, secs)
      BY <3>1 DEF AllCuts
    <3> QED
      BY <2>1, <3>2 DEF ReadAsCut, Ends
  <2>3. Broken(d)
    BY <1>3, <1>7, <2>2, WrittenCut
  <2>4. Len(d) \notin DOMAIN secs
    BY <1>4, <1>7, EncodingAssumption DEF Ends
  <2>5. Len(d) # Len(w2)
    BY <1>4, <1>7
  <2> QED
    BY <1>2, <2>3, <2>4, <2>5 DEF ReadAsCut
<1> QED
  BY <1>4, <1>5, <1>6, <1>7

\* The binary is still read as no more than it declares.
LEMMA NoMoreAfter ==
  ASSUME NEW w \in Bytes, NEW w2, NEW id, NEW body, NEW n, NEW mins, NEW words,
         Writes(id, body, n, mins, words), Written(w, w2, id, body),
         NEW secs, Ends(w, secs), NoMore(w, secs), Extends(Header, w),
         NEW y, IsLargest(y, secs[Len(w)], n, mins), NEW secs2, SectionsAfter(w, w2, secs, secs2, y)
  PROVE  NoMore(w2, secs2)
<1>1. w2 \in Bytes /\ Len(w) < Len(w2)
  BY WrittenBytes
<1>2. y \in Nat
  BY DEF IsLargest
<1>3. OneMore(Len(w2), secs, secs2, y)
  BY <1>1, <1>2, EndsAfter
<1>4. PICK p \in Nat : p = secs[Len(w)]
  BY DEF Ends
<1>5. PICK v \in Nat : v <= p /\ Parsed(w, v)
  BY <1>4 DEF NoMore
<1>6. PICK x : IsLargest(x, v, n, words) /\ Parsed(w2, x)
  BY <1>5, WrittenRead
<1>7. x \in Nat /\ x <= y
  <2>1. x \in Nat /\ (x = v \/ \E i \in 1..n : x = words[i])
    BY <1>6 DEF IsLargest
  <2>2. y >= p
    BY <1>4 DEF IsLargest
  <2>3. CASE x = v
    BY <1>2, <1>4, <1>5, <2>2, <2>3
  <2>4. CASE \E i \in 1..n : x = words[i]
    <3>1. PICK i \in 1..n : x = words[i]
      BY <2>4
    <3>2. words[i] <= mins[i] /\ words[i] \in Nat /\ mins[i] \in Nat
      BY DEF Writes
    <3>3. y >= mins[i]
      BY DEF IsLargest
    <3> QED
      BY <1>2, <3>1, <3>2, <3>3
  <2> QED
    BY <2>1, <2>3, <2>4
<1> QED
  BY <1>3, <1>6, <1>7 DEF NoMore, OneMore

\* Adding a section keeps the invariant.
LEMMA AddKeeps ==
  ASSUME CutInv, NEW id, NEW body, NEW n, NEW mins, NEW words,
         Writes(id, body, n, mins, words),
         NEW bytes, NEW minima, NEW overflows,
         minima = {mins[i] : i \in 1..n}, ~overflows => words = mins,
         \E k \in 1..MaxGroups : /\ Rest(Len(body), k) = 0
                                 /\ bytes = Section(id, body, encode(Len(body), k)),
         Add(bytes, minima, overflows)
  PROVE  CutInv'
<1>1. /\ wasm \in Bytes /\ Extends(Header, wasm) /\ Ends(wasm, sections)
      /\ ~overflow => AllCuts(wasm, sections)
      /\ NoMore(wasm, sections)
  BY DEF CutInv
<1>2. wasm' = wasm \o bytes /\ (overflow' <=> (overflow \/ overflows))
  BY DEF Add
<1>3. Written(wasm, wasm', id, body)
  BY <1>2 DEF Written
<1>4. PICK p \in Nat : p = sections[Len(wasm)]
  BY <1>1 DEF Ends
<1>5. n \in Nat /\ mins \in [1..n -> Nat] /\ words \in [1..n -> Nat]
  BY DEF Writes
<1>6. PICK y : y = Largest(minima \cup {sections[Len(wasm)]})
  OBVIOUS
<1>7. IsLargest(y, p, n, mins)
  <2>1. PICK f : Maxima(f, p, n, mins)
    BY <1>4, <1>5, MaximaExist
  <2>2. IsLargest(f[n], p, n, mins)
    BY <1>4, <1>5, <2>1, MaximaLargest
  <2>3. Largest({mins[i] : i \in 1..n} \cup {p}) = f[n]
    BY <1>4, <1>5, <2>2, LargestIs
  <2>4. y = f[n]
    BY <1>4, <1>6, <2>3, Zenon
  <2> QED
    BY <2>2, <2>4
<1>8. y \in Nat
  BY <1>7 DEF IsLargest
<1>9. SectionsAfter(wasm, wasm', sections, sections', y)
  BY <1>6 DEF Add, SectionsAfter
<1>10. wasm' \in Bytes /\ Extends(wasm, wasm') /\ Len(wasm) < Len(wasm')
  BY <1>1, <1>3, WrittenBytes
<1>11. Extends(Header, wasm')
  <2>1. Header \in Bytes
    BY EncodingAssumption DEF Bytes
  <2> QED
    BY <1>1, <1>10, <2>1, ExtendsTransitive
<1>12. Ends(wasm', sections')
  BY <1>1, <1>8, <1>9, <1>10, EndsAfter
<1>13. NoMore(wasm', sections')
  BY <1>1, <1>3, <1>4, <1>7, <1>9, NoMoreAfter
<1>14. ASSUME ~overflow'
       PROVE  AllCuts(wasm', sections')
  <2>1. ~overflow /\ words = mins
    BY <1>2, <1>14
  <2>2. AllCuts(wasm, sections)
    BY <1>1, <2>1
  <2>3. Parsed(wasm, p)
    <3>1. Extends(wasm, wasm)
      BY <1>1 DEF Extends, Bytes
    <3>2. ReadAsCut(wasm, sections)
      BY <1>1, <2>2, <3>1 DEF AllCuts
    <3> QED
      BY <1>1, <1>4, <3>2 DEF ReadAsCut, Ends
  <2>4. PICK x : IsLargest(x, p, n, words) /\ Parsed(wasm', x)
    BY <1>1, <1>3, <1>4, <2>3, WrittenRead
  <2>5. x = y
    <3>1. IsLargest(x, p, n, mins)
      BY <2>1, <2>4
    <3>2. Largest({mins[i] : i \in 1..n} \cup {p}) = x
      BY <1>4, <1>5, <3>1, LargestIs
    <3> QED
      BY <1>4, <1>6, <3>2, Zenon
  <2>6. Parsed(wasm', y)
    BY <2>4, <2>5
  <2> QED
    BY <1>1, <1>3, <1>8, <1>9, <2>2, <2>6, CutsAfter
<1> QED
  BY <1>10, <1>11, <1>12, <1>13, <1>14 DEF CutInv

\* The sections that the writer makes are such.
LEMMA MemoryWrites ==
  ASSUME NEW n, NEW entries, Entries(n, entries), NEW body, body = encode_entries(n, entries),
         Len(body) < WordValues
  PROVE  Writes(MemorySection, body, n, MinsOf(n, entries), WordsOf(n, entries))
<1>1. /\ n \in Nat
      /\ MinsOf(n, entries) \in [1..n -> Nat] /\ WordsOf(n, entries) \in [1..n -> Nat]
      /\ \A i \in 1..n : WordsOf(n, entries)[i] <= MinsOf(n, entries)[i]
  BY MinsType
<1>2. body \in Bytes
  <2>1. 0 \in Nat
    OBVIOUS
  <2> QED
    BY <2>1, MemoryReads
<1>3. ASSUME NEW v \in Nat
      PROVE  \E x : BodyReads(MemorySection, body, n, WordsOf(n, entries), v, x)
  <2>1. PICK x : /\ memory_section(body, v) = Some(x, Len(body))
                 /\ IsLargest(x, v, n, WordsOf(n, entries))
    BY MemoryReads
  <2> QED
    BY <2>1 DEF BodyReads
<1> QED
  BY <1>1, <1>2, <1>3, EncodingAssumption DEF Writes

LEMMA OtherWrites ==
  ASSUME NEW body \in Bytes, Len(body) < WordValues, NEW mins, mins = [i \in 1..0 |-> 0]
  PROVE  Writes(0, body, 0, mins, mins)
<1>1. mins \in [1..0 -> Nat] /\ \A i \in 1..0 : mins[i] <= mins[i]
  OBVIOUS
<1>2. ASSUME NEW v \in Nat
      PROVE  BodyReads(0, body, 0, mins, v, v)
  <2>1. 0 # MemorySection
    BY EncodingAssumption
  <2>2. IsLargest(v, v, 0, mins)
    BY DEF IsLargest
  <2> QED
    BY <2>1, <2>2 DEF BodyReads
<1> QED
  BY <1>1, <1>2 DEF Writes

LEMMA EncodingsOf ==
  ASSUME NEW l, NEW len \in Encodings(l)
  PROVE  \E k \in 1..MaxGroups : Rest(l, k) = 0 /\ len = encode(l, k)
BY DEF Encodings

LEMMA AddMemoryKeeps ==
  ASSUME CutInv, AddMemory
  PROVE  CutInv'
<1>1. PICK n \in 0..MaxEntries : \E entries \in [1..n -> Entry] :
        LET body == encode_entries(n, entries)
            minima == {entries[i].min : i \in 1..n}
        IN  /\ \A i \in 1..n : Rest(entries[i].min, entries[i].groups) = 0
            /\ Len(body) < WordValues
            /\ \E len \in Encodings(Len(body)) :
                 Add(Section(MemorySection, body, len), minima, \E m \in minima : m >= WordValues)
  BY Zenon DEF AddMemory
<1>2. PICK entries \in [1..n -> Entry] :
        /\ \A i \in 1..n : Rest(entries[i].min, entries[i].groups) = 0
        /\ Len(encode_entries(n, entries)) < WordValues
        /\ \E len \in Encodings(Len(encode_entries(n, entries))) :
             Add(Section(MemorySection, encode_entries(n, entries), len),
                 {entries[i].min : i \in 1..n},
                 \E m \in {entries[i].min : i \in 1..n} : m >= WordValues)
  BY <1>1, Zenon
<1>3. Entries(n, entries)
  <2>1. n \in 0..(GroupValues - 1)
    BY EncodingAssumption, WriterAssumption
  <2> QED
    BY <1>2, <2>1 DEF Entries
<1>4. PICK body : body = encode_entries(n, entries)
  OBVIOUS
<1>5. PICK minima : minima = {entries[i].min : i \in 1..n}
  OBVIOUS
<1>6. PICK overflows \in BOOLEAN : overflows <=> \E m \in minima : m >= WordValues
  <2>1. (\E m \in minima : m >= WordValues) \in BOOLEAN
    BY Zenon
  <2> QED
    BY <2>1, Zenon
<1>7. PICK mins, words : mins = MinsOf(n, entries) /\ words = WordsOf(n, entries)
  OBVIOUS
<1>8. Writes(MemorySection, body, n, mins, words)
  BY <1>2, <1>3, <1>4, <1>7, MemoryWrites
<1>9. minima = {mins[i] : i \in 1..n}
  BY <1>5, <1>7 DEF MinsOf
<1>10. ASSUME ~overflows
       PROVE  words = mins
  <2>1. ASSUME NEW i \in 1..n
        PROVE  entries[i].min % WordValues = entries[i].min
    <3>1. PICK m \in Nat : m = entries[i].min
      BY <1>2, EntryType
    <3>2. ~(m >= WordValues)
      BY <1>5, <1>6, <1>10, <3>1
    <3>3. WordValues \in Nat /\ WordValues >= 2 /\ m < WordValues
      BY <3>2, EncodingAssumption
    <3>4. m % WordValues = m
      BY <3>3
    <3> QED
      BY <3>1, <3>4
  <2> QED
    BY <1>7, <2>1 DEF MinsOf, WordsOf
<1>11. PICK len \in Encodings(Len(body)) :
         Add(Section(MemorySection, body, len), minima, \E m \in minima : m >= WordValues)
  BY <1>2, <1>4, <1>5, Zenon
<1>12. PICK bytes : bytes = Section(MemorySection, body, len)
  OBVIOUS
<1>13. Add(bytes, minima, overflows)
  BY <1>6, <1>11, <1>12, Zenon DEF Add
<1>14. \E k \in 1..MaxGroups : /\ Rest(Len(body), k) = 0
                               /\ bytes = Section(MemorySection, body, encode(Len(body), k))
  BY <1>11, <1>12, EncodingsOf, Zenon
<1> QED
  BY <1>8, <1>9, <1>10, <1>13, <1>14, AddKeeps

LEMMA AddOtherKeeps ==
  ASSUME CutInv, AddOther
  PROVE  CutInv'
<1>1. PICK body \in {<< >>, <<MemorySection>>, <<MemorySection, 1, 1, 0, 3>>} :
        /\ Len(body) < WordValues
        /\ \E len \in Encodings(Len(body)) : Add(Section(0, body, len), {}, FALSE)
  BY Zenon DEF AddOther
<1>2. body \in Bytes
  <2>1. << >> \in Seq(Nat)
    OBVIOUS
  <2>2. <<MemorySection>> \in Seq(Nat)
    BY EncodingAssumption
  <2>3. <<MemorySection, 1, 1, 0, 3>> \in Seq(Nat)
    BY EncodingAssumption
  <2> QED
    BY <1>1, <2>1, <2>2, <2>3, Zenon DEF Bytes
<1>3. PICK len \in Encodings(Len(body)) : Add(Section(0, body, len), {}, FALSE)
  BY <1>1, Zenon
<1>4. PICK mins : mins = [i \in 1..0 |-> 0]
  OBVIOUS
<1>5. Writes(0, body, 0, mins, mins)
  BY <1>1, <1>2, <1>4, OtherWrites
<1>6. PICK bytes : bytes = Section(0, body, len)
  OBVIOUS
<1>7. PICK minima, overflows : minima = {} /\ overflows = FALSE
  BY Zenon
<1>8. minima = {mins[i] : i \in 1..0}
  BY <1>7
<1>9. Add(bytes, minima, overflows)
  BY <1>3, <1>6, <1>7, Zenon
<1>10. \E k \in 1..MaxGroups : /\ Rest(Len(body), k) = 0
                               /\ bytes = Section(0, body, encode(Len(body), k))
  BY <1>3, <1>6, EncodingsOf, Zenon
<1> QED
  BY <1>5, <1>8, <1>9, <1>10, AddKeeps

LEMMA CutInvInit ==
  ASSUME Init
  PROVE  CutInv
<1>1. wasm = Header /\ sections = [n \in {Len(Header)} |-> 0]
  BY DEF Init
<1>2. Header \in Bytes /\ Len(Header) \in Nat
  BY EncodingAssumption DEF Bytes
<1>3. Extends(Header, wasm) /\ wasm \in Bytes
  BY <1>1, <1>2 DEF Extends
<1>4. Ends(wasm, sections)
  BY <1>1, <1>2 DEF Ends
<1>5. Parsed(wasm, 0)
  <2>1. PICK val, pos : val = [i \in 0..0 |-> 0] /\ pos = [i \in 0..0 |-> Len(Header)]
    OBVIOUS
  <2>2. val \in [0..0 -> Nat] /\ pos \in [0..0 -> Nat] /\ val[0] = 0 /\ pos[0] = Len(Header)
    BY <1>2, <2>1
  <2>3. \A i \in 0..0 : pos[i] <= Len(wasm)
    BY <1>1, <1>2, <2>1
  <2>4. Rounds(wasm, 0, val, pos)
    BY <2>2, <2>3 DEF Rounds
  <2> QED
    BY <1>1, <2>2, <2>4 DEF Parsed
<1>6. NoMore(wasm, sections)
  BY <1>1, <1>5 DEF NoMore
<1>7. AllCuts(wasm, sections)
  <2> SUFFICES ASSUME NEW d \in Bytes, Extends(d, wasm)
               PROVE  ReadAsCut(d, sections)
    BY DEF AllCuts
  <2>1. Len(d) \in Nat /\ Len(d) <= Len(wasm)
    BY DEF Bytes, Extends
  <2>2. CASE Len(d) = Len(wasm)
    <3>1. d = wasm
      BY <1>3, <2>2, SameBytes DEF Extends
    <3> QED
      BY <1>1, <1>5, <3>1 DEF ReadAsCut
  <2>3. CASE Len(d) # Len(wasm)
    <3>1. ~(Len(d) >= Len(Header)) /\ Len(d) \notin DOMAIN sections
      BY <1>1, <1>2, <2>1, <2>3
    <3> QED
      BY <3>1 DEF ReadAsCut
  <2> QED
    BY <2>2, <2>3
<1> QED
  BY <1>3, <1>4, <1>6, <1>7 DEF CutInv

LEMMA CutInvStep ==
  ASSUME CutInv, [Next]_vars
  PROVE  CutInv'
<1>1. CASE AddMemory
  BY <1>1, AddMemoryKeeps
<1>2. CASE AddOther
  BY <1>2, AddOtherKeeps
<1>3. CASE UNCHANGED vars
  BY <1>3 DEF vars, CutInv
<1> QED
  BY <1>1, <1>2, <1>3 DEF Next

\* The invariant on which both properties rest.
THEOREM BinaryCuts == Spec => []CutInv
<1>1. Init => CutInv
  BY CutInvInit
<1>2. CutInv /\ [Next]_vars => CutInv'
  BY CutInvStep
<1> QED
  BY <1>1, <1>2, PTL DEF Spec

-----------------------------------------------------------------------------
(***************************************************************************)
(* The properties.                                                         *)
(***************************************************************************)

LEMMA PrefixExtends ==
  ASSUME NEW w \in Bytes, Extends(Header, w)
  PROVE  IsPrefix(Header, w)
<1>1. Header \in Bytes
  BY EncodingAssumption DEF Bytes
<1>2. PICK l \in Nat : l = Len(Header)
  BY <1>1 DEF Bytes
<1>3. 0 + l <= Len(Header) /\ 0 + l <= Len(w)
  BY <1>2 DEF Extends
<1>4. IsSlice(SubSeq(Header, 0 + 1, 0 + l), Header, 0, l)
  BY <1>1, <1>2, <1>3, Slice
<1>5. IsSlice(SubSeq(w, 0 + 1, 0 + l), w, 0, l)
  BY <1>2, <1>3, Slice
<1>6. \A i \in 1..l : Header[0 + i] = w[0 + i]
  BY <1>2 DEF Extends
<1>7. IsSlice(SubSeq(Header, 0 + 1, 0 + l), w, 0, l)
  BY <1>4, <1>6 DEF IsSlice
<1>8. SubSeq(Header, 0 + 1, 0 + l) = SubSeq(w, 0 + 1, 0 + l)
  BY <1>2, <1>5, <1>7, SliceUnique
<1>9. 0 + 1 = 1 /\ 0 + l = l
  BY <1>2
<1>10. SubSeq(Header, 1, l) = SubSeq(w, 1, l)
  BY <1>8, <1>9, Zenon
<1> QED
  BY <1>2, <1>3, <1>10 DEF IsPrefix

\* The bytes are the pages, and the pages what the rounds of the loop find.
LEMMA ParsedDeclares ==
  ASSUME NEW w \in Bytes, Extends(Header, w), NEW v, Parsed(w, v)
  PROVE  v \in Nat /\ declared_min_memory_bytes(w) = Some(v * WASM_PAGE_BYTES, 0)
<1>1. PICK pages : pages = declared_pages(w)
  OBVIOUS
<1>2. v \in Nat /\ pages = Some(v, Len(w))
  BY <1>1, PrefixExtends, ParsedPages
<1>3. pages.some /\ pages.val = v
  BY <1>2, OptionFields
<1>4. declared_min_memory_bytes(w) =
        IF pages.some THEN Some(pages.val * WASM_PAGE_BYTES, 0) ELSE None
  BY <1>1 DEF declared_min_memory_bytes, Try
<1> QED
  BY <1>2, <1>3, <1>4, Zenon

LEMMA NothingDeclared ==
  ASSUME NEW w, declared_pages(w) = None
  PROVE  declared_min_memory_bytes(w) = None
<1>1. ~declared_pages(w).some
  BY OptionFields
<1> QED
  BY <1>1 DEF declared_min_memory_bytes, Try

\* LargestIsRead holds of every binary that is written section by section,
\* however wide groups and words are: what declared_min_memory_bytes reads is the
\* largest minimum declared, and never more than that.
THEOREM DeclaredLargestIsRead == Spec => []LargestIsRead
<1>1. CutInv => LargestIsRead
  <2> SUFFICES ASSUME CutInv
               PROVE  LargestIsRead
    OBVIOUS
  <2>1. /\ wasm \in Bytes /\ Extends(Header, wasm) /\ Ends(wasm, sections)
        /\ ~overflow => AllCuts(wasm, sections)
        /\ NoMore(wasm, sections)
    BY DEF CutInv
  <2>2. PICK p \in Nat : p = sections[Len(wasm)]
    BY <2>1 DEF Ends
  <2>3. PICK read : read = declared_min_memory_bytes(wasm)
    OBVIOUS
  <2>4. ASSUME ~overflow
        PROVE  read = Some(p * WASM_PAGE_BYTES, 0)
    <3>1. Extends(wasm, wasm)
      BY <2>1 DEF Extends, Bytes
    <3>2. ReadAsCut(wasm, sections)
      BY <2>1, <2>4, <3>1 DEF AllCuts
    <3>3. Parsed(wasm, p)
      BY <2>1, <2>2, <3>2 DEF ReadAsCut, Ends
    <3> QED
      BY <2>1, <2>3, <3>3, ParsedDeclares
  <2>5. read.some => read.val <= p * WASM_PAGE_BYTES
    <3>1. PICK v \in Nat : v <= p /\ Parsed(wasm, v)
      BY <2>1, <2>2 DEF NoMore
    <3>2. read = Some(v * WASM_PAGE_BYTES, 0)
      BY <2>1, <2>3, <3>1, ParsedDeclares
    <3>3. read.some /\ read.val = v * WASM_PAGE_BYTES
      BY <3>2, OptionFields
    <3>4. WASM_PAGE_BYTES \in Nat
      BY EncodingAssumption
    <3>5. v * WASM_PAGE_BYTES <= p * WASM_PAGE_BYTES
      BY <2>2, <3>1, <3>4
    <3> QED
      BY <3>3, <3>5
  <2> QED
    BY <2>2, <2>3, <2>4, <2>5, Zenon DEF LargestIsRead
<1> QED
  BY <1>1, BinaryCuts, PTL

\* CutIsNotRead holds of every such binary: cut inside a section it is not read
\* at all, cut between sections it is read as what is left.
THEOREM DeclaredCutIsNotRead == Spec => []CutIsNotRead
<1>1. CutInv => CutIsNotRead
  <2> SUFFICES ASSUME CutInv, ~overflow, NEW n \in 0..Len(wasm)
               PROVE  declared_min_memory_bytes(SubSeq(wasm, 1, n)) =
                        IF n \in DOMAIN sections THEN Some(sections[n] * WASM_PAGE_BYTES, 0) ELSE None
    BY Zenon DEF CutIsNotRead
  <2>1. wasm \in Bytes /\ Extends(Header, wasm) /\ Ends(wasm, sections) /\ AllCuts(wasm, sections)
    BY DEF CutInv
  <2>2. Len(wasm) \in Nat /\ n \in Nat /\ n <= Len(wasm) /\ Len(Header) \in Nat
    BY <2>1, EncodingAssumption DEF Bytes
  <2>3. PICK d : d = SubSeq(wasm, 1, n)
    OBVIOUS
  <2>4. d \in Bytes /\ Len(d) = n /\ \A i \in 1..n : d[i] = wasm[i]
    <3>1. 0 + n <= Len(wasm) /\ 0 + 1 = 1 /\ 0 + n = n
      BY <2>2
    <3>2. IsSlice(SubSeq(wasm, 0 + 1, 0 + n), wasm, 0, n)
      BY <2>1, <2>2, <3>1, Slice
    <3>3. IsSlice(d, wasm, 0, n)
      BY <2>3, <3>1, <3>2, Zenon
    <3> QED
      BY <3>3 DEF IsSlice
  <2>5. Extends(d, wasm)
    BY <2>2, <2>4 DEF Extends
  <2>6. ReadAsCut(d, sections)
    BY <2>1, <2>4, <2>5 DEF AllCuts
  <2>7. CASE n >= Len(Header)
    <3>1. Extends(Header, d)
      <4>1. ASSUME NEW i \in 1..Len(Header)
            PROVE  d[i] = Header[i]
        <5>1. i \in 1..n
          BY <2>2, <2>7
        <5> QED
          BY <2>1, <2>4, <5>1 DEF Extends
      <4> QED
        BY <2>2, <2>4, <2>7, <4>1 DEF Extends
    <3>2. CASE n \in DOMAIN sections
      <4>1. Parsed(d, sections[n])
        BY <2>4, <2>6, <3>2 DEF ReadAsCut
      <4>2. declared_min_memory_bytes(d) = Some(sections[n] * WASM_PAGE_BYTES, 0)
        BY <2>4, <3>1, <4>1, ParsedDeclares
      <4> QED
        BY <2>3, <3>2, <4>2
    <3>3. CASE n \notin DOMAIN sections
      <4>1. Broken(d)
        BY <2>4, <2>6, <2>7, <3>3 DEF ReadAsCut
      <4>2. declared_pages(d) = None
        BY <2>4, <3>1, <4>1, PrefixExtends, BrokenPages
      <4>3. declared_min_memory_bytes(d) = None
        BY <4>2, NothingDeclared
      <4> QED
        BY <2>3, <3>3, <4>3
    <3> QED
      BY <3>2, <3>3
  <2>8. CASE n < Len(Header)
    <3>1. n \notin DOMAIN sections
      BY <2>1, <2>2, <2>8 DEF Ends
    <3>2. ~IsPrefix(Header, d)
      BY <2>2, <2>4, <2>8 DEF IsPrefix
    <3>3. declared_pages(d) = None
      BY <3>2, Zenon DEF declared_pages
    <3>4. declared_min_memory_bytes(d) = None
      BY <3>3, NothingDeclared
    <3> QED
      BY <2>3, <3>1, <3>4
  <2> QED
    BY <2>2, <2>7, <2>8
<1> QED
  BY <1>1, BinaryCuts, PTL

=============================================================================
