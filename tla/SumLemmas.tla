------------------------------ MODULE SumLemmas ------------------------------
(***************************************************************************)
(* Lemmas about SumTo, proved from the recursive definition of PrefixSums, *)
(* and about what settleParimutuel (Parimutuel) adds up to, which the      *)
(* proofs of the pot and of the engine both rest on.  The induction is     *)
(* over the elements of a set, which needs no operator parameter.          *)
(***************************************************************************)
EXTENDS Parimutuel, FiniteSetTheorems, WellFoundedInduction, TLAPS

\* Every non-empty set of natural numbers has a least element.
LEMMA LeastElement ==
  ASSUME NEW T, T \subseteq Nat, T # {}
  PROVE  \E m \in T : \A k \in T : m <= k
<1> DEFINE Below == {0..n : n \in T}
<1>1. Below \subseteq FiniteSubsetsOf(Nat)
  <2> SUFFICES ASSUME NEW n \in T PROVE 0..n \in FiniteSubsetsOf(Nat)
    OBVIOUS
  <2>1. IsFiniteSet(0..n)
    BY FS_Interval
  <2> QED BY <2>1 DEF FiniteSubsetsOf
<1>2. PICK u \in Below : \A v \in Below : <<v, u>> \notin StrictSubsetOrdering(Nat)
  <2>1. Below # {}
    OBVIOUS
  <2> HIDE DEF Below
  <2> QED BY <1>1, <2>1, FS_StrictSubsetOrderingWellFounded, WFMin
<1>3. PICK m \in T : u = 0..m
  OBVIOUS
<1>4. ASSUME NEW k \in T PROVE m <= k
  <2> DEFINE v == 0..k
  <2>1. <<v, u>> \notin StrictSubsetOrdering(Nat)
    BY <1>2
  <2>2. v \in SUBSET Nat /\ u \in SUBSET Nat
    BY <1>3
  <2>3. ~ (v \subseteq u /\ v # u)
    <3> HIDE DEF v
    <3> QED BY <2>1, <2>2 DEF StrictSubsetOrdering
  <2>4. k < m => v \subseteq u /\ m \in u /\ m \notin v
    BY <1>3
  <2> QED BY <2>3, <2>4
<1> QED BY <1>4

\* Induction in first-order form: a set that contains 0 and is closed under
\* successor contains every natural number.
LEMMA SetInduction ==
  ASSUME NEW T, 0 \in T, \A n \in Nat : n \in T => n + 1 \in T
  PROVE  Nat \subseteq T
<1> SUFFICES ASSUME Nat \ T # {} PROVE FALSE
  OBVIOUS
<1>1. PICK m \in Nat \ T : \A k \in Nat \ T : m <= k
  BY LeastElement, Nat \ T \subseteq Nat
<1>2. m - 1 \in Nat /\ m - 1 \notin Nat \ T
  BY <1>1
<1> QED BY <1>2

\* The recursive definition of PrefixSums has a solution.
LEMMA PrefixSumsExist ==
  ASSUME NEW f, NEW n \in Nat
  PROVE  \E s : s = [k \in 0..n |-> IF k = 0 THEN 0 ELSE s[k-1] + f[k]]
<1> DEFINE Step(s, m) == s = [k \in 0..m |-> IF k = 0 THEN 0 ELSE s[k-1] + f[k]]
           T == {m \in Nat : \E s : Step(s, m)}
<1>1. 0 \in T
  <2> DEFINE s == [k \in 0..0 |-> 0]
  <2>1. s = [k \in 0..0 |-> IF k = 0 THEN 0 ELSE s[k-1] + f[k]]
    OBVIOUS
  <2> QED BY <2>1
<1>2. ASSUME NEW m \in Nat, m \in T PROVE m + 1 \in T
  <2>1. PICK s : Step(s, m)
    BY <1>2
  <2> DEFINE r == [k \in 0..(m+1) |-> IF k <= m THEN s[k] ELSE s[m] + f[m+1]]
  <2>2. ASSUME NEW k \in 0..(m+1)
        PROVE  r[k] = IF k = 0 THEN 0 ELSE r[k-1] + f[k]
    <3>1. CASE k <= m
      <4>1. r[k] = s[k] /\ (k # 0 => r[k-1] = s[k-1])
        BY <3>1
      <4>2. s[k] = IF k = 0 THEN 0 ELSE s[k-1] + f[k]
        BY <2>1, <3>1
      <4> QED BY <4>1, <4>2
    <3>2. CASE k = m + 1
      <4>1. r[k] = s[m] + f[m+1] /\ r[k-1] = s[m]
        BY <3>2
      <4> QED BY <3>2, <4>1
    <3> QED BY <3>1, <3>2
  <2>3. Step(r, m+1)
    BY <2>2
  <2>4. \E z : Step(z, m+1)
    <3> HIDE DEF r, Step
    <3> QED BY <2>3
  <2> QED BY <2>4
<1>3. n \in T
  <2> HIDE DEF T
  <2> QED BY <1>1, <1>2, SetInduction
<1> QED BY <1>3

\* PrefixSums satisfies its own recursive equation.
LEMMA PrefixSumsDef ==
  ASSUME NEW f, NEW n \in Nat
  PROVE  PrefixSums(f, n) =
           [k \in 0..n |-> IF k = 0 THEN 0 ELSE PrefixSums(f, n)[k-1] + f[k]]
BY PrefixSumsExist DEF PrefixSums

\* The values of PrefixSums on an integer-valued function.
LEMMA PrefixSumsValues ==
  ASSUME NEW n \in Nat, NEW f \in [1..n -> Int]
  PROVE  /\ PrefixSums(f, n) \in [0..n -> Int]
         /\ PrefixSums(f, n)[0] = 0
         /\ \A k \in 1..n : PrefixSums(f, n)[k] = PrefixSums(f, n)[k-1] + f[k]
<1> DEFINE s == PrefixSums(f, n)
           T == {m \in Nat : m <= n => s[m] \in Int}
<1> HIDE DEF s
<1>1. s = [k \in 0..n |-> IF k = 0 THEN 0 ELSE s[k-1] + f[k]]
  BY PrefixSumsDef DEF s
<1>2. s[0] = 0
  BY <1>1
<1>3. ASSUME NEW k \in 1..n PROVE s[k] = s[k-1] + f[k]
  <2>1. k \in 0..n /\ k # 0
    OBVIOUS
  <2> QED BY <1>1, <2>1
<1>4. Nat \subseteq T
  <2>1. 0 \in T
    BY <1>2
  <2>2. ASSUME NEW m \in Nat, m \in T PROVE m + 1 \in T
    <3>1. CASE m + 1 <= n
      <4>1. m + 1 \in 1..n /\ s[m] \in Int
        BY <2>2, <3>1
      <4>2. s[m+1] = s[m] + f[m+1]
        BY <1>3, <4>1
      <4> QED BY <4>1, <4>2
    <3>2. CASE ~ (m + 1 <= n)
      BY <3>2
    <3> QED BY <3>1, <3>2
  <2> HIDE DEF T
  <2> QED BY <2>1, <2>2, SetInduction
<1>5. s \in [0..n -> Int]
  <2>1. ASSUME NEW k \in 0..n PROVE s[k] \in Int
    BY <1>4
  <2>2. s = [k \in 0..n |-> s[k]]
    BY <1>1
  <2> QED BY <2>1, <2>2
<1> QED BY <1>2, <1>3, <1>5 DEF s

\* A sum of integers is an integer.
LEMMA SumType ==
  ASSUME NEW n \in Nat, NEW f \in [1..n -> Int]
  PROVE  SumTo(f, n) \in Int
BY PrefixSumsValues DEF SumTo

(* Changing one entry changes the sum by as much. *)
LEMMA SumUpdate ==
  ASSUME NEW n \in Nat, NEW f \in [1..n -> Int], NEW g \in [1..n -> Int],
         NEW p \in 1..n, \A k \in 1..n : k # p => g[k] = f[k]
  PROVE  SumTo(g, n) = SumTo(f, n) + (g[p] - f[p])
<1> DEFINE s == PrefixSums(f, n)
           r == PrefixSums(g, n)
           T == {m \in Nat : m <= n => r[m] = s[m] + (IF m < p THEN 0 ELSE g[p] - f[p])}
<1> HIDE DEF s, r
<1>1. /\ s \in [0..n -> Int] /\ s[0] = 0
      /\ \A k \in 1..n : s[k] = s[k-1] + f[k]
  BY PrefixSumsValues DEF s
<1>2. /\ r \in [0..n -> Int] /\ r[0] = 0
      /\ \A k \in 1..n : r[k] = r[k-1] + g[k]
  BY PrefixSumsValues DEF r
<1>3. 0 \in T
  BY <1>1, <1>2
<1>4. ASSUME NEW m \in Nat, m \in T PROVE m + 1 \in T
  <2>1. SUFFICES ASSUME m + 1 <= n
                 PROVE  r[m+1] = s[m+1] + (IF m + 1 < p THEN 0 ELSE g[p] - f[p])
    OBVIOUS
  <2>2. r[m] = s[m] + (IF m < p THEN 0 ELSE g[p] - f[p])
    BY <1>4, <2>1
  <2>3. /\ m + 1 \in 1..n /\ m \in 0..n
        /\ s[m+1] = s[m] + f[m+1] /\ r[m+1] = r[m] + g[m+1]
    <3>1. m + 1 \in 1..n /\ m \in 0..n /\ (m + 1) - 1 = m
      BY <2>1
    <3>2. s[m+1] = s[m] + f[m+1]
      BY ONLY <1>1, <3>1
    <3>3. r[m+1] = r[m] + g[m+1]
      BY ONLY <1>2, <3>1
    <3> QED BY ONLY <3>1, <3>2, <3>3
  <2>4. s[m] \in Int /\ r[m] \in Int /\ f[m+1] \in Int /\ g[m+1] \in Int
        /\ f[p] \in Int /\ g[p] \in Int
    BY <1>1, <1>2, <2>3
  <2>5. CASE m + 1 = p
    <3>1. r[m] = s[m]
      <4>1. m < p
        BY <2>5
      <4> QED BY ONLY <2>2, <2>4, <4>1
    <3>2. s[m+1] = s[m] + f[p] /\ r[m+1] = s[m] + g[p]
      BY <2>3, <2>5, <3>1
    <3>3. r[m+1] = s[m+1] + (g[p] - f[p])
      BY <2>4, <3>2
    <3> QED BY <2>5, <3>3
  <2>6. CASE m + 1 # p
    <3>1. g[m+1] = f[m+1]
      BY <2>3, <2>6
    <3>2. m < p <=> m + 1 < p
      BY <2>6
    <3> QED BY ONLY <2>2, <2>3, <2>4, <3>1, <3>2
  <2> QED BY <2>5, <2>6
<1>5. n \in T
  <2> HIDE DEF T
  <2> QED BY <1>3, <1>4, SetInduction
<1>6. r[n] = s[n] + (g[p] - f[p])
  BY <1>5
<1> QED BY <1>6 DEF SumTo, s, r

(* A sum of naturals is at least each of its terms. *)
LEMMA SumGeqElement ==
  ASSUME NEW n \in Nat, NEW f \in [1..n -> Nat]
  PROVE  /\ SumTo(f, n) \in Nat
         /\ \A p \in 1..n : f[p] <= SumTo(f, n)
<1> DEFINE s == PrefixSums(f, n)
           T == {m \in Nat : m <= n => s[m] \in Nat /\ \A p \in 1..m : f[p] <= s[m]}
<1> HIDE DEF s
<1>1. /\ s \in [0..n -> Int] /\ s[0] = 0
      /\ \A k \in 1..n : s[k] = s[k-1] + f[k]
  BY PrefixSumsValues, f \in [1..n -> Int] DEF s
<1>2. 0 \in T
  BY <1>1
<1>3. ASSUME NEW m \in Nat, m \in T PROVE m + 1 \in T
  <2>1. SUFFICES ASSUME m + 1 <= n
                 PROVE  s[m+1] \in Nat /\ \A p \in 1..(m+1) : f[p] <= s[m+1]
    OBVIOUS
  <2>2. s[m] \in Nat /\ \A p \in 1..m : f[p] <= s[m]
    BY <1>3, <2>1
  <2>3. m + 1 \in 1..n /\ f[m+1] \in Nat /\ s[m+1] = s[m] + f[m+1]
    BY <1>1, <2>1
  <2>4. ASSUME NEW p \in 1..(m+1) PROVE f[p] <= s[m+1]
    <3>1. CASE p = m + 1
      BY <2>2, <2>3, <3>1
    <3>2. CASE p # m + 1
      <4>1. p \in 1..m /\ f[p] \in Nat
        BY <2>1, <3>2
      <4> QED BY <2>2, <2>3, <4>1
    <3> QED BY <3>1, <3>2
  <2> QED BY <2>2, <2>3, <2>4
<1>4. n \in T
  <2> HIDE DEF T
  <2> QED BY <1>2, <1>3, SetInduction
<1> QED BY <1>4 DEF SumTo, s

(* A function that is zero everywhere sums to zero. *)
LEMMA SumOfZeros ==
  ASSUME NEW n \in Nat, NEW f \in [1..n -> Int], \A k \in 1..n : f[k] = 0
  PROVE  SumTo(f, n) = 0
<1> DEFINE s == PrefixSums(f, n)
           T == {m \in Nat : m <= n => s[m] = 0}
<1> HIDE DEF s
<1>1. /\ s \in [0..n -> Int] /\ s[0] = 0
      /\ \A k \in 1..n : s[k] = s[k-1] + f[k]
  BY PrefixSumsValues DEF s
<1>2. 0 \in T
  BY <1>1
<1>3. ASSUME NEW m \in Nat, m \in T PROVE m + 1 \in T
  <2>1. SUFFICES ASSUME m + 1 <= n PROVE s[m+1] = 0
    OBVIOUS
  <2>2. m + 1 \in 1..n /\ s[m] = 0
    BY <1>3, <2>1
  <2> QED BY <1>1, <2>2
<1>4. n \in T
  <2> HIDE DEF T
  <2> QED BY <1>2, <1>3, SetInduction
<1> QED BY <1>4 DEF SumTo, s

(* A function with one value c everywhere sums to n * c. *)
LEMMA SumOfConstant ==
  ASSUME NEW n \in Nat, NEW c \in Int, NEW f \in [1..n -> Int],
         \A k \in 1..n : f[k] = c
  PROVE  SumTo(f, n) = n * c
<1> DEFINE s == PrefixSums(f, n)
           T == {m \in Nat : m <= n => s[m] = m * c}
<1> HIDE DEF s
<1>1. /\ s \in [0..n -> Int] /\ s[0] = 0
      /\ \A k \in 1..n : s[k] = s[k-1] + f[k]
  BY PrefixSumsValues DEF s
<1>2. 0 \in T
  BY <1>1
<1>3. ASSUME NEW m \in Nat, m \in T PROVE m + 1 \in T
  <2>1. SUFFICES ASSUME m + 1 <= n PROVE s[m+1] = (m+1) * c
    OBVIOUS
  <2>2. m + 1 \in 1..n /\ s[m] = m * c
    BY <1>3, <2>1
  <2>3. s[m+1] = m * c + c
    BY <1>1, <2>2
  <2>4. (m + 1) * c = m * c + c
    BY SMT
  <2> QED BY <2>3, <2>4
<1>4. n \in T
  <2> HIDE DEF T
  <2> QED BY <1>2, <1>3, SetInduction
<1> QED BY <1>4 DEF SumTo, s

\* Sums of functions of which each entry is at most the other's.
LEMMA SumMonotone ==
  ASSUME NEW n \in Nat, NEW f \in [1..n -> Int], NEW g \in [1..n -> Int],
         \A k \in 1..n : f[k] <= g[k]
  PROVE  SumTo(f, n) <= SumTo(g, n)
<1> DEFINE s == PrefixSums(f, n)
           r == PrefixSums(g, n)
           T == {m \in Nat : m <= n => s[m] <= r[m]}
<1> HIDE DEF s, r
<1>1. /\ s \in [0..n -> Int] /\ s[0] = 0
      /\ \A k \in 1..n : s[k] = s[k-1] + f[k]
  BY PrefixSumsValues DEF s
<1>2. /\ r \in [0..n -> Int] /\ r[0] = 0
      /\ \A k \in 1..n : r[k] = r[k-1] + g[k]
  BY PrefixSumsValues DEF r
<1>3. 0 \in T
  BY <1>1, <1>2
<1>4. ASSUME NEW m \in Nat, m \in T PROVE m + 1 \in T
  <2> SUFFICES ASSUME m + 1 <= n PROVE s[m+1] <= r[m+1]
    OBVIOUS
  <2>1. m + 1 \in 1..n /\ m \in 0..n /\ (m + 1) - 1 = m
    OBVIOUS
  <2>2. s[m+1] = s[m] + f[m+1] /\ r[m+1] = r[m] + g[m+1] /\ f[m+1] <= g[m+1]
    BY <1>1, <1>2, <2>1
  <2>3. s[m] <= r[m] /\ s[m] \in Int /\ r[m] \in Int /\ f[m+1] \in Int /\ g[m+1] \in Int
    <3>1. s[m] <= r[m]
      BY <1>4, <2>1
    <3>2. s[m] \in Int /\ r[m] \in Int
      BY ONLY <1>1, <1>2, <2>1
    <3>3. f[m+1] \in Int /\ g[m+1] \in Int
      BY <2>1
    <3> QED BY ONLY <3>1, <3>2, <3>3
  <2> QED BY ONLY <2>2, <2>3
<1>5. n \in T
  <2> HIDE DEF T
  <2> QED BY <1>3, <1>4, SetInduction
<1> QED BY <1>5 DEF s, r, SumTo

\* A constant factor of every entry is a factor of the sum.
LEMMA SumTimes ==
  ASSUME NEW n \in Nat, NEW f \in [1..n -> Int], NEW h \in [1..n -> Int],
         NEW a \in Int, \A k \in 1..n : h[k] = a * f[k]
  PROVE  SumTo(h, n) = a * SumTo(f, n)
<1> DEFINE s == PrefixSums(f, n)
           q == PrefixSums(h, n)
           T == {m \in Nat : m <= n => q[m] = a * s[m]}
<1> HIDE DEF s, q
<1>1. /\ s \in [0..n -> Int] /\ s[0] = 0
      /\ \A k \in 1..n : s[k] = s[k-1] + f[k]
  BY PrefixSumsValues DEF s
<1>2. /\ q \in [0..n -> Int] /\ q[0] = 0
      /\ \A k \in 1..n : q[k] = q[k-1] + h[k]
  BY PrefixSumsValues DEF q
<1>3. 0 \in T
  BY <1>1, <1>2
<1>4. ASSUME NEW m \in Nat, m \in T PROVE m + 1 \in T
  <2> SUFFICES ASSUME m + 1 <= n PROVE q[m+1] = a * s[m+1]
    OBVIOUS
  <2>1. m + 1 \in 1..n /\ m \in 0..n /\ (m + 1) - 1 = m
    OBVIOUS
  <2>2. s[m+1] = s[m] + f[m+1] /\ q[m+1] = q[m] + a * f[m+1] /\ q[m] = a * s[m]
    <3>1. s[m+1] = s[m] + f[m+1]
      BY ONLY <1>1, <2>1
    <3>2. q[m+1] = q[m] + h[m+1]
      BY ONLY <1>2, <2>1
    <3>3. h[m+1] = a * f[m+1]
      BY <2>1
    <3>4. q[m] = a * s[m]
      BY <1>4, <2>1
    <3> QED BY ONLY <3>1, <3>2, <3>3, <3>4
  <2>3. s[m] \in Int /\ f[m+1] \in Int
    BY <1>1, <2>1
  <2>4. \A x, y \in Int : a * (x + y) = a * x + a * y
    OBVIOUS
  <2> QED BY <2>2, <2>3, <2>4
<1>5. n \in T
  <2> HIDE DEF T
  <2> QED BY <1>3, <1>4, SetInduction
<1> QED BY <1>5 DEF s, q, SumTo

\* The sum of two functions added entry by entry.
LEMMA SumPlus ==
  ASSUME NEW n \in Nat, NEW f \in [1..n -> Int], NEW g \in [1..n -> Int],
         NEW h \in [1..n -> Int], \A k \in 1..n : h[k] = f[k] + g[k]
  PROVE  SumTo(h, n) = SumTo(f, n) + SumTo(g, n)
<1> DEFINE s == PrefixSums(f, n)
           r == PrefixSums(g, n)
           q == PrefixSums(h, n)
           T == {m \in Nat : m <= n => q[m] = s[m] + r[m]}
<1> HIDE DEF s, r, q
<1>1. /\ s \in [0..n -> Int] /\ s[0] = 0
      /\ \A k \in 1..n : s[k] = s[k-1] + f[k]
  BY PrefixSumsValues DEF s
<1>2. /\ r \in [0..n -> Int] /\ r[0] = 0
      /\ \A k \in 1..n : r[k] = r[k-1] + g[k]
  BY PrefixSumsValues DEF r
<1>3. /\ q \in [0..n -> Int] /\ q[0] = 0
      /\ \A k \in 1..n : q[k] = q[k-1] + h[k]
  BY PrefixSumsValues DEF q
<1>4. 0 \in T
  BY <1>1, <1>2, <1>3
<1>5. ASSUME NEW m \in Nat, m \in T PROVE m + 1 \in T
  <2> SUFFICES ASSUME m + 1 <= n PROVE q[m+1] = s[m+1] + r[m+1]
    OBVIOUS
  <2>1. m + 1 \in 1..n /\ m \in 0..n /\ (m + 1) - 1 = m
    OBVIOUS
  <2>2. s[m+1] = s[m] + f[m+1] /\ s[m] \in Int
    BY <1>1, <2>1
  <2>3. r[m+1] = r[m] + g[m+1] /\ r[m] \in Int
    BY <1>2, <2>1
  <2>4. q[m+1] = q[m] + h[m+1] /\ h[m+1] = f[m+1] + g[m+1]
    BY <1>3, <2>1
  <2>5. q[m] = s[m] + r[m]
    BY <1>5, <2>1
  <2>6. f[m+1] \in Int /\ g[m+1] \in Int
    BY <2>1
  <2> QED BY <2>2, <2>3, <2>4, <2>5, <2>6
<1>6. n \in T
  <2> HIDE DEF T
  <2> QED BY <1>4, <1>5, SetInduction
<1> QED BY <1>6 DEF s, r, q, SumTo

\* The sum of the steps of a function is the way from its first to its last value.
LEMMA SumTelescopes ==
  ASSUME NEW n \in Nat, NEW left \in [0..n -> Int], NEW h \in [1..n -> Int],
         \A k \in 1..n : h[k] = left[k-1] - left[k]
  PROVE  SumTo(h, n) = left[0] - left[n]
<1> DEFINE q == PrefixSums(h, n)
           T == {m \in Nat : m <= n => q[m] = left[0] - left[m]}
<1> HIDE DEF q
<1>1. /\ q \in [0..n -> Int] /\ q[0] = 0
      /\ \A k \in 1..n : q[k] = q[k-1] + h[k]
  BY PrefixSumsValues DEF q
<1>2. left[0] \in Int
  OBVIOUS
<1>3. 0 \in T
  BY <1>1, <1>2
<1>4. ASSUME NEW m \in Nat, m \in T PROVE m + 1 \in T
  <2> SUFFICES ASSUME m + 1 <= n PROVE q[m+1] = left[0] - left[m+1]
    OBVIOUS
  <2>1. m + 1 \in 1..n /\ m \in 0..n /\ (m + 1) - 1 = m
    OBVIOUS
  <2>2. q[m+1] = q[m] + h[m+1] /\ h[m+1] = left[m] - left[m+1]
    BY <1>1, <2>1
  <2>3. q[m] = left[0] - left[m]
    BY <1>4, <2>1
  <2>4. left[m] \in Int /\ left[m+1] \in Int
    BY <2>1
  <2> QED BY <1>2, <2>2, <2>3, <2>4
<1>5. n \in T
  <2> HIDE DEF T
  <2> QED BY <1>3, <1>4, SetInduction
<1> QED BY <1>5 DEF q, SumTo

\* A function with one more entry.
LEMMA SumAppend ==
  ASSUME NEW n \in Nat, NEW f \in [1..n -> Int], NEW g \in [1..(n+1) -> Int],
         \A k \in 1..n : g[k] = f[k]
  PROVE  SumTo(g, n + 1) = SumTo(f, n) + g[n+1]
<1> DEFINE s == PrefixSums(f, n)
           r == PrefixSums(g, n + 1)
           T == {m \in Nat : m <= n => r[m] = s[m]}
<1> HIDE DEF s, r
<1>1. /\ s \in [0..n -> Int] /\ s[0] = 0
      /\ \A k \in 1..n : s[k] = s[k-1] + f[k]
  BY PrefixSumsValues DEF s
<1>2. n + 1 \in Nat
  OBVIOUS
<1>3. /\ r \in [0..(n+1) -> Int] /\ r[0] = 0
      /\ \A k \in 1..(n+1) : r[k] = r[k-1] + g[k]
  BY <1>2, PrefixSumsValues DEF r
<1>4. 0 \in T
  BY <1>1, <1>3
<1>5. ASSUME NEW m \in Nat, m \in T PROVE m + 1 \in T
  <2> SUFFICES ASSUME m + 1 <= n PROVE r[m+1] = s[m+1]
    OBVIOUS
  <2>1. m + 1 \in 1..n /\ m + 1 \in 1..(n+1) /\ (m + 1) - 1 = m
    OBVIOUS
  <2>2. s[m+1] = s[m] + f[m+1]
    BY <1>1, <2>1
  <2>3. r[m+1] = r[m] + g[m+1]
    BY <1>3, <2>1
  <2>4. r[m] = s[m] /\ g[m+1] = f[m+1]
    BY <1>5, <2>1
  <2> QED BY <2>2, <2>3, <2>4
<1>6. n \in T
  <2> HIDE DEF T
  <2> QED BY <1>4, <1>5, SetInduction
<1>7. n + 1 \in 1..(n+1) /\ (n + 1) - 1 = n
  OBVIOUS
<1>8. r[n+1] = r[n] + g[n+1]
  BY <1>3, <1>7
<1>9. r[n] = s[n]
  BY <1>6
<1> QED BY <1>8, <1>9 DEF s, r, SumTo

-----------------------------------------------------------------------------
(* Quotients *)

\* A quotient, multiplied back.
LEMMA Quotient ==
  ASSUME NEW x \in Nat, NEW y \in Nat, y > 0
  PROVE  /\ x \div y \in Nat
         /\ (x \div y) * y <= x
         /\ x <= (x \div y) * y + (y - 1)
OBVIOUS

\* A factor above 0 can be cancelled.
LEMMA CancelFactor ==
  ASSUME NEW x \in Int, NEW y \in Int, NEW c \in Nat, c > 0, c * x <= c * y
  PROVE  x <= y
OBVIOUS

-----------------------------------------------------------------------------
(* settleParimutuel pays out what was staked, to the unit *)

\* What is left of U units of dust when the winners are counted by c and each
\* of them is offered one.
LEMMA DustHandedOut ==
  ASSUME NEW mk, NEW w, NEW bps, mk.n \in Nat,
         Dust(mk, w, bps) \in Nat,
         NEW c \in [0..mk.n -> Int], c[0] = 0,
         \A k \in 1..mk.n : c[k] = c[k-1] + (IF Wins(mk, w, k) THEN 1 ELSE 0)
  PROVE  /\ DustLeft(mk, w, bps) \in [0..mk.n -> Nat]
         /\ DustLeft(mk, w, bps)[0] = Dust(mk, w, bps)
         /\ \A k \in 1..mk.n : DustLeft(mk, w, bps)[k] <= DustLeft(mk, w, bps)[k-1]
         /\ \A k \in 1..mk.n :
              DustLeft(mk, w, bps)[k] # DustLeft(mk, w, bps)[k-1] => Wins(mk, w, k)
         /\ Dust(mk, w, bps) <= c[mk.n] => DustLeft(mk, w, bps)[mk.n] = 0
         /\ \A k \in 1..mk.n :
              DustLeft(mk, w, bps)[k-1] - DustLeft(mk, w, bps)[k] \in {0, 1}
<1> DEFINE n == mk.n
           U == Dust(mk, w, bps)
           Equation(f) == f = [k \in 0..n |->
             IF k = 0 THEN U
             ELSE IF Wins(mk, w, k) /\ f[k-1] > 0 THEN f[k-1] - 1 ELSE f[k-1]]
           closed == [k \in 0..n |-> IF U > c[k] THEN U - c[k] ELSE 0]
<1>1. Equation(closed)
  <2>1. ASSUME NEW k \in 0..n
        PROVE  closed[k] = IF k = 0 THEN U
                           ELSE IF Wins(mk, w, k) /\ closed[k-1] > 0
                                THEN closed[k-1] - 1 ELSE closed[k-1]
    <3>1. CASE k = 0
      BY <3>1
    <3>2. CASE k # 0
      <4>1. k \in 1..n /\ k - 1 \in 0..n
        BY <3>2
      <4>2. c[k] = c[k-1] + (IF Wins(mk, w, k) THEN 1 ELSE 0) /\ c[k-1] \in Int
        BY <4>1
      <4>3. /\ closed[k] = IF U > c[k] THEN U - c[k] ELSE 0
            /\ closed[k-1] = IF U > c[k-1] THEN U - c[k-1] ELSE 0
        BY <4>1
      <4> HIDE DEF closed, U
      <4>4. U \in Nat
        BY DEF U
      <4> QED BY ONLY <3>2, <4>2, <4>3, <4>4
    <3> QED BY <3>1, <3>2
  <2> HIDE DEF U
  <2>2. closed = [k \in 0..n |-> closed[k]]
    OBVIOUS
  <2> HIDE DEF closed
  <2> QED BY <2>1, <2>2
<1>2. Equation(DustLeft(mk, w, bps))
  <2>1. DustLeft(mk, w, bps) = CHOOSE f : Equation(f)
    BY DEF DustLeft
  <2> HIDE DEF Equation, closed
  <2> QED BY <1>1, <2>1
<1> DEFINE left == DustLeft(mk, w, bps)
           T == {m \in Nat : m <= n =>
                   left[m] \in Nat /\ left[m] = IF U > c[m] THEN U - c[m] ELSE 0}
<1> HIDE DEF left, U, closed
<1>3. U \in Nat
  BY DEF U
<1>4. left[0] = U
  BY <1>2 DEF left
<1>5. ASSUME NEW k \in 1..n
      PROVE  left[k] = IF Wins(mk, w, k) /\ left[k-1] > 0 THEN left[k-1] - 1 ELSE left[k-1]
  BY <1>2 DEF left
<1>6. 0 \in T
  BY <1>3, <1>4
<1>7. ASSUME NEW m \in Nat, m \in T PROVE m + 1 \in T
  <2> SUFFICES ASSUME m + 1 <= n
               PROVE  /\ left[m+1] \in Nat
                      /\ left[m+1] = IF U > c[m+1] THEN U - c[m+1] ELSE 0
    OBVIOUS
  <2>1. m + 1 \in 1..n /\ m \in 0..n /\ (m + 1) - 1 = m
    OBVIOUS
  <2>2. left[m+1] = IF Wins(mk, w, m+1) /\ left[m] > 0 THEN left[m] - 1 ELSE left[m]
    BY <1>5, <2>1
  <2>3. left[m] \in Nat /\ left[m] = IF U > c[m] THEN U - c[m] ELSE 0
    BY <1>7, <2>1
  <2>4. c[m+1] = c[m] + (IF Wins(mk, w, m+1) THEN 1 ELSE 0) /\ c[m] \in Int
    BY <2>1
  <2> QED BY ONLY <1>3, <2>2, <2>3, <2>4
<1>8. \A m \in Nat : m \in T
  <2> HIDE DEF T
  <2> QED BY <1>6, <1>7, SetInduction
<1>9. /\ \A k \in 0..n : left[k] \in Nat
      /\ left[n] = IF U > c[n] THEN U - c[n] ELSE 0
  BY <1>8
<1>10. ASSUME NEW k \in 1..n
       PROVE  /\ left[k] <= left[k-1] /\ left[k-1] - left[k] \in {0, 1}
              /\ ~Wins(mk, w, k) => left[k] = left[k-1]
  <2>1. left[k-1] \in Nat
    BY <1>9
  <2> QED BY <1>5, <2>1
<1>11. left \in [0..n -> Nat]
  BY <1>2, <1>9 DEF left
<1>12. c[n] \in Int
  OBVIOUS
<1> QED BY <1>3, <1>4, <1>9, <1>10, <1>11, <1>12 DEF left, U

Bps == 0..10000

\* The winners' stakes are some of the stakes, and the rake some of the others.
LEMMA PoolSplit ==
  ASSUME NEW mk, mk.n \in Nat, mk.stake \in [1..mk.n -> Nat],
         NEW w, NEW bps \in Bps
  PROVE  /\ WinnersStake(mk, w) \in Nat /\ Gross(mk) \in Nat
         /\ LosersStake(mk, w) \in Nat
         /\ RakeOf(mk, w, bps) \in Nat /\ Distributable(mk, w, bps) \in Nat
<1> DEFINE n == mk.n
           won == [p \in 1..n |-> IF Wins(mk, w, p) THEN mk.stake[p] ELSE 0]
           L == LosersStake(mk, w)
<1>1. won \in [1..n -> Nat] /\ \A p \in 1..n : won[p] <= mk.stake[p]
  OBVIOUS
<1>2. won \in [1..n -> Int] /\ mk.stake \in [1..n -> Int]
  BY <1>1
<1>3. SumTo(won, n) <= SumTo(mk.stake, n)
  <2> HIDE DEF won
  <2> QED BY <1>1, <1>2, SumMonotone
<1>4. SumTo(won, n) \in Nat /\ SumTo(mk.stake, n) \in Nat
  <2> HIDE DEF won
  <2>0. n \in Nat /\ won \in [1..n -> Nat] /\ mk.stake \in [1..n -> Nat]
    BY <1>1
  <2> HIDE DEF n
  <2>1. SumTo(won, n) \in Nat
    BY <2>0, SumGeqElement
  <2>2. SumTo(mk.stake, n) \in Nat
    BY <2>0, SumGeqElement
  <2> QED BY <2>1, <2>2
<1>5. WinnersStake(mk, w) \in Nat /\ Gross(mk) \in Nat /\ WinnersStake(mk, w) <= Gross(mk)
  BY <1>3, <1>4 DEF WinnersStake, Gross
<1>6. L \in Nat
  BY <1>5 DEF LosersStake
<1> HIDE DEF L
<1>7. ASSUME NEW x \in Nat PROVE (x * bps) \div 10000 \in Nat /\ (x * bps) \div 10000 <= x
  <2>1. x * bps \in Nat /\ x * bps <= x * 10000
    <3>1. bps \in Nat /\ bps <= 10000
      BY DEF Bps
    <3> QED BY ONLY <3>1, x \in Nat
  <2> DEFINE m == x * bps
  <2>2. m \in Nat /\ m <= x * 10000
    BY <2>1
  <2> HIDE DEF m
  <2>3. m \div 10000 \in Nat /\ m \div 10000 <= x
    BY <2>2
  <2> QED BY <2>3 DEF m
<1>8. (L * bps) \div 10000 \in Nat /\ (L * bps) \div 10000 <= L
  BY ONLY <1>6, <1>7
<1>9. RakeOf(mk, w, bps) = (L * bps) \div 10000
  BY DEF L, RakeOf
<1> DEFINE R == RakeOf(mk, w, bps)
<1>10. R \in Nat /\ R <= L
  BY <1>8, <1>9
<1>11. Distributable(mk, w, bps) = L - R
  BY DEF Distributable, L
<1> HIDE DEF R
<1>12. L - R \in Nat
  BY <1>6, <1>10
<1> QED BY <1>5, <1>6, <1>10, <1>11, <1>12 DEF L, R

\* What floors of W-ths of D * won lose: less than one unit for each that is counted.
LEMMA FloorsFallShort ==
  ASSUME NEW n \in Nat, NEW won \in [1..n -> Nat], NEW one \in [1..n -> Nat],
         NEW share \in [1..n -> Nat], NEW W \in Nat, NEW D \in Nat,
         W > 0, W = SumTo(won, n),
         \A p \in 1..n : /\ W * share[p] <= D * won[p]
                        /\ D * won[p] <= W * share[p] + (W - 1) * one[p]
  PROVE  /\ SumTo(one, n) \in Nat
         /\ D - SumTo(share, n) \in Nat
         /\ D - SumTo(share, n) <= SumTo(one, n)
<1> DEFINE S == SumTo(share, n)
           C == SumTo(one, n)
           least == [p \in 1..n |-> W * share[p]]
           exact == [p \in 1..n |-> D * won[p]]
           extra == [p \in 1..n |-> (W - 1) * one[p]]
           most == [p \in 1..n |-> least[p] + extra[p]]
<1>1. S \in Nat /\ C \in Nat
  BY SumGeqElement
<1>2. share \in [1..n -> Int] /\ won \in [1..n -> Int] /\ one \in [1..n -> Int]
  OBVIOUS
<1>3. \A x, y \in Int : x * y \in Int
  OBVIOUS
<1>4. least \in [1..n -> Int] /\ exact \in [1..n -> Int] /\ extra \in [1..n -> Int]
  <2>1. W \in Int /\ D \in Int /\ W - 1 \in Int
    OBVIOUS
  <2>2. least \in [1..n -> Int]
    BY ONLY <1>2, <1>3, <2>1
  <2>3. exact \in [1..n -> Int]
    BY ONLY <1>2, <1>3, <2>1
  <2>4. extra \in [1..n -> Int]
    BY ONLY <1>2, <1>3, <2>1
  <2> QED BY <2>2, <2>3, <2>4
<1>5. \A p \in 1..n : /\ least[p] = W * share[p]
                     /\ exact[p] = D * won[p]
                     /\ extra[p] = (W - 1) * one[p]
  OBVIOUS
<1>6. \A p \in 1..n : least[p] <= exact[p] /\ exact[p] <= least[p] + extra[p]
  BY <1>5
<1> HIDE DEF least, exact, extra
<1>7. SumTo(least, n) = W * S
  <2>1. W \in Int /\ \A p \in 1..n : least[p] = W * share[p]
    BY <1>5
  <2> HIDE DEF S
  <2> QED BY <1>2, <1>4, <2>1, SumTimes DEF S
<1>8. SumTo(exact, n) = D * W
  <2>1. D \in Int /\ \A p \in 1..n : exact[p] = D * won[p]
    BY <1>5
  <2> QED BY <1>2, <1>4, <2>1, SumTimes
<1>9. SumTo(extra, n) = (W - 1) * C
  <2>1. W - 1 \in Int /\ \A p \in 1..n : extra[p] = (W - 1) * one[p]
    BY <1>5
  <2> QED BY <1>2, <1>4, <2>1, SumTimes
<1>10. /\ most \in [1..n -> Int]
       /\ \A p \in 1..n : most[p] = least[p] + extra[p]
       /\ \A p \in 1..n : exact[p] <= most[p]
  <2>1. \A p \in 1..n : least[p] + extra[p] \in Int
    BY <1>4
  <2>2. most \in [1..n -> Int] /\ \A p \in 1..n : most[p] = least[p] + extra[p]
    BY <2>1
  <2> HIDE DEF most
  <2> QED BY <1>6, <2>2
<1> HIDE DEF most
<1>11. SumTo(most, n) = SumTo(least, n) + SumTo(extra, n)
  BY <1>4, <1>10, SumPlus
<1>12. SumTo(least, n) <= SumTo(exact, n)
  BY <1>4, <1>6, SumMonotone
<1>13. SumTo(exact, n) <= SumTo(most, n)
  BY <1>4, <1>10, SumMonotone
<1> HIDE DEF S, C
<1>14. W * S <= W * D /\ W * D <= W * (S + C)
  <2>1. /\ D * W = W * D /\ W * S \in Int /\ W * D \in Int /\ W * C \in Int
        /\ (W - 1) * C = W * C - C
        /\ W * (S + C) = W * S + W * C
    <3>1. W \in Int /\ D \in Int /\ S \in Int /\ C \in Int
      BY <1>1
    <3>2. D * W = W * D /\ W * S \in Int /\ W * D \in Int /\ W * C \in Int
      BY ONLY <3>1
    <3>3. (W - 1) * C = W * C - C
      BY ONLY <3>1
    <3>4. W * (S + C) = W * S + W * C
      BY ONLY <3>1
    <3> QED BY ONLY <3>2, <3>3, <3>4
  <2>2. W * S <= W * D /\ W * D <= W * S + (W - 1) * C
    BY <1>7, <1>8, <1>9, <1>11, <1>12, <1>13, <2>1
  <2> DEFINE u == W * S
             v == W * D
             x == W * C
  <2>3. u \in Int /\ v \in Int /\ x \in Int /\ u <= v /\ v <= u + (x - C) /\ W * (S + C) = u + x
    BY <2>1, <2>2
  <2> HIDE DEF u, v, x
  <2>4. u <= v /\ v <= u + x
    BY <1>1, <2>3
  <2> QED BY <2>3, <2>4 DEF u, v, x
<1>15. S <= D /\ D <= S + C
  <2>1. S \in Int /\ D \in Int /\ S + C \in Int
    BY <1>1
  <2> QED BY <1>14, <2>1, CancelFactor
<1> QED BY <1>1, <1>15 DEF S, C

\* The floors of the shares together fall short of what is distributable by
\* at most one unit per winner.
LEMMA DustIsSmall ==
  ASSUME NEW mk, mk.n \in Nat, mk.stake \in [1..mk.n -> Nat],
         NEW w, NEW bps \in Bps, WinnersStake(mk, w) # 0
  PROVE  /\ Shares(mk, w, bps) \in [1..mk.n -> Nat]
         /\ Dust(mk, w, bps) \in Nat
         /\ Dust(mk, w, bps) <= SumTo([p \in 1..mk.n |-> IF Wins(mk, w, p) THEN 1 ELSE 0], mk.n)
<1> DEFINE n == mk.n
           won == [p \in 1..n |-> IF Wins(mk, w, p) THEN mk.stake[p] ELSE 0]
           one == [p \in 1..n |-> IF Wins(mk, w, p) THEN 1 ELSE 0]
           share == Shares(mk, w, bps)
           W == WinnersStake(mk, w)
           D == Distributable(mk, w, bps)
<1>1. W \in Nat /\ W > 0 /\ D \in Nat
  <2>1. W \in Nat /\ D \in Nat
    BY PoolSplit
  <2>2. W # 0
    OBVIOUS
  <2> HIDE DEF W, D
  <2> QED BY <2>1, <2>2
<1>2. W = SumTo(won, n)
  BY DEF WinnersStake
<1>3. ASSUME NEW p \in 1..n
      PROVE  share[p] = IF Wins(mk, w, p) THEN (D * mk.stake[p]) \div W ELSE 0
  BY DEF Shares, Share
<1>4. DOMAIN share = 1..n /\ share = [p \in 1..n |-> share[p]]
  BY DEF Shares
<1>5. won \in [1..n -> Nat] /\ one \in [1..n -> Nat]
  OBVIOUS
<1>6. \A p \in 1..n :
        /\ Wins(mk, w, p) => won[p] = mk.stake[p] /\ one[p] = 1
        /\ ~Wins(mk, w, p) => won[p] = 0 /\ one[p] = 0
  OBVIOUS
<1> HIDE DEF W, D, won, one, share
<1>7. ASSUME NEW p \in 1..n
      PROVE  /\ share[p] \in Nat
             /\ W * share[p] <= D * won[p]
             /\ D * won[p] <= W * share[p] + (W - 1) * one[p]
  <2>1. CASE Wins(mk, w, p)
    <3> DEFINE x == D * mk.stake[p]
               q == x \div W
    <3>1. mk.stake[p] \in Nat
      OBVIOUS
    <3>2. x \in Nat
      BY <1>1, <3>1
    <3>3. share[p] = q /\ D * won[p] = x /\ one[p] = 1
      BY <1>3, <1>6, <2>1
    <3> HIDE DEF x
    <3>4. q \in Nat /\ q * W <= x /\ x <= q * W + (W - 1)
      BY <1>1, <3>2, Quotient
    <3> HIDE DEF q
    <3>5. q * W = W * q /\ (W - 1) * 1 = W - 1
      BY <1>1, <3>4
    <3> QED BY <3>3, <3>4, <3>5
  <2>2. CASE ~Wins(mk, w, p)
    <3>1. share[p] = 0 /\ won[p] = 0 /\ one[p] = 0
      BY <1>3, <1>6, <2>2
    <3>2. W * 0 = 0 /\ D * 0 = 0 /\ (W - 1) * 0 = 0
      BY <1>1
    <3> QED BY <3>1, <3>2
  <2> QED BY <2>1, <2>2
<1>8. share \in [1..n -> Nat]
  BY <1>4, <1>7
<1>9. SumTo(one, n) \in Nat /\ D - SumTo(share, n) \in Nat
      /\ D - SumTo(share, n) <= SumTo(one, n)
  <2>1. n \in Nat
    OBVIOUS
  <2> HIDE DEF n
  <2>2. W \in Nat /\ D \in Nat /\ W > 0 /\ W = SumTo(won, n)
    BY <1>1, <1>2
  <2>3. \A p \in 1..n : /\ W * share[p] <= D * won[p]
                       /\ D * won[p] <= W * share[p] + (W - 1) * one[p]
    BY <1>7
  <2> QED BY <1>5, <1>8, <2>1, <2>2, <2>3, FloorsFallShort
<1>10. Dust(mk, w, bps) = D - SumTo(share, n)
  BY DEF Dust, D, share
<1> QED BY <1>8, <1>9, <1>10 DEF one, share

\* A payout is an integer.
LEMMA PayoutType ==
  ASSUME NEW mk, mk.n \in Nat, mk.stake \in [1..mk.n -> Nat],
         NEW w, NEW bps \in Bps, WinnersStake(mk, w) # 0
  PROVE  [p \in 1..mk.n |-> Payout(mk, w, bps, p)] \in [1..mk.n -> Int]
<1>1. Shares(mk, w, bps) \in [1..mk.n -> Nat] /\ Dust(mk, w, bps) \in Nat
  BY DustIsSmall
<1> DEFINE one == [p \in 1..mk.n |-> IF Wins(mk, w, p) THEN 1 ELSE 0]
           c == PrefixSums(one, mk.n)
<1>2. one \in [1..mk.n -> Int]
  OBVIOUS
<1>3. c \in [0..mk.n -> Int] /\ c[0] = 0 /\ \A k \in 1..mk.n : c[k] = c[k-1] + one[k]
  <2>1. mk.n \in Nat
    OBVIOUS
  <2> HIDE DEF one
  <2> QED BY <1>2, <2>1, PrefixSumsValues
<1>4. \A k \in 1..mk.n : c[k] = c[k-1] + (IF Wins(mk, w, k) THEN 1 ELSE 0)
  BY <1>3
<1> HIDE DEF c
<1>5. DustLeft(mk, w, bps) \in [0..mk.n -> Nat]
  BY <1>1, <1>3, <1>4, DustHandedOut
<1>6. ASSUME NEW p \in 1..mk.n PROVE Payout(mk, w, bps, p) \in Int
  <2>1. Share(mk, w, bps, p) \in Nat
    BY <1>1 DEF Shares
  <2>2. p - 1 \in 0..mk.n /\ p \in 0..mk.n
    OBVIOUS
  <2>3. DustLeft(mk, w, bps)[p-1] \in Nat /\ DustLeft(mk, w, bps)[p] \in Nat
    BY <1>5, <2>2
  <2>4. mk.stake[p] \in Nat
    OBVIOUS
  <2> QED BY ONLY <2>1, <2>3, <2>4 DEF Payout
<1> QED BY <1>6

\* The payouts and the rake are exactly the stakes (parimutuel.ts: the dust goes
\* to winners, one unit each, so nothing is left and nothing is owed).
LEMMA ParimutuelExact ==
  ASSUME NEW mk, mk.n \in Nat, mk.stake \in [1..mk.n -> Nat],
         NEW w, NEW bps \in Bps, WinnersStake(mk, w) # 0,
         NEW pay \in [1..mk.n -> Int],
         \A p \in 1..mk.n : pay[p] = Payout(mk, w, bps, p)
  PROVE  /\ \A p \in 1..mk.n : pay[p] \in Nat
         /\ SumTo(pay, mk.n) + RakeOf(mk, w, bps) = Gross(mk)
<1> DEFINE n == mk.n
           won == [p \in 1..n |-> IF Wins(mk, w, p) THEN mk.stake[p] ELSE 0]
           one == [p \in 1..n |-> IF Wins(mk, w, p) THEN 1 ELSE 0]
           share == Shares(mk, w, bps)
           left == DustLeft(mk, w, bps)
           U == Dust(mk, w, bps)
           D == Distributable(mk, w, bps)
           W == WinnersStake(mk, w)
           G == Gross(mk)
           R == RakeOf(mk, w, bps)
           c == PrefixSums(one, n)
<1>1. /\ W \in Nat /\ G \in Nat /\ R \in Nat /\ D \in Nat
  BY PoolSplit
<1>2. /\ share \in [1..n -> Nat] /\ U \in Nat /\ U <= SumTo(one, n)
  BY DustIsSmall
<1>3. D = (G - W) - R
  BY DEF Distributable, LosersStake
<1>4. W = SumTo(won, n) /\ U = D - SumTo(share, n) /\ n \in Nat
  BY DEF WinnersStake, Dust
<1>5. won \in [1..n -> Nat] /\ one \in [1..n -> Nat] /\ one \in [1..n -> Int]
  OBVIOUS
<1>6. c \in [0..n -> Int] /\ c[0] = 0 /\ \A k \in 1..n : c[k] = c[k-1] + one[k]
  <2> HIDE DEF one, n
  <2> QED BY <1>4, <1>5, PrefixSumsValues
<1>7. c[n] = SumTo(one, n)
  BY DEF SumTo
<1>8. /\ left \in [0..n -> Nat] /\ left[0] = U /\ left[n] = 0
      /\ \A k \in 1..n : /\ left[k] <= left[k-1]
                         /\ ~Wins(mk, w, k) => left[k] = left[k-1]
  <2>1. \A k \in 1..n : c[k] = c[k-1] + (IF Wins(mk, w, k) THEN 1 ELSE 0)
    BY <1>6
  <2>2. U \in Nat /\ U <= c[n]
    BY <1>2, <1>7
  <2> HIDE DEF c
  <2>3. c \in [0..mk.n -> Int] /\ c[0] = 0
    BY <1>6
  <2>4. left \in [0..mk.n -> Nat] /\ left[0] = U
    BY <2>1, <2>2, <2>3, DustHandedOut
  <2>5. \A k \in 1..mk.n : left[k] <= left[k-1]
    BY <2>1, <2>2, <2>3, DustHandedOut
  <2>7. \A k \in 1..mk.n : left[k] # left[k-1] => Wins(mk, w, k)
    BY <2>1, <2>2, <2>3, DustHandedOut
  <2>6. left[mk.n] = 0
    BY <2>1, <2>2, <2>3, DustHandedOut
  <2> QED BY <2>4, <2>5, <2>6, <2>7
<1>9. ASSUME NEW p \in 1..n
      PROVE  pay[p] = won[p] + share[p] + (left[p-1] - left[p])
  <2>1. share[p] = Share(mk, w, bps, p) /\ pay[p] = Payout(mk, w, bps, p)
    BY DEF Shares
  <2>2. CASE Wins(mk, w, p)
    BY <2>1, <2>2 DEF Payout
  <2>3. CASE ~Wins(mk, w, p)
    <3>1. pay[p] = 0 /\ share[p] = 0 /\ won[p] = 0
      BY <2>1, <2>3 DEF Payout, Share
    <3>2. left[p] = left[p-1]
      BY <1>8, <2>3
    <3>3. left[p-1] \in Nat
      <4>1. p - 1 \in 0..n
        BY <1>4
      <4> QED BY ONLY <1>8, <4>1
    <3> QED BY <3>1, <3>2, <3>3
  <2> QED BY <2>2, <2>3
<1> HIDE DEF won, one, share, left, U, D, W, G, R, c
<1>10. ASSUME NEW p \in 1..n
       PROVE  /\ pay[p] \in Nat /\ won[p] \in Nat /\ share[p] \in Nat
              /\ left[p-1] \in Nat /\ left[p] \in Nat
  <2>1. won[p] \in Nat /\ share[p] \in Nat
    BY <1>2, <1>5
  <2>2. left[p-1] \in Nat /\ left[p] \in Nat /\ left[p] <= left[p-1]
    <3>1. p - 1 \in 0..n /\ p \in 0..n /\ p \in 1..n
      BY <1>4
    <3> QED BY ONLY <1>8, <3>1
  <2>3. pay[p] = won[p] + share[p] + (left[p-1] - left[p])
    BY <1>9
  <2> QED BY ONLY <2>1, <2>2, <2>3
<1> DEFINE handed == [p \in 1..n |-> left[p-1] - left[p]]
           base == [p \in 1..n |-> won[p] + share[p]]
<1>11. won \in [1..n -> Int] /\ share \in [1..n -> Int] /\ pay \in [1..n -> Int] /\ n \in Nat
  BY <1>2, <1>4, <1>5
<1>12. left \in [0..n -> Int]
  BY <1>8
<1>13. handed \in [1..n -> Int] /\ \A p \in 1..n : handed[p] = left[p-1] - left[p]
  <2>1. \A p \in 1..n : left[p-1] - left[p] \in Int
    BY <1>10
  <2> QED BY <2>1
<1>14. base \in [1..n -> Int] /\ \A p \in 1..n : base[p] = won[p] + share[p]
  <2>1. \A p \in 1..n : won[p] + share[p] \in Int
    BY <1>10
  <2> QED BY <2>1
<1>15. \A p \in 1..n : pay[p] = base[p] + handed[p]
  BY <1>9, <1>13, <1>14
<1> HIDE DEF handed, base, n
<1>16. SumTo(base, n) = SumTo(won, n) + SumTo(share, n)
  BY <1>11, <1>14, SumPlus
<1>17. SumTo(handed, n) = left[0] - left[n]
  BY <1>11, <1>12, <1>13, SumTelescopes
<1>x. SumTo(pay, n) = SumTo(base, n) + SumTo(handed, n)
  BY <1>11, <1>13, <1>14, <1>15, SumPlus
<1>18. SumTo(pay, n) = SumTo(won, n) + SumTo(share, n) + (U - left[n])
  BY <1>8, <1>16, <1>17, <1>x DEF n
<1>19. SumTo(share, n) \in Int
  BY <1>11, SumType
<1>20. SumTo(pay, n) + R = G
  <2>1. SumTo(pay, n) = W + SumTo(share, n) + U
    <3>1. left[n] = 0 /\ U \in Nat
      BY <1>2, <1>8 DEF n
    <3>2. W \in Nat /\ W = SumTo(won, n)
      BY <1>1, <1>4
    <3> QED BY <1>18, <1>19, <3>1, <3>2
  <2>2. U = D - SumTo(share, n)
    BY <1>4
  <2> QED BY <1>1, <1>3, <1>19, <2>1, <2>2
<1> QED BY <1>10, <1>20 DEF n, R, G

=============================================================================
