---------------------------- MODULE NumberProofs ----------------------------
(***************************************************************************)
(* The theorems on linear memory, on LEB128 and on the numeric opcodes,    *)
(* for every size of a byte, a digit, an int and an address space, and the *)
(* lemmas on numbers they rest on: that a recursive function on the        *)
(* natural numbers has the values its equations say, that digits stand for *)
(* one number, that the bits of a register, cut up into digits, stand for  *)
(* the same one, and what shifts, masks and divisions do to them.          *)
(***************************************************************************)
EXTENDS Memory, Leb128, Numeric, WellFoundedInduction, FiniteSetTheorems, SequenceTheorems, TLAPS

----------------------------------------------------------------------------
(* Induction, by a least counterexample *)

\* A set of natural numbers has a least one.
LEMMA LeastNatural ==
  ASSUME NEW T \in SUBSET Nat, T # {}
  PROVE  \E x \in T : \A y \in T : x <= y
<1>1. PICK x \in T : \A y \in T : ~ (<<y, x>> \in OpToRel(<, Nat))
  BY WFMin, NatLessThanWellFounded
<1>2. \A y \in T : ~ (y < x)
  BY <1>1 DEF OpToRel
<1> QED
  BY <1>2

\* A set with 0 and the successor of each of its members has them all.
LEMMA Induction ==
  ASSUME NEW T, 0 \in T, \A n \in Nat : n \in T => n + 1 \in T
  PROVE  \A n \in Nat : n \in T
<1> SUFFICES ASSUME Nat \ T # {} PROVE FALSE
  OBVIOUS
<1>1. PICK m \in Nat \ T : \A n \in Nat \ T : m <= n
  BY LeastNatural
<1>2. m # 0
  OBVIOUS
<1>3. m - 1 \in Nat /\ ~(m <= m - 1) /\ (m - 1) + 1 = m
  BY <1>2
<1>4. m - 1 \in T
  BY <1>1, <1>3
<1> QED
  BY <1>3, <1>4

\* A solution of the equations of a recursive function, for the first n numbers.
Solves(g, n, c, F) ==
  /\ g[0] = c
  /\ \A k \in 0..n - 1 : g[k + 1] = F[k][g[k]]

\* There is one, and only one.
LEMMA Solvable ==
  ASSUME NEW T, NEW c \in T, NEW F \in [Nat -> [T -> T]], NEW n \in Nat
  PROVE  /\ \E g \in [0..n -> T] : Solves(g, n, c, F)
         /\ \A g, h \in [0..n -> T] : Solves(g, n, c, F) /\ Solves(h, n, c, F) => g = h
<1> DEFINE Good == {k \in Nat : /\ \E g \in [0..k -> T] : Solves(g, k, c, F)
                                /\ \A g, h \in [0..k -> T] : Solves(g, k, c, F) /\ Solves(h, k, c, F) => g = h}
<1>1. 0 \in Good
  <2>1. Solves([k \in 0..0 |-> c], 0, c, F) /\ [k \in 0..0 |-> c] \in [0..0 -> T]
    BY DEF Solves
  <2>2. ASSUME NEW g \in [0..0 -> T], NEW h \in [0..0 -> T], Solves(g, 0, c, F), Solves(h, 0, c, F)
        PROVE  g = h
    <3>1. \A k \in 0..0 : g[k] = h[k]
      BY <2>2 DEF Solves
    <3> QED
      BY <3>1
  <2> QED
    BY <2>1, <2>2
<1>2. ASSUME NEW k \in Nat, k \in Good PROVE k + 1 \in Good
  <2>1. PICK g \in [0..k -> T] : Solves(g, k, c, F)
    BY <1>2
  <2>2. \A h, j \in [0..k -> T] : Solves(h, k, c, F) /\ Solves(j, k, c, F) => h = j
    BY <1>2
  <2> DEFINE G == [i \in 0..k + 1 |-> IF i <= k THEN g[i] ELSE F[k][g[k]]]
  <2>3. G \in [0..k + 1 -> T] /\ Solves(G, k + 1, c, F)
    <3>1. g[k] \in T /\ F[k][g[k]] \in T
      OBVIOUS
    <3>2. G \in [0..k + 1 -> T]
      BY <3>1
    <3>3. G[0] = c
      BY <2>1 DEF Solves
    <3>4. ASSUME NEW i \in 0..k PROVE G[i + 1] = F[i][G[i]]
      <4>1. CASE i = k
        BY <4>1
      <4>2. CASE i # k
        <5>1. i \in 0..k - 1 /\ i + 1 \in 0..k
          BY <4>2
        <5>2. g[i + 1] = F[i][g[i]]
          BY <2>1, <5>1 DEF Solves
        <5> QED
          BY <5>1, <5>2
      <4> QED
        BY <4>1, <4>2
    <3>5. 0..(k + 1) - 1 = 0..k
      OBVIOUS
    <3> HIDE DEF G
    <3> QED
      BY <3>2, <3>3, <3>4, <3>5 DEF Solves
  <2>4. ASSUME NEW h \in [0..k + 1 -> T], NEW j \in [0..k + 1 -> T],
               Solves(h, k + 1, c, F), Solves(j, k + 1, c, F)
        PROVE  h = j
    <3> DEFINE Short(f) == [i \in 0..k |-> f[i]]
    <3>1. Short(h) \in [0..k -> T] /\ Short(j) \in [0..k -> T]
      OBVIOUS
    <3>2. Solves(Short(h), k, c, F) /\ Solves(Short(j), k, c, F)
      <4>1. \A i \in 0..k - 1 : i \in 0..k /\ i + 1 \in 0..k
        OBVIOUS
      <4> QED
        BY <2>4, <4>1 DEF Solves
    <3>3. Short(h) = Short(j)
      BY <2>2, <3>1, <3>2, Zenon
    <3>4. \A i \in 0..k : h[i] = j[i]
      BY <3>3
    <3>5. h[k + 1] = F[k][h[k]] /\ j[k + 1] = F[k][j[k]]
      BY <2>4 DEF Solves
    <3>6. \A i \in 0..k + 1 : h[i] = j[i]
      <4>1. h[k] = j[k]
        BY <3>4
      <4>2. \A i \in 0..k + 1 : i \in 0..k \/ i = k + 1
        OBVIOUS
      <4> QED
        BY <3>4, <3>5, <4>1, <4>2, Zenon
    <3> QED
      BY <3>6
  <2> QED
    BY <2>3, <2>4
<1>3. \A k \in Nat : k \in Good
  <2> HIDE DEF Good
  <2> QED
    BY <1>1, <1>2, Induction
<1> QED
  BY <1>3

SolvesAll(g, c, F) == g[0] = c /\ \A k \in Nat : g[k + 1] = F[k][g[k]]

\* The equations have a solution for all numbers.
LEMMA RecursiveFunction ==
  ASSUME NEW T, NEW c \in T, NEW F \in [Nat -> [T -> T]]
  PROVE  \E g \in [Nat -> T] : SolvesAll(g, c, F)
<1> DEFINE Some(n) == CHOOSE g \in [0..n -> T] : Solves(g, n, c, F)
           G == [n \in Nat |-> Some(n)[n]]
<1>1. ASSUME NEW n \in Nat PROVE Some(n) \in [0..n -> T] /\ Solves(Some(n), n, c, F)
  <2>1. \E g \in [0..n -> T] : Solves(g, n, c, F)
    BY Solvable
  <2> QED
    BY <2>1, Zenon
<1> HIDE DEF Some
<1>2. G \in [Nat -> T]
  <2>1. ASSUME NEW n \in Nat PROVE Some(n)[n] \in T
    BY <1>1
  <2> QED
    BY <2>1
<1>3. G[0] = c
  BY <1>1 DEF Solves
<1>4. ASSUME NEW k \in Nat PROVE G[k + 1] = F[k][G[k]]
  <2> DEFINE h == [i \in 0..k |-> Some(k + 1)[i]]
  <2>1. Some(k + 1) \in [0..k + 1 -> T] /\ Solves(Some(k + 1), k + 1, c, F)
    BY <1>1
  <2>2. h \in [0..k -> T]
    BY <2>1
  <2>3. Solves(h, k, c, F)
    <3>1. \A i \in 0..k - 1 : i \in 0..k /\ i + 1 \in 0..k /\ i \in 0..(k + 1) - 1
      OBVIOUS
    <3>2. h[0] = c
      BY <2>1 DEF Solves
    <3>3. \A i \in 0..k - 1 : Some(k + 1)[i + 1] = F[i][Some(k + 1)[i]]
      BY <2>1, <3>1 DEF Solves
    <3> QED
      BY <3>1, <3>2, <3>3 DEF Solves
  <2>4. Some(k) \in [0..k -> T] /\ Solves(Some(k), k, c, F)
    BY <1>1
  <2>5. h = Some(k)
    <3> HIDE DEF h
    <3> QED
      BY <2>2, <2>3, <2>4, Solvable
  <2>6. Some(k + 1)[k] = Some(k)[k]
    BY <2>5
  <2>7. Some(k + 1)[k + 1] = F[k][Some(k + 1)[k]]
    BY <2>1 DEF Solves
  <2> QED
    BY <2>6, <2>7
<1> HIDE DEF G
<1>5. SolvesAll(G, c, F)
  BY <1>3, <1>4 DEF SolvesAll
<1> QED
  BY <1>2, <1>5

----------------------------------------------------------------------------
(* Powers *)

\* A power is what its recursive function says: the equations have a solution.
LEMMA PowerStep ==
  ASSUME NEW b \in Nat
  PROVE  /\ Power(b, 0) = 1
         /\ \A n \in Nat : Power(b, n) \in Nat /\ Power(b, n + 1) = b * Power(b, n)
<1> DEFINE Is(g) == g = [k \in Nat |-> IF k = 0 THEN 1 ELSE b * g[k - 1]]
           F == [k \in Nat |-> [x \in Nat |-> b * x]]
           power == CHOOSE g : Is(g)
<1>1. \A n : Power(b, n) = power[n]
  BY DEF Power
<1>2. PICK g \in [Nat -> Nat] : g[0] = 1 /\ \A k \in Nat : g[k + 1] = F[k][g[k]]
  <2>1. F \in [Nat -> [Nat -> Nat]]
    OBVIOUS
  <2> HIDE DEF F
  <2>2. \E g \in [Nat -> Nat] : SolvesAll(g, 1, F)
    BY <2>1, RecursiveFunction
  <2> QED
    BY <2>2 DEF SolvesAll
<1>3. Is(g)
  <2> DEFINE h == [k \in Nat |-> IF k = 0 THEN 1 ELSE b * g[k - 1]]
  <2>1. ASSUME NEW k \in Nat PROVE g[k] = h[k]
    <3>1. CASE k = 0
      BY <1>2, <3>1
    <3>2. CASE k # 0
      <4>1. k - 1 \in Nat /\ (k - 1) + 1 = k
        BY <3>2
      <4>2. g[(k - 1) + 1] = F[k - 1][g[k - 1]]
        BY <1>2, <4>1
      <4> QED
        BY <3>2, <4>1, <4>2
    <3> QED
      BY <3>1, <3>2
  <2>2. g = h
    BY <2>1
  <2> QED
    BY <2>2
<1>4. Is(power)
  <2> HIDE DEF Is
  <2> QED
    BY <1>3, Zenon
<1> HIDE DEF power
<1>5. power[0] = 1 /\ \A k \in Nat : power[k + 1] = b * power[k]
  BY <1>4
<1>6. \A n \in Nat : power[n] \in Nat
  <2> DEFINE T == {n \in Nat : power[n] \in Nat}
  <2>1. 0 \in T /\ \A n \in Nat : n \in T => n + 1 \in T
    BY <1>5
  <2> HIDE DEF T
  <2>2. \A n \in Nat : n \in T
    BY <2>1, Induction
  <2> QED
    BY <2>2 DEF T
<1> QED
  BY <1>1, <1>5, <1>6

\* No power of a positive number is 0.
LEMMA PowerPositive ==
  ASSUME NEW b \in Nat \ {0}, NEW n \in Nat
  PROVE  Power(b, n) \in Nat \ {0}
<1> DEFINE T == {k \in Nat : Power(b, k) # 0}
<1>1. 0 \in T /\ \A k \in Nat : k \in T => k + 1 \in T
  <2>1. \A k \in Nat : Power(b, k) \in Nat /\ Power(b, k + 1) = b * Power(b, k)
    BY PowerStep
  <2>2. \A k \in Nat : Power(b, k) # 0 => Power(b, k + 1) # 0
    BY <2>1
  <2> QED
    BY PowerStep, <2>2
<1> HIDE DEF T
<1>2. n \in T
  BY <1>1, Induction
<1> QED
  BY <1>2, PowerStep DEF T

\* The exponents of a product are added.
LEMMA PowerSum ==
  ASSUME NEW b \in Nat, NEW m \in Nat, NEW n \in Nat
  PROVE  Power(b, m + n) = Power(b, m) * Power(b, n)
<1> DEFINE T == {k \in Nat : Power(b, m + k) = Power(b, m) * Power(b, k)}
<1>1. 0 \in T
  BY PowerStep
<1>2. ASSUME NEW k \in Nat, k \in T PROVE k + 1 \in T
  <2>1. Power(b, m + k) = Power(b, m) * Power(b, k)
    BY <1>2
  <2>2. m + (k + 1) = (m + k) + 1 /\ m + k \in Nat
    OBVIOUS
  <2>3. Power(b, m + (k + 1)) = b * Power(b, m + k)
    BY <2>2, PowerStep
  <2>4. Power(b, k + 1) = b * Power(b, k) /\ Power(b, k) \in Nat /\ Power(b, m) \in Nat
    BY PowerStep
  <2>5. \A x, y \in Nat : b * (x * y) = x * (b * y)
    OBVIOUS
  <2> QED
    BY <2>1, <2>3, <2>4, <2>5
<1> HIDE DEF T
<1>3. n \in T
  BY <1>1, <1>2, Induction
<1> QED
  BY <1>3 DEF T

\* The exponents of a power of a power are multiplied.
LEMMA PowerProduct ==
  ASSUME NEW b \in Nat, NEW m \in Nat, NEW n \in Nat
  PROVE  Power(Power(b, m), n) = Power(b, m * n)
<1> DEFINE T == {k \in Nat : Power(Power(b, m), k) = Power(b, m * k)}
<1>0. Power(b, m) \in Nat
  BY PowerStep
<1>1. 0 \in T
  <2>1. m * 0 = 0
    OBVIOUS
  <2> QED
    BY <1>0, <2>1, PowerStep
<1>2. ASSUME NEW k \in Nat, k \in T PROVE k + 1 \in T
  <2>1. Power(Power(b, m), k) = Power(b, m * k)
    BY <1>2
  <2>2. Power(Power(b, m), k + 1) = Power(b, m) * Power(Power(b, m), k)
    BY <1>0, PowerStep
  <2>3. m * (k + 1) = m + m * k /\ m * k \in Nat
    OBVIOUS
  <2>4. Power(b, m + m * k) = Power(b, m) * Power(b, m * k)
    BY <2>3, PowerSum
  <2> QED
    BY <2>1, <2>2, <2>3, <2>4
<1> HIDE DEF T
<1>3. n \in T
  BY <1>1, <1>2, Induction
<1> QED
  BY <1>3 DEF T

----------------------------------------------------------------------------
(* Numbers *)

Digits(digits) == \A i \in Nat : DigitAt(digits, i) \in Nat

\* A number is what its recursive function says.
LEMMA NumberStep ==
  ASSUME NEW b \in Nat, NEW digits, Digits(digits)
  PROVE  /\ NumberOf(digits, b, 0) = 0
         /\ \A n \in Nat :
              /\ NumberOf(digits, b, n) \in Nat
              /\ NumberOf(digits, b, n + 1) = NumberOf(digits, b, n) + DigitAt(digits, n) * Power(b, n)
<1> DEFINE Is(g) == g = [k \in Nat |-> IF k = 0 THEN 0
                                      ELSE g[k - 1] + DigitAt(digits, k - 1) * Power(b, k - 1)]
           F == [k \in Nat |-> [x \in Nat |-> x + DigitAt(digits, k) * Power(b, k)]]
           sum == CHOOSE g : Is(g)
<1>0. \A k \in Nat : DigitAt(digits, k) * Power(b, k) \in Nat
  <2>1. \A k \in Nat : DigitAt(digits, k) \in Nat /\ Power(b, k) \in Nat
    BY PowerStep DEF Digits
  <2> QED
    BY <2>1
<1>1. \A n : NumberOf(digits, b, n) = sum[n]
  BY DEF NumberOf
<1>2. PICK g \in [Nat -> Nat] : g[0] = 0 /\ \A k \in Nat : g[k + 1] = F[k][g[k]]
  <2>1. F \in [Nat -> [Nat -> Nat]]
    BY <1>0
  <2> HIDE DEF F
  <2>2. \E g \in [Nat -> Nat] : SolvesAll(g, 0, F)
    BY <2>1, RecursiveFunction
  <2> QED
    BY <2>2 DEF SolvesAll
<1>3. Is(g)
  <2> DEFINE h == [k \in Nat |-> IF k = 0 THEN 0
                                 ELSE g[k - 1] + DigitAt(digits, k - 1) * Power(b, k - 1)]
  <2>1. ASSUME NEW k \in Nat PROVE g[k] = h[k]
    <3>1. CASE k = 0
      BY <1>2, <3>1
    <3>2. CASE k # 0
      <4>1. k - 1 \in Nat /\ (k - 1) + 1 = k
        BY <3>2
      <4>2. g[(k - 1) + 1] = F[k - 1][g[k - 1]]
        BY <1>2, <4>1
      <4> QED
        BY <3>2, <4>1, <4>2
    <3> QED
      BY <3>1, <3>2
  <2>2. g = h
    BY <2>1
  <2> QED
    BY <2>2
<1>4. Is(sum)
  <2> HIDE DEF Is
  <2> QED
    BY <1>3, Zenon
<1> HIDE DEF sum
<1>5. sum[0] = 0 /\ \A k \in Nat : sum[k + 1] = sum[k] + DigitAt(digits, k) * Power(b, k)
  <2>1. \A k \in Nat : k + 1 \in Nat /\ k + 1 # 0 /\ (k + 1) - 1 = k
    OBVIOUS
  <2>2. \A k \in Nat : sum[k] = IF k = 0 THEN 0
                                 ELSE sum[k - 1] + DigitAt(digits, k - 1) * Power(b, k - 1)
    BY <1>4
  <2>3. ASSUME NEW k \in Nat PROVE sum[k + 1] = sum[k] + DigitAt(digits, k) * Power(b, k)
    <3>1. sum[k + 1] = sum[(k + 1) - 1] + DigitAt(digits, (k + 1) - 1) * Power(b, (k + 1) - 1)
      BY <2>1, <2>2, Zenon
    <3> QED
      BY <2>1, <3>1
  <2> QED
    BY <2>2, <2>3
<1>6. \A n \in Nat : sum[n] \in Nat
  <2> DEFINE T == {n \in Nat : sum[n] \in Nat}
  <2>1. 0 \in T /\ \A n \in Nat : n \in T => n + 1 \in T
    BY <1>0, <1>5
  <2> HIDE DEF T
  <2>2. \A n \in Nat : n \in T
    BY <2>1, Induction
  <2> QED
    BY <2>2 DEF T
<1> QED
  BY <1>1, <1>5, <1>6

\* Numbers of the same digits are the same.
LEMMA SameDigits ==
  ASSUME NEW b \in Nat, NEW f, NEW g, NEW n \in Nat, Digits(f), Digits(g),
         \A i \in 0..n - 1 : DigitAt(f, i) = DigitAt(g, i)
  PROVE  NumberOf(f, b, n) = NumberOf(g, b, n)
<1> DEFINE T == {k \in Nat : k <= n => NumberOf(f, b, k) = NumberOf(g, b, k)}
<1>1. 0 \in T
  BY NumberStep
<1>2. ASSUME NEW k \in Nat, k \in T PROVE k + 1 \in T
  <2> SUFFICES ASSUME k + 1 <= n PROVE NumberOf(f, b, k + 1) = NumberOf(g, b, k + 1)
    OBVIOUS
  <2>1. NumberOf(f, b, k) = NumberOf(g, b, k) /\ DigitAt(f, k) = DigitAt(g, k)
    BY <1>2
  <2> QED
    BY <2>1, NumberStep
<1> HIDE DEF T
<1>3. n \in T
  BY <1>1, <1>2, Induction
<1> QED
  BY <1>3 DEF T

\* n digits stand for less than b^n.
LEMMA NumberBound ==
  ASSUME NEW b \in Nat \ {0}, NEW f, NEW n \in Nat, Digits(f),
         \A i \in 0..n - 1 : DigitAt(f, i) < b
  PROVE  NumberOf(f, b, n) < Power(b, n)
<1> DEFINE T == {k \in Nat : k <= n => NumberOf(f, b, k) < Power(b, k)}
<1>1. 0 \in T
  BY NumberStep, PowerStep
<1>2. ASSUME NEW k \in Nat, k \in T PROVE k + 1 \in T
  <2> SUFFICES ASSUME k + 1 <= n PROVE NumberOf(f, b, k + 1) < Power(b, k + 1)
    OBVIOUS
  <2>1. NumberOf(f, b, k) < Power(b, k) /\ DigitAt(f, k) < b /\ DigitAt(f, k) \in Nat
    BY <1>2 DEF Digits
  <2>2. NumberOf(f, b, k) \in Nat /\ Power(b, k) \in Nat
    BY NumberStep, PowerStep
  <2>3. \A d, p, x \in Nat : d < b /\ x < p => x + d * p < b * p
    <3> SUFFICES ASSUME NEW d \in Nat, NEW p \in Nat, NEW x \in Nat, d < b, x < p
                 PROVE  x + d * p < b * p
      OBVIOUS
    <3>1. d + 1 <= b
      OBVIOUS
    <3>2. (d + 1) * p <= b * p
      BY <3>1
    <3>3. (d + 1) * p = d * p + p
      OBVIOUS
    <3> QED
      BY <3>2, <3>3
  <2>4. /\ NumberOf(f, b, k + 1) = NumberOf(f, b, k) + DigitAt(f, k) * Power(b, k)
        /\ Power(b, k + 1) = b * Power(b, k)
    BY NumberStep, PowerStep
  <2> QED
    BY <2>1, <2>2, <2>3, <2>4
<1> HIDE DEF T
<1>3. n \in T
  BY <1>1, <1>2, Induction
<1> QED
  BY <1>3 DEF T

\* The digits above the m-th make a number of their own.
LEMMA NumberSplit ==
  ASSUME NEW b \in Nat, NEW f, NEW h, NEW m \in Nat, NEW n \in Nat, Digits(f), Digits(h),
         \A i \in 0..n - 1 : DigitAt(h, i) = DigitAt(f, m + i)
  PROVE  NumberOf(f, b, m + n) = NumberOf(f, b, m) + Power(b, m) * NumberOf(h, b, n)
<1> DEFINE T == {k \in Nat : k <= n =>
                   NumberOf(f, b, m + k) = NumberOf(f, b, m) + Power(b, m) * NumberOf(h, b, k)}
<1>1. 0 \in T
  <2>1. NumberOf(h, b, 0) = 0 /\ Power(b, m) \in Nat /\ NumberOf(f, b, m) \in Nat
    BY NumberStep, PowerStep
  <2> QED
    BY <2>1
<1>2. ASSUME NEW k \in Nat, k \in T PROVE k + 1 \in T
  <2> SUFFICES ASSUME k + 1 <= n
               PROVE  NumberOf(f, b, m + (k + 1)) = NumberOf(f, b, m) + Power(b, m) * NumberOf(h, b, k + 1)
    OBVIOUS
  <2>1. NumberOf(f, b, m + k) = NumberOf(f, b, m) + Power(b, m) * NumberOf(h, b, k)
    BY <1>2
  <2>2. m + (k + 1) = (m + k) + 1 /\ m + k \in Nat
    OBVIOUS
  <2>3. NumberOf(f, b, m + (k + 1)) = NumberOf(f, b, m + k) + DigitAt(f, m + k) * Power(b, m + k)
    BY <2>2, NumberStep
  <2>4. NumberOf(h, b, k + 1) = NumberOf(h, b, k) + DigitAt(f, m + k) * Power(b, k)
    BY NumberStep
  <2>5. Power(b, m + k) = Power(b, m) * Power(b, k)
    BY PowerSum
  <2>6. /\ NumberOf(f, b, m) \in Nat /\ NumberOf(h, b, k) \in Nat /\ DigitAt(f, m + k) \in Nat
        /\ Power(b, m) \in Nat /\ Power(b, k) \in Nat
    BY <2>2, NumberStep, PowerStep DEF Digits
  <2>7. \A x, y, d, p, q \in Nat : (x + p * y) + d * (p * q) = x + p * (y + d * q)
    OBVIOUS
  <2> QED
    BY <2>1, <2>3, <2>4, <2>5, <2>6, <2>7
<1> HIDE DEF T
<1>3. n \in T
  BY <1>1, <1>2, Induction
<1> QED
  BY <1>3 DEF T

----------------------------------------------------------------------------
(* Quotients and remainders *)

\* The quotient and the remainder make up the number.
LEMMA Euclid ==
  ASSUME NEW v \in Int, NEW n \in Nat \ {0}
  PROVE  v = n * (v \div n) + (v % n) /\ v \div n \in Int /\ v % n \in 0..n - 1
<1>1. \A w \in Int, m \in Nat \ {0} : w = m * (w \div m) + (w % m) /\ w % m \in 0..m - 1
  OBVIOUS
<1>2. v \div n \in Int
  OBVIOUS
<1> QED
  BY <1>1, <1>2

\* There are no others that do.
LEMMA OneQuotient ==
  ASSUME NEW v \in Int, NEW q \in Int, NEW n \in Nat \ {0}, NEW r \in 0..n - 1, v = n * q + r
  PROVE  v \div n = q /\ v % n = r
<1>1. PICK e \in Int, t \in 0..n - 1 : v = n * e + t /\ e = v \div n /\ t = v % n
  BY Euclid
<1>2. n * (q - e) = t - r /\ t - r < n /\ r - t < n
  BY <1>1
<1>3. ~(q - e >= 1)
  <2> SUFFICES ASSUME q - e >= 1 PROVE FALSE
    OBVIOUS
  <2>1. n * (q - e) >= n
    OBVIOUS
  <2> QED
    BY <1>2, <2>1
<1>4. ~(e - q >= 1)
  <2> SUFFICES ASSUME e - q >= 1 PROVE FALSE
    OBVIOUS
  <2>1. n * (e - q) >= n /\ n * (e - q) = -(n * (q - e))
    OBVIOUS
  <2> QED
    BY <1>2, <2>1
<1>5. q = e
  BY <1>3, <1>4
<1> QED
  BY <1>1, <1>5

\* The remainder by a product, one factor after the other.
LEMMA RemainderByProduct ==
  ASSUME NEW v \in Int, NEW p \in Nat \ {0}, NEW b \in Nat \ {0}
  PROVE  v % (b * p) = (v % p) + p * ((v \div p) % b) /\ v \div (b * p) = (v \div p) \div b
<1> DEFINE q == v \div p
<1>1. v = p * q + (v % p) /\ q \in Int /\ v % p \in 0..p - 1
  BY Euclid
<1> HIDE DEF q
<1>2. q = b * (q \div b) + (q % b) /\ q \div b \in Int /\ q % b \in 0..b - 1
  BY <1>1, Euclid
<1>3. PICK e \in Int, d \in 0..b - 1 : e = q \div b /\ d = q % b
  BY <1>2
<1>4. PICK r \in 0..p - 1 : r = v % p
  BY <1>1
<1>5. v = (b * p) * e + (p * d + r)
  <2>0. q = b * e + d /\ v = p * q + r
    BY <1>1, <1>2, <1>3, <1>4, Zenon
  <2>1. v = p * (b * e + d) + r
    BY <2>0
  <2>2. p * (b * e + d) + r = (b * p) * e + (p * d + r)
    OBVIOUS
  <2> QED
    BY <2>1, <2>2
<1>6. p * d + r \in 0..(b * p) - 1 /\ b * p \in Nat \ {0}
  <2>1. d + 1 <= b /\ d \in Nat /\ r \in Nat /\ r < p
    OBVIOUS
  <2>2. p * (d + 1) <= p * b
    BY <2>1
  <2>3. p * (d + 1) = p * d + p /\ p * b = b * p /\ p * d \in Nat /\ b * p \in Nat
    BY <2>1
  <2> QED
    BY <2>1, <2>2, <2>3
<1>7. v \div (b * p) = e /\ v % (b * p) = p * d + r
  BY <1>5, <1>6, OneQuotient
<1> QED
  BY <1>3, <1>4, <1>7 DEF q

\* The digits of a number stand for it, as far as they go.
LEMMA DigitsOfNumber ==
  ASSUME NEW b \in Nat \ {0}, NEW v \in Int, NEW n \in Nat, NEW f, Digits(f),
         \A i \in 0..n - 1 : DigitAt(f, i) = Digit(v, b, i)
  PROVE  NumberOf(f, b, n) = v % Power(b, n)
<1> DEFINE T == {k \in Nat : k <= n => NumberOf(f, b, k) = v % Power(b, k)}
<1>1. 0 \in T
  <2>1. v % 1 = 0
    OBVIOUS
  <2> QED
    BY <2>1, NumberStep, PowerStep
<1>2. ASSUME NEW k \in Nat, k \in T PROVE k + 1 \in T
  <2> SUFFICES ASSUME k + 1 <= n PROVE NumberOf(f, b, k + 1) = v % Power(b, k + 1)
    OBVIOUS
  <2>1. NumberOf(f, b, k) = v % Power(b, k) /\ DigitAt(f, k) = (v \div Power(b, k)) % b
    BY <1>2 DEF Digit
  <2>2. Power(b, k) \in Nat \ {0} /\ Power(b, k + 1) = b * Power(b, k)
    BY PowerPositive, PowerStep
  <2>3. v % Power(b, k + 1) = (v % Power(b, k)) + Power(b, k) * DigitAt(f, k)
    BY <2>1, <2>2, RemainderByProduct
  <2>4. NumberOf(f, b, k + 1) = NumberOf(f, b, k) + DigitAt(f, k) * Power(b, k)
    BY NumberStep
  <2>5. DigitAt(f, k) \in Nat
    BY DEF Digits
  <2>6. \A d, p \in Nat : d * p = p * d
    OBVIOUS
  <2> QED
    BY <2>1, <2>2, <2>3, <2>4, <2>5, <2>6
<1> HIDE DEF T
<1>3. n \in T
  BY <1>1, <1>2, Induction
<1> QED
  BY <1>3 DEF T

\* The last number below a product.
LEMMA BelowProduct ==
  ASSUME NEW b \in Nat \ {0}, NEW n \in Nat \ {0}
  PROVE  (b * n - 1) \div b = n - 1 /\ (b * n - 1) % b = b - 1
<1>1. PICK v \in Int, q \in Int, r \in 0..b - 1 : v = b * n - 1 /\ q = n - 1 /\ r = b - 1
  <2>1. b * n - 1 \in Int /\ n - 1 \in Int /\ b - 1 \in 0..b - 1
    OBVIOUS
  <2> QED
    BY <2>1
<1>2. v = b * q + r
  <2>1. \A x, y \in Nat \ {0} : x * y - 1 = x * (y - 1) + (x - 1)
    OBVIOUS
  <2> QED
    BY <1>1, <2>1
<1>3. v \div b = q /\ v % b = r
  BY <1>2, OneQuotient
<1> QED
  BY <1>1, <1>3

\* Two numbers of a range as long as q that differ by a multiple of q are the same.
LEMMA SameInRange ==
  ASSUME NEW q \in Nat \ {0}, NEW x \in Int, NEW y \in Int, NEW k \in Int,
         x = y + q * k, x - y < q, y - x < q
  PROVE  x = y
<1>1. ~(k >= 1)
  <2> SUFFICES ASSUME k >= 1 PROVE FALSE
    OBVIOUS
  <2>1. q * k >= q
    OBVIOUS
  <2> QED
    BY <2>1
<1>2. ~(-k >= 1)
  <2> SUFFICES ASSUME -k >= 1 PROVE FALSE
    OBVIOUS
  <2>1. q * (-k) >= q /\ q * (-k) = -(q * k)
    OBVIOUS
  <2> QED
    BY <2>1
<1>3. k = 0
  BY <1>1, <1>2
<1> QED
  BY <1>3

----------------------------------------------------------------------------
(* Sets of bits *)

\* The digits of a set of bits are ones and zeros.
LEMMA BitDigits ==
  ASSUME NEW S, NEW n \in Nat
  PROVE  /\ Digits(BitsOf(S, n))
         /\ \A i \in 0..n - 1 : DigitAt(BitsOf(S, n), i) = IF i \in S THEN 1 ELSE 0
         /\ \A i \in Nat : DigitAt(BitsOf(S, n), i) < 2
BY DEF Digits, DigitAt, BitsOf

\* n bits stand for a natural number below 2^n.
LEMMA BitsumType ==
  ASSUME NEW S, NEW n \in Nat
  PROVE  Bitsum(S, n) \in Nat /\ Bitsum(S, n) < Power(2, n)
<1>1. Digits(BitsOf(S, n)) /\ \A i \in 0..n - 1 : DigitAt(BitsOf(S, n), i) < 2
  BY BitDigits
<1>2. NumberOf(BitsOf(S, n), 2, n) \in Nat
  BY <1>1, NumberStep
<1>3. NumberOf(BitsOf(S, n), 2, n) < Power(2, n)
  BY <1>1, NumberBound
<1> QED
  BY <1>2, <1>3 DEF Bitsum

\* The bits above the m-th make a number of their own.
LEMMA BitsumSplit ==
  ASSUME NEW S, NEW T, NEW m \in Nat, NEW n \in Nat, \A i \in 0..n - 1 : i \in T <=> m + i \in S
  PROVE  Bitsum(S, m + n) = Bitsum(S, m) + Power(2, m) * Bitsum(T, n)
<1> DEFINE f == BitsOf(S, m + n)
           g == BitsOf(S, m)
           h == BitsOf(T, n)
<1>1. m + n \in Nat
  OBVIOUS
<1>2. Digits(f) /\ Digits(g) /\ Digits(h)
  BY <1>1, BitDigits
<1>3. \A i \in 0..n - 1 : DigitAt(h, i) = DigitAt(f, m + i)
  <2> SUFFICES ASSUME NEW i \in 0..n - 1 PROVE DigitAt(h, i) = DigitAt(f, m + i)
    OBVIOUS
  <2>1. m + i \in 0..(m + n) - 1
    OBVIOUS
  <2> QED
    BY <1>1, <2>1, BitDigits
<1>4. \A i \in 0..m - 1 : DigitAt(f, i) = DigitAt(g, i)
  <2> SUFFICES ASSUME NEW i \in 0..m - 1 PROVE DigitAt(f, i) = DigitAt(g, i)
    OBVIOUS
  <2>1. i \in 0..(m + n) - 1
    OBVIOUS
  <2> QED
    BY <1>1, <2>1, BitDigits
<1> HIDE DEF f, g, h
<1>5. NumberOf(f, 2, m + n) = NumberOf(f, 2, m) + Power(2, m) * NumberOf(h, 2, n)
  BY <1>2, <1>3, NumberSplit
<1>6. NumberOf(f, 2, m) = NumberOf(g, 2, m)
  BY <1>2, <1>4, SameDigits
<1> QED
  BY <1>5, <1>6 DEF f, g, h, Bitsum

\* Each bit counts for its power of two.
LEMMA BitsumStep ==
  ASSUME NEW S
  PROVE  /\ Bitsum(S, 0) = 0
         /\ \A n \in Nat : Bitsum(S, n + 1) = Bitsum(S, n) + (IF n \in S THEN Power(2, n) ELSE 0)
<1>1. Bitsum(S, 0) = 0
  <2>1. Digits(BitsOf(S, 0))
    BY BitDigits
  <2> QED
    BY <2>1, NumberStep DEF Bitsum
<1>2. ASSUME NEW n \in Nat
      PROVE  Bitsum(S, n + 1) = Bitsum(S, n) + (IF n \in S THEN Power(2, n) ELSE 0)
  <2> DEFINE f == BitsOf(S, n + 1)
             g == BitsOf(S, n)
  <2>1. n + 1 \in Nat /\ n \in 0..(n + 1) - 1 /\ \A i \in 0..n - 1 : i \in 0..(n + 1) - 1
    OBVIOUS
  <2>2. /\ Digits(f) /\ Digits(g) /\ DigitAt(f, n) = (IF n \in S THEN 1 ELSE 0)
        /\ \A i \in 0..n - 1 : DigitAt(f, i) = DigitAt(g, i)
    BY <2>1, BitDigits
  <2> HIDE DEF f, g
  <2>3. NumberOf(f, 2, n + 1) = NumberOf(f, 2, n) + DigitAt(f, n) * Power(2, n)
    BY <2>2, NumberStep
  <2>4. NumberOf(f, 2, n) = NumberOf(g, 2, n)
    BY <2>2, SameDigits
  <2>5. Power(2, n) \in Nat
    BY PowerStep
  <2> QED
    BY <2>2, <2>3, <2>4, <2>5 DEF Bitsum, f, g
<1> QED
  BY <1>1, <1>2

\* The same bits stand for the same number.
LEMMA BitsumSame ==
  ASSUME NEW S, NEW T, NEW n \in Nat, \A i \in 0..n - 1 : i \in S <=> i \in T
  PROVE  Bitsum(S, n) = Bitsum(T, n)
<1>1. BitsOf(S, n) = BitsOf(T, n)
  BY DEF BitsOf
<1> QED
  BY <1>1 DEF Bitsum

\* Zeros stand for 0.
LEMMA BitsumNone ==
  ASSUME NEW S, NEW n \in Nat, \A i \in 0..n - 1 : i \notin S
  PROVE  Bitsum(S, n) = 0
<1> DEFINE T == {k \in Nat : k <= n => Bitsum(S, k) = 0}
<1>1. 0 \in T
  BY BitsumStep
<1>2. ASSUME NEW k \in Nat, k \in T PROVE k + 1 \in T
  <2> SUFFICES ASSUME k + 1 <= n PROVE Bitsum(S, k + 1) = 0
    OBVIOUS
  <2>1. Bitsum(S, k) = 0 /\ k \notin S
    BY <1>2
  <2> QED
    BY <2>1, BitsumStep
<1> HIDE DEF T
<1>3. n \in T
  BY <1>1, <1>2, Induction
<1> QED
  BY <1>3 DEF T

\* n ones stand for 2^n - 1.
LEMMA BitsumAll ==
  ASSUME NEW S, NEW n \in Nat, \A i \in 0..n - 1 : i \in S
  PROVE  Bitsum(S, n) = Power(2, n) - 1
<1> DEFINE T == {k \in Nat : k <= n => Bitsum(S, k) = Power(2, k) - 1}
<1>1. 0 \in T
  BY BitsumStep, PowerStep
<1>2. ASSUME NEW k \in Nat, k \in T PROVE k + 1 \in T
  <2> SUFFICES ASSUME k + 1 <= n PROVE Bitsum(S, k + 1) = Power(2, k + 1) - 1
    OBVIOUS
  <2>1. Bitsum(S, k) = Power(2, k) - 1 /\ k \in S
    BY <1>2
  <2>2. Power(2, k) \in Nat /\ Power(2, k + 1) = 2 * Power(2, k)
    BY PowerStep
  <2>3. Bitsum(S, k + 1) = Bitsum(S, k) + Power(2, k)
    BY <2>1, BitsumStep
  <2> QED
    BY <2>1, <2>2, <2>3
<1> HIDE DEF T
<1>3. n \in T
  BY <1>1, <1>2, Induction
<1> QED
  BY <1>3 DEF T

\* The i-th of the digits of m bits that S is made of.
Piece(S, m, i)    == {j \in 0..m - 1 : m * i + j \in S}
Spells(d, S, m, n) == Digits(d) /\ \A i \in 0..n - 1 : DigitAt(d, i) = Bitsum(Piece(S, m, i), m)

\* Digits of m bits each, strung together, make the same number.
LEMMA Regrouped ==
  ASSUME NEW S, NEW d, NEW m \in Nat, NEW n \in Nat, Spells(d, S, m, n)
  PROVE  Bitsum(S, m * n) = NumberOf(d, Power(2, m), n)
<1> DEFINE T == {k \in Nat : k <= n => Bitsum(S, m * k) = NumberOf(d, Power(2, m), k)}
<1>0. Power(2, m) \in Nat /\ Digits(d)
  BY PowerStep DEF Spells
<1>1. 0 \in T
  <2>1. m * 0 = 0
    OBVIOUS
  <2> QED
    BY <1>0, <2>1, BitsumStep, NumberStep
<1>2. ASSUME NEW k \in Nat, k \in T PROVE k + 1 \in T
  <2> SUFFICES ASSUME k + 1 <= n PROVE Bitsum(S, m * (k + 1)) = NumberOf(d, Power(2, m), k + 1)
    OBVIOUS
  <2> DEFINE At == Piece(S, m, k)
  <2>1. /\ Bitsum(S, m * k) = NumberOf(d, Power(2, m), k)
        /\ \A j \in 0..m - 1 : j \in At <=> m * k + j \in S
        /\ DigitAt(d, k) = Bitsum(At, m)
    BY <1>2 DEF Piece, Spells
  <2> HIDE DEF At
  <2>2. m * (k + 1) = m * k + m /\ m * k \in Nat
    OBVIOUS
  <2>3. Bitsum(S, m * k + m) = Bitsum(S, m * k) + Power(2, m * k) * Bitsum(At, m)
    BY <2>1, <2>2, BitsumSplit
  <2>4. NumberOf(d, Power(2, m), k + 1) = NumberOf(d, Power(2, m), k) + DigitAt(d, k) * Power(Power(2, m), k)
    BY <1>0, NumberStep
  <2>5. Power(Power(2, m), k) = Power(2, m * k) /\ Power(2, m * k) \in Nat /\ Bitsum(At, m) \in Nat
    <3>1. Power(Power(2, m), k) = Power(2, m * k)
      BY PowerProduct
    <3>2. Power(2, m * k) \in Nat
      BY <2>2, PowerStep
    <3>3. Bitsum(At, m) \in Nat
      BY BitsumType
    <3> QED
      BY <3>1, <3>2, <3>3
  <2>6. \A x, y \in Nat : x * y = y * x
    OBVIOUS
  <2> QED
    BY <2>1, <2>2, <2>3, <2>4, <2>5, <2>6
<1> HIDE DEF T
<1>3. n \in T
  BY <1>1, <1>2, Induction
<1> QED
  BY <1>3 DEF T

\* Zeros above the s-th bit add nothing.
LEMMA ZerosAbove ==
  ASSUME NEW S, NEW s \in Nat, NEW m \in Nat, s <= m, \A i \in s..m - 1 : i \notin S
  PROVE  Bitsum(S, m) = Bitsum(S, s)
<1> DEFINE T == {i \in 0..(m - s) - 1 : s + i \in S}
<1>1. m - s \in Nat /\ s + (m - s) = m
  OBVIOUS
<1>2. Bitsum(S, s + (m - s)) = Bitsum(S, s) + Power(2, s) * Bitsum(T, m - s)
  BY <1>1, BitsumSplit
<1>3. Bitsum(T, m - s) = 0
  <2>1. \A i \in 0..(m - s) - 1 : i \notin T
    OBVIOUS
  <2> HIDE DEF T
  <2> QED
    BY <1>1, <2>1, BitsumNone
<1>4. Power(2, s) \in Nat /\ Bitsum(S, s) \in Nat
  BY PowerStep, BitsumType
<1> QED
  BY <1>1, <1>2, <1>3, <1>4

\* Ones above the s-th bit, up to the m-th, make 2^m - 2^s.
LEMMA OnesAbove ==
  ASSUME NEW S, NEW s \in Nat, NEW m \in Nat, s <= m, \A i \in s..m - 1 : i \in S
  PROVE  Bitsum(S, m) = Bitsum(S, s) + (Power(2, m) - Power(2, s))
<1> DEFINE T == {i \in 0..(m - s) - 1 : s + i \in S}
<1>1. m - s \in Nat /\ s + (m - s) = m
  OBVIOUS
<1>2. Bitsum(S, s + (m - s)) = Bitsum(S, s) + Power(2, s) * Bitsum(T, m - s)
  BY <1>1, BitsumSplit
<1>3. Bitsum(T, m - s) = Power(2, m - s) - 1
  <2>1. \A i \in 0..(m - s) - 1 : i \in T
    OBVIOUS
  <2> HIDE DEF T
  <2> QED
    BY <1>1, <2>1, BitsumAll
<1>4. Power(2, s) \in Nat /\ Power(2, m - s) \in Nat /\ Bitsum(S, s) \in Nat
  BY <1>1, PowerStep, BitsumType
<1>5. Power(2, m) = Power(2, s) * Power(2, m - s)
  BY <1>1, PowerSum
<1>6. \A x, y \in Nat : x * (y - 1) = x * y - x
  OBVIOUS
<1> QED
  BY <1>1, <1>2, <1>3, <1>4, <1>5, <1>6

\* A number below 2^m has its bits among the first m.
LEMMA FitsUnsigned ==
  ASSUME NEW S, NEW s \in Nat, NEW m \in Nat, m <= s, Bitsum(S, s) < Power(2, m)
  PROVE  Bitsum(S, m) = Bitsum(S, s)
<1> DEFINE T == {i \in 0..(s - m) - 1 : m + i \in S}
<1>1. s - m \in Nat /\ m + (s - m) = s
  OBVIOUS
<1>2. Bitsum(S, m + (s - m)) = Bitsum(S, m) + Power(2, m) * Bitsum(T, s - m)
  BY <1>1, BitsumSplit
<1> HIDE DEF T
<1>3. Power(2, m) \in Nat /\ Bitsum(S, m) \in Nat /\ Bitsum(T, s - m) \in Nat
  BY <1>1, PowerStep, BitsumType
<1>4. \A x, p, h \in Nat : x + p * h < p => h = 0
  <2> SUFFICES ASSUME NEW x \in Nat, NEW p \in Nat, NEW h \in Nat, x + p * h < p, h >= 1 PROVE FALSE
    OBVIOUS
  <2>1. p * h >= p
    OBVIOUS
  <2> QED
    BY <2>1
<1>5. Bitsum(T, s - m) = 0
  BY <1>1, <1>2, <1>3, <1>4
<1> QED
  BY <1>1, <1>2, <1>3, <1>5

\* The integer that n bits stand for in two's complement.
Complement(S, n) == Bitsum(S, n) - (IF n - 1 \in S THEN Power(2, n) ELSE 0)

\* It is between -2^(n - 1) and 2^(n - 1).
LEMMA ComplementRange ==
  ASSUME NEW S, NEW n \in Nat \ {0}
  PROVE  /\ Complement(S, n) \in Int
         /\ -Power(2, n - 1) <= Complement(S, n) /\ Complement(S, n) < Power(2, n - 1)
         /\ Power(2, n) = 2 * Power(2, n - 1) /\ Power(2, n - 1) \in Nat \ {0}
<1>1. n - 1 \in Nat /\ (n - 1) + 1 = n
  OBVIOUS
<1>2. Bitsum(S, n) = Bitsum(S, n - 1) + (IF n - 1 \in S THEN Power(2, n - 1) ELSE 0)
  BY <1>1, BitsumStep
<1>3. Bitsum(S, n - 1) \in Nat /\ Bitsum(S, n - 1) < Power(2, n - 1)
  BY <1>1, BitsumType
<1>4. Power(2, n) = 2 * Power(2, n - 1)
  BY <1>1, PowerStep
<1>5. Power(2, n - 1) \in Nat \ {0}
  BY <1>1, PowerPositive
<1> QED
  BY <1>2, <1>3, <1>4, <1>5 DEF Complement

\* A number between -2^(m - 1) and 2^(m - 1) has its bits among the first m.
LEMMA FitsSigned ==
  ASSUME NEW S, NEW s \in Nat, NEW m \in Nat \ {0}, m <= s,
         -Power(2, m - 1) <= Complement(S, s), Complement(S, s) < Power(2, m - 1)
  PROVE  Complement(S, m) = Complement(S, s)
<1> DEFINE T == {i \in 0..(s - m) - 1 : m + i \in S}
<1>1. s - m \in Nat /\ m + (s - m) = s /\ s \in Nat \ {0}
  OBVIOUS
<1>2. Bitsum(S, m + (s - m)) = Bitsum(S, m) + Power(2, m) * Bitsum(T, s - m)
  BY <1>1, BitsumSplit
<1> HIDE DEF T
<1>3. /\ Power(2, m) \in Nat \ {0} /\ Power(2, s - m) \in Nat
      /\ Bitsum(S, m) \in Nat /\ Bitsum(T, s - m) \in Nat
  <2>1. Power(2, m) \in Nat \ {0}
    BY PowerPositive
  <2>2. Power(2, s - m) \in Nat
    BY <1>1, PowerStep
  <2> QED
    BY <1>1, <2>1, <2>2, BitsumType
<1>4. Power(2, s) = Power(2, m) * Power(2, s - m)
  BY <1>1, PowerSum
<1>5. PICK a \in Int, b \in Int : /\ a = (IF s - 1 \in S THEN Power(2, s - m) ELSE 0)
                                  /\ b = (IF m - 1 \in S THEN 1 ELSE 0)
  BY <1>3
<1>6. Complement(S, s) = Complement(S, m) + Power(2, m) * (Bitsum(T, s - m) - a + b)
  <2>1. (IF s - 1 \in S THEN Power(2, s) ELSE 0) = Power(2, m) * a
    BY <1>3, <1>4, <1>5
  <2>2. (IF m - 1 \in S THEN Power(2, m) ELSE 0) = Power(2, m) * b
    BY <1>3, <1>5
  <2>3. \A x, p, h \in Nat : (x + p * h) - p * a = (x - p * b) + p * (h - a + b)
    OBVIOUS
  <2>4. Complement(S, s) = (Bitsum(S, m) + Power(2, m) * Bitsum(T, s - m)) - Power(2, m) * a
    <3>1. Bitsum(S, s) = Bitsum(S, m) + Power(2, m) * Bitsum(T, s - m)
      BY <1>1, <1>2
    <3>2. Complement(S, s) = Bitsum(S, s) - Power(2, m) * a
      BY <2>1 DEF Complement
    <3> QED
      BY <3>1, <3>2
  <2>5. Complement(S, m) = Bitsum(S, m) - Power(2, m) * b
    BY <2>2 DEF Complement
  <2> QED
    BY <1>3, <2>3, <2>4, <2>5
<1>7. /\ Complement(S, m) \in Int /\ Complement(S, s) \in Int
      /\ Complement(S, s) - Complement(S, m) < Power(2, m)
      /\ Complement(S, m) - Complement(S, s) < Power(2, m)
  <2>1. Complement(S, s) \in Int
    BY <1>1, ComplementRange
  <2> QED
    BY <2>1, ComplementRange
<1>8. Bitsum(T, s - m) - a + b \in Int
  BY <1>3
<1> QED
  BY <1>3, <1>6, <1>7, <1>8, SameInRange

----------------------------------------------------------------------------
(* The linear memory *)

MemoryInv == size \in Sizes /\ RefusedIffOutside

\* A number that fits into a word is what is left of it in one.
LEMMA FitsIntoWord == ASSUME NEW n \in 0..Words - 1 PROVE n % Words = n
BY MemoryAssumption

\* The memory has a length.
LEMMA LengthNat == ASSUME size \in Sizes PROVE Length \in Nat
<1>1. size \in Nat /\ PageSize \in Nat
  BY MemoryAssumption
<1> QED
  BY <1>1 DEF Length

\* Where an access begins, and how far it goes, are natural numbers.
LEMMA AccessNat == ASSUME NEW x \in Accesses PROVE x.at \in Nat /\ x.width \in Nat
<1>1. x.width \in Widths[x.type] /\ x.type \in Types
  BY DEF Accesses
<1>2. x.at \in {address + offset : address \in Addresses, offset \in Offsets}
  BY DEF Accesses
<1>3. PICK address \in Addresses, offset \in Offsets : x.at = address + offset
  BY <1>2
<1>4. address \in Nat /\ offset \in Nat
  BY MemoryAssumption
<1> QED
  BY <1>1, <1>3, <1>4, MemoryAssumption

\* Without wrapping, the check of the code is the one there should be.
LEMMA CheckExact ==
  ASSUME size \in Sizes, NEW x \in Accesses, Small(x)
  PROVE  /\ OutOfBounds(x.at, x.width) <=> x.at + x.width > Length
         /\ Inside(x.at, x.width) <=> x.at + x.width <= Length
<1>1. x.at \in Nat /\ x.width \in Nat /\ Length \in Nat /\ Words \in Nat
  BY AccessNat, LengthNat, MemoryAssumption
<1>2. x.at \in 0..Words - 1 /\ x.at + x.width \in 0..Words - 1 /\ Length \in 0..Words - 1
  BY <1>1 DEF Small
<1>3. x.at % Words = x.at /\ (x.at + x.width) % Words = x.at + x.width /\ Length % Words = Length
  BY <1>2, FitsIntoWord
<1> QED
  BY <1>1, <1>3 DEF OutOfBounds, Inside, Effective, LengthInWord

\* What is said of the last instruction, for an access that has just been made.
LEMMA AccessJudged ==
  ASSUME size \in Sizes, NEW x \in Accesses, NEW way, NEW value, NEW became \in {"trap", "done", "wild"},
         last' = Done(way, x, value, became), size' = size,
         became = "trap" <=> OutOfBounds(x.at, x.width),
         became = "wild" => ~OutOfBounds(x.at, x.width) /\ ~Inside(x.at, x.width)
  PROVE  RefusedIffOutside'
<1>1. last'.of = x /\ last'.outcome = became
  BY DEF Done
<1>2. Length' = Length
  BY DEF Length
<1>3. Small(x)' = Small(x)
  BY <1>2 DEF Small
<1>4. Small(x) => (became = "trap" <=> x.at + x.width > Length)
  BY CheckExact
<1>5. became = "wild" => ~Small(x)
  <2> SUFFICES ASSUME became = "wild", Small(x) PROVE FALSE
    OBVIOUS
  <2>1. ~(x.at + x.width > Length) /\ ~(x.at + x.width <= Length)
    BY CheckExact
  <2>2. x.at \in Nat /\ x.width \in Nat /\ Length \in Nat
    BY AccessNat, LengthNat
  <2> QED
    BY <2>1, <2>2
<1> QED
  BY <1>1, <1>2, <1>3, <1>4, <1>5 DEF RefusedIffOutside, Small

\* Nothing has been accessed yet.
LEMMA MemoryInvInit == Init => MemoryInv
BY DEF Init, MemoryInv, RefusedIffOutside

\* Every instruction leaves a verdict on itself that is right.
LEMMA MemoryInvStep ==
  ASSUME MemoryInv, [Next]_vars PROVE MemoryInv'
<1>0. size \in Sizes
  BY DEF MemoryInv
<1>1. CASE Trap
  <2>1. PICK x \in Accesses, way \in {"load", "store"} :
          OutOfBounds(x.at, x.width) /\ last' = Done(way, x, 0, "trap") /\ size' = size
    BY <1>1 DEF Trap
  <2> QED
    BY <1>0, <2>1, AccessJudged DEF MemoryInv
<1>2. CASE Load
  <2>1. PICK x \in Accesses :
          /\ ~OutOfBounds(x.at, x.width) /\ size' = size
          /\ last' = Done("load", x, Widened(Number(Effective(x.at), x.width), x.width,
                                               x.signed, Full(x.type)), "done")
    BY <1>2 DEF Load
  <2> QED
    BY <1>0, <2>1, AccessJudged DEF MemoryInv
<1>3. CASE Store
  <2>1. PICK x \in Accesses, value \in Values :
          ~OutOfBounds(x.at, x.width) /\ last' = Done("store", x, value, "done") /\ size' = size
    BY <1>3 DEF Store
  <2> QED
    BY <1>0, <2>1, AccessJudged DEF MemoryInv
<1>4. CASE Wild
  <2>1. PICK x \in Accesses, way \in {"load", "store"} :
          /\ ~OutOfBounds(x.at, x.width) /\ ~Inside(x.at, x.width)
          /\ last' = Done(way, x, 0, "wild") /\ size' = size
    BY <1>4 DEF Wild
  <2> QED
    BY <1>0, <2>1, AccessJudged DEF MemoryInv
<1>5. CASE MemorySize \/ MemoryGrow
  BY <1>0, <1>5 DEF MemorySize, MemoryGrow, MemoryInv, RefusedIffOutside
<1>6. CASE UNCHANGED vars
  <2>1. size' = size /\ last' = last
    BY <1>6 DEF vars
  <2> QED
    BY <2>1 DEF MemoryInv, RefusedIffOutside, Small, Length
<1> QED
  BY <1>1, <1>2, <1>3, <1>4, <1>5, <1>6 DEF Next

\* A load or a store is refused exactly when a byte of it is outside of the
\* memory, as long as no sum wraps around in its word
\* (memory_opcode_handlers.h:14-21).
THEOREM BoundsExact ==
  Spec => []RefusedIffOutside
<1>1. MemoryInv => RefusedIffOutside
  BY DEF MemoryInv
<1>2. MemoryInv /\ [Next]_vars => MemoryInv'
  BY MemoryInvStep
<1> QED
  BY <1>1, <1>2, MemoryInvInit, PTL DEF Spec

\* A step that changes a byte is a store that goes through, and the byte is one it
\* names.
LEMMA OnlyStoresWrite ==
  ASSUME Next, NEW b \in DOMAIN data, data'[b] # data[b]
  PROVE  /\ last'.kind = "store" /\ last'.outcome = "done"
         /\ b \in Effective(last'.of.at)..Effective(last'.of.at) + last'.of.width - 1
<1>1. CASE Store
  <2>1. PICK x \in Accesses, value \in Values :
          data' = Stored(Effective(x.at), x.width, value) /\ last' = Done("store", x, value, "done")
    BY <1>1 DEF Store
  <2>2. last'.kind = "store" /\ last'.outcome = "done" /\ last'.of = x
    BY <2>1 DEF Done
  <2>3. b \in Effective(x.at)..Effective(x.at) + x.width - 1
    BY <2>1 DEF Stored
  <2> QED
    BY <2>2, <2>3
<1>2. CASE Trap \/ Load \/ Wild \/ MemorySize \/ MemoryGrow
  BY <1>2 DEF Trap, Load, Wild, MemorySize, MemoryGrow
<1> QED
  BY <1>1, <1>2 DEF Next

\* A store changes the bytes it names and no others, however wide its value is,
\* and none when it is refused (memory_opcode_handlers.h:35-45).
THEOREM StoresStayInside == Spec => OthersUntouched
<1>1. [Next]_vars =>
        [\A b \in DOMAIN data : data'[b] # data[b] =>
           /\ last'.kind = "store" /\ last'.outcome = "done"
           /\ b \in Effective(last'.of.at)..Effective(last'.of.at) + last'.of.width - 1]_vars
  BY OnlyStoresWrite
<1> QED
  BY <1>1, PTL DEF Spec, OthersUntouched

\* The block is as long as memory->size says, and the bytes of the last store are
\* those of its value.
Remembered ==
  /\ size \in Sizes /\ DOMAIN data = 0..Length - 1
  /\ last.kind = "store" /\ last.outcome = "done" =>
       /\ last.of \in Accesses /\ last.value \in Nat
       /\ \A i \in 0..last.of.width - 1 :
            data[Effective(last.of.at) + i] = ByteOf(last.value, i)

\* Every instruction keeps that up.
LEMMA RememberedStep ==
  ASSUME Remembered, [Next]_vars PROVE Remembered'
<1>0. size \in Sizes /\ DOMAIN data = 0..Length - 1
  BY DEF Remembered
<1>1. CASE Store
  <2>1. PICK x \in Accesses, value \in Values :
          /\ Inside(x.at, x.width) /\ size' = size
          /\ data' = Stored(Effective(x.at), x.width, value)
          /\ last' = Done("store", x, value, "done")
    BY <1>1 DEF Store
  <2>2. last'.of = x /\ last'.value = value /\ value \in Nat
    BY <2>1, MemoryAssumption DEF Done
  <2>3. Length' = Length /\ Length \in Nat
    BY <1>0, <2>1, LengthNat DEF Length
  <2>4. DOMAIN data' = 0..Length' - 1
    BY <1>0, <2>1, <2>3 DEF Stored
  <2>5. Effective(x.at) \in Nat /\ x.width \in Nat
    <3>1. x.at \in Nat /\ x.width \in Nat /\ Words \in Nat \ {0}
      BY AccessNat, MemoryAssumption
    <3> QED
      BY <3>1 DEF Effective
  <2>6. ASSUME NEW i \in 0..x.width - 1
        PROVE  data'[Effective(x.at) + i] = ByteOf(value, i)
    <3> DEFINE e == Effective(x.at)
    <3>1. e \in Nat /\ e + x.width <= Length
      BY <2>1, <2>5 DEF Inside
    <3> HIDE DEF e
    <3>2. e + i \in 0..Length - 1 /\ e + i \in e..e + x.width - 1 /\ (e + i) - e = i
      BY <2>3, <2>5, <3>1
    <3>3. data'[e + i] = ByteOf(value, (e + i) - e)
      BY <1>0, <2>1, <3>2 DEF Stored, e
    <3> QED
      BY <3>2, <3>3 DEF e
  <2> QED
    BY <1>0, <2>1, <2>2, <2>4, <2>6 DEF Remembered, Effective, ByteOf
<1>2. CASE Trap \/ Load \/ Wild \/ MemorySize \/ MemoryGrow
  <2>1. size' = size /\ data' = data /\ ~(last'.kind = "store" /\ last'.outcome = "done")
    BY <1>2 DEF Trap, Load, Wild, MemorySize, MemoryGrow, Done
  <2> QED
    BY <1>0, <2>1 DEF Remembered, Length
<1>3. CASE UNCHANGED vars
  BY <1>3 DEF vars, Remembered, Length, Effective, ByteOf
<1> QED
  BY <1>1, <1>2, <1>3 DEF Next

\* It holds before the first.
LEMMA RememberedInit == Init => Remembered
<1> SUFFICES ASSUME Init PROVE Remembered
  OBVIOUS
<1>1. size \in Sizes /\ last.kind = "none"
  BY DEF Init
<1>2. DOMAIN data = 0..Length - 1
  BY DEF Init, Length
<1> QED
  BY <1>1, <1>2 DEF Remembered

\* What has just been stored is what is read.
LEMMA ReadsBack ==
  ASSUME Remembered, last.kind = "store", last.outcome = "done",
         NEW width \in Nat, width <= last.of.width
  PROVE  Number(Effective(last.of.at), width) = last.value % Power(Base, width)
<1> DEFINE f == [i \in 0..width - 1 |-> data[Effective(last.of.at) + i]]
<1>1. last.value \in Nat /\ last.value \in Int /\ Base \in Nat \ {0} /\ last.of.width \in Nat
  BY AccessNat, MemoryAssumption DEF Remembered
<1>2. \A i \in 0..width - 1 : DigitAt(f, i) = Digit(last.value, Base, i)
  <2>1. \A i \in 0..width - 1 : i \in 0..last.of.width - 1
    BY <1>1
  <2> QED
    BY <2>1 DEF Remembered, ByteOf, DigitAt, Digit, Power
<1>3. Digits(f)
  <2>1. \A i \in Nat : Digit(last.value, Base, i) \in Nat
    <3>1. \A i \in Nat : Power(Base, i) \in Nat \ {0}
      BY <1>1, PowerPositive
    <3> QED
      BY <1>1, <3>1 DEF Digit
  <2>2. \A i \in Nat : i \notin 0..width - 1 => DigitAt(f, i) = 0
    BY DEF DigitAt
  <2> HIDE DEF f
  <2> QED
    BY <1>2, <2>1, <2>2 DEF Digits
<1>4. NumberOf(f, Base, width) = last.value % Power(Base, width)
  <2> HIDE DEF f
  <2> QED
    BY <1>1, <1>2, <1>3, DigitsOfNumber
<1> QED
  BY <1>4 DEF Number, NumberOf, DigitAt, Power

\* What a store has put there a load of the same address brings back, as far as it is
\* as wide, with the sign it asks for (memory_opcode_handlers.h:23-45).
THEOREM LoadsWhatIsStored ==
  Spec => StoreThenLoad
<1>1. Remembered /\ [Next]_vars =>
        [last.kind = "store" /\ last'.kind = "load" /\ last.outcome = "done" /\ last'.outcome = "done"
         /\ last'.of.at = last.of.at /\ last'.of.width <= last.of.width
         => LET within == Power(Base, last'.of.width)
                n      == last.value % within
            IN  last'.value = IF last'.of.signed /\ 2 * n >= within
                              THEN Power(Base, Full(last'.of.type)) - (within - n) ELSE n]_vars
  <2> SUFFICES ASSUME Remembered, Next, last.kind = "store", last.outcome = "done",
                      last'.kind = "load", last'.outcome = "done",
                      last'.of.at = last.of.at, last'.of.width <= last.of.width
               PROVE  LET within == Power(Base, last'.of.width)
                          n      == last.value % within
                      IN  last'.value = IF last'.of.signed /\ 2 * n >= within
                                        THEN Power(Base, Full(last'.of.type)) - (within - n) ELSE n
    OBVIOUS
  <2>1. Load
    BY DEF Next, Trap, Store, Wild, MemorySize, MemoryGrow, Done
  <2>2. PICK x \in Accesses :
          last' = Done("load", x, Widened(Number(Effective(x.at), x.width), x.width, x.signed, Full(x.type)), "done")
    BY <2>1 DEF Load
  <2>3. /\ last'.of = x
        /\ last'.value = Widened(Number(Effective(x.at), x.width), x.width, x.signed, Full(x.type))
    BY <2>2 DEF Done
  <2>4. x.width \in Nat
    BY AccessNat
  <2>5. Number(Effective(x.at), x.width) = last.value % Power(Base, x.width)
    BY <2>3, <2>4, ReadsBack DEF Power
  <2>6. /\ Power(Base, x.width) \in Nat \ {0} /\ last.value \in Nat
    <3>1. Base \in Nat \ {0}
      BY MemoryAssumption
    <3>2. Power(Base, x.width) \in Nat \ {0}
      BY <2>4, <3>1, PowerPositive
    <3> QED
      BY <3>2 DEF Remembered, Power
  <2>7. Power(Base, Full(x.type)) \in Nat
    <3>1. Full(x.type) \in Widths[x.type] /\ Widths[x.type] \subseteq Nat /\ Base \in Nat
      BY MemoryAssumption DEF Full, Accesses
    <3>2. Power(Base, Full(x.type)) \in Nat
      BY <3>1, PowerStep
    <3> QED
      BY <3>2 DEF Power
  <2>8. \A p, q, v \in Nat : p # 0 => (v % p) - p + q = q - (p - (v % p))
    OBVIOUS
  <2> QED
    BY <2>3, <2>5, <2>6, <2>7, <2>8 DEF Widened
<1>2. Remembered /\ [Next]_vars => Remembered'
  BY RememberedStep
<1> QED
  BY <1>1, <1>2, RememberedInit, PTL DEF Spec, StoreThenLoad

----------------------------------------------------------------------------
(* LEB128 *)

\* What read_LEB keeps up: the counter is behind the bytes by the one that
\* ended the number, and within the ceiling unless the exception was thrown.
DigitsCounted ==
  /\ kind \in Kinds
  /\ bytes \in Seq(Byte)
  /\ bcnt \in Nat
  /\ phase \in {"reading", "returned", "LEB_OVERFLOW", "EOF_BEFORE_FINISHED"}
  /\ phase \in {"reading", "EOF_BEFORE_FINISHED"} => Len(bytes) = bcnt /\ bcnt <= Ceiling
  /\ phase = "returned" => Len(bytes) = bcnt + 1 /\ bcnt <= Ceiling
  /\ phase = "LEB_OVERFLOW" => Len(bytes) = bcnt /\ bcnt = Ceiling + 1

\* The digits of a type are enough for its bits, and one fewer is not.
LEMMA CeilingNat ==
  ASSUME kind \in Kinds
  PROVE  /\ Ceiling \in Nat /\ kind.maxbits \in 1..2 * IntBits
         /\ PayloadBits * (Ceiling - 1) < kind.maxbits
<1>1. kind.maxbits \in 1..2 * IntBits /\ PayloadBits \in Nat \ {0} /\ IntBits \in Nat
  BY LebAssumption
<1> DEFINE v == kind.maxbits + PayloadBits - 1
           q == v \div PayloadBits
           r == v % PayloadBits
<1>2. v \in Nat
  BY <1>1
<1>3. v = PayloadBits * q + r /\ q \in Int /\ r \in 0..PayloadBits - 1
  <2>1. v \in Int /\ PayloadBits \in Nat \ {0}
    BY <1>1, <1>2
  <2> HIDE DEF v
  <2> QED
    BY <2>1, Euclid
<1>4. q \in Nat
  BY <1>1, <1>2
<1>5. PayloadBits * (q - 1) = PayloadBits * q - PayloadBits
  BY <1>1, <1>4
<1>6. PayloadBits * q <= v
  BY <1>1, <1>2, <1>3, <1>4
<1>7. PayloadBits * (q - 1) < kind.maxbits
  <2> DEFINE w == PayloadBits * q
  <2>1. w \in Int /\ w <= kind.maxbits + PayloadBits - 1 /\ PayloadBits * (q - 1) = w - PayloadBits
    BY <1>1, <1>4, <1>5, <1>6
  <2> HIDE DEF w
  <2> QED
    BY <1>1, <2>1
<1> QED
  BY <1>1, <1>4, <1>7 DEF Ceiling

\* Before the first byte nothing is counted.
LEMMA CountedInit == LebInit => DigitsCounted
BY CeilingNat DEF LebInit, DigitsCounted

\* Each digit moves the counter, the bytes and the phase together.
LEMMA CountedStep == ASSUME DigitsCounted, [LebNext]_lebVars PROVE DigitsCounted'
<1>0. Ceiling \in Nat
  BY CeilingNat DEF DigitsCounted
<1>1. CASE NextDigit
  <2>1. PICK byte \in Byte :
          /\ phase = "reading" /\ bytes' = Append(bytes, byte) /\ kind' = kind
          /\ \/ /\ Continues \in byte /\ bcnt' = bcnt + 1
                /\ phase' = IF bcnt + 1 > Ceiling THEN "LEB_OVERFLOW" ELSE "reading"
             \/ /\ Continues \notin byte /\ bcnt' = bcnt
                /\ phase' = "returned"
    BY <1>1 DEF NextDigit, MaxDigits
  <2>2. bytes' \in Seq(Byte) /\ Len(bytes') = Len(bytes) + 1
    BY <2>1 DEF DigitsCounted
  <2>3. Ceiling' = Ceiling
    BY <2>1 DEF Ceiling
  <2>4. CASE Continues \in byte
    <3>1. bcnt' = bcnt + 1 /\ (phase' = IF bcnt + 1 > Ceiling THEN "LEB_OVERFLOW" ELSE "reading")
      BY <2>1, <2>4
    <3>2. CASE bcnt + 1 > Ceiling
      BY <1>0, <2>1, <2>2, <2>3, <3>1, <3>2 DEF DigitsCounted, Byte
    <3>3. CASE ~(bcnt + 1 > Ceiling)
      BY <1>0, <2>1, <2>2, <2>3, <3>1, <3>3 DEF DigitsCounted, Byte
    <3> QED
      BY <3>2, <3>3
  <2>5. CASE Continues \notin byte
    BY <1>0, <2>1, <2>2, <2>3, <2>5 DEF DigitsCounted, Byte
  <2> QED
    BY <2>4, <2>5
<1>2. CASE EndOfFile
  <2>1. Ceiling' = Ceiling
    BY <1>2 DEF EndOfFile, Ceiling
  <2> QED
    BY <1>2, <2>1 DEF EndOfFile, DigitsCounted, Byte
<1>3. CASE UNCHANGED lebVars
  <2>1. Ceiling' = Ceiling
    BY <1>3 DEF lebVars, Ceiling
  <2> QED
    BY <1>3, <2>1 DEF lebVars, DigitsCounted, Byte
<1> QED
  BY <1>1, <1>2, <1>3 DEF LebNext

\* read_LEB refuses a number for its length only after more bytes than its type
\* takes, and never reads more than one byte beyond (parser.c:60-63).
THEOREM LengthBounded ==
  LebSpec => []OverlongRefused
<1>1. DigitsCounted => OverlongRefused
  <2> SUFFICES ASSUME DigitsCounted PROVE OverlongRefused
    OBVIOUS
  <2>1. Ceiling \in Nat
    BY CeilingNat DEF DigitsCounted
  <2> QED
    BY <2>1 DEF DigitsCounted, OverlongRefused
<1>2. DigitsCounted /\ [LebNext]_lebVars => DigitsCounted'
  BY CountedStep
<1> QED
  BY CountedInit, <1>1, <1>2, PTL DEF LebSpec

\* The bits of the digits that have been read, strung together.
Stream == {p \in 0..PayloadBits * Len(bytes) - 1 : (p % PayloadBits) \in bytes[(p \div PayloadBits) + 1]}

\* As long as no more digits have come than the type has, nothing has been shifted
\* out of the register, and a byte that ends the number has set the sign.
Gathered ==
  Len(bytes) <= Ceiling =>
    /\ shift = PayloadBits * Len(bytes)
    /\ phase = "reading" => result = Stream \cap Register
    /\ phase = "returned" =>
         /\ bytes # << >>
         /\ result = Extended(Stream \cap Register, shift, bytes[Len(bytes)])

\* One digit more.
LEMMA StreamStep ==
  ASSUME DigitsCounted, NEW byte \in Byte, bytes' = Append(bytes, byte)
  PROVE  Stream' = Stream \cup {b + PayloadBits * Len(bytes) : b \in Payload(byte)}
<1> DEFINE P == PayloadBits
           n == Len(bytes)
           w == P * n
<1>1. P \in Nat \ {0} /\ n \in Nat /\ w \in Nat /\ P * (n + 1) = w + P
  <2>1. P \in Nat \ {0} /\ n \in Nat
    BY LebAssumption DEF DigitsCounted
  <2>2. \A x, y \in Nat : x * y \in Nat /\ x * (y + 1) = x * y + x
    OBVIOUS
  <2> QED
    BY <2>1, <2>2
<1>2. Len(bytes') = n + 1 /\ bytes'[n + 1] = byte /\ \A i \in 1..n : bytes'[i] = bytes[i]
  BY DEF DigitsCounted
<1>3. Stream' = {p \in 0..(w + P) - 1 : (p % P) \in bytes'[(p \div P) + 1]}
  BY <1>1, <1>2 DEF Stream
<1>4. Payload(byte) \subseteq 0..P - 1 /\ \A b \in 0..P - 1 : b \in byte <=> b \in Payload(byte)
  BY <1>1 DEF Payload, Byte, Continues
<1>5. \A p \in 0..w - 1 : (p % P) \in bytes'[(p \div P) + 1] <=> (p % P) \in bytes[(p \div P) + 1]
  <2> SUFFICES ASSUME NEW p \in 0..w - 1 PROVE (p \div P) + 1 \in 1..n
    BY <1>2
  <2>0. p \in Int /\ P \in Nat \ {0}
    BY <1>1
  <2>1. p = P * (p \div P) + (p % P) /\ p \div P \in Int /\ p % P \in 0..P - 1
    BY <2>0, Euclid
  <2>2. PICK q \in Int, r \in 0..P - 1 : q = p \div P /\ p = P * q + r
    BY <2>1
  <2>3. q \in 0..n - 1
    <3>1. ~(q >= n)
      <4> SUFFICES ASSUME q >= n PROVE FALSE
        OBVIOUS
      <4>1. P * q >= P * n
        BY <1>1
      <4> QED
        BY <1>1, <2>2, <4>1
    <3>2. ~(q <= -1)
      <4> SUFFICES ASSUME q <= -1 PROVE FALSE
        OBVIOUS
      <4>1. P * q <= -P
        BY <1>1
      <4> QED
        BY <1>1, <2>2, <4>1
    <3> QED
      BY <1>1, <3>1, <3>2
  <2> QED
    BY <2>2, <2>3
<1>6. \A b \in 0..P - 1 : (w + b) \div P = n /\ (w + b) % P = b
  <2> SUFFICES ASSUME NEW b \in 0..P - 1 PROVE (w + b) \div P = n /\ (w + b) % P = b
    OBVIOUS
  <2>1. w + b \in Int /\ w + b = P * n + b /\ n \in Int
    BY <1>1
  <2> QED
    BY <1>1, <2>1, OneQuotient
<1>7. \A p \in 0..(w + P) - 1 : p \in 0..w - 1 \/ \E b \in 0..P - 1 : p = w + b
  <2> SUFFICES ASSUME NEW p \in 0..(w + P) - 1, p \notin 0..w - 1 PROVE \E b \in 0..P - 1 : p = w + b
    OBVIOUS
  <2>1. p - w \in 0..P - 1 /\ p = w + (p - w)
    BY <1>1
  <2> QED
    BY <2>1
<1>8. /\ \A b \in 0..P - 1 : w + b \in 0..(w + P) - 1 /\ w + b \notin 0..w - 1 /\ w + b = b + w
      /\ 0..w - 1 \subseteq 0..(w + P) - 1
  BY <1>1
<1>9. Stream = {p \in 0..w - 1 : (p % P) \in bytes[(p \div P) + 1]}
  BY DEF Stream
<1> HIDE DEF P, w, n
<1>10. ASSUME NEW p \in Stream' PROVE p \in Stream \cup {b + w : b \in Payload(byte)}
  <2>1. p \in 0..(w + P) - 1 /\ (p % P) \in bytes'[(p \div P) + 1]
    BY <1>3
  <2>2. CASE p \in 0..w - 1
    BY <1>5, <1>9, <2>1, <2>2
  <2>3. CASE p \notin 0..w - 1
    <3>1. PICK b \in 0..P - 1 : p = w + b
      BY <1>7, <2>1, <2>3
    <3>2. b \in byte
      BY <1>2, <1>6, <2>1, <3>1
    <3> QED
      BY <1>4, <1>8, <3>1, <3>2
  <2> QED
    BY <2>2, <2>3
<1>11. ASSUME NEW p \in Stream PROVE p \in Stream'
  <2>1. p \in 0..w - 1 /\ (p % P) \in bytes[(p \div P) + 1]
    BY <1>9
  <2> QED
    BY <1>3, <1>5, <1>8, <2>1
<1>12. ASSUME NEW b \in Payload(byte) PROVE b + w \in Stream'
  <2>1. b \in 0..P - 1 /\ b \in byte
    BY <1>4
  <2>2. w + b \in 0..(w + P) - 1 /\ ((w + b) % P) \in bytes'[((w + b) \div P) + 1]
    BY <1>2, <1>6, <1>8, <2>1
  <2> QED
    BY <1>3, <1>8, <2>1, <2>2
<1>13. Stream' = Stream \cup {b + w : b \in Payload(byte)}
  BY <1>10, <1>11, <1>12
<1> QED
  BY <1>13 DEF w, P, n

\* Nothing that is shifted in before the register is full wraps around.
LEMMA NoWrap ==
  ASSUME DigitsCounted, shift = PayloadBits * Len(bytes), Len(bytes) < Ceiling,
         NEW byte \in Byte
  PROVE  Shifted(Payload(byte), shift)
           = {b + PayloadBits * Len(bytes) : b \in Payload(byte)} \cap Register
<1>1. PayloadBits \in Nat \ {0} /\ IntBits \in Nat \ {0} /\ Len(bytes) \in Nat
  BY LebAssumption DEF DigitsCounted
<1>2. Ceiling \in Nat /\ kind.maxbits \in 1..2 * IntBits /\ PayloadBits * (Ceiling - 1) < kind.maxbits
  BY CeilingNat DEF DigitsCounted
<1>3. PayloadBits * Len(bytes) <= PayloadBits * (Ceiling - 1)
  BY <1>1, <1>2
<1>4. shift \in 0..2 * IntBits - 1
  <2>1. PayloadBits * Len(bytes) \in Nat /\ PayloadBits * (Ceiling - 1) \in Int
    BY <1>1, <1>2
  <2> QED
    BY <1>1, <1>2, <1>3, <2>1
<1>5. shift % (2 * IntBits) = shift
  <2>1. \A m \in Nat \ {0} : \A s \in 0..m - 1 : s % m = s
    OBVIOUS
  <2>2. 2 * IntBits \in Nat \ {0}
    BY <1>1
  <2> QED
    BY <1>4, <2>1, <2>2
<1> QED
  BY <1>5 DEF Shifted

\* Each digit joins the bits of those before it.
LEMMA GatheredStep ==
  ASSUME DigitsCounted, Gathered, [LebNext]_lebVars PROVE Gathered'
<1>0. Ceiling \in Nat /\ Len(bytes) \in Nat /\ PayloadBits \in Nat
  BY CeilingNat, LebAssumption DEF DigitsCounted
<1>1. CASE NextDigit
  <2>1. PICK byte \in Byte :
          /\ phase = "reading" /\ bytes' = Append(bytes, byte) /\ kind' = kind
          /\ shift' = shift + PayloadBits
          /\ IF Continues \in byte
             THEN /\ result' = result \cup Shifted(Payload(byte), shift)
                  /\ phase' \in {"LEB_OVERFLOW", "reading"}
             ELSE /\ result' = Extended(result \cup Shifted(Payload(byte), shift), shift + PayloadBits, byte)
                  /\ phase' = "returned"
    BY <1>1 DEF NextDigit
  <2>2. Len(bytes') = Len(bytes) + 1 /\ bytes'[Len(bytes) + 1] = byte /\ bytes' # << >>
    BY <2>1 DEF DigitsCounted
  <2>3. Ceiling' = Ceiling
    BY <2>1 DEF Ceiling
  <2> SUFFICES ASSUME Len(bytes) < Ceiling
               PROVE  /\ shift' = PayloadBits * Len(bytes')
                      /\ phase' = "reading" => result' = Stream' \cap Register
                      /\ phase' = "returned" =>
                           /\ bytes' # << >>
                           /\ result' = Extended(Stream \cap Register, shift, bytes[Len(bytes)])'
    BY <1>0, <2>2, <2>3 DEF Gathered, Register
  <2>4. shift = PayloadBits * Len(bytes) /\ result = Stream \cap Register
    BY <1>0, <2>1 DEF Gathered
  <2>5. shift' = PayloadBits * Len(bytes')
    <3>1. \A x, y \in Nat : x * (y + 1) = x * y + x
      OBVIOUS
    <3> QED
      BY <1>0, <2>1, <2>2, <2>4, <3>1
  <2>6. result \cup Shifted(Payload(byte), shift) = Stream' \cap Register
    <3>1. Stream' = Stream \cup {b + PayloadBits * Len(bytes) : b \in Payload(byte)}
      BY <2>1, StreamStep
    <3>2. Shifted(Payload(byte), shift)
            = {b + PayloadBits * Len(bytes) : b \in Payload(byte)} \cap Register
      BY <2>4, NoWrap
    <3> QED
      BY <2>4, <3>1, <3>2
  <2>7. CASE Continues \in byte
    BY <2>1, <2>5, <2>6, <2>7
  <2>8. CASE Continues \notin byte
    <3>1. result' = Extended(Stream' \cap Register, shift', byte) /\ phase' = "returned"
      BY <2>1, <2>6, <2>8
    <3>2. bytes'[Len(bytes')] = byte
      BY <2>2
    <3>3. result' = Extended(Stream \cap Register, shift, bytes[Len(bytes)])'
      BY <2>1, <3>1, <3>2 DEF Extended, MinusOneShifted, Negative, Register
    <3> QED
      BY <2>2, <2>5, <3>1, <3>3
  <2> QED
    BY <2>7, <2>8
<1>2. CASE EndOfFile
  BY <1>2 DEF EndOfFile, Gathered, Ceiling, Stream, Register
<1>3. CASE UNCHANGED lebVars
  BY <1>3 DEF lebVars, Gathered, Ceiling, Stream, Register, Extended, MinusOneShifted, Negative
<1> QED
  BY <1>1, <1>2, <1>3 DEF LebNext

\* Before the first byte there are no bits.
LEMMA GatheredInit == LebInit => Gathered
<1> SUFFICES ASSUME LebInit PROVE Gathered
  OBVIOUS
<1>1. bytes = << >> /\ shift = 0 /\ phase = "reading" /\ result = {} /\ PayloadBits \in Nat
  BY LebAssumption DEF LebInit
<1>2. Len(bytes) = 0 /\ PayloadBits * 0 = 0
  BY <1>1
<1>3. Stream = {}
  BY <1>2 DEF Stream
<1> QED
  BY <1>1, <1>2, <1>3 DEF Gathered

\* The number the bits stand for is the one the digits stand for.
LEMMA StreamNumber ==
  ASSUME DigitsCounted
  PROVE  Bitsum(Stream, PayloadBits * Len(bytes))
           = NumberOf([i \in 0..Len(bytes) - 1 |-> Unsigned(Payload(bytes[i + 1]), PayloadBits)],
                      Power(2, PayloadBits), Len(bytes))
<1> DEFINE P == PayloadBits
           n == Len(bytes)
           At == [i \in 0..n - 1 |-> Payload(bytes[i + 1])]
           d == [i \in 0..n - 1 |-> Unsigned(Payload(bytes[i + 1]), P)]
<1>1. P \in Nat \ {0} /\ n \in Nat
  BY LebAssumption DEF DigitsCounted
<1>2. \A S : Unsigned(S, P) = Bitsum(S, P)
  BY DEF Unsigned, Bitsum, BitsOf, NumberOf, DigitAt, Power
<1>3. \A i \in 0..n - 1 : DigitAt(d, i) = Bitsum(At[i], P)
  BY <1>2 DEF DigitAt
<1>4. Digits(d)
  <2>1. ASSUME NEW i \in Nat, i \in 0..n - 1 PROVE DigitAt(d, i) \in Nat
    <3>1. Bitsum(At[i], P) \in Nat
      BY <1>1, BitsumType
    <3> QED
      BY <1>3, <2>1, <3>1
  <2>2. ASSUME NEW i \in Nat, i \notin 0..n - 1 PROVE DigitAt(d, i) \in Nat
    BY <2>2 DEF DigitAt
  <2> HIDE DEF d
  <2> QED
    BY <2>1, <2>2 DEF Digits
<1>5. ASSUME NEW i \in 0..n - 1, NEW j \in 0..P - 1 PROVE j \in At[i] <=> P * i + j \in Stream
  <2>1. P * i + j \in Int /\ i \in Int
    BY <1>1
  <2>2. (P * i + j) \div P = i /\ (P * i + j) % P = j
    BY <1>1, <2>1, OneQuotient
  <2>3. P * i + j \in 0..P * n - 1
    <3>1. i + 1 <= n /\ i \in Nat
      BY <1>1
    <3>2. P * (i + 1) <= P * n /\ P * (i + 1) = P * i + P /\ P * i \in Nat /\ P * n \in Nat
      BY <1>1, <3>1
    <3> QED
      BY <1>1, <3>2
  <2>4. P * i + j \in Stream <=> j \in bytes[i + 1]
    <3> DEFINE p == P * i + j
    <3>1. p \in 0..P * n - 1 /\ p % P = j /\ p \div P = i
      BY <2>2, <2>3
    <3> HIDE DEF p
    <3>2. p \in Stream <=> (p % P) \in bytes[(p \div P) + 1]
      BY <3>1 DEF Stream
    <3> QED
      BY <3>1, <3>2 DEF p
  <2>5. At[i] = bytes[i + 1] \ {P}
    BY DEF Payload, Continues
  <2> QED
    BY <1>1, <2>4, <2>5
<1> HIDE DEF At, d, P, n
<1>6. \A i \in 0..n - 1 : DigitAt(d, i) = Bitsum(Piece(Stream, P, i), P)
  <2> SUFFICES ASSUME NEW i \in 0..n - 1
               PROVE  Bitsum(At[i], P) = Bitsum(Piece(Stream, P, i), P)
    BY <1>3
  <2> DEFINE S == Piece(Stream, P, i)
  <2>1. \A j \in 0..P - 1 : j \in At[i] <=> j \in S
    BY <1>5 DEF Piece
  <2> HIDE DEF S
  <2>2. Bitsum(At[i], P) = Bitsum(S, P)
    BY <1>1, <2>1, BitsumSame
  <2> QED
    BY <2>2 DEF S
<1>7. Bitsum(Stream, P * n) = NumberOf(d, Power(2, P), n)
  <2>1. P \in Nat /\ n \in Nat
    BY <1>1
  <2>2. Spells(d, Stream, P, n)
    BY <1>4, <1>6 DEF Spells
  <2> QED
    BY <2>1, <2>2, Regrouped
<1> QED
  BY <1>7 DEF d, P, n

\* What the bytes encode, by the bits strung together.
LEMMA ValueOfStream ==
  ASSUME DigitsCounted, bytes # << >>, NEW s \in Nat \ {0}, s = PayloadBits * Len(bytes)
  PROVE  /\ kind.sign => Value = Complement(Stream, s)
         /\ ~kind.sign => Value = Bitsum(Stream, s)
         /\ Negative \in bytes[Len(bytes)] <=> s - 1 \in Stream
<1>1. PayloadBits \in Nat \ {0} /\ Len(bytes) \in Nat \ {0}
  BY LebAssumption DEF DigitsCounted
<1>2. Negative \in bytes[Len(bytes)] <=> s - 1 \in Stream
  <2> DEFINE p == s - 1
             n == Len(bytes)
  <2>2. p \in Int /\ p \in 0..PayloadBits * n - 1
    OBVIOUS
  <2> HIDE DEF p, n
  <2>3. p \div PayloadBits = n - 1 /\ p % PayloadBits = PayloadBits - 1
    <3>1. p = PayloadBits * n - 1 /\ n \in Nat \ {0}
      BY <1>1 DEF p, n
    <3> QED
      BY <1>1, <3>1, BelowProduct
  <2>4. (n - 1) + 1 = n
    BY <1>1 DEF n
  <2>5. p \in Stream <=> (p % PayloadBits) \in bytes[(p \div PayloadBits) + 1]
    BY <2>2 DEF Stream, n
  <2> QED
    BY <2>3, <2>4, <2>5 DEF Negative, p, n
<1>3. Bitsum(Stream, s)
        = NumberOf([i \in 0..Len(bytes) - 1 |-> Unsigned(Payload(bytes[i + 1]), PayloadBits)],
                   Power(2, PayloadBits), Len(bytes))
  BY StreamNumber
<1>4. Value = Bitsum(Stream, s) - (IF kind.sign /\ Negative \in bytes[Len(bytes)] THEN Power(2, s) ELSE 0)
  BY <1>3 DEF Value, NumberOf, DigitAt, Power
<1>5. Bitsum(Stream, s) \in Nat
  BY BitsumType
<1> QED
  BY <1>2, <1>4, <1>5 DEF Complement

\* The bits of a type are those of the register.
LEMMA ReturnedBits ==
  ASSUME NEW T, NEW m \in Nat, m <= 2 * IntBits, IntBits \in Nat
  PROVE  /\ Bitsum((T \cap Register) \cap 0..m - 1, m) = Bitsum(T, m)
         /\ m # 0 => Complement((T \cap Register) \cap 0..m - 1, m) = Complement(T, m)
<1> DEFINE R == (T \cap Register) \cap 0..m - 1
<1>1. \A i \in 0..m - 1 : i \in R <=> i \in T
  BY DEF Register
<1> HIDE DEF R
<1>2. Bitsum(R, m) = Bitsum(T, m)
  BY <1>1, BitsumSame
<1>3. m # 0 => (m - 1 \in R <=> m - 1 \in T)
  <2>1. m # 0 => m - 1 \in 0..m - 1
    OBVIOUS
  <2> QED
    BY <1>1, <2>1
<1>4. m # 0 => Complement(R, m) = Complement(T, m)
  BY <1>2, <1>3 DEF Complement
<1> QED
  BY <1>2, <1>4 DEF R

\* The number that comes back is the one the bytes encode.
LEMMA Decoded ==
  ASSUME DigitsCounted, Gathered, phase = "returned",
         InRange, Len(bytes) <= Ceiling, ~SignMisplaced
  PROVE  (IF kind.sign THEN Signed(Returned, kind.maxbits) ELSE Unsigned(Returned, kind.maxbits))
           = Value
<1> DEFINE m == kind.maxbits
           s == PayloadBits * Len(bytes)
<1>1. m \in Nat \ {0} /\ m <= 2 * IntBits /\ IntBits \in Nat \ {0}
  <2>1. m \in 1..2 * IntBits /\ IntBits \in Nat \ {0}
    BY CeilingNat, LebAssumption DEF DigitsCounted
  <2> QED
    BY <2>1
<1>2. bytes # << >> /\ shift = s /\ result = Extended(Stream \cap Register, s, bytes[Len(bytes)])
  BY DEF Gathered
<1>3. s \in Nat \ {0}
  <2>1. PayloadBits \in Nat \ {0} /\ Len(bytes) \in Nat \ {0}
    BY <1>2, LebAssumption DEF DigitsCounted
  <2>2. \A x, y \in Nat \ {0} : x * y \in Nat \ {0}
    OBVIOUS
  <2> QED
    BY <2>1, <2>2
<1>4. \A S : Unsigned(S, m) = Bitsum(S, m)
  BY DEF Unsigned, Bitsum, BitsOf, NumberOf, DigitAt, Power
<1>5. \A S : Signed(S, m) = Complement(S, m)
  BY <1>4 DEF Signed, Complement, Power
<1>6. /\ kind.sign => Value = Complement(Stream, s)
      /\ ~kind.sign => Value = Bitsum(Stream, s)
      /\ Negative \in bytes[Len(bytes)] <=> s - 1 \in Stream
  BY <1>2, <1>3, ValueOfStream
<1>7. /\ kind.sign => -Power(2, m - 1) <= Value /\ Value < Power(2, m - 1)
      /\ ~kind.sign => Value < Power(2, m)
  BY DEF InRange, Power
<1>8. \A i \in Nat : i \in Stream => i < s
  BY <1>3 DEF Stream
<1> HIDE DEF m, s
<1>9. Returned = result \cap 0..m - 1
  BY DEF Returned, m
<1>10. CASE ~kind.sign
  <2>1. result = Stream \cap Register
    BY <1>2, <1>10 DEF Extended
  <2>2. Bitsum(Returned, m) = Bitsum(Stream, m)
    BY <1>1, <1>9, <2>1, ReturnedBits
  <2>3. Bitsum(Stream, m) = Bitsum(Stream, s)
    <3>1. CASE m <= s
      <4>1. Bitsum(Stream, s) < Power(2, m)
        BY <1>6, <1>7, <1>10
      <4> QED
        BY <1>1, <1>3, <3>1, <4>1, FitsUnsigned
    <3>2. CASE s <= m
      <4>1. \A i \in s..m - 1 : i \notin Stream
        BY <1>1, <1>3, <1>8
      <4> QED
        BY <1>1, <1>3, <3>2, <4>1, ZerosAbove
    <3> QED
      BY <1>1, <1>3, <3>1, <3>2
  <2> QED
    BY <1>4, <1>6, <1>10, <2>2, <2>3 DEF m
<1>11. CASE kind.sign /\ m <= s
  <2>1. result = Stream \cap Register
    <3>1. ~(s < m)
      BY <1>1, <1>3, <1>11
    <3> QED
      BY <1>2, <3>1 DEF Extended, m
  <2>2. Complement(Returned, m) = Complement(Stream, m)
    BY <1>1, <1>9, <2>1, ReturnedBits
  <2>3. Complement(Stream, m) = Complement(Stream, s)
    BY <1>1, <1>3, <1>6, <1>7, <1>11, FitsSigned
  <2> QED
    BY <1>5, <1>6, <1>11, <2>2, <2>3 DEF m
<1>12. CASE kind.sign /\ s < m /\ s - 1 \notin Stream
  <2>1. result = Stream \cap Register
    BY <1>2, <1>6, <1>12 DEF Extended
  <2>2. Complement(Returned, m) = Complement(Stream, m)
    BY <1>1, <1>9, <2>1, ReturnedBits
  <2>3. Bitsum(Stream, m) = Bitsum(Stream, s)
    <3>1. \A i \in s..m - 1 : i \notin Stream
      BY <1>1, <1>3, <1>8
    <3> QED
      BY <1>1, <1>3, <1>12, <3>1, ZerosAbove
  <2>4. m - 1 \notin Stream
    BY <1>1, <1>3, <1>8, <1>12
  <2>5. Complement(Stream, m) = Complement(Stream, s)
    BY <1>12, <2>3, <2>4 DEF Complement
  <2> QED
    BY <1>5, <1>6, <1>12, <2>2, <2>5 DEF m
<1>13. CASE kind.sign /\ s < m /\ s - 1 \in Stream
  <2> DEFINE T == Stream \cup {b \in Nat : b >= s}
  <2>1. s < IntBits
    BY <1>1, <1>2, <1>3, <1>6, <1>13 DEF SignMisplaced, m
  <2>2. s % IntBits = s
    <3>1. \A v \in Nat \ {0} : \A r \in 0..v - 1 : r % v = r
      OBVIOUS
    <3> QED
      BY <1>1, <1>3, <2>1, <3>1
  <2>3. result = T \cap Register
    <3>1. result = (Stream \cap Register) \cup MinusOneShifted(s)
      BY <1>2, <1>6, <1>13 DEF Extended, m
    <3>2. MinusOneShifted(s) = {b \in Nat : b >= s} \cap Register
      BY <1>1, <2>2 DEF MinusOneShifted, Register
    <3> QED
      BY <3>1, <3>2
  <2>4. \A i \in s..m - 1 : i \in T
    BY <1>1, <1>3
  <2>5. \A i \in 0..s - 1 : i \in T <=> i \in Stream
    BY <1>3
  <2> HIDE DEF T
  <2>6. Complement(Returned, m) = Complement(T, m)
    BY <1>1, <1>9, <2>3, ReturnedBits
  <2>7. Bitsum(T, m) = Bitsum(T, s) + (Power(2, m) - Power(2, s))
    BY <1>1, <1>3, <1>13, <2>4, OnesAbove
  <2>8. Bitsum(T, s) = Bitsum(Stream, s)
    BY <1>3, <2>5, BitsumSame
  <2>9. m - 1 \in T
    BY <1>1, <1>3, <1>13, <2>4
  <2>10. Power(2, m) \in Nat /\ Power(2, s) \in Nat /\ Bitsum(Stream, s) \in Nat
    BY <1>1, <1>3, PowerStep, BitsumType
  <2>11. Complement(T, m) = Complement(Stream, s)
    BY <1>13, <2>7, <2>8, <2>9, <2>10 DEF Complement
  <2> QED
    BY <1>5, <1>6, <1>13, <2>6, <2>11 DEF m
<1> QED
  BY <1>1, <1>3, <1>10, <1>11, <1>12, <1>13

\* The number that next_u32, next_s32 and next_s64 return is the one the bytes
\* encode, however many digits it is padded to (parser.c:53-69).
THEOREM NumberDecoded ==
  LebSpec => []ValueDecoded
<1>1. LebInit => DigitsCounted /\ Gathered
  BY CountedInit, GatheredInit
<1>2. DigitsCounted /\ Gathered /\ [LebNext]_lebVars => DigitsCounted' /\ Gathered'
  BY CountedStep, GatheredStep
<1>3. DigitsCounted /\ Gathered => ValueDecoded
  BY Decoded DEF ValueDecoded
<1> QED
  BY <1>1, <1>2, <1>3, PTL DEF LebSpec

----------------------------------------------------------------------------
(* Bits of a pattern *)

\* Two to the power of n, and the half of it.
LEMMA TwoPower ==
  ASSUME NEW n \in Nat
  PROVE  /\ Power(2, n) \in Nat \ {0} /\ Power(2, 0) = 1 /\ Power(2, 1) = 2
         /\ Power(2, n + 1) = 2 * Power(2, n)
         /\ n < Power(2, n)
<1>1. Power(2, n) \in Nat \ {0} /\ Power(2, 0) = 1 /\ Power(2, n + 1) = 2 * Power(2, n)
  BY PowerStep, PowerPositive
<1>2. Power(2, 1) = 2
  <2>1. Power(2, 0 + 1) = 2 * Power(2, 0)
    BY PowerStep
  <2> QED
    BY <1>1, <2>1
<1> DEFINE T == {k \in Nat : k < Power(2, k)}
<1>3. n \in T
  <2>1. 0 \in T
    BY <1>1
  <2>2. ASSUME NEW k \in Nat, k \in T PROVE k + 1 \in T
    <3>1. PICK p \in Nat : p = Power(2, k) /\ Power(2, k + 1) = 2 * p
      BY PowerStep
    <3>2. k < p /\ k + 1 < 2 * p
      BY <2>2, <3>1
    <3> QED
      BY <3>1, <3>2
  <2> HIDE DEF T
  <2> QED
    BY <2>1, <2>2, Induction
<1> QED
  BY <1>1, <1>2, <1>3

\* A greater exponent, as a product.
LEMMA PowerUpTo ==
  ASSUME NEW m \in Nat, NEW n \in Nat, m <= n
  PROVE  Power(2, n) = Power(2, m) * Power(2, n - m) /\ n - m \in Nat /\ Power(2, m) <= Power(2, n)
<1>1. n - m \in Nat /\ m + (n - m) = n
  OBVIOUS
<1>2. Power(2, n) = Power(2, m) * Power(2, n - m)
  BY <1>1, PowerSum
<1>3. Power(2, m) \in Nat \ {0} /\ Power(2, n - m) \in Nat \ {0}
  BY <1>1, TwoPower
<1>4. \A x, y \in Nat \ {0} : x <= x * y
  OBVIOUS
<1> QED
  BY <1>1, <1>2, <1>3, <1>4

\* A digit in base 2 is 0 or 1.
LEMMA BitIsBit ==
  ASSUME NEW v \in Int, NEW i \in Nat
  PROVE  Digit(v, 2, i) \in {0, 1}
<1>1. v \div Power(2, i) \in Int
  BY TwoPower, Euclid
<1>2. \A q \in Int : q % 2 \in {0, 1}
  OBVIOUS
<1> QED
  BY <1>1, <1>2 DEF Digit

\* Digits beyond a division.
LEMMA BitOfQuotient ==
  ASSUME NEW v \in Int, NEW k \in Nat, NEW i \in Nat
  PROVE  Digit(v \div Power(2, k), 2, i) = Digit(v, 2, k + i)
<1>1. Power(2, k) \in Nat \ {0} /\ Power(2, i) \in Nat \ {0}
  BY TwoPower
<1>2. Power(2, k + i) = Power(2, k) * Power(2, i)
  BY PowerSum
<1>3. v \div (Power(2, i) * Power(2, k)) = (v \div Power(2, k)) \div Power(2, i)
  BY <1>1, RemainderByProduct
<1>4. Power(2, k) * Power(2, i) = Power(2, i) * Power(2, k)
  BY <1>1
<1> QED
  BY <1>2, <1>3, <1>4 DEF Digit

\* Digits of a remainder.
LEMMA BitOfRemainder ==
  ASSUME NEW v \in Int, NEW n \in Nat, NEW i \in 0..n - 1
  PROVE  Digit(v % Power(2, n), 2, i) = Digit(v, 2, i)
<1>1. PICK p \in Nat \ {0} : p = Power(2, i)
  BY TwoPower
<1>2. PICK h \in Nat \ {0} : h = Power(2, (n - i) - 1)
  <2>1. (n - i) - 1 \in Nat
    OBVIOUS
  <2> QED
    BY <2>1, TwoPower
<1>3. Power(2, n) = (2 * h) * p
  <2>1. (n - i) - 1 \in Nat /\ i + (((n - i) - 1) + 1) = n /\ ((n - i) - 1) + 1 \in Nat
    OBVIOUS
  <2>2. Power(2, ((n - i) - 1) + 1) = 2 * h
    BY <1>2, <2>1, TwoPower
  <2>3. Power(2, i + (((n - i) - 1) + 1)) = p * (2 * h)
    BY <1>1, <2>1, <2>2, PowerSum
  <2>4. p * (2 * h) = (2 * h) * p
    BY <1>1, <1>2
  <2> QED
    BY <2>1, <2>3, <2>4
<1>4. 2 * h \in Nat \ {0}
  BY <1>2
<1>5. v % ((2 * h) * p) = (v % p) + p * ((v \div p) % (2 * h))
  BY <1>1, <1>4, RemainderByProduct
<1>6. PICK q \in Int : q = v \div p
  BY <1>1, Euclid
<1>7. PICK t \in Int : t = q % (2 * h) /\ t % 2 = q % 2
  <2>1. 2 \in Nat \ {0}
    OBVIOUS
  <2>2. h * 2 = 2 * h
    BY <1>2
  <2>3. q % (h * 2) = (q % 2) + 2 * ((q \div 2) % h)
    BY <1>2, <1>6, <2>1, RemainderByProduct
  <2>4. q \div 2 \in Int
    BY <1>6, <2>1, Euclid
  <2>5. (q \div 2) % h \in Int
    BY <1>2, <2>4, Euclid
  <2>6. \A a, b \in Int : ((a % 2) + 2 * b) % 2 = a % 2 /\ (a % 2) + 2 * b \in Int
    OBVIOUS
  <2> QED
    BY <1>6, <2>2, <2>3, <2>5, <2>6
<1>8. PICK r \in 0..p - 1 : r = v % p
  BY <1>1, Euclid
<1>9. (v % Power(2, n)) \div p = t
  <2>1. v % Power(2, n) = p * t + r
    <3>1. v % Power(2, n) = r + p * t
      BY <1>3, <1>5, <1>6, <1>7, <1>8
    <3>2. r + p * t = p * t + r
      BY <1>1, <1>7, <1>8
    <3> QED
      BY <3>1, <3>2
  <2>2. v % Power(2, n) \in Int
    <3>1. PICK d \in Nat \ {0} : d = Power(2, n)
      BY TwoPower
    <3>2. v % d \in Int
      BY Euclid
    <3> QED
      BY <3>1, <3>2
  <2> QED
    BY <1>1, <1>7, <1>8, <2>1, <2>2, OneQuotient
<1> QED
  BY <1>1, <1>6, <1>7, <1>9 DEF Digit

\* Digits of a multiple.
LEMMA BitOfProduct ==
  ASSUME NEW v \in Int, NEW k \in Nat, NEW i \in Nat
  PROVE  Digit(v * Power(2, k), 2, i) = IF i < k THEN 0 ELSE Digit(v, 2, i - k)
<1>1. CASE i < k
  <2>1. PICK p \in Nat \ {0} : p = Power(2, i)
    BY TwoPower
  <2>2. (k - i) - 1 \in Nat /\ i + (((k - i) - 1) + 1) = k /\ ((k - i) - 1) + 1 \in Nat
    BY <1>1
  <2>3. PICK h \in Nat \ {0} : h = Power(2, (k - i) - 1)
    BY <2>2, TwoPower
  <2>4. Power(2, ((k - i) - 1) + 1) = 2 * h
    BY <2>2, <2>3, TwoPower
  <2>5. Power(2, k) = p * (2 * h)
    BY <2>1, <2>2, <2>4, PowerSum
  <2>6. v * Power(2, k) = p * (2 * (v * h)) + 0
    <3>1. \A a, b, c \in Int : a * (b * (2 * c)) = b * (2 * (a * c)) + 0
      OBVIOUS
    <3> QED
      BY <2>1, <2>3, <2>5, <3>1
  <2>7. v * h \in Int /\ 2 * (v * h) \in Int
    BY <2>3
  <2>8. v * Power(2, k) \in Int /\ 0 \in 0..p - 1
    BY <2>1, TwoPower
  <2>9. (v * Power(2, k)) \div p = 2 * (v * h)
    BY <2>1, <2>6, <2>7, <2>8, OneQuotient
  <2>10. \A a \in Int : (2 * a) % 2 = 0
    OBVIOUS
  <2> QED
    BY <1>1, <2>1, <2>7, <2>9, <2>10 DEF Digit
<1>2. CASE ~(i < k)
  <2>1. i - k \in Nat /\ k + (i - k) = i
    BY <1>2
  <2>2. PICK p \in Nat \ {0} : p = Power(2, k)
    BY TwoPower
  <2>3. v * p = p * v + 0 /\ v * p \in Int /\ 0 \in 0..p - 1
    BY <2>2
  <2>4. (v * p) \div p = v
    BY <2>2, <2>3, OneQuotient
  <2>5. Digit((v * p) \div p, 2, i - k) = Digit(v * p, 2, k + (i - k))
    BY <2>1, <2>2, <2>3, BitOfQuotient
  <2> QED
    BY <1>2, <2>1, <2>2, <2>4, <2>5
<1> QED
  BY <1>1, <1>2

\* There are only zeros above a small number.
LEMMA BitAbove ==
  ASSUME NEW n \in Nat, NEW v \in 0..Power(2, n) - 1, NEW i \in Nat, n <= i
  PROVE  Digit(v, 2, i) = 0
<1>1. PICK p \in Nat \ {0} : p = Power(2, i)
  BY TwoPower
<1>2. Power(2, n) \in Nat /\ Power(2, n) <= p
  BY <1>1, PowerUpTo, TwoPower
<1>3. v \in Int /\ v \in 0..p - 1 /\ v = p * 0 + v
  BY <1>1, <1>2
<1>4. v \div p = 0
  BY <1>1, <1>3, OneQuotient
<1> QED
  BY <1>1, <1>4 DEF Digit

\* The highest bit tells on which side of the half a pattern is.
LEMMA HighBit ==
  ASSUME NEW n \in Nat \ {0}, NEW v \in 0..Power(2, n) - 1
  PROVE  Digit(v, 2, n - 1) = IF v >= Power(2, n - 1) THEN 1 ELSE 0
<1>1. n - 1 \in Nat /\ (n - 1) + 1 = n
  OBVIOUS
<1>2. PICK h \in Nat \ {0} : h = Power(2, n - 1) /\ Power(2, n) = 2 * h
  BY <1>1, TwoPower
<1>3. v \in 0..2 * h - 1
  BY <1>2
<1>4. CASE v >= h
  <2>1. v = h * 1 + (v - h) /\ v - h \in 0..h - 1 /\ v \in Int
    BY <1>2, <1>3, <1>4
  <2>2. v \div h = 1
    BY <1>2, <2>1, OneQuotient
  <2> QED
    BY <1>2, <1>4, <2>2 DEF Digit
<1>5. CASE ~(v >= h)
  <2>1. v = h * 0 + v /\ v \in 0..h - 1 /\ v \in Int
    BY <1>2, <1>3, <1>5
  <2>2. v \div h = 0
    BY <1>2, <2>1, OneQuotient
  <2> QED
    BY <1>2, <1>5, <2>2 DEF Digit
<1> QED
  BY <1>4, <1>5

\* The ones of the number that a set of bits stands for.
LEMMA BitOfSum ==
  ASSUME NEW S, NEW n \in Nat, NEW i \in 0..n - 1
  PROVE  Digit(Bitsum(S, n), 2, i) = IF i \in S THEN 1 ELSE 0
<1> DEFINE T == {j \in Nat : i + j \in S}
           U == {j \in Nat : 1 + j \in T}
<1>1. i \in Nat /\ n - i \in Nat /\ i + (n - i) = n /\ (n - i) - 1 \in Nat /\ 1 + ((n - i) - 1) = n - i
  OBVIOUS
<1>2. Bitsum(S, n) = Bitsum(S, i) + Power(2, i) * Bitsum(T, n - i)
  <2>1. \A j \in 0..(n - i) - 1 : j \in T <=> i + j \in S
    OBVIOUS
  <2> HIDE DEF T
  <2>2. Bitsum(S, i + (n - i)) = Bitsum(S, i) + Power(2, i) * Bitsum(T, n - i)
    BY <1>1, <2>1, BitsumSplit
  <2> QED
    BY <1>1, <2>2
<1>3. Bitsum(T, n - i) = Bitsum(T, 1) + Power(2, 1) * Bitsum(U, (n - i) - 1)
  <2>1. \A j \in 0..((n - i) - 1) - 1 : j \in U <=> 1 + j \in T
    OBVIOUS
  <2> HIDE DEF T, U
  <2>2. Bitsum(T, 1 + ((n - i) - 1)) = Bitsum(T, 1) + Power(2, 1) * Bitsum(U, (n - i) - 1)
    BY <1>1, <2>1, BitsumSplit
  <2> QED
    BY <1>1, <2>2
<1>4. Bitsum(T, 1) = IF i \in S THEN 1 ELSE 0
  <2>1. 0 \in T <=> i \in S
    OBVIOUS
  <2> HIDE DEF T
  <2>2. Bitsum(T, 0) = 0 /\ Bitsum(T, 0 + 1) = Bitsum(T, 0) + (IF 0 \in T THEN Power(2, 0) ELSE 0)
    BY BitsumStep
  <2>3. Power(2, 0) = 1
    BY TwoPower
  <2> QED
    BY <2>1, <2>2, <2>3
<1>5. PICK p \in Nat \ {0} : p = Power(2, i)
  BY TwoPower
<1>6. PICK r \in 0..p - 1 : r = Bitsum(S, i)
  BY <1>5, BitsumType
<1>7. PICK u \in Nat : u = Bitsum(U, (n - i) - 1)
  BY <1>1, BitsumType
<1>8. PICK b \in {0, 1} : b = IF i \in S THEN 1 ELSE 0
  OBVIOUS
<1>9. PICK t \in Nat : t = Bitsum(T, n - i) /\ t % 2 = b
  <2>1. Bitsum(T, n - i) = b + 2 * u
    BY <1>3, <1>4, <1>7, <1>8, TwoPower
  <2>2. b + 2 * u \in Nat /\ (b + 2 * u) % 2 = b
    BY <1>7, <1>8
  <2> QED
    BY <2>1, <2>2
<1>10. Bitsum(S, n) \div p = t
  <2>1. Bitsum(S, n) = r + p * t
    BY <1>2, <1>5, <1>6, <1>9
  <2>2. r + p * t = p * t + r /\ p * t + r \in Int /\ t \in Int
    BY <1>5, <1>6, <1>9
  <2> QED
    BY <1>5, <1>6, <2>1, <2>2, OneQuotient
<1> QED
  BY <1>5, <1>8, <1>9, <1>10 DEF Digit

\* A pattern is the number its ones stand for.
LEMMA SumOfBits ==
  ASSUME NEW n \in Nat, NEW m \in Nat, n <= m, NEW v \in Int
  PROVE  Bitsum({i \in 0..m - 1 : Digit(v, 2, i) = 1}, n) = v % Power(2, n)
<1> DEFINE S == {i \in 0..m - 1 : Digit(v, 2, i) = 1}
<1>1. Digits(BitsOf(S, n)) /\ \A i \in 0..n - 1 : DigitAt(BitsOf(S, n), i) = IF i \in S THEN 1 ELSE 0
  BY BitDigits
<1>2. \A i \in 0..n - 1 : DigitAt(BitsOf(S, n), i) = Digit(v, 2, i)
  <2> SUFFICES ASSUME NEW i \in 0..n - 1 PROVE DigitAt(BitsOf(S, n), i) = Digit(v, 2, i)
    OBVIOUS
  <2>1. i \in 0..m - 1 /\ i \in Nat
    OBVIOUS
  <2>2. Digit(v, 2, i) \in {0, 1}
    BY <2>1, BitIsBit
  <2>3. i \in S <=> Digit(v, 2, i) = 1
    BY <2>1
  <2> HIDE DEF S
  <2> QED
    BY <1>1, <2>2, <2>3
<1> HIDE DEF S
<1>3. 2 \in Nat \ {0}
  OBVIOUS
<1>4. NumberOf(BitsOf(S, n), 2, n) = v % Power(2, n)
  BY <1>1, <1>2, <1>3, DigitsOfNumber
<1> QED
  BY <1>4 DEF Bitsum, S

\* Patterns of the same bits are the same.
LEMMA SameBits ==
  ASSUME NEW n \in Nat, NEW v \in 0..Power(2, n) - 1, NEW u \in 0..Power(2, n) - 1,
         \A i \in 0..n - 1 : Digit(v, 2, i) = Digit(u, 2, i)
  PROVE  v = u
<1>1. \A x \in 0..Power(2, n) - 1 : x % Power(2, n) = x
  <2>1. \A d \in Nat \ {0} : \A x \in 0..d - 1 : x % d = x
    OBVIOUS
  <2> QED
    BY <2>1, TwoPower
<1>2. Bitsum({i \in 0..n - 1 : Digit(v, 2, i) = 1}, n) = v
  BY <1>1, SumOfBits
<1>3. Bitsum({i \in 0..n - 1 : Digit(u, 2, i) = 1}, n) = u
  BY <1>1, SumOfBits
<1>4. {i \in 0..n - 1 : Digit(v, 2, i) = 1} = {i \in 0..n - 1 : Digit(u, 2, i) = 1}
  OBVIOUS
<1> QED
  BY <1>2, <1>3, <1>4

----------------------------------------------------------------------------
(* Registers *)

\* The widths of the two integer types.
LEMMA WidthsNat ==
  /\ WordBits \in Nat \ {0} /\ LongBits \in Nat \ {0} /\ LongBits = 2 * WordBits /\ WordBits < LongBits
  /\ \A t : Width(t) \in {WordBits, LongBits} /\ Width(t) \in Nat \ {0} /\ Width(t) <= LongBits
<1>1. PICK k \in 0..WordBits : WordBits = Power(2, k)
  BY NumericAssumption
<1>2. k \in Nat
  OBVIOUS
<1>3. WordBits \in Nat \ {0}
  BY <1>1, <1>2, TwoPower
<1> QED
  BY <1>3 DEF LongBits, Width

\* A mask for a count is a power of two, less one.
LEMMA WidthIsPower ==
  ASSUME NEW w \in {WordBits, LongBits}
  PROVE  \E e \in Nat : w = Power(2, e) /\ e <= w
<1>1. PICK k \in 0..WordBits : WordBits = Power(2, k)
  BY NumericAssumption
<1>2. k \in Nat /\ WordBits \in Nat
  BY WidthsNat
<1>3. CASE w = WordBits
  BY <1>1, <1>2, <1>3
<1>4. CASE w = LongBits
  <2>1. w = Power(2, k + 1)
    BY <1>1, <1>2, <1>4, TwoPower DEF LongBits
  <2>2. k + 1 \in Nat /\ k + 1 <= w
    BY <1>2, <1>4, WidthsNat
  <2> QED
    BY <2>1, <2>2
<1> QED
  BY <1>3, <1>4

\* The ones of a pattern, and those of a number made of ones.
LEMMA BitsOfSum ==
  ASSUME NEW S, S \subseteq 0..LongBits - 1
  PROVE  Bits(Bitsum(S, LongBits)) = S
<1>1. LongBits \in Nat
  BY WidthsNat
<1>2. ASSUME NEW i \in 0..LongBits - 1 PROVE i \in Bits(Bitsum(S, LongBits)) <=> i \in S
  <2>1. Digit(Bitsum(S, LongBits), 2, i) = IF i \in S THEN 1 ELSE 0
    BY <1>1, BitOfSum
  <2> QED
    BY <2>1 DEF Bits
<1>3. Bits(Bitsum(S, LongBits)) \subseteq 0..LongBits - 1
  BY DEF Bits
<1> QED
  BY <1>2, <1>3

\* The bits of &, | and ^.
LEMMA AndBit ==
  ASSUME NEW a, NEW b, NEW i \in 0..LongBits - 1
  PROVE  /\ Digit(BitAnd(a, b), 2, i) = IF Digit(a, 2, i) = 1 /\ Digit(b, 2, i) = 1 THEN 1 ELSE 0
         /\ Digit(BitOr(a, b), 2, i) = IF Digit(a, 2, i) = 1 \/ Digit(b, 2, i) = 1 THEN 1 ELSE 0
         /\ Digit(BitXor(a, b), 2, i) =
               IF Digit(a, 2, i) = 1 <=> Digit(b, 2, i) = 1 THEN 0 ELSE 1
<1>1. LongBits \in Nat
  BY WidthsNat
<1>2. \A c : i \in Bits(c) <=> Digit(c, 2, i) = 1
  BY DEF Bits
<1>3. Digit(BitAnd(a, b), 2, i) = IF i \in Bits(a) \cap Bits(b) THEN 1 ELSE 0
  BY <1>1, BitOfSum DEF BitAnd
<1>4. Digit(BitOr(a, b), 2, i) = IF i \in Bits(a) \cup Bits(b) THEN 1 ELSE 0
  BY <1>1, BitOfSum DEF BitOr
<1>5. Digit(BitXor(a, b), 2, i) = IF i \in (Bits(a) \ Bits(b)) \cup (Bits(b) \ Bits(a)) THEN 1 ELSE 0
  BY <1>1, BitOfSum DEF BitXor
<1> QED
  BY <1>2, <1>3, <1>4, <1>5

\* Whatever &, | and ^ are given, a pattern of the greater width comes out.
LEMMA RegisterValues ==
  ASSUME NEW a, NEW b
  PROVE  /\ BitAnd(a, b) \in 0..Power(2, LongBits) - 1
         /\ BitOr(a, b) \in 0..Power(2, LongBits) - 1
         /\ BitXor(a, b) \in 0..Power(2, LongBits) - 1
<1>1. \A S : Bitsum(S, LongBits) \in Nat /\ Bitsum(S, LongBits) < Power(2, LongBits)
  BY WidthsNat, BitsumType
<1>2. \A x, d \in Nat : x < d => x \in 0..d - 1
  OBVIOUS
<1>3. Power(2, LongBits) \in Nat
  BY WidthsNat, TwoPower
<1> QED
  BY <1>1, <1>2, <1>3 DEF BitAnd, BitOr, BitXor

\* n ones, and what they leave of a pattern.
LEMMA Mask ==
  ASSUME NEW n \in 0..LongBits, NEW v \in Int
  PROVE  BitAnd(v, Power(2, n) - 1) = v % Power(2, n)
<1>1. LongBits \in Nat /\ n \in Nat /\ n <= LongBits
  BY WidthsNat
<1> DEFINE S == 0..n - 1
<1>2. Power(2, n) - 1 = Bitsum(S, LongBits)
  <2>1. Bitsum(S, n) = Power(2, n) - 1
    BY <1>1, BitsumAll
  <2>2. \A i \in n..LongBits - 1 : i \notin S
    BY <1>1
  <2> HIDE DEF S
  <2> QED
    BY <1>1, <2>1, <2>2, ZerosAbove
<1>3. Bits(Power(2, n) - 1) = S
  <2>1. S \subseteq 0..LongBits - 1
    BY <1>1
  <2> HIDE DEF S
  <2> QED
    BY <1>2, <2>1, BitsOfSum
<1>4. Bitsum(Bits(v), n) = v % Power(2, n)
  BY <1>1, SumOfBits DEF Bits
<1>5. Bitsum(Bits(v) \cap S, n) = Bitsum(Bits(v), n)
  BY <1>1, BitsumSame
<1>6. Bitsum(Bits(v) \cap S, LongBits) = Bitsum(Bits(v) \cap S, n)
  <2>1. \A i \in n..LongBits - 1 : i \notin Bits(v) \cap S
    BY <1>1
  <2> HIDE DEF S
  <2> QED
    BY <1>1, <2>1, ZerosAbove
<1> HIDE DEF S
<1> QED
  BY <1>3, <1>4, <1>5, <1>6 DEF BitAnd

\* A pattern of n bits as a number with a sign.
LEMMA SignedRange ==
  ASSUME NEW n \in Nat \ {0}, NEW v \in 0..Power(2, n) - 1
  PROVE  /\ Power(2, n - 1) \in Nat \ {0} /\ Power(2, n) = 2 * Power(2, n - 1)
         /\ AsSigned(v, n) \in -Power(2, n - 1)..Power(2, n - 1) - 1
         /\ AsSigned(v, n) = IF v >= Power(2, n - 1) THEN v - Power(2, n) ELSE v
         /\ AsSigned(v, n) % Power(2, n) = v
<1>1. n - 1 \in Nat /\ (n - 1) + 1 = n
  OBVIOUS
<1>2. PICK h \in Nat \ {0} : h = Power(2, n - 1) /\ Power(2, n) = 2 * h
  BY <1>1, TwoPower
<1>3. v \in 0..2 * h - 1
  BY <1>2
<1>4. AsSigned(v, n) = IF v >= h THEN v - 2 * h ELSE v
  BY <1>2 DEF AsSigned
<1>5. PICK s \in Int : s = AsSigned(v, n) /\ s \in -h..h - 1 /\ (s = v \/ s = v - 2 * h)
  <2>1. CASE v >= h
    <3>1. v - 2 * h \in -h..h - 1 /\ v - 2 * h \in Int
      BY <1>3, <2>1
    <3> QED
      BY <1>4, <2>1, <3>1
  <2>2. CASE ~(v >= h)
    <3>1. v \in -h..h - 1 /\ v \in Int
      BY <1>3, <2>2
    <3> QED
      BY <1>4, <2>2, <3>1
  <2> QED
    BY <2>1, <2>2
<1>6. s % (2 * h) = v
  <2>1. 2 * h \in Nat \ {0} /\ 0 \in Int /\ -1 \in Int
    BY <1>2
  <2>2. CASE s = v
    BY <1>3, <2>1, <2>2
  <2>3. CASE s = v - 2 * h
    <3>1. s = (2 * h) * (-1) + v
      BY <1>3, <2>3
    <3> QED
      BY <1>3, <2>1, <3>1, OneQuotient
  <2> QED
    BY <1>5, <2>2, <2>3
<1> QED
  BY <1>2, <1>4, <1>5, <1>6

\* A number in range is what its pattern stands for.
LEMMA SignedBack ==
  ASSUME NEW n \in Nat \ {0}, NEW s \in -Power(2, n - 1)..Power(2, n - 1) - 1
  PROVE  AsUnsigned(s, n) \in 0..Power(2, n) - 1 /\ AsSigned(AsUnsigned(s, n), n) = s
<1>1. n - 1 \in Nat /\ (n - 1) + 1 = n
  OBVIOUS
<1>2. PICK h \in Nat \ {0} : h = Power(2, n - 1) /\ Power(2, n) = 2 * h
  BY <1>1, TwoPower
<1>3. s \in Int /\ s \in -h..h - 1 /\ 2 * h \in Nat \ {0} /\ 0 \in Int /\ -1 \in Int
  BY <1>2
<1>4. CASE s >= 0
  <2>1. s % (2 * h) = s
    BY <1>3, <1>4
  <2> QED
    BY <1>2, <1>3, <1>4, <2>1 DEF AsSigned, AsUnsigned
<1>5. CASE ~(s >= 0)
  <2>1. s = (2 * h) * (-1) + (s + 2 * h) /\ s + 2 * h \in 0..2 * h - 1
    BY <1>3, <1>5
  <2>2. s % (2 * h) = s + 2 * h
    BY <1>3, <2>1, OneQuotient
  <2>3. s + 2 * h >= h /\ (s + 2 * h) - 2 * h = s
    BY <1>3
  <2>4. AsUnsigned(s, n) = s + 2 * h
    BY <1>2, <2>2 DEF AsUnsigned
  <2>5. AsSigned(s + 2 * h, n) = s
    BY <1>2, <2>3 DEF AsSigned
  <2> QED
    BY <1>2, <2>1, <2>4, <2>5
<1> QED
  BY <1>4, <1>5

----------------------------------------------------------------------------
(* The handlers, on patterns of either width *)

\* A width, and a pattern of it.
IsWidth(w)      == w \in {WordBits, LongBits}
Pattern(x, w)   == x \in 0..Power(2, w) - 1

\* A width is positive, and patterns are numbers below its power.
LEMMA WidthFacts ==
  ASSUME NEW w, IsWidth(w)
  PROVE  /\ w \in Nat \ {0} /\ w <= LongBits /\ w - 1 \in Nat
         /\ Power(2, w) \in Nat \ {0}
         /\ \A x : Pattern(x, w) => x \in Nat /\ x \in Int /\ x < Power(2, w) /\ x % Power(2, w) = x
<1>1. w \in Nat \ {0} /\ w <= LongBits /\ w - 1 \in Nat
  BY WidthsNat DEF IsWidth
<1>2. Power(2, w) \in Nat \ {0}
  BY <1>1, TwoPower
<1>3. \A d \in Nat \ {0} : \A x \in 0..d - 1 : x \in Nat /\ x \in Int /\ x < d /\ x % d = x
  OBVIOUS
<1> QED
  BY <1>1, <1>2, <1>3 DEF Pattern

\* A remainder is a pattern.
LEMMA Reduced ==
  ASSUME NEW w, IsWidth(w), NEW n \in Int
  PROVE  Pattern(n % Power(2, w), w) /\ Pattern(AsUnsigned(n, w), w)
<1>1. \A d \in Nat \ {0} : n % d \in 0..d - 1
  BY Euclid
<1> QED
  BY <1>1, WidthFacts DEF Pattern, AsUnsigned

\* Sums and differences, modulo the width.
LEMMA AddRight ==
  ASSUME NEW w, IsWidth(w), NEW x, NEW y, Pattern(x, w), Pattern(y, w)
  PROVE  /\ (Calculated("add", x, y, w) - x) % Power(2, w) = y
         /\ (Calculated("sub", x, y, w) + y) % Power(2, w) = x
<1>1. PICK d \in Nat \ {0} : d = Power(2, w)
  BY WidthFacts
<1>2. x \in 0..d - 1 /\ y \in 0..d - 1
  BY <1>1 DEF Pattern
<1>3. Calculated("add", x, y, w) = (x + y) % d /\ Calculated("sub", x, y, w) = (x - y) % d
  BY <1>1 DEF Calculated, AsUnsigned
<1>0. \A a, b \in Int : a * (-b) = -(a * b) /\ a * b \in Int /\ -b \in Int
  OBVIOUS
<1>4. (((x + y) % d) - x) % d = y
  <2>0. PICK s \in Int : s = x + y
    BY <1>2
  <2>1. PICK q \in Int, r \in 0..d - 1 : r = s % d /\ s = d * q + r
    BY Euclid
  <2>2. r - x = d * (-q) + y /\ r - x \in Int /\ -q \in Int
    <3>1. PICK t \in Int : t = d * q /\ d * (-q) = -t
      BY <1>0
    <3> QED
      BY <1>2, <2>0, <2>1, <3>1
  <2>3. (r - x) % d = y
    BY <1>2, <2>2, OneQuotient
  <2> QED
    BY <2>0, <2>1, <2>3
<1>5. (((x - y) % d) + y) % d = x
  <2>0. PICK s \in Int : s = x - y
    BY <1>2
  <2>1. PICK q \in Int, r \in 0..d - 1 : r = s % d /\ s = d * q + r
    BY Euclid
  <2>2. r + y = d * (-q) + x /\ r + y \in Int /\ -q \in Int
    <3>1. PICK t \in Int : t = d * q /\ d * (-q) = -t
      BY <1>0
    <3> QED
      BY <1>2, <2>0, <2>1, <3>1
  <2>3. (r + y) % d = x
    BY <1>2, <2>2, OneQuotient
  <2> QED
    BY <2>0, <2>1, <2>3
<1> QED
  BY <1>1, <1>3, <1>4, <1>5

\* So are products.
LEMMA MulRight ==
  ASSUME NEW w, IsWidth(w), NEW x, NEW y, Pattern(x, w), Pattern(y, w)
  PROVE  /\ (Calculated("mul", x, y, w) - x * y) % Power(2, w) = 0
         /\ Pattern(Calculated("mul", x, y, w), w)
<1>1. PICK d \in Nat \ {0} : d = Power(2, w)
  BY WidthFacts
<1>2. PICK p \in Int : p = x * y
  BY WidthFacts
<1>3. Calculated("mul", x, y, w) = p % d
  BY <1>1, <1>2 DEF Calculated, AsUnsigned
<1>4. ((p % d) - p) % d = 0
  <2>1. PICK q \in Int, r \in 0..d - 1 : r = p % d /\ p = d * q + r
    BY Euclid
  <2>2. r - p = d * (-q) + 0 /\ r - p \in Int /\ -q \in Int /\ 0 \in 0..d - 1
    BY <2>1
  <2>3. (r - p) % d = 0
    BY <2>2, OneQuotient
  <2> QED
    BY <2>1, <2>3
<1>5. Pattern(p % d, w)
  BY <1>1, Reduced
<1> QED
  BY <1>1, <1>2, <1>3, <1>4, <1>5

\* The signed order is the unsigned one with the highest bits flipped.
Half(n, w) == (n + Power(2, w - 1)) % Power(2, w)

\* The handlers' order of signed variables is that of the flipped patterns.
LEMMA SignedOrder ==
  ASSUME NEW w, IsWidth(w), NEW x, NEW y, Pattern(x, w), Pattern(y, w)
  PROVE  /\ AsSigned(x, w) < AsSigned(y, w) <=> Half(x, w) < Half(y, w)
         /\ AsSigned(x, w) \in Int
<1>1. w \in Nat \ {0}
  BY WidthFacts
<1>2. PICK h \in Nat \ {0} : h = Power(2, w - 1) /\ Power(2, w) = 2 * h
  <2>1. x \in 0..Power(2, w) - 1
    BY DEF Pattern
  <2> QED
    BY <1>1, <2>1, SignedRange
<1>3. ASSUME NEW v, Pattern(v, w) PROVE Half(v, w) = AsSigned(v, w) + h /\ AsSigned(v, w) \in Int
  <2>1. v \in 0..2 * h - 1 /\ 2 * h \in Nat \ {0}
    BY <1>2, <1>3 DEF Pattern
  <2>2. AsSigned(v, w) = IF v >= h THEN v - 2 * h ELSE v
    BY <1>2 DEF AsSigned
  <2>3. CASE v >= h
    <3>1. v + h = (2 * h) * 1 + (v - h) /\ v - h \in 0..2 * h - 1 /\ v + h \in Int /\ 1 \in Int
      BY <2>1, <2>3
    <3>2. (v + h) % (2 * h) = v - h
      BY <2>1, <3>1, OneQuotient
    <3>3. v - h = (v - 2 * h) + h /\ v - 2 * h \in Int
      BY <2>1
    <3> QED
      BY <1>2, <2>2, <2>3, <3>2, <3>3 DEF Half
  <2>4. CASE ~(v >= h)
    <3>1. v + h \in 0..2 * h - 1 /\ v \in Int
      BY <2>1, <2>4
    <3>2. (v + h) % (2 * h) = v + h
      BY <2>1, <3>1
    <3> QED
      BY <1>2, <2>2, <2>4, <3>1, <3>2 DEF Half
  <2> QED
    BY <2>3, <2>4
<1>4. \A a, b \in Int : a < b <=> a + h < b + h
  OBVIOUS
<1>5. Half(x, w) = AsSigned(x, w) + h /\ AsSigned(x, w) \in Int
  BY <1>3
<1>6. Half(y, w) = AsSigned(y, w) + h /\ AsSigned(y, w) \in Int
  BY <1>3
<1> QED
  BY <1>4, <1>5, <1>6

\* A shift to the left is bit by bit; so is one to the right, without a sign and with one.
LEMMA ShiftRightBits ==
  ASSUME NEW w, IsWidth(w), NEW x, Pattern(x, w), NEW k \in 0..w - 1, NEW i \in 0..w - 1
  PROVE  /\ Digit(ShiftLeft(x, k, w), 2, i) = IF i < k THEN 0 ELSE Digit(x, 2, i - k)
         /\ Digit(ShiftRight(x, k, w), 2, i) = IF i + k < w THEN Digit(x, 2, i + k) ELSE 0
<1>1. w \in Nat \ {0} /\ x \in Int /\ k \in Nat /\ i \in Nat /\ k % w = k
  BY WidthFacts
<1>2. PICK p \in Nat \ {0} : p = Power(2, k)
  BY <1>1, TwoPower
<1>3. ShiftLeft(x, k, w) = (x * p) % Power(2, w) /\ ShiftRight(x, k, w) = x \div p
  BY <1>1, <1>2 DEF ShiftLeft, ShiftRight
<1>4. Digit((x * p) % Power(2, w), 2, i) = Digit(x * p, 2, i)
  <2>1. x * p \in Int
    BY <1>1, <1>2
  <2> QED
    BY <1>1, <2>1, BitOfRemainder
<1>5. Digit(x * p, 2, i) = IF i < k THEN 0 ELSE Digit(x, 2, i - k)
  BY <1>1, <1>2, BitOfProduct
<1>6. Digit(x \div p, 2, i) = Digit(x, 2, i + k)
  <2>1. k + i = i + k
    BY <1>1
  <2> QED
    BY <1>1, <1>2, <2>1, BitOfQuotient
<1>7. ~(i + k < w) => Digit(x, 2, i + k) = 0
  <2> SUFFICES ASSUME ~(i + k < w) PROVE Digit(x, 2, i + k) = 0
    OBVIOUS
  <2>1. i + k \in Nat /\ w <= i + k /\ w \in Nat
    BY <1>1
  <2> QED
    BY <2>1, BitAbove DEF Pattern
<1> QED
  BY <1>3, <1>4, <1>5, <1>6, <1>7

\* The sign of a number, bit by bit.
LEMMA SignedBit ==
  ASSUME NEW w, IsWidth(w), NEW x, Pattern(x, w), NEW i \in Nat
  PROVE  Digit(AsSigned(x, w), 2, i) = Digit(x, 2, IF i < w THEN i ELSE w - 1)
<1>1. w \in Nat \ {0} /\ x \in 0..Power(2, w) - 1
  BY WidthFacts DEF Pattern
<1>2. PICK h \in Nat \ {0} : h = Power(2, w - 1) /\ Power(2, w) = 2 * h
  BY <1>1, SignedRange
<1>3. PICK s \in Int : s = AsSigned(x, w) /\ s \in -h..h - 1 /\ s % Power(2, w) = x
  BY <1>1, <1>2, SignedRange
<1>4. CASE i < w
  <2>1. i \in 0..w - 1 /\ w \in Nat
    BY <1>1, <1>4
  <2>2. Digit(s % Power(2, w), 2, i) = Digit(s, 2, i)
    BY <2>1, BitOfRemainder
  <2> QED
    BY <1>3, <1>4, <2>2
<1>5. CASE ~(i < w)
  <2>1. PICK p \in Nat \ {0} : p = Power(2, i)
    BY TwoPower
  <2>2. h <= p
    <3>1. w - 1 \in Nat /\ w - 1 <= i
      BY <1>1, <1>5
    <3> QED
      BY <1>2, <2>1, <3>1, PowerUpTo
  <2>3. Digit(x, 2, w - 1) = IF x >= h THEN 1 ELSE 0
    BY <1>1, <1>2, HighBit
  <2>4. s = IF x >= h THEN x - 2 * h ELSE x
    BY <1>1, <1>2, <1>3, SignedRange
  <2>5. x \in 0..2 * h - 1 /\ 0 \in Int /\ -1 \in Int
    BY <1>1, <1>2
  <2>6. CASE x >= h
    <3>1. s < 0 /\ -h <= s
      BY <2>4, <2>5, <2>6
    <3>2. s = p * (-1) + (s + p) /\ s + p \in 0..p - 1
      BY <2>2, <3>1
    <3>3. s \div p = -1
      BY <2>5, <3>2, OneQuotient
    <3>4. (-1) % 2 = 1
      <4>1. -1 = 2 * (-1) + 1 /\ -1 \in Int /\ 2 \in Nat \ {0} /\ 1 \in 0..2 - 1
        OBVIOUS
      <4> QED
        BY <4>1, OneQuotient
    <3> QED
      BY <1>3, <1>5, <2>1, <2>3, <2>6, <3>3, <3>4 DEF Digit
  <2>7. CASE ~(x >= h)
    <3>1. s \in 0..p - 1 /\ s = p * 0 + s
      BY <2>2, <2>4, <2>5, <2>7
    <3>2. s \div p = 0
      BY <2>5, <3>1, OneQuotient
    <3> QED
      BY <1>3, <1>5, <2>1, <2>3, <2>7, <3>2 DEF Digit
  <2> QED
    BY <2>6, <2>7
<1> QED
  BY <1>4, <1>5

\* The handlers of shifts, bit by bit.
LEMMA ShiftsRight ==
  ASSUME NEW w, IsWidth(w), NEW x, NEW y, Pattern(x, w), Pattern(y, w), NEW i \in 0..w - 1
  PROVE  LET k == y % w
         IN  /\ Digit(ShiftedBy("shl", x, y, w), 2, i) = IF i < k THEN 0 ELSE Digit(x, 2, i - k)
             /\ Digit(ShiftedBy("shr_u", x, y, w), 2, i) = IF i + k < w THEN Digit(x, 2, i + k) ELSE 0
             /\ Digit(ShiftedBy("shr_s", x, y, w), 2, i) = Digit(x, 2, IF i + k < w THEN i + k ELSE w - 1)
<1>1. w \in Nat \ {0} /\ x \in Int /\ y \in Int /\ i \in Nat
  BY WidthFacts
<1>2. PICK k \in 0..w - 1 : k = y % w /\ k % w = k /\ k \in Nat
  <2>1. y % w \in 0..w - 1
    BY <1>1, Euclid
  <2>2. \A d \in Nat \ {0} : \A c \in 0..d - 1 : c % d = c /\ c \in Nat
    OBVIOUS
  <2> QED
    BY <1>1, <2>1, <2>2
<1>3. ShiftLeft(x, y, w) = ShiftLeft(x, k, w) /\ ShiftRight(x, y, w) = ShiftRight(x, k, w)
  BY <1>2 DEF ShiftLeft, ShiftRight
<1>4. ShiftedBy("shl", x, y, w) = ShiftLeft(x, k, w) /\ ShiftedBy("shr_u", x, y, w) = ShiftRight(x, k, w)
  BY <1>3 DEF ShiftedBy
<1>5. ShiftedBy("shr_s", x, y, w) = (AsSigned(x, w) \div Power(2, k)) % Power(2, w)
  BY <1>2 DEF ShiftedBy, AsUnsigned
<1>6. AsSigned(x, w) \in Int
  BY SignedOrder
<1>7. Digit((AsSigned(x, w) \div Power(2, k)) % Power(2, w), 2, i) = Digit(AsSigned(x, w), 2, i + k)
  <2>1. PICK q \in Int : q = AsSigned(x, w) \div Power(2, k)
    <3>1. Power(2, k) \in Nat \ {0}
      BY <1>2, TwoPower
    <3> QED
      BY <1>6, <3>1, Euclid
  <2>2. k + i = i + k /\ w \in Nat
    BY <1>1, <1>2
  <2>3. Digit(q % Power(2, w), 2, i) = Digit(q, 2, i)
    BY <2>2, BitOfRemainder
  <2>4. Digit(AsSigned(x, w) \div Power(2, k), 2, i) = Digit(AsSigned(x, w), 2, k + i)
    BY <1>1, <1>2, <1>6, BitOfQuotient
  <2> QED
    BY <2>1, <2>2, <2>3, <2>4
<1>8. i + k \in Nat
  BY <1>1, <1>2
<1>9. Digit(AsSigned(x, w), 2, i + k) = Digit(x, 2, IF i + k < w THEN i + k ELSE w - 1)
  BY <1>8, SignedBit
<1> QED
  BY <1>2, <1>4, <1>5, <1>7, <1>9, ShiftRightBits

\* The counts of the two shifts of a rotation.
LEMMA RotationCounts ==
  ASSUME NEW w, IsWidth(w), NEW mask, NEW k \in 0..w - 1,
         mask = w - 1 \/ (k = 0 /\ mask = WordBits - 1)
  PROVE  /\ BitAnd(k, mask) = k
         /\ BitAnd(AsUnsigned(-k, w), mask) = IF k = 0 THEN 0 ELSE w - k
<1>1. w \in Nat \ {0} /\ w <= LongBits /\ LongBits \in Nat /\ k \in Nat /\ -k \in Int
  BY WidthFacts, WidthsNat
<1>2. PICK v \in {WordBits, LongBits} : mask = v - 1 /\ (v = w \/ k = 0)
  BY DEF IsWidth
<1>3. PICK e \in Nat : v = Power(2, e) /\ e <= v
  BY WidthIsPower
<1>4. e \in 0..LongBits /\ v \in Nat \ {0}
  BY <1>1, <1>3, WidthsNat
<1>5. k % v = k
  <2>1. \A d \in Nat \ {0} : 0 % d = 0 /\ \A c \in 0..d - 1 : c % d = c
    OBVIOUS
  <2> QED
    BY <1>2, <1>4, <2>1
<1>6. BitAnd(k, mask) = k
  BY <1>1, <1>2, <1>3, <1>4, <1>5, Mask
<1>7. PICK u \in Int : u = AsUnsigned(-k, w)
  <2>1. \A d \in Nat \ {0} : (-k) % d \in Int
    BY <1>1, Euclid
  <2> QED
    BY <2>1, WidthFacts DEF AsUnsigned
<1>8. BitAnd(u, mask) = u % v
  BY <1>2, <1>3, <1>4, Mask
<1>9. CASE k = 0
  <2>1. \A d \in Nat \ {0} : (-0) % d = 0 /\ 0 % d = 0
    OBVIOUS
  <2>2. u = 0
    BY <1>7, <1>9, <2>1, WidthFacts DEF AsUnsigned
  <2> QED
    BY <1>4, <1>6, <1>7, <1>8, <1>9, <2>1, <2>2
<1>10. CASE k # 0
  <2>1. v = w /\ k \in 1..w - 1
    BY <1>1, <1>2, <1>10
  <2>2. PICK p \in Nat \ {0} : Power(2, w) = v * p
    <3>1. e \in Nat /\ w \in Nat /\ e <= w
      BY <1>1, <1>3, <2>1
    <3>2. Power(2, w) = Power(2, e) * Power(2, w - e) /\ w - e \in Nat
      BY <3>1, PowerUpTo
    <3>3. Power(2, w - e) \in Nat \ {0}
      BY <3>2, TwoPower
    <3> QED
      BY <1>3, <3>2, <3>3
  <2>3. PICK d \in Nat \ {0} : d = Power(2, w)
    BY WidthFacts
  <2>4. PICK q \in Int : -k = d * q + u
    <3>1. -k = d * ((-k) \div d) + ((-k) % d) /\ (-k) \div d \in Int
      BY <1>1, Euclid
    <3>2. u = (-k) % d
      BY <1>7, <2>3 DEF AsUnsigned
    <3> QED
      BY <3>1, <3>2
  <2>5. u = v * (-(p * q) - 1) + (w - k)
    <3>1. PICK t \in Int : t = p * q /\ d * q = v * t
      <4>1. \A a, b \in Nat, c \in Int : (a * b) * c = a * (b * c) /\ b * c \in Int
        OBVIOUS
      <4> QED
        BY <1>4, <2>2, <2>3, <4>1
    <3>2. v * (-t - 1) = -(v * t) - v
      <4>1. \A a \in Nat, b \in Int : a * (-b - 1) = -(a * b) - a
        OBVIOUS
      <4> QED
        BY <1>4, <4>1
    <3>3. PICK z \in Int : z = v * t
      BY <1>4
    <3>4. u = -k - z
      BY <1>7, <2>4, <3>1, <3>3
    <3>5. -k - z = (-z - v) + (w - k)
      BY <1>1, <2>1, <3>3
    <3> QED
      BY <3>1, <3>2, <3>3, <3>4, <3>5
  <2>6. w - k \in 0..v - 1
    BY <1>1, <2>1
  <2>7. -(p * q) - 1 \in Int
    BY <2>2, <2>4
  <2>8. u % v = w - k
    <3>1. PICK c \in Int : c = -(p * q) - 1
      BY <2>7
    <3>2. PICK r \in 0..v - 1 : r = w - k
      BY <2>6
    <3>3. u = v * c + r
      BY <2>5, <3>1, <3>2
    <3>4. u \in Int /\ c \in Int /\ v \in Nat \ {0} /\ r \in 0..v - 1
      BY <1>4, <1>7, <3>1, <3>2
    <3>5. u % v = r
      BY <3>3, <3>4, OneQuotient
    <3> QED
      BY <3>2, <3>5
  <2> QED
    BY <1>6, <1>7, <1>8, <1>10, <2>8
<1> QED
  BY <1>9, <1>10

\* What two shifts the other way round make together.
LEMMA BothShifts ==
  ASSUME NEW w, IsWidth(w), NEW x, Pattern(x, w), NEW k \in 0..w - 1, NEW b \in 0..w - 1, NEW j \in 0..w - 1
  PROVE  /\ Digit(BitOr(ShiftLeft(x, k, w), ShiftRight(x, b, w)), 2, j) =
              IF k <= j /\ Digit(x, 2, j - k) = 1 THEN 1
              ELSE IF j + b < w /\ Digit(x, 2, j + b) = 1 THEN 1 ELSE 0
         /\ Digit(BitOr(ShiftRight(x, b, w), ShiftLeft(x, k, w)), 2, j) =
              IF k <= j /\ Digit(x, 2, j - k) = 1 THEN 1
              ELSE IF j + b < w /\ Digit(x, 2, j + b) = 1 THEN 1 ELSE 0
<1>1. w \in Nat \ {0} /\ w <= LongBits /\ LongBits \in Nat
  BY WidthFacts, WidthsNat
<1>2. j \in 0..LongBits - 1 /\ j \in Nat /\ k \in Nat
  BY <1>1
<1>3. Digit(ShiftLeft(x, k, w), 2, j) = IF j < k THEN 0 ELSE Digit(x, 2, j - k)
  BY ShiftRightBits
<1>4. Digit(ShiftRight(x, b, w), 2, j) = IF j + b < w THEN Digit(x, 2, j + b) ELSE 0
  BY ShiftRightBits
<1>5. j < k <=> ~(k <= j)
  BY <1>2
<1> QED
  BY <1>2, <1>3, <1>4, <1>5, AndBit

\* A rotation to the left takes bit i to i plus the count, around the end.
LEMMA RotlRight ==
  ASSUME NEW w, IsWidth(w), NEW x, NEW y, Pattern(x, w), Pattern(y, w), NEW i \in 0..w - 1
  PROVE  Digit(Rotated("rotl", x, y, w), 2, (i + (y % w)) % w) = Digit(x, 2, i)
<1>1. w \in Nat \ {0} /\ x \in Int /\ y \in Int /\ i \in Nat
  BY WidthFacts
<1>2. PICK k \in 0..w - 1 : k = y % w /\ k \in Nat
  BY <1>1, Euclid
<1>3. PICK b \in 0..w - 1 : b = IF k = 0 THEN 0 ELSE w - k
  BY <1>1, <1>2
<1>4. Rotated("rotl", x, y, w) = BitOr(ShiftLeft(x, k, w), ShiftRight(x, b, w))
  <2>1. BitAnd(k, w - 1) = k /\ BitAnd(AsUnsigned(-k, w), w - 1) = b
    BY <1>3, RotationCounts
  <2>2. "rotl" # "rotr"
    OBVIOUS
  <2> QED
    BY <1>2, <2>1, <2>2 DEF Rotated
<1>5. Digit(x, 2, i) \in {0, 1}
  BY <1>1, BitIsBit
<1>6. PICK j \in 0..w - 1 : j = (i + k) % w /\ (j = i + k \/ (j = (i + k) - w /\ k > 0))
  <2>1. CASE i + k < w
    <3>1. \A d \in Nat \ {0} : \A c \in 0..d - 1 : c % d = c
      OBVIOUS
    <3>2. i + k \in 0..w - 1
      BY <1>1, <1>2, <2>1
    <3> QED
      BY <1>1, <3>1, <3>2
  <2>2. CASE ~(i + k < w)
    <3>1. PICK s \in Int : s = i + k
      BY <1>1, <1>2
    <3>2. s = w * 1 + (s - w) /\ s - w \in 0..w - 1 /\ k > 0 /\ 1 \in Int
      BY <1>1, <1>2, <2>2, <3>1
    <3>3. s % w = s - w
      BY <1>1, <3>2, OneQuotient
    <3> QED
      BY <3>1, <3>2, <3>3
  <2> QED
    BY <2>1, <2>2
<1>7. Digit(BitOr(ShiftLeft(x, k, w), ShiftRight(x, b, w)), 2, j) =
              IF k <= j /\ Digit(x, 2, j - k) = 1 THEN 1
              ELSE IF j + b < w /\ Digit(x, 2, j + b) = 1 THEN 1 ELSE 0
  BY BothShifts
<1>8. CASE k = 0
  <2>1. j = i /\ j - k = i /\ j + b = i
    BY <1>1, <1>3, <1>6, <1>8
  <2>2. k <= j
    BY <1>1, <1>8, <2>1
  <2> QED
    BY <1>2, <1>4, <1>5, <1>6, <1>7, <2>1, <2>2
<1>9. CASE k # 0 /\ j = i + k
  <2>1. k <= j /\ j - k = i /\ ~(j + b < w)
    BY <1>1, <1>2, <1>3, <1>9
  <2> QED
    BY <1>2, <1>4, <1>5, <1>6, <1>7, <2>1
<1>10. CASE k # 0 /\ j # i + k
  <2>1. ~(k <= j) /\ j + b = i /\ j + b < w
    BY <1>1, <1>2, <1>3, <1>6, <1>10
  <2> QED
    BY <1>2, <1>4, <1>5, <1>6, <1>7, <2>1
<1> QED
  BY <1>8, <1>9, <1>10

\* One to the right, where its mask is that of the width or its count is zero.
LEMMA RotrRight ==
  ASSUME NEW w, IsWidth(w), NEW x, NEW y, Pattern(x, w), Pattern(y, w), NEW i \in 0..w - 1,
         w = LongBits => y % w = 0
  PROVE  Digit(Rotated("rotr", x, y, w), 2, i) = Digit(x, 2, (i + (y % w)) % w)
<1>1. w \in Nat \ {0} /\ x \in Int /\ y \in Int /\ i \in Nat
  BY WidthFacts
<1>2. PICK k \in 0..w - 1 : k = y % w /\ k \in Nat
  BY <1>1, Euclid
<1>3. PICK b \in 0..w - 1 : b = IF k = 0 THEN 0 ELSE w - k
  BY <1>1, <1>2
<1>4. Rotated("rotr", x, y, w) = BitOr(ShiftRight(x, k, w), ShiftLeft(x, b, w))
  <2>1. PICK mask : mask = IF w = LongBits THEN WordBits - 1 ELSE w - 1
    OBVIOUS
  <2>2. mask = w - 1 \/ (k = 0 /\ mask = WordBits - 1)
    BY <1>2, <2>1
  <2>3. BitAnd(k, mask) = k /\ BitAnd(AsUnsigned(-k, w), mask) = b
    BY <1>3, <2>2, RotationCounts
  <2>4. "rotr" # "rotl"
    OBVIOUS
  <2> QED
    BY <1>2, <2>1, <2>3, <2>4 DEF Rotated
<1>5. PICK j \in 0..w - 1 : j = (i + k) % w /\ (j = i + k \/ (j = (i + k) - w /\ k > 0))
  <2>1. CASE i + k < w
    <3>1. \A d \in Nat \ {0} : \A c \in 0..d - 1 : c % d = c
      OBVIOUS
    <3>2. i + k \in 0..w - 1
      BY <1>1, <1>2, <2>1
    <3> QED
      BY <1>1, <3>1, <3>2
  <2>2. CASE ~(i + k < w)
    <3>1. PICK s \in Int : s = i + k
      BY <1>1, <1>2
    <3>2. s = w * 1 + (s - w) /\ s - w \in 0..w - 1 /\ k > 0 /\ 1 \in Int
      BY <1>1, <1>2, <2>2, <3>1
    <3>3. s % w = s - w
      BY <1>1, <3>2, OneQuotient
    <3> QED
      BY <3>1, <3>2, <3>3
  <2> QED
    BY <2>1, <2>2
<1>6. Digit(x, 2, j) \in {0, 1}
  BY <1>1, BitIsBit
<1>7. Digit(BitOr(ShiftRight(x, k, w), ShiftLeft(x, b, w)), 2, i) =
              IF b <= i /\ Digit(x, 2, i - b) = 1 THEN 1
              ELSE IF i + k < w /\ Digit(x, 2, i + k) = 1 THEN 1 ELSE 0
  BY BothShifts
<1>8. CASE k = 0
  <2>1. j = i /\ i - b = i /\ i + k = i /\ b <= i
    BY <1>1, <1>3, <1>5, <1>8
  <2> QED
    BY <1>2, <1>4, <1>5, <1>6, <1>7, <2>1
<1>9. CASE k # 0 /\ j = i + k
  <2>1. ~(b <= i) /\ i + k < w
    BY <1>1, <1>2, <1>3, <1>9
  <2> QED
    BY <1>2, <1>4, <1>5, <1>6, <1>7, <1>9, <2>1
<1>10. CASE k # 0 /\ j # i + k
  <2>1. b <= i /\ i - b = j /\ ~(i + k < w)
    BY <1>1, <1>2, <1>3, <1>5, <1>10
  <2> QED
    BY <1>2, <1>4, <1>5, <1>6, <1>7, <2>1
<1> QED
  BY <1>8, <1>9, <1>10

\* The ones of a pattern are below its width, and it has some unless it is zero.
LEMMA OnesOfPattern ==
  ASSUME NEW w, IsWidth(w), NEW x, Pattern(x, w)
  PROVE  /\ Bits(x) = {i \in 0..w - 1 : Digit(x, 2, i) = 1}
         /\ \A i \in 0..w - 1 : i \notin Bits(x) => Digit(x, 2, i) = 0
         /\ Bits(x) = {} <=> x = 0
<1>1. w \in Nat \ {0} /\ w <= LongBits /\ LongBits \in Nat /\ x \in Int
  BY WidthFacts, WidthsNat
<1>2. \A i \in Nat : w <= i => Digit(x, 2, i) = 0
  BY <1>1, BitAbove DEF Pattern
<1>3. Bits(x) = {i \in 0..w - 1 : Digit(x, 2, i) = 1}
  <2>1. ASSUME NEW i \in Bits(x) PROVE i \in 0..w - 1
    <3>1. i \in Nat /\ Digit(x, 2, i) = 1
      BY DEF Bits
    <3>2. ~(w <= i)
      BY <1>2, <3>1
    <3> QED
      BY <1>1, <3>1, <3>2
  <2>2. \A i \in 0..w - 1 : i \in 0..LongBits - 1
    BY <1>1
  <2> QED
    BY <2>1, <2>2 DEF Bits
<1>4. \A i \in 0..w - 1 : Digit(x, 2, i) \in {0, 1}
  BY <1>1, BitIsBit
<1>5. Bitsum(Bits(x), w) = x
  <2>1. Bitsum(Bits(x), w) = x % Power(2, w)
    BY <1>1, SumOfBits DEF Bits
  <2> QED
    BY <2>1, WidthFacts
<1>6. Bits(x) = {} => x = 0
  <2> SUFFICES ASSUME Bits(x) = {} PROVE x = 0
    OBVIOUS
  <2>1. \A i \in 0..w - 1 : i \notin Bits(x)
    OBVIOUS
  <2>2. Bitsum(Bits(x), w) = 0
    BY <1>1, <2>1, BitsumNone
  <2> QED
    BY <1>5, <2>2
<1>7. x = 0 => Bits(x) = {}
  <2>1. ASSUME NEW i \in Nat PROVE Digit(0, 2, i) = 0
    <3>1. \A d \in Nat \ {0} : 0 \div d = 0
      OBVIOUS
    <3>2. 0 \div Power(2, i) = 0
      BY <3>1, TwoPower
    <3> QED
      BY <3>2 DEF Digit
  <2> QED
    BY <2>1 DEF Bits
<1> QED
  BY <1>3, <1>4, <1>6, <1>7

\* A set of numbers with a bound has a greatest.
LEMMA GreatestNatural ==
  ASSUME NEW n \in Nat, NEW T, T \subseteq 0..n, T # {}
  PROVE  \E x \in T : \A y \in T : y <= x
<1> DEFINE gaps == {d \in Nat : n - d \in T}
<1>1. gaps \in SUBSET Nat /\ gaps # {}
  <2>1. PICK k \in T : TRUE
    OBVIOUS
  <2>2. n - k \in Nat /\ n - (n - k) = k
    BY <2>1
  <2> QED
    BY <2>1, <2>2
<1>2. PICK d \in gaps : \A e \in gaps : d <= e
  <2> HIDE DEF gaps
  <2> QED
    BY <1>1, LeastNatural
<1>3. ASSUME NEW y \in T PROVE y <= n - d
  <2>1. n - y \in Nat /\ n - (n - y) = y
    OBVIOUS
  <2>2. n - y \in gaps
    BY <2>1
  <2>3. d <= n - y /\ d \in Nat
    BY <1>2, <2>2
  <2> QED
    BY <2>1, <2>3
<1> QED
  BY <1>2, <1>3

\* Leading zeros, trailing zeros and ones.
LEMMA CountsRight ==
  ASSUME NEW w, IsWidth(w), NEW x, Pattern(x, w)
  PROVE  /\ \A i \in 0..w - 1 : /\ i >= w - Counted("clz", x, w) => Digit(x, 2, i) = 0
                                /\ i = (w - Counted("clz", x, w)) - 1 => Digit(x, 2, i) = 1
         /\ \A i \in 0..w - 1 : /\ i < Counted("ctz", x, w) => Digit(x, 2, i) = 0
                                /\ i = Counted("ctz", x, w) => Digit(x, 2, i) = 1
         /\ Counted("popcnt", x, w) = Cardinality({i \in 0..w - 1 : Digit(x, 2, i) = 1})
<1>1. w \in Nat \ {0} /\ w - 1 \in Nat
  BY WidthFacts
<1>2. PICK B : B = Bits(x)
  OBVIOUS
<1>3. /\ B = {i \in 0..w - 1 : Digit(x, 2, i) = 1} /\ B \subseteq 0..w - 1
      /\ \A i \in 0..w - 1 : i \notin B => Digit(x, 2, i) = 0
      /\ B = {} <=> x = 0
  BY <1>2, OnesOfPattern
<1>4. Counted("popcnt", x, w) = Cardinality({i \in 0..w - 1 : Digit(x, 2, i) = 1})
  BY <1>2, <1>3 DEF Counted
<1>5. CASE x = 0
  <2>1. Counted("clz", x, w) = w /\ Counted("ctz", x, w) = w
    BY <1>5 DEF Counted
  <2>2. \A i \in 0..w - 1 : Digit(x, 2, i) = 0 /\ i # (w - w) - 1 /\ i # w
    BY <1>1, <1>3, <1>5
  <2> QED
    BY <1>4, <2>1, <2>2
<1>6. CASE x # 0
  <2>1. PICK g \in B : \A j \in B : j <= g
    BY <1>1, <1>3, <1>6, GreatestNatural
  <2>2. PICK l \in B : \A j \in B : l <= j
    BY <1>1, <1>3, <1>6, LeastNatural
  <2>3. (CHOOSE i \in B : \A j \in B : j <= i) = g
    <3> DEFINE c == CHOOSE i \in B : \A j \in B : j <= i
    <3>1. c \in B /\ \A j \in B : j <= c
      BY <2>1
    <3> HIDE DEF c
    <3>2. c <= g /\ g <= c /\ c \in Int /\ g \in Int
      BY <1>3, <2>1, <3>1
    <3>3. c = g
      BY <3>2
    <3> QED
      BY <3>3 DEF c
  <2>4. (CHOOSE i \in B : \A j \in B : i <= j) = l
    <3> DEFINE c == CHOOSE i \in B : \A j \in B : i <= j
    <3>1. c \in B /\ \A j \in B : c <= j
      BY <2>2
    <3> HIDE DEF c
    <3>2. c <= l /\ l <= c /\ c \in Int /\ l \in Int
      BY <1>3, <2>2, <3>1
    <3>3. c = l
      BY <3>2
    <3> QED
      BY <3>3 DEF c
  <2>5. Counted("clz", x, w) = w - 1 - g
    BY <1>2, <1>6, <2>3 DEF Counted
  <2>6. Counted("ctz", x, w) = l
    BY <1>2, <1>6, <2>4 DEF Counted
  <2>7. g \in 0..w - 1 /\ l \in 0..w - 1 /\ w - (w - 1 - g) = g + 1 /\ (w - (w - 1 - g)) - 1 = g
    BY <1>1, <1>3
  <2>8. ASSUME NEW i \in 0..w - 1
        PROVE  /\ i >= g + 1 => Digit(x, 2, i) = 0
               /\ i = g => Digit(x, 2, i) = 1
               /\ i < l => Digit(x, 2, i) = 0
               /\ i = l => Digit(x, 2, i) = 1
    <3>1. i >= g + 1 => i \notin B
      BY <2>1, <2>7
    <3>2. i < l => i \notin B
      BY <2>2, <2>7
    <3> QED
      BY <1>3, <3>1, <3>2
  <2> QED
    BY <1>4, <2>5, <2>6, <2>7, <2>8
<1> QED
  BY <1>5, <1>6

\* The number made of the ones from n to m.
LEMMA UpperOnes ==
  ASSUME NEW n \in 0..LongBits
  PROVE  Bits(Power(2, LongBits) - Power(2, n)) = n..LongBits - 1
<1>1. LongBits \in Nat /\ n \in Nat /\ n <= LongBits
  BY WidthsNat
<1> DEFINE S == n..LongBits - 1
<1>2. Bitsum(S, n) = 0
  BY <1>1, BitsumNone
<1>3. Bitsum(S, LongBits) = Bitsum(S, n) + (Power(2, LongBits) - Power(2, n))
  <2>1. \A i \in n..LongBits - 1 : i \in S
    OBVIOUS
  <2> HIDE DEF S
  <2> QED
    BY <1>1, <2>1, OnesAbove
<1>4. Power(2, LongBits) - Power(2, n) = Bitsum(S, LongBits)
  <2>1. Power(2, LongBits) \in Nat /\ Power(2, n) \in Nat
    BY <1>1, TwoPower
  <2> QED
    BY <1>2, <1>3, <2>1
<1>5. S \subseteq 0..LongBits - 1
  BY <1>1
<1> HIDE DEF S
<1>6. Bits(Bitsum(S, LongBits)) = S
  BY <1>5, BitsOfSum
<1> QED
  BY <1>4, <1>6 DEF S

\* i32.wrap_i64 keeps the lower half.
LEMMA WrapRight ==
  ASSUME NEW x, Pattern(x, LongBits)
  PROVE  /\ Converted("wrap_i64", x) \in 0..Power(2, WordBits) - 1
         /\ (x - Converted("wrap_i64", x)) % Power(2, WordBits) = 0
<1>1. WordBits \in Nat \ {0} /\ LongBits \in Nat \ {0} /\ LongBits = 2 * WordBits /\ WordBits < LongBits
  BY WidthsNat
<1>2. x \in Int
  BY WidthFacts DEF IsWidth
<1>3. PICK p \in Nat \ {0} : p = Power(2, WordBits)
  BY <1>1, TwoPower
<1>4. BitMask(LongBits, WordBits) = p - 1
  <2>1. LongBits - WordBits = WordBits /\ WordBits % LongBits = WordBits
    <3>1. \A d \in Nat \ {0} : \A c \in 0..d - 1 : c % d = c
      OBVIOUS
    <3>2. WordBits \in 0..LongBits - 1
      BY <1>1
    <3> QED
      BY <1>1, <3>1, <3>2
  <2>2. BitMask(LongBits, WordBits) = (Power(2, LongBits) - 1) \div p
    BY <1>1, <1>3, <2>1 DEF BitMask, ShiftRight
  <2>3. Power(2, LongBits) = p * p
    <3>1. LongBits = WordBits + WordBits /\ WordBits \in Nat
      BY <1>1
    <3> QED
      BY <1>3, <3>1, PowerSum
  <2>4. (p * p - 1) \div p = p - 1
    BY <1>3, BelowProduct
  <2> QED
    BY <2>2, <2>3, <2>4
<1>5. Converted("wrap_i64", x) = x % p
  <2>1. BitAnd(x, p - 1) = x % p
    <3>1. WordBits \in 0..LongBits
      BY <1>1
    <3> QED
      BY <1>2, <1>3, <3>1, Mask
  <2> QED
    BY <1>4, <2>1 DEF Converted
<1>6. PICK q \in Int, r \in 0..p - 1 : r = x % p /\ x = p * q + r
  BY <1>2, Euclid
<1>7. (x - r) % p = 0
  <2>1. x - r = p * q + 0 /\ x - r \in Int /\ 0 \in 0..p - 1
    BY <1>2, <1>6
  <2> QED
    BY <1>6, <2>1, OneQuotient
<1> QED
  BY <1>3, <1>5, <1>6, <1>7

\* i64.extend_i32_s keeps the number, though it tests a bit and sets others.
LEMMA ExtendRight ==
  ASSUME NEW x, Pattern(x, WordBits)
  PROVE  AsSigned(Converted("extend_s", x), LongBits) = AsSigned(x, WordBits)
<1>1. /\ WordBits \in Nat \ {0} /\ LongBits \in Nat \ {0} /\ WordBits < LongBits
      /\ WordBits - 1 \in Nat /\ WordBits \in 0..LongBits /\ WordBits - 1 \in 0..LongBits - 1
      /\ WordBits - 1 < LongBits - 1 /\ LongBits - 1 \in Nat /\ WordBits <= LongBits - 1 /\ LongBits \in Nat
  BY WidthsNat
<1>2. x \in 0..Power(2, WordBits) - 1 /\ x \in Int /\ x \in Nat
  BY WidthFacts DEF IsWidth, Pattern
<1>3. PICK h \in Nat \ {0} : h = Power(2, WordBits - 1) /\ Power(2, WordBits) = 2 * h
  BY <1>1, <1>2, SignedRange
<1>4. PICK m \in Nat \ {0} : m = Power(2, LongBits - 1) /\ Power(2, LongBits) = 2 * m /\ 2 * h <= m
  <2>1. Power(2, LongBits - 1) \in Nat \ {0} /\ Power(2, (LongBits - 1) + 1) = 2 * Power(2, LongBits - 1)
    BY <1>1, TwoPower
  <2>2. Power(2, WordBits) <= Power(2, LongBits - 1)
    BY <1>1, PowerUpTo
  <2>3. (LongBits - 1) + 1 = LongBits
    BY <1>1
  <2> QED
    BY <1>3, <2>1, <2>2, <2>3
<1>5. Bits(h) = {WordBits - 1}
  <2> DEFINE S == {WordBits - 1}
  <2>1. Bitsum(S, WordBits - 1) = 0
    BY <1>1, BitsumNone
  <2>2. Bitsum(S, (WordBits - 1) + 1) = Bitsum(S, WordBits - 1) + h
    <3>1. WordBits - 1 \in S
      OBVIOUS
    <3> HIDE DEF S
    <3> QED
      BY <1>1, <1>3, <3>1, BitsumStep
  <2>3. Bitsum(S, WordBits) = h
    BY <1>1, <2>1, <2>2
  <2>4. Bitsum(S, LongBits) = Bitsum(S, WordBits)
    <3>1. \A i \in WordBits..LongBits - 1 : i \notin S
      BY <1>1
    <3> HIDE DEF S
    <3> QED
      BY <1>1, <3>1, ZerosAbove
  <2>5. S \subseteq 0..LongBits - 1
    BY <1>1
  <2> HIDE DEF S
  <2>6. Bits(Bitsum(S, LongBits)) = S
    BY <2>5, BitsOfSum
  <2> QED
    BY <2>3, <2>4, <2>6 DEF S
<1>6. Digit(x, 2, WordBits - 1) = IF x >= h THEN 1 ELSE 0
  BY <1>1, <1>2, <1>3, HighBit
<1>7. WordBits - 1 \in Bits(x) <=> x >= h
  BY <1>1, <1>6 DEF Bits
<1>8. CASE x >= h
  <2>1. BitAnd(x, h) # 0
    <3>1. Bits(x) \cap Bits(h) = {WordBits - 1}
      BY <1>5, <1>7, <1>8
    <3>2. Bitsum({WordBits - 1}, LongBits) # 0
      <4>1. Digit(Bitsum({WordBits - 1}, LongBits), 2, WordBits - 1) = 1
        BY <1>1, BitOfSum
      <4>2. Digit(0, 2, WordBits - 1) = 0
        <5>1. \A d \in Nat \ {0} : 0 \div d = 0
          OBVIOUS
        <5>2. 0 \div Power(2, WordBits - 1) = 0
          BY <1>3, <5>1
        <5> QED
          BY <5>2 DEF Digit
      <4> QED
        BY <4>1, <4>2
    <3> QED
      BY <3>1, <3>2 DEF BitAnd
  <2>2. BitOr(x, Power(2, LongBits) - Power(2, WordBits)) = x + (2 * m - 2 * h)
    <3> DEFINE S == Bits(x) \cup (WordBits..LongBits - 1)
    <3>1. Bits(Power(2, LongBits) - Power(2, WordBits)) = WordBits..LongBits - 1
      BY <1>1, UpperOnes
    <3>2. Bitsum(S, WordBits) = Bitsum(Bits(x), WordBits)
      BY <1>1, BitsumSame
    <3>3. Bitsum(Bits(x), WordBits) = x % Power(2, WordBits)
      BY <1>1, <1>2, SumOfBits DEF Bits
    <3>4. x % Power(2, WordBits) = x
      BY <1>2, WidthFacts DEF IsWidth, Pattern
    <3>5. Bitsum(S, LongBits) = Bitsum(S, WordBits) + (Power(2, LongBits) - Power(2, WordBits))
      <4>1. \A i \in WordBits..LongBits - 1 : i \in S
        OBVIOUS
      <4> HIDE DEF S
      <4> QED
        BY <1>1, <4>1, OnesAbove
    <3> QED
      BY <1>3, <1>4, <3>1, <3>2, <3>3, <3>4, <3>5 DEF BitOr
  <2>3. Converted("extend_s", x) = x + (2 * m - 2 * h)
    BY <1>3, <2>1, <2>2 DEF Converted
  <2>4. x + (2 * m - 2 * h) >= m /\ (x + (2 * m - 2 * h)) - 2 * m = x - 2 * h
    BY <1>2, <1>3, <1>4, <1>8
  <2> QED
    BY <1>3, <1>4, <1>8, <2>3, <2>4 DEF AsSigned
<1>9. CASE ~(x >= h)
  <2>1. BitAnd(x, h) = 0
    <3>1. Bits(x) \cap Bits(h) = {}
      BY <1>5, <1>7, <1>9
    <3>2. Bitsum({}, LongBits) = 0
      BY <1>1, BitsumNone
    <3> QED
      BY <3>1, <3>2 DEF BitAnd
  <2>2. Converted("extend_s", x) = x
    BY <1>3, <2>1 DEF Converted
  <2>3. ~(x >= m)
    BY <1>2, <1>3, <1>4, <1>9
  <2> QED
    BY <1>3, <1>4, <1>9, <2>2, <2>3 DEF AsSigned
<1> QED
  BY <1>8, <1>9

\* 0 and 1 are patterns, and so is everything up to a pattern; a width is one too.
LEMMA SmallPatterns ==
  ASSUME NEW w, IsWidth(w)
  PROVE  /\ Pattern(0, w) /\ Pattern(1, w) /\ Pattern(w, w)
         /\ \A x : Pattern(x, w) => \A n \in Nat : n <= x => Pattern(n, w)
<1>1. w \in Nat \ {0} /\ Power(2, w) \in Nat \ {0} /\ w < Power(2, w)
  BY WidthFacts, TwoPower
<1> QED
  BY <1>1 DEF Pattern

\* Patterns of the lesser width are among the registers' values, and a number made
\* of their ones is one of them.
LEMMA CombinedPatterns ==
  ASSUME NEW w, IsWidth(w), NEW x, NEW y, Pattern(x, w), Pattern(y, w)
  PROVE  Pattern(BitAnd(x, y), w) /\ Pattern(BitOr(x, y), w) /\ Pattern(BitXor(x, y), w)
<1>1. w \in Nat /\ w <= LongBits /\ LongBits \in Nat
  BY WidthFacts, WidthsNat
<1>2. Bits(x) \subseteq 0..w - 1 /\ Bits(y) \subseteq 0..w - 1
  BY OnesOfPattern
<1>3. ASSUME NEW S, S \subseteq 0..w - 1 PROVE Pattern(Bitsum(S, LongBits), w)
  <2>1. \A i \in w..LongBits - 1 : i \notin S
    BY <1>1, <1>3
  <2>2. Bitsum(S, LongBits) = Bitsum(S, w)
    BY <1>1, <2>1, ZerosAbove
  <2>3. Bitsum(S, w) \in Nat /\ Bitsum(S, w) < Power(2, w)
    BY <1>1, BitsumType
  <2>4. \A n, d \in Nat : n < d => n \in 0..d - 1
    OBVIOUS
  <2> QED
    BY <1>1, <2>2, <2>3, <2>4, TwoPower DEF Pattern
<1>4. /\ Bits(x) \cap Bits(y) \subseteq 0..w - 1
      /\ Bits(x) \cup Bits(y) \subseteq 0..w - 1
      /\ (Bits(x) \ Bits(y)) \cup (Bits(y) \ Bits(x)) \subseteq 0..w - 1
  BY <1>2
<1> QED
  BY <1>3, <1>4 DEF BitAnd, BitOr, BitXor

\* What the handlers of a kind compute is a pattern, and the right one: sums,
\* differences and products,
LEMMA ArithmeticRight ==
  ASSUME NEW w, IsWidth(w), NEW x, NEW y, Pattern(x, w), Pattern(y, w), NEW name \in Arithmetic
  PROVE  /\ Pattern(Calculated(name, x, y, w), w)
         /\ RightArithmetic(name, Calculated(name, x, y, w), x, y, w)
<1>1. x + y \in Int /\ x - y \in Int
  BY WidthFacts
<1>2. CASE name = "add"
  <2>1. Calculated(name, x, y, w) = AsUnsigned(x + y, w)
    BY <1>2 DEF Calculated
  <2> QED
    BY <1>1, <1>2, <2>1, Reduced, AddRight DEF RightArithmetic
<1>3. CASE name = "sub"
  <2>1. Calculated(name, x, y, w) = AsUnsigned(x - y, w)
    BY <1>3 DEF Calculated
  <2> QED
    BY <1>1, <1>3, <2>1, Reduced, AddRight DEF RightArithmetic
<1>4. CASE name = "mul"
  BY <1>4, MulRight DEF RightArithmetic
<1> QED
  BY <1>2, <1>3, <1>4 DEF Arithmetic

\* bitwise operations,
LEMMA BitwiseRight ==
  ASSUME NEW w, IsWidth(w), NEW x, NEW y, Pattern(x, w), Pattern(y, w), NEW name \in Bitwisely
  PROVE  /\ Pattern(Combined(name, x, y), w)
         /\ RightBitwise(name, Combined(name, x, y), x, y, w)
<1>1. ASSUME NEW i \in 0..w - 1
      PROVE  i \in 0..LongBits - 1 /\ Digit(x, 2, i) \in {0, 1} /\ Digit(y, 2, i) \in {0, 1}
  <2>1. w \in Nat /\ w <= LongBits /\ LongBits \in Nat /\ i \in Nat
    BY WidthFacts, WidthsNat
  <2> QED
    BY <2>1, WidthFacts, BitIsBit
<1>2. CASE name = "and"
  <2>1. Combined(name, x, y) = BitAnd(x, y)
    BY <1>2 DEF Combined
  <2>2. \A i \in 0..w - 1 : Digit(BitAnd(x, y), 2, i) = Digit(x, 2, i) * Digit(y, 2, i)
    BY <1>1, AndBit
  <2> QED
    BY <1>2, <2>1, <2>2, CombinedPatterns DEF RightBitwise, HasBits, Bit
<1>3. CASE name = "or"
  <2>1. Combined(name, x, y) = BitOr(x, y)
    BY <1>3 DEF Combined
  <2>2. \A i \in 0..w - 1 : Digit(BitOr(x, y), 2, i) = IF Digit(x, 2, i) + Digit(y, 2, i) > 0 THEN 1 ELSE 0
    BY <1>1, AndBit
  <2> QED
    BY <1>3, <2>1, <2>2, CombinedPatterns DEF RightBitwise, HasBits, Bit
<1>4. CASE name = "xor"
  <2>1. Combined(name, x, y) = BitXor(x, y)
    BY <1>4 DEF Combined
  <2>2. \A i \in 0..w - 1 : Digit(BitXor(x, y), 2, i) = (Digit(x, 2, i) + Digit(y, 2, i)) % 2
    BY <1>1, AndBit
  <2> QED
    BY <1>4, <2>1, <2>2, CombinedPatterns DEF RightBitwise, HasBits, Bit
<1> QED
  BY <1>2, <1>3, <1>4 DEF Bitwisely

\* comparisons,
LEMMA RelationRight ==
  ASSUME NEW w, IsWidth(w), NEW x, NEW y, Pattern(x, w), Pattern(y, w), NEW name \in Relations
  PROVE  Compared(name, x, y, w) = Bool(Holds(name, x, y, w))
<1>1. PICK sx \in Int, sy \in Int : sx = AsSigned(x, w) /\ sy = AsSigned(y, w)
  BY SignedOrder
<1>2. PICK fx, fy : fx = Flipped(x, w) /\ fy = Flipped(y, w)
  OBVIOUS
<1>3. sx < sy <=> fx < fy
  BY <1>1, <1>2, SignedOrder DEF Half, Flipped
<1>4. sy < sx <=> fy < fx
  BY <1>1, <1>2, SignedOrder DEF Half, Flipped
<1>5. (sx >= sy <=> ~(sx < sy)) /\ (sx <= sy <=> ~(sy < sx)) /\ (sx > sy <=> sy < sx)
  BY <1>1
<1>6. x \in Int /\ y \in Int
  BY WidthFacts
<1>7. /\ x - y = 0 <=> x = y
      /\ x >= y <=> ~(x < y)
      /\ x <= y <=> ~(y < x)
      /\ x > y <=> y < x
  BY <1>6
<1>8. CASE name = "eq"
  BY <1>7, <1>8 DEF Compared, Holds
<1>9. CASE name = "ne"
  BY <1>7, <1>9 DEF Compared, Holds
<1>10. CASE name = "lt_s"
  BY <1>1, <1>2, <1>3, <1>10 DEF Compared, Holds
<1>11. CASE name = "ge_s"
  BY <1>1, <1>2, <1>3, <1>5, <1>11 DEF Compared, Holds
<1>12. CASE name = "gt_s"
  BY <1>1, <1>2, <1>4, <1>5, <1>12 DEF Compared, Holds
<1>13. CASE name = "le_s"
  BY <1>1, <1>2, <1>4, <1>5, <1>13 DEF Compared, Holds
<1>14. CASE name = "lt_u"
  BY <1>14 DEF Compared, Holds
<1>15. CASE name = "ge_u"
  BY <1>7, <1>15 DEF Compared, Holds
<1>16. CASE name = "gt_u"
  BY <1>7, <1>16 DEF Compared, Holds
<1>17. CASE name = "le_u"
  BY <1>7, <1>17 DEF Compared, Holds
<1> QED
  BY <1>8, <1>9, <1>10, <1>11, <1>12, <1>13, <1>14, <1>15, <1>16, <1>17 DEF Relations

\* What is shifted is a pattern, whatever the count.
LEMMA ShiftedPatterns ==
  ASSUME NEW w, IsWidth(w), NEW x, Pattern(x, w), NEW n \in Int
  PROVE  Pattern(ShiftLeft(x, n, w), w) /\ Pattern(ShiftRight(x, n, w), w)
<1>1. w \in Nat \ {0} /\ x \in Int /\ x \in Nat
  BY WidthFacts
<1>2. PICK k \in 0..w - 1 : k = n % w
  BY <1>1, Euclid
<1>3. PICK p \in Nat \ {0} : p = Power(2, k)
  BY <1>2, TwoPower
<1>4. Pattern((x * p) % Power(2, w), w)
  <2>1. x * p \in Int
    BY <1>1, <1>3
  <2> QED
    BY <2>1, Reduced
<1>5. Pattern(x \div p, w)
  <2>1. PICK q \in Int, r \in 0..p - 1 : q = x \div p /\ x = p * q + r
    <3>1. x \in Int /\ p \in Nat \ {0}
      BY <1>1, <1>3
    <3>2. x = p * (x \div p) + (x % p) /\ x \div p \in Int /\ x % p \in 0..p - 1
      BY <3>1, Euclid
    <3> QED
      BY <3>2
  <2>2. q \in Nat /\ q <= x
    <3>1. \A b \in Nat \ {0}, c, d \in Int : c < 0 /\ d < b => b * c + d < 0
      OBVIOUS
    <3>2. \A b \in Nat \ {0}, c, d \in Nat : c <= b * c + d
      OBVIOUS
    <3>3. ~(q < 0)
      BY <1>1, <1>3, <2>1, <3>1
    <3> QED
      BY <1>3, <2>1, <3>2, <3>3
  <2> QED
    BY <2>1, <2>2, SmallPatterns
<1> QED
  BY <1>2, <1>3, <1>4, <1>5 DEF ShiftLeft, ShiftRight

\* shifts,
LEMMA ShiftOpsRight ==
  ASSUME NEW w, IsWidth(w), NEW x, NEW y, Pattern(x, w), Pattern(y, w), NEW name \in Shifts
  PROVE  /\ Pattern(ShiftedBy(name, x, y, w), w)
         /\ RightShift(name, ShiftedBy(name, x, y, w), x, y, w)
<1>1. w \in Nat \ {0} /\ y \in Int
  BY WidthFacts
<1>2. PICK k \in 0..w - 1 : k = y % w
  BY <1>1, Euclid
<1>3. Pattern(ShiftedBy(name, x, y, w), w)
  <2>1. name = "shl" \/ name = "shr_u" => Pattern(ShiftedBy(name, x, y, w), w)
    BY <1>1, ShiftedPatterns DEF ShiftedBy
  <2>2. CASE name = "shr_s"
    <3>1. Power(2, k) \in Nat \ {0} /\ AsSigned(x, w) \in Int
      BY <1>2, TwoPower, SignedOrder
    <3>2. AsSigned(x, w) \div Power(2, k) \in Int
      BY <3>1, Euclid
    <3> QED
      BY <1>2, <2>2, <3>2, Reduced DEF ShiftedBy
  <2> QED
    BY <2>1, <2>2 DEF Shifts
<1>4. ASSUME NEW i \in 0..w - 1
      PROVE  /\ Digit(ShiftedBy("shl", x, y, w), 2, i) = IF i < k THEN 0 ELSE Digit(x, 2, i - k)
             /\ Digit(ShiftedBy("shr_u", x, y, w), 2, i) = IF i + k < w THEN Digit(x, 2, i + k) ELSE 0
             /\ Digit(ShiftedBy("shr_s", x, y, w), 2, i) = Digit(x, 2, IF i + k < w THEN i + k ELSE w - 1)
  BY <1>2, ShiftsRight
<1>5. CASE name = "shl"
  BY <1>2, <1>3, <1>4, <1>5 DEF RightShift, HasBits, Bit
<1>6. CASE name = "shr_u"
  BY <1>2, <1>3, <1>4, <1>6 DEF RightShift, HasBits, Bit
<1>7. CASE name = "shr_s"
  BY <1>2, <1>3, <1>4, <1>7 DEF RightShift, HasBits, Bit
<1> QED
  BY <1>5, <1>6, <1>7 DEF Shifts

\* A rotation is right unless it is to the right, of the greater width and by more
\* than nothing.
LEMMA RotationRight ==
  ASSUME NEW w, IsWidth(w), NEW x, NEW y, Pattern(x, w), Pattern(y, w), NEW name \in Rotations
  PROVE  /\ Pattern(Rotated(name, x, y, w), w)
         /\ (name = "rotr" /\ w = LongBits => y % w = 0)
              => RightRotation(name, Rotated(name, x, y, w), x, y, w)
<1>1. PICK mask : mask = IF name = "rotr" /\ w = LongBits THEN WordBits - 1 ELSE w - 1
  OBVIOUS
<1>2. PICK n \in Int : n = BitAnd(y % w, mask)
  BY RegisterValues
<1>3. PICK back \in Int : back = BitAnd(AsUnsigned(-n, w), mask)
  BY RegisterValues
<1>4. Rotated(name, x, y, w) = IF name = "rotl" THEN BitOr(ShiftLeft(x, n, w), ShiftRight(x, back, w))
                               ELSE BitOr(ShiftRight(x, n, w), ShiftLeft(x, back, w))
  BY <1>1, <1>2, <1>3 DEF Rotated
<1>5. Pattern(Rotated(name, x, y, w), w)
  BY <1>4, ShiftedPatterns, CombinedPatterns
<1>6. CASE name = "rotl"
  <2>1. \A i \in 0..w - 1 : Digit(Rotated("rotl", x, y, w), 2, (i + (y % w)) % w) = Digit(x, 2, i)
    BY RotlRight
  <2> QED
    BY <1>5, <1>6, <2>1 DEF RightRotation, Bit
<1>7. CASE name = "rotr"
  <2>1. (w = LongBits => y % w = 0) =>
          \A i \in 0..w - 1 : Digit(Rotated("rotr", x, y, w), 2, i) = Digit(x, 2, (i + (y % w)) % w)
    BY RotrRight
  <2> QED
    BY <1>5, <1>7, <2>1 DEF RightRotation, HasBits, Bit
<1> QED
  BY <1>6, <1>7 DEF Rotations

\* and bit counts.
LEMMA CountRight ==
  ASSUME NEW w, IsWidth(w), NEW x, Pattern(x, w), NEW name \in BitCounts
  PROVE  /\ Pattern(Counted(name, x, w), w)
         /\ RightCount(name, Counted(name, x, w), x, w)
<1>1. w \in Nat \ {0}
  BY WidthFacts
<1>2. PICK B : B = Bits(x) /\ B = {i \in 0..w - 1 : Digit(x, 2, i) = 1} /\ (B = {} <=> x = 0)
  BY OnesOfPattern
<1>3. Counted(name, x, w) \in Nat /\ Counted(name, x, w) <= w
  <2>1. CASE name = "popcnt"
    <3>1. IsFiniteSet(0..w - 1) /\ Cardinality(0..w - 1) = w
      BY <1>1, FS_Interval
    <3>2. B \subseteq 0..w - 1
      BY <1>2
    <3>3. IsFiniteSet(B) /\ Cardinality(B) \in Nat /\ Cardinality(B) <= w
      BY <3>1, <3>2, FS_Subset, FS_CardinalityType
    <3> QED
      BY <1>2, <2>1, <3>3 DEF Counted
  <2>2. CASE name # "popcnt" /\ x = 0
    BY <1>1, <2>2 DEF Counted
  <2>3. CASE name # "popcnt" /\ x # 0
    <3>1. PICK g \in B : \A j \in B : j <= g
      BY <1>1, <1>2, <2>3, WidthFacts, GreatestNatural
    <3>2. PICK l \in B : \A j \in B : l <= j
      BY <1>1, <1>2, <2>3, LeastNatural
    <3>3. (CHOOSE i \in B : \A j \in B : j <= i) \in B
      BY <3>1
    <3>4. (CHOOSE i \in B : \A j \in B : i <= j) \in B
      BY <3>2
    <3>5. \A i \in B : i \in Nat /\ i <= w /\ w - 1 - i \in Nat /\ w - 1 - i <= w
      BY <1>1, <1>2
    <3>6. name = "clz" => Counted(name, x, w) = w - 1 - (CHOOSE i \in B : \A j \in B : j <= i)
      BY <1>2, <2>3 DEF Counted
    <3>7. name = "ctz" => Counted(name, x, w) = (CHOOSE i \in B : \A j \in B : i <= j)
      BY <1>2, <2>3 DEF Counted
    <3> QED
      BY <2>3, <3>3, <3>4, <3>5, <3>6, <3>7 DEF BitCounts
  <2> QED
    BY <2>1, <2>2, <2>3
<1>4. Pattern(Counted(name, x, w), w)
  BY <1>3, SmallPatterns
<1>5. \A n \in Int : w - n - 1 = (w - n) - 1
  BY <1>1
<1>6. RightCount(name, Counted(name, x, w), x, w)
  <2>1. CASE name = "clz"
    BY <1>3, <1>5, <2>1, CountsRight DEF RightCount, Bit
  <2>2. CASE name = "ctz"
    BY <2>2, CountsRight DEF RightCount, Bit
  <2>3. CASE name = "popcnt"
    BY <2>3, CountsRight DEF RightCount, Bit
  <2> QED
    BY <2>1, <2>2, <2>3 DEF BitCounts
<1> QED
  BY <1>4, <1>6

\* The conversions of integers, of a pattern of the width of their operand.
LEMMA ConversionRight ==
  ASSUME NEW x, NEW name \in {"wrap_i64", "extend_s", "extend_u"},
         Pattern(x, IF name = "wrap_i64" THEN LongBits ELSE WordBits)
  PROVE  /\ Pattern(Converted(name, x), IF name = "wrap_i64" THEN WordBits ELSE LongBits)
         /\ RightConversion(name, Converted(name, x), x)
<1>1. CASE name = "wrap_i64"
  BY <1>1, WrapRight DEF RightConversion, Pattern
<1>2. ASSUME Pattern(x, WordBits) PROVE Pattern(x, LongBits)
  <2>1. WordBits \in Nat /\ LongBits \in Nat /\ WordBits <= LongBits
    BY WidthsNat
  <2>2. Power(2, WordBits) \in Nat /\ Power(2, LongBits) \in Nat /\ Power(2, WordBits) <= Power(2, LongBits)
    BY <2>1, PowerUpTo, TwoPower
  <2> QED
    BY <1>2, <2>2 DEF Pattern
<1>3. CASE name = "extend_s"
  <2>1. Pattern(Converted(name, x), LongBits)
    BY <1>2, <1>3, RegisterValues DEF Converted, Pattern
  <2>2. AsSigned(Converted(name, x), LongBits) = AsSigned(x, WordBits)
    BY <1>3, ExtendRight
  <2> QED
    BY <1>3, <2>1, <2>2 DEF RightConversion
<1>4. CASE name = "extend_u"
  BY <1>2, <1>4 DEF RightConversion, Converted
<1> QED
  BY <1>1, <1>3, <1>4

\* The division of C is a division towards zero; a quotient is the dividend with its
\* sign changed only if the divisor is -1.
LEMMA TowardsZero ==
  ASSUME NEW x \in Int, NEW y \in Int \ {0}
  PROVE  /\ Quotient(x, y) \in Int /\ Remainder(x, y) \in Int
         /\ IsDivision(Quotient(x, y), Remainder(x, y), x, y)
         /\ Abs(Quotient(x, y)) <= Abs(x)
         /\ Quotient(x, y) = -x /\ x # 0 => y = -1
<1>1. PICK a \in Nat, b \in Nat \ {0} : a = Abs(x) /\ b = Abs(y)
  BY DEF Abs
<1>2. PICK c \in Int, r \in 0..b - 1 : c = a \div b /\ a = b * c + r
  <2>1. a \in Int /\ b \in Nat \ {0}
    BY <1>1
  <2>2. a = b * (a \div b) + (a % b) /\ a \div b \in Int /\ a % b \in 0..b - 1
    BY <2>1, Euclid
  <2> QED
    BY <2>2
<1>3. c \in Nat /\ c <= a /\ (c = a /\ a # 0 => b = 1)
  <2>1. \A m \in Nat \ {0}, n, d \in Int : n < 0 /\ d < m => m * n + d < 0
    OBVIOUS
  <2>2. \A m \in Nat \ {0}, n, d \in Nat : n <= m * n + d
    OBVIOUS
  <2>3. ~(c < 0)
    BY <1>1, <1>2, <2>1
  <2>4. \A m \in Nat \ {0}, n \in Nat \ {0}, d \in Nat : n = m * n + d => m = 1
    OBVIOUS
  <2>5. c \in Nat /\ r \in Nat /\ b \in Nat \ {0}
    BY <1>1, <1>2, <2>3
  <2>6. c <= b * c + r
    BY <2>2, <2>5
  <2>7. c \in Nat \ {0} /\ c = b * c + r => b = 1
    BY <2>4, <2>5
  <2> QED
    BY <1>1, <1>2, <2>5, <2>6, <2>7
<1>4. PICK q \in Int : q = Quotient(x, y) /\ q = IF (x < 0) = (y < 0) THEN c ELSE -c
  BY <1>1, <1>2 DEF Quotient
<1>5. PICK p \in Int : p = b * c /\ a = p + r
  BY <1>1, <1>2
<1>6. PICK m \in Int : m = Remainder(x, y) /\ m = x - y * q
  <2>1. x - y * q \in Int
    BY <1>4
  <2> QED
    BY <1>4, <2>1 DEF Remainder
<1>7. y * q = IF x < 0 THEN -p ELSE p
  <2>1. (-b) * c = -p /\ b * (-c) = -p /\ (-b) * (-c) = p
    <3>1. \A u, v \in Int : /\ (-u) * v = -(u * v)
                            /\ u * (-v) = -(u * v)
                            /\ (-u) * (-v) = u * v
      OBVIOUS
    <3> QED
      BY <1>1, <1>2, <1>5, <3>1
  <2>2. y = IF y < 0 THEN -b ELSE b
    BY <1>1 DEF Abs
  <2>3. CASE y < 0
    <3>1. y = -b
      BY <2>2, <2>3
    <3>2. CASE x < 0
      <4>1. q = c
        BY <1>4, <2>3, <3>2
      <4> QED
        BY <2>1, <3>1, <3>2, <4>1
    <3>3. CASE ~(x < 0)
      <4>1. q = -c
        BY <1>4, <2>3, <3>3
      <4> QED
        BY <2>1, <3>1, <3>3, <4>1
    <3> QED
      BY <3>2, <3>3
  <2>4. CASE ~(y < 0)
    <3>1. y = b
      BY <2>2, <2>4
    <3>2. CASE x < 0
      <4>1. q = -c
        BY <1>4, <2>4, <3>2
      <4> QED
        BY <2>1, <3>1, <3>2, <4>1
    <3>3. CASE ~(x < 0)
      <4>1. q = c
        BY <1>4, <2>4, <3>3
      <4> QED
        BY <1>5, <3>1, <3>3, <4>1
    <3> QED
      BY <3>2, <3>3
  <2> QED
    BY <2>3, <2>4
<1>8. m = IF x < 0 THEN -r ELSE r
  <2>1. x = IF x < 0 THEN -a ELSE a
    BY <1>1 DEF Abs
  <2> QED
    BY <1>1, <1>2, <1>5, <1>6, <1>7, <2>1
<1>9. IsDivision(q, m, x, y)
  <2>1. x = q * y + m
    <3>1. q * y = y * q /\ y * q \in Int
      BY <1>4
    <3> QED
      BY <1>6, <3>1
  <2>2. Abs(m) = r
    BY <1>2, <1>8 DEF Abs
  <2>3. Abs(m) < Abs(y)
    BY <1>1, <1>2, <2>2
  <2>4. m = 0 \/ (m < 0) = (x < 0)
    BY <1>2, <1>8
  <2> QED
    BY <2>1, <2>3, <2>4 DEF IsDivision
<1>10. Abs(q) <= Abs(x)
  <2>1. Abs(q) = c
    BY <1>3, <1>4 DEF Abs
  <2> QED
    BY <1>1, <1>3, <2>1
<1>11. q = -x /\ x # 0 => y = -1
  <2> SUFFICES ASSUME q = -x, x # 0 PROVE y = -1
    OBVIOUS
  <2>1. c = a /\ a # 0
    BY <1>1, <1>3, <1>4 DEF Abs
  <2>2. b = 1
    BY <1>3, <2>1
  <2>3. y < 0
    <3> SUFFICES ASSUME ~(y < 0) PROVE FALSE
      OBVIOUS
    <3>1. CASE x < 0
      BY <1>3, <1>4, <3>1
    <3>2. CASE ~(x < 0)
      BY <1>3, <1>4, <3>2
    <3> QED
      BY <3>1, <3>2
  <2> QED
    BY <1>1, <2>2, <2>3 DEF Abs
<1> QED
  BY <1>4, <1>6, <1>9, <1>10, <1>11

\* The signed numbers of a width, and the least of them.
LEMMA SignedNumbers ==
  ASSUME NEW w, IsWidth(w), NEW x, Pattern(x, w)
  PROVE  \E h \in Nat \ {0} :
           /\ h = Power(2, w - 1) /\ Power(2, w) = 2 * h
           /\ AsSigned(x, w) \in -h..h - 1 /\ (AsSigned(x, w) = 0 <=> x = 0)
<1>1. w \in Nat \ {0} /\ x \in 0..Power(2, w) - 1
  BY WidthFacts DEF Pattern
<1>2. PICK h \in Nat \ {0} : h = Power(2, w - 1) /\ Power(2, w) = 2 * h
  BY <1>1, SignedRange
<1>3. AsSigned(x, w) \in -h..h - 1 /\ AsSigned(x, w) = IF x >= h THEN x - 2 * h ELSE x
  BY <1>1, <1>2, SignedRange
<1>4. x \in 0..2 * h - 1
  BY <1>1, <1>2
<1>5. AsSigned(x, w) = 0 <=> x = 0
  BY <1>3, <1>4
<1> QED
  BY <1>2, <1>3, <1>5

\* A division that is not refused.
LEMMA DivisionRight ==
  ASSUME NEW w, IsWidth(w), NEW x, NEW y, Pattern(x, w), Pattern(y, w), NEW name \in Divisions,
         ~Refused(name, x, y, w)
  PROVE  /\ Pattern(Divided(name, x, y, w), w)
         /\ RightDivision(name, Divided(name, x, y, w), x, y, w)
<1>1. PICK h \in Nat \ {0} : h = Power(2, w - 1) /\ Power(2, w) = 2 * h
  BY SignedNumbers
<1>2. w \in Nat \ {0} /\ x \in 0..2 * h - 1 /\ y \in 0..2 * h - 1
  BY <1>1, WidthFacts DEF Pattern
<1>3. y # 0
  BY DEF Refused
<1>4. CASE name \in {"div_u", "rem_u"}
  <2>1. x \in Int /\ y \in Int \ {0}
    BY <1>2, <1>3
  <2>2. PICK q \in Int, m \in Int : /\ q = Quotient(x, y) /\ m = Remainder(x, y) /\ IsDivision(q, m, x, y)
                                    /\ Abs(q) <= Abs(x)
    BY <2>1, TowardsZero
  <2>3. q \in 0..2 * h - 1
    <3>1. q >= 0
      <4>1. Abs(x) \div Abs(y) >= 0
        <5>1. \A a \in Nat, b \in Nat \ {0} : a \div b >= 0
          OBVIOUS
        <5>2. Abs(x) = x /\ Abs(y) = y
          BY <1>2 DEF Abs
        <5> QED
          BY <1>2, <2>1, <5>1, <5>2
      <4>2. q = Abs(x) \div Abs(y)
        BY <1>2, <2>2 DEF Quotient
      <4> QED
        BY <4>1, <4>2
    <3>2. q <= x
      BY <1>2, <2>2, <3>1 DEF Abs
    <3> QED
      BY <1>2, <2>2, <3>1, <3>2
  <2>4. m \in 0..2 * h - 1
    BY <1>2, <2>1, <2>2 DEF IsDivision, Abs
  <2>5. \A n \in 0..2 * h - 1 : AsUnsigned(n, w) = n
    <3>1. \A d \in Nat \ {0} : \A n \in 0..d - 1 : n % d = n
      OBVIOUS
    <3> QED
      BY <1>1, <3>1 DEF AsUnsigned
  <2>6. q \in -(2 * h)..2 * h /\ m \in -(2 * h)..2 * h
    BY <1>1, <2>3, <2>4
  <2>7. CASE name = "div_u"
    <3>1. Divided(name, x, y, w) = q
      BY <2>2, <2>3, <2>5, <2>7 DEF Divided
    <3> QED
      BY <1>1, <2>2, <2>3, <2>6, <2>7, <3>1 DEF RightDivision, Pattern
  <2>8. CASE name = "rem_u"
    <3>1. Divided(name, x, y, w) = m
      BY <2>2, <2>4, <2>5, <2>8 DEF Divided
    <3> QED
      BY <1>1, <2>2, <2>4, <2>6, <2>8, <3>1 DEF RightDivision, Pattern
  <2> QED
    BY <1>4, <2>7, <2>8
<1>5. CASE name \in {"div_s", "rem_s"}
  <2>1. PICK sx \in -h..h - 1 : sx = AsSigned(x, w)
    BY <1>1, SignedNumbers
  <2>2. PICK sy \in -h..h - 1 : sy = AsSigned(y, w) /\ sy # 0
    BY <1>1, <1>3, SignedNumbers
  <2>3. ~(sx = -h /\ sy = -1)
    BY <1>1, <1>5, <2>1, <2>2 DEF Refused
  <2>4. PICK q \in Int, m \in Int : /\ q = Quotient(sx, sy) /\ m = Remainder(sx, sy) /\ IsDivision(q, m, sx, sy)
                                    /\ Abs(q) <= Abs(sx) /\ (q = -sx /\ sx # 0 => sy = -1)
    <3>1. sx \in Int /\ sy \in Int \ {0}
      BY <2>2
    <3> QED
      BY <3>1, TowardsZero
  <2>5. q \in -h..h - 1
    <3>1. q \in -h..h
      BY <1>1, <2>1, <2>4 DEF Abs
    <3>2. q # h
      <4> SUFFICES ASSUME q = h PROVE FALSE
        OBVIOUS
      <4>1. sx = -h
        BY <1>1, <2>1, <2>4 DEF Abs
      <4> QED
        BY <1>1, <2>3, <2>4, <4>1
    <3> QED
      BY <1>1, <3>1, <3>2
  <2>6. m \in -h..h - 1
    BY <1>1, <2>2, <2>4 DEF IsDivision, Abs
  <2>7. \A n \in -h..h - 1 : Pattern(AsUnsigned(n, w), w) /\ AsSigned(AsUnsigned(n, w), w) = n
    BY <1>1, <1>2, SignedBack DEF Pattern
  <2>8. q \in -(2 * h)..2 * h /\ m \in -(2 * h)..2 * h
    BY <1>1, <2>5, <2>6
  <2>9. CASE name = "div_s"
    <3>1. Divided(name, x, y, w) = AsUnsigned(q, w)
      BY <2>1, <2>2, <2>4, <2>9 DEF Divided
    <3> QED
      BY <1>1, <2>1, <2>2, <2>4, <2>5, <2>7, <2>8, <2>9, <3>1 DEF RightDivision
  <2>10. CASE name = "rem_s"
    <3>1. Divided(name, x, y, w) = AsUnsigned(m, w)
      BY <2>1, <2>2, <2>4, <2>10 DEF Divided
    <3> QED
      BY <1>1, <2>1, <2>2, <2>4, <2>6, <2>7, <2>8, <2>10, <3>1 DEF RightDivision
  <2> QED
    BY <1>5, <2>9, <2>10
<1> QED
  BY <1>4, <1>5 DEF Divisions

\* The processor refuses only what has no result, but for the one remainder.
LEMMA RefusedWithoutResult ==
  ASSUME NEW o, NEW w, w = Width(o.type), IsWidth(w), NEW x, NEW y, Pattern(x, w), Pattern(y, w),
         o.name \in Divisions, Refused(o.name, x, y, w), ~Deviates(o, x, y), NEW r, Pattern(r, w)
  PROVE  ~RightDivision(o.name, r, x, y, w)
<1>1. PICK h \in Nat \ {0} : h = Power(2, w - 1) /\ Power(2, w) = 2 * h
  BY SignedNumbers
<1>2. PICK sr \in -h..h - 1 : sr = AsSigned(r, w)
  BY <1>1, SignedNumbers
<1>3. r \in Int
  BY WidthFacts DEF Pattern
<1>4. CASE y = 0
  <2>1. AsSigned(y, w) = 0
    BY <1>4, SignedNumbers
  <2>2. ASSUME NEW q, NEW m \in Int, NEW a PROVE ~IsDivision(q, m, a, 0)
    BY DEF IsDivision, Abs
  <2>3. \A m \in -(Power(2, w))..Power(2, w) : m \in Int
    BY <1>1
  <2>4. CASE o.name = "div_u"
    BY <1>4, <2>2, <2>3, <2>4 DEF RightDivision
  <2>5. CASE o.name = "rem_u"
    BY <1>3, <1>4, <2>2, <2>5 DEF RightDivision
  <2>6. CASE o.name = "div_s"
    BY <2>1, <2>2, <2>3, <2>6 DEF RightDivision
  <2>7. CASE o.name = "rem_s"
    <3>1. sr \in Int
      BY <1>1, <1>2
    <3>2. \A q : ~IsDivision(q, sr, AsSigned(x, w), 0)
      BY <2>2, <3>1
    <3> QED
      BY <1>2, <2>1, <2>7, <3>2 DEF RightDivision
  <2> QED
    BY <2>4, <2>5, <2>6, <2>7 DEF Divisions
<1>5. CASE y # 0
  <2>1. o.name \in {"div_s", "rem_s"} /\ AsSigned(x, w) = -h /\ AsSigned(y, w) = -1
    BY <1>1, <1>5 DEF Refused
  <2>2. o.name = "div_s"
    BY <1>1, <2>1 DEF Deviates
  <2>3. ASSUME NEW m \in -(2 * h)..2 * h, IsDivision(sr, m, -h, -1) PROVE FALSE
    <3>1. -h = sr * (-1) + m /\ Abs(m) < Abs(-1)
      BY <2>3 DEF IsDivision
    <3>2. m = 0
      BY <3>1 DEF Abs
    <3>3. sr * (-1) = -sr
      OBVIOUS
    <3> QED
      BY <3>1, <3>2, <3>3
  <2> QED
    BY <1>1, <1>2, <2>1, <2>2, <2>3 DEF RightDivision
<1> QED
  BY <1>4, <1>5

\* A float: its sign, its magnitude, and the number it is.
LEMMA FloatFacts ==
  ASSUME NEW x \in Numbers("f")
  PROVE  /\ x.neg \in BOOLEAN /\ x.mag \in Nat /\ x.mag <= NaN /\ Inf \in Nat /\ NaN = Inf + 1
         /\ Real(x) \in Int /\ Real(x) = IF x.neg THEN -x.mag ELSE x.mag
<1>1. Inf \in Nat /\ NaN = Inf + 1
  BY NumericAssumption DEF NaN
<1>2. x.neg \in BOOLEAN /\ x.mag \in 0..NaN
  BY DEF Numbers
<1>3. x.mag \in Nat /\ x.mag <= NaN
  BY <1>1, <1>2
<1>4. Real(x) = IF x.neg THEN -x.mag ELSE x.mag
  BY DEF Real
<1> QED
  BY <1>1, <1>2, <1>3, <1>4

\* The least and the greatest of two floats, but of two zeros.
LEMMA ExtremeRight ==
  ASSUME NEW x \in Numbers("f"), NEW y \in Numbers("f"), NEW name \in {"min", "max"}
  PROVE  /\ Extreme(name, x, y) \in {x, y}
         /\ ~(x.mag = 0 /\ y.mag = 0) => RightExtreme(name, Extreme(name, x, y), x, y)
<1>1. PICK r : r = Extreme(name, x, y)
  OBVIOUS
<1>2. CASE IsNaN(x)
  <2>1. r = x
    BY <1>1, <1>2 DEF Extreme
  <2> QED
    BY <1>1, <1>2, <2>1 DEF RightExtreme
<1>3. CASE ~IsNaN(x) /\ IsNaN(y)
  <2>1. r = y
    BY <1>1, <1>3 DEF Extreme
  <2> QED
    BY <1>1, <1>3, <2>1 DEF RightExtreme
<1>4. CASE ~IsNaN(x) /\ ~IsNaN(y)
  <2>1. PICK a \in Int, b \in Int : a = Real(x) /\ b = Real(y)
    BY FloatFacts
  <2>2. r = IF (IF name = "min" THEN a <= b ELSE a >= b) THEN x ELSE y
    BY <1>1, <1>4, <2>1 DEF Extreme
  <2>3. Before(x, x) /\ Before(y, y)
    BY FloatFacts DEF Before
  <2>4. /\ a < b => Before(x, y)
        /\ b < a => Before(y, x)
    BY <2>1 DEF Before
  <2>5. a = b /\ ~(x.mag = 0 /\ y.mag = 0) => Before(x, y) /\ Before(y, x)
    <3> SUFFICES ASSUME a = b, ~(x.mag = 0 /\ y.mag = 0) PROVE Before(x, y) /\ Before(y, x)
      OBVIOUS
    <3>1. PICK s \in Nat, t \in Nat : s = x.mag /\ t = y.mag
      BY FloatFacts
    <3>2. a = (IF x.neg THEN -s ELSE s) /\ b = (IF y.neg THEN -t ELSE t)
      BY <2>1, <3>1, FloatFacts
    <3>3. x.neg \/ ~y.neg
      <4> SUFFICES ASSUME ~x.neg, y.neg PROVE FALSE
        OBVIOUS
      <4>1. a = s /\ b = -t
        BY <3>2
      <4>2. -t = s
        BY <4>1
      <4>3. \A c, d \in Nat : -c = d => c = 0 /\ d = 0
        OBVIOUS
      <4>4. s = 0 /\ t = 0
        BY <4>2, <4>3
      <4> QED
        BY <3>1, <4>4
    <3>4. y.neg \/ ~x.neg
      <4> SUFFICES ASSUME ~y.neg, x.neg PROVE FALSE
        OBVIOUS
      <4>1. a = -s /\ b = t
        BY <3>2
      <4>2. -s = t
        BY <4>1
      <4>3. \A c, d \in Nat : -c = d => c = 0 /\ d = 0
        OBVIOUS
      <4>4. s = 0 /\ t = 0
        BY <4>2, <4>3
      <4> QED
        BY <3>1, <4>4
    <3> QED
      BY <2>1, <3>3, <3>4 DEF Before
  <2>6. CASE name = "min"
    <3>1. CASE a <= b
      <4>1. r = x /\ (a < b \/ a = b)
        BY <2>1, <2>2, <2>6, <3>1
      <4> QED
        BY <1>1, <1>4, <2>3, <2>4, <2>5, <2>6, <4>1 DEF RightExtreme
    <3>2. CASE ~(a <= b)
      <4>1. r = y /\ b < a
        BY <2>1, <2>2, <2>6, <3>2
      <4> QED
        BY <1>1, <1>4, <2>3, <2>4, <2>5, <2>6, <4>1 DEF RightExtreme
    <3> QED
      BY <3>1, <3>2
  <2>7. CASE name = "max"
    <3>1. CASE a >= b
      <4>1. r = x /\ (b < a \/ a = b)
        BY <2>1, <2>2, <2>7, <3>1
      <4> QED
        BY <1>1, <1>4, <2>3, <2>4, <2>5, <2>7, <4>1 DEF RightExtreme
    <3>2. CASE ~(a >= b)
      <4>1. r = y /\ a < b
        BY <2>1, <2>2, <2>7, <3>2
      <4> QED
        BY <1>1, <1>4, <2>3, <2>4, <2>5, <2>7, <4>1 DEF RightExtreme
    <3> QED
      BY <3>1, <3>2
  <2> QED
    BY <2>6, <2>7
<1> QED
  BY <1>2, <1>3, <1>4

\* Comparisons of floats, NaNs included.
LEMMA FloatRelationRight ==
  ASSUME NEW x \in Numbers("f"), NEW y \in Numbers("f"), NEW name \in FloatRelations
  PROVE  ComparedFloats(name, x, y) = Bool(Related(x, y) \in TrueFor[name])
<1>1. /\ TrueFor["eq"] = {"equal"} /\ TrueFor["ne"] = {"less", "greater", "unordered"}
      /\ TrueFor["lt"] = {"less"} /\ TrueFor["ge"] = {"greater", "equal"}
      /\ TrueFor["gt"] = {"greater"} /\ TrueFor["le"] = {"less", "equal"}
  BY DEF TrueFor
<1>2. name \in {"eq", "ne", "lt", "ge", "gt", "le"}
  BY DEF FloatRelations
<1>3. CASE IsNaN(x) \/ IsNaN(y)
  <2>1. Related(x, y) = "unordered"
    BY <1>3 DEF Related
  <2>2. "unordered" \in TrueFor[name] <=> name = "ne"
    BY <1>1, <1>2
  <2> QED
    BY <1>3, <2>1, <2>2 DEF ComparedFloats
<1>4. CASE ~(IsNaN(x) \/ IsNaN(y))
  <2>1. PICK a \in Int, b \in Int : a = Real(x) /\ b = Real(y)
    BY FloatFacts
  <2>2. PICK rel : rel = Related(x, y) /\ rel = IF a < b THEN "less" ELSE IF b < a THEN "greater" ELSE "equal"
    BY <1>4, <2>1 DEF Related
  <2>3. PICK d : d = CASE name = "eq" -> a = b [] name = "ne" -> a # b
                       [] name = "lt" -> a < b [] name = "ge" -> a >= b
                       [] name = "gt" -> a > b [] name = "le" -> a <= b
    OBVIOUS
  <2>4. ComparedFloats(name, x, y) = Bool(d)
    BY <1>4, <2>1, <2>3 DEF ComparedFloats
  <2>5. CASE name = "eq"
    <3>1. (rel \in TrueFor[name]) <=> a = b
      BY <1>1, <2>2, <2>5
    <3>2. d = (a = b)
      BY <2>3, <2>5
    <3> QED
      BY <2>2, <2>4, <3>1, <3>2 DEF Bool
  <2>6. CASE name = "ne"
    <3>1. (rel \in TrueFor[name]) <=> a # b
      BY <1>1, <2>2, <2>6
    <3>2. d = (a # b)
      BY <2>3, <2>6
    <3> QED
      BY <2>2, <2>4, <3>1, <3>2 DEF Bool
  <2>7. CASE name = "lt"
    <3>1. (rel \in TrueFor[name]) <=> a < b
      BY <1>1, <2>2, <2>7
    <3>2. d = (a < b)
      BY <2>3, <2>7
    <3> QED
      BY <2>2, <2>4, <3>1, <3>2 DEF Bool
  <2>8. CASE name = "ge"
    <3>1. (rel \in TrueFor[name]) <=> a >= b
      BY <1>1, <2>2, <2>8
    <3>2. d = (a >= b)
      BY <2>3, <2>8
    <3> QED
      BY <2>2, <2>4, <3>1, <3>2 DEF Bool
  <2>9. CASE name = "gt"
    <3>1. (rel \in TrueFor[name]) <=> a > b
      BY <1>1, <2>2, <2>9
    <3>2. d = (a > b)
      BY <2>3, <2>9
    <3> QED
      BY <2>2, <2>4, <3>1, <3>2 DEF Bool
  <2>10. CASE name = "le"
    <3>1. (rel \in TrueFor[name]) <=> a <= b
      BY <1>1, <2>2, <2>10
    <3>2. d = (a <= b)
      BY <2>3, <2>10
    <3> QED
      BY <2>2, <2>4, <3>1, <3>2 DEF Bool
  <2> QED
    BY <1>2, <2>5, <2>6, <2>7, <2>8, <2>9, <2>10
<1> QED
  BY <1>3, <1>4

\* Changes of the sign.
LEMMA SignRight ==
  ASSUME NEW x \in Numbers("f"), NEW y \in Numbers("f"), NEW name \in Signs
  PROVE  Resigned(name, x, y) \in Numbers("f") /\ RightSign(name, Resigned(name, x, y), x, y)
<1>1. x \in [neg : BOOLEAN, mag : 0..NaN] /\ (name = "copysign" => y.neg \in BOOLEAN)
  BY DEF Numbers
<1>2. PICK b \in BOOLEAN : Resigned(name, x, y) = [x EXCEPT !.neg = b]
                          /\ (b <=> (name = "neg" /\ ~x.neg) \/ (name = "copysign" /\ y.neg))
  <2>1. CASE name = "abs"
    <3>1. Resigned(name, x, y) = [x EXCEPT !.neg = FALSE]
      BY <2>1 DEF Resigned
    <3> QED
      BY <2>1, <3>1
  <2>2. CASE name = "neg"
    <3>1. Resigned(name, x, y) = [x EXCEPT !.neg = ~x.neg]
      BY <2>2 DEF Resigned
    <3> QED
      BY <2>2, <3>1
  <2>3. CASE name = "copysign"
    <3>1. Resigned(name, x, y) = [x EXCEPT !.neg = y.neg]
      BY <2>3 DEF Resigned
    <3> QED
      BY <1>1, <2>3, <3>1
  <2> QED
    BY <2>1, <2>2, <2>3 DEF Signs
<1>3. PICK r : r = [x EXCEPT !.neg = b] /\ r \in [neg : BOOLEAN, mag : 0..NaN] /\ r.neg = b /\ r.mag = x.mag
  <2>1. DOMAIN x = {"neg", "mag"} /\ x.mag \in 0..NaN /\ x = [neg |-> x.neg, mag |-> x.mag]
    BY <1>1
  <2>2. [x EXCEPT !.neg = b] = [neg |-> b, mag |-> x.mag]
    BY <2>1
  <2> QED
    BY <2>1, <2>2
<1> QED
  BY <1>2, <1>3 DEF Numbers, RightSign

\* An integer as a float.
LEMMA FloatedRight ==
  ASSUME NEW name \in Converts, NEW x, Pattern(x, Width(Source(name)))
  PROVE  Floated(name, x) \in Numbers("f") /\ RightFloat(name, Floated(name, x), x)
<1>1. PICK w : w = Width(Source(name)) /\ IsWidth(w)
  BY WidthsNat DEF IsWidth
<1>2. PICK h \in Nat \ {0} : h = Power(2, w - 1) /\ Power(2, w) = 2 * h /\ AsSigned(x, w) \in -h..h - 1
  BY <1>1, SignedNumbers
<1>3. w \in Nat \ {0} /\ x \in 0..2 * h - 1 /\ 2 * h \in Nat \ {0}
  BY <1>1, <1>2, WidthFacts DEF Pattern
<1>4. PICK least \in Int : least = IF name \in {"convert_i32_s", "convert_i64_s"} THEN -h ELSE 0
  BY <1>2
<1>5. PICK n \in Int : /\ n = IF name \in {"convert_i32_s", "convert_i64_s"} THEN AsSigned(x, w) ELSE x
                       /\ n \in least..least + 2 * h - 1 /\ (n = x \/ n = x - 2 * h)
  <2>1. AsSigned(x, w) = x \/ AsSigned(x, w) = x - 2 * h
    BY <1>2 DEF AsSigned
  <2>2. CASE name \in {"convert_i32_s", "convert_i64_s"}
    <3>1. AsSigned(x, w) \in -h..-h + 2 * h - 1 /\ AsSigned(x, w) \in Int
      BY <1>2
    <3> QED
      BY <1>4, <2>1, <2>2, <3>1
  <2>3. CASE name \notin {"convert_i32_s", "convert_i64_s"}
    <3>1. x \in 0..0 + 2 * h - 1 /\ x \in Int
      BY <1>3
    <3> QED
      BY <1>4, <2>3, <3>1
  <2> QED
    BY <2>2, <2>3
<1>6. (n - x) % (2 * h) = 0
  <2>1. CASE n = x
    <3>1. n - x = 0 /\ \A d \in Nat \ {0} : 0 % d = 0
      BY <2>1
    <3> QED
      BY <1>3, <3>1
  <2>2. CASE n = x - 2 * h
    <3>1. n - x = (2 * h) * (-1) + 0 /\ n - x \in Int /\ -1 \in Int /\ 0 \in 0..2 * h - 1
      BY <1>3, <2>2
    <3> QED
      BY <1>3, <3>1, OneQuotient
  <2> QED
    BY <1>5, <2>1, <2>2
<1>7. PICK r : r = Floated(name, x) /\ r = [neg |-> n < 0, mag |-> 2 * Abs(n)]
  BY <1>1, <1>5 DEF Floated
<1>8. 2 * Abs(n) \in 0..NaN
  <2>1. Abs(n) \in Nat /\ Abs(n) <= 2 * h
    BY <1>2, <1>3, <1>4, <1>5 DEF Abs
  <2>2. 2 * h <= Power(2, LongBits) /\ Power(2, LongBits) \in Nat
    <3>1. w \in Nat /\ LongBits \in Nat /\ w <= LongBits
      BY <1>1, WidthFacts, WidthsNat
    <3>2. Power(2, w) <= Power(2, LongBits) /\ Power(2, LongBits) \in Nat
      BY <3>1, PowerUpTo, TwoPower
    <3> QED
      BY <1>2, <3>2
  <2>3. Inf \in Nat /\ Inf > 2 * Power(2, LongBits)
    BY NumericAssumption
  <2> QED
    BY <2>1, <2>2, <2>3 DEF NaN
<1>9. r \in Numbers("f")
  <2>1. (n < 0) \in BOOLEAN
    OBVIOUS
  <2> QED
    BY <1>7, <1>8, <2>1 DEF Numbers
<1>10. Real(r) = 2 * n
  <2>1. r.neg = (n < 0) /\ r.mag = 2 * Abs(n)
    BY <1>7
  <2>2. CASE n < 0
    <3>1. r.neg /\ r.mag = 2 * (-n)
      BY <2>1, <2>2 DEF Abs
    <3>2. Real(r) = -(2 * (-n))
      BY <3>1 DEF Real
    <3> QED
      BY <3>2
  <2>3. CASE ~(n < 0)
    <3>1. ~r.neg /\ r.mag = 2 * n
      BY <2>1, <2>3 DEF Abs
    <3> QED
      BY <3>1 DEF Real
  <2> QED
    BY <2>2, <2>3
<1> QED
  BY <1>1, <1>2, <1>4, <1>5, <1>6, <1>7, <1>9, <1>10 DEF RightFloat

\* A float as an integer, if it fits.
LEMMA TruncationRight ==
  ASSUME NEW w, IsWidth(w), NEW x \in Numbers("f"), NEW name \in {"trunc_s", "trunc_u"},
         NEW n \in Truncations(name, x, w)
  PROVE  Pattern(n, w) /\ (Fits(name, x, w) => RightTruncation(name, n, x, w))
<1>1. w \in Nat \ {0} /\ Pattern(0, w)
  BY WidthFacts, SmallPatterns
<1>2. PICK h \in Nat \ {0} : h = Power(2, w - 1) /\ Power(2, w) = 2 * h
  BY <1>1, SignedNumbers
<1>3. CASE ~Fits(name, x, w)
  BY <1>3 DEF Truncations, Pattern
<1>4. CASE Fits(name, x, w)
  <2>1. PICK mag \in Nat : mag = x.mag
    BY FloatFacts
  <2>2. x.neg \in BOOLEAN
    BY FloatFacts
  <2>3. PICK half \in Nat : half = mag \div 2 /\ 2 * half <= mag /\ mag < 2 * half + 2
    OBVIOUS
  <2>4. PICK k \in Int : k = Whole(x) /\ k = IF x.neg THEN -half ELSE half
    BY <2>1, <2>2, <2>3 DEF Whole
  <2>5. n = AsUnsigned(k, w)
    BY <1>4, <2>4 DEF Truncations
  <2>6. k \in IF name = "trunc_s" THEN -h..h - 1 ELSE 0..2 * h - 1
    BY <1>2, <1>4, <2>4 DEF Fits
  <2>7. Pattern(n, w) /\ k = IF name = "trunc_s" THEN AsSigned(n, w) ELSE n
    <3>1. CASE name = "trunc_s"
      <4>1. k \in -h..h - 1
        BY <2>6, <3>1
      <4>2. AsUnsigned(k, w) \in 0..Power(2, w) - 1 /\ AsSigned(AsUnsigned(k, w), w) = k
        BY <1>1, <1>2, <4>1, SignedBack
      <4> QED
        BY <2>5, <3>1, <4>2 DEF Pattern
    <3>2. CASE name # "trunc_s"
      <4>1. k \in 0..2 * h - 1 /\ \A d \in Nat \ {0} : \A i \in 0..d - 1 : i % d = i
        BY <2>6, <3>2
      <4>2. 2 * h \in Nat \ {0}
        BY <1>2
      <4>3. k % (2 * h) = k
        BY <4>1, <4>2
      <4> QED
        BY <1>2, <2>5, <3>2, <4>1, <4>3 DEF AsUnsigned, Pattern
    <3> QED
      BY <3>1, <3>2
  <2>8. Abs(k) = half /\ (k # 0 => (k < 0) = x.neg)
    <3>1. CASE x.neg
      <4>1. k = -half
        BY <2>4, <3>1
      <4>2. Abs(k) = half /\ (k # 0 => k < 0)
        BY <4>1 DEF Abs
      <4> QED
        BY <2>2, <3>1, <4>2
    <3>2. CASE ~x.neg
      <4>1. k = half
        BY <2>4, <3>2
      <4>2. Abs(k) = half /\ ~(k < 0)
        BY <4>1 DEF Abs
      <4> QED
        BY <2>2, <3>2, <4>2
    <3> QED
      BY <3>1, <3>2
  <2>9. 2 * Abs(k) <= x.mag /\ x.mag < 2 * Abs(k) + 2
    BY <2>1, <2>3, <2>8
  <2> QED
    BY <2>7, <2>8, <2>9 DEF RightTruncation
<1> QED
  BY <1>3, <1>4

----------------------------------------------------------------------------
(* An instruction and its result *)

\* An instruction's name tells what it works on.
LEMMA InstructionFacts ==
  ASSUME NEW o \in Instructions
  PROVE  /\ o = [name |-> o.name, type |-> o.type] /\ o.type \in {"i32", "i64", "f"}
         /\ o.name \in Arithmetic \cup Bitwisely \cup Divisions \cup Shifts \cup Rotations \cup BitCounts
              => o.type # "f" /\ OperandType(o) = o.type
         /\ o.name \in {"eqz", "trunc_s", "trunc_u"} => o.type # "f"
         /\ o.name = "eqz" => OperandType(o) = o.type
         /\ o.name \in {"trunc_s", "trunc_u"} => OperandType(o) = "f"
         /\ o.name \in Relations \cup FloatRelations => OperandType(o) = o.type
         /\ o.name = "wrap_i64" => o.type = "i32" /\ OperandType(o) = "i64"
         /\ o.name \in {"extend_s", "extend_u"} => o.type = "i64" /\ OperandType(o) = "i32"
         /\ o.name \in {"min", "max"} \cup Signs => o.type = "f" /\ OperandType(o) = "f"
         /\ o.name \in Converts => o.type = "f" /\ OperandType(o) = Source(o.name)
         /\ OperandType(o) \in {"i32", "i64", "f"}
<1>1. o = [name |-> o.name, type |-> o.type] /\ o.type \in {"i32", "i64", "f"}
  BY DEF Instructions
<1>2. /\ o.name \in Arithmetic \cup Bitwisely \cup Divisions \cup Shifts \cup Rotations \cup BitCounts
           => o.type # "f"
      /\ o.name \in {"eqz", "trunc_s", "trunc_u"} => o.type # "f"
      /\ o.name = "wrap_i64" => o.type = "i32"
      /\ o.name \in {"extend_s", "extend_u"} => o.type = "i64"
      /\ o.name \in {"min", "max"} \cup Signs \cup Converts => o.type = "f"
  BY DEF Instructions, Binary, Arithmetic, Bitwisely, Relations, Divisions, Shifts, Rotations, BitCounts,
         FloatRelations, Signs, Converts
<1>3. /\ o.name \in Arithmetic \cup Bitwisely \cup Divisions \cup Shifts \cup Rotations \cup BitCounts
           => OperandType(o) = o.type
      /\ o.name = "eqz" => OperandType(o) = o.type
      /\ o.name \in {"trunc_s", "trunc_u"} => OperandType(o) = "f"
      /\ o.name \in Relations \cup FloatRelations => OperandType(o) = o.type
      /\ o.name = "wrap_i64" => OperandType(o) = "i64"
      /\ o.name \in {"extend_s", "extend_u"} => OperandType(o) = "i32"
      /\ o.name \in {"min", "max"} \cup Signs => OperandType(o) = o.type
      /\ o.name \in Converts => OperandType(o) = Source(o.name)
  BY DEF OperandType, Arithmetic, Bitwisely, Relations, Divisions, Shifts, Rotations, BitCounts,
         FloatRelations, Signs, Converts
<1>4. OperandType(o) \in {"i32", "i64", "f"}
  BY <1>1 DEF OperandType, Source
<1> QED
  BY <1>1, <1>2, <1>3, <1>4

\* What an instruction should make is told by its kind.
LEMMA RightByKind ==
  ASSUME NEW o \in Instructions, NEW r, NEW x, NEW y, NEW w, w = Width(o.type)
  PROVE  /\ o.name \in Arithmetic => (Right(o, r, x, y) <=> RightArithmetic(o.name, r, x, y, w))
         /\ o.name \in Bitwisely => (Right(o, r, x, y) <=> RightBitwise(o.name, r, x, y, w))
         /\ o.name \in Relations /\ o.type # "f" => (Right(o, r, x, y) <=> r = Bool(Holds(o.name, x, y, w)))
         /\ o.name = "eqz" => (Right(o, r, x, y) <=> r = Bool(x = 0))
         /\ o.name \in Divisions => (Right(o, r, x, y) <=> RightDivision(o.name, r, x, y, w))
         /\ o.name \in Shifts => (Right(o, r, x, y) <=> RightShift(o.name, r, x, y, w))
         /\ o.name \in Rotations => (Right(o, r, x, y) <=> RightRotation(o.name, r, x, y, w))
         /\ o.name \in BitCounts => (Right(o, r, x, y) <=> RightCount(o.name, r, x, w))
         /\ o.name \in {"wrap_i64", "extend_s", "extend_u"} => (Right(o, r, x, y) <=> RightConversion(o.name, r, x))
         /\ o.name \in {"trunc_s", "trunc_u"} => (Right(o, r, x, y) <=> RightTruncation(o.name, r, x, w))
         /\ o.name \in {"min", "max"} => (Right(o, r, x, y) <=> RightExtreme(o.name, r, x, y))
         /\ o.name \in FloatRelations /\ o.type = "f"
              => (Right(o, r, x, y) <=> r = Bool(Related(x, y) \in TrueFor[o.name]))
         /\ o.name \in Signs => (Right(o, r, x, y) <=> RightSign(o.name, r, x, y))
         /\ o.name \in Converts => (Right(o, r, x, y) <=> RightFloat(o.name, r, x))
<1> USE DEF Arithmetic, Bitwisely, Relations, Divisions, Shifts, Rotations, BitCounts, FloatRelations, Signs, Converts
<1>1. ASSUME o.name \in Arithmetic PROVE Right(o, r, x, y) <=> RightArithmetic(o.name, r, x, y, w)
  BY <1>1 DEF Right
<1>2. ASSUME o.name \in Bitwisely PROVE Right(o, r, x, y) <=> RightBitwise(o.name, r, x, y, w)
  BY <1>2 DEF Right
<1>3. ASSUME o.name \in Relations /\ o.type # "f" PROVE Right(o, r, x, y) <=> r = Bool(Holds(o.name, x, y, w))
  BY <1>3 DEF Right
<1>4. ASSUME o.name = "eqz" PROVE Right(o, r, x, y) <=> r = Bool(x = 0)
  BY <1>4 DEF Right
<1>5. ASSUME o.name \in Divisions PROVE Right(o, r, x, y) <=> RightDivision(o.name, r, x, y, w)
  BY <1>5 DEF Right
<1>6. ASSUME o.name \in Shifts PROVE Right(o, r, x, y) <=> RightShift(o.name, r, x, y, w)
  BY <1>6 DEF Right
<1>7. ASSUME o.name \in Rotations PROVE Right(o, r, x, y) <=> RightRotation(o.name, r, x, y, w)
  BY <1>7 DEF Right
<1>8. ASSUME o.name \in BitCounts PROVE Right(o, r, x, y) <=> RightCount(o.name, r, x, w)
  BY <1>8 DEF Right
<1>9. ASSUME o.name \in {"wrap_i64", "extend_s", "extend_u"} PROVE Right(o, r, x, y) <=> RightConversion(o.name, r, x)
  BY <1>9 DEF Right
<1>10. ASSUME o.name \in {"trunc_s", "trunc_u"} PROVE Right(o, r, x, y) <=> RightTruncation(o.name, r, x, w)
  BY <1>10 DEF Right
<1>11. ASSUME o.name \in {"min", "max"} PROVE Right(o, r, x, y) <=> RightExtreme(o.name, r, x, y)
  BY <1>11 DEF Right
<1>12. ASSUME o.name \in FloatRelations /\ o.type = "f" PROVE Right(o, r, x, y) <=> r = Bool(Related(x, y) \in TrueFor[o.name])
  BY <1>12 DEF Right
<1>13. ASSUME o.name \in Signs PROVE Right(o, r, x, y) <=> RightSign(o.name, r, x, y)
  BY <1>13 DEF Right
<1>14. ASSUME o.name \in Converts PROVE Right(o, r, x, y) <=> RightFloat(o.name, r, x)
  BY <1>14 DEF Right
<1> HIDE DEF Arithmetic, Bitwisely, Relations, Divisions, Shifts, Rotations, BitCounts, FloatRelations, Signs, Converts
<1> QED
  BY <1>1, <1>2, <1>3, <1>4, <1>5, <1>6, <1>7, <1>8, <1>9, <1>10, <1>11, <1>12, <1>13, <1>14

\* A value that an instruction may leave: of its type, and the right one unless the
\* code goes its own way.
Result(o, x, y, v) == /\ v \in Numbers(ResultType(o))
                      /\ ~Deviates(o, x, y) => Right(o, v, x, y)

\* The numbers of an integer type are the patterns of its width.
LEMMA TypeFacts ==
  ASSUME NEW t \in {"i32", "i64"}
  PROVE  IsWidth(Width(t)) /\ (\A v : v \in Numbers(t) <=> Pattern(v, Width(t)))
<1>1. Numbers(t) = Ints(t)
  BY DEF Numbers
<1> QED
  BY <1>1, WidthsNat DEF IsWidth, Pattern, Ints

\* Comparisons leave an i32.
LEMMA Truths ==
  ASSUME NEW o, o.name \in Relations \cup FloatRelations \cup {"eqz"}, NEW b
  PROVE  ResultType(o) = "i32" /\ Bool(b) \in Numbers(ResultType(o))
<1>1. ResultType(o) = "i32"
  BY DEF ResultType
<1>2. Pattern(0, Width("i32")) /\ Pattern(1, Width("i32"))
  BY TypeFacts, SmallPatterns
<1>3. Bool(b) \in {0, 1}
  BY DEF Bool
<1> QED
  BY <1>1, <1>2, <1>3, TypeFacts

\* What the handlers of the integer instructions leave.
LEMMA IntegerResults ==
  ASSUME NEW o \in Instructions, NEW w, w = Width(o.type),
         NEW x \in Numbers(OperandType(o)), NEW y \in Numbers(OperandType(o))
  PROVE  /\ o.name \in Arithmetic => Result(o, x, y, Calculated(o.name, x, y, w)) /\ ResultType(o) = o.type
         /\ o.name \in Bitwisely  => Result(o, x, y, Combined(o.name, x, y)) /\ ResultType(o) = o.type
         /\ o.name \in Relations /\ o.type # "f"
              => Result(o, x, y, Compared(o.name, x, y, w)) /\ ResultType(o) = "i32"
         /\ o.name = "eqz"        => Result(o, x, y, Bool(x = 0)) /\ ResultType(o) = "i32"
         /\ o.name \in Divisions /\ ~Refused(o.name, x, y, w)
              => Result(o, x, y, Divided(o.name, x, y, w)) /\ ResultType(o) = o.type
         /\ o.name \in Divisions /\ Refused(o.name, x, y, w) /\ ~Deviates(o, x, y)
              => ~\E r \in Numbers(o.type) : Right(o, r, x, y)
         /\ o.name \in Shifts     => Result(o, x, y, ShiftedBy(o.name, x, y, w)) /\ ResultType(o) = o.type
         /\ o.name \in Rotations  => Result(o, x, y, Rotated(o.name, x, y, w)) /\ ResultType(o) = o.type
         /\ o.name \in BitCounts  => Result(o, x, y, Counted(o.name, x, w)) /\ ResultType(o) = o.type
<1> DEFINE OnIntegers == Arithmetic \cup Bitwisely \cup Divisions \cup Shifts \cup Rotations \cup BitCounts
<1>1. ASSUME o.name \in OnIntegers \/ (o.name \in Relations /\ o.type # "f") \/ o.name = "eqz"
      PROVE  o.type \in {"i32", "i64"} /\ IsWidth(w) /\ Pattern(x, w) /\ Pattern(y, w)
  <2>1. o.type \in {"i32", "i64"} /\ OperandType(o) = o.type
    BY <1>1, InstructionFacts
  <2> QED
    BY <2>1, TypeFacts
<1>2. ASSUME o.name \in OnIntegers
      PROVE  ResultType(o) = o.type /\ \A v : Pattern(v, w) => v \in Numbers(ResultType(o))
  <2>1. o.name \notin Relations \cup FloatRelations \cup {"eqz"}
    BY <1>2 DEF Arithmetic, Bitwisely, Relations, Divisions, Shifts, Rotations, BitCounts, FloatRelations
  <2>2. ResultType(o) = o.type
    BY <2>1 DEF ResultType
  <2> QED
    BY <1>1, <1>2, <2>2, TypeFacts
<1>3. ASSUME o.name \in Arithmetic
      PROVE  Result(o, x, y, Calculated(o.name, x, y, w)) /\ ResultType(o) = o.type
  BY <1>1, <1>2, <1>3, ArithmeticRight, RightByKind DEF Result
<1>4. ASSUME o.name \in Bitwisely PROVE Result(o, x, y, Combined(o.name, x, y)) /\ ResultType(o) = o.type
  BY <1>1, <1>2, <1>4, BitwiseRight, RightByKind DEF Result
<1>5. ASSUME o.name \in Relations, o.type # "f"
      PROVE  Result(o, x, y, Compared(o.name, x, y, w)) /\ ResultType(o) = "i32"
  BY <1>1, <1>5, RelationRight, RightByKind, Truths DEF Result
<1>6. ASSUME o.name = "eqz" PROVE Result(o, x, y, Bool(x = 0)) /\ ResultType(o) = "i32"
  BY <1>6, RightByKind, Truths DEF Result
<1>7. ASSUME o.name \in Divisions, ~Refused(o.name, x, y, w)
      PROVE  Result(o, x, y, Divided(o.name, x, y, w)) /\ ResultType(o) = o.type
  BY <1>1, <1>2, <1>7, DivisionRight, RightByKind DEF Result
<1>8. ASSUME o.name \in Divisions, Refused(o.name, x, y, w), ~Deviates(o, x, y), NEW r \in Numbers(o.type)
      PROVE  ~Right(o, r, x, y)
  <2>1. IsWidth(w) /\ Pattern(x, w) /\ Pattern(y, w) /\ Pattern(r, w)
    BY <1>1, <1>8, TypeFacts
  <2>2. ~RightDivision(o.name, r, x, y, w)
    BY <1>8, <2>1, RefusedWithoutResult
  <2> QED
    BY <1>8, <2>2, RightByKind
<1>9. ASSUME o.name \in Shifts PROVE Result(o, x, y, ShiftedBy(o.name, x, y, w)) /\ ResultType(o) = o.type
  BY <1>1, <1>2, <1>9, ShiftOpsRight, RightByKind DEF Result
<1>10. ASSUME o.name \in Rotations PROVE Result(o, x, y, Rotated(o.name, x, y, w)) /\ ResultType(o) = o.type
  <2>1. IsWidth(w) /\ Pattern(x, w) /\ Pattern(y, w) /\ o.type \in {"i32", "i64"}
    BY <1>1, <1>10
  <2>2. ASSUME ~Deviates(o, x, y), o.name = "rotr", w = LongBits PROVE y % w = 0
    <3>1. o.type = "i64"
      BY <2>1, <2>2, WidthsNat DEF Width
    <3>2. o = [name |-> "rotr", type |-> "i64"]
      BY <2>2, <3>1, InstructionFacts
    <3> QED
      BY <2>2, <3>2 DEF Deviates
  <2> QED
    BY <1>2, <1>10, <2>1, <2>2, RotationRight, RightByKind DEF Result
<1>11. ASSUME o.name \in BitCounts PROVE Result(o, x, y, Counted(o.name, x, w)) /\ ResultType(o) = o.type
  BY <1>1, <1>2, <1>11, CountRight, RightByKind DEF Result
<1> QED
  BY <1>3, <1>4, <1>5, <1>6, <1>7, <1>8, <1>9, <1>10, <1>11

\* What the handlers that take or leave a float leave, and those of the conversions.
LEMMA OtherResults ==
  ASSUME NEW o \in Instructions, NEW w, w = Width(o.type),
         NEW x \in Numbers(OperandType(o)), NEW y \in Numbers(OperandType(o))
  PROVE  /\ o.name \in {"wrap_i64", "extend_s", "extend_u"}
              => Result(o, x, y, Converted(o.name, x)) /\ ResultType(o) = o.type
         /\ o.name \in {"min", "max"} => Result(o, x, y, Extreme(o.name, x, y)) /\ ResultType(o) = "f"
         /\ o.name \in FloatRelations /\ o.type = "f"
              => Result(o, x, y, ComparedFloats(o.name, x, y)) /\ ResultType(o) = "i32"
         /\ o.name \in Signs => Result(o, x, y, Resigned(o.name, x, y)) /\ ResultType(o) = "f"
         /\ o.name \in Converts => Result(o, x, y, Floated(o.name, x)) /\ ResultType(o) = "f"
         /\ o.name \in {"trunc_s", "trunc_u"}
              => ResultType(o) = o.type /\ \A n \in Truncations(o.name, x, w) : Result(o, x, y, n)
<1>1. ASSUME o.name \in {"wrap_i64", "extend_s", "extend_u", "min", "max", "trunc_s", "trunc_u"} \cup Signs \cup Converts
      PROVE  ResultType(o) = o.type
  BY <1>1 DEF ResultType, Relations, FloatRelations, Signs, Converts
<1>2. ASSUME o.name \in {"wrap_i64", "extend_s", "extend_u"} PROVE Result(o, x, y, Converted(o.name, x))
  <2>1. /\ o.type = IF o.name = "wrap_i64" THEN "i32" ELSE "i64"
        /\ OperandType(o) = IF o.name = "wrap_i64" THEN "i64" ELSE "i32"
    BY <1>2, InstructionFacts
  <2>2. Width("i32") = WordBits /\ Width("i64") = LongBits
    BY DEF Width
  <2>3. Pattern(x, IF o.name = "wrap_i64" THEN LongBits ELSE WordBits)
    BY <2>1, <2>2, TypeFacts
  <2>4. /\ Pattern(Converted(o.name, x), IF o.name = "wrap_i64" THEN WordBits ELSE LongBits)
        /\ RightConversion(o.name, Converted(o.name, x), x)
    BY <1>2, <2>3, ConversionRight
  <2>5. Converted(o.name, x) \in Numbers(o.type)
    BY <2>1, <2>2, <2>4, TypeFacts
  <2> QED
    BY <1>1, <1>2, <2>4, <2>5, RightByKind DEF Result
<1>3. ASSUME o.name \in {"min", "max"} PROVE Result(o, x, y, Extreme(o.name, x, y)) /\ o.type = "f"
  <2>1. o.type = "f" /\ OperandType(o) = "f"
    BY <1>3, InstructionFacts
  <2>2. /\ Extreme(o.name, x, y) \in {x, y}
        /\ ~(x.mag = 0 /\ y.mag = 0) => RightExtreme(o.name, Extreme(o.name, x, y), x, y)
    BY <1>3, <2>1, ExtremeRight
  <2>3. ~Deviates(o, x, y) => ~(x.mag = 0 /\ y.mag = 0)
    BY <1>3 DEF Deviates
  <2> QED
    BY <1>1, <1>3, <2>1, <2>2, <2>3, RightByKind DEF Result
<1>4. ASSUME o.name \in FloatRelations, o.type = "f"
      PROVE  Result(o, x, y, ComparedFloats(o.name, x, y)) /\ ResultType(o) = "i32"
  <2>1. OperandType(o) = "f"
    BY <1>4, InstructionFacts
  <2> QED
    BY <1>4, <2>1, FloatRelationRight, RightByKind, Truths DEF Result
<1>5. ASSUME o.name \in Signs PROVE Result(o, x, y, Resigned(o.name, x, y)) /\ o.type = "f"
  <2>1. o.type = "f" /\ OperandType(o) = "f"
    BY <1>5, InstructionFacts
  <2> QED
    BY <1>1, <1>5, <2>1, SignRight, RightByKind DEF Result
<1>6. ASSUME o.name \in Converts PROVE Result(o, x, y, Floated(o.name, x)) /\ o.type = "f"
  <2>1. o.type = "f" /\ OperandType(o) = Source(o.name) /\ Source(o.name) \in {"i32", "i64"}
    BY <1>6, InstructionFacts DEF Source
  <2>2. Pattern(x, Width(Source(o.name)))
    BY <2>1, TypeFacts
  <2> QED
    BY <1>1, <1>6, <2>1, <2>2, FloatedRight, RightByKind DEF Result
<1>7. ASSUME o.name \in {"trunc_s", "trunc_u"}, NEW n \in Truncations(o.name, x, w) PROVE Result(o, x, y, n)
  <2>1. o.type \in {"i32", "i64"} /\ OperandType(o) = "f"
    BY <1>7, InstructionFacts
  <2>2. IsWidth(w)
    BY <2>1, TypeFacts
  <2>3. Pattern(n, w) /\ (Fits(o.name, x, w) => RightTruncation(o.name, n, x, w))
    BY <1>7, <2>1, <2>2, TruncationRight
  <2>4. ~Deviates(o, x, y) => Fits(o.name, x, w)
    BY <1>7 DEF Deviates
  <2> QED
    BY <1>1, <1>7, <2>1, <2>3, <2>4, RightByKind, TypeFacts DEF Result
<1> QED
  BY <1>1, <1>2, <1>3, <1>4, <1>5, <1>6, <1>7

----------------------------------------------------------------------------
(* The machine *)

\* The operands are those of the instruction.
Loaded == op \in Instructions /\ args \in [1..Arity(op) -> ValuesOf(OperandType(op))]

\* Nothing is on the stack but them, and something below, before it runs.
Waiting == outcome = "running" =>
             stack = <<Bottom>> \o [i \in 1..Len(args) |-> Typed(OperandType(op), args[i])]

\* What the result is put on.
Under(o, x) == IF o.name \in BitCounts THEN <<Bottom, Typed(o.type, x)>> ELSE <<Bottom>>

Finished == outcome = "done" =>
              \E v : /\ Result(op, First, Second, v)
                     /\ stack = Under(op, First) \o <<Typed(ResultType(op), v)>>

NumericInv == Loaded /\ Waiting /\ Finished /\ DiesWithoutResult

\* One operand or two, of the instruction's type.
LEMMA OperandFacts ==
  ASSUME Loaded
  PROVE  /\ Len(args) = Arity(op) /\ Arity(op) \in {1, 2}
         /\ First \in Numbers(OperandType(op)) /\ Second \in Numbers(OperandType(op))
<1>1. op \in Instructions /\ Arity(op) \in {1, 2} /\ OperandType(op) \in {"i32", "i64", "f"}
  BY InstructionFacts DEF Loaded, Arity
<1>2. PICK n \in {1, 2} : n = Arity(op) /\ args \in [1..n -> ValuesOf(OperandType(op))]
  BY <1>1 DEF Loaded
<1>3. Len(args) = n
  BY <1>2
<1>4. ValuesOf(OperandType(op)) \subseteq Numbers(OperandType(op))
  BY <1>1, NumericAssumption DEF ValuesOf
<1>5. 1 \in 1..n /\ n \in 1..n
  OBVIOUS
<1> QED
  BY <1>1, <1>2, <1>3, <1>4, <1>5 DEF First, Second

\* A sequence on top of something.
LEMMA Beneath ==
  ASSUME NEW S, NEW B \in S, NEW f \in Seq(S)
  PROVE  /\ Len(<<B>> \o f) = 1 + Len(f) /\ SubSeq(<<B>> \o f, 1, 1) = <<B>>
         /\ Len(f) = 1 => <<B>> \o f = <<B, f[1]>>
<1>1. PICK b : b = <<B>> /\ b \in Seq(S) /\ Len(b) = 1 /\ b[1] = B
  <2>1. <<B>> \in Seq(S)
    OBVIOUS
  <2>2. Len(<<B>>) = 1 /\ <<B>>[1] = B
    OBVIOUS
  <2> QED
    BY <2>1, <2>2
<1>2. PICK s : s = b \o f
  OBVIOUS
<1>3. /\ s \in Seq(S) /\ Len(s) = 1 + Len(f) /\ Len(f) \in Nat /\ s[1] = B
      /\ Len(f) = 1 => s[2] = f[1]
  BY <1>1, <1>2, ConcatProperties
<1>4. SubSeq(s, 1, 1) = b
  <2>1. PICK t : t = SubSeq(s, 1, 1)
    OBVIOUS
  <2>2. t \in Seq(S) /\ Len(t) = 1 /\ t[1] = B
    BY <1>3, <2>1, SubSeqProperties
  <2>3. \A i \in 1..1 : t[i] = b[i]
    BY <1>1, <2>2
  <2>4. t = b
    BY <1>1, <2>2, <2>3, SeqEqual
  <2> QED
    BY <2>1, <2>4
<1>5. ASSUME Len(f) = 1 PROVE s = <<B, f[1]>>
  <2>1. PICK c \in S : c = f[1]
    BY <1>5, ElementOfSeq
  <2>2. PICK t : t = <<B, f[1]>> /\ t \in Seq(S) /\ Len(t) = 2 /\ t[1] = B /\ t[2] = f[1]
    <3>1. <<B, c>> \in Seq(S)
      OBVIOUS
    <3>2. Len(<<B, c>>) = 2 /\ <<B, c>>[1] = B /\ <<B, c>>[2] = c
      OBVIOUS
    <3> QED
      BY <2>1, <3>1, <3>2
  <2>3. Len(s) = 2 /\ \A i \in 1..2 : s[i] = t[i]
    BY <1>3, <1>5, <2>2
  <2>4. s = t
    BY <1>3, <2>2, <2>3, SeqEqual
  <2> QED
    BY <2>2, <2>4
<1> QED
  BY <1>1, <1>2, <1>3, <1>4, <1>5

\* Without its operands the stack is what it was before them.
LEMMA StackFacts ==
  ASSUME Loaded, Waiting, outcome = "running"
  PROVE  Popped = <<Bottom>> /\ (Arity(op) = 1 => stack = <<Bottom, Typed(OperandType(op), First)>>)
<1>1. Len(args) = Arity(op) /\ Arity(op) \in {1, 2}
  BY OperandFacts
<1>2. PICK B, F, a, b : /\ B = Bottom /\ F = [i \in 1..Len(args) |-> Typed(OperandType(op), args[i])]
                        /\ a = Typed(OperandType(op), args[1]) /\ b = Typed(OperandType(op), args[2])
  OBVIOUS
<1>3. stack = <<B>> \o F
  BY <1>2 DEF Waiting
<1>4. PICK S : S = {B, a, b}
  OBVIOUS
<1>5. F \in Seq(S) /\ Len(F) = Arity(op) /\ F[1] = a
  <2>1. CASE Arity(op) = 1
    <3>1. F = <<a>>
      BY <1>1, <1>2, <2>1
    <3> QED
      BY <1>4, <2>1, <3>1
  <2>2. CASE Arity(op) = 2
    <3>1. F = <<a, b>>
      BY <1>1, <1>2, <2>2
    <3> QED
      BY <1>4, <2>2, <3>1
  <2> QED
    BY <1>1, <2>1, <2>2
<1>6. B \in S
  BY <1>4
<1>7. /\ Len(stack) = 1 + Arity(op) /\ SubSeq(stack, 1, 1) = <<B>>
      /\ Arity(op) = 1 => stack = <<B, a>>
  BY <1>3, <1>5, <1>6, Beneath
<1>8. Popped = SubSeq(stack, 1, 1)
  BY <1>1, <1>7 DEF Popped
<1> QED
  BY <1>2, <1>7, <1>8 DEF First

\* A value that is pushed on what there should be under it, and is right, ends well.
LEMMA PushedResult ==
  ASSUME NumericInv, NEW rest, NEW t, NEW v, Push(rest, t, v),
         rest = Under(op, First), t = ResultType(op), Result(op, First, Second, v)
  PROVE  NumericInv'
<1>1. op' = op /\ args' = args /\ outcome' = "done" /\ stack' = Append(rest, Typed(t, v))
  BY DEF Push
<1>2. Loaded'
  BY <1>1 DEF NumericInv, Loaded
<1>3. Waiting' /\ DiesWithoutResult'
  BY <1>1 DEF Waiting, DiesWithoutResult
<1>4. First' = First /\ Second' = Second
  BY <1>1 DEF First, Second
<1>5. Append(rest, Typed(t, v)) = rest \o <<Typed(t, v)>>
  <2>1. \A B, e : Append(<<B>>, e) = <<B>> \o <<e>>
    OBVIOUS
  <2>2. \A B, C, e : Append(<<B, C>>, e) = <<B, C>> \o <<e>>
    OBVIOUS
  <2> QED
    BY <2>1, <2>2 DEF Under
<1>6. Finished'
  BY <1>1, <1>4, <1>5 DEF Finished
<1> QED
  BY <1>2, <1>3, <1>6 DEF NumericInv

\* Each handler keeps the invariant: what it pushes is its result.
LEMMA NumericInvStep ==
  ASSUME NumericInv, [NumericNext]_numericVars
  PROVE  NumericInv'
<1>1. PICK x, y, w : x = First /\ y = Second /\ w = W
  OBVIOUS
<1>2. /\ op \in Instructions /\ Arity(op) \in {1, 2} /\ w = Width(op.type)
      /\ x \in Numbers(OperandType(op)) /\ y \in Numbers(OperandType(op))
  BY <1>1, OperandFacts DEF NumericInv, Loaded, W
<1>3. outcome = "running" => /\ Popped = <<Bottom>>
                             /\ Arity(op) = 1 => stack = <<Bottom, Typed(OperandType(op), x)>>
  BY <1>1, StackFacts DEF NumericInv
<1>4. op.name \notin BitCounts => Under(op, x) = <<Bottom>>
  BY DEF Under
<1>5. ASSUME NEW v, outcome = "running", op.name \notin BitCounts, Push(Popped, ResultType(op), v), Result(op, x, y, v)
      PROVE  NumericInv'
  BY <1>1, <1>3, <1>4, <1>5, PushedResult
<1>6. CASE Arithmetics
  <2>1. outcome = "running" /\ op.name \in Arithmetic /\ Push(Popped, op.type, Calculated(op.name, x, y, w))
    BY <1>1, <1>6 DEF Arithmetics, Handle
  <2>2. op.name \notin BitCounts
    BY <2>1 DEF Arithmetic, BitCounts
  <2>3. Result(op, x, y, Calculated(op.name, x, y, w)) /\ ResultType(op) = op.type
    BY <1>2, <2>1, IntegerResults
  <2> QED
    BY <1>5, <2>1, <2>2, <2>3
<1>7. CASE BitwiseOps
  <2>1. outcome = "running" /\ op.name \in Bitwisely /\ Push(Popped, op.type, Combined(op.name, x, y))
    BY <1>1, <1>7 DEF BitwiseOps, Handle
  <2>2. op.name \notin BitCounts
    BY <2>1 DEF Bitwisely, BitCounts
  <2>3. Result(op, x, y, Combined(op.name, x, y)) /\ ResultType(op) = op.type
    BY <1>2, <2>1, IntegerResults
  <2> QED
    BY <1>5, <2>1, <2>2, <2>3
<1>8. CASE Comparisons
  <2>1. /\ outcome = "running" /\ op.name \in Relations /\ op.type # "f"
        /\ Push(Popped, "i32", Compared(op.name, x, y, w))
    BY <1>1, <1>8 DEF Comparisons, Handle, Integral
  <2>2. op.name \notin BitCounts
    BY <2>1 DEF Relations, BitCounts
  <2>3. Result(op, x, y, Compared(op.name, x, y, w)) /\ ResultType(op) = "i32"
    BY <1>2, <2>1, IntegerResults
  <2> QED
    BY <1>5, <2>1, <2>2, <2>3
<1>9. CASE Eqz
  <2>1. outcome = "running" /\ op.name = "eqz" /\ Push(Popped, "i32", Bool(x = 0))
    BY <1>1, <1>9 DEF Eqz, Handle
  <2>2. op.name \notin BitCounts
    BY <2>1 DEF BitCounts
  <2>3. Result(op, x, y, Bool(x = 0)) /\ ResultType(op) = "i32"
    BY <1>2, <2>1, IntegerResults
  <2> QED
    BY <1>5, <2>1, <2>2, <2>3
<1>10. CASE ShiftOps
  <2>1. outcome = "running" /\ op.name \in Shifts /\ Push(Popped, op.type, ShiftedBy(op.name, x, y, w))
    BY <1>1, <1>10 DEF ShiftOps, Handle
  <2>2. op.name \notin BitCounts
    BY <2>1 DEF Shifts, BitCounts
  <2>3. Result(op, x, y, ShiftedBy(op.name, x, y, w)) /\ ResultType(op) = op.type
    BY <1>2, <2>1, IntegerResults
  <2> QED
    BY <1>5, <2>1, <2>2, <2>3
<1>11. CASE RotateOps
  <2>1. outcome = "running" /\ op.name \in Rotations /\ Push(Popped, op.type, Rotated(op.name, x, y, w))
    BY <1>1, <1>11 DEF RotateOps, Handle
  <2>2. op.name \notin BitCounts
    BY <2>1 DEF Rotations, BitCounts
  <2>3. Result(op, x, y, Rotated(op.name, x, y, w)) /\ ResultType(op) = op.type
    BY <1>2, <2>1, IntegerResults
  <2> QED
    BY <1>5, <2>1, <2>2, <2>3
<1>12. CASE Conversions
  <2>1. /\ outcome = "running" /\ op.name \in {"wrap_i64", "extend_s", "extend_u"}
        /\ Push(Popped, op.type, Converted(op.name, x))
    BY <1>1, <1>12 DEF Conversions, Handle
  <2>2. op.name \notin BitCounts
    BY <2>1 DEF BitCounts
  <2>3. Result(op, x, y, Converted(op.name, x)) /\ ResultType(op) = op.type
    BY <1>2, <2>1, OtherResults
  <2> QED
    BY <1>5, <2>1, <2>2, <2>3
<1>13. CASE Extremes
  <2>1. outcome = "running" /\ op.name \in {"min", "max"} /\ Push(Popped, "f", Extreme(op.name, x, y))
    BY <1>1, <1>13 DEF Extremes, Handle
  <2>2. op.name \notin BitCounts
    BY <2>1 DEF BitCounts
  <2>3. Result(op, x, y, Extreme(op.name, x, y)) /\ ResultType(op) = "f"
    BY <1>2, <2>1, OtherResults
  <2> QED
    BY <1>5, <2>1, <2>2, <2>3
<1>14. CASE FloatComparisons
  <2>1. /\ outcome = "running" /\ op.name \in FloatRelations /\ op.type = "f"
        /\ Push(Popped, "i32", ComparedFloats(op.name, x, y))
    BY <1>1, <1>14 DEF FloatComparisons, Handle, Integral
  <2>2. op.name \notin BitCounts
    BY <2>1 DEF FloatRelations, BitCounts
  <2>3. Result(op, x, y, ComparedFloats(op.name, x, y)) /\ ResultType(op) = "i32"
    BY <1>2, <2>1, OtherResults
  <2> QED
    BY <1>5, <2>1, <2>2, <2>3
<1>15. CASE SignOps
  <2>1. outcome = "running" /\ op.name \in Signs /\ Push(Popped, "f", Resigned(op.name, x, y))
    BY <1>1, <1>15 DEF SignOps, Handle
  <2>2. op.name \notin BitCounts
    BY <2>1 DEF Signs, BitCounts
  <2>3. Result(op, x, y, Resigned(op.name, x, y)) /\ ResultType(op) = "f"
    BY <1>2, <2>1, OtherResults
  <2> QED
    BY <1>5, <2>1, <2>2, <2>3
<1>16. CASE FloatOf
  <2>1. outcome = "running" /\ op.name \in Converts /\ Push(Popped, "f", Floated(op.name, x))
    BY <1>1, <1>16 DEF FloatOf, Handle
  <2>2. op.name \notin BitCounts
    BY <2>1 DEF Converts, BitCounts
  <2>3. Result(op, x, y, Floated(op.name, x)) /\ ResultType(op) = "f"
    BY <1>2, <2>1, OtherResults
  <2> QED
    BY <1>5, <2>1, <2>2, <2>3
<1>17. CASE Truncate
  <2>1. PICK n \in Truncations(op.name, x, w) :
          outcome = "running" /\ op.name \in {"trunc_s", "trunc_u"} /\ Push(Popped, op.type, n)
    BY <1>1, <1>17 DEF Truncate, Handle
  <2>2. op.name \notin BitCounts
    BY <2>1 DEF BitCounts
  <2>3. Result(op, x, y, n) /\ ResultType(op) = op.type
    BY <1>2, <2>1, OtherResults
  <2> QED
    BY <1>5, <2>1, <2>2, <2>3
<1>18. CASE Divide
  <2>1. /\ outcome = "running" /\ op.name \in Divisions /\ ~Refused(op.name, x, y, w)
        /\ Push(Popped, op.type, Divided(op.name, x, y, w))
    BY <1>1, <1>18 DEF Divide, Handle
  <2>2. op.name \notin BitCounts
    BY <2>1 DEF Divisions, BitCounts
  <2>3. Result(op, x, y, Divided(op.name, x, y, w)) /\ ResultType(op) = op.type
    BY <1>2, <2>1, IntegerResults
  <2> QED
    BY <1>5, <2>1, <2>2, <2>3
<1>19. CASE Die
  <2>1. /\ outcome = "running" /\ op.name \in Divisions /\ Refused(op.name, x, y, w)
        /\ outcome' = "killed" /\ op' = op /\ args' = args /\ stack' = stack
    BY <1>1, <1>19 DEF Die, Handle
  <2>2. ~Deviates(op, x, y) => ~\E r \in Numbers(op.type) : Right(op, r, x, y)
    BY <1>2, <2>1, IntegerResults
  <2>3. DiesWithoutResult'
    BY <1>1, <2>1, <2>2 DEF DiesWithoutResult, First, Second
  <2>4. Loaded' /\ Waiting' /\ Finished'
    BY <2>1 DEF NumericInv, Loaded, Waiting, Finished
  <2> QED
    BY <2>3, <2>4 DEF NumericInv
<1>20. CASE BitCount
  <2>1. outcome = "running" /\ op.name \in BitCounts /\ Push(stack, op.type, Counted(op.name, x, w))
    BY <1>1, <1>20 DEF BitCount, Handle
  <2>2. Result(op, x, y, Counted(op.name, x, w)) /\ ResultType(op) = op.type
    BY <1>2, <2>1, IntegerResults
  <2>3. Arity(op) = 1
    BY <2>1 DEF Arity, BitCounts, Binary, Arithmetic, Bitwisely, Relations, Divisions, Shifts, Rotations, FloatRelations
  <2>4. stack = Under(op, x)
    BY <1>2, <1>3, <2>1, <2>3, InstructionFacts DEF Under
  <2> QED
    BY <1>1, <2>1, <2>2, <2>4, PushedResult
<1>21. CASE UNCHANGED numericVars
  <2>1. op' = op /\ args' = args /\ stack' = stack /\ outcome' = outcome
    BY <1>21 DEF numericVars
  <2>2. First' = First /\ Second' = Second
    BY <2>1 DEF First, Second
  <2> QED
    BY <2>1, <2>2 DEF NumericInv, Loaded, Waiting, Finished, DiesWithoutResult
<1> QED
  BY <1>6, <1>7, <1>8, <1>9, <1>10, <1>11, <1>12, <1>13, <1>14, <1>15, <1>16, <1>17, <1>18, <1>19, <1>20, <1>21
  DEF NumericNext

\* No instruction has run at first.
LEMMA NumericInvInit == NumericInit => NumericInv
BY DEF NumericInit, NumericInv, Loaded, Waiting, Finished, DiesWithoutResult

\* A finished instruction has its result on top, and under it what there should be.
LEMMA FinishedFacts ==
  ASSUME NumericInv, outcome = "done"
  PROVE  /\ stack = Under(op, First) \o <<stack[Len(stack)]>>
         /\ \E v : stack[Len(stack)] = Typed(ResultType(op), v) /\ Result(op, First, Second, v)
<1>1. PICK v : Result(op, First, Second, v) /\ stack = Under(op, First) \o <<Typed(ResultType(op), v)>>
  BY DEF NumericInv, Finished
<1>2. \A B, e : LET s == <<B>> \o <<e>> IN s[Len(s)] = e
  OBVIOUS
<1>3. \A B, C, e : LET s == <<B, C>> \o <<e>> IN s[Len(s)] = e
  OBVIOUS
<1>4. stack[Len(stack)] = Typed(ResultType(op), v)
  BY <1>1, <1>2, <1>3 DEF Under
<1> QED
  BY <1>1, <1>4

\* Every instruction that finishes has computed what the specification says, of every
\* width of an i32 that is a power of two (numeric_opcode_handlers.h:45-769).
THEOREM NumbersRight == NumericSpec => []ResultRight
<1>1. NumericInit => NumericInv
  BY NumericInvInit
<1>2. NumericInv /\ [NumericNext]_numericVars => NumericInv'
  BY NumericInvStep
<1>3. NumericInv => ResultRight
  <2> SUFFICES ASSUME NumericInv, outcome = "done"
               PROVE  LET top == stack[Len(stack)]
                      IN  /\ top.type = ResultType(op) /\ top.value \in Numbers(top.type)
                          /\ ~Deviates(op, First, Second) => Right(op, top.value, First, Second)
    BY DEF ResultRight
  <2>1. PICK v : stack[Len(stack)] = Typed(ResultType(op), v) /\ Result(op, First, Second, v)
    BY FinishedFacts
  <2>2. stack[Len(stack)].type = ResultType(op) /\ stack[Len(stack)].value = v
    BY <2>1 DEF Typed
  <2> QED
    BY <2>1, <2>2 DEF Result
<1> QED
  BY <1>1, <1>2, <1>3, PTL DEF NumericSpec

\* The processor ends the process only where no number is the result, the remainder of
\* the least number by -1 apart (numeric_opcode_handlers.h:454-476, 529-551).
THEOREM OnlyWithoutResult == NumericSpec => []DiesWithoutResult
<1>1. NumericInit => NumericInv
  BY NumericInvInit
<1>2. NumericInv /\ [NumericNext]_numericVars => NumericInv'
  BY NumericInvStep
<1>3. NumericInv => DiesWithoutResult
  BY DEF NumericInv
<1> QED
  BY <1>1, <1>2, <1>3, PTL DEF NumericSpec

=============================================================================
