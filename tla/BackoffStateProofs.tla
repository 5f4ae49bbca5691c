-------------------------- MODULE BackoffStateProofs --------------------------
(***************************************************************************)
(* Proofs about BackoffPolicy and BackoffState for any durations, delays,  *)
(* multipliers, ratios, samples and number of retries, and for any format  *)
(* of floating-point numbers that the assumptions of BackoffPolicy allow.  *)
(***************************************************************************)
EXTENDS BackoffState, WellFoundedInduction, TLAPS

-----------------------------------------------------------------------------
(***************************************************************************)
(* Induction, on a set in place of a predicate.                            *)
(***************************************************************************)

\* There is no infinite descent in the natural numbers.
LEMMA NatDescent ==
    IsWellFoundedOn({ss \in Nat \X Nat : ss[1] < ss[2]}, Nat)
BY NatLessThanWellFounded, Zenon DEF OpToRel

\* A non-empty set of natural numbers has a least element.
LEMMA LeastNat ==
    ASSUME NEW T, T \subseteq Nat, T # {}
    PROVE  \E m \in T : \A k \in T : m <= k
<1> DEFINE R == {ss \in Nat \X Nat : ss[1] < ss[2]}
<1>1. IsWellFoundedOn(R, Nat)
  BY NatDescent
<1> HIDE DEF R
<1>2. PICK m \in T : \A y \in T : ~(<<y, m>> \in R)
  BY <1>1, WFMin, Zenon
<1>3. ASSUME NEW k \in T PROVE m <= k
  <2>1. k < m => <<k, m>> \in R
    BY DEF R
  <2> QED
    BY <1>2, <2>1
<1> QED
  BY <1>3

\* A set that has 0 and with every natural number its successor has them all.
LEMMA Induction ==
    ASSUME NEW S, 0 \in S, \A n \in Nat : n \in S => n + 1 \in S
    PROVE  \A n \in Nat : n \in S
<1> SUFFICES ASSUME NEW n \in Nat, n \notin S PROVE FALSE
  OBVIOUS
<1> DEFINE T == {k \in Nat : k \notin S}
<1>1. PICK m \in T : \A k \in T : m <= k
  <2>1. T \subseteq Nat /\ T # {}
    OBVIOUS
  <2> HIDE DEF T
  <2> QED
    BY <2>1, LeastNat
<1>2. m \in Nat /\ m # 0 /\ m - 1 \in Nat
  OBVIOUS
<1>3. m - 1 \notin T
  BY <1>1, <1>2
<1>4. m - 1 \in S
  BY <1>2, <1>3
<1> QED
  BY <1>2, <1>4

-----------------------------------------------------------------------------
(***************************************************************************)
(* Powers.                                                                 *)
(***************************************************************************)

\* f holds the powers of x up to the n-th.
PowersTo(x, f, n) == /\ f \in [0 .. n -> Nat] /\ f[0] = 1
                     /\ \A k \in 1 .. n : f[k] = x * f[k - 1]

\* Finitely many powers can be listed.
LEMMA PowersListed ==
    ASSUME NEW x \in Nat
    PROVE  \A n \in Nat : \E f : PowersTo(x, f, n)
<1> DEFINE S == {n \in Nat : \E f : PowersTo(x, f, n)}
<1>1. 0 \in S
  <2> DEFINE f == [k \in 0 .. 0 |-> 1]
  <2>1. PowersTo(x, f, 0)
    BY DEF PowersTo
  <2> QED
    BY <2>1
<1>2. ASSUME NEW n \in Nat, n \in S PROVE n + 1 \in S
  <2> PICK f : PowersTo(x, f, n)
    BY <1>2
  <2> DEFINE g == [k \in 0 .. n + 1 |-> IF k = n + 1 THEN x * f[n] ELSE f[k]]
  <2>1. g \in [0 .. n + 1 -> Nat]
    <3>1. f[n] \in Nat
      BY DEF PowersTo
    <3>2. x * f[n] \in Nat
      BY <3>1
    <3> QED
      BY <3>2 DEF PowersTo
  <2>2. g[0] = 1
    BY DEF PowersTo
  <2>3. ASSUME NEW k \in 1 .. n + 1 PROVE g[k] = x * g[k - 1]
    <3>1. CASE k = n + 1
      BY <3>1
    <3>2. CASE k \in 1 .. n
      BY <3>2 DEF PowersTo
    <3> QED
      BY <3>1, <3>2
  <2>4. PowersTo(x, g, n + 1)
    BY <2>1, <2>2, <2>3 DEF PowersTo
  <2> QED
    BY <2>4
<1> HIDE DEF S
<1>3. \A n \in Nat : n \in S
  BY <1>1, <1>2, Induction
<1> QED
  BY <1>3 DEF S

\* Two lists of powers agree where both are defined.
LEMMA PowersAgree ==
    ASSUME NEW x \in Nat, NEW m \in Nat, NEW n \in Nat, NEW f, NEW g,
           PowersTo(x, f, m), PowersTo(x, g, n)
    PROVE  \A k \in Nat : k <= m /\ k <= n => f[k] = g[k]
<1> DEFINE S == {k \in Nat : k <= m /\ k <= n => f[k] = g[k]}
<1>1. 0 \in S
  BY DEF PowersTo
<1>2. ASSUME NEW k \in Nat, k \in S PROVE k + 1 \in S
  <2> SUFFICES ASSUME k + 1 <= m, k + 1 <= n PROVE f[k + 1] = g[k + 1]
    OBVIOUS
  <2>1. k + 1 \in 1 .. m /\ k + 1 \in 1 .. n /\ (k + 1) - 1 = k
    OBVIOUS
  <2>2. f[k + 1] = x * f[k] /\ g[k + 1] = x * g[k]
    BY <2>1 DEF PowersTo
  <2>3. f[k] = g[k]
    BY <1>2
  <2> QED
    BY <2>2, <2>3
<1> HIDE DEF S
<1>3. \A k \in Nat : k \in S
  BY <1>1, <1>2, Induction
<1> QED
  BY <1>3 DEF S

\* All powers can be listed, so that the recursive function exists.
LEMMA PowerDefined ==
    ASSUME NEW x \in Nat
    PROVE  \E p \in [Nat -> Nat] :
              p = [k \in Nat |-> IF k = 0 THEN 1 ELSE x * p[k - 1]]
<1> DEFINE C(n) == CHOOSE f : PowersTo(x, f, n)
<1>1. \A n \in Nat : PowersTo(x, C(n), n)
  BY PowersListed, Zenon
<1> HIDE DEF C
<1> DEFINE p == [n \in Nat |-> C(n)[n]]
<1>2. p \in [Nat -> Nat]
  <2>1. ASSUME NEW n \in Nat PROVE C(n)[n] \in Nat
    <3>1. PowersTo(x, C(n), n)
      BY <1>1
    <3> QED
      BY <3>1 DEF PowersTo
  <2> QED
    BY <2>1
<1>3. p[0] = 1
  <2>1. PowersTo(x, C(0), 0)
    BY <1>1
  <2> QED
    BY <2>1 DEF PowersTo
<1>4. ASSUME NEW k \in Nat, k # 0 PROVE p[k] = x * p[k - 1]
  <2>1. k - 1 \in Nat /\ k \in 1 .. k
    BY <1>4
  <2>2. PowersTo(x, C(k), k) /\ PowersTo(x, C(k - 1), k - 1)
    BY <1>1, <2>1
  <2>3. C(k)[k] = x * C(k)[k - 1]
    BY <2>1, <2>2 DEF PowersTo
  <2>4. C(k)[k - 1] = C(k - 1)[k - 1]
    BY <2>1, <2>2, PowersAgree
  <2> QED
    BY <2>1, <2>3, <2>4
<1> HIDE DEF p
<1>5. p = [k \in Nat |-> IF k = 0 THEN 1 ELSE x * p[k - 1]]
  BY <1>2, <1>3, <1>4
<1> QED
  BY <1>2, <1>5

\* What a power is.
LEMMA PowLaws ==
    ASSUME NEW x \in Nat
    PROVE  /\ Pow(x, 0) = 1
           /\ \A n \in Nat : Pow(x, n + 1) = x * Pow(x, n)
           /\ \A n \in Nat : Pow(x, n) \in Nat
<1> DEFINE p == CHOOSE p : p = [k \in Nat |-> IF k = 0 THEN 1 ELSE x * p[k - 1]]
<1>1. p = [k \in Nat |-> IF k = 0 THEN 1 ELSE x * p[k - 1]]
  <2>1. \E q : q = [k \in Nat |-> IF k = 0 THEN 1 ELSE x * q[k - 1]]
    BY PowerDefined, Zenon
  <2> QED
    BY <2>1, Zenon
<1>2. \A n : Pow(x, n) = p[n]
  BY Zenon DEF Pow
<1> HIDE DEF p
<1>3. p[0] = 1 /\ \A n \in Nat : p[n + 1] = x * p[n]
  <2>1. p[0] = 1
    BY <1>1
  <2>2. ASSUME NEW n \in Nat PROVE p[n + 1] = x * p[n]
    <3>1. n + 1 \in Nat /\ n + 1 # 0 /\ (n + 1) - 1 = n
      OBVIOUS
    <3>2. p[n + 1] = x * p[(n + 1) - 1]
      BY <1>1, <3>1
    <3> QED
      BY <3>1, <3>2
  <2> QED
    BY <2>1, <2>2
<1> DEFINE S == {n \in Nat : p[n] \in Nat}
<1>4. 0 \in S
  BY <1>3
<1>5. ASSUME NEW n \in Nat, n \in S PROVE n + 1 \in S
  <2>1. p[n] \in Nat /\ p[n + 1] = x * p[n]
    BY <1>3, <1>5
  <2> QED
    BY <2>1
<1> HIDE DEF S
<1>6. \A n \in Nat : n \in S
  BY <1>4, <1>5, Induction
<1>7. \A n \in Nat : p[n] \in Nat
  BY <1>6 DEF S
<1> QED
  BY <1>2, <1>3, <1>7

\* Powers are positive.
LEMMA PowPositive ==
    ASSUME NEW x \in Nat \ {0}
    PROVE  \A n \in Nat : Pow(x, n) \in Nat \ {0}
<1> DEFINE S == {n \in Nat : Pow(x, n) \in Nat \ {0}}
<1>1. 0 \in S
  BY PowLaws
<1>2. ASSUME NEW n \in Nat, n \in S PROVE n + 1 \in S
  <2> DEFINE y == Pow(x, n)
  <2>1. y \in Nat \ {0} /\ Pow(x, n + 1) = x * y
    BY <1>2, PowLaws
  <2> HIDE DEF y
  <2>2. x * y \in Nat \ {0}
    BY <2>1
  <2> QED
    BY <2>1, <2>2
<1> HIDE DEF S
<1>3. \A n \in Nat : n \in S
  BY <1>1, <1>2, Induction
<1> QED
  BY <1>3 DEF S

\* Exponents add.
LEMMA PowAdd ==
    ASSUME NEW x \in Nat, NEW m \in Nat
    PROVE  \A n \in Nat : Pow(x, m + n) = Pow(x, m) * Pow(x, n)
<1> DEFINE S == {n \in Nat : Pow(x, m + n) = Pow(x, m) * Pow(x, n)}
<1>1. 0 \in S
  <2>1. Pow(x, 0) = 1 /\ Pow(x, m) \in Nat /\ m + 0 = m
    BY PowLaws
  <2> QED
    BY <2>1
<1>2. ASSUME NEW n \in Nat, n \in S PROVE n + 1 \in S
  <2> DEFINE a == Pow(x, m)
             b == Pow(x, n)
  <2>1. a \in Nat /\ b \in Nat /\ Pow(x, n + 1) = x * b
    BY PowLaws
  <2>2. Pow(x, (m + n) + 1) = x * Pow(x, m + n) /\ m + (n + 1) = (m + n) + 1
    BY PowLaws
  <2>3. Pow(x, m + n) = a * b
    BY <1>2
  <2>4. Pow(x, m + (n + 1)) = x * (a * b)
    BY <2>2, <2>3
  <2> HIDE DEF a, b
  <2>5. x * (a * b) = a * (x * b)
    BY <2>1
  <2>6. Pow(x, m + (n + 1)) = a * Pow(x, n + 1)
    BY <2>1, <2>4, <2>5
  <2> QED
    BY <2>6 DEF a
<1> HIDE DEF S
<1>3. \A n \in Nat : n \in S
  BY <1>1, <1>2, Induction
<1> QED
  BY <1>3 DEF S

\* Products keep the order of one factor.
LEMMA TimesLeq ==
    ASSUME NEW a \in Int, NEW b \in Int, NEW c \in Nat, a <= b
    PROVE  a * c <= b * c
OBVIOUS

\* Products keep the order of both factors.
LEMMA TimesBoth ==
    ASSUME NEW a \in Nat, NEW b \in Nat, NEW c \in Nat, NEW d \in Nat, a <= b, c <= d
    PROVE  a * c <= b * d
<1>1. a * c <= b * c
  BY TimesLeq
<1>2. c * b <= d * b
  BY TimesLeq
<1> QED
  BY <1>1, <1>2

\* A positive factor can be cancelled.
LEMMA TimesCancel ==
    ASSUME NEW a \in Int, NEW b \in Int, NEW c \in Nat \ {0}
    PROVE  /\ a * c <= b * c => a <= b
           /\ a * c < b * c => a < b
           /\ a * c = b * c => a = b
<1>1. ASSUME b < a PROVE b * c < a * c
  <2>1. (b + 1) * c <= a * c
    BY <1>1, TimesLeq
  <2>2. (b + 1) * c = b * c + c
    OBVIOUS
  <2> QED
    BY <2>1, <2>2
<1>2. ASSUME a < b PROVE a * c < b * c
  <2>1. (a + 1) * c <= b * c
    BY <1>2, TimesLeq
  <2>2. (a + 1) * c = a * c + c
    OBVIOUS
  <2> QED
    BY <2>1, <2>2
<1> QED
  BY <1>1, <1>2

\* Powers grow with the exponent.
LEMMA PowMonotone ==
    ASSUME NEW x \in Nat \ {0}, NEW m \in Nat, NEW n \in Nat, m <= n
    PROVE  Pow(x, m) <= Pow(x, n)
<1> DEFINE a == Pow(x, m)
           b == Pow(x, n - m)
<1>1. n - m \in Nat /\ m + (n - m) = n
  OBVIOUS
<1>2. a \in Nat \ {0} /\ b \in Nat \ {0} /\ Pow(x, n) = a * b
  BY <1>1, PowPositive, PowAdd
<1> HIDE DEF a, b
<1>3. 1 * a <= b * a
  BY <1>2, TimesLeq
<1>4. a <= a * b
  BY <1>2, <1>3
<1> QED
  BY <1>2, <1>4 DEF a

\* Powers of two outgrow their exponents.
LEMMA TwoAbove == \A n \in Nat : n < Pow(2, n)
<1> DEFINE S == {n \in Nat : n < Pow(2, n)}
<1>1. 0 \in S
  BY PowLaws
<1>2. ASSUME NEW n \in Nat, n \in S PROVE n + 1 \in S
  <2>1. Pow(2, n + 1) = 2 * Pow(2, n) /\ Pow(2, n) \in Nat /\ n < Pow(2, n)
    BY <1>2, PowLaws
  <2> QED
    BY <2>1
<1> HIDE DEF S
<1>3. \A n \in Nat : n \in S
  BY <1>1, <1>2, Induction
<1> QED
  BY <1>3 DEF S

-----------------------------------------------------------------------------
(***************************************************************************)
(* Division and rounding to the nearest integer.                           *)
(***************************************************************************)

\* A quotient and its rest.
LEMMA Division ==
    ASSUME NEW n \in Nat, NEW d \in Nat \ {0}
    PROVE  /\ n \div d \in Nat /\ n % d \in 0 .. d - 1
           /\ n = (n \div d) * d + (n % d)
<1>1. n \div d \in Nat
  OBVIOUS
<1>2. n % d \in 0 .. d - 1
  OBVIOUS
<1>3. n = (n \div d) * d + (n % d)
  OBVIOUS
<1> QED
  BY <1>1, <1>2, <1>3

\* Nearest is within half of its divisor, and even if exactly half-way.
LEMMA NearestFacts ==
    ASSUME NEW n \in Nat, NEW d \in Nat \ {0}
    PROVE  LET z == Nearest(n, d) IN
           /\ z \in Nat
           /\ 2 * (z * d) <= 2 * n + d /\ 2 * n <= 2 * (z * d) + d
           /\ 2 * (z * d) = 2 * n + d \/ 2 * n = 2 * (z * d) + d => z % 2 = 0
<1> DEFINE z == Nearest(n, d)
<1>1. PICK q \in Nat, r \in 0 .. d - 1 :
         q = n \div d /\ r = n % d /\ n = q * d + r
  BY Division
<1>2. (q + 1) * d = q * d + d /\ q * d \in Nat
  OBVIOUS
<1>3. CASE 2 * r > d \/ (2 * r = d /\ q % 2 = 1)
  <2>1. z = q + 1
    BY <1>1, <1>3 DEF Nearest
  <2>2. z * d = q * d + d
    BY <1>2, <2>1
  <2> HIDE DEF z
  <2>3. q % 2 = 1 => z % 2 = 0
    BY <2>1
  <2> QED
    BY <1>1, <1>2, <1>3, <2>1, <2>2, <2>3 DEF z
<1>4. CASE ~(2 * r > d \/ (2 * r = d /\ q % 2 = 1))
  <2>1. z = q
    BY <1>1, <1>4 DEF Nearest
  <2>2. q % 2 \in {0, 1}
    OBVIOUS
  <2> HIDE DEF z
  <2> QED
    BY <1>1, <1>2, <1>4, <2>1, <2>2 DEF z
<1> QED
  BY <1>3, <1>4

\* A larger quotient is not rounded to a smaller integer.
LEMMA NearestMonotone ==
    ASSUME NEW n \in Nat, NEW d \in Nat \ {0}, NEW m \in Nat, NEW c \in Nat \ {0},
           n * c <= m * d
    PROVE  Nearest(n, d) <= Nearest(m, c)
<1> DEFINE z == Nearest(n, d)
           y == Nearest(m, c)
<1>1. /\ z \in Nat /\ 2 * (z * d) <= 2 * n + d
      /\ 2 * (z * d) = 2 * n + d => z % 2 = 0
  BY NearestFacts
<1>2. /\ y \in Nat /\ 2 * m <= 2 * (y * c) + c
      /\ 2 * m = 2 * (y * c) + c => y % 2 = 0
  BY NearestFacts
<1> HIDE DEF z, y
<1> SUFFICES ASSUME z >= y + 1 PROVE FALSE
  BY <1>1, <1>2 DEF z, y
<1> DEFINE D == d * c
<1>3. D \in Nat \ {0}
  OBVIOUS
<1>4. (2 * (z * d)) * c <= (2 * n + d) * c /\ (2 * m) * d <= (2 * (y * c) + c) * d
  BY <1>1, <1>2, TimesLeq
<1>5. /\ (2 * (z * d)) * c = 2 * (z * D) /\ (2 * n + d) * c = 2 * (n * c) + D
      /\ (2 * m) * d = 2 * (m * d) /\ (2 * (y * c) + c) * d = 2 * (y * D) + D
  BY <1>1, <1>2
<1>6. (y + 1) * D <= z * D /\ (y + 1) * D = y * D + D
  BY <1>1, <1>2, <1>3, TimesLeq
<1>7. n * c \in Nat /\ m * d \in Nat /\ y * D \in Nat /\ z * D \in Nat
  BY <1>1, <1>2, <1>3
<1>8. 2 * (z * D) = 2 * (n * c) + D /\ 2 * (m * d) = 2 * (y * D) + D /\ z * D = (y + 1) * D
  <2> HIDE DEF D
  <2> QED
    BY <1>3, <1>4, <1>5, <1>6, <1>7
<1>9. z = y + 1
  BY <1>1, <1>2, <1>3, <1>8, TimesCancel
<1>10. (2 * (z * d)) * c = (2 * n + d) * c /\ (2 * m) * d = (2 * (y * c) + c) * d
  BY <1>5, <1>8
<1>11. 2 * (z * d) = 2 * n + d /\ 2 * m = 2 * (y * c) + c
  BY <1>1, <1>2, <1>10, TimesCancel
<1>12. z % 2 = 0 /\ y % 2 = 0
  BY <1>1, <1>2, <1>11
<1> QED
  BY <1>1, <1>2, <1>9, <1>12

\* What is a multiple is not rounded.
LEMMA NearestExact ==
    ASSUME NEW m \in Nat, NEW d \in Nat \ {0}
    PROVE  Nearest(m * d, d) = m
<1> DEFINE z == Nearest(m * d, d)
<1>1. m * d \in Nat
  OBVIOUS
<1>2. z \in Nat /\ 2 * (z * d) <= 2 * (m * d) + d /\ 2 * (m * d) <= 2 * (z * d) + d
  BY <1>1, NearestFacts
<1> HIDE DEF z
<1>3. ~(m >= z + 1)
  <2> SUFFICES ASSUME m >= z + 1 PROVE FALSE
    OBVIOUS
  <2>1. (z + 1) * d <= m * d /\ (z + 1) * d = z * d + d
    BY <1>2, TimesLeq
  <2> QED
    BY <1>1, <1>2, <2>1
<1>4. ~(z >= m + 1)
  <2> SUFFICES ASSUME z >= m + 1 PROVE FALSE
    OBVIOUS
  <2>1. (m + 1) * d <= z * d /\ (m + 1) * d = m * d + d
    BY <1>2, TimesLeq
  <2> QED
    BY <1>1, <1>2, <2>1
<1> QED
  BY <1>2, <1>3, <1>4 DEF z

\* A quotient is below an integer exactly if the dividend is below its multiple.
LEMMA QuotientBelow ==
    ASSUME NEW n \in Nat, NEW d \in Nat \ {0}, NEW v \in Nat
    PROVE  n \div d < v <=> n < d * v
<1>1. PICK q \in Nat, r \in 0 .. d - 1 : q = n \div d /\ n = q * d + r
  BY Division
<1>2. CASE q < v
  <2>1. (q + 1) * d <= v * d /\ (q + 1) * d = q * d + d /\ v * d = d * v
    BY <1>2, TimesLeq
  <2>2. q * d \in Nat /\ v * d \in Nat
    OBVIOUS
  <2> QED
    BY <1>1, <1>2, <2>1, <2>2
<1>3. CASE q >= v
  <2>1. v * d <= q * d /\ v * d = d * v
    BY <1>3, TimesLeq
  <2>2. q * d \in Nat /\ v * d \in Nat
    OBVIOUS
  <2> QED
    BY <1>1, <1>3, <2>1, <2>2
<1> QED
  BY <1>2, <1>3

-----------------------------------------------------------------------------
(***************************************************************************)
(* Floating-point numbers.                                                 *)
(***************************************************************************)

\* Significands are below U, and those of normal numbers not below Half.
U == Pow(2, Bits)
Half == Pow(2, Bits - 1)

\* There are at least three bits, and half of U is Half.
LEMMA BitsFacts ==
    /\ U \in Nat /\ Half \in Nat \ {0} /\ U = 2 * Half /\ U >= 8
    /\ Bits \in Nat \ {0} /\ Bits - 1 \in Nat
<1>1. Bits \in Nat /\ Bits - 1 \in Nat /\ 3 <= Bits /\ (Bits - 1) + 1 = Bits
  BY FloatAssumption
<1>2. Half \in Nat \ {0} /\ Pow(2, (Bits - 1) + 1) = 2 * Half
  BY <1>1, PowPositive, PowLaws DEF Half
<1>3. Pow(2, 3) = 8
  <2>1. Pow(2, 0) = 1 /\ Pow(2, 0 + 1) = 2 * Pow(2, 0)
        /\ Pow(2, 1 + 1) = 2 * Pow(2, 1) /\ Pow(2, 2 + 1) = 2 * Pow(2, 2)
    BY PowLaws
  <2>2. 0 + 1 = 1 /\ 1 + 1 = 2 /\ 2 + 1 = 3
    OBVIOUS
  <2> QED
    BY <2>1, <2>2
<1>4. Pow(2, 3) <= U
  BY <1>1, PowMonotone DEF U
<1> QED
  BY <1>1, <1>2, <1>3, <1>4 DEF U

\* The scales of the exponents.
LEMMA UnitFacts ==
    ASSUME NEW e \in Nat
    PROVE  /\ Pow(2, e) \in Nat \ {0}
           /\ Pow(2, Bits + e) = U * Pow(2, e)
           /\ Pow(2, Bits + e - 1) = Half * Pow(2, e)
<1>1. Bits + e - 1 = (Bits - 1) + e
  BY BitsFacts
<1>2. Pow(2, e) \in Nat \ {0}
  BY PowPositive
<1>3. Pow(2, Bits + e) = U * Pow(2, e)
  BY PowAdd, BitsFacts DEF U
<1>4. Pow(2, (Bits - 1) + e) = Half * Pow(2, e)
  BY PowAdd, BitsFacts DEF Half
<1> QED
  BY <1>1, <1>2, <1>3, <1>4

\* Every natural number has an exponent.
LEMMA ExponentFacts ==
    ASSUME NEW q \in Nat
    PROVE  /\ Exponent(q) \in Nat
           /\ q < U * Pow(2, Exponent(q))
           /\ Exponent(q) > 0 => q >= Half * Pow(2, Exponent(q))
<1> DEFINE Fits(e) == /\ q < Pow(2, Bits + e)
                      /\ e > 0 => q >= Pow(2, Bits + e - 1)
           T == {e \in Nat : q < Pow(2, Bits + e)}
<1>1. q \in T
  <2>1. Bits + q \in Nat /\ q <= Bits + q
    BY BitsFacts
  <2>2. Pow(2, q) <= Pow(2, Bits + q) /\ Pow(2, q) \in Nat /\ Pow(2, Bits + q) \in Nat
    BY <2>1, PowMonotone, PowPositive
  <2> QED
    BY <2>2, TwoAbove
<1>2. PICK e \in T : \A k \in T : e <= k
  <2>1. T \subseteq Nat /\ T # {}
    BY <1>1
  <2> HIDE DEF T
  <2> QED
    BY <2>1, LeastNat
<1>3. e \in 0 .. q /\ Fits(e)
  <2>1. e \in Nat /\ e <= q
    BY <1>1, <1>2
  <2>2. ASSUME e > 0 PROVE q >= Pow(2, Bits + e - 1)
    <3>1. e - 1 \in Nat /\ e - 1 \notin T /\ Bits + (e - 1) = Bits + e - 1
      BY <1>2, <2>1, <2>2, BitsFacts
    <3>2. Pow(2, Bits + (e - 1)) \in Nat
      BY <3>1, BitsFacts, PowPositive
    <3> QED
      BY <3>1, <3>2
  <2> QED
    BY <2>1, <2>2
<1> HIDE DEF Fits, T
<1>4. Exponent(q) \in 0 .. q /\ Fits(Exponent(q))
  <2>1. Exponent(q) = CHOOSE i \in 0 .. q : Fits(i)
    BY Zenon DEF Exponent, Fits
  <2> QED
    BY <1>3, <2>1, Zenon
<1> QED
  BY <1>4, UnitFacts DEF Fits

\* The exponent is the least one whose scale is large enough.
LEMMA ExponentLeast ==
    ASSUME NEW q \in Nat, NEW e \in Nat, q < U * Pow(2, e)
    PROVE  Exponent(q) <= e
<1> DEFINE E == Exponent(q)
<1>1. E \in Nat /\ (E > 0 => q >= Pow(2, Bits + E - 1)) /\ q < Pow(2, Bits + e)
  BY ExponentFacts, UnitFacts
<1> HIDE DEF E
<1> SUFFICES ASSUME E > e PROVE FALSE
  BY <1>1 DEF E
<1>2. Bits + e \in Nat /\ Bits + E - 1 \in Nat /\ Bits + e <= Bits + E - 1
  BY <1>1, BitsFacts
<1>3. Pow(2, Bits + e) <= Pow(2, Bits + E - 1)
      /\ Pow(2, Bits + e) \in Nat /\ Pow(2, Bits + E - 1) \in Nat
  BY <1>2, PowMonotone, PowPositive
<1> QED
  BY <1>1, <1>3

\* It is not below one whose scale a normal number reaches.
LEMMA ExponentMost ==
    ASSUME NEW q \in Nat, NEW e \in Nat, Half * Pow(2, e) <= q
    PROVE  e <= Exponent(q)
<1> DEFINE E == Exponent(q)
<1>1. E \in Nat /\ q < Pow(2, Bits + E) /\ Pow(2, Bits + e - 1) <= q
  BY ExponentFacts, UnitFacts
<1> HIDE DEF E
<1> SUFFICES ASSUME e > E PROVE FALSE
  BY <1>1 DEF E
<1>2. Bits + E \in Nat /\ Bits + e - 1 \in Nat /\ Bits + E <= Bits + e - 1
  BY <1>1, BitsFacts
<1>3. Pow(2, Bits + E) <= Pow(2, Bits + e - 1)
      /\ Pow(2, Bits + E) \in Nat /\ Pow(2, Bits + e - 1) \in Nat
  BY <1>2, PowMonotone, PowPositive
<1> QED
  BY <1>1, <1>3

\* n / d has significand c at exponent e, before rounding x = n / d to c * 2^e.
Represents(n, d, e, c) ==
    LET unit == Pow(2, e) IN
    /\ n < d * (U * unit)
    /\ e > 0 => d * (Half * unit) <= n
    /\ c = Nearest(n, d * unit)
    /\ 2 * (c * (d * unit)) <= 2 * n + d * unit
    /\ 2 * n <= 2 * (c * (d * unit)) + d * unit
    /\ c <= U
    /\ d * (Half * unit) <= n => c >= Half

\* Every quotient is rounded to a significand at its exponent.
LEMMA RoundedFacts ==
    ASSUME NEW n \in Nat, NEW d \in Nat \ {0}
    PROVE  \E e \in Nat, c \in Nat :
              /\ e = Exponent(n \div d) /\ Rounded(n, d) = c * Pow(2, e)
              /\ Represents(n, d, e, c)
<1> DEFINE q == n \div d
           e == Exponent(q)
           unit == Pow(2, e)
           c == Nearest(n, d * unit)
<1>1. q \in Nat
  BY Division
<1>2. e \in Nat /\ q < U * unit /\ (e > 0 => q >= Half * unit)
  BY <1>1, ExponentFacts
<1>3. unit \in Nat \ {0} /\ U \in Nat /\ Half \in Nat \ {0}
  BY <1>2, UnitFacts, BitsFacts
<1>4. Rounded(n, d) = c * unit
  BY Zenon DEF Rounded
<1> HIDE DEF unit, e
<1>5. U * unit \in Nat /\ Half * unit \in Nat /\ d * unit \in Nat \ {0}
  BY <1>3
<1>6. n < d * (U * unit) /\ (e > 0 => ~(n < d * (Half * unit)))
  BY <1>1, <1>2, <1>5, QuotientBelow
<1>7. d * (Half * unit) \in Nat
  BY <1>5
<1>8. /\ c \in Nat
      /\ 2 * (c * (d * unit)) <= 2 * n + d * unit
      /\ 2 * n <= 2 * (c * (d * unit)) + d * unit
  BY <1>5, NearestFacts
<1>9. c <= U
  <2>1. U * (d * unit) = d * (U * unit) /\ U * (d * unit) \in Nat
    BY <1>3, <1>5
  <2>2. n * (d * unit) <= (U * (d * unit)) * (d * unit)
    BY <1>5, <1>6, <2>1, TimesLeq
  <2>3. Nearest(U * (d * unit), d * unit) = U
    BY <1>3, <1>5, NearestExact
  <2> HIDE DEF c
  <2> QED
    BY <1>5, <2>1, <2>2, <2>3, NearestMonotone DEF c
<1>10. ASSUME d * (Half * unit) <= n PROVE c >= Half
  <2>1. Half * (d * unit) = d * (Half * unit) /\ Half * (d * unit) \in Nat
    BY <1>3, <1>5
  <2>2. (Half * (d * unit)) * (d * unit) <= n * (d * unit)
    BY <1>5, <1>10, <2>1, TimesLeq
  <2>3. Nearest(Half * (d * unit), d * unit) = Half
    BY <1>3, <1>5, NearestExact
  <2>4. Half <= c
    BY <1>5, <2>1, <2>2, <2>3, NearestMonotone
  <2> HIDE DEF c
  <2> QED
    BY <1>3, <1>8, <2>4
<1>11. Represents(n, d, e, c)
  <2> HIDE DEF c
  <2>1. c = Nearest(n, d * unit)
    BY DEF c
  <2>2. e > 0 => d * (Half * unit) <= n
    BY <1>6, <1>7
  <2> QED
    BY <1>6, <1>8, <1>9, <1>10, <2>1, <2>2 DEF Represents, unit
<1> QED
  BY <1>2, <1>4, <1>8, <1>11 DEF unit, e

\* Rounding keeps order.
LEMMA RoundedMonotone ==
    ASSUME NEW n \in Nat, NEW d \in Nat \ {0}, NEW m \in Nat, NEW c \in Nat \ {0},
           n * c <= m * d
    PROVE  Rounded(n, d) <= Rounded(m, c)
<1> PICK e \in Nat, a \in Nat : Rounded(n, d) = a * Pow(2, e) /\ Represents(n, d, e, a)
  BY RoundedFacts
<1> PICK f \in Nat, b \in Nat : Rounded(m, c) = b * Pow(2, f) /\ Represents(m, c, f, b)
  BY RoundedFacts
<1> DEFINE u == Pow(2, e)
           v == Pow(2, f)
<1>1. u \in Nat \ {0} /\ v \in Nat \ {0} /\ U \in Nat /\ Half \in Nat \ {0}
  BY UnitFacts, BitsFacts
<1>2. CASE e = f
  <2>1. a = Nearest(n, d * u) /\ b = Nearest(m, c * u)
    BY <1>2 DEF Represents
  <2> HIDE DEF u
  <2>2. d * u \in Nat \ {0} /\ c * u \in Nat \ {0}
    BY <1>1
  <2>3. (n * c) * u <= (m * d) * u
    BY <1>1, TimesLeq
  <2>4. (n * c) * u = n * (c * u) /\ (m * d) * u = m * (d * u)
    BY <1>1
  <2>5. a <= b
    BY <2>1, <2>2, <2>3, <2>4, NearestMonotone
  <2>6. a * u <= b * u
    BY <1>1, <2>5, TimesLeq
  <2> QED
    BY <1>2, <2>6 DEF u
<1>3. CASE e < f
  <2>1. Bits + e \in Nat /\ Bits + f - 1 \in Nat /\ Bits + e <= Bits + f - 1
    BY <1>3, BitsFacts
  <2>2. U * u <= Half * v
    BY <2>1, PowMonotone, UnitFacts
  <2>3. a <= U /\ Half <= b
    BY <1>3 DEF Represents
  <2> HIDE DEF u, v
  <2>4. a * u <= U * u /\ Half * v <= b * v
    BY <1>1, <2>3, TimesLeq
  <2>5. a * u \in Nat /\ U * u \in Nat /\ Half * v \in Nat /\ b * v \in Nat
    BY <1>1
  <2>6. a * u <= b * v
    BY <2>2, <2>4, <2>5
  <2> QED
    BY <2>6 DEF u, v
<1>4. CASE e > f
  <2>1. Bits + f \in Nat /\ Bits + e - 1 \in Nat /\ Bits + f <= Bits + e - 1
    BY <1>4, BitsFacts
  <2>2. U * v <= Half * u
    BY <2>1, PowMonotone, UnitFacts
  <2>3. d * (Half * u) <= n /\ m < c * (U * v)
    BY <1>4 DEF Represents
  <2> DEFINE h == Half * u
             w == U * v
  <2>4. h \in Nat /\ w \in Nat /\ d * h <= n /\ m < c * w /\ w <= h
    BY <1>1, <2>2, <2>3
  <2> HIDE DEF h, w
  <2>5. d * h \in Nat /\ c * w \in Nat /\ c * h \in Nat
    BY <2>4
  <2>6. c * w <= c * h
    <3>1. w * c <= h * c
      BY <2>4, TimesLeq
    <3> QED
      BY <2>4, <3>1
  <2>7. (d * h) * c <= n * c
    BY <2>4, <2>5, TimesLeq
  <2>8. (m + 1) * d <= (c * h) * d
    BY <2>4, <2>5, <2>6, TimesLeq
  <2>9. (c * h) * d = (d * h) * c /\ (m + 1) * d = m * d + d
    BY <2>4
  <2>10. (d * h) * c \in Nat /\ n * c \in Nat /\ m * d \in Nat
    BY <2>5
  <2> QED
    BY <2>7, <2>8, <2>9, <2>10
<1> QED
  BY <1>2, <1>3, <1>4

\* A significand below U at any exponent is not rounded.
LEMMA RoundedBelow ==
    ASSUME NEW e \in Nat, NEW c \in Nat, c < U
    PROVE  Rounded(c * Pow(2, e), 1) = c * Pow(2, e)
<1> DEFINE u == Pow(2, e)
           x == c * u
<1>1. u \in Nat \ {0} /\ U \in Nat
  BY UnitFacts, BitsFacts
<1>2. x \in Nat /\ x < U * u
  <2> HIDE DEF u
  <2>1. (c + 1) * u <= U * u /\ (c + 1) * u = c * u + u
    BY <1>1, TimesLeq
  <2>2. c * u \in Nat /\ U * u \in Nat
    BY <1>1
  <2> QED
    BY <1>1, <2>1, <2>2
<1> HIDE DEF x
<1> PICK f \in Nat, b \in Nat : /\ f = Exponent(x \div 1) /\ Rounded(x, 1) = b * Pow(2, f)
                                /\ Represents(x, 1, f, b)
  <2>1. 1 \in Nat \ {0}
    OBVIOUS
  <2> QED
    BY <1>2, <2>1, RoundedFacts
<1>3. x \div 1 = x
  BY <1>2
<1>4. f <= e
  BY <1>2, <1>3, ExponentLeast
<1> DEFINE v == Pow(2, f)
           w == Pow(2, e - f)
<1>5. e - f \in Nat /\ f + (e - f) = e
  BY <1>4
<1>6. v \in Nat \ {0} /\ w \in Nat \ {0} /\ u = v * w
  BY <1>5, PowPositive, PowAdd
<1>7. b = Nearest(x, 1 * v)
  BY DEF Represents
<1> HIDE DEF u, v, w
<1>8. x = (c * w) * v /\ c * w \in Nat /\ 1 * v = v
  BY <1>6 DEF x
<1>9. b = c * w
  BY <1>6, <1>7, <1>8, NearestExact
<1> QED
  BY <1>8, <1>9 DEF u, v, x

\* Neither is U itself, which is Half at the next exponent.
LEMMA RoundedExact ==
    ASSUME NEW e \in Nat, NEW c \in Nat, c <= U
    PROVE  Rounded(c * Pow(2, e), 1) = c * Pow(2, e)
<1>1. CASE c < U
  BY <1>1, RoundedBelow
<1>2. CASE c = U
  <2> DEFINE u == Pow(2, e)
             v == Pow(2, e + 1)
  <2>1. u \in Nat \ {0} /\ v = 2 * u
    BY UnitFacts, PowLaws
  <2>2. Half \in Nat /\ Half < U /\ e + 1 \in Nat /\ U = 2 * Half
    BY BitsFacts
  <2>3. Rounded(Half * v, 1) = Half * v
    BY <2>2, RoundedBelow
  <2> HIDE DEF u, v
  <2>4. Half * v = c * u
    BY <1>2, <2>1, <2>2
  <2> QED
    BY <2>3, <2>4 DEF u
<1> QED
  BY <1>1, <1>2, BitsFacts

\* What is rounded is a floating-point number.
LEMMA RoundedTwice ==
    ASSUME NEW n \in Nat, NEW d \in Nat \ {0}
    PROVE  Rounded(n, d) \in Nat /\ Rounded(Rounded(n, d), 1) = Rounded(n, d)
<1> PICK e \in Nat, c \in Nat : Rounded(n, d) = c * Pow(2, e) /\ Represents(n, d, e, c)
  BY RoundedFacts
<1>1. c <= U /\ Pow(2, e) \in Nat
  BY UnitFacts DEF Represents
<1>2. c * Pow(2, e) \in Nat
  BY <1>1
<1> QED
  BY <1>1, <1>2, RoundedExact

\* x is a within one part in U.
Near(x, a) == U * x <= U * a + a /\ U * a <= U * x + a

\* Where all bits of the result are used, rounding errs by less than one part in
\* U, and where not, by half a quantum.
LEMMA RoundedError ==
    ASSUME NEW n \in Nat, NEW d \in Nat \ {0}
    PROVE  LET y == Rounded(n, d) * d IN
           /\ d = 1 \/ d * Half <= n => Near(y, n)
           /\ \/ Near(y, n)
              \/ 2 * y <= 2 * n + d /\ 2 * n <= 2 * y + d
<1> PICK e \in Nat, c \in Nat : Rounded(n, d) = c * Pow(2, e) /\ Represents(n, d, e, c)
  BY RoundedFacts
<1> DEFINE u == Pow(2, e)
           w == d * u
           y == Rounded(n, d) * d
<1>1. u \in Nat \ {0} /\ U \in Nat /\ Half \in Nat \ {0} /\ U = 2 * Half
  BY UnitFacts, BitsFacts
<1>2. /\ e > 0 => d * (Half * u) <= n
      /\ c = Nearest(n, w)
      /\ 2 * (c * w) <= 2 * n + w
      /\ 2 * n <= 2 * (c * w) + w
  BY DEF Represents
<1>3. y = c * w /\ w \in Nat \ {0} /\ d * (Half * u) = Half * w
  BY <1>1
<1>4. y \in Nat /\ 2 * y <= 2 * n + w /\ 2 * n <= 2 * y + w
  <2> HIDE DEF y, w
  <2> QED
    BY <1>2, <1>3
<1> HIDE DEF y
<1>5. ASSUME Half * w <= n PROVE Near(y, n)
  <2> HIDE DEF w
  <2>1. U * w <= 2 * n
    BY <1>1, <1>3, <1>5
  <2>2. (2 * y) * U <= (2 * n + w) * U /\ (2 * n) * U <= (2 * y + w) * U
    BY <1>1, <1>3, <1>4, TimesLeq
  <2>3. /\ (2 * y) * U = 2 * (U * y) /\ (2 * n + w) * U = 2 * (U * n) + U * w
        /\ (2 * n) * U = 2 * (U * n) /\ (2 * y + w) * U = 2 * (U * y) + U * w
    BY <1>1, <1>3, <1>4
  <2>4. U * y \in Nat /\ U * n \in Nat /\ U * w \in Nat
    BY <1>1, <1>3, <1>4
  <2> QED
    BY <2>1, <2>2, <2>3, <2>4 DEF Near
<1>6. CASE e > 0
  BY <1>2, <1>3, <1>5, <1>6 DEF y
<1>7. CASE e = 0
  <2>1. w = d
    BY <1>7, PowLaws
  <2>2. ASSUME d = 1 PROVE Near(y, n)
    <3>1. Nearest(n * 1, 1) = n
      BY NearestExact
    <3>2. y = n
      BY <1>2, <1>3, <2>1, <2>2, <3>1
    <3>3. U * n \in Nat
      BY <1>1
    <3> QED
      BY <3>2, <3>3 DEF Near
  <2>3. d * Half = Half * d
    BY <1>1
  <2> HIDE DEF w
  <2> QED
    BY <1>4, <1>5, <2>1, <2>2, <2>3 DEF y
<1> QED
  BY <1>6, <1>7

\* 1.0 is a normal number, a power of two.
LEMMA OneFacts ==
    /\ One \in Nat \ {0} /\ Half <= One /\ Rounded(One, 1) = One
    /\ \E g \in Nat : One = Half * Pow(2, g)
<1> PICK a \in Bits - 1 .. One : One = Pow(2, a)
  BY FloatAssumption
<1> DEFINE g == a - (Bits - 1)
<1>1. a \in Nat /\ g \in Nat /\ (Bits - 1) + g = a /\ Bits - 1 <= a
  BY BitsFacts, FloatAssumption
<1>2. One = Half * Pow(2, g)
  BY <1>1, BitsFacts, PowAdd DEF Half
<1>3. Half <= One /\ One \in Nat \ {0}
  BY <1>1, BitsFacts, PowMonotone, PowPositive DEF Half
<1>4. Rounded(Half * Pow(2, g), 1) = Half * Pow(2, g)
  BY <1>1, BitsFacts, RoundedExact
<1> HIDE DEF g
<1> QED
  BY <1>1, <1>2, <1>3, <1>4

\* Zero is zero.
LEMMA RoundedZero ==
    ASSUME NEW d \in Nat \ {0}
    PROVE  Rounded(0, d) = 0
<1> DEFINE x == Rounded(0, d)
<1> PICK e \in Nat, c \in Nat : x = c * Pow(2, e) /\ Represents(0, d, e, c)
  BY RoundedFacts
<1>1. Pow(2, e) \in Nat \ {0} /\ c = Nearest(0, d * Pow(2, e))
  BY UnitFacts DEF Represents
<1>2. d * Pow(2, e) \in Nat \ {0}
  BY <1>1
<1>3. Nearest(0 * (d * Pow(2, e)), d * Pow(2, e)) = 0
  BY <1>2, NearestExact
<1>4. 0 * (d * Pow(2, e)) = 0
  BY <1>2
<1>5. c = 0
  BY <1>1, <1>3, <1>4
<1> QED
  BY <1>1, <1>5

\* A quotient of at least a floating-point number is rounded to no less.
LEMMA RoundedAtLeast ==
    ASSUME NEW n \in Nat, NEW d \in Nat \ {0}, NEW x \in Nat, Rounded(x, 1) = x,
           x * d <= n
    PROVE  x <= Rounded(n, d)
<1>1. 1 \in Nat \ {0} /\ n * 1 = n
  OBVIOUS
<1> QED
  BY <1>1, RoundedMonotone

\* A duration in seconds is finite, at least 1.0 unless zero, and near.
LEMMA SecsFacts ==
    ASSUME NEW b \in Durations
    PROVE  LET x == Rounded(b * One, 1) IN
           /\ AsSecsF64(b) = x /\ x \in Nat /\ Rounded(x, 1) = x
           /\ x <= FloatMax /\ Near(x, b * One)
           /\ b = 0 => x = 0
           /\ b # 0 => One <= x
<1> DEFINE n == b * One
           x == Rounded(n, 1)
<1>1. b \in Nat /\ b <= MaxDuration /\ One \in Nat \ {0} /\ MaxDuration \in Nat
      /\ U \in Nat /\ U >= 8
  BY OneFacts, DurationAssumption, BitsFacts DEF Durations
<1>2. n \in Nat /\ 1 \in Nat \ {0}
  BY <1>1
<1>3. x \in Nat /\ Rounded(x, 1) = x
  BY <1>2, RoundedTwice
<1>4. Near(x, n)
  <2>1. Near(x * 1, n)
    BY <1>2, RoundedError
  <2>2. x * 1 = x
    BY <1>3
  <2> QED
    BY <2>1, <2>2
<1>5. b # 0 => One <= x
  <2> SUFFICES ASSUME b # 0 PROVE One <= x
    OBVIOUS
  <2>1. 1 * One <= b * One /\ One * 1 = One /\ 1 * One = One
    BY <1>1, TimesLeq
  <2> QED
    BY <1>1, <1>2, <2>1, OneFacts, RoundedAtLeast
<1>6. b = 0 => x = 0
  BY <1>1, <1>2, RoundedZero
<1>7. x <= 2 * n
  <2> HIDE DEF x, n
  <2>1. U * x <= U * n + n /\ U * x \in Nat /\ U * n \in Nat
    BY <1>1, <1>2, <1>3, <1>4 DEF Near
  <2>2. 1 * n <= U * n
    BY <1>1, <1>2, TimesLeq
  <2>3. x * U <= (2 * n) * U
    BY <1>1, <1>2, <1>3, <2>1, <2>2
  <2> QED
    BY <1>1, <1>2, <1>3, <2>3, TimesCancel
<1>8. x <= FloatMax
  <2>1. b * (2 * One) <= MaxDuration * (2 * One)
    BY <1>1, TimesLeq
  <2>2. 2 * n = b * (2 * One) /\ 2 * MaxDuration * One = MaxDuration * (2 * One)
    BY <1>1
  <2>3. FloatMax \in Nat /\ MaxDuration * (2 * One) <= FloatMax
    BY <2>2, FloatAssumption
  <2> HIDE DEF x, n
  <2>4. MaxDuration * (2 * One) \in Nat
    BY <1>1
  <2> QED
    BY <1>2, <1>3, <1>7, <2>1, <2>2, <2>3, <2>4
<1>9. AsSecsF64(b) = x
  <2>1. AsSecsF64(b) = IF x > FloatMax THEN Inf ELSE x
    BY Zenon DEF AsSecsF64, Float
  <2> HIDE DEF x
  <2> QED
    BY <1>3, <1>8, <2>1, FloatAssumption
<1> QED
  BY <1>3, <1>4, <1>5, <1>6, <1>8, <1>9

\* A rounded quotient, or infinity.
LEMMA FloatFacts ==
    ASSUME NEW n \in Nat, NEW d \in Nat \ {0}
    PROVE  /\ Float(n, d) \in Nat \union {Inf}
           /\ Float(n, d) = IF Rounded(n, d) > FloatMax THEN Inf ELSE Rounded(n, d)
BY RoundedTwice DEF Float

\* The product of two non-negative numbers, NaN among them.
LEMMA TimesTyped ==
    ASSUME NEW x \in Nat, NEW y \in Nat \union {Inf, NaN}
    PROVE  Times(x, y) \in Nat \union {Inf, NaN}
<1>1. CASE y \in Nat
  <2>1. x * y \in Nat
    BY <1>1
  <2>2. Float(x * y, One) \in Nat \union {Inf}
    BY <2>1, OneFacts, FloatFacts
  <2> QED
    BY <1>1, <2>2 DEF Times, Inf, NaN
<1> QED
  BY <1>1 DEF Times, Inf, NaN

\* What is read back from a finite number of seconds.
LEMMA TryFacts ==
    ASSUME NEW x \in Nat
    PROVE  /\ Nearest(x, One) \in Nat
           /\ TryFromSecsF64(x) = IF Nearest(x, One) <= MaxDuration
                                  THEN Nearest(x, One) ELSE None
           /\ TryFromSecsF64(x) \in Durations \union {None}
<1>1. Nearest(x, One) \in Nat
  BY OneFacts, NearestFacts
<1> QED
  BY <1>1, DurationAssumption DEF TryFromSecsF64, Durations

\* A scaled duration is a duration.
LEMMA ScaleTyped ==
    ASSUME NEW d \in Durations, NEW y \in Nat \union {Inf, NaN}
    PROVE  ScaleDuration(d, y) \in Durations
<1> DEFINE s == Times(AsSecsF64(d), y)
<1>1. s \in Nat \union {Inf, NaN}
  BY SecsFacts, TimesTyped
<1>2. MaxDuration \in Durations
  BY DurationAssumption DEF Durations
<1> HIDE DEF s
<1>3. s \in Nat => TryFromSecsF64(s) \in Durations \union {None}
  BY TryFacts
<1>4. ~IsFinite(s) \/ s \in Nat
  BY <1>1 DEF IsFinite, Inf, NaN
<1>5. ScaleDuration(d, y) \in {MaxDuration, TryFromSecsF64(s)}
      /\ (~IsFinite(s) \/ TryFromSecsF64(s) = None => ScaleDuration(d, y) = MaxDuration)
  BY DEF ScaleDuration, s
<1> QED
  BY <1>2, <1>3, <1>4, <1>5

\* A clamped sample is NaN or in 0.0 .. 1.0.
LEMMA ClampTyped ==
    ASSUME NEW x \in Numbers
    PROVE  Clamp(x) \in {NaN} \union 0 .. One
<1>1. One \in Nat
  BY OneFacts
<1>2. x \in {Inf, NaN, Negative} \/ x \in Nat
  BY DEF Numbers
<1> QED
  BY <1>1, <1>2 DEF Clamp, Inf, NaN, Negative

\* An interpolated duration is a duration, between the ends if they are in order.
LEMMA InterpolateFacts ==
    ASSUME NEW lo \in Durations, NEW hi \in Durations, NEW x \in Numbers
    PROVE  /\ Interpolate(lo, hi, x) \in Durations
           /\ lo <= hi => Interpolate(lo, hi, x) \in lo .. hi
           /\ hi <= lo => Interpolate(lo, hi, x) = lo
<1>1. lo \in Nat /\ hi \in Nat /\ lo <= MaxDuration /\ hi <= MaxDuration
      /\ MaxDuration \in Nat
  BY DurationAssumption DEF Durations
<1>2. CASE lo >= hi \/ Clamp(x) = 0 \/ Clamp(x) = One
  BY <1>1, <1>2 DEF Interpolate, Durations
<1>3. CASE ~(lo >= hi \/ Clamp(x) = 0 \/ Clamp(x) = One)
  <2> DEFINE s == ScaleDuration(hi - lo, Clamp(x))
  <2>1. hi - lo \in Durations
    BY <1>1, <1>3 DEF Durations
  <2>2. Clamp(x) \in Nat \union {Inf, NaN}
    BY ClampTyped, OneFacts
  <2>3. s \in Nat
    <3>1. s \in Durations
      BY <2>1, <2>2, ScaleTyped
    <3> HIDE DEF s
    <3> QED
      BY <3>1, DurationAssumption DEF Durations
  <2>4. Interpolate(lo, hi, x) = MinOf(MinOf(lo + s, MaxDuration), hi)
    BY <1>3 DEF Interpolate
  <2> HIDE DEF s
  <2> DEFINE t == MinOf(lo + s, MaxDuration)
  <2>5. t \in Nat /\ lo <= t
    BY <1>1, <2>3 DEF MinOf
  <2> HIDE DEF t
  <2>6. MinOf(t, hi) \in lo .. hi
    BY <1>1, <1>3, <2>5 DEF MinOf
  <2>7. Interpolate(lo, hi, x) \in lo .. hi
    BY <2>4, <2>6 DEF t
  <2>8. lo < hi /\ lo .. hi \subseteq Durations
    BY <1>1, <1>3 DEF Durations
  <2> QED
    BY <1>1, <2>7, <2>8
<1> QED
  BY <1>2, <1>3

-----------------------------------------------------------------------------
(***************************************************************************)
(* Exponential growth.                                                     *)
(***************************************************************************)

\* The k-th power of a multiplier, and a delay times that power, as if there
\* were no largest floating-point number.
Factor(m, k) == Rounded(Pow(m, k), Pow(One, k - 1))
Product(b, m, k) == Rounded(Rounded(b * One, 1) * Factor(m, k), One)

\* Powers grow with the base.
LEMMA PowBase ==
    ASSUME NEW x \in Nat, NEW y \in Nat, x <= y
    PROVE  \A n \in Nat : Pow(x, n) <= Pow(y, n)
<1> DEFINE S == {n \in Nat : Pow(x, n) <= Pow(y, n)}
<1>1. 0 \in S
  BY PowLaws
<1>2. ASSUME NEW n \in Nat, n \in S PROVE n + 1 \in S
  <2> DEFINE a == Pow(x, n)
             b == Pow(y, n)
  <2>1. a \in Nat /\ b \in Nat /\ a <= b /\ Pow(x, n + 1) = x * a /\ Pow(y, n + 1) = y * b
    BY <1>2, PowLaws
  <2> HIDE DEF a, b
  <2>2. x * a <= y * b
    BY <2>1, TimesBoth
  <2> QED
    BY <2>1, <2>2
<1> HIDE DEF S
<1>3. \A n \in Nat : n \in S
  BY <1>1, <1>2, Induction
<1> QED
  BY <1>3 DEF S

\* The power of a multiplier is at least the multiplier, near to the exact power,
\* and grows.
LEMMA FactorFacts ==
    ASSUME NEW m \in Nat, One <= m, Rounded(m, 1) = m, NEW k \in Nat \ {0}
    PROVE  /\ Factor(m, k) \in Nat /\ Rounded(Factor(m, k), 1) = Factor(m, k)
           /\ Powf(m, k) = IF Factor(m, k) > FloatMax THEN Inf ELSE Factor(m, k)
           /\ m <= Factor(m, k)
           /\ Near(Factor(m, k) * Pow(One, k - 1), Pow(m, k))
           /\ Factor(m, k) <= Factor(m, k + 1)
<1> DEFINE p == Pow(m, k - 1)
           o == Pow(One, k - 1)
<1>1. k - 1 \in Nat /\ (k - 1) + 1 = k /\ (k + 1) - 1 = k /\ One \in Nat \ {0}
      /\ Half \in Nat
  BY OneFacts, BitsFacts
<1>2. /\ o \in Nat \ {0} /\ p \in Nat /\ o <= p
      /\ Pow(m, k) = m * p /\ Pow(One, k) = One * o
      /\ Pow(m, k + 1) = m * Pow(m, k)
  BY <1>1, PowPositive, PowLaws, PowBase
<1>3. m * p \in Nat /\ One * o \in Nat \ {0} /\ m * (m * p) \in Nat
  <2> HIDE DEF p, o
  <2>1. m * p \in Nat /\ One * o \in Nat \ {0}
    BY <1>1, <1>2
  <2> QED
    BY <2>1
<1>4. Factor(m, k) = Rounded(m * p, o)
  BY <1>2 DEF Factor
<1>5. Factor(m, k + 1) = Rounded(m * (m * p), One * o)
  BY <1>1, <1>2 DEF Factor
<1>6. Powf(m, k) = Float(m * p, o)
  BY <1>2 DEF Powf
<1> HIDE DEF p, o
<1>7. m * o <= m * p
  <2>1. o * m <= p * m
    BY <1>2, TimesLeq
  <2> QED
    BY <1>2, <2>1
<1>8. m <= Rounded(m * p, o)
  BY <1>2, <1>3, <1>7, RoundedAtLeast
<1>9. Near(Rounded(m * p, o) * o, m * p)
  <2>1. Half * o <= m * p
    BY <1>1, <1>2, OneFacts, TimesBoth
  <2>2. o * Half = Half * o
    BY <1>1, <1>2
  <2> QED
    BY <1>2, <1>3, <2>1, <2>2, RoundedError
<1>10. Rounded(m * p, o) <= Rounded(m * (m * p), One * o)
  <2>1. One * ((m * p) * o) <= m * ((m * p) * o)
    <3> DEFINE t == (m * p) * o
    <3>1. t \in Nat
      BY <1>2, <1>3
    <3> HIDE DEF t
    <3>2. One * t <= m * t
      BY <1>1, <3>1, TimesLeq
    <3> QED
      BY <3>2 DEF t
  <2>2. (m * p) * (One * o) = One * ((m * p) * o)
        /\ (m * (m * p)) * o = m * ((m * p) * o)
    <3> DEFINE t == m * p
    <3>1. t \in Nat
      BY <1>3
    <3> HIDE DEF t
    <3>2. t * (One * o) = One * (t * o) /\ (m * t) * o = m * (t * o)
      BY <1>1, <1>2, <3>1
    <3> QED
      BY <3>2 DEF t
  <2> QED
    BY <1>2, <1>3, <2>1, <2>2, RoundedMonotone
<1>11. Rounded(m * p, o) \in Nat
       /\ Rounded(Rounded(m * p, o), 1) = Rounded(m * p, o)
  BY <1>2, <1>3, RoundedTwice
<1>12. Float(m * p, o) = IF Rounded(m * p, o) > FloatMax THEN Inf ELSE Rounded(m * p, o)
  BY <1>2, <1>3, FloatFacts
<1> QED
  BY <1>2, <1>4, <1>5, <1>6, <1>8, <1>9, <1>10, <1>11, <1>12 DEF o

\* The least multiplier above 1.0 is two parts in U above it.
LEMMA MultiplierAbove ==
    ASSUME NEW m \in Nat, One < m, Rounded(m, 1) = m
    PROVE  U * One + 2 * One <= U * m
<1> PICK e \in Nat, c \in Nat : e = Exponent(m \div 1) /\ m = c * Pow(2, e)
  <2>1. 1 \in Nat \ {0}
    OBVIOUS
  <2> QED
    BY <2>1, RoundedFacts
<1> PICK g \in Nat : One = Half * Pow(2, g)
  BY OneFacts
<1>1. One \in Nat \ {0} /\ U \in Nat /\ Half \in Nat /\ U = 2 * Half /\ m \div 1 = m
  BY OneFacts, BitsFacts
<1>2. g <= e
  BY <1>1, ExponentMost
<1> DEFINE v == Pow(2, g)
           w == Pow(2, e - g)
<1>3. e - g \in Nat /\ g + (e - g) = e
  BY <1>2
<1>4. v \in Nat \ {0} /\ w \in Nat \ {0} /\ Pow(2, e) = v * w
  BY <1>3, PowPositive, PowAdd
<1>5. One = Half * v
  OBVIOUS
<1> HIDE DEF v, w
<1>6. m = (c * w) * v /\ c * w \in Nat
  BY <1>4
<1> DEFINE s == c * w
<1> HIDE DEF s
<1>7. m = s * v /\ s \in Nat
  BY <1>6 DEF s
<1>8. Half < s
  <2>1. Half * v < s * v
    BY <1>5, <1>7
  <2> QED
    BY <1>1, <1>4, <1>7, <2>1, TimesCancel
<1>9. (Half + 1) * v <= s * v /\ (Half + 1) * v = Half * v + v
  BY <1>1, <1>4, <1>7, <1>8, TimesLeq
<1>10. One + v <= m
  BY <1>1, <1>4, <1>5, <1>7, <1>9
<1>11. (One + v) * U <= m * U
  BY <1>1, <1>4, <1>10, TimesLeq
<1>12. (One + v) * U = U * One + U * v /\ U * v = 2 * One
  BY <1>1, <1>4, <1>5
<1> QED
  BY <1>1, <1>11, <1>12

\* Growth makes up for what rounding took from the delay.
LEMMA ProductAbove ==
    ASSUME NEW b \in Durations, b # 0,
           NEW m \in Nat, One < m, Rounded(m, 1) = m, NEW y \in Nat, m <= y
    PROVE  b * One <= Rounded(Rounded(b * One, 1) * y, One)
<1> DEFINE n == b * One
           x == Rounded(n, 1)
<1>1. b \in Nat \ {0} /\ One \in Nat \ {0} /\ Half <= One
      /\ U \in Nat \ {0} /\ Half \in Nat /\ U = 2 * Half
  BY OneFacts, BitsFacts DEF Durations
<1>2. n \in Nat /\ One <= n
  <2>1. 1 * One <= b * One
    BY <1>1, TimesLeq
  <2> QED
    BY <1>1, <2>1
<1>3. x \in Nat /\ Rounded(x, 1) = x
  BY SecsFacts
<1> HIDE DEF n
<1> PICK e \in Nat, c \in Nat : x = c * Pow(2, e) /\ Represents(n, 1, e, c)
  <2>1. 1 \in Nat \ {0}
    OBVIOUS
  <2> QED
    BY <1>2, <2>1, RoundedFacts
<1> DEFINE u == Pow(2, e)
<1>4. u \in Nat \ {0} /\ (e = 0 => u = 1)
  BY UnitFacts, PowLaws
<1>5. /\ n < 1 * (U * u) /\ c <= U /\ 2 * n <= 2 * (c * (1 * u)) + 1 * u
      /\ e > 0 => 1 * (Half * u) <= n
      /\ 1 * (Half * u) <= n => c >= Half
  BY DEF Represents
<1> HIDE DEF x, u
<1>6. 1 * (U * u) = U * u /\ 1 * (Half * u) = Half * u /\ 1 * u = u /\ x = c * u
  BY <1>1, <1>4 DEF u
<1>7. Half <= c
  <2>1. e = 0 => Half * u = Half
    BY <1>1, <1>4
  <2> QED
    BY <1>1, <1>2, <1>5, <1>6, <2>1
<1>8. x * m \in Nat /\ x * y \in Nat /\ x * m <= x * y
  <2>1. m * x <= y * x
    BY <1>3, TimesLeq
  <2> QED
    BY <1>3, <2>1
<1>9. (x + u) * One <= x * m
  <2>1. (U * One + 2 * One) * x <= (U * m) * x
    <3>1. U * One + 2 * One \in Nat /\ U * m \in Nat
      BY <1>1
    <3> QED
      BY <1>3, <3>1, MultiplierAbove, TimesLeq
  <2>2. U * u <= 2 * x
    <3>1. Half * u <= c * u
      BY <1>1, <1>4, <1>7, TimesLeq
    <3>2. U * u = 2 * (Half * u)
      BY <1>1, <1>4
    <3>3. Half * u \in Nat
      BY <1>1, <1>4
    <3> QED
      BY <1>3, <1>6, <3>1, <3>2, <3>3
  <2>3. (U * u) * One <= (2 * x) * One
    BY <1>1, <1>3, <1>4, <2>2, TimesLeq
  <2>4. /\ (U * One + 2 * One) * x = U * (One * x) + (2 * x) * One
        /\ (U * m) * x = U * (x * m)
        /\ U * (One * x) + (U * u) * One = U * ((x + u) * One)
    BY <1>1, <1>3, <1>4
  <2>5. U * (One * x) \in Nat /\ (U * u) * One \in Nat /\ (2 * x) * One \in Nat
        /\ U * (x * m) \in Nat
    BY <1>1, <1>3, <1>4, <1>8
  <2>6. U * ((x + u) * One) <= U * (x * m)
    BY <2>1, <2>3, <2>4, <2>5
  <2>7. (x + u) * One \in Nat
    BY <1>1, <1>3, <1>4
  <2>8. ((x + u) * One) * U <= (x * m) * U
    BY <1>1, <1>8, <2>6, <2>7
  <2> QED
    BY <1>1, <1>8, <2>7, <2>8, TimesCancel
<1> DEFINE z == Rounded(x * y, One)
<1>10. z \in Nat
  BY <1>1, <1>8, RoundedTwice
<1>11. CASE c < U
  <2>1. x + u = (c + 1) * u /\ x + u \in Nat
    BY <1>3, <1>4, <1>6
  <2>2. Rounded((c + 1) * u, 1) = (c + 1) * u
    BY <1>1, <1>11, RoundedExact DEF u
  <2>3. (x + u) * One <= x * y /\ (x + u) * One \in Nat
    BY <1>1, <1>3, <1>4, <1>8, <1>9
  <2>4. x + u <= z
    BY <1>1, <1>8, <2>1, <2>2, <2>3, RoundedAtLeast
  <2>5. n <= x + u
    BY <1>2, <1>3, <1>4, <1>5, <1>6
  <2> HIDE DEF z
  <2> QED
    BY <1>2, <1>3, <1>4, <1>10, <2>4, <2>5 DEF n, x, z
<1>12. CASE c = U
  <2>1. n <= x
    BY <1>2, <1>3, <1>5, <1>6, <1>12
  <2>2. x * One <= (x + u) * One
    BY <1>1, <1>3, <1>4, TimesLeq
  <2>3. x * One <= x * y
    <3>1. x * One \in Nat /\ (x + u) * One \in Nat
      BY <1>1, <1>3, <1>4
    <3> QED
      BY <1>8, <1>9, <2>2, <3>1
  <2>4. x <= z
    BY <1>1, <1>3, <1>8, <2>3, RoundedAtLeast
  <2> HIDE DEF z
  <2> QED
    BY <1>2, <1>3, <1>10, <2>1, <2>4 DEF n, x, z
<1> QED
  BY <1>1, <1>5, <1>11, <1>12

\* A number of seconds past the largest floating-point number is past the
\* largest duration.
LEMMA HugeSecs ==
    ASSUME NEW x \in Nat, x >= FloatMax
    PROVE  Nearest(x, One) >= MaxDuration
<1>1. One \in Nat \ {0} /\ MaxDuration \in Nat /\ FloatMax \in Nat
  BY OneFacts, DurationAssumption, FloatAssumption
<1>2. MaxDuration * One <= x
  <2>1. 2 * MaxDuration * One <= FloatMax
    BY FloatAssumption
  <2>2. 2 * MaxDuration * One = 2 * (MaxDuration * One) /\ MaxDuration * One \in Nat
    BY <1>1
  <2> QED
    BY <1>1, <2>1, <2>2
<1>3. (MaxDuration * One) * One <= x * One /\ MaxDuration * One \in Nat
  <2>1. MaxDuration * One \in Nat
    BY <1>1
  <2> QED
    BY <1>1, <1>2, <2>1, TimesLeq
<1>4. Nearest(MaxDuration * One, One) <= Nearest(x, One)
  BY <1>1, <1>3, NearestMonotone
<1>5. Nearest(MaxDuration * One, One) = MaxDuration
  BY <1>1, NearestExact
<1>6. Nearest(x, One) \in Nat
  BY <1>1, NearestFacts
<1> QED
  BY <1>1, <1>4, <1>5, <1>6

\* A delay times a power is at least the delay and at least the power, and
\* grows.
LEMMA ProductFacts ==
    ASSUME NEW b \in Durations, b # 0,
           NEW m \in Nat, One < m, Rounded(m, 1) = m, NEW k \in Nat \ {0}
    PROVE  /\ Product(b, m, k) \in Nat
           /\ b * One <= Product(b, m, k)
           /\ Factor(m, k) <= Product(b, m, k)
           /\ Product(b, m, k) <= Product(b, m, k + 1)
<1> DEFINE x == Rounded(b * One, 1)
           y == Factor(m, k)
           z == Factor(m, k + 1)
<1>1. x \in Nat /\ One <= x /\ One \in Nat \ {0}
  BY SecsFacts, OneFacts
<1>2. One <= m /\ k + 1 \in Nat \ {0}
  BY OneFacts
<1>3. y \in Nat /\ z \in Nat /\ m <= y /\ y <= z /\ Rounded(y, 1) = y
  BY <1>2, FactorFacts
<1>4. Product(b, m, k) = Rounded(x * y, One) /\ Product(b, m, k + 1) = Rounded(x * z, One)
  BY DEF Product
<1>5. b * One <= Rounded(x * y, One)
  BY <1>3, ProductAbove
<1> HIDE DEF x, y, z
<1>6. x * y \in Nat /\ x * z \in Nat
  BY <1>1, <1>3
<1>7. y <= Rounded(x * y, One)
  <2>1. One * y <= x * y /\ One * y = y * One
    BY <1>1, <1>3, TimesLeq
  <2> QED
    BY <1>1, <1>3, <1>6, <2>1, RoundedAtLeast
<1>8. Rounded(x * y, One) <= Rounded(x * z, One)
  <2>1. y * (x * One) <= z * (x * One)
    <3>1. x * One \in Nat
      BY <1>1
    <3> QED
      BY <1>3, <3>1, TimesLeq
  <2>2. (x * y) * One = y * (x * One) /\ (x * z) * One = z * (x * One)
    BY <1>1, <1>3
  <2> QED
    BY <1>1, <1>6, <2>1, <2>2, RoundedMonotone
<1>9. Rounded(x * y, One) \in Nat
  BY <1>1, <1>6, RoundedTwice
<1> QED
  BY <1>4, <1>5, <1>7, <1>8, <1>9 DEF y

\* What exponential_delay returns: overflow and the largest duration are caught
\* by the minimum.
LEMMA ExponentialValue ==
    ASSUME NEW b \in Durations, b # 0, NEW max \in Durations,
           NEW m \in Nat, One < m, Rounded(m, 1) = m, NEW index \in Nat, index >= 2
    PROVE  ExponentialDelay(b, m, max, index)
              = MinOf(Nearest(Product(b, m, index - 1), One), max)
<1> DEFINE k == index - 1
           x == Rounded(b * One, 1)
           y == Factor(m, k)
           z == Product(b, m, k)
           s == Times(AsSecsF64(b), Powf(m, k))
<1>1. k \in Nat \ {0} /\ One <= m /\ One \in Nat \ {0} /\ FloatMax \in Nat
      /\ MaxDuration \in Nat /\ max \in Nat /\ max <= MaxDuration
  BY OneFacts, FloatAssumption, DurationAssumption DEF Durations
<1>2. AsSecsF64(b) = x /\ x \in Nat /\ x # 0
  BY SecsFacts, OneFacts
<1>3. y \in Nat /\ y # 0 /\ Powf(m, k) = IF y > FloatMax THEN Inf ELSE y
  <2>1. y \in Nat /\ m <= y /\ Powf(m, k) = IF y > FloatMax THEN Inf ELSE y
    BY <1>1, FactorFacts
  <2>2. y # 0
    <3> HIDE DEF y
    <3> QED
      BY <1>1, <2>1
  <2> QED
    BY <2>1, <2>2
<1>4. z \in Nat /\ y <= z /\ z = Rounded(x * y, One)
  BY <1>1, ProductFacts DEF Product
<1>5. ExponentialDelay(b, m, max, index) = CappedDelay(s, max)
  BY <1>1 DEF ExponentialDelay
<1>6. Nearest(z, One) \in Nat
  BY <1>4, TryFacts
<1>7. x * y \in Nat
  BY <1>2, <1>3
<1>8. CASE y > FloatMax
  <2>1. s = Inf
    BY <1>2, <1>3, <1>8 DEF Times, Inf, NaN
  <2>2. CappedDelay(s, max) = max
    BY <2>1 DEF CappedDelay, IsFinite, Inf
  <2>3. Nearest(z, One) >= MaxDuration
    BY <1>1, <1>3, <1>4, <1>8, HugeSecs
  <2> HIDE DEF s, z
  <2> QED
    BY <1>1, <1>5, <1>6, <2>2, <2>3 DEF MinOf, z
<1>9. CASE ~(y > FloatMax)
  <2>1. s = Float(x * y, One)
    BY <1>2, <1>3, <1>9 DEF Times, Inf, NaN
  <2>2. s = IF z > FloatMax THEN Inf ELSE z
    BY <1>1, <1>4, <1>7, <2>1, FloatFacts
  <2>3. CASE z > FloatMax
    <3>1. CappedDelay(s, max) = max
      BY <2>2, <2>3 DEF CappedDelay, IsFinite, Inf
    <3>2. Nearest(z, One) >= MaxDuration
      BY <1>1, <1>4, <2>3, HugeSecs
    <3> HIDE DEF s, z
    <3> QED
      BY <1>1, <1>5, <1>6, <3>1, <3>2 DEF MinOf, z
  <2>4. CASE ~(z > FloatMax)
    <3>1. s = z /\ IsFinite(s)
      BY <1>4, <2>2, <2>4 DEF IsFinite
    <3>2. TryFromSecsF64(z) = IF Nearest(z, One) <= MaxDuration
                              THEN Nearest(z, One) ELSE None
      BY <1>4, TryFacts
    <3>3. None \notin Int
      BY NoDelayAssumption
    <3> HIDE DEF s, z
    <3>4. CASE Nearest(z, One) <= MaxDuration
      BY <1>1, <1>5, <1>6, <3>1, <3>2, <3>3, <3>4 DEF CappedDelay, z
    <3>5. CASE ~(Nearest(z, One) <= MaxDuration)
      BY <1>1, <1>5, <1>6, <3>1, <3>2, <3>5 DEF CappedDelay, MinOf, z
    <3> QED
      BY <3>4, <3>5
  <2> QED
    BY <2>3, <2>4
<1> QED
  BY <1>8, <1>9

\* What exponential_delay promises: a delay between the first and the largest,
\* no smaller than the one before it.
LEMMA ExponentialFacts ==
    ASSUME NEW b \in Durations, NEW max \in Durations, b <= max,
           NEW m \in Nat, One <= m, Rounded(m, 1) = m, NEW index \in Nat
    PROVE  /\ ExponentialDelay(b, m, max, index) \in b .. max
           /\ ExponentialDelay(b, m, max, index) <= ExponentialDelay(b, m, max, index + 1)
<1> DEFINE D(i) == ExponentialDelay(b, m, max, i)
<1>1. b \in Nat /\ max \in Nat /\ One \in Nat \ {0}
  BY OneFacts, DurationAssumption DEF Durations
<1>2. ASSUME NEW i \in Nat, i <= 1 \/ b = 0 \/ m = One
      PROVE  D(i) = b
  BY <1>1, <1>2 DEF ExponentialDelay, MinOf
<1>3. ASSUME NEW i \in Nat, ~(i <= 1 \/ b = 0 \/ m = One)
      PROVE  /\ D(i) \in b .. max
             /\ D(i) <= D(i + 1)
  <2> DEFINE z == Product(b, m, i - 1)
             w == Product(b, m, i)
  <2>1. i >= 2 /\ i - 1 \in Nat \ {0} /\ (i - 1) + 1 = i /\ One < m
        /\ i + 1 \in Nat /\ i + 1 >= 2 /\ (i + 1) - 1 = i
    BY <1>1, <1>3
  <2>2. D(i) = MinOf(Nearest(z, One), max) /\ D(i + 1) = MinOf(Nearest(w, One), max)
    BY <1>3, <2>1, ExponentialValue
  <2>3. z \in Nat /\ b * One <= z /\ z <= w
    BY <1>3, <2>1, ProductFacts
  <2>4. w \in Nat
    <3>1. i \in Nat \ {0}
      BY <2>1
    <3> QED
      BY <1>3, <2>1, <3>1, ProductFacts
  <2> HIDE DEF z, w, D
  <2>5. Nearest(z, One) \in Nat /\ Nearest(w, One) \in Nat
    BY <2>3, <2>4, TryFacts
  <2>6. b <= Nearest(z, One)
    <3>1. b * One \in Nat
      BY <1>1
    <3>2. (b * One) * One <= z * One
      BY <1>1, <2>3, <3>1, TimesLeq
    <3> QED
      BY <1>1, <2>3, <3>1, <3>2, NearestMonotone, NearestExact
  <2>7. Nearest(z, One) <= Nearest(w, One)
    <3>1. z * One <= w * One
      BY <1>1, <2>3, <2>4, TimesLeq
    <3> QED
      BY <1>1, <2>3, <2>4, <3>1, NearestMonotone
  <2> QED
    BY <1>1, <2>2, <2>5, <2>6, <2>7 DEF MinOf
<1> HIDE DEF D
<1>4. index + 1 \in Nat
  OBVIOUS
<1>5. D(index) \in b .. max /\ D(index + 1) \in b .. max
  BY <1>1, <1>2, <1>3, <1>4
<1>6. D(index) <= D(index + 1)
  BY <1>1, <1>2, <1>3, <1>5
<1> QED
  BY <1>5, <1>6 DEF D

-----------------------------------------------------------------------------
(***************************************************************************)
(* One step of a policy.                                                   *)
(***************************************************************************)

\* What validate leaves of a policy's fields.
LEMMA PolicyFacts ==
    ASSUME NEW p \in BackoffPolicies
    PROVE  /\ p.strategy.min \in Durations /\ p.strategy.max \in Durations
           /\ p.strategy.min <= p.strategy.max
           /\ p.strategy.kind \in {"Immediate", "Fixed", "Uniform", "Exponential"}
           /\ p.strategy.kind = "Exponential" =>
                 p.strategy.multiplier \in Nat /\ One <= p.strategy.multiplier
           /\ p.jitter.kind \in {"None", "Full", "Bounded"}
           /\ p.jitter.kind = "Bounded" => p.jitter.ratio \in 0 .. One
           /\ p.retry_after \in RetryAfter
           /\ p.delay_limit \in Durations \union {None}
<1>1. p.strategy \in Strategies /\ p.jitter \in Jitters /\ p.retry_after \in RetryAfter
      /\ p.delay_limit \in Durations \union {None} /\ Validate(p)
  BY DEF BackoffPolicies
<1>2. One \in Nat /\ 0 \in Durations /\ Durations \subseteq Nat
  BY OneFacts, DurationAssumption DEF Durations
<1>3. p.jitter.kind \in {"None", "Full", "Bounded"}
  BY <1>1 DEF Jitters
<1>4. /\ p.strategy.min \in Durations /\ p.strategy.max \in Durations
      /\ p.strategy.kind \in {"Immediate", "Fixed", "Uniform", "Exponential"}
  BY <1>1, <1>2 DEF Strategies
<1>5. p.strategy.kind \in {"Immediate", "Fixed"} => p.strategy.min = p.strategy.max
  BY <1>1 DEF Strategies
<1>6. p.strategy.kind = "Exponential" => p.strategy.multiplier \in Int
  BY <1>1 DEF Strategies
<1>7. p.strategy.kind = "Exponential" =>
         p.strategy.multiplier >= 0 /\ p.strategy.multiplier >= One
  BY <1>1 DEF Validate, IsFinite
<1>8. p.strategy.kind \in {"Uniform", "Exponential"} => p.strategy.min <= p.strategy.max
  BY <1>1 DEF Validate
<1>9. p.strategy.min <= p.strategy.max
  <2> DEFINE lo == p.strategy.min
             hi == p.strategy.max
             k == p.strategy.kind
  <2>1. lo \in Nat /\ hi \in Nat
    BY <1>2, <1>4
  <2>2. k \in {"Immediate", "Fixed"} \/ k \in {"Uniform", "Exponential"}
    BY <1>4
  <2> HIDE DEF lo, hi, k
  <2>3. lo = hi \/ lo <= hi
    BY <1>5, <1>8, <2>2 DEF lo, hi, k
  <2>4. lo <= hi
    BY <2>1, <2>3
  <2> QED
    BY <2>4 DEF lo, hi
<1>10. p.jitter.kind = "Bounded" => p.jitter.ratio \in 0 .. One
  BY <1>1 DEF Validate
<1>11. p.strategy.kind = "Exponential" =>
         p.strategy.multiplier \in Nat /\ One <= p.strategy.multiplier
  BY <1>2, <1>6, <1>7
<1> QED
  BY <1>1, <1>3, <1>4, <1>9, <1>10, <1>11

\* The numbers of a policy are floating-point numbers.
Floating(p) == p.strategy.multiplier \in Numbers /\ p.jitter.ratio \in Numbers

\* The multiplier of an exponential policy.
LEMMA MultiplierFacts ==
    ASSUME NEW p \in BackoffPolicies, Floating(p), p.strategy.kind = "Exponential"
    PROVE  LET m == p.strategy.multiplier IN
           m \in Nat /\ One <= m /\ Rounded(m, 1) = m
<1> DEFINE m == p.strategy.multiplier
<1>1. m \in Nat /\ One <= m /\ m \in Numbers
  BY PolicyFacts DEF Floating
<1> HIDE DEF m
<1>2. Rounded(m, 1) = m
  BY <1>1 DEF Numbers, Inf, NaN, Negative
<1> QED
  BY <1>1, <1>2 DEF m

\* The base delay lies in the strategy's range.
LEMMA BaseFacts ==
    ASSUME NEW p \in BackoffPolicies, Floating(p), NEW index \in Nat, NEW u \in Numbers
    PROVE  /\ BaseDelay(p, index, u) \in Durations
           /\ BaseDelay(p, index, u) \in p.strategy.min .. p.strategy.max
<1> DEFINE lo == p.strategy.min
           hi == p.strategy.max
           d == BaseDelay(p, index, u)
<1>1. lo \in Durations /\ hi \in Durations /\ lo <= hi
  BY PolicyFacts
<1>2. MaxDuration \in Nat /\ lo \in Nat /\ hi \in Nat /\ hi <= MaxDuration
  BY <1>1, DurationAssumption DEF Durations
<1>3. CASE p.strategy.kind = "Uniform"
  <2>1. d = Interpolate(lo, hi, u)
    BY <1>3 DEF BaseDelay
  <2> QED
    BY <1>1, <2>1, InterpolateFacts
<1>4. CASE p.strategy.kind = "Exponential"
  <2>1. d = ExponentialDelay(lo, p.strategy.multiplier, hi, index)
    BY <1>4 DEF BaseDelay
  <2>2. d \in lo .. hi
    BY <1>1, <1>4, <2>1, MultiplierFacts, ExponentialFacts
  <2> HIDE DEF d, lo, hi
  <2>3. d \in Durations
    BY <1>2, <2>2 DEF Durations
  <2> QED
    BY <2>2, <2>3 DEF d, lo, hi
<1>5. CASE p.strategy.kind \notin {"Uniform", "Exponential"}
  <2>1. d = lo
    BY <1>5 DEF BaseDelay
  <2>2. lo \in lo .. hi
    <3> HIDE DEF lo, hi
    <3> QED
      BY <1>1, <1>2
  <2> QED
    BY <1>1, <2>1, <2>2
<1> QED
  BY <1>3, <1>4, <1>5

\* The factors of bounded jitter.
LEMMA RatioFacts ==
    ASSUME NEW p \in BackoffPolicies, p.jitter.kind = "Bounded"
    PROVE  LET r == p.jitter.ratio IN
           /\ r \in Nat /\ r <= One /\ One - r \in Nat /\ One + r \in Nat
           /\ Float(One - r, 1) \in Nat \union {Inf}
           /\ Float(One + r, 1) \in Nat \union {Inf}
<1> DEFINE r == p.jitter.ratio
<1>1. r \in 0 .. One /\ One \in Nat
  BY PolicyFacts, OneFacts
<1> HIDE DEF r
<1>2. r \in Nat /\ r <= One /\ One - r \in Nat /\ One + r \in Nat
  BY <1>1
<1>3. Float(One - r, 1) \in Nat \union {Inf} /\ Float(One + r, 1) \in Nat \union {Inf}
  BY <1>2, FloatFacts
<1> QED
  BY <1>2, <1>3 DEF r

\* A jittered delay is a duration; full jitter only shortens.
LEMMA JitterTyped ==
    ASSUME NEW p \in BackoffPolicies, NEW b \in Durations, NEW s \in Numbers
    PROVE  /\ ApplyJitter(p, b, s) \in Durations
           /\ p.jitter.kind = "None" => ApplyJitter(p, b, s) = b
           /\ p.jitter.kind = "Full" => ApplyJitter(p, b, s) <= b
<1>1. p.jitter.kind \in {"None", "Full", "Bounded"}
  BY PolicyFacts
<1>2. CASE p.jitter.kind = "None" \/ (p.jitter.kind = "Bounded" /\ p.jitter.ratio = 0)
  BY <1>2 DEF ApplyJitter
<1>3. CASE p.jitter.kind = "Full"
  <2>1. ApplyJitter(p, b, s) = Interpolate(0, b, s)
    BY <1>3 DEF ApplyJitter
  <2>2. 0 \in Durations /\ 0 <= b /\ b \in Nat
    BY DurationAssumption DEF Durations
  <2>3. Interpolate(0, b, s) \in Durations /\ Interpolate(0, b, s) \in 0 .. b
    BY <2>2, InterpolateFacts
  <2> QED
    BY <1>3, <2>1, <2>2, <2>3
<1>4. CASE p.jitter.kind = "Bounded" /\ p.jitter.ratio # 0
  <2> DEFINE lo == ScaleDuration(b, Float(One - p.jitter.ratio, 1))
             hi == ScaleDuration(b, Float(One + p.jitter.ratio, 1))
  <2>1. ApplyJitter(p, b, s) = Interpolate(lo, hi, s)
    BY <1>4 DEF ApplyJitter
  <2>2. lo \in Durations /\ hi \in Durations
    BY <1>4, RatioFacts, ScaleTyped
  <2>3. Interpolate(lo, hi, s) \in Durations
    <3> HIDE DEF lo, hi
    <3> QED
      BY <2>2, InterpolateFacts
  <2> QED
    BY <1>4, <2>1, <2>3
<1> QED
  BY <1>1, <1>2, <1>3, <1>4

\* What resolve returns is a step, under the cap, and honours the hint.
LEMMA ResolveFacts ==
    ASSUME NEW p \in BackoffPolicies, NEW b \in Durations, NEW r \in Requests,
           NEW index \in 1 .. MaxIndex, NEW s \in Numbers, NEW h \in Numbers
    PROVE  LET q == Resolve(p, b, r, index, s, h) IN
           /\ q \in Steps /\ q.retry_index = index /\ q.base_delay = b
           /\ p.delay_limit # None => q.effective_delay <= p.delay_limit
           /\ (q.source = "Hint" /\ ~r.jitter_hint) =>
                 q.effective_delay = Capped(p, r.hint)
           /\ (q.source = "Merged" /\ ~r.jitter_hint) =>
                 q.effective_delay >= Capped(p, r.hint)
           /\ (q.source = "Merged" /\ p.jitter.kind = "None") =>
                 q.effective_delay >= Capped(p, b)
           /\ (q.source = "Policy" /\ p.delay_limit = None) =>
                 q.effective_delay = ApplyJitter(p, b, s)
<1> DEFINE q == Resolve(p, b, r, index, s, h)
           a == ApplyJitter(p, b, s)
           j == IF r.jitter_hint THEN ApplyJitter(p, r.hint, h) ELSE r.hint
           c == ResolveUncapped(p, b, r, s, h)
           src == HintSource(p, r)
<1>1. a \in Durations /\ (p.jitter.kind = "None" => a = b)
  BY JitterTyped
<1>2. MaxDuration \in Nat /\ None \notin Int
  BY DurationAssumption, NoDelayAssumption
<1>3. src \in {"Policy", "Hint", "Merged"}
  BY DEF HintSource
<1>4. src # "Policy" => r.hint \in Durations
  <2>1. r.hint \in Hints \union {None}
    BY DEF Requests
  <2> QED
    BY <2>1, InputAssumption DEF HintSource
<1>5. src # "Policy" => j \in Durations /\ (~r.jitter_hint => j = r.hint)
  BY <1>4, JitterTyped
<1>6. /\ src = "Policy" => c = a
      /\ src = "Hint" => c = j
      /\ src = "Merged" => c = MaxOf(a, j)
  BY DEF ResolveUncapped
<1>7. /\ q.retry_index = index /\ q.base_delay = b /\ q.source = src
      /\ q.effective_delay = Capped(p, c)
      /\ q = [retry_index |-> index, base_delay |-> b, effective_delay |-> Capped(p, c),
              source |-> src]
  BY DEF Resolve
<1> DEFINE l == p.delay_limit
           k == p.jitter.kind
           hh == r.hint
           jh == r.jitter_hint
<1>8. l \in Durations \union {None}
  BY PolicyFacts
<1>9. \A x : Capped(p, x) = IF l = None THEN x ELSE MinOf(x, l)
  BY DEF Capped
<1> HIDE DEF q, a, j, c, src, l, k, hh, jh
<1>10. c \in Durations
  BY <1>1, <1>3, <1>5, <1>6 DEF MaxOf
<1>11. Capped(p, c) \in Durations /\ (l # None => Capped(p, c) <= l)
  BY <1>2, <1>8, <1>9, <1>10 DEF MinOf, Durations
<1>12. q \in Steps
  BY <1>3, <1>7, <1>11 DEF Steps
<1>13. src = "Merged" => Capped(p, c) >= Capped(p, a) /\ Capped(p, c) >= Capped(p, j)
  BY <1>1, <1>2, <1>5, <1>6, <1>8, <1>9 DEF MaxOf, MinOf, Durations
<1>14. src = "Hint" => Capped(p, c) = Capped(p, j)
  BY <1>6
<1>15. src = "Policy" /\ l = None => Capped(p, c) = a
  BY <1>6, <1>9
<1> QED
  BY <1>1, <1>5, <1>7, <1>11, <1>12, <1>13, <1>14, <1>15 DEF q, a, l
-----------------------------------------------------------------------------
(***************************************************************************)
(* Accuracy.                                                               *)
(***************************************************************************)

\* Both sides of a rounding, times the same.
LEMMA NearScaled ==
    ASSUME NEW x \in Nat, NEW a \in Nat, NEW c \in Nat, Near(x, a)
    PROVE  Near(x * c, a * c)
<1>1. U \in Nat
  BY BitsFacts
<1>2. U * x <= U * a + a /\ U * a <= U * x + a
  BY DEF Near
<1> HIDE DEF U
<1>3. U * x \in Nat /\ U * a \in Nat /\ U * x + a \in Nat /\ U * a + a \in Nat
  BY <1>1
<1>4. (U * x) * c <= (U * a + a) * c /\ (U * a) * c <= (U * x + a) * c
  BY <1>2, <1>3, TimesLeq
<1>5. /\ (U * x) * c = U * (x * c) /\ (U * a) * c = U * (a * c)
      /\ (U * a + a) * c = U * (a * c) + a * c /\ (U * x + a) * c = U * (x * c) + a * c
  BY <1>1
<1> QED
  BY <1>4, <1>5 DEF Near

\* The product of a product, regrouped.
LEMMA Regroup ==
    ASSUME NEW a \in Nat, NEW b \in Nat, NEW c \in Nat, NEW d \in Nat
    PROVE  (a * b) * (c * d) = (a * c) * (b * d)
OBVIOUS

\* Three roundings cost less than four parts in U.
LEMMA ThreeRoundings ==
    ASSUME NEW x \in Nat, NEW a \in Nat, NEW f \in Nat, NEW g \in Nat, NEW p \in Nat,
           Near(x, a), Near(f, g), Near(p, x * f)
    PROVE  /\ U * p <= (U + 4) * (a * g)
           /\ (U - 4) * (a * g) <= U * p
<1> DEFINE v == U + 1
           w == U - 1
           S == U * U
           t == a * g
           y == x * f
<1>1. U \in Nat \ {0} /\ U >= 8 /\ v \in Nat /\ w \in Nat /\ U + 4 \in Nat /\ U - 4 \in Nat
  BY BitsFacts
<1>2. t \in Nat /\ y \in Nat /\ S \in Nat \ {0} /\ U * p \in Nat
  BY <1>1
<1>3. \A i, j \in Nat : Near(i, j) => U * i <= v * j /\ w * j <= U * i
  <2> SUFFICES ASSUME NEW i \in Nat, NEW j \in Nat, Near(i, j)
               PROVE  U * i <= v * j /\ w * j <= U * i
    OBVIOUS
  <2>1. U * i <= U * j + j /\ U * j <= U * i + j
    BY DEF Near
  <2>2. v * j = U * j + j /\ w * j = U * j - j
    BY <1>1
  <2>3. U * i \in Nat /\ U * j \in Nat
    BY <1>1
  <2> QED
    BY <2>1, <2>2, <2>3
<1>4. /\ U * x <= v * a /\ w * a <= U * x
      /\ U * f <= v * g /\ w * g <= U * f
      /\ U * p <= v * y /\ w * y <= U * p
  BY <1>2, <1>3
<1>5. S >= 8 * U
  BY <1>1
<1>6. v * (v * v) <= (U + 4) * S /\ (U - 4) * S <= w * (w * w)
  <2>1. v * (v * v) = U * S + 3 * S + 3 * U + 1
    BY <1>1
  <2>2. w * (w * w) = U * S - 3 * S + 3 * U - 1
    BY <1>1
  <2>3. (U + 4) * S = U * S + 4 * S /\ (U - 4) * S = U * S - 4 * S
    BY <1>1, <1>2
  <2>4. U * S \in Nat
    BY <1>1, <1>2
  <2> HIDE DEF v, w, S
  <2> QED
    BY <1>1, <1>2, <1>5, <2>1, <2>2, <2>3, <2>4
<1> HIDE DEF v, w, S, t, y
<1>7. U * x \in Nat /\ U * f \in Nat /\ v * a \in Nat /\ v * g \in Nat /\ w * a \in Nat
      /\ w * g \in Nat /\ v * v \in Nat /\ w * w \in Nat
  BY <1>1
<1>8. S * y = (U * x) * (U * f)
  BY <1>1, Regroup DEF S, y
<1>9. S * y <= (v * v) * t
  <2>1. (U * x) * (U * f) <= (v * a) * (v * g)
    BY <1>4, <1>7, TimesBoth
  <2>2. (v * a) * (v * g) = (v * v) * t
    BY <1>1, Regroup DEF t
  <2> QED
    BY <1>8, <2>1, <2>2
<1>10. (w * w) * t <= S * y
  <2>1. (w * a) * (w * g) <= (U * x) * (U * f)
    BY <1>4, <1>7, TimesBoth
  <2>2. (w * a) * (w * g) = (w * w) * t
    BY <1>1, Regroup DEF t
  <2> QED
    BY <1>8, <2>1, <2>2
<1>11. U * p <= (U + 4) * t
  <2>1. (U * p) * S <= (v * y) * S
    BY <1>1, <1>2, <1>4, TimesLeq
  <2>2. (S * y) * v <= ((v * v) * t) * v
    BY <1>1, <1>2, <1>7, <1>9, TimesLeq
  <2>3. (v * (v * v)) * t <= ((U + 4) * S) * t
    BY <1>1, <1>2, <1>6, <1>7, TimesLeq
  <2>4. (v * y) * S = (S * y) * v /\ ((v * v) * t) * v = (v * (v * v)) * t
        /\ ((U + 4) * S) * t = ((U + 4) * t) * S
    BY <1>1, <1>2
  <2>5. (U * p) * S <= ((U + 4) * t) * S
    <3>1. (U * p) * S \in Nat /\ (v * y) * S \in Nat /\ (v * (v * v)) * t \in Nat
          /\ ((U + 4) * t) * S \in Nat
      BY <1>1, <1>2
    <3> QED
      BY <2>1, <2>2, <2>3, <2>4, <3>1
  <2>6. (U + 4) * t \in Nat
    BY <1>1, <1>2
  <2> QED
    BY <1>2, <2>5, <2>6, TimesCancel
<1>12. (U - 4) * t <= U * p
  <2>1. (w * y) * S <= (U * p) * S
    <3>1. w * y \in Nat
      BY <1>1, <1>2
    <3> QED
      BY <1>2, <1>4, <3>1, TimesLeq
  <2>2. ((w * w) * t) * w <= (S * y) * w
    <3>1. (w * w) * t \in Nat /\ S * y \in Nat
      BY <1>2, <1>7
    <3> QED
      BY <1>1, <1>10, <3>1, TimesLeq
  <2>3. ((U - 4) * S) * t <= (w * (w * w)) * t
    <3>1. (U - 4) * S \in Nat /\ w * (w * w) \in Nat
      BY <1>1, <1>2, <1>7
    <3> QED
      BY <1>2, <1>6, <3>1, TimesLeq
  <2>4. (w * y) * S = (S * y) * w /\ ((w * w) * t) * w = (w * (w * w)) * t
        /\ ((U - 4) * S) * t = ((U - 4) * t) * S
    BY <1>1, <1>2
  <2>5. ((U - 4) * t) * S <= (U * p) * S
    <3>1. (U * p) * S \in Nat /\ (w * y) * S \in Nat /\ (w * (w * w)) * t \in Nat
          /\ ((U - 4) * t) * S \in Nat
      BY <1>1, <1>2
    <3> QED
      BY <2>1, <2>2, <2>3, <2>4, <3>1
  <2>6. (U - 4) * t \in Nat
    BY <1>1, <1>2
  <2> QED
    BY <1>2, <2>5, <2>6, TimesCancel
<1> QED
  BY <1>11, <1>12 DEF t
\* The uncapped exponential delay, against b * m^k.
LEMMA GrowthFacts ==
    ASSUME NEW b \in Durations, b # 0,
           NEW m \in Nat, One < m, Rounded(m, 1) = m, NEW k \in Nat \ {0}
    PROVE  LET n == Nearest(Product(b, m, k), One) * Pow(One, k)
               ideal == b * Pow(m, k)
           IN /\ 2 * (U * n) <= 2 * ((U + 4) * ideal) + U * Pow(One, k)
              /\ 2 * ((U - 4) * ideal) <= 2 * (U * n) + U * Pow(One, k)
<1> DEFINE x == Rounded(b * One, 1)
           y == Factor(m, k)
           z == Product(b, m, k)
           V == Nearest(z, One)
           o == Pow(One, k - 1)
           O == Pow(One, k)
           M == Pow(m, k)
           G == b * M
<1>1. /\ One \in Nat \ {0} /\ Half \in Nat /\ Half <= One /\ One <= m /\ k - 1 \in Nat
      /\ (k - 1) + 1 = k /\ b \in Nat /\ U \in Nat \ {0} /\ U - 4 \in Nat /\ U + 4 \in Nat
  BY OneFacts, BitsFacts DEF Durations
<1>2. o \in Nat /\ M \in Nat /\ O \in Nat /\ O = One * o
  BY <1>1, PowLaws
<1>3. x \in Nat /\ One <= x /\ Near(x, b * One)
  BY SecsFacts
<1>4. y \in Nat /\ m <= y /\ Near(y * o, M)
  BY <1>1, FactorFacts
<1>5. z = Rounded(x * y, One)
  BY DEF Product
<1>6. One <= y
  <2> HIDE DEF y
  <2> QED
    BY <1>1, <1>4
<1> HIDE DEF x, y, z, O, M, o
<1>7. x * y \in Nat /\ One * Half <= x * y
  <2>1. Half <= y
    BY <1>1, <1>4, <1>6
  <2> QED
    BY <1>1, <1>3, <1>4, <2>1, TimesBoth
<1>8. z \in Nat /\ Near(z * One, x * y)
  BY <1>1, <1>5, <1>7, RoundedError, RoundedTwice
<1> DEFINE p == (z * One) * o
           f == y * o
           a == b * One
<1>9. p \in Nat /\ f \in Nat /\ a \in Nat /\ z * One \in Nat
  BY <1>1, <1>2, <1>4, <1>8
<1>10. Near(p, x * f)
  <2>1. Near(p, (x * y) * o)
    BY <1>2, <1>7, <1>8, <1>9, NearScaled
  <2>2. (x * y) * o = x * f
    BY <1>2, <1>3, <1>4
  <2> QED
    BY <2>1, <2>2
<1>11. U * p <= (U + 4) * (a * M) /\ (U - 4) * (a * M) <= U * p
  <2> HIDE DEF p, f, a
  <2> QED
    BY <1>2, <1>3, <1>4, <1>9, <1>10, ThreeRoundings DEF f, a
<1>12. G \in Nat /\ z * o \in Nat
  BY <1>1, <1>2, <1>8
<1>13. U * (z * o) <= (U + 4) * G /\ (U - 4) * G <= U * (z * o)
  <2>1. U * p = (U * (z * o)) * One
    BY <1>1, <1>2, <1>8
  <2>2. (U + 4) * (a * M) = ((U + 4) * G) * One /\ (U - 4) * (a * M) = ((U - 4) * G) * One
    BY <1>1, <1>2
  <2>3. U * (z * o) \in Nat /\ (U + 4) * G \in Nat /\ (U - 4) * G \in Nat
    BY <1>1, <1>12
  <2> HIDE DEF p, a, G
  <2> QED
    BY <1>1, <1>11, <2>1, <2>2, <2>3, TimesCancel
<1>14. V \in Nat /\ 2 * (V * One) <= 2 * z + One /\ 2 * z <= 2 * (V * One) + One
  BY <1>1, <1>8, NearestFacts
<1> HIDE DEF V, G, p, f, a
<1>15. 2 * (V * O) <= 2 * (z * o) + O /\ 2 * (z * o) <= 2 * (V * O) + O
  <2>1. (2 * (V * One)) * o <= (2 * z + One) * o /\ (2 * z) * o <= (2 * (V * One) + One) * o
    <3>1. 2 * (V * One) \in Nat /\ 2 * z + One \in Nat /\ 2 * z \in Nat
          /\ 2 * (V * One) + One \in Nat
      BY <1>1, <1>8, <1>14
    <3> QED
      BY <1>2, <1>14, <3>1, TimesLeq
  <2>2. /\ (2 * (V * One)) * o = 2 * (V * O) /\ (2 * z + One) * o = 2 * (z * o) + O
        /\ (2 * z) * o = 2 * (z * o) /\ (2 * (V * One) + One) * o = 2 * (V * O) + O
    BY <1>1, <1>2, <1>8, <1>14
  <2> QED
    BY <2>1, <2>2
<1> DEFINE n == V * O
           q == z * o
<1>16. n \in Nat /\ q \in Nat
  BY <1>2, <1>12, <1>14
<1>17. 2 * n <= 2 * q + O /\ 2 * q <= 2 * n + O
  BY <1>15
<1> HIDE DEF n, q
<1>18. 2 * (U * n) <= 2 * (U * q) + U * O /\ 2 * (U * q) <= 2 * (U * n) + U * O
  <2>1. (2 * n) * U <= (2 * q + O) * U /\ (2 * q) * U <= (2 * n + O) * U
    <3>1. 2 * n \in Nat /\ 2 * q + O \in Nat /\ 2 * q \in Nat /\ 2 * n + O \in Nat
      BY <1>2, <1>16
    <3> QED
      BY <1>1, <1>17, <3>1, TimesLeq
  <2>2. /\ (2 * n) * U = 2 * (U * n) /\ (2 * q + O) * U = 2 * (U * q) + U * O
        /\ (2 * q) * U = 2 * (U * q) /\ (2 * n + O) * U = 2 * (U * n) + U * O
    BY <1>1, <1>2, <1>16
  <2> QED
    BY <2>1, <2>2
<1>19. U * q <= (U + 4) * G /\ (U - 4) * G <= U * q
  BY <1>13 DEF q
<1>20. 2 * (U * n) <= 2 * ((U + 4) * G) + U * O /\ 2 * ((U - 4) * G) <= 2 * (U * n) + U * O
  <2>1. U * n \in Nat /\ U * q \in Nat /\ U * O \in Nat /\ (U + 4) * G \in Nat
        /\ (U - 4) * G \in Nat
    BY <1>1, <1>2, <1>12, <1>16
  <2> QED
    BY <1>18, <1>19, <2>1
<1> QED
  BY <1>20 DEF n, V, z, O, G, M

\* The minimum with the largest delay costs no accuracy.
LEMMA Capping ==
    ASSUME NEW u \in Nat, u >= 8, NEW v \in Nat, NEW max \in Nat, NEW o \in Nat,
           NEW g \in Nat,
           2 * (u * (v * o)) <= 2 * ((u + 4) * g) + u * o,
           2 * ((u - 4) * g) <= 2 * (u * (v * o)) + u * o
    PROVE  LET ideal == MinOf(g, max * o)
           IN 2 * Absolute(MinOf(v, max) * o - ideal) * u <= 8 * ideal + u * o
<1> DEFINE n == v * o
           t == max * o
           e == u * o
           c == MinOf(n, t)
           i == MinOf(g, t)
<1>1. n \in Nat /\ t \in Nat /\ e \in Nat /\ u - 4 \in Nat
  OBVIOUS
<1>2. MinOf(v, max) * o = c
  <2>1. CASE v <= max
    <3>1. n <= t
      BY <2>1, TimesLeq
    <3> QED
      BY <2>1, <3>1 DEF MinOf
  <2>2. CASE ~(v <= max)
    <3>1. t <= n
      BY <2>2, TimesLeq
    <3> HIDE DEF n, t
    <3>2. c = t
      BY <1>1, <3>1 DEF MinOf
    <3> QED
      BY <2>2, <3>2 DEF MinOf, t
  <2> QED
    BY <2>1, <2>2
<1>3. /\ 2 * (u * n) <= 2 * (u * g + 4 * g) + e
      /\ 2 * (u * g - 4 * g) <= 2 * (u * n) + e
  <2>1. (u + 4) * g = u * g + 4 * g /\ (u - 4) * g = u * g - 4 * g
    OBVIOUS
  <2> QED
    BY <2>1
<1> HIDE DEF n, t, e
<1>4. c \in Nat /\ i \in Nat
  BY <1>1 DEF MinOf
<1>5. u * n \in Nat /\ u * g \in Nat /\ u * t \in Nat /\ u * c \in Nat /\ u * i \in Nat
  BY <1>1, <1>4
<1>6. /\ 2 * (c - i) * u = 2 * (u * c - u * i)
      /\ 2 * (-(c - i)) * u = 2 * (u * i - u * c)
  BY <1>4
<1>7. 2 * (u * c - u * i) <= 8 * i + e /\ 2 * (u * i - u * c) <= 8 * i + e
  <2>1. CASE g <= t
    <3>1. i = g
      BY <2>1 DEF MinOf
    <3>2. CASE n <= t
      <4>1. c = n
        BY <3>2 DEF MinOf
      <4> QED
        BY <1>1, <1>3, <1>5, <3>1, <4>1
    <3>3. CASE ~(n <= t)
      <4>1. c = t
        BY <3>3 DEF MinOf
      <4>2. u * t <= u * n
        BY <1>1, <3>3, TimesLeq
      <4>3. u * g <= u * t
        BY <1>1, <2>1, TimesLeq
      <4> HIDE DEF c, i
      <4> QED
        BY <1>1, <1>3, <1>5, <3>1, <4>1, <4>2, <4>3
    <3> QED
      BY <3>2, <3>3
  <2>2. CASE ~(g <= t)
    <3>1. i = t
      BY <2>2 DEF MinOf
    <3>2. CASE n <= t
      <4>1. c = n
        BY <3>2 DEF MinOf
      <4>2. u * n <= u * t
        BY <1>1, <3>2, TimesLeq
      <4>3. u * t - 4 * t <= u * g - 4 * g
        <5>1. t * (u - 4) <= g * (u - 4)
          BY <1>1, <2>2, TimesLeq
        <5>2. t * (u - 4) = u * t - 4 * t /\ g * (u - 4) = u * g - 4 * g
          BY <1>1
        <5> QED
          BY <5>1, <5>2
      <4> HIDE DEF c, i
      <4> QED
        BY <1>1, <1>3, <1>5, <3>1, <4>1, <4>2, <4>3
    <3>3. CASE ~(n <= t)
      <4>1. c = t
        BY <3>3 DEF MinOf
      <4> QED
        BY <1>1, <1>5, <3>1, <4>1
    <3> QED
      BY <3>2, <3>3
  <2> QED
    BY <2>1, <2>2
<1> HIDE DEF c, i
<1>8. 2 * Absolute(c - i) * u <= 8 * i + e
  <2>1. Absolute(c - i) = c - i \/ Absolute(c - i) = -(c - i)
    BY DEF Absolute
  <2> QED
    BY <1>6, <1>7, <2>1
<1> QED
  BY <1>2, <1>8 DEF i, t, e

\* exponential_delay against min(max, b * m^(index-1)).
LEMMA ExponentialAccurate ==
    ASSUME NEW b \in Durations, NEW max \in Durations, b <= max,
           NEW m \in Nat, One <= m, Rounded(m, 1) = m, NEW index \in Nat \ {0}
    PROVE  LET k     == index - 1
               unit  == Pow(One, k)
               ideal == MinOf(b * Pow(m, k), max * unit)
           IN 2 * Absolute(ExponentialDelay(b, m, max, index) * unit - ideal) * U
                 <= 8 * ideal + U * unit
<1> DEFINE k == index - 1
           o == Pow(One, k)
           M == Pow(m, k)
           d == ExponentialDelay(b, m, max, index)
           i == MinOf(b * M, max * o)
<1>1. One \in Nat \ {0} /\ k \in Nat /\ b \in Nat /\ max \in Nat /\ U \in Nat /\ U >= 8
  BY OneFacts, BitsFacts DEF Durations
<1>2. o \in Nat /\ M \in Nat
  BY <1>1, PowLaws
<1>3. CASE index <= 1 \/ b = 0 \/ m = One
  <2>1. d = b
    BY <1>1, <1>3 DEF ExponentialDelay, MinOf
  <2>2. b = 0 \/ M = o
    <3>1. CASE index <= 1
      <4>1. k = 0
        BY <3>1
      <4> QED
        BY <1>1, <4>1, PowLaws
    <3> QED
      BY <1>3, <3>1
  <2> HIDE DEF o, M, d
  <2>3. b * M = b * o
    BY <1>1, <1>2, <2>2
  <2>4. b * o <= max * o /\ b * o \in Nat
    BY <1>1, <1>2, TimesLeq
  <2>5. i = b * o
    BY <2>3, <2>4 DEF MinOf
  <2>6. d * o - i = 0
    BY <2>1, <2>4, <2>5
  <2>7. Absolute(d * o - i) = 0
    BY <2>6 DEF Absolute
  <2>8. U * o \in Nat /\ i \in Nat
    BY <1>1, <1>2, <2>4, <2>5
  <2> HIDE DEF i
  <2>9. 2 * Absolute(d * o - i) * U <= 8 * i + U * o
    BY <1>1, <2>7, <2>8
  <2> QED
    BY <2>9 DEF d, o, i, M
<1>4. CASE ~(index <= 1 \/ b = 0 \/ m = One)
  <2>1. One < m /\ index >= 2 /\ k \in Nat \ {0} /\ b # 0
    BY <1>1, <1>4
  <2> DEFINE v == Nearest(Product(b, m, k), One)
             g == b * M
  <2>2. d = MinOf(v, max)
    BY <2>1, ExponentialValue
  <2>3. v \in Nat
    BY <2>1, ProductFacts, TryFacts
  <2>4. /\ 2 * (U * (v * o)) <= 2 * ((U + 4) * g) + U * o
        /\ 2 * ((U - 4) * g) <= 2 * (U * (v * o)) + U * o
    BY <2>1, GrowthFacts
  <2>5. g \in Nat
    BY <1>1, <1>2
  <2> HIDE DEF v, g, o, d, M
  <2>6. 2 * Absolute(MinOf(v, max) * o - MinOf(g, max * o)) * U
           <= 8 * MinOf(g, max * o) + U * o
    BY <1>1, <1>2, <2>3, <2>4, <2>5, Capping
  <2> QED
    BY <2>2, <2>6 DEF d, o, g, M
<1> QED
  BY <1>3, <1>4
\* Two roundings, with an exact product, cost less than that.
LEMMA TwoRoundings ==
    ASSUME NEW x \in Nat, NEW a \in Nat, NEW f \in Nat, NEW g \in Nat,
           Near(x, a), Near(f, g)
    PROVE  /\ U * (x * f) <= (U + 4) * (a * g)
           /\ (U - 4) * (a * g) <= U * (x * f)
<1>1. x * f \in Nat /\ U \in Nat
  BY BitsFacts
<1> DEFINE y == x * f
<1>2. U * y \in Nat
  BY <1>1
<1>3. Near(y, y)
  <2> HIDE DEF y
  <2> QED
    BY <1>1, <1>2 DEF Near, y
<1> QED
  BY <1>1, <1>3, ThreeRoundings

\* The seconds of a duration times a factor t, before they are read back.
LEMMA ScaledProduct ==
    ASSUME NEW b \in Durations, NEW t \in Nat
    PROVE  LET p == Rounded(Rounded(b * One, 1) * Rounded(t, 1), One)
           IN /\ p \in Nat
              /\ 2 * (U * p) <= 2 * ((U + 4) * (b * t)) + U
              /\ 2 * ((U - 4) * (b * t)) <= 2 * (U * p) + U
<1> DEFINE x == Rounded(b * One, 1)
           y == Rounded(t, 1)
           n == x * y
           p == Rounded(n, One)
           a == b * One
           s == b * t
<1>1. /\ One \in Nat \ {0} /\ U \in Nat \ {0} /\ U + 4 \in Nat /\ U - 4 \in Nat
      /\ b \in Nat /\ a \in Nat /\ s \in Nat
  BY OneFacts, BitsFacts DEF Durations
<1>2. x \in Nat /\ Near(x, a)
  BY SecsFacts
<1>3. y \in Nat /\ Near(y, t)
  <2>1. 1 \in Nat \ {0} /\ y \in Nat
    BY RoundedTwice
  <2>2. Near(y * 1, t)
    BY <2>1, RoundedError
  <2>3. y * 1 = y
    <3> HIDE DEF y
    <3> QED
      BY <2>1
  <2> QED
    BY <2>1, <2>2, <2>3
<1> HIDE DEF x, y
<1>4. n \in Nat
  BY <1>2, <1>3
<1> HIDE DEF n
<1>5. p \in Nat /\ (Near(p * One, n) \/ (2 * (p * One) <= 2 * n + One
                                         /\ 2 * n <= 2 * (p * One) + One))
  BY <1>1, <1>4, RoundedTwice, RoundedError
<1> HIDE DEF p, a
<1>6. p * One \in Nat /\ U * p \in Nat /\ (U + 4) * s \in Nat /\ (U - 4) * s \in Nat
  BY <1>1, <1>5
<1>7. a * t = s * One
  BY <1>1 DEF a
<1> HIDE DEF s
<1>8. /\ U * (p * One) = (U * p) * One
      /\ (U + 4) * (s * One) = ((U + 4) * s) * One
      /\ (U - 4) * (s * One) = ((U - 4) * s) * One
  BY <1>1, <1>5
<1>9. CASE Near(p * One, n)
  <2>1. U * (p * One) <= (U + 4) * (a * t) /\ (U - 4) * (a * t) <= U * (p * One)
    BY <1>1, <1>2, <1>3, <1>6, <1>9, ThreeRoundings DEF n
  <2>2. U * p <= (U + 4) * s /\ (U - 4) * s <= U * p
    BY <1>1, <1>6, <1>7, <1>8, <2>1, TimesCancel
  <2>3. 2 * (U * p) <= 2 * ((U + 4) * s) + U /\ 2 * ((U - 4) * s) <= 2 * (U * p) + U
    BY <1>1, <1>6, <2>2
  <2> QED
    BY <1>5, <2>3 DEF p, n, x, y, s
<1>10. CASE 2 * (p * One) <= 2 * n + One /\ 2 * n <= 2 * (p * One) + One
  <2>1. U * n <= (U + 4) * (a * t) /\ (U - 4) * (a * t) <= U * n
    BY <1>1, <1>2, <1>3, TwoRoundings DEF n
  <2>2. 2 * (U * (p * One)) <= 2 * (U * n) + U * One
        /\ 2 * (U * n) <= 2 * (U * (p * One)) + U * One
    <3> DEFINE q == p * One
    <3>1. (2 * q) * U <= (2 * n + One) * U /\ (2 * n) * U <= (2 * q + One) * U
      <4>1. 2 * q \in Nat /\ 2 * n + One \in Nat /\ 2 * n \in Nat /\ 2 * q + One \in Nat
        BY <1>1, <1>4, <1>6
      <4> QED
        BY <1>1, <1>10, <4>1, TimesLeq
    <3>2. q \in Nat
      BY <1>6
    <3> HIDE DEF q
    <3>3. /\ (2 * q) * U = 2 * (U * q) /\ (2 * n + One) * U = 2 * (U * n) + U * One
          /\ (2 * n) * U = 2 * (U * n) /\ (2 * q + One) * U = 2 * (U * q) + U * One
      BY <1>1, <1>4, <3>2
    <3> QED
      BY <3>1, <3>3 DEF q
  <2>3. (2 * (U * p)) * One <= (2 * ((U + 4) * s) + U) * One
        /\ (2 * ((U - 4) * s)) * One <= (2 * (U * p) + U) * One
    <3> DEFINE A == U * p
               B == (U + 4) * s
               C == (U - 4) * s
               D == U * n
    <3>1. 2 * (A * One) <= 2 * D + U * One /\ 2 * D <= 2 * (A * One) + U * One
          /\ D <= B * One /\ C * One <= D
      BY <1>7, <1>8, <2>1, <2>2
    <3>2. A \in Nat /\ B \in Nat /\ C \in Nat /\ D \in Nat
      BY <1>1, <1>4, <1>6
    <3> HIDE DEF A, B, C, D
    <3>3. /\ (2 * A) * One = 2 * (A * One) /\ (2 * B + U) * One = 2 * (B * One) + U * One
          /\ (2 * C) * One = 2 * (C * One) /\ (2 * A + U) * One = 2 * (A * One) + U * One
          /\ A * One \in Nat /\ B * One \in Nat /\ C * One \in Nat /\ U * One \in Nat
      BY <1>1, <3>2
    <3>4. (2 * A) * One <= (2 * B + U) * One /\ (2 * C) * One <= (2 * A + U) * One
      BY <3>1, <3>2, <3>3
    <3> QED
      BY <3>4 DEF A, B, C
  <2>4. 2 * (U * p) \in Nat /\ 2 * ((U + 4) * s) + U \in Nat /\ 2 * ((U - 4) * s) \in Nat
        /\ 2 * (U * p) + U \in Nat
    BY <1>1, <1>6
  <2>5. 2 * (U * p) <= 2 * ((U + 4) * s) + U /\ 2 * ((U - 4) * s) <= 2 * (U * p) + U
    BY <1>1, <2>3, <2>4, TimesCancel
  <2> QED
    BY <1>5, <2>5 DEF p, n, x, y, s
<1> QED
  BY <1>5, <1>9, <1>10

\* A factor up to 2.0 does not overflow.
LEMMA FactorFinite ==
    ASSUME NEW t \in Nat, t <= 2 * One
    PROVE  Float(t, 1) = Rounded(t, 1) /\ Rounded(t, 1) \in Nat
<1>1. One \in Nat \ {0} /\ Half \in Nat /\ U \in Nat /\ Half <= U /\ FloatMax \in Nat
      /\ MaxDuration \in Nat \ {0} /\ 2 * MaxDuration * One <= FloatMax
  BY OneFacts, BitsFacts, FloatAssumption, DurationAssumption
<1> PICK g \in Nat : One = Half * Pow(2, g)
  BY OneFacts
<1>2. 2 * One = Half * Pow(2, g + 1)
  <2>1. Pow(2, g + 1) = 2 * Pow(2, g) /\ Pow(2, g) \in Nat
    BY PowLaws
  <2> QED
    BY <1>1, <2>1
<1>3. Rounded(2 * One, 1) = 2 * One
  <2>1. g + 1 \in Nat
    OBVIOUS
  <2> QED
    BY <1>1, <1>2, <2>1, RoundedExact
<1>4. Rounded(t, 1) <= 2 * One /\ Rounded(t, 1) \in Nat
  <2>1. t * 1 <= (2 * One) * 1 /\ 2 * One \in Nat /\ 1 \in Nat \ {0}
    BY <1>1
  <2> QED
    BY <1>3, <2>1, RoundedMonotone, RoundedTwice
<1>5. 2 * One <= FloatMax
  <2>1. One <= MaxDuration * One
    BY <1>1
  <2>2. 2 * MaxDuration * One = 2 * (MaxDuration * One) /\ MaxDuration * One \in Nat
    BY <1>1
  <2> QED
    BY <1>1, <2>1, <2>2
<1>6. ~(Rounded(t, 1) > FloatMax)
  BY <1>1, <1>4, <1>5
<1>7. 1 \in Nat \ {0}
  OBVIOUS
<1> QED
  BY <1>4, <1>6, <1>7, FloatFacts
\* Saturation: seconds that reach those of the largest duration are read back as
\* the largest duration, which is then not far above b * t.
LEMMA SaturationAccurate ==
    ASSUME NEW p \in Nat, NEW s \in Nat,
           2 * (U * p) <= 2 * ((U + 4) * s) + U,
           p >= AsSecsF64(MaxDuration)
    PROVE  U * (MaxDuration * One) <= (U + 6) * s + U * One
<1> DEFINE C == MaxDuration * One
           X == AsSecsF64(MaxDuration)
           w == U - 1
<1>1. /\ One \in Nat \ {0} /\ U \in Nat \ {0} /\ U >= 8 /\ w \in Nat \ {0}
      /\ MaxDuration \in Durations /\ C \in Nat
  BY OneFacts, BitsFacts, DurationAssumption DEF Durations
<1>2. X \in Nat /\ Near(X, C)
  BY <1>1, SecsFacts
<1> HIDE DEF X, C
<1>3. U * C <= U * X + C
  BY <1>2 DEF Near
<1>4. U * X <= U * p
  <2>1. X <= p
    BY DEF X
  <2>2. X * U <= p * U
    BY <1>1, <1>2, <2>1, TimesLeq
  <2> QED
    BY <1>1, <1>2, <2>2
<1>5. U * C \in Nat /\ U * X \in Nat /\ U * p \in Nat /\ U * s \in Nat /\ U * One \in Nat
      /\ U * U \in Nat
  BY <1>1, <1>2
<1>6. (U + 4) * s = U * s + 4 * s /\ (U + 6) * s = U * s + 6 * s
  BY <1>1
<1>7. 2 * (U * C) - 2 * C <= 2 * (U * s) + 8 * s + U
  BY <1>1, <1>3, <1>4, <1>5, <1>6
<1>8. 2 * C <= 4 * s + U
  <2>1. (2 * C) * w = 2 * (U * C) - 2 * C
    BY <1>1
  <2>2. (4 * s + U) * w = 4 * (U * s) - 4 * s + U * U - U
    BY <1>1
  <2>3. 8 * U <= U * U
    BY <1>1, TimesLeq
  <2>4. 8 * s <= U * s
    BY <1>1, TimesLeq
  <2>5. (2 * C) * w <= (4 * s + U) * w
    BY <1>1, <1>5, <1>7, <2>1, <2>2, <2>3, <2>4
  <2>6. 2 * C \in Nat /\ 4 * s + U \in Nat
    BY <1>1
  <2> HIDE DEF w
  <2> QED
    BY <1>1, <2>5, <2>6, TimesCancel
<1>9. U <= U * One
  BY <1>1
<1>10. U * C <= U * s + 6 * s + U * One
  BY <1>1, <1>5, <1>7, <1>8, <1>9
<1> QED
  BY <1>6, <1>10 DEF C

\* scale_duration by a factor t up to 2.0, against b * t: never far above, and
\* never far below unless it saturates.
LEMMA ScaleAccurate ==
    ASSUME NEW b \in Durations, NEW t \in Nat, t <= 2 * One
    PROVE  LET c == ScaleDuration(b, Float(t, 1))
           IN /\ U * (c * One) <= (U + 6) * (b * t) + U * One
              /\ b <= c \/ (U - 4) * (b * t) <= U * (c * One) + U * One
<1> DEFINE x == Rounded(b * One, 1)
           y == Rounded(t, 1)
           p == Rounded(x * y, One)
           V == Nearest(p, One)
           s == b * t
           c == ScaleDuration(b, Float(t, 1))
           sec == Times(AsSecsF64(b), Float(t, 1))
<1>1. /\ One \in Nat \ {0} /\ U \in Nat \ {0} /\ U >= 8 /\ U - 4 \in Nat
      /\ MaxDuration \in Nat /\ FloatMax \in Nat /\ b \in Nat /\ b <= MaxDuration
      /\ s \in Nat /\ None \notin Int
  BY OneFacts, BitsFacts, DurationAssumption, FloatAssumption, NoDelayAssumption
  DEF Durations
<1>2. AsSecsF64(b) = x /\ x \in Nat /\ Float(t, 1) = y /\ y \in Nat
  BY SecsFacts, FactorFinite
<1>3. /\ p \in Nat
      /\ 2 * (U * p) <= 2 * ((U + 4) * s) + U
      /\ 2 * ((U - 4) * s) <= 2 * (U * p) + U
  BY ScaledProduct
<1>4. sec = IF p > FloatMax THEN Inf ELSE p
  <2>1. x * y \in Nat
    BY <1>2
  <2>2. sec = Float(x * y, One)
    BY <1>2 DEF Times, Inf, NaN
  <2> QED
    BY <1>1, <2>1, <2>2, FloatFacts
<1>5. V \in Nat /\ 2 * (V * One) <= 2 * p + One /\ 2 * p <= 2 * (V * One) + One
      /\ TryFromSecsF64(p) = IF V <= MaxDuration THEN V ELSE None
  BY <1>1, <1>3, NearestFacts, TryFacts
<1>6. \/ c = MaxDuration /\ (p > FloatMax \/ p >= AsSecsF64(MaxDuration) \/ V > MaxDuration)
      \/ c = V
  <2>1. c = IF ~IsFinite(sec) \/ sec >= AsSecsF64(MaxDuration)
               \/ TryFromSecsF64(sec) = None
            THEN MaxDuration ELSE TryFromSecsF64(sec)
    BY DEF ScaleDuration
  <2> HIDE DEF sec, c, V, p
  <2>2. CASE p > FloatMax
    BY <1>4, <2>1, <2>2 DEF IsFinite, Inf
  <2>3. CASE ~(p > FloatMax)
    <3>1. sec = p /\ IsFinite(sec)
      BY <1>3, <1>4, <2>3 DEF IsFinite
    <3> QED
      BY <1>1, <1>5, <2>1, <3>1
  <2> QED
    BY <2>2, <2>3
<1> HIDE DEF V, p, c, s, sec, x, y
<1>7. U * p \in Nat /\ U * s \in Nat /\ U * One \in Nat /\ V * One \in Nat
      /\ (U + 4) * s = U * s + 4 * s /\ (U + 6) * s = U * s + 6 * s /\ U <= U * One
      /\ (U - 4) * s = U * s - 4 * s /\ U * (V * One) \in Nat
  BY <1>1, <1>3, <1>5
<1>8. 2 * (U * (V * One)) <= 2 * (U * p) + U * One
      /\ 2 * (U * p) <= 2 * (U * (V * One)) + U * One
  <2> DEFINE q == V * One
  <2>1. q \in Nat /\ 2 * q \in Nat /\ 2 * p + One \in Nat /\ 2 * p \in Nat
        /\ 2 * q + One \in Nat
    BY <1>1, <1>3, <1>7
  <2>2. (2 * q) * U <= (2 * p + One) * U /\ (2 * p) * U <= (2 * q + One) * U
    BY <1>1, <1>5, <2>1, TimesLeq
  <2> HIDE DEF q
  <2>3. /\ (2 * q) * U = 2 * (U * q) /\ (2 * p + One) * U = 2 * (U * p) + U * One
        /\ (2 * p) * U = 2 * (U * p) /\ (2 * q + One) * U = 2 * (U * q) + U * One
    BY <1>1, <1>3, <2>1
  <2> QED
    BY <2>2, <2>3 DEF q
<1>9. /\ U * (V * One) <= (U + 6) * s + U * One
      /\ (U - 4) * s <= U * (V * One) + U * One
  BY <1>1, <1>3, <1>7, <1>8
<1>10. CASE c = V
  BY <1>9, <1>10 DEF c, s
<1>11. CASE /\ c = MaxDuration
            /\ p > FloatMax \/ p >= AsSecsF64(MaxDuration) \/ V > MaxDuration
  <2> DEFINE C == MaxDuration * One
  <2>1. C \in Nat /\ U * C \in Nat
    BY <1>1
  <2>2. CASE p > FloatMax
    <3>1. 2 * MaxDuration * One <= FloatMax
      BY FloatAssumption
    <3>2. 2 * MaxDuration * One = 2 * C
      BY <1>1
    <3> HIDE DEF C
    <3>3. C <= p
      BY <1>1, <1>3, <2>1, <2>2, <3>1, <3>2
    <3>4. C * U <= p * U
      BY <1>1, <1>3, <2>1, <3>3, TimesLeq
    <3>5. C * U = U * C /\ p * U = U * p
      BY <1>1, <1>3, <2>1
    <3>6. U * C <= (U + 6) * s + U * One
      BY <1>1, <1>3, <1>7, <2>1, <3>4, <3>5
    <3> QED
      BY <1>1, <1>11, <3>6 DEF c, s, C
  <2>3. CASE p >= AsSecsF64(MaxDuration)
    <3>1. U * C <= (U + 6) * s + U * One
      BY <1>1, <1>3, <2>3, SaturationAccurate
    <3> QED
      BY <1>1, <1>11, <3>1 DEF c, s
  <2>4. CASE V > MaxDuration
    <3>1. MaxDuration <= V
      BY <1>1, <1>5, <2>4
    <3>2. C <= V * One
      BY <1>1, <1>5, <3>1, TimesLeq
    <3> HIDE DEF C
    <3>3. C * U <= (V * One) * U
      BY <1>1, <1>7, <2>1, <3>2, TimesLeq
    <3>4. C * U = U * C /\ (V * One) * U = U * (V * One)
      BY <1>1, <1>5, <2>1
    <3>5. U * C <= (U + 6) * s + U * One
      BY <1>1, <1>7, <1>9, <2>1, <3>3, <3>4
    <3> QED
      BY <1>1, <1>11, <3>5 DEF c, s, C
  <2> QED
    BY <1>11, <2>2, <2>3, <2>4
<1> QED
  BY <1>6, <1>10, <1>11

\* Bounded jitter, whatever the sample: within ratio * b of b, up to a tick and
\* the roundings.
LEMMA JitterAccurate ==
    ASSUME NEW p \in BackoffPolicies, p.jitter.kind = "Bounded",
           NEW b \in Durations, NEW x \in Numbers
    PROVE  LET d == ApplyJitter(p, b, x)
               r == p.jitter.ratio
           IN Absolute(d - b) * One * U <= r * b * U + 6 * (One + r) * b + U * One
<1> DEFINE r == p.jitter.ratio
           d == ApplyJitter(p, b, x)
           lo == ScaleDuration(b, Float(One - r, 1))
           hi == ScaleDuration(b, Float(One + r, 1))
<1>1. /\ One \in Nat \ {0} /\ U \in Nat \ {0} /\ U >= 8 /\ b \in Nat
  BY OneFacts, BitsFacts DEF Durations
<1>2. r \in Nat /\ r <= One /\ One - r \in Nat /\ One + r \in Nat
  BY RatioFacts
<1>3. lo \in Durations /\ hi \in Durations
  BY RatioFacts, ScaleTyped
<1>4. d = IF r = 0 THEN b ELSE Interpolate(lo, hi, x)
  BY DEF ApplyJitter
<1>5. d \in Durations
  BY JitterTyped
<1> HIDE DEF r, d
<1>6. One - r <= 2 * One /\ One + r <= 2 * One
  BY <1>1, <1>2
<1>7. /\ U * (lo * One) <= (U + 6) * (b * (One - r)) + U * One
      /\ b <= lo \/ (U - 4) * (b * (One - r)) <= U * (lo * One) + U * One
      /\ U * (hi * One) <= (U + 6) * (b * (One + r)) + U * One
  BY <1>2, <1>6, ScaleAccurate
<1> HIDE DEF lo, hi
<1>8. lo \in Nat /\ hi \in Nat /\ d \in Nat
  BY <1>3, <1>5 DEF Durations
<1> DEFINE B == b * One
           R == b * r
           E == (U * R + 6 * B + 6 * R) + U * One
<1>9. /\ B \in Nat /\ R \in Nat /\ R <= B /\ U * B \in Nat /\ U * R \in Nat
      /\ U * One \in Nat /\ E \in Nat
  <2>1. r * b <= One * b
    BY <1>1, <1>2, TimesLeq
  <2>2. r * b = R /\ One * b = B
    BY <1>1, <1>2
  <2> QED
    BY <1>1, <1>2, <2>1, <2>2
<1>10. /\ b * (One - r) = B - R /\ b * (One + r) = B + R
  BY <1>1, <1>2
<1> HIDE DEF B, R
<1>11. /\ (U + 6) * (B - R) = U * B - U * R + 6 * B - 6 * R
       /\ (U - 4) * (B - R) = U * B - U * R - 4 * B + 4 * R
       /\ (U + 6) * (B + R) = U * B + U * R + 6 * B + 6 * R
  BY <1>1, <1>9
<1>12. U * (lo * One) \in Nat /\ U * (hi * One) \in Nat /\ U * (d * One) \in Nat
  BY <1>1, <1>8
<1>13. /\ U * (lo * One) <= U * B + E
       /\ U * (hi * One) <= U * B + E
       /\ b <= lo \/ U * B <= U * (lo * One) + E
  BY <1>1, <1>7, <1>9, <1>10, <1>11, <1>12
<1> HIDE DEF E
<1>14. \A i, j \in Nat : i <= j => U * (i * One) <= U * (j * One)
  <2> SUFFICES ASSUME NEW i \in Nat, NEW j \in Nat, i <= j
               PROVE  U * (i * One) <= U * (j * One)
    OBVIOUS
  <2>1. U * One \in Nat
    BY <1>1
  <2>2. i * (U * One) <= j * (U * One)
    BY <2>1, TimesLeq
  <2> QED
    BY <1>1, <2>2
<1>15. U * (d * One) <= U * B + E /\ U * B <= U * (d * One) + E
  <2>1. CASE r = 0
    <3>1. d = b
      BY <1>4, <2>1
    <3> QED
      BY <1>9, <3>1 DEF B
  <2>2. CASE r # 0
    <3>1. d = Interpolate(lo, hi, x)
      BY <1>4, <2>2
    <3>2. lo <= d /\ (d <= lo \/ d <= hi)
      <4>1. CASE lo <= hi
        <5>1. d \in lo .. hi
          BY <1>3, <3>1, <4>1, InterpolateFacts
        <5> QED
          BY <1>8, <5>1
      <4>2. CASE hi <= lo
        <5>1. d = lo
          BY <1>3, <3>1, <4>2, InterpolateFacts
        <5> QED
          BY <1>8, <5>1
      <4> QED
        BY <1>8, <4>1, <4>2
    <3>3. U * (lo * One) <= U * (d * One)
      BY <1>8, <1>14, <3>2
    <3>4. U * (d * One) <= U * B + E
      <4>1. U * (d * One) <= U * (lo * One) \/ U * (d * One) <= U * (hi * One)
        BY <1>8, <1>14, <3>2
      <4> QED
        BY <1>9, <1>12, <1>13, <4>1
    <3>5. U * B <= U * (d * One) + E
      <4>1. CASE b <= lo
        <5>1. U * (b * One) <= U * (lo * One)
          BY <1>1, <1>8, <1>14, <4>1
        <5> QED
          BY <1>9, <1>12, <3>3, <5>1 DEF B
      <4> QED
        BY <1>9, <1>12, <1>13, <3>3, <4>1
    <3> QED
      BY <3>4, <3>5
  <2> QED
    BY <2>1, <2>2
<1>16. Absolute(d - b) * One * U <= E
  <2>1. /\ (d - b) * One * U = U * (d * One) - U * B
        /\ (-(d - b)) * One * U = U * B - U * (d * One)
    BY <1>1, <1>8 DEF B
  <2>2. Absolute(d - b) = d - b \/ Absolute(d - b) = -(d - b)
    BY DEF Absolute
  <2> QED
    BY <1>9, <1>12, <1>15, <2>1, <2>2
<1>17. E = r * b * U + 6 * (One + r) * b + U * One
  BY <1>1, <1>2 DEF E, B, R
<1> QED
  BY <1>16, <1>17 DEF d, r
-----------------------------------------------------------------------------
(***************************************************************************)
(* The state machine.                                                      *)
(***************************************************************************)

\* A step is one that the policy resolves for its index and the request, from
\* some samples.
Resolves(p, r, q) ==
    \E u, s, h \in Numbers :
       q = Resolve(p, BaseDelay(p, q.retry_index, u), r, q.retry_index, s, h)

\* The inductive invariant: a policy in use no longer changes, so that the latest
\* step remains one that it resolves, while steps have been selected since the
\* reset the latest has the index of the state, and that index is their number
\* until it saturates.
Inv ==
    /\ TypeOK
    /\ Floating(policy)
    /\ step # None => started /\ request \in Requests /\ Resolves(policy, request, step)
    /\ selected > 0 => step # None /\ step.retry_index = retry_index
    /\ retry_index = MinOf(selected, MaxIndex)

\* 0.0 is a floating-point number: the sample of a draw that is not needed.
LEMMA ZeroNumber == 0 \in Numbers
BY RoundedZero DEF Numbers

\* The constructors' policies, once validated.
LEMMA ConstructedFacts ==
    ASSUME NEW p \in Constructed, Validate(p)
    PROVE  p \in BackoffPolicies /\ Floating(p)
<1> PICK s \in {Strategy("Immediate", 0, 0, 0)}
               \union {Strategy("Fixed", d, d, 0) : d \in Delays}
               \union {Strategy("Uniform", lo, hi, 0) : lo, hi \in Delays}
               \union {Strategy("Exponential", lo, hi, x) :
                          lo, hi \in Delays, x \in Multipliers} : p = WithStrategy(s)
  BY DEF Constructed
<1>1. Delays \subseteq Durations /\ 0 \in Durations
  BY InputAssumption, DurationAssumption DEF Durations
<1>2. Multipliers \subseteq Int /\ Multipliers \subseteq Numbers
  BY InputAssumption DEF Numbers, Inf, NaN, Negative
<1>3. s \in Strategies /\ s.multiplier \in Numbers
  <2>1. CASE s = Strategy("Immediate", 0, 0, 0)
    BY <2>1, ZeroNumber DEF Strategy, Strategies
  <2>2. CASE s \in {Strategy("Fixed", d, d, 0) : d \in Delays}
    <3> PICK d \in Delays : s = Strategy("Fixed", d, d, 0)
      BY <2>2
    <3>1. s \in {t \in [kind : {"Fixed"}, min : Durations, max : Durations,
                        multiplier : {0}] : t.min = t.max}
      BY <1>1 DEF Strategy
    <3> QED
      BY <3>1, ZeroNumber DEF Strategy, Strategies
  <2>3. CASE s \in {Strategy("Uniform", lo, hi, 0) : lo, hi \in Delays}
    <3> PICK lo \in Delays, hi \in Delays : s = Strategy("Uniform", lo, hi, 0)
      BY <2>3
    <3>1. s \in [kind : {"Uniform"}, min : Durations, max : Durations, multiplier : {0}]
      BY <1>1 DEF Strategy
    <3> QED
      BY <3>1, ZeroNumber DEF Strategy, Strategies
  <2>4. CASE s \in {Strategy("Exponential", lo, hi, x) :
                       lo, hi \in Delays, x \in Multipliers}
    <3> PICK lo \in Delays, hi \in Delays, x \in Multipliers :
               s = Strategy("Exponential", lo, hi, x)
      BY <2>4
    <3>1. s \in [kind : {"Exponential"}, min : Durations, max : Durations,
                 multiplier : Int]
      BY <1>1, <1>2 DEF Strategy
    <3>2. s.multiplier \in Numbers
      BY <1>2 DEF Strategy
    <3> QED
      BY <3>1, <3>2 DEF Strategies
  <2> QED
    BY <2>1, <2>2, <2>3, <2>4
<1>4. Jitter("None", 0) \in Jitters /\ "AtLeastBackoff" \in RetryAfter
  BY DEF Jitter, Jitters, RetryAfter
<1>5. p \in [strategy : Strategies, jitter : Jitters, retry_after : RetryAfter,
             delay_limit : Durations \union {None}]
  BY <1>3, <1>4 DEF WithStrategy
<1>6. p.strategy = s /\ p.jitter.ratio = 0
  BY DEF WithStrategy, Jitter
<1> QED
  BY <1>3, <1>5, <1>6, ZeroNumber DEF BackoffPolicies, Floating

\* The fluent methods leave a valid policy.
LEMMA ConfiguredFacts ==
    ASSUME policy \in BackoffPolicies, Floating(policy), Configure
    PROVE  policy' \in BackoffPolicies /\ Floating(policy')
<1>1. CASE SetJitter
  <2> PICK j \in {Jitter("None", 0), Jitter("Full", 0)}
                 \union {Jitter("Bounded", r) : r \in Ratios} :
             policy' = [policy EXCEPT !.jitter = j] /\ Validate(policy')
    BY <1>1 DEF SetJitter
  <2>1. Ratios \subseteq Int /\ Ratios \subseteq Numbers
    BY InputAssumption DEF Numbers, Inf, NaN, Negative
  <2>2. j \in Jitters /\ j.ratio \in Numbers
    BY <2>1, ZeroNumber DEF Jitter, Jitters
  <2>3. policy'.jitter = j /\ policy'.strategy = policy.strategy
    BY DEF BackoffPolicies
  <2> QED
    BY <2>2, <2>3 DEF BackoffPolicies, Floating
<1>2. CASE SetRetryAfter
  <2> PICK r \in RetryAfter : policy' = [policy EXCEPT !.retry_after = r]
    BY <1>2 DEF SetRetryAfter
  <2>1. policy'.jitter = policy.jitter /\ policy'.strategy = policy.strategy
    BY DEF BackoffPolicies
  <2> QED
    BY <2>1 DEF BackoffPolicies, Floating, Validate
<1>3. CASE LimitDelay
  <2> PICK d \in Limits : policy' = [policy EXCEPT !.delay_limit = d]
    BY <1>3 DEF LimitDelay
  <2>1. policy'.jitter = policy.jitter /\ policy'.strategy = policy.strategy
    BY DEF BackoffPolicies
  <2>2. d \in Durations
    BY InputAssumption
  <2> QED
    BY <2>1, <2>2 DEF BackoffPolicies, Floating, Validate
<1> QED
  BY <1>1, <1>2, <1>3 DEF Configure

\* Saturation: the next index.
LEMMA IndexFacts ==
    ASSUME NEW i \in 0 .. MaxIndex
    PROVE  /\ IndexSuccessor(i) \in 1 .. MaxIndex
           /\ IndexSuccessor(i) = i + 1 \/ IndexSuccessor(i) = i
BY IndexAssumption DEF IndexSuccessor, MinOf

\* What a step is, given the samples.
LEMMA NextDelayFacts ==
    ASSUME TypeOK, Floating(policy), NEW r \in Requests, NextDelay(r)
    PROVE  /\ step' \in Steps /\ step'.retry_index = IndexSuccessor(retry_index)
           /\ Resolves(policy, r, step')
<1> DEFINE index == IndexSuccessor(retry_index)
<1>1. index \in 1 .. MaxIndex /\ index \in Nat /\ policy \in BackoffPolicies
  BY IndexFacts, IndexAssumption DEF TypeOK
<1>2. \A needed : DrawnIf(needed) \subseteq Numbers
  BY InputAssumption, ZeroNumber DEF DrawnIf
<1>3. PICK u \in Numbers, s \in Numbers, h \in Numbers :
             step' = Resolve(policy, BaseDelay(policy, index, u), r, index, s, h)
  BY <1>2 DEF NextDelay
<1>4. BaseDelay(policy, index, u) \in Durations
  BY <1>1, BaseFacts
<1>5. step' \in Steps /\ step'.retry_index = index
  BY <1>1, <1>3, <1>4, ResolveFacts
<1> QED
  BY <1>3, <1>5 DEF Resolves

\* The invariant holds of a validated policy that has not been used.
LEMMA InitInv == Init => Inv
<1> SUFFICES ASSUME Init PROVE Inv
  OBVIOUS
<1>1. policy \in BackoffPolicies /\ Floating(policy)
  BY ConstructedFacts DEF Init
<1>2. retry_index \in 0 .. MaxIndex /\ selected \in 0 .. MaxSteps
  BY IndexAssumption DEF Init
<1>3. started \in BOOLEAN /\ request \in {None} /\ step \in {None}
  BY DEF Init
<1>4. TypeOK
  BY <1>1, <1>2, <1>3 DEF TypeOK
<1>5. step = None /\ ~(selected > 0) /\ retry_index = MinOf(selected, MaxIndex)
  BY IndexAssumption DEF Init, MinOf
<1> QED
  BY <1>1, <1>4, <1>5 DEF Inv

\* Every operation preserves it.
LEMMA NextInv == Inv /\ [Next]_vars => Inv'
<1> SUFFICES ASSUME Inv, [Next]_vars PROVE Inv'
  OBVIOUS
<1> USE DEF Inv
<1>1. CASE Configure
  <2>1. step = None
    BY <1>1 DEF Configure
  <2>2. policy' \in BackoffPolicies /\ Floating(policy')
    BY <1>1, ConfiguredFacts DEF TypeOK
  <2> QED
    BY <1>1, <2>1, <2>2 DEF Configure, TypeOK
<1>2. CASE Start
  <2>1. UNCHANGED <<policy, retry_index, request, step, selected>> /\ started' = TRUE
    BY <1>2 DEF Start
  <2> QED
    BY <2>1 DEF TypeOK, Floating, Resolves
<1>3. CASE Reset
  <2>1. UNCHANGED <<policy, started, request, step>> /\ retry_index' = 0 /\ selected' = 0
    BY <1>3 DEF Reset
  <2> QED
    BY <2>1, IndexAssumption DEF TypeOK, Floating, Resolves, MinOf
<1>4. ASSUME NEW r \in Requests, NextDelay(r) PROVE Inv'
  <2>1. /\ step' \in Steps /\ step'.retry_index = IndexSuccessor(retry_index)
        /\ Resolves(policy, r, step')
    BY <1>4, NextDelayFacts
  <2>2. /\ started /\ retry_index' = IndexSuccessor(retry_index) /\ request' = r
        /\ selected < MaxSteps /\ selected' = selected + 1
        /\ policy' = policy /\ started' = started
    BY <1>4 DEF NextDelay
  <2>3. IndexSuccessor(retry_index) \in 0 .. MaxIndex
    BY IndexFacts DEF TypeOK
  <2>4. selected' \in 0 .. MaxSteps
    BY <2>2, IndexAssumption DEF TypeOK
  <2>5. step' # None
    BY <2>1, NoneAssumption
  <2>6. TypeOK'
    BY <2>1, <2>2, <2>3, <2>4 DEF TypeOK
  <2>7. Floating(policy)' /\ Resolves(policy, request, step)'
    BY <2>1, <2>2 DEF Floating, Resolves
  <2>8. retry_index' = MinOf(selected', MaxIndex)
    BY <2>2, IndexAssumption DEF TypeOK, IndexSuccessor, MinOf
  <2> QED
    BY <2>1, <2>2, <2>5, <2>6, <2>7, <2>8
<1>5. CASE UNCHANGED vars
  BY <1>5 DEF vars, TypeOK, Floating, Resolves
<1> QED
  BY <1>1, <1>2, <1>3, <1>4, <1>5 DEF Next

\* The invariant holds of every state of every backoff.
THEOREM Invariance == Spec => []Inv
BY InitInv, NextInv, PTL DEF Spec

\* Every delay that next returns is a duration the code can hold, and the policy
\* in use passed validate.
THEOREM TypeCorrect == Spec => []TypeOK
<1>1. Inv => TypeOK
  BY DEF Inv
<1> QED
  BY Invariance, <1>1, PTL

\* The latest step, with the samples it was resolved from.
LEMMA LatestStep ==
    ASSUME Inv, step # None
    PROVE  /\ policy \in BackoffPolicies /\ Floating(policy) /\ request \in Requests
           /\ step \in Steps /\ step.retry_index \in 1 .. MaxIndex
           /\ step.retry_index \in Nat \ {0}
           /\ \E u, s, h \in Numbers :
                 LET b == BaseDelay(policy, step.retry_index, u) IN
                 /\ b \in Durations /\ step.base_delay = b
                 /\ step = Resolve(policy, b, request, step.retry_index, s, h)
<1>1. /\ policy \in BackoffPolicies /\ Floating(policy) /\ request \in Requests
      /\ step \in Steps /\ Resolves(policy, request, step)
  BY DEF Inv, TypeOK
<1>2. step.retry_index \in 1 .. MaxIndex /\ step.retry_index \in Nat \ {0}
  BY <1>1, IndexAssumption DEF Steps
<1>3. PICK u \in Numbers, s \in Numbers, h \in Numbers :
             step = Resolve(policy, BaseDelay(policy, step.retry_index, u), request,
                            step.retry_index, s, h)
  BY <1>1 DEF Resolves
<1>4. BaseDelay(policy, step.retry_index, u) \in Durations
  BY <1>1, <1>2, BaseFacts
<1>5. step.base_delay = BaseDelay(policy, step.retry_index, u)
  BY <1>1, <1>2, <1>3, <1>4, ResolveFacts
<1> QED
  BY <1>1, <1>2, <1>3, <1>4, <1>5

\* The base delay stays in the strategy's range, when powers overflow and for
\* every sample.
THEOREM BaseStaysBounded == Spec => []BaseBounded
<1>1. Inv => BaseBounded
  <2> SUFFICES ASSUME Inv, step # None
               PROVE  step.base_delay \in policy.strategy.min .. policy.strategy.max
    BY DEF BaseBounded, MaximumDelay
  <2>1. PICK u \in Numbers : step.base_delay = BaseDelay(policy, step.retry_index, u)
    BY LatestStep
  <2> QED
    BY <2>1, LatestStep, BaseFacts
<1> QED
  BY Invariance, <1>1, PTL

\* The cap binds every delay, and it alone shortens a hint.
THEOREM HintStaysHonoured == Spec => []HintHonoured
<1>1. Inv => HintHonoured
  <2> SUFFICES ASSUME Inv, step # None PROVE HintHonoured
    BY DEF HintHonoured
  <2>1. PICK u \in Numbers, s \in Numbers, h \in Numbers :
               LET b == BaseDelay(policy, step.retry_index, u) IN
               /\ b \in Durations /\ step.base_delay = b
               /\ step = Resolve(policy, b, request, step.retry_index, s, h)
    BY LatestStep
  <2> DEFINE b == BaseDelay(policy, step.retry_index, u)
  <2>2. /\ policy \in BackoffPolicies /\ request \in Requests
        /\ step.retry_index \in 1 .. MaxIndex
    BY LatestStep
  <2>3. /\ policy.delay_limit # None => step.effective_delay <= policy.delay_limit
        /\ (step.source = "Hint" /\ ~request.jitter_hint) =>
              step.effective_delay = Capped(policy, request.hint)
        /\ (step.source = "Merged" /\ ~request.jitter_hint) =>
              step.effective_delay >= Capped(policy, request.hint)
        /\ (step.source = "Merged" /\ policy.jitter.kind = "None") =>
              step.effective_delay >= Capped(policy, b)
    BY <2>1, <2>2, ResolveFacts
  <2> QED
    BY <2>1, <2>3 DEF HintHonoured
<1> QED
  BY Invariance, <1>1, PTL

\* Exponential base delays never shrink between resets, at saturation of the
\* index, of the delay and of the floating-point range neither.
THEOREM DelaysNeverShrink == Spec => NeverShrinks
<1>1. Inv /\ [Next]_vars =>
         [(/\ policy.strategy.kind = "Exponential"
           /\ selected > 0 /\ selected' > selected) =>
            step'.base_delay >= step.base_delay]_vars
  <2> SUFFICES ASSUME Inv, Next, policy.strategy.kind = "Exponential",
                      selected > 0, selected' > selected
               PROVE  step'.base_delay >= step.base_delay
    OBVIOUS
  <2>1. selected \in Nat
    BY IndexAssumption DEF Inv, TypeOK
  <2>2. PICK r \in Requests : NextDelay(r)
    BY <2>1 DEF Next, Configure, Start, Reset
  <2>3. Inv'
    BY NextInv
  <2>4. step # None /\ step.retry_index = retry_index
    BY DEF Inv
  <2>5. step' # None /\ policy' = policy /\ step'.retry_index = IndexSuccessor(retry_index)
    BY <2>2, NextDelayFacts, NoneAssumption DEF Inv, NextDelay
  <2> DEFINE D(i) == ExponentialDelay(policy.strategy.min, policy.strategy.multiplier,
                                      policy.strategy.max, i)
  <2>6. \A i, u : BaseDelay(policy, i, u) = D(i)
    BY DEF BaseDelay
  <2>7. step.base_delay = D(retry_index)
    BY <2>4, <2>6, LatestStep
  <2>8. step'.base_delay = D(IndexSuccessor(retry_index))
    <3>1. PICK u \in Numbers, s \in Numbers, h \in Numbers :
                 step' = Resolve(policy, BaseDelay(policy, IndexSuccessor(retry_index), u),
                                 r, IndexSuccessor(retry_index), s, h)
      BY <2>2, InputAssumption, ZeroNumber DEF NextDelay, DrawnIf
    <3> QED
      BY <2>6, <3>1 DEF Resolve
  <2>9. /\ policy.strategy.min \in Durations /\ policy.strategy.max \in Durations
        /\ policy.strategy.min <= policy.strategy.max
    BY PolicyFacts DEF Inv, TypeOK
  <2>10. LET m == policy.strategy.multiplier IN
         m \in Nat /\ One <= m /\ Rounded(m, 1) = m
    BY MultiplierFacts DEF Inv, TypeOK
  <2>11. retry_index \in Nat /\ retry_index \in 0 .. MaxIndex
    BY IndexAssumption DEF Inv, TypeOK
  <2>12. D(retry_index) <= D(retry_index + 1)
         /\ D(retry_index) \in policy.strategy.min .. policy.strategy.max
    BY <2>9, <2>10, <2>11, ExponentialFacts
  <2>13. D(retry_index + 1) \in policy.strategy.min .. policy.strategy.max
    <3>1. retry_index + 1 \in Nat
      BY <2>11
    <3> QED
      BY <2>9, <2>10, <3>1, ExponentialFacts
  <2>14. Durations \subseteq Nat
    BY DEF Durations
  <2> HIDE DEF D
  <2>15. D(IndexSuccessor(retry_index)) >= D(retry_index)
    BY <2>9, <2>11, <2>12, <2>13, <2>14, IndexFacts
  <2> QED
    BY <2>7, <2>8, <2>15
<1> QED
  BY Invariance, <1>1, PTL DEF Spec, NeverShrinks

\* Exponential growth is accurate: the base delay is min(max, b * m^(k-1)) up to
\* three roundings and half a tick for the k-th delay since the start or a reset,
\* however many there are.
THEOREM GrowthStaysAccurate == Spec => []GrowthAccurate
<1>1. Inv => GrowthAccurate
  <2> SUFFICES ASSUME Inv, selected > 0, policy.strategy.kind = "Exponential"
               PROVE  GrowthAccurate
    BY DEF GrowthAccurate
  <2> DEFINE b == policy.strategy.min
             max == policy.strategy.max
             m == policy.strategy.multiplier
             index == MinOf(selected, MaxIndex)
  <2>1. /\ step # None /\ step.retry_index = index
        /\ policy \in BackoffPolicies /\ Floating(policy) /\ index \in Nat \ {0}
    BY LatestStep DEF Inv
  <2>2. b \in Durations /\ max \in Durations /\ b <= max
    BY <2>1, PolicyFacts
  <2>3. m \in Nat /\ One <= m /\ Rounded(m, 1) = m
    BY <2>1, MultiplierFacts
  <2>4. step.base_delay = ExponentialDelay(b, m, max, index)
    BY <2>1, LatestStep DEF BaseDelay
  <2> HIDE DEF b, max, m, index
  <2>5. LET k     == index - 1
            unit  == Pow(One, k)
            ideal == MinOf(b * Pow(m, k), max * unit)
        IN 2 * Absolute(step.base_delay * unit - ideal) * U <= 8 * ideal + U * unit
    BY <2>1, <2>2, <2>3, <2>4, ExponentialAccurate
  <2> QED
    BY <2>5 DEF GrowthAccurate, b, max, m, index, U
<1> QED
  BY Invariance, <1>1, PTL

\* Jitter moves a delay no further than its kind and ratio allow, whatever the
\* random source returns.
THEOREM JitterStaysBounded == Spec => []JitterBounded
<1>1. Inv => JitterBounded
  <2> SUFFICES ASSUME Inv, step # None, step.source = "Policy", policy.delay_limit = None
               PROVE  JitterBounded
    BY DEF JitterBounded
  <2>1. PICK u \in Numbers, s \in Numbers, h \in Numbers :
               LET b == BaseDelay(policy, step.retry_index, u) IN
               /\ b \in Durations /\ step.base_delay = b
               /\ step = Resolve(policy, b, request, step.retry_index, s, h)
    BY LatestStep
  <2> DEFINE b == step.base_delay
             d == step.effective_delay
             r == policy.jitter.ratio
  <2>2. /\ policy \in BackoffPolicies /\ request \in Requests
        /\ step.retry_index \in 1 .. MaxIndex
    BY LatestStep
  <2>3. b \in Durations /\ d = ApplyJitter(policy, b, s)
    BY <2>1, <2>2, ResolveFacts
  <2>4. policy.jitter.kind \in {"None", "Full", "Bounded"}
    BY <2>2, PolicyFacts
  <2>5. CASE policy.jitter.kind = "None"
    <3>1. d = b
      BY <2>2, <2>3, <2>5, JitterTyped
    <3> QED
      BY <2>5, <3>1 DEF JitterBounded
  <2>6. CASE policy.jitter.kind = "Full"
    <3>1. d <= b
      BY <2>2, <2>3, <2>6, JitterTyped
    <3> QED
      BY <2>6, <3>1 DEF JitterBounded
  <2>7. CASE policy.jitter.kind = "Bounded"
    <3>1. Absolute(d - b) * One * U <= r * b * U + 6 * (One + r) * b + U * One
      BY <2>2, <2>3, <2>7, JitterAccurate
    <3> QED
      BY <2>7, <3>1 DEF JitterBounded, U
  <2> QED
    BY <2>4, <2>5, <2>6, <2>7
<1> QED
  BY Invariance, <1>1, PTL
=============================================================================
