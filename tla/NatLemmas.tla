----------------------------- MODULE NatLemmas ------------------------------
(***************************************************************************)
(* Facts about sets of natural numbers that proofs elsewhere need.  The    *)
(* first one stands in for induction: assume that a statement fails for    *)
(* some number, and take the least number for which it fails.              *)
(***************************************************************************)
EXTENDS Integers, WellFoundedInduction, TLAPS

\* A nonempty set of natural numbers has a least element.
LEMMA LeastNumber ==
  ASSUME NEW S \in SUBSET Nat, S # {}
  PROVE  \E m \in S : \A n \in S : m <= n
<1>1. OpToRel(<, Nat) = {ss \in Nat \X Nat : ss[1] < ss[2]}
  BY Zenon DEF OpToRel
<1>2. PICK m \in S : \A n \in S : ~(<<n, m>> \in OpToRel(<, Nat))
  BY WFMin, NatLessThanWellFounded
<1>3. ASSUME NEW n \in S PROVE m <= n
  <2>1. <<n, m>> \notin {ss \in Nat \X Nat : ss[1] < ss[2]}
    BY <1>1, <1>2
  <2> QED BY <2>1
<1> QED BY <1>3

\* A nonempty bounded set of natural numbers has a greatest element.
LEMMA GreatestNumber ==
  ASSUME NEW b \in Nat, NEW S \in SUBSET (0..b), S # {}
  PROVE  \E m \in S : \A n \in S : n <= m
<1> DEFINE gaps == {k \in Nat : \E n \in S : k = b - n}
<1>1. gaps \in SUBSET Nat
  OBVIOUS
<1>2. gaps # {}
  <2>1. PICK n \in S : TRUE
    OBVIOUS
  <2>2. b - n \in Nat
    BY <2>1
  <2> QED BY <2>1, <2>2
<1> HIDE DEF gaps
<1>3. PICK g \in gaps : \A k \in gaps : g <= k
  BY <1>1, <1>2, LeastNumber
<1>4. PICK m \in S : g = b - m
  BY <1>3 DEF gaps
<1>5. ASSUME NEW n \in S PROVE n <= m
  <2>1. b - n \in gaps
    BY DEF gaps
  <2>2. g <= b - n
    BY <2>1, <1>3
  <2> QED BY <2>2, <1>4
<1> QED BY <1>5

-----------------------------------------------------------------------------
(* Multiples of n, and rounding down to them.                              *)

LEMMA Division ==
  ASSUME NEW a \in Int, NEW n \in Nat \ {0}
  PROVE  \E q \in Int, r \in 0..n - 1 : a = n * q + r /\ a % n = r /\ a \div n = q
<1>1. PICK q \in Int : q = a \div n
  OBVIOUS
<1>2. PICK r \in 0..n - 1 : r = a % n
  OBVIOUS
<1>3. a = n * q + r
  BY <1>1, <1>2
<1> QED BY <1>1, <1>2, <1>3

LEMMA Multiple ==
  ASSUME NEW k \in Int, NEW n \in Nat \ {0}
  PROVE  (k * n) % n = 0
OBVIOUS

LEMMA MultipleOf ==
  ASSUME NEW a \in Int, NEW n \in Nat \ {0}, a % n = 0
  PROVE  \E k \in Int : a = k * n
OBVIOUS

LEMMA MultiplesSum ==
  ASSUME NEW a \in Int, NEW b \in Int, NEW n \in Nat \ {0}, a % n = 0, b % n = 0
  PROVE  (a + b) % n = 0 /\ (a - b) % n = 0
<1>1. PICK k \in Int : a = k * n
  BY MultipleOf
<1>2. PICK l \in Int : b = l * n
  BY MultipleOf
<1>3. a + b = (k + l) * n /\ a - b = (k - l) * n
  BY <1>1, <1>2
<1>4. ((k + l) * n) % n = 0 /\ ((k - l) * n) % n = 0
  BY Multiple
<1> QED BY <1>3, <1>4

LEMMA MultiplesApart ==
  ASSUME NEW a \in Int, NEW b \in Int, NEW n \in Nat \ {0}, a % n = 0, b % n = 0, a < b
  PROVE  a + n <= b
<1>1. PICK k \in Int : a = k * n
  BY MultipleOf
<1>2. PICK l \in Int : b = l * n
  BY MultipleOf
<1> QED BY <1>1, <1>2

LEMMA RoundedDown ==
  ASSUME NEW a \in Int, NEW n \in Nat \ {0}
  PROVE  /\ a - (a % n) \in Int /\ (a - (a % n)) % n = 0
         /\ a - (a % n) <= a /\ a < (a - (a % n)) + n
         /\ a \in Nat => a - (a % n) \in Nat
<1>1. PICK q \in Int, r \in 0..n - 1 : a = n * q + r /\ a % n = r
  BY Division
<1>2. (a - (a % n)) % n = 0
  BY <1>1, Multiple
<1>3. a \in Nat => a - r >= 0
  <2> SUFFICES ASSUME a \in Nat, a < r PROVE FALSE
    BY <1>1
  <2>1. n * q < 0
    BY <1>1
  <2>2. q <= -1
    BY <2>1
  <2>3. n * q <= -n
    BY <2>2
  <2> QED BY <1>1, <2>3
<1> QED BY <1>1, <1>2, <1>3

\* What is divided twice.
LEMMA MultipleOfMultiple ==
  ASSUME NEW a \in Int, NEW n \in Nat \ {0}, NEW m \in Nat \ {0}, a % n = 0, n % m = 0
  PROVE  a % m = 0
<1>1. PICK k \in Int : a = k * n
  BY MultipleOf
<1>2. PICK l \in Int : n = l * m
  BY MultipleOf
<1>3. a = (k * l) * m
  BY <1>1, <1>2
<1>4. ((k * l) * m) % m = 0
  BY Multiple
<1> QED BY <1>3, <1>4

-----------------------------------------------------------------------------
(* Powers of two: the prover knows no more of them than that they are      *)
(* numbers, and what is assumed of those up to the n-th.                   *)
Doubling(n) ==
  n \in Nat /\ 2^0 = 1 /\ \A b \in 0..n - 1 : 2^(b + 1) = 2 * 2^b

LEMMA NatPowersPositive ==
  ASSUME NEW n, Doubling(n)
  PROVE  \A b \in 0..n : 2^b \in Nat \ {0}
<1>0. n \in Nat /\ 2^0 = 1 /\ \A e \in 0..n - 1 : 2^(e + 1) = 2 * 2^e
  BY DEF Doubling
<1> DEFINE bad == {b \in 0..n : 2^b \notin Nat \ {0}}
<1>1. SUFFICES ASSUME bad # {} PROVE FALSE
  OBVIOUS
<1>2. bad \in SUBSET Nat
  BY <1>0
<1>3. PICK b \in bad : \A c \in bad : b <= c
  BY <1>1, <1>2, LeastNumber
<1>4. b # 0
  <2> SUFFICES ASSUME b = 0 PROVE FALSE
    OBVIOUS
  <2>1. 2^b = 1
    BY <1>0, Zenon
  <2> QED BY <2>1, <1>3
<1>5. b - 1 \in 0..n - 1 /\ b - 1 \in 0..n /\ b - 1 \notin bad
  BY <1>3, <1>4, <1>0
<1>6. 2^((b - 1) + 1) = 2 * 2^(b - 1)
  BY <1>5, <1>0
<1>7. 2^(b - 1) \in Nat \ {0}
  BY <1>5
<1>8. (b - 1) + 1 = b
  BY <1>3, <1>0
<1>9. PICK p \in Nat \ {0} : p = 2^(b - 1)
  BY <1>7
<1>10. 2^b = 2 * p
  BY <1>6, <1>8, <1>9
<1>11. 2 * p \in Nat \ {0}
  OBVIOUS
<1> QED BY <1>3, <1>10, <1>11

\* A power is a multiple of every smaller one.
LEMMA NatPowersDivide ==
  ASSUME NEW n, Doubling(n), NEW a \in 0..n, NEW b \in a..n
  PROVE  (2^b) % (2^a) = 0
<1>0. n \in Nat /\ 2^0 = 1 /\ \A e \in 0..n - 1 : 2^(e + 1) = 2 * 2^e
  BY DEF Doubling
<1> DEFINE bad == {c \in a..n : (2^c) % (2^a) # 0}
<1>1. SUFFICES ASSUME bad # {} PROVE FALSE
  OBVIOUS
<1>2. bad \in SUBSET Nat
  BY <1>0
<1>3. PICK c \in bad : \A d \in bad : c <= d
  BY <1>1, <1>2, LeastNumber
<1>4. 2^a \in Nat \ {0}
  BY NatPowersPositive
<1>5. c # a
  <2>1. 1 * 2^a = 2^a
    BY <1>4
  <2>2. (1 * 2^a) % (2^a) = 0
    BY <1>4, Multiple
  <2> QED BY <2>1, <2>2, <1>3
<1>6. c - 1 \in 0..n - 1 /\ c - 1 \in a..n /\ c - 1 \notin bad /\ (c - 1) + 1 = c
  BY <1>3, <1>5, <1>0
<1>7. 2^c = 2 * 2^(c - 1) /\ 2^(c - 1) \in Nat \ {0}
  <2>1. 2^((c - 1) + 1) = 2 * 2^(c - 1)
    BY <1>6, <1>0
  <2>2. c - 1 \in 0..n
    BY <1>6, <1>0
  <2>3. (c - 1) + 1 = c
    BY <1>6
  <2>4. 2^c = 2 * 2^(c - 1)
    BY <2>1, <2>3
  <2> QED BY <2>2, <2>4, NatPowersPositive
<1>8. (2^(c - 1)) % (2^a) = 0
  BY <1>6
<1>9. PICK k \in Int : 2^(c - 1) = k * 2^a
  <2>1. 2^(c - 1) \in Int
    BY <1>7
  <2> QED BY <2>1, <1>4, <1>8, MultipleOf, Zenon
<1>10. 2^c = (2 * k) * 2^a
  BY <1>7, <1>9, <1>4
<1>11. ((2 * k) * 2^a) % (2^a) = 0
  BY <1>4, Multiple
<1> QED BY <1>3, <1>10, <1>11

LEMMA NatPowersGrow ==
  ASSUME NEW n, Doubling(n), NEW a \in 0..n, NEW b \in a..n
  PROVE  2^a <= 2^b /\ (a # b => 2^a < 2^b)
<1>0. n \in Nat /\ 2^0 = 1 /\ \A e \in 0..n - 1 : 2^(e + 1) = 2 * 2^e
  BY DEF Doubling
<1>1. \A c \in 0..n : 2^c \in Nat \ {0}
  BY NatPowersPositive
<1>2. \A c \in 0..n : \A d \in c..n : 2^c <= 2^d
  <2> SUFFICES ASSUME NEW c \in 0..n, NEW d \in c..n PROVE 2^c <= 2^d
    OBVIOUS
  <2>1. d \in 0..n
    BY <1>0
  <2>2. 2^c \in Nat \ {0} /\ 2^d \in Nat \ {0} /\ (2^d) % (2^c) = 0
    BY <1>1, <2>1, NatPowersDivide
  <2>3. 0 % (2^c) = 0
    BY <2>2, Multiple
  <2>4. 0 + 2^c <= 2^d
    BY <2>2, <2>3, MultiplesApart
  <2> QED BY <2>2, <2>4
<1>3. ASSUME a # b PROVE 2^a < 2^b
  <2>1. a \in 0..n - 1 /\ a + 1 \in 0..n /\ b \in (a + 1)..n
    BY <1>3, <1>0
  <2>2. 2^(a + 1) = 2 * 2^a /\ 2^(a + 1) <= 2^b
    BY <1>2, <2>1, <1>0
  <2>3. 2^a \in Nat \ {0} /\ 2^b \in Nat \ {0} /\ b \in 0..n
    BY <1>1, <1>0
  <2> QED BY <2>2, <2>3
<1> QED BY <1>2, <1>3
=============================================================================
