----------------------------- MODULE MapDBProofs -----------------------------
(***************************************************************************)
(* The proof that the mapping database keeps the derivations of mappings   *)
(* and confines what they give (MapDB), for any number of spaces, mappings *)
(* and pages.                                                              *)
(***************************************************************************)
EXTENDS MapDB, NatLemmas, FiniteSetTheorems, TLAPS

-----------------------------------------------------------------------------
(* Fpages.                                                                 *)

LEMMA BitsDoubling ==
  Doubling(Bits) /\ Bits \in Nat
BY MapDBAssumption, PowersAssumption DEF Doubling

\* An fpage has w pages, the first of which has a number that w divides.
LEMMA FpageFacts ==
  ASSUME NEW f \in Fpages
  PROVE  \E w \in Nat \ {0} :
           /\ w = 2^f.size /\ f.size \in 0..Bits
           /\ f.base \in Nat /\ f.base < 2^Bits /\ f.base % w = 0
           /\ Start(f) = f.base /\ End(f) = f.base + w - 1
<1>1. f.base \in 0..2^Bits - 1 /\ f.size \in 0..Bits /\ f.base % 2^f.size = 0
  BY DEF Fpages, Page, Size
<1>2. 2^f.size \in Nat \ {0} /\ 2^Bits \in Nat \ {0}
  BY <1>1, BitsDoubling, NatPowersPositive
<1>3. PICK w \in Nat \ {0} : w = 2^f.size
  BY <1>2
<1>4. f.base \in Nat /\ f.base < 2^Bits
  BY <1>1, <1>2
<1>5. End(f) = f.base + w - 1 /\ Start(f) = f.base
  BY <1>3 DEF End, Start
<1> QED BY <1>1, <1>3, <1>4, <1>5

LEMMA FpageNumbers ==
  ASSUME NEW f \in Fpages
  PROVE  Start(f) \in Nat /\ End(f) \in Nat /\ Start(f) <= End(f) /\ Start(f) < 2^Bits
<1>1. PICK w \in Nat \ {0} : f.base \in Nat /\ f.base < 2^Bits /\ Start(f) = f.base
                             /\ End(f) = f.base + w - 1
  BY FpageFacts
<1>2. f.base + w - 1 \in Nat /\ f.base <= f.base + w - 1
  BY <1>1
<1> QED BY <1>1, <1>2

Meet(f, g)   == Start(f) <= End(g) /\ Start(g) <= End(f)
Within(f, g) == Start(g) <= Start(f) /\ End(f) <= End(g)

\* Of two fpages with a page in common one is part of the other.
LEMMA FpagesNest ==
  ASSUME NEW f \in Fpages, NEW g \in Fpages, f.size <= g.size, Meet(f, g)
  PROVE  Within(f, g)
<1>1. PICK v \in Nat \ {0} :
        /\ v = 2^f.size /\ f.size \in 0..Bits
        /\ f.base \in Nat /\ f.base % v = 0
        /\ Start(f) = f.base /\ End(f) = f.base + v - 1
  BY FpageFacts
<1>2. PICK w \in Nat \ {0} :
        /\ w = 2^g.size /\ g.size \in 0..Bits
        /\ g.base \in Nat /\ g.base % w = 0
        /\ Start(g) = g.base /\ End(g) = g.base + w - 1
  BY FpageFacts
<1>3. w % v = 0
  <2>1. g.size \in f.size..Bits
    BY <1>1, <1>2
  <2>2. (2^g.size) % (2^f.size) = 0
    BY <1>1, <2>1, BitsDoubling, NatPowersDivide
  <2> QED BY <1>1, <1>2, <2>2
<1> DEFINE a == f.base
           b == g.base
<1>4. b % v = 0 /\ (b + w) % v = 0
  <2>1. b % v = 0
    BY <1>1, <1>2, <1>3, MultipleOfMultiple
  <2> QED BY <1>1, <1>2, <1>3, <2>1, MultiplesSum
<1>5. a \in Int /\ b \in Int /\ a % v = 0 /\ a <= b + w - 1 /\ b <= a + v - 1
  BY <1>1, <1>2 DEF Meet
<1> HIDE DEF a, b
<1>6. b <= a
  <2> SUFFICES ASSUME a < b PROVE FALSE
    BY <1>5
  <2>1. a + v <= b
    BY <1>1, <1>4, <1>5, MultiplesApart
  <2> QED BY <1>1, <1>5, <2>1
<1>7. a + v <= b + w
  <2>1. a < b + w /\ b + w \in Int
    BY <1>2, <1>5
  <2> QED BY <1>1, <1>4, <1>5, <2>1, MultiplesApart
<1>8. a + v - 1 <= b + w - 1
  BY <1>1, <1>2, <1>5, <1>7
<1> QED BY <1>1, <1>2, <1>6, <1>8 DEF Within, a, b

\* trimFpage makes an fpage of the smaller size.
LEMMA TrimFits ==
  ASSUME NEW f \in Fpages, NEW g \in Fpages, g.size < f.size, NEW b \in Page
  PROVE  Trim(f, b, g) \in Fpages /\ Trim(f, b, g).size = g.size
<1>1. PICK w \in Nat \ {0} :
        /\ w = 2^f.size /\ f.size \in 0..Bits
        /\ f.base \in Nat /\ f.base < 2^Bits /\ f.base % w = 0
  BY FpageFacts
<1>2. PICK v \in Nat \ {0} : v = 2^g.size /\ g.size \in 0..Bits
  BY FpageFacts
<1>3. PICK top \in Nat \ {0} : top = 2^Bits
  BY BitsDoubling, NatPowersPositive
<1>4. w % v = 0 /\ top % w = 0
  <2>1. f.size \in g.size..Bits /\ Bits \in f.size..Bits
    BY <1>1, <1>2, BitsDoubling
  <2>2. (2^f.size) % (2^g.size) = 0 /\ (2^Bits) % (2^f.size) = 0
    BY <1>1, <1>2, <2>1, BitsDoubling, NatPowersDivide
  <2> QED BY <1>1, <1>2, <1>3, <2>2
<1>5. PICK r \in 0..w - 1 : r = b % w
  <2>1. b \in Int
    BY <1>3 DEF Page
  <2> QED BY <1>1, <2>1, Division
<1>6. PICK q \in Int, s \in 0..v - 1 : r = v * q + s /\ r \div v = q
  <2>1. r \in Int
    BY <1>1
  <2> QED BY <1>2, <2>1, Division
<1>7. PICK c \in Int : c = q * v
  BY <1>2
<1>8. c % v = 0 /\ r = c + s
  <2>1. v * q = q * v
    BY <1>2
  <2> QED BY <1>2, <1>6, <1>7, <2>1, Multiple
<1>9. c >= 0
  <2> SUFFICES ASSUME c < 0 PROVE FALSE
    BY <1>7
  <2>1. 0 % v = 0
    <3>1. 0 * v = 0
      BY <1>2
    <3> QED BY <1>2, <3>1, Multiple
  <2>2. c + v <= 0
    BY <1>2, <1>8, <2>1, MultiplesApart
  <2> QED BY <1>2, <1>5, <1>6, <1>8, <2>2
<1>10. PICK a \in Nat : a = f.base
  BY <1>1
<1>11. Trim(f, b, g) = fpage(a + c, g.size)
  <2>1. ((b % 2^f.size) \div 2^g.size) * 2^g.size = c
    BY <1>1, <1>2, <1>5, <1>6, <1>7
  <2> QED BY <1>10, <2>1 DEF Trim
<1>12. a + c \in Nat /\ a + c < top
  <2>1. a + w <= top
    BY <1>1, <1>3, <1>4, <1>10, MultiplesApart
  <2>2. c <= r /\ r < w
    BY <1>1, <1>2, <1>5, <1>6, <1>8
  <2> QED BY <1>1, <1>3, <1>9, <2>1, <2>2
<1>13. (a + c) % v = 0
  <2>1. a % v = 0
    BY <1>1, <1>2, <1>4, <1>10, MultipleOfMultiple
  <2> QED BY <1>2, <1>8, <2>1, MultiplesSum
<1>14. a + c \in Page
  BY <1>3, <1>12 DEF Page
<1>15. fpage(a + c, g.size) = [base |-> a + c, size |-> g.size] /\ g.size \in Size
  BY <1>2 DEF fpage, Size
<1> QED BY <1>2, <1>11, <1>13, <1>14, <1>15 DEF Fpages

-----------------------------------------------------------------------------
(* Following links.                                                        *)

Ref == Node \cup {Null}

LEMMA NodeCount ==
  Cardinality(Node) \in Nat \ {0} /\ IsFiniteSet(Node) /\ Null \notin Node
<1>1. IsFiniteSet(Node) /\ Null \notin Node /\ First \in Node
  BY MapDBAssumption, FirstAssumption
<1>2. Cardinality(Node) \in Nat
  BY <1>1, FS_CardinalityType
<1>3. Cardinality(Node) # 0
  BY <1>1, FS_EmptySet
<1> QED BY <1>1, <1>2, <1>3

\* The first values of a function that is applied again and again.
Iterated(g, m, link, n) ==
  \A k \in 1..m : g[k] = IF k = 1 THEN n ELSE link[g[k - 1]]

LEMMA IterationExists ==
  ASSUME NEW A, NEW link \in [A -> A], NEW n \in A, NEW N \in Nat
  PROVE  \E g \in [1..N -> A] : Iterated(g, N, link, n)
<1> DEFINE bad == {m \in Nat : ~\E g \in [1..m -> A] : Iterated(g, m, link, n)}
<1> SUFFICES ASSUME bad # {} PROVE FALSE
  OBVIOUS
<1>1. bad \in SUBSET Nat
  OBVIOUS
<1>2. PICK m \in bad : \A k \in bad : m <= k
  BY <1>1, LeastNumber
<1>3. m # 0
  <2> SUFFICES ASSUME m = 0 PROVE FALSE
    OBVIOUS
  <2> DEFINE g == [k \in 1..0 |-> n]
  <2>1. g \in [1..0 -> A] /\ Iterated(g, 0, link, n)
    BY DEF Iterated
  <2> QED BY <1>2, <2>1
<1>4. m \in Nat /\ m - 1 \in Nat /\ m - 1 \notin bad
  BY <1>2, <1>3
<1>5. PICK g \in [1..m - 1 -> A] : Iterated(g, m - 1, link, n)
  BY <1>4
<1> DEFINE h == [k \in 1..m |-> IF k < m THEN g[k] ELSE IF m = 1 THEN n ELSE link[g[m - 1]]]
<1>6. h \in [1..m -> A]
  <2> SUFFICES ASSUME NEW k \in 1..m PROVE h[k] \in A
    OBVIOUS
  <2>1. CASE k < m
    <3>1. k \in 1..m - 1
      BY <1>4, <2>1
    <3> QED BY <2>1, <3>1
  <2>2. CASE k = m /\ m # 1
    <3>1. m - 1 \in 1..m - 1
      BY <1>4, <2>2
    <3> QED BY <2>2, <3>1
  <2>3. CASE k = m /\ m = 1
    BY <2>3
  <2> QED BY <1>4, <2>1, <2>2, <2>3
<1>7. Iterated(h, m, link, n)
  <2> SUFFICES ASSUME NEW k \in 1..m PROVE h[k] = IF k = 1 THEN n ELSE link[h[k - 1]]
    BY DEF Iterated
  <2>1. CASE k < m
    <3>1. k \in 1..m - 1 /\ (k # 1 => k - 1 \in 1..m /\ k - 1 < m)
      BY <1>4, <2>1
    <3>2. g[k] = IF k = 1 THEN n ELSE link[g[k - 1]]
      BY <1>5, <3>1 DEF Iterated
    <3>3. h[k] = g[k] /\ (k # 1 => h[k - 1] = g[k - 1])
      BY <2>1, <3>1
    <3> QED BY <3>2, <3>3
  <2>2. CASE k = m /\ m # 1
    <3>1. m - 1 \in 1..m /\ m - 1 < m
      BY <1>4, <2>2
    <3> QED BY <2>2, <3>1
  <2>3. CASE k = m /\ m = 1
    BY <2>3
  <2> QED BY <1>4, <2>1, <2>2, <2>3
<1> QED BY <1>2, <1>6, <1>7

\* s is the way from n along link, which ends early only at Null.
Walked(s, link, n, len) ==
  /\ len \in 0..Cardinality(Node) /\ s \in [1..len -> Node]
  /\ n = Null => len = 0
  /\ n # Null => len >= 1 /\ s[1] = n
  /\ \A i \in 1..len - 1 : s[i + 1] = link[s[i]]
  /\ len \in 1..Cardinality(Node) - 1 => link[s[len]] = Null

LEMMA AlongWalks ==
  ASSUME NEW link \in [Ref -> Ref], link[Null] = Null, NEW n \in Ref
  PROVE  \E len : Walked(Along(link, n), link, n, len)
<1>1. PICK N \in Nat \ {0} : N = Cardinality(Node)
  BY NodeCount
<1> DEFINE nth[k \in 1..Cardinality(Node)] == IF k = 1 THEN n ELSE link[nth[k - 1]]
           F(v) == [k \in 1..Cardinality(Node) |-> IF k = 1 THEN n ELSE link[v[k - 1]]]
           some == {k \in 1..Cardinality(Node) : nth[k] # Null}
<1>2. Along(link, n) = [k \in 1..Cardinality(some) |-> nth[k]]
  BY DEF Along
<1>3. nth = CHOOSE v : v = F(v)
  OBVIOUS
<1> HIDE DEF nth
<1>4. PICK g \in [1..N -> Ref] : Iterated(g, N, link, n)
  BY <1>1, IterationExists
<1>5. g = F(g)
  BY <1>1, <1>4 DEF Iterated
<1>6. nth = F(nth)
  <2> HIDE DEF F
  <2> QED BY <1>3, <1>5, Zenon
<1>7. \A k \in 1..N : nth[k] = IF k = 1 THEN n ELSE link[nth[k - 1]]
  <2>1. PICK v : v = nth
    OBVIOUS
  <2>2. v = [k \in 1..N |-> IF k = 1 THEN n ELSE link[v[k - 1]]]
    BY <1>1, <1>6, <2>1
  <2>3. \A k \in 1..N : v[k] = IF k = 1 THEN n ELSE link[v[k - 1]]
    BY <2>2
  <2> QED BY <2>1, <2>3
<1>8. \A k \in 1..N : nth[k] \in Ref
  <2> DEFINE bad == {k \in 1..N : nth[k] \notin Ref}
  <2> SUFFICES ASSUME bad # {} PROVE FALSE
    OBVIOUS
  <2>1. bad \in SUBSET Nat
    OBVIOUS
  <2>2. PICK k \in bad : \A j \in bad : k <= j
    BY <2>1, LeastNumber
  <2>3. k # 1
    BY <1>7, <2>2
  <2>4. k - 1 \in 1..N /\ k - 1 \notin bad
    BY <2>2, <2>3
  <2> QED BY <1>7, <2>2, <2>3, <2>4
<1> HIDE DEF some
<1>9. some = {k \in 1..N : nth[k] # Null}
  BY <1>1 DEF some
<1>10. PICK len \in 0..N : some = 1..len
  <2>1. CASE some = {}
    <3>1. some = 1..0 /\ 0 \in 0..N
      BY <2>1
    <3> QED BY <3>1
  <2>2. CASE some # {}
    <3>1. some \in SUBSET (0..N) /\ N \in Nat
      BY <1>9
    <3>2. PICK m \in some : \A k \in some : k <= m
      BY <2>2, <3>1, GreatestNumber
    <3>3. m \in 1..N /\ nth[m] # Null
      BY <1>9, <3>2
    <3>4. \A k \in 1..m : nth[k] # Null
      <4> DEFINE bad == {k \in 1..m : nth[k] = Null}
      <4> SUFFICES ASSUME bad # {} PROVE FALSE
        OBVIOUS
      <4>1. bad \in SUBSET (0..m) /\ m \in Nat
        BY <3>3
      <4>2. PICK k \in bad : \A j \in bad : j <= k
        BY <4>1, GreatestNumber
      <4>3. k # m /\ k \in 1..m /\ nth[k] = Null
        BY <3>3, <4>2
      <4>4. k + 1 \in 1..m /\ k + 1 \in 1..N /\ k + 1 # 1 /\ (k + 1) - 1 = k
        BY <3>3, <4>3
      <4>5. nth[k + 1] = Null
        BY <1>7, <4>3, <4>4
      <4> QED BY <4>2, <4>4, <4>5
    <3>5. some = 1..m
      <4>1. \A k \in some : k \in 1..m
        BY <1>9, <3>2, <3>3
      <4>2. \A k \in 1..m : k \in some
        BY <1>9, <3>3, <3>4
      <4> QED BY <4>1, <4>2
    <3> QED BY <3>3, <3>5
  <2> QED BY <2>1, <2>2
<1>11. Cardinality(some) = len
  <2>1. Cardinality(1..len) = IF 1 > len THEN 0 ELSE len - 1 + 1
    BY <1>10, FS_Interval
  <2> QED BY <1>10, <2>1
<1>12. PICK s : s = Along(link, n)
  OBVIOUS
<1>13. s = [k \in 1..len |-> nth[k]]
  BY <1>2, <1>11, <1>12
<1>14. \A k \in 1..len : k \in 1..N /\ s[k] = nth[k] /\ nth[k] \in Node
  BY <1>8, <1>9, <1>10, <1>13 DEF Ref
<1>15. s \in [1..len -> Node]
  BY <1>13, <1>14
<1>16. nth[1] = n /\ 1 \in 1..N
  BY <1>1, <1>7
<1>17. (n = Null => len = 0) /\ (n # Null => len >= 1 /\ s[1] = n)
  <2>1. ASSUME n = Null PROVE len = 0
    BY <1>9, <1>10, <1>16, <2>1
  <2>2. ASSUME n # Null PROVE len >= 1 /\ s[1] = n
    BY <1>9, <1>10, <1>14, <1>16, <2>2
  <2> QED BY <2>1, <2>2
<1>18. \A i \in 1..len - 1 : s[i + 1] = link[s[i]]
  <2> SUFFICES ASSUME NEW i \in 1..len - 1 PROVE s[i + 1] = link[s[i]]
    OBVIOUS
  <2>1. i \in 1..len /\ i + 1 \in 1..len /\ i + 1 # 1 /\ (i + 1) - 1 = i
    BY <1>10
  <2>2. i + 1 \in 1..N /\ s[i + 1] = nth[i + 1] /\ s[i] = nth[i]
    BY <1>14, <2>1
  <2>3. nth[i + 1] = link[nth[i]]
    BY <1>7, <2>1, <2>2
  <2> QED BY <2>2, <2>3
<1>19. len \in 1..N - 1 => link[s[len]] = Null
  <2> SUFFICES ASSUME len \in 1..N - 1 PROVE link[s[len]] = Null
    OBVIOUS
  <2>1. len \in 1..len /\ len + 1 \in 1..N /\ len + 1 # 1 /\ (len + 1) - 1 = len
    BY <1>10
  <2>2. len + 1 \notin some
    BY <1>10
  <2>3. nth[len + 1] = Null /\ nth[len + 1] = link[nth[len]]
    BY <1>7, <1>9, <2>1, <2>2
  <2> QED BY <1>14, <2>1, <2>3
<1>20. Walked(s, link, n, len)
  BY <1>1, <1>10, <1>15, <1>17, <1>18, <1>19 DEF Walked
<1> QED BY <1>12, <1>20

\* Each link leads on within A, to something of a higher rank.
Ranked(link, A, rank) ==
  /\ A \subseteq Node
  /\ \A x \in A : /\ rank[x] \in Int
                  /\ link[x] # Null => link[x] \in A /\ rank[x] < rank[link[x]]

\* Then s is the way from n, all of it in A, until there is no link.
Way(s, link, n, len, A, rank) ==
  /\ len \in 0..Cardinality(Node) /\ s \in [1..len -> A]
  /\ n = Null => len = 0
  /\ n # Null => len >= 1 /\ s[1] = n /\ link[s[len]] = Null
  /\ \A i \in 1..len - 1 : s[i + 1] = link[s[i]]
  /\ \A i, j \in 1..len : i < j => rank[s[i]] < rank[s[j]]

\* What holds of the first and is passed on holds of all.
LEMMA Passed ==
  ASSUME NEW len \in Nat, NEW S, len >= 1 => 1 \in S,
         \A i \in 1..len - 1 : i \in S => i + 1 \in S
  PROVE  \A i \in 1..len : i \in S
<1> DEFINE bad == {i \in 1..len : i \notin S}
<1> SUFFICES ASSUME bad # {} PROVE FALSE
  OBVIOUS
<1>1. bad \in SUBSET Nat
  OBVIOUS
<1>2. PICK k \in bad : \A j \in bad : k <= j
  BY <1>1, LeastNumber
<1>3. k \in 1..len /\ k # 1
  BY <1>2
<1>4. k - 1 \in 1..len /\ k - 1 \in 1..len - 1 /\ k - 1 \notin bad /\ (k - 1) + 1 = k
  BY <1>2, <1>3
<1> QED BY <1>2, <1>4

LEMMA RankedWalk ==
  ASSUME NEW link \in [Ref -> Ref], link[Null] = Null, NEW A, NEW rank, Ranked(link, A, rank),
         NEW n \in A \cup {Null}
  PROVE  \E len : Way(Along(link, n), link, n, len, A, rank)
<1>1. PICK N \in Nat \ {0} : N = Cardinality(Node) /\ IsFiniteSet(Node)
  BY NodeCount
<1>2. n \in Ref
  BY DEF Ranked, Ref
<1>3. PICK len : Walked(Along(link, n), link, n, len)
  BY <1>2, AlongWalks
<1>4. PICK s : s = Along(link, n)
  OBVIOUS
<1>5. /\ len \in 0..N /\ s \in [1..len -> Node]
      /\ n = Null => len = 0
      /\ n # Null => len >= 1 /\ s[1] = n
      /\ \A i \in 1..len - 1 : s[i + 1] = link[s[i]]
      /\ len \in 1..N - 1 => link[s[len]] = Null
  BY <1>1, <1>3, <1>4 DEF Walked
<1>6. \A i \in 1..len : s[i] \in A
  <2> DEFINE S == {i \in 1..len : s[i] \in A}
  <2>1. len >= 1 => 1 \in S
    BY <1>5
  <2>2. \A i \in 1..len - 1 : i \in S => i + 1 \in S
    <3> SUFFICES ASSUME NEW i \in 1..len - 1, i \in S PROVE i + 1 \in S
      OBVIOUS
    <3>1. i + 1 \in 1..len /\ s[i + 1] = link[s[i]] /\ s[i] \in A
      BY <1>5
    <3>2. s[i + 1] \in Node
      BY <1>5, <3>1
    <3>3. s[i + 1] # Null
      BY <3>2, NodeCount
    <3> QED BY <3>1, <3>3 DEF Ranked
  <2>3. len \in Nat
    BY <1>5
  <2> HIDE DEF S
  <2>4. \A i \in 1..len : i \in S
    BY <2>1, <2>2, <2>3, Passed
  <2> QED BY <2>4 DEF S
<1>7. \A i \in 1..len - 1 : rank[s[i]] < rank[s[i + 1]]
  <2> SUFFICES ASSUME NEW i \in 1..len - 1 PROVE rank[s[i]] < rank[s[i + 1]]
    OBVIOUS
  <2>1. i \in 1..len /\ i + 1 \in 1..len
    BY <1>5
  <2>2. s[i] \in A /\ s[i + 1] \in Node /\ s[i + 1] = link[s[i]]
    BY <1>5, <1>6, <2>1
  <2> QED BY <2>2, NodeCount DEF Ranked
<1>8. ASSUME NEW i \in 1..len, NEW j \in 1..len, i < j PROVE rank[s[i]] < rank[s[j]]
  <2> DEFINE S == {k \in Nat : i + k <= len => k = 0 \/ rank[s[i]] < rank[s[i + k]]}
  <2> DEFINE bad == {k \in Nat : k \notin S}
  <2> SUFFICES ASSUME bad # {} PROVE FALSE
    <3>1. j - i \in Nat /\ i + (j - i) = j /\ j - i # 0 /\ i + (j - i) <= len
      BY <1>5, <1>8
    <3>2. j - i \in S
      BY <3>1
    <3> QED BY <3>1, <3>2
  <2>1. bad \in SUBSET Nat
    OBVIOUS
  <2>2. PICK k \in bad : \A l \in bad : k <= l
    BY <2>1, LeastNumber
  <2>3. k \in Nat /\ k # 0 /\ i + k <= len /\ ~(rank[s[i]] < rank[s[i + k]])
    BY <2>2
  <2>4. k - 1 \in Nat /\ k - 1 \notin bad /\ i + (k - 1) <= len
    <3>1. k - 1 \in Nat /\ ~(k <= k - 1)
      BY <2>3
    <3>2. k - 1 \notin bad
      BY <2>2, <3>1
    <3> QED BY <2>3, <3>1, <3>2, <1>5
  <2>5. k - 1 = 0 \/ rank[s[i]] < rank[s[i + (k - 1)]]
    BY <2>4
  <2>6. PICK h \in 1..len - 1 : h = i + (k - 1) /\ h + 1 = i + k
    BY <1>5, <2>3
  <2>7. rank[s[h]] < rank[s[h + 1]]
    BY <1>7
  <2>8. rank[s[i]] \in Int /\ rank[s[h]] \in Int /\ rank[s[h + 1]] \in Int
    <3>1. h \in 1..len /\ h + 1 \in 1..len
      BY <1>5
    <3> QED BY <1>6, <3>1 DEF Ranked
  <2>9. rank[s[i]] <= rank[s[h]]
    <3>1. CASE k - 1 = 0
      <4>1. h = i
        BY <3>1, <2>6
      <4> QED BY <4>1, <2>8
    <3>2. CASE k - 1 # 0
      BY <3>2, <2>5, <2>6, <2>8
    <3> QED BY <3>1, <3>2
  <2> QED BY <2>3, <2>6, <2>7, <2>8, <2>9
<1>9. ASSUME n # Null PROVE link[s[len]] = Null
  <2> SUFFICES ASSUME link[s[len]] # Null PROVE FALSE
    OBVIOUS
  <2>1. len = N /\ len \in 1..len
    BY <1>1, <1>5, <1>9
  <2>2. PICK x : x = link[s[len]]
    OBVIOUS
  <2>3. s[len] \in A /\ x \in A /\ rank[s[len]] < rank[x] /\ A \subseteq Node
    BY <1>6, <2>1, <2>2 DEF Ranked
  <2> DEFINE f == [i \in 1..N + 1 |-> IF i = N + 1 THEN x ELSE s[i]]
  <2>4. \A i \in 1..N : s[i] \in A /\ rank[s[i]] \in Int /\ rank[x] \in Int
                         /\ rank[s[i]] < rank[x]
    <3> SUFFICES ASSUME NEW i \in 1..N
                 PROVE  s[i] \in A /\ rank[s[i]] \in Int /\ rank[x] \in Int
                        /\ rank[s[i]] < rank[x]
      OBVIOUS
    <3>1. i \in 1..len /\ (i = len \/ i < len)
      BY <2>1
    <3>2. s[i] \in A /\ rank[s[i]] \in Int /\ rank[x] \in Int /\ rank[s[len]] \in Int
      BY <1>6, <2>3, <2>1, <3>1 DEF Ranked
    <3>3. i < len => rank[s[i]] < rank[s[len]]
      BY <1>8, <2>1, <3>1
    <3> QED BY <2>3, <3>1, <3>2, <3>3
  <2>5. \A i \in 1..N + 1 : i = N + 1 \/ i \in 1..N
    BY <1>1
  <2>6. f \in [1..N + 1 -> Node]
    BY <1>1, <2>3, <2>4, <2>5
  <2>7. ASSUME NEW i \in 1..N + 1, NEW j \in 1..N + 1, i < j PROVE f[i] # f[j]
    <3>1. i \in 1..N /\ f[i] = s[i]
      BY <1>1, <2>7
    <3>2. CASE j = N + 1
      <4>1. f[j] = x /\ rank[s[i]] < rank[x]
        BY <2>4, <3>1, <3>2
      <4> QED BY <2>4, <3>1, <4>1
    <3>3. CASE j # N + 1
      <4>1. j \in 1..N /\ f[j] = s[j] /\ i \in 1..len /\ j \in 1..len
        BY <2>1, <2>5, <3>1, <3>3
      <4>2. rank[s[i]] < rank[s[j]]
        BY <1>8, <2>7, <4>1
      <4> QED BY <2>4, <3>1, <4>1, <4>2
    <3> QED BY <3>2, <3>3
  <2>8. \A i, j \in 1..N + 1 : f[i] = f[j] => i = j
    <3> HIDE DEF f
    <3> SUFFICES ASSUME NEW i \in 1..N + 1, NEW j \in 1..N + 1, f[i] = f[j], i # j PROVE FALSE
      OBVIOUS
    <3>1. i < j \/ j < i
      BY <1>1
    <3> QED BY <2>7, <3>1
  <2>9. f \in Injection(1..N + 1, Node)
    <3> HIDE DEF f
    <3> QED BY <2>6, <2>8 DEF Injection, IsInjective
  <2> HIDE DEF f
  <2>10. Cardinality(1..N + 1) <= Cardinality(Node)
    BY <1>1, <2>9, FS_Injection
  <2>11. Cardinality(1..N + 1) = IF 1 > N + 1 THEN 0 ELSE (N + 1) - 1 + 1
    BY <1>1, FS_Interval
  <2> QED BY <1>1, <2>10, <2>11
<1>10. s \in [1..len -> A]
  BY <1>5, <1>6
<1>11. Way(s, link, n, len, A, rank)
  BY <1>1, <1>5, <1>8, <1>9, <1>10 DEF Way
<1> QED BY <1>4, <1>11

-----------------------------------------------------------------------------
(***************************************************************************)
(* The search trees.  T are the nodes of the tree of space sp, and st is   *)
(* where their fpages start.  All that starts between lo[x] and hi[x] is   *)
(* to be found from x on.                                                  *)
(***************************************************************************)
Top   == 2^Bits
Trees == [mem : [Space -> Ref], left : [Node -> Ref], right : [Node -> Ref]]

Spans(T, lo, hi, st) ==
  \A x \in T : /\ lo[x] \in Int /\ st[x] \in Int /\ hi[x] \in Int
               /\ -1 <= lo[x] /\ lo[x] < st[x] /\ st[x] < hi[x] /\ hi[x] <= Top

\* Of two nodes one is on a side of the other, or they are apart.
Laminar(lx, sx, hx, ly, sy, hy) ==
  \/ sx <= ly /\ hy <= hx
  \/ hx <= sy /\ ly <= lx
  \/ hx <= ly

Nested(T, lo, hi, st) ==
  \A x, y \in T : /\ st[x] = st[y] => x = y
                  /\ st[x] < st[y] => Laminar(lo[x], st[x], hi[x], lo[y], st[y], hi[y])

\* A link to c is for what starts between a and b.
Child(c, a, b, T, lo, hi, st) ==
  IF c = Null THEN \A x \in T : ~(a < st[x] /\ st[x] < b)
  ELSE c \in T /\ lo[c] = a /\ hi[c] = b

Bst(t, sp, T, lo, hi, st) ==
  /\ T \subseteq Node /\ Spans(T, lo, hi, st) /\ Nested(T, lo, hi, st)
  /\ Child(t.mem[sp], -1, Top, T, lo, hi, st)
  /\ \A x \in T : /\ Child(t.left[x], lo[x], st[x], T, lo, hi, st)
                  /\ Child(t.right[x], st[x], hi[x], T, lo, hi, st)

\* The places of the tree.
IsPlace(w, sp, T) ==
  w = <<"mem", sp>> \/ \E x \in T : w = <<"left", x>> \/ w = <<"right", x>>

\* The links of t2 at the places of S are those of t, but for v at w.
Replaced(t, t2, sp, S, w, v) ==
  /\ t2.mem[sp] = IF w = <<"mem", sp>> THEN v ELSE t.mem[sp]
  /\ \A x \in S : /\ t2.left[x]  = IF w = <<"left", x>> THEN v ELSE t.left[x]
                  /\ t2.right[x] = IF w = <<"right", x>> THEN v ELSE t.right[x]

LEMMA TopNumber == Top \in Nat \ {0}
BY BitsDoubling, NatPowersPositive DEF Top

LEMMA BstNumbers ==
  ASSUME NEW t, NEW sp, NEW T, NEW lo, NEW hi, NEW st, Bst(t, sp, T, lo, hi, st), NEW x \in T
  PROVE  /\ lo[x] \in Int /\ st[x] \in Int /\ hi[x] \in Int
         /\ -1 <= lo[x] /\ lo[x] < st[x] /\ st[x] < hi[x] /\ hi[x] <= Top
         /\ x \in Node /\ x # Null
BY NodeCount DEF Bst, Spans

LEMMA BstLaminar ==
  ASSUME NEW t, NEW sp, NEW T, NEW lo, NEW hi, NEW st, Bst(t, sp, T, lo, hi, st),
         NEW x \in T, NEW y \in T
  PROVE  /\ st[x] = st[y] => x = y
         /\ st[x] < st[y] => Laminar(lo[x], st[x], hi[x], lo[y], st[y], hi[y])
BY DEF Bst, Nested

\* Where the links at a place lead, as numbers.
LEMMA BstLinks ==
  ASSUME NEW t, NEW sp, NEW T, NEW lo, NEW hi, NEW st, Bst(t, sp, T, lo, hi, st)
  PROVE  /\ Child(t.mem[sp], -1, Top, T, lo, hi, st)
         /\ \A x \in T : /\ Child(t.left[x], lo[x], st[x], T, lo, hi, st)
                         /\ Child(t.right[x], st[x], hi[x], T, lo, hi, st)
BY DEF Bst

\* Each node is at one place.
LeftAt(t, x, n, lo, hi, st)  == t.left[x] = n => lo[n] = lo[x] /\ hi[n] = st[x]
RightAt(t, x, n, lo, hi, st) == t.right[x] = n => lo[n] = st[x] /\ hi[n] = hi[x]

LEMMA LinkSpans ==
  ASSUME NEW t, NEW sp, NEW T, NEW lo, NEW hi, NEW st, Bst(t, sp, T, lo, hi, st), NEW n \in T
  PROVE  /\ t.mem[sp] = n => lo[n] = -1 /\ hi[n] = Top
         /\ \A x \in T : LeftAt(t, x, n, lo, hi, st) /\ RightAt(t, x, n, lo, hi, st)
<1>1. n # Null
  BY BstNumbers
<1>2. Child(t.mem[sp], -1, Top, T, lo, hi, st)
  BY BstLinks
<1>3. \A x \in T : /\ Child(t.left[x], lo[x], st[x], T, lo, hi, st)
                   /\ Child(t.right[x], st[x], hi[x], T, lo, hi, st)
  BY BstLinks
<1> QED BY <1>1, <1>2, <1>3 DEF Child, LeftAt, RightAt

\* The span of a place.
Low(w, lo, st) ==
  CASE w[1] = "mem" -> -1 [] w[1] = "left" -> lo[w[2]] [] OTHER -> st[w[2]]
High(w, hi, st) ==
  CASE w[1] = "mem" -> Top [] w[1] = "left" -> st[w[2]] [] OTHER -> hi[w[2]]

OnlyAt(t, sp, T, w, n) ==
  /\ t.mem[sp] = n => w = <<"mem", sp>>
  /\ \A x \in T : /\ t.left[x] = n => w = <<"left", x>>
                  /\ t.right[x] = n => w = <<"right", x>>

LEMMA SidesDiffer ==
  ASSUME NEW t, NEW sp, NEW T, NEW lo, NEW hi, NEW st, Bst(t, sp, T, lo, hi, st),
         NEW n \in T, NEW x \in T, NEW y \in T, t.left[x] = n, t.right[y] = n
  PROVE  FALSE
<1>1. lo[n] = lo[x] /\ hi[n] = st[x] /\ lo[n] = st[y] /\ hi[n] = hi[y]
  BY LinkSpans DEF LeftAt, RightAt
<1>2. /\ lo[x] \in Int /\ st[x] \in Int /\ hi[x] \in Int /\ lo[x] < st[x] /\ st[x] < hi[x]
      /\ lo[y] \in Int /\ st[y] \in Int /\ hi[y] \in Int /\ lo[y] < st[y] /\ st[y] < hi[y]
  BY BstNumbers
<1>3. Laminar(lo[y], st[y], hi[y], lo[x], st[x], hi[x])
  BY <1>1, <1>2, BstLaminar
<1> QED BY <1>1, <1>2, <1>3 DEF Laminar

LEMMA OnePlace ==
  ASSUME NEW t, NEW sp, NEW T, NEW lo, NEW hi, NEW st, Bst(t, sp, T, lo, hi, st),
         NEW n \in T, NEW w, IsPlace(w, sp, T), At(t, w) = n
  PROVE  OnlyAt(t, sp, T, w, n) /\ lo[n] = Low(w, lo, st) /\ hi[n] = High(w, hi, st)
<1>1. /\ t.mem[sp] = n => lo[n] = -1 /\ hi[n] = Top
      /\ \A x \in T : /\ t.left[x] = n => lo[n] = lo[x] /\ hi[n] = st[x]
                      /\ t.right[x] = n => lo[n] = st[x] /\ hi[n] = hi[x]
  BY LinkSpans DEF LeftAt, RightAt
<1>2. \A x \in T : /\ lo[x] \in Int /\ st[x] \in Int /\ hi[x] \in Int
                   /\ -1 <= lo[x] /\ lo[x] < st[x] /\ st[x] < hi[x] /\ hi[x] <= Top
  BY BstNumbers
<1>3. Top \in Nat
  BY TopNumber
<1>4. \A x \in T : t.mem[sp] = n => t.left[x] # n /\ t.right[x] # n
  BY <1>1, <1>2, <1>3
<1>5. \A x, y \in T : ~(t.left[x] = n /\ t.right[y] = n)
  BY SidesDiffer
<1>6. \A x, y \in T : (t.left[x] = n /\ t.left[y] = n) => x = y
  BY <1>1, BstLaminar
<1>7. \A x, y \in T : (t.right[x] = n /\ t.right[y] = n) => x = y
  BY <1>1, BstLaminar
<1>8. ASSUME w = <<"mem", sp>> PROVE t.mem[sp] = n /\ Low(w, lo, st) = -1 /\ High(w, hi, st) = Top
  BY <1>8 DEF At, Low, High
<1>9. ASSUME NEW x \in T, w = <<"left", x>>
      PROVE  t.left[x] = n /\ Low(w, lo, st) = lo[x] /\ High(w, hi, st) = st[x]
  BY <1>9 DEF At, Low, High
<1>10. ASSUME NEW x \in T, w = <<"right", x>>
       PROVE  t.right[x] = n /\ Low(w, lo, st) = st[x] /\ High(w, hi, st) = hi[x]
  BY <1>10 DEF At, Low, High
<1>11. CASE w = <<"mem", sp>>
  BY <1>1, <1>4, <1>8, <1>11 DEF OnlyAt
<1>12. ASSUME NEW x \in T, w = <<"left", x>>
       PROVE  OnlyAt(t, sp, T, w, n) /\ lo[n] = Low(w, lo, st) /\ hi[n] = High(w, hi, st)
  BY <1>1, <1>4, <1>5, <1>6, <1>9, <1>12 DEF OnlyAt
<1>13. ASSUME NEW x \in T, w = <<"right", x>>
       PROVE  OnlyAt(t, sp, T, w, n) /\ lo[n] = Low(w, lo, st) /\ hi[n] = High(w, hi, st)
  BY <1>1, <1>4, <1>5, <1>7, <1>10, <1>13 DEF OnlyAt
<1> QED BY <1>11, <1>12, <1>13 DEF IsPlace

\* A node with nothing on the left is replaced by what is on its right.
LEMMA RemoveNoLeft ==
  ASSUME NEW t, NEW t2, NEW sp, NEW T, NEW lo, NEW hi, NEW st, Bst(t, sp, T, lo, hi, st),
         NEW n \in T, NEW w, IsPlace(w, sp, T \ {n}), At(t, w) = n, t.left[n] = Null,
         Replaced(t, t2, sp, T \ {n}, w, t.right[n])
  PROVE  \E lo2, hi2 : Bst(t2, sp, T \ {n}, lo2, hi2, st)
<1>1. PICK S : S = T \ {n}
  OBVIOUS
<1>2. PICK v : v = t.right[n]
  OBVIOUS
<1>3. PICK a, b, s : a = lo[n] /\ b = hi[n] /\ s = st[n]
  OBVIOUS
<1> DEFINE lo1 == [x \in Node |-> IF lo[x] = s THEN a ELSE lo[x]]
           hi1 == hi
<1>4. PICK lo2, hi2 : lo2 = lo1 /\ hi2 = hi1
  OBVIOUS
<1>5. \A x \in T : x \in Node
  BY BstNumbers
<1>6. \A x \in T : /\ lo2[x] = IF lo[x] = s THEN a ELSE lo[x]
                   /\ hi2[x] = hi[x]
  BY <1>4, <1>5
<1> HIDE DEF lo1, hi1
<1>7. \A x \in T : /\ lo[x] \in Int /\ st[x] \in Int /\ hi[x] \in Int
                   /\ -1 <= lo[x] /\ lo[x] < st[x] /\ st[x] < hi[x] /\ hi[x] <= Top
  BY BstNumbers
<1>8. a \in Int /\ b \in Int /\ s \in Int /\ -1 <= a /\ a < s /\ s < b /\ b <= Top
  BY <1>3, <1>7
<1>9. \A x \in T : ~(a < st[x] /\ st[x] < s)
  BY <1>3, BstLinks DEF Child
<1>10. \A x \in S : x \in T /\ x # n /\ st[x] \in Int /\ st[x] # s
  BY <1>1, <1>3, <1>7, BstLaminar
<1>11. Spans(S, lo2, hi2, st)
  <2> SUFFICES ASSUME NEW x \in S
               PROVE  /\ lo2[x] \in Int /\ st[x] \in Int /\ hi2[x] \in Int
                      /\ -1 <= lo2[x] /\ lo2[x] < st[x] /\ st[x] < hi2[x] /\ hi2[x] <= Top
    BY DEF Spans
  <2> QED BY <1>6, <1>7, <1>8, <1>10
<1>12. Nested(S, lo2, hi2, st)
  <2> SUFFICES ASSUME NEW x \in S, NEW y \in S
               PROVE  /\ st[x] = st[y] => x = y
                      /\ st[x] < st[y] =>
                           Laminar(lo2[x], st[x], hi2[x], lo2[y], st[y], hi2[y])
    BY DEF Nested
  <2>1. x \in T /\ y \in T /\ st[x] # s /\ st[y] # s
    BY <1>10
  <2>2. st[x] = st[y] => x = y
    BY <2>1, BstLaminar
  <2>3. ASSUME st[x] < st[y] PROVE Laminar(lo2[x], st[x], hi2[x], lo2[y], st[y], hi2[y])
    <3>1. Laminar(lo[x], st[x], hi[x], lo[y], st[y], hi[y])
      BY <2>1, <2>3, BstLaminar
    <3>2. st[x] < s => Laminar(lo[x], st[x], hi[x], a, s, b)
      BY <1>3, <2>1, BstLaminar
    <3>3. s < st[y] => Laminar(a, s, b, lo[y], st[y], hi[y])
      BY <1>3, <2>1, BstLaminar
    <3>4. s < st[x] => Laminar(a, s, b, lo[x], st[x], hi[x])
      BY <1>3, <2>1, BstLaminar
    <3>5. st[y] < s => Laminar(lo[y], st[y], hi[y], a, s, b)
      BY <1>3, <2>1, BstLaminar
    <3>6. PICK lx, sx, hx, ly, sy, hy :
            /\ lx = lo[x] /\ sx = st[x] /\ hx = hi[x]
            /\ ly = lo[y] /\ sy = st[y] /\ hy = hi[y]
      OBVIOUS
    <3>7. /\ lx \in Int /\ sx \in Int /\ hx \in Int /\ lx < sx /\ sx < hx
          /\ ly \in Int /\ sy \in Int /\ hy \in Int /\ ly < sy /\ sy < hy
          /\ sx < sy /\ sx # s /\ sy # s
      BY <1>7, <2>1, <2>3, <3>6
    <3>8. ~(a < sx /\ sx < s) /\ ~(a < sy /\ sy < s)
      BY <1>9, <2>1, <3>6
    <3>9. PICK p, q, p2, q2 : /\ p = lo2[x] /\ q = hi2[x] /\ p2 = lo2[y] /\ q2 = hi2[y]
      OBVIOUS
    <3>10. p = (IF lx = s THEN a ELSE lx) /\ q = hx /\ p2 = (IF ly = s THEN a ELSE ly) /\ q2 = hy
      BY <1>6, <2>1, <3>6, <3>9
    <3>11. /\ Laminar(lx, sx, hx, ly, sy, hy)
           /\ sx < s => Laminar(lx, sx, hx, a, s, b)
           /\ s < sy => Laminar(a, s, b, ly, sy, hy)
           /\ s < sx => Laminar(a, s, b, lx, sx, hx)
           /\ sy < s => Laminar(ly, sy, hy, a, s, b)
      BY <3>1, <3>2, <3>3, <3>4, <3>5, <3>6
    <3>12. Laminar(p, sx, q, p2, sy, q2)
      BY <1>8, <3>7, <3>8, <3>10, <3>11 DEF Laminar
    <3> QED BY <3>6, <3>9, <3>12
  <2> QED BY <2>2, <2>3
<1>13. OnlyAt(t, sp, T, w, n) /\ a = Low(w, lo, st) /\ b = High(w, hi, st)
  <2>1. IsPlace(w, sp, T)
    BY DEF IsPlace
  <2> QED BY <1>3, <2>1, OnePlace
<1>14. Child(v, a, b, S, lo2, hi2, st)
  <2>1. Child(v, s, b, T, lo, hi, st)
    BY <1>2, <1>3, BstLinks
  <2>2. CASE v = Null
    <3>1. \A x \in T : ~(s < st[x] /\ st[x] < b)
      BY <2>1, <2>2 DEF Child
    <3>2. \A x \in S : ~(a < st[x] /\ st[x] < b)
      BY <1>8, <1>9, <1>10, <3>1
    <3> QED BY <2>2, <3>2 DEF Child
  <2>3. CASE v # Null
    <3>1. v \in T /\ lo[v] = s /\ hi[v] = b
      BY <2>1, <2>3 DEF Child
    <3>2. v # n
      BY <1>3, <1>8, <3>1
    <3> QED BY <1>1, <1>6, <1>8, <2>3, <3>1, <3>2 DEF Child
  <2> QED BY <2>2, <2>3
<1>15. ASSUME NEW c, NEW x, NEW y, c # n, Child(c, x, y, T, lo, hi, st),
              x \in Int, y \in Int, x # s
       PROVE  Child(c, x, y, S, lo2, hi2, st)
  <2>1. CASE c = Null
    BY <1>10, <1>15, <2>1 DEF Child
  <2>2. CASE c # Null
    <3>1. c \in T /\ lo[c] = x /\ hi[c] = y
      BY <1>15, <2>2 DEF Child
    <3> QED BY <1>1, <1>6, <1>15, <2>2, <3>1 DEF Child
  <2> QED BY <2>1, <2>2
<1>16. Child(t2.mem[sp], -1, Top, S, lo2, hi2, st)
  <2>1. CASE w = <<"mem", sp>>
    <3>1. a = -1 /\ b = Top /\ t2.mem[sp] = v
      BY <1>2, <1>13, <2>1 DEF Replaced, Low, High
    <3> QED BY <1>14, <3>1
  <2>2. CASE w # <<"mem", sp>>
    <3>1. t2.mem[sp] = t.mem[sp] /\ t.mem[sp] # n
      BY <1>13, <2>2 DEF Replaced, OnlyAt
    <3>2. Child(t.mem[sp], -1, Top, T, lo, hi, st)
      BY BstLinks
    <3>3. Top \in Int /\ -1 \in Int /\ -1 # s /\ Top # s
      BY <1>8, TopNumber
    <3> QED BY <1>15, <3>1, <3>2, <3>3
  <2> QED BY <2>1, <2>2
<1>17. ASSUME NEW x \in S PROVE Child(t2.left[x], lo2[x], st[x], S, lo2, hi2, st)
  <2>1. x \in T /\ x # n /\ st[x] # s /\ st[x] \in Int /\ lo[x] \in Int /\ lo[x] < st[x]
    BY <1>7, <1>10
  <2>2. Child(t.left[x], lo[x], st[x], T, lo, hi, st)
    BY <2>1, BstLinks
  <2>3. CASE w = <<"left", x>>
    <3>1. a = lo[x] /\ b = st[x] /\ t2.left[x] = v
      BY <1>1, <1>2, <1>13, <2>3 DEF Replaced, Low, High
    <3>2. lo2[x] = lo[x]
      BY <1>6, <1>8, <2>1, <3>1
    <3> QED BY <1>14, <3>1, <3>2
  <2>4. CASE w # <<"left", x>>
    <3>1. t2.left[x] = t.left[x] /\ t.left[x] # n
      BY <1>1, <1>13, <2>1, <2>4 DEF Replaced, OnlyAt
    <3>2. CASE lo[x] # s
      <4>1. lo2[x] = lo[x]
        BY <1>6, <2>1, <3>2
      <4> QED BY <1>15, <2>1, <2>2, <3>1, <3>2, <4>1
    <3>3. CASE lo[x] = s
      <4>1. lo2[x] = a
        BY <1>6, <2>1, <3>3
      <4>2. CASE t.left[x] = Null
        <5>1. \A y \in T : ~(s < st[y] /\ st[y] < st[x])
          BY <2>2, <3>3, <4>2 DEF Child
        <5>2. \A y \in S : ~(a < st[y] /\ st[y] < st[x])
          BY <1>8, <1>9, <1>10, <2>1, <5>1
        <5> QED BY <3>1, <4>1, <4>2, <5>2 DEF Child
      <4>3. CASE t.left[x] # Null
        <5>1. t.left[x] \in T /\ lo[t.left[x]] = s /\ hi[t.left[x]] = st[x]
          BY <2>2, <3>3, <4>3 DEF Child
        <5> QED BY <1>1, <1>6, <3>1, <4>1, <4>3, <5>1 DEF Child
      <4> QED BY <4>2, <4>3
    <3> QED BY <3>2, <3>3
  <2> QED BY <2>3, <2>4
<1>18. ASSUME NEW x \in S PROVE Child(t2.right[x], st[x], hi2[x], S, lo2, hi2, st)
  <2>1. x \in T /\ x # n /\ st[x] # s /\ st[x] \in Int /\ hi[x] \in Int /\ st[x] < hi[x]
    BY <1>7, <1>10
  <2>2. Child(t.right[x], st[x], hi[x], T, lo, hi, st)
    BY <2>1, BstLinks
  <2>3. CASE w = <<"right", x>>
    <3>1. a = st[x] /\ b = hi[x] /\ t2.right[x] = v
      BY <1>1, <1>2, <1>13, <2>3 DEF Replaced, Low, High
    <3>2. hi2[x] = hi[x]
      BY <1>6, <1>8, <2>1, <3>1
    <3> QED BY <1>14, <3>1, <3>2
  <2>4. CASE w # <<"right", x>>
    <3>1. t2.right[x] = t.right[x] /\ t.right[x] # n
      BY <1>1, <1>13, <2>1, <2>4 DEF Replaced, OnlyAt
    <3>2. hi2[x] = hi[x]
      BY <1>6, <2>1
    <3> QED BY <1>15, <2>1, <2>2, <3>1, <3>2
  <2> QED BY <2>3, <2>4
<1>19. S \subseteq Node
  BY <1>1, <1>5
<1>20. Bst(t2, sp, S, lo2, hi2, st)
  BY <1>11, <1>12, <1>16, <1>17, <1>18, <1>19 DEF Bst
<1> QED BY <1>1, <1>20

\* A node with nothing on the right is replaced by what is on its left.
LEMMA RemoveNoRight ==
  ASSUME NEW t, NEW t2, NEW sp, NEW T, NEW lo, NEW hi, NEW st, Bst(t, sp, T, lo, hi, st),
         NEW n \in T, NEW w, IsPlace(w, sp, T \ {n}), At(t, w) = n, t.right[n] = Null,
         Replaced(t, t2, sp, T \ {n}, w, t.left[n])
  PROVE  \E lo2, hi2 : Bst(t2, sp, T \ {n}, lo2, hi2, st)
<1>1. PICK S : S = T \ {n}
  OBVIOUS
<1>2. PICK v : v = t.left[n]
  OBVIOUS
<1>3. PICK a, b, s : a = lo[n] /\ b = hi[n] /\ s = st[n]
  OBVIOUS
<1> DEFINE lo1 == lo
           hi1 == [x \in Node |-> IF hi[x] = s THEN b ELSE hi[x]]
<1>4. PICK lo2, hi2 : lo2 = lo1 /\ hi2 = hi1
  OBVIOUS
<1>5. \A x \in T : x \in Node
  BY BstNumbers
<1>6. \A x \in T : /\ lo2[x] = lo[x]
                   /\ hi2[x] = IF hi[x] = s THEN b ELSE hi[x]
  BY <1>4, <1>5
<1> HIDE DEF lo1, hi1
<1>7. \A x \in T : /\ lo[x] \in Int /\ st[x] \in Int /\ hi[x] \in Int
                   /\ -1 <= lo[x] /\ lo[x] < st[x] /\ st[x] < hi[x] /\ hi[x] <= Top
  BY BstNumbers
<1>8. a \in Int /\ b \in Int /\ s \in Int /\ -1 <= a /\ a < s /\ s < b /\ b <= Top
  BY <1>3, <1>7
<1>9. \A x \in T : ~(s < st[x] /\ st[x] < b)
  BY <1>3, BstLinks DEF Child
<1>10. \A x \in S : x \in T /\ x # n /\ st[x] \in Int /\ st[x] # s
  BY <1>1, <1>3, <1>7, BstLaminar
<1>11. Spans(S, lo2, hi2, st)
  <2> SUFFICES ASSUME NEW x \in S
               PROVE  /\ lo2[x] \in Int /\ st[x] \in Int /\ hi2[x] \in Int
                      /\ -1 <= lo2[x] /\ lo2[x] < st[x] /\ st[x] < hi2[x] /\ hi2[x] <= Top
    BY DEF Spans
  <2> QED BY <1>6, <1>7, <1>8, <1>10
<1>12. Nested(S, lo2, hi2, st)
  <2> SUFFICES ASSUME NEW x \in S, NEW y \in S
               PROVE  /\ st[x] = st[y] => x = y
                      /\ st[x] < st[y] =>
                           Laminar(lo2[x], st[x], hi2[x], lo2[y], st[y], hi2[y])
    BY DEF Nested
  <2>1. x \in T /\ y \in T /\ st[x] # s /\ st[y] # s
    BY <1>10
  <2>2. st[x] = st[y] => x = y
    BY <2>1, BstLaminar
  <2>3. ASSUME st[x] < st[y] PROVE Laminar(lo2[x], st[x], hi2[x], lo2[y], st[y], hi2[y])
    <3>1. Laminar(lo[x], st[x], hi[x], lo[y], st[y], hi[y])
      BY <2>1, <2>3, BstLaminar
    <3>2. st[x] < s => Laminar(lo[x], st[x], hi[x], a, s, b)
      BY <1>3, <2>1, BstLaminar
    <3>3. s < st[y] => Laminar(a, s, b, lo[y], st[y], hi[y])
      BY <1>3, <2>1, BstLaminar
    <3>4. s < st[x] => Laminar(a, s, b, lo[x], st[x], hi[x])
      BY <1>3, <2>1, BstLaminar
    <3>5. st[y] < s => Laminar(lo[y], st[y], hi[y], a, s, b)
      BY <1>3, <2>1, BstLaminar
    <3>6. PICK lx, sx, hx, ly, sy, hy :
            /\ lx = lo[x] /\ sx = st[x] /\ hx = hi[x]
            /\ ly = lo[y] /\ sy = st[y] /\ hy = hi[y]
      OBVIOUS
    <3>7. /\ lx \in Int /\ sx \in Int /\ hx \in Int /\ lx < sx /\ sx < hx
          /\ ly \in Int /\ sy \in Int /\ hy \in Int /\ ly < sy /\ sy < hy
          /\ sx < sy /\ sx # s /\ sy # s
      BY <1>7, <2>1, <2>3, <3>6
    <3>8. ~(s < sx /\ sx < b) /\ ~(s < sy /\ sy < b)
      BY <1>9, <2>1, <3>6
    <3>9. PICK p, q, p2, q2 : /\ p = lo2[x] /\ q = hi2[x] /\ p2 = lo2[y] /\ q2 = hi2[y]
      OBVIOUS
    <3>10. p = lx /\ q = (IF hx = s THEN b ELSE hx) /\ p2 = ly /\ q2 = (IF hy = s THEN b ELSE hy)
      BY <1>6, <2>1, <3>6, <3>9
    <3>11. /\ Laminar(lx, sx, hx, ly, sy, hy)
           /\ sx < s => Laminar(lx, sx, hx, a, s, b)
           /\ s < sy => Laminar(a, s, b, ly, sy, hy)
           /\ s < sx => Laminar(a, s, b, lx, sx, hx)
           /\ sy < s => Laminar(ly, sy, hy, a, s, b)
      BY <3>1, <3>2, <3>3, <3>4, <3>5, <3>6
    <3>12. Laminar(p, sx, q, p2, sy, q2)
      BY <1>8, <3>7, <3>8, <3>10, <3>11 DEF Laminar
    <3> QED BY <3>6, <3>9, <3>12
  <2> QED BY <2>2, <2>3
<1>13. OnlyAt(t, sp, T, w, n) /\ a = Low(w, lo, st) /\ b = High(w, hi, st)
  <2>1. IsPlace(w, sp, T)
    BY DEF IsPlace
  <2> QED BY <1>3, <2>1, OnePlace
<1>14. Child(v, a, b, S, lo2, hi2, st)
  <2>1. Child(v, a, s, T, lo, hi, st)
    BY <1>2, <1>3, BstLinks
  <2>2. CASE v = Null
    <3>1. \A x \in T : ~(a < st[x] /\ st[x] < s)
      BY <2>1, <2>2 DEF Child
    <3>2. \A x \in S : ~(a < st[x] /\ st[x] < b)
      BY <1>8, <1>9, <1>10, <3>1
    <3> QED BY <2>2, <3>2 DEF Child
  <2>3. CASE v # Null
    <3>1. v \in T /\ lo[v] = a /\ hi[v] = s
      BY <2>1, <2>3 DEF Child
    <3>2. v # n
      BY <1>3, <1>8, <3>1
    <3> QED BY <1>1, <1>6, <1>8, <2>3, <3>1, <3>2 DEF Child
  <2> QED BY <2>2, <2>3
<1>15. ASSUME NEW c, NEW x, NEW y, c # n, Child(c, x, y, T, lo, hi, st),
              x \in Int, y \in Int, y # s
       PROVE  Child(c, x, y, S, lo2, hi2, st)
  <2>1. CASE c = Null
    BY <1>10, <1>15, <2>1 DEF Child
  <2>2. CASE c # Null
    <3>1. c \in T /\ lo[c] = x /\ hi[c] = y
      BY <1>15, <2>2 DEF Child
    <3> QED BY <1>1, <1>6, <1>15, <2>2, <3>1 DEF Child
  <2> QED BY <2>1, <2>2
<1>16. Child(t2.mem[sp], -1, Top, S, lo2, hi2, st)
  <2>1. CASE w = <<"mem", sp>>
    <3>1. a = -1 /\ b = Top /\ t2.mem[sp] = v
      BY <1>2, <1>13, <2>1 DEF Replaced, Low, High
    <3> QED BY <1>14, <3>1
  <2>2. CASE w # <<"mem", sp>>
    <3>1. t2.mem[sp] = t.mem[sp] /\ t.mem[sp] # n
      BY <1>13, <2>2 DEF Replaced, OnlyAt
    <3>2. Child(t.mem[sp], -1, Top, T, lo, hi, st)
      BY BstLinks
    <3>3. Top \in Int /\ -1 \in Int /\ -1 # s /\ Top # s
      BY <1>8, TopNumber
    <3> QED BY <1>15, <3>1, <3>2, <3>3
  <2> QED BY <2>1, <2>2
<1>17. ASSUME NEW x \in S PROVE Child(t2.left[x], lo2[x], st[x], S, lo2, hi2, st)
  <2>1. x \in T /\ x # n /\ st[x] # s /\ st[x] \in Int /\ lo[x] \in Int /\ lo[x] < st[x]
    BY <1>7, <1>10
  <2>2. Child(t.left[x], lo[x], st[x], T, lo, hi, st)
    BY <2>1, BstLinks
  <2>3. CASE w = <<"left", x>>
    <3>1. a = lo[x] /\ b = st[x] /\ t2.left[x] = v
      BY <1>1, <1>2, <1>13, <2>3 DEF Replaced, Low, High
    <3>2. lo2[x] = lo[x]
      BY <1>6, <1>8, <2>1, <3>1
    <3> QED BY <1>14, <3>1, <3>2
  <2>4. CASE w # <<"left", x>>
    <3>1. t2.left[x] = t.left[x] /\ t.left[x] # n
      BY <1>1, <1>13, <2>1, <2>4 DEF Replaced, OnlyAt
    <3>2. lo2[x] = lo[x]
      BY <1>6, <2>1
    <3> QED BY <1>15, <2>1, <2>2, <3>1, <3>2
  <2> QED BY <2>3, <2>4
<1>18. ASSUME NEW x \in S PROVE Child(t2.right[x], st[x], hi2[x], S, lo2, hi2, st)
  <2>1. x \in T /\ x # n /\ st[x] # s /\ st[x] \in Int /\ hi[x] \in Int /\ st[x] < hi[x]
    BY <1>7, <1>10
  <2>2. Child(t.right[x], st[x], hi[x], T, lo, hi, st)
    BY <2>1, BstLinks
  <2>3. CASE w = <<"right", x>>
    <3>1. a = st[x] /\ b = hi[x] /\ t2.right[x] = v
      BY <1>1, <1>2, <1>13, <2>3 DEF Replaced, Low, High
    <3>2. hi2[x] = hi[x]
      BY <1>6, <1>8, <2>1, <3>1
    <3> QED BY <1>14, <3>1, <3>2
  <2>4. CASE w # <<"right", x>>
    <3>1. t2.right[x] = t.right[x] /\ t.right[x] # n
      BY <1>1, <1>13, <2>1, <2>4 DEF Replaced, OnlyAt
    <3>2. CASE hi[x] # s
      <4>1. hi2[x] = hi[x]
        BY <1>6, <2>1, <3>2
      <4> QED BY <1>15, <2>1, <2>2, <3>1, <3>2, <4>1
    <3>3. CASE hi[x] = s
      <4>1. hi2[x] = b
        BY <1>6, <2>1, <3>3
      <4>2. CASE t.right[x] = Null
        <5>1. \A y \in T : ~(st[x] < st[y] /\ st[y] < s)
          BY <2>2, <3>3, <4>2 DEF Child
        <5>2. \A y \in S : ~(st[x] < st[y] /\ st[y] < b)
          BY <1>8, <1>9, <1>10, <2>1, <5>1
        <5> QED BY <3>1, <4>1, <4>2, <5>2 DEF Child
      <4>3. CASE t.right[x] # Null
        <5>1. t.right[x] \in T /\ lo[t.right[x]] = st[x] /\ hi[t.right[x]] = s
          BY <2>2, <3>3, <4>3 DEF Child
        <5> QED BY <1>1, <1>6, <3>1, <4>1, <4>3, <5>1 DEF Child
      <4> QED BY <4>2, <4>3
    <3> QED BY <3>2, <3>3
  <2> QED BY <2>3, <2>4
<1>19. S \subseteq Node
  BY <1>1, <1>5
<1>20. Bst(t2, sp, S, lo2, hi2, st)
  BY <1>11, <1>12, <1>16, <1>17, <1>18, <1>19 DEF Bst
<1> QED BY <1>1, <1>20

\* What is left when m takes the place of n: what is between m and the end of
\* the span of n is lost, unless m is the node next to n.
Kept(T, n, m, hi, st) ==
  {x \in T : x # n /\ ~(hi[m] <= st[x] /\ st[x] < hi[n])}

\* The leftmost node m on the right of n, which is at place v.
IsLeftmost(t, sp, T, n, m, v, lo, hi, st) ==
  /\ m \in T /\ m # n /\ t.left[m] = Null
  /\ lo[m] = st[n] /\ hi[m] <= hi[n]
  /\ At(t, v) = m
  /\ v = <<"right", n>> \/ \E h \in T : v = <<"left", h>> /\ hi[m] <= st[h] /\ st[h] < hi[n]

\* In t2, m has the links of n, and the place w of n.
Moved(t, t2, sp, S, w, n, m) ==
  /\ t2.mem[sp] = (IF w = <<"mem", sp>> THEN m ELSE t.mem[sp])
  /\ \A x \in S : t2.left[x] = (IF x = m THEN t.left[n]
                                ELSE IF w = <<"left", x>> THEN m ELSE t.left[x])
  /\ \A x \in S : t2.right[x] = (IF w = <<"right", x>> THEN m ELSE t.right[x])

LEMMA RemoveBoth ==
  ASSUME NEW t, NEW t2, NEW sp, NEW T, NEW lo, NEW hi, NEW st, Bst(t, sp, T, lo, hi, st),
         NEW n \in T, NEW m, NEW v, IsLeftmost(t, sp, T, n, m, v, lo, hi, st),
         NEW S, S = Kept(T, n, m, hi, st),
         NEW w, IsPlace(w, sp, T), At(t, w) = n, t.left[n] # Null,
         Moved(t, t2, sp, S, w, n, m)
  PROVE  \E lo2, hi2 : Bst(t2, sp, S, lo2, hi2, st)
<1>0. /\ t2.mem[sp] = (IF w = <<"mem", sp>> THEN m ELSE t.mem[sp])
      /\ \A x \in S : t2.left[x] = (IF x = m THEN t.left[n]
                                    ELSE IF w = <<"left", x>> THEN m ELSE t.left[x])
      /\ \A x \in S : t2.right[x] = (IF w = <<"right", x>> THEN m ELSE t.right[x])
  BY DEF Moved
<1> USE <1>0
<1>1. PICK a, b, s, e, d : a = lo[n] /\ b = hi[n] /\ s = st[n] /\ e = st[m] /\ d = hi[m]
  OBVIOUS
<1> DEFINE lo1 == [x \in Node |-> IF x = m THEN a ELSE lo[x]]
           hi1 == [x \in Node |-> IF x = m THEN b ELSE IF hi[x] = s THEN e
                                  ELSE IF hi[x] = d THEN b ELSE hi[x]]
<1>2. PICK lo2, hi2 : lo2 = lo1 /\ hi2 = hi1
  OBVIOUS
<1>3. \A x \in T : x \in Node /\ x # Null
  BY BstNumbers
<1>4. \A x \in T : /\ lo2[x] = IF x = m THEN a ELSE lo[x]
                   /\ hi2[x] = IF x = m THEN b ELSE IF hi[x] = s THEN e
                               ELSE IF hi[x] = d THEN b ELSE hi[x]
  BY <1>2, <1>3
<1> HIDE DEF lo1, hi1
<1>5. \A x \in T : /\ lo[x] \in Int /\ st[x] \in Int /\ hi[x] \in Int
                   /\ -1 <= lo[x] /\ lo[x] < st[x] /\ st[x] < hi[x] /\ hi[x] <= Top
  BY BstNumbers
<1>6. m \in T /\ m # n /\ t.left[m] = Null /\ lo[m] = s /\ d <= b
  BY <1>1 DEF IsLeftmost
<1>7. /\ a \in Int /\ b \in Int /\ s \in Int /\ e \in Int /\ d \in Int
      /\ -1 <= a /\ a < s /\ s < e /\ e < d /\ d <= b /\ b <= Top
  BY <1>1, <1>5, <1>6
<1>8. \A x \in S : /\ x \in T /\ x # n /\ st[x] \in Int /\ st[x] # s
                   /\ ~(d <= st[x] /\ st[x] < b) /\ (x # m => st[x] # e)
  BY <1>1, <1>5, <1>6, BstLaminar DEF Kept
<1>9. \A x \in T : x # n => x \in S \/ (d <= st[x] /\ st[x] < b)
  BY <1>1 DEF Kept
<1>10. \A x \in T : ~(s < st[x] /\ st[x] < e)
  <2>1. Child(t.left[m], lo[m], st[m], T, lo, hi, st)
    BY <1>6, BstLinks
  <2> QED BY <1>1, <1>6, <2>1 DEF Child
<1>11. m \in S
  BY <1>1, <1>6, <1>7 DEF Kept
<1>12. OnlyAt(t, sp, T, w, n) /\ a = Low(w, lo, st) /\ b = High(w, hi, st)
  BY <1>1, OnePlace
<1>13. /\ t.mem[sp] # m
       /\ \A x \in S : t.left[x] # m /\ t.right[x] # m
  <2>1. At(t, v) = m /\ IsPlace(v, sp, T)
    BY DEF IsLeftmost, IsPlace
  <2>2. OnlyAt(t, sp, T, v, m)
    BY <1>6, <2>1, OnePlace
  <2>3. \A x \in S : v # <<"left", x>> /\ v # <<"right", x>>
    BY <1>1, <1>8 DEF IsLeftmost
  <2>4. v # <<"mem", sp>>
    BY DEF IsLeftmost
  <2> QED BY <1>8, <2>2, <2>3, <2>4 DEF OnlyAt
<1>14. w # <<"left", m>> /\ w # <<"right", m>>
  <2>1. w # <<"left", m>>
    BY <1>3, <1>6 DEF At
  <2>2. ASSUME w = <<"right", m>> PROVE FALSE
    <3>1. a = e
      BY <1>1, <1>12, <2>2 DEF Low
    <3> QED BY <1>7, <3>1
  <2> QED BY <2>1, <2>2
<1>15. Spans(S, lo2, hi2, st)
  <2> SUFFICES ASSUME NEW x \in S
               PROVE  /\ lo2[x] \in Int /\ st[x] \in Int /\ hi2[x] \in Int
                      /\ -1 <= lo2[x] /\ lo2[x] < st[x] /\ st[x] < hi2[x] /\ hi2[x] <= Top
    BY DEF Spans
  <2>1. /\ x \in T /\ lo[x] \in Int /\ st[x] \in Int /\ hi[x] \in Int
        /\ -1 <= lo[x] /\ lo[x] < st[x] /\ st[x] < hi[x] /\ hi[x] <= Top
    BY <1>5, <1>8
  <2>2. CASE x = m
    <3>1. lo2[x] = a /\ hi2[x] = b /\ st[x] = e
      BY <1>1, <1>4, <2>1, <2>2
    <3> QED BY <1>7, <3>1
  <2>3. CASE x # m
    <3>1. lo2[x] = lo[x] /\ hi2[x] = IF hi[x] = s THEN e ELSE IF hi[x] = d THEN b ELSE hi[x]
      BY <1>4, <2>1, <2>3
    <3>2. e <= Top
      BY <1>7, TopNumber
    <3> QED BY <1>7, <2>1, <3>1, <3>2
  <2> QED BY <2>2, <2>3
<1>16. Nested(S, lo2, hi2, st)
  <2> SUFFICES ASSUME NEW x \in S, NEW y \in S
               PROVE  /\ st[x] = st[y] => x = y
                      /\ st[x] < st[y] =>
                           Laminar(lo2[x], st[x], hi2[x], lo2[y], st[y], hi2[y])
    BY DEF Nested
  <2>1. x \in T /\ y \in T
    BY <1>8
  <2>2. st[x] = st[y] => x = y
    BY <2>1, BstLaminar
  <2>3. ASSUME st[x] < st[y] PROVE Laminar(lo2[x], st[x], hi2[x], lo2[y], st[y], hi2[y])
    <3>1. PICK lx, sx, hx, ly, sy, hy :
            /\ lx = lo[x] /\ sx = st[x] /\ hx = hi[x]
            /\ ly = lo[y] /\ sy = st[y] /\ hy = hi[y]
      OBVIOUS
    <3>2. /\ lx \in Int /\ sx \in Int /\ hx \in Int /\ lx < sx /\ sx < hx
          /\ ly \in Int /\ sy \in Int /\ hy \in Int /\ ly < sy /\ sy < hy
          /\ sx < sy /\ sx # s /\ sy # s
          /\ ~(d <= sx /\ sx < b) /\ ~(d <= sy /\ sy < b)
          /\ ~(s < sx /\ sx < e) /\ ~(s < sy /\ sy < e)
      BY <1>5, <1>8, <1>10, <2>1, <2>3, <3>1
    <3>3. /\ Laminar(lx, sx, hx, ly, sy, hy)
          /\ sx < s => Laminar(lx, sx, hx, a, s, b)
          /\ s < sy => Laminar(a, s, b, ly, sy, hy)
          /\ s < sx => Laminar(a, s, b, lx, sx, hx)
          /\ sy < s => Laminar(ly, sy, hy, a, s, b)
      <4>1. Laminar(lx, sx, hx, ly, sy, hy)
        BY <2>1, <2>3, <3>1, BstLaminar
      <4>2. sx < s => Laminar(lx, sx, hx, a, s, b)
        BY <1>1, <2>1, <3>1, BstLaminar
      <4>3. s < sy => Laminar(a, s, b, ly, sy, hy)
        BY <1>1, <2>1, <3>1, BstLaminar
      <4>4. s < sx => Laminar(a, s, b, lx, sx, hx)
        BY <1>1, <2>1, <3>1, BstLaminar
      <4>5. sy < s => Laminar(ly, sy, hy, a, s, b)
        BY <1>1, <2>1, <3>1, BstLaminar
      <4> QED BY <4>1, <4>2, <4>3, <4>4, <4>5
    <3>4. /\ sx < e => Laminar(lx, sx, hx, s, e, d)
          /\ e < sy => Laminar(s, e, d, ly, sy, hy)
          /\ e < sx => Laminar(s, e, d, lx, sx, hx)
          /\ sy < e => Laminar(ly, sy, hy, s, e, d)
      <4>1. sx < e => Laminar(lx, sx, hx, s, e, d)
        BY <1>1, <1>6, <2>1, <3>1, BstLaminar
      <4>2. e < sy => Laminar(s, e, d, ly, sy, hy)
        BY <1>1, <1>6, <2>1, <3>1, BstLaminar
      <4>3. e < sx => Laminar(s, e, d, lx, sx, hx)
        BY <1>1, <1>6, <2>1, <3>1, BstLaminar
      <4>4. sy < e => Laminar(ly, sy, hy, s, e, d)
        BY <1>1, <1>6, <2>1, <3>1, BstLaminar
      <4> QED BY <4>1, <4>2, <4>3, <4>4
    <3>5. PICK p, q, p2, q2 : /\ p = lo2[x] /\ q = hi2[x] /\ p2 = lo2[y] /\ q2 = hi2[y]
      OBVIOUS
    <3>6. CASE x = m
      <4>1. /\ p = a /\ q = b /\ sx = e /\ p2 = ly
            /\ q2 = IF hy = s THEN e ELSE IF hy = d THEN b ELSE hy
        BY <1>1, <1>4, <2>1, <2>3, <3>1, <3>2, <3>5, <3>6
      <4>2. Laminar(p, sx, q, p2, sy, q2)
        BY <1>7, <3>2, <3>3, <3>4, <4>1 DEF Laminar
      <4> QED BY <3>1, <3>5, <4>2
    <3>7. CASE y = m
      <4>1. /\ p2 = a /\ q2 = b /\ sy = e /\ p = lx
            /\ q = IF hx = s THEN e ELSE IF hx = d THEN b ELSE hx
        BY <1>1, <1>4, <2>1, <2>3, <3>1, <3>2, <3>5, <3>7
      <4>2. Laminar(p, sx, q, p2, sy, q2)
        BY <1>7, <3>2, <3>3, <3>4, <4>1 DEF Laminar
      <4> QED BY <3>1, <3>5, <4>2
    <3>8. CASE x # m /\ y # m
      <4>1. /\ p = lx /\ q = (IF hx = s THEN e ELSE IF hx = d THEN b ELSE hx)
            /\ p2 = ly /\ q2 = (IF hy = s THEN e ELSE IF hy = d THEN b ELSE hy)
            /\ sx # e /\ sy # e
        BY <1>1, <1>4, <1>8, <2>1, <3>1, <3>5, <3>8
      <4>2. Laminar(p, sx, q, p2, sy, q2)
        BY <1>7, <3>2, <3>3, <3>4, <4>1 DEF Laminar
      <4> QED BY <3>1, <3>5, <4>2
    <3> QED BY <3>6, <3>7, <3>8
  <2> QED BY <2>2, <2>3
<1>17. Child(m, a, b, S, lo2, hi2, st)
  BY <1>3, <1>4, <1>6, <1>11 DEF Child
\* No node that is kept leads to one that is lost.
<1>18. ASSUME NEW x \in S, NEW c \in T, t.left[x] = c, c # n PROVE c \in S
  <2> SUFFICES ASSUME d <= st[c], st[c] < b PROVE FALSE
    BY <1>9, <1>18
  <2>1. lo[c] = lo[x] /\ hi[c] = st[x] /\ x \in T
    BY <1>8, <1>18, LinkSpans DEF LeftAt
  <2>2. PICK lx, sx, hx, lc, sc, hc :
          /\ lx = lo[x] /\ sx = st[x] /\ hx = hi[x]
          /\ lc = lo[c] /\ sc = st[c] /\ hc = hi[c]
    OBVIOUS
  <2>3. /\ lx \in Int /\ sx \in Int /\ hx \in Int /\ lx < sx /\ sx < hx
        /\ lc = lx /\ hc = sx /\ sc \in Int /\ lc < sc /\ sc < hc /\ d <= sc /\ sc < b
        /\ ~(d <= sx /\ sx < b)
    BY <1>5, <1>8, <2>1, <2>2
  <2>4. Laminar(a, s, b, lx, sx, hx) /\ Laminar(a, s, b, lc, sc, hc)
    <3>1. s < sx /\ s < sc
      BY <1>7, <2>3
    <3> QED BY <1>1, <2>1, <2>2, <3>1, BstLaminar
  <2> QED BY <1>7, <2>3, <2>4 DEF Laminar
<1>19. ASSUME NEW x \in S, NEW c \in T, t.right[x] = c, c # n, x # m PROVE c \in S
  <2> SUFFICES ASSUME d <= st[c], st[c] < b PROVE FALSE
    BY <1>9, <1>19
  <2>1. lo[c] = st[x] /\ hi[c] = hi[x] /\ x \in T /\ st[x] # e
    BY <1>8, <1>19, LinkSpans DEF RightAt
  <2>2. PICK lx, sx, hx, lc, sc, hc :
          /\ lx = lo[x] /\ sx = st[x] /\ hx = hi[x]
          /\ lc = lo[c] /\ sc = st[c] /\ hc = hi[c]
    OBVIOUS
  <2>3. /\ lx \in Int /\ sx \in Int /\ hx \in Int /\ lx < sx /\ sx < hx
        /\ lc = sx /\ hc = hx /\ sc \in Int /\ lc < sc /\ sc < hc /\ d <= sc /\ sc < b
        /\ ~(d <= sx /\ sx < b) /\ ~(s < sx /\ sx < e) /\ sx # s /\ sx # e
    BY <1>5, <1>8, <1>10, <2>1, <2>2
  <2>4. Laminar(a, s, b, lc, sc, hc) /\ (s < sx => Laminar(a, s, b, lx, sx, hx))
    <3>1. s < sc
      BY <1>7, <2>3
    <3> QED BY <1>1, <2>1, <2>2, <3>1, BstLaminar
  <2>5. e < sx => Laminar(s, e, d, lx, sx, hx)
    BY <1>1, <1>6, <2>1, <2>2, BstLaminar
  <2> QED BY <1>7, <2>3, <2>4, <2>5 DEF Laminar
<1>20. Child(t2.mem[sp], -1, Top, S, lo2, hi2, st)
  <2>1. CASE w = <<"mem", sp>>
    <3>1. a = -1 /\ b = Top /\ t2.mem[sp] = m
      BY <1>12, <2>1 DEF Low, High
    <3> QED BY <1>17, <3>1
  <2>2. CASE w # <<"mem", sp>>
    <3>1. PICK c : c = t.mem[sp]
      OBVIOUS
    <3>2. t2.mem[sp] = c /\ c # n /\ c # m
      BY <1>12, <1>13, <2>2, <3>1 DEF OnlyAt
    <3>3. Child(c, -1, Top, T, lo, hi, st)
      BY <3>1, BstLinks
    <3>4. c # Null
      <4>1. -1 < e /\ e < Top
        BY <1>7, TopNumber
      <4> QED BY <1>1, <1>6, <3>3, <4>1 DEF Child
    <3>5. c \in T /\ lo[c] = -1 /\ hi[c] = Top
      BY <3>3, <3>4 DEF Child
    <3>6. c \in S
      <4> SUFFICES ASSUME d <= st[c], st[c] < b PROVE FALSE
        BY <1>9, <3>2, <3>5
      <4>1. PICK sc : sc = st[c]
        OBVIOUS
      <4>2. sc \in Int /\ s < sc
        BY <1>5, <1>7, <3>5, <4>1
      <4>3. Laminar(a, s, b, -1, sc, Top)
        BY <1>1, <3>5, <4>1, <4>2, BstLaminar
      <4> QED BY <1>7, <4>1, <4>2, <4>3, TopNumber DEF Laminar
    <3>7. lo2[c] = -1 /\ hi2[c] = Top
      BY <1>4, <1>7, <3>2, <3>5, TopNumber
    <3> QED BY <3>2, <3>4, <3>6, <3>7 DEF Child
  <2> QED BY <2>1, <2>2
<1>21. ASSUME NEW x \in S PROVE Child(t2.left[x], lo2[x], st[x], S, lo2, hi2, st)
  <2>1. /\ x \in T /\ x # n /\ st[x] # s /\ st[x] \in Int /\ lo[x] \in Int /\ lo[x] < st[x]
        /\ ~(d <= st[x] /\ st[x] < b)
    BY <1>5, <1>8
  <2>2. Child(t.left[x], lo[x], st[x], T, lo, hi, st)
    BY <2>1, BstLinks
  <2>3. CASE x = m
    <3>1. PICK c : c = t.left[n]
      OBVIOUS
    <3>2. c \in T /\ lo[c] = a /\ hi[c] = s /\ c # Null
      BY <1>1, <3>1, BstLinks DEF Child
    <3>3. c # n /\ c # m
      BY <1>1, <1>6, <1>7, <3>2
    <3>4. c \in S
      BY <1>5, <1>7, <1>9, <3>2, <3>3
    <3>5. lo2[c] = a /\ hi2[c] = e /\ lo2[m] = a /\ st[m] = e
      BY <1>1, <1>4, <1>6, <3>2, <3>3
    <3>6. t2.left[x] = c
      BY <2>3, <3>1
    <3> QED BY <2>3, <3>2, <3>4, <3>5, <3>6 DEF Child
  <2>4. CASE x # m /\ w = <<"left", x>>
    <3>1. a = lo[x] /\ b = st[x] /\ t2.left[x] = m
      BY <1>12, <2>4 DEF Low, High
    <3>2. lo2[x] = lo[x]
      BY <1>4, <2>1, <2>4
    <3> QED BY <1>17, <3>1, <3>2
  <2>5. CASE x # m /\ w # <<"left", x>>
    <3>1. PICK c : c = t.left[x]
      OBVIOUS
    <3>2. t2.left[x] = c /\ c # n /\ c # m /\ lo2[x] = lo[x]
      BY <1>4, <1>12, <1>13, <2>1, <2>5, <3>1 DEF OnlyAt
    <3>3. CASE c = Null
      <4>1. \A y \in S : ~(lo[x] < st[y] /\ st[y] < st[x])
        BY <1>8, <2>2, <3>1, <3>3 DEF Child
      <4> QED BY <3>2, <3>3, <4>1 DEF Child
    <3>4. CASE c # Null
      <4>1. c \in T /\ lo[c] = lo[x] /\ hi[c] = st[x]
        BY <2>2, <3>1, <3>4 DEF Child
      <4>2. c \in S
        BY <1>18, <3>1, <3>2, <4>1
      <4>3. lo2[c] = lo[x] /\ hi2[c] = st[x]
        BY <1>4, <1>7, <2>1, <3>2, <4>1
      <4> QED BY <3>2, <3>4, <4>2, <4>3 DEF Child
    <3> QED BY <3>3, <3>4
  <2> QED BY <2>3, <2>4, <2>5
<1>22. ASSUME NEW x \in S PROVE Child(t2.right[x], st[x], hi2[x], S, lo2, hi2, st)
  <2>1. /\ x \in T /\ x # n /\ st[x] # s /\ st[x] \in Int /\ hi[x] \in Int /\ st[x] < hi[x]
        /\ ~(d <= st[x] /\ st[x] < b)
    BY <1>5, <1>8
  <2>2. Child(t.right[x], st[x], hi[x], T, lo, hi, st)
    BY <2>1, BstLinks
  <2>3. CASE w = <<"right", x>>
    <3>1. a = st[x] /\ b = hi[x] /\ t2.right[x] = m /\ x # m
      BY <1>12, <1>14, <2>3 DEF Low, High
    <3>2. hi2[x] = b
      BY <1>4, <1>7, <2>1, <3>1
    <3> QED BY <1>17, <3>1, <3>2
  <2>4. CASE w # <<"right", x>>
    <3>1. PICK c : c = t.right[x]
      OBVIOUS
    <3>2. t2.right[x] = c /\ c # n /\ c # m
      BY <1>12, <1>13, <2>1, <2>4, <3>1 DEF OnlyAt
    <3>3. CASE c = Null
      <4>1. \A y \in T : ~(st[x] < st[y] /\ st[y] < hi[x])
        BY <2>2, <3>1, <3>3 DEF Child
      <4>2. \A y \in S : ~(st[x] < st[y] /\ st[y] < hi2[x])
        <5> SUFFICES ASSUME NEW y \in S, st[x] < st[y], st[y] < hi2[x] PROVE FALSE
          OBVIOUS
        <5>1. ~(st[x] < st[y] /\ st[y] < hi[x]) /\ ~(s < st[y] /\ st[y] < e)
              /\ ~(d <= st[y] /\ st[y] < b) /\ st[y] # s /\ st[y] \in Int
          BY <1>8, <1>10, <4>1
        <5>2. CASE x = m
          <6>1. hi2[x] = b /\ hi[x] = d
            BY <1>1, <1>4, <2>1, <5>2
          <6> QED BY <1>7, <2>1, <5>1, <6>1
        <5>3. CASE x # m
          <6>1. hi2[x] = IF hi[x] = s THEN e ELSE IF hi[x] = d THEN b ELSE hi[x]
            BY <1>4, <2>1, <5>3
          <6> QED BY <1>7, <2>1, <5>1, <6>1
        <5> QED BY <5>2, <5>3
      <4> QED BY <3>2, <3>3, <4>2 DEF Child
    <3>4. CASE c # Null
      <4>1. c \in T /\ lo[c] = st[x] /\ hi[c] = hi[x]
        BY <2>2, <3>1, <3>4 DEF Child
      <4>2. c \in S
        <5>1. CASE x = m
          BY <1>1, <1>5, <1>9, <3>2, <4>1, <5>1
        <5>2. CASE x # m
          BY <1>19, <3>1, <3>2, <4>1, <5>2
        <5> QED BY <5>1, <5>2
      <4>3. lo2[c] = st[x] /\ hi2[c] = hi2[x]
        BY <1>1, <1>4, <1>7, <2>1, <3>2, <4>1
      <4> QED BY <3>2, <3>4, <4>2, <4>3 DEF Child
    <3> QED BY <3>3, <3>4
  <2> QED BY <2>3, <2>4
<1>23. S \subseteq Node
  BY <1>3, <1>8
<1>24. Bst(t2, sp, S, lo2, hi2, st)
  BY <1>15, <1>16, <1>20, <1>21, <1>22, <1>23 DEF Bst
<1> QED BY <1>24

SameLinks(t, t2, sp, S) ==
  /\ t2.mem[sp] = t.mem[sp]
  /\ \A x \in S : t2.left[x] = t.left[x] /\ t2.right[x] = t.right[x]

\* A tree depends on its own links and fpages only.
LEMMA BstFrame ==
  ASSUME NEW t, NEW t2, NEW sp, NEW T, NEW lo, NEW hi, NEW st, NEW st2,
         Bst(t, sp, T, lo, hi, st), SameLinks(t, t2, sp, T), \A x \in T : st2[x] = st[x]
  PROVE  Bst(t2, sp, T, lo, hi, st2)
<1>1. Spans(T, lo, hi, st2) /\ Nested(T, lo, hi, st2) /\ T \subseteq Node
  BY DEF Bst, Spans, Nested
<1>2. \A c, a, b : Child(c, a, b, T, lo, hi, st) => Child(c, a, b, T, lo, hi, st2)
  BY DEF Child
<1>3. Child(t2.mem[sp], -1, Top, T, lo, hi, st2)
  BY <1>2 DEF Bst, SameLinks
<1>4. \A x \in T : /\ Child(t2.left[x], lo[x], st2[x], T, lo, hi, st2)
                   /\ Child(t2.right[x], st2[x], hi[x], T, lo, hi, st2)
  BY <1>2 DEF Bst, SameLinks
<1> QED BY <1>1, <1>3, <1>4 DEF Bst

LEMMA TreeFields ==
  ASSUME NEW t \in Trees
  PROVE  /\ t.mem \in [Space -> Ref] /\ t.left \in [Node -> Ref] /\ t.right \in [Node -> Ref]
         /\ t = [mem |-> t.mem, left |-> t.left, right |-> t.right]
BY DEF Trees

LEMMA PutMem ==
  ASSUME NEW t \in Trees, NEW sp \in Space, NEW v \in Ref, NEW w, w = <<"mem", sp>>
  PROVE  /\ Put(t, w, v) \in Trees /\ At(t, w) = t.mem[sp]
         /\ Put(t, w, v).mem = [t.mem EXCEPT ![sp] = v]
         /\ Put(t, w, v).left = t.left /\ Put(t, w, v).right = t.right
<1>1. w[1] = "mem" /\ w[2] = sp
  OBVIOUS
<1>2. At(t, w) = t.mem[sp] /\ Put(t, w, v) = [t EXCEPT !.mem[sp] = v]
  BY <1>1 DEF At, Put
<1>3. [t EXCEPT !.mem[sp] = v]
        = [mem |-> [t.mem EXCEPT ![sp] = v], left |-> t.left, right |-> t.right]
  BY DEF Trees
<1>4. [t.mem EXCEPT ![sp] = v] \in [Space -> Ref]
  BY DEF Trees
<1> QED BY <1>2, <1>3, <1>4 DEF Trees

LEMMA PutLeft ==
  ASSUME NEW t \in Trees, NEW n \in Node, NEW v \in Ref, NEW w, w = <<"left", n>>
  PROVE  /\ Put(t, w, v) \in Trees /\ At(t, w) = t.left[n]
         /\ Put(t, w, v).left = [t.left EXCEPT ![n] = v]
         /\ Put(t, w, v).mem = t.mem /\ Put(t, w, v).right = t.right
<1>1. w[1] = "left" /\ w[2] = n
  OBVIOUS
<1>2. At(t, w) = t.left[n] /\ Put(t, w, v) = [t EXCEPT !.left[n] = v]
  BY <1>1 DEF At, Put
<1>3. [t EXCEPT !.left[n] = v]
        = [mem |-> t.mem, left |-> [t.left EXCEPT ![n] = v], right |-> t.right]
  BY DEF Trees
<1>4. [t.left EXCEPT ![n] = v] \in [Node -> Ref]
  BY DEF Trees
<1> QED BY <1>2, <1>3, <1>4 DEF Trees

LEMMA PutRight ==
  ASSUME NEW t \in Trees, NEW n \in Node, NEW v \in Ref, NEW w, w = <<"right", n>>
  PROVE  /\ Put(t, w, v) \in Trees /\ At(t, w) = t.right[n]
         /\ Put(t, w, v).right = [t.right EXCEPT ![n] = v]
         /\ Put(t, w, v).mem = t.mem /\ Put(t, w, v).left = t.left
<1>1. w[1] = "right" /\ w[2] = n
  OBVIOUS
<1>2. At(t, w) = t.right[n] /\ Put(t, w, v) = [t EXCEPT !.right[n] = v]
  BY <1>1 DEF At, Put
<1>3. [t EXCEPT !.right[n] = v]
        = [mem |-> t.mem, left |-> t.left, right |-> [t.right EXCEPT ![n] = v]]
  BY DEF Trees
<1>4. [t.right EXCEPT ![n] = v] \in [Node -> Ref]
  BY DEF Trees
<1> QED BY <1>2, <1>3, <1>4 DEF Trees

\* A pointer that is written at a place, and what stays.
OnlyChanged(t, t2, sp, S) ==
  /\ \A x \in Space : x # sp => t2.mem[x] = t.mem[x]
  /\ \A x \in Node : x \notin S => t2.left[x] = t.left[x] /\ t2.right[x] = t.right[x]

LEMMA PutFacts ==
  ASSUME NEW t \in Trees, NEW sp \in Space, NEW S \in SUBSET Node, NEW w, IsPlace(w, sp, S),
         NEW v \in Ref
  PROVE  /\ Put(t, w, v) \in Trees
         /\ Replaced(t, Put(t, w, v), sp, Node, w, v)
         /\ OnlyChanged(t, Put(t, w, v), sp, S)
<1>1. PICK t2 : t2 = Put(t, w, v)
  OBVIOUS
<1>2. CASE w = <<"mem", sp>>
  <2>1. /\ t2 \in Trees /\ t2.mem = [t.mem EXCEPT ![sp] = v]
        /\ t2.left = t.left /\ t2.right = t.right
    BY <1>1, <1>2, PutMem
  <2>2. t2.mem[sp] = v /\ \A x \in Space : x # sp => t2.mem[x] = t.mem[x]
    BY <2>1, TreeFields
  <2>3. \A x \in Node : w # <<"left", x>> /\ w # <<"right", x>>
    BY <1>2
  <2>4. Replaced(t, t2, sp, Node, w, v)
    BY <1>2, <2>1, <2>2, <2>3 DEF Replaced
  <2>5. OnlyChanged(t, t2, sp, S)
    BY <2>1, <2>2 DEF OnlyChanged
  <2> QED BY <1>1, <2>1, <2>4, <2>5
<1>3. ASSUME NEW n \in S, w = <<"left", n>>
      PROVE  t2 \in Trees /\ Replaced(t, t2, sp, Node, w, v) /\ OnlyChanged(t, t2, sp, S)
  <2>1. /\ t2 \in Trees /\ t2.left = [t.left EXCEPT ![n] = v]
        /\ t2.mem = t.mem /\ t2.right = t.right
    BY <1>1, <1>3, PutLeft
  <2>2. t2.left[n] = v /\ \A x \in Node : x # n => t2.left[x] = t.left[x]
    BY <2>1, TreeFields
  <2>3. /\ w # <<"mem", sp>>
        /\ \A x \in Node : w # <<"right", x>> /\ (w = <<"left", x>> <=> x = n)
    BY <1>3
  <2>4. Replaced(t, t2, sp, Node, w, v)
    BY <2>1, <2>2, <2>3 DEF Replaced
  <2>5. OnlyChanged(t, t2, sp, S)
    BY <2>1, <2>2 DEF OnlyChanged
  <2> QED BY <2>1, <2>4, <2>5
<1>4. ASSUME NEW n \in S, w = <<"right", n>>
      PROVE  t2 \in Trees /\ Replaced(t, t2, sp, Node, w, v) /\ OnlyChanged(t, t2, sp, S)
  <2>1. /\ t2 \in Trees /\ t2.right = [t.right EXCEPT ![n] = v]
        /\ t2.mem = t.mem /\ t2.left = t.left
    BY <1>1, <1>4, PutRight
  <2>2. t2.right[n] = v /\ \A x \in Node : x # n => t2.right[x] = t.right[x]
    BY <2>1, TreeFields
  <2>3. /\ w # <<"mem", sp>>
        /\ \A x \in Node : w # <<"left", x>> /\ (w = <<"right", x>> <=> x = n)
    BY <1>4
  <2>4. Replaced(t, t2, sp, Node, w, v)
    BY <2>1, <2>2, <2>3 DEF Replaced
  <2>5. OnlyChanged(t, t2, sp, S)
    BY <2>1, <2>2 DEF OnlyChanged
  <2> QED BY <2>1, <2>4, <2>5
<1> QED BY <1>1, <1>2, <1>3, <1>4 DEF IsPlace

LEMMA AtFacts ==
  ASSUME NEW t \in Trees, NEW sp \in Space, NEW S \in SUBSET Node, NEW w, IsPlace(w, sp, S)
  PROVE  /\ At(t, w) \in Ref
         /\ w = <<"mem", sp>> => At(t, w) = t.mem[sp]
         /\ \A x \in Node : /\ w = <<"left", x>> => At(t, w) = t.left[x]
                            /\ w = <<"right", x>> => At(t, w) = t.right[x]
<1>1. ASSUME w = <<"mem", sp>> PROVE At(t, w) = t.mem[sp]
  <2>1. w[1] = "mem" /\ w[2] = sp
    BY <1>1
  <2> QED BY <2>1 DEF At
<1>2. ASSUME NEW x \in Node
      PROVE  /\ w = <<"left", x>> => At(t, w) = t.left[x]
             /\ w = <<"right", x>> => At(t, w) = t.right[x]
  <2>1. ASSUME w = <<"left", x>> PROVE At(t, w) = t.left[x]
    <3>1. w[1] = "left" /\ w[2] = x
      BY <2>1
    <3> QED BY <3>1 DEF At
  <2>2. ASSUME w = <<"right", x>> PROVE At(t, w) = t.right[x]
    <3>1. w[1] = "right" /\ w[2] = x
      BY <2>2
    <3> QED BY <3>1 DEF At
  <2> QED BY <2>1, <2>2
<1>3. At(t, w) \in Ref
  BY <1>1, <1>2, TreeFields DEF IsPlace
<1> QED BY <1>1, <1>2, <1>3

-----------------------------------------------------------------------------
(* Going down a tree.                                                      *)

LEMMA DownFacts ==
  ASSUME NEW t \in Trees, NEW S
  PROVE  /\ Down(t, S) \in [Ref -> Ref] /\ Down(t, S)[Null] = Null
         /\ \A x \in Node : Down(t, S)[x] = IF x \in S THEN t.left[x] ELSE t.right[x]
<1>1. Null \in Ref /\ \A x \in Node : x \in Ref /\ x # Null
  BY NodeCount DEF Ref
<1>2. Down(t, S) = [n \in Ref |-> IF n = Null THEN Null
                                  ELSE IF n \in S THEN t.left[n] ELSE t.right[n]]
  BY DEF Down, Ref
<1>3. \A x \in Ref : (IF x = Null THEN Null ELSE IF x \in S THEN t.left[x] ELSE t.right[x]) \in Ref
  BY TreeFields DEF Ref
<1>4. Down(t, S) \in [Ref -> Ref]
  BY <1>2, <1>3
<1> QED BY <1>1, <1>2, <1>4

\* The spans get smaller on the way down.
Width(lo, hi) == [x \in Node |-> lo[x] - hi[x]]

LEMMA DownRanked ==
  ASSUME NEW t \in Trees, NEW sp, NEW T, NEW lo, NEW hi, NEW st, Bst(t, sp, T, lo, hi, st),
         NEW S, NEW link,
         \A x \in T : link[x] \in {Null, IF x \in S THEN t.left[x] ELSE t.right[x]}
  PROVE  Ranked(link, T, Width(lo, hi))
<1>1. T \subseteq Node
  BY DEF Bst
<1>2. ASSUME NEW x \in T
      PROVE  /\ Width(lo, hi)[x] \in Int
             /\ link[x] # Null => /\ link[x] \in T
                                  /\ Width(lo, hi)[x] < Width(lo, hi)[link[x]]
  <2>1. \A y \in T : Width(lo, hi)[y] = lo[y] - hi[y]
    BY <1>1 DEF Width
  <2>2. \A y \in T : lo[y] \in Int /\ hi[y] \in Int /\ st[y] \in Int
                     /\ lo[y] < st[y] /\ st[y] < hi[y]
    BY BstNumbers
  <2>3. PICK c : c = link[x]
    OBVIOUS
  <2>4. ASSUME c # Null PROVE c \in T /\ lo[x] - hi[x] < lo[c] - hi[c]
    <3>1. CASE x \in S
      <4>1. Child(c, lo[x], st[x], T, lo, hi, st)
        BY <2>3, <2>4, <3>1, BstLinks
      <4>2. c \in T /\ lo[c] = lo[x] /\ hi[c] = st[x]
        BY <2>4, <4>1 DEF Child
      <4> QED BY <2>2, <4>2
    <3>2. CASE x \notin S
      <4>1. Child(c, st[x], hi[x], T, lo, hi, st)
        BY <2>3, <2>4, <3>2, BstLinks
      <4>2. c \in T /\ lo[c] = st[x] /\ hi[c] = hi[x]
        BY <2>4, <4>1 DEF Child
      <4> QED BY <2>2, <4>2
    <3> QED BY <3>1, <3>2
  <2>5. Width(lo, hi)[x] \in Int
    BY <2>1, <2>2
  <2> QED BY <2>1, <2>3, <2>4, <2>5
<1> QED BY <1>1, <1>2 DEF Ranked

\* The last element of a list that is not in S.
LEMMA LastButFacts ==
  ASSUME NEW len \in Nat, NEW s, DOMAIN s = 1..len, NEW S
  PROVE  \/ LastBut(s, S) = Null /\ \A i \in 1..len : s[i] \in S
         \/ \E k \in 1..len : /\ LastBut(s, S) = s[k] /\ s[k] \notin S
                              /\ \A i \in 1..len : k < i => s[i] \in S
<1> DEFINE hits == {i \in DOMAIN s : s[i] \notin S}
<1>1. LastBut(s, S) = IF hits = {} THEN Null ELSE s[CHOOSE i \in hits : \A j \in hits : j <= i]
  BY DEF LastBut
<1>2. CASE hits = {}
  BY <1>1, <1>2
<1>3. CASE hits # {}
  <2>1. hits \in SUBSET (0..len)
    OBVIOUS
  <2>2. \E k \in hits : \A j \in hits : j <= k
    BY <1>3, <2>1, GreatestNumber
  <2>3. PICK k : k = CHOOSE i \in hits : \A j \in hits : j <= i
    OBVIOUS
  <2>4. k \in hits /\ \A j \in hits : j <= k
    BY <2>2, <2>3
  <2>5. LastBut(s, S) = s[k]
    BY <1>1, <1>3, <2>3
  <2>6. \A i \in 1..len : k < i => s[i] \in S
    BY <2>4
  <2> QED BY <2>4, <2>5, <2>6
<1> QED BY <1>2, <1>3

\* The spans of what a descent passes.
Narrows(s, len, S, lo, hi, st) ==
  \A i \in 1..len - 1 :
    /\ s[i] \in S => lo[s[i + 1]] = lo[s[i]] /\ hi[s[i + 1]] = st[s[i]]
    /\ s[i] \notin S => lo[s[i + 1]] = st[s[i]] /\ hi[s[i + 1]] = hi[s[i]]

\* The links of u are those of t, or cut.
CutFrom(t, u, T) ==
  \A x \in T : u.left[x] \in {Null, t.left[x]} /\ u.right[x] \in {Null, t.right[x]}

LEMMA DescentWay ==
  ASSUME NEW t \in Trees, NEW u \in Trees, NEW sp, NEW T, NEW lo, NEW hi, NEW st,
         Bst(t, sp, T, lo, hi, st), CutFrom(t, u, T), NEW S, NEW m \in T \cup {Null}
  PROVE  \E len : /\ Way(Descent(u, m, S), Down(u, S), m, len, T, Width(lo, hi))
                  /\ Narrows(Descent(u, m, S), len, S, lo, hi, st)
<1>1. PICK link : link = Down(u, S)
  OBVIOUS
<1>2. /\ link \in [Ref -> Ref] /\ link[Null] = Null
      /\ \A x \in Node : link[x] = IF x \in S THEN u.left[x] ELSE u.right[x]
  BY <1>1, DownFacts
<1>3. T \subseteq Node
  BY DEF Bst
<1>4. \A x \in T : link[x] \in {Null, IF x \in S THEN t.left[x] ELSE t.right[x]}
  BY <1>2, <1>3 DEF CutFrom
<1>5. Ranked(link, T, Width(lo, hi))
  BY <1>4, DownRanked
<1>6. PICK s : s = Along(link, m)
  OBVIOUS
<1>7. PICK len : Way(s, link, m, len, T, Width(lo, hi))
  BY <1>2, <1>5, <1>6, RankedWalk, Zenon
<1>8. ASSUME NEW i \in 1..len - 1
      PROVE  /\ s[i] \in S => lo[s[i + 1]] = lo[s[i]] /\ hi[s[i + 1]] = st[s[i]]
             /\ s[i] \notin S => lo[s[i + 1]] = st[s[i]] /\ hi[s[i + 1]] = hi[s[i]]
  <2>1. len \in Nat /\ s \in [1..len -> T] /\ s[i + 1] = link[s[i]]
    BY <1>7 DEF Way
  <2>2. PICK x, c : x = s[i] /\ c = s[i + 1]
    OBVIOUS
  <2>3. x \in T /\ c \in T /\ c = link[x] /\ c # Null
    BY <1>3, <2>1, <2>2, NodeCount
  <2>4. c = IF x \in S THEN t.left[x] ELSE t.right[x]
    BY <1>4, <2>3
  <2>5. ASSUME x \in S PROVE lo[c] = lo[x] /\ hi[c] = st[x]
    <3>1. Child(c, lo[x], st[x], T, lo, hi, st)
      BY <2>3, <2>4, <2>5, BstLinks
    <3> QED BY <2>3, <3>1 DEF Child
  <2>6. ASSUME x \notin S PROVE lo[c] = st[x] /\ hi[c] = hi[x]
    <3>1. Child(c, st[x], hi[x], T, lo, hi, st)
      BY <2>3, <2>4, <2>6, BstLinks
    <3> QED BY <2>3, <3>1 DEF Child
  <2> QED BY <2>2, <2>5, <2>6
<1>9. Narrows(s, len, S, lo, hi, st)
  BY <1>8 DEF Narrows
<1> QED BY <1>1, <1>6, <1>7, <1>9 DEF Descent

\* What a way says of its elements.
LEMMA WayFacts ==
  ASSUME NEW s, NEW link, NEW n, NEW len, NEW A, NEW rank, Way(s, link, n, len, A, rank)
  PROVE  /\ len \in Nat /\ DOMAIN s = 1..len /\ \A i \in 1..len : s[i] \in A
         /\ n # Null => len >= 1 /\ s[1] = n /\ link[s[len]] = Null
         /\ n = Null => len = 0
         /\ \A i \in 1..len - 1 : s[i + 1] = link[s[i]]
         /\ \A i, j \in 1..len : i < j => rank[s[i]] < rank[s[j]]
BY DEF Way

-----------------------------------------------------------------------------
(* findMapping.                                                            *)

\* The starts of the mappings, and that those of T are apart.
Starts(mp) == [n \in Node |-> Start(mp[n].vfp)]
Apart(mp, T) ==
  /\ T \subseteq Node /\ \A x \in T : mp[x].vfp \in Fpages
  /\ \A x, y \in T : x # y => ~Meet(mp[x].vfp, mp[y].vfp)

\* What findMapping finds: c is the last that starts before e.
LEMMA LastStart ==
  ASSUME NEW t \in Trees, NEW sp \in Space, NEW T, NEW lo, NEW hi, NEW st,
         Bst(t, sp, T, lo, hi, st), NEW e \in Int, NEW S, \A x \in T : x \in S <=> e < st[x],
         NEW c, c = LastBut(Descent(t, t.mem[sp], S), S)
  PROVE  \/ c = Null /\ \A x \in T : e < st[x]
         \/ c \in T /\ st[c] <= e /\ \A x \in T : st[x] <= e => st[x] <= st[c]
<1>1. PICK r : r = t.mem[sp]
  OBVIOUS
<1>2. Child(r, -1, Top, T, lo, hi, st)
  BY <1>1, BstLinks
<1>3. r \in T \cup {Null}
  BY <1>2 DEF Child
<1>4. CutFrom(t, t, T)
  BY DEF CutFrom
<1>5. PICK len : /\ Way(Descent(t, r, S), Down(t, S), r, len, T, Width(lo, hi))
                 /\ Narrows(Descent(t, r, S), len, S, lo, hi, st)
  BY <1>3, <1>4, DescentWay
<1>6. PICK s : s = Descent(t, r, S)
  OBVIOUS
<1>7. Way(s, Down(t, S), r, len, T, Width(lo, hi))
  BY <1>5, <1>6
<1>8. /\ len \in Nat /\ DOMAIN s = 1..len /\ \A i \in 1..len : s[i] \in T
      /\ r # Null => len >= 1 /\ s[1] = r /\ Down(t, S)[s[len]] = Null
      /\ r = Null => len = 0
  BY ONLY <1>7, WayFacts
<1>9. \A x \in T : /\ lo[x] \in Int /\ st[x] \in Int /\ hi[x] \in Int
                   /\ -1 <= lo[x] /\ lo[x] < st[x] /\ st[x] < hi[x] /\ hi[x] <= Top
  BY BstNumbers
<1>10. Top \in Int
  BY TopNumber
<1>11. CASE r = Null
  <2>1. LastBut(s, S) = Null
    BY <1>8, <1>11, LastButFacts
  <2>2. \A x \in T : FALSE
    BY <1>2, <1>9, <1>10, <1>11 DEF Child
  <2> QED BY <1>1, <1>6, <2>1, <2>2
<1>12. CASE r # Null
  <2>1. /\ len >= 1 /\ s[1] = r /\ s[len] \in T /\ Down(t, S)[s[len]] = Null
        /\ lo[r] = -1 /\ hi[r] = Top
    BY <1>2, <1>8, <1>12 DEF Child
  <2>2. \A i \in 1..len - 1 :
          /\ s[i] \in S => lo[s[i + 1]] = lo[s[i]] /\ hi[s[i + 1]] = st[s[i]]
          /\ s[i] \notin S => lo[s[i + 1]] = st[s[i]] /\ hi[s[i + 1]] = hi[s[i]]
    BY <1>5, <1>6 DEF Narrows
  <2>3. \A i \in 1..len : i \in {j \in 1..len : \A x \in T : st[x] <= e => st[x] < hi[s[j]]}
    <3> DEFINE Q == {j \in 1..len : \A x \in T : st[x] <= e => st[x] < hi[s[j]]}
    <3>1. len >= 1 => 1 \in Q
      BY <1>8, <1>9, <1>10, <2>1
    <3>2. ASSUME NEW i \in 1..len - 1, i \in Q PROVE i + 1 \in Q
      <4>1. s[i] \in T /\ s[i + 1] \in T /\ i + 1 \in 1..len
        BY <1>8
      <4>2. CASE s[i] \in S
        <5>1. hi[s[i + 1]] = st[s[i]] /\ e < st[s[i]]
          BY <2>2, <4>1, <4>2
        <5> QED BY <1>9, <4>1, <5>1
      <4>3. CASE s[i] \notin S
        <5>1. hi[s[i + 1]] = hi[s[i]]
          BY <2>2, <4>3
        <5> QED BY <3>2, <4>1, <5>1
      <4> QED BY <4>2, <4>3
    <3> QED BY ONLY <1>8, <3>1, <3>2, Passed
  <2>4. /\ s[len] \in S => \A x \in T : ~(lo[s[len]] < st[x] /\ st[x] < st[s[len]])
        /\ s[len] \notin S => \A x \in T : ~(st[s[len]] < st[x] /\ st[x] < hi[s[len]])
    <3>1. PICK z : z = s[len]
      OBVIOUS
    <3>2. z \in T /\ z \in Node
      BY <2>1, <3>1 DEF Bst
    <3>3. Null = IF z \in S THEN t.left[z] ELSE t.right[z]
      BY <2>1, <3>1, <3>2, DownFacts
    <3>4. /\ Child(t.left[z], lo[z], st[z], T, lo, hi, st)
          /\ Child(t.right[z], st[z], hi[z], T, lo, hi, st)
      BY <3>2, BstLinks
    <3> QED BY <3>1, <3>3, <3>4 DEF Child
  <2>5. CASE LastBut(s, S) = Null /\ \A i \in 1..len : s[i] \in S
    <3>1. \A i \in 1..len : i \in {j \in 1..len : lo[s[j]] = -1}
      <4> DEFINE Q == {j \in 1..len : lo[s[j]] = -1}
      <4>1. len >= 1 => 1 \in Q
        BY <2>1
      <4>2. ASSUME NEW i \in 1..len - 1, i \in Q PROVE i + 1 \in Q
        BY <1>8, <2>2, <2>5, <4>2
      <4> QED BY ONLY <1>8, <4>1, <4>2, Passed
    <3>2. s[len] \in S /\ lo[s[len]] = -1 /\ e < st[s[len]]
      BY <1>8, <2>1, <2>5, <3>1
    <3>3. \A x \in T : e < st[x]
      BY <1>9, <2>1, <2>4, <3>2
    <3> QED BY <1>1, <1>6, <2>5, <3>3
  <2>6. ASSUME NEW k \in 1..len, LastBut(s, S) = s[k], s[k] \notin S,
               \A i \in 1..len : k < i => s[i] \in S
        PROVE  c \in T /\ st[c] <= e /\ \A x \in T : st[x] <= e => st[x] <= st[c]
    <3>1. c = s[k] /\ c \in T /\ st[c] <= e
      BY <1>1, <1>6, <1>8, <1>9, <2>6
    <3>2. ASSUME k = len PROVE \A x \in T : st[x] <= e => st[x] <= st[c]
      <4>1. \A x \in T : st[x] <= e => st[x] < hi[c]
        BY <2>3, <3>1
      <4> QED BY <1>9, <2>4, <2>6, <3>1, <3>2, <4>1
    <3>3. ASSUME k < len PROVE \A x \in T : st[x] <= e => st[x] <= st[c]
      <4>1. \A i \in 1..len : i \in {j \in 1..len : k < j => lo[s[j]] = st[c]}
        <5> DEFINE Q == {j \in 1..len : k < j => lo[s[j]] = st[c]}
        <5>1. len >= 1 => 1 \in Q
          OBVIOUS
        <5>2. ASSUME NEW i \in 1..len - 1, i \in Q PROVE i + 1 \in Q
          BY <1>8, <2>2, <2>6, <3>1, <5>2
        <5> QED BY ONLY <1>8, <5>1, <5>2, Passed
      <4>2. s[len] \in S /\ lo[s[len]] = st[c] /\ e < st[s[len]]
        BY <1>8, <2>1, <2>6, <3>3, <4>1
      <4> QED BY <1>9, <2>1, <2>4, <3>1, <4>2
    <3> QED BY <1>8, <3>1, <3>2, <3>3
  <2> QED BY <1>8, <2>5, <2>6, LastButFacts
<1> QED BY <1>11, <1>12

LEMMA FoundFacts ==
  ASSUME NEW t \in Trees, NEW sp \in Space, NEW T, NEW lo, NEW hi,
         Bst(t, sp, T, lo, hi, Starts(map)), Apart(map, T), NEW f \in Fpages,
         NEW c, c = findMapping(t, sp, f)
  PROVE  \/ c = Null /\ \A x \in T : ~Meet(map[x].vfp, f)
         \/ c \in T /\ Meet(map[c].vfp, f)
<1>1. PICK b, e : b = Start(f) /\ e = End(f)
  OBVIOUS
<1>2. b \in Int /\ e \in Int /\ b <= e
  BY <1>1, FpageNumbers
<1>3. PICK st : st = Starts(map)
  OBVIOUS
<1>4. T \subseteq Node
  BY DEF Apart
<1>5. \A x \in T : st[x] = Start(map[x].vfp)
  BY <1>3, <1>4 DEF Starts
<1>6. PICK S : S = {n \in Node : End(f) < Start(map[n].vfp)}
  OBVIOUS
<1>7. \A x \in T : x \in S <=> e < st[x]
  BY <1>1, <1>4, <1>5, <1>6
<1>8. PICK d : d = LastBut(Descent(t, t.mem[sp], S), S)
  OBVIOUS
<1>9. c = IF d # Null /\ b <= End(map[d].vfp) THEN d ELSE Null
  BY <1>1, <1>6, <1>8 DEF findMapping
<1>10. \/ d = Null /\ \A x \in T : e < st[x]
       \/ d \in T /\ st[d] <= e /\ \A x \in T : st[x] <= e => st[x] <= st[d]
  BY <1>2, <1>3, <1>7, <1>8, LastStart
<1>11. ASSUME NEW x \in T
       PROVE  st[x] \in Int /\ End(map[x].vfp) \in Int /\ st[x] <= End(map[x].vfp)
  <2>1. map[x].vfp \in Fpages
    BY DEF Apart
  <2> QED BY <1>5, <2>1, FpageNumbers
<1>12. \A x \in T : Meet(map[x].vfp, f) <=> (st[x] <= e /\ b <= End(map[x].vfp))
  BY <1>1, <1>5 DEF Meet
<1>13. CASE d = Null /\ \A x \in T : e < st[x]
  BY <1>2, <1>9, <1>11, <1>12, <1>13
<1>14. CASE d \in T /\ st[d] <= e /\ \A x \in T : st[x] <= e => st[x] <= st[d]
  <2>1. d # Null
    BY <1>4, <1>14, NodeCount
  <2>2. CASE b <= End(map[d].vfp)
    BY <1>9, <1>12, <1>14, <2>1, <2>2
  <2>3. CASE ~(b <= End(map[d].vfp))
    <3>1. ASSUME NEW x \in T, Meet(map[x].vfp, f) PROVE FALSE
      <4>1. st[x] <= e /\ b <= End(map[x].vfp) /\ st[x] <= st[d]
        BY <1>12, <1>14, <3>1
      <4>2. x # d
        BY <2>3, <4>1
      <4>3. ~(st[x] <= End(map[d].vfp) /\ st[d] <= End(map[x].vfp))
        BY <1>5, <1>14, <4>2 DEF Apart, Meet
      <4> QED BY <1>2, <1>11, <1>14, <2>3, <4>1, <4>3
    <3> QED BY <1>9, <2>3, <3>1
  <2> QED BY <2>2, <2>3
<1> QED BY <1>10, <1>13, <1>14

\* The tree without the links of n.
CutAt(t, n) == [t EXCEPT !.left[n] = Null, !.right[n] = Null]

LEMMA CutTree ==
  ASSUME NEW t \in Trees, NEW n \in Node, NEW u, u = CutAt(t, n)
  PROVE  /\ u \in Trees /\ u.mem = t.mem
         /\ u.left[n] = Null /\ u.right[n] = Null
         /\ \A x \in Node : x # n => u.left[x] = t.left[x] /\ u.right[x] = t.right[x]
<1>1. u = [mem |-> t.mem, left |-> [t.left EXCEPT ![n] = Null],
           right |-> [t.right EXCEPT ![n] = Null]]
  BY DEF Trees, CutAt
<1>2. /\ [t.left EXCEPT ![n] = Null] \in [Node -> Ref]
      /\ [t.right EXCEPT ![n] = Null] \in [Node -> Ref]
  BY TreeFields DEF Ref
<1>3. u \in Trees /\ u.mem = t.mem
  BY <1>1, <1>2 DEF Trees
<1>4. u.left = [t.left EXCEPT ![n] = Null] /\ u.right = [t.right EXCEPT ![n] = Null]
  BY <1>1
<1>5. \A x \in Node : /\ u.left[x] = IF x = n THEN Null ELSE t.left[x]
                      /\ u.right[x] = IF x = n THEN Null ELSE t.right[x]
  BY <1>4, TreeFields
<1> QED BY <1>3, <1>5

\* Place: a search for b among nodes of which at most n starts there.
LEMMA PlaceFacts ==
  ASSUME NEW t \in Trees, NEW sp \in Space, NEW T, NEW lo, NEW hi, NEW st,
         Bst(t, sp, T, lo, hi, st), st = Starts(map),
         NEW n \in Node, NEW b \in Int, -1 < b, b < Top,
         \A x \in T : st[x] = b <=> x = n,
         NEW w, w = Place(t, sp, b, n)
  PROVE  /\ IsPlace(w, sp, T \ {n})
         /\ n \in T => At(t, w) = n
         /\ n \notin T => At(t, w) = Null /\ Low(w, lo, st) < b /\ b < High(w, hi, st)
<1>1. PICK r, S : r = t.mem[sp] /\ S = {m \in Node : b < Start(map[m].vfp)}
  OBVIOUS
<1>2. Child(r, -1, Top, T, lo, hi, st)
  BY <1>1, BstLinks
<1>3. r \in T \cup {Null} /\ T \subseteq Node /\ Null \notin T
  BY <1>2, NodeCount DEF Child, Bst
<1>4. \A x \in T : x \in S <=> b < st[x]
  BY <1>1, <1>3 DEF Starts
<1>5. PICK u : u = CutAt(t, n)
  OBVIOUS
<1>6. /\ u \in Trees /\ u.mem = t.mem
      /\ u.left[n] = Null /\ u.right[n] = Null
      /\ \A x \in Node : x # n => u.left[x] = t.left[x] /\ u.right[x] = t.right[x]
  BY <1>5, CutTree
<1>7. CutFrom(t, u, T)
  BY <1>3, <1>6 DEF CutFrom
<1>8. PICK s : s = Descent(u, r, S)
  OBVIOUS
<1>9. PICK m : m = LastBut(s, {n})
  OBVIOUS
<1>10. w = IF m = Null THEN <<"mem", sp>> ELSE IF m \in S THEN <<"left", m>> ELSE <<"right", m>>
  BY <1>1, <1>5, <1>6, <1>8, <1>9 DEF Place, CutAt
<1>11. PICK len : /\ Way(s, Down(u, S), r, len, T, Width(lo, hi))
                  /\ Narrows(s, len, S, lo, hi, st)
  BY <1>3, <1>6, <1>7, <1>8, DescentWay
<1>12. /\ len \in Nat /\ DOMAIN s = 1..len /\ \A i \in 1..len : s[i] \in T
       /\ r # Null => len >= 1 /\ s[1] = r /\ Down(u, S)[s[len]] = Null
       /\ r = Null => len = 0
       /\ \A i \in 1..len - 1 : s[i + 1] = Down(u, S)[s[i]]
  BY ONLY <1>11, WayFacts
<1>13. \A x \in T : /\ lo[x] \in Int /\ st[x] \in Int /\ hi[x] \in Int
                    /\ -1 <= lo[x] /\ lo[x] < st[x] /\ st[x] < hi[x] /\ hi[x] <= Top
  BY BstNumbers
<1>14. Top \in Int
  BY TopNumber
<1>15. \A x \in T : Down(u, S)[x] = IF x = n THEN Null
                                     ELSE IF x \in S THEN t.left[x] ELSE t.right[x]
  BY <1>3, <1>6, DownFacts
<1>16. CASE r = Null
  <2>1. m = Null
    BY <1>9, <1>12, <1>16, LastButFacts
  <2>2. w = <<"mem", sp>>
    BY <1>10, <2>1
  <2>3. At(t, w) = Null /\ Low(w, lo, st) = -1 /\ High(w, hi, st) = Top
    <3>1. w[1] = "mem" /\ w[2] = sp
      BY <2>2
    <3> QED BY <1>1, <1>16, <3>1 DEF At, Low, High
  <2>4. \A x \in T : FALSE
    BY <1>2, <1>13, <1>14, <1>16 DEF Child
  <2> QED BY <2>2, <2>3, <2>4 DEF IsPlace
<1>17. CASE r # Null
  <2>1. /\ len >= 1 /\ s[1] = r /\ s[len] \in T /\ Down(u, S)[s[len]] = Null
        /\ lo[r] = -1 /\ hi[r] = Top
    BY <1>2, <1>12, <1>17 DEF Child
  <2>2. \A i \in 1..len - 1 : s[i] # n
    <3>1. SUFFICES ASSUME NEW i \in 1..len - 1, s[i] = n PROVE FALSE
      OBVIOUS
    <3>2. s[i + 1] = Null /\ s[i + 1] \in T
      BY <1>12, <1>15, <3>1
    <3> QED BY <1>3, <3>2
  <2>3. \A i \in 1..len : i \in {j \in 1..len : lo[s[j]] < b /\ b < hi[s[j]]}
    <3> DEFINE Q == {j \in 1..len : lo[s[j]] < b /\ b < hi[s[j]]}
    <3>1. len >= 1 => 1 \in Q
      BY <2>1
    <3>2. ASSUME NEW i \in 1..len - 1, i \in Q PROVE i + 1 \in Q
      <4>1. s[i] \in T /\ s[i + 1] \in T /\ i + 1 \in 1..len
        BY <1>12
      <4>2. st[s[i]] # b
        BY <2>2, <4>1
      <4>3. /\ s[i] \in S => lo[s[i + 1]] = lo[s[i]] /\ hi[s[i + 1]] = st[s[i]]
            /\ s[i] \notin S => lo[s[i + 1]] = st[s[i]] /\ hi[s[i + 1]] = hi[s[i]]
        BY <1>11 DEF Narrows
      <4> QED BY <1>4, <1>13, <3>2, <4>1, <4>2, <4>3
    <3> QED BY ONLY <1>12, <3>1, <3>2, Passed
  <2>4. PICK z : z = s[len]
    OBVIOUS
  <2>5. z \in T /\ lo[z] < b /\ b < hi[z]
    BY <1>12, <2>1, <2>3, <2>4
  <2>6. /\ Child(t.left[z], lo[z], st[z], T, lo, hi, st)
        /\ Child(t.right[z], st[z], hi[z], T, lo, hi, st)
    BY <2>5, BstLinks
  <2>7. z # n => Null = IF z \in S THEN t.left[z] ELSE t.right[z]
    BY <1>15, <2>1, <2>4, <2>5
  <2>8. CASE z = n
    <3>1. n \in T
      BY <2>5, <2>8
    <3>2. CASE len = 1
      <4>0. s[1] = n
        BY ONLY <2>4, <2>8, <3>2
      <4>1. m = Null
        <5>1. \A i \in 1..len : s[i] \in {n}
          BY ONLY <3>2, <4>0
        <5> QED BY <1>9, <1>12, <5>1, LastButFacts
      <4>2. w = <<"mem", sp>>
        BY <1>10, <4>1
      <4>3. At(t, w) = n
        <5>1. w[1] = "mem" /\ w[2] = sp /\ r = n
          BY ONLY <2>1, <4>0, <4>2
        <5> QED BY <1>1, <5>1 DEF At
      <4> QED BY <3>1, <4>2, <4>3 DEF IsPlace
    <3>3. CASE len > 1
      <4>1. len - 1 \in 1..len - 1 /\ len - 1 \in 1..len /\ (len - 1) + 1 = len
        BY <1>12, <3>3
      <4>2. s[len - 1] # n /\ s[len - 1] \in T /\ s[len] = Down(u, S)[s[len - 1]]
        BY <1>12, <2>2, <4>1
      <4>3. m = s[len - 1]
        <5>1. ~\A i \in 1..len : s[i] \in {n}
          BY <4>1, <4>2
        <5>2. PICK k \in 1..len : /\ m = s[k] /\ s[k] \notin {n}
                                  /\ \A i \in 1..len : k < i => s[i] \in {n}
          BY <1>9, <1>12, <5>1, LastButFacts
        <5>3. ~(k < len - 1)
          BY <4>1, <4>2, <5>2
        <5>4. k # len
          BY <2>4, <2>8, <5>2
        <5> QED BY <1>12, <5>2, <5>3, <5>4
      <4>4. m \in T /\ m # n /\ m # Null
        BY <1>3, <4>2, <4>3
      <4>5. n = IF m \in S THEN t.left[m] ELSE t.right[m]
        BY <1>15, <2>4, <2>8, <4>2, <4>3, <4>4
      <4>6. CASE m \in S
        <5>1. w = <<"left", m>>
          BY <1>10, <4>4, <4>6
        <5>2. At(t, w) = n
          BY <4>5, <4>6, <5>1 DEF At
        <5> QED BY <3>1, <4>4, <5>1, <5>2 DEF IsPlace
      <4>7. CASE m \notin S
        <5>1. w = <<"right", m>>
          BY <1>10, <4>4, <4>7
        <5>2. At(t, w) = n
          BY <4>5, <4>7, <5>1 DEF At
        <5> QED BY <3>1, <4>4, <5>1, <5>2 DEF IsPlace
      <4> QED BY <4>6, <4>7
    <3> QED BY <1>12, <2>1, <3>2, <3>3
  <2>9. CASE z # n
    <3>1. m = z
      <4>1. ~\A i \in 1..len : s[i] \in {n}
        BY <1>12, <2>1, <2>4, <2>9
      <4>2. PICK k \in 1..len : /\ m = s[k] /\ s[k] \notin {n}
                                /\ \A i \in 1..len : k < i => s[i] \in {n}
        BY <1>9, <1>12, <4>1, LastButFacts
      <4>3. ~(k < len)
        BY <1>12, <2>1, <2>4, <2>9, <4>2
      <4> QED BY <1>12, <2>4, <4>2, <4>3
    <3>2. n \notin T
      <4>1. SUFFICES ASSUME n \in T PROVE FALSE
        OBVIOUS
      <4>2. st[n] = b
        BY <4>1
      <4> QED BY <1>4, <1>13, <2>5, <2>6, <2>7, <2>9, <4>1, <4>2 DEF Child
    <3>3. m # Null /\ m \in T \ {n}
      BY <1>3, <2>5, <2>9, <3>1
    <3>4. CASE m \in S
      <4>1. w = <<"left", m>>
        BY <1>10, <3>3, <3>4
      <4>2. At(t, w) = Null
        BY <2>7, <2>9, <3>1, <3>4, <4>1 DEF At
      <4>3. Low(w, lo, st) = lo[z] /\ High(w, hi, st) = st[z]
        BY <3>1, <4>1 DEF Low, High
      <4>4. b < st[z]
        BY <1>4, <2>5, <3>1, <3>4
      <4> QED BY <2>5, <3>2, <3>3, <4>1, <4>2, <4>3, <4>4 DEF IsPlace
    <3>5. CASE m \notin S
      <4>1. w = <<"right", m>>
        BY <1>10, <3>3, <3>5
      <4>2. At(t, w) = Null
        BY <2>7, <2>9, <3>1, <3>5, <4>1 DEF At
      <4>3. Low(w, lo, st) = st[z] /\ High(w, hi, st) = hi[z]
        BY <3>1, <4>1 DEF Low, High
      <4>4. st[z] < b
        BY <1>4, <1>13, <2>5, <2>9, <3>1, <3>5
      <4> QED BY <2>5, <3>2, <3>3, <4>1, <4>2, <4>3, <4>4 DEF IsPlace
    <3> QED BY <3>4, <3>5
  <2> QED BY <2>8, <2>9
<1> QED BY <1>16, <1>17

\* The leftmost mapping on the right of n.
LEMMA LeftmostFacts ==
  ASSUME NEW t \in Trees, NEW sp \in Space, NEW T, NEW lo, NEW hi, NEW st,
         Bst(t, sp, T, lo, hi, st), NEW n \in T, t.right[n] # Null,
         NEW v, v = Leftmost(t, n), NEW m, m = At(t, v)
  PROVE  /\ IsLeftmost(t, sp, T, n, m, v, lo, hi, st)
         /\ v = <<"right", n>> \/ \E h \in T : v = <<"left", h>>
<1>1. PICK r : r = t.right[n]
  OBVIOUS
<1>2. T \subseteq Node /\ Null \notin T
  BY NodeCount DEF Bst
<1>3. Child(r, st[n], hi[n], T, lo, hi, st)
  BY <1>1, BstLinks
<1>4. r \in T /\ r # Null /\ lo[r] = st[n] /\ hi[r] = hi[n]
  BY <1>1, <1>3 DEF Child
<1>5. CutFrom(t, t, T)
  BY DEF CutFrom
<1>6. PICK s : s = Descent(t, r, Node)
  OBVIOUS
<1>7. PICK len : /\ Way(s, Down(t, Node), r, len, T, Width(lo, hi))
                 /\ Narrows(s, len, Node, lo, hi, st)
  BY <1>4, <1>5, <1>6, DescentWay
<1>8. /\ len \in Nat /\ DOMAIN s = 1..len /\ \A i \in 1..len : s[i] \in T
      /\ len >= 1 /\ s[1] = r /\ Down(t, Node)[s[len]] = Null
      /\ \A i \in 1..len - 1 : s[i + 1] = Down(t, Node)[s[i]]
      /\ \A i, j \in 1..len : i < j => Width(lo, hi)[s[i]] < Width(lo, hi)[s[j]]
  BY ONLY <1>4, <1>7, WayFacts
<1>9. \A x \in T : /\ lo[x] \in Int /\ st[x] \in Int /\ hi[x] \in Int
                   /\ -1 <= lo[x] /\ lo[x] < st[x] /\ st[x] < hi[x] /\ hi[x] <= Top
  BY BstNumbers
<1>10. \A x \in T : Down(t, Node)[x] = t.left[x]
  BY <1>2, DownFacts
<1>11. \A i \in 1..len : i \in {j \in 1..len : lo[s[j]] = st[n] /\ hi[s[j]] <= hi[n]}
  <2> DEFINE Q == {j \in 1..len : lo[s[j]] = st[n] /\ hi[s[j]] <= hi[n]}
  <2>1. len >= 1 => 1 \in Q
    BY <1>4, <1>8, <1>9
  <2>2. ASSUME NEW i \in 1..len - 1, i \in Q PROVE i + 1 \in Q
    <3>1. s[i] \in T /\ s[i + 1] \in T /\ i + 1 \in 1..len
      BY <1>8
    <3>2. lo[s[i + 1]] = lo[s[i]] /\ hi[s[i + 1]] = st[s[i]]
      BY <1>2, <1>7, <3>1 DEF Narrows
    <3> QED BY <1>9, <2>2, <3>1, <3>2
  <2> QED BY ONLY <1>8, <2>1, <2>2, Passed
<1>12. PICK z : z = s[len]
  OBVIOUS
<1>13. z \in T /\ lo[z] = st[n] /\ hi[z] <= hi[n] /\ t.left[z] = Null
  BY <1>8, <1>10, <1>11, <1>12
<1>14. z # n
  BY <1>9, <1>13
<1>15. LastBut(s, {}) = z
  <2>1. PICK k \in 1..len : LastBut(s, {}) = s[k] /\ \A i \in 1..len : k < i => s[i] \in {}
    BY <1>8, LastButFacts
  <2>2. ~(k < len)
    BY <1>8, <2>1
  <2> QED BY <1>8, <1>12, <2>1, <2>2
<1>16. PICK h : h = LastBut(s, {z})
  OBVIOUS
<1>17. v = IF h = Null THEN <<"right", n>> ELSE <<"left", h>>
  BY <1>1, <1>6, <1>15, <1>16 DEF Leftmost
<1>18. CASE len = 1
  <2>1. h = Null
    <3>1. \A i \in 1..len : s[i] \in {z}
      BY <1>8, <1>12, <1>18
    <3> QED BY <1>8, <1>16, <3>1, LastButFacts
  <2>2. v = <<"right", n>>
    BY <1>17, <2>1
  <2>3. m = z
    BY <1>1, <1>8, <1>12, <1>18, <2>2 DEF At
  <2> QED BY <1>13, <1>14, <2>2, <2>3 DEF IsLeftmost
<1>19. CASE len > 1
  <2>1. len - 1 \in 1..len - 1 /\ len - 1 \in 1..len /\ (len - 1) + 1 = len /\ len \in 1..len
    BY <1>8, <1>19
  <2>2. s[len - 1] # z /\ s[len - 1] \in T /\ z = t.left[s[len - 1]]
    <3>1. Width(lo, hi)[s[len - 1]] < Width(lo, hi)[s[len]]
      BY <1>8, <2>1
    <3>2. \A x \in T : Width(lo, hi)[x] \in Int
      BY <1>2, <1>9 DEF Width
    <3> QED BY <1>8, <1>10, <1>12, <2>1, <3>1, <3>2
  <2>3. h = s[len - 1]
    <3>1. ~\A i \in 1..len : s[i] \in {z}
      BY <2>1, <2>2
    <3>2. PICK k \in 1..len : h = s[k] /\ s[k] \notin {z} /\ \A i \in 1..len : k < i => s[i] \in {z}
      BY <1>8, <1>16, <3>1, LastButFacts
    <3>3. ~(k < len - 1)
      BY <2>1, <2>2, <3>2
    <3>4. k # len
      BY <1>12, <3>2
    <3> QED BY <1>8, <3>2, <3>3, <3>4
  <2>4. h \in T /\ h # Null
    BY <1>2, <2>2, <2>3
  <2>5. v = <<"left", h>>
    BY <1>17, <2>4
  <2>6. m = z
    BY <2>2, <2>3, <2>5 DEF At
  <2>7. hi[z] = st[h] /\ hi[h] <= hi[n]
    <3>1. hi[s[len]] = st[s[len - 1]]
      BY <1>2, <1>7, <2>1, <2>2 DEF Narrows
    <3> QED BY <1>11, <1>12, <2>1, <2>3, <3>1
  <2>8. hi[z] <= st[h] /\ st[h] < hi[n]
    BY <1>9, <1>13, <2>4, <2>7
  <2> QED BY <1>13, <1>14, <2>4, <2>5, <2>6, <2>8 DEF IsLeftmost
<1> QED BY <1>8, <1>18, <1>19

\* A search ends in the tree, whatever it is for.
LEMMA PlaceInTree ==
  ASSUME NEW t \in Trees, NEW sp \in Space, NEW T, NEW lo, NEW hi, NEW st,
         Bst(t, sp, T, lo, hi, st), NEW n \in Node, NEW b, NEW w, w = Place(t, sp, b, n)
  PROVE  IsPlace(w, sp, T) /\ At(t, w) \in T \cup {Null}
<1>1. PICK r, S : r = t.mem[sp] /\ S = {m \in Node : b < Start(map[m].vfp)}
  OBVIOUS
<1>2. Child(r, -1, Top, T, lo, hi, st)
  BY <1>1, BstLinks
<1>3. r \in T \cup {Null} /\ T \subseteq Node /\ Null \notin T
  BY <1>2, NodeCount DEF Child, Bst
<1>4. PICK u : u = CutAt(t, n)
  OBVIOUS
<1>5. /\ u \in Trees /\ u.mem = t.mem
      /\ u.left[n] = Null /\ u.right[n] = Null
      /\ \A x \in Node : x # n => u.left[x] = t.left[x] /\ u.right[x] = t.right[x]
  BY <1>4, CutTree
<1>6. CutFrom(t, u, T)
  BY <1>3, <1>5 DEF CutFrom
<1>7. PICK s : s = Descent(u, r, S)
  OBVIOUS
<1>8. PICK m : m = LastBut(s, {n})
  OBVIOUS
<1>9. w = IF m = Null THEN <<"mem", sp>> ELSE IF m \in S THEN <<"left", m>> ELSE <<"right", m>>
  BY <1>1, <1>4, <1>5, <1>7, <1>8 DEF Place, CutAt
<1>10. PICK len : Way(s, Down(u, S), r, len, T, Width(lo, hi))
  BY <1>3, <1>5, <1>6, <1>7, DescentWay
<1>11. len \in Nat /\ DOMAIN s = 1..len /\ \A i \in 1..len : s[i] \in T
  BY ONLY <1>10, WayFacts
<1>12. m = Null \/ m \in T
  BY <1>8, <1>11, LastButFacts
<1>13. CASE m = Null
  <2>1. w = <<"mem", sp>>
    BY <1>9, <1>13
  <2>2. w[1] = "mem" /\ w[2] = sp
    BY <2>1
  <2>3. At(t, w) = r
    BY <1>1, <2>2 DEF At
  <2> QED BY <1>3, <2>1, <2>3 DEF IsPlace
<1>14. CASE m \in T
  <2>1. /\ Child(t.left[m], lo[m], st[m], T, lo, hi, st)
        /\ Child(t.right[m], st[m], hi[m], T, lo, hi, st)
    BY <1>14, BstLinks
  <2>2. t.left[m] \in T \cup {Null} /\ t.right[m] \in T \cup {Null} /\ m # Null
    BY <1>3, <1>14, <2>1 DEF Child
  <2>3. w = <<"left", m>> \/ w = <<"right", m>>
    BY <1>9, <2>2
  <2>4. At(t, w) \in {t.left[m], t.right[m]}
    BY <2>3 DEF At
  <2> QED BY <1>14, <2>2, <2>3, <2>4 DEF IsPlace
<1> QED BY <1>12, <1>13, <1>14

LEMMA ApartStarts ==
  ASSUME NEW mp, NEW T, Apart(mp, T), NEW st, st = Starts(mp)
  PROVE  /\ \A x \in T : x \in Node /\ st[x] = Start(mp[x].vfp) /\ mp[x].vfp \in Fpages
         /\ \A x, y \in T : st[x] = st[y] <=> x = y
<1>1. \A x \in T : x \in Node /\ st[x] = Start(mp[x].vfp) /\ mp[x].vfp \in Fpages
  BY DEF Apart, Starts
<1>2. ASSUME NEW x \in T, NEW y \in T, st[x] = st[y], x # y PROVE FALSE
  <2>1. ~Meet(mp[x].vfp, mp[y].vfp)
    BY <1>2 DEF Apart
  <2>2. PICK f, g : f = mp[x].vfp /\ g = mp[y].vfp
    OBVIOUS
  <2>3. f \in Fpages /\ g \in Fpages /\ Start(f) = Start(g)
    BY <1>1, <1>2, <2>2
  <2>4. Start(f) \in Nat /\ End(f) \in Nat /\ Start(f) <= End(f)
    BY ONLY <2>3, FpageNumbers
  <2>5. Start(g) \in Nat /\ End(g) \in Nat /\ Start(g) <= End(g)
    BY ONLY <2>3, FpageNumbers
  <2> QED BY <2>1, <2>2, <2>3, <2>4, <2>5 DEF Meet
<1> QED BY <1>1, <1>2

\* What is left of a tree, and what is not touched.
Left(t, t2, sp, T, n, st) ==
  /\ t2 \in Trees /\ OnlyChanged(t, t2, sp, T)
  /\ \E T2 \in SUBSET (T \ {n}) : \E lo2, hi2 : Bst(t2, sp, T2, lo2, hi2, st)

\* A pointer to n is replaced.
LEMMA OnePut ==
  ASSUME NEW t \in Trees, NEW sp \in Space, NEW T \in SUBSET Node, NEW n \in T, NEW w,
         IsPlace(w, sp, T \ {n}), NEW v \in Ref, NEW t2, t2 = Put(t, w, v)
  PROVE  t2 \in Trees /\ OnlyChanged(t, t2, sp, T) /\ Replaced(t, t2, sp, T \ {n}, w, v)
<1>1. IsPlace(w, sp, T)
  BY DEF IsPlace
<1>2. /\ Put(t, w, v) \in Trees
      /\ Replaced(t, Put(t, w, v), sp, Node, w, v)
      /\ OnlyChanged(t, Put(t, w, v), sp, T)
  BY ONLY <1>1, PutFacts, t \in Trees, sp \in Space, T \in SUBSET Node, v \in Ref
<1>3. Replaced(t, t2, sp, T \ {n}, w, v)
  BY <1>2 DEF Replaced
<1> QED BY <1>2, <1>3

\* The place of the leftmost on the right of n.
Beside(v, n, T) == v = <<"right", n>> \/ \E h \in T : v = <<"left", h>>

Spares(v, S, T, n) == \A x \in S : x \in T /\ x # n /\ v # <<"left", x>>

\* The three writes of removeMapping when n has both links.
LEMMA ThreePuts ==
  ASSUME NEW t \in Trees, NEW sp \in Space, NEW T \in SUBSET Node, NEW n \in T, NEW m \in T,
         NEW v, Beside(v, n, T),
         NEW w, IsPlace(w, sp, T \ {n}),
         NEW t1, t1 = Put(t, v, t.right[m]), NEW u, u = Put(t1, w, m),
         NEW z, z = <<"left", m>>, NEW t2, t2 = Put(u, z, t.left[n]),
         NEW S, Spares(v, S, T, n)
  PROVE  t2 \in Trees /\ OnlyChanged(t, t2, sp, T) /\ Moved(t, t2, sp, S, w, n, m)
<1>1. /\ m \in Node /\ n \in Node /\ m \in Ref /\ t.right[m] \in Ref /\ t.left[n] \in Ref
      /\ IsPlace(v, sp, T) /\ IsPlace(w, sp, T)
  BY TreeFields DEF Ref, IsPlace, Beside
<1>3. t1 \in Trees /\ Replaced(t, t1, sp, Node, v, t.right[m]) /\ OnlyChanged(t, t1, sp, T)
  BY <1>1, PutFacts
<1>5. u \in Trees /\ Replaced(t1, u, sp, Node, w, m) /\ OnlyChanged(t1, u, sp, T)
  BY <1>1, <1>3, PutFacts
<1>7. IsPlace(z, sp, T)
  BY DEF IsPlace
<1>8. t2 \in Trees /\ Replaced(u, t2, sp, Node, z, t.left[n]) /\ OnlyChanged(u, t2, sp, T)
  BY <1>1, <1>5, <1>7, PutFacts
<1>9. OnlyChanged(t, t2, sp, T)
  BY <1>3, <1>5, <1>8 DEF OnlyChanged
<1>10. t2.mem[sp] = (IF w = <<"mem", sp>> THEN m ELSE t.mem[sp])
  <2>1. v # <<"mem", sp>> /\ z # <<"mem", sp>>
    BY DEF Beside
  <2> QED BY <1>3, <1>5, <1>8, <2>1 DEF Replaced
<1>11. ASSUME NEW x \in S
       PROVE  /\ t2.left[x] = (IF x = m THEN t.left[n]
                               ELSE IF w = <<"left", x>> THEN m ELSE t.left[x])
              /\ t2.right[x] = (IF w = <<"right", x>> THEN m ELSE t.right[x])
  <2>1. x \in Node /\ x # n /\ v # <<"left", x>>
    BY DEF Spares
  <2>2. v # <<"right", x>> /\ z # <<"right", x>> /\ (z = <<"left", x>> <=> x = m)
    BY <2>1 DEF Beside
  <2>3. t1.left[x] = t.left[x] /\ t1.right[x] = t.right[x]
    BY <1>3, <2>1, <2>2 DEF Replaced
  <2>4. /\ u.left[x] = IF w = <<"left", x>> THEN m ELSE t.left[x]
        /\ u.right[x] = IF w = <<"right", x>> THEN m ELSE t.right[x]
    BY <1>5, <2>1, <2>3 DEF Replaced
  <2>5. t2.left[x] = (IF x = m THEN t.left[n] ELSE u.left[x]) /\ t2.right[x] = u.right[x]
    BY <1>8, <2>1, <2>2 DEF Replaced
  <2> QED BY <2>4, <2>5
<1> QED BY <1>8, <1>9, <1>10, <1>11 DEF Moved

\* removeMapping: what is in the tree then was in it before, without n.
LEMMA RemoveFacts ==
  ASSUME NEW t \in Trees, NEW sp \in Space, NEW T, NEW lo, NEW hi, NEW st,
         Bst(t, sp, T, lo, hi, st), st = Starts(map), Apart(map, T),
         NEW n \in Node, map[n].space = sp, InTree(t, n),
         NEW t2, t2 = removeMapping(t, n)
  PROVE  n \in T /\ Left(t, t2, sp, T, n, st)
<1>1. PICK b, w : b = Start(map[n].vfp) /\ w = Place(t, sp, b, n)
  OBVIOUS
<1>2. At(t, w) = n
  BY <1>1 DEF InTree
<1>3. n \in T
  BY <1>1, <1>2, PlaceInTree, NodeCount
<1>4. T \in SUBSET Node
  BY DEF Bst
<1>5. b = st[n] /\ b \in Int /\ -1 < b /\ b < Top
  <2>1. b = st[n]
    BY <1>1, <1>3, ApartStarts
  <2>2. lo[n] \in Int /\ st[n] \in Int /\ hi[n] \in Int /\ -1 <= lo[n] /\ lo[n] < st[n]
        /\ st[n] < hi[n] /\ hi[n] <= Top
    BY <1>3, BstNumbers
  <2> QED BY <2>1, <2>2, TopNumber
<1>6. \A x \in T : st[x] = b <=> x = n
  BY <1>3, <1>5, ApartStarts
<1>7. IsPlace(w, sp, T \ {n})
  BY <1>1, <1>5, <1>6, PlaceFacts
<1>8. IsPlace(w, sp, T)
  BY <1>7 DEF IsPlace
<1>9. /\ t.left[n] = Null => t2 = Put(t, w, t.right[n])
      /\ t.left[n] # Null /\ t.right[n] = Null => t2 = Put(t, w, t.left[n])
  BY <1>1 DEF removeMapping
<1>10. t.right[n] \in Ref /\ t.left[n] \in Ref
  BY TreeFields
<1>11. CASE t.left[n] = Null
  <2>1. t2 \in Trees /\ OnlyChanged(t, t2, sp, T) /\ Replaced(t, t2, sp, T \ {n}, w, t.right[n])
    BY <1>3, <1>4, <1>7, <1>9, <1>10, <1>11, OnePut
  <2>2. \E lo2, hi2 : Bst(t2, sp, T \ {n}, lo2, hi2, st)
    BY <1>2, <1>3, <1>7, <1>11, <2>1, RemoveNoLeft
  <2> QED BY <1>3, <2>1, <2>2 DEF Left
<1>12. CASE t.left[n] # Null /\ t.right[n] = Null
  <2>1. t2 \in Trees /\ OnlyChanged(t, t2, sp, T) /\ Replaced(t, t2, sp, T \ {n}, w, t.left[n])
    BY <1>3, <1>4, <1>7, <1>9, <1>10, <1>12, OnePut
  <2>2. \E lo2, hi2 : Bst(t2, sp, T \ {n}, lo2, hi2, st)
    BY <1>2, <1>3, <1>7, <1>12, <2>1, RemoveNoRight
  <2> QED BY <1>3, <2>1, <2>2 DEF Left
<1>13. CASE t.left[n] # Null /\ t.right[n] # Null
  <2>1. PICK v : v = Leftmost(t, n)
    OBVIOUS
  <2>2. PICK m : m = At(t, v)
    OBVIOUS
  <2>3. /\ IsLeftmost(t, sp, T, n, m, v, lo, hi, st)
        /\ Beside(v, n, T)
    BY <1>3, <1>13, <2>1, <2>2, LeftmostFacts DEF Beside
  <2>4. PICK t1, u, z : t1 = Put(t, v, t.right[m]) /\ u = Put(t1, w, m) /\ z = <<"left", m>>
    OBVIOUS
  <2>5. t2 = [u EXCEPT !.left[m] = t.left[n]]
    BY <1>1, <1>13, <2>1, <2>2, <2>4 DEF removeMapping
  <2>6. t2 = Put(u, z, t.left[n])
    BY <2>4, <2>5 DEF Put
  <2>7. m \in T
    BY <2>3 DEF IsLeftmost
  <2>8. PICK S : S = Kept(T, n, m, hi, st)
    OBVIOUS
  <2>9. Spares(v, S, T, n)
    BY <2>3, <2>8 DEF Kept, IsLeftmost, Spares
  <2>10. t2 \in Trees /\ OnlyChanged(t, t2, sp, T) /\ Moved(t, t2, sp, S, w, n, m)
    BY ONLY <1>3, <1>4, <1>7, <2>3, <2>4, <2>6, <2>7, <2>9, ThreePuts, t \in Trees, sp \in Space
  <2>11. \E lo2, hi2 : Bst(t2, sp, S, lo2, hi2, st)
    BY <1>2, <1>3, <1>8, <1>13, <2>3, <2>8, <2>10, RemoveBoth
  <2>12. S \in SUBSET (T \ {n})
    BY <2>9 DEF Spares
  <2> QED BY <1>3, <2>10, <2>11, <2>12 DEF Left
<1> QED BY <1>11, <1>12, <1>13

\* Nothing starts in the span of a place that holds no pointer.
LEMMA EmptyPlace ==
  ASSUME NEW t, NEW sp, NEW T, NEW lo, NEW hi, NEW st, Bst(t, sp, T, lo, hi, st),
         NEW w, IsPlace(w, sp, T), At(t, w) = Null
  PROVE  \A x \in T : ~(Low(w, lo, st) < st[x] /\ st[x] < High(w, hi, st))
<1>1. CASE w = <<"mem", sp>>
  <2>1. w[1] = "mem" /\ w[2] = sp
    BY <1>1
  <2>2. t.mem[sp] = Null /\ Low(w, lo, st) = -1 /\ High(w, hi, st) = Top
    BY <2>1 DEF At, Low, High
  <2> QED BY <2>2, BstLinks DEF Child
<1>2. ASSUME NEW h \in T, w = <<"left", h>>
      PROVE  \A x \in T : ~(Low(w, lo, st) < st[x] /\ st[x] < High(w, hi, st))
  <2>1. w[1] = "left" /\ w[2] = h
    BY <1>2
  <2>2. t.left[h] = Null /\ Low(w, lo, st) = lo[h] /\ High(w, hi, st) = st[h]
    BY <2>1 DEF At, Low, High
  <2> QED BY <2>2, BstLinks DEF Child
<1>3. ASSUME NEW h \in T, w = <<"right", h>>
      PROVE  \A x \in T : ~(Low(w, lo, st) < st[x] /\ st[x] < High(w, hi, st))
  <2>1. w[1] = "right" /\ w[2] = h
    BY <1>3
  <2>2. t.right[h] = Null /\ Low(w, lo, st) = st[h] /\ High(w, hi, st) = hi[h]
    BY <2>1 DEF At, Low, High
  <2> QED BY <2>2, BstLinks DEF Child
<1> QED BY <1>1, <1>2, <1>3 DEF IsPlace

\* How the span (a, d) of an empty place lies to the others.
LEMMA PlaceLaminar ==
  ASSUME NEW t, NEW sp, NEW T, NEW lo, NEW hi, NEW st, Bst(t, sp, T, lo, hi, st),
         NEW w, IsPlace(w, sp, T), At(t, w) = Null, NEW b \in Int,
         NEW a, NEW d, a = Low(w, lo, st), d = High(w, hi, st), a < b, b < d
  PROVE  /\ a \in Int /\ d \in Int /\ -1 <= a /\ d <= Top
         /\ \A x \in T : /\ st[x] < b => Laminar(lo[x], st[x], hi[x], a, b, d)
                         /\ b < st[x] => Laminar(a, b, d, lo[x], st[x], hi[x])
                         /\ st[x] # b
<1>1. \A x \in T : ~(a < st[x] /\ st[x] < d)
  BY EmptyPlace
<1>2. \A x \in T : /\ lo[x] \in Int /\ st[x] \in Int /\ hi[x] \in Int
                   /\ -1 <= lo[x] /\ lo[x] < st[x] /\ st[x] < hi[x] /\ hi[x] <= Top
  BY BstNumbers
<1>3. Top \in Int
  BY TopNumber
<1>4. CASE w = <<"mem", sp>>
  <2>1. w[1] = "mem"
    BY <1>4
  <2>2. a = -1 /\ d = Top
    BY <2>1 DEF Low, High
  <2>3. \A x \in T : FALSE
    BY <1>1, <1>2, <1>3, <2>2
  <2> QED BY <1>3, <2>2, <2>3
<1>5. ASSUME NEW h \in T, \/ a = lo[h] /\ d = st[h]
                          \/ a = st[h] /\ d = hi[h]
      PROVE  /\ a \in Int /\ d \in Int /\ -1 <= a /\ d <= Top
             /\ \A x \in T : /\ st[x] < b => Laminar(lo[x], st[x], hi[x], a, b, d)
                             /\ b < st[x] => Laminar(a, b, d, lo[x], st[x], hi[x])
                             /\ st[x] # b
  <2>1. PICK lh, sh, hh : lh = lo[h] /\ sh = st[h] /\ hh = hi[h]
    OBVIOUS
  <2>2. /\ lh \in Int /\ sh \in Int /\ hh \in Int
        /\ -1 <= lh /\ lh < sh /\ sh < hh /\ hh <= Top
        /\ (a = lh /\ d = sh) \/ (a = sh /\ d = hh)
    BY <1>2, <1>5, <2>1
  <2>3. a \in Int /\ d \in Int /\ -1 <= a /\ d <= Top
    BY <1>3, <2>2
  <2>4. ASSUME NEW x \in T
        PROVE  /\ st[x] < b => Laminar(lo[x], st[x], hi[x], a, b, d)
               /\ b < st[x] => Laminar(a, b, d, lo[x], st[x], hi[x])
               /\ st[x] # b
    <3>1. PICK lx, sx, hx : lx = lo[x] /\ sx = st[x] /\ hx = hi[x]
      OBVIOUS
    <3>2. /\ lx \in Int /\ sx \in Int /\ hx \in Int
          /\ -1 <= lx /\ lx < sx /\ sx < hx /\ hx <= Top
      BY <1>2, <3>1
    <3>3. sx = sh => lx = lh /\ hx = hh
      <4>1. st[x] = st[h] => x = h
        BY BstLaminar
      <4> QED BY <2>1, <3>1, <4>1
    <3>4. /\ sx < sh => Laminar(lx, sx, hx, lh, sh, hh)
          /\ sh < sx => Laminar(lh, sh, hh, lx, sx, hx)
      BY <2>1, <3>1, BstLaminar
    <3>5. ~(a < sx /\ sx < d)
      BY <1>1, <3>1
    <3>6. CASE sx = sh
      BY <2>2, <3>1, <3>2, <3>3, <3>6 DEF Laminar
    <3>7. CASE sx < sh
      BY <2>2, <3>1, <3>2, <3>4, <3>5, <3>7 DEF Laminar
    <3>8. CASE sh < sx
      BY <2>2, <3>1, <3>2, <3>4, <3>5, <3>8 DEF Laminar
    <3> QED BY <2>2, <3>2, <3>6, <3>7, <3>8
  <2> QED BY <2>3, <2>4
<1>6. ASSUME NEW h \in T, w = <<"left", h>> PROVE a = lo[h] /\ d = st[h]
  <2>1. w[1] = "left" /\ w[2] = h
    BY <1>6
  <2> QED BY <2>1 DEF Low, High
<1>7. ASSUME NEW h \in T, w = <<"right", h>> PROVE a = st[h] /\ d = hi[h]
  <2>1. w[1] = "right" /\ w[2] = h
    BY <1>7
  <2> QED BY <2>1 DEF Low, High
<1> QED BY <1>4, <1>5, <1>6, <1>7 DEF IsPlace

\* Only one place that holds no pointer is for b.
LEMMA EmptyOnce ==
  ASSUME NEW t, NEW sp, NEW T, NEW lo, NEW hi, NEW st, Bst(t, sp, T, lo, hi, st),
         NEW w, IsPlace(w, sp, T), At(t, w) = Null, NEW b \in Int,
         Low(w, lo, st) < b, b < High(w, hi, st)
  PROVE  /\ t.mem[sp] = Null => w = <<"mem", sp>>
         /\ \A x \in T : /\ t.left[x] = Null /\ lo[x] < b /\ b < st[x] => w = <<"left", x>>
                         /\ t.right[x] = Null /\ st[x] < b /\ b < hi[x] => w = <<"right", x>>
<1>1. PICK a, d : a = Low(w, lo, st) /\ d = High(w, hi, st)
  OBVIOUS
<1>2. \A x \in T : ~(a < st[x] /\ st[x] < d)
  BY <1>1, EmptyPlace
<1>3. \A x \in T : /\ lo[x] \in Int /\ st[x] \in Int /\ hi[x] \in Int
                   /\ -1 <= lo[x] /\ lo[x] < st[x] /\ st[x] < hi[x] /\ hi[x] <= Top
  BY BstNumbers
<1>4. Top \in Int
  BY TopNumber
<1>5. ASSUME t.mem[sp] = Null PROVE w = <<"mem", sp>>
  <2>1. \A x \in T : FALSE
    BY <1>3, <1>4, <1>5, BstLinks DEF Child
  <2> QED BY <2>1 DEF IsPlace
<1>6. CASE w = <<"mem", sp>>
  <2>1. w[1] = "mem"
    BY <1>6
  <2>2. a = -1 /\ d = Top
    BY <1>1, <2>1 DEF Low, High
  <2>3. \A x \in T : FALSE
    BY <1>2, <1>3, <1>4, <2>2
  <2> QED BY <1>5, <2>3
<1>7. ASSUME NEW h \in T, w = <<"left", h>>
      PROVE  \A x \in T : /\ t.left[x] = Null /\ lo[x] < b /\ b < st[x] => w = <<"left", x>>
                          /\ ~(t.right[x] = Null /\ st[x] < b /\ b < hi[x])
  <2>1. w[1] = "left" /\ w[2] = h
    BY <1>7
  <2>2. a = lo[h] /\ d = st[h] /\ lo[h] < b /\ b < st[h]
    BY <1>1, <2>1 DEF Low, High
  <2>3. ASSUME NEW x \in T, t.left[x] = Null, lo[x] < b, b < st[x] PROVE x = h
    <3>1. \A y \in T : ~(lo[x] < st[y] /\ st[y] < st[x])
      BY <2>3, BstLinks DEF Child
    <3>2. st[x] = st[h]
      BY <1>2, <1>3, <2>2, <2>3, <3>1
    <3> QED BY <3>2, BstLaminar
  <2>4. ASSUME NEW x \in T, t.right[x] = Null, st[x] < b, b < hi[x] PROVE FALSE
    <3>1. \A y \in T : ~(st[x] < st[y] /\ st[y] < hi[x])
      BY <2>4, BstLinks DEF Child
    <3>2. st[x] < st[h] /\ st[x] <= lo[h] /\ hi[x] <= st[h]
      BY <1>2, <1>3, <2>2, <2>4, <3>1
    <3>3. Laminar(lo[x], st[x], hi[x], lo[h], st[h], hi[h])
      BY <3>2, BstLaminar
    <3> QED BY <1>3, <2>2, <2>4, <3>2, <3>3 DEF Laminar
  <2> QED BY <1>7, <2>3, <2>4
<1>8. ASSUME NEW h \in T, w = <<"right", h>>
      PROVE  \A x \in T : /\ ~(t.left[x] = Null /\ lo[x] < b /\ b < st[x])
                          /\ t.right[x] = Null /\ st[x] < b /\ b < hi[x] => w = <<"right", x>>
  <2>1. w[1] = "right" /\ w[2] = h
    BY <1>8
  <2>2. a = st[h] /\ d = hi[h] /\ st[h] < b /\ b < hi[h]
    BY <1>1, <2>1 DEF Low, High
  <2>3. ASSUME NEW x \in T, t.right[x] = Null, st[x] < b, b < hi[x] PROVE x = h
    <3>1. \A y \in T : ~(st[x] < st[y] /\ st[y] < hi[x])
      BY <2>3, BstLinks DEF Child
    <3>2. st[x] = st[h]
      BY <1>2, <1>3, <2>2, <2>3, <3>1
    <3> QED BY <3>2, BstLaminar
  <2>4. ASSUME NEW x \in T, t.left[x] = Null, lo[x] < b, b < st[x] PROVE FALSE
    <3>1. \A y \in T : ~(lo[x] < st[y] /\ st[y] < st[x])
      BY <2>4, BstLinks DEF Child
    <3>2. st[h] < st[x] /\ st[h] <= lo[x] /\ hi[h] <= st[x]
      BY <1>2, <1>3, <2>2, <2>4, <3>1
    <3>3. Laminar(lo[h], st[h], hi[h], lo[x], st[x], hi[x])
      BY <3>2, BstLaminar
    <3> QED BY <1>3, <2>2, <2>4, <3>2, <3>3 DEF Laminar
  <2> QED BY <1>8, <2>3, <2>4
<1> QED BY <1>5, <1>6, <1>7, <1>8 DEF IsPlace

\* A new leaf.
LEMMA AddLeaf ==
  ASSUME NEW t, NEW t2, NEW sp, NEW T, NEW lo, NEW hi, NEW st, Bst(t, sp, T, lo, hi, st),
         NEW w, IsPlace(w, sp, T), At(t, w) = Null, NEW n \in Node, n \notin T,
         NEW st2, \A x \in T : st2[x] = st[x], st2[n] \in Int,
         Low(w, lo, st) < st2[n], st2[n] < High(w, hi, st),
         Replaced(t, t2, sp, T, w, n), t2.left[n] = Null, t2.right[n] = Null
  PROVE  \E lo2, hi2 : Bst(t2, sp, T \cup {n}, lo2, hi2, st2)
<1>1. PICK a, b, d : a = Low(w, lo, st) /\ b = st2[n] /\ d = High(w, hi, st)
  OBVIOUS
<1> DEFINE lo1 == [x \in Node |-> IF x = n THEN a ELSE lo[x]]
           hi1 == [x \in Node |-> IF x = n THEN d ELSE hi[x]]
<1>2. PICK lo2, hi2 : lo2 = lo1 /\ hi2 = hi1
  OBVIOUS
<1>3. \A x \in T : x \in Node /\ x # Null /\ x # n
  BY BstNumbers
<1>4. /\ \A x \in T : lo2[x] = lo[x] /\ hi2[x] = hi[x] /\ st2[x] = st[x]
      /\ lo2[n] = a /\ hi2[n] = d /\ st2[n] = b
  BY <1>1, <1>2, <1>3
<1> HIDE DEF lo1, hi1
<1>5. \A x \in T : /\ lo[x] \in Int /\ st[x] \in Int /\ hi[x] \in Int
                   /\ -1 <= lo[x] /\ lo[x] < st[x] /\ st[x] < hi[x] /\ hi[x] <= Top
  BY BstNumbers
<1>6. a < b /\ b < d /\ b \in Int
  BY <1>1
<1>7. /\ a \in Int /\ d \in Int /\ -1 <= a /\ d <= Top
      /\ \A x \in T : /\ st[x] < b => Laminar(lo[x], st[x], hi[x], a, b, d)
                      /\ b < st[x] => Laminar(a, b, d, lo[x], st[x], hi[x])
                      /\ st[x] # b
  BY <1>1, <1>6, PlaceLaminar
<1>8. /\ t.mem[sp] = Null => w = <<"mem", sp>>
      /\ \A x \in T : /\ t.left[x] = Null /\ lo[x] < b /\ b < st[x] => w = <<"left", x>>
                      /\ t.right[x] = Null /\ st[x] < b /\ b < hi[x] => w = <<"right", x>>
  BY <1>1, <1>6, EmptyOnce
<1>9. PICK T2 : T2 = T \cup {n}
  OBVIOUS
<1>10. Spans(T2, lo2, hi2, st2)
  BY <1>4, <1>5, <1>6, <1>7, <1>9 DEF Spans
<1>11. Nested(T2, lo2, hi2, st2)
  <2>1. SUFFICES ASSUME NEW x \in T2, NEW y \in T2
                 PROVE  /\ st2[x] = st2[y] => x = y
                        /\ st2[x] < st2[y]
                             => Laminar(lo2[x], st2[x], hi2[x], lo2[y], st2[y], hi2[y])
    BY DEF Nested
  <2>2. CASE x \in T /\ y \in T
    BY <1>4, <2>2, BstLaminar
  <2>3. CASE x = n /\ y \in T
    BY <1>4, <1>7, <2>3
  <2>4. CASE x \in T /\ y = n
    BY <1>4, <1>7, <2>4
  <2>5. CASE x = n /\ y = n
    BY <1>4, <1>6, <2>5
  <2> QED BY <1>9, <2>2, <2>3, <2>4, <2>5
<1>12. ASSUME NEW c \in T, NEW e1, NEW e2, Child(c, e1, e2, T, lo, hi, st)
       PROVE  Child(c, e1, e2, T2, lo2, hi2, st2)
  BY <1>3, <1>4, <1>9, <1>12 DEF Child
<1>13. ASSUME NEW e1, NEW e2, Child(Null, e1, e2, T, lo, hi, st), ~(e1 < b /\ b < e2)
       PROVE  Child(Null, e1, e2, T2, lo2, hi2, st2)
  BY <1>4, <1>9, <1>13 DEF Child
<1>14. Child(n, a, d, T2, lo2, hi2, st2)
  BY <1>4, <1>9, NodeCount DEF Child
<1>15. \A e1, e2 : Child(Null, e1, e2, T2, lo2, hi2, st2)
                     <=> \A x \in T2 : ~(e1 < st2[x] /\ st2[x] < e2)
  BY DEF Child
<1>16. Child(t2.mem[sp], -1, Top, T2, lo2, hi2, st2)
  <2>1. t2.mem[sp] = IF w = <<"mem", sp>> THEN n ELSE t.mem[sp]
    BY DEF Replaced
  <2>2. CASE w = <<"mem", sp>>
    <3>1. w[1] = "mem"
      BY <2>2
    <3>2. a = -1 /\ d = Top
      BY <1>1, <3>1 DEF Low, High
    <3> QED BY <1>14, <2>1, <2>2, <3>2
  <2>3. CASE w # <<"mem", sp>>
    <3>1. t.mem[sp] # Null /\ Child(t.mem[sp], -1, Top, T, lo, hi, st)
      BY <1>8, <2>3, BstLinks
    <3>2. t.mem[sp] \in T
      BY <3>1 DEF Child
    <3> QED BY <1>12, <2>1, <2>3, <3>1, <3>2
  <2> QED BY <2>2, <2>3
<1>17. ASSUME NEW x \in T
       PROVE  /\ Child(t2.left[x], lo2[x], st2[x], T2, lo2, hi2, st2)
              /\ Child(t2.right[x], st2[x], hi2[x], T2, lo2, hi2, st2)
  <2>1. /\ t2.left[x] = IF w = <<"left", x>> THEN n ELSE t.left[x]
        /\ t2.right[x] = IF w = <<"right", x>> THEN n ELSE t.right[x]
    BY DEF Replaced
  <2>2. /\ Child(t.left[x], lo[x], st[x], T, lo, hi, st)
        /\ Child(t.right[x], st[x], hi[x], T, lo, hi, st)
    BY BstLinks
  <2>3. lo2[x] = lo[x] /\ hi2[x] = hi[x] /\ st2[x] = st[x]
    BY <1>4
  <2>4. Child(t2.left[x], lo[x], st[x], T2, lo2, hi2, st2)
    <3>1. CASE w = <<"left", x>>
      <4>1. w[1] = "left" /\ w[2] = x
        BY <3>1
      <4>2. a = lo[x] /\ d = st[x]
        BY <1>1, <4>1 DEF Low, High
      <4> QED BY <1>14, <2>1, <3>1, <4>2
    <3>2. CASE w # <<"left", x>> /\ t.left[x] = Null
      <4>1. ~(lo[x] < b /\ b < st[x])
        BY <1>8, <3>2
      <4>2. t2.left[x] = Null
        BY <2>1, <3>2
      <4> QED BY <1>13, <2>2, <3>2, <4>1, <4>2
    <3>3. CASE w # <<"left", x>> /\ t.left[x] # Null
      <4>1. t.left[x] \in T /\ t2.left[x] = t.left[x]
        BY <2>1, <2>2, <3>3 DEF Child
      <4> QED BY <1>12, <2>2, <4>1
    <3> QED BY <3>1, <3>2, <3>3
  <2>5. Child(t2.right[x], st[x], hi[x], T2, lo2, hi2, st2)
    <3>1. CASE w = <<"right", x>>
      <4>1. w[1] = "right" /\ w[2] = x
        BY <3>1
      <4>2. a = st[x] /\ d = hi[x]
        BY <1>1, <4>1 DEF Low, High
      <4> QED BY <1>14, <2>1, <3>1, <4>2
    <3>2. CASE w # <<"right", x>> /\ t.right[x] = Null
      <4>1. ~(st[x] < b /\ b < hi[x])
        BY <1>8, <3>2
      <4>2. t2.right[x] = Null
        BY <2>1, <3>2
      <4> QED BY <1>13, <2>2, <3>2, <4>1, <4>2
    <3>3. CASE w # <<"right", x>> /\ t.right[x] # Null
      <4>1. t.right[x] \in T /\ t2.right[x] = t.right[x]
        BY <2>1, <2>2, <3>3 DEF Child
      <4> QED BY <1>12, <2>2, <4>1
    <3> QED BY <3>1, <3>2, <3>3
  <2> QED BY <2>3, <2>4, <2>5
<1>18. \A x \in T : ~(a < st[x] /\ st[x] < d)
  BY <1>1, EmptyPlace
<1>19. /\ Child(t2.left[n], lo2[n], st2[n], T2, lo2, hi2, st2)
       /\ Child(t2.right[n], st2[n], hi2[n], T2, lo2, hi2, st2)
  <2>1. \A x \in T2 : ~(a < st2[x] /\ st2[x] < b) /\ ~(b < st2[x] /\ st2[x] < d)
    BY <1>4, <1>5, <1>6, <1>7, <1>9, <1>18
  <2> QED BY <1>4, <1>15, <2>1
<1>20. T2 \subseteq Node
  BY <1>3, <1>9
<1> QED BY <1>9, <1>10, <1>11, <1>16, <1>17, <1>19, <1>20 DEF Bst

\* What a tree has become with n.
Joined(t, t2, sp, T, n, st2) ==
  /\ t2 \in Trees /\ OnlyChanged(t, t2, sp, T \cup {n})
  /\ \E lo2, hi2 : Bst(t2, sp, T \cup {n}, lo2, hi2, st2)

\* addMapping, for an fpage that meets no other.
LEMMA AddFacts ==
  ASSUME NEW t \in Trees, NEW sp \in Space, NEW T, NEW lo, NEW hi, NEW st,
         Bst(t, sp, T, lo, hi, st), st = Starts(map), Apart(map, T),
         NEW n \in Node, n \notin T, NEW f \in Fpages, \A x \in T : ~Meet(map[x].vfp, f),
         NEW st2, \A x \in T : st2[x] = st[x], st2[n] = Start(f),
         NEW t2, t2 = addMapping(t, sp, f, n)
  PROVE  Joined(t, t2, sp, T, n, st2)
<1>1. PICK b, w : b = Start(f) /\ w = Place(t, sp, b, n)
  OBVIOUS
<1>2. b \in Int /\ -1 < b /\ b < Top /\ b <= End(f) /\ End(f) \in Int
  BY <1>1, FpageNumbers, TopNumber DEF Top
<1>3. \A x \in T : st[x] # b
  <2>1. SUFFICES ASSUME NEW x \in T, st[x] = b PROVE FALSE
    OBVIOUS
  <2>2. st[x] = Start(map[x].vfp) /\ map[x].vfp \in Fpages
    BY ApartStarts
  <2>3. PICK g : g = map[x].vfp
    OBVIOUS
  <2>4. Start(g) = b /\ g \in Fpages /\ ~Meet(g, f)
    BY <2>1, <2>2, <2>3
  <2>5. Start(g) <= End(g) /\ End(g) \in Int
    BY <2>4, FpageNumbers
  <2> QED BY <1>1, <1>2, <2>4, <2>5 DEF Meet
<1>4. \A x \in T : st[x] = b <=> x = n
  BY <1>3
<1>5. IsPlace(w, sp, T \ {n}) /\ At(t, w) = Null /\ Low(w, lo, st) < b /\ b < High(w, hi, st)
  BY <1>1, <1>2, <1>4, PlaceFacts
<1>6. IsPlace(w, sp, T) /\ T \in SUBSET Node /\ n \in Ref
  BY <1>5 DEF IsPlace, Bst, Ref
<1>7. PICK u : u = Put(t, w, n)
  OBVIOUS
<1>8. u \in Trees /\ Replaced(t, u, sp, Node, w, n) /\ OnlyChanged(t, u, sp, T)
  BY <1>6, <1>7, PutFacts
<1>9. t2 = CutAt(u, n)
  BY <1>1, <1>7 DEF addMapping, CutAt
<1>10. /\ t2 \in Trees /\ t2.mem = u.mem
       /\ t2.left[n] = Null /\ t2.right[n] = Null
       /\ \A x \in Node : x # n => t2.left[x] = u.left[x] /\ t2.right[x] = u.right[x]
  BY <1>8, <1>9, CutTree
<1>11. Replaced(t, t2, sp, T, w, n)
  BY <1>6, <1>8, <1>10 DEF Replaced
<1>12. OnlyChanged(t, t2, sp, T \cup {n})
  BY <1>8, <1>10 DEF OnlyChanged
<1>13. \E lo2, hi2 : Bst(t2, sp, T \cup {n}, lo2, hi2, st2)
  <2>1. /\ \A x \in T : st2[x] = st[x]
        /\ st2[n] \in Int /\ Low(w, lo, st) < st2[n] /\ st2[n] < High(w, hi, st)
    BY <1>1, <1>2, <1>5
  <2>2. Bst(t, sp, T, lo, hi, st) /\ n \in Node /\ n \notin T
    OBVIOUS
  <2> QED BY ONLY <1>5, <1>6, <1>10, <1>11, <2>1, <2>2, AddLeaf
<1> QED BY <1>10, <1>12, <1>13 DEF Joined

-----------------------------------------------------------------------------
(* exitSpace turns the tree: its root m goes to the right of what is on    *)
(* its left.                                                               *)
LEMMA Rotated ==
  ASSUME NEW t, NEW t2, NEW sp, NEW T, NEW lo, NEW hi, NEW st, Bst(t, sp, T, lo, hi, st),
         NEW m \in T, t.mem[sp] = m, NEW l, l = t.left[m], l # Null,
         t2.mem[sp] = l,
         \A x \in T : x # m => t2.left[x] = t.left[x], t2.left[m] = t.right[l],
         \A x \in T : x # l => t2.right[x] = t.right[x], t2.right[l] = m
  PROVE  l \in T /\ \E lo2, hi2 : Bst(t2, sp, T, lo2, hi2, st)
<1>1. PICK s, e : s = st[m] /\ e = st[l]
  OBVIOUS
<1>2. lo[m] = -1 /\ hi[m] = Top /\ m # Null
  BY LinkSpans, BstNumbers
<1>3. Child(l, lo[m], st[m], T, lo, hi, st)
  BY BstLinks
<1>4. l \in T /\ lo[l] = -1 /\ hi[l] = s
  BY <1>1, <1>2, <1>3 DEF Child
<1>5. \A x \in T : /\ lo[x] \in Int /\ st[x] \in Int /\ hi[x] \in Int
                   /\ -1 <= lo[x] /\ lo[x] < st[x] /\ st[x] < hi[x] /\ hi[x] <= Top
                   /\ x \in Node
  BY BstNumbers
<1>6. Top \in Int /\ s \in Int /\ e \in Int /\ -1 < e /\ e < s /\ s < Top
  BY <1>1, <1>2, <1>4, <1>5, TopNumber
<1>7. l # m
  BY <1>1, <1>6
<1> DEFINE lo1 == [x \in Node |-> IF x = m THEN e ELSE lo[x]]
           hi1 == [x \in Node |-> IF x = l THEN Top ELSE hi[x]]
<1>8. PICK lo2, hi2 : lo2 = lo1 /\ hi2 = hi1
  OBVIOUS
<1>9. \A x \in T : /\ lo2[x] = IF x = m THEN e ELSE lo[x]
                   /\ hi2[x] = IF x = l THEN Top ELSE hi[x]
  BY <1>5, <1>8
<1> HIDE DEF lo1, hi1
<1>10. Spans(T, lo2, hi2, st)
  BY <1>1, <1>4, <1>5, <1>6, <1>9 DEF Spans
<1>11. ASSUME NEW x \in T, st[x] < s, x # l
       PROVE  (st[x] < e /\ hi[x] <= e) \/ (e <= lo[x] /\ hi[x] <= s)
  <2>1. Laminar(lo[x], st[x], hi[x], -1, s, Top)
    BY <1>1, <1>2, <1>11, BstLaminar
  <2>2. /\ st[x] = e => x = l
        /\ st[x] < e => Laminar(lo[x], st[x], hi[x], -1, e, s)
        /\ e < st[x] => Laminar(-1, e, s, lo[x], st[x], hi[x])
    BY <1>1, <1>4, BstLaminar
  <2>3. PICK a, b, d : a = lo[x] /\ b = st[x] /\ d = hi[x]
    OBVIOUS
  <2>4. a \in Int /\ b \in Int /\ d \in Int /\ -1 <= a /\ a < b /\ b < d /\ d <= Top /\ b < s
    BY <1>5, <1>11, <2>3
  <2> QED BY <1>6, <1>11, <2>1, <2>2, <2>3, <2>4 DEF Laminar
<1>12. ASSUME NEW x \in T, s < st[x]
       PROVE  s <= lo[x]
  <2>1. Laminar(-1, s, Top, lo[x], st[x], hi[x])
    BY <1>1, <1>2, <1>12, BstLaminar
  <2>2. PICK a, b, d : a = lo[x] /\ b = st[x] /\ d = hi[x]
    OBVIOUS
  <2>3. a \in Int /\ b \in Int /\ d \in Int /\ -1 <= a /\ a < b /\ b < d /\ d <= Top /\ s < b
    BY <1>5, <1>12, <2>2
  <2> QED BY <1>6, <2>1, <2>2, <2>3 DEF Laminar
<1>13. Nested(T, lo2, hi2, st)
  <2>1. SUFFICES ASSUME NEW x \in T, NEW y \in T
                 PROVE  /\ st[x] = st[y] => x = y
                        /\ st[x] < st[y] => Laminar(lo2[x], st[x], hi2[x], lo2[y], st[y], hi2[y])
    BY DEF Nested
  <2>2. SUFFICES ASSUME st[x] < st[y]
                 PROVE  Laminar(lo2[x], st[x], hi2[x], lo2[y], st[y], hi2[y])
    BY BstLaminar
  <2>3. Laminar(lo[x], st[x], hi[x], lo[y], st[y], hi[y])
    BY <2>2, BstLaminar
  <2>4. PICK lx, sx, hx, ly, sy, hy : /\ lx = lo[x] /\ sx = st[x] /\ hx = hi[x]
                                      /\ ly = lo[y] /\ sy = st[y] /\ hy = hi[y]
    OBVIOUS
  <2>5. /\ lx \in Int /\ sx \in Int /\ hx \in Int /\ -1 <= lx /\ lx < sx /\ sx < hx /\ hx <= Top
        /\ ly \in Int /\ sy \in Int /\ hy \in Int /\ -1 <= ly /\ ly < sy /\ sy < hy /\ hy <= Top
        /\ sx < sy
    BY <1>5, <2>2, <2>4
  <2>6. PICK l2, h2, m2, n2 : l2 = lo2[x] /\ h2 = hi2[x] /\ m2 = lo2[y] /\ n2 = hi2[y]
    OBVIOUS
  <2>7. /\ l2 = (IF x = m THEN e ELSE lx) /\ h2 = (IF x = l THEN Top ELSE hx)
        /\ m2 = (IF y = m THEN e ELSE ly) /\ n2 = (IF y = l THEN Top ELSE hy)
    BY <1>9, <2>4, <2>6
  <2>8. SUFFICES Laminar(l2, sx, h2, m2, sy, n2)
    BY <2>4, <2>6
  <2>9. CASE x = m
    <3>1. y # m /\ y # l /\ sx = s /\ s <= ly /\ hx = Top
      BY <1>1, <1>2, <1>6, <1>12, <2>4, <2>5, <2>9
    <3> QED BY <1>6, <1>7, <2>5, <2>7, <2>9, <3>1 DEF Laminar
  <2>10. CASE x = l
    <3>1. sx = e
      BY <1>1, <2>4, <2>10
    <3>2. CASE y = m
      BY <1>6, <1>7, <1>2, <2>4, <2>5, <2>7, <2>10, <3>1, <3>2 DEF Laminar
    <3>3. CASE y # m
      <4>1. y # l /\ sy # s
        BY <1>1, <2>4, <2>5, <2>10, <3>3, BstLaminar
      <4>2. e <= ly
        BY <1>6, <1>11, <1>12, <2>4, <2>5, <3>1, <4>1
      <4> QED BY <1>6, <1>7, <2>5, <2>7, <2>10, <3>1, <3>3, <4>1, <4>2 DEF Laminar
    <3> QED BY <3>2, <3>3
  <2>11. CASE x # m /\ x # l /\ y = m
    <3>1. sy = s /\ hy = Top
      BY <1>1, <1>2, <2>4, <2>11
    <3>2. (sx < e /\ hx <= e) \/ (e <= lx /\ hx <= s)
      BY <1>11, <2>4, <2>5, <2>11, <3>1
    <3> QED BY <1>6, <1>7, <2>5, <2>7, <2>11, <3>1, <3>2 DEF Laminar
  <2>12. CASE x # m /\ x # l /\ y = l
    <3>1. sy = e /\ hy = s /\ ly = -1
      BY <1>1, <1>4, <2>4, <2>12
    <3>2. (sx < e /\ hx <= e) \/ (e <= lx /\ hx <= s)
      BY <1>6, <1>11, <2>4, <2>5, <2>12, <3>1
    <3> QED BY <1>6, <1>7, <2>5, <2>7, <2>12, <3>1, <3>2 DEF Laminar
  <2>13. CASE x # m /\ x # l /\ y # m /\ y # l
    BY <2>3, <2>4, <2>7, <2>13
  <2> QED BY <2>9, <2>10, <2>11, <2>12, <2>13
<1>14. ASSUME NEW c, NEW a, NEW b, Child(c, a, b, T, lo, hi, st), c # m, c # l
       PROVE  Child(c, a, b, T, lo2, hi2, st)
  BY <1>9, <1>14 DEF Child
<1>15. Child(t2.mem[sp], -1, Top, T, lo2, hi2, st)
  BY <1>4, <1>7, <1>9 DEF Child
<1>16. ASSUME NEW x \in T
       PROVE  /\ Child(t2.left[x], lo2[x], st[x], T, lo2, hi2, st)
              /\ Child(t2.right[x], st[x], hi2[x], T, lo2, hi2, st)
  <2>1. /\ Child(t.left[x], lo[x], st[x], T, lo, hi, st)
        /\ Child(t.right[x], st[x], hi[x], T, lo, hi, st)
    BY BstLinks
  <2>2. /\ t.left[x] # m /\ t.right[x] # m /\ t.right[x] # l /\ (t.left[x] = l => x = m)
    <3>1. \A y \in T : y = m \/ y = l => LeftAt(t, x, y, lo, hi, st) /\ RightAt(t, x, y, lo, hi, st)
      BY LinkSpans
    <3>2. LeftAt(t, x, m, lo, hi, st) /\ RightAt(t, x, m, lo, hi, st)
      BY <3>1
    <3>3. LeftAt(t, x, l, lo, hi, st) /\ RightAt(t, x, l, lo, hi, st)
      BY <1>4, <3>1
    <3>4. t.left[x] = m => FALSE
      BY <1>2, <1>5, <1>6, <3>2 DEF LeftAt
    <3>5. t.right[x] = m => FALSE
      BY <1>2, <1>5, <1>6, <3>2 DEF RightAt
    <3>6. t.right[x] = l => FALSE
      BY <1>4, <1>5, <1>6, <3>3 DEF RightAt
    <3>7. t.left[x] = l => st[x] = st[m]
      BY <1>1, <1>4, <3>3 DEF LeftAt
    <3> QED BY <3>4, <3>5, <3>6, <3>7, BstLaminar
  <2>3. CASE x = m
    <3>1. Child(t.right[l], st[l], hi[l], T, lo, hi, st)
      BY <1>4, BstLinks
    <3>2. t.right[l] # m /\ t.right[l] # l
      <4>1. LeftAt(t, l, m, lo, hi, st) /\ RightAt(t, l, m, lo, hi, st)
        BY <1>4, LinkSpans
      <4>2. RightAt(t, l, l, lo, hi, st)
        BY <1>4, LinkSpans
      <4> QED BY <1>1, <1>2, <1>4, <1>6, <4>1, <4>2 DEF RightAt
    <3>3. Child(t.right[l], e, s, T, lo2, hi2, st)
      BY <1>1, <1>4, <1>14, <3>1, <3>2
    <3>4. Child(t.right[m], s, Top, T, lo2, hi2, st)
      BY <1>1, <1>2, <1>14, <2>1, <2>2, <2>3
    <3> QED BY <1>1, <1>2, <1>7, <1>9, <2>3, <3>3, <3>4
  <2>4. CASE x = l
    <3>1. Child(t.left[l], -1, e, T, lo2, hi2, st)
      BY <1>1, <1>4, <1>7, <1>14, <2>1, <2>2, <2>4
    <3>2. Child(m, e, Top, T, lo2, hi2, st)
      BY <1>2, <1>7, <1>9 DEF Child
    <3> QED BY <1>1, <1>4, <1>7, <1>9, <2>4, <3>1, <3>2
  <2>5. CASE x # m /\ x # l
    <3>1. /\ Child(t.left[x], lo[x], st[x], T, lo2, hi2, st)
          /\ Child(t.right[x], st[x], hi[x], T, lo2, hi2, st)
      BY <1>14, <2>1, <2>2, <2>5
    <3> QED BY <1>9, <2>5, <3>1
  <2> QED BY <2>3, <2>4, <2>5
<1>17. T \subseteq Node
  BY <1>5
<1> QED BY <1>4, <1>10, <1>13, <1>15, <1>16, <1>17 DEF Bst

(***************************************************************************)
(* The list.  L are the mappings in it, and pos says in which order they   *)
(* are.                                                                    *)
(***************************************************************************)
Ordered(L, pos) ==
  /\ L \subseteq Node /\ \A x \in L : pos[x] \in Nat
  /\ \A x, y \in L : pos[x] = pos[y] => x = y

\* y comes right after x.
Adjacent(L, pos, x, y) ==
  /\ x \in L /\ y \in L /\ pos[x] < pos[y]
  /\ \A z \in L : ~(pos[x] < pos[z] /\ pos[z] < pos[y])

\* The links of x lead to c and back to c.
Leads(c, L, pos, x) ==
  /\ c = Null => \A z \in L : pos[z] <= pos[x]
  /\ c # Null => Adjacent(L, pos, x, c)

Returns(c, L, pos, x) ==
  /\ c = Null => \A z \in L : pos[x] <= pos[z]
  /\ c # Null => Adjacent(L, pos, c, x)

\* One more than the last frame, and the contents of a mapping.
Limit(mp, x) == mp[x].phys + 2^mp[x].vfp.size
Filled(mp, x) ==
  /\ mp[x].space \in Space /\ mp[x].level \in Nat /\ mp[x].level >= 1
  /\ mp[x].vfp \in Fpages /\ mp[x].phys \in Nat /\ Limit(mp, x) <= Top

AtFirst(mp, L, pos) ==
  /\ First \in L /\ \A x \in L : pos[First] <= pos[x]
  /\ mp[First].level = 1 /\ mp[First].space = Sigma0
  /\ mp[First].vfp = CompleteFpage /\ mp[First].phys = 0

\* What x may be if it was derived from m.
Confines(mp, m, x) ==
  /\ mp[m].space # mp[x].space /\ mp[x].vfp.size <= mp[m].vfp.size
  /\ mp[m].phys <= mp[x].phys /\ Limit(mp, x) <= Limit(mp, m)
  /\ mp[x].perms # {} /\ mp[x].perms \subseteq mp[m].perms

ParentOf(mp, L, pos, m, x) ==
  /\ m \in L /\ pos[m] < pos[x] /\ mp[x].level = mp[m].level + 1
  /\ \A y \in L : pos[m] < pos[y] /\ pos[y] < pos[x] => mp[x].level <= mp[y].level
  /\ Confines(mp, m, x)

\* The mappings from m to x are derived from one of level l.
InSegment(mp, L, pos, m, l, x) ==
  /\ pos[m] <= pos[x]
  /\ \A y \in L : pos[m] < pos[y] /\ pos[y] <= pos[x] => l < mp[y].level

\* The list in the midst of a flush, which has come to m: p is before what it
\* began with, at level l.  If m is Null then there is no flush.
Listed(mp, L, pos, p, m, l) ==
  /\ Ordered(L, pos) /\ AtFirst(mp, L, pos)
  /\ \A x \in L : /\ Filled(mp, x)
                  /\ x # p => Leads(mp[x].next, L, pos, x)
                  /\ x # m => Returns(mp[x].prev, L, pos, x)
  /\ \A x \in L : \/ x = First
                  \/ \E y \in L : ParentOf(mp, L, pos, y, x)
                  \/ m # Null /\ InSegment(mp, L, pos, m, l, x)
  /\ m = Null => p = Null
  /\ m # Null => /\ p \in L /\ m # First /\ Adjacent(L, pos, p, m)
                 /\ l \in Nat /\ l >= 1 /\ l <= mp[m].level

\* The parts of a mapping that are not links.
SameContents(mp, mp2, x) ==
  /\ mp2[x].space = mp[x].space /\ mp2[x].level = mp[x].level /\ mp2[x].vfp = mp[x].vfp
  /\ mp2[x].perms = mp[x].perms /\ mp2[x].phys = mp[x].phys

LEMMA FlushBegins ==
  ASSUME NEW mp, NEW L, NEW pos, Listed(mp, L, pos, Null, Null, 0), NEW t \in L, t # First
  PROVE  Listed(mp, L, pos, mp[t].prev, t, mp[t].level)
<1>1. /\ Ordered(L, pos) /\ AtFirst(mp, L, pos) /\ Null \notin L
      /\ \A x \in L : /\ Filled(mp, x)
                      /\ Leads(mp[x].next, L, pos, x)
                      /\ Returns(mp[x].prev, L, pos, x)
      /\ \A x \in L : x = First \/ \E y \in L : ParentOf(mp, L, pos, y, x)
  BY NodeCount DEF Listed, Ordered
<1>2. PICK p : p = mp[t].prev
  OBVIOUS
<1>3. p # Null
  <2>1. SUFFICES ASSUME p = Null PROVE FALSE
    OBVIOUS
  <2>2. pos[t] <= pos[First] /\ pos[First] <= pos[t] /\ First \in L
    BY <1>1, <1>2, <2>1 DEF Returns, AtFirst
  <2>3. pos[t] = pos[First]
    BY <1>1, <2>2 DEF Ordered
  <2> QED BY <1>1, <2>2, <2>3 DEF Ordered
<1>4. p \in L /\ Adjacent(L, pos, p, t)
  BY <1>1, <1>2, <1>3 DEF Returns, Adjacent
<1>5. mp[t].level \in Nat /\ mp[t].level >= 1
  BY <1>1 DEF Filled
<1>6. t # Null
  BY <1>1
<1> QED BY <1>1, <1>2, <1>4, <1>5, <1>6 DEF Listed

-----------------------------------------------------------------------------
(* A step of flush: m goes.                                                *)

\* Without m, what was next to it is next to each other.
LEMMA AdjacentWithout ==
  ASSUME NEW L, NEW pos, Ordered(L, pos), NEW m \in L, NEW x \in L \ {m}, NEW y \in L \ {m}
  PROVE  /\ Adjacent(L, pos, x, y) => Adjacent(L \ {m}, pos, x, y)
         /\ Adjacent(L, pos, x, m) /\ Adjacent(L, pos, m, y) => Adjacent(L \ {m}, pos, x, y)
<1>1. \A z \in L : pos[z] \in Nat /\ (pos[z] = pos[m] => z = m)
  BY DEF Ordered
<1>2. Adjacent(L, pos, x, y) => Adjacent(L \ {m}, pos, x, y)
  BY DEF Adjacent
<1>3. ASSUME Adjacent(L, pos, x, m), Adjacent(L, pos, m, y)
      PROVE  Adjacent(L \ {m}, pos, x, y)
  <2>1. pos[x] < pos[m] /\ pos[m] < pos[y]
    BY <1>3 DEF Adjacent
  <2>2. ASSUME NEW z \in L \ {m} PROVE ~(pos[x] < pos[z] /\ pos[z] < pos[y])
    <3>1. /\ ~(pos[x] < pos[z] /\ pos[z] < pos[m])
          /\ ~(pos[m] < pos[z] /\ pos[z] < pos[y])
      BY <1>3 DEF Adjacent
    <3> QED BY <1>1, <2>1, <3>1
  <2> QED BY <1>1, <2>1, <2>2 DEF Adjacent
<1> QED BY <1>2, <1>3

\* The links of the others, but for those around m.
LEMMA LinksWithout ==
  ASSUME NEW L, NEW pos, Ordered(L, pos), NEW m \in L, NEW p \in L, Adjacent(L, pos, p, m),
         NEW n, Leads(n, L, pos, m), NEW x \in L \ {m}, NEW c
  PROVE  /\ x # p /\ Leads(c, L, pos, x) => Leads(c, L \ {m}, pos, x)
         /\ x # n /\ Returns(c, L, pos, x) => Returns(c, L \ {m}, pos, x)
         /\ Leads(n, L \ {m}, pos, p)
         /\ x = n => Returns(p, L \ {m}, pos, x)
<1>1. \A y \in L : pos[y] \in Nat
  BY DEF Ordered
<1>2. p # m /\ pos[p] < pos[m] /\ p # Null
  BY <1>1, NodeCount DEF Adjacent, Ordered
<1>3. n # Null => n \in L \ {m} /\ pos[m] < pos[n] /\ Adjacent(L, pos, m, n)
  BY <1>1 DEF Leads, Adjacent
<1>4. ASSUME x # p, Leads(c, L, pos, x) PROVE Leads(c, L \ {m}, pos, x)
  <2>1. CASE c = Null
    BY <1>4, <2>1 DEF Leads
  <2>2. CASE c # Null
    <3>1. Adjacent(L, pos, x, c) /\ c \in L
      BY <1>4, <2>2 DEF Leads, Adjacent
    <3>2. c # m
      <4>1. SUFFICES ASSUME c = m PROVE FALSE
        OBVIOUS
      <4>2. pos[x] = pos[p]
        BY <1>1, <3>1, <4>1 DEF Adjacent
      <4> QED BY <1>4, <4>2 DEF Ordered
    <3>3. Adjacent(L \ {m}, pos, x, c)
      BY <3>1, <3>2, AdjacentWithout
    <3> QED BY <2>2, <3>3 DEF Leads
  <2> QED BY <2>1, <2>2
<1>5. ASSUME x # n, Returns(c, L, pos, x) PROVE Returns(c, L \ {m}, pos, x)
  <2>1. CASE c = Null
    BY <1>5, <2>1 DEF Returns
  <2>2. CASE c # Null
    <3>1. Adjacent(L, pos, c, x) /\ c \in L
      BY <1>5, <2>2 DEF Returns, Adjacent
    <3>2. c # m
      <4>1. SUFFICES ASSUME c = m PROVE FALSE
        OBVIOUS
      <4>2. pos[m] < pos[x]
        BY <3>1, <4>1 DEF Adjacent
      <4>3. n # Null
        BY <1>1, <4>2 DEF Leads
      <4>4. pos[x] = pos[n]
        BY <1>1, <1>3, <3>1, <4>1, <4>3 DEF Adjacent
      <4> QED BY <1>3, <1>5, <4>3, <4>4 DEF Ordered
    <3>3. Adjacent(L \ {m}, pos, c, x)
      BY <3>1, <3>2, AdjacentWithout
    <3> QED BY <2>2, <3>3 DEF Returns
  <2> QED BY <2>1, <2>2
<1>6. Leads(n, L \ {m}, pos, p)
  <2>1. CASE n = Null
    <3>1. ASSUME NEW z \in L \ {m} PROVE pos[z] <= pos[p]
      <4>1. pos[z] <= pos[m] /\ pos[z] # pos[m]
        BY <2>1 DEF Leads, Ordered
      <4>2. ~(pos[p] < pos[z] /\ pos[z] < pos[m])
        BY DEF Adjacent
      <4> QED BY <1>1, <4>1, <4>2
    <3> QED BY <2>1, <3>1 DEF Leads
  <2>2. CASE n # Null
    <3>1. Adjacent(L \ {m}, pos, p, n)
      BY <1>2, <1>3, <2>2, AdjacentWithout
    <3> QED BY <2>2, <3>1 DEF Leads
  <2> QED BY <2>1, <2>2
<1>7. ASSUME x = n PROVE Returns(p, L \ {m}, pos, x)
  <2>1. n # Null
    BY <1>7, NodeCount DEF Ordered
  <2>2. Adjacent(L \ {m}, pos, p, x)
    BY <1>2, <1>3, <1>7, <2>1, AdjacentWithout
  <2> QED BY <1>2, <2>2 DEF Returns
<1> QED BY <1>4, <1>5, <1>6, <1>7

\* What is said of contents stays true, without m and with other links.
LEMMA ContentsStay ==
  ASSUME NEW mp, NEW mp2, NEW L, NEW pos, NEW m \in L,
         \A x \in L \ {m} : SameContents(mp, mp2, x)
  PROVE  /\ \A x \in L \ {m} : Filled(mp, x) => Filled(mp2, x)
         /\ m # First /\ AtFirst(mp, L, pos) => AtFirst(mp2, L \ {m}, pos)
         /\ \A x, y \in L \ {m} : ParentOf(mp, L, pos, y, x)
                                    => ParentOf(mp2, L \ {m}, pos, y, x)
<1>1. \A x \in L \ {m} : Limit(mp2, x) = Limit(mp, x)
  BY DEF Limit, SameContents
<1>2. \A x \in L \ {m} : Filled(mp, x) => Filled(mp2, x)
  BY <1>1 DEF Filled, SameContents
<1>3. m # First /\ AtFirst(mp, L, pos) => AtFirst(mp2, L \ {m}, pos)
  BY DEF AtFirst, SameContents
<1>4. ASSUME NEW x \in L \ {m}, NEW y \in L \ {m}, ParentOf(mp, L, pos, y, x)
      PROVE  ParentOf(mp2, L \ {m}, pos, y, x)
  <2>1. Confines(mp2, y, x)
    BY <1>1, <1>4 DEF ParentOf, Confines, SameContents
  <2>2. /\ pos[y] < pos[x] /\ mp2[x].level = mp2[y].level + 1
        /\ \A z \in L \ {m} : pos[y] < pos[z] /\ pos[z] < pos[x] => mp2[x].level <= mp2[z].level
    BY <1>4 DEF ParentOf, SameContents
  <2> QED BY <2>1, <2>2 DEF ParentOf
<1> QED BY <1>2, <1>3, <1>4

LEMMA ListedFacts ==
  ASSUME NEW mp, NEW L, NEW pos, NEW p, NEW m, NEW l, Listed(mp, L, pos, p, m, l), m # Null
  PROVE  /\ Ordered(L, pos) /\ AtFirst(mp, L, pos) /\ Null \notin L
         /\ p \in L /\ m \in L /\ m # First /\ p # m /\ Adjacent(L, pos, p, m)
         /\ l \in Nat /\ l >= 1 /\ l <= mp[m].level
         /\ Leads(mp[m].next, L, pos, m)
         /\ \A x \in L : /\ Filled(mp, x)
                         /\ x # p => Leads(mp[x].next, L, pos, x)
                         /\ x # m => Returns(mp[x].prev, L, pos, x)
         /\ \A x \in L : \/ x = First
                         \/ \E y \in L : ParentOf(mp, L, pos, y, x)
                         \/ InSegment(mp, L, pos, m, l, x)
<1>1. /\ Ordered(L, pos) /\ AtFirst(mp, L, pos)
      /\ p \in L /\ m # First /\ Adjacent(L, pos, p, m)
      /\ l \in Nat /\ l >= 1 /\ l <= mp[m].level
      /\ \A x \in L : /\ Filled(mp, x)
                      /\ x # p => Leads(mp[x].next, L, pos, x)
                      /\ x # m => Returns(mp[x].prev, L, pos, x)
      /\ \A x \in L : \/ x = First
                      \/ \E y \in L : ParentOf(mp, L, pos, y, x)
                      \/ InSegment(mp, L, pos, m, l, x)
  BY DEF Listed
<1>2. m \in L /\ p # m
  BY <1>1 DEF Adjacent, Ordered
<1>3. Null \notin L
  BY <1>1, NodeCount DEF Ordered
<1> QED BY <1>1, <1>2, <1>3

LEMMA FlushGoesOn ==
  ASSUME NEW mp, NEW L, NEW pos, NEW p, NEW m, NEW l, Listed(mp, L, pos, p, m, l), m # Null,
         NEW n, n = mp[m].next, n # Null, l < mp[n].level,
         NEW mp2, \A x \in L \ {m} : mp2[x] = mp[x]
  PROVE  /\ Listed(mp2, L \ {m}, pos, p, n, l)
         /\ \A x \in L \ {m} : InSegment(mp2, L \ {m}, pos, n, l, x)
                                 => InSegment(mp, L, pos, m, l, x)
<1>1. /\ Ordered(L, pos) /\ AtFirst(mp, L, pos) /\ Null \notin L
      /\ p \in L /\ m \in L /\ m # First /\ p # m /\ Adjacent(L, pos, p, m)
      /\ l \in Nat /\ l >= 1 /\ l <= mp[m].level
      /\ Leads(n, L, pos, m)
      /\ \A x \in L : /\ Filled(mp, x)
                      /\ x # p => Leads(mp[x].next, L, pos, x)
                      /\ x # m => Returns(mp[x].prev, L, pos, x)
      /\ \A x \in L : \/ x = First
                      \/ \E y \in L : ParentOf(mp, L, pos, y, x)
                      \/ InSegment(mp, L, pos, m, l, x)
  BY ListedFacts
<1>2. PICK K : K = L \ {m}
  OBVIOUS
<1>3. \A x \in L : pos[x] \in Nat /\ mp[x].level \in Nat
  BY <1>1 DEF Ordered, Filled
<1>4. Adjacent(L, pos, m, n) /\ n \in K /\ p \in K /\ pos[m] < pos[n]
  BY <1>1, <1>2, <1>3 DEF Leads, Adjacent
<1>5. Ordered(K, pos)
  BY <1>1, <1>2 DEF Ordered
<1>6. \A x \in K : SameContents(mp, mp2, x)
  BY <1>2 DEF SameContents
<1>7. /\ \A x \in K : Filled(mp2, x)
      /\ AtFirst(mp2, K, pos)
      /\ \A x, y \in K : ParentOf(mp, L, pos, y, x) => ParentOf(mp2, K, pos, y, x)
  BY <1>1, <1>2, <1>6, ContentsStay
<1>8. ASSUME NEW x \in K
      PROVE  /\ x # p => Leads(mp2[x].next, K, pos, x)
             /\ x # n => Returns(mp2[x].prev, K, pos, x)
  BY <1>1, <1>2, <1>8, LinksWithout
<1>9. Adjacent(K, pos, p, n)
  BY <1>1, <1>2, <1>4, AdjacentWithout
<1>10. n # First
  BY <1>1, <1>3, <1>4 DEF AtFirst
<1>11. ASSUME NEW x \in K, InSegment(mp, L, pos, m, l, x)
       PROVE  InSegment(mp2, K, pos, n, l, x)
  <2>1. pos[m] < pos[x]
    BY <1>1, <1>2, <1>3, <1>11 DEF InSegment, Ordered
  <2>2. pos[n] <= pos[x]
    BY <1>2, <1>3, <1>4, <2>1 DEF Adjacent
  <2>3. \A y \in K : pos[n] < pos[y] /\ pos[y] <= pos[x] => l < mp2[y].level
    BY <1>1, <1>2, <1>3, <1>4, <1>11 DEF InSegment
  <2> QED BY <2>2, <2>3 DEF InSegment
<1>12. ASSUME NEW x \in K, ParentOf(mp, L, pos, m, x)
       PROVE  InSegment(mp, L, pos, m, l, x)
  <2>1. /\ pos[m] < pos[x] /\ mp[x].level = mp[m].level + 1
        /\ \A y \in L : pos[m] < pos[y] /\ pos[y] < pos[x] => mp[x].level <= mp[y].level
    BY <1>12 DEF ParentOf
  <2>2. x \in L /\ l < mp[x].level
    BY <1>1, <1>2, <1>3, <2>1
  <2>3. ASSUME NEW y \in L, pos[m] < pos[y], pos[y] <= pos[x] PROVE l < mp[y].level
    <3>1. pos[y] < pos[x] \/ y = x
      BY <1>1, <1>3, <2>2, <2>3 DEF Ordered
    <3> QED BY <1>1, <1>3, <2>1, <2>2, <2>3, <3>1
  <2> QED BY <1>1, <1>3, <2>1, <2>2, <2>3 DEF InSegment
<1>13. ASSUME NEW x \in K
       PROVE  \/ x = First
              \/ \E y \in K : ParentOf(mp2, K, pos, y, x)
              \/ InSegment(mp2, K, pos, n, l, x)
  BY <1>1, <1>2, <1>7, <1>11, <1>12
<1>14. ASSUME NEW x \in K, InSegment(mp2, K, pos, n, l, x)
       PROVE  InSegment(mp, L, pos, m, l, x)
  <2>1. pos[n] <= pos[x] /\ \A y \in K : pos[n] < pos[y] /\ pos[y] <= pos[x] => l < mp[y].level
    BY <1>2, <1>14 DEF InSegment
  <2>2. ASSUME NEW y \in L, pos[m] < pos[y], pos[y] <= pos[x] PROVE l < mp[y].level
    <3>1. y # m /\ y \in K
      BY <1>2, <1>3, <2>2
    <3>2. pos[n] < pos[y] \/ y = n
      BY <1>1, <1>3, <1>2, <1>4, <2>2 DEF Adjacent, Ordered
    <3> QED BY <2>1, <2>2, <3>1, <3>2
  <2>3. pos[m] <= pos[x]
    BY <1>1, <1>2, <1>3, <1>4, <2>1
  <2> QED BY <2>2, <2>3 DEF InSegment
<1>15. n \in K /\ mp2[n].level = mp[n].level /\ l <= mp2[n].level
  BY <1>1, <1>2, <1>3, <1>4
<1>16. Listed(mp2, K, pos, p, n, l)
  BY <1>1, <1>4, <1>5, <1>7, <1>8, <1>9, <1>10, <1>13, <1>15 DEF Listed
<1> QED BY <1>2, <1>14, <1>16

\* What is left when flush relinks p and n, the neighbours of what is gone.
Relinks(mp, mp2, L, p, n) ==
  \A x \in L : /\ SameContents(mp, mp2, x)
               /\ x # p => mp2[x].next = mp[x].next
               /\ x # n => mp2[x].prev = mp[x].prev
               /\ x = p => mp2[x].next = n
               /\ x = n => mp2[x].prev = p

LEMMA FlushEnds ==
  ASSUME NEW mp, NEW L, NEW pos, NEW p, NEW m, NEW l, Listed(mp, L, pos, p, m, l), m # Null,
         NEW n, n = mp[m].next, n = Null \/ ~(l < mp[n].level),
         NEW mp2, Relinks(mp, mp2, L \ {m}, p, n)
  PROVE  Listed(mp2, L \ {m}, pos, Null, Null, 0)
<1>1. /\ Ordered(L, pos) /\ AtFirst(mp, L, pos) /\ Null \notin L
      /\ p \in L /\ m \in L /\ m # First /\ p # m /\ Adjacent(L, pos, p, m)
      /\ l \in Nat /\ l >= 1 /\ l <= mp[m].level
      /\ Leads(n, L, pos, m)
      /\ \A x \in L : /\ Filled(mp, x)
                      /\ x # p => Leads(mp[x].next, L, pos, x)
                      /\ x # m => Returns(mp[x].prev, L, pos, x)
      /\ \A x \in L : \/ x = First
                      \/ \E y \in L : ParentOf(mp, L, pos, y, x)
                      \/ InSegment(mp, L, pos, m, l, x)
  BY ListedFacts
<1>2. PICK K : K = L \ {m}
  OBVIOUS
<1>3. \A x \in L : pos[x] \in Nat /\ mp[x].level \in Nat
  BY <1>1 DEF Ordered, Filled
<1>4. Ordered(K, pos)
  BY <1>1, <1>2 DEF Ordered
<1>5. \A x \in K : SameContents(mp, mp2, x)
  BY <1>2 DEF Relinks
<1>6. /\ \A x \in K : Filled(mp2, x)
      /\ AtFirst(mp2, K, pos)
      /\ \A x, y \in K : ParentOf(mp, L, pos, y, x) => ParentOf(mp2, K, pos, y, x)
  BY <1>1, <1>2, <1>5, ContentsStay
<1>7. ASSUME NEW x \in K
      PROVE  Leads(mp2[x].next, K, pos, x) /\ Returns(mp2[x].prev, K, pos, x)
  <2>1. /\ x # p => mp2[x].next = mp[x].next
        /\ x # n => mp2[x].prev = mp[x].prev
        /\ x = p => mp2[x].next = n
        /\ x = n => mp2[x].prev = p
    BY <1>2 DEF Relinks
  <2>2. /\ x # p => Leads(mp[x].next, K, pos, x)
        /\ x # n => Returns(mp[x].prev, K, pos, x)
        /\ Leads(n, K, pos, p)
        /\ x = n => Returns(p, K, pos, x)
    BY <1>1, <1>2, LinksWithout
  <2> QED BY <2>1, <2>2
<1>8. ASSUME NEW x \in K, pos[m] < pos[x],
             \A y \in L : pos[m] < pos[y] /\ pos[y] <= pos[x] => l < mp[y].level
      PROVE  FALSE
  <2>1. n # Null
    BY <1>1, <1>2, <1>3, <1>8 DEF Leads
  <2>2. n \in L /\ pos[m] < pos[n] /\ ~(pos[m] < pos[x] /\ pos[x] < pos[n])
    BY <1>1, <1>2, <2>1 DEF Leads, Adjacent
  <2> QED BY <1>2, <1>3, <1>8, <2>1, <2>2
<1>9. ASSUME NEW x \in K, x # First
      PROVE  \E y \in K : ParentOf(mp2, K, pos, y, x)
  <2>1. ~InSegment(mp, L, pos, m, l, x)
    BY <1>1, <1>2, <1>3, <1>8 DEF InSegment, Ordered
  <2>2. ASSUME ParentOf(mp, L, pos, m, x) PROVE FALSE
    <3>1. /\ pos[m] < pos[x] /\ mp[x].level = mp[m].level + 1
          /\ \A y \in L : pos[m] < pos[y] /\ pos[y] < pos[x] => mp[x].level <= mp[y].level
      BY <2>2 DEF ParentOf
    <3>2. x \in L /\ l < mp[x].level
      BY <1>1, <1>2, <1>3, <3>1
    <3>3. ASSUME NEW y \in L, pos[m] < pos[y], pos[y] <= pos[x] PROVE l < mp[y].level
      <4>1. pos[y] < pos[x] \/ y = x
        BY <1>1, <1>3, <3>2, <3>3 DEF Ordered
      <4> QED BY <1>1, <1>3, <3>1, <3>2, <3>3, <4>1
    <3> QED BY <1>8, <3>1, <3>3
  <2> QED BY <1>1, <1>2, <1>6, <1>9, <2>1, <2>2
<1> QED BY <1>2, <1>4, <1>6, <1>7, <1>9 DEF Listed

\* A place for t right after s.
After(L, pos, s, t) ==
  [x \in Node |-> IF x = t THEN pos[s] + 1
                  ELSE IF pos[s] < pos[x] THEN pos[x] + 1 ELSE pos[x]]

\* t has a place after s, and all others stay in order.
Shifted(L, pos, s, t, q) ==
  /\ \A x, y \in L : q[x] < q[y] <=> pos[x] < pos[y]
  /\ \A x \in L : /\ q[x] < q[t] <=> pos[x] <= pos[s]
                  /\ q[t] < q[x] <=> pos[s] < pos[x]

LEMMA AfterFacts ==
  ASSUME NEW L, NEW pos, Ordered(L, pos), NEW s \in L, NEW t \in Node \ L,
         NEW q, q = After(L, pos, s, t)
  PROVE  Ordered(L \cup {t}, q) /\ Shifted(L, pos, s, t, q)
<1>1. L \subseteq Node /\ \A x \in L : pos[x] \in Nat
  BY DEF Ordered
<1>2. /\ q[t] = pos[s] + 1
      /\ \A x \in L : q[x] = IF pos[s] < pos[x] THEN pos[x] + 1 ELSE pos[x]
  BY <1>1 DEF After
<1>3. \A x \in L \cup {t} : q[x] \in Nat
  BY <1>1, <1>2
<1>4. \A x, y \in L : q[x] < q[y] <=> pos[x] < pos[y]
  BY <1>1, <1>2
<1>5. \A x \in L : /\ q[x] < q[t] <=> pos[x] <= pos[s]
                   /\ q[t] < q[x] <=> pos[s] < pos[x]
  BY <1>1, <1>2
<1>6. ASSUME NEW x \in L \cup {t}, NEW y \in L \cup {t}, q[x] = q[y] PROVE x = y
  <2>1. CASE x \in L /\ y \in L
    <3>1. pos[x] = pos[y]
      BY <1>1, <1>2, <1>6, <2>1
    <3> QED BY <2>1, <3>1 DEF Ordered
  <2>2. CASE x = t /\ y = t
    BY <2>2
  <2>3. CASE x = t /\ y \in L
    BY <1>1, <1>2, <1>6, <2>3
  <2>4. CASE x \in L /\ y = t
    BY <1>1, <1>2, <1>6, <2>4
  <2> QED BY <2>1, <2>2, <2>3, <2>4
<1>7. Ordered(L \cup {t}, q)
  BY <1>1, <1>3, <1>6 DEF Ordered
<1> QED BY <1>4, <1>5, <1>7 DEF Shifted

LEMMA NoFlushFacts ==
  ASSUME NEW mp, NEW L, NEW pos, Listed(mp, L, pos, Null, Null, 0)
  PROVE  /\ Ordered(L, pos) /\ AtFirst(mp, L, pos) /\ Null \notin L /\ First \in L
         /\ \A x \in L : /\ Filled(mp, x) /\ x \in Node /\ pos[x] \in Nat
                         /\ Leads(mp[x].next, L, pos, x)
                         /\ Returns(mp[x].prev, L, pos, x)
                         /\ mp[x].level \in Nat /\ mp[x].level >= 1
         /\ \A x \in L : x = First \/ \E y \in L : ParentOf(mp, L, pos, y, x)
         /\ \A x, y \in L : pos[x] = pos[y] => x = y
BY NodeCount DEF Listed, Ordered, AtFirst, Filled

\* Add: t is put between s and n, what comes after s.
Inserts(mp, mp2, L, s, t, n) ==
  /\ \A x \in L : /\ SameContents(mp, mp2, x)
                  /\ mp2[x].next = IF x = s THEN t ELSE mp[x].next
                  /\ mp2[x].prev = IF x = n THEN t ELSE mp[x].prev
  /\ mp2[t].next = n /\ mp2[t].prev = s /\ mp2[t].level = mp[s].level + 1

LEMMA Inserted ==
  ASSUME NEW mp, NEW L, NEW pos, Listed(mp, L, pos, Null, Null, 0),
         NEW s \in L, NEW t \in Node \ L, NEW n, n = mp[s].next,
         NEW mp2, Inserts(mp, mp2, L, s, t, n), Filled(mp2, t), Confines(mp2, s, t)
  PROVE  \E q : Listed(mp2, L \cup {t}, q, Null, Null, 0)
<1>1. /\ Ordered(L, pos) /\ AtFirst(mp, L, pos) /\ Null \notin L /\ First \in L
      /\ \A x \in L : /\ Filled(mp, x) /\ x \in Node /\ pos[x] \in Nat
                      /\ Leads(mp[x].next, L, pos, x)
                      /\ Returns(mp[x].prev, L, pos, x)
                      /\ mp[x].level \in Nat /\ mp[x].level >= 1
      /\ \A x \in L : x = First \/ \E y \in L : ParentOf(mp, L, pos, y, x)
      /\ \A x, y \in L : pos[x] = pos[y] => x = y
  BY NoFlushFacts
<1>2. PICK q, K : q = After(L, pos, s, t) /\ K = L \cup {t}
  OBVIOUS
<1>3. /\ Ordered(K, q)
      /\ \A x, y \in L : q[x] < q[y] <=> pos[x] < pos[y]
      /\ \A x \in L : /\ q[x] < q[t] <=> pos[x] <= pos[s]
                      /\ q[t] < q[x] <=> pos[s] < pos[x]
  <2>1. Ordered(L, pos) /\ s \in L /\ t \in Node \ L /\ q = After(L, pos, s, t)
    BY <1>1, <1>2
  <2>2. Ordered(L \cup {t}, q) /\ Shifted(L, pos, s, t, q)
    BY ONLY <2>1, AfterFacts
  <2>3. Ordered(K, q)
    BY <1>2, <2>2
  <2> QED BY <2>2, <2>3 DEF Shifted
<1>4. \A x \in K : q[x] \in Nat
  BY <1>3 DEF Ordered
<1>5. /\ \A x \in L : /\ SameContents(mp, mp2, x)
                      /\ mp2[x].next = IF x = s THEN t ELSE mp[x].next
                      /\ mp2[x].prev = IF x = n THEN t ELSE mp[x].prev
      /\ mp2[t].next = n /\ mp2[t].prev = s /\ mp2[t].level = mp[s].level + 1
      /\ t # Null /\ s # Null /\ t \notin L
  BY <1>1, NodeCount DEF Inserts
<1>6. \A x \in L : Limit(mp2, x) = Limit(mp, x)
  BY <1>5 DEF Limit, SameContents
<1>7. \A x \in K : Filled(mp2, x)
  BY <1>1, <1>2, <1>5, <1>6 DEF Filled, SameContents
<1>8. AtFirst(mp2, K, q)
  <2>1. ASSUME NEW x \in K PROVE q[First] <= q[x]
    <3>1. \A y \in L : pos[First] <= pos[y]
      BY <1>1 DEF AtFirst
    <3>2. CASE x = t
      BY <1>1, <1>2, <1>3, <1>4, <3>1, <3>2
    <3>3. CASE x \in L
      <4>1. ~(q[x] < q[First])
        BY <1>1, <1>3, <3>1, <3>3
      <4> QED BY <1>1, <1>2, <1>4, <3>3, <4>1
    <3> QED BY <1>2, <3>2, <3>3
  <2> QED BY <1>1, <1>2, <1>5, <2>1 DEF AtFirst, SameContents
<1>9. ASSUME NEW x \in L, NEW y \in L, Adjacent(L, pos, x, y), x # s
      PROVE  Adjacent(K, q, x, y)
  <2>1. q[x] < q[y] /\ \A z \in L : ~(q[x] < q[z] /\ q[z] < q[y])
    BY <1>3, <1>9 DEF Adjacent
  <2>2. ~(q[x] < q[t] /\ q[t] < q[y])
    <3>1. SUFFICES ASSUME pos[x] <= pos[s], pos[s] < pos[y] PROVE FALSE
      BY <1>3
    <3>2. pos[x] < pos[s]
      BY <1>1, <1>9, <3>1
    <3> QED BY <1>9, <3>1, <3>2 DEF Adjacent
  <2> QED BY <1>2, <2>1, <2>2 DEF Adjacent
<1>10. Adjacent(K, q, s, t)
  <2>1. q[s] < q[t]
    BY <1>1, <1>3
  <2>2. ASSUME NEW z \in K PROVE ~(q[s] < q[z] /\ q[z] < q[t])
    <3>1. CASE z = t
      BY <1>4, <3>1
    <3>2. CASE z \in L
      BY <1>1, <1>3, <3>2
    <3> QED BY <1>2, <3>1, <3>2
  <2> QED BY <1>2, <2>1, <2>2 DEF Adjacent
<1>11. ASSUME n # Null PROVE n \in L /\ Adjacent(K, q, t, n) /\ pos[s] < pos[n]
  <2>1. Adjacent(L, pos, s, n)
    BY <1>1, <1>11 DEF Leads
  <2>2. n \in L /\ pos[s] < pos[n] /\ q[t] < q[n]
    BY <1>3, <2>1 DEF Adjacent
  <2>3. ASSUME NEW z \in K PROVE ~(q[t] < q[z] /\ q[z] < q[n])
    <3>1. CASE z = t
      BY <1>4, <3>1
    <3>2. CASE z \in L
      BY <1>1, <1>3, <2>1, <2>2, <3>2 DEF Adjacent
    <3> QED BY <1>2, <3>1, <3>2
  <2> QED BY <1>2, <2>2, <2>3 DEF Adjacent
<1>12. ASSUME NEW x \in L, x # s PROVE Leads(mp2[x].next, K, q, x)
  <2>1. mp2[x].next = mp[x].next /\ Leads(mp[x].next, L, pos, x)
    BY <1>1, <1>5, <1>12
  <2>2. CASE mp[x].next = Null
    <3>1. \A z \in L : pos[z] <= pos[x]
      BY <2>1, <2>2 DEF Leads
    <3>2. pos[s] < pos[x]
      BY <1>1, <1>12, <3>1
    <3>3. \A z \in K : ~(q[x] < q[z])
      BY <1>1, <1>2, <1>3, <1>4, <3>1, <3>2
    <3> QED BY <1>2, <1>4, <2>1, <2>2, <3>3 DEF Leads
  <2>3. CASE mp[x].next # Null
    <3>1. Adjacent(L, pos, x, mp[x].next) /\ mp[x].next \in L
      BY <2>1, <2>3 DEF Leads, Adjacent
    <3>2. Adjacent(K, q, x, mp[x].next)
      BY <1>9, <1>12, <3>1
    <3> QED BY <2>1, <2>3, <3>2 DEF Leads
  <2> QED BY <2>2, <2>3
<1>13. Leads(mp2[s].next, K, q, s)
  BY <1>5, <1>10 DEF Leads
<1>14. Leads(mp2[t].next, K, q, t)
  <2>1. CASE n = Null
    <3>1. \A z \in L : pos[z] <= pos[s]
      BY <1>1, <2>1 DEF Leads
    <3>2. \A z \in K : ~(q[t] < q[z])
      BY <1>1, <1>2, <1>3, <1>4, <3>1
    <3> QED BY <1>2, <1>4, <1>5, <2>1, <3>2 DEF Leads
  <2>2. CASE n # Null
    BY <1>5, <1>11, <2>2 DEF Leads
  <2> QED BY <2>1, <2>2
<1>15. ASSUME NEW x \in L, x # n PROVE Returns(mp2[x].prev, K, q, x)
  <2>1. mp2[x].prev = mp[x].prev /\ Returns(mp[x].prev, L, pos, x)
    BY <1>1, <1>5, <1>15
  <2>2. CASE mp[x].prev = Null
    <3>1. \A z \in L : pos[x] <= pos[z]
      BY <2>1, <2>2 DEF Returns
    <3>2. \A z \in K : ~(q[z] < q[x])
      BY <1>1, <1>2, <1>3, <1>4, <3>1
    <3> QED BY <1>2, <1>4, <2>1, <2>2, <3>2 DEF Returns
  <2>3. CASE mp[x].prev # Null
    <3>1. PICK c : c = mp[x].prev
      OBVIOUS
    <3>2. Adjacent(L, pos, c, x) /\ c \in L
      BY <2>1, <2>3, <3>1 DEF Returns, Adjacent
    <3>3. c # s
      <4>1. SUFFICES ASSUME c = s PROVE FALSE
        OBVIOUS
      <4>2. pos[s] < pos[x]
        BY <3>2, <4>1 DEF Adjacent
      <4>3. n # Null
        BY <1>1, <4>2 DEF Leads
      <4>4. Adjacent(L, pos, s, n)
        BY <1>1, <4>3 DEF Leads
      <4>5. pos[x] = pos[n]
        BY <1>1, <1>11, <3>2, <4>1, <4>3, <4>4 DEF Adjacent
      <4> QED BY <1>1, <1>11, <1>15, <4>3, <4>5
    <3>4. Adjacent(K, q, c, x)
      BY <1>9, <3>2, <3>3
    <3> QED BY <2>1, <2>3, <3>1, <3>4 DEF Returns
  <2> QED BY <2>2, <2>3
<1>16. n # Null => Returns(mp2[n].prev, K, q, n)
  BY <1>5, <1>11 DEF Returns
<1>17. Returns(mp2[t].prev, K, q, t)
  BY <1>5, <1>10 DEF Returns
<1>18. ParentOf(mp2, K, q, s, t)
  <2>1. \A y \in K : ~(q[s] < q[y] /\ q[y] < q[t])
    BY <1>10 DEF Adjacent
  <2>2. mp2[s].level = mp[s].level /\ q[s] < q[t]
    BY <1>5, <1>10 DEF SameContents, Adjacent
  <2> QED BY <1>2, <1>5, <2>1, <2>2 DEF ParentOf
<1>19. ASSUME NEW x \in L, NEW m \in L, ParentOf(mp, L, pos, m, x)
       PROVE  ParentOf(mp2, K, q, m, x)
  <2>1. /\ pos[m] < pos[x] /\ mp[x].level = mp[m].level + 1
        /\ \A y \in L : pos[m] < pos[y] /\ pos[y] < pos[x] => mp[x].level <= mp[y].level
        /\ Confines(mp, m, x)
    BY <1>19 DEF ParentOf
  <2>2. Confines(mp2, m, x)
    BY <1>5, <1>6, <2>1 DEF Confines, SameContents
  <2>3. \A y \in L : mp2[y].level = mp[y].level
    BY <1>5 DEF SameContents
  <2>4. ASSUME NEW y \in K, q[m] < q[y], q[y] < q[x] PROVE mp2[x].level <= mp2[y].level
    <3>1. CASE y \in L
      BY <1>3, <2>1, <2>3, <2>4, <3>1
    <3>2. CASE y = t
      <4>1. pos[m] <= pos[s] /\ pos[s] < pos[x]
        BY <1>3, <2>4, <3>2
      <4>2. m = s \/ mp[x].level <= mp[s].level
        BY <1>1, <2>1, <4>1
      <4> QED BY <1>1, <1>5, <2>1, <2>3, <3>2, <4>2
    <3> QED BY <1>2, <3>1, <3>2
  <2>5. q[m] < q[x]
    BY <1>3, <2>1
  <2> QED BY <1>2, <2>1, <2>2, <2>3, <2>4, <2>5 DEF ParentOf
<1>20. \A x \in K : x = First \/ \E y \in K : ParentOf(mp2, K, q, y, x)
  BY <1>1, <1>2, <1>18, <1>19
<1>21. \A x \in K : Leads(mp2[x].next, K, q, x) /\ Returns(mp2[x].prev, K, q, x)
  BY <1>1, <1>2, <1>12, <1>13, <1>14, <1>15, <1>16, <1>17
<1>22. Listed(mp2, K, q, Null, Null, 0)
  BY <1>3, <1>7, <1>8, <1>20, <1>21 DEF Listed
<1> QED BY <1>2, <1>22

\* What is derived from a mapping is no larger.
LEMMA SegmentSizes ==
  ASSUME NEW mp, NEW L, NEW pos, Listed(mp, L, pos, Null, Null, 0),
         NEW t \in L, NEW s \in L, InSegment(mp, L, pos, t, mp[t].level, s)
  PROVE  mp[s].vfp.size <= mp[t].vfp.size
<1>1. /\ Ordered(L, pos) /\ AtFirst(mp, L, pos) /\ Null \notin L /\ First \in L
      /\ \A x \in L : /\ Filled(mp, x) /\ x \in Node /\ pos[x] \in Nat
                      /\ Leads(mp[x].next, L, pos, x)
                      /\ Returns(mp[x].prev, L, pos, x)
                      /\ mp[x].level \in Nat /\ mp[x].level >= 1
      /\ \A x \in L : x = First \/ \E y \in L : ParentOf(mp, L, pos, y, x)
      /\ \A x, y \in L : pos[x] = pos[y] => x = y
  BY NoFlushFacts
<1>2. \A x \in L : mp[x].vfp.size \in Nat
  <2>1. SUFFICES ASSUME NEW x \in L PROVE mp[x].vfp.size \in Nat
    OBVIOUS
  <2>2. mp[x].vfp \in Fpages
    BY <1>1 DEF Filled
  <2> QED BY <2>2, BitsDoubling, FpageFacts
<1> DEFINE Bad == {x \in L : /\ InSegment(mp, L, pos, t, mp[t].level, x)
                             /\ ~(mp[x].vfp.size <= mp[t].vfp.size)}
<1>3. SUFFICES ASSUME s \in Bad PROVE FALSE
  OBVIOUS
<1>4. PICK P : P = {pos[x] : x \in Bad}
  OBVIOUS
<1>5. P \in SUBSET Nat /\ P # {}
  BY <1>1, <1>3, <1>4
<1>6. PICK k \in P : \A n \in P : k <= n
  BY ONLY <1>5, LeastNumber
<1>7. PICK x \in Bad : pos[x] = k
  BY <1>4, <1>6
<1>8. /\ x \in L /\ pos[t] <= pos[x] /\ ~(mp[x].vfp.size <= mp[t].vfp.size)
      /\ \A y \in L : pos[t] < pos[y] /\ pos[y] <= pos[x] => mp[t].level < mp[y].level
  BY <1>7 DEF InSegment
<1>9. \A z \in Bad : pos[x] <= pos[z]
  BY <1>4, <1>6, <1>7
<1>10. x # t /\ pos[t] < pos[x]
  BY <1>1, <1>2, <1>8
<1>11. x # First
  BY <1>1, <1>8, <1>10 DEF AtFirst
<1>12. PICK y \in L : ParentOf(mp, L, pos, y, x)
  BY <1>1, <1>8, <1>11
<1>13. /\ pos[y] < pos[x] /\ mp[x].vfp.size <= mp[y].vfp.size
       /\ \A z \in L : pos[y] < pos[z] /\ pos[z] < pos[x] => mp[x].level <= mp[z].level
  BY <1>12 DEF ParentOf, Confines
<1>14. mp[t].level < mp[x].level
  BY <1>1, <1>8, <1>10
<1>15. pos[t] <= pos[y]
  BY <1>1, <1>8, <1>10, <1>13, <1>14
<1>16. InSegment(mp, L, pos, t, mp[t].level, y)
  <2>1. \A z \in L : pos[t] < pos[z] /\ pos[z] <= pos[y] => mp[t].level < mp[z].level
    BY <1>1, <1>8, <1>13
  <2> QED BY <1>15, <2>1 DEF InSegment
<1>17. y \notin Bad
  BY <1>1, <1>8, <1>9, <1>13
<1>18. mp[y].vfp.size <= mp[t].vfp.size
  BY <1>16, <1>17
<1> QED BY <1>2, <1>8, <1>13, <1>18

\* Everything but the first mapping was derived from that.
LEMMA AllFromFirst ==
  ASSUME NEW mp, NEW L, NEW pos, Listed(mp, L, pos, Null, Null, 0), NEW s \in L
  PROVE  InSegment(mp, L, pos, First, mp[First].level, s)
<1>1. /\ Ordered(L, pos) /\ AtFirst(mp, L, pos) /\ Null \notin L /\ First \in L
      /\ \A x \in L : /\ Filled(mp, x) /\ x \in Node /\ pos[x] \in Nat
                      /\ Leads(mp[x].next, L, pos, x)
                      /\ Returns(mp[x].prev, L, pos, x)
                      /\ mp[x].level \in Nat /\ mp[x].level >= 1
      /\ \A x \in L : x = First \/ \E y \in L : ParentOf(mp, L, pos, y, x)
      /\ \A x, y \in L : pos[x] = pos[y] => x = y
  BY NoFlushFacts
<1>2. mp[First].level = 1 /\ pos[First] <= pos[s]
  BY <1>1 DEF AtFirst
<1>3. ASSUME NEW x \in L, pos[First] < pos[x] PROVE 1 < mp[x].level
  <2>1. x # First
    BY <1>1, <1>3
  <2>2. PICK y \in L : ParentOf(mp, L, pos, y, x)
    BY <1>1, <2>1
  <2>3. mp[x].level = mp[y].level + 1
    BY <2>2 DEF ParentOf
  <2> QED BY <1>1, <2>3
<1> QED BY <1>2, <1>3 DEF InSegment

-----------------------------------------------------------------------------
(* Following the links of the list.                                        *)

LEMMA Enumerates ==
  ASSUME NEW mp, NEW L, NEW pos, Listed(mp, L, pos, Null, Null, 0),
         NEW link \in [Ref -> Ref], link[Null] = Null, \A x \in L : link[x] = mp[x].next,
         NEW t \in L, NEW s, s = Along(link, t)
  PROVE  \E len : /\ Way(s, link, t, len, L, pos)
                  /\ \A z \in L : pos[t] <= pos[z] => \E i \in 1..len : s[i] = z
<1>1. /\ Ordered(L, pos) /\ AtFirst(mp, L, pos) /\ Null \notin L /\ First \in L
      /\ \A x \in L : /\ Filled(mp, x) /\ x \in Node /\ pos[x] \in Nat
                      /\ Leads(mp[x].next, L, pos, x)
                      /\ Returns(mp[x].prev, L, pos, x)
                      /\ mp[x].level \in Nat /\ mp[x].level >= 1
      /\ \A x \in L : x = First \/ \E y \in L : ParentOf(mp, L, pos, y, x)
      /\ \A x, y \in L : pos[x] = pos[y] => x = y
  BY NoFlushFacts
<1>2. \A x \in L : Leads(link[x], L, pos, x)
  BY <1>1
<1>3. Ranked(link, L, pos)
  <2>1. L \subseteq Node
    BY <1>1
  <2>2. \A x \in L : pos[x] \in Int
    BY <1>1
  <2>3. \A x \in L : link[x] # Null => link[x] \in L /\ pos[x] < pos[link[x]]
    BY <1>2 DEF Leads, Adjacent
  <2> QED BY <2>1, <2>2, <2>3 DEF Ranked
<1>4. PICK len : Way(s, link, t, len, L, pos)
  BY <1>3, RankedWalk
<1>5. /\ len \in Nat /\ DOMAIN s = 1..len /\ \A i \in 1..len : s[i] \in L
      /\ t # Null => len >= 1 /\ s[1] = t /\ link[s[len]] = Null
      /\ \A i \in 1..len - 1 : s[i + 1] = link[s[i]]
  BY ONLY <1>4, WayFacts
<1>6. ASSUME NEW z \in L, pos[t] <= pos[z] PROVE \E i \in 1..len : s[i] = z
  <2>1. PICK S : S = {i \in 1..len : pos[s[i]] <= pos[z]}
    OBVIOUS
  <2>2. t # Null /\ 1 \in S
    BY <1>1, <1>5, <1>6, <2>1
  <2>3. S \in SUBSET (0..len) /\ S # {}
    BY <2>1, <2>2
  <2>4. PICK k \in S : \A n \in S : n <= k
    BY ONLY <1>5, <2>3, GreatestNumber
  <2>5. k \in 1..len /\ s[k] \in L /\ pos[s[k]] <= pos[z]
    BY <1>5, <2>1
  <2>6. CASE k = len
    <3>1. pos[z] <= pos[s[k]]
      BY <1>2, <1>5, <2>2, <2>5, <2>6 DEF Leads
    <3> QED BY <1>1, <2>5, <3>1
  <2>7. CASE k < len
    <3>1. k \in 1..len - 1 /\ k + 1 \in 1..len /\ k + 1 \notin S
      BY <1>5, <2>4, <2>5, <2>7
    <3>2. s[k + 1] = link[s[k]] /\ s[k + 1] \in L /\ s[k + 1] # Null
      BY <1>1, <1>5, <3>1
    <3>3. Adjacent(L, pos, s[k], s[k + 1])
      BY <1>2, <2>5, <3>2 DEF Leads
    <3>4. pos[z] < pos[s[k + 1]]
      BY <1>1, <2>1, <3>1, <3>2
    <3>5. ~(pos[s[k]] < pos[z])
      BY <3>3, <3>4 DEF Adjacent
    <3> QED BY <1>1, <2>5, <3>5
  <2> QED BY <1>5, <2>5, <2>6, <2>7
<1> QED BY <1>4, <1>6

Negated(pos) == [x \in Node |-> -pos[x]]

LEMMA EnumeratesBack ==
  ASSUME NEW mp, NEW L, NEW pos, Listed(mp, L, pos, Null, Null, 0),
         NEW link \in [Ref -> Ref], link[Null] = Null, \A x \in L : link[x] = mp[x].prev,
         NEW t \in L, NEW s, s = Along(link, t)
  PROVE  \E len : /\ Way(s, link, t, len, L, Negated(pos))
                  /\ \A z \in L : pos[z] <= pos[t] => \E i \in 1..len : s[i] = z
<1>1. /\ Ordered(L, pos) /\ AtFirst(mp, L, pos) /\ Null \notin L /\ First \in L
      /\ \A x \in L : /\ Filled(mp, x) /\ x \in Node /\ pos[x] \in Nat
                      /\ Leads(mp[x].next, L, pos, x)
                      /\ Returns(mp[x].prev, L, pos, x)
                      /\ mp[x].level \in Nat /\ mp[x].level >= 1
      /\ \A x \in L : x = First \/ \E y \in L : ParentOf(mp, L, pos, y, x)
      /\ \A x, y \in L : pos[x] = pos[y] => x = y
  BY NoFlushFacts
<1>2. \A x \in L : Returns(link[x], L, pos, x)
  BY <1>1
<1>3. Ranked(link, L, Negated(pos))
  <2>1. L \subseteq Node
    BY <1>1
  <2>2. \A x \in L : Negated(pos)[x] = -pos[x] /\ pos[x] \in Int
    BY <1>1, <2>1 DEF Negated
  <2>3. \A x \in L : link[x] # Null => link[x] \in L /\ pos[link[x]] < pos[x]
    BY <1>2 DEF Returns, Adjacent
  <2>4. \A x \in L : Negated(pos)[x] \in Int
    BY <2>2
  <2>5. \A x \in L : link[x] # Null => link[x] \in L /\ Negated(pos)[x] < Negated(pos)[link[x]]
    BY <2>2, <2>3
  <2> QED BY <2>1, <2>4, <2>5 DEF Ranked
<1>4. PICK len : Way(s, link, t, len, L, Negated(pos))
  BY <1>3, RankedWalk
<1>5. /\ len \in Nat /\ DOMAIN s = 1..len /\ \A i \in 1..len : s[i] \in L
      /\ t # Null => len >= 1 /\ s[1] = t /\ link[s[len]] = Null
      /\ \A i \in 1..len - 1 : s[i + 1] = link[s[i]]
  BY ONLY <1>4, WayFacts
<1>6. ASSUME NEW z \in L, pos[z] <= pos[t] PROVE \E i \in 1..len : s[i] = z
  <2>1. PICK S : S = {i \in 1..len : pos[z] <= pos[s[i]]}
    OBVIOUS
  <2>2. t # Null /\ 1 \in S
    BY <1>1, <1>5, <1>6, <2>1
  <2>3. S \in SUBSET (0..len) /\ S # {}
    BY <2>1, <2>2
  <2>4. PICK k \in S : \A n \in S : n <= k
    BY ONLY <1>5, <2>3, GreatestNumber
  <2>5. k \in 1..len /\ s[k] \in L /\ pos[z] <= pos[s[k]]
    BY <1>5, <2>1
  <2>6. CASE k = len
    <3>1. pos[s[k]] <= pos[z]
      BY <1>2, <1>5, <2>2, <2>5, <2>6 DEF Returns
    <3> QED BY <1>1, <2>5, <3>1
  <2>7. CASE k < len
    <3>1. k \in 1..len - 1 /\ k + 1 \in 1..len /\ k + 1 \notin S
      BY <1>5, <2>4, <2>5, <2>7
    <3>2. s[k + 1] = link[s[k]] /\ s[k + 1] \in L /\ s[k + 1] # Null
      BY <1>1, <1>5, <3>1
    <3>3. Adjacent(L, pos, s[k + 1], s[k])
      BY <1>2, <2>5, <3>2 DEF Returns
    <3>4. pos[s[k + 1]] < pos[z]
      BY <1>1, <2>1, <3>1, <3>2
    <3>5. ~(pos[z] < pos[s[k]])
      BY <3>3, <3>4 DEF Adjacent
    <3> QED BY <1>1, <2>5, <3>5
  <2> QED BY <1>5, <2>5, <2>6, <2>7
<1> QED BY <1>4, <1>6

LEMMA MappingLinks ==
  ASSUME NEW mp \in [Node -> Mappings], NEW x \in Node
  PROVE  mp[x].next \in Ref /\ mp[x].prev \in Ref
<1>1. mp[x] \in Mappings
  OBVIOUS
<1> QED BY <1>1 DEF Mappings, Ref

LEMMA ListLinks ==
  ASSUME map \in [Node -> Mappings]
  PROVE  /\ Forward \in [Ref -> Ref] /\ Forward[Null] = Null
         /\ Backward \in [Ref -> Ref] /\ Backward[Null] = Null
         /\ \A x \in Node : Forward[x] = map[x].next /\ Backward[x] = map[x].prev
<1>1. Null \in Ref /\ \A x \in Node : x \in Ref /\ x # Null
  BY NodeCount DEF Ref
<1>2. /\ Forward = [n \in Ref |-> IF n = Null THEN Null ELSE map[n].next]
      /\ Backward = [n \in Ref |-> IF n = Null THEN Null ELSE map[n].prev]
  BY DEF Forward, Backward, Ref
<1>3. \A x \in Ref : x = Null \/ x \in Node
  BY DEF Ref
<1>4. \A x \in Ref : /\ (IF x = Null THEN Null ELSE map[x].next) \in Ref
                     /\ (IF x = Null THEN Null ELSE map[x].prev) \in Ref
  BY <1>1, <1>3, MappingLinks
<1>5. Forward \in [Ref -> Ref] /\ Backward \in [Ref -> Ref]
  BY <1>2, <1>4
<1> QED BY <1>1, <1>2, <1>5

\* flush would free s with t: so Derives says.
LEMMA SegmentDerives ==
  ASSUME map \in [Node -> Mappings], NEW L, NEW pos, Listed(map, L, pos, Null, Null, 0),
         NEW t \in L, NEW s \in L, InSegment(map, L, pos, t, map[t].level, s)
  PROVE  Derives(t, s)
<1>1. PICK l : l = Along(Forward, t)
  OBVIOUS
<1>2. L \subseteq Node /\ Null \notin L /\ \A x \in L : pos[x] \in Nat
  BY NoFlushFacts
<1>3. PICK link : link = Forward
  OBVIOUS
<1>4. link \in [Ref -> Ref] /\ link[Null] = Null /\ \A x \in L : link[x] = map[x].next
  BY <1>2, <1>3, ListLinks
<1>5. PICK len : /\ Way(l, link, t, len, L, pos)
                 /\ \A z \in L : pos[t] <= pos[z] => \E i \in 1..len : l[i] = z
  BY <1>1, <1>3, <1>4, Enumerates
<1>6. pos[t] <= pos[s] /\ \A y \in L : pos[t] < pos[y] /\ pos[y] <= pos[s]
                                         => map[t].level < map[y].level
  BY DEF InSegment
<1>7. PICK k \in 1..len : l[k] = s
  BY <1>5, <1>6
<1>8. /\ len \in Nat /\ DOMAIN l = 1..len /\ \A i \in 1..len : l[i] \in L
      /\ t # Null => len >= 1 /\ l[1] = t
      /\ \A i, j \in 1..len : i < j => pos[l[i]] < pos[l[j]]
  BY ONLY <1>5, WayFacts
<1>9. ASSUME NEW j \in 2..k PROVE map[l[j]].level > map[t].level
  <2>1. j \in 1..len /\ 1 \in 1..len /\ 1 < j /\ (j = k \/ j < k)
    BY <1>8
  <2>2. l[1] = t /\ l[j] \in L
    BY <1>2, <1>8, <2>1
  <2>3. pos[t] < pos[l[j]] /\ pos[l[j]] <= pos[s]
    BY <1>2, <1>7, <1>8, <2>1, <2>2
  <2>4. map[t].level < map[l[j]].level
    BY <1>6, <2>2, <2>3
  <2> QED BY <2>4
<1> QED BY <1>1, <1>7, <1>8, <1>9 DEF Derives

\* Of two neighbours in the list the second is at most one level below.
LEMMA NeighbourLevels ==
  ASSUME NEW mp, NEW L, NEW pos, Listed(mp, L, pos, Null, Null, 0),
         NEW x \in L, NEW y \in L, Adjacent(L, pos, x, y)
  PROVE  mp[y].level \in 2..(mp[x].level + 1)
<1>1. /\ AtFirst(mp, L, pos)
      /\ \A z \in L : pos[z] \in Nat /\ mp[z].level \in Nat /\ mp[z].level >= 1
      /\ \A z \in L : z = First \/ \E m \in L : ParentOf(mp, L, pos, m, z)
      /\ \A z, w \in L : pos[z] = pos[w] => z = w
  BY NoFlushFacts
<1>2. pos[x] < pos[y]
  BY DEF Adjacent
<1>3. y # First
  BY <1>1, <1>2 DEF AtFirst
<1>4. PICK m \in L : ParentOf(mp, L, pos, m, y)
  BY <1>1, <1>3
<1>5. /\ pos[m] < pos[y] /\ mp[y].level = mp[m].level + 1
      /\ \A z \in L : pos[m] < pos[z] /\ pos[z] < pos[y] => mp[y].level <= mp[z].level
  BY <1>4 DEF ParentOf
<1>6. ~(pos[x] < pos[m])
  BY <1>5 DEF Adjacent
<1>7. m = x \/ pos[m] < pos[x]
  BY <1>1, <1>6
<1>8. mp[y].level <= mp[x].level + 1
  BY <1>1, <1>2, <1>5, <1>7
<1> QED BY <1>1, <1>5, <1>8

LEMMA DepthFirstNow ==
  ASSUME map \in [Node -> Mappings], NEW pos, Listed(map, Live, pos, Null, Null, 0)
  PROVE  DepthFirst
<1>1. PICK L : L = Live
  OBVIOUS
<1>2. /\ AtFirst(map, L, pos) /\ Null \notin L /\ First \in L
      /\ \A x \in L : /\ x \in Node /\ pos[x] \in Nat
                      /\ Leads(map[x].next, L, pos, x)
                      /\ Returns(map[x].prev, L, pos, x)
      /\ \A x, y \in L : pos[x] = pos[y] => x = y
  BY <1>1, NoFlushFacts
<1>3. PICK link : link = Forward
  OBVIOUS
<1>4. /\ link \in [Ref -> Ref] /\ link[Null] = Null
      /\ \A x \in L : link[x] = map[x].next
  BY <1>2, <1>3, ListLinks
<1>5. PICK l : l = DBList
  OBVIOUS
<1>6. l = Along(link, First)
  BY <1>3, <1>5 DEF DBList
<1>7. PICK len : /\ Way(l, link, First, len, L, pos)
                 /\ \A z \in L : pos[First] <= pos[z] => \E i \in 1..len : l[i] = z
  BY <1>1, <1>2, <1>4, <1>6, Enumerates
<1>8. /\ len \in Nat /\ DOMAIN l = 1..len /\ \A i \in 1..len : l[i] \in L
      /\ First # Null => len >= 1 /\ l[1] = First /\ link[l[len]] = Null
      /\ \A i \in 1..len - 1 : l[i + 1] = link[l[i]]
      /\ \A i, j \in 1..len : i < j => pos[l[i]] < pos[l[j]]
  BY ONLY <1>7, WayFacts
<1>9. l \in [1..len -> L]
  BY <1>7 DEF Way
<1>10. Len(l) = len
  BY <1>8, <1>9
<1>11. \A z \in L : \E i \in 1..len : l[i] = z
  BY <1>2, <1>7 DEF AtFirst
<1>12. {l[i] : i \in DOMAIN l} = L
  BY <1>8, <1>11
<1>13. Cardinality(L) = len
  <2>1. \A i, j \in 1..len : l[i] = l[j] => i = j
    <3>1. SUFFICES ASSUME NEW i \in 1..len, NEW j \in 1..len, l[i] = l[j], i # j PROVE FALSE
      OBVIOUS
    <3>2. i < j \/ j < i
      BY <1>8, <3>1
    <3>3. pos[l[i]] < pos[l[j]] \/ pos[l[j]] < pos[l[i]]
      BY <1>8, <3>2
    <3> QED BY <1>2, <1>8, <3>1, <3>3
  <2>2. l \in Bijection(1..len, L)
    BY <1>9, <1>11, <2>1 DEF Bijection, Injection, Surjection, IsInjective
  <2>3. ExistsBijection(1..len, L)
    BY <2>2 DEF ExistsBijection
  <2> QED BY ONLY <1>8, <2>3, FS_CountingElements
<1>14. map[l[Len(l)]].next = Null
  <2>1. len \in 1..len /\ l[len] \in L
    BY <1>2, <1>8
  <2> QED BY <1>2, <1>4, <1>8, <1>10, <2>1
<1>15. map[First].prev = Null
  <2>1. Returns(map[First].prev, L, pos, First) /\ \A z \in L : pos[First] <= pos[z]
    BY <1>2 DEF AtFirst
  <2> QED BY <1>2, <2>1 DEF Returns, Adjacent
<1>16. ASSUME NEW i \in 2..Len(l)
       PROVE  /\ map[l[i]].prev = l[i - 1]
              /\ map[l[i]].level \in 2..(map[l[i - 1]].level + 1)
  <2>1. i - 1 \in 1..len - 1 /\ i \in 1..len /\ i - 1 \in 1..len /\ (i - 1) + 1 = i
    BY <1>8, <1>10
  <2>2. PICK x, y : x = l[i - 1] /\ y = l[i]
    OBVIOUS
  <2>3. x \in L /\ y \in L /\ y = link[x] /\ y # Null
    BY <1>2, <1>8, <2>1, <2>2
  <2>4. Adjacent(L, pos, x, y)
    BY <1>2, <1>4, <2>3 DEF Leads
  <2>5. map[y].level \in 2..(map[x].level + 1)
    BY <1>1, <2>3, <2>4, NeighbourLevels
  <2>6. map[y].prev = x
    <3>1. PICK c : c = map[y].prev
      OBVIOUS
    <3>2. Returns(c, L, pos, y)
      BY <1>2, <2>3, <3>1
    <3>3. c # Null
      BY <1>2, <2>3, <2>4, <3>2 DEF Returns, Adjacent
    <3>4. Adjacent(L, pos, c, y)
      BY <3>2, <3>3 DEF Returns
    <3>5. pos[c] = pos[x]
      BY <1>2, <2>4, <3>4 DEF Adjacent
    <3>6. c \in L
      BY <3>4 DEF Adjacent
    <3> QED BY <1>2, <2>3, <3>1, <3>5, <3>6
  <2> QED BY <2>2, <2>5, <2>6
<1> QED BY <1>1, <1>5, <1>10, <1>12, <1>13, <1>14, <1>15, <1>16 DEF DepthFirst

\* The parent that Parent finds.
LEMMA ParentFound ==
  ASSUME map \in [Node -> Mappings], NEW L, NEW pos, Listed(map, L, pos, Null, Null, 0),
         NEW n \in L, NEW m \in L, ParentOf(map, L, pos, m, n)
  PROVE  Parent(n) = m
<1>1. /\ Null \notin L
      /\ \A x \in L : /\ x \in Node /\ pos[x] \in Nat
                      /\ map[x].level \in Nat /\ map[x].level >= 1
      /\ \A x, y \in L : pos[x] = pos[y] => x = y
  BY NoFlushFacts
<1>2. PICK link : link = Backward
  OBVIOUS
<1>3. link \in [Ref -> Ref] /\ link[Null] = Null /\ \A x \in L : link[x] = map[x].prev
  BY <1>1, <1>2, ListLinks
<1>4. PICK s : s = Along(link, n)
  OBVIOUS
<1>5. PICK len : /\ Way(s, link, n, len, L, Negated(pos))
                 /\ \A z \in L : pos[z] <= pos[n] => \E i \in 1..len : s[i] = z
  BY <1>3, <1>4, EnumeratesBack
<1>6. /\ len \in Nat /\ DOMAIN s = 1..len /\ \A i \in 1..len : s[i] \in L
      /\ n # Null => len >= 1 /\ s[1] = n
      /\ \A i, j \in 1..len : i < j => Negated(pos)[s[i]] < Negated(pos)[s[j]]
  BY ONLY <1>5, WayFacts
<1>7. \A i, j \in 1..len : i < j => pos[s[j]] < pos[s[i]]
  <2>1. \A x \in L : Negated(pos)[x] = -pos[x]
    BY <1>1 DEF Negated
  <2> QED BY <1>1, <1>6, <2>1
<1>8. /\ pos[m] < pos[n] /\ map[n].level = map[m].level + 1
      /\ \A y \in L : pos[m] < pos[y] /\ pos[y] < pos[n] => map[n].level <= map[y].level
  BY DEF ParentOf
<1>9. PICK k \in 1..len : s[k] = m
  BY <1>1, <1>5, <1>8
<1>10. PICK hits : hits = {i \in DOMAIN s : map[s[i]].level \in 0..(map[n].level - 1)}
  OBVIOUS
<1>11. k \in hits
  BY <1>1, <1>6, <1>8, <1>9, <1>10
<1>12. ASSUME NEW j \in hits PROVE k <= j
  <2>1. SUFFICES ASSUME j < k PROVE FALSE
    BY <1>6, <1>10
  <2>2. j \in 1..len /\ s[j] \in L /\ map[s[j]].level <= map[n].level - 1
    BY <1>6, <1>10
  <2>3. pos[m] < pos[s[j]]
    BY <1>7, <1>9, <2>1, <2>2
  <2>4. pos[s[j]] < pos[n]
    <3>1. j # 1
      BY <1>1, <1>6, <2>2
    <3>2. 1 \in 1..len /\ 1 < j
      BY <1>6, <2>2, <3>1
    <3>3. pos[s[j]] < pos[s[1]]
      BY <1>7, <2>2, <3>2
    <3> QED BY <1>1, <1>6, <3>3
  <2>5. map[n].level <= map[s[j]].level
    BY <1>8, <2>2, <2>3, <2>4
  <2> QED BY <1>1, <2>2, <2>5
<1>13. PICK i : i = CHOOSE i0 \in hits : \A j \in hits : i0 <= j
  OBVIOUS
<1>14. i \in hits /\ \A j \in hits : i <= j
  BY <1>11, <1>12, <1>13
<1>15. i = k
  BY <1>6, <1>10, <1>11, <1>12, <1>14
<1>16. FirstAt(s, 0..(map[n].level - 1)) = s[i]
  BY <1>10, <1>11, <1>13 DEF FirstAt
<1> QED BY <1>2, <1>4, <1>9, <1>15, <1>16 DEF Parent

LEMMA FramesWithin ==
  ASSUME NEW n, NEW m, map[n].vfp \in Fpages, map[m].vfp \in Fpages,
         map[n].phys \in Nat, map[m].phys \in Nat,
         map[m].phys <= map[n].phys, Limit(map, n) <= Limit(map, m)
  PROVE  Frames(n) \subseteq Frames(m)
<1>1. PICK a, b, v, w : /\ a = map[n].phys /\ b = map[m].phys
                        /\ v = 2^map[n].vfp.size /\ w = 2^map[m].vfp.size
  OBVIOUS
<1>2. a \in Nat /\ b \in Nat /\ b <= a /\ v \in Nat \ {0} /\ w \in Nat \ {0}
  BY <1>1, FpageFacts
<1>3. a + v <= b + w
  BY <1>1 DEF Limit
<1>4. Frames(n) = {a + i : i \in 0..(v - 1)} /\ Frames(m) = {b + i : i \in 0..(w - 1)}
  BY <1>1 DEF Frames
<1>5. ASSUME NEW i \in 0..(v - 1) PROVE \E j \in 0..(w - 1) : a + i = b + j
  <2>1. (a - b) + i \in 0..(w - 1) /\ a + i = b + ((a - b) + i)
    BY <1>2, <1>3
  <2> QED BY <2>1
<1> QED BY <1>4, <1>5

LEMMA ConfinedNow ==
  ASSUME map \in [Node -> Mappings], NEW pos, Listed(map, Live, pos, Null, Null, 0)
  PROVE  Confined
<1>1. PICK L : L = Live
  OBVIOUS
<1>2. /\ \A x \in L : Filled(map, x)
      /\ \A x \in L : x = First \/ \E y \in L : ParentOf(map, L, pos, y, x)
  BY <1>1, NoFlushFacts
<1>3. ASSUME NEW n \in L \ {First}, NEW m, m = Parent(n)
      PROVE  /\ m \in L /\ map[m].level = map[n].level - 1
             /\ map[m].space # map[n].space
             /\ Frames(n) \subseteq Frames(m)
             /\ map[n].perms # {} /\ map[n].perms \subseteq map[m].perms
  <2>1. PICK y \in L : ParentOf(map, L, pos, y, n)
    BY <1>2
  <2>2. m = y
    BY <1>1, <1>3, <2>1, ParentFound
  <2>3. map[n].level = map[m].level + 1 /\ Confines(map, m, n)
    BY <2>1, <2>2 DEF ParentOf
  <2>4. /\ map[n].vfp \in Fpages /\ map[m].vfp \in Fpages
        /\ map[n].phys \in Nat /\ map[m].phys \in Nat /\ map[m].level \in Nat
    BY <1>2, <2>1, <2>2 DEF Filled
  <2>5. Frames(n) \subseteq Frames(m)
    BY <2>3, <2>4, FramesWithin DEF Confines
  <2> QED BY <2>1, <2>2, <2>3, <2>4, <2>5 DEF Confines
<1> QED BY <1>1, <1>3 DEF Confined

(***************************************************************************)
(* The invariant, of the mappings mp, the trees t and the job jb: there    *)
(* are an order pos of the list, and for each space a set of mappings that *)
(* its search tree has.                                                    *)
(***************************************************************************)
LiveIn(mp) == {n \in Node : mp[n] # Unused}

Grown(mp, t, T) ==
  /\ T \in [Space -> SUBSET Node]
  /\ \A sp \in Space : /\ Apart(mp, T[sp])
                       /\ \A x \in T[sp] : mp[x].space = sp
                       /\ \E lo, hi : Bst(t, sp, T[sp], lo, hi, Starts(mp))

\* The request that a job has still to serve.
Asked(mp, L, q) ==
  /\ q.source \in L /\ q.space \in Space /\ mp[q.source].space # q.space
  /\ q.vfp \in Fpages /\ q.vfp.size <= mp[q.source].vfp.size
  /\ q.perms # {} /\ q.perms \subseteq mp[q.source].perms
  /\ q.phys \in Page /\ mp[q.source].phys <= q.phys
  /\ q.phys + 2^q.vfp.size <= Limit(mp, q.source)

\* What is mapped where the request is for: nothing, small mappings, or m.
Clear(mp, T, q)   == \A x \in T[q.space] : ~Meet(mp[x].vfp, q.vfp)
Small(mp, T, q)   == \A x \in T[q.space] : Meet(mp[x].vfp, q.vfp)
                                              => mp[x].vfp.size < q.vfp.size
Only(mp, T, q, m) == \A x \in T[q.space] : Meet(mp[x].vfp, q.vfp) => x = m

\* What a flush is for.
FlushedFor(mp, L, pos, T, m, l, then, q) ==
  \/ /\ then \in {"look", "add"}
     /\ Asked(mp, L, q) /\ ~InSegment(mp, L, pos, m, l, q.source)
     /\ then = "look" => Small(mp, T, q)
     /\ then = "add" => Only(mp, T, q, m)
  \/ then = "exit" /\ \E sp \in Space \ {Sigma0} : q = [space |-> sp]

ToLook(q) == [do |-> "look", req |-> q]
Flushes(m, p, l, then, q) ==
  [do |-> "flush", m |-> m, p |-> p, l |-> l, then |-> then, req |-> q]

\* u is the tree when m is the root of the one of sp.
Rooted(t, u, sp, m) ==
  /\ u \in Trees /\ u.mem[sp] = m /\ u.left = t.left /\ u.right = t.right
  /\ \A x \in Space \ {sp} : u.mem[x] = t.mem[x]

Waits(mp, t, jb, L, pos, T) ==
  /\ Listed(mp, L, pos, Null, Null, 0)
  /\ \/ jb = NoJob /\ Grown(mp, t, T)
     \/ /\ Grown(mp, t, T)
        /\ \E q : jb = ToAdd(q) /\ Asked(mp, L, q) /\ Clear(mp, T, q)
     \/ /\ Grown(mp, t, T)
        /\ \E q : jb = ToLook(q) /\ Asked(mp, L, q) /\ Small(mp, T, q)
     \/ Grown(mp, t, T) /\ \E sp \in Space \ {Sigma0} : jb = ToExit(sp)
     \/ \E sp \in Space \ {Sigma0} : \E m, u :
          /\ jb = ToRotate(sp, m) /\ m \in T[sp] /\ Rooted(t, u, sp, m)
          /\ Grown(mp, u, T)

FlushGoes(mp, t, jb, L, pos, T) ==
  /\ Grown(mp, t, T)
  /\ \E m, p, l, then, q :
       /\ jb = Flushes(m, p, l, then, q) /\ m # Null
       /\ Listed(mp, L, pos, p, m, l)
       /\ FlushedFor(mp, L, pos, T, m, l, then, q)

Sound(mp, t, jb) ==
  /\ mp \in [Node -> Mappings] /\ t \in Trees
  /\ \E pos, T : \/ Waits(mp, t, jb, LiveIn(mp), pos, T)
                 \/ FlushGoes(mp, t, jb, LiveIn(mp), pos, T)

MapDBInv == Sound(map, tree, job)

\* The jobs differ in what there is to do.
LEMMA JobKinds ==
  /\ NoJob.do = "nothing"
  /\ \A q : ToAdd(q).do = "add" /\ ToLook(q).do = "look" /\ ToExit(q).do = "exit"
  /\ \A q : ToAdd(q).req = q /\ ToLook(q).req = q /\ ToExit(q).space = q
  /\ \A sp, m : /\ ToRotate(sp, m).do = "rotate" /\ ToRotate(sp, m).space = sp
                /\ ToRotate(sp, m).m = m
  /\ \A m, p, l, then, q :
       /\ Flushes(m, p, l, then, q).do = "flush" /\ Flushes(m, p, l, then, q).m = m
       /\ Flushes(m, p, l, then, q).p = p /\ Flushes(m, p, l, then, q).l = l
       /\ Flushes(m, p, l, then, q).then = then /\ Flushes(m, p, l, then, q).req = q
BY DEF NoJob, ToAdd, ToLook, ToExit, ToRotate, Flushes

LEMMA WaitsForWhat ==
  ASSUME NEW mp, NEW t, NEW jb, NEW L, NEW pos, NEW T, Waits(mp, t, jb, L, pos, T)
  PROVE  /\ Listed(mp, L, pos, Null, Null, 0)
         /\ jb.do \in {"nothing", "add", "look", "exit", "rotate"}
         /\ jb.do = "nothing" => jb = NoJob
         /\ jb.do # "rotate" => Grown(mp, t, T)
         /\ jb.do = "add" => Asked(mp, L, jb.req) /\ Clear(mp, T, jb.req)
         /\ jb.do = "look" => Asked(mp, L, jb.req) /\ Small(mp, T, jb.req)
         /\ jb.do = "exit" => jb.space \in Space \ {Sigma0}
         /\ jb.do = "rotate" => /\ jb.space \in Space \ {Sigma0}
                                /\ jb = ToRotate(jb.space, jb.m) /\ jb.m \in T[jb.space]
                                /\ \E u : Rooted(t, u, jb.space, jb.m) /\ Grown(mp, u, T)
<1>1. CASE jb = NoJob /\ Grown(mp, t, T)
  BY <1>1, JobKinds DEF Waits
<1>2. ASSUME NEW q, Grown(mp, t, T), jb = ToAdd(q), Asked(mp, L, q), Clear(mp, T, q)
      PROVE  /\ jb.do = "add" /\ Asked(mp, L, jb.req) /\ Clear(mp, T, jb.req)
  BY <1>2, JobKinds
<1>3. ASSUME NEW q, Grown(mp, t, T), jb = ToLook(q), Asked(mp, L, q), Small(mp, T, q)
      PROVE  /\ jb.do = "look" /\ Asked(mp, L, jb.req) /\ Small(mp, T, jb.req)
  BY <1>3, JobKinds
<1>4. ASSUME NEW sp \in Space \ {Sigma0}, jb = ToExit(sp)
      PROVE  jb.do = "exit" /\ jb.space \in Space \ {Sigma0}
  BY <1>4, JobKinds
<1>5. ASSUME NEW sp \in Space \ {Sigma0}, NEW m, NEW u, jb = ToRotate(sp, m), m \in T[sp],
             Rooted(t, u, sp, m), Grown(mp, u, T)
      PROVE  /\ jb.do = "rotate" /\ jb.space \in Space \ {Sigma0}
             /\ jb = ToRotate(jb.space, jb.m) /\ jb.m \in T[jb.space]
             /\ \E v : Rooted(t, v, jb.space, jb.m) /\ Grown(mp, v, T)
  BY <1>5, JobKinds
<1> QED BY <1>1, <1>2, <1>3, <1>4, <1>5 DEF Waits

LEMMA FlushForWhat ==
  ASSUME NEW mp, NEW t, NEW jb, NEW L, NEW pos, NEW T, FlushGoes(mp, t, jb, L, pos, T)
  PROVE  /\ Grown(mp, t, T) /\ jb.do = "flush" /\ jb.m # Null
         /\ jb = Flushes(jb.m, jb.p, jb.l, jb.then, jb.req)
         /\ Listed(mp, L, pos, jb.p, jb.m, jb.l)
         /\ FlushedFor(mp, L, pos, T, jb.m, jb.l, jb.then, jb.req)
<1>1. PICK m, p, l, then, q :
        /\ jb = Flushes(m, p, l, then, q) /\ m # Null
        /\ Listed(mp, L, pos, p, m, l)
        /\ FlushedFor(mp, L, pos, T, m, l, then, q)
  BY DEF FlushGoes
<1>2. jb.do = "flush" /\ jb.m = m /\ jb.p = p /\ jb.l = l /\ jb.then = then /\ jb.req = q
  BY <1>1, JobKinds
<1>3. Grown(mp, t, T)
  BY DEF FlushGoes
<1> QED BY <1>1, <1>2, <1>3

LEMMA GrownFacts ==
  ASSUME NEW mp, NEW t, NEW T, Grown(mp, t, T), NEW sp \in Space
  PROVE  /\ Apart(mp, T[sp]) /\ T[sp] \in SUBSET Node
         /\ \A x \in T[sp] : /\ mp[x].space = sp /\ x \in LiveIn(mp) /\ x \in Node
                             /\ mp[x].vfp \in Fpages
         /\ \E lo, hi : Bst(t, sp, T[sp], lo, hi, Starts(mp))
<1>1. Null \notin Space /\ Unused.space = Null
  BY MapDBAssumption DEF Unused
<1>2. /\ Apart(mp, T[sp]) /\ \A x \in T[sp] : mp[x].space = sp
      /\ \E lo, hi : Bst(t, sp, T[sp], lo, hi, Starts(mp))
  BY DEF Grown
<1>3. T[sp] \in SUBSET Node /\ \A x \in T[sp] : mp[x].vfp \in Fpages
  BY <1>2 DEF Apart
<1>4. \A x \in T[sp] : x \in LiveIn(mp)
  BY <1>1, <1>2, <1>3 DEF LiveIn
<1> QED BY <1>2, <1>3, <1>4

\* findMapping finds what is in the way.
LEMMA Found ==
  ASSUME tree \in Trees, NEW T, Grown(map, tree, T), NEW sp \in Space, NEW f \in Fpages,
         NEW c, c = findMapping(tree, sp, f)
  PROVE  \/ c = Null /\ \A x \in T[sp] : ~Meet(map[x].vfp, f)
         \/ c # Null /\ c \in T[sp] /\ c \in LiveIn(map) /\ map[c].space = sp /\ Meet(map[c].vfp, f)
<1>1. PICK lo, hi : Bst(tree, sp, T[sp], lo, hi, Starts(map))
  BY GrownFacts
<1>2. Apart(map, T[sp]) /\ Null \notin Node
  BY GrownFacts, NodeCount
<1>3. \/ c = Null /\ \A x \in T[sp] : ~Meet(map[x].vfp, f)
      \/ c \in T[sp] /\ Meet(map[c].vfp, f)
  BY <1>1, <1>2, FoundFacts
<1>4. \A x \in T[sp] : x \in LiveIn(map) /\ map[x].space = sp /\ x # Null
  BY <1>2, GrownFacts
<1> QED BY <1>3, <1>4

-----------------------------------------------------------------------------
(* map2.                                                                   *)

\* The fpages, trimmed to the same size.
LEMMA Trimmed ==
  ASSUME NEW f \in Fpages, NEW g \in Fpages, NEW b \in Page,
         NEW sendfp, sendfp = (IF f.size > g.size THEN Trim(f, b, g) ELSE f),
         NEW recvfp, recvfp = (IF f.size < g.size THEN Trim(g, b, f) ELSE g)
  PROVE  sendfp \in Fpages /\ recvfp \in Fpages /\ sendfp.size = recvfp.size
<1>1. f.size \in Nat /\ g.size \in Nat
  BY FpageFacts, BitsDoubling
<1>2. CASE f.size > g.size
  <2>1. g.size < f.size
    BY <1>1, <1>2
  <2>2. Trim(f, b, g) \in Fpages /\ Trim(f, b, g).size = g.size
    BY <2>1, TrimFits
  <2> QED BY <1>1, <1>2, <2>2
<1>3. CASE f.size < g.size
  <2>1. Trim(g, b, f) \in Fpages /\ Trim(g, b, f).size = f.size
    BY <1>3, TrimFits
  <2> QED BY <1>1, <1>3, <2>1
<1>4. CASE f.size = g.size
  BY <1>1, <1>4
<1> QED BY <1>1, <1>2, <1>3, <1>4

\* The memory of a part of a mapping.
LEMMA PartOf ==
  ASSUME NEW f \in Fpages, NEW g \in Fpages, Within(f, g), f.size <= g.size,
         NEW a \in Nat, a + 2^g.size <= Top,
         NEW v, v = (a + Start(f) - Start(g)) % 2^Bits
  PROVE  v \in Page /\ a <= v /\ v + 2^f.size <= a + 2^g.size
<1>1. PICK w \in Nat \ {0} : /\ w = 2^f.size /\ f.base \in Nat
                             /\ Start(f) = f.base /\ End(f) = f.base + w - 1
  BY FpageFacts
<1>2. PICK x \in Nat \ {0} : /\ x = 2^g.size /\ g.base \in Nat
                             /\ Start(g) = g.base /\ End(g) = g.base + x - 1
  BY FpageFacts
<1>3. g.base <= f.base /\ f.base + w <= g.base + x
  BY <1>1, <1>2 DEF Within
<1>4. PICK n : n = 2^Bits
  OBVIOUS
<1>5. n \in Nat \ {0} /\ a + x <= n
  BY <1>2, <1>4, TopNumber DEF Top
<1>6. PICK z : z = a + f.base - g.base
  OBVIOUS
<1>7. z \in 0..n - 1 /\ a <= z /\ z + w <= a + x
  BY <1>1, <1>2, <1>3, <1>5, <1>6
<1>8. z % n = z
  BY <1>5, <1>7
<1>9. v = z
  BY <1>1, <1>2, <1>4, <1>6, <1>8
<1> QED BY <1>1, <1>2, <1>4, <1>7, <1>9 DEF Page

LEMMA AskedFacts ==
  ASSUME NEW mp, NEW L, NEW q, Asked(mp, L, q)
  PROVE  /\ q.source \in L /\ q.space \in Space /\ mp[q.source].space # q.space
         /\ q.vfp \in Fpages /\ q.vfp.size <= mp[q.source].vfp.size
         /\ q.perms # {} /\ q.perms \subseteq mp[q.source].perms
         /\ q.phys \in Page /\ mp[q.source].phys <= q.phys
         /\ q.phys + 2^q.vfp.size <= Limit(mp, q.source)
BY DEF Asked

\* The request that map2 makes of a mapping that is found.
LEMMA MapAsks ==
  ASSUME tree \in Trees, NEW T, Grown(map, tree, T), NEW pos,
         Listed(map, LiveIn(map), pos, Null, Null, 0),
         NEW ss \in Space, NEW rs \in Space, ss # rs, NEW sfp \in Sends, NEW gives \in Gives,
         NEW b \in Bases, NEW acc \in Accepts,
         NEW sendfp, sendfp = (IF sfp.size > acc.size THEN Trim(sfp, b, acc) ELSE sfp),
         NEW s, s = findMapping(tree, ss, sendfp), Backed(s, sendfp.size),
         NEW q, q = Requested(s, sfp, gives, b, rs, acc), q.perms # {}
  PROVE  Asked(map, LiveIn(map), q) /\ q.source = s
<1>1. sfp \in Fpages /\ acc \in Fpages /\ b \in Page
  BY MapDBAssumption
<1>2. PICK recvfp : recvfp = (IF sfp.size < acc.size THEN Trim(acc, b, sfp) ELSE acc)
  OBVIOUS
<1>3. sendfp \in Fpages /\ recvfp \in Fpages /\ sendfp.size = recvfp.size
  BY <1>1, <1>2, Trimmed
<1>4. s # Null /\ map[s].vfp.size >= sendfp.size
  BY DEF Backed
<1>5. s \in LiveIn(map) /\ map[s].space = ss /\ Meet(map[s].vfp, sendfp) /\ s \in T[ss]
  BY <1>3, <1>4, Found
<1>6. /\ q.source = s /\ q.space = rs /\ q.vfp = recvfp /\ q.perms = gives \cap map[s].perms
      /\ q.phys = (map[s].phys + Start(sendfp) - Start(map[s].vfp)) % 2^Bits
  BY <1>2 DEF Requested
<1>7. Filled(map, s)
  BY <1>5, NoFlushFacts
<1>8. PICK g, a : g = map[s].vfp /\ a = map[s].phys
  OBVIOUS
<1>9. g \in Fpages /\ a \in Nat /\ a + 2^g.size <= Top /\ Limit(map, s) = a + 2^g.size
  BY <1>7, <1>8 DEF Filled, Limit
<1>10. g.size \in Nat /\ sendfp.size \in Nat
  BY <1>3, <1>9, FpageFacts, BitsDoubling
<1>11. sendfp.size <= g.size
  BY <1>4, <1>8, <1>10
<1>12. Meet(sendfp, g)
  BY <1>5, <1>8 DEF Meet
<1>13. Within(sendfp, g)
  BY <1>3, <1>9, <1>11, <1>12, FpagesNest
<1>14. q.phys = (a + Start(sendfp) - Start(g)) % 2^Bits
  BY <1>6, <1>8
<1>15. q.phys \in Page /\ a <= q.phys /\ q.phys + 2^sendfp.size <= a + 2^g.size
  BY <1>3, <1>9, <1>11, <1>13, <1>14, PartOf
<1>16. q.phys + 2^q.vfp.size <= Limit(map, q.source)
  BY <1>3, <1>6, <1>9, <1>15
<1>17. q.vfp.size <= map[q.source].vfp.size
  BY <1>3, <1>6, <1>8, <1>11
<1> QED BY <1>3, <1>5, <1>6, <1>8, <1>15, <1>16, <1>17 DEF Asked

\* Two fpages that meet a third that is no larger than one of them meet.
LEMMA MeetThrough ==
  ASSUME NEW f \in Fpages, NEW g \in Fpages, NEW h \in Fpages, h.size <= g.size,
         Meet(f, h), Meet(g, h)
  PROVE  Meet(f, g)
<1>1. Meet(h, g)
  BY DEF Meet
<1>2. Within(h, g)
  BY <1>1, FpagesNest
<1> QED BY <1>2, FpageNumbers DEF Meet, Within

\* If one as large as the request is in the way, then it is the only one.
LEMMA OnlyOne ==
  ASSUME NEW mp, NEW t, NEW T, Grown(mp, t, T), NEW q, q.space \in Space, q.vfp \in Fpages,
         NEW m \in T[q.space], Meet(mp[m].vfp, q.vfp), mp[m].vfp.size >= q.vfp.size
  PROVE  Only(mp, T, q, m)
<1>1. Apart(mp, T[q.space])
  BY GrownFacts
<1>2. mp[m].vfp \in Fpages /\ \A x \in T[q.space] : mp[x].vfp \in Fpages
  BY <1>1 DEF Apart
<1>3. mp[m].vfp.size \in Nat /\ q.vfp.size \in Nat
  BY <1>2, FpageFacts, BitsDoubling
<1>4. q.vfp.size <= mp[m].vfp.size
  BY <1>3
<1>5. ASSUME NEW x \in T[q.space], Meet(mp[x].vfp, q.vfp)
      PROVE  x = m
  <2>1. Meet(mp[x].vfp, mp[m].vfp)
    BY <1>2, <1>4, <1>5, MeetThrough
  <2> QED BY <1>1, <2>1 DEF Apart
<1> QED BY <1>5 DEF Only

\* If a smaller one is in the way, then all are smaller.
LEMMA AllSmall ==
  ASSUME NEW mp, NEW t, NEW T, Grown(mp, t, T), NEW q, q.space \in Space, q.vfp \in Fpages,
         NEW m \in T[q.space], Meet(mp[m].vfp, q.vfp), mp[m].vfp.size < q.vfp.size
  PROVE  Small(mp, T, q)
<1>1. \A x \in T[q.space] : mp[x].vfp \in Fpages
  BY GrownFacts
<1>2. \A x \in T[q.space] : mp[x].vfp.size \in Nat
  BY <1>1, FpageFacts, BitsDoubling
<1>3. q.vfp.size \in Nat
  BY FpageFacts, BitsDoubling
<1>4. ASSUME NEW x \in T[q.space], Meet(mp[x].vfp, q.vfp), ~(mp[x].vfp.size < q.vfp.size)
      PROVE  FALSE
  <2>1. mp[x].vfp.size >= q.vfp.size
    BY <1>2, <1>3, <1>4
  <2>2. Only(mp, T, q, x)
    BY <1>4, <2>1, OnlyOne
  <2>3. m = x
    BY <2>2 DEF Only
  <2> QED BY <1>4, <2>3
<1> QED BY <1>4 DEF Small

\* What is in the way of a request is not the first mapping, if it is smaller
\* than the request or the source was not derived from it.
LEMMA FlushStarts ==
  ASSUME NEW mp, NEW t, NEW T, Grown(mp, t, T), NEW pos,
         Listed(mp, LiveIn(mp), pos, Null, Null, 0), NEW q, Asked(mp, LiveIn(mp), q),
         NEW m \in LiveIn(mp),
         ~InSegment(mp, LiveIn(mp), pos, m, mp[m].level, q.source),
         NEW then, \/ then = "look" /\ Small(mp, T, q)
                   \/ then = "add" /\ Only(mp, T, q, m)
  PROVE  FlushGoes(mp, t, Flushes(m, mp[m].prev, mp[m].level, then, q), LiveIn(mp), pos, T)
<1>1. q.source \in LiveIn(mp)
  BY AskedFacts
<1>2. m # First
  BY <1>1, AllFromFirst
<1>3. Listed(mp, LiveIn(mp), pos, mp[m].prev, m, mp[m].level)
  BY <1>2, FlushBegins
<1>4. m # Null
  BY NoFlushFacts
<1>5. FlushedFor(mp, LiveIn(mp), pos, T, m, mp[m].level, then, q)
  BY DEF FlushedFor
<1>6. \E m1, p, l, then1, q1 :
        /\ Flushes(m, mp[m].prev, mp[m].level, then, q) = Flushes(m1, p, l, then1, q1)
        /\ m1 # Null
        /\ Listed(mp, LiveIn(mp), pos, p, m1, l)
        /\ FlushedFor(mp, LiveIn(mp), pos, T, m1, l, then1, q1)
  BY <1>3, <1>4, <1>5
<1> QED BY <1>6 DEF FlushGoes

LEMMA FlushJob ==
  ASSUME NEW t, NEW then, NEW q
  PROVE  ToFlush(t, then, q) = Flushes(t, map[t].prev, map[t].level, then, q)
BY DEF ToFlush, Flushes

\* Nothing is in the way: go on to add.
LEMMA NothingThere ==
  ASSUME tree \in Trees, NEW T, Grown(map, tree, T), NEW pos,
         Listed(map, LiveIn(map), pos, Null, Null, 0), NEW q, Asked(map, LiveIn(map), q),
         findMapping(tree, q.space, q.vfp) = Null
  PROVE  Waits(map, tree, ToAdd(q), LiveIn(map), pos, T)
<1>1. q.space \in Space /\ q.vfp \in Fpages
  BY AskedFacts
<1>2. PICK c : c = findMapping(tree, q.space, q.vfp)
  OBVIOUS
<1>3. \A x \in T[q.space] : ~Meet(map[x].vfp, q.vfp)
  BY <1>1, <1>2, Found
<1>4. Clear(map, T, q)
  BY <1>3 DEF Clear
<1>5. \E q1 : ToAdd(q) = ToAdd(q1) /\ Asked(map, LiveIn(map), q1) /\ Clear(map, T, q1)
  BY <1>4
<1> QED BY <1>5 DEF Waits

\* Something smaller is in the way.
LEMMA SmallerThere ==
  ASSUME tree \in Trees, NEW T, Grown(map, tree, T), NEW pos,
         Listed(map, LiveIn(map), pos, Null, Null, 0), NEW q, Asked(map, LiveIn(map), q),
         NEW m, m = findMapping(tree, q.space, q.vfp), m # Null,
         map[m].vfp.size < q.vfp.size \/ Small(map, T, q)
  PROVE  FlushGoes(map, tree, ToFlush(m, "look", q), LiveIn(map), pos, T)
<1>1. /\ q.space \in Space /\ q.vfp \in Fpages /\ q.source \in LiveIn(map)
      /\ q.vfp.size <= map[q.source].vfp.size
  BY AskedFacts
<1>2. m \in T[q.space] /\ m \in LiveIn(map) /\ Meet(map[m].vfp, q.vfp)
  BY <1>1, Found
<1>3. map[m].vfp.size < q.vfp.size
  BY <1>2 DEF Small
<1>4. Small(map, T, q)
  BY <1>1, <1>2, <1>3, AllSmall
<1>5. map[m].vfp \in Fpages /\ map[q.source].vfp \in Fpages
  BY <1>1, <1>2, NoFlushFacts DEF Filled
<1>6. map[m].vfp.size \in Nat /\ map[q.source].vfp.size \in Nat /\ q.vfp.size \in Nat
  BY <1>1, <1>5, FpageFacts, BitsDoubling
<1>7. ~(map[q.source].vfp.size <= map[m].vfp.size)
  BY <1>1, <1>3, <1>6
<1>8. ~InSegment(map, LiveIn(map), pos, m, map[m].level, q.source)
  BY <1>1, <1>2, <1>7, SegmentSizes
<1>9. FlushGoes(map, tree, Flushes(m, map[m].prev, map[m].level, "look", q),
                LiveIn(map), pos, T)
  BY <1>2, <1>4, <1>8, FlushStarts
<1> QED BY <1>9, FlushJob

\* Something at least as large is in the way, and a look at sizes and levels,
\* or at the list, shows that the source was not derived from it.
LEMMA LargerThere ==
  ASSUME map \in [Node -> Mappings], tree \in Trees, NEW T, Grown(map, tree, T), NEW pos,
         Listed(map, LiveIn(map), pos, Null, Null, 0), NEW q, Asked(map, LiveIn(map), q),
         NEW m, m = findMapping(tree, q.space, q.vfp), m # Null,
         map[m].vfp.size >= q.vfp.size, ~(Upward(m, q.source) /\ Derives(m, q.source))
  PROVE  FlushGoes(map, tree, ToFlush(m, "add", q), LiveIn(map), pos, T)
<1>1. /\ q.space \in Space /\ q.vfp \in Fpages /\ q.source \in LiveIn(map)
  BY AskedFacts
<1>2. m \in T[q.space] /\ m \in LiveIn(map) /\ Meet(map[m].vfp, q.vfp)
  BY <1>1, Found
<1>3. Only(map, T, q, m)
  BY <1>1, <1>2, OnlyOne
<1>4. ASSUME InSegment(map, LiveIn(map), pos, m, map[m].level, q.source) PROVE FALSE
  <2>1. Derives(m, q.source)
    BY <1>1, <1>2, <1>4, SegmentDerives
  <2>2. map[q.source].vfp.size <= map[m].vfp.size
    BY <1>1, <1>2, <1>4, SegmentSizes
  <2>3. /\ \A x \in LiveIn(map) : /\ pos[x] \in Nat /\ x \in Node /\ map[x].level \in Nat
                                  /\ Filled(map, x)
        /\ \A x, y \in LiveIn(map) : pos[x] = pos[y] => x = y
    BY NoFlushFacts
  <2>4. m # q.source
    BY <1>1, <1>2, GrownFacts DEF Asked
  <2>5. pos[m] < pos[q.source]
    BY <1>1, <1>2, <1>4, <2>3, <2>4 DEF InSegment
  <2>6. map[m].level < map[q.source].level
    BY <1>1, <1>4, <2>3, <2>5 DEF InSegment
  <2>7. map[m].vfp.size \in Nat /\ map[q.source].vfp.size \in Nat
    <3>1. map[m].vfp \in Fpages /\ map[q.source].vfp \in Fpages
      BY <1>1, <1>2, <2>3 DEF Filled
    <3> QED BY <3>1, FpageFacts, BitsDoubling
  <2>8. Upward(m, q.source)
    BY <1>1, <1>2, <2>2, <2>3, <2>6, <2>7 DEF Upward
  <2> QED BY <2>1, <2>8
<1>5. FlushGoes(map, tree, Flushes(m, map[m].prev, map[m].level, "add", q),
                LiveIn(map), pos, T)
  BY <1>2, <1>3, <1>4, FlushStarts
<1> QED BY <1>5, FlushJob

-----------------------------------------------------------------------------
(* A change of one tree.                                                   *)

\* The contents that the trees depend on.
Placed(mp, mp2, x) == mp2[x].vfp = mp[x].vfp /\ mp2[x].space = mp[x].space

LEMMA GrownFrame ==
  ASSUME NEW mp, NEW mp2, NEW t, NEW t2, NEW T, Grown(mp, t, T), NEW sp \in Space,
         NEW S \in SUBSET Node, OnlyChanged(t, t2, sp, S),
         \A s2 \in Space \ {sp} : \A x \in T[s2] : x \notin S /\ Placed(mp, mp2, x),
         NEW T1, Apart(mp2, T1), \A x \in T1 : mp2[x].space = sp,
         \E lo, hi : Bst(t2, sp, T1, lo, hi, Starts(mp2)),
         NEW T2, T2 = [T EXCEPT ![sp] = T1]
  PROVE  Grown(mp2, t2, T2)
<1>1. T \in [Space -> SUBSET Node] /\ T1 \in SUBSET Node
  BY DEF Grown, Apart
<1>2. T2 \in [Space -> SUBSET Node] /\ T2[sp] = T1
  BY <1>1
<1>3. ASSUME NEW s2 \in Space, s2 # sp
      PROVE  /\ Apart(mp2, T2[s2]) /\ \A x \in T2[s2] : mp2[x].space = s2
             /\ \E lo, hi : Bst(t2, s2, T2[s2], lo, hi, Starts(mp2))
  <2>1. T2[s2] = T[s2]
    BY <1>1, <1>3
  <2>2. \A x \in T[s2] : x \notin S /\ Placed(mp, mp2, x)
    BY <1>3
  <2>3. /\ Apart(mp, T[s2])
        /\ \A x \in T[s2] : mp[x].space = s2 /\ x \in Node
    BY GrownFacts
  <2>4. PICK lo, hi : Bst(t, s2, T[s2], lo, hi, Starts(mp))
    BY GrownFacts
  <2>5. SameLinks(t, t2, s2, T[s2])
    BY <1>3, <2>2, <2>3 DEF SameLinks, OnlyChanged
  <2>6. PICK st, st2 : st = Starts(mp) /\ st2 = Starts(mp2)
    OBVIOUS
  <2>7. \A x \in T[s2] : st2[x] = st[x]
    BY <2>2, <2>3, <2>6 DEF Starts, Placed
  <2>8. Bst(t2, s2, T[s2], lo, hi, st2)
    BY <2>4, <2>5, <2>6, <2>7, BstFrame
  <2>9. Apart(mp2, T[s2])
    BY <2>2, <2>3 DEF Apart, Placed
  <2>10. \A x \in T[s2] : mp2[x].space = s2
    BY <2>2, <2>3 DEF Placed
  <2> QED BY <2>1, <2>6, <2>8, <2>9, <2>10
<1>4. /\ Apart(mp2, T2[sp]) /\ \A x \in T2[sp] : mp2[x].space = sp
      /\ \E lo, hi : Bst(t2, sp, T2[sp], lo, hi, Starts(mp2))
  BY <1>2
<1>5. \A s2 \in Space : /\ Apart(mp2, T2[s2])
                        /\ \A x \in T2[s2] : mp2[x].space = s2
                        /\ \E lo, hi : Bst(t2, s2, T2[s2], lo, hi, Starts(mp2))
  BY <1>3, <1>4
<1> QED BY <1>2, <1>5 DEF Grown

\* No mapping is in two trees.
LEMMA TreesDisjoint ==
  ASSUME NEW mp, NEW t, NEW T, Grown(mp, t, T), NEW sp \in Space, NEW s2 \in Space, s2 # sp
  PROVE  \A x \in T[s2] : x \notin T[sp]
<1>1. \A x \in T[s2] : mp[x].space = s2
  BY GrownFacts
<1>2. \A x \in T[sp] : mp[x].space = sp
  BY GrownFacts
<1> QED BY <1>1, <1>2

\* flush takes n out of its tree.
Shrunk(T, T2, n) == \A sp \in Space : T2[sp] \subseteq T[sp] /\ n \notin T2[sp]

LEMMA TreeGoes ==
  ASSUME NEW t \in Trees, NEW T, Grown(map, t, T), NEW n \in Node, map[n].space \in Space,
         InTree(t, n), NEW t2, t2 = CutAt(removeMapping(t, n), n),
         NEW mp2, \A x \in Node \ {n} : Placed(map, mp2, x)
  PROVE  t2 \in Trees /\ \E T2 : Grown(mp2, t2, T2) /\ Shrunk(T, T2, n)
<1>1. PICK sp, t1, st : sp = map[n].space /\ t1 = removeMapping(t, n) /\ st = Starts(map)
  OBVIOUS
<1>2. sp \in Space /\ Apart(map, T[sp]) /\ T[sp] \in SUBSET Node
  BY <1>1, GrownFacts
<1>3. PICK lo, hi : Bst(t, sp, T[sp], lo, hi, st)
  BY <1>1, <1>2, GrownFacts
<1>4. n \in T[sp] /\ Left(t, t1, sp, T[sp], n, st)
  BY <1>1, <1>2, <1>3, RemoveFacts
<1>5. t1 \in Trees /\ OnlyChanged(t, t1, sp, T[sp])
  BY <1>4 DEF Left
<1>6. PICK T1 \in SUBSET (T[sp] \ {n}) : \E lo1, hi1 : Bst(t1, sp, T1, lo1, hi1, st)
  BY <1>4 DEF Left
<1>7. PICK lo1, hi1 : Bst(t1, sp, T1, lo1, hi1, st)
  BY <1>6
<1>8. t2 = CutAt(t1, n)
  BY <1>1
<1>9. /\ t2 \in Trees /\ t2.mem = t1.mem
      /\ \A x \in Node : x # n => t2.left[x] = t1.left[x] /\ t2.right[x] = t1.right[x]
  BY <1>5, <1>8, CutTree
<1>10. OnlyChanged(t, t2, sp, T[sp])
  BY <1>4, <1>5, <1>9 DEF OnlyChanged
<1>11. \A x \in T1 : x \in Node \ {n} /\ x \in T[sp] /\ Placed(map, mp2, x)
  BY <1>2, <1>7
<1>12. SameLinks(t1, t2, sp, T1)
  BY <1>9, <1>11 DEF SameLinks
<1>13. PICK st2 : st2 = Starts(mp2)
  OBVIOUS
<1>14. \A x \in T1 : st2[x] = st[x]
  BY <1>1, <1>11, <1>13 DEF Starts, Placed
<1>15. Bst(t2, sp, T1, lo1, hi1, st2)
  BY <1>7, <1>12, <1>14, BstFrame
<1>16. Apart(mp2, T1)
  BY <1>2, <1>11 DEF Apart, Placed
<1>17. \A x \in T[sp] : map[x].space = sp
  BY <1>2, GrownFacts
<1>18. \A x \in T1 : mp2[x].space = sp
  BY <1>11, <1>17 DEF Placed
<1>19. \A s2 \in Space \ {sp} : \A x \in T[s2] : x \notin T[sp] /\ Placed(map, mp2, x)
  <2>1. ASSUME NEW s2 \in Space \ {sp}, NEW x \in T[s2]
        PROVE  x \notin T[sp] /\ x \in Node
    <3>1. s2 \in Space /\ s2 # sp
      OBVIOUS
    <3> QED BY <1>2, <2>1, <3>1, TreesDisjoint, GrownFacts
  <2> QED BY <1>4, <2>1
<1>20. PICK T2 : T2 = [T EXCEPT ![sp] = T1]
  OBVIOUS
<1>21. \E lo2, hi2 : Bst(t2, sp, T1, lo2, hi2, Starts(mp2))
  BY <1>13, <1>15
<1>22. Grown(mp2, t2, T2)
  BY <1>2, <1>10, <1>16, <1>18, <1>19, <1>20, <1>21, GrownFrame
<1>23. T \in [Space -> SUBSET Node]
  BY DEF Grown
<1>24. Shrunk(T, T2, n)
  <2>1. ASSUME NEW s2 \in Space, s2 # sp
        PROVE  T2[s2] \subseteq T[s2] /\ n \notin T2[s2]
    <3>1. T2[s2] = T[s2]
      BY <1>20, <1>23, <2>1
    <3>2. n \notin T[s2]
      BY <1>2, <1>4, <2>1, TreesDisjoint
    <3> QED BY <3>1, <3>2
  <2>2. T2[sp] \subseteq T[sp] /\ n \notin T2[sp]
    BY <1>2, <1>7, <1>20, <1>23
  <2> QED BY <2>1, <2>2 DEF Shrunk
<1> QED BY <1>9, <1>22, <1>24

LEMMA UnusedMapping == Unused \in Mappings /\ Unused.level = 0
<1>1. CompleteFpage \in Fpages
  <2>1. Bits \in Nat /\ Bits \in 0..Bits
    BY BitsDoubling
  <2>2. PICK n : n = 2^Bits
    OBVIOUS
  <2>3. n \in Nat \ {0}
    BY <2>2, TopNumber DEF Top
  <2>4. 0 % n = 0 /\ 0 \in 0..n - 1
    BY <2>3
  <2> QED BY <2>1, <2>2, <2>4 DEF CompleteFpage, fpage, Fpages, Page, Size
<1>2. 0 \in Page
  <2>1. PICK n : n = 2^Bits
    OBVIOUS
  <2> QED BY <2>1, TopNumber DEF Top, Page
<1> QED BY <1>1, <1>2, MapDBAssumption DEF Unused, Mappings

-----------------------------------------------------------------------------
(* The steps of flush.                                                     *)

LEMMA AskedKept ==
  ASSUME NEW mp, NEW mp2, NEW L, NEW L2, NEW q, Asked(mp, L, q), q.source \in L2,
         SameContents(mp, mp2, q.source)
  PROVE  Asked(mp2, L2, q)
BY DEF Asked, SameContents, Limit

\* The requests are still for what they were for.
LEMMA ForRequest ==
  ASSUME NEW mp, NEW t, NEW mp2, NEW T, NEW T2, Grown(mp, t, T), NEW m \in Node, Shrunk(T, T2, m),
         \A x \in Node \ {m} : Placed(mp, mp2, x), NEW q, q.space \in Space
  PROVE  /\ Small(mp, T, q) => Small(mp2, T2, q)
         /\ Only(mp, T, q, m) => Clear(mp2, T2, q)
         /\ Clear(mp, T, q) => Clear(mp2, T2, q)
<1>1. \A x \in T2[q.space] : x \in T[q.space] /\ x # m
  BY DEF Shrunk
<1>2. \A x \in T[q.space] : x \in Node
  BY GrownFacts
<1>3. \A x \in T2[q.space] : x \in T[q.space] /\ x # m /\ mp2[x].vfp = mp[x].vfp
  BY <1>1, <1>2 DEF Placed
<1> QED BY <1>3 DEF Small, Only, Clear

\* The links are closed around m, which is free.
Closed(mp, mp2, p, n, m) ==
  /\ mp2[m] = Unused
  /\ \A x \in Node \ {m} :
       /\ SameContents(mp, mp2, x)
       /\ mp2[x].next = IF x = p THEN n ELSE mp[x].next
       /\ mp2[x].prev = IF x = n THEN p ELSE mp[x].prev
       /\ x # p /\ x # n => mp2[x] = mp[x]

LEMMA Relinking ==
  ASSUME map \in [Node -> Mappings], NEW p \in Node, NEW n \in Ref, NEW m \in Node,
         NEW mp2, mp2 = [Relinked(p, n) EXCEPT ![m] = Unused]
  PROVE  mp2 \in [Node -> Mappings] /\ Closed(map, mp2, p, n, m)
<1>1. PICK R : R = Relinked(p, n)
  OBVIOUS
<1>2. ASSUME NEW x \in Node
      PROVE  /\ R[x] \in Mappings /\ SameContents(map, R, x)
             /\ R[x].next = IF x = p THEN n ELSE map[x].next
             /\ R[x].prev = IF x = n THEN p ELSE map[x].prev
             /\ x # p /\ x # n => R[x] = map[x]
  <2>1. PICK r : r = map[x]
    OBVIOUS
  <2>2. r \in Mappings
    BY <2>1
  <2>3. R[x] = [r EXCEPT !.next = IF x = p THEN n ELSE r.next,
                         !.prev = IF x = n THEN p ELSE r.prev]
    BY <1>1, <2>1 DEF Relinked
  <2>4. PICK a, b : /\ a = IF x = p THEN n ELSE r.next
                    /\ b = IF x = n THEN p ELSE r.prev
    OBVIOUS
  <2>5. a \in Ref /\ b \in Ref
    BY <2>2, <2>4 DEF Mappings, Ref
  <2>6. R[x] = [r EXCEPT !.next = a, !.prev = b]
    BY <2>3, <2>4
  <2>7. R[x] \in Mappings /\ R[x].next = a /\ R[x].prev = b
    BY <2>2, <2>5, <2>6 DEF Mappings, Ref
  <2>8. /\ R[x].space = r.space /\ R[x].level = r.level /\ R[x].vfp = r.vfp
        /\ R[x].perms = r.perms /\ R[x].phys = r.phys
    BY <2>2, <2>6 DEF Mappings
  <2>9. x # p /\ x # n => R[x] = map[x]
    <3>1. ASSUME x # p, x # n
          PROVE  R[x] = [r EXCEPT !.next = r.next, !.prev = r.prev]
      BY <2>4, <2>6, <3>1
    <3>2. [r EXCEPT !.next = r.next, !.prev = r.prev] = r
      BY <2>2 DEF Mappings
    <3> QED BY <2>1, <3>1, <3>2
  <2> QED BY <2>1, <2>4, <2>7, <2>8, <2>9 DEF SameContents
<1>3. R \in [Node -> Mappings]
  BY <1>1, <1>2 DEF Relinked
<1>4. mp2 = [R EXCEPT ![m] = Unused]
  BY <1>1
<1>5. mp2 \in [Node -> Mappings] /\ mp2[m] = Unused
  BY <1>3, <1>4, UnusedMapping
<1>6. \A x \in Node \ {m} : mp2[x] = R[x]
  BY <1>3, <1>4
<1> QED BY <1>2, <1>5, <1>6 DEF SameContents, Closed

\* A mapping is freed, and maybe others are relinked.
LEMMA OneLess ==
  ASSUME NEW mp, NEW mp2, NEW m, NEW pos, NEW p, NEW l,
         Listed(mp, LiveIn(mp), pos, p, m, l), m # Null, mp2[m] = Unused,
         \A x \in Node \ {m} : mp2[x] = mp[x] \/ (x \in LiveIn(mp) /\ SameContents(mp, mp2, x))
  PROVE  LiveIn(mp2) = LiveIn(mp) \ {m}
<1>1. \A x \in LiveIn(mp) : mp[x].level >= 1 /\ mp[x].level \in Nat /\ x \in Node
  BY ListedFacts DEF Filled, LiveIn
<1>2. ASSUME NEW x \in Node, x # m, x \in LiveIn(mp)
      PROVE  x \in LiveIn(mp2)
  <2>1. mp2[x] = mp[x] \/ mp2[x].level = mp[x].level
    BY <1>2 DEF SameContents
  <2>2. CASE mp2[x].level = mp[x].level
    BY <1>1, <1>2, <2>2, UnusedMapping DEF LiveIn
  <2> QED BY <1>2, <2>1, <2>2 DEF LiveIn
<1>3. ASSUME NEW x \in Node, x # m, x \notin LiveIn(mp)
      PROVE  x \notin LiveIn(mp2)
  BY <1>3 DEF LiveIn
<1>4. m \notin LiveIn(mp2)
  BY DEF LiveIn
<1> QED BY <1>2, <1>3, <1>4 DEF LiveIn

LEMMA ShortStay ==
  ASSUME NEW mp, NEW L, NEW pos, NEW m, NEW l, NEW x, Ordered(L, pos), m \in L,
         ~InSegment(mp, L, pos, m, l, x)
  PROVE  x # m
<1>1. pos[m] \in Nat /\ \A y \in L : pos[y] \in Nat
  BY DEF Ordered
<1> QED BY <1>1 DEF InSegment

\* What a step of flush finds and does to the tree.
Flushing(T, pos, m, p, l, then, q) ==
  /\ job = Flushes(m, p, l, then, q) /\ Grown(map, tree, T)
  /\ Listed(map, LiveIn(map), pos, p, m, l) /\ m # Null
  /\ FlushedFor(map, LiveIn(map), pos, T, m, l, then, q)

LEMMA FlushMade ==
  ASSUME NEW mp, NEW t, NEW L, NEW pos, NEW T, NEW m, NEW p, NEW l, NEW then, NEW q,
         Grown(mp, t, T), m # Null, Listed(mp, L, pos, p, m, l),
         FlushedFor(mp, L, pos, T, m, l, then, q)
  PROVE  FlushGoes(mp, t, Flushes(m, p, l, then, q), L, pos, T)
<1>1. \E m1, p1, l1, then1, q1 :
        /\ Flushes(m, p, l, then, q) = Flushes(m1, p1, l1, then1, q1) /\ m1 # Null
        /\ Listed(mp, L, pos, p1, m1, l1)
        /\ FlushedFor(mp, L, pos, T, m1, l1, then1, q1)
  OBVIOUS
<1> QED BY <1>1 DEF FlushGoes

\* The flush goes on with n.
LEMMA FlushMore ==
  ASSUME map \in [Node -> Mappings], tree \in Trees, NEW T, NEW pos, NEW m, NEW p, NEW l,
         NEW then, NEW q, Flushing(T, pos, m, p, l, then, q), InTree(tree, m),
         NEW n, n = map[m].next, n # Null, l < map[n].level,
         NEW tree2, tree2 = CutAt(removeMapping(tree, m), m),
         NEW map2, map2 = [map EXCEPT ![m] = Unused]
  PROVE  Sound(map2, tree2, Flushes(n, p, l, then, q))
<1>1. Listed(map, LiveIn(map), pos, p, m, l) /\ m # Null /\ Grown(map, tree, T)
  BY DEF Flushing
<1>2. /\ m \in LiveIn(map) /\ m \in Node /\ map[m].space \in Space
      /\ Ordered(LiveIn(map), pos) /\ LiveIn(map) \subseteq Node
  BY <1>1, ListedFacts DEF Filled, LiveIn
<1>3. map2 \in [Node -> Mappings] /\ map2[m] = Unused
  BY <1>2, UnusedMapping
<1>4. \A x \in Node \ {m} : map2[x] = map[x]
  BY <1>2
<1>5. \A x \in Node \ {m} : SameContents(map, map2, x) /\ Placed(map, map2, x)
  BY <1>4 DEF SameContents, Placed
<1>6. PICK L : L = LiveIn(map2)
  OBVIOUS
<1>7. L = LiveIn(map) \ {m}
  <2>1. \A x \in Node \ {m} :
          map2[x] = map[x] \/ (x \in LiveIn(map) /\ SameContents(map, map2, x))
    BY ONLY <1>4, Zenon
  <2>2. Listed(map, LiveIn(map), pos, p, m, l) /\ m # Null /\ map2[m] = Unused
    BY <1>1, <1>3
  <2>3. LiveIn(map2) = LiveIn(map) \ {m}
    BY ONLY <2>1, <2>2, OneLess
  <2> QED BY <1>6, <2>3
<1>8. tree2 \in Trees
  BY <1>1, <1>2, <1>5, TreeGoes
<1>9. PICK T2 : Grown(map2, tree2, T2) /\ Shrunk(T, T2, m)
  BY <1>1, <1>2, <1>5, TreeGoes
<1>10. \A x \in LiveIn(map) \ {m} : map2[x] = map[x]
  BY <1>2, <1>4
<1>11. /\ Listed(map2, LiveIn(map) \ {m}, pos, p, n, l)
       /\ \A x \in LiveIn(map) \ {m} :
            InSegment(map2, LiveIn(map) \ {m}, pos, n, l, x)
              => InSegment(map, LiveIn(map), pos, m, l, x)
  BY <1>1, <1>10, FlushGoesOn
<1>12. FlushedFor(map, LiveIn(map), pos, T, m, l, then, q)
  BY DEF Flushing
<1>13. CASE then = "exit" /\ \E sp \in Space \ {Sigma0} : q = [space |-> sp]
  <2>1. FlushedFor(map2, L, pos, T2, n, l, then, q)
    BY <1>13 DEF FlushedFor
  <2>2. FlushGoes(map2, tree2, Flushes(n, p, l, then, q), L, pos, T2)
    BY <1>7, <1>9, <1>11, <2>1, FlushMade
  <2> QED BY <1>3, <1>6, <1>8, <2>2 DEF Sound
<1>14. CASE /\ then \in {"look", "add"}
            /\ Asked(map, LiveIn(map), q) /\ ~InSegment(map, LiveIn(map), pos, m, l, q.source)
            /\ then = "look" => Small(map, T, q)
            /\ then = "add" => Only(map, T, q, m)
  <2>1. q.source # m
    BY <1>2, <1>14, ShortStay
  <2>2. q.source \in LiveIn(map) /\ q.space \in Space
    BY <1>14, AskedFacts
  <2>3. q.source \in L /\ q.source \in Node \ {m}
    BY <1>2, <1>7, <2>1, <2>2
  <2>4. Asked(map2, L, q)
    BY <1>5, <1>14, <2>3, AskedKept
  <2>5. ~InSegment(map2, L, pos, n, l, q.source)
    BY <1>7, <1>11, <1>14, <2>3
  <2>6. /\ Small(map, T, q) => Small(map2, T2, q)
        /\ Only(map, T, q, m) => Clear(map2, T2, q)
    BY <1>1, <1>2, <1>5, <1>9, <2>2, ForRequest
  <2>7. Clear(map2, T2, q) => Only(map2, T2, q, n)
    BY DEF Clear, Only
  <2>8. FlushedFor(map2, L, pos, T2, n, l, then, q)
    BY <1>14, <2>4, <2>5, <2>6, <2>7 DEF FlushedFor
  <2>9. FlushGoes(map2, tree2, Flushes(n, p, l, then, q), L, pos, T2)
    BY <1>7, <1>9, <1>11, <2>8, FlushMade
  <2> QED BY <1>3, <1>6, <1>8, <2>9 DEF Sound
<1> QED BY <1>12, <1>13, <1>14 DEF FlushedFor

\* What follows a flush.
Continues(then, q) ==
  CASE then = "look" -> ToLook(q) [] then = "add" -> ToAdd(q) [] OTHER -> ToExit(q.space)

\* The flush ends before n.
LEMMA FlushLast ==
  ASSUME map \in [Node -> Mappings], tree \in Trees, NEW T, NEW pos, NEW m, NEW p, NEW l,
         NEW then, NEW q, Flushing(T, pos, m, p, l, then, q), InTree(tree, m),
         NEW n, n = map[m].next, n = Null \/ ~(l < map[n].level),
         NEW tree2, tree2 = CutAt(removeMapping(tree, m), m),
         NEW map2, map2 = [Relinked(p, n) EXCEPT ![m] = Unused]
  PROVE  Sound(map2, tree2, Continues(then, q))
<1>1. Listed(map, LiveIn(map), pos, p, m, l) /\ m # Null /\ Grown(map, tree, T)
  BY DEF Flushing
<1>2. /\ m \in LiveIn(map) /\ m \in Node /\ map[m].space \in Space
      /\ Ordered(LiveIn(map), pos) /\ LiveIn(map) \subseteq Node
      /\ p \in LiveIn(map) /\ p \in Node /\ p # m
  BY <1>1, ListedFacts DEF Filled, LiveIn
<1>3. n \in Ref /\ (n # Null => n \in LiveIn(map))
  <2>1. Leads(n, LiveIn(map), pos, m)
    BY <1>1, ListedFacts
  <2> QED BY <1>2, <2>1 DEF Leads, Adjacent, Ref
<1>4. map2 \in [Node -> Mappings] /\ Closed(map, map2, p, n, m)
  <2>1. map \in [Node -> Mappings] /\ p \in Node /\ n \in Ref /\ m \in Node
    BY <1>2, <1>3
  <2>2. map2 = [Relinked(p, n) EXCEPT ![m] = Unused]
    OBVIOUS
  <2> QED BY ONLY <2>1, <2>2, Relinking
<1>5. /\ map2 \in [Node -> Mappings] /\ map2[m] = Unused
      /\ \A x \in Node \ {m} :
           /\ SameContents(map, map2, x)
           /\ map2[x].next = IF x = p THEN n ELSE map[x].next
           /\ map2[x].prev = IF x = n THEN p ELSE map[x].prev
           /\ x # p /\ x # n => map2[x] = map[x]
  BY <1>4 DEF Closed
<1>6. \A x \in Node \ {m} : SameContents(map, map2, x) /\ Placed(map, map2, x)
  BY <1>5 DEF SameContents, Placed
<1>7. PICK L : L = LiveIn(map2)
  OBVIOUS
<1>8. L = LiveIn(map) \ {m}
  <2>1. \A x \in Node \ {m} :
          map2[x] = map[x] \/ (x \in LiveIn(map) /\ SameContents(map, map2, x))
    <3>1. ASSUME NEW x \in Node \ {m}, map2[x] # map[x]
          PROVE  x \in LiveIn(map) /\ SameContents(map, map2, x)
      <4>1. x = p \/ x = n
        BY <1>5, <3>1
      <4>2. x # Null
        BY NodeCount
      <4> QED BY <1>2, <1>3, <1>5, <4>1, <4>2
    <3> QED BY ONLY <3>1, Zenon
  <2>2. Listed(map, LiveIn(map), pos, p, m, l) /\ m # Null /\ map2[m] = Unused
    BY <1>1, <1>5
  <2>3. LiveIn(map2) = LiveIn(map) \ {m}
    BY ONLY <2>1, <2>2, OneLess
  <2> QED BY <1>7, <2>3
<1>9. tree2 \in Trees
  BY <1>1, <1>2, <1>6, TreeGoes
<1>10. PICK T2 : Grown(map2, tree2, T2) /\ Shrunk(T, T2, m)
  BY <1>1, <1>2, <1>6, TreeGoes
<1>11. Relinks(map, map2, LiveIn(map) \ {m}, p, n)
  BY <1>2, <1>5 DEF Relinks
<1>12. Listed(map2, L, pos, Null, Null, 0)
  BY <1>1, <1>8, <1>11, FlushEnds
<1>13. FlushedFor(map, LiveIn(map), pos, T, m, l, then, q)
  BY DEF Flushing
<1>14. ASSUME then = "exit", NEW sp \in Space \ {Sigma0}, q = [space |-> sp]
       PROVE  Sound(map2, tree2, Continues(then, q))
  <2>1. Continues(then, q) = ToExit(sp)
    BY <1>14 DEF Continues
  <2>2. Waits(map2, tree2, Continues(then, q), L, pos, T2)
    BY <1>10, <1>12, <2>1 DEF Waits
  <2> QED BY <1>5, <1>7, <1>9, <2>2 DEF Sound
<1>15. ASSUME /\ then \in {"look", "add"}
              /\ Asked(map, LiveIn(map), q)
              /\ ~InSegment(map, LiveIn(map), pos, m, l, q.source)
              /\ then = "look" => Small(map, T, q)
              /\ then = "add" => Only(map, T, q, m)
       PROVE  Sound(map2, tree2, Continues(then, q))
  <2>1. q.source # m
    BY <1>2, <1>15, ShortStay
  <2>2. q.source \in LiveIn(map) /\ q.space \in Space
    BY <1>15, AskedFacts
  <2>3. q.source \in L /\ q.source \in Node \ {m}
    BY <1>2, <1>8, <2>1, <2>2
  <2>4. Asked(map2, L, q)
    BY <1>6, <1>15, <2>3, AskedKept
  <2>5. /\ Small(map, T, q) => Small(map2, T2, q)
        /\ Only(map, T, q, m) => Clear(map2, T2, q)
    BY <1>1, <1>2, <1>6, <1>10, <2>2, ForRequest
  <2>6. \/ Continues(then, q) = ToLook(q) /\ Small(map2, T2, q)
        \/ Continues(then, q) = ToAdd(q) /\ Clear(map2, T2, q)
    BY <1>15, <2>5 DEF Continues
  <2>7. Waits(map2, tree2, Continues(then, q), L, pos, T2)
    BY <1>10, <1>12, <2>4, <2>6 DEF Waits
  <2> QED BY <1>5, <1>7, <1>9, <2>7 DEF Sound
<1> QED BY <1>13, <1>14, <1>15 DEF FlushedFor

LEMMA FlushStep ==
  ASSUME MapDBInv, Flush,
         NEW map2, NEW tree2, NEW job2, map2 = map', tree2 = tree', job2 = job'
  PROVE  Sound(map2, tree2, job2)
<1>1. map \in [Node -> Mappings] /\ tree \in Trees /\ job.do = "flush"
  BY DEF MapDBInv, Sound, Flush
<1>2. PICK pos, T : \/ Waits(map, tree, job, LiveIn(map), pos, T)
                    \/ FlushGoes(map, tree, job, LiveIn(map), pos, T)
  BY DEF MapDBInv, Sound
<1>3. ~Waits(map, tree, job, LiveIn(map), pos, T)
  BY <1>1, WaitsForWhat
<1>4. PICK m, p, l, then, q : /\ m = job.m /\ p = job.p /\ l = job.l /\ then = job.then
                              /\ q = job.req
  OBVIOUS
<1>5. Flushing(T, pos, m, p, l, then, q)
  BY <1>2, <1>3, <1>4, FlushForWhat DEF Flushing
<1>6. PICK n : n = map[m].next
  OBVIOUS
<1>7. InTree(tree, m) /\ tree2 = CutAt(removeMapping(tree, m), m)
  BY <1>4 DEF Flush, CutAt
<1>8. More(n) <=> n # Null /\ l < map[n].level
  <2>1. Listed(map, LiveIn(map), pos, p, m, l)
    BY <1>5 DEF Flushing
  <2>2. l \in Nat /\ m \in Node
    BY <1>5, <2>1, ListedFacts DEF Flushing, LiveIn
  <2>3. n # Null => n \in Node
    BY <1>1, <1>6, <2>2 DEF Mappings
  <2>4. n # Null => map[n].level \in Nat
    BY <1>1, <2>3 DEF Mappings
  <2> QED BY <1>4, <2>2, <2>4 DEF More
<1>9. CASE More(n)
  <2>1. map2 = [map EXCEPT ![m] = Unused] /\ job2 = [job EXCEPT !.m = n]
    BY <1>4, <1>6, <1>9 DEF Flush
  <2>2. job = Flushes(m, p, l, then, q)
    BY <1>5 DEF Flushing
  <2>3. job2 = Flushes(n, p, l, then, q)
    BY <2>1, <2>2 DEF Flushes
  <2>4. n # Null /\ l < map[n].level
    BY <1>8, <1>9
  <2>5. Sound(map2, tree2, Flushes(n, p, l, then, q))
    <3>1. map \in [Node -> Mappings] /\ tree \in Trees
      BY <1>1
    <3>2. Flushing(T, pos, m, p, l, then, q) /\ InTree(tree, m)
      BY <1>5, <1>7
    <3>3. n = map[m].next /\ tree2 = CutAt(removeMapping(tree, m), m)
      BY <1>6, <1>7
    <3>4. map2 = [map EXCEPT ![m] = Unused]
      BY <2>1
    <3> QED BY ONLY <2>4, <3>1, <3>2, <3>3, <3>4, FlushMore
  <2> QED BY <2>3, <2>5
<1>10. CASE ~More(n)
  <2>1. map2 = [Relinked(p, n) EXCEPT ![m] = Unused]
    BY <1>4, <1>6, <1>10 DEF Flush
  <2>2. job2 = Continues(then, q)
    BY <1>4, <1>6, <1>10 DEF Flush, Continues, ToLook
  <2> QED BY <1>1, <1>5, <1>6, <1>7, <1>8, <1>10, <2>1, <2>2, FlushLast
<1> QED BY <1>9, <1>10

LEMMA SoundWaits ==
  ASSUME NEW mp \in [Node -> Mappings], NEW t \in Trees, NEW jb, NEW pos, NEW T,
         Waits(mp, t, jb, LiveIn(mp), pos, T)
  PROVE  Sound(mp, t, jb)
BY DEF Sound

LEMMA SoundFlush ==
  ASSUME NEW mp \in [Node -> Mappings], NEW t \in Trees, NEW jb, NEW pos, NEW T,
         FlushGoes(mp, t, jb, LiveIn(mp), pos, T)
  PROVE  Sound(mp, t, jb)
BY DEF Sound

\* What the invariant says when there is no flush.
LEMMA InvWaits ==
  ASSUME MapDBInv, job.do # "flush"
  PROVE  /\ map \in [Node -> Mappings] /\ tree \in Trees
         /\ \E pos, T : Waits(map, tree, job, LiveIn(map), pos, T)
<1>1. map \in [Node -> Mappings] /\ tree \in Trees
  BY DEF MapDBInv, Sound
<1>2. PICK pos, T : \/ Waits(map, tree, job, LiveIn(map), pos, T)
                    \/ FlushGoes(map, tree, job, LiveIn(map), pos, T)
  BY DEF MapDBInv, Sound
<1>3. Waits(map, tree, job, LiveIn(map), pos, T)
  BY <1>2, FlushForWhat
<1> QED BY <1>1, <1>3

-----------------------------------------------------------------------------
(* The other steps of map2.                                                *)

LEMMA MapStep ==
  ASSUME MapDBInv, ~Upwards,
         NEW ss \in Space, NEW rs \in Space, NEW sfp \in Sends, NEW gives \in Gives,
         NEW b \in Bases, NEW acc \in Accepts,
         Map(ss, sfp, gives, b, rs, acc),
         NEW job2, job2 = job'
  PROVE  Sound(map, tree, job2)
<1>1. job = NoJob /\ ss # rs
  BY DEF Map
<1>2. job.do = "nothing"
  BY <1>1, JobKinds
<1>3. map \in [Node -> Mappings] /\ tree \in Trees
  BY <1>2, InvWaits
<1>4. PICK pos, T : Waits(map, tree, job, LiveIn(map), pos, T)
  BY <1>2, InvWaits
<1>5. Listed(map, LiveIn(map), pos, Null, Null, 0) /\ Grown(map, tree, T)
  BY <1>2, <1>4, WaitsForWhat
<1>6. PICK sendfp : sendfp = (IF sfp.size > acc.size THEN Trim(sfp, b, acc) ELSE sfp)
  OBVIOUS
<1>7. PICK s : s = findMapping(tree, ss, sendfp)
  OBVIOUS
<1>8. PICK q : q = Requested(s, sfp, gives, b, rs, acc)
  OBVIOUS
<1>9. PICK t : t = findMapping(tree, q.space, q.vfp)
  OBVIOUS
<1>10. q.space = rs
  BY <1>8 DEF Requested
<1>11. /\ Backed(s, sendfp.size) /\ q.perms # {}
       /\ \/ t = Null /\ job2 = ToAdd(q)
          \/ t # Null /\ map[t].vfp.size < q.vfp.size /\ job2 = ToFlush(t, "look", q)
          \/ /\ t # Null /\ map[t].vfp.size >= q.vfp.size
             /\ job2 = IF RunsOff(t, s) THEN Crash ELSE ToFlush(t, "add", q)
  BY <1>6, <1>7, <1>8, <1>9, <1>10 DEF Map
<1>12. Asked(map, LiveIn(map), q) /\ q.source = s
  BY <1>1, <1>3, <1>5, <1>6, <1>7, <1>8, <1>11, MapAsks
<1>13. CASE t = Null /\ job2 = ToAdd(q)
  <2>1. Waits(map, tree, ToAdd(q), LiveIn(map), pos, T)
    BY <1>3, <1>5, <1>9, <1>12, <1>13, NothingThere
  <2> QED BY <1>3, <1>13, <2>1, SoundWaits
<1>14. CASE t # Null /\ map[t].vfp.size < q.vfp.size /\ job2 = ToFlush(t, "look", q)
  <2>1. FlushGoes(map, tree, ToFlush(t, "look", q), LiveIn(map), pos, T)
    BY <1>3, <1>5, <1>9, <1>12, <1>14, SmallerThere
  <2> QED BY <1>3, <1>14, <2>1, SoundFlush
<1>15. CASE /\ t # Null /\ map[t].vfp.size >= q.vfp.size
            /\ job2 = IF RunsOff(t, s) THEN Crash ELSE ToFlush(t, "add", q)
  <2>1. job2 = ToFlush(t, "add", q)
    BY <1>15 DEF Upwards
  <2>2. ~(Upward(t, q.source) /\ Derives(t, q.source))
    <3>1. job'.do = "flush" /\ job'.then = "add" /\ job'.m = t /\ job'.req = q
      BY <2>1 DEF ToFlush
    <3> QED BY <1>1, <3>1 DEF Upwards
  <2>3. FlushGoes(map, tree, ToFlush(t, "add", q), LiveIn(map), pos, T)
    BY <1>3, <1>5, <1>9, <1>12, <1>15, <2>2, LargerThere
  <2> QED BY <1>3, <2>1, <2>3, SoundFlush
<1> QED BY <1>11, <1>13, <1>14, <1>15

LEMMA LookStep ==
  ASSUME MapDBInv, Look, NEW job2, job2 = job'
  PROVE  Sound(map, tree, job2)
<1>1. job.do = "look"
  BY DEF Look
<1>2. map \in [Node -> Mappings] /\ tree \in Trees
  BY <1>1, InvWaits
<1>3. PICK pos, T : Waits(map, tree, job, LiveIn(map), pos, T)
  BY <1>1, InvWaits
<1>4. PICK q : q = job.req
  OBVIOUS
<1>5. /\ Listed(map, LiveIn(map), pos, Null, Null, 0) /\ Grown(map, tree, T)
      /\ Asked(map, LiveIn(map), q) /\ Small(map, T, q)
  BY <1>1, <1>3, <1>4, WaitsForWhat
<1>6. PICK t : t = findMapping(tree, q.space, q.vfp)
  OBVIOUS
<1>7. job2 = IF t = Null THEN ToAdd(q) ELSE ToFlush(t, "look", q)
  BY <1>4, <1>6 DEF Look
<1>8. CASE t = Null
  <2>1. Waits(map, tree, ToAdd(q), LiveIn(map), pos, T)
    BY <1>2, <1>5, <1>6, <1>8, NothingThere
  <2> QED BY <1>2, <1>7, <1>8, <2>1, SoundWaits
<1>9. CASE t # Null
  <2>1. FlushGoes(map, tree, ToFlush(t, "look", q), LiveIn(map), pos, T)
    BY <1>2, <1>5, <1>6, <1>9, SmallerThere
  <2> QED BY <1>2, <1>7, <1>9, <2>1, SoundFlush
<1> QED BY <1>8, <1>9

-----------------------------------------------------------------------------
(* The end of map2.                                                        *)

\* t is put between s and n, for the request q.
Entered(mp, mp2, s, t, n, q) ==
  /\ mp2[t].space = q.space /\ mp2[t].vfp = q.vfp /\ mp2[t].perms = q.perms
  /\ mp2[t].phys = q.phys /\ mp2[t].level = mp[s].level + 1
  /\ mp2[t].next = n /\ mp2[t].prev = s
  /\ \A x \in Node \ {t} :
       /\ SameContents(mp, mp2, x)
       /\ mp2[x].next = IF x = s THEN t ELSE mp[x].next
       /\ mp2[x].prev = IF x = n THEN t ELSE mp[x].prev
       /\ x # s /\ x # n => mp2[x] = mp[x]

With(mp, s, t, n, new) ==
  [k \in Node |-> CASE k = t -> new
                    [] k = s -> [mp[k] EXCEPT !.next = t]
                    [] k = n -> [mp[k] EXCEPT !.prev = t]
                    [] OTHER -> mp[k]]

LEMMA Entering ==
  ASSUME map \in [Node -> Mappings], NEW s \in Node, NEW t \in Node, NEW n \in Ref, n # s,
         NEW q, q.space \in Space, q.vfp \in Fpages, q.perms \in SUBSET Perm, q.phys \in Page,
         NEW new, new = [space |-> q.space, next |-> n, prev |-> s, level |-> map[s].level + 1,
                         vfp |-> q.vfp, perms |-> q.perms, phys |-> q.phys],
         NEW mp2, mp2 = With(map, s, t, n, new), s # t, n # t
  PROVE  mp2 \in [Node -> Mappings] /\ Entered(map, mp2, s, t, n, q)
<1>1. new \in Mappings /\ mp2[t] = new
  <2>1. map[s].level + 1 \in Nat
    BY DEF Mappings
  <2> QED BY <2>1 DEF Mappings, Ref, With
<1>2. ASSUME NEW x \in Node, x # t
      PROVE  /\ mp2[x] \in Mappings /\ SameContents(map, mp2, x)
             /\ mp2[x].next = IF x = s THEN t ELSE map[x].next
             /\ mp2[x].prev = IF x = n THEN t ELSE map[x].prev
             /\ x # s /\ x # n => mp2[x] = map[x]
  <2>1. PICK r : r = map[x]
    OBVIOUS
  <2>2. r \in Mappings
    BY <2>1
  <2>3. CASE x = s
    <3>1. mp2[x] = [r EXCEPT !.next = t]
      BY <1>2, <2>1, <2>3 DEF With
    <3> QED BY <1>2, <2>1, <2>2, <2>3, <3>1 DEF Mappings, SameContents
  <2>4. CASE x # s /\ x = n
    <3>1. mp2[x] = [r EXCEPT !.prev = t]
      BY <1>2, <2>1, <2>4 DEF With
    <3> QED BY <1>2, <2>1, <2>2, <2>4, <3>1 DEF Mappings, SameContents
  <2>5. CASE x # s /\ x # n
    <3>1. mp2[x] = r
      BY <1>2, <2>1, <2>5 DEF With
    <3> QED BY <2>1, <2>2, <2>5, <3>1 DEF SameContents
  <2> QED BY <2>3, <2>4, <2>5
<1>3. mp2 \in [Node -> Mappings]
  BY <1>1, <1>2 DEF With
<1>4. /\ mp2[t].space = q.space /\ mp2[t].vfp = q.vfp /\ mp2[t].perms = q.perms
      /\ mp2[t].phys = q.phys /\ mp2[t].level = map[s].level + 1
      /\ mp2[t].next = n /\ mp2[t].prev = s
  BY <1>1
<1> QED BY <1>2, <1>3, <1>4 DEF Entered

\* The list with t.
LEMMA AddList ==
  ASSUME NEW mp \in [Node -> Mappings], NEW mp2, NEW pos, NEW q,
         Listed(mp, LiveIn(mp), pos, Null, Null, 0), Asked(mp, LiveIn(mp), q),
         NEW s, s = q.source, NEW n, n = mp[s].next, NEW t \in Node \ LiveIn(mp),
         Entered(mp, mp2, s, t, n, q)
  PROVE  /\ LiveIn(mp2) = LiveIn(mp) \cup {t}
         /\ \E pos2 : Listed(mp2, LiveIn(mp2), pos2, Null, Null, 0)
<1>1. /\ s \in LiveIn(mp) /\ s \in Node /\ s # t /\ q.space \in Space
      /\ mp[s].space # q.space
      /\ q.vfp \in Fpages /\ q.vfp.size <= mp[s].vfp.size
      /\ q.perms # {} /\ q.perms \subseteq mp[s].perms
      /\ q.phys \in Page /\ mp[s].phys <= q.phys
      /\ q.phys + 2^q.vfp.size <= Limit(mp, s)
  BY AskedFacts DEF LiveIn
<1>2. Filled(mp, s) /\ Leads(n, LiveIn(mp), pos, s)
  BY <1>1, NoFlushFacts
<1>3. n # Null => n \in LiveIn(mp)
  BY <1>2 DEF Leads, Adjacent
<1>4. n # t
  BY <1>3, NodeCount
<1>5. /\ mp2[t].space = q.space /\ mp2[t].vfp = q.vfp /\ mp2[t].perms = q.perms
      /\ mp2[t].phys = q.phys /\ mp2[t].level = mp[s].level + 1
      /\ mp2[t].next = n /\ mp2[t].prev = s
      /\ \A x \in Node \ {t} :
           /\ SameContents(mp, mp2, x)
           /\ mp2[x].next = IF x = s THEN t ELSE mp[x].next
           /\ mp2[x].prev = IF x = n THEN t ELSE mp[x].prev
           /\ x # s /\ x # n => mp2[x] = mp[x]
  BY DEF Entered
<1>6. mp[s].level \in Nat /\ mp[s].level >= 1 /\ Limit(mp, s) <= Top
  BY <1>2 DEF Filled
<1>7. Limit(mp2, t) = q.phys + 2^q.vfp.size
  BY <1>5 DEF Limit
<1>8. q.phys \in Nat
  BY <1>1, TopNumber DEF Page, Top
<1>9. PICK a : a = 2^q.vfp.size /\ a \in Nat
  BY <1>1, FpageFacts
<1>10. Limit(mp, s) \in Int
  <2>1. PICK b : b = 2^mp[s].vfp.size /\ b \in Nat
    BY <1>2, FpageFacts DEF Filled
  <2>2. mp[s].phys \in Nat
    BY <1>2 DEF Filled
  <2> QED BY <2>1, <2>2 DEF Limit
<1>11. Limit(mp2, t) <= Top /\ Limit(mp2, t) <= Limit(mp, s)
  BY <1>1, <1>6, <1>7, <1>8, <1>9, <1>10, TopNumber
<1>12. Filled(mp2, t)
  BY <1>1, <1>5, <1>6, <1>8, <1>11 DEF Filled
<1>13. SameContents(mp, mp2, s) /\ Limit(mp2, s) = Limit(mp, s)
  BY <1>1, <1>5 DEF SameContents, Limit
<1>14. Confines(mp2, s, t)
  BY <1>1, <1>5, <1>11, <1>13 DEF Confines, SameContents
<1>15. \A x \in LiveIn(mp) : x \in Node \ {t} /\ mp[x].level \in Nat /\ mp[x].level >= 1
  BY NoFlushFacts
<1>16. Inserts(mp, mp2, LiveIn(mp), s, t, n)
  BY <1>5, <1>15 DEF Inserts
<1>17. \E pos2 : Listed(mp2, LiveIn(mp) \cup {t}, pos2, Null, Null, 0)
  BY <1>1, <1>12, <1>14, <1>16, Inserted
<1>18. LiveIn(mp2) = LiveIn(mp) \cup {t}
  <2>1. t \in LiveIn(mp2)
    <3>1. mp2[t].level # 0
      BY <1>5, <1>6
    <3> QED BY <3>1, UnusedMapping DEF LiveIn
  <2>2. ASSUME NEW x \in LiveIn(mp)
        PROVE  x \in LiveIn(mp2)
    <3>1. mp2[x].level = mp[x].level
      BY <1>5, <1>15 DEF SameContents
    <3>2. mp2[x].level # 0
      BY <1>15, <3>1
    <3> QED BY <1>15, <3>2, UnusedMapping DEF LiveIn
  <2>3. ASSUME NEW x \in Node \ {t}, x \notin LiveIn(mp)
        PROVE  x \notin LiveIn(mp2)
    <3>1. mp2[x] = mp[x]
      <4>1. x # s /\ x # n
        BY <1>1, <1>3, <2>3, NodeCount
      <4> QED BY <1>5, <4>1
    <3> QED BY <2>3, <3>1 DEF LiveIn
  <2> QED BY <2>1, <2>2, <2>3 DEF LiveIn
<1> QED BY <1>17, <1>18

\* The tree with t.
LEMMA AddTree ==
  ASSUME NEW t \in Trees, NEW T, Grown(map, t, T), NEW q, q.space \in Space, q.vfp \in Fpages,
         Clear(map, T, q), NEW n \in Node \ LiveIn(map),
         NEW t2, t2 = addMapping(t, q.space, q.vfp, n),
         NEW mp2, \A x \in Node \ {n} : Placed(map, mp2, x),
         mp2[n].vfp = q.vfp, mp2[n].space = q.space
  PROVE  t2 \in Trees /\ \E T2 : Grown(mp2, t2, T2)
<1>1. PICK sp, f, st, st2 : sp = q.space /\ f = q.vfp /\ st = Starts(map) /\ st2 = Starts(mp2)
  OBVIOUS
<1>2. sp \in Space /\ f \in Fpages /\ Apart(map, T[sp]) /\ T[sp] \in SUBSET Node
  BY <1>1, GrownFacts
<1>3. \A s2 \in Space : \A x \in T[s2] :
        /\ x \in Node \ {n} /\ map[x].space = s2 /\ map[x].vfp \in Fpages
        /\ Placed(map, mp2, x)
  <2>1. ASSUME NEW s2 \in Space, NEW x \in T[s2]
        PROVE  /\ x \in Node \ {n} /\ map[x].space = s2 /\ map[x].vfp \in Fpages
               /\ Placed(map, mp2, x)
    <3>1. x \in LiveIn(map) /\ x \in Node /\ map[x].space = s2 /\ map[x].vfp \in Fpages
      BY GrownFacts
    <3> QED BY <3>1
  <2> QED BY <2>1
<1>4. PICK lo, hi : Bst(t, sp, T[sp], lo, hi, st)
  BY <1>1, <1>2, GrownFacts
<1>5. n \notin T[sp]
  BY <1>2, <1>3
<1>6. \A x \in T[sp] : ~Meet(map[x].vfp, f)
  BY <1>1 DEF Clear
<1>7. \A x \in T[sp] : st2[x] = st[x]
  BY <1>1, <1>2, <1>3 DEF Starts, Placed
<1>8. st2[n] = Start(f)
  BY <1>1 DEF Starts
<1>9. t2 = addMapping(t, sp, f, n)
  BY <1>1
<1>10. /\ t2 \in Trees /\ OnlyChanged(t, t2, sp, T[sp] \cup {n})
       /\ \E lo2, hi2 : Bst(t2, sp, T[sp] \cup {n}, lo2, hi2, st2)
  <2>1. t \in Trees /\ n \in Node /\ st = Starts(map)
    BY <1>1
  <2>2. PICK S : S = T[sp]
    OBVIOUS
  <2>3. Bst(t, sp, S, lo, hi, st) /\ Apart(map, S) /\ n \notin S
    BY <1>2, <1>4, <1>5, <2>2
  <2>4. \A x \in S : ~Meet(map[x].vfp, f)
    BY <1>6, <2>2
  <2>5. \A x \in S : st2[x] = st[x]
    BY <1>7, <2>2
  <2>6. sp \in Space /\ f \in Fpages
    BY <1>2
  <2>7. Joined(t, t2, sp, S, n, st2)
    BY ONLY <1>8, <1>9, <2>1, <2>3, <2>4, <2>5, <2>6, AddFacts
  <2> QED BY <2>2, <2>7 DEF Joined
<1>11. \E lo2, hi2 : Bst(t2, sp, T[sp] \cup {n}, lo2, hi2, Starts(mp2))
  BY <1>1, <1>10
<1>12. Apart(mp2, T[sp] \cup {n})
  <2>1. \A x \in T[sp] : mp2[x].vfp = map[x].vfp /\ x # n
    BY <1>2, <1>3 DEF Placed
  <2>2. \A x \in T[sp] : ~Meet(mp2[x].vfp, f) /\ ~Meet(f, mp2[x].vfp)
    BY <1>6, <2>1 DEF Meet
  <2>3. mp2[n].vfp = f
    BY <1>1
  <2> QED BY <1>2, <1>3, <2>1, <2>2, <2>3 DEF Apart
<1>13. \A x \in T[sp] \cup {n} : mp2[x].space = sp
  BY <1>1, <1>2, <1>3 DEF Placed
<1>14. \A s2 \in Space \ {sp} : \A x \in T[s2] :
         x \notin T[sp] \cup {n} /\ Placed(map, mp2, x)
  <2>1. ASSUME NEW s2 \in Space \ {sp}, NEW x \in T[s2]
        PROVE  x \notin T[sp] \cup {n} /\ Placed(map, mp2, x)
    <3>1. s2 \in Space /\ s2 # sp
      OBVIOUS
    <3>2. x \notin T[sp]
      BY <1>2, <2>1, <3>1, TreesDisjoint
    <3>3. x \in Node \ {n} /\ Placed(map, mp2, x)
      BY <1>3, <2>1
    <3> QED BY <3>2, <3>3
  <2> QED BY <2>1
<1>15. PICK T1, T2 : T1 = T[sp] \cup {n} /\ T2 = [T EXCEPT ![sp] = T1]
  OBVIOUS
<1>16. T1 \in SUBSET Node
  BY <1>2, <1>15
<1>17. Grown(mp2, t2, T2)
  BY <1>2, <1>10, <1>11, <1>12, <1>13, <1>14, <1>15, <1>16, GrownFrame
<1> QED BY <1>10, <1>17

LEMMA AddStep ==
  ASSUME MapDBInv, NEW t \in Node, Add(t),
         NEW map2, NEW tree2, NEW job2, map2 = map', tree2 = tree', job2 = job'
  PROVE  Sound(map2, tree2, job2)
<1>1. job.do = "add" /\ t \notin Live
  BY DEF Add
<1>2. map \in [Node -> Mappings] /\ tree \in Trees
  BY <1>1, InvWaits
<1>3. PICK pos, T : Waits(map, tree, job, LiveIn(map), pos, T)
  BY <1>1, InvWaits
<1>4. PICK q, s, n : q = job.req /\ s = q.source /\ n = map[s].next
  OBVIOUS
<1>5. /\ Listed(map, LiveIn(map), pos, Null, Null, 0) /\ Grown(map, tree, T)
      /\ Asked(map, LiveIn(map), q) /\ Clear(map, T, q)
  BY <1>1, <1>3, <1>4, WaitsForWhat
<1>6. t \in Node \ LiveIn(map)
  BY <1>1 DEF Live, LiveIn
<1>7. PICK new : new = [space |-> q.space, next |-> n, prev |-> s, level |-> map[s].level + 1,
                        vfp |-> q.vfp, perms |-> q.perms, phys |-> q.phys]
  OBVIOUS
<1>8. /\ tree2 = addMapping(tree, q.space, q.vfp, t)
      /\ map2 = With(map, s, t, n, new)
      /\ job2 = NoJob
  BY <1>4, <1>7 DEF Add, Done, With
<1>9. s \in LiveIn(map) /\ q.space \in Space /\ q.vfp \in Fpages /\ q.phys \in Page
      /\ q.perms \subseteq map[s].perms
  BY <1>4, <1>5, AskedFacts
<1>10. s \in Node /\ s # t /\ n \in Ref /\ n # s /\ n # t /\ q.perms \in SUBSET Perm
  <2>1. s \in Node /\ s # t
    BY <1>6, <1>9 DEF LiveIn
  <2>2. n \in Ref
    BY <1>2, <1>4, <2>1, MappingLinks
  <2>3. Leads(n, LiveIn(map), pos, s)
    BY <1>4, <1>5, <1>9, NoFlushFacts
  <2>4. n # Null => n \in LiveIn(map) /\ pos[s] < pos[n] /\ pos[s] \in Nat
    BY <1>5, <1>9, <2>3, NoFlushFacts DEF Leads, Adjacent
  <2>5. n # s
    BY <2>1, <2>4, NodeCount
  <2>6. n # t
    BY <1>6, <2>4, NodeCount
  <2>7. map[s].perms \in SUBSET Perm
    BY <1>2, <2>1 DEF Mappings
  <2> QED BY <1>9, <2>1, <2>2, <2>5, <2>6, <2>7
<1>11. map2 \in [Node -> Mappings] /\ Entered(map, map2, s, t, n, q)
  <2>1. map2 = With(map, s, t, n, new)
    BY <1>8
  <2> QED BY ONLY <1>2, <1>6, <1>7, <1>9, <1>10, <2>1, Entering
<1>12. PICK pos2 : Listed(map2, LiveIn(map2), pos2, Null, Null, 0)
  BY ONLY <1>2, <1>4, <1>5, <1>6, <1>11, AddList
<1>13. /\ \A x \in Node \ {t} : Placed(map, map2, x)
       /\ map2[t].vfp = q.vfp /\ map2[t].space = q.space
  BY <1>11 DEF Entered, SameContents, Placed
<1>14. tree2 = addMapping(tree, q.space, q.vfp, t)
  BY <1>8
<1>15. tree2 \in Trees /\ \E T2 : Grown(map2, tree2, T2)
  BY ONLY <1>2, <1>5, <1>6, <1>9, <1>13, <1>14, AddTree
<1>16. PICK T2 : Grown(map2, tree2, T2)
  BY <1>15
<1>17. Waits(map2, tree2, job2, LiveIn(map2), pos2, T2)
  BY <1>8, <1>12, <1>16 DEF Waits
<1> QED BY <1>11, <1>15, <1>17, SoundWaits

-----------------------------------------------------------------------------
(* exitSpace.                                                              *)

LEMMA ExitStep ==
  ASSUME MapDBInv, NEW sp \in Space \ {Sigma0}, Exit(sp), NEW job2, job2 = job'
  PROVE  Sound(map, tree, job2)
<1>1. job = NoJob /\ job2 = ToExit(sp)
  BY DEF Exit
<1>2. job.do = "nothing"
  BY <1>1, JobKinds
<1>3. map \in [Node -> Mappings] /\ tree \in Trees
  BY <1>2, InvWaits
<1>4. PICK pos, T : Waits(map, tree, job, LiveIn(map), pos, T)
  BY <1>2, InvWaits
<1>5. Listed(map, LiveIn(map), pos, Null, Null, 0) /\ Grown(map, tree, T)
  BY <1>2, <1>4, WaitsForWhat
<1>6. Waits(map, tree, job2, LiveIn(map), pos, T)
  BY <1>1, <1>5 DEF Waits
<1> QED BY <1>3, <1>6, SoundWaits

\* The root of a tree is in it.
LEMMA RootInTree ==
  ASSUME NEW mp, NEW t, NEW T, Grown(mp, t, T), NEW sp \in Space, t.mem[sp] # Null
  PROVE  t.mem[sp] \in T[sp]
<1>1. PICK lo, hi : Bst(t, sp, T[sp], lo, hi, Starts(mp))
  BY GrownFacts
<1>2. Child(t.mem[sp], -1, Top, T[sp], lo, hi, Starts(mp))
  BY <1>1, BstLinks
<1> QED BY <1>2 DEF Child

LEMMA ExitNextStep ==
  ASSUME MapDBInv, ExitNext, NEW job2, job2 = job'
  PROVE  Sound(map, tree, job2)
<1>1. job.do = "exit"
  BY DEF ExitNext
<1>2. map \in [Node -> Mappings] /\ tree \in Trees
  BY <1>1, InvWaits
<1>3. PICK pos, T : Waits(map, tree, job, LiveIn(map), pos, T)
  BY <1>1, InvWaits
<1>4. PICK sp, m : sp = job.space /\ m = tree.mem[sp]
  OBVIOUS
<1>5. /\ Listed(map, LiveIn(map), pos, Null, Null, 0) /\ Grown(map, tree, T)
      /\ sp \in Space \ {Sigma0}
  BY <1>1, <1>3, <1>4, WaitsForWhat
<1>6. m # Null /\ job2 = ToRotate(sp, m)
  BY <1>4 DEF ExitNext
<1>7. m \in T[sp]
  BY <1>4, <1>5, <1>6, RootInTree
<1>8. Rooted(tree, tree, sp, m)
  BY <1>2, <1>4 DEF Rooted
<1>9. Waits(map, tree, job2, LiveIn(map), pos, T)
  BY <1>5, <1>6, <1>7, <1>8 DEF Waits
<1> QED BY <1>2, <1>9, SoundWaits

LEMMA ExitLastStep ==
  ASSUME MapDBInv, ExitLast, NEW job2, job2 = job'
  PROVE  Sound(map, tree, job2)
<1>1. job.do = "exit" /\ job2 = NoJob
  BY DEF ExitLast, Done
<1>2. map \in [Node -> Mappings] /\ tree \in Trees
  BY <1>1, InvWaits
<1>3. PICK pos, T : Waits(map, tree, job, LiveIn(map), pos, T)
  BY <1>1, InvWaits
<1>4. Listed(map, LiveIn(map), pos, Null, Null, 0) /\ Grown(map, tree, T)
  BY <1>1, <1>3, WaitsForWhat
<1>5. Waits(map, tree, job2, LiveIn(map), pos, T)
  BY <1>1, <1>4 DEF Waits
<1> QED BY <1>2, <1>5, SoundWaits

\* The tree with the links turned, and l as the root.
Turned(u, sp, m, l) ==
  [mem   |-> [u.mem EXCEPT ![sp] = l],
   left  |-> [u.left EXCEPT ![m] = u.right[l]],
   right |-> [u.right EXCEPT ![l] = m]]

LEMMA TurnedFacts ==
  ASSUME NEW mp, NEW u \in Trees, NEW T, Grown(mp, u, T), NEW sp \in Space, NEW m \in T[sp],
         u.mem[sp] = m, NEW l, l = u.left[m], l # Null, NEW u2, u2 = Turned(u, sp, m, l)
  PROVE  u2 \in Trees /\ l \in T[sp] /\ Grown(mp, u2, T)
<1>1. T[sp] \in SUBSET Node /\ Apart(mp, T[sp]) /\ \A x \in T[sp] : mp[x].space = sp
  BY GrownFacts
<1>2. /\ u.mem \in [Space -> Ref] /\ u.left \in [Node -> Ref] /\ u.right \in [Node -> Ref]
  BY TreeFields
<1>3. m \in Node /\ l \in Node /\ u.right[l] \in Ref /\ m \in Ref
  BY <1>1, <1>2 DEF Ref
<1>4. /\ u2.mem = [u.mem EXCEPT ![sp] = l]
      /\ u2.left = [u.left EXCEPT ![m] = u.right[l]]
      /\ u2.right = [u.right EXCEPT ![l] = m]
  BY DEF Turned
<1>5. u2 \in Trees
  <2>1. /\ u2.mem \in [Space -> Ref] /\ u2.left \in [Node -> Ref] /\ u2.right \in [Node -> Ref]
    BY <1>2, <1>3, <1>4 DEF Ref
  <2>2. u2 = [mem |-> u2.mem, left |-> u2.left, right |-> u2.right]
    BY <1>4 DEF Turned
  <2> QED BY <2>1, <2>2 DEF Trees
<1>6. PICK S, st : S = T[sp] /\ st = Starts(mp)
  OBVIOUS
<1>7. PICK lo, hi : Bst(u, sp, S, lo, hi, st)
  BY <1>6, GrownFacts
<1>8. /\ u2.mem[sp] = l
      /\ \A x \in S : x # m => u2.left[x] = u.left[x]
      /\ u2.left[m] = u.right[l]
      /\ \A x \in S : x # l => u2.right[x] = u.right[x]
      /\ u2.right[l] = m
  BY <1>1, <1>2, <1>3, <1>4, <1>6
<1>9. m \in S /\ u.mem[sp] = m /\ l = u.left[m] /\ l # Null
  BY <1>6
<1>10. l \in S /\ \E lo2, hi2 : Bst(u2, sp, S, lo2, hi2, st)
  BY ONLY <1>7, <1>8, <1>9, Rotated
<1>11. OnlyChanged(u, u2, sp, S)
  BY <1>2, <1>3, <1>4, <1>9, <1>10 DEF OnlyChanged
<1>12. \A s2 \in Space \ {sp} : \A x \in T[s2] : x \notin S /\ Placed(mp, mp, x)
  <2>1. ASSUME NEW s2 \in Space \ {sp}, NEW x \in T[s2]
        PROVE  x \notin S
    <3>1. s2 \in Space /\ s2 # sp
      OBVIOUS
    <3> QED BY <1>6, <2>1, <3>1, TreesDisjoint
  <2> QED BY <2>1 DEF Placed
<1>13. T = [T EXCEPT ![sp] = S]
  <2>1. T \in [Space -> SUBSET Node]
    BY DEF Grown
  <2> QED BY <1>6, <2>1
<1>14. S \in SUBSET Node /\ Apart(mp, S) /\ \A x \in S : mp[x].space = sp
  BY <1>1, <1>6
<1>15. \E lo2, hi2 : Bst(u2, sp, S, lo2, hi2, Starts(mp))
  BY <1>6, <1>10
<1>16. Grown(mp, u, T) /\ sp \in Space
  OBVIOUS
<1>17. Grown(mp, u2, T)
  BY ONLY <1>11, <1>12, <1>13, <1>14, <1>15, <1>16, GrownFrame
<1> QED BY <1>5, <1>6, <1>10, <1>17

LEMMA RotateStep ==
  ASSUME MapDBInv, Rotate, NEW tree2, NEW job2, tree2 = tree', job2 = job'
  PROVE  Sound(map, tree2, job2)
<1>1. job.do = "rotate"
  BY DEF Rotate
<1>2. map \in [Node -> Mappings] /\ tree \in Trees
  BY <1>1, InvWaits
<1>3. PICK pos, T : Waits(map, tree, job, LiveIn(map), pos, T)
  BY <1>1, InvWaits
<1>4. PICK sp, m, l : sp = job.space /\ m = job.m /\ l = tree.left[m]
  OBVIOUS
<1>5. /\ Listed(map, LiveIn(map), pos, Null, Null, 0) /\ sp \in Space \ {Sigma0} /\ sp \in Space
      /\ job = ToRotate(sp, m) /\ m \in T[sp]
  BY <1>1, <1>3, <1>4, WaitsForWhat
<1>6. PICK u : Rooted(tree, u, sp, m) /\ Grown(map, u, T)
  BY <1>1, <1>3, <1>4, WaitsForWhat
<1>7. /\ u \in Trees /\ u.mem[sp] = m /\ u.left = tree.left /\ u.right = tree.right
      /\ \A x \in Space \ {sp} : u.mem[x] = tree.mem[x]
  BY <1>6 DEF Rooted
<1>8. m \in Node /\ m \in LiveIn(map) /\ map[m].space = sp
  BY <1>5, <1>6, GrownFacts
<1>9. /\ tree.mem \in [Space -> Ref] /\ tree.left \in [Node -> Ref] /\ tree.right \in [Node -> Ref]
      /\ tree = [mem |-> tree.mem, left |-> tree.left, right |-> tree.right]
  BY <1>2, TreeFields
<1>10. CASE l # Null
  <2>1. tree2 = [tree EXCEPT !.left[m] = tree.right[l], !.right[l] = m]
    BY <1>4, <1>10 DEF Rotate
  <2>2. job2 = [job EXCEPT !.m = l]
    BY <1>4, <1>10 DEF Rotate
  <2>3. job2 = ToRotate(sp, l)
    BY <1>5, <2>2 DEF ToRotate
  <2>4. PICK u2 : u2 = Turned(u, sp, m, l)
    OBVIOUS
  <2>5. u2 \in Trees /\ l \in T[sp] /\ Grown(map, u2, T)
    <3>1. l = u.left[m] /\ u.mem[sp] = m /\ u \in Trees
      BY <1>4, <1>7
    <3> QED BY ONLY <1>5, <1>6, <1>10, <2>4, <3>1, TurnedFacts
  <2>6. l \in Node
    BY <1>6, <2>5, GrownFacts, <1>5
  <2>7. /\ tree2.mem = tree.mem
        /\ tree2.left = [tree.left EXCEPT ![m] = tree.right[l]]
        /\ tree2.right = [tree.right EXCEPT ![l] = m]
        /\ tree2 = [mem |-> tree2.mem, left |-> tree2.left, right |-> tree2.right]
    BY <1>9, <2>1
  <2>8. tree2 \in Trees
    <3>1. m \in Ref /\ tree.right[l] \in Ref
      BY <1>8, <1>9, <2>6 DEF Ref
    <3>2. tree2.left \in [Node -> Ref] /\ tree2.right \in [Node -> Ref]
      BY <1>9, <2>7, <3>1
    <3> QED BY <1>9, <2>7, <3>2 DEF Trees
  <2>9. Rooted(tree2, u2, sp, l)
    <3>1. u.mem \in [Space -> Ref]
      BY <1>7, TreeFields
    <3>2. /\ u2.mem = [u.mem EXCEPT ![sp] = l]
          /\ u2.left = [u.left EXCEPT ![m] = u.right[l]]
          /\ u2.right = [u.right EXCEPT ![l] = m]
      BY <2>4 DEF Turned
    <3>3. u2.left = tree2.left /\ u2.right = tree2.right
      BY <1>7, <2>7, <3>2
    <3>4. u2.mem[sp] = l /\ \A x \in Space \ {sp} : u2.mem[x] = tree2.mem[x]
      BY <1>5, <1>7, <2>7, <3>1, <3>2
    <3> QED BY <2>5, <3>3, <3>4 DEF Rooted
  <2>10. Waits(map, tree2, job2, LiveIn(map), pos, T)
    BY <1>5, <2>3, <2>5, <2>9 DEF Waits
  <2> QED BY <1>2, <2>8, <2>10, SoundWaits
<1>11. CASE l = Null
  <2>1. tree2 = [tree EXCEPT !.mem[sp] = m] /\ job2 = ToFlush(m, "exit", [space |-> sp])
    BY <1>4, <1>11 DEF Rotate
  <2>2. tree2 = u
    <3>1. u = [mem |-> u.mem, left |-> u.left, right |-> u.right] /\ u.mem \in [Space -> Ref]
      BY <1>7, TreeFields
    <3>2. tree2 = [mem |-> [tree.mem EXCEPT ![sp] = m], left |-> tree.left, right |-> tree.right]
      BY <1>9, <2>1
    <3>3. u.mem = [tree.mem EXCEPT ![sp] = m]
      BY <1>5, <1>7, <1>9, <3>1
    <3> QED BY <1>7, <3>1, <3>2, <3>3
  <2>3. m # First
    BY <1>5, <1>8, NoFlushFacts DEF AtFirst
  <2>4. Listed(map, LiveIn(map), pos, map[m].prev, m, map[m].level)
    BY <1>5, <1>8, <2>3, FlushBegins
  <2>5. PICK q : q = [space |-> sp]
    OBVIOUS
  <2>6. FlushedFor(map, LiveIn(map), pos, T, m, map[m].level, "exit", q)
    BY <1>5, <2>5 DEF FlushedFor
  <2>7. m # Null
    BY <1>8, NodeCount
  <2>8. FlushGoes(map, tree2, Flushes(m, map[m].prev, map[m].level, "exit", q),
                  LiveIn(map), pos, T)
    BY <1>6, <2>2, <2>4, <2>6, <2>7, FlushMade
  <2>9. FlushGoes(map, tree2, job2, LiveIn(map), pos, T)
    BY <2>1, <2>5, <2>8, FlushJob
  <2> QED BY <1>2, <1>7, <2>2, <2>9, SoundFlush
<1> QED BY <1>10, <1>11

-----------------------------------------------------------------------------
(* initSpaces.                                                             *)

LEMMA FirstMapping ==
  ASSUME Init
  PROVE  /\ map \in [Node -> Mappings] /\ LiveIn(map) = {First}
         /\ map[First].space = Sigma0 /\ map[First].level = 1
         /\ map[First].vfp = CompleteFpage /\ map[First].phys = 0
         /\ map[First].next = Null /\ map[First].prev = Null
<1>1. PICK f : f = [Unused EXCEPT !.space = Sigma0, !.level = 1, !.perms = Perm]
  OBVIOUS
<1>2. map = [n \in Node |-> IF n = First THEN f ELSE Unused]
  BY <1>1 DEF Init
<1>3. First \in Node /\ Sigma0 \in Space
  BY FirstAssumption, MapDBAssumption
<1>4. f = [space |-> Sigma0, next |-> Null, prev |-> Null, level |-> 1,
           vfp |-> CompleteFpage, perms |-> Perm, phys |-> 0]
  BY <1>1 DEF Unused
<1>5. CompleteFpage \in Fpages /\ 0 \in Page
  BY UnusedMapping DEF Unused, Mappings
<1>6. f \in Mappings /\ f.level = 1
  BY <1>3, <1>4, <1>5 DEF Mappings
<1>7. f # Unused
  BY <1>6, UnusedMapping
<1>8. map \in [Node -> Mappings] /\ map[First] = f
  BY <1>2, <1>3, <1>6, UnusedMapping
<1>9. LiveIn(map) = {First}
  BY <1>2, <1>3, <1>7 DEF LiveIn
<1> QED BY <1>4, <1>8, <1>9

LEMMA FirstList ==
  ASSUME Init
  PROVE  \E pos : Listed(map, LiveIn(map), pos, Null, Null, 0)
<1>1. PICK pos : pos = [x \in Node |-> 0]
  OBVIOUS
<1>2. PICK L : L = {First}
  OBVIOUS
<1>3. LiveIn(map) = L /\ First \in Node /\ pos[First] = 0 /\ Sigma0 \in Space
  BY <1>1, <1>2, FirstMapping, FirstAssumption, MapDBAssumption
<1>4. Ordered(L, pos)
  BY <1>2, <1>3 DEF Ordered
<1>5. AtFirst(map, L, pos)
  BY <1>2, <1>3, FirstMapping DEF AtFirst
<1>6. CompleteFpage \in Fpages /\ CompleteFpage.size = Bits
  BY UnusedMapping DEF Unused, Mappings, CompleteFpage, fpage
<1>7. Limit(map, First) = Top
  <2>1. map[First].vfp.size = Bits /\ map[First].phys = 0
    BY <1>6, FirstMapping
  <2> QED BY <2>1, TopNumber DEF Limit, Top
<1>8. Filled(map, First)
  BY <1>3, <1>6, <1>7, FirstMapping, TopNumber DEF Filled
<1>9. Leads(map[First].next, L, pos, First) /\ Returns(map[First].prev, L, pos, First)
  BY <1>2, <1>3, FirstMapping DEF Leads, Returns
<1>10. Listed(map, L, pos, Null, Null, 0)
  BY <1>2, <1>4, <1>5, <1>8, <1>9 DEF Listed
<1> QED BY <1>3, <1>10

LEMMA FirstTrees ==
  ASSUME Init
  PROVE  tree \in Trees /\ \E T : Grown(map, tree, T)
<1>1. First \in Node /\ Sigma0 \in Space /\ Null \notin Node
  BY FirstAssumption, MapDBAssumption
<1>2. tree = [mem   |-> [sp \in Space |-> IF sp = Sigma0 THEN First ELSE Null],
              left  |-> [n \in Node |-> Null], right |-> [n \in Node |-> Null]]
  BY DEF Init
<1>3. tree \in Trees
  BY <1>1, <1>2 DEF Trees, Ref
<1>4. PICK T : T = [sp \in Space |-> IF sp = Sigma0 THEN {First} ELSE {}]
  OBVIOUS
<1>5. PICK lo, hi, st : /\ lo = [x \in Node |-> -1] /\ hi = [x \in Node |-> Top]
                        /\ st = Starts(map)
  OBVIOUS
<1>6. CompleteFpage \in Fpages /\ Start(CompleteFpage) = 0
  BY UnusedMapping DEF Unused, Mappings, CompleteFpage, fpage, Start
<1>7. st[First] = 0 /\ lo[First] = -1 /\ hi[First] = Top
  BY <1>1, <1>5, <1>6, FirstMapping DEF Starts
<1>8. ASSUME NEW sp \in Space
      PROVE  /\ Apart(map, T[sp]) /\ \A x \in T[sp] : map[x].space = sp
             /\ Bst(tree, sp, T[sp], lo, hi, st)
  <2>1. CASE sp = Sigma0
    <3>1. PICK S : S = {First}
      OBVIOUS
    <3>2. T[sp] = S
      BY <1>4, <2>1, <3>1
    <3>3. Apart(map, S) /\ \A x \in S : map[x].space = sp
      BY <1>1, <1>6, <2>1, <3>1, FirstMapping DEF Apart
    <3>4. Spans(S, lo, hi, st)
      BY <1>7, <3>1, TopNumber DEF Spans
    <3>5. Nested(S, lo, hi, st)
      BY <1>7, <3>1 DEF Nested
    <3>6. tree.mem[sp] = First /\ tree.left[First] = Null /\ tree.right[First] = Null
      BY <1>1, <1>2, <2>1
    <3>7. Child(tree.mem[sp], -1, Top, S, lo, hi, st)
      BY <1>1, <1>7, <3>1, <3>6 DEF Child
    <3>8. /\ Child(tree.left[First], lo[First], st[First], S, lo, hi, st)
          /\ Child(tree.right[First], st[First], hi[First], S, lo, hi, st)
      BY <1>7, <3>1, <3>6 DEF Child
    <3>9. Bst(tree, sp, S, lo, hi, st)
      BY <1>1, <3>1, <3>4, <3>5, <3>7, <3>8 DEF Bst
    <3> QED BY <3>2, <3>3, <3>9
  <2>2. CASE sp # Sigma0
    <3>1. T[sp] = {} /\ tree.mem[sp] = Null
      BY <1>2, <1>4, <2>2
    <3>2. Bst(tree, sp, {}, lo, hi, st)
      BY <3>1 DEF Bst, Spans, Nested, Child
    <3> QED BY <3>1, <3>2 DEF Apart
  <2> QED BY <2>1, <2>2
<1>9. T \in [Space -> SUBSET Node]
  BY <1>1, <1>4
<1>10. Grown(map, tree, T)
  BY <1>5, <1>8, <1>9 DEF Grown
<1> QED BY <1>3, <1>10

LEMMA InitSound ==
  ASSUME Init
  PROVE  MapDBInv
<1>1. map \in [Node -> Mappings] /\ tree \in Trees /\ job = NoJob
  BY FirstMapping, FirstTrees DEF Init
<1>2. PICK pos : Listed(map, LiveIn(map), pos, Null, Null, 0)
  BY FirstList
<1>3. PICK T : Grown(map, tree, T)
  BY FirstTrees
<1>4. Waits(map, tree, job, LiveIn(map), pos, T)
  BY <1>1, <1>2, <1>3 DEF Waits
<1>5. Sound(map, tree, job)
  BY <1>1, <1>4, SoundWaits
<1> QED BY <1>5 DEF MapDBInv

-----------------------------------------------------------------------------
(* All steps.                                                              *)

LEMMA InvKept ==
  ASSUME MapDBInv, [DownNext]_vars
  PROVE  MapDBInv'
<1>1. PICK map2, tree2, job2 : map2 = map' /\ tree2 = tree' /\ job2 = job'
  OBVIOUS
<1>2. SUFFICES Sound(map2, tree2, job2)
  BY <1>1 DEF MapDBInv
<1>3. Sound(map, tree, job)
  BY DEF MapDBInv
<1>4. ASSUME NEW ss \in Space, NEW rs \in Space, NEW sfp \in Sends, NEW gives \in Gives,
             NEW b \in Bases, NEW acc \in Accepts, Map(ss, sfp, gives, b, rs, acc),
             ~Upwards
      PROVE  Sound(map2, tree2, job2)
  <2>1. map2 = map /\ tree2 = tree
    BY <1>1, <1>4 DEF Map
  <2>2. Sound(map, tree, job2)
    BY <1>1, <1>4, MapStep
  <2> QED BY <2>1, <2>2
<1>5. ASSUME NEW sp \in Space \ {Sigma0}, Activate(sp)
      PROVE  Sound(map2, tree2, job2)
  BY <1>1, <1>3, <1>5 DEF Activate
<1>6. ASSUME NEW sp \in Space \ {Sigma0}, Exit(sp)
      PROVE  Sound(map2, tree2, job2)
  <2>1. map2 = map /\ tree2 = tree
    BY <1>1, <1>6 DEF Exit
  <2>2. Sound(map, tree, job2)
    BY <1>1, <1>6, ExitStep
  <2> QED BY <2>1, <2>2
<1>7. ASSUME NEW p \in Faults, Sigma0Fault(p)
      PROVE  Sound(map2, tree2, job2)
  BY <1>1, <1>3, <1>7 DEF Sigma0Fault
<1>8. CASE Flush
  BY <1>1, <1>8, FlushStep
<1>9. CASE Look
  <2>1. map2 = map /\ tree2 = tree
    BY <1>1, <1>9 DEF Look
  <2>2. Sound(map, tree, job2)
    BY <1>1, <1>9, LookStep
  <2> QED BY <2>1, <2>2
<1>10. ASSUME NEW t \in Node, Add(t)
       PROVE  Sound(map2, tree2, job2)
  BY <1>1, <1>10, AddStep
<1>11. CASE ExitNext
  <2>1. map2 = map /\ tree2 = tree
    BY <1>1, <1>11 DEF ExitNext
  <2>2. Sound(map, tree, job2)
    BY <1>1, <1>11, ExitNextStep
  <2> QED BY <2>1, <2>2
<1>12. CASE Rotate
  <2>1. map2 = map
    BY <1>1, <1>12 DEF Rotate
  <2>2. Sound(map, tree2, job2)
    BY <1>1, <1>12, RotateStep
  <2> QED BY <2>1, <2>2
<1>13. CASE ExitLast
  <2>1. map2 = map /\ tree2 = tree
    BY <1>1, <1>13 DEF ExitLast
  <2>2. Sound(map, tree, job2)
    BY <1>1, <1>13, ExitLastStep
  <2> QED BY <2>1, <2>2
<1>14. CASE UNCHANGED vars
  BY <1>1, <1>3, <1>14 DEF vars
<1> QED BY <1>4, <1>5, <1>6, <1>7, <1>8, <1>9, <1>10, <1>11, <1>12, <1>13, <1>14
        DEF DownNext, Next, Handlers, Steps

\* A mapping that waits to be added has its source in the list.
LEMMA InvSource ==
  ASSUME MapDBInv
  PROVE  SourceKept
<1>1. LiveIn(map) = Live
  BY DEF LiveIn, Live
<1>2. CASE job.do = "flush"
  BY <1>2 DEF SourceKept, Crash
<1>3. CASE job.do # "flush"
  <2>1. PICK pos, T : Waits(map, tree, job, LiveIn(map), pos, T)
    BY <1>3, InvWaits
  <2>2. /\ job.do \in {"nothing", "add", "look", "exit", "rotate"}
        /\ job.do = "add" => Asked(map, LiveIn(map), job.req)
    BY <2>1, WaitsForWhat
  <2>3. job # Crash
    BY <2>2 DEF Crash
  <2> QED BY <1>1, <2>2, <2>3 DEF SourceKept, Asked
<1> QED BY <1>2, <1>3

\* Between handlers the list and what is said of it are complete.
LEMMA InvSound ==
  ASSUME MapDBInv
  PROVE  DerivationsSound
<1>0. SourceKept
  BY InvSource
<1>1. CASE job # NoJob
  BY <1>0, <1>1 DEF DerivationsSound, DepthFirst, Confined
<1>2. CASE job = NoJob
  <2>1. job.do = "nothing"
    BY <1>2, JobKinds
  <2>2. map \in [Node -> Mappings]
    BY <2>1, InvWaits
  <2>3. PICK pos, T : Waits(map, tree, job, LiveIn(map), pos, T)
    BY <2>1, InvWaits
  <2>4. LiveIn(map) = Live
    BY DEF LiveIn, Live
  <2>5. Listed(map, Live, pos, Null, Null, 0)
    BY <2>3, <2>4, WaitsForWhat
  <2> QED BY <1>0, <2>2, <2>5, DepthFirstNow, ConfinedNow DEF DerivationsSound
<1> QED BY <1>1, <1>2

LEMMA Invariant ==
  DownSpec => []MapDBInv
<1>1. Init => MapDBInv
  BY InitSound
<1>2. MapDBInv /\ [DownNext]_vars => MapDBInv'
  BY InvKept
<1> QED BY <1>1, <1>2, PTL DEF DownSpec

\* Between handlers the list is the tree of all mappings in depth-first order,
\* and nobody has more memory or rights than was given, after any sequence of
\* map2, flush and exitSpace, even if removeMapping forgets a subtree; but for
\* the sends that would replace what their source was derived from (Upwards),
\* which map2 goes wrong with.  Within map2, whatever is flushed to make room
\* for a mapping, the source is not, and the search for it ends within the list
\* (SourceKept).  As only sends that get to the search are left out, the three
\* reasons for which the code does without it (small mappings are in the way, or
\* the source is larger than what is, or not farther from the root) are right.
THEOREM DerivationsStaySound == DownSpec => []DerivationsSound
<1>1. MapDBInv => DerivationsSound
  BY InvSound
<1> QED BY <1>1, Invariant, PTL
=============================================================================
