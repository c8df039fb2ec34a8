------------------------------ MODULE CapsProofs ------------------------------
(***************************************************************************)
(* Theorems about the capability kernel, for every memory map, size of     *)
(* words, pages and tables: no memory is ever used twice, no address is    *)
(* mapped twice, what one process does leaves the other's memory and       *)
(* capabilities as they are, and all of the usable memory is found.        *)
(*                                                                         *)
(* The first part is about the operators of CapsMemory: rounding, taking   *)
(* objects from untyped memory, and turning a memory map into blocks of    *)
(* untyped memory.  The inductive invariant of the second says what the    *)
(* memory is at every step of the initialization, and, in user mode, that  *)
(* the capability spaces split in two sets that do not lead out of         *)
(* themselves.  The last part adds to it that no usable page is lost.      *)
(***************************************************************************)
EXTENDS Caps, NatLemmas, FiniteSetTheorems, SequenceTheorems

-----------------------------------------------------------------------------
(* Powers of two and rounding.                                             *)

LEMMA PowersPositive ==
  \A b \in 0..WordBits : 2^b \in Nat \ {0}
<1> DEFINE bad == {b \in 0..WordBits : 2^b \notin Nat \ {0}}
<1>1. SUFFICES ASSUME bad # {} PROVE FALSE
  OBVIOUS
<1>2. bad \in SUBSET Nat
  BY WidthsAssumption
<1>3. PICK b \in bad : \A c \in bad : b <= c
  BY <1>1, <1>2, LeastNumber
<1>4. b # 0
  <2> SUFFICES ASSUME b = 0 PROVE FALSE
    OBVIOUS
  <2>1. 2^b = 1
    BY PowersAssumption, Zenon
  <2> QED BY <2>1, <1>3
<1>5. b - 1 \in 0..WordBits - 1 /\ b - 1 \in 0..WordBits /\ b - 1 \notin bad
  BY <1>3, <1>4, WidthsAssumption
<1>6. 2^((b - 1) + 1) = 2 * 2^(b - 1)
  BY <1>5, PowersAssumption
<1>7. 2^(b - 1) \in Nat \ {0}
  BY <1>5
<1>8. (b - 1) + 1 = b
  BY <1>3, WidthsAssumption
<1>9. PICK p \in Nat \ {0} : p = 2^(b - 1)
  BY <1>7
<1>10. 2^b = 2 * p
  BY <1>6, <1>8, <1>9
<1>11. 2 * p \in Nat \ {0}
  OBVIOUS
<1> QED BY <1>3, <1>10, <1>11

\* A power is a multiple of every smaller one.
LEMMA PowersDivide ==
  ASSUME NEW a \in 0..WordBits, NEW b \in a..WordBits
  PROVE  (2^b) % (2^a) = 0
<1> DEFINE bad == {c \in a..WordBits : (2^c) % (2^a) # 0}
<1>1. SUFFICES ASSUME bad # {} PROVE FALSE
  OBVIOUS
<1>2. bad \in SUBSET Nat
  BY WidthsAssumption
<1>3. PICK c \in bad : \A d \in bad : c <= d
  BY <1>1, <1>2, LeastNumber
<1>4. 2^a \in Nat \ {0}
  BY PowersPositive
<1>5. c # a
  <2>1. 1 * 2^a = 2^a
    BY <1>4
  <2>2. (1 * 2^a) % (2^a) = 0
    BY <1>4, Multiple
  <2> QED BY <2>1, <2>2, <1>3
<1>6. c - 1 \in 0..WordBits - 1 /\ c - 1 \in a..WordBits /\ c - 1 \notin bad /\ (c - 1) + 1 = c
  BY <1>3, <1>5, WidthsAssumption
<1>7. 2^c = 2 * 2^(c - 1) /\ 2^(c - 1) \in Nat \ {0}
  <2>1. 2^((c - 1) + 1) = 2 * 2^(c - 1)
    BY <1>6, PowersAssumption
  <2>2. c - 1 \in 0..WordBits
    BY <1>6, WidthsAssumption
  <2>3. (c - 1) + 1 = c
    BY <1>6
  <2>4. 2^c = 2 * 2^(c - 1)
    BY <2>1, <2>3
  <2> QED BY <2>2, <2>4, PowersPositive
<1>8. (2^(c - 1)) % (2^a) = 0
  BY <1>6
<1>9. PICK k \in Int : 2^(c - 1) = k * 2^a
  <2>1. 2^(c - 1) \in Int
    BY <1>7
  <2> QED BY <2>1, <1>4, <1>8, MultipleOf, Zenon
<1>10. 2^c = (2 * k) * 2^a
  BY <1>7, <1>9, <1>4
<1>11. ((2 * k) * 2^a) % (2^a) = 0
  BY <1>4, Multiple
<1> QED BY <1>3, <1>10, <1>11

LEMMA PowersGrow ==
  ASSUME NEW a \in 0..WordBits, NEW b \in a..WordBits
  PROVE  2^a <= 2^b /\ (a # b => 2^a < 2^b)
<1>1. \A c \in 0..WordBits : 2^c \in Nat \ {0}
  BY PowersPositive
<1>2. \A c \in 0..WordBits : \A d \in c..WordBits : 2^c <= 2^d
  <2> SUFFICES ASSUME NEW c \in 0..WordBits, NEW d \in c..WordBits PROVE 2^c <= 2^d
    OBVIOUS
  <2>1. d \in 0..WordBits
    BY WidthsAssumption
  <2>2. 2^c \in Nat \ {0} /\ 2^d \in Nat \ {0} /\ (2^d) % (2^c) = 0
    BY <1>1, <2>1, PowersDivide
  <2>3. 0 % (2^c) = 0
    BY <2>2, Multiple
  <2>4. 0 + 2^c <= 2^d
    BY <2>2, <2>3, MultiplesApart
  <2> QED BY <2>2, <2>4
<1>3. ASSUME a # b PROVE 2^a < 2^b
  <2>1. a \in 0..WordBits - 1 /\ a + 1 \in 0..WordBits /\ b \in (a + 1)..WordBits
    BY <1>3, WidthsAssumption
  <2>2. 2^(a + 1) = 2 * 2^a /\ 2^(a + 1) <= 2^b
    BY <1>2, <2>1, PowersAssumption
  <2>3. 2^a \in Nat \ {0} /\ 2^b \in Nat \ {0} /\ b \in 0..WordBits
    BY <1>1, WidthsAssumption
  <2> QED BY <2>2, <2>3
<1> QED BY <1>2, <1>3

LEMMA PageFacts ==
  /\ PageLen \in Nat \ {0, 1} /\ Words \in Nat \ {0} /\ PageLen < Words
  /\ PageBits \in 0..WordBits - 1 /\ PageBits \in 0..WordBits
  /\ Words % PageLen = 0 /\ 0 % PageLen = 0 /\ PageLen % PageLen = 0
<1>1. PageBits \in 0..WordBits - 1 /\ PageBits \in 0..WordBits /\ WordBits \in PageBits..WordBits
      /\ WordBits \in 0..WordBits /\ PageBits # WordBits
  BY WidthsAssumption
<1>2. PageLen \in Nat \ {0} /\ Words \in Nat \ {0}
  BY <1>1, PowersPositive DEF PageLen, Words
<1>3. PageLen < Words /\ Words % PageLen = 0
  BY <1>1, PowersGrow, PowersDivide DEF PageLen, Words
<1>4. PageLen % PageLen = 0
  BY <1>1, PowersDivide, WidthsAssumption DEF PageLen
<1>5. 0 * PageLen = 0
  BY <1>2
<1>6. (0 * PageLen) % PageLen = 0
  BY <1>2, Multiple
<1>7. PageLen # 1
  <2>1. 0 \in 0..WordBits /\ PageBits \in 0..WordBits /\ PageBits # 0
    BY WidthsAssumption
  <2>2. 2^0 < 2^PageBits
    BY <2>1, PowersGrow
  <2> QED BY <2>2, PowersAssumption, <1>2 DEF PageLen
<1> QED BY <1>1, <1>2, <1>3, <1>4, <1>5, <1>6, <1>7

Aligned(a) == a % PageLen = 0

LEMMA AlignedFacts ==
  /\ Aligned(0) /\ Aligned(PageLen) /\ Aligned(Words)
  /\ \A a, b \in Int : Aligned(a) /\ Aligned(b) => Aligned(a + b) /\ Aligned(a - b)
  /\ \A a, b \in Int : Aligned(a) /\ Aligned(b) /\ a < b => a + PageLen <= b
<1> USE DEF Aligned
<1>1. PageLen \in Nat \ {0}
  BY PageFacts
<1>2. \A a, b \in Int : Aligned(a) /\ Aligned(b) => Aligned(a + b) /\ Aligned(a - b)
  BY <1>1, MultiplesSum
<1>3. \A a, b \in Int : Aligned(a) /\ Aligned(b) /\ a < b => a + PageLen <= b
  BY <1>1, MultiplesApart
<1> QED BY <1>2, <1>3, PageFacts

LEMMA AlignedSum ==
  ASSUME NEW a \in Int, NEW b \in Int, Aligned(a), Aligned(b)
  PROVE  Aligned(a + b) /\ Aligned(a - b)
  BY AlignedFacts

LEMMA AlignedApart ==
  ASSUME NEW a \in Int, NEW b \in Int, Aligned(a), Aligned(b), a < b
  PROVE  a + PageLen <= b
  BY AlignedFacts

LEMMA PageStartFacts ==
  ASSUME NEW x \in Int
  PROVE  /\ PageStart(x) \in Int /\ Aligned(PageStart(x))
         /\ PageStart(x) <= x /\ x < PageStart(x) + PageLen
         /\ x \in Nat => PageStart(x) \in Nat
  BY PageFacts, RoundedDown DEF PageStart, Aligned

LEMMA PageEndFacts ==
  ASSUME NEW x \in Addr
  PROVE  /\ PageStart(x) \in Addr /\ PageEnd(x) \in Addr /\ Aligned(PageEnd(x) + 1)
         /\ PageEnd(x) = PageStart(x) + PageLen - 1
         /\ PageStart(x) <= x /\ x <= PageEnd(x) /\ Aligned(PageStart(x))
<1>1. x \in Nat /\ x < Words /\ Words \in Nat /\ PageLen \in Nat
  BY PageFacts DEF Addr
<1>2. /\ PageStart(x) \in Nat /\ Aligned(PageStart(x))
      /\ PageStart(x) <= x /\ x < PageStart(x) + PageLen
  BY <1>1, PageStartFacts
<1>3. PageStart(x) + PageLen <= Words
  <2>1. PageStart(x) < Words
    BY <1>1, <1>2
  <2> QED BY <2>1, <1>1, <1>2, AlignedFacts
<1>4. Aligned(PageStart(x) + PageLen)
  BY <1>1, <1>2, AlignedFacts
<1>5. PageEnd(x) + 1 = PageStart(x) + PageLen
  BY <1>1, <1>2 DEF PageEnd
<1> QED BY <1>1, <1>2, <1>3, <1>4, <1>5 DEF Addr, PageEnd

-----------------------------------------------------------------------------
(* Taking objects from untyped memory.                                     *)

\* Capabilities to untyped memory that is aligned and lies within memory.
UntypedSet ==
  {u \in [type : {"untyped"}, memory : Nat, bits : 0..WordBits, next : Nat] :
     /\ u.memory % 2^u.bits = 0 /\ u.memory + 2^u.bits <= Words /\ u.next <= 2^u.bits}

LEMMA UntypedFields ==
  ASSUME NEW u \in UntypedSet
  PROVE  /\ u.memory \in Nat /\ u.bits \in 0..WordBits /\ u.next \in 0..2^u.bits
         /\ 2^u.bits \in Nat \ {0} /\ u.memory % 2^u.bits = 0 /\ u.memory + 2^u.bits <= Words
<1>1. u.bits \in 0..WordBits
  BY DEF UntypedSet
<1>2. 2^u.bits \in Nat \ {0}
  BY <1>1, PowersPositive
<1> QED BY <1>1, <1>2 DEF UntypedSet

\* alloc rounds up without a wrap around that would pass its test.
LEMMA AllocatesWithin ==
  ASSUME NEW u \in UntypedSet, NEW bits \in 0..WordBits - 1, Allocates(u, bits)
  PROVE  /\ ObjectAt(u, bits) \in Nat /\ ObjectAt(u, bits) % 2^bits = 0
         /\ u.next <= ObjectAt(u, bits)
         /\ LastAt(u, bits) = ObjectAt(u, bits) + 2^bits - 1
         /\ ObjectAt(u, bits) + 2^bits <= 2^u.bits
         /\ bits <= u.bits
<1> DEFINE L == 2^bits
           up == (u.next + L - 1) % Words
           o  == up - (up % L)
<1>1. bits \in 0..WordBits /\ WordBits \in bits..WordBits /\ u.bits \in 0..WordBits
      /\ WordBits \in u.bits..WordBits
  BY WidthsAssumption, UntypedFields
<1>2. L \in Nat \ {0} /\ Words \in Nat \ {0} /\ L <= Words /\ Words % L = 0
  BY <1>1, PowersPositive, PowersGrow, PowersDivide, PageFacts DEF Words
<1>3. u.next \in Nat /\ u.next <= Words /\ 2^u.bits \in Nat \ {0} /\ u.next <= 2^u.bits
  <2>1. 2^u.bits <= Words
    BY <1>1, PowersGrow DEF Words
  <2> QED BY <2>1, <1>2, UntypedFields
<1>4. ObjectAt(u, bits) = o /\ LastAt(u, bits) = (o + L - 1) % Words
  BY DEF ObjectAt, LastAt
<1>5. u.next <= o /\ (o + L - 1) % Words <= 2^u.bits - 1
  BY <1>4 DEF Allocates
<1> HIDE DEF L, up, o
<1>6. PICK s \in Nat : s = u.next + L - 1
  BY <1>2, <1>3
<1>7. PICK q \in Int, r \in 0..Words - 1 : s = Words * q + r /\ s % Words = r
  <2>1. s \in Int /\ Words \in Nat \ {0}
    BY <1>2
  <2> QED BY <2>1, Division, Zenon
<1>8. up = r /\ o = r - (r % L)
  BY <1>6, <1>7 DEF up, o
<1>9. /\ o \in Nat /\ o % L = 0 /\ o <= r /\ r < o + L
  <2>1. r \in Int /\ r \in Nat
    OBVIOUS
  <2> QED BY <2>1, <1>2, <1>8, RoundedDown
<1>10. s = r
  <2>1. s < 2 * Words
    BY <1>2, <1>3, <1>6
  <2>2. q = 0 \/ q = 1
    <3>1. q > -1
      <4> SUFFICES ASSUME q <= -1 PROVE FALSE
        OBVIOUS
      <4>1. Words * q <= -Words
        BY <1>2
      <4>2. r <= Words - 1 /\ Words * q \in Int
        BY <1>2
      <4> QED BY <4>1, <4>2, <1>2, <1>7
    <3>2. q < 2
      <4> SUFFICES ASSUME q >= 2 PROVE FALSE
        OBVIOUS
      <4>1. Words * q >= 2 * Words /\ Words * q \in Int
        BY <1>2
      <4>2. r >= 0
        BY <1>2
      <4> QED BY <4>1, <4>2, <2>1, <1>2, <1>7
    <3> QED BY <3>1, <3>2
  <2>3. ASSUME q = 1 PROVE FALSE
    <3>1. r <= u.next - 1 /\ r < L
      BY <2>3, <1>2, <1>3, <1>6, <1>7
    <3> QED BY <3>1, <1>3, <1>5, <1>9
  <2> QED BY <2>2, <2>3, <1>2, <1>7
<1>11. o + L <= Words
  <2>1. o < Words
    BY <1>2, <1>7, <1>9
  <2>2. o \in Int /\ Words \in Int /\ L \in Nat \ {0} /\ o % L = 0 /\ Words % L = 0
    BY <1>2, <1>9
  <2> QED BY <2>1, <2>2, MultiplesApart, Zenon
<1>12. (o + L - 1) % Words = o + L - 1
  BY <1>2, <1>9, <1>11
<1>13. o + L <= 2^u.bits
  BY <1>2, <1>3, <1>5, <1>9, <1>12
<1>14. bits <= u.bits
  <2> SUFFICES ASSUME u.bits < bits PROVE FALSE
    BY <1>1
  <2>1. bits \in u.bits..WordBits /\ u.bits # bits
    BY <1>1
  <2>2. 2^u.bits < L
    BY <2>1, <1>1, PowersGrow DEF L
  <2> QED BY <2>2, <1>2, <1>3, <1>9, <1>13
<1> QED BY <1>4, <1>5, <1>9, <1>12, <1>13, <1>14 DEF L

-----------------------------------------------------------------------------
(* Regions, rounded to whole pages.                                        *)

LEMMA FirstPageAfterFacts ==
  ASSUME NEW x \in Addr, x + PageLen <= Words
  PROVE  /\ FirstPageAfter(x) \in Addr /\ Aligned(FirstPageAfter(x))
         /\ x <= FirstPageAfter(x) /\ FirstPageAfter(x) < x + PageLen
         /\ Aligned(x) => FirstPageAfter(x) = x
<1>1. x \in Nat /\ Words \in Nat \ {0} /\ PageLen \in Nat \ {0}
  BY PageFacts DEF Addr
<1>2. PICK y \in 0..Words - 1 : y = x + PageLen - 1
  BY <1>1
<1>3. (x + PageLen - 1) % Words = y
  BY <1>1, <1>2
<1>4. FirstPageAfter(x) = PageStart(y)
  BY <1>3 DEF FirstPageAfter
<1>5. y \in Addr
  BY <1>2 DEF Addr
<1>6. PageStart(y) \in Addr /\ Aligned(PageStart(y)) /\ PageStart(y) <= y
  BY <1>5, PageEndFacts
<1>7. y < PageStart(y) + PageLen /\ PageStart(y) \in Nat
  BY <1>1, <1>2, <1>6, PageStartFacts
<1>8. ASSUME Aligned(x) PROVE PageStart(y) = x
  <2>1. ASSUME x < PageStart(y) PROVE x + PageLen <= PageStart(y)
    <3>1. x \in Int /\ PageStart(y) \in Int
      BY <1>1, <1>7
    <3> QED BY ONLY <3>1, <2>1, <1>6, <1>8, AlignedApart, Zenon
  <2> QED BY <2>1, <1>1, <1>2, <1>6, <1>7
<1> QED BY <1>1, <1>2, <1>4, <1>6, <1>7, <1>8

LEMMA EndPageBeforeFacts ==
  ASSUME NEW x \in Addr, x + 1 >= PageLen
  PROVE  /\ EndPageBefore(x) \in Addr /\ Aligned(EndPageBefore(x) + 1)
         /\ EndPageBefore(x) <= x /\ x < EndPageBefore(x) + PageLen
<1>1. x \in Nat /\ x < Words /\ Words \in Nat \ {0} /\ PageLen \in Nat \ {0}
  BY PageFacts DEF Addr
<1>2. PICK y \in 0..Words - 1 : y = x - (PageLen - 1)
  BY <1>1
<1>3. (x - (PageLen - 1)) % Words = y
  BY <1>1, <1>2
<1>4. EndPageBefore(x) = PageEnd(y)
  BY <1>3 DEF EndPageBefore
<1>5. y \in Addr
  BY <1>2 DEF Addr
<1>6. PageEnd(y) \in Addr /\ Aligned(PageEnd(y) + 1) /\ PageStart(y) <= y
      /\ PageEnd(y) = PageStart(y) + PageLen - 1 /\ PageStart(y) \in Addr
  BY <1>5, PageEndFacts
<1>7. PageStart(y) \in Nat /\ y < PageStart(y) + PageLen
  <2>1. y \in Int
    BY <1>2
  <2> QED BY <2>1, <1>2, <1>6, PageStartFacts DEF Addr
<1>8. PICK e \in Nat : e = PageEnd(y)
  BY <1>6 DEF Addr
<1>9. e <= x /\ x < e + PageLen
  BY ONLY <1>1, <1>2, <1>6, <1>7, <1>8
<1> QED BY <1>4, <1>6, <1>8, <1>9

-----------------------------------------------------------------------------
(* Tables of intervals.  F is a set of addresses of pages.                 *)

Off(s, t) == s.hi < t.lo \/ t.hi < s.lo

\* A span of whole pages, each of them in F.
Clear(F, s) ==
  /\ s \in Spans /\ s.lo <= s.hi /\ Aligned(s.lo) /\ Aligned(s.hi + 1)
  /\ \A a \in s.lo..s.hi : Aligned(a) => a \in F

\* A table of such spans, no two of which have an address in common.
Separate(F, tab) ==
  /\ tab \in Seq(Spans)
  /\ \A i \in DOMAIN tab : Clear(F, tab[i])
  /\ \A i, j \in DOMAIN tab : i # j => Off(tab[i], tab[j])

LEMMA SpanFields ==
  ASSUME NEW s \in Spans
  PROVE  /\ s.lo \in Nat /\ s.hi \in Nat /\ s.lo < Words /\ s.hi < Words
         /\ s = Span(s.lo, s.hi)
  BY PageFacts DEF Spans, Span, Addr

\* What is in a span of pages is in one of its pages.
LEMMA InPage ==
  ASSUME NEW F, NEW s, Clear(F, s), NEW x \in s.lo..s.hi
  PROVE  \E a \in F : a \in Nat /\ Aligned(a) /\ s.lo <= a /\ a + PageLen - 1 <= s.hi
                      /\ x \in a..a + PageLen - 1
<1>1. s \in Spans /\ s.lo <= s.hi /\ Aligned(s.lo) /\ Aligned(s.hi + 1)
      /\ \A a \in s.lo..s.hi : Aligned(a) => a \in F
  BY DEF Clear
<1>2. s.lo \in Nat /\ s.hi \in Nat /\ PageLen \in Nat \ {0} /\ s.hi + 1 \in Int
  BY <1>1, SpanFields, PageFacts
<1>3. x \in Nat /\ s.lo <= x /\ x <= s.hi
  BY <1>2
<1>4. PageStart(x) \in Nat /\ Aligned(PageStart(x)) /\ PageStart(x) <= x
      /\ x < PageStart(x) + PageLen
  BY <1>3, PageStartFacts
<1>5. PICK a \in Nat : Aligned(a) /\ a <= x /\ x < a + PageLen
  BY <1>4
<1>6. s.lo <= a
  <2> SUFFICES ASSUME a < s.lo PROVE FALSE
    BY <1>2, <1>5
  <2>1. a + PageLen <= s.lo
    <3>1. a \in Int /\ s.lo \in Int /\ Aligned(a) /\ Aligned(s.lo)
      BY <1>1, <1>2, <1>5
    <3> QED BY <3>1, AlignedApart, Zenon
  <2> QED BY <2>1, <1>2, <1>3, <1>5
<1>7. a + PageLen <= s.hi + 1
  <2>1. a < s.hi + 1
    BY <1>2, <1>3, <1>5
  <2>2. a \in Int /\ s.hi + 1 \in Int /\ Aligned(a) /\ Aligned(s.hi + 1)
    BY <1>1, <1>2, <1>5
  <2> QED BY <2>1, <2>2, AlignedApart, Zenon
<1>8. a \in F
  BY <1>1, <1>2, <1>3, <1>5, <1>6
<1> QED BY <1>2, <1>3, <1>5, <1>6, <1>7, <1>8

\* Taking one interval out of a table keeps the others, and those from its
\* place on are others than those that were there.
LEMMA DropAtFacts ==
  ASSUME NEW tab \in Seq(Spans), NEW m \in DOMAIN tab
  PROVE  /\ DropAt(tab, m) \in Seq(Spans)
         /\ Len(DropAt(tab, m)) = Len(tab) - 1
         /\ \A i \in 1..Len(tab) - 1 :
              DropAt(tab, m)[i] = tab[IF i = m THEN Len(tab) ELSE i]
<1>1. Len(tab) \in Nat /\ DOMAIN tab = 1..Len(tab) /\ m \in 1..Len(tab)
      /\ \A i \in 1..Len(tab) : tab[i] \in Spans
  BY ElementOfSeq, LenProperties
<1>2. PICK t : t = [tab EXCEPT ![m] = tab[Len(tab)]]
  OBVIOUS
<1>3. t = [i \in 1..Len(tab) |-> IF i = m THEN tab[Len(tab)] ELSE tab[i]]
  BY <1>1, <1>2
<1>4. PICK d : d = [i \in 1..Len(tab) - 1 |-> t[i]]
  OBVIOUS
<1>5. DropAt(tab, m) = d
  BY <1>1, <1>2, <1>3, <1>4 DEF DropAt
<1>6. \A i \in 1..Len(tab) - 1 : d[i] = tab[IF i = m THEN Len(tab) ELSE i]
  BY <1>1, <1>3, <1>4
<1>7. d \in [1..Len(tab) - 1 -> Spans]
  BY <1>1, <1>4, <1>6
<1>8. Len(tab) - 1 \in Nat
  BY <1>1
<1>9. d \in Seq(Spans) /\ Len(d) = Len(tab) - 1
  BY <1>4, <1>7, <1>8, SeqDef, LenProperties
<1> QED BY <1>5, <1>6, <1>9

LEMMA DomainOfSeq ==
  ASSUME NEW S, NEW s \in Seq(S)
  PROVE  /\ Len(s) \in Nat /\ DOMAIN s = 1..Len(s) /\ \A i \in 1..Len(s) : s[i] \in S
  BY LenProperties, ElementOfSeq

LEMMA FunctionIsSeq ==
  ASSUME NEW S, NEW n \in Nat, NEW f \in [1..n -> S]
  PROVE  f \in Seq(S) /\ Len(f) = n
<1>1. f \in Seq(S)
  BY SeqDef
<1> QED BY <1>1, LenProperties

\* An address in a span, and in a span of a table.
Within(s, a) == s.lo <= a /\ a <= s.hi
Has(tab, a) == \E i \in 1..Len(tab) : Within(tab[i], a)

\* Only what is in the interval that is taken out is lost.
LEMMA DropAtKeeps ==
  ASSUME NEW tab \in Seq(Spans), NEW m \in DOMAIN tab,
         NEW a, Has(tab, a), ~Within(tab[m], a)
  PROVE  Has(DropAt(tab, m), a)
<1>1. PICK n \in Nat : n = Len(tab) /\ m \in 1..n
  BY DomainOfSeq
<1>2. PICK i \in 1..n : Within(tab[i], a)
  BY <1>1 DEF Has
<1>3. PICK d : d = DropAt(tab, m)
  OBVIOUS
<1>4. Len(d) = n - 1 /\ \A j \in 1..n - 1 : d[j] = tab[IF j = m THEN n ELSE j]
  BY <1>1, <1>3, DropAtFacts
<1>5. i # m
  BY <1>2
<1>6. PICK j \in 1..n - 1 : j = IF i = n THEN m ELSE i
  BY <1>1, <1>5
<1>7. d[j] = tab[i]
  BY <1>1, <1>4, <1>5, <1>6
<1>8. Within(d[j], a)
  BY <1>2, <1>7
<1> QED BY <1>3, <1>4, <1>8 DEF Has

\* Two spans that are not apart are one span together.
LEMMA HullFacts ==
  ASSUME NEW F, NEW s, NEW t, Clear(F, s), Clear(F, t)
  PROVE  /\ Apart(s, t) => Off(s, t)
         /\ ~Apart(s, t) => s.lo <= t.hi + 1 /\ t.lo <= s.hi + 1
<1>1. s \in Spans /\ t \in Spans /\ s.lo <= s.hi /\ t.lo <= t.hi
  BY DEF Clear
<1>2. /\ s.lo \in Nat /\ s.hi \in Nat /\ s.lo < Words /\ s.hi < Words
      /\ t.lo \in Nat /\ t.hi \in Nat /\ t.lo < Words /\ t.hi < Words
      /\ Words \in Nat \ {0}
  BY <1>1, SpanFields, PageFacts
<1>3. t.hi < s.lo => (t.hi + 1) % Words = t.hi + 1
  BY <1>2
<1>4. s.hi < t.lo => (t.lo - 1) % Words = t.lo - 1
  BY <1>2
<1> QED BY <1>1, <1>2, <1>3, <1>4 DEF Apart, Off

LEMMA ClearHull ==
  ASSUME NEW F, NEW s, NEW t, Clear(F, s), Clear(F, t), ~Apart(s, t),
         NEW h, h = Span(Lesser(s.lo, t.lo), Greater(s.hi, t.hi))
  PROVE  /\ Clear(F, h)
         /\ \A e : Clear(F, e) /\ Off(e, s) /\ Off(e, t) => Off(e, h)
<1>1. s \in Spans /\ t \in Spans /\ s.lo <= s.hi /\ t.lo <= t.hi
      /\ Aligned(s.lo) /\ Aligned(t.lo) /\ Aligned(s.hi + 1) /\ Aligned(t.hi + 1)
  BY DEF Clear
<1>2. /\ s.lo \in Nat /\ s.hi \in Nat /\ s.lo \in Addr /\ s.hi \in Addr
      /\ t.lo \in Nat /\ t.hi \in Nat /\ t.lo \in Addr /\ t.hi \in Addr
  BY <1>1, SpanFields, PageFacts DEF Addr
<1>3. s.lo <= t.hi + 1 /\ t.lo <= s.hi + 1
  BY HullFacts
<1>4. /\ h.lo = (IF s.lo < t.lo THEN s.lo ELSE t.lo)
      /\ h.hi = (IF s.hi < t.hi THEN t.hi ELSE s.hi)
      /\ h = [lo |-> h.lo, hi |-> h.hi]
  BY DEF Span, Lesser, Greater
<1>5. h \in Spans /\ h.lo \in Nat /\ h.hi \in Nat
  BY <1>2, <1>4 DEF Spans
<1>6. h.lo <= h.hi
  BY <1>1, <1>2, <1>4
<1>7. Aligned(h.lo) /\ Aligned(h.hi + 1)
  BY <1>1, <1>4
<1>8. ASSUME NEW a \in h.lo..h.hi, Aligned(a) PROVE a \in F
  <2>1. a \in s.lo..s.hi \/ a \in t.lo..t.hi
    <3>1. a \in Nat /\ h.lo <= a /\ a <= h.hi
      BY <1>5
    <3> QED BY <3>1, <1>2, <1>3, <1>4
  <2> QED BY <2>1, <1>8 DEF Clear
<1>9. ASSUME NEW e, Clear(F, e), Off(e, s), Off(e, t) PROVE Off(e, h)
  <2>1. e.lo \in Nat /\ e.hi \in Nat /\ e.lo <= e.hi
    BY <1>9, SpanFields DEF Clear
  <2> QED BY <2>1, <1>1, <1>2, <1>3, <1>4, <1>9 DEF Off
<1> QED BY <1>5, <1>6, <1>7, <1>8, <1>9 DEF Clear

\* A round of the loop of insertInterval: from m on, nothing meets the new span.
LEMMA AbsorbFacts ==
  ASSUME NEW F, NEW acc, Separate(F, acc.tab), Clear(F, acc.new),
         NEW m \in DOMAIN acc.tab,
         \A i \in m + 1..Len(acc.tab) : Off(acc.tab[i], acc.new),
         NEW b, b = Absorb(acc, m)
  PROVE  /\ Separate(F, b.tab) /\ Clear(F, b.new)
         /\ m - 1 <= Len(b.tab) /\ Len(b.tab) <= Len(acc.tab)
         /\ \A i \in m..Len(b.tab) : Off(b.tab[i], b.new)
<1> DEFINE tab == acc.tab
           t   == acc.new
           s   == tab[m]
           n   == Len(tab)
<1>1. /\ tab \in Seq(Spans) /\ \A i \in DOMAIN tab : Clear(F, tab[i])
      /\ \A i, j \in DOMAIN tab : i # j => Off(tab[i], tab[j])
  BY DEF Separate
<1>2. n \in Nat /\ DOMAIN tab = 1..n /\ m \in 1..n
  BY <1>1, DomainOfSeq
<1>3. CASE Apart(s, t)
  <2>1. b = acc
    BY <1>3 DEF Absorb
  <2>2. Off(s, t)
    BY <1>1, <1>3, HullFacts
  <2>3. \A i \in m..n : i = m \/ i \in m + 1..n
    BY <1>2
  <2> QED BY <1>2, <2>1, <2>2, <2>3
<1>4. CASE ~Apart(s, t)
  <2> DEFINE h == Span(Lesser(s.lo, t.lo), Greater(s.hi, t.hi))
             d == DropAt(tab, m)
  <2>1. b.tab = d /\ b.new = h
    BY <1>4 DEF Absorb
  <2>2. Clear(F, h) /\ \A e : Clear(F, e) /\ Off(e, s) /\ Off(e, t) => Off(e, h)
    BY <1>1, <1>4, ClearHull
  <2>3. d \in Seq(Spans) /\ Len(d) = n - 1
        /\ \A i \in 1..n - 1 : d[i] = tab[IF i = m THEN n ELSE i]
    BY <1>1, DropAtFacts
  <2> HIDE DEF h, d, n
  <2>4. DOMAIN d = 1..n - 1
    BY <2>3, DomainOfSeq
  <2> DEFINE From(i) == IF i = m THEN n ELSE i
  <2>5. \A i \in 1..n - 1 : From(i) \in 1..n /\ From(i) # m /\ d[i] = tab[From(i)]
    BY <1>2, <2>3
  <2>6. \A i, j \in 1..n - 1 : i # j => From(i) # From(j)
    BY <1>2
  <2> HIDE DEF From
  <2>7. Separate(F, d)
    <3>1. ASSUME NEW i \in 1..n - 1 PROVE Clear(F, d[i])
      BY <1>1, <1>2, <2>5
    <3>2. ASSUME NEW i \in 1..n - 1, NEW j \in 1..n - 1, i # j PROVE Off(d[i], d[j])
      <4>1. From(i) \in DOMAIN tab /\ From(j) \in DOMAIN tab /\ From(i) # From(j)
        BY <1>2, <2>5, <2>6, <3>2
      <4>2. Off(tab[From(i)], tab[From(j)])
        BY <1>1, <4>1
      <4> QED BY <2>5, <4>2
    <3> QED BY <2>3, <2>4, <3>1, <3>2 DEF Separate
  <2>8. ASSUME NEW i \in m..n - 1 PROVE Off(d[i], h)
    <3>1. i \in 1..n - 1 /\ From(i) \in m + 1..n
      BY <1>2 DEF From
    <3>2. Off(tab[From(i)], t)
      BY <3>1 DEF n
    <3>3. Off(tab[From(i)], s) /\ Clear(F, tab[From(i)])
      BY <1>1, <1>2, <2>5, <3>1
    <3> QED BY <2>2, <2>5, <3>1, <3>2, <3>3
  <2> QED BY <1>2, <2>1, <2>2, <2>3, <2>7, <2>8 DEF n
<1> QED BY <1>3, <1>4

\* Nothing is lost of the table and the new span together.
Keeps(tab, new, tab2, new2) ==
  \A a \in Nat : Has(tab, a) \/ Within(new, a) => Has(tab2, a) \/ Within(new2, a)

LEMMA AbsorbKeeps ==
  ASSUME NEW acc, acc.tab \in Seq(Spans), acc.new \in Spans, NEW m \in DOMAIN acc.tab,
         NEW b, b = Absorb(acc, m)
  PROVE  Keeps(acc.tab, acc.new, b.tab, b.new)
<1>1. PICK tab \in Seq(Spans) : tab = acc.tab
  OBVIOUS
<1>2. PICK t \in Spans : t = acc.new
  OBVIOUS
<1>3. m \in DOMAIN tab
  BY <1>1
<1>4. PICK s \in Spans : s = tab[m]
  BY <1>3, DomainOfSeq
<1>5. CASE Apart(s, t)
  <2>1. b = acc
    BY <1>1, <1>2, <1>4, <1>5 DEF Absorb
  <2> QED BY <2>1 DEF Keeps
<1>6. CASE ~Apart(s, t)
  <2>1. PICK h : h = Span(Lesser(s.lo, t.lo), Greater(s.hi, t.hi))
    OBVIOUS
  <2>2. b.tab = DropAt(tab, m) /\ b.new = h
    BY <1>1, <1>2, <1>4, <1>6, <2>1 DEF Absorb
  <2>3. s.lo \in Nat /\ s.hi \in Nat /\ t.lo \in Nat /\ t.hi \in Nat
    BY SpanFields
  <2>4. h.lo = Lesser(s.lo, t.lo) /\ h.hi = Greater(s.hi, t.hi)
    BY <2>1 DEF Span
  <2>5. ASSUME NEW a \in Nat, Within(s, a) \/ Within(t, a) PROVE Within(h, a)
    <3>1. PICK sl \in Nat, sh \in Nat, tl \in Nat, th \in Nat :
            sl = s.lo /\ sh = s.hi /\ tl = t.lo /\ th = t.hi
      BY <2>3
    <3>2. PICK l \in Nat, u \in Nat : l = Lesser(sl, tl) /\ u = Greater(sh, th)
      BY DEF Lesser, Greater
    <3>3. h.lo = l /\ h.hi = u
      BY <2>4, <3>1, <3>2
    <3>4. (sl <= a /\ a <= sh) \/ (tl <= a /\ a <= th)
      BY <2>5, <3>1 DEF Within
    <3>5. l <= a /\ a <= u
      BY <3>2, <3>4 DEF Lesser, Greater
    <3> QED BY <3>3, <3>5 DEF Within
  <2>6. ASSUME NEW a \in Nat, Has(tab, a), ~Within(s, a) PROVE Has(DropAt(tab, m), a)
    BY <1>3, <1>4, <2>6, DropAtKeeps
  <2> QED BY <1>1, <1>2, <2>2, <2>5, <2>6 DEF Keeps
<1> QED BY <1>5, <1>6

LEMMA AppendSeparate ==
  ASSUME NEW F, NEW tab, NEW s, Separate(F, tab), Clear(F, s),
         \A i \in 1..Len(tab) : Off(tab[i], s)
  PROVE  Separate(F, Append(tab, s))
<1>1. tab \in Seq(Spans) /\ s \in Spans
  BY DEF Separate, Clear
<1>2. PICK n \in Nat : n = Len(tab)
  BY <1>1, DomainOfSeq
<1>3. PICK t : t = Append(tab, s)
  OBVIOUS
<1>4. /\ t \in Seq(Spans) /\ DOMAIN t = 1..n + 1
      /\ \A i \in 1..n : t[i] = tab[i]
      /\ t[n + 1] = s
  BY <1>1, <1>2, <1>3
<1>5. DOMAIN tab = 1..n
  BY <1>1, <1>2, DomainOfSeq
<1>6. ASSUME NEW i \in 1..n + 1 PROVE Clear(F, t[i])
  <2>1. i \in 1..n \/ i = n + 1
    OBVIOUS
  <2> QED BY <2>1, <1>4, <1>5 DEF Separate
<1>7. ASSUME NEW i \in 1..n + 1, NEW j \in 1..n + 1, i # j PROVE Off(t[i], t[j])
  <2>1. CASE i \in 1..n /\ j \in 1..n
    BY <2>1, <1>4, <1>5, <1>7 DEF Separate
  <2>2. CASE i = n + 1 /\ j \in 1..n
    BY <2>2, <1>2, <1>4 DEF Off
  <2>3. CASE i \in 1..n /\ j = n + 1
    BY <2>3, <1>2, <1>4
  <2> QED BY <2>1, <2>2, <2>3, <1>7
<1> QED BY <1>3, <1>4, <1>6, <1>7 DEF Separate

\* The loop of insertInterval is there to be computed, for every table.
LEMMA MergedLoop ==
  ASSUME NEW tab \in Seq(Spans), NEW new
  PROVE  \E loop :
           /\ loop = [k \in 0..Len(tab) |->
                        IF k = 0 THEN [tab |-> tab, new |-> new]
                        ELSE Absorb(loop[k - 1], Len(tab) + 1 - k)]
           /\ Merged(tab, new) = loop[Len(tab)]
<1>1. PICK n \in Nat : n = Len(tab)
  BY DomainOfSeq
<1> DEFINE first == [tab |-> tab, new |-> new]
           Def(f, k) == f = [i \in 0..k |-> IF i = 0 THEN first ELSE Absorb(f[i - 1], n + 1 - i)]
           bad == {k \in Nat : ~\E f : Def(f, k)}
<1> HIDE DEF first
<1>2. bad = {}
  <2> SUFFICES ASSUME bad # {} PROVE FALSE
    OBVIOUS
  <2>1. PICK k \in Nat : (~\E f : Def(f, k)) /\ \A l \in Nat : (~\E f : Def(f, l)) => k <= l
    <3> HIDE DEF Def
    <3>1. PICK k \in bad : \A l \in bad : k <= l
      BY LeastNumber
    <3> QED BY <3>1
  <2> HIDE DEF bad, Def
  <2>2. CASE k = 0
    <3>1. PICK f : f = [i \in 0..0 |-> first]
      OBVIOUS
    <3>2. f = [i \in 0..0 |-> IF i = 0 THEN first ELSE Absorb(f[i - 1], n + 1 - i)]
      BY <3>1
    <3>3. Def(f, 0)
      BY <3>2 DEF Def
    <3> QED BY <3>3, <2>2, <2>1
  <2>3. CASE k # 0
    <3>1. k - 1 \in Nat /\ ~(k <= k - 1) /\ \E f : Def(f, k - 1)
      BY <2>3, <2>1
    <3>2. PICK g : Def(g, k - 1)
      BY <3>1
    <3>4. PICK h : h = [i \in 0..k |-> IF i = k THEN Absorb(g[k - 1], n + 1 - k) ELSE g[i]]
      OBVIOUS
    <3>3. Def(h, k)
      <4>1. \A i \in 0..k - 1 : g[i] = IF i = 0 THEN first ELSE Absorb(g[i - 1], n + 1 - i)
        BY <3>2 DEF Def
      <4>2. \A i \in 0..k : h[i] = IF i = 0 THEN first ELSE Absorb(h[i - 1], n + 1 - i)
        <5>1. \A i \in 0..k - 1 : h[i] = g[i]
          BY <3>4
        <5>2. h[k] = Absorb(h[k - 1], n + 1 - k)
          BY <5>1, <3>1, <3>4
        <5>3. ASSUME NEW i \in 0..k - 1
              PROVE  h[i] = IF i = 0 THEN first ELSE Absorb(h[i - 1], n + 1 - i)
          <6>1. i # 0 => i - 1 \in 0..k - 1
            OBVIOUS
          <6> QED BY <6>1, <5>1, <4>1
        <5>4. \A i \in 0..k : i = k \/ i \in 0..k - 1
          OBVIOUS
        <5> QED BY <2>3, <5>2, <5>3, <5>4
      <4> QED BY <3>4, <4>2 DEF Def
    <3> QED BY <3>3, <2>1
  <2> QED BY <2>2, <2>3
<1>3. PICK f : f = (CHOOSE g : Def(g, n))
  OBVIOUS
<1>4. Def(f, n)
  BY <1>2, <1>3
<1>5. Merged(tab, new) = f[n]
  BY <1>1, <1>3 DEF Merged, first
<1> QED BY <1>1, <1>4, <1>5 DEF first

LEMMA MergedSeparate ==
  ASSUME NEW F, NEW tab, NEW new, Separate(F, tab), Clear(F, new),
         NEW m, m = Merged(tab, new)
  PROVE  /\ Separate(F, m.tab) /\ Clear(F, m.new)
         /\ \A i \in 1..Len(m.tab) : Off(m.tab[i], m.new)
         /\ Len(m.tab) <= Len(tab) /\ Keeps(tab, new, m.tab, m.new)
<1>1. tab \in Seq(Spans)
  BY DEF Separate
<1>2. PICK n \in Nat : n = Len(tab)
  BY <1>1, DomainOfSeq
<1>3. PICK loop :
        /\ loop = [k \in 0..n |-> IF k = 0 THEN [tab |-> tab, new |-> new]
                                  ELSE Absorb(loop[k - 1], n + 1 - k)]
        /\ Merged(tab, new) = loop[n]
  BY <1>1, <1>2, MergedLoop
<1> DEFINE Good(k) ==
             LET acc == loop[k] IN
             /\ Separate(F, acc.tab) /\ Clear(F, acc.new)
             /\ n - k <= Len(acc.tab) /\ Len(acc.tab) <= n
             /\ \A i \in n - k + 1..Len(acc.tab) : Off(acc.tab[i], acc.new)
             /\ Keeps(tab, new, acc.tab, acc.new)
           bad == {k \in 0..n : ~Good(k)}
<1>4. bad = {}
  <2> SUFFICES ASSUME bad # {} PROVE FALSE
    OBVIOUS
  <2>1. PICK k \in 0..n : ~Good(k) /\ \A l \in 0..n : ~Good(l) => k <= l
    <3> HIDE DEF Good
    <3>1. bad \in SUBSET Nat
      OBVIOUS
    <3>2. PICK k \in bad : \A l \in bad : k <= l
      BY <3>1, LeastNumber
    <3> QED BY <3>2
  <2> HIDE DEF bad, Good
  <2>2. CASE k = 0
    <3>1. loop[0].tab = tab /\ loop[0].new = new
      BY <1>3
    <3>2. \A i \in n - 0 + 1..Len(tab) : FALSE
      BY <1>2
    <3>3. Keeps(tab, new, tab, new)
      BY DEF Keeps
    <3>4. Good(0)
      BY <3>1, <3>2, <3>3, <1>2 DEF Good
    <3> QED BY <3>4, <2>1, <2>2
  <2>3. CASE k # 0
    <3>1. k \in 1..n /\ k - 1 \in 0..n /\ Good(k - 1)
      BY <2>1, <2>3
    <3>2. PICK acc : acc = loop[k - 1]
      OBVIOUS
    <3>3. PICK j \in 1..n : j = n + 1 - k
      BY <3>1
    <3>5. /\ Separate(F, acc.tab) /\ Clear(F, acc.new)
          /\ j <= Len(acc.tab) /\ Len(acc.tab) <= n
          /\ \A i \in j + 1..Len(acc.tab) : Off(acc.tab[i], acc.new)
          /\ Keeps(tab, new, acc.tab, acc.new)
      <4>1. n - (k - 1) = j
        BY <3>1, <3>3
      <4> QED BY <3>1, <3>2, <4>1 DEF Good
    <3>6. loop[k] = Absorb(acc, j)
      <4>1. k # 0 /\ n + 1 - k = j
        BY <2>3, <3>3
      <4> QED BY <1>3, <4>1, <3>2
    <3>7. j \in DOMAIN acc.tab
      BY <3>3, <3>5, DomainOfSeq DEF Separate
    <3>8. PICK b : b = Absorb(acc, j)
      OBVIOUS
    <3>9. /\ Separate(F, b.tab) /\ Clear(F, b.new)
          /\ j - 1 <= Len(b.tab) /\ Len(b.tab) <= Len(acc.tab)
          /\ \A i \in j..Len(b.tab) : Off(b.tab[i], b.new)
      BY <3>5, <3>7, <3>8, AbsorbFacts
    <3>10. Len(b.tab) \in Nat /\ Len(acc.tab) \in Nat
      BY <3>5, <3>9, DomainOfSeq DEF Separate
    <3>11. Keeps(tab, new, b.tab, b.new)
      <4>1. acc.tab \in Seq(Spans) /\ acc.new \in Spans
        BY <3>5 DEF Separate, Clear
      <4>2. Keeps(acc.tab, acc.new, b.tab, b.new)
        BY <3>7, <3>8, <4>1, AbsorbKeeps
      <4> QED BY <3>5, <4>2 DEF Keeps
    <3>12. Good(k)
      <4>1. n - k = j - 1 /\ n - k + 1 = j
        BY <3>1, <3>3
      <4>2. n - k <= Len(b.tab) /\ Len(b.tab) <= n
        BY <4>1, <3>5, <3>9, <3>10
      <4>3. loop[k] = b
        BY <3>6, <3>8
      <4> QED BY <3>9, <3>11, <4>1, <4>2, <4>3 DEF Good
    <3> QED BY <3>12, <2>1
  <2> QED BY <2>2, <2>3
<1>5. Good(n)
  BY <1>4
<1>6. n - n + 1 = 1
  OBVIOUS
<1>7. m = loop[n]
  BY <1>3
<1> QED BY <1>2, <1>5, <1>6, <1>7

LEMMA SeparateMore ==
  ASSUME NEW F, NEW G, NEW tab, Separate(F, tab), F \subseteq G
  PROVE  Separate(G, tab)
  BY DEF Separate, Clear

\* insertInterval: what it adds are pages of the region, and the intervals
\* keep apart, also when the region meets several of them.
LEMMA InsertSeparate ==
  ASSUME NEW F, NEW tab, Separate(F, tab), NEW region \in Spans,
         region.lo + PageLen <= Words, region.hi + 1 >= PageLen
  PROVE  Separate(F \cup PagesIn(region.lo, region.hi), InsertInterval(tab, region))
<1> DEFINE G   == F \cup PagesIn(region.lo, region.hi)
           new == Span(FirstPageAfter(region.lo), EndPageBefore(region.hi))
<1>1. region.lo \in Addr /\ region.hi \in Addr
  BY DEF Spans
<1>2. /\ FirstPageAfter(region.lo) \in Addr /\ Aligned(FirstPageAfter(region.lo))
      /\ region.lo <= FirstPageAfter(region.lo)
  BY <1>1, FirstPageAfterFacts
<1>3. /\ EndPageBefore(region.hi) \in Addr /\ Aligned(EndPageBefore(region.hi) + 1)
      /\ EndPageBefore(region.hi) <= region.hi
  BY <1>1, EndPageBeforeFacts
<1>4. /\ new \in Spans /\ Aligned(new.lo) /\ Aligned(new.hi + 1)
      /\ region.lo <= new.lo /\ new.hi <= region.hi
  BY <1>2, <1>3 DEF Spans, Span
<1>5. Separate(G, tab)
  BY SeparateMore
<1> HIDE DEF G
<1>6. CASE new.lo >= new.hi
  BY <1>5, <1>6 DEF InsertInterval, G
<1>7. CASE ~(new.lo >= new.hi)
  <2>1. new.lo \in Nat /\ new.hi \in Nat /\ new.lo < Words /\ new.hi < Words
        /\ region.lo \in Nat /\ region.hi \in Nat /\ PageLen \in Nat
    BY <1>4, SpanFields, PageFacts
  <2>2. PICK s \in Spans : s = new
    BY <1>4
  <2>3. ASSUME NEW a \in s.lo..s.hi, Aligned(a) PROVE a \in G
    <3>1. a \in Nat /\ s.lo <= a /\ a <= s.hi
      BY <2>1, <2>2
    <3>2. a + PageLen <= s.hi + 1
      <4>1. a \in Int /\ s.hi + 1 \in Int /\ Aligned(s.hi + 1) /\ a < s.hi + 1
        BY <3>1, <2>1, <2>2, <1>4
      <4> QED BY <4>1, <2>3, AlignedApart, Zenon
    <3>3. a \in Addr
      BY <3>1, <2>1, <2>2, PageFacts DEF Addr
    <3>4. region.lo <= a /\ a + PageLen - 1 <= region.hi
      BY <3>1, <3>2, <2>1, <2>2, <1>4
    <3>5. a % PageLen = 0
      BY <2>3 DEF Aligned
    <3> QED BY <3>3, <3>4, <3>5 DEF PagesIn, G
  <2>4. Clear(G, s)
    BY <1>4, <1>7, <2>1, <2>2, <2>3 DEF Clear
  <2>5. PICK m : m = Merged(tab, s)
    OBVIOUS
  <2>6. /\ Separate(G, m.tab) /\ Clear(G, m.new)
        /\ \A i \in 1..Len(m.tab) : Off(m.tab[i], m.new)
    BY <1>5, <2>4, <2>5, MergedSeparate
  <2>7. InsertInterval(tab, region) =
          IF Len(m.tab) < MaxIntervals THEN Append(m.tab, m.new) ELSE m.tab
    BY <1>7, <2>2, <2>5 DEF InsertInterval
  <2>8. Separate(G, Append(m.tab, m.new))
    BY <2>6, AppendSeparate
  <2> QED BY <2>6, <2>7, <2>8 DEF G
<1> QED BY <1>6, <1>7

LEMMA AppendKeeps ==
  ASSUME NEW tab \in Seq(Spans), NEW s \in Spans, NEW a, Has(tab, a) \/ Within(s, a)
  PROVE  Has(Append(tab, s), a)
<1>1. PICK n \in Nat : n = Len(tab)
  BY DomainOfSeq
<1>2. PICK t : t = Append(tab, s)
  OBVIOUS
<1>3. Len(t) = n + 1 /\ t[n + 1] = s /\ \A i \in 1..n : t[i] = tab[i]
  BY <1>1, <1>2
<1>4. CASE Within(s, a)
  BY <1>2, <1>3, <1>4 DEF Has
<1>5. CASE Has(tab, a)
  <2>1. PICK i \in 1..n : Within(tab[i], a)
    BY <1>1, <1>5 DEF Has
  <2>2. i \in 1..n + 1 /\ Within(t[i], a)
    BY <1>3, <2>1
  <2> QED BY <1>2, <1>3, <2>2 DEF Has
<1> QED BY <1>4, <1>5

\* insertInterval loses nothing, while there is room: every page of the region
\* is in the table afterwards, and the table grows by no more than one.
LEMMA InsertKeeps ==
  ASSUME NEW F, NEW tab, Separate(F, tab), NEW region \in Spans,
         region.lo + PageLen <= Words, region.hi + 1 >= PageLen,
         NEW t, t = InsertInterval(tab, region)
  PROVE  /\ Len(t) <= Len(tab) + 1
         /\ Len(tab) < MaxIntervals =>
              \A a \in Nat : Has(tab, a) \/ a \in PagesIn(region.lo, region.hi) => Has(t, a)
<1>1. region.lo \in Addr /\ region.hi \in Addr
  BY DEF Spans
<1>2. PICK from \in Addr : from = FirstPageAfter(region.lo)
  BY <1>1, FirstPageAfterFacts
<1>3. PICK to \in Addr : to = EndPageBefore(region.hi)
  BY <1>1, EndPageBeforeFacts
<1>4. /\ Aligned(from) /\ region.lo <= from /\ from < region.lo + PageLen
  BY <1>1, <1>2, FirstPageAfterFacts
<1>5. /\ Aligned(to + 1) /\ to <= region.hi /\ region.hi < to + PageLen
  BY <1>1, <1>3, EndPageBeforeFacts
<1>6. PICK new \in Spans : new = Span(from, to)
  BY DEF Span, Spans
<1>7. new.lo = from /\ new.hi = to
  BY <1>6 DEF Span
<1>8. from \in Nat /\ to \in Nat /\ PageLen \in Nat \ {0, 1}
      /\ region.lo \in Nat /\ region.hi \in Nat
  BY <1>1, PageFacts DEF Addr
<1>9. ASSUME NEW a \in PagesIn(region.lo, region.hi)
      PROVE  a \in Nat /\ from <= a /\ a <= to /\ from < to
  <2>1. a \in Nat /\ Aligned(a) /\ region.lo <= a /\ a + PageLen - 1 <= region.hi
    BY PageFacts DEF PagesIn, Addr, Aligned
  <2>2. PICK P \in Nat \ {0, 1} : P = PageLen
    BY <1>8
  <2>3. from <= a
    <3>1. SUFFICES ASSUME a < from PROVE FALSE
      BY <1>8, <2>1
    <3>2. a \in Int /\ from \in Int
      BY <1>8, <2>1
    <3>3. a + P <= from
      BY ONLY <3>1, <3>2, <2>1, <2>2, <1>4, AlignedApart
    <3> QED BY ONLY <3>3, <1>4, <1>8, <2>1, <2>2
  <2>4. a + P <= to + 1
    <3>1. SUFFICES ASSUME to + 1 < a + P PROVE FALSE
      BY <1>8, <2>1, <2>2
    <3>2. to + 1 \in Int /\ a + P \in Int /\ Aligned(a + P)
      BY <1>8, <2>1, <2>2, AlignedFacts
    <3>3. to + 1 + P <= a + P
      BY ONLY <3>1, <3>2, <2>2, <1>5, AlignedApart
    <3> QED BY ONLY <3>3, <1>5, <1>8, <2>1, <2>2
  <2> QED BY ONLY <2>1, <2>2, <2>3, <2>4, <1>8
<1>10. tab \in Seq(Spans) /\ Len(tab) \in Nat
  BY DomainOfSeq DEF Separate
<1>11. CASE from >= to
  <2>1. t = tab
    BY <1>2, <1>3, <1>6, <1>7, <1>11 DEF InsertInterval
  <2>2. PagesIn(region.lo, region.hi) = {}
    BY <1>8, <1>9, <1>11
  <2> QED BY <1>10, <2>1, <2>2
<1>12. CASE ~(from >= to)
  <2>1. PICK m : m = Merged(tab, new)
    OBVIOUS
  <2>2. PICK G : G = F \cup Nat
    OBVIOUS
  <2>3. Separate(G, tab)
    BY <2>2, SeparateMore
  <2>4. Clear(G, new)
    BY <1>4, <1>5, <1>7, <1>8, <1>12, <2>2 DEF Clear
  <2>5. /\ Separate(G, m.tab) /\ Clear(G, m.new) /\ Len(m.tab) <= Len(tab)
        /\ Keeps(tab, new, m.tab, m.new)
    BY <2>1, <2>3, <2>4, MergedSeparate
  <2>6. m.tab \in Seq(Spans) /\ m.new \in Spans
    BY <2>5 DEF Separate, Clear
  <2>7. t = IF Len(m.tab) < MaxIntervals THEN Append(m.tab, m.new) ELSE m.tab
    BY <1>2, <1>3, <1>6, <1>7, <1>12, <2>1 DEF InsertInterval
  <2>8. Len(m.tab) \in Nat /\ Len(Append(m.tab, m.new)) = Len(m.tab) + 1
    BY <2>6, DomainOfSeq
  <2>9. Len(t) <= Len(tab) + 1
    BY ONLY <1>10, <2>5, <2>7, <2>8
  <2>10. ASSUME Len(tab) < MaxIntervals,
                NEW a \in Nat, Has(tab, a) \/ a \in PagesIn(region.lo, region.hi)
         PROVE  Has(t, a)
    <3>1. Len(m.tab) < MaxIntervals
      BY ONLY <1>10, <2>5, <2>8, <2>10, WidthsAssumption
    <3>2. Has(tab, a) \/ Within(new, a)
      BY <1>7, <1>9, <2>10 DEF Within
    <3>3. Has(m.tab, a) \/ Within(m.new, a)
      BY ONLY <2>5, <2>10, <3>2 DEF Keeps
    <3>4. Has(Append(m.tab, m.new), a)
      BY ONLY <2>6, <3>3, AppendKeeps
    <3> QED BY ONLY <3>1, <3>4, <2>7
  <2> QED BY <2>9, <2>10
<1> QED BY <1>11, <1>12

\* A part of an interval, in whole pages.
Part(F, s, p) ==
  Clear(F, p) /\ \A e : Clear(F, e) /\ Off(e, s) => Off(e, p)

LEMMA ClearPart ==
  ASSUME NEW F, NEW s, Clear(F, s), NEW from \in Int, NEW to \in Int,
         s.lo <= from, from <= to, to <= s.hi, Aligned(from), Aligned(to + 1)
  PROVE  Part(F, s, Span(from, to))
<1> DEFINE p == Span(from, to)
<1>1. s.lo \in Nat /\ s.hi \in Nat /\ s.hi < Words /\ Words \in Nat
  BY SpanFields, PageFacts DEF Clear
<1>2. p.lo = from /\ p.hi = to /\ p = [lo |-> from, hi |-> to]
  BY DEF Span
<1>3. p \in Spans
  BY <1>1, <1>2 DEF Spans, Addr
<1>4. ASSUME NEW a \in p.lo..p.hi, Aligned(a) PROVE a \in F
  <2>1. a \in s.lo..s.hi
    BY <1>1, <1>2
  <2> QED BY <2>1, <1>4 DEF Clear
<1>5. ASSUME NEW e, Clear(F, e), Off(e, s) PROVE Off(e, p)
  <2>1. e.lo \in Nat /\ e.hi \in Nat /\ e.lo <= e.hi
    BY <1>5, SpanFields DEF Clear
  <2> QED BY <2>1, <1>1, <1>2, <1>5 DEF Off
<1> QED BY <1>2, <1>3, <1>4, <1>5 DEF Clear, Part

LEMMA ReplaceSeparate ==
  ASSUME NEW F, NEW tab, Separate(F, tab), NEW m \in DOMAIN tab,
         NEW p, Part(F, tab[m], p), NEW t \in Seq(Spans), Len(t) = Len(tab),
         \A i \in 1..Len(t) : t[i] = IF i = m THEN p ELSE tab[i]
  PROVE  Separate(F, t)
<1>1. tab \in Seq(Spans) /\ p \in Spans /\ Clear(F, p)
  BY DEF Separate, Clear, Part
<1>2. PICK n \in Nat : n = Len(tab) /\ DOMAIN tab = 1..n
  BY <1>1, DomainOfSeq
<1>3. \A e : Clear(F, e) /\ Off(e, tab[m]) => Off(e, p)
  BY DEF Part
<1>5. DOMAIN t = 1..n /\ \A i \in 1..n : t[i] = IF i = m THEN p ELSE tab[i]
  BY <1>1, <1>2, DomainOfSeq
<1>6. ASSUME NEW i \in 1..n PROVE Clear(F, t[i])
  BY <1>1, <1>2, <1>5 DEF Separate
<1>7. ASSUME NEW i \in 1..n, NEW j \in 1..n, i # j PROVE Off(t[i], t[j])
  <2>1. Off(tab[i], tab[j]) /\ Off(tab[j], tab[i]) /\ Clear(F, tab[i]) /\ Clear(F, tab[j])
    BY <1>2, <1>7 DEF Separate
  <2>2. Off(p, tab[j]) <=> Off(tab[j], p)
    BY DEF Off
  <2> QED BY <2>1, <2>2, <1>3, <1>5, <1>7
<1> QED BY <1>2, <1>5, <1>6, <1>7 DEF Separate

LEMMA DropSeparate ==
  ASSUME NEW F, NEW tab, Separate(F, tab), NEW m \in DOMAIN tab
  PROVE  Separate(F, DropAt(tab, m))
<1>1. /\ tab \in Seq(Spans) /\ \A i \in DOMAIN tab : Clear(F, tab[i])
      /\ \A i, j \in DOMAIN tab : i # j => Off(tab[i], tab[j])
  BY DEF Separate
<1>2. PICK n \in Nat : n = Len(tab) /\ DOMAIN tab = 1..n /\ m \in 1..n
  BY <1>1, DomainOfSeq
<1>3. PICK d : d = DropAt(tab, m)
  OBVIOUS
<1>4. d \in Seq(Spans) /\ Len(d) = n - 1 /\ DOMAIN d = 1..n - 1
      /\ \A i \in 1..n - 1 : d[i] = tab[IF i = m THEN n ELSE i]
  BY <1>1, <1>2, <1>3, DropAtFacts, DomainOfSeq
<1> DEFINE From(i) == IF i = m THEN n ELSE i
<1>5. \A i \in 1..n - 1 : From(i) \in 1..n /\ d[i] = tab[From(i)]
  BY <1>2, <1>4
<1>6. \A i, j \in 1..n - 1 : i # j => From(i) # From(j)
  BY <1>2
<1> HIDE DEF From
<1>7. ASSUME NEW i \in 1..n - 1 PROVE Clear(F, d[i])
  BY <1>1, <1>2, <1>5
<1>8. ASSUME NEW i \in 1..n - 1, NEW j \in 1..n - 1, i # j PROVE Off(d[i], d[j])
  <2>1. From(i) \in DOMAIN tab /\ From(j) \in DOMAIN tab /\ From(i) # From(j)
    BY <1>2, <1>5, <1>6, <1>8
  <2>2. Off(tab[From(i)], tab[From(j)])
    BY <1>1, <2>1
  <2> QED BY <1>5, <2>2
<1> QED BY <1>3, <1>4, <1>7, <1>8 DEF Separate

\* A round of the loop of reserveInterval: nothing from m on meets r, and
\* nothing at all once an interval was split.
CutSet == [tab : Seq(Spans), split : BOOLEAN]

LEMMA CutOutFacts ==
  ASSUME NEW F, NEW acc \in CutSet, Separate(F, acc.tab), NEW m \in DOMAIN acc.tab,
         NEW r, r.lo \in Nat, r.hi \in Nat, r.lo <= r.hi, Aligned(r.lo), Aligned(r.hi + 1),
         \A i \in m + 1..Len(acc.tab) : Off(acc.tab[i], r),
         acc.split => \A i \in 1..Len(acc.tab) : Off(acc.tab[i], r),
         NEW b, b = CutOut(r, acc, m)
  PROVE  /\ b \in CutSet /\ Separate(F, b.tab) /\ m - 1 <= Len(b.tab)
         /\ \A i \in m..Len(b.tab) : Off(b.tab[i], r)
         /\ b.split => \A i \in 1..Len(b.tab) : Off(b.tab[i], r)
<1>1. PICK tab \in Seq(Spans) : tab = acc.tab
  BY DEF Separate
<1>2. PICK n \in Nat : n = Len(tab) /\ DOMAIN tab = 1..n /\ m \in 1..n
  BY <1>1, DomainOfSeq
<1>3. \A i \in 1..n : Clear(F, tab[i])
  BY <1>1, <1>2 DEF Separate
<1>4. PICK s : s = tab[m]
  OBVIOUS
<1>5. Clear(F, s) /\ s.lo \in Nat /\ s.hi \in Nat /\ s.lo <= s.hi
      /\ Aligned(s.lo) /\ Aligned(s.hi + 1)
  BY <1>2, <1>3, <1>4, SpanFields DEF Clear
<1>6. \A i \in m..n : i = m \/ i \in m + 1..n
  BY <1>2
<1>7. /\ acc.split \in BOOLEAN /\ acc = [tab |-> tab, split |-> acc.split]
      /\ Separate(F, tab)
  BY <1>1 DEF CutSet
<1>10. m \in DOMAIN tab
  BY <1>1
<1>8. CASE acc.split \/ s.lo > r.hi \/ r.lo > s.hi
  <2>1. b = acc
    BY <1>1, <1>4, <1>8 DEF CutOut
  <2>2. Off(s, r)
    BY <1>1, <1>2, <1>4, <1>8 DEF Off
  <2> QED BY <1>1, <1>2, <1>4, <1>6, <1>7, <2>1, <2>2
<1>9. CASE ~(acc.split \/ s.lo > r.hi \/ r.lo > s.hi)
  <2>1. acc.split = FALSE /\ s.lo <= r.hi /\ r.lo <= s.hi
    BY <1>5, <1>7, <1>9
  <2>2. CASE s.lo < r.lo /\ r.hi < s.hi
    <3>1. PICK low : low = Span(s.lo, r.lo - 1)
      OBVIOUS
    <3>2. PICK high : high = Span(r.hi + 1, s.hi)
      OBVIOUS
    <3>3. PICK cut : cut = [tab EXCEPT ![m] = low]
      OBVIOUS
    <3>4. b.tab = Append(cut, high) /\ b.split = TRUE /\ b = [tab |-> b.tab, split |-> TRUE]
      <4>1. b = [tab |-> Append([acc.tab EXCEPT ![m] = Span(s.lo, r.lo - 1)],
                                Span(r.hi + 1, s.hi)),
                 split |-> TRUE]
        <5>1. acc.tab[m] = s /\ r.lo <= s.hi /\ s.lo <= r.hi
          BY <1>1, <1>4, <2>1
        <5> QED BY <1>1, <1>5, <1>9, <2>2, <5>1 DEF CutOut
      <4>2. [acc.tab EXCEPT ![m] = Span(s.lo, r.lo - 1)] = cut
        BY <1>1, <3>1, <3>3
      <4>3. b = [tab |-> Append(cut, high), split |-> TRUE]
        BY <4>1, <4>2, <3>2
      <4> QED BY <4>3
    <3>5. r.lo - 1 \in Int /\ (r.lo - 1) + 1 = r.lo /\ s.lo <= r.lo - 1 /\ r.lo - 1 <= s.hi
      BY <1>5, <2>1, <2>2
    <3>6. Part(F, s, low)
      BY <1>5, <3>1, <3>5, ClearPart
    <3>7. r.hi + 1 \in Int /\ s.lo <= r.hi + 1 /\ r.hi + 1 <= s.hi
      BY <1>5, <2>1, <2>2
    <3>8. Clear(F, high) /\ \A e : Clear(F, e) /\ Off(e, s) => Off(e, high)
      <4>1. Part(F, s, high)
        BY <1>5, <3>2, <3>7, ClearPart
      <4> QED BY <4>1 DEF Part
    <3>9. /\ low.lo = s.lo /\ low.hi = r.lo - 1 /\ high.lo = r.hi + 1 /\ high.hi = s.hi
      BY <3>1, <3>2 DEF Span
    <3>10. Separate(F, cut) /\ Len(cut) = n
      <4>1. Part(F, tab[m], low)
        BY <1>4, <3>6
      <4>2. Separate(F, tab)
        BY <1>7
      <4>3. low \in Spans
        BY <4>1 DEF Part, Clear
      <4>4. cut \in Seq(Spans) /\ Len(cut) = Len(tab)
        BY <1>2, <3>3, <4>3, ExceptSeq
      <4>5. \A i \in 1..Len(cut) : cut[i] = IF i = m THEN low ELSE tab[i]
        BY <1>2, <3>3, <4>4
      <4>6. Separate(F, cut)
        BY <1>10, <4>1, <4>2, <4>4, <4>5, ReplaceSeparate
      <4> QED BY <1>2, <4>4, <4>6
    <3>11. DOMAIN cut = 1..n /\ \A i \in 1..n : cut[i] = IF i = m THEN low ELSE tab[i]
      BY <1>1, <1>2, <3>3
    <3>12. Off(low, high) /\ Off(low, r) /\ Off(high, r)
      BY <1>5, <2>1, <3>9 DEF Off
    <3>13. ASSUME NEW i \in 1..n, i # m PROVE Off(tab[i], s) /\ Off(tab[i], r)
      <4>1. Off(tab[i], s)
        BY <1>2, <1>4, <1>7, <3>13 DEF Separate
      <4>2. tab[i].lo \in Nat /\ tab[i].hi \in Nat
        BY <1>3, SpanFields DEF Clear
      <4>3. s.lo \in Nat /\ s.hi \in Nat /\ s.lo < r.lo /\ r.hi < s.hi
        BY <1>5, <2>2
      <4>4. tab[i].hi < s.lo \/ s.hi < tab[i].lo
        BY <4>1 DEF Off
      <4>5. tab[i].hi < r.lo \/ r.hi < tab[i].lo
        <5>1. PICK tlo \in Nat, thi \in Nat : tlo = tab[i].lo /\ thi = tab[i].hi
          BY <4>2
        <5>2. PICK slo \in Nat, shi \in Nat : slo = s.lo /\ shi = s.hi
          BY <4>3
        <5>3. thi < slo \/ shi < tlo
          BY <4>4, <5>1, <5>2
        <5>4. PICK rlo \in Nat, rhi \in Nat : rlo = r.lo /\ rhi = r.hi
          OBVIOUS
        <5>5. slo < rlo /\ rhi < shi
          BY <4>3, <5>2, <5>4
        <5>6. thi < rlo \/ rhi < tlo
          BY <5>3, <5>5
        <5> QED BY <5>1, <5>4, <5>6
      <4> QED BY <4>1, <4>5 DEF Off
    <3>14. \A i \in 1..n : Off(cut[i], high)
      <4> SUFFICES ASSUME NEW i \in 1..n PROVE Off(cut[i], high)
        OBVIOUS
      <4>1. CASE i = m
        BY <3>11, <3>12, <4>1
      <4>2. CASE i # m
        <5>1. Clear(F, tab[i]) /\ Off(tab[i], s)
          BY <1>2, <1>3, <3>13, <4>2
        <5>2. cut[i] = tab[i]
          BY <3>11, <4>2
        <5>3. Off(tab[i], high)
          BY <3>8, <5>1
        <5> QED BY <5>2, <5>3
      <4> QED BY <4>1, <4>2
    <3>15. Separate(F, Append(cut, high))
      BY <3>8, <3>10, <3>14, AppendSeparate
    <3>16. cut \in Seq(Spans) /\ high \in Spans
      BY <3>8, <3>10 DEF Separate, Clear
    <3>17. b.tab \in Seq(Spans) /\ Len(b.tab) = n + 1 /\ b.tab[n + 1] = high
           /\ \A i \in 1..n : b.tab[i] = cut[i]
      BY <3>4, <3>10, <3>16
    <3>18. ASSUME NEW i \in 1..n + 1 PROVE Off(b.tab[i], r)
      <4>1. i \in 1..n \/ i = n + 1
        OBVIOUS
      <4> QED BY <4>1, <3>11, <3>12, <3>13, <3>17
    <3>19. (\A i \in m..n + 1 : i \in 1..n + 1) /\ m - 1 <= n + 1
      BY <1>2
    <3>20. b \in CutSet
      BY <3>4, <3>17 DEF CutSet
    <3> QED BY <3>4, <3>15, <3>17, <3>18, <3>19, <3>20
  <2>3. ASSUME NEW from \in Int, NEW to \in Int,
               b = [acc EXCEPT !.tab[m] = Span(from, to)],
               s.lo <= from, from <= to, to <= s.hi, Aligned(from), Aligned(to + 1),
               to < r.lo \/ r.hi < from
        PROVE  /\ b \in CutSet /\ Separate(F, b.tab) /\ m - 1 <= Len(b.tab)
               /\ \A i \in m..Len(b.tab) : Off(b.tab[i], r)
               /\ b.split = FALSE
    <3>1. PICK p : p = Span(from, to)
      OBVIOUS
    <3>2. Part(F, s, p)
      BY <1>5, <2>3, <3>1, ClearPart
    <3>3. PICK t : t = [tab EXCEPT ![m] = p]
      OBVIOUS
    <3>4. b = [tab |-> t, split |-> FALSE]
      BY <1>1, <1>7, <2>1, <2>3, <3>1, <3>3
    <3>5. Separate(F, t) /\ Len(t) = n
      <4>1. Part(F, tab[m], p)
        BY <1>4, <3>2
      <4>2. Separate(F, tab)
        BY <1>7
      <4>3. p \in Spans
        BY <4>1 DEF Part, Clear
      <4>4. t \in Seq(Spans) /\ Len(t) = Len(tab)
        BY <1>2, <3>3, <4>3, ExceptSeq
      <4>5. \A i \in 1..Len(t) : t[i] = IF i = m THEN p ELSE tab[i]
        BY <1>2, <3>3, <4>4
      <4>6. Separate(F, t)
        BY <1>10, <4>1, <4>2, <4>4, <4>5, ReplaceSeparate
      <4> QED BY <1>2, <4>4, <4>6
    <3>6. \A i \in 1..n : t[i] = IF i = m THEN p ELSE tab[i]
      BY <1>1, <1>2, <3>3
    <3>7. Off(p, r)
      BY <2>3, <3>1 DEF Off, Span
    <3>8. t \in Seq(Spans)
      BY <3>5 DEF Separate
    <3>9. ASSUME NEW i \in m..n PROVE Off(t[i], r)
      BY <1>1, <1>2, <1>6, <3>6, <3>7
    <3> QED BY <1>2, <3>4, <3>5, <3>8, <3>9 DEF CutSet
  <2>4. CASE s.lo < r.lo /\ r.hi >= s.hi
    <3>1. b = [acc EXCEPT !.tab[m] = Span(s.lo, r.lo - 1)]
      BY <1>1, <1>4, <1>5, <1>9, <2>4 DEF CutOut
    <3>2. r.lo - 1 \in Int /\ (r.lo - 1) + 1 = r.lo /\ s.lo \in Int /\ s.lo <= s.lo
          /\ s.lo <= r.lo - 1 /\ r.lo - 1 <= s.hi /\ r.lo - 1 < r.lo
      BY <1>5, <2>1, <2>4
    <3>3. Aligned(s.lo) /\ Aligned((r.lo - 1) + 1)
      BY <1>5, <3>2
    <3> QED BY <2>3, <3>1, <3>2, <3>3
  <2>5. CASE s.lo >= r.lo /\ r.hi < s.hi
    <3>1. b = [acc EXCEPT !.tab[m] = Span(r.hi + 1, s.hi)]
      BY <1>1, <1>4, <1>5, <1>9, <2>5 DEF CutOut
    <3>2. r.hi + 1 \in Int /\ s.hi \in Int /\ s.hi <= s.hi
          /\ s.lo <= r.hi + 1 /\ r.hi + 1 <= s.hi /\ r.hi < r.hi + 1
      BY <1>5, <2>1, <2>5
    <3>3. Aligned(r.hi + 1) /\ Aligned(s.hi + 1)
      BY <1>5
    <3> QED BY <2>3, <3>1, <3>2, <3>3
  <2>6. CASE s.lo >= r.lo /\ r.hi >= s.hi
    <3>1. b = [acc EXCEPT !.tab = DropAt(acc.tab, m)]
      BY <1>1, <1>4, <1>5, <1>9, <2>6 DEF CutOut
    <3>2. PICK d : d = DropAt(tab, m)
      OBVIOUS
    <3>3. b = [tab |-> d, split |-> FALSE]
      BY <1>1, <1>7, <2>1, <3>1, <3>2
    <3>4. d \in Seq(Spans) /\ Len(d) = n - 1 /\ Separate(F, d)
          /\ \A i \in 1..n - 1 : d[i] = tab[IF i = m THEN n ELSE i]
      BY <1>2, <1>7, <1>10, <3>2, DropAtFacts, DropSeparate
    <3>5. ASSUME NEW i \in m..n - 1 PROVE Off(d[i], r)
      <4>1. i \in 1..n - 1 /\ i + 1 \in m + 1..n /\ n \in m + 1..n /\ (i # m => i \in m + 1..n)
        BY <1>2
      <4> QED BY <1>1, <1>2, <3>4, <4>1
    <3>6. b.tab = d /\ b.split = FALSE /\ m - 1 <= n - 1 /\ n - 1 = Len(d)
      BY <1>2, <3>3, <3>4
    <3>7. b \in CutSet
      BY <3>3, <3>4 DEF CutSet
    <3> QED BY <3>4, <3>5, <3>6, <3>7
  <2> QED BY <1>5, <2>2, <2>4, <2>5, <2>6
<1> QED BY <1>8, <1>9

\* Only what is in r is lost.
Leaves(r, tab, tab2) == \A a \in Nat : Has(tab, a) /\ ~Within(r, a) => Has(tab2, a)

LEMMA CutOutLeaves ==
  ASSUME NEW acc \in CutSet, NEW m \in DOMAIN acc.tab, NEW r, r.lo \in Nat, r.hi \in Nat,
         NEW b, b = CutOut(r, acc, m)
  PROVE  Leaves(r, acc.tab, b.tab)
<1>1. PICK tab \in Seq(Spans) : tab = acc.tab
  BY DEF CutSet
<1>2. PICK n \in Nat : n = Len(tab) /\ m \in 1..n /\ m \in DOMAIN tab
  BY <1>1, DomainOfSeq
<1>3. PICK s \in Spans : s = tab[m]
  BY <1>2, DomainOfSeq
<1>4. PICK slo \in Nat, shi \in Nat, rlo \in Nat, rhi \in Nat :
        slo = s.lo /\ shi = s.hi /\ rlo = r.lo /\ rhi = r.hi
  BY SpanFields
<1>5. acc.split \in BOOLEAN /\ acc = [tab |-> tab, split |-> acc.split]
      /\ s.lo \in Nat /\ s.hi \in Nat
  BY <1>1, <1>4 DEF CutSet
<1>6. CASE acc.split \/ s.lo > r.hi \/ r.lo > s.hi
  <2>1. b = acc
    BY <1>1, <1>3, <1>6 DEF CutOut
  <2> QED BY <2>1 DEF Leaves
<1>7. CASE ~(acc.split \/ s.lo > r.hi \/ r.lo > s.hi)
  <2>1. slo <= rhi /\ rlo <= shi
    BY <1>4, <1>7
  <2>2. ASSUME NEW p, NEW t, t = [tab EXCEPT ![m] = p], NEW a \in Nat, Has(tab, a)
        PROVE  Len(t) = n /\ (Within(s, a) \/ Has(t, a)) /\ (Within(p, a) => Has(t, a))
               /\ t[m] = p /\ \A i \in 1..n : i # m => t[i] = tab[i]
    <3>1. DOMAIN tab = 1..n
      BY <1>2, DomainOfSeq
    <3>2. t = [i \in 1..n |-> IF i = m THEN p ELSE tab[i]]
      BY <2>2, <3>1
    <3>3. Len(t) = n
      BY <3>2
    <3>4. t[m] = p /\ \A i \in 1..n : i # m => t[i] = tab[i]
      BY <1>2, <3>2
    <3>5. PICK i \in 1..n : Within(tab[i], a)
      BY <1>2, <2>2 DEF Has
    <3>6. i = m => Within(s, a)
      BY <1>3, <3>5
    <3>7. i # m => Has(t, a)
      BY <3>3, <3>4, <3>5 DEF Has
    <3>8. Within(p, a) => Has(t, a)
      BY <1>2, <3>3, <3>4 DEF Has
    <3> QED BY <3>3, <3>4, <3>6, <3>7, <3>8
  <2>3. CASE s.lo < r.lo /\ r.hi < s.hi
    <3>1. PICK low : low = Span(s.lo, r.lo - 1)
      OBVIOUS
    <3>2. PICK high : high = Span(r.hi + 1, s.hi)
      OBVIOUS
    <3>3. PICK cut : cut = [tab EXCEPT ![m] = low]
      OBVIOUS
    <3>4. b = [tab |-> Append(cut, high), split |-> TRUE]
      <4>1. b = [tab |-> Append([acc.tab EXCEPT ![m] = Span(s.lo, r.lo - 1)],
                                Span(r.hi + 1, s.hi)),
                 split |-> TRUE]
        <5>1. acc.tab[m] = s
          BY ONLY <1>1, <1>3
        <5>2. s.lo < r.lo /\ r.hi < s.hi /\ ~(acc.split \/ s.lo > r.hi \/ r.lo > s.hi)
          BY ONLY <1>7, <2>3
        <5>3. ~(r.hi >= s.hi) /\ ~(s.lo >= r.lo)
          <6>1. slo < rlo /\ rhi < shi
            BY ONLY <1>4, <5>2
          <6>2. ~(rhi >= shi) /\ ~(slo >= rlo)
            BY ONLY <6>1, slo \in Nat, shi \in Nat, rlo \in Nat, rhi \in Nat
          <6> QED BY ONLY <1>4, <6>2
        <5>4. b = CASE acc.split \/ s.lo > r.hi \/ r.lo > s.hi -> acc
                    [] OTHER ->
                       CASE s.lo < r.lo /\ r.hi < s.hi ->
                              [tab |-> Append([acc.tab EXCEPT ![m] = Span(s.lo, r.lo - 1)],
                                              Span(r.hi + 1, s.hi)),
                               split |-> TRUE]
                         [] s.lo < r.lo /\ r.hi >= s.hi  ->
                              [acc EXCEPT !.tab[m] = Span(s.lo, r.lo - 1)]
                         [] s.lo >= r.lo /\ r.hi < s.hi  ->
                              [acc EXCEPT !.tab[m] = Span(r.hi + 1, s.hi)]
                         [] s.lo >= r.lo /\ r.hi >= s.hi ->
                              [acc EXCEPT !.tab = DropAt(acc.tab, m)]
          BY ONLY <5>1, b = CutOut(r, acc, m) DEF CutOut
        <5> QED BY ONLY <5>2, <5>3, <5>4
      <4>2. [acc.tab EXCEPT ![m] = Span(s.lo, r.lo - 1)] = cut
        BY <1>1, <3>1, <3>3
      <4> QED BY <4>1, <4>2, <3>2
    <3>5. b.tab = Append(cut, high)
      BY <3>4
    <3>6. low \in Spans /\ high \in Spans
      <4>1. s.lo \in Addr /\ s.hi \in Addr /\ slo \in Addr /\ shi \in Addr /\ Words \in Nat
        BY <1>4, PageFacts DEF Spans
      <4>2. slo < rlo /\ rhi < shi
        BY <2>3, <1>4
      <4>3. rlo - 1 \in Addr /\ rhi + 1 \in Addr
        BY <4>1, <4>2, <2>1 DEF Addr
      <4> QED BY <1>4, <3>1, <3>2, <4>1, <4>3 DEF Span, Spans
    <3>7. cut \in Seq(Spans)
      BY <1>2, <3>3, <3>6, ExceptSeq
    <3>8. ASSUME NEW a \in Nat, Has(tab, a), ~Within(r, a)
          PROVE  Has(cut, a) \/ Within(high, a)
      <4>1. (Within(s, a) \/ Has(cut, a)) /\ (Within(low, a) => Has(cut, a))
        BY <2>2, <3>3, <3>8
      <4>2. Within(s, a) => Within(low, a) \/ Within(high, a)
        <5>1. low.lo = slo /\ low.hi = rlo - 1 /\ high.lo = rhi + 1 /\ high.hi = shi
          BY <1>4, <3>1, <3>2 DEF Span
        <5>2. ~(rlo <= a /\ a <= rhi)
          BY <1>4, <3>8 DEF Within
        <5>3. (slo <= a /\ a <= shi) => (slo <= a /\ a <= rlo - 1) \/ (rhi + 1 <= a /\ a <= shi)
          BY <5>2
        <5> QED BY <1>4, <5>1, <5>3 DEF Within
      <4> QED BY <4>1, <4>2
    <3> QED BY <1>1, <3>5, <3>6, <3>7, <3>8, AppendKeeps DEF Leaves
  <2>4. ASSUME NEW from \in Int, NEW to \in Int, b = [acc EXCEPT !.tab[m] = Span(from, to)],
               \A a \in Nat : slo <= a /\ a <= shi /\ ~(rlo <= a /\ a <= rhi) => from <= a /\ a <= to
        PROVE  Leaves(r, acc.tab, b.tab)
    <3>1. PICK p : p = Span(from, to)
      OBVIOUS
    <3>2. PICK t : t = [tab EXCEPT ![m] = p]
      OBVIOUS
    <3>3. b.tab = t
      BY <1>1, <1>5, <2>4, <3>1, <3>2
    <3>4. ASSUME NEW a \in Nat, Has(tab, a), ~Within(r, a) PROVE Has(t, a)
      <4>1. (Within(s, a) \/ Has(t, a)) /\ (Within(p, a) => Has(t, a))
        BY <2>2, <3>2, <3>4
      <4>2. Within(s, a) => Within(p, a)
        BY <1>4, <2>4, <3>1, <3>4 DEF Within, Span
      <4> QED BY <4>1, <4>2
    <3> QED BY <1>1, <3>3, <3>4 DEF Leaves
  <2>5. CASE s.lo < r.lo /\ r.hi >= s.hi
    <3>1. b = [acc EXCEPT !.tab[m] = Span(slo, rlo - 1)]
      <4>1. b = [acc EXCEPT !.tab[m] = Span(s.lo, r.lo - 1)]
        BY ONLY <1>1, <1>3, <1>5, <1>7, <2>5, b = CutOut(r, acc, m),
           r.lo \in Nat, r.hi \in Nat DEF CutOut
      <4> QED BY ONLY <4>1, <1>4
    <3>2. shi <= rhi
      BY <1>4, <2>5
    <3>3. \A a \in Nat : slo <= a /\ a <= shi /\ ~(rlo <= a /\ a <= rhi) => slo <= a /\ a <= rlo - 1
      BY <3>2
    <3> QED BY <2>4, <3>1, <3>3
  <2>6. CASE s.lo >= r.lo /\ r.hi < s.hi
    <3>1. b = [acc EXCEPT !.tab[m] = Span(rhi + 1, shi)]
      <4>1. b = [acc EXCEPT !.tab[m] = Span(r.hi + 1, s.hi)]
        BY ONLY <1>1, <1>3, <1>5, <1>7, <2>6, b = CutOut(r, acc, m),
           r.lo \in Nat, r.hi \in Nat DEF CutOut
      <4> QED BY ONLY <4>1, <1>4
    <3>2. rlo <= slo
      BY <1>4, <2>6
    <3>3. \A a \in Nat : slo <= a /\ a <= shi /\ ~(rlo <= a /\ a <= rhi) => rhi + 1 <= a /\ a <= shi
      BY <3>2
    <3>4. rhi + 1 \in Int /\ shi \in Int
      OBVIOUS
    <3> QED BY ONLY <2>4, <3>1, <3>3, <3>4
  <2>7. CASE s.lo >= r.lo /\ r.hi >= s.hi
    <3>1. b = [acc EXCEPT !.tab = DropAt(acc.tab, m)]
      BY ONLY <1>1, <1>3, <1>5, <1>7, <2>7, b = CutOut(r, acc, m),
         r.lo \in Nat, r.hi \in Nat DEF CutOut
    <3>2. b.tab = DropAt(tab, m)
      BY <1>1, <1>5, <3>1
    <3>3. ASSUME NEW a \in Nat, Has(tab, a), ~Within(r, a) PROVE Has(DropAt(tab, m), a)
      <4>1. rlo <= slo /\ shi <= rhi
        BY <1>4, <2>7
      <4>2. ~Within(s, a)
        <5>1. ~(rlo <= a /\ a <= rhi)
          BY ONLY <1>4, <3>3 DEF Within
        <5>2. ~(slo <= a /\ a <= shi)
          BY ONLY <4>1, <5>1, a \in Nat, slo \in Nat, shi \in Nat, rlo \in Nat, rhi \in Nat
        <5> QED BY ONLY <1>4, <5>2 DEF Within
      <4> QED BY <1>2, <1>3, <3>3, <4>2, DropAtKeeps
    <3> QED BY <1>1, <3>2, <3>3 DEF Leaves
  <2> QED BY <1>4, <2>3, <2>5, <2>6, <2>7
<1> QED BY <1>6, <1>7

\* The loop of reserveInterval is there to be computed, for every table.
LEMMA CutLoop ==
  ASSUME NEW tab \in Seq(Spans), NEW r
  PROVE  \E loop :
           /\ loop = [k \in 0..Len(tab) |->
                        IF k = 0 THEN [tab |-> tab, split |-> FALSE]
                        ELSE CutOut(r, loop[k - 1], Len(tab) + 1 - k)]
           /\ Cut(tab, r) = loop[Len(tab)].tab
<1>1. PICK n \in Nat : n = Len(tab)
  BY DomainOfSeq
<1> DEFINE first == [tab |-> tab, split |-> FALSE]
           Def(f, k) == f = [i \in 0..k |-> IF i = 0 THEN first ELSE CutOut(r, f[i - 1], n + 1 - i)]
           bad == {k \in Nat : ~\E f : Def(f, k)}
<1> HIDE DEF first
<1>2. bad = {}
  <2> SUFFICES ASSUME bad # {} PROVE FALSE
    OBVIOUS
  <2>1. PICK k \in Nat : (~\E f : Def(f, k)) /\ \A l \in Nat : (~\E f : Def(f, l)) => k <= l
    <3> HIDE DEF Def
    <3>1. PICK k \in bad : \A l \in bad : k <= l
      BY LeastNumber
    <3> QED BY <3>1
  <2> HIDE DEF bad, Def
  <2>2. CASE k = 0
    <3>1. PICK f : f = [i \in 0..0 |-> first]
      OBVIOUS
    <3>2. f = [i \in 0..0 |-> IF i = 0 THEN first ELSE CutOut(r, f[i - 1], n + 1 - i)]
      BY <3>1
    <3>3. Def(f, 0)
      BY <3>2 DEF Def
    <3> QED BY <3>3, <2>2, <2>1
  <2>3. CASE k # 0
    <3>1. k - 1 \in Nat /\ ~(k <= k - 1) /\ \E f : Def(f, k - 1)
      BY <2>3, <2>1
    <3>2. PICK g : Def(g, k - 1)
      BY <3>1
    <3>4. PICK h : h = [i \in 0..k |-> IF i = k THEN CutOut(r, g[k - 1], n + 1 - k) ELSE g[i]]
      OBVIOUS
    <3>3. Def(h, k)
      <4>1. \A i \in 0..k - 1 : g[i] = IF i = 0 THEN first ELSE CutOut(r, g[i - 1], n + 1 - i)
        BY <3>2 DEF Def
      <4>2. \A i \in 0..k : h[i] = IF i = 0 THEN first ELSE CutOut(r, h[i - 1], n + 1 - i)
        <5>1. \A i \in 0..k - 1 : h[i] = g[i]
          BY <3>4
        <5>2. h[k] = CutOut(r, h[k - 1], n + 1 - k)
          BY <5>1, <3>1, <3>4
        <5>3. ASSUME NEW i \in 0..k - 1
              PROVE  h[i] = IF i = 0 THEN first ELSE CutOut(r, h[i - 1], n + 1 - i)
          <6>1. i # 0 => i - 1 \in 0..k - 1
            OBVIOUS
          <6> QED BY <6>1, <5>1, <4>1
        <5>4. \A i \in 0..k : i = k \/ i \in 0..k - 1
          OBVIOUS
        <5> QED BY <2>3, <5>2, <5>3, <5>4
      <4> QED BY <3>4, <4>2 DEF Def
    <3> QED BY <3>3, <2>1
  <2> QED BY <2>2, <2>3
<1>3. PICK f : f = (CHOOSE g : Def(g, n))
  OBVIOUS
<1>4. Def(f, n)
  BY <1>2, <1>3
<1>5. Cut(tab, r) = f[n].tab
  BY <1>1, <1>3 DEF Cut, first
<1> QED BY <1>1, <1>4, <1>5 DEF first


LEMMA CutSeparate ==
  ASSUME NEW F, NEW tab, Separate(F, tab),
         NEW r, r.lo \in Nat, r.hi \in Nat, r.lo <= r.hi, Aligned(r.lo), Aligned(r.hi + 1),
         NEW t, t = Cut(tab, r)
  PROVE  Separate(F, t) /\ (\A i \in 1..Len(t) : Off(t[i], r)) /\ Leaves(r, tab, t)
<1>1. tab \in Seq(Spans)
  BY DEF Separate
<1>2. PICK n \in Nat : n = Len(tab)
  BY <1>1, DomainOfSeq
<1>3. PICK loop :
        /\ loop = [k \in 0..n |-> IF k = 0 THEN [tab |-> tab, split |-> FALSE]
                                  ELSE CutOut(r, loop[k - 1], n + 1 - k)]
        /\ Cut(tab, r) = loop[n].tab
  <2>1. \E loop :
          /\ loop = [k \in 0..Len(tab) |-> IF k = 0 THEN [tab |-> tab, split |-> FALSE]
                                           ELSE CutOut(r, loop[k - 1], Len(tab) + 1 - k)]
          /\ Cut(tab, r) = loop[Len(tab)].tab
    BY <1>1, CutLoop, Zenon
  <2> QED BY <2>1, <1>2, Zenon
<1> DEFINE Good(k) ==
             LET acc == loop[k] IN
             /\ acc \in CutSet /\ Separate(F, acc.tab) /\ n - k <= Len(acc.tab)
             /\ \A i \in n - k + 1..Len(acc.tab) : Off(acc.tab[i], r)
             /\ acc.split => \A i \in 1..Len(acc.tab) : Off(acc.tab[i], r)
             /\ Leaves(r, tab, acc.tab)
           bad == {k \in 0..n : ~Good(k)}
<1>4. bad = {}
  <2> SUFFICES ASSUME bad # {} PROVE FALSE
    OBVIOUS
  <2>1. PICK k \in 0..n : ~Good(k) /\ \A l \in 0..n : ~Good(l) => k <= l
    <3> HIDE DEF Good
    <3>1. bad \in SUBSET Nat
      OBVIOUS
    <3>2. PICK k \in bad : \A l \in bad : k <= l
      BY <3>1, LeastNumber
    <3> QED BY <3>2
  <2> HIDE DEF bad, Good
  <2>2. CASE k = 0
    <3>1. loop[0] = [tab |-> tab, split |-> FALSE]
      BY <1>3
    <3>2. loop[0].tab = tab /\ loop[0].split = FALSE /\ loop[0] \in CutSet
      BY <3>1, <1>1 DEF CutSet
    <3>3. n - 0 = n /\ \A i \in n - 0 + 1..Len(tab) : FALSE
      BY <1>2
    <3>4. Leaves(r, tab, tab)
      BY DEF Leaves
    <3>5. Good(0)
      BY <3>2, <3>3, <3>4, <1>2 DEF Good
    <3> QED BY <3>5, <2>1, <2>2
  <2>3. CASE k # 0
    <3>1. k \in 1..n /\ k - 1 \in 0..n /\ Good(k - 1)
      BY <2>1, <2>3
    <3>2. PICK acc : acc = loop[k - 1]
      OBVIOUS
    <3>3. PICK j \in 1..n : j = n + 1 - k
      BY <3>1
    <3>4. /\ acc \in CutSet /\ Separate(F, acc.tab) /\ j <= Len(acc.tab)
          /\ \A i \in j + 1..Len(acc.tab) : Off(acc.tab[i], r)
          /\ acc.split => \A i \in 1..Len(acc.tab) : Off(acc.tab[i], r)
          /\ Leaves(r, tab, acc.tab)
      <4>1. n - (k - 1) = j
        BY <3>1, <3>3
      <4> QED BY <3>1, <3>2, <4>1 DEF Good
    <3>5. loop[k] = CutOut(r, acc, j)
      <4>1. k # 0 /\ n + 1 - k = j
        BY <2>3, <3>3
      <4> QED BY <1>3, <4>1, <3>2
    <3>6. j \in DOMAIN acc.tab
      BY <3>3, <3>4, DomainOfSeq DEF Separate
    <3>7. PICK b : b = CutOut(r, acc, j)
      OBVIOUS
    <3>8. /\ b \in CutSet /\ Separate(F, b.tab) /\ j - 1 <= Len(b.tab)
          /\ \A i \in j..Len(b.tab) : Off(b.tab[i], r)
          /\ b.split => \A i \in 1..Len(b.tab) : Off(b.tab[i], r)
      BY <3>4, <3>6, <3>7, CutOutFacts
    <3>9. n - k = j - 1 /\ n - k + 1 = j
      BY <3>1, <3>3
    <3>10. Leaves(r, tab, b.tab)
      <4>1. Leaves(r, acc.tab, b.tab)
        BY <3>4, <3>6, <3>7, CutOutLeaves
      <4> QED BY <3>4, <4>1 DEF Leaves
    <3>11. Good(k)
      <4>1. loop[k] = b
        BY <3>5, <3>7
      <4> QED BY <4>1, <3>8, <3>9, <3>10 DEF Good
    <3> QED BY <3>11, <2>1
  <2> QED BY <2>2, <2>3
<1>5. Good(n)
  <2> HIDE DEF Good
  <2> QED BY <1>4
<1>6. n - n + 1 = 1
  OBVIOUS
<1>7. t = loop[n].tab
  BY <1>3
<1> QED BY <1>5, <1>6, <1>7

\* reserveInterval: no page that is left meets the region.
Untouched(F, region) ==
  {a \in F : (a..a + PageLen - 1) \cap (region.lo..region.hi) = {}}

LEMMA ReserveSeparate ==
  ASSUME NEW F, NEW tab, Separate(F, tab), NEW region \in Spans
  PROVE  Separate(Untouched(F, region), ReserveInterval(tab, region))
<1>1. region.lo \in Addr /\ region.hi \in Addr /\ region.lo \in Nat /\ region.hi \in Nat
  BY SpanFields DEF Spans
<1>2. PageLen \in Nat \ {0, 1} /\ Words \in Nat
  BY PageFacts
<1>3. PICK r \in Spans : r = Span(PageStart(region.lo), PageEnd(region.hi))
  BY <1>1, PageEndFacts DEF Spans, Span
<1>4. r.lo = PageStart(region.lo) /\ r.hi = PageEnd(region.hi)
  BY <1>3 DEF Span
<1>5. /\ Aligned(r.lo) /\ Aligned(r.hi + 1) /\ r.lo <= region.lo /\ region.hi <= r.hi
      /\ r.lo \in Nat /\ r.hi \in Nat
  BY <1>1, <1>4, PageEndFacts, SpanFields
<1>6. PICK t : t = ReserveInterval(tab, region)
  OBVIOUS
<1>7. CASE r.lo >= r.hi
  <2>1. t = tab
    BY <1>3, <1>6, <1>7 DEF ReserveInterval
  <2>2. ASSUME NEW a \in F, NEW x \in (a..a + PageLen - 1) \cap (region.lo..region.hi) PROVE FALSE
    <3>1. region.lo <= region.hi
      BY <1>1, <2>2
    <3>2. r.lo = r.hi
      BY <1>1, <1>5, <1>7, <3>1
    <3>3. 1 * 1 = 1 /\ r.hi + 1 = r.lo + 1 /\ r.lo < r.lo + 1
      BY <1>5, <3>2
    <3>4. r.lo + PageLen <= r.lo + 1
      BY <1>5, <3>3, AlignedApart
    <3> QED BY <1>2, <1>5, <3>4
  <2>3. F \subseteq Untouched(F, region)
    BY <2>2 DEF Untouched
  <2> QED BY <1>6, <2>1, <2>3, SeparateMore
<1>8. CASE ~(r.lo >= r.hi)
  <2>1. t = Cut(tab, r)
    BY <1>3, <1>6, <1>8 DEF ReserveInterval
  <2>2. r.lo <= r.hi
    BY <1>5, <1>8
  <2>3. Separate(F, t) /\ \A i \in 1..Len(t) : Off(t[i], r)
    BY <1>5, <2>1, <2>2, CutSeparate
  <2>4. DOMAIN t = 1..Len(t)
    BY <2>3, DomainOfSeq DEF Separate
  <2>5. ASSUME NEW i \in DOMAIN t, NEW a \in t[i].lo..t[i].hi, Aligned(a)
        PROVE  a \in Untouched(F, region)
    <3>1. Clear(F, t[i]) /\ Off(t[i], r)
      BY <2>3, <2>4 DEF Separate
    <3>2. /\ t[i].lo \in Nat /\ t[i].hi \in Nat /\ Aligned(t[i].hi + 1)
      BY <3>1, SpanFields DEF Clear
    <3>3. a \in Nat /\ t[i].lo <= a /\ a <= t[i].hi
      BY <3>2
    <3>4. a + PageLen <= t[i].hi + 1
      <4>1. a \in Int /\ t[i].hi + 1 \in Int /\ a < t[i].hi + 1
        BY <3>2, <3>3
      <4> QED BY <4>1, <2>5, <3>2, AlignedApart, Zenon
    <3>5. a \in F
      BY <2>5, <3>1 DEF Clear
    <3>6. ASSUME NEW x \in a..a + PageLen - 1, x \in region.lo..region.hi PROVE FALSE
      <4>1. x \in Int /\ a <= x /\ x <= a + PageLen - 1 /\ region.lo <= x /\ x <= region.hi
        BY <1>1, <1>2, <3>3, <3>6
      <4>2. t[i].lo <= x /\ x <= t[i].hi /\ r.lo <= x /\ x <= r.hi
        BY <4>1, <1>1, <1>2, <1>5, <3>2, <3>3, <3>4
      <4> QED BY <4>1, <4>2, <3>1, <3>2, <1>5 DEF Off
    <3> QED BY <3>5, <3>6 DEF Untouched
  <2>6. \A i \in DOMAIN t : Clear(Untouched(F, region), t[i])
    BY <2>3, <2>5 DEF Separate, Clear
  <2> QED BY <1>6, <2>3, <2>6 DEF Separate
<1> QED BY <1>7, <1>8

\* A region that is not an empty one inside of a page, which would take that page.
Whole(region) == region.lo <= region.hi \/ PageEnd(region.hi) <= PageStart(region.lo)

\* reserveInterval: every page that does not meet the region is left.
LEMMA ReserveKeeps ==
  ASSUME NEW F, NEW tab, Separate(F, tab), NEW region \in Spans, Whole(region),
         NEW a \in Nat, Aligned(a), Has(tab, a),
         (a..a + PageLen - 1) \cap (region.lo..region.hi) = {}
  PROVE  Has(ReserveInterval(tab, region), a)
<1>1. region.lo \in Addr /\ region.hi \in Addr /\ region.lo \in Nat /\ region.hi \in Nat
  BY SpanFields DEF Spans
<1>2. PICK P \in Nat \ {0, 1} : P = PageLen
  BY PageFacts
<1>3. PICK from \in Nat, to \in Nat : from = region.lo /\ to = region.hi
  BY <1>1
<1>4. PICK first \in Addr : first = PageStart(from)
  BY <1>1, <1>3, PageEndFacts
<1>5. PICK last \in Addr : last = PageEnd(to)
  BY <1>1, <1>3, PageEndFacts
<1>6. /\ Aligned(first) /\ first <= from /\ from < first + P
  <2>1. from \in Int
    OBVIOUS
  <2> QED BY ONLY <2>1, <1>2, <1>4, PageStartFacts
<1>7. /\ Aligned(last + 1) /\ to <= last /\ last < to + P
  <2>1. PageEnd(to) = PageStart(to) + PageLen - 1 /\ Aligned(PageEnd(to) + 1) /\ to <= PageEnd(to)
    BY <1>1, <1>3, PageEndFacts
  <2>2. to \in Int
    OBVIOUS
  <2>3. PageStart(to) <= to /\ PageStart(to) \in Int
    BY ONLY <2>2, PageStartFacts
  <2> QED BY ONLY <1>2, <1>5, <2>1, <2>2, <2>3, to \in Nat, last \in Addr
<1>8. first \in Nat /\ last \in Nat
  BY <1>4, <1>5 DEF Addr
<1>9. PICK r \in Spans : r = Span(first, last)
  BY DEF Spans, Span
<1>10. r.lo = first /\ r.hi = last
  BY <1>9 DEF Span
<1>11. CASE first >= last
  <2>1. ReserveInterval(tab, region) = tab
    BY <1>3, <1>4, <1>5, <1>9, <1>10, <1>11 DEF ReserveInterval
  <2> QED BY <2>1
<1>12. CASE ~(first >= last)
  <2>1. from <= to
    BY <1>3, <1>4, <1>5, <1>8, <1>12 DEF Whole
  <2>2. ~Within(r, a)
    <3>1. SUFFICES ASSUME first <= a, a <= last PROVE FALSE
      BY <1>10 DEF Within
    <3>2. a + P <= last + 1
      <4>1. a \in Int /\ last + 1 \in Int /\ a < last + 1
        BY <1>8, <3>1
      <4> QED BY ONLY <1>2, <1>7, <4>1, Aligned(a), AlignedApart
    <3>3. a <= to
      BY ONLY <3>2, <1>2, <1>7, <1>8, a \in Nat, to \in Nat
    <3>4. PICK x \in Nat : x = Greater(a, from)
      BY DEF Greater
    <3>5. a <= x /\ x <= a + P - 1 /\ from <= x /\ x <= to
      BY ONLY <3>1, <3>3, <3>4, <2>1, <1>2, <1>6, <1>8, a \in Nat, to \in Nat, from \in Nat
         DEF Greater
    <3>6. x \in a..a + PageLen - 1 /\ x \in region.lo..region.hi
      BY ONLY <3>5, <1>2, <1>3, x \in Nat, a \in Nat, to \in Nat, from \in Nat
    <3> QED BY <3>6
  <2>3. PICK t : t = Cut(tab, r)
    OBVIOUS
  <2>4. ReserveInterval(tab, region) = t
    BY <1>3, <1>4, <1>5, <1>9, <1>10, <1>12, <2>3 DEF ReserveInterval
  <2>5. Leaves(r, tab, t)
    <3>1. r.lo \in Nat /\ r.hi \in Nat /\ r.lo <= r.hi /\ Aligned(r.lo) /\ Aligned(r.hi + 1)
      BY <1>6, <1>7, <1>8, <1>10, <1>12
    <3> QED BY <2>3, <3>1, CutSeparate
  <2> QED BY <2>2, <2>4, <2>5 DEF Leaves
<1> QED BY <1>11, <1>12

-----------------------------------------------------------------------------
(* Sorting, and making blocks.                                             *)

\* Every place is the rank of one interval, since they start at different addresses.
LEMMA SortSeparate ==
  ASSUME NEW F, NEW tab, Separate(F, tab)
  PROVE  /\ Separate(F, SortIntervals(tab))
         /\ \A a : Has(tab, a) => Has(SortIntervals(tab), a)
<1>1. /\ tab \in Seq(Spans) /\ \A i \in DOMAIN tab : Clear(F, tab[i])
      /\ \A i, j \in DOMAIN tab : i # j => Off(tab[i], tab[j])
  BY DEF Separate
<1>2. PICK n \in Nat : n = Len(tab) /\ DOMAIN tab = 1..n
  BY <1>1, DomainOfSeq
<1>3. \A i \in 1..n : tab[i].lo \in Nat /\ tab[i].hi \in Nat /\ tab[i].lo <= tab[i].hi
  BY <1>1, <1>2, SpanFields DEF Clear
<1> DEFINE Less(m) == {k \in 1..n : tab[k].lo < tab[m].lo}
           rank    == [m \in 1..n |-> Cardinality(Less(m))]
<1>4. \A m \in 1..n : Before(tab, m) = Cardinality(Less(m))
  BY <1>2 DEF Before
<1>5. IsFiniteSet(1..n) /\ Cardinality(1..n) = n
  BY FS_Interval
<1>6. IsFiniteSet(0..n - 1) /\ Cardinality(0..n - 1) = n
  BY FS_Interval
<1>7. ASSUME NEW m \in 1..n
      PROVE  IsFiniteSet(Less(m)) /\ Cardinality(Less(m)) \in 0..n - 1
  <2>1. Less(m) \in SUBSET (1..n)
    OBVIOUS
  <2>2. m \in 1..n /\ m \notin Less(m)
    BY <1>3
  <2> HIDE DEF Less
  <2>3. /\ IsFiniteSet(Less(m)) /\ Cardinality(Less(m)) <= n
        /\ Cardinality(Less(m)) = n => Less(m) = 1..n
    BY <1>5, <2>1, FS_Subset
  <2>4. Cardinality(Less(m)) \in Nat
    BY <2>3, FS_CardinalityType
  <2> QED BY <2>2, <2>3, <2>4
<1>8. ASSUME NEW m \in 1..n, NEW l \in 1..n, tab[m].lo < tab[l].lo
      PROVE  Cardinality(Less(m)) # Cardinality(Less(l))
  <2>1. Less(m) \in SUBSET Less(l)
    BY <1>3, <1>8
  <2>2. m \in Less(l) /\ m \notin Less(m)
    BY <1>3, <1>8
  <2> HIDE DEF Less
  <2>3. IsFiniteSet(Less(l))
    BY <1>7
  <2>4. Cardinality(Less(l)) = Cardinality(Less(m)) => Less(l) = Less(m)
    BY <2>1, <2>3, FS_Subset
  <2> QED BY <2>2, <2>4
<1>9. ASSUME NEW m \in 1..n, NEW l \in 1..n, m # l
      PROVE  Cardinality(Less(m)) # Cardinality(Less(l))
  <2>1. Off(tab[m], tab[l])
    BY <1>1, <1>2, <1>9
  <2>2. tab[m].lo < tab[l].lo \/ tab[l].lo < tab[m].lo
    BY <2>1, <1>3 DEF Off
  <2> HIDE DEF Less
  <2> QED BY <2>2, <1>8
<1> HIDE DEF Less
<1>10. rank \in [1..n -> 0..n - 1]
  BY <1>7
<1>11. rank \in Injection(1..n, 0..n - 1)
  BY <1>9, <1>10 DEF Injection, IsInjective
<1>12. rank \in Surjection(1..n, 0..n - 1)
  BY <1>5, <1>6, <1>11, FS_Injection
<1>13. \A i \in 1..n : \E m \in 1..n : Before(tab, m) = i - 1
  <2> SUFFICES ASSUME NEW i \in 1..n PROVE \E m \in 1..n : Before(tab, m) = i - 1
    OBVIOUS
  <2>1. i - 1 \in 0..n - 1
    OBVIOUS
  <2>2. \E m \in 1..n : rank[m] = i - 1
    BY <1>12, <2>1 DEF Surjection
  <2> QED BY <2>2, <1>4
<1> HIDE DEF rank
<1> DEFINE from == [i \in 1..n |-> CHOOSE m \in 1..n : Before(tab, m) = i - 1]
           new  == [i \in 1..n |-> tab[from[i]]]
<1>14. \A i \in 1..n : from[i] \in 1..n /\ Before(tab, from[i]) = i - 1
  BY <1>13
<1>15. SortIntervals(tab) = new
  BY <1>2 DEF SortIntervals
<1>16. ASSUME NEW m \in 1..n PROVE \E i \in 1..n : from[i] = m
  <2>1. PICK i \in 1..n : i - 1 = rank[m]
    <3>1. rank[m] \in 0..n - 1
      BY <1>10
    <3>2. rank[m] + 1 \in 1..n /\ (rank[m] + 1) - 1 = rank[m]
      BY <3>1
    <3> QED BY <3>2
  <2>2. rank[from[i]] = i - 1 /\ from[i] \in 1..n
    BY <1>4, <1>14 DEF rank
  <2> HIDE DEF from
  <2>3. from[i] = m
    BY <2>1, <2>2, <1>11 DEF Injection, IsInjective
  <2> QED BY <2>3
<1> HIDE DEF from
<1>17. new \in [1..n -> Spans]
  BY <1>1, <1>2, <1>14, DomainOfSeq
<1>18. new \in Seq(Spans) /\ DOMAIN new = 1..n
  BY <1>17, SeqDef
<1>19. \A i \in 1..n : new[i] = tab[from[i]]
  OBVIOUS
<1> HIDE DEF new
<1>20. ASSUME NEW i \in 1..n PROVE Clear(F, new[i])
  BY <1>1, <1>2, <1>14, <1>19
<1>21. ASSUME NEW i \in 1..n, NEW j \in 1..n, i # j PROVE Off(new[i], new[j])
  <2>1. from[i] # from[j]
    BY <1>14, <1>21
  <2>2. from[i] \in 1..n /\ from[j] \in 1..n
    BY <1>14
  <2>3. Off(tab[from[i]], tab[from[j]])
    BY <1>1, <1>2, <2>1, <2>2
  <2> QED BY <1>19, <2>3
<1>22. ASSUME NEW a, Has(tab, a) PROVE Has(new, a)
  <2>1. PICK m \in 1..n : Within(tab[m], a)
    BY <1>2, <1>22 DEF Has
  <2>2. PICK i \in 1..n : from[i] = m
    BY <1>16
  <2>3. Within(new[i], a)
    BY <1>19, <2>1, <2>2
  <2>4. Len(new) = n
    BY <1>2, <1>18, DomainOfSeq
  <2> QED BY <2>3, <2>4 DEF Has
<1> QED BY <1>15, <1>18, <1>20, <1>21, <1>22 DEF Separate

LEMMA TailSeparate ==
  ASSUME NEW F, NEW tab, Separate(F, tab), tab # <<>>
  PROVE  /\ Separate(F, Tail(tab))
         /\ Len(Tail(tab)) = Len(tab) - 1
         /\ \A i \in 1..Len(tab) - 1 : Tail(tab)[i] = tab[i + 1]
<1>1. /\ tab \in Seq(Spans) /\ \A i \in DOMAIN tab : Clear(F, tab[i])
      /\ \A i, j \in DOMAIN tab : i # j => Off(tab[i], tab[j])
  BY DEF Separate
<1>2. PICK n \in Nat : n = Len(tab) /\ DOMAIN tab = 1..n
  BY <1>1, DomainOfSeq
<1>3. PICK t : t = Tail(tab)
  OBVIOUS
<1>4. /\ t \in Seq(Spans) /\ Len(t) = n - 1 /\ DOMAIN t = 1..n - 1
      /\ \A i \in 1..n - 1 : t[i] = tab[i + 1]
  BY <1>1, <1>2, <1>3
<1>5. \A i \in 1..n - 1 : i + 1 \in 1..n
  OBVIOUS
<1>6. ASSUME NEW i \in 1..n - 1 PROVE Clear(F, t[i])
  BY <1>1, <1>2, <1>4, <1>5
<1>7. ASSUME NEW i \in 1..n - 1, NEW j \in 1..n - 1, i # j PROVE Off(t[i], t[j])
  <2>1. i + 1 \in DOMAIN tab /\ j + 1 \in DOMAIN tab /\ i + 1 # j + 1
    BY <1>2, <1>7
  <2>2. Off(tab[i + 1], tab[j + 1])
    BY <1>1, <2>1
  <2> QED BY <1>4, <2>2
<1> QED BY <1>2, <1>3, <1>4, <1>6, <1>7 DEF Separate

LEMMA BlockFacts ==
  ASSUME NEW next \in Nat, NEW hi \in Nat, Aligned(next), next + PageLen - 1 <= hi
  PROVE  LET b == BlockBits(next, hi) IN
         b \in PageBits..WordBits /\ next % 2^b = 0 /\ next + 2^b - 1 <= hi
<1> DEFINE Fits(b) == next % 2^b = 0 /\ next + 2^b - 1 <= hi
           fit == {b \in 0..WordBits : b >= PageBits /\ Fits(b)}
<1>1. PageBits \in Nat /\ WordBits \in Nat /\ PageBits \in PageBits..WordBits
      /\ PageBits \in 0..WordBits
  BY WidthsAssumption
<1>2. Fits(PageBits)
  BY DEF Aligned, PageLen
<1>3. fit # {}
  BY <1>1, <1>2
<1> HIDE DEF Fits
<1>4. fit \in SUBSET (0..WordBits)
  OBVIOUS
<1>5. PICK b \in fit : \A c \in fit : c <= b
  BY <1>1, <1>3, <1>4, GreatestNumber
<1>6. b \in PageBits..WordBits /\ Fits(b)
      /\ \A c \in PageBits..WordBits : Fits(c) => c <= b
  <2>1. \A c \in PageBits..WordBits : c \in 0..WordBits /\ c >= PageBits
    BY <1>1
  <2> QED BY <1>1, <1>5, <2>1
<1>7. PICK d : d = BlockBits(next, hi)
  OBVIOUS
<1>8. d = CHOOSE c \in PageBits..WordBits :
            Fits(c) /\ \A e \in PageBits..WordBits : Fits(e) => e <= c
  BY <1>7 DEF BlockBits, Fits
<1>9. d \in PageBits..WordBits /\ Fits(d)
  BY <1>6, <1>8
<1> QED BY <1>7, <1>9 DEF Fits

\* A block of untyped memory fresh from an interval.
LEMMA BlockIsUntyped ==
  ASSUME NEW F, NEW s, Clear(F, s), NEW b, b = BlockBits(s.lo, s.hi)
  PROVE  /\ b \in PageBits..WordBits /\ s.lo + PageLen - 1 <= s.hi
         /\ 2^b \in Nat \ {0} /\ Aligned(s.lo + 2^b) /\ s.lo + 2^b - 1 <= s.hi
         /\ UntypedCap(s.lo, b) \in UntypedSet
         /\ Rest(UntypedCap(s.lo, b)) = s.lo..s.lo + 2^b - 1
         /\ FirstPageAfter(s.lo) = s.lo
<1>1. /\ s.lo \in Nat /\ s.hi \in Nat /\ s.hi < Words /\ s.lo <= s.hi /\ s.lo \in Addr
      /\ Aligned(s.lo) /\ Aligned(s.hi + 1)
  BY SpanFields DEF Clear, Spans
<1>2. PageLen \in Nat \ {0} /\ Words \in Nat \ {0} /\ PageBits \in 0..WordBits
  BY PageFacts
<1>3. s.lo + PageLen <= s.hi + 1
  <2>1. s.lo < s.hi + 1 /\ s.lo \in Int /\ s.hi + 1 \in Int
    BY <1>1
  <2> QED BY <1>1, <2>1, AlignedApart, Zenon
<1>4. s.lo + PageLen - 1 <= s.hi /\ s.lo + PageLen <= Words
  BY <1>1, <1>2, <1>3
<1>5. b \in PageBits..WordBits /\ s.lo % 2^b = 0 /\ s.lo + 2^b - 1 <= s.hi
  BY <1>1, <1>4, BlockFacts
<1>6. b \in 0..WordBits
  BY <1>5, WidthsAssumption
<1>7. 2^b \in Nat \ {0} /\ Aligned(2^b)
  BY <1>2, <1>5, <1>6, PowersPositive, PowersDivide DEF Aligned, PageLen
<1>8. Aligned(s.lo + 2^b)
  <2>1. s.lo \in Int /\ 2^b \in Int
    BY <1>1, <1>7
  <2> QED BY <2>1, <1>1, <1>7, AlignedSum, Zenon
<1>9. FirstPageAfter(s.lo) = s.lo
  BY <1>1, <1>4, FirstPageAfterFacts
<1>10. PICK u : u = UntypedCap(s.lo, b)
  OBVIOUS
<1>11. /\ u.memory = s.lo /\ u.bits = b /\ u.next = 0
       /\ u \in [type : {"untyped"}, memory : Nat, bits : 0..WordBits, next : Nat]
  BY <1>1, <1>6, <1>10 DEF UntypedCap
<1>12. u \in UntypedSet
  <2>1. u.memory + 2^u.bits <= Words
    BY <1>1, <1>2, <1>5, <1>7, <1>11
  <2>2. u.next <= 2^u.bits
    BY <1>7, <1>11
  <2>3. u.memory % 2^u.bits = 0
    BY <1>5, <1>11
  <2> QED BY <1>11, <2>1, <2>2, <2>3 DEF UntypedSet
<1>13. Rest(u) = s.lo..s.lo + 2^b - 1
  BY <1>1, <1>11 DEF Rest
<1> QED BY <1>4, <1>5, <1>7, <1>8, <1>9, <1>10, <1>12, <1>13

\* addUntyped: what it leaves of the intervals lies in them, beyond the block.
LeftOf(tab, last) == IF last < tab[1].hi THEN [tab EXCEPT ![1].lo = last + 1] ELSE Tail(tab)

LEMMA LeftSeparate ==
  ASSUME NEW F, NEW tab, Separate(F, tab), tab # <<>>,
         NEW last \in Int, tab[1].lo <= last, last <= tab[1].hi, Aligned(last + 1),
         NEW t, t = LeftOf(tab, last)
  PROVE  /\ Separate(F, t)
         /\ \A j \in DOMAIN t : \A x \in t[j].lo..t[j].hi :
              (\E i \in DOMAIN tab : x \in tab[i].lo..tab[i].hi) /\ ~(x \in tab[1].lo..last)
<1>1. /\ tab \in Seq(Spans) /\ \A i \in DOMAIN tab : Clear(F, tab[i])
      /\ \A i, j \in DOMAIN tab : i # j => Off(tab[i], tab[j])
  BY DEF Separate
<1>2. PICK n \in Nat : n = Len(tab) /\ DOMAIN tab = 1..n
  BY <1>1, DomainOfSeq
<1>3. n # 0 /\ 1 \in 1..n
  <2>1. n # 0
    BY <1>1, <1>2
  <2> QED BY <2>1
<1>4. \A i \in 1..n : tab[i].lo \in Nat /\ tab[i].hi \in Nat /\ tab[i].lo <= tab[i].hi
                      /\ tab[i] = Span(tab[i].lo, tab[i].hi)
  BY <1>1, <1>2, SpanFields DEF Clear
<1>5. \A i \in 1..n : i # 1 => \A x \in tab[i].lo..tab[i].hi : ~(x \in tab[1].lo..tab[1].hi)
  <2> SUFFICES ASSUME NEW i \in 1..n, i # 1, NEW x \in tab[i].lo..tab[i].hi,
                      x \in tab[1].lo..tab[1].hi
               PROVE  FALSE
    OBVIOUS
  <2>1. Off(tab[i], tab[1])
    BY <1>1, <1>2, <1>3
  <2> QED BY <2>1, <1>3, <1>4 DEF Off
<1>6. CASE last < tab[1].hi
  <2>1. PICK p : p = Span(last + 1, tab[1].hi)
    OBVIOUS
  <2>2. Part(F, tab[1], p)
    <3>1. /\ last + 1 \in Int /\ tab[1].hi \in Int /\ tab[1].lo <= last + 1
          /\ last + 1 <= tab[1].hi /\ tab[1].hi <= tab[1].hi /\ Clear(F, tab[1])
      BY <1>1, <1>2, <1>3, <1>4, <1>6
    <3>2. Aligned(tab[1].hi + 1)
      BY <3>1 DEF Clear
    <3> QED BY <2>1, <3>1, <3>2, ClearPart
  <2>3. t = [tab EXCEPT ![1] = p]
    <3>1. [tab[1] EXCEPT !.lo = last + 1] = p
      <4>1. tab[1] \in Spans
        BY <1>1, <1>2, <1>3 DEF Clear
      <4> QED BY <4>1, <2>1 DEF Span, Spans
    <3> QED BY <3>1, <1>2, <1>3, <1>6 DEF LeftOf
  <2>4. p \in Spans /\ p.lo = last + 1 /\ p.hi = tab[1].hi
    BY <2>1, <2>2 DEF Part, Clear, Span
  <2>5. t \in Seq(Spans) /\ Len(t) = n /\ DOMAIN t = 1..n
    BY <1>1, <1>2, <1>3, <2>3, <2>4, ExceptSeq, DomainOfSeq
  <2>6. \A i \in 1..n : t[i] = IF i = 1 THEN p ELSE tab[i]
    BY <1>1, <1>2, <2>3
  <2>7. Separate(F, t)
    <3>1. Len(t) = Len(tab) /\ \A i \in 1..Len(t) : t[i] = IF i = 1 THEN p ELSE tab[i]
      BY <1>2, <2>5, <2>6
    <3>2. PICK m \in DOMAIN tab : m = 1
      BY <1>2, <1>3
    <3>3. Part(F, tab[m], p)
      BY <2>2, <3>2
    <3>4. \A i \in 1..Len(t) : t[i] = IF i = m THEN p ELSE tab[i]
      BY <3>1, <3>2
    <3>5. t \in Seq(Spans) /\ Len(t) = Len(tab)
      BY <2>5, <3>1
    <3> QED BY <3>3, <3>4, <3>5, ReplaceSeparate
  <2>8. ASSUME NEW j \in 1..n, NEW x \in t[j].lo..t[j].hi
        PROVE  (\E i \in 1..n : x \in tab[i].lo..tab[i].hi) /\ ~(x \in tab[1].lo..last)
    <3>1. CASE j = 1
      <4>1. x \in last + 1..tab[1].hi
        BY <1>3, <2>4, <2>6, <2>8, <3>1
      <4>2. tab[1].lo \in Nat /\ tab[1].hi \in Nat
        BY <1>3, <1>4
      <4>3. x \in tab[1].lo..tab[1].hi /\ ~(x \in tab[1].lo..last)
        BY <4>1, <4>2
      <4> QED BY <4>3, <1>3
    <3>2. CASE j # 1
      <4>1. t[j] = tab[j]
        BY <2>6, <3>2
      <4>2. ~(x \in tab[1].lo..tab[1].hi) /\ x \in tab[j].lo..tab[j].hi
        BY <1>5, <2>8, <3>2, <4>1
      <4>3. x \in tab[1].lo..last => x \in tab[1].lo..tab[1].hi
        BY <1>3, <1>4
      <4> QED BY <4>2, <4>3
    <3> QED BY <3>1, <3>2
  <2> QED BY <1>2, <2>5, <2>7, <2>8
<1>7. CASE ~(last < tab[1].hi)
  <2>1. t = Tail(tab) /\ last = tab[1].hi
    BY <1>3, <1>4, <1>7 DEF LeftOf
  <2>2. Separate(F, t) /\ Len(t) = n - 1 /\ \A i \in 1..n - 1 : t[i] = tab[i + 1]
    BY <1>2, <2>1, TailSeparate
  <2>3. DOMAIN t = 1..n - 1
    BY <2>2, DomainOfSeq DEF Separate
  <2>4. ASSUME NEW j \in 1..n - 1, NEW x \in t[j].lo..t[j].hi
        PROVE  (\E i \in 1..n : x \in tab[i].lo..tab[i].hi) /\ ~(x \in tab[1].lo..last)
    <3>1. j + 1 \in 1..n /\ j + 1 # 1
      OBVIOUS
    <3>2. t[j] = tab[j + 1]
      BY <2>2
    <3>3. x \in tab[j + 1].lo..tab[j + 1].hi
      BY <2>4, <3>2
    <3>4. ~(x \in tab[1].lo..tab[1].hi)
      BY <1>5, <3>1, <3>3
    <3> QED BY <2>1, <3>1, <3>3, <3>4
  <2> QED BY <1>2, <2>2, <2>3, <2>4
<1> QED BY <1>6, <1>7

\* What was in the intervals is in the block or still in the intervals.
LEMMA LeftKeeps ==
  ASSUME NEW tab \in Seq(Spans), tab # <<>>, NEW last \in Int, NEW t, t = LeftOf(tab, last),
         NEW a \in Nat, Has(tab, a), ~(tab[1].lo <= a /\ a <= last)
  PROVE  Has(t, a)
<1>1. PICK n \in Nat : n = Len(tab) /\ DOMAIN tab = 1..n
  BY DomainOfSeq
<1>2. n # 0 /\ 1 \in 1..n
  <2>1. n # 0
    BY <1>1
  <2> QED BY <2>1
<1>3. PICK s \in Spans : s = tab[1]
  BY <1>1, <1>2, DomainOfSeq
<1>4. PICK slo \in Nat, shi \in Nat : slo = s.lo /\ shi = s.hi
  BY SpanFields
<1>5. PICK i \in 1..n : Within(tab[i], a)
  BY <1>1 DEF Has
<1>6. i = 1 => last < a /\ a <= shi
  BY <1>3, <1>4, <1>5 DEF Within
<1>7. CASE last < shi
  <2>1. PICK p : p = [s EXCEPT !.lo = last + 1]
    OBVIOUS
  <2>2. p.lo = last + 1 /\ p.hi = shi
    BY <1>4, <2>1 DEF Spans
  <2>3. t = [tab EXCEPT ![1].lo = last + 1]
    BY <1>3, <1>4, <1>7 DEF LeftOf
  <2>4. t = [j \in 1..n |-> IF j = 1 THEN p ELSE tab[j]]
    BY <1>1, <1>2, <1>3, <2>1, <2>3
  <2>5. Len(t) = n /\ t[i] = IF i = 1 THEN p ELSE tab[i]
    BY <2>4
  <2>6. i = 1 => Within(p, a)
    BY <1>6, <2>2 DEF Within
  <2>7. Within(t[i], a)
    BY <1>5, <2>5, <2>6
  <2> QED BY <2>5, <2>7 DEF Has
<1>8. CASE ~(last < shi)
  <2>1. i # 1
    BY <1>6, <1>8
  <2>2. t = Tail(tab)
    BY <1>3, <1>4, <1>8 DEF LeftOf
  <2>3. Len(t) = n - 1 /\ \A j \in 1..n - 1 : t[j] = tab[j + 1]
    BY <1>1, <2>2
  <2>4. i - 1 \in 1..n - 1 /\ (i - 1) + 1 = i
    BY <2>1
  <2>5. Within(t[i - 1], a)
    BY <1>5, <2>3, <2>4
  <2> QED BY <2>3, <2>4, <2>5 DEF Has
<1> QED BY <1>7, <1>8

\* The larger blocks come first.
Descending(tab) == \A i, j \in 1..Len(tab) : i <= j => tab[i].bits >= tab[j].bits

\* insertUntyped: the new block is somewhere in the table, and nothing is twice.
Placed(tab, t, new) ==
  \E from \in [1..Len(t) -> 0..Len(tab)] :
    \A i \in 1..Len(t) :
      /\ \A j \in 1..Len(t) : i # j => from[i] # from[j]
      /\ t[i] = IF from[i] = 0 THEN new ELSE tab[from[i]]

LEMMA InsertUntypedFacts ==
  ASSUME NEW tab \in Seq(UntypedSet), NEW memory, NEW bits,
         UntypedCap(memory, bits) \in UntypedSet,
         NEW t, t = InsertUntyped(tab, memory, bits)
  PROVE  /\ t \in Seq(UntypedSet)
         /\ Placed(tab, t, UntypedCap(memory, bits))
         /\ Descending(tab) => Descending(t)
         /\ Len(t) < MaxUntyped =>
              /\ Len(t) = Len(tab) + 1
              /\ \E i \in 1..Len(t) : t[i] = UntypedCap(memory, bits)
              /\ \A i \in 1..Len(tab) : \E j \in 1..Len(t) : t[j] = tab[i]
<1>1. PICK n \in Nat : n = Len(tab) /\ DOMAIN tab = 1..n /\ \A i \in 1..n : tab[i] \in UntypedSet
  BY DomainOfSeq
<1>2. PICK u \in UntypedSet : u = UntypedCap(memory, bits)
  OBVIOUS
<1>3. PICK found : found = SelectInSeq(tab, LAMBDA v : bits > v.bits)
  OBVIOUS
<1>4. /\ found \in 0..n
      /\ found = 0 => \A i \in 1..n : ~(bits > tab[i].bits)
      /\ found # 0 => bits > tab[found].bits /\ \A i \in 1..found - 1 : ~(bits > tab[i].bits)
  <2> DEFINE I == {i \in 1..n : bits > tab[i].bits}
  <2>1. found = IF I # {} THEN Min(I) ELSE 0
    BY <1>1, <1>3 DEF SelectInSeq
  <2>2. ASSUME I # {} PROVE Min(I) \in I /\ \A i \in I : Min(I) <= i
    <3>1. I \in SUBSET Nat
      OBVIOUS
    <3> HIDE DEF I
    <3>2. PICK x \in I : \A y \in I : x <= y
      BY <3>1, <2>2, LeastNumber
    <3> QED BY <3>2 DEF Min
  <2>3. CASE I = {}
    BY <2>1, <2>3
  <2>4. CASE I # {}
    <3>1. found \in I /\ \A i \in I : found <= i
      BY <2>1, <2>2, <2>4
    <3>2. found \in 1..n /\ bits > tab[found].bits
      BY <3>1
    <3>3. ASSUME NEW i \in 1..found - 1 PROVE ~(bits > tab[i].bits)
      <4>1. i \in 1..n /\ ~(found <= i)
        BY <3>2
      <4> QED BY <3>1, <4>1
    <3> QED BY <3>2, <3>3
  <2> QED BY <2>3, <2>4
<1>5. PICK p \in 1..n + 1 : p = IF found = 0 THEN n + 1 ELSE found
  BY <1>4
<1>6. PICK new : new = InsertAt(tab, p, u)
  OBVIOUS
<1>7. /\ new \in Seq(UntypedSet) /\ Len(new) = n + 1
      /\ \A i \in 1..n + 1 : new[i] = IF i < p THEN tab[i] ELSE IF i = p THEN u ELSE tab[i - 1]
  <2>1. PICK a : a = SubSeq(tab, 1, p - 1)
    OBVIOUS
  <2>2. PICK c : c = SubSeq(tab, p, n)
    OBVIOUS
  <2>3. /\ a \in Seq(UntypedSet) /\ Len(a) = p - 1 /\ \A i \in 1..p - 1 : a[i] = tab[i]
    BY <1>1, <2>1
  <2>4. /\ c \in Seq(UntypedSet) /\ Len(c) = n - p + 1
        /\ \A i \in 1..n - p + 1 : c[i] = tab[p + i - 1]
    <3>1. \A i \in p..n : tab[i] \in UntypedSet
      BY <1>1
    <3>2. c \in Seq(UntypedSet) /\ Len(c) = (IF p <= n THEN n - p + 1 ELSE 0)
          /\ \A i \in 1..n - p + 1 : c[i] = tab[p + i - 1]
      BY <2>2, <3>1, SubSeqProperties
    <3> QED BY <3>2
  <2>5. new = a \o <<u>> \o c
    BY <1>1, <1>6, <2>1, <2>2 DEF InsertAt
  <2>6. PICK ab : ab = a \o <<u>>
    OBVIOUS
  <2>7. /\ ab \in Seq(UntypedSet) /\ Len(ab) = p
        /\ \A i \in 1..p : ab[i] = IF i < p THEN tab[i] ELSE u
    BY <2>3, <2>6
  <2>8. new \in Seq(UntypedSet) /\ Len(new) = n + 1
    <3>1. new = ab \o c
      BY <2>5, <2>6
    <3>2. new \in Seq(UntypedSet) /\ Len(new) = Len(ab) + Len(c)
      BY <3>1, <2>4, <2>7, ConcatProperties
    <3>3. p + (n - p + 1) = n + 1
      OBVIOUS
    <3> QED BY <3>2, <3>3, <2>4, <2>7
  <2>9. ASSUME NEW i \in 1..n + 1
        PROVE  new[i] = IF i < p THEN tab[i] ELSE IF i = p THEN u ELSE tab[i - 1]
    <3>1. CASE i \in 1..p
      <4>1. new[i] = ab[i]
        BY <2>4, <2>5, <2>6, <2>7, <3>1
      <4> QED BY <2>7, <3>1, <4>1
    <3>2. CASE i \notin 1..p
      <4>1. i - p \in 1..n - p + 1 /\ p + (i - p) - 1 = i - 1 /\ ~(i < p) /\ i # p
        BY <3>2
      <4>2. new[i] = c[i - p]
        BY <2>4, <2>5, <2>6, <2>7, <3>2
      <4> QED BY <2>4, <4>1, <4>2
    <3> QED BY <3>1, <3>2
  <2> QED BY <2>8, <2>9
<1>8. PICK k \in 0..n + 1 : k = Lesser(n + 1, MaxUntyped)
  BY WidthsAssumption DEF Lesser
<1>9. t = SubSeq(new, 1, k)
  BY <1>1, <1>2, <1>3, <1>5, <1>6, <1>7, <1>8 DEF InsertUntyped
<1>10. /\ t \in Seq(UntypedSet) /\ Len(t) = k /\ \A i \in 1..k : t[i] = new[i]
  <2>1. \A i \in 1..k : new[i] \in UntypedSet
    BY <1>7, DomainOfSeq
  <2>2. /\ t \in Seq(UntypedSet) /\ Len(t) = (IF 1 <= k THEN k - 1 + 1 ELSE 0)
        /\ \A i \in 1..k - 1 + 1 : t[i] = new[1 + i - 1]
    BY <1>9, <2>1, SubSeqProperties
  <2> QED BY <2>2
<1>11. PICK from : from = [i \in 1..k |-> IF i < p THEN i ELSE IF i = p THEN 0 ELSE i - 1]
  OBVIOUS
<1>12. from \in [1..k -> 0..n]
  BY <1>11
<1>13. \A i, j \in 1..k : i # j => from[i] # from[j]
  BY <1>11
<1>14. ASSUME NEW i \in 1..k PROVE t[i] = IF from[i] = 0 THEN u ELSE tab[from[i]]
  <2>1. i \in 1..n + 1
    OBVIOUS
  <2>2. from[i] = IF i < p THEN i ELSE IF i = p THEN 0 ELSE i - 1
    BY <1>11
  <2>3. t[i] = IF i < p THEN tab[i] ELSE IF i = p THEN u ELSE tab[i - 1]
    BY <1>7, <1>10, <2>1
  <2> QED BY <2>2, <2>3
<1>15. Descending(tab) => Descending(t)
  <2> SUFFICES ASSUME Descending(tab) PROVE Descending(t)
    OBVIOUS
  <2>1. /\ \A i \in 1..n : tab[i].bits \in Nat
        /\ u.bits = bits /\ bits \in Nat
    <3>1. \A v \in UntypedSet : v.bits \in Nat
      BY UntypedFields
    <3> QED BY <1>1, <1>2, <3>1 DEF UntypedCap
  <2>2. \A i \in 1..n : i < p => tab[i].bits >= bits
    BY <1>4, <1>5, <2>1
  <2>3. \A i \in 1..n : i >= p => bits >= tab[i].bits
    <3> SUFFICES ASSUME NEW i \in 1..n, i >= p PROVE bits >= tab[i].bits
      OBVIOUS
    <3>1. p = found /\ found \in 1..n /\ bits > tab[found].bits
      BY <1>4, <1>5
    <3>2. tab[found].bits >= tab[i].bits
      BY <1>1, <3>1 DEF Descending
    <3>3. PICK x \in Nat, y \in Nat, z \in Nat :
            x = bits /\ y = tab[found].bits /\ z = tab[i].bits
      BY <2>1, <3>1
    <3>4. x > y /\ y >= z
      BY ONLY <3>1, <3>2, <3>3
    <3>5. x >= z
      BY ONLY <3>4, x \in Nat, y \in Nat, z \in Nat
    <3> QED BY ONLY <3>3, <3>5
  <2>4. ASSUME NEW i \in 1..k, NEW j \in 1..k, i <= j PROVE t[i].bits >= t[j].bits
    <3>1. /\ t[i] = IF i < p THEN tab[i] ELSE IF i = p THEN u ELSE tab[i - 1]
          /\ t[j] = IF j < p THEN tab[j] ELSE IF j = p THEN u ELSE tab[j - 1]
      BY <1>7, <1>10
    <3>2. \A a, b \in 1..n : a <= b => tab[a].bits >= tab[b].bits
      BY <1>1 DEF Descending
    <3>3. i \in 1..n + 1 /\ j \in 1..n + 1
      OBVIOUS
    <3>4. (i < p => i \in 1..n) /\ (i > p => i - 1 \in 1..n /\ i - 1 >= p)
      BY <3>3
    <3>5. (j < p => j \in 1..n) /\ (j > p => j - 1 \in 1..n /\ j - 1 >= p)
      BY <3>3
    <3>6. CASE j < p
      <4>1. i < p /\ i \in 1..n /\ j \in 1..n
        BY <2>4, <3>4, <3>5, <3>6
      <4> QED BY ONLY <3>1, <3>2, <3>6, <4>1, i <= j
    <3>7. CASE i < p /\ j >= p
      <4>1. tab[i].bits >= bits
        BY <2>2, <3>4, <3>7
      <4>2. t[j].bits \in Nat /\ bits >= t[j].bits
        BY <2>1, <2>3, <3>1, <3>5, <3>7
      <4>3. t[i] = tab[i] /\ tab[i].bits \in Nat
        BY <2>1, <3>1, <3>4, <3>7
      <4>4. PICK x \in Nat, y \in Nat, z \in Nat :
              x = t[i].bits /\ y = bits /\ z = t[j].bits
        BY <2>1, <4>2, <4>3
      <4>5. x >= y /\ y >= z
        BY ONLY <4>1, <4>2, <4>3, <4>4
      <4>6. x >= z
        BY ONLY <4>5, x \in Nat, y \in Nat, z \in Nat
      <4> QED BY ONLY <4>4, <4>6
    <3>8. CASE i = p
      <4>1. t[i].bits = bits
        BY <2>1, <3>1, <3>8
      <4>2. t[j].bits \in Nat /\ bits >= t[j].bits
        BY <2>1, <2>3, <2>4, <3>1, <3>5, <3>8
      <4> QED BY ONLY <4>1, <4>2
    <3>9. CASE i > p
      <4>1. j > p
        BY <2>4, <3>9
      <4>2. t[i] = tab[i - 1] /\ t[j] = tab[j - 1] /\ i - 1 \in 1..n /\ j - 1 \in 1..n
        BY <3>1, <3>4, <3>5, <3>9, <4>1
      <4>3. i - 1 <= j - 1
        BY <2>4
      <4> QED BY ONLY <3>2, <4>2, <4>3
    <3> QED BY <3>6, <3>7, <3>8, <3>9
  <2> QED BY <1>10, <2>4 DEF Descending
<1>16. ASSUME Len(t) < MaxUntyped
       PROVE  /\ Len(t) = n + 1 /\ \E i \in 1..n + 1 : t[i] = u
              /\ \A i \in 1..n : \E j \in 1..n + 1 : t[j] = tab[i]
  <2>1. k = n + 1
    <3>1. MaxUntyped \in Nat
      BY WidthsAssumption
    <3>2. k < MaxUntyped /\ k = IF n + 1 < MaxUntyped THEN n + 1 ELSE MaxUntyped
      BY ONLY <1>8, <1>10, <1>16 DEF Lesser
    <3> QED BY ONLY <3>1, <3>2, n \in Nat
  <2>2. t[p] = u
    BY <1>7, <1>10, <2>1
  <2>3. ASSUME NEW i \in 1..n PROVE \E j \in 1..n + 1 : t[j] = tab[i]
    <3>1. CASE i < p
      BY <1>7, <1>10, <2>1, <3>1
    <3>2. CASE ~(i < p)
      <4>1. i + 1 \in 1..n + 1 /\ ~(i + 1 < p) /\ i + 1 # p /\ (i + 1) - 1 = i
        BY <3>2
      <4>2. t[i + 1] = tab[i]
        BY <1>7, <1>10, <2>1, <4>1
      <4> QED BY <4>1, <4>2
    <3> QED BY <3>1, <3>2
  <2> QED BY <1>10, <2>1, <2>2, <2>3
<1>17. /\ t \in Seq(UntypedSet) /\ Len(t) = k /\ Len(tab) = n /\ UntypedCap(memory, bits) = u
       /\ from \in [1..k -> 0..n]
       /\ \A i \in 1..k : /\ \A j \in 1..k : i # j => from[i] # from[j]
                         /\ t[i] = IF from[i] = 0 THEN u ELSE tab[from[i]]
  BY <1>1, <1>2, <1>10, <1>12, <1>13, <1>14
<1>18. Placed(tab, t, u)
  BY ONLY <1>17 DEF Placed
<1>19. Len(t) < MaxUntyped =>
         /\ Len(t) = Len(tab) + 1
         /\ \E i \in 1..Len(t) : t[i] = UntypedCap(memory, bits)
         /\ \A i \in 1..Len(tab) : \E j \in 1..Len(t) : t[j] = tab[i]
  BY <1>1, <1>2, <1>16
<1> QED BY ONLY <1>17, <1>18, <1>15, <1>19

-----------------------------------------------------------------------------
(* What is taken, and what is left.                                        *)

\* alloc: the new object and the rest lie in what was left, and apart.
LEMMA TakenFacts ==
  ASSUME NEW u \in UntypedSet, NEW bits \in 0..WordBits - 1, Allocates(u, bits)
  PROVE  /\ Object(u, bits) \in Nat /\ Object(u, bits) % 2^bits = 0
         /\ 2^bits \in Nat \ {0} /\ Object(u, bits) + 2^bits <= Words
         /\ After(u, bits) \in UntypedSet
         /\ \A x \in Object(u, bits)..Object(u, bits) + 2^bits - 1 :
              x \in Rest(u) /\ x \notin Rest(After(u, bits))
         /\ Rest(After(u, bits)) \subseteq Rest(u)
         /\ UntypedCap(Object(u, bits), bits) \in UntypedSet
         /\ Rest(UntypedCap(Object(u, bits), bits))
              = Object(u, bits)..Object(u, bits) + 2^bits - 1
<1>1. bits \in 0..WordBits /\ Words \in Nat \ {0}
  BY WidthsAssumption, PageFacts
<1>2. /\ u.memory \in Nat /\ u.bits \in 0..WordBits /\ u.next \in Nat
      /\ 2^u.bits \in Nat \ {0} /\ u.memory % 2^u.bits = 0 /\ u.memory + 2^u.bits <= Words
  BY UntypedFields
<1>3. PICK L \in Nat \ {0} : L = 2^bits
  BY <1>1, PowersPositive
<1>4. PICK o \in Nat : o = ObjectAt(u, bits)
  BY AllocatesWithin
<1>5. /\ o % L = 0 /\ u.next <= o /\ LastAt(u, bits) = o + L - 1
      /\ o + L <= 2^u.bits /\ bits <= u.bits
  BY <1>3, <1>4, AllocatesWithin
<1>6. PICK a \in Nat : a = Object(u, bits) /\ a = u.memory + o
  BY <1>2, <1>4 DEF Object
<1>7. a % L = 0
  <2>1. u.bits \in bits..WordBits
    BY <1>1, <1>2, <1>5
  <2>2. (2^u.bits) % L = 0
    BY <1>1, <1>3, <2>1, PowersDivide
  <2>3. u.memory % L = 0
    BY <1>2, <1>3, <2>2, MultipleOfMultiple
  <2>4. PICK m \in Int : m = u.memory /\ m % L = 0 /\ a = m + o
    BY <1>2, <1>6, <2>3
  <2>5. o \in Int /\ o % L = 0
    BY <1>5
  <2>6. (m + o) % L = 0
    BY <2>4, <2>5, MultiplesSum, Zenon
  <2> QED BY <2>4, <2>6
<1>8. PICK B \in Nat \ {0} : B = 2^u.bits
  BY <1>2
<1>9. a + L <= u.memory + B /\ a + L <= Words
  BY <1>1, <1>2, <1>5, <1>6, <1>8
<1>10. PICK v : v = After(u, bits)
  OBVIOUS
<1>11. /\ v.memory = u.memory /\ v.bits = u.bits /\ v.next = o + L
       /\ v \in [type : {"untyped"}, memory : Nat, bits : 0..WordBits, next : Nat]
  <2>1. u \in [type : {"untyped"}, memory : Nat, bits : 0..WordBits, next : Nat]
    BY DEF UntypedSet
  <2>2. v = [u EXCEPT !.next = o + L]
    BY <1>5, <1>10 DEF After
  <2> QED BY <2>1, <2>2
<1>12. v \in UntypedSet
  BY <1>2, <1>5, <1>11 DEF UntypedSet
<1>13. Rest(u) = u.memory + u.next..u.memory + B - 1
       /\ Rest(v) = u.memory + (o + L)..u.memory + B - 1
  BY <1>8, <1>11 DEF Rest
<1>14. ASSUME NEW x \in a..a + L - 1 PROVE x \in Rest(u) /\ x \notin Rest(v)
  <2>1. x \in Int /\ a <= x /\ x < a + L
    OBVIOUS
  <2>2. u.memory + u.next <= x /\ x <= u.memory + B - 1
    BY <2>1, <1>2, <1>5, <1>6, <1>9
  <2>3. ~(u.memory + (o + L) <= x)
    BY <2>1, <1>2, <1>6
  <2> QED BY <1>2, <1>13, <2>1, <2>2, <2>3
<1>15. Rest(v) \subseteq Rest(u)
  <2>1. u.memory \in Nat /\ u.next \in Nat /\ u.memory + u.next <= u.memory + (o + L)
    BY <1>2, <1>5
  <2> QED BY <1>13, <2>1
<1>16. PICK w : w = UntypedCap(a, bits)
  OBVIOUS
<1>17. /\ w.memory = a /\ w.bits = bits /\ w.next = 0
       /\ w \in [type : {"untyped"}, memory : Nat, bits : 0..WordBits, next : Nat]
  BY <1>1, <1>16 DEF UntypedCap
<1>18. w \in UntypedSet
  <2>1. w.memory % 2^w.bits = 0 /\ w.memory + 2^w.bits <= Words /\ w.next <= 2^w.bits
    BY <1>3, <1>7, <1>9, <1>17
  <2> QED BY <1>17, <2>1 DEF UntypedSet
<1>19. Rest(w) = a..a + L - 1
  BY <1>3, <1>17 DEF Rest
<1> QED BY <1>3, <1>6, <1>7, <1>9, <1>10, <1>12, <1>14, <1>15, <1>16, <1>18, <1>19

\* allocPage: the table up to the block that gives the page.
LEMMA GiverFacts ==
  ASSUME NEW tab \in Seq(UntypedSet), Givers(tab) # {}
  PROVE  /\ Giver(tab) \in 1..Len(tab) /\ Allocates(tab[Giver(tab)], PageBits)
         /\ AfterPage(tab) \in Seq(UntypedSet) /\ Len(AfterPage(tab)) = Giver(tab)
         /\ \A i \in 1..Giver(tab) :
              AfterPage(tab)[i] = IF i = Giver(tab) THEN After(tab[i], PageBits) ELSE tab[i]
<1>1. PICK n \in Nat : n = Len(tab) /\ DOMAIN tab = 1..n /\ \A i \in 1..n : tab[i] \in UntypedSet
  BY DomainOfSeq
<1>2. Givers(tab) \in SUBSET (0..n)
  BY <1>1 DEF Givers
<1>3. \E g \in Givers(tab) : \A j \in Givers(tab) : j <= g
  BY <1>1, <1>2, GreatestNumber
<1>4. PICK g : g = Giver(tab)
  OBVIOUS
<1>5. g \in Givers(tab)
  BY <1>3, <1>4 DEF Giver
<1>6. g \in 1..n /\ Allocates(tab[g], PageBits)
  BY <1>1, <1>5 DEF Givers
<1>7. PICK v : v = After(tab[g], PageBits)
  OBVIOUS
<1>8. v \in UntypedSet
  BY <1>1, <1>6, <1>7, PageFacts, TakenFacts
<1>9. PICK t : t = [tab EXCEPT ![g] = v]
  OBVIOUS
<1>10. t \in Seq(UntypedSet) /\ Len(t) = n /\ \A i \in 1..n : t[i] = IF i = g THEN v ELSE tab[i]
  BY <1>1, <1>6, <1>8, <1>9, ExceptSeq
<1>11. AfterPage(tab) = SubSeq(t, 1, g)
  BY <1>1, <1>4, <1>6, <1>7, <1>9 DEF AfterPage
<1>12. PICK s : s = SubSeq(t, 1, g)
  OBVIOUS
<1>13. s \in Seq(UntypedSet) /\ Len(s) = g /\ \A i \in 1..g : s[i] = t[i]
  <2>1. \A i \in 1..g : t[i] \in UntypedSet
    BY <1>1, <1>6, <1>8, <1>10
  <2>2. /\ s \in Seq(UntypedSet) /\ Len(s) = (IF 1 <= g THEN g - 1 + 1 ELSE 0)
        /\ \A i \in 1..g - 1 + 1 : s[i] = t[1 + i - 1]
    BY <1>6, <1>12, <2>1, SubSeqProperties
  <2> QED BY <1>6, <2>2
<1>14. \A i \in 1..g : s[i] = IF i = g THEN After(tab[i], PageBits) ELSE tab[i]
  BY <1>6, <1>7, <1>10, <1>13
<1> QED BY <1>1, <1>4, <1>6, <1>11, <1>12, <1>13, <1>14

-----------------------------------------------------------------------------
(* Memory, and the parts of the invariant that only speak of it: "tab" is  *)
(* a table of untyped memory, "objs" are objects, and U is what the        *)
(* addresses are taken from.                                               *)

CapSet ==
  {NullCap, ConsoleCap} \cup {WindowCap(p) : p \in Proc}
    \cup [type : {"cspace"}, cspace : Nat] \cup UntypedSet
CspaceSet == [kind : {"cspace"}, caps : [Slot -> CapSet]]
TableSet  == [kind : {"ptab"}, pte : [Idxs -> Nat]]
PdirSet   == [kind : {"pdir"}, pde : [Dirs -> Nat]]
ObjectSet == CspaceSet \cup TableSet \cup PdirSet \cup {Data}

CspacesOf(objs) == {a \in DOMAIN objs : objs[a].kind = "cspace"}
TablesOf(objs)  == {a \in DOMAIN objs : objs[a].kind = "ptab"}
PdirsOf(objs)   == {a \in DOMAIN objs : objs[a].kind = "pdir"}

HoldersOf(tab, objs) ==
  ({0} \X DOMAIN tab)
    \cup {h \in CspacesOf(objs) \X Slot : objs[h[1]].caps[h[2]].type = "untyped"}
HeldOf(tab, objs, h) == Rest(IF h[1] = 0 THEN tab[h[2]] ELSE objs[h[1]].caps[h[2]])

TypedMemory(tab, objs) ==
  /\ tab \in Seq(UntypedSet)
  /\ DOMAIN objs \subseteq Nat \ {0} /\ objs \in [DOMAIN objs -> ObjectSet]

UsedOnce(U, tab, objs) ==
  /\ TypedMemory(tab, objs)
  /\ \A h \in HoldersOf(tab, objs) :
       /\ HeldOf(tab, objs, h) \subseteq U
       /\ \A g \in HoldersOf(tab, objs) : g # h =>
            HeldOf(tab, objs, h) \cap HeldOf(tab, objs, g) = {}
       /\ \A a \in DOMAIN objs : HeldOf(tab, objs, h) \cap Page(a) = {}
  /\ \A a \in DOMAIN objs : Aligned(a) /\ Page(a) \subseteq U

\* No page table is entered twice, and no page.
Pde(objs, e) == objs[e[1]].pde[e[2]]
Pte(objs, e) == objs[e[1]].pte[e[2]]
EntriesOf(objs) == {e \in PdirsOf(objs) \X Dirs : Pde(objs, e) \notin {0, SuperPage}}
PageEntriesOf(objs) == {e \in TablesOf(objs) \X Idxs : Pte(objs, e) # 0}

EntriesOnce(objs) ==
  \A e \in EntriesOf(objs) :
    /\ Pde(objs, e) \in TablesOf(objs)
    /\ \A f \in EntriesOf(objs) : f # e => Pde(objs, e) # Pde(objs, f)
PagesOnce(objs) ==
  \A e \in PageEntriesOf(objs) :
    /\ Pte(objs, e) \in DOMAIN objs /\ objs[Pte(objs, e)].kind = "data"
    /\ \A f \in PageEntriesOf(objs) : f # e => Pte(objs, e) # Pte(objs, f)
KernelMapped(objs) ==
  \A p \in PdirsOf(objs), d \in Dirs :
    (objs[p].pde[d] = SuperPage) = (KernelPdir.pde[d] = SuperPage)
MappedOnce(objs) == EntriesOnce(objs) /\ PagesOnce(objs) /\ KernelMapped(objs)

\* Capabilities to capability spaces lead from "found" to there.
LeadTo(objs, found, there) ==
  \A c \in found, s \in Slot :
    objs[c].caps[s].type = "cspace" => objs[c].caps[s].cspace \in there

Mapped(objs, pdir, virt) ==
  Entry(objs, pdir, virt) # 0 /\ PageEntry(objs, pdir, virt) # 0

-----------------------------------------------------------------------------
(* The inductive invariant.                                                *)

Inserted(n) == UNION {PagesIn(boot.mmap[k].lo, boot.mmap[k].hi) : k \in 1..n - 1}
Remaining(n) ==
  {a \in Inserted(Len(boot.mmap) + 1) :
     \A k \in 1..n - 1 : Page(a) \cap (Reserved[k].lo..Reserved[k].hi) = {}}
UsablePages == Remaining(Len(Reserved) + 1)

TypeInv ==
  /\ boot \in Boots
  /\ pc \in {"insert", "reserve", "smashed", "untyped", "spare", "pdir", "copy", "run",
             "nomemory"}
  /\ at \in Nat \ {0} /\ lo \in Nat /\ current \in Proc
  /\ proc \in [Proc -> [pdir : Nat, cspace : Nat]]

MemoryInv == UsedOnce(Usable, untyped, objects) /\ MappedOnce(objects)

NoMemoryYet == untyped = <<>> /\ objects = NoObjects
InsertInv ==
  pc = "insert" =>
    NoMemoryYet /\ at <= Len(boot.mmap) + 1 /\ Separate(Inserted(at), intervals)
ReserveInv ==
  pc = "reserve" =>
    NoMemoryYet /\ at <= Len(Reserved) + 1 /\ Separate(Remaining(at), intervals)
UntypedInv ==
  pc = "untyped" =>
    /\ objects = NoObjects /\ Separate(UsablePages, intervals)
    /\ \A i \in DOMAIN untyped, j \in DOMAIN intervals :
         Rest(untyped[i]) \cap (intervals[j].lo..intervals[j].hi) = {}

\* A process that was set up, and whose space leads nowhere else.
SetUp(p) ==
  /\ proc[p].pdir \in PdirsOf(objects) /\ proc[p].cspace \in CspacesOf(objects)
  /\ LeadTo(objects, {proc[p].cspace}, {proc[p].cspace})

PdirInv == pc = "pdir" => at \in 1..2 /\ (at = 2 => SetUp(0))
CopyInv ==
  pc = "copy" =>
    /\ at \in 1..2 /\ (at = 2 => SetUp(0) /\ proc[0].pdir # proc[1].pdir)
    /\ proc[at - 1].pdir \in PdirsOf(objects)
    /\ Aligned(lo)
    /\ \A virt \in Addr : lo <= virt /\ virt < KernelSpace =>
         ~Mapped(objects, proc[at - 1].pdir, virt)

\* Which capability spaces are whose.
Parted(R) ==
  /\ R \in [Proc -> SUBSET CspacesOf(objects)]
  /\ R[0] \cap R[1] = {}
  /\ \A p \in Proc : proc[p].cspace \in R[p] /\ LeadTo(objects, R[p], R[p])

RunInv ==
  pc = "run" =>
    /\ cr3 = proc[current].pdir
    /\ \A p \in Proc : proc[p].pdir \in PdirsOf(objects)
    /\ proc[0].pdir # proc[1].pdir
    /\ \E R \in [Proc -> SUBSET CspacesOf(objects)] : Parted(R)

Inv ==
  /\ TypeInv /\ MemoryInv
  /\ InsertInv /\ ReserveInv /\ UntypedInv /\ PdirInv /\ CopyInv /\ RunInv

-----------------------------------------------------------------------------
(* Constants.                                                              *)

LEMMA SuperFacts ==
  /\ Super \in Nat \ {0} /\ Super % PageLen = 0 /\ Words % Super = 0
  /\ Words \div Super \in Nat /\ Super \div PageLen \in Nat
  /\ KernelSpace \in Nat \ {0} /\ KernelSpace < Words /\ LowMemory \in Nat \ {0}
  /\ LowMemory < Words /\ KernelSpace % Super = 0 /\ PhysMap \in Nat
<1>1. SuperBits \in PageBits..WordBits /\ PageBits \in 0..WordBits /\ WordBits \in Nat
  BY CapsAssumption, PageFacts, WidthsAssumption
<1>2. SuperBits \in 0..WordBits /\ WordBits \in SuperBits..WordBits
  BY <1>1
<1>3. Super \in Nat \ {0}
  BY <1>2, PowersPositive DEF Super
<1>4. Super % PageLen = 0 /\ Words % Super = 0
  BY <1>1, <1>2, PowersDivide DEF Super, PageLen, Words
<1>5. PageLen \in Nat \ {0} /\ Words \in Nat \ {0}
  BY PageFacts
<1>6. Words \div Super \in Nat
  <2> PICK w \in Nat : w = Words
    BY <1>5
  <2> PICK n \in Nat \ {0} : n = Super
    BY <1>3
  <2>1. w \div n \in Nat
    OBVIOUS
  <2> QED BY <2>1
<1>7. Super \div PageLen \in Nat
  <2> PICK w \in Nat : w = Super
    BY <1>3
  <2> PICK n \in Nat \ {0} : n = PageLen
    BY <1>5
  <2>1. w \div n \in Nat
    OBVIOUS
  <2> QED BY <2>1
<1> QED BY <1>3, <1>4, <1>5, <1>6, <1>7, CapsAssumption DEF Addr

\* The entries of an address, and the addresses below the kernel.
LEMMA IndexFacts ==
  ASSUME NEW virt \in Addr
  PROVE  /\ DirOf(virt) \in Dirs /\ IdxOf(virt) \in Idxs
         /\ virt < KernelSpace => DirOf(virt) < DirOf(KernelSpace)
<1>1. virt \in Nat /\ virt < Words
  BY PageFacts DEF Addr
<1>2. PICK S \in Nat \ {0} : S = Super
  BY SuperFacts
<1>3. PICK P \in Nat \ {0} : P = PageLen
  BY PageFacts
<1>4. PICK w \in Int : Words = w * S
  <2>1. Words \in Int /\ Words % S = 0
    BY <1>2, SuperFacts, PageFacts
  <2> QED BY <2>1, MultipleOf, Zenon
<1>5. PICK p \in Int : S = p * P
  <2>1. S \in Int /\ S % P = 0
    BY <1>2, <1>3, SuperFacts
  <2> QED BY <2>1, MultipleOf, Zenon
<1>6. PICK k \in Int : KernelSpace = k * S
  BY <1>2, SuperFacts, MultipleOf
<1>7. Words \div S = w /\ S \div P = p /\ KernelSpace \div S = k
  BY <1>4, <1>5, <1>6
<1>8. PICK q \in Int, r \in 0..S - 1 : virt = S * q + r /\ virt % S = r /\ virt \div S = q
  BY <1>1, Division
<1>9. PICK i \in Int, j \in 0..P - 1 : r = P * i + j /\ r \div P = i
  BY Division
<1>10. q >= 0
  <2> SUFFICES ASSUME q <= -1 PROVE FALSE
    OBVIOUS
  <2>1. S * q <= -S
    OBVIOUS
  <2>2. S * q \in Int /\ r <= S - 1
    OBVIOUS
  <2> QED BY <2>1, <2>2, <1>1, <1>8
<1>11. ASSUME NEW z \in Int, virt < z * S PROVE q < z
  <2> SUFFICES ASSUME q >= z PROVE FALSE
    OBVIOUS
  <2>1. S * q >= z * S
    OBVIOUS
  <2>2. S * q \in Int /\ z * S \in Int /\ r >= 0
    OBVIOUS
  <2> QED BY <2>1, <2>2, <1>1, <1>8, <1>11
<1>12. i >= 0
  <2> SUFFICES ASSUME i <= -1 PROVE FALSE
    OBVIOUS
  <2>1. P * i <= -P
    OBVIOUS
  <2>2. P * i \in Int /\ j <= P - 1 /\ r >= 0
    OBVIOUS
  <2> QED BY <2>1, <2>2, <1>9
<1>13. i < p
  <2> SUFFICES ASSUME i >= p PROVE FALSE
    OBVIOUS
  <2>1. P * i >= p * P
    OBVIOUS
  <2>2. P * i \in Int /\ p * P \in Int /\ j >= 0 /\ r < S
    OBVIOUS
  <2> QED BY <2>1, <2>2, <1>5, <1>9
<1>14. DirOf(virt) = q /\ DirOf(KernelSpace) = k
  BY <1>2, <1>7, <1>8 DEF DirOf
<1>15. IdxOf(virt) = i
  BY <1>2, <1>3, <1>8, <1>9 DEF IdxOf
<1>16. q < w /\ (virt < KernelSpace => q < k)
  BY <1>1, <1>4, <1>6, <1>11
<1>17. DirOf(virt) \in Dirs
  BY <1>2, <1>7, <1>10, <1>14, <1>16 DEF Dirs
<1>18. IdxOf(virt) \in Idxs
  BY <1>2, <1>3, <1>7, <1>12, <1>13, <1>15 DEF Idxs
<1> QED BY <1>14, <1>16, <1>17, <1>18

\* Addresses with the same entries are in one page.
LEMMA SameEntries ==
  ASSUME NEW v \in Addr, NEW w \in Addr, DirOf(v) = DirOf(w), IdxOf(v) = IdxOf(w)
  PROVE  v < w + PageLen
<1>1. v \in Nat /\ w \in Nat
  BY PageFacts DEF Addr
<1>2. PICK S \in Nat \ {0} : S = Super
  BY SuperFacts
<1>3. PICK P \in Nat \ {0} : P = PageLen
  BY PageFacts
<1>4. PICK q \in Int, r \in 0..S - 1 : v = S * q + r /\ v % S = r /\ v \div S = q
  BY <1>1, Division
<1>5. PICK q2 \in Int, r2 \in 0..S - 1 : w = S * q2 + r2 /\ w % S = r2 /\ w \div S = q2
  BY <1>1, Division
<1>6. PICK i \in Int, j \in 0..P - 1 : r = P * i + j /\ r \div P = i
  BY Division
<1>7. PICK i2 \in Int, j2 \in 0..P - 1 : r2 = P * i2 + j2 /\ r2 \div P = i2
  BY Division
<1>8. q = q2 /\ i = i2
  BY <1>2, <1>3, <1>4, <1>5, <1>6, <1>7 DEF DirOf, IdxOf
<1>9. PICK sq \in Int : sq = S * q
  OBVIOUS
<1>10. PICK pi \in Int : pi = P * i
  OBVIOUS
<1>11. v = sq + pi + j /\ w = sq + pi + j2
  BY <1>4, <1>5, <1>6, <1>7, <1>8, <1>9, <1>10
<1> QED BY <1>3, <1>11

LEMMA KernelPdirFacts ==
  /\ KernelPdir \in PdirSet
  /\ \A d \in Dirs : KernelPdir.pde[d] \in {0, SuperPage}
  /\ \A virt \in Addr : virt < KernelSpace => KernelPdir.pde[DirOf(virt)] = 0
<1>1. \A d \in Dirs : KernelPdir.pde[d] =
        IF d \in DirOf(KernelSpace)..DirOf(KernelSpace + PhysMap) - 1 THEN SuperPage ELSE 0
  BY DEF KernelPdir
<1>2. \A d \in Dirs : KernelPdir.pde[d] \in {0, SuperPage}
  BY <1>1
<1>3. KernelPdir \in PdirSet
  BY <1>2 DEF KernelPdir, PdirSet, SuperPage
<1>4. ASSUME NEW virt \in Addr, virt < KernelSpace PROVE KernelPdir.pde[DirOf(virt)] = 0
  <2>1. DirOf(virt) \in Dirs /\ DirOf(virt) < DirOf(KernelSpace)
    BY <1>4, IndexFacts
  <2>2. DirOf(virt) \in Int /\ DirOf(KernelSpace) \in Int
    BY <2>1, SuperFacts DEF Dirs, DirOf
  <2>3. DirOf(virt) \notin DirOf(KernelSpace)..DirOf(KernelSpace + PhysMap) - 1
    BY <2>1, <2>2
  <2> QED BY <1>1, <2>1, <2>3
<1> QED BY <1>2, <1>3, <1>4

-----------------------------------------------------------------------------
(* Memory that is used once.                                               *)

LEMMA ObjectFields ==
  ASSUME NEW o \in ObjectSet
  PROVE  /\ o.kind \in {"cspace", "ptab", "pdir", "data"}
         /\ o.kind = "cspace" => o \in CspaceSet /\ o.caps \in [Slot -> CapSet]
         /\ o.kind = "ptab" => o \in TableSet /\ o.pte \in [Idxs -> Nat]
         /\ o.kind = "pdir" => o \in PdirSet /\ o.pde \in [Dirs -> Nat]
         /\ o.kind = "data" => o = Data
  BY DEF ObjectSet, CspaceSet, TableSet, PdirSet, Data

LEMMA CapFields ==
  /\ NullCap \in CapSet /\ ConsoleCap \in CapSet /\ NullCap.type = "null"
  /\ ConsoleCap.type = "console" /\ \A p \in Proc : WindowCap(p) \in CapSet
  /\ \A p : WindowCap(p).type = "window"
  /\ \A c \in Nat : CspaceCap(c) \in CapSet
  /\ \A c : CspaceCap(c).type = "cspace" /\ CspaceCap(c).cspace = c
  /\ \A u \in UntypedSet : u \in CapSet /\ u.type = "untyped"
  /\ \A u \in CapSet : u.type = "untyped" => u \in UntypedSet
<1>1. /\ NullCap \in CapSet /\ ConsoleCap \in CapSet
      /\ \A p \in Proc : WindowCap(p) \in CapSet
  BY DEF CapSet
<1>2. /\ NullCap.type = "null" /\ ConsoleCap.type = "console"
      /\ \A p : WindowCap(p).type = "window"
  BY DEF NullCap, ConsoleCap, WindowCap
<1>3. \A c : CspaceCap(c).type = "cspace" /\ CspaceCap(c).cspace = c
  BY DEF CspaceCap
<1>4. \A c \in Nat : CspaceCap(c) \in CapSet
  BY DEF CspaceCap, CapSet
<1>5. \A u \in UntypedSet : u \in CapSet
  BY DEF CapSet
<1>6. \A u \in UntypedSet : u.type = "untyped"
  BY DEF UntypedSet
<1>7. ASSUME NEW u \in CapSet, u.type = "untyped" PROVE u \in UntypedSet
  <2>1. u \in [type : {"cspace"}, cspace : Nat] => u.type = "cspace"
    OBVIOUS
  <2> QED BY <2>1, <1>2, <1>7 DEF CapSet
<1> QED BY <1>1, <1>2, <1>3, <1>4, <1>5, <1>6, <1>7

\* What is held is untyped memory, in the table or in a capability space.
LEMMA HolderFacts ==
  ASSUME NEW tab, NEW objs, TypedMemory(tab, objs), NEW h \in HoldersOf(tab, objs)
  PROVE  \/ /\ h[1] = 0 /\ h[2] \in 1..Len(tab) /\ h = <<0, h[2]>>
            /\ tab[h[2]] \in UntypedSet /\ HeldOf(tab, objs, h) = Rest(tab[h[2]])
         \/ /\ h[1] # 0 /\ h[1] \in CspacesOf(objs) /\ h[2] \in Slot /\ h = <<h[1], h[2]>>
            /\ objs[h[1]].caps[h[2]] \in UntypedSet
            /\ HeldOf(tab, objs, h) = Rest(objs[h[1]].caps[h[2]])
<1>1. /\ tab \in Seq(UntypedSet) /\ DOMAIN tab = 1..Len(tab)
      /\ \A i \in 1..Len(tab) : tab[i] \in UntypedSet
      /\ DOMAIN objs \subseteq Nat \ {0} /\ \A a \in DOMAIN objs : objs[a] \in ObjectSet
  BY DomainOfSeq DEF TypedMemory
<1>2. CASE h \in {0} \X DOMAIN tab
  BY <1>1, <1>2 DEF HeldOf
<1>3. CASE h \in CspacesOf(objs) \X Slot /\ objs[h[1]].caps[h[2]].type = "untyped"
  <2>1. h[1] \in CspacesOf(objs) /\ h[2] \in Slot /\ h = <<h[1], h[2]>>
    BY <1>3
  <2>2. h[1] \in DOMAIN objs /\ objs[h[1]].kind = "cspace" /\ h[1] # 0
    BY <1>1, <2>1 DEF CspacesOf
  <2>3. objs[h[1]].caps[h[2]] \in CapSet
    BY <1>1, <2>1, <2>2, ObjectFields
  <2> QED BY <1>3, <2>1, <2>2, <2>3, CapFields DEF HeldOf
<1> QED BY <1>2, <1>3 DEF HoldersOf

LEMMA TableHolder ==
  ASSUME NEW tab, NEW objs, TypedMemory(tab, objs), NEW i \in 1..Len(tab)
  PROVE  /\ <<0, i>> \in HoldersOf(tab, objs)
         /\ HeldOf(tab, objs, <<0, i>>) = Rest(tab[i])
  BY DomainOfSeq DEF TypedMemory, HoldersOf, HeldOf

LEMMA SpaceHolder ==
  ASSUME NEW tab, NEW objs, TypedMemory(tab, objs), NEW c \in CspacesOf(objs), NEW s \in Slot,
         objs[c].caps[s].type = "untyped"
  PROVE  /\ <<c, s>> \in HoldersOf(tab, objs)
         /\ HeldOf(tab, objs, <<c, s>>) = Rest(objs[c].caps[s])
<1>1. c # 0
  BY DEF TypedMemory, CspacesOf
<1> QED BY <1>1 DEF HoldersOf, HeldOf

\* A step keeps memory used once if each holder has a part of what one held
\* before, different holders different parts, and the new objects are where
\* nothing is held any more.
LEMMA UsedOnceKept ==
  ASSUME NEW U, NEW tab, NEW objs, UsedOnce(U, tab, objs),
         NEW tab2, NEW objs2, TypedMemory(tab2, objs2),
         NEW from \in [HoldersOf(tab2, objs2) -> HoldersOf(tab, objs)],
         \A h \in HoldersOf(tab2, objs2) :
           HeldOf(tab2, objs2, h) \subseteq HeldOf(tab, objs, from[h]),
         \A g, h \in HoldersOf(tab2, objs2) : g # h /\ from[g] = from[h] =>
           HeldOf(tab2, objs2, g) \cap HeldOf(tab2, objs2, h) = {},
         \A a \in DOMAIN objs2 \ DOMAIN objs :
           /\ Aligned(a)
           /\ \E k \in HoldersOf(tab, objs) :
                /\ Page(a) \subseteq HeldOf(tab, objs, k)
                /\ \A h \in HoldersOf(tab2, objs2) : from[h] = k =>
                     HeldOf(tab2, objs2, h) \cap Page(a) = {}
  PROVE  UsedOnce(U, tab2, objs2)
<1>1. /\ \A h \in HoldersOf(tab, objs) :
           /\ HeldOf(tab, objs, h) \subseteq U
           /\ \A g \in HoldersOf(tab, objs) : g # h =>
                HeldOf(tab, objs, h) \cap HeldOf(tab, objs, g) = {}
           /\ \A a \in DOMAIN objs : HeldOf(tab, objs, h) \cap Page(a) = {}
      /\ \A a \in DOMAIN objs : Aligned(a) /\ Page(a) \subseteq U
  BY DEF UsedOnce
<1>2. ASSUME NEW h \in HoldersOf(tab2, objs2)
      PROVE  /\ from[h] \in HoldersOf(tab, objs)
             /\ HeldOf(tab2, objs2, h) \subseteq HeldOf(tab, objs, from[h])
  OBVIOUS
<1>3. ASSUME NEW h \in HoldersOf(tab2, objs2) PROVE HeldOf(tab2, objs2, h) \subseteq U
  BY <1>1, <1>2
<1>4. ASSUME NEW h \in HoldersOf(tab2, objs2), NEW g \in HoldersOf(tab2, objs2), g # h
      PROVE  HeldOf(tab2, objs2, h) \cap HeldOf(tab2, objs2, g) = {}
  <2>1. CASE from[g] = from[h]
    BY <1>4, <2>1
  <2>2. CASE from[g] # from[h]
    <3>1. HeldOf(tab, objs, from[h]) \cap HeldOf(tab, objs, from[g]) = {}
      BY <1>1, <1>2, <2>2
    <3> QED BY <1>2, <3>1
  <2> QED BY <2>1, <2>2
<1>5. ASSUME NEW h \in HoldersOf(tab2, objs2), NEW a \in DOMAIN objs2
      PROVE  HeldOf(tab2, objs2, h) \cap Page(a) = {}
  <2>1. CASE a \in DOMAIN objs
    <3>1. HeldOf(tab, objs, from[h]) \cap Page(a) = {}
      BY <1>1, <1>2, <2>1
    <3> QED BY <1>2, <3>1
  <2>2. CASE a \notin DOMAIN objs
    <3>1. PICK k \in HoldersOf(tab, objs) :
            /\ Page(a) \subseteq HeldOf(tab, objs, k)
            /\ from[h] = k => HeldOf(tab2, objs2, h) \cap Page(a) = {}
      BY <2>2
    <3>2. ASSUME from[h] # k PROVE HeldOf(tab, objs, from[h]) \cap HeldOf(tab, objs, k) = {}
      BY <1>1, <1>2, <3>2
    <3> QED BY <1>2, <3>1, <3>2
  <2> QED BY <2>1, <2>2
<1>6. ASSUME NEW a \in DOMAIN objs2 PROVE Aligned(a) /\ Page(a) \subseteq U
  <2>1. CASE a \in DOMAIN objs
    BY <1>1, <2>1
  <2>2. CASE a \notin DOMAIN objs
    <3>1. Aligned(a) /\ \E k \in HoldersOf(tab, objs) : Page(a) \subseteq HeldOf(tab, objs, k)
      BY <2>2
    <3> QED BY <1>1, <3>1
  <2> QED BY <2>1, <2>2
<1> QED BY <1>3, <1>4, <1>5, <1>6 DEF UsedOnce

\* What alloc sets to zero is no object's.
LEMMA ZeroedFree ==
  ASSUME NEW U, NEW tab, NEW objs, UsedOnce(U, tab, objs), NEW h \in HoldersOf(tab, objs),
         NEW address \in Nat, NEW len \in Nat \ {0},
         address..address + len - 1 \subseteq HeldOf(tab, objs, h)
  PROVE  Zeroed(objs, address, len) = objs /\ address \notin DOMAIN objs
<1>1. PageLen \in Nat \ {0} /\ DOMAIN objs \subseteq Nat /\ objs \in [DOMAIN objs -> ObjectSet]
      /\ \A a \in DOMAIN objs : HeldOf(tab, objs, h) \cap Page(a) = {}
  BY PageFacts DEF UsedOnce, TypedMemory
<1>2. ASSUME NEW a \in DOMAIN objs, a <= address + len - 1, address <= a + PageLen - 1
      PROVE  FALSE
  <2>1. a \in Nat
    BY <1>1
  <2>2. CASE a <= address
    <3>1. address \in address..address + len - 1 /\ address \in Page(a)
      BY <1>1, <1>2, <2>1, <2>2 DEF Page
    <3> QED BY <1>1, <3>1
  <2>3. CASE address < a
    <3>1. a \in address..address + len - 1 /\ a \in Page(a)
      BY <1>1, <1>2, <2>1, <2>3 DEF Page
    <3> QED BY <1>1, <3>1
  <2> QED BY <2>1, <2>2, <2>3
<1>3. Zeroed(objs, address, len) = [a \in DOMAIN objs |-> objs[a]]
  BY <1>2 DEF Zeroed
<1>4. address \notin DOMAIN objs
  <2> SUFFICES ASSUME address \in DOMAIN objs PROVE FALSE
    OBVIOUS
  <2>1. address <= address + len - 1 /\ address <= address + PageLen - 1
    BY <1>1
  <2> QED BY <1>2, <2>1
<1> QED BY <1>1, <1>3, <1>4

\* allocPage: the new page is no object's and nobody holds it any more.
Plain(o) == o \in ObjectSet /\ (o.kind = "cspace" => \A s \in Slot : o.caps[s].type # "untyped")
Extended(objs, n, o) == [a \in DOMAIN objs \cup {n} |-> IF a = n THEN o ELSE objs[a]]

LEMMA AllocPageFacts ==
  ASSUME NEW U \in SUBSET (Nat \ {0}), NEW m, UsedOnce(U, m.untyped, m.objects), ~Exhausted(m),
         NEW o, Plain(o)
  PROVE  /\ NewPage(m) \in Nat /\ NewPage(m) \notin DOMAIN m.objects
         /\ AllocPage(m, o).objects = Extended(m.objects, NewPage(m), o)
         /\ UsedOnce(U, AllocPage(m, o).untyped, AllocPage(m, o).objects)
<1>1. PICK tab : tab = m.untyped
  OBVIOUS
<1>2. PICK objs : objs = m.objects
  OBVIOUS
<1>3. PICK g : g = Giver(tab)
  OBVIOUS
<1>4. PICK tab2 : tab2 = AfterPage(tab)
  OBVIOUS
<1>5. UsedOnce(U, tab, objs) /\ TypedMemory(tab, objs) /\ tab \in Seq(UntypedSet)
      /\ Givers(tab) # {} /\ DOMAIN objs \subseteq Nat \ {0}
      /\ objs \in [DOMAIN objs -> ObjectSet]
  BY <1>1, <1>2 DEF UsedOnce, TypedMemory, Exhausted
<1>6. /\ g \in 1..Len(tab) /\ Allocates(tab[g], PageBits)
      /\ tab2 \in Seq(UntypedSet) /\ Len(tab2) = g
      /\ \A i \in 1..g : tab2[i] = IF i = g THEN After(tab[i], PageBits) ELSE tab[i]
  BY <1>3, <1>4, <1>5, GiverFacts
<1>7. PICK u \in UntypedSet : u = tab[g]
  BY <1>5, <1>6, DomainOfSeq
<1>8. PICK n : n = NewPage(m)
  OBVIOUS
<1>9. n = Object(u, PageBits)
  BY <1>1, <1>3, <1>7, <1>8 DEF NewPage, PageFrom
<1>10. PageLen \in Nat \ {0, 1} /\ PageBits \in 0..WordBits - 1
  BY PageFacts
<1>11. /\ n \in Nat /\ Aligned(n)
       /\ \A x \in n..n + PageLen - 1 : x \in Rest(u) /\ x \notin Rest(After(u, PageBits))
       /\ Rest(After(u, PageBits)) \subseteq Rest(u)
  BY <1>6, <1>7, <1>9, <1>10, TakenFacts DEF PageLen, Aligned
<1>12. PICK k : k = <<0, g>>
  OBVIOUS
<1>13. k \in HoldersOf(tab, objs) /\ HeldOf(tab, objs, k) = Rest(u)
  BY <1>5, <1>6, <1>7, <1>12, TableHolder
<1>14. Zeroed(objs, n, PageLen) = objs /\ n \notin DOMAIN objs
  <2>1. n..n + PageLen - 1 \subseteq HeldOf(tab, objs, k)
    BY <1>11, <1>13
  <2> QED BY <1>5, <1>10, <1>11, <1>13, <2>1, ZeroedFree
<1>15. PICK objs2 : objs2 = Extended(objs, n, o)
  OBVIOUS
<1>16. With(objs, n, o) = objs2
  BY <1>14, <1>15 DEF With, Extended
<1>17. AllocPage(m, o) = [untyped |-> tab2, objects |-> objs2]
  BY <1>1, <1>2, <1>4, <1>8, <1>16 DEF AllocPage
<1>18. /\ DOMAIN objs2 = DOMAIN objs \cup {n} /\ objs2[n] = o
       /\ \A a \in DOMAIN objs : objs2[a] = objs[a]
       /\ objs2 \in [DOMAIN objs2 -> ObjectSet]
  BY <1>5, <1>14, <1>15 DEF Extended, Plain
<1>19. n # 0
  <2>1. n \in Rest(u)
    BY <1>10, <1>11
  <2>2. Rest(u) \subseteq U
    BY <1>5, <1>13 DEF UsedOnce
  <2> QED BY <2>1, <2>2
<1>20. TypedMemory(tab2, objs2)
  BY <1>5, <1>6, <1>11, <1>18, <1>19 DEF TypedMemory
<1>21. ASSUME NEW h \in HoldersOf(tab2, objs2)
       PROVE  /\ h \in HoldersOf(tab, objs)
              /\ HeldOf(tab2, objs2, h) \subseteq HeldOf(tab, objs, h)
              /\ h = k => HeldOf(tab2, objs2, h) = Rest(After(u, PageBits))
  <2>1. CASE h[1] = 0 /\ h[2] \in 1..Len(tab2) /\ h = <<0, h[2]>>
             /\ HeldOf(tab2, objs2, h) = Rest(tab2[h[2]])
    <3>1. PICK i \in 1..g : i = h[2]
      BY <1>6, <2>1
    <3>2. i \in 1..Len(tab) /\ h = <<0, i>>
      BY <1>6, <2>1, <3>1
    <3>3. h \in HoldersOf(tab, objs) /\ HeldOf(tab, objs, h) = Rest(tab[i])
      BY <1>5, <3>2, TableHolder
    <3>4. tab2[i] = IF i = g THEN After(u, PageBits) ELSE tab[i]
      BY <1>6, <1>7
    <3>5. h = k => i = g
      BY <1>12, <3>2
    <3> QED BY <1>7, <1>11, <2>1, <3>1, <3>3, <3>4, <3>5
  <2>2. CASE /\ h[1] # 0 /\ h[1] \in CspacesOf(objs2) /\ h[2] \in Slot /\ h = <<h[1], h[2]>>
             /\ objs2[h[1]].caps[h[2]] \in UntypedSet
             /\ HeldOf(tab2, objs2, h) = Rest(objs2[h[1]].caps[h[2]])
    <3>1. objs2[h[1]].caps[h[2]].type = "untyped"
      BY <2>2, CapFields
    <3>2. h[1] # n
      BY <1>18, <2>2, <3>1 DEF CspacesOf, Plain
    <3>3. h[1] \in CspacesOf(objs) /\ objs2[h[1]] = objs[h[1]]
      BY <1>18, <2>2, <3>2 DEF CspacesOf
    <3>4. /\ <<h[1], h[2]>> \in HoldersOf(tab, objs)
          /\ HeldOf(tab, objs, <<h[1], h[2]>>) = Rest(objs[h[1]].caps[h[2]])
      BY <1>5, <2>2, <3>1, <3>3, SpaceHolder
    <3>5. h # k
      BY <1>12, <2>2
    <3> QED BY <2>2, <3>3, <3>4, <3>5
  <2> QED BY <1>20, <2>1, <2>2, HolderFacts
<1>22. PICK from : from = [h \in HoldersOf(tab2, objs2) |-> h]
  OBVIOUS
<1>23. /\ from \in [HoldersOf(tab2, objs2) -> HoldersOf(tab, objs)]
       /\ \A h \in HoldersOf(tab2, objs2) : from[h] = h
  BY <1>21, <1>22
<1>24. ASSUME NEW a \in DOMAIN objs2 \ DOMAIN objs
       PROVE  /\ Aligned(a)
              /\ \E l \in HoldersOf(tab, objs) :
                   /\ Page(a) \subseteq HeldOf(tab, objs, l)
                   /\ \A h \in HoldersOf(tab2, objs2) : from[h] = l =>
                        HeldOf(tab2, objs2, h) \cap Page(a) = {}
  <2>1. a = n
    BY <1>18
  <2>2. Page(a) \subseteq HeldOf(tab, objs, k)
    BY <1>11, <1>13, <2>1 DEF Page
  <2>3. \A h \in HoldersOf(tab2, objs2) : from[h] = k => HeldOf(tab2, objs2, h) \cap Page(a) = {}
    BY <1>11, <1>21, <1>23, <2>1 DEF Page
  <2> QED BY <1>11, <1>13, <2>1, <2>2, <2>3
<1>25. UsedOnce(U, tab2, objs2)
  <2>1. \A h \in HoldersOf(tab2, objs2) : HeldOf(tab2, objs2, h) \subseteq HeldOf(tab, objs, from[h])
    BY <1>21, <1>23
  <2>2. \A i, h \in HoldersOf(tab2, objs2) : i # h /\ from[i] = from[h] =>
          HeldOf(tab2, objs2, i) \cap HeldOf(tab2, objs2, h) = {}
    BY <1>23
  <2> QED BY <1>5, <1>20, <1>23, <1>24, <2>1, <2>2, UsedOnceKept
<1> QED BY <1>2, <1>8, <1>11, <1>14, <1>15, <1>17, <1>25

\* Only page tables and directories change: nothing that is held does.
SameSpaces(objs, objs2) ==
  /\ DOMAIN objs2 = DOMAIN objs /\ objs2 \in [DOMAIN objs -> ObjectSet]
  /\ \A a \in DOMAIN objs : /\ objs2[a].kind = objs[a].kind
                            /\ objs[a].kind = "cspace" => objs2[a] = objs[a]

LEMMA SameSpacesKept ==
  ASSUME NEW U, NEW tab, NEW objs, UsedOnce(U, tab, objs), NEW objs2, SameSpaces(objs, objs2)
  PROVE  UsedOnce(U, tab, objs2)
<1>1. CspacesOf(objs2) = CspacesOf(objs) /\ \A c \in CspacesOf(objs) : objs2[c] = objs[c]
  BY DEF SameSpaces, CspacesOf
<1>2. HoldersOf(tab, objs2) = HoldersOf(tab, objs)
  BY <1>1 DEF HoldersOf
<1>3. TypedMemory(tab, objs)
  BY DEF UsedOnce
<1>4. ASSUME NEW h \in HoldersOf(tab, objs) PROVE HeldOf(tab, objs2, h) = HeldOf(tab, objs, h)
  BY <1>1, <1>3, HolderFacts DEF HeldOf
<1>5. TypedMemory(tab, objs2)
  BY <1>3 DEF TypedMemory, SameSpaces
<1> QED BY <1>2, <1>4, <1>5 DEF UsedOnce, SameSpaces

-----------------------------------------------------------------------------
(* Page tables that are mapped once.                                       *)

\* What a step makes of a directory or a table: one entry of it.
SetPde(objs, objs2, p, d, n) ==
  /\ DOMAIN objs2 = DOMAIN objs /\ objs2 \in [DOMAIN objs -> ObjectSet]
  /\ \A a \in DOMAIN objs : a # p => objs2[a] = objs[a]
  /\ objs2[p].kind = "pdir"
  /\ \A e \in Dirs : objs2[p].pde[e] = IF e = d THEN n ELSE objs[p].pde[e]

SetPte(objs, objs2, t, i, n) ==
  /\ DOMAIN objs2 = DOMAIN objs /\ objs2 \in [DOMAIN objs -> ObjectSet]
  /\ \A a \in DOMAIN objs : a # t => objs2[a] = objs[a]
  /\ objs2[t].kind = "ptab"
  /\ \A e \in Idxs : objs2[t].pte[e] = IF e = i THEN n ELSE objs[t].pte[e]

\* An object that nothing refers to yet.
Fresh(objs, n) ==
  /\ n \in DOMAIN objs
  /\ \A e \in EntriesOf(objs) : Pde(objs, e) # n
  /\ \A e \in PageEntriesOf(objs) : Pte(objs, e) # n

NoEntries(o) ==
  /\ o.kind = "ptab" => o = EmptyTable
  /\ o.kind = "pdir" => o = KernelPdir

LEMMA MappedExtended ==
  ASSUME NEW objs, MappedOnce(objs), NEW n, n \notin DOMAIN objs, NEW o, NoEntries(o)
  PROVE  /\ MappedOnce(Extended(objs, n, o)) /\ Fresh(Extended(objs, n, o), n)
         /\ EntriesOf(Extended(objs, n, o)) = EntriesOf(objs)
         /\ \A x : Fresh(objs, x) => Fresh(Extended(objs, n, o), x)
<1>1. PICK objs2 : objs2 = Extended(objs, n, o)
  OBVIOUS
<1>2. /\ DOMAIN objs2 = DOMAIN objs \cup {n} /\ objs2[n] = o
      /\ \A a \in DOMAIN objs : objs2[a] = objs[a]
  BY <1>1 DEF Extended
<1>3. ASSUME NEW e \in EntriesOf(objs2) PROVE e \in EntriesOf(objs) /\ Pde(objs2, e) = Pde(objs, e)
  <2>1. e[1] \in PdirsOf(objs2) /\ e[2] \in Dirs /\ e = <<e[1], e[2]>>
        /\ Pde(objs2, e) \notin {0, SuperPage}
    BY DEF EntriesOf
  <2>2. e[1] # n
    <3> SUFFICES ASSUME e[1] = n PROVE FALSE
      OBVIOUS
    <3>1. o = KernelPdir
      BY <1>2, <2>1 DEF NoEntries, PdirsOf
    <3> QED BY <1>2, <2>1, <3>1, KernelPdirFacts DEF Pde
  <2>3. e[1] \in PdirsOf(objs) /\ objs2[e[1]] = objs[e[1]]
    BY <1>2, <2>1, <2>2 DEF PdirsOf
  <2> QED BY <2>1, <2>3 DEF EntriesOf, Pde
<1>4. ASSUME NEW e \in PageEntriesOf(objs2)
      PROVE  e \in PageEntriesOf(objs) /\ Pte(objs2, e) = Pte(objs, e)
  <2>1. e[1] \in TablesOf(objs2) /\ e[2] \in Idxs /\ e = <<e[1], e[2]>> /\ Pte(objs2, e) # 0
    BY DEF PageEntriesOf
  <2>2. e[1] # n
    <3> SUFFICES ASSUME e[1] = n PROVE FALSE
      OBVIOUS
    <3>1. o = EmptyTable
      BY <1>2, <2>1 DEF NoEntries, TablesOf
    <3> QED BY <1>2, <2>1, <3>1 DEF Pte, EmptyTable
  <2>3. e[1] \in TablesOf(objs) /\ objs2[e[1]] = objs[e[1]]
    BY <1>2, <2>1, <2>2 DEF TablesOf
  <2> QED BY <2>1, <2>3 DEF PageEntriesOf, Pte
<1>5. ASSUME NEW e \in EntriesOf(objs) PROVE e \in EntriesOf(objs2)
  <2>1. e[1] \in PdirsOf(objs) /\ e[2] \in Dirs /\ e = <<e[1], e[2]>>
        /\ Pde(objs, e) \notin {0, SuperPage}
    BY DEF EntriesOf
  <2>2. e[1] \in PdirsOf(objs2) /\ objs2[e[1]] = objs[e[1]]
    BY <1>2, <2>1 DEF PdirsOf
  <2> QED BY <2>1, <2>2 DEF EntriesOf, Pde
<1>6. TablesOf(objs) \subseteq TablesOf(objs2)
  BY <1>2 DEF TablesOf
<1>7. EntriesOnce(objs2)
  BY <1>3, <1>6 DEF MappedOnce, EntriesOnce
<1>8. PagesOnce(objs2)
  <2>1. ASSUME NEW e \in PageEntriesOf(objs2)
        PROVE  Pte(objs2, e) \in DOMAIN objs2 /\ objs2[Pte(objs2, e)].kind = "data"
    BY <1>2, <1>4 DEF MappedOnce, PagesOnce
  <2>2. ASSUME NEW e \in PageEntriesOf(objs2), NEW f \in PageEntriesOf(objs2), f # e
        PROVE  Pte(objs2, e) # Pte(objs2, f)
    BY <1>4, <2>2 DEF MappedOnce, PagesOnce
  <2> QED BY <2>1, <2>2 DEF PagesOnce
<1>9. KernelMapped(objs2)
  <2> SUFFICES ASSUME NEW p \in PdirsOf(objs2), NEW d \in Dirs
               PROVE  (objs2[p].pde[d] = SuperPage) = (KernelPdir.pde[d] = SuperPage)
    BY DEF KernelMapped
  <2>1. CASE p = n
    BY <1>2, <2>1 DEF NoEntries, PdirsOf
  <2>2. CASE p # n
    <3>1. p \in PdirsOf(objs) /\ objs2[p] = objs[p]
      BY <1>2, <2>2 DEF PdirsOf
    <3> QED BY <3>1 DEF MappedOnce, KernelMapped
  <2> QED BY <2>1, <2>2
<1>10. Fresh(objs2, n)
  <2>1. \A e \in EntriesOf(objs2) : Pde(objs2, e) # n
    BY <1>3 DEF MappedOnce, EntriesOnce, TablesOf
  <2>2. \A e \in PageEntriesOf(objs2) : Pte(objs2, e) # n
    BY <1>4 DEF MappedOnce, PagesOnce
  <2> QED BY <1>2, <2>1, <2>2 DEF Fresh
<1>11. EntriesOf(objs2) = EntriesOf(objs)
  BY <1>3, <1>5
<1>12. ASSUME NEW x, Fresh(objs, x) PROVE Fresh(objs2, x)
  <2>1. \A e \in EntriesOf(objs2) : Pde(objs2, e) # x
    BY <1>3, <1>12 DEF Fresh
  <2>2. \A e \in PageEntriesOf(objs2) : Pte(objs2, e) # x
    BY <1>4, <1>12 DEF Fresh
  <2> QED BY <1>2, <1>12, <2>1, <2>2 DEF Fresh
<1> QED BY <1>1, <1>7, <1>8, <1>9, <1>10, <1>11, <1>12 DEF MappedOnce

LEMMA MappedSetPde ==
  ASSUME NEW objs, MappedOnce(objs), NEW objs2, NEW p \in PdirsOf(objs), NEW d \in Dirs,
         NEW n \in TablesOf(objs), Fresh(objs, n), n # SuperPage,
         KernelPdir.pde[d] = 0, objs[p].pde[d] = 0, SetPde(objs, objs2, p, d, n)
  PROVE  MappedOnce(objs2) /\ \A x : Fresh(objs, x) /\ x # n => Fresh(objs2, x)
<1>1. /\ DOMAIN objs2 = DOMAIN objs
      /\ \A a \in DOMAIN objs : a # p => objs2[a] = objs[a]
      /\ objs2[p].kind = "pdir" /\ objs[p].kind = "pdir" /\ p \in DOMAIN objs
      /\ \A e \in Dirs : objs2[p].pde[e] = IF e = d THEN n ELSE objs[p].pde[e]
  BY DEF SetPde, PdirsOf
<1>2. \A a \in DOMAIN objs : objs2[a].kind = objs[a].kind
  BY <1>1
<1>3. PdirsOf(objs2) = PdirsOf(objs) /\ TablesOf(objs2) = TablesOf(objs)
  BY <1>1, <1>2 DEF PdirsOf, TablesOf
<1>4. \A t \in TablesOf(objs) : objs2[t] = objs[t]
  BY <1>1 DEF TablesOf
<1>5. \A e \in PdirsOf(objs) \X Dirs : Pde(objs2, e) = IF e = <<p, d>> THEN n ELSE Pde(objs, e)
  <2> SUFFICES ASSUME NEW q \in PdirsOf(objs), NEW c \in Dirs
               PROVE  objs2[q].pde[c] = IF <<q, c>> = <<p, d>> THEN n ELSE objs[q].pde[c]
    BY DEF Pde
  <2>1. q \in DOMAIN objs
    BY DEF PdirsOf
  <2> QED BY <1>1, <2>1
<1>6. ASSUME NEW e \in EntriesOf(objs2), e # <<p, d>>
      PROVE  e \in EntriesOf(objs) /\ Pde(objs2, e) = Pde(objs, e)
  BY <1>3, <1>5, <1>6 DEF EntriesOf
<1>7. ASSUME NEW e \in EntriesOf(objs2)
      PROVE  /\ Pde(objs2, e) \in TablesOf(objs2)
             /\ \A f \in EntriesOf(objs2) : f # e => Pde(objs2, e) # Pde(objs2, f)
  <2>1. <<p, d>> \in PdirsOf(objs) \X Dirs
    OBVIOUS
  <2>2. Pde(objs2, <<p, d>>) = n
    BY <1>5, <2>1
  <2>3. \A f \in EntriesOf(objs) : Pde(objs, f) # n
    BY DEF Fresh
  <2>4. CASE e = <<p, d>>
    <3>1. ASSUME NEW f \in EntriesOf(objs2), f # e PROVE Pde(objs2, e) # Pde(objs2, f)
      <4>1. f \in EntriesOf(objs) /\ Pde(objs2, f) = Pde(objs, f)
        BY <1>6, <2>4, <3>1
      <4> QED BY <2>2, <2>3, <2>4, <4>1
    <3> QED BY <1>3, <2>2, <2>4, <3>1
  <2>5. CASE e # <<p, d>>
    <3>1. e \in EntriesOf(objs) /\ Pde(objs2, e) = Pde(objs, e)
      BY <1>6, <2>5
    <3>2. ASSUME NEW f \in EntriesOf(objs2), f # e PROVE Pde(objs2, e) # Pde(objs2, f)
      <4>1. CASE f = <<p, d>>
        BY <2>2, <2>3, <3>1, <4>1
      <4>2. CASE f # <<p, d>>
        <5>1. f \in EntriesOf(objs) /\ Pde(objs2, f) = Pde(objs, f)
          BY <1>6, <4>2
        <5> QED BY <3>1, <3>2, <5>1 DEF MappedOnce, EntriesOnce
      <4> QED BY <4>1, <4>2
    <3> QED BY <1>3, <3>1, <3>2 DEF MappedOnce, EntriesOnce
  <2> QED BY <2>4, <2>5
<1>8. PagesOnce(objs2)
  <2>1. \A e : e \in PageEntriesOf(objs2) <=> e \in PageEntriesOf(objs)
    BY <1>3, <1>4 DEF PageEntriesOf, Pte
  <2>2. \A e \in PageEntriesOf(objs) : Pte(objs2, e) = Pte(objs, e)
    BY <1>4 DEF PageEntriesOf, Pte
  <2> QED BY <1>1, <1>2, <2>1, <2>2 DEF MappedOnce, PagesOnce
<1>9. KernelMapped(objs2)
  <2> SUFFICES ASSUME NEW q \in PdirsOf(objs), NEW c \in Dirs
               PROVE  (objs2[q].pde[c] = SuperPage) = (KernelPdir.pde[c] = SuperPage)
    BY <1>3 DEF KernelMapped
  <2>1. objs2[q].pde[c] = IF <<q, c>> = <<p, d>> THEN n ELSE objs[q].pde[c]
    <3>1. q \in DOMAIN objs
      BY DEF PdirsOf
    <3> QED BY <1>1, <3>1
  <2>2. (objs[q].pde[c] = SuperPage) = (KernelPdir.pde[c] = SuperPage)
    BY DEF MappedOnce, KernelMapped
  <2>3. KernelPdir.pde[d] # SuperPage
    BY DEF SuperPage
  <2> QED BY <2>1, <2>2, <2>3
<1>10. ASSUME NEW x, Fresh(objs, x), x # n PROVE Fresh(objs2, x)
  <2>1. ASSUME NEW e \in EntriesOf(objs2) PROVE Pde(objs2, e) # x
    <3>1. CASE e = <<p, d>>
      <4>1. <<p, d>> \in PdirsOf(objs) \X Dirs
        OBVIOUS
      <4> QED BY <1>5, <1>10, <3>1, <4>1
    <3>2. CASE e # <<p, d>>
      BY <1>6, <1>10, <3>2 DEF Fresh
    <3> QED BY <3>1, <3>2
  <2>2. ASSUME NEW e \in PageEntriesOf(objs2) PROVE Pte(objs2, e) # x
    <3>1. e \in PageEntriesOf(objs) /\ Pte(objs2, e) = Pte(objs, e)
      BY <1>3, <1>4 DEF PageEntriesOf, Pte
    <3> QED BY <1>10, <3>1 DEF Fresh
  <2> QED BY <1>1, <1>10, <2>1, <2>2 DEF Fresh
<1> QED BY <1>7, <1>8, <1>9, <1>10 DEF MappedOnce, EntriesOnce

LEMMA MappedSetPte ==
  ASSUME NEW objs, MappedOnce(objs), NEW objs2, NEW t \in TablesOf(objs), NEW i \in Idxs,
         NEW n, objs[n].kind = "data", Fresh(objs, n), SetPte(objs, objs2, t, i, n)
  PROVE  MappedOnce(objs2)
<1>1. /\ DOMAIN objs2 = DOMAIN objs
      /\ \A a \in DOMAIN objs : a # t => objs2[a] = objs[a]
      /\ objs2[t].kind = "ptab" /\ objs[t].kind = "ptab" /\ t \in DOMAIN objs /\ n \in DOMAIN objs
      /\ \A e \in Idxs : objs2[t].pte[e] = IF e = i THEN n ELSE objs[t].pte[e]
  BY DEF SetPte, TablesOf, Fresh
<1>2. \A a \in DOMAIN objs : objs2[a].kind = objs[a].kind
  BY <1>1
<1>3. PdirsOf(objs2) = PdirsOf(objs) /\ TablesOf(objs2) = TablesOf(objs)
  BY <1>1, <1>2 DEF PdirsOf, TablesOf
<1>4. \A p \in PdirsOf(objs) : objs2[p] = objs[p]
  BY <1>1 DEF PdirsOf
<1>5. \A e \in TablesOf(objs) \X Idxs : Pte(objs2, e) = IF e = <<t, i>> THEN n ELSE Pte(objs, e)
  <2> SUFFICES ASSUME NEW q \in TablesOf(objs), NEW c \in Idxs
               PROVE  objs2[q].pte[c] = IF <<q, c>> = <<t, i>> THEN n ELSE objs[q].pte[c]
    BY DEF Pte
  <2>1. q \in DOMAIN objs
    BY DEF TablesOf
  <2> QED BY <1>1, <2>1
<1>6. ASSUME NEW e \in PageEntriesOf(objs2), e # <<t, i>>
      PROVE  e \in PageEntriesOf(objs) /\ Pte(objs2, e) = Pte(objs, e)
  BY <1>3, <1>5, <1>6 DEF PageEntriesOf
<1>7. ASSUME NEW e \in PageEntriesOf(objs2)
      PROVE  /\ Pte(objs2, e) \in DOMAIN objs2 /\ objs2[Pte(objs2, e)].kind = "data"
             /\ \A f \in PageEntriesOf(objs2) : f # e => Pte(objs2, e) # Pte(objs2, f)
  <2>1. <<t, i>> \in TablesOf(objs) \X Idxs
    OBVIOUS
  <2>2. Pte(objs2, <<t, i>>) = n /\ n \in DOMAIN objs2 /\ objs2[n].kind = "data"
    BY <1>1, <1>2, <1>5, <2>1
  <2>3. \A f \in PageEntriesOf(objs) : Pte(objs, f) # n
    BY DEF Fresh
  <2>4. CASE e = <<t, i>>
    <3>1. ASSUME NEW f \in PageEntriesOf(objs2), f # e PROVE Pte(objs2, e) # Pte(objs2, f)
      <4>1. f \in PageEntriesOf(objs) /\ Pte(objs2, f) = Pte(objs, f)
        BY <1>6, <2>4, <3>1
      <4> QED BY <2>2, <2>3, <2>4, <4>1
    <3> QED BY <2>2, <2>4, <3>1
  <2>5. CASE e # <<t, i>>
    <3>1. e \in PageEntriesOf(objs) /\ Pte(objs2, e) = Pte(objs, e)
      BY <1>6, <2>5
    <3>2. Pte(objs2, e) \in DOMAIN objs2 /\ objs2[Pte(objs2, e)].kind = "data"
      BY <1>1, <1>2, <3>1 DEF MappedOnce, PagesOnce
    <3>3. ASSUME NEW f \in PageEntriesOf(objs2), f # e PROVE Pte(objs2, e) # Pte(objs2, f)
      <4>1. CASE f = <<t, i>>
        BY <2>2, <2>3, <3>1, <4>1
      <4>2. CASE f # <<t, i>>
        <5>1. f \in PageEntriesOf(objs) /\ Pte(objs2, f) = Pte(objs, f)
          BY <1>6, <4>2
        <5> QED BY <3>1, <3>3, <5>1 DEF MappedOnce, PagesOnce
      <4> QED BY <4>1, <4>2
    <3> QED BY <3>2, <3>3
  <2> QED BY <2>4, <2>5
<1>8. EntriesOnce(objs2)
  <2>1. \A e : e \in EntriesOf(objs2) <=> e \in EntriesOf(objs)
    BY <1>3, <1>4 DEF EntriesOf, Pde
  <2>2. \A e \in EntriesOf(objs) : Pde(objs2, e) = Pde(objs, e)
    BY <1>4 DEF EntriesOf, Pde
  <2> QED BY <1>3, <2>1, <2>2 DEF MappedOnce, EntriesOnce
<1>9. KernelMapped(objs2)
  BY <1>3, <1>4 DEF MappedOnce, KernelMapped
<1> QED BY <1>7, <1>8, <1>9 DEF MappedOnce, PagesOnce

LEMMA EntryFacts ==
  ASSUME NEW objs, MappedOnce(objs), NEW p \in PdirsOf(objs), NEW virt \in Addr,
         virt < KernelSpace
  PROVE  /\ KernelPdir.pde[DirOf(virt)] = 0 /\ Entry(objs, p, virt) # SuperPage
         /\ Entry(objs, p, virt) # 0 => Entry(objs, p, virt) \in TablesOf(objs)
<1>1. DirOf(virt) \in Dirs
  BY IndexFacts
<1>2. KernelPdir.pde[DirOf(virt)] = 0
  BY KernelPdirFacts
<1>3. Entry(objs, p, virt) # SuperPage
  BY <1>1, <1>2 DEF MappedOnce, KernelMapped, Entry, SuperPage
<1>4. PICK e : e = <<p, DirOf(virt)>>
  OBVIOUS
<1>5. e \in PdirsOf(objs) \X Dirs /\ Pde(objs, e) = Entry(objs, p, virt)
  BY <1>1, <1>4 DEF Pde, Entry
<1>6. Entry(objs, p, virt) # 0 => e \in EntriesOf(objs)
  BY <1>3, <1>5 DEF EntriesOf
<1> QED BY <1>2, <1>3, <1>5, <1>6 DEF MappedOnce, EntriesOnce

\* No object is at the address that marks a superpage.
LEMMA ObjectAddress ==
  ASSUME NEW U, NEW tab, NEW objs, UsedOnce(U, tab, objs), NEW a \in DOMAIN objs
  PROVE  a \in Nat /\ a # 0 /\ a # SuperPage
<1>1. a \in Nat \ {0} /\ Aligned(a)
  BY DEF UsedOnce, TypedMemory
<1>2. 0 + PageLen <= a
  <2>1. 0 < a /\ a \in Int /\ 0 \in Int /\ Aligned(0)
    BY <1>1, AlignedFacts
  <2> QED BY <1>1, <2>1, AlignedApart
<1> QED BY <1>1, <1>2, PageFacts DEF SuperPage

\* A directory with the table for an address: with a new and empty one, if
\* it had none.  What was not mapped still is not.
Mem(tab, objs) == [untyped |-> tab, objects |-> objs]
TableAdded(objs, objs2, p, virt) ==
  /\ p \in PdirsOf(objs2) /\ Entry(objs2, p, virt) \in TablesOf(objs2)
  /\ DOMAIN objs \subseteq DOMAIN objs2
  /\ \A a \in DOMAIN objs : a # p => objs2[a] = objs[a]
  /\ \A a \in DOMAIN objs2 \ DOMAIN objs : objs2[a].kind = "ptab"
  /\ Entry(objs, p, virt) # 0 => Entry(objs2, p, virt) = Entry(objs, p, virt)
  /\ Entry(objs, p, virt) = 0 => Entry(objs2, p, virt) \notin DOMAIN objs
  /\ \A v \in Addr : v < KernelSpace /\ Mapped(objs2, p, v) => Mapped(objs, p, v)

LEMMA TableThere ==
  ASSUME NEW U \in SUBSET (Nat \ {0}), NEW tab, NEW objs,
         UsedOnce(U, tab, objs), MappedOnce(objs), NEW p \in PdirsOf(objs),
         NEW virt \in Addr, virt < KernelSpace,
         Entry(objs, p, virt) = 0 => ~Exhausted(Mem(tab, objs)),
         NEW n, Fresh(objs, n), objs[n].kind = "data"
  PROVE  \E tab2, objs2 :
           /\ WithTable(Mem(tab, objs), p, virt) = Mem(tab2, objs2)
           /\ UsedOnce(U, tab2, objs2) /\ MappedOnce(objs2)
           /\ Fresh(objs2, n) /\ objs2[n].kind = "data" /\ TableAdded(objs, objs2, p, virt)
<1> PICK m : m = Mem(tab, objs)
  OBVIOUS
<1>1. m.untyped = tab /\ m.objects = objs
  BY DEF Mem
<1>2. PICK d \in Dirs : d = DirOf(virt)
  BY IndexFacts
<1>3. /\ KernelPdir.pde[d] = 0 /\ Entry(objs, p, virt) # SuperPage
      /\ Entry(objs, p, virt) # 0 => Entry(objs, p, virt) \in TablesOf(objs)
  BY <1>2, EntryFacts
<1>4. CASE Entry(objs, p, virt) # 0
  <2>1. WithTable(m, p, virt) = m
    BY <1>1, <1>4 DEF WithTable
  <2>2. TableAdded(objs, objs, p, virt)
    BY <1>3, <1>4 DEF TableAdded
  <2> QED BY <2>1, <2>2
<1>5. CASE Entry(objs, p, virt) = 0
  <2>1. ~Exhausted(m) /\ Plain(EmptyTable) /\ NoEntries(EmptyTable)
    BY <1>5 DEF Plain, NoEntries, EmptyTable, ObjectSet, TableSet
  <2>2. PICK m2 : m2 = AllocPage(m, EmptyTable)
    OBVIOUS
  <2>3. PICK k : k = NewPage(m)
    OBVIOUS
  <2>4. PICK objs1 : objs1 = Extended(objs, k, EmptyTable)
    OBVIOUS
  <2>5. /\ k \in Nat /\ k \notin DOMAIN objs /\ m2.objects = objs1
        /\ UsedOnce(U, m2.untyped, objs1)
    BY <1>1, <2>1, <2>2, <2>3, <2>4, AllocPageFacts
  <2>6. /\ MappedOnce(objs1) /\ Fresh(objs1, k) /\ Fresh(objs1, n)
    BY <2>1, <2>4, <2>5, MappedExtended
  <2>7. /\ DOMAIN objs1 = DOMAIN objs \cup {k} /\ objs1[k] = EmptyTable
        /\ \A a \in DOMAIN objs : objs1[a] = objs[a]
    BY <2>4, <2>5 DEF Extended
  <2>8. n \in DOMAIN objs /\ p \in DOMAIN objs /\ objs[p].kind = "pdir"
    BY DEF Fresh, PdirsOf
  <2>9. p \in PdirsOf(objs1) /\ k \in TablesOf(objs1) /\ objs1[p].pde[d] = 0 /\ k # n
        /\ k # SuperPage
    <3>1. k # SuperPage
      BY <2>5, <2>7, ObjectAddress
    <3> QED BY <1>2, <1>5, <2>5, <2>7, <2>8, <3>1 DEF PdirsOf, TablesOf, Entry, EmptyTable
  <2>10. PICK objs2 : objs2 = [objs1 EXCEPT ![p].pde[d] = k]
    OBVIOUS
  <2>11. WithTable(m, p, virt) = Mem(m2.untyped, objs2)
    <3>1. m2 = [untyped |-> m2.untyped, objects |-> m2.objects]
      BY <2>2 DEF AllocPage
    <3>2. WithTable(m, p, virt) = [m2 EXCEPT !.objects[p].pde[d] = k]
      BY <1>1, <1>2, <1>5, <2>2, <2>3 DEF WithTable
    <3> QED BY <2>5, <2>10, <3>1, <3>2 DEF Mem
  <2>12. SetPde(objs1, objs2, p, d, k)
    <3>1. objs1 \in [DOMAIN objs1 -> ObjectSet] /\ p \in DOMAIN objs1 /\ objs1[p].kind = "pdir"
      BY <2>5, <2>7, <2>8 DEF UsedOnce, TypedMemory
    <3>2. objs1[p] \in PdirSet
      BY <3>1, ObjectFields
    <3>3. [objs1[p] EXCEPT !.pde[d] = k] \in PdirSet
      BY <2>5, <3>2 DEF PdirSet
    <3>4. objs2 = [objs1 EXCEPT ![p] = [objs1[p] EXCEPT !.pde[d] = k]]
      BY <2>10
    <3>5. objs2 \in [DOMAIN objs1 -> ObjectSet]
      BY <3>1, <3>3, <3>4 DEF ObjectSet
    <3>6. objs2[p] = [objs1[p] EXCEPT !.pde[d] = k]
      BY <3>1, <3>4
    <3>7. objs2[p].kind = "pdir" /\ \A e \in Dirs : objs2[p].pde[e] = IF e = d THEN k ELSE objs1[p].pde[e]
      BY <3>2, <3>3, <3>6 DEF PdirSet
    <3> QED BY <3>1, <3>4, <3>5, <3>7 DEF SetPde
  <2>13. MappedOnce(objs2) /\ Fresh(objs2, n)
    BY <1>3, <2>6, <2>9, <2>12, MappedSetPde
  <2>14. /\ DOMAIN objs2 = DOMAIN objs1 /\ objs2[p].kind = "pdir" /\ objs2[p].pde[d] = k
         /\ \A a \in DOMAIN objs1 : a # p => objs2[a] = objs1[a]
         /\ \A e \in Dirs : e # d => objs2[p].pde[e] = objs1[p].pde[e]
    BY <2>12 DEF SetPde
  <2>15. UsedOnce(U, m2.untyped, objs2)
    <3>1. SameSpaces(objs1, objs2)
      BY <2>7, <2>8, <2>12, <2>14 DEF SameSpaces, SetPde
    <3> QED BY <2>5, <3>1, SameSpacesKept
  <2>16. /\ Entry(objs2, p, virt) = k /\ k \in TablesOf(objs2) /\ p \in PdirsOf(objs2)
         /\ objs2[n].kind = "data" /\ objs2[k] = EmptyTable
    BY <1>2, <2>5, <2>7, <2>8, <2>14 DEF Entry, TablesOf, PdirsOf, EmptyTable
  <2>17. ASSUME NEW v \in Addr, v < KernelSpace, Mapped(objs2, p, v) PROVE Mapped(objs, p, v)
    <3>1. DirOf(v) \in Dirs /\ IdxOf(v) \in Idxs
      BY IndexFacts
    <3>2. DirOf(v) # d
      <4> SUFFICES ASSUME DirOf(v) = d PROVE FALSE
        OBVIOUS
      <4>1. PageEntry(objs2, p, v) = 0
        BY <2>14, <2>16, <3>1 DEF PageEntry, Entry, EmptyTable
      <4> QED BY <2>17, <4>1 DEF Mapped
    <3>3. Entry(objs2, p, v) = Entry(objs, p, v)
      BY <2>7, <2>8, <2>14, <3>1, <3>2 DEF Entry
    <3>4. Entry(objs, p, v) \in TablesOf(objs)
      BY <2>17, <3>3, EntryFacts DEF Mapped
    <3>5. objs2[Entry(objs, p, v)] = objs[Entry(objs, p, v)]
      BY <2>7, <2>8, <2>14, <3>4 DEF TablesOf
    <3> QED BY <2>17, <3>3, <3>5 DEF Mapped, PageEntry
  <2>18. /\ DOMAIN objs \subseteq DOMAIN objs2
         /\ \A a \in DOMAIN objs : a # p => objs2[a] = objs[a]
         /\ \A a \in DOMAIN objs2 \ DOMAIN objs : objs2[a].kind = "ptab"
    BY <2>7, <2>8, <2>14, <2>16 DEF EmptyTable
  <2>19. TableAdded(objs, objs2, p, virt)
    BY <1>5, <2>5, <2>16, <2>17, <2>18 DEF TableAdded
  <2> QED BY <2>11, <2>13, <2>15, <2>16, <2>19
<1> QED BY <1>4, <1>5

\* A new page of data in a directory: no object is used for two things, no
\* page or table is in two places, and of what there was only the directory
\* and the table for the address change.
Grown(objs, objs2, p, virt) ==
  /\ DOMAIN objs \subseteq DOMAIN objs2 /\ objs2[p].kind = "pdir"
  /\ \A a \in DOMAIN objs : a # p /\ a # Entry(objs, p, virt) => objs2[a] = objs[a]
  /\ \A a \in DOMAIN objs : objs2[a].kind = objs[a].kind
  /\ \A a \in DOMAIN objs2 \ DOMAIN objs : objs2[a].kind \in {"ptab", "data"}
  /\ \A v \in Addr : v < KernelSpace /\ Mapped(objs2, p, v) /\ ~Mapped(objs, p, v) =>
       DirOf(v) = DirOf(virt) /\ IdxOf(v) = IdxOf(virt)

LEMMA PageMapped ==
  ASSUME NEW U \in SUBSET (Nat \ {0}), NEW tab, NEW objs,
         UsedOnce(U, tab, objs), MappedOnce(objs), ~Exhausted(Mem(tab, objs)),
         NEW p \in PdirsOf(objs), NEW virt \in Addr, virt < KernelSpace,
         NEW m1, m1 = AllocPage(Mem(tab, objs), Data),
         Entry(m1.objects, p, virt) = 0 => ~Exhausted(m1)
  PROVE  \E tab2, objs2 :
           /\ MapPage(m1, p, virt, NewPage(Mem(tab, objs))) = Mem(tab2, objs2)
           /\ UsedOnce(U, tab2, objs2) /\ MappedOnce(objs2) /\ Grown(objs, objs2, p, virt)
<1> PICK m : m = Mem(tab, objs)
  OBVIOUS
<1>1. m.untyped = tab /\ m.objects = objs
  BY DEF Mem
<1>2. PICK d \in Dirs, i \in Idxs : d = DirOf(virt) /\ i = IdxOf(virt)
  BY IndexFacts
<1>3. PICK n : n = NewPage(m)
  OBVIOUS
<1>4. PICK objs1 : objs1 = Extended(objs, n, Data)
  OBVIOUS
<1>5. PICK tab1 : tab1 = m1.untyped
  OBVIOUS
<1>6. Plain(Data) /\ NoEntries(Data) /\ Data.kind = "data"
  BY DEF Plain, NoEntries, Data, ObjectSet
<1>7. n \notin DOMAIN objs /\ m1.objects = objs1 /\ UsedOnce(U, tab1, objs1)
  BY <1>1, <1>3, <1>4, <1>5, <1>6, AllocPageFacts
<1>8. m1 = Mem(tab1, objs1)
  BY <1>5, <1>7 DEF AllocPage, Mem
<1>9. MappedOnce(objs1) /\ Fresh(objs1, n)
  BY <1>4, <1>6, <1>7, MappedExtended
<1>10. /\ DOMAIN objs1 = DOMAIN objs \cup {n} /\ objs1[n] = Data
       /\ \A a \in DOMAIN objs : objs1[a] = objs[a]
       /\ p \in DOMAIN objs /\ p \in PdirsOf(objs1)
  BY <1>4, <1>7 DEF Extended, PdirsOf
<1>11. Entry(objs1, p, virt) = Entry(objs, p, virt) /\ objs1[n].kind = "data"
  BY <1>6, <1>10 DEF Entry
<1>12. Entry(objs1, p, virt) = 0 => ~Exhausted(Mem(tab1, objs1))
  BY <1>7, <1>8
<1>13. PICK tab2, objs2 :
         /\ WithTable(Mem(tab1, objs1), p, virt) = Mem(tab2, objs2)
         /\ UsedOnce(U, tab2, objs2) /\ MappedOnce(objs2)
         /\ Fresh(objs2, n) /\ objs2[n].kind = "data" /\ TableAdded(objs1, objs2, p, virt)
  <2> QED BY <1>7, <1>9, <1>10, <1>11, <1>12, TableThere
<1>23. /\ p \in PdirsOf(objs2) /\ Entry(objs2, p, virt) \in TablesOf(objs2)
       /\ DOMAIN objs1 \subseteq DOMAIN objs2
       /\ \A a \in DOMAIN objs1 : a # p => objs2[a] = objs1[a]
       /\ \A a \in DOMAIN objs2 \ DOMAIN objs1 : objs2[a].kind = "ptab"
       /\ Entry(objs1, p, virt) # 0 => Entry(objs2, p, virt) = Entry(objs1, p, virt)
       /\ Entry(objs1, p, virt) = 0 => Entry(objs2, p, virt) \notin DOMAIN objs1
       /\ \A v \in Addr : v < KernelSpace /\ Mapped(objs2, p, v) => Mapped(objs1, p, v)
  BY <1>13 DEF TableAdded
<1>14. PICK t : t = Entry(objs2, p, virt)
  OBVIOUS
<1>15. t \in TablesOf(objs2) /\ t \in DOMAIN objs2 /\ objs2[t].kind = "ptab" /\ t # p
       /\ objs2[p].kind = "pdir" /\ p \in DOMAIN objs2
  BY <1>13, <1>23, <1>14 DEF TablesOf, PdirsOf
<1>16. PICK objs3 : objs3 = [objs2 EXCEPT ![t].pte[i] = n]
  OBVIOUS
<1>17. MapPage(m1, p, virt, NewPage(m)) = Mem(tab2, objs3)
  <2> PICK w : w = WithTable(m1, p, virt)
    OBVIOUS
  <2>1. w = [untyped |-> tab2, objects |-> objs2]
    BY <1>8, <1>13, <1>23 DEF Mem
  <2>2. MapPage(m1, p, virt, NewPage(m)) = [w EXCEPT !.objects[Entry(w.objects, p, virt)].pte[i] = n]
    BY <1>2, <1>3 DEF MapPage
  <2>3. w.objects = objs2 /\ Entry(w.objects, p, virt) = t
    BY <1>14, <2>1
  <2>4. [w EXCEPT !.objects[t].pte[i] = n] = [untyped |-> tab2, objects |-> objs3]
    BY <1>16, <2>1
  <2> QED BY <2>2, <2>3, <2>4 DEF Mem
<1>18. SetPte(objs2, objs3, t, i, n)
  <2>1. objs2 \in [DOMAIN objs2 -> ObjectSet]
    BY <1>13, <1>23 DEF UsedOnce, TypedMemory
  <2>2. objs2[t] \in TableSet
    BY <1>15, <2>1, ObjectFields
  <2>3. n \in Nat
    BY <1>7, <1>10, ObjectAddress
  <2>4. [objs2[t] EXCEPT !.pte[i] = n] \in TableSet
    BY <2>2, <2>3 DEF TableSet
  <2>5. objs3 = [objs2 EXCEPT ![t] = [objs2[t] EXCEPT !.pte[i] = n]]
    BY <1>16
  <2>6. objs3 \in [DOMAIN objs2 -> ObjectSet]
    BY <2>1, <2>4, <2>5 DEF ObjectSet
  <2>7. objs3[t] = [objs2[t] EXCEPT !.pte[i] = n]
    BY <1>15, <2>5
  <2>8. objs3[t].kind = "ptab" /\ \A e \in Idxs : objs3[t].pte[e] = IF e = i THEN n ELSE objs2[t].pte[e]
    BY <2>2, <2>4, <2>7 DEF TableSet
  <2> QED BY <2>5, <2>6, <2>8 DEF SetPte
<1>19. MappedOnce(objs3)
  BY <1>13, <1>23, <1>15, <1>18, MappedSetPte
<1>20. /\ DOMAIN objs3 = DOMAIN objs2 /\ objs3[t].kind = "ptab"
       /\ \A a \in DOMAIN objs2 : a # t => objs3[a] = objs2[a]
       /\ \A e \in Idxs : objs3[t].pte[e] = IF e = i THEN n ELSE objs2[t].pte[e]
  BY <1>18 DEF SetPte
<1>21. UsedOnce(U, tab2, objs3)
  <2>1. SameSpaces(objs2, objs3)
    BY <1>15, <1>18, <1>20 DEF SameSpaces, SetPte
  <2> QED BY <1>13, <1>23, <2>1, SameSpacesKept
<1>22. Grown(objs, objs3, p, virt)
  <2>1. DOMAIN objs \subseteq DOMAIN objs3 /\ objs3[p].kind = "pdir" /\ objs3[p] = objs2[p]
    BY <1>10, <1>13, <1>23, <1>15, <1>20
  <2>2. ASSUME NEW a \in DOMAIN objs, a # p, a # Entry(objs, p, virt)
        PROVE  objs3[a] = objs[a]
    <3>1. a # t
      BY <1>10, <1>11, <1>13, <1>23, <1>14, <2>2
    <3> QED BY <1>10, <1>13, <1>23, <1>20, <2>2, <3>1
  <2>3. ASSUME NEW a \in DOMAIN objs PROVE objs3[a].kind = objs[a].kind
    <3>1. a # p => objs2[a] = objs[a]
      BY <1>10, <1>13, <1>23
    <3>2. objs[p].kind = "pdir"
      BY DEF PdirsOf
    <3> QED BY <1>15, <1>20, <2>1, <3>1, <3>2
  <2>4. ASSUME NEW a \in DOMAIN objs3 \ DOMAIN objs PROVE objs3[a].kind \in {"ptab", "data"}
    <3>1. CASE a = t
      BY <1>20, <3>1
    <3>2. CASE a # t /\ a = n
      BY <1>13, <1>23, <1>20, <3>2
    <3>3. CASE a # t /\ a # n
      BY <1>10, <1>13, <1>23, <1>20, <3>3
    <3> QED BY <3>1, <3>2, <3>3
  <2>5. ASSUME NEW v \in Addr, v < KernelSpace, Mapped(objs3, p, v), ~Mapped(objs, p, v)
        PROVE  DirOf(v) = DirOf(virt) /\ IdxOf(v) = IdxOf(virt)
    <3>1. DirOf(v) \in Dirs /\ IdxOf(v) \in Idxs
      BY IndexFacts
    <3>2. Entry(objs3, p, v) = Entry(objs2, p, v)
      BY <2>1 DEF Entry
    <3>3. Entry(objs3, p, v) # 0 /\ PageEntry(objs3, p, v) # 0
      BY <2>5 DEF Mapped
    <3>4. ~Mapped(objs2, p, v)
      <4> SUFFICES ASSUME Mapped(objs2, p, v) PROVE FALSE
        OBVIOUS
      <4>1. Mapped(objs1, p, v)
        BY <1>13, <1>23, <2>5
      <4>2. Entry(objs1, p, v) = Entry(objs, p, v)
        BY <1>10 DEF Entry
      <4>3. Entry(objs, p, v) \in TablesOf(objs)
        BY <2>5, <4>1, <4>2, EntryFacts DEF Mapped
      <4>4. objs1[Entry(objs, p, v)] = objs[Entry(objs, p, v)]
        BY <1>10, <4>3 DEF TablesOf
      <4> QED BY <2>5, <4>1, <4>2, <4>4 DEF Mapped, PageEntry
    <3>5. Entry(objs2, p, v) \in TablesOf(objs2)
      BY <1>13, <1>23, <2>5, <3>2, <3>3, EntryFacts
    <3>6. PageEntry(objs2, p, v) = 0
      BY <3>2, <3>3, <3>4 DEF Mapped
    <3>7. Entry(objs2, p, v) = t
      <4> SUFFICES ASSUME Entry(objs2, p, v) # t PROVE FALSE
        OBVIOUS
      <4>1. objs3[Entry(objs2, p, v)] = objs2[Entry(objs2, p, v)]
        BY <1>20, <3>5 DEF TablesOf
      <4> QED BY <3>2, <3>3, <3>6, <4>1 DEF PageEntry
    <3>8. IdxOf(v) = i
      <4> SUFFICES ASSUME IdxOf(v) # i PROVE FALSE
        OBVIOUS
      <4>1. PageEntry(objs3, p, v) = objs3[t].pte[IdxOf(v)]
        BY <3>2, <3>7 DEF PageEntry
      <4>2. PageEntry(objs2, p, v) = objs2[t].pte[IdxOf(v)]
        BY <3>7 DEF PageEntry
      <4> QED BY <1>20, <3>1, <3>3, <3>6, <4>1, <4>2
    <3>9. DirOf(v) = d
      <4> SUFFICES ASSUME DirOf(v) # d PROVE FALSE
        OBVIOUS
      <4>1. PICK e : e = <<p, DirOf(v)>>
        OBVIOUS
      <4>2. PICK f : f = <<p, d>>
        OBVIOUS
      <4>3. e \in PdirsOf(objs2) \X Dirs /\ f \in PdirsOf(objs2) \X Dirs /\ e # f
        BY <1>13, <1>23, <3>1, <4>1, <4>2
      <4>4. Pde(objs2, e) = t /\ Pde(objs2, f) = t
        BY <1>2, <1>14, <3>7, <4>1, <4>2 DEF Pde, Entry
      <4>5. t \notin {0, SuperPage}
        BY <1>13, <1>23, <1>15, ObjectAddress
      <4>6. e \in EntriesOf(objs2) /\ f \in EntriesOf(objs2)
        BY <4>3, <4>4, <4>5 DEF EntriesOf
      <4> QED BY <1>13, <1>23, <4>3, <4>4, <4>6 DEF MappedOnce, EntriesOnce
    <3> QED BY <1>2, <3>8, <3>9
  <2> QED BY <2>1, <2>2, <2>3, <2>4, <2>5 DEF Grown
<1> QED BY <1>17, <1>19, <1>21, <1>22

-----------------------------------------------------------------------------
(* The memory map and the headers, which stay as they are.                 *)

LEMMA BootFacts ==
  ASSUME boot \in Boots
  PROVE  /\ Len(boot.mmap) \in Nat
         /\ \A k \in 1..Len(boot.mmap) :
              /\ boot.mmap[k] \in Spans
              /\ boot.mmap[k].lo + PageLen <= Words /\ boot.mmap[k].hi + 1 >= PageLen
         /\ Reserved \in Seq(Spans) /\ Len(Reserved) \in Nat /\ Len(Reserved) >= 1
         /\ \A k \in 1..Len(Reserved) : Reserved[k] \in Spans
         /\ Reserved[1] = Span(0, LowMemory - 1)
         /\ UserCode \in Spans /\ UserCode.hi < KernelSpace
<1>1. /\ boot.mmap \in Seq(Spans) /\ boot.hdrs \in Seq(Spans) /\ Len(boot.hdrs) >= 3
      /\ \A k \in DOMAIN boot.mmap : /\ boot.mmap[k].lo + PageLen <= Words
                                     /\ boot.mmap[k].hi + 1 >= PageLen
      /\ boot.hdrs[3].hi < KernelSpace
  BY CapsAssumption
<1>2. PICK hdrs \in Seq(Spans) : hdrs = boot.hdrs
  BY <1>1
<1>3. PICK low \in Spans, high \in Spans :
        low = Span(0, LowMemory - 1) /\ high = Span(KernelSpace, Words - 1)
  <2>1. 0 \in Addr /\ LowMemory - 1 \in Addr /\ KernelSpace \in Addr /\ Words - 1 \in Addr
    BY SuperFacts, PageFacts DEF Addr
  <2>2. \A a, b \in Addr : Span(a, b) \in Spans
    BY DEF Span, Spans
  <2> QED BY <2>1, <2>2
<1>4. PICK two : two = <<low, high>>
  OBVIOUS
<1>5. two \in Seq(Spans) /\ Len(two) = 2 /\ two[1] = low
  BY <1>4
<1>6. Reserved = two \o hdrs
  BY <1>2, <1>3, <1>4 DEF Reserved
<1>7. Reserved \in Seq(Spans) /\ Len(Reserved) = 2 + Len(hdrs) /\ Reserved[1] = low
  <2>1. two \o hdrs \in Seq(Spans) /\ Len(two \o hdrs) = Len(two) + Len(hdrs)
        /\ \A i \in 1..Len(two) + Len(hdrs) :
             (two \o hdrs)[i] = IF i <= Len(two) THEN two[i] ELSE hdrs[i - Len(two)]
    BY <1>5, ConcatProperties
  <2>2. Len(hdrs) \in Nat /\ Len(two) = 2
    BY <1>5, DomainOfSeq
  <2> QED BY <1>5, <1>6, <2>1, <2>2
<1>8. Len(hdrs) \in Nat /\ hdrs[3] \in Spans
  <2>1. 3 \in 1..Len(hdrs)
    BY <1>1, <1>2, DomainOfSeq
  <2> QED BY <2>1, DomainOfSeq
<1>9. UserCode \in Spans /\ UserCode.hi < KernelSpace
  BY <1>1, <1>2, <1>8 DEF UserCode
<1>10. /\ Len(Reserved) \in Nat /\ Len(Reserved) >= 1
       /\ \A k \in 1..Len(Reserved) : Reserved[k] \in Spans
  BY <1>7, <1>8, DomainOfSeq
<1>11. /\ Len(boot.mmap) \in Nat
       /\ \A k \in 1..Len(boot.mmap) :
            /\ boot.mmap[k] \in Spans
            /\ boot.mmap[k].lo + PageLen <= Words /\ boot.mmap[k].hi + 1 >= PageLen
  BY <1>1, DomainOfSeq
<1> QED BY <1>3, <1>7, <1>9, <1>10, <1>11

\* What is usable is not at address 0, which is below LowMemory.
LEMMA UsableFacts ==
  ASSUME boot \in Boots
  PROVE  /\ Usable \in SUBSET (Nat \ {0})
         /\ \A a \in UsablePages : a \in Nat /\ a..a + PageLen - 1 \subseteq Usable
<1>1. PICK n \in Nat : n = Len(Reserved)
  BY BootFacts
<1>2. PICK l \in Nat : l = Len(boot.mmap)
  BY BootFacts
<1>3. PICK free : free = UNION {PagesIn(boot.mmap[k].lo, boot.mmap[k].hi) : k \in DOMAIN boot.mmap}
  OBVIOUS
<1>4. PICK taken : taken = UNION {Reserved[k].lo..Reserved[k].hi : k \in DOMAIN Reserved}
  OBVIOUS
<1>5. Usable = UNION {a..a + PageLen - 1 : a \in {b \in free : (b..b + PageLen - 1) \cap taken = {}}}
  BY <1>3, <1>4 DEF Usable
<1>6. DOMAIN boot.mmap = 1..l /\ DOMAIN Reserved = 1..n
  <2>1. boot.mmap \in Seq(Spans) /\ Reserved \in Seq(Spans)
    BY CapsAssumption, BootFacts
  <2> QED BY <1>1, <1>2, <2>1, DomainOfSeq
<1>7. free \subseteq Nat
  BY <1>3, PageFacts DEF PagesIn, Addr
<1>8. 0 \in taken
  <2>1. 1 \in 1..n /\ Reserved[1].lo = 0 /\ Reserved[1].hi = LowMemory - 1
    BY <1>1, BootFacts DEF Span
  <2>2. 0 \in Reserved[1].lo..Reserved[1].hi
    BY <2>1, SuperFacts
  <2> QED BY <1>4, <1>6, <2>1, <2>2
<1>9. PICK P \in Nat \ {0} : P = PageLen
  BY PageFacts
<1>10. \A x \in Usable : x \in Nat /\ x # 0
  <2> SUFFICES ASSUME NEW x \in Usable PROVE x \in Nat /\ x # 0
    OBVIOUS
  <2>1. PICK a \in free : (a..a + P - 1) \cap taken = {} /\ x \in a..a + P - 1
    BY <1>5, <1>9
  <2> QED BY <1>7, <1>8, <2>1
<1>11. ASSUME NEW a \in UsablePages PROVE a \in Nat /\ a..a + PageLen - 1 \subseteq Usable
  <2>1. /\ a \in UNION {PagesIn(boot.mmap[k].lo, boot.mmap[k].hi) : k \in 1..l}
        /\ \A k \in 1..n : Page(a) \cap (Reserved[k].lo..Reserved[k].hi) = {}
    BY <1>1, <1>2 DEF UsablePages, Remaining, Inserted
  <2>2. a \in free
    BY <1>3, <1>6, <2>1
  <2>3. (a..a + PageLen - 1) \cap taken = {}
    BY <1>4, <1>6, <2>1 DEF Page
  <2> QED BY <1>5, <1>7, <2>2, <2>3
<1> QED BY <1>10, <1>11

LEMMA SameBoot ==
  ASSUME boot' = boot
  PROVE  /\ Usable' = Usable /\ Reserved' = Reserved /\ UserCode' = UserCode
         /\ \A n : Inserted(n)' = Inserted(n) /\ Remaining(n)' = Remaining(n)
         /\ UsablePages' = UsablePages
<1>1. Usable' = Usable /\ Reserved' = Reserved /\ UserCode' = UserCode
  BY DEF Usable, Reserved, UserCode
<1>2. \A n : Inserted(n)' = Inserted(n)
  BY DEF Inserted
<1>3. \A n : Remaining(n)' = Remaining(n)
  BY DEF Remaining, Inserted, Reserved
<1>4. UsablePages' = UsablePages
  BY DEF UsablePages, Remaining, Inserted, Reserved
<1> QED BY <1>1, <1>2, <1>3, <1>4

LEMMA InsertedNext ==
  ASSUME NEW n \in Nat \ {0}
  PROVE  Inserted(n + 1) = Inserted(n) \cup PagesIn(boot.mmap[n].lo, boot.mmap[n].hi)
<1>1. 1..(n + 1) - 1 = (1..n - 1) \cup {n}
  OBVIOUS
<1> QED BY <1>1 DEF Inserted

LEMMA RemainingNext ==
  ASSUME NEW n \in Nat \ {0}
  PROVE  Remaining(n + 1) = Untouched(Remaining(n), Reserved[n])
<1>1. 1..(n + 1) - 1 = (1..n - 1) \cup {n}
  OBVIOUS
<1> QED BY <1>1 DEF Remaining, Untouched, Page

LEMMA RemainingFirst ==
  Remaining(1) = Inserted(Len(boot.mmap) + 1)
  BY DEF Remaining

-----------------------------------------------------------------------------
(* The initialization of memory keeps the invariant.                       *)

\* A table of untyped memory, and no objects.
LEMMA TableAlone ==
  ASSUME NEW U, NEW tab \in Seq(UntypedSet),
         \A i \in 1..Len(tab) : Rest(tab[i]) \subseteq U,
         \A i, j \in 1..Len(tab) : i # j => Rest(tab[i]) \cap Rest(tab[j]) = {}
  PROVE  UsedOnce(U, tab, NoObjects) /\ MappedOnce(NoObjects)
<1>1. DOMAIN NoObjects = {} /\ NoObjects \in [DOMAIN NoObjects -> ObjectSet]
  BY DEF NoObjects
<1>2. CspacesOf(NoObjects) = {} /\ TablesOf(NoObjects) = {} /\ PdirsOf(NoObjects) = {}
  BY <1>1 DEF CspacesOf, TablesOf, PdirsOf
<1>3. TypedMemory(tab, NoObjects)
  BY <1>1 DEF TypedMemory
<1>4. ASSUME NEW h \in HoldersOf(tab, NoObjects)
      PROVE  h[2] \in 1..Len(tab) /\ h = <<0, h[2]>> /\ HeldOf(tab, NoObjects, h) = Rest(tab[h[2]])
  BY <1>2, <1>3, HolderFacts
<1>5. ASSUME NEW h \in HoldersOf(tab, NoObjects), NEW g \in HoldersOf(tab, NoObjects), g # h
      PROVE  HeldOf(tab, NoObjects, h) \cap HeldOf(tab, NoObjects, g) = {}
  <2>1. h[2] # g[2]
    BY <1>4, <1>5
  <2> QED BY <1>4, <2>1
<1>6. \A h \in HoldersOf(tab, NoObjects) : HeldOf(tab, NoObjects, h) \subseteq U
  BY <1>4
<1>7. UsedOnce(U, tab, NoObjects)
  BY <1>1, <1>3, <1>5, <1>6 DEF UsedOnce
<1>8. EntriesOf(NoObjects) = {} /\ PageEntriesOf(NoObjects) = {}
  BY <1>2 DEF EntriesOf, PageEntriesOf
<1>9. MappedOnce(NoObjects)
  BY <1>2, <1>8 DEF MappedOnce, EntriesOnce, PagesOnce, KernelMapped
<1> QED BY <1>7, <1>9

LEMMA InitInv ==
  ASSUME Init
  PROVE  Inv
<1>1. /\ boot \in Boots /\ pc = "insert" /\ at = 1 /\ lo = 0 /\ intervals = <<>>
      /\ untyped = <<>> /\ objects = NoObjects /\ current = 0
      /\ proc = [p \in Proc |-> [pdir |-> 0, cspace |-> 0]]
  BY DEF Init
<1>2. TypeInv
  BY <1>1 DEF TypeInv, Proc
<1>3. MemoryInv
  <2>1. PICK tab \in Seq(UntypedSet) : tab = <<>> /\ 1..Len(tab) = {}
    <3>1. <<>> \in Seq(UntypedSet) /\ Len(<<>>) = 0
      OBVIOUS
    <3>2. 1..Len(<<>>) = {}
      BY <3>1
    <3> QED BY <3>1, <3>2
  <2>2. UsedOnce(Usable, tab, NoObjects) /\ MappedOnce(NoObjects)
    BY <2>1, TableAlone
  <2> QED BY <1>1, <2>1, <2>2 DEF MemoryInv
<1>4. InsertInv
  <2>1. Separate(Inserted(1), <<>>)
    BY DEF Separate
  <2> QED BY <1>1, <2>1, BootFacts DEF InsertInv, NoMemoryYet
<1> QED
  BY <1>1, <1>2, <1>3, <1>4 DEF Inv, ReserveInv, UntypedInv, PdirInv, CopyInv, RunInv

LEMMA InsertRegionInv ==
  ASSUME Inv, InsertRegion
  PROVE  Inv'
<1>1. /\ TypeInv /\ MemoryInv /\ pc = "insert" /\ NoMemoryYet
      /\ at <= Len(boot.mmap) + 1 /\ Separate(Inserted(at), intervals)
  BY DEF Inv, InsertInv, InsertRegion
<1>2. UNCHANGED <<boot, lo, untyped, objects, proc, current, cr3, calls>>
  BY DEF InsertRegion
<1>3. boot \in Boots /\ at \in Nat \ {0} /\ Len(boot.mmap) \in Nat /\ Len(Reserved) \in Nat
  BY <1>1, BootFacts DEF TypeInv
<1>4. MemoryInv' /\ NoMemoryYet'
  <2>1. Usable' = Usable
    BY <1>2, SameBoot
  <2> QED BY <1>1, <1>2, <2>1 DEF MemoryInv, NoMemoryYet
<1>5. CASE at <= Len(boot.mmap) /\ intervals' = InsertInterval(intervals, boot.mmap[at]) /\ Again
  <2>1. pc' = "insert" /\ at' = at + 1
    BY <1>1, <1>5 DEF Again
  <2>2. at \in 1..Len(boot.mmap)
    BY <1>3, <1>5
  <2>3. PICK region \in Spans : region = boot.mmap[at]
    BY <1>3, <2>2, BootFacts
  <2>4. region.lo + PageLen <= Words /\ region.hi + 1 >= PageLen
    BY <1>3, <2>2, <2>3, BootFacts
  <2>5. PICK F : F = Inserted(at)
    OBVIOUS
  <2>6. PICK tab : tab = intervals
    OBVIOUS
  <2>7. Separate(F \cup PagesIn(region.lo, region.hi), InsertInterval(tab, region))
    BY <1>1, <2>4, <2>5, <2>6, InsertSeparate
  <2>8. Inserted(at + 1) = F \cup PagesIn(region.lo, region.hi)
    BY <1>3, <2>3, <2>5, InsertedNext
  <2>9. PICK n \in Nat : n = at + 1
    BY <1>3
  <2>10. Inserted(n)' = Inserted(n)
    BY <1>2, SameBoot
  <2>11. Inserted(at)' = Inserted(n)'
    BY <2>1, <2>9 DEF Inserted
  <2>12. Separate(Inserted(at), intervals)'
    BY <1>5, <2>3, <2>6, <2>7, <2>8, <2>9, <2>10, <2>11
  <2>13. InsertInv'
    BY <1>2, <1>3, <1>4, <1>5, <2>1, <2>12 DEF InsertInv
  <2>14. TypeInv'
    BY <1>1, <1>2, <2>1 DEF TypeInv
  <2> QED BY <1>4, <2>1, <2>13, <2>14
          DEF Inv, ReserveInv, UntypedInv, PdirInv, CopyInv, RunInv
<1>6. CASE at > Len(boot.mmap) /\ Go("reserve") /\ UNCHANGED intervals
  <2>1. pc' = "reserve" /\ at' = 1
    BY <1>6 DEF Go
  <2>2. at = Len(boot.mmap) + 1
    BY <1>1, <1>3, <1>6
  <2>3. Separate(Remaining(1), intervals)
    BY <1>1, <2>2, RemainingFirst
  <2>4. Remaining(1)' = Remaining(1)
    BY <1>2, SameBoot
  <2>5. Remaining(at)' = Remaining(1)'
    BY <2>1 DEF Remaining
  <2>6. Separate(Remaining(at), intervals)'
    BY <1>6, <2>3, <2>4, <2>5
  <2>7. Reserved' = Reserved
    BY <1>2, SameBoot
  <2>8. ReserveInv'
    BY <1>3, <1>4, <2>1, <2>6, <2>7 DEF ReserveInv
  <2>9. TypeInv'
    BY <1>1, <1>2, <2>1 DEF TypeInv
  <2> QED BY <1>4, <2>1, <2>8, <2>9
          DEF Inv, InsertInv, UntypedInv, PdirInv, CopyInv, RunInv
<1> QED BY <1>5, <1>6 DEF InsertRegion

LEMMA ReserveRegionInv ==
  ASSUME Inv, ReserveRegion
  PROVE  Inv'
<1>1. /\ TypeInv /\ MemoryInv /\ pc = "reserve" /\ NoMemoryYet
      /\ at <= Len(Reserved) + 1 /\ Separate(Remaining(at), intervals)
  BY DEF Inv, ReserveInv, ReserveRegion
<1>2. UNCHANGED <<boot, lo, untyped, objects, proc, current, cr3, calls>>
  BY DEF ReserveRegion
<1>3. boot \in Boots /\ at \in Nat \ {0} /\ Len(Reserved) \in Nat
  BY <1>1, BootFacts DEF TypeInv
<1>4. MemoryInv' /\ NoMemoryYet' /\ Reserved' = Reserved
  <2>1. Usable' = Usable /\ Reserved' = Reserved
    BY <1>2, SameBoot
  <2> QED BY <1>1, <1>2, <2>1 DEF MemoryInv, NoMemoryYet
<1>5. PICK tab : tab = intervals
  OBVIOUS
<1>6. PICK F : F = Remaining(at)
  OBVIOUS
<1>7. Separate(F, tab)
  BY <1>1, <1>5, <1>6
<1>8. CASE /\ at <= Len(Reserved)
           /\ IF Len(ReserveInterval(intervals, Reserved[at])) > MaxIntervals
              THEN Go("smashed") ELSE Again
           /\ intervals' = ReserveInterval(intervals, Reserved[at])
  <2>1. at \in 1..Len(Reserved)
    BY <1>3, <1>8
  <2>2. PICK region \in Spans : region = Reserved[at]
    BY <1>3, <2>1, BootFacts
  <2>3. Separate(Untouched(F, region), ReserveInterval(tab, region))
    BY <1>7, ReserveSeparate
  <2>4. PICK n \in Nat \ {0} : n = at + 1
    BY <1>3
  <2>5. Remaining(n) = Untouched(F, region)
    BY <1>3, <1>6, <2>2, <2>4, RemainingNext
  <2>6. Remaining(n)' = Remaining(n)
    BY <1>2, SameBoot
  <2>7. CASE pc' = "smashed" /\ at' = 1
    <3>1. TypeInv'
      BY <1>1, <1>2, <2>7 DEF TypeInv
    <3> QED BY <1>4, <2>7, <3>1
            DEF Inv, InsertInv, ReserveInv, UntypedInv, PdirInv, CopyInv, RunInv
  <2>8. CASE pc' = "reserve" /\ at' = at + 1
    <3>1. Remaining(at)' = Remaining(n)'
      BY <2>4, <2>8 DEF Remaining
    <3>2. Separate(Remaining(at), intervals)'
      BY <1>5, <1>8, <2>2, <2>3, <2>5, <2>6, <3>1
    <3>3. ReserveInv'
      BY <1>3, <1>4, <1>8, <2>8, <3>2 DEF ReserveInv
    <3>4. TypeInv'
      BY <1>1, <1>2, <2>8 DEF TypeInv
    <3> QED BY <1>4, <2>8, <3>3, <3>4
            DEF Inv, InsertInv, UntypedInv, PdirInv, CopyInv, RunInv
  <2> QED BY <1>1, <1>8, <2>7, <2>8 DEF Go, Again
<1>9. CASE /\ at > Len(Reserved) /\ intervals' = SortIntervals(intervals) /\ Go("untyped")
  <2>1. pc' = "untyped" /\ at' = 1
    BY <1>9 DEF Go
  <2>2. at = Len(Reserved) + 1
    BY <1>1, <1>3, <1>9
  <2>3. Separate(F, SortIntervals(tab))
    BY <1>7, SortSeparate
  <2>4. F = UsablePages /\ UsablePages' = UsablePages
    BY <1>2, <1>6, <2>2, SameBoot DEF UsablePages
  <2>5. Separate(UsablePages, intervals)'
    BY <1>5, <1>9, <2>3, <2>4
  <2>6. UntypedInv'
    <3>1. DOMAIN untyped' = {}
      BY <1>4 DEF NoMemoryYet
    <3> QED BY <1>4, <2>5, <3>1 DEF UntypedInv, NoMemoryYet
  <2>7. TypeInv'
    BY <1>1, <1>2, <2>1 DEF TypeInv
  <2> QED BY <1>4, <2>1, <2>6, <2>7
          DEF Inv, InsertInv, ReserveInv, PdirInv, CopyInv, RunInv
<1> QED BY <1>8, <1>9 DEF ReserveRegion

LEMMA AddBlockInv ==
  ASSUME Inv, AddBlock
  PROVE  Inv'
<1>1. /\ TypeInv /\ MemoryInv /\ pc = "untyped" /\ intervals # <<>> /\ objects = NoObjects
      /\ Separate(UsablePages, intervals)
      /\ \A i \in DOMAIN untyped, j \in DOMAIN intervals :
           Rest(untyped[i]) \cap (intervals[j].lo..intervals[j].hi) = {}
  BY DEF Inv, UntypedInv, AddBlock
<1>2. UNCHANGED <<boot, pc, at, lo, objects, proc, current, cr3, calls>>
  BY DEF AddBlock
<1>3. Usable' = Usable /\ UsablePages' = UsablePages
  BY <1>2, SameBoot
<1>4. PICK F : F = UsablePages
  OBVIOUS
<1>5. PICK U : U = Usable
  OBVIOUS
<1>6. PICK ints : ints = intervals
  OBVIOUS
<1>7. PICK tab : tab = untyped
  OBVIOUS
<1>8. /\ Separate(F, ints) /\ ints # <<>> /\ UsedOnce(U, tab, NoObjects)
      /\ \A i \in DOMAIN tab, j \in DOMAIN ints :
           Rest(tab[i]) \cap (ints[j].lo..ints[j].hi) = {}
  BY <1>1, <1>4, <1>5, <1>6, <1>7 DEF MemoryInv
<1>9. tab \in Seq(UntypedSet) /\ ints \in Seq(Spans) /\ TypedMemory(tab, NoObjects)
      /\ DOMAIN tab = 1..Len(tab) /\ DOMAIN ints = 1..Len(ints) /\ 1 \in 1..Len(ints)
  <2>1. tab \in Seq(UntypedSet) /\ ints \in Seq(Spans) /\ TypedMemory(tab, NoObjects)
    BY <1>8 DEF UsedOnce, TypedMemory, Separate
  <2>2. Len(ints) # 0
    BY <1>8, <2>1
  <2> QED BY <2>1, <2>2, DomainOfSeq
<1>10. PICK first : first = ints[1]
  OBVIOUS
<1>11. Clear(F, first) /\ first \in Spans
  BY <1>8, <1>9, <1>10 DEF Separate, Clear
<1>12. PICK b : b = BlockBits(first.lo, first.hi)
  OBVIOUS
<1>13. /\ first.lo + PageLen - 1 <= first.hi
       /\ 2^b \in Nat \ {0} /\ Aligned(first.lo + 2^b) /\ first.lo + 2^b - 1 <= first.hi
       /\ UntypedCap(first.lo, b) \in UntypedSet
       /\ Rest(UntypedCap(first.lo, b)) = first.lo..first.lo + 2^b - 1
       /\ FirstPageAfter(first.lo) = first.lo
  BY <1>11, <1>12, BlockIsUntyped
<1>14. PICK last : last = first.lo + 2^b - 1
  OBVIOUS
<1>15. first.lo \in Nat /\ first.hi \in Nat /\ last \in Int /\ first.lo <= last /\ last <= first.hi
       /\ Aligned(last + 1)
  <2>1. first.lo \in Nat /\ first.hi \in Nat
    BY <1>11, SpanFields
  <2>2. PICK L \in Nat \ {0} : L = 2^b
    BY <1>13
  <2>3. last = first.lo + L - 1 /\ last + 1 = first.lo + L
    BY <1>14, <2>1, <2>2
  <2> QED BY <1>13, <2>1, <2>2, <2>3
<1>16. PICK new : new = UntypedCap(first.lo, b)
  OBVIOUS
<1>17. new \in UntypedSet /\ Rest(new) = first.lo..last
  BY <1>13, <1>14, <1>16
<1>18. PICK tab2 : tab2 = InsertUntyped(tab, first.lo, b)
  OBVIOUS
<1>19. PICK ints2 : ints2 = LeftOf(ints, last)
  OBVIOUS
<1>20. untyped' = tab2 /\ intervals' = ints2
  <2>1. ~(first.lo < first.lo \/ first.lo + PageLen - 1 > first.hi)
    <3>1. PICK P \in Nat : P = PageLen
      BY PageFacts
    <3> QED BY <1>13, <1>15, <3>1
  <2>2. intervals[1] = first
    BY <1>6, <1>10
  <2>3. IF first.lo < first.lo \/ first.lo + PageLen - 1 > first.hi
        THEN intervals' = Tail(intervals) /\ UNCHANGED untyped
        ELSE /\ untyped' = InsertUntyped(untyped, first.lo, b)
             /\ intervals' = IF last < first.hi
                             THEN [intervals EXCEPT ![1].lo = last + 1]
                             ELSE Tail(intervals)
    BY <1>12, <1>13, <1>14, <2>2 DEF AddBlock
  <2> QED BY <1>6, <1>7, <1>10, <1>18, <1>19, <2>1, <2>3 DEF LeftOf
<1>21. /\ Separate(F, ints2)
       /\ \A j \in DOMAIN ints2 : \A x \in ints2[j].lo..ints2[j].hi :
            (\E i \in DOMAIN ints : x \in ints[i].lo..ints[i].hi) /\ ~(x \in ints[1].lo..last)
  <2>1. ints[1].lo <= last /\ last <= ints[1].hi
    BY <1>10, <1>15
  <2> QED BY <1>8, <1>15, <1>19, <2>1, LeftSeparate
<1>22. /\ tab2 \in Seq(UntypedSet) /\ DOMAIN tab2 = 1..Len(tab2)
       /\ Placed(tab, tab2, UntypedCap(first.lo, b))
  <2>1. UntypedCap(first.lo, b) \in UntypedSet /\ tab \in Seq(UntypedSet)
    BY <1>9, <1>13
  <2>2. /\ tab2 \in Seq(UntypedSet)
        /\ Placed(tab, tab2, UntypedCap(first.lo, b))
    BY <1>18, <2>1, InsertUntypedFacts
  <2> QED BY <2>2, DomainOfSeq
<1>23. PICK from \in [1..Len(tab2) -> 0..Len(tab)] :
         \A i \in 1..Len(tab2) :
           /\ \A j \in 1..Len(tab2) : i # j => from[i] # from[j]
           /\ tab2[i] = IF from[i] = 0 THEN new ELSE tab[from[i]]
  BY <1>16, <1>22 DEF Placed
<1>24. ASSUME NEW i \in 1..Len(tab2), from[i] # 0 PROVE from[i] \in 1..Len(tab)
  <2>1. Len(tab) \in Nat /\ from[i] \in 0..Len(tab)
    BY <1>9, DomainOfSeq
  <2> QED BY <1>24, <2>1
<1>25. ASSUME NEW i \in 1..Len(tab)
       PROVE  /\ Rest(tab[i]) \subseteq U /\ Rest(tab[i]) \cap Rest(new) = {}
              /\ \A j \in 1..Len(tab) : i # j => Rest(tab[i]) \cap Rest(tab[j]) = {}
  <2>1. <<0, i>> \in HoldersOf(tab, NoObjects) /\ HeldOf(tab, NoObjects, <<0, i>>) = Rest(tab[i])
    BY <1>9, TableHolder
  <2>2. Rest(tab[i]) \subseteq U
    BY <1>8, <2>1 DEF UsedOnce
  <2>3. ASSUME NEW j \in 1..Len(tab), i # j PROVE Rest(tab[i]) \cap Rest(tab[j]) = {}
    <3>1. /\ <<0, j>> \in HoldersOf(tab, NoObjects)
          /\ HeldOf(tab, NoObjects, <<0, j>>) = Rest(tab[j])
      BY <1>9, TableHolder
    <3>2. <<0, i>> # <<0, j>>
      BY <2>3
    <3> QED BY <1>8, <2>1, <3>1, <3>2 DEF UsedOnce
  <2>4. Rest(tab[i]) \cap (first.lo..first.hi) = {}
    BY <1>8, <1>9, <1>10
  <2>5. first.lo..last \subseteq first.lo..first.hi
    BY <1>15
  <2> QED BY <1>17, <2>2, <2>3, <2>4, <2>5
<1>26. Rest(new) \subseteq U
  <2> SUFFICES ASSUME NEW x \in Rest(new) PROVE x \in U
    OBVIOUS
  <2>1. x \in first.lo..first.hi
    BY <1>15, <1>17
  <2>2. PICK a \in F : x \in a..a + PageLen - 1
    BY <1>11, <2>1, InPage
  <2>3. boot \in Boots
    BY <1>1 DEF TypeInv
  <2> QED BY <1>4, <1>5, <2>2, <2>3, UsableFacts
<1>27. UsedOnce(U, tab2, NoObjects) /\ MappedOnce(NoObjects)
  <2>1. ASSUME NEW i \in 1..Len(tab2) PROVE Rest(tab2[i]) \subseteq U
    BY <1>23, <1>24, <1>25, <1>26
  <2>2. ASSUME NEW i \in 1..Len(tab2), NEW j \in 1..Len(tab2), i # j
        PROVE  Rest(tab2[i]) \cap Rest(tab2[j]) = {}
    <3>1. /\ from[i] # from[j]
          /\ tab2[i] = IF from[i] = 0 THEN new ELSE tab[from[i]]
          /\ tab2[j] = IF from[j] = 0 THEN new ELSE tab[from[j]]
      BY <1>23, <2>2
    <3>2. CASE from[i] = 0
      BY <1>24, <1>25, <3>1, <3>2
    <3>3. CASE from[j] = 0
      BY <1>24, <1>25, <3>1, <3>3
    <3>4. CASE from[i] # 0 /\ from[j] # 0
      BY <1>24, <1>25, <3>1, <3>4
    <3> QED BY <3>2, <3>3, <3>4
  <2> QED BY <1>22, <2>1, <2>2, TableAlone
<1>28. MemoryInv'
  BY <1>1, <1>2, <1>3, <1>5, <1>20, <1>27 DEF MemoryInv
<1>29. ASSUME NEW i \in DOMAIN tab2, NEW j \in DOMAIN ints2
       PROVE  Rest(tab2[i]) \cap (ints2[j].lo..ints2[j].hi) = {}
  <2> SUFFICES ASSUME NEW x \in ints2[j].lo..ints2[j].hi PROVE x \notin Rest(tab2[i])
    OBVIOUS
  <2>1. (\E k \in DOMAIN ints : x \in ints[k].lo..ints[k].hi) /\ ~(x \in first.lo..last)
    BY <1>10, <1>21
  <2>2. tab2[i] = IF from[i] = 0 THEN new ELSE tab[from[i]]
    BY <1>22, <1>23
  <2>3. CASE from[i] = 0
    BY <1>17, <2>1, <2>2, <2>3
  <2>4. CASE from[i] # 0
    BY <1>8, <1>9, <1>22, <1>24, <2>1, <2>2, <2>4
  <2> QED BY <2>3, <2>4
<1>30. UntypedInv'
  <2>1. Separate(UsablePages, intervals)'
    BY <1>3, <1>4, <1>20, <1>21
  <2>2. (\A i \in DOMAIN untyped, j \in DOMAIN intervals :
           Rest(untyped[i]) \cap (intervals[j].lo..intervals[j].hi) = {})'
    BY <1>20, <1>29
  <2> QED BY <1>1, <1>2, <2>1, <2>2 DEF UntypedInv
<1>31. TypeInv'
  BY <1>1, <1>2 DEF TypeInv
<1> QED BY <1>1, <1>2, <1>28, <1>30, <1>31
        DEF Inv, InsertInv, ReserveInv, PdirInv, CopyInv, RunInv

LEMMA MemoryReadyInv ==
  ASSUME Inv, MemoryReady
  PROVE  Inv'
<1>1. /\ TypeInv /\ MemoryInv
      /\ UNCHANGED <<boot, at, lo, intervals, untyped, objects, proc, current, cr3, calls>>
      /\ pc' \in {"nomemory", "spare"}
  BY DEF Inv, MemoryReady
<1>2. MemoryInv'
  BY <1>1, SameBoot DEF MemoryInv
<1>3. TypeInv'
  BY <1>1 DEF TypeInv
<1> QED BY <1>1, <1>2, <1>3
        DEF Inv, InsertInv, ReserveInv, UntypedInv, PdirInv, CopyInv, RunInv

\* fatal, for want of memory: nothing else changes.
LEMMA HaltInv ==
  ASSUME Inv, Halt("nomemory")
  PROVE  Inv'
<1>1. /\ TypeInv /\ MemoryInv
      /\ UNCHANGED <<boot, at, lo, intervals, untyped, objects, proc, current, cr3, calls>>
      /\ pc' = "nomemory"
  BY DEF Inv, Halt
<1>2. MemoryInv'
  BY <1>1, SameBoot DEF MemoryInv
<1>3. TypeInv'
  BY <1>1 DEF TypeInv
<1> QED BY <1>1, <1>2, <1>3
        DEF Inv, InsertInv, ReserveInv, UntypedInv, PdirInv, CopyInv, RunInv

-----------------------------------------------------------------------------
(* The processes are set up.                                               *)

LEMMA PageTaken ==
  ASSUME NEW U \in SUBSET (Nat \ {0}), NEW tab, NEW objs,
         UsedOnce(U, tab, objs), MappedOnce(objs), ~Exhausted(Mem(tab, objs)),
         NEW o, Plain(o), NoEntries(o), NEW n, n = NewPage(Mem(tab, objs))
  PROVE  /\ n \in Nat /\ n \notin DOMAIN objs
         /\ \E tab2, objs2 :
              /\ AllocPage(Mem(tab, objs), o) = Mem(tab2, objs2) /\ objs2 = Extended(objs, n, o)
              /\ UsedOnce(U, tab2, objs2) /\ MappedOnce(objs2)
<1>1. PICK m : m = Mem(tab, objs)
  OBVIOUS
<1>2. m.untyped = tab /\ m.objects = objs
  BY <1>1 DEF Mem
<1>3. PICK m2 : m2 = AllocPage(m, o)
  OBVIOUS
<1>4. /\ n \in Nat /\ n \notin DOMAIN objs /\ m2.objects = Extended(objs, n, o)
      /\ UsedOnce(U, m2.untyped, m2.objects)
  BY <1>1, <1>2, <1>3, AllocPageFacts
<1>5. m2 = Mem(m2.untyped, m2.objects)
  BY <1>3 DEF AllocPage, Mem
<1>6. MappedOnce(m2.objects)
  BY <1>4, MappedExtended
<1> QED BY <1>1, <1>3, <1>4, <1>5, <1>6

\* Nothing happens to the capability spaces.
SpacesStay(objs, objs2) ==
  \A a \in DOMAIN objs : /\ a \in DOMAIN objs2 /\ objs2[a].kind = objs[a].kind
                         /\ objs[a].kind = "cspace" => objs2[a] = objs[a]

LEMMA ExtendedStays ==
  ASSUME NEW objs, NEW n, n \notin DOMAIN objs, NEW o
  PROVE  SpacesStay(objs, Extended(objs, n, o))
<1> PICK objs2 : objs2 = Extended(objs, n, o)
  OBVIOUS
<1>1. DOMAIN objs2 = DOMAIN objs \cup {n} /\ \A a \in DOMAIN objs : objs2[a] = objs[a]
  BY DEF Extended
<1> QED BY <1>1 DEF SpacesStay

LEMMA GrownStays ==
  ASSUME NEW objs, MappedOnce(objs), 0 \notin DOMAIN objs, NEW p \in PdirsOf(objs),
         NEW virt \in Addr, virt < KernelSpace, NEW objs2, Grown(objs, objs2, p, virt)
  PROVE  SpacesStay(objs, objs2)
<1>1. p \in DOMAIN objs /\ objs[p].kind = "pdir"
  BY DEF PdirsOf
<1>2. Entry(objs, p, virt) \in DOMAIN objs => objs[Entry(objs, p, virt)].kind = "ptab"
  BY EntryFacts DEF TablesOf
<1>3. ASSUME NEW a \in DOMAIN objs, objs[a].kind = "cspace" PROVE objs2[a] = objs[a]
  BY <1>1, <1>2, <1>3 DEF Grown
<1> QED BY <1>1, <1>2, <1>3 DEF Grown, SpacesStay

LEMMA LeadToStays ==
  ASSUME NEW objs, NEW objs2, SpacesStay(objs, objs2), NEW found \in SUBSET CspacesOf(objs),
         NEW there, LeadTo(objs, found, there)
  PROVE  found \in SUBSET CspacesOf(objs2) /\ LeadTo(objs2, found, there)
<1>1. \A c \in found : c \in CspacesOf(objs2) /\ objs2[c] = objs[c]
  BY DEF SpacesStay, CspacesOf
<1> QED BY <1>1 DEF LeadTo

SetUpIn(objs, pdir, cspace) ==
  /\ pdir \in PdirsOf(objs) /\ cspace \in CspacesOf(objs)
  /\ LeadTo(objs, {cspace}, {cspace})

LEMMA SetUpStays ==
  ASSUME NEW objs, NEW objs2, SpacesStay(objs, objs2), NEW pdir, NEW cspace,
         SetUpIn(objs, pdir, cspace)
  PROVE  SetUpIn(objs2, pdir, cspace)
<1>1. pdir \in PdirsOf(objs2)
  BY DEF SpacesStay, PdirsOf, SetUpIn
<1>2. PICK found : found = {cspace}
  OBVIOUS
<1>3. found \in SUBSET CspacesOf(objs) /\ LeadTo(objs, found, found)
  BY <1>2 DEF SetUpIn
<1>4. found \in SUBSET CspacesOf(objs2) /\ LeadTo(objs2, found, found)
  BY <1>3, LeadToStays
<1> QED BY <1>1, <1>2, <1>4 DEF SetUpIn

\* What the invariant says of the memory, in rigid variables.
LEMMA MemoryFacts ==
  ASSUME TypeInv, MemoryInv
  PROVE  \E U, tab, objs :
           /\ U \in SUBSET (Nat \ {0}) /\ U = Usable /\ tab = untyped /\ objs = objects /\ Memory = Mem(tab, objs)
           /\ UsedOnce(U, tab, objs) /\ MappedOnce(objs) /\ 0 \notin DOMAIN objs
           /\ objs \in [DOMAIN objs -> ObjectSet] /\ tab \in Seq(UntypedSet)
<1>1. Usable \in SUBSET (Nat \ {0})
  BY UsableFacts DEF TypeInv
<1>2. UsedOnce(Usable, untyped, objects) /\ MappedOnce(objects)
  BY DEF MemoryInv
<1>3. /\ 0 \notin DOMAIN objects /\ objects \in [DOMAIN objects -> ObjectSet]
      /\ untyped \in Seq(UntypedSet)
  BY <1>2 DEF UsedOnce, TypedMemory
<1>4. Memory = Mem(untyped, objects)
  BY DEF Memory, Mem
<1> QED BY <1>1, <1>2, <1>3, <1>4

LEMMA SparePageInv ==
  ASSUME Inv, SparePage
  PROVE  Inv'
<1>1. TypeInv /\ MemoryInv /\ pc = "spare"
  BY DEF Inv, SparePage
<1>2. CASE Exhausted(Memory)
  BY <1>2, HaltInv DEF SparePage
<1>3. CASE ~Exhausted(Memory)
  <2>1. /\ untyped' = AllocPage(Memory, Data).untyped
        /\ objects' = AllocPage(Memory, Data).objects
        /\ IF at < 3 THEN Again ELSE Go("pdir")
        /\ UNCHANGED <<boot, lo, intervals, proc, current, cr3, calls>>
    BY <1>3 DEF SparePage
  <2>2. PICK U, tab, objs :
          /\ U \in SUBSET (Nat \ {0}) /\ U = Usable /\ Memory = Mem(tab, objs)
          /\ UsedOnce(U, tab, objs) /\ MappedOnce(objs)
    BY <1>1, MemoryFacts
  <2>3. ~Exhausted(Mem(tab, objs)) /\ Plain(Data) /\ NoEntries(Data)
    BY <1>3, <2>2 DEF Plain, NoEntries, Data, ObjectSet
  <2>4. PICK n : n = NewPage(Mem(tab, objs))
    OBVIOUS
  <2>5. PICK tab2, objs2 :
          /\ AllocPage(Mem(tab, objs), Data) = Mem(tab2, objs2)
          /\ UsedOnce(U, tab2, objs2) /\ MappedOnce(objs2)
    BY <2>2, <2>3, <2>4, PageTaken
  <2>6. untyped' = tab2 /\ objects' = objs2
    BY <2>1, <2>2, <2>5 DEF Mem
  <2>7. MemoryInv'
    BY <2>1, <2>2, <2>5, <2>6, SameBoot DEF MemoryInv
  <2>8. (pc' = "spare" /\ at' = at + 1) \/ (pc' = "pdir" /\ at' = 1)
    BY <1>1, <2>1 DEF Again, Go
  <2>9. TypeInv'
    BY <1>1, <2>1, <2>8 DEF TypeInv
  <2>10. PdirInv'
    BY <2>8 DEF PdirInv
  <2> QED BY <2>7, <2>8, <2>9, <2>10 DEF Inv, InsertInv, ReserveInv, UntypedInv, CopyInv, RunInv
<1> QED BY <1>2, <1>3

LEMMA NewPdirInv ==
  ASSUME Inv, NewPdir
  PROVE  Inv'
<1>1. TypeInv /\ MemoryInv /\ pc = "pdir" /\ at \in 1..2 /\ (at = 2 => SetUp(0))
  BY DEF Inv, NewPdir, PdirInv
<1>2. CASE Exhausted(Memory)
  BY <1>2, HaltInv DEF NewPdir
<1>3. CASE ~Exhausted(Memory)
  <2>1. /\ untyped' = AllocPage(Memory, KernelPdir).untyped
        /\ objects' = AllocPage(Memory, KernelPdir).objects
        /\ proc' = [proc EXCEPT ![at - 1].pdir = NewPage(Memory)]
        /\ lo' = PageStart(UserCode.lo)
        /\ pc' = "copy"
        /\ UNCHANGED <<boot, at, intervals, current, cr3, calls>>
    BY <1>3 DEF NewPdir
  <2>2. PICK U, tab, objs :
          /\ U \in SUBSET (Nat \ {0}) /\ U = Usable /\ objs = objects /\ Memory = Mem(tab, objs)
          /\ UsedOnce(U, tab, objs) /\ MappedOnce(objs)
    BY <1>1, MemoryFacts
  <2>3. KernelPdir \in PdirSet /\ KernelPdir.kind = "pdir"
    BY KernelPdirFacts DEF KernelPdir
  <2>4. ~Exhausted(Mem(tab, objs)) /\ Plain(KernelPdir) /\ NoEntries(KernelPdir)
    BY <1>3, <2>2, <2>3 DEF Plain, NoEntries, ObjectSet
  <2>5. PICK n : n = NewPage(Mem(tab, objs))
    OBVIOUS
  <2>6. n \in Nat /\ n \notin DOMAIN objs
    BY <2>2, <2>4, <2>5, PageTaken
  <2>7. PICK tab2, objs2 :
          /\ AllocPage(Mem(tab, objs), KernelPdir) = Mem(tab2, objs2)
          /\ objs2 = Extended(objs, n, KernelPdir)
          /\ UsedOnce(U, tab2, objs2) /\ MappedOnce(objs2)
    BY <2>2, <2>4, <2>5, PageTaken
  <2>8. untyped' = tab2 /\ objects' = objs2
    BY <2>1, <2>2, <2>7 DEF Mem
  <2>9. MemoryInv'
    BY <2>1, <2>2, <2>7, <2>8, SameBoot DEF MemoryInv
  <2>10. SpacesStay(objs, objs2) /\ DOMAIN objs2 = DOMAIN objs \cup {n} /\ objs2[n] = KernelPdir
    <3>1. SpacesStay(objs, objs2)
      BY <2>6, <2>7, ExtendedStays
    <3>2. DOMAIN objs2 = DOMAIN objs \cup {n} /\ objs2[n] = KernelPdir
      BY <2>7 DEF Extended
    <3> QED BY <3>1, <3>2
  <2>11. PICK k \in Proc : k = at - 1
    BY <1>1 DEF Proc
  <2>12. proc \in [Proc -> [pdir : Nat, cspace : Nat]] /\ 0 \in Proc
    BY <1>1 DEF TypeInv, Proc
  <2>13. /\ proc' \in [Proc -> [pdir : Nat, cspace : Nat]]
         /\ proc'[k].pdir = n /\ \A q \in Proc : q # k => proc'[q] = proc[q]
    BY <2>1, <2>2, <2>5, <2>6, <2>11, <2>12
  <2>14. UserCode \in Spans /\ UserCode.lo \in Int
    BY <1>1, BootFacts, SpanFields DEF TypeInv
  <2>15. lo' \in Nat /\ Aligned(lo')
    BY <1>1, <2>1, <2>14, BootFacts, SpanFields, PageStartFacts DEF TypeInv
  <2>16. n \in PdirsOf(objs2)
    BY <2>3, <2>10 DEF PdirsOf
  <2>17. ASSUME NEW virt \in Addr, virt < KernelSpace PROVE ~Mapped(objs2, n, virt)
    BY <2>10, <2>17, KernelPdirFacts DEF Mapped, Entry
  <2>18. TypeInv'
    BY <1>1, <2>1, <2>13, <2>15 DEF TypeInv
  <2>19. ASSUME at = 2 PROVE SetUp(0)' /\ proc'[0].pdir # proc'[1].pdir
    <3>1. PICK pdir, cspace : pdir = proc[0].pdir /\ cspace = proc[0].cspace
      OBVIOUS
    <3>2. SetUpIn(objs, pdir, cspace)
      BY <1>1, <2>2, <2>19, <3>1 DEF SetUp, SetUpIn
    <3>3. SetUpIn(objs2, pdir, cspace)
      BY <2>10, <3>2, SetUpStays
    <3>4. k = 1 /\ proc'[0] = proc[0]
      BY <2>11, <2>12, <2>13, <2>19
    <3>5. pdir \in DOMAIN objs
      BY <3>2 DEF SetUpIn, PdirsOf
    <3> QED BY <2>6, <2>8, <2>13, <3>1, <3>3, <3>4, <3>5 DEF SetUp, SetUpIn
  <2>20. proc'[at' - 1].pdir = n /\ at' = at
    BY <2>1, <2>11, <2>13
  <2>21. CopyInv'
    BY <1>1, <2>8, <2>15, <2>16, <2>17, <2>19, <2>20 DEF CopyInv
  <2> QED BY <2>1, <2>9, <2>18, <2>21
          DEF Inv, InsertInv, ReserveInv, UntypedInv, PdirInv, RunInv
<1> QED BY <1>2, <1>3

\* mapPage never finds the address taken, when its callers have tested it.
LEMMA OutcomeFacts ==
  ASSUME TypeInv, MemoryInv, NEW p \in PdirsOf(objects), NEW virt \in Addr,
         virt < KernelSpace, ~Mapped(objects, p, virt)
  PROVE  /\ Outcome(p, virt) \in {"nomemory", "mapped"}
         /\ Outcome(p, virt) = "mapped" =>
              \E tab2, objs2 :
                /\ AddPage(p, virt) => untyped' = tab2 /\ objects' = objs2
                /\ UsedOnce(Usable, tab2, objs2) /\ MappedOnce(objs2)
                /\ Grown(objects, objs2, p, virt) /\ SpacesStay(objects, objs2)
<1>1. PICK U, tab, objs :
        /\ U \in SUBSET (Nat \ {0}) /\ U = Usable /\ objs = objects /\ Memory = Mem(tab, objs)
        /\ UsedOnce(U, tab, objs) /\ MappedOnce(objs) /\ 0 \notin DOMAIN objs
  BY MemoryFacts
<1>2. p \in PdirsOf(objs) /\ ~Mapped(objs, p, virt)
  BY <1>1
<1>3. PICK m1 : m1 = AllocPage(Mem(tab, objs), Data)
  OBVIOUS
<1>4. CASE Exhausted(Memory)
  BY <1>4 DEF Outcome
<1>5. CASE ~Exhausted(Memory)
  <2>1. ~Exhausted(Mem(tab, objs))
    BY <1>1, <1>5
  <2>2. PICK n : n = NewPage(Mem(tab, objs))
    OBVIOUS
  <2>3. n \notin DOMAIN objs /\ m1.objects = Extended(objs, n, Data)
    <3>1. Plain(Data) /\ NoEntries(Data)
      BY DEF Plain, NoEntries, Data, ObjectSet
    <3>2. n \notin DOMAIN objs
      BY <1>1, <2>1, <2>2, <3>1, PageTaken
    <3>3. PICK tab2, objs2 : m1 = Mem(tab2, objs2) /\ objs2 = Extended(objs, n, Data)
      BY <1>1, <1>3, <2>1, <2>2, <3>1, PageTaken
    <3> QED BY <3>2, <3>3 DEF Mem
  <2>4. PICK objs1 : objs1 = m1.objects
    OBVIOUS
  <2>5. \A a \in DOMAIN objs : objs1[a] = objs[a]
    BY <2>3, <2>4 DEF Extended
  <2>6. p \in DOMAIN objs
    BY <1>2 DEF PdirsOf
  <2>7. /\ Entry(objs, p, virt) # SuperPage
        /\ Entry(objs, p, virt) # 0 => Entry(objs, p, virt) \in DOMAIN objs
    BY <1>1, <1>2, EntryFacts DEF TablesOf
  <2>8. Entry(objs1, p, virt) = Entry(objs, p, virt)
    BY <2>5, <2>6 DEF Entry
  <2>9. Entry(objs1, p, virt) # 0 => PageEntry(objs1, p, virt) = 0
    BY <1>2, <2>5, <2>7, <2>8 DEF PageEntry, Mapped
  <2>10. ~MapFails(m1, p, virt)
    <3>1. ~(virt >= KernelSpace)
      BY SuperFacts, PageFacts DEF Addr
    <3> QED BY <2>4, <2>7, <2>8, <2>9, <3>1 DEF MapFails
  <2>11. Outcome(p, virt) = IF Entry(objs1, p, virt) = 0 /\ Exhausted(m1)
                            THEN "nomemory" ELSE "mapped"
    BY <1>1, <1>3, <1>5, <2>4, <2>10 DEF Outcome
  <2>12. CASE Entry(objs1, p, virt) = 0 /\ Exhausted(m1)
    BY <2>11, <2>12
  <2>13. CASE ~(Entry(objs1, p, virt) = 0 /\ Exhausted(m1))
    <3>1. Entry(m1.objects, p, virt) = 0 => ~Exhausted(m1)
      BY <2>4, <2>13
    <3>2. PICK tab2, objs2 :
            /\ MapPage(m1, p, virt, NewPage(Mem(tab, objs))) = Mem(tab2, objs2)
            /\ UsedOnce(U, tab2, objs2) /\ MappedOnce(objs2) /\ Grown(objs, objs2, p, virt)
      BY <1>1, <1>2, <1>3, <2>1, <3>1, PageMapped
    <3>3. AddPage(p, virt) => untyped' = tab2 /\ objects' = objs2
      BY <1>1, <1>3, <3>2 DEF AddPage, Mem
    <3>4. SpacesStay(objs, objs2)
      BY <1>1, <1>2, <3>2, GrownStays
    <3> QED BY <1>1, <2>11, <2>13, <3>2, <3>3, <3>4
  <2> QED BY <2>12, <2>13
<1> QED BY <1>4, <1>5

LEMMA CopyUserPageInv ==
  ASSUME Inv, CopyUserPage
  PROVE  Inv'
<1>1. /\ TypeInv /\ MemoryInv /\ pc = "copy" /\ lo < PageEnd(UserCode.hi)
      /\ at \in 1..2 /\ (at = 2 => SetUp(0) /\ proc[0].pdir # proc[1].pdir)
      /\ proc[at - 1].pdir \in PdirsOf(objects) /\ Aligned(lo)
      /\ \A virt \in Addr : lo <= virt /\ virt < KernelSpace =>
           ~Mapped(objects, proc[at - 1].pdir, virt)
  BY DEF Inv, CopyUserPage, CopyInv
<1>2. PICK p : p = proc[at - 1].pdir
  OBVIOUS
<1>3. PICK l \in Nat : l = lo
  BY <1>1 DEF TypeInv
<1>4. l \in Addr /\ l < KernelSpace
  <2>1. PICK h \in Addr : h = UserCode.hi /\ h < KernelSpace
    BY <1>1, BootFacts DEF TypeInv, Spans
  <2>2. PageStart(h) \in Nat /\ PageEnd(h) = PageStart(h) + PageLen - 1
        /\ PageStart(h) <= h /\ Aligned(PageStart(h)) /\ h \in Nat
    BY PageEndFacts, PageFacts DEF Addr
  <2>3. KernelSpace \in Nat /\ Aligned(KernelSpace)
    <3>1. /\ KernelSpace \in Int /\ Super \in Nat \ {0} /\ PageLen \in Nat \ {0}
          /\ KernelSpace % Super = 0 /\ Super % PageLen = 0
      BY SuperFacts, PageFacts
    <3>2. KernelSpace % PageLen = 0
      BY <3>1, MultipleOfMultiple, Zenon
    <3> QED BY <3>2, SuperFacts DEF Aligned
  <2>4. PageStart(h) < KernelSpace
    BY <2>1, <2>2, <2>3
  <2>5. PageStart(h) + PageLen <= KernelSpace
    BY <2>2, <2>3, <2>4, AlignedApart
  <2> QED BY <1>1, <1>3, <2>1, <2>2, <2>3, <2>5, SuperFacts, PageFacts DEF Addr
<1>5. p \in PdirsOf(objects) /\ ~Mapped(objects, p, l)
  BY <1>1, <1>2, <1>3, <1>4
<1>6. /\ Outcome(p, l) \in {"nomemory", "mapped"}
      /\ Outcome(p, l) = "mapped" =>
           \E tab2, objs2 :
             /\ AddPage(p, l) => untyped' = tab2 /\ objects' = objs2
             /\ UsedOnce(Usable, tab2, objs2) /\ MappedOnce(objs2)
             /\ Grown(objects, objs2, p, l) /\ SpacesStay(objects, objs2)
  BY <1>1, <1>4, <1>5, OutcomeFacts
<1>7. \/ Outcome(p, l) # "mapped" /\ Halt(Outcome(p, l))
      \/ /\ Outcome(p, l) = "mapped"
         /\ AddPage(p, l)
         /\ lo' = l + PageLen
         /\ UNCHANGED <<boot, pc, at, intervals, proc, current, cr3, calls>>
  BY <1>2, <1>3 DEF CopyUserPage
<1>8. CASE Outcome(p, l) # "mapped" /\ Halt(Outcome(p, l))
  BY <1>6, <1>8, HaltInv
<1>9. CASE /\ Outcome(p, l) = "mapped"
           /\ AddPage(p, l)
           /\ lo' = l + PageLen
           /\ UNCHANGED <<boot, pc, at, intervals, proc, current, cr3, calls>>
  <2>1. PICK tab2, objs2 :
          /\ untyped' = tab2 /\ objects' = objs2
          /\ UsedOnce(Usable, tab2, objs2) /\ MappedOnce(objs2)
          /\ Grown(objects, objs2, p, l) /\ SpacesStay(objects, objs2)
    BY <1>6, <1>9
  <2>2. MemoryInv'
    BY <1>9, <2>1, SameBoot DEF MemoryInv
  <2>3. l + PageLen \in Nat /\ Aligned(l + PageLen)
    <3>1. PICK P \in Nat : P = PageLen
      BY PageFacts
    <3>2. Aligned(l) /\ Aligned(P)
      BY <1>1, <1>3, <3>1, AlignedFacts
    <3> QED BY <3>1, <3>2, AlignedSum
  <2>4. TypeInv'
    BY <1>1, <1>9, <2>3 DEF TypeInv
  <2>5. p \in PdirsOf(objs2)
    BY <1>5, <2>1 DEF SpacesStay, PdirsOf
  <2>6. ASSUME NEW virt \in Addr, l + PageLen <= virt, virt < KernelSpace
        PROVE  ~Mapped(objs2, p, virt)
    <3> SUFFICES ASSUME Mapped(objs2, p, virt) PROVE FALSE
      OBVIOUS
    <3>1. PICK P \in Nat : P = PageLen
      BY PageFacts
    <3>2. virt \in Nat /\ l <= virt
      BY <2>6, <3>1, PageFacts DEF Addr
    <3>3. ~Mapped(objects, p, virt)
      BY <1>1, <1>2, <1>3, <2>6, <3>2
    <3>4. DirOf(virt) = DirOf(l) /\ IdxOf(virt) = IdxOf(l)
      BY <2>1, <2>6, <3>3 DEF Grown
    <3>5. virt < l + PageLen
      BY <1>4, <3>4, SameEntries
    <3> QED BY <2>6, <3>1, <3>2, <3>5
  <2>7. ASSUME at = 2 PROVE SetUp(0)' /\ proc'[0].pdir # proc'[1].pdir
    <3>1. PICK pdir, cspace : pdir = proc[0].pdir /\ cspace = proc[0].cspace
      OBVIOUS
    <3>2. PICK objs : objs = objects
      OBVIOUS
    <3>3. SetUpIn(objs, pdir, cspace) /\ SpacesStay(objs, objs2)
      BY <1>1, <2>1, <2>7, <3>1, <3>2 DEF SetUp, SetUpIn
    <3>4. SetUpIn(objs2, pdir, cspace)
      BY <3>3, SetUpStays
    <3> QED BY <1>1, <1>9, <2>1, <2>7, <3>1, <3>4 DEF SetUp, SetUpIn
  <2>8. proc'[at' - 1].pdir = p /\ at' = at /\ lo' = l + PageLen
    BY <1>2, <1>9
  <2>9. CopyInv'
    BY <1>1, <2>1, <2>3, <2>5, <2>6, <2>7, <2>8 DEF CopyInv
  <2> QED BY <1>1, <1>9, <2>2, <2>4, <2>9
          DEF Inv, InsertInv, ReserveInv, UntypedInv, PdirInv, RunInv
<1> QED BY <1>7, <1>8, <1>9

\* Only what is in capability spaces changes: nothing that is mapped does.
SpacesChange(objs, objs2) ==
  /\ DOMAIN objs2 = DOMAIN objs /\ objs2 \in [DOMAIN objs -> ObjectSet]
  /\ \A a \in DOMAIN objs : /\ objs2[a].kind = objs[a].kind
                            /\ objs[a].kind # "cspace" => objs2[a] = objs[a]

LEMMA SpacesChangeMapped ==
  ASSUME NEW objs, MappedOnce(objs), NEW objs2, SpacesChange(objs, objs2)
  PROVE  MappedOnce(objs2)
<1>1. /\ PdirsOf(objs2) = PdirsOf(objs) /\ TablesOf(objs2) = TablesOf(objs)
      /\ \A a \in PdirsOf(objs) \cup TablesOf(objs) : objs2[a] = objs[a]
      /\ DOMAIN objs2 = DOMAIN objs /\ \A a \in DOMAIN objs : objs2[a].kind = objs[a].kind
  BY DEF SpacesChange, PdirsOf, TablesOf
<1>2. EntriesOf(objs2) = EntriesOf(objs) /\ \A e \in EntriesOf(objs) : Pde(objs2, e) = Pde(objs, e)
  BY <1>1 DEF EntriesOf, Pde
<1>3. /\ PageEntriesOf(objs2) = PageEntriesOf(objs)
      /\ \A e \in PageEntriesOf(objs) : Pte(objs2, e) = Pte(objs, e)
  BY <1>1 DEF PageEntriesOf, Pte
<1>4. EntriesOnce(objs2)
  BY <1>1, <1>2 DEF MappedOnce, EntriesOnce
<1>5. PagesOnce(objs2)
  BY <1>1, <1>3 DEF MappedOnce, PagesOnce
<1>6. KernelMapped(objs2)
  BY <1>1 DEF MappedOnce, KernelMapped
<1> QED BY <1>4, <1>5, <1>6 DEF MappedOnce

LEMMA FirstCapsFacts ==
  ASSUME NEW p \in Proc, NEW c \in Nat, NEW tab \in Seq(UntypedSet),
         NEW caps, caps = FirstCaps(p, c, tab)
  PROVE  /\ caps \in [Slot -> CapSet]
         /\ \A s \in Slot : /\ caps[s].type = "cspace" => caps[s].cspace = c
                            /\ caps[s].type = "untyped" =>
                                 s = 3 /\ tab # <<>> /\ caps[s] = tab[1]
<1>1. Slot \subseteq Int
  BY CapsAssumption DEF Slot
<1>2. ASSUME NEW s \in Slot
      PROVE  \/ s = 0 /\ caps[s] = CspaceCap(c)
             \/ caps[s] \in {ConsoleCap, WindowCap(p), NullCap}
             \/ s = 3 /\ tab # <<>> /\ caps[s] = tab[1]
  <2>1. caps[s] = CASE s = 0 -> CspaceCap(c)
                    [] s = 1 /\ p = 0 -> ConsoleCap
                    [] s = 2 -> WindowCap(p)
                    [] s = 3 /\ tab # <<>> -> tab[1]
                    [] OTHER -> NullCap
    BY DEF FirstCaps, CspaceLoop
  <2> QED BY <1>1, <2>1
<1>3. tab # <<>> => tab[1] \in UntypedSet
  <2>1. tab # <<>> => 1 \in 1..Len(tab)
    OBVIOUS
  <2> QED BY <2>1, DomainOfSeq
<1>4. \A s \in Slot : caps[s] \in CapSet
  BY <1>2, <1>3, CapFields
<1>5. caps \in [Slot -> CapSet]
  BY <1>4 DEF FirstCaps
<1>6. ASSUME NEW s \in Slot
      PROVE  /\ caps[s].type = "cspace" => caps[s].cspace = c
             /\ caps[s].type = "untyped" => s = 3 /\ tab # <<>> /\ caps[s] = tab[1]
  <2>1. CASE s = 0 /\ caps[s] = CspaceCap(c)
    BY <2>1, CapFields
  <2>2. CASE caps[s] \in {ConsoleCap, WindowCap(p), NullCap}
    BY <2>2, CapFields
  <2>3. CASE s = 3 /\ tab # <<>> /\ caps[s] = tab[1]
    BY <1>3, <2>3, CapFields
  <2> QED BY <1>2, <2>1, <2>2, <2>3
<1> QED BY <1>5, <1>6

\* donateUntyped: the first block of the table goes to the new process, and
\* the kernel does not have it any more.
Filled(objs, c, caps) == [objs EXCEPT ![c].caps = caps]

LEMMA DonatedOnce ==
  ASSUME NEW U, NEW tab, NEW objs, UsedOnce(U, tab, objs), NEW p \in Proc, NEW c \in Nat,
         c \in DOMAIN objs, objs[c] = NullSpace,
         NEW objs2, objs2 = Filled(objs, c, FirstCaps(p, c, tab))
  PROVE  UsedOnce(U, Donated(tab), objs2) /\ SpacesChange(objs, objs2)
<1>1. TypedMemory(tab, objs) /\ tab \in Seq(UntypedSet) /\ objs \in [DOMAIN objs -> ObjectSet]
      /\ DOMAIN objs \subseteq Nat \ {0}
  BY DEF UsedOnce, TypedMemory
<1>2. PICK tab2 : tab2 = Donated(tab)
  OBVIOUS
<1>3. PICK caps : caps = FirstCaps(p, c, tab)
  OBVIOUS
<1>4. /\ caps \in [Slot -> CapSet]
      /\ \A s \in Slot : caps[s].type = "untyped" => s = 3 /\ tab # <<>> /\ caps[s] = tab[1]
  BY <1>1, <1>3, FirstCapsFacts
<1>5. /\ DOMAIN objs2 = DOMAIN objs /\ objs2[c] = [kind |-> "cspace", caps |-> caps]
      /\ \A a \in DOMAIN objs : a # c => objs2[a] = objs[a]
  BY <1>3 DEF NullSpace, Filled
<1>6. objs2[c] \in CspaceSet /\ objs2[c].kind = "cspace" /\ objs2[c].caps = caps
  BY <1>4, <1>5 DEF CspaceSet
<1>7. objs2 \in [DOMAIN objs -> ObjectSet]
  <2>1. objs2 = [a \in DOMAIN objs |-> objs2[a]]
    BY <1>5 DEF Filled
  <2>2. \A a \in DOMAIN objs : objs2[a] \in ObjectSet
    BY <1>1, <1>5, <1>6 DEF ObjectSet
  <2> QED BY <2>1, <2>2
<1>8. objs[c].kind = "cspace"
  BY DEF NullSpace
<1>9. SpacesChange(objs, objs2)
  BY <1>5, <1>6, <1>7, <1>8 DEF SpacesChange
<1>10. /\ tab2 \in Seq(UntypedSet) /\ (tab = <<>> => tab2 = <<>>)
       /\ tab # <<>> => Len(tab2) = Len(tab) - 1
                        /\ \A i \in 1..Len(tab) - 1 : tab2[i] = tab[i + 1]
  <2>1. CASE tab = <<>>
    BY <1>1, <1>2, <2>1 DEF Donated
  <2>2. CASE tab # <<>>
    <3>1. tab2 = Tail(tab)
      BY <1>2, <2>2 DEF Donated
    <3> QED BY <1>1, <2>2, <3>1
  <2> QED BY <2>1, <2>2
<1>11. TypedMemory(tab2, objs2)
  BY <1>1, <1>5, <1>7, <1>10 DEF TypedMemory
<1>12. PICK From : From = [h \in HoldersOf(tab2, objs2) |->
                             IF h[1] = 0 THEN <<0, h[2] + 1>>
                             ELSE IF h[1] = c THEN <<0, 1>> ELSE h]
  OBVIOUS
<1>13. ASSUME NEW h \in HoldersOf(tab2, objs2)
       PROVE  /\ From[h] \in HoldersOf(tab, objs)
              /\ HeldOf(tab2, objs2, h) = HeldOf(tab, objs, From[h])
              /\ h = IF From[h][1] # 0 THEN From[h]
                     ELSE IF From[h][2] = 1 THEN <<c, 3>> ELSE <<0, From[h][2] - 1>>
  <2>1. CASE h[1] = 0 /\ h[2] \in 1..Len(tab2) /\ h = <<0, h[2]>>
             /\ HeldOf(tab2, objs2, h) = Rest(tab2[h[2]])
    <3>1. tab # <<>>
      BY <1>10, <2>1
    <3>2. Len(tab) \in Nat /\ Len(tab2) = Len(tab) - 1
      BY <1>1, <1>10, <3>1, DomainOfSeq
    <3>3. PICK i \in 1..Len(tab) - 1 : i = h[2]
      BY <2>1, <3>2
    <3>4. From[h] = <<0, i + 1>> /\ i + 1 \in 1..Len(tab) /\ tab2[i] = tab[i + 1]
      BY <1>10, <1>12, <2>1, <3>1, <3>2, <3>3
    <3>5. PICK j \in 1..Len(tab) : j = i + 1
      BY <3>4
    <3>6. <<0, j>> \in HoldersOf(tab, objs) /\ HeldOf(tab, objs, <<0, j>>) = Rest(tab[j])
      BY <1>1, TableHolder
    <3> QED BY <2>1, <3>3, <3>4, <3>5, <3>6
  <2>2. CASE /\ h[1] # 0 /\ h[1] \in CspacesOf(objs2) /\ h[2] \in Slot /\ h = <<h[1], h[2]>>
             /\ objs2[h[1]].caps[h[2]] \in UntypedSet
             /\ HeldOf(tab2, objs2, h) = Rest(objs2[h[1]].caps[h[2]])
    <3>1. objs2[h[1]].caps[h[2]].type = "untyped"
      BY <2>2, CapFields
    <3>2. CASE h[1] = c
      <4>1. h[2] = 3 /\ tab # <<>> /\ HeldOf(tab2, objs2, h) = Rest(tab[1])
        BY <1>4, <1>6, <2>2, <3>1, <3>2
      <4>2. 1 \in 1..Len(tab)
        BY <1>1, <4>1
      <4>3. <<0, 1>> \in HoldersOf(tab, objs) /\ HeldOf(tab, objs, <<0, 1>>) = Rest(tab[1])
        BY <1>1, <4>2, TableHolder
      <4>4. From[h] = <<0, 1>>
        BY <1>12, <2>2, <3>2
      <4> QED BY <2>2, <3>2, <4>1, <4>3, <4>4
    <3>3. CASE h[1] # c
      <4>1. h[1] \in CspacesOf(objs) /\ objs2[h[1]] = objs[h[1]]
        BY <1>5, <2>2, <3>3 DEF CspacesOf
      <4>2. /\ <<h[1], h[2]>> \in HoldersOf(tab, objs)
            /\ HeldOf(tab, objs, <<h[1], h[2]>>) = Rest(objs[h[1]].caps[h[2]])
        <5>1. objs[h[1]].caps[h[2]].type = "untyped" /\ h[2] \in Slot
          BY <2>2, <3>1, <4>1
        <5> QED BY <1>1, <4>1, <5>1, SpaceHolder
      <4>3. From[h] = h
        BY <1>12, <2>2, <3>3
      <4> QED BY <2>2, <4>1, <4>2, <4>3
    <3> QED BY <3>2, <3>3
  <2>3. \/ /\ h[1] = 0 /\ h[2] \in 1..Len(tab2) /\ h = <<0, h[2]>>
           /\ HeldOf(tab2, objs2, h) = Rest(tab2[h[2]])
        \/ /\ h[1] # 0 /\ h[1] \in CspacesOf(objs2) /\ h[2] \in Slot /\ h = <<h[1], h[2]>>
           /\ objs2[h[1]].caps[h[2]] \in UntypedSet
           /\ HeldOf(tab2, objs2, h) = Rest(objs2[h[1]].caps[h[2]])
    BY <1>11, HolderFacts
  <2> QED BY <2>1, <2>2, <2>3
<1>14. From \in [HoldersOf(tab2, objs2) -> HoldersOf(tab, objs)]
  BY <1>12, <1>13
<1>15. \A h \in HoldersOf(tab2, objs2) : HeldOf(tab2, objs2, h) \subseteq HeldOf(tab, objs, From[h])
  BY <1>13
<1>16. \A g, h \in HoldersOf(tab2, objs2) : g # h /\ From[g] = From[h] =>
         HeldOf(tab2, objs2, g) \cap HeldOf(tab2, objs2, h) = {}
  <2> SUFFICES ASSUME NEW g \in HoldersOf(tab2, objs2), NEW h \in HoldersOf(tab2, objs2),
                      From[g] = From[h]
               PROVE  g = h
    OBVIOUS
  <2>1. PICK f : f = From[g]
    OBVIOUS
  <2>2. /\ g = IF f[1] # 0 THEN f ELSE IF f[2] = 1 THEN <<c, 3>> ELSE <<0, f[2] - 1>>
        /\ h = IF f[1] # 0 THEN f ELSE IF f[2] = 1 THEN <<c, 3>> ELSE <<0, f[2] - 1>>
    BY <1>13, <2>1
  <2> QED BY <2>2
<1>17. DOMAIN objs2 \ DOMAIN objs = {}
  BY <1>5
<1>18. UsedOnce(U, tab2, objs2)
  BY <1>11, <1>14, <1>15, <1>16, <1>17, UsedOnceKept
<1> QED BY <1>2, <1>9, <1>18

LEMMA NewCspaceInv ==
  ASSUME Inv, NewCspace
  PROVE  Inv'
<1>1. /\ TypeInv /\ MemoryInv /\ pc = "copy"
      /\ at \in 1..2 /\ (at = 2 => SetUp(0) /\ proc[0].pdir # proc[1].pdir)
      /\ proc[at - 1].pdir \in PdirsOf(objects)
  BY DEF Inv, NewCspace, CopyInv
<1>2. CASE Exhausted(Memory)
  BY <1>2, HaltInv DEF NewCspace
<1>3. CASE ~Exhausted(Memory)
  <2>1. PICK k \in Proc : k = at - 1
    BY <1>1 DEF Proc
  <2>2. PICK U, tab, objs :
          /\ U \in SUBSET (Nat \ {0}) /\ U = Usable /\ objs = objects /\ Memory = Mem(tab, objs)
          /\ UsedOnce(U, tab, objs) /\ MappedOnce(objs)
    BY <1>1, MemoryFacts
  <2>3. ~Exhausted(Mem(tab, objs)) /\ Plain(NullSpace) /\ NoEntries(NullSpace)
    <3>1. NullSpace \in CspaceSet
      BY CapFields DEF NullSpace, CspaceSet
    <3>2. NullSpace.kind = "cspace" /\ \A s \in Slot : NullSpace.caps[s].type # "untyped"
      BY CapFields DEF NullSpace
    <3> QED BY <1>3, <2>2, <3>1, <3>2 DEF Plain, NoEntries, ObjectSet
  <2>4. PICK c : c = NewPage(Mem(tab, objs))
    OBVIOUS
  <2>5. c \in Nat /\ c \notin DOMAIN objs
    BY <2>2, <2>3, <2>4, PageTaken
  <2>6. PICK tab1, objs1 :
          /\ AllocPage(Mem(tab, objs), NullSpace) = Mem(tab1, objs1)
          /\ objs1 = Extended(objs, c, NullSpace)
          /\ UsedOnce(U, tab1, objs1) /\ MappedOnce(objs1)
    BY <2>2, <2>3, <2>4, PageTaken
  <2>7. PICK caps : caps = FirstCaps(k, c, tab1)
    OBVIOUS
  <2>8. PICK objs2 : objs2 = Filled(objs1, c, FirstCaps(k, c, tab1))
    OBVIOUS
  <2>9. PICK tab2 : tab2 = Donated(tab1)
    OBVIOUS
  <2>10. /\ objects' = objs2 /\ untyped' = tab2
         /\ proc' = [proc EXCEPT ![k].cspace = c]
         /\ IF k = 0
            THEN pc' = "pdir" /\ at' = at + 1 /\ UNCHANGED <<current, cr3>>
            ELSE Go("run") /\ current' = 0 /\ cr3' = proc[0].pdir
         /\ UNCHANGED <<boot, lo, intervals, calls>>
    <3> PICK m : m = AllocPage(Memory, NullSpace)
      OBVIOUS
    <3>1. m = Mem(tab1, objs1) /\ NewPage(Memory) = c
      BY <2>2, <2>4, <2>6
    <3>2. m.untyped = tab1 /\ m.objects = objs1
      BY <3>1 DEF Mem
    <3>3. /\ objects' = [m.objects EXCEPT ![c].caps = FirstCaps(k, c, m.untyped)]
          /\ untyped' = Donated(m.untyped)
          /\ proc' = [proc EXCEPT ![k].cspace = c]
          /\ IF k = 0
             THEN pc' = "pdir" /\ at' = at + 1 /\ UNCHANGED <<current, cr3>>
             ELSE Go("run") /\ current' = 0 /\ cr3' = proc[0].pdir
          /\ UNCHANGED <<boot, lo, intervals, calls>>
      BY <1>3, <2>1, <3>1 DEF NewCspace
    <3> QED BY <2>8, <2>9, <3>2, <3>3 DEF Filled
  <2>11. c \in DOMAIN objs1 /\ objs1[c] = NullSpace /\ SpacesStay(objs, objs1)
    <3>1. SpacesStay(objs, objs1)
      BY <2>5, <2>6, ExtendedStays
    <3>2. c \in DOMAIN objs1 /\ objs1[c] = NullSpace
      BY <2>6 DEF Extended
    <3> QED BY <3>1, <3>2
  <2>12. UsedOnce(U, tab2, objs2) /\ SpacesChange(objs1, objs2)
    BY <2>5, <2>6, <2>8, <2>9, <2>11, DonatedOnce
  <2>13. MappedOnce(objs2)
    BY <2>6, <2>12, SpacesChangeMapped
  <2>14. MemoryInv'
    BY <2>2, <2>10, <2>12, <2>13, SameBoot DEF MemoryInv
  <2>15. tab1 \in Seq(UntypedSet)
    BY <2>6 DEF UsedOnce, TypedMemory
  <2>16. \A s \in Slot : caps[s].type = "cspace" => caps[s].cspace = c
    BY <2>5, <2>7, <2>15, FirstCapsFacts
  <2>17. /\ objs2[c].kind = "cspace" /\ objs2[c].caps = caps /\ DOMAIN objs2 = DOMAIN objs1
         /\ \A a \in DOMAIN objs1 : a # c => objs2[a] = objs1[a]
    BY <2>7, <2>8, <2>11 DEF Filled, NullSpace
  <2>18. SpacesStay(objs, objs2)
    BY <2>5, <2>11, <2>17 DEF SpacesStay
  <2>19. c \in CspacesOf(objs2) /\ LeadTo(objs2, {c}, {c})
    BY <2>11, <2>16, <2>17 DEF CspacesOf, LeadTo
  <2>20. proc \in [Proc -> [pdir : Nat, cspace : Nat]] /\ 0 \in Proc /\ 1 \in Proc
    BY <1>1 DEF TypeInv, Proc
  <2>21. /\ proc' \in [Proc -> [pdir : Nat, cspace : Nat]] /\ proc'[k].cspace = c
         /\ \A q \in Proc : proc'[q].pdir = proc[q].pdir /\ (q # k => proc'[q] = proc[q])
    BY <2>5, <2>10, <2>20
  <2>22. TypeInv'
    BY <1>1, <2>1, <2>10, <2>21 DEF TypeInv, Go, Proc
  <2>23. PICK pdir : pdir = proc[k].pdir
    OBVIOUS
  <2>24. pdir \in PdirsOf(objs2)
    BY <1>1, <2>1, <2>2, <2>18, <2>23 DEF SpacesStay, PdirsOf
  <2>25. CASE k = 0
    <3>1. pc' = "pdir" /\ at' = 2
      BY <2>1, <2>10, <2>25, <1>1
    <3>2. SetUp(0)'
      BY <2>10, <2>19, <2>21, <2>20, <2>23, <2>24, <2>25 DEF SetUp
    <3>3. PdirInv'
      BY <3>1, <3>2 DEF PdirInv
    <3> QED BY <2>14, <2>22, <3>1, <3>3
            DEF Inv, InsertInv, ReserveInv, UntypedInv, CopyInv, RunInv
  <2>26. CASE k # 0
    <3>1. k = 1 /\ at = 2 /\ pc' = "run" /\ current' = 0 /\ cr3' = proc[0].pdir
      BY <1>1, <2>1, <2>10, <2>26 DEF Go
    <3>2. PICK pdir0, c0 : pdir0 = proc[0].pdir /\ c0 = proc[0].cspace
      OBVIOUS
    <3>3. SetUpIn(objs, pdir0, c0)
      BY <1>1, <2>2, <3>1, <3>2 DEF SetUp, SetUpIn
    <3>4. SetUpIn(objs2, pdir0, c0)
      BY <2>18, <3>3, SetUpStays
    <3>5. c0 # c
      BY <2>5, <3>3 DEF SetUpIn, CspacesOf
    <3>6. PICK R : R = [q \in Proc |-> IF q = 0 THEN {c0} ELSE {c}]
      OBVIOUS
    <3>7. R[0] = {c0} /\ R[1] = {c} /\ \A q \in Proc : q = 0 \/ q = 1
      BY <2>20, <3>6 DEF Proc
    <3>8. R \in [Proc -> SUBSET CspacesOf(objs2)]
      BY <2>19, <3>4, <3>6 DEF SetUpIn
    <3>9. proc'[0].cspace = c0 /\ proc'[1].cspace = c /\ proc'[0].pdir = pdir0
          /\ proc'[1].pdir = pdir /\ pdir0 # pdir
      BY <1>1, <2>20, <2>21, <2>23, <3>1, <3>2
    <3>10. \A q \in Proc : LeadTo(objs2, R[q], R[q])
      BY <2>19, <3>4, <3>7 DEF SetUpIn
    <3>11. Parted(R)'
      BY <2>10, <3>5, <3>7, <3>8, <3>9, <3>10 DEF Parted
    <3>12. RunInv'
      <4>1. \A q \in Proc : proc'[q].pdir \in PdirsOf(objs2)
        BY <2>24, <3>4, <3>7, <3>9 DEF SetUpIn
      <4>2. cr3' = proc'[current'].pdir /\ proc'[0].pdir # proc'[1].pdir
        BY <3>1, <3>2, <3>9
      <4> QED BY <2>10, <3>8, <3>11, <4>1, <4>2 DEF RunInv
    <3> QED BY <2>14, <2>22, <3>1, <3>12
            DEF Inv, InsertInv, ReserveInv, UntypedInv, CopyInv, PdirInv
  <2> QED BY <2>25, <2>26
<1> QED BY <1>2, <1>3

-----------------------------------------------------------------------------
(* System calls: capabilities move, and shrink.                            *)

CapAt(objs, e) == objs[e[1]].caps[e[2]]

\* Memory stays used once when each capability to untyped memory is a part of
\* one that there was, and two that are parts of the same are apart.
CapsFrom(objs, objs2, from) ==
  /\ from \in [CspacesOf(objs) \X Slot -> CspacesOf(objs) \X Slot]
  /\ \A e \in CspacesOf(objs) \X Slot : CapAt(objs2, e).type = "untyped" =>
       /\ CapAt(objs, from[e]).type = "untyped"
       /\ Rest(CapAt(objs2, e)) \subseteq Rest(CapAt(objs, from[e]))
  /\ \A e, f \in CspacesOf(objs) \X Slot :
       (/\ CapAt(objs2, e).type = "untyped" /\ CapAt(objs2, f).type = "untyped"
        /\ e # f /\ from[e] = from[f])
       => Rest(CapAt(objs2, e)) \cap Rest(CapAt(objs2, f)) = {}

LEMMA CapsMoved ==
  ASSUME NEW U, NEW tab, NEW objs, UsedOnce(U, tab, objs), NEW objs2, SpacesChange(objs, objs2),
         NEW from, CapsFrom(objs, objs2, from)
  PROVE  UsedOnce(U, tab, objs2)
<1>1. TypedMemory(tab, objs)
  BY DEF UsedOnce
<1>2. TypedMemory(tab, objs2)
  BY <1>1 DEF TypedMemory, SpacesChange
<1>3. CspacesOf(objs2) = CspacesOf(objs) /\ DOMAIN objs2 = DOMAIN objs
  BY DEF SpacesChange, CspacesOf
<1>4. PICK From : From = [h \in HoldersOf(tab, objs2) |-> IF h[1] = 0 THEN h ELSE from[h]]
  OBVIOUS
<1>5. ASSUME NEW h \in HoldersOf(tab, objs2)
      PROVE  /\ From[h] \in HoldersOf(tab, objs)
             /\ HeldOf(tab, objs2, h) \subseteq HeldOf(tab, objs, From[h])
             /\ h[1] = 0 => From[h] = h
             /\ h[1] # 0 => /\ From[h][1] # 0 /\ From[h] = from[h]
                            /\ h \in CspacesOf(objs) \X Slot /\ CapAt(objs2, h).type = "untyped"
                            /\ HeldOf(tab, objs2, h) = Rest(CapAt(objs2, h))
  <2>1. CASE h[1] = 0 /\ h[2] \in 1..Len(tab) /\ h = <<0, h[2]>>
             /\ HeldOf(tab, objs2, h) = Rest(tab[h[2]])
    <3>1. /\ <<0, h[2]>> \in HoldersOf(tab, objs)
          /\ HeldOf(tab, objs, <<0, h[2]>>) = Rest(tab[h[2]])
      BY <1>1, <2>1, TableHolder
    <3> QED BY <1>4, <2>1, <3>1
  <2>2. CASE /\ h[1] # 0 /\ h[1] \in CspacesOf(objs2) /\ h[2] \in Slot /\ h = <<h[1], h[2]>>
             /\ objs2[h[1]].caps[h[2]] \in UntypedSet
             /\ HeldOf(tab, objs2, h) = Rest(objs2[h[1]].caps[h[2]])
    <3>1. h \in CspacesOf(objs) \X Slot
      BY <1>3, <2>2
    <3>2. CapAt(objs2, h).type = "untyped" /\ HeldOf(tab, objs2, h) = Rest(CapAt(objs2, h))
      BY <2>2, CapFields DEF CapAt
    <3>3. PICK g \in CspacesOf(objs) \X Slot : g = from[h]
      BY <3>1 DEF CapsFrom
    <3>4. /\ CapAt(objs, g).type = "untyped"
          /\ Rest(CapAt(objs2, h)) \subseteq Rest(CapAt(objs, g))
      BY <3>1, <3>2, <3>3 DEF CapsFrom
    <3>5. g[1] \in CspacesOf(objs) /\ g[2] \in Slot /\ g = <<g[1], g[2]>>
          /\ objs[g[1]].caps[g[2]].type = "untyped"
      BY <3>3, <3>4 DEF CapAt
    <3>6. /\ <<g[1], g[2]>> \in HoldersOf(tab, objs)
          /\ HeldOf(tab, objs, <<g[1], g[2]>>) = Rest(objs[g[1]].caps[g[2]])
      BY <1>1, <3>5, SpaceHolder
    <3>7. g[1] # 0
      BY <1>1, <3>5 DEF TypedMemory, CspacesOf
    <3>8. From[h] = g
      BY <1>4, <2>2, <3>3
    <3> QED BY <2>2, <3>1, <3>2, <3>3, <3>4, <3>5, <3>6, <3>7, <3>8 DEF CapAt
  <2>3. \/ /\ h[1] = 0 /\ h[2] \in 1..Len(tab) /\ h = <<0, h[2]>>
           /\ HeldOf(tab, objs2, h) = Rest(tab[h[2]])
        \/ /\ h[1] # 0 /\ h[1] \in CspacesOf(objs2) /\ h[2] \in Slot /\ h = <<h[1], h[2]>>
           /\ objs2[h[1]].caps[h[2]] \in UntypedSet
           /\ HeldOf(tab, objs2, h) = Rest(objs2[h[1]].caps[h[2]])
    BY <1>2, HolderFacts
  <2> QED BY <2>1, <2>2, <2>3
<1>6. From \in [HoldersOf(tab, objs2) -> HoldersOf(tab, objs)]
  BY <1>4, <1>5
<1>7. \A h \in HoldersOf(tab, objs2) : HeldOf(tab, objs2, h) \subseteq HeldOf(tab, objs, From[h])
  BY <1>5
<1>8. \A g, h \in HoldersOf(tab, objs2) : g # h /\ From[g] = From[h] =>
        HeldOf(tab, objs2, g) \cap HeldOf(tab, objs2, h) = {}
  <2> SUFFICES ASSUME NEW g \in HoldersOf(tab, objs2), NEW h \in HoldersOf(tab, objs2),
                      g # h, From[g] = From[h]
               PROVE  HeldOf(tab, objs2, g) \cap HeldOf(tab, objs2, h) = {}
    OBVIOUS
  <2>1. g[1] # 0 /\ h[1] # 0
    BY <1>5
  <2>2. /\ g \in CspacesOf(objs) \X Slot /\ CapAt(objs2, g).type = "untyped"
        /\ h \in CspacesOf(objs) \X Slot /\ CapAt(objs2, h).type = "untyped"
        /\ HeldOf(tab, objs2, g) = Rest(CapAt(objs2, g))
        /\ HeldOf(tab, objs2, h) = Rest(CapAt(objs2, h)) /\ from[g] = from[h]
    BY <1>5, <2>1
  <2> QED BY <2>2 DEF CapsFrom
<1>9. DOMAIN objs2 \ DOMAIN objs = {}
  BY <1>3
<1> QED BY <1>2, <1>6, <1>7, <1>8, <1>9, UsedOnceKept

SetCap(objs, c, s, cap) == [objs EXCEPT ![c].caps[s] = cap]

\* Two different slots are written.
TwoSet(objs, objs2, c1, s1, v1, c2, s2, v2) ==
  /\ \A c \in CspacesOf(objs), s \in Slot :
       objs2[c].caps[s] = IF c = c1 /\ s = s1 THEN v1
                          ELSE IF c = c2 /\ s = s2 THEN v2 ELSE objs[c].caps[s]
  /\ \A a \in DOMAIN objs : a # c1 /\ a # c2 => objs2[a] = objs[a]

LEMMA SetTwoCaps ==
  ASSUME NEW objs, objs \in [DOMAIN objs -> ObjectSet],
         NEW c1 \in CspacesOf(objs), NEW s1 \in Slot, NEW v1 \in CapSet,
         NEW c2 \in CspacesOf(objs), NEW s2 \in Slot, NEW v2 \in CapSet,
         <<c1, s1>> # <<c2, s2>>,
         NEW objs2, objs2 = SetCap(SetCap(objs, c1, s1, v1), c2, s2, v2)
  PROVE  SpacesChange(objs, objs2) /\ TwoSet(objs, objs2, c1, s1, v1, c2, s2, v2)
<1>1. ASSUME NEW ob, ob \in [DOMAIN ob -> ObjectSet], NEW c \in CspacesOf(ob), NEW s \in Slot,
             NEW v \in CapSet, NEW ob2, ob2 = SetCap(ob, c, s, v)
      PROVE  /\ DOMAIN ob2 = DOMAIN ob /\ ob2 \in [DOMAIN ob2 -> ObjectSet]
             /\ \A a \in DOMAIN ob : ob2[a].kind = ob[a].kind /\ (a # c => ob2[a] = ob[a])
             /\ \A t \in Slot : ob2[c].caps[t] = IF t = s THEN v ELSE ob[c].caps[t]
  <2>1. c \in DOMAIN ob /\ ob[c].kind = "cspace"
    BY DEF CspacesOf
  <2>2. ob[c] \in CspaceSet
    BY <1>1, <2>1, ObjectFields
  <2>3. PICK o : o = [ob[c] EXCEPT !.caps[s] = v]
    OBVIOUS
  <2>4. /\ o \in CspaceSet /\ o.kind = "cspace"
        /\ \A t \in Slot : o.caps[t] = IF t = s THEN v ELSE ob[c].caps[t]
    BY <2>2, <2>3 DEF CspaceSet
  <2>5. ob2 = [ob EXCEPT ![c] = o]
    BY <1>1, <2>3 DEF SetCap
  <2>6. ob2 \in [DOMAIN ob -> ObjectSet]
    BY <1>1, <2>1, <2>4, <2>5 DEF ObjectSet
  <2> QED BY <2>1, <2>4, <2>5, <2>6
<1>2. PICK objs1 : objs1 = SetCap(objs, c1, s1, v1)
  OBVIOUS
<1>3. /\ DOMAIN objs1 = DOMAIN objs /\ objs1 \in [DOMAIN objs1 -> ObjectSet]
      /\ \A a \in DOMAIN objs : objs1[a].kind = objs[a].kind /\ (a # c1 => objs1[a] = objs[a])
      /\ \A t \in Slot : objs1[c1].caps[t] = IF t = s1 THEN v1 ELSE objs[c1].caps[t]
  BY <1>1, <1>2
<1>4. c2 \in CspacesOf(objs1)
  BY <1>3 DEF CspacesOf
<1>5. /\ DOMAIN objs2 = DOMAIN objs1 /\ objs2 \in [DOMAIN objs2 -> ObjectSet]
      /\ \A a \in DOMAIN objs1 : objs2[a].kind = objs1[a].kind /\ (a # c2 => objs2[a] = objs1[a])
      /\ \A t \in Slot : objs2[c2].caps[t] = IF t = s2 THEN v2 ELSE objs1[c2].caps[t]
  BY <1>1, <1>2, <1>3, <1>4
<1>6. \A a \in DOMAIN objs : objs2[a].kind = objs[a].kind
                             /\ (a # c1 /\ a # c2 => objs2[a] = objs[a])
  BY <1>3, <1>5
<1>7. SpacesChange(objs, objs2)
  BY <1>3, <1>5, <1>6 DEF SpacesChange, CspacesOf
<1>8. ASSUME NEW c \in CspacesOf(objs), NEW s \in Slot
      PROVE  objs2[c].caps[s] = IF c = c1 /\ s = s1 THEN v1
                                ELSE IF c = c2 /\ s = s2 THEN v2 ELSE objs[c].caps[s]
  <2>1. c \in DOMAIN objs
    BY DEF CspacesOf
  <2>2. objs1[c].caps[s] = IF c = c1 /\ s = s1 THEN v1 ELSE objs[c].caps[s]
    BY <1>3, <2>1
  <2>3. objs2[c].caps[s] = IF c = c2 /\ s = s2 THEN v2 ELSE objs1[c].caps[s]
    BY <1>3, <1>5, <2>1
  <2> QED BY <2>2, <2>3
<1> QED BY <1>6, <1>7, <1>8 DEF TwoSet

\* What was free, and what was moved to it, of a capability that is not
\* copied when it is to untyped memory.
LEMMA CapMoveKeeps ==
  ASSUME NEW U, NEW tab, NEW objs, UsedOnce(U, tab, objs),
         NEW c1 \in CspacesOf(objs), NEW s \in Slot, NEW c2 \in CspacesOf(objs), NEW d \in Slot,
         NEW src, src = objs[c1].caps[s], src # NullCap, objs[c2].caps[d] = NullCap,
         NEW left, (left = src /\ src.type # "untyped") \/ left = NullCap,
         NEW objs2, objs2 = SetCap(SetCap(objs, c2, d, src), c1, s, left)
  PROVE  /\ UsedOnce(U, tab, objs2) /\ SpacesChange(objs, objs2)
         /\ TwoSet(objs, objs2, c2, d, src, c1, s, left)
<1>1. objs \in [DOMAIN objs -> ObjectSet]
  BY DEF UsedOnce, TypedMemory
<1>2. <<c2, d>> # <<c1, s>>
  OBVIOUS
<1>3. src \in CapSet
  <2>1. c1 \in DOMAIN objs /\ objs[c1].kind = "cspace"
    BY DEF CspacesOf
  <2>2. objs[c1].caps \in [Slot -> CapSet]
    BY <1>1, <2>1, ObjectFields
  <2> QED BY <2>2
<1>4. left \in CapSet /\ left.type # "untyped"
  BY <1>3, CapFields
<1>5. SpacesChange(objs, objs2) /\ TwoSet(objs, objs2, c2, d, src, c1, s, left)
  BY <1>1, <1>2, <1>3, <1>4, SetTwoCaps
<1>6. PICK from : from = [e \in CspacesOf(objs) \X Slot |-> IF e = <<c2, d>> THEN <<c1, s>> ELSE e]
  OBVIOUS
<1>7. from \in [CspacesOf(objs) \X Slot -> CspacesOf(objs) \X Slot]
  BY <1>6
<1>8. ASSUME NEW e \in CspacesOf(objs) \X Slot, CapAt(objs2, e).type = "untyped"
      PROVE  CapAt(objs2, e) = CapAt(objs, from[e]) /\ e # <<c1, s>>
  <2>1. e[1] \in CspacesOf(objs) /\ e[2] \in Slot /\ e = <<e[1], e[2]>>
    OBVIOUS
  <2>2. CapAt(objs2, e) = IF e = <<c2, d>> THEN src
                          ELSE IF e = <<c1, s>> THEN left ELSE CapAt(objs, e)
    <3>1. (e = <<c2, d>>) = (e[1] = c2 /\ e[2] = d)
      BY <2>1
    <3>2. (e = <<c1, s>>) = (e[1] = c1 /\ e[2] = s)
      BY <2>1
    <3> QED BY <1>5, <2>1, <3>1, <3>2 DEF CapAt, TwoSet
  <2>3. e # <<c1, s>>
    BY <1>2, <1>4, <1>8, <2>2
  <2> QED BY <1>6, <2>2, <2>3 DEF CapAt
<1>9. CapsFrom(objs, objs2, from)
  <2>1. \A e, f \in CspacesOf(objs) \X Slot :
          CapAt(objs2, e).type = "untyped" /\ CapAt(objs2, f).type = "untyped"
          /\ from[e] = from[f] => e = f
    BY <1>6, <1>8
  <2> QED BY <1>7, <1>8, <2>1 DEF CapsFrom
<1>10. UsedOnce(U, tab, objs2)
  BY <1>5, <1>9, CapsMoved
<1> QED BY <1>5, <1>10

\* What a system call may change: objects of the caller.
OwnChange(objs, objs2, mine, p) ==
  /\ DOMAIN objs \subseteq DOMAIN objs2
  /\ \A a \in DOMAIN objs : objs2[a].kind = objs[a].kind
  /\ \A a \in DOMAIN objs :
       a \notin mine /\ a # p /\ (\A d \in Dirs : objs[p].pde[d] # a) => objs2[a] = objs[a]
CallersChange(R) == OwnChange(objects, objects', R[current], proc[current].pdir)

LEMMA RunFacts ==
  ASSUME Inv, pc = "run", NEW R, Parted(R)
  PROVE  \E U, tab, objs, mine, own :
           /\ U \in SUBSET (Nat \ {0}) /\ U = Usable /\ tab = untyped /\ objs = objects
           /\ UsedOnce(U, tab, objs) /\ MappedOnce(objs)
           /\ mine = R[current] /\ mine \in SUBSET CspacesOf(objs) /\ LeadTo(objs, mine, mine)
           /\ own = proc[current].cspace /\ own \in mine
<1>1. TypeInv /\ MemoryInv /\ current \in Proc
  BY DEF Inv, TypeInv
<1>2. /\ R[current] \in SUBSET CspacesOf(objects)
      /\ LeadTo(objects, R[current], R[current]) /\ proc[current].cspace \in R[current]
  BY <1>1 DEF Parted
<1> QED BY <1>1, <1>2, MemoryFacts

\* A step in user mode.
LEMMA RunStep ==
  ASSUME Inv, pc = "run", pc' = "run", UNCHANGED <<boot, at, lo, proc>>,
         current' \in Proc, cr3' = proc[current'].pdir,
         MemoryInv', PdirsOf(objects) \subseteq PdirsOf(objects'),
         NEW R, Parted(R)'
  PROVE  Inv'
<1>1. TypeInv /\ TypeInv'
  BY DEF Inv, TypeInv
<1>2. R \in [Proc -> SUBSET CspacesOf(objects')]
  BY DEF Parted
<1>3. /\ \A p \in Proc : proc[p].pdir \in PdirsOf(objects)
      /\ proc[0].pdir # proc[1].pdir
  BY DEF Inv, RunInv
<1>4. RunInv'
  BY <1>2, <1>3 DEF RunInv
<1> QED BY <1>1, <1>4 DEF Inv, InsertInv, ReserveInv, UntypedInv, PdirInv, CopyInv

LEMMA CapMoveInv ==
  ASSUME Inv, NEW R, Parted(R), NEW i \in Slot, NEW s \in Slot, NEW j \in Slot, NEW d \in Slot,
         NEW copy \in BOOLEAN, CapMove(i, s, j, d, copy)
  PROVE  Inv' /\ CallersChange(R)
<1>1. /\ pc = "run" /\ pc' = "run" /\ untyped' = untyped
      /\ UNCHANGED <<boot, at, lo, intervals, proc, current, cr3>>
  BY DEF CapMove, InUserMode, Called
<1>2. PICK U, tab, objs, mine, own :
        /\ U \in SUBSET (Nat \ {0}) /\ U = Usable /\ tab = untyped /\ objs = objects
        /\ UsedOnce(U, tab, objs) /\ MappedOnce(objs)
        /\ mine = R[current] /\ mine \in SUBSET CspacesOf(objs) /\ LeadTo(objs, mine, mine)
        /\ own = proc[current].cspace /\ own \in mine
  BY <1>1, RunFacts
<1>3. PICK c1, c2 : c1 = objs[own].caps[i].cspace /\ c2 = objs[own].caps[j].cspace
  OBVIOUS
<1>4. /\ objs[own].caps[i] = Cap(i) /\ objs[own].caps[j] = Cap(j)
      /\ Cap(i).type = "cspace" /\ Cap(j).type = "cspace"
  BY <1>2 DEF CapMove, Cap
<1>5. c1 \in mine /\ c2 \in mine
  BY <1>2, <1>3, <1>4 DEF LeadTo
<1>6. PICK src : src = objs[c1].caps[s]
  OBVIOUS
<1>7. PICK left : left = IF copy THEN src ELSE NullCap
  OBVIOUS
<1>8. PICK objs2 : objs2 = SetCap(SetCap(objs, c2, d, src), c1, s, left)
  OBVIOUS
<1>9. /\ objs[c2].caps[d] = NullCap /\ src # NullCap /\ (~copy \/ src.type # "untyped")
      /\ objects' = [objects EXCEPT ![c2].caps[d] = src,
                                    ![c1].caps[s] = IF copy THEN src ELSE NullCap]
  BY <1>2, <1>3, <1>4, <1>6 DEF CapMove, MayMove, Target
<1>10. objects' = objs2
  <2>1. objects' = [objs EXCEPT ![c2].caps[d] = src, ![c1].caps[s] = left]
    BY <1>2, <1>7, <1>9
  <2> QED BY <1>8, <2>1 DEF SetCap
<1>11. /\ UsedOnce(U, tab, objs2) /\ SpacesChange(objs, objs2)
       /\ TwoSet(objs, objs2, c2, d, src, c1, s, left)
  <2>1. c1 \in CspacesOf(objs) /\ c2 \in CspacesOf(objs)
    BY <1>2, <1>5
  <2>2. (left = src /\ src.type # "untyped") \/ left = NullCap
    BY <1>7, <1>9
  <2> QED BY <1>2, <1>6, <1>8, <1>9, <2>1, <2>2, CapMoveKeeps
<1>12. MappedOnce(objs2)
  BY <1>2, <1>11, SpacesChangeMapped
<1>13. MemoryInv'
  BY <1>1, <1>2, <1>10, <1>11, <1>12, SameBoot DEF MemoryInv
<1>14. CspacesOf(objs2) = CspacesOf(objs) /\ PdirsOf(objs2) = PdirsOf(objs)
  BY <1>11 DEF SpacesChange, CspacesOf, PdirsOf
<1>15. /\ R \in [Proc -> SUBSET CspacesOf(objs)] /\ R[0] \cap R[1] = {}
       /\ \A p \in Proc : proc[p].cspace \in R[p] /\ LeadTo(objs, R[p], R[p])
       /\ current \in Proc
  BY <1>2 DEF Parted, Inv, TypeInv
<1>16. ASSUME NEW p \in Proc PROVE LeadTo(objs2, R[p], R[p])
  <2> SUFFICES ASSUME NEW c \in R[p], NEW t \in Slot, objs2[c].caps[t].type = "cspace"
               PROVE  objs2[c].caps[t].cspace \in R[p]
    BY DEF LeadTo
  <2>1. c \in CspacesOf(objs) /\ R[p] \subseteq CspacesOf(objs)
    BY <1>15
  <2>2. objs2[c].caps[t] = IF c = c2 /\ t = d THEN src
                           ELSE IF c = c1 /\ t = s THEN left ELSE objs[c].caps[t]
    BY <1>11, <2>1 DEF TwoSet
  <2>3. CASE objs2[c].caps[t] = objs[c].caps[t]
    BY <1>15, <2>3 DEF LeadTo
  <2>4. CASE c \in {c1, c2} /\ objs2[c].caps[t] = src
    <3>1. src.cspace \in mine
      BY <1>2, <1>5, <1>6, <2>4 DEF LeadTo
    <3>2. p = current
      BY <1>2, <1>5, <1>15, <2>4 DEF Proc
    <3> QED BY <1>2, <2>4, <3>1, <3>2
  <2>5. left \in {src, NullCap}
    BY <1>7
  <2>6. objs2[c].caps[t] # NullCap
    BY CapFields
  <2> QED BY <2>2, <2>3, <2>4, <2>5, <2>6
<1>17. Parted(R)'
  BY <1>1, <1>10, <1>14, <1>15, <1>16 DEF Parted
<1>18. Inv'
  <2>1. cr3' = proc[current'].pdir /\ current' \in Proc
    BY <1>1, <1>15 DEF Inv, RunInv
  <2> QED BY <1>1, <1>2, <1>10, <1>13, <1>14, <1>17, <2>1, RunStep
<1>19. CallersChange(R)
  BY <1>2, <1>5, <1>10, <1>11 DEF CallersChange, OwnChange, SpacesChange, TwoSet
<1> QED BY <1>18, <1>19

\* alloc takes an object of a capability to untyped memory: what it sets to
\* zero is no object's, and the capability is left with the rest.
Frees(objs, n, len) == Zeroed(objs, n, len) = objs /\ n \notin DOMAIN objs

LEMMA AllocKeeps ==
  ASSUME NEW U, NEW tab, NEW objs, UsedOnce(U, tab, objs),
         NEW own \in CspacesOf(objs), NEW u \in Slot, NEW c \in CspacesOf(objs), NEW d \in Slot,
         NEW bits \in 0..WordBits - 1, NEW v, v = objs[own].caps[u], v.type = "untyped",
         Allocates(v, bits), objs[c].caps[d] = NullCap,
         NEW n, n = Object(v, bits), NEW w, w = After(v, bits),
         NEW cap \in CapSet, cap.type = "untyped" => cap = UntypedCap(n, bits),
         NEW objs2, objs2 = SetCap(SetCap(objs, own, u, w), c, d, cap)
  PROVE  /\ UsedOnce(U, tab, objs2) /\ SpacesChange(objs, objs2)
         /\ TwoSet(objs, objs2, own, u, w, c, d, cap) /\ Frees(objs, n, 2^bits)
<1>1. objs \in [DOMAIN objs -> ObjectSet] /\ TypedMemory(tab, objs)
  BY DEF UsedOnce, TypedMemory
<1>2. v \in UntypedSet
  <2>1. own \in DOMAIN objs /\ objs[own].kind = "cspace"
    BY DEF CspacesOf
  <2>2. objs[own].caps \in [Slot -> CapSet]
    BY <1>1, <2>1, ObjectFields
  <2> QED BY <2>2, CapFields
<1>4. /\ n \in Nat /\ 2^bits \in Nat \ {0} /\ w \in UntypedSet
      /\ \A x \in n..n + 2^bits - 1 : x \in Rest(v) /\ x \notin Rest(w)
      /\ Rest(w) \subseteq Rest(v) /\ UntypedCap(n, bits) \in UntypedSet
      /\ Rest(UntypedCap(n, bits)) = n..n + 2^bits - 1
  BY <1>2, TakenFacts
<1>5. <<own, u>> # <<c, d>>
  BY CapFields
<1>6. w \in CapSet /\ w.type = "untyped"
  BY <1>4, CapFields
<1>7. SpacesChange(objs, objs2) /\ TwoSet(objs, objs2, own, u, w, c, d, cap)
  BY <1>1, <1>5, <1>6, SetTwoCaps
<1>8. PICK from :
        from = [e \in CspacesOf(objs) \X Slot |-> IF e = <<c, d>> THEN <<own, u>> ELSE e]
  OBVIOUS
<1>9. from \in [CspacesOf(objs) \X Slot -> CspacesOf(objs) \X Slot]
  BY <1>8
<1>10. \A e \in CspacesOf(objs) \X Slot :
         CapAt(objs2, e) = IF e = <<own, u>> THEN w ELSE IF e = <<c, d>> THEN cap ELSE CapAt(objs, e)
  <2> SUFFICES ASSUME NEW e \in CspacesOf(objs) \X Slot
               PROVE  CapAt(objs2, e) = IF e = <<own, u>> THEN w
                                        ELSE IF e = <<c, d>> THEN cap ELSE CapAt(objs, e)
    OBVIOUS
  <2>1. e[1] \in CspacesOf(objs) /\ e[2] \in Slot /\ e = <<e[1], e[2]>>
    OBVIOUS
  <2>2. (e = <<own, u>>) = (e[1] = own /\ e[2] = u)
    BY <2>1
  <2>3. (e = <<c, d>>) = (e[1] = c /\ e[2] = d)
    BY <2>1
  <2> QED BY <1>7, <2>1, <2>2, <2>3 DEF CapAt, TwoSet
<1>11. CapAt(objs, <<own, u>>) = v
  BY DEF CapAt
<1>12. ASSUME NEW e \in CspacesOf(objs) \X Slot, CapAt(objs2, e).type = "untyped"
       PROVE  /\ CapAt(objs, from[e]).type = "untyped"
              /\ Rest(CapAt(objs2, e)) \subseteq Rest(CapAt(objs, from[e]))
              /\ e = <<own, u>> => Rest(CapAt(objs2, e)) = Rest(w)
              /\ e = <<c, d>> => Rest(CapAt(objs2, e)) = n..n + 2^bits - 1
  <2>1. CASE e = <<own, u>>
    BY <1>4, <1>5, <1>8, <1>10, <1>11, <2>1
  <2>2. CASE e = <<c, d>>
    <3>1. CapAt(objs2, e) = cap /\ from[e] = <<own, u>>
      BY <1>5, <1>8, <1>10, <2>2
    <3>2. Rest(CapAt(objs2, e)) = n..n + 2^bits - 1
      BY <1>4, <1>12, <3>1
    <3> QED BY <1>4, <1>5, <1>11, <2>2, <3>1, <3>2
  <2>3. CASE e # <<own, u>> /\ e # <<c, d>>
    BY <1>8, <1>10, <1>12, <2>3
  <2> QED BY <2>1, <2>2, <2>3
<1>13. \A e, f \in CspacesOf(objs) \X Slot :
         (/\ CapAt(objs2, e).type = "untyped" /\ CapAt(objs2, f).type = "untyped"
          /\ e # f /\ from[e] = from[f])
         => Rest(CapAt(objs2, e)) \cap Rest(CapAt(objs2, f)) = {}
  <2> SUFFICES ASSUME NEW e \in CspacesOf(objs) \X Slot, NEW f \in CspacesOf(objs) \X Slot,
                      CapAt(objs2, e).type = "untyped", CapAt(objs2, f).type = "untyped",
                      e # f, from[e] = from[f]
               PROVE  Rest(CapAt(objs2, e)) \cap Rest(CapAt(objs2, f)) = {}
    OBVIOUS
  <2>1. (e = <<own, u>> /\ f = <<c, d>>) \/ (f = <<own, u>> /\ e = <<c, d>>)
    BY <1>8
  <2> QED BY <1>4, <1>12, <2>1
<1>14. CapsFrom(objs, objs2, from)
  BY <1>9, <1>12, <1>13 DEF CapsFrom
<1>15. UsedOnce(U, tab, objs2)
  BY <1>7, <1>14, CapsMoved
<1>16. Frees(objs, n, 2^bits)
  <2>1. PICK h : h = <<own, u>>
    OBVIOUS
  <2>2. h \in HoldersOf(tab, objs) /\ HeldOf(tab, objs, h) = Rest(v)
    BY <1>1, <2>1, SpaceHolder
  <2>3. PICK len \in Nat \ {0} : len = 2^bits
    BY <1>4
  <2>4. n..n + len - 1 \subseteq HeldOf(tab, objs, h)
    BY <1>4, <2>2, <2>3
  <2>5. n \in Nat /\ h \in HoldersOf(tab, objs)
    BY <1>4, <2>2
  <2>6. Zeroed(objs, n, len) = objs /\ n \notin DOMAIN objs
    BY <2>4, <2>5, ZeroedFree
  <2> QED BY <2>3, <2>6 DEF Frees
<1> QED BY <1>7, <1>15, <1>16

\* A page that nobody holds becomes an object.
LEMMA ExtendFree ==
  ASSUME NEW U, NEW tab, NEW objs, UsedOnce(U, tab, objs), NEW n \in Nat \ {0},
         n \notin DOMAIN objs, Aligned(n), Page(n) \subseteq U,
         \A h \in HoldersOf(tab, objs) : HeldOf(tab, objs, h) \cap Page(n) = {},
         NEW o, Plain(o), NEW objs2, objs2 = Extended(objs, n, o)
  PROVE  UsedOnce(U, tab, objs2)
<1>1. TypedMemory(tab, objs)
  BY DEF UsedOnce
<1>2. /\ DOMAIN objs2 = DOMAIN objs \cup {n} /\ objs2[n] = o
      /\ \A a \in DOMAIN objs : objs2[a] = objs[a]
      /\ objs2 \in [DOMAIN objs2 -> ObjectSet]
  BY <1>1 DEF TypedMemory, Extended, Plain
<1>3. TypedMemory(tab, objs2)
  BY <1>1, <1>2 DEF TypedMemory
<1>4. ASSUME NEW h \in HoldersOf(tab, objs2)
      PROVE  h \in HoldersOf(tab, objs) /\ HeldOf(tab, objs2, h) = HeldOf(tab, objs, h)
  <2>1. CASE h[1] = 0 /\ h[2] \in 1..Len(tab) /\ h = <<0, h[2]>>
             /\ HeldOf(tab, objs2, h) = Rest(tab[h[2]])
    <3>1. /\ <<0, h[2]>> \in HoldersOf(tab, objs)
          /\ HeldOf(tab, objs, <<0, h[2]>>) = Rest(tab[h[2]])
      BY <1>1, <2>1, TableHolder
    <3> QED BY <2>1, <3>1
  <2>2. CASE /\ h[1] # 0 /\ h[1] \in CspacesOf(objs2) /\ h[2] \in Slot /\ h = <<h[1], h[2]>>
             /\ objs2[h[1]].caps[h[2]] \in UntypedSet
             /\ HeldOf(tab, objs2, h) = Rest(objs2[h[1]].caps[h[2]])
    <3>1. objs2[h[1]].caps[h[2]].type = "untyped"
      BY <2>2, CapFields
    <3>2. h[1] # n
      BY <1>2, <2>2, <3>1 DEF CspacesOf, Plain
    <3>3. h[1] \in CspacesOf(objs) /\ objs2[h[1]] = objs[h[1]]
      BY <1>2, <2>2, <3>2 DEF CspacesOf
    <3>4. /\ <<h[1], h[2]>> \in HoldersOf(tab, objs)
          /\ HeldOf(tab, objs, <<h[1], h[2]>>) = Rest(objs[h[1]].caps[h[2]])
      BY <1>1, <2>2, <3>1, <3>3, SpaceHolder
    <3> QED BY <2>2, <3>3, <3>4
  <2>3. \/ /\ h[1] = 0 /\ h[2] \in 1..Len(tab) /\ h = <<0, h[2]>>
           /\ HeldOf(tab, objs2, h) = Rest(tab[h[2]])
        \/ /\ h[1] # 0 /\ h[1] \in CspacesOf(objs2) /\ h[2] \in Slot /\ h = <<h[1], h[2]>>
           /\ objs2[h[1]].caps[h[2]] \in UntypedSet
           /\ HeldOf(tab, objs2, h) = Rest(objs2[h[1]].caps[h[2]])
    BY <1>3, HolderFacts
  <2> QED BY <2>1, <2>2, <2>3
<1>5. ASSUME NEW h \in HoldersOf(tab, objs2)
      PROVE  /\ HeldOf(tab, objs2, h) \subseteq U
             /\ \A g \in HoldersOf(tab, objs2) : g # h =>
                  HeldOf(tab, objs2, h) \cap HeldOf(tab, objs2, g) = {}
             /\ \A a \in DOMAIN objs2 : HeldOf(tab, objs2, h) \cap Page(a) = {}
  BY <1>2, <1>4 DEF UsedOnce
<1>6. \A a \in DOMAIN objs2 : Aligned(a) /\ Page(a) \subseteq U
  BY <1>2 DEF UsedOnce
<1> QED BY <1>3, <1>5, <1>6 DEF UsedOnce

\* Where the capability spaces lead when two slots of one process are written.
LEMMA PartedKept ==
  ASSUME NEW objs, NEW R \in [Proc -> SUBSET CspacesOf(objs)], R[0] \cap R[1] = {},
         \A p \in Proc : LeadTo(objs, R[p], R[p]), NEW k \in Proc, NEW there, R[k] \subseteq there,
         NEW c1 \in R[k], NEW s1 \in Slot, NEW v1, v1.type = "cspace" => v1.cspace \in there,
         NEW c2 \in R[k], NEW s2 \in Slot, NEW v2, v2.type = "cspace" => v2.cspace \in there,
         NEW objs2, TwoSet(objs, objs2, c1, s1, v1, c2, s2, v2)
  PROVE  /\ LeadTo(objs2, R[k], there)
         /\ \A p \in Proc : p # k => LeadTo(objs2, R[p], R[p])
<1>1. \A p \in Proc : R[p] \subseteq CspacesOf(objs)
  OBVIOUS
<1>2. LeadTo(objs2, R[k], there)
  <2> SUFFICES ASSUME NEW c \in R[k], NEW t \in Slot, objs2[c].caps[t].type = "cspace"
               PROVE  objs2[c].caps[t].cspace \in there
    BY DEF LeadTo
  <2>1. objs2[c].caps[t] \in {v1, v2, objs[c].caps[t]}
    BY <1>1 DEF TwoSet
  <2>2. objs[c].caps[t].type = "cspace" => objs[c].caps[t].cspace \in there
    BY DEF LeadTo
  <2> QED BY <2>1, <2>2
<1>3. ASSUME NEW p \in Proc, p # k PROVE LeadTo(objs2, R[p], R[p])
  <2> SUFFICES ASSUME NEW c \in R[p], NEW t \in Slot, objs2[c].caps[t].type = "cspace"
               PROVE  objs2[c].caps[t].cspace \in R[p]
    BY DEF LeadTo
  <2>1. c \notin R[k]
    BY <1>3 DEF Proc
  <2>2. objs2[c].caps[t] = objs[c].caps[t]
    BY <1>1, <2>1 DEF TwoSet
  <2> QED BY <2>2 DEF LeadTo
<1> QED BY <1>2, <1>3

LEMMA AllocUntypedInv ==
  ASSUME Inv, NEW R, Parted(R), NEW u \in Slot, NEW j \in Slot, NEW d \in Slot,
         NEW bits \in Sizes, AllocUntyped(u, j, d, bits)
  PROVE  Inv' /\ CallersChange(R)
<1>1. /\ pc = "run" /\ pc' = "run" /\ untyped' = untyped
      /\ UNCHANGED <<boot, at, lo, intervals, proc, current, cr3>>
      /\ bits \in 0..WordBits - 1
  <2>1. ValidUntypedSize(bits) /\ bits \in Nat
    BY CapsAssumption DEF AllocUntyped
  <2>2. bits \in 0..WordBits - 1
    BY <2>1, WidthsAssumption DEF ValidUntypedSize
  <2> QED BY <2>2 DEF AllocUntyped, Allocate, InUserMode, Called
<1>2. PICK U, tab, objs, mine, own :
        /\ U \in SUBSET (Nat \ {0}) /\ U = Usable /\ tab = untyped /\ objs = objects
        /\ UsedOnce(U, tab, objs) /\ MappedOnce(objs)
        /\ mine = R[current] /\ mine \in SUBSET CspacesOf(objs) /\ LeadTo(objs, mine, mine)
        /\ own = proc[current].cspace /\ own \in mine
  BY <1>1, RunFacts
<1>3. PICK v, c : v = objs[own].caps[u] /\ c = objs[own].caps[j].cspace
  OBVIOUS
<1>4. PICK n : n = Object(v, bits)
  OBVIOUS
<1>5. PICK cap : cap = UntypedCap(n, bits)
  OBVIOUS
<1>6. PICK w, objs2 : w = After(v, bits) /\ objs2 = SetCap(SetCap(objs, own, u, w), c, d, cap)
  OBVIOUS
<1>7. Cap(u) = v /\ Cap(j) = objs[own].caps[j] /\ Cap(j).cspace = c
  BY <1>2, <1>3 DEF Cap
<1>8. /\ v.type = "untyped" /\ Cap(j).type = "cspace" /\ objs[c].caps[d] = NullCap
      /\ Allocates(v, bits)
      /\ objects' = [Zeroed(objs, n, 2^bits) EXCEPT ![own].caps[u] = w, ![c].caps[d] = cap]
  BY <1>2, <1>4, <1>5, <1>6, <1>7 DEF AllocUntyped, Allocate, Target
<1>9. c \in mine
  BY <1>2, <1>7, <1>8 DEF LeadTo
<1>10. cap \in CapSet /\ cap.type = "untyped"
  <2>1. objs \in [DOMAIN objs -> ObjectSet] /\ own \in CspacesOf(objs)
    BY <1>2 DEF UsedOnce, TypedMemory
  <2>2. own \in DOMAIN objs /\ objs[own].kind = "cspace"
    BY <2>1 DEF CspacesOf
  <2>3. objs[own].caps \in [Slot -> CapSet]
    BY <2>1, <2>2, ObjectFields
  <2>4. v \in UntypedSet
    BY <1>3, <1>8, <2>3, CapFields
  <2>5. cap \in UntypedSet
    BY <1>1, <1>4, <1>5, <1>8, <2>4, TakenFacts
  <2> QED BY <2>5, CapFields
<1>11. /\ UsedOnce(U, tab, objs2) /\ SpacesChange(objs, objs2)
       /\ TwoSet(objs, objs2, own, u, w, c, d, cap) /\ Frees(objs, n, 2^bits)
  <2>1. own \in CspacesOf(objs) /\ c \in CspacesOf(objs) /\ UsedOnce(U, tab, objs)
    BY <1>2, <1>9
  <2>2. v = objs[own].caps[u] /\ v.type = "untyped" /\ Allocates(v, bits)
        /\ objs[c].caps[d] = NullCap /\ bits \in 0..WordBits - 1
    BY <1>1, <1>3, <1>8
  <2> QED BY <1>4, <1>5, <1>6, <1>10, <2>1, <2>2, AllocKeeps
<1>12. objects' = objs2
  BY <1>6, <1>8, <1>11 DEF Frees, SetCap
<1>13. MappedOnce(objs2)
  BY <1>2, <1>11, SpacesChangeMapped
<1>14. MemoryInv'
  BY <1>1, <1>2, <1>11, <1>12, <1>13, SameBoot DEF MemoryInv
<1>15. CspacesOf(objs2) = CspacesOf(objs) /\ PdirsOf(objs2) = PdirsOf(objs)
  BY <1>11 DEF SpacesChange, CspacesOf, PdirsOf
<1>16. PICK k \in Proc : k = current
  BY DEF Inv, TypeInv
<1>17. /\ R \in [Proc -> SUBSET CspacesOf(objs)] /\ R[0] \cap R[1] = {} /\ mine = R[k]
       /\ \A p \in Proc : LeadTo(objs, R[p], R[p])
       /\ \A p \in Proc : proc[p].cspace \in R[p]
  BY <1>2, <1>16 DEF Parted
<1>18. \A p \in Proc : LeadTo(objs2, R[p], R[p])
  <2>1. w.type = "untyped"
    BY <1>6, <1>8 DEF After
  <2>2. own \in R[k] /\ c \in R[k] /\ TwoSet(objs, objs2, own, u, w, c, d, cap)
    BY <1>2, <1>9, <1>11, <1>17
  <2>3. /\ w.type = "cspace" => w.cspace \in R[k]
        /\ cap.type = "cspace" => cap.cspace \in R[k]
    BY <1>10, <2>1
  <2>4. LeadTo(objs2, R[k], R[k]) /\ \A p \in Proc : p # k => LeadTo(objs2, R[p], R[p])
    BY <1>17, <2>2, <2>3, PartedKept
  <2> QED BY <2>4
<1>19. Parted(R)'
  BY <1>1, <1>12, <1>15, <1>17, <1>18 DEF Parted
<1>20. Inv'
  <2>1. cr3' = proc[current'].pdir /\ current' \in Proc
    BY <1>1, <1>16 DEF Inv, RunInv
  <2> QED BY <1>1, <1>2, <1>12, <1>14, <1>15, <1>19, <2>1, RunStep
<1>21. CallersChange(R)
  BY <1>2, <1>9, <1>11, <1>12 DEF CallersChange, OwnChange, SpacesChange, TwoSet
<1> QED BY <1>20, <1>21

\* A new object and two slots of old ones are written in any order.
LEMMA ExtendedSets ==
  ASSUME NEW objs, NEW n, NEW o, NEW a \in DOMAIN objs, NEW b \in DOMAIN objs, a # n, b # n,
         NEW s, NEW v, NEW t, NEW w
  PROVE  [Extended(objs, n, o) EXCEPT ![a].caps[s] = v, ![b].caps[t] = w]
           = Extended(SetCap(SetCap(objs, a, s, v), b, t, w), n, o)
BY DEF Extended, SetCap

LEMMA AllocCspaceInv ==
  ASSUME Inv, NEW R, Parted(R), NEW u \in Slot, NEW j \in Slot, NEW d \in Slot,
         AllocCspace(u, j, d)
  PROVE  CallersChange(R) /\ Inv'
<1>1. /\ pc = "run" /\ pc' = "run" /\ untyped' = untyped
      /\ UNCHANGED <<boot, at, lo, intervals, proc, current, cr3>>
      /\ PageBits \in 0..WordBits - 1
  BY PageFacts DEF AllocCspace, Allocate, InUserMode, Called
<1>2. PICK U, tab, objs, mine, own :
        /\ U \in SUBSET (Nat \ {0}) /\ U = Usable /\ tab = untyped /\ objs = objects
        /\ UsedOnce(U, tab, objs) /\ MappedOnce(objs)
        /\ mine = R[current] /\ mine \in SUBSET CspacesOf(objs) /\ LeadTo(objs, mine, mine)
        /\ own = proc[current].cspace /\ own \in mine
  BY <1>1, RunFacts
<1>3. PICK v, c : v = objs[own].caps[u] /\ c = objs[own].caps[j].cspace
  OBVIOUS
<1>4. PICK n : n = Object(v, PageBits)
  OBVIOUS
<1>5. PICK cap : cap = CspaceCap(n)
  OBVIOUS
<1>6. PICK w : w = After(v, PageBits)
  OBVIOUS
<1>7. PICK objs2 : objs2 = SetCap(SetCap(objs, own, u, w), c, d, cap)
  OBVIOUS
<1>8. PICK objs3 : objs3 = Extended(objs2, n, NullSpace)
  OBVIOUS
<1>9. Cap(u) = v /\ Cap(j) = objs[own].caps[j] /\ Cap(j).cspace = c
  BY <1>2, <1>3 DEF Cap
<1>10. /\ v.type = "untyped" /\ Cap(j).type = "cspace" /\ objs[c].caps[d] = NullCap
       /\ Allocates(v, PageBits)
       /\ objects' = [With(objs, n, NullSpace) EXCEPT ![own].caps[u] = w, ![c].caps[d] = cap]
  BY <1>2, <1>4, <1>5, <1>6, <1>9 DEF AllocCspace, Allocate, Target
<1>11. c \in mine /\ own \in CspacesOf(objs) /\ c \in CspacesOf(objs)
  BY <1>2, <1>9, <1>10 DEF LeadTo
<1>12. objs \in [DOMAIN objs -> ObjectSet] /\ v \in UntypedSet
  <2>1. objs \in [DOMAIN objs -> ObjectSet]
    BY <1>2 DEF UsedOnce, TypedMemory
  <2>2. own \in DOMAIN objs /\ objs[own].kind = "cspace"
    BY <1>11 DEF CspacesOf
  <2>3. objs[own].caps \in [Slot -> CapSet]
    BY <2>1, <2>2, ObjectFields
  <2> QED BY <1>3, <1>10, <2>1, <2>3, CapFields
<1>13. PICK P \in Nat \ {0} : P = PageLen /\ P = 2^PageBits
  BY PageFacts DEF PageLen
<1>14. /\ n \in Nat /\ Aligned(n)
       /\ \A x \in n..n + P - 1 : x \in Rest(v) /\ x \notin Rest(w)
       /\ Rest(w) \subseteq Rest(v) /\ w.type = "untyped"
  <2>1. /\ n \in Nat /\ n % P = 0
        /\ \A x \in n..n + P - 1 : x \in Rest(v) /\ x \notin Rest(w)
        /\ Rest(w) \subseteq Rest(v)
    BY <1>1, <1>4, <1>6, <1>10, <1>12, <1>13, TakenFacts
  <2>2. w.type = "untyped"
    BY <1>6, <1>10 DEF After
  <2> QED BY <1>13, <2>1, <2>2 DEF Aligned
<1>15. cap \in CapSet /\ cap.type = "cspace" /\ cap.cspace = n
  BY <1>5, <1>14, CapFields
<1>16. /\ UsedOnce(U, tab, objs2) /\ SpacesChange(objs, objs2)
       /\ TwoSet(objs, objs2, own, u, w, c, d, cap) /\ Frees(objs, n, P)
  <2>1. UsedOnce(U, tab, objs) /\ cap.type # "untyped"
    BY <1>2, <1>15
  <2>2. v = objs[own].caps[u] /\ v.type = "untyped" /\ Allocates(v, PageBits)
        /\ objs[c].caps[d] = NullCap /\ PageBits \in 0..WordBits - 1
    BY <1>1, <1>3, <1>10
  <2>3. /\ UsedOnce(U, tab, objs2) /\ SpacesChange(objs, objs2)
        /\ TwoSet(objs, objs2, own, u, w, c, d, cap) /\ Frees(objs, n, 2^PageBits)
    BY <1>4, <1>6, <1>7, <1>11, <1>15, <2>1, <2>2, AllocKeeps
  <2> QED BY <1>13, <2>3
<1>17. n \notin DOMAIN objs /\ n \notin DOMAIN objs2 /\ DOMAIN objs2 = DOMAIN objs
  BY <1>16 DEF Frees, SpacesChange
<1>18. objects' = objs3
  <2>1. With(objs, n, NullSpace) = Extended(objs, n, NullSpace)
    BY <1>13, <1>16 DEF With, Extended, Frees
  <2>2. own \in DOMAIN objs /\ c \in DOMAIN objs /\ own # n /\ c # n
    BY <1>11, <1>17 DEF CspacesOf
  <2>4. objects' = [Extended(objs, n, NullSpace) EXCEPT ![own].caps[u] = w, ![c].caps[d] = cap]
    BY <1>10, <2>1
  <2>5. [Extended(objs, n, NullSpace) EXCEPT ![own].caps[u] = w, ![c].caps[d] = cap]
          = Extended(SetCap(SetCap(objs, own, u, w), c, d, cap), n, NullSpace)
    BY <2>2, ExtendedSets
  <2> QED BY <1>7, <1>8, <2>4, <2>5
<1>19. UsedOnce(U, tab, objs3)
  <2>1. TypedMemory(tab, objs) /\ TypedMemory(tab, objs2)
    BY <1>2, <1>16 DEF UsedOnce
  <2>2. PICK k : k = <<own, u>>
    OBVIOUS
  <2>3. k \in HoldersOf(tab, objs) /\ HeldOf(tab, objs, k) = Rest(v)
    <3>1. own \in CspacesOf(objs) /\ u \in Slot /\ objs[own].caps[u] = v /\ v.type = "untyped"
      BY <1>3, <1>10, <1>11
    <3> QED BY <2>1, <2>2, <3>1, SpaceHolder
  <2>4. Page(n) \subseteq Rest(v) /\ Rest(v) \subseteq U
    BY <1>2, <1>13, <1>14, <2>3 DEF Page, UsedOnce
  <2>5. n # 0
    BY <1>2, <1>13, <1>14, <2>4
  <2>6. ASSUME NEW h \in HoldersOf(tab, objs2) PROVE HeldOf(tab, objs2, h) \cap Page(n) = {}
    <3>1. CASE h[1] = 0 /\ h[2] \in 1..Len(tab) /\ h = <<0, h[2]>>
               /\ HeldOf(tab, objs2, h) = Rest(tab[h[2]])
      <4>1. /\ <<0, h[2]>> \in HoldersOf(tab, objs)
            /\ HeldOf(tab, objs, <<0, h[2]>>) = Rest(tab[h[2]])
        BY <2>1, <3>1, TableHolder
      <4>2. own # 0
        BY <1>11, <2>1 DEF CspacesOf, TypedMemory
      <4>3. h # k /\ h \in HoldersOf(tab, objs) /\ HeldOf(tab, objs, h) = HeldOf(tab, objs2, h)
        BY <2>2, <3>1, <4>1, <4>2
      <4> QED BY <1>2, <2>3, <2>4, <4>3 DEF UsedOnce
    <3>2. CASE /\ h[1] # 0 /\ h[1] \in CspacesOf(objs2) /\ h[2] \in Slot /\ h = <<h[1], h[2]>>
               /\ objs2[h[1]].caps[h[2]] \in UntypedSet
               /\ HeldOf(tab, objs2, h) = Rest(objs2[h[1]].caps[h[2]])
      <4>1. h[1] \in CspacesOf(objs) /\ objs2[h[1]].caps[h[2]].type = "untyped"
        BY <1>16, <3>2, CapFields DEF SpacesChange, CspacesOf
      <4>2. objs2[h[1]].caps[h[2]] = IF h[1] = own /\ h[2] = u THEN w
                                     ELSE IF h[1] = c /\ h[2] = d THEN cap
                                     ELSE objs[h[1]].caps[h[2]]
        BY <1>16, <3>2, <4>1 DEF TwoSet
      <4>3. CASE h[1] = own /\ h[2] = u
        BY <1>13, <1>14, <3>2, <4>2, <4>3 DEF Page
      <4>4. CASE ~(h[1] = own /\ h[2] = u)
        <5>1. objs2[h[1]].caps[h[2]] = objs[h[1]].caps[h[2]]
          BY <1>15, <4>1, <4>2, <4>4
        <5>2. /\ <<h[1], h[2]>> \in HoldersOf(tab, objs)
              /\ HeldOf(tab, objs, <<h[1], h[2]>>) = Rest(objs[h[1]].caps[h[2]])
          BY <2>1, <3>2, <4>1, <5>1, SpaceHolder
        <5>3. h # k /\ h \in HoldersOf(tab, objs) /\ HeldOf(tab, objs, h) = HeldOf(tab, objs2, h)
          BY <2>2, <3>2, <4>4, <5>1, <5>2
        <5> QED BY <1>2, <2>3, <2>4, <5>3 DEF UsedOnce
      <4> QED BY <4>3, <4>4
    <3>3. \/ /\ h[1] = 0 /\ h[2] \in 1..Len(tab) /\ h = <<0, h[2]>>
             /\ HeldOf(tab, objs2, h) = Rest(tab[h[2]])
          \/ /\ h[1] # 0 /\ h[1] \in CspacesOf(objs2) /\ h[2] \in Slot /\ h = <<h[1], h[2]>>
             /\ objs2[h[1]].caps[h[2]] \in UntypedSet
             /\ HeldOf(tab, objs2, h) = Rest(objs2[h[1]].caps[h[2]])
      BY <2>1, HolderFacts
    <3> QED BY <3>1, <3>2, <3>3
  <2>7. Plain(NullSpace)
    <3>1. NullSpace \in CspaceSet
      BY CapFields DEF NullSpace, CspaceSet
    <3>2. \A s \in Slot : NullSpace.caps[s].type # "untyped"
      BY CapFields DEF NullSpace
    <3> QED BY <3>1, <3>2 DEF Plain, ObjectSet
  <2>8. n \in Nat \ {0} /\ Page(n) \subseteq U
    BY <1>14, <2>4, <2>5
  <2> QED BY <1>8, <1>14, <1>16, <1>17, <2>6, <2>7, <2>8, ExtendFree
<1>20. MappedOnce(objs3)
  <2>1. MappedOnce(objs2)
    BY <1>2, <1>16, SpacesChangeMapped
  <2>2. NoEntries(NullSpace)
    BY DEF NoEntries, NullSpace
  <2> QED BY <1>8, <1>17, <2>1, <2>2, MappedExtended
<1>21. MemoryInv'
  BY <1>1, <1>2, <1>18, <1>19, <1>20, SameBoot DEF MemoryInv
<1>22. /\ DOMAIN objs3 = DOMAIN objs \cup {n} /\ objs3[n] = NullSpace
       /\ \A a \in DOMAIN objs : objs3[a] = objs2[a]
  BY <1>8, <1>17 DEF Extended
<1>23. /\ CspacesOf(objs3) = CspacesOf(objs) \cup {n} /\ PdirsOf(objs) \subseteq PdirsOf(objs3)
       /\ n \notin CspacesOf(objs)
  BY <1>16, <1>17, <1>22 DEF SpacesChange, CspacesOf, PdirsOf, NullSpace
<1>24. PICK k \in Proc : k = current
  BY DEF Inv, TypeInv
<1>25. /\ R \in [Proc -> SUBSET CspacesOf(objs)] /\ R[0] \cap R[1] = {} /\ mine = R[k]
       /\ \A p \in Proc : LeadTo(objs, R[p], R[p])
       /\ \A p \in Proc : proc[p].cspace \in R[p]
  BY <1>2, <1>24 DEF Parted
<1>26. LeadTo(objs2, R[k], R[k] \cup {n}) /\ \A p \in Proc : p # k => LeadTo(objs2, R[p], R[p])
  <2>1. PICK there : there = R[k] \cup {n}
    OBVIOUS
  <2>2. R[k] \subseteq there /\ own \in R[k] /\ c \in R[k]
    BY <1>2, <1>11, <1>25, <2>1
  <2>3. /\ w.type = "cspace" => w.cspace \in there
        /\ cap.type = "cspace" => cap.cspace \in there
    BY <1>14, <1>15, <2>1
  <2>4. LeadTo(objs2, R[k], there) /\ \A p \in Proc : p # k => LeadTo(objs2, R[p], R[p])
    BY <1>16, <1>25, <2>2, <2>3, PartedKept
  <2> QED BY <2>1, <2>4
<1>27. PICK R2 : R2 = [R EXCEPT ![k] = R[k] \cup {n}]
  OBVIOUS
<1>28. /\ R2 \in [Proc -> SUBSET CspacesOf(objs3)] /\ R2[k] = R[k] \cup {n}
       /\ \A p \in Proc : p # k => R2[p] = R[p]
  BY <1>23, <1>25, <1>27
<1>29. R2[0] \cap R2[1] = {}
  <2>1. 0 \in Proc /\ 1 \in Proc /\ n \notin R[0] /\ n \notin R[1]
    BY <1>23, <1>25 DEF Proc
  <2> QED BY <1>25, <1>28, <2>1
<1>30. ASSUME NEW p \in Proc PROVE LeadTo(objs3, R2[p], R2[p]) /\ proc[p].cspace \in R2[p]
  <2>1. R[p] \subseteq DOMAIN objs
    BY <1>25 DEF CspacesOf
  <2>2. LeadTo(objs2, R[p], R2[p])
    BY <1>26, <1>28
  <2>3. \A c0 \in R[p] : objs3[c0] = objs2[c0]
    BY <1>22, <2>1
  <2>4. \A c0 \in R2[p] : c0 \in R[p] \/ c0 = n
    BY <1>28
  <2>5. \A s \in Slot : objs3[n].caps[s].type # "cspace"
    BY <1>22, CapFields DEF NullSpace
  <2>6. LeadTo(objs3, R2[p], R2[p])
    BY <2>2, <2>3, <2>4, <2>5 DEF LeadTo
  <2> QED BY <1>25, <1>28, <2>6
<1>31. Parted(R2)'
  BY <1>1, <1>18, <1>28, <1>29, <1>30 DEF Parted
<1>32. Inv'
  <2>1. cr3' = proc[current'].pdir /\ current' \in Proc
    BY <1>1, <1>24 DEF Inv, RunInv
  <2> QED BY <1>1, <1>2, <1>18, <1>21, <1>23, <1>31, <2>1, RunStep
<1>33. OwnChange(objs, objs3, mine, proc[current].pdir)
  <2>1. DOMAIN objs \subseteq DOMAIN objs3
    BY <1>22
  <2>2. \A a \in DOMAIN objs : a \notin mine => objs3[a] = objs[a]
    BY <1>2, <1>11, <1>16, <1>22 DEF TwoSet
  <2>3. \A a \in DOMAIN objs : objs3[a].kind = objs[a].kind
    BY <1>16, <1>22 DEF SpacesChange
  <2> QED BY <2>1, <2>2, <2>3 DEF OwnChange
<1> QED BY <1>2, <1>18, <1>32, <1>33 DEF CallersChange

LEMMA KMapPageInv ==
  ASSUME Inv, NEW R, Parted(R), NEW virt \in Faulty, KMapPage(virt)
  PROVE  CallersChange(R) /\ Inv'
<1>1. PICK p : p = proc[current].pdir
  OBVIOUS
<1>2. PICK objs : objs = objects
  OBVIOUS
<1>3. /\ pc = "run" /\ ~IsMapped(p, virt)
      /\ \/ Outcome(p, virt) # "mapped" /\ Halt(Outcome(p, virt))
         \/ Outcome(p, virt) = "mapped" /\ AddPage(p, virt) /\ Called /\ UNCHANGED pc
  BY <1>1 DEF KMapPage, InUserMode
<1>4. TypeInv /\ MemoryInv /\ current \in Proc /\ p \in PdirsOf(objs)
  BY <1>1, <1>2, <1>3 DEF Inv, TypeInv, RunInv
<1>5. virt \in Addr /\ virt < KernelSpace /\ ~Mapped(objs, p, virt)
  <2>1. virt \in Addr /\ ~(virt >= KernelSpace)
    BY <1>3, CapsAssumption DEF IsMapped
  <2>2. ~Mapped(objs, p, virt)
    BY <1>2, <1>3 DEF IsMapped, Mapped
  <2>3. virt \in Nat /\ KernelSpace \in Nat
    BY <2>1, SuperFacts, PageFacts DEF Addr
  <2> QED BY <2>1, <2>2, <2>3
<1>6. /\ Outcome(p, virt) \in {"nomemory", "mapped"}
      /\ Outcome(p, virt) = "mapped" =>
           \E tab2, objs2 :
             /\ AddPage(p, virt) => untyped' = tab2 /\ objects' = objs2
             /\ UsedOnce(Usable, tab2, objs2) /\ MappedOnce(objs2)
             /\ Grown(objects, objs2, p, virt) /\ SpacesStay(objects, objs2)
  BY <1>2, <1>4, <1>5, OutcomeFacts
<1>7. CASE Outcome(p, virt) # "mapped" /\ Halt(Outcome(p, virt))
  <2>1. Halt("nomemory")
    BY <1>6, <1>7
  <2>2. objects' = objects
    BY <2>1 DEF Halt
  <2> QED BY <2>1, <2>2, HaltInv DEF CallersChange, OwnChange
<1>8. CASE Outcome(p, virt) = "mapped" /\ AddPage(p, virt) /\ Called /\ UNCHANGED pc
  <2>1. PICK tab2, objs2 :
          /\ untyped' = tab2 /\ objects' = objs2
          /\ UsedOnce(Usable, tab2, objs2) /\ MappedOnce(objs2)
          /\ Grown(objs, objs2, p, virt) /\ SpacesStay(objs, objs2)
    BY <1>2, <1>6, <1>8
  <2>2. UNCHANGED <<boot, pc, at, lo, proc, current, cr3>>
    BY <1>8 DEF Called
  <2>3. MemoryInv'
    BY <2>1, <2>2, SameBoot DEF MemoryInv
  <2>4. PdirsOf(objs) \subseteq PdirsOf(objs2)
    BY <2>1 DEF SpacesStay, PdirsOf
  <2>5. /\ R \in [Proc -> SUBSET CspacesOf(objs)] /\ R[0] \cap R[1] = {}
        /\ \A q \in Proc : proc[q].cspace \in R[q] /\ LeadTo(objs, R[q], R[q])
    BY <1>2 DEF Parted
  <2>6. ASSUME NEW q \in Proc
        PROVE  R[q] \in SUBSET CspacesOf(objs2) /\ LeadTo(objs2, R[q], R[q])
    <3>1. R[q] \in SUBSET CspacesOf(objs) /\ LeadTo(objs, R[q], R[q])
      BY <2>5
    <3> QED BY <2>1, <3>1, LeadToStays
  <2>7. Parted(R)'
    BY <2>1, <2>2, <2>5, <2>6 DEF Parted
  <2>8. Inv'
    <3>1. cr3' = proc[current'].pdir /\ current' \in Proc /\ pc' = "run"
      BY <1>3, <1>4, <2>2 DEF Inv, RunInv
    <3> QED BY <1>2, <1>3, <2>1, <2>2, <2>3, <2>4, <2>7, <3>1, RunStep
  <2>9. OwnChange(objs, objs2, R[current], p)
    <3>1. Entry(objs, p, virt) = objs[p].pde[DirOf(virt)] /\ DirOf(virt) \in Dirs
      BY <1>5, IndexFacts DEF Entry
    <3> QED BY <2>1, <3>1 DEF Grown, OwnChange
  <2> QED BY <1>1, <1>2, <2>1, <2>8, <2>9 DEF CallersChange
<1> QED BY <1>3, <1>7, <1>8

LEMMA TimerInterruptInv ==
  ASSUME Inv, NEW R, Parted(R), TimerInterrupt
  PROVE  CallersChange(R) /\ Inv'
<1>1. /\ pc = "run" /\ current' = 1 - current /\ cr3' = proc[current'].pdir
      /\ UNCHANGED <<boot, pc, at, lo, intervals, proc, calls>>
      /\ untyped' = untyped /\ objects' = objects
  BY DEF TimerInterrupt
<1>2. current \in Proc /\ MemoryInv
  BY DEF Inv, TypeInv
<1>3. current' \in Proc
  BY <1>1, <1>2 DEF Proc
<1>4. MemoryInv'
  BY <1>1, <1>2, SameBoot DEF MemoryInv
<1>5. Parted(R)'
  BY <1>1 DEF Parted
<1>6. Inv'
  BY <1>1, <1>3, <1>4, <1>5, RunStep
<1>7. CallersChange(R)
  BY <1>1 DEF CallersChange, OwnChange
<1> QED BY <1>6, <1>7

\* What a step in user mode does: it changes objects of the caller only.
LEMMA UserStep ==
  ASSUME Inv, NEW R, Parted(R), Syscall \/ TimerInterrupt
  PROVE  CallersChange(R) /\ Inv'
<1>1. CASE \E i, s, j, d \in Slot, copy \in BOOLEAN : CapMove(i, s, j, d, copy)
  <2>1. PICK i \in Slot, s \in Slot, j \in Slot, d \in Slot, copy \in BOOLEAN :
          CapMove(i, s, j, d, copy)
    BY <1>1
  <2> QED BY <2>1, CapMoveInv
<1>2. CASE \E u, j, d \in Slot : AllocCspace(u, j, d)
  BY <1>2, AllocCspaceInv
<1>3. CASE \E u, j, d \in Slot, bits \in Sizes : AllocUntyped(u, j, d, bits)
  BY <1>3, AllocUntypedInv
<1>4. CASE \E virt \in Faulty : KMapPage(virt)
  BY <1>4, KMapPageInv
<1>5. CASE TimerInterrupt
  BY <1>5, TimerInterruptInv
<1> QED BY <1>1, <1>2, <1>3, <1>4, <1>5 DEF Syscall

LEMMA UserMode ==
  ASSUME Syscall \/ TimerInterrupt
  PROVE  pc = "run"
<1>1. \A i, s, j, d, copy : CapMove(i, s, j, d, copy) => pc = "run"
  BY DEF CapMove, InUserMode
<1>2. \A u, j, d, bits, cap, objs : Allocate(u, j, d, bits, cap, objs) => pc = "run"
  BY DEF Allocate, InUserMode
<1>3. /\ \A u, j, d : AllocCspace(u, j, d) => pc = "run"
      /\ \A u, j, d, bits : AllocUntyped(u, j, d, bits) => pc = "run"
  BY <1>2 DEF AllocCspace, AllocUntyped
<1>4. \A virt : KMapPage(virt) => pc = "run"
  BY DEF KMapPage, InUserMode
<1>5. TimerInterrupt => pc = "run"
  BY DEF TimerInterrupt
<1> QED BY <1>1, <1>3, <1>4, <1>5 DEF Syscall

LEMMA SameProc ==
  ASSUME Syscall \/ TimerInterrupt
  PROVE  proc' = proc
<1>1. \A i, s, j, d, copy : CapMove(i, s, j, d, copy) => proc' = proc
  BY DEF CapMove, Called
<1>2. \A u, j, d, bits, cap, objs : Allocate(u, j, d, bits, cap, objs) => proc' = proc
  BY DEF Allocate, Called
<1>3. /\ \A u, j, d : AllocCspace(u, j, d) => proc' = proc
      /\ \A u, j, d, bits : AllocUntyped(u, j, d, bits) => proc' = proc
  BY <1>2 DEF AllocCspace, AllocUntyped
<1>4. \A virt : KMapPage(virt) => proc' = proc
  BY DEF KMapPage, Called, Halt
<1>5. TimerInterrupt => proc' = proc
  BY DEF TimerInterrupt
<1> QED BY <1>1, <1>3, <1>4, <1>5 DEF Syscall

LEMMA StutterInv ==
  ASSUME Inv, UNCHANGED vars
  PROVE  Inv'
<1>1. UNCHANGED <<boot, pc, at, lo, intervals, untyped, objects, proc, current, cr3, calls>>
  BY DEF vars
<1>2. TypeInv' /\ MemoryInv'
  BY <1>1, SameBoot DEF Inv, TypeInv, MemoryInv
<1>3. InsertInv' /\ ReserveInv' /\ UntypedInv'
  BY <1>1, SameBoot DEF Inv, InsertInv, ReserveInv, UntypedInv, NoMemoryYet
<1>4. \A p : SetUp(p)' = SetUp(p)
  BY <1>1 DEF SetUp
<1>5. PdirInv' /\ CopyInv'
  BY <1>1, <1>4 DEF Inv, PdirInv, CopyInv
<1>6. \A R : Parted(R)' = Parted(R)
  BY <1>1 DEF Parted
<1>7. RunInv'
  BY <1>1, <1>6 DEF Inv, RunInv
<1> QED BY <1>2, <1>3, <1>5, <1>7 DEF Inv

-----------------------------------------------------------------------------
(* The theorems.                                                           *)

\* The invariant is inductive.
LEMMA InvStep ==
  ASSUME Inv, [Next]_vars
  PROVE  Inv'
<1>1. CASE Booting
  BY <1>1, InsertRegionInv, ReserveRegionInv, AddBlockInv, MemoryReadyInv, SparePageInv,
     NewPdirInv, CopyUserPageInv, NewCspaceInv DEF Booting
<1>2. CASE Syscall \/ TimerInterrupt
  <2>1. PICK R : Parted(R)
    BY <1>2, UserMode DEF Inv, RunInv
  <2> QED BY <1>2, <2>1, UserStep
<1>3. CASE UNCHANGED vars
  BY <1>3, StutterInv
<1> QED BY <1>1, <1>2, <1>3 DEF Next

\* What the memory is made of, and what holds at each step of booting and in
\* user mode: the capability spaces split between the two processes.
THEOREM Invariant == Spec => []Inv
<1>1. Init => Inv
  BY InitInv
<1>2. Inv /\ [Next]_vars => Inv'
  BY InvStep
<1> QED BY <1>1, <1>2, PTL DEF Spec

\* No memory is given out twice, and no memory in use is given out: by allocPage,
\* by alloc for a system call, or by donateUntyped.
THEOREM MemoryUsedOnceTheorem == Spec => []MemoryUsedOnce
<1>1. Inv => MemoryUsedOnce
  <2> SUFFICES ASSUME UsedOnce(Usable, untyped, objects) PROVE MemoryUsedOnce
    BY DEF Inv, MemoryInv
  <2>1. Holders = HoldersOf(untyped, objects)
    BY DEF Holders, HoldersOf, Cspaces, CspacesOf
  <2>2. \A h : Held(h) = HeldOf(untyped, objects, h)
    BY DEF Held, HeldOf
  <2>3. ASSUME NEW h \in Holders
        PROVE  /\ Held(h) \subseteq Usable
               /\ \A g \in Holders \ {h} : Held(h) \cap Held(g) = {}
               /\ \A a \in DOMAIN objects : Held(h) \cap Page(a) = {}
    BY <2>1, <2>2 DEF UsedOnce
  <2>4. \A a \in DOMAIN objects : a % PageLen = 0 /\ Page(a) \subseteq Usable
    BY DEF UsedOnce, Aligned
  <2> QED BY <2>3, <2>4 DEF MemoryUsedOnce
<1> QED BY <1>1, Invariant, PTL

\* The processes share no page and no page table, mapPage never finds the address
\* taken, and the processor uses the directory of the current process.
THEOREM MapsOnceTheorem == Spec => []MapsOnce
<1>1. Inv => MapsOnce
  <2> SUFFICES ASSUME Inv PROVE MapsOnce
    OBVIOUS
  <2>1. EntriesOnce(objects) /\ PagesOnce(objects) /\ KernelMapped(objects)
    BY DEF Inv, MemoryInv, MappedOnce
  <2>2. Entries = EntriesOf(objects) /\ PageEntries = PageEntriesOf(objects)
        /\ Tables = TablesOf(objects) /\ Pdirs = PdirsOf(objects)
    <3>1. Tables = TablesOf(objects) /\ Pdirs = PdirsOf(objects)
      BY DEF Tables, TablesOf, Pdirs, PdirsOf
    <3>2. Entries = EntriesOf(objects)
      BY <3>1, Zenon DEF Entries, EntriesOf, Pde
    <3>3. PageEntries = PageEntriesOf(objects)
      BY <3>1, Zenon DEF PageEntries, PageEntriesOf, Pte
    <3> QED BY <3>1, <3>2, <3>3
  <2>3. ASSUME NEW e \in Entries
        PROVE  /\ objects[e[1]].pde[e[2]] \in Tables
               /\ \A f \in Entries \ {e} : objects[e[1]].pde[e[2]] # objects[f[1]].pde[f[2]]
    BY <2>1, <2>2 DEF EntriesOnce, Pde
  <2>4. ASSUME NEW e \in PageEntries
        PROVE  /\ objects[e[1]].pte[e[2]] \in DOMAIN objects
               /\ objects[objects[e[1]].pte[e[2]]].kind = "data"
               /\ \A f \in PageEntries \ {e} : objects[e[1]].pte[e[2]] # objects[f[1]].pte[f[2]]
    BY <2>1, <2>2 DEF PagesOnce, Pte
  <2>5. \A p \in Pdirs, d \in Dirs :
          (objects[p].pde[d] = SuperPage) = (KernelPdir.pde[d] = SuperPage)
    BY <2>1, <2>2 DEF KernelMapped
  <2>6. pc # "badmap" /\ (pc = "run" => cr3 = proc[current].pdir)
    BY DEF Inv, TypeInv, RunInv
  <2> QED BY <2>3, <2>4, <2>5, <2>6 DEF MapsOnce
<1> QED BY <1>1, Invariant, PTL

-----------------------------------------------------------------------------
(* Isolation: what a process can get at, and what is mapped for it.        *)

ReachIn(objs, root) ==
  {c \in CspacesOf(objs) : \A found \in SUBSET CspacesOf(objs) :
                             root \in found /\ LeadTo(objs, found, found) => c \in found}
TablesIn(objs, pdir) ==
  [t \in {objs[pdir].pde[d] : d \in Dirs} \cap TablesOf(objs) |-> objs[t]]
ViewIn(objs, pdir, root) ==
  [pdir |-> objs[pdir], tables |-> TablesIn(objs, pdir),
   cspaces |-> [c \in ReachIn(objs, root) |-> objs[c]]]

\* What is in a set that leads nowhere else is the same as before.
LEMMA ReachKept ==
  ASSUME NEW objs, NEW objs2, NEW found, NEW root \in found,
         found \subseteq CspacesOf(objs), found \subseteq CspacesOf(objs2),
         LeadTo(objs, found, found), \A c \in found : objs2[c] = objs[c]
  PROVE  ReachIn(objs2, root) = ReachIn(objs, root) /\ ReachIn(objs, root) \subseteq found
<1>1. ASSUME NEW ob, found \subseteq CspacesOf(ob), LeadTo(ob, found, found)
      PROVE  ReachIn(ob, root) = {c \in found : \A some \in SUBSET found :
                                    root \in some /\ LeadTo(ob, some, some) => c \in some}
  <2>1. ASSUME NEW c \in ReachIn(ob, root)
        PROVE  c \in found /\ \A some \in SUBSET found :
                                root \in some /\ LeadTo(ob, some, some) => c \in some
    BY <1>1 DEF ReachIn
  <2>2. ASSUME NEW c \in found,
               \A some \in SUBSET found : root \in some /\ LeadTo(ob, some, some) => c \in some,
               NEW other \in SUBSET CspacesOf(ob), root \in other, LeadTo(ob, other, other)
        PROVE  c \in other
    <3>1. root \in found \cap other /\ LeadTo(ob, found \cap other, found \cap other)
      BY <1>1, <2>2 DEF LeadTo
    <3> QED BY <2>2, <3>1
  <2>3. ASSUME NEW c \in found,
               \A some \in SUBSET found : root \in some /\ LeadTo(ob, some, some) => c \in some
        PROVE  c \in ReachIn(ob, root)
    BY <1>1, <2>2, <2>3 DEF ReachIn
  <2> QED BY <2>1, <2>3
<1>2. ASSUME NEW some \in SUBSET found
      PROVE  LeadTo(objs2, some, some) = LeadTo(objs, some, some)
  BY DEF LeadTo
<1>3. LeadTo(objs2, found, found)
  BY <1>2
<1>4. PICK reach : reach = {c \in found : \A some \in SUBSET found :
                              root \in some /\ LeadTo(objs, some, some) => c \in some}
  OBVIOUS
<1>5. ReachIn(objs, root) = reach
  BY <1>1, <1>4
<1>6. ReachIn(objs2, root) = {c \in found : \A some \in SUBSET found :
                                root \in some /\ LeadTo(objs2, some, some) => c \in some}
  BY <1>1, <1>3
<1>7. ReachIn(objs2, root) = reach
  BY <1>2, <1>4, <1>6
<1> QED BY <1>4, <1>5, <1>7

LEMMA ViewKept ==
  ASSUME NEW objs, NEW objs2, NEW found, NEW root \in found,
         found \subseteq CspacesOf(objs), found \subseteq CspacesOf(objs2),
         LeadTo(objs, found, found), \A c \in found : objs2[c] = objs[c],
         NEW pdir, objs2[pdir] = objs[pdir],
         \A d \in Dirs : LET t == objs[pdir].pde[d] IN
           (t \in TablesOf(objs) <=> t \in TablesOf(objs2))
           /\ (t \in TablesOf(objs) => objs2[t] = objs[t])
  PROVE  ViewIn(objs2, pdir, root) = ViewIn(objs, pdir, root)
<1>1. ReachIn(objs2, root) = ReachIn(objs, root) /\ ReachIn(objs, root) \subseteq found
  BY ReachKept
<1>2. [c \in ReachIn(objs2, root) |-> objs2[c]] = [c \in ReachIn(objs, root) |-> objs[c]]
  BY <1>1
<1>3. PICK ts : ts = {objs[pdir].pde[d] : d \in Dirs} \cap TablesOf(objs)
  OBVIOUS
<1>4. {objs2[pdir].pde[d] : d \in Dirs} \cap TablesOf(objs2) = ts
  BY <1>3
<1>5. \A t \in ts : objs2[t] = objs[t]
  BY <1>3
<1>6. TablesIn(objs2, pdir) = TablesIn(objs, pdir)
  BY <1>3, <1>4, <1>5 DEF TablesIn
<1> QED BY <1>2, <1>6 DEF ViewIn

\* An object of the other process is not one of the caller's.
LEMMA OthersKept ==
  ASSUME NEW objs, NEW objs2, MappedOnce(objs),
         \A a \in DOMAIN objs : a # 0 /\ a # SuperPage,
         \A a \in DOMAIN objs2 : a # 0 /\ a # SuperPage,
         NEW mine, mine \subseteq CspacesOf(objs), NEW own \in PdirsOf(objs),
         OwnChange(objs, objs2, mine, own),
         NEW found, found \subseteq CspacesOf(objs), found \cap mine = {},
         NEW root \in found, LeadTo(objs, found, found),
         NEW pdir \in PdirsOf(objs), pdir # own
  PROVE  ViewIn(objs2, pdir, root) = ViewIn(objs, pdir, root)
<1>1. ASSUME NEW d \in Dirs, NEW p \in PdirsOf(objs)
      PROVE  \/ objs[p].pde[d] \in {0, SuperPage}
             \/ objs[p].pde[d] \in TablesOf(objs) /\ <<p, d>> \in EntriesOf(objs)
  BY DEF MappedOnce, EntriesOnce, EntriesOf, Pde
<1>2. ASSUME NEW a \in DOMAIN objs, a \notin mine, a # own, a \notin TablesOf(objs)
      PROVE  objs2[a] = objs[a]
  <2>1. \A d \in Dirs : objs[own].pde[d] # a
    BY <1>1, <1>2
  <2> QED BY <1>2, <2>1 DEF OwnChange
<1>3. \A c \in found : objs2[c] = objs[c]
  BY <1>2 DEF CspacesOf, TablesOf, PdirsOf
<1>4. objs2[pdir] = objs[pdir]
  BY <1>2 DEF CspacesOf, TablesOf, PdirsOf
<1>5. found \subseteq CspacesOf(objs2)
  BY DEF CspacesOf, OwnChange
<1>6. ASSUME NEW d \in Dirs, NEW t, t = objs[pdir].pde[d]
      PROVE  /\ t \in TablesOf(objs) <=> t \in TablesOf(objs2)
             /\ t \in TablesOf(objs) => objs2[t] = objs[t]
  <2>1. CASE t \in {0, SuperPage}
    BY <2>1 DEF TablesOf
  <2>2. CASE t \in TablesOf(objs) /\ <<pdir, d>> \in EntriesOf(objs)
    <3>1. t \in DOMAIN objs /\ objs[t].kind = "ptab" /\ t \in TablesOf(objs2)
      BY <2>2 DEF TablesOf, OwnChange
    <3>2. t \notin mine /\ t # own
      BY <3>1 DEF CspacesOf, PdirsOf
    <3>3. ASSUME NEW e \in Dirs, objs[own].pde[e] = t PROVE FALSE
      <4>1. t \notin {0, SuperPage}
        BY <3>1
      <4>2. <<own, e>> \in EntriesOf(objs) /\ <<own, e>> # <<pdir, d>>
        BY <1>1, <3>3, <4>1
      <4>3. Pde(objs, <<own, e>>) = Pde(objs, <<pdir, d>>)
        BY <1>6, <3>3 DEF Pde
      <4> QED BY <2>2, <4>2, <4>3 DEF MappedOnce, EntriesOnce
    <3>4. objs2[t] = objs[t]
      BY <3>1, <3>2, <3>3 DEF OwnChange
    <3> QED BY <2>2, <3>1, <3>4
  <2> QED BY <1>1, <1>6, <2>1, <2>2
<1>7. \A d \in Dirs : LET t == objs[pdir].pde[d] IN
        (t \in TablesOf(objs) <=> t \in TablesOf(objs2))
        /\ (t \in TablesOf(objs) => objs2[t] = objs[t])
  BY <1>6
<1> QED BY <1>3, <1>4, <1>5, <1>7, ViewKept

LEMMA Views ==
  ASSUME NEW p \in Proc
  PROVE  View(p) = ViewIn(objects, proc[p].pdir, proc[p].cspace)
<1>1. Tables = TablesOf(objects) /\ Cspaces = CspacesOf(objects)
  BY DEF Tables, TablesOf, Cspaces, CspacesOf
<1>2. \A found : Closed(found) = LeadTo(objects, found, found)
  BY DEF Closed, LeadTo
<1>3. Reach(p) = ReachIn(objects, proc[p].cspace)
  BY <1>1, <1>2 DEF Reach, ReachIn
<1> QED BY <1>1, <1>3 DEF View, ViewIn, TablesIn

LEMMA IsolatedStep ==
  ASSUME Inv, [Next]_vars, pc = "run", NEW q \in Proc \ {current}
  PROVE  View(q)' = View(q)
<1>1. CASE Syscall \/ TimerInterrupt
  <2>1. PICK R : Parted(R)
    BY DEF Inv, RunInv
  <2>2. CallersChange(R) /\ Inv'
    BY <1>1, <2>1, UserStep
  <2>3. PICK U, tab, objs, mine, space :
          /\ U \in SUBSET (Nat \ {0}) /\ U = Usable /\ tab = untyped /\ objs = objects
          /\ UsedOnce(U, tab, objs) /\ MappedOnce(objs)
          /\ mine = R[current] /\ mine \in SUBSET CspacesOf(objs) /\ LeadTo(objs, mine, mine)
          /\ space = proc[current].cspace /\ space \in mine
    BY <2>1, RunFacts
  <2>4. PICK U2, tab2, objs2 : UsedOnce(U2, tab2, objs2) /\ objs2 = objects'
    BY <2>2 DEF Inv, MemoryInv
  <2>5. PICK k \in Proc : k = current
    BY DEF Inv, TypeInv
  <2>6. PICK own, pdir, root :
          own = proc[k].pdir /\ pdir = proc[q].pdir /\ root = proc[q].cspace
    OBVIOUS
  <2>7. PICK found : found = R[q]
    OBVIOUS
  <2>8. /\ own \in PdirsOf(objs) /\ pdir \in PdirsOf(objs) /\ pdir # own
        /\ (k = 0 /\ q = 1) \/ (k = 1 /\ q = 0)
    BY <2>3, <2>5, <2>6 DEF Inv, RunInv, Proc
  <2>9. /\ root \in found /\ found \subseteq CspacesOf(objs) /\ LeadTo(objs, found, found)
        /\ found \cap mine = {}
    BY <2>1, <2>3, <2>5, <2>6, <2>7, <2>8 DEF Parted
  <2>10. OwnChange(objs, objs2, mine, own)
    BY <2>2, <2>3, <2>4, <2>5, <2>6 DEF CallersChange
  <2>11. /\ \A a \in DOMAIN objs : a # 0 /\ a # SuperPage
         /\ \A a \in DOMAIN objs2 : a # 0 /\ a # SuperPage
    BY <2>3, <2>4, ObjectAddress
  <2>12. ViewIn(objs2, pdir, root) = ViewIn(objs, pdir, root)
    <3>1. MappedOnce(objs) /\ mine \subseteq CspacesOf(objs)
      BY <2>3
    <3> QED BY <2>8, <2>9, <2>10, <2>11, <3>1, OthersKept
  <2>13. View(q) = ViewIn(objs, pdir, root)
    BY <2>3, <2>6, Views
  <2>14. View(q)' = ViewIn(objects', proc'[q].pdir, proc'[q].cspace)
    <3>1. Tables' = TablesOf(objects') /\ Cspaces' = CspacesOf(objects')
      BY DEF Tables, TablesOf, Cspaces, CspacesOf
    <3>2. \A some : Closed(some)' = LeadTo(objects', some, some)
      BY DEF Closed, LeadTo
    <3>3. Reach(q)' = ReachIn(objects', proc'[q].cspace)
      BY <3>1, <3>2 DEF Reach, ReachIn
    <3> QED BY <3>1, <3>3 DEF View, ViewIn, TablesIn
  <2>15. proc' = proc
    BY <1>1, SameProc
  <2> QED BY <2>4, <2>6, <2>12, <2>13, <2>14, <2>15
<1>2. CASE Booting
  BY <1>2 DEF Booting, InsertRegion, ReserveRegion, AddBlock, MemoryReady, SparePage, NewPdir,
              CopyUserPage, NewCspace
<1>3. CASE UNCHANGED vars
  <2>1. objects' = objects /\ proc' = proc
    BY <1>3 DEF vars
  <2> QED BY <2>1 DEF View, Tables, Reach, Cspaces, Closed
<1> QED BY <1>1, <1>2, <1>3 DEF Next

\* A system call of one process, and a timer interrupt, change nothing in the
\* page tables of the other, and no capability that it can get at.
THEOREM IsolatedTheorem == Spec => Isolated
<1>1. Inv /\ [Next]_vars => [pc = "run" => \A p \in Proc \ {current} : View(p)' = View(p)]_vars
  BY IsolatedStep
<1>2. Spec => [][pc = "run" => \A p \in Proc \ {current} : View(p)' = View(p)]_vars
  BY <1>1, Invariant, PTL DEF Spec
<1> QED BY <1>2 DEF Isolated

-----------------------------------------------------------------------------
(* All of the usable memory is found, while the tables have room.          *)

\* No header is an empty region inside of a page, as that of a program would
\* be whose only segment is empty: reserveInterval would take that page.
HeadersWhole == \A b \in Boots : \A k \in DOMAIN b.hdrs : Whole(b.hdrs[k])

\* A page in a block of untyped memory.
InBlock(tab, a) == \E i \in 1..Len(tab) : Page(a) \subseteq Rest(tab[i])

\* What the tables have room for.
MapFits == Len(boot.mmap) <= MaxIntervals
BlocksFit(tab) == MapFits /\ Len(tab) < MaxUntyped

InsertFound ==
  pc = "insert" =>
    Len(intervals) <= at - 1 /\ (MapFits => \A a \in Inserted(at) : Has(intervals, a))
ReserveFound ==
  pc = "reserve" => (MapFits => \A a \in Remaining(at) : Has(intervals, a))
UntypedFound ==
  pc = "untyped" =>
    /\ Descending(untyped)
    /\ BlocksFit(untyped) => \A a \in UsablePages : Has(intervals, a) \/ InBlock(untyped, a)
SpareFound ==
  pc = "spare" /\ at = 1 =>
    /\ Descending(untyped)
    /\ BlocksFit(untyped) => \A a \in UsablePages : InBlock(untyped, a)

FoundInv == InsertFound /\ ReserveFound /\ UntypedFound /\ SpareFound

LEMMA PagesAligned ==
  /\ \A n : \A a \in Inserted(n) : a \in Nat /\ Aligned(a)
  /\ \A n : \A a \in Remaining(n) : a \in Nat /\ Aligned(a)
  /\ \A a \in UsablePages : a \in Nat /\ Aligned(a)
<1>1. \A n : \A a \in Inserted(n) : a \in Nat /\ Aligned(a)
  <2> SUFFICES ASSUME NEW n, NEW a \in Inserted(n) PROVE a \in Nat /\ Aligned(a)
    OBVIOUS
  <2>1. PICK k \in 1..n - 1 : a \in PagesIn(boot.mmap[k].lo, boot.mmap[k].hi)
    BY DEF Inserted
  <2>2. a \in Addr /\ a % PageLen = 0
    BY <2>1 DEF PagesIn
  <2> QED BY <2>2 DEF Addr, Aligned
<1>2. \A n : Remaining(n) \subseteq Inserted(Len(boot.mmap) + 1)
  BY DEF Remaining
<1> QED BY <1>1, <1>2 DEF UsablePages

LEMMA ReservedWhole ==
  ASSUME HeadersWhole, boot \in Boots, NEW k \in 1..Len(Reserved)
  PROVE  Whole(Reserved[k])
<1>1. boot.hdrs \in Seq(Spans) /\ \A i \in DOMAIN boot.hdrs : Whole(boot.hdrs[i])
  BY CapsAssumption DEF HeadersWhole
<1>2. PICK hdrs \in Seq(Spans) : hdrs = boot.hdrs
  BY <1>1
<1>3. PICK l \in Nat : l = Len(hdrs) /\ \A i \in 1..l : Whole(hdrs[i])
  BY <1>1, <1>2, DomainOfSeq
<1>4. PICK low \in Spans, high \in Spans :
        low = Span(0, LowMemory - 1) /\ high = Span(KernelSpace, Words - 1)
  <2>1. 0 \in Addr /\ LowMemory - 1 \in Addr /\ KernelSpace \in Addr /\ Words - 1 \in Addr
    BY SuperFacts, PageFacts DEF Addr
  <2>2. \A a, b \in Addr : Span(a, b) \in Spans
    BY DEF Span, Spans
  <2> QED BY <2>1, <2>2
<1>5. Whole(low) /\ Whole(high)
  <2>1. low.lo = 0 /\ low.hi = LowMemory - 1 /\ high.lo = KernelSpace /\ high.hi = Words - 1
    BY <1>4 DEF Span
  <2>2. 0 <= LowMemory - 1 /\ KernelSpace <= Words - 1
    BY SuperFacts, PageFacts DEF Addr
  <2> QED BY <2>1, <2>2 DEF Whole
<1>6. PICK two : two = <<low, high>>
  OBVIOUS
<1>7. two \in Seq(Spans) /\ Len(two) = 2 /\ two[1] = low /\ two[2] = high
  BY <1>6
<1>8. Reserved = two \o hdrs
  BY <1>2, <1>4, <1>6 DEF Reserved
<1>9. Len(Reserved) = 2 + l
      /\ \A i \in 1..2 + l : Reserved[i] = IF i <= 2 THEN two[i] ELSE hdrs[i - 2]
  <2>1. /\ Len(two \o hdrs) = Len(two) + Len(hdrs)
        /\ \A i \in 1..Len(two) + Len(hdrs) :
             (two \o hdrs)[i] = IF i <= Len(two) THEN two[i] ELSE hdrs[i - Len(two)]
    BY ONLY <1>7, hdrs \in Seq(Spans), ConcatProperties
  <2> QED BY ONLY <1>3, <1>7, <1>8, <2>1
<1>10. CASE k <= 2
  <2>1. k = 1 \/ k = 2
    BY <1>9, <1>10
  <2> QED BY <1>5, <1>7, <1>9, <1>10, <2>1
<1>11. CASE ~(k <= 2)
  <2>1. k - 2 \in 1..l /\ Reserved[k] = hdrs[k - 2]
    BY <1>9, <1>11
  <2> QED BY <1>3, <2>1
<1> QED BY <1>10, <1>11

LEMMA InitFound ==
  ASSUME Init
  PROVE  FoundInv
<1>1. pc = "insert" /\ at = 1 /\ intervals = <<>>
  BY DEF Init
<1>2. Len(intervals) = 0 /\ Inserted(1) = {}
  BY <1>1 DEF Inserted
<1> QED BY <1>1, <1>2 DEF FoundInv, InsertFound, ReserveFound, UntypedFound, SpareFound

LEMMA InsertRegionFound ==
  ASSUME Inv, FoundInv, InsertRegion
  PROVE  FoundInv'
<1>1. /\ boot \in Boots /\ at \in Nat \ {0} /\ pc = "insert"
      /\ at <= Len(boot.mmap) + 1 /\ Separate(Inserted(at), intervals)
  BY DEF Inv, TypeInv, InsertInv, InsertRegion
<1>2. /\ Len(intervals) <= at - 1
      /\ MapFits => \A a \in Inserted(at) : Has(intervals, a)
  BY <1>1 DEF FoundInv, InsertFound
<1>3. boot' = boot /\ Len(boot.mmap) \in Nat
  BY <1>1, BootFacts DEF InsertRegion
<1>4. PICK F : F = Inserted(at)
  OBVIOUS
<1>5. PICK tab : tab = intervals
  OBVIOUS
<1>6. MapFits' = MapFits
  BY <1>3 DEF MapFits
<1>7. CASE at <= Len(boot.mmap) /\ intervals' = InsertInterval(intervals, boot.mmap[at]) /\ Again
  <2>1. pc' = "insert" /\ at' = at + 1
    BY <1>1, <1>7 DEF Again
  <2>2. at \in 1..Len(boot.mmap)
    BY <1>1, <1>3, <1>7
  <2>3. PICK region \in Spans : region = boot.mmap[at]
    BY <1>1, <2>2, BootFacts
  <2>4. region.lo + PageLen <= Words /\ region.hi + 1 >= PageLen
    BY <1>1, <2>2, <2>3, BootFacts
  <2>5. PICK t : t = InsertInterval(tab, region)
    OBVIOUS
  <2>6. Separate(F, tab)
    BY <1>1, <1>4, <1>5
  <2>7. /\ Len(t) <= Len(tab) + 1
        /\ Len(tab) < MaxIntervals =>
             \A a \in Nat : Has(tab, a) \/ a \in PagesIn(region.lo, region.hi) => Has(t, a)
    BY ONLY <2>4, <2>5, <2>6, region \in Spans, InsertKeeps
  <2>8. Separate(F \cup PagesIn(region.lo, region.hi), t)
    BY ONLY <2>4, <2>5, <2>6, region \in Spans, InsertSeparate
  <2>9. Len(t) \in Nat /\ Len(tab) \in Nat
    BY <2>6, <2>8, DomainOfSeq DEF Separate
  <2>10. PICK n \in Nat : n = at + 1
    BY <1>1
  <2>11. Inserted(n) = F \cup PagesIn(region.lo, region.hi)
    BY <1>1, <1>4, <2>3, <2>10, InsertedNext
  <2>12. Inserted(at)' = Inserted(n)
    <3>1. Inserted(n)' = Inserted(n)
      BY <1>3, SameBoot
    <3>2. Inserted(at)' = Inserted(n)'
      BY <2>1, <2>10 DEF Inserted
    <3> QED BY <3>1, <3>2
  <2>13. intervals' = t
    BY <1>5, <1>7, <2>3, <2>5
  <2>14. Len(t) <= n - 1
    BY ONLY <1>1, <1>2, <1>5, <2>7, <2>9, <2>10
  <2>15. ASSUME MapFits, NEW a \in Inserted(n) PROVE Has(t, a)
    <3>1. Len(tab) < MaxIntervals
      <4>1. Len(tab) <= at - 1 /\ at <= Len(boot.mmap) /\ Len(boot.mmap) <= MaxIntervals
        BY <1>2, <1>5, <1>7, <2>15 DEF MapFits
      <4>2. MaxIntervals \in Nat
        BY WidthsAssumption
      <4> QED BY ONLY <1>1, <1>3, <2>9, <4>1, <4>2
    <3>2. a \in Nat
      BY PagesAligned
    <3>3. Has(tab, a) \/ a \in PagesIn(region.lo, region.hi)
      BY <1>2, <1>4, <1>5, <2>11, <2>15
    <3> QED BY ONLY <2>7, <3>1, <3>2, <3>3
  <2>16. InsertFound'
    BY <1>6, <2>1, <2>10, <2>12, <2>13, <2>14, <2>15 DEF InsertFound
  <2> QED BY <2>1, <2>16 DEF FoundInv, ReserveFound, UntypedFound, SpareFound
<1>8. CASE at > Len(boot.mmap) /\ Go("reserve") /\ UNCHANGED intervals
  <2>1. pc' = "reserve" /\ at' = 1
    BY <1>8 DEF Go
  <2>2. at = Len(boot.mmap) + 1
    BY <1>1, <1>3, <1>8
  <2>3. Remaining(1) = F
    BY <1>4, <2>2, RemainingFirst
  <2>4. Remaining(at)' = Remaining(1)
    <3>1. Remaining(1)' = Remaining(1)
      BY <1>3, SameBoot
    <3>2. Remaining(at)' = Remaining(1)'
      BY <2>1 DEF Remaining
    <3> QED BY <3>1, <3>2
  <2>5. ReserveFound'
    BY <1>2, <1>4, <1>6, <1>8, <2>3, <2>4 DEF ReserveFound
  <2> QED BY <2>1, <2>5 DEF FoundInv, InsertFound, UntypedFound, SpareFound
<1> QED BY <1>7, <1>8 DEF InsertRegion

LEMMA ReserveRegionFound ==
  ASSUME HeadersWhole, Inv, FoundInv, ReserveRegion
  PROVE  FoundInv'
<1>1. /\ boot \in Boots /\ at \in Nat \ {0} /\ pc = "reserve" /\ untyped = <<>>
      /\ at <= Len(Reserved) + 1 /\ Separate(Remaining(at), intervals)
  BY DEF Inv, TypeInv, ReserveInv, NoMemoryYet, ReserveRegion
<1>2. MapFits => \A a \in Remaining(at) : Has(intervals, a)
  BY <1>1 DEF FoundInv, ReserveFound
<1>3. boot' = boot /\ untyped' = untyped /\ Len(Reserved) \in Nat
  BY <1>1, BootFacts DEF ReserveRegion
<1>4. PICK F : F = Remaining(at)
  OBVIOUS
<1>5. PICK tab : tab = intervals
  OBVIOUS
<1>6. MapFits' = MapFits
  BY <1>3 DEF MapFits
<1>7. Separate(F, tab)
  BY <1>1, <1>4, <1>5
<1>8. CASE /\ at <= Len(Reserved)
           /\ IF Len(ReserveInterval(intervals, Reserved[at])) > MaxIntervals
              THEN Go("smashed") ELSE Again
           /\ intervals' = ReserveInterval(intervals, Reserved[at])
  <2>1. at \in 1..Len(Reserved)
    BY <1>1, <1>3, <1>8
  <2>2. PICK region \in Spans : region = Reserved[at]
    BY <1>1, <2>1, BootFacts
  <2>3. Whole(region)
    BY <1>1, <2>1, <2>2, ReservedWhole
  <2>4. PICK n \in Nat \ {0} : n = at + 1
    BY <1>1
  <2>5. Remaining(n) = Untouched(F, region)
    BY <1>1, <1>4, <2>2, <2>4, RemainingNext
  <2>6. PICK t : t = ReserveInterval(tab, region)
    OBVIOUS
  <2>7. ASSUME MapFits, NEW a \in Remaining(n) PROVE Has(t, a)
    <3>1. a \in Nat /\ Aligned(a)
      BY PagesAligned
    <3>2. a \in F /\ (a..a + PageLen - 1) \cap (region.lo..region.hi) = {}
      BY <2>5 DEF Untouched
    <3>3. Has(tab, a)
      BY <1>2, <1>4, <1>5, <2>7, <3>2
    <3> QED BY ONLY <1>7, <2>3, <2>6, <3>1, <3>2, <3>3, region \in Spans, ReserveKeeps
  <2>8. CASE pc' = "smashed"
    BY <2>8 DEF FoundInv, InsertFound, ReserveFound, UntypedFound, SpareFound
  <2>9. CASE pc' = "reserve" /\ at' = at + 1
    <3>1. Remaining(at)' = Remaining(n)
      <4>1. Remaining(n)' = Remaining(n)
        BY <1>3, SameBoot
      <4>2. Remaining(at)' = Remaining(n)'
        BY <2>4, <2>9 DEF Remaining
      <4> QED BY <4>1, <4>2
    <3>2. intervals' = t
      BY <1>5, <1>8, <2>2, <2>6
    <3>3. ReserveFound'
      BY <1>6, <2>7, <3>1, <3>2 DEF ReserveFound
    <3> QED BY <2>9, <3>3 DEF FoundInv, InsertFound, UntypedFound, SpareFound
  <2> QED BY <1>1, <1>8, <2>8, <2>9 DEF Go, Again
<1>9. CASE /\ at > Len(Reserved) /\ intervals' = SortIntervals(intervals) /\ Go("untyped")
  <2>1. pc' = "untyped"
    BY <1>9 DEF Go
  <2>2. at = Len(Reserved) + 1
    BY <1>1, <1>3, <1>9
  <2>3. UsablePages' = F
    <3>1. UsablePages' = UsablePages
      BY <1>3, SameBoot
    <3> QED BY <1>4, <2>2, <3>1 DEF UsablePages
  <2>4. PICK t : t = SortIntervals(tab)
    OBVIOUS
  <2>5. \A a : Has(tab, a) => Has(t, a)
    BY <1>7, <2>4, SortSeparate
  <2>6. intervals' = t
    BY <1>5, <1>9, <2>4
  <2>7. Descending(untyped')
    <3>1. 1..Len(untyped') = {}
      BY <1>1, <1>3
    <3> QED BY <3>1 DEF Descending
  <2>8. MapFits' => \A a \in F : Has(t, a)
    BY <1>2, <1>4, <1>5, <1>6, <2>5
  <2>9. UntypedFound'
    BY <2>3, <2>6, <2>7, <2>8 DEF UntypedFound, BlocksFit
  <2> QED BY <2>1, <2>9 DEF FoundInv, InsertFound, ReserveFound, SpareFound
<1> QED BY <1>8, <1>9 DEF ReserveRegion

LEMMA AddBlockFound ==
  ASSUME Inv, FoundInv, AddBlock
  PROVE  FoundInv'
<1>1. /\ boot \in Boots /\ pc = "untyped" /\ intervals # <<>> /\ MemoryInv
      /\ Separate(UsablePages, intervals)
  BY DEF Inv, TypeInv, UntypedInv, AddBlock
<1>2. /\ Descending(untyped)
      /\ BlocksFit(untyped) => \A a \in UsablePages : Has(intervals, a) \/ InBlock(untyped, a)
  BY <1>1 DEF FoundInv, UntypedFound
<1>3. boot' = boot /\ pc' = pc
  BY DEF AddBlock
<1>4. UsablePages' = UsablePages /\ MapFits' = MapFits
  BY <1>3, SameBoot DEF MapFits
<1>5. PICK F : F = UsablePages
  OBVIOUS
<1>6. PICK ints : ints = intervals
  OBVIOUS
<1>7. PICK tab : tab = untyped
  OBVIOUS
<1>8. Separate(F, ints) /\ ints # <<>> /\ tab \in Seq(UntypedSet) /\ ints \in Seq(Spans)
  BY <1>1, <1>5, <1>6, <1>7 DEF MemoryInv, UsedOnce, TypedMemory, Separate
<1>9. PICK first : first = ints[1]
  OBVIOUS
<1>10. Clear(F, first) /\ first \in Spans
  <2>1. 1 \in DOMAIN ints
    <3>1. Len(ints) # 0
      BY <1>8
    <3> QED BY <1>8, <3>1, DomainOfSeq
  <2> QED BY <1>8, <1>9, <2>1 DEF Separate, Clear
<1>11. PICK b : b = BlockBits(first.lo, first.hi)
  OBVIOUS
<1>12. /\ first.lo + PageLen - 1 <= first.hi
       /\ 2^b \in Nat \ {0} /\ Aligned(first.lo + 2^b) /\ first.lo + 2^b - 1 <= first.hi
       /\ UntypedCap(first.lo, b) \in UntypedSet
       /\ Rest(UntypedCap(first.lo, b)) = first.lo..first.lo + 2^b - 1
       /\ FirstPageAfter(first.lo) = first.lo
  BY <1>10, <1>11, BlockIsUntyped
<1>13. PICK last : last = first.lo + 2^b - 1
  OBVIOUS
<1>14. first.lo \in Nat /\ last \in Int /\ Aligned(last + 1)
  <2>1. first.lo \in Nat
    BY <1>10, SpanFields
  <2>2. PICK L \in Nat \ {0} : L = 2^b
    BY <1>12
  <2>3. last = first.lo + L - 1 /\ last + 1 = first.lo + L
    BY <1>13, <2>1, <2>2
  <2> QED BY <1>12, <2>1, <2>2, <2>3
<1>15. PICK new : new = UntypedCap(first.lo, b)
  OBVIOUS
<1>16. PICK tab2 : tab2 = InsertUntyped(tab, first.lo, b)
  OBVIOUS
<1>17. PICK ints2 : ints2 = LeftOf(ints, last)
  OBVIOUS
<1>18. untyped' = tab2 /\ intervals' = ints2
  <2>1. ~(first.lo < first.lo \/ first.lo + PageLen - 1 > first.hi)
    <3>1. PICK lower \in Nat, upper \in Nat, P \in Nat :
            lower = first.lo /\ upper = first.hi /\ P = PageLen
      BY <1>10, SpanFields, PageFacts
    <3>2. lower + P - 1 <= upper
      BY <1>12, <3>1
    <3>3. ~(lower < lower \/ lower + P - 1 > upper)
      BY ONLY <3>1, <3>2
    <3> QED BY <3>1, <3>3
  <2>2. intervals[1] = first
    BY <1>6, <1>9
  <2>3. IF first.lo < first.lo \/ first.lo + PageLen - 1 > first.hi
        THEN intervals' = Tail(intervals) /\ UNCHANGED untyped
        ELSE /\ untyped' = InsertUntyped(untyped, first.lo, b)
             /\ intervals' = IF last < first.hi
                             THEN [intervals EXCEPT ![1].lo = last + 1]
                             ELSE Tail(intervals)
    BY <1>11, <1>12, <1>13, <2>2 DEF AddBlock
  <2> QED BY <1>6, <1>7, <1>9, <1>16, <1>17, <2>1, <2>3 DEF LeftOf
<1>19. /\ Descending(tab) => Descending(tab2)
       /\ tab2 \in Seq(UntypedSet)
       /\ Len(tab2) < MaxUntyped =>
            /\ Len(tab2) = Len(tab) + 1
            /\ \E i \in 1..Len(tab2) : tab2[i] = UntypedCap(first.lo, b)
            /\ \A i \in 1..Len(tab) : \E j \in 1..Len(tab2) : tab2[j] = tab[i]
  <2>1. UntypedCap(first.lo, b) \in UntypedSet /\ tab \in Seq(UntypedSet)
    BY <1>8, <1>12
  <2> QED BY ONLY <1>16, <2>1, InsertUntypedFacts
<1>20. ASSUME BlocksFit(tab2), NEW a \in F
       PROVE  Has(ints2, a) \/ InBlock(tab2, a)
  <2>1. Len(tab2) < MaxUntyped /\ MapFits
    BY <1>20 DEF BlocksFit
  <2>2. BlocksFit(tab)
    <3>1. Len(tab) \in Nat /\ Len(tab2) \in Nat /\ MaxUntyped \in Nat
      BY <1>8, <1>19, WidthsAssumption, DomainOfSeq
    <3> QED BY <1>19, <2>1, <3>1 DEF BlocksFit
  <2>3. Has(ints, a) \/ InBlock(tab, a)
    BY <1>2, <1>5, <1>6, <1>7, <1>20, <2>2
  <2>4. a \in Nat /\ Aligned(a)
    BY <1>5, <1>20, PagesAligned
  <2>5. CASE InBlock(tab, a)
    BY <1>19, <2>1, <2>5 DEF InBlock
  <2>6. CASE Has(ints, a) /\ ~(first.lo <= a /\ a <= last)
    <3>1. ~(ints[1].lo <= a /\ a <= last)
      BY <1>9, <2>6
    <3> QED BY ONLY <1>8, <1>14, <1>17, <2>4, <2>6, <3>1, LeftKeeps
  <2>7. CASE first.lo <= a /\ a <= last
    <3>1. a < last + 1 /\ last + 1 \in Int
      BY <1>14, <2>4, <2>7
    <3>2. a + PageLen <= last + 1
      BY <1>14, <2>4, <3>1, AlignedApart
    <3>3. Page(a) \subseteq first.lo..last
      <4>1. PICK P \in Nat : P = PageLen
        BY PageFacts
      <4>2. a..a + P - 1 \subseteq first.lo..last
        BY ONLY <1>14, <2>4, <2>7, <3>2, <4>1
      <4> QED BY <4>1, <4>2 DEF Page
    <3>4. Rest(UntypedCap(first.lo, b)) = first.lo..last
      BY <1>12, <1>13
    <3> QED BY <1>19, <2>1, <3>3, <3>4 DEF InBlock
  <2> QED BY <2>3, <2>5, <2>6, <2>7
<1>21. UntypedFound'
  <2>1. Descending(tab2)
    BY <1>2, <1>7, <1>19
  <2>2. BlocksFit(untyped)' = BlocksFit(tab2)
    BY <1>4, <1>18 DEF BlocksFit
  <2>3. Descending(untyped)' = Descending(tab2)
    BY <1>18 DEF Descending
  <2>4. \A a : Has(intervals, a)' = Has(ints2, a) /\ InBlock(untyped, a)' = InBlock(tab2, a)
    BY <1>18 DEF Has, InBlock
  <2> QED BY <1>4, <1>5, <1>20, <2>1, <2>2, <2>3, <2>4 DEF UntypedFound
<1> QED BY <1>1, <1>3, <1>21 DEF FoundInv, InsertFound, ReserveFound, SpareFound

LEMMA MemoryReadyFound ==
  ASSUME Inv, FoundInv, MemoryReady
  PROVE  FoundInv'
<1>1. /\ pc = "untyped" /\ intervals = <<>> /\ pc' \in {"nomemory", "spare"}
      /\ boot' = boot /\ untyped' = untyped
  BY DEF MemoryReady
<1>2. /\ Descending(untyped)
      /\ BlocksFit(untyped) => \A a \in UsablePages : Has(intervals, a) \/ InBlock(untyped, a)
  BY <1>1 DEF FoundInv, UntypedFound
<1>3. \A a : ~Has(intervals, a)
  BY <1>1 DEF Has
<1>4. UsablePages' = UsablePages /\ BlocksFit(untyped)' = BlocksFit(untyped)
  BY <1>1, SameBoot DEF BlocksFit, MapFits
<1>5. Descending(untyped)' /\ \A a : InBlock(untyped, a)' = InBlock(untyped, a)
  BY <1>1, <1>2 DEF Descending, InBlock
<1>6. SpareFound'
  BY <1>2, <1>3, <1>4, <1>5 DEF SpareFound
<1> QED BY <1>1, <1>6 DEF FoundInv, InsertFound, ReserveFound, UntypedFound

LEMMA OutcomeRange ==
  ASSUME NEW p, NEW virt
  PROVE  Outcome(p, virt) \in {"nomemory", "badmap", "mapped"}
<1>1. CASE Exhausted(Memory)
  BY <1>1 DEF Outcome
<1>2. CASE ~Exhausted(Memory)
  <2>1. PICK m : m = AllocPage(Memory, Data)
    OBVIOUS
  <2>2. Outcome(p, virt) = CASE MapFails(m, p, virt) -> "badmap"
                             [] ~MapFails(m, p, virt) ->
                                  IF Entry(m.objects, p, virt) = 0 /\ Exhausted(m)
                                  THEN "nomemory" ELSE "mapped"
    BY <1>2, <2>1 DEF Outcome
  <2>3. CASE MapFails(m, p, virt)
    BY <2>2, <2>3
  <2>4. CASE ~MapFails(m, p, virt)
    BY <2>2, <2>4
  <2> QED BY <2>3, <2>4
<1> QED BY <1>1, <1>2

\* From the second of the pages that the kernel shows on, there is nothing to keep.
LEMMA LaterFound ==
  ASSUME Inv, SparePage \/ NewPdir \/ CopyUserPage \/ NewCspace \/ Syscall \/ TimerInterrupt
  PROVE  FoundInv'
<1>1. pc' \notin {"insert", "reserve", "untyped"} /\ (pc' = "spare" => at' # 1)
  <2>1. at \in Nat \ {0}
    BY DEF Inv, TypeInv
  <2>2. CASE SparePage
    BY <2>1, <2>2 DEF SparePage, Halt, Again, Go
  <2>3. CASE NewPdir
    BY <2>3 DEF NewPdir, Halt
  <2>4. CASE CopyUserPage
    BY <2>4, OutcomeRange DEF CopyUserPage, Halt
  <2>5. CASE NewCspace
    BY <2>5 DEF NewCspace, Halt, Go
  <2>6. CASE Syscall \/ TimerInterrupt
    <3>1. pc = "run"
      BY <2>6, UserMode
    <3>2. \A i, s, j, d, copy : CapMove(i, s, j, d, copy) => pc' = pc
      BY DEF CapMove
    <3>3. \A u, j, d, bits, cap, objs : Allocate(u, j, d, bits, cap, objs) => pc' = pc
      BY DEF Allocate
    <3>4. /\ \A u, j, d : AllocCspace(u, j, d) => pc' = pc
          /\ \A u, j, d, bits : AllocUntyped(u, j, d, bits) => pc' = pc
      BY <3>3 DEF AllocCspace, AllocUntyped
    <3>5. \A virt : KMapPage(virt) => pc' = pc \/ pc' \in {"nomemory", "badmap", "mapped"}
      BY OutcomeRange DEF KMapPage, Halt
    <3>6. TimerInterrupt => pc' = pc
      BY DEF TimerInterrupt
    <3> QED BY <2>6, <3>1, <3>2, <3>4, <3>5, <3>6 DEF Syscall
  <2> QED BY <2>2, <2>3, <2>4, <2>5, <2>6
<1> QED BY <1>1 DEF FoundInv, InsertFound, ReserveFound, UntypedFound, SpareFound

LEMMA StutterFound ==
  ASSUME FoundInv, UNCHANGED vars
  PROVE  FoundInv'
<1>1. UNCHANGED <<boot, pc, at, intervals, untyped>>
  BY DEF vars
<1>2. /\ \A n : Inserted(n)' = Inserted(n) /\ Remaining(n)' = Remaining(n)
      /\ UsablePages' = UsablePages /\ MapFits' = MapFits
  BY <1>1, SameBoot DEF MapFits
<1>3. Inserted(at)' = Inserted(at) /\ Remaining(at)' = Remaining(at)
  BY <1>1 DEF Inserted, Remaining, Reserved
<1>4. \A a : Has(intervals, a)' = Has(intervals, a) /\ InBlock(untyped, a)' = InBlock(untyped, a)
  BY <1>1 DEF Has, InBlock
<1>5. Descending(untyped)' = Descending(untyped) /\ BlocksFit(untyped)' = BlocksFit(untyped)
  BY <1>1, <1>2 DEF Descending, BlocksFit
<1>6. InsertFound' /\ ReserveFound'
  BY <1>1, <1>2, <1>3, <1>4 DEF FoundInv, InsertFound, ReserveFound
<1>7. UntypedFound' /\ SpareFound'
  BY <1>1, <1>2, <1>4, <1>5 DEF FoundInv, UntypedFound, SpareFound
<1> QED BY <1>6, <1>7 DEF FoundInv

LEMMA FoundStep ==
  ASSUME HeadersWhole, Inv, FoundInv, [Next]_vars
  PROVE  FoundInv'
<1>1. CASE InsertRegion \/ ReserveRegion \/ AddBlock \/ MemoryReady
  BY <1>1, InsertRegionFound, ReserveRegionFound, AddBlockFound, MemoryReadyFound
<1>2. CASE SparePage \/ NewPdir \/ CopyUserPage \/ NewCspace \/ Syscall \/ TimerInterrupt
  BY <1>2, LaterFound
<1>3. CASE UNCHANGED vars
  BY <1>3, StutterFound
<1> QED BY <1>1, <1>2, <1>3 DEF Next, Booting

\* What is usable is in a usable page.
LEMMA UsableInPages ==
  ASSUME boot \in Boots
  PROVE  \A x \in Usable : \E a \in UsablePages : x \in Page(a)
<1>1. PICK n \in Nat : n = Len(Reserved)
  BY BootFacts
<1>2. PICK l \in Nat : l = Len(boot.mmap)
  BY BootFacts
<1>3. PICK free : free = UNION {PagesIn(boot.mmap[k].lo, boot.mmap[k].hi) : k \in DOMAIN boot.mmap}
  OBVIOUS
<1>4. PICK taken : taken = UNION {Reserved[k].lo..Reserved[k].hi : k \in DOMAIN Reserved}
  OBVIOUS
<1>5. Usable = UNION {a..a + PageLen - 1 : a \in {b \in free : (b..b + PageLen - 1) \cap taken = {}}}
  BY <1>3, <1>4 DEF Usable
<1>6. DOMAIN boot.mmap = 1..l /\ DOMAIN Reserved = 1..n
  <2>1. boot.mmap \in Seq(Spans) /\ Reserved \in Seq(Spans)
    BY CapsAssumption, BootFacts
  <2> QED BY <1>1, <1>2, <2>1, DomainOfSeq
<1>7. (l + 1) - 1 = l /\ (n + 1) - 1 = n
  BY <1>1, <1>2
<1>8. ASSUME NEW a \in free, Page(a) \cap taken = {} PROVE a \in UsablePages
  <2>1. a \in Inserted(l + 1)
    BY <1>3, <1>6, <1>7, <1>8 DEF Inserted
  <2>2. \A k \in 1..n : Page(a) \cap (Reserved[k].lo..Reserved[k].hi) = {}
    BY <1>4, <1>6, <1>8
  <2> QED BY <1>1, <1>2, <1>7, <2>1, <2>2 DEF UsablePages, Remaining
<1>9. ASSUME NEW x \in Usable PROVE \E a \in UsablePages : x \in Page(a)
  <2>1. PICK a \in free : Page(a) \cap taken = {} /\ x \in Page(a)
    BY <1>5, <1>9 DEF Page
  <2> QED BY <1>8, <2>1
<1> QED BY <1>9

\* The blocks that initMemory finds are in the usable memory and, unless a table was
\* too short, are all of it, the larger ones first.
THEOREM UntypedExactTheorem ==
  ASSUME HeadersWhole
  PROVE  Spec => []UntypedExact
<1>1. Init => Inv /\ FoundInv
  BY InitInv, InitFound
<1>2. Inv /\ FoundInv /\ [Next]_vars => Inv' /\ FoundInv'
  BY InvStep, FoundStep
<1>3. Inv /\ FoundInv => UntypedExact
  <2> SUFFICES ASSUME Inv, FoundInv, pc = "spare", at = 1 PROVE UntypedExact
    BY DEF UntypedExact
  <2>1. boot \in Boots /\ UsedOnce(Usable, untyped, objects) /\ TypedMemory(untyped, objects)
    BY DEF Inv, TypeInv, MemoryInv, UsedOnce
  <2>2. DOMAIN untyped = 1..Len(untyped)
    <3>1. untyped \in Seq(UntypedSet)
      BY <2>1 DEF TypedMemory
    <3> QED BY <3>1, DomainOfSeq
  <2>3. /\ Descending(untyped)
        /\ BlocksFit(untyped) => \A a \in UsablePages : InBlock(untyped, a)
    BY DEF FoundInv, SpareFound
  <2>4. PICK found : found = UNION {Rest(untyped[i]) : i \in DOMAIN untyped}
    OBVIOUS
  <2>5. found \subseteq Usable
    <3>1. ASSUME NEW i \in 1..Len(untyped) PROVE Rest(untyped[i]) \subseteq Usable
      BY <2>1, TableHolder DEF UsedOnce
    <3> QED BY <2>2, <2>4, <3>1
  <2>6. ASSUME Len(untyped) < MaxUntyped, Len(boot.mmap) <= MaxIntervals
        PROVE  found = Usable
    <3>1. \A a \in UsablePages : InBlock(untyped, a)
      BY <2>3, <2>6 DEF BlocksFit, MapFits
    <3>2. ASSUME NEW x \in Usable PROVE x \in found
      <4>1. PICK a \in UsablePages : x \in Page(a)
        BY <2>1, UsableInPages
      <4>2. PICK i \in 1..Len(untyped) : Page(a) \subseteq Rest(untyped[i])
        BY <3>1 DEF InBlock
      <4> QED BY <2>2, <2>4, <4>1, <4>2
    <3> QED BY <2>5, <3>2
  <2>7. \A i, j \in DOMAIN untyped : i <= j => untyped[i].bits >= untyped[j].bits
    BY <2>2, <2>3 DEF Descending
  <2> QED BY <2>4, <2>5, <2>6, <2>7 DEF UntypedExact
<1> QED BY <1>1, <1>2, <1>3, PTL DEF Spec

=============================================================================
