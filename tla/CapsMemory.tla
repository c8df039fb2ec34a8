------------------------------ MODULE CapsMemory ------------------------------
(***************************************************************************)
(* How the capability kernel turns the memory map into untyped memory, and *)
(* takes objects from it: caps/kernel/alloc.c, the rounding macros of      *)
(* memory.h, and alloc in caps.c.  Operators only; Caps is the machine.    *)
(*                                                                         *)
(* Addresses are physical, and unsigned words of WordBits bits.            *)
(***************************************************************************)
EXTENDS Integers, FiniteSets, SequencesExt

CONSTANTS
  WordBits,        \* WORDSIZE
  PageBits,        \* PAGESIZE
  MinUntypedBits,  \* MIN_UNTYPED_BITS
  MaxIntervals,    \* MAX_INTERVALS
  MaxUntyped       \* MAX_UNTYPED

ASSUME WidthsAssumption ==
  /\ {WordBits, PageBits, MaxIntervals, MaxUntyped} \subseteq Nat \ {0}
  /\ MinUntypedBits \in Nat
  /\ MinUntypedBits <= PageBits /\ PageBits < WordBits

\* What the powers are that occur: arithmetic, which the provers do not know.
ASSUME PowersAssumption ==
  2^0 = 1 /\ \A b \in 0..WordBits - 1 : 2^(b + 1) = 2 * 2^b

Words   == 2^WordBits
PageLen == 2^PageBits
Addr    == 0..Words - 1

Span(lo, hi) == [lo |-> lo, hi |-> hi]
Spans        == [lo : Addr, hi : Addr]
Lesser(a, b)  == IF a < b THEN a ELSE b
Greater(a, b) == IF a < b THEN b ELSE a

-----------------------------------------------------------------------------
(* Rounding to pages, with the wrap around of unsigned arithmetic.         *)

PageStart(x)      == x - (x % PageLen)
PageEnd(x)        == PageStart(x) + PageLen - 1
FirstPageAfter(x) == PageStart((x + PageLen - 1) % Words)
EndPageBefore(x)  == PageEnd((x - (PageLen - 1)) % Words)

\* Reference: the pages that are wholly between two addresses.
PagesIn(from, to) == {a \in Addr : a % PageLen = 0 /\ from <= a /\ a + PageLen - 1 <= to}

-----------------------------------------------------------------------------
(* Intervals: the arrays lo and hi are a sequence of spans.  The loops go  *)
(* from the last index down, since removing one moves the last in its      *)
(* place.                                                                  *)

DropAt(tab, m) == SubSeq([tab EXCEPT ![m] = tab[Len(tab)]], 1, Len(tab) - 1)

Apart(s, t) ==
  \/ t.hi < s.lo /\ (t.hi + 1) % Words < s.lo
  \/ s.hi < t.lo /\ s.hi < (t.lo - 1) % Words

\* Widen the new span by the m-th interval, and take that out of the table.
Absorb(acc, m) ==
  LET s == acc.tab[m]  t == acc.new
  IN  IF Apart(s, t) THEN acc
      ELSE [tab |-> DropAt(acc.tab, m),
            new |-> Span(Lesser(s.lo, t.lo), Greater(s.hi, t.hi))]

Merged(tab, new) ==
  LET loop[k \in 0..Len(tab)] ==
        IF k = 0 THEN [tab |-> tab, new |-> new] ELSE Absorb(loop[k - 1], Len(tab) + 1 - k)
  IN  loop[Len(tab)]

InsertInterval(tab, region) ==
  LET new    == Span(FirstPageAfter(region.lo), EndPageBefore(region.hi))
      merged == Merged(tab, new)
  IN  IF new.lo >= new.hi THEN tab
      ELSE IF Len(merged.tab) < MaxIntervals THEN Append(merged.tab, merged.new)
      ELSE merged.tab

\* Cut r out of the m-th interval.  When it splits, the loop is over.
CutOut(r, acc, m) ==
  LET s == acc.tab[m]
      Keep(lo, hi) == [acc EXCEPT !.tab[m] = Span(lo, hi)]
  IN  CASE acc.split \/ s.lo > r.hi \/ r.lo > s.hi -> acc
        [] OTHER ->
           CASE s.lo < r.lo /\ r.hi < s.hi ->
                  [tab |-> Append([acc.tab EXCEPT ![m] = Span(s.lo, r.lo - 1)],
                                  Span(r.hi + 1, s.hi)),
                   split |-> TRUE]
             [] s.lo < r.lo /\ r.hi >= s.hi  -> Keep(s.lo, r.lo - 1)
             [] s.lo >= r.lo /\ r.hi < s.hi  -> Keep(r.hi + 1, s.hi)
             [] s.lo >= r.lo /\ r.hi >= s.hi ->
                  [acc EXCEPT !.tab = DropAt(acc.tab, m)]

Cut(tab, r) ==
  LET loop[k \in 0..Len(tab)] ==
        IF k = 0 THEN [tab |-> tab, split |-> FALSE] ELSE CutOut(r, loop[k - 1], Len(tab) + 1 - k)
  IN  loop[Len(tab)].tab

ReserveInterval(tab, region) ==
  LET r == Span(PageStart(region.lo), PageEnd(region.hi))
  IN  IF r.lo >= r.hi THEN tab ELSE Cut(tab, r)

\* The intervals start at different addresses: each has so many before it.
Before(tab, m) == Cardinality({k \in DOMAIN tab : tab[k].lo < tab[m].lo})
SortIntervals(tab) ==
  [i \in DOMAIN tab |-> tab[CHOOSE m \in DOMAIN tab : Before(tab, m) = i - 1]]

-----------------------------------------------------------------------------
(* Untyped memory, and the table of it, with the largest first.            *)

UntypedCap(memory, bits) ==
  [type |-> "untyped", memory |-> memory, bits |-> bits, next |-> 0]

ValidUntypedSize(bits) == bits \in MinUntypedBits..WordBits - 1

\* The largest aligned block at "next" that ends by "hi".
BlockBits(next, hi) ==
  LET Fits(b) == next % 2^b = 0 /\ next + 2^b - 1 <= hi
  IN  CHOOSE b \in PageBits..WordBits :
        Fits(b) /\ \A c \in PageBits..WordBits : Fits(c) => c <= b

\* A slip: insertUntyped that puts the block at the end of the table.
AppendUntyped(tab, memory, bits) ==
  SubSeq(Append(tab, UntypedCap(memory, bits)), 1, Lesser(Len(tab) + 1, MaxUntyped))

InsertUntyped(tab, memory, bits) ==
  LET i   == SelectInSeq(tab, LAMBDA u : bits > u.bits)
      new == InsertAt(tab, IF i = 0 THEN Len(tab) + 1 ELSE i, UntypedCap(memory, bits))
  IN  SubSeq(new, 1, Lesser(Len(new), MaxUntyped))

\* alloc: the first aligned place in what is left, if it fits.
ObjectAt(u, bits) ==
  LET up == (u.next + 2^bits - 1) % Words IN up - (up % 2^bits)
LastAt(u, bits)   == (ObjectAt(u, bits) + 2^bits - 1) % Words
Allocates(u, bits) ==
  u.next <= ObjectAt(u, bits) /\ LastAt(u, bits) <= 2^u.bits - 1
Object(u, bits) == u.memory + ObjectAt(u, bits)
After(u, bits)  == [u EXCEPT !.next = LastAt(u, bits) + 1]

\* What the capability to untyped memory still gives out.
Rest(u) == (u.memory + u.next)..(u.memory + 2^u.bits - 1)

\* allocPage: from the last of the table that has a page; those behind it
\* are dropped.
Givers(tab) == {i \in DOMAIN tab : Allocates(tab[i], PageBits)}
Giver(tab)  == CHOOSE i \in Givers(tab) : \A j \in Givers(tab) : j <= i
PageFrom(tab)  == Object(tab[Giver(tab)], PageBits)
AfterPage(tab) ==
  SubSeq([tab EXCEPT ![Giver(tab)] = After(@, PageBits)], 1, Giver(tab))
=============================================================================
