----------------------------- MODULE SpacesProofs -----------------------------
(***************************************************************************)
(* Proofs about Spaces: of PagesExact, CountsExact and SeesOwnSpace, for   *)
(* utcb areas of any size, in SparingSpec: no memory is received over part *)
(* of a utcb area (section 8 of the README, fourth item).                  *)
(***************************************************************************)
EXTENDS Spaces, NatLemmas, FiniteSetTheorems, SequenceTheorems

-----------------------------------------------------------------------------
(***************************************************************************)
(* The inductive invariant.  Its parts take the fields of memory that they *)
(* are about, the threads T, their numbers S in the directory of TCBs, and *)
(* the objects K that are neither spaces nor mappings.                     *)
(***************************************************************************)
Lists(s, S) ==
  /\ s \in Seq(S)
  /\ \A x \in S : \E i \in DOMAIN s : s[i] = x
  /\ \A i, j \in DOMAIN s : i # j => s[i] # s[j]

ObjectPages == [count : Nat, free : Seq(Nat), last : Nat]

\* A page of objects of which those in the places "here" are in use.
PageOK(r, here) ==
  /\ r \in ObjectPages /\ r.last <= Full /\ here \subseteq 1..r.last
  /\ r.count = Cardinality(here) /\ r.count > 0
  /\ Lists(r.free, (1..r.last) \ here)

Places(U, p) == {i \in Nat : <<p, i>> \in U}

ObjInv(objs, partials, U) ==
  /\ objs \in [DOMAIN objs -> ObjectPages] /\ DOMAIN objs \subseteq Nat \ {0}
  /\ U \subseteq (DOMAIN objs) \X Nat
  /\ \A p \in DOMAIN objs : PageOK(objs[p], Places(U, p))
  /\ Lists(partials, {p \in DOMAIN objs : objs[p].count < Full})

TabInv(pdir, ptab) ==
  /\ DOMAIN pdir \subseteq Directories
  /\ pdir \in [DOMAIN pdir -> [Super -> Tables \cup {None}]]
  /\ \A d \in DOMAIN pdir, i \in Super : pdir[d][i] \in {None, TablePage(d, i)}
  /\ ptab \in [DOMAIN ptab -> [PageNo -> Utcbs \cup {None, Kip, User}]]
  /\ \A p \in DOMAIN ptab : \E d \in DOMAIN pdir, i \in Super : p = TablePage(d, i) /\ pdir[d][i] = p
  /\ \A d \in DOMAIN pdir, i \in Super :
       pdir[d][i] # None =>
         /\ pdir[d][i] \in DOMAIN ptab
         /\ \A n \in PageNo : ptab[pdir[d][i]][n] \in {None, Kip, User, UtcbPage(d, <<i, n>>)}

\* The utcbs in page tables.
UtcbsIn(ptab) == {u \in Utcbs : \E p \in DOMAIN ptab, n \in PageNo : u = ptab[p][n]}

InUse(m) ==
  {ObjectPage(k) : k \in DOMAIN m.objs} \cup {TCBPage(i) : i \in DOMAIN m.table}
    \cup DOMAIN m.pdir \cup DOMAIN m.ptab \cup UtcbsIn(m.ptab)

UsedInv(m) == /\ m.num \in Int /\ IsFiniteSet(m.used) /\ m.num + Cardinality(m.used) = NumPages
              /\ m.used = InUse(m)

Threads(T, s)  == {t \in DOMAIN T : T[t].space = s}
Actives(T, s)  == {t \in DOMAIN T : T[t].space = s /\ T[t].utcb # None}
SpaceSet == [pdir : Directories \cup {None}, area : Areas \cup {PrivArea, None},
             count : Nat, active : Nat, loaded : BOOLEAN]

\* Directory d has a page at l that is not one of utcbs.
Foreign(pdir, ptab, d, l) ==
  pdir[d][l[1]] # None /\ ptab[pdir[d][l[1]]][l[2]] \in {Kip, User}

\* The utcbs of an active space are where its area says, and nothing else is.
HasUtcb(pdir, ptab, s, area) ==
  /\ DirectoryPage(s) \in DOMAIN pdir
  /\ \A l \in area.utcb : ~Foreign(pdir, ptab, DirectoryPage(s), l)
  /\ \A l \in Loc : UtcbPage(DirectoryPage(s), l) \in UtcbsIn(ptab) => l \in area.utcb

SpaceInv(space, pdir, ptab) ==
  /\ space \in [DOMAIN space -> SpaceSet] /\ DOMAIN space \subseteq Object
  /\ \A s \in DOMAIN space :
       /\ space[s].pdir \in {None, DirectoryPage(s)}
       /\ space[s].pdir # None => space[s].area # None
       /\ space[s].active # 0 => /\ space[s].pdir # None
                                 /\ HasUtcb(pdir, ptab, s, space[s].area)
  /\ \A d \in DOMAIN pdir : \E s \in DOMAIN space : d = DirectoryPage(s) /\ space[s].active # 0

ThreadInv(space, T) ==
  /\ IsFiniteSet(DOMAIN T) /\ DOMAIN T \subseteq Thread
  /\ T \in [DOMAIN T -> [space : DOMAIN space, utcb : Utcbs \cup {None}]]
  /\ \A s \in DOMAIN space : /\ space[s].count = Cardinality(Threads(T, s))
                             /\ space[s].active = Cardinality(Actives(T, s))
  /\ \A t \in DOMAIN T : T[t].utcb # None =>
       \E l \in space[T[t].space].area.utcb : T[t].utcb = UtcbPage(DirectoryPage(T[t].space), l)

\* The utcbs of threads are in page tables.
UtcbInv(ptab, T) == \A t \in DOMAIN T : T[t].utcb # None => T[t].utcb \in UtcbsIn(ptab)

MapInv(mapping, space) ==
  /\ mapping \in [DOMAIN mapping -> [space : DOMAIN space, loc : Loc]]
  /\ \A o \in DOMAIN mapping : LET s == mapping[o].space IN
       space[s].active # 0 /\ mapping[o].loc \notin space[s].area.utcb

LoadInv(space, cr3, currentSpace, stale) ==
  /\ stale \in BOOLEAN
  /\ currentSpace \in DOMAIN space /\ space[currentSpace].active # 0 /\ space[currentSpace].loaded
       => cr3 = space[currentSpace].pdir /\ ~stale

Residents(S, i) == {t \in S : TableFor(t) = i}

TcbInv(table, S) ==
  /\ S \subseteq Thread /\ IsFiniteSet(S)
  /\ \A i : i \in DOMAIN table <=> Residents(S, i) # {}
  /\ table = [i \in DOMAIN table |-> Cardinality(Residents(S, i))]

Objects(m, K) == DOMAIN m.space \cup DOMAIN m.mapping \cup K
Apart(m, K) == /\ DOMAIN m.space \cap DOMAIN m.mapping = {}
               /\ DOMAIN m.space \cap K = {} /\ DOMAIN m.mapping \cap K = {}

Shape(m) ==
  m = [used |-> m.used, num |-> m.num, partials |-> m.partials, objs |-> m.objs,
       space |-> m.space, mapping |-> m.mapping, pdir |-> m.pdir, ptab |-> m.ptab,
       table |-> m.table, cr3 |-> m.cr3, currentSpace |-> m.currentSpace, stale |-> m.stale]

MemInv(m, T, S, K) ==
  /\ Shape(m) /\ UsedInv(m)
  /\ ObjInv(m.objs, m.partials, Objects(m, K)) /\ Apart(m, K)
  /\ TabInv(m.pdir, m.ptab) /\ SpaceInv(m.space, m.pdir, m.ptab)
  /\ ThreadInv(m.space, T) /\ UtcbInv(m.ptab, T)
  /\ MapInv(m.mapping, m.space) /\ LoadInv(m.space, m.cr3, m.currentSpace, m.stale)
  /\ TcbInv(m.table, S)

\* What SpaceControl does not change: sigma0 has the area it was booted with.
PrivInv(space) == /\ sigma0Space \in DOMAIN space /\ space[sigma0Space].pdir # None
                  /\ space[sigma0Space].area = PrivArea

Inhabited(space, T) == /\ \A s \in DOMAIN space : privileged(s) \/ Threads(T, s) # {}
                       /\ PrivInv(space)

RunInv ==
  current # Idle =>
    /\ current \in DOMAIN tcb /\ tcb[current].utcb # None
    /\ mem.currentSpace = tcb[current].space
    /\ mem.cr3 = mem.space[tcb[current].space].pdir
    /\ ~mem.stale

IInv ==
  /\ MemInv(mem, tcb, DOMAIN tcb, KernelObjs) /\ mem.num >= 0
  /\ Inhabited(mem.space, tcb) /\ RunInv

-----------------------------------------------------------------------------
(***************************************************************************)
(* Lists without repetition.                                               *)
(***************************************************************************)
LEMMA UpTo ==
  ASSUME NEW n \in Nat
  PROVE  IsFiniteSet(1..n) /\ Cardinality(1..n) = n
<1>1. 1 \in Int /\ n \in Int /\ (IF 1 > n THEN 0 ELSE n - 1 + 1) = n
  OBVIOUS
<1> QED BY <1>1, FS_Interval

LEMMA ListEmpty == Lists(<< >>, {})
<1>1. << >> \in Seq({}) /\ DOMAIN << >> = {}
  BY EmptySeq
<1> QED BY <1>1 DEF Lists

LEMMA ListOne ==
  ASSUME NEW x
  PROVE  Lists(<<x>>, {x})
<1>1. <<x>> \in Seq({x}) /\ Len(<<x>>) = 1 /\ DOMAIN <<x>> = 1..1 /\ <<x>>[1] = x
  OBVIOUS
<1> QED BY <1>1 DEF Lists

LEMMA ListLen ==
  ASSUME NEW S, NEW s, Lists(s, S)
  PROVE  /\ IsFiniteSet(S) /\ Cardinality(S) = Len(s) /\ Len(s) \in Nat
         /\ DOMAIN s = 1..Len(s) /\ Range(s) = S
<1>1. PICK n \in Nat : n = Len(s) /\ s \in [1..n -> S] /\ DOMAIN s = 1..n
  BY LenProperties DEF Lists
<1>2. s \in Bijection(1..n, S)
  BY <1>1 DEF Lists, Bijection, Injection, Surjection, IsInjective
<1>3. IsFiniteSet(1..n) /\ Cardinality(1..n) = n
  BY FS_Interval
<1>4. IsFiniteSet(S) /\ Cardinality(S) = n
  BY <1>2, <1>3, FS_Bijection DEF ExistsBijection
<1>5. Range(s) = S
  BY <1>1 DEF Lists, Range
<1> QED BY <1>1, <1>4, <1>5

LEMMA ListTail ==
  ASSUME NEW S, NEW s, Lists(s, S), s # << >>
  PROVE  Head(s) \in S /\ Lists(Tail(s), S \ {Head(s)})
<1>1. PICK n \in Nat : n = Len(s) /\ s \in Seq(S) /\ n > 0 /\ DOMAIN s = 1..n
  BY LenProperties, EmptySeq DEF Lists
<1>2. PICK t : t = Tail(s) /\ t \in Seq(S) /\ Len(t) = n - 1 /\ DOMAIN t = 1..n - 1
               /\ \A i \in 1..n - 1 : t[i] = s[i + 1]
  <2>1. PICK t : t = Tail(s)
    BY Zenon
  <2>2. t \in Seq(S) /\ Len(t) = n - 1 /\ \A i \in 1..Len(t) : t[i] = s[i + 1]
    BY <2>1, <1>1, HeadTailProperties
  <2>3. DOMAIN t = 1..n - 1
    BY <2>2, LenProperties
  <2> QED BY <2>1, <2>2, <2>3, Zenon
<1>3. PICK h : h = Head(s) /\ h = s[1] /\ h \in S
  BY <1>1, HeadTailProperties
<1>4. \A i, j \in 1..n : i # j => s[i] # s[j]
  BY <1>1 DEF Lists
<1>5. \A i \in 1..n - 1 : t[i] \in S \ {h}
  <2> SUFFICES ASSUME NEW i \in 1..n - 1 PROVE t[i] \in S \ {h}
    OBVIOUS
  <2>1. i + 1 \in 1..n /\ 1 \in 1..n /\ i + 1 # 1
    BY <1>1
  <2>2. s[i + 1] # s[1]
    BY <2>1, <1>4
  <2>3. t[i] \in S
    BY <1>2, ElementOfSeq
  <2> QED BY <1>2, <1>3, <2>2, <2>3
<1>6. t \in Seq(S \ {h})
  <2>1. t \in [1..n - 1 -> S \ {h}] /\ n - 1 \in Nat
    BY <1>2, <1>5, <1>1, LenProperties, Zenon
  <2> QED BY <2>1
<1>7. \A x \in S \ {h} : \E i \in DOMAIN t : t[i] = x
  <2> SUFFICES ASSUME NEW x \in S \ {h} PROVE \E i \in DOMAIN t : t[i] = x
    OBVIOUS
  <2>1. PICK i \in 1..n : s[i] = x
    BY <1>1 DEF Lists
  <2>2. i # 1 /\ i - 1 \in 1..n - 1 /\ (i - 1) + 1 = i
    BY <2>1, <1>3, <1>1
  <2>3. t[i - 1] = x
    BY <2>1, <2>2, <1>2
  <2> QED BY <2>2, <2>3, <1>2, Zenon
<1>8. \A i, j \in DOMAIN t : i # j => t[i] # t[j]
  <2> SUFFICES ASSUME NEW i \in 1..n - 1, NEW j \in 1..n - 1, i # j PROVE t[i] # t[j]
    BY <1>2
  <2>1. i + 1 \in 1..n /\ j + 1 \in 1..n /\ i + 1 # j + 1
    BY <1>1
  <2> QED BY <2>1, <1>2, <1>4
<1>9. Lists(t, S \ {h})
  BY <1>6, <1>7, <1>8 DEF Lists
<1> QED BY <1>9, <1>2, <1>3

LEMMA ListCons ==
  ASSUME NEW S, NEW s, NEW x, Lists(s, S), x \notin S
  PROVE  Lists(<<x>> \o s, S \cup {x})
<1> DEFINE X == S \cup {x}
<1> HIDE DEF X
<1>1. PICK n \in Nat : n = Len(s) /\ s \in Seq(S) /\ DOMAIN s = 1..n /\ s \in [1..n -> S]
  BY LenProperties DEF Lists
<1>2. s \in Seq(X) /\ <<x>> \in Seq(X) /\ Len(<<x>>) = 1 /\ <<x>>[1] = x
  BY <1>1, SeqMonotonic DEF X
<1>3. PICK t : t = <<x>> \o s /\ t \in Seq(X) /\ Len(t) = 1 + n /\ DOMAIN t = 1..1 + n
               /\ \A i \in 1..1 + n : t[i] = IF i <= 1 THEN <<x>>[i] ELSE s[i - 1]
  <2>1. PICK t : t = <<x>> \o s
    BY Zenon
  <2>2. t \in Seq(X) /\ Len(t) = 1 + n /\ DOMAIN t = 1..1 + n
    BY <2>1, <1>1, <1>2, ConcatProperties, LenProperties
  <2>3. \A i \in 1..1 + n : t[i] = IF i <= 1 THEN <<x>>[i] ELSE s[i - 1]
    BY <2>1, <1>1, <1>2, ConcatProperties
  <2> QED BY <2>1, <2>2, <2>3, Zenon
<1>4. \A i, j \in 1..n : i # j => s[i] # s[j]
  BY <1>1 DEF Lists
<1>5. t[1] = x /\ 1 \in 1..1 + n
  BY <1>3, <1>2, <1>1
<1>6. \A i \in 1..n : i + 1 \in 1..1 + n /\ t[i + 1] = s[i]
  BY <1>3, <1>1
<1>7. \A y \in X : \E i \in DOMAIN t : t[i] = y
  <2> SUFFICES ASSUME NEW y \in X PROVE \E i \in DOMAIN t : t[i] = y
    OBVIOUS
  <2>1. CASE y = x
    BY <2>1, <1>5, <1>3
  <2>2. CASE y \in S
    <3>1. PICK i \in 1..n : s[i] = y
      BY <2>2, <1>1 DEF Lists
    <3> QED BY <3>1, <1>6, <1>3, Zenon
  <2> QED BY <2>1, <2>2 DEF X
<1>8. \A i, j \in DOMAIN t : i # j => t[i] # t[j]
  <2>1. ASSUME NEW i \in 1..1 + n, i # 1 PROVE i - 1 \in 1..n /\ t[i] = s[i - 1] /\ t[i] \in S
    <3>1. i - 1 \in 1..n /\ t[i] = s[i - 1]
      BY <1>3, <2>1, <1>1
    <3> QED BY <3>1, <1>1
  <2>2. ASSUME NEW i \in 1..1 + n, NEW j \in 1..1 + n, i # j PROVE t[i] # t[j]
    <3>1. CASE i = 1
      BY <3>1, <2>2, <2>1, <1>5
    <3>2. CASE j = 1
      BY <3>2, <2>2, <2>1, <1>5
    <3>3. CASE i # 1 /\ j # 1
      <4>1. i - 1 # j - 1
        BY <2>2
      <4> QED BY <3>3, <2>1, <4>1, <1>4
    <3> QED BY <3>1, <3>2, <3>3
  <2> QED BY <2>2, <1>3
<1>9. Lists(t, X)
  BY <1>3, <1>7, <1>8, Zenon DEF Lists
<1> QED BY <1>9, <1>3 DEF X

LEMMA ListUnlinked ==
  ASSUME NEW S, NEW s, NEW x, Lists(s, S), x \in S
  PROVE  Lists(Unlinked(s, x), S \ {x})
<1>1. PICK n \in Nat : n = Len(s) /\ s \in Seq(S) /\ DOMAIN s = 1..n /\ s \in [1..n -> S]
  BY LenProperties DEF Lists
<1>2. PICK k \in 1..n : s[k] = x /\ k = CHOOSE i \in DOMAIN s : s[i] = x
  BY <1>1 DEF Lists
<1>3. Unlinked(s, x) = SubSeq(s, 1, k - 1) \o SubSeq(s, k + 1, n)
  BY <1>1, <1>2 DEF Unlinked, RemoveAt
<1>4. \A i, j \in 1..n : i # j => s[i] # s[j]
  BY <1>1 DEF Lists
<1>5. PICK a : a = SubSeq(s, 1, k - 1) /\ a \in Seq(S) /\ Len(a) = k - 1
               /\ \A i \in 1..k - 1 : a[i] = s[i]
  <2>1. PICK e \in Int : e = k - 1
    BY <1>1
  <2>2. \A i \in 1..e : s[i] \in S
    BY <2>1, <1>1
  <2>3. PICK a : a = SubSeq(s, 1, e)
    BY Zenon
  <2>4. a \in Seq(S) /\ Len(a) = (IF 1 <= e THEN e - 1 + 1 ELSE 0)
        /\ \A i \in 1..e - 1 + 1 : a[i] = s[1 + i - 1]
    BY <2>2, <2>3, SubSeqProperties
  <2>5. Len(a) = e
    BY <2>4, <2>1, <1>1
  <2>6. \A i \in 1..e : i \in 1..e - 1 + 1 /\ 1 + i - 1 = i
    OBVIOUS
  <2>7. \A i \in 1..e : a[i] = s[i]
    BY <2>4, <2>6
  <2> QED BY <2>1, <2>3, <2>4, <2>5, <2>7
<1>6. PICK b : b = SubSeq(s, k + 1, n) /\ b \in Seq(S) /\ Len(b) = n - k
               /\ \A i \in 1..n - k : b[i] = s[k + i]
  <2>1. PICK e \in Int : e = k + 1
    BY <1>1
  <2>2. \A i \in e..n : s[i] \in S
    BY <2>1, <1>1
  <2>3. PICK b : b = SubSeq(s, e, n)
    BY Zenon
  <2>4. b \in Seq(S) /\ Len(b) = (IF e <= n THEN n - e + 1 ELSE 0)
        /\ \A i \in 1..n - e + 1 : b[i] = s[e + i - 1]
    BY <2>2, <2>3, SubSeqProperties
  <2>5. Len(b) = n - k
    BY <2>4, <2>1, <1>1, <1>2
  <2>6. \A i \in 1..n - k : i \in 1..n - e + 1 /\ e + i - 1 = k + i
    BY <2>1, <1>1
  <2>7. \A i \in 1..n - k : b[i] = s[k + i]
    BY <2>4, <2>6
  <2> QED BY <2>1, <2>3, <2>4, <2>5, <2>7, Zenon
<1>7. PICK t : t = a \o b /\ t \in Seq(S) /\ Len(t) = n - 1 /\ DOMAIN t = 1..n - 1
               /\ \A i \in 1..n - 1 : t[i] = IF i <= k - 1 THEN a[i] ELSE b[i - (k - 1)]
  <2>1. PICK t : t = a \o b
    BY Zenon
  <2>2. Len(a) + Len(b) = n - 1
    <3>1. Len(a) = k - 1 /\ Len(b) = n - k /\ n \in Nat /\ k \in 1..n
      BY <1>5, <1>6, <1>1, Zenon
    <3> QED BY ONLY <3>1
  <2>3. t \in Seq(S) /\ Len(t) = n - 1 /\ DOMAIN t = 1..n - 1
    BY <2>1, <2>2, <1>5, <1>6, ConcatProperties, LenProperties
  <2>4. \A i \in 1..n - 1 : t[i] = IF i <= k - 1 THEN a[i] ELSE b[i - (k - 1)]
    <3>1. Len(a) = k - 1 /\ a \in Seq(S) /\ b \in Seq(S)
      BY <1>5, <1>6, Zenon
    <3>2. \A i \in 1..Len(a) + Len(b) :
             (a \o b)[i] = IF i <= Len(a) THEN a[i] ELSE b[i - Len(a)]
      BY ONLY <3>1, ConcatProperties
    <3>3. \A i \in 1..n - 1 : t[i] = IF i <= Len(a) THEN a[i] ELSE b[i - Len(a)]
      BY ONLY <3>2, <2>1, <2>2
    <3> QED BY ONLY <3>1, <3>3
  <2> QED BY <2>1, <2>3, <2>4, Zenon
<1>8. \A i \in 1..n - 1 : t[i] = IF i < k THEN s[i] ELSE s[i + 1]
  <2> SUFFICES ASSUME NEW i \in 1..n - 1 PROVE t[i] = IF i < k THEN s[i] ELSE s[i + 1]
    OBVIOUS
  <2>1. CASE i < k
    <3>1. i <= k - 1 /\ i \in 1..k - 1
      BY <2>1, <1>1
    <3> QED BY <3>1, <2>1, <1>7, <1>5
  <2>2. CASE ~(i < k)
    <3>1. ~(i <= k - 1) /\ i - (k - 1) \in 1..n - k /\ k + (i - (k - 1)) = i + 1
      BY <2>2, <1>1
    <3>2. b[i - (k - 1)] = s[i + 1]
      BY <3>1, <1>6
    <3> QED BY <3>1, <3>2, <2>2, <1>7
  <2> QED BY <2>1, <2>2
<1>9. \A i \in 1..n - 1 : t[i] \in S \ {x}
  <2> SUFFICES ASSUME NEW i \in 1..n - 1 PROVE t[i] \in S \ {x}
    OBVIOUS
  <2>1. t[i] \in S
    BY <1>7, ElementOfSeq
  <2>2. i \in 1..n /\ i + 1 \in 1..n /\ (i < k => i # k) /\ (~(i < k) => i + 1 # k)
    BY <1>1
  <2>3. CASE i < k
    BY <2>1, <2>2, <2>3, <1>8, <1>4, <1>2
  <2>4. CASE ~(i < k)
    BY <2>1, <2>2, <2>4, <1>8, <1>4, <1>2
  <2> QED BY <2>3, <2>4
<1>10. t \in Seq(S \ {x})
  <2>1. t \in [1..n - 1 -> S \ {x}] /\ n - 1 \in Nat
    BY <1>7, <1>9, <1>1, LenProperties, Zenon
  <2> QED BY <2>1
<1>11. \A y \in S \ {x} : \E i \in DOMAIN t : t[i] = y
  <2> SUFFICES ASSUME NEW y \in S \ {x} PROVE \E i \in DOMAIN t : t[i] = y
    OBVIOUS
  <2>1. PICK i \in 1..n : s[i] = y
    BY <1>1 DEF Lists
  <2>2. i # k
    BY <2>1, <1>2, Zenon
  <2>3. CASE i < k
    <3>1. i \in 1..n - 1 /\ t[i] = y
      BY <2>3, <1>8, <1>1, <2>1
    <3> QED BY <3>1, <1>7, Zenon
  <2>4. CASE k < i
    <3>1. i - 1 \in 1..n - 1 /\ ~(i - 1 < k) /\ (i - 1) + 1 = i
      BY <2>4, <1>1
    <3>2. t[i - 1] = y
      BY <3>1, <1>8, <2>1
    <3> QED BY <3>1, <3>2, <1>7, Zenon
  <2> QED BY <2>2, <2>3, <2>4
<1>12. \A i, j \in DOMAIN t : i # j => t[i] # t[j]
  <2> SUFFICES ASSUME NEW i \in 1..n - 1, NEW j \in 1..n - 1, i # j PROVE t[i] # t[j]
    BY <1>7, Zenon
  <2>1. PICK f \in 1..n : f = IF i < k THEN i ELSE i + 1
    BY <1>1
  <2>2. PICK g \in 1..n : g = IF j < k THEN j ELSE j + 1
    BY <1>1
  <2>3. f # g
    BY <2>1, <2>2
  <2>4. t[i] = s[f] /\ t[j] = s[g]
    BY <2>1, <2>2, <1>8
  <2> QED BY <2>3, <2>4, <1>4
<1>13. Lists(t, S \ {x})
  BY <1>10, <1>11, <1>12 DEF Lists
<1> QED BY <1>13, <1>7, <1>3, <1>5, <1>6

-----------------------------------------------------------------------------
(***************************************************************************)
(* Pages of objects.                                                       *)
(***************************************************************************)
\* The first place of a new page is taken.
LEMMA FirstPlace == PageOK([count |-> 1, free |-> << >>, last |-> 1], {1})
<1>1. PICK r : r = [count |-> 1, free |-> << >>, last |-> 1]
  BY Zenon
<1>2. r \in ObjectPages /\ r.count = 1 /\ r.free = << >> /\ r.last = 1
  BY <1>1, EmptySeq DEF ObjectPages
<1>3. (1..1) \ {1} = {} /\ {1} \subseteq 1..1
  OBVIOUS
<1>4. Cardinality({1}) = 1
  BY FS_Singleton, Zenon
<1>5. Lists(r.free, (1..r.last) \ {1})
  BY <1>2, <1>3, ListEmpty
<1>6. r.last <= Full
  BY <1>2, SpacesAssumption
<1> QED BY <1>1, <1>2, <1>3, <1>4, <1>5, <1>6 DEF PageOK

\* A page that is not full: the place that is taken, and the page afterwards.
Taken(r) == IF r.free # << >> THEN Head(r.free) ELSE r.last + 1

After(r) == [r EXCEPT !.count = @ + 1,
                      !.free  = IF @ = << >> THEN @ ELSE Tail(@),
                      !.last  = IF r.free = << >> THEN @ + 1 ELSE @]

LEMMA PageFacts ==
  ASSUME NEW r, NEW here, PageOK(r, here)
  PROVE  /\ r \in ObjectPages /\ r.count \in Nat /\ r.last \in Nat /\ r.free \in Seq(Nat)
         /\ IsFiniteSet(here) /\ Cardinality(here) = r.count /\ here \subseteq 1..r.last
         /\ r = [count |-> r.count, free |-> r.free, last |-> r.last]
<1>1. r \in ObjectPages /\ here \subseteq 1..r.last /\ Cardinality(here) = r.count
  BY DEF PageOK
<1>2. r.count \in Nat /\ r.last \in Nat /\ r.free \in Seq(Nat)
      /\ r = [count |-> r.count, free |-> r.free, last |-> r.last]
  BY <1>1 DEF ObjectPages
<1>3. IsFiniteSet(1..r.last)
  BY <1>2, FS_Interval
<1>4. IsFiniteSet(here)
  BY <1>1, <1>3, FS_Subset, Zenon
<1> QED BY <1>1, <1>2, <1>4

LEMMA TakePlace ==
  ASSUME NEW r, NEW here, PageOK(r, here), r.count < Full
  PROVE  /\ Taken(r) \in Nat /\ Taken(r) \notin here
         /\ PageOK(After(r), here \cup {Taken(r)})
         /\ After(r).count = r.count + 1
<1>1. PICK c \in Nat, f \in Seq(Nat), l \in Nat : r = [count |-> c, free |-> f, last |-> l]
        /\ IsFiniteSet(here) /\ Cardinality(here) = c /\ here \subseteq 1..l
  BY PageFacts
<1>2. l <= Full /\ c < Full /\ c > 0 /\ Lists(f, (1..l) \ here)
  BY <1>1 DEF PageOK
<1>3. Full \in Nat
  BY SpacesAssumption
<1>4. CASE f # << >>
  <2>1. PICK i : i = Head(f)
    OBVIOUS
  <2>2. i \in (1..l) \ here /\ Lists(Tail(f), ((1..l) \ here) \ {i})
    BY <1>2, <1>4, <2>1, ListTail, Zenon
  <2>3. Taken(r) = i
    BY <1>1, <1>4, <2>1 DEF Taken
  <2>4. PICK q : q = After(r)
    OBVIOUS
  <2>5. q = [count |-> c + 1, free |-> Tail(f), last |-> l]
    BY <2>4, <1>1, <1>4, Zenon DEF After
  <2>6. ((1..l) \ here) \ {i} = (1..l) \ (here \cup {i})
    OBVIOUS
  <2>7. Cardinality(here \cup {i}) = c + 1
    BY <1>1, <2>2, FS_AddElement, Zenon
  <2>8. Tail(f) \in Seq(Nat)
    BY <1>4, HeadTailProperties
  <2>9. q \in ObjectPages /\ q.count = c + 1 /\ q.free = Tail(f) /\ q.last = l
    BY <2>5, <2>8 DEF ObjectPages
  <2>10. here \cup {i} \subseteq 1..l
    BY <1>1, <2>2
  <2>11. Lists(q.free, (1..q.last) \ (here \cup {i}))
    BY <2>2, <2>6, <2>9, Zenon
  <2>12. PageOK(q, here \cup {i})
    BY <1>2, <2>7, <2>9, <2>10, <2>11 DEF PageOK
  <2>13. i \in Nat /\ i \notin here
    BY <2>2
  <2>14. r.count = c
    BY <1>1
  <2> QED BY <2>3, <2>4, <2>9, <2>12, <2>13, <2>14
<1>5. CASE f = << >>
  <2>1. PICK i \in Nat : i = l + 1
    OBVIOUS
  <2>2. Cardinality((1..l) \ here) = 0 /\ IsFiniteSet((1..l) \ here)
    BY <1>2, <1>5, ListLen, EmptySeq
  <2>3. (1..l) \ here = {}
    BY <2>2, FS_EmptySet, Zenon
  <2>4. here = 1..l /\ Cardinality(1..l) = l
    <3>1. here = 1..l
      BY <2>3, <1>1, Zenon
    <3>2. 1 \in Int /\ l \in Int /\ (IF 1 > l THEN 0 ELSE l - 1 + 1) = l
      BY <1>1
    <3>3. Cardinality(1..l) = l
      BY <3>2, FS_Interval
    <3> QED BY <3>1, <3>3
  <2>5. l = c
    BY <2>4, <1>1
  <2>6. Taken(r) = i
    BY <1>1, <1>5, <2>1 DEF Taken
  <2>7. PICK q : q = After(r)
    OBVIOUS
  <2>8. q = [count |-> c + 1, free |-> << >>, last |-> i]
    BY <2>7, <1>1, <1>5, <2>1, Zenon DEF After
  <2>9. i \notin here /\ here \cup {i} = 1..i
    BY <2>1, <2>4
  <2>10. Cardinality(here \cup {i}) = c + 1
    BY <1>1, <2>9, FS_AddElement, Zenon
  <2>11. q \in ObjectPages /\ q.count = c + 1 /\ q.free = << >> /\ q.last = i
    BY <2>8, EmptySeq DEF ObjectPages
  <2>12. (1..i) \ (here \cup {i}) = {}
    BY <2>9
  <2>13. Lists(q.free, (1..q.last) \ (here \cup {i}))
    BY <2>12, <2>11, ListEmpty, Zenon
  <2>14. i <= Full
    BY <2>1, <2>5, <1>2, <1>3
  <2>15. PageOK(q, here \cup {i})
    BY <2>9, <2>10, <2>11, <2>13, <2>14 DEF PageOK
  <2>16. r.count = c
    BY <1>1
  <2> QED BY <2>6, <2>7, <2>9, <2>11, <2>15, <2>16
<1> QED BY <1>4, <1>5



LEMMA GivePlace ==
  ASSUME NEW r, NEW here, PageOK(r, here), NEW i \in here, r.count > 1
  PROVE  PageOK(Less(r, i), here \ {i}) /\ Less(r, i).count = r.count - 1
<1>1. PICK c \in Nat, f \in Seq(Nat), l \in Nat : r = [count |-> c, free |-> f, last |-> l]
        /\ IsFiniteSet(here) /\ Cardinality(here) = c /\ here \subseteq 1..l
  BY PageFacts
<1>2. l <= Full /\ c > 1 /\ Lists(f, (1..l) \ here)
  BY <1>1 DEF PageOK
<1>13. PICK q : q = Less(r, i)
  OBVIOUS
<1>3. q = [count |-> c - 1, free |-> <<i>> \o f, last |-> l]
  BY <1>13, <1>1, Zenon DEF Less
<1>4. i \in 1..l /\ i \notin (1..l) \ here
  BY <1>1
<1>5. ((1..l) \ here) \cup {i} = (1..l) \ (here \ {i})
  BY <1>4
<1>6. Lists(<<i>> \o f, (1..l) \ (here \ {i}))
  BY <1>2, <1>4, <1>5, ListCons
<1>7. Cardinality(here \ {i}) = c - 1
  BY <1>1, FS_RemoveElement, Zenon
<1>8. <<i>> \o f \in Seq(Nat)
  BY <1>4
<1>9. q \in ObjectPages /\ q.count = c - 1 /\ q.free = <<i>> \o f /\ q.last = l
  <2>1. c - 1 \in Nat
    BY <1>2, <1>1
  <2>2. PICK g \in Seq(Nat) : g = <<i>> \o f
    BY <1>8, Zenon
  <2>3. q = [count |-> c - 1, free |-> g, last |-> l]
    BY <1>3, <2>2
  <2>4. q \in ObjectPages
    BY <2>1, <2>2, <2>3, <1>1 DEF ObjectPages
  <2>5. q.count = c - 1 /\ q.free = g /\ q.last = l
    BY <2>3
  <2> QED BY <2>2, <2>4, <2>5
<1>10. Lists(q.free, (1..q.last) \ (here \ {i}))
  BY <1>6, <1>9
<1>11. q.last <= Full /\ q.count = Cardinality(here \ {i})
  BY <1>2, <1>7, <1>9
<1>12. here \ {i} \subseteq 1..q.last /\ q.count > 0
  BY <1>1, <1>2, <1>9
<1>14. PageOK(q, here \ {i})
  BY <1>9, <1>10, <1>11, <1>12, Zenon DEF PageOK
<1>15. r.count = c
  BY <1>1
<1> QED BY <1>9, <1>13, <1>14, <1>15

LEMMA LastPlace ==
  ASSUME NEW r, NEW here, PageOK(r, here), NEW i \in here, ~(r.count > 1)
  PROVE  here = {i} /\ r.count = 1
<1>1. IsFiniteSet(here) /\ Cardinality(here) = r.count /\ r.count \in Nat /\ r.count > 0
  BY PageFacts, Zenon DEF PageOK
<1>2. Cardinality(here) = 1
  BY <1>1
<1>3. \E x : here = {x}
  BY <1>1, <1>2, FS_Singleton
<1> QED BY <1>1, <1>2, <1>3

-----------------------------------------------------------------------------
(***************************************************************************)
(* Functions with one argument more or less, and the pages in use.         *)
(***************************************************************************)
LEMMA WithDomain ==
  ASSUME NEW f, NEW x, NEW v
  PROVE  DOMAIN With(f, x, v) = (DOMAIN f) \cup {x}
BY DEF With

LEMMA WithFacts ==
  ASSUME NEW f, NEW x, NEW v
  PROVE  /\ With(f, x, v)[x] = v
         /\ \A y \in DOMAIN f : y # x => With(f, x, v)[y] = f[y]
BY DEF With

LEMMA WithType ==
  ASSUME NEW f, NEW x, NEW v, NEW S, v \in S, \A y \in DOMAIN f : y # x => f[y] \in S
  PROVE  With(f, x, v) \in [(DOMAIN f) \cup {x} -> S]
BY DEF With

LEMMA DroppedDomain ==
  ASSUME NEW f, NEW x
  PROVE  DOMAIN Dropped(f, x) = (DOMAIN f) \ {x}
BY DEF Dropped, Restrict

LEMMA DroppedFacts ==
  ASSUME NEW f, NEW x
  PROVE  \A y \in DOMAIN f : y # x => Dropped(f, x)[y] = f[y]
BY DEF Dropped, Restrict

LEMMA DroppedType ==
  ASSUME NEW f, NEW x, NEW S, \A y \in DOMAIN f : y # x => f[y] \in S
  PROVE  Dropped(f, x) \in [(DOMAIN f) \ {x} -> S]
BY DEF Dropped, Restrict

LEMMA TableNames ==
  ASSUME NEW pdir, NEW ptab, TabInv(pdir, ptab)
  PROVE  DOMAIN pdir \subseteq Directories /\ DOMAIN ptab \subseteq Tables
<1>1. DOMAIN pdir \subseteq Directories
  BY DEF TabInv
<1>2. \A p \in DOMAIN ptab : \E d \in DOMAIN pdir, i \in Super : p = TablePage(d, i)
  BY DEF TabInv
<1> QED BY <1>1, <1>2 DEF Tables, TablePage

\* Which pages are in use, by the kind of their names.
LEMMA InUseKinds ==
  ASSUME NEW m, TabInv(m.pdir, m.ptab)
  PROVE  /\ \A k : ObjectPage(k) \in InUse(m) <=> k \in DOMAIN m.objs
         /\ \A i : TCBPage(i) \in InUse(m) <=> i \in DOMAIN m.table
         /\ \A d \in Directories : d \in InUse(m) <=> d \in DOMAIN m.pdir
         /\ \A p \in Tables : p \in InUse(m) <=> p \in DOMAIN m.ptab
         /\ \A u \in Utcbs : u \in InUse(m) <=> u \in UtcbsIn(m.ptab)
<1>1. DOMAIN m.pdir \subseteq Directories /\ DOMAIN m.ptab \subseteq Tables
      /\ UtcbsIn(m.ptab) \subseteq Utcbs
  BY TableNames DEF UtcbsIn
<1>2. /\ \A k : ObjectPage(k) \notin Directories \cup Tables \cup Utcbs
      /\ \A i : TCBPage(i) \notin Directories \cup Tables \cup Utcbs
      /\ \A k, i : ObjectPage(k) # TCBPage(i)
      /\ Directories \cap Tables = {} /\ Directories \cap Utcbs = {} /\ Tables \cap Utcbs = {}
  BY DEF ObjectPage, TCBPage, Directories, Tables, Utcbs
<1>3. /\ \A k, l : ObjectPage(k) = ObjectPage(l) => k = l
      /\ \A k, l : TCBPage(k) = TCBPage(l) => k = l
  BY DEF ObjectPage, TCBPage
<1>4. \A x : x \in InUse(m) <=> \/ \E k \in DOMAIN m.objs : x = ObjectPage(k)
                                \/ \E i \in DOMAIN m.table : x = TCBPage(i)
                                \/ x \in DOMAIN m.pdir \/ x \in DOMAIN m.ptab
                                \/ x \in UtcbsIn(m.ptab)
  BY DEF InUse
<1>5. ASSUME NEW k PROVE ObjectPage(k) \in InUse(m) <=> k \in DOMAIN m.objs
  <2>1. PICK x : x = ObjectPage(k)
    OBVIOUS
  <2>2. x \notin DOMAIN m.pdir /\ x \notin DOMAIN m.ptab /\ x \notin UtcbsIn(m.ptab)
    BY <2>1, <1>1, <1>2
  <2>3. ~\E i \in DOMAIN m.table : x = TCBPage(i)
    BY <2>1, <1>2
  <2>4. (\E l \in DOMAIN m.objs : x = ObjectPage(l)) <=> k \in DOMAIN m.objs
    BY <2>1, <1>3
  <2>5. x \in InUse(m) <=> k \in DOMAIN m.objs
    BY <2>2, <2>3, <2>4, <1>4
  <2> QED BY <2>1, <2>5
<1>6. ASSUME NEW k PROVE TCBPage(k) \in InUse(m) <=> k \in DOMAIN m.table
  <2>1. PICK x : x = TCBPage(k)
    OBVIOUS
  <2>2. x \notin DOMAIN m.pdir /\ x \notin DOMAIN m.ptab /\ x \notin UtcbsIn(m.ptab)
    BY <2>1, <1>1, <1>2
  <2>3. ~\E i \in DOMAIN m.objs : x = ObjectPage(i)
    BY <2>1, <1>2
  <2>4. (\E l \in DOMAIN m.table : x = TCBPage(l)) <=> k \in DOMAIN m.table
    BY <2>1, <1>3
  <2>5. x \in InUse(m) <=> k \in DOMAIN m.table
    BY <2>2, <2>3, <2>4, <1>4
  <2> QED BY <2>1, <2>5
<1>7. \A d \in Directories : d \in InUse(m) <=> d \in DOMAIN m.pdir
  BY <1>1, <1>2, <1>4
<1>8. \A p \in Tables : p \in InUse(m) <=> p \in DOMAIN m.ptab
  BY <1>1, <1>2, <1>4
<1>9. \A u \in Utcbs : u \in InUse(m) <=> u \in UtcbsIn(m.ptab)
  BY <1>1, <1>2, <1>4
<1> QED BY <1>5, <1>6, <1>7, <1>8, <1>9

LEMMA PageTaken ==
  ASSUME NEW m, NEW w, NEW p, UsedInv(m), p \notin InUse(m),
         w.used = m.used \cup {p}, w.num = m.num - 1, InUse(w) = InUse(m) \cup {p}
  PROVE  UsedInv(w)
<1>1. PICK n \in Int, c \in Int : n = m.num /\ c = Cardinality(m.used) /\ n + c = NumPages
  BY FS_CardinalityType DEF UsedInv
<1>2. IsFiniteSet(w.used) /\ Cardinality(w.used) = c + 1
  BY <1>1, FS_AddElement DEF UsedInv
<1>3. w.num = n - 1
  BY <1>1
<1>4. w.num \in Int /\ w.num + Cardinality(w.used) = NumPages
  BY <1>1, <1>2, <1>3
<1>5. w.used = InUse(w)
  BY DEF UsedInv
<1> QED BY <1>2, <1>4, <1>5 DEF UsedInv

LEMMA PageFreed ==
  ASSUME NEW m, NEW w, NEW p, UsedInv(m), p \in InUse(m),
         w.used = m.used \ {p}, w.num = m.num + 1, InUse(w) = InUse(m) \ {p}
  PROVE  UsedInv(w)
<1>1. PICK n \in Int, c \in Int : n = m.num /\ c = Cardinality(m.used) /\ n + c = NumPages
  BY FS_CardinalityType DEF UsedInv
<1>2. IsFiniteSet(w.used) /\ Cardinality(w.used) = c - 1
  BY <1>1, FS_RemoveElement DEF UsedInv
<1>3. w.num = n + 1
  BY <1>1
<1>4. w.num \in Int /\ w.num + Cardinality(w.used) = NumPages
  BY <1>1, <1>2, <1>3
<1>5. w.used = InUse(w)
  BY DEF UsedInv
<1> QED BY <1>2, <1>4, <1>5 DEF UsedInv

-----------------------------------------------------------------------------
(***************************************************************************)
(* Allocating and freeing objects.                                         *)
(***************************************************************************)
\* Apart from objects and pages, w is like m.
SameRest(m, w) ==
  /\ w.space = m.space /\ w.mapping = m.mapping /\ w.pdir = m.pdir /\ w.ptab = m.ptab
  /\ w.table = m.table /\ w.cr3 = m.cr3 /\ w.currentSpace = m.currentSpace
  /\ w.stale = m.stale

\* There is a number for a new page of objects.
LEMMA NewNumber ==
  ASSUME NEW m, UsedInv(m), TabInv(m.pdir, m.ptab), m.num >= 0, DOMAIN m.objs \subseteq Nat \ {0}
  PROVE  NewObjs(m) \in Nat \ {0} /\ NewObjs(m) \notin DOMAIN m.objs
<1>1. PICK c \in Nat : c = Cardinality(m.used) /\ IsFiniteSet(m.used) /\ c <= NumPages
  BY FS_CardinalityType, SpacesAssumption DEF UsedInv
<1> DEFINE D == DOMAIN m.objs
<1>2. [k \in D |-> ObjectPage(k)] \in Injection(D, m.used)
  <2>1. \A k \in D : ObjectPage(k) \in m.used
    BY DEF UsedInv, InUse
  <2>2. \A k, l \in D : ObjectPage(k) = ObjectPage(l) => k = l
    BY DEF ObjectPage
  <2> QED BY <2>1, <2>2 DEF Injection, IsInjective
<1>3. IsFiniteSet(D) /\ Cardinality(D) <= c
  BY <1>1, <1>2, FS_Injection
<1>4. PICK n \in Nat : n = NumPages + 1 /\ n > c
  BY <1>1, SpacesAssumption
<1>5. Cardinality(1..n) = n /\ IsFiniteSet(1..n)
  BY UpTo
<1>6. ~((1..n) \subseteq D)
  <2> SUFFICES ASSUME (1..n) \subseteq D PROVE FALSE
    OBVIOUS
  <2>1. Cardinality(1..n) <= Cardinality(D) /\ Cardinality(D) \in Nat
    BY <1>3, FS_Subset, FS_CardinalityType
  <2> QED BY <2>1, <1>3, <1>4, <1>5
<1> DEFINE gaps == {k \in 1..n : k \notin D}
<1>7. PICK k \in gaps : \A j \in gaps : k <= j
  <2>1. gaps \in SUBSET Nat /\ gaps # {}
    BY <1>6
  <2> QED BY <2>1, LeastNumber, Zenon
<1>8. k \in 1..n /\ k \notin D /\ \A j \in 1..k - 1 : j \in D
  <2>1. k \in 1..n /\ k \notin D
    BY <1>7
  <2>2. \A j \in 1..k - 1 : j \in 1..n /\ ~(k <= j)
    BY <2>1
  <2> QED BY <2>1, <2>2, <1>7
<1>9. \E l \in 1..NumPages + 1 : l \notin D /\ \A j \in 1..l - 1 : j \in D
  BY <1>8, <1>4
<1>10. NewObjs(m) \in 1..NumPages + 1 /\ NewObjs(m) \notin D
  BY <1>9 DEF NewObjs
<1> QED BY <1>10, SpacesAssumption

\* A function with a new value for one of its arguments, and the list of pages
\* with room: without its head if that is full now, with p if it was full.
Put(f, x, v)               == [f EXCEPT ![x] = v]
RestIfFull(q, partials)    == IF q.count = Full THEN Tail(partials) ELSE partials
AddedIfFull(r, p, partials) == IF r.count = Full THEN <<p>> \o partials ELSE partials

LEMMA TakeFromPartial ==
  ASSUME NEW objs, NEW partials, NEW U, ObjInv(objs, partials, U), partials # << >>,
         NEW k, k = Head(partials)
  PROVE  /\ k \in DOMAIN objs /\ k \in Nat \ {0}
         /\ Taken(objs[k]) \in Nat /\ <<k, Taken(objs[k])>> \notin U
         /\ ObjInv(Put(objs, k, After(objs[k])), RestIfFull(After(objs[k]), partials),
                   U \cup {<<k, Taken(objs[k])>>})
<1>16. PICK i, q : i = Taken(objs[k]) /\ q = After(objs[k])
  OBVIOUS
<1>17. PICK objs2, partials2 : objs2 = Put(objs, k, q) /\ partials2 = RestIfFull(q, partials)
  OBVIOUS
<1> DEFINE low == {p \in DOMAIN objs : objs[p].count < Full}
           V == U \cup {<<k, i>>}
<1>1. /\ objs \in [DOMAIN objs -> ObjectPages] /\ DOMAIN objs \subseteq Nat \ {0}
      /\ U \subseteq (DOMAIN objs) \X Nat /\ Lists(partials, low)
      /\ \A p \in DOMAIN objs : PageOK(objs[p], Places(U, p))
  BY DEF ObjInv
<1>2. k \in low /\ Lists(Tail(partials), low \ {k})
  BY <1>1, ListTail, Zenon
<1>3. k \in DOMAIN objs /\ objs[k].count < Full /\ PageOK(objs[k], Places(U, k))
  BY <1>1, <1>2
<1>4. i \in Nat /\ i \notin Places(U, k) /\ PageOK(q, Places(U, k) \cup {i})
      /\ q.count = objs[k].count + 1
  BY <1>3, <1>16, TakePlace, Zenon
<1>5. k \in Nat \ {0} /\ <<k, i>> \notin U
  BY <1>1, <1>3, <1>4 DEF Places
<1>6. Places(V, k) = Places(U, k) \cup {i}
  BY <1>4 DEF Places
<1>7. \A p : p # k => Places(V, p) = Places(U, p)
  BY DEF Places
<1>8. DOMAIN objs2 = DOMAIN objs /\ objs2[k] = q /\ \A p \in DOMAIN objs : p # k => objs2[p] = objs[p]
  BY <1>1, <1>3, <1>17 DEF Put
<1>9. \A p \in DOMAIN objs2 : PageOK(objs2[p], Places(V, p))
  <2> HIDE DEF V
  <2> QED BY <1>8, <1>7, <1>6, <1>4, <1>1, Zenon
<1>10. q \in ObjectPages
  BY <1>4 DEF PageOK
<1>11. objs2 \in [DOMAIN objs2 -> ObjectPages]
  BY <1>10, <1>1, <1>8, <1>17, Zenon DEF Put
<1>12. V \subseteq (DOMAIN objs2) \X Nat
  BY <1>1, <1>3, <1>4, <1>8
<1>13. Lists(partials2, {p \in DOMAIN objs2 : objs2[p].count < Full})
  <2>1. objs[k].count \in Nat /\ Full \in Nat
    BY <1>3, PageFacts, SpacesAssumption, Zenon
  <2>2. CASE q.count = Full
    <3>1. {p \in DOMAIN objs2 : objs2[p].count < Full} = low \ {k}
      BY <1>8, <2>1, <2>2
    <3> QED BY <2>2, <3>1, <1>2, <1>17, Zenon DEF RestIfFull
  <2>3. CASE q.count # Full
    <3>1. q.count < Full
      BY <2>1, <2>3, <1>3, <1>4
    <3>2. {p \in DOMAIN objs2 : objs2[p].count < Full} = low
      BY <1>8, <3>1, <1>3
    <3> QED BY <2>3, <3>2, <1>1, <1>17, Zenon DEF RestIfFull
  <2> QED BY <2>2, <2>3
<1>14. DOMAIN objs2 \subseteq Nat \ {0}
  BY <1>1, <1>8
<1>15. ObjInv(objs2, partials2, V)
  <2> HIDE DEF V
  <2> QED BY <1>9, <1>11, <1>12, <1>13, <1>14 DEF ObjInv
<1> QED BY <1>3, <1>4, <1>5, <1>15, <1>16, <1>17

\* A page of objects of which the first one is taken.
OneTaken == [count |-> 1, free |-> << >>, last |-> 1]

LEMMA TakeFromNew ==
  ASSUME NEW objs, NEW U, ObjInv(objs, << >>, U),
         NEW k \in Nat \ {0}, k \notin DOMAIN objs,
         NEW objs2, objs2 = With(objs, k, OneTaken)
  PROVE  /\ <<k, 1>> \notin U /\ DOMAIN objs2 = DOMAIN objs \cup {k}
         /\ ObjInv(objs2, <<k>>, U \cup {<<k, 1>>})
<1> DEFINE low == {p \in DOMAIN objs : objs[p].count < Full}
           V == U \cup {<<k, 1>>}
<1>1. /\ objs \in [DOMAIN objs -> ObjectPages] /\ DOMAIN objs \subseteq Nat \ {0}
      /\ U \subseteq (DOMAIN objs) \X Nat /\ Lists(<< >>, low)
      /\ \A p \in DOMAIN objs : PageOK(objs[p], Places(U, p))
  BY DEF ObjInv
<1>2. low = {}
  <2>1. DOMAIN << >> = {}
    BY EmptySeq
  <2> QED BY <1>1, <2>1 DEF Lists
<1>3. PICK r : r = OneTaken
  OBVIOUS
<1>4. PageOK(r, {1}) /\ r \in ObjectPages /\ r.count = 1
  BY <1>3, FirstPlace DEF PageOK, OneTaken
<1>5. <<k, 1>> \notin U /\ \A i : <<k, i>> \notin U
  BY <1>1
<1>6. Places(V, k) = {1}
  BY <1>5 DEF Places
<1>7. \A p : p # k => Places(V, p) = Places(U, p)
  BY DEF Places
<1>17. objs2 = With(objs, k, r)
  BY <1>3
<1>8. DOMAIN objs2 = DOMAIN objs \cup {k} /\ objs2[k] = r
      /\ \A p \in DOMAIN objs : p # k => objs2[p] = objs[p]
  <2>1. DOMAIN objs2 = DOMAIN objs \cup {k}
    BY <1>17, WithDomain, Zenon
  <2>2. objs2[k] = r /\ \A p \in DOMAIN objs : p # k => objs2[p] = objs[p]
    BY <1>17, WithFacts
  <2> QED BY <2>1, <2>2
<1>9. \A p \in DOMAIN objs2 : PageOK(objs2[p], Places(V, p))
  <2> HIDE DEF V
  <2>1. PageOK(objs2[k], Places(V, k))
    BY <1>4, <1>6, <1>8
  <2>2. \A p \in DOMAIN objs : PageOK(objs2[p], Places(V, p))
    BY <1>1, <1>7, <1>8
  <2> QED BY <1>8, <2>1, <2>2
<1>10. \A p \in DOMAIN objs : objs[p] \in ObjectPages
  BY <1>1
<1>11. objs2 \in [DOMAIN objs2 -> ObjectPages]
  BY <1>4, <1>8, <1>10, <1>17, WithType, Zenon
<1>12. V \subseteq (DOMAIN objs2) \X Nat
  BY <1>1, <1>8
<1>13. {p \in DOMAIN objs2 : objs2[p].count < Full} = {k}
  <2>1. 1 < Full
    BY SpacesAssumption
  <2> QED BY <1>2, <1>4, <1>8, <2>1
<1>14. Lists(<<k>>, {p \in DOMAIN objs2 : objs2[p].count < Full})
  BY <1>13, ListOne
<1>15. DOMAIN objs2 \subseteq Nat \ {0}
  BY <1>1, <1>8
<1>16. ObjInv(objs2, <<k>>, V)
  <2> HIDE DEF V
  <2> QED BY <1>9, <1>11, <1>12, <1>14, <1>15 DEF ObjInv
<1> QED BY <1>5, <1>8, <1>16

LEMMA GiveToPage ==
  ASSUME NEW objs, NEW partials, NEW U, ObjInv(objs, partials, U), NEW obj \in U,
         NEW p, p = obj[1], objs[p].count > 1,
         NEW objs2, objs2 = Put(objs, p, Less(objs[p], obj[2])),
         NEW partials2, partials2 = AddedIfFull(objs[p], p, partials)
  PROVE  p \in DOMAIN objs /\ DOMAIN objs2 = DOMAIN objs /\ ObjInv(objs2, partials2, U \ {obj})
<1> DEFINE low == {k \in DOMAIN objs : objs[k].count < Full}
           V == U \ {obj}
<1>1. /\ objs \in [DOMAIN objs -> ObjectPages] /\ DOMAIN objs \subseteq Nat \ {0}
      /\ U \subseteq (DOMAIN objs) \X Nat /\ Lists(partials, low)
      /\ \A k \in DOMAIN objs : PageOK(objs[k], Places(U, k))
  BY DEF ObjInv
<1>2. PICK i \in Nat : i = obj[2] /\ obj = <<p, i>> /\ p \in DOMAIN objs
  BY <1>1
<1>3. i \in Places(U, p) /\ PageOK(objs[p], Places(U, p))
  BY <1>1, <1>2 DEF Places
<1>4. PICK q : q = Less(objs[p], i)
  OBVIOUS
<1>5. PageOK(q, Places(U, p) \ {i}) /\ q.count = objs[p].count - 1
  BY <1>3, <1>4, GivePlace
<1>6. Places(V, p) = Places(U, p) \ {i}
  BY <1>2 DEF Places
<1>7. \A k : k # p => Places(V, k) = Places(U, k)
  BY <1>2 DEF Places
<1>8. DOMAIN objs2 = DOMAIN objs /\ objs2[p] = q /\ \A k \in DOMAIN objs : k # p => objs2[k] = objs[k]
  BY <1>1, <1>2, <1>4 DEF Put
<1>9. \A k \in DOMAIN objs2 : PageOK(objs2[k], Places(V, k))
  <2> HIDE DEF V
  <2> QED BY <1>8, <1>7, <1>6, <1>5, <1>1
<1>10. q \in ObjectPages
  BY <1>5 DEF PageOK
<1>11. objs2 \in [DOMAIN objs2 -> ObjectPages]
  <2>1. \A k \in DOMAIN objs2 : objs2[k] \in ObjectPages
    BY <1>10, <1>1, <1>8
  <2>2. objs2 = [k \in DOMAIN objs2 |-> objs2[k]]
    BY <1>1, Zenon DEF Put
  <2> QED BY <2>1, <2>2
<1>12. V \subseteq (DOMAIN objs2) \X Nat
  BY <1>1, <1>8
<1>13. Lists(partials2, {k \in DOMAIN objs2 : objs2[k].count < Full})
  <2>1. objs[p].count \in Nat /\ Full \in Nat /\ objs[p].count <= Full
    <3>1. objs[p].count \in Nat /\ Full \in Nat /\ objs[p].last <= Full
          /\ IsFiniteSet(1..objs[p].last) /\ objs[p].last \in Nat
      BY <1>3, PageFacts, SpacesAssumption, UpTo, Zenon DEF PageOK
    <3>2. objs[p].count = Cardinality(Places(U, p)) /\ Places(U, p) \subseteq 1..objs[p].last
      BY <1>3, PageFacts
    <3>3. Cardinality(Places(U, p)) <= Cardinality(1..objs[p].last)
      BY <3>1, <3>2, FS_Subset
    <3>4. Cardinality(1..objs[p].last) = objs[p].last
      BY <3>1, UpTo
    <3> QED BY <3>1, <3>2, <3>3, <3>4
  <2>2. q.count < Full
    BY <2>1, <1>5
  <2>3. CASE objs[p].count = Full
    <3>1. {k \in DOMAIN objs2 : objs2[k].count < Full} = low \cup {p}
      BY <1>8, <2>2, <1>2
    <3>2. p \notin low
      BY <2>3, <2>1
    <3>3. Lists(<<p>> \o partials, low \cup {p})
      BY <1>1, <3>2, ListCons
    <3> QED BY <2>3, <3>1, <3>3, Zenon DEF AddedIfFull
  <2>4. CASE objs[p].count # Full
    <3>1. {k \in DOMAIN objs2 : objs2[k].count < Full} = low
      BY <1>8, <2>2, <2>1, <2>4, <1>2
    <3> QED BY <2>4, <3>1, <1>1, Zenon DEF AddedIfFull
  <2> QED BY <2>3, <2>4
<1>14. DOMAIN objs2 \subseteq Nat \ {0}
  BY <1>1, <1>8
<1>15. ObjInv(objs2, partials2, V)
  <2> HIDE DEF V
  <2> QED BY <1>9, <1>11, <1>12, <1>13, <1>14 DEF ObjInv
<1> QED BY <1>2, <1>8, <1>15

LEMMA GiveLast ==
  ASSUME NEW objs, NEW partials, NEW U, ObjInv(objs, partials, U), NEW obj \in U,
         NEW p, p = obj[1], ~(objs[p].count > 1),
         NEW objs2, objs2 = Dropped(objs, p)
  PROVE  /\ p \in DOMAIN objs /\ DOMAIN objs2 = DOMAIN objs \ {p}
         /\ ObjInv(objs2, Unlinked(partials, p), U \ {obj})
<1> DEFINE low == {k \in DOMAIN objs : objs[k].count < Full}
           V == U \ {obj}
<1>1. /\ objs \in [DOMAIN objs -> ObjectPages] /\ DOMAIN objs \subseteq Nat \ {0}
      /\ U \subseteq (DOMAIN objs) \X Nat /\ Lists(partials, low)
      /\ \A k \in DOMAIN objs : PageOK(objs[k], Places(U, k))
  BY DEF ObjInv
<1>2. PICK i \in Nat : i = obj[2] /\ obj = <<p, i>> /\ p \in DOMAIN objs
  BY <1>1
<1>3. i \in Places(U, p) /\ PageOK(objs[p], Places(U, p))
  BY <1>1, <1>2 DEF Places
<1>4. Places(U, p) = {i} /\ objs[p].count = 1
  BY <1>3, LastPlace
<1>5. p \in low /\ Lists(Unlinked(partials, p), low \ {p})
  <2>1. p \in low
    BY <1>2, <1>4, SpacesAssumption
  <2> QED BY <2>1, <1>1, ListUnlinked, Zenon
<1>6. DOMAIN objs2 = DOMAIN objs \ {p}
      /\ \A k \in DOMAIN objs : k # p => objs2[k] = objs[k]
  <2>1. DOMAIN objs2 = DOMAIN objs \ {p}
    BY DroppedDomain
  <2>2. \A k \in DOMAIN objs : k # p => objs2[k] = objs[k]
    BY DroppedFacts
  <2> QED BY <2>1, <2>2
<1>7. V \subseteq (DOMAIN objs2) \X Nat
  <2>1. ASSUME NEW x \in V PROVE x \in (DOMAIN objs2) \X Nat
    <3>1. PICK k \in DOMAIN objs, j \in Nat : x = <<k, j>>
      BY <1>1
    <3>2. k = p => j \in Places(U, p)
      BY <3>1, <2>1 DEF Places
    <3>3. k # p
      BY <3>1, <3>2, <1>4, <1>2, <2>1
    <3> QED BY <3>1, <3>3, <1>6
  <2> QED BY <2>1
<1>8. \A k : k # p => Places(V, k) = Places(U, k)
  BY <1>2 DEF Places
<1>9. \A k \in DOMAIN objs2 : PageOK(objs2[k], Places(V, k))
  <2> HIDE DEF V
  <2> QED BY <1>1, <1>6, <1>8
<1>10. objs2 \in [DOMAIN objs2 -> ObjectPages]
  <2>1. \A k \in DOMAIN objs : objs[k] \in ObjectPages
    BY <1>1
  <2> QED BY <2>1, <1>6, DroppedType, Zenon
<1>11. {k \in DOMAIN objs2 : objs2[k].count < Full} = low \ {p}
  BY <1>6
<1>12. Lists(Unlinked(partials, p), {k \in DOMAIN objs2 : objs2[k].count < Full})
  BY <1>5, <1>11
<1>13. DOMAIN objs2 \subseteq Nat \ {0}
  BY <1>1, <1>6
<1>14. ObjInv(objs2, Unlinked(partials, p), V)
  <2> HIDE DEF V
  <2> QED BY <1>7, <1>9, <1>10, <1>12, <1>13 DEF ObjInv
<1> QED BY <1>2, <1>6, <1>14

-----------------------------------------------------------------------------
\* What allocating and freeing of objects needs of memory m, when those in U
\* are in use.
ObjMem(m, U) ==
  Shape(m) /\ UsedInv(m) /\ TabInv(m.pdir, m.ptab) /\ ObjInv(m.objs, m.partials, U)

LEMMA SameInUse ==
  ASSUME NEW m, NEW w, DOMAIN w.objs = DOMAIN m.objs, DOMAIN w.table = DOMAIN m.table,
         DOMAIN w.pdir = DOMAIN m.pdir, DOMAIN w.ptab = DOMAIN m.ptab,
         UtcbsIn(w.ptab) = UtcbsIn(m.ptab)
  PROVE  InUse(w) = InUse(m)
BY DEF InUse

LEMMA SameUsed ==
  ASSUME NEW m, NEW w, UsedInv(m), w.used = m.used, w.num = m.num, InUse(w) = InUse(m)
  PROVE  UsedInv(w)
BY DEF UsedInv

LEMMA ObjectPageAdded ==
  ASSUME NEW m, NEW w, NEW k, DOMAIN w.objs = DOMAIN m.objs \cup {k},
         w.table = m.table, w.pdir = m.pdir, w.ptab = m.ptab
  PROVE  InUse(w) = InUse(m) \cup {ObjectPage(k)}
BY DEF InUse

LEMMA ObjectPageRemoved ==
  ASSUME NEW m, NEW w, NEW k, DOMAIN w.objs = DOMAIN m.objs \ {k}, TabInv(m.pdir, m.ptab),
         w.table = m.table, w.pdir = m.pdir, w.ptab = m.ptab
  PROVE  InUse(w) = InUse(m) \ {ObjectPage(k)}
<1>1. ObjectPage(k) \notin InUse(w)
  <2>1. TabInv(w.pdir, w.ptab) /\ k \notin DOMAIN w.objs
    OBVIOUS
  <2> QED BY <2>1, InUseKinds
<1>2. \A x : x \in InUse(m) <=> \/ \E j \in DOMAIN m.objs : x = ObjectPage(j)
                                \/ \E i \in DOMAIN m.table : x = TCBPage(i)
                                \/ x \in DOMAIN m.pdir \/ x \in DOMAIN m.ptab
                                \/ x \in UtcbsIn(m.ptab)
  BY DEF InUse
<1>3. \A x : x \in InUse(w) <=> \/ \E j \in DOMAIN w.objs : x = ObjectPage(j)
                                \/ \E i \in DOMAIN m.table : x = TCBPage(i)
                                \/ x \in DOMAIN m.pdir \/ x \in DOMAIN m.ptab
                                \/ x \in UtcbsIn(m.ptab)
  BY DEF InUse
<1>4. \A x \in InUse(w) : x \in InUse(m)
  BY <1>2, <1>3
<1>5. \A x \in InUse(m) : x \in InUse(w) \/ x = ObjectPage(k)
  <2>1. \A j \in DOMAIN m.objs : j \in DOMAIN w.objs \/ j = k
    OBVIOUS
  <2> QED BY <1>2, <1>3, <2>1
<1> QED BY <1>1, <1>4, <1>5

LEMMA AllocObject ==
  ASSUME NEW m, NEW U, ObjMem(m, U), m.num >= 0
  PROVE  /\ NewObj(m) \in Object /\ NewObj(m) \notin U
         /\ ObjMem(allocObject1(m), U \cup {NewObj(m)}) /\ SameRest(m, allocObject1(m))
         /\ allocObject1(m).num \in {m.num, m.num - 1}
<1>1. Shape(m) /\ UsedInv(m) /\ TabInv(m.pdir, m.ptab) /\ ObjInv(m.objs, m.partials, U)
  BY DEF ObjMem
<1>2. PICK w : w = allocObject1(m)
  OBVIOUS
<1>3. PICK o : o = NewObj(m)
  OBVIOUS
<1>4. CASE m.partials # << >>
  <2>1. PICK k : k = Head(m.partials)
    OBVIOUS
  <2>2. PICK i : i = Taken(m.objs[k])
    OBVIOUS
  <2>3. PICK q : q = After(m.objs[k])
    OBVIOUS
  <2>4. PICK objs2 : objs2 = Put(m.objs, k, q)
    OBVIOUS
  <2>5. PICK partials2 : partials2 = RestIfFull(q, m.partials)
    OBVIOUS
  <2>6. /\ k \in DOMAIN m.objs /\ k \in Nat \ {0} /\ i \in Nat /\ <<k, i>> \notin U
        /\ DOMAIN objs2 = DOMAIN m.objs /\ ObjInv(objs2, partials2, U \cup {<<k, i>>})
    <3>1. /\ k \in DOMAIN m.objs /\ k \in Nat \ {0} /\ i \in Nat /\ <<k, i>> \notin U
          /\ ObjInv(objs2, partials2, U \cup {<<k, i>>})
      <4>1. PICK objs, partials : objs = m.objs /\ partials = m.partials
        OBVIOUS
      <4>2. ObjInv(objs, partials, U) /\ partials # << >> /\ k = Head(partials)
        BY <1>1, <1>4, <2>1, <4>1
      <4>3. /\ k \in DOMAIN objs /\ k \in Nat \ {0}
            /\ Taken(objs[k]) \in Nat /\ <<k, Taken(objs[k])>> \notin U
            /\ ObjInv(Put(objs, k, After(objs[k])), RestIfFull(After(objs[k]), partials),
                      U \cup {<<k, Taken(objs[k])>>})
        BY <4>2, TakeFromPartial
      <4> QED BY <4>1, <4>3, <2>2, <2>3, <2>4, <2>5
    <3>2. DOMAIN objs2 = DOMAIN m.objs
      BY <2>4 DEF Put
    <3> QED BY <3>1, <3>2
  <2>7. o = <<k, i>>
    BY <1>3, <1>4, <2>1, <2>2 DEF NewObj, Taken
  <2>8. w = [m EXCEPT !.objs = objs2, !.partials = partials2]
    <3>1. w = [m EXCEPT !.objs[k] = q,
                        !.partials = IF q.count = Full THEN Tail(@) ELSE @]
      BY <1>2, <1>4, <2>1, <2>3 DEF allocObject1, After
    <3>2. w = [m EXCEPT !.objs[k] = q, !.partials = partials2]
      BY <3>1, <2>5 DEF RestIfFull
    <3> QED BY <3>2, <2>4, <1>1 DEF Shape, Put
  <2>9. w.objs = objs2 /\ w.partials = partials2 /\ Shape(w) /\ SameRest(m, w)
        /\ w.used = m.used /\ w.num = m.num
    BY <2>8, <1>1, Zenon DEF Shape, SameRest
  <2>10. InUse(w) = InUse(m)
    BY <2>6, <2>9, SameInUse DEF SameRest
  <2>11. UsedInv(w) /\ TabInv(w.pdir, w.ptab)
    BY <1>1, <2>9, <2>10, SameUsed DEF SameRest
  <2>12. ObjInv(w.objs, w.partials, U \cup {o})
    BY <2>6, <2>7, <2>9
  <2>13. o \in Object
    BY <2>6, <2>7 DEF Object
  <2> QED BY <1>2, <1>3, <2>6, <2>7, <2>9, <2>11, <2>12, <2>13 DEF ObjMem
<1>5. CASE m.partials = << >>
  <2>1. PICK k : k = NewObjs(m)
    OBVIOUS
  <2>2. k \in Nat \ {0} /\ k \notin DOMAIN m.objs
    <3>1. DOMAIN m.objs \subseteq Nat \ {0}
      BY <1>1 DEF ObjInv
    <3> QED BY <1>1, <2>1, <3>1, NewNumber
  <2>3. PICK objs2 : objs2 = With(m.objs, k, OneTaken)
    OBVIOUS
  <2>4. /\ <<k, 1>> \notin U /\ DOMAIN objs2 = DOMAIN m.objs \cup {k}
        /\ ObjInv(objs2, <<k>>, U \cup {<<k, 1>>})
    <3>1. ObjInv(m.objs, << >>, U)
      BY <1>1, <1>5
    <3> QED BY <3>1, <2>2, <2>3, TakeFromNew, Zenon
  <2>5. o = <<k, 1>>
    BY <1>3, <1>5, <2>1 DEF NewObj
  <2>6. w = [m EXCEPT !.used = @ \cup {ObjectPage(k)}, !.num = @ - 1,
                      !.objs = objs2, !.partials = <<k>>]
    <3>1. w = [allocPage1(m, ObjectPage(k)) EXCEPT !.objs = With(@, k, OneTaken),
                                                   !.partials = <<k>>]
      BY <1>2, <1>5, <2>1 DEF allocObject1, OneTaken
    <3> QED BY <3>1, <2>3, <1>1 DEF Shape, allocPage1
  <2>7. w.objs = objs2 /\ w.partials = <<k>> /\ Shape(w) /\ SameRest(m, w)
        /\ w.used = m.used \cup {ObjectPage(k)} /\ w.num = m.num - 1
    BY <2>6, <1>1, Zenon DEF Shape, SameRest
  <2>8. InUse(w) = InUse(m) \cup {ObjectPage(k)}
    BY <2>4, <2>7, ObjectPageAdded DEF SameRest
  <2>9. ObjectPage(k) \notin InUse(m)
    BY <2>2, <1>1, InUseKinds
  <2>10. UsedInv(w)
    BY <1>1, <2>7, <2>8, <2>9, PageTaken
  <2>11. TabInv(w.pdir, w.ptab)
    BY <1>1, <2>7 DEF SameRest
  <2>12. ObjInv(w.objs, w.partials, U \cup {o})
    BY <2>4, <2>5, <2>7
  <2>13. o \in Object
    BY <2>2, <2>5 DEF Object
  <2> QED BY <1>2, <1>3, <2>4, <2>5, <2>7, <2>10, <2>11, <2>12, <2>13 DEF ObjMem
<1> QED BY <1>4, <1>5

LEMMA FreeObject ==
  ASSUME NEW m, NEW U, ObjMem(m, U), NEW o \in U
  PROVE  /\ ObjMem(freeObject(m, o), U \ {o}) /\ SameRest(m, freeObject(m, o))
         /\ freeObject(m, o).num \in {m.num, m.num + 1}
<1>1. Shape(m) /\ UsedInv(m) /\ TabInv(m.pdir, m.ptab) /\ ObjInv(m.objs, m.partials, U)
  BY DEF ObjMem
<1>2. PICK w : w = freeObject(m, o)
  OBVIOUS
<1>3. PICK p : p = o[1]
  OBVIOUS
<1>4. CASE m.objs[p].count > 1
  <2>1. PICK objs2 : objs2 = Put(m.objs, p, Less(m.objs[p], o[2]))
    OBVIOUS
  <2>2. PICK partials2 : partials2 = AddedIfFull(m.objs[p], p, m.partials)
    OBVIOUS
  <2>3. p \in DOMAIN m.objs /\ DOMAIN objs2 = DOMAIN m.objs /\ ObjInv(objs2, partials2, U \ {o})
    <3>1. p \in DOMAIN m.objs /\ ObjInv(objs2, partials2, U \ {o})
      <4>1. PICK objs, partials : objs = m.objs /\ partials = m.partials
        OBVIOUS
      <4>2. ObjInv(objs, partials, U) /\ objs[p].count > 1
        BY <1>1, <1>4, <4>1
      <4>3. objs2 = Put(objs, p, Less(objs[p], o[2]))
        BY <2>1, <4>1
      <4>4. partials2 = AddedIfFull(objs[p], p, partials)
        BY <2>2, <4>1
      <4>5. p \in DOMAIN objs /\ ObjInv(objs2, partials2, U \ {o})
        BY <4>2, <4>3, <4>4, <1>3, GiveToPage
      <4> QED BY <4>5, <4>1
    <3>2. DOMAIN objs2 = DOMAIN m.objs
      BY <2>1 DEF Put
    <3> QED BY <3>1, <3>2
  <2>4. w = [m EXCEPT !.objs = objs2, !.partials = partials2]
    <3>1. w = [m EXCEPT !.objs[p] = Less(m.objs[p], o[2]),
                        !.partials = IF m.objs[p].count = Full THEN <<p>> \o @ ELSE @]
      BY <1>2, <1>3, <1>4 DEF freeObject
    <3>2. w = [m EXCEPT !.objs[p] = Less(m.objs[p], o[2]), !.partials = partials2]
      BY <3>1, <2>2 DEF AddedIfFull
    <3> QED BY <3>2, <2>1, <1>1 DEF Shape, Put
  <2>5. w.objs = objs2 /\ w.partials = partials2 /\ Shape(w) /\ SameRest(m, w)
        /\ w.used = m.used /\ w.num = m.num
    BY <2>4, <1>1, Zenon DEF Shape, SameRest
  <2>6. InUse(w) = InUse(m)
    BY <2>3, <2>5, SameInUse DEF SameRest
  <2>7. UsedInv(w) /\ TabInv(w.pdir, w.ptab)
    BY <1>1, <2>5, <2>6, SameUsed DEF SameRest
  <2>8. ObjInv(w.objs, w.partials, U \ {o})
    BY <2>3, <2>5
  <2> QED BY <1>2, <2>5, <2>7, <2>8 DEF ObjMem
<1>5. CASE ~(m.objs[p].count > 1)
  <2>1. PICK objs2 : objs2 = Dropped(m.objs, p)
    OBVIOUS
  <2>2. /\ p \in DOMAIN m.objs /\ DOMAIN objs2 = DOMAIN m.objs \ {p}
        /\ ObjInv(objs2, Unlinked(m.partials, p), U \ {o})
    <3>1. p \in DOMAIN m.objs /\ ObjInv(objs2, Unlinked(m.partials, p), U \ {o})
      <4>1. PICK objs, partials : objs = m.objs /\ partials = m.partials
        OBVIOUS
      <4>2. ObjInv(objs, partials, U) /\ ~(objs[p].count > 1) /\ objs2 = Dropped(objs, p)
        BY <1>1, <1>5, <2>1, <4>1
      <4>3. p \in DOMAIN objs /\ ObjInv(objs2, Unlinked(partials, p), U \ {o})
        BY ONLY <4>2, <1>3, o \in U, GiveLast, Zenon
      <4> QED BY <4>3, <4>1
    <3>2. DOMAIN objs2 = DOMAIN m.objs \ {p}
      BY <2>1, DroppedDomain
    <3> QED BY <3>1, <3>2
  <2>3. PICK partials2 : partials2 = Unlinked(m.partials, p)
    OBVIOUS
  <2>4. w = [m EXCEPT !.used = @ \ {ObjectPage(p)}, !.num = @ + 1,
                      !.objs = objs2, !.partials = partials2]
    <3>1. w = [freePage(m, ObjectPage(p)) EXCEPT
                 !.objs = Dropped(@, p), !.partials = Unlinked(@, p)]
      BY <1>2, <1>3, <1>5 DEF freeObject
    <3> QED BY <3>1, <2>1, <2>3, <1>1 DEF Shape, freePage
  <2>5. w.objs = objs2 /\ w.partials = partials2 /\ Shape(w) /\ SameRest(m, w)
        /\ w.used = m.used \ {ObjectPage(p)} /\ w.num = m.num + 1
    BY <2>4, <1>1, Zenon DEF Shape, SameRest
  <2>6. InUse(w) = InUse(m) \ {ObjectPage(p)}
    BY <1>1, <2>2, <2>5, ObjectPageRemoved DEF SameRest
  <2>7. ObjectPage(p) \in InUse(m)
    BY <2>2 DEF InUse
  <2>8. UsedInv(w)
    BY <1>1, <2>5, <2>6, <2>7, PageFreed
  <2>9. TabInv(w.pdir, w.ptab)
    BY <1>1, <2>5 DEF SameRest
  <2>10. ObjInv(w.objs, w.partials, U \ {o})
    BY <2>2, <2>3, <2>5
  <2> QED BY <1>2, <2>5, <2>8, <2>9, <2>10 DEF ObjMem
<1> QED BY <1>4, <1>5

-----------------------------------------------------------------------------
(***************************************************************************)
(* Objects are reserved first, and then are a space or a mapping.          *)
(***************************************************************************)
LEMMA MemParts ==
  ASSUME NEW m, NEW T, NEW S, NEW K, MemInv(m, T, S, K)
  PROVE  /\ Shape(m) /\ UsedInv(m) /\ TabInv(m.pdir, m.ptab)
         /\ ObjInv(m.objs, m.partials, Objects(m, K)) /\ Apart(m, K)
         /\ SpaceInv(m.space, m.pdir, m.ptab) /\ ThreadInv(m.space, T) /\ UtcbInv(m.ptab, T)
         /\ MapInv(m.mapping, m.space) /\ LoadInv(m.space, m.cr3, m.currentSpace, m.stale)
         /\ TcbInv(m.table, S)
BY DEF MemInv

LEMMA ObjectsChanged ==
  ASSUME NEW m, NEW w, NEW T, NEW S, NEW K, NEW L, MemInv(m, T, S, K), SameRest(m, w),
         ObjMem(w, Objects(w, L)), Apart(w, L)
  PROVE  MemInv(w, T, S, L)
<1>1. /\ SpaceInv(w.space, w.pdir, w.ptab) /\ ThreadInv(w.space, T) /\ UtcbInv(w.ptab, T)
      /\ MapInv(w.mapping, w.space) /\ LoadInv(w.space, w.cr3, w.currentSpace, w.stale)
      /\ TcbInv(w.table, S)
  BY DEF MemInv, SameRest
<1>2. Shape(w) /\ UsedInv(w) /\ TabInv(w.pdir, w.ptab)
      /\ ObjInv(w.objs, w.partials, Objects(w, L))
  BY DEF ObjMem
<1> QED BY <1>1, <1>2 DEF MemInv

LEMMA Reserve ==
  ASSUME NEW m, NEW T, NEW S, NEW K, MemInv(m, T, S, K), m.num >= 0
  PROVE  /\ NewObj(m) \in Object /\ NewObj(m) \notin Objects(m, K)
         /\ MemInv(allocObject1(m), T, S, K \cup {NewObj(m)}) /\ SameRest(m, allocObject1(m))
         /\ allocObject1(m).num \in {m.num, m.num - 1}
<1>1. PICK w : w = allocObject1(m)
  OBVIOUS
<1>2. PICK o : o = NewObj(m)
  OBVIOUS
<1>3. PICK U : U = Objects(m, K)
  OBVIOUS
<1>4. ObjMem(m, U) /\ Apart(m, K)
  BY <1>3 DEF MemInv, ObjMem
<1>5. o \in Object /\ o \notin U /\ ObjMem(w, U \cup {o}) /\ SameRest(m, w)
      /\ w.num \in {m.num, m.num - 1}
  BY <1>1, <1>2, <1>4, AllocObject
<1>6. U \cup {o} = Objects(w, K \cup {o})
  BY <1>3, <1>5 DEF Objects, SameRest
<1>7. Apart(w, K \cup {o})
  BY <1>3, <1>4, <1>5 DEF Objects, SameRest, Apart
<1>8. ObjMem(w, Objects(w, K \cup {o}))
  BY <1>5, <1>6
<1>9. MemInv(w, T, S, K \cup {o})
  BY <1>5, <1>7, <1>8, ObjectsChanged
<1> QED BY <1>1, <1>2, <1>3, <1>5, <1>9

LEMMA Release ==
  ASSUME NEW m, NEW T, NEW S, NEW K, MemInv(m, T, S, K), NEW o \in K
  PROVE  /\ MemInv(freeObject(m, o), T, S, K \ {o}) /\ SameRest(m, freeObject(m, o))
         /\ freeObject(m, o).num \in {m.num, m.num + 1}
<1>1. PICK w : w = freeObject(m, o)
  OBVIOUS
<1>3. PICK U : U = Objects(m, K)
  OBVIOUS
<1>4. ObjMem(m, U) /\ Apart(m, K) /\ o \in U
  BY <1>3 DEF MemInv, ObjMem, Objects
<1>5. ObjMem(w, U \ {o}) /\ SameRest(m, w) /\ w.num \in {m.num, m.num + 1}
  BY <1>1, <1>4, FreeObject
<1>6. U \ {o} = Objects(w, K \ {o})
  BY <1>3, <1>4, <1>5 DEF Objects, SameRest, Apart
<1>7. Apart(w, K \ {o})
  BY <1>4, <1>5 DEF SameRest, Apart
<1>8. ObjMem(w, Objects(w, K \ {o}))
  BY <1>5, <1>6
<1>9. MemInv(w, T, S, K \ {o})
  BY <1>5, <1>7, <1>8, ObjectsChanged
<1> QED BY <1>1, <1>5, <1>9

-----------------------------------------------------------------------------
(***************************************************************************)
(* Which changes of a space leave the invariant of spaces as it is.        *)
(***************************************************************************)
LEMMA SpaceAdded ==
  ASSUME NEW space, NEW pdir, NEW ptab, NEW o \in Object, o \notin DOMAIN space,
         SpaceInv(space, pdir, ptab)
  PROVE  SpaceInv(With(space, o, NewSpace), pdir, ptab)
<1>1. PICK n : n = NewSpace
  OBVIOUS
<1>2. PICK w : w = With(space, o, n)
  OBVIOUS
<1>3. n \in SpaceSet /\ n.pdir = None /\ n.active = 0
  BY <1>1 DEF NewSpace, SpaceSet
<1>4. DOMAIN w = (DOMAIN space) \cup {o}
  BY <1>2, WithDomain, Zenon
<1>5. w[o] = n /\ \A s \in DOMAIN space : w[s] = space[s]
  BY <1>2, WithFacts
<1>6. w \in [DOMAIN w -> SpaceSet] /\ DOMAIN w \subseteq Object
  <2>1. \A s \in DOMAIN space : space[s] \in SpaceSet
    BY DEF SpaceInv
  <2>2. w \in [(DOMAIN space) \cup {o} -> SpaceSet]
    BY <1>2, <1>3, <2>1, WithType, Zenon
  <2> QED BY <1>4, <2>2 DEF SpaceInv
<1>7. \A s \in DOMAIN w :
         /\ w[s].pdir \in {None, DirectoryPage(s)}
         /\ w[s].pdir # None => w[s].area # None
         /\ w[s].active # 0 => w[s].pdir # None /\ HasUtcb(pdir, ptab, s, w[s].area)
  <2>1. \A s \in DOMAIN space :
          /\ space[s].pdir \in {None, DirectoryPage(s)}
          /\ space[s].pdir # None => space[s].area # None
          /\ space[s].active # 0 => space[s].pdir # None /\ HasUtcb(pdir, ptab, s, space[s].area)
    BY DEF SpaceInv
  <2> QED BY <2>1, <1>3, <1>4, <1>5
<1>8. \A d \in DOMAIN pdir : \E s \in DOMAIN w : d = DirectoryPage(s) /\ w[s].active # 0
  BY <1>4, <1>5 DEF SpaceInv
<1>9. SpaceInv(w, pdir, ptab)
  BY <1>6, <1>7, <1>8 DEF SpaceInv
<1> QED BY <1>1, <1>2, <1>9

LEMMA ThreadsOfNone ==
  ASSUME NEW space, NEW T, ThreadInv(space, T), NEW o, o \notin DOMAIN space
  PROVE  Threads(T, o) = {} /\ Actives(T, o) = {}
BY DEF ThreadInv, Threads, Actives

LEMMA ThreadsSpaceAdded ==
  ASSUME NEW space, NEW T, NEW o, o \notin DOMAIN space, ThreadInv(space, T)
  PROVE  ThreadInv(With(space, o, NewSpace), T)
<1>1. PICK n : n = NewSpace
  OBVIOUS
<1>2. PICK w : w = With(space, o, n)
  OBVIOUS
<1>3. n.count = 0 /\ n.active = 0
  BY <1>1 DEF NewSpace
<1>4. DOMAIN w = (DOMAIN space) \cup {o}
  BY <1>2, WithDomain, Zenon
<1>5. w[o] = n /\ \A s \in DOMAIN space : w[s] = space[s]
  BY <1>2, WithFacts
<1>6. Cardinality(Threads(T, o)) = 0 /\ Cardinality(Actives(T, o)) = 0
  BY ThreadsOfNone, FS_EmptySet
<1>7. \A s \in DOMAIN w : w[s].count = Cardinality(Threads(T, s))
                          /\ w[s].active = Cardinality(Actives(T, s))
  BY <1>3, <1>4, <1>5, <1>6 DEF ThreadInv
<1>8. T \in [DOMAIN T -> [space : DOMAIN w, utcb : Utcbs \cup {None}]]
  <2>1. T \in [DOMAIN T -> [space : DOMAIN space, utcb : Utcbs \cup {None}]]
    BY DEF ThreadInv
  <2> QED BY <2>1, <1>4
<1>9. \A t \in DOMAIN T : T[t].utcb # None =>
        \E l \in w[T[t].space].area.utcb : T[t].utcb = UtcbPage(DirectoryPage(T[t].space), l)
  <2>1. \A t \in DOMAIN T : w[T[t].space] = space[T[t].space]
    BY <1>5 DEF ThreadInv
  <2> QED BY <2>1 DEF ThreadInv
<1>10. IsFiniteSet(DOMAIN T) /\ DOMAIN T \subseteq Thread
  BY DEF ThreadInv
<1>11. ThreadInv(w, T)
  BY <1>7, <1>8, <1>9, <1>10 DEF ThreadInv
<1> QED BY <1>1, <1>2, <1>11

LEMMA MapsSpaceAdded ==
  ASSUME NEW space, NEW mapping, NEW o, o \notin DOMAIN space, MapInv(mapping, space)
  PROVE  MapInv(mapping, With(space, o, NewSpace))
<1>2. PICK w : w = With(space, o, NewSpace)
  OBVIOUS
<1>4. DOMAIN w = (DOMAIN space) \cup {o}
  BY <1>2, WithDomain, Zenon
<1>5. \A s \in DOMAIN space : w[s] = space[s]
  BY <1>2, WithFacts
<1>6. mapping \in [DOMAIN mapping -> [space : DOMAIN space, loc : Loc]]
  BY DEF MapInv
<1>7. mapping \in [DOMAIN mapping -> [space : DOMAIN w, loc : Loc]]
  BY <1>4, <1>6
<1>8. \A p \in DOMAIN mapping : LET s == mapping[p].space IN
        w[s].active # 0 /\ mapping[p].loc \notin w[s].area.utcb
  <2>1. \A p \in DOMAIN mapping : mapping[p].space \in DOMAIN space
    BY <1>6
  <2> QED BY <2>1, <1>5 DEF MapInv
<1> QED BY <1>2, <1>7, <1>8 DEF MapInv

LEMMA LoadSpaceAdded ==
  ASSUME NEW space, NEW cr3, NEW cur, NEW stale, NEW o, o \notin DOMAIN space,
         LoadInv(space, cr3, cur, stale)
  PROVE  LoadInv(With(space, o, NewSpace), cr3, cur, stale)
<1>1. PICK n : n = NewSpace
  OBVIOUS
<1>2. PICK w : w = With(space, o, n)
  OBVIOUS
<1>3. n.active = 0
  BY <1>1 DEF NewSpace
<1>4. DOMAIN w = (DOMAIN space) \cup {o}
  BY <1>2, WithDomain, Zenon
<1>5. w[o] = n /\ \A s \in DOMAIN space : w[s] = space[s]
  BY <1>2, WithFacts
<1>6. LoadInv(w, cr3, cur, stale)
  BY <1>3, <1>4, <1>5 DEF LoadInv
<1> QED BY <1>1, <1>2, <1>6

\* Fields other than those of spaces and mappings are the same.
SameButSpace(m, w) ==
  /\ Shape(w) /\ w.used = m.used /\ w.num = m.num /\ w.objs = m.objs /\ w.partials = m.partials
  /\ w.pdir = m.pdir /\ w.ptab = m.ptab /\ w.table = m.table /\ w.cr3 = m.cr3
  /\ w.currentSpace = m.currentSpace /\ w.stale = m.stale

LEMMA AllocSpace ==
  ASSUME NEW m, NEW T, NEW S, NEW K, MemInv(m, T, S, K), m.num >= 0
  PROVE  /\ MemInv(allocSpace1(m), T, S, K)
         /\ NewObj(m) \in Object /\ NewObj(m) \notin Objects(m, K)
         /\ allocSpace1(m).space = With(m.space, NewObj(m), NewSpace)
         /\ allocSpace1(m).num \in {m.num, m.num - 1}
         /\ allocSpace1(m).currentSpace = m.currentSpace /\ allocSpace1(m).mapping = m.mapping
         /\ allocSpace1(m).cr3 = m.cr3 /\ allocSpace1(m).stale = m.stale
<1>1. PICK o : o = NewObj(m)
  OBVIOUS
<1>2. PICK a : a = allocObject1(m)
  OBVIOUS
<1>3. PICK w : w = allocSpace1(m)
  OBVIOUS
<1>4. /\ o \in Object /\ o \notin Objects(m, K) /\ MemInv(a, T, S, K \cup {o}) /\ SameRest(m, a)
      /\ a.num \in {m.num, m.num - 1}
  BY <1>1, <1>2, Reserve
<1>5. w = [a EXCEPT !.space = With(a.space, o, NewSpace)]
  BY <1>1, <1>2, <1>3 DEF allocSpace1
<1>6. w.space = With(a.space, o, NewSpace) /\ w.mapping = a.mapping /\ SameButSpace(a, w)
  BY <1>5, <1>4 DEF MemInv, Shape, SameButSpace
<1>7. o \notin DOMAIN a.space /\ o \notin DOMAIN a.mapping /\ o \notin K
  BY <1>4 DEF Objects, SameRest
<1>8. DOMAIN w.space = (DOMAIN a.space) \cup {o}
  <2>1. DOMAIN With(a.space, o, NewSpace) = (DOMAIN a.space) \cup {o}
    BY WithDomain, Zenon
  <2> QED BY <2>1, <1>6
<1>9. Objects(w, K) = Objects(a, K \cup {o}) /\ Apart(w, K)
  <2>1. Objects(w, K) = Objects(a, K \cup {o})
    BY <1>6, <1>8 DEF Objects
  <2>2. Apart(a, K \cup {o})
    BY <1>4 DEF MemInv
  <2>3. Apart(w, K)
    BY <1>6, <1>7, <1>8, <2>2 DEF Apart
  <2> QED BY <2>1, <2>3
<1>10. /\ Shape(a) /\ UsedInv(a) /\ TabInv(a.pdir, a.ptab)
       /\ ObjInv(a.objs, a.partials, Objects(a, K \cup {o})) /\ TcbInv(a.table, S)
  BY <1>4, MemParts
<1>11. /\ SpaceInv(a.space, a.pdir, a.ptab) /\ ThreadInv(a.space, T) /\ UtcbInv(a.ptab, T)
       /\ MapInv(a.mapping, a.space) /\ LoadInv(a.space, a.cr3, a.currentSpace, a.stale)
  BY <1>4, MemParts
<1>12. SpaceInv(w.space, w.pdir, w.ptab)
  BY <1>4, <1>6, <1>7, <1>11, SpaceAdded DEF SameButSpace
<1>13. ThreadInv(w.space, T)
  BY <1>6, <1>7, <1>11, ThreadsSpaceAdded
<1>14. MapInv(w.mapping, w.space)
  BY <1>6, <1>7, <1>11, MapsSpaceAdded
<1>15. LoadInv(w.space, w.cr3, w.currentSpace, w.stale)
  BY <1>6, <1>7, <1>11, LoadSpaceAdded DEF SameButSpace
<1>16. UsedInv(w)
  <2>1. InUse(w) = InUse(a)
    BY <1>6 DEF SameButSpace, InUse
  <2> QED BY <2>1, <1>6, <1>10, SameUsed DEF SameButSpace
<1>17. /\ Shape(w) /\ TabInv(w.pdir, w.ptab) /\ ObjInv(w.objs, w.partials, Objects(w, K))
       /\ TcbInv(w.table, S) /\ UtcbInv(w.ptab, T)
  BY <1>6, <1>9, <1>10, <1>11 DEF SameButSpace
<1>18. MemInv(w, T, S, K)
  BY <1>9, <1>12, <1>13, <1>14, <1>15, <1>16, <1>17 DEF MemInv
<1>19. w.space = With(m.space, o, NewSpace) /\ w.currentSpace = m.currentSpace
       /\ w.mapping = m.mapping /\ w.cr3 = m.cr3 /\ w.stale = m.stale /\ w.num = a.num
  BY <1>4, <1>6 DEF SameRest, SameButSpace
<1> QED BY <1>1, <1>3, <1>4, <1>18, <1>19

LEMMA SpacesChanged ==
  ASSUME NEW m, NEW w, NEW T, NEW T2, NEW S, NEW K, NEW L, MemInv(m, T, S, K), SameButSpace(m, w),
         Objects(w, L) = Objects(m, K), Apart(w, L),
         SpaceInv(w.space, m.pdir, m.ptab), ThreadInv(w.space, T2), UtcbInv(m.ptab, T2),
         MapInv(w.mapping, w.space), LoadInv(w.space, m.cr3, m.currentSpace, m.stale)
  PROVE  MemInv(w, T2, S, L)
<1>1. /\ Shape(m) /\ UsedInv(m) /\ TabInv(m.pdir, m.ptab)
      /\ ObjInv(m.objs, m.partials, Objects(m, K)) /\ TcbInv(m.table, S)
  BY MemParts
<1>2. InUse(w) = InUse(m)
  BY DEF SameButSpace, InUse
<1>3. UsedInv(w)
  BY <1>1, <1>2, SameUsed DEF SameButSpace
<1>4. /\ Shape(w) /\ TabInv(w.pdir, w.ptab) /\ ObjInv(w.objs, w.partials, Objects(w, L))
      /\ TcbInv(w.table, S) /\ UtcbInv(w.ptab, T2)
  BY <1>1 DEF SameButSpace
<1>5. SpaceInv(w.space, w.pdir, w.ptab) /\ LoadInv(w.space, w.cr3, w.currentSpace, w.stale)
  BY DEF SameButSpace
<1> QED BY <1>3, <1>4, <1>5 DEF MemInv

LEMMA MapAdded ==
  ASSUME NEW space, NEW mapping, NEW o, NEW e, MapInv(mapping, space),
         e \in [space : DOMAIN space, loc : Loc],
         space[e.space].active # 0, e.loc \notin space[e.space].area.utcb
  PROVE  MapInv(With(mapping, o, e), space)
<1>1. PICK w : w = With(mapping, o, e)
  OBVIOUS
<1>2. DOMAIN w = (DOMAIN mapping) \cup {o}
  BY <1>1, WithDomain, Zenon
<1>3. w[o] = e /\ \A x \in DOMAIN mapping : x # o => w[x] = mapping[x]
  BY <1>1, WithFacts
<1>4. mapping \in [DOMAIN mapping -> [space : DOMAIN space, loc : Loc]]
  BY DEF MapInv
<1>5. w \in [DOMAIN w -> [space : DOMAIN space, loc : Loc]]
  <2>1. \A x \in DOMAIN mapping : mapping[x] \in [space : DOMAIN space, loc : Loc]
    BY <1>4
  <2>2. w \in [(DOMAIN mapping) \cup {o} -> [space : DOMAIN space, loc : Loc]]
    BY <1>1, <2>1, WithType, Zenon
  <2> QED BY <2>2, <1>2
<1>6. \A x \in DOMAIN w : LET s == w[x].space IN
        space[s].active # 0 /\ w[x].loc \notin space[s].area.utcb
  BY <1>2, <1>3 DEF MapInv
<1> QED BY <1>1, <1>5, <1>6 DEF MapInv

LEMMA MapRemoved ==
  ASSUME NEW space, NEW mapping, NEW o, MapInv(mapping, space)
  PROVE  MapInv(Dropped(mapping, o), space)
<1>1. PICK w : w = Dropped(mapping, o)
  OBVIOUS
<1>2. DOMAIN w = (DOMAIN mapping) \ {o}
  BY <1>1, DroppedDomain
<1>3. \A x \in DOMAIN mapping : x # o => w[x] = mapping[x]
  BY <1>1, DroppedFacts
<1>4. mapping \in [DOMAIN mapping -> [space : DOMAIN space, loc : Loc]]
  BY DEF MapInv
<1>5. w \in [DOMAIN w -> [space : DOMAIN space, loc : Loc]]
  <2>1. \A x \in DOMAIN mapping : mapping[x] \in [space : DOMAIN space, loc : Loc]
    BY <1>4
  <2>2. w \in [(DOMAIN mapping) \ {o} -> [space : DOMAIN space, loc : Loc]]
    BY <1>1, <2>1, DroppedType, Zenon
  <2> QED BY <2>2, <1>2
<1>6. \A x \in DOMAIN w : LET s == w[x].space IN
        space[s].active # 0 /\ w[x].loc \notin space[s].area.utcb
  BY <1>2, <1>3 DEF MapInv
<1> QED BY <1>1, <1>5, <1>6 DEF MapInv

LEMMA AddMapping ==
  ASSUME NEW m, NEW T, NEW S, NEW K, MemInv(m, T, S, K), m.num >= 0,
         NEW sp \in DOMAIN m.space, m.space[sp].active # 0,
         NEW loc \in Loc, loc \notin m.space[sp].area.utcb
  PROVE  /\ MemInv(addMapping1(m, sp, loc), T, S, K)
         /\ addMapping1(m, sp, loc).num \in {m.num, m.num - 1}
         /\ addMapping1(m, sp, loc).space = m.space
<1>1. PICK o : o = NewObj(m)
  OBVIOUS
<1>2. PICK a : a = allocObject1(m)
  OBVIOUS
<1>3. PICK w : w = addMapping1(m, sp, loc)
  OBVIOUS
<1>4. /\ o \in Object /\ o \notin Objects(m, K) /\ MemInv(a, T, S, K \cup {o}) /\ SameRest(m, a)
      /\ a.num \in {m.num, m.num - 1}
  BY <1>1, <1>2, Reserve
<1>5. PICK e : e = [space |-> sp, loc |-> loc]
  BY Zenon
<1>6. e.space = sp /\ e.loc = loc /\ e \in [space : DOMAIN m.space, loc : Loc]
  BY <1>5
<1>7. w = [a EXCEPT !.mapping = With(a.mapping, o, e)]
  BY <1>1, <1>2, <1>3, <1>5 DEF addMapping1
<1>8. w.mapping = With(a.mapping, o, e) /\ w.space = a.space /\ SameButSpace(a, w)
  BY <1>7, <1>4 DEF MemInv, Shape, SameButSpace
<1>9. o \notin DOMAIN a.space /\ o \notin DOMAIN a.mapping /\ o \notin K
  BY <1>4 DEF Objects, SameRest
<1>10. DOMAIN w.mapping = (DOMAIN a.mapping) \cup {o}
  <2>1. DOMAIN With(a.mapping, o, e) = (DOMAIN a.mapping) \cup {o}
    BY WithDomain, Zenon
  <2>2. w.mapping = With(a.mapping, o, e)
    BY <1>8
  <2> QED BY <2>1, <2>2
<1>11. Objects(w, K) = Objects(a, K \cup {o}) /\ Apart(w, K)
  BY <1>4, <1>8, <1>9, <1>10 DEF Objects, Apart, MemInv
<1>12. a.space = m.space
  BY <1>4 DEF SameRest
<1>13. /\ SpaceInv(a.space, a.pdir, a.ptab) /\ ThreadInv(a.space, T) /\ UtcbInv(a.ptab, T)
       /\ MapInv(a.mapping, a.space) /\ LoadInv(a.space, a.cr3, a.currentSpace, a.stale)
  BY <1>4, MemParts
<1>14. MapInv(w.mapping, w.space)
  <2>1. e \in [space : DOMAIN a.space, loc : Loc] /\ a.space[e.space].active # 0
        /\ e.loc \notin a.space[e.space].area.utcb
    BY <1>6, <1>12
  <2>2. MapInv(With(a.mapping, o, e), a.space)
    BY <1>13, <2>1, MapAdded
  <2> QED BY <2>2, <1>8
<1>15. MemInv(w, T, S, K)
  <2>1. SpaceInv(w.space, a.pdir, a.ptab) /\ ThreadInv(w.space, T) /\ UtcbInv(a.ptab, T)
        /\ LoadInv(w.space, a.cr3, a.currentSpace, a.stale)
    BY <1>8, <1>13
  <2> QED BY <2>1, <1>4, <1>8, <1>11, <1>14, SpacesChanged
<1>16. w.num = a.num /\ w.space = m.space
  BY <1>8, <1>12 DEF SameButSpace
<1> QED BY <1>3, <1>4, <1>15, <1>16

\* A mapping that is removed: its object is not free yet.
LEMMA RemoveMapping ==
  ASSUME NEW m, NEW T, NEW S, NEW K, MemInv(m, T, S, K), NEW o \in DOMAIN m.mapping,
         NEW w, w = [m EXCEPT !.mapping = Dropped(m.mapping, o)]
  PROVE  /\ MemInv(w, T, S, K \cup {o}) /\ w.num = m.num /\ w.space = m.space /\ o \notin K
         /\ w.mapping = Dropped(m.mapping, o) /\ SameButSpace(m, w)
<1>1. w.mapping = Dropped(m.mapping, o) /\ w.space = m.space /\ SameButSpace(m, w)
  BY DEF MemInv, Shape, SameButSpace
<1>2. DOMAIN w.mapping = (DOMAIN m.mapping) \ {o}
  BY <1>1, DroppedDomain
<1>3. Apart(m, K)
  BY MemParts
<1>4. Objects(w, K \cup {o}) = Objects(m, K) /\ Apart(w, K \cup {o})
  BY <1>1, <1>2, <1>3 DEF Objects, Apart
<1>5. /\ SpaceInv(m.space, m.pdir, m.ptab) /\ ThreadInv(m.space, T) /\ UtcbInv(m.ptab, T)
      /\ MapInv(m.mapping, m.space) /\ LoadInv(m.space, m.cr3, m.currentSpace, m.stale)
  BY MemParts
<1>6. MapInv(w.mapping, w.space)
  BY <1>1, <1>5, MapRemoved
<1>7. MemInv(w, T, S, K \cup {o})
  <2>1. SpaceInv(w.space, m.pdir, m.ptab) /\ ThreadInv(w.space, T) /\ UtcbInv(m.ptab, T)
        /\ LoadInv(w.space, m.cr3, m.currentSpace, m.stale)
    BY <1>1, <1>5
  <2> QED BY <2>1, <1>1, <1>4, <1>6, SpacesChanged, Zenon
<1>8. w.num = m.num /\ o \notin K
  BY <1>1, <1>3 DEF SameButSpace, Apart
<1> QED BY <1>1, <1>7, <1>8

-----------------------------------------------------------------------------
(***************************************************************************)
(* Page directories and page tables.                                       *)
(***************************************************************************)
LEMMA PageNames ==
  /\ \A d, i, e, j : TablePage(d, i) = TablePage(e, j) => d = e /\ i = j
  /\ \A d, l, e, k : UtcbPage(d, l) = UtcbPage(e, k) => d = e /\ l = k
  /\ \A s, r : DirectoryPage(s) = DirectoryPage(r) => s = r
  /\ \A d \in Directories, i \in Super : TablePage(d, i) \in Tables
  /\ \A d \in Directories, l \in Loc : UtcbPage(d, l) \in Utcbs
  /\ \A s \in Object : DirectoryPage(s) \in Directories
BY DEF TablePage, UtcbPage, DirectoryPage, Tables, Utcbs, Directories

LEMMA NotNames ==
  /\ \A p \in Tables : p \notin {None, Kip, User}
  /\ \A u \in Utcbs : u \notin {None, Kip, User}
  /\ \A d \in Directories : d # None
BY SpacesAssumption

LEMMA TableFacts ==
  ASSUME NEW pdir, NEW ptab, TabInv(pdir, ptab), NEW d \in DOMAIN pdir, NEW i \in Super,
         pdir[d][i] # None
  PROVE  /\ pdir[d][i] = TablePage(d, i) /\ TablePage(d, i) \in DOMAIN ptab
         /\ ptab[TablePage(d, i)] \in [PageNo -> Utcbs \cup {None, Kip, User}]
         /\ \A n \in PageNo : ptab[TablePage(d, i)][n] \in {None, Kip, User, UtcbPage(d, <<i, n>>)}
BY DEF TabInv

LEMMA TableOwner ==
  ASSUME NEW pdir, NEW ptab, TabInv(pdir, ptab), NEW d, NEW i, TablePage(d, i) \in DOMAIN ptab
  PROVE  d \in DOMAIN pdir /\ i \in Super /\ pdir[d][i] = TablePage(d, i) /\ pdir[d][i] # None
<1>1. PICK e \in DOMAIN pdir, j \in Super :
        TablePage(d, i) = TablePage(e, j) /\ pdir[e][j] = TablePage(d, i)
  BY DEF TabInv
<1>2. d = e /\ i = j
  BY <1>1, PageNames
<1>3. e \in Directories
  BY <1>1 DEF TabInv
<1>4. TablePage(d, i) # None
  BY <1>1, <1>2, <1>3, PageNames, NotNames
<1> QED BY <1>1, <1>2, <1>4

LEMMA UtcbOwner ==
  ASSUME NEW pdir, NEW ptab, TabInv(pdir, ptab), NEW d, NEW l, UtcbPage(d, l) \in UtcbsIn(ptab)
  PROVE  /\ d \in DOMAIN pdir /\ l \in Loc /\ pdir[d][l[1]] # None
         /\ ptab[pdir[d][l[1]]][l[2]] = UtcbPage(d, l)
<1>1. PICK u : u = UtcbPage(d, l)
  OBVIOUS
<1>2. PICK p \in DOMAIN ptab, n \in PageNo : u = ptab[p][n] /\ u \in Utcbs
  BY <1>1 DEF UtcbsIn
<1>3. PICK e \in DOMAIN pdir, j \in Super : p = TablePage(e, j) /\ pdir[e][j] = p
  BY <1>2 DEF TabInv
<1>4. pdir[e][j] # None
  BY <1>2, <1>3, TableOwner
<1>5. u \in {None, Kip, User, UtcbPage(e, <<j, n>>)}
  BY <1>2, <1>3, <1>4, TableFacts
<1>6. u = UtcbPage(e, <<j, n>>)
  BY <1>2, <1>5, NotNames
<1>7. d = e /\ l = <<j, n>>
  <2>1. PICK k : k = <<j, n>>
    BY Zenon
  <2>2. UtcbPage(d, l) = UtcbPage(e, k)
    BY <1>1, <1>6, <2>1
  <2> QED BY <2>1, <2>2, PageNames
<1>8. l \in Loc /\ l[1] = j /\ l[2] = n
  BY <1>7, <1>2, <1>3 DEF Loc
<1> QED BY <1>1, <1>2, <1>3, <1>4, <1>7, <1>8

\* What has to do with pages and page tables of memory m.
TabMem(m) == Shape(m) /\ UsedInv(m) /\ TabInv(m.pdir, m.ptab)

\* Apart from pages, directories and tables, w is like m.
SameButTables(m, w) ==
  /\ w.objs = m.objs /\ w.partials = m.partials /\ w.space = m.space /\ w.mapping = m.mapping
  /\ w.table = m.table /\ w.cr3 = m.cr3 /\ w.currentSpace = m.currentSpace /\ w.stale = m.stale

\* The tables of directories other than d are in w as they are in m.
OthersKept(m, w, d) ==
  /\ \A e \in DOMAIN m.pdir : e # d =>
       /\ e \in DOMAIN w.pdir /\ w.pdir[e] = m.pdir[e]
       /\ \A i \in Super : m.pdir[e][i] # None => w.ptab[m.pdir[e][i]] = m.ptab[m.pdir[e][i]]
  /\ \A e, l : e # d => (UtcbPage(e, l) \in UtcbsIn(w.ptab) <=> UtcbPage(e, l) \in UtcbsIn(m.ptab))

NoPages                 == [n \in PageNo |-> None]
SetEntry(tab, x, n, v) == [tab EXCEPT ![x][n] = v]

LEMMA TableAdded ==
  ASSUME NEW pdir, NEW ptab, TabInv(pdir, ptab), NEW d \in DOMAIN pdir, NEW i \in Super,
         pdir[d][i] = None, NEW p, p = TablePage(d, i),
         NEW pdir2, pdir2 = SetEntry(pdir, d, i, p), NEW ptab2, ptab2 = With(ptab, p, NoPages)
  PROVE  /\ p \in Tables /\ p \notin DOMAIN ptab /\ TabInv(pdir2, ptab2)
         /\ UtcbsIn(ptab2) = UtcbsIn(ptab)
<1>1. /\ DOMAIN pdir \subseteq Directories
      /\ pdir \in [DOMAIN pdir -> [Super -> Tables \cup {None}]]
      /\ \A e \in DOMAIN pdir, j \in Super : pdir[e][j] \in {None, TablePage(e, j)}
      /\ ptab \in [DOMAIN ptab -> [PageNo -> Utcbs \cup {None, Kip, User}]]
      /\ \A q \in DOMAIN ptab : \E e \in DOMAIN pdir, j \in Super :
                                  q = TablePage(e, j) /\ pdir[e][j] = q
  BY DEF TabInv
<1>2. p \in Tables /\ p # None
  BY <1>1, PageNames, NotNames
<1>3. p \notin DOMAIN ptab
  BY TableOwner
<1>4. DOMAIN ptab2 = (DOMAIN ptab) \cup {p}
  BY WithDomain, Zenon
<1>5. ptab2[p] = NoPages /\ \A q \in DOMAIN ptab : ptab2[q] = ptab[q]
  BY <1>3, WithFacts
<1>6. NoPages \in [PageNo -> Utcbs \cup {None, Kip, User}] /\ \A n \in PageNo : NoPages[n] = None
  BY DEF NoPages
<1>7. DOMAIN pdir2 = DOMAIN pdir /\ pdir2 \in [DOMAIN pdir2 -> [Super -> Tables \cup {None}]]
  BY <1>1, <1>2 DEF SetEntry
<1>8. pdir2[d][i] = p
      /\ \A e \in DOMAIN pdir, j \in Super : (e # d \/ j # i) => pdir2[e][j] = pdir[e][j]
  BY <1>1 DEF SetEntry
<1>9. ptab2 \in [DOMAIN ptab2 -> [PageNo -> Utcbs \cup {None, Kip, User}]]
  <2>1. \A q \in DOMAIN ptab : ptab[q] \in [PageNo -> Utcbs \cup {None, Kip, User}]
    BY <1>1
  <2>2. ptab2 \in [(DOMAIN ptab) \cup {p} -> [PageNo -> Utcbs \cup {None, Kip, User}]]
    BY <2>1, <1>6, WithType, Zenon
  <2> QED BY <2>2, <1>4
<1>10. \A e \in DOMAIN pdir2, j \in Super : pdir2[e][j] \in {None, TablePage(e, j)}
  BY <1>1, <1>7, <1>8
<1>11. \A q \in DOMAIN ptab2 : \E e \in DOMAIN pdir2, j \in Super :
                                  q = TablePage(e, j) /\ pdir2[e][j] = q
  <2> SUFFICES ASSUME NEW q \in DOMAIN ptab2
               PROVE  \E e \in DOMAIN pdir2, j \in Super : q = TablePage(e, j) /\ pdir2[e][j] = q
    OBVIOUS
  <2>1. CASE q = p
    BY <2>1, <1>7, <1>8
  <2>2. CASE q \in DOMAIN ptab
    <3>1. PICK e \in DOMAIN pdir, j \in Super : q = TablePage(e, j) /\ pdir[e][j] = q
      BY <2>2, <1>1
    <3>2. e # d \/ j # i
      BY <3>1, <2>2, <1>3
    <3> QED BY <3>1, <3>2, <1>7, <1>8
  <2> QED BY <2>1, <2>2, <1>4
<1>12. \A e \in DOMAIN pdir2, j \in Super : pdir2[e][j] # None =>
         /\ pdir2[e][j] \in DOMAIN ptab2
         /\ \A n \in PageNo : ptab2[pdir2[e][j]][n] \in {None, Kip, User, UtcbPage(e, <<j, n>>)}
  <2> SUFFICES ASSUME NEW e \in DOMAIN pdir2, NEW j \in Super, pdir2[e][j] # None
               PROVE  /\ pdir2[e][j] \in DOMAIN ptab2
                      /\ \A n \in PageNo : ptab2[pdir2[e][j]][n]
                                             \in {None, Kip, User, UtcbPage(e, <<j, n>>)}
    OBVIOUS
  <2>1. CASE e = d /\ j = i
    BY <2>1, <1>4, <1>5, <1>6, <1>8
  <2>2. CASE ~(e = d /\ j = i)
    <3>1. pdir2[e][j] = pdir[e][j] /\ e \in DOMAIN pdir
      BY <2>2, <1>7, <1>8
    <3>2. /\ pdir[e][j] \in DOMAIN ptab
          /\ \A n \in PageNo : ptab[pdir[e][j]][n] \in {None, Kip, User, UtcbPage(e, <<j, n>>)}
      BY <3>1 DEF TabInv
    <3> QED BY <3>1, <3>2, <1>4, <1>5
  <2> QED BY <2>1, <2>2
<1>13. TabInv(pdir2, ptab2)
  BY <1>1, <1>7, <1>9, <1>10, <1>11, <1>12 DEF TabInv
<1>14. UtcbsIn(ptab2) = UtcbsIn(ptab)
  <2>1. \A u \in Utcbs : (\E q \in DOMAIN ptab2, n \in PageNo : u = ptab2[q][n])
                         <=> (\E q \in DOMAIN ptab, n \in PageNo : u = ptab[q][n])
    BY <1>4, <1>5, <1>6, NotNames
  <2> QED BY <2>1 DEF UtcbsIn
<1> QED BY <1>2, <1>3, <1>13, <1>14

LEMMA EntryAt ==
  ASSUME NEW pdir, NEW ptab, TabInv(pdir, ptab), NEW q \in DOMAIN ptab, NEW k \in PageNo,
         ptab[q][k] \in Utcbs
  PROVE  \E e \in DOMAIN pdir, j \in Super : q = TablePage(e, j) /\ pdir[e][j] = q
                                             /\ ptab[q][k] = UtcbPage(e, <<j, k>>)
<1>1. PICK e \in DOMAIN pdir, j \in Super : q = TablePage(e, j) /\ pdir[e][j] = q
  BY DEF TabInv
<1>2. pdir[e][j] # None
  BY <1>1, TableOwner
<1>3. ptab[q][k] \in {None, Kip, User, UtcbPage(e, <<j, k>>)}
  BY <1>1, <1>2, TableFacts
<1> QED BY <1>1, <1>3, NotNames

\* An entry of a page table is changed.
LEMMA EntrySet ==
  ASSUME NEW pdir, NEW ptab, TabInv(pdir, ptab), NEW d \in DOMAIN pdir, NEW i \in Super,
         NEW n \in PageNo, NEW p, p = pdir[d][i], p # None, NEW u, u = UtcbPage(d, <<i, n>>),
         NEW v \in {None, Kip, User, u}, NEW ptab2, ptab2 = SetEntry(ptab, p, n, v)
  PROVE  /\ TabInv(pdir, ptab2) /\ p \in DOMAIN ptab
         /\ ptab2[p][n] = v /\ \A k \in PageNo : k # n => ptab2[p][k] = ptab[p][k]
         /\ \A q \in DOMAIN ptab : q # p => ptab2[q] = ptab[q]
         /\ u \in Utcbs /\ (u \in UtcbsIn(ptab2) <=> v = u)
         /\ \A x : x # u => (x \in UtcbsIn(ptab2) <=> x \in UtcbsIn(ptab))
<1>1. p = TablePage(d, i) /\ p \in DOMAIN ptab
  BY TableFacts
<1>2. ptab \in [DOMAIN ptab -> [PageNo -> Utcbs \cup {None, Kip, User}]]
  BY DEF TabInv
<1>3. PICK l : l = <<i, n>>
  OBVIOUS
<1>4. u = UtcbPage(d, l) /\ l \in Loc /\ d \in Directories
  BY <1>3 DEF Loc, TabInv
<1>5. u \in Utcbs
  BY <1>4, PageNames
<1>6. DOMAIN ptab2 = DOMAIN ptab
  BY DEF SetEntry
<1>7. ptab2[p][n] = v /\ \A k \in PageNo : k # n => ptab2[p][k] = ptab[p][k]
  BY <1>1, <1>2 DEF SetEntry
<1>8. \A q \in DOMAIN ptab : q # p => ptab2[q] = ptab[q]
  BY <1>1, <1>2 DEF SetEntry
<1>9. ptab2 \in [DOMAIN ptab2 -> [PageNo -> Utcbs \cup {None, Kip, User}]]
  BY <1>1, <1>2, <1>5 DEF SetEntry
<1>10. \A e \in DOMAIN pdir, j \in Super : pdir[e][j] # None =>
         /\ pdir[e][j] \in DOMAIN ptab2
         /\ \A k \in PageNo : ptab2[pdir[e][j]][k] \in {None, Kip, User, UtcbPage(e, <<j, k>>)}
  <2> SUFFICES ASSUME NEW e \in DOMAIN pdir, NEW j \in Super, pdir[e][j] # None
               PROVE  /\ pdir[e][j] \in DOMAIN ptab2
                      /\ \A k \in PageNo : ptab2[pdir[e][j]][k]
                                             \in {None, Kip, User, UtcbPage(e, <<j, k>>)}
    OBVIOUS
  <2>1. /\ pdir[e][j] = TablePage(e, j) /\ pdir[e][j] \in DOMAIN ptab
        /\ \A k \in PageNo : ptab[pdir[e][j]][k] \in {None, Kip, User, UtcbPage(e, <<j, k>>)}
    BY TableFacts
  <2>2. CASE pdir[e][j] = p
    <3>1. e = d /\ j = i
      BY <2>1, <2>2, <1>1, PageNames, Zenon
    <3>2. \A k \in PageNo : ptab2[p][k] \in {None, Kip, User, UtcbPage(e, <<j, k>>)}
      <4>1. \A k \in PageNo : ptab[p][k] \in {None, Kip, User, UtcbPage(e, <<j, k>>)}
        BY <2>1, <2>2
      <4>2. ptab2[p][n] \in {None, Kip, User, UtcbPage(e, <<j, n>>)}
        BY <1>7, <3>1
      <4>3. ASSUME NEW k \in PageNo, k # n
            PROVE  ptab2[p][k] \in {None, Kip, User, UtcbPage(e, <<j, k>>)}
        <5>1. ptab2[p][k] = ptab[p][k]
          BY <4>3, <1>7
        <5> QED BY <4>1, <5>1
      <4> QED BY <4>2, <4>3
    <3> QED BY <3>2, <2>1, <2>2, <1>6
  <2>3. CASE pdir[e][j] # p
    <3>1. ptab2[pdir[e][j]] = ptab[pdir[e][j]]
      BY <2>1, <2>3, <1>8
    <3> QED BY <2>1, <3>1, <1>6
  <2> QED BY <2>2, <2>3
<1>11. TabInv(pdir, ptab2)
  <2>1. /\ DOMAIN pdir \subseteq Directories
        /\ pdir \in [DOMAIN pdir -> [Super -> Tables \cup {None}]]
        /\ \A e \in DOMAIN pdir, j \in Super : pdir[e][j] \in {None, TablePage(e, j)}
    BY DEF TabInv
  <2>2. \A q \in DOMAIN ptab2 : \E e \in DOMAIN pdir, j \in Super :
                                  q = TablePage(e, j) /\ pdir[e][j] = q
    BY <1>6 DEF TabInv
  <2> QED BY <2>1, <2>2, <1>9, <1>10 DEF TabInv
<1>12. u \in UtcbsIn(ptab2) <=> v = u
  <2>1. ASSUME v = u PROVE u \in UtcbsIn(ptab2)
    BY <2>1, <1>1, <1>5, <1>6, <1>7 DEF UtcbsIn
  <2>2. ASSUME u \in UtcbsIn(ptab2) PROVE v = u
    <3>1. UtcbPage(d, l) \in UtcbsIn(ptab2)
      BY <2>2, <1>4
    <3>2. ptab2[pdir[d][l[1]]][l[2]] = UtcbPage(d, l)
      BY <3>1, <1>11, UtcbOwner
    <3>3. l[1] = i /\ l[2] = n
      BY <1>3
    <3> QED BY <3>2, <3>3, <1>4, <1>7
  <2> QED BY <2>1, <2>2
<1>13. ASSUME NEW x, x # u PROVE x \in UtcbsIn(ptab2) <=> x \in UtcbsIn(ptab)
  <2>1. ASSUME x \in UtcbsIn(ptab2) PROVE x \in UtcbsIn(ptab)
    <3>1. PICK q \in DOMAIN ptab, k \in PageNo : x = ptab2[q][k] /\ x \in Utcbs
      BY <2>1, <1>6 DEF UtcbsIn
    <3>2. ~(q = p /\ k = n)
      BY <3>1, <1>13, <1>7, NotNames
    <3>3. ptab2[q][k] = ptab[q][k]
      BY <3>1, <3>2, <1>7, <1>8
    <3> QED BY <3>1, <3>3 DEF UtcbsIn
  <2>2. ASSUME x \in UtcbsIn(ptab) PROVE x \in UtcbsIn(ptab2)
    <3>1. PICK q \in DOMAIN ptab, k \in PageNo : x = ptab[q][k] /\ x \in Utcbs
      BY <2>2 DEF UtcbsIn
    <3>2. ~(q = p /\ k = n)
      <4>1. ASSUME q = p, k = n PROVE FALSE
        <5>1. ptab[p][n] \in {None, Kip, User, u}
          BY TableFacts
        <5> QED BY <4>1, <5>1, <3>1, <1>13, NotNames
      <4> QED BY <4>1
    <3>3. ptab2[q][k] = ptab[q][k]
      BY <3>1, <3>2, <1>7, <1>8
    <3> QED BY <3>1, <3>3, <1>6 DEF UtcbsIn
  <2> QED BY <2>1, <2>2
<1> QED BY <1>1, <1>5, <1>7, <1>8, <1>11, <1>12, <1>13

\* A page table without pages of utcbs is removed.
LEMMA TableRemoved ==
  ASSUME NEW pdir, NEW ptab, TabInv(pdir, ptab), NEW d \in DOMAIN pdir, NEW i \in Super,
         NEW p, p = pdir[d][i], p # None, \A n \in PageNo : ptab[p][n] \notin Utcbs,
         NEW pdir2, pdir2 = SetEntry(pdir, d, i, None), NEW ptab2, ptab2 = Dropped(ptab, p)
  PROVE  /\ p \in Tables /\ p \in DOMAIN ptab /\ TabInv(pdir2, ptab2)
         /\ UtcbsIn(ptab2) = UtcbsIn(ptab)
<1>1. /\ DOMAIN pdir \subseteq Directories
      /\ pdir \in [DOMAIN pdir -> [Super -> Tables \cup {None}]]
      /\ \A e \in DOMAIN pdir, j \in Super : pdir[e][j] \in {None, TablePage(e, j)}
      /\ ptab \in [DOMAIN ptab -> [PageNo -> Utcbs \cup {None, Kip, User}]]
      /\ \A q \in DOMAIN ptab : \E e \in DOMAIN pdir, j \in Super :
                                  q = TablePage(e, j) /\ pdir[e][j] = q
  BY DEF TabInv
<1>2. p = TablePage(d, i) /\ p \in DOMAIN ptab
  BY TableFacts
<1>3. p \in Tables
  BY <1>1, <1>2, PageNames
<1>4. DOMAIN ptab2 = (DOMAIN ptab) \ {p}
  BY DroppedDomain
<1>5. \A q \in DOMAIN ptab : q # p => ptab2[q] = ptab[q]
  BY DroppedFacts
<1>7. DOMAIN pdir2 = DOMAIN pdir /\ pdir2 \in [DOMAIN pdir2 -> [Super -> Tables \cup {None}]]
  BY <1>1 DEF SetEntry
<1>8. pdir2[d][i] = None
      /\ \A e \in DOMAIN pdir, j \in Super : (e # d \/ j # i) => pdir2[e][j] = pdir[e][j]
  BY <1>1 DEF SetEntry
<1>9. ptab2 \in [DOMAIN ptab2 -> [PageNo -> Utcbs \cup {None, Kip, User}]]
  <2>1. \A q \in DOMAIN ptab : ptab[q] \in [PageNo -> Utcbs \cup {None, Kip, User}]
    BY <1>1
  <2>2. ptab2 \in [(DOMAIN ptab) \ {p} -> [PageNo -> Utcbs \cup {None, Kip, User}]]
    BY <2>1, DroppedType, Zenon
  <2> QED BY <2>2, <1>4
<1>10. \A e \in DOMAIN pdir2, j \in Super : pdir2[e][j] \in {None, TablePage(e, j)}
  BY <1>1, <1>7, <1>8
<1>11. \A q \in DOMAIN ptab2 : \E e \in DOMAIN pdir2, j \in Super :
                                  q = TablePage(e, j) /\ pdir2[e][j] = q
  <2> SUFFICES ASSUME NEW q \in DOMAIN ptab2
               PROVE  \E e \in DOMAIN pdir2, j \in Super : q = TablePage(e, j) /\ pdir2[e][j] = q
    OBVIOUS
  <2>1. PICK e \in DOMAIN pdir, j \in Super : q = TablePage(e, j) /\ pdir[e][j] = q
    BY <1>4, <1>1
  <2>2. e # d \/ j # i
    BY <2>1, <1>4
  <2> QED BY <2>1, <2>2, <1>7, <1>8
<1>12. \A e \in DOMAIN pdir2, j \in Super : pdir2[e][j] # None =>
         /\ pdir2[e][j] \in DOMAIN ptab2
         /\ \A n \in PageNo : ptab2[pdir2[e][j]][n] \in {None, Kip, User, UtcbPage(e, <<j, n>>)}
  <2> SUFFICES ASSUME NEW e \in DOMAIN pdir2, NEW j \in Super, pdir2[e][j] # None
               PROVE  /\ pdir2[e][j] \in DOMAIN ptab2
                      /\ \A n \in PageNo : ptab2[pdir2[e][j]][n]
                                             \in {None, Kip, User, UtcbPage(e, <<j, n>>)}
    OBVIOUS
  <2>1. ~(e = d /\ j = i)
    BY <1>8
  <2>2. pdir2[e][j] = pdir[e][j] /\ e \in DOMAIN pdir
    BY <2>1, <1>7, <1>8
  <2>3. /\ pdir[e][j] \in DOMAIN ptab /\ pdir[e][j] = TablePage(e, j)
        /\ \A n \in PageNo : ptab[pdir[e][j]][n] \in {None, Kip, User, UtcbPage(e, <<j, n>>)}
    BY <2>2, TableFacts
  <2>4. pdir[e][j] # p
    BY <2>1, <2>3, <1>2, PageNames
  <2> QED BY <2>2, <2>3, <2>4, <1>4, <1>5
<1>13. TabInv(pdir2, ptab2)
  BY <1>1, <1>7, <1>9, <1>10, <1>11, <1>12 DEF TabInv
<1>14. UtcbsIn(ptab2) = UtcbsIn(ptab)
  <2>1. \A u \in Utcbs : (\E q \in DOMAIN ptab2, n \in PageNo : u = ptab2[q][n])
                         <=> (\E q \in DOMAIN ptab, n \in PageNo : u = ptab[q][n])
    BY <1>4, <1>5
  <2> QED BY <2>1 DEF UtcbsIn
<1> QED BY <1>2, <1>3, <1>13, <1>14

\* A page directory with one table, and the page table with the kip.
OneTable(i, p) == [j \in Super |-> IF j = i THEN p ELSE None]
OnlyKip(n)     == [k \in PageNo |-> IF k = n THEN Kip ELSE None]

LEMMA DirectoryAdded ==
  ASSUME NEW pdir, NEW ptab, TabInv(pdir, ptab), NEW d \in Directories, d \notin DOMAIN pdir,
         NEW i \in Super, NEW n \in PageNo, NEW p, p = TablePage(d, i),
         NEW pdir2, pdir2 = With(pdir, d, OneTable(i, p)),
         NEW ptab2, ptab2 = With(ptab, p, OnlyKip(n))
  PROVE  /\ p \in Tables /\ p \notin DOMAIN ptab /\ TabInv(pdir2, ptab2)
         /\ UtcbsIn(ptab2) = UtcbsIn(ptab)
<1>1. /\ DOMAIN pdir \subseteq Directories
      /\ pdir \in [DOMAIN pdir -> [Super -> Tables \cup {None}]]
      /\ \A e \in DOMAIN pdir, j \in Super : pdir[e][j] \in {None, TablePage(e, j)}
      /\ ptab \in [DOMAIN ptab -> [PageNo -> Utcbs \cup {None, Kip, User}]]
      /\ \A q \in DOMAIN ptab : \E e \in DOMAIN pdir, j \in Super :
                                  q = TablePage(e, j) /\ pdir[e][j] = q
  BY DEF TabInv
<1>2. p \in Tables /\ p # None
  BY PageNames, NotNames
<1>3. p \notin DOMAIN ptab
  BY TableOwner
<1>4. PICK x, y : x = OneTable(i, p) /\ y = OnlyKip(n)
  OBVIOUS
<1>5. x \in [Super -> Tables \cup {None}] /\ x[i] = p /\ \A j \in Super : j # i => x[j] = None
  BY <1>2, <1>4 DEF OneTable
<1>6. y \in [PageNo -> Utcbs \cup {None, Kip, User}] /\ \A k \in PageNo : y[k] \in {None, Kip}
  BY <1>4 DEF OnlyKip
<1>7. pdir2 = With(pdir, d, x) /\ ptab2 = With(ptab, p, y)
  BY <1>4
<1>8. DOMAIN pdir2 = (DOMAIN pdir) \cup {d}
  BY <1>7, WithDomain, Zenon
<1>9. DOMAIN ptab2 = (DOMAIN ptab) \cup {p}
  BY <1>7, WithDomain, Zenon
<1>10. pdir2[d] = x /\ \A e \in DOMAIN pdir : pdir2[e] = pdir[e]
  BY <1>7, WithFacts
<1>11. ptab2[p] = y /\ \A q \in DOMAIN ptab : ptab2[q] = ptab[q]
  BY <1>3, <1>7, WithFacts
<1>12. pdir2 \in [DOMAIN pdir2 -> [Super -> Tables \cup {None}]]
  <2>1. PICK F : F = [Super -> Tables \cup {None}]
    BY Zenon
  <2>2. x \in F /\ \A e \in DOMAIN pdir : pdir[e] \in F
    BY <1>1, <1>5, <2>1
  <2>3. With(pdir, d, x) \in [(DOMAIN pdir) \cup {d} -> F]
    BY <2>2, WithType, Zenon
  <2> QED BY <2>1, <2>3, <1>7, <1>8
<1>13. ptab2 \in [DOMAIN ptab2 -> [PageNo -> Utcbs \cup {None, Kip, User}]]
  <2>1. PICK F : F = [PageNo -> Utcbs \cup {None, Kip, User}]
    BY Zenon
  <2>2. y \in F /\ \A q \in DOMAIN ptab : ptab[q] \in F
    BY <1>1, <1>6, <2>1
  <2>3. With(ptab, p, y) \in [(DOMAIN ptab) \cup {p} -> F]
    BY <2>2, WithType, Zenon
  <2> QED BY <2>1, <2>3, <1>7, <1>9
<1>14. \A e \in DOMAIN pdir2, j \in Super : pdir2[e][j] \in {None, TablePage(e, j)}
  BY <1>1, <1>5, <1>8, <1>10
<1>15. \A q \in DOMAIN ptab2 : \E e \in DOMAIN pdir2, j \in Super :
                                  q = TablePage(e, j) /\ pdir2[e][j] = q
  <2> SUFFICES ASSUME NEW q \in DOMAIN ptab2
               PROVE  \E e \in DOMAIN pdir2, j \in Super : q = TablePage(e, j) /\ pdir2[e][j] = q
    OBVIOUS
  <2>1. CASE q = p
    BY <2>1, <1>5, <1>8, <1>10
  <2>2. CASE q \in DOMAIN ptab
    <3>1. PICK e \in DOMAIN pdir, j \in Super : q = TablePage(e, j) /\ pdir[e][j] = q
      BY <2>2, <1>1
    <3> QED BY <3>1, <1>8, <1>10
  <2> QED BY <2>1, <2>2, <1>9
<1>16. \A e \in DOMAIN pdir2, j \in Super : pdir2[e][j] # None =>
         /\ pdir2[e][j] \in DOMAIN ptab2
         /\ \A k \in PageNo : ptab2[pdir2[e][j]][k] \in {None, Kip, User, UtcbPage(e, <<j, k>>)}
  <2> SUFFICES ASSUME NEW e \in DOMAIN pdir2, NEW j \in Super, pdir2[e][j] # None
               PROVE  /\ pdir2[e][j] \in DOMAIN ptab2
                      /\ \A k \in PageNo : ptab2[pdir2[e][j]][k]
                                             \in {None, Kip, User, UtcbPage(e, <<j, k>>)}
    OBVIOUS
  <2>1. CASE e = d
    <3>1. pdir2[e][j] = p
      BY <2>1, <1>5, <1>10
    <3> QED BY <3>1, <1>6, <1>9, <1>11
  <2>2. CASE e \in DOMAIN pdir
    <3>1. pdir2[e] = pdir[e]
      BY <2>2, <1>10
    <3>2. /\ pdir[e][j] \in DOMAIN ptab
          /\ \A k \in PageNo : ptab[pdir[e][j]][k] \in {None, Kip, User, UtcbPage(e, <<j, k>>)}
      BY <3>1, <2>2 DEF TabInv
    <3> QED BY <3>1, <3>2, <1>9, <1>11
  <2> QED BY <2>1, <2>2, <1>8
<1>17. TabInv(pdir2, ptab2)
  <2>1. DOMAIN pdir2 \subseteq Directories
    BY <1>1, <1>8
  <2> QED BY <2>1, <1>12, <1>13, <1>14, <1>15, <1>16 DEF TabInv
<1>18. UtcbsIn(ptab2) = UtcbsIn(ptab)
  <2>1. \A u \in Utcbs : (\E q \in DOMAIN ptab2, k \in PageNo : u = ptab2[q][k])
                         <=> (\E q \in DOMAIN ptab, k \in PageNo : u = ptab[q][k])
    BY <1>6, <1>9, <1>11, NotNames
  <2> QED BY <2>1 DEF UtcbsIn
<1> QED BY <1>2, <1>3, <1>17, <1>18

LEMMA DirectoryRemoved ==
  ASSUME NEW pdir, NEW ptab, TabInv(pdir, ptab), NEW d \in DOMAIN pdir,
         NEW tables, tables = Range(pdir[d]) \ {None},
         NEW pdir2, pdir2 = Dropped(pdir, d),
         NEW ptab2, ptab2 = Restrict(ptab, DOMAIN ptab \ tables)
  PROVE  /\ TabInv(pdir2, ptab2) /\ \A q \in tables : q \in DOMAIN ptab
         /\ \A x : x \in UtcbsIn(ptab2) <=> x \in UtcbsIn(ptab) /\ \A k : x # UtcbPage(d, k)
<1>1. /\ DOMAIN pdir \subseteq Directories
      /\ pdir \in [DOMAIN pdir -> [Super -> Tables \cup {None}]]
      /\ \A e \in DOMAIN pdir, j \in Super : pdir[e][j] \in {None, TablePage(e, j)}
      /\ ptab \in [DOMAIN ptab -> [PageNo -> Utcbs \cup {None, Kip, User}]]
      /\ \A q \in DOMAIN ptab : \E e \in DOMAIN pdir, j \in Super :
                                  q = TablePage(e, j) /\ pdir[e][j] = q
  BY DEF TabInv
<1>2. \A q : q \in tables <=> \E i \in Super : q = pdir[d][i] /\ q # None
  BY <1>1 DEF Range
<1>3. tables \subseteq DOMAIN ptab
  BY <1>2, TableFacts
<1>4. DOMAIN pdir2 = (DOMAIN pdir) \ {d}
  BY DroppedDomain
<1>5. \A e \in DOMAIN pdir : e # d => pdir2[e] = pdir[e]
  BY DroppedFacts
<1>6. DOMAIN ptab2 = (DOMAIN ptab) \ tables /\ \A q \in DOMAIN ptab2 : ptab2[q] = ptab[q]
  BY DEF Restrict
<1>7. \A e, j : e # d => TablePage(e, j) \notin tables
  BY <1>1, <1>2, PageNames
<1>8. pdir2 \in [DOMAIN pdir2 -> [Super -> Tables \cup {None}]]
  <2>1. \A e \in DOMAIN pdir : pdir[e] \in [Super -> Tables \cup {None}]
    BY <1>1
  <2>2. pdir2 \in [(DOMAIN pdir) \ {d} -> [Super -> Tables \cup {None}]]
    BY <2>1, DroppedType, Zenon
  <2> QED BY <2>2, <1>4
<1>9. ptab2 \in [DOMAIN ptab2 -> [PageNo -> Utcbs \cup {None, Kip, User}]]
  <2>1. \A q \in DOMAIN ptab \ tables : ptab[q] \in [PageNo -> Utcbs \cup {None, Kip, User}]
    BY <1>1
  <2>2. ptab2 \in [DOMAIN ptab \ tables -> [PageNo -> Utcbs \cup {None, Kip, User}]]
    BY <2>1 DEF Restrict
  <2> QED BY <2>2, <1>6, Zenon
<1>10. \A e \in DOMAIN pdir2, j \in Super : pdir2[e][j] \in {None, TablePage(e, j)}
  BY <1>1, <1>4, <1>5
<1>11. \A q \in DOMAIN ptab2 : \E e \in DOMAIN pdir2, j \in Super :
                                  q = TablePage(e, j) /\ pdir2[e][j] = q
  <2> SUFFICES ASSUME NEW q \in DOMAIN ptab2
               PROVE  \E e \in DOMAIN pdir2, j \in Super : q = TablePage(e, j) /\ pdir2[e][j] = q
    OBVIOUS
  <2>1. PICK e \in DOMAIN pdir, j \in Super : q = TablePage(e, j) /\ pdir[e][j] = q
    BY <1>1, <1>6
  <2>2. q # None
    BY <2>1, TableOwner, <1>6
  <2>3. e # d
    BY <2>1, <2>2, <1>2, <1>6
  <2> QED BY <2>1, <2>3, <1>4, <1>5
<1>12. \A e \in DOMAIN pdir2, j \in Super : pdir2[e][j] # None =>
         /\ pdir2[e][j] \in DOMAIN ptab2
         /\ \A k \in PageNo : ptab2[pdir2[e][j]][k] \in {None, Kip, User, UtcbPage(e, <<j, k>>)}
  <2> SUFFICES ASSUME NEW e \in DOMAIN pdir2, NEW j \in Super, pdir2[e][j] # None
               PROVE  /\ pdir2[e][j] \in DOMAIN ptab2
                      /\ \A k \in PageNo : ptab2[pdir2[e][j]][k]
                                             \in {None, Kip, User, UtcbPage(e, <<j, k>>)}
    BY Zenon
  <2>1. e \in DOMAIN pdir /\ e # d /\ pdir2[e] = pdir[e]
    BY <1>4, <1>5
  <2>2. /\ pdir[e][j] \in DOMAIN ptab /\ pdir[e][j] = TablePage(e, j)
        /\ \A k \in PageNo : ptab[pdir[e][j]][k] \in {None, Kip, User, UtcbPage(e, <<j, k>>)}
    BY <2>1, TableFacts
  <2>3. pdir[e][j] \in DOMAIN ptab2
    BY <2>1, <2>2, <1>6, <1>7
  <2> QED BY <2>1, <2>2, <2>3, <1>6, Zenon
<1>13. TabInv(pdir2, ptab2)
  <2>1. DOMAIN pdir2 \subseteq Directories
    BY <1>1, <1>4
  <2> QED BY <2>1, <1>8, <1>9, <1>10, <1>11, <1>12, Zenon DEF TabInv
<1>14. ASSUME NEW x \in UtcbsIn(ptab2) PROVE x \in UtcbsIn(ptab) /\ \A k : x # UtcbPage(d, k)
  <2>1. PICK q \in DOMAIN ptab2, k \in PageNo : x = ptab2[q][k] /\ x \in Utcbs
    BY <1>14, Zenon DEF UtcbsIn
  <2>2. PICK e \in DOMAIN pdir2, j \in Super : x = UtcbPage(e, <<j, k>>)
    BY <2>1, <1>13, EntryAt
  <2>3. e # d
    BY <1>4
  <2>4. x \in UtcbsIn(ptab)
    BY <2>1, <1>6, Zenon DEF UtcbsIn
  <2> QED BY <2>2, <2>3, <2>4, PageNames
<1>15. ASSUME NEW x \in UtcbsIn(ptab), \A k : x # UtcbPage(d, k) PROVE x \in UtcbsIn(ptab2)
  <2>1. PICK q \in DOMAIN ptab, k \in PageNo : x = ptab[q][k] /\ x \in Utcbs
    BY <1>15 DEF UtcbsIn
  <2>2. PICK e \in DOMAIN pdir, j \in Super : q = TablePage(e, j) /\ x = UtcbPage(e, <<j, k>>)
    BY <2>1, EntryAt
  <2>3. e # d
    <3>1. PICK c : c = <<j, k>>
      BY Zenon
    <3>2. x = UtcbPage(e, c)
      BY <3>1, <2>2
    <3> QED BY <3>2, <1>15
  <2>4. q \in DOMAIN ptab2
    BY <2>2, <2>3, <1>6, <1>7
  <2> QED BY <2>1, <2>4, <1>6, Zenon DEF UtcbsIn
<1>16. \A x : x \in UtcbsIn(ptab2) <=> x \in UtcbsIn(ptab) /\ \A k : x # UtcbPage(d, k)
  BY <1>14, <1>15
<1> QED BY <1>3, <1>13, <1>16

LEMMA PagesTaken ==
  ASSUME NEW m, NEW w, NEW P, UsedInv(m), IsFiniteSet(P), P \cap InUse(m) = {},
         NEW n \in Nat, Cardinality(P) = n,
         w.used = m.used \cup P, w.num = m.num - n, InUse(w) = InUse(m) \cup P
  PROVE  UsedInv(w)
<1>1. PICK k \in Int, c \in Int : k = m.num /\ c = Cardinality(m.used) /\ k + c = NumPages
  BY FS_CardinalityType DEF UsedInv
<1>2. m.used \cap P = {} /\ IsFiniteSet(m.used)
  BY DEF UsedInv
<1>3. IsFiniteSet(w.used) /\ Cardinality(w.used) = c + n
  <2>1. /\ IsFiniteSet(m.used \cup P)
        /\ Cardinality(m.used \cup P) = Cardinality(m.used) + Cardinality(P) - Cardinality(m.used \cap P)
    BY <1>2, FS_Union
  <2>2. Cardinality(m.used \cap P) = 0
    BY <1>2, FS_EmptySet
  <2> QED BY <2>1, <2>2, <1>1
<1>4. w.num = k - n
  BY <1>1
<1>5. w.num \in Int /\ w.num + Cardinality(w.used) = NumPages
  BY <1>1, <1>3, <1>4
<1>6. w.used = InUse(w)
  BY DEF UsedInv
<1> QED BY <1>3, <1>5, <1>6 DEF UsedInv

LEMMA PagesFreed ==
  ASSUME NEW m, NEW w, NEW P, UsedInv(m), P \subseteq InUse(m),
         w.used = m.used \ P, w.num = m.num + Cardinality(P), InUse(w) = InUse(m) \ P
  PROVE  UsedInv(w) /\ Cardinality(P) \in Nat
<1>1. PICK k \in Int, c \in Int : k = m.num /\ c = Cardinality(m.used) /\ k + c = NumPages
  BY FS_CardinalityType DEF UsedInv
<1>2. P \subseteq m.used /\ IsFiniteSet(m.used) /\ m.used \cap P = P
  BY DEF UsedInv
<1>3. PICK n \in Nat : n = Cardinality(P)
  <2>1. IsFiniteSet(P)
    BY <1>2, FS_Subset, Zenon
  <2>2. Cardinality(P) \in Nat
    BY <2>1, FS_CardinalityType, Zenon
  <2> QED BY <2>2, Zenon
<1>4. IsFiniteSet(w.used) /\ Cardinality(w.used) = c - n
  BY <1>1, <1>2, <1>3, FS_Difference, Zenon
<1>5. w.num = k + n
  BY <1>1, <1>3
<1>6. w.num \in Int /\ w.num + Cardinality(w.used) = NumPages
  BY <1>1, <1>4, <1>5
<1>7. w.used = InUse(w)
  BY DEF UsedInv
<1> QED BY <1>3, <1>4, <1>6, <1>7 DEF UsedInv

LEMMA InUseMember ==
  ASSUME NEW m
  PROVE  \A x : x \in InUse(m) <=> \/ \E k \in DOMAIN m.objs : x = ObjectPage(k)
                                   \/ \E i \in DOMAIN m.table : x = TCBPage(i)
                                   \/ x \in DOMAIN m.pdir \/ x \in DOMAIN m.ptab
                                   \/ x \in UtcbsIn(m.ptab)
BY DEF InUse

\* The tables that directory d has in m, it has in w, and others are empty.
SelfKept(m, w, d) ==
  \A j \in Super :
    /\ m.pdir[d][j] # None => /\ w.pdir[d][j] = m.pdir[d][j]
                              /\ w.ptab[m.pdir[d][j]] = m.ptab[m.pdir[d][j]]
    /\ m.pdir[d][j] = None /\ w.pdir[d][j] # None =>
         \A n \in PageNo : w.ptab[w.pdir[d][j]][n] = None

LEMMA SameKept ==
  ASSUME NEW m, NEW d
  PROVE  OthersKept(m, m, d) /\ SelfKept(m, m, d) /\ SameButTables(m, m)
BY DEF OthersKept, SelfKept, SameButTables

LEMMA HasTable ==
  ASSUME NEW m, TabMem(m), NEW d \in DOMAIN m.pdir, NEW i \in Super, NEW w, w = WithTable(m, d, i)
  PROVE  /\ TabMem(w) /\ SameButTables(m, w) /\ OthersKept(m, w, d) /\ SelfKept(m, w, d)
         /\ w.pdir[d][i] # None /\ w.num \in {m.num, m.num - 1}
         /\ DOMAIN w.pdir = DOMAIN m.pdir /\ UtcbsIn(w.ptab) = UtcbsIn(m.ptab)
         /\ m.pdir[d][i] = None => \A n \in PageNo : w.ptab[w.pdir[d][i]][n] = None
<1>1. Shape(m) /\ UsedInv(m) /\ TabInv(m.pdir, m.ptab)
  BY DEF TabMem
<1>2. CASE m.pdir[d][i] # None
  <2>1. w = m
    BY <1>2 DEF WithTable
  <2> QED BY <2>1, <1>2, SameKept
<1>3. CASE m.pdir[d][i] = None
  <2>1. PICK p : p = TablePage(d, i)
    OBVIOUS
  <2>2. PICK pdir2, ptab2 : pdir2 = SetEntry(m.pdir, d, i, p) /\ ptab2 = With(m.ptab, p, NoPages)
    OBVIOUS
  <2>3. w = [m EXCEPT !.used = @ \cup {p}, !.num = @ - 1, !.pdir = pdir2, !.ptab = ptab2]
    <3>1. w = [allocPage1(m, p) EXCEPT !.pdir[d][i] = p, !.ptab = With(@, p, NoPages)]
      BY <1>3, <2>1 DEF WithTable, NoPages
    <3> QED BY <3>1, <2>2, <1>1 DEF Shape, allocPage1, SetEntry
  <2>4. /\ w.pdir = pdir2 /\ w.ptab = ptab2 /\ w.used = m.used \cup {p} /\ w.num = m.num - 1
        /\ Shape(w) /\ SameButTables(m, w)
    BY <2>3, <1>1, Zenon DEF Shape, SameButTables
  <2>5. PICK pdir, ptab : pdir = m.pdir /\ ptab = m.ptab
    OBVIOUS
  <2>6. TabInv(pdir, ptab) /\ d \in DOMAIN pdir /\ pdir[d][i] = None
        /\ pdir2 = SetEntry(pdir, d, i, p) /\ ptab2 = With(ptab, p, NoPages)
    BY <1>1, <1>3, <2>2, <2>5
  <2>7. p \in Tables /\ p \notin DOMAIN ptab /\ TabInv(pdir2, ptab2)
        /\ UtcbsIn(ptab2) = UtcbsIn(ptab)
    BY <2>1, <2>6, TableAdded
  <2>8. \A e \in DOMAIN pdir : pdir[e] \in [Super -> Tables \cup {None}]
    BY <2>6 DEF TabInv
  <2>9. DOMAIN pdir2 = DOMAIN pdir /\ pdir2[d][i] = p
        /\ \A e \in DOMAIN pdir : e # d => pdir2[e] = pdir[e]
    BY <2>6, <2>8 DEF SetEntry
  <2>10. \A j \in Super : j # i => pdir2[d][j] = pdir[d][j]
    BY <2>6, <2>8 DEF SetEntry
  <2>11. DOMAIN ptab2 = (DOMAIN ptab) \cup {p}
    BY <2>6, WithDomain, Zenon
  <2>12. ptab2[p] = NoPages /\ \A q \in DOMAIN ptab : ptab2[q] = ptab[q]
    BY <2>6, <2>7, WithFacts
  <2>13. \A e \in DOMAIN pdir, j \in Super : pdir[e][j] # None => pdir[e][j] \in DOMAIN ptab
    BY <2>6, TableFacts
  <2>14. OthersKept(m, w, d)
    BY <2>4, <2>5, <2>7, <2>9, <2>12, <2>13 DEF OthersKept
  <2>15. SelfKept(m, w, d)
    <3>1. \A n \in PageNo : NoPages[n] = None
      BY DEF NoPages
    <3> QED BY <2>4, <2>5, <2>6, <2>9, <2>10, <2>12, <2>13, <3>1 DEF SelfKept
  <2>16. UsedInv(w)
    <3>1. p \notin InUse(m)
      BY <1>1, <2>5, <2>7, InUseKinds
    <3>2. InUse(w) = InUse(m) \cup {p}
      <4>1. \A x : x \in InUse(w) <=> x \in InUse(m) \/ x = p
        <5>1. w.objs = m.objs /\ w.table = m.table
          BY <2>4 DEF SameButTables
        <5>2. DOMAIN w.pdir = DOMAIN m.pdir
          BY <2>4, <2>5, <2>9
        <5>3. \A x : x \in DOMAIN w.ptab <=> x \in DOMAIN m.ptab \/ x = p
          BY <2>4, <2>5, <2>11
        <5>4. UtcbsIn(w.ptab) = UtcbsIn(m.ptab)
          BY <2>4, <2>5, <2>7
        <5> QED BY <5>1, <5>2, <5>3, <5>4, InUseMember
      <4> QED BY <4>1
    <3> QED BY <1>1, <2>4, <3>1, <3>2, PageTaken
  <2>17. w.pdir[d][i] # None /\ \A n \in PageNo : w.ptab[w.pdir[d][i]][n] = None
    BY <2>4, <2>7, <2>9, <2>12, NotNames DEF NoPages
  <2>18. DOMAIN w.pdir = DOMAIN m.pdir
    BY <2>4, <2>5, <2>9
  <2>19. UtcbsIn(w.ptab) = UtcbsIn(m.ptab)
    BY <2>4, <2>5, <2>7
  <2>20. TabMem(w)
    BY <2>4, <2>7, <2>16 DEF TabMem
  <2> QED BY <2>4, <2>14, <2>15, <2>17, <2>18, <2>19, <2>20
<1> QED BY <1>2, <1>3

LEMMA NewDirectory ==
  ASSUME NEW m, TabMem(m), NEW sp \in Object, NEW d, d = DirectoryPage(sp), d \notin DOMAIN m.pdir,
         NEW kip \in Loc, NEW w, w = allocPdir2(m, sp, kip)
  PROVE  /\ TabMem(w) /\ SameButTables(m, w) /\ OthersKept(m, w, d) /\ w.num = m.num - 2
         /\ d \in DOMAIN w.pdir /\ \A e \in DOMAIN w.pdir : e = d \/ e \in DOMAIN m.pdir
         /\ w.pdir[d] = OneTable(kip[1], TablePage(d, kip[1]))
         /\ w.ptab[TablePage(d, kip[1])] = OnlyKip(kip[2])
         /\ UtcbsIn(w.ptab) = UtcbsIn(m.ptab)
<1>1. Shape(m) /\ UsedInv(m) /\ TabInv(m.pdir, m.ptab)
  BY DEF TabMem
<1>2. PICK i \in Super, n \in PageNo : i = kip[1] /\ n = kip[2]
  BY DEF Loc
<1>3. PICK p : p = TablePage(d, i)
  OBVIOUS
<1>4. PICK pdir2, ptab2 : pdir2 = With(m.pdir, d, OneTable(i, p))
                          /\ ptab2 = With(m.ptab, p, OnlyKip(n))
  OBVIOUS
<1>5. w = [m EXCEPT !.used = (@ \cup {d}) \cup {p}, !.num = (@ - 1) - 1,
                    !.pdir = pdir2, !.ptab = ptab2]
  <2>1. w = [allocPage1(allocPage1(m, d), p) EXCEPT !.pdir = With(@, d, OneTable(i, p)),
                                                    !.ptab = With(@, p, OnlyKip(n))]
    BY <1>2, <1>3 DEF allocPdir2, OneTable, OnlyKip
  <2> QED BY <2>1, <1>4, <1>1, Zenon DEF Shape, allocPage1
<1>6. /\ w.pdir = pdir2 /\ w.ptab = ptab2 /\ w.used = (m.used \cup {d}) \cup {p}
      /\ w.num = (m.num - 1) - 1 /\ Shape(w) /\ SameButTables(m, w)
  BY <1>5, <1>1, Zenon DEF Shape, SameButTables
<1>7. PICK pdir, ptab : pdir = m.pdir /\ ptab = m.ptab
  OBVIOUS
<1>8. TabInv(pdir, ptab) /\ d \in Directories /\ d \notin DOMAIN pdir
      /\ pdir2 = With(pdir, d, OneTable(i, p)) /\ ptab2 = With(ptab, p, OnlyKip(n))
  BY <1>1, <1>4, <1>7, PageNames
<1>9. p \in Tables /\ p \notin DOMAIN ptab /\ TabInv(pdir2, ptab2) /\ UtcbsIn(ptab2) = UtcbsIn(ptab)
  BY <1>3, <1>8, DirectoryAdded
<1>10. DOMAIN pdir2 = (DOMAIN pdir) \cup {d}
  <2>1. DOMAIN With(pdir, d, OneTable(i, p)) = (DOMAIN pdir) \cup {d}
    BY WithDomain, Zenon
  <2> QED BY <2>1, <1>8
<1>11. pdir2[d] = OneTable(i, p) /\ \A e \in DOMAIN pdir : pdir2[e] = pdir[e]
  <2>1. PICK x : x = OneTable(i, p)
    OBVIOUS
  <2>2. pdir2 = With(pdir, d, x)
    BY <1>8, <2>1
  <2>3. pdir2[d] = x /\ \A e \in DOMAIN pdir : e # d => pdir2[e] = pdir[e]
    BY <2>2, WithFacts
  <2> QED BY <2>1, <2>3, <1>8
<1>12. DOMAIN ptab2 = (DOMAIN ptab) \cup {p}
  <2>1. DOMAIN With(ptab, p, OnlyKip(n)) = (DOMAIN ptab) \cup {p}
    BY WithDomain, Zenon
  <2> QED BY <2>1, <1>8
<1>13. ptab2[p] = OnlyKip(n) /\ \A q \in DOMAIN ptab : ptab2[q] = ptab[q]
  <2>1. PICK x : x = OnlyKip(n)
    OBVIOUS
  <2>2. ptab2 = With(ptab, p, x)
    BY <1>8, <2>1
  <2>3. ptab2[p] = x /\ \A q \in DOMAIN ptab : q # p => ptab2[q] = ptab[q]
    BY <2>2, WithFacts
  <2> QED BY <2>1, <2>3, <1>9
<1>14. \A e \in DOMAIN pdir, j \in Super : pdir[e][j] # None => pdir[e][j] \in DOMAIN ptab
  BY <1>8, TableFacts
<1>15. OthersKept(m, w, d)
  BY <1>6, <1>7, <1>9, <1>10, <1>11, <1>13, <1>14 DEF OthersKept
<1>16. UsedInv(w)
  <2>1. d \notin InUse(m) /\ p \notin InUse(m)
    BY <1>1, <1>7, <1>8, <1>9, InUseKinds
  <2>2. PICK P : P = {d, p}
    BY Zenon
  <2>3. P \cap InUse(m) = {}
    BY <2>1, <2>2
  <2>4. IsFiniteSet(P) /\ Cardinality(P) = 2
    <3>1. d # p
      BY <1>8, <1>9 DEF Directories, Tables
    <3>2. IsFiniteSet({d}) /\ Cardinality({d}) = 1
      BY FS_Singleton, Zenon
    <3>3. IsFiniteSet({d} \cup {p}) /\ Cardinality({d} \cup {p}) = 2
      <4>1. PICK D : D = {d}
        BY Zenon
      <4>2. IsFiniteSet(D) /\ Cardinality(D) = 1 /\ p \notin D
        BY <3>1, <3>2, <4>1, Zenon
      <4>3. IsFiniteSet(D \cup {p}) /\ Cardinality(D \cup {p}) = Cardinality(D) + 1
        BY <4>2, FS_AddElement, Zenon
      <4> QED BY <4>1, <4>2, <4>3
    <3>4. {d} \cup {p} = P
      BY <2>2
    <3> QED BY <3>3, <3>4
  <2>5. w.used = m.used \cup P /\ w.num = m.num - 2
    <3>1. PICK k \in Int : k = m.num
      BY <1>1 DEF UsedInv
    <3>2. w.num = k - 2
      BY <3>1, <1>6
    <3>3. w.used = m.used \cup P
      BY <1>6, <2>2
    <3> QED BY <3>1, <3>2, <3>3
  <2>6. InUse(w) = InUse(m) \cup P
    <3>1. \A x : x \in InUse(w) <=> x \in InUse(m) \/ x \in P
      <4>1. w.objs = m.objs /\ w.table = m.table
        BY <1>6 DEF SameButTables
      <4>2. \A x : x \in DOMAIN w.pdir <=> x \in DOMAIN m.pdir \/ x = d
        BY <1>6, <1>7, <1>10
      <4>3. \A x : x \in DOMAIN w.ptab <=> x \in DOMAIN m.ptab \/ x = p
        BY <1>6, <1>7, <1>12
      <4>4. UtcbsIn(w.ptab) = UtcbsIn(m.ptab)
        BY <1>6, <1>7, <1>9
      <4>5. \A x : x \in P <=> x = d \/ x = p
        BY <2>2
      <4> QED BY <4>1, <4>2, <4>3, <4>4, <4>5, InUseMember
    <3> QED BY <3>1
  <2> QED BY <1>1, <2>3, <2>4, <2>5, <2>6, PagesTaken
<1>17. TabMem(w)
  BY <1>6, <1>9, <1>16 DEF TabMem
<1>18. w.num = m.num - 2
  <2>1. PICK k \in Int : k = m.num
    BY <1>1 DEF UsedInv
  <2> QED BY <2>1, <1>6
<1>19. d \in DOMAIN w.pdir /\ \A e \in DOMAIN w.pdir : e = d \/ e \in DOMAIN m.pdir
  BY <1>6, <1>7, <1>10
<1>20. UtcbsIn(w.ptab) = UtcbsIn(m.ptab)
  BY <1>6, <1>7, <1>9
<1>21. w.pdir[d] = OneTable(kip[1], TablePage(d, kip[1]))
       /\ w.ptab[TablePage(d, kip[1])] = OnlyKip(kip[2])
  BY <1>2, <1>3, <1>6, <1>11, <1>13
<1> QED BY <1>6, <1>15, <1>17, <1>18, <1>19, <1>20, <1>21

\* But for the places in X, w's page tables hold the utcbs that m's do, and
\* other pages only where m's do; and m's directories are there.
Kept(m, w, X) ==
  /\ \A d \in DOMAIN m.pdir, l \in Loc : <<d, l>> \notin X =>
       /\ d \in DOMAIN w.pdir
       /\ Foreign(w.pdir, w.ptab, d, l) => Foreign(m.pdir, m.ptab, d, l)
  /\ \A d, l : <<d, l>> \notin X =>
       (UtcbPage(d, l) \in UtcbsIn(w.ptab) <=> UtcbPage(d, l) \in UtcbsIn(m.ptab))

LEMMA KeptBoth ==
  ASSUME NEW m, NEW w, NEW v, NEW X, NEW Y, Kept(m, w, X), Kept(w, v, Y)
  PROVE  Kept(m, v, X \cup Y)
BY DEF Kept

LEMMA KeptTables ==
  ASSUME NEW m, NEW w, NEW d, OthersKept(m, w, d),
         d \in DOMAIN m.pdir => d \in DOMAIN w.pdir /\ SelfKept(m, w, d),
         UtcbsIn(w.ptab) = UtcbsIn(m.ptab)
  PROVE  Kept(m, w, {})
<1>1. \A l \in Loc : l[1] \in Super
  BY DEF Loc
<1>2. \A e \in DOMAIN m.pdir, l \in Loc :
        /\ e \in DOMAIN w.pdir
        /\ Foreign(w.pdir, w.ptab, e, l) => Foreign(m.pdir, m.ptab, e, l)
  <2> SUFFICES ASSUME NEW e \in DOMAIN m.pdir, NEW l \in Loc
               PROVE  /\ e \in DOMAIN w.pdir
                      /\ Foreign(w.pdir, w.ptab, e, l) => Foreign(m.pdir, m.ptab, e, l)
    OBVIOUS
  <2>1. CASE e = d
    <3>1. PICK j \in Super, n \in PageNo : j = l[1] /\ n = l[2]
      BY DEF Loc
    <3>2. /\ m.pdir[d][j] # None => /\ w.pdir[d][j] = m.pdir[d][j]
                                    /\ w.ptab[m.pdir[d][j]] = m.ptab[m.pdir[d][j]]
          /\ m.pdir[d][j] = None /\ w.pdir[d][j] # None => w.ptab[w.pdir[d][j]][n] = None
      BY <2>1 DEF SelfKept
    <3>3. None \notin {Kip, User}
      BY SpacesAssumption
    <3> QED BY <2>1, <3>1, <3>2, <3>3 DEF Foreign
  <2>2. CASE e # d
    <3>1. PICK j \in Super : j = l[1]
      BY <1>1
    <3>2. /\ e \in DOMAIN w.pdir /\ w.pdir[e] = m.pdir[e]
          /\ m.pdir[e][j] # None => w.ptab[m.pdir[e][j]] = m.ptab[m.pdir[e][j]]
      BY <2>2 DEF OthersKept
    <3> QED BY <3>1, <3>2 DEF Foreign
  <2> QED BY <2>1, <2>2
<1> QED BY <1>2 DEF Kept

\* An entry of a page table of directory d is changed.
LEMMA EntryKept ==
  ASSUME NEW m, NEW w, TabInv(m.pdir, m.ptab), NEW d \in DOMAIN m.pdir, NEW l \in Loc,
         m.pdir[d][l[1]] # None, NEW v \in {None, Kip, User, UtcbPage(d, l)},
         w.pdir = m.pdir, w.ptab = SetEntry(m.ptab, m.pdir[d][l[1]], l[2], v)
  PROVE  /\ TabInv(w.pdir, w.ptab) /\ Kept(m, w, {<<d, l>>}) /\ PageAt(w, d, l) = v
         /\ UtcbPage(d, l) \in Utcbs /\ DOMAIN w.ptab = DOMAIN m.ptab
         /\ UtcbPage(d, l) \in UtcbsIn(w.ptab) <=> v = UtcbPage(d, l)
<1>1. PICK i \in Super, n \in PageNo : i = l[1] /\ n = l[2] /\ l = <<i, n>>
  BY DEF Loc
<1>2. PICK pdir, ptab, ptab2, p : pdir = m.pdir /\ ptab = m.ptab /\ ptab2 = w.ptab /\ p = m.pdir[d][i]
  OBVIOUS
<1>3. PICK u : u = UtcbPage(d, <<i, n>>)
  OBVIOUS
<1>4. /\ TabInv(pdir, ptab) /\ d \in DOMAIN pdir /\ p = pdir[d][i] /\ p # None
      /\ v \in {None, Kip, User, u} /\ ptab2 = SetEntry(ptab, p, n, v)
  BY <1>1, <1>2, <1>3
<1>5. /\ TabInv(pdir, ptab2) /\ p \in DOMAIN ptab
      /\ ptab2[p][n] = v /\ (\A k \in PageNo : k # n => ptab2[p][k] = ptab[p][k])
      /\ (\A q \in DOMAIN ptab : q # p => ptab2[q] = ptab[q])
      /\ u \in Utcbs /\ (u \in UtcbsIn(ptab2) <=> v = u)
      /\ (\A x : x # u => (x \in UtcbsIn(ptab2) <=> x \in UtcbsIn(ptab)))
  BY <1>3, <1>4, EntrySet
<1>6. \A e \in DOMAIN pdir, j \in Super : pdir[e][j] # None => pdir[e][j] = TablePage(e, j)
                                                             /\ pdir[e][j] \in DOMAIN ptab
  BY <1>4, TableFacts
<1>7. \A e \in DOMAIN pdir, k \in Loc : (pdir[e][k[1]] # None /\ <<e, k>> \notin {<<d, l>>}) =>
        ptab2[pdir[e][k[1]]][k[2]] = ptab[pdir[e][k[1]]][k[2]]
  <2> SUFFICES ASSUME NEW e \in DOMAIN pdir, NEW k \in Loc, pdir[e][k[1]] # None,
                      <<e, k>> \notin {<<d, l>>}
               PROVE  ptab2[pdir[e][k[1]]][k[2]] = ptab[pdir[e][k[1]]][k[2]]
    OBVIOUS
  <2>1. PICK j \in Super, h \in PageNo : j = k[1] /\ h = k[2] /\ k = <<j, h>>
    BY DEF Loc
  <2>2. pdir[e][j] = TablePage(e, j) /\ pdir[e][j] \in DOMAIN ptab
    BY <1>6, <2>1
  <2>3. CASE pdir[e][j] # p
    BY <2>1, <2>2, <2>3, <1>5
  <2>4. CASE pdir[e][j] = p
    <3>1. p = TablePage(d, i)
      BY <1>4, <1>6
    <3>2. e = d /\ j = i
      <4>1. TablePage(e, j) = TablePage(d, i)
        BY <3>1, <2>2, <2>4
      <4> QED BY <4>1 DEF TablePage
    <3>3. h # n
      BY <3>2, <2>1, <1>1
    <3> QED BY <3>3, <2>1, <2>4, <1>5
  <2> QED BY <2>3, <2>4
<1>8. \A e, k : <<e, k>> \notin {<<d, l>>} =>
        (UtcbPage(e, k) \in UtcbsIn(ptab2) <=> UtcbPage(e, k) \in UtcbsIn(ptab))
  BY <1>1, <1>3, <1>5, PageNames
<1>9. Kept(m, w, {<<d, l>>})
  <2>1. \A e \in DOMAIN m.pdir, k \in Loc : <<e, k>> \notin {<<d, l>>} =>
          /\ e \in DOMAIN w.pdir
          /\ Foreign(w.pdir, w.ptab, e, k) => Foreign(m.pdir, m.ptab, e, k)
    <3>1. m.pdir = pdir /\ w.pdir = pdir /\ m.ptab = ptab /\ w.ptab = ptab2
      BY <1>2, <1>5
    <3> QED BY ONLY <3>1, <1>7 DEF Foreign
  <2>2. \A e, k : <<e, k>> \notin {<<d, l>>} =>
          (UtcbPage(e, k) \in UtcbsIn(w.ptab) <=> UtcbPage(e, k) \in UtcbsIn(m.ptab))
    BY <1>2, <1>8, Zenon
  <2> QED BY <2>1, <2>2, Zenon DEF Kept
<1>10. PageAt(w, d, l) = v
  BY <1>1, <1>2, <1>5 DEF PageAt
<1>11. DOMAIN ptab2 = DOMAIN ptab
  BY <1>4 DEF SetEntry
<1>12. TabInv(w.pdir, w.ptab) /\ DOMAIN w.ptab = DOMAIN m.ptab
  BY <1>2, <1>5, <1>11
<1>13. UtcbPage(d, l) \in Utcbs /\ (UtcbPage(d, l) \in UtcbsIn(w.ptab) <=> v = UtcbPage(d, l))
  BY <1>1, <1>2, <1>3, <1>5
<1> QED BY <1>9, <1>10, <1>12, <1>13

\* An entry that is no page of kernel memory, before and after.
LEMMA EntryPut ==
  ASSUME NEW m, NEW w, TabMem(m), NEW d \in DOMAIN m.pdir, NEW l \in Loc,
         m.pdir[d][l[1]] # None, NEW v \in {None, Kip, User},
         Shape(w), SameButTables(m, w), w.used = m.used, w.num = m.num,
         w.pdir = m.pdir, w.ptab = SetEntry(m.ptab, m.pdir[d][l[1]], l[2], v),
         UtcbPage(d, l) \notin UtcbsIn(m.ptab)
  PROVE  /\ TabMem(w) /\ Kept(m, w, {<<d, l>>}) /\ PageAt(w, d, l) = v
         /\ UtcbsIn(w.ptab) = UtcbsIn(m.ptab)
<1>1. TabInv(m.pdir, m.ptab) /\ UsedInv(m)
  BY DEF TabMem
<1>2. /\ TabInv(w.pdir, w.ptab) /\ Kept(m, w, {<<d, l>>}) /\ PageAt(w, d, l) = v
      /\ UtcbPage(d, l) \in Utcbs /\ DOMAIN w.ptab = DOMAIN m.ptab
      /\ (UtcbPage(d, l) \in UtcbsIn(w.ptab) <=> v = UtcbPage(d, l))
  BY <1>1, EntryKept
<1>3. UtcbPage(d, l) \notin UtcbsIn(w.ptab)
  BY <1>2, NotNames
<1>4. UtcbsIn(w.ptab) = UtcbsIn(m.ptab)
  <2>1. \A x \in Utcbs : x \in UtcbsIn(w.ptab) <=> x \in UtcbsIn(m.ptab)
    <3> SUFFICES ASSUME NEW x \in Utcbs
                 PROVE  x \in UtcbsIn(w.ptab) <=> x \in UtcbsIn(m.ptab)
      OBVIOUS
    <3>1. PICK e, k : x = UtcbPage(e, k)
      BY DEF Utcbs, UtcbPage
    <3>2. CASE <<e, k>> = <<d, l>>
      BY <3>1, <3>2, <1>3
    <3>3. CASE <<e, k>> # <<d, l>>
      BY <3>1, <3>3, <1>2 DEF Kept
    <3> QED BY <3>2, <3>3
  <2>2. UtcbsIn(w.ptab) \subseteq Utcbs /\ UtcbsIn(m.ptab) \subseteq Utcbs
    BY DEF UtcbsIn
  <2> QED BY <2>1, <2>2
<1>5. InUse(w) = InUse(m)
  <2>1. w.objs = m.objs /\ w.table = m.table
    BY DEF SameButTables
  <2> QED BY <2>1, <1>2, <1>4, SameInUse
<1>6. UsedInv(w)
  BY <1>1, <1>5, SameUsed
<1> QED BY <1>2, <1>4, <1>6 DEF TabMem

\* An entry for a page of a utcb that is taken.
LEMMA EntryUtcb ==
  ASSUME NEW m, NEW w, TabMem(m), NEW d \in DOMAIN m.pdir, NEW l \in Loc,
         m.pdir[d][l[1]] # None, NEW u, u = UtcbPage(d, l),
         Shape(w), SameButTables(m, w), w.used = m.used \cup {u}, w.num = m.num - 1,
         w.pdir = m.pdir, w.ptab = SetEntry(m.ptab, m.pdir[d][l[1]], l[2], u),
         u \notin UtcbsIn(m.ptab)
  PROVE  /\ TabMem(w) /\ Kept(m, w, {<<d, l>>}) /\ PageAt(w, d, l) = u
         /\ u \in UtcbsIn(w.ptab)
<1>1. TabInv(m.pdir, m.ptab) /\ UsedInv(m)
  BY DEF TabMem
<1>2. /\ TabInv(w.pdir, w.ptab) /\ Kept(m, w, {<<d, l>>}) /\ PageAt(w, d, l) = u
      /\ u \in Utcbs /\ DOMAIN w.ptab = DOMAIN m.ptab
      /\ u \in UtcbsIn(w.ptab)
  BY <1>1, EntryKept
<1>3. \A x : x \in UtcbsIn(w.ptab) <=> x \in UtcbsIn(m.ptab) \/ x = u
  <2>1. \A x \in Utcbs : x \in UtcbsIn(w.ptab) <=> x \in UtcbsIn(m.ptab) \/ x = u
    <3> SUFFICES ASSUME NEW x \in Utcbs
                 PROVE  x \in UtcbsIn(w.ptab) <=> x \in UtcbsIn(m.ptab) \/ x = u
      OBVIOUS
    <3>1. PICK e, k : x = UtcbPage(e, k)
      BY DEF Utcbs, UtcbPage
    <3>2. CASE <<e, k>> = <<d, l>>
      BY <3>1, <3>2, <1>2
    <3>3. CASE <<e, k>> # <<d, l>>
      <4>1. x # u
        BY <3>1, <3>3, PageNames
      <4> QED BY <3>1, <3>3, <4>1, <1>2 DEF Kept
    <3> QED BY <3>2, <3>3
  <2>2. UtcbsIn(w.ptab) \subseteq Utcbs /\ UtcbsIn(m.ptab) \subseteq Utcbs
    BY DEF UtcbsIn
  <2> QED BY <2>1, <2>2, <1>2
<1>4. InUse(w) = InUse(m) \cup {u}
  <2>1. \A x : x \in InUse(w) <=> x \in InUse(m) \/ x = u
    <3>1. w.objs = m.objs /\ w.table = m.table
      BY DEF SameButTables
    <3>2. DOMAIN w.pdir = DOMAIN m.pdir
      OBVIOUS
    <3> QED BY <3>1, <3>2, <1>2, <1>3, InUseMember
  <2> QED BY <2>1
<1>5. u \notin InUse(m)
  BY <1>1, <1>2, InUseKinds
<1>6. UsedInv(w)
  BY <1>1, <1>4, <1>5, PageTaken
<1> QED BY <1>2, <1>6 DEF TabMem

LEMMA AreaFacts ==
  ASSUME NEW space, NEW pdir, NEW ptab, SpaceInv(space, pdir, ptab), NEW s \in DOMAIN space,
         space[s].active # 0
  PROVE  /\ s \in Object /\ space[s].pdir = DirectoryPage(s) /\ DirectoryPage(s) \in DOMAIN pdir
         /\ space[s].area \in Area /\ space[s].area \in Areas \cup {PrivArea}
         /\ HasUtcb(pdir, ptab, s, space[s].area)
<1>1. /\ space \in [DOMAIN space -> SpaceSet] /\ s \in Object
      /\ space[s].pdir \in {None, DirectoryPage(s)} /\ space[s].pdir # None
      /\ space[s].area # None /\ HasUtcb(pdir, ptab, s, space[s].area)
  BY DEF SpaceInv
<1>2. space[s].area \in Areas \cup {PrivArea, None}
  BY <1>1 DEF SpaceSet
<1>3. space[s].area \in Areas \cup {PrivArea}
  BY <1>1, <1>2
<1>4. space[s].area \in Area
  BY <1>3, SpacesAssumption
<1>5. DirectoryPage(s) \in DOMAIN pdir
  BY <1>1 DEF HasUtcb
<1> QED BY <1>1, <1>3, <1>4, <1>5

LEMMA HasUtcbKept ==
  ASSUME NEW m, NEW w, NEW X, Kept(m, w, X), NEW s, NEW area \in Area,
         HasUtcb(m.pdir, m.ptab, s, area),
         \A l \in Loc : <<DirectoryPage(s), l>> \in X =>
           l \notin area.utcb /\ UtcbPage(DirectoryPage(s), l) \notin UtcbsIn(w.ptab)
  PROVE  HasUtcb(w.pdir, w.ptab, s, area)
<1>1. PICK d : d = DirectoryPage(s)
  OBVIOUS
<1>2. area.utcb \subseteq Loc /\ area.utcb # {}
  BY DEF Area
<1>3. /\ d \in DOMAIN m.pdir
      /\ \A l \in area.utcb : ~Foreign(m.pdir, m.ptab, d, l)
      /\ \A l \in Loc : UtcbPage(d, l) \in UtcbsIn(m.ptab) => l \in area.utcb
  BY <1>1 DEF HasUtcb
<1>4. \A l \in Loc : <<d, l>> \in X => l \notin area.utcb /\ UtcbPage(d, l) \notin UtcbsIn(w.ptab)
  BY <1>1
<1>5. \A l \in area.utcb : d \in DOMAIN w.pdir /\ ~Foreign(w.pdir, w.ptab, d, l)
  BY <1>2, <1>3, <1>4, Zenon DEF Kept
<1>6. \A l \in Loc : UtcbPage(d, l) \in UtcbsIn(w.ptab) => l \in area.utcb
  BY <1>3, <1>4, Zenon DEF Kept
<1>7. d \in DOMAIN w.pdir
  BY <1>2, <1>5
<1> QED BY <1>1, <1>5, <1>6, <1>7 DEF HasUtcb

\* Spaces that are the same, but for whether their directory is loaded.
LikeSpaces(space, space2) ==
  /\ space2 \in [DOMAIN space -> SpaceSet]
  /\ \A s \in DOMAIN space :
       /\ space2[s].pdir = space[s].pdir /\ space2[s].area = space[s].area
       /\ space2[s].count = space[s].count /\ space2[s].active = space[s].active

LEMMA SpacesKept ==
  ASSUME NEW m, NEW w, NEW X, SpaceInv(m.space, m.pdir, m.ptab), Kept(m, w, X),
         LikeSpaces(m.space, w.space),
         \A s \in DOMAIN m.space, l \in Loc :
           (m.space[s].active # 0 /\ <<DirectoryPage(s), l>> \in X) =>
             l \notin m.space[s].area.utcb /\ UtcbPage(DirectoryPage(s), l) \notin UtcbsIn(w.ptab),
         \A d \in DOMAIN w.pdir : d \in DOMAIN m.pdir
  PROVE  SpaceInv(w.space, w.pdir, w.ptab)
<1>1. PICK space, space2 : space = m.space /\ space2 = w.space
  OBVIOUS
<1>2. /\ space2 \in [DOMAIN space2 -> SpaceSet]
      /\ \A s : s \in DOMAIN space2 <=> s \in DOMAIN space
  BY <1>1 DEF LikeSpaces
<1>3. \A s \in DOMAIN space :
       /\ space2[s].pdir = space[s].pdir /\ space2[s].area = space[s].area
       /\ space2[s].active = space[s].active
  BY <1>1 DEF LikeSpaces
<1>4. SpaceInv(space, m.pdir, m.ptab)
  BY <1>1
<1>5. \A s \in DOMAIN space : space[s].active # 0 =>
        space[s].pdir # None /\ HasUtcb(w.pdir, w.ptab, s, space[s].area)
  <2> SUFFICES ASSUME NEW s \in DOMAIN space, space[s].active # 0
               PROVE  space[s].pdir # None /\ HasUtcb(w.pdir, w.ptab, s, space[s].area)
    OBVIOUS
  <2>1. PICK area : area = space[s].area
    OBVIOUS
  <2>2. area \in Area /\ HasUtcb(m.pdir, m.ptab, s, area)
    BY <1>4, <2>1, AreaFacts
  <2>3. \A l \in Loc : <<DirectoryPage(s), l>> \in X =>
          l \notin area.utcb /\ UtcbPage(DirectoryPage(s), l) \notin UtcbsIn(w.ptab)
    BY <1>1, <2>1
  <2>4. HasUtcb(w.pdir, w.ptab, s, area)
    BY <2>2, <2>3, HasUtcbKept
  <2>5. space[s].pdir # None
    BY <1>4 DEF SpaceInv
  <2> QED BY <2>1, <2>4, <2>5
<1>6. \A s \in DOMAIN space2 :
        /\ space2[s].pdir \in {None, DirectoryPage(s)}
        /\ space2[s].pdir # None => space2[s].area # None
        /\ space2[s].active # 0 => /\ space2[s].pdir # None
                                   /\ HasUtcb(w.pdir, w.ptab, s, space2[s].area)
  <2> SUFFICES ASSUME NEW s \in DOMAIN space
               PROVE  /\ space2[s].pdir \in {None, DirectoryPage(s)}
                      /\ space2[s].pdir # None => space2[s].area # None
                      /\ space2[s].active # 0 => /\ space2[s].pdir # None
                                                 /\ HasUtcb(w.pdir, w.ptab, s, space2[s].area)
    BY <1>2
  <2>1. space[s].pdir \in {None, DirectoryPage(s)} /\ (space[s].pdir # None => space[s].area # None)
    BY <1>4 DEF SpaceInv
  <2> QED BY <2>1, <1>3, <1>5
<1>7. \A d \in DOMAIN w.pdir : \E s \in DOMAIN space2 : d = DirectoryPage(s) /\ space2[s].active # 0
  <2>1. \A d \in DOMAIN m.pdir : \E s \in DOMAIN space : d = DirectoryPage(s) /\ space[s].active # 0
    BY <1>4 DEF SpaceInv
  <2> QED BY <2>1, <1>2, <1>3
<1>8. DOMAIN space2 \subseteq Object
  BY <1>2, <1>4 DEF SpaceInv
<1> QED BY <1>1, <1>2, <1>6, <1>7, <1>8 DEF SpaceInv

LEMMA ThreadsKept ==
  ASSUME NEW space, NEW space2, NEW T, LikeSpaces(space, space2), ThreadInv(space, T)
  PROVE  ThreadInv(space2, T)
<1>1. \A s : s \in DOMAIN space2 <=> s \in DOMAIN space
  BY DEF LikeSpaces
<1>2. T \in [DOMAIN T -> [space : DOMAIN space2, utcb : Utcbs \cup {None}]]
  <2>1. T \in [DOMAIN T -> [space : DOMAIN space, utcb : Utcbs \cup {None}]]
    BY DEF ThreadInv
  <2>2. DOMAIN space = DOMAIN space2
    BY <1>1
  <2> QED BY <2>1, <2>2
<1>3. \A t \in DOMAIN T : T[t].space \in DOMAIN space
  BY DEF ThreadInv
<1>4. \A t \in DOMAIN T : T[t].utcb # None =>
        \E l \in space2[T[t].space].area.utcb : T[t].utcb = UtcbPage(DirectoryPage(T[t].space), l)
  BY <1>3 DEF ThreadInv, LikeSpaces
<1>5. \A s \in DOMAIN space2 : /\ space2[s].count = Cardinality(Threads(T, s))
                               /\ space2[s].active = Cardinality(Actives(T, s))
  BY <1>1 DEF ThreadInv, LikeSpaces
<1> QED BY <1>2, <1>4, <1>5 DEF ThreadInv

LEMMA MapsKept ==
  ASSUME NEW space, NEW space2, NEW mapping, LikeSpaces(space, space2), MapInv(mapping, space)
  PROVE  MapInv(mapping, space2)
<1>1. \A s : s \in DOMAIN space2 <=> s \in DOMAIN space
  BY DEF LikeSpaces
<1>2. mapping \in [DOMAIN mapping -> [space : DOMAIN space, loc : Loc]]
  BY DEF MapInv
<1>3. mapping \in [DOMAIN mapping -> [space : DOMAIN space2, loc : Loc]]
  <2>1. DOMAIN space = DOMAIN space2
    BY <1>1
  <2> QED BY <2>1, <1>2
<1>4. \A o \in DOMAIN mapping : mapping[o].space \in DOMAIN space
  BY <1>2
<1>5. \A o \in DOMAIN mapping : LET s == mapping[o].space IN
        space2[s].active # 0 /\ mapping[o].loc \notin space2[s].area.utcb
  BY <1>4 DEF MapInv, LikeSpaces
<1> QED BY <1>3, <1>5 DEF MapInv

\* The directory of space sp is changed, and sp has to be loaded again.
LEMMA NotLoaded ==
  ASSUME NEW space, NEW pdir, NEW ptab, SpaceInv(space, pdir, ptab), NEW sp \in DOMAIN space,
         space[sp].active # 0, NEW space2, space2 = [space EXCEPT ![sp].loaded = FALSE]
  PROVE  LikeSpaces(space, space2)
<1>1. space \in [DOMAIN space -> SpaceSet]
  BY DEF SpaceInv
<1>2. \A s \in DOMAIN space : space[s] \in SpaceSet
  BY <1>1
<1>3. \A s \in DOMAIN space : space2[s] = IF s = sp THEN [space[sp] EXCEPT !.loaded = FALSE] ELSE space[s]
  OBVIOUS
<1>4. [space[sp] EXCEPT !.loaded = FALSE] \in SpaceSet
  BY <1>2, Zenon DEF SpaceSet
<1>5. space2 \in [DOMAIN space -> SpaceSet]
  BY <1>2, <1>4, Zenon
<1>6. \A s \in DOMAIN space :
       /\ space2[s].pdir = space[s].pdir /\ space2[s].area = space[s].area
       /\ space2[s].count = space[s].count /\ space2[s].active = space[s].active
  BY <1>2, <1>3 DEF SpaceSet
<1> QED BY <1>5, <1>6 DEF LikeSpaces

LEMMA LoadKept ==
  ASSUME NEW space, NEW pdir, NEW ptab, SpaceInv(space, pdir, ptab), NEW sp \in DOMAIN space,
         NEW space2, space2 = [space EXCEPT ![sp].loaded = FALSE],
         NEW cr3, NEW cur, NEW stale, NEW stale2, LoadInv(space, cr3, cur, stale),
         stale2 \in {stale, stale \/ cr3 = DirectoryPage(sp)}
  PROVE  LoadInv(space2, cr3, cur, stale2)
<1>1. space \in [DOMAIN space -> SpaceSet]
  BY DEF SpaceInv
<1>2. \A s \in DOMAIN space : s # sp => space2[s] = space[s]
  OBVIOUS
<1>3. DOMAIN space2 = DOMAIN space
  OBVIOUS
<1>4. space2[sp].loaded = FALSE
  <2>1. space2[sp] = [space[sp] EXCEPT !.loaded = FALSE] /\ space[sp] \in SpaceSet
    BY <1>1
  <2> QED BY <2>1 DEF SpaceSet
<1>5. stale2 \in BOOLEAN
  BY Zenon DEF LoadInv
<1>6. (cur \in DOMAIN space2 /\ space2[cur].active # 0 /\ space2[cur].loaded) =>
        cr3 = space2[cur].pdir /\ ~stale2
  <2> SUFFICES ASSUME cur \in DOMAIN space2, space2[cur].active # 0, space2[cur].loaded
               PROVE  cr3 = space2[cur].pdir /\ ~stale2
    OBVIOUS
  <2>1. cur \in DOMAIN space /\ cur # sp /\ space2[cur] = space[cur]
    BY <1>2, <1>3, <1>4
  <2>2. cr3 = space[cur].pdir /\ ~stale
    BY <2>1 DEF LoadInv
  <2>3. space[cur].pdir = DirectoryPage(cur)
    BY <2>1, AreaFacts
  <2>4. cr3 # DirectoryPage(sp)
    BY <2>1, <2>2, <2>3, PageNames
  <2> QED BY <2>1, <2>2, <2>4, Zenon
<1> QED BY <1>5, <1>6 DEF LoadInv

\* The pages of the utcbs of threads are kept.
LEMMA UtcbsKept ==
  ASSUME NEW m, NEW w, NEW X, Kept(m, w, X), NEW space, NEW T, ThreadInv(space, T),
         UtcbInv(m.ptab, T),
         \A s \in DOMAIN space : \A l : <<DirectoryPage(s), l>> \in X => l \notin space[s].area.utcb
  PROVE  UtcbInv(w.ptab, T)
<1> SUFFICES ASSUME NEW t \in DOMAIN T, T[t].utcb # None
             PROVE  T[t].utcb \in UtcbsIn(w.ptab)
  BY DEF UtcbInv
<1>1. PICK s \in DOMAIN space : s = T[t].space
  BY DEF ThreadInv
<1>2. PICK l \in space[s].area.utcb : T[t].utcb = UtcbPage(DirectoryPage(s), l)
  BY <1>1 DEF ThreadInv
<1>3. <<DirectoryPage(s), l>> \notin X
  BY <1>2
<1>4. T[t].utcb \in UtcbsIn(m.ptab)
  BY DEF UtcbInv
<1> QED BY <1>2, <1>3, <1>4 DEF Kept

LEMMA TablesChanged ==
  ASSUME NEW m, NEW w, NEW T, NEW S, NEW K, MemInv(m, T, S, K), NEW T2, TabMem(w),
         w.objs = m.objs, w.partials = m.partials, w.table = m.table, Objects(w, K) = Objects(m, K),
         Apart(w, K), SpaceInv(w.space, w.pdir, w.ptab), ThreadInv(w.space, T2), UtcbInv(w.ptab, T2),
         MapInv(w.mapping, w.space), LoadInv(w.space, w.cr3, w.currentSpace, w.stale)
  PROVE  MemInv(w, T2, S, K)
<1>1. ObjInv(m.objs, m.partials, Objects(m, K)) /\ TcbInv(m.table, S)
  BY MemParts
<1>2. ObjInv(w.objs, w.partials, Objects(w, K)) /\ TcbInv(w.table, S)
  BY <1>1
<1>3. Shape(w) /\ UsedInv(w) /\ TabInv(w.pdir, w.ptab)
  BY DEF TabMem
<1> QED BY <1>2, <1>3 DEF MemInv

LEMMA TabMemSame ==
  ASSUME NEW m, NEW w, TabMem(m), Shape(w), w.used = m.used, w.num = m.num, w.objs = m.objs,
         w.table = m.table, w.pdir = m.pdir, w.ptab = m.ptab
  PROVE  TabMem(w)
<1>1. UsedInv(m) /\ TabInv(m.pdir, m.ptab)
  BY DEF TabMem
<1>2. InUse(w) = InUse(m)
  BY DEF InUse
<1>3. UsedInv(w)
  BY <1>1, <1>2, SameUsed
<1> QED BY <1>1, <1>3 DEF TabMem

\* A translation in the directory of space sp is changed.
LEMMA SpaceTablesChanged ==
  ASSUME NEW m, NEW w, NEW T, NEW S, NEW K, MemInv(m, T, S, K), TabMem(w),
         NEW sp \in DOMAIN m.space, m.space[sp].active # 0,
         w.objs = m.objs, w.partials = m.partials, w.table = m.table, w.mapping = m.mapping,
         w.space = [m.space EXCEPT ![sp].loaded = FALSE], w.cr3 = m.cr3,
         w.currentSpace = m.currentSpace,
         w.stale \in {m.stale, m.stale \/ m.cr3 = DirectoryPage(sp)},
         NEW X, Kept(m, w, X),
         \A e, l : <<e, l>> \in X => e = DirectoryPage(sp) /\ l \notin m.space[sp].area.utcb,
         \A l : UtcbPage(DirectoryPage(sp), l) \in UtcbsIn(w.ptab) =>
                  UtcbPage(DirectoryPage(sp), l) \in UtcbsIn(m.ptab),
         \A d \in DOMAIN w.pdir : d \in DOMAIN m.pdir
  PROVE  MemInv(w, T, S, K)
<1>1. /\ TabInv(m.pdir, m.ptab) /\ Apart(m, K) /\ SpaceInv(m.space, m.pdir, m.ptab)
      /\ ThreadInv(m.space, T) /\ UtcbInv(m.ptab, T) /\ MapInv(m.mapping, m.space)
      /\ LoadInv(m.space, m.cr3, m.currentSpace, m.stale)
  BY MemParts
<1>2. PICK space, space2 : space = m.space /\ space2 = w.space
  OBVIOUS
<1>3. SpaceInv(space, m.pdir, m.ptab) /\ sp \in DOMAIN space /\ space[sp].active # 0
      /\ space2 = [space EXCEPT ![sp].loaded = FALSE]
  BY <1>1, <1>2
<1>4. LikeSpaces(space, space2)
  BY <1>3, NotLoaded, Zenon
<1>5. LoadInv(space2, m.cr3, m.currentSpace, w.stale)
  BY <1>1, <1>2, <1>3, LoadKept
<1>6. DOMAIN w.space = DOMAIN m.space
  BY <1>2, <1>4 DEF LikeSpaces
<1>7. Objects(w, K) = Objects(m, K) /\ Apart(w, K)
  BY <1>1, <1>6 DEF Objects, Apart
<1>8. ThreadInv(w.space, T) /\ MapInv(w.mapping, w.space)
  BY <1>1, <1>2, <1>4, ThreadsKept, MapsKept
<1>9. \A s \in DOMAIN m.space, l \in Loc :
        (m.space[s].active # 0 /\ <<DirectoryPage(s), l>> \in X) =>
          l \notin m.space[s].area.utcb /\ UtcbPage(DirectoryPage(s), l) \notin UtcbsIn(w.ptab)
  <2> SUFFICES ASSUME NEW s \in DOMAIN m.space, NEW l \in Loc,
                      m.space[s].active # 0, <<DirectoryPage(s), l>> \in X
               PROVE  l \notin m.space[s].area.utcb
                      /\ UtcbPage(DirectoryPage(s), l) \notin UtcbsIn(w.ptab)
    OBVIOUS
  <2>1. DirectoryPage(s) = DirectoryPage(sp) /\ l \notin m.space[sp].area.utcb
    OBVIOUS
  <2>2. s = sp
    BY <2>1 DEF DirectoryPage
  <2>3. HasUtcb(m.pdir, m.ptab, sp, m.space[sp].area)
    BY <1>1, AreaFacts
  <2>4. UtcbPage(DirectoryPage(sp), l) \notin UtcbsIn(m.ptab)
    BY <2>1, <2>3 DEF HasUtcb
  <2> QED BY <2>1, <2>2, <2>4
<1>10. SpaceInv(w.space, w.pdir, w.ptab)
  <2>1. LikeSpaces(m.space, w.space)
    BY <1>2, <1>4
  <2> QED BY <1>1, <1>9, <2>1, SpacesKept
<1>11. LoadInv(w.space, w.cr3, w.currentSpace, w.stale)
  BY <1>2, <1>5
<1>12. UtcbInv(w.ptab, T)
  <2>1. \A s \in DOMAIN m.space : \A l :
          <<DirectoryPage(s), l>> \in X => l \notin m.space[s].area.utcb
    BY PageNames
  <2> QED BY <1>1, <2>1, UtcbsKept
<1> QED BY <1>7, <1>8, <1>10, <1>11, <1>12, TablesChanged

\* A translation is put into the directory of a space, not for its utcbs.
LEMMA MapFpage ==
  ASSUME NEW m, NEW T, NEW S, NEW K, MemInv(m, T, S, K), NEW sp \in DOMAIN m.space,
         m.space[sp].active # 0, NEW loc \in Loc, loc \notin m.space[sp].area.utcb,
         NEW w, w = mapFpage1(m, sp, loc)
  PROVE  /\ MemInv(w, T, S, K) /\ w.num \in {m.num, m.num - 1}
         /\ w.space = [m.space EXCEPT ![sp].loaded = FALSE] /\ w.currentSpace = m.currentSpace
<1>1. /\ Shape(m) /\ UsedInv(m) /\ TabInv(m.pdir, m.ptab) /\ SpaceInv(m.space, m.pdir, m.ptab)
  BY MemParts
<1>2. PICK d : d = m.space[sp].pdir
  OBVIOUS
<1>3. d = DirectoryPage(sp) /\ d \in DOMAIN m.pdir /\ HasUtcb(m.pdir, m.ptab, sp, m.space[sp].area)
  BY <1>1, <1>2, AreaFacts
<1>4. PICK i : i = loc[1]
  OBVIOUS
<1>5. i \in Super
  BY <1>4 DEF Loc
<1>6. PICK a : a = WithTable(m, d, i)
  OBVIOUS
<1>7. /\ TabMem(a) /\ SameButTables(m, a) /\ OthersKept(m, a, d) /\ SelfKept(m, a, d)
      /\ a.pdir[d][i] # None /\ a.num \in {m.num, m.num - 1}
      /\ DOMAIN a.pdir = DOMAIN m.pdir /\ UtcbsIn(a.ptab) = UtcbsIn(m.ptab)
  <2>1. TabMem(m)
    BY <1>1 DEF TabMem
  <2> QED BY <2>1, <1>3, <1>5, <1>6, HasTable
<1>8. Kept(m, a, {})
  BY <1>3, <1>7, KeptTables
<1>9. PICK b : b = [a EXCEPT !.ptab = SetEntry(a.ptab, a.pdir[d][i], loc[2], User)]
  BY Zenon
<1>10. Shape(a)
  BY <1>7 DEF TabMem
<1>11. /\ Shape(b) /\ SameButTables(a, b) /\ b.used = a.used /\ b.num = a.num
       /\ b.pdir = a.pdir /\ b.ptab = SetEntry(a.ptab, a.pdir[d][i], loc[2], User)
  BY <1>9, <1>10 DEF Shape, SameButTables
<1>12. UtcbPage(d, loc) \notin UtcbsIn(a.ptab)
  BY <1>3, <1>7 DEF HasUtcb
<1>13. TabMem(b) /\ Kept(a, b, {<<d, loc>>}) /\ UtcbsIn(b.ptab) = UtcbsIn(a.ptab)
  <2>1. d \in DOMAIN a.pdir /\ User \in {None, Kip, User} /\ a.pdir[d][loc[1]] # None
        /\ b.ptab = SetEntry(a.ptab, a.pdir[d][loc[1]], loc[2], User)
    BY <1>3, <1>4, <1>7, <1>11
  <2> QED BY <2>1, <1>7, <1>11, <1>12, EntryPut, Zenon
<1>14. PICK c : c = IF PageAt(a, d, loc) = None THEN a ELSE Changed(a, d)
  OBVIOUS
<1>15. w = [c EXCEPT !.ptab[a.pdir[d][i]][loc[2]] = User, !.space[sp].loaded = FALSE]
  BY <1>2, <1>4, <1>6, <1>14, Zenon DEF mapFpage1
<1>16. c = a \/ c = [a EXCEPT !.stale = a.stale \/ a.cr3 = d]
  BY <1>14 DEF Changed
<1>17. /\ c.used = a.used /\ c.num = a.num /\ c.objs = a.objs /\ c.partials = a.partials
       /\ c.table = a.table /\ c.mapping = a.mapping /\ c.cr3 = a.cr3
       /\ c.currentSpace = a.currentSpace /\ c.pdir = a.pdir /\ c.ptab = a.ptab
       /\ c.space = a.space /\ c.stale \in {a.stale, a.stale \/ a.cr3 = d} /\ Shape(c)
  BY <1>10, <1>16 DEF Shape
<1>18. w = [c EXCEPT !.ptab = SetEntry(c.ptab, a.pdir[d][i], loc[2], User),
                     !.space = [c.space EXCEPT ![sp].loaded = FALSE]]
  BY <1>15, <1>17, Zenon DEF SetEntry, Shape
<1>19. /\ w.used = c.used /\ w.num = c.num /\ w.objs = c.objs /\ w.partials = c.partials
       /\ w.table = c.table /\ w.mapping = c.mapping /\ w.cr3 = c.cr3
       /\ w.currentSpace = c.currentSpace /\ w.pdir = c.pdir
       /\ w.ptab = SetEntry(c.ptab, a.pdir[d][i], loc[2], User)
       /\ w.space = [c.space EXCEPT ![sp].loaded = FALSE] /\ w.stale = c.stale /\ Shape(w)
  BY <1>17, <1>18, Zenon DEF Shape
<1>20. TabMem(w)
  <2>1. /\ w.used = b.used /\ w.num = b.num /\ w.objs = b.objs /\ w.table = b.table
        /\ w.pdir = b.pdir /\ w.ptab = b.ptab
    BY <1>11, <1>17, <1>19 DEF SameButTables
  <2> QED BY <2>1, <1>13, <1>19, TabMemSame, Zenon
<1>21. w.ptab = b.ptab /\ w.pdir = b.pdir
  BY <1>11, <1>17, <1>19
<1>22. Kept(m, w, {} \cup {<<d, loc>>})
  <2>1. Kept(a, w, {<<d, loc>>})
    BY <1>13, <1>21 DEF Kept
  <2> QED BY <2>1, <1>8, KeptBoth
<1>23. PICK X : X = {} \cup {<<d, loc>>}
  BY Zenon
<1>24. /\ w.objs = m.objs /\ w.partials = m.partials /\ w.table = m.table /\ w.mapping = m.mapping
       /\ w.cr3 = m.cr3 /\ w.currentSpace = m.currentSpace
  BY <1>7, <1>17, <1>19 DEF SameButTables
<1>25. w.stale \in {m.stale, m.stale \/ m.cr3 = DirectoryPage(sp)}
  BY <1>3, <1>7, <1>17, <1>19 DEF SameButTables
<1>26. w.space = [m.space EXCEPT ![sp].loaded = FALSE]
  <2>1. c.space = m.space
    BY <1>7, <1>17 DEF SameButTables
  <2> QED BY <2>1, <1>19
<1>27. \A e, l : <<e, l>> \in X => e = DirectoryPage(sp) /\ l \notin m.space[sp].area.utcb
  BY <1>3, <1>23
<1>28. \A l : UtcbPage(DirectoryPage(sp), l) \in UtcbsIn(w.ptab) =>
                UtcbPage(DirectoryPage(sp), l) \in UtcbsIn(m.ptab)
  BY <1>7, <1>13, <1>21
<1>29. \A e \in DOMAIN w.pdir : e \in DOMAIN m.pdir
  BY <1>7, <1>11, <1>21
<1>30. MemInv(w, T, S, K)
  BY <1>20, <1>22, <1>23, <1>24, <1>25, <1>26, <1>27, <1>28, <1>29, SpaceTablesChanged
<1>31. w.num \in {m.num, m.num - 1}
  BY <1>7, <1>17, <1>19
<1> QED BY <1>24, <1>26, <1>30, <1>31

-----------------------------------------------------------------------------
(***************************************************************************)
(* Threads that enter a space, are activated, and leave it.                *)
(***************************************************************************)
TCB(space, T) == [space : DOMAIN space, utcb : Utcbs \cup {None}]

LEMMA ThreadFacts ==
  ASSUME NEW space, NEW T, ThreadInv(space, T)
  PROVE  /\ IsFiniteSet(DOMAIN T) /\ DOMAIN T \subseteq Thread /\ \A t \in DOMAIN T : T[t] \in TCB(space, T)
         /\ \A t \in DOMAIN T : T[t].space \in DOMAIN space
BY DEF ThreadInv, TCB

LEMMA ThreadSets ==
  ASSUME NEW T, NEW s, IsFiniteSet(DOMAIN T)
  PROVE  IsFiniteSet(Threads(T, s)) /\ IsFiniteSet(Actives(T, s))
<1>1. Threads(T, s) \subseteq DOMAIN T /\ Actives(T, s) \subseteq DOMAIN T
  BY DEF Threads, Actives
<1> QED BY <1>1, FS_Subset

LEMMA ThreadEntered ==
  ASSUME NEW space, NEW space2, NEW T, ThreadInv(space, T), NEW t \in Thread, t \notin DOMAIN T,
         NEW sp \in DOMAIN space, DOMAIN space2 = DOMAIN space,
         \A s \in DOMAIN space : /\ space2[s].area = space[s].area
                                 /\ space2[s].active = space[s].active
                                 /\ s # sp => space2[s].count = space[s].count,
         space2[sp].count = space[sp].count + 1,
         NEW T2, T2 = With(T, t, [space |-> sp, utcb |-> None])
  PROVE  ThreadInv(space2, T2)
<1>1. PICK e : e = [space |-> sp, utcb |-> None]
  OBVIOUS
<1>2. e.space = sp /\ e.utcb = None /\ e \in TCB(space, T)
  BY <1>1 DEF TCB
<1>3. DOMAIN T2 = (DOMAIN T) \cup {t}
  BY WithDomain, Zenon
<1>4. T2[t] = e /\ \A y \in DOMAIN T : T2[y] = T[y]
  <2>1. T2 = With(T, t, e)
    BY <1>1
  <2>2. T2[t] = e /\ \A y \in DOMAIN T : y # t => T2[y] = T[y]
    BY <2>1, WithFacts
  <2> QED BY <2>2
<1>5. /\ IsFiniteSet(DOMAIN T) /\ DOMAIN T \subseteq Thread
      /\ \A y \in DOMAIN T : T[y] \in TCB(space, T) /\ T[y].space \in DOMAIN space
  BY ThreadFacts
<1>6. IsFiniteSet(DOMAIN T2) /\ DOMAIN T2 \subseteq Thread
  <2>1. IsFiniteSet((DOMAIN T) \cup {t})
    BY <1>5, FS_AddElement
  <2> QED BY <2>1, <1>3, <1>5
<1>7. T2 \in [DOMAIN T2 -> [space : DOMAIN space2, utcb : Utcbs \cup {None}]]
  <2>1. T2 \in [(DOMAIN T) \cup {t} -> TCB(space, T)]
    <3>1. PICK F : F = TCB(space, T)
      OBVIOUS
    <3>2. e \in F /\ \A y \in DOMAIN T : y # t => T[y] \in F
      BY <3>1, <1>5, <1>2
    <3>3. With(T, t, e) \in [(DOMAIN T) \cup {t} -> F]
      BY <3>2, WithType, Zenon
    <3> QED BY <3>1, <3>3, <1>1
  <2> QED BY <2>1, <1>3 DEF TCB
<1>8. \A s \in DOMAIN space2 : Actives(T2, s) = Actives(T, s)
  BY <1>2, <1>3, <1>4 DEF Actives
<1>9. Threads(T2, sp) = Threads(T, sp) \cup {t} /\ t \notin Threads(T, sp)
  BY <1>2, <1>3, <1>4 DEF Threads
<1>10. \A s \in DOMAIN space2 : s # sp => Threads(T2, s) = Threads(T, s)
  BY <1>2, <1>3, <1>4 DEF Threads
<1>11. Cardinality(Threads(T2, sp)) = Cardinality(Threads(T, sp)) + 1
  <2>1. PICK R : R = Threads(T, sp)
    OBVIOUS
  <2>2. IsFiniteSet(R)
    BY <1>5, <2>1, ThreadSets
  <2>3. Cardinality(R \cup {t}) = Cardinality(R) + 1
    BY <1>9, <2>1, <2>2, FS_AddElement, Zenon
  <2> QED BY <2>1, <2>3, <1>9, Zenon
<1>12. \A s \in DOMAIN space : /\ space[s].count = Cardinality(Threads(T, s))
                               /\ space[s].active = Cardinality(Actives(T, s))
  BY DEF ThreadInv
<1>13. \A s \in DOMAIN space2 : /\ space2[s].count = Cardinality(Threads(T2, s))
                                /\ space2[s].active = Cardinality(Actives(T2, s))
  BY <1>8, <1>10, <1>11, <1>12
<1>14. \A y \in DOMAIN T2 : T2[y].utcb # None =>
         \E l \in space2[T2[y].space].area.utcb : T2[y].utcb = UtcbPage(DirectoryPage(T2[y].space), l)
  <2>1. \A y \in DOMAIN T : T[y].utcb # None =>
         \E l \in space[T[y].space].area.utcb : T[y].utcb = UtcbPage(DirectoryPage(T[y].space), l)
    BY DEF ThreadInv
  <2> QED BY <2>1, <1>2, <1>3, <1>4, <1>5
<1> QED BY <1>6, <1>7, <1>13, <1>14 DEF ThreadInv

LEMMA ThreadActivated ==
  ASSUME NEW space, NEW space2, NEW T, ThreadInv(space, T), NEW t \in DOMAIN T,
         T[t].utcb = None, NEW sp, sp = T[t].space, DOMAIN space2 = DOMAIN space,
         \A s \in DOMAIN space : /\ space2[s].area = space[s].area
                                 /\ space2[s].count = space[s].count
                                 /\ s # sp => space2[s].active = space[s].active,
         space2[sp].active = space[sp].active + 1,
         NEW u \in Utcbs, \E l \in space[sp].area.utcb : u = UtcbPage(DirectoryPage(sp), l),
         NEW T2, T2 = With(T, t, [space |-> sp, utcb |-> u])
  PROVE  ThreadInv(space2, T2)
<1>1. PICK e : e = [space |-> sp, utcb |-> u]
  OBVIOUS
<1>2. e.space = sp /\ e.utcb = u /\ u # None
  BY <1>1, NotNames
<1>3. DOMAIN T2 = DOMAIN T
  <2>1. DOMAIN T2 = (DOMAIN T) \cup {t}
    BY WithDomain, Zenon
  <2> QED BY <2>1, Zenon
<1>4. T2[t] = e /\ \A y \in DOMAIN T : y # t => T2[y] = T[y]
  <2>1. T2 = With(T, t, e)
    BY <1>1
  <2> QED BY <2>1, WithFacts
<1>5. /\ IsFiniteSet(DOMAIN T) /\ DOMAIN T \subseteq Thread
      /\ \A y \in DOMAIN T : T[y] \in TCB(space, T) /\ T[y].space \in DOMAIN space
  BY ThreadFacts
<1>6. e \in TCB(space, T)
  BY <1>1, <1>5 DEF TCB
<1>7. T2 \in [DOMAIN T2 -> [space : DOMAIN space2, utcb : Utcbs \cup {None}]]
  <2>1. T2 \in [(DOMAIN T) \cup {t} -> TCB(space, T)]
    <3>1. PICK F : F = TCB(space, T)
      OBVIOUS
    <3>2. e \in F /\ \A y \in DOMAIN T : y # t => T[y] \in F
      BY <3>1, <1>5, <1>6
    <3>3. With(T, t, e) \in [(DOMAIN T) \cup {t} -> F]
      BY <3>2, WithType, Zenon
    <3> QED BY <3>1, <3>3, <1>1
  <2>2. (DOMAIN T) \cup {t} = DOMAIN T2
    BY <1>3, Zenon
  <2> QED BY <2>1, <2>2 DEF TCB
<1>8. \A s \in DOMAIN space2 : Threads(T2, s) = Threads(T, s)
  BY <1>2, <1>3, <1>4 DEF Threads
<1>9. Actives(T2, sp) = Actives(T, sp) \cup {t} /\ t \notin Actives(T, sp)
  BY <1>2, <1>3, <1>4 DEF Actives
<1>10. \A s \in DOMAIN space2 : s # sp => Actives(T2, s) = Actives(T, s)
  BY <1>2, <1>3, <1>4 DEF Actives
<1>11. Cardinality(Actives(T2, sp)) = Cardinality(Actives(T, sp)) + 1
  <2>1. PICK R : R = Actives(T, sp)
    OBVIOUS
  <2>2. IsFiniteSet(R)
    BY <1>5, <2>1, ThreadSets
  <2>3. Cardinality(R \cup {t}) = Cardinality(R) + 1
    BY <1>9, <2>1, <2>2, FS_AddElement, Zenon
  <2> QED BY <2>1, <2>3, <1>9, Zenon
<1>12. \A s \in DOMAIN space : /\ space[s].count = Cardinality(Threads(T, s))
                               /\ space[s].active = Cardinality(Actives(T, s))
  BY DEF ThreadInv
<1>13. \A s \in DOMAIN space2 : /\ space2[s].count = Cardinality(Threads(T2, s))
                                /\ space2[s].active = Cardinality(Actives(T2, s))
  BY <1>5, <1>8, <1>10, <1>11, <1>12
<1>14. \A y \in DOMAIN T2 : T2[y].utcb # None =>
         \E l \in space2[T2[y].space].area.utcb : T2[y].utcb = UtcbPage(DirectoryPage(T2[y].space), l)
  <2>1. \A y \in DOMAIN T : T[y].utcb # None =>
         \E l \in space[T[y].space].area.utcb : T[y].utcb = UtcbPage(DirectoryPage(T[y].space), l)
    BY DEF ThreadInv
  <2> QED BY <2>1, <1>2, <1>3, <1>4, <1>5
<1>15. IsFiniteSet(DOMAIN T2) /\ DOMAIN T2 \subseteq Thread
  BY <1>3, <1>5
<1> QED BY <1>7, <1>13, <1>14, <1>15 DEF ThreadInv

LEMMA ThreadLeft ==
  ASSUME NEW space, NEW space2, NEW T, ThreadInv(space, T), NEW t \in DOMAIN T,
         NEW sp, sp = T[t].space, DOMAIN space2 = DOMAIN space,
         \A s \in DOMAIN space :
           /\ space2[s].area = space[s].area
           /\ s # sp => space2[s].active = space[s].active /\ space2[s].count = space[s].count,
         space2[sp].count = space[sp].count - 1,
         T[t].utcb = None => space2[sp].active = space[sp].active,
         T[t].utcb # None => space2[sp].active = space[sp].active - 1,
         NEW T2, T2 = Dropped(T, t)
  PROVE  ThreadInv(space2, T2)
<1>3. DOMAIN T2 = (DOMAIN T) \ {t}
  BY DroppedDomain, Zenon
<1>4. \A y \in DOMAIN T : y # t => T2[y] = T[y]
  BY DroppedFacts
<1>5. /\ IsFiniteSet(DOMAIN T) /\ DOMAIN T \subseteq Thread
      /\ \A y \in DOMAIN T : T[y] \in TCB(space, T) /\ T[y].space \in DOMAIN space
  BY ThreadFacts
<1>7. T2 \in [DOMAIN T2 -> [space : DOMAIN space2, utcb : Utcbs \cup {None}]]
  <2>1. T2 \in [(DOMAIN T) \ {t} -> TCB(space, T)]
    <3>1. \A y \in DOMAIN T : y # t => T[y] \in TCB(space, T)
      BY <1>5
    <3> QED BY <3>1, DroppedType, Zenon
  <2> QED BY <2>1, <1>3 DEF TCB
<1>8. /\ Threads(T2, sp) = Threads(T, sp) \ {t} /\ t \in Threads(T, sp)
      /\ Actives(T2, sp) = Actives(T, sp) \ {t} /\ (t \in Actives(T, sp) <=> T[t].utcb # None)
  BY <1>3, <1>4 DEF Threads, Actives
<1>10. \A s \in DOMAIN space2 : s # sp => /\ Actives(T2, s) = Actives(T, s)
                                          /\ Threads(T2, s) = Threads(T, s)
  BY <1>3, <1>4 DEF Actives, Threads
<1>11. PICK R, A : R = Threads(T, sp) /\ A = Actives(T, sp)
  OBVIOUS
<1>12. IsFiniteSet(R) /\ IsFiniteSet(A)
  BY <1>5, <1>11, ThreadSets
<1>13. space[sp].count = Cardinality(R) /\ space[sp].active = Cardinality(A)
  BY <1>5, <1>11 DEF ThreadInv
<1>14. Cardinality(R \ {t}) = Cardinality(R) - 1
  BY <1>8, <1>11, <1>12, FS_RemoveElement, Zenon
<1>15. T[t].utcb # None => Cardinality(A \ {t}) = Cardinality(A) - 1
  BY <1>8, <1>11, <1>12, FS_RemoveElement, Zenon
<1>16. T[t].utcb = None => A \ {t} = A
  BY <1>8, <1>11
<1>17. /\ space2[sp].count = Cardinality(Threads(T2, sp))
       /\ space2[sp].active = Cardinality(Actives(T2, sp))
  BY <1>8, <1>11, <1>13, <1>14, <1>15, <1>16, Zenon
<1>18. \A s \in DOMAIN space : /\ space[s].count = Cardinality(Threads(T, s))
                               /\ space[s].active = Cardinality(Actives(T, s))
  BY DEF ThreadInv
<1>19. \A s \in DOMAIN space2 : /\ space2[s].count = Cardinality(Threads(T2, s))
                                /\ space2[s].active = Cardinality(Actives(T2, s))
  BY <1>10, <1>17, <1>18
<1>20. \A y \in DOMAIN T2 : T2[y].utcb # None =>
         \E l \in space2[T2[y].space].area.utcb : T2[y].utcb = UtcbPage(DirectoryPage(T2[y].space), l)
  <2>1. \A y \in DOMAIN T : T[y].utcb # None =>
         \E l \in space[T[y].space].area.utcb : T[y].utcb = UtcbPage(DirectoryPage(T[y].space), l)
    BY DEF ThreadInv
  <2> QED BY <2>1, <1>3, <1>4, <1>5
<1>21. IsFiniteSet(DOMAIN T2) /\ DOMAIN T2 \subseteq Thread
  <2>1. IsFiniteSet((DOMAIN T) \ {t})
    BY <1>5, FS_RemoveElement
  <2> QED BY <2>1, <1>3, <1>5
<1> QED BY <1>7, <1>19, <1>20, <1>21 DEF ThreadInv

LEMMA NoDirectory ==
  ASSUME NEW space, NEW pdir, NEW ptab, SpaceInv(space, pdir, ptab), NEW sp, ~(sp \in DOMAIN space /\ space[sp].active # 0)
  PROVE  DirectoryPage(sp) \notin DOMAIN pdir
<1>1. \A d \in DOMAIN pdir : \E s \in DOMAIN space : d = DirectoryPage(s) /\ space[s].active # 0
  BY DEF SpaceInv
<1> QED BY <1>1, PageNames

\* A page for the utcb at loc.
LEMMA UtcbPageTaken ==
  ASSUME NEW m, TabMem(m), NEW d \in DOMAIN m.pdir, NEW loc \in Loc, NEW u, u = UtcbPage(d, loc),
         u \notin UtcbsIn(m.ptab), m.pdir[d][loc[1]] # None => PageAt(m, d, loc) = None,
         NEW w, w = allocUtcbPage2(m, d, loc)
  PROVE  /\ TabMem(w) /\ SameButTables(m, w) /\ Kept(m, w, {<<d, loc>>}) /\ PageAt(w, d, loc) = u
         /\ u \in Utcbs /\ w.pdir[d][loc[1]] # None /\ w.num \in {m.num - 1, (m.num - 1) - 1}
         /\ DOMAIN w.pdir = DOMAIN m.pdir /\ u \in UtcbsIn(w.ptab)
<1>1. PICK i \in Super, n \in PageNo : i = loc[1] /\ n = loc[2] /\ loc = <<i, n>>
  BY DEF Loc
<1>2. PICK a : a = WithTable(m, d, i)
  OBVIOUS
<1>3. /\ TabMem(a) /\ SameButTables(m, a) /\ OthersKept(m, a, d) /\ SelfKept(m, a, d)
      /\ a.pdir[d][i] # None /\ a.num \in {m.num, m.num - 1}
      /\ DOMAIN a.pdir = DOMAIN m.pdir /\ UtcbsIn(a.ptab) = UtcbsIn(m.ptab)
      /\ (m.pdir[d][i] = None => \A k \in PageNo : a.ptab[a.pdir[d][i]][k] = None)
  BY <1>2, HasTable
<1>4. Kept(m, a, {})
  BY <1>3, KeptTables
<1>5. PageAt(a, d, loc) = None
  <2>1. CASE m.pdir[d][i] = None
    BY <1>1, <1>3, <2>1 DEF PageAt
  <2>2. CASE m.pdir[d][i] # None
    BY <1>1, <1>3, <2>2 DEF PageAt, SelfKept
  <2> QED BY <2>1, <2>2
<1>6. Shape(a) /\ TabInv(a.pdir, a.ptab)
  BY <1>3 DEF TabMem
<1>7. w = [allocPage1(a, u) EXCEPT !.ptab[a.pdir[d][i]][n] = u]
  BY <1>1, <1>2, <1>5 DEF allocUtcbPage2
<1>8. w = [a EXCEPT !.used = a.used \cup {u}, !.num = a.num - 1,
                    !.ptab = SetEntry(a.ptab, a.pdir[d][i], n, u)]
  BY <1>6, <1>7 DEF Shape, allocPage1, SetEntry
<1>9. /\ Shape(w) /\ SameButTables(a, w) /\ w.used = a.used \cup {u} /\ w.num = a.num - 1
      /\ w.pdir = a.pdir /\ w.ptab = SetEntry(a.ptab, a.pdir[d][i], n, u)
  BY <1>6, <1>8, Zenon DEF Shape, SameButTables
<1>10. TabMem(w) /\ Kept(a, w, {<<d, loc>>}) /\ PageAt(w, d, loc) = u /\ u \in UtcbsIn(w.ptab)
  <2>1. /\ d \in DOMAIN a.pdir /\ a.pdir[d][loc[1]] # None /\ u \notin UtcbsIn(a.ptab)
        /\ w.ptab = SetEntry(a.ptab, a.pdir[d][loc[1]], loc[2], u)
    BY <1>1, <1>3, <1>9
  <2>2. /\ TabMem(a) /\ Shape(w) /\ SameButTables(a, w) /\ w.used = a.used \cup {u}
        /\ w.num = a.num - 1 /\ w.pdir = a.pdir /\ u = UtcbPage(d, loc) /\ loc \in Loc
    BY <1>3, <1>9
  <2> QED BY ONLY <2>1, <2>2, EntryUtcb, SMT
<1>11. Kept(m, w, {<<d, loc>>})
  <2>1. Kept(m, w, {} \cup {<<d, loc>>})
    BY <1>4, <1>10, KeptBoth
  <2>2. {} \cup {<<d, loc>>} = {<<d, loc>>}
    OBVIOUS
  <2> QED BY <2>1, <2>2
<1>12. SameButTables(m, w)
  BY <1>3, <1>9 DEF SameButTables
<1>13. u \in Utcbs
  BY <1>10 DEF UtcbsIn
<1>14. w.num \in {m.num - 1, (m.num - 1) - 1}
  BY <1>3, <1>9
<1>15. w.pdir[d][loc[1]] # None /\ DOMAIN w.pdir = DOMAIN m.pdir
  BY <1>1, <1>3, <1>9
<1> QED BY <1>10, <1>11, <1>12, <1>13, <1>14, <1>15

\* A space with one more active thread.
Activated(space, sp) ==
  [space EXCEPT ![sp].active = space[sp].active + 1, ![sp].pdir = DirectoryPage(sp), ![sp].loaded = FALSE]

LEMMA ActivatedDomain ==
  ASSUME NEW space, NEW sp
  PROVE  DOMAIN Activated(space, sp) = DOMAIN space
BY DEF Activated

LEMMA ActivatedFacts ==
  ASSUME NEW space, NEW sp \in DOMAIN space, space \in [DOMAIN space -> SpaceSet],
         DOMAIN space \subseteq Object
  PROVE  LET w == Activated(space, sp) IN
         /\ w \in [DOMAIN w -> SpaceSet]
         /\ (\A s \in DOMAIN space : /\ w[s].area = space[s].area /\ w[s].count = space[s].count
                                     /\ s # sp => w[s] = space[s])
         /\ w[sp].active = space[sp].active + 1 /\ w[sp].active # 0
         /\ w[sp].pdir = DirectoryPage(sp) /\ w[sp].loaded = FALSE
<1>0. PICK w : w = Activated(space, sp)
  OBVIOUS
<1>1. space \in [DOMAIN space -> SpaceSet] /\ DOMAIN space \subseteq Object
  OBVIOUS
<1>2. \A s \in DOMAIN space : space[s] \in SpaceSet
  BY <1>1
<1>3. PICK r : r = [pdir |-> DirectoryPage(sp), area |-> space[sp].area, count |-> space[sp].count,
                    active |-> space[sp].active + 1, loaded |-> FALSE]
  BY Zenon
<1>4. DOMAIN w = DOMAIN space /\ \A s \in DOMAIN space : s # sp => w[s] = space[s]
  BY <1>0 DEF Activated
<1>5. w[sp] = r
  <2>1. w[sp] = [space[sp] EXCEPT !.active = space[sp].active + 1, !.pdir = DirectoryPage(sp),
                                  !.loaded = FALSE]
    BY <1>0 DEF Activated
  <2>2. space[sp] \in SpaceSet
    BY <1>2
  <2> QED BY <2>1, <2>2, <1>3, Zenon DEF SpaceSet
<1>6. r \in SpaceSet
  <2>1. /\ DirectoryPage(sp) \in Directories /\ space[sp].active + 1 \in Nat
        /\ space[sp].area \in Areas \cup {PrivArea, None} /\ space[sp].count \in Nat
    BY <1>1, <1>2, PageNames DEF SpaceSet
  <2> QED BY <2>1, <1>3 DEF SpaceSet
<1>7. w \in [DOMAIN w -> SpaceSet]
  <2>1. \A s \in DOMAIN w : w[s] \in SpaceSet
    BY <1>2, <1>4, <1>5, <1>6
  <2>2. w = [s \in DOMAIN w |-> w[s]]
    BY <1>0, Zenon DEF Activated
  <2> QED BY <2>1, <2>2
<1>8. r.active = space[sp].active + 1 /\ r.active # 0 /\ r.pdir = DirectoryPage(sp)
      /\ r.loaded = FALSE /\ r.area = space[sp].area /\ r.count = space[sp].count
  BY <1>2, <1>3 DEF SpaceSet
<1> QED BY <1>0, <1>4, <1>5, <1>7, <1>8

LEMMA MapsActivated ==
  ASSUME NEW space, NEW pdir, NEW ptab, SpaceInv(space, pdir, ptab), NEW mapping,
         MapInv(mapping, space), NEW sp \in DOMAIN space, NEW w, w = Activated(space, sp)
  PROVE  MapInv(mapping, w)
<1>0. DOMAIN w = DOMAIN space
  BY ActivatedDomain
<1>1. /\ w[sp].active # 0
      /\ \A s \in DOMAIN space : w[s].area = space[s].area /\ (s # sp => w[s] = space[s])
  <2>1. space \in [DOMAIN space -> SpaceSet] /\ DOMAIN space \subseteq Object
    BY DEF SpaceInv
  <2> QED BY <2>1, ActivatedFacts, Zenon
<1>2. mapping \in [DOMAIN mapping -> [space : DOMAIN space, loc : Loc]]
  BY DEF MapInv
<1>3. mapping \in [DOMAIN mapping -> [space : DOMAIN w, loc : Loc]]
  BY <1>0, <1>2
<1>4. \A o \in DOMAIN mapping : mapping[o].space \in DOMAIN space
  BY <1>2
<1>5. \A o \in DOMAIN mapping : LET s == mapping[o].space IN
        w[s].active # 0 /\ mapping[o].loc \notin w[s].area.utcb
  BY <1>1, <1>4 DEF MapInv
<1> QED BY <1>3, <1>5 DEF MapInv

LEMMA LoadActivated ==
  ASSUME NEW space, NEW pdir, NEW ptab, SpaceInv(space, pdir, ptab), NEW cr3, NEW cur, NEW stale,
         LoadInv(space, cr3, cur, stale), NEW sp \in DOMAIN space, NEW w, w = Activated(space, sp)
  PROVE  LoadInv(w, cr3, cur, stale)
<1>0. DOMAIN w = DOMAIN space
  BY ActivatedDomain
<1>1. /\ w[sp].loaded = FALSE
      /\ \A s \in DOMAIN space : s # sp => w[s] = space[s]
  <2>1. space \in [DOMAIN space -> SpaceSet] /\ DOMAIN space \subseteq Object
    BY DEF SpaceInv
  <2> QED BY <2>1, ActivatedFacts, Zenon
<1>2. stale \in BOOLEAN
  BY DEF LoadInv
<1>3. (cur \in DOMAIN w /\ w[cur].active # 0 /\ w[cur].loaded) => cr3 = w[cur].pdir /\ ~stale
  <2> SUFFICES ASSUME cur \in DOMAIN w, w[cur].active # 0, w[cur].loaded
               PROVE  cr3 = w[cur].pdir /\ ~stale
    OBVIOUS
  <2>1. cur # sp /\ cur \in DOMAIN space /\ w[cur] = space[cur]
    BY <1>0, <1>1
  <2> QED BY <2>1 DEF LoadInv
<1> QED BY <1>2, <1>3 DEF LoadInv

LEMMA SpacesActivated ==
  ASSUME NEW m, NEW w, NEW sp \in DOMAIN m.space, SpaceInv(m.space, m.pdir, m.ptab),
         TabInv(m.pdir, m.ptab), NEW loc \in Loc, m.space[sp].area \in Area,
         loc \in m.space[sp].area.utcb, w.space = Activated(m.space, sp),
         NEW d, d = DirectoryPage(sp), Kept(m, w, {<<d, loc>>}),
         \A e \in DOMAIN w.pdir : e = d \/ e \in DOMAIN m.pdir,
         d \in DOMAIN w.pdir, \A l \in m.space[sp].area.utcb : ~Foreign(w.pdir, w.ptab, d, l)
  PROVE  SpaceInv(w.space, w.pdir, w.ptab)
<1>1. PICK space, space2 : space = m.space /\ space2 = w.space
  OBVIOUS
<1>2. SpaceInv(space, m.pdir, m.ptab) /\ sp \in DOMAIN space /\ space2 = Activated(space, sp)
  BY <1>1
<1>0. DOMAIN space2 = DOMAIN space
  BY <1>2, ActivatedDomain
<1>3. /\ space2 \in [DOMAIN space2 -> SpaceSet]
      /\ (\A s \in DOMAIN space : space2[s].area = space[s].area /\ (s # sp => space2[s] = space[s]))
      /\ space2[sp].active # 0 /\ space2[sp].pdir = d
  <2>1. space \in [DOMAIN space -> SpaceSet] /\ DOMAIN space \subseteq Object
    BY <1>2 DEF SpaceInv
  <2>2. /\ space2 \in [DOMAIN space2 -> SpaceSet]
        /\ (\A s \in DOMAIN space : /\ space2[s].area = space[s].area
                                    /\ (s # sp => space2[s] = space[s]))
        /\ space2[sp].active # 0 /\ space2[sp].pdir = DirectoryPage(sp)
    BY ONLY <1>2, <2>1, ActivatedFacts, Zenon
  <2> QED BY <2>2
<1>4. \A l \in Loc : UtcbPage(d, l) \in UtcbsIn(w.ptab) => l \in m.space[sp].area.utcb
  <2> SUFFICES ASSUME NEW l \in Loc, UtcbPage(d, l) \in UtcbsIn(w.ptab), l # loc
               PROVE  l \in m.space[sp].area.utcb
    OBVIOUS
  <2>1. UtcbPage(d, l) \in UtcbsIn(m.ptab)
    <3>1. <<d, l>> \notin {<<d, loc>>}
      OBVIOUS
    <3> QED BY <3>1 DEF Kept
  <2>2. d \in DOMAIN m.pdir
    BY <2>1, UtcbOwner
  <2>3. space[sp].active # 0
    BY <1>2, <2>2, NoDirectory
  <2>4. HasUtcb(m.pdir, m.ptab, sp, space[sp].area)
    BY <1>2, <2>3, AreaFacts
  <2>5. l \in space[sp].area.utcb
    BY <2>1, <2>4 DEF HasUtcb
  <2> QED BY <1>1, <2>5
<1>5. HasUtcb(w.pdir, w.ptab, sp, space2[sp].area)
  <2>1. space2[sp].area = m.space[sp].area
    BY <1>1, <1>3
  <2> QED BY <1>4, <2>1 DEF HasUtcb
<1>6. \A s \in DOMAIN space : (s # sp /\ space[s].active # 0) =>
        HasUtcb(w.pdir, w.ptab, s, space[s].area)
  <2> SUFFICES ASSUME NEW s \in DOMAIN space, s # sp, space[s].active # 0
               PROVE  HasUtcb(w.pdir, w.ptab, s, space[s].area)
    OBVIOUS
  <2>1. PICK area : area = space[s].area
    OBVIOUS
  <2>2. area \in Area /\ HasUtcb(m.pdir, m.ptab, s, area)
    BY <1>2, <2>1, AreaFacts
  <2>3. PICK X : X = {<<d, loc>>}
    OBVIOUS
  <2>4. \A l \in Loc : <<DirectoryPage(s), l>> \notin X
    BY <2>3, PageNames
  <2>5. Kept(m, w, X)
    BY <2>3
  <2>6. HasUtcb(w.pdir, w.ptab, s, area)
    BY <2>2, <2>4, <2>5, HasUtcbKept
  <2> QED BY <2>1, <2>6
<1>7. \A s \in DOMAIN space2 :
        /\ space2[s].pdir \in {None, DirectoryPage(s)}
        /\ space2[s].pdir # None => space2[s].area # None
        /\ space2[s].active # 0 => /\ space2[s].pdir # None
                                   /\ HasUtcb(w.pdir, w.ptab, s, space2[s].area)
  <2> SUFFICES ASSUME NEW s \in DOMAIN space
               PROVE  /\ space2[s].pdir \in {None, DirectoryPage(s)}
                      /\ space2[s].pdir # None => space2[s].area # None
                      /\ space2[s].active # 0 => /\ space2[s].pdir # None
                                                 /\ HasUtcb(w.pdir, w.ptab, s, space2[s].area)
    BY <1>0, <1>3
  <2>1. CASE s = sp
    <3>1. space2[sp].area # None
      BY <1>1, <1>3, SpacesAssumption
    <3>2. d # None
      <4>1. sp \in Object
        BY <1>2 DEF SpaceInv
      <4> QED BY <4>1, PageNames, NotNames
    <3> QED BY <2>1, <3>1, <3>2, <1>3, <1>5
  <2>2. CASE s # sp
    <3>1. /\ space[s].pdir \in {None, DirectoryPage(s)} /\ (space[s].pdir # None => space[s].area # None)
          /\ (space[s].active # 0 => space[s].pdir # None)
      BY <1>2 DEF SpaceInv
    <3> QED BY <2>2, <3>1, <1>3, <1>6
  <2> QED BY <2>1, <2>2
<1>8. \A e \in DOMAIN w.pdir : \E s \in DOMAIN space2 : e = DirectoryPage(s) /\ space2[s].active # 0
  <2>1. \A e \in DOMAIN m.pdir : \E s \in DOMAIN space : e = DirectoryPage(s) /\ space[s].active # 0
    BY <1>2 DEF SpaceInv
  <2>2. \A s \in DOMAIN space : space[s].active # 0 => s \in DOMAIN space2 /\ space2[s].active # 0
    BY <1>0, <1>3
  <2> QED BY <1>0, <1>2, <1>3, <2>1, <2>2
<1>9. DOMAIN space2 \subseteq Object
  BY <1>0, <1>2 DEF SpaceInv
<1> QED BY <1>1, <1>3, <1>7, <1>8, <1>9 DEF SpaceInv

LEMMA SpaceActivated ==
  ASSUME NEW m, NEW w, NEW T, NEW S, NEW K, MemInv(m, T, S, K), NEW t \in DOMAIN T,
         T[t].utcb = None, NEW sp, sp = T[t].space, NEW loc \in Loc, m.space[sp].area \in Area,
         loc \in m.space[sp].area.utcb, TabMem(w), w.objs = m.objs, w.partials = m.partials,
         w.table = m.table, w.mapping = m.mapping, w.cr3 = m.cr3, w.currentSpace = m.currentSpace,
         w.stale = m.stale, w.space = Activated(m.space, sp),
         NEW d, d = DirectoryPage(sp), Kept(m, w, {<<d, loc>>}),
         \A e \in DOMAIN w.pdir : e = d \/ e \in DOMAIN m.pdir,
         d \in DOMAIN w.pdir, \A l \in m.space[sp].area.utcb : ~Foreign(w.pdir, w.ptab, d, l),
         UtcbPage(d, loc) \in UtcbsIn(w.ptab), NEW T2, T2 = With(T, t, [space |-> sp, utcb |-> UtcbPage(d, loc)])
  PROVE  MemInv(w, T2, S, K)
<1>1. /\ TabInv(m.pdir, m.ptab) /\ Apart(m, K) /\ SpaceInv(m.space, m.pdir, m.ptab)
      /\ ThreadInv(m.space, T) /\ UtcbInv(m.ptab, T) /\ MapInv(m.mapping, m.space)
      /\ LoadInv(m.space, m.cr3, m.currentSpace, m.stale)
  BY MemParts
<1>2. PICK space, space2 : space = m.space /\ space2 = w.space
  OBVIOUS
<1>3. sp \in DOMAIN space
  BY <1>1, <1>2, ThreadFacts
<1>4. SpaceInv(space, m.pdir, m.ptab) /\ space2 = Activated(space, sp)
  BY <1>1, <1>2
<1>0. DOMAIN space2 = DOMAIN space
  BY <1>4, ActivatedDomain
<1>5. /\ (\A s \in DOMAIN space : /\ space2[s].area = space[s].area /\ space2[s].count = space[s].count
                                  /\ (s # sp => space2[s] = space[s]))
      /\ space2[sp].active = space[sp].active + 1
  <2>1. space \in [DOMAIN space -> SpaceSet] /\ DOMAIN space \subseteq Object
    BY <1>4 DEF SpaceInv
  <2> QED BY ONLY <1>3, <1>4, <2>1, ActivatedFacts, Zenon
<1>6. SpaceInv(w.space, w.pdir, w.ptab)
  BY <1>1, <1>2, <1>3, SpacesActivated
<1>7. PICK u : u = UtcbPage(d, loc)
  OBVIOUS
<1>8. u \in Utcbs
  <2>1. sp \in Object
    BY <1>3, <1>4 DEF SpaceInv
  <2> QED BY <2>1, <1>7, PageNames
<1>9. ThreadInv(space2, T2)
  <2>1. \E l \in space[sp].area.utcb : u = UtcbPage(DirectoryPage(sp), l)
    BY <1>2, <1>7
  <2>2. \A s \in DOMAIN space : /\ space2[s].area = space[s].area /\ space2[s].count = space[s].count
                                /\ (s # sp => space2[s].active = space[s].active)
    BY <1>5
  <2>3. ThreadInv(space, T) /\ T2 = With(T, t, [space |-> sp, utcb |-> u])
    BY <1>1, <1>2, <1>7
  <2>4. /\ T[t].utcb = None /\ sp = T[t].space /\ space2[sp].active = space[sp].active + 1
        /\ DOMAIN space2 = DOMAIN space
    BY <1>0, <1>5
  <2> QED BY ONLY <2>4, <1>8, <2>1, <2>2, <2>3, t \in DOMAIN T, ThreadActivated
<1>10. MapInv(m.mapping, space2)
  BY <1>1, <1>2, <1>3, <1>4, MapsActivated
<1>11. LoadInv(space2, m.cr3, m.currentSpace, m.stale)
  BY <1>1, <1>2, <1>3, <1>4, LoadActivated
<1>12. Objects(w, K) = Objects(m, K) /\ Apart(w, K)
  BY <1>0, <1>1, <1>2 DEF Objects, Apart
<1>13. /\ ThreadInv(w.space, T2) /\ MapInv(w.mapping, w.space)
       /\ LoadInv(w.space, w.cr3, w.currentSpace, w.stale)
  BY <1>2, <1>9, <1>10, <1>11
<1>14. UtcbInv(w.ptab, T2)
  <2>1. PICK e : e = [space |-> sp, utcb |-> u]
    OBVIOUS
  <2>2. T2 = With(T, t, e)
    BY <1>7, <2>1
  <2>3. DOMAIN T2 = (DOMAIN T) \cup {t}
    BY <2>2, WithDomain, Zenon
  <2>4. T2[t].utcb = u /\ \A y \in DOMAIN T : y # t => T2[y] = T[y]
    BY <2>1, <2>2, WithFacts
  <2> SUFFICES ASSUME NEW y \in DOMAIN T, y # t, T[y].utcb # None
               PROVE  T[y].utcb \in UtcbsIn(w.ptab)
    BY <1>7, <2>3, <2>4 DEF UtcbInv
  <2>5. PICK s, l : T[y].utcb = UtcbPage(DirectoryPage(s), l)
    BY <1>1 DEF ThreadInv
  <2>6. CASE <<DirectoryPage(s), l>> = <<d, loc>>
    BY <2>5, <2>6
  <2>7. CASE <<DirectoryPage(s), l>> # <<d, loc>>
    <3>1. T[y].utcb \in UtcbsIn(m.ptab)
      BY <1>1 DEF UtcbInv
    <3> QED BY <2>5, <2>7, <3>1 DEF Kept
  <2> QED BY <2>6, <2>7
<1> QED BY <1>6, <1>12, <1>13, <1>14, TablesChanged

LEMMA AreaKinds ==
  ASSUME NEW a \in Areas \cup {PrivArea}
  PROVE  /\ a \in Area /\ a.utcb \subseteq Loc /\ a.kip \in Loc /\ a.kip \notin a.utcb
         /\ Aligned(a.utcb)
<1>1. a \in Area /\ a.kip \notin a.utcb /\ Aligned(a.utcb)
  BY SpacesAssumption
<1> QED BY <1>1 DEF Area

\* A thread of space sp with directory d is activated, but for its utcb.
Entered(m, sp, d) == [m EXCEPT !.space[sp].active = @ + 1, !.space[sp].pdir = d,
                               !.space[sp].loaded = FALSE]

LEMMA SpaceEntered ==
  ASSUME NEW m, Shape(m), NEW sp \in DOMAIN m.space, m.space \in [DOMAIN m.space -> SpaceSet],
         NEW d, d = DirectoryPage(sp),
         NEW w, w = Entered(m, sp, d)
  PROVE  /\ Shape(w) /\ w.space = Activated(m.space, sp) /\ w.used = m.used /\ w.num = m.num
         /\ w.objs = m.objs /\ w.partials = m.partials /\ w.mapping = m.mapping
         /\ w.pdir = m.pdir /\ w.ptab = m.ptab /\ w.table = m.table /\ w.cr3 = m.cr3
         /\ w.currentSpace = m.currentSpace /\ w.stale = m.stale
<1>1. w = [m EXCEPT !.space = Activated(m.space, sp)]
  BY Zenon DEF Shape, Activated, Entered
<1> QED BY <1>1 DEF Shape

\* The utcb area of a space is clear still, when a page of utcbs is put there.
LEMMA StaysClear ==
  ASSUME NEW m, NEW w, NEW d \in DOMAIN m.pdir, NEW loc \in Loc, Kept(m, w, {<<d, loc>>}),
         NEW U \in SUBSET Loc, \A l \in U : ~Foreign(m.pdir, m.ptab, d, l),
         NEW u \in Utcbs, PageAt(w, d, loc) = u
  PROVE  \A l \in U : ~Foreign(w.pdir, w.ptab, d, l)
<1> SUFFICES ASSUME NEW l \in U PROVE ~Foreign(w.pdir, w.ptab, d, l)
  OBVIOUS
<1>1. CASE l = loc
  <2>1. u # Kip /\ u # User
    BY NotNames
  <2>2. w.ptab[w.pdir[d][l[1]]][l[2]] = u
    BY <1>1 DEF PageAt
  <2> QED BY <2>1, <2>2 DEF Foreign
<1>2. CASE l # loc
  <2>1. PICK X : X = {<<d, loc>>}
    OBVIOUS
  <2>2. <<d, l>> \notin X
    BY <1>2, <2>1
  <2>3. Kept(m, w, X) /\ l \in Loc
    BY <2>1
  <2> QED BY <2>2, <2>3 DEF Kept
<1> QED BY <1>1, <1>2

LEMMA AllocUtcb ==
  ASSUME NEW m, NEW T, NEW S, NEW K, MemInv(m, T, S, K), NEW t \in DOMAIN T,
         T[t].utcb = None, NEW sp, sp = T[t].space, m.space[sp].area # None,
         NEW loc \in m.space[sp].area.utcb, NEW d, d = DirectoryPage(sp),
         NEW w, w = allocUtcb4(m, sp, loc)
  PROVE  /\ MemInv(w, With(T, t, [space |-> sp, utcb |-> UtcbPage(d, loc)]), S, K)
         /\ UtcbAt(w, sp, loc) = UtcbPage(d, loc) /\ w.space = Activated(m.space, sp)
         /\ w.currentSpace = m.currentSpace /\ w.cr3 = m.cr3 /\ w.stale = m.stale
         /\ w.num \in Int /\ w.num >= m.num - 4
<1>1. /\ Shape(m) /\ UsedInv(m) /\ TabInv(m.pdir, m.ptab) /\ Apart(m, K)
      /\ SpaceInv(m.space, m.pdir, m.ptab) /\ ThreadInv(m.space, T)
  BY MemParts
<1>2. sp \in DOMAIN m.space
  BY <1>1, ThreadFacts
<1>3. m.space \in [DOMAIN m.space -> SpaceSet] /\ sp \in Object
      /\ m.space[sp].area \in Areas \cup {PrivArea}
  <2>1. m.space \in [DOMAIN m.space -> SpaceSet] /\ sp \in Object
    BY <1>1, <1>2 DEF SpaceInv
  <2>2. m.space[sp].area \in Areas \cup {PrivArea, None}
    BY <2>1, <1>2 DEF SpaceSet
  <2> QED BY <2>1, <2>2
<1>4. PICK area : area = m.space[sp].area
  OBVIOUS
<1>5. /\ loc \in Loc /\ loc \in area.utcb /\ area \in Area /\ area.utcb \in SUBSET Loc
      /\ area.kip \in Loc /\ area.kip \notin area.utcb
  <2>1. area \in Areas \cup {PrivArea} /\ loc \in area.utcb
    BY <1>3, <1>4
  <2> QED BY <2>1, AreaKinds
<1>6. PICK u : u = UtcbPage(d, loc)
  OBVIOUS
<1>7. PICK k \in Int : k = m.num
  BY <1>1 DEF UsedInv
<1>8. TabMem(m)
  BY <1>1 DEF TabMem
<1>9. d \in Directories
  BY <1>3, PageNames
<1>10. ASSUME NEW a, TabMem(a), SameButTables(m, a),
              NEW b, b = Entered(a, sp, d)
       PROVE  /\ TabMem(b) /\ b.space = Activated(m.space, sp) /\ b.num = a.num
              /\ b.objs = m.objs /\ b.partials = m.partials /\ b.mapping = m.mapping
              /\ b.pdir = a.pdir /\ b.ptab = a.ptab /\ b.table = m.table /\ b.cr3 = m.cr3
              /\ b.currentSpace = m.currentSpace /\ b.stale = m.stale
  <2>1. /\ a.objs = m.objs /\ a.partials = m.partials /\ a.space = m.space /\ a.mapping = m.mapping
        /\ a.table = m.table /\ a.cr3 = m.cr3 /\ a.currentSpace = m.currentSpace
        /\ a.stale = m.stale
    BY <1>10 DEF SameButTables
  <2>2. Shape(a) /\ sp \in DOMAIN a.space /\ a.space \in [DOMAIN a.space -> SpaceSet]
    BY <1>2, <1>3, <1>10, <2>1 DEF TabMem
  <2>3. /\ Shape(b) /\ b.space = Activated(a.space, sp) /\ b.used = a.used /\ b.num = a.num
        /\ b.objs = a.objs /\ b.partials = a.partials /\ b.mapping = a.mapping
        /\ b.pdir = a.pdir /\ b.ptab = a.ptab /\ b.table = a.table /\ b.cr3 = a.cr3
        /\ b.currentSpace = a.currentSpace /\ b.stale = a.stale
    BY <1>10, <2>2, SpaceEntered
  <2>4. TabMem(b)
    BY <1>10, <2>3, TabMemSame
  <2> QED BY <2>1, <2>3, <2>4
<1>11. ASSUME NEW X, X = {<<d, loc>>}, TabMem(w), w.objs = m.objs, w.partials = m.partials,
              w.table = m.table, w.mapping = m.mapping, w.cr3 = m.cr3,
              w.currentSpace = m.currentSpace, w.stale = m.stale,
              w.space = Activated(m.space, sp), Kept(m, w, X),
              \A e \in DOMAIN w.pdir : e = d \/ e \in DOMAIN m.pdir,
              d \in DOMAIN w.pdir, w.pdir[d][loc[1]] # None, PageAt(w, d, loc) = u,
              \A l \in area.utcb : ~Foreign(w.pdir, w.ptab, d, l), u \in UtcbsIn(w.ptab),
              w.num >= k - 4
       PROVE  /\ MemInv(w, With(T, t, [space |-> sp, utcb |-> UtcbPage(d, loc)]), S, K)
              /\ UtcbAt(w, sp, loc) = UtcbPage(d, loc) /\ w.space = Activated(m.space, sp)
              /\ w.currentSpace = m.currentSpace /\ w.cr3 = m.cr3 /\ w.stale = m.stale
              /\ w.num \in Int /\ w.num >= m.num - 4
  <2>1. MemInv(w, With(T, t, [space |-> sp, utcb |-> UtcbPage(d, loc)]), S, K)
    <3>1. m.space[sp].area \in Area /\ loc \in m.space[sp].area.utcb
      BY <1>4, <1>5
    <3>2. Kept(m, w, {<<d, loc>>}) /\ UtcbPage(d, loc) \in UtcbsIn(w.ptab)
      BY <1>6, <1>11
    <3>3. \A l \in m.space[sp].area.utcb : ~Foreign(w.pdir, w.ptab, d, l)
      BY <1>4, <1>11
    <3> QED BY <1>5, <1>11, <3>1, <3>2, <3>3, SpaceActivated
  <2>2. w.space[sp].pdir = d
    <3>1. m.space \in [DOMAIN m.space -> SpaceSet] /\ DOMAIN m.space \subseteq Object
      BY <1>1 DEF SpaceInv
    <3>2. PICK space : space = m.space
      OBVIOUS
    <3>3. Activated(space, sp)[sp].pdir = DirectoryPage(sp)
      BY <1>2, <3>1, <3>2, ActivatedFacts, Zenon
    <3> QED BY <1>11, <3>2, <3>3
  <2>3. UtcbAt(w, sp, loc) = UtcbPage(d, loc)
    BY <1>6, <1>11, <2>2 DEF UtcbAt
  <2>4. w.num \in Int
    BY <1>11 DEF TabMem, UsedInv
  <2> QED BY <1>7, <1>11, <2>1, <2>3, <2>4
<1>12. CASE m.space[sp].active = 0
  <2>1. d \notin DOMAIN m.pdir
    BY <1>1, <1>12, NoDirectory
  <2>2. PICK a : a = allocPdir2(m, sp, area.kip)
    OBVIOUS
  <2>3. /\ TabMem(a) /\ SameButTables(m, a) /\ OthersKept(m, a, d) /\ a.num = m.num - 2
        /\ d \in DOMAIN a.pdir /\ (\A e \in DOMAIN a.pdir : e = d \/ e \in DOMAIN m.pdir)
        /\ a.pdir[d] = OneTable(area.kip[1], TablePage(d, area.kip[1]))
        /\ a.ptab[TablePage(d, area.kip[1])] = OnlyKip(area.kip[2])
        /\ UtcbsIn(a.ptab) = UtcbsIn(m.ptab)
    BY <1>3, <1>5, <1>8, <2>1, <2>2, NewDirectory
  <2>4. Kept(m, a, {})
    BY <2>1, <2>3, KeptTables
  <2>5. PICK b : b = Entered(a, sp, d)
    OBVIOUS
  <2>6. /\ TabMem(b) /\ b.space = Activated(m.space, sp) /\ b.num = a.num
        /\ b.objs = m.objs /\ b.partials = m.partials /\ b.mapping = m.mapping
        /\ b.pdir = a.pdir /\ b.ptab = a.ptab /\ b.table = m.table /\ b.cr3 = m.cr3
        /\ b.currentSpace = m.currentSpace /\ b.stale = m.stale
    BY <1>10, <2>3, <2>5
  <2>7. w = allocUtcbPage2(b, d, loc)
    BY <1>4, <1>12, <2>2, <2>5, Zenon DEF allocUtcb4, Entered
  <2>8. u \notin UtcbsIn(b.ptab)
    BY <1>1, <1>6, <2>1, <2>3, <2>6, UtcbOwner
  <2>9. b.pdir[d][loc[1]] # None => PageAt(b, d, loc) = None
    <3>1. PICK i \in Super, n \in PageNo : i = loc[1] /\ n = loc[2] /\ loc = <<i, n>>
      BY <1>5 DEF Loc
    <3>2. PICK j \in Super, h \in PageNo : j = area.kip[1] /\ h = area.kip[2] /\ area.kip = <<j, h>>
      BY <1>5 DEF Loc
    <3>3. SUFFICES ASSUME b.pdir[d][i] # None
                   PROVE  b.ptab[b.pdir[d][i]][n] = None
      BY <3>1 DEF PageAt
    <3>4. b.pdir[d] = OneTable(j, TablePage(d, j)) /\ b.ptab[TablePage(d, j)] = OnlyKip(h)
      BY <2>3, <2>6, <3>2
    <3>5. i = j /\ b.pdir[d][i] = TablePage(d, j)
      BY <3>3, <3>4 DEF OneTable
    <3>6. n # h
      BY <1>5, <3>1, <3>2, <3>5
    <3> QED BY <3>4, <3>5, <3>6 DEF OnlyKip
  <2>15. \A l \in area.utcb : ~Foreign(b.pdir, b.ptab, d, l)
    <3> SUFFICES ASSUME NEW l \in area.utcb, Foreign(b.pdir, b.ptab, d, l) PROVE FALSE
      OBVIOUS
    <3>1. PICK i \in Super, n \in PageNo : i = l[1] /\ n = l[2] /\ l = <<i, n>>
      BY <1>5 DEF Loc
    <3>2. PICK j \in Super, h \in PageNo : j = area.kip[1] /\ h = area.kip[2] /\ area.kip = <<j, h>>
      BY <1>5 DEF Loc
    <3>3. b.pdir[d][i] # None /\ b.ptab[b.pdir[d][i]][n] \in {Kip, User}
      BY <3>1 DEF Foreign
    <3>4. b.pdir[d] = OneTable(j, TablePage(d, j)) /\ b.ptab[TablePage(d, j)] = OnlyKip(h)
      BY <2>3, <2>6, <3>2
    <3>5. i = j /\ b.pdir[d][i] = TablePage(d, j)
      BY <3>3, <3>4 DEF OneTable
    <3>6. n # h
      BY <1>5, <3>1, <3>2, <3>5
    <3>7. b.ptab[b.pdir[d][i]][n] = None
      BY <3>4, <3>5, <3>6 DEF OnlyKip
    <3> QED BY <3>3, <3>7, SpacesAssumption
  <2>10. /\ TabMem(w) /\ SameButTables(b, w) /\ Kept(b, w, {<<d, loc>>}) /\ PageAt(w, d, loc) = u
         /\ w.pdir[d][loc[1]] # None /\ w.num \in {b.num - 1, (b.num - 1) - 1}
         /\ DOMAIN w.pdir = DOMAIN b.pdir /\ u \in UtcbsIn(w.ptab) /\ u \in Utcbs
    <3>1. d \in DOMAIN b.pdir /\ TabMem(b) /\ loc \in Loc
      BY <1>5, <2>3, <2>6
    <3> QED BY ONLY <1>6, <2>7, <2>8, <2>9, <3>1, UtcbPageTaken
  <2>16. \A l \in area.utcb : ~Foreign(w.pdir, w.ptab, d, l)
    <3>1. d \in DOMAIN b.pdir
      BY <2>3, <2>6
    <3> QED BY <1>5, <2>10, <2>15, <3>1, StaysClear
  <2>11. Kept(m, w, {<<d, loc>>})
    <3>1. PICK X : X = {<<d, loc>>}
      BY Zenon
    <3>2. Kept(b, w, X) /\ b.pdir = a.pdir /\ b.ptab = a.ptab
      BY <2>6, <2>10, <3>1
    <3>3. Kept(a, w, X)
      BY ONLY <3>2 DEF Kept
    <3>4. Kept(a, w, {<<d, loc>>})
      BY <3>1, <3>3
    <3>5. Kept(m, w, {} \cup {<<d, loc>>})
      BY <2>4, <3>4, KeptBoth
    <3>6. {} \cup {<<d, loc>>} = {<<d, loc>>}
      OBVIOUS
    <3> QED BY <3>5, <3>6
  <2>12. /\ w.objs = m.objs /\ w.partials = m.partials /\ w.table = m.table
         /\ w.mapping = m.mapping /\ w.cr3 = m.cr3 /\ w.currentSpace = m.currentSpace
         /\ w.stale = m.stale /\ w.space = Activated(m.space, sp)
    BY <2>6, <2>10 DEF SameButTables
  <2>13. d \in DOMAIN w.pdir /\ \A e \in DOMAIN w.pdir : e = d \/ e \in DOMAIN m.pdir
    BY <2>3, <2>6, <2>10
  <2>14. w.num >= k - 4
    <3>1. b.num = k - 2
      BY <1>7, <2>3, <2>6
    <3> QED BY <2>10, <3>1
  <2> QED BY <1>11, <2>10, <2>11, <2>12, <2>13, <2>14, <2>16
<1>13. CASE m.space[sp].active # 0
  <2>1. /\ m.space[sp].pdir = d /\ d \in DOMAIN m.pdir /\ HasUtcb(m.pdir, m.ptab, sp, area)
    BY <1>1, <1>2, <1>4, <1>13, AreaFacts
  <2>2. \A l \in area.utcb : ~Foreign(m.pdir, m.ptab, d, l)
    BY <1>3, <2>1, PageNames DEF HasUtcb
  <2>3. PICK b : b = Entered(m, sp, d)
    OBVIOUS
  <2>4. /\ TabMem(b) /\ b.space = Activated(m.space, sp) /\ b.num = m.num
        /\ b.objs = m.objs /\ b.partials = m.partials /\ b.mapping = m.mapping
        /\ b.pdir = m.pdir /\ b.ptab = m.ptab /\ b.table = m.table /\ b.cr3 = m.cr3
        /\ b.currentSpace = m.currentSpace /\ b.stale = m.stale
    <3>1. SameButTables(m, m)
      BY SameKept
    <3> QED BY <1>8, <1>10, <2>3, <3>1
  <2>5. w = allocUtcbPage2(b, d, loc)
    BY <1>13, <2>1, <2>3, Zenon DEF allocUtcb4, Entered
  <2>6. u \in Utcbs /\ u # None
    <3>1. u \in Utcbs
      BY <1>5, <1>6, <1>9, PageNames
    <3> QED BY <3>1, NotNames
  <2>7. CASE u \in UtcbsIn(m.ptab)
    <3>1. m.pdir[d][loc[1]] # None /\ PageAt(m, d, loc) = u
      BY <1>1, <1>6, <2>7, UtcbOwner DEF PageAt
    <3>2. w = b
      <4>1. WithTable(b, d, loc[1]) = b
        BY <2>4, <3>1 DEF WithTable
      <4>2. PageAt(b, d, loc) # None
        BY <2>4, <2>6, <3>1 DEF PageAt
      <4> QED BY <2>5, <4>1, <4>2 DEF allocUtcbPage2
    <3>3. Kept(m, w, {<<d, loc>>})
      BY <2>4, <3>2 DEF Kept
    <3>4. w.pdir[d][loc[1]] # None /\ PageAt(w, d, loc) = u
      BY <2>4, <3>1, <3>2 DEF PageAt
    <3>5. w.num >= k - 4
      BY <1>7, <2>4, <3>2
    <3>6. d \in DOMAIN w.pdir /\ \A e \in DOMAIN w.pdir : e = d \/ e \in DOMAIN m.pdir
      BY <2>1, <2>4, <3>2
    <3>7. (\A l \in area.utcb : ~Foreign(w.pdir, w.ptab, d, l)) /\ u \in UtcbsIn(w.ptab)
      BY <2>2, <2>4, <2>7, <3>2
    <3> QED BY <1>11, <2>4, <3>2, <3>3, <3>4, <3>5, <3>6, <3>7
  <2>8. CASE u \notin UtcbsIn(m.ptab)
    <3>1. m.pdir[d][loc[1]] # None => PageAt(m, d, loc) = None
      <4>1. SUFFICES ASSUME m.pdir[d][loc[1]] # None PROVE PageAt(m, d, loc) = None
        OBVIOUS
      <4>2. PICK i \in Super, n \in PageNo : i = loc[1] /\ n = loc[2] /\ loc = <<i, n>>
        BY <1>5 DEF Loc
      <4>3. m.pdir[d][i] \in DOMAIN m.ptab /\ m.ptab[m.pdir[d][i]][n] \in {None, Kip, User, u}
        <5>1. TabInv(m.pdir, m.ptab) /\ d \in DOMAIN m.pdir /\ i \in Super /\ n \in PageNo
          BY <1>1, <2>1, <4>2
        <5>2. m.pdir[d][i] # None /\ u = UtcbPage(d, <<i, n>>)
          BY ONLY <1>6, <4>1, <4>2
        <5> QED BY ONLY <5>1, <5>2 DEF TabInv
      <4>4. m.ptab[m.pdir[d][i]][n] # u
        BY <2>6, <2>8, <4>2, <4>3 DEF UtcbsIn
      <4>5. m.ptab[m.pdir[d][i]][n] \notin {Kip, User}
        BY <1>5, <2>2, <4>1, <4>2 DEF Foreign
      <4> QED BY <4>2, <4>3, <4>4, <4>5 DEF PageAt
    <3>2. b.pdir[d][loc[1]] # None => PageAt(b, d, loc) = None
      BY <2>4, <3>1 DEF PageAt
    <3>3. u \notin UtcbsIn(b.ptab) /\ d \in DOMAIN b.pdir
      BY <2>1, <2>4, <2>8
    <3>4. /\ TabMem(w) /\ SameButTables(b, w) /\ Kept(b, w, {<<d, loc>>}) /\ PageAt(w, d, loc) = u
          /\ w.pdir[d][loc[1]] # None /\ w.num \in {b.num - 1, (b.num - 1) - 1}
          /\ DOMAIN w.pdir = DOMAIN b.pdir /\ u \in UtcbsIn(w.ptab)
      BY ONLY <1>5, <1>6, <2>4, <2>5, <3>2, <3>3, UtcbPageTaken
    <3>5. Kept(m, w, {<<d, loc>>})
      <4>1. PICK X : X = {<<d, loc>>}
        BY Zenon
      <4>2. Kept(b, w, X) /\ b.pdir = m.pdir /\ b.ptab = m.ptab
        BY <2>4, <3>4, <4>1
      <4>3. Kept(m, w, X)
        BY ONLY <4>2 DEF Kept
      <4> QED BY <4>1, <4>3
    <3>6. \A l \in area.utcb : ~Foreign(w.pdir, w.ptab, d, l)
      <4>1. PICK U : U = area.utcb
        OBVIOUS
      <4>2. U \in SUBSET Loc /\ (\A l \in U : ~Foreign(m.pdir, m.ptab, d, l)) /\ d \in DOMAIN m.pdir
        BY <1>5, <2>1, <2>2, <4>1
      <4>3. loc \in Loc /\ u \in Utcbs /\ PageAt(w, d, loc) = u
        BY <1>5, <2>6, <3>4
      <4>4. \A l \in U : ~Foreign(w.pdir, w.ptab, d, l)
        BY ONLY <3>5, <4>2, <4>3, StaysClear
      <4> QED BY <4>1, <4>4
    <3>7. /\ w.objs = m.objs /\ w.partials = m.partials /\ w.table = m.table
          /\ w.mapping = m.mapping /\ w.cr3 = m.cr3 /\ w.currentSpace = m.currentSpace
          /\ w.stale = m.stale /\ w.space = Activated(m.space, sp)
      BY <2>4, <3>4 DEF SameButTables
    <3>8. d \in DOMAIN w.pdir /\ \A e \in DOMAIN w.pdir : e = d \/ e \in DOMAIN m.pdir
      BY <2>1, <2>4, <3>4
    <3>9. w.num >= k - 4
      BY <1>7, <2>4, <3>4
    <3> QED BY <1>11, <3>4, <3>5, <3>6, <3>7, <3>8, <3>9
  <2> QED BY <2>7, <2>8
<1> QED BY <1>12, <1>13

\* A superpage that is not the first of an area, and not all in it, has nothing of it.
LEMMA NotOfArea ==
  ASSUME NEW U \in SUBSET Loc, Aligned(U), NEW i \in Super, NEW n \in PageNo, <<i, n>> \notin U,
         FirstSuper(U) # i, NEW l \in U
  PROVE  l[1] # i
<1> SUFFICES ASSUME l[1] = i PROVE FALSE
  OBVIOUS
<1>1. ASSUME NEW k \in U PROVE k[1] = i
  <2> SUFFICES ASSUME k[1] # i PROVE FALSE
    OBVIOUS
  <2>1. <<l[1], n>> \in U
    BY DEF Aligned
  <2> QED BY <2>1
<1>2. i \in Nat
  BY SpacesAssumption
<1>3. \A j \in Super : ((\E k \in U : k[1] = j) /\ \A k \in U : j <= k[1]) <=> j = i
  BY <1>1, <1>2
<1>4. FirstSuper(U) = i
  BY <1>3 DEF FirstSuper
<1> QED BY <1>4

\* A page table without pages of utcbs is freed.
LEMMA TableFreed ==
  ASSUME NEW m, NEW w, TabMem(m), NEW d \in DOMAIN m.pdir, NEW i \in Super,
         NEW p, p = m.pdir[d][i], p # None, \A n \in PageNo : m.ptab[p][n] \notin Utcbs,
         Shape(w), w.used = m.used \ {p}, w.num = m.num + 1, w.objs = m.objs, w.table = m.table,
         w.ptab = Dropped(m.ptab, p), w.pdir = SetEntry(m.pdir, d, i, None),
         NEW X, \A n \in PageNo : <<d, <<i, n>>>> \in X
  PROVE  /\ TabMem(w) /\ Kept(m, w, X) /\ UtcbsIn(w.ptab) = UtcbsIn(m.ptab)
         /\ \A e \in DOMAIN w.pdir : e \in DOMAIN m.pdir
<1>1. UsedInv(m) /\ TabInv(m.pdir, m.ptab)
  BY DEF TabMem
<1>2. PICK pdir, ptab, pdir2, ptab2 : pdir = m.pdir /\ ptab = m.ptab /\ pdir2 = w.pdir /\ ptab2 = w.ptab
  OBVIOUS
<1>3. /\ TabInv(pdir, ptab) /\ d \in DOMAIN pdir /\ p = pdir[d][i] /\ p # None
      /\ (\A n \in PageNo : ptab[p][n] \notin Utcbs) /\ pdir2 = SetEntry(pdir, d, i, None)
      /\ ptab2 = Dropped(ptab, p)
  BY <1>1, <1>2
<1>4. p \in Tables /\ p \in DOMAIN ptab /\ TabInv(pdir2, ptab2) /\ UtcbsIn(ptab2) = UtcbsIn(ptab)
  BY ONLY <1>3, TableRemoved, i \in Super
<1>5. \A e \in DOMAIN pdir : pdir[e] \in [Super -> Tables \cup {None}]
  BY <1>3 DEF TabInv
<1>6. DOMAIN pdir2 = DOMAIN pdir /\ \A e \in DOMAIN pdir : e # d => pdir2[e] = pdir[e]
  BY <1>3, <1>5 DEF SetEntry
<1>7. \A j \in Super : j # i => pdir2[d][j] = pdir[d][j]
  BY <1>3, <1>5 DEF SetEntry
<1>8. DOMAIN ptab2 = (DOMAIN ptab) \ {p}
  BY <1>3, DroppedDomain, Zenon
<1>9. \A q \in DOMAIN ptab : q # p => ptab2[q] = ptab[q]
  BY <1>3, DroppedFacts
<1>10. \A e \in DOMAIN pdir, j \in Super : pdir[e][j] # None => pdir[e][j] = TablePage(e, j)
                                                              /\ pdir[e][j] \in DOMAIN ptab
  BY <1>3, TableFacts
<1>11. Kept(m, w, X)
  <2>1. \A e \in DOMAIN pdir, l \in Loc : <<e, l>> \notin X =>
          /\ e \in DOMAIN pdir2
          /\ Foreign(pdir2, ptab2, e, l) => Foreign(pdir, ptab, e, l)
    <3> SUFFICES ASSUME NEW e \in DOMAIN pdir, NEW l \in Loc, <<e, l>> \notin X,
                        Foreign(pdir2, ptab2, e, l)
                 PROVE  Foreign(pdir, ptab, e, l)
      BY <1>6
    <3>1. PICK j \in Super, h \in PageNo : j = l[1] /\ h = l[2] /\ l = <<j, h>>
      BY DEF Loc
    <3>2. ~(e = d /\ j = i)
      BY <3>1
    <3>3. pdir2[e][j] = pdir[e][j] /\ pdir2[e][j] # None
      BY <1>6, <1>7, <3>1, <3>2 DEF Foreign
    <3>4. pdir[e][j] = TablePage(e, j) /\ pdir[e][j] \in DOMAIN ptab /\ p = TablePage(d, i)
      BY <1>3, <1>10, <3>3
    <3>5. pdir[e][j] # p
      BY <3>2, <3>4 DEF TablePage
    <3>6. ptab2[pdir2[e][j]] = ptab[pdir[e][j]]
      BY <1>9, <3>3, <3>4, <3>5
    <3> QED BY <3>1, <3>3, <3>6 DEF Foreign
  <2> QED BY <1>2, <1>4, <2>1, Zenon DEF Kept
<1>12. InUse(w) = InUse(m) \ {p}
  <2>1. \A x : x \in InUse(w) <=> x \in InUse(m) /\ x # p
    <3>1. w.objs = m.objs /\ w.table = m.table
      OBVIOUS
    <3>2. DOMAIN w.pdir = DOMAIN m.pdir /\ UtcbsIn(w.ptab) = UtcbsIn(m.ptab)
      BY <1>2, <1>4, <1>6
    <3>3. \A x : x \in DOMAIN w.ptab <=> x \in DOMAIN m.ptab /\ x # p
      BY <1>2, <1>8
    <3>4. (\A k : p # ObjectPage(k)) /\ (\A k : p # TCBPage(k))
      BY <1>4 DEF Tables, ObjectPage, TCBPage
    <3>5. p \notin DOMAIN m.pdir /\ p \notin UtcbsIn(m.ptab)
      <4>1. DOMAIN m.pdir \subseteq Directories
        BY <1>1, TableNames
      <4>2. p \notin Directories /\ p \notin Utcbs
        BY <1>4 DEF Tables, Directories, Utcbs
      <4> QED BY <4>1, <4>2 DEF UtcbsIn
    <3> QED BY <3>1, <3>2, <3>3, <3>4, <3>5, InUseMember
  <2> QED BY <2>1
<1>13. p \in InUse(m)
  BY <1>2, <1>4, InUseMember
<1>14. UsedInv(w)
  BY <1>1, <1>12, <1>13, PageFreed
<1>15. TabMem(w)
  BY <1>2, <1>4, <1>14 DEF TabMem
<1> QED BY <1>2, <1>4, <1>6, <1>11, <1>15

\* A translation is taken out of the directory of a space, not for its utcbs.
LEMMA UnmapFpage ==
  ASSUME NEW m, NEW T, NEW S, NEW K, MemInv(m, T, S, K), NEW sp \in DOMAIN m.space,
         m.space[sp].active # 0, NEW loc \in Loc, loc \notin m.space[sp].area.utcb,
         NEW w, w = unmapFpage(m, sp, loc)
  PROVE  /\ MemInv(w, T, S, K) /\ w.num \in {m.num, m.num + 1} /\ w.mapping = m.mapping
         /\ w.space = [m.space EXCEPT ![sp].loaded = FALSE] /\ w.currentSpace = m.currentSpace
<1>1. /\ Shape(m) /\ UsedInv(m) /\ TabInv(m.pdir, m.ptab) /\ SpaceInv(m.space, m.pdir, m.ptab)
  BY MemParts
<1>2. PICK d, area : d = m.space[sp].pdir /\ area = m.space[sp].area
  OBVIOUS
<1>3. /\ d = DirectoryPage(sp) /\ d \in DOMAIN m.pdir /\ HasUtcb(m.pdir, m.ptab, sp, area)
      /\ area \in Areas \cup {PrivArea}
  BY <1>1, <1>2, AreaFacts
<1>4. PICK i \in Super, n \in PageNo : i = loc[1] /\ n = loc[2] /\ loc = <<i, n>>
  BY DEF Loc
<1>5. PICK p : p = m.pdir[d][i]
  OBVIOUS
<1>6. PICK c : c = [Changed(m, d) EXCEPT !.space[sp].loaded = FALSE]
  BY Zenon
<1>7. /\ c.used = m.used /\ c.num = m.num /\ c.objs = m.objs /\ c.partials = m.partials
      /\ c.table = m.table /\ c.mapping = m.mapping /\ c.cr3 = m.cr3
      /\ c.currentSpace = m.currentSpace /\ c.pdir = m.pdir /\ c.ptab = m.ptab
      /\ c.space = [m.space EXCEPT ![sp].loaded = FALSE]
      /\ c.stale = (m.stale \/ m.cr3 = d) /\ Shape(c)
  <2>1. c = [m EXCEPT !.stale = m.stale \/ m.cr3 = d,
                      !.space = [m.space EXCEPT ![sp].loaded = FALSE]]
    BY <1>1, <1>6 DEF Changed, Shape
  <2> QED BY <1>1, <2>1, Zenon DEF Shape
<1>8. ASSUME NEW X, Kept(m, w, X), \A e, l : <<e, l>> \in X => e = d /\ l \notin area.utcb,
             TabMem(w), w.objs = c.objs, w.partials = c.partials, w.table = c.table,
             w.mapping = c.mapping, w.space = c.space, w.cr3 = c.cr3,
             w.currentSpace = c.currentSpace, w.stale = c.stale,
             UtcbsIn(w.ptab) = UtcbsIn(m.ptab), \A e \in DOMAIN w.pdir : e \in DOMAIN m.pdir
      PROVE  /\ MemInv(w, T, S, K) /\ w.mapping = m.mapping
             /\ w.space = [m.space EXCEPT ![sp].loaded = FALSE] /\ w.currentSpace = m.currentSpace
  <2>1. /\ w.objs = m.objs /\ w.partials = m.partials /\ w.table = m.table
        /\ w.mapping = m.mapping /\ w.cr3 = m.cr3 /\ w.currentSpace = m.currentSpace
        /\ w.space = [m.space EXCEPT ![sp].loaded = FALSE]
    BY <1>7, <1>8
  <2>2. w.stale \in {m.stale, m.stale \/ m.cr3 = DirectoryPage(sp)}
    BY <1>3, <1>7, <1>8
  <2>3. \A e, l : <<e, l>> \in X => e = DirectoryPage(sp) /\ l \notin m.space[sp].area.utcb
    BY <1>2, <1>3, <1>8
  <2>4. \A l : UtcbPage(DirectoryPage(sp), l) \in UtcbsIn(w.ptab) =>
                 UtcbPage(DirectoryPage(sp), l) \in UtcbsIn(m.ptab)
    BY <1>8
  <2>5. MemInv(w, T, S, K)
    BY <1>8, <2>1, <2>2, <2>3, <2>4, SpaceTablesChanged
  <2> QED BY <2>1, <2>5
<1>9. TabMem(m)
  BY <1>1 DEF TabMem
<1>10. TabMem(c)
  BY <1>7, <1>9, TabMemSame
<1>11. CASE p = None
  <2>1. w = c
    BY <1>2, <1>4, <1>5, <1>6, <1>11, Zenon DEF unmapFpage
  <2>2. Kept(m, w, {})
    BY <1>7, <2>1 DEF Kept
  <2>3. PICK X : X = {}
    BY Zenon
  <2>4. \A e, l : <<e, l>> \in X => e = d /\ l \notin area.utcb
    BY <2>3
  <2>5. UtcbsIn(w.ptab) = UtcbsIn(m.ptab) /\ \A e \in DOMAIN w.pdir : e \in DOMAIN m.pdir
    BY <1>7, <2>1
  <2>6. Kept(m, w, X) /\ TabMem(w) /\ w.num = m.num
    BY <1>7, <1>10, <2>1, <2>2, <2>3
  <2> QED BY <1>8, <2>1, <2>4, <2>5, <2>6, Zenon
<1>12. PICK keep \in BOOLEAN : keep <=>
         \/ \E o \in DOMAIN m.mapping : m.mapping[o].space = sp /\ m.mapping[o].loc[1] = i
         \/ area.kip[1] = i \/ FirstSuper(area.utcb) = i
  BY Zenon
<1>13. CASE p # None /\ keep
  <2>1. w = [c EXCEPT !.ptab[p][n] = None]
    BY <1>2, <1>4, <1>5, <1>6, <1>12, <1>13, Zenon DEF unmapFpage
  <2>2. w = [c EXCEPT !.ptab = SetEntry(c.ptab, p, n, None)]
    BY <1>7, <2>1 DEF Shape, SetEntry
  <2>3. /\ w.used = c.used /\ w.num = c.num /\ w.objs = c.objs /\ w.partials = c.partials
        /\ w.table = c.table /\ w.mapping = c.mapping /\ w.cr3 = c.cr3
        /\ w.currentSpace = c.currentSpace /\ w.pdir = c.pdir
        /\ w.ptab = SetEntry(c.ptab, p, n, None) /\ w.space = c.space /\ w.stale = c.stale
        /\ Shape(w)
    BY <1>7, <2>2 DEF Shape
  <2>4. SameButTables(c, w)
    BY <2>3 DEF SameButTables
  <2>5. UtcbPage(d, loc) \notin UtcbsIn(c.ptab)
    BY <1>2, <1>3, <1>7 DEF HasUtcb
  <2>6. TabMem(w) /\ Kept(c, w, {<<d, loc>>}) /\ UtcbsIn(w.ptab) = UtcbsIn(c.ptab)
    <3>1. /\ d \in DOMAIN c.pdir /\ c.pdir[d][loc[1]] # None
          /\ w.ptab = SetEntry(c.ptab, c.pdir[d][loc[1]], loc[2], None)
          /\ None \in {None, Kip, User}
      BY <1>3, <1>4, <1>5, <1>7, <1>13, <2>3
    <3>2. w.used = c.used /\ w.num = c.num /\ w.pdir = c.pdir /\ Shape(w)
      BY <2>3
    <3> QED BY ONLY loc \in Loc, <1>10, <2>4, <2>5, <3>1, <3>2, EntryPut, Zenon
  <2>7. PICK X : X = {<<d, loc>>}
    BY Zenon
  <2>8. Kept(m, w, X)
    <3>1. Kept(c, w, X) /\ c.pdir = m.pdir /\ c.ptab = m.ptab
      BY <1>7, <2>6, <2>7
    <3> QED BY ONLY <3>1 DEF Kept
  <2>9. \A e, l : <<e, l>> \in X => e = d /\ l \notin area.utcb
    BY <1>2, <2>7
  <2>10. UtcbsIn(w.ptab) = UtcbsIn(m.ptab) /\ \A e \in DOMAIN w.pdir : e \in DOMAIN m.pdir
    BY <1>7, <2>3, <2>6
  <2>11. w.num = m.num
    BY <1>7, <2>3
  <2> QED BY <1>8, <2>3, <2>6, <2>8, <2>9, <2>10, <2>11, Zenon
<1>14. CASE p # None /\ ~keep
  <2>1. w = [freePage(c, p) EXCEPT !.ptab = Dropped(@, p), !.pdir[d][i] = None]
    BY <1>2, <1>4, <1>5, <1>6, <1>12, <1>14, Zenon DEF unmapFpage
  <2>2. w = [c EXCEPT !.used = c.used \ {p}, !.num = c.num + 1, !.ptab = Dropped(c.ptab, p),
                      !.pdir = SetEntry(c.pdir, d, i, None)]
    BY <1>7, <2>1, Zenon DEF Shape, SetEntry, freePage
  <2>3. /\ w.used = c.used \ {p} /\ w.num = c.num + 1 /\ w.objs = c.objs
        /\ w.partials = c.partials /\ w.table = c.table /\ w.mapping = c.mapping
        /\ w.cr3 = c.cr3 /\ w.currentSpace = c.currentSpace
        /\ w.pdir = SetEntry(c.pdir, d, i, None) /\ w.ptab = Dropped(c.ptab, p)
        /\ w.space = c.space /\ w.stale = c.stale /\ Shape(w)
    BY <1>7, <2>2, Zenon DEF Shape
  <2>4. PICK U : U = area.utcb
    OBVIOUS
  <2>5. \A l \in U : l[1] # i
    <3>1. U \in SUBSET Loc /\ Aligned(U)
      BY <1>3, <2>4, AreaKinds
    <3>2. <<i, n>> \notin U
      BY <1>2, <1>4, <2>4
    <3>3. FirstSuper(U) # i
      BY <1>12, <1>14, <2>4
    <3> QED BY ONLY i \in Super, n \in PageNo, <3>1, <3>2, <3>3, NotOfArea
  <2>6. \A k \in PageNo : c.ptab[p][k] \notin Utcbs
    <3> SUFFICES ASSUME NEW k \in PageNo, m.ptab[p][k] \in Utcbs
                 PROVE  FALSE
      BY <1>7
    <3>1. p = TablePage(d, i) /\ m.ptab[p][k] \in {None, Kip, User, UtcbPage(d, <<i, k>>)}
          /\ p \in DOMAIN m.ptab
      BY <1>1, <1>3, <1>5, <1>14, TableFacts
    <3>2. m.ptab[p][k] = UtcbPage(d, <<i, k>>)
      BY <3>1, NotNames
    <3>3. UtcbPage(d, <<i, k>>) \in UtcbsIn(m.ptab)
      BY <3>1, <3>2 DEF UtcbsIn
    <3>4. <<i, k>> \in Loc
      BY DEF Loc
    <3>5. <<i, k>> \in area.utcb
      BY <1>3, <3>3, <3>4 DEF HasUtcb
    <3> QED BY <2>4, <2>5, <3>5
  <2>7. PICK X : X = {<<d, <<i, k>>>> : k \in PageNo}
    BY Zenon
  <2>8. \A k \in PageNo : <<d, <<i, k>>>> \in X
    BY <2>7
  <2>9. /\ TabMem(w) /\ Kept(c, w, X) /\ UtcbsIn(w.ptab) = UtcbsIn(c.ptab)
        /\ \A e \in DOMAIN w.pdir : e \in DOMAIN c.pdir
    <3>1. d \in DOMAIN c.pdir /\ p = c.pdir[d][i] /\ p # None
      BY <1>3, <1>5, <1>7, <1>14
    <3>2. TabMem(c) /\ i \in Super
      BY <1>10
    <3> QED BY ONLY <2>3, <2>6, <2>8, <3>1, <3>2, TableFreed, Zenon
  <2>10. Kept(m, w, X)
    <3>1. Kept(c, w, X) /\ c.pdir = m.pdir /\ c.ptab = m.ptab
      BY <1>7, <2>9
    <3> QED BY ONLY <3>1 DEF Kept
  <2>11. \A e, k : <<e, k>> \in X => e = d /\ k \notin area.utcb
    BY <2>4, <2>5, <2>7
  <2>12. UtcbsIn(w.ptab) = UtcbsIn(m.ptab) /\ \A e \in DOMAIN w.pdir : e \in DOMAIN m.pdir
    BY <1>7, <2>9
  <2>13. w.num = m.num + 1
    BY <1>7, <2>3
  <2> QED BY <1>8, <2>3, <2>9, <2>10, <2>11, <2>12, <2>13, Zenon
<1> QED BY <1>11, <1>13, <1>14

LEMMA LikeBoth ==
  ASSUME NEW s1, NEW s2, NEW s3, LikeSpaces(s1, s2), LikeSpaces(s2, s3)
  PROVE  LikeSpaces(s1, s3)
<1>1. DOMAIN s2 = DOMAIN s1
  BY DEF LikeSpaces
<1>2. s3 \in [DOMAIN s1 -> SpaceSet]
  BY <1>1 DEF LikeSpaces
<1>3. \A s \in DOMAIN s1 :
       /\ s3[s].pdir = s1[s].pdir /\ s3[s].area = s1[s].area
       /\ s3[s].count = s1[s].count /\ s3[s].active = s1[s].active
  BY <1>1 DEF LikeSpaces
<1> QED BY <1>2, <1>3 DEF LikeSpaces

LEMMA LikeSelf ==
  ASSUME NEW space, NEW pdir, NEW ptab, SpaceInv(space, pdir, ptab)
  PROVE  LikeSpaces(space, space)
BY DEF SpaceInv, LikeSpaces

\* The mappings in R are flushed.
Flushed(m, w, R) ==
  /\ LikeSpaces(m.space, w.space) /\ w.currentSpace = m.currentSpace /\ w.num >= m.num
  /\ \A o : o \in DOMAIN w.mapping <=> o \in DOMAIN m.mapping /\ o \notin R
  /\ \A o \in DOMAIN w.mapping : w.mapping[o] = m.mapping[o]

LEMMA NumInt ==
  ASSUME NEW m, NEW T, NEW S, NEW K, MemInv(m, T, S, K)
  PROVE  m.num \in Int
BY MemParts DEF UsedInv

LEMMA Flush ==
  ASSUME NEW m, NEW T, NEW S, NEW K, MemInv(m, T, S, K), NEW o \in DOMAIN m.mapping,
         NEW w, w = flush(m, o)
  PROVE  MemInv(w, T, S, K) /\ Flushed(m, w, {o})
<1>1. SpaceInv(m.space, m.pdir, m.ptab) /\ MapInv(m.mapping, m.space)
  BY MemParts
<1>2. PICK sp, loc : sp = m.mapping[o].space /\ loc = m.mapping[o].loc
  OBVIOUS
<1>3. /\ sp \in DOMAIN m.space /\ loc \in Loc /\ m.space[sp].active # 0
      /\ loc \notin m.space[sp].area.utcb
  BY <1>1, <1>2 DEF MapInv
<1>4. PICK a : a = [m EXCEPT !.mapping = Dropped(m.mapping, o)]
  BY Zenon
<1>5. /\ MemInv(a, T, S, K \cup {o}) /\ a.num = m.num /\ a.space = m.space /\ o \notin K
      /\ a.mapping = Dropped(m.mapping, o) /\ SameButSpace(m, a)
  BY <1>4, RemoveMapping
<1>6. PICK b : b = unmapFpage(a, sp, loc)
  OBVIOUS
<1>7. /\ MemInv(b, T, S, K \cup {o}) /\ b.num \in {a.num, a.num + 1} /\ b.mapping = a.mapping
      /\ b.space = [a.space EXCEPT ![sp].loaded = FALSE] /\ b.currentSpace = a.currentSpace
  <2>1. sp \in DOMAIN a.space /\ a.space[sp].active # 0 /\ loc \notin a.space[sp].area.utcb
    BY <1>3, <1>5
  <2> QED BY <1>3, <1>5, <1>6, <2>1, UnmapFpage
<1>8. w = freeObject(b, o)
  <2>1. w = freeObject(unmapFpage([m EXCEPT !.mapping = Dropped(@, o)], sp, loc), o)
    BY <1>2 DEF flush
  <2> QED BY <2>1, <1>4, <1>6
<1>9. MemInv(w, T, S, (K \cup {o}) \ {o}) /\ SameRest(b, w) /\ w.num \in {b.num, b.num + 1}
  <2>1. o \in K \cup {o}
    OBVIOUS
  <2> QED BY <1>7, <1>8, <2>1, Release
<1>10. MemInv(w, T, S, K)
  <2>1. (K \cup {o}) \ {o} = K
    BY <1>5
  <2> QED BY <1>9, <2>1
<1>11. LikeSpaces(m.space, w.space)
  <2>1. PICK space, space2 : space = m.space /\ space2 = w.space
    OBVIOUS
  <2>2. space2 = [space EXCEPT ![sp].loaded = FALSE]
    BY <1>5, <1>7, <1>9, <2>1 DEF SameRest
  <2>3. LikeSpaces(space, space2)
    BY <1>1, <1>3, <2>1, <2>2, NotLoaded
  <2> QED BY <2>1, <2>3
<1>12. \A x : x \in DOMAIN w.mapping <=> x \in DOMAIN m.mapping /\ x \notin {o}
  <2>1. w.mapping = Dropped(m.mapping, o)
    BY <1>5, <1>7, <1>9 DEF SameRest
  <2>2. DOMAIN Dropped(m.mapping, o) = (DOMAIN m.mapping) \ {o}
    BY DroppedDomain
  <2> QED BY <2>1, <2>2
<1>13. w.num >= m.num
  <2>1. PICK k \in Int : k = m.num
    BY NumInt
  <2> QED BY <2>1, <1>5, <1>7, <1>9
<1>14. w.currentSpace = m.currentSpace
  BY <1>5, <1>7, <1>9 DEF SameRest, SameButSpace
<1>15. \A x \in DOMAIN w.mapping : w.mapping[x] = m.mapping[x]
  <2>1. w.mapping = Dropped(m.mapping, o)
    BY <1>5, <1>7, <1>9 DEF SameRest
  <2>2. \A x \in DOMAIN m.mapping : x # o => Dropped(m.mapping, o)[x] = m.mapping[x]
    BY DroppedFacts
  <2> QED BY <1>12, <2>1, <2>2
<1> QED BY <1>10, <1>11, <1>12, <1>13, <1>14, <1>15 DEF Flushed

\* done[i] is the state after the first i mappings of list are flushed.
FlushRun(m, list, done) ==
  /\ done[0] = m
  /\ (\A i \in 1..Len(list) : done[i] = flush(done[i - 1], list[i]))
  /\ flushAll(m, list) = done[Len(list)]

LEMMA FlushLoop ==
  ASSUME NEW m, NEW list, Len(list) \in Nat
  PROVE  \E done : FlushRun(m, list, done)
<1>0. PICK n \in Nat : n = Len(list)
  OBVIOUS
<1> DEFINE Def(f, k) == f = [i \in 0..k |-> IF i = 0 THEN m ELSE flush(f[i - 1], list[i])]
           bad == {k \in Nat : ~\E f : Def(f, k)}
<1>1. bad = {}
  <2> SUFFICES ASSUME bad # {} PROVE FALSE
    OBVIOUS
  <2>1. PICK k \in Nat : (~\E f : Def(f, k)) /\ \A l \in Nat : (~\E f : Def(f, l)) => k <= l
    <3> HIDE DEF Def
    <3>1. PICK k \in bad : \A l \in bad : k <= l
      BY LeastNumber, Zenon
    <3> QED BY <3>1, Zenon
  <2> HIDE DEF bad, Def
  <2>2. CASE k = 0
    <3>1. PICK f : f = [i \in 0..0 |-> m]
      BY Zenon
    <3>2. f = [i \in 0..0 |-> IF i = 0 THEN m ELSE flush(f[i - 1], list[i])]
      BY <3>1
    <3>3. Def(f, 0)
      BY <3>2 DEF Def
    <3> QED BY <3>3, <2>2, <2>1
  <2>3. CASE k # 0
    <3>1. k - 1 \in Nat /\ ~(k <= k - 1) /\ \E f : Def(f, k - 1)
      BY <2>3, <2>1
    <3>2. PICK g : Def(g, k - 1)
      BY <3>1
    <3>3. PICK h : h = [i \in 0..k |-> IF i = k THEN flush(g[k - 1], list[k]) ELSE g[i]]
      BY Zenon
    <3>4. Def(h, k)
      <4>1. \A i \in 0..k - 1 : g[i] = IF i = 0 THEN m ELSE flush(g[i - 1], list[i])
        BY <3>2 DEF Def
      <4>2. \A i \in 0..k : h[i] = IF i = 0 THEN m ELSE flush(h[i - 1], list[i])
        <5>1. \A i \in 0..k - 1 : h[i] = g[i]
          BY <3>3
        <5>2. h[k] = flush(h[k - 1], list[k])
          BY <5>1, <3>1, <3>3
        <5>3. ASSUME NEW i \in 0..k - 1
              PROVE  h[i] = IF i = 0 THEN m ELSE flush(h[i - 1], list[i])
          <6>1. i # 0 => i - 1 \in 0..k - 1
            OBVIOUS
          <6> QED BY <6>1, <5>1, <4>1
        <5>4. \A i \in 0..k : i = k \/ i \in 0..k - 1
          OBVIOUS
        <5> QED BY <2>3, <5>2, <5>3, <5>4
      <4> QED BY <3>3, <4>2 DEF Def
    <3> QED BY <3>4, <2>1
  <2> QED BY <2>2, <2>3
<1>2. PICK f : f = (CHOOSE g : Def(g, n))
  OBVIOUS
<1>3. Def(f, n)
  <2>1. \E g : Def(g, n)
    <3> HIDE DEF Def
    <3> QED BY <1>1, Zenon
  <2> HIDE DEF Def
  <2> QED BY <2>1, <1>2
<1>4. flushAll(m, list) = f[n]
  BY <1>0, <1>2 DEF flushAll
<1>5. f[0] = m /\ \A i \in 1..n : f[i] = flush(f[i - 1], list[i])
  BY <1>3
<1> QED BY <1>0, <1>4, <1>5 DEF FlushRun

\* A list of n mappings, each of "gone" once.
OneByOne(list, n, gone) ==
  /\ n \in Nat /\ n = Len(list) /\ gone = {list[i] : i \in 1..n}
  /\ \A i, j \in 1..n : i # j => list[i] # list[j]

\* Mappings of which a list has each once are flushed.
LEMMA FlushAll ==
  ASSUME NEW m, NEW T, NEW S, NEW K, MemInv(m, T, S, K), NEW list, NEW n, NEW gone,
         OneByOne(list, n, gone), gone \subseteq DOMAIN m.mapping,
         NEW w, w = flushAll(m, list)
  PROVE  MemInv(w, T, S, K) /\ Flushed(m, w, gone)
<1>0. /\ n \in Nat /\ n = Len(list) /\ gone = {list[i] : i \in 1..n}
      /\ (\A i \in 1..n : list[i] \in DOMAIN m.mapping)
      /\ \A i, j \in 1..n : i # j => list[i] # list[j]
  BY DEF OneByOne
<1> USE <1>0
<1>1. PICK done : /\ done[0] = m /\ (\A i \in 1..n : done[i] = flush(done[i - 1], list[i]))
                  /\ flushAll(m, list) = done[n]
  <2>1. Len(list) \in Nat
    OBVIOUS
  <2>2. PICK done : FlushRun(m, list, done)
    BY ONLY <2>1, FlushLoop, Zenon
  <2> QED BY <2>2 DEF FlushRun
<1>2. done[0] = m /\ w = done[n]
  BY <1>1
<1>3. \A i \in 1..n : done[i] = flush(done[i - 1], list[i])
  BY <1>1
<1> DEFINE Before(k) == {list[i] : i \in 1..k}
           Good(k) == MemInv(done[k], T, S, K) /\ Flushed(m, done[k], Before(k))
           bad == {k \in 0..n : ~Good(k)}
<1>4. bad = {}
  <2> SUFFICES ASSUME bad # {} PROVE FALSE
    BY Zenon
  <2>1. PICK k \in 0..n : ~Good(k) /\ \A l \in 0..n : ~Good(l) => k <= l
    <3> HIDE DEF Good
    <3>1. bad \in SUBSET Nat
      OBVIOUS
    <3>2. PICK k \in bad : \A l \in bad : k <= l
      BY <3>1, LeastNumber, Zenon
    <3> QED BY <3>2
  <2> HIDE DEF bad, Good, Before
  <2>2. CASE k = 0
    <3>1. SpaceInv(m.space, m.pdir, m.ptab)
      BY MemParts
    <3>2. LikeSpaces(m.space, m.space)
      BY <3>1, LikeSelf
    <3>3. Before(0) = {}
      BY DEF Before
    <3>4. m.num >= m.num
      BY NumInt
    <3>5. Flushed(m, m, Before(0))
      BY <3>2, <3>3, <3>4 DEF Flushed
    <3>6. Good(0)
      BY <1>2, <3>5 DEF Good
    <3> QED BY <2>1, <2>2, <3>6
  <2>3. CASE k # 0
    <3>1. k \in 1..n /\ k - 1 \in 0..n /\ Good(k - 1)
      BY <2>1, <2>3
    <3>2. PICK a, o : a = done[k - 1] /\ o = list[k]
      OBVIOUS
    <3>3. PICK R : R = Before(k - 1)
      OBVIOUS
    <3>4. MemInv(a, T, S, K) /\ Flushed(m, a, R)
      BY <3>1, <3>2, <3>3 DEF Good
    <3>5. o \in DOMAIN a.mapping
      <4>1. o \in DOMAIN m.mapping
        BY <3>1, <3>2
      <4>2. o \notin R
        BY <3>1, <3>2, <3>3 DEF Before
      <4> QED BY <3>4, <4>1, <4>2 DEF Flushed
    <3>6. PICK b : b = flush(a, o)
      OBVIOUS
    <3>7. MemInv(b, T, S, K) /\ Flushed(a, b, {o})
      BY <3>4, <3>5, <3>6, Flush
    <3>8. Before(k) = R \cup {o}
      <4>1. \A i : i \in 1..k <=> i \in 1..k - 1 \/ i = k
        BY <3>1
      <4> QED BY <4>1, <3>2, <3>3, Zenon DEF Before
    <3>9. Flushed(m, b, R \cup {o})
      <4>1. LikeSpaces(m.space, b.space)
        BY <3>4, <3>7, LikeBoth DEF Flushed
      <4>2. b.num >= m.num
        <5>1. a.num \in Int /\ b.num \in Int /\ m.num \in Int
          BY <3>4, <3>7, NumInt
        <5>2. a.num >= m.num /\ b.num >= a.num
          BY <3>4, <3>7 DEF Flushed
        <5> QED BY <5>1, <5>2
      <4> QED BY <3>4, <3>7, <4>1, <4>2 DEF Flushed
    <3>10. done[k] = b
      BY <1>3, <3>1, <3>2, <3>6
    <3>11. Good(k)
      BY <3>7, <3>8, <3>9, <3>10 DEF Good
    <3> QED BY <2>1, <3>11
  <2> QED BY <2>2, <2>3
<1>5. Good(n)
  <2> HIDE DEF Good
  <2> QED BY <1>4
<1>6. MemInv(w, T, S, K) /\ Flushed(m, w, Before(n))
  BY <1>2, <1>5, Zenon
<1> QED BY <1>6

\* There are only so many mappings.
LEMMA MappingsFinite ==
  ASSUME NEW m, NEW T, NEW S, NEW K, MemInv(m, T, S, K)
  PROVE  IsFiniteSet(DOMAIN m.mapping)
<1>1. /\ UsedInv(m) /\ ObjInv(m.objs, m.partials, Objects(m, K))
  BY MemParts
<1>2. IsFiniteSet(DOMAIN m.objs)
  <2>1. PICK f : f = [k \in DOMAIN m.objs |-> ObjectPage(k)]
    BY Zenon
  <2>2. \A k \in DOMAIN m.objs : ObjectPage(k) \in m.used
    BY <1>1 DEF UsedInv, InUse
  <2>3. f \in Injection(DOMAIN m.objs, m.used)
    BY <2>1, <2>2 DEF Injection, IsInjective, ObjectPage
  <2>4. IsFiniteSet(m.used)
    BY <1>1 DEF UsedInv
  <2> QED BY <2>3, <2>4, FS_Injection
<1>3. IsFiniteSet(1..Full)
  BY UpTo, SpacesAssumption
<1>4. IsFiniteSet((DOMAIN m.objs) \X (1..Full))
  BY <1>2, <1>3, FS_Product, Zenon
<1>5. \A o \in DOMAIN m.mapping : o \in (DOMAIN m.objs) \X (1..Full)
  <2> SUFFICES ASSUME NEW o \in DOMAIN m.mapping
               PROVE  o \in (DOMAIN m.objs) \X (1..Full)
    OBVIOUS
  <2>1. o \in Objects(m, K)
    BY DEF Objects
  <2>2. o \in (DOMAIN m.objs) \X Nat
    BY <1>1, <2>1 DEF ObjInv
  <2>3. PICK p \in DOMAIN m.objs, i \in Nat : o = <<p, i>>
    BY <2>2
  <2>4. i \in Places(Objects(m, K), p)
    BY <2>1, <2>3 DEF Places
  <2>5. PageOK(m.objs[p], Places(Objects(m, K), p))
    BY <1>1 DEF ObjInv
  <2>6. /\ m.objs[p] \in ObjectPages /\ m.objs[p].last <= Full
        /\ Places(Objects(m, K), p) \subseteq 1..m.objs[p].last
    BY <2>5 DEF PageOK
  <2>7. m.objs[p].last \in Nat
    BY <2>6 DEF ObjectPages
  <2>8. i \in 1..Full
    BY <2>4, <2>6, <2>7, SpacesAssumption
  <2> QED BY <2>3, <2>8
<1> QED BY <1>4, <1>5, FS_Subset

\* A list of a finite set, in any order.
LEMMA ListOfSet ==
  ASSUME NEW R, IsFiniteSet(R), NEW list \in SetToSeqs(R)
  PROVE  \E n \in Nat : /\ n = Len(list) /\ (\A i \in 1..n : list[i] \in R)
                        /\ (\A i, j \in 1..n : i # j => list[i] # list[j])
                        /\ {list[i] : i \in 1..n} = R
<1>1. PICK n \in Nat : n = Cardinality(R)
  BY FS_CardinalityType
<1>2. list \in [1..n -> R] /\ \A i, j \in 1..n : i # j => list[i] # list[j]
  BY <1>1 DEF SetToSeqs
<1>3. list \in Seq(R) /\ Len(list) = n
  BY <1>2
<1>4. list \in Injection(1..n, R)
  BY <1>2 DEF Injection, IsInjective
<1>5. Cardinality(1..n) = n
  BY UpTo
<1>6. list \in Surjection(1..n, R)
  BY <1>1, <1>4, <1>5, FS_Injection
<1>7. {list[i] : i \in 1..n} = R
  <2>1. \A x \in R : \E i \in 1..n : list[i] = x
    BY <1>6 DEF Surjection
  <2> QED BY <1>2, <2>1
<1> QED BY <1>2, <1>3, <1>7

LEMMA Counted ==
  ASSUME NEW space, NEW T, ThreadInv(space, T), NEW t \in DOMAIN T, NEW sp, sp = T[t].space
  PROVE  /\ sp \in DOMAIN space /\ space[sp].count \in Nat \ {0} /\ space[sp].active \in Nat
         /\ T[t].utcb # None => space[sp].active # 0
<1>1. /\ IsFiniteSet(DOMAIN T) /\ sp \in DOMAIN space
      /\ space[sp].count = Cardinality(Threads(T, sp))
      /\ space[sp].active = Cardinality(Actives(T, sp))
  BY DEF ThreadInv
<1>2. IsFiniteSet(Threads(T, sp)) /\ IsFiniteSet(Actives(T, sp))
  BY <1>1, ThreadSets
<1>3. PICK R, A : R = Threads(T, sp) /\ A = Actives(T, sp)
  OBVIOUS
<1>4. R # {} /\ (T[t].utcb # None => A # {})
  BY <1>3 DEF Threads, Actives
<1>5. Cardinality(R) \in Nat /\ Cardinality(A) \in Nat
  BY <1>2, <1>3, FS_CardinalityType
<1>6. Cardinality(R) # 0 /\ (T[t].utcb # None => Cardinality(A) # 0)
  BY <1>2, <1>3, <1>4, FS_EmptySet
<1> QED BY <1>1, <1>3, <1>5, <1>6

\* A space that a thread leaves.
Left(space, sp, utcb) ==
  [space EXCEPT ![sp].count = space[sp].count - 1,
                ![sp].active = IF utcb = None THEN space[sp].active ELSE space[sp].active - 1]

LEMMA LeftDomain ==
  ASSUME NEW space, NEW sp, NEW utcb
  PROVE  DOMAIN Left(space, sp, utcb) = DOMAIN space
BY DEF Left

LEMMA LeftFacts ==
  ASSUME NEW space, NEW sp \in DOMAIN space, NEW utcb, space \in [DOMAIN space -> SpaceSet],
         space[sp].count # 0, utcb # None => space[sp].active # 0
  PROVE  LET w == Left(space, sp, utcb) IN
         /\ w \in [DOMAIN w -> SpaceSet]
         /\ (\A s \in DOMAIN space : /\ w[s].area = space[s].area /\ w[s].pdir = space[s].pdir
                                     /\ w[s].loaded = space[s].loaded
                                     /\ s # sp => w[s] = space[s])
         /\ w[sp].count = space[sp].count - 1
         /\ utcb = None => w[sp].active = space[sp].active
         /\ utcb # None => w[sp].active = space[sp].active - 1
<1>1. PICK w : w = Left(space, sp, utcb)
  OBVIOUS
<1>2. \A s \in DOMAIN space : space[s] \in SpaceSet
  OBVIOUS
<1>3. PICK a : a = IF utcb = None THEN space[sp].active ELSE space[sp].active - 1
  OBVIOUS
<1>4. PICK r : r = [pdir |-> space[sp].pdir, area |-> space[sp].area, count |-> space[sp].count - 1,
                    active |-> a, loaded |-> space[sp].loaded]
  BY Zenon
<1>5. DOMAIN w = DOMAIN space /\ \A s \in DOMAIN space : s # sp => w[s] = space[s]
  BY <1>1 DEF Left
<1>6. w[sp] = r
  <2>1. w[sp] = [space[sp] EXCEPT !.count = space[sp].count - 1, !.active = a]
    BY <1>1, <1>3 DEF Left
  <2>2. space[sp] \in SpaceSet
    BY <1>2
  <2> QED BY <2>1, <2>2, <1>4, Zenon DEF SpaceSet
<1>7. PICK c \in Nat \ {0}, b \in Nat : c = space[sp].count /\ b = space[sp].active
  BY <1>2 DEF SpaceSet
<1>8. a \in Nat
  BY <1>3, <1>7
<1>9. r \in SpaceSet
  <2>1. /\ space[sp].pdir \in Directories \cup {None} /\ space[sp].area \in Areas \cup {PrivArea, None}
        /\ space[sp].loaded \in BOOLEAN
    BY <1>2 DEF SpaceSet
  <2>2. space[sp].count - 1 \in Nat
    BY <1>7
  <2> QED BY <2>1, <2>2, <1>4, <1>8 DEF SpaceSet
<1>10. w \in [DOMAIN w -> SpaceSet]
  <2>1. \A s \in DOMAIN w : w[s] \in SpaceSet
    BY <1>2, <1>5, <1>6, <1>9
  <2>2. w = [s \in DOMAIN w |-> w[s]]
    BY <1>1, Zenon DEF Left
  <2> QED BY <2>1, <2>2
<1>11. /\ r.pdir = space[sp].pdir /\ r.area = space[sp].area /\ r.count = space[sp].count - 1
       /\ r.active = a /\ r.loaded = space[sp].loaded
  BY <1>4
<1>12. \A s \in DOMAIN space : /\ w[s].area = space[s].area /\ w[s].pdir = space[s].pdir
                               /\ w[s].loaded = space[s].loaded
  BY <1>5, <1>6, <1>11
<1> QED BY <1>1, <1>3, <1>5, <1>6, <1>10, <1>11, <1>12

LEMMA ThreadLeaves ==
  ASSUME NEW space, NEW T, ThreadInv(space, T), space \in [DOMAIN space -> SpaceSet],
         NEW t \in DOMAIN T, NEW sp, sp = T[t].space
  PROVE  ThreadInv(Left(space, sp, T[t].utcb), Dropped(T, t))
<1>1. /\ sp \in DOMAIN space /\ space[sp].count # 0
      /\ (T[t].utcb # None => space[sp].active # 0)
  BY Counted
<1>2. PICK utcb : utcb = T[t].utcb
  OBVIOUS
<1>3. PICK w, T2 : w = Left(space, sp, utcb) /\ T2 = Dropped(T, t)
  OBVIOUS
<1>4. DOMAIN w = DOMAIN space
  BY <1>3, LeftDomain
<1>5. LET v == Left(space, sp, utcb) IN
      /\ (\A s \in DOMAIN space : /\ v[s].area = space[s].area
                                  /\ s # sp => v[s] = space[s])
      /\ v[sp].count = space[sp].count - 1
      /\ utcb = None => v[sp].active = space[sp].active
      /\ utcb # None => v[sp].active = space[sp].active - 1
  <2>1. sp \in DOMAIN space /\ space \in [DOMAIN space -> SpaceSet] /\ space[sp].count # 0
        /\ (utcb # None => space[sp].active # 0)
    BY <1>1, <1>2
  <2>2. LET v == Left(space, sp, utcb) IN
      /\ v \in [DOMAIN v -> SpaceSet]
      /\ (\A s \in DOMAIN space : /\ v[s].area = space[s].area /\ v[s].pdir = space[s].pdir
                                  /\ v[s].loaded = space[s].loaded
                                  /\ s # sp => v[s] = space[s])
      /\ v[sp].count = space[sp].count - 1
      /\ utcb = None => v[sp].active = space[sp].active
      /\ utcb # None => v[sp].active = space[sp].active - 1
    BY ONLY <2>1, LeftFacts
  <2> QED BY ONLY <2>2, Zenon
<1>6. \A s \in DOMAIN space :
           /\ w[s].area = space[s].area
           /\ s # sp => w[s].active = space[s].active /\ w[s].count = space[s].count
  BY <1>3, <1>5
<1>7. /\ w[sp].count = space[sp].count - 1
      /\ (T[t].utcb = None => w[sp].active = space[sp].active)
      /\ (T[t].utcb # None => w[sp].active = space[sp].active - 1)
  BY <1>2, <1>3, <1>5
<1>8. ThreadInv(w, T2)
  BY ONLY ThreadInv(space, T), t \in DOMAIN T, sp = T[t].space, <1>3, <1>4, <1>6, <1>7, ThreadLeft
<1> QED BY <1>2, <1>3, <1>8

\* Spaces that differ in their counts only, and those active stay active.
SpacesAlike(space, space2) ==
  /\ space2 \in [DOMAIN space2 -> SpaceSet]
  /\ \A s : s \in DOMAIN space2 <=> s \in DOMAIN space
  /\ \A s \in DOMAIN space : /\ space2[s].area = space[s].area /\ space2[s].pdir = space[s].pdir
                             /\ space2[s].loaded = space[s].loaded
                             /\ space2[s].active # 0 <=> space[s].active # 0

LEMMA AlikeKept ==
  ASSUME NEW space, NEW space2, SpacesAlike(space, space2), NEW pdir, NEW ptab,
         SpaceInv(space, pdir, ptab), NEW mapping, MapInv(mapping, space),
         NEW cr3, NEW cur, NEW stale, LoadInv(space, cr3, cur, stale)
  PROVE  /\ SpaceInv(space2, pdir, ptab) /\ MapInv(mapping, space2)
         /\ LoadInv(space2, cr3, cur, stale)
<1>1. /\ space2 \in [DOMAIN space2 -> SpaceSet] /\ DOMAIN space2 = DOMAIN space
      /\ DOMAIN space \subseteq Object
  BY DEF SpacesAlike, SpaceInv
<1>2. \A s \in DOMAIN space : /\ space2[s].area = space[s].area /\ space2[s].pdir = space[s].pdir
                              /\ space2[s].loaded = space[s].loaded
                              /\ space2[s].active # 0 <=> space[s].active # 0
  BY DEF SpacesAlike
<1>3. SpaceInv(space2, pdir, ptab)
  <2>1. \A s \in DOMAIN space :
         /\ space[s].pdir \in {None, DirectoryPage(s)}
         /\ space[s].pdir # None => space[s].area # None
         /\ space[s].active # 0 => /\ space[s].pdir # None
                                   /\ HasUtcb(pdir, ptab, s, space[s].area)
    BY DEF SpaceInv
  <2>2. \A s \in DOMAIN space2 :
         /\ space2[s].pdir \in {None, DirectoryPage(s)}
         /\ space2[s].pdir # None => space2[s].area # None
         /\ space2[s].active # 0 => /\ space2[s].pdir # None
                                    /\ HasUtcb(pdir, ptab, s, space2[s].area)
    BY ONLY <1>1, <1>2, <2>1
  <2>3. \A d \in DOMAIN pdir : \E s \in DOMAIN space : d = DirectoryPage(s) /\ space[s].active # 0
    BY DEF SpaceInv
  <2>4. \A d \in DOMAIN pdir : \E s \in DOMAIN space2 : d = DirectoryPage(s) /\ space2[s].active # 0
    BY ONLY <1>1, <1>2, <2>3
  <2> QED BY <1>1, <2>2, <2>4 DEF SpaceInv
<1>4. MapInv(mapping, space2)
  <2>1. mapping \in [DOMAIN mapping -> [space : DOMAIN space, loc : Loc]]
    BY DEF MapInv
  <2>2. \A o \in DOMAIN mapping : mapping[o].space \in DOMAIN space
    BY <2>1
  <2>3. mapping \in [DOMAIN mapping -> [space : DOMAIN space2, loc : Loc]]
    BY <2>1, <1>1
  <2>4. \A o \in DOMAIN mapping : LET s == mapping[o].space IN
          space[s].active # 0 /\ mapping[o].loc \notin space[s].area.utcb
    BY DEF MapInv
  <2>5. \A o \in DOMAIN mapping : LET s == mapping[o].space IN
          space2[s].active # 0 /\ mapping[o].loc \notin space2[s].area.utcb
    BY ONLY <1>2, <2>2, <2>4
  <2> QED BY <2>3, <2>5 DEF MapInv
<1>5. LoadInv(space2, cr3, cur, stale)
  BY <1>1, <1>2 DEF LoadInv
<1> QED BY <1>3, <1>4, <1>5

\* The memory in which spaces are changed so.
LEMMA AlikeSpaces ==
  ASSUME NEW m, NEW w, NEW T, NEW T2, NEW S, NEW K, MemInv(m, T, S, K), SameButSpace(m, w),
         w.mapping = m.mapping, SpacesAlike(m.space, w.space), ThreadInv(w.space, T2),
         UtcbInv(m.ptab, T2)
  PROVE  MemInv(w, T2, S, K)
<1>1. /\ Apart(m, K) /\ SpaceInv(m.space, m.pdir, m.ptab)
      /\ MapInv(m.mapping, m.space)
      /\ LoadInv(m.space, m.cr3, m.currentSpace, m.stale)
  BY MemParts
<1>2. PICK space, space2 : space = m.space /\ space2 = w.space
  OBVIOUS
<1>3. /\ SpaceInv(space2, m.pdir, m.ptab) /\ MapInv(m.mapping, space2)
      /\ LoadInv(space2, m.cr3, m.currentSpace, m.stale)
  <2>1. /\ SpaceInv(space, m.pdir, m.ptab) /\ MapInv(m.mapping, space)
        /\ LoadInv(space, m.cr3, m.currentSpace, m.stale) /\ SpacesAlike(space, space2)
    BY <1>1, <1>2
  <2> QED BY ONLY <2>1, AlikeKept
<1>4. Objects(w, K) = Objects(m, K) /\ Apart(w, K)
  <2>1. DOMAIN w.space = DOMAIN m.space
    BY Zenon DEF SpacesAlike
  <2> QED BY <1>1, <2>1 DEF Objects, Apart
<1> QED BY <1>2, <1>3, <1>4, SpacesChanged

LEMMA UtcbsLeft ==
  ASSUME NEW ptab, NEW T, UtcbInv(ptab, T), NEW t
  PROVE  UtcbInv(ptab, Dropped(T, t))
<1>1. PICK D : D = Dropped(T, t)
  OBVIOUS
<1>2. DOMAIN D = (DOMAIN T) \ {t}
  BY <1>1, DroppedDomain
<1>3. \A y \in DOMAIN T : y # t => D[y] = T[y]
  BY <1>1, DroppedFacts
<1>4. UtcbInv(ptab, D)
  BY <1>2, <1>3 DEF UtcbInv
<1> QED BY <1>1, <1>4

\* A thread leaves its space, which stays active or was not.
LEMMA SpaceLeft ==
  ASSUME NEW m, NEW T, NEW S, NEW K, MemInv(m, T, S, K), NEW t \in DOMAIN T,
         NEW sp, sp = T[t].space, ~(T[t].utcb # None /\ m.space[sp].active = 1),
         NEW w, SameButSpace(m, w), w.mapping = m.mapping,
         w.space = Left(m.space, sp, T[t].utcb)
  PROVE  MemInv(w, Dropped(T, t), S, K)
<1>1. SpaceInv(m.space, m.pdir, m.ptab) /\ ThreadInv(m.space, T)
  BY MemParts
<1>2. PICK space, space2, utcb : space = m.space /\ space2 = w.space /\ utcb = T[t].utcb
  OBVIOUS
<1>3. space \in [DOMAIN space -> SpaceSet] /\ DOMAIN space \subseteq Object
  BY <1>1, <1>2 DEF SpaceInv
<1>4. /\ sp \in DOMAIN space /\ space[sp].count # 0 /\ space[sp].active \in Nat
      /\ (utcb # None => space[sp].active # 0)
  <2>1. ThreadInv(space, T)
    BY <1>1, <1>2
  <2> QED BY <1>2, <2>1, Counted
<1>5. space2 = Left(space, sp, utcb)
  BY <1>2
<1>6. DOMAIN space2 = DOMAIN space
  BY <1>5, LeftDomain
<1>7. LET v == Left(space, sp, utcb) IN
      /\ v \in [DOMAIN v -> SpaceSet]
      /\ (\A s \in DOMAIN space : /\ v[s].area = space[s].area /\ v[s].pdir = space[s].pdir
                                  /\ v[s].loaded = space[s].loaded
                                  /\ s # sp => v[s] = space[s])
      /\ utcb = None => v[sp].active = space[sp].active
      /\ utcb # None => v[sp].active = space[sp].active - 1
  <2>1. sp \in DOMAIN space /\ space \in [DOMAIN space -> SpaceSet] /\ space[sp].count # 0
        /\ (utcb # None => space[sp].active # 0)
    BY <1>3, <1>4
  <2>2. LET v == Left(space, sp, utcb) IN
      /\ v \in [DOMAIN v -> SpaceSet]
      /\ (\A s \in DOMAIN space : /\ v[s].area = space[s].area /\ v[s].pdir = space[s].pdir
                                  /\ v[s].loaded = space[s].loaded
                                  /\ s # sp => v[s] = space[s])
      /\ v[sp].count = space[sp].count - 1
      /\ utcb = None => v[sp].active = space[sp].active
      /\ utcb # None => v[sp].active = space[sp].active - 1
    BY ONLY <2>1, LeftFacts
  <2> QED BY ONLY <2>2, Zenon
<1>8. space2 \in [DOMAIN space2 -> SpaceSet]
  BY <1>5, <1>7
<1>9. \A s \in DOMAIN space : /\ space2[s].area = space[s].area /\ space2[s].pdir = space[s].pdir
                              /\ space2[s].loaded = space[s].loaded
  BY <1>5, <1>7
<1>10. \A s \in DOMAIN space : space2[s].active # 0 <=> space[s].active # 0
  <2>1. \A s \in DOMAIN space : s # sp => space2[s] = space[s]
    BY <1>5, <1>7
  <2>2. space2[sp].active # 0 <=> space[sp].active # 0
    <3>1. CASE utcb = None
      BY <1>5, <1>7, <3>1
    <3>2. CASE utcb # None
      <4>1. space[sp].active # 1 /\ space[sp].active # 0
        BY <1>2, <1>4, <3>2
      <4> QED BY <1>4, <1>5, <1>7, <3>2, <4>1
    <3> QED BY <3>1, <3>2
  <2> QED BY <2>1, <2>2
<1>11. SpacesAlike(m.space, w.space)
  <2>1. SpacesAlike(space, space2)
    BY <1>6, <1>8, <1>9, <1>10 DEF SpacesAlike
  <2> QED BY <1>2, <2>1
<1>12. ThreadInv(space2, Dropped(T, t))
  <2>1. ThreadInv(space, T)
    BY <1>1, <1>2
  <2> QED BY <1>2, <1>3, <1>5, <2>1, ThreadLeaves
<1>13. UtcbInv(m.ptab, Dropped(T, t))
  BY MemParts, UtcbsLeft
<1> QED BY <1>2, <1>11, <1>12, <1>13, AlikeSpaces

\* The places of directory d.
PlacesOf(d) == {<<d, k>> : k \in Loc}

\* Pages of utcbs are as many as the places that they are at.
LEMMA UtcbsCounted ==
  ASSUME NEW d, NEW here, NEW V, IsFiniteSet(V), \A l \in here : UtcbPage(d, l) \in V,
         \A v \in V : \E l \in here : v = UtcbPage(d, l)
  PROVE  Cardinality(here) = Cardinality(V)
<1>1. PICK f : f = [l \in here |-> UtcbPage(d, l)]
  BY Zenon
<1>2. f \in [here -> V]
  BY <1>1
<1>3. f \in Injection(here, V)
  <2>1. \A l, k \in here : f[l] = f[k] => l = k
    BY <1>1, PageNames
  <2> QED BY <1>2, <2>1 DEF Injection, IsInjective
<1>4. f \in Surjection(here, V)
  BY <1>1, <1>2 DEF Surjection
<1> QED BY <1>3, <1>4, FS_Injection

\* A page directory is freed, with its page tables and the pages of its utcbs.
LEMMA DirectoryFreed ==
  ASSUME NEW m, TabMem(m), NEW d \in DOMAIN m.pdir, NEW U \in SUBSET Loc,
         \A k : UtcbPage(d, k) \in UtcbsIn(m.ptab) => k \in U,
         NEW w, w = freePdir(m, d, U)
  PROVE  /\ TabMem(w) /\ Kept(m, w, PlacesOf(d)) /\ w.num \in Int /\ w.num >= m.num
         /\ \A e : e \in DOMAIN w.pdir <=> e \in DOMAIN m.pdir /\ e # d
         /\ w.objs = m.objs /\ w.partials = m.partials /\ w.space = m.space
         /\ w.mapping = m.mapping /\ w.table = m.table /\ w.cr3 = m.cr3
         /\ w.currentSpace = m.currentSpace /\ w.stale = (m.stale \/ m.cr3 = d)
<1>1. Shape(m) /\ UsedInv(m) /\ TabInv(m.pdir, m.ptab)
  BY DEF TabMem
<1>2. PICK here : here = {loc \in U : m.pdir[d][loc[1]] # None /\ PageAt(m, d, loc) \notin {None, Kip, User}}
  BY Zenon
<1>3. PICK V : V = {PageAt(m, d, loc) : loc \in here}
  BY Zenon
<1>a. \A l \in here : UtcbPage(d, l) \in UtcbsIn(m.ptab) /\ PageAt(m, d, l) = UtcbPage(d, l)
  <2> SUFFICES ASSUME NEW l \in here
               PROVE  UtcbPage(d, l) \in UtcbsIn(m.ptab) /\ PageAt(m, d, l) = UtcbPage(d, l)
    OBVIOUS
  <2>1. l \in Loc /\ m.pdir[d][l[1]] # None /\ PageAt(m, d, l) \notin {None, Kip, User}
    BY <1>2
  <2>2. PICK i \in Super, n \in PageNo : i = l[1] /\ n = l[2] /\ l = <<i, n>>
    BY <2>1 DEF Loc
  <2>3. /\ m.pdir[d][i] \in DOMAIN m.ptab
        /\ m.ptab[m.pdir[d][i]][n] \in {None, Kip, User, UtcbPage(d, <<i, n>>)}
    BY <1>1, <2>1, <2>2, TableFacts
  <2>4. m.ptab[m.pdir[d][i]][n] = UtcbPage(d, l)
    BY <2>1, <2>2, <2>3 DEF PageAt
  <2>5. UtcbPage(d, l) \in Utcbs
    BY <1>1, <2>1, TableNames, PageNames
  <2> QED BY <2>2, <2>3, <2>4, <2>5 DEF PageAt, UtcbsIn
<1>b. \A l : UtcbPage(d, l) \in UtcbsIn(m.ptab) => l \in here
  <2> SUFFICES ASSUME NEW l, UtcbPage(d, l) \in UtcbsIn(m.ptab)
               PROVE  l \in here
    OBVIOUS
  <2>1. m.pdir[d][l[1]] # None /\ m.ptab[m.pdir[d][l[1]]][l[2]] = UtcbPage(d, l)
    BY <1>1, UtcbOwner
  <2>2. UtcbPage(d, l) \notin {None, Kip, User}
    BY NotNames DEF UtcbsIn
  <2> QED BY <1>2, <2>1, <2>2 DEF PageAt
<1>c. \A x : x \in V <=> x \in UtcbsIn(m.ptab) /\ \E k : x = UtcbPage(d, k)
  BY <1>3, <1>a, <1>b
<1>4. PICK tables : tables = TablesOf(m, d)
  OBVIOUS
<1>5. PICK pdir2, ptab2 : pdir2 = Dropped(m.pdir, d) /\ ptab2 = Restrict(m.ptab, DOMAIN m.ptab \ tables)
  OBVIOUS
<1>6. tables \subseteq DOMAIN m.ptab /\ TabInv(pdir2, ptab2) /\ UtcbsIn(ptab2) = UtcbsIn(m.ptab) \ V
  <2>1. PICK pdir, ptab : pdir = m.pdir /\ ptab = m.ptab
    OBVIOUS
  <2>2. /\ TabInv(pdir, ptab) /\ d \in DOMAIN pdir /\ tables = Range(pdir[d]) \ {None}
        /\ pdir2 = Dropped(pdir, d) /\ ptab2 = Restrict(ptab, DOMAIN ptab \ tables)
    BY <1>1, <1>4, <1>5, <2>1 DEF TablesOf
  <2>3. /\ TabInv(pdir2, ptab2) /\ \A q \in tables : q \in DOMAIN ptab
        /\ \A x : x \in UtcbsIn(ptab2) <=> x \in UtcbsIn(ptab) /\ \A k : x # UtcbPage(d, k)
    <3>1. TabInv(pdir2, ptab2)
      <4>1. /\ TabInv(pdir2, ptab2) /\ \A q \in tables : q \in DOMAIN ptab
            /\ \A x : x \in UtcbsIn(ptab2) <=> x \in UtcbsIn(ptab) /\ \A k : x # UtcbPage(d, k)
        BY ONLY <2>2, DirectoryRemoved
      <4> QED BY <4>1
    <3>2. \A q \in tables : q \in DOMAIN ptab
      BY ONLY <2>2, DirectoryRemoved
    <3>3. \A x : x \in UtcbsIn(ptab2) <=> x \in UtcbsIn(ptab) /\ \A k : x # UtcbPage(d, k)
      BY ONLY <2>2, DirectoryRemoved
    <3> QED BY <3>1, <3>2, <3>3
  <2>4. \A x : x \in UtcbsIn(ptab2) <=> x \in UtcbsIn(m.ptab) /\ x \notin V
    BY ONLY <1>c, <2>1, <2>3
  <2> QED BY <2>1, <2>3, <2>4
<1>7. PICK P : P = (tables \cup {d}) \cup V
  BY Zenon
<1>8. PICK k \in Nat, c \in Nat :
        /\ k = Cardinality(tables) /\ IsFiniteSet(tables) /\ c = Cardinality(here)
        /\ Cardinality(P) = (k + 1) + c
  <2>1. IsFiniteSet(m.used) /\ m.used = InUse(m)
    BY <1>1 DEF UsedInv
  <2>2. tables \subseteq m.used /\ V \subseteq m.used
    BY <1>6, <1>c, <2>1 DEF InUse
  <2>3. IsFiniteSet(tables) /\ Cardinality(tables) \in Nat
    BY <2>1, <2>2, FS_Subset, FS_CardinalityType
  <2>4. IsFiniteSet(V) /\ Cardinality(V) \in Nat
    BY <2>1, <2>2, FS_Subset, FS_CardinalityType
  <2>5. Cardinality(here) = Cardinality(V)
    <3>1. \A l \in here : UtcbPage(d, l) \in V
      BY <1>3, <1>a
    <3>2. \A v \in V : \E l \in here : v = UtcbPage(d, l)
      BY <1>3, <1>a
    <3> QED BY ONLY <2>4, <3>1, <3>2, UtcbsCounted
  <2>6. d \notin tables /\ (tables \cup {d}) \cap V = {}
    <3>1. tables \subseteq Tables /\ d \in Directories /\ V \subseteq Utcbs
      BY <1>1, <1>6, <1>c, TableNames DEF UtcbsIn
    <3> QED BY <3>1 DEF Tables, Directories, Utcbs
  <2>7. IsFiniteSet(tables \cup {d}) /\ Cardinality(tables \cup {d}) = Cardinality(tables) + 1
    BY <2>3, <2>6, FS_AddElement
  <2>8. PICK A : A = tables \cup {d}
    BY Zenon
  <2>9. Cardinality(A \cup V) = Cardinality(A) + Cardinality(V) - Cardinality(A \cap V)
    BY <2>4, <2>7, <2>8, FS_Union
  <2>10. Cardinality(A \cap V) = 0
    BY <2>6, <2>8, FS_EmptySet
  <2>11. P = A \cup V
    BY <1>7, <2>8
  <2>12. PICK k \in Nat, c \in Nat : k = Cardinality(tables) /\ c = Cardinality(V)
    BY <2>3, <2>4
  <2>13. Cardinality(P) = (k + 1) + c
    BY <2>7, <2>8, <2>9, <2>10, <2>11, <2>12
  <2> QED BY <2>3, <2>5, <2>12, <2>13
<1>9. w = [m EXCEPT !.stale = m.stale \/ m.cr3 = d, !.used = m.used \ P,
                    !.num = m.num + ((k + 1) + c), !.ptab = ptab2, !.pdir = pdir2]
  <2>4. {PageAt(m, d, loc) : loc \in here} \cup TablesOf(m, d) \cup {d} = P
    BY <1>3, <1>4, <1>7
  <2>5. w = [Changed(m, d) EXCEPT
               !.used = m.used \ P,
               !.num  = m.num + Cardinality(here) + Cardinality(tables) + 1,
               !.ptab = ptab2, !.pdir = pdir2]
    BY <1>1, <1>2, <1>4, <1>5, <2>4, Zenon DEF freePdir, Changed, Shape
  <2>6. m.num \in Int
    BY <1>1 DEF UsedInv
  <2>7. m.num + Cardinality(here) + Cardinality(tables) + 1 = m.num + ((k + 1) + c)
    BY <1>8, <2>6
  <2> QED BY <1>1, <2>5, <2>7, Zenon DEF Changed, Shape
<1>10. /\ w.used = m.used \ P /\ w.num = m.num + ((k + 1) + c) /\ w.ptab = ptab2 /\ w.pdir = pdir2
       /\ w.stale = (m.stale \/ m.cr3 = d) /\ w.objs = m.objs /\ w.partials = m.partials
       /\ w.space = m.space /\ w.mapping = m.mapping /\ w.table = m.table /\ w.cr3 = m.cr3
       /\ w.currentSpace = m.currentSpace /\ Shape(w)
  BY <1>1, <1>9, Zenon DEF Shape
<1>11. \A e : e \in DOMAIN w.pdir <=> e \in DOMAIN m.pdir /\ e # d
  <2>1. DOMAIN pdir2 = (DOMAIN m.pdir) \ {d}
    BY <1>5, DroppedDomain
  <2> QED BY <1>10, <2>1
<1>12. \A p : p \in DOMAIN w.ptab <=> p \in DOMAIN m.ptab /\ p \notin tables
  <2>1. DOMAIN ptab2 = DOMAIN m.ptab \cap (DOMAIN m.ptab \ tables)
    BY <1>5 DEF Restrict
  <2> QED BY <1>10, <2>1
<1>13. InUse(w) = InUse(m) \ P
  <2>1. \A x : x \in InUse(w) <=> x \in InUse(m) /\ x \notin P
    <3>1. w.objs = m.objs /\ w.table = m.table
      BY <1>10
    <3>2. \A x : x \in UtcbsIn(w.ptab) <=> x \in UtcbsIn(m.ptab) /\ x \notin V
      BY <1>6, <1>10
    <3>3. d \in Directories /\ tables \subseteq Tables /\ V \subseteq Utcbs
      BY <1>1, <1>6, <1>c, TableNames DEF UtcbsIn
    <3>4. DOMAIN m.pdir \subseteq Directories /\ DOMAIN m.ptab \subseteq Tables
          /\ UtcbsIn(m.ptab) \subseteq Utcbs
      BY <1>1, TableNames DEF UtcbsIn
    <3>5. /\ \A j : ObjectPage(j) \notin P
          /\ \A j : TCBPage(j) \notin P
      BY <1>7, <3>3 DEF Tables, Directories, Utcbs, ObjectPage, TCBPage
    <3>6. /\ \A x \in Directories : x \in P <=> x = d
          /\ \A x \in Tables : x \in P <=> x \in tables
          /\ \A x \in Utcbs : x \in P <=> x \in V
      BY <1>7, <3>3 DEF Tables, Directories, Utcbs
    <3> QED BY <1>11, <1>12, <3>1, <3>2, <3>4, <3>5, <3>6, InUseMember, Zenon
  <2> QED BY <2>1
<1>14. P \subseteq InUse(m)
  BY <1>6, <1>7, <1>c, InUseMember
<1>15. UsedInv(w)
  <2>1. w.num = m.num + Cardinality(P) /\ w.used = m.used \ P
    BY <1>8, <1>10, Zenon
  <2> QED BY ONLY <1>1, <1>13, <1>14, <2>1, PagesFreed, Zenon
<1>16. TabMem(w)
  BY <1>6, <1>10, <1>15 DEF TabMem
<1>17. \A e, j : TablePage(e, j) \in tables => e = d
  <2> SUFFICES ASSUME NEW e, NEW j, TablePage(e, j) \in tables
               PROVE  e = d
    OBVIOUS
  <2>1. m.pdir[d] \in [Super -> Tables \cup {None}]
    BY <1>1 DEF TabInv
  <2>2. PICK i \in Super : TablePage(e, j) = m.pdir[d][i] /\ m.pdir[d][i] # None
    BY <1>4, <2>1 DEF TablesOf, Range
  <2>3. m.pdir[d][i] = TablePage(d, i)
    BY <1>1, <2>2, TableFacts
  <2> QED BY <2>2, <2>3 DEF TablePage
<1>18. Kept(m, w, PlacesOf(d))
  <2> DEFINE X == PlacesOf(d)
  <2>3. \A h \in Loc : <<d, h>> \in X
    BY DEF PlacesOf
  <2> HIDE DEF X
  <2>1. \A e \in DOMAIN m.pdir, k1 \in Loc : <<e, k1>> \notin X =>
          /\ e \in DOMAIN w.pdir
          /\ Foreign(w.pdir, w.ptab, e, k1) => Foreign(m.pdir, m.ptab, e, k1)
    <3> SUFFICES ASSUME NEW e \in DOMAIN m.pdir, NEW k1 \in Loc, <<e, k1>> \notin X
                 PROVE  /\ e \in DOMAIN w.pdir
                        /\ Foreign(w.pdir, w.ptab, e, k1) => Foreign(m.pdir, m.ptab, e, k1)
      BY Zenon
    <3>1. e # d
      BY <2>3
    <3>2. PICK j \in Super : j = k1[1]
      BY DEF Loc
    <3>3. w.pdir[e] = m.pdir[e] /\ e \in DOMAIN w.pdir
      <4>1. pdir2[e] = m.pdir[e]
        BY <1>5, <3>1, DroppedFacts
      <4> QED BY <1>10, <1>11, <3>1, <4>1
    <3>4. ASSUME m.pdir[e][j] # None
          PROVE  w.ptab[m.pdir[e][j]] = m.ptab[m.pdir[e][j]]
      <4>1. PICK p : p = m.pdir[e][j] /\ p = TablePage(e, j) /\ p \in DOMAIN m.ptab
        BY <1>1, <3>2, <3>4, TableFacts
      <4>2. p \notin tables
        BY <1>17, <3>1, <4>1
      <4>3. w.ptab[p] = m.ptab[p]
        BY <1>5, <1>10, <4>1, <4>2 DEF Restrict
      <4> QED BY <4>1, <4>3
    <3> QED BY <3>2, <3>3, <3>4 DEF Foreign
  <2>2. \A e, k1 : <<e, k1>> \notin X =>
          (UtcbPage(e, k1) \in UtcbsIn(w.ptab) <=> UtcbPage(e, k1) \in UtcbsIn(m.ptab))
    <3> SUFFICES ASSUME NEW e, NEW k1, <<e, k1>> \notin X
                 PROVE  UtcbPage(e, k1) \in UtcbsIn(w.ptab) <=> UtcbPage(e, k1) \in UtcbsIn(m.ptab)
      OBVIOUS
    <3>1. UtcbPage(e, k1) \notin V
      <4>1. ASSUME UtcbPage(e, k1) \in V PROVE FALSE
        <5>1. e = d /\ UtcbPage(d, k1) \in UtcbsIn(m.ptab)
          BY <1>c, <4>1, PageNames
        <5> QED BY <5>1, <2>3
      <4> QED BY <4>1
    <3> QED BY <1>6, <1>10, <3>1
  <2>4. Kept(m, w, X)
    BY <2>1, <2>2, Zenon DEF Kept
  <2> QED BY <2>4 DEF X
<1>19. w.num \in Int /\ w.num >= m.num
  <2>1. m.num \in Int
    BY <1>1 DEF UsedInv
  <2> QED BY <1>10, <2>1
<1> QED BY <1>10, <1>11, <1>16, <1>18, <1>19, Zenon

LEMMA NoActives ==
  ASSUME NEW space, NEW T, ThreadInv(space, T), NEW sp \in DOMAIN space, space[sp].active = 0
  PROVE  Actives(T, sp) = {}
<1>1. IsFiniteSet(DOMAIN T) /\ space[sp].active = Cardinality(Actives(T, sp))
  BY DEF ThreadInv
<1>2. IsFiniteSet(Actives(T, sp))
  BY <1>1, ThreadSets
<1>3. PICK A : A = Actives(T, sp)
  OBVIOUS
<1>4. Cardinality(A) = 0 <=> A = {}
  BY <1>2, <1>3, FS_EmptySet
<1> QED BY <1>1, <1>3, <1>4

\* The last active thread of space sp leaves it, and its directory is freed.
\* The space's record still names the directory, but the space is not active.
LEMMA LastLeft ==
  ASSUME NEW m, NEW T, NEW S, NEW K, MemInv(m, T, S, K), NEW t \in DOMAIN T,
         NEW sp, sp = T[t].space, T[t].utcb # None, m.space[sp].active = 1,
         NEW U, U = m.space[sp].area.utcb, \A o \in DOMAIN m.mapping : m.mapping[o].space # sp,
         NEW e, SameButSpace(m, e), e.mapping = m.mapping,
         e.space = Left(m.space, sp, T[t].utcb),
         NEW w, w = freePdir(e, DirectoryPage(sp), U)
  PROVE  /\ MemInv(w, Dropped(T, t), S, K) /\ w.num \in Int /\ w.num >= m.num
         /\ w.space = Left(m.space, sp, T[t].utcb) /\ w.currentSpace = m.currentSpace
<1>1. /\ Shape(m) /\ UsedInv(m) /\ TabInv(m.pdir, m.ptab) /\ Apart(m, K)
      /\ SpaceInv(m.space, m.pdir, m.ptab) /\ ThreadInv(m.space, T)
      /\ MapInv(m.mapping, m.space) /\ LoadInv(m.space, m.cr3, m.currentSpace, m.stale)
  BY MemParts
<1>2. PICK d : d = DirectoryPage(sp)
  OBVIOUS
<1>3. sp \in DOMAIN m.space /\ m.space[sp].count # 0
  BY <1>1, Counted
<1>4. /\ m.space[sp].active # 0 /\ m.space \in [DOMAIN m.space -> SpaceSet]
      /\ DOMAIN m.space \subseteq Object
  BY <1>1 DEF SpaceInv
<1>5. /\ d \in DOMAIN m.pdir /\ HasUtcb(m.pdir, m.ptab, sp, m.space[sp].area)
      /\ m.space[sp].area \in Area /\ m.space[sp].pdir = d
  BY <1>1, <1>2, <1>3, <1>4, AreaFacts
<1>6. /\ U \in SUBSET Loc
      /\ \A k : UtcbPage(d, k) \in UtcbsIn(m.ptab) => k \in U
  <2>1. \A k \in Loc : UtcbPage(d, k) \in UtcbsIn(m.ptab) => k \in U
    BY <1>2, <1>5 DEF HasUtcb
  <2>2. U \in SUBSET Loc
    BY <1>5 DEF Area
  <2>3. \A k : UtcbPage(d, k) \in UtcbsIn(m.ptab) => k \in Loc
    BY <1>1, UtcbOwner
  <2> QED BY <2>1, <2>2, <2>3
<1>7. PICK X : X = PlacesOf(d)
  OBVIOUS
<1>8. \A c, k : <<c, k>> \in X => c = d
  BY <1>7 DEF PlacesOf
<1>9. /\ e.used = m.used /\ e.num = m.num /\ e.objs = m.objs /\ e.partials = m.partials
      /\ e.pdir = m.pdir /\ e.ptab = m.ptab /\ e.table = m.table /\ e.cr3 = m.cr3
      /\ e.currentSpace = m.currentSpace /\ e.stale = m.stale /\ Shape(e)
  BY DEF SameButSpace
<1>10. TabMem(e)
  <2>1. TabMem(m)
    BY <1>1 DEF TabMem
  <2> QED BY ONLY <1>9, <2>1, TabMemSame
<1>11. /\ TabMem(w) /\ Kept(e, w, X) /\ w.num \in Int /\ w.num >= e.num
       /\ (\A c : c \in DOMAIN w.pdir <=> c \in DOMAIN e.pdir /\ c # d)
       /\ w.objs = e.objs /\ w.partials = e.partials /\ w.space = e.space
       /\ w.mapping = e.mapping /\ w.table = e.table /\ w.cr3 = e.cr3
       /\ w.currentSpace = e.currentSpace /\ w.stale = (e.stale \/ e.cr3 = d)
  <2>1. /\ d \in DOMAIN e.pdir /\ w = freePdir(e, d, U) /\ U \in SUBSET Loc
        /\ \A k : UtcbPage(d, k) \in UtcbsIn(e.ptab) => k \in U
    BY <1>2, <1>5, <1>6, <1>9
  <2>2. TabMem(w) /\ Kept(e, w, PlacesOf(d))
    BY ONLY <1>10, <2>1, DirectoryFreed
  <2>3. Kept(e, w, X)
    BY <1>7, <2>2
  <2>4. w.num \in Int /\ w.num >= e.num
    BY ONLY <1>10, <2>1, DirectoryFreed
  <2>5. \A c : c \in DOMAIN w.pdir <=> c \in DOMAIN e.pdir /\ c # d
    BY ONLY <1>10, <2>1, DirectoryFreed
  <2>6. /\ w.objs = e.objs /\ w.partials = e.partials /\ w.space = e.space
        /\ w.mapping = e.mapping /\ w.table = e.table /\ w.cr3 = e.cr3
        /\ w.currentSpace = e.currentSpace /\ w.stale = (e.stale \/ e.cr3 = d)
    BY ONLY <1>10, <2>1, DirectoryFreed
  <2> QED BY <2>2, <2>3, <2>4, <2>5, <2>6, Zenon
<1>12. PICK space, space2, utcb : space = m.space /\ space2 = w.space /\ utcb = T[t].utcb
  OBVIOUS
<1>13. DOMAIN space2 = DOMAIN space
  <2>1. space2 = Left(space, sp, utcb)
    BY <1>11, <1>12
  <2> QED BY ONLY <2>1, LeftDomain
<1>14. LET v == Left(space, sp, utcb) IN
      /\ v \in [DOMAIN v -> SpaceSet]
      /\ (\A s \in DOMAIN space : /\ v[s].area = space[s].area /\ v[s].pdir = space[s].pdir
                                  /\ v[s].loaded = space[s].loaded
                                  /\ s # sp => v[s] = space[s])
      /\ v[sp].count = space[sp].count - 1
      /\ utcb = None => v[sp].active = space[sp].active
      /\ utcb # None => v[sp].active = space[sp].active - 1
  <2>1. sp \in DOMAIN space /\ space \in [DOMAIN space -> SpaceSet] /\ space[sp].count # 0
        /\ (utcb # None => space[sp].active # 0)
    BY <1>3, <1>4, <1>12
  <2> QED BY ONLY <2>1, LeftFacts
<1>15. space2 = Left(space, sp, utcb) /\ utcb # None
  BY <1>11, <1>12
<1>16. space2 \in [DOMAIN space2 -> SpaceSet]
  BY <1>14, <1>15
<1>17. \A s \in DOMAIN space : /\ space2[s].area = space[s].area /\ space2[s].pdir = space[s].pdir
                               /\ space2[s].loaded = space[s].loaded
                               /\ s # sp => space2[s] = space[s]
  BY <1>14, <1>15
<1>18. space2[sp].active = 0
  <2>1. space2[sp].active = space[sp].active - 1
    BY <1>14, <1>15
  <2> QED BY <1>12, <2>1
<1>19. Kept(m, w, X)
  <2>1. Kept(e, w, X) /\ e.pdir = m.pdir /\ e.ptab = m.ptab
    BY <1>9, <1>11
  <2> QED BY ONLY <2>1 DEF Kept
<1>20. \A s \in DOMAIN space : s # sp => DirectoryPage(s) # d
  BY <1>2 DEF DirectoryPage
<1>21. SpaceInv(space2, w.pdir, w.ptab)
  <2>1. \A s \in DOMAIN space2 :
         /\ space2[s].pdir \in {None, DirectoryPage(s)}
         /\ space2[s].pdir # None => space2[s].area # None
    <3>1. SpaceInv(space, m.pdir, m.ptab)
      BY <1>1, <1>12
    <3>2. \A s \in DOMAIN space :
            /\ space[s].pdir \in {None, DirectoryPage(s)}
            /\ space[s].pdir # None => space[s].area # None
      BY ONLY <3>1 DEF SpaceInv
    <3> QED BY ONLY <1>13, <1>17, <3>2
  <2>2. ASSUME NEW s \in DOMAIN space2, space2[s].active # 0
        PROVE  /\ space2[s].pdir # None
               /\ HasUtcb(w.pdir, w.ptab, s, space2[s].area)
    <3>1. s # sp /\ s \in DOMAIN space /\ space2[s] = space[s] /\ space[s].active # 0
      BY <1>13, <1>17, <1>18, <2>2
    <3>2. space[s].pdir # None /\ HasUtcb(m.pdir, m.ptab, s, space[s].area) /\ space[s].area \in Area
      <4>1. SpaceInv(space, m.pdir, m.ptab)
        BY <1>1, <1>12
      <4> QED BY <3>1, <4>1, AreaFacts, Zenon DEF SpaceInv
    <3>3. \A k \in Loc : <<DirectoryPage(s), k>> \notin X
      BY <1>8, <1>20, <3>1
    <3>4. HasUtcb(w.pdir, w.ptab, s, space[s].area)
      BY ONLY <1>19, <3>2, <3>3, HasUtcbKept
    <3> QED BY <3>1, <3>2, <3>4
  <2>3. ASSUME NEW c \in DOMAIN w.pdir
        PROVE  \E s \in DOMAIN space2 : c = DirectoryPage(s) /\ space2[s].active # 0
    <3>1. c \in DOMAIN m.pdir /\ c # d
      BY <1>9, <1>11, <2>3, Zenon
    <3>2. PICK s \in DOMAIN space : c = DirectoryPage(s) /\ space[s].active # 0
      BY <1>1, <1>12, <3>1 DEF SpaceInv
    <3>3. s # sp
      BY <1>2, <3>1, <3>2
    <3> QED BY <1>13, <1>17, <3>2, <3>3
  <2>4. DOMAIN space2 \subseteq Object
    BY <1>4, <1>12, <1>13
  <2> QED BY <1>16, <2>1, <2>2, <2>3, <2>4, Zenon DEF SpaceInv
<1>22. MapInv(w.mapping, space2)
  <2>1. w.mapping = m.mapping
    BY <1>11
  <2>2. m.mapping \in [DOMAIN m.mapping -> [space : DOMAIN space, loc : Loc]]
    BY <1>1, <1>12 DEF MapInv
  <2>3. m.mapping \in [DOMAIN m.mapping -> [space : DOMAIN space2, loc : Loc]]
    BY <2>2, <1>13
  <2>4. \A o \in DOMAIN m.mapping : m.mapping[o].space \in DOMAIN space /\ m.mapping[o].space # sp
    BY <2>2
  <2>5. \A o \in DOMAIN m.mapping : LET s == m.mapping[o].space IN
          space2[s].active # 0 /\ m.mapping[o].loc \notin space2[s].area.utcb
    <3>1. MapInv(m.mapping, space)
      BY <1>1, <1>12
    <3>2. \A o \in DOMAIN m.mapping : LET s == m.mapping[o].space IN
            space[s].active # 0 /\ m.mapping[o].loc \notin space[s].area.utcb
      BY ONLY <3>1 DEF MapInv
    <3> QED BY ONLY <1>17, <2>4, <3>2
  <2> QED BY <2>1, <2>3, <2>5, Zenon DEF MapInv
<1>23. LoadInv(space2, w.cr3, w.currentSpace, w.stale)
  <2>1. w.cr3 = m.cr3 /\ w.currentSpace = m.currentSpace /\ w.stale = (m.stale \/ m.cr3 = d)
    BY <1>9, <1>11
  <2>2. m.stale \in BOOLEAN
    BY <1>1 DEF LoadInv
  <2>3. ASSUME m.currentSpace \in DOMAIN space2, space2[m.currentSpace].active # 0,
               space2[m.currentSpace].loaded
        PROVE  m.cr3 = space2[m.currentSpace].pdir /\ ~w.stale
    <3>1. PICK c : c = m.currentSpace
      OBVIOUS
    <3>2. c \in DOMAIN space /\ c # sp /\ space2[c] = space[c]
      BY <1>13, <1>17, <1>18, <2>3, <3>1
    <3>3. space[c].active # 0 /\ space[c].loaded
      BY <2>3, <3>1, <3>2
    <3>4. m.cr3 = space[c].pdir /\ ~m.stale
      BY <1>1, <1>12, <3>1, <3>2, <3>3 DEF LoadInv
    <3>5. space[c].pdir = DirectoryPage(c)
      <4>1. SpaceInv(space, m.pdir, m.ptab)
        BY <1>1, <1>12
      <4> QED BY <3>2, <3>3, <4>1, AreaFacts
    <3>6. m.cr3 # d
      BY <1>20, <3>2, <3>4, <3>5
    <3> QED BY <2>1, <3>1, <3>2, <3>4, <3>6, Zenon
  <2>4. w.stale \in BOOLEAN
    BY <2>1, <2>2, Zenon
  <2> QED BY <2>1, <2>3, <2>4 DEF LoadInv
<1>24. ThreadInv(space2, Dropped(T, t))
  <2>1. ThreadInv(space, T) /\ space \in [DOMAIN space -> SpaceSet]
    BY <1>1, <1>4, <1>12
  <2> QED BY <1>12, <1>15, <2>1, ThreadLeaves
<1>25. Objects(w, K) = Objects(m, K) /\ Apart(w, K)
  BY <1>1, <1>11, <1>12, <1>13, Zenon DEF Objects, Apart
<1>27. UtcbInv(w.ptab, Dropped(T, t))
  <2>1. PICK D : D = Dropped(T, t)
    OBVIOUS
  <2>2. UtcbInv(m.ptab, D) /\ ThreadInv(space2, D)
    BY <1>24, <2>1, MemParts, UtcbsLeft
  <2>3. Actives(D, sp) = {}
    BY <1>3, <1>12, <1>13, <1>18, <2>2, NoActives
  <2> SUFFICES ASSUME NEW y \in DOMAIN D, D[y].utcb # None
               PROVE  D[y].utcb \in UtcbsIn(w.ptab)
    BY <2>1 DEF UtcbInv
  <2>4. PICK s \in DOMAIN space2 : s = D[y].space
    BY <2>2 DEF ThreadInv
  <2>5. PICK l : D[y].utcb = UtcbPage(DirectoryPage(s), l)
    BY <2>2, <2>4 DEF ThreadInv
  <2>6. s # sp
    BY <2>3, <2>4 DEF Actives
  <2>7. <<DirectoryPage(s), l>> \notin X
    BY <1>8, <1>13, <1>20, <2>4, <2>6
  <2>8. D[y].utcb \in UtcbsIn(m.ptab)
    BY <2>2 DEF UtcbInv
  <2> QED BY <1>19, <2>5, <2>7, <2>8 DEF Kept
<1>26. MemInv(w, Dropped(T, t), S, K)
  <2>1. w.objs = m.objs /\ w.partials = m.partials /\ w.table = m.table
    BY <1>9, <1>11
  <2>2. SpaceInv(w.space, w.pdir, w.ptab) /\ ThreadInv(w.space, Dropped(T, t))
        /\ UtcbInv(w.ptab, Dropped(T, t))
        /\ MapInv(w.mapping, w.space) /\ LoadInv(w.space, w.cr3, w.currentSpace, w.stale)
    BY <1>12, <1>21, <1>22, <1>23, <1>24, <1>27
  <2>3. MemInv(m, T, S, K)
    OBVIOUS
  <2> QED BY ONLY <1>11, <1>25, <2>1, <2>2, <2>3, TablesChanged
<1> QED BY <1>9, <1>11, <1>26

LEMMA DroppedEntries ==
  ASSUME NEW f, NEW x
  PROVE  /\ \A s : s \in DOMAIN Dropped(f, x) <=> s \in DOMAIN f /\ s # x
         /\ \A s \in DOMAIN Dropped(f, x) : Dropped(f, x)[s] = f[s]
<1>1. PICK w : w = Dropped(f, x)
  OBVIOUS
<1>2. DOMAIN w = (DOMAIN f) \ {x}
  BY <1>1, DroppedDomain
<1>3. \A s \in DOMAIN f : s # x => w[s] = f[s]
  BY <1>1, DroppedFacts
<1>4. /\ \A s : s \in DOMAIN w <=> s \in DOMAIN f /\ s # x
      /\ \A s \in DOMAIN w : w[s] = f[s]
  BY <1>2, <1>3
<1> QED BY <1>1, <1>4

LEMMA NoThreads ==
  ASSUME NEW space, NEW T, ThreadInv(space, T), NEW sp \in DOMAIN space
  PROVE  /\ space[sp].count = 0 <=> Threads(T, sp) = {}
         /\ Threads(T, sp) = {} => space[sp].active = 0
<1>1. /\ IsFiniteSet(DOMAIN T)
      /\ space[sp].count = Cardinality(Threads(T, sp))
      /\ space[sp].active = Cardinality(Actives(T, sp))
  BY DEF ThreadInv
<1>2. IsFiniteSet(Threads(T, sp)) /\ IsFiniteSet(Actives(T, sp))
  BY <1>1, ThreadSets
<1>3. Actives(T, sp) \subseteq Threads(T, sp)
  BY DEF Actives, Threads
<1>4. PICK R, A : R = Threads(T, sp) /\ A = Actives(T, sp)
  OBVIOUS
<1>5. (Cardinality(R) = 0 <=> R = {}) /\ (Cardinality(A) = 0 <=> A = {})
  BY <1>2, <1>4, FS_EmptySet
<1> QED BY <1>1, <1>3, <1>4, <1>5

LEMMA SpaceDropped ==
  ASSUME NEW space, NEW pdir, NEW ptab, SpaceInv(space, pdir, ptab), NEW sp \in DOMAIN space,
         space[sp].active = 0
  PROVE  SpaceInv(Dropped(space, sp), pdir, ptab)
<1>1. PICK w : w = Dropped(space, sp)
  OBVIOUS
<1>2. /\ \A s : s \in DOMAIN w <=> s \in DOMAIN space /\ s # sp
      /\ \A s \in DOMAIN w : w[s] = space[s]
  BY <1>1, DroppedEntries
<1>3. w \in [DOMAIN w -> SpaceSet]
  <2>1. \A s \in DOMAIN space : s # sp => space[s] \in SpaceSet
    BY DEF SpaceInv
  <2>2. PICK F : F = SpaceSet
    OBVIOUS
  <2>3. \A s \in DOMAIN space : s # sp => space[s] \in F
    BY <2>1, <2>2
  <2>4. Dropped(space, sp) \in [(DOMAIN space) \ {sp} -> F]
    BY <2>3, DroppedType, Zenon
  <2>5. DOMAIN w = (DOMAIN space) \ {sp}
    BY <1>1, DroppedDomain
  <2> QED BY <1>1, <2>2, <2>4, <2>5
<1>4. DOMAIN w \subseteq Object
  BY <1>2 DEF SpaceInv
<1>5. \A s \in DOMAIN w :
       /\ w[s].pdir \in {None, DirectoryPage(s)}
       /\ w[s].pdir # None => w[s].area # None
       /\ w[s].active # 0 => /\ w[s].pdir # None
                             /\ HasUtcb(pdir, ptab, s, w[s].area)
  BY <1>2 DEF SpaceInv
<1>6. \A d \in DOMAIN pdir : \E s \in DOMAIN w : d = DirectoryPage(s) /\ w[s].active # 0
  <2> SUFFICES ASSUME NEW d \in DOMAIN pdir
               PROVE  \E s \in DOMAIN w : d = DirectoryPage(s) /\ w[s].active # 0
    OBVIOUS
  <2>1. PICK s \in DOMAIN space : d = DirectoryPage(s) /\ space[s].active # 0
    BY DEF SpaceInv
  <2>2. s # sp
    BY <2>1
  <2> QED BY <1>2, <2>1, <2>2
<1>7. SpaceInv(w, pdir, ptab)
  BY <1>3, <1>4, <1>5, <1>6 DEF SpaceInv
<1> QED BY <1>1, <1>7

LEMMA ThreadsSpaceDropped ==
  ASSUME NEW space, NEW T, ThreadInv(space, T), NEW sp \in DOMAIN space, Threads(T, sp) = {}
  PROVE  ThreadInv(Dropped(space, sp), T)
<1>1. PICK w : w = Dropped(space, sp)
  OBVIOUS
<1>2. /\ \A s : s \in DOMAIN w <=> s \in DOMAIN space /\ s # sp
      /\ \A s \in DOMAIN w : w[s] = space[s]
  BY <1>1, DroppedEntries
<1>3. /\ IsFiniteSet(DOMAIN T) /\ DOMAIN T \subseteq Thread
      /\ T \in [DOMAIN T -> [space : DOMAIN space, utcb : Utcbs \cup {None}]]
  BY DEF ThreadInv
<1>4. \A t \in DOMAIN T : T[t].space \in DOMAIN w
  <2> SUFFICES ASSUME NEW t \in DOMAIN T
               PROVE  T[t].space \in DOMAIN w
    OBVIOUS
  <2>1. T[t].space # sp
    BY DEF Threads
  <2>2. T[t].space \in DOMAIN space
    BY <1>3
  <2> QED BY <1>2, <2>1, <2>2
<1>5. T \in [DOMAIN T -> [space : DOMAIN w, utcb : Utcbs \cup {None}]]
  <2>1. \A t \in DOMAIN T : T[t] \in [space : DOMAIN w, utcb : Utcbs \cup {None}]
    BY <1>3, <1>4
  <2> QED BY <1>3, <2>1
<1>6. \A s \in DOMAIN w : /\ w[s].count = Cardinality(Threads(T, s))
                          /\ w[s].active = Cardinality(Actives(T, s))
  BY <1>2 DEF ThreadInv
<1>7. \A t \in DOMAIN T : T[t].utcb # None =>
        \E l \in w[T[t].space].area.utcb : T[t].utcb = UtcbPage(DirectoryPage(T[t].space), l)
  BY <1>2, <1>4 DEF ThreadInv
<1>8. ThreadInv(w, T)
  BY <1>3, <1>5, <1>6, <1>7 DEF ThreadInv
<1> QED BY <1>1, <1>8

\* A space without threads is freed.
LEMMA RemoveSpace ==
  ASSUME NEW m, NEW T, NEW S, NEW K, MemInv(m, T, S, K), NEW sp \in DOMAIN m.space,
         m.space[sp].count = 0,
         NEW w, w = freeObject([m EXCEPT !.space = Dropped(@, sp)], sp)
  PROVE  /\ MemInv(w, T, S, K) /\ w.num \in {m.num, m.num + 1}
         /\ w.space = Dropped(m.space, sp) /\ w.currentSpace = m.currentSpace
<1>1. /\ Shape(m) /\ Apart(m, K) /\ SpaceInv(m.space, m.pdir, m.ptab)
      /\ ThreadInv(m.space, T) /\ MapInv(m.mapping, m.space)
      /\ LoadInv(m.space, m.cr3, m.currentSpace, m.stale)
  BY MemParts
<1>2. PICK space, space2 : space = m.space /\ space2 = Dropped(space, sp)
  OBVIOUS
<1>3. sp \in DOMAIN space /\ Threads(T, sp) = {} /\ space[sp].active = 0
  <2>1. ThreadInv(space, T) /\ sp \in DOMAIN space
    BY <1>1, <1>2
  <2> QED BY <1>2, <2>1, NoThreads
<1>4. /\ \A s : s \in DOMAIN space2 <=> s \in DOMAIN space /\ s # sp
      /\ \A s \in DOMAIN space2 : space2[s] = space[s]
  BY <1>2, DroppedEntries
<1>5. PICK c : c = [m EXCEPT !.space = space2]
  BY Zenon
<1>6. SameButSpace(m, c) /\ c.space = space2 /\ c.mapping = m.mapping
  BY <1>1, <1>5 DEF Shape, SameButSpace
<1>7. SpaceInv(space2, m.pdir, m.ptab)
  BY <1>1, <1>2, <1>3, SpaceDropped
<1>8. ThreadInv(space2, T)
  BY <1>1, <1>2, <1>3, ThreadsSpaceDropped
<1>9. MapInv(m.mapping, space2)
  <2>1. MapInv(m.mapping, space)
    BY <1>1, <1>2
  <2>2. m.mapping \in [DOMAIN m.mapping -> [space : DOMAIN space, loc : Loc]]
    BY <2>1 DEF MapInv
  <2>3. \A o \in DOMAIN m.mapping : LET s == m.mapping[o].space IN
          s \in DOMAIN space /\ space[s].active # 0 /\ m.mapping[o].loc \notin space[s].area.utcb
    BY <2>1, <2>2 DEF MapInv
  <2>4. \A o \in DOMAIN m.mapping : m.mapping[o].space \in DOMAIN space2
    BY <1>3, <1>4, <2>3
  <2>5. m.mapping \in [DOMAIN m.mapping -> [space : DOMAIN space2, loc : Loc]]
    <3>1. \A o \in DOMAIN m.mapping : m.mapping[o] \in [space : DOMAIN space2, loc : Loc]
      BY <2>2, <2>4
    <3> QED BY <2>2, <3>1
  <2>6. \A o \in DOMAIN m.mapping : LET s == m.mapping[o].space IN
          space2[s].active # 0 /\ m.mapping[o].loc \notin space2[s].area.utcb
    BY <1>4, <2>3, <2>4
  <2> QED BY <2>5, <2>6 DEF MapInv
<1>10. LoadInv(space2, m.cr3, m.currentSpace, m.stale)
  <2>1. LoadInv(space, m.cr3, m.currentSpace, m.stale)
    BY <1>1, <1>2
  <2> QED BY ONLY <1>4, <2>1 DEF LoadInv
<1>11. Objects(c, K \cup {sp}) = Objects(m, K) /\ Apart(c, K \cup {sp}) /\ sp \notin K
  <2>1. /\ DOMAIN space \cap DOMAIN m.mapping = {} /\ DOMAIN space \cap K = {}
        /\ DOMAIN m.mapping \cap K = {}
    BY <1>1, <1>2 DEF Apart
  <2>2. PICK D, D2, M : D = DOMAIN space /\ D2 = DOMAIN space2 /\ M = DOMAIN m.mapping
    OBVIOUS
  <2>3. sp \in D /\ D2 = D \ {sp} /\ D \cap M = {} /\ D \cap K = {} /\ M \cap K = {}
    BY <1>3, <1>4, <2>1, <2>2, Zenon
  <2>4. D2 \cup M \cup (K \cup {sp}) = D \cup M \cup K /\ sp \notin K
    BY ONLY <2>3
  <2>5. D2 \cap M = {} /\ D2 \cap (K \cup {sp}) = {} /\ M \cap (K \cup {sp}) = {}
    BY ONLY <2>3
  <2> QED BY <1>2, <1>6, <2>2, <2>4, <2>5 DEF Objects, Apart
<1>12. MemInv(c, T, S, K \cup {sp})
  <2>1. SpaceInv(c.space, m.pdir, m.ptab) /\ ThreadInv(c.space, T) /\ MapInv(c.mapping, c.space)
        /\ LoadInv(c.space, m.cr3, m.currentSpace, m.stale) /\ UtcbInv(m.ptab, T)
    BY <1>6, <1>7, <1>8, <1>9, <1>10, MemParts
  <2>2. MemInv(m, T, S, K)
    OBVIOUS
  <2> QED BY ONLY <1>6, <1>11, <2>1, <2>2, SpacesChanged
<1>13. w = freeObject(c, sp)
  BY <1>2, <1>5
<1>14. /\ MemInv(w, T, S, (K \cup {sp}) \ {sp}) /\ SameRest(c, w) /\ w.num \in {c.num, c.num + 1}
  <2>1. sp \in K \cup {sp}
    OBVIOUS
  <2> QED BY ONLY <1>12, <1>13, <2>1, Release
<1>15. (K \cup {sp}) \ {sp} = K
  BY <1>11
<1>16. w.space = c.space /\ w.currentSpace = c.currentSpace /\ c.currentSpace = m.currentSpace
       /\ c.num = m.num
  BY <1>6, <1>14 DEF SameRest, SameButSpace
<1> QED BY <1>2, <1>6, <1>14, <1>15, <1>16

\* The memory when a thread with "utcb" has left space sp.
Leaving(m, sp, utcb) ==
  [m EXCEPT !.space[sp].count  = @ - 1,
            !.space[sp].active = IF utcb = None THEN @ ELSE @ - 1]

LEMMA ThreadLeavesSpace ==
  ASSUME NEW m, Shape(m), NEW sp \in DOMAIN m.space, NEW utcb,
         NEW e, e = Leaving(m, sp, utcb)
  PROVE  SameButSpace(m, e) /\ e.mapping = m.mapping /\ e.space = Left(m.space, sp, utcb)
<1>1. e = [m EXCEPT !.space = Left(m.space, sp, utcb)]
  BY Zenon DEF Shape, Left, Leaving
<1> QED BY <1>1 DEF Shape, SameButSpace

\* A set of mappings is flushed, in any order.
LEMMA FlushSet ==
  ASSUME NEW m, NEW T, NEW S, NEW K, MemInv(m, T, S, K), NEW gone,
         gone \subseteq DOMAIN m.mapping, NEW list \in SetToSeqs(gone),
         NEW w, w = flushAll(m, list)
  PROVE  MemInv(w, T, S, K) /\ Flushed(m, w, gone)
<1>1. IsFiniteSet(gone)
  BY MappingsFinite, FS_Subset
<1>2. PICK n \in Nat : /\ n = Len(list) /\ (\A i \in 1..n : list[i] \in gone)
                       /\ (\A i, j \in 1..n : i # j => list[i] # list[j])
                       /\ {list[i] : i \in 1..n} = gone
  BY <1>1, ListOfSet
<1>3. OneByOne(list, n, gone)
  BY <1>2 DEF OneByOne
<1> QED BY <1>3, FlushAll

\* Sigma0's space when a thread leaves a space, and when a space goes.
LEMMA PrivLeft ==
  ASSUME NEW space, space \in [DOMAIN space -> SpaceSet], NEW T, ThreadInv(space, T),
         NEW t \in DOMAIN T, NEW sp, sp = T[t].space, PrivInv(space)
  PROVE  PrivInv(Left(space, sp, T[t].utcb))
<1>1. PICK v : v = Left(space, sp, T[t].utcb)
  OBVIOUS
<1>2. DOMAIN v = DOMAIN space
  BY <1>1, LeftDomain
<1>3. \A s \in DOMAIN space : v[s].area = space[s].area /\ v[s].pdir = space[s].pdir
  <2>1. /\ sp \in DOMAIN space /\ space[sp].count # 0
        /\ (T[t].utcb # None => space[sp].active # 0)
    BY Counted
  <2>2. PICK utcb : utcb = T[t].utcb
    OBVIOUS
  <2>3. \A s \in DOMAIN space : /\ Left(space, sp, utcb)[s].area = space[s].area
                                /\ Left(space, sp, utcb)[s].pdir = space[s].pdir
    BY <2>1, <2>2, LeftFacts
  <2> QED BY <1>1, <2>2, <2>3
<1> QED BY <1>1, <1>2, <1>3 DEF PrivInv

LEMMA PrivLike ==
  ASSUME NEW space, NEW w, LikeSpaces(space, w), PrivInv(space)
  PROVE  PrivInv(w)
BY DEF LikeSpaces, PrivInv

LEMMA PrivDropped ==
  ASSUME NEW space, NEW sp, ~privileged(sp), PrivInv(space)
  PROVE  PrivInv(Dropped(space, sp))
<1>1. PICK w : w = Dropped(space, sp)
  OBVIOUS
<1>2. /\ \A x : x \in DOMAIN w <=> x \in DOMAIN space /\ x # sp
      /\ \A x \in DOMAIN w : w[x] = space[x]
  BY <1>1, DroppedEntries
<1>3. sigma0Space # sp
  BY DEF privileged
<1> QED BY <1>1, <1>2, <1>3 DEF PrivInv

\* Spaces like those of m, but for sp that may be gone when it has no threads.
LEMMA StillInhabited ==
  ASSUME NEW space, NEW w, NEW T, ThreadInv(space, T), NEW t \in DOMAIN T, NEW sp, sp = T[t].space,
         Inhabited(space, T), \A s \in DOMAIN w : s \in DOMAIN space, PrivInv(w),
         sp \in DOMAIN w => privileged(sp) \/ Threads(Dropped(T, t), sp) # {}
  PROVE  Inhabited(w, Dropped(T, t))
<1>1. PICK T2 : T2 = Dropped(T, t)
  OBVIOUS
<1>2. /\ \A x : x \in DOMAIN T2 <=> x \in DOMAIN T /\ x # t
      /\ \A x \in DOMAIN T2 : T2[x] = T[x]
  BY <1>1, DroppedEntries
<1>3. ASSUME NEW s \in DOMAIN w, s # sp, ~privileged(s)
      PROVE  Threads(T2, s) # {}
  <2>1. Threads(T, s) # {}
    BY <1>3 DEF Inhabited
  <2>2. PICK x \in DOMAIN T : T[x].space = s
    BY <2>1 DEF Threads
  <2>3. x # t
    BY <1>3, <2>2
  <2>4. x \in DOMAIN T2 /\ T2[x].space = s
    BY <1>2, <2>2, <2>3
  <2> QED BY <2>4 DEF Threads
<1> QED BY <1>1, <1>3 DEF Inhabited

\* The last two steps of exitSpace.
LEMMA SpaceExited ==
  ASSUME NEW m, NEW T, NEW S, NEW K, ThreadInv(m.space, T), NEW t \in DOMAIN T,
         NEW sp, sp = T[t].space, NEW d, MemInv(d, Dropped(T, t), S, K),
         DOMAIN d.space = DOMAIN m.space, PrivInv(m.space) => PrivInv(d.space),
         NEW w, w = IF d.space[sp].count = 0 /\ ~privileged(sp)
                    THEN freeObject([d EXCEPT !.space = Dropped(@, sp)], sp)
                    ELSE d
  PROVE  /\ MemInv(w, Dropped(T, t), S, K) /\ w.num \in {d.num, d.num + 1}
         /\ w.currentSpace = d.currentSpace
         /\ Inhabited(m.space, T) => Inhabited(w.space, Dropped(T, t))
<1>1. sp \in DOMAIN d.space
  BY ThreadFacts
<1>2. PICK T2 : T2 = Dropped(T, t)
  OBVIOUS
<1>3. ThreadInv(d.space, T2)
  BY <1>2, MemParts
<1>4. d.space[sp].count = 0 <=> Threads(T2, sp) = {}
  BY <1>1, <1>3, NoThreads
<1>5. CASE d.space[sp].count = 0 /\ ~privileged(sp)
  <2>1. w = freeObject([d EXCEPT !.space = Dropped(@, sp)], sp)
    BY <1>5
  <2>2. /\ MemInv(w, T2, S, K) /\ w.num \in {d.num, d.num + 1}
        /\ w.space = Dropped(d.space, sp) /\ w.currentSpace = d.currentSpace
    <3>1. MemInv(d, T2, S, K) /\ d.space[sp].count = 0
      BY <1>2, <1>5
    <3> QED BY ONLY <1>1, <2>1, <3>1, RemoveSpace
  <2>3. sp \notin DOMAIN w.space /\ \A s \in DOMAIN w.space : s \in DOMAIN m.space
    BY <2>2, DroppedEntries
  <2>4. PrivInv(m.space) => PrivInv(w.space)
    <3>1. PICK space, v : space = d.space /\ v = Dropped(space, sp) /\ v = w.space
      BY <2>2
    <3>2. PrivInv(space) => PrivInv(v)
      BY <1>5, <3>1, PrivDropped
    <3> QED BY <3>1, <3>2
  <2>5. Inhabited(m.space, T) => Inhabited(w.space, T2)
    <3>1. Inhabited(m.space, T) => PrivInv(w.space)
      BY <2>4 DEF Inhabited
    <3> QED BY <1>2, <2>3, <3>1, StillInhabited
  <2> QED BY <1>2, <2>2, <2>5
<1>6. CASE ~(d.space[sp].count = 0 /\ ~privileged(sp))
  <2>1. w = d
    BY <1>6
  <2>2. privileged(sp) \/ Threads(T2, sp) # {}
    BY <1>4, <1>6
  <2>3. \A s \in DOMAIN w.space : s \in DOMAIN m.space
    BY <2>1
  <2>4. Inhabited(m.space, T) => Inhabited(w.space, T2)
    <3>1. Inhabited(m.space, T) => PrivInv(w.space)
      BY <2>1 DEF Inhabited
    <3> QED BY <1>2, <2>2, <2>3, <3>1, StillInhabited, Zenon
  <2> QED BY <1>2, <2>1, <2>4
<1> QED BY <1>5, <1>6

LEMMA ExitSpace ==
  ASSUME NEW m, NEW T, NEW S, NEW K, MemInv(m, T, S, K), NEW t \in DOMAIN T,
         NEW sp, sp = T[t].space, NEW utcb, utcb = T[t].utcb,
         NEW gone, gone \subseteq DOMAIN m.mapping, Held(m, sp) \subseteq gone,
         NEW list \in SetToSeqs(gone), NEW w, w = exitSpace(m, sp, utcb, list)
  PROVE  /\ MemInv(w, Dropped(T, t), S, K) /\ w.num \in Int /\ w.num >= m.num
         /\ w.currentSpace = m.currentSpace
         /\ Inhabited(m.space, T) => Inhabited(w.space, Dropped(T, t))
<1>1. /\ Shape(m) /\ SpaceInv(m.space, m.pdir, m.ptab) /\ ThreadInv(m.space, T) /\ m.num \in Int
  BY MemParts, NumInt
<1>2. sp \in DOMAIN m.space
  BY <1>1, ThreadFacts
<1> DEFINE last == utcb # None /\ m.space[sp].active = 1
           f == IF last THEN flushAll(m, list) ELSE m
           e == Leaving(f, sp, utcb)
           d == IF last THEN freePdir(e, e.space[sp].pdir, e.space[sp].area.utcb) ELSE e
<1>3. last <=> utcb # None /\ m.space[sp].active = 1
  OBVIOUS
<1>4. f = IF last THEN flushAll(m, list) ELSE m
  OBVIOUS
<1>5. e = Leaving(f, sp, utcb)
  OBVIOUS
<1>6. d = IF last THEN freePdir(e, e.space[sp].pdir, e.space[sp].area.utcb) ELSE e
  OBVIOUS
<1>7. w = IF d.space[sp].count = 0 /\ ~privileged(sp)
          THEN freeObject([d EXCEPT !.space = Dropped(@, sp)], sp) ELSE d
  BY Zenon DEF exitSpace, Leaving
<1> HIDE DEF last, f, e, d
<1>8. /\ MemInv(d, Dropped(T, t), S, K) /\ d.num \in Int /\ d.num >= m.num
      /\ d.currentSpace = m.currentSpace /\ DOMAIN d.space = DOMAIN m.space
      /\ PrivInv(m.space) => PrivInv(d.space)
  <2>1. CASE ~last
    <3>1. f = m /\ d = e
      BY <1>4, <1>6, <2>1
    <3>2. e = Leaving(m, sp, utcb)
      BY <1>5, <3>1
    <3>3. SameButSpace(m, d) /\ d.mapping = m.mapping /\ d.space = Left(m.space, sp, utcb)
      <4>1. d = Leaving(m, sp, utcb)
        BY <3>1, <3>2
      <4> QED BY ONLY <1>1, <1>2, <4>1, ThreadLeavesSpace
    <3>4. ~(T[t].utcb # None /\ m.space[sp].active = 1) /\ d.space = Left(m.space, sp, T[t].utcb)
      BY <1>3, <2>1, <3>3
    <3>5. MemInv(d, Dropped(T, t), S, K)
      <4>1. MemInv(m, T, S, K) /\ t \in DOMAIN T /\ sp = T[t].space
        OBVIOUS
      <4> QED BY ONLY <3>3, <3>4, <4>1, SpaceLeft
    <3>6. DOMAIN d.space = DOMAIN m.space
      BY <3>3, LeftDomain
    <3>7. PrivInv(m.space) => PrivInv(d.space)
      <4>1. PICK space, v : space = m.space /\ v = d.space
        OBVIOUS
      <4>2. /\ space \in [DOMAIN space -> SpaceSet] /\ ThreadInv(space, T)
            /\ v = Left(space, sp, T[t].utcb)
        BY <1>1, <3>4, <4>1 DEF SpaceInv
      <4>3. PrivInv(space) => PrivInv(v)
        BY <4>2, PrivLeft
      <4> QED BY <4>1, <4>3
    <3> QED BY <1>1, <3>3, <3>5, <3>6, <3>7 DEF SameButSpace
  <2>2. CASE last
    <3>1. f = flushAll(m, list)
      BY <1>4, <2>2
    <3>2. MemInv(f, T, S, K) /\ Flushed(m, f, gone)
      <4>1. MemInv(m, T, S, K) /\ gone \subseteq DOMAIN m.mapping /\ list \in SetToSeqs(gone)
        OBVIOUS
      <4> QED BY ONLY <3>1, <4>1, FlushSet
    <3>3. f.num \in Int /\ f.num >= m.num /\ f.currentSpace = m.currentSpace
          /\ LikeSpaces(m.space, f.space)
      BY <3>2, NumInt DEF Flushed
    <3>4. DOMAIN f.space = DOMAIN m.space /\ f.space[sp].active = 1
      BY <1>2, <1>3, <2>2, <3>3 DEF LikeSpaces
    <3>5. \A o \in DOMAIN f.mapping : f.mapping[o].space # sp
      <4>1. \A o \in DOMAIN f.mapping : o \in DOMAIN m.mapping /\ o \notin gone
                                        /\ f.mapping[o] = m.mapping[o]
        BY <3>2 DEF Flushed
      <4> QED BY <4>1 DEF Held
    <3>6. /\ Shape(f) /\ SpaceInv(f.space, f.pdir, f.ptab)
      BY <3>2, MemParts
    <3>7. /\ f.space[sp].pdir = DirectoryPage(sp) /\ f.space[sp].area \in Areas \cup {PrivArea}
      BY <1>2, <3>4, <3>6, AreaFacts
    <3>8. PICK U : U = f.space[sp].area.utcb
      OBVIOUS
    <3>9. SameButSpace(f, e) /\ e.mapping = f.mapping /\ e.space = Left(f.space, sp, utcb)
      <4>1. sp \in DOMAIN f.space
        BY <1>2, <3>4
      <4> QED BY ONLY <1>5, <3>6, <4>1, ThreadLeavesSpace
    <3>10. e.space[sp].pdir = DirectoryPage(sp) /\ e.space[sp].area.utcb = U
      <4>1. PICK space : space = f.space
        OBVIOUS
      <4>2. sp \in DOMAIN space /\ space[sp] \in SpaceSet
        BY <1>2, <3>4, <3>6, <4>1 DEF SpaceInv
      <4>3. PICK v : v = Left(space, sp, utcb)
        OBVIOUS
      <4>4. v[sp].pdir = space[sp].pdir /\ v[sp].area = space[sp].area
        BY <4>2, <4>3 DEF Left, SpaceSet
      <4> QED BY <3>7, <3>8, <3>9, <4>1, <4>3, <4>4
    <3>11. d = freePdir(e, DirectoryPage(sp), U)
      BY <1>6, <2>2, <3>10
    <3>12. /\ MemInv(d, Dropped(T, t), S, K) /\ d.num \in Int /\ d.num >= f.num
           /\ d.space = Left(f.space, sp, T[t].utcb) /\ d.currentSpace = f.currentSpace
      <4>1. /\ MemInv(f, T, S, K) /\ t \in DOMAIN T /\ sp = T[t].space /\ T[t].utcb # None
            /\ f.space[sp].active = 1 /\ U = f.space[sp].area.utcb
            /\ SameButSpace(f, e) /\ e.mapping = f.mapping /\ e.space = Left(f.space, sp, T[t].utcb)
        BY <1>3, <2>2, <3>2, <3>4, <3>8, <3>9
      <4> QED BY ONLY <3>5, <3>11, <4>1, LastLeft
    <3>13. DOMAIN d.space = DOMAIN m.space
      BY <3>4, <3>12, LeftDomain
    <3>14. PrivInv(m.space) => PrivInv(d.space)
      <4>1. PICK space, s2, v : space = m.space /\ s2 = f.space /\ v = d.space
        OBVIOUS
      <4>2. /\ s2 \in [DOMAIN s2 -> SpaceSet] /\ ThreadInv(s2, T)
            /\ v = Left(s2, sp, T[t].utcb)
        BY <3>2, <3>6, <3>12, <4>1, MemParts DEF SpaceInv
      <4>3. PrivInv(space) => PrivInv(s2)
        BY <3>3, <4>1, PrivLike
      <4>4. PrivInv(s2) => PrivInv(v)
        BY <4>2, PrivLeft
      <4> QED BY <4>1, <4>3, <4>4
    <3> QED BY <1>1, <3>3, <3>12, <3>13, <3>14
  <2> QED BY <2>1, <2>2
<1>9. /\ MemInv(w, Dropped(T, t), S, K) /\ w.num \in {d.num, d.num + 1}
      /\ w.currentSpace = d.currentSpace
      /\ Inhabited(m.space, T) => Inhabited(w.space, Dropped(T, t))
  <2>1. ThreadInv(m.space, T) /\ t \in DOMAIN T /\ sp = T[t].space
    BY <1>1
  <2> QED BY ONLY <1>7, <1>8, <2>1, SpaceExited
<1> QED BY <1>1, <1>8, <1>9

-----------------------------------------------------------------------------
(***************************************************************************)
(* The directory of TCBs.                                                  *)
(***************************************************************************)
LEMMA ResidentAdded ==
  ASSUME NEW S, IsFiniteSet(S), NEW t, t \notin S
  PROVE  /\ \A j : j # TableFor(t) => Residents(S \cup {t}, j) = Residents(S, j)
         /\ Cardinality(Residents(S, TableFor(t))) \in Nat
         /\ Cardinality(Residents(S \cup {t}, TableFor(t)))
              = Cardinality(Residents(S, TableFor(t))) + 1
         /\ Residents(S \cup {t}, TableFor(t)) # {}
<1>1. PICK R, Q : R = Residents(S, TableFor(t)) /\ Q = Residents(S \cup {t}, TableFor(t))
  OBVIOUS
<1>2. Q = R \cup {t} /\ t \notin R
  BY <1>1 DEF Residents
<1>3. IsFiniteSet(R)
  <2>1. R \subseteq S
    BY <1>1 DEF Residents
  <2> QED BY <2>1, FS_Subset
<1>4. Cardinality(R) \in Nat /\ Cardinality(Q) = Cardinality(R) + 1 /\ Q # {}
  BY <1>2, <1>3, FS_AddElement, FS_CardinalityType
<1>5. \A j : j # TableFor(t) => Residents(S \cup {t}, j) = Residents(S, j)
  BY DEF Residents
<1> QED BY <1>1, <1>4, <1>5

LEMMA TcbAdded ==
  ASSUME NEW table, NEW S, TcbInv(table, S), NEW t \in Thread, t \notin S,
         NEW i, i = TableFor(t), NEW table2, table2 = [j \in DOMAIN table2 |-> table2[j]],
         \A j : j \in DOMAIN table2 <=> j \in DOMAIN table \/ j = i,
         \A j \in DOMAIN table : j # i => table2[j] = table[j],
         i \in DOMAIN table => table2[i] = table[i] + 1,
         i \notin DOMAIN table => table2[i] = 0 + 1
  PROVE  TcbInv(table2, S \cup {t})
<1>1. /\ S \subseteq Thread /\ IsFiniteSet(S)
      /\ (\A j : j \in DOMAIN table <=> Residents(S, j) # {})
      /\ \A j \in DOMAIN table : table[j] = Cardinality(Residents(S, j))
  BY DEF TcbInv
<1>2. PICK S2 : S2 = S \cup {t}
  BY Zenon
<1>3. /\ (\A j : j # i => Residents(S2, j) = Residents(S, j))
      /\ Cardinality(Residents(S2, i)) = Cardinality(Residents(S, i)) + 1
      /\ Residents(S2, i) # {}
  BY <1>1, <1>2, ResidentAdded
<1>4. table2[i] = Cardinality(Residents(S2, i))
  <2>1. CASE i \in DOMAIN table
    BY <1>1, <1>3, <2>1
  <2>2. CASE i \notin DOMAIN table
    <3>1. PICK R : R = Residents(S, i)
      OBVIOUS
    <3>2. R = {}
      BY <1>1, <2>2, <3>1
    <3>3. Cardinality(R) = 0
      BY <3>2, FS_EmptySet
    <3> QED BY <1>3, <2>2, <3>1, <3>3
  <2> QED BY <2>1, <2>2
<1>5. \A j \in DOMAIN table2 : table2[j] = Cardinality(Residents(S2, j))
  BY <1>1, <1>3, <1>4
<1>6. \A j : j \in DOMAIN table2 <=> Residents(S2, j) # {}
  BY <1>1, <1>3
<1>7. S2 \subseteq Thread /\ IsFiniteSet(S2)
  BY <1>1, <1>2, FS_AddElement
<1>8. table2 = [j \in DOMAIN table2 |-> Cardinality(Residents(S2, j))]
  BY <1>5
<1>9. TcbInv(table2, S2)
  BY <1>6, <1>7, <1>8 DEF TcbInv
<1> QED BY <1>2, <1>9

LEMMA TcbRemoved ==
  ASSUME NEW table, NEW S, TcbInv(table, S), NEW t \in S, NEW i, i = TableFor(t),
         NEW table2, table2 = [j \in DOMAIN table2 |-> table2[j]],
         \A j : j \in DOMAIN table2 <=> j \in DOMAIN table /\ (j = i => table[i] - 1 # 0),
         \A j \in DOMAIN table2 : j # i => table2[j] = table[j],
         i \in DOMAIN table2 => table2[i] = table[i] - 1
  PROVE  TcbInv(table2, S \ {t}) /\ i \in DOMAIN table
<1>1. /\ S \subseteq Thread /\ IsFiniteSet(S)
      /\ (\A j : j \in DOMAIN table <=> Residents(S, j) # {})
      /\ \A j \in DOMAIN table : table[j] = Cardinality(Residents(S, j))
  BY DEF TcbInv
<1>2. PICK S2 : S2 = S \ {t}
  BY Zenon
<1>3. S2 \cup {t} = S /\ t \notin S2 /\ S2 \subseteq Thread /\ IsFiniteSet(S2)
  BY <1>1, <1>2, FS_Subset
<1>4. /\ (\A j : j # i => Residents(S, j) = Residents(S2, j))
      /\ Cardinality(Residents(S2, i)) \in Nat
      /\ Cardinality(Residents(S, i)) = Cardinality(Residents(S2, i)) + 1
      /\ Residents(S, i) # {}
  <2>1. /\ (\A j : j # i => Residents(S2 \cup {t}, j) = Residents(S2, j))
        /\ Cardinality(Residents(S2, i)) \in Nat
        /\ Cardinality(Residents(S2 \cup {t}, i)) = Cardinality(Residents(S2, i)) + 1
        /\ Residents(S2 \cup {t}, i) # {}
    <3>1. i = TableFor(t)
      OBVIOUS
    <3>2. \A j : j # TableFor(t) => Residents(S2 \cup {t}, j) = Residents(S2, j)
      BY ONLY <1>3, ResidentAdded, Zenon
    <3>3. /\ Cardinality(Residents(S2, TableFor(t))) \in Nat
          /\ Cardinality(Residents(S2 \cup {t}, TableFor(t)))
               = Cardinality(Residents(S2, TableFor(t))) + 1
          /\ Residents(S2 \cup {t}, TableFor(t)) # {}
      BY ONLY <1>3, ResidentAdded, Zenon
    <3> QED BY ONLY <3>1, <3>2, <3>3, Zenon
  <2> QED BY <1>3, <2>1, Zenon
<1>5. i \in DOMAIN table /\ table[i] - 1 = Cardinality(Residents(S2, i))
  BY <1>1, <1>4
<1>6. Cardinality(Residents(S2, i)) # 0 <=> Residents(S2, i) # {}
  <2>1. PICK R : R = Residents(S2, i)
    OBVIOUS
  <2>2. IsFiniteSet(R)
    <3>1. R \subseteq S2
      BY <2>1 DEF Residents
    <3> QED BY <1>3, <3>1, FS_Subset
  <2>3. Cardinality(R) = 0 <=> R = {}
    BY <2>2, FS_EmptySet
  <2> QED BY <2>1, <2>3
<1>7. \A j : j \in DOMAIN table2 <=> Residents(S2, j) # {}
  BY <1>1, <1>4, <1>5, <1>6
<1>8. \A j \in DOMAIN table2 : table2[j] = Cardinality(Residents(S2, j))
  BY <1>1, <1>4, <1>5
<1>9. table2 = [j \in DOMAIN table2 |-> Cardinality(Residents(S2, j))]
  BY <1>8
<1>10. TcbInv(table2, S2)
  BY <1>3, <1>7, <1>9 DEF TcbInv
<1> QED BY <1>2, <1>5, <1>10

\* Fields other than the free pages and the directory of TCBs are the same.
SameButTcbs(m, w) ==
  /\ Shape(w) /\ w.objs = m.objs /\ w.partials = m.partials /\ w.space = m.space
  /\ w.mapping = m.mapping /\ w.pdir = m.pdir /\ w.ptab = m.ptab /\ w.cr3 = m.cr3
  /\ w.currentSpace = m.currentSpace /\ w.stale = m.stale

LEMMA TcbsChanged ==
  ASSUME NEW m, NEW w, NEW T, NEW S, NEW R, NEW K, MemInv(m, T, S, K), SameButTcbs(m, w),
         UsedInv(w), TcbInv(w.table, R)
  PROVE  MemInv(w, T, R, K)
<1>1. /\ ObjInv(m.objs, m.partials, Objects(m, K)) /\ Apart(m, K)
      /\ TabInv(m.pdir, m.ptab) /\ SpaceInv(m.space, m.pdir, m.ptab) /\ ThreadInv(m.space, T)
      /\ MapInv(m.mapping, m.space) /\ LoadInv(m.space, m.cr3, m.currentSpace, m.stale)
  BY MemParts
<1>2. Objects(w, K) = Objects(m, K) /\ Apart(w, K)
  BY <1>1 DEF Objects, Apart, SameButTcbs
<1> QED BY <1>1, <1>2 DEF MemInv, SameButTcbs

LEMMA TcbPageAdded ==
  ASSUME NEW m, NEW w, NEW i, \A j : j \in DOMAIN w.table <=> j \in DOMAIN m.table \/ j = i,
         w.objs = m.objs, w.pdir = m.pdir, w.ptab = m.ptab
  PROVE  InUse(w) = InUse(m) \cup {TCBPage(i)}
<1>1. \A x : x \in InUse(w) <=> x \in InUse(m) \/ x = TCBPage(i)
  BY InUseMember
<1> QED BY <1>1

LEMMA TcbPageRemoved ==
  ASSUME NEW m, NEW w, NEW i, \A j : j \in DOMAIN w.table <=> j \in DOMAIN m.table /\ j # i,
         w.objs = m.objs, w.pdir = m.pdir, w.ptab = m.ptab, TabInv(m.pdir, m.ptab)
  PROVE  InUse(w) = InUse(m) \ {TCBPage(i)}
<1>1. \A x : x \in InUse(w) <=> x \in InUse(m) /\ x # TCBPage(i)
  <2>1. \A x : x \in DOMAIN m.pdir \/ x \in DOMAIN m.ptab \/ x \in UtcbsIn(m.ptab) => x # TCBPage(i)
    BY TableNames DEF UtcbsIn, Directories, Tables, Utcbs, TCBPage
  <2>2. \A k : ObjectPage(k) # TCBPage(i)
    BY DEF ObjectPage, TCBPage
  <2>3. \A j : TCBPage(j) = TCBPage(i) <=> j = i
    BY DEF TCBPage
  <2> QED BY <2>1, <2>2, <2>3, InUseMember
<1> QED BY <1>1

\* One more TCB in the page of TCBs i.
Housed(m, i) ==
  LET w == IF i \in DOMAIN m.table THEN m
           ELSE [allocPage1(m, TCBPage(i)) EXCEPT !.table = With(@, i, 0)]
  IN [w EXCEPT !.table[i] = @ + 1]

LEMMA TcbHoused ==
  ASSUME NEW m, NEW T, NEW S, NEW K, MemInv(m, T, S, K), NEW t \in Thread, t \notin S,
         NEW w, w = Housed(m, TableFor(t))
  PROVE  /\ MemInv(w, T, S \cup {t}, K) /\ w.num \in {m.num, m.num - 1} /\ SameButTcbs(m, w)
<1>1. Shape(m) /\ UsedInv(m) /\ TabInv(m.pdir, m.ptab) /\ TcbInv(m.table, S)
  BY MemParts
<1>2. PICK i : i = TableFor(t)
  OBVIOUS
<1>3. PICK table : table = m.table
  OBVIOUS
<1>4. table = [j \in DOMAIN table |-> Cardinality(Residents(S, j))]
  BY <1>1, <1>3 DEF TcbInv
<1>5. CASE i \in DOMAIN table
  <2>1. w = [m EXCEPT !.table[i] = @ + 1]
    BY <1>2, <1>3, <1>5 DEF Housed
  <2>2. PICK table2 : table2 = [table EXCEPT ![i] = table[i] + 1]
    BY Zenon
  <2>3. w = [m EXCEPT !.table = table2]
    BY <1>1, <1>3, <2>1, <2>2 DEF Shape
  <2>4. w.table = table2 /\ w.num = m.num /\ w.used = m.used /\ SameButTcbs(m, w)
    BY <1>1, <2>3 DEF Shape, SameButTcbs
  <2>5. DOMAIN table2 = DOMAIN table /\ table2 = [j \in DOMAIN table2 |-> table2[j]]
    BY <2>2, Zenon
  <2>6. table2[i] = table[i] + 1 /\ \A j \in DOMAIN table : j # i => table2[j] = table[j]
    BY <1>5, <2>2
  <2>7. UsedInv(w)
    <3>1. w.objs = m.objs /\ w.pdir = m.pdir /\ w.ptab = m.ptab
      BY <2>4 DEF SameButTcbs
    <3>2. DOMAIN w.table = DOMAIN m.table
      BY <1>3, <2>4, <2>5
    <3>3. InUse(w) = InUse(m)
      BY <3>1, <3>2, SameInUse
    <3> QED BY <1>1, <2>4, <3>3, SameUsed
  <2>8. TcbInv(table2, S \cup {t})
    <3>1. TcbInv(table, S) /\ \A j : j \in DOMAIN table2 <=> j \in DOMAIN table \/ j = i
      BY <1>1, <1>3, <1>5, <2>5
    <3>2. (i \in DOMAIN table => table2[i] = table[i] + 1)
          /\ (i \notin DOMAIN table => table2[i] = 0 + 1)
      BY <1>5, <2>6
    <3>3. t \in Thread /\ t \notin S
      OBVIOUS
    <3> QED BY ONLY <1>2, <2>5, <2>6, <3>1, <3>2, <3>3, TcbAdded
  <2> QED BY <2>4, <2>7, <2>8, TcbsChanged
<1>6. CASE i \notin DOMAIN table
  <2>1. PICK c : c = With(table, i, 0)
    OBVIOUS
  <2>2. w = [[allocPage1(m, TCBPage(i)) EXCEPT !.table = c] EXCEPT !.table[i] = @ + 1]
    BY <1>2, <1>3, <1>6, <2>1 DEF Housed, allocPage1
  <2>3. PICK table2 : table2 = [c EXCEPT ![i] = c[i] + 1]
    BY Zenon
  <2>4. w = [m EXCEPT !.used = m.used \cup {TCBPage(i)}, !.num = m.num - 1, !.table = table2]
    BY <1>1, <2>2, <2>3, Zenon DEF Shape, allocPage1
  <2>5. w.table = table2 /\ w.num = m.num - 1 /\ w.used = m.used \cup {TCBPage(i)}
        /\ SameButTcbs(m, w)
    BY <1>1, <2>4, Zenon DEF Shape, SameButTcbs
  <2>6. DOMAIN c = (DOMAIN table) \cup {i}
    BY <2>1, WithDomain, Zenon
  <2>7. c[i] = 0 /\ \A j \in DOMAIN table : j # i => c[j] = table[j]
    BY <2>1, WithFacts
  <2>8. DOMAIN table2 = (DOMAIN table) \cup {i} /\ table2 = [j \in DOMAIN table2 |-> table2[j]]
    BY <2>3, <2>6, Zenon
  <2>9. table2[i] = 0 + 1 /\ \A j \in DOMAIN table : j # i => table2[j] = table[j]
    BY <2>3, <2>6, <2>7
  <2>10. UsedInv(w)
    <3>1. w.objs = m.objs /\ w.pdir = m.pdir /\ w.ptab = m.ptab
      BY <2>5 DEF SameButTcbs
    <3>2. \A j : j \in DOMAIN w.table <=> j \in DOMAIN m.table \/ j = i
      BY <1>3, <2>5, <2>8
    <3>3. InUse(w) = InUse(m) \cup {TCBPage(i)}
      BY <3>1, <3>2, TcbPageAdded, Zenon
    <3>4. TCBPage(i) \notin InUse(m)
      BY <1>1, <1>3, <1>6, InUseKinds
    <3> QED BY <1>1, <2>5, <3>3, <3>4, PageTaken
  <2>11. TcbInv(table2, S \cup {t})
    <3>1. TcbInv(table, S) /\ \A j : j \in DOMAIN table2 <=> j \in DOMAIN table \/ j = i
      BY <1>1, <1>3, <2>8
    <3>2. (i \in DOMAIN table => table2[i] = table[i] + 1)
          /\ (i \notin DOMAIN table => table2[i] = 0 + 1)
      BY <1>6, <2>9
    <3>3. t \in Thread /\ t \notin S
      OBVIOUS
    <3> QED BY ONLY <1>2, <2>8, <2>9, <3>1, <3>2, <3>3, TcbAdded
  <2> QED BY <2>5, <2>10, <2>11, TcbsChanged
<1> QED BY <1>5, <1>6

\* A space with one more thread.
Joined(space, sp) == [space EXCEPT ![sp].count = space[sp].count + 1]

LEMMA JoinedDomain ==
  ASSUME NEW space, NEW sp
  PROVE  DOMAIN Joined(space, sp) = DOMAIN space
BY DEF Joined

LEMMA JoinedFacts ==
  ASSUME NEW space, NEW sp \in DOMAIN space, space \in [DOMAIN space -> SpaceSet]
  PROVE  LET w == Joined(space, sp) IN
         /\ w \in [DOMAIN w -> SpaceSet]
         /\ (\A s \in DOMAIN space : /\ w[s].area = space[s].area /\ w[s].pdir = space[s].pdir
                                     /\ w[s].active = space[s].active
                                     /\ w[s].loaded = space[s].loaded
                                     /\ s # sp => w[s] = space[s])
         /\ w[sp].count = space[sp].count + 1
<1>1. PICK w : w = Joined(space, sp)
  OBVIOUS
<1>2. \A s \in DOMAIN space : space[s] \in SpaceSet
  OBVIOUS
<1>3. PICK r : r = [pdir |-> space[sp].pdir, area |-> space[sp].area, count |-> space[sp].count + 1,
                    active |-> space[sp].active, loaded |-> space[sp].loaded]
  BY Zenon
<1>4. DOMAIN w = DOMAIN space /\ \A s \in DOMAIN space : s # sp => w[s] = space[s]
  BY <1>1 DEF Joined
<1>5. w[sp] = r
  <2>1. w[sp] = [space[sp] EXCEPT !.count = space[sp].count + 1]
    BY <1>1 DEF Joined
  <2>2. space[sp] \in SpaceSet
    BY <1>2
  <2> QED BY <2>1, <2>2, <1>3 DEF SpaceSet
<1>6. r \in SpaceSet
  <2>1. /\ space[sp].pdir \in Directories \cup {None} /\ space[sp].area \in Areas \cup {PrivArea, None}
        /\ space[sp].loaded \in BOOLEAN /\ space[sp].active \in Nat
    BY <1>2 DEF SpaceSet
  <2>2. space[sp].count + 1 \in Nat
    <3>1. PICK c \in Nat : c = space[sp].count
      BY <1>2 DEF SpaceSet
    <3> QED BY <3>1
  <2> QED BY <2>1, <2>2, <1>3 DEF SpaceSet
<1>7. w \in [DOMAIN w -> SpaceSet]
  <2>1. \A s \in DOMAIN w : w[s] \in SpaceSet
    BY <1>2, <1>4, <1>5, <1>6
  <2>2. w = [s \in DOMAIN w |-> w[s]]
    BY <1>1, Zenon DEF Joined
  <2> QED BY <2>1, <2>2
<1>8. /\ r.pdir = space[sp].pdir /\ r.area = space[sp].area /\ r.count = space[sp].count + 1
      /\ r.active = space[sp].active /\ r.loaded = space[sp].loaded
  BY <1>3
<1>9. \A s \in DOMAIN space : /\ w[s].area = space[s].area /\ w[s].pdir = space[s].pdir
                              /\ w[s].active = space[s].active
                              /\ w[s].loaded = space[s].loaded
  BY <1>4, <1>5, <1>8
<1> QED BY <1>1, <1>4, <1>5, <1>7, <1>8, <1>9

LEMMA ThreadJoins ==
  ASSUME NEW space, NEW T, ThreadInv(space, T), space \in [DOMAIN space -> SpaceSet],
         NEW t \in Thread, t \notin DOMAIN T, NEW sp \in DOMAIN space
  PROVE  /\ ThreadInv(Joined(space, sp), With(T, t, [space |-> sp, utcb |-> None]))
         /\ SpacesAlike(space, Joined(space, sp))
<1>1. PICK w, T2 : w = Joined(space, sp) /\ T2 = With(T, t, [space |-> sp, utcb |-> None])
  OBVIOUS
<1>2. DOMAIN w = DOMAIN space
  BY <1>1, JoinedDomain
<1>3. LET v == Joined(space, sp) IN
      /\ v \in [DOMAIN v -> SpaceSet]
      /\ (\A s \in DOMAIN space : /\ v[s].area = space[s].area /\ v[s].pdir = space[s].pdir
                                  /\ v[s].active = space[s].active
                                  /\ v[s].loaded = space[s].loaded
                                  /\ s # sp => v[s] = space[s])
      /\ v[sp].count = space[sp].count + 1
  <2>1. sp \in DOMAIN space /\ space \in [DOMAIN space -> SpaceSet]
    OBVIOUS
  <2> QED BY ONLY <2>1, JoinedFacts
<1>4. /\ w \in [DOMAIN w -> SpaceSet] /\ w[sp].count = space[sp].count + 1
      /\ \A s \in DOMAIN space : /\ w[s].area = space[s].area /\ w[s].pdir = space[s].pdir
                                 /\ w[s].active = space[s].active
                                 /\ w[s].loaded = space[s].loaded
                                 /\ s # sp => w[s] = space[s]
  BY <1>1, <1>3
<1>5. SpacesAlike(space, w)
  BY <1>2, <1>4 DEF SpacesAlike
<1>6. ThreadInv(w, T2)
  <2>1. \A s \in DOMAIN space : /\ w[s].area = space[s].area
                                /\ w[s].active = space[s].active
                                /\ s # sp => w[s].count = space[s].count
    BY <1>4
  <2>2. ThreadInv(space, T) /\ t \in Thread /\ t \notin DOMAIN T /\ sp \in DOMAIN space
        /\ w[sp].count = space[sp].count + 1
        /\ T2 = With(T, t, [space |-> sp, utcb |-> None])
    BY <1>1, <1>4
  <2> QED BY ONLY <1>2, <2>1, <2>2, ThreadEntered
<1> QED BY <1>1, <1>5, <1>6

LEMMA UtcbsJoin ==
  ASSUME NEW ptab, NEW T, UtcbInv(ptab, T), NEW t, NEW e, e.utcb = None
  PROVE  UtcbInv(ptab, With(T, t, e))
<1>1. PICK T2 : T2 = With(T, t, e)
  OBVIOUS
<1>2. DOMAIN T2 = (DOMAIN T) \cup {t}
  BY <1>1, WithDomain, Zenon
<1>3. T2[t].utcb = None /\ \A y \in DOMAIN T : y # t => T2[y] = T[y]
  BY <1>1, WithFacts
<1>4. UtcbInv(ptab, T2)
  BY <1>2, <1>3 DEF UtcbInv
<1> QED BY <1>1, <1>4

\* A thread enters a space.
LEMMA EnterSpace ==
  ASSUME NEW m, NEW T, NEW S, NEW K, MemInv(m, T, S, K), NEW t \in Thread, t \notin DOMAIN T,
         NEW sp \in DOMAIN m.space, NEW w, w = enterSpace(m, sp)
  PROVE  /\ MemInv(w, With(T, t, [space |-> sp, utcb |-> None]), S, K) /\ w.num = m.num
         /\ w.space = Joined(m.space, sp) /\ w.currentSpace = m.currentSpace
         /\ w.cr3 = m.cr3 /\ w.stale = m.stale
<1>1. Shape(m) /\ ThreadInv(m.space, T) /\ m.space \in [DOMAIN m.space -> SpaceSet]
  BY MemParts DEF SpaceInv
<1>2. PICK space, T2 : space = m.space /\ T2 = With(T, t, [space |-> sp, utcb |-> None])
  OBVIOUS
<1>3. w = [m EXCEPT !.space = Joined(m.space, sp)]
  BY <1>1 DEF enterSpace, Joined, Shape
<1>4. SameButSpace(m, w) /\ w.mapping = m.mapping /\ w.space = Joined(m.space, sp)
  BY <1>1, <1>3 DEF Shape, SameButSpace
<1>5. ThreadInv(w.space, T2) /\ SpacesAlike(m.space, w.space)
  <2>1. ThreadInv(space, T) /\ space \in [DOMAIN space -> SpaceSet] /\ t \in Thread
        /\ t \notin DOMAIN T /\ sp \in DOMAIN space
    BY <1>1, <1>2
  <2>2. ThreadInv(Joined(space, sp), With(T, t, [space |-> sp, utcb |-> None]))
    BY ONLY <2>1, ThreadJoins
  <2>3. SpacesAlike(space, Joined(space, sp))
    BY ONLY <2>1, ThreadJoins, Zenon
  <2> QED BY <1>2, <1>4, <2>2, <2>3
<1>7. UtcbInv(m.ptab, T2)
  <2>1. PICK e : e = [space |-> sp, utcb |-> None]
    OBVIOUS
  <2>2. e.utcb = None /\ UtcbInv(m.ptab, T) /\ T2 = With(T, t, e)
    BY <1>2, <2>1, MemParts
  <2> QED BY ONLY <2>2, UtcbsJoin
<1>6. MemInv(w, T2, S, K)
  BY <1>4, <1>5, <1>7, AlikeSpaces
<1> QED BY <1>2, <1>4, <1>6 DEF SameButSpace

LEMMA AllocTCB ==
  ASSUME NEW m, NEW T, NEW S, NEW K, MemInv(m, T, S, K), NEW t \in Thread, t \notin DOMAIN T,
         t \notin S, NEW sp \in DOMAIN m.space, NEW w, w = allocTCB1(m, t, sp)
  PROVE  /\ MemInv(w, With(T, t, [space |-> sp, utcb |-> None]), S \cup {t}, K)
         /\ w.num \in {m.num, m.num - 1} /\ w.space = Joined(m.space, sp)
         /\ w.currentSpace = m.currentSpace /\ w.cr3 = m.cr3 /\ w.stale = m.stale
<1>1. PICK h : h = Housed(m, TableFor(t))
  OBVIOUS
<1>2. MemInv(h, T, S \cup {t}, K) /\ h.num \in {m.num, m.num - 1} /\ SameButTcbs(m, h)
  BY <1>1, TcbHoused
<1>3. w = enterSpace(h, sp)
  BY <1>1 DEF allocTCB1, Housed
<1>4. h.space = m.space /\ h.currentSpace = m.currentSpace /\ h.cr3 = m.cr3 /\ h.stale = m.stale
  BY <1>2 DEF SameButTcbs
<1>5. /\ MemInv(w, With(T, t, [space |-> sp, utcb |-> None]), S \cup {t}, K) /\ w.num = h.num
      /\ w.space = Joined(h.space, sp) /\ w.currentSpace = h.currentSpace
      /\ w.cr3 = h.cr3 /\ w.stale = h.stale
  <2>1. MemInv(h, T, S \cup {t}, K) /\ t \in Thread /\ t \notin DOMAIN T /\ sp \in DOMAIN h.space
    BY <1>2, <1>4
  <2> QED BY ONLY <1>3, <2>1, EnterSpace
<1> QED BY <1>2, <1>4, <1>5

LEMMA LeaveTable ==
  ASSUME NEW m, NEW T, NEW S, NEW K, MemInv(m, T, S, K), NEW t \in S,
         NEW w, w = leaveTable(m, TableFor(t))
  PROVE  /\ MemInv(w, T, S \ {t}, K) /\ w.num \in {m.num, m.num + 1} /\ w.space = m.space
         /\ w.currentSpace = m.currentSpace
<1>1. Shape(m) /\ UsedInv(m) /\ TabInv(m.pdir, m.ptab) /\ TcbInv(m.table, S)
  BY MemParts
<1>2. PICK i : i = TableFor(t)
  OBVIOUS
<1>3. PICK table : table = m.table
  OBVIOUS
<1>4. table = [j \in DOMAIN table |-> Cardinality(Residents(S, j))]
  BY <1>1, <1>3 DEF TcbInv
<1>5. i \in DOMAIN table
  <2>1. Residents(S, i) # {}
    BY <1>2 DEF Residents
  <2> QED BY <1>1, <1>3, <2>1 DEF TcbInv
<1>6. PICK v : v = [m EXCEPT !.table[i] = @ - 1]
  BY Zenon
<1>7. PICK table1 : table1 = [table EXCEPT ![i] = table[i] - 1]
  BY Zenon
<1>8. v = [m EXCEPT !.table = table1]
  BY <1>1, <1>3, <1>6, <1>7 DEF Shape
<1>9. /\ v.used = m.used /\ v.num = m.num /\ v.table = table1 /\ SameButTcbs(m, v)
  BY <1>1, <1>8 DEF Shape, SameButTcbs
<1>10. DOMAIN table1 = DOMAIN table /\ table1 = [j \in DOMAIN table1 |-> table1[j]]
  BY <1>7, Zenon
<1>11. table1[i] = table[i] - 1 /\ \A j \in DOMAIN table : j # i => table1[j] = table[j]
  BY <1>5, <1>7
<1>12. w = IF table1[i] # 0 THEN v
           ELSE [freePage(v, TCBPage(i)) EXCEPT !.table = Dropped(@, i)]
  BY <1>2, <1>6, <1>9, Zenon DEF leaveTable
<1>13. CASE table1[i] # 0
  <2>1. w = v
    BY <1>12, <1>13
  <2>2. UsedInv(w)
    <3>1. w.objs = m.objs /\ w.pdir = m.pdir /\ w.ptab = m.ptab
      BY <1>9, <2>1 DEF SameButTcbs
    <3>2. DOMAIN w.table = DOMAIN m.table
      BY <1>3, <1>9, <1>10, <2>1
    <3>3. InUse(w) = InUse(m)
      BY <3>1, <3>2, SameInUse
    <3> QED BY <1>1, <1>9, <2>1, <3>3, SameUsed
  <2>3. TcbInv(table1, S \ {t})
    <3>1. TcbInv(table, S) /\ t \in S
      BY <1>1, <1>3
    <3>2. \A j : j \in DOMAIN table1 <=> j \in DOMAIN table /\ (j = i => table[i] - 1 # 0)
      BY <1>5, <1>10, <1>11, <1>13
    <3>3. \A j \in DOMAIN table1 : j # i => table1[j] = table[j]
      BY <1>10, <1>11
    <3>4. i \in DOMAIN table1 => table1[i] = table[i] - 1
      BY <1>11
    <3> QED BY ONLY <1>2, <1>10, <3>1, <3>2, <3>3, <3>4, TcbRemoved
  <2>4. MemInv(w, T, S \ {t}, K)
    BY <1>9, <2>1, <2>2, <2>3, TcbsChanged
  <2> QED BY <1>9, <2>1, <2>4 DEF SameButTcbs
<1>14. CASE table1[i] = 0
  <2>1. PICK table2 : table2 = Dropped(table1, i)
    OBVIOUS
  <2>2. w = [v EXCEPT !.used = v.used \ {TCBPage(i)}, !.num = v.num + 1, !.table = table2]
    BY <1>9, <1>12, <1>14, <2>1, Zenon DEF freePage, Shape, SameButTcbs
  <2>3. w.used = m.used \ {TCBPage(i)} /\ w.num = m.num + 1 /\ w.table = table2
        /\ SameButTcbs(m, w)
    <3>1. w.used = v.used \ {TCBPage(i)} /\ w.num = v.num + 1 /\ w.table = table2
          /\ SameButTcbs(v, w)
      BY <1>9, <2>2 DEF Shape, SameButTcbs
    <3>2. v.used = m.used /\ v.num = m.num /\ SameButTcbs(m, v)
      BY <1>9
    <3> QED BY <3>1, <3>2 DEF SameButTcbs
  <2>4. /\ \A j : j \in DOMAIN table2 <=> j \in DOMAIN table1 /\ j # i
        /\ \A j \in DOMAIN table2 : table2[j] = table1[j]
    BY <2>1, DroppedEntries
  <2>5. table2 = [j \in DOMAIN table2 |-> table2[j]]
    BY <2>1 DEF Dropped, Restrict
  <2>6. UsedInv(w)
    <3>1. w.objs = m.objs /\ w.pdir = m.pdir /\ w.ptab = m.ptab
      BY <2>3 DEF SameButTcbs
    <3>2. \A j : j \in DOMAIN w.table <=> j \in DOMAIN m.table /\ j # i
      BY <1>3, <1>10, <2>3, <2>4
    <3>3. InUse(w) = InUse(m) \ {TCBPage(i)}
      BY <1>1, <3>1, <3>2, TcbPageRemoved
    <3>4. TCBPage(i) \in InUse(m)
      BY <1>1, <1>3, <1>5, InUseKinds
    <3> QED BY <1>1, <2>3, <3>3, <3>4, PageFreed
  <2>7. TcbInv(table2, S \ {t})
    <3>1. TcbInv(table, S) /\ t \in S
      BY <1>1, <1>3
    <3>2. \A j : j \in DOMAIN table2 <=> j \in DOMAIN table /\ (j = i => table[i] - 1 # 0)
      BY <1>10, <1>11, <1>14, <2>4, Zenon
    <3>3. \A j \in DOMAIN table2 : j # i => table2[j] = table[j]
      BY <1>10, <1>11, <2>4
    <3>4. i \in DOMAIN table2 => table2[i] = table[i] - 1
      BY <2>4
    <3> QED BY ONLY <1>2, <2>5, <3>1, <3>2, <3>3, <3>4, TcbRemoved
  <2>8. MemInv(w, T, S \ {t}, K)
    BY <2>3, <2>6, <2>7, TcbsChanged
  <2> QED BY <2>3, <2>8 DEF SameButTcbs
<1> QED BY <1>13, <1>14

-----------------------------------------------------------------------------
(***************************************************************************)
(* Loading a page directory, and rescheduling.                             *)
(***************************************************************************)
Loaded(space, sp) == [space EXCEPT ![sp].loaded = TRUE]

LEMMA LoadedLike ==
  ASSUME NEW space, NEW sp \in DOMAIN space, space \in [DOMAIN space -> SpaceSet]
  PROVE  LikeSpaces(space, Loaded(space, sp))
<1>1. PICK w : w = Loaded(space, sp)
  OBVIOUS
<1>2. PICK r : r = [pdir |-> space[sp].pdir, area |-> space[sp].area, count |-> space[sp].count,
                    active |-> space[sp].active, loaded |-> TRUE]
  BY Zenon
<1>3. DOMAIN w = DOMAIN space /\ \A s \in DOMAIN space : s # sp => w[s] = space[s]
  BY <1>1 DEF Loaded
<1>4. \A s \in DOMAIN space : space[s] \in SpaceSet
  OBVIOUS
<1>5. w[sp] = r /\ r \in SpaceSet
  <2>1. w[sp] = [space[sp] EXCEPT !.loaded = TRUE]
    BY <1>1 DEF Loaded
  <2>2. space[sp] \in SpaceSet
    BY <1>4
  <2>3. w[sp] = r
    BY <2>1, <2>2, <1>2, Zenon DEF SpaceSet
  <2>4. /\ space[sp].pdir \in Directories \cup {None} /\ space[sp].area \in Areas \cup {PrivArea, None}
        /\ space[sp].count \in Nat /\ space[sp].active \in Nat
    BY <2>2 DEF SpaceSet
  <2> QED BY <2>3, <2>4, <1>2 DEF SpaceSet
<1>6. w \in [DOMAIN space -> SpaceSet]
  <2>1. \A s \in DOMAIN space : w[s] \in SpaceSet
    BY <1>3, <1>4, <1>5
  <2>2. w = [s \in DOMAIN space |-> w[s]]
    BY <1>1, Zenon DEF Loaded
  <2> QED BY <2>1, <2>2
<1>7. /\ r.pdir = space[sp].pdir /\ r.area = space[sp].area /\ r.count = space[sp].count
      /\ r.active = space[sp].active
  BY <1>2
<1>8. \A s \in DOMAIN space :
        /\ w[s].pdir = space[s].pdir /\ w[s].area = space[s].area
        /\ w[s].count = space[s].count /\ w[s].active = space[s].active
  BY <1>3, <1>5, <1>7
<1> QED BY <1>1, <1>6, <1>8 DEF LikeSpaces

LEMMA SetPdir ==
  ASSUME NEW m, NEW T, NEW S, NEW K, MemInv(m, T, S, K), NEW sp \in DOMAIN m.space,
         NEW w, w = setPdir(m, sp)
  PROVE  /\ MemInv(w, T, S, K) /\ w.num = m.num /\ LikeSpaces(m.space, w.space)
         /\ w.currentSpace = sp /\ w.cr3 = m.space[sp].pdir /\ ~w.stale
<1>1. /\ Shape(m) /\ UsedInv(m) /\ TabInv(m.pdir, m.ptab) /\ Apart(m, K)
      /\ SpaceInv(m.space, m.pdir, m.ptab) /\ ThreadInv(m.space, T)
      /\ MapInv(m.mapping, m.space)
  BY MemParts
<1>2. w = [m EXCEPT !.cr3 = m.space[sp].pdir, !.currentSpace = sp, !.stale = FALSE,
                    !.space = Loaded(m.space, sp)]
  BY <1>1 DEF setPdir, Shape, Loaded
<1>3. /\ w.used = m.used /\ w.num = m.num /\ w.objs = m.objs /\ w.partials = m.partials
      /\ w.space = Loaded(m.space, sp) /\ w.mapping = m.mapping /\ w.pdir = m.pdir
      /\ w.ptab = m.ptab /\ w.table = m.table /\ w.cr3 = m.space[sp].pdir
      /\ w.currentSpace = sp /\ w.stale = FALSE /\ Shape(w)
  BY <1>1, <1>2, Zenon DEF Shape
<1>4. TabMem(w)
  <2>1. TabMem(m)
    BY <1>1 DEF TabMem
  <2> QED BY ONLY <1>3, <2>1, TabMemSame
<1>5. LikeSpaces(m.space, w.space)
  <2>1. m.space \in [DOMAIN m.space -> SpaceSet]
    BY <1>1 DEF SpaceInv
  <2>2. LikeSpaces(m.space, Loaded(m.space, sp))
    BY <2>1, LoadedLike
  <2> QED BY <1>3, <2>2
<1>6. DOMAIN w.space = DOMAIN m.space
  BY <1>5 DEF LikeSpaces
<1>7. SpaceInv(w.space, w.pdir, w.ptab)
  <2>1. PICK X : X = {}
    BY Zenon
  <2>2. Kept(m, w, X)
    BY <1>3, <2>1 DEF Kept
  <2>3. \A s \in DOMAIN m.space, l \in Loc :
          (m.space[s].active # 0 /\ <<DirectoryPage(s), l>> \in X) =>
            l \notin m.space[s].area.utcb /\ UtcbPage(DirectoryPage(s), l) \notin UtcbsIn(w.ptab)
    BY <2>1
  <2>4. \A d \in DOMAIN w.pdir : d \in DOMAIN m.pdir
    BY <1>3
  <2>5. SpaceInv(m.space, m.pdir, m.ptab)
    BY <1>1
  <2> QED BY ONLY <1>5, <2>2, <2>3, <2>4, <2>5, SpacesKept
<1>8. ThreadInv(w.space, T) /\ MapInv(w.mapping, w.space)
  <2>1. ThreadInv(m.space, T) /\ MapInv(m.mapping, m.space)
    BY <1>1
  <2>2. ThreadInv(w.space, T)
    BY ONLY <1>5, <2>1, ThreadsKept
  <2>3. MapInv(m.mapping, w.space)
    BY ONLY <1>5, <2>1, MapsKept
  <2> QED BY <1>3, <2>2, <2>3
<1>9. LoadInv(w.space, w.cr3, w.currentSpace, w.stale)
  <2>1. w.space[sp].pdir = m.space[sp].pdir
    BY <1>5 DEF LikeSpaces
  <2> QED BY <1>3, <2>1, Zenon DEF LoadInv
<1>10. Objects(w, K) = Objects(m, K) /\ Apart(w, K)
  BY <1>1, <1>3, <1>6 DEF Objects, Apart
<1>11. MemInv(w, T, S, K)
  <2>1. w.objs = m.objs /\ w.partials = m.partials /\ w.table = m.table /\ UtcbInv(w.ptab, T)
    BY <1>3, MemParts
  <2>2. MemInv(m, T, S, K)
    OBVIOUS
  <2> QED BY ONLY <1>4, <1>7, <1>8, <1>9, <1>10, <2>1, <2>2, TablesChanged
<1> QED BY <1>3, <1>5, <1>11

\* Space sp is the current one, and the processor sees its page directory.
Current(w, sp) == w.currentSpace = sp /\ w.cr3 = w.space[sp].pdir /\ ~w.stale

LEMMA RefreshSpace ==
  ASSUME NEW m, NEW T, NEW S, NEW K, MemInv(m, T, S, K), m.currentSpace \in DOMAIN m.space,
         m.space[m.currentSpace].active # 0, NEW w, w = refreshSpace(m)
  PROVE  /\ MemInv(w, T, S, K) /\ w.num = m.num /\ LikeSpaces(m.space, w.space)
         /\ Current(w, m.currentSpace)
<1>1. SpaceInv(m.space, m.pdir, m.ptab) /\ LoadInv(m.space, m.cr3, m.currentSpace, m.stale)
  BY MemParts
<1>2. CASE m.space[m.currentSpace].loaded
  <2>1. w = m
    BY <1>2 DEF refreshSpace
  <2>2. LikeSpaces(m.space, m.space)
    BY <1>1, LikeSelf
  <2>3. m.cr3 = m.space[m.currentSpace].pdir /\ ~m.stale
    BY <1>1, <1>2 DEF LoadInv
  <2> QED BY <2>1, <2>2, <2>3 DEF Current
<1>3. CASE ~m.space[m.currentSpace].loaded
  <2>1. w = setPdir(m, m.currentSpace)
    BY <1>3 DEF refreshSpace
  <2>2. /\ MemInv(w, T, S, K) /\ w.num = m.num /\ LikeSpaces(m.space, w.space)
        /\ w.currentSpace = m.currentSpace /\ w.cr3 = m.space[m.currentSpace].pdir /\ ~w.stale
    BY <2>1, SetPdir
  <2>3. w.space[m.currentSpace].pdir = m.space[m.currentSpace].pdir
    BY <2>2 DEF LikeSpaces
  <2> QED BY <2>2, <2>3 DEF Current
<1> QED BY <1>2, <1>3

LEMMA SwitchSpace ==
  ASSUME NEW m, NEW T, NEW S, NEW K, MemInv(m, T, S, K), NEW sp \in DOMAIN m.space,
         m.space[sp].active # 0, NEW w, w = switchSpace(m, sp)
  PROVE  /\ MemInv(w, T, S, K) /\ w.num = m.num /\ LikeSpaces(m.space, w.space)
         /\ Current(w, sp)
<1>1. SpaceInv(m.space, m.pdir, m.ptab)
  BY MemParts
<1>2. m.space[sp].pdir # None
  BY <1>1 DEF SpaceInv
<1>3. CASE m.currentSpace # sp
  <2>1. w = setPdir(m, sp)
    BY <1>2, <1>3 DEF switchSpace
  <2>2. /\ MemInv(w, T, S, K) /\ w.num = m.num /\ LikeSpaces(m.space, w.space)
        /\ w.currentSpace = sp /\ w.cr3 = m.space[sp].pdir /\ ~w.stale
    BY <2>1, SetPdir
  <2>3. w.space[sp].pdir = m.space[sp].pdir
    BY <2>2 DEF LikeSpaces
  <2> QED BY <2>2, <2>3 DEF Current
<1>4. CASE m.currentSpace = sp
  <2>1. w = refreshSpace(m)
    BY <1>2, <1>4 DEF switchSpace
  <2> QED BY <1>4, <2>1, RefreshSpace
<1> QED BY <1>3, <1>4

LEMMA InhabitedLike ==
  ASSUME NEW space, NEW w, NEW T, LikeSpaces(space, w), Inhabited(space, T)
  PROVE  Inhabited(w, T)
<1>1. PrivInv(w)
  BY PrivLike DEF Inhabited
<1> QED BY <1>1 DEF LikeSpaces, Inhabited

\* Any thread that is active, or none, may be dispatched.
LEMMA Rescheduled ==
  ASSUME NEW m, NEW T, MemInv(m, T, DOMAIN T, KernelObjs), m.num >= 0, Inhabited(m.space, T),
         RescheduleWith(m, T)
  PROVE  IInv'
<1>1. ThreadInv(m.space, T)
  BY MemParts
<1>2. CASE current' = Idle /\ mem' = m /\ tcb' = T
  BY <1>2 DEF IInv, RunInv
<1>3. ASSUME NEW t \in DOMAIN T, T[t].utcb # None, current' = t,
             mem' = switchSpace(m, T[t].space), tcb' = T
      PROVE  IInv'
  <2>1. PICK sp, w : sp = T[t].space /\ w = switchSpace(m, sp)
    OBVIOUS
  <2>2. sp \in DOMAIN m.space /\ m.space[sp].active # 0
    <3>1. PICK space : space = m.space
      OBVIOUS
    <3>2. ThreadInv(space, T)
      BY <1>1, <3>1
    <3> QED BY <1>3, <2>1, <3>1, <3>2, Counted
  <2>3. /\ MemInv(w, T, DOMAIN T, KernelObjs) /\ w.num = m.num /\ LikeSpaces(m.space, w.space)
        /\ Current(w, sp)
    <3>1. MemInv(m, T, DOMAIN T, KernelObjs) /\ w = switchSpace(m, sp)
      BY <2>1
    <3> QED BY ONLY <2>2, <3>1, SwitchSpace
  <2>4. Inhabited(w.space, T)
    BY <2>3, InhabitedLike
  <2>5. mem' = w /\ tcb' = T /\ current' = t
    BY <1>3, <2>1
  <2>6. RunInv'
    BY <1>3, <2>1, <2>3, <2>5 DEF RunInv, Current
  <2> QED BY <2>3, <2>4, <2>5, <2>6 DEF IInv
<1> QED BY <1>2, <1>3 DEF RescheduleWith

\* A space without a directory gets its areas.
AreaSet(space, sp, a) == [space EXCEPT ![sp].area = a]

LEMMA AreaSetDomain ==
  ASSUME NEW space, NEW sp, NEW a
  PROVE  DOMAIN AreaSet(space, sp, a) = DOMAIN space
BY DEF AreaSet

LEMMA AreaSetFacts ==
  ASSUME NEW space, NEW sp \in DOMAIN space, space \in [DOMAIN space -> SpaceSet],
         NEW a \in Areas \cup {PrivArea}
  PROVE  LET w == AreaSet(space, sp, a) IN
         /\ w \in [DOMAIN w -> SpaceSet]
         /\ (\A s \in DOMAIN space : /\ w[s].pdir = space[s].pdir /\ w[s].count = space[s].count
                                     /\ w[s].active = space[s].active
                                     /\ w[s].loaded = space[s].loaded
                                     /\ s # sp => w[s] = space[s])
         /\ w[sp].area = a
<1>1. PICK w : w = AreaSet(space, sp, a)
  OBVIOUS
<1>2. \A s \in DOMAIN space : space[s] \in SpaceSet
  OBVIOUS
<1>3. PICK r : r = [pdir |-> space[sp].pdir, area |-> a, count |-> space[sp].count,
                    active |-> space[sp].active, loaded |-> space[sp].loaded]
  BY Zenon
<1>4. DOMAIN w = DOMAIN space /\ \A s \in DOMAIN space : s # sp => w[s] = space[s]
  BY <1>1 DEF AreaSet
<1>5. w[sp] = r
  <2>1. w[sp] = [space[sp] EXCEPT !.area = a]
    BY <1>1 DEF AreaSet
  <2>2. space[sp] \in SpaceSet
    BY <1>2
  <2> QED BY <2>1, <2>2, <1>3 DEF SpaceSet
<1>6. r \in SpaceSet
  <2>1. /\ space[sp].pdir \in Directories \cup {None} /\ space[sp].loaded \in BOOLEAN
        /\ space[sp].active \in Nat /\ space[sp].count \in Nat
    BY <1>2 DEF SpaceSet
  <2> QED BY <2>1, <1>3 DEF SpaceSet
<1>7. w \in [DOMAIN w -> SpaceSet]
  <2>1. \A s \in DOMAIN w : w[s] \in SpaceSet
    BY <1>2, <1>4, <1>5, <1>6
  <2>2. w = [s \in DOMAIN w |-> w[s]]
    BY <1>1, Zenon DEF AreaSet
  <2> QED BY <2>1, <2>2
<1>8. /\ r.pdir = space[sp].pdir /\ r.area = a /\ r.count = space[sp].count
      /\ r.active = space[sp].active /\ r.loaded = space[sp].loaded
  BY <1>3
<1>9. \A s \in DOMAIN space : /\ w[s].pdir = space[s].pdir /\ w[s].count = space[s].count
                              /\ w[s].active = space[s].active
                              /\ w[s].loaded = space[s].loaded
  BY <1>4, <1>5, <1>8
<1> QED BY <1>1, <1>4, <1>5, <1>7, <1>8, <1>9

\* Memory m, when space sp gets the areas a.
AreaGiven(m, sp, a) == [m EXCEPT !.space[sp].area = a]

LEMMA SetArea ==
  ASSUME NEW m, NEW T, NEW S, NEW K, MemInv(m, T, S, K), NEW sp \in DOMAIN m.space,
         m.space[sp].pdir = None, NEW a \in Areas \cup {PrivArea},
         NEW w, w = AreaGiven(m, sp, a)
  PROVE  /\ MemInv(w, T, S, K) /\ w.num = m.num /\ w.space = AreaSet(m.space, sp, a)
         /\ w.currentSpace = m.currentSpace /\ w.cr3 = m.cr3 /\ w.stale = m.stale
<1>1. /\ Shape(m) /\ Apart(m, K) /\ SpaceInv(m.space, m.pdir, m.ptab)
      /\ ThreadInv(m.space, T) /\ MapInv(m.mapping, m.space)
      /\ LoadInv(m.space, m.cr3, m.currentSpace, m.stale)
  BY MemParts
<1>2. PICK space, space2 : space = m.space /\ space2 = AreaSet(space, sp, a)
  OBVIOUS
<1>3. w = [m EXCEPT !.space = space2]
  BY <1>1, <1>2 DEF Shape, AreaSet, AreaGiven
<1>4. SameButSpace(m, w) /\ w.mapping = m.mapping /\ w.space = space2
  BY <1>1, <1>3 DEF Shape, SameButSpace
<1>5. DOMAIN space2 = DOMAIN space
  BY <1>2, AreaSetDomain
<1>6. LET v == AreaSet(space, sp, a) IN
      /\ v \in [DOMAIN v -> SpaceSet]
      /\ (\A s \in DOMAIN space : /\ v[s].pdir = space[s].pdir /\ v[s].count = space[s].count
                                  /\ v[s].active = space[s].active
                                  /\ v[s].loaded = space[s].loaded
                                  /\ s # sp => v[s] = space[s])
      /\ v[sp].area = a
  <2>1. sp \in DOMAIN space /\ space \in [DOMAIN space -> SpaceSet]
    BY <1>1, <1>2 DEF SpaceInv
  <2>2. a \in Areas \cup {PrivArea}
    OBVIOUS
  <2> QED BY ONLY <2>1, <2>2, AreaSetFacts
<1>7. /\ space2 \in [DOMAIN space2 -> SpaceSet]
      /\ \A s \in DOMAIN space : /\ space2[s].pdir = space[s].pdir /\ space2[s].count = space[s].count
                                 /\ space2[s].active = space[s].active
                                 /\ space2[s].loaded = space[s].loaded
                                 /\ s # sp => space2[s] = space[s]
  BY <1>2, <1>6
<1>8. SpaceInv(space, m.pdir, m.ptab) /\ sp \in DOMAIN space /\ space[sp].pdir = None
  BY <1>1, <1>2
<1>9. space[sp].active = 0
  BY <1>8 DEF SpaceInv
<1>10. SpaceInv(space2, m.pdir, m.ptab)
  <2>1. \A s \in DOMAIN space :
         /\ space[s].pdir \in {None, DirectoryPage(s)}
         /\ space[s].pdir # None => space[s].area # None
         /\ space[s].active # 0 => /\ space[s].pdir # None
                                   /\ HasUtcb(m.pdir, m.ptab, s, space[s].area)
    BY ONLY <1>8 DEF SpaceInv
  <2>2. \A s \in DOMAIN space2 :
         /\ space2[s].pdir \in {None, DirectoryPage(s)}
         /\ space2[s].pdir # None => space2[s].area # None
         /\ space2[s].active # 0 => /\ space2[s].pdir # None
                                    /\ HasUtcb(m.pdir, m.ptab, s, space2[s].area)
    <3> SUFFICES ASSUME NEW s \in DOMAIN space
                 PROVE  /\ space2[s].pdir \in {None, DirectoryPage(s)}
                        /\ space2[s].pdir # None => space2[s].area # None
                        /\ space2[s].active # 0 => /\ space2[s].pdir # None
                                                   /\ HasUtcb(m.pdir, m.ptab, s, space2[s].area)
      BY <1>5
    <3>1. CASE s = sp
      BY <1>7, <1>8, <1>9, <3>1
    <3>2. CASE s # sp
      BY <1>7, <2>1, <3>2
    <3> QED BY <3>1, <3>2
  <2>3. \A d \in DOMAIN m.pdir : \E s \in DOMAIN space : d = DirectoryPage(s) /\ space[s].active # 0
    BY <1>8 DEF SpaceInv
  <2>4. \A d \in DOMAIN m.pdir : \E s \in DOMAIN space2 : d = DirectoryPage(s) /\ space2[s].active # 0
    BY ONLY <1>5, <1>7, <2>3
  <2> QED BY <1>5, <1>7, <1>8, <2>2, <2>4 DEF SpaceInv
<1>11. MapInv(m.mapping, space2)
  <2>1. MapInv(m.mapping, space)
    BY <1>1, <1>2
  <2>2. /\ m.mapping \in [DOMAIN m.mapping -> [space : DOMAIN space, loc : Loc]]
        /\ \A o \in DOMAIN m.mapping : LET s == m.mapping[o].space IN
             space[s].active # 0 /\ m.mapping[o].loc \notin space[s].area.utcb
    BY <2>1 DEF MapInv
  <2>3. \A o \in DOMAIN m.mapping : m.mapping[o].space \in DOMAIN space
    BY <2>2
  <2>4. \A o \in DOMAIN m.mapping : LET s == m.mapping[o].space IN
          space2[s].active # 0 /\ m.mapping[o].loc \notin space2[s].area.utcb
    BY ONLY <1>7, <1>9, <2>2, <2>3
  <2>5. m.mapping \in [DOMAIN m.mapping -> [space : DOMAIN space2, loc : Loc]]
    BY <1>5, <2>2
  <2> QED BY <2>4, <2>5 DEF MapInv
<1>12. LoadInv(space2, m.cr3, m.currentSpace, m.stale)
  <2>1. LoadInv(space, m.cr3, m.currentSpace, m.stale)
    BY <1>1, <1>2
  <2> QED BY ONLY <1>5, <1>7, <2>1 DEF LoadInv
<1>13. ThreadInv(space2, T)
  <2>1. ThreadInv(space, T)
    BY <1>1, <1>2
  <2>2. /\ IsFiniteSet(DOMAIN T) /\ DOMAIN T \subseteq Thread
        /\ T \in [DOMAIN T -> [space : DOMAIN space, utcb : Utcbs \cup {None}]]
        /\ (\A s \in DOMAIN space : /\ space[s].count = Cardinality(Threads(T, s))
                                    /\ space[s].active = Cardinality(Actives(T, s)))
        /\ \A t \in DOMAIN T : T[t].utcb # None =>
             \E l \in space[T[t].space].area.utcb : T[t].utcb = UtcbPage(DirectoryPage(T[t].space), l)
    BY <2>1 DEF ThreadInv
  <2>3. T \in [DOMAIN T -> [space : DOMAIN space2, utcb : Utcbs \cup {None}]]
    BY <1>5, <2>2
  <2>4. \A s \in DOMAIN space2 : /\ space2[s].count = Cardinality(Threads(T, s))
                                 /\ space2[s].active = Cardinality(Actives(T, s))
    BY <1>5, <1>7, <2>2
  <2>5. \A t \in DOMAIN T : T[t].utcb # None => T[t].space # sp /\ T[t].space \in DOMAIN space
    BY <1>9, <2>1, Counted
  <2>6. \A t \in DOMAIN T : T[t].utcb # None =>
          \E l \in space2[T[t].space].area.utcb : T[t].utcb = UtcbPage(DirectoryPage(T[t].space), l)
    BY <1>7, <2>2, <2>5
  <2> QED BY <2>2, <2>3, <2>4, <2>6 DEF ThreadInv
<1>14. Objects(w, K) = Objects(m, K) /\ Apart(w, K)
  BY <1>1, <1>2, <1>4, <1>5 DEF Objects, Apart
<1>15. MemInv(w, T, S, K)
  <2>1. SpaceInv(w.space, m.pdir, m.ptab) /\ ThreadInv(w.space, T) /\ MapInv(w.mapping, w.space)
        /\ LoadInv(w.space, m.cr3, m.currentSpace, m.stale) /\ UtcbInv(m.ptab, T)
    BY <1>4, <1>10, <1>11, <1>12, <1>13, MemParts
  <2>2. MemInv(m, T, S, K)
    OBVIOUS
  <2> QED BY ONLY <1>4, <1>14, <2>1, <2>2, SpacesChanged
<1> QED BY <1>2, <1>4, <1>15 DEF SameButSpace

-----------------------------------------------------------------------------
(***************************************************************************)
(* The handlers keep the invariant.                                        *)
(***************************************************************************)
LEMMA MemOf ==
  ASSUME IInv
  PROVE  \E m, T : /\ m = mem /\ T = tcb /\ MemInv(m, T, DOMAIN T, KernelObjs) /\ m.num \in Int
                   /\ m.num >= 0 /\ Inhabited(m.space, T)
<1>1. PICK m, T : m = mem /\ T = tcb
  OBVIOUS
<1>2. MemInv(m, T, DOMAIN T, KernelObjs) /\ m.num >= 0 /\ Inhabited(m.space, T)
  BY <1>1 DEF IInv
<1>3. m.num \in Int
  BY <1>2, NumInt
<1> QED BY <1>1, <1>2, <1>3

LEMMA RescheduleStep ==
  ASSUME IInv, Reschedule
  PROVE  IInv'
<1>1. PICK m, T : /\ m = mem /\ T = tcb /\ MemInv(m, T, DOMAIN T, KernelObjs) /\ m.num \in Int
                  /\ m.num >= 0 /\ Inhabited(m.space, T)
  BY MemOf
<1>2. RescheduleWith(m, T)
  BY <1>1 DEF Reschedule
<1> QED BY ONLY <1>1, <1>2, Rescheduled

\* A thread that is current goes on: its space is as it was.
LEMMA GoesOn ==
  ASSUME IInv, current # Idle, NEW m, NEW T, m = mem, T = tcb, NEW w, NEW T2,
         mem' = w, tcb' = T2, current' = current,
         \A c \in DOMAIN T : T[c].utcb # None => /\ c \in DOMAIN T2 /\ T2[c].utcb # None
                                                 /\ T2[c].space = T[c].space,
         w.currentSpace = m.currentSpace, w.cr3 = m.cr3, w.stale = m.stale,
         \A s \in DOMAIN m.space : m.space[s].active # 0 => w.space[s].pdir = m.space[s].pdir
  PROVE  RunInv'
<1>1. /\ current \in DOMAIN T /\ T[current].utcb # None /\ m.currentSpace = T[current].space
      /\ m.cr3 = m.space[T[current].space].pdir /\ ~m.stale
  BY DEF IInv, RunInv
<1>2. PICK c, s : c = current /\ s = T[current].space
  OBVIOUS
<1>3. s \in DOMAIN m.space /\ m.space[s].active # 0
  <2>1. PICK space : space = m.space
    OBVIOUS
  <2>2. ThreadInv(space, T)
    BY <2>1, MemParts DEF IInv
  <2>3. c \in DOMAIN T /\ s = T[c].space /\ T[c].utcb # None
    BY <1>1, <1>2
  <2> QED BY ONLY <2>1, <2>2, <2>3, Counted
<1>4. c \in DOMAIN T2 /\ T2[c].utcb # None /\ T2[c].space = s
  BY <1>1, <1>2
<1>5. w.space[s].pdir = m.space[s].pdir
  BY <1>3
<1> QED BY <1>1, <1>2, <1>4, <1>5 DEF RunInv

\* Sigma0's space when a thread joins a space, when a thread of a space gets a
\* utcb, and when a space without a directory gets its areas.
LEMMA PrivJoined ==
  ASSUME NEW space, NEW sp \in DOMAIN space, space \in [DOMAIN space -> SpaceSet], PrivInv(space)
  PROVE  PrivInv(Joined(space, sp))
<1>1. PICK w : w = Joined(space, sp)
  OBVIOUS
<1>2. DOMAIN w = DOMAIN space
  BY <1>1, JoinedDomain
<1>3. \A s \in DOMAIN space : /\ Joined(space, sp)[s].area = space[s].area
                              /\ Joined(space, sp)[s].pdir = space[s].pdir
  BY JoinedFacts
<1> QED BY <1>1, <1>2, <1>3 DEF PrivInv

LEMMA PrivActivated ==
  ASSUME NEW space, NEW sp \in DOMAIN space, space \in [DOMAIN space -> SpaceSet],
         DOMAIN space \subseteq Object, PrivInv(space)
  PROVE  PrivInv(Activated(space, sp))
<1>1. PICK w : w = Activated(space, sp)
  OBVIOUS
<1>2. DOMAIN w = DOMAIN space
  BY <1>1, ActivatedDomain
<1>3. /\ \A s \in DOMAIN space : /\ Activated(space, sp)[s].area = space[s].area
                                 /\ s # sp => Activated(space, sp)[s] = space[s]
      /\ Activated(space, sp)[sp].pdir = DirectoryPage(sp)
  BY ActivatedFacts, Zenon
<1>4. DirectoryPage(sp) # None
  BY SpacesAssumption DEF DirectoryPage, Directories
<1>5. sigma0Space \in DOMAIN space /\ space[sigma0Space].pdir # None
      /\ space[sigma0Space].area = PrivArea
  BY DEF PrivInv
<1>6. w[sigma0Space].area = PrivArea
  BY <1>1, <1>3, <1>5
<1>7. w[sigma0Space].pdir # None
  BY <1>1, <1>3, <1>4, <1>5
<1> QED BY <1>1, <1>2, <1>5, <1>6, <1>7 DEF PrivInv

LEMMA PrivAreaSet ==
  ASSUME NEW space, NEW sp \in DOMAIN space, space \in [DOMAIN space -> SpaceSet],
         space[sp].pdir = None, NEW a \in Areas \cup {PrivArea}, PrivInv(space)
  PROVE  PrivInv(AreaSet(space, sp, a))
<1>1. PICK w : w = AreaSet(space, sp, a)
  OBVIOUS
<1>2. DOMAIN w = DOMAIN space
  BY <1>1, AreaSetDomain
<1>3. \A s \in DOMAIN space : s # sp => AreaSet(space, sp, a)[s] = space[s]
  BY AreaSetFacts, Zenon
<1>4. sigma0Space # sp /\ sigma0Space \in DOMAIN space
  BY DEF PrivInv
<1>5. w[sigma0Space] = space[sigma0Space]
  BY <1>1, <1>3, <1>4
<1> QED BY <1>1, <1>2, <1>5 DEF PrivInv

\* One more thread in space sp, and perhaps space sp.
LEMMA InhabitedWith ==
  ASSUME NEW space, NEW w, NEW T, NEW t, t \notin DOMAIN T, NEW sp, NEW r, r.space = sp,
         Inhabited(space, T), PrivInv(w), \A s \in DOMAIN w : s = sp \/ s \in DOMAIN space
  PROVE  Inhabited(w, With(T, t, r))
<1>1. PICK T2 : T2 = With(T, t, r)
  OBVIOUS
<1>2. DOMAIN T2 = (DOMAIN T) \cup {t}
  BY <1>1, WithDomain, Zenon
<1>3. T2[t] = r /\ \A x \in DOMAIN T : x # t => T2[x] = T[x]
  BY <1>1, WithFacts
<1>4. t \in Threads(T2, sp)
  BY <1>2, <1>3 DEF Threads
<1>5. ASSUME NEW s \in DOMAIN w, s # sp, ~privileged(s)
      PROVE  Threads(T2, s) # {}
  <2>1. Threads(T, s) # {}
    BY <1>5 DEF Inhabited
  <2>2. PICK x \in DOMAIN T : T[x].space = s
    BY <2>1 DEF Threads
  <2>3. x \in DOMAIN T2 /\ T2[x].space = s
    BY <1>2, <1>3, <2>2
  <2> QED BY <2>3 DEF Threads
<1> QED BY <1>1, <1>4, <1>5 DEF Inhabited

LEMMA CreateInactiveStep ==
  ASSUME IInv, NEW t \in Thread, NEW spaceTCB, CreateInactive(t, spaceTCB)
  PROVE  IInv'
<1>1. PICK m, T : /\ m = mem /\ T = tcb /\ MemInv(m, T, DOMAIN T, KernelObjs) /\ m.num \in Int
                  /\ m.num >= 0 /\ Inhabited(m.space, T)
  BY MemOf
<1>2. PICK S, K : S = DOMAIN T /\ K = KernelObjs
  OBVIOUS
<1>3. PICK fresh \in BOOLEAN : fresh <=> spaceTCB = t
  BY Zenon
<1>4. PICK m1, sp : /\ m1 = IF fresh THEN allocSpace1(m) ELSE m
                    /\ sp = IF fresh THEN NewObj(m) ELSE T[spaceTCB].space
  OBVIOUS
<1>5. PICK w, r, T2 : /\ w = allocTCB1(m1, t, sp) /\ r = [space |-> sp, utcb |-> None]
                      /\ T2 = With(T, t, r)
  BY Zenon
<1>6. /\ current # Idle /\ t \notin DOMAIN T /\ (fresh \/ spaceTCB \in DOMAIN T) /\ m.num >= 6
      /\ mem' = w /\ tcb' = T2 /\ current' = current
  BY <1>1, <1>3, <1>4, <1>5 DEF CreateInactive, MayControl, availPages
<1>7. /\ MemInv(m1, T, S, K) /\ sp \in DOMAIN m1.space /\ m1.num \in {m.num, m.num - 1}
      /\ \A s : s \in DOMAIN m1.space => s = sp \/ s \in DOMAIN m.space
      /\ \A s \in DOMAIN m.space : s \in DOMAIN m1.space /\ m1.space[s] = m.space[s]
      /\ m1.currentSpace = m.currentSpace /\ m1.cr3 = m.cr3 /\ m1.stale = m.stale
  <2>1. CASE fresh
    <3>1. m1 = allocSpace1(m) /\ sp = NewObj(m)
      BY <1>4, <2>1
    <3>2. /\ MemInv(m1, T, S, K) /\ sp \in Object /\ sp \notin Objects(m, K)
          /\ m1.space = With(m.space, sp, NewSpace) /\ m1.num \in {m.num, m.num - 1}
          /\ m1.currentSpace = m.currentSpace /\ m1.cr3 = m.cr3 /\ m1.stale = m.stale
      <4>1. MemInv(m, T, S, K) /\ m.num >= 0
        BY <1>1, <1>2
      <4>2. /\ MemInv(allocSpace1(m), T, S, K)
            /\ NewObj(m) \in Object /\ NewObj(m) \notin Objects(m, K)
            /\ allocSpace1(m).space = With(m.space, NewObj(m), NewSpace)
            /\ allocSpace1(m).num \in {m.num, m.num - 1}
            /\ allocSpace1(m).currentSpace = m.currentSpace /\ allocSpace1(m).mapping = m.mapping
            /\ allocSpace1(m).cr3 = m.cr3 /\ allocSpace1(m).stale = m.stale
        BY ONLY <4>1, AllocSpace
      <4> QED BY <3>1, <4>2
    <3>3. sp \notin DOMAIN m.space
      BY <3>2 DEF Objects
    <3>4. DOMAIN m1.space = (DOMAIN m.space) \cup {sp}
      <4>1. PICK space : space = m.space
        OBVIOUS
      <4>2. DOMAIN With(space, sp, NewSpace) = DOMAIN space \cup {sp}
        BY WithDomain, Zenon
      <4> QED BY <3>2, <4>1, <4>2
    <3>5. \A s \in DOMAIN m.space : s # sp => m1.space[s] = m.space[s]
      BY <3>2, WithFacts
    <3> QED BY <3>2, <3>3, <3>4, <3>5
  <2>2. CASE ~fresh
    <3>1. m1 = m /\ sp = T[spaceTCB].space /\ spaceTCB \in DOMAIN T
      BY <1>4, <1>6, <2>2
    <3>2. sp \in DOMAIN m.space
      <4>1. ThreadInv(m.space, T)
        BY <1>1, MemParts
      <4> QED BY <3>1, <4>1, ThreadFacts
    <3> QED BY <1>1, <1>2, <3>1, <3>2
  <2> QED BY <2>1, <2>2
<1>8. /\ MemInv(w, T2, S \cup {t}, K) /\ w.num \in {m1.num, m1.num - 1}
      /\ w.space = Joined(m1.space, sp) /\ w.currentSpace = m1.currentSpace /\ w.cr3 = m1.cr3
      /\ w.stale = m1.stale
  <2>1. /\ MemInv(m1, T, S, K) /\ t \in Thread /\ t \notin DOMAIN T /\ t \notin S
        /\ sp \in DOMAIN m1.space /\ w = allocTCB1(m1, t, sp)
    BY <1>2, <1>5, <1>6, <1>7
  <2>2. /\ MemInv(w, With(T, t, [space |-> sp, utcb |-> None]), S \cup {t}, K)
        /\ w.num \in {m1.num, m1.num - 1} /\ w.space = Joined(m1.space, sp)
        /\ w.currentSpace = m1.currentSpace /\ w.cr3 = m1.cr3 /\ w.stale = m1.stale
    BY ONLY <2>1, AllocTCB
  <2> QED BY <1>5, <2>2
<1>9. DOMAIN T2 = S \cup {t}
  BY <1>2, <1>5, WithDomain, Zenon
<1>10. T2[t] = r /\ \A x \in DOMAIN T : x # t => T2[x] = T[x]
  BY <1>5, WithFacts
<1>11. w.num >= 0
  <2>1. PICK n \in Int : n = m.num
    BY <1>1
  <2> QED BY <1>6, <1>7, <1>8, <2>1
<1>12. DOMAIN w.space = DOMAIN m1.space
  BY <1>8, JoinedDomain
<1>13. Inhabited(w.space, T2)
  <2>1. /\ t \notin DOMAIN T /\ r.space = sp /\ Inhabited(m.space, T)
        /\ \A s \in DOMAIN w.space : s = sp \/ s \in DOMAIN m.space
    BY <1>1, <1>5, <1>6, <1>7, <1>12
  <2>2. PrivInv(w.space)
    <3>1. PICK s0, s1, s2 : s0 = m.space /\ s1 = m1.space /\ s2 = w.space
      OBVIOUS
    <3>2. PrivInv(s0)
      BY <1>1, <3>1 DEF Inhabited
    <3>3. PrivInv(s1)
      BY <1>7, <3>1, <3>2 DEF PrivInv
    <3>4. s1 \in [DOMAIN s1 -> SpaceSet] /\ sp \in DOMAIN s1 /\ s2 = Joined(s1, sp)
      BY <1>7, <1>8, <3>1, MemParts DEF SpaceInv
    <3>5. PrivInv(s2)
      BY <3>3, <3>4, PrivJoined
    <3> QED BY <3>1, <3>5
  <2> QED BY ONLY <1>5, <2>1, <2>2, InhabitedWith
<1>14. \A s \in DOMAIN m.space : w.space[s].pdir = m.space[s].pdir
  <2>1. PICK space : space = m1.space
    OBVIOUS
  <2>2. space \in [DOMAIN space -> SpaceSet] /\ sp \in DOMAIN space
    BY <1>7, <2>1, MemParts DEF SpaceInv
  <2>3. \A s \in DOMAIN space : Joined(space, sp)[s].pdir = space[s].pdir
    BY <2>2, JoinedFacts
  <2> QED BY <1>7, <1>8, <2>1, <2>3
<1>15. RunInv'
  <2>1. \A c \in DOMAIN T : T[c].utcb # None => /\ c \in DOMAIN T2 /\ T2[c].utcb # None
                                                /\ T2[c].space = T[c].space
    BY <1>2, <1>6, <1>9, <1>10
  <2>2. w.currentSpace = m.currentSpace /\ w.cr3 = m.cr3 /\ w.stale = m.stale
    BY <1>7, <1>8
  <2>3. m = mem /\ T = tcb
    BY <1>1
  <2>4. IInv
    OBVIOUS
  <2> QED BY ONLY <1>6, <1>14, <2>1, <2>2, <2>3, <2>4, GoesOn
<1>16. MemInv(w, T2, DOMAIN T2, KernelObjs)
  BY <1>2, <1>8, <1>9
<1> QED BY <1>6, <1>11, <1>13, <1>15, <1>16 DEF IInv

LEMMA SpaceControlStep ==
  ASSUME IInv, NEW t \in Thread, NEW a \in Areas, SpaceControl(t, a)
  PROVE  IInv'
<1>1. PICK m, T : /\ m = mem /\ T = tcb /\ MemInv(m, T, DOMAIN T, KernelObjs) /\ m.num \in Int
                  /\ m.num >= 0 /\ Inhabited(m.space, T)
  BY MemOf
<1>2. PICK sp : sp = T[t].space
  OBVIOUS
<1>3. PICK w : w = AreaGiven(m, sp, a)
  OBVIOUS
<1>4. /\ current # Idle /\ t \in DOMAIN T /\ m.space[sp].pdir = None
      /\ mem' = w /\ tcb' = T /\ current' = current
  BY <1>1, <1>2, <1>3 DEF SpaceControl, MayControl, AreaGiven
<1>5. sp \in DOMAIN m.space /\ m.space \in [DOMAIN m.space -> SpaceSet]
  <2>1. ThreadInv(m.space, T) /\ SpaceInv(m.space, m.pdir, m.ptab)
    BY <1>1, MemParts
  <2> QED BY <1>2, <1>4, <2>1, ThreadFacts DEF SpaceInv
<1>6. /\ MemInv(w, T, DOMAIN T, KernelObjs) /\ w.num = m.num /\ w.space = AreaSet(m.space, sp, a)
      /\ w.currentSpace = m.currentSpace /\ w.cr3 = m.cr3 /\ w.stale = m.stale
  <2>1. a \in Areas \cup {PrivArea}
    OBVIOUS
  <2>2. MemInv(m, T, DOMAIN T, KernelObjs) /\ m.space[sp].pdir = None
    BY <1>1, <1>4
  <2> QED BY ONLY <1>3, <1>5, <2>1, <2>2, SetArea
<1>7. Inhabited(w.space, T)
  <2>1. DOMAIN w.space = DOMAIN m.space
    BY <1>6, AreaSetDomain
  <2>2. PrivInv(w.space)
    <3>1. PICK space, v : space = m.space /\ v = w.space
      OBVIOUS
    <3>2. /\ space \in [DOMAIN space -> SpaceSet] /\ sp \in DOMAIN space /\ space[sp].pdir = None
          /\ v = AreaSet(space, sp, a) /\ PrivInv(space)
      BY <1>1, <1>4, <1>5, <1>6, <3>1 DEF Inhabited
    <3>3. a \in Areas \cup {PrivArea}
      OBVIOUS
    <3>4. PrivInv(AreaSet(space, sp, a))
      BY ONLY <3>2, <3>3, PrivAreaSet
    <3> QED BY <3>1, <3>2, <3>4
  <2> QED BY <1>1, <2>1, <2>2 DEF Inhabited
<1>8. \A s \in DOMAIN m.space : w.space[s].pdir = m.space[s].pdir
  <2>1. PICK space : space = m.space
    OBVIOUS
  <2>2. space \in [DOMAIN space -> SpaceSet] /\ sp \in DOMAIN space /\ a \in Areas \cup {PrivArea}
    BY <1>5, <2>1
  <2>3. \A s \in DOMAIN space : AreaSet(space, sp, a)[s].pdir = space[s].pdir
    BY <2>2, AreaSetFacts
  <2> QED BY <1>6, <2>1, <2>3
<1>9. RunInv'
  <2>1. \A c \in DOMAIN T : T[c].utcb # None => /\ c \in DOMAIN T /\ T[c].utcb # None
                                                /\ T[c].space = T[c].space
    OBVIOUS
  <2>2. m = mem /\ T = tcb
    BY <1>1
  <2>3. IInv
    OBVIOUS
  <2> QED BY ONLY <1>4, <1>6, <1>8, <2>1, <2>2, <2>3, GoesOn
<1> QED BY <1>1, <1>4, <1>6, <1>7, <1>9 DEF IInv

LEMMA WithTwice ==
  ASSUME NEW f, NEW x, NEW v, NEW u
  PROVE  With(With(f, x, v), x, u) = With(f, x, u)
<1>1. PICK g : g = With(f, x, v)
  OBVIOUS
<1>2. DOMAIN g = (DOMAIN f) \cup {x}
  BY <1>1, WithDomain, Zenon
<1>3. \A y \in DOMAIN f : y # x => g[y] = f[y]
  BY <1>1, WithFacts
<1>4. With(g, x, u) = With(f, x, u)
  BY <1>2, <1>3 DEF With
<1> QED BY <1>1, <1>4

\* A thread that is made with a utcb: the thread enters its space, and is activated.
LEMMA EnterAndActivate ==
  ASSUME NEW m, NEW T, NEW S, NEW K, MemInv(m, T, S, K), NEW t, t \in Thread,
         t \notin DOMAIN T, t \notin S, NEW sp, sp \in DOMAIN m.space,
         m.space[sp].area # None, NEW loc, loc \in m.space[sp].area.utcb,
         NEW u, u = UtcbPage(DirectoryPage(sp), loc), NEW r, r = [space |-> sp, utcb |-> u],
         NEW a, a = allocTCB1(m, t, sp), NEW w, w = allocUtcb4(a, sp, loc)
  PROVE  /\ MemInv(w, With(T, t, r), S \cup {t}, K)
         /\ UtcbAt(w, sp, loc) = u /\ w.space = Activated(Joined(m.space, sp), sp)
         /\ w.currentSpace = m.currentSpace /\ w.num \in Int /\ w.num >= m.num - 5
<1>1. PICK q, T1 : q = [space |-> sp, utcb |-> None] /\ T1 = With(T, t, q)
  BY Zenon
<1>2. /\ MemInv(a, T1, S \cup {t}, K) /\ a.num \in {m.num, m.num - 1}
      /\ a.space = Joined(m.space, sp) /\ a.currentSpace = m.currentSpace
  <2>1. /\ MemInv(m, T, S, K) /\ t \in Thread /\ t \notin DOMAIN T /\ t \notin S
        /\ sp \in DOMAIN m.space /\ a = allocTCB1(m, t, sp)
    OBVIOUS
  <2>2. /\ MemInv(a, With(T, t, [space |-> sp, utcb |-> None]), S \cup {t}, K)
        /\ a.num \in {m.num, m.num - 1} /\ a.space = Joined(m.space, sp)
        /\ a.currentSpace = m.currentSpace /\ a.cr3 = m.cr3 /\ a.stale = m.stale
    BY ONLY <2>1, AllocTCB
  <2> QED BY <1>1, <2>2
<1>3. t \in DOMAIN T1 /\ T1[t] = q /\ q.utcb = None /\ q.space = sp
  <2>1. DOMAIN T1 = (DOMAIN T) \cup {t}
    BY <1>1, WithDomain, Zenon
  <2>2. T1[t] = q
    BY <1>1, WithFacts
  <2> QED BY <1>1, <2>1, <2>2
<1>4. a.space[sp].area = m.space[sp].area
  <2>1. PICK space : space = m.space
    OBVIOUS
  <2>2. space \in [DOMAIN space -> SpaceSet] /\ sp \in DOMAIN space
    BY <2>1, MemParts DEF SpaceInv
  <2>3. \A s \in DOMAIN space : Joined(space, sp)[s].area = space[s].area
    BY <2>2, JoinedFacts
  <2> QED BY <1>2, <2>1, <2>2, <2>3
<1>5. PICK d : d = DirectoryPage(sp)
  OBVIOUS
<1>6. PICK R : R = S \cup {t}
  BY Zenon
<1>7. /\ MemInv(w, With(T1, t, [space |-> sp, utcb |-> UtcbPage(d, loc)]), R, K)
      /\ UtcbAt(w, sp, loc) = UtcbPage(d, loc) /\ w.space = Activated(a.space, sp)
      /\ w.currentSpace = a.currentSpace /\ w.cr3 = a.cr3 /\ w.stale = a.stale
      /\ w.num \in Int /\ w.num >= a.num - 4
  <2>1. /\ MemInv(a, T1, R, K) /\ t \in DOMAIN T1 /\ T1[t].utcb = None /\ sp = T1[t].space
        /\ a.space[sp].area # None /\ loc \in a.space[sp].area.utcb /\ d = DirectoryPage(sp)
        /\ w = allocUtcb4(a, sp, loc)
    BY <1>1, <1>2, <1>3, <1>4, <1>5, <1>6
  <2> QED BY ONLY <2>1, AllocUtcb
<1>8. With(T1, t, [space |-> sp, utcb |-> UtcbPage(d, loc)]) = With(T, t, r)
  BY <1>1, <1>5, WithTwice
<1>9. w.num >= m.num - 5
  <2>1. PICK n \in Int : n = m.num
    BY NumInt
  <2>2. PICK k \in Int : k = w.num
    BY <1>7
  <2>3. a.num \in {n, n - 1} /\ k >= a.num - 4
    BY <1>2, <1>7, <2>1, <2>2
  <2>4. k >= n - 5
    BY <2>3
  <2> QED BY <2>1, <2>2, <2>4
<1> QED BY <1>2, <1>5, <1>6, <1>7, <1>8, <1>9

LEMMA CreateActiveStep ==
  ASSUME IInv, NEW t \in Thread, NEW spaceTCB, NEW loc, CreateActive(t, spaceTCB, loc)
  PROVE  IInv'
<1>1. PICK m, T : /\ m = mem /\ T = tcb /\ MemInv(m, T, DOMAIN T, KernelObjs) /\ m.num \in Int
                  /\ m.num >= 0 /\ Inhabited(m.space, T)
  BY MemOf
<1>2. PICK S, K, sp, u : /\ S = DOMAIN T /\ K = KernelObjs /\ sp = T[spaceTCB].space
                         /\ u = UtcbPage(DirectoryPage(sp), loc)
  OBVIOUS
<1>3. PICK b, w, r, T2 : /\ b = allocUtcb4(allocTCB1(m, t, sp), sp, loc)
                         /\ w = refreshSpace(b) /\ r = [space |-> sp, utcb |-> u]
                         /\ T2 = With(T, t, r)
  BY Zenon
<1>4. /\ current # Idle /\ t \notin DOMAIN T /\ spaceTCB \in DOMAIN T /\ m.num >= 6
      /\ m.space[sp].area # None /\ loc \in m.space[sp].area.utcb
      /\ mem' = w /\ tcb' = With(T, t, [space |-> sp, utcb |-> UtcbAt(b, sp, loc)])
      /\ current' = current
  BY <1>1, <1>2, <1>3 DEF CreateActive, MayControl, availPages
<1>5. sp \in DOMAIN m.space
  <2>1. ThreadInv(m.space, T)
    BY <1>1, MemParts
  <2> QED BY <1>2, <1>4, <2>1, ThreadFacts
<1>6. /\ MemInv(b, With(T, t, r), S \cup {t}, K)
      /\ UtcbAt(b, sp, loc) = u /\ b.space = Activated(Joined(m.space, sp), sp)
      /\ b.currentSpace = m.currentSpace /\ b.num \in Int /\ b.num >= m.num - 5
  <2>1. /\ MemInv(m, T, S, K) /\ t \in Thread /\ t \notin DOMAIN T /\ t \notin S
        /\ sp \in DOMAIN m.space /\ m.space[sp].area # None /\ loc \in m.space[sp].area.utcb
        /\ u = UtcbPage(DirectoryPage(sp), loc) /\ r = [space |-> sp, utcb |-> u]
    BY <1>1, <1>2, <1>3, <1>4, <1>5
  <2>2. PICK a : a = allocTCB1(m, t, sp) /\ b = allocUtcb4(a, sp, loc)
    BY <1>3
  <2> QED BY ONLY <2>1, <2>2, EnterAndActivate
<1>7. tcb' = T2
  BY <1>3, <1>4, <1>6
<1>8. DOMAIN T2 = S \cup {t}
  BY <1>2, <1>3, WithDomain, Zenon
<1>9. T2[t] = r /\ \A x \in DOMAIN T : x # t => T2[x] = T[x]
  BY <1>3, WithFacts
<1>10. MemInv(b, T2, DOMAIN T2, K) /\ b.num >= 0
  <2>1. PICK n \in Int : n = m.num
    BY <1>1
  <2>2. PICK k \in Int : k = b.num
    BY <1>6
  <2>3. k >= n - 5 /\ n >= 6
    BY <1>4, <1>6, <2>1, <2>2
  <2>4. k >= 0
    BY <2>3
  <2>5. MemInv(b, T2, DOMAIN T2, K)
    BY <1>3, <1>6, <1>8
  <2> QED BY <2>2, <2>4, <2>5
<1>11. Inhabited(b.space, T2)
  <2>1. DOMAIN b.space = DOMAIN m.space
    BY <1>6, JoinedDomain, ActivatedDomain
  <2>2. /\ t \notin DOMAIN T /\ r.space = sp /\ Inhabited(m.space, T)
        /\ \A s \in DOMAIN b.space : s = sp \/ s \in DOMAIN m.space
    BY <1>1, <1>3, <1>4, <2>1
  <2>3. PrivInv(b.space)
    <3>1. PICK s0, s1, s2 : s0 = m.space /\ s1 = Joined(s0, sp) /\ s2 = b.space
      OBVIOUS
    <3>2. /\ s0 \in [DOMAIN s0 -> SpaceSet] /\ sp \in DOMAIN s0 /\ DOMAIN s0 \subseteq Object
          /\ s2 = Activated(s1, sp) /\ PrivInv(s0)
      BY <1>1, <1>5, <1>6, <3>1, MemParts DEF SpaceInv, Inhabited
    <3>3. DOMAIN s1 = DOMAIN s0 /\ s1 \in [DOMAIN s1 -> SpaceSet]
      BY <3>1, <3>2, JoinedDomain, JoinedFacts
    <3>4. PrivInv(s1)
      BY <3>1, <3>2, PrivJoined
    <3>5. PrivInv(s2)
      BY <3>2, <3>3, <3>4, PrivActivated
    <3> QED BY <3>1, <3>5
  <2> QED BY ONLY <1>3, <2>2, <2>3, InhabitedWith
<1>12. /\ current \in DOMAIN T2 /\ T2[current].utcb # None /\ T2[current].space = b.currentSpace
  <2>1. current \in DOMAIN T /\ T[current].utcb # None /\ m.currentSpace = T[current].space
    BY <1>1, <1>4 DEF IInv, RunInv
  <2> QED BY <1>2, <1>4, <1>6, <1>8, <1>9, <2>1
<1>13. PICK cs : cs = b.currentSpace
  OBVIOUS
<1>14. cs \in DOMAIN b.space /\ b.space[cs].active # 0
  <2>1. PICK space, c : space = b.space /\ c = current
    OBVIOUS
  <2>2. ThreadInv(space, T2)
    BY <1>10, <2>1, MemParts
  <2>3. c \in DOMAIN T2 /\ cs = T2[c].space /\ T2[c].utcb # None
    BY <1>12, <1>13, <2>1
  <2> QED BY ONLY <2>1, <2>2, <2>3, Counted
<1>15. /\ MemInv(w, T2, DOMAIN T2, K) /\ w.num = b.num /\ LikeSpaces(b.space, w.space)
       /\ Current(w, b.currentSpace)
  <2>1. MemInv(b, T2, DOMAIN T2, K) /\ b.currentSpace \in DOMAIN b.space
        /\ b.space[b.currentSpace].active # 0
    BY <1>10, <1>13, <1>14
  <2>2. w = refreshSpace(b)
    BY <1>3
  <2> QED BY ONLY <2>1, <2>2, RefreshSpace
<1>16. Inhabited(w.space, T2)
  BY ONLY <1>11, <1>15, InhabitedLike
<1>17. RunInv'
  BY <1>4, <1>7, <1>12, <1>15 DEF RunInv, Current
<1>18. MemInv(w, T2, DOMAIN T2, KernelObjs) /\ w.num >= 0
  BY <1>2, <1>10, <1>15
<1> QED BY <1>4, <1>7, <1>16, <1>17, <1>18 DEF IInv

LEMMA ModifyThreadStep ==
  ASSUME IInv, NEW t \in Thread, NEW loc, ModifyThread(t, loc)
  PROVE  IInv'
<1>1. PICK m, T : /\ m = mem /\ T = tcb /\ MemInv(m, T, DOMAIN T, KernelObjs) /\ m.num \in Int
                  /\ m.num >= 0 /\ Inhabited(m.space, T)
  BY MemOf
<1>2. PICK S, K, sp, d : S = DOMAIN T /\ K = KernelObjs /\ sp = T[t].space /\ d = DirectoryPage(sp)
  OBVIOUS
<1>3. PICK w, r, T2 : /\ w = allocUtcb4(m, sp, loc) /\ r = [space |-> sp, utcb |-> UtcbPage(d, loc)]
                      /\ T2 = With(T, t, r)
  BY Zenon
<1>4. /\ current # Idle /\ t \in DOMAIN T /\ T[t].utcb = None /\ m.num >= 4
      /\ m.space[sp].area # None /\ loc \in m.space[sp].area.utcb
      /\ mem' = w /\ tcb' = [T EXCEPT ![t].utcb = UtcbAt(w, sp, loc)] /\ current' = current
  BY <1>1, <1>2, <1>3 DEF ModifyThread, MayControl, availPages
<1>5. /\ MemInv(w, With(T, t, [space |-> sp, utcb |-> UtcbPage(d, loc)]), S, K)
      /\ UtcbAt(w, sp, loc) = UtcbPage(d, loc) /\ w.space = Activated(m.space, sp)
      /\ w.currentSpace = m.currentSpace /\ w.cr3 = m.cr3 /\ w.stale = m.stale
      /\ w.num \in Int /\ w.num >= m.num - 4
  <2>1. /\ MemInv(m, T, S, K) /\ t \in DOMAIN T /\ T[t].utcb = None /\ sp = T[t].space
        /\ m.space[sp].area # None /\ loc \in m.space[sp].area.utcb /\ d = DirectoryPage(sp)
        /\ w = allocUtcb4(m, sp, loc)
    BY <1>1, <1>2, <1>3, <1>4
  <2> QED BY ONLY <2>1, AllocUtcb
<1>6. /\ ThreadInv(m.space, T) /\ sp \in DOMAIN m.space /\ m.space \in [DOMAIN m.space -> SpaceSet]
      /\ DOMAIN m.space \subseteq Object /\ SpaceInv(m.space, m.pdir, m.ptab)
  <2>1. ThreadInv(m.space, T) /\ SpaceInv(m.space, m.pdir, m.ptab)
    BY <1>1, MemParts
  <2> QED BY <1>2, <1>4, <2>1, ThreadFacts DEF SpaceInv
<1>7. DOMAIN T2 = DOMAIN T
  <2>1. DOMAIN T2 = (DOMAIN T) \cup {t}
    BY <1>3, WithDomain, Zenon
  <2> QED BY <1>4, <2>1
<1>8. T2[t] = r /\ \A x \in DOMAIN T : x # t => T2[x] = T[x]
  BY <1>3, WithFacts
<1>9. tcb' = T2
  <2>1. PICK e : e = T[t]
    OBVIOUS
  <2>2. e \in TCB(m.space, T) /\ e.space = sp
    BY <1>2, <1>4, <1>6, <2>1, ThreadFacts
  <2>3. [e EXCEPT !.utcb = UtcbPage(d, loc)] = r
    BY <1>3, <2>2 DEF TCB
  <2>4. [T EXCEPT ![t] = r] = T2
    <3>1. T = [x \in DOMAIN T |-> T[x]]
      BY <1>6 DEF ThreadInv
    <3> QED BY <1>3, <1>4, <3>1, Zenon DEF With
  <2>5. tcb' = [T EXCEPT ![t] = [T[t] EXCEPT !.utcb = UtcbPage(d, loc)]]
    BY <1>4, <1>5
  <2> QED BY <2>1, <2>3, <2>4, <2>5
<1>10. w.num >= 0
  <2>1. PICK n \in Int : n = m.num
    BY <1>1
  <2>2. PICK k \in Int : k = w.num
    BY <1>5
  <2>3. k >= n - 4 /\ n >= 4
    BY <1>4, <1>5, <2>1, <2>2
  <2> QED BY <2>2, <2>3
<1>11. MemInv(w, T2, DOMAIN T2, KernelObjs)
  BY <1>2, <1>3, <1>5, <1>7
<1>12. Inhabited(w.space, T2)
  <2>1. DOMAIN w.space = DOMAIN m.space
    BY <1>5, ActivatedDomain
  <2>2. \A x \in DOMAIN T : T2[x].space = T[x].space
    BY <1>2, <1>3, <1>8
  <2>3. \A s : Threads(T2, s) = Threads(T, s)
    BY <1>7, <2>2 DEF Threads
  <2>4. PrivInv(w.space)
    <3>1. PICK s1, s2 : s1 = m.space /\ s2 = w.space
      OBVIOUS
    <3>2. /\ s1 \in [DOMAIN s1 -> SpaceSet] /\ sp \in DOMAIN s1 /\ DOMAIN s1 \subseteq Object
          /\ s2 = Activated(s1, sp) /\ PrivInv(s1)
      BY <1>1, <1>5, <1>6, <3>1 DEF Inhabited
    <3>3. PrivInv(s2)
      BY <3>2, PrivActivated
    <3> QED BY <3>1, <3>3
  <2> QED BY <1>1, <2>1, <2>3, <2>4 DEF Inhabited
<1>13. \A s \in DOMAIN m.space : m.space[s].active # 0 => w.space[s].pdir = m.space[s].pdir
  <2>1. PICK space : space = m.space
    OBVIOUS
  <2>2. /\ SpaceInv(space, m.pdir, m.ptab) /\ space \in [DOMAIN space -> SpaceSet]
        /\ DOMAIN space \subseteq Object /\ sp \in DOMAIN space
    BY <1>6, <2>1
  <2>3. /\ \A s \in DOMAIN space : s # sp => Activated(space, sp)[s] = space[s]
        /\ Activated(space, sp)[sp].pdir = DirectoryPage(sp)
    BY <2>2, ActivatedFacts, Zenon
  <2>4. space[sp].active # 0 => space[sp].pdir = DirectoryPage(sp)
    BY <2>2, AreaFacts
  <2> QED BY <1>5, <2>1, <2>3, <2>4
<1>14. RunInv'
  <2>1. \A c \in DOMAIN T : T[c].utcb # None => /\ c \in DOMAIN T2 /\ T2[c].utcb # None
                                                /\ T2[c].space = T[c].space
    BY <1>4, <1>7, <1>8
  <2>2. m = mem /\ T = tcb /\ IInv
    BY <1>1
  <2> QED BY ONLY <1>4, <1>5, <1>9, <1>13, <2>1, <2>2, GoesOn
<1> QED BY <1>4, <1>9, <1>10, <1>11, <1>12, <1>14, Zenon DEF IInv

LEMMA DeleteThreadStep ==
  ASSUME IInv, NEW t \in Thread, NEW derived \in SUBSET DOMAIN mem.mapping,
         DeleteThread(t, derived)
  PROVE  IInv'
<1>1. PICK m, T : /\ m = mem /\ T = tcb /\ MemInv(m, T, DOMAIN T, KernelObjs) /\ m.num \in Int
                  /\ m.num >= 0 /\ Inhabited(m.space, T)
  BY MemOf
<1>2. PICK S, K, sp, utcb : /\ S = DOMAIN T /\ K = KernelObjs /\ sp = T[t].space
                            /\ utcb = T[t].utcb
  OBVIOUS
<1>3. PICK gone : gone = IF Held(m, sp) = {} THEN {} ELSE Held(m, sp) \cup derived
  BY Zenon
<1>4. PICK T2 : T2 = Dropped(T, t)
  OBVIOUS
<1>5. /\ t \in DOMAIN T
      /\ \E list \in SetToSeqs(gone) :
           RescheduleWith(leaveTable(exitSpace(m, sp, utcb, list), TableFor(t)), T2)
  BY <1>1, <1>2, <1>3, <1>4 DEF DeleteThread, MayControl
<1>6. PICK list \in SetToSeqs(gone) :
        RescheduleWith(leaveTable(exitSpace(m, sp, utcb, list), TableFor(t)), T2)
  BY <1>5
<1>7. gone \subseteq DOMAIN m.mapping /\ Held(m, sp) \subseteq gone
  BY <1>1, <1>3 DEF Held
<1>8. PICK e, w : e = exitSpace(m, sp, utcb, list) /\ w = leaveTable(e, TableFor(t))
  OBVIOUS
<1>9. /\ MemInv(e, Dropped(T, t), S, K) /\ e.num \in Int /\ e.num >= m.num
      /\ e.currentSpace = m.currentSpace
      /\ Inhabited(m.space, T) => Inhabited(e.space, Dropped(T, t))
  <2>1. /\ MemInv(m, T, S, K) /\ t \in DOMAIN T /\ sp = T[t].space
        /\ utcb = T[t].utcb /\ gone \subseteq DOMAIN m.mapping /\ Held(m, sp) \subseteq gone
        /\ list \in SetToSeqs(gone) /\ e = exitSpace(m, sp, utcb, list)
    BY <1>1, <1>2, <1>5, <1>6, <1>7, <1>8
  <2> QED BY ONLY <2>1, ExitSpace
<1>10. /\ MemInv(w, T2, S \ {t}, K) /\ w.num \in {e.num, e.num + 1} /\ w.space = e.space
       /\ w.currentSpace = e.currentSpace
  <2>1. MemInv(e, T2, S, K) /\ t \in S
    BY <1>2, <1>4, <1>5, <1>9
  <2> QED BY ONLY <1>8, <2>1, LeaveTable
<1>11. MemInv(w, T2, DOMAIN T2, KernelObjs)
  <2>1. DOMAIN T2 = S \ {t}
    BY <1>2, <1>4, DroppedDomain
  <2> QED BY <1>2, <1>10, <2>1
<1>12. w.num >= 0
  <2>1. PICK n \in Int : n = m.num
    BY <1>1
  <2>2. PICK k \in Int : k = e.num
    BY <1>9
  <2>3. n >= 0 /\ k >= n /\ w.num \in {k, k + 1}
    BY <1>1, <1>9, <1>10, <2>1, <2>2
  <2> QED BY <2>3
<1>13. Inhabited(w.space, T2)
  BY <1>1, <1>4, <1>9, <1>10
<1>14. RescheduleWith(w, T2)
  BY <1>6, <1>8
<1> QED BY ONLY <1>11, <1>12, <1>13, <1>14, Rescheduled

LEMMA TransferStep ==
  ASSUME IInv, NEW t \in Thread, NEW loc \in Loc, ~OverUtcbs(t, loc),
         NEW derived \in SUBSET DOMAIN mem.mapping, Transfer(t, loc, derived)
  PROVE  IInv'
<1>1. PICK m, T : /\ m = mem /\ T = tcb /\ MemInv(m, T, DOMAIN T, KernelObjs) /\ m.num \in Int
                  /\ m.num >= 0 /\ Inhabited(m.space, T)
  BY MemOf
<1>2. PICK S, K, sp : S = DOMAIN T /\ K = KernelObjs /\ sp = T[t].space
  OBVIOUS
<1>3. PICK here : here = {o \in Held(m, sp) : m.mapping[o].loc = loc}
  BY Zenon
<1>4. PICK gone : gone = IF here = {} THEN {} ELSE here \cup derived
  BY Zenon
<1>5. /\ t \in DOMAIN T /\ T[t].utcb # None /\ m.num >= 2
      /\ \E list \in SetToSeqs(gone) :
           RescheduleWith(mapFpage1(addMapping1(flushAll(m, list), sp, loc), sp, loc), T)
  BY <1>1, <1>2, <1>3, <1>4 DEF Transfer, Active, availPages
<1>6. PICK list \in SetToSeqs(gone) :
        RescheduleWith(mapFpage1(addMapping1(flushAll(m, list), sp, loc), sp, loc), T)
  BY <1>5
<1>7. gone \subseteq DOMAIN m.mapping
  BY <1>1, <1>3, <1>4 DEF Held
<1>8. PICK f, a, w : /\ f = flushAll(m, list) /\ a = addMapping1(f, sp, loc)
                     /\ w = mapFpage1(a, sp, loc)
  OBVIOUS
<1>9. sp \in DOMAIN m.space /\ m.space[sp].active # 0
  <2>1. PICK space : space = m.space
    OBVIOUS
  <2>2. ThreadInv(space, T)
    BY <1>1, <2>1, MemParts
  <2>3. t \in DOMAIN T /\ sp = T[t].space /\ T[t].utcb # None
    BY <1>2, <1>5
  <2> QED BY ONLY <2>1, <2>2, <2>3, Counted
<1>10. loc \notin m.space[sp].area.utcb
  <2>1. m.space[sp].area # None
    <3>1. PICK space, pdir, ptab : space = m.space /\ pdir = m.pdir /\ ptab = m.ptab
      OBVIOUS
    <3>2. SpaceInv(space, pdir, ptab) /\ sp \in DOMAIN space /\ space[sp].active # 0
      BY <1>1, <1>9, <3>1, MemParts
    <3>3. space[sp].area # None
      BY <3>2 DEF SpaceInv
    <3> QED BY <3>1, <3>3
  <2> QED BY <1>1, <1>2, <1>5, <2>1 DEF OverUtcbs
<1>11. MemInv(f, T, S, K) /\ Flushed(m, f, gone)
  <2>1. MemInv(m, T, S, K)
    BY <1>1, <1>2
  <2> QED BY ONLY <1>6, <1>7, <1>8, <2>1, FlushSet
<1>12. /\ f.num \in Int /\ f.num >= m.num /\ LikeSpaces(m.space, f.space)
  BY <1>11, NumInt DEF Flushed
<1>13. /\ sp \in DOMAIN f.space /\ f.space[sp].active # 0 /\ loc \notin f.space[sp].area.utcb
       /\ Inhabited(f.space, T)
  BY <1>1, <1>9, <1>10, <1>12, InhabitedLike DEF LikeSpaces
<1>14. MemInv(a, T, S, K) /\ a.num \in {f.num, f.num - 1} /\ a.space = f.space
  <2>1. f.num >= 0
    <3>1. PICK n \in Int : n = m.num
      BY <1>1
    <3>2. PICK k \in Int : k = f.num
      BY <1>12
    <3>3. k >= n /\ n >= 0
      BY <1>1, <1>12, <3>1, <3>2
    <3> QED BY <3>2, <3>3
  <2>2. loc \in Loc /\ MemInv(f, T, S, K)
    BY <1>11
  <2>3. /\ MemInv(addMapping1(f, sp, loc), T, S, K)
        /\ addMapping1(f, sp, loc).num \in {f.num, f.num - 1}
        /\ addMapping1(f, sp, loc).space = f.space
    BY ONLY <1>13, <2>1, <2>2, AddMapping
  <2> QED BY <1>8, <2>3
<1>15. /\ MemInv(w, T, S, K) /\ w.num \in {a.num, a.num - 1}
       /\ w.space = [a.space EXCEPT ![sp].loaded = FALSE] /\ w.currentSpace = a.currentSpace
  <2>1. /\ sp \in DOMAIN a.space /\ a.space[sp].active # 0 /\ loc \notin a.space[sp].area.utcb
        /\ loc \in Loc
    BY <1>13, <1>14
  <2> QED BY ONLY <1>8, <1>14, <2>1, MapFpage
<1>16. w.num >= 0
  <2>1. PICK n \in Int : n = m.num
    BY <1>1
  <2>2. PICK k \in Int : k = f.num
    BY <1>12
  <2>3. PICK j \in Int : j = a.num /\ j \in {k, k - 1}
    BY <1>14, <2>2
  <2>4. n >= 2 /\ k >= n /\ w.num \in {j, j - 1}
    BY <1>5, <1>12, <1>15, <2>1, <2>2, <2>3
  <2> QED BY <2>3, <2>4
<1>17. Inhabited(w.space, T)
  <2>1. PICK space, pdir, ptab, v : space = a.space /\ pdir = a.pdir /\ ptab = a.ptab /\ v = w.space
    OBVIOUS
  <2>2. /\ SpaceInv(space, pdir, ptab) /\ sp \in DOMAIN space /\ space[sp].active # 0
        /\ Inhabited(space, T) /\ v = [space EXCEPT ![sp].loaded = FALSE]
    BY <1>13, <1>14, <1>15, <2>1, MemParts
  <2>3. LikeSpaces(space, v)
    BY <2>2, NotLoaded
  <2>4. Inhabited(v, T)
    BY <2>2, <2>3, InhabitedLike
  <2> QED BY <2>1, <2>4
<1>18. MemInv(w, T, DOMAIN T, KernelObjs) /\ RescheduleWith(w, T)
  BY <1>2, <1>6, <1>8, <1>15
<1> QED BY ONLY <1>16, <1>17, <1>18, Rescheduled

LEMMA Sigma0FaultStep ==
  ASSUME IInv, NEW loc \in Faults, Sigma0Fault(loc)
  PROVE  IInv'
<1>1. PICK m, T : /\ m = mem /\ T = tcb /\ MemInv(m, T, DOMAIN T, KernelObjs) /\ m.num \in Int
                  /\ m.num >= 0 /\ Inhabited(m.space, T)
  BY MemOf
<1>2. PICK S, K, sp, c : S = DOMAIN T /\ K = KernelObjs /\ sp = sigma0Space /\ c = current
  OBVIOUS
<1>3. PICK f, w : f = mapFpage1(m, sp, loc) /\ w = refreshSpace(f)
  OBVIOUS
<1>4. /\ current # Idle /\ T[c].space = sp /\ ~Present(m, sp, loc) /\ m.num >= 1
      /\ RescheduleWith(w, T)
  BY <1>1, <1>2, <1>3 DEF Sigma0Fault, availPages
<1>5. c \in DOMAIN T /\ T[c].utcb # None /\ m.currentSpace = sp
  BY <1>1, <1>2, <1>4 DEF IInv, RunInv
<1>6. sp \in DOMAIN m.space /\ m.space[sp].active # 0
  <2>1. PICK space : space = m.space
    OBVIOUS
  <2>2. ThreadInv(space, T)
    BY <1>1, <2>1, MemParts
  <2>3. c \in DOMAIN T /\ sp = T[c].space /\ T[c].utcb # None
    BY <1>4, <1>5
  <2> QED BY ONLY <2>1, <2>2, <2>3, Counted
<1>7. loc \in Loc
  BY SpacesAssumption
<1>8. loc \notin m.space[sp].area.utcb
  <2>1. SUFFICES ASSUME loc \in m.space[sp].area.utcb
                 PROVE  FALSE
    OBVIOUS
  <2>2. m.space[sp].pdir = DirectoryPage(sp) /\ sp \in Object
    <3>1. SpaceInv(m.space, m.pdir, m.ptab)
      BY <1>1, MemParts
    <3> QED BY <1>6, <3>1, AreaFacts
  <2>3. m.space[sp].area.utcb = {loc}
    <3>1. m.space[sp].area = PrivArea
      BY <1>1, <1>2 DEF Inhabited, PrivInv
    <3> QED BY <2>1, <3>1, SpacesAssumption
  <2>4. PICK u : u = UtcbPage(DirectoryPage(sp), loc)
    OBVIOUS
  <2>5. u \in UtcbsIn(m.ptab)
    <3>1. PICK space, ptab : space = m.space /\ ptab = m.ptab
      OBVIOUS
    <3>2. ThreadInv(space, T) /\ UtcbInv(ptab, T)
      BY <1>1, <3>1, MemParts
    <3>3. PICK l \in space[T[c].space].area.utcb :
            T[c].utcb = UtcbPage(DirectoryPage(T[c].space), l)
      BY <1>5, <3>2 DEF ThreadInv
    <3>4. l = loc
      BY <1>4, <2>3, <3>1, <3>3
    <3>5. T[c].utcb = u
      BY <1>4, <2>4, <3>3, <3>4
    <3>6. T[c].utcb \in UtcbsIn(ptab)
      BY <1>5, <3>2 DEF UtcbInv
    <3> QED BY <3>1, <3>5, <3>6
  <2>6. /\ m.pdir[m.space[sp].pdir][loc[1]] # None
        /\ m.ptab[m.pdir[m.space[sp].pdir][loc[1]]][loc[2]] = u
    <3>1. PICK pdir, ptab, d : pdir = m.pdir /\ ptab = m.ptab /\ d = DirectoryPage(sp)
      OBVIOUS
    <3>2. TabInv(pdir, ptab)
      BY <1>1, <3>1, MemParts
    <3>3. UtcbPage(d, loc) \in UtcbsIn(ptab)
      BY <2>4, <2>5, <3>1
    <3>4. pdir[d][loc[1]] # None /\ ptab[pdir[d][loc[1]]][loc[2]] = UtcbPage(d, loc)
      BY ONLY <3>2, <3>3, UtcbOwner
    <3> QED BY <2>2, <2>4, <3>1, <3>4
  <2>7. u # None
    BY <1>7, <2>2, <2>4, PageNames, NotNames
  <2> QED BY <1>4, <2>6, <2>7 DEF Present, UtcbAt, PageAt
<1>9. /\ MemInv(f, T, S, K) /\ f.num \in {m.num, m.num - 1}
      /\ f.space = [m.space EXCEPT ![sp].loaded = FALSE] /\ f.currentSpace = m.currentSpace
  <2>1. MemInv(m, T, S, K)
    BY <1>1, <1>2
  <2> QED BY ONLY <1>3, <1>6, <1>7, <1>8, <2>1, MapFpage
<1>10. /\ DOMAIN f.space = DOMAIN m.space /\ f.space[sp].active # 0
  <2>1. PICK space : space = m.space
    OBVIOUS
  <2>2. PICK pdir, ptab : pdir = m.pdir /\ ptab = m.ptab
    OBVIOUS
  <2>3. SpaceInv(space, pdir, ptab) /\ sp \in DOMAIN space /\ space[sp].active # 0
    BY <1>1, <1>6, <2>1, <2>2, MemParts
  <2>4. LikeSpaces(space, [space EXCEPT ![sp].loaded = FALSE])
    BY <2>3, NotLoaded
  <2> QED BY <1>6, <1>9, <2>1, <2>4 DEF LikeSpaces
<1>11. MemInv(w, T, S, K) /\ w.num = f.num /\ LikeSpaces(f.space, w.space)
  <2>1. /\ MemInv(f, T, S, K) /\ f.currentSpace \in DOMAIN f.space
        /\ f.space[f.currentSpace].active # 0
    BY <1>5, <1>6, <1>9, <1>10
  <2>2. w = refreshSpace(f)
    BY <1>3
  <2>3. /\ MemInv(w, T, S, K) /\ w.num = f.num /\ LikeSpaces(f.space, w.space)
        /\ Current(w, f.currentSpace)
    BY ONLY <2>1, <2>2, RefreshSpace
  <2> QED BY <2>3
<1>12. w.num >= 0
  <2>1. PICK n \in Int : n = m.num
    BY <1>1
  <2>2. n >= 1 /\ w.num \in {n, n - 1}
    BY <1>4, <1>9, <1>11, <2>1
  <2> QED BY <2>2
<1>13. Inhabited(w.space, T)
  <2>1. PICK space, pdir, ptab, v : space = m.space /\ pdir = m.pdir /\ ptab = m.ptab /\ v = f.space
    OBVIOUS
  <2>2. /\ SpaceInv(space, pdir, ptab) /\ sp \in DOMAIN space /\ space[sp].active # 0
        /\ Inhabited(space, T) /\ v = [space EXCEPT ![sp].loaded = FALSE]
    BY <1>1, <1>6, <1>9, <2>1, MemParts
  <2>3. LikeSpaces(space, v)
    BY <2>2, NotLoaded
  <2>4. Inhabited(v, T)
    BY <2>2, <2>3, InhabitedLike
  <2> QED BY <1>11, <2>1, <2>4, InhabitedLike
<1>14. MemInv(w, T, DOMAIN T, KernelObjs)
  BY <1>2, <1>11
<1> QED BY ONLY <1>4, <1>12, <1>13, <1>14, Rescheduled

-----------------------------------------------------------------------------
(***************************************************************************)
(* Memory after initSpaces and initTCBs.                                   *)
(***************************************************************************)
LEMMA NoEntriesFacts ==
  /\ DOMAIN NoEntries = {}
  /\ \A X, Y : X = {} => NoEntries \in [X -> Y]
BY DEF NoEntries

LEMMA NothingInv == MemInv(Nothing, NoEntries, {}, {}) /\ Nothing.num = NumPages
<1>1. PICK m : m = Nothing
  OBVIOUS
<1>2. PICK e : e = NoEntries
  OBVIOUS
<1>3. DOMAIN e = {} /\ \A X, Y : X = {} => e \in [X -> Y]
  BY <1>2, NoEntriesFacts
<1>4. /\ Shape(m) /\ m.used = {} /\ m.num = NumPages /\ m.partials = << >> /\ m.objs = e
      /\ m.space = e /\ m.mapping = e /\ m.pdir = e /\ m.ptab = e /\ m.table = e
      /\ m.currentSpace = None /\ m.stale = FALSE
  BY <1>1, <1>2 DEF Nothing, Shape
<1>5. UsedInv(m)
  <2>1. IsFiniteSet({}) /\ Cardinality({}) = 0
    BY FS_EmptySet
  <2>2. InUse(m) = {}
    BY <1>3, <1>4 DEF InUse, UtcbsIn
  <2>3. NumPages \in Int /\ NumPages + 0 = NumPages
    BY SpacesAssumption
  <2> QED BY <1>4, <2>1, <2>2, <2>3 DEF UsedInv
<1>6. Objects(m, {}) = {} /\ Apart(m, {})
  BY <1>3, <1>4 DEF Objects, Apart
<1>7. ObjInv(m.objs, m.partials, {})
  <2>1. {p \in DOMAIN e : e[p].count < Full} = {}
    BY <1>3
  <2>2. Lists(<< >>, {p \in DOMAIN e : e[p].count < Full})
    BY <2>1, ListEmpty, Zenon
  <2> QED BY <1>3, <1>4, <2>2 DEF ObjInv
<1>8. TabInv(m.pdir, m.ptab)
  BY <1>3, <1>4 DEF TabInv
<1>9. SpaceInv(m.space, m.pdir, m.ptab)
  BY <1>3, <1>4 DEF SpaceInv
<1>10. ThreadInv(m.space, e)
  <2>1. IsFiniteSet({})
    BY FS_EmptySet
  <2> QED BY <1>3, <1>4, <2>1 DEF ThreadInv
<1>11. MapInv(m.mapping, m.space)
  BY <1>3, <1>4 DEF MapInv
<1>12. LoadInv(m.space, m.cr3, m.currentSpace, m.stale)
  BY <1>3, <1>4, Zenon DEF LoadInv
<1>13. TcbInv(m.table, {})
  <2>1. IsFiniteSet({})
    BY FS_EmptySet
  <2>2. \A i : Residents({}, i) = {}
    BY DEF Residents
  <2>3. e = [i \in DOMAIN e |-> Cardinality(Residents({}, i))]
    BY <1>2 DEF NoEntries
  <2> QED BY <1>3, <1>4, <2>1, <2>2, <2>3 DEF TcbInv
<1>14. UtcbInv(m.ptab, e)
  BY <1>3 DEF UtcbInv
<1>15. MemInv(m, e, {}, {})
  BY <1>4, <1>5, <1>6, <1>7, <1>8, <1>9, <1>10, <1>11, <1>12, <1>13, <1>14, Zenon DEF MemInv
<1> QED BY <1>1, <1>2, <1>4, <1>15

\* The first two objects.
LEMMA FirstObject ==
  /\ NewObj(Nothing) = sigma0Space
  /\ allocObject1(Nothing).partials = <<1>>
  /\ allocObject1(Nothing).objs = With(NoEntries, 1, [count |-> 1, free |-> << >>, last |-> 1])
<1>1. PICK m : m = Nothing
  OBVIOUS
<1>2. m.partials = << >> /\ m.objs = NoEntries
  BY <1>1 DEF Nothing
<1>3. NewObjs(m) = 1
  <2>1. NumPages \in Nat /\ 1 \in 1..NumPages + 1
    BY SpacesAssumption
  <2>2. \A k \in 1..NumPages + 1 : (\A j \in 1..k - 1 : j \in DOMAIN m.objs) => k = 1
    <3> SUFFICES ASSUME NEW k \in 1..NumPages + 1, \A j \in 1..k - 1 : j \in DOMAIN m.objs, k # 1
                 PROVE  FALSE
      OBVIOUS
    <3>1. 1 \in 1..k - 1
      BY <2>1
    <3> QED BY <1>2, <3>1, NoEntriesFacts
  <2>3. 1 \notin DOMAIN m.objs /\ \A j \in 1..1 - 1 : j \in DOMAIN m.objs
    BY <1>2, NoEntriesFacts
  <2> QED BY <2>1, <2>2, <2>3 DEF NewObjs
<1>4. NewObj(m) = sigma0Space
  BY <1>2, <1>3 DEF NewObj, sigma0Space
<1>5. /\ allocObject1(m).partials = <<1>>
      /\ allocObject1(m).objs = With(NoEntries, 1, [count |-> 1, free |-> << >>, last |-> 1])
  BY <1>1, <1>2, <1>3 DEF allocObject1, allocPage1, Nothing
<1> QED BY <1>1, <1>4, <1>5

LEMMA SecondObject == NewObj(allocSpace1(Nothing)) = rootSpace
<1>1. PICK m, w : m = allocObject1(Nothing) /\ w = allocSpace1(Nothing)
  OBVIOUS
<1>2. w = [m EXCEPT !.space = With(@, NewObj(Nothing), NewSpace)]
  BY <1>1 DEF allocSpace1
<1>3. MemInv(m, NoEntries, {}, {NewObj(Nothing)})
  <2>1. Nothing.num >= 0
    BY NothingInv, SpacesAssumption
  <2>2. MemInv(allocObject1(Nothing), NoEntries, {}, {} \cup {NewObj(Nothing)})
    BY <2>1, NothingInv, Reserve
  <2> QED BY <1>1, <2>2
<1>4. Shape(m)
  BY <1>3, MemParts
<1>5. w.partials = m.partials /\ w.objs = m.objs
  BY <1>2, <1>4 DEF Shape
<1>6. w.partials = <<1>> /\ w.objs = With(NoEntries, 1, [count |-> 1, free |-> << >>, last |-> 1])
  BY <1>1, <1>5, FirstObject
<1>7. w.objs[1] = [count |-> 1, free |-> << >>, last |-> 1]
  BY <1>6, WithFacts
<1>8. Head(w.partials) = 1 /\ w.partials # << >>
  BY <1>6
<1>9. NewObj(w) = <<1, 2>>
  BY <1>7, <1>8 DEF NewObj
<1> QED BY <1>1, <1>9 DEF rootSpace

LEMMA PrivUtcb == PrivLoc \in PrivArea.utcb /\ PrivLoc \in Loc /\ PrivArea # None
<1>1. \E l \in Loc : PrivArea.utcb = {l}
  BY SpacesAssumption
<1>2. PrivLoc \in PrivArea.utcb
  BY <1>1 DEF PrivLoc
<1> QED BY <1>1, <1>2, SpacesAssumption

PrivTCB(sp) == [space |-> sp, utcb |-> UtcbPage(DirectoryPage(sp), PrivLoc)]

\* Space sp has got the areas of the privileged spaces, and the others are as they were.
Privileged(space, space2, sp) ==
  /\ space2[sp].area = PrivArea /\ space2[sp].pdir # None
  /\ \A s : s \in DOMAIN space2 <=> s \in DOMAIN space
  /\ \A s \in DOMAIN space : s # sp => space2[s] = space[s]

\* kernelThread5.
LEMMA BootedStep ==
  ASSUME NEW m, NEW T, NEW S, NEW K, MemInv(m, T, S, K), NEW t \in Thread,
         t \notin DOMAIN T, t \notin S, NEW sp \in DOMAIN m.space, m.space[sp].pdir = None,
         NEW r, r = PrivTCB(sp), NEW w, w = Booted(m, t, sp, PrivLoc)
  PROVE  /\ MemInv(w, With(T, t, r), S \cup {t}, K) /\ w.num \in Int /\ w.num >= m.num - 5
         /\ Privileged(m.space, w.space, sp)
<1>1. PICK a, loc, u : /\ a = AreaGiven(m, sp, PrivArea) /\ loc = PrivLoc
                       /\ u = UtcbPage(DirectoryPage(sp), PrivLoc)
  OBVIOUS
<1>2. PICK b : b = allocTCB1(a, t, sp) /\ w = allocUtcb4(b, sp, loc)
  BY <1>1 DEF Booted, AreaGiven
<1>3. PICK space : space = m.space
  OBVIOUS
<1>4. space \in [DOMAIN space -> SpaceSet] /\ sp \in DOMAIN space /\ DOMAIN space \subseteq Object
  BY <1>3, MemParts DEF SpaceInv
<1>5. MemInv(a, T, S, K) /\ a.num = m.num /\ a.space = AreaSet(space, sp, PrivArea)
  <2>1. PrivArea \in Areas \cup {PrivArea} /\ MemInv(m, T, S, K) /\ m.space[sp].pdir = None
        /\ sp \in DOMAIN m.space
    OBVIOUS
  <2>2. /\ MemInv(a, T, S, K) /\ a.num = m.num /\ a.space = AreaSet(m.space, sp, PrivArea)
        /\ a.currentSpace = m.currentSpace /\ a.cr3 = m.cr3 /\ a.stale = m.stale
    BY ONLY <1>1, <2>1, SetArea
  <2> QED BY <1>3, <2>2
<1>6. PICK space2 : space2 = a.space
  OBVIOUS
<1>7. DOMAIN space2 = DOMAIN space
  BY <1>5, <1>6, AreaSetDomain
<1>8. /\ space2 \in [DOMAIN space2 -> SpaceSet] /\ space2[sp].area = PrivArea
      /\ \A s \in DOMAIN space : s # sp => space2[s] = space[s]
  <2>1. PrivArea \in Areas \cup {PrivArea} /\ sp \in DOMAIN space /\ space \in [DOMAIN space -> SpaceSet]
    BY <1>4
  <2>2. LET v == AreaSet(space, sp, PrivArea) IN
        /\ v \in [DOMAIN v -> SpaceSet]
        /\ (\A s \in DOMAIN space : /\ v[s].pdir = space[s].pdir /\ v[s].count = space[s].count
                                    /\ v[s].active = space[s].active
                                    /\ v[s].loaded = space[s].loaded
                                    /\ s # sp => v[s] = space[s])
        /\ v[sp].area = PrivArea
    BY ONLY <2>1, AreaSetFacts
  <2> QED BY <1>5, <1>6, <2>2
<1>9. /\ MemInv(w, With(T, t, r), S \cup {t}, K)
      /\ UtcbAt(w, sp, loc) = u /\ w.space = Activated(Joined(a.space, sp), sp)
      /\ w.currentSpace = a.currentSpace /\ w.num \in Int /\ w.num >= a.num - 5
  <2>1. /\ MemInv(a, T, S, K) /\ t \in Thread /\ t \notin DOMAIN T /\ t \notin S
        /\ sp \in DOMAIN a.space /\ a.space[sp].area # None /\ loc \in a.space[sp].area.utcb
        /\ u = UtcbPage(DirectoryPage(sp), loc) /\ r = [space |-> sp, utcb |-> u]
    BY <1>1, <1>4, <1>5, <1>6, <1>7, <1>8, PrivUtcb DEF PrivTCB
  <2> QED BY ONLY <1>2, <2>1, EnterAndActivate
<1>10. PICK joined : joined = Joined(space2, sp)
  OBVIOUS
<1>11. DOMAIN joined = DOMAIN space2
  BY <1>10, JoinedDomain
<1>12. /\ joined \in [DOMAIN joined -> SpaceSet] /\ joined[sp].area = PrivArea
       /\ \A s \in DOMAIN space2 : s # sp => joined[s] = space2[s]
  <2>1. sp \in DOMAIN space2 /\ space2 \in [DOMAIN space2 -> SpaceSet]
    BY <1>4, <1>7, <1>8
  <2>2. LET v == Joined(space2, sp) IN
        /\ v \in [DOMAIN v -> SpaceSet]
        /\ (\A s \in DOMAIN space2 : /\ v[s].area = space2[s].area /\ v[s].pdir = space2[s].pdir
                                     /\ v[s].active = space2[s].active
                                     /\ v[s].loaded = space2[s].loaded
                                     /\ s # sp => v[s] = space2[s])
        /\ v[sp].count = space2[sp].count + 1
    BY ONLY <2>1, JoinedFacts
  <2> QED BY <1>8, <1>10, <2>1, <2>2
<1>13. PICK entered : entered = Activated(joined, sp)
  OBVIOUS
<1>14. DOMAIN entered = DOMAIN joined
  BY <1>13, ActivatedDomain
<1>15. /\ entered[sp].area = PrivArea /\ entered[sp].pdir # None
       /\ \A s \in DOMAIN joined : s # sp => entered[s] = joined[s]
  <2>1. /\ sp \in DOMAIN joined /\ joined \in [DOMAIN joined -> SpaceSet]
        /\ DOMAIN joined \subseteq Object
    BY <1>4, <1>7, <1>11, <1>12
  <2>2. LET v == Activated(joined, sp) IN
        /\ v \in [DOMAIN v -> SpaceSet]
        /\ (\A s \in DOMAIN joined : /\ v[s].area = joined[s].area /\ v[s].count = joined[s].count
                                     /\ s # sp => v[s] = joined[s])
        /\ v[sp].active = joined[sp].active + 1 /\ v[sp].active # 0
        /\ v[sp].pdir = DirectoryPage(sp) /\ v[sp].loaded = FALSE
    BY ONLY <2>1, ActivatedFacts, Zenon
  <2>3. DirectoryPage(sp) # None
    BY <2>1, SpacesAssumption DEF DirectoryPage, Directories
  <2>4. entered[sp].area = joined[sp].area /\ entered[sp].pdir = DirectoryPage(sp)
    BY <1>13, <2>1, <2>2
  <2>5. \A s \in DOMAIN joined : s # sp => entered[s] = joined[s]
    BY <1>13, <2>2
  <2> QED BY <1>12, <2>3, <2>4, <2>5
<1>16. w.space = entered
  BY <1>6, <1>9, <1>10, <1>13
<1>17. \A s : s \in DOMAIN w.space <=> s \in DOMAIN m.space
  BY <1>3, <1>7, <1>11, <1>14, <1>16
<1>18. \A s \in DOMAIN m.space : s # sp => w.space[s] = m.space[s]
  BY <1>3, <1>7, <1>8, <1>11, <1>12, <1>15, <1>16
<1> QED BY <1>5, <1>9, <1>15, <1>16, <1>17, <1>18 DEF Privileged

LEMMA PrivTCBFacts ==
  ASSUME NEW sp \in Object
  PROVE  PrivTCB(sp).space = sp /\ PrivTCB(sp).utcb # None
BY PrivUtcb, PageNames, NotNames DEF PrivTCB

\* The threads of the first two spaces.
TheirTCBs == With(With(NoEntries, Sigma0Thread, PrivTCB(sigma0Space)),
                  RootThread, PrivTCB(rootSpace))

LEMMA TheirTCBsFacts ==
  /\ DOMAIN TheirTCBs = {Sigma0Thread, RootThread}
  /\ TheirTCBs[Sigma0Thread] = PrivTCB(sigma0Space)
  /\ TheirTCBs[RootThread] = PrivTCB(rootSpace)
<1>1. PICK T1, T2, r1, r2 : /\ T1 = With(NoEntries, Sigma0Thread, r1) /\ r1 = PrivTCB(sigma0Space)
                            /\ T2 = With(T1, RootThread, r2) /\ r2 = PrivTCB(rootSpace)
  OBVIOUS
<1>2. DOMAIN T1 = (DOMAIN NoEntries) \cup {Sigma0Thread}
  BY <1>1, WithDomain, Zenon
<1>3. DOMAIN T2 = (DOMAIN T1) \cup {RootThread}
  BY <1>1, WithDomain, Zenon
<1>4. T1[Sigma0Thread] = r1 /\ T2[RootThread] = r2
  BY <1>1, WithFacts
<1>5. T2[Sigma0Thread] = r1
  <2>1. Sigma0Thread \in DOMAIN T1 /\ Sigma0Thread # RootThread
    BY <1>2 DEF Sigma0Thread, RootThread
  <2>2. \A y \in DOMAIN T1 : y # RootThread => T2[y] = T1[y]
    BY <1>1, WithFacts
  <2> QED BY <1>4, <2>1, <2>2
<1>6. T2 = TheirTCBs
  BY <1>1 DEF TheirTCBs
<1> QED BY <1>1, <1>2, <1>3, <1>4, <1>5, <1>6, NoEntriesFacts

LEMMA TwoObjects == sigma0Space # rootSpace /\ sigma0Space \in Object /\ rootSpace \in Object
BY DEF sigma0Space, rootSpace, Object

\* The two privileged spaces, and an object for the mapping of all memory.
LEMMA AfterInitSpacesInv ==
  LET k == NewObj(allocSpace1(allocSpace1(Nothing))) m == AfterInitSpaces IN
  /\ MemInv(m, NoEntries, {}, {k})
  /\ m.num \in Int /\ m.num >= NumPages - 3
  /\ \A s : s \in DOMAIN m.space <=> s \in {sigma0Space, rootSpace}
  /\ m.space[sigma0Space] = NewSpace /\ m.space[rootSpace] = NewSpace
<1>1. PICK m0, m1, m2, k : /\ m0 = Nothing /\ m1 = allocSpace1(m0) /\ m2 = allocSpace1(m1)
                           /\ k = NewObj(m2)
  OBVIOUS
<1>2. PICK T : T = NoEntries
  OBVIOUS
<1>3. PICK n \in Int : n = NumPages /\ n >= 14
  BY SpacesAssumption
<1>4. MemInv(m0, T, {}, {}) /\ m0.num = n
  BY <1>1, <1>2, <1>3, NothingInv
<1>5. /\ MemInv(m1, T, {}, {}) /\ m1.space = With(m0.space, sigma0Space, NewSpace)
      /\ m1.num \in {n, n - 1}
  <2>1. m0.num >= 0
    BY <1>3, <1>4
  <2>2. /\ MemInv(allocSpace1(m0), T, {}, {})
        /\ NewObj(m0) \in Object /\ NewObj(m0) \notin Objects(m0, {})
        /\ allocSpace1(m0).space = With(m0.space, NewObj(m0), NewSpace)
        /\ allocSpace1(m0).num \in {m0.num, m0.num - 1}
        /\ allocSpace1(m0).currentSpace = m0.currentSpace
        /\ allocSpace1(m0).mapping = m0.mapping
        /\ allocSpace1(m0).cr3 = m0.cr3 /\ allocSpace1(m0).stale = m0.stale
    BY ONLY <1>4, <2>1, AllocSpace
  <2> QED BY <1>1, <1>4, <2>2, FirstObject
<1>6. PICK n1 \in Int : n1 = m1.num /\ n1 >= 13
  BY <1>3, <1>5
<1>7. /\ MemInv(m2, T, {}, {}) /\ m2.space = With(m1.space, rootSpace, NewSpace)
      /\ m2.num \in {n1, n1 - 1}
  <2>1. m1.num >= 0 /\ MemInv(m1, T, {}, {})
    BY <1>5, <1>6
  <2>2. /\ MemInv(allocSpace1(m1), T, {}, {})
        /\ NewObj(m1) \in Object /\ NewObj(m1) \notin Objects(m1, {})
        /\ allocSpace1(m1).space = With(m1.space, NewObj(m1), NewSpace)
        /\ allocSpace1(m1).num \in {m1.num, m1.num - 1}
        /\ allocSpace1(m1).currentSpace = m1.currentSpace
        /\ allocSpace1(m1).mapping = m1.mapping
        /\ allocSpace1(m1).cr3 = m1.cr3 /\ allocSpace1(m1).stale = m1.stale
    BY ONLY <2>1, AllocSpace
  <2>3. NewObj(m1) = rootSpace
    BY <1>1, SecondObject
  <2> QED BY <1>1, <1>6, <2>2, <2>3
<1>8. PICK n2 \in Int : n2 = m2.num /\ n2 >= 12 /\ n2 >= n - 2
  BY <1>3, <1>5, <1>6, <1>7
<1>9. PICK w : w = allocObject1(m2)
  OBVIOUS
<1>10. MemInv(w, T, {}, {k}) /\ SameRest(m2, w) /\ w.num \in {n2, n2 - 1}
  <2>1. m2.num >= 0 /\ MemInv(m2, T, {}, {})
    BY <1>7, <1>8
  <2>2. /\ NewObj(m2) \in Object /\ NewObj(m2) \notin Objects(m2, {})
        /\ MemInv(allocObject1(m2), T, {}, {} \cup {NewObj(m2)})
        /\ SameRest(m2, allocObject1(m2))
        /\ allocObject1(m2).num \in {m2.num, m2.num - 1}
    BY ONLY <2>1, Reserve
  <2>3. {} \cup {NewObj(m2)} = {k}
    BY <1>1
  <2> QED BY <1>8, <1>9, <2>2, <2>3
<1>11. w.num \in Int /\ w.num >= n - 3
  BY <1>8, <1>10
<1>12. PICK s0, s1, s2 : s0 = m0.space /\ s1 = m1.space /\ s2 = m2.space
  OBVIOUS
<1>13. s0 = NoEntries /\ s1 = With(s0, sigma0Space, NewSpace) /\ s2 = With(s1, rootSpace, NewSpace)
  <2>1. m0.space = NoEntries
    BY <1>1 DEF Nothing
  <2> QED BY <1>5, <1>7, <1>12, <2>1
<1>14. DOMAIN s1 = (DOMAIN s0) \cup {sigma0Space}
  BY <1>13, WithDomain, Zenon
<1>15. DOMAIN s2 = (DOMAIN s1) \cup {rootSpace}
  BY <1>13, WithDomain, Zenon
<1>16. s1[sigma0Space] = NewSpace /\ s2[rootSpace] = NewSpace
  BY <1>13, WithFacts
<1>17. s2[sigma0Space] = NewSpace
  <2>1. \A y \in DOMAIN s1 : y # rootSpace => s2[y] = s1[y]
    BY <1>13, WithFacts
  <2> QED BY <1>14, <1>16, <2>1, TwoObjects
<1>18. w.space = s2
  BY <1>10, <1>12 DEF SameRest
<1>19. \A s : s \in DOMAIN w.space <=> s \in {sigma0Space, rootSpace}
  BY <1>13, <1>14, <1>15, <1>18, NoEntriesFacts
<1>20. w = AfterInitSpaces /\ k = NewObj(allocSpace1(allocSpace1(Nothing)))
  BY <1>1, <1>9 DEF AfterInitSpaces
<1> QED BY <1>2, <1>3, <1>10, <1>11, <1>16, <1>17, <1>18, <1>19, <1>20

LEMMA AfterThreadsInv ==
  LET k == NewObj(allocSpace1(allocSpace1(Nothing))) m == AfterThreads IN
  /\ MemInv(m, TheirTCBs, {Sigma0Thread, RootThread}, {k})
  /\ m.num \in Int /\ m.num >= 1
  /\ \A s : s \in DOMAIN m.space <=> s \in {sigma0Space, rootSpace}
  /\ m.space[sigma0Space].area = PrivArea /\ m.space[rootSpace].area = PrivArea
  /\ m.space[sigma0Space].pdir # None
<1>1. PICK m, T, k, r0, r1, t0, t1 :
         /\ m = AfterInitSpaces /\ T = NoEntries
         /\ k = NewObj(allocSpace1(allocSpace1(Nothing)))
         /\ r0 = PrivTCB(sigma0Space) /\ r1 = PrivTCB(rootSpace)
         /\ t0 = Sigma0Thread /\ t1 = RootThread
  OBVIOUS
<1>2. PICK K, S0, S1, S2 : K = {k} /\ S0 = {} /\ S1 = S0 \cup {t0} /\ S2 = S1 \cup {t1}
  BY Zenon
<1>3. PICK a, b, T1, T2 : /\ a = Booted(m, t0, sigma0Space, PrivLoc)
                          /\ b = Booted(a, t1, rootSpace, PrivLoc)
                          /\ T1 = With(T, t0, r0) /\ T2 = With(T1, t1, r1)
  OBVIOUS
<1>4. /\ MemInv(m, T, S0, K) /\ m.num \in Int /\ m.num >= NumPages - 3
      /\ \A s : s \in DOMAIN m.space <=> s \in {sigma0Space, rootSpace}
      /\ m.space[sigma0Space] = NewSpace /\ m.space[rootSpace] = NewSpace
  BY <1>1, <1>2, AfterInitSpacesInv
<1>5. t0 \in Thread /\ t1 \in Thread /\ t0 # t1 /\ DOMAIN T = {}
  BY <1>1, SpacesAssumption, NoEntriesFacts DEF Sigma0Thread, RootThread
<1>6. PICK n \in Int : n = m.num /\ n >= 11
  <2>1. NumPages \in Nat /\ NumPages >= 14
    BY SpacesAssumption
  <2> QED BY <1>4, <2>1
<1>7. /\ MemInv(a, T1, S1, K) /\ a.num \in Int /\ a.num >= n - 5
      /\ a.space[sigma0Space].area = PrivArea /\ a.space[sigma0Space].pdir # None
      /\ \A s : s \in DOMAIN a.space <=> s \in DOMAIN m.space
      /\ \A s \in DOMAIN m.space : s # sigma0Space => a.space[s] = m.space[s]
  <2>1. /\ MemInv(m, T, S0, K) /\ t0 \in Thread /\ t0 \notin DOMAIN T /\ t0 \notin S0
        /\ sigma0Space \in DOMAIN m.space /\ m.space[sigma0Space].pdir = None
        /\ r0 = PrivTCB(sigma0Space)
        /\ a = Booted(m, t0, sigma0Space, PrivLoc)
    BY <1>1, <1>2, <1>3, <1>4, <1>5 DEF NewSpace
  <2>2. /\ MemInv(a, With(T, t0, r0), S0 \cup {t0}, K) /\ a.num \in Int /\ a.num >= m.num - 5
        /\ Privileged(m.space, a.space, sigma0Space)
    BY ONLY <2>1, BootedStep
  <2> QED BY <1>2, <1>3, <1>6, <2>2 DEF Privileged
<1>8. PICK n1 \in Int : n1 = a.num /\ n1 >= 6
  BY <1>6, <1>7
<1>9. /\ MemInv(b, T2, S2, K) /\ b.num \in Int /\ b.num >= n1 - 5
      /\ b.space[rootSpace].area = PrivArea
      /\ \A s : s \in DOMAIN b.space <=> s \in DOMAIN a.space
      /\ \A s \in DOMAIN a.space : s # rootSpace => b.space[s] = a.space[s]
  <2>1. t1 \notin DOMAIN T1
    <3>1. DOMAIN T1 = (DOMAIN T) \cup {t0}
      BY <1>3, WithDomain, Zenon
    <3> QED BY <1>5, <3>1
  <2>2. rootSpace \in DOMAIN a.space /\ a.space[rootSpace].pdir = None
    BY <1>4, <1>7, TwoObjects DEF NewSpace
  <2>3. /\ MemInv(a, T1, S1, K) /\ t1 \in Thread /\ t1 \notin DOMAIN T1 /\ t1 \notin S1
        /\ rootSpace \in DOMAIN a.space /\ a.space[rootSpace].pdir = None
        /\ r1 = PrivTCB(rootSpace)
        /\ b = Booted(a, t1, rootSpace, PrivLoc)
    BY <1>1, <1>2, <1>3, <1>5, <1>7, <2>1, <2>2
  <2>4. /\ MemInv(b, With(T1, t1, r1), S1 \cup {t1}, K) /\ b.num \in Int /\ b.num >= a.num - 5
        /\ Privileged(a.space, b.space, rootSpace)
    BY ONLY <2>3, BootedStep, Zenon
  <2> QED BY <1>2, <1>3, <1>8, <2>4 DEF Privileged
<1>10. b.num >= 1
  BY <1>8, <1>9
<1>11. b.space[sigma0Space].area = PrivArea /\ b.space[sigma0Space].pdir # None
  BY <1>4, <1>7, <1>9, TwoObjects
<1>12. b = AfterThreads /\ T2 = TheirTCBs /\ S2 = {Sigma0Thread, RootThread}
  BY <1>1, <1>2, <1>3 DEF AfterThreads, TheirTCBs
<1>13. \A s : s \in DOMAIN b.space <=> s \in {sigma0Space, rootSpace}
  BY <1>4, <1>7, <1>9
<1> QED BY <1>1, <1>2, <1>9, <1>10, <1>11, <1>12, <1>13

\* Where the utcb of a thread that was booted is.
LEMMA UtcbFound ==
  ASSUME NEW m, NEW T, NEW S, NEW K, MemInv(m, T, S, K), NEW t \in DOMAIN T, T[t].utcb # None,
         NEW sp, sp = T[t].space, NEW loc, T[t].utcb = UtcbPage(DirectoryPage(sp), loc)
  PROVE  UtcbAt(m, sp, loc) = UtcbPage(DirectoryPage(sp), loc)
<1>1. PICK space, pdir, ptab : space = m.space /\ pdir = m.pdir /\ ptab = m.ptab
  OBVIOUS
<1>2. /\ ThreadInv(space, T) /\ SpaceInv(space, pdir, ptab) /\ TabInv(pdir, ptab)
      /\ UtcbInv(ptab, T)
  BY <1>1, MemParts
<1>3. sp \in DOMAIN space /\ space[sp].active # 0
  BY <1>2, Counted
<1>4. space[sp].pdir = DirectoryPage(sp)
  BY <1>2, <1>3, AreaFacts
<1>5. PICK d : d = DirectoryPage(sp)
  OBVIOUS
<1>6. UtcbPage(d, loc) \in UtcbsIn(ptab)
  BY <1>2, <1>5 DEF UtcbInv
<1>7. ptab[pdir[d][loc[1]]][loc[2]] = UtcbPage(d, loc)
  BY ONLY <1>2, <1>6, UtcbOwner
<1> QED BY <1>1, <1>4, <1>5, <1>7 DEF UtcbAt, PageAt

LEMMA InitInv ==
  ASSUME Init
  PROVE  IInv
<1>1. PICK a, m, w, T, k : /\ a = AfterThreads /\ m = allocObject1(a)
                           /\ w = setPdir(m, sigma0Space) /\ T = TheirTCBs
                           /\ k = NewObj(allocSpace1(allocSpace1(Nothing)))
  OBVIOUS
<1>2. PICK S, K : S = DOMAIN T /\ K = {k} \cup {NewObj(a)}
  BY Zenon
<1>3. /\ MemInv(a, T, S, {k}) /\ a.num \in Int /\ a.num >= 1
      /\ \A s : s \in DOMAIN a.space <=> s \in {sigma0Space, rootSpace}
      /\ a.space[sigma0Space].area = PrivArea /\ a.space[rootSpace].area = PrivArea
      /\ a.space[sigma0Space].pdir # None
  BY <1>1, <1>2, AfterThreadsInv, TheirTCBsFacts
<1>4. /\ MemInv(m, T, S, K) /\ SameRest(a, m) /\ m.num \in {a.num, a.num - 1}
  <2>1. a.num >= 0
    <3>1. PICK n \in Int : n = a.num
      BY <1>3
    <3> QED BY <1>3, <3>1
  <2>2. /\ NewObj(a) \in Object /\ NewObj(a) \notin Objects(a, {k})
        /\ MemInv(allocObject1(a), T, S, {k} \cup {NewObj(a)})
        /\ SameRest(a, allocObject1(a))
        /\ allocObject1(a).num \in {a.num, a.num - 1}
    BY ONLY <1>3, <2>1, Reserve
  <2> QED BY <1>1, <1>2, <2>2
<1>5. m.space = a.space
  BY <1>4 DEF SameRest
<1>6. /\ MemInv(w, T, S, K) /\ w.num = m.num /\ LikeSpaces(m.space, w.space)
      /\ w.currentSpace = sigma0Space /\ w.cr3 = m.space[sigma0Space].pdir /\ ~w.stale
  <2>1. sigma0Space \in DOMAIN m.space
    BY <1>3, <1>5
  <2> QED BY ONLY <1>1, <1>4, <2>1, SetPdir
<1>7. w.num >= 0
  <2>1. PICK n \in Int : n = a.num
    BY <1>3
  <2> QED BY <1>3, <1>4, <1>6, <2>1
<1>8. /\ T[Sigma0Thread] = PrivTCB(sigma0Space) /\ T[RootThread] = PrivTCB(rootSpace)
      /\ DOMAIN T = {Sigma0Thread, RootThread} /\ Sigma0Thread # RootThread
  BY <1>1, TheirTCBsFacts DEF Sigma0Thread, RootThread
<1>9. tcb = T
  <2>1. UtcbAt(m, sigma0Space, PrivLoc) = UtcbPage(DirectoryPage(sigma0Space), PrivLoc)
    <3>1. /\ Sigma0Thread \in DOMAIN T /\ T[Sigma0Thread].utcb # None
          /\ sigma0Space = T[Sigma0Thread].space
          /\ T[Sigma0Thread].utcb = UtcbPage(DirectoryPage(sigma0Space), PrivLoc)
      BY <1>8, PrivTCBFacts, TwoObjects DEF PrivTCB
    <3> QED BY ONLY <1>4, <3>1, UtcbFound
  <2>2. UtcbAt(m, rootSpace, PrivLoc) = UtcbPage(DirectoryPage(rootSpace), PrivLoc)
    <3>1. /\ RootThread \in DOMAIN T /\ T[RootThread].utcb # None
          /\ rootSpace = T[RootThread].space
          /\ T[RootThread].utcb = UtcbPage(DirectoryPage(rootSpace), PrivLoc)
      BY <1>8, PrivTCBFacts, TwoObjects DEF PrivTCB
    <3> QED BY ONLY <1>4, <3>1, UtcbFound
  <2>3. m = BootMemory
    BY <1>1 DEF BootMemory
  <2>4. tcb = [t \in {Sigma0Thread, RootThread} |->
                 IF t = Sigma0Thread
                 THEN [space |-> sigma0Space, utcb |-> UtcbAt(m, sigma0Space, PrivLoc)]
                 ELSE [space |-> rootSpace, utcb |-> UtcbAt(m, rootSpace, PrivLoc)]]
    BY <2>3 DEF Init
  <2>5. tcb = [t \in {Sigma0Thread, RootThread} |->
                 IF t = Sigma0Thread THEN PrivTCB(sigma0Space) ELSE PrivTCB(rootSpace)]
    BY <2>1, <2>2, <2>4 DEF PrivTCB
  <2>6. T = [t \in DOMAIN T |-> T[t]]
    BY <1>1 DEF TheirTCBs, With
  <2> QED BY <1>8, <2>5, <2>6
<1>10. mem = w /\ current = Sigma0Thread
  BY <1>1 DEF Init, BootMemory
<1>11. K = KernelObjs
  BY <1>1, <1>2 DEF KernelObjs
<1>12. Inhabited(w.space, T)
  <2>1. PrivInv(m.space)
    BY <1>3, <1>5 DEF PrivInv
  <2>2. PrivInv(w.space)
    BY <1>6, <2>1, PrivLike
  <2>3. \A s \in DOMAIN w.space : privileged(s)
    BY <1>3, <1>5, <1>6 DEF privileged, LikeSpaces
  <2> QED BY <2>2, <2>3 DEF Inhabited
<1>13. RunInv
  <2>1. w.space[sigma0Space].pdir = m.space[sigma0Space].pdir
    BY <1>3, <1>5, <1>6 DEF LikeSpaces
  <2>2. T[Sigma0Thread].space = sigma0Space /\ T[Sigma0Thread].utcb # None
    BY <1>8, PrivTCBFacts, TwoObjects
  <2> QED BY <1>6, <1>8, <1>9, <1>10, <2>1, <2>2 DEF RunInv
<1> QED BY <1>2, <1>6, <1>7, <1>9, <1>10, <1>11, <1>12, <1>13 DEF IInv

LEMMA InvStep ==
  ASSUME IInv, [SparingNext]_vars
  PROVE  IInv'
<1>1. CASE Reschedule
  BY <1>1, RescheduleStep
<1>2. ASSUME NEW t \in Thread, Control(t)
      PROVE  IInv'
  <2>1. CASE \E u \in Thread : CreateInactive(t, u)
    BY <2>1, CreateInactiveStep
  <2>2. CASE \E u \in Thread, loc \in Loc : CreateActive(t, u, loc)
    BY <2>2, CreateActiveStep
  <2>3. CASE \E loc \in Loc : ModifyThread(t, loc)
    BY <2>3, ModifyThreadStep
  <2>4. CASE \E derived \in SUBSET DOMAIN mem.mapping : DeleteThread(t, derived)
    BY <2>4, DeleteThreadStep
  <2>5. CASE \E a \in Areas : SpaceControl(t, a)
    BY <2>5, SpaceControlStep
  <2> QED BY <1>2, <2>1, <2>2, <2>3, <2>4, <2>5 DEF Control
<1>3. CASE \E t \in Thread, loc \in Loc, derived \in SUBSET DOMAIN mem.mapping :
             ~OverUtcbs(t, loc) /\ Transfer(t, loc, derived)
  BY <1>3, TransferStep
<1>4. CASE \E loc \in Faults : Sigma0Fault(loc)
  BY <1>4, Sigma0FaultStep
<1>5. CASE UNCHANGED vars
  <2>1. mem' = mem /\ tcb' = tcb /\ current' = current
    BY <1>5 DEF vars
  <2> QED BY <2>1 DEF IInv, RunInv
<1> QED BY <1>1, <1>2, <1>3, <1>4, <1>5 DEF SparingNext

\* What the handlers keep, from the boot on, when no memory is received over part of
\* a utcb area, which map2 does not refuse (space.c).
THEOREM Invariant == SparingSpec => []IInv
<1>1. Init => IInv
  BY InitInv
<1>2. IInv /\ [SparingNext]_vars => IInv'
  BY InvStep
<1> QED BY <1>1, <1>2, PTL DEF SparingSpec

\* When a thread runs, the processor uses the page directory of its space, and no
\* translation that is gone from it (switchSpace, refreshSpace, unmapFpage), as long
\* as no memory is received over part of a utcb area.
THEOREM SeesOwnSpaceTheorem == SparingSpec => []SeesOwnSpace
<1>1. IInv => SeesOwnSpace
  <2> SUFFICES ASSUME IInv, current # Idle
               PROVE  LET s == tcb[current].space IN
                      /\ mem.currentSpace = s
                      /\ mem.cr3 = mem.space[s].pdir /\ mem.cr3 \in DOMAIN mem.pdir
                      /\ ~mem.stale
    BY DEF SeesOwnSpace
  <2>1. PICK m, T : /\ m = mem /\ T = tcb /\ MemInv(m, T, DOMAIN T, KernelObjs)
                    /\ m.num \in Int /\ m.num >= 0 /\ Inhabited(m.space, T)
    BY MemOf
  <2>2. PICK c, s : c = current /\ s = T[c].space
    OBVIOUS
  <2>3. /\ c \in DOMAIN T /\ T[c].utcb # None /\ m.currentSpace = s
        /\ m.cr3 = m.space[s].pdir /\ ~m.stale
    BY <2>1, <2>2 DEF IInv, RunInv
  <2>4. PICK space, pdir, ptab : space = m.space /\ pdir = m.pdir /\ ptab = m.ptab
    OBVIOUS
  <2>5. ThreadInv(space, T) /\ SpaceInv(space, pdir, ptab)
    BY <2>1, <2>4, MemParts
  <2>6. s \in DOMAIN space /\ space[s].active # 0
    BY ONLY <2>2, <2>3, <2>5, Counted
  <2>7. space[s].pdir = DirectoryPage(s) /\ DirectoryPage(s) \in DOMAIN pdir
    BY <2>5, <2>6, AreaFacts
  <2> QED BY <2>1, <2>2, <2>3, <2>4, <2>7
<1> QED BY <1>1, Invariant, PTL

-----------------------------------------------------------------------------
(***************************************************************************)
(* What the counters count.                                                *)
(***************************************************************************)
ObjectsListed(m, used) ==
  /\ \A o \in used : o[1] \in DOMAIN m.objs
  /\ Len(m.partials) = Cardinality(Range(m.partials))
  /\ Range(m.partials) = {p \in DOMAIN m.objs : m.objs[p].count < Full}
  /\ \A p \in DOMAIN m.objs :
       LET r == m.objs[p]
           here == {o[2] : o \in {o \in used : o[1] = p}}
       IN /\ r.count = Cardinality(here) /\ r.last <= Full
          /\ here \cup Range(r.free) = 1..r.last
          /\ Len(r.free) = r.last - r.count

LEMMA ObjectsCounted ==
  ASSUME NEW m, NEW K, Apart(m, K), ObjInv(m.objs, m.partials, Objects(m, K)),
         NEW used, used = DOMAIN m.space \cup DOMAIN m.mapping \cup K
  PROVE  ObjectsListed(m, used)
<1>1. used = Objects(m, K)
  BY DEF Objects
<1>2. used \subseteq (DOMAIN m.objs) \X Nat
  BY <1>1 DEF ObjInv
<1>3. \A o \in used : o[1] \in DOMAIN m.objs
  BY <1>2
<1>4. PICK room : room = {p \in DOMAIN m.objs : m.objs[p].count < Full}
  BY Zenon
<1>5. Lists(m.partials, room)
  BY <1>4 DEF ObjInv
<1>6. Range(m.partials) = room /\ Len(m.partials) = Cardinality(room)
  BY <1>5, ListLen
<1>7. ASSUME NEW p \in DOMAIN m.objs
      PROVE  LET r == m.objs[p]
                 here == {o[2] : o \in {o \in used : o[1] = p}}
             IN /\ r.count = Cardinality(here) /\ r.last <= Full
                /\ here \cup Range(r.free) = 1..r.last
                /\ Len(r.free) = r.last - r.count
  <2>1. PICK r, here : r = m.objs[p] /\ here = Places(used, p)
    OBVIOUS
  <2>2. {o[2] : o \in {o \in used : o[1] = p}} = here
    <3>1. \A o \in used : o = <<o[1], o[2]>> /\ o[2] \in Nat
      BY <1>2
    <3> QED BY <2>1, <3>1 DEF Places
  <2>3. PageOK(r, here)
    BY <1>1, <2>1 DEF ObjInv
  <2>4. PICK l \in Nat : l = r.last
    BY <2>3 DEF PageOK, ObjectPages
  <2>5. /\ r.count = Cardinality(here) /\ l <= Full /\ here \subseteq 1..l
        /\ Lists(r.free, (1..l) \ here)
    BY <2>3, <2>4 DEF PageOK
  <2>6. Range(r.free) = (1..l) \ here /\ Len(r.free) = Cardinality((1..l) \ here)
    BY <2>5, ListLen
  <2>7. Cardinality((1..l) \ here) = l - Cardinality(here)
    <3>1. IsFiniteSet(1..l) /\ Cardinality(1..l) = l
      BY UpTo
    <3>2. Cardinality((1..l) \ here) = Cardinality(1..l) - Cardinality((1..l) \cap here)
      BY <3>1, FS_Difference, Zenon
    <3>3. (1..l) \cap here = here
      BY <2>5, Zenon
    <3> QED BY <3>1, <3>2, <3>3, Zenon
  <2>8. here \cup ((1..l) \ here) = 1..l
    BY <2>5, Zenon
  <2> QED BY <2>1, <2>2, <2>4, <2>5, <2>6, <2>7, <2>8, Zenon
<1> QED BY <1>3, <1>4, <1>6, <1>7, Zenon DEF ObjectsListed

LEMMA ObjectsExactHere ==
  ASSUME IInv
  PROVE  ObjectsExact
<1>1. PICK m, K, used : /\ m = mem /\ K = KernelObjs
                        /\ used = DOMAIN m.space \cup DOMAIN m.mapping \cup K
  BY Zenon
<1>2. Apart(m, K) /\ ObjInv(m.objs, m.partials, Objects(m, K))
  BY <1>1, MemParts DEF IInv
<1>3. DOMAIN m.space \cap DOMAIN m.mapping = {}
  BY <1>2 DEF Apart
<1>4. ObjectsListed(m, used)
  BY ONLY <1>1, <1>2, ObjectsCounted
<1> QED BY <1>1, <1>3, <1>4, Zenon DEF ObjectsExact, ObjectsListed

\* The page of a thread's utcb is one of those in the directory of its space.
LEMMA UtcbOfThread ==
  ASSUME NEW m, TabInv(m.pdir, m.ptab), SpaceInv(m.space, m.pdir, m.ptab),
         NEW s \in DOMAIN m.space, m.space[s].active # 0,
         NEW l, UtcbPage(DirectoryPage(s), l) \in UtcbsIn(m.ptab)
  PROVE  UtcbPage(DirectoryPage(s), l) \in UtcbPages(m, m.space[s].pdir)
<1>1. PICK d : d = DirectoryPage(s)
  OBVIOUS
<1>2. PICK pdir, ptab : pdir = m.pdir /\ ptab = m.ptab
  OBVIOUS
<1>3. s \in Object /\ m.space[s].pdir = d /\ d \in DOMAIN pdir
  BY <1>1, <1>2, AreaFacts
<1>4. PICK u : u = UtcbPage(d, l)
  OBVIOUS
<1>5. TabInv(pdir, ptab) /\ UtcbPage(d, l) \in UtcbsIn(ptab)
  BY <1>1, <1>2
<1>6. /\ l \in Loc /\ pdir[d][l[1]] # None /\ ptab[pdir[d][l[1]]][l[2]] = UtcbPage(d, l)
  BY ONLY <1>5, UtcbOwner
<1>7. l[1] \in Super /\ l[2] \in PageNo /\ u \in Utcbs /\ d \in Directories
  BY <1>1, <1>3, <1>4, <1>6, PageNames DEF Loc
<1>8. DOMAIN pdir[d] = Super
  BY <1>3, <1>5 DEF TabInv
<1>9. u \in UtcbPages(m, d)
  <2>1. PICK p : p = pdir[d][l[1]]
    OBVIOUS
  <2>2. p \in TablesOf(m, d)
    BY <1>2, <1>6, <1>7, <1>8, <2>1 DEF TablesOf, Range
  <2>3. DOMAIN ptab[p] = PageNo
    BY <1>3, <1>5, <1>6, <1>7, <2>1, TableFacts
  <2>4. u \in Range(m.ptab[p])
    BY <1>2, <1>4, <1>6, <1>7, <2>1, <2>3 DEF Range
  <2>5. u \notin {None, Kip, User}
    BY <1>7, NotNames
  <2> QED BY <2>2, <2>4, <2>5 DEF UtcbPages
<1> QED BY <1>1, <1>3, <1>4, <1>9

LEMMA ThreadsCountedHere ==
  ASSUME IInv
  PROVE  ThreadsCounted
<1>1. PICK m, T : /\ m = mem /\ T = tcb /\ MemInv(m, T, DOMAIN T, KernelObjs) /\ m.num \in Int
                  /\ m.num >= 0 /\ Inhabited(m.space, T)
  BY MemOf
<1>2. /\ TabInv(m.pdir, m.ptab) /\ SpaceInv(m.space, m.pdir, m.ptab) /\ ThreadInv(m.space, T)
      /\ TcbInv(m.table, DOMAIN T) /\ UtcbInv(m.ptab, T)
  BY <1>1, MemParts
<1>3. ASSUME NEW s \in DOMAIN mem.space
      PROVE  LET in == {t \in DOMAIN tcb : tcb[t].space = s} IN
             /\ mem.space[s].count = Cardinality(in)
             /\ mem.space[s].active = Cardinality(in \cap Active)
             /\ in # {} \/ privileged(s)
             /\ mem.space[s].active # 0 =>
                  {tcb[t].utcb : t \in in \cap Active} \subseteq UtcbPages(mem, mem.space[s].pdir)
  <2> s \in DOMAIN m.space
    BY <1>1
  <2>1. PICK in : in = {t \in DOMAIN T : T[t].space = s}
    BY Zenon
  <2>2. in = Threads(T, s)
    BY <2>1 DEF Threads
  <2>3. in \cap Active = Actives(T, s)
    BY <1>1, <2>1 DEF Active, Actives
  <2>4. m.space[s].count = Cardinality(in) /\ m.space[s].active = Cardinality(in \cap Active)
    BY <1>2, <2>2, <2>3, Zenon DEF ThreadInv
  <2>5. in # {} \/ privileged(s)
    BY <1>1, <2>2 DEF Inhabited
  <2>6. ASSUME m.space[s].active # 0
        PROVE  {T[t].utcb : t \in in \cap Active} \subseteq UtcbPages(m, m.space[s].pdir)
    <3>1. ASSUME NEW t \in Actives(T, s)
          PROVE  T[t].utcb \in UtcbPages(m, m.space[s].pdir)
      <4>1. t \in DOMAIN T /\ T[t].space = s /\ T[t].utcb # None
        BY DEF Actives
      <4>2. PICK l : T[t].utcb = UtcbPage(DirectoryPage(s), l)
        BY <1>2, <4>1 DEF ThreadInv
      <4>3. UtcbPage(DirectoryPage(s), l) \in UtcbsIn(m.ptab)
        BY <1>2, <4>1, <4>2 DEF UtcbInv
      <4> QED BY <1>2, <2>6, <4>2, <4>3, UtcbOfThread
    <3> QED BY <2>3, <3>1
  <2>7. in = {t \in DOMAIN tcb : tcb[t].space = s}
    BY <1>1, <2>1
  <2>8. {T[t].utcb : t \in in \cap Active} = {tcb[t].utcb : t \in in \cap Active}
    BY <1>1
  <2>9. /\ mem.space[s].count = Cardinality(in)
        /\ mem.space[s].active = Cardinality(in \cap Active)
        /\ mem.space[s].active # 0 =>
             {tcb[t].utcb : t \in in \cap Active} \subseteq UtcbPages(mem, mem.space[s].pdir)
    BY <1>1, <2>4, <2>6, <2>8
  <2> QED BY <2>5, <2>7, <2>9
<1>4. DOMAIN m.table = {TableFor(t) : t \in DOMAIN T}
  <2>1. \A i : i \in DOMAIN m.table <=> \E t \in DOMAIN T : i = TableFor(t)
    BY <1>2 DEF TcbInv, Residents
  <2> QED BY <2>1
<1>5. ASSUME NEW i \in DOMAIN m.table
      PROVE  m.table[i] = Cardinality({t \in DOMAIN T : TableFor(t) = i})
  <2>1. m.table[i] = Cardinality(Residents(DOMAIN T, i))
    <3>1. PICK table, S : table = m.table /\ S = DOMAIN T
      OBVIOUS
    <3>2. table = [j \in DOMAIN table |-> Cardinality(Residents(S, j))]
      BY <1>2, <3>1 DEF TcbInv
    <3> QED BY <3>1, <3>2
  <2> QED BY <2>1 DEF Residents
<1>6. \A s \in DOMAIN mem.space :
        LET in == {t \in DOMAIN tcb : tcb[t].space = s} IN
        /\ mem.space[s].count = Cardinality(in)
        /\ mem.space[s].active = Cardinality(in \cap Active)
        /\ in # {} \/ privileged(s)
        /\ mem.space[s].active # 0 =>
             {tcb[t].utcb : t \in in \cap Active} \subseteq UtcbPages(mem, mem.space[s].pdir)
  BY <1>3, Zenon
<1>7. /\ DOMAIN mem.table = {TableFor(t) : t \in DOMAIN tcb}
      /\ \A i \in DOMAIN mem.table :
           mem.table[i] = Cardinality({t \in DOMAIN tcb : TableFor(t) = i})
  BY <1>1, <1>4, <1>5
<1> QED BY <1>6, <1>7, Zenon DEF ThreadsCounted

\* The counters on which the kernel decides what to free are exact: of objects in a
\* page, of threads in a space, of its active threads, and of TCBs in a page
\* (allocObject1, freeObject, enterSpace, allocUtcb4, exitSpace, allocTCB1, destroyTCB),
\* as long as no memory is received over part of a utcb area.
THEOREM CountsExactTheorem == SparingSpec => []CountsExact
<1>1. IInv => CountsExact
  BY ObjectsExactHere, ThreadsCountedHere DEF CountsExact
<1> QED BY <1>1, Invariant, PTL

-----------------------------------------------------------------------------
(***************************************************************************)
(* What the pages of kernel memory are used for.                           *)
(***************************************************************************)
LEMMA SameNumber ==
  ASSUME NEW A, NEW B, IsFiniteSet(B), \A u \in A : u[3] \in B,
         \A b \in B : \E u \in A : u[3] = b, \A u, v \in A : u[3] = v[3] => u = v
  PROVE  {u[3] : u \in A} = B /\ Cardinality(A) = Cardinality(B)
<1>1. PICK f : f = [u \in A |-> u[3]]
  BY Zenon
<1>2. f \in [A -> B]
  BY <1>1
<1>3. f \in Injection(A, B)
  BY <1>1, <1>2 DEF Injection, IsInjective
<1>4. f \in Surjection(A, B)
  BY <1>1, <1>2 DEF Surjection
<1>5. Cardinality(A) = Cardinality(B)
  BY <1>3, <1>4, FS_Injection
<1> QED BY <1>5

LEMMA PagesExactHere ==
  ASSUME IInv
  PROVE  PagesExact
<1>1. PICK m, T : /\ m = mem /\ T = tcb /\ MemInv(m, T, DOMAIN T, KernelObjs) /\ m.num \in Int
                  /\ m.num >= 0 /\ Inhabited(m.space, T)
  BY MemOf
<1>2. PICK pdir, ptab, space : pdir = m.pdir /\ ptab = m.ptab /\ space = m.space
  OBVIOUS
<1>3. TabInv(pdir, ptab) /\ SpaceInv(space, pdir, ptab) /\ UsedInv(m)
  BY <1>1, <1>2, MemParts
<1>4. IsFiniteSet(m.used) /\ m.num + Cardinality(m.used) = NumPages /\ m.used = InUse(m)
  BY <1>3 DEF UsedInv
<1>5. PICK O, C, D, P, U :
        /\ O = {<<"objects", k, ObjectPage(k)>> : k \in DOMAIN m.objs}
        /\ C = {<<"tcbs", i, TCBPage(i)>> : i \in DOMAIN m.table}
        /\ D = {<<"directory", s, space[s].pdir>> : s \in {s \in DOMAIN space : space[s].active # 0}}
        /\ P = {<<"table", x, pdir[x[1]][x[2]]>> :
                  x \in {x \in (DOMAIN pdir) \X Super : pdir[x[1]][x[2]] # None}}
        /\ U = {<<"utcb", x, ptab[x[1]][x[2]]>> :
                  x \in {x \in (DOMAIN ptab) \X PageNo : ptab[x[1]][x[2]] \notin {None, Kip, User}}}
  BY Zenon
<1>6. Uses = O \cup C \cup D \cup P \cup U
  <2>1. Uses = UNION {O, C, D, P, U}
    BY <1>1, <1>2, <1>5 DEF Uses
  <2> QED BY <2>1
<1>7. \A u \in O : \E k \in DOMAIN m.objs : u = <<"objects", k, <<"objects", k>>>>
  BY <1>5 DEF ObjectPage
<1>8. \A u \in C : \E i \in DOMAIN m.table : u = <<"tcbs", i, <<"tcbs", i>>>>
  BY <1>5 DEF TCBPage
<1>9. \A u \in D : /\ \E s : u = <<"directory", s, <<"directory", s>>>>
                   /\ u[3] \in DOMAIN pdir
  <2> SUFFICES ASSUME NEW u \in D
               PROVE  /\ \E s : u = <<"directory", s, <<"directory", s>>>>
                      /\ u[3] \in DOMAIN pdir
    OBVIOUS
  <2>1. PICK s \in DOMAIN space : space[s].active # 0 /\ u = <<"directory", s, space[s].pdir>>
    BY <1>5
  <2>2. space[s].pdir = DirectoryPage(s) /\ DirectoryPage(s) \in DOMAIN pdir
    BY <1>3, <2>1, AreaFacts
  <2> QED BY <2>1, <2>2 DEF DirectoryPage
<1>10. \A u \in P : /\ \E d, i : u = <<"table", <<d, i>>, <<"table", d, i>>>>
                    /\ u[3] \in DOMAIN ptab
  <2> SUFFICES ASSUME NEW u \in P
               PROVE  /\ \E d, i : u = <<"table", <<d, i>>, <<"table", d, i>>>>
                      /\ u[3] \in DOMAIN ptab
    OBVIOUS
  <2>1. PICK d \in DOMAIN pdir, i \in Super :
          u = <<"table", <<d, i>>, pdir[d][i]>> /\ pdir[d][i] # None
    BY <1>5
  <2>2. pdir[d][i] = TablePage(d, i) /\ TablePage(d, i) \in DOMAIN ptab
    BY <1>3, <2>1, TableFacts
  <2> QED BY <2>1, <2>2 DEF TablePage
<1>11. \A u \in U : /\ \E d, i, n : u = <<"utcb", <<<<"table", d, i>>, n>>, <<"utcb", d, <<i, n>>>>>>
                    /\ u[3] \in UtcbsIn(ptab)
  <2> SUFFICES ASSUME NEW u \in U
               PROVE  /\ \E d, i, n : u = <<"utcb", <<<<"table", d, i>>, n>>,
                                                      <<"utcb", d, <<i, n>>>>>>
                      /\ u[3] \in UtcbsIn(ptab)
    OBVIOUS
  <2>1. PICK p \in DOMAIN ptab, n \in PageNo :
          u = <<"utcb", <<p, n>>, ptab[p][n]>> /\ ptab[p][n] \notin {None, Kip, User}
    BY <1>5
  <2>2. PICK d \in DOMAIN pdir, i \in Super : p = TablePage(d, i) /\ pdir[d][i] = p
    BY <1>3, <2>1 DEF TabInv
  <2>3. d \in Directories /\ p # None
    BY <1>3, <2>2, PageNames, NotNames, TableNames
  <2>4. ptab[p][n] \in {None, Kip, User, UtcbPage(d, <<i, n>>)}
    BY <1>3, <2>2, <2>3 DEF TabInv
  <2>5. ptab[p][n] = UtcbPage(d, <<i, n>>)
    BY <2>1, <2>4
  <2>6. UtcbPage(d, <<i, n>>) \in UtcbsIn(ptab)
    <3>1. UtcbPage(d, <<i, n>>) \in Utcbs
      BY <2>3, PageNames DEF Loc
    <3> QED BY <2>1, <2>5, <3>1 DEF UtcbsIn
  <2> QED BY <2>1, <2>2, <2>5, <2>6 DEF TablePage, UtcbPage
<1>12. \A u \in Uses : u[3] \in m.used
  <2>1. \A u \in O : u[3] \in InUse(m)
    BY <1>7, InUseMember DEF ObjectPage
  <2>2. \A u \in C : u[3] \in InUse(m)
    BY <1>8, InUseMember DEF TCBPage
  <2>3. \A u \in D : u[3] \in InUse(m)
    BY <1>2, <1>9, InUseMember
  <2>4. \A u \in P : u[3] \in InUse(m)
    BY <1>2, <1>10, InUseMember
  <2>5. \A u \in U : u[3] \in InUse(m)
    BY <1>2, <1>11, InUseMember
  <2> QED BY <1>4, <1>6, <2>1, <2>2, <2>3, <2>4, <2>5
<1>13. \A b \in m.used : \E u \in Uses : u[3] = b
  <2> SUFFICES ASSUME NEW b \in InUse(m)
               PROVE  \E u \in Uses : u[3] = b
    BY <1>4
  <2>1. CASE \E k \in DOMAIN m.objs : b = ObjectPage(k)
    <3>1. PICK k \in DOMAIN m.objs : b = ObjectPage(k)
      BY <2>1
    <3>2. <<"objects", k, b>> \in O
      BY <1>5, <3>1
    <3> QED BY <1>6, <3>2
  <2>2. CASE \E i \in DOMAIN m.table : b = TCBPage(i)
    <3>1. PICK i \in DOMAIN m.table : b = TCBPage(i)
      BY <2>2
    <3>2. <<"tcbs", i, b>> \in C
      BY <1>5, <3>1
    <3> QED BY <1>6, <3>2
  <2>3. CASE b \in DOMAIN pdir
    <3>1. PICK s \in DOMAIN space : b = DirectoryPage(s) /\ space[s].active # 0
      BY <1>3, <2>3 DEF SpaceInv
    <3>2. space[s].pdir = b
      BY <1>3, <3>1, AreaFacts
    <3>3. <<"directory", s, b>> \in D
      BY <1>5, <3>1, <3>2
    <3> QED BY <1>6, <3>3
  <2>4. CASE b \in DOMAIN ptab
    <3>1. PICK d \in DOMAIN pdir, i \in Super : b = TablePage(d, i) /\ pdir[d][i] = b
      BY <1>3, <2>4 DEF TabInv
    <3>2. b # None
      BY <1>3, <2>4, TableNames, NotNames
    <3>3. <<"table", <<d, i>>, b>> \in P
      <4>1. PICK x : x = <<d, i>>
        BY Zenon
      <4>2. x \in (DOMAIN pdir) \X Super /\ pdir[x[1]][x[2]] = b
        BY <3>1, <4>1
      <4>3. <<"table", x, pdir[x[1]][x[2]]>> \in P
        BY <1>5, <3>2, <4>2
      <4> QED BY <4>1, <4>2, <4>3
    <3> QED BY <1>6, <3>3
  <2>5. CASE b \in UtcbsIn(ptab)
    <3>1. PICK p \in DOMAIN ptab, n \in PageNo : b = ptab[p][n] /\ b \in Utcbs
      BY <2>5 DEF UtcbsIn
    <3>2. b \notin {None, Kip, User}
      BY <3>1, NotNames
    <3>3. <<"utcb", <<p, n>>, b>> \in U
      <4>1. PICK x : x = <<p, n>>
        BY Zenon
      <4>2. x \in (DOMAIN ptab) \X PageNo /\ ptab[x[1]][x[2]] = b
        BY <3>1, <4>1
      <4>3. <<"utcb", x, ptab[x[1]][x[2]]>> \in U
        BY <1>5, <3>2, <4>2
      <4> QED BY <4>1, <4>2, <4>3
    <3> QED BY <1>6, <3>3
  <2> QED BY <1>2, <2>1, <2>2, <2>3, <2>4, <2>5, InUseMember
<1>14. \A u, v \in Uses : u[3] = v[3] => u = v
  <2> SUFFICES ASSUME NEW u \in Uses, NEW v \in Uses, u[3] = v[3]
               PROVE  u = v
    OBVIOUS
  <2>1. ASSUME NEW x \in Uses
        PROVE  x[3][1] = x[1] /\ /\ x[1] = "objects" => x \in O
                                 /\ x[1] = "tcbs" => x \in C
                                 /\ x[1] = "directory" => x \in D
                                 /\ x[1] = "table" => x \in P
                                 /\ x[1] = "utcb" => x \in U
                                 /\ x[1] \in {"objects", "tcbs", "directory", "table", "utcb"}
    <3>1. CASE x \in O
      BY <1>7, <3>1
    <3>2. CASE x \in C
      BY <1>8, <3>2
    <3>3. CASE x \in D
      BY <1>9, <3>3
    <3>4. CASE x \in P
      BY <1>10, <3>4
    <3>5. CASE x \in U
      BY <1>11, <3>5
    <3> QED BY <1>6, <3>1, <3>2, <3>3, <3>4, <3>5
  <2>2. u[1] = v[1]
    BY <2>1
  <2>3. CASE u[1] = "objects"
    <3>1. u \in O /\ v \in O
      BY <2>1, <2>2, <2>3
    <3> QED BY <1>7, <3>1
  <2>4. CASE u[1] = "tcbs"
    <3>1. u \in C /\ v \in C
      BY <2>1, <2>2, <2>4
    <3> QED BY <1>8, <3>1
  <2>5. CASE u[1] = "directory"
    <3>1. u \in D /\ v \in D
      BY <2>1, <2>2, <2>5
    <3> QED BY <1>9, <3>1
  <2>6. CASE u[1] = "table"
    <3>1. u \in P /\ v \in P
      BY <2>1, <2>2, <2>6
    <3> QED BY <1>10, <3>1
  <2>7. CASE u[1] = "utcb"
    <3>1. u \in U /\ v \in U
      BY <2>1, <2>2, <2>7
    <3> QED BY <1>11, <3>1
  <2> QED BY <2>1, <2>3, <2>4, <2>5, <2>6, <2>7
<1>15. {u[3] : u \in Uses} = m.used /\ Cardinality(Uses) = Cardinality(m.used)
  <2>1. PICK A, B : A = Uses /\ B = m.used
    OBVIOUS
  <2>2. /\ IsFiniteSet(B) /\ (\A u \in A : u[3] \in B) /\ (\A b \in B : \E u \in A : u[3] = b)
        /\ (\A u, v \in A : u[3] = v[3] => u = v)
    BY <1>4, <1>12, <1>13, <1>14, <2>1
  <2>3. {u[3] : u \in A} = B /\ Cardinality(A) = Cardinality(B)
    BY ONLY <2>2, SameNumber
  <2> QED BY <2>1, <2>3
<1> QED BY <1>1, <1>4, <1>15 DEF PagesExact

\* Every page of kernel memory is free or in use for one thing, whatever threads and
\* spaces come and go, and the handlers have made sure of the pages that they take
\* (memory.c, and allocTCB1, allocUtcb4, exitSpace, freePdir, flush), as long as no
\* memory is received over part of a utcb area.
THEOREM PagesExactTheorem == SparingSpec => []PagesExact
<1>1. IInv => PagesExact
  BY PagesExactHere
<1> QED BY <1>1, Invariant, PTL
=============================================================================
