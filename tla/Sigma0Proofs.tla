----------------------------- MODULE Sigma0Proofs -----------------------------
(***************************************************************************)
(* Theorems about sigma0, for memory, pages and blocks of any size and any *)
(* descriptors of memory: no page is lost from the pools or held twice,    *)
(* what a thread has been given is allocated to it, and a request that is  *)
(* refused takes nothing.                                                  *)
(*                                                                         *)
(* The lists of regions may grow in the middle of an operation on one of   *)
(* them, and leave the one that is being split empty: the first parts say  *)
(* what each operation does to the set of pages of each pool and to the    *)
(* owners, the last one puts the steps of the program together.            *)
(***************************************************************************)
EXTENDS Sigma0, NatLemmas, SequenceTheorems, FiniteSetTheorems, TLAPS

-----------------------------------------------------------------------------
(* Sequences of which an element is replaced, removed or inserted.         *)

Members(list) == {list[i] : i \in DOMAIN list}

LEMMA SeqFacts ==
  ASSUME NEW S, NEW s \in Seq(S)
  PROVE  /\ Len(s) \in Nat /\ DOMAIN s = 1..Len(s) /\ \A i \in 1..Len(s) : s[i] \in S
  BY LenProperties, ElementOfSeq

LEMMA RemoveAtFacts ==
  ASSUME NEW S, NEW s \in Seq(S), NEW i \in 1..Len(s),
         NEW t, t = RemoveAt(s, i)
  PROVE  /\ t \in Seq(S) /\ Len(t) = Len(s) - 1
         /\ \A k \in 1..Len(s) - 1 : t[k] = IF k < i THEN s[k] ELSE s[k + 1]
<1>1. Len(s) \in Nat /\ \A k \in 1..Len(s) : s[k] \in S
  BY SeqFacts
<1>2. PICK len \in Nat : len = Len(s)
  BY <1>1
<1>3. PICK a : a = SubSeq(s, 1, i - 1)
  OBVIOUS
<1>4. PICK b : b = SubSeq(s, i + 1, len)
  OBVIOUS
<1>5. a \in Seq(S) /\ Len(a) = i - 1 /\ \A k \in 1..i - 1 : a[k] = s[k]
  <2>1. \A k \in 1..i - 1 : s[k] \in S
    BY <1>1, <1>2
  <2>2. /\ a \in Seq(S) /\ Len(a) = IF 1 <= i - 1 THEN i - 1 - 1 + 1 ELSE 0
        /\ \A k \in 1..i - 1 - 1 + 1 : a[k] = s[1 + k - 1]
    BY <1>3, <2>1, SubSeqProperties
  <2> QED BY <2>2, <1>1, <1>2
<1>6. b \in Seq(S) /\ Len(b) = len - i /\ \A k \in 1..len - i : b[k] = s[i + k]
  <2>1. \A k \in i + 1..len : s[k] \in S
    BY <1>1, <1>2
  <2>2. /\ b \in Seq(S) /\ Len(b) = IF i + 1 <= len THEN len - (i + 1) + 1 ELSE 0
        /\ \A k \in 1..len - (i + 1) + 1 : b[k] = s[i + 1 + k - 1]
    BY <1>1, <1>2, <1>4, <2>1, SubSeqProperties
  <2>3. /\ len - (i + 1) + 1 = len - i /\ (i + 1 <= len <=> len - i # 0)
        /\ \A k \in 1..len - i : i + 1 + k - 1 = i + k
    BY <1>2
  <2>4. Len(b) = len - i
    BY <2>2, <2>3
  <2> QED BY <2>2, <2>3, <2>4
<1>7. t = a \o b
  BY <1>2, <1>3, <1>4 DEF RemoveAt
<1>8. /\ t \in Seq(S) /\ Len(t) = (i - 1) + (len - i)
      /\ \A k \in 1..(i - 1) + (len - i) : t[k] = IF k <= i - 1 THEN a[k] ELSE b[k - (i - 1)]
  <2>1. /\ a \o b \in Seq(S) /\ Len(a \o b) = Len(a) + Len(b)
        /\ \A k \in 1..Len(a) + Len(b) : (a \o b)[k] = IF k <= Len(a) THEN a[k] ELSE b[k - Len(a)]
    <3>1. a \in Seq(S) /\ b \in Seq(S)
      BY ONLY <1>5, <1>6
    <3> QED BY ONLY <3>1, ConcatProperties
  <2>2. Len(a) = i - 1 /\ Len(b) = len - i
    BY ONLY <1>5, <1>6
  <2> QED BY ONLY <2>1, <2>2, <1>7
<1>9. ASSUME NEW k \in 1..len - 1 PROVE t[k] = IF k < i THEN s[k] ELSE s[k + 1]
  <2>1. t[k] = IF k <= i - 1 THEN a[k] ELSE b[k - (i - 1)]
    BY <1>8, <1>2
  <2>2. CASE k < i
    <3>1. k <= i - 1 /\ k \in 1..i - 1
      BY <2>2
    <3> QED BY <2>1, <2>2, <3>1, <1>5
  <2>3. CASE ~(k < i)
    <3>1. ~(k <= i - 1) /\ k - (i - 1) \in 1..len - i /\ i + (k - (i - 1)) = k + 1
      BY <2>3, <1>2
    <3> QED BY <2>1, <2>3, <3>1, <1>6
  <2> QED BY <2>2, <2>3
<1> QED BY <1>2, <1>8, <1>9

LEMMA InsertAtFacts ==
  ASSUME NEW S, NEW s \in Seq(S), NEW i \in 1..Len(s) + 1, NEW e \in S,
         NEW t, t = InsertAt(s, i, e)
  PROVE  /\ t \in Seq(S) /\ Len(t) = Len(s) + 1
         /\ \A k \in 1..Len(s) + 1 : t[k] = IF k < i THEN s[k] ELSE IF k = i THEN e ELSE s[k - 1]
<1>1. Len(s) \in Nat /\ \A k \in 1..Len(s) : s[k] \in S
  BY SeqFacts
<1>2. PICK len \in Nat : len = Len(s)
  BY <1>1
<1>3. PICK a : a = SubSeq(s, 1, i - 1)
  OBVIOUS
<1>4. PICK b : b = SubSeq(s, i, len)
  OBVIOUS
<1>5. a \in Seq(S) /\ Len(a) = i - 1 /\ \A k \in 1..i - 1 : a[k] = s[k]
  <2>1. \A k \in 1..i - 1 : s[k] \in S
    BY <1>1, <1>2
  <2>2. /\ a \in Seq(S) /\ Len(a) = IF 1 <= i - 1 THEN i - 1 - 1 + 1 ELSE 0
        /\ \A k \in 1..i - 1 - 1 + 1 : a[k] = s[1 + k - 1]
    BY <1>3, <2>1, SubSeqProperties
  <2> QED BY <2>2, <1>1, <1>2
<1>6. b \in Seq(S) /\ Len(b) = len + 1 - i /\ \A k \in 1..len + 1 - i : b[k] = s[i + k - 1]
  <2>1. \A k \in i..len : s[k] \in S
    BY <1>1, <1>2
  <2>2. /\ b \in Seq(S) /\ Len(b) = IF i <= len THEN len - i + 1 ELSE 0
        /\ \A k \in 1..len - i + 1 : b[k] = s[i + k - 1]
    BY <1>1, <1>2, <1>4, <2>1, SubSeqProperties
  <2> QED BY <2>2, <1>1, <1>2
<1>7. PICK c : c = <<e>>
  OBVIOUS
<1>8. c \in Seq(S) /\ Len(c) = 1 /\ c[1] = e
  BY <1>7
<1>9. PICK ac : ac = a \o c
  OBVIOUS
<1>10. /\ ac \in Seq(S) /\ Len(ac) = i
       /\ \A k \in 1..i : ac[k] = IF k <= i - 1 THEN a[k] ELSE c[k - (i - 1)]
  <2>1. /\ ac \in Seq(S) /\ Len(ac) = (i - 1) + 1
        /\ \A k \in 1..(i - 1) + 1 : ac[k] = IF k <= i - 1 THEN a[k] ELSE c[k - (i - 1)]
    <3>1. /\ ac \in Seq(S) /\ Len(ac) = Len(a) + Len(c)
          /\ \A k \in 1..Len(a) + Len(c) : ac[k] = IF k <= Len(a) THEN a[k] ELSE c[k - Len(a)]
      BY ONLY <1>5, <1>8, <1>9, ConcatProperties
    <3> QED BY ONLY <3>1, <1>5, <1>8
  <2>2. (i - 1) + 1 = i
    OBVIOUS
  <2> QED BY <2>1, <2>2
<1>11. t = ac \o b
  BY <1>2, <1>3, <1>4, <1>7, <1>9 DEF InsertAt
<1>12. /\ t \in Seq(S) /\ Len(t) = i + (len + 1 - i)
       /\ \A k \in 1..i + (len + 1 - i) : t[k] = IF k <= i THEN ac[k] ELSE b[k - i]
  <2>1. /\ t \in Seq(S) /\ Len(t) = Len(ac) + Len(b)
        /\ \A k \in 1..Len(ac) + Len(b) : t[k] = IF k <= Len(ac) THEN ac[k] ELSE b[k - Len(ac)]
    BY ONLY <1>6, <1>10, <1>11, ConcatProperties
  <2> QED BY ONLY <2>1, <1>6, <1>10
<1>13. ASSUME NEW k \in 1..len + 1
       PROVE  t[k] = IF k < i THEN s[k] ELSE IF k = i THEN e ELSE s[k - 1]
  <2>1. t[k] = IF k <= i THEN ac[k] ELSE b[k - i]
    BY <1>12, <1>2
  <2>2. CASE k < i
    <3>1. k <= i - 1 /\ k \in 1..i - 1 /\ k <= i /\ k \in 1..i
      BY <2>2
    <3> QED BY <2>1, <2>2, <3>1, <1>5, <1>10
  <2>3. CASE k = i
    <3>1. ~(k <= i - 1) /\ k <= i /\ k \in 1..i /\ k - (i - 1) = 1
      BY <2>3
    <3> QED BY <2>1, <2>3, <3>1, <1>8, <1>10
  <2>4. CASE ~(k <= i)
    <3>1. k - i \in 1..len + 1 - i /\ i + (k - i) - 1 = k - 1 /\ ~(k < i) /\ k # i
      BY <2>4, <1>2
    <3> QED BY <2>1, <2>4, <3>1, <1>6
  <2> QED BY <2>2, <2>3, <2>4
<1>14. i + (len + 1 - i) = len + 1
  BY <1>2
<1> QED BY <1>2, <1>12, <1>13, <1>14

-----------------------------------------------------------------------------
(* Regions.  They begin and end with a page, and one of a pool may be      *)
(* empty: then it counts as the last address before it.                    *)

Owners == {Anythread, Sigma0Id, KernelId, Sigma1Id, RootserverId} \cup Users

Region == [low : 0 .. Top, high : 0 .. Top, owner : Owners]

Slack == {r \in Region : r.low % Page = 0 /\ (r.high + 1) % Page = 0 /\ r.low <= r.high + 1}
Spans == {r \in Slack : r.low <= r.high}

Base(r) == IF r.low <= r.high THEN r.low ELSE r.high

Apart(x, y) == x.high < Base(y) \/ y.high < Base(x)

\* Lists of regions of which no two meet.
Tidy(T, list) ==
  /\ list \in Seq(T)
  /\ \A i, j \in DOMAIN list : i # j => Apart(list[i], list[j])

\* A region that meets none of a list; none but w.
ClearOf(list, e)    == \A y \in Members(list) : Apart(y, e)
ClearBut(list, w, e) == \A y \in Members(list) \ {w} : Apart(y, e)

LEMMA Numbers ==
  /\ Top \in Nat \ {0} /\ Page \in Nat \ {0} /\ (Top + 1) % Page = 0
  /\ InitialRegs \in Nat \ {0} /\ PageRegs \in Nat \ {0}
  BY RegionsAssumption

LEMMA SlackFacts ==
  ASSUME NEW r \in Slack
  PROVE  /\ r.low \in Nat /\ r.high \in Nat /\ r.low <= Top /\ r.high <= Top
         /\ r.low % Page = 0 /\ (r.high + 1) % Page = 0 /\ r.low <= r.high + 1
         /\ r.owner \in Owners /\ r = region(r.low, r.high, r.owner)
         /\ Base(r) \in Nat /\ Base(r) <= r.high /\ Base(r) <= r.low
         /\ r.low <= r.high => Base(r) = r.low
  BY Numbers DEF Slack, Region, region, Base

LEMMA SpansFacts ==
  ASSUME NEW r \in Spans
  PROVE  r \in Slack /\ r.low <= r.high /\ Base(r) = r.low
  BY DEF Spans, Base

LEMMA SlackRegion ==
  ASSUME NEW a \in 0 .. Top, NEW b \in 0 .. Top, NEW o \in Owners,
         a % Page = 0, (b + 1) % Page = 0, a <= b + 1
  PROVE  /\ region(a, b, o) \in Slack
         /\ region(a, b, o).low = a /\ region(a, b, o).high = b /\ region(a, b, o).owner = o
         /\ a <= b => region(a, b, o) \in Spans
  BY DEF Slack, Spans, Region, region

LEMMA ApartSym ==
  ASSUME NEW x, NEW y, Apart(x, y)
  PROVE  Apart(y, x)
  BY DEF Apart

LEMMA NotApartItself ==
  ASSUME NEW x \in Slack
  PROVE  ~Apart(x, x)
  BY SlackFacts DEF Apart

LEMMA TidyMembers ==
  ASSUME NEW T, T \subseteq Slack, NEW list, Tidy(T, list)
  PROVE  /\ Len(list) \in Nat /\ DOMAIN list = 1..Len(list)
         /\ Members(list) \subseteq T
         /\ \A i \in DOMAIN list : list[i] \in Members(list)
         /\ \A x, y \in Members(list) : x # y => Apart(x, y)
         /\ \A i, j \in DOMAIN list : list[i] = list[j] => i = j
<1>1. list \in Seq(T) /\ \A i, j \in DOMAIN list : i # j => Apart(list[i], list[j])
  BY DEF Tidy
<1>2. Len(list) \in Nat /\ DOMAIN list = 1..Len(list) /\ \A i \in 1..Len(list) : list[i] \in T
  BY <1>1, SeqFacts
<1>3. \A i, j \in DOMAIN list : list[i] = list[j] => i = j
  BY <1>1, <1>2, NotApartItself
<1> QED BY <1>1, <1>2, <1>3 DEF Members

LEMMA TidyRemove ==
  ASSUME NEW T, T \subseteq Slack, NEW list, Tidy(T, list), NEW i \in DOMAIN list,
         NEW t, t = RemoveAt(list, i)
  PROVE  Tidy(T, t) /\ Members(t) = Members(list) \ {list[i]} /\ Len(t) = Len(list) - 1
<1>1. list \in Seq(T) /\ \A k, j \in DOMAIN list : k # j => Apart(list[k], list[j])
  BY DEF Tidy
<1>2. PICK len \in Nat : len = Len(list) /\ DOMAIN list = 1..len
  BY <1>1, SeqFacts
<1>3. /\ t \in Seq(T) /\ Len(t) = len - 1
      /\ \A k \in 1..len - 1 : t[k] = IF k < i THEN list[k] ELSE list[k + 1]
  <2>1. list \in Seq(T) /\ i \in 1..Len(list)
    BY <1>1, <1>2
  <2>2. /\ t \in Seq(T) /\ Len(t) = Len(list) - 1
        /\ \A k \in 1..Len(list) - 1 : t[k] = IF k < i THEN list[k] ELSE list[k + 1]
    BY <2>1, RemoveAtFacts
  <2> QED BY ONLY <2>2, <1>2
<1>4. DOMAIN t = 1..len - 1
  BY <1>3, SeqFacts
<1>5. ASSUME NEW k \in DOMAIN t, NEW j \in DOMAIN t, k # j PROVE Apart(t[k], t[j])
  <2>1. PICK k2 \in DOMAIN list : t[k] = list[k2] /\ k2 = IF k < i THEN k ELSE k + 1
    BY <1>2, <1>3, <1>4
  <2>2. PICK j2 \in DOMAIN list : t[j] = list[j2] /\ j2 = IF j < i THEN j ELSE j + 1
    BY <1>2, <1>3, <1>4
  <2>3. k2 # j2
    BY <1>2, <1>4, <1>5, <2>1, <2>2
  <2> QED BY <1>1, <2>1, <2>2, <2>3
<1>6. \A j \in DOMAIN list : list[j] = list[i] => j = i
  BY TidyMembers
<1>7. ASSUME NEW k \in DOMAIN t PROVE t[k] \in Members(list) \ {list[i]}
  <2>1. PICK k2 \in DOMAIN list : t[k] = list[k2] /\ k2 # i
    BY <1>2, <1>3, <1>4
  <2> QED BY <2>1, <1>6 DEF Members
<1>8. ASSUME NEW j \in DOMAIN list, list[j] # list[i] PROVE list[j] \in Members(t)
  <2>1. CASE j < i
    <3>1. j \in DOMAIN t /\ t[j] = list[j]
      BY <1>2, <1>3, <1>4, <2>1
    <3> QED BY <3>1 DEF Members
  <2>2. CASE ~(j < i)
    <3>1. j # i
      BY <1>8
    <3>2. j - 1 \in 1..len - 1 /\ ~(j - 1 < i) /\ (j - 1) + 1 = j
      BY <1>2, <2>2, <3>1
    <3>3. j - 1 \in DOMAIN t /\ t[j - 1] = list[j]
      BY <1>3, <1>4, <3>2
    <3> QED BY <3>3 DEF Members
  <2> QED BY <2>1, <2>2
<1>9. Members(t) = Members(list) \ {list[i]}
  BY <1>7, <1>8 DEF Members
<1> QED BY <1>2, <1>3, <1>5, <1>9 DEF Tidy

LEMMA TidyReplace ==
  ASSUME NEW T, T \subseteq Slack, NEW list, Tidy(T, list), NEW i \in DOMAIN list,
         NEW w, w = list[i],
         NEW e \in T, ClearBut(list, w, e),
         NEW t, t = ReplaceAt(list, i, e)
  PROVE  /\ Tidy(T, t) /\ Members(t) = (Members(list) \ {w}) \cup {e}
<1>1. list \in Seq(T) /\ \A k, j \in DOMAIN list : k # j => Apart(list[k], list[j])
  BY DEF Tidy
<1>2. PICK len \in Nat : len = Len(list) /\ DOMAIN list = 1..len
  BY <1>1, SeqFacts
<1>3. t = [list EXCEPT ![i] = e]
  BY DEF ReplaceAt
<1>4. t \in Seq(T) /\ Len(t) = len /\ \A k \in 1..len : t[k] = IF k = i THEN e ELSE list[k]
  BY <1>1, <1>2, <1>3, ExceptSeq
<1>5. DOMAIN t = 1..len
  BY <1>4, SeqFacts
<1>6. \A j \in DOMAIN list : list[j] = list[i] => j = i
  BY TidyMembers
<1>7. \A j \in DOMAIN list : j # i => list[j] \in Members(list) \ {w}
  BY <1>6 DEF Members
<1>8. ASSUME NEW k \in DOMAIN t, NEW j \in DOMAIN t, k # j PROVE Apart(t[k], t[j])
  <2>1. CASE k = i
    <3>1. t[k] = e /\ t[j] = list[j] /\ j # i
      BY <1>4, <1>5, <1>8, <2>1
    <3> QED BY <3>1, <1>2, <1>5, <1>7, ApartSym DEF ClearBut
  <2>2. CASE j = i
    <3>1. t[j] = e /\ t[k] = list[k] /\ k # i
      BY <1>4, <1>5, <1>8, <2>2
    <3> QED BY <3>1, <1>2, <1>5, <1>7 DEF ClearBut
  <2>3. CASE k # i /\ j # i
    BY <1>1, <1>2, <1>4, <1>5, <1>8, <2>3
  <2> QED BY <2>1, <2>2, <2>3
<1>9. Members(t) = (Members(list) \ {w}) \cup {e}
  <2>1. Members(t) \subseteq (Members(list) \ {w}) \cup {e}
    BY <1>2, <1>4, <1>5, <1>7 DEF Members
  <2>2. e \in Members(t)
    BY <1>2, <1>4, <1>5 DEF Members
  <2>3. ASSUME NEW j \in DOMAIN list, list[j] # list[i] PROVE list[j] \in Members(t)
    <3>1. j \in DOMAIN t /\ t[j] = list[j]
      BY <1>2, <1>4, <1>5, <2>3
    <3> QED BY <3>1 DEF Members
  <2> QED BY <2>1, <2>2, <2>3 DEF Members
<1> QED BY <1>2, <1>4, <1>5, <1>8, <1>9 DEF Tidy

Gains(list, t, e) == Members(t) = Members(list) \cup {e}

LEMMA TidyInsert ==
  ASSUME NEW T, T \subseteq Slack, NEW list, Tidy(T, list), NEW i \in 1..Len(list) + 1,
         NEW e \in T, ClearOf(list, e),
         NEW t, t = InsertAt(list, i, e)
  PROVE  Tidy(T, t) /\ Gains(list, t, e)
<1>1. list \in Seq(T) /\ \A k, j \in DOMAIN list : k # j => Apart(list[k], list[j])
  BY DEF Tidy
<1>2. PICK len \in Nat : len = Len(list) /\ DOMAIN list = 1..len
  BY <1>1, SeqFacts
<1>3. /\ t \in Seq(T) /\ Len(t) = len + 1
      /\ \A k \in 1..len + 1 : t[k] = IF k < i THEN list[k] ELSE IF k = i THEN e ELSE list[k - 1]
  <2>0. i \in 1..Len(list) + 1 /\ e \in T /\ t = InsertAt(list, i, e)
    OBVIOUS
  <2>1. list \in Seq(T)
    BY <1>1
  <2>2. /\ t \in Seq(T) /\ Len(t) = Len(list) + 1
        /\ \A k \in 1..Len(list) + 1 :
             t[k] = IF k < i THEN list[k] ELSE IF k = i THEN e ELSE list[k - 1]
    BY ONLY <2>0, <2>1, InsertAtFacts, SMTT(60)
  <2> QED BY ONLY <2>2, <1>2
<1>4. DOMAIN t = 1..len + 1
  BY <1>3, SeqFacts
<1>5. \A j \in DOMAIN list : list[j] \in Members(list)
  BY DEF Members
<1>6. t[i] = e /\ i \in DOMAIN t
  BY <1>2, <1>3, <1>4
<1>7. ASSUME NEW k \in DOMAIN t, k # i
      PROVE  \E j \in DOMAIN list : t[k] = list[j] /\ j = IF k < i THEN k ELSE k - 1
  BY <1>2, <1>3, <1>4, <1>7
<1>8. ASSUME NEW k \in DOMAIN t, NEW j \in DOMAIN t, k # j PROVE Apart(t[k], t[j])
  <2>1. CASE k = i
    <3>1. PICK j2 \in DOMAIN list : t[j] = list[j2]
      BY <1>7, <1>8, <2>1
    <3> QED BY <3>1, <2>1, <1>5, <1>6, ApartSym DEF ClearOf
  <2>2. CASE j = i
    <3>1. PICK k2 \in DOMAIN list : t[k] = list[k2]
      BY <1>7, <1>8, <2>2
    <3> QED BY <3>1, <2>2, <1>5, <1>6 DEF ClearOf
  <2>3. CASE k # i /\ j # i
    <3>1. PICK k2 \in DOMAIN list : t[k] = list[k2] /\ k2 = IF k < i THEN k ELSE k - 1
      BY <1>7, <2>3
    <3>2. PICK j2 \in DOMAIN list : t[j] = list[j2] /\ j2 = IF j < i THEN j ELSE j - 1
      BY <1>7, <2>3
    <3>3. k2 # j2
      BY <1>2, <1>4, <1>8, <2>3, <3>1, <3>2
    <3> QED BY <1>1, <3>1, <3>2, <3>3
  <2> QED BY <2>1, <2>2, <2>3
<1>9. Members(t) = Members(list) \cup {e}
  <2>1. Members(t) \subseteq Members(list) \cup {e}
    BY <1>5, <1>6, <1>7 DEF Members
  <2>2. e \in Members(t)
    BY <1>6 DEF Members
  <2>3. ASSUME NEW j \in DOMAIN list PROVE list[j] \in Members(t)
    <3>1. CASE j < i
      <4>1. j \in DOMAIN t /\ t[j] = list[j]
        BY <1>2, <1>3, <1>4, <3>1
      <4> QED BY <4>1 DEF Members
    <3>2. CASE ~(j < i)
      <4>1. j + 1 \in 1..len + 1 /\ ~(j + 1 < i) /\ j + 1 # i /\ (j + 1) - 1 = j
        BY <1>2, <3>2
      <4>2. j + 1 \in DOMAIN t /\ t[j + 1] = list[j]
        BY <1>3, <1>4, <4>1
      <4> QED BY <4>2 DEF Members
    <3> QED BY <3>1, <3>2
  <2> QED BY <2>1, <2>2, <2>3 DEF Members
<1> QED BY <1>2, <1>3, <1>8, <1>9 DEF Tidy, Gains

-----------------------------------------------------------------------------
(* What a list holds, and whose it is.                                     *)

Has(list, a, o) == \E x \in Members(list) : x.owner = o /\ x.low <= a /\ a <= x.high

\* List t is list with r.
With(list, t, r) ==
  /\ Tidy(Spans, t)
  /\ \A a \in Nat : \A o : Has(t, a, o) <=> \/ Has(list, a, o)
                                            \/ o = r.owner /\ r.low <= a /\ a <= r.high

LEMMA WrapFacts ==
  /\ \A a \in 0 .. Top : Wrap(a) = a
  /\ Wrap(Top + 1) = 0 /\ Wrap(-1) = Top
<1>1. PICK m \in Nat : m = Top + 1 /\ m > 1
  BY Numbers
<1>2. \A a \in 0 .. m - 1 : a % m = a
  BY <1>1
<1>3. m % m = 0
  BY <1>1
<1>4. (-1) % m = m - 1
  BY <1>1
<1>5. \A a : Wrap(a) = a % m
  BY <1>1 DEF Wrap
<1>6. m - 1 = Top
  BY <1>1, Numbers
<1> QED BY <1>1, <1>2, <1>3, <1>4, <1>5, <1>6

LEMMA JoinFacts ==
  ASSUME NEW x \in Spans, NEW r \in Spans, Joins(x, r), NEW q, q = concatenate(x, r)
  PROVE  /\ q \in Spans /\ q.owner = r.owner /\ q.owner = x.owner
         /\ \A a \in Nat : q.low <= a /\ a <= q.high
                             <=> (x.low <= a /\ a <= x.high) \/ (r.low <= a /\ a <= r.high)
         /\ \A z \in Spans : Apart(z, x) /\ Apart(z, r) => Apart(z, q)
<1>1. /\ x.low \in Nat /\ x.high \in Nat /\ x.low <= x.high /\ x.high <= Top
      /\ r.low \in Nat /\ r.high \in Nat /\ r.low <= r.high /\ r.high <= Top
      /\ x.low % Page = 0 /\ r.low % Page = 0 /\ (x.high + 1) % Page = 0 /\ (r.high + 1) % Page = 0
      /\ x.owner \in Owners /\ x = region(x.low, x.high, x.owner)
  BY SpansFacts, SlackFacts
<1>2. Top \in Nat
  BY Numbers
<1>3. x.owner = r.owner
  BY DEF Joins
<1>4. \A b \in Nat : b <= Top => Wrap(b + 1) = IF b = Top THEN 0 ELSE b + 1
  <2>1. ASSUME NEW b \in Nat, b <= Top PROVE Wrap(b + 1) = IF b = Top THEN 0 ELSE b + 1
    <3>1. CASE b = Top
      BY <3>1, WrapFacts
    <3>2. CASE b # Top
      <4>1. b + 1 \in 0 .. Top
        BY <3>2, <2>1, <1>2
      <4> QED BY <4>1, <3>2, WrapFacts
    <3> QED BY <3>1, <3>2
  <2> QED BY <2>1
<1>5. Follows(r, x) <=> r.high + 1 = x.low
  BY <1>1, <1>2, <1>4 DEF Follows
<1>6. Follows(x, r) <=> x.high + 1 = r.low
  BY <1>1, <1>2, <1>4 DEF Follows
<1>7. CASE r.high + 1 = x.low
  <2>1. q = region(r.low, x.high, x.owner)
    BY <1>1, <1>5, <1>7 DEF concatenate, region
  <2>2. r.low <= x.high
    BY <1>1, <1>7
  <2>3. q \in Spans /\ q.low = r.low /\ q.high = x.high /\ q.owner = x.owner
    BY <1>1, <1>2, <2>1, <2>2, SlackRegion
  <2>4. ASSUME NEW z \in Spans, Apart(z, x), Apart(z, r) PROVE Apart(z, q)
    <3>1. z.low \in Nat /\ z.high \in Nat /\ z.low <= z.high
      BY SpansFacts, SlackFacts
    <3>2. Base(z) = z.low /\ Base(x) = x.low /\ Base(r) = r.low /\ Base(q) = q.low
      BY <2>3, SpansFacts
    <3> QED BY <1>1, <1>7, <2>3, <2>4, <3>1, <3>2 DEF Apart
  <2> QED BY <1>1, <1>3, <1>7, <2>3, <2>4
<1>8. CASE x.high + 1 = r.low
  <2>0. r.high + 1 # x.low
    BY <1>1, <1>8
  <2>1. q = region(x.low, r.high, x.owner)
    BY <1>1, <1>5, <2>0 DEF concatenate, region
  <2>2. x.low <= r.high
    BY <1>1, <1>8
  <2>3. q \in Spans /\ q.low = x.low /\ q.high = r.high /\ q.owner = x.owner
    BY <1>1, <1>2, <2>1, <2>2, SlackRegion
  <2>4. ASSUME NEW z \in Spans, Apart(z, x), Apart(z, r) PROVE Apart(z, q)
    <3>1. z.low \in Nat /\ z.high \in Nat /\ z.low <= z.high
      BY SpansFacts, SlackFacts
    <3>2. Base(z) = z.low /\ Base(x) = x.low /\ Base(r) = r.low /\ Base(q) = q.low
      BY <2>3, SpansFacts
    <3> QED BY <1>1, <1>8, <2>3, <2>4, <3>1, <3>2 DEF Apart
  <2> QED BY <1>1, <1>3, <1>8, <2>3, <2>4
<1> QED BY <1>5, <1>6, <1>7, <1>8 DEF Joins

LEMMA PlaceFacts ==
  ASSUME NEW list, NEW len \in Nat, Len(list) = len, NEW r
  PROVE  Place(list, r) \in 1..len + 1 \/ ~(DOMAIN list = 1..len)
<1> SUFFICES ASSUME DOMAIN list = 1..len PROVE Place(list, r) \in 1..len + 1
  OBVIOUS
<1>1. PICK S : S = {Len(list) + 1} \cup {i \in DOMAIN list : r.low <= list[i].high}
  OBVIOUS
<1>2. S \in SUBSET Nat /\ S # {} /\ \A k \in S : k \in 1..len + 1
  BY <1>1
<1>3. PICK m \in S : \A k \in S : m <= k
  BY <1>2, LeastNumber
<1>4. Min(S) \in S
  BY <1>3 DEF Min
<1> QED BY <1>1, <1>2, <1>4 DEF Place

\* A member that meets r gives way to both together.
LEMMA WithJoined ==
  ASSUME NEW list, Tidy(Spans, list), NEW r \in Spans, ClearOf(list, r),
         NEW i \in DOMAIN list, Joins(list[i], r),
         NEW t, t = ReplaceAt(list, i, concatenate(list[i], r))
  PROVE  With(list, t, r)
<1>1. Spans \subseteq Slack
  BY DEF Spans
<1>2. PICK x \in Members(list) : x = list[i] /\ x \in Spans
  BY <1>1, TidyMembers
<1>3. PICK q : q = concatenate(x, r)
  OBVIOUS
<1>4. /\ q \in Spans /\ q.owner = r.owner /\ q.owner = x.owner
      /\ \A a \in Nat : q.low <= a /\ a <= q.high
                          <=> (x.low <= a /\ a <= x.high) \/ (r.low <= a /\ a <= r.high)
      /\ \A z \in Spans : Apart(z, x) /\ Apart(z, r) => Apart(z, q)
  BY <1>2, <1>3, JoinFacts
<1>5. \A y \in Members(list) \ {x} : Apart(y, q)
  BY <1>1, <1>2, <1>4, TidyMembers DEF ClearOf
<1>6. Tidy(Spans, t) /\ Members(t) = (Members(list) \ {x}) \cup {q}
  <2>1. ClearBut(list, x, q)
    BY <1>2, <1>5 DEF ClearBut
  <2>2. q \in Spans /\ t = ReplaceAt(list, i, q)
    BY <1>2, <1>3, <1>4
  <2>3. Tidy(Spans, t) /\ Members(t) = (Members(list) \ {x}) \cup {q}
    <3>1. Tidy(Spans, list) /\ i \in DOMAIN list /\ x = list[i]
      BY <1>2
    <3> QED BY ONLY <1>1, <2>1, <2>2, <3>1, TidyReplace
  <2> QED BY <2>3, <1>2
<1>7. ASSUME NEW a \in Nat, NEW o
      PROVE  Has(t, a, o) <=> Has(list, a, o) \/ (o = r.owner /\ r.low <= a /\ a <= r.high)
  BY <1>2, <1>4, <1>6 DEF Has
<1> QED BY <1>6, <1>7 DEF With

LEMMA WithInserted ==
  ASSUME NEW list, Tidy(Spans, list), NEW r \in Spans, ClearOf(list, r),
         NEW i \in 1..Len(list) + 1, NEW t, t = InsertAt(list, i, r)
  PROVE  With(list, t, r)
<1>1. Spans \subseteq Slack
  BY DEF Spans
<1>2. Tidy(Spans, t) /\ Gains(list, t, r)
  BY <1>1, TidyInsert
<1> QED BY <1>2 DEF With, Has, Gains

\* A member on each side of r.
LEMMA WithBoth ==
  ASSUME NEW list, Tidy(Spans, list), NEW r \in Spans, ClearOf(list, r),
         NEW len \in DOMAIN list, len - 1 \in DOMAIN list, Joins(list[len - 1], r),
         NEW p, p = concatenate(list[len - 1], r), Joins(p, list[len]),
         NEW t, t = RemoveAt(ReplaceAt(list, len - 1, concatenate(p, list[len])), len)
  PROVE  With(list, t, r)
<1>1. Spans \subseteq Slack
  BY DEF Spans
<1>0. PICK l : l = len - 1
  OBVIOUS
<1>2. PICK x \in Members(list) : x = list[len - 1] /\ x \in Spans
  <2>1. l \in DOMAIN list
    BY <1>0
  <2>2. list[l] \in Members(list) /\ list[l] \in Spans
    BY <1>1, <2>1, TidyMembers
  <2> QED BY <1>0, <2>2
<1>3. PICK y \in Members(list) : y = list[len] /\ y \in Spans
  BY <1>1, TidyMembers
<1>4. /\ p \in Spans /\ p.owner = r.owner /\ p.owner = x.owner
      /\ \A a \in Nat : p.low <= a /\ a <= p.high
                          <=> (x.low <= a /\ a <= x.high) \/ (r.low <= a /\ a <= r.high)
      /\ \A z \in Spans : Apart(z, x) /\ Apart(z, r) => Apart(z, p)
  BY <1>2, JoinFacts
<1>5. PICK q : q = concatenate(p, y)
  OBVIOUS
<1>6. /\ q \in Spans /\ q.owner = y.owner /\ q.owner = p.owner
      /\ \A a \in Nat : q.low <= a /\ a <= q.high
                          <=> (p.low <= a /\ a <= p.high) \/ (y.low <= a /\ a <= y.high)
      /\ \A z \in Spans : Apart(z, p) /\ Apart(z, y) => Apart(z, q)
  BY <1>3, <1>4, <1>5, JoinFacts
<1>7. x # y
  <2>1. \A i, j \in DOMAIN list : list[i] = list[j] => i = j
    BY <1>1, TidyMembers
  <2>2. len - 1 # len
    BY <1>1, TidyMembers
  <2> QED BY <2>1, <2>2, <1>2, <1>3
<1>8. PICK u : u = RemoveAt(list, len)
  OBVIOUS
<1>9. Tidy(Spans, u) /\ Members(u) = Members(list) \ {y} /\ Len(u) = Len(list) - 1
  BY <1>1, <1>3, <1>8, TidyRemove
<1>10. PICK m \in Nat : m = Len(list) /\ DOMAIN list = 1..m /\ list \in Seq(Spans)
  BY <1>1, TidyMembers DEF Tidy
<1>11. /\ u \in Seq(Spans) /\ Len(u) = m - 1
       /\ \A k \in 1..m - 1 : u[k] = IF k < len THEN list[k] ELSE list[k + 1]
  <2>1. list \in Seq(Spans) /\ len \in 1..Len(list)
    BY <1>10
  <2>2. /\ u \in Seq(Spans) /\ Len(u) = Len(list) - 1
        /\ \A k \in 1..Len(list) - 1 : u[k] = IF k < len THEN list[k] ELSE list[k + 1]
    BY <2>1, <1>8, RemoveAtFacts, SMTT(60)
  <2> QED BY ONLY <2>2, <1>10
<1>12. len - 1 \in 1..m - 1 /\ DOMAIN u = 1..m - 1 /\ u[len - 1] = x
  <2>1. len - 1 \in 1..m - 1 /\ len - 1 < len
    BY <1>10
  <2> QED BY <2>1, <1>2, <1>11, SeqFacts
<1>13. t = ReplaceAt(u, len - 1, q)
  <2>1. PICK v : v = ReplaceAt(list, len - 1, q)
    OBVIOUS
  <2>2. v \in Seq(Spans) /\ Len(v) = m /\ \A k \in 1..m : v[k] = IF k = len - 1 THEN q ELSE list[k]
    <3>1. len - 1 \in 1..Len(list) /\ v = [list EXCEPT ![len - 1] = q]
      BY <1>10, <2>1 DEF ReplaceAt
    <3>2. /\ [list EXCEPT ![len - 1] = q] \in Seq(Spans)
          /\ Len([list EXCEPT ![len - 1] = q]) = Len(list)
          /\ \A k \in 1..Len(list) :
               [list EXCEPT ![len - 1] = q][k] = IF k = len - 1 THEN q ELSE list[k]
      BY <1>6, <1>10, <3>1, ExceptSeq
    <3> QED BY <1>10, <3>1, <3>2
  <2>3. t = RemoveAt(v, len)
    BY <1>3, <1>5, <2>1
  <2>4. /\ t \in Seq(Spans) /\ Len(t) = m - 1
        /\ \A k \in 1..m - 1 : t[k] = IF k < len THEN v[k] ELSE v[k + 1]
    <3>1. v \in Seq(Spans) /\ len \in 1..Len(v)
      BY <2>2, <1>10
    <3>2. /\ t \in Seq(Spans) /\ Len(t) = Len(v) - 1
          /\ \A k \in 1..Len(v) - 1 : t[k] = IF k < len THEN v[k] ELSE v[k + 1]
      BY <3>1, <2>3, RemoveAtFacts
    <3> QED BY ONLY <3>2, <2>2
  <2>5. PICK w : w = ReplaceAt(u, len - 1, q)
    OBVIOUS
  <2>6. /\ w \in Seq(Spans) /\ Len(w) = m - 1
        /\ \A k \in 1..m - 1 : w[k] = IF k = len - 1 THEN q ELSE u[k]
    <3>1. len - 1 \in 1..Len(u) /\ w = [u EXCEPT ![len - 1] = q]
      BY <1>11, <1>12, <2>5 DEF ReplaceAt
    <3>2. /\ [u EXCEPT ![len - 1] = q] \in Seq(Spans)
          /\ Len([u EXCEPT ![len - 1] = q]) = Len(u)
          /\ \A k \in 1..Len(u) : [u EXCEPT ![len - 1] = q][k] = IF k = len - 1 THEN q ELSE u[k]
      BY <1>6, <1>11, <3>1, ExceptSeq
    <3> QED BY <1>11, <3>1, <3>2
  <2>7. ASSUME NEW k \in 1..m - 1 PROVE t[k] = w[k]
    <3>1. CASE k < len
      <4>1. k \in 1..m
        BY <1>10
      <4> QED BY <4>1, <3>1, <2>2, <2>4, <2>6, <1>11
    <3>2. CASE ~(k < len)
      <4>1. k + 1 \in 1..m /\ k + 1 # len - 1 /\ k # len - 1
        BY <3>2, <1>10
      <4> QED BY <4>1, <3>2, <2>2, <2>4, <2>6, <1>11
    <3> QED BY <3>1, <3>2
  <2>8. t = w
    BY <2>4, <2>6, <2>7, SeqEqual
  <2> QED BY <2>5, <2>8
<1>14. \A z \in Members(u) \ {x} : Apart(z, q)
  <2>1. ASSUME NEW z \in Members(u) \ {x} PROVE Apart(z, q)
    <3>1. z \in Members(list) /\ z # x /\ z # y /\ z \in Spans
      BY <1>1, <1>9, TidyMembers
    <3>2. Apart(z, x) /\ Apart(z, y) /\ Apart(z, r)
      BY <1>1, <1>2, <1>3, <3>1, TidyMembers DEF ClearOf
    <3> QED BY <3>1, <3>2, <1>4, <1>6
  <2> QED BY <2>1
<1>15. Tidy(Spans, t) /\ Members(t) = (Members(u) \ {x}) \cup {q}
  <2>1. l \in DOMAIN u /\ x = u[l] /\ t = ReplaceAt(u, l, q)
    BY <1>0, <1>12, <1>13
  <2>2. ClearBut(u, x, q)
    BY <1>14, <2>1 DEF ClearBut
  <2>3. Tidy(Spans, t) /\ Members(t) = (Members(u) \ {x}) \cup {q}
    <3>1. Tidy(Spans, u) /\ q \in Spans
      BY <1>6, <1>9
    <3> QED BY ONLY <1>1, <2>1, <2>2, <3>1, TidyReplace
  <2> QED BY <2>1, <2>3
<1>16. ASSUME NEW a \in Nat, NEW o
       PROVE  Has(t, a, o) <=> Has(list, a, o) \/ (o = r.owner /\ r.low <= a /\ a <= r.high)
  BY <1>2, <1>3, <1>4, <1>6, <1>7, <1>9, <1>15 DEF Has
<1> QED BY <1>15, <1>16 DEF With

-----------------------------------------------------------------------------
(* The three pools.                                                        *)

Names   == {"conv", "mem", "alloc"}
PoolSet == [conv : Seq(Slack), mem : Seq(Slack), alloc : Seq(Slack), free : Int, ok : BOOLEAN]

LEMMA UpdateFacts ==
  ASSUME NEW s \in PoolSet, NEW pool \in Names, NEW t \in Seq(Slack), NEW f \in Int,
         NEW u, u = [s EXCEPT ![pool] = t, !.free = f]
  PROVE  /\ u \in PoolSet /\ u[pool] = t /\ u.free = f /\ u.ok = s.ok
         /\ \A q \in Names : q # pool => u[q] = s[q]
  BY DEF PoolSet, Names

LEMMA PoolFacts ==
  ASSUME NEW s \in PoolSet
  PROVE  /\ \A pool \in Names : s[pool] \in Seq(Slack)
         /\ s["conv"] = s.conv /\ s["mem"] = s.mem /\ s["alloc"] = s.alloc
         /\ s.free \in Int /\ s.ok \in BOOLEAN
  BY DEF PoolSet, Names

LEMMA SpansSlack == Spans \subseteq Slack
  BY DEF Spans

LEMMA TidySlack ==
  ASSUME NEW list, Tidy(Spans, list)
  PROVE  Tidy(Slack, list) /\ list \in Seq(Slack)
<1>1. list \in Seq(Spans)
  BY DEF Tidy
<1>2. list \in Seq(Slack)
  BY <1>1, SpansSlack, SeqMonotonic
<1> QED BY <1>2 DEF Tidy

\* insert changes one list and the number of free structures.
LEMMA InsertFacts ==
  ASSUME NEW s \in PoolSet, s.ok, NEW pool \in Names, Tidy(Spans, s[pool]),
         NEW r \in Spans, ClearOf(s[pool], r)
  PROVE  \E t \in Seq(Slack) : \E f \in Int :
            insert(s, pool, r) = [s EXCEPT ![pool] = t, !.free = f] /\ With(s[pool], t, r)
<1>1. PICK list : list = s[pool]
  OBVIOUS
<1>2. PICK m \in Nat : m = Len(list) /\ DOMAIN list = 1..m
  BY <1>1, SpansSlack, TidyMembers
<1>3. PICK len \in 1..m + 1 : len = Place(list, r)
  BY <1>2, PlaceFacts
<1>4. s.free \in Int
  BY PoolFacts
<1>5. PICK w : w = insert(s, pool, r)
  OBVIOUS
<1>6. Tidy(Spans, list) /\ ClearOf(list, r)
  BY <1>1
<1>10. ASSUME NEW t, NEW f \in Int, With(list, t, r), w = [s EXCEPT ![pool] = t, !.free = f]
       PROVE  \E u \in Seq(Slack) : \E g \in Int :
                 w = [s EXCEPT ![pool] = u, !.free = g] /\ With(s[pool], u, r)
  <2>1. t \in Seq(Slack)
    BY <1>10, TidySlack DEF With
  <2> QED BY <1>1, <1>10, <2>1
<1>11. s.free + 2 \in Int /\ s.free + 1 \in Int
  BY <1>4
<1>7. CASE len > 1 /\ Joins(list[len - 1], r)
  <2>1. PICK l \in DOMAIN list : l = len - 1
    BY <1>2, <1>7
  <2>2. PICK p : p = concatenate(list[l], r)
    OBVIOUS
  <2>3. CASE len <= m /\ Joins(p, list[len])
    <3>1. PICK t : t = RemoveAt(ReplaceAt(list, len - 1, concatenate(p, list[len])), len)
      OBVIOUS
    <3>2. len \in DOMAIN list /\ len - 1 \in DOMAIN list /\ Joins(list[len - 1], r)
          /\ p = concatenate(list[len - 1], r) /\ Joins(p, list[len])
      BY <1>2, <1>7, <2>1, <2>2, <2>3
    <3>3. With(list, t, r)
      BY ONLY <1>6, <3>1, <3>2, WithBoth, r \in Spans
    <3>4. w = [s EXCEPT ![pool] = t, !.free = s.free + 2]
      BY <1>1, <1>2, <1>3, <1>5, <1>7, <2>1, <2>2, <2>3, <3>1 DEF insert, PoolSet, Names
    <3> QED BY <1>5, <1>10, <1>11, <3>3, <3>4
  <2>4. CASE ~(len <= m /\ Joins(p, list[len]))
    <3>1. PICK t : t = ReplaceAt(list, l, p)
      OBVIOUS
    <3>2. Joins(list[l], r)
      BY <1>7, <2>1
    <3>3. With(list, t, r)
      BY ONLY <1>6, <2>1, <2>2, <3>1, <3>2, WithJoined, r \in Spans
    <3>4. w = [s EXCEPT ![pool] = t, !.free = s.free + 1]
      BY <1>1, <1>2, <1>3, <1>5, <1>7, <2>1, <2>2, <2>4, <3>1 DEF insert, PoolSet, Names
    <3> QED BY <1>5, <1>10, <1>11, <3>3, <3>4
  <2> QED BY <2>3, <2>4
<1>8. CASE ~(len > 1 /\ Joins(list[len - 1], r)) /\ len <= m /\ Joins(list[len], r)
  <2>1. PICK t : t = ReplaceAt(list, len, concatenate(list[len], r))
    OBVIOUS
  <2>2. len \in DOMAIN list /\ Joins(list[len], r)
    BY <1>2, <1>8
  <2>3. With(list, t, r)
    BY ONLY <1>6, <2>1, <2>2, WithJoined, r \in Spans
  <2>4. w = [s EXCEPT ![pool] = t, !.free = s.free + 1]
    BY <1>1, <1>2, <1>3, <1>5, <1>8, <2>1 DEF insert, PoolSet, Names
  <2> QED BY <1>4, <1>5, <1>10, <1>11, <2>3, <2>4
<1>9. CASE ~(len > 1 /\ Joins(list[len - 1], r)) /\ ~(len <= m /\ Joins(list[len], r))
  <2>1. PICK t : t = InsertAt(list, len, r)
    OBVIOUS
  <2>2. len \in 1..Len(list) + 1
    BY <1>2, <1>3
  <2>3. With(list, t, r)
    BY ONLY <1>6, <2>1, <2>2, WithInserted, r \in Spans
  <2>4. w = [s EXCEPT ![pool] = t, !.free = s.free]
    BY <1>1, <1>2, <1>3, <1>5, <1>9, <2>1 DEF insert, PoolSet, Names
  <2> QED BY <1>4, <1>5, <1>10, <1>11, <2>3, <2>4
<1> QED BY <1>7, <1>8, <1>9

LEMMA InsertNot ==
  ASSUME NEW s, NEW pool, NEW r, ~s.ok
  PROVE  insert(s, pool, r) = s
  BY DEF insert

-----------------------------------------------------------------------------
(* What holds between all steps: the lists are in order, no page is in two *)
(* pools, and each is where the memory descriptors have it, or allocated.  *)

In(list, p) == \E x \in Members(list) : x.low <= p /\ p <= x.high

InPool(s, pool, p) == In(s[pool], p)

Excl(s) ==
  \A p \in Pages : \A a, b \in Names : a # b /\ InPool(s, a, p) => ~InPool(s, b, p)

Sound(s) ==
  /\ s \in PoolSet /\ Tidy(Slack, s.conv) /\ Tidy(Spans, s.mem) /\ Tidy(Spans, s.alloc)
  /\ Excl(s)

Homes == [Pages -> Names \cup {"none"}]

\* The homes of pages are H, those in X apart.
Fits(s, H, X) ==
  \A p \in Pages \ X :
    /\ H[p] = "none" => \A pool \in Names : ~InPool(s, pool, p)
    /\ H[p] # "none" => InPool(s, "alloc", p) \/ InPool(s, H[p], p)

\* What is allocated stays so.
Kept(s, u) ==
  \A p \in Pages : \A o : Has(s.alloc, p, o) => Has(u.alloc, p, o)

\* In no pool.
Unheld(s, low, high) ==
  \A p \in Pages : low <= p /\ p <= high => \A pool \in Names : ~InPool(s, pool, p)

LEMMA PageNumbers ==
  Pages \subseteq 0 .. Top /\ Pages \subseteq Nat /\ \A a \in 0 .. Top : a % Page = 0 => a \in Pages
  BY Numbers DEF Pages

LEMMA PagesApart ==
  ASSUME NEW x \in Spans, NEW r \in Spans,
         \A p \in Pages : ~(x.low <= p /\ p <= x.high /\ r.low <= p /\ p <= r.high)
  PROVE  Apart(x, r)
<1>1. /\ x.low \in Nat /\ x.high \in Nat /\ x.low <= x.high /\ x.high <= Top
      /\ r.low \in Nat /\ r.high \in Nat /\ r.low <= r.high /\ r.high <= Top
      /\ x.low % Page = 0 /\ r.low % Page = 0
      /\ Base(x) = x.low /\ Base(r) = r.low
  BY SpansFacts, SlackFacts
<1>2. x.low \in Pages /\ r.low \in Pages
  BY <1>1, Numbers, PageNumbers
<1>3. ~(x.low <= r.low /\ r.low <= x.high) /\ ~(r.low <= x.low /\ x.low <= r.high)
  BY <1>1, <1>2
<1> QED BY <1>1, <1>3 DEF Apart

LEMMA ClearPages ==
  ASSUME NEW list, Tidy(Spans, list), NEW r \in Spans,
         \A p \in Pages : r.low <= p /\ p <= r.high => ~In(list, p)
  PROVE  ClearOf(list, r)
<1>1. Members(list) \subseteq Spans
  BY SpansSlack, TidyMembers
<1>2. ASSUME NEW y \in Members(list) PROVE Apart(y, r)
  BY <1>1, PagesApart DEF In
<1> QED BY <1>2 DEF ClearOf

LEMMA WithIn ==
  ASSUME NEW list, NEW t, NEW r, With(list, t, r), NEW p \in Nat
  PROVE  In(t, p) <=> In(list, p) \/ (r.low <= p /\ p <= r.high)
<1>1. \A l : In(l, p) <=> \E o : Has(l, p, o)
  BY DEF In, Has
<1>2. \A o : Has(t, p, o) <=> Has(list, p, o) \/ (o = r.owner /\ r.low <= p /\ p <= r.high)
  BY DEF With
<1> QED BY <1>1, <1>2

LEMMA InsertSound ==
  ASSUME NEW s, Sound(s), s.ok, NEW pool \in Names, Tidy(Spans, s[pool]),
         NEW r \in Spans, Unheld(s, r.low, r.high), NEW u, u = insert(s, pool, r)
  PROVE  /\ Sound(u) /\ u.ok /\ Tidy(Spans, u[pool])
         /\ \A q \in Names : q # pool => u[q] = s[q]
         /\ \A p \in Pages : InPool(u, pool, p) <=> \/ InPool(s, pool, p)
                                                    \/ r.low <= p /\ p <= r.high
         /\ With(s[pool], u[pool], r)
<1>1. s \in PoolSet /\ Excl(s) /\ Tidy(Slack, s.conv) /\ Tidy(Spans, s.mem) /\ Tidy(Spans, s.alloc)
  BY DEF Sound
<1>2. \A p \in Pages : r.low <= p /\ p <= r.high => ~In(s[pool], p)
  BY DEF Unheld, InPool
<1>3. ClearOf(s[pool], r)
  BY <1>2, ClearPages
<1>4. PICK t \in Seq(Slack), f \in Int :
         u = [s EXCEPT ![pool] = t, !.free = f] /\ With(s[pool], t, r)
  BY <1>1, <1>3, InsertFacts
<1>5. /\ u \in PoolSet /\ u[pool] = t /\ u.ok = s.ok
      /\ \A q \in Names : q # pool => u[q] = s[q]
  <2>1. s \in PoolSet /\ u = [s EXCEPT ![pool] = t, !.free = f]
    BY <1>1, <1>4
  <2> QED BY <2>1 DEF PoolSet, Names
<1>6. \A p \in Pages : InPool(u, pool, p) <=> InPool(s, pool, p) \/ (r.low <= p /\ p <= r.high)
  BY <1>4, <1>5, WithIn, PageNumbers DEF InPool
<1>7. Excl(u)
  <2>1. ASSUME NEW p \in Pages, NEW a \in Names, NEW b \in Names, a # b, InPool(u, a, p)
        PROVE  ~InPool(u, b, p)
    <3>1. \A q \in Names : q # pool => (InPool(u, q, p) <=> InPool(s, q, p))
      BY <1>5 DEF InPool
    <3>2. \A q \in Names : r.low <= p /\ p <= r.high => ~InPool(s, q, p)
      BY DEF Unheld
    <3>3. \A c, d \in Names : c # d /\ InPool(s, c, p) => ~InPool(s, d, p)
      BY <1>1 DEF Excl
    <3>4. InPool(u, pool, p) <=> InPool(s, pool, p) \/ (r.low <= p /\ p <= r.high)
      BY <1>6
    <3> QED BY <2>1, <3>1, <3>2, <3>3, <3>4
  <2> QED BY <2>1 DEF Excl
<1>8. Tidy(Spans, u[pool])
  BY <1>4, <1>5 DEF With
<1>9. Tidy(Slack, u.conv) /\ Tidy(Spans, u.mem) /\ Tidy(Spans, u.alloc)
  <2>1. u["conv"] = u.conv /\ u["mem"] = u.mem /\ u["alloc"] = u.alloc
        /\ s["conv"] = s.conv /\ s["mem"] = s.mem /\ s["alloc"] = s.alloc
    BY <1>1, <1>5, PoolFacts
  <2>2. Tidy(Slack, u[pool])
    BY <1>8, TidySlack
  <2>3. "conv" \in Names /\ "mem" \in Names /\ "alloc" \in Names
    BY DEF Names
  <2>4. pool = "conv" \/ u["conv"] = s["conv"]
    BY <1>5, <2>3
  <2>5. pool = "mem" \/ u["mem"] = s["mem"]
    BY <1>5, <2>3
  <2>6. pool = "alloc" \/ u["alloc"] = s["alloc"]
    BY <1>5, <2>3
  <2> QED BY <1>1, <1>8, <2>1, <2>2, <2>4, <2>5, <2>6
<1> QED BY <1>4, <1>5, <1>6, <1>7, <1>8, <1>9 DEF Sound

-----------------------------------------------------------------------------
(* Blocks within regions.                                                  *)

\* What is assumed of the sizes of blocks.
Block(size) == size \in Nat \ {0} /\ size % Page = 0 /\ (Top + 1) % size = 0

LEMMA PageBlock == Block(Page)
<1>1. Page \in Nat \ {0} /\ (Top + 1) % Page = 0
  BY Numbers
<1>2. Page % Page = 0
  BY <1>1
<1> QED BY <1>1, <1>2 DEF Block

LEMMA DownFacts ==
  ASSUME NEW a \in Nat, NEW size \in Nat \ {0}
  PROVE  /\ Down(a, size) \in Nat /\ Down(a, size) % size = 0
         /\ Down(a, size) <= a /\ a < Down(a, size) + size
  BY RoundedDown DEF Down

LEMMA WrapRange == \A a \in Int : Wrap(a) \in 0 .. Top
<1>1. PICK m \in Nat : m = Top + 1 /\ m > 1
  BY Numbers
<1>2. \A a \in Int : a % m \in 0 .. m - 1
  BY <1>1
<1>3. m - 1 = Top
  BY <1>1, Numbers
<1> QED BY <1>1, <1>2, <1>3 DEF Wrap

LEMMA SizeFacts ==
  ASSUME NEW size, Block(size), NEW a \in Nat, a % size = 0
  PROVE  a % Page = 0 /\ (a + size) % Page = 0 /\ (a <= Top => a + size - 1 <= Top)
<1>1. /\ size \in Nat \ {0} /\ size % Page = 0 /\ (Top + 1) % size = 0
      /\ Page \in Nat \ {0} /\ Top \in Nat
  BY Numbers DEF Block
<1>2. a % Page = 0
  <2>1. a \in Int /\ a % size = 0
    OBVIOUS
  <2> QED BY ONLY <2>1, <1>1, MultipleOfMultiple
<1>3. (a + size) % Page = 0
  <2>1. a \in Int /\ size \in Int
    BY <1>1
  <2> QED BY ONLY <2>1, <1>1, <1>2, MultiplesSum
<1>4. ASSUME a <= Top PROVE a + size - 1 <= Top
  <2>1. PICK b \in Int : b = Top + 1 /\ b % size = 0
    BY <1>1
  <2>2. a \in Int /\ a < b
    BY <1>1, <1>4, <2>1
  <2>3. a + size <= b
    BY ONLY <1>1, <2>1, <2>2, MultiplesApart, a % size = 0
  <2> QED BY <1>1, <2>1, <2>3
<1> QED BY <1>2, <1>3, <1>4

LEMMA LowFacts ==
  ASSUME NEW r \in Slack, NEW size, Block(size)
  PROVE  low_a(r, size) \in 0 .. Top /\ low_a(r, size) % size = 0
<1>1. size \in Nat \ {0} /\ r.low \in Nat /\ Top \in Nat
  BY SlackFacts, Numbers DEF Block
<1>2. PICK w \in 0 .. Top : w = Wrap(r.low + size - 1)
  BY <1>1, WrapRange
<1>3. Down(w, size) \in Nat /\ Down(w, size) % size = 0 /\ Down(w, size) <= w
  BY <1>1, <1>2, DownFacts
<1> QED BY <1>1, <1>2, <1>3 DEF low_a

LEMMA HighFacts ==
  ASSUME NEW r \in Slack, NEW size, Block(size), r.high >= size - 1
  PROVE  /\ high_a(r, size) \in 0 .. Top /\ (high_a(r, size) + 1) % size = 0
         /\ high_a(r, size) <= r.high
<1>1. /\ size \in Nat \ {0} /\ r.high \in Nat /\ r.high <= Top /\ Top \in Nat
      /\ (Top + 1) % size = 0
  BY SlackFacts, Numbers DEF Block
<1>2. PICK w : w = Wrap(r.high + 1)
  OBVIOUS
<1>3. PICK d : d = Down(w, size)
  OBVIOUS
<1>4. high_a(r, size) = Wrap(d - 1)
  BY <1>2, <1>3 DEF high_a
<1>5. CASE r.high = Top
  <2>1. w = 0
    BY <1>2, <1>5, WrapFacts
  <2>2. d = 0
    <3>1. 0 % size = 0
      BY <1>1
    <3> QED BY <1>3, <2>1, <3>1 DEF Down
  <2>3. high_a(r, size) = Top
    BY <1>4, <2>2, WrapFacts
  <2> QED BY <1>1, <1>5, <2>3
<1>6. CASE r.high # Top
  <2>1. w = r.high + 1 /\ w \in Nat
    <3>1. r.high + 1 \in 0 .. Top
      BY <1>1, <1>6
    <3> QED BY <1>2, <3>1, WrapFacts
  <2>2. d \in Nat /\ d % size = 0 /\ d <= w /\ w < d + size
    BY <1>1, <1>3, <2>1, DownFacts
  <2>3. d - 1 \in 0 .. Top
    BY <1>1, <1>6, <2>1, <2>2
  <2>4. high_a(r, size) = d - 1
    BY <1>4, <2>3, WrapFacts
  <2>5. (d - 1) + 1 = d
    BY <2>2
  <2> QED BY <1>1, <2>1, <2>2, <2>3, <2>4, <2>5
<1> QED BY <1>5, <1>6

\* A block that may be had at an address lies in the region.
LEMMA CanFacts ==
  ASSUME NEW r \in Slack, NEW size, Block(size), NEW addr \in Nat, addr <= Top, addr % size = 0,
         NEW tid, can_allocate(r, addr, size, tid)
  PROVE  r.low <= addr /\ addr + size - 1 <= r.high /\ r.owner \in {tid, Anythread}
<1>1. /\ addr >= low_a(r, size) /\ Wrap(addr + size - 1) <= high_a(r, size)
      /\ r.low <= low_a(r, size) /\ r.high >= size - 1 /\ r.owner \in {tid, Anythread}
  BY DEF can_allocate, Roomy
<1>2. PICK a \in 0 .. Top : a = low_a(r, size)
  BY LowFacts
<1>3. PICK b \in 0 .. Top : b = high_a(r, size) /\ b <= r.high
  BY <1>1, HighFacts
<1>4. addr + size - 1 <= Top
  BY SizeFacts
<1>5. r.low \in Nat /\ r.high \in Nat /\ Top \in Nat /\ size \in Nat \ {0}
  BY SlackFacts, Numbers DEF Block
<1>6. Wrap(addr + size - 1) = addr + size - 1
  <2>1. addr + size - 1 \in 0 .. Top
    BY <1>4, <1>5
  <2> QED BY <2>1, WrapFacts
<1> QED BY <1>1, <1>2, <1>3, <1>5, <1>6

LEMMA AnywhereFacts ==
  ASSUME NEW r \in Slack, NEW size, Block(size), NEW tid, CanAnywhere(r, size, tid),
         NEW addr, addr = Anywhere(r, size)
  PROVE  /\ addr \in Nat /\ addr % Page = 0 /\ (addr + size) % Page = 0
         /\ r.low <= addr /\ addr + size - 1 <= r.high /\ r.owner \in {tid, Anythread}
<1>1. /\ low_a(r, size) <= high_a(r, size)
      /\ Wrap(high_a(r, size) - low_a(r, size)) >= size - 1
      /\ r.low <= low_a(r, size) /\ r.high >= size - 1 /\ r.owner \in {tid, Anythread}
  BY DEF CanAnywhere, Roomy
<1>2. PICK a \in 0 .. Top : a = low_a(r, size) /\ a % size = 0
  BY LowFacts
<1>3. PICK b \in 0 .. Top : b = high_a(r, size) /\ b <= r.high /\ (b + 1) % size = 0
  BY <1>1, HighFacts
<1>4. /\ r.low \in Nat /\ r.high \in Nat /\ Top \in Nat /\ size \in Nat \ {0} /\ r.high <= Top
      /\ Page \in Nat \ {0} /\ size % Page = 0
  BY SlackFacts, Numbers DEF Block
<1>5. b - a >= size - 1
  <2>1. b - a \in 0 .. Top
    BY <1>1, <1>2, <1>3, <1>4
  <2> QED BY <2>1, <1>1, <1>2, <1>3, WrapFacts
<1>6. CASE addr = a
  <2>1. a \in Nat
    BY <1>2
  <2>2. a % Page = 0 /\ (a + size) % Page = 0
    BY <1>2, <2>1, SizeFacts
  <2> QED BY <1>1, <1>2, <1>3, <1>4, <1>5, <1>6, <2>1, <2>2
<1>7. CASE addr = b - size + 1
  <2>1. b + 1 \in Int /\ (b + 1) % size = 0 /\ size \in Int /\ size % size = 0
    BY <1>3, <1>4
  <2>2. ((b + 1) - size) % size = 0
    BY ONLY <1>4, <2>1, MultiplesSum
  <2>3. (b + 1) - size \in Nat /\ addr = (b + 1) - size
    BY <1>2, <1>3, <1>4, <1>5, <1>7
  <2>4. addr \in Nat /\ addr % size = 0
    BY <2>2, <2>3
  <2>5. addr % Page = 0 /\ (addr + size) % Page = 0
    BY <2>4, SizeFacts
  <2> QED BY <1>1, <1>2, <1>3, <1>4, <1>5, <1>7, <2>4, <2>5
<1> QED BY <1>2, <1>3, <1>6, <1>7 DEF Anywhere

-----------------------------------------------------------------------------
(* What is taken from the start of a region, and growth.                   *)

\* What is left of r.
Rest(r, size) ==
  IF r.low + size = r.high + 1 THEN {} ELSE {region(r.low + size, r.high, r.owner)}

LEMMA RestFacts ==
  ASSUME NEW r \in Slack, NEW size \in Nat \ {0}, size % Page = 0, r.low + size - 1 <= r.high
  PROVE  /\ Rest(r, size) \subseteq Spans
         /\ \A y : Apart(y, r) => \A e \in Rest(r, size) : Apart(y, e) \/ ~(y \in Slack)
         /\ \A e \in Rest(r, size) : e.low = r.low + size /\ e.high = r.high /\ e.owner = r.owner
<1>1. /\ r.low \in Nat /\ r.high \in Nat /\ r.low <= r.high /\ r.high <= Top /\ Top \in Nat
      /\ r.low % Page = 0 /\ (r.high + 1) % Page = 0 /\ r.owner \in Owners
      /\ Base(r) = r.low /\ Page \in Nat \ {0}
  BY SlackFacts, Numbers
<1>2. CASE r.low + size = r.high + 1
  BY <1>2 DEF Rest
<1>3. CASE r.low + size # r.high + 1
  <2>1. PICK e : e = region(r.low + size, r.high, r.owner)
    OBVIOUS
  <2>2. r.low + size \in 0 .. Top /\ r.high \in 0 .. Top /\ r.low + size <= r.high
    BY <1>1, <1>3
  <2>3. (r.low + size) % Page = 0
    <3>1. r.low \in Int /\ size \in Int
      BY <1>1
    <3> QED BY ONLY <3>1, <1>1, MultiplesSum, size % Page = 0
  <2>4. e \in Spans /\ e.low = r.low + size /\ e.high = r.high /\ e.owner = r.owner
    <3>1. PICK a \in 0 .. Top : a = r.low + size /\ a % Page = 0
      BY <2>2, <2>3
    <3>2. PICK b \in 0 .. Top : b = r.high /\ (b + 1) % Page = 0
      BY <1>1, <2>2
    <3>3. e = region(a, b, r.owner) /\ a <= b /\ a <= b + 1
      BY <2>1, <2>2, <3>1, <3>2
    <3>4. e \in Spans /\ e.low = a /\ e.high = b /\ e.owner = r.owner
      BY <1>1, <3>1, <3>2, <3>3, SlackRegion
    <3> QED BY <3>1, <3>2, <3>4
  <2>5. Rest(r, size) = {e}
    BY <1>3, <2>1 DEF Rest
  <2>6. ASSUME NEW y, Apart(y, r), y \in Slack PROVE Apart(y, e)
    <3>1. y.high \in Nat /\ Base(y) \in Nat /\ Base(e) = e.low
      BY <2>4, <2>6, SlackFacts, SpansFacts
    <3> QED BY <1>1, <2>2, <2>4, <2>6, <3>1 DEF Apart
  <2> QED BY <2>4, <2>5, <2>6
<1> QED BY <1>2, <1>3

StartTaken(s, pool, T, i, r, size) ==
  \E t \in Seq(Slack) : \E f \in Int :
    /\ TakeStart(s, pool, i, size) = [s EXCEPT ![pool] = t, !.free = f]
    /\ Tidy(T, t) /\ Members(t) = (Members(s[pool]) \ {r}) \cup Rest(r, size)

LEMMA TakeStartFacts ==
  ASSUME NEW s \in PoolSet, NEW pool \in Names, NEW T, Spans \subseteq T, T \subseteq Slack,
         Tidy(T, s[pool]), NEW i \in DOMAIN s[pool], NEW r, r = s[pool][i],
         NEW size \in Nat \ {0}, size % Page = 0, r.low + size - 1 <= r.high
  PROVE  StartTaken(s, pool, T, i, r, size)
<1>1. PICK list : list = s[pool]
  OBVIOUS
<1>2. Tidy(T, list) /\ i \in DOMAIN list /\ r = list[i] /\ list \in Seq(T)
  BY <1>1 DEF Tidy
<1>3. /\ Members(list) \subseteq T /\ r \in Members(list) /\ r \in Slack
      /\ \A x, y \in Members(list) : x # y => Apart(x, y)
  <2>1. Tidy(T, list) /\ T \subseteq Slack
    BY <1>2
  <2>2. /\ Members(list) \subseteq T /\ \A k \in DOMAIN list : list[k] \in Members(list)
        /\ \A x, y \in Members(list) : x # y => Apart(x, y)
    BY ONLY <2>1, TidyMembers
  <2> QED BY <1>2, <2>1, <2>2
<1>4. /\ r.low \in Nat /\ r.high \in Nat /\ r.low <= r.high /\ r.high <= Top /\ Top \in Nat
      /\ r = region(r.low, r.high, r.owner)
  BY <1>3, SlackFacts, Numbers
<1>5. s.free \in Int
  BY PoolFacts
<1>6. Wrap(r.low + size) = Wrap(r.high + 1) <=> r.low + size = r.high + 1
  <2>1. r.high = Top => Wrap(r.high + 1) = 0
    BY WrapFacts
  <2>2. r.high # Top => Wrap(r.high + 1) = r.high + 1
    <3>1. r.high # Top => r.high + 1 \in 0 .. Top
      BY <1>4
    <3> QED BY <3>1, WrapFacts
  <2>3. r.low + size <= Top => Wrap(r.low + size) = r.low + size
    <3>1. r.low + size <= Top => r.low + size \in 0 .. Top
      BY <1>4
    <3> QED BY <3>1, WrapFacts
  <2>4. r.low + size = Top + 1 \/ r.low + size <= Top
    BY <1>4
  <2> QED BY <1>4, <2>1, <2>2, <2>3, <2>4
<1>7. CASE r.low + size = r.high + 1
  <2>1. PICK t : t = RemoveAt(list, i)
    OBVIOUS
  <2>2. Tidy(T, t) /\ Members(t) = Members(list) \ {r}
    <3>1. Tidy(T, list) /\ T \subseteq Slack /\ i \in DOMAIN list
      BY <1>2
    <3>2. Tidy(T, t) /\ Members(t) = Members(list) \ {list[i]}
      BY ONLY <2>1, <3>1, TidyRemove
    <3> QED BY <1>2, <3>2
  <2>3. t \in Seq(Slack)
    <3>1. t \in Seq(T)
      BY <2>2 DEF Tidy
    <3> QED BY <3>1, SeqMonotonic
  <2>4. TakeStart(s, pool, i, size) = [s EXCEPT ![pool] = t, !.free = s.free + 1]
    BY <1>1, <1>2, <1>6, <1>7, <2>1 DEF TakeStart, PoolSet, Names
  <2>5. s.free + 1 \in Int
    BY <1>5
  <2>6. Rest(r, size) = {}
    BY <1>7 DEF Rest
  <2> QED BY <1>1, <2>2, <2>3, <2>4, <2>5, <2>6 DEF StartTaken
<1>8. CASE r.low + size # r.high + 1
  <2>1. PICK e : e = region(r.low + size, r.high, r.owner)
    OBVIOUS
  <2>2. PICK t : t = ReplaceAt(list, i, e)
    OBVIOUS
  <2>3. Rest(r, size) = {e}
    BY <1>8, <2>1 DEF Rest
  <2>4. e \in Spans /\ \A y \in Slack : Apart(y, r) => Apart(y, e)
    BY <1>3, <2>3, RestFacts
  <2>5. ClearBut(list, r, e)
    BY <1>3, <2>4 DEF ClearBut
  <2>6. Tidy(T, t) /\ Members(t) = (Members(list) \ {r}) \cup {e}
    <3>1. e \in T /\ Tidy(T, list) /\ T \subseteq Slack /\ i \in DOMAIN list /\ r = list[i]
      BY <1>2, <2>4
    <3> QED BY ONLY <2>2, <2>5, <3>1, TidyReplace
  <2>7. t \in Seq(Slack)
    <3>1. t \in Seq(T)
      BY <2>6 DEF Tidy
    <3> QED BY <3>1, SeqMonotonic
  <2>8. TakeStart(s, pool, i, size) = [s EXCEPT ![pool] = t, !.free = s.free]
    <3>1. [r EXCEPT !.low = r.low + size] = e
      BY <1>4, <2>1 DEF region
    <3>2. t = [list EXCEPT ![i] = e]
      BY <2>2 DEF ReplaceAt
    <3>3. TakeStart(s, pool, i, size) = [s EXCEPT ![pool][i].low = @ + size]
      BY <1>1, <1>2, <1>6, <1>8 DEF TakeStart
    <3>4. [s EXCEPT ![pool][i].low = @ + size]
            = [s EXCEPT ![pool] = [list EXCEPT ![i] = [r EXCEPT !.low = r.low + size]]]
      BY <1>1, <1>2
    <3>5. [s EXCEPT ![pool] = t] = [s EXCEPT ![pool] = t, !.free = s.free]
      BY DEF PoolSet, Names
    <3> QED BY <3>1, <3>2, <3>3, <3>4, <3>5
  <2> QED BY <1>1, <1>5, <2>3, <2>6, <2>7, <2>8 DEF StartTaken
<1> QED BY <1>7, <1>8

-----------------------------------------------------------------------------
(* A block taken out of a region.                                          *)

Kind(pool) == IF pool = "conv" THEN Slack ELSE Spans

LEMMA SoundKinds ==
  ASSUME NEW s, Sound(s)
  PROVE  \A pool \in Names : Tidy(Kind(pool), s[pool]) /\ Kind(pool) \subseteq Slack
                             /\ Spans \subseteq Kind(pool)
  BY SpansSlack DEF Sound, Names, Kind

LEMMA KindSlack ==
  ASSUME NEW pool, NEW list, Tidy(Kind(pool), list)
  PROVE  Tidy(Slack, list)
  BY TidySlack DEF Kind

\* E is what is left of r without the addresses from a to b.
Splits(r, E, a, b) ==
  \A p \in Nat : (\E e \in E : e.low <= p /\ p <= e.high)
                   <=> r.low <= p /\ p <= r.high /\ ~(a <= p /\ p <= b)

LEMMA CutOut ==
  ASSUME NEW list, Tidy(Slack, list), NEW r \in Members(list), NEW E,
         NEW a \in Nat, NEW b \in Nat, r.low <= a, b <= r.high, Splits(r, E, a, b),
         NEW t, Members(t) = (Members(list) \ {r}) \cup E, NEW p \in Nat
  PROVE  In(t, p) <=> In(list, p) /\ ~(a <= p /\ p <= b)
<1>1. Members(list) \subseteq Slack /\ \A x, y \in Members(list) : x # y => Apart(x, y)
  BY ONLY Tidy(Slack, list), TidyMembers, Slack \subseteq Slack
<1>2. /\ r.low \in Nat /\ r.high \in Nat
      /\ \A x \in Slack : x.low \in Nat /\ x.high \in Nat /\ (x.low <= x.high => Base(x) = x.low)
  BY <1>1, SlackFacts
<1>3. ASSUME NEW y \in Members(list), y # r, y.low <= p, p <= y.high
      PROVE  ~(r.low <= p /\ p <= r.high)
  <2>1. y \in Slack /\ r \in Slack /\ Apart(y, r)
    BY <1>1, <1>3
  <2>2. /\ y.low \in Nat /\ y.high \in Nat
        /\ (y.low <= y.high => Base(y) = y.low) /\ (r.low <= r.high => Base(r) = r.low)
    BY <1>2, <2>1
  <2> QED BY ONLY <1>2, <1>3, <2>1, <2>2, p \in Nat DEF Apart
<1>4. In(t, p) <=> \/ \E y \in Members(list) \ {r} : y.low <= p /\ p <= y.high
                   \/ \E e \in E : e.low <= p /\ p <= e.high
  BY DEF In
<1>5. In(list, p) <=> \/ \E y \in Members(list) \ {r} : y.low <= p /\ p <= y.high
                      \/ r.low <= p /\ p <= r.high
  BY DEF In
<1>6. (\E e \in E : e.low <= p /\ p <= e.high)
        <=> r.low <= p /\ p <= r.high /\ ~(a <= p /\ p <= b)
  BY DEF Splits
<1>7. (\E y \in Members(list) \ {r} : y.low <= p /\ p <= y.high) => ~(a <= p /\ p <= b)
  BY <1>2, <1>3
<1> QED BY <1>4, <1>5, <1>6, <1>7

LEMMA FreeFacts ==
  ASSUME NEW s, Sound(s), NEW f \in Int, NEW u, u = [s EXCEPT !.free = f]
  PROVE  /\ Sound(u) /\ u.ok = s.ok /\ u.free = f
         /\ u.conv = s.conv /\ u.mem = s.mem /\ u.alloc = s.alloc
         /\ \A pool \in Names : u[pool] = s[pool]
<1>1. s \in PoolSet
  BY DEF Sound
<1>2. u \in PoolSet /\ u.free = f /\ u.ok = s.ok
  BY <1>1 DEF PoolSet
<1>3. /\ u.conv = s.conv /\ u.mem = s.mem /\ u.alloc = s.alloc
      /\ \A pool \in Names : u[pool] = s[pool]
  BY <1>1 DEF PoolSet, Names
<1>4. \A pool \in Names : \A p : InPool(u, pool, p) <=> InPool(s, pool, p)
  BY <1>3 DEF InPool
<1>5. Excl(u)
  BY <1>4 DEF Excl, Sound
<1> QED BY <1>2, <1>3, <1>5 DEF Sound

Update(s, pool, t, f) == [s EXCEPT ![pool] = t, !.free = f]

Loses(list, t, a, b) ==
  \A p \in Pages : In(t, p) <=> In(list, p) /\ ~(a <= p /\ p <= b)

\* A list that loses the pages from a to b, all of which it had.
LEMMA ShrinkFacts ==
  ASSUME NEW s, Sound(s), NEW pool \in Names, NEW t \in Seq(Slack), Tidy(Kind(pool), t),
         NEW a, NEW b, NEW f \in Int,
         Loses(s[pool], t, a, b),
         NEW u, u = Update(s, pool, t, f)
  PROVE  /\ Sound(u) /\ (s.ok => u.ok) /\ u[pool] = t
         /\ \A q \in Names : q # pool => u[q] = s[q]
<1>1. s \in PoolSet
  BY DEF Sound
<1>2. u \in PoolSet /\ u[pool] = t /\ u.ok = s.ok /\ \A q \in Names : q # pool => u[q] = s[q]
  BY <1>1 DEF PoolSet, Names, Update
<1>3. Tidy(Slack, u.conv) /\ Tidy(Spans, u.mem) /\ Tidy(Spans, u.alloc)
  <2>1. \A q \in Names : Tidy(Kind(q), u[q])
    BY <1>2, SoundKinds
  <2> QED BY <2>1 DEF Names, Kind
<1>4. \A p \in Pages : \A q \in Names : InPool(u, q, p) => InPool(s, q, p)
  BY <1>2 DEF InPool, Loses
<1>5. Excl(u)
  BY <1>4 DEF Excl, Sound
<1> QED BY <1>2, <1>3, <1>5 DEF Sound

LEMMA ShrinkUnheld ==
  ASSUME NEW s, Sound(s), NEW pool \in Names, NEW u, NEW a, NEW b,
         \A q \in Names : q # pool => u[q] = s[q],
         Loses(s[pool], u[pool], a, b),
         \A p \in Pages : a <= p /\ p <= b => In(s[pool], p)
  PROVE  Unheld(u, a, b)
  BY DEF Sound, Excl, InPool, Unheld, Loses

\* The pages of a block that lies in a region of a list.
LEMMA BlockIn ==
  ASSUME NEW list, NEW r \in Members(list), NEW a \in Nat, NEW b \in Nat,
         r.low \in Nat, r.high \in Nat, r.low <= a, b <= r.high
  PROVE  \A p \in Pages : a <= p /\ p <= b => In(list, p)
  BY PageNumbers DEF In

-----------------------------------------------------------------------------
(* Growth: a page moves from conv to alloc.                                *)

LEMMA LeastFacts ==
  ASSUME NEW S \in SUBSET Nat, S # {}
  PROVE  Min(S) \in S
<1>1. PICK m \in S : \A k \in S : m <= k
  BY LeastNumber
<1> QED BY <1>1 DEF Min

LEMMA FitFacts ==
  ASSUME NEW list \in Seq(Slack), NEW size, NEW tid, NEW i, i = FirstFit(list, size, tid)
  PROVE  i = 0 \/ (i \in DOMAIN list /\ CanAnywhere(list[i], size, tid))
<1>1. PICK fits : fits = {k \in DOMAIN list : CanAnywhere(list[k], size, tid)}
  OBVIOUS
<1>2. fits \in SUBSET Nat
  BY <1>1, SeqFacts
<1>3. fits # {} => Min(fits) \in fits
  BY <1>2, LeastFacts
<1>4. i = IF fits = {} THEN 0 ELSE Min(fits)
  BY <1>1 DEF FirstFit
<1> QED BY <1>1, <1>3, <1>4

Grew(s, u) ==
  \E x \in Members(s.conv) :
    /\ x.low + Page - 1 <= x.high
    /\ Members(u.conv) = (Members(s.conv) \ {x}) \cup Rest(x, Page)
    /\ Tidy(Spans, s.conv) => Tidy(Spans, u.conv)
    /\ u.mem = s.mem
    /\ With(s.alloc, u.alloc, region(x.low, x.low + Page - 1, Sigma0Id))

LEMMA RestSplits ==
  ASSUME NEW r \in Slack, NEW size \in Nat \ {0}, size % Page = 0, r.low + size - 1 <= r.high
  PROVE  Splits(r, Rest(r, size), r.low, r.low + size - 1)
<1>1. r.low \in Nat /\ r.high \in Nat
  BY SlackFacts
<1>2. \A p \in Nat : (\E e \in Rest(r, size) : e.low <= p /\ p <= e.high)
                       <=> r.low + size <= p /\ p <= r.high
  <2>1. CASE r.low + size = r.high + 1
    BY <1>1, <2>1 DEF Rest
  <2>2. CASE r.low + size # r.high + 1
    <3>1. PICK e : e = region(r.low + size, r.high, r.owner)
      OBVIOUS
    <3>2. e.low = r.low + size /\ e.high = r.high
      BY <3>1 DEF region
    <3>3. Rest(r, size) = {e}
      BY <2>2, <3>1 DEF Rest
    <3> QED BY <3>2, <3>3
  <2> QED BY <2>1, <2>2
<1> QED BY <1>1, <1>2 DEF Splits

LEMMA GrowFacts ==
  ASSUME NEW s, Sound(s), s.ok, NEW u, u = Grow(s)
  PROVE  u = [s EXCEPT !.ok = FALSE] \/ (Sound(u) /\ u.ok /\ Grew(s, u))
<1>1. PICK i : i = FirstFit(s.conv, Page, Sigma0Id)
  OBVIOUS
<1>2. CASE i = 0
  BY <1>1, <1>2 DEF Grow
<1>3. CASE i # 0
  <2>1. s \in PoolSet /\ s.conv \in Seq(Slack) /\ s["conv"] = s.conv
    BY DEF Sound, PoolSet
  <2>2. i \in DOMAIN s.conv /\ CanAnywhere(s.conv[i], Page, Sigma0Id)
    BY ONLY <1>1, <1>3, <2>1, FitFacts
  <2>3. PICK x : x = s.conv[i]
    OBVIOUS
  <2>4. x \in Members(s.conv) /\ x \in Slack
    BY <2>1, <2>2, <2>3, SeqFacts DEF Members
  <2>5. x.low \in Nat /\ x.high \in Nat /\ Page \in Nat \ {0} /\ Page % Page = 0
        /\ x.low <= Top /\ x.high <= Top /\ x.low % Page = 0 /\ Top \in Nat
    BY <2>4, SlackFacts, Numbers
  <2>6. x.low + Page - 1 <= x.high
    <3>1. PICK addr : addr = Anywhere(x, Page)
      OBVIOUS
    <3>2. CanAnywhere(x, Page, Sigma0Id)
      BY <2>2, <2>3
    <3>3. addr \in Nat /\ x.low <= addr /\ addr + Page - 1 <= x.high
      BY ONLY <2>4, <3>1, <3>2, PageBlock, AnywhereFacts
    <3> QED BY <2>5, <3>3
  <2>7. PICK g : g = [s EXCEPT !.free = 1]
    OBVIOUS
  <2>8. /\ Sound(g) /\ g.ok = s.ok /\ g.conv = s.conv /\ g.mem = s.mem /\ g.alloc = s.alloc
        /\ g \in PoolSet /\ g["conv"] = s.conv
    <3>1. /\ Sound(g) /\ g.ok = s.ok /\ g.conv = s.conv /\ g.mem = s.mem /\ g.alloc = s.alloc
      BY ONLY Sound(s), 1 \in Int, <2>7, FreeFacts
    <3> QED BY <3>1 DEF Sound
  <2>90. PICK pool \in Names : pool = "conv"
    BY DEF Names
  <2>9. StartTaken(g, pool, Slack, i, x, Page)
    <3>1. Spans \subseteq Slack /\ Slack \subseteq Slack /\ pool \in Names
          /\ Tidy(Slack, g[pool]) /\ i \in DOMAIN g[pool] /\ x = g[pool][i]
      BY <2>2, <2>3, <2>8, <2>90, SpansSlack DEF Sound, Names
    <3>2. g \in PoolSet /\ Page \in Nat \ {0} /\ Page % Page = 0
      BY <2>5, <2>8
    <3> QED BY ONLY <2>6, <3>1, <3>2, TakeStartFacts
  <2>91. PICK t \in Seq(Slack) : \E f \in Int :
            /\ TakeStart(g, pool, i, Page) = [g EXCEPT ![pool] = t, !.free = f]
            /\ Tidy(Slack, t) /\ Members(t) = (Members(g[pool]) \ {x}) \cup Rest(x, Page)
    BY <2>9 DEF StartTaken
  <2>10. PICK f \in Int :
            /\ TakeStart(g, pool, i, Page) = [g EXCEPT ![pool] = t, !.free = f]
            /\ Tidy(Slack, t) /\ Members(t) = (Members(s.conv) \ {x}) \cup Rest(x, Page)
    BY <2>8, <2>91, <2>90
  <2>11. Tidy(Spans, s.conv) => Tidy(Spans, t)
    <3> SUFFICES ASSUME Tidy(Spans, s.conv) PROVE Tidy(Spans, t)
      OBVIOUS
    <3>1. Spans \subseteq Spans /\ Spans \subseteq Slack /\ pool \in Names
          /\ Tidy(Spans, g[pool]) /\ i \in DOMAIN g[pool] /\ x = g[pool][i]
      BY <2>2, <2>3, <2>8, <2>90, SpansSlack DEF Names
    <3>20. StartTaken(g, pool, Spans, i, x, Page)
      <4>1. g \in PoolSet /\ Page \in Nat \ {0} /\ Page % Page = 0
        BY <2>5, <2>8
      <4> QED BY ONLY <2>6, <3>1, <4>1, TakeStartFacts
    <3>2. PICK t2 \in Seq(Slack) : \E f2 \in Int :
            /\ TakeStart(g, pool, i, Page) = [g EXCEPT ![pool] = t2, !.free = f2]
            /\ Tidy(Spans, t2) /\ Members(t2) = (Members(g[pool]) \ {x}) \cup Rest(x, Page)
      BY <3>20 DEF StartTaken
    <3>3. t2 = t
      <4>1. PICK f2 \in Int :
               TakeStart(g, pool, i, Page) = [g EXCEPT ![pool] = t2, !.free = f2]
        BY <3>2
      <4>2. [g EXCEPT ![pool] = t2, !.free = f2][pool] = t2
            /\ [g EXCEPT ![pool] = t, !.free = f][pool] = t
        BY <2>8 DEF PoolSet, Names
      <4> QED BY <2>10, <4>1, <4>2
    <3> QED BY <3>2, <3>3
  <2>12. PICK took : took = [g EXCEPT ![pool] = t, !.free = f]
    OBVIOUS
  <2>13. PICK b \in Nat : b = x.low + Page - 1
    BY <2>5
  <2>14. Loses(g[pool], t, x.low, b)
    <3> SUFFICES ASSUME NEW p \in Pages
                 PROVE  In(t, p) <=> In(g[pool], p) /\ ~(x.low <= p /\ p <= b)
      BY DEF Loses
    <3>1. p \in Nat
      BY PageNumbers
    <3>2. Splits(x, Rest(x, Page), x.low, b)
      BY ONLY <2>4, <2>5, <2>6, <2>13, RestSplits
    <3>3. Tidy(Slack, s.conv) /\ b <= x.high /\ x.low <= x.low
      BY <2>5, <2>6, <2>13 DEF Sound
    <3>4. In(t, p) <=> In(s.conv, p) /\ ~(x.low <= p /\ p <= b)
      <4>1. x.low \in Nat /\ x \in Members(s.conv)
            /\ Members(t) = (Members(s.conv) \ {x}) \cup Rest(x, Page)
        BY <2>4, <2>5, <2>10
      <4> QED BY ONLY <4>1, <2>13, <3>1, <3>2, <3>3, CutOut
    <3> QED BY <2>8, <2>90, <3>4
  <2>15. Sound(took) /\ (g.ok => took.ok) /\ took[pool] = t
         /\ \A q \in Names : q # pool => took[q] = g[q]
    <3>1. Tidy(Kind(pool), t) /\ pool \in Names
      BY <2>10, <2>90 DEF Kind, Names
    <3>2. Sound(g) /\ t \in Seq(Slack) /\ f \in Int
      BY <2>8
    <3>3. took = Update(g, pool, t, f)
      BY <2>12 DEF Update
    <3>4. Sound(took) /\ (g.ok => took.ok)
      BY ONLY <2>14, <3>1, <3>2, <3>3, ShrinkFacts
    <3>5. took[pool] = t /\ \A q \in Names : q # pool => took[q] = g[q]
      BY <2>8, <2>12 DEF PoolSet, Names
    <3> QED BY <3>4, <3>5
  <2>16. Unheld(took, x.low, b)
    <3>4. took["conv"] = t /\ \A q \in Names : q # "conv" => took[q] = g[q]
      BY <2>15, <2>90
    <3>5. Loses(g["conv"], t, x.low, b)
      BY <2>14, <2>90
    <3>1. \A p \in Pages : x.low <= p /\ p <= b => In(g["conv"], p)
      <4>1. x \in Members(g["conv"]) /\ x.low <= x.low /\ b <= x.high
        BY <2>4, <2>5, <2>6, <2>8, <2>13
      <4> QED BY ONLY <2>5, <2>13, <4>1, BlockIn
    <3>2. Loses(g["conv"], took["conv"], x.low, b)
      BY <3>4, <3>5
    <3>3. "conv" \in Names
      BY DEF Names
    <3> QED BY ONLY <2>8, <3>1, <3>2, <3>3, <3>4, ShrinkUnheld
  <2>17. PICK h : h = [took EXCEPT !.free = took.free - 1]
    OBVIOUS
  <2>18. Sound(h) /\ h.ok /\ h.mem = s.mem /\ h.alloc = s.alloc /\ h.conv = t
         /\ Unheld(h, x.low, b)
    <3>1. took.free - 1 \in Int
      BY <2>15, PoolFacts DEF Sound
    <3>2. /\ Sound(h) /\ h.ok = took.ok /\ \A q \in Names : h[q] = took[q]
          /\ h.conv = took.conv /\ h.mem = took.mem /\ h.alloc = took.alloc
      BY ONLY <2>15, <2>17, <3>1, FreeFacts
    <3>3. took.mem = g.mem /\ took.alloc = g.alloc /\ took.conv = t
      BY <2>15, <2>90 DEF Names
    <3>4. Unheld(h, x.low, b)
      BY <2>16, <3>2 DEF Unheld, InPool
    <3> QED BY <2>8, <2>15, <3>2, <3>3, <3>4
  <2>19. PICK w : w = region(x.low, b, Sigma0Id)
    OBVIOUS
  <2>20. w \in Spans /\ w.low = x.low /\ w.high = b
    <3>1. x.low \in 0 .. Top /\ b \in 0 .. Top /\ x.low <= b /\ x.low <= b + 1
      BY <2>5, <2>6, <2>13
    <3>2. (b + 1) % Page = 0
      <4>1. x.low \in Int /\ Page \in Int /\ Page \in Nat \ {0}
            /\ x.low % Page = 0 /\ Page % Page = 0
        BY <2>5, <2>13
      <4>2. (x.low + Page) % Page = 0
        BY ONLY <4>1, MultiplesSum
      <4>3. b + 1 = x.low + Page
        BY <2>5, <2>13
      <4> QED BY <4>2, <4>3
    <3>3. Sigma0Id \in Owners
      BY DEF Owners
    <3> QED BY ONLY <2>5, <2>19, <3>1, <3>2, <3>3, SlackRegion
  <2>21. PICK own : own = insert(h, "alloc", w)
    OBVIOUS
  <2>22. /\ Sound(own) /\ own.ok /\ With(s.alloc, own.alloc, w)
         /\ own.conv = t /\ own.mem = s.mem
    <3>1. "alloc" \in Names /\ "conv" \in Names /\ "mem" \in Names
          /\ Tidy(Spans, h["alloc"]) /\ Unheld(h, w.low, w.high)
      BY <2>18, <2>20 DEF Sound, Names
    <3>2. /\ Sound(own) /\ own.ok /\ \A q \in Names : q # "alloc" => own[q] = h[q]
          /\ With(h["alloc"], own["alloc"], w)
      BY ONLY <2>18, <2>20, <2>21, <3>1, InsertSound
    <3>3. own["conv"] = h["conv"] /\ own["mem"] = h["mem"]
      BY <3>1, <3>2
    <3> QED BY <2>18, <3>2, <3>3
  <2>23. u = [own EXCEPT !.free = IF own.free = 0 THEN add(x.low) - 1 ELSE add(x.low)]
    <3>1. took = TakeStart(g, "conv", i, Page)
      BY <2>10, <2>12, <2>90
    <3> QED BY <1>1, <1>3, <2>3, <2>7, <2>13, <2>17, <2>19, <2>21, <3>1 DEF Grow
  <2>24. /\ Sound(u) /\ u.ok /\ u.conv = t /\ u.mem = s.mem /\ u.alloc = own.alloc
    <3>1. add(x.low) \in Int /\ add(x.low) - 1 \in Int
      BY Numbers DEF add
    <3>2. PICK ff \in Int : ff = IF own.free = 0 THEN add(x.low) - 1 ELSE add(x.low)
      BY <3>1
    <3>3. u = [own EXCEPT !.free = ff]
      BY <2>23, <3>2
    <3>4. /\ Sound(u) /\ u.ok = own.ok /\ u.conv = own.conv /\ u.mem = own.mem
          /\ u.alloc = own.alloc
      <4>1. Sound(own)
        BY <2>22
      <4> QED BY ONLY <4>1, ff \in Int, <3>3, FreeFacts
    <3> QED BY <2>22, <3>4
  <2>25. Grew(s, u)
    BY <2>4, <2>6, <2>10, <2>11, <2>13, <2>19, <2>22, <2>24 DEF Grew
  <2> QED BY <2>24, <2>25
<1> QED BY <1>2, <1>3

-----------------------------------------------------------------------------
(* What growth leaves as it was.                                           *)

Free(s, p) == \A pool \in Names : ~InPool(s, pool, p)

\* Pages go from conv to alloc, and no other way.
LEMMA GrewPages ==
  ASSUME NEW s, Sound(s), NEW u, Grew(s, u), NEW p \in Pages
  PROVE  /\ InPool(u, "mem", p) <=> InPool(s, "mem", p)
         /\ InPool(u, "conv", p) => InPool(s, "conv", p)
         /\ InPool(s, "conv", p) => InPool(u, "conv", p) \/ InPool(u, "alloc", p)
         /\ InPool(s, "alloc", p) => InPool(u, "alloc", p)
         /\ InPool(u, "alloc", p) => InPool(s, "alloc", p) \/ InPool(s, "conv", p)
<1>1. PICK x \in Members(s.conv) :
        /\ x.low + Page - 1 <= x.high
        /\ Members(u.conv) = (Members(s.conv) \ {x}) \cup Rest(x, Page)
        /\ u.mem = s.mem
        /\ With(s.alloc, u.alloc, region(x.low, x.low + Page - 1, Sigma0Id))
  BY DEF Grew
<1>2. p \in Nat
  BY PageNumbers
<1>3. Tidy(Slack, s.conv)
  BY DEF Sound
<1>4. x \in Slack
  <2>1. Slack \subseteq Slack
    OBVIOUS
  <2>2. Members(s.conv) \subseteq Slack
    BY ONLY <1>3, <2>1, TidyMembers
  <2> QED BY <2>2
<1>5. x.low \in Nat /\ x.high \in Nat /\ Page \in Nat \ {0} /\ Page % Page = 0
  BY <1>4, SlackFacts, Numbers
<1>6. PICK b \in Nat : b = x.low + Page - 1
  BY <1>5
<1>7. PICK w : w = region(x.low, b, Sigma0Id)
  OBVIOUS
<1>8. w.low = x.low /\ w.high = b
  BY <1>7 DEF region
<1>9. In(u.alloc, p) <=> In(s.alloc, p) \/ (x.low <= p /\ p <= b)
  <2>1. With(s.alloc, u.alloc, w)
    BY <1>1, <1>6, <1>7
  <2>2. In(u.alloc, p) <=> In(s.alloc, p) \/ (w.low <= p /\ p <= w.high)
    BY ONLY <1>2, <2>1, WithIn
  <2> QED BY <1>8, <2>2
<1>10. In(u.conv, p) <=> In(s.conv, p) /\ ~(x.low <= p /\ p <= b)
  <2>1. Splits(x, Rest(x, Page), x.low, b)
    BY ONLY <1>1, <1>4, <1>5, <1>6, RestSplits
  <2>2. b <= x.high /\ x.low <= x.low /\ x.low \in Nat /\ x \in Members(s.conv)
        /\ Members(u.conv) = (Members(s.conv) \ {x}) \cup Rest(x, Page)
    BY <1>1, <1>5, <1>6
  <2> QED BY ONLY <1>2, <1>3, <1>6, <2>1, <2>2, CutOut
<1>11. x.low <= p /\ p <= b => In(s.conv, p)
  BY <1>1, <1>2, <1>5, <1>6 DEF In
<1>12. /\ InPool(u, "mem", p) <=> In(u.mem, p)
       /\ InPool(u, "conv", p) <=> In(u.conv, p)
       /\ InPool(u, "alloc", p) <=> In(u.alloc, p)
       /\ InPool(s, "mem", p) <=> In(s.mem, p)
       /\ InPool(s, "conv", p) <=> In(s.conv, p)
       /\ InPool(s, "alloc", p) <=> In(s.alloc, p)
  BY DEF InPool
<1> QED BY <1>1, <1>9, <1>10, <1>11, <1>12

LEMMA GrewKept ==
  ASSUME NEW s, NEW u, Grew(s, u)
  PROVE  Kept(s, u)
<1>1. PICK x \in Members(s.conv) :
        With(s.alloc, u.alloc, region(x.low, x.low + Page - 1, Sigma0Id))
  BY DEF Grew
<1> QED BY <1>1, PageNumbers DEF Kept, With

LEMMA GrewFits ==
  ASSUME NEW s, Sound(s), NEW u, Grew(s, u), NEW H \in Homes, NEW X, Fits(s, H, X)
  PROVE  Fits(u, H, X)
<1> SUFFICES ASSUME NEW p \in Pages \ X
             PROVE  /\ H[p] = "none" => \A pool \in Names : ~InPool(u, pool, p)
                    /\ H[p] # "none" => InPool(u, "alloc", p) \/ InPool(u, H[p], p)
  BY DEF Fits
<1>1. /\ InPool(u, "mem", p) <=> InPool(s, "mem", p)
      /\ InPool(u, "conv", p) => InPool(s, "conv", p)
      /\ InPool(s, "conv", p) => InPool(u, "conv", p) \/ InPool(u, "alloc", p)
      /\ InPool(s, "alloc", p) => InPool(u, "alloc", p)
      /\ InPool(u, "alloc", p) => InPool(s, "alloc", p) \/ InPool(s, "conv", p)
  BY ONLY Sound(s), Grew(s, u), p \in Pages \ X, GrewPages
<1>2. /\ H[p] = "none" => \A pool \in Names : ~InPool(s, pool, p)
      /\ H[p] # "none" => InPool(s, "alloc", p) \/ InPool(s, H[p], p)
  BY DEF Fits
<1>3. H[p] \in Names \cup {"none"}
  BY DEF Homes
<1> QED BY <1>1, <1>2, <1>3 DEF Names

LEMMA GrewFree ==
  ASSUME NEW s, Sound(s), NEW u, Grew(s, u), NEW p \in Pages
  PROVE  Free(s, p) <=> Free(u, p)
<1>1. /\ InPool(u, "mem", p) <=> InPool(s, "mem", p)
      /\ InPool(u, "conv", p) => InPool(s, "conv", p)
      /\ InPool(s, "conv", p) => InPool(u, "conv", p) \/ InPool(u, "alloc", p)
      /\ InPool(s, "alloc", p) => InPool(u, "alloc", p)
      /\ InPool(u, "alloc", p) => InPool(s, "alloc", p) \/ InPool(s, "conv", p)
  BY GrewPages
<1> QED BY <1>1 DEF Free, Names

-----------------------------------------------------------------------------
(* A structure for a region.                                               *)

\* The program hangs.  What was allocated is still there.
Lost(s) == DOMAIN s = {"conv", "mem", "alloc", "free", "ok"} /\ s.ok = FALSE

Same(s, u) == u.conv = s.conv /\ u.mem = s.mem /\ u.alloc = s.alloc

LEMMA LostGrow ==
  ASSUME NEW s, Lost(s), NEW u, u = Grow(s)
  PROVE  Lost(u) /\ u.alloc = s.alloc
<1>1. PICK i : i = FirstFit(s.conv, Page, Sigma0Id)
  OBVIOUS
<1>2. CASE i = 0
  BY <1>1, <1>2 DEF Grow, Lost
<1>3. CASE i # 0
  <2>1. PICK g : g = [s EXCEPT !.free = 1]
    OBVIOUS
  <2>2. Lost(g) /\ g.alloc = s.alloc
    BY <2>1 DEF Lost
  <2>3. PICK took : took = TakeStart(g, "conv", i, Page)
    OBVIOUS
  <2>4. Lost(took) /\ took.alloc = s.alloc
    BY <2>2, <2>3 DEF TakeStart, Lost
  <2>5. PICK h : h = [took EXCEPT !.free = took.free - 1]
    OBVIOUS
  <2>6. Lost(h) /\ h.alloc = s.alloc
    BY <2>4, <2>5 DEF Lost
  <2>7. PICK own : own = insert(h, "alloc",
                     region(s.conv[i].low, s.conv[i].low + Page - 1, Sigma0Id))
    OBVIOUS
  <2>8. own = h
    <3>1. ~h.ok
      BY <2>6 DEF Lost
    <3> QED BY <2>7, <3>1, InsertNot
  <2>9. u = [own EXCEPT !.free = IF own.free = 0 THEN add(s.conv[i].low) - 1
                                 ELSE add(s.conv[i].low)]
    BY <1>1, <1>3, <2>1, <2>3, <2>5, <2>7 DEF Grow
  <2> QED BY <2>6, <2>8, <2>9 DEF Lost
<1> QED BY <1>2, <1>3

LEMMA LostNew ==
  ASSUME NEW s, Lost(s), NEW u, u = New(s)
  PROVE  Lost(u) /\ u.alloc = s.alloc
<1>1. PICK g : g = IF s.free = 0 THEN Grow(s) ELSE s
  OBVIOUS
<1>2. Lost(g) /\ g.alloc = s.alloc
  BY <1>1, LostGrow
<1>3. u = g
  BY <1>1, <1>2 DEF New, Pop, Lost
<1> QED BY <1>2, <1>3

LEMMA LostInsert ==
  ASSUME NEW s, Lost(s), NEW pool, NEW r, NEW u, u = insertNew(s, pool, r)
  PROVE  Lost(u) /\ u.alloc = s.alloc
<1>1. PICK g : g = New(s)
  OBVIOUS
<1>2. Lost(g) /\ g.alloc = s.alloc
  BY <1>1, LostNew
<1>3. ~g.ok
  BY <1>2 DEF Lost
<1>4. u = g
  BY <1>1, <1>3, InsertNot DEF insertNew
<1> QED BY <1>2, <1>4

LEMMA LostStays ==
  ASSUME NEW s, s \in PoolSet, NEW u, u = [s EXCEPT !.ok = FALSE]
  PROVE  Lost(u) /\ u.alloc = s.alloc
  BY DEF PoolSet, Lost

\* With the structure for a new region.
Ready(s, u) == Sound(u) /\ u.ok /\ (Same(s, u) \/ Grew(s, u))

LEMMA NewFacts ==
  ASSUME NEW s, Sound(s), s.ok, NEW u, u = New(s)
  PROVE  (Lost(u) /\ u.alloc = s.alloc) \/ Ready(s, u)
<1>1. s \in PoolSet
  BY DEF Sound
<1>2. ASSUME NEW g, Sound(g), g.ok, u = Pop(g)
      PROVE  Sound(u) /\ u.ok /\ Same(g, u)
  <2>1. PICK f \in Int : f = g.free - 1
    BY <1>2 DEF Sound, PoolSet
  <2>2. u = [g EXCEPT !.free = f]
    BY <1>2, <2>1 DEF Pop
  <2>3. Sound(u) /\ u.ok = g.ok /\ u.conv = g.conv /\ u.mem = g.mem /\ u.alloc = g.alloc
    BY ONLY Sound(g), f \in Int, <2>2, FreeFacts
  <2> QED BY <1>2, <2>3 DEF Same
<1>3. CASE s.free # 0
  <2>1. u = Pop(s)
    BY <1>3 DEF New
  <2> QED BY <1>2, <2>1 DEF Ready
<1>4. CASE s.free = 0
  <2>1. PICK g : g = Grow(s)
    OBVIOUS
  <2>2. u = Pop(g)
    BY <1>4, <2>1 DEF New
  <2>3. g = [s EXCEPT !.ok = FALSE] \/ (Sound(g) /\ g.ok /\ Grew(s, g))
    BY <2>1, GrowFacts
  <2>4. CASE g = [s EXCEPT !.ok = FALSE]
    <3>1. Lost(g) /\ g.alloc = s.alloc
      BY <1>1, <2>4, LostStays
    <3>2. u = g
      BY <2>2, <3>1 DEF Pop, Lost
    <3> QED BY <3>1, <3>2
  <2>5. CASE Sound(g) /\ g.ok /\ Grew(s, g)
    <3>1. Sound(u) /\ u.ok /\ Same(g, u)
      BY <1>2, <2>2, <2>5
    <3>2. Grew(s, u)
      BY <2>5, <3>1 DEF Grew, Same
    <3> QED BY <3>1, <3>2 DEF Ready
  <2> QED BY <2>3, <2>4, <2>5
<1> QED BY <1>3, <1>4

LEMMA ReadyFacts ==
  ASSUME NEW s, Sound(s), NEW u, Ready(s, u)
  PROVE  /\ Sound(u) /\ u.ok /\ Kept(s, u)
         /\ Tidy(Spans, s.conv) => Tidy(Spans, u.conv)
         /\ \A p \in Pages : Free(s, p) <=> Free(u, p)
         /\ \A p \in Pages : InPool(u, "conv", p) => InPool(s, "conv", p)
         /\ \A H \in Homes : \A X : Fits(s, H, X) => Fits(u, H, X)
<1>1. CASE Same(s, u)
  <2>1. \A pool \in Names : \A p : InPool(u, pool, p) <=> InPool(s, pool, p)
    BY <1>1 DEF Same, InPool, Names
  <2>2. \A H \in Homes : \A X : Fits(s, H, X) => Fits(u, H, X)
    <3> SUFFICES ASSUME NEW H \in Homes, NEW X, Fits(s, H, X), NEW p \in Pages \ X
                 PROVE  /\ H[p] = "none" => \A pool \in Names : ~InPool(u, pool, p)
                        /\ H[p] # "none" => InPool(u, "alloc", p) \/ InPool(u, H[p], p)
      BY DEF Fits
    <3>1. /\ H[p] = "none" => \A pool \in Names : ~InPool(s, pool, p)
          /\ H[p] # "none" => InPool(s, "alloc", p) \/ InPool(s, H[p], p)
      BY DEF Fits
    <3>2. H[p] \in Names \cup {"none"}
      BY DEF Homes
    <3> QED BY <2>1, <3>1, <3>2 DEF Names
  <2>3. Kept(s, u)
    BY <1>1 DEF Same, Kept
  <2>4. \A p \in Pages : Free(s, p) <=> Free(u, p)
    BY <2>1 DEF Free
  <2>5. \A p \in Pages : InPool(u, "conv", p) => InPool(s, "conv", p)
    BY <2>1 DEF Names
  <2> QED BY <1>1, <2>2, <2>3, <2>4, <2>5 DEF Same, Ready
<1>2. CASE Grew(s, u)
  <2>1. Tidy(Spans, s.conv) => Tidy(Spans, u.conv)
    BY <1>2 DEF Grew
  <2>2. \A p \in Pages : Free(s, p) <=> Free(u, p)
    BY <1>2, GrewFree
  <2>3. \A p \in Pages : InPool(u, "conv", p) => InPool(s, "conv", p)
    BY <1>2, GrewPages
  <2>4. \A H \in Homes : \A X : Fits(s, H, X) => Fits(u, H, X)
    BY <1>2, GrewFits
  <2>5. Kept(s, u)
    BY <1>2, GrewKept
  <2> QED BY <2>1, <2>2, <2>3, <2>4, <2>5 DEF Ready
<1> QED BY <1>1, <1>2 DEF Ready

-----------------------------------------------------------------------------
(* A block is taken out of a pool: region_t::allocate.                     *)

Between(a, b) == {p \in Pages : a <= p /\ p <= b}
HoldsAll(list, a, b) == \A p \in Pages : a <= p /\ p <= b => In(list, p)
FitsBut(s, u, Y) == \A H \in Homes : \A X : Fits(s, H, X) => Fits(u, H, X \cup Y)

\* List t holds nothing that the other did not, whoever's it is.
Within(list, t) == \A p \in Pages : \A o : Has(t, p, o) => Has(list, p, o)
\* Pages that are free keep their owners, and those of os alone get pages.
Tracks(s, u, os) ==
  /\ Within(s.conv, u.conv) /\ Within(s.mem, u.mem)
  /\ \A p \in Pages : \A o : Has(u.alloc, p, o) => Has(s.alloc, p, o) \/ o \in os
Cleared(s, u, a, b) ==
  /\ Sound(u) /\ u.ok /\ Kept(s, u) /\ Unheld(u, a, b) /\ FitsBut(s, u, Between(a, b))
  /\ Tracks(s, u, {Sigma0Id})

LEMMA PartsWithin ==
  ASSUME NEW list, NEW r \in Members(list), NEW E, NEW a, NEW b, Splits(r, E, a, b),
         \A e \in E : e.owner = r.owner,
         NEW t, Members(t) = (Members(list) \ {r}) \cup E
  PROVE  Within(list, t)
<1> SUFFICES ASSUME NEW p \in Pages, NEW o, Has(t, p, o) PROVE Has(list, p, o)
  BY DEF Within
<1>1. PICK x \in Members(t) : x.owner = o /\ x.low <= p /\ p <= x.high
  BY DEF Has
<1>2. CASE x \in E
  <2>1. r.low <= p /\ p <= r.high
    BY <1>1, <1>2, PageNumbers DEF Splits
  <2> QED BY <1>1, <1>2, <2>1 DEF Has
<1>3. CASE x \in Members(list)
  BY <1>1, <1>3 DEF Has
<1> QED BY <1>2, <1>3

LEMMA TracksAgain ==
  ASSUME NEW s, NEW g, NEW u, NEW ws, NEW os, os \subseteq ws, Tracks(s, g, os), Tracks(g, u, ws)
  PROVE  Tracks(s, u, ws)
  BY DEF Tracks, Within

LEMMA ReadyTracks ==
  ASSUME NEW s, Sound(s), NEW u, Ready(s, u)
  PROVE  Tracks(s, u, {Sigma0Id})
<1>1. CASE Same(s, u)
  BY <1>1 DEF Same, Tracks, Within
<1>2. CASE Grew(s, u)
  <2>1. PICK x \in Members(s.conv) :
          /\ x.low + Page - 1 <= x.high
          /\ Members(u.conv) = (Members(s.conv) \ {x}) \cup Rest(x, Page)
          /\ u.mem = s.mem
          /\ With(s.alloc, u.alloc, region(x.low, x.low + Page - 1, Sigma0Id))
    BY <1>2 DEF Grew
  <2>2. x \in Slack
    <3>1. Tidy(Slack, s.conv) /\ Slack \subseteq Slack
      BY DEF Sound
    <3>2. Members(s.conv) \subseteq Slack
      BY ONLY <3>1, TidyMembers
    <3> QED BY <3>2
  <2>3. Page \in Nat \ {0} /\ Page % Page = 0
    BY Numbers
  <2>4. PICK a : a = x.low
    OBVIOUS
  <2>5. PICK b : b = x.low + Page - 1
    OBVIOUS
  <2>6. Splits(x, Rest(x, Page), a, b)
    <3>1. Splits(x, Rest(x, Page), x.low, x.low + Page - 1)
      BY ONLY <2>1, <2>2, <2>3, RestSplits
    <3> QED BY <2>4, <2>5, <3>1
  <2>7. \A e \in Rest(x, Page) : e.owner = x.owner
    BY DEF Rest, region
  <2>8. Within(s.conv, u.conv)
    <3>1. x \in Members(s.conv) /\ Members(u.conv) = (Members(s.conv) \ {x}) \cup Rest(x, Page)
      BY <2>1
    <3> QED BY ONLY <2>6, <2>7, <3>1, PartsWithin
  <2>9. Within(s.mem, u.mem)
    BY <2>1 DEF Within
  <2>10. \A p \in Pages : \A o : Has(u.alloc, p, o) => Has(s.alloc, p, o) \/ o \in {Sigma0Id}
    BY <2>1, PageNumbers DEF With, region
  <2> QED BY <2>8, <2>9, <2>10 DEF Tracks
<1> QED BY <1>1, <1>2 DEF Ready

LEMMA ShrunkCleared ==
  ASSUME NEW s, Sound(s), s.ok, NEW pool \in {"conv", "mem"},
         NEW t \in Seq(Slack), Tidy(Kind(pool), t), NEW a, NEW b,
         Loses(s[pool], t, a, b), HoldsAll(s[pool], a, b), Within(s[pool], t), NEW f \in Int,
         NEW u, u = Update(s, pool, t, f)
  PROVE  Cleared(s, u, a, b)
<1>1. pool \in Names
  BY DEF Names
<1>2. Sound(u) /\ u.ok
  <2>1. Sound(u) /\ (s.ok => u.ok)
    BY ONLY Sound(s), t \in Seq(Slack), Tidy(Kind(pool), t), Loses(s[pool], t, a, b),
            f \in Int, u = Update(s, pool, t, f), <1>1, ShrinkFacts
  <2> QED BY <2>1
<1>3. s \in PoolSet
  BY DEF Sound
<1>4. u[pool] = t /\ \A q \in Names : q # pool => u[q] = s[q]
  BY <1>1, <1>3 DEF PoolSet, Names, Update
<1>5. Unheld(u, a, b)
  <2>1. Loses(s[pool], u[pool], a, b)
    BY <1>4
  <2>2. \A p \in Pages : a <= p /\ p <= b => In(s[pool], p)
    BY DEF HoldsAll
  <2>3. \A q \in Names : q # pool => u[q] = s[q]
    BY <1>4
  <2> QED BY ONLY Sound(s), <1>1, <2>1, <2>2, <2>3, ShrinkUnheld
<1>6. Kept(s, u)
  <2>1. u["alloc"] = s["alloc"]
    BY <1>4 DEF Names
  <2> QED BY <2>1 DEF Kept
<1>7. \A p \in Pages : ~(a <= p /\ p <= b) =>
        \A q \in Names : InPool(u, q, p) <=> InPool(s, q, p)
  BY <1>4 DEF InPool, Loses
<1>8. FitsBut(s, u, Between(a, b))
  <2> SUFFICES ASSUME NEW H \in Homes, NEW X, Fits(s, H, X),
                      NEW p \in Pages \ (X \cup Between(a, b))
               PROVE  /\ H[p] = "none" => \A q \in Names : ~InPool(u, q, p)
                      /\ H[p] # "none" => InPool(u, "alloc", p) \/ InPool(u, H[p], p)
    BY DEF Fits, FitsBut
  <2>1. p \in Pages /\ p \notin X /\ ~(a <= p /\ p <= b)
    BY DEF Between
  <2>2. /\ H[p] = "none" => \A q \in Names : ~InPool(s, q, p)
        /\ H[p] # "none" => InPool(s, "alloc", p) \/ InPool(s, H[p], p)
    BY <2>1 DEF Fits
  <2>3. H[p] \in Names \cup {"none"} /\ "alloc" \in Names
    BY DEF Homes, Names
  <2>4. \A q \in Names : InPool(u, q, p) <=> InPool(s, q, p)
    BY <1>7, <2>1
  <2> QED BY <2>2, <2>3, <2>4
<1>9. Tracks(s, u, {Sigma0Id})
  <2>1. \A q \in Names : Within(s[q], u[q])
    BY <1>1, <1>4 DEF Within
  <2>2. u["alloc"] = s["alloc"]
    BY <1>4 DEF Names
  <2> QED BY <2>1, <2>2 DEF Tracks, Names
<1> QED BY <1>2, <1>5, <1>6, <1>8, <1>9 DEF Cleared

LEMMA FitsAgain ==
  ASSUME NEW s, NEW g, NEW u, NEW Y, FitsBut(s, g, {}), FitsBut(g, u, Y)
  PROVE  FitsBut(s, u, Y)
<1> SUFFICES ASSUME NEW H \in Homes, NEW X, Fits(s, H, X)
             PROVE  Fits(u, H, X \cup Y)
  BY DEF FitsBut
<1>1. Fits(g, H, X \cup {})
  BY DEF FitsBut
<1>2. X \cup {} = X
  OBVIOUS
<1>3. Fits(g, H, X)
  BY <1>1, <1>2
<1> QED BY <1>3 DEF FitsBut

LEMMA ReadyFits ==
  ASSUME NEW s, Sound(s), NEW g, Ready(s, g)
  PROVE  FitsBut(s, g, {})
<1>1. \A H \in Homes : \A X : Fits(s, H, X) => Fits(g, H, X)
  BY ReadyFacts
<1>2. \A X : X \cup {} = X
  OBVIOUS
<1> QED BY <1>1, <1>2 DEF FitsBut

LEMMA KeptAgain ==
  ASSUME NEW s, NEW g, NEW u, Kept(s, g), Kept(g, u)
  PROVE  Kept(s, u)
  BY DEF Kept

Swap(T, list, i, w, e, t) ==
  /\ T \subseteq Slack /\ Tidy(T, list) /\ i \in DOMAIN list /\ w = list[i]
  /\ e \in T /\ ClearBut(list, w, e) /\ t = ReplaceAt(list, i, e)

LEMMA SwapFacts ==
  ASSUME NEW T, NEW list, NEW i, NEW w, NEW e, NEW t, Swap(T, list, i, w, e, t)
  PROVE  Tidy(T, t) /\ Members(t) = (Members(list) \ {w}) \cup {e}
<1>1. /\ T \subseteq Slack /\ Tidy(T, list) /\ i \in DOMAIN list /\ w = list[i]
      /\ e \in T /\ ClearBut(list, w, e) /\ t = ReplaceAt(list, i, e)
  BY DEF Swap
<1> QED BY ONLY <1>1, TidyReplace

-----------------------------------------------------------------------------
\* The block is at the end of the region.
LEMMA EndTaken ==
  ASSUME NEW s, Sound(s), s.ok, NEW pool \in {"conv", "mem"},
         NEW i \in DOMAIN s[pool], NEW r, r = s[pool][i],
         NEW size, Block(size), NEW addr \in Nat, addr % Page = 0,
         r.low < addr, addr + size - 1 = r.high,
         NEW u, u = [s EXCEPT ![pool][i].high = @ - size]
  PROVE  Cleared(s, u, addr, addr + size - 1)
<1>1. PICK list : list = s[pool]
  OBVIOUS
<1>2. /\ pool \in Names /\ Tidy(Kind(pool), list) /\ Kind(pool) \subseteq Slack
      /\ Spans \subseteq Kind(pool) /\ i \in DOMAIN list /\ r = list[i]
  BY <1>1, SoundKinds DEF Names
<1>3. /\ Members(list) \subseteq Kind(pool) /\ r \in Members(list) /\ r \in Slack
      /\ \A x, y \in Members(list) : x # y => Apart(x, y)
  <2>1. /\ Members(list) \subseteq Kind(pool) /\ \A k \in DOMAIN list : list[k] \in Members(list)
        /\ \A x, y \in Members(list) : x # y => Apart(x, y)
    BY ONLY <1>2, TidyMembers
  <2> QED BY <1>2, <2>1
<1>4. /\ r.low \in Nat /\ r.high \in Nat /\ r.high <= Top /\ Top \in Nat /\ r.owner \in Owners
      /\ r = region(r.low, r.high, r.owner) /\ size \in Nat \ {0} /\ r.low % Page = 0
  BY <1>3, SlackFacts, Numbers DEF Block
<1>5. PICK b \in Nat : b = addr + size - 1
  BY <1>4
<1>6. PICK h \in Nat : h = addr - 1
  BY <1>4
<1>7. PICK e : e = region(r.low, h, r.owner)
  OBVIOUS
<1>8. e \in Spans /\ e.low = r.low /\ e.high = h /\ e.owner = r.owner
  <2>1. r.low \in 0 .. Top /\ h \in 0 .. Top /\ r.low <= h + 1 /\ r.low <= h
    BY <1>4, <1>6
  <2>2. (h + 1) % Page = 0
    BY <1>6
  <2> QED BY ONLY <1>4, <1>7, <2>1, <2>2, SlackRegion
<1>9. PICK t : t = ReplaceAt(list, i, e)
  OBVIOUS
<1>10. ClearBut(list, r, e)
  <2> SUFFICES ASSUME NEW y \in Members(list) \ {r} PROVE Apart(y, e)
    BY DEF ClearBut
  <2>1. Apart(y, r) /\ y \in Slack
    BY <1>2, <1>3
  <2>2. y.high \in Nat /\ Base(y) \in Nat /\ Base(e) = e.low /\ Base(r) = r.low
    BY <1>3, <1>4, <1>8, <2>1, SlackFacts, SpansFacts
  <2> QED BY <1>4, <1>6, <1>8, <2>1, <2>2 DEF Apart
<1>11. Tidy(Kind(pool), t) /\ Members(t) = (Members(list) \ {r}) \cup {e}
  <2>1. e \in Kind(pool)
    BY <1>2, <1>8
  <2>2. Swap(Kind(pool), list, i, r, e, t)
    BY <1>2, <1>9, <1>10, <2>1 DEF Swap
  <2> QED BY ONLY <2>2, SwapFacts
<1>12. t \in Seq(Slack)
  <2>1. t \in Seq(Kind(pool))
    BY <1>11 DEF Tidy
  <2> QED BY <1>2, <2>1, SeqMonotonic
<1>13. u = Update(s, pool, t, s.free)
  <2>1. s \in PoolSet
    BY DEF Sound
  <2>2. [r EXCEPT !.high = r.high - size] = e
    BY <1>4, <1>6, <1>7 DEF region
  <2>3. t = [list EXCEPT ![i] = e]
    BY <1>9 DEF ReplaceAt
  <2>4. u = [s EXCEPT ![pool] = [list EXCEPT ![i] = [r EXCEPT !.high = r.high - size]]]
    BY <1>1, <1>2
  <2>5. [s EXCEPT ![pool] = t] = [s EXCEPT ![pool] = t, !.free = s.free]
    BY <2>1, <1>2 DEF PoolSet, Names
  <2> QED BY <2>2, <2>3, <2>4, <2>5 DEF Update
<1>13a. Splits(r, {e}, addr, b)
  BY <1>4, <1>5, <1>6, <1>8 DEF Splits
<1>13b. Within(s[pool], t)
  <2>1. r \in Members(list) /\ Members(t) = (Members(list) \ {r}) \cup {e}
        /\ \A x \in {e} : x.owner = r.owner
    BY <1>3, <1>8, <1>11
  <2>2. Within(list, t)
    BY ONLY <1>13a, <2>1, PartsWithin
  <2> QED BY <1>1, <2>2
<1>14. Loses(s[pool], t, addr, b)
  <2> SUFFICES ASSUME NEW p \in Pages
               PROVE  In(t, p) <=> In(list, p) /\ ~(addr <= p /\ p <= b)
    BY <1>1 DEF Loses
  <2>1. p \in Nat
    BY PageNumbers
  <2>2. Splits(r, {e}, addr, b)
    BY <1>13a
  <2>3. Tidy(Slack, list)
    BY <1>2, KindSlack
  <2>4. r.low <= addr /\ b <= r.high
    BY <1>4, <1>5
  <2>5. Members(t) = (Members(list) \ {r}) \cup {e} /\ r \in Members(list)
    BY <1>3, <1>11
  <2> QED BY ONLY <1>5, <2>1, <2>2, <2>3, <2>4, <2>5, addr \in Nat, CutOut
<1>15. HoldsAll(s[pool], addr, b)
  <2>1. r \in Members(list) /\ r.low \in Nat /\ r.high \in Nat /\ r.low <= addr /\ b <= r.high
    BY <1>3, <1>4, <1>5
  <2>2. \A p \in Pages : addr <= p /\ p <= b => In(list, p)
    BY ONLY <2>1, <1>5, addr \in Nat, BlockIn
  <2> QED BY <1>1, <2>2 DEF HoldsAll
<1>16. PICK f \in Int : f = s.free
  BY DEF Sound, PoolSet
<1>17. Cleared(s, u, addr, b)
  <2>1. u = Update(s, pool, t, f) /\ Tidy(Kind(pool), t)
    BY <1>11, <1>13, <1>16
  <2> QED BY ONLY Sound(s), s.ok, pool \in {"conv", "mem"}, <1>12, <1>14, <1>15, <1>13b, f \in Int,
                  <2>1, ShrunkCleared
<1> QED BY <1>5, <1>17

-----------------------------------------------------------------------------
(* The block is in the middle of a region: the list may grow meanwhile.    *)

\* What has become of r: a page may have gone from its start.
Survives(list, r, q, addr) ==
  /\ q \in Members(list) /\ q.high = r.high /\ q.owner = r.owner
  /\ r.low <= q.low /\ q.low <= addr /\ q.low <= q.high
  /\ \A y \in Members(list) \ {q} : Apart(y, r)

LEMMA SurvivesGrowth ==
  ASSUME NEW s, Sound(s), NEW g, Sound(g), Grew(s, g), NEW r \in Members(s.conv),
         NEW addr \in Nat, addr % Page = 0, r.low < addr, addr <= r.high
  PROVE  \E q : Survives(g.conv, r, q, addr)
<1>1. PICK x \in Members(s.conv) :
        /\ x.low + Page - 1 <= x.high
        /\ Members(g.conv) = (Members(s.conv) \ {x}) \cup Rest(x, Page)
  BY DEF Grew
<1>2. /\ Members(s.conv) \subseteq Slack
      /\ \A y, z \in Members(s.conv) : y # z => Apart(y, z)
  <2>1. Tidy(Slack, s.conv) /\ Slack \subseteq Slack
    BY DEF Sound
  <2> QED BY ONLY <2>1, TidyMembers
<1>3. /\ r \in Slack /\ x \in Slack /\ Page \in Nat \ {0} /\ Page % Page = 0
      /\ r.low \in Nat /\ r.high \in Nat /\ r.low % Page = 0
      /\ x.low \in Nat /\ x.high \in Nat
  BY <1>2, SlackFacts, Numbers
<1>4. CASE r = x
  <2>1. r.low + Page <= addr
    <3>1. r.low \in Int /\ addr \in Int
      BY <1>3
    <3> QED BY ONLY <1>3, <3>1, MultiplesApart, addr % Page = 0, r.low < addr
  <2>2. PICK q : q = region(r.low + Page, r.high, r.owner)
    OBVIOUS
  <2>3. q.low = r.low + Page /\ q.high = r.high /\ q.owner = r.owner
    BY <2>2 DEF region
  <2>4. Rest(x, Page) = {q}
    BY <1>3, <1>4, <2>1, <2>2 DEF Rest
  <2>5. q \in Members(g.conv)
    BY <1>1, <2>4
  <2>6. ASSUME NEW y \in Members(g.conv) \ {q} PROVE Apart(y, r)
    BY <1>1, <1>2, <1>4, <2>4
  <2>7. Survives(g.conv, r, q, addr)
    BY <1>3, <2>1, <2>3, <2>5, <2>6 DEF Survives
  <2> QED BY <2>7
<1>5. CASE r # x
  <2>1. r \in Members(g.conv)
    BY <1>1, <1>5
  <2>2. ASSUME NEW y \in Members(g.conv) \ {r} PROVE Apart(y, r)
    <3>1. CASE y \in Members(s.conv)
      BY <1>2, <2>2, <3>1
    <3>2. CASE y \in Rest(x, Page)
      <4>1. Apart(r, x)
        BY <1>2, <1>5
      <4>2. Apart(r, y) \/ ~(r \in Slack)
        BY ONLY <1>1, <1>3, <3>2, <4>1, RestFacts
      <4> QED BY <1>3, <4>2, ApartSym
    <3> QED BY <1>1, <2>2, <3>1, <3>2
  <2>3. Survives(g.conv, r, r, addr)
    BY <1>3, <2>1, <2>2 DEF Survives
  <2> QED BY <2>3
<1> QED BY <1>4, <1>5

LEMMA SurvivesNew ==
  ASSUME NEW s, Sound(s), NEW g, Ready(s, g), NEW pool \in {"conv", "mem"},
         NEW r \in Members(s[pool]),
         NEW addr \in Nat, addr % Page = 0, r.low < addr, addr <= r.high
  PROVE  \E q : Survives(g[pool], r, q, addr) /\ (pool = "mem" => q.low = r.low)
<1>1. ASSUME g[pool] = s[pool]
      PROVE  \E q : Survives(g[pool], r, q, addr) /\ (pool = "mem" => q.low = r.low)
  <2>1. pool \in Names /\ Tidy(Kind(pool), s[pool]) /\ Kind(pool) \subseteq Slack
    BY SoundKinds DEF Names
  <2>2. Members(s[pool]) \subseteq Kind(pool)
        /\ \A x, y \in Members(s[pool]) : x # y => Apart(x, y)
    BY ONLY <2>1, TidyMembers
  <2>3. r.low \in Nat /\ r.high \in Nat
    BY <2>1, <2>2, SlackFacts
  <2>4. Survives(g[pool], r, r, addr)
    BY <1>1, <2>2, <2>3 DEF Survives
  <2> QED BY <2>4
<1>2. CASE Same(s, g)
  <2>1. g[pool] = s[pool]
    BY <1>2 DEF Same
  <2> QED BY <1>1, <2>1
<1>3. CASE Grew(s, g) /\ pool = "mem"
  <2>1. g[pool] = s[pool]
    BY <1>3 DEF Grew
  <2> QED BY <1>1, <2>1
<1>4. CASE Grew(s, g) /\ pool = "conv"
  <2>1. r \in Members(s.conv) /\ g[pool] = g.conv /\ Sound(g) /\ pool # "mem" /\ Grew(s, g)
    BY <1>4 DEF Ready
  <2>2. \E q : Survives(g.conv, r, q, addr)
    BY ONLY <2>1, Sound(s), addr \in Nat, addr % Page = 0, r.low < addr, addr <= r.high,
            SurvivesGrowth
  <2> QED BY <2>1, <2>2
<1> QED BY <1>2, <1>3, <1>4 DEF Ready

Adds(T, list, i, e, t) ==
  /\ T \subseteq Slack /\ Tidy(T, list) /\ i \in 1..Len(list) + 1
  /\ e \in T /\ ClearOf(list, e) /\ t = InsertAt(list, i, e)

LEMMA AddsFacts ==
  ASSUME NEW T, NEW list, NEW i, NEW e, NEW t, Adds(T, list, i, e, t)
  PROVE  Tidy(T, t) /\ Members(t) = Members(list) \cup {e}
<1>1. /\ T \subseteq Slack /\ Tidy(T, list) /\ i \in 1..Len(list) + 1
      /\ e \in T /\ ClearOf(list, e) /\ t = InsertAt(list, i, e)
  BY DEF Adds
<1>2. Tidy(T, t) /\ Gains(list, t, e)
  BY ONLY <1>1, TidyInsert
<1> QED BY <1>2 DEF Gains

\* A region is replaced by the two parts around the block.
LEMMA PartsTidy ==
  ASSUME NEW T, Spans \subseteq T, T \subseteq Slack, NEW list, Tidy(T, list),
         NEW r \in Slack, NEW addr \in Nat, addr % Page = 0, r.low < addr,
         NEW size \in Nat \ {0}, size % Page = 0, addr + size - 1 < r.high,
         NEW q, Survives(list, r, q, addr), T # Slack => q.low = r.low,
         NEW j \in DOMAIN list, q = list[j],
         NEW t, t = InsertAt(ReplaceAt(list, j, [q EXCEPT !.high = addr - 1]), j + 1,
                             region(addr + size, r.high, q.owner))
  PROVE  /\ Tidy(T, t) /\ t \in Seq(Slack)
         /\ Loses(list, t, addr, addr + size - 1) /\ HoldsAll(list, addr, addr + size - 1)
         /\ Within(list, t)
<1>1. /\ Members(list) \subseteq T /\ \A x, y \in Members(list) : x # y => Apart(x, y)
      /\ Len(list) \in Nat /\ DOMAIN list = 1..Len(list)
  <2>1. T \subseteq Slack /\ Tidy(T, list)
    OBVIOUS
  <2> QED BY ONLY <2>1, TidyMembers
<1>2. /\ q \in Members(list) /\ q.high = r.high /\ q.owner = r.owner
      /\ r.low <= q.low /\ q.low <= addr /\ q.low <= q.high /\ q \in Slack
      /\ \A y \in Members(list) \ {q} : Apart(y, r)
  BY <1>1 DEF Survives
<1>3. /\ r.low \in Nat /\ r.high \in Nat /\ r.high <= Top /\ Top \in Nat /\ q.owner \in Owners
      /\ q.low \in Nat /\ q.low % Page = 0 /\ (r.high + 1) % Page = 0 /\ Page \in Nat \ {0}
      /\ q = region(q.low, q.high, q.owner) /\ Base(r) = r.low
  BY <1>2, SlackFacts, Numbers
<1>4. PICK h \in Nat : h = addr - 1
  BY <1>3
<1>5. PICK b \in Nat : b = addr + size - 1
  OBVIOUS
<1>6. PICK m \in Nat : m = addr + size
  OBVIOUS
<1>7. PICK e : e = region(q.low, h, q.owner)
  OBVIOUS
<1>8. PICK w : w = region(m, r.high, q.owner)
  OBVIOUS
<1>9. e \in T /\ e \in Slack /\ e.low = q.low /\ e.high = h /\ e.owner = q.owner
  <2>1. q.low \in 0 .. Top /\ h \in 0 .. Top /\ q.low <= h + 1 /\ (h + 1) % Page = 0
    BY <1>2, <1>3, <1>4
  <2>2. e \in Slack /\ e.low = q.low /\ e.high = h /\ e.owner = q.owner
        /\ (q.low <= h => e \in Spans)
    BY ONLY <1>3, <1>7, <2>1, SlackRegion
  <2>3. T # Slack => q.low <= h
    BY <1>3, <1>4
  <2> QED BY <2>2, <2>3
<1>10. w \in Spans /\ w.low = m /\ w.high = r.high /\ w.owner = q.owner
  <2>1. m \in 0 .. Top /\ r.high \in 0 .. Top /\ m <= r.high + 1 /\ m <= r.high
    BY <1>3, <1>6
  <2>2. m % Page = 0
    <3>1. addr \in Int /\ size \in Int
      OBVIOUS
    <3>2. (addr + size) % Page = 0
      BY ONLY <1>3, <3>1, MultiplesSum, addr % Page = 0, size % Page = 0
    <3> QED BY <1>6, <3>2
  <2> QED BY ONLY <1>3, <1>8, <2>1, <2>2, SlackRegion
<1>11. PICK t1 : t1 = ReplaceAt(list, j, e)
  OBVIOUS
<1>12. \A y \in Members(list) \ {q} : Apart(y, e) /\ Apart(y, w)
  <2> SUFFICES ASSUME NEW y \in Members(list) \ {q} PROVE Apart(y, e) /\ Apart(y, w)
    OBVIOUS
  <2>1. Apart(y, r) /\ y \in Slack
    BY <1>1, <1>2
  <2>2. y.high \in Nat /\ Base(y) \in Nat
    BY <2>1, SlackFacts
  <2>3. Base(e) = IF q.low <= h THEN q.low ELSE h
    BY <1>9 DEF Base
  <2>4. Base(w) = m
    BY <1>10, SpansFacts
  <2>5. y.high < r.low \/ r.high < Base(y)
    BY <1>3, <2>1 DEF Apart
  <2>6. r.low <= h
    BY <1>3, <1>4
  <2>7. Apart(y, e)
    BY ONLY <1>2, <1>3, <1>4, <1>9, <2>2, <2>3, <2>5, <2>6, r.low < addr, addr \in Nat,
            addr + size - 1 < r.high, size \in Nat \ {0} DEF Apart
  <2>8. Apart(y, w)
    BY ONLY <1>3, <1>6, <1>10, <2>2, <2>4, <2>5, r.low < addr, addr \in Nat,
            addr + size - 1 < r.high, size \in Nat \ {0} DEF Apart
  <2> QED BY <2>7, <2>8
<1>13. Tidy(T, t1) /\ Members(t1) = (Members(list) \ {q}) \cup {e}
  <2>1. ClearBut(list, q, e)
    BY <1>12 DEF ClearBut
  <2>2. Swap(T, list, j, q, e, t1)
    BY <1>9, <1>11, <2>1 DEF Swap
  <2> QED BY ONLY <2>2, SwapFacts
<1>14. Len(t1) = Len(list)
  BY <1>1, <1>11 DEF ReplaceAt, Tidy
<1>15. ClearOf(t1, w)
  <2>1. Apart(e, w)
    <3>1. Base(w) = m
      BY <1>10, SpansFacts
    <3> QED BY <1>4, <1>6, <1>9, <3>1 DEF Apart
  <2> QED BY <1>12, <1>13, <2>1 DEF ClearOf
<1>16. PICK k \in 1..Len(t1) + 1 : k = j + 1
  BY <1>1, <1>14
<1>17. t = InsertAt(t1, k, w)
  <2>1. [q EXCEPT !.high = addr - 1] = e
    <3>1. q = region(q.low, q.high, q.owner)
      BY <1>3
    <3> QED BY ONLY <3>1, <1>4, <1>7 DEF region
  <2> QED BY <1>6, <1>8, <1>11, <1>16, <2>1
<1>18. Tidy(T, t) /\ Members(t) = Members(t1) \cup {w}
  <2>1. w \in T /\ T \subseteq Slack /\ Tidy(T, t1)
    BY <1>10, <1>13
  <2>2. Adds(T, t1, k, w, t)
    BY <1>15, <1>16, <1>17, <2>1 DEF Adds
  <2> QED BY ONLY <2>2, AddsFacts
<1>19. t \in Seq(Slack)
  <2>1. t \in Seq(T)
    BY <1>18 DEF Tidy
  <2> QED BY <2>1, SeqMonotonic
<1>20. Splits(q, {e, w}, addr, b)
  <2> SUFFICES ASSUME NEW p \in Nat
               PROVE  (\E x \in {e, w} : x.low <= p /\ p <= x.high)
                        <=> q.low <= p /\ p <= q.high /\ ~(addr <= p /\ p <= b)
    BY DEF Splits
  <2>1. (\E x \in {e, w} : x.low <= p /\ p <= x.high)
          <=> (e.low <= p /\ p <= e.high) \/ (w.low <= p /\ p <= w.high)
    OBVIOUS
  <2>2. (q.low <= p /\ p <= h) \/ (m <= p /\ p <= r.high)
          <=> q.low <= p /\ p <= r.high /\ ~(addr <= p /\ p <= b)
    <3>1. /\ q.low \in Nat /\ r.high \in Nat /\ h = addr - 1 /\ m = b + 1 /\ addr <= b
          /\ b < r.high /\ q.low <= addr
      BY <1>2, <1>3, <1>4, <1>5, <1>6
    <3> QED BY ONLY <3>1, addr \in Nat, b \in Nat, h \in Nat, m \in Nat, p \in Nat
  <2> QED BY ONLY <1>2, <1>9, <1>10, <2>1, <2>2
<1>21. Tidy(Slack, list)
  <2>1. list \in Seq(T)
    BY DEF Tidy
  <2>2. list \in Seq(Slack)
    BY <2>1, SeqMonotonic
  <2> QED BY <2>2 DEF Tidy
<1>22. q.low <= addr /\ b <= q.high
  BY <1>2, <1>3, <1>5
<1>23. Members(t) = (Members(list) \ {q}) \cup {e, w}
  BY <1>13, <1>18
<1>24. Loses(list, t, addr, b)
  <2> SUFFICES ASSUME NEW p \in Pages
               PROVE  In(t, p) <=> In(list, p) /\ ~(addr <= p /\ p <= b)
    BY DEF Loses
  <2>1. p \in Nat /\ q \in Members(list)
    BY <1>2, PageNumbers
  <2> QED BY ONLY <1>5, <1>20, <1>21, <1>22, <1>23, <2>1, addr \in Nat, CutOut
<1>25. HoldsAll(list, addr, b)
  <2>1. q \in Members(list) /\ q.low \in Nat /\ q.high \in Nat
    BY <1>2, <1>3
  <2>2. \A p \in Pages : addr <= p /\ p <= b => In(list, p)
    BY ONLY <1>5, <1>22, <2>1, addr \in Nat, BlockIn
  <2> QED BY <2>2 DEF HoldsAll
<1>26. Within(list, t)
  <2>1. q \in Members(list) /\ \A x \in {e, w} : x.owner = q.owner
    BY <1>2, <1>9, <1>10
  <2> QED BY ONLY <1>20, <1>23, <2>1, PartsWithin
<1> QED BY <1>5, <1>18, <1>19, <1>24, <1>25, <1>26

Missed(s, u) == Lost(u) /\ u.alloc = s.alloc

\* A list has one region with an end.
LEMMA EndsDiffer ==
  ASSUME NEW list, Tidy(Slack, list), NEW j \in DOMAIN list, NEW k \in DOMAIN list,
         list[j].high = list[k].high
  PROVE  j = k
<1> SUFFICES ASSUME j # k PROVE FALSE
  OBVIOUS
<1>1. Apart(list[j], list[k])
  BY DEF Tidy
<1>2. list[j] \in Slack /\ list[k] \in Slack
  BY SeqFacts DEF Tidy
<1>3. /\ list[j].high \in Nat /\ Base(list[j]) \in Nat /\ Base(list[j]) <= list[j].high
      /\ list[k].high \in Nat /\ Base(list[k]) \in Nat /\ Base(list[k]) <= list[k].high
  BY <1>2, SlackFacts
<1> QED BY <1>1, <1>3 DEF Apart

LEMMA MiddleTaken ==
  ASSUME NEW s, Sound(s), s.ok, NEW pool \in {"conv", "mem"},
         NEW i \in DOMAIN s[pool], NEW r, r = s[pool][i],
         NEW size, Block(size), NEW addr \in Nat, addr % Page = 0,
         r.low < addr, addr + size - 1 < r.high,
         NEW u, u = TakeMiddle(s, pool, i, addr, size)
  PROVE  Missed(s, u) \/ Cleared(s, u, addr, addr + size - 1)
<1>1. PICK g : g = New(s)
  OBVIOUS
<1>2. Missed(s, g) \/ Ready(s, g)
  BY <1>1, NewFacts DEF Missed
<1>3. u = Split(g, pool, r.high, addr, size)
  BY <1>1 DEF TakeMiddle
<1>4. CASE Missed(s, g)
  <2>1. u = g
    BY <1>3, <1>4 DEF Split, Missed, Lost
  <2> QED BY <1>4, <2>1
<1>5. CASE Ready(s, g)
  <2>1. Sound(g) /\ g.ok /\ Kept(s, g)
    BY <1>5, ReadyFacts
  <2>2. /\ pool \in Names /\ Tidy(Kind(pool), s[pool]) /\ Tidy(Kind(pool), g[pool])
        /\ Kind(pool) \subseteq Slack /\ Spans \subseteq Kind(pool)
    BY <2>1, SoundKinds DEF Names
  <2>3. r \in Members(s[pool]) /\ r \in Slack
    <3>1. Members(s[pool]) \subseteq Kind(pool)
          /\ \A k \in DOMAIN s[pool] : s[pool][k] \in Members(s[pool])
      BY ONLY <2>2, TidyMembers
    <3> QED BY <2>2, <3>1
  <2>4. r.low \in Nat /\ r.high \in Nat /\ size \in Nat \ {0} /\ size % Page = 0
    BY <2>3, SlackFacts DEF Block
  <2>5. addr <= r.high
    BY <2>4
  <2>6. PICK q : Survives(g[pool], r, q, addr) /\ (pool = "mem" => q.low = r.low)
    BY ONLY <1>5, <2>3, <2>5, SurvivesNew, Sound(s), pool \in {"conv", "mem"},
            addr \in Nat, addr % Page = 0, r.low < addr
  <2>7. PICK j \in DOMAIN g[pool] : q = g[pool][j]
    BY <2>6 DEF Survives, Members
  <2>8. q.high = r.high
    BY <2>6 DEF Survives
  <2>9. Tidy(Slack, g[pool])
    BY <2>2, KindSlack
  <2>10. (CHOOSE k \in DOMAIN g[pool] : g[pool][k].high = r.high) = j
    <3>1. \A k \in DOMAIN g[pool] : g[pool][k].high = r.high => k = j
      BY <2>7, <2>8, <2>9, EndsDiffer
    <3> QED BY <2>7, <2>8, <3>1
  <2>11. PICK list : list = g[pool]
    OBVIOUS
  <2>12. PICK t : t = InsertAt(ReplaceAt(list, j, [q EXCEPT !.high = addr - 1]), j + 1,
                               region(addr + size, r.high, q.owner))
    OBVIOUS
  <2>13. u = [g EXCEPT ![pool] = t]
    BY <1>3, <2>1, <2>7, <2>10, <2>11, <2>12 DEF Split
  <2>14. g \in PoolSet
    BY <2>1 DEF Sound
  <2>15. PICK f \in Int : f = g.free
    BY <2>14 DEF PoolSet
  <2>16. u = Update(g, pool, t, f)
    BY <2>2, <2>13, <2>14, <2>15 DEF Update, PoolSet, Names
  <2>17. /\ Tidy(Kind(pool), t) /\ t \in Seq(Slack) /\ Within(list, t)
         /\ Loses(list, t, addr, addr + size - 1) /\ HoldsAll(list, addr, addr + size - 1)
    <3>1. PICK T : T = Kind(pool)
      OBVIOUS
    <3>2. Spans \subseteq T /\ T \subseteq Slack /\ Tidy(T, list)
      BY <2>2, <2>11, <3>1
    <3>3. Survives(list, r, q, addr) /\ j \in DOMAIN list /\ q = list[j]
          /\ (T # Slack => q.low = r.low)
      BY <2>6, <2>7, <2>11, <3>1 DEF Kind
    <3>4. /\ Tidy(T, t) /\ t \in Seq(Slack) /\ Within(list, t)
          /\ Loses(list, t, addr, addr + size - 1) /\ HoldsAll(list, addr, addr + size - 1)
      BY ONLY <2>3, <2>4, <2>12, <3>2, <3>3, addr \in Nat, addr % Page = 0, r.low < addr,
              addr + size - 1 < r.high, PartsTidy
    <3> QED BY <3>1, <3>4
  <2>18. PICK b : b = addr + size - 1
    OBVIOUS
  <2>19. Cleared(g, u, addr, b)
    <3>1. Loses(g[pool], t, addr, b) /\ HoldsAll(g[pool], addr, b) /\ Tidy(Kind(pool), t)
          /\ t \in Seq(Slack) /\ Within(g[pool], t)
      BY <2>11, <2>17, <2>18
    <3>2. Sound(g) /\ g.ok
      BY <2>1
    <3> QED BY ONLY <3>1, <3>2, <2>16, f \in Int, pool \in {"conv", "mem"}, ShrunkCleared
  <2>20. FitsBut(s, u, Between(addr, b))
    <3>1. FitsBut(s, g, {})
      BY <1>5, ReadyFits
    <3>2. FitsBut(g, u, Between(addr, b))
      BY <2>19 DEF Cleared
    <3> QED BY ONLY <3>1, <3>2, FitsAgain
  <2>21. Kept(s, u)
    <3>1. Kept(g, u)
      BY <2>19 DEF Cleared
    <3> QED BY ONLY <2>1, <3>1, KeptAgain
  <2>22. Tracks(s, u, {Sigma0Id})
    <3>1. Tracks(g, u, {Sigma0Id})
      BY <2>19 DEF Cleared
    <3>2. Tracks(s, g, {Sigma0Id})
      BY <1>5, ReadyTracks
    <3> QED BY ONLY <3>1, <3>2, TracksAgain
  <2>23. Cleared(s, u, addr, b)
    BY <2>19, <2>20, <2>21, <2>22 DEF Cleared
  <2> QED BY <2>18, <2>23
<1> QED BY <1>2, <1>4, <1>5

LEMMA AllocateFacts ==
  ASSUME NEW s, Sound(s), s.ok, NEW pool \in {"conv", "mem"},
         NEW i \in DOMAIN s[pool], NEW r, r = s[pool][i],
         NEW size, Block(size), NEW addr \in Nat, addr % Page = 0,
         r.low <= addr, addr + size - 1 <= r.high,
         NEW u, u = allocate(s, pool, i, addr, size)
  PROVE  Missed(s, u) \/ Cleared(s, u, addr, addr + size - 1)
<1>1. /\ pool \in Names /\ Tidy(Kind(pool), s[pool]) /\ Kind(pool) \subseteq Slack
      /\ Spans \subseteq Kind(pool) /\ s \in PoolSet
  BY SoundKinds DEF Names, Sound
<1>2. r \in Members(s[pool]) /\ r \in Slack
  <2>1. Tidy(Kind(pool), s[pool]) /\ Kind(pool) \subseteq Slack
    BY <1>1
  <2>2. Members(s[pool]) \subseteq Kind(pool)
        /\ \A k \in DOMAIN s[pool] : s[pool][k] \in Members(s[pool])
    BY ONLY <2>1, TidyMembers
  <2> QED BY <1>1, <2>2
<1>3. r.low \in Nat /\ r.high \in Nat /\ size \in Nat \ {0} /\ size % Page = 0
  BY <1>2, SlackFacts DEF Block
<1>4. CASE addr = r.low
  <2>1. u = TakeStart(s, pool, i, size)
    BY <1>4 DEF allocate
  <2>2. PICK T : T = Kind(pool)
    OBVIOUS
  <2>3. Spans \subseteq T /\ T \subseteq Slack /\ Tidy(T, s[pool])
    BY <1>1, <2>2
  <2>4. r.low + size - 1 <= r.high
    BY <1>4
  <2>5. StartTaken(s, pool, T, i, r, size)
    BY ONLY <1>1, <1>3, <2>3, <2>4, i \in DOMAIN s[pool], r = s[pool][i], TakeStartFacts
  <2>6. PICK t \in Seq(Slack) : \E f \in Int :
           /\ TakeStart(s, pool, i, size) = [s EXCEPT ![pool] = t, !.free = f]
           /\ Tidy(T, t) /\ Members(t) = (Members(s[pool]) \ {r}) \cup Rest(r, size)
    BY <2>5 DEF StartTaken
  <2>7. PICK f \in Int : TakeStart(s, pool, i, size) = [s EXCEPT ![pool] = t, !.free = f]
    BY <2>6
  <2>8. PICK b \in Nat : b = addr + size - 1
    BY <1>3
  <2>9. Loses(s[pool], t, addr, b)
    <3> SUFFICES ASSUME NEW p \in Pages
                 PROVE  In(t, p) <=> In(s[pool], p) /\ ~(addr <= p /\ p <= b)
      BY DEF Loses
    <3>1. p \in Nat
      BY PageNumbers
    <3>2. Splits(r, Rest(r, size), addr, b)
      <4>1. Splits(r, Rest(r, size), r.low, r.low + size - 1)
        BY ONLY <1>2, <1>3, <2>4, RestSplits
      <4> QED BY <1>4, <2>8, <4>1
    <3>3. Tidy(Slack, s[pool])
      BY <1>1, KindSlack
    <3>4. r.low <= addr /\ b <= r.high
      BY <2>8
    <3>5. Members(t) = (Members(s[pool]) \ {r}) \cup Rest(r, size) /\ r \in Members(s[pool])
      BY <1>2, <2>6
    <3> QED BY ONLY <2>8, <3>1, <3>2, <3>3, <3>4, <3>5, addr \in Nat, CutOut
  <2>10. HoldsAll(s[pool], addr, b)
    <3>1. r \in Members(s[pool]) /\ r.low \in Nat /\ r.high \in Nat
          /\ r.low <= addr /\ b <= r.high
      BY <1>2, <1>3, <2>8
    <3>2. \A p \in Pages : addr <= p /\ p <= b => In(s[pool], p)
      BY ONLY <2>8, <3>1, addr \in Nat, BlockIn
    <3> QED BY <3>2 DEF HoldsAll
  <2>11. u = Update(s, pool, t, f) /\ Tidy(Kind(pool), t)
    BY <2>1, <2>2, <2>6, <2>7 DEF Update
  <2>12. Within(s[pool], t)
    <3>1. PICK E : E = Rest(r, size)
      OBVIOUS
    <3>2. Splits(r, E, addr, b)
      <4>1. Splits(r, Rest(r, size), r.low, r.low + size - 1)
        BY ONLY <1>2, <1>3, <2>4, RestSplits
      <4> QED BY <1>4, <2>8, <3>1, <4>1
    <3>3. \A e \in E : e.owner = r.owner
      BY <3>1 DEF Rest, region
    <3>4. Members(t) = (Members(s[pool]) \ {r}) \cup E /\ r \in Members(s[pool])
      BY <1>2, <2>6, <3>1
    <3> QED BY ONLY <3>2, <3>3, <3>4, PartsWithin
  <2>13. Cleared(s, u, addr, b)
    BY ONLY Sound(s), s.ok, pool \in {"conv", "mem"}, t \in Seq(Slack), f \in Int,
            <2>9, <2>10, <2>11, <2>12, ShrunkCleared
  <2> QED BY <2>8, <2>13
<1>5. CASE addr # r.low /\ addr + size - 1 = r.high
  <2>1. u = [s EXCEPT ![pool][i].high = @ - size]
    BY <1>5 DEF allocate
  <2>2. r.low < addr
    BY <1>3, <1>5
  <2>3. Cleared(s, u, addr, addr + size - 1)
    BY <1>5, <2>1, <2>2, EndTaken
  <2> QED BY <2>3
<1>6. CASE addr # r.low /\ addr + size - 1 # r.high
  <2>1. u = TakeMiddle(s, pool, i, addr, size)
    BY <1>6 DEF allocate
  <2>2. r.low < addr /\ addr + size - 1 < r.high
    BY <1>3, <1>6
  <2> QED BY <2>1, <2>2, MiddleTaken
<1> QED BY <1>4, <1>5, <1>6

-----------------------------------------------------------------------------
(* A region is put into a pool.                                            *)

LEMMA ReadyPools ==
  ASSUME NEW s, Sound(s), NEW u, Ready(s, u), NEW p \in Pages, NEW pool \in Names,
         InPool(u, pool, p)
  PROVE  InPool(s, pool, p) \/ InPool(s, "conv", p)
<1>1. CASE Same(s, u)
  BY <1>1 DEF Same, InPool, Names
<1>2. CASE Grew(s, u)
  <2>1. /\ InPool(u, "mem", p) <=> InPool(s, "mem", p)
        /\ InPool(u, "conv", p) => InPool(s, "conv", p)
        /\ InPool(u, "alloc", p) => InPool(s, "alloc", p) \/ InPool(s, "conv", p)
    BY <1>2, GrewPages
  <2> QED BY <2>1 DEF Names
<1> QED BY <1>1, <1>2 DEF Ready

Put(s, u, pool, r) ==
  /\ Sound(u) /\ u.ok /\ Kept(s, u) /\ FitsBut(s, u, Between(r.low, r.high))
  /\ Tidy(Spans, u[pool]) /\ (Tidy(Spans, s.conv) => Tidy(Spans, u.conv))
  /\ \A p \in Between(r.low, r.high) : InPool(u, pool, p)
  /\ pool = "alloc" => \A p \in Between(r.low, r.high) : Has(u.alloc, p, r.owner)
  /\ pool = "alloc" => Tracks(s, u, {Sigma0Id, r.owner})
  /\ \A p \in Pages \ Between(r.low, r.high) : \A q \in Names :
        InPool(u, q, p) => InPool(s, q, p) \/ InPool(s, "conv", p)

LEMMA InsertNewFacts ==
  ASSUME NEW s, Sound(s), s.ok, NEW pool \in Names,
         pool = "conv" => Tidy(Spans, s.conv),
         NEW r \in Spans, Unheld(s, r.low, r.high), NEW u, u = insertNew(s, pool, r)
  PROVE  Missed(s, u) \/ Put(s, u, pool, r)
<1>1. PICK g : g = New(s)
  OBVIOUS
<1>2. Missed(s, g) \/ Ready(s, g)
  BY <1>1, NewFacts DEF Missed
<1>3. u = insert(g, pool, r)
  BY <1>1 DEF insertNew
<1>4. CASE Missed(s, g)
  <2>1. ~g.ok
    BY <1>4 DEF Missed, Lost
  <2> QED BY <1>3, <1>4, <2>1, InsertNot
<1>5. CASE Ready(s, g)
  <2>1. /\ Sound(g) /\ g.ok /\ Kept(s, g) /\ (Tidy(Spans, s.conv) => Tidy(Spans, g.conv))
        /\ \A p \in Pages : Free(s, p) <=> Free(g, p)
    BY <1>5, ReadyFacts
  <2>2. Unheld(g, r.low, r.high)
    BY <2>1 DEF Unheld, Free
  <2>3. Tidy(Spans, g[pool])
    BY <2>1 DEF Names, Sound
  <2>4. /\ Sound(u) /\ u.ok /\ Tidy(Spans, u[pool])
        /\ \A q \in Names : q # pool => u[q] = g[q]
        /\ \A p \in Pages : InPool(u, pool, p) <=> \/ InPool(g, pool, p)
                                                   \/ r.low <= p /\ p <= r.high
        /\ With(g[pool], u[pool], r)
    BY ONLY <1>3, <2>1, <2>2, <2>3, pool \in Names, r \in Spans, InsertSound
  <2>5. \A p \in Pages \ Between(r.low, r.high) : \A q \in Names :
          InPool(u, q, p) <=> InPool(g, q, p)
    BY <2>4 DEF Between, InPool
  <2>6. FitsBut(g, u, Between(r.low, r.high))
    <3> SUFFICES ASSUME NEW H \in Homes, NEW X, Fits(g, H, X),
                        NEW p \in Pages \ (X \cup Between(r.low, r.high))
                 PROVE  /\ H[p] = "none" => \A q \in Names : ~InPool(u, q, p)
                        /\ H[p] # "none" => InPool(u, "alloc", p) \/ InPool(u, H[p], p)
      BY DEF Fits, FitsBut
    <3>1. /\ H[p] = "none" => \A q \in Names : ~InPool(g, q, p)
          /\ H[p] # "none" => InPool(g, "alloc", p) \/ InPool(g, H[p], p)
      BY DEF Fits
    <3>2. H[p] \in Names \cup {"none"} /\ "alloc" \in Names
      BY DEF Homes, Names
    <3>3. \A q \in Names : InPool(u, q, p) <=> InPool(g, q, p)
      BY <2>5
    <3> QED BY <3>1, <3>2, <3>3
  <2>7. FitsBut(s, u, Between(r.low, r.high))
    <3>1. FitsBut(s, g, {})
      BY <1>5, ReadyFits
    <3> QED BY ONLY <2>6, <3>1, FitsAgain
  <2>8. Kept(g, u)
    <3>1. CASE pool = "alloc"
      <4>1. With(g.alloc, u.alloc, r)
        BY <2>4, <3>1
      <4> QED BY <4>1, PageNumbers DEF Kept, With
    <3>2. CASE pool # "alloc"
      <4>1. u["alloc"] = g["alloc"]
        BY <2>4, <3>2 DEF Names
      <4> QED BY <4>1 DEF Kept
    <3> QED BY <3>1, <3>2
  <2>9. Kept(s, u)
    BY <2>1, <2>8, KeptAgain
  <2>10. Tidy(Spans, s.conv) => Tidy(Spans, u.conv)
    <3>1. pool # "conv" => u["conv"] = g["conv"]
      BY <2>4 DEF Names
    <3> QED BY <2>1, <2>4, <3>1
  <2>11. \A p \in Between(r.low, r.high) : InPool(u, pool, p)
    BY <2>4 DEF Between
  <2>12. ASSUME pool = "alloc", NEW p \in Between(r.low, r.high)
         PROVE  Has(u.alloc, p, r.owner)
    <3>1. With(g.alloc, u.alloc, r)
      BY <2>4, <2>12
    <3>2. p \in Nat /\ r.low <= p /\ p <= r.high
      BY PageNumbers DEF Between
    <3> QED BY <3>1, <3>2 DEF With
  <2>13. \A p \in Pages \ Between(r.low, r.high) : \A q \in Names :
           InPool(u, q, p) => InPool(s, q, p) \/ InPool(s, "conv", p)
    BY <1>5, <2>5, ReadyPools
  <2>14. ASSUME pool = "alloc" PROVE Tracks(s, u, {Sigma0Id, r.owner})
    <3>1. With(g.alloc, u.alloc, r)
      BY <2>4, <2>14
    <3>2. u["conv"] = g["conv"] /\ u["mem"] = g["mem"]
      BY <2>4, <2>14 DEF Names
    <3>3. PICK os : os = {Sigma0Id, r.owner}
      OBVIOUS
    <3>4. Tracks(g, u, os)
      BY <3>1, <3>2, <3>3, PageNumbers DEF Tracks, Within, With
    <3>5. Tracks(s, g, {Sigma0Id})
      BY <1>5, ReadyTracks
    <3>6. {Sigma0Id} \subseteq os
      BY <3>3
    <3>7. Tracks(s, u, os)
      BY ONLY <3>4, <3>5, <3>6, TracksAgain
    <3> QED BY <3>3, <3>7
  <2> QED BY <2>4, <2>7, <2>9, <2>10, <2>11, <2>12, <2>13, <2>14 DEF Put
<1> QED BY <1>2, <1>4, <1>5

-----------------------------------------------------------------------------
(* A block goes to a thread.                                               *)

\* Each step while requests are served.
Served(s, u, H) ==
  Kept(s, u) /\ (Lost(u) \/ (Sound(u) /\ u.ok /\ Fits(u, H, {})))

Gets(u, addr, size, tid) ==
  \A p \in Pages : addr <= p /\ p <= addr + size - 1 =>
    \E o \in {tid, Anythread} : Has(u.alloc, p, o)

\* A block goes to a thread, and nothing to others.
Dealt(s, u, addr, size, tid) == Gets(u, addr, size, tid) /\ Tracks(s, u, {Sigma0Id, tid})

LEMMA MissedKept ==
  ASSUME NEW s, NEW u, Missed(s, u)
  PROVE  Kept(s, u) /\ Lost(u)
  BY DEF Missed, Kept

LEMMA TakenFacts ==
  ASSUME NEW s, Sound(s), s.ok, NEW H \in Homes, Fits(s, H, {}),
         NEW pool \in {"conv", "mem"},
         NEW i \in DOMAIN s[pool], NEW r, r = s[pool][i],
         NEW size, Block(size), NEW addr \in Nat, addr % Page = 0,
         r.low <= addr, addr + size - 1 <= r.high, NEW tid \in Owners,
         NEW u, u = insertNew(allocate(s, pool, i, addr, size), "alloc",
                              region(addr, addr + size - 1, tid))
  PROVE  Served(s, u, H) /\ (u.ok => Dealt(s, u, addr, size, tid))
<1>1. PICK g : g = allocate(s, pool, i, addr, size)
  OBVIOUS
<1>2. PICK b : b = addr + size - 1
  OBVIOUS
<1>3. Missed(s, g) \/ Cleared(s, g, addr, b)
  <2>1. Missed(s, g) \/ Cleared(s, g, addr, addr + size - 1)
    BY ONLY Sound(s), s.ok, pool \in {"conv", "mem"}, i \in DOMAIN s[pool], r = s[pool][i],
            Block(size), addr \in Nat, addr % Page = 0, r.low <= addr,
            addr + size - 1 <= r.high, <1>1, AllocateFacts
  <2> QED BY <1>2, <2>1
<1>4. PICK w : w = region(addr, b, tid)
  OBVIOUS
<1>5. u = insertNew(g, "alloc", w)
  BY <1>1, <1>2, <1>4
<1>6. CASE Missed(s, g)
  <2>1. Lost(u) /\ u.alloc = g.alloc
    BY <1>5, <1>6, LostInsert DEF Missed
  <2>2. Missed(s, u)
    BY <1>6, <2>1 DEF Missed
  <2> QED BY <2>2, MissedKept DEF Served, Lost
<1>7. CASE Cleared(s, g, addr, b)
  <2>1. /\ Tidy(Kind(pool), s[pool]) /\ Kind(pool) \subseteq Slack
    BY SoundKinds DEF Names
  <2>2. r \in Members(s[pool]) /\ r \in Slack
    <3>1. Members(s[pool]) \subseteq Kind(pool)
          /\ \A k \in DOMAIN s[pool] : s[pool][k] \in Members(s[pool])
      BY ONLY <2>1, TidyMembers
    <3> QED BY <2>1, <3>1
  <2>3. /\ r.low \in Nat /\ r.high \in Nat /\ r.high <= Top /\ Top \in Nat
        /\ Page \in Nat \ {0} /\ size \in Nat \ {0} /\ size % Page = 0
    BY <2>2, SlackFacts, Numbers DEF Block
  <2>4. w \in Spans /\ w.low = addr /\ w.high = b /\ w.owner = tid
    <3>1. addr \in 0 .. Top /\ b \in 0 .. Top /\ addr <= b /\ addr <= b + 1
      BY <1>2, <2>3
    <3>2. (b + 1) % Page = 0
      <4>1. addr \in Int /\ size \in Int
        BY <2>3
      <4>2. (addr + size) % Page = 0
        BY ONLY <2>3, <4>1, MultiplesSum, addr % Page = 0
      <4>3. b + 1 = addr + size
        BY <1>2, <2>3
      <4> QED BY <4>2, <4>3
    <3> QED BY ONLY <1>4, <3>1, <3>2, tid \in Owners, addr % Page = 0, SlackRegion
  <2>5. Sound(g) /\ g.ok /\ Unheld(g, w.low, w.high) /\ FitsBut(s, g, Between(addr, b))
        /\ Kept(s, g) /\ Tracks(s, g, {Sigma0Id})
    BY <1>7, <2>4 DEF Cleared
  <2>6. Missed(g, u) \/ Put(g, u, "alloc", w)
    <3>1. "alloc" \in Names /\ "alloc" # "conv"
      BY DEF Names
    <3> QED BY ONLY <1>5, <2>4, <2>5, <3>1, InsertNewFacts
  <2>7. CASE Missed(g, u)
    <3>1. Kept(g, u) /\ Lost(u)
      BY <2>7, MissedKept
    <3>2. Kept(s, u)
      BY <2>5, <3>1, KeptAgain
    <3> QED BY <3>1, <3>2 DEF Served, Lost
  <2>8. CASE Put(g, u, "alloc", w)
    <3>1. /\ Sound(u) /\ u.ok /\ Kept(g, u) /\ FitsBut(g, u, Between(addr, b))
          /\ \A p \in Between(addr, b) : InPool(u, "alloc", p)
          /\ \A p \in Between(addr, b) : Has(u.alloc, p, tid)
      BY <2>4, <2>8 DEF Put
    <3>2. Kept(s, u)
      BY <2>5, <3>1, KeptAgain
    <3>3. HoldsAll(s[pool], addr, b)
      <4>1. b \in Nat /\ r.low <= addr /\ b <= r.high
        BY <1>2, <2>3
      <4>2. \A p \in Pages : addr <= p /\ p <= b => In(s[pool], p)
        BY ONLY <2>2, <2>3, <4>1, addr \in Nat, BlockIn
      <4> QED BY <4>2 DEF HoldsAll
    <3>4. Fits(u, H, {})
      <4> SUFFICES ASSUME NEW p \in Pages
                   PROVE  /\ H[p] = "none" => \A q \in Names : ~InPool(u, q, p)
                          /\ H[p] # "none" => InPool(u, "alloc", p) \/ InPool(u, H[p], p)
        BY DEF Fits
      <4>1. CASE p \in Between(addr, b)
        <5>1. InPool(s, pool, p) /\ pool \in Names
          BY <3>3, <4>1 DEF HoldsAll, Between, InPool, Names
        <5>2. H[p] # "none"
          BY <5>1 DEF Fits
        <5> QED BY <3>1, <4>1, <5>2
      <4>2. CASE p \notin Between(addr, b)
        <5>1. PICK Y : Y = {} \cup Between(addr, b)
          OBVIOUS
        <5>2. Fits(g, H, Y)
          BY <2>5, <5>1 DEF FitsBut
        <5>3. Fits(u, H, Y \cup Between(addr, b))
          BY <3>1, <5>2 DEF FitsBut
        <5>4. p \in Pages \ (Y \cup Between(addr, b))
          BY <4>2, <5>1
        <5> QED BY <5>3, <5>4 DEF Fits
      <4> QED BY <4>1, <4>2
    <3>5. Gets(u, addr, size, tid)
      BY <1>2, <3>1 DEF Gets, Between
    <3>6. Tracks(s, u, {Sigma0Id, tid})
      <4>1. PICK os : os = {Sigma0Id, tid}
        OBVIOUS
      <4>2. Tracks(g, u, os)
        BY <2>4, <2>8, <4>1 DEF Put
      <4>3. Tracks(s, g, {Sigma0Id}) /\ {Sigma0Id} \subseteq os
        BY <2>5, <4>1
      <4>4. Tracks(s, u, os)
        BY ONLY <4>2, <4>3, TracksAgain
      <4> QED BY <4>1, <4>4
    <3> QED BY <3>1, <3>2, <3>4, <3>5, <3>6 DEF Served, Dealt
  <2> QED BY <2>6, <2>7, <2>8
<1> QED BY <1>3, <1>6, <1>7

-----------------------------------------------------------------------------
(* The regions that hold a block.                                          *)

Spot(addr, size) == Block(size) /\ addr \in Nat /\ addr <= Top /\ addr % size = 0

LEMMA SpotFacts ==
  ASSUME NEW size, NEW addr, Spot(addr, size)
  PROVE  addr \in Nat /\ addr % Page = 0 /\ size \in Nat \ {0} /\ addr + size - 1 <= Top
<1>1. Block(size) /\ addr \in Nat /\ addr <= Top /\ addr % size = 0
  BY DEF Spot
<1>2. addr % Page = 0 /\ (addr <= Top => addr + size - 1 <= Top)
  BY ONLY <1>1, SizeFacts
<1> QED BY <1>1, <1>2 DEF Block

LEMMA HoldingFacts ==
  ASSUME NEW s, Sound(s), NEW pool \in Names, NEW size, NEW addr, Spot(addr, size), NEW tid,
         NEW i \in Holding(s, pool, addr, size, tid)
  PROVE  /\ i \in DOMAIN s[pool] /\ i \in Nat
         /\ s[pool][i] \in Members(s[pool]) /\ s[pool][i] \in Slack
         /\ s[pool][i].low <= addr /\ addr + size - 1 <= s[pool][i].high
         /\ s[pool][i].owner \in {tid, Anythread}
<1>1. i \in DOMAIN s[pool] /\ can_allocate(s[pool][i], addr, size, tid)
  BY DEF Holding
<1>2. Tidy(Kind(pool), s[pool]) /\ Kind(pool) \subseteq Slack
  BY SoundKinds
<1>3. /\ Len(s[pool]) \in Nat /\ DOMAIN s[pool] = 1..Len(s[pool])
      /\ Members(s[pool]) \subseteq Kind(pool)
      /\ \A k \in DOMAIN s[pool] : s[pool][k] \in Members(s[pool])
  BY ONLY <1>2, TidyMembers
<1>4. PICK r : r = s[pool][i]
  OBVIOUS
<1>5. r \in Members(s[pool]) /\ r \in Slack /\ i \in Nat
  BY <1>1, <1>2, <1>3, <1>4
<1>6. Block(size) /\ addr \in Nat /\ addr <= Top /\ addr % size = 0
  BY DEF Spot
<1>7. can_allocate(r, addr, size, tid)
  BY <1>1, <1>4
<1>8. r.low <= addr /\ addr + size - 1 <= r.high /\ r.owner \in {tid, Anythread}
  BY ONLY <1>5, <1>6, <1>7, CanFacts
<1> QED BY <1>1, <1>4, <1>5, <1>8

LEMMA LeastHolding ==
  ASSUME NEW s, Sound(s), NEW pool \in Names, NEW size, NEW addr, Spot(addr, size), NEW tid,
         Holding(s, pool, addr, size, tid) # {}
  PROVE  Min(Holding(s, pool, addr, size, tid)) \in Holding(s, pool, addr, size, tid)
<1>1. PICK S : S = Holding(s, pool, addr, size, tid)
  OBVIOUS
<1>2. S \subseteq Nat
  BY <1>1, HoldingFacts
<1>3. S # {} /\ S \in SUBSET Nat
  BY <1>1, <1>2
<1>4. Min(S) \in S
  BY ONLY <1>3, LeastFacts
<1> QED BY <1>1, <1>4

LEMMA PoolOfFacts ==
  ASSUME NEW s, NEW ps \in Seq(Names), NEW addr, NEW size, NEW tid,
         NEW k, k = PoolOf(s, ps, addr, size, tid)
  PROVE  k = 0 \/ (k \in DOMAIN ps /\ ps[k] \in Names
                   /\ Holding(s, ps[k], addr, size, tid) # {})
<1>1. PICK has : has = {j \in DOMAIN ps : Holding(s, ps[j], addr, size, tid) # {}}
  OBVIOUS
<1>2. DOMAIN ps = 1..Len(ps) /\ Len(ps) \in Nat /\ \A j \in 1..Len(ps) : ps[j] \in Names
  BY SeqFacts
<1>3. has \in SUBSET Nat
  BY <1>1, <1>2
<1>4. has # {} => Min(has) \in has
  BY <1>3, LeastFacts
<1>5. k = IF has = {} THEN 0 ELSE Min(has)
  BY <1>1 DEF PoolOf
<1> QED BY <1>1, <1>2, <1>4, <1>5

LEMMA AllocHeld ==
  ASSUME NEW s, Sound(s), NEW size, NEW addr, Spot(addr, size), NEW tid,
         Holding(s, "alloc", addr, size, tid) # {}
  PROVE  Gets(s, addr, size, tid)
<1>1. PICK i : i \in Holding(s, "alloc", addr, size, tid)
  OBVIOUS
<1>2. PICK pool \in Names : pool = "alloc"
  BY DEF Names
<1>3. PICK r : r = s[pool][i]
  OBVIOUS
<1>4. /\ r \in Members(s[pool]) /\ r \in Slack /\ r.low <= addr /\ addr + size - 1 <= r.high
      /\ r.owner \in {tid, Anythread}
  BY <1>1, <1>2, <1>3, HoldingFacts
<1>5. r.low \in Nat /\ r.high \in Nat /\ addr \in Nat /\ size \in Nat
  BY <1>4, SlackFacts, SpotFacts
<1> SUFFICES ASSUME NEW p \in Pages, addr <= p, p <= addr + size - 1
             PROVE  \E o \in {tid, Anythread} : Has(s.alloc, p, o)
  BY DEF Gets
<1>6. p \in Nat
  BY PageNumbers
<1>7. r.low <= p /\ p <= r.high
  BY <1>4, <1>5, <1>6
<1>8. Has(s[pool], p, r.owner)
  BY <1>4, <1>7 DEF Has
<1> QED BY <1>2, <1>4, <1>8

LEMMA TakeFacts ==
  ASSUME NEW s, Sound(s), s.ok, NEW H \in Homes, Fits(s, H, {}), NEW pool \in {"conv", "mem"},
         NEW size, NEW addr, Spot(addr, size), NEW tid \in Owners,
         Holding(s, pool, addr, size, tid) # {},
         NEW u, u = Take(s, pool, addr, size, tid)
  PROVE  Served(s, u, H) /\ (u.ok => Dealt(s, u, addr, size, tid))
<1>1. PICK i : i = Min(Holding(s, pool, addr, size, tid))
  OBVIOUS
<1>2. pool \in Names
  BY DEF Names
<1>3. i \in Holding(s, pool, addr, size, tid)
  BY <1>1, <1>2, LeastHolding
<1>4. PICK r : r = s[pool][i]
  OBVIOUS
<1>5. /\ i \in DOMAIN s[pool] /\ r.low <= addr /\ addr + size - 1 <= r.high
  BY <1>2, <1>3, <1>4, HoldingFacts
<1>6. addr \in Nat /\ addr % Page = 0 /\ Block(size)
  BY SpotFacts DEF Spot
<1>7. u = insertNew(allocate(s, pool, i, addr, size), "alloc", region(addr, addr + size - 1, tid))
  BY <1>1 DEF Take
<1> QED BY ONLY Sound(s), s.ok, H \in Homes, Fits(s, H, {}), pool \in {"conv", "mem"},
                tid \in Owners, <1>4, <1>5, <1>6, <1>7, TakenFacts

-----------------------------------------------------------------------------
(* Page by page.                                                           *)

LEMMA PageSpot ==
  ASSUME NEW p \in Pages
  PROVE  Spot(p, Page)
  BY PageBlock, PageNumbers, Numbers DEF Spot, Pages

LEMMA ServedAgain ==
  ASSUME NEW s, NEW x, NEW u, NEW H, Served(s, x, H), Served(x, u, H)
  PROVE  Served(s, u, H)
  BY KeptAgain DEF Served

\* The loop has come to x; d says that no page was refused.
Going(s, H, t, x, d) == t = [s |-> x, done |-> d] /\ d \in BOOLEAN /\ Served(s, x, H)

Ways == {<<"conv", "alloc">>, <<"conv", "alloc", "mem">>}

\* A step of the loop goes from x and d to y and e.
Step(s, H, v, x, d, y, e, ps, page, tid) ==
  /\ Going(s, H, v, y, e) /\ Kept(x, y)
  /\ y.ok => x.ok /\ Tracks(x, y, {Sigma0Id, tid})
  /\ e /\ y.ok => d /\ Gets(y, page, Page, tid)
  /\ d /\ x.ok /\ PoolOf(x, ps, page, Page, tid) # 0 => e

LEMMA TakePageFacts ==
  ASSUME NEW s, NEW H \in Homes, NEW t, NEW x, NEW d, Going(s, H, t, x, d),
         NEW page \in Pages, NEW ps \in Ways, NEW tid \in Owners,
         NEW v, v = TakePage(t, ps, page, tid)
  PROVE  \E y : \E e : Step(s, H, v, x, d, y, e, ps, page, tid)
<1>1. t = [s |-> x, done |-> d] /\ d \in BOOLEAN /\ Served(s, x, H)
  BY DEF Going
<1>2. t.s = x /\ t.done = d
  BY <1>1
<1>3. Kept(x, x) /\ Tracks(x, x, {Sigma0Id, tid})
  BY DEF Kept, Tracks, Within
<1>4. CASE ~d \/ ~x.ok
  <2>1. v = t
    BY <1>2, <1>4 DEF TakePage
  <2>2. Step(s, H, v, x, d, x, d, ps, page, tid)
    BY <1>1, <1>3, <1>4, <2>1 DEF Going, Step
  <2> QED BY <2>2
<1>5. CASE d /\ x.ok
  <2>1. Sound(x) /\ Fits(x, H, {}) /\ Spot(page, Page)
    BY <1>1, <1>5, PageSpot DEF Served, Lost
  <2>2. PICK k : k = PoolOf(x, ps, page, Page, tid)
    OBVIOUS
  <2>3. ps \in Seq(Names)
    <3>1. "conv" \in Names /\ "alloc" \in Names /\ "mem" \in Names
      BY DEF Names
    <3>2. <<"conv", "alloc">> \in Seq(Names) /\ <<"conv", "alloc", "mem">> \in Seq(Names)
      BY <3>1
    <3> QED BY <3>2 DEF Ways
  <2>4. k = 0 \/ (k \in DOMAIN ps /\ ps[k] \in Names /\ Holding(x, ps[k], page, Page, tid) # {})
    BY ONLY <2>2, <2>3, PoolOfFacts
  <2>5. CASE k = 0
    <3>1. v = [t EXCEPT !.done = FALSE]
      BY <1>2, <1>5, <2>2, <2>5 DEF TakePage
    <3>2. v = [s |-> x, done |-> FALSE]
      BY <1>1, <3>1
    <3>3. Going(s, H, v, x, FALSE)
      BY <1>1, <3>2 DEF Going
    <3>4. Step(s, H, v, x, d, x, FALSE, ps, page, tid)
      BY <1>3, <2>2, <2>5, <3>3 DEF Step
    <3> QED BY <3>4
  <2>6. CASE k # 0 /\ ps[k] = "alloc"
    <3>1. v = t
      BY <1>2, <1>5, <2>2, <2>6 DEF TakePage
    <3>2. Gets(x, page, Page, tid)
      BY <2>1, <2>4, <2>6, AllocHeld
    <3>3. Going(s, H, v, x, d)
      BY <3>1
    <3>4. Step(s, H, v, x, d, x, d, ps, page, tid)
      BY <1>3, <1>5, <3>2, <3>3 DEF Step
    <3> QED BY <3>4
  <2>7. CASE k # 0 /\ ps[k] # "alloc"
    <3>1. PICK pool : pool = ps[k]
      OBVIOUS
    <3>2. pool \in {"conv", "mem"} /\ Holding(x, pool, page, Page, tid) # {}
      BY <2>4, <2>7, <3>1 DEF Names
    <3>3. PICK y : y = Take(x, pool, page, Page, tid)
      OBVIOUS
    <3>4. Served(x, y, H) /\ (y.ok => Dealt(x, y, page, Page, tid))
      BY ONLY <1>5, <2>1, <3>2, <3>3, H \in Homes, tid \in Owners, TakeFacts
    <3>5. v = [t EXCEPT !.s = y]
      BY <1>2, <1>5, <2>2, <2>7, <3>1, <3>3 DEF TakePage
    <3>6. v = [s |-> y, done |-> d]
      BY <1>1, <3>5
    <3>7. Served(s, y, H) /\ Kept(x, y)
      BY <1>1, <3>4, ServedAgain DEF Served
    <3>8. Going(s, H, v, y, d)
      BY <1>1, <3>6, <3>7 DEF Going
    <3>9. Step(s, H, v, x, d, y, d, ps, page, tid)
      BY <1>5, <3>4, <3>7, <3>8 DEF Step, Dealt
    <3> QED BY <3>9
  <2> QED BY <2>5, <2>6, <2>7
<1> QED BY <1>1, <1>4, <1>5

-----------------------------------------------------------------------------
(* A page that a thread may have, it may have as long as sigma0 does not   *)
(* take it.                                                                *)

Open(s, pool, p, tid) == \E o \in {tid, Anythread} : Has(s[pool], p, o)

LEMMA PageBounds ==
  ASSUME NEW r \in Slack, r.low <= r.high
  PROVE  low_a(r, Page) = r.low /\ high_a(r, Page) = r.high /\ r.low + Page - 1 <= r.high
<1>1. /\ r.low \in Nat /\ r.high \in Nat /\ r.high <= Top /\ Top \in Nat
      /\ Page \in Nat \ {0} /\ r.low % Page = 0 /\ (r.high + 1) % Page = 0
  BY SlackFacts, Numbers
<1>2. r.low + Page <= r.high + 1
  <2>1. r.low \in Int /\ r.high + 1 \in Int /\ r.low < r.high + 1
    BY <1>1
  <2> QED BY ONLY <1>1, <2>1, MultiplesApart
<1>3. low_a(r, Page) = r.low
  <2>1. PICK w \in Nat : w = r.low + Page - 1
    BY <1>1
  <2>2. Wrap(w) = w
    BY <1>1, <1>2, <2>1, WrapFacts
  <2>3. PICK d \in Nat : d = Down(w, Page) /\ d % Page = 0 /\ d <= w /\ w < d + Page
    BY <1>1, <2>1, DownFacts
  <2>4. ~(r.low < d)
    <3>1. r.low \in Int /\ d \in Int
      BY <1>1
    <3>2. r.low < d => r.low + Page <= d
      BY ONLY <1>1, <2>3, <3>1, MultiplesApart
    <3> QED BY <1>1, <2>1, <2>3, <3>2
  <2>5. r.low <= d
    <3>1. r.low \in Int /\ d \in Int
      BY <1>1
    <3>2. d < r.low => d + Page <= r.low
      BY ONLY <1>1, <2>3, <3>1, MultiplesApart
    <3> QED BY <1>1, <2>1, <2>3, <3>2
  <2>6. d = r.low
    BY <1>1, <2>4, <2>5
  <2> QED BY <2>1, <2>2, <2>3, <2>6 DEF low_a
<1>4. high_a(r, Page) = r.high
  <2>1. CASE r.high = Top
    <3>1. Wrap(r.high + 1) = 0 /\ Wrap(-1) = Top
      BY <2>1, WrapFacts
    <3>2. Down(0, Page) = 0
      BY <1>1 DEF Down
    <3>3. 0 - 1 = -1
      OBVIOUS
    <3> QED BY <2>1, <3>1, <3>2, <3>3 DEF high_a
  <2>2. CASE r.high # Top
    <3>1. PICK h \in Nat : h = r.high + 1 /\ h % Page = 0 /\ h - 1 = r.high
      BY <1>1
    <3>2. Wrap(h) = h /\ Wrap(r.high) = r.high
      BY <1>1, <2>2, <3>1, WrapFacts
    <3>3. Down(h, Page) = h
      BY <3>1 DEF Down
    <3> QED BY <3>1, <3>2, <3>3 DEF high_a
  <2> QED BY <2>1, <2>2
<1> QED BY <1>1, <1>2, <1>3, <1>4

LEMMA CanPage ==
  ASSUME NEW r \in Slack, NEW p \in Pages, r.low <= p, p <= r.high,
         NEW tid, r.owner \in {tid, Anythread}
  PROVE  can_allocate(r, p, Page, tid)
<1>1. /\ r.low \in Nat /\ r.high \in Nat /\ r.high <= Top /\ Top \in Nat /\ p \in Nat
      /\ Page \in Nat \ {0} /\ (r.high + 1) % Page = 0 /\ p % Page = 0
  BY SlackFacts, Numbers, PageNumbers DEF Pages
<1>2. low_a(r, Page) = r.low /\ high_a(r, Page) = r.high /\ r.low + Page - 1 <= r.high
  BY <1>1, PageBounds
<1>3. p + Page <= r.high + 1
  <2>1. p \in Int /\ r.high + 1 \in Int /\ p < r.high + 1
    BY <1>1
  <2> QED BY ONLY <1>1, <2>1, MultiplesApart
<1>4. Wrap(p + Page - 1) = p + Page - 1
  BY <1>1, <1>3, WrapFacts
<1>5. Wrap(r.high - r.low) = r.high - r.low
  BY <1>1, <1>2, WrapFacts
<1>6. r.high - r.low >= Page - 1 /\ r.high >= Page - 1
  BY <1>1, <1>2
<1>7. Roomy(r, Page, tid)
  BY <1>1, <1>2, <1>5, <1>6 DEF Roomy
<1>8. p >= low_a(r, Page) /\ Wrap(p + Page - 1) <= high_a(r, Page)
  BY <1>1, <1>2, <1>3, <1>4
<1> QED BY <1>7, <1>8 DEF can_allocate

LEMMA HoldingPage ==
  ASSUME NEW s, Sound(s), NEW pool \in Names, NEW p \in Pages, NEW tid
  PROVE  Holding(s, pool, p, Page, tid) # {} <=> Open(s, pool, p, tid)
<1>1. Spot(p, Page)
  BY PageSpot
<1>2. Tidy(Kind(pool), s[pool]) /\ Kind(pool) \subseteq Slack
  BY SoundKinds
<1>3. /\ Members(s[pool]) \subseteq Slack
      /\ \A k \in DOMAIN s[pool] : s[pool][k] \in Members(s[pool])
  <2>1. Members(s[pool]) \subseteq Kind(pool)
        /\ \A k \in DOMAIN s[pool] : s[pool][k] \in Members(s[pool])
    BY ONLY <1>2, TidyMembers
  <2> QED BY <1>2, <2>1
<1>4. p \in Nat /\ Page \in Nat \ {0}
  BY PageNumbers, Numbers
<1>5. ASSUME NEW i \in Holding(s, pool, p, Page, tid) PROVE Open(s, pool, p, tid)
  <2>1. PICK r : r = s[pool][i]
    OBVIOUS
  <2>2. /\ r \in Members(s[pool]) /\ r \in Slack /\ r.low <= p /\ p + Page - 1 <= r.high
        /\ r.owner \in {tid, Anythread}
    BY <1>1, <2>1, HoldingFacts
  <2>3. r.high \in Nat /\ p <= r.high
    BY <1>4, <2>2, SlackFacts
  <2> QED BY <2>2, <2>3 DEF Open, Has
<1>6. ASSUME Open(s, pool, p, tid) PROVE Holding(s, pool, p, Page, tid) # {}
  <2>1. PICK r \in Members(s[pool]) : r.owner \in {tid, Anythread} /\ r.low <= p /\ p <= r.high
    BY <1>6 DEF Open, Has
  <2>2. PICK i \in DOMAIN s[pool] : r = s[pool][i]
    BY DEF Members
  <2>3. can_allocate(r, p, Page, tid)
    BY <1>3, <2>1, CanPage
  <2> QED BY <2>2, <2>3 DEF Holding
<1> QED BY <1>5, <1>6

LEMMA PoolOfOpen ==
  ASSUME NEW s, Sound(s), NEW ps \in Seq(Names), NEW p \in Pages, NEW tid
  PROVE  PoolOf(s, ps, p, Page, tid) # 0 <=> \E k \in DOMAIN ps : Open(s, ps[k], p, tid)
<1>1. PICK has : has = {j \in DOMAIN ps : Holding(s, ps[j], p, Page, tid) # {}}
  OBVIOUS
<1>2. DOMAIN ps = 1..Len(ps) /\ Len(ps) \in Nat /\ \A j \in 1..Len(ps) : ps[j] \in Names
  BY SeqFacts
<1>3. has \in SUBSET Nat /\ 0 \notin has
  BY <1>1, <1>2
<1>4. has # {} => Min(has) \in has
  BY <1>3, LeastFacts
<1>5. PoolOf(s, ps, p, Page, tid) = IF has = {} THEN 0 ELSE Min(has)
  BY <1>1 DEF PoolOf
<1>6. PoolOf(s, ps, p, Page, tid) # 0 <=> has # {}
  BY <1>3, <1>4, <1>5
<1>7. \A j \in DOMAIN ps : j \in has <=> Open(s, ps[j], p, tid)
  BY <1>1, <1>2, HoldingPage
<1> QED BY <1>1, <1>6, <1>7

LEMMA OneOwner ==
  ASSUME NEW s, Sound(s), NEW pool \in Names, NEW p \in Pages,
         NEW o, NEW w, Has(s[pool], p, o), Has(s[pool], p, w)
  PROVE  o = w
<1>1. Tidy(Kind(pool), s[pool]) /\ Kind(pool) \subseteq Slack
  BY SoundKinds
<1>2. Members(s[pool]) \subseteq Kind(pool)
      /\ \A x, y \in Members(s[pool]) : x # y => Apart(x, y)
  BY ONLY <1>1, TidyMembers
<1>3. PICK x \in Members(s[pool]) : x.owner = o /\ x.low <= p /\ p <= x.high
  BY DEF Has
<1>4. PICK y \in Members(s[pool]) : y.owner = w /\ y.low <= p /\ p <= y.high
  BY DEF Has
<1>5. /\ p \in Nat /\ x.high \in Nat /\ y.high \in Nat /\ x.low \in Nat /\ y.low \in Nat
      /\ Base(x) \in Nat /\ Base(y) \in Nat /\ Base(x) <= x.low /\ Base(y) <= y.low
  BY <1>1, <1>2, SlackFacts, PageNumbers
<1>6. ~Apart(x, y)
  BY <1>3, <1>4, <1>5 DEF Apart
<1> QED BY <1>2, <1>3, <1>4, <1>6

\* sigma0 has taken no pages meanwhile.
Spare(s, x) == \A p \in Pages : Has(x.alloc, p, Sigma0Id) => Has(s.alloc, p, Sigma0Id)

LEMMA StaysOpen ==
  ASSUME NEW s, Sound(s), NEW H \in Homes, Fits(s, H, {}), NEW x, Sound(x), Fits(x, H, {}),
         Kept(s, x), NEW tid, Tracks(s, x, {Sigma0Id, tid}), Spare(s, x),
         NEW pool \in Names, NEW p \in Pages, Open(s, pool, p, tid)
  PROVE  Open(x, pool, p, tid) \/ Open(x, "alloc", p, tid)
<1>1. PICK o \in {tid, Anythread} : Has(s[pool], p, o)
  BY DEF Open
<1>2. CASE pool = "alloc"
  BY <1>1, <1>2 DEF Kept, Open
<1>3. CASE pool # "alloc"
  <2>1. InPool(s, pool, p)
    BY <1>1 DEF Has, InPool, In
  <2>2. "alloc" \in Names /\ H[p] \in Names \cup {"none"} /\ (pool = "conv" \/ pool = "mem")
    BY <1>3 DEF Names, Homes
  <2>3. \A q \in Names : q # pool => ~InPool(s, q, p)
    BY <2>1 DEF Sound, Excl
  <2>4. H[p] = pool /\ H[p] # "none"
    <3>1. /\ H[p] = "none" => \A q \in Names : ~InPool(s, q, p)
          /\ H[p] # "none" => InPool(s, "alloc", p) \/ InPool(s, H[p], p)
      BY DEF Fits
    <3> QED BY <1>3, <2>1, <2>2, <2>3, <3>1
  <2>5. InPool(x, "alloc", p) \/ InPool(x, pool, p)
    BY <2>4 DEF Fits
  <2>6. CASE InPool(x, "alloc", p)
    <3>1. PICK w : Has(x.alloc, p, w)
      BY <2>6 DEF InPool, In, Has
    <3>2. \A a : ~Has(s.alloc, p, a)
      BY <1>3, <2>2, <2>3 DEF InPool, In, Has
    <3>3. w \in {Sigma0Id, tid}
      BY <3>1, <3>2 DEF Tracks
    <3>4. w # Sigma0Id
      BY <3>1, <3>2 DEF Spare
    <3> QED BY <3>1, <3>3, <3>4 DEF Open
  <2>7. CASE InPool(x, pool, p)
    <3>1. PICK w : Has(x[pool], p, w)
      BY <2>7 DEF InPool, In, Has
    <3>2. Within(s[pool], x[pool])
      BY <2>2 DEF Tracks
    <3>3. Has(s[pool], p, w)
      BY <3>1, <3>2 DEF Within
    <3>4. w = o
      BY <1>1, <3>3, OneOwner
    <3> QED BY <3>1, <3>4 DEF Open
  <2> QED BY <2>5, <2>6, <2>7
<1> QED BY <1>2, <1>3

LEMMA StaysHad ==
  ASSUME NEW s, Sound(s), NEW H \in Homes, Fits(s, H, {}), NEW x, Sound(x), Fits(x, H, {}),
         Kept(s, x), NEW tid, Tracks(s, x, {Sigma0Id, tid}), Spare(s, x),
         NEW ps \in Ways, NEW p \in Pages, PoolOf(s, ps, p, Page, tid) # 0
  PROVE  PoolOf(x, ps, p, Page, tid) # 0
<1>1. ps \in Seq(Names) /\ \E k \in DOMAIN ps : ps[k] = "alloc"
  <2>1. "conv" \in Names /\ "alloc" \in Names /\ "mem" \in Names
    BY DEF Names
  <2>2. <<"conv", "alloc">> \in Seq(Names) /\ <<"conv", "alloc", "mem">> \in Seq(Names)
    BY <2>1
  <2>3. ps = <<"conv", "alloc">> \/ ps = <<"conv", "alloc", "mem">>
    BY DEF Ways
  <2>4. 2 \in DOMAIN ps /\ ps[2] = "alloc"
    BY <2>3
  <2> QED BY <2>2, <2>3, <2>4
<1>2. PICK k \in DOMAIN ps : Open(s, ps[k], p, tid)
  BY <1>1, PoolOfOpen
<1>3. PICK pool \in Names : pool = ps[k]
  BY <1>1, SeqFacts
<1>4. Open(s, pool, p, tid)
  BY <1>2, <1>3
<1>5. Open(x, pool, p, tid) \/ Open(x, "alloc", p, tid)
  BY <1>4, StaysOpen
<1>6. \E j \in DOMAIN ps : Open(x, ps[j], p, tid)
  BY <1>1, <1>3, <1>5
<1> QED BY <1>1, <1>6, PoolOfOpen

-----------------------------------------------------------------------------
(* allocate_page.                                                          *)

LEMMA SlowPagesFacts ==
  ASSUME NEW size, NEW addr, Spot(addr, size), addr + size - 1 # Top,
         NEW pages, pages = SlowPages(addr, size)
  PROVE  /\ pages \in Seq(Pages)
         /\ \A p \in Pages : addr <= p /\ p <= addr + size - 1 =>
              \E k \in 1..Len(pages) : pages[k] = p
<1>1. /\ addr \in Nat /\ addr % Page = 0 /\ size \in Nat \ {0} /\ addr + size - 1 <= Top
      /\ size % Page = 0 /\ Page \in Nat \ {0} /\ Top \in Nat
  BY SpotFacts, Numbers DEF Spot, Block
<1>2. PICK c \in Int : size = c * Page
  BY <1>1, MultipleOf
<1>3. size \div Page = c
  <2>1. PICK q \in Int, r \in 0..Page - 1 :
           size = Page * q + r /\ size % Page = r /\ size \div Page = q
    BY <1>1, Division
  <2>2. Page * q = Page * c
    BY <1>1, <1>2, <2>1
  <2> QED BY <1>1, <2>1, <2>2
<1>4. c \in Nat
  BY <1>1, <1>2
<1>5. pages = [k \in 1..c |-> addr + (k - 1) * Page]
  BY <1>3 DEF SlowPages
<1>6. ASSUME NEW k \in 1..c PROVE addr + (k - 1) * Page \in Pages
  <2>1. PICK j \in Nat : j = k - 1
    BY <1>4
  <2>2. j * Page \in Nat /\ j * Page + Page <= size
    <3>1. j + 1 <= c
      BY <1>4, <2>1
    <3>2. (j + 1) * Page <= c * Page
      BY ONLY <1>1, <1>4, <3>1, j \in Nat, SMT
    <3>3. (j + 1) * Page = j * Page + Page /\ j * Page \in Nat
      BY <1>1
    <3> QED BY <1>1, <1>2, <3>2, <3>3
  <2>3. PICK m \in Nat : m = j * Page
    BY <2>2
  <2>4. m % Page = 0
    <3>1. j \in Int
      OBVIOUS
    <3> QED BY ONLY <1>1, <2>3, <3>1, Multiple
  <2>5. (addr + m) % Page = 0
    <3>1. addr \in Int /\ m \in Int
      BY <1>1
    <3> QED BY ONLY <1>1, <2>4, <3>1, MultiplesSum
  <2>6. addr + m \in 0 .. Top
    BY <1>1, <2>2, <2>3
  <2>7. addr + m \in Pages
    BY <2>5, <2>6, PageNumbers
  <2> QED BY <2>1, <2>3, <2>7
<1>7. pages \in Seq(Pages) /\ Len(pages) = c
  BY <1>4, <1>5, <1>6
<1>8. ASSUME NEW p \in Pages, addr <= p, p <= addr + size - 1
      PROVE  \E k \in 1..c : pages[k] = p
  <2>1. p \in Nat /\ p % Page = 0
    BY PageNumbers DEF Pages
  <2>2. PICK m \in Nat : m = p - addr
    BY <1>1, <1>8, <2>1
  <2>3. m % Page = 0
    <3>1. addr \in Int /\ p \in Int
      BY <1>1, <2>1
    <3> QED BY ONLY <1>1, <2>1, <2>2, <3>1, MultiplesSum
  <2>4. PICK j \in Int : m = j * Page
    BY <1>1, <2>3, MultipleOf
  <2>5. m < size
    BY <1>1, <1>8, <2>1, <2>2
  <2>6. j >= 0 /\ j < c
    <3>1. j * Page < c * Page /\ j * Page >= 0
      BY <1>1, <1>2, <2>4, <2>5
    <3> QED BY ONLY <3>1, <1>1, j \in Int, c \in Int, SMT
  <2>7. PICK k \in 1..c : k = j + 1
    BY <1>4, <2>6
  <2>8. pages[k] = addr + (k - 1) * Page /\ k - 1 = j
    BY <1>5, <2>7
  <2>9. pages[k] = p
    BY <1>1, <2>1, <2>2, <2>4, <2>8
  <2> QED BY <2>9
<1> QED BY <1>7, <1>8

\* The loop over the pages is there to be computed.
LEMMA TakePagesLoop ==
  ASSUME NEW s, NEW ps, NEW addr, NEW size, NEW tid,
         NEW pages, pages = SlowPages(addr, size), NEW len \in Nat, len = Len(pages)
  PROVE  \E after :
           /\ after = [k \in 0..len |-> IF k = 0 THEN [s |-> s, done |-> TRUE]
                                      ELSE TakePage(after[k - 1], ps, pages[k], tid)]
           /\ TakePages(s, ps, addr, size, tid) = after[len]
<1> DEFINE first == [s |-> s, done |-> TRUE]
           Def(f, k) == f = [i \in 0..k |-> IF i = 0 THEN first
                                            ELSE TakePage(f[i - 1], ps, pages[i], tid)]
           bad == {k \in Nat : ~\E f : Def(f, k)}
<1> HIDE DEF first
<1>2. bad = {}
  <2> SUFFICES ASSUME bad # {} PROVE FALSE
    OBVIOUS
  <2>1. PICK k \in Nat : (~\E f : Def(f, k)) /\ \A l \in Nat : (~\E f : Def(f, l)) => k <= l
    <3> HIDE DEF Def
    <3>1. PICK k \in bad : \A l \in bad : k <= l
      BY LeastNumber
    <3> QED BY <3>1
  <2> HIDE DEF bad, Def
  <2>2. CASE k = 0
    <3>1. PICK f : f = [i \in 0..0 |-> first]
      OBVIOUS
    <3>2. f = [i \in 0..0 |-> IF i = 0 THEN first ELSE TakePage(f[i - 1], ps, pages[i], tid)]
      BY <3>1
    <3>3. Def(f, 0)
      BY <3>2 DEF Def
    <3> QED BY <3>3, <2>2, <2>1
  <2>3. CASE k # 0
    <3>1. k - 1 \in Nat /\ ~(k <= k - 1) /\ \E f : Def(f, k - 1)
      BY <2>3, <2>1
    <3>2. PICK g : Def(g, k - 1)
      BY <3>1
    <3>4. PICK h : h = [i \in 0..k |-> IF i = k THEN TakePage(g[k - 1], ps, pages[k], tid)
                                       ELSE g[i]]
      OBVIOUS
    <3>3. Def(h, k)
      <4>1. \A i \in 0..k - 1 : g[i] = IF i = 0 THEN first
                                       ELSE TakePage(g[i - 1], ps, pages[i], tid)
        BY <3>2 DEF Def
      <4>2. \A i \in 0..k : h[i] = IF i = 0 THEN first
                                   ELSE TakePage(h[i - 1], ps, pages[i], tid)
        <5>1. \A i \in 0..k - 1 : h[i] = g[i]
          BY <3>4
        <5>2. h[k] = TakePage(h[k - 1], ps, pages[k], tid)
          BY <5>1, <3>1, <3>4
        <5>3. ASSUME NEW i \in 0..k - 1
              PROVE  h[i] = IF i = 0 THEN first ELSE TakePage(h[i - 1], ps, pages[i], tid)
          <6>1. i # 0 => i - 1 \in 0..k - 1
            OBVIOUS
          <6> QED BY <6>1, <5>1, <4>1
        <5>4. \A i \in 0..k : i = k \/ i \in 0..k - 1
          OBVIOUS
        <5> QED BY <2>3, <5>2, <5>3, <5>4
      <4> QED BY <3>4, <4>2 DEF Def
    <3> QED BY <3>3, <2>1
  <2> QED BY <2>2, <2>3
<1>3. PICK f : f = (CHOOSE g : Def(g, len))
  OBVIOUS
<1>4. Def(f, len)
  <2>1. \E g : Def(g, len)
    BY <1>2
  <2> HIDE DEF Def
  <2> QED BY <2>1, <1>3
<1>5. TakePages(s, ps, addr, size, tid) = f[len]
  BY <1>3 DEF TakePages, first
<1> QED BY <1>4, <1>5 DEF first

LEMMA GetsKept ==
  ASSUME NEW x, NEW y, Kept(x, y), NEW addr, NEW size, NEW tid, Gets(x, addr, size, tid)
  PROVE  Gets(y, addr, size, tid)
  BY DEF Gets, Kept

\* The loop over pages has come to y; e says that none of them was refused.
Looped(s, H, t, y, e, ps, pages, k, tid) ==
  /\ Going(s, H, t, y, e)
  /\ e /\ y.ok => \A j \in 1..k : Gets(y, pages[j], Page, tid)
  /\ y.ok => Tracks(s, y, {Sigma0Id, tid})
  /\ y.ok /\ Spare(s, y) /\ (\A j \in 1..k : PoolOf(s, ps, pages[j], Page, tid) # 0) => e

LEMMA LoopedOn ==
  ASSUME NEW s, Sound(s), s.ok, NEW H \in Homes, Fits(s, H, {}), NEW ps \in Ways, NEW tid,
         NEW pages, NEW l \in Nat, NEW k, k = l + 1, NEW page \in Pages, page = pages[k],
         NEW t, NEW x, NEW d, Looped(s, H, t, x, d, ps, pages, l, tid),
         NEW v, NEW y, NEW e, Step(s, H, v, x, d, y, e, ps, page, tid)
  PROVE  Looped(s, H, v, y, e, ps, pages, k, tid)
<1>1. Going(s, H, v, y, e) /\ Kept(x, y)
  BY DEF Step
<1>2. ASSUME e /\ y.ok, NEW j \in 1..k PROVE Gets(y, pages[j], Page, tid)
  <2>1. CASE j = k
    BY <1>2, <2>1 DEF Step
  <2>2. CASE j # k
    <3>1. j \in 1..l /\ d /\ x.ok
      BY <1>2, <2>2 DEF Step
    <3> QED BY <1>1, <3>1, GetsKept DEF Looped
  <2> QED BY <2>1, <2>2
<1>3. ASSUME y.ok PROVE x.ok /\ Tracks(s, x, {Sigma0Id, tid}) /\ Tracks(s, y, {Sigma0Id, tid})
  <2>1. x.ok /\ Tracks(x, y, {Sigma0Id, tid})
    BY <1>3 DEF Step
  <2>2. Tracks(s, x, {Sigma0Id, tid})
    BY <2>1 DEF Looped
  <2>3. PICK os : os = {Sigma0Id, tid}
    OBVIOUS
  <2>4. Tracks(s, x, os) /\ Tracks(x, y, os) /\ os \subseteq os
    BY <2>1, <2>2, <2>3
  <2>5. Tracks(s, y, os)
    BY ONLY <2>4, TracksAgain
  <2> QED BY <2>1, <2>2, <2>3, <2>5
<1>4. ASSUME y.ok, Spare(s, y), \A j \in 1..k : PoolOf(s, ps, pages[j], Page, tid) # 0
      PROVE  e
  <2>1. Spare(s, x)
    BY <1>1, <1>4 DEF Spare, Kept
  <2>2. x.ok /\ Tracks(s, x, {Sigma0Id, tid})
    BY <1>3, <1>4
  <2>3. d
    <3>1. \A j \in 1..l : j \in 1..k
      OBVIOUS
    <3> QED BY <1>4, <2>1, <2>2, <3>1 DEF Looped
  <2>4. Kept(s, x) /\ Sound(x) /\ Fits(x, H, {})
    <3>1. Served(s, x, H)
      BY DEF Looped, Going
    <3> QED BY <2>2, <3>1 DEF Served, Lost
  <2>5. PoolOf(s, ps, page, Page, tid) # 0
    BY <1>4
  <2>6. PoolOf(x, ps, page, Page, tid) # 0
    BY ONLY Sound(s), H \in Homes, Fits(s, H, {}), ps \in Ways, page \in Pages,
            <2>1, <2>2, <2>4, <2>5, StaysHad
  <2> QED BY <2>2, <2>3, <2>6 DEF Step
<1> QED BY <1>1, <1>2, <1>3, <1>4 DEF Looped

LEMMA TakePagesFacts ==
  ASSUME NEW s, Sound(s), s.ok, NEW H \in Homes, Fits(s, H, {}), NEW ps \in Ways,
         NEW addr, NEW size, NEW tid \in Owners,
         NEW pages \in Seq(Pages), pages = SlowPages(addr, size),
         NEW t, t = TakePages(s, ps, addr, size, tid)
  PROVE  \E y : \E e : Looped(s, H, t, y, e, ps, pages, Len(pages), tid)
<1>1. PICK len \in Nat : len = Len(pages)
  BY SeqFacts
<1>2. PICK after :
        /\ after = [k \in 0..len |-> IF k = 0 THEN [s |-> s, done |-> TRUE]
                                   ELSE TakePage(after[k - 1], ps, pages[k], tid)]
        /\ TakePages(s, ps, addr, size, tid) = after[len]
  BY <1>1, TakePagesLoop, SMTT(60)
<1> DEFINE Good(k) == \E y : \E e : Looped(s, H, after[k], y, e, ps, pages, k, tid)
           bad == {k \in 0..len : ~Good(k)}
<1>3. bad = {}
  <2> SUFFICES ASSUME bad # {} PROVE FALSE
    OBVIOUS
  <2>1. PICK k \in 0..len : ~Good(k) /\ \A l \in 0..len : ~Good(l) => k <= l
    <3> HIDE DEF Good
    <3>1. bad \in SUBSET Nat
      OBVIOUS
    <3>2. PICK k \in bad : \A l \in bad : k <= l
      BY <3>1, LeastNumber
    <3> QED BY <3>2
  <2> HIDE DEF bad, Good
  <2>2. CASE k = 0
    <3>1. after[0] = [s |-> s, done |-> TRUE]
      BY <1>2
    <3>2. Served(s, s, H)
      BY DEF Served, Kept
    <3>3. Going(s, H, after[0], s, TRUE)
      BY <3>1, <3>2 DEF Going
    <3>4. \A j \in 1..0 : Gets(s, pages[j], Page, tid)
      OBVIOUS
    <3>5. Tracks(s, s, {Sigma0Id, tid})
      BY DEF Tracks, Within
    <3>6. Looped(s, H, after[0], s, TRUE, ps, pages, 0, tid)
      BY ONLY <3>3, <3>4, <3>5 DEF Looped
    <3>7. Good(0)
      BY <3>6 DEF Good
    <3> QED BY <2>1, <2>2, <3>7
  <2>3. CASE k # 0
    <3>1. k \in 1..len /\ k - 1 \in 0..len /\ Good(k - 1)
      BY <2>1, <2>3
    <3>2. PICK l \in 0..len : l = k - 1 /\ Good(l)
      BY <3>1
    <3>3. PICK x : \E d : Looped(s, H, after[l], x, d, ps, pages, l, tid)
      BY <3>2 DEF Good
    <3>4. PICK d : Looped(s, H, after[l], x, d, ps, pages, l, tid)
      BY <3>3
    <3>5. PICK page \in Pages : page = pages[k]
      BY <1>1, <3>1, SeqFacts
    <3>6. after[k] = TakePage(after[l], ps, page, tid)
      BY <1>2, <2>3, <3>2, <3>5
    <3>7. PICK y : \E e : Step(s, H, after[k], x, d, y, e, ps, page, tid)
      <4>1. Going(s, H, after[l], x, d)
        BY <3>4 DEF Looped
      <4> QED BY ONLY <3>5, <3>6, <4>1, H \in Homes, ps \in Ways, tid \in Owners, TakePageFacts
    <3>8. PICK e : Step(s, H, after[k], x, d, y, e, ps, page, tid)
      BY <3>7
    <3>9. Looped(s, H, after[k], y, e, ps, pages, k, tid)
      <4>1. l \in Nat /\ k = l + 1
        BY <3>1, <3>2
      <4> QED BY ONLY Sound(s), s.ok, H \in Homes, Fits(s, H, {}), ps \in Ways, <4>1,
                      <3>4, <3>5, <3>8, LoopedOn
    <3>10. Good(k)
      BY <3>9 DEF Good
    <3> QED BY <2>1, <3>10
  <2> QED BY <2>2, <2>3
<1>4. Good(len)
  BY <1>3
<1> QED BY <1>1, <1>2, <1>4

-----------------------------------------------------------------------------
\* What is served, and what the reply maps.
Answered(s, res, H, tid) ==
  /\ Served(s, res.s, H)
  /\ \A p \in PagesIn(res.map) : \E o \in {tid, Anythread} : Has(res.s.alloc, p, o)

LEMMA NilAnswered ==
  ASSUME NEW s, NEW u, NEW H, Served(s, u, H), NEW tid, NEW res, res = Result(u, Nilpage)
  PROVE  Answered(s, res, H, tid)
<1>1. res = [s |-> u, map |-> Nilpage]
  BY DEF Result
<1>2. res.s = u /\ res.map = <<0, 0>>
  BY <1>1 DEF Nilpage
<1>3. PagesIn(res.map) = {}
  <2>1. res.map[1] = 0 /\ res.map[2] = 0
    BY <1>2
  <2> SUFFICES ASSUME NEW p \in PagesIn(res.map) PROVE FALSE
    OBVIOUS
  <2>2. p \in Nat /\ res.map[1] <= p /\ p < res.map[1] + res.map[2]
    BY PageNumbers DEF PagesIn
  <2> QED BY ONLY <2>1, <2>2
<1> QED BY <1>2, <1>3 DEF Answered

LEMMA BlockAnswered ==
  ASSUME NEW s, NEW u, NEW H, Served(s, u, H), NEW tid, NEW addr, NEW size, Spot(addr, size),
         u.ok => Gets(u, addr, size, tid), NEW res, res = Result(u, <<addr, size>>)
  PROVE  Answered(s, res, H, tid)
<1>1. CASE u.ok
  <2>1. res = [s |-> u, map |-> <<addr, size>>]
    BY <1>1 DEF Result
  <2>2. res.s = u /\ res.map[1] = addr /\ res.map[2] = size
    BY <2>1
  <2>3. addr \in Nat /\ size \in Nat
    BY SpotFacts
  <2>4. \A p \in PagesIn(res.map) : p \in Pages /\ addr <= p /\ p <= addr + size - 1
    BY <2>2, <2>3, PageNumbers DEF PagesIn
  <2> QED BY <1>1, <2>2, <2>4 DEF Answered, Gets
<1>2. CASE ~u.ok
  <2>1. res = Result(u, Nilpage)
    BY <1>2 DEF Result
  <2> QED BY <2>1, NilAnswered
<1> QED BY <1>1, <1>2

LEMMA ServedSame ==
  ASSUME NEW s, Sound(s), s.ok, NEW H, Fits(s, H, {})
  PROVE  Served(s, s, H)
  BY DEF Served, Kept

LEMMA SlowFacts ==
  ASSUME NEW s, Sound(s), s.ok, NEW H \in Homes, Fits(s, H, {}), NEW ps \in Ways,
         NEW addr, NEW size, Spot(addr, size), NEW tid \in Owners,
         NEW res, res = Slow(s, ps, addr, size, tid)
  PROVE  Answered(s, res, H, tid)
<1>1. PICK pages : pages = SlowPages(addr, size)
  OBVIOUS
<1>2. Served(s, s, H)
  BY ServedSame
<1>3. CASE ~\A k \in DOMAIN pages : PoolOf(s, ps, pages[k], Page, tid) # 0
  <2>1. res = Result(s, Nilpage)
    BY <1>1, <1>3 DEF Slow
  <2> QED BY <1>2, <2>1, NilAnswered
<1>4. CASE /\ \A k \in DOMAIN pages : PoolOf(s, ps, pages[k], Page, tid) # 0
           /\ addr + size - 1 = Top
  <2>1. PICK u : u = [s EXCEPT !.ok = FALSE]
    OBVIOUS
  <2>2. res = Result(u, Nilpage)
    BY <1>1, <1>4, <2>1 DEF Slow
  <2>3. s \in PoolSet
    BY DEF Sound
  <2>4. Missed(s, u)
    BY <2>1, <2>3, LostStays DEF Missed
  <2>5. Served(s, u, H)
    BY <2>4, MissedKept DEF Served
  <2> QED BY <2>2, <2>5, NilAnswered
<1>5. CASE /\ \A k \in DOMAIN pages : PoolOf(s, ps, pages[k], Page, tid) # 0
           /\ addr + size - 1 # Top
  <2>1. PICK t : t = TakePages(s, ps, addr, size, tid)
    OBVIOUS
  <2>2. res = Taken(t, addr, size)
    BY <1>1, <1>5, <2>1 DEF Slow
  <2>3. /\ pages \in Seq(Pages)
        /\ \A p \in Pages : addr <= p /\ p <= addr + size - 1 =>
             \E k \in 1..Len(pages) : pages[k] = p
    <3>1. addr + size - 1 # Top
      BY <1>5
    <3> QED BY ONLY <1>1, <3>1, Spot(addr, size), SlowPagesFacts
  <2>4. PICK y : \E e : Looped(s, H, t, y, e, ps, pages, Len(pages), tid)
    BY <1>1, <2>1, <2>3, TakePagesFacts
  <2>5. PICK e : /\ Going(s, H, t, y, e)
                 /\ e /\ y.ok => \A j \in 1..Len(pages) : Gets(y, pages[j], Page, tid)
    BY <2>4 DEF Looped
  <2>6. t.s = y /\ t.done = e /\ Served(s, y, H)
    BY <2>5 DEF Going
  <2>7. CASE ~e
    <3>1. res = Result(y, Nilpage)
      BY <2>2, <2>6, <2>7 DEF Taken
    <3> QED BY <2>6, <3>1, NilAnswered
  <2>8. CASE e
    <3>1. res = Result(y, <<addr, size>>)
      BY <2>2, <2>6, <2>8 DEF Taken
    <3>2. ASSUME y.ok PROVE Gets(y, addr, size, tid)
      <4> SUFFICES ASSUME NEW p \in Pages, addr <= p, p <= addr + size - 1
                   PROVE  \E o \in {tid, Anythread} : Has(y.alloc, p, o)
        BY DEF Gets
      <4>1. PICK k \in 1..Len(pages) : pages[k] = p
        BY <2>3
      <4>2. Gets(y, p, Page, tid)
        BY <2>5, <2>8, <3>2, <4>1
      <4>3. p <= p /\ p <= p + Page - 1
        BY PageNumbers, Numbers
      <4> QED BY <4>2, <4>3 DEF Gets
    <3> QED BY <2>6, <3>1, <3>2, BlockAnswered
  <2> QED BY <2>7, <2>8
<1> QED BY <1>3, <1>4, <1>5

\* Requests name sizes that are blocks, or smaller than a page.
Sizes == {size \in Nat \ {0} : size >= Page => Block(size)}

LEMMA AtFacts ==
  ASSUME NEW s, Sound(s), s.ok, NEW H \in Homes, Fits(s, H, {}), NEW tid \in Owners,
         NEW at \in Nat, at <= Top, NEW size \in Sizes, NEW only \in BOOLEAN,
         NEW res, res = allocatePageAt(s, tid, at, size, only)
  PROVE  Answered(s, res, H, tid)
<1>1. PICK addr : addr = Down(at, size)
  OBVIOUS
<1>2. PICK ps : ps = IF only THEN <<"conv">> ELSE <<"conv", "mem">>
  OBVIOUS
<1>3. PICK ways : ways = IF only THEN <<"conv", "alloc">> ELSE <<"conv", "alloc", "mem">>
  OBVIOUS
<1>4. ps \in Seq({"conv", "mem"}) /\ ps \in Seq(Names) /\ ways \in Ways
  <2>1. "conv" \in Names /\ "mem" \in Names
    BY DEF Names
  <2>2. /\ <<"conv">> \in Seq(Names) /\ <<"conv", "mem">> \in Seq(Names)
        /\ <<"conv">> \in Seq({"conv", "mem"}) /\ <<"conv", "mem">> \in Seq({"conv", "mem"})
    BY <2>1
  <2> QED BY <1>2, <1>3, <2>2 DEF Ways
<1>5. Served(s, s, H)
  BY ServedSame
<1>6. PICK quick : quick = PoolOf(s, ps, addr, size, tid)
  OBVIOUS
<1>7. res = IF size < Page THEN Result(s, Nilpage)
            ELSE IF quick # 0
            THEN Result(Take(s, ps[quick], addr, size, tid), <<addr, size>>)
            ELSE IF Holding(s, "alloc", addr, size, tid) # {} THEN Result(s, <<addr, size>>)
            ELSE Slow(s, ways, addr, size, tid)
  BY <1>1, <1>2, <1>3, <1>6 DEF allocatePageAt
<1>8. CASE size < Page
  <2>1. res = Result(s, Nilpage)
    BY <1>7, <1>8
  <2> QED BY <1>5, <2>1, NilAnswered
<1>9. CASE ~(size < Page)
  <2>1. Block(size) /\ size \in Nat \ {0}
    BY <1>9, Numbers DEF Sizes
  <2>2. Spot(addr, size)
    <3>1. addr \in Nat /\ addr % size = 0 /\ addr <= at
      BY ONLY <1>1, <2>1, at \in Nat, DownFacts
    <3>2. addr <= Top
      BY <3>1, Numbers
    <3> QED BY <2>1, <3>1, <3>2 DEF Spot
  <2>3. quick = 0 \/ (quick \in DOMAIN ps /\ Holding(s, ps[quick], addr, size, tid) # {})
    BY <1>4, <1>6, PoolOfFacts
  <2>4. CASE quick # 0
    <3>1. PICK pool : pool = ps[quick]
      OBVIOUS
    <3>2. pool \in {"conv", "mem"} /\ Holding(s, pool, addr, size, tid) # {}
      BY <1>4, <2>3, <2>4, <3>1, SeqFacts
    <3>3. PICK u : u = Take(s, pool, addr, size, tid)
      OBVIOUS
    <3>4. Served(s, u, H) /\ (u.ok => Gets(u, addr, size, tid))
      BY ONLY <2>2, <3>2, <3>3, Sound(s), s.ok, H \in Homes, Fits(s, H, {}), tid \in Owners,
              TakeFacts DEF Dealt
    <3>5. res = Result(u, <<addr, size>>)
      BY <1>7, <1>9, <2>4, <3>1, <3>3
    <3> QED BY <2>2, <3>4, <3>5, BlockAnswered
  <2>5. CASE quick = 0 /\ Holding(s, "alloc", addr, size, tid) # {}
    <3>1. Gets(s, addr, size, tid)
      BY <2>2, <2>5, AllocHeld
    <3>2. res = Result(s, <<addr, size>>)
      BY <1>7, <1>9, <2>5
    <3> QED BY <1>5, <2>2, <3>1, <3>2, BlockAnswered
  <2>6. CASE quick = 0 /\ ~(Holding(s, "alloc", addr, size, tid) # {})
    <3>1. res = Slow(s, ways, addr, size, tid)
      BY <1>7, <1>9, <2>6
    <3> QED BY ONLY <1>4, <2>2, <3>1, Sound(s), s.ok, H \in Homes, Fits(s, H, {}),
                    tid \in Owners, SlowFacts
  <2> QED BY <2>4, <2>5, <2>6
<1> QED BY <1>8, <1>9

LEMMA AnyFacts ==
  ASSUME NEW s, Sound(s), s.ok, NEW H \in Homes, Fits(s, H, {}), NEW tid \in Owners,
         NEW size \in Sizes, NEW res, res = allocatePage(s, tid, size)
  PROVE  Answered(s, res, H, tid)
<1>1. PICK i : i = FirstFit(s.conv, size, tid)
  OBVIOUS
<1>2. PICK addr : addr = Anywhere(s.conv[i], size)
  OBVIOUS
<1>3. Served(s, s, H)
  BY ServedSame
<1>4. CASE size < Page \/ i = 0
  <2>1. res = Result(s, Nilpage)
    BY <1>1, <1>4 DEF allocatePage
  <2> QED BY <1>3, <2>1, NilAnswered
<1>5. CASE ~(size < Page \/ i = 0)
  <2>1. Block(size) /\ size \in Nat \ {0}
    BY <1>5, Numbers DEF Sizes
  <2>2. PICK pool \in {"conv", "mem"} : pool = "conv"
    OBVIOUS
  <2>3. s.conv \in Seq(Slack) /\ s[pool] = s.conv
    BY <2>2 DEF Sound, Tidy
  <2>4. i \in DOMAIN s[pool] /\ CanAnywhere(s.conv[i], size, tid)
    BY <1>1, <1>5, <2>3, FitFacts
  <2>5. PICK r : r = s[pool][i]
    OBVIOUS
  <2>6. r \in Slack /\ CanAnywhere(r, size, tid) /\ addr = Anywhere(r, size)
    BY <1>2, <2>3, <2>4, <2>5, SeqFacts
  <2>7. /\ addr \in Nat /\ addr % Page = 0 /\ r.low <= addr /\ addr + size - 1 <= r.high
    BY ONLY <2>1, <2>6, AnywhereFacts
  <2>8. PICK u : u = insertNew(allocate(s, pool, i, addr, size), "alloc",
                               region(addr, addr + size - 1, tid))
    OBVIOUS
  <2>9. Served(s, u, H) /\ (u.ok => Gets(u, addr, size, tid))
    BY ONLY <2>1, <2>4, <2>5, <2>7, <2>8, Sound(s), s.ok, H \in Homes, Fits(s, H, {}),
            pool \in {"conv", "mem"}, tid \in Owners, TakenFacts DEF Dealt
  <2>10. res = Result(u, <<addr, size>>)
    BY <1>1, <1>2, <1>5, <2>2, <2>8 DEF allocatePage
  <2>11. CASE u.ok
    <3>1. res.s = u /\ res.map[1] = addr /\ res.map[2] = size
      BY <2>10, <2>11 DEF Result
    <3>2. \A p \in PagesIn(res.map) : p \in Pages /\ addr <= p /\ p <= addr + size - 1
      BY <2>1, <2>7, <3>1, PageNumbers DEF PagesIn
    <3> QED BY <2>9, <2>11, <3>1, <3>2 DEF Answered, Gets
  <2>12. CASE ~u.ok
    <3>1. res = Result(u, Nilpage)
      BY <2>10, <2>12 DEF Result
    <3> QED BY <2>9, <3>1, NilAnswered
  <2> QED BY <2>11, <2>12
<1> QED BY <1>4, <1>5

-----------------------------------------------------------------------------
(* A range is taken out of a list: the loop of region_pool_t::remove.      *)

LEMMA TidyAppend ==
  ASSUME NEW T, T \subseteq Slack, NEW list, Tidy(T, list), NEW e \in T, ClearOf(list, e),
         NEW t, t = list \o <<e>>
  PROVE  Tidy(T, t) /\ Gains(list, t, e)
<1>1. list \in Seq(T) /\ \A k, j \in DOMAIN list : k # j => Apart(list[k], list[j])
  BY DEF Tidy
<1>2. PICK len \in Nat : len = Len(list) /\ DOMAIN list = 1..len
  BY <1>1, SeqFacts
<1>3. /\ t \in Seq(T) /\ Len(t) = len + 1 /\ DOMAIN t = 1..len + 1
      /\ \A k \in 1..len : t[k] = list[k]
      /\ t[len + 1] = e
  BY <1>1, <1>2
<1>4. \A j \in DOMAIN list : list[j] \in Members(list)
  BY DEF Members
<1>5. ASSUME NEW k \in DOMAIN t, NEW j \in DOMAIN t, k # j PROVE Apart(t[k], t[j])
  <2>1. CASE k = len + 1
    <3>1. j \in DOMAIN list /\ t[j] = list[j] /\ t[k] = e
      BY <1>2, <1>3, <1>5, <2>1
    <3> QED BY <1>4, <3>1, ApartSym DEF ClearOf
  <2>2. CASE j = len + 1
    <3>1. k \in DOMAIN list /\ t[k] = list[k] /\ t[j] = e
      BY <1>2, <1>3, <1>5, <2>2
    <3> QED BY <1>4, <3>1 DEF ClearOf
  <2>3. CASE k # len + 1 /\ j # len + 1
    <3>1. k \in DOMAIN list /\ t[k] = list[k] /\ j \in DOMAIN list /\ t[j] = list[j]
      BY <1>2, <1>3, <2>3
    <3> QED BY <1>1, <1>5, <3>1
  <2> QED BY <2>1, <2>2, <2>3
<1>6. Members(t) = Members(list) \cup {e}
  <2>1. len + 1 \in DOMAIN t /\ \A k \in DOMAIN t : k = len + 1 \/ k \in DOMAIN list
    BY <1>2, <1>3
  <2>2. \A k \in DOMAIN list : k \in DOMAIN t /\ t[k] = list[k]
    BY <1>2, <1>3
  <2>3. Members(t) \subseteq Members(list) \cup {e}
    BY <1>3, <2>1, <2>2 DEF Members
  <2>4. Members(list) \cup {e} \subseteq Members(t)
    BY <1>3, <2>1, <2>2 DEF Members
  <2> QED BY <2>3, <2>4
<1> QED BY <1>3, <1>5, <1>6 DEF Tidy, Gains

Aligned(low, high) ==
  /\ low \in 0 .. Top /\ high \in 0 .. Top /\ low <= high
  /\ low % Page = 0 /\ (high + 1) % Page = 0

InsideOf(r, low, high) == low > r.low /\ high < r.high
Gone(r, low, high) == low <= r.low /\ high >= r.high

\* What is left of r.
Piece(r, e, low, high) ==
  /\ e \in Spans /\ r.low <= e.low /\ e.high <= r.high
  /\ \A p \in Nat : e.low <= p /\ p <= e.high
                      <=> /\ r.low <= p /\ p <= r.high /\ ~(low <= p /\ p <= high)
                          /\ ~(InsideOf(r, low, high) /\ high < p)

LEMMA CutFacts ==
  ASSUME NEW low, NEW high, Aligned(low, high), NEW r \in Spans,
         NEW c, c = Cut(r, low, high)
  PROVE  \/ Gone(r, low, high) /\ c = <<>>
         \/ ~Gone(r, low, high) /\ \E e \in Spans : c = <<e>> /\ Piece(r, e, low, high)
<1>1. /\ low \in Nat /\ high \in Nat /\ high <= Top /\ Top \in Nat /\ low <= high
      /\ low % Page = 0 /\ (high + 1) % Page = 0
  BY Numbers DEF Aligned
<1>2. /\ r.low \in Nat /\ r.high \in Nat /\ r.low <= r.high /\ r.high <= Top
      /\ r.low % Page = 0 /\ (r.high + 1) % Page = 0 /\ r.owner \in Owners
      /\ r = region(r.low, r.high, r.owner)
  BY SpansFacts, SlackFacts
<1>3. CASE Gone(r, low, high)
  BY <1>1, <1>2, <1>3 DEF Gone, Cut
<1>4. CASE low <= r.low /\ high >= r.low /\ high < r.high
  <2>1. PICK e : e = region(high + 1, r.high, r.owner)
    OBVIOUS
  <2>2. e \in Spans /\ e.low = high + 1 /\ e.high = r.high
    <3>1. PICK a \in 0 .. Top : a = high + 1
      BY <1>1, <1>2, <1>4
    <3>2. a % Page = 0 /\ r.high \in 0 .. Top /\ a <= r.high + 1 /\ a <= r.high
      BY <1>1, <1>2, <1>4, <3>1
    <3>3. e = region(a, r.high, r.owner)
      BY <2>1, <3>1
    <3>4. e \in Spans /\ e.low = a /\ e.high = r.high
      BY ONLY <1>2, <3>2, <3>3, a \in 0 .. Top, SlackRegion
    <3> QED BY <3>1, <3>4
  <2>3. [r EXCEPT !.low = high + 1] = e
    <3>1. r = region(r.low, r.high, r.owner)
      BY <1>2
    <3>2. PICK a : a = high + 1
      OBVIOUS
    <3>3. [r EXCEPT !.low = a] = region(a, r.high, r.owner)
      BY ONLY <3>1 DEF region
    <3> QED BY <2>1, <3>2, <3>3
  <2>4. c = <<e>>
    BY <1>1, <1>2, <1>4, <2>3 DEF Cut
  <2>5. Piece(r, e, low, high)
    BY <1>1, <1>2, <1>4, <2>2 DEF Piece, InsideOf
  <2>6. ~Gone(r, low, high)
    BY <1>1, <1>2, <1>4 DEF Gone
  <2> QED BY <2>2, <2>4, <2>5, <2>6
<1>5. CASE low > r.low /\ low <= r.high
  <2>1. PICK e : e = region(r.low, low - 1, r.owner)
    OBVIOUS
  <2>2. e \in Spans /\ e.low = r.low /\ e.high = low - 1
    <3>1. PICK b \in 0 .. Top : b = low - 1
      BY <1>1, <1>2, <1>5
    <3>2. b + 1 = low
      BY <1>1, <3>1
    <3>3. (b + 1) % Page = 0 /\ r.low \in 0 .. Top /\ r.low <= b + 1 /\ r.low <= b
      BY <1>1, <1>2, <1>5, <3>1, <3>2
    <3>4. e = region(r.low, b, r.owner)
      BY <2>1, <3>1
    <3>5. e \in Spans /\ e.low = r.low /\ e.high = b
      BY ONLY <1>2, <3>3, <3>4, b \in 0 .. Top, SlackRegion
    <3> QED BY <3>1, <3>5
  <2>3. [r EXCEPT !.high = low - 1] = e
    <3>1. r = region(r.low, r.high, r.owner)
      BY <1>2
    <3>2. PICK b : b = low - 1
      OBVIOUS
    <3>3. [r EXCEPT !.high = b] = region(r.low, b, r.owner)
      BY ONLY <3>1 DEF region
    <3> QED BY <2>1, <3>2, <3>3
  <2>4. c = <<e>>
    BY <1>1, <1>2, <1>5, <2>3 DEF Cut
  <2>5. Piece(r, e, low, high)
    BY <1>1, <1>2, <1>5, <2>2 DEF Piece, InsideOf
  <2>6. ~Gone(r, low, high)
    BY <1>1, <1>2, <1>5 DEF Gone
  <2> QED BY <2>2, <2>4, <2>5, <2>6
<1>6. CASE high < r.low \/ low > r.high
  <2>1. c = <<r>>
    BY <1>1, <1>2, <1>6 DEF Cut
  <2>2. Piece(r, r, low, high)
    BY <1>1, <1>2, <1>6 DEF Piece, InsideOf
  <2>3. ~Gone(r, low, high)
    BY <1>1, <1>2, <1>6 DEF Gone
  <2> QED BY <2>1, <2>2, <2>3
<1> QED BY <1>1, <1>2, <1>3, <1>4, <1>5, <1>6 DEF Gone

LEMMA PiecesApart ==
  ASSUME NEW low, NEW high, NEW x \in Spans, NEW y \in Spans, Apart(x, y),
         NEW e, NEW f, Piece(x, e, low, high), Piece(y, f, low, high)
  PROVE  Apart(e, f)
<1>1. /\ e \in Spans /\ f \in Spans /\ x.low <= e.low /\ e.high <= x.high
      /\ y.low <= f.low /\ f.high <= y.high
  BY DEF Piece
<1>2. /\ Base(x) = x.low /\ Base(y) = y.low /\ Base(e) = e.low /\ Base(f) = f.low
      /\ \A z \in Spans : z.low \in Nat /\ z.high \in Nat /\ z.low <= z.high
  BY <1>1, SpansFacts, SlackFacts
<1> QED BY <1>1, <1>2 DEF Apart

-----------------------------------------------------------------------------
LEMMA FlattenLoop ==
  ASSUME NEW seqs, NEW len \in Nat \ {0}, Len(seqs) = len
  PROVE  \E flat :
           /\ flat = [k \in 1..len |-> IF k = 1 THEN seqs[k] ELSE flat[k - 1] \o seqs[k]]
           /\ FlattenSeq(seqs) = flat[len]
<1> DEFINE Def(f, k) == f = [i \in 1..k |-> IF i = 1 THEN seqs[i] ELSE f[i - 1] \o seqs[i]]
           bad == {k \in Nat : k # 0 /\ ~\E f : Def(f, k)}
<1>2. bad = {}
  <2> SUFFICES ASSUME bad # {} PROVE FALSE
    OBVIOUS
  <2>1. PICK k \in Nat : /\ k # 0 /\ ~\E f : Def(f, k)
                         /\ \A l \in Nat : l # 0 /\ (~\E f : Def(f, l)) => k <= l
    <3> HIDE DEF Def
    <3>1. PICK k \in bad : \A l \in bad : k <= l
      BY LeastNumber
    <3> QED BY <3>1
  <2> HIDE DEF bad, Def
  <2>2. CASE k = 1
    <3>1. PICK f : f = [i \in 1..1 |-> seqs[1]]
      OBVIOUS
    <3>2. f = [i \in 1..1 |-> IF i = 1 THEN seqs[i] ELSE f[i - 1] \o seqs[i]]
      BY <3>1
    <3>3. Def(f, 1)
      BY <3>2 DEF Def
    <3> QED BY <3>3, <2>2, <2>1
  <2>3. CASE k # 1
    <3>1. k - 1 \in Nat /\ k - 1 # 0 /\ ~(k <= k - 1) /\ \E f : Def(f, k - 1)
      BY <2>3, <2>1
    <3>2. PICK g : Def(g, k - 1)
      BY <3>1
    <3>4. PICK h : h = [i \in 1..k |-> IF i = k THEN g[k - 1] \o seqs[k] ELSE g[i]]
      OBVIOUS
    <3>3. Def(h, k)
      <4>1. \A i \in 1..k - 1 : g[i] = IF i = 1 THEN seqs[i] ELSE g[i - 1] \o seqs[i]
        BY <3>2 DEF Def
      <4>2. \A i \in 1..k : h[i] = IF i = 1 THEN seqs[i] ELSE h[i - 1] \o seqs[i]
        <5>1. \A i \in 1..k - 1 : h[i] = g[i]
          BY <3>4
        <5>2. h[k] = h[k - 1] \o seqs[k]
          <6>1. k - 1 \in 1..k - 1 /\ k \in 1..k
            BY <3>1
          <6>2. h[k - 1] = g[k - 1]
            BY <5>1, <6>1
          <6>3. h[k] = g[k - 1] \o seqs[k]
            BY ONLY <3>4, <6>1
          <6> QED BY <6>2, <6>3
        <5>3. ASSUME NEW i \in 1..k - 1
              PROVE  h[i] = IF i = 1 THEN seqs[i] ELSE h[i - 1] \o seqs[i]
          <6>1. i # 1 => i - 1 \in 1..k - 1
            OBVIOUS
          <6> QED BY <6>1, <5>1, <4>1
        <5>4. \A i \in 1..k : i = k \/ i \in 1..k - 1
          OBVIOUS
        <5> QED BY <2>3, <5>2, <5>3, <5>4
      <4> QED BY <3>4, <4>2 DEF Def
    <3> QED BY <3>3, <2>1
  <2> QED BY <2>2, <2>3
<1>3. PICK f : f = (CHOOSE g : Def(g, len))
  OBVIOUS
<1>4. Def(f, len)
  <2>2. len \notin bad /\ len \in Nat /\ len # 0
    BY <1>2
  <2>1. \E g : Def(g, len)
    BY <2>2
  <2> HIDE DEF Def
  <2> QED BY <2>1, <1>3
<1>5. FlattenSeq(seqs) = f[len]
  BY <1>3 DEF FlattenSeq
<1> QED BY <1>4, <1>5

\* The pieces that are left.
LeftOf(list, t, k, low, high) ==
  /\ Tidy(Spans, t)
  /\ \A e \in Members(t) : \E i \in 1..k : Piece(list[i], e, low, high)
  /\ \A i \in 1..k : Gone(list[i], low, high)
                     \/ \E e \in Members(t) : Piece(list[i], e, low, high)

LEMMA NoneLeft ==
  ASSUME NEW list, NEW low, NEW high
  PROVE  LeftOf(list, <<>>, 0, low, high)
<1>1. Tidy(Spans, <<>>)
  BY DEF Tidy
<1>2. Members(<<>>) = {}
  BY DEF Members
<1> QED BY <1>1, <1>2 DEF LeftOf

LEMMA OneMoreLeft ==
  ASSUME NEW low, NEW high, Aligned(low, high), NEW list, Tidy(Spans, list),
         NEW l \in Nat, NEW k \in DOMAIN list, k = l + 1, NEW t, LeftOf(list, t, l, low, high),
         NEW c, c = Cut(list[k], low, high), NEW v, v = t \o c
  PROVE  LeftOf(list, v, k, low, high)
<1>1. /\ list \in Seq(Spans) /\ \A i, j \in DOMAIN list : i # j => Apart(list[i], list[j])
      /\ t \in Seq(Spans) /\ Tidy(Spans, t)
  BY DEF Tidy, LeftOf
<1>2. PICK len \in Nat : /\ len = Len(list) /\ DOMAIN list = 1..len
                         /\ \A i \in 1..len : list[i] \in Spans
  BY <1>1, SeqFacts
<1>3. k \in 1..len /\ \A i \in 1..k : i = k \/ (i \in 1..l /\ i # k)
  BY <1>2
<1>4. PICK r \in Spans : r = list[k]
  BY <1>2, <1>3
<1>5. CASE Gone(r, low, high) /\ c = <<>>
  <2>1. v = t
    BY <1>1, <1>5
  <2> QED BY <1>3, <1>4, <1>5, <2>1 DEF LeftOf
<1>6. ASSUME NEW e \in Spans, c = <<e>>, Piece(r, e, low, high), ~Gone(r, low, high)
      PROVE  LeftOf(list, v, k, low, high)
  <2>1. ClearOf(t, e)
    <3> SUFFICES ASSUME NEW y \in Members(t) PROVE Apart(y, e)
      BY DEF ClearOf
    <3>1. PICK i \in 1..l : Piece(list[i], y, low, high)
      BY DEF LeftOf
    <3>2. i \in 1..len /\ i # k
      BY <1>2, <1>3, <3>1
    <3>3. list[i] \in Spans /\ Apart(list[i], r)
      BY <1>1, <1>2, <1>3, <1>4, <3>2
    <3> QED BY ONLY <1>6, <3>1, <3>3, r \in Spans, PiecesApart
  <2>2. Tidy(Spans, v) /\ Gains(t, v, e)
    BY ONLY <1>1, <1>6, <2>1, v = t \o c, SpansSlack, TidyAppend
  <2>3. Members(v) = Members(t) \cup {e}
    BY <2>2 DEF Gains
  <2>4. \A y \in Members(v) : \E i \in 1..k : Piece(list[i], y, low, high)
    BY <1>3, <1>4, <1>6, <2>3 DEF LeftOf
  <2>5. ASSUME NEW i \in 1..k
        PROVE  Gone(list[i], low, high) \/ \E y \in Members(v) : Piece(list[i], y, low, high)
    BY <1>3, <1>4, <1>6, <2>3 DEF LeftOf
  <2> QED BY <2>2, <2>4, <2>5 DEF LeftOf
<1> QED BY <1>4, <1>5, <1>6, CutFacts

LEMMA FlattenFacts ==
  ASSUME NEW low, NEW high, Aligned(low, high), NEW list, Tidy(Spans, list),
         NEW len \in Nat, len = Len(list),
         NEW kept, kept = FlattenSeq([i \in DOMAIN list |-> Cut(list[i], low, high)])
  PROVE  LeftOf(list, kept, len, low, high)
<1>1. DOMAIN list = 1..len /\ \A i \in 1..len : list[i] \in Spans
  BY SeqFacts DEF Tidy
<1>2. PICK seqs : seqs = [i \in 1..len |-> Cut(list[i], low, high)]
  OBVIOUS
<1>3. kept = FlattenSeq(seqs)
  BY <1>1, <1>2
<1>4. Len(seqs) = len
  BY <1>2
<1>5. CASE len = 0
  <2>1. seqs = <<>>
    BY <1>2, <1>5
  <2>2. kept = <<>>
    BY <1>3, <1>4, <1>5, <2>1 DEF FlattenSeq
  <2> QED BY <1>5, <2>2, NoneLeft
<1>6. CASE len # 0
  <2>1. len \in Nat \ {0}
    BY <1>6
  <2>2. PICK flat :
          /\ flat = [k \in 1..len |-> IF k = 1 THEN seqs[k] ELSE flat[k - 1] \o seqs[k]]
          /\ FlattenSeq(seqs) = flat[len]
    BY ONLY <1>4, <2>1, FlattenLoop
  <2> DEFINE bad == {k \in 1..len : ~LeftOf(list, flat[k], k, low, high)}
  <2>3. bad = {}
    <3> SUFFICES ASSUME bad # {} PROVE FALSE
      OBVIOUS
    <3>1. PICK k \in 1..len : /\ ~LeftOf(list, flat[k], k, low, high)
                            /\ \A l \in 1..len : ~LeftOf(list, flat[l], l, low, high) => k <= l
      <4>1. bad \in SUBSET Nat
        OBVIOUS
      <4>2. PICK k \in bad : \A l \in bad : k <= l
        BY <4>1, LeastNumber
      <4> QED BY <4>2
    <3> HIDE DEF bad
    <3>2. PICK c : c = Cut(list[k], low, high)
      OBVIOUS
    <3>3. seqs[k] = c /\ k \in DOMAIN list
      BY <1>1, <1>2, <3>2
    <3>4. PICK l \in Nat : k = l + 1
      <4>1. k - 1 \in Nat /\ k = (k - 1) + 1
        OBVIOUS
      <4> QED BY <4>1
    <3>5. CASE k = 1
      <4>1. l = 0
        BY <3>4, <3>5
      <4>2. LeftOf(list, <<>>, l, low, high)
        BY <4>1, NoneLeft
      <4>3. PICK v : v = <<>> \o c
        OBVIOUS
      <4>4. LeftOf(list, v, k, low, high)
        BY ONLY <3>2, <3>3, <3>4, <4>2, <4>3, Aligned(low, high), Tidy(Spans, list), OneMoreLeft
      <4>5. v = c
        <5>1. PICK r \in Spans : r = list[k]
          BY <1>1
        <5>2. c = Cut(r, low, high)
          BY <3>2, <5>1
        <5>3. c = <<>> \/ \E e \in Spans : c = <<e>>
          BY ONLY <5>2, r \in Spans, Aligned(low, high), CutFacts
        <5> QED BY <4>3, <5>3
      <4>6. flat[k] = c
        BY <2>2, <3>3, <3>5
      <4> QED BY <3>1, <4>4, <4>5, <4>6
    <3>6. CASE k # 1
      <4>1. l \in 1..len /\ ~(k <= l) /\ k - 1 = l
        BY <3>4, <3>6
      <4>2. LeftOf(list, flat[l], l, low, high)
        BY <3>1, <4>1
      <4>3. flat[k] = flat[l] \o c
        <5>1. flat[k] = flat[k - 1] \o seqs[k]
          BY ONLY <2>2, <3>6, k \in 1..len
        <5> QED BY <3>3, <4>1, <5>1
      <4>4. LeftOf(list, flat[k], k, low, high)
        BY ONLY <3>2, <3>3, <3>4, <4>2, <4>3, Aligned(low, high), Tidy(Spans, list), OneMoreLeft
      <4> QED BY <3>1, <4>4
    <3> QED BY <3>5, <3>6
  <2>4. len \in 1..len
    BY <2>1
  <2>5. LeftOf(list, flat[len], len, low, high)
    BY <2>3, <2>4
  <2> QED BY <1>3, <2>2, <2>5
<1> QED BY <1>5, <1>6

\* The pages that the list is left with.
LEMMA LeftPages ==
  ASSUME NEW low, NEW high, Aligned(low, high), NEW list, Tidy(Spans, list),
         NEW len \in Nat, len = Len(list), NEW kept, LeftOf(list, kept, len, low, high),
         NEW p \in Pages
  PROVE  In(kept, p) <=> \E i \in DOMAIN list :
                            /\ list[i].low <= p /\ p <= list[i].high
                            /\ ~(low <= p /\ p <= high)
                            /\ ~(InsideOf(list[i], low, high) /\ high < p)
<1>1. DOMAIN list = 1..len /\ \A i \in 1..len : list[i] \in Spans
  BY SeqFacts DEF Tidy
<1>2. p \in Nat
  BY PageNumbers
<1>3. ASSUME NEW i \in 1..len, NEW e, Piece(list[i], e, low, high)
      PROVE  e.low <= p /\ p <= e.high
               <=> /\ list[i].low <= p /\ p <= list[i].high /\ ~(low <= p /\ p <= high)
                   /\ ~(InsideOf(list[i], low, high) /\ high < p)
  BY <1>2, <1>3 DEF Piece
<1>4. ASSUME NEW i \in 1..len, Gone(list[i], low, high),
             list[i].low <= p, p <= list[i].high
      PROVE  low <= p /\ p <= high
  <2>1. list[i].low \in Nat /\ list[i].high \in Nat /\ low \in Nat /\ high \in Nat
    BY <1>1, SpansFacts, SlackFacts, Numbers DEF Aligned
  <2> QED BY <1>2, <1>4, <2>1 DEF Gone
<1>5. ASSUME In(kept, p)
      PROVE  \E i \in DOMAIN list :
                /\ list[i].low <= p /\ p <= list[i].high
                /\ ~(low <= p /\ p <= high)
                /\ ~(InsideOf(list[i], low, high) /\ high < p)
  <2>1. PICK e \in Members(kept) : e.low <= p /\ p <= e.high
    BY <1>5 DEF In
  <2>2. PICK i \in 1..len : Piece(list[i], e, low, high)
    BY DEF LeftOf
  <2> QED BY <1>1, <1>3, <2>1, <2>2
<1>6. ASSUME NEW i \in DOMAIN list, list[i].low <= p, p <= list[i].high,
             ~(low <= p /\ p <= high), ~(InsideOf(list[i], low, high) /\ high < p)
      PROVE  In(kept, p)
  <2>1. i \in 1..len
    BY <1>1
  <2>2. ~Gone(list[i], low, high)
    BY <1>4, <1>6, <2>1
  <2>3. PICK e \in Members(kept) : Piece(list[i], e, low, high)
    BY <2>1, <2>2 DEF LeftOf
  <2>4. e.low <= p /\ p <= e.high
    BY <1>3, <1>6, <2>1, <2>3
  <2> QED BY <2>4 DEF In
<1> QED BY <1>5, <1>6

LEMMA LosesAll ==
  ASSUME NEW low, NEW high, Aligned(low, high), NEW list, Tidy(Spans, list),
         NEW len \in Nat, len = Len(list), NEW kept, LeftOf(list, kept, len, low, high),
         \A i \in DOMAIN list : ~InsideOf(list[i], low, high)
  PROVE  Loses(list, kept, low, high)
<1> SUFFICES ASSUME NEW p \in Pages
             PROVE  In(kept, p) <=> In(list, p) /\ ~(low <= p /\ p <= high)
  BY DEF Loses
<1>1. In(kept, p) <=> \E i \in DOMAIN list :
                         /\ list[i].low <= p /\ p <= list[i].high
                         /\ ~(low <= p /\ p <= high)
                         /\ ~(InsideOf(list[i], low, high) /\ high < p)
  BY LeftPages
<1>2. In(list, p) <=> \E i \in DOMAIN list : list[i].low <= p /\ p <= list[i].high
  BY DEF In, Members
<1> QED BY <1>1, <1>2

\* No two regions have all of the range inside.
LEMMA OneInside ==
  ASSUME NEW low, NEW high, Aligned(low, high), NEW list, Tidy(Spans, list),
         NEW i \in DOMAIN list, InsideOf(list[i], low, high), NEW j \in DOMAIN list,
         NEW p \in Nat, low <= p, list[j].low <= p, p <= list[j].high, p <= list[i].high
  PROVE  i = j
<1> SUFFICES ASSUME i # j PROVE FALSE
  OBVIOUS
<1>1. Apart(list[i], list[j]) /\ list[i] \in Spans /\ list[j] \in Spans
  BY SeqFacts DEF Tidy
<1>2. /\ list[i].low \in Nat /\ list[i].high \in Nat /\ Base(list[i]) = list[i].low
      /\ list[j].low \in Nat /\ list[j].high \in Nat /\ Base(list[j]) = list[j].low
      /\ low \in Nat
  BY <1>1, SpansFacts, SlackFacts DEF Aligned
<1>3. list[i].low < low
  BY <1>2 DEF InsideOf
<1> QED BY <1>1, <1>2, <1>3 DEF Apart

LEMMA LosesEnd ==
  ASSUME NEW low, NEW high, Aligned(low, high), NEW list, Tidy(Spans, list),
         NEW len \in Nat, len = Len(list), NEW kept, LeftOf(list, kept, len, low, high),
         NEW j \in DOMAIN list, InsideOf(list[j], low, high), NEW b, b = list[j].high
  PROVE  Loses(list, kept, low, b) /\ HoldsAll(list, low, b)
<1>1. list[j] \in Spans
  BY SeqFacts DEF Tidy
<1>2. /\ list[j].low \in Nat /\ b \in Nat /\ low \in Nat /\ high \in Nat
      /\ list[j].low < low /\ high < b
  BY <1>1, SpansFacts, SlackFacts, Numbers DEF Aligned, InsideOf
<1>3. ASSUME NEW p \in Pages
      PROVE  In(kept, p) <=> In(list, p) /\ ~(low <= p /\ p <= b)
  <2>1. In(kept, p) <=> \E i \in DOMAIN list :
                           /\ list[i].low <= p /\ p <= list[i].high
                           /\ ~(low <= p /\ p <= high)
                           /\ ~(InsideOf(list[i], low, high) /\ high < p)
    BY LeftPages
  <2>2. In(list, p) <=> \E i \in DOMAIN list : list[i].low <= p /\ p <= list[i].high
    BY DEF In, Members
  <2>3. p \in Nat
    BY PageNumbers
  <2>4. ASSUME NEW i \in DOMAIN list, low <= p, p <= b, list[i].low <= p, p <= list[i].high
        PROVE  i = j
    BY <1>2, <2>3, <2>4, OneInside
  <2>5. ASSUME NEW i \in DOMAIN list, list[i].low <= p, p <= list[i].high,
               ~(low <= p /\ p <= high), ~(InsideOf(list[i], low, high) /\ high < p)
        PROVE  ~(low <= p /\ p <= b)
    <3> SUFFICES ASSUME low <= p, p <= b PROVE FALSE
      OBVIOUS
    <3>1. i = j
      BY <2>4, <2>5
    <3>2. high < p
      BY <1>2, <2>3, <2>5
    <3> QED BY <2>5, <3>1, <3>2
  <2>6. ASSUME NEW i \in DOMAIN list, list[i].low <= p, p <= list[i].high,
               ~(low <= p /\ p <= b)
        PROVE  /\ ~(low <= p /\ p <= high)
               /\ ~(InsideOf(list[i], low, high) /\ high < p)
    <3>1. ~(low <= p /\ p <= high)
      BY <1>2, <2>3, <2>6
    <3>2. ASSUME InsideOf(list[i], low, high), high < p PROVE FALSE
      <4>1. low <= p /\ low <= low /\ list[j].low <= low /\ low <= list[j].high
            /\ low <= list[i].high
        <5>1. list[i] \in Spans /\ low <= high
          BY SeqFacts DEF Tidy, Aligned
        <5>2. list[i].high \in Nat
          BY <5>1, SpansFacts, SlackFacts
        <5> QED BY <1>2, <2>3, <3>2, <5>1, <5>2 DEF InsideOf
      <4>2. i = j
        BY <1>2, <3>2, <4>1, OneInside
      <4> QED BY <1>2, <2>3, <2>6, <4>1, <4>2
    <3> QED BY <3>1, <3>2
  <2> QED BY <2>1, <2>2, <2>5, <2>6
<1>4. HoldsAll(list, low, b)
  <2>1. list[j] \in Members(list) /\ list[j].low <= low /\ b <= list[j].high
        /\ list[j].high \in Nat
    BY <1>2 DEF Members
  <2>2. PICK r : r = list[j]
    OBVIOUS
  <2>3. r \in Members(list) /\ r.low <= low /\ b <= r.high /\ r.high \in Nat /\ r.low \in Nat
    BY <1>2, <2>1, <2>2
  <2>4. \A p \in Pages : low <= p /\ p <= b => In(list, p)
    BY ONLY <1>2, <2>3, BlockIn
  <2> QED BY <2>4 DEF HoldsAll
<1> QED BY <1>3, <1>4 DEF Loses

LEMMA ShrunkFits ==
  ASSUME NEW s, Sound(s), NEW pool \in Names, NEW t \in Seq(Slack), Tidy(Kind(pool), t),
         NEW a, NEW b, Loses(s[pool], t, a, b), NEW f \in Int,
         NEW u, u = Update(s, pool, t, f)
  PROVE  /\ Sound(u) /\ (s.ok => u.ok) /\ u[pool] = t
         /\ \A q \in Names : q # pool => u[q] = s[q]
         /\ FitsBut(s, u, Between(a, b))
<1>1. Sound(u) /\ (s.ok => u.ok)
  BY ShrinkFacts
<1>2. s \in PoolSet
  BY DEF Sound
<1>3. u[pool] = t /\ \A q \in Names : q # pool => u[q] = s[q]
  BY <1>2 DEF PoolSet, Names, Update
<1>4. \A p \in Pages : ~(a <= p /\ p <= b) =>
        \A q \in Names : InPool(u, q, p) <=> InPool(s, q, p)
  BY <1>3 DEF InPool, Loses
<1>5. FitsBut(s, u, Between(a, b))
  <2> SUFFICES ASSUME NEW H \in Homes, NEW X, Fits(s, H, X),
                      NEW p \in Pages \ (X \cup Between(a, b))
               PROVE  /\ H[p] = "none" => \A q \in Names : ~InPool(u, q, p)
                      /\ H[p] # "none" => InPool(u, "alloc", p) \/ InPool(u, H[p], p)
    BY DEF Fits, FitsBut
  <2>1. p \in Pages /\ p \notin X /\ ~(a <= p /\ p <= b)
    BY DEF Between
  <2>2. /\ H[p] = "none" => \A q \in Names : ~InPool(s, q, p)
        /\ H[p] # "none" => InPool(s, "alloc", p) \/ InPool(s, H[p], p)
    BY <2>1 DEF Fits
  <2>3. H[p] \in Names \cup {"none"} /\ "alloc" \in Names
    BY DEF Homes, Names
  <2>4. \A q \in Names : InPool(u, q, p) <=> InPool(s, q, p)
    BY <1>4, <2>1
  <2> QED BY <2>2, <2>3, <2>4
<1> QED BY <1>1, <1>3, <1>5

Removed(s, u, pool, low, high) ==
  /\ Sound(u) /\ u.ok /\ Tidy(Spans, u.conv) /\ FitsBut(s, u, Between(low, high))
  /\ \A p \in Between(low, high) : ~InPool(u, pool, p)
  /\ \A p \in Between(low, high) : \A q \in Names : InPool(u, q, p) => InPool(s, q, p)

\* The end of a region in two parts is put back: its pages fit where they were.
LEMMA EndPutBack ==
  ASSUME NEW s, Sound(s), NEW cut, NEW u, NEW pool \in Names, NEW low \in Nat, NEW high \in Nat,
         NEW w, w.low = high + 1, NEW b \in Nat, w.high = b,
         FitsBut(s, cut, Between(low, b)), HoldsAll(s[pool], low, b), low <= high,
         Put(cut, u, pool, w)
  PROVE  FitsBut(s, u, Between(low, high))
<1> SUFFICES ASSUME NEW H \in Homes, NEW X, Fits(s, H, X),
                    NEW p \in Pages \ (X \cup Between(low, high))
             PROVE  /\ H[p] = "none" => \A q \in Names : ~InPool(u, q, p)
                    /\ H[p] # "none" => InPool(u, "alloc", p) \/ InPool(u, H[p], p)
  BY DEF Fits, FitsBut
<1>1. p \in Nat /\ p \in Pages /\ p \notin X /\ ~(low <= p /\ p <= high)
  BY PageNumbers DEF Between
<1>2. H[p] \in Names \cup {"none"}
  BY DEF Homes
<1>3. CASE high + 1 <= p /\ p <= b
  <2>1. p \in Between(w.low, w.high)
    BY <1>1, <1>3 DEF Between
  <2>2. InPool(u, pool, p)
    BY <2>1 DEF Put
  <2>3. InPool(s, pool, p)
    BY <1>1, <1>3 DEF HoldsAll, InPool
  <2>4. /\ H[p] = "none" => \A q \in Names : ~InPool(s, q, p)
        /\ H[p] # "none" => InPool(s, "alloc", p) \/ InPool(s, H[p], p)
    BY <1>1 DEF Fits
  <2>5. \A q \in Names : q # pool => ~InPool(s, q, p)
    BY <1>1, <2>3 DEF Sound, Excl
  <2>6. H[p] # "none" /\ (pool = "alloc" \/ pool = H[p])
    BY <1>2, <2>3, <2>4, <2>5 DEF Names
  <2> QED BY <2>2, <2>6
<1>4. CASE ~(high + 1 <= p /\ p <= b)
  <2>1. PICK Y : Y = X \cup Between(low, b)
    OBVIOUS
  <2>2. Fits(cut, H, Y)
    BY <2>1 DEF FitsBut
  <2>3. Fits(u, H, Y \cup Between(w.low, w.high))
    BY <2>2 DEF FitsBut, Put
  <2>4. p \in Pages \ (Y \cup Between(w.low, w.high))
    BY <1>1, <1>4, <2>1 DEF Between
  <2> QED BY <2>3, <2>4 DEF Fits
<1> QED BY <1>3, <1>4

LEMMA RemoveFacts ==
  ASSUME NEW s, Sound(s), s.ok, Tidy(Spans, s.conv), NEW pool \in Names,
         NEW low, NEW high, Aligned(low, high),
         pool = "conv" \/ \A p \in Between(low, high) : ~InPool(s, "conv", p),
         NEW u, u = remove(s, pool, low, high)
  PROVE  Lost(u) \/ Removed(s, u, pool, low, high)
<1>1. PICK list : list = s[pool]
  OBVIOUS
<1>2. Tidy(Spans, list)
  BY <1>1 DEF Sound, Names
<1>3. PICK len \in Nat : len = Len(list) /\ DOMAIN list = 1..len
  BY <1>2, SeqFacts DEF Tidy
<1>4. PICK kept : kept = FlattenSeq([i \in DOMAIN list |-> Cut(list[i], low, high)])
  OBVIOUS
<1>5. LeftOf(list, kept, len, low, high)
  BY <1>2, <1>3, <1>4, FlattenFacts
<1>6. /\ Tidy(Spans, kept) /\ kept \in Seq(Slack) /\ Tidy(Kind(pool), kept)
      /\ kept \in Seq(Spans)
  <2>1. Tidy(Spans, kept)
    BY <1>5 DEF LeftOf
  <2> QED BY <2>1, TidySlack DEF Kind, Tidy
<1>7. PICK f \in Int : f = s.free + Len(list) - Len(kept)
  <2>1. s.free \in Int /\ Len(list) \in Int /\ Len(kept) \in Int
    BY <1>3, <1>6, SeqFacts DEF Sound, PoolSet
  <2> QED BY <2>1
<1>8. PICK cut : cut = Update(s, pool, kept, f)
  OBVIOUS
<1>9. cut = [s EXCEPT ![pool] = kept, !.free = @ + Len(list) - Len(kept)]
  <2>1. s \in PoolSet
    BY DEF Sound
  <2> QED BY <1>7, <1>8, <2>1 DEF Update, PoolSet, Names
<1>10. PICK Inside : Inside = {i \in DOMAIN list : low > list[i].low /\ high < list[i].high}
  OBVIOUS
<1>11. \A i \in DOMAIN list : i \in Inside <=> InsideOf(list[i], low, high)
  BY <1>10 DEF InsideOf
<1>12. u = IF Inside = {} THEN cut
           ELSE insertNew(cut, pool, region(high + 1, list[Min(Inside)].high,
                                            list[Min(Inside)].owner))
  BY <1>1, <1>4, <1>9, <1>10 DEF remove
<1>13. Tidy(Spans, s.conv) /\ Tidy(Spans, s.mem) /\ Tidy(Spans, s.alloc)
  BY DEF Sound
<1>14. CASE Inside = {}
  <2>1. Loses(s[pool], kept, low, high)
    <3>1. \A i \in DOMAIN list : ~InsideOf(list[i], low, high)
      BY <1>11, <1>14
    <3> QED BY <1>1, <1>2, <1>3, <1>5, <3>1, LosesAll
  <2>2. u = Update(s, pool, kept, f)
    BY <1>8, <1>12, <1>14
  <2>3. /\ Sound(u) /\ (s.ok => u.ok) /\ u[pool] = kept
        /\ \A q \in Names : q # pool => u[q] = s[q]
        /\ FitsBut(s, u, Between(low, high))
    BY ONLY <1>6, <2>1, <2>2, Sound(s), pool \in Names, f \in Int, ShrunkFits
  <2>4. Tidy(Spans, u.conv)
    <3>1. pool # "conv" => u["conv"] = s["conv"]
      BY <2>3 DEF Names
    <3> QED BY <1>6, <1>13, <2>3, <3>1
  <2>5. \A p \in Between(low, high) : ~InPool(u, pool, p)
    BY <2>1, <2>3 DEF Loses, Between, InPool
  <2>6. \A p \in Between(low, high) : \A q \in Names : InPool(u, q, p) => InPool(s, q, p)
    BY <2>3, <2>5 DEF InPool
  <2> QED BY <2>3, <2>4, <2>5, <2>6 DEF Removed
<1>15. CASE Inside # {}
  <2>1. PICK j : j = Min(Inside)
    OBVIOUS
  <2>2. j \in DOMAIN list /\ InsideOf(list[j], low, high)
    <3>1. Inside \in SUBSET Nat
      BY <1>3, <1>10
    <3>2. j \in Inside
      BY <1>15, <2>1, <3>1, LeastFacts
    <3> QED BY <1>10, <1>11, <3>2
  <2>3. PICK b : b = list[j].high
    OBVIOUS
  <2>4. Loses(list, kept, low, b) /\ HoldsAll(list, low, b)
    BY <1>2, <1>3, <1>5, <2>2, <2>3, LosesEnd
  <2>5. Loses(s[pool], kept, low, b) /\ HoldsAll(s[pool], low, b)
    BY <1>1, <2>4
  <2>6. /\ Sound(cut) /\ (s.ok => cut.ok) /\ cut[pool] = kept
        /\ \A q \in Names : q # pool => cut[q] = s[q]
        /\ FitsBut(s, cut, Between(low, b))
    BY ONLY <1>6, <1>8, <2>5, Sound(s), pool \in Names, f \in Int, ShrunkFits
  <2>7. Tidy(Spans, cut.conv)
    <3>1. pool # "conv" => cut["conv"] = s["conv"]
      BY <2>6 DEF Names
    <3> QED BY <1>6, <1>13, <2>6, <3>1
  <2>8. list[j] \in Spans
    BY <1>2, <2>2, SeqFacts DEF Tidy
  <2>9. /\ list[j].low \in Nat /\ b \in Nat /\ low \in Nat /\ high \in Nat /\ low <= high
        /\ list[j].low < low /\ high < b /\ b <= Top /\ Top \in Nat /\ (b + 1) % Page = 0
        /\ list[j].owner \in Owners /\ (high + 1) % Page = 0
    BY <2>2, <2>3, <2>8, SpansFacts, SlackFacts, Numbers DEF Aligned, InsideOf
  <2>10. PICK w : w = region(high + 1, b, list[j].owner)
    OBVIOUS
  <2>11. w \in Spans /\ w.low = high + 1 /\ w.high = b
    <3>1. PICK a \in 0 .. Top : a = high + 1
      BY <2>9
    <3>2. b \in 0 .. Top /\ a % Page = 0 /\ a <= b + 1 /\ a <= b
      BY <2>9, <3>1
    <3>3. w = region(a, b, list[j].owner)
      BY <2>10, <3>1
    <3>4. PICK o \in Owners : o = list[j].owner
      BY <2>9
    <3>5. w \in Spans /\ w.low = a /\ w.high = b
      BY ONLY <2>9, <3>2, <3>3, <3>4, a \in 0 .. Top, SlackRegion
    <3> QED BY <3>1, <3>5
  <2>12. u = insertNew(cut, pool, w)
    BY <1>12, <1>15, <2>1, <2>3, <2>10
  <2>13. Unheld(cut, low, b)
    <3>1. \A q \in Names : q # pool => cut[q] = s[q]
      BY <2>6
    <3>2. Loses(s[pool], cut[pool], low, b)
      BY <2>5, <2>6
    <3>3. \A p \in Pages : low <= p /\ p <= b => In(s[pool], p)
      BY <2>5 DEF HoldsAll
    <3> QED BY ONLY <3>1, <3>2, <3>3, Sound(s), pool \in Names, ShrinkUnheld
  <2>14. Unheld(cut, w.low, w.high)
    <3>1. \A p \in Pages : w.low <= p /\ p <= w.high => low <= p /\ p <= b
      BY <2>9, <2>11, PageNumbers
    <3> QED BY <2>13, <3>1 DEF Unheld
  <2>15. Missed(cut, u) \/ Put(cut, u, pool, w)
    <3>1. Sound(cut) /\ cut.ok /\ (pool = "conv" => Tidy(Spans, cut.conv)) /\ w \in Spans
      BY <2>6, <2>7, <2>11
    <3> QED BY ONLY <2>12, <2>14, <3>1, pool \in Names, InsertNewFacts
  <2>16. CASE Missed(cut, u)
    BY <2>16 DEF Missed
  <2>17. CASE Put(cut, u, pool, w)
    <3>1. /\ Sound(u) /\ u.ok /\ Tidy(Spans, u.conv)
          /\ \A p \in Pages \ Between(w.low, w.high) : \A q \in Names :
               InPool(u, q, p) => InPool(cut, q, p) \/ InPool(cut, "conv", p)
      BY <2>7, <2>17 DEF Put
    <3>2. FitsBut(s, u, Between(low, high))
      BY <2>5, <2>6, <2>9, <2>11, <2>17, EndPutBack
    <3>3. \A p \in Between(low, high) : p \in Pages \ Between(w.low, w.high)
      BY <2>9, <2>11, PageNumbers DEF Between
    <3>4. \A p \in Between(low, high) : \A q \in Names : ~InPool(cut, q, p)
      <4>1. \A p \in Between(low, high) : p \in Pages /\ low <= p /\ p <= b
        BY <2>9, PageNumbers DEF Between
      <4> QED BY <2>13, <4>1 DEF Unheld
    <3>5. \A p \in Between(low, high) : \A q \in Names : ~InPool(u, q, p)
      <4>1. "conv" \in Names
        BY DEF Names
      <4> QED BY <3>1, <3>3, <3>4, <4>1
    <3> QED BY <3>1, <3>2, <3>5 DEF Removed
  <2> QED BY <2>15, <2>16, <2>17
<1> QED BY <1>14, <1>15

-----------------------------------------------------------------------------
(* Descriptors of memory.                                                  *)
LEMMA LostRemove ==
  ASSUME NEW s, Lost(s), NEW pool \in Names, NEW low, NEW high,
         NEW u, u = remove(s, pool, low, high)
  PROVE  Lost(u)
<1>1. PICK list : list = s[pool]
  OBVIOUS
<1>2. PICK kept : kept = FlattenSeq([i \in DOMAIN list |-> Cut(list[i], low, high)])
  OBVIOUS
<1>3. PICK cut : cut = [s EXCEPT ![pool] = kept, !.free = @ + Len(list) - Len(kept)]
  OBVIOUS
<1>4. Lost(cut)
  BY <1>3 DEF Lost, Names
<1>5. PICK w : u = cut \/ u = insertNew(cut, pool, w)
  <2>1. u = cut \/ \E w : u = insertNew(cut, pool, w)
    BY <1>1, <1>2, <1>3 DEF remove
  <2> QED BY <2>1
<1>6. u = insertNew(cut, pool, w) => Lost(u)
  BY <1>4, LostInsert
<1> QED BY <1>4, <1>5, <1>6

LEMMA PageOfTop == Page <= Top + 1
<1>1. PICK b \in Int : b = Top + 1 /\ b % Page = 0 /\ b > 0
  BY Numbers
<1>2. 0 \in Int /\ 0 % Page = 0 /\ Page \in Nat \ {0}
  BY Numbers
<1>3. 0 + Page <= b
  BY ONLY <1>1, <1>2, MultiplesApart
<1> QED BY <1>1, <1>3, Numbers

LEMMA PageEndFacts ==
  ASSUME NEW a \in 0 .. Top, NEW e, e = page_end(a)
  PROVE  /\ e \in 0 .. Top /\ e % Page = 0
         /\ a # 0 => \/ e # 0 /\ a <= e /\ e < a + Page
                     \/ e = 0 /\ Top + 1 < a + Page
<1>1. Page \in Nat \ {0} /\ Top \in Nat /\ Page <= Top + 1
  BY Numbers, PageOfTop
<1>2. PICK b \in Nat : b = a + Page - 1
  BY <1>1
<1>3. PICK c \in 0 .. Top : c = Wrap(b)
  BY WrapRange
<1>4. e = Down(c, Page)
  BY <1>2, <1>3 DEF page_end
<1>5. e \in Nat /\ e % Page = 0 /\ e <= c /\ c < e + Page
  BY <1>1, <1>3, <1>4, DownFacts
<1>6. CASE b <= Top
  <2>1. c = b
    <3>1. b \in 0 .. Top
      BY <1>1, <1>2, <1>6
    <3> QED BY <1>3, <3>1, WrapFacts
  <2> QED BY <1>1, <1>2, <1>5, <1>6, <2>1
<1>7. CASE b > Top
  <2>1. PICK m \in Nat : m = Top + 1 /\ m > 1
    BY Numbers
  <2>2. b - m \in 0 .. m - 1 /\ b - m < Page
    BY <1>1, <1>2, <1>7, <2>1
  <2>3. b % m = b - m
    <3>1. PICK d \in 0 .. m - 1 : d = b - m
      BY <2>2
    <3>2. b = m + d
      BY <2>1, <3>1
    <3> QED BY <2>1, <3>1, <3>2
  <2>4. c = b - m
    BY <1>3, <2>1, <2>3 DEF Wrap
  <2>5. e = 0
    <3>1. CASE e # 0
      <4>1. 0 \in Int /\ 0 % Page = 0 /\ e \in Int /\ 0 < e
        BY <1>1, <1>5, <3>1
      <4>2. 0 + Page <= e
        BY ONLY <1>1, <1>5, <4>1, MultiplesApart
      <4> QED BY <1>1, <1>5, <2>2, <2>4, <4>2
    <3> QED BY <3>1
  <2> QED BY <1>1, <1>2, <1>7, <2>5
<1> QED BY <1>1, <1>2, <1>6, <1>7

\* The pages that a range touches.
LEMMA RangeFacts ==
  ASSUME NEW d, d.low \in 0 .. Top, d.high \in 0 .. Top, d.low <= d.high,
         NEW low, low = page_start(d.low), NEW high, high = LastOf(d)
  PROVE  /\ Aligned(low, high)
         /\ \A p \in Pages : p \in Between(low, high) <=> low <= p /\ p <= d.high
<1>1. Page \in Nat \ {0} /\ Top \in Nat /\ (Top + 1) % Page = 0
  BY Numbers
<1>2. low \in Nat /\ low % Page = 0 /\ low <= d.low
  <2>1. PICK a \in Nat : a = d.low
    BY <1>1
  <2>2. low = Down(a, Page)
    BY <2>1 DEF page_start
  <2> QED BY ONLY <1>1, <2>1, <2>2, DownFacts
<1>3. /\ high \in 0 .. Top /\ (high + 1) % Page = 0 /\ d.high <= high
      /\ high < d.high + Page \/ (high = Top /\ Top < d.high + Page)
  <2>1. CASE d.high = Top
    <3>1. Wrap(d.high + 1) = 0
      BY <2>1, WrapFacts
    <3>2. page_end(0) = 0
      <4>1. PICK e \in 0 .. Top : e = page_end(0)
        BY PageEndFacts, <1>1
      <4>2. e = Down(Wrap(Page - 1), Page)
        BY <1>1, <4>1 DEF page_end
      <4>3. Page - 1 \in 0 .. Top
        BY <1>1, PageOfTop
      <4>4. Wrap(Page - 1) = Page - 1
        BY <4>3, WrapFacts
      <4>5. e = (Page - 1) - ((Page - 1) % Page)
        BY <4>2, <4>4 DEF Down
      <4>6. (Page - 1) % Page = Page - 1
        BY <1>1
      <4> QED BY <1>1, <4>1, <4>5, <4>6
    <3>3. high = Top
      <4>1. high = Wrap(0 - 1) /\ 0 - 1 = -1
        BY <3>1, <3>2 DEF LastOf
      <4> QED BY <4>1, WrapFacts
    <3> QED BY <1>1, <2>1, <3>3
  <2>2. CASE d.high # Top
    <3>1. PICK a \in 0 .. Top : a = d.high + 1 /\ a # 0
      BY <1>1, <2>2
    <3>2. Wrap(d.high + 1) = a
      BY <3>1, WrapFacts
    <3>3. PICK e : e = page_end(a)
      OBVIOUS
    <3>4. /\ e \in 0 .. Top /\ e % Page = 0
          /\ \/ e # 0 /\ a <= e /\ e < a + Page
             \/ e = 0 /\ Top + 1 < a + Page
      BY <3>1, <3>3, PageEndFacts
    <3>5. high = Wrap(e - 1)
      BY <3>2, <3>3 DEF LastOf
    <3>6. CASE e = 0
      <4>1. high = Top
        BY <3>5, <3>6, WrapFacts
      <4> QED BY <1>1, <3>1, <3>4, <3>6, <4>1
    <3>7. CASE e # 0
      <4>1. e - 1 \in 0 .. Top
        BY <1>1, <3>4, <3>7
      <4>2. high = e - 1
        BY <3>5, <4>1, WrapFacts
      <4>3. high + 1 = e
        BY <1>1, <3>4, <4>2
      <4> QED BY <1>1, <3>1, <3>4, <3>7, <4>1, <4>2, <4>3
    <3> QED BY <3>6, <3>7
  <2> QED BY <2>1, <2>2
<1>4. Aligned(low, high)
  BY <1>1, <1>2, <1>3 DEF Aligned
<1>5. ASSUME NEW p \in Pages PROVE p <= high <=> p <= d.high
  <2>1. p \in Int /\ p % Page = 0
    BY PageNumbers DEF Pages
  <2>2. ASSUME p <= high PROVE p <= d.high
    <3>1. PICK b \in Int : b = high + 1
      BY <1>3
    <3>2. b % Page = 0 /\ p < b
      BY <1>3, <2>1, <2>2, <3>1
    <3>3. p + Page <= b
      BY ONLY <1>1, <2>1, <3>1, <3>2, MultiplesApart
    <3> QED BY <1>1, <1>3, <2>1, <3>1, <3>3
  <2> QED BY <1>3, <2>1, <2>2
<1> QED BY <1>4, <1>5 DEF Between

target(d) == IF d.type \in DOMAIN PoolFor THEN PoolFor[d.type] ELSE "none"

LEMMA TargetFacts ==
  ASSUME NEW d
  PROVE  /\ target(d) \in Names \cup {"none"}
         /\ d.type \in DOMAIN PoolFor => PoolFor[d.type] \in Names
         /\ OwnerFor(d.type) \in Owners
<1>1. \A t \in DOMAIN PoolFor : PoolFor[t] \in Names
  BY DEF PoolFor, Names
<1> QED BY <1>1 DEF target, OwnerFor, Owners

LEMMA FitsTwice ==
  ASSUME NEW s, NEW g, NEW u, NEW Y, FitsBut(s, g, Y), FitsBut(g, u, Y)
  PROVE  FitsBut(s, u, Y)
<1> SUFFICES ASSUME NEW H \in Homes, NEW X, Fits(s, H, X) PROVE Fits(u, H, X \cup Y)
  BY DEF FitsBut
<1>1. Fits(u, H, (X \cup Y) \cup Y)
  BY DEF FitsBut
<1>2. (X \cup Y) \cup Y = X \cup Y
  OBVIOUS
<1> QED BY <1>1, <1>2

\* A range is taken out of all pools.
Emptied(s, u, low, high) ==
  /\ Sound(u) /\ u.ok /\ Tidy(Spans, u.conv) /\ Unheld(u, low, high)
  /\ FitsBut(s, u, Between(low, high))

LEMMA EmptiedFacts ==
  ASSUME NEW s, Sound(s), s.ok, Tidy(Spans, s.conv), NEW low, NEW high, Aligned(low, high),
         NEW x, x = remove(s, "conv", low, high), NEW y, y = remove(x, "mem", low, high),
         NEW z, z = remove(y, "alloc", low, high)
  PROVE  Lost(z) \/ Emptied(s, z, low, high)
<1>1. PICK c \in Names : c = "conv"
  BY DEF Names
<1>2. PICK m \in Names : m = "mem"
  BY DEF Names
<1>3. PICK a \in Names : a = "alloc"
  BY DEF Names
<1>4. Names = {c, m, a}
  BY <1>1, <1>2, <1>3 DEF Names
<1>5. x = remove(s, c, low, high) /\ y = remove(x, m, low, high) /\ z = remove(y, a, low, high)
  BY <1>1, <1>2, <1>3
<1>6. Lost(x) => Lost(y)
  BY ONLY <1>5, m \in Names, LostRemove
<1>7. Lost(y) => Lost(z)
  BY ONLY <1>5, a \in Names, LostRemove
<1>8. Lost(x) \/ Removed(s, x, c, low, high)
  BY ONLY <1>1, <1>5, Sound(s), s.ok, Tidy(Spans, s.conv), Aligned(low, high), RemoveFacts
<1>9. CASE Removed(s, x, c, low, high)
  <2>1. \A p \in Between(low, high) : ~InPool(x, c, p)
    BY <1>9 DEF Removed
  <2>2. \A p \in Between(low, high) : ~InPool(x, "conv", p)
    BY <1>1, <2>1
  <2>3. Sound(x) /\ x.ok /\ Tidy(Spans, x.conv) /\ FitsBut(s, x, Between(low, high))
    BY <1>9 DEF Removed
  <2>4. Lost(y) \/ Removed(x, y, m, low, high)
    BY ONLY <1>5, <2>2, <2>3, m \in Names, Aligned(low, high), RemoveFacts
  <2>5. CASE Removed(x, y, m, low, high)
    <3>1. \A p \in Between(low, high) : ~InPool(y, c, p) /\ ~InPool(y, m, p)
      BY <2>1, <2>5 DEF Removed
    <3>2. \A p \in Between(low, high) : ~InPool(y, "conv", p)
      BY <1>1, <3>1
    <3>3. Sound(y) /\ y.ok /\ Tidy(Spans, y.conv) /\ FitsBut(x, y, Between(low, high))
      BY <2>5 DEF Removed
    <3>4. Lost(z) \/ Removed(y, z, a, low, high)
      BY ONLY <1>5, <3>2, <3>3, a \in Names, Aligned(low, high), RemoveFacts
    <3>5. CASE Removed(y, z, a, low, high)
      <4>1. \A p \in Between(low, high) : ~InPool(z, c, p) /\ ~InPool(z, m, p) /\ ~InPool(z, a, p)
        BY <3>1, <3>5 DEF Removed
      <4>2. Sound(z) /\ z.ok /\ Tidy(Spans, z.conv) /\ FitsBut(y, z, Between(low, high))
        BY <3>5 DEF Removed
      <4>3. Unheld(z, low, high)
        BY <1>4, <4>1 DEF Unheld, Between
      <4>4. FitsBut(s, y, Between(low, high))
        BY ONLY <2>3, <3>3, FitsTwice
      <4>5. FitsBut(s, z, Between(low, high))
        BY ONLY <4>2, <4>4, FitsTwice
      <4> QED BY <4>2, <4>3, <4>5 DEF Emptied
    <3> QED BY <3>4, <3>5
  <2> QED BY <1>7, <2>4, <2>5
<1> QED BY <1>6, <1>7, <1>8, <1>9

\* What holds while descriptors are read.
Read(s, H) == Sound(s) /\ s.ok /\ Tidy(Spans, s.conv) /\ Fits(s, H, {})

LEMMA DescribedFacts ==
  ASSUME NEW s, NEW H \in Homes, Read(s, H), NEW d, ~d.virtual,
         d.low \in 0 .. Top, d.high \in 0 .. Top, d.low <= d.high,
         NEW G \in Homes,
         \A p \in Pages : G[p] = IF page_start(d.low) <= p /\ p <= d.high THEN target(d)
                                 ELSE H[p],
         NEW u, u = Described(s, d)
  PROVE  Lost(u) \/ Read(u, G)
<1>1. PICK low : low = page_start(d.low)
  OBVIOUS
<1>2. PICK high : high = LastOf(d)
  OBVIOUS
<1>3. /\ Aligned(low, high)
      /\ \A p \in Pages : p \in Between(low, high) <=> low <= p /\ p <= d.high
  BY <1>1, <1>2, RangeFacts
<1>4. PICK x : x = remove(s, "conv", low, high)
  OBVIOUS
<1>5. PICK y : y = remove(x, "mem", low, high)
  OBVIOUS
<1>6. PICK z : z = remove(y, "alloc", low, high)
  OBVIOUS
<1>7. PICK r : r = region(low, high, OwnerFor(d.type))
  OBVIOUS
<1>8. u = IF d.type \in DOMAIN PoolFor THEN insertNew(z, PoolFor[d.type], r) ELSE z
  BY <1>1, <1>2, <1>4, <1>5, <1>6, <1>7 DEF Described
<1>9. Sound(s) /\ s.ok /\ Tidy(Spans, s.conv) /\ Fits(s, H, {})
  BY DEF Read
<1>10. Lost(z) \/ Emptied(s, z, low, high)
  BY ONLY <1>3, <1>4, <1>5, <1>6, <1>9, EmptiedFacts
<1>11. CASE Lost(z)
  BY <1>8, <1>11, LostInsert
<1>12. CASE Emptied(s, z, low, high)
  <2>1. /\ Sound(z) /\ z.ok /\ Tidy(Spans, z.conv) /\ Unheld(z, low, high)
        /\ FitsBut(s, z, Between(low, high))
    BY <1>12 DEF Emptied
  <2>2. PICK B : B = Between(low, high)
    OBVIOUS
  <2>3. Fits(z, H, {} \cup B)
    BY <1>9, <2>1, <2>2 DEF FitsBut
  <2>4. \A p \in Pages : G[p] = IF p \in B THEN target(d) ELSE H[p]
    BY <1>1, <1>3, <2>2
  <2>5. Fits(z, G, B)
    BY <2>3, <2>4 DEF Fits
  <2>6. CASE d.type \notin DOMAIN PoolFor
    <3>1. u = z
      BY <1>8, <2>6
    <3>2. \A p \in B : \A pool \in Names : ~InPool(z, pool, p)
      BY <2>1, <2>2 DEF Unheld, Between
    <3>3. \A p \in B : p \in Pages => G[p] = "none"
      BY <2>4, <2>6 DEF target
    <3>4. Fits(z, G, {})
      BY <2>5, <3>2, <3>3 DEF Fits
    <3> QED BY <2>1, <3>1, <3>4 DEF Read
  <2>7. CASE d.type \in DOMAIN PoolFor
    <3>1. PICK pool \in Names : pool = PoolFor[d.type]
      BY <2>7, TargetFacts
    <3>2. u = insertNew(z, pool, r)
      BY <1>8, <2>7, <3>1
    <3>3. r \in Spans /\ r.low = low /\ r.high = high
      <4>1. PICK o \in Owners : o = OwnerFor(d.type)
        BY TargetFacts
      <4>2. r = region(low, high, o)
        BY <1>7, <4>1
      <4>3. /\ low \in 0 .. Top /\ high \in 0 .. Top /\ low % Page = 0 /\ (high + 1) % Page = 0
            /\ low <= high /\ low <= high + 1
        BY <1>3, Numbers DEF Aligned
      <4> QED BY ONLY <4>2, <4>3, o \in Owners, SlackRegion
    <3>4. Unheld(z, r.low, r.high)
      BY <2>1, <3>3
    <3>5. Missed(z, u) \/ Put(z, u, pool, r)
      BY ONLY <2>1, <3>2, <3>3, <3>4, pool \in Names, InsertNewFacts
    <3>6. CASE Put(z, u, pool, r)
      <4>1. /\ Sound(u) /\ u.ok /\ FitsBut(z, u, Between(r.low, r.high))
            /\ Tidy(Spans, u.conv)
            /\ \A p \in Between(r.low, r.high) : InPool(u, pool, p)
        BY <2>1, <3>6 DEF Put
      <4>2. Fits(u, G, B \cup B)
        BY <2>2, <2>5, <3>3, <4>1 DEF FitsBut
      <4>3. \A p \in B : p \in Pages => G[p] = pool /\ pool # "none" /\ InPool(u, pool, p)
        <5>1. \A p \in B : p \in Pages => G[p] = pool
          BY <2>4, <2>7, <3>1 DEF target
        <5>2. pool # "none"
          BY DEF Names
        <5> QED BY <2>2, <3>3, <4>1, <5>1, <5>2
      <4>4. Fits(u, G, {})
        BY <4>2, <4>3 DEF Fits
      <4> QED BY <4>1, <4>4 DEF Read
    <3>7. CASE Missed(z, u)
      BY <3>7 DEF Missed
    <3> QED BY <3>5, <3>6, <3>7
  <2> QED BY <2>6, <2>7
<1> QED BY <1>10, <1>11, <1>12

-----------------------------------------------------------------------------
(* The areas of the initial servers: the loop of register_memory.          *)
Registered(x, tid, first, k) ==
  IF ~x.ok THEN x ELSE allocatePageAt(x, tid, first + (k - 1) * Page, Page, FALSE).s

CountOf(low, high) ==
  IF page_start(low) < page_end(high) THEN (page_end(high) - page_start(low)) \div Page ELSE 0

LEMMA RegisterLoop ==
  ASSUME NEW s, NEW low, NEW high, NEW tid, NEW first, first = page_start(low),
         NEW len \in Nat, len = CountOf(low, high)
  PROVE  \E after :
           /\ after = [k \in 0..len |-> IF k = 0 THEN s
                                      ELSE Registered(after[k - 1], tid, first, k)]
           /\ register_memory(s, low, high, tid) = after[len]
<1> DEFINE Def(f, k) == f = [i \in 0..k |-> IF i = 0 THEN s
                                            ELSE Registered(f[i - 1], tid, first, i)]
           bad == {k \in Nat : ~\E f : Def(f, k)}
<1>2. bad = {}
  <2> SUFFICES ASSUME bad # {} PROVE FALSE
    OBVIOUS
  <2>1. PICK k \in Nat : (~\E f : Def(f, k)) /\ \A l \in Nat : (~\E f : Def(f, l)) => k <= l
    <3> HIDE DEF Def
    <3>1. PICK k \in bad : \A l \in bad : k <= l
      BY LeastNumber
    <3> QED BY <3>1
  <2> HIDE DEF bad, Def
  <2>2. CASE k = 0
    <3>1. PICK f : f = [i \in 0..0 |-> s]
      OBVIOUS
    <3>2. f = [i \in 0..0 |-> IF i = 0 THEN s ELSE Registered(f[i - 1], tid, first, i)]
      BY <3>1
    <3>3. Def(f, 0)
      BY <3>2 DEF Def
    <3> QED BY <3>3, <2>2, <2>1
  <2>3. CASE k # 0
    <3>1. k - 1 \in Nat /\ ~(k <= k - 1) /\ \E f : Def(f, k - 1)
      BY <2>3, <2>1
    <3>2. PICK g : Def(g, k - 1)
      BY <3>1
    <3>4. PICK h : h = [i \in 0..k |-> IF i = k THEN Registered(g[k - 1], tid, first, k)
                                       ELSE g[i]]
      OBVIOUS
    <3>3. Def(h, k)
      <4>1. \A i \in 0..k - 1 : g[i] = IF i = 0 THEN s
                                       ELSE Registered(g[i - 1], tid, first, i)
        BY <3>2 DEF Def
      <4>2. \A i \in 0..k : h[i] = IF i = 0 THEN s
                                   ELSE Registered(h[i - 1], tid, first, i)
        <5>1. \A i \in 0..k - 1 : h[i] = g[i]
          BY <3>4
        <5>2. h[k] = Registered(h[k - 1], tid, first, k)
          BY <5>1, <3>1, <3>4
        <5>3. ASSUME NEW i \in 0..k - 1
              PROVE  h[i] = IF i = 0 THEN s ELSE Registered(h[i - 1], tid, first, i)
          <6>1. i # 0 => i - 1 \in 0..k - 1
            OBVIOUS
          <6> QED BY <6>1, <5>1, <4>1
        <5>4. \A i \in 0..k : i = k \/ i \in 0..k - 1
          OBVIOUS
        <5> QED BY <2>3, <5>2, <5>3, <5>4
      <4> QED BY <3>4, <4>2 DEF Def
    <3> QED BY <3>3, <2>1
  <2> QED BY <2>2, <2>3
<1>3. PICK f : f = (CHOOSE g : g = [k \in 0..len |-> IF k = 0 THEN s
                                       ELSE IF ~g[k - 1].ok THEN g[k - 1]
                                       ELSE allocatePageAt(g[k - 1], tid,
                                              first + (k - 1) * Page, Page, FALSE).s])
  OBVIOUS
<1>4. Def(f, len)
  <2>1. \E g : Def(g, len)
    BY <1>2
  <2>2. f = (CHOOSE g : Def(g, len))
    BY <1>3 DEF Registered
  <2> HIDE DEF Def
  <2> QED BY <2>1, <2>2
<1>5. register_memory(s, low, high, tid) = f[len]
  BY <1>3 DEF register_memory, CountOf
<1> QED BY <1>4, <1>5

LEMMA ProductGrows ==
  ASSUME NEW a \in Nat, NEW b \in Nat, NEW p \in Nat, a <= b
  PROVE  a * p <= b * p
<1>1. PICK d \in Nat : b = a + d
  OBVIOUS
<1>2. b * p = a * p + d * p
  BY <1>1
<1>3. d * p \in Nat /\ a * p \in Nat
  OBVIOUS
<1> QED BY <1>2, <1>3

LEMMA CountFacts ==
  ASSUME NEW low \in 0 .. Top, NEW high \in 0 .. Top, NEW first, first = page_start(low),
         NEW len, len = CountOf(low, high)
  PROVE  /\ len \in Nat /\ first \in Nat
         /\ \A k \in 1..len : first + (k - 1) * Page \in Nat /\ first + (k - 1) * Page <= Top
<1>1. PICK e \in 0 .. Top : e = page_end(high) /\ e % Page = 0
  BY PageEndFacts
<1>2. Page \in Nat \ {0} /\ Top \in Nat
  BY Numbers
<1>3. first \in Nat /\ first % Page = 0
  <2>1. low \in Nat
    BY <1>2
  <2>2. first = Down(low, Page)
    BY DEF page_start
  <2> QED BY ONLY <1>2, <2>1, <2>2, DownFacts
<1>4. CASE ~(first < e)
  BY <1>1, <1>3, <1>4 DEF CountOf
<1>5. CASE first < e
  <2>1. PICK d \in Nat : d = e - first
    BY <1>1, <1>3, <1>5
  <2>2. d % Page = 0
    <3>1. e \in Int /\ first \in Int
      BY <1>1, <1>3
    <3>2. (e - first) % Page = 0
      BY ONLY <1>1, <1>2, <1>3, <3>1, MultiplesSum
    <3> QED BY <2>1, <3>2
  <2>3. len = d \div Page
    BY <1>1, <1>5, <2>1 DEF CountOf
  <2>4. d = Page * len /\ len \in Int
    <3>1. PICK q \in Int, r \in 0..Page - 1 : d = Page * q + r /\ d % Page = r /\ d \div Page = q
      <4>1. d \in Int
        BY <2>1
      <4> QED BY ONLY <1>2, <4>1, Division
    <3>2. r = 0 /\ q = len
      BY <2>2, <2>3, <3>1
    <3>3. d = Page * len + 0 /\ len \in Int
      BY <3>1, <3>2
    <3> QED BY <1>2, <3>3
  <2>5. len \in Nat
    BY <1>2, <2>1, <2>3
  <2>6. ASSUME NEW k \in 1..len
        PROVE  first + (k - 1) * Page \in Nat /\ first + (k - 1) * Page <= Top
    <3>1. PICK j \in Nat : j = k - 1 /\ j <= len
      BY <2>5
    <3>2. j * Page <= len * Page
      BY <1>2, <2>5, <3>1, ProductGrows
    <3>3. len * Page = d
      BY <1>2, <2>4, <2>5
    <3>4. j * Page \in Nat
      BY <1>2, <3>1
    <3>5. PICK m \in Nat : m = j * Page
      BY <3>4
    <3>6. first + m \in Nat /\ first + m <= Top
      BY <1>1, <1>2, <1>3, <2>1, <3>2, <3>3, <3>5
    <3> QED BY <3>1, <3>5, <3>6
  <2> QED BY <1>3, <2>5, <2>6
<1> QED BY <1>4, <1>5

LEMMA RegisterFacts ==
  ASSUME NEW s, Sound(s), s.ok, NEW H \in Homes, Fits(s, H, {}), NEW tid \in Owners,
         NEW low \in 0 .. Top, NEW high \in 0 .. Top,
         NEW u, u = register_memory(s, low, high, tid)
  PROVE  Served(s, u, H)
<1>1. PICK first : first = page_start(low)
  OBVIOUS
<1>2. PICK len : len = CountOf(low, high)
  OBVIOUS
<1>3. /\ len \in Nat /\ first \in Nat
      /\ \A k \in 1..len : first + (k - 1) * Page \in Nat /\ first + (k - 1) * Page <= Top
  BY <1>1, <1>2, CountFacts
<1>4. PICK after :
        /\ after = [k \in 0..len |-> IF k = 0 THEN s
                                   ELSE Registered(after[k - 1], tid, first, k)]
        /\ register_memory(s, low, high, tid) = after[len]
  BY <1>1, <1>2, <1>3, RegisterLoop, SMTT(60)
<1> DEFINE bad == {k \in 0..len : ~Served(s, after[k], H)}
<1>5. bad = {}
  <2> SUFFICES ASSUME bad # {} PROVE FALSE
    OBVIOUS
  <2>1. PICK k \in bad : \A l \in bad : k <= l
    <3>1. bad \in SUBSET Nat
      OBVIOUS
    <3> QED BY <3>1, LeastNumber
  <2>2. k \in 0..len /\ ~Served(s, after[k], H)
    BY <2>1
  <2>3. CASE k = 0
    <3>1. after[k] = s
      BY <1>3, <1>4, <2>2, <2>3
    <3> QED BY <2>2, <3>1, ServedSame
  <2>4. CASE k # 0
    <3>1. PICK l \in 0..len : l = k - 1 /\ ~(k <= l)
      BY <1>3, <2>2, <2>4
    <3>2. Served(s, after[l], H)
      BY <2>1, <3>1
    <3>3. PICK x : x = after[l]
      OBVIOUS
    <3>4. after[k] = Registered(x, tid, first, k)
      BY <1>4, <2>2, <2>4, <3>1, <3>3
    <3>5. CASE ~x.ok
      BY <2>2, <3>2, <3>3, <3>4, <3>5 DEF Registered
    <3>6. CASE x.ok
      <4>1. Sound(x) /\ x.ok /\ Fits(x, H, {})
        BY <3>2, <3>3, <3>6 DEF Served, Lost
      <4>2. PICK at \in Nat : at = first + (k - 1) * Page /\ at <= Top
        BY <1>3, <2>2, <2>4
      <4>3. PICK res : res = allocatePageAt(x, tid, at, Page, FALSE)
        OBVIOUS
      <4>4. Page \in Sizes /\ FALSE \in BOOLEAN
        BY PageBlock, Numbers DEF Sizes
      <4>5. Answered(x, res, H, tid)
        BY ONLY <4>1, <4>2, <4>3, <4>4, H \in Homes, tid \in Owners, AtFacts
      <4>6. Served(x, res.s, H)
        BY <4>5 DEF Answered
      <4>7. Served(s, res.s, H)
        BY <3>2, <3>3, <4>6, ServedAgain
      <4> QED BY <2>2, <3>4, <3>6, <4>2, <4>3, <4>7 DEF Registered
    <3> QED BY <3>5, <3>6
  <2> QED BY <2>3, <2>4
<1>6. Served(s, after[len], H)
  <2>1. len \in 0..len
    BY <1>3
  <2> QED BY <1>5, <2>1
<1> QED BY <1>4, <1>6

-----------------------------------------------------------------------------
(* The homes of pages while descriptors are read.                          *)
Touches(d, p) == ~d.virtual /\ page_start(d.low) <= p /\ p <= d.high

TouchingTo(mem, m, p) == {i \in 1..m : Touches(mem[i], p)}

\* The homes after the first m descriptors.
HomeAt(mem, m) ==
  [p \in Pages |-> IF TouchingTo(mem, m, p) = {} THEN "mem"
                   ELSE target(mem[Max(TouchingTo(mem, m, p))])]

LEMMA GreatestIs ==
  ASSUME NEW m \in Nat, NEW S, S \subseteq 1..m, m \in S
  PROVE  Max(S) = m
<1>1. \E x \in S : \A y \in S : x >= y
  <2>1. \A y \in S : m >= y
    OBVIOUS
  <2> QED BY <2>1
<1>2. Max(S) \in S /\ \A y \in S : Max(S) >= y
  BY <1>1 DEF Max
<1>3. PICK x : x = Max(S)
  OBVIOUS
<1>4. x \in 1..m /\ x >= m
  BY <1>2, <1>3
<1> QED BY <1>3, <1>4

LEMMA HomesFacts ==
  ASSUME NEW mem, NEW m
  PROVE  HomeAt(mem, m) \in Homes
<1>1. "mem" \in Names
  BY DEF Names
<1>2. \A d : target(d) \in Names \cup {"none"}
  BY TargetFacts
<1> QED BY <1>1, <1>2 DEF HomeAt, Homes

LEMMA NoneRead ==
  ASSUME NEW mem, NEW p \in Pages
  PROVE  HomeAt(mem, 0)[p] = "mem"
<1>1. TouchingTo(mem, 0, p) = {}
  BY DEF TouchingTo
<1> QED BY <1>1 DEF HomeAt

LEMMA OneMoreRead ==
  ASSUME NEW mem, NEW l \in Nat, NEW m \in Nat, m = l + 1, NEW d, d = mem[m],
         NEW p \in Pages
  PROVE  HomeAt(mem, m)[p] = IF Touches(d, p) THEN target(d) ELSE HomeAt(mem, l)[p]
<1>1. CASE Touches(d, p)
  <2>1. m \in TouchingTo(mem, m, p) /\ TouchingTo(mem, m, p) \subseteq 1..m
    BY <1>1 DEF TouchingTo
  <2>2. Max(TouchingTo(mem, m, p)) = m
    BY <2>1, GreatestIs
  <2>3. TouchingTo(mem, m, p) # {}
    BY <2>1
  <2> QED BY <1>1, <2>2, <2>3 DEF HomeAt
<1>2. CASE ~Touches(d, p)
  <2>1. \A i \in 1..m : i = m \/ i \in 1..l
    OBVIOUS
  <2>2. 1..l \subseteq 1..m
    OBVIOUS
  <2>3. TouchingTo(mem, m, p) = TouchingTo(mem, l, p)
    BY <1>2, <2>1, <2>2 DEF TouchingTo
  <2> QED BY <1>2, <2>3 DEF HomeAt
<1> QED BY <1>1, <1>2

LEMMA ReadFacts ==
  ASSUME NEW mem, NEW l \in Nat, NEW m \in Nat, m = l + 1, NEW d, d = mem[m],
         d.low \in 0 .. Top, d.high \in 0 .. Top, d.low <= d.high, d.virtual \in BOOLEAN,
         NEW s, Read(s, HomeAt(mem, l)), NEW u, u = Described(s, d)
  PROVE  Lost(u) \/ Read(u, HomeAt(mem, m))
<1>1. PICK H \in Homes : H = HomeAt(mem, l)
  BY HomesFacts
<1>2. PICK G \in Homes : G = HomeAt(mem, m)
  BY HomesFacts
<1>3. \A p \in Pages : G[p] = IF Touches(d, p) THEN target(d) ELSE H[p]
  BY <1>1, <1>2, OneMoreRead
<1>4. CASE d.virtual
  <2>1. u = s
    BY <1>4 DEF Described
  <2>2. \A p \in Pages : G[p] = H[p]
    BY <1>3, <1>4 DEF Touches
  <2>3. Read(s, G)
    BY <1>1, <2>2 DEF Read, Fits
  <2> QED BY <1>2, <2>1, <2>3
<1>5. CASE ~d.virtual
  <2>1. \A p \in Pages : G[p] = IF page_start(d.low) <= p /\ p <= d.high THEN target(d)
                                ELSE H[p]
    BY <1>3, <1>5 DEF Touches
  <2>2. Read(s, H)
    BY <1>1
  <2>3. d.low \in 0 .. Top /\ d.high \in 0 .. Top /\ d.low <= d.high
    OBVIOUS
  <2>4. Lost(u) \/ Read(u, G)
    BY ONLY <1>5, <2>1, <2>2, <2>3, H \in Homes, G \in Homes, u = Described(s, d),
            DescribedFacts
  <2> QED BY <1>2, <2>4
<1> QED BY <1>4, <1>5

LEMMA NothingHeld ==
  ASSUME NEW pool \in Names, NEW p
  PROVE  ~InPool(NoPools, pool, p)
<1>1. NoPools[pool] = <<>>
  BY DEF NoPools, Names
<1>2. Members(<<>>) = {}
  BY DEF Members
<1> QED BY <1>1, <1>2 DEF InPool, In

LEMMA NoPoolsSound ==
  Sound(NoPools) /\ NoPools.ok /\ NoPools.free = InitialRegs /\ NoPools.conv = <<>>
<1>1. NoPools \in PoolSet
  <2>1. <<>> \in Seq(Slack) /\ InitialRegs \in Int
    BY Numbers
  <2> QED BY <2>1 DEF NoPools, PoolSet
<1>2. \A T : Tidy(T, <<>>)
  BY DEF Tidy
<1>3. Excl(NoPools)
  BY NothingHeld DEF Excl
<1>4. NoPools.conv = <<>> /\ NoPools.mem = <<>> /\ NoPools.alloc = <<>>
  BY DEF NoPools
<1>5. NoPools.ok /\ NoPools.free = InitialRegs
  BY DEF NoPools
<1> QED BY <1>1, <1>2, <1>3, <1>4, <1>5 DEF Sound

LEMMA InitRead ==
  ASSUME NEW mem, NEW u, u = insertNew(NoPools, "mem", region(0, Top, Anythread))
  PROVE  Read(u, HomeAt(mem, 0))
<1>1. PICK s : s = [NoPools EXCEPT !.free = NoPools.free - 1]
  OBVIOUS
<1>2. New(NoPools) = s
  BY <1>1, NoPoolsSound, Numbers DEF New, Pop
<1>3. NoPools.free - 1 \in Int
  BY NoPoolsSound, Numbers
<1>4. /\ Sound(s) /\ s.ok = NoPools.ok /\ s.conv = NoPools.conv
      /\ \A pool \in Names : s[pool] = NoPools[pool]
  <2>1. PICK z : z = NoPools
    OBVIOUS
  <2>2. PICK f \in Int : f = z.free - 1
    BY <1>3, <2>1
  <2>3. Sound(z) /\ s = [z EXCEPT !.free = f]
    BY <1>1, <2>1, <2>2, NoPoolsSound
  <2>4. Sound(s) /\ s.ok = z.ok /\ s.conv = z.conv /\ \A pool \in Names : s[pool] = z[pool]
    BY ONLY <2>3, f \in Int, FreeFacts
  <2> QED BY <2>1, <2>4
<1>5. s.ok /\ s.conv = <<>>
  BY <1>4, NoPoolsSound
<1>6. PICK pool \in Names : pool = "mem"
  BY DEF Names
<1>7. PICK r : r = region(0, Top, Anythread)
  OBVIOUS
<1>8. r \in Spans /\ r.low = 0 /\ r.high = Top
  <2>1. PICK o \in Owners : o = Anythread
    BY DEF Owners
  <2>2. PICK a \in 0 .. Top : a = 0
    BY Numbers
  <2>3. PICK b \in 0 .. Top : b = Top
    BY Numbers
  <2>4. a % Page = 0 /\ (b + 1) % Page = 0 /\ a <= b + 1 /\ a <= b
    BY <2>2, <2>3, Numbers
  <2>5. r = region(a, b, o)
    BY <1>7, <2>1, <2>2, <2>3
  <2>6. r \in Spans /\ r.low = a /\ r.high = b
    BY ONLY <2>4, <2>5, a \in 0 .. Top, b \in 0 .. Top, o \in Owners, SlackRegion
  <2> QED BY <2>2, <2>3, <2>6
<1>9. Unheld(s, r.low, r.high)
  BY <1>4, NothingHeld DEF Unheld, InPool
<1>10. u = insert(s, pool, r)
  BY <1>2, <1>6, <1>7 DEF insertNew
<1>11. Tidy(Spans, s[pool])
  BY <1>4, <1>6 DEF Sound
<1>12. /\ Sound(u) /\ u.ok
       /\ \A q \in Names : q # pool => u[q] = s[q]
       /\ \A p \in Pages : InPool(u, pool, p) <=> \/ InPool(s, pool, p)
                                                  \/ r.low <= p /\ p <= r.high
  BY ONLY <1>4, <1>5, <1>8, <1>9, <1>10, <1>11, pool \in Names, InsertSound
<1>13. Tidy(Spans, u.conv)
  <2>1. u["conv"] = s["conv"]
    BY <1>6, <1>12 DEF Names
  <2>2. u.conv = <<>>
    BY <1>5, <2>1
  <2>3. Tidy(Spans, <<>>)
    BY DEF Tidy
  <2> QED BY <2>2, <2>3
<1>14. Fits(u, HomeAt(mem, 0), {})
  <2>1. \A p \in Pages : InPool(u, "mem", p)
    BY <1>6, <1>8, <1>12, PageNumbers
  <2> QED BY <2>1, NoneRead DEF Fits
<1> QED BY <1>12, <1>13, <1>14 DEF Read

-----------------------------------------------------------------------------
(* The inductive invariant.                                                *)
Run(s, H) == Sound(s) /\ s.ok /\ Fits(s, H, {})

\* What has been given to a thread is allocated to it, or to all.
Backed(s, g) ==
  \A x \in g : x[1] \in Pages /\ \E o \in {x[2], Anythread} : Has(s.alloc, x[1], o)

KipHomes == HomeAt(kip.mem, Len(kip.mem))

IInv ==
  /\ kip \in KIPs
  /\ n \in Nat \ {0}
  /\ pc = "memory" =>
        given = {} /\ n <= Len(kip.mem) + 1 /\ Read(pools, HomeAt(kip.mem, n - 1))
  /\ pc = "servers" => given = {} /\ Run(pools, KipHomes)
  /\ pc = "serve" => Run(pools, KipHomes)
  /\ Backed(pools, given)

LEMMA KipFacts ==
  ASSUME NEW k \in KIPs
  PROVE  /\ Len(k.mem) \in Nat /\ DOMAIN k.mem = 1..Len(k.mem)
         /\ \A i \in 1..Len(k.mem) :
              /\ k.mem[i].low \in 0 .. Top /\ k.mem[i].high \in 0 .. Top
              /\ k.mem[i].low <= k.mem[i].high /\ k.mem[i].virtual \in BOOLEAN
         /\ \A i \in 1..4 : k.servers[i].low \in 0 .. Top /\ k.servers[i].high \in 0 .. Top
<1>1. PICK T : T = [low : 0 .. Top, high : 0 .. Top, type : STRING, virtual : BOOLEAN]
  OBVIOUS
<1>2. k.mem \in Seq(T) /\ \A i \in DOMAIN k.mem : k.mem[i].low <= k.mem[i].high
  BY <1>1, Sigma0Assumption
<1>3. /\ Len(k.mem) \in Nat /\ DOMAIN k.mem = 1..Len(k.mem)
      /\ \A i \in 1..Len(k.mem) : k.mem[i] \in T
  BY <1>2, SeqFacts
<1>4. \A d \in T : d.low \in 0 .. Top /\ d.high \in 0 .. Top /\ d.virtual \in BOOLEAN
  BY <1>1
<1> QED BY <1>2, <1>3, <1>4, Sigma0Assumption

LEMMA ServerFacts ==
  /\ Len(Servers) = 4 /\ \A i \in 1..4 : Servers[i] \in Owners
  /\ \A tid \in Clients : tid \in Owners
  BY DEF Servers, Owners, Clients

LEMMA BackedKept ==
  ASSUME NEW s, NEW u, Kept(s, u), NEW g, Backed(s, g)
  PROVE  Backed(u, g)
  BY DEF Backed, Kept

LEMMA NoneBacked ==
  ASSUME NEW s
  PROVE  Backed(s, {})
  BY DEF Backed

\* The reply to a request.
LEMMA AnswerFacts ==
  ASSUME NEW s, NEW res, NEW H, NEW tid, Answered(s, res, H, tid), NEW g, Backed(s, g),
         NEW h, h = g \cup {<<p, tid>> : p \in PagesIn(res.map)} \/ h = g
  PROVE  /\ Backed(res.s, h)
         /\ res.s.ok => Run(res.s, H)
<1>1. /\ Kept(s, res.s) /\ (Lost(res.s) \/ (Sound(res.s) /\ res.s.ok /\ Fits(res.s, H, {})))
      /\ \A p \in PagesIn(res.map) : \E o \in {tid, Anythread} : Has(res.s.alloc, p, o)
  BY DEF Answered, Served
<1>2. Backed(res.s, g)
  BY <1>1, BackedKept
<1>3. PICK z : z = res.s
  OBVIOUS
<1>4. Backed(z, {<<p, tid>> : p \in PagesIn(res.map)})
  <2> SUFFICES ASSUME NEW p \in PagesIn(res.map), NEW x, x = <<p, tid>>
               PROVE  x[1] \in Pages /\ \E o \in {x[2], Anythread} : Has(z.alloc, x[1], o)
    BY DEF Backed
  <2>1. x[1] = p /\ x[2] = tid /\ p \in Pages
    BY DEF PagesIn
  <2> QED BY <1>1, <1>3, <2>1
<1>5. Backed(z, h)
  BY <1>2, <1>3, <1>4 DEF Backed
<1>6. res.s.ok => Run(res.s, H)
  BY <1>1 DEF Run, Lost
<1> QED BY <1>3, <1>5, <1>6

LEMMA ServeFacts ==
  ASSUME IInv, NEW tid \in Clients, NEW res, Serve(tid, res),
         \A H \in Homes : Run(pools, H) => Answered(pools, res, H, tid)
  PROVE  IInv'
<1>1. /\ pc = "serve" /\ pools' = res.s /\ pc' = IF res.s.ok THEN pc ELSE "hung"
      /\ given' = given \cup {<<p, tid>> : p \in PagesIn(res.map)} \/ given' = given
      /\ kip' = kip /\ n' = n
  BY DEF Serve, Answer
<1>2. /\ kip \in KIPs /\ n \in Nat \ {0} /\ Backed(pools, given) /\ Run(pools, KipHomes)
  BY <1>1 DEF IInv
<1>3. KipHomes \in Homes /\ KipHomes' = KipHomes
  BY <1>1, HomesFacts DEF KipHomes
<1>4. PICK H \in Homes : H = KipHomes
  BY <1>3
<1>5. Answered(pools, res, H, tid)
  BY <1>2, <1>4
<1>6. PICK h : h = given'
  OBVIOUS
<1>7. PICK g : g = given
  OBVIOUS
<1>8. h = g \cup {<<p, tid>> : p \in PagesIn(res.map)} \/ h = g
  BY <1>1, <1>6, <1>7
<1>9. Backed(pools, g)
  BY <1>2, <1>7
<1>10. PICK s : s = pools
  OBVIOUS
<1>11. Answered(s, res, H, tid) /\ Backed(s, g)
  BY <1>5, <1>9, <1>10
<1>12. Backed(res.s, h) /\ (res.s.ok => Run(res.s, H))
  BY ONLY <1>8, <1>11, AnswerFacts
<1>13. Backed(pools', given')
  BY <1>1, <1>6, <1>12
<1>14. pc' = "serve" => Run(pools', KipHomes')
  BY <1>1, <1>3, <1>4, <1>12
<1>15. pc' # "memory" /\ pc' # "servers"
  BY <1>1
<1>16. kip' \in KIPs /\ n' \in Nat \ {0}
  BY <1>1, <1>2
<1> QED BY <1>13, <1>14, <1>15, <1>16 DEF IInv

LEMMA RunAt ==
  ASSUME NEW tid \in Clients, NEW at \in Pages, NEW size \in Sizes, NEW only \in BOOLEAN,
         NEW s, NEW H \in Homes, Run(s, H), NEW res,
         res = allocatePageAt(s, tid, at, size, only)
  PROVE  Answered(s, res, H, tid)
<1>1. Sound(s) /\ s.ok /\ Fits(s, H, {})
  BY DEF Run
<1>2. tid \in Owners /\ at \in Nat /\ at <= Top
  BY ServerFacts, PageNumbers, Numbers
<1> QED BY ONLY <1>1, <1>2, H \in Homes, size \in Sizes, only \in BOOLEAN,
                res = allocatePageAt(s, tid, at, size, only), AtFacts

LEMMA RunAny ==
  ASSUME NEW tid \in Clients, NEW size \in Sizes,
         NEW s, NEW H \in Homes, Run(s, H), NEW res, res = allocatePage(s, tid, size)
  PROVE  Answered(s, res, H, tid)
<1>1. Sound(s) /\ s.ok /\ Fits(s, H, {}) /\ tid \in Owners
  BY ServerFacts DEF Run
<1> QED BY ONLY <1>1, H \in Homes, size \in Sizes, res = allocatePage(s, tid, size), AnyFacts

LEMMA BlockSizes == Blocks \subseteq Sizes /\ Page \in Sizes
<1>1. Blocks \subseteq Sizes
  <2>1. Top + 1 \in Int /\ Page \in Nat \ {0}
    BY Numbers
  <2> QED BY <2>1, Sigma0Assumption DEF Sizes, Block
<1> QED BY <1>1, PageBlock, Numbers DEF Sizes

LEMMA InvInit == Init => IInv
<1> SUFFICES ASSUME Init PROVE IInv
  OBVIOUS
<1>1. /\ kip \in KIPs /\ pc = "memory" /\ n = 1 /\ given = {}
      /\ pools = insertNew(NoPools, "mem", region(0, Top, Anythread))
  BY DEF Init
<1>2. Read(pools, HomeAt(kip.mem, 0))
  BY <1>1, InitRead
<1>3. n - 1 = 0 /\ n \in Nat \ {0} /\ n <= Len(kip.mem) + 1
  <2>1. Len(kip.mem) \in Nat
    BY <1>1, KipFacts
  <2> QED BY <1>1, <2>1
<1>4. Read(pools, HomeAt(kip.mem, n - 1))
  BY <1>2, <1>3
<1> QED BY <1>1, <1>3, <1>4, NoneBacked DEF IInv

LEMMA DescriptorStep ==
  ASSUME IInv, ReadDescriptor
  PROVE  IInv'
<1>1. /\ pc = "memory" /\ n <= Len(kip.mem) /\ pools' = Described(pools, kip.mem[n])
      /\ n' = n + 1 /\ pc' = (IF pools'.ok THEN pc ELSE "hung") /\ kip' = kip /\ given' = given
  BY DEF ReadDescriptor
<1>2. /\ kip \in KIPs /\ n \in Nat \ {0} /\ given = {}
      /\ Read(pools, HomeAt(kip.mem, n - 1))
  BY <1>1 DEF IInv
<1>3. PICK mem : mem = kip.mem
  OBVIOUS
<1>4. PICK m \in Nat : m = n
  BY <1>2
<1>5. PICK l \in Nat : l = n - 1
  BY <1>2
<1>6. PICK d : d = mem[m]
  OBVIOUS
<1>7. n \in 1..Len(kip.mem) /\ Len(kip.mem) \in Nat
  BY <1>1, <1>2, KipFacts
<1>8. /\ d.low \in 0 .. Top /\ d.high \in 0 .. Top /\ d.low <= d.high /\ d.virtual \in BOOLEAN
  BY <1>2, <1>3, <1>4, <1>6, <1>7, KipFacts
<1>9. PICK s : s = pools
  OBVIOUS
<1>10. PICK u : u = pools'
  OBVIOUS
<1>11. m = l + 1 /\ Read(s, HomeAt(mem, l)) /\ u = Described(s, d)
  BY <1>1, <1>2, <1>3, <1>4, <1>5, <1>6, <1>9, <1>10
<1>12. Lost(u) \/ Read(u, HomeAt(mem, m))
  BY ONLY <1>6, <1>8, <1>11, l \in Nat, m \in Nat, ReadFacts
<1>13. kip' \in KIPs /\ n' \in Nat \ {0} /\ n' <= Len(kip'.mem) + 1 /\ n' - 1 = m
  BY <1>1, <1>2, <1>4, <1>7
<1>14. u.ok => Read(pools', HomeAt(kip'.mem, n' - 1))
  BY <1>1, <1>3, <1>10, <1>12, <1>13 DEF Lost
<1>15. pc' = "memory" => u.ok
  BY <1>1, <1>10
<1>16. pc' # "servers" /\ pc' # "serve" /\ given' = {}
  BY <1>1, <1>2
<1>17. Backed(pools', given')
  BY <1>16, NoneBacked
<1> QED BY <1>13, <1>14, <1>15, <1>16, <1>17 DEF IInv

LEMMA ServerStep ==
  ASSUME IInv, AllocMemory
  PROVE  IInv'
<1>1. /\ pc = "servers" /\ n <= Len(Servers)
      /\ pools' = (IF kip.servers[n].high = 0 THEN pools
                   ELSE register_memory(pools, kip.servers[n].low, kip.servers[n].high,
                                        Servers[n]))
      /\ n' = n + 1 /\ pc' = (IF pools'.ok THEN pc ELSE "hung") /\ kip' = kip /\ given' = given
  BY DEF AllocMemory
<1>2. /\ kip \in KIPs /\ n \in Nat \ {0} /\ given = {} /\ Run(pools, KipHomes)
  BY <1>1 DEF IInv
<1>3. n \in 1..4
  BY <1>1, <1>2, ServerFacts
<1>4. PICK tid \in Owners : tid = Servers[n]
  BY <1>3, ServerFacts
<1>5. PICK low \in 0 .. Top : low = kip.servers[n].low
  BY <1>2, <1>3, KipFacts
<1>6. PICK high \in 0 .. Top : high = kip.servers[n].high
  BY <1>2, <1>3, KipFacts
<1>7. PICK H \in Homes : H = KipHomes
  BY HomesFacts DEF KipHomes
<1>8. PICK s : s = pools
  OBVIOUS
<1>9. PICK u : u = pools'
  OBVIOUS
<1>10. Sound(s) /\ s.ok /\ Fits(s, H, {})
  BY <1>2, <1>7, <1>8 DEF Run
<1>11. u = s \/ u = register_memory(s, low, high, tid)
  BY <1>1, <1>4, <1>5, <1>6, <1>8, <1>9
<1>12. Served(s, u, H)
  <2>1. u = s => Served(s, u, H)
    BY <1>10, ServedSame
  <2>2. u = register_memory(s, low, high, tid) => Served(s, u, H)
    BY ONLY <1>10, H \in Homes, tid \in Owners, low \in 0 .. Top, high \in 0 .. Top,
            RegisterFacts
  <2> QED BY <1>11, <2>1, <2>2
<1>13. u.ok => Run(u, H)
  BY <1>12 DEF Served, Lost, Run
<1>14. KipHomes' = H
  BY <1>1, <1>7 DEF KipHomes
<1>15. pc' = "servers" => Run(pools', KipHomes')
  BY <1>1, <1>9, <1>13, <1>14
<1>16. pc' # "memory" /\ pc' # "serve" /\ given' = {} /\ kip' \in KIPs /\ n' \in Nat \ {0}
  BY <1>1, <1>2
<1>17. Backed(pools', given')
  BY <1>16, NoneBacked
<1> QED BY <1>15, <1>16, <1>17 DEF IInv

LEMMA InvNext ==
  ASSUME IInv, [Next]_vars
  PROVE  IInv'
<1>1. CASE ReadDescriptor
  BY <1>1, DescriptorStep
<1>2. CASE AllDescriptors
  <2>1. /\ pc = "memory" /\ n > Len(kip.mem) /\ pc' = "servers" /\ n' = 1
        /\ kip' = kip /\ pools' = pools /\ given' = given
    BY <1>2 DEF AllDescriptors
  <2>2. /\ kip \in KIPs /\ n \in Nat \ {0} /\ given = {} /\ n <= Len(kip.mem) + 1
        /\ Read(pools, HomeAt(kip.mem, n - 1))
    BY <2>1 DEF IInv
  <2>3. n - 1 = Len(kip.mem)
    <3>1. Len(kip.mem) \in Nat
      BY <2>2, KipFacts
    <3> QED BY <2>1, <2>2, <3>1
  <2>4. Run(pools, KipHomes)
    BY <2>2, <2>3 DEF Read, Run, KipHomes
  <2>5. KipHomes' = KipHomes
    BY <2>1 DEF KipHomes
  <2>6. Backed(pools', given') /\ given' = {}
    BY <2>1, <2>2, NoneBacked
  <2> QED BY <2>1, <2>2, <2>4, <2>5, <2>6 DEF IInv
<1>3. CASE AllocMemory
  BY <1>3, ServerStep
<1>4. CASE StartServing
  <2>1. KipHomes' = KipHomes
    BY <1>4 DEF StartServing, KipHomes
  <2> QED BY <1>4, <2>1 DEF IInv, StartServing
<1>5. CASE PageFault
  <2>1. PICK tid \in Clients, at \in Pages :
          Serve(tid, allocatePageAt(pools, tid, at, Page, TRUE))
    BY <1>5 DEF PageFault
  <2>2. PICK res : res = allocatePageAt(pools, tid, at, Page, TRUE)
    OBVIOUS
  <2>3. \A H \in Homes : Run(pools, H) => Answered(pools, res, H, tid)
    BY <2>2, RunAt, BlockSizes
  <2>4. Serve(tid, res)
    BY <2>1, <2>2
  <2> QED BY <2>3, <2>4, ServeFacts
<1>6. CASE RpcAt
  <2>1. PICK tid \in Clients, at \in Pages, size \in Blocks :
          Serve(tid, allocatePageAt(pools, tid, at, size, FALSE))
    BY <1>6 DEF RpcAt
  <2>2. PICK res : res = allocatePageAt(pools, tid, at, size, FALSE)
    OBVIOUS
  <2>3. \A H \in Homes : Run(pools, H) => Answered(pools, res, H, tid)
    BY <2>2, RunAt, BlockSizes
  <2>4. Serve(tid, res)
    BY <2>1, <2>2
  <2> QED BY <2>3, <2>4, ServeFacts
<1>7. CASE RpcAnywhere
  <2>1. PICK tid \in Clients, size \in Blocks : Serve(tid, allocatePage(pools, tid, size))
    BY <1>7 DEF RpcAnywhere
  <2>2. PICK res : res = allocatePage(pools, tid, size)
    OBVIOUS
  <2>3. \A H \in Homes : Run(pools, H) => Answered(pools, res, H, tid)
    BY <2>2, RunAny, BlockSizes
  <2>4. Serve(tid, res)
    BY <2>1, <2>2
  <2> QED BY <2>3, <2>4, ServeFacts
<1>8. CASE UNCHANGED vars
  <2>1. KipHomes' = KipHomes
    BY <1>8 DEF vars, KipHomes
  <2> QED BY <1>8, <2>1 DEF IInv, vars
<1> QED BY <1>1, <1>2, <1>3, <1>4, <1>5, <1>6, <1>7, <1>8 DEF Next

-----------------------------------------------------------------------------
(* What the invariant means.                                               *)
LEMMA HomeIs ==
  ASSUME kip \in KIPs, NEW p \in Pages
  PROVE  KipHomes[p] = Home(p)
<1>1. DOMAIN kip.mem = 1..Len(kip.mem)
  BY KipFacts
<1>2. TouchingTo(kip.mem, Len(kip.mem), p) = Touching(p)
  BY <1>1 DEF TouchingTo, Touches, Touching
<1> QED BY <1>2 DEF KipHomes, HomeAt, Home, TypeOf, target

\* A page lies in one region of a list at most.
LEMMA OneRegion ==
  ASSUME NEW list, Tidy(Slack, list), NEW i \in DOMAIN list, NEW j \in DOMAIN list,
         NEW p \in Nat, list[i].low <= p, p <= list[i].high, list[j].low <= p, p <= list[j].high
  PROVE  i = j
<1> SUFFICES ASSUME i # j PROVE FALSE
  OBVIOUS
<1>1. Apart(list[i], list[j])
  BY DEF Tidy
<1>2. list[i] \in Slack /\ list[j] \in Slack
  BY SeqFacts DEF Tidy
<1>3. PICK x \in Slack : x = list[i]
  BY <1>2
<1>4. PICK y \in Slack : y = list[j]
  BY <1>2
<1>5. /\ x.low \in Nat /\ x.high \in Nat /\ y.low \in Nat /\ y.high \in Nat
      /\ x.low <= p /\ p <= x.high /\ y.low <= p /\ p <= y.high
  BY <1>3, <1>4, SlackFacts
<1>6. Base(x) = x.low /\ Base(y) = y.low
  BY <1>5, SlackFacts
<1> QED BY <1>1, <1>3, <1>4, <1>5, <1>6 DEF Apart

LEMMA RegsFacts ==
  ASSUME Sound(pools), NEW pool \in Names, NEW p \in Pages
  PROVE  /\ InPool(pools, pool, p) <=> Regs(pool, p) # {}
         /\ \A i, j \in Regs(pool, p) : i = j
<1>1. Tidy(Slack, pools[pool])
  BY SoundKinds, KindSlack
<1>2. \A i \in Regs(pool, p) : /\ i \in DOMAIN pools[pool]
                               /\ pools[pool][i].low <= p /\ p <= pools[pool][i].high
  BY DEF Regs
<1>3. p \in Nat
  BY PageNumbers
<1>4. \A i, j \in Regs(pool, p) : i = j
  BY <1>1, <1>2, <1>3, OneRegion
<1>5. InPool(pools, pool, p) <=> Regs(pool, p) # {}
  BY DEF InPool, In, Members, Regs
<1> QED BY <1>4, <1>5

LEMMA InvExact == IInv => PoolsExact
<1> SUFFICES ASSUME IInv, pc = "serve", NEW p \in Pages, NEW places,
                    places = UNION {{pool} \X Regs(pool, p) : pool \in {"conv", "mem", "alloc"}}
             PROVE  IF Home(p) = "none" THEN places = {}
                    ELSE /\ Cardinality(places) = 1
                         /\ \A x \in places : x[1] \in {Home(p), "alloc"}
  BY DEF PoolsExact
<1>1. Sound(pools) /\ Fits(pools, KipHomes, {}) /\ kip \in KIPs
  BY DEF IInv, Run
<1>2. KipHomes[p] = Home(p) /\ KipHomes \in Homes
  BY <1>1, HomeIs, HomesFacts DEF KipHomes
<1>3. /\ Home(p) = "none" => \A q \in Names : ~InPool(pools, q, p)
      /\ Home(p) # "none" => InPool(pools, "alloc", p) \/ InPool(pools, Home(p), p)
      /\ Home(p) \in Names \cup {"none"}
  BY <1>1, <1>2 DEF Fits, Homes
<1>4. \A x : x \in places <=> \E q \in Names : x \in {q} \X Regs(q, p)
  BY DEF Names
<1>5. CASE Home(p) = "none"
  <2>1. \A q \in Names : Regs(q, p) = {}
    BY <1>1, <1>3, <1>5, RegsFacts
  <2>2. places = {}
    BY <1>4, <2>1
  <2> QED BY <1>5, <2>2
<1>6. CASE Home(p) # "none"
  <2>1. PICK q \in Names : q \in {Home(p), "alloc"} /\ InPool(pools, q, p)
    BY <1>3, <1>6 DEF Names
  <2>2. PICK i \in Regs(q, p) : TRUE
    BY <1>1, <2>1, RegsFacts
  <2>3. \A r \in Names : r # q => ~InPool(pools, r, p)
    BY <1>1, <2>1 DEF Sound, Excl
  <2>4. \A r \in Names : r # q => Regs(r, p) = {}
    BY <1>1, <2>3, RegsFacts
  <2>5. Regs(q, p) = {i}
    BY <1>1, <2>2, RegsFacts
  <2>6. \A x : x \in places <=> x \in {q} \X {i}
    BY <1>4, <2>4, <2>5
  <2>7. PICK y : y = <<q, i>>
    OBVIOUS
  <2>8. places = {y}
    BY <2>6, <2>7
  <2>9. Cardinality(places) = 1
    BY <2>8, FS_Singleton
  <2>10. \A x \in places : x[1] = q
    BY <2>7, <2>8
  <2> QED BY <1>6, <2>1, <2>9, <2>10
<1> QED BY <1>5, <1>6

LEMMA InvOwned == IInv => GivenIsOwned
<1> SUFFICES ASSUME IInv, NEW g \in given
             PROVE  \E i \in Regs("alloc", g[1]) : pools.alloc[i].owner \in {g[2], Anythread}
  BY DEF GivenIsOwned
<1>1. PICK o \in {g[2], Anythread} : Has(pools.alloc, g[1], o)
  BY DEF IInv, Backed
<1>2. PICK x \in Members(pools.alloc) : x.owner = o /\ x.low <= g[1] /\ g[1] <= x.high
  BY <1>1 DEF Has
<1>3. PICK i \in DOMAIN pools.alloc : x = pools.alloc[i]
  BY DEF Members
<1>4. i \in Regs("alloc", g[1])
  BY <1>2, <1>3 DEF Regs
<1> QED BY <1>1, <1>2, <1>3, <1>4

-----------------------------------------------------------------------------
(* Requests that are refused.                                              *)

\* Nothing was mapped, and nothing taken for sigma0 either.
Refused(s, res) == res.map = Nilpage /\ res.s.ok /\ Spare(s, res.s)

LEMMA NotRefused ==
  ASSUME NEW s, NEW u, NEW addr, NEW size \in Nat \ {0}, NEW res,
         res = Result(u, <<addr, size>>)
  PROVE  ~Refused(s, res)
<1> SUFFICES ASSUME Refused(s, res) PROVE FALSE
  OBVIOUS
<1>1. res.s = u /\ res.map = IF u.ok THEN <<addr, size>> ELSE Nilpage
  BY DEF Result
<1>2. <<addr, size>> = <<0, 0>>
  BY <1>1 DEF Refused, Nilpage
<1> QED BY <1>2

LEMMA SlowRefused ==
  ASSUME NEW s, Sound(s), s.ok, NEW H \in Homes, Fits(s, H, {}), NEW ps \in Ways,
         NEW addr, NEW size, Spot(addr, size), NEW tid \in Owners,
         NEW res, res = Slow(s, ps, addr, size, tid), Refused(s, res)
  PROVE  res.s = s
<1>1. PICK pages : pages = SlowPages(addr, size)
  OBVIOUS
<1>2. CASE ~\A k \in DOMAIN pages : PoolOf(s, ps, pages[k], Page, tid) # 0
  <2>1. res = Result(s, Nilpage)
    BY <1>1, <1>2 DEF Slow
  <2> QED BY <2>1 DEF Result
<1>3. CASE /\ \A k \in DOMAIN pages : PoolOf(s, ps, pages[k], Page, tid) # 0
           /\ addr + size - 1 = Top
  <2>1. PICK u : u = [s EXCEPT !.ok = FALSE]
    OBVIOUS
  <2>2. res = Result(u, Nilpage)
    BY <1>1, <1>3, <2>1 DEF Slow
  <2>3. s \in PoolSet
    BY DEF Sound
  <2>4. ~u.ok
    BY <2>1, <2>3 DEF PoolSet
  <2> QED BY <2>2, <2>4 DEF Refused, Result
<1>4. CASE /\ \A k \in DOMAIN pages : PoolOf(s, ps, pages[k], Page, tid) # 0
           /\ addr + size - 1 # Top
  <2>1. PICK t : t = TakePages(s, ps, addr, size, tid)
    OBVIOUS
  <2>2. res = Taken(t, addr, size)
    BY <1>1, <1>4, <2>1 DEF Slow
  <2>3. pages \in Seq(Pages)
    <3>1. addr + size - 1 # Top
      BY <1>4
    <3> QED BY ONLY <1>1, <3>1, Spot(addr, size), SlowPagesFacts
  <2>4. PICK y : \E e : Looped(s, H, t, y, e, ps, pages, Len(pages), tid)
    BY <1>1, <2>1, <2>3, TakePagesFacts
  <2>5. PICK e : Looped(s, H, t, y, e, ps, pages, Len(pages), tid)
    BY <2>4
  <2>6. t.s = y /\ t.done = e /\ e \in BOOLEAN
    BY <2>5 DEF Looped, Going
  <2>7. size \in Nat \ {0}
    BY SpotFacts
  <2>8. ~e
    <3>1. CASE e
      <4>1. res = Result(y, <<addr, size>>)
        BY <2>2, <2>6, <3>1 DEF Taken
      <4> QED BY <2>7, <4>1, NotRefused
    <3> QED BY <3>1
  <2>9. res.s = y
    BY <2>2, <2>6 DEF Taken, Result
  <2>10. \A j \in 1..Len(pages) : PoolOf(s, ps, pages[j], Page, tid) # 0
    BY <1>4, <2>3, SeqFacts
  <2>11. y.ok /\ Spare(s, y)
    BY <2>9 DEF Refused
  <2> QED BY <2>5, <2>8, <2>10, <2>11 DEF Looped
<1> QED BY <1>2, <1>3, <1>4

LEMMA AtRefused ==
  ASSUME NEW s, Sound(s), s.ok, NEW H \in Homes, Fits(s, H, {}), NEW tid \in Owners,
         NEW at \in Nat, at <= Top, NEW size \in Sizes,
         NEW res, res = allocatePageAt(s, tid, at, size, FALSE), Refused(s, res)
  PROVE  res.s = s
<1>1. PICK addr : addr = Down(at, size)
  OBVIOUS
<1>2. PICK ps : ps = <<"conv", "mem">>
  OBVIOUS
<1>3. PICK ways : ways = <<"conv", "alloc", "mem">>
  OBVIOUS
<1>4. ways \in Ways
  BY <1>3 DEF Ways
<1>5. PICK quick : quick = PoolOf(s, ps, addr, size, tid)
  OBVIOUS
<1>6. res = IF size < Page THEN Result(s, Nilpage)
            ELSE IF quick # 0
            THEN Result(Take(s, ps[quick], addr, size, tid), <<addr, size>>)
            ELSE IF Holding(s, "alloc", addr, size, tid) # {} THEN Result(s, <<addr, size>>)
            ELSE Slow(s, ways, addr, size, tid)
  BY <1>1, <1>2, <1>3, <1>5 DEF allocatePageAt
<1>7. size \in Nat \ {0}
  BY DEF Sizes
<1>8. CASE res = Result(s, Nilpage)
  <2>1. Result(s, Nilpage).s = s
    BY DEF Result
  <2> QED BY ONLY <1>8, <2>1
<1>9. CASE ~(size < Page) /\ res = Slow(s, ways, addr, size, tid)
  <2>1. Block(size)
    BY <1>7, <1>9, Numbers DEF Sizes
  <2>2. Spot(addr, size)
    <3>1. addr \in Nat /\ addr % size = 0 /\ addr <= at
      BY ONLY <1>1, <1>7, at \in Nat, DownFacts
    <3>2. addr <= Top
      BY <3>1, Numbers
    <3> QED BY <2>1, <3>1, <3>2 DEF Spot
  <2>3. res = Slow(s, ways, addr, size, tid)
    BY <1>9
  <2> QED BY ONLY <1>4, <2>2, <2>3, Sound(s), s.ok, H \in Homes, Fits(s, H, {}),
                  tid \in Owners, Refused(s, res), SlowRefused
<1>10. ASSUME NEW u, res = Result(u, <<addr, size>>) PROVE FALSE
  BY <1>7, <1>10, NotRefused
<1> QED BY <1>6, <1>8, <1>9, <1>10

LEMMA PagesOfFacts ==
  ASSUME NEW s, NEW o, NEW p \in Pages
  PROVE  p \in PagesOf(s, o) <=> Has(s.alloc, p, o)
  BY DEF PagesOf, Has, Members

LEMMA InvRefused == IInv => RefusedTakesNothing
<1> SUFFICES ASSUME IInv, pc = "serve", NEW tid \in Clients, NEW at \in Pages,
                    NEW size \in Blocks, NEW res,
                    res = allocatePageAt(pools, tid, at, size, FALSE),
                    res.map = Nilpage, res.s.ok,
                    PagesOf(res.s, Sigma0Id) = PagesOf(pools, Sigma0Id)
             PROVE  PagesOf(res.s, tid) = PagesOf(pools, tid)
  BY DEF RefusedTakesNothing, TakesNothing
<1>1. PICK H \in Homes : H = KipHomes
  BY HomesFacts DEF KipHomes
<1>2. PICK s : s = pools
  OBVIOUS
<1>3. Sound(s) /\ s.ok /\ Fits(s, H, {})
  BY <1>1, <1>2 DEF IInv, Run
<1>4. Spare(s, res.s)
  <2> SUFFICES ASSUME NEW p \in Pages, Has(res.s.alloc, p, Sigma0Id)
               PROVE  Has(s.alloc, p, Sigma0Id)
    BY DEF Spare
  <2> QED BY <1>2, PagesOfFacts
<1>5. Refused(s, res)
  BY <1>4 DEF Refused
<1>6. tid \in Owners /\ at \in Nat /\ at <= Top /\ size \in Sizes
  BY ServerFacts, PageNumbers, BlockSizes
<1>7. res = allocatePageAt(s, tid, at, size, FALSE)
  BY <1>2
<1>8. res.s = s
  BY ONLY <1>3, <1>5, <1>6, <1>7, H \in Homes, AtRefused
<1> QED BY <1>2, <1>8

-----------------------------------------------------------------------------
(* The theorems.                                                           *)

\* Every page is in the one pool that the last descriptor for it names, once,
\* or has one owner: no list loses or repeats a page, whatever the order of
\* descriptors and requests and whenever a list has to grow.
THEOREM PoolsStayExact == Spec => []PoolsExact
<1>1. IInv => PoolsExact
  BY InvExact
<1>2. Init => IInv
  BY InvInit
<1>3. IInv /\ [Next]_vars => IInv'
  BY InvNext
<1> QED BY <1>1, <1>2, <1>3, PTL DEF Spec

\* What replies have mapped to a thread stays allocated to it or to all: of the
\* pages that are not for all none is given to two threads.
THEOREM GivenStaysOwned == Spec => []GivenIsOwned
<1>1. IInv => GivenIsOwned
  BY InvOwned
<1>2. Init => IInv
  BY InvInit
<1>3. IInv /\ [Next]_vars => IInv'
  BY InvNext
<1> QED BY <1>1, <1>2, <1>3, PTL DEF Spec

\* A request that is refused takes nothing: no page that was there for it when
\* all were checked is missing when they are taken one by one, whatever the
\* lists of regions take for themselves meanwhile, unless it is such a page.
THEOREM RefusalsTakeNothing == Spec => []RefusedTakesNothing
<1>1. IInv => RefusedTakesNothing
  BY InvRefused
<1>2. Init => IInv
  BY InvInit
<1>3. IInv /\ [Next]_vars => IInv'
  BY InvNext
<1> QED BY <1>1, <1>2, <1>3, PTL DEF Spec
=============================================================================
