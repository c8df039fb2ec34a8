--------------------------- MODULE PrioHeapProofs ----------------------------
(***************************************************************************)
(* Proofs about PrioHeap, for every number of priorities.                  *)
(*                                                                         *)
(* While a loop runs, the heap has a gap, and "item" is to be put into it  *)
(* or into another place that it moves to.  The inductive invariant says   *)
(* what holds of the entries around the gap.                               *)
(***************************************************************************)
EXTENDS PrioHeap, NatLemmas, FiniteSetTheorems, TLAPS

\* The entries other than the gap, and the priorities that they should be.
Filled == IF loop = "none" THEN Indices ELSE Indices \ {gap}
Rest   == IF loop = "none" THEN runs ELSE runs \ {item}

Exact ==
  /\ \A i \in Filled : prioset[i] \in Rest /\ prioidx[prioset[i]] = i
  /\ \A p \in Rest : prioidx[p] \in Filled /\ prioset[prioidx[p]] = p

Ordered ==
  \A i, j \in Filled : i > 0 /\ j = Parent(i) => prioset[i] < prioset[j]

\* An entry below the gap is smaller than one above, and than an item that
\* moves up; an item that has moved down is smaller than the entry above.
AroundGap ==
  loop # "none" =>
    \A i \in Indices :
      i > 0 /\ Parent(i) = gap =>
        /\ gap > 0 => prioset[i] < prioset[Parent(gap)]
        /\ loop = "up" => prioset[i] < item

Working ==
  /\ loop = "none" => leaving = PRIORITIES
  /\ loop # "none" => gap \in Indices /\ item \in runs
  /\ loop = "down" => from \in Indices
  /\ loop = "down" /\ gap # from => gap > 0 /\ item < prioset[Parent(gap)]
  /\ leaving \notin runs

Sized == IsFiniteSet(runs) /\ Cardinality(runs) = priosetSize

IInv == TypeOK /\ Exact /\ Ordered /\ AroundGap /\ Working /\ Sized

-----------------------------------------------------------------------------
\* Parents come before their children, which have just the two places.
LEMMA ParentChild ==
  /\ \A i \in Nat \ {0} : Parent(i) \in Nat /\ Parent(i) < i
  /\ \A i \in Nat \ {0} : i = Child(Parent(i)) \/ i = Child(Parent(i)) + 1
  /\ \A i \in Nat : Child(i) \in Nat /\ Parent(Child(i)) = i /\ Parent(Child(i) + 1) = i
BY DEF Parent, Child

\* The invariant holds initially.
LEMMA InitInv == Init => IInv
<1> SUFFICES ASSUME Init PROVE IInv
  OBVIOUS
<1> USE PrioritiesAssumption DEF Init
<1>1. TypeOK
  BY DEF TypeOK, Prio
<1>2. Filled = {} /\ Rest = {}
  BY DEF Filled, Rest, Indices
<1>3. Exact /\ Ordered
  BY <1>2 DEF Exact, Ordered
<1>4. AroundGap /\ Working
  BY DEF AroundGap, Working, Prio
<1>5. Sized
  BY FS_EmptySet DEF Sized
<1> QED BY <1>1, <1>3, <1>4, <1>5 DEF IInv

\* There is room for another priority.
LEMMA Room ==
  ASSUME TypeOK, Sized, NEW p \in Prio \ runs
  PROVE  /\ priosetSize < PRIORITIES
         /\ IsFiniteSet(runs \cup {p})
         /\ Cardinality(runs \cup {p}) = priosetSize + 1
<1>1. IsFiniteSet(Prio) /\ Cardinality(Prio) = PRIORITIES
  <2>1. IsFiniteSet(0..(PRIORITIES - 1))
    BY PrioritiesAssumption, FS_Interval
  <2>2. Cardinality(0..(PRIORITIES - 1)) = PRIORITIES
    BY PrioritiesAssumption, FS_Interval
  <2> QED BY <2>1, <2>2 DEF Prio
<1>2. IsFiniteSet(runs \cup {p}) /\ Cardinality(runs \cup {p}) = priosetSize + 1
  BY FS_AddElement DEF Sized, TypeOK
<1>3. runs \cup {p} \subseteq Prio
  BY DEF TypeOK
<1>4. Cardinality(runs \cup {p}) <= Cardinality(Prio)
  BY <1>1, <1>3, FS_Subset
<1> QED BY <1>1, <1>2, <1>4, PrioritiesAssumption DEF TypeOK

LEMMA InsertInv ==
  ASSUME IInv, NEW p \in Prio, Insert(p)
  PROVE  IInv'
<1> USE DEF Insert
<1>0. p \in Prio \ runs /\ TypeOK /\ Sized
  BY DEF IInv
<1>1. priosetSize \in Nat /\ priosetSize < PRIORITIES /\ PRIORITIES \in Nat
  <2>1. priosetSize < PRIORITIES
    BY <1>0, Room
  <2>2. priosetSize \in Nat
    BY <1>0, PrioritiesAssumption DEF TypeOK
  <2> QED BY <2>1, <2>2, PrioritiesAssumption
<1>2. TypeOK'
  <2>1. priosetSize \in Prio /\ priosetSize + 1 \in 0..PRIORITIES
    BY <1>1 DEF Prio
  <2> QED BY <2>1, <1>0 DEF TypeOK
<1>3. Filled' = Filled /\ Rest' = Rest
  BY <1>0, <1>1 DEF Filled, Rest, Indices
<1>4. Exact' /\ Ordered'
  <2>1. Exact /\ Ordered
    BY DEF IInv
  <2> QED BY <2>1, <1>3 DEF Exact, Ordered
<1>5. AroundGap'
  <2>1. \A i \in Indices' : i > 0 => Parent(i) # priosetSize
    BY <1>1, ParentChild DEF Indices
  <2> QED BY <2>1 DEF AroundGap
<1>6. Working'
  BY <1>1, <1>0 DEF IInv, Working, Indices, Prio
<1>7. Sized'
  BY <1>0, Room DEF Sized
<1> QED BY <1>2, <1>4, <1>5, <1>6, <1>7 DEF IInv

LEMMA RemoveInv ==
  ASSUME IInv, NEW p \in Prio, Remove(p)
  PROVE  IInv'
<1> DEFINE rprio == prioset[priosetSize - 1]
<1>0. /\ loop = "none" /\ p \in runs
      /\ runs' = runs \ {p} /\ priosetSize' = priosetSize - 1
      /\ prioset' = prioset
      /\ \/ /\ rprio # p
            /\ loop' = "down" /\ item' = rprio
            /\ gap' = prioidx[p] /\ from' = prioidx[p]
            /\ leaving' = p /\ prioidx' = prioidx
         \/ /\ rprio = p
            /\ prioidx' = [prioidx EXCEPT ![p] = PRIORITIES]
            /\ UNCHANGED <<loop, item, gap, from, leaving>>
  BY DEF Remove
<1>1. TypeOK /\ Exact /\ Ordered /\ Working /\ Sized
  BY DEF IInv
<1>2. Filled = Indices /\ Rest = runs
  BY <1>0 DEF Filled, Rest
<1>3. /\ prioidx[p] \in Indices /\ prioset[prioidx[p]] = p
      /\ priosetSize \in Nat \ {0} /\ PRIORITIES \in Nat /\ priosetSize <= PRIORITIES
  BY <1>0, <1>1, <1>2, PrioritiesAssumption DEF TypeOK, Exact, Indices
<1>4. priosetSize - 1 \in Indices /\ rprio \in runs /\ prioidx[rprio] = priosetSize - 1
  BY <1>1, <1>2, <1>3 DEF Exact, Indices
<1>5. Indices' = Indices \ {priosetSize - 1} /\ Indices \subseteq Prio /\ PRIORITIES \notin Prio
  BY <1>0, <1>3 DEF Indices, Prio
<1> HIDE DEF rprio
<1>6. Sized'
  <2>1. IsFiniteSet(runs \ {p}) /\ Cardinality(runs \ {p}) = Cardinality(runs) - 1
    BY <1>0, <1>1, FS_RemoveElement DEF Sized
  <2> QED BY <2>1, <1>0, <1>1 DEF Sized
<1>7. CASE rprio # p
  <2>0. /\ loop' = "down" /\ item' = rprio /\ gap' = prioidx[p] /\ from' = prioidx[p]
        /\ leaving' = p /\ prioidx' = prioidx
    BY <1>0, <1>7
  <2>1. prioidx[p] # priosetSize - 1
    BY <1>3, <1>7 DEF rprio
  <2>2. Filled' = Indices \ {priosetSize - 1, prioidx[p]} /\ Rest' = runs \ {p, rprio}
    BY <1>0, <1>5, <2>0 DEF Filled, Rest
  <2>3. TypeOK'
    <3>1. priosetSize - 1 \in 0..PRIORITIES
      BY <1>3
    <3>2. p \in 0..PRIORITIES
      BY <1>3 DEF Prio
    <3>3. rprio \in Prio /\ prioidx[p] \in Prio
      BY <1>1, <1>3, <1>4, <1>5 DEF TypeOK
    <3> QED BY <1>0, <1>1, <2>0, <3>1, <3>2, <3>3 DEF TypeOK
  <2>4. Exact'
    <3>1. \A i \in Filled' : prioset[i] \in Rest' /\ prioidx[prioset[i]] = i
      BY <1>1, <1>2, <1>3, <1>4, <2>2 DEF Exact
    <3>2. \A q \in Rest' : prioidx[q] \in Filled' /\ prioset[prioidx[q]] = q
      BY <1>1, <1>2, <1>3, <1>4, <2>2 DEF Exact, rprio
    <3> QED BY <3>1, <3>2, <1>0, <2>0 DEF Exact
  <2>5. Ordered'
    BY <1>0, <1>1, <1>2, <2>2 DEF Ordered
  <2>6. AroundGap'
    <3> SUFFICES ASSUME NEW i \in Indices', i > 0, Parent(i) = prioidx[p], prioidx[p] > 0
                 PROVE  prioset[i] < prioset[Parent(prioidx[p])]
      BY <1>0, <2>0 DEF AroundGap
    <3>1. i \in Indices /\ Parent(i) \in Indices /\ Parent(Parent(i)) \in Indices
      BY <1>3, <1>5, ParentChild DEF Indices
    <3>2. prioset[i] < prioset[Parent(i)] /\ prioset[Parent(i)] < prioset[Parent(Parent(i))]
      BY <3>1, <1>1, <1>2 DEF Ordered
    <3>3. \A j \in Indices : prioset[j] \in Nat
      BY <1>1, <1>5 DEF TypeOK, Prio
    <3> HIDE DEF Indices
    <3> QED BY <3>1, <3>2, <3>3
  <2>7. Working'
    BY <1>0, <1>3, <1>4, <1>5, <1>7, <2>0, <2>1 DEF Working
  <2> QED BY <1>6, <2>3, <2>4, <2>5, <2>6, <2>7 DEF IInv
<1>8. CASE rprio = p
  <2>0. prioidx' = [prioidx EXCEPT ![p] = PRIORITIES] /\ UNCHANGED <<loop, item, gap, from, leaving>>
    BY <1>0, <1>8
  <2>1. Filled' = Indices \ {priosetSize - 1} /\ Rest' = runs \ {p}
    BY <1>0, <1>5, <2>0 DEF Filled, Rest
  <2>2. TypeOK'
    BY <1>0, <1>1, <1>3, <2>0 DEF TypeOK
  <2>3. prioidx[p] = priosetSize - 1 /\ prioidx \in [Prio -> 0..PRIORITIES] /\ runs \subseteq Prio
    BY <1>1, <1>4, <1>8 DEF TypeOK
  <2>4. Exact'
    <3>1. \A q \in runs \ {p} : prioidx'[q] = prioidx[q]
      BY <2>0, <2>3
    <3>2. \A i \in Filled' : prioset[i] \in Rest' /\ prioidx'[prioset[i]] = i
      BY <1>1, <1>2, <2>1, <2>3, <3>1 DEF Exact
    <3>3. \A q \in Rest' : prioidx'[q] \in Filled' /\ prioset[prioidx'[q]] = q
      BY <1>1, <1>2, <1>8, <2>1, <2>3, <3>1 DEF Exact, rprio
    <3> QED BY <3>2, <3>3, <1>0 DEF Exact
  <2>5. Ordered'
    BY <1>0, <1>1, <1>2, <2>1 DEF Ordered
  <2>6. AroundGap' /\ Working'
    BY <1>0, <1>1, <2>0 DEF AroundGap, Working
  <2> QED BY <1>6, <2>2, <2>4, <2>5, <2>6 DEF IInv
<1> QED BY <1>7, <1>8

-----------------------------------------------------------------------------
\* What the invariant says while a loop runs.
LEMMA GapFacts ==
  ASSUME IInv, loop # "none"
  PROVE  /\ Filled = Indices \ {gap} /\ Rest = runs \ {item}
         /\ gap \in Indices /\ item \in runs
         /\ Indices \subseteq Prio /\ Indices \subseteq Nat /\ runs \subseteq Nat
         /\ PRIORITIES \notin Prio
         /\ \A i \in Indices : prioset[i] \in Prio /\ prioset[i] \in Nat
         /\ \A i \in Indices \ {gap} : prioset[i] \in runs \ {item} /\ prioidx[prioset[i]] = i
         /\ \A i \in Indices : i > 0 => Parent(i) \in Indices /\ Parent(i) < i
<1>1. Filled = Indices \ {gap} /\ Rest = runs \ {item}
  BY DEF Filled, Rest
<1>2. gap \in Indices /\ item \in runs
  BY DEF IInv, Working
<1>3. priosetSize \in Nat /\ PRIORITIES \in Nat \ {0} /\ priosetSize <= PRIORITIES
  BY PrioritiesAssumption DEF IInv, TypeOK
<1>4. Indices \subseteq Prio /\ PRIORITIES \notin Prio /\ Prio \subseteq Nat
  BY <1>3 DEF Indices, Prio
<1>5. runs \subseteq Prio /\ \A i \in Prio : prioset[i] \in Prio
  BY DEF IInv, TypeOK
<1>6. \A i \in Indices \ {gap} : prioset[i] \in runs \ {item} /\ prioidx[prioset[i]] = i
  BY <1>1 DEF IInv, Exact
<1>7. \A i \in Indices : i > 0 => Parent(i) \in Indices /\ Parent(i) < i
  BY <1>3, ParentChild DEF Indices
<1> HIDE DEF Indices
<1> QED BY <1>1, <1>2, <1>4, <1>5, <1>6, <1>7

LEMMA UpMoveInv ==
  ASSUME IInv, UpMove
  PROVE  IInv'
<1> DEFINE par == Parent(gap)
           q   == prioset[par]
<1>0. /\ loop = "up" /\ loop' = "up" /\ gap > 0 /\ q < item
      /\ prioset' = [prioset EXCEPT ![gap] = q]
      /\ prioidx' = [prioidx EXCEPT ![q] = gap]
      /\ gap' = par
      /\ UNCHANGED <<runs, priosetSize, item, from, leaving>>
  BY DEF UpMove, Rises, Put
<1>1. TypeOK /\ Exact /\ Ordered /\ AroundGap /\ Working /\ Sized
  BY DEF IInv
<1>2. /\ Filled = Indices \ {gap} /\ Rest = runs \ {item}
      /\ gap \in Indices /\ item \in runs
      /\ Indices \subseteq Prio /\ Indices \subseteq Nat /\ runs \subseteq Nat
      /\ \A i \in Indices : prioset[i] \in Prio /\ prioset[i] \in Nat
      /\ \A i \in Indices \ {gap} : prioset[i] \in runs \ {item} /\ prioidx[prioset[i]] = i
      /\ \A i \in Indices : i > 0 => Parent(i) \in Indices /\ Parent(i) < i
  BY <1>0, GapFacts
<1>3. par \in Indices \ {gap} /\ q \in runs \ {item} /\ prioidx[q] = par /\ q \in Prio
  BY <1>0, <1>2
<1>4. Indices' = Indices
  BY <1>0 DEF Indices
<1> HIDE DEF q, par
<1>5. Filled' = Indices \ {par} /\ Rest' = runs \ {item}
  BY <1>0, <1>4 DEF Filled, Rest
<1>6. /\ prioset'[gap] = q /\ \A i \in Indices \ {gap} : prioset'[i] = prioset[i]
      /\ prioidx'[q] = gap /\ \A p \in runs \ {q} : prioidx'[p] = prioidx[p]
  BY <1>0, <1>1, <1>2, <1>3 DEF TypeOK
<1>7. TypeOK'
  <2>1. gap \in Prio /\ par \in Prio
    BY <1>2, <1>3
  <2>2. Prio \subseteq 0..PRIORITIES
    BY PrioritiesAssumption DEF Prio
  <2>3. prioset' \in [Prio -> Prio] /\ prioidx' \in [Prio -> 0..PRIORITIES]
    BY <1>0, <1>1, <1>3, <2>1, <2>2 DEF TypeOK
  <2> QED BY <1>0, <1>1, <2>1, <2>3 DEF TypeOK
<1>8. Exact'
  <2>1. ASSUME NEW i \in Indices \ {par} PROVE prioset'[i] \in Rest' /\ prioidx'[prioset'[i]] = i
    <3>1. CASE i = gap
      BY <3>1, <1>3, <1>5, <1>6
    <3>2. CASE i # gap
      <4>1. prioset[i] \in runs \ {item} /\ prioidx[prioset[i]] = i
        BY <3>2, <1>2
      <4>2. prioset[i] # q
        BY <4>1, <1>3
      <4> QED BY <3>2, <4>1, <4>2, <1>5, <1>6
    <3> QED BY <3>1, <3>2
  <2>2. ASSUME NEW p \in runs \ {item} PROVE prioidx'[p] \in Indices \ {par} /\ prioset'[prioidx'[p]] = p
    <3>1. CASE p = q
      BY <3>1, <1>2, <1>3, <1>6
    <3>2. CASE p # q
      <4>1. prioidx[p] \in Indices \ {gap} /\ prioset[prioidx[p]] = p
        BY <1>1, <1>2 DEF Exact
      <4>2. prioidx[p] # par
        BY <4>1, <3>2 DEF q
      <4> QED BY <3>2, <4>1, <4>2, <1>6
    <3> QED BY <3>1, <3>2
  <2> QED BY <2>1, <2>2, <1>5 DEF Exact
<1>9. \A i, j \in Indices \ {gap} : i > 0 /\ j = Parent(i) => prioset[i] < prioset[j]
  BY <1>1, <1>2 DEF Ordered
<1>10. \A i \in Indices : i > 0 /\ Parent(i) = gap => prioset[i] < q
  BY <1>0, <1>1 DEF AroundGap, q, par
<1>11. Ordered'
  <2> SUFFICES ASSUME NEW i \in Indices \ {par}, NEW j \in Indices \ {par}, i > 0, j = Parent(i)
               PROVE  prioset'[i] < prioset'[j]
    BY <1>5 DEF Ordered
  <2>1. i # gap
    BY DEF par
  <2>2. CASE j = gap
    BY <2>1, <2>2, <1>6, <1>10
  <2>3. CASE j # gap
    BY <2>1, <2>3, <1>6, <1>9
  <2> QED BY <2>2, <2>3
<1>12. AroundGap'
  <2> SUFFICES ASSUME NEW i \in Indices, i > 0, Parent(i) = par
               PROVE  /\ par > 0 => prioset'[i] < prioset'[Parent(par)]
                      /\ prioset'[i] < item
    BY <1>0, <1>4 DEF AroundGap
  <2>1. prioset'[i] <= q
    BY <1>2, <1>3, <1>6, <1>9 DEF q
  <2>2. prioset'[i] \in Nat /\ q \in Nat /\ item \in Nat
    BY <1>2, <1>3, <1>6
  <2>3. prioset'[i] < item
    BY <1>0, <2>1, <2>2
  <2>4. ASSUME par > 0 PROVE prioset'[i] < prioset'[Parent(par)]
    <3>1. Parent(par) \in Indices /\ Parent(par) # gap
      <4>1. par < gap /\ par \in Nat /\ gap \in Nat
        BY <1>0, <1>2, <1>3 DEF par
      <4>2. Parent(par) \in Indices /\ Parent(par) < par /\ Parent(par) \in Nat
        BY <2>4, <1>2, <1>3
      <4> QED BY <4>1, <4>2
    <3>2. q < prioset[Parent(par)] /\ prioset[Parent(par)] \in Nat
      BY <2>4, <3>1, <1>2, <1>3, <1>9 DEF q
    <3>3. prioset'[Parent(par)] = prioset[Parent(par)]
      BY <3>1, <1>6
    <3> QED BY <3>2, <3>3, <2>1, <2>2
  <2> QED BY <2>3, <2>4
<1>13. Working' /\ Sized'
  BY <1>0, <1>1, <1>2, <1>3, <1>4 DEF Working, Sized
<1> QED BY <1>7, <1>8, <1>11, <1>12, <1>13 DEF IInv

LEMMA UpEndInv ==
  ASSUME IInv, UpEnd
  PROVE  IInv'
<1>0. /\ loop = "up" /\ loop' = "none" /\ (gap > 0 => ~(prioset[Parent(gap)] < item))
      /\ prioset' = [prioset EXCEPT ![gap] = item]
      /\ prioidx' = [p \in Prio |-> CASE p = leaving -> PRIORITIES
                                      [] p = item    -> gap
                                      [] OTHER       -> prioidx[p]]
      /\ item' = 0 /\ gap' = 0 /\ from' = 0 /\ leaving' = PRIORITIES
      /\ UNCHANGED <<runs, priosetSize>>
  BY DEF UpEnd, Rises, Finish
<1>1. TypeOK /\ Exact /\ Ordered /\ AroundGap /\ Working /\ Sized
  BY DEF IInv
<1>2. /\ Filled = Indices \ {gap} /\ Rest = runs \ {item}
      /\ gap \in Indices /\ item \in runs
      /\ Indices \subseteq Prio /\ Indices \subseteq Nat /\ runs \subseteq Nat
      /\ PRIORITIES \notin Prio
      /\ \A i \in Indices : prioset[i] \in Prio /\ prioset[i] \in Nat
      /\ \A i \in Indices \ {gap} : prioset[i] \in runs \ {item} /\ prioidx[prioset[i]] = i
      /\ \A i \in Indices : i > 0 => Parent(i) \in Indices /\ Parent(i) < i
  BY <1>0, GapFacts
<1>3. Indices' = Indices
  BY <1>0 DEF Indices
<1>4. Filled' = Indices /\ Rest' = runs
  BY <1>0, <1>3 DEF Filled, Rest
<1>5. runs \subseteq Prio /\ leaving \notin runs
  BY <1>1 DEF TypeOK, Working
<1>6. /\ prioset'[gap] = item /\ \A i \in Indices \ {gap} : prioset'[i] = prioset[i]
      /\ prioidx'[item] = gap /\ \A p \in runs \ {item} : prioidx'[p] = prioidx[p]
  <2>1. prioset'[gap] = item /\ \A i \in Indices \ {gap} : prioset'[i] = prioset[i]
    BY <1>0, <1>1, <1>2 DEF TypeOK
  <2>2. prioidx'[item] = gap /\ \A p \in runs \ {item} : prioidx'[p] = prioidx[p]
    BY <1>0, <1>2, <1>5
  <2> QED BY <2>1, <2>2
<1>7. TypeOK'
  <2>1. prioset' \in [Prio -> Prio]
    BY <1>0, <1>1, <1>2 DEF TypeOK
  <2>2. 0 \in Prio /\ PRIORITIES \in 0..PRIORITIES /\ Prio \subseteq 0..PRIORITIES
    BY PrioritiesAssumption DEF Prio
  <2>3. prioidx' \in [Prio -> 0..PRIORITIES]
    BY <2>2, <1>0, <1>1 DEF TypeOK
  <2> QED BY <2>1, <2>2, <2>3, <1>0, <1>1 DEF TypeOK
<1>8. Exact'
  <2>1. \A i \in Indices : prioset'[i] \in runs /\ prioidx'[prioset'[i]] = i
    BY <1>2, <1>6
  <2>2. \A p \in runs \ {item} : prioidx[p] \in Indices \ {gap} /\ prioset[prioidx[p]] = p
    BY <1>1, <1>2 DEF Exact
  <2>3. \A p \in runs : prioidx'[p] \in Indices /\ prioset'[prioidx'[p]] = p
    <3>1. ASSUME NEW p \in runs \ {item} PROVE prioidx'[p] \in Indices /\ prioset'[prioidx'[p]] = p
      <4>1. prioidx'[p] = prioidx[p] /\ prioidx[p] \in Indices \ {gap} /\ prioset[prioidx[p]] = p
        BY <1>6, <2>2
      <4> QED BY <4>1, <1>6
    <3>2. prioidx'[item] \in Indices /\ prioset'[prioidx'[item]] = item
      BY <1>2, <1>6
    <3> QED BY <3>1, <3>2
  <2> QED BY <2>1, <2>3, <1>4 DEF Exact
<1>9. Ordered'
  <2> SUFFICES ASSUME NEW i \in Indices, NEW j \in Indices, i > 0, j = Parent(i)
               PROVE  prioset'[i] < prioset'[j]
    BY <1>4 DEF Ordered
  <2>1. i # j /\ j < i
    BY <1>2
  <2>2. CASE i = gap
    <3>1. prioset[j] # item /\ prioset[j] \in Nat /\ item \in Nat /\ ~(prioset[j] < item)
      BY <2>1, <2>2, <1>0, <1>2
    <3> QED BY <2>1, <2>2, <3>1, <1>6
  <2>3. CASE j = gap
    <3>1. prioset'[j] = item /\ prioset'[i] = prioset[i]
      BY <2>1, <2>3, <1>6
    <3> QED BY <2>3, <3>1, <1>0, <1>1 DEF AroundGap
  <2>4. CASE i # gap /\ j # gap
    BY <2>4, <1>1, <1>2, <1>6 DEF Ordered
  <2> QED BY <2>2, <2>3, <2>4
<1>10. AroundGap' /\ Working' /\ Sized'
  BY <1>0, <1>1, <1>2, <1>5 DEF AroundGap, Working, Sized
<1> QED BY <1>7, <1>8, <1>9, <1>10 DEF IInv

-----------------------------------------------------------------------------
\* The entries below the gap: the larger child is the largest of them.
LEMMA LargerChild ==
  ASSUME IInv, loop = "down"
  PROVE  /\ Child(gap) < priosetSize =>
              /\ Larger(gap) \in Indices \ {gap} /\ Larger(gap) > 0
              /\ Parent(Larger(gap)) = gap
         /\ \A i \in Indices : i > 0 /\ Parent(i) = gap =>
              /\ Child(gap) < priosetSize
              /\ i # Larger(gap) => prioset[i] < prioset[Larger(gap)]
<1> DEFINE c == Child(gap)
<1>1. /\ gap \in Indices
      /\ \A i \in Indices : prioset[i] \in Nat
      /\ \A i \in Indices \ {gap} : prioidx[prioset[i]] = i
      /\ \A i \in Indices : i > 0 => Parent(i) < i
  BY GapFacts
<1>2. priosetSize \in Nat /\ gap \in Nat
  BY <1>1, PrioritiesAssumption DEF IInv, TypeOK, Indices
<1>3. /\ c \in Nat /\ c > 0 /\ c > gap /\ Parent(c) = gap /\ Parent(c + 1) = gap
      /\ \A i \in Nat : i > 0 /\ Parent(i) = gap => i = c \/ i = c + 1
  <2>1. c \in Nat /\ c > 0 /\ c > gap
    BY <1>2 DEF Child
  <2>2. Parent(c) = gap /\ Parent(c + 1) = gap
    BY <1>2, ParentChild
  <2>3. \A i \in Nat : i > 0 /\ Parent(i) = gap => i = c \/ i = c + 1
    BY ParentChild
  <2> QED BY <2>1, <2>2, <2>3
<1>4. Larger(gap) = IF c + 1 < priosetSize /\ prioset[c + 1] > prioset[c] THEN c + 1 ELSE c
  BY DEF Larger
<1> HIDE DEF c
<1>5. ASSUME c < priosetSize
      PROVE  /\ Larger(gap) \in Indices \ {gap} /\ Larger(gap) > 0
             /\ Parent(Larger(gap)) = gap
  BY <1>2, <1>3, <1>4, <1>5 DEF Indices
<1>6. ASSUME NEW i \in Indices, i > 0, Parent(i) = gap
      PROVE  c < priosetSize /\ (i # Larger(gap) => prioset[i] < prioset[Larger(gap)])
  <2>1. i \in Nat /\ i < priosetSize /\ (i = c \/ i = c + 1)
    BY <1>2, <1>3, <1>6 DEF Indices
  <2>2. c < priosetSize /\ c \in Indices \ {gap}
    BY <2>1, <1>2, <1>3 DEF Indices
  <2>3. CASE c + 1 < priosetSize
    <3>1. c + 1 \in Indices \ {gap}
      BY <2>3, <1>2, <1>3 DEF Indices
    <3>2. prioset[c] # prioset[c + 1] /\ prioset[c] \in Nat /\ prioset[c + 1] \in Nat
      <4>1. prioidx[prioset[c]] = c /\ prioidx[prioset[c + 1]] = c + 1
        BY <2>2, <3>1, <1>1
      <4>2. c # c + 1
        BY <1>3
      <4>3. prioset[c] \in Nat /\ prioset[c + 1] \in Nat
        BY <2>2, <3>1, <1>1
      <4> QED BY <4>1, <4>2, <4>3
    <3> QED BY <2>1, <2>2, <2>3, <3>2, <1>4
  <2>4. CASE ~(c + 1 < priosetSize)
    BY <2>1, <2>2, <2>4, <1>2, <1>3, <1>4
  <2> QED BY <2>2, <2>3, <2>4
<1> QED BY <1>5, <1>6 DEF c

LEMMA DownMoveInv ==
  ASSUME IInv, DownMove
  PROVE  IInv'
<1> DEFINE c == Larger(gap)
           q == prioset[c]
<1>0. /\ loop = "down" /\ loop' = "down" /\ Child(gap) < priosetSize /\ item < q
      /\ prioset' = [prioset EXCEPT ![gap] = q]
      /\ prioidx' = [prioidx EXCEPT ![q] = gap]
      /\ gap' = c
      /\ UNCHANGED <<runs, priosetSize, item, from, leaving>>
  BY DEF DownMove, Sinks, Put
<1>1. TypeOK /\ Exact /\ Ordered /\ AroundGap /\ Working /\ Sized
  BY DEF IInv
<1>2. /\ Filled = Indices \ {gap} /\ Rest = runs \ {item}
      /\ gap \in Indices /\ item \in runs
      /\ Indices \subseteq Prio /\ Indices \subseteq Nat /\ runs \subseteq Nat
      /\ \A i \in Indices : prioset[i] \in Prio /\ prioset[i] \in Nat
      /\ \A i \in Indices \ {gap} : prioset[i] \in runs \ {item} /\ prioidx[prioset[i]] = i
      /\ \A i \in Indices : i > 0 => Parent(i) \in Indices /\ Parent(i) < i
  BY <1>0, GapFacts
<1>3. /\ c \in Indices \ {gap} /\ c > 0 /\ Parent(c) = gap
      /\ \A i \in Indices : i > 0 /\ Parent(i) = gap /\ i # c => prioset[i] < q
  BY <1>0, LargerChild
<1>4. q \in runs \ {item} /\ prioidx[q] = c /\ q \in Prio
  BY <1>2, <1>3
<1>5. Indices' = Indices
  BY <1>0 DEF Indices
<1> HIDE DEF q, c
<1>6. Filled' = Indices \ {c} /\ Rest' = runs \ {item}
  BY <1>0, <1>5 DEF Filled, Rest
<1>7. /\ prioset'[gap] = q /\ \A i \in Indices \ {gap} : prioset'[i] = prioset[i]
      /\ prioidx'[q] = gap /\ \A p \in runs \ {q} : prioidx'[p] = prioidx[p]
  BY <1>0, <1>1, <1>2, <1>4 DEF TypeOK
<1>8. TypeOK'
  <2>1. gap \in Prio /\ c \in Prio
    BY <1>2, <1>3
  <2>2. Prio \subseteq 0..PRIORITIES
    BY PrioritiesAssumption DEF Prio
  <2>3. prioset' \in [Prio -> Prio] /\ prioidx' \in [Prio -> 0..PRIORITIES]
    BY <1>0, <1>1, <1>4, <2>1, <2>2 DEF TypeOK
  <2> QED BY <1>0, <1>1, <2>1, <2>3 DEF TypeOK
<1>9. Exact'
  <2>1. ASSUME NEW i \in Indices \ {c} PROVE prioset'[i] \in Rest' /\ prioidx'[prioset'[i]] = i
    <3>1. CASE i = gap
      BY <3>1, <1>4, <1>6, <1>7
    <3>2. CASE i # gap
      <4>1. prioset[i] \in runs \ {item} /\ prioidx[prioset[i]] = i
        BY <3>2, <1>2
      <4>2. prioset[i] # q
        BY <4>1, <1>4
      <4> QED BY <3>2, <4>1, <4>2, <1>6, <1>7
    <3> QED BY <3>1, <3>2
  <2>2. ASSUME NEW p \in runs \ {item} PROVE prioidx'[p] \in Indices \ {c} /\ prioset'[prioidx'[p]] = p
    <3>1. CASE p = q
      BY <3>1, <1>2, <1>3, <1>7
    <3>2. CASE p # q
      <4>1. prioidx[p] \in Indices \ {gap} /\ prioset[prioidx[p]] = p
        BY <1>1, <1>2 DEF Exact
      <4>2. prioidx[p] # c
        BY <4>1, <3>2 DEF q
      <4> QED BY <3>2, <4>1, <4>2, <1>7
    <3> QED BY <3>1, <3>2
  <2> QED BY <2>1, <2>2, <1>6 DEF Exact
<1>10. \A i, j \in Indices \ {gap} : i > 0 /\ j = Parent(i) => prioset[i] < prioset[j]
  BY <1>1, <1>2 DEF Ordered
<1>11. gap > 0 => q < prioset[Parent(gap)]
  BY <1>0, <1>1, <1>3 DEF AroundGap, q
<1>12. Ordered'
  <2> SUFFICES ASSUME NEW i \in Indices \ {c}, NEW j \in Indices \ {c}, i > 0, j = Parent(i)
               PROVE  prioset'[i] < prioset'[j]
    BY <1>6 DEF Ordered
  <2>1. i # j
    BY <1>2
  <2>2. CASE i = gap
    BY <2>1, <2>2, <1>7, <1>11
  <2>3. CASE j = gap
    BY <2>1, <2>3, <1>3, <1>7
  <2>4. CASE i # gap /\ j # gap
    BY <2>4, <1>7, <1>10
  <2> QED BY <2>2, <2>3, <2>4
<1>13. AroundGap'
  <2> SUFFICES ASSUME NEW i \in Indices, i > 0, Parent(i) = c
               PROVE  prioset'[i] < prioset'[Parent(c)]
    BY <1>0, <1>5 DEF AroundGap
  <2>1. i # gap
    <3>1. gap < c /\ c < i /\ gap \in Nat /\ c \in Nat /\ i \in Nat
      BY <1>2, <1>3
    <3> QED BY <3>1
  <2> QED BY <2>1, <1>3, <1>7, <1>10 DEF q
<1>14. Working' /\ Sized'
  BY <1>0, <1>1, <1>2, <1>3, <1>5, <1>7 DEF Working, Sized
<1> QED BY <1>8, <1>9, <1>12, <1>13, <1>14 DEF IInv

LEMMA DownEndInv ==
  ASSUME IInv, DownEnd
  PROVE  IInv'
<1>0. /\ loop = "down" /\ loop' = "up"
      /\ Child(gap) < priosetSize => ~(item < prioset[Larger(gap)])
      /\ prioset' = [prioset EXCEPT ![gap] = item]
      /\ prioidx' = [prioidx EXCEPT ![item] = gap]
      /\ item' = prioset'[from] /\ gap' = from
      /\ UNCHANGED <<runs, priosetSize, from, leaving>>
  BY DEF DownEnd, Sinks, Put
<1>1. TypeOK /\ Exact /\ Ordered /\ AroundGap /\ Working /\ Sized
  BY DEF IInv
<1>2. /\ Filled = Indices \ {gap} /\ Rest = runs \ {item}
      /\ gap \in Indices /\ item \in runs
      /\ Indices \subseteq Prio /\ Indices \subseteq Nat /\ runs \subseteq Nat
      /\ \A i \in Indices : prioset[i] \in Prio /\ prioset[i] \in Nat
      /\ \A i \in Indices \ {gap} : prioset[i] \in runs \ {item} /\ prioidx[prioset[i]] = i
      /\ \A i \in Indices : i > 0 => Parent(i) \in Indices /\ Parent(i) < i
  BY <1>0, GapFacts
<1>3. Indices' = Indices /\ from \in Indices /\ runs \subseteq Prio
  BY <1>0, <1>1 DEF Indices, Working, TypeOK
<1>4. Filled' = Indices \ {from} /\ Rest' = runs \ {prioset'[from]}
  BY <1>0, <1>3 DEF Filled, Rest
<1>5. /\ prioset'[gap] = item /\ \A i \in Indices \ {gap} : prioset'[i] = prioset[i]
      /\ prioidx'[item] = gap /\ \A p \in runs \ {item} : prioidx'[p] = prioidx[p]
  BY <1>0, <1>1, <1>2, <1>3 DEF TypeOK
<1>6. \A i \in Indices : prioset'[i] \in runs /\ prioidx'[prioset'[i]] = i /\ prioset'[i] \in Nat
  BY <1>2, <1>5
<1>7. \A p \in runs : prioidx'[p] \in Indices /\ prioset'[prioidx'[p]] = p
  <2>1. ASSUME NEW p \in runs \ {item} PROVE prioidx'[p] \in Indices /\ prioset'[prioidx'[p]] = p
    <3>1. prioidx'[p] = prioidx[p] /\ prioidx[p] \in Indices \ {gap} /\ prioset[prioidx[p]] = p
      BY <1>1, <1>2, <1>5 DEF Exact
    <3> QED BY <3>1, <1>5
  <2>2. prioidx'[item] \in Indices /\ prioset'[prioidx'[item]] = item
    BY <1>2, <1>5
  <2> QED BY <2>1, <2>2
<1>8. TypeOK'
  <2>1. prioset' \in [Prio -> Prio] /\ from \in Prio /\ prioset'[from] \in Prio
    BY <1>0, <1>1, <1>2, <1>3, <1>6 DEF TypeOK
  <2>2. Prio \subseteq 0..PRIORITIES
    BY PrioritiesAssumption DEF Prio
  <2>3. prioidx' \in [Prio -> 0..PRIORITIES]
    BY <2>2, <1>0, <1>1, <1>2 DEF TypeOK
  <2> QED BY <2>1, <2>3, <1>0, <1>1 DEF TypeOK
<1>9. Exact'
  <2>1. \A i \in Indices \ {from} : prioset'[i] # prioset'[from]
    BY <1>3, <1>6
  <2>2. \A p \in runs \ {prioset'[from]} : prioidx'[p] # from
    BY <1>7
  <2> QED BY <2>1, <2>2, <1>4, <1>6, <1>7 DEF Exact
\* All entries are in order, but for an item that has not moved.
<1>10. ASSUME NEW i \in Indices, NEW j \in Indices, i > 0, j = Parent(i), ~(i = gap /\ gap = from)
       PROVE  prioset'[i] < prioset'[j]
  <2>1. i # j
    BY <1>2, <1>10
  <2>2. CASE i = gap
    BY <2>1, <2>2, <1>0, <1>1, <1>5, <1>10 DEF Working
  <2>3. CASE j = gap
    <3>1. Child(gap) < priosetSize /\ (i = Larger(gap) \/ prioset[i] < prioset[Larger(gap)])
      BY <2>3, <1>0, <1>10, LargerChild
    <3>2. Larger(gap) \in Indices \ {gap}
      BY <3>1, <1>0, LargerChild
    <3>3. prioset[Larger(gap)] \in Nat /\ prioset[Larger(gap)] # item /\ prioset[i] \in Nat /\ item \in Nat
      BY <3>2, <1>2
    <3>4. prioset[i] < item
      BY <3>1, <3>3, <1>0
    <3> QED BY <2>1, <2>3, <3>4, <1>5
  <2>4. CASE i # gap /\ j # gap
    BY <2>4, <1>1, <1>2, <1>5, <1>10 DEF Ordered
  <2> QED BY <2>2, <2>3, <2>4
<1>11. Ordered'
  BY <1>4, <1>10 DEF Ordered
<1>12. AroundGap'
  <2> SUFFICES ASSUME NEW i \in Indices, i > 0, Parent(i) = from
               PROVE  /\ from > 0 => prioset'[i] < prioset'[Parent(from)]
                      /\ prioset'[i] < prioset'[from]
    BY <1>0, <1>3 DEF AroundGap
  <2>1. i # from
    BY <1>2
  <2>2. prioset'[i] < prioset'[from]
    BY <2>1, <1>3, <1>10
  <2>3. ASSUME from > 0 PROVE prioset'[i] < prioset'[Parent(from)]
    <3>1. Parent(from) \in Indices /\ Parent(from) # from
      BY <2>3, <1>2, <1>3
    <3>2. CASE gap = from
      BY <2>1, <2>3, <3>1, <3>2, <1>0, <1>1, <1>5 DEF AroundGap
    <3>3. CASE gap # from
      <4>1. prioset'[from] < prioset'[Parent(from)]
        BY <2>3, <3>1, <3>3, <1>3, <1>10
      <4>2. prioset'[i] \in Nat /\ prioset'[from] \in Nat /\ prioset'[Parent(from)] \in Nat
        BY <3>1, <1>3, <1>6
      <4> QED BY <2>2, <4>1, <4>2
    <3> QED BY <3>2, <3>3
  <2> QED BY <2>2, <2>3
<1>13. Working' /\ Sized'
  BY <1>0, <1>1, <1>3, <1>6 DEF Working, Sized
<1> QED BY <1>8, <1>9, <1>11, <1>12, <1>13 DEF IInv

-----------------------------------------------------------------------------
\* The invariant is inductive, and holds in every behaviour.
LEMMA StepInv == IInv /\ [Next]_vars => IInv'
<1> SUFFICES ASSUME IInv, [Next]_vars PROVE IInv'
  OBVIOUS
<1>1. ASSUME NEW p \in Prio, Insert(p) PROVE IInv'
  BY <1>1, InsertInv
<1>2. ASSUME NEW p \in Prio, Remove(p) PROVE IInv'
  BY <1>2, RemoveInv
<1>3. CASE UpMove
  BY <1>3, UpMoveInv
<1>4. CASE UpEnd
  BY <1>4, UpEndInv
<1>5. CASE DownMove
  BY <1>5, DownMoveInv
<1>6. CASE DownEnd
  BY <1>6, DownEndInv
<1>7. CASE UNCHANGED vars
  <2>1. UNCHANGED <<runs, prioset, prioidx, priosetSize, loop, item, gap, from, leaving>>
    BY <1>7 DEF vars, heap
  <2>2. Indices' = Indices
    BY <2>1 DEF Indices
  <2>3. Filled' = Filled /\ Rest' = Rest
    BY <2>1, <2>2 DEF Filled, Rest
  <2>4. TypeOK' /\ Exact' /\ Ordered'
    BY <2>1, <2>3 DEF IInv, TypeOK, Exact, Ordered
  <2>5. AroundGap' /\ Working' /\ Sized'
    BY <2>1, <2>2 DEF IInv, AroundGap, Working, Sized
  <2> QED BY <2>4, <2>5 DEF IInv
<1> QED BY <1>1, <1>2, <1>3, <1>4, <1>5, <1>6, <1>7 DEF Next, Repair

LEMMA Invariance == Spec => []IInv
BY InitInv, StepInv, PTL DEF Spec

\* No index leaves the arrays, whatever threads come and go.
THEOREM HeapInBounds == Spec => []TypeOK
<1>1. IInv => TypeOK
  BY DEF IInv
<1> QED BY <1>1, Invariance, PTL

\* insertRunnable and removeRunnable leave a heap.
THEOREM HeapStaysOrdered == Spec => []HeapOrdered
<1>1. IInv => HeapOrdered
  <2> SUFFICES ASSUME IInv, loop = "none", NEW i \in Indices \ {0}
               PROVE  prioset[i] < prioset[Parent(i)]
    BY DEF HeapOrdered
  <2>1. priosetSize \in Nat
    BY PrioritiesAssumption DEF IInv, TypeOK
  <2>2. i > 0 /\ Parent(i) \in Indices
    BY <2>1, ParentChild DEF Indices
  <2> QED BY <2>2 DEF IInv, Ordered, Filled
<1> QED BY <1>1, Invariance, PTL

\* The heap and its index agree with the runqueues.
THEOREM HeapIsExact == Spec => []IndexExact
<1>1. IInv => IndexExact
  BY DEF IInv, Exact, Filled, Rest, IndexExact
<1> QED BY <1>1, Invariance, PTL

\* The root of the heap is the highest priority of a runnable thread: a
\* greatest entry elsewhere would have a parent that is greater.
THEOREM RootIsHighest == Spec => []TopRight
<1>1. IInv => TopRight
  <2> SUFFICES ASSUME IInv, loop = "none" PROVE TopRight
    BY DEF TopRight
  <2>1. /\ \A i \in Indices : prioset[i] \in runs
        /\ \A p \in runs : prioidx[p] \in Indices /\ prioset[prioidx[p]] = p
    BY DEF IInv, Exact, Filled, Rest
  <2>2. \A i, j \in Indices : i > 0 /\ j = Parent(i) => prioset[i] < prioset[j]
    BY DEF IInv, Ordered, Filled
  <2>3. priosetSize \in Nat /\ runs \subseteq 0..(PRIORITIES - 1) /\ PRIORITIES - 1 \in Nat
    BY PrioritiesAssumption DEF IInv, TypeOK, Prio
  <2>4. priosetSize = 0 <=> runs = {}
    <3>1. Indices = {} <=> priosetSize = 0
      BY <2>3 DEF Indices
    <3>2. Indices = {} <=> runs = {}
      <4>1. Indices # {} => runs # {}
        <5> SUFFICES ASSUME NEW i \in Indices PROVE runs # {}
          OBVIOUS
        <5> QED BY <2>1
      <4>2. runs # {} => Indices # {}
        <5> SUFFICES ASSUME NEW p \in runs PROVE Indices # {}
          OBVIOUS
        <5> QED BY <2>1
      <4> QED BY <4>1, <4>2
    <3> QED BY <3>1, <3>2
  <2>5. ASSUME runs # {} PROVE prioset[0] \in runs /\ \A p \in runs : p <= prioset[0]
    <3>1. PICK m \in runs : \A p \in runs : p <= m
      BY <2>3, <2>5, GreatestNumber
    <3> DEFINE i == prioidx[m]
    <3>2. i \in Indices /\ prioset[i] = m
      BY <2>1
    <3>3. i \in Nat
      BY <3>2, <2>3 DEF Indices
    <3> HIDE DEF i
    <3>4. ASSUME i > 0 PROVE FALSE
      <4>1. Parent(i) \in Indices
        BY <2>3, <3>2, <3>4, ParentChild DEF Indices
      <4>2. m < prioset[Parent(i)] /\ prioset[Parent(i)] \in runs
        BY <4>1, <2>1, <2>2, <3>2, <3>4
      <4>3. prioset[Parent(i)] <= m
        BY <4>2, <3>1
      <4>4. \A p \in runs : p \in Nat
        BY <2>3
      <4> QED BY <4>2, <4>3, <4>4
    <3>5. i = 0
      BY <3>3, <3>4
    <3> QED BY <3>1, <3>2, <3>5
  <2> QED BY <2>4, <2>5 DEF TopRight
<1> QED BY <1>1, Invariance, PTL
=============================================================================
