----------------------------- MODULE SchedProofs -----------------------------
(***************************************************************************)
(* Proofs about Sched and SchedFifo.  The theorems are about LinkedSpec:   *)
(* every behaviour of the scheduler in which the timer never rotates a     *)
(* runqueue by the stale link of a thread that was halted on the timeslice *)
(* it had donated (RotatesStale).  Of Spec, which takes that step, they    *)
(* are false, as MCSchedDonor.cfg shows.                                   *)
(***************************************************************************)
EXTENDS SchedFifo, NatLemmas, SequenceTheorems, FiniteSetTheorems, TLAPS

(***************************************************************************)
(* Rings: what linking and unlinking one element does.                     *)
(***************************************************************************)
\* t is linked between the last element l and the first element h.
Linked(nx, pv, nx2, pv2, A, l, t, h) ==
  /\ h \in A /\ l \in A /\ nx[l] = h /\ pv[h] = l /\ t \notin A
  /\ nx2[l] = t /\ nx2[t] = h /\ pv2[t] = l /\ pv2[h] = t
  /\ \A x \in A : x # l => nx2[x] = nx[x]
  /\ \A x \in A : x # h => pv2[x] = pv[x]

LEMMA RingInsert ==
  ASSUME NEW A, NEW nx, NEW pv, NEW nx2, NEW pv2, NEW l, NEW t, NEW h,
         Ring(nx, pv, A), Linked(nx, pv, nx2, pv2, A, l, t, h)
  PROVE  Ring(nx2, pv2, A \cup {t})
<1> USE DEF Linked
<1> DEFINE B == A \cup {t}
<1>0. /\ \A x \in A : nx[x] \in A /\ pv[nx[x]] = x
      /\ \A x \in A : pv[x] \in A /\ nx[pv[x]] = x
  BY DEF Ring
<1>1. ASSUME NEW x \in B PROVE nx2[x] \in B /\ pv2[nx2[x]] = x
  <2>1. CASE x = t
    BY <2>1
  <2>2. CASE x = l
    BY <2>2
  <2>3. CASE x \in A /\ x # l
    <3>1. nx2[x] = nx[x] /\ nx[x] \in A /\ nx[x] # h
      BY <2>3, <1>0
    <3> QED BY <3>1, <2>3, <1>0
  <2> QED BY <2>1, <2>2, <2>3
<1>2. ASSUME NEW x \in B PROVE pv2[x] \in B /\ nx2[pv2[x]] = x
  <2>1. CASE x = t
    BY <2>1
  <2>2. CASE x = h
    BY <2>2
  <2>3. CASE x \in A /\ x # h
    <3>1. pv2[x] = pv[x] /\ pv[x] \in A /\ pv[x] # l
      BY <2>3, <1>0
    <3> QED BY <3>1, <2>3, <1>0
  <2> QED BY <2>1, <2>2, <2>3
<1>3. ASSUME NEW S \in SUBSET B, S # {}, \A x \in S : nx2[x] \in S
      PROVE  S = B
  <2> DEFINE S0 == S \ {t}
  <2>1. S0 \in SUBSET A /\ S0 # {}
    BY <1>3
  <2>2. ASSUME NEW x \in S0 PROVE nx[x] \in S0
    <3>1. CASE x = l
      BY <3>1, <1>3
    <3>2. CASE x # l
      BY <3>2, <2>1, <1>3, <1>0
    <3> QED BY <3>1, <3>2
  <2>3. S0 = A
    BY <2>1, <2>2 DEF Ring
  <2> QED BY <2>3, <1>3
<1> QED BY <1>1, <1>2, <1>3 DEF Ring

\* t is unlinked from a ring of at least two elements.
Unlinked(nx, pv, nx2, pv2, A, t) ==
  /\ t \in A /\ nx[t] # t
  /\ nx2[pv[t]] = nx[t] /\ pv2[nx[t]] = pv[t]
  /\ \A x \in A : x # pv[t] => nx2[x] = nx[x]
  /\ \A x \in A : x # nx[t] => pv2[x] = pv[x]

LEMMA RingRemove ==
  ASSUME NEW A, NEW nx, NEW pv, NEW nx2, NEW pv2, NEW t,
         Ring(nx, pv, A), Unlinked(nx, pv, nx2, pv2, A, t)
  PROVE  Ring(nx2, pv2, A \ {t}) /\ nx[t] \in A \ {t} /\ pv[t] \in A \ {t}
<1> USE DEF Unlinked
<1> DEFINE B == A \ {t}
           n == nx[t]
           p == pv[t]
<1>0. /\ \A x \in A : nx[x] \in A /\ pv[nx[x]] = x
      /\ \A x \in A : pv[x] \in A /\ nx[pv[x]] = x
  BY DEF Ring
<1>1. n \in B /\ p \in B
  BY <1>0
<1>2. ASSUME NEW x \in B PROVE nx2[x] \in B /\ pv2[nx2[x]] = x
  <2>1. CASE x = p
    BY <2>1, <1>1
  <2>2. CASE x # p
    <3>1. nx2[x] = nx[x] /\ nx[x] \in A /\ nx[x] # n /\ nx[x] # t
      BY <2>2, <1>0
    <3> QED BY <3>1, <1>0
  <2> QED BY <2>1, <2>2
<1>3. ASSUME NEW x \in B PROVE pv2[x] \in B /\ nx2[pv2[x]] = x
  <2>1. CASE x = n
    BY <2>1, <1>1
  <2>2. CASE x # n
    <3>1. pv2[x] = pv[x] /\ pv[x] \in A /\ pv[x] # p /\ pv[x] # t
      BY <2>2, <1>0
    <3> QED BY <3>1, <1>0
  <2> QED BY <2>1, <2>2
<1>4. ASSUME NEW S \in SUBSET B, S # {}, \A x \in S : nx2[x] \in S
      PROVE  S = B
  <2>1. CASE p \in S
    <3> DEFINE S1 == S \cup {t}
    <3>1. ASSUME NEW x \in S1 PROVE nx[x] \in S1
      BY <2>1, <1>4, <1>0
    <3>2. S1 \in SUBSET A /\ S1 # {}
      BY <1>4
    <3>3. S1 = A
      BY <3>1, <3>2 DEF Ring
    <3> QED BY <3>3, <1>4
  <2>2. CASE p \notin S
    <3>1. \A x \in S : nx[x] \in S
      BY <2>2, <1>4
    <3>2. S = A
      BY <3>1, <1>4 DEF Ring
    <3> QED BY <3>2, <2>2, <1>1
  <2> QED BY <2>1, <2>2
<1> QED BY <1>1, <1>2, <1>3, <1>4 DEF Ring

\* An element that is its own successor is alone in its ring.
LEMMA RingAlone ==
  ASSUME NEW A, NEW nx, NEW pv, Ring(nx, pv, A), NEW t \in A, nx[t] = t
  PROVE  A = {t}
<1>1. {t} \in SUBSET A /\ {t} # {} /\ \A x \in {t} : nx[x] \in {t}
  OBVIOUS
<1> QED BY <1>1 DEF Ring

\* The links of other elements do not matter.
LEMMA RingSame ==
  ASSUME NEW A, NEW nx, NEW pv, NEW nx2, NEW pv2, Ring(nx, pv, A),
         \A x \in A : nx2[x] = nx[x] /\ pv2[x] = pv[x]
  PROVE  Ring(nx2, pv2, A)
<1>1. \A x \in A : nx[x] \in A /\ pv[x] \in A
  BY DEF Ring
<1>2. /\ \A x \in A : nx2[x] \in A /\ pv2[nx2[x]] = x
      /\ \A x \in A : pv2[x] \in A /\ nx2[pv2[x]] = x
  BY <1>1 DEF Ring
<1>3. ASSUME NEW S \in SUBSET A, S # {}, \A x \in S : nx2[x] \in S
      PROVE  S = A
  BY <1>3 DEF Ring
<1> QED BY <1>2, <1>3 DEF Ring

(***************************************************************************)
(* Runqueues q that hold the threads on[p] at each priority p.             *)
(***************************************************************************)
\* No TCB is on two runqueues.
Contents == {on \in [Prio -> SUBSET TCB] :
               \A p, r \in Prio : p # r => on[p] \cap on[r] = {}}

\* insertRunnable adds a thread that is on no runqueue to one of them.
LEMMA InsertRings ==
  ASSUME NEW q \in Queues, NEW on \in Contents, Rings(q, on),
         NEW p \in Prio, NEW t \in TCB, \A r \in Prio : t \notin on[r]
  PROVE  /\ InsertRunnable(q, t, p) \in Queues
         /\ Rings(InsertRunnable(q, t, p), [on EXCEPT ![p] = @ \cup {t}])
<1> DEFINE n == InsertRunnable(q, t, p)
           on2 == [on EXCEPT ![p] = @ \cup {t}]
<1>1. NoTCB \notin TCB
  BY SchedAssumption
<1>2. on2[p] = on[p] \cup {t} /\ \A r \in Prio : r # p => on2[r] = on[r]
  BY DEF Contents
<1>3. CASE on[p] = {}
  <2>1. q.head[p] = NoTCB
    BY <1>3 DEF Rings
  <2>2. n = [head |-> [q.head EXCEPT ![p] = t], next |-> [q.next EXCEPT ![t] = t],
             prev |-> [q.prev EXCEPT ![t] = t], prioset |-> q.prioset \cup {p}]
    BY <2>1 DEF InsertRunnable, InsertLinks, InsertHead, Links
  <2>3. n \in Queues
    BY <2>2 DEF Queues
  <2>4. n.prioset = {r \in Prio : on2[r] # {}}
    BY <2>2, <1>2, <1>3 DEF Rings
  <2>5. n.head[p] = t /\ \A r \in Prio : r # p => n.head[r] = q.head[r]
    BY <2>2 DEF Queues
  <2>6. ASSUME NEW r \in Prio, r # p PROVE Ring(n.next, n.prev, on2[r])
    <3>1. \A x \in on[r] : n.next[x] = q.next[x] /\ n.prev[x] = q.prev[x]
      BY <2>2 DEF Queues, Contents
    <3>2. Ring(q.next, q.prev, on[r])
      BY DEF Rings
    <3> QED BY <3>1, <3>2, RingSame, <1>2, <2>6
  <2>7. Ring(n.next, n.prev, on2[p])
    <3>1. n.next[t] = t /\ n.prev[t] = t /\ on2[p] = {t}
      BY <2>2, <1>2, <1>3 DEF Queues
    <3> HIDE DEF n, on2
    <3> QED BY <3>1 DEF Ring
  <2>8. ASSUME NEW r \in Prio
        PROVE  IF on2[r] = {} THEN n.head[r] = NoTCB ELSE n.head[r] \in on2[r]
    BY <2>5, <1>2, <1>3 DEF Rings
  <2>9. Rings(n, on2)
    <3> HIDE DEF n, on2
    <3> QED BY <2>4, <2>6, <2>7, <2>8 DEF Rings
  <2> QED BY <2>3, <2>9
<1>4. CASE on[p] # {}
  <2> DEFINE h == q.head[p]
             l == q.prev[h]
  <2>1. h \in on[p] /\ h # NoTCB /\ l \in on[p] /\ q.next[l] = h /\ l # t /\ h # t
    BY <1>1, <1>4 DEF Rings, Ring, Contents
  <2>2. n = [head |-> [q.head EXCEPT ![p] = h],
             next |-> [q.next EXCEPT ![l] = t, ![t] = h],
             prev |-> [q.prev EXCEPT ![t] = l, ![h] = t],
             prioset |-> q.prioset]
    BY <2>1 DEF InsertRunnable, InsertLinks, InsertHead, Links
  <2>3. n \in Queues
    BY <2>1, <2>2 DEF Queues, Contents
  <2>4. n.prioset = {r \in Prio : on2[r] # {}}
    BY <2>2, <1>2, <1>4 DEF Rings
  <2>5. n.head[p] = h /\ \A r \in Prio : r # p => n.head[r] = q.head[r]
    BY <2>2 DEF Queues
  <2>6. ASSUME NEW r \in Prio, r # p PROVE Ring(n.next, n.prev, on2[r])
    <3>1. \A x \in on[r] : n.next[x] = q.next[x] /\ n.prev[x] = q.prev[x]
      BY <2>1, <2>2, <2>6 DEF Queues, Contents
    <3>2. Ring(q.next, q.prev, on[r])
      BY DEF Rings
    <3> QED BY <3>1, <3>2, RingSame, <1>2, <2>6
  <2>7. Ring(n.next, n.prev, on2[p])
    <3>1. Linked(q.next, q.prev, n.next, n.prev, on[p], l, t, h)
      BY <2>1, <2>2 DEF Linked, Queues, Contents
    <3>2. Ring(q.next, q.prev, on[p])
      BY DEF Rings
    <3> HIDE DEF n, on2, l, h
    <3>3. Ring(n.next, n.prev, on[p] \cup {t})
      BY <3>1, <3>2, RingInsert
    <3> QED BY <3>3, <1>2
  <2>8. ASSUME NEW r \in Prio
        PROVE  IF on2[r] = {} THEN n.head[r] = NoTCB ELSE n.head[r] \in on2[r]
    BY <2>1, <2>5, <1>2, <1>4 DEF Rings
  <2>9. Rings(n, on2)
    <3> HIDE DEF n, on2
    <3> QED BY <2>4, <2>6, <2>7, <2>8 DEF Rings
  <2> QED BY <2>3, <2>9
<1> QED BY <1>3, <1>4

\* removeRunnable takes a thread off the runqueue that it is on.
LEMMA RemoveRings ==
  ASSUME NEW q \in Queues, NEW on \in Contents, Rings(q, on),
         NEW p \in Prio, NEW t \in on[p]
  PROVE  /\ RemoveRunnable(q, t, p) \in Queues
         /\ Rings(RemoveRunnable(q, t, p), [on EXCEPT ![p] = @ \ {t}])
<1> DEFINE n == RemoveRunnable(q, t, p)
           on2 == [on EXCEPT ![p] = @ \ {t}]
<1>1. NoTCB \notin TCB /\ t \in TCB
  BY SchedAssumption DEF Contents
<1>2. on2[p] = on[p] \ {t} /\ \A r \in Prio : r # p => on2[r] = on[r] /\ t \notin on[r]
  BY DEF Contents
<1>3. Ring(q.next, q.prev, on[p])
  BY DEF Rings
<1>4. CASE q.next[t] = t
  <2>1. on[p] = {t}
    BY <1>3, <1>4, RingAlone
  <2>2. n = [head |-> [q.head EXCEPT ![p] = NoTCB], next |-> q.next,
             prev |-> q.prev, prioset |-> q.prioset \ {p}]
    BY <1>4 DEF RemoveRunnable, RemoveLinks, RemoveHead, Links
  <2>3. n \in Queues
    BY <2>2 DEF Queues
  <2>4. n.prioset = {r \in Prio : on2[r] # {}}
    BY <2>1, <2>2, <1>2 DEF Rings
  <2>5. n.head[p] = NoTCB /\ \A r \in Prio : r # p => n.head[r] = q.head[r]
    BY <2>2 DEF Queues
  <2>6. ASSUME NEW r \in Prio, r # p PROVE Ring(n.next, n.prev, on2[r])
    BY <2>2, <2>6, <1>2 DEF Rings
  <2>7. Ring(n.next, n.prev, on2[p])
    BY <2>1, <1>2 DEF Ring
  <2>8. ASSUME NEW r \in Prio
        PROVE  IF on2[r] = {} THEN n.head[r] = NoTCB ELSE n.head[r] \in on2[r]
    BY <2>1, <2>5, <1>2 DEF Rings
  <2>9. Rings(n, on2)
    <3> HIDE DEF n, on2
    <3> QED BY <2>4, <2>6, <2>7, <2>8 DEF Rings
  <2> QED BY <2>3, <2>9
<1>5. CASE q.next[t] # t
  <2> DEFINE y == q.next[t]
             x == q.prev[t]
             h == IF q.head[p] = t THEN y ELSE q.head[p]
  <2>1. x \in on[p] /\ y \in on[p] /\ x \in TCB /\ y \in TCB
    BY <1>3 DEF Ring, Contents
  <2>2. n = [head |-> [q.head EXCEPT ![p] = h], next |-> [q.next EXCEPT ![x] = y],
             prev |-> [q.prev EXCEPT ![y] = x], prioset |-> q.prioset]
    <3>1. h # NoTCB
      BY <1>1, <2>1 DEF Rings, Contents
    <3>2. RemoveHead(Links(q), q.head[p], t) = h
      BY <1>5 DEF RemoveHead, Links
    <3>3. RemoveLinks(Links(q), t) = [next |-> [q.next EXCEPT ![x] = y],
                                      prev |-> [q.prev EXCEPT ![y] = x]]
      BY <1>5 DEF RemoveLinks, Links
    <3> QED BY <3>1, <3>2, <3>3 DEF RemoveRunnable
  <2>3. n \in Queues
    BY <2>1, <2>2 DEF Queues, Contents
  <2>4. Ring(n.next, n.prev, on[p] \ {t}) /\ y \in on[p] \ {t} /\ x \in on[p] \ {t}
    <3>1. Unlinked(q.next, q.prev, n.next, n.prev, on[p], t)
      BY <2>1, <2>2, <1>5 DEF Unlinked, Queues, Contents
    <3> HIDE DEF n, on2
    <3> QED BY <3>1, <1>3, RingRemove
  <2>5. n.head[p] = h /\ \A r \in Prio : r # p => n.head[r] = q.head[r]
    BY <2>2 DEF Queues
  <2>6. ASSUME NEW r \in Prio, r # p PROVE Ring(n.next, n.prev, on2[r])
    <3>1. \A z \in on[r] : n.next[z] = q.next[z] /\ n.prev[z] = q.prev[z]
      BY <2>1, <2>2, <2>6 DEF Queues, Contents
    <3>2. Ring(q.next, q.prev, on[r])
      BY DEF Rings
    <3> QED BY <3>1, <3>2, RingSame, <1>2, <2>6
  <2>7. n.prioset = {r \in Prio : on2[r] # {}}
    BY <2>2, <2>4, <1>2 DEF Rings
  <2>8. ASSUME NEW r \in Prio
        PROVE  IF on2[r] = {} THEN n.head[r] = NoTCB ELSE n.head[r] \in on2[r]
    <3>1. h \in on[p] \ {t}
      BY <2>4 DEF Rings
    <3> QED BY <3>1, <2>5, <1>2 DEF Rings
  <2>9. Rings(n, on2)
    <3> HIDE DEF n, on2
    <3> QED BY <2>4, <2>6, <2>7, <2>8, <1>2 DEF Rings
  <2> QED BY <2>3, <2>9
<1> QED BY <1>4, <1>5

\* reschedule picks a thread of the highest priority in use, or the idle
\* thread if there is none.
LEMMA PickRings ==
  ASSUME NEW q \in Queues, NEW on \in Contents, Rings(q, on)
  PROVE  /\ q.prioset # {} => /\ Top(q.prioset) \in Prio
                              /\ Pick(q) \in on[Top(q.prioset)]
                              /\ \A x \in q.prioset : x <= Top(q.prioset)
         /\ q.prioset = {} => Pick(q) = Idle
<1>1. ASSUME q.prioset # {}
      PROVE  /\ Top(q.prioset) \in Prio
             /\ Pick(q) \in on[Top(q.prioset)]
             /\ \A x \in q.prioset : x <= Top(q.prioset)
  <2>1. q.prioset \in SUBSET (0..MaxPrio) /\ MaxPrio \in Nat
    BY SchedAssumption DEF Queues, Prio
  <2>2. \E m \in q.prioset : \A x \in q.prioset : x <= m
    BY <2>1, <1>1, GreatestNumber
  <2>3. Top(q.prioset) \in q.prioset /\ \A x \in q.prioset : x <= Top(q.prioset)
    BY <2>2 DEF Top
  <2> QED BY <2>1, <2>3, <1>1 DEF Pick, Rings, Prio
<1> QED BY <1>1 DEF Pick

(***************************************************************************)
(* The same for the threads that are runnable, as their status changes.    *)
(***************************************************************************)
Statuses == [TCB -> Status]
Prios    == [TCB -> Prio]

LEMMA ReadyContents ==
  ASSUME NEW st, NEW pr
  PROVE  Ready(st, pr) \in Contents
BY DEF Ready, Contents

\* A runnable thread stops being runnable.
LEMMA Unready ==
  ASSUME NEW q \in Queues, NEW st \in Statuses, NEW pr \in Prios,
         Rings(q, Ready(st, pr)),
         NEW t \in TCB, st[t] = "Runnable", NEW v, v # "Runnable"
  PROVE  /\ RemoveRunnable(q, t, pr[t]) \in Queues
         /\ Rings(RemoveRunnable(q, t, pr[t]), Ready([st EXCEPT ![t] = v], pr))
<1> DEFINE on == Ready(st, pr)
           p  == pr[t]
<1>1. p \in Prio /\ t \in on[p] /\ on \in Contents
  BY ReadyContents DEF Ready, Prios
<1>2. Ready([st EXCEPT ![t] = v], pr) = [on EXCEPT ![p] = @ \ {t}]
  BY DEF Ready, Statuses, Prios
<1> HIDE DEF on, p
<1>3. /\ RemoveRunnable(q, t, p) \in Queues
      /\ Rings(RemoveRunnable(q, t, p), [on EXCEPT ![p] = @ \ {t}])
  BY <1>1, RemoveRings DEF on
<1> QED BY <1>2, <1>3 DEF p

\* A thread becomes runnable.
LEMMA MakeReady ==
  ASSUME NEW q \in Queues, NEW st \in Statuses, NEW pr \in Prios,
         Rings(q, Ready(st, pr)),
         NEW t \in TCB, st[t] # "Runnable"
  PROVE  /\ InsertRunnable(q, t, pr[t]) \in Queues
         /\ Rings(InsertRunnable(q, t, pr[t]), Ready([st EXCEPT ![t] = "Runnable"], pr))
<1> DEFINE on == Ready(st, pr)
           p  == pr[t]
<1>1. p \in Prio /\ on \in Contents /\ \A r \in Prio : t \notin on[r]
  BY ReadyContents DEF Ready, Prios
<1>2. Ready([st EXCEPT ![t] = "Runnable"], pr) = [on EXCEPT ![p] = @ \cup {t}]
  BY DEF Ready, Statuses, Prios
<1> HIDE DEF on, p
<1>3. /\ InsertRunnable(q, t, p) \in Queues
      /\ Rings(InsertRunnable(q, t, p), [on EXCEPT ![p] = @ \cup {t}])
  BY <1>1, InsertRings DEF on
<1> QED BY <1>2, <1>3 DEF p

\* A runnable thread moves to another priority.
LEMMA MoveReady ==
  ASSUME NEW q \in Queues, NEW st \in Statuses, NEW pr \in Prios,
         Rings(q, Ready(st, pr)),
         NEW t \in TCB, st[t] = "Runnable", NEW p \in Prio
  PROVE  LET n == InsertRunnable(RemoveRunnable(q, t, pr[t]), t, p)
         IN n \in Queues /\ Rings(n, Ready(st, [pr EXCEPT ![t] = p]))
<1> DEFINE on == Ready([st EXCEPT ![t] = "Halted"], pr)
           m  == RemoveRunnable(q, t, pr[t])
<1>1. m \in Queues /\ Rings(m, on)
  BY Unready
<1>2. on \in Contents /\ \A r \in Prio : t \notin on[r]
  <2>1. on \in Contents
    BY ReadyContents
  <2>2. ASSUME NEW r \in Prio PROVE t \notin on[r]
    BY DEF Ready, Statuses
  <2> QED BY <2>1, <2>2
<1>3. Ready(st, [pr EXCEPT ![t] = p]) = [on EXCEPT ![p] = @ \cup {t}]
  BY DEF Ready, Statuses, Prios
<1> HIDE DEF on, m
<1>4. /\ InsertRunnable(m, t, p) \in Queues
      /\ Rings(InsertRunnable(m, t, p), [on EXCEPT ![p] = @ \cup {t}])
  BY <1>1, <1>2, InsertRings
<1> QED BY <1>3, <1>4 DEF m

\* The status of a thread that is not runnable changes to another such one.
LEMMA StayUnready ==
  ASSUME NEW st \in Statuses, NEW pr \in Prios, NEW t \in TCB,
         st[t] # "Runnable", NEW v, v # "Runnable"
  PROVE  Ready([st EXCEPT ![t] = v], pr) = Ready(st, pr)
BY DEF Ready, Statuses, Prios

\* The priority of a thread that is not runnable does not matter.
LEMMA UnreadyPrio ==
  ASSUME NEW st \in Statuses, NEW pr \in Prios, NEW t \in TCB,
         st[t] # "Runnable", NEW p \in Prio
  PROVE  Ready(st, [pr EXCEPT ![t] = p]) = Ready(st, pr)
BY DEF Ready, Statuses, Prios
(***************************************************************************)
(* The inductive invariant.  Dispatched alone is not inductive: that what  *)
(* reschedule picks is runnable follows from RunqueuesExact, and that the  *)
(* timer never rotates a queue on behalf of the idle thread from           *)
(* IdleParked.                                                             *)
(***************************************************************************)
IInv == TypeOK /\ RunqueuesExact /\ IdleParked /\ Dispatched

\* The part of the invariant that a step has to reestablish for the queues.
Good(q, st, pr) == q \in Queues /\ st \in Statuses /\ pr \in Prios /\ Rings(q, Ready(st, pr))

\* After reschedule the kernel runs a runnable thread, or idles because
\* there is none.
LEMMA RescheduleDispatches ==
  ASSUME NEW q, NEW st, NEW pr, Good(q, st, pr), st[Idle] = "Halted"
  PROVE  /\ Pick(q) \in TCB
         /\ Pick(q) # Idle => st[Pick(q)] = "Runnable"
         /\ Pick(q) = Idle => q.prioset = {}
<1>1. Ready(st, pr) \in Contents
  BY ReadyContents
<1>2. /\ q.prioset # {} => \E p \in Prio : Pick(q) \in Ready(st, pr)[p]
      /\ q.prioset = {} => Pick(q) = Idle
  <2>1. q \in Queues /\ Rings(q, Ready(st, pr))
    BY DEF Good
  <2> HIDE DEF Good
  <2> QED BY <1>1, <2>1, PickRings
<1>3. ASSUME NEW p \in Prio, Pick(q) \in Ready(st, pr)[p]
      PROVE  Pick(q) \in TCB /\ st[Pick(q)] = "Runnable"
  BY <1>3 DEF Ready
<1>4. Idle \in TCB
  BY DEF TCB
<1> QED BY <1>2, <1>3, <1>4

\* haltThread takes a thread off the runqueues, whatever its status was.
LEMMA HaltGood ==
  ASSUME Good(rq, status, prio), NEW t \in TCB, NEW v \in Status \ {"Runnable"}
  PROVE  Good(HaltQueue(rq, t), [status EXCEPT ![t] = v], prio)
<1>1. [status EXCEPT ![t] = v] \in Statuses
  BY DEF Good, Statuses
<1>2. CASE status[t] = "Runnable"
  <2>1. /\ rq \in Queues /\ status \in Statuses /\ prio \in Prios
        /\ Rings(rq, Ready(status, prio))
    BY DEF Good
  <2>2. HaltQueue(rq, t) = RemoveRunnable(rq, t, prio[t])
    BY <1>2 DEF HaltQueue
  <2> QED BY <1>1, <1>2, <2>1, <2>2, Unready DEF Good
<1>3. CASE status[t] # "Runnable"
  <2>1. Ready([status EXCEPT ![t] = v], prio) = Ready(status, prio)
    BY <1>3, StayUnready DEF Good
  <2> QED BY <1>1, <1>3, <2>1 DEF Good, HaltQueue
<1> QED BY <1>2, <1>3

\* A thread that is not runnable changes its status to another such status.
LEMMA ParkedGood ==
  ASSUME Good(rq, status, prio), NEW t \in TCB, status[t] # "Runnable",
         NEW v \in Status \ {"Runnable"}
  PROVE  Good(rq, [status EXCEPT ![t] = v], prio)
<1>1. HaltQueue(rq, t) = rq
  BY DEF HaltQueue
<1> QED BY <1>1, HaltGood

\* resumeThread puts a blocked thread on its runqueue.
LEMMA ResumeGood ==
  ASSUME Good(rq, status, prio), NEW t \in TCB, InIpc(t)
  PROVE  Good(ResumeQueue(rq, t), [status EXCEPT ![t] = ResumeStatus(t)], prio)
<1>1. [status EXCEPT ![t] = ResumeStatus(t)] \in Statuses
  BY DEF Good, Statuses, Status, ResumeStatus
<1>2. CASE status[t] = "Blocked"
  BY <1>1, <1>2, MakeReady DEF Good, ResumeQueue, ResumeStatus
<1>3. CASE status[t] = "Halting"
  BY <1>3, ParkedGood DEF ResumeQueue, ResumeStatus, Status
<1> QED BY <1>2, <1>3 DEF InIpc

(***************************************************************************)
(* What is left to show of a step, by how its handler leaves the kernel.   *)
(***************************************************************************)
Times == [TCB -> 0..(WordSize - 1)]

\* The scheduler's state but for the choice of who runs.
Ground(q, st, pr, ts, tl) ==
  /\ Good(q, st, pr)
  /\ ts \in Times /\ tl \in Times
  /\ st[Idle] = "Halted" /\ ts[Idle] = 0

LEMMA IInvGround ==
  ASSUME IInv
  PROVE  Ground(rq, status, prio, timeslice, timeleft)
BY DEF IInv, TypeOK, RunqueuesExact, IdleParked, Ground, Good, Statuses, Prios, Times

\* What the holder of the timeslice may be: a donor that was halted is
\* still holding it.
MayHold == {"Runnable", "Halted"}

LEMMA ByReschedule ==
  ASSUME Ground(rq, status, prio, timeslice, timeleft)', Reschedule
  PROVE  IInv'
<1>1. Good(rq', status', prio') /\ status'[Idle] = "Halted"
  BY DEF Ground
<1>2. /\ Pick(rq') \in TCB
      /\ Pick(rq') # Idle => status'[Pick(rq')] = "Runnable"
      /\ Pick(rq') = Idle => rq'.prioset = {}
  BY <1>1, RescheduleDispatches
<1>3. holder' = Pick(rq') /\ current' = Pick(rq')
  BY DEF Reschedule
<1>4. TypeOK'
  BY <1>2, <1>3 DEF Ground, Good, Statuses, Prios, Times, TypeOK
<1>5. RunqueuesExact' /\ IdleParked'
  BY DEF Ground, Good, RunqueuesExact, IdleParked
<1>6. Dispatched'
  BY <1>2, <1>3 DEF Dispatched, CurrentRunnable
<1> QED BY <1>4, <1>5, <1>6 DEF IInv

LEMMA ByResume ==
  ASSUME IInv, Ground(rq, status, prio, timeslice, timeleft)', Resume,
         current # Idle, status'[current] = "Runnable", status'[holder] \in MayHold
  PROVE  IInv'
<1>1. current' = current /\ holder' = holder
  BY DEF Resume
<1>2. TypeOK'
  BY <1>1 DEF IInv, Ground, Good, Statuses, Prios, Times, TypeOK
<1>3. RunqueuesExact' /\ IdleParked'
  BY DEF Ground, Good, RunqueuesExact, IdleParked
<1>4. Dispatched'
  BY <1>1 DEF IInv, Dispatched, CurrentRunnable, MayHold
<1> QED BY <1>2, <1>3, <1>4 DEF IInv

\* During a system call neither the current thread nor the holder idles.
LEMMA InSystemCall ==
  ASSUME IInv, current # Idle
  PROVE  /\ current \in TCB /\ holder \in TCB /\ holder # Idle
         /\ status[current] = "Runnable" /\ status[holder] \in MayHold
BY DEF IInv, TypeOK, Dispatched, CurrentRunnable, MayHold

(***************************************************************************)
(* The invariant holds initially.                                          *)
(***************************************************************************)
LEMMA EmptyGood ==
  ASSUME NEW st \in Statuses, \A t \in TCB : st[t] # "Runnable", NEW pr \in Prios
  PROVE  Good(EmptyQueues, st, pr)
<1>1. \A p \in Prio : Ready(st, pr)[p] = {}
  BY DEF Ready
<1>2. EmptyQueues \in Queues
  BY DEF EmptyQueues, Queues
<1>3. Rings(EmptyQueues, Ready(st, pr))
  BY <1>1 DEF EmptyQueues, Rings, Ring
<1> QED BY <1>2, <1>3 DEF Good

LEMMA InitIInv ==
  ASSUME Init
  PROVE  IInv
<1> DEFINE st0 == [t \in TCB |-> IF t = Idle THEN "Halted" ELSE "Absent"]
           st1 == [st0 EXCEPT ![First] = "Runnable"]
           q1  == InsertRunnable(EmptyQueues, First, DefaultPrio)
<1>1. First \in TCB /\ Second \in TCB /\ First # Second /\ First # Idle /\ Second # Idle
      /\ Idle \in TCB /\ DefaultPrio \in Prio
  BY SchedAssumption, RootAssumption DEF TCB
<1>2. prio \in Prios /\ \A t \in TCB : prio[t] = DefaultPrio
  BY <1>1 DEF Init, Prios
<1>3. st0 \in Statuses /\ \A t \in TCB : st0[t] # "Runnable"
  BY DEF Statuses, Status
<1>4. Good(EmptyQueues, st0, prio)
  BY <1>2, <1>3, EmptyGood
<1>5. st1 \in Statuses /\ st1[Second] # "Runnable"
  BY <1>1 DEF Statuses, Status
<1>6. Good(q1, st1, prio)
  BY <1>1, <1>2, <1>3, <1>4, <1>5, MakeReady DEF Good
<1>7. status = [st1 EXCEPT ![Second] = "Runnable"] /\ status \in Statuses
  BY <1>1 DEF Init, Statuses, Status
<1>8. rq = InsertRunnable(q1, Second, DefaultPrio)
  BY DEF Init
<1> HIDE DEF st0, st1, q1
<1>9. Good(rq, status, prio)
  BY <1>1, <1>2, <1>5, <1>6, <1>7, <1>8, MakeReady DEF Good
<1>10. status[Idle] = "Halted" /\ timeslice[Idle] = 0
  BY <1>1 DEF Init
<1>11. timeslice \in Times /\ timeleft \in Times
  BY SchedAssumption DEF Init, Times
<1>12. /\ Pick(rq) \in TCB
       /\ Pick(rq) # Idle => status[Pick(rq)] = "Runnable"
       /\ Pick(rq) = Idle => rq.prioset = {}
  BY <1>9, <1>10, RescheduleDispatches
<1>13. current = Pick(rq) /\ holder = Pick(rq)
  BY DEF Init
<1>14. TypeOK
  BY <1>9, <1>11, <1>12, <1>13 DEF Good, Statuses, Prios, Times, TypeOK
<1>15. RunqueuesExact /\ IdleParked /\ Dispatched
  BY <1>9, <1>10, <1>12, <1>13 DEF Good, RunqueuesExact, IdleParked, Dispatched, CurrentRunnable
<1> QED BY <1>14, <1>15 DEF IInv

(***************************************************************************)
(* Every action preserves it.                                              *)
(***************************************************************************)
\* Nothing changes but who runs.
LEMMA ByPreempt ==
  ASSUME IInv, UNCHANGED <<rq, status, prio, timeslice>>, timeleft' \in Times, Preempt
  PROVE  IInv'
<1>1. Ground(rq, status, prio, timeslice, timeleft)'
  BY IInvGround DEF Ground
<1>2. CASE Reschedule
  BY <1>1, <1>2, ByReschedule
<1>3. CASE Resume
  BY <1>3 DEF Resume, IInv, TypeOK, Times, RunqueuesExact, IdleParked, Dispatched, CurrentRunnable
<1> QED BY <1>2, <1>3 DEF Preempt

\* Refill stays within a word.
LEMMA RefillWord ==
  ASSUME IInv, NEW left \in 0..(WordSize - 1)
  PROVE  Refill(left) \in 0..(WordSize - 1)
BY SchedAssumption DEF IInv, TypeOK, Refill

\* The head of the holder's runqueue moves on to the next thread.
LEMMA Rotated ==
  ASSUME IInv, holder # Idle, status[holder] = "Runnable"
  PROVE  Good([rq EXCEPT !.head[prio[holder]] = rq.next[holder]], status, prio)
<1> DEFINE p  == prio[holder]
           q  == [rq EXCEPT !.head[p] = rq.next[holder]]
           on == Ready(status, prio)
<1>1. Good(rq, status, prio) /\ holder \in TCB /\ status[holder] = "Runnable"
  BY IInvGround DEF Ground, IInv, TypeOK
<1>2. p \in Prio /\ holder \in on[p]
  BY <1>1 DEF Good, Prios, Ready
<1>3. on \in Contents
  BY ReadyContents
<1> HIDE DEF on
<1>4. Rings(rq, on)
  BY <1>1 DEF Good, on
<1>5. rq.next[holder] \in on[p] /\ on[p] # {}
  BY <1>2, <1>4 DEF Rings, Ring
<1>6. rq \in Queues
  BY <1>1 DEF Good
<1>7. /\ q.next = rq.next /\ q.prev = rq.prev /\ q.prioset = rq.prioset
      /\ q.head[p] = rq.next[holder]
      /\ \A r \in Prio : r # p => q.head[r] = rq.head[r]
  BY <1>2, <1>6 DEF Queues
<1>8. q \in Queues
  BY <1>2, <1>3, <1>5, <1>6 DEF Queues, Contents
<1> HIDE DEF q, p
<1>9. Rings(q, on)
  BY <1>4, <1>5, <1>7 DEF Rings
<1>10. Good(q, status, prio)
  BY <1>1, <1>8, <1>9 DEF Good, on
<1> QED BY <1>10 DEF q, p

LEMMA TimerStep ==
  ASSUME IInv, TimerInterrupt, ~RotatesStale
  PROVE  IInv'
<1>1. CASE TickUnlimited
  BY <1>1, ByPreempt DEF TickUnlimited, times, IInv, TypeOK, Times
<1>2. CASE TickCounted
  <2>1. timeleft' \in Times
    BY <1>2, SchedAssumption DEF TickCounted, IInv, TypeOK, Times
  <2> QED BY <1>2, <2>1, ByPreempt DEF TickCounted
<1>3. CASE TickExpired
  <2>1. holder # Idle /\ holder \in TCB
    BY <1>3 DEF TickExpired, IInv, IdleParked, TypeOK
  <2>2. Good(rq', status', prio')
    <3>1. CASE holder # rq.next[holder]
      <4>1. status[holder] = "Runnable"
        BY <1>3, <3>1 DEF RotatesStale
      <4> QED BY <1>3, <2>1, <3>1, <4>1, Rotated DEF TickExpired
    <3>2. CASE holder = rq.next[holder]
      BY <1>3, <3>2, IInvGround DEF TickExpired, Ground
    <3> QED BY <3>1, <3>2
  <2>3. timeleft' \in Times
    <3> DEFINE left == Refill(timeleft[holder])
    <3>1. left \in 0..(WordSize - 1)
      BY <2>1, RefillWord DEF IInv, TypeOK
    <3>2. timeleft' = [timeleft EXCEPT ![holder] = IF left > Tick THEN left - Tick ELSE left]
      BY <1>3 DEF TickExpired
    <3> HIDE DEF left
    <3>3. (IF left > Tick THEN left - Tick ELSE left) \in 0..(WordSize - 1)
      BY <3>1, SchedAssumption
    <3> QED BY <3>2, <3>3 DEF IInv, TypeOK, Times
  <2>4. status' = status /\ timeslice' = timeslice /\ Reschedule
    BY <1>3 DEF TickExpired
  <2>5. Ground(rq, status, prio, timeslice, timeleft)'
    BY <2>2, <2>3, <2>4, IInvGround DEF Ground
  <2> QED BY <2>4, <2>5, ByReschedule
<1> QED BY <1>1, <1>2, <1>3 DEF TimerInterrupt

LEMMA DonateStep ==
  ASSUME IInv, NEW t \in Thread, Donate(t)
  PROVE  IInv'
<1>1. t \in TCB /\ t # Idle
  BY SchedAssumption DEF TCB
<1> QED BY <1>1, InSystemCall
     DEF Donate, times, IInv, TypeOK, RunqueuesExact, IdleParked, Dispatched, CurrentRunnable

LEMMA YieldStep ==
  ASSUME IInv, Yield
  PROVE  IInv'
<1>1. Refill(0) \in 0..(WordSize - 1)
  BY RefillWord, SchedAssumption
<1>2. timeleft' \in Times
  BY <1>1 DEF Yield, IInv, TypeOK, Times
<1>3. Ground(rq, status, prio, timeslice, timeleft)'
  BY <1>2, IInvGround DEF Yield, Ground
<1> QED BY <1>3, ByReschedule DEF Yield

LEMMA ScheduleStep ==
  ASSUME IInv, NEW dest \in Thread, NEW p \in Prio \cup {Keep},
         NEW ts \in Slices \cup {Keep}, Schedule(dest, p, ts)
  PROVE  IInv'
<1>1. dest \in TCB /\ dest # Idle
  BY SchedAssumption DEF TCB
<1>2. Good(rq, status, prio)
  BY IInvGround DEF Ground
<1>3. Good(rq', status, prio')
  <2>1. CASE p = Keep
    BY <1>2, <2>1 DEF Schedule
  <2>2. CASE p # Keep /\ p = prio[dest]
    <3>1. prio' = prio /\ rq' = rq
      BY <1>1, <1>2, <2>2 DEF Schedule, Good, Prios
    <3> QED BY <1>2, <3>1
  <2>3. CASE p # Keep /\ p # prio[dest] /\ status[dest] = "Runnable"
    <3>1. /\ rq' = InsertRunnable(RemoveRunnable(rq, dest, prio[dest]), dest, p)
          /\ prio' = [prio EXCEPT ![dest] = p] /\ p \in Prio
      BY <2>3 DEF Schedule
    <3>2. prio' \in Prios
      BY <1>2, <3>1 DEF Good, Prios
    <3> QED BY <1>1, <1>2, <2>3, <3>1, <3>2, MoveReady DEF Good
  <2>4. CASE p # Keep /\ status[dest] # "Runnable"
    <3>1. rq' = rq /\ prio' = [prio EXCEPT ![dest] = p] /\ p \in Prio
      BY <2>4 DEF Schedule
    <3>2. prio' \in Prios
      BY <1>2, <3>1 DEF Good, Prios
    <3>3. Ready(status, prio') = Ready(status, prio)
      BY <1>1, <1>2, <2>4, <3>1, UnreadyPrio DEF Good
    <3> QED BY <1>2, <3>1, <3>2, <3>3 DEF Good
  <2> QED BY <2>1, <2>2, <2>3, <2>4
<1>4. ts # Keep => ts \in 0..(WordSize - 1)
  BY SchedAssumption
<1>5. timeslice' \in Times /\ timeleft' \in Times /\ timeslice'[Idle] = 0
  BY <1>1, <1>4 DEF Schedule, IInv, TypeOK, Times, IdleParked
<1>6. Ground(rq, status, prio, timeslice, timeleft)'
  BY <1>3, <1>5, IInvGround DEF Schedule, Ground
<1> QED BY <1>6, InSystemCall, ByResume DEF Schedule, MaySchedule

\* A handler that completes an IPC with t, and no more.
LEMMA ResumedStep ==
  ASSUME IInv, NEW t \in Thread, InIpc(t), rq' = ResumeQueue(rq, t),
         status' = [status EXCEPT ![t] = ResumeStatus(t)], UNCHANGED <<prio, times>>
  PROVE  Ground(rq, status, prio, timeslice, timeleft)'
<1>1. t \in TCB /\ t # Idle
  BY SchedAssumption DEF TCB
<1>2. Good(rq', status', prio')
  BY <1>1, IInvGround, ResumeGood DEF Ground
<1> QED BY <1>1, <1>2, IInvGround DEF Ground, times

\* A handler that takes t off the runqueues, or leaves it off.
LEMMA HaltedStep ==
  ASSUME IInv, NEW t \in Thread, NEW v \in Status \ {"Runnable"},
         rq' = HaltQueue(rq, t), status' = [status EXCEPT ![t] = v],
         UNCHANGED <<prio, times>>
  PROVE  Ground(rq, status, prio, timeslice, timeleft)'
<1>1. t \in TCB /\ t # Idle
  BY SchedAssumption DEF TCB
<1>2. Good(rq', status', prio')
  BY <1>1, IInvGround, HaltGood DEF Ground
<1> QED BY <1>1, <1>2, IInvGround DEF Ground, times

\* The current thread is a user thread.
LEMMA Caller ==
  ASSUME IInv, current # Idle
  PROVE  current \in Thread
BY DEF IInv, TypeOK, TCB

LEMMA IpcCallStep ==
  ASSUME IInv, NEW t \in Thread, IpcCall(t)
  PROVE  IInv'
<1> DEFINE q  == ResumeQueue(rq, t)
           st == [status EXCEPT ![t] = ResumeStatus(t)]
<1>1. /\ t \in TCB /\ t # Idle /\ current \in TCB /\ current # Idle
      /\ status[current] = "Runnable" /\ t # current /\ InIpc(t)
  BY InSystemCall, SchedAssumption DEF TCB, IpcCall, InIpc
<1>2. Good(q, st, prio)
  BY <1>1, IInvGround, ResumeGood DEF Ground
<1>3. st[current] = "Runnable"
  BY <1>1, <1>2 DEF Good, Statuses, IInv, TypeOK
<1>4. rq' = RemoveRunnable(q, current, prio[current]) /\ prio' = prio
  BY <1>1 DEF IpcCall, HaltQueue
<1>5. status' = [st EXCEPT ![current] = "Blocked"]
  BY DEF IpcCall
<1> HIDE DEF q, st
<1>6. status' \in Statuses
  BY <1>2, <1>5 DEF Good, Statuses, Status
<1>7. Good(rq', status', prio')
  <2>1. /\ q \in Queues /\ st \in Statuses /\ prio \in Prios
        /\ Rings(q, Ready(st, prio)) /\ "Blocked" # "Runnable"
    BY <1>2 DEF Good
  <2>2. /\ RemoveRunnable(q, current, prio[current]) \in Queues
        /\ Rings(RemoveRunnable(q, current, prio[current]),
                 Ready([st EXCEPT ![current] = "Blocked"], prio))
    BY <1>1, <1>3, <2>1, Unready
  <2> QED BY <1>4, <1>5, <1>6, <2>1, <2>2 DEF Good
<1>8. status'[Idle] = "Halted"
  <2>1. status[Idle] = "Halted" /\ status \in [TCB -> Status] /\ Idle \in TCB
    BY DEF IInv, IdleParked, TypeOK, TCB
  <2>2. status' = [status EXCEPT ![t] = ResumeStatus(t), ![current] = "Blocked"]
    BY DEF IpcCall
  <2> QED BY <1>1, <2>1, <2>2
<1>9. Ground(rq, status, prio, timeslice, timeleft)'
  BY <1>7, <1>8, IInvGround DEF Ground, IpcCall, times
<1> QED BY <1>9, ByReschedule DEF IpcCall

\* exchangeRegisters returns to the current thread if that may run on.
LEMMA ByResumeOrReschedule ==
  ASSUME IInv, Ground(rq, status, prio, timeslice, timeleft)', ResumeOrReschedule,
         current # Idle,
         status'[current] = "Runnable" => status'[holder] \in MayHold
  PROVE  IInv'
<1>1. CASE status'[current] = "Runnable"
  BY <1>1, ByResume DEF ResumeOrReschedule
<1>2. CASE status'[current] # "Runnable"
  BY <1>2, ByReschedule DEF ResumeOrReschedule
<1> QED BY <1>1, <1>2

LEMMA ExchangeHaltStep ==
  ASSUME IInv, NEW dest \in Thread, ExchangeHalt(dest)
  PROVE  IInv'
<1> DEFINE v == IF InIpc(dest) THEN "Halting" ELSE "Halted"
<1>1. v \in Status \ {"Runnable"}
  BY DEF Status
<1>2. /\ rq' = HaltQueue(rq, dest) /\ status' = [status EXCEPT ![dest] = v]
      /\ UNCHANGED <<prio, times>>
  BY DEF ExchangeHalt
<1>3. ~InIpc(holder) /\ current # Idle /\ holder \in TCB
  BY InSystemCall DEF InIpc, ExchangeHalt, MayHold
<1>4. status'[holder] \in MayHold
  BY <1>2, <1>3, InSystemCall DEF MayHold, IInv, TypeOK
<1> HIDE DEF v
<1>5. Ground(rq, status, prio, timeslice, timeleft)'
  BY <1>1, <1>2, HaltedStep
<1> QED BY <1>3, <1>4, <1>5, ByResumeOrReschedule DEF ExchangeHalt

LEMMA ExchangeResumeStep ==
  ASSUME IInv, NEW dest \in Thread, ExchangeResume(dest)
  PROVE  IInv'
<1>1. dest \in TCB /\ dest # Idle
  BY SchedAssumption DEF TCB
<1>2. status' \in Statuses
  BY IInvGround DEF ExchangeResume, Ground, Good, Statuses, Status
<1>3. Good(rq', status', prio')
  BY <1>1, <1>2, IInvGround, MakeReady DEF ExchangeResume, Ground, Good
<1>4. Ground(rq, status, prio, timeslice, timeleft)'
  BY <1>1, <1>3, IInvGround DEF Ground, ExchangeResume, times, Good, Statuses
<1>5. status'[holder] \in MayHold
  BY InSystemCall DEF ExchangeResume, IInv, TypeOK, MayHold
<1> QED BY <1>4, <1>5, ByResumeOrReschedule DEF ExchangeResume

LEMMA ExchangeCancelStep ==
  ASSUME IInv, NEW dest \in Thread, NEW fault \in BOOLEAN, ExchangeCancel(dest, fault)
  PROVE  IInv'
<1>1. /\ InIpc(dest) /\ dest \in TCB /\ status[dest] # "Runnable"
      /\ UNCHANGED <<prio, times>> /\ current # Idle
  BY DEF ExchangeCancel, InIpc, TCB
<1>2. Ground(rq, status, prio, timeslice, timeleft)'
  <2>1. CASE fault
    <3>1. /\ rq' = HaltQueue(rq, dest)
          /\ status' = [status EXCEPT ![dest] = "Halted"]
          /\ "Halted" \in Status \ {"Runnable"}
      BY <1>1, <2>1 DEF ExchangeCancel, ErrorQueue, ErrorStatus, HaltQueue, Status
    <3> QED BY <1>1, <3>1, HaltedStep
  <2>2. CASE ~fault
    BY <1>1, <2>2, ResumedStep DEF ExchangeCancel, ErrorQueue, ErrorStatus
  <2> QED BY <2>1, <2>2
<1>3. status'[holder] \in MayHold
  BY <1>1, InSystemCall DEF ExchangeCancel, IInv, TypeOK, MayHold, InIpc
<1> QED BY <1>1, <1>2, <1>3, ByResumeOrReschedule DEF ExchangeCancel

LEMMA CreateThreadStep ==
  ASSUME IInv, NEW t \in Thread, NEW active \in BOOLEAN, CreateThread(t, active)
  PROVE  IInv'
<1> DEFINE v  == IF active THEN "Blocked" ELSE "Inactive"
           st == [status EXCEPT ![t] = v]
           on == Ready(status, prio)
<1>1. /\ t \in TCB /\ t # Idle /\ status[t] = "Absent" /\ DefaultPrio \in Prio
      /\ v \in Status \ {"Runnable"}
  BY SchedAssumption DEF CreateThread, TCB, Status
<1>2. /\ Good(rq, status, prio) /\ st \in Statuses /\ prio' \in Prios
  BY <1>1, IInvGround DEF Ground, Good, Statuses, Prios, CreateThread
<1>3. Ready(status', prio') = on
  <2>1. status' = st /\ prio' = [prio EXCEPT ![t] = DefaultPrio]
    BY DEF CreateThread
  <2>2. st[t] # "Runnable"
    BY <1>1, <1>2 DEF Good, Statuses
  <2>3. v # "Runnable"
    BY <1>1
  <2> HIDE DEF st, v
  <2>4. Ready(st, prio') = Ready(st, prio)
    BY <1>1, <1>2, <2>1, <2>2, UnreadyPrio DEF Good
  <2>5. Ready(st, prio) = on
    <3>1. Ready([status EXCEPT ![t] = v], prio) = Ready(status, prio)
      BY <1>1, <1>2, <2>3, StayUnready DEF Good
    <3> QED BY <3>1 DEF st
  <2> QED BY <2>1, <2>4, <2>5
<1>4. rq' \in Queues /\ rq'.prioset = rq.prioset /\ rq'.head = rq.head
      /\ \A x \in TCB : x # t => rq'.next[x] = rq.next[x] /\ rq'.prev[x] = rq.prev[x]
  BY <1>1, <1>2 DEF CreateThread, Good, Queues
<1>5. \A p \in Prio : on[p] \in SUBSET TCB /\ t \notin on[p]
  BY <1>1 DEF Ready
<1>6. Rings(rq, on)
  BY <1>2 DEF Good
<1> HIDE DEF on, st, v
<1>7. ASSUME NEW p \in Prio PROVE Ring(rq'.next, rq'.prev, on[p])
  <2>1. \A x \in on[p] : rq'.next[x] = rq.next[x] /\ rq'.prev[x] = rq.prev[x]
    BY <1>4, <1>5
  <2>2. Ring(rq.next, rq.prev, on[p])
    BY <1>6 DEF Rings
  <2> QED BY <2>1, <2>2, RingSame
<1>8. Rings(rq', on)
  BY <1>4, <1>6, <1>7 DEF Rings
<1>9. Good(rq', status', prio')
  BY <1>2, <1>3, <1>4, <1>8 DEF Good, CreateThread, st, v
<1>10. timeslice' \in Times /\ timeleft' \in Times /\ timeslice'[Idle] = 0
  BY <1>1, SchedAssumption DEF CreateThread, IInv, TypeOK, Times, IdleParked
<1>11. status'[Idle] = "Halted"
  BY <1>1 DEF CreateThread, IInv, TypeOK, IdleParked, TCB
<1>12. Ground(rq, status, prio, timeslice, timeleft)'
  BY <1>9, <1>10, <1>11 DEF Ground
<1>13. status'[current] = "Runnable" /\ status'[holder] \in MayHold
  BY <1>1, InSystemCall DEF CreateThread, IInv, TypeOK, MayHold
<1> QED BY <1>12, <1>13, ByResume DEF CreateThread

LEMMA ActivateThreadStep ==
  ASSUME IInv, NEW t \in Thread, ActivateThread(t)
  PROVE  IInv'
<1>1. /\ rq' = HaltQueue(rq, t) /\ status' = [status EXCEPT ![t] = "Blocked"]
      /\ UNCHANGED <<prio, times>> /\ "Blocked" \in Status \ {"Runnable"}
  BY DEF ActivateThread, HaltQueue, Status
<1>2. Ground(rq, status, prio, timeslice, timeleft)'
  BY <1>1, HaltedStep
<1>3. status'[current] = "Runnable" /\ status'[holder] \in MayHold
  BY InSystemCall DEF ActivateThread, IInv, TypeOK, MayHold
<1> QED BY <1>2, <1>3, ByResume DEF ActivateThread

LEMMA DeleteThreadStep ==
  ASSUME IInv, NEW t \in Thread, NEW s \in Thread, NEW fault \in BOOLEAN,
         DeleteThread(t, s, fault)
  PROVE  IInv'
<1> DEFINE q  == ErrorQueue(rq, s, fault)
           v  == ErrorStatus(s, fault)
           st == [status EXCEPT ![s] = v]
<1>1. t \in TCB /\ s \in TCB /\ t # Idle /\ s # Idle
  BY SchedAssumption DEF TCB
<1>2. CASE s = t
  <2>1. /\ rq' = HaltQueue(rq, t) /\ status' = [status EXCEPT ![t] = "Absent"]
        /\ UNCHANGED <<prio, times>> /\ "Absent" \in Status \ {"Runnable"}
    BY <1>2 DEF DeleteThread, Status
  <2> QED BY <2>1, HaltedStep, ByReschedule DEF DeleteThread
<1>3. CASE s # t
  <2>1. InIpc(s) /\ status[s] # "Runnable"
    BY <1>3 DEF DeleteThread, InIpc
  <2>2. Good(q, st, prio)
    <3>1. CASE fault
      BY <1>1, <2>1, <3>1, IInvGround, ParkedGood DEF Ground, ErrorQueue, ErrorStatus, Status
    <3>2. CASE ~fault
      BY <1>1, <2>1, <3>2, IInvGround, ResumeGood DEF Ground, ErrorQueue, ErrorStatus
    <3> QED BY <3>1, <3>2
  <2>3. status' = [st EXCEPT ![t] = "Absent"] /\ rq' = HaltQueue(q, t) /\ prio' = prio
    BY <1>3 DEF DeleteThread
  <2>4. st[t] = status[t] /\ status' \in Statuses
    BY <1>1, <1>3, <2>2, <2>3 DEF IInv, TypeOK, Good, Statuses, Status
  <2> HIDE DEF q, st, v
  <2>5. /\ q \in Queues /\ st \in Statuses /\ prio \in Prios
        /\ Rings(q, Ready(st, prio)) /\ "Absent" # "Runnable"
    BY <2>2 DEF Good
  <2>6. rq' \in Queues /\ Rings(rq', Ready(status', prio'))
    <3>1. CASE status[t] = "Runnable"
      <4>1. rq' = RemoveRunnable(q, t, prio[t])
        BY <2>3, <3>1 DEF HaltQueue
      <4>2. /\ RemoveRunnable(q, t, prio[t]) \in Queues
            /\ Rings(RemoveRunnable(q, t, prio[t]), Ready([st EXCEPT ![t] = "Absent"], prio))
        BY <1>1, <2>4, <2>5, <3>1, Unready
      <4> QED BY <2>3, <4>1, <4>2
    <3>2. CASE status[t] # "Runnable"
      <4>1. rq' = q
        BY <2>3, <3>2 DEF HaltQueue
      <4>2. Ready([st EXCEPT ![t] = "Absent"], prio) = Ready(st, prio)
        BY <1>1, <2>4, <2>5, <3>2, StayUnready
      <4> QED BY <2>3, <2>5, <4>1, <4>2
    <3> QED BY <3>1, <3>2
  <2>7. status'[Idle] = "Halted"
    BY <1>1, <1>3 DEF DeleteThread, IInv, IdleParked, TypeOK, TCB
  <2>8. Ground(rq, status, prio, timeslice, timeleft)'
    BY <2>3, <2>4, <2>5, <2>6, <2>7, IInvGround DEF Ground, Good, DeleteThread, times
  <2> QED BY <2>8, ByReschedule DEF DeleteThread
<1> QED BY <1>2, <1>3

LEMMA SystemCallStep ==
  ASSUME IInv, NEW t \in Thread, SystemCall(t)
  PROVE  IInv'
<1>1. CASE Donate(t)
  BY <1>1, DonateStep
<1>2. CASE \E p \in Prio \cup {Keep}, ts \in Slices \cup {Keep} : Schedule(t, p, ts)
  BY <1>2, ScheduleStep
<1>3. CASE IpcTransfer(t)
  BY <1>3, ResumedStep, ByReschedule DEF IpcTransfer
<1>4. CASE IpcCall(t)
  BY <1>4, IpcCallStep
<1>5. CASE IpcReject(t)
  <2>1. /\ rq' = HaltQueue(rq, t) /\ status' = [status EXCEPT ![t] = "Halted"]
        /\ UNCHANGED <<prio, times>> /\ "Halted" \in Status \ {"Runnable"}
    BY <1>5 DEF IpcReject, HaltQueue, InIpc, Status
  <2> QED BY <1>5, <2>1, HaltedStep, ByReschedule DEF IpcReject
<1>6. CASE ExchangeHalt(t)
  BY <1>6, ExchangeHaltStep
<1>7. CASE ExchangeResume(t)
  BY <1>7, ExchangeResumeStep
<1>8. CASE \E fault \in BOOLEAN : ExchangeCancel(t, fault)
  BY <1>8, ExchangeCancelStep
<1>9. CASE \E active \in BOOLEAN : CreateThread(t, active)
  BY <1>9, CreateThreadStep
<1>10. CASE ActivateThread(t)
  BY <1>10, ActivateThreadStep
<1>11. CASE \E s \in Thread, fault \in BOOLEAN : DeleteThread(t, s, fault)
  BY <1>11, DeleteThreadStep
<1> QED BY <1>1, <1>2, <1>3, <1>4, <1>5, <1>6, <1>7, <1>8, <1>9, <1>10, <1>11
     DEF SystemCall

LEMMA NextStep ==
  ASSUME IInv, [LinkedNext]_vars
  PROVE  IInv'
<1>1. CASE TimerInterrupt /\ ~RotatesStale
  BY <1>1, TimerStep
<1>2. CASE Yield
  BY <1>2, YieldStep
<1>3. CASE IpcBlock
  <2>1. /\ rq' = HaltQueue(rq, current) /\ status' = [status EXCEPT ![current] = "Blocked"]
        /\ UNCHANGED <<prio, times>> /\ "Blocked" \in Status \ {"Runnable"}
    BY <1>3 DEF IpcBlock, Status
  <2>2. current \in Thread
    BY <1>3, Caller DEF IpcBlock
  <2> QED BY <1>3, <2>1, <2>2, HaltedStep, ByReschedule DEF IpcBlock
<1>4. CASE FaultHalt
  <2>1. /\ rq' = HaltQueue(rq, current) /\ status' = [status EXCEPT ![current] = "Halted"]
        /\ UNCHANGED <<prio, times>> /\ "Halted" \in Status \ {"Runnable"}
    BY <1>4 DEF FaultHalt, Status
  <2>2. current \in Thread
    BY <1>4, Caller DEF FaultHalt
  <2> QED BY <1>4, <2>1, <2>2, HaltedStep, ByReschedule DEF FaultHalt
<1>5. CASE SpuriousIRQ
  <2>1. Ground(rq, status, prio, timeslice, timeleft)'
    BY <1>5, IInvGround DEF SpuriousIRQ, times, Ground
  <2> QED BY <1>5, <2>1, ByReschedule DEF SpuriousIRQ
<1>6. CASE \E t \in Thread : SystemCall(t)
  BY <1>6, SystemCallStep
<1>7. CASE \E t \in Thread : HardwareIRQ(t)
  BY <1>7, ResumedStep, ByReschedule DEF HardwareIRQ
<1>8. CASE UNCHANGED vars
  BY <1>8 DEF vars, times, IInv, TypeOK, RunqueuesExact, IdleParked, Dispatched, CurrentRunnable
<1> QED BY <1>1, <1>2, <1>3, <1>4, <1>5, <1>6, <1>7, <1>8 DEF LinkedNext, Next

LEMMA Inductive == LinkedSpec => []IInv
<1>1. Init => IInv
  BY InitIInv
<1>2. IInv /\ [LinkedNext]_vars => IInv'
  BY NextStep
<1> QED BY <1>1, <1>2, PTL DEF LinkedSpec

(***************************************************************************)
(* The theorems.  Each of them leaves out the ticks of RotatesStale, and   *)
(* nothing else.                                                           *)
(***************************************************************************)
\* The scheduler's variables keep their types; in particular runqueue[] and
\* the links never yield a null pointer where a handler dereferences one.
THEOREM TypeCorrect == LinkedSpec => []TypeOK
<1>1. IInv => TypeOK
  BY DEF IInv
<1> QED BY <1>1, Inductive, PTL

\* Every runnable thread is on the runqueue of its priority, exactly once,
\* and nothing else is, for any number of threads and priorities, as long
\* as the timer does not rotate a queue by the link of a halted donor.
THEOREM QueuesExact == LinkedSpec => []RunqueuesExact
<1>1. IInv => RunqueuesExact
  BY DEF IInv
<1> QED BY <1>1, Inductive, PTL

\* The kernel returns to runnable threads only, leaves the timeslice to a
\* runnable thread or to a donor that was halted and whose donee runs, and
\* idles only if nothing is runnable; again without the ticks that rotate a
\* queue by the link of a halted donor.
THEOREM AlwaysDispatched == LinkedSpec => []Dispatched
<1>1. IInv => Dispatched
  BY DEF IInv
<1> QED BY <1>1, Inductive, PTL

\* No thread is ever given a higher priority than threads are created with.
THEOREM PriosCapped == LinkedSpec => []PrioCapped
<1>1. Init => PrioCapped
  BY SchedAssumption DEF Init, PrioCapped, Prio
<1>2. IInv /\ PrioCapped /\ [LinkedNext]_vars => PrioCapped'
  <2> SUFFICES ASSUME IInv, PrioCapped, [LinkedNext]_vars PROVE PrioCapped'
    OBVIOUS
  <2>1. \A t \in TCB : prio[t] \in Nat
    BY SchedAssumption DEF IInv, TypeOK, Prio
  <2>2. DefaultPrio \in Nat /\ current \in TCB
    BY SchedAssumption DEF IInv, TypeOK, Prio
  <2>3. CASE prio' = prio
    BY <2>3 DEF PrioCapped
  <2>4. ASSUME NEW dest \in Thread, NEW p \in Prio \cup {Keep},
               NEW ts \in Slices \cup {Keep}, Schedule(dest, p, ts)
        PROVE  PrioCapped'
    <3>1. CASE p = Keep
      BY <2>4, <3>1, <2>3 DEF Schedule
    <3>2. CASE p # Keep
      <4>1. p <= prio[current] /\ prio[current] <= DefaultPrio /\ p \in Nat
        BY <2>2, <2>4, <3>2, SchedAssumption DEF Schedule, PrioCapped, Prio
      <4>2. p <= DefaultPrio
        BY <4>1, <2>1, <2>2
      <4>3. prio' = [prio EXCEPT ![dest] = p]
        BY <2>4, <3>2 DEF Schedule
      <4> QED BY <4>2, <4>3 DEF PrioCapped, IInv, TypeOK
    <3> QED BY <3>1, <3>2
  <2>5. ASSUME NEW t \in Thread, NEW active \in BOOLEAN, CreateThread(t, active)
        PROVE  PrioCapped'
    BY <2>2, <2>5 DEF CreateThread, PrioCapped, IInv, TypeOK
  <2>6. ASSUME NEW t \in Thread, SystemCall(t) PROVE PrioCapped'
    BY <2>3, <2>4, <2>5, <2>6
       DEF SystemCall, Donate, IpcTransfer, IpcCall, IpcReject, ExchangeHalt,
           ExchangeResume, ExchangeCancel, ActivateThread, DeleteThread
  <2> QED BY <2>3, <2>6
       DEF LinkedNext, Next, TimerInterrupt, TickUnlimited, TickCounted, TickExpired, Yield,
           IpcBlock, FaultHalt, SpuriousIRQ, HardwareIRQ, vars
<1> QED BY <1>1, <1>2, Inductive, PTL DEF LinkedSpec

\* When the timer interrupt is over, no thread of higher priority than the
\* holder's is left waiting.
THEOREM TickPreempts == LinkedSpec => PreemptedByTick
<1>1. ASSUME IInv, TimerInterrupt, ~RotatesStale
      PROVE  \A x \in rq'.prioset : x <= prio'[holder']
  <2>1. IInv' /\ rq' \in Queues /\ Rings(rq', Ready(status', prio'))
    BY <1>1, TimerStep DEF IInv, TypeOK, RunqueuesExact
  <2>2. Ready(status', prio') \in Contents
    BY ReadyContents
  <2>3. /\ rq'.prioset # {} => /\ Top(rq'.prioset) \in Prio
                               /\ Pick(rq') \in Ready(status', prio')[Top(rq'.prioset)]
                               /\ \A x \in rq'.prioset : x <= Top(rq'.prioset)
    BY <2>1, <2>2, PickRings
  <2>4. CASE Reschedule
    <3>1. rq'.prioset # {} => prio'[holder'] = Top(rq'.prioset)
      BY <2>3, <2>4 DEF Reschedule, Ready
    <3> QED BY <2>3, <3>1
  <2>5. CASE ~Reschedule
    <3>1. /\ rq' = rq /\ prio' = prio /\ holder' = holder
          /\ rq.prioset = {} \/ ~(Top(rq.prioset) > prio[holder])
      BY <1>1, <2>5 DEF TimerInterrupt, TickUnlimited, TickCounted, TickExpired,
                        Preempt, Resume
    <3>2. rq.prioset # {} => Top(rq.prioset) \in Nat
      BY <2>3, <3>1, SchedAssumption DEF Prio
    <3>3. prio[holder] \in Nat /\ \A x \in rq.prioset : x \in Nat
      BY <1>1, SchedAssumption DEF IInv, TypeOK, Prio, Queues
    <3> QED BY <2>3, <3>1, <3>2, <3>3
  <2> QED BY <2>4, <2>5
<1>2. IInv /\ [LinkedNext]_vars
      => [TimerInterrupt => \A p \in rq'.prioset : p <= prio'[holder']]_vars
  BY <1>1 DEF LinkedNext
<1> QED BY <1>2, Inductive, PTL DEF LinkedSpec, PreemptedByTick

\* What is left of a timeslice stays below one timeslice or one tick,
\* whatever the tick, the timeslices and the word size are.
THEOREM NothingBanked == LinkedSpec => []NoBanking
<1>1. Init => NoBanking
  BY SchedAssumption DEF Init, NoBanking, TCB
<1>2. IInv /\ NoBanking /\ [LinkedNext]_vars => NoBanking'
  <2> SUFFICES ASSUME IInv, NoBanking, [LinkedNext]_vars PROVE NoBanking'
    OBVIOUS
  <2>1. /\ timeslice \in Times /\ timeleft \in Times /\ holder \in TCB
        /\ WordSize \in Nat /\ WordSize > 0 /\ Tick \in Nat /\ \A t \in Thread : t \in TCB
    BY SchedAssumption DEF IInv, TypeOK, Times, TCB
  <2>2. CASE UNCHANGED times
    BY <2>2 DEF times, NoBanking
  <2>3. CASE TickCounted
    <3>1. timeleft[holder] - Tick <= timeleft[holder] /\ timeslice' = timeslice
      BY <2>1, <2>3 DEF TickCounted, Times
    <3>2. ASSUME NEW t \in Thread
          PROVE  timeleft'[t] <= Tick \/ timeleft'[t] <= timeslice'[t]
      <4>1. timeleft[t] \in Nat /\ timeslice[t] \in Nat
        BY <2>1 DEF Times
      <4> QED BY <2>1, <2>3, <3>1, <4>1 DEF TickCounted, Times, NoBanking
    <3> QED BY <3>2 DEF NoBanking
  <2>4. CASE TickExpired
    <3> DEFINE left == Refill(timeleft[holder])
    <3>1. /\ timeleft[holder] \in Nat /\ timeslice[holder] \in Nat
          /\ timeleft[holder] < Tick
      BY <2>1, <2>4 DEF TickExpired, Times
    <3>2. left \in Nat /\ left <= timeleft[holder] + timeslice[holder]
      BY <2>1, <3>1 DEF Refill
    <3>3. timeleft' = [timeleft EXCEPT ![holder] = IF left > Tick THEN left - Tick ELSE left]
          /\ timeslice' = timeslice
      BY <2>4 DEF TickExpired
    <3> HIDE DEF left
    <3>4. \/ (IF left > Tick THEN left - Tick ELSE left) <= Tick
          \/ (IF left > Tick THEN left - Tick ELSE left) <= timeslice[holder]
      BY <2>1, <3>1, <3>2
    <3> QED BY <2>1, <3>3, <3>4 DEF Times, NoBanking
  <2>5. CASE Yield
    <3>1. Refill(0) = timeslice[holder] /\ timeslice[holder] <= timeslice[holder]
      BY <2>1 DEF Refill, Times
    <3>2. timeleft' = [timeleft EXCEPT ![holder] = timeslice[holder]]
          /\ timeslice' = timeslice
      BY <2>5, <3>1 DEF Yield
    <3> QED BY <2>1, <3>1, <3>2 DEF Times, NoBanking
  <2>6. ASSUME NEW dest \in Thread, NEW p \in Prio \cup {Keep},
               NEW ts \in Slices \cup {Keep}, Schedule(dest, p, ts)
        PROVE  NoBanking'
    <3>1. CASE ts = Keep
      BY <2>2, <2>6, <3>1 DEF Schedule, times
    <3>2. CASE ts # Keep
      <4>1. ts <= ts
        BY <3>2, SchedAssumption
      <4> QED BY <2>1, <2>6, <3>2, <4>1 DEF Schedule, Times, NoBanking
    <3> QED BY <3>1, <3>2
  <2>7. ASSUME NEW t \in Thread, NEW active \in BOOLEAN, CreateThread(t, active)
        PROVE  NoBanking'
    <3>1. DefaultSlice <= DefaultSlice
      BY SchedAssumption
    <3> QED BY <2>1, <2>7, <3>1 DEF CreateThread, Times, NoBanking
  <2>8. ASSUME NEW t \in Thread, SystemCall(t) PROVE NoBanking'
    BY <2>2, <2>6, <2>7, <2>8
       DEF SystemCall, Donate, IpcTransfer, IpcCall, IpcReject, ExchangeHalt,
           ExchangeResume, ExchangeCancel, ActivateThread, DeleteThread
  <2> QED BY <2>2, <2>3, <2>4, <2>5, <2>8
       DEF LinkedNext, Next, TimerInterrupt, TickUnlimited, times, vars,
           IpcBlock, FaultHalt, SpuriousIRQ, HardwareIRQ
<1> QED BY <1>1, <1>2, Inductive, PTL DEF LinkedSpec

(***************************************************************************)
(* The linked lists implement first-in first-out queues.                   *)
(*                                                                         *)
(* The invariant says which threads are on a runqueue, but not in which    *)
(* order.  A chain is a sequence that gives the order: it lists a ring     *)
(* once, along its links, from the head on.  Each of the operations on the *)
(* links is shown to do to the chains what ReadyQueues says of its         *)
(* queues, each handler is one step of ReadyQueues on the chains, and the  *)
(* chains are what the mapping of SchedFifo reads off the links.           *)
(***************************************************************************)
(***************************************************************************)
(* Sequences with one element less, and with the first elements last.      *)
(***************************************************************************)
LEMMA Removed ==
  ASSUME NEW S, NEW s \in Seq(S), NEW k \in 1..Len(s)
  PROVE  /\ Fifo!RemoveAt(s, k) \in Seq(S)
         /\ Len(Fifo!RemoveAt(s, k)) = Len(s) - 1
         /\ \A i \in 1..(k - 1) : Fifo!RemoveAt(s, k)[i] = s[i]
         /\ \A i \in k..(Len(s) - 1) : Fifo!RemoveAt(s, k)[i] = s[i + 1]
<1> DEFINE a == SubSeq(s, 1, k - 1)
           b == SubSeq(s, k + 1, Len(s))
<1>0. Len(s) \in Nat /\ \A i \in 1..Len(s) : s[i] \in S
  BY ElementOfSeq, LenProperties
<1>1. /\ a \in Seq(S) /\ Len(a) = k - 1
      /\ \A i \in 1..(k - 1) : a[i] = s[i]
  <2>1. \A i \in 1..(k - 1) : s[i] \in S
    BY <1>0
  <2>2. /\ a \in Seq(S)
        /\ Len(a) = IF 1 <= k - 1 THEN (k - 1) - 1 + 1 ELSE 0
        /\ \A i \in 1..((k - 1) - 1 + 1) : a[i] = s[1 + i - 1]
    BY ONLY <2>1, SubSeqProperties, <1>0, k \in 1..Len(s)
  <2> QED BY <2>2, <1>0
<1>2. /\ b \in Seq(S) /\ Len(b) = Len(s) - k
      /\ \A i \in 1..(Len(s) - k) : b[i] = s[k + i]
  <2>1. \A i \in (k + 1)..Len(s) : s[i] \in S
    BY <1>0
  <2>2. /\ b \in Seq(S)
        /\ Len(b) = IF k + 1 <= Len(s) THEN Len(s) - (k + 1) + 1 ELSE 0
        /\ \A i \in 1..(Len(s) - (k + 1) + 1) : b[i] = s[(k + 1) + i - 1]
    BY ONLY <2>1, SubSeqProperties, <1>0, k \in 1..Len(s)
  <2> QED BY <2>2, <1>0
<1>3. Fifo!RemoveAt(s, k) = a \o b
  BY DEF Fifo!RemoveAt
<1> HIDE DEF a, b
<1>4. /\ a \o b \in Seq(S)
      /\ Len(a \o b) = Len(a) + Len(b)
      /\ \A i \in 1..(Len(a) + Len(b)) :
           (a \o b)[i] = IF i <= Len(a) THEN a[i] ELSE b[i - Len(a)]
  BY ONLY <1>1, <1>2, ConcatProperties
<1>5. ASSUME NEW i \in 1..(k - 1) PROVE (a \o b)[i] = s[i]
  BY <1>0, <1>1, <1>2, <1>4, <1>5
<1>6. ASSUME NEW i \in k..(Len(s) - 1) PROVE (a \o b)[i] = s[i + 1]
  <2>1. i \in 1..(Len(a) + Len(b)) /\ ~(i <= Len(a)) /\ i - Len(a) \in 1..(Len(s) - k)
    BY <1>0, <1>1, <1>2, <1>6
  <2>2. (a \o b)[i] = b[i - Len(a)] /\ b[i - Len(a)] = s[k + (i - Len(a))]
    BY <1>2, <1>4, <2>1
  <2>3. k + (i - Len(a)) = i + 1
    BY <1>0, <1>1, <1>6
  <2> QED BY <2>2, <2>3
<1>7. (a \o b) \in Seq(S) /\ Len(a \o b) = Len(s) - 1
  BY <1>0, <1>1, <1>2, <1>4
<1> QED BY <1>3, <1>5, <1>6, <1>7, Zenon

RotateAt(s, k) == SubSeq(s, k + 1, Len(s)) \o SubSeq(s, 1, k)

LEMMA Rotation ==
  ASSUME NEW S, NEW s \in Seq(S), NEW k \in 1..Len(s)
  PROVE  /\ RotateAt(s, k) \in Seq(S) /\ Len(RotateAt(s, k)) = Len(s)
         /\ \A i \in 1..(Len(s) - k) : RotateAt(s, k)[i] = s[k + i]
         /\ \A i \in 1..k : RotateAt(s, k)[(Len(s) - k) + i] = s[i]
<1> DEFINE a == SubSeq(s, k + 1, Len(s))
           b == SubSeq(s, 1, k)
<1>0. Len(s) \in Nat /\ \A i \in 1..Len(s) : s[i] \in S
  BY ElementOfSeq, LenProperties
<1>1. /\ a \in Seq(S) /\ Len(a) = Len(s) - k
      /\ \A i \in 1..(Len(s) - k) : a[i] = s[k + i]
  <2>1. \A i \in (k + 1)..Len(s) : s[i] \in S
    BY <1>0
  <2>2. /\ a \in Seq(S)
        /\ Len(a) = IF k + 1 <= Len(s) THEN Len(s) - (k + 1) + 1 ELSE 0
        /\ \A i \in 1..(Len(s) - (k + 1) + 1) : a[i] = s[(k + 1) + i - 1]
    BY ONLY <2>1, SubSeqProperties, <1>0, k \in 1..Len(s)
  <2> QED BY <2>2, <1>0
<1>2. /\ b \in Seq(S) /\ Len(b) = k
      /\ \A i \in 1..k : b[i] = s[i]
  <2>1. \A i \in 1..k : s[i] \in S
    BY <1>0
  <2>2. /\ b \in Seq(S)
        /\ Len(b) = IF 1 <= k THEN k - 1 + 1 ELSE 0
        /\ \A i \in 1..(k - 1 + 1) : b[i] = s[1 + i - 1]
    BY ONLY <2>1, SubSeqProperties, <1>0, k \in 1..Len(s)
  <2> QED BY <2>2, <1>0
<1>3. RotateAt(s, k) = a \o b
  BY DEF RotateAt
<1> HIDE DEF a, b
<1>4. /\ a \o b \in Seq(S)
      /\ Len(a \o b) = Len(a) + Len(b)
      /\ \A i \in 1..(Len(a) + Len(b)) :
           (a \o b)[i] = IF i <= Len(a) THEN a[i] ELSE b[i - Len(a)]
  BY ONLY <1>1, <1>2, ConcatProperties
<1>5. ASSUME NEW i \in 1..(Len(s) - k) PROVE (a \o b)[i] = s[k + i]
  BY <1>0, <1>1, <1>2, <1>4, <1>5
<1>6. ASSUME NEW i \in 1..k PROVE (a \o b)[(Len(s) - k) + i] = s[i]
  <2> DEFINE j == (Len(s) - k) + i
  <2>1. j \in 1..(Len(a) + Len(b)) /\ ~(j <= Len(a)) /\ j - Len(a) = i
    BY <1>0, <1>1, <1>2, <1>6
  <2>2. (a \o b)[j] = b[i] /\ b[i] = s[i]
    BY <1>2, <1>4, <2>1
  <2> QED BY <2>1, <2>2
<1>7. (a \o b) \in Seq(S) /\ Len(a \o b) = Len(s)
  BY <1>0, <1>1, <1>2, <1>4
<1> QED BY <1>3, <1>5, <1>6, <1>7, Zenon

(***************************************************************************)
(* Chains: a ring read from one of its elements on.                        *)
(***************************************************************************)
\* s lists each element of A once, in the order of the links nx, from h on.
Chain(s, nx, h, A) ==
  /\ s \in Seq(TCB)
  /\ \A i \in 1..Len(s) : s[i] \in A
  /\ \A x \in A : \E i \in 1..Len(s) : s[i] = x
  /\ \A i, j \in 1..Len(s) : s[i] = s[j] => i = j
  /\ Len(s) # 0 => s[1] = h /\ nx[s[Len(s)]] = s[1]
  /\ \A i \in 1..(Len(s) - 1) : nx[s[i]] = s[i + 1]

LEMMA IsChain ==
  ASSUME NEW A, NEW s \in Seq(TCB), NEW nx, NEW h, NEW n \in Nat, Len(s) = n,
         \A i \in 1..n : s[i] \in A,
         \A x \in A : \E i \in 1..n : s[i] = x,
         \A i, j \in 1..n : s[i] = s[j] => i = j,
         n # 0 => s[1] = h /\ nx[s[n]] = s[1],
         \A i \in 1..(n - 1) : nx[s[i]] = s[i + 1]
  PROVE  Chain(s, nx, h, A)
BY DEF Chain

LEMMA ChainSame ==
  ASSUME NEW A, NEW s, NEW nx, NEW h, NEW nx2, Chain(s, nx, h, A),
         \A x \in A : nx2[x] = nx[x]
  PROVE  Chain(s, nx2, h, A)
<1>1. s \in Seq(TCB) /\ Len(s) \in Nat
  BY LenProperties DEF Chain
<1>2. PICK n \in Nat : n = Len(s)
  BY <1>1
<1>3. \A i \in 1..n : s[i] \in A /\ nx2[s[i]] = nx[s[i]]
  BY <1>2 DEF Chain
<1>4. n # 0 => s[1] = h /\ nx2[s[n]] = s[1]
  <2>1. n # 0 => n \in 1..n
    OBVIOUS
  <2> QED BY <1>2, <1>3, <2>1 DEF Chain
<1>5. \A i \in 1..(n - 1) : i \in 1..n /\ nx2[s[i]] = s[i + 1]
  BY <1>2, <1>3 DEF Chain
<1>6. /\ \A x \in A : \E i \in 1..n : s[i] = x
      /\ \A i, j \in 1..n : s[i] = s[j] => i = j
  BY <1>2 DEF Chain
<1>7. /\ Len(s) = n /\ \A i \in 1..n : s[i] \in A
      /\ \A i \in 1..(n - 1) : nx2[s[i]] = s[i + 1]
  BY <1>2, <1>3, <1>5
<1> QED BY ONLY n \in Nat, <1>1, <1>4, <1>6, <1>7, IsChain, Zenon

LEMMA ChainFirst ==
  ASSUME NEW s, NEW nx, NEW h, Chain(s, nx, h, {}), NEW t \in TCB, NEW nx2, nx2[t] = t
  PROVE  Chain(Append(s, t), nx2, t, {t})
<1>1. s \in Seq(TCB) /\ Len(s) = 0
  <2>1. s \in Seq(TCB) /\ Len(s) \in Nat
    BY LenProperties DEF Chain
  <2> QED BY <2>1 DEF Chain
<1>2. /\ Append(s, t) \in Seq(TCB) /\ Len(Append(s, t)) = 1
      /\ Append(s, t)[1] = t
  BY <1>1, AppendProperties
<1>3. PICK s2 : s2 = Append(s, t)
  OBVIOUS
<1>4. Chain(s2, nx2, t, {t})
  <2>1. /\ \A i \in 1..1 : s2[i] \in {t}
        /\ \A x \in {t} : \E i \in 1..1 : s2[i] = x
        /\ \A i, j \in 1..1 : s2[i] = s2[j] => i = j
        /\ 1 # 0 => s2[1] = t /\ nx2[s2[1]] = s2[1]
        /\ \A i \in 1..(1 - 1) : nx2[s2[i]] = s2[i + 1]
    BY <1>2, <1>3
  <2>2. 1 \in Nat /\ s2 \in Seq(TCB) /\ Len(s2) = 1
    BY <1>2, <1>3
  <2> QED BY ONLY <2>1, <2>2, IsChain, Zenon
<1> QED BY <1>3, <1>4

LEMMA ChainAppend ==
  ASSUME NEW A, NEW s, NEW nx, NEW h, Chain(s, nx, h, A), NEW t \in TCB \ A, NEW nx2,
         NEW l \in A, nx[l] = h, nx2[l] = t, nx2[t] = h,
         \A x \in A : x # l => nx2[x] = nx[x]
  PROVE  Chain(Append(s, t), nx2, h, A \cup {t})
<1> DEFINE n == Len(s)
           s2 == Append(s, t)
<1>1. s \in Seq(TCB) /\ n \in Nat
  BY LenProperties DEF Chain
<1>2. n > 0 /\ l = s[n]
  <2>1. PICK i \in 1..n : s[i] = l
    BY DEF Chain
  <2>2. CASE i # n
    <3>1. nx[l] = s[i + 1] /\ s[1] = h /\ i + 1 # 1 /\ i + 1 \in 1..n /\ 1 \in 1..n
      BY <1>1, <2>1, <2>2 DEF Chain
    <3> QED BY <3>1 DEF Chain
  <2> QED BY <1>1, <2>1, <2>2
<1>3. /\ s2 \in Seq(TCB) /\ Len(s2) = n + 1
      /\ \A i \in 1..n : s2[i] = s[i]
      /\ s2[n + 1] = t
  BY <1>1, AppendProperties
<1> HIDE DEF s2
<1>4. \A i \in 1..(n + 1) : s2[i] \in A \cup {t}
  BY <1>1, <1>3 DEF Chain
<1>5. \A x \in A \cup {t} : \E i \in 1..(n + 1) : s2[i] = x
  <2>1. \E i \in 1..(n + 1) : s2[i] = t
    BY <1>1, <1>3
  <2>2. ASSUME NEW x \in A PROVE \E i \in 1..(n + 1) : s2[i] = x
    <3>1. PICK i \in 1..n : s[i] = x
      BY DEF Chain
    <3>2. i \in 1..(n + 1) /\ s2[i] = x
      BY <1>1, <1>3, <3>1
    <3> QED BY <3>2
  <2> QED BY <2>1, <2>2
<1>6. ASSUME NEW i \in 1..(n + 1), NEW j \in 1..(n + 1), s2[i] = s2[j] PROVE i = j
  <2>1. \A k \in 1..n : s[k] # t
    BY DEF Chain
  <2>2. CASE i \in 1..n /\ j \in 1..n
    BY <1>3, <1>6, <2>2 DEF Chain
  <2>3. CASE i = n + 1 \/ j = n + 1
    BY <1>1, <1>3, <1>6, <2>1, <2>3
  <2> QED BY <1>1, <2>2, <2>3
<1>7. s2[1] = h /\ nx2[s2[n + 1]] = s2[1]
  BY <1>1, <1>2, <1>3 DEF Chain
<1>8. ASSUME NEW i \in 1..n PROVE nx2[s2[i]] = s2[i + 1]
  <2>1. CASE i = n
    BY <1>1, <1>2, <1>3, <2>1
  <2>2. CASE i # n
    <3>1. i \in 1..(n - 1) /\ n \in 1..n /\ i + 1 \in 1..n
      BY <1>1, <1>2, <2>2
    <3>2. nx[s[i]] = s[i + 1] /\ s[i] # l /\ s[i] \in A
      BY <1>2, <2>2, <3>1 DEF Chain
    <3> QED BY <1>3, <3>1, <3>2
  <2> QED BY <2>1, <2>2
<1>9. PICK m \in Nat : m = n + 1 /\ m - 1 = n
  BY <1>1
<1> HIDE DEF n
<1>10. Chain(s2, nx2, h, A \cup {t})
  <2>1. /\ s2 \in Seq(TCB) /\ Len(s2) = m
        /\ \A i \in 1..m : s2[i] \in A \cup {t}
        /\ \A x \in A \cup {t} : \E i \in 1..m : s2[i] = x
        /\ m # 0 => s2[1] = h /\ nx2[s2[m]] = s2[1]
    BY <1>3, <1>4, <1>5, <1>7, <1>9
  <2>2. \A i, j \in 1..m : s2[i] = s2[j] => i = j
    BY <1>6, <1>9
  <2>3. \A i \in 1..(m - 1) : nx2[s2[i]] = s2[i + 1]
    BY <1>8, <1>9
  <2> QED BY ONLY <1>9, <2>1, <2>2, <2>3, IsChain, Zenon
<1> QED BY <1>10 DEF s2

\* The same, with the length of s named.
ChainOf(s, n, nx, h, A) ==
  /\ s \in Seq(TCB) /\ Len(s) = n
  /\ \A i \in 1..n : s[i] \in A
  /\ \A x \in A : \E i \in 1..n : s[i] = x
  /\ \A i, j \in 1..n : s[i] = s[j] => i = j
  /\ n # 0 => s[1] = h /\ nx[s[n]] = s[1]
  /\ \A i \in 1..(n - 1) : nx[s[i]] = s[i + 1]

LEMMA ChainFacts ==
  ASSUME NEW A, NEW s, NEW nx, NEW h, Chain(s, nx, h, A)
  PROVE  \E n \in Nat : ChainOf(s, n, nx, h, A)
<1>1. s \in Seq(TCB) /\ Len(s) \in Nat
  BY LenProperties DEF Chain
<1>2. PICK n \in Nat : Len(s) = n
  BY <1>1
<1>3. ChainOf(s, n, nx, h, A)
  BY <1>1, <1>2 DEF Chain, ChainOf
<1> QED BY <1>3

\* The k-th element of s, after l in the ring, is skipped.
Skipped(s, nx, h, A, k, l, nx2, h2) ==
  /\ k \in 1..Len(s) /\ nx[s[k]] # s[k]
  /\ l \in A /\ nx[l] = s[k] /\ nx2[l] = nx[s[k]]
  /\ \A x \in A : x # l => nx2[x] = nx[x]
  /\ h = s[k] => h2 = nx[s[k]]
  /\ h # s[k] => h2 = h

LEMMA ChainRemove ==
  ASSUME NEW A, NEW s, NEW nx, NEW h, NEW k, NEW l, NEW nx2, NEW h2,
         Chain(s, nx, h, A), Skipped(s, nx, h, A, k, l, nx2, h2)
  PROVE  Chain(Fifo!RemoveAt(s, k), nx2, h2, A \ {s[k]})
<1>t. PICK t : t = s[k]
  OBVIOUS
<1>s. /\ k \in 1..Len(s) /\ nx[t] # t
      /\ l \in A /\ nx[l] = t /\ nx2[l] = nx[t]
      /\ \A x \in A : x # l => nx2[x] = nx[x]
      /\ h = t => h2 = nx[t]
      /\ h # t => h2 = h
  BY <1>t DEF Skipped
<1>0. PICK n \in Nat : ChainOf(s, n, nx, h, A)
  BY ChainFacts
<1>1. /\ s \in Seq(TCB) /\ Len(s) = n
      /\ \A i \in 1..n : s[i] \in A
      /\ \A x \in A : \E i \in 1..n : s[i] = x
      /\ \A i, j \in 1..n : s[i] = s[j] => i = j
      /\ n # 0 => s[1] = h /\ nx[s[n]] = s[1]
      /\ \A i \in 1..(n - 1) : nx[s[i]] = s[i + 1]
  BY <1>0 DEF ChainOf
<1>2. k \in 1..n /\ n > 1
  <2>1. k \in 1..n
    BY <1>1, <1>s
  <2>2. n # 1
    BY <1>1, <1>s, <1>t, <2>1
  <2> QED BY <1>1, <2>1, <2>2
<1>a. PICK r : r = Fifo!RemoveAt(s, k)
  OBVIOUS
<1>b. /\ r \in Seq(TCB) /\ Len(r) = Len(s) - 1
      /\ \A i \in 1..(k - 1) : r[i] = s[i]
      /\ \A i \in k..(Len(s) - 1) : r[i] = s[i + 1]
  <2>1. s \in Seq(TCB)
    BY <1>1
  <2>2. /\ Fifo!RemoveAt(s, k) \in Seq(TCB) /\ Len(Fifo!RemoveAt(s, k)) = Len(s) - 1
        /\ \A i \in 1..(k - 1) : Fifo!RemoveAt(s, k)[i] = s[i]
        /\ \A i \in k..(Len(s) - 1) : Fifo!RemoveAt(s, k)[i] = s[i + 1]
    BY ONLY <2>1, <1>s, Removed, Zenon
  <2> QED BY ONLY <1>a, <2>2
<1>c. \A i, j \in 1..n : s[i] = s[j] => i = j
  BY <1>1
<1>3. /\ \A i \in 1..(k - 1) : r[i] = s[i]
      /\ \A i \in k..(n - 1) : r[i] = s[i + 1]
  BY <1>1, <1>b
<1>4. \/ k > 1 /\ l = s[k - 1]
      \/ k = 1 /\ l = s[n]
  <2>1. PICK j \in 1..n : s[j] = l
    BY <1>1, <1>s, <1>t
  <2>2. CASE j = n
    BY <1>1, <1>2, <2>1, <2>2, <1>s, <1>t
  <2>3. CASE j # n
    <3>1. j \in 1..(n - 1) /\ j + 1 \in 1..n /\ s[j + 1] = s[k]
      BY <1>1, <2>1, <2>3, <1>s, <1>t
    <3>2. j + 1 = k
      BY <1>1, <1>2, <3>1
    <3> QED BY <2>1, <3>1, <3>2, <1>2
  <2> QED BY <2>2, <2>3
<1>5. PICK m \in Nat : m = n - 1
  BY <1>2
<1>6. ASSUME NEW i \in 1..m
      PROVE  \E j \in 1..n : r[i] = s[j] /\ j # k /\ ((j = i /\ i < k) \/ (j = i + 1 /\ i >= k))
  <2>1. CASE i < k
    <3>1. i \in 1..n /\ i \in 1..(k - 1) /\ i # k
      BY <1>2, <1>5, <2>1
    <3>2. r[i] = s[i]
      BY <1>3, <3>1
    <3> QED BY <2>1, <3>1, <3>2
  <2>2. CASE i >= k
    <3>1. i + 1 \in 1..n /\ i \in k..(n - 1) /\ i + 1 # k
      BY <1>2, <1>5, <2>2
    <3>2. r[i] = s[i + 1]
      BY <1>3, <3>1
    <3> QED BY <2>2, <3>1, <3>2
  <2> QED BY <1>2, <2>1, <2>2
<1>7. \A i \in 1..m : r[i] \in A \ {t}
  BY <1>1, <1>2, <1>6, <1>s, <1>t
<1>8. ASSUME NEW x \in A \ {t} PROVE \E i \in 1..m : r[i] = x
  <2>1. PICK j \in 1..n : s[j] = x /\ j # k
    BY <1>1, <1>2, <1>s, <1>t
  <2>2. CASE j < k
    <3>1. j \in 1..m /\ j \in 1..(k - 1)
      BY <1>2, <1>5, <2>2
    <3> QED BY <1>3, <2>1, <3>1
  <2>3. CASE j > k
    <3>1. j - 1 \in k..(n - 1) /\ (j - 1) + 1 = j /\ j - 1 \in 1..m
      BY <1>2, <1>5, <2>3
    <3> QED BY <1>3, <2>1, <3>1
  <2> QED BY <1>2, <2>1, <2>2, <2>3
<1>9. ASSUME NEW i \in 1..m, NEW j \in 1..m, r[i] = r[j] PROVE i = j
  <2>1. PICK a \in 1..n : r[i] = s[a] /\ a # k /\ ((a = i /\ i < k) \/ (a = i + 1 /\ i >= k))
    BY <1>6
  <2>2. PICK b \in 1..n : r[j] = s[b] /\ b # k /\ ((b = j /\ j < k) \/ (b = j + 1 /\ j >= k))
    BY <1>6
  <2>3. a = b
    BY ONLY <1>c, <1>9, <2>1, <2>2
  <2> QED BY <1>2, <2>1, <2>2, <2>3
<1>10. r[1] = h2
  <2>1. CASE k = 1
    BY <1>1, <1>2, <1>3, <2>1, <1>s, <1>t
  <2>2. CASE k # 1
    <3>1. r[1] = s[1] /\ s[1] # s[k]
      BY <1>1, <1>2, <1>3, <2>2
    <3> QED BY <1>1, <1>2, <3>1, <1>s, <1>t
  <2> QED BY <2>1, <2>2
<1>11. nx2[r[m]] = r[1]
  <2>1. CASE k = n
    <3>1. r[m] = l /\ r[1] = s[1]
      BY <1>2, <1>3, <1>4, <1>5, <2>1
    <3> QED BY <1>1, <1>2, <2>1, <3>1, <1>s, <1>t
  <2>2. CASE k < n /\ k = 1
    <3>1. r[m] = l /\ r[1] = s[2]
      BY <1>2, <1>3, <1>4, <1>5, <2>2
    <3> QED BY <1>1, <1>2, <2>2, <3>1, <1>s, <1>t
  <2>3. CASE k < n /\ k > 1
    <3>1. r[m] = s[n] /\ r[1] = s[1] /\ l = s[k - 1] /\ k - 1 \in 1..n /\ n \in 1..n
      BY <1>2, <1>3, <1>4, <1>5, <2>3
    <3>2. l # s[n] /\ s[n] \in A
      BY <1>1, <1>2, <2>3, <3>1
    <3> QED BY <1>1, <1>2, <3>1, <3>2, <1>s, <1>t
  <2> QED BY <1>2, <2>1, <2>2, <2>3
<1>12. ASSUME NEW i \in 1..(m - 1) PROVE nx2[r[i]] = r[i + 1]
  <2>1. CASE i + 1 < k
    <3>1. r[i] = s[i] /\ r[i + 1] = s[i + 1] /\ i \in 1..(n - 1) /\ l = s[k - 1]
          /\ i \in 1..n /\ k - 1 \in 1..n /\ i # k - 1
      BY <1>2, <1>3, <1>4, <1>5, <2>1
    <3>2. s[i] # l /\ s[i] \in A
      BY <1>1, <3>1
    <3> QED BY <1>1, <3>1, <3>2, <1>s, <1>t
  <2>2. CASE i + 1 = k
    <3>1. r[i] = l /\ r[i + 1] = s[k + 1] /\ k \in 1..(n - 1)
      BY <1>2, <1>3, <1>4, <1>5, <2>2
    <3> QED BY <1>1, <3>1, <1>s, <1>t
  <2>3. CASE i + 1 > k
    <3>1. PICK j \in 1..(n - 1) : j = i + 1 /\ j + 1 = i + 2
      BY <1>2, <1>5
    <3>2. r[i] = s[j] /\ r[i + 1] = s[j + 1] /\ j \in 1..n
      <4>1. i \in k..(n - 1) /\ i + 1 \in k..(n - 1) /\ j \in 1..n
        BY <1>2, <1>5, <2>3, <3>1
      <4>2. r[i] = s[i + 1] /\ r[i + 1] = s[(i + 1) + 1]
        BY <1>3, <4>1
      <4>3. (i + 1) + 1 = j + 1
        BY <3>1
      <4> QED BY <3>1, <4>1, <4>2, <4>3
    <3>3. s[j] # l /\ s[j] \in A
      <4>1. CASE k > 1
        <5>1. l = s[k - 1] /\ k - 1 \in 1..n /\ k - 1 # j
          BY <1>2, <1>4, <2>3, <3>1, <4>1
        <5> QED BY <1>1, <3>2, <5>1
      <4>2. CASE k = 1
        <5>1. l = s[n] /\ n \in 1..n /\ n # j
          BY <1>2, <1>4, <3>1, <4>2
        <5> QED BY <1>1, <3>2, <5>1
      <4> QED BY <1>2, <4>1, <4>2
    <3> QED BY <1>1, <3>1, <3>2, <3>3, <1>s, <1>t
  <2> QED BY <1>2, <2>1, <2>2, <2>3
<1>13. Chain(r, nx2, h2, A \ {t})
  <2>1. /\ r \in Seq(TCB) /\ Len(r) = m
        /\ m # 0 => r[1] = h2 /\ nx2[r[m]] = r[1]
    BY <1>1, <1>b, <1>5, <1>10, <1>11
  <2> QED BY ONLY <1>5, <1>7, <1>8, <1>9, <1>12, <2>1, IsChain, Zenon
<1> QED BY <1>a, <1>13, <1>s, <1>t

LEMMA ChainRotate ==
  ASSUME NEW A, NEW s, NEW nx, NEW h, Chain(s, nx, h, A), NEW k \in 1..Len(s),
         NEW r, r = RotateAt(s, k)
  PROVE  Chain(r, nx, nx[s[k]], A)
<1>0. PICK n \in Nat : ChainOf(s, n, nx, h, A)
  BY ChainFacts
<1>1. /\ s \in Seq(TCB) /\ Len(s) = n
      /\ \A i \in 1..n : s[i] \in A
      /\ \A x \in A : \E i \in 1..n : s[i] = x
      /\ \A i, j \in 1..n : s[i] = s[j] => i = j
      /\ n # 0 => s[1] = h /\ nx[s[n]] = s[1]
      /\ \A i \in 1..(n - 1) : nx[s[i]] = s[i + 1]
  BY <1>0 DEF ChainOf
<1>2. k \in 1..n
  BY <1>1
<1>3. PICK m \in Nat : m = n - k /\ n = m + k
  BY <1>2
<1>a. /\ r \in Seq(TCB) /\ Len(r) = Len(s)
      /\ \A i \in 1..(Len(s) - k) : r[i] = s[k + i]
      /\ \A i \in 1..k : r[(Len(s) - k) + i] = s[i]
  <2>1. s \in Seq(TCB)
    BY <1>1
  <2>2. /\ RotateAt(s, k) \in Seq(TCB) /\ Len(RotateAt(s, k)) = Len(s)
        /\ \A i \in 1..(Len(s) - k) : RotateAt(s, k)[i] = s[k + i]
        /\ \A i \in 1..k : RotateAt(s, k)[(Len(s) - k) + i] = s[i]
    BY ONLY <2>1, k \in 1..Len(s), Rotation, Zenon
  <2> QED BY ONLY r = RotateAt(s, k), <2>2
<1>c. \A i, j \in 1..n : s[i] = s[j] => i = j
  BY <1>1
<1>4. /\ \A i \in 1..m : r[i] = s[k + i]
      /\ \A i \in 1..k : r[m + i] = s[i]
  BY <1>1, <1>3, <1>a
<1>5. ASSUME NEW i \in 1..n
      PROVE  \E j \in 1..n : r[i] = s[j] /\ ((i <= m /\ j = k + i) \/ (i > m /\ j = i - m))
  <2>1. CASE i <= m
    <3>1. k + i \in 1..n /\ i \in 1..m
      BY <1>2, <1>3, <2>1
    <3>2. r[i] = s[k + i]
      BY <1>4, <3>1
    <3>3. PICK j \in 1..n : j = k + i
      BY <3>1
    <3> QED BY <2>1, <3>2, <3>3
  <2>2. CASE i > m
    <3>1. i - m \in 1..k /\ i - m \in 1..n /\ m + (i - m) = i
      BY <1>2, <1>3, <2>2
    <3>2. r[i] = s[i - m]
      BY <1>4, <3>1
    <3> QED BY <2>2, <3>1, <3>2
  <2> QED BY <1>3, <2>1, <2>2
<1>6. \A i \in 1..n : r[i] \in A
  BY <1>1, <1>5
<1>7. ASSUME NEW x \in A PROVE \E i \in 1..n : r[i] = x
  <2>1. PICK j \in 1..n : s[j] = x
    BY <1>1
  <2>2. CASE j <= k
    <3>1. j \in 1..k /\ m + j \in 1..n
      BY <1>2, <1>3, <2>2
    <3> QED BY <1>4, <2>1, <3>1
  <2>3. CASE j > k
    <3>1. j - k \in 1..m /\ j - k \in 1..n /\ k + (j - k) = j
      BY <1>2, <1>3, <2>3
    <3> QED BY <1>4, <2>1, <3>1
  <2> QED BY <1>2, <2>2, <2>3
<1>8. ASSUME NEW i \in 1..n, NEW j \in 1..n, r[i] = r[j] PROVE i = j
  <2>1. PICK a \in 1..n : r[i] = s[a] /\ ((i <= m /\ a = k + i) \/ (i > m /\ a = i - m))
    BY <1>5
  <2>2. PICK b \in 1..n : r[j] = s[b] /\ ((j <= m /\ b = k + j) \/ (j > m /\ b = j - m))
    BY <1>5
  <2>3. a = b
    BY ONLY <1>c, <1>8, <2>1, <2>2
  <2> QED BY <1>2, <1>3, <2>1, <2>2, <2>3
<1>9. r[n] = s[k]
  BY <1>2, <1>3, <1>4
<1>10. r[1] = nx[s[k]]
  <2>1. CASE m = 0
    <3>1. r[1] = s[1] /\ k = n /\ n # 0
      BY <1>2, <1>3, <1>4, <2>1
    <3> QED BY <1>1, <3>1
  <2>2. CASE m # 0
    <3>1. r[1] = s[k + 1] /\ k \in 1..(n - 1)
      BY <1>2, <1>3, <1>4, <2>2
    <3> QED BY <1>1, <3>1
  <2> QED BY <2>1, <2>2
<1>11. ASSUME NEW i \in 1..(n - 1) PROVE nx[r[i]] = r[i + 1]
  <2>1. CASE i < m
    <3>1. PICK j \in 1..(n - 1) : j = k + i /\ j + 1 = k + (i + 1)
      BY <1>2, <1>3, <2>1
    <3>2. r[i] = s[j] /\ r[i + 1] = s[j + 1]
      <4>1. i \in 1..m /\ i + 1 \in 1..m
        BY <1>3, <2>1
      <4>2. r[i] = s[k + i] /\ r[i + 1] = s[k + (i + 1)]
        BY <1>4, <4>1
      <4> QED BY <3>1, <4>2
    <3>3. nx[s[j]] = s[j + 1]
      BY <1>1
    <3> QED BY <3>2, <3>3
  <2>2. CASE i = m
    <3>1. m \in 1..m /\ 1 \in 1..k /\ k + m = n /\ m + 1 = i + 1 /\ n # 0
      BY <1>2, <1>3, <2>2
    <3>2. r[m] = s[k + m] /\ r[m + 1] = s[1]
      BY <1>4, <3>1
    <3> QED BY <1>1, <2>2, <3>1, <3>2
  <2>3. CASE i > m
    <3>1. PICK j \in 1..(k - 1) : j = i - m /\ m + j = i /\ m + (j + 1) = i + 1
      BY <1>2, <1>3, <2>3
    <3>2. r[i] = s[j] /\ r[i + 1] = s[j + 1] /\ j \in 1..(n - 1)
      BY <1>2, <1>3, <1>4, <3>1
    <3> QED BY <1>1, <3>1, <3>2
  <2> QED BY <1>3, <2>1, <2>2, <2>3
<1>12. n # 0 => r[1] = nx[s[k]] /\ nx[r[n]] = r[1]
  BY <1>9, <1>10
<1>13. r \in Seq(TCB) /\ Len(r) = n
  BY <1>1, <1>a
<1> QED BY ONLY n \in Nat, <1>13, <1>6, <1>7, <1>8, <1>11, <1>12, IsChain, Zenon

(***************************************************************************)
(* Walking along the links gives the chain.                                *)
(***************************************************************************)
Prefix(s, k) == SubSeq(s, 1, k)

LEMMA Prefixes ==
  ASSUME NEW s \in Seq(TCB), Len(s) # 0
  PROVE  /\ Prefix(s, 1) = <<s[1]>> /\ Prefix(s, Len(s)) = s
         /\ \A k \in 1..Len(s) : Len(Prefix(s, k)) = k /\ Prefix(s, k)[k] = s[k]
         /\ \A k \in 1..(Len(s) - 1) : Append(Prefix(s, k), s[k + 1]) = Prefix(s, k + 1)
<1>0. Len(s) \in Nat /\ \A i \in 1..Len(s) : s[i] \in TCB
  BY ElementOfSeq, LenProperties
<1>1. ASSUME NEW k \in 1..Len(s)
      PROVE  /\ Prefix(s, k) \in Seq(TCB) /\ Len(Prefix(s, k)) = k
             /\ \A i \in 1..k : Prefix(s, k)[i] = s[i]
  <2>1. \A i \in 1..k : s[i] \in TCB
    BY <1>0
  <2>2. /\ SubSeq(s, 1, k) \in Seq(TCB)
        /\ Len(SubSeq(s, 1, k)) = IF 1 <= k THEN k - 1 + 1 ELSE 0
        /\ \A i \in 1..(k - 1 + 1) : SubSeq(s, 1, k)[i] = s[1 + i - 1]
    BY ONLY <2>1, SubSeqProperties, <1>0, k \in 1..Len(s)
  <2>3. PICK r : r = SubSeq(s, 1, k)
    OBVIOUS
  <2> QED BY <2>2, <2>3, <1>0 DEF Prefix
<1>2. ASSUME NEW k \in 1..(Len(s) - 1)
      PROVE  Append(Prefix(s, k), s[k + 1]) = Prefix(s, k + 1)
  <2>1. PICK a \in Seq(TCB) : a = Prefix(s, k) /\ Len(a) = k /\ \A i \in 1..k : a[i] = s[i]
    BY <1>0, <1>1
  <2>2. PICK b \in Seq(TCB) : /\ b = Prefix(s, k + 1) /\ Len(b) = k + 1
                               /\ \A i \in 1..(k + 1) : b[i] = s[i]
    BY <1>0, <1>1
  <2>3. s[k + 1] \in TCB
    BY <1>0
  <2>4. PICK e \in TCB : e = s[k + 1]
    BY <2>3
  <2>5. /\ Append(a, e) \in Seq(TCB) /\ Len(Append(a, e)) = Len(a) + 1
        /\ \A i \in 1..Len(a) : Append(a, e)[i] = a[i]
        /\ Append(a, e)[Len(a) + 1] = e
    BY ONLY a \in Seq(TCB), e \in TCB, AppendProperties
  <2>6. PICK c : c = Append(a, e)
    OBVIOUS
  <2>7. c \in Seq(TCB) /\ Len(c) = k + 1 /\ c[k + 1] = b[k + 1] /\ \A i \in 1..k : c[i] = b[i]
    BY <1>0, <2>1, <2>2, <2>4, <2>5, <2>6
  <2>8. \A i \in 1..(k + 1) : c[i] = b[i]
    BY <1>0, <2>7
  <2>9. c = b
    BY <2>2, <2>7, <2>8, SeqEqual
  <2> QED BY <2>1, <2>2, <2>4, <2>6, <2>9
<1>3. Prefix(s, 1) = <<s[1]>>
  <2>0. 1 \in 1..Len(s) /\ 1 \in 1..1
    BY <1>0
  <2>1. Prefix(s, 1) \in Seq(TCB) /\ Len(Prefix(s, 1)) = 1 /\ Prefix(s, 1)[1] = s[1]
    BY <1>1, <2>0
  <2>2. <<s[1]>> \in Seq(TCB) /\ Len(<<s[1]>>) = 1 /\ <<s[1]>>[1] = s[1]
    BY <1>0
  <2>3. \A i \in 1..1 : Prefix(s, 1)[i] = <<s[1]>>[i]
    BY <2>1, <2>2
  <2> QED BY <2>1, <2>2, <2>3, SeqEqual
<1>4. Prefix(s, Len(s)) = s
  BY SubSeqFull DEF Prefix
<1> QED BY <1>1, <1>2, <1>3, <1>4, <1>0

LEMMA WalkChain ==
  ASSUME NEW q, NEW p \in Prio, NEW A, NEW s, Chain(s, q.next, q.head[p], A), s # << >>,
         NoTCB \notin TCB, Cardinality(Thread) \in Nat, Len(s) <= Cardinality(Thread) + 1
  PROVE  Queue(q, p) = s
<1> DEFINE h == q.head[p]
           nx == q.next
<1>0. PICK n \in Nat : ChainOf(s, n, nx, h, A)
  BY ChainFacts
<1>1. /\ s \in Seq(TCB) /\ Len(s) = n
      /\ \A i, j \in 1..n : s[i] = s[j] => i = j
      /\ n # 0 => s[1] = h /\ nx[s[n]] = s[1]
      /\ \A i \in 1..(n - 1) : nx[s[i]] = s[i + 1]
  BY <1>0 DEF ChainOf
<1>2. n # 0 /\ h \in TCB /\ n <= Cardinality(Thread) + 1
  <2>1. n # 0
    BY <1>1, EmptySeq
  <2> QED BY <1>1, <2>1, ElementOfSeq
<1>3. /\ Prefix(s, 1) = <<h>> /\ Prefix(s, n) = s
      /\ \A k \in 1..n : Len(Prefix(s, k)) = k /\ Prefix(s, k)[k] = s[k]
      /\ \A k \in 1..(n - 1) : Append(Prefix(s, k), s[k + 1]) = Prefix(s, k + 1)
  BY <1>1, <1>2, Prefixes
<1> DEFINE walk[k \in Nat] ==
             IF k = 0 THEN <<q.head[p]>>
             ELSE LET u == walk[k - 1]
                      t == q.next[u[Len(u)]]
                  IN IF t = q.head[p] THEN u ELSE Append(u, t)
           step(u) == IF q.next[u[Len(u)]] = q.head[p] THEN u
                      ELSE Append(u, q.next[u[Len(u)]])
           F(v) == [k \in Nat |-> IF k = 0 THEN <<q.head[p]>> ELSE step(v[k - 1])]
           upto(k) == IF k + 1 < n THEN k + 1 ELSE n
           g == [k \in Nat |-> Prefix(s, upto(k))]
<1>4. Queue(q, p) = walk[Cardinality(Thread)]
  BY <1>2 DEF Queue
<1>5. walk = CHOOSE v : v = F(v)
  OBVIOUS
<1> HIDE DEF walk, step
<1>6. g[0] = <<h>>
  BY <1>2, <1>3
<1>7. ASSUME NEW k \in Nat, k # 0 PROVE g[k] = step(g[k - 1])
  <2>0. upto(k - 1) \in 1..n
    BY <1>2, <1>7
  <2>1. PICK m \in 1..n : m = upto(k - 1)
    BY <2>0
  <2>2. g[k - 1] = Prefix(s, m) /\ Len(Prefix(s, m)) = m /\ Prefix(s, m)[m] = s[m]
    BY <1>3, <1>7, <2>1
  <2>3. CASE k < n
    <3>1. m = k /\ k \in 1..(n - 1) /\ k + 1 \in 1..n /\ 1 \in 1..n /\ upto(k) = k + 1
      BY <1>7, <2>1, <2>3
    <3>2. nx[s[k]] = s[k + 1]
      BY <1>1, <3>1
    <3>3. s[k + 1] # h
      BY <1>1, <1>2, <3>1
    <3>4. Append(Prefix(s, k), s[k + 1]) = Prefix(s, k + 1)
      BY <1>3, <3>1
    <3>5. g[k] = Prefix(s, k + 1)
      BY <3>1
    <3> HIDE DEF g
    <3> QED BY <2>2, <3>1, <3>2, <3>3, <3>4, <3>5 DEF step
  <2>4. CASE ~(k < n)
    <3>1. m = n /\ upto(k) = n
      BY <1>2, <1>7, <2>1, <2>4
    <3>2. nx[s[n]] = h
      BY <1>1, <1>2
    <3>3. g[k] = Prefix(s, n)
      BY <3>1
    <3> HIDE DEF g
    <3> QED BY <2>2, <3>1, <3>2, <3>3 DEF step
  <2> QED BY <2>3, <2>4
<1>8. g = F(g)
  <2>1. \A k \in Nat : F(g)[k] = IF k = 0 THEN <<h>> ELSE step(g[k - 1])
    OBVIOUS
  <2>2. \A k \in Nat : F(g)[k] = g[k]
    <3> HIDE DEF g, F
    <3> QED BY <1>6, <1>7, <2>1
  <2> QED BY <2>2
<1>9. walk = F(walk)
  <2> HIDE DEF F, g
  <2> QED BY <1>5, <1>8, Zenon
<1>10. walk[0] = <<h>> /\ \A k \in Nat : k # 0 => walk[k] = step(walk[k - 1])
  <2>1. PICK v : v = walk
    OBVIOUS
  <2>2. \A k \in Nat : F(v)[k] = IF k = 0 THEN <<h>> ELSE step(v[k - 1])
    OBVIOUS
  <2>3. v = F(v)
    <3> HIDE DEF F
    <3> QED BY <1>9, <2>1
  <2> HIDE DEF F
  <2>4. \A k \in Nat : v[k] = IF k = 0 THEN <<h>> ELSE step(v[k - 1])
    BY <2>2, <2>3
  <2> QED BY <2>1, <2>4
<1> HIDE DEF g, F
<1>11. ASSUME NEW c \in Nat PROVE walk[c] = g[c]
  <2> DEFINE bad == {k \in Nat : walk[k] # g[k]}
  <2> SUFFICES ASSUME bad # {} PROVE FALSE
    OBVIOUS
  <2>1. bad \in SUBSET Nat
    OBVIOUS
  <2>2. PICK k \in bad : \A j \in bad : k <= j
    BY <2>1, LeastNumber
  <2>3. k # 0 /\ k \in Nat
    BY <1>6, <1>10, <2>2
  <2>4. k - 1 \in Nat /\ k - 1 \notin bad
    BY <2>2, <2>3
  <2>5. walk[k - 1] = g[k - 1]
    BY <2>4
  <2> QED BY <1>7, <1>10, <2>2, <2>3, <2>5
<1>12. g[Cardinality(Thread)] = s
  BY <1>2, <1>3 DEF g
<1> QED BY <1>4, <1>11, <1>12

\* A chain is not longer than there are threads.
LEMMA ChainLength ==
  ASSUME NEW A, NEW s, NEW nx, NEW h, Chain(s, nx, h, A), IsFiniteSet(Thread)
  PROVE  Cardinality(Thread) \in Nat /\ Len(s) <= Cardinality(Thread) + 1
<1>1. s \in Seq(TCB) /\ Len(s) \in Nat /\ s \in [1..Len(s) -> TCB]
  BY LenProperties DEF Chain
<1>2. IsFiniteSet(TCB) /\ Cardinality(Thread) \in Nat
      /\ Cardinality(TCB) = Cardinality(Thread) + 1
  <2>1. Idle \notin Thread
    BY SchedAssumption
  <2>2. IsFiniteSet(Thread \cup {Idle})
    BY FS_AddElement, Zenon
  <2>3. Cardinality(Thread \cup {Idle}) = Cardinality(Thread) + 1
    BY <2>1, FS_AddElement
  <2>4. Cardinality(Thread) \in Nat
    BY FS_CardinalityType
  <2> QED BY <2>2, <2>3, <2>4 DEF TCB
<1>3. s \in Injection(1..Len(s), TCB)
  BY <1>1 DEF Chain, Injection, IsInjective
<1>4. Cardinality(1..Len(s)) <= Cardinality(TCB)
  BY <1>2, <1>3, FS_Injection
<1>5. Cardinality(1..Len(s)) = Len(s)
  <2>1. Cardinality(1..Len(s)) = IF 1 > Len(s) THEN 0 ELSE Len(s) - 1 + 1
    BY <1>1, FS_Interval
  <2> QED BY <1>1, <2>1
<1> QED BY <1>2, <1>4, <1>5

(***************************************************************************)
(* The runqueues q hold the threads on[p] of each priority p in the order  *)
(* Q[p].                                                                   *)
(***************************************************************************)
Order(q, on, Q) ==
  /\ Q \in [Prio -> Seq(TCB)]
  /\ \A p \in Prio : Chain(Q[p], q.next, q.head[p], on[p])

LEMMA OrderMembers ==
  ASSUME NEW q, NEW on, NEW Q, Order(q, on, Q), NEW p \in Prio
  PROVE  Q[p] \in Seq(TCB) /\ DOMAIN Q[p] = 1..Len(Q[p]) /\ Fifo!ToSet(Q[p]) = on[p]
<1>1. Q[p] \in Seq(TCB) /\ Chain(Q[p], q.next, q.head[p], on[p])
  BY DEF Order
<1>2. DOMAIN Q[p] = 1..Len(Q[p])
  BY <1>1, LenProperties, Zenon
<1>3. PICK s : s = Q[p]
  OBVIOUS
<1>4. {s[i] : i \in 1..Len(s)} = on[p]
  BY <1>1, <1>3 DEF Chain
<1>5. Fifo!ToSet(s) = {s[i] : i \in DOMAIN s}
  BY DEF Fifo!ToSet
<1> QED BY <1>1, <1>2, <1>3, <1>4, <1>5

LEMMA OrderEmpty ==
  ASSUME NEW q, NEW on, NEW Q, Order(q, on, Q), NEW p \in Prio
  PROVE  Q[p] = << >> <=> on[p] = {}
<1>1. Q[p] \in Seq(TCB) /\ Chain(Q[p], q.next, q.head[p], on[p]) /\ Len(Q[p]) \in Nat
  BY LenProperties DEF Order
<1>2. Q[p] = << >> <=> Len(Q[p]) = 0
  BY <1>1, EmptySeq
<1>3. Len(Q[p]) = 0 <=> on[p] = {}
  <2>1. ASSUME Len(Q[p]) # 0 PROVE on[p] # {}
    <3>1. 1 \in 1..Len(Q[p])
      BY <1>1, <2>1
    <3> QED BY <1>1, <3>1 DEF Chain
  <2>2. ASSUME on[p] # {} PROVE Len(Q[p]) # 0
    BY <1>1, <2>2 DEF Chain
  <2> QED BY <2>1, <2>2
<1> QED BY <1>2, <1>3

\* The queues are what walking along the links gives.
LEMMA OrderWalked ==
  ASSUME NEW q, NEW on \in Contents, NEW Q, Rings(q, on), Order(q, on, Q), IsFiniteSet(Thread)
  PROVE  [p \in Prio |-> Queue(q, p)] = Q
<1>1. ASSUME NEW p \in Prio PROVE Queue(q, p) = Q[p]
  <2>1. Chain(Q[p], q.next, q.head[p], on[p])
    BY DEF Order
  <2>2. CASE on[p] = {}
    <3>1. q.head[p] = NoTCB
      BY <2>2 DEF Rings
    <3>2. Q[p] = << >>
      BY <2>2, OrderEmpty
    <3> QED BY <3>1, <3>2 DEF Queue
  <2>3. CASE on[p] # {}
    <3>1. Q[p] # << >>
      BY <2>3, OrderEmpty
    <3>2. Cardinality(Thread) \in Nat /\ Len(Q[p]) <= Cardinality(Thread) + 1
      BY <2>1, ChainLength
    <3>3. NoTCB \notin TCB
      BY SchedAssumption
    <3> QED BY <2>1, <3>1, <3>2, <3>3, WalkChain
  <2> QED BY <2>2, <2>3
<1>2. Q = [p \in Prio |-> Q[p]]
  BY DEF Order
<1> QED BY <1>1, <1>2

\* What reschedule picks is the first thread of the highest queue.
LEMMA PickIsBest ==
  ASSUME NEW q \in Queues, NEW on \in Contents, NEW Q, Rings(q, on), Order(q, on, Q)
  PROVE  Fifo!Best(Q) = Pick(q)
<1>1. {p \in Prio : Q[p] # << >>} = q.prioset
  BY OrderEmpty DEF Rings
<1>2. Fifo!Best(Q) = IF q.prioset = {} THEN Idle ELSE Head(Q[Top(q.prioset)])
  <2> DEFINE used == {p \in Prio : Q[p] # << >>}
  <2>1. Fifo!Best(Q) = IF used = {} THEN Idle ELSE Head(Q[Top(used)])
    BY Zenon DEF Fifo!Best, Top
  <2>2. used = q.prioset
    BY <1>1
  <2> HIDE DEF used
  <2> QED BY <2>1, <2>2
<1>3. ASSUME q.prioset # {} PROVE Head(Q[Top(q.prioset)]) = q.head[Top(q.prioset)]
  <2>1. PICK p : p = Top(q.prioset)
    OBVIOUS
  <2>2. p \in Prio /\ on[p] # {}
    BY <1>3, <2>1, PickRings
  <2>3. Q[p] \in Seq(TCB) /\ Chain(Q[p], q.next, q.head[p], on[p]) /\ Q[p] # << >>
    BY <2>2, OrderEmpty DEF Order
  <2>4. Len(Q[p]) # 0 /\ Head(Q[p]) = Q[p][1]
    BY <2>3, EmptySeq
  <2> QED BY <2>1, <2>3, <2>4 DEF Chain
<1> QED BY <1>2, <1>3 DEF Pick

\* insertRunnable puts the thread at the end of a queue.
LEMMA InsertOrder ==
  ASSUME NEW q \in Queues, NEW on \in Contents, NEW Q, Rings(q, on), Order(q, on, Q),
         NEW p \in Prio, NEW t \in TCB, \A r \in Prio : t \notin on[r]
  PROVE  Order(InsertRunnable(q, t, p), [on EXCEPT ![p] = @ \cup {t}],
               [Q EXCEPT ![p] = Append(@, t)])
<1> DEFINE n == InsertRunnable(q, t, p)
           on2 == [on EXCEPT ![p] = @ \cup {t}]
           Q2 == [Q EXCEPT ![p] = Append(@, t)]
<1>1. NoTCB \notin TCB
  BY SchedAssumption
<1>2. on2[p] = on[p] \cup {t} /\ \A r \in Prio : r # p => on2[r] = on[r]
  BY DEF Contents
<1>3. /\ Q2 \in [Prio -> Seq(TCB)]
      /\ Q2[p] = Append(Q[p], t) /\ \A r \in Prio : r # p => Q2[r] = Q[r]
  <2>1. Q \in [Prio -> Seq(TCB)] /\ Append(Q[p], t) \in Seq(TCB)
    BY AppendProperties DEF Order
  <2> QED BY <2>1
<1>4. \A r \in Prio : Chain(Q[r], q.next, q.head[r], on[r])
  BY DEF Order
<1>5. CASE on[p] = {}
  <2>1. q.head[p] = NoTCB
    BY <1>5 DEF Rings
  <2>2. n = [head |-> [q.head EXCEPT ![p] = t], next |-> [q.next EXCEPT ![t] = t],
             prev |-> [q.prev EXCEPT ![t] = t], prioset |-> q.prioset \cup {p}]
    BY <2>1 DEF InsertRunnable, InsertLinks, InsertHead, Links
  <2>3. n.next[t] = t /\ n.head[p] = t /\ \A r \in Prio : r # p => n.head[r] = q.head[r]
    BY <2>2 DEF Queues
  <2>4. ASSUME NEW r \in Prio, r # p PROVE Chain(Q[r], n.next, q.head[r], on[r])
    <3>1. \A x \in on[r] : n.next[x] = q.next[x]
      BY <2>2 DEF Queues, Contents
    <3> QED BY <1>4, <3>1, ChainSame
  <2>5. Chain(Append(Q[p], t), n.next, t, {t})
    BY <1>4, <1>5, <2>3, ChainFirst
  <2> HIDE DEF n, on2, Q2
  <2>6. ASSUME NEW r \in Prio PROVE Chain(Q2[r], n.next, n.head[r], on2[r])
    <3>1. CASE r = p
      BY <1>2, <1>3, <1>5, <2>3, <2>5, <3>1
    <3>2. CASE r # p
      BY <1>2, <1>3, <2>3, <2>4, <3>2
    <3> QED BY <3>1, <3>2
  <2>7. Order(n, on2, Q2)
    BY <1>3, <2>6 DEF Order
  <2> QED BY <2>7 DEF n, on2, Q2
<1>6. CASE on[p] # {}
  <2> DEFINE h == q.head[p]
             l == q.prev[h]
  <2>1. h \in on[p] /\ h # NoTCB /\ l \in on[p] /\ q.next[l] = h /\ l # t /\ h # t
    BY <1>1, <1>6 DEF Rings, Ring, Contents
  <2>2. n = [head |-> [q.head EXCEPT ![p] = h],
             next |-> [q.next EXCEPT ![l] = t, ![t] = h],
             prev |-> [q.prev EXCEPT ![t] = l, ![h] = t],
             prioset |-> q.prioset]
    BY <2>1 DEF InsertRunnable, InsertLinks, InsertHead, Links
  <2>3. \A r \in Prio : n.head[r] = q.head[r]
    BY <2>2 DEF Queues
  <2>4. /\ n.next[l] = t /\ n.next[t] = h
        /\ \A x \in TCB : x # l /\ x # t => n.next[x] = q.next[x]
    BY <2>1, <2>2 DEF Queues, Contents
  <2> HIDE DEF n, on2, Q2
  <2>5. ASSUME NEW r \in Prio, r # p PROVE Chain(Q[r], n.next, q.head[r], on[r])
    <3>1. \A x \in on[r] : x \in TCB /\ x # l /\ x # t
      BY <2>1, <2>5 DEF Contents
    <3>2. \A x \in on[r] : n.next[x] = q.next[x]
      BY <2>4, <3>1
    <3> QED BY <1>4, <3>2, ChainSame
  <2>6. Chain(Append(Q[p], t), n.next, h, on[p] \cup {t})
    <3>1. \A x \in on[p] : x # l => n.next[x] = q.next[x]
      BY <2>4 DEF Contents
    <3>2. t \in TCB \ on[p] /\ Chain(Q[p], q.next, h, on[p]) /\ l \in on[p] /\ q.next[l] = h
          /\ n.next[l] = t /\ n.next[t] = h
      BY <1>4, <2>1, <2>4
    <3> HIDE DEF h, l
    <3> QED BY ONLY <3>1, <3>2, ChainAppend
  <2>7. ASSUME NEW r \in Prio PROVE Chain(Q2[r], n.next, n.head[r], on2[r])
    <3>1. CASE r = p
      BY <1>2, <1>3, <2>3, <2>6, <3>1
    <3>2. CASE r # p
      BY <1>2, <1>3, <2>3, <2>5, <3>2
    <3> QED BY <3>1, <3>2
  <2>8. Order(n, on2, Q2)
    BY <1>3, <2>7 DEF Order
  <2> QED BY <2>8 DEF n, on2, Q2
<1> QED BY <1>5, <1>6

\* Q2 is Q without the thread t, which Q has at priority p.
Dropped(Q, Q2, p, t) ==
  /\ Q2 \in [Prio -> Seq(TCB)]
  /\ \A r \in Prio : r # p => Q2[r] = Q[r]
  /\ \E k \in 1..Len(Q[p]) : Q[p][k] = t /\ Q2[p] = Fifo!RemoveAt(Q[p], k)

LEMMA WithoutMember ==
  ASSUME NEW q, NEW on \in Contents, NEW Q, Order(q, on, Q), NEW p \in Prio, NEW t \in on[p]
  PROVE  Dropped(Q, Fifo!Without(Q, t), p, t)
<1>1. \A r \in Prio : /\ Q[r] \in Seq(TCB) /\ DOMAIN Q[r] = 1..Len(Q[r])
                      /\ Fifo!ToSet(Q[r]) = on[r]
  BY OrderMembers
<1>2. \A r \in Prio : r # p => t \notin on[r]
  BY DEF Contents
<1>3. \E k \in DOMAIN Q[p] : Q[p][k] = t
  BY <1>1 DEF Order, Chain
<1>4. PICK k : k = CHOOSE i \in DOMAIN Q[p] : Q[p][i] = t
  OBVIOUS
<1>5. k \in 1..Len(Q[p]) /\ Q[p][k] = t
  BY <1>1, <1>3, <1>4
<1>6. Fifo!RemoveAt(Q[p], k) \in Seq(TCB)
  BY <1>1, <1>5, Removed
<1>7. Fifo!Without(Q, t) = [r \in Prio |-> IF r = p THEN Fifo!RemoveAt(Q[p], k) ELSE Q[r]]
  <2> DEFINE G(r) == IF t \in Fifo!ToSet(Q[r])
                     THEN Fifo!RemoveAt(Q[r], CHOOSE i \in DOMAIN Q[r] : Q[r][i] = t)
                     ELSE Q[r]
  <2>1. Fifo!Without(Q, t) = [r \in Prio |-> G(r)]
    BY DEF Fifo!Without
  <2>2. ASSUME NEW r \in Prio PROVE G(r) = IF r = p THEN Fifo!RemoveAt(Q[p], k) ELSE Q[r]
    <3>1. CASE r = p
      BY <1>1, <1>4, <3>1
    <3>2. CASE r # p
      BY <1>1, <1>2, <3>2
    <3> QED BY <3>1, <3>2
  <2> HIDE DEF G
  <2> QED BY <2>1, <2>2
<1> QED BY <1>1, <1>5, <1>6, <1>7 DEF Dropped

LEMMA WithoutStranger ==
  ASSUME NEW q, NEW on, NEW Q, Order(q, on, Q), NEW t, \A r \in Prio : t \notin on[r]
  PROVE  Fifo!Without(Q, t) = Q
<1>1. \A r \in Prio : t \notin Fifo!ToSet(Q[r])
  BY OrderMembers
<1>2. Q = [r \in Prio |-> Q[r]]
  BY DEF Order
<1> QED BY <1>1, <1>2 DEF Fifo!Without

\* removeRunnable takes the thread out of its queue.
LEMMA RemoveOrder ==
  ASSUME NEW q \in Queues, NEW on \in Contents, NEW Q, Rings(q, on), Order(q, on, Q),
         NEW p \in Prio, NEW t \in on[p]
  PROVE  Order(RemoveRunnable(q, t, p), [on EXCEPT ![p] = @ \ {t}], Fifo!Without(Q, t))
<1> DEFINE n == RemoveRunnable(q, t, p)
           on2 == [on EXCEPT ![p] = @ \ {t}]
<1>1. NoTCB \notin TCB /\ t \in TCB
  BY SchedAssumption DEF Contents
<1>2. on2[p] = on[p] \ {t} /\ \A r \in Prio : r # p => on2[r] = on[r] /\ t \notin on[r]
  BY DEF Contents
<1>3. Ring(q.next, q.prev, on[p])
  BY DEF Rings
<1>a. PICK Q2 : Q2 = Fifo!Without(Q, t)
  OBVIOUS
<1>b. /\ Q2 \in [Prio -> Seq(TCB)]
      /\ \A r \in Prio : r # p => Q2[r] = Q[r]
      /\ \E k \in 1..Len(Q[p]) : Q[p][k] = t /\ Q2[p] = Fifo!RemoveAt(Q[p], k)
  <2>1. Dropped(Q, Fifo!Without(Q, t), p, t)
    BY WithoutMember
  <2> QED BY ONLY <1>a, <2>1 DEF Dropped
<1>c. PICK k \in 1..Len(Q[p]) : Q[p][k] = t /\ Q2[p] = Fifo!RemoveAt(Q[p], k)
  BY <1>b
<1>4. /\ Q2 \in [Prio -> Seq(TCB)] /\ Q2 = Fifo!Without(Q, t)
      /\ \A r \in Prio : r # p => Q2[r] = Q[r]
      /\ k \in 1..Len(Q[p]) /\ Q[p][k] = t /\ Q2[p] = Fifo!RemoveAt(Q[p], k)
  BY <1>a, <1>b, <1>c
<1>5. \A r \in Prio : Chain(Q[r], q.next, q.head[r], on[r])
  BY DEF Order
<1>6. CASE q.next[t] = t
  <2>1. on[p] = {t}
    BY <1>3, <1>6, RingAlone
  <2>2. n = [head |-> [q.head EXCEPT ![p] = NoTCB], next |-> q.next,
             prev |-> q.prev, prioset |-> q.prioset \ {p}]
    BY <1>6 DEF RemoveRunnable, RemoveLinks, RemoveHead, Links
  <2>3. n.next = q.next /\ \A r \in Prio : r # p => n.head[r] = q.head[r]
    BY <2>2 DEF Queues
  <2>4. Q2[p] = << >>
    <3>1. PICK s : s = Q[p]
      OBVIOUS
    <3>2. s \in Seq(TCB) /\ Len(s) \in Nat /\ Chain(s, q.next, q.head[p], {t})
      BY <1>5, <2>1, <3>1, LenProperties DEF Order
    <3>3. 1 \in 1..Len(s) /\ Len(s) \in 1..Len(s)
      BY <1>4, <3>1, <3>2
    <3>4. Len(s) = 1
      BY <3>2, <3>3 DEF Chain
    <3>5. Fifo!RemoveAt(s, k) \in Seq(TCB) /\ Len(Fifo!RemoveAt(s, k)) = Len(s) - 1
      BY <1>4, <3>1, <3>2, Removed
    <3> QED BY <1>4, <3>1, <3>4, <3>5, EmptySeq
  <2>5. Chain(<< >>, n.next, n.head[p], {})
    BY EmptySeq DEF Chain
  <2> HIDE DEF n, on2
  <2>6. ASSUME NEW r \in Prio PROVE Chain(Q2[r], n.next, n.head[r], on2[r])
    <3>1. CASE r = p
      BY <1>2, <2>1, <2>4, <2>5, <3>1
    <3>2. CASE r # p
      BY <1>2, <1>4, <1>5, <2>3, <3>2
    <3> QED BY <3>1, <3>2
  <2>7. Order(n, on2, Q2)
    BY <1>4, <2>6 DEF Order
  <2> QED BY <1>4, <2>7 DEF n, on2
<1>7. CASE q.next[t] # t
  <2> DEFINE y == q.next[t]
             x == q.prev[t]
             h == IF q.head[p] = t THEN y ELSE q.head[p]
  <2>1. x \in on[p] /\ y \in on[p] /\ x \in TCB /\ y \in TCB /\ q.next[x] = t
    BY <1>3 DEF Ring, Contents
  <2>2. n = [head |-> [q.head EXCEPT ![p] = h], next |-> [q.next EXCEPT ![x] = y],
             prev |-> [q.prev EXCEPT ![y] = x], prioset |-> q.prioset]
    <3>1. h # NoTCB
      BY <1>1, <2>1 DEF Rings, Contents
    <3>2. RemoveHead(Links(q), q.head[p], t) = h
      BY <1>7 DEF RemoveHead, Links
    <3>3. RemoveLinks(Links(q), t) = [next |-> [q.next EXCEPT ![x] = y],
                                      prev |-> [q.prev EXCEPT ![y] = x]]
      BY <1>7 DEF RemoveLinks, Links
    <3> QED BY <3>1, <3>2, <3>3 DEF RemoveRunnable
  <2>3. n.head[p] = h /\ \A r \in Prio : r # p => n.head[r] = q.head[r]
    BY <2>2 DEF Queues
  <2>4. n.next[x] = y /\ \A z \in TCB : z # x => n.next[z] = q.next[z]
    BY <2>1, <2>2 DEF Queues
  <2> HIDE DEF n, on2
  <2>5. Chain(Q2[p], n.next, h, on[p] \ {t})
    <3>1. /\ Chain(Q[p], q.next, q.head[p], on[p]) /\ t = Q[p][k] /\ q.next[t] # t
          /\ x \in on[p] /\ q.next[x] = t /\ n.next[x] = q.next[t]
          /\ h = IF q.head[p] = t THEN q.next[t] ELSE q.head[p]
      BY <1>4, <1>5, <1>7, <2>1, <2>4
    <3>2. \A z \in on[p] : z # x => n.next[z] = q.next[z]
      BY <2>4 DEF Contents
    <3> HIDE DEF h, x, y
    <3>3. PICK s, nx, nx2, hd, A, l, h2 :
            /\ s = Q[p] /\ nx = q.next /\ nx2 = n.next /\ hd = q.head[p]
            /\ A = on[p] /\ l = x /\ h2 = h
      OBVIOUS
    <3>4. /\ Chain(s, nx, hd, A) /\ k \in 1..Len(s) /\ t = s[k] /\ nx[t] # t
          /\ l \in A /\ nx[l] = t /\ nx2[l] = nx[t]
          /\ \A z \in A : z # l => nx2[z] = nx[z]
          /\ (hd = t => h2 = nx[t]) /\ (hd # t => h2 = hd)
      BY <3>1, <3>2, <3>3
    <3>5. Skipped(s, nx, hd, A, k, l, nx2, h2) /\ Chain(s, nx, hd, A)
      BY ONLY <3>4 DEF Skipped
    <3>6. Chain(Fifo!RemoveAt(s, k), nx2, h2, A \ {s[k]})
      BY ONLY <3>5, ChainRemove
    <3> QED BY <1>4, <3>3, <3>4, <3>6
  <2>6. ASSUME NEW r \in Prio, r # p PROVE Chain(Q[r], n.next, q.head[r], on[r])
    <3>1. \A z \in on[r] : z \in TCB /\ z # x
      BY <2>1, <2>6 DEF Contents
    <3>2. \A z \in on[r] : n.next[z] = q.next[z]
      BY <2>4, <3>1
    <3> QED BY <1>5, <3>2, ChainSame
  <2>7. ASSUME NEW r \in Prio PROVE Chain(Q2[r], n.next, n.head[r], on2[r])
    <3>1. CASE r = p
      BY <1>2, <2>3, <2>5, <3>1
    <3>2. CASE r # p
      BY <1>2, <1>4, <2>3, <2>6, <3>2
    <3> QED BY <3>1, <3>2
  <2>8. Order(n, on2, Q2)
    BY <1>4, <2>7 DEF Order
  <2> QED BY <1>4, <2>8 DEF n, on2
<1> QED BY <1>6, <1>7

\* The queue of t begins after t, and t is last.
LEMMA RotateOrder ==
  ASSUME NEW q \in Queues, NEW on \in Contents, NEW Q, Order(q, on, Q),
         NEW p \in Prio, NEW t \in on[p]
  PROVE  \E i \in DOMAIN Q[p] :
           /\ Q[p][i] = t
           /\ Order([q EXCEPT !.head[p] = q.next[t]], on, [Q EXCEPT ![p] = RotateAt(@, i)])
<1> DEFINE n == [q EXCEPT !.head[p] = q.next[t]]
<1>1. Q[p] \in Seq(TCB) /\ DOMAIN Q[p] = 1..Len(Q[p])
  BY OrderMembers
<1>2. \A r \in Prio : Chain(Q[r], q.next, q.head[r], on[r])
  BY DEF Order
<1>3. PICK i \in 1..Len(Q[p]) : Q[p][i] = t
  BY <1>2 DEF Chain
<1>4. PICK Q2 : Q2 = [Q EXCEPT ![p] = RotateAt(@, i)]
  OBVIOUS
<1>5. RotateAt(Q[p], i) \in Seq(TCB)
  BY <1>1, Rotation
<1>6. /\ Q2 \in [Prio -> Seq(TCB)] /\ Q2[p] = RotateAt(Q[p], i)
      /\ \A r \in Prio : r # p => Q2[r] = Q[r]
  BY <1>4, <1>5 DEF Order
<1>7. Chain(RotateAt(Q[p], i), q.next, q.next[Q[p][i]], on[p])
  BY <1>2, ChainRotate
<1>8. n.next = q.next /\ n.head[p] = q.next[t] /\ \A r \in Prio : r # p => n.head[r] = q.head[r]
  BY DEF Queues
<1> HIDE DEF n
<1>9. ASSUME NEW r \in Prio PROVE Chain(Q2[r], n.next, n.head[r], on[r])
  <2>1. CASE r = p
    BY <1>3, <1>6, <1>7, <1>8, <2>1
  <2>2. CASE r # p
    BY <1>2, <1>6, <1>8, <2>2
  <2> QED BY <2>1, <2>2
<1>10. Order(n, on, Q2)
  BY <1>6, <1>9 DEF Order
<1> QED BY <1>1, <1>3, <1>4, <1>10 DEF n

\* It makes no difference whether the one thread leaves before or after
\* the other is appended.
LEMMA RemoveAppend ==
  ASSUME NEW s \in Seq(TCB), NEW u \in TCB, NEW k \in 1..Len(s)
  PROVE  Fifo!RemoveAt(Append(s, u), k) = Append(Fifo!RemoveAt(s, k), u)
<1>0. PICK n \in Nat : Len(s) = n
  BY LenProperties
<1>1. PICK a : a = Append(s, u)
  OBVIOUS
<1>2. /\ a \in Seq(TCB) /\ Len(a) = n + 1 /\ a[n + 1] = u
      /\ \A i \in 1..n : a[i] = s[i]
  <2>1. /\ Append(s, u) \in Seq(TCB) /\ Len(Append(s, u)) = Len(s) + 1
        /\ \A i \in 1..Len(s) : Append(s, u)[i] = s[i]
        /\ Append(s, u)[Len(s) + 1] = u
    BY ONLY s \in Seq(TCB), u \in TCB, AppendProperties
  <2> QED BY <1>0, <1>1, <2>1
<1>3. PICK r : r = Fifo!RemoveAt(s, k)
  OBVIOUS
<1>4. /\ r \in Seq(TCB) /\ Len(r) = Len(s) - 1
      /\ \A i \in 1..(k - 1) : r[i] = s[i]
      /\ \A i \in k..(Len(s) - 1) : r[i] = s[i + 1]
  BY <1>3, Removed
<1>5. PICK b : b = Append(r, u)
  OBVIOUS
<1>6. /\ b \in Seq(TCB) /\ Len(b) = n /\ b[n] = u
      /\ \A i \in 1..(n - 1) : b[i] = r[i]
  <2>1. /\ Append(r, u) \in Seq(TCB) /\ Len(Append(r, u)) = Len(r) + 1
        /\ \A i \in 1..Len(r) : Append(r, u)[i] = r[i]
        /\ Append(r, u)[Len(r) + 1] = u
    BY ONLY <1>4, u \in TCB, AppendProperties
  <2>2. Len(r) = n - 1 /\ Len(r) + 1 = n
    BY <1>0, <1>4
  <2> QED BY <1>5, <2>1, <2>2
<1>7. PICK c : c = Fifo!RemoveAt(a, k)
  OBVIOUS
<1>8. /\ c \in Seq(TCB) /\ Len(c) = n
      /\ \A i \in 1..(k - 1) : c[i] = a[i]
      /\ \A i \in k..n : c[i] = a[i + 1]
  <2>1. k \in 1..Len(a)
    BY <1>0, <1>2
  <2>2. /\ Fifo!RemoveAt(a, k) \in Seq(TCB) /\ Len(Fifo!RemoveAt(a, k)) = Len(a) - 1
        /\ \A i \in 1..(k - 1) : Fifo!RemoveAt(a, k)[i] = a[i]
        /\ \A i \in k..(Len(a) - 1) : Fifo!RemoveAt(a, k)[i] = a[i + 1]
    BY ONLY <1>2, <2>1, Removed, Zenon
  <2>3. Len(a) - 1 = n
    BY <1>2
  <2> QED BY <1>7, <2>2, <2>3
<1>9. k \in 1..n
  BY <1>0
<1>10. ASSUME NEW i \in 1..n PROVE c[i] = b[i]
  <2>1. CASE i < k
    <3>1. i \in 1..(k - 1) /\ i \in 1..n /\ i \in 1..(n - 1)
      BY <1>9, <2>1
    <3> QED BY <1>2, <1>4, <1>6, <1>8, <3>1
  <2>2. CASE i >= k /\ i < n
    <3>1. i \in k..n /\ i + 1 \in 1..n /\ i \in 1..(n - 1) /\ i \in k..(Len(s) - 1)
      BY <1>0, <1>9, <2>2
    <3>2. c[i] = a[i + 1] /\ a[i + 1] = s[i + 1] /\ r[i] = s[i + 1] /\ b[i] = r[i]
      BY <1>2, <1>4, <1>6, <1>8, <3>1
    <3> QED BY <3>2
  <2>3. CASE i = n
    <3>1. i \in k..n
      BY <1>9, <2>3
    <3> QED BY <1>2, <1>6, <1>8, <2>3, <3>1
  <2> QED BY <1>9, <2>1, <2>2, <2>3
<1>11. c = b
  BY <1>6, <1>8, <1>10, SeqEqual
<1> QED BY <1>1, <1>3, <1>5, <1>7, <1>11

\* Q is the order of the threads on, and u is appended to the queue of p.
Appending(q, on, Q, p, u, q1, on1, Q1) ==
  /\ on \in Contents /\ Order(q, on, Q)
  /\ p \in Prio /\ u \in TCB /\ \A r \in Prio : u \notin on[r]
  /\ on1 = [on EXCEPT ![p] = @ \cup {u}]
  /\ Q1 = [Q EXCEPT ![p] = Append(@, u)]
  /\ Order(q1, on1, Q1)

Appended(Q, t, p, u) == [Fifo!Without(Q, t) EXCEPT ![p] = Append(@, u)]

LEMMA WithoutAppend ==
  ASSUME NEW q, NEW on, NEW Q, NEW p, NEW u, NEW q1, NEW on1, NEW Q1,
         Appending(q, on, Q, p, u, q1, on1, Q1), NEW t \in TCB, t # u
  PROVE  Fifo!Without(Q1, t) = Appended(Q, t, p, u)
<1>0. /\ on \in Contents /\ Order(q, on, Q)
      /\ p \in Prio /\ u \in TCB /\ \A r \in Prio : u \notin on[r]
      /\ on1 = [on EXCEPT ![p] = @ \cup {u}]
      /\ Q1 = [Q EXCEPT ![p] = Append(@, u)]
      /\ Order(q1, on1, Q1)
  BY DEF Appending
<1>1. /\ on1 \in Contents /\ on1[p] = on[p] \cup {u}
      /\ \A r \in Prio : r # p => on1[r] = on[r]
  BY <1>0 DEF Contents
<1>2. /\ Q \in [Prio -> Seq(TCB)] /\ Q1[p] = Append(Q[p], u)
      /\ \A r \in Prio : r # p => Q1[r] = Q[r]
      /\ Q1 \in [Prio -> Seq(TCB)]
  BY <1>0 DEF Order
<1>3. Order(q1, on1, Q1)
  BY <1>0
<1>4. CASE \A r \in Prio : t \notin on[r]
  <2>1. Fifo!Without(Q, t) = Q
    BY <1>0, <1>4, WithoutStranger
  <2>2. \A r \in Prio : t \notin on1[r]
    BY <1>1, <1>4
  <2>3. Fifo!Without(Q1, t) = Q1
    BY <1>3, <2>2, WithoutStranger
  <2> QED BY <1>0, <2>1, <2>3 DEF Appended
<1>5. ASSUME NEW o \in Prio, t \in on[o]
      PROVE  Fifo!Without(Q1, t) = Appended(Q, t, p, u)
  <2>1. t \in on1[o]
    BY <1>1, <1>5
  <2>2. PICK W : W = Fifo!Without(Q, t)
    OBVIOUS
  <2>3. PICK W1 : W1 = Fifo!Without(Q1, t)
    OBVIOUS
  <2>4. Dropped(Q, W, o, t)
    BY <1>0, <1>5, <2>2, WithoutMember
  <2>5. Dropped(Q1, W1, o, t)
    BY <1>1, <1>3, <2>1, <2>3, WithoutMember
  <2>6. PICK k \in 1..Len(Q[o]) : Q[o][k] = t /\ W[o] = Fifo!RemoveAt(Q[o], k)
    BY <2>4 DEF Dropped
  <2>7. PICK k1 \in 1..Len(Q1[o]) : Q1[o][k1] = t /\ W1[o] = Fifo!RemoveAt(Q1[o], k1)
    BY <2>5 DEF Dropped
  <2>8. \A i, j \in 1..Len(Q[o]) : Q[o][i] = Q[o][j] => i = j
    BY <1>0 DEF Order, Chain
  <2>u. u \in TCB
    BY <1>0
  <2>9. CASE o = p
    <3>1. PICK s \in Seq(TCB) : s = Q[p]
      BY <1>2
    <3>2. /\ Len(Append(s, u)) = Len(s) + 1 /\ Append(s, u)[Len(s) + 1] = u
          /\ \A i \in 1..Len(s) : Append(s, u)[i] = s[i]
      BY ONLY s \in Seq(TCB), <2>u, AppendProperties
    <3>3. PICK a : a = Append(s, u)
      OBVIOUS
    <3>4. k1 \in 1..(Len(s) + 1) /\ a[k1] = t /\ k1 # Len(s) + 1
      BY <1>2, <2>7, <2>9, <3>1, <3>2, <3>3
    <3>5. Len(s) \in Nat
      BY LenProperties
    <3>6. k1 \in 1..Len(s)
      BY <3>4, <3>5
    <3>7. k1 = k
      BY <2>6, <2>8, <2>9, <3>1, <3>2, <3>3, <3>4, <3>6
    <3>8. Fifo!RemoveAt(Append(s, u), k) = Append(Fifo!RemoveAt(s, k), u)
      BY ONLY s \in Seq(TCB), <2>u, <3>6, <3>7, RemoveAppend
    <3>9. W1[p] = Append(W[p], u)
      BY <1>2, <2>6, <2>7, <2>9, <3>1, <3>7, <3>8
    <3>10. \A r \in Prio : r # p => W1[r] = W[r]
      BY <1>2, <2>4, <2>5, <2>9 DEF Dropped
    <3>11. W1 \in [Prio -> Seq(TCB)] /\ W \in [Prio -> Seq(TCB)]
      BY <2>4, <2>5 DEF Dropped
    <3>12. W1 = [W EXCEPT ![p] = Append(@, u)]
      BY <3>9, <3>10, <3>11
    <3> QED BY <2>2, <2>3, <3>12 DEF Appended
  <2>10. CASE o # p
    <3>1. k1 = k /\ W1[o] = W[o]
      BY <1>2, <2>6, <2>7, <2>8, <2>10
    <3>2. W1[p] = Append(W[p], u)
      BY <1>0, <1>2, <2>4, <2>5, <2>10 DEF Dropped
    <3>3. \A r \in Prio : r # p => W1[r] = W[r]
      BY <1>2, <2>4, <2>5, <3>1 DEF Dropped
    <3>4. W1 \in [Prio -> Seq(TCB)] /\ W \in [Prio -> Seq(TCB)]
      BY <2>4, <2>5 DEF Dropped
    <3>5. W1 = [W EXCEPT ![p] = Append(@, u)]
      BY <3>2, <3>3, <3>4
    <3> QED BY <2>2, <2>3, <3>5 DEF Appended
  <2> QED BY <2>9, <2>10
<1> QED BY <1>4, <1>5

(***************************************************************************)
(* The same for the threads that are runnable, as their status changes.    *)
(***************************************************************************)
\* The runqueues q are good and in the order Q.
Listed(q, st, pr, Q) == Good(q, st, pr) /\ Order(q, Ready(st, pr), Q)

\* A thread stops being runnable, or was not.
LEMMA LeaveListed ==
  ASSUME NEW q, NEW st, NEW pr, NEW Q, Listed(q, st, pr, Q), NEW t \in TCB,
         NEW v \in Status \ {"Runnable"}, NEW n,
         n = IF st[t] = "Runnable" THEN RemoveRunnable(q, t, pr[t]) ELSE q
  PROVE  Listed(n, [st EXCEPT ![t] = v], pr, Fifo!Without(Q, t))
<1> DEFINE on == Ready(st, pr)
           st2 == [st EXCEPT ![t] = v]
<1>1. /\ q \in Queues /\ st \in Statuses /\ pr \in Prios /\ Rings(q, on) /\ Order(q, on, Q)
      /\ on \in Contents
  BY ReadyContents DEF Listed, Good
<1>2. st2 \in Statuses
  BY <1>1 DEF Statuses
<1>3. CASE st[t] = "Runnable"
  <2>1. pr[t] \in Prio /\ t \in on[pr[t]]
    BY <1>1, <1>3 DEF Ready, Prios
  <2>2. Ready(st2, pr) = [on EXCEPT ![pr[t]] = @ \ {t}]
    BY <1>1, <1>3 DEF Ready, Statuses, Prios
  <2>3. n \in Queues /\ Rings(n, Ready(st2, pr))
    BY <1>1, <1>3, Unready
  <2> HIDE DEF on, st2
  <2>4. Order(RemoveRunnable(q, t, pr[t]), [on EXCEPT ![pr[t]] = @ \ {t}], Fifo!Without(Q, t))
    BY <1>1, <2>1, RemoveOrder
  <2>5. Order(n, Ready(st2, pr), Fifo!Without(Q, t))
    BY <1>3, <2>2, <2>4
  <2> QED BY <1>1, <1>2, <2>3, <2>5 DEF Listed, Good, st2
<1>4. CASE st[t] # "Runnable"
  <2>1. Ready(st2, pr) = on
    BY <1>1, <1>4, StayUnready
  <2>2. \A r \in Prio : t \notin on[r]
    BY <1>4 DEF Ready
  <2> HIDE DEF on, st2
  <2>3. Fifo!Without(Q, t) = Q
    BY <1>1, <2>2, WithoutStranger
  <2> QED BY <1>1, <1>2, <1>4, <2>1, <2>3 DEF Listed, Good, st2
<1> QED BY <1>3, <1>4

\* A thread becomes runnable.
LEMMA JoinListed ==
  ASSUME NEW q, NEW st, NEW pr, NEW Q, Listed(q, st, pr, Q), NEW t \in TCB,
         st[t] # "Runnable"
  PROVE  Listed(InsertRunnable(q, t, pr[t]), [st EXCEPT ![t] = "Runnable"], pr,
                [Q EXCEPT ![pr[t]] = Append(@, t)])
<1> DEFINE on == Ready(st, pr)
           st2 == [st EXCEPT ![t] = "Runnable"]
           n == InsertRunnable(q, t, pr[t])
<1>1. /\ q \in Queues /\ st \in Statuses /\ pr \in Prios /\ Rings(q, on) /\ Order(q, on, Q)
      /\ on \in Contents
  BY ReadyContents DEF Listed, Good
<1>2. st2 \in Statuses
  BY <1>1 DEF Statuses, Status
<1>3. pr[t] \in Prio /\ \A r \in Prio : t \notin on[r]
  BY <1>1 DEF Ready, Prios
<1>4. Ready(st2, pr) = [on EXCEPT ![pr[t]] = @ \cup {t}]
  BY <1>1 DEF Ready, Statuses, Prios
<1>5. n \in Queues /\ Rings(n, Ready(st2, pr))
  BY <1>1, MakeReady
<1> HIDE DEF on, st2
<1>6. Order(n, [on EXCEPT ![pr[t]] = @ \cup {t}], [Q EXCEPT ![pr[t]] = Append(@, t)])
  BY <1>1, <1>3, InsertOrder
<1> HIDE DEF n
<1> QED BY <1>1, <1>2, <1>4, <1>5, <1>6 DEF Listed, Good, st2, n

\* A runnable thread moves to another priority.
LEMMA MoveListed ==
  ASSUME NEW q, NEW st, NEW pr, NEW Q, Listed(q, st, pr, Q), NEW t \in TCB,
         st[t] = "Runnable", NEW p \in Prio
  PROVE  Listed(InsertRunnable(RemoveRunnable(q, t, pr[t]), t, p), st, [pr EXCEPT ![t] = p],
                [Fifo!Without(Q, t) EXCEPT ![p] = Append(@, t)])
<1> DEFINE st1 == [st EXCEPT ![t] = "Halted"]
           on == Ready(st1, pr)
           m == RemoveRunnable(q, t, pr[t])
           pr2 == [pr EXCEPT ![t] = p]
<1>1. /\ q \in Queues /\ st \in Statuses /\ pr \in Prios /\ Rings(q, Ready(st, pr))
  BY DEF Listed, Good
<1>2. "Halted" \in Status \ {"Runnable"}
  BY DEF Status
<1>3. Listed(m, st1, pr, Fifo!Without(Q, t))
  BY <1>2, LeaveListed
<1>4. m \in Queues /\ Rings(m, on) /\ Order(m, on, Fifo!Without(Q, t)) /\ on \in Contents
  BY <1>3, ReadyContents DEF Listed, Good
<1>5. \A r \in Prio : t \notin on[r]
  BY <1>1 DEF Ready, Statuses
<1>6. Ready(st, pr2) = [on EXCEPT ![p] = @ \cup {t}]
  BY <1>1 DEF Ready, Statuses, Prios
<1>7. pr2 \in Prios
  BY <1>1 DEF Prios
<1> HIDE DEF on, m, st1, pr2
<1>8. Order(InsertRunnable(m, t, p), [on EXCEPT ![p] = @ \cup {t}],
            [Fifo!Without(Q, t) EXCEPT ![p] = Append(@, t)])
  BY <1>4, <1>5, InsertOrder
<1>9. /\ InsertRunnable(m, t, p) \in Queues
      /\ Rings(InsertRunnable(m, t, p), [on EXCEPT ![p] = @ \cup {t}])
  BY <1>4, <1>5, InsertRings
<1> QED BY <1>1, <1>6, <1>7, <1>8, <1>9 DEF Listed, Good, m, pr2

(***************************************************************************)
(* What a step does to the queues.                                         *)
(***************************************************************************)
Turned(Q, Q2) ==
  \E p \in Prio : \E i \in DOMAIN Q[p] :
    Q[p][i] = holder /\ Q2 = [Q EXCEPT ![p] = RotateAt(@, i)]

Joined(Q, Q2, t, u, p) ==
  /\ u = t \/ \A x \in Prio : u \notin Fifo!ToSet(Q[x])
  /\ Q2 = [Fifo!Without(Q, t) EXCEPT ![p] = Append(@, u)]

QueueStep(Q, Q2) ==
  \/ Q2 = Q
  \/ Turned(Q, Q2)
  \/ \E t \in TCB :
       Q2 = Fifo!Without(Q, t) \/ \E u \in Thread, p \in Prio : Joined(Q, Q2, t, u, p)

\* What is to be shown of every step.
Stepped(Q) == \E Q2 : Order(rq', Ready(status', prio'), Q2) /\ QueueStep(Q, Q2)

LEMMA SameQueues ==
  ASSUME NEW Q, Order(rq, Ready(status, prio), Q), rq' = rq,
         Ready(status', prio') = Ready(status, prio)
  PROVE  Stepped(Q)
<1>1. Order(rq', Ready(status', prio'), Q) /\ QueueStep(Q, Q)
  BY DEF QueueStep
<1> QED BY <1>1 DEF Stepped

\* A thread leaves, or was in none of the queues.
LEMMA LeaveStep ==
  ASSUME NEW Q, Listed(rq, status, prio, Q), NEW t \in TCB, NEW v \in Status \ {"Runnable"},
         rq' = HaltQueue(rq, t), status' = [status EXCEPT ![t] = v], prio' = prio
  PROVE  Stepped(Q)
<1>1. Listed(HaltQueue(rq, t), [status EXCEPT ![t] = v], prio, Fifo!Without(Q, t))
  BY LeaveListed DEF HaltQueue
<1>2. Order(rq', Ready(status', prio'), Fifo!Without(Q, t))
  BY <1>1 DEF Listed
<1>3. QueueStep(Q, Fifo!Without(Q, t))
  BY DEF QueueStep
<1> QED BY <1>2, <1>3 DEF Stepped

\* A thread becomes runnable, and another one leaves or was in no queue.
LEMMA JoinLeaveStep ==
  ASSUME NEW Q, Listed(rq, status, prio, Q), NEW u \in Thread, status[u] # "Runnable",
         NEW t \in TCB, t # u, NEW v \in Status \ {"Runnable"},
         rq' = HaltQueue(InsertRunnable(rq, u, prio[u]), t),
         status' = [status EXCEPT ![u] = "Runnable", ![t] = v], prio' = prio
  PROVE  Stepped(Q)
<1> DEFINE on == Ready(status, prio)
           p == prio[u]
           q1 == InsertRunnable(rq, u, p)
           st1 == [status EXCEPT ![u] = "Runnable"]
           Q1 == [Q EXCEPT ![p] = Append(@, u)]
           Q2 == [Fifo!Without(Q, t) EXCEPT ![p] = Append(@, u)]
<1>1. /\ rq \in Queues /\ status \in Statuses /\ prio \in Prios
      /\ Order(rq, on, Q) /\ on \in Contents /\ u \in TCB /\ p \in Prio
  BY ReadyContents DEF Listed, Good, Prios, TCB
<1>2. \A r \in Prio : u \notin on[r]
  BY DEF Ready
<1>3. Listed(q1, st1, prio, Q1)
  BY <1>1, JoinListed
<1>4. st1[t] = status[t] /\ status' = [st1 EXCEPT ![t] = v]
  BY <1>1 DEF Statuses
<1>5. Listed(rq', status', prio', Fifo!Without(Q1, t))
  <2>1. rq' = IF st1[t] = "Runnable" THEN RemoveRunnable(q1, t, prio[t]) ELSE q1
    BY <1>4 DEF HaltQueue
  <2> HIDE DEF q1, st1, Q1
  <2>2. Listed(rq', [st1 EXCEPT ![t] = v], prio, Fifo!Without(Q1, t))
    BY <1>3, <2>1, LeaveListed
  <2> QED BY <1>4, <2>2
<1>6. Fifo!Without(Q1, t) = Q2
  <2>1. Ready(st1, prio) = [on EXCEPT ![p] = @ \cup {u}]
    BY <1>1 DEF Ready, Statuses, Prios
  <2>2. Order(q1, [on EXCEPT ![p] = @ \cup {u}], Q1)
    BY <1>3, <2>1 DEF Listed
  <2>3. Appending(rq, on, Q, p, u, q1, [on EXCEPT ![p] = @ \cup {u}], Q1)
    BY <1>1, <1>2, <2>2 DEF Appending
  <2> HIDE DEF on, q1, Q1, p
  <2>4. Fifo!Without(Q1, t) = Appended(Q, t, p, u)
    BY ONLY <2>3, t \in TCB, t # u, WithoutAppend
  <2> QED BY <2>4 DEF Appended
<1>7. Joined(Q, Q2, t, u, p)
  <2> HIDE DEF on, p
  <2> QED BY <1>1, <1>2, OrderMembers DEF Joined
<1> HIDE DEF Q1, Q2, p
<1>8. QueueStep(Q, Q2)
  BY <1>1, <1>7 DEF QueueStep
<1>9. Order(rq', Ready(status', prio'), Q2)
  BY <1>5, <1>6 DEF Listed
<1> QED BY <1>8, <1>9 DEF Stepped

\* A thread becomes runnable.
LEMMA JoinStep ==
  ASSUME NEW Q, Listed(rq, status, prio, Q), NEW u \in Thread, status[u] # "Runnable",
         rq' = InsertRunnable(rq, u, prio[u]), status' = [status EXCEPT ![u] = "Runnable"],
         prio' = prio
  PROVE  Stepped(Q)
<1> DEFINE on == Ready(status, prio)
           p == prio[u]
           Q2 == [Q EXCEPT ![p] = Append(@, u)]
<1>1. u \in TCB /\ p \in Prio /\ Order(rq, on, Q) /\ \A r \in Prio : u \notin on[r]
  BY DEF Listed, Good, Prios, TCB, Ready
<1>2. Listed(rq', status', prio', Q2)
  BY <1>1, JoinListed
<1> HIDE DEF on, p
<1>3. Fifo!Without(Q, u) = Q
  BY <1>1, WithoutStranger
<1>4. Joined(Q, Q2, u, u, p)
  BY <1>3 DEF Joined
<1> HIDE DEF Q2
<1>5. QueueStep(Q, Q2)
  BY <1>1, <1>4 DEF QueueStep
<1> QED BY <1>2, <1>5 DEF Stepped, Listed

\* The status of one waiting thread changes, and another thread leaves.
LEMMA ParkLeaveStep ==
  ASSUME NEW Q, Listed(rq, status, prio, Q), NEW u \in TCB, status[u] # "Runnable",
         NEW w \in Status \ {"Runnable"},
         NEW t \in TCB, t # u, NEW v \in Status \ {"Runnable"}, rq' = HaltQueue(rq, t),
         status' = [status EXCEPT ![u] = w, ![t] = v], prio' = prio
  PROVE  Stepped(Q)
<1> DEFINE st1 == [status EXCEPT ![u] = w]
<1>1. status \in Statuses /\ prio \in Prios
  BY DEF Listed, Good
<1>2. Ready(st1, prio) = Ready(status, prio)
  BY <1>1, StayUnready
<1>3. st1 \in Statuses /\ st1[t] = status[t] /\ status' = [st1 EXCEPT ![t] = v]
  BY <1>1 DEF Statuses
<1> HIDE DEF st1
<1>4. Listed(rq, st1, prio, Q)
  BY <1>2, <1>3 DEF Listed, Good
<1>5. rq' = IF st1[t] = "Runnable" THEN RemoveRunnable(rq, t, prio[t]) ELSE rq
  BY <1>3 DEF HaltQueue
<1>6. Listed(rq', [st1 EXCEPT ![t] = v], prio, Fifo!Without(Q, t))
  BY <1>4, <1>5, LeaveListed
<1>7. Order(rq', Ready(status', prio'), Fifo!Without(Q, t))
  BY <1>3, <1>6 DEF Listed
<1>8. QueueStep(Q, Fifo!Without(Q, t))
  BY DEF QueueStep
<1> QED BY <1>7, <1>8 DEF Stepped

\* A handler that ends the IPC of u, and no more.
LEMMA EndStep ==
  ASSUME NEW Q, Listed(rq, status, prio, Q), NEW u \in Thread, InIpc(u), NEW fault \in BOOLEAN,
         rq' = ErrorQueue(rq, u, fault),
         status' = [status EXCEPT ![u] = ErrorStatus(u, fault)], prio' = prio
  PROVE  Stepped(Q)
<1>1. u \in TCB /\ status[u] # "Runnable" /\ "Halted" \in Status \ {"Runnable"}
  BY DEF InIpc, TCB, Status
<1>2. CASE ~fault /\ status[u] = "Blocked"
  <2>1. rq' = InsertRunnable(rq, u, prio[u]) /\ status' = [status EXCEPT ![u] = "Runnable"]
    BY <1>2 DEF ErrorQueue, ErrorStatus, ResumeQueue, ResumeStatus
  <2> QED BY <1>1, <2>1, JoinStep
<1>3. CASE fault \/ status[u] # "Blocked"
  <2>1. rq' = HaltQueue(rq, u) /\ status' = [status EXCEPT ![u] = "Halted"]
    BY <1>1, <1>3 DEF ErrorQueue, ErrorStatus, ResumeQueue, ResumeStatus, HaltQueue
  <2> QED BY <1>1, <2>1, LeaveStep
<1> QED BY <1>2, <1>3

\* A handler that ends the IPC of u and takes t off the runqueues.
LEMMA EndLeaveStep ==
  ASSUME NEW Q, Listed(rq, status, prio, Q), NEW u \in Thread, InIpc(u), NEW fault \in BOOLEAN,
         NEW t \in TCB, t # u, NEW v \in Status \ {"Runnable"},
         rq' = HaltQueue(ErrorQueue(rq, u, fault), t),
         status' = [status EXCEPT ![u] = ErrorStatus(u, fault), ![t] = v], prio' = prio
  PROVE  Stepped(Q)
<1>1. u \in TCB /\ status[u] # "Runnable" /\ "Halted" \in Status \ {"Runnable"}
  BY DEF InIpc, TCB, Status
<1>2. CASE ~fault /\ status[u] = "Blocked"
  <2>1. /\ rq' = HaltQueue(InsertRunnable(rq, u, prio[u]), t)
        /\ status' = [status EXCEPT ![u] = "Runnable", ![t] = v]
    BY <1>2 DEF ErrorQueue, ErrorStatus, ResumeQueue, ResumeStatus
  <2> QED BY <1>1, <2>1, JoinLeaveStep
<1>3. CASE fault \/ status[u] # "Blocked"
  <2>1. rq' = HaltQueue(rq, t) /\ status' = [status EXCEPT ![u] = "Halted", ![t] = v]
    BY <1>1, <1>3 DEF ErrorQueue, ErrorStatus, ResumeQueue, ResumeStatus
  <2> QED BY <1>1, <2>1, ParkLeaveStep
<1> QED BY <1>2, <1>3

(***************************************************************************)
(* The steps.                                                              *)
(***************************************************************************)
LEMMA TickOrder ==
  ASSUME IInv, NEW Q, Listed(rq, status, prio, Q), TickExpired, ~RotatesStale
  PROVE  Stepped(Q)
<1>1. /\ holder # Idle /\ holder \in TCB /\ status' = status /\ prio' = prio
  BY DEF TickExpired, IInv, IdleParked, TypeOK
<1>2. CASE holder = rq.next[holder]
  <2>1. rq' = rq
    BY <1>2 DEF TickExpired
  <2> QED BY <1>1, <2>1, SameQueues DEF Listed
<1>3. CASE holder # rq.next[holder]
  <2>1. /\ rq' = [rq EXCEPT !.head[prio[holder]] = rq.next[holder]]
        /\ status[holder] = "Runnable"
    BY <1>3 DEF TickExpired, RotatesStale
  <2>2. PICK p, on : p = prio[holder] /\ on = Ready(status, prio)
    OBVIOUS
  <2>3. /\ rq \in Queues /\ on \in Contents /\ Order(rq, on, Q) /\ p \in Prio
        /\ holder \in on[p]
    BY <1>1, <2>1, <2>2, ReadyContents DEF Listed, Good, Prios, Ready
  <2>4. PICK i \in DOMAIN Q[p] :
          /\ Q[p][i] = holder
          /\ Order([rq EXCEPT !.head[p] = rq.next[holder]], on,
                   [Q EXCEPT ![p] = RotateAt(@, i)])
    BY ONLY <2>3, RotateOrder
  <2>5. PICK Q2 : Q2 = [Q EXCEPT ![p] = RotateAt(@, i)]
    OBVIOUS
  <2>6. Order(rq', Ready(status', prio'), Q2)
    BY <1>1, <2>1, <2>2, <2>4, <2>5
  <2>7. Turned(Q, Q2)
    BY <2>3, <2>4, <2>5 DEF Turned
  <2> QED BY <2>6, <2>7 DEF Stepped, QueueStep
<1> QED BY <1>2, <1>3

LEMMA ScheduleOrder ==
  ASSUME NEW Q, Listed(rq, status, prio, Q), NEW dest \in Thread, NEW p \in Prio \cup {Keep},
         NEW ts \in Slices \cup {Keep}, Schedule(dest, p, ts)
  PROVE  Stepped(Q)
<1>1. dest \in TCB /\ status' = status /\ status \in Statuses /\ prio \in Prios
  BY DEF TCB, Schedule, Listed, Good
<1>2. CASE p = Keep \/ p = prio[dest]
  <2>1. rq' = rq /\ prio' = prio
    BY <1>1, <1>2 DEF Schedule, Prios
  <2> QED BY <1>1, <2>1, SameQueues DEF Listed
<1>3. CASE p # Keep /\ p # prio[dest] /\ status[dest] = "Runnable"
  <2>1. /\ rq' = InsertRunnable(RemoveRunnable(rq, dest, prio[dest]), dest, p)
        /\ prio' = [prio EXCEPT ![dest] = p] /\ p \in Prio
    BY <1>3 DEF Schedule
  <2>2. PICK Q2 : Q2 = [Fifo!Without(Q, dest) EXCEPT ![p] = Append(@, dest)]
    OBVIOUS
  <2>3. Listed(rq', status, prio', Q2)
    BY <1>1, <1>3, <2>1, <2>2, MoveListed
  <2>4. Joined(Q, Q2, dest, dest, p)
    BY <2>2 DEF Joined
  <2>5. QueueStep(Q, Q2)
    BY <1>1, <2>1, <2>4 DEF QueueStep
  <2> QED BY <1>1, <2>3, <2>5 DEF Stepped, Listed
<1>4. CASE p # Keep /\ status[dest] # "Runnable"
  <2>1. rq' = rq /\ prio' = [prio EXCEPT ![dest] = p] /\ p \in Prio
    BY <1>4 DEF Schedule
  <2>2. Ready(status', prio') = Ready(status, prio)
    BY <1>1, <1>4, <2>1, UnreadyPrio
  <2> QED BY <2>1, <2>2, SameQueues DEF Listed
<1> QED BY <1>2, <1>3, <1>4

\* The links of a new thread are in no queue.
LEMMA CreateOrder ==
  ASSUME NEW Q, Listed(rq, status, prio, Q), NEW t \in Thread, NEW active \in BOOLEAN,
         CreateThread(t, active)
  PROVE  Stepped(Q)
<1>1. PICK v : v = IF active THEN "Blocked" ELSE "Inactive"
  OBVIOUS
<1>2. /\ t \in TCB /\ status[t] # "Runnable" /\ v # "Runnable" /\ DefaultPrio \in Prio
      /\ status \in Statuses /\ prio \in Prios /\ rq \in Queues
      /\ Order(rq, Ready(status, prio), Q)
  BY <1>1, SchedAssumption DEF CreateThread, TCB, Listed, Good
<1>3. Ready(status', prio') = Ready(status, prio)
  <2>1. PICK st : st = [status EXCEPT ![t] = v]
    OBVIOUS
  <2>2. st \in Statuses /\ st[t] # "Runnable"
    BY <1>1, <1>2, <2>1 DEF Statuses, Status
  <2>3. status' = st /\ prio' = [prio EXCEPT ![t] = DefaultPrio]
    BY <1>1, <2>1 DEF CreateThread
  <2>4. Ready(st, prio') = Ready(st, prio)
    BY <1>2, <2>2, <2>3, UnreadyPrio
  <2>5. Ready(st, prio) = Ready(status, prio)
    BY <1>2, <2>1, StayUnready
  <2> QED BY <2>3, <2>4, <2>5
<1>4. rq'.head = rq.head /\ \A x \in TCB : x # t => rq'.next[x] = rq.next[x]
  BY <1>2 DEF CreateThread, Queues
<1>5. PICK on : on = Ready(status, prio)
  OBVIOUS
<1>6. \A p \in Prio : on[p] \subseteq TCB /\ t \notin on[p]
  BY <1>2, <1>5 DEF Ready
<1>7. ASSUME NEW p \in Prio PROVE Chain(Q[p], rq'.next, rq'.head[p], on[p])
  <2>1. Chain(Q[p], rq.next, rq.head[p], on[p])
    BY <1>2, <1>5 DEF Order
  <2>2. \A x \in on[p] : rq'.next[x] = rq.next[x]
    BY <1>4, <1>6
  <2>3. Chain(Q[p], rq'.next, rq.head[p], on[p])
    BY ONLY <2>1, <2>2, ChainSame
  <2> QED BY <1>4, <2>3
<1>8. Order(rq', Ready(status', prio'), Q)
  BY <1>2, <1>3, <1>5, <1>7 DEF Order
<1> QED BY <1>8 DEF Stepped, QueueStep

LEMMA DeleteOrder ==
  ASSUME NEW Q, Listed(rq, status, prio, Q), NEW t \in Thread, NEW s \in Thread,
         NEW fault \in BOOLEAN, DeleteThread(t, s, fault)
  PROVE  Stepped(Q)
<1>1. t \in TCB /\ prio' = prio /\ "Absent" \in Status \ {"Runnable"}
  BY DEF TCB, DeleteThread, Status
<1>2. CASE s = t
  <2>1. rq' = HaltQueue(rq, t) /\ status' = [status EXCEPT ![t] = "Absent"]
    BY <1>2 DEF DeleteThread
  <2> QED BY <1>1, <2>1, LeaveStep
<1>3. CASE s # t
  <2>1. /\ InIpc(s) /\ rq' = HaltQueue(ErrorQueue(rq, s, fault), t)
        /\ status' = [status EXCEPT ![s] = ErrorStatus(s, fault), ![t] = "Absent"]
    BY <1>3 DEF DeleteThread
  <2> QED BY <1>1, <1>3, <2>1, EndLeaveStep
<1> QED BY <1>2, <1>3

LEMMA SystemCallOrder ==
  ASSUME IInv, NEW Q, Listed(rq, status, prio, Q), NEW t \in Thread, SystemCall(t)
  PROVE  Stepped(Q)
<1>0. t \in TCB /\ FALSE \in BOOLEAN
  BY DEF TCB
<1>1. CASE Donate(t)
  BY <1>1, SameQueues DEF Donate, Listed
<1>2. CASE \E p \in Prio \cup {Keep}, ts \in Slices \cup {Keep} : Schedule(t, p, ts)
  BY <1>2, ScheduleOrder
<1>3. CASE IpcTransfer(t)
  <2>1. /\ rq' = ErrorQueue(rq, t, FALSE) /\ InIpc(t) /\ prio' = prio
        /\ status' = [status EXCEPT ![t] = ErrorStatus(t, FALSE)]
    BY <1>3 DEF IpcTransfer, ErrorQueue, ErrorStatus
  <2> QED BY <1>0, <2>1, EndStep
<1>4. CASE IpcCall(t)
  <2>1. /\ InIpc(t) /\ rq' = HaltQueue(ErrorQueue(rq, t, FALSE), current) /\ prio' = prio
        /\ status' = [status EXCEPT ![t] = ErrorStatus(t, FALSE), ![current] = "Blocked"]
    BY <1>4 DEF IpcCall, ErrorQueue, ErrorStatus
  <2>2. current \in TCB /\ current # t /\ "Blocked" \in Status \ {"Runnable"}
    BY <1>4, <2>1, InSystemCall DEF IpcCall, InIpc, Status
  <2> QED BY <1>0, <2>1, <2>2, EndLeaveStep
<1>5. CASE IpcReject(t)
  <2>1. /\ rq' = HaltQueue(rq, t) /\ status' = [status EXCEPT ![t] = "Halted"]
        /\ prio' = prio /\ "Halted" \in Status \ {"Runnable"}
    BY <1>5 DEF IpcReject, HaltQueue, InIpc, Status
  <2> QED BY <1>0, <2>1, LeaveStep
<1>6. CASE ExchangeHalt(t)
  <2>1. PICK v : v = IF InIpc(t) THEN "Halting" ELSE "Halted"
    OBVIOUS
  <2>2. /\ rq' = HaltQueue(rq, t) /\ status' = [status EXCEPT ![t] = v] /\ prio' = prio
        /\ v \in Status \ {"Runnable"}
    BY <1>6, <2>1 DEF ExchangeHalt, Status
  <2> QED BY <1>0, <2>2, LeaveStep
<1>7. CASE ExchangeResume(t)
  BY <1>7, JoinStep DEF ExchangeResume
<1>8. CASE \E fault \in BOOLEAN : ExchangeCancel(t, fault)
  BY <1>8, EndStep DEF ExchangeCancel
<1>9. CASE \E active \in BOOLEAN : CreateThread(t, active)
  BY <1>9, CreateOrder
<1>10. CASE ActivateThread(t)
  <2>1. /\ rq' = HaltQueue(rq, t) /\ status' = [status EXCEPT ![t] = "Blocked"]
        /\ prio' = prio /\ "Blocked" \in Status \ {"Runnable"}
    BY <1>10 DEF ActivateThread, HaltQueue, Status
  <2> QED BY <1>0, <2>1, LeaveStep
<1>11. CASE \E s \in Thread, fault \in BOOLEAN : DeleteThread(t, s, fault)
  BY <1>11, DeleteOrder
<1> QED BY <1>1, <1>2, <1>3, <1>4, <1>5, <1>6, <1>7, <1>8, <1>9, <1>10, <1>11
     DEF SystemCall

LEMMA NextOrder ==
  ASSUME IInv, NEW Q, Order(rq, Ready(status, prio), Q), [LinkedNext]_vars
  PROVE  Stepped(Q)
<1>0. Listed(rq, status, prio, Q)
  BY IInvGround DEF Ground, Listed
<1>1. CASE TickUnlimited \/ TickCounted \/ Yield \/ SpuriousIRQ \/ UNCHANGED vars
  <2>1. rq' = rq /\ status' = status /\ prio' = prio
    BY <1>1 DEF TickUnlimited, TickCounted, Yield, SpuriousIRQ, vars
  <2> QED BY <2>1, SameQueues
<1>2. CASE TickExpired /\ ~RotatesStale
  BY <1>0, <1>2, TickOrder
<1>3. CASE IpcBlock \/ FaultHalt
  <2>1. PICK v \in Status \ {"Runnable"} :
          /\ rq' = HaltQueue(rq, current) /\ status' = [status EXCEPT ![current] = v]
          /\ prio' = prio
    BY <1>3 DEF IpcBlock, FaultHalt, Status
  <2>2. current \in TCB
    BY DEF IInv, TypeOK
  <2> QED BY <1>0, <2>1, <2>2, LeaveStep
<1>4. CASE \E t \in Thread : SystemCall(t)
  BY <1>0, <1>4, SystemCallOrder
<1>5. ASSUME NEW t \in Thread, HardwareIRQ(t) PROVE Stepped(Q)
  <2>1. /\ rq' = ErrorQueue(rq, t, FALSE) /\ InIpc(t) /\ prio' = prio /\ FALSE \in BOOLEAN
        /\ status' = [status EXCEPT ![t] = ErrorStatus(t, FALSE)]
    BY <1>5 DEF HardwareIRQ, ErrorQueue, ErrorStatus
  <2> QED BY <1>0, <2>1, EndStep
<1> QED BY <1>1, <1>2, <1>3, <1>4, <1>5 DEF LinkedNext, Next, TimerInterrupt

\* The timeslice stays, or passes to the thread that reschedule picks.
LEMMA NextHolder ==
  ASSUME [LinkedNext]_vars
  PROVE  holder' \in {holder, Pick(rq')}
<1>1. ASSUME NEW t \in Thread, SystemCall(t) PROVE holder' \in {holder, Pick(rq')}
  BY <1>1 DEF SystemCall, Donate, Schedule, IpcTransfer, IpcCall, IpcReject, ExchangeHalt,
              ExchangeResume, ExchangeCancel, CreateThread, ActivateThread, DeleteThread,
              ResumeOrReschedule, Reschedule, Resume
<1> QED BY <1>1 DEF LinkedNext, Next, TimerInterrupt, TickUnlimited, TickCounted, TickExpired,
              Preempt, Yield, IpcBlock, FaultHalt, SpuriousIRQ, HardwareIRQ, Reschedule, Resume, vars

LEMMA InitOrder ==
  ASSUME Init
  PROVE  \E Q \in [Prio -> Seq(Thread)] : Order(rq, Ready(status, prio), Q)
<1> DEFINE st0 == [t \in TCB |-> IF t = Idle THEN "Halted" ELSE "Absent"]
           st1 == [st0 EXCEPT ![First] = "Runnable"]
           q1  == InsertRunnable(EmptyQueues, First, DefaultPrio)
           Q0  == [p \in Prio |-> << >>]
           Q1  == [Q0 EXCEPT ![DefaultPrio] = Append(@, First)]
           Q2  == [Q1 EXCEPT ![DefaultPrio] = Append(@, Second)]
<1>1. First \in TCB /\ Second \in TCB /\ First # Second /\ First # Idle /\ Second # Idle
      /\ DefaultPrio \in Prio /\ First \in Thread /\ Second \in Thread
  BY SchedAssumption, RootAssumption DEF TCB
<1>2. prio \in Prios /\ \A t \in TCB : prio[t] = DefaultPrio
  BY <1>1 DEF Init, Prios
<1>3. st0 \in Statuses /\ \A t \in TCB : st0[t] # "Runnable"
  BY DEF Statuses, Status
<1>4. Listed(EmptyQueues, st0, prio, Q0)
  <2>1. Good(EmptyQueues, st0, prio)
    BY <1>2, <1>3, EmptyGood
  <2>2. \A p \in Prio : Ready(st0, prio)[p] = {}
    BY <1>3 DEF Ready
  <2>3. Q0 \in [Prio -> Seq(TCB)] /\ Q0 \in [Prio -> Seq(Thread)]
    BY EmptySeq
  <2>4. ASSUME NEW p \in Prio PROVE Chain(Q0[p], EmptyQueues.next, EmptyQueues.head[p], {})
    <3>1. Q0[p] = << >> /\ Q0[p] \in Seq(TCB) /\ Len(Q0[p]) = 0
      BY <2>3, EmptySeq
    <3> QED BY <3>1 DEF Chain
  <2> QED BY <2>1, <2>2, <2>3, <2>4 DEF Listed, Order
<1>5. st0[First] # "Runnable" /\ st1[Second] # "Runnable"
  BY <1>1 DEF Statuses, Status
<1>6. status = [st1 EXCEPT ![Second] = "Runnable"]
  BY <1>1 DEF Init, Statuses, Status
<1>7. rq = InsertRunnable(q1, Second, DefaultPrio)
  BY DEF Init
<1>8. Q0 \in [Prio -> Seq(Thread)] /\ Q1 \in [Prio -> Seq(Thread)]
      /\ Q2 \in [Prio -> Seq(Thread)]
  BY <1>1, EmptySeq, AppendProperties
<1> HIDE DEF st0, Q0
<1>9. Listed(q1, st1, prio, Q1)
  BY <1>1, <1>2, <1>4, <1>5, JoinListed
<1> HIDE DEF st1, q1, Q1
<1>10. Listed(rq, status, prio, Q2)
  BY <1>1, <1>2, <1>5, <1>6, <1>7, <1>9, JoinListed
<1> QED BY <1>8, <1>10 DEF Listed

\* The runqueues are first-in first-out queues, for any finite number of
\* threads and any number of priorities: whatever is inserted, unlinked or
\* moved between two priorities, a tick that ends a timeslice puts the holder
\* last, and the timeslice passes to the first thread of the highest queue
\* in use only.  The mapping walks along the links, so the invariant is
\* needed for both the state before a step and the one after it.
THEOREM QueuesAreFifo ==
  ASSUME IsFiniteSet(Thread)
  PROVE  LinkedSpec => ImplementsReadyQueues
<1> DEFINE Ordered == \E Q : Order(rq, Ready(status, prio), Q)
<1>1. Init => Ordered /\ Fifo!Init
  <2> SUFFICES ASSUME Init PROVE Ordered /\ Fifo!Init
    OBVIOUS
  <2>1. PICK Q \in [Prio -> Seq(Thread)] : Order(rq, Ready(status, prio), Q)
    BY InitOrder
  <2>2. /\ Ready(status, prio) \in Contents /\ rq \in Queues
        /\ Rings(rq, Ready(status, prio))
    BY InitIInv, ReadyContents DEF IInv, TypeOK, RunqueuesExact
  <2>3. [p \in Prio |-> Queue(rq, p)] = Q
    BY <2>1, <2>2, OrderWalked
  <2>4. holder = Fifo!Best(Q)
    BY <2>1, <2>2, PickIsBest DEF Init
  <2> QED BY <2>1, <2>3, <2>4 DEF Fifo!Init
<1>2. IInv /\ Ordered /\ [LinkedNext]_vars => Ordered' /\ [Fifo!Next]_(Fifo!vars)
  <2> SUFFICES ASSUME IInv, Ordered, [LinkedNext]_vars
               PROVE  Ordered' /\ [Fifo!Next]_(Fifo!vars)
    OBVIOUS
  <2>1. PICK Q : Order(rq, Ready(status, prio), Q)
    OBVIOUS
  <2>2. PICK Q2 : Order(rq', Ready(status', prio'), Q2) /\ QueueStep(Q, Q2)
    BY <2>1, NextOrder DEF Stepped
  <2>3. /\ Ready(status, prio) \in Contents /\ rq \in Queues
        /\ Rings(rq, Ready(status, prio))
    BY ReadyContents DEF IInv, TypeOK, RunqueuesExact
  <2>4. /\ Ready(status', prio') \in Contents /\ rq' \in Queues
        /\ Rings(rq', Ready(status', prio'))
    <3>1. IInv'
      BY NextStep
    <3> QED BY <3>1, ReadyContents DEF IInv, TypeOK, RunqueuesExact
  <2>5. [p \in Prio |-> Queue(rq, p)] = Q
    BY <2>1, <2>3, OrderWalked
  <2>6. [p \in Prio |-> Queue(rq', p)] = Q2
    BY <2>2, <2>4, OrderWalked
  <2>7. Pick(rq') = Fifo!Best(Q2)
    BY <2>2, <2>4, PickIsBest
  <2>8. holder' \in {holder, Fifo!Best(Q2)}
    BY <2>7, NextHolder
  <2>9. Fifo!PassTimeslice
    BY <2>6, <2>8 DEF Fifo!PassTimeslice
  <2>10. ASSUME Q2 = Q PROVE Fifo!Next
    BY <2>5, <2>6, <2>9, <2>10 DEF Fifo!Next
  <2>11. ASSUME Turned(Q, Q2) PROVE Fifo!Next
    <3>1. Fifo!Rotate
      BY <2>5, <2>6, <2>11 DEF Turned, RotateAt, Fifo!Rotate
    <3> QED BY <2>9, <3>1 DEF Fifo!Next
  <2>12. ASSUME NEW t \in TCB, Q2 = Fifo!Without(Q, t) PROVE Fifo!Next
    <3>1. Fifo!Leave(t)
      BY <2>5, <2>6, <2>12 DEF Fifo!Leave
    <3> QED BY <2>9, <3>1 DEF Fifo!Next, TCB
  <2>13. ASSUME NEW t \in TCB, NEW u \in Thread, NEW p \in Prio, Joined(Q, Q2, t, u, p)
         PROVE  Fifo!Next
    <3>1. Fifo!Join(t, u, p)
      BY <2>5, <2>6, <2>13 DEF Joined, Fifo!Join, Fifo!Members
    <3> QED BY <2>9, <3>1 DEF Fifo!Next, TCB
  <2>14. Fifo!Next
    BY <2>2, <2>10, <2>11, <2>12, <2>13 DEF QueueStep
  <2> QED BY <2>2, <2>14
<1> QED BY <1>1, <1>2, Inductive, PTL DEF LinkedSpec, Fifo!Spec, ImplementsReadyQueues
=============================================================================
