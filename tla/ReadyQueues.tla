----------------------------- MODULE ReadyQueues -----------------------------
(***************************************************************************)
(* What a priority scheduler promises, without pointers: for each priority *)
(* a first-in first-out queue of ready threads, and a timeslice that only  *)
(* ever passes to the first thread of the highest nonempty queue.  Module  *)
(* SchedFifo shows that the linked lists of Sched implement it.            *)
(***************************************************************************)
EXTENDS Naturals, Sequences, SequencesExt

CONSTANTS Thread, Idle, Prio

VARIABLES ready,    \* ready[p], the queue of the ready threads of priority p
          holder    \* the thread that owns the timeslice

vars == <<ready, holder>>

Members(p) == ToSet(ready[p])

\* The thread that is served next.
Best(q) ==
  LET used == {p \in Prio : q[p] # << >>}
  IN IF used = {} THEN Idle ELSE Head(q[CHOOSE p \in used : \A x \in used : x <= p])

\* The queues q without t, which is in at most one of them, and there once.
Without(q, t) ==
  [p \in Prio |-> IF t \in ToSet(q[p])
                  THEN RemoveAt(q[p], CHOOSE i \in DOMAIN q[p] : q[p][i] = t)
                  ELSE q[p]]

\* At most one thread leaves, and then at most one joins the end of a queue.
Leave(t) == ready' = Without(ready, t)

Join(t, u, p) ==
  /\ u = t \/ \A x \in Prio : u \notin Members(x)
  /\ ready' = [Without(ready, t) EXCEPT ![p] = Append(@, u)]

\* The holder has used up its timeslice and goes behind all the others.
Rotate ==
  \E p \in Prio : \E i \in DOMAIN ready[p] :
    /\ ready[p][i] = holder
    /\ ready' = [ready EXCEPT ![p] = SubSeq(@, i + 1, Len(@)) \o SubSeq(@, 1, i)]

PassTimeslice == holder' \in {holder, Best(ready')}

Init == /\ ready \in [Prio -> Seq(Thread)]
        /\ holder = Best(ready)

Next ==
  /\ \/ UNCHANGED ready
     \/ Rotate
     \/ \E t \in Thread \cup {Idle} :
          Leave(t) \/ \E u \in Thread, p \in Prio : Join(t, u, p)
  /\ PassTimeslice

Spec == Init /\ [][Next]_vars
=============================================================================
