------------------------------ MODULE SchedFifo ------------------------------
(***************************************************************************)
(* The scheduler's linked lists implement the queues of ReadyQueues.       *)
(***************************************************************************)
EXTENDS Sched, Sequences, FiniteSets

\* The runqueue of priority p from its head on, until the links lead back.
Queue(q, p) ==
  LET walk[n \in Nat] ==
        IF n = 0 THEN <<q.head[p]>>
        ELSE LET s == walk[n - 1]
                 t == q.next[s[Len(s)]]
             IN IF t = q.head[p] THEN s ELSE Append(s, t)
  IN IF q.head[p] = NoTCB THEN << >> ELSE walk[Cardinality(Thread)]

Fifo == INSTANCE ReadyQueues WITH ready <- [p \in Prio |-> Queue(rq, p)]

\* The runqueues are first-in first-out, a tick that ends a timeslice puts
\* the holder last, and the timeslice passes to the first thread of the
\* highest priority only, whatever is inserted, unlinked or moved meanwhile.
ImplementsReadyQueues == Fifo!Spec
=============================================================================
