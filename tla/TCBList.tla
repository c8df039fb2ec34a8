------------------------------- MODULE TCBList -------------------------------
(***************************************************************************)
(* The doubly linked, circular lists of TCBs that pork threads through the *)
(* prev and next fields of struct TCB (pork/kernel/include/threads.h).     *)
(* The same two fields serve the runqueues and the sendqueues, and a queue *)
(* is represented by a pointer to its first TCB, or by a null pointer.     *)
(*                                                                         *)
(* A "heap" m of links is a record [next |-> f, prev |-> g] of two         *)
(* functions from TCBs to TCBs.  The C functions write to the links and    *)
(* return the new head; here each of them is a pair of operators, one for  *)
(* the links and one for the head.                                         *)
(***************************************************************************)
CONSTANT NoTCB        \* the null pointer

\* insertTCB: the links after tcb has been added at the end of queue.
InsertLinks(m, queue, tcb) ==
  IF queue # NoTCB
  THEN [next |-> [m.next EXCEPT ![m.prev[queue]] = tcb, ![tcb] = queue],
        prev |-> [m.prev EXCEPT ![tcb] = m.prev[queue], ![queue] = tcb]]
  ELSE [next |-> [m.next EXCEPT ![tcb] = tcb],
        prev |-> [m.prev EXCEPT ![tcb] = tcb]]

\* A slip: the new TCB becomes the head.
InsertFirst(queue, tcb) == tcb

\* insertTCB: the head that it returns.
InsertHead(queue, tcb) == IF queue # NoTCB THEN queue ELSE tcb

\* removeTCB: the links after tcb has been unlinked from its list.  The
\* fields of tcb itself keep their old values.
RemoveLinks(m, tcb) ==
  IF m.next[tcb] = tcb
  THEN m
  ELSE [next |-> [m.next EXCEPT ![m.prev[tcb]] = m.next[tcb]],
        prev |-> [m.prev EXCEPT ![m.next[tcb]] = m.prev[tcb]]]

\* removeTCB: the head that it returns.
RemoveHead(m, queue, tcb) ==
  CASE m.next[tcb] = tcb -> NoTCB
    [] m.next[tcb] # tcb /\ queue = tcb -> m.next[tcb]
    [] OTHER -> queue
=============================================================================
