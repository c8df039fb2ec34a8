------------------------------ MODULE MCSched -------------------------------
(* Instances of Sched for TLC. *)
EXTENDS SchedFifo

CONSTANTS a, b, c

MCThread == {a, b, c}

\* The root task a schedules every thread.
RootSchedules == [t \in MCThread |-> a]

\* Two threads are enough where the queues do not matter.
TwoThreads == {a, b}
TwoSchedules == [t \in TwoThreads |-> a]
=============================================================================
