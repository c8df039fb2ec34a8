------------------------------- MODULE MCIpc --------------------------------
(* Instances of Ipc for TLC. *)
EXTENDS Ipc

CONSTANTS a, b, c, irq

\* b shares its address space with a.
MCSpaceOf == [t \in {a, b, c, irq} |-> IF t = b THEN a ELSE t]

\* a serves faults and interrupts.
MCPagers == {<<a, 1>>, Nil}
=============================================================================
