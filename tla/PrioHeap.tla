------------------------------ MODULE PrioHeap ------------------------------
(***************************************************************************)
(* The set of priorities of runnable threads, a max heap in an array with  *)
(* an index of where each priority is (pork/kernel/scheduling.c).  Module  *)
(* Sched takes it for a set with a maximum; here is why it may.            *)
(*                                                                         *)
(* insertRunnable and removeRunnable run with interrupts disabled.  Each   *)
(* iteration of their loops is a step, and neither starts before the other *)
(* is done.                                                                *)
(***************************************************************************)
EXTENDS Naturals

CONSTANT PRIORITIES
ASSUME PrioritiesAssumption == PRIORITIES \in Nat \ {0}

Prio == 0..(PRIORITIES - 1)

VARIABLES
  runs,         \* the priorities whose runqueue is not empty
  prioset,      \* the heap
  prioidx,      \* where in the heap is a priority?
  priosetSize,
  loop,         \* the loop that is running, if any
  item, gap,    \* "prio" and "i" of heapRepairUp and heapRepairDown
  from,         \* "i" of removeRunnable
  leaving       \* the priority that removeRunnable removes, or PRIORITIES

heap == <<prioset, prioidx, priosetSize>>
vars == <<runs, heap, loop, item, gap, from, leaving>>

Indices   == 0..(priosetSize - 1)
Parent(i) == (i - 1) \div 2

\* A slip: the array is taken to start at 1.
ChildAt(i) == 2 * i

Child(i) == 2 * i + 1

\* A slip: the left child.
LeftOne(i) == Child(i)

\* The index of the larger child of i.
Larger(i) ==
  LET c == Child(i)
  IN IF c + 1 < priosetSize /\ prioset[c + 1] > prioset[c] THEN c + 1 ELSE c

\* A slip: the index is not kept.
PutOnly(i, p) ==
  /\ prioset' = [prioset EXCEPT ![i] = p]
  /\ UNCHANGED prioidx

Put(i, p) ==
  /\ prioset' = [prioset EXCEPT ![i] = p]
  /\ prioidx' = [prioidx EXCEPT ![p] = i]

Init ==
  /\ runs = {}
  /\ prioset = [i \in Prio |-> 0]
  /\ prioidx = [p \in Prio |-> 0]
  /\ priosetSize = 0
  /\ loop = "none"
  /\ item = 0 /\ gap = 0 /\ from = 0
  /\ leaving = PRIORITIES

(***************************************************************************)
(* insertRunnable for the first thread of priority p.                      *)
(***************************************************************************)
Insert(p) ==
  /\ loop = "none" /\ p \notin runs
  /\ runs' = runs \cup {p}
  /\ priosetSize' = priosetSize + 1
  /\ loop' = "up" /\ item' = p /\ gap' = priosetSize
  /\ UNCHANGED <<prioset, prioidx, from, leaving>>

(***************************************************************************)
(* removeRunnable for the last thread of priority p: the last entry of the *)
(* heap takes its place, and then moves down or up.                        *)
(***************************************************************************)
\* A slip: the size stays.
RemoveInPlace(p) ==
  /\ loop = "none" /\ p \in runs
  /\ runs' = runs \ {p}
  /\ prioidx' = [prioidx EXCEPT ![p] = PRIORITIES]
  /\ UNCHANGED <<prioset, priosetSize, loop, item, gap, from, leaving>>

Remove(p) ==
  LET rprio == prioset[priosetSize - 1] IN
  /\ loop = "none" /\ p \in runs
  /\ runs' = runs \ {p}
  /\ priosetSize' = priosetSize - 1
  /\ IF rprio # p
     THEN /\ loop' = "down" /\ item' = rprio
          /\ gap' = prioidx[p] /\ from' = prioidx[p]
          /\ leaving' = p
          /\ UNCHANGED prioidx
     ELSE /\ prioidx' = [prioidx EXCEPT ![p] = PRIORITIES]
          /\ UNCHANGED <<loop, item, gap, from, leaving>>
  /\ UNCHANGED prioset

\* The local variables go.
Finish == loop' = "none" /\ item' = 0 /\ gap' = 0 /\ from' = 0 /\ leaving' = PRIORITIES

(***************************************************************************)
(* heapRepairUp.                                                           *)
(***************************************************************************)
Rises == gap > 0 /\ prioset[Parent(gap)] < item

UpMove ==
  /\ loop = "up" /\ Rises
  /\ Put(gap, prioset[Parent(gap)])
  /\ gap' = Parent(gap)
  /\ UNCHANGED <<runs, priosetSize, loop, item, from, leaving>>

\* What was removed gets an index that says so.
UpEnd ==
  /\ loop = "up" /\ ~Rises
  /\ prioset' = [prioset EXCEPT ![gap] = item]
  /\ prioidx' = [p \in Prio |-> CASE p = leaving -> PRIORITIES
                                  [] p = item    -> gap
                                  [] OTHER       -> prioidx[p]]
  /\ Finish
  /\ UNCHANGED <<runs, priosetSize>>

(***************************************************************************)
(* heapRepairDown, and what removeRunnable does next.                      *)
(***************************************************************************)
Sinks == Child(gap) < priosetSize /\ item < prioset[Larger(gap)]

DownMove ==
  /\ loop = "down" /\ Sinks
  /\ Put(gap, prioset[Larger(gap)])
  /\ gap' = Larger(gap)
  /\ UNCHANGED <<runs, priosetSize, loop, item, from, leaving>>

\* A slip: the entry cannot move up.
DownOnly ==
  /\ loop = "down" /\ ~Sinks
  /\ prioset' = [prioset EXCEPT ![gap] = item]
  /\ prioidx' = [prioidx EXCEPT ![item] = gap, ![leaving] = PRIORITIES]
  /\ Finish
  /\ UNCHANGED <<runs, priosetSize>>

DownEnd ==
  /\ loop = "down" /\ ~Sinks
  /\ Put(gap, item)
  /\ loop' = "up" /\ item' = prioset'[from] /\ gap' = from
  /\ UNCHANGED <<runs, priosetSize, from, leaving>>

Repair == UpMove \/ UpEnd \/ DownMove \/ DownEnd

Next == Repair \/ \E p \in Prio : Insert(p) \/ Remove(p)

Spec == Init /\ [][Next]_vars

\* Nothing interrupts the loops.
FairSpec == Spec /\ WF_vars(Repair)

-----------------------------------------------------------------------------
(***************************************************************************)
(* Properties.                                                             *)
(***************************************************************************)
\* No index ever leaves the arrays, which have room for every priority.
TypeOK ==
  /\ runs \subseteq Prio
  /\ prioset \in [Prio -> Prio]
  /\ prioidx \in [Prio -> 0..PRIORITIES]
  /\ priosetSize \in 0..PRIORITIES
  /\ loop \in {"none", "up", "down"}
  /\ item \in Prio /\ gap \in Prio /\ from \in Prio
  /\ leaving \in 0..PRIORITIES

\* Between operations, each entry of the heap is smaller than its parent,
\* also after an entry from one subtree has replaced one of another
\* (removeRunnable has to repair in both directions).
HeapOrdered ==
  loop = "none" => \A i \in Indices \ {0} : prioset[i] < prioset[Parent(i)]

\* Between operations, the heap has the priorities of the runnable threads,
\* each once and where prioidx says (removeRunnable finds it there).
IndexExact ==
  loop = "none" =>
    /\ \A i \in Indices : prioset[i] \in runs /\ prioidx[prioset[i]] = i
    /\ \A p \in runs : prioidx[p] \in Indices /\ prioset[prioidx[p]] = p

\* What reschedule and timerInterrupt take for the highest priority of a
\* runnable thread, prioset[0], is just that.
TopRight ==
  loop = "none" =>
    /\ priosetSize = 0 <=> runs = {}
    /\ runs # {} => prioset[0] \in runs /\ \A p \in runs : p <= prioset[0]

\* The loops come to an end.
RepairEnds == loop # "none" ~> loop = "none"
=============================================================================
