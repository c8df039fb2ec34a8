-------------------------------- MODULE Sched --------------------------------
(***************************************************************************)
(* The scheduler of the pork kernel: pork/kernel/scheduling.c, with the    *)
(* places in ipc.c and threads.c that put a thread on a runqueue or take   *)
(* it off.                                                                 *)
(*                                                                         *)
(* Kernel code runs with interrupts disabled from the entry of a handler   *)
(* until it returns to user mode, so one handler is one action.  The       *)
(* thread that makes a system call is always the current thread; the timer *)
(* and the other hardware interrupts can arrive after any of them.         *)
(*                                                                         *)
(* The links of the runqueues are modelled field by field, because         *)
(* timerInterrupt reads holder->next without checking that the holder is   *)
(* still linked.  The heap of active priorities is the set it represents   *)
(* here; module PrioHeap models the array.                                 *)
(***************************************************************************)
EXTENDS Naturals, TCBList

CONSTANTS
  Thread,         \* the TCBs of user threads
  Idle,           \* the TCB of the idle thread
  MaxPrio,        \* PRIORITIES - 1
  DefaultPrio,    \* the priority allocTCB1 gives every thread, 128
  Tick,           \* clockTick, in microseconds
  DefaultSlice,   \* the timeslice allocTCB1 gives every thread, 10000
  Slices,         \* the timeslices a Schedule system call may ask for
  WordSize,       \* unsigned arithmetic is modulo WordSize, 2^32
  SchedulerOf     \* tcb->scheduler of each thread

Prio == 0..MaxPrio
TCB  == Thread \cup {Idle}

ASSUME SchedAssumption ==
  /\ Idle \notin Thread
  /\ NoTCB \notin TCB
  /\ MaxPrio \in Nat /\ DefaultPrio \in Prio
  /\ WordSize \in Nat /\ WordSize > MaxPrio + 1
  /\ Tick \in 1..(WordSize - 1)
  /\ DefaultSlice \in 0..(WordSize - 1)
  /\ Slices \subseteq 0..(WordSize - 2)
  /\ SchedulerOf \in [Thread -> Thread]

VARIABLES
  rq,         \* [head, next, prev, prioset]: runqueue[], the links, prioset
  status,     \* the scheduler's view of tcb->status
  prio,       \* tcb->prio
  timeslice,  \* tcb->timeslice
  timeleft,   \* tcb->timeleft
  current,    \* the TCB that runs when the kernel returns to user mode
  holder      \* the TCB whose timeslice is being used up

vars == <<rq, status, prio, timeslice, timeleft, current, holder>>
times == <<timeslice, timeleft>>

(***************************************************************************)
(* threads.h distinguishes five states; "Absent" is a TCB that has not     *)
(* been created, "Blocked" stands for Sending and Receiving, and "Halting" *)
(* is a blocked thread whose halt bit is set.                              *)
(***************************************************************************)
Status == {"Absent", "Inactive", "Halted", "Runnable", "Blocked", "Halting"}

(***************************************************************************)
(* Runqueues.                                                              *)
(***************************************************************************)
Links(q) == [next |-> q.next, prev |-> q.prev]

\* insertRunnable(tcb), for a tcb of priority p.
InsertRunnable(q, tcb, p) ==
  LET m == InsertLinks(Links(q), q.head[p], tcb)
  IN [head    |-> [q.head EXCEPT ![p] = InsertHead(q.head[p], tcb)],
      next    |-> m.next,
      prev    |-> m.prev,
      prioset |-> IF q.head[p] = NoTCB THEN q.prioset \cup {p} ELSE q.prioset]

\* A slip for the runs to find: the priority stays in use.
KeepPriority(q, tcb, p) ==
  LET m == RemoveLinks(Links(q), tcb)
  IN [head    |-> [q.head EXCEPT ![p] = RemoveHead(Links(q), q.head[p], tcb)],
      next    |-> m.next,
      prev    |-> m.prev,
      prioset |-> q.prioset]

\* removeRunnable(tcb), for a tcb of priority p.
RemoveRunnable(q, tcb, p) ==
  LET m == RemoveLinks(Links(q), tcb)
      h == RemoveHead(Links(q), q.head[p], tcb)
  IN [head    |-> [q.head EXCEPT ![p] = h],
      next    |-> m.next,
      prev    |-> m.prev,
      prioset |-> IF h = NoTCB THEN q.prioset \ {p} ELSE q.prioset]

\* prioset[0], the maximum of a nonempty set of priorities.
Top(ps) == CHOOSE p \in ps : \A x \in ps : x <= p

\* reschedule(): the thread it picks, which becomes holder and current.
Pick(q) == IF q.prioset # {} THEN q.head[Top(q.prioset)] ELSE Idle

Reschedule == holder' = Pick(rq') /\ current' = Pick(rq')

\* resume(): back to the current thread.
Resume == UNCHANGED <<current, holder>>

\* haltThread(tcb) and resumeThread(tcb), in two parts: the runqueues and
\* the status.
HaltQueue(q, t)   == IF status[t] = "Runnable" THEN RemoveRunnable(q, t, prio[t]) ELSE q
ResumeQueue(q, t) == IF status[t] = "Blocked" THEN InsertRunnable(q, t, prio[t]) ELSE q
ResumeStatus(t)   == IF status[t] = "Blocked" THEN "Runnable" ELSE "Halted"

\* sendError and recvError: the end of an IPC, or of a fault.
ErrorQueue(q, t, fault) == IF fault THEN q ELSE ResumeQueue(q, t)
ErrorStatus(t, fault)   == IF fault THEN "Halted" ELSE ResumeStatus(t)

(***************************************************************************)
(* Initially sigma0 and the root task exist and are runnable (initTCBs),   *)
(* and the kernel starts by calling reschedule.  First and Second stand    *)
(* for these two.                                                          *)
(***************************************************************************)
CONSTANTS First, Second
ASSUME RootAssumption == First \in Thread /\ Second \in Thread /\ First # Second

EmptyQueues == [head    |-> [p \in Prio |-> NoTCB],
                next    |-> [t \in TCB |-> t],
                prev    |-> [t \in TCB |-> t],
                prioset |-> {}]

Init ==
  /\ rq = InsertRunnable(InsertRunnable(EmptyQueues, First, DefaultPrio), Second, DefaultPrio)
  /\ status = [t \in TCB |-> CASE t \in {First, Second} -> "Runnable"
                               [] t = Idle -> "Halted"
                               [] OTHER -> "Absent"]
  /\ prio = [t \in TCB |-> DefaultPrio]
  /\ timeslice = [t \in TCB |-> IF t = Idle THEN 0 ELSE DefaultSlice]
  /\ timeleft = [t \in TCB |-> DefaultSlice]
  /\ current = Pick(rq)
  /\ holder = Pick(rq)

(***************************************************************************)
(* timerInterrupt.  No thread ever has a finite quantum (quantleft is 0    *)
(* from allocTCB1 on and Schedule does not change it yet), so refillHolder *)
(* adds one timeslice to what is left of the last one.                     *)
(***************************************************************************)
Refill(left) == (left + timeslice[holder]) % WordSize

\* A slip: only the end of a timeslice makes the kernel look at priorities.
NeverPreempt == Resume

\* Once a tick is accounted for, a runnable thread of higher priority than
\* the holder takes over.
Preempt ==
  IF rq.prioset # {} /\ Top(rq.prioset) > prio[holder] THEN Reschedule ELSE Resume

TickUnlimited ==
  /\ timeslice[holder] = 0
  /\ UNCHANGED <<rq, status, prio, times>>
  /\ Preempt

TickCounted ==
  /\ timeslice[holder] # 0
  /\ timeleft[holder] >= Tick
  /\ timeleft' = [timeleft EXCEPT ![holder] = @ - Tick]
  /\ UNCHANGED <<rq, status, prio, timeslice>>
  /\ Preempt

\* Slips: the last tick is not charged, the runqueue is not rotated.
ForgetTick ==
  /\ timeslice[holder] # 0
  /\ timeleft[holder] < Tick
  /\ timeleft' = [timeleft EXCEPT ![holder] = Refill(@)]
  /\ rq' = IF holder # rq.next[holder]
           THEN [rq EXCEPT !.head[prio[holder]] = rq.next[holder]]
           ELSE rq
  /\ Reschedule
  /\ UNCHANGED <<status, prio, timeslice>>

NoRotation ==
  LET left == Refill(timeleft[holder]) IN
  /\ timeslice[holder] # 0
  /\ timeleft[holder] < Tick
  /\ timeleft' = [timeleft EXCEPT ![holder] = IF left > Tick THEN left - Tick ELSE left]
  /\ UNCHANGED rq
  /\ Reschedule
  /\ UNCHANGED <<status, prio, timeslice>>

\* The timeslice is over: the runqueue of the holder is rotated.
TickExpired ==
  LET left == Refill(timeleft[holder]) IN
  /\ timeslice[holder] # 0
  /\ timeleft[holder] < Tick
  /\ timeleft' = [timeleft EXCEPT ![holder] = IF left > Tick THEN left - Tick ELSE left]
  /\ rq' = IF holder # rq.next[holder]
           THEN [rq EXCEPT !.head[prio[holder]] = rq.next[holder]]
           ELSE rq
  /\ Reschedule
  /\ UNCHANGED <<status, prio, timeslice>>

TimerInterrupt == TickUnlimited \/ TickCounted \/ TickExpired

(***************************************************************************)
(* threadSwitch: to a runnable thread, which then runs on the timeslice of *)
(* the holder, or to no thread in particular.                              *)
(***************************************************************************)
Donate(dest) ==
  /\ current # Idle
  /\ status[dest] = "Runnable"
  /\ current' = dest
  /\ UNCHANGED <<rq, status, prio, times, holder>>

Yield ==
  /\ current # Idle
  /\ timeleft' = [timeleft EXCEPT ![holder] = Refill(0)]
  /\ UNCHANGED rq
  /\ Reschedule
  /\ UNCHANGED <<status, prio, timeslice>>

(***************************************************************************)
(* schedule: a new priority, or a new timeslice, or both.  Only the        *)
(* scheduler of an active thread may do that, and only up to its own       *)
(* priority.                                                               *)
(***************************************************************************)
Active(t) == status[t] \notin {"Absent", "Inactive"}

MaySchedule(dest) ==
  current # Idle /\ Active(dest) /\ SchedulerOf[dest] = current

\* The system call's parameters use -1 for "leave as it is".
Keep == WordSize - 1

\* A slip: the runqueue is forgotten.
ForgetQueue(dest, p, ts) ==
  /\ MaySchedule(dest)
  /\ p # Keep => p <= prio[current]
  /\ prio' = IF p # Keep THEN [prio EXCEPT ![dest] = p] ELSE prio
  /\ UNCHANGED <<rq, status, times>>
  /\ Resume

Schedule(dest, p, ts) ==
  /\ MaySchedule(dest)
  /\ p # Keep => p <= prio[current]
  /\ rq' = IF p \notin {Keep, prio[dest]} /\ status[dest] = "Runnable"
           THEN InsertRunnable(RemoveRunnable(rq, dest, prio[dest]), dest, p)
           ELSE rq
  /\ prio' = IF p # Keep THEN [prio EXCEPT ![dest] = p] ELSE prio
  /\ timeslice' = IF ts # Keep THEN [timeslice EXCEPT ![dest] = ts] ELSE timeslice
  /\ timeleft' = IF ts # Keep THEN [timeleft EXCEPT ![dest] = ts] ELSE timeleft
  /\ UNCHANGED status
  /\ Resume

(***************************************************************************)
(* What IPC, faults and device interrupts do to the runqueues.  Module Ipc *)
(* says when; here the partner that a handler completes an IPC with can be *)
(* any blocked thread, and it is resumed, or halted if a reply to a fault  *)
(* was not acceptable.  A handler that completes several IPCs in a chain   *)
(* leaves the same queues as several handlers that complete one.           *)
(***************************************************************************)
InIpc(t) == status[t] \in {"Blocked", "Halting"}

\* The current thread sends to, or receives from, a partner that was
\* waiting for it, and does not have to wait.
IpcTransfer(t) ==
  /\ current # Idle
  /\ InIpc(t)
  /\ rq' = ResumeQueue(rq, t)
  /\ status' = [status EXCEPT ![t] = ResumeStatus(t)]
  /\ Reschedule
  /\ UNCHANGED <<prio, times>>

\* The current thread sends to t and then waits for a reply.
IpcCall(t) ==
  /\ current # Idle
  /\ InIpc(t)
  /\ rq' = HaltQueue(ResumeQueue(rq, t), current)
  /\ status' = [status EXCEPT ![t] = ResumeStatus(t), ![current] = "Blocked"]
  /\ Reschedule
  /\ UNCHANGED <<prio, times>>

\* The current thread waits to send or to receive.
IpcBlock ==
  /\ current # Idle
  /\ rq' = HaltQueue(rq, current)
  /\ status' = [status EXCEPT ![current] = "Blocked"]
  /\ Reschedule
  /\ UNCHANGED <<prio, times>>

\* A fault of the current thread that nobody handles: haltThread(current).
FaultHalt ==
  /\ current # Idle
  /\ rq' = HaltQueue(rq, current)
  /\ status' = [status EXCEPT ![current] = "Halted"]
  /\ Reschedule
  /\ UNCHANGED <<prio, times>>

\* An unacceptable reply: recvError halts the partner.
IpcReject(t) ==
  /\ current # Idle
  /\ InIpc(t)
  /\ status' = [status EXCEPT ![t] = "Halted"]
  /\ UNCHANGED <<rq, prio, times>>
  /\ Reschedule

\* hardwareIRQ: the handler of the interrupt is resumed if it is waiting.
HardwareIRQ(t) ==
  /\ InIpc(t)
  /\ rq' = ResumeQueue(rq, t)
  /\ status' = [status EXCEPT ![t] = ResumeStatus(t)]
  /\ Reschedule
  /\ UNCHANGED <<prio, times>>

SpuriousIRQ ==
  /\ UNCHANGED <<rq, status, prio, times>>
  /\ Reschedule

(***************************************************************************)
(* exchangeRegisters: halt, resume, or cancel the IPC of a thread.  Only a *)
(* thread that halted itself makes the kernel look for another one.        *)
(***************************************************************************)
\* A slip: a thread that halts itself runs on.
ResumeAnyway == Resume

ResumeOrReschedule == IF status'[current] # "Runnable" THEN Reschedule ELSE Resume

ExchangeHalt(dest) ==
  /\ current # Idle
  /\ Active(dest)
  /\ rq' = HaltQueue(rq, dest)
  /\ status' = [status EXCEPT ![dest] = IF InIpc(dest) THEN "Halting" ELSE "Halted"]
  /\ ResumeOrReschedule
  /\ UNCHANGED <<prio, times>>

ExchangeResume(dest) ==
  /\ current # Idle
  /\ status[dest] = "Halted"
  /\ rq' = InsertRunnable(rq, dest, prio[dest])
  /\ status' = [status EXCEPT ![dest] = "Runnable"]
  /\ ResumeOrReschedule
  /\ UNCHANGED <<prio, times>>

\* The cancelled IPC ends in an error code, or, if it was about a fault, in
\* the Halted state.
ExchangeCancel(dest, fault) ==
  /\ current # Idle
  /\ InIpc(dest)
  /\ rq' = ErrorQueue(rq, dest, fault)
  /\ status' = [status EXCEPT ![dest] = ErrorStatus(dest, fault)]
  /\ ResumeOrReschedule
  /\ UNCHANGED <<prio, times>>

(***************************************************************************)
(* threadControl: create (and perhaps activate), activate, delete.         *)
(***************************************************************************)
CreateThread(t, active) ==
  /\ current # Idle
  /\ status[t] = "Absent"
  /\ status' = [status EXCEPT ![t] = IF active THEN "Blocked" ELSE "Inactive"]
  /\ rq' = [rq EXCEPT !.next[t] = t, !.prev[t] = t]
  /\ prio' = [prio EXCEPT ![t] = DefaultPrio]
  /\ timeslice' = [timeslice EXCEPT ![t] = DefaultSlice]
  /\ timeleft' = [timeleft EXCEPT ![t] = DefaultSlice]
  /\ Resume

ActivateThread(t) ==
  /\ current # Idle
  /\ status[t] = "Inactive"
  /\ status' = [status EXCEPT ![t] = "Blocked"]
  /\ UNCHANGED <<rq, prio, times>>
  /\ Resume

\* If another thread s was waiting to send to t, its IPC ends; if several
\* were, the others' end in steps ExchangeCancel.
DeleteThread(t, s, fault) ==
  /\ current # Idle
  /\ status[t] # "Absent"
  /\ s = t \/ InIpc(s)
  /\ IF s = t
     THEN /\ rq' = HaltQueue(rq, t)
          /\ status' = [status EXCEPT ![t] = "Absent"]
     ELSE /\ rq' = HaltQueue(ErrorQueue(rq, s, fault), t)
          /\ status' = [status EXCEPT ![s] = ErrorStatus(s, fault), ![t] = "Absent"]
  /\ Reschedule
  /\ UNCHANGED <<prio, times>>

(***************************************************************************)
(* The specification.                                                      *)
(***************************************************************************)
SystemCall(t) ==
  \/ Donate(t)
  \/ \E p \in Prio \cup {Keep}, ts \in Slices \cup {Keep} : Schedule(t, p, ts)
  \/ IpcTransfer(t) \/ IpcCall(t) \/ IpcReject(t)
  \/ ExchangeHalt(t) \/ ExchangeResume(t)
  \/ \E fault \in BOOLEAN : ExchangeCancel(t, fault)
  \/ \E active \in BOOLEAN : CreateThread(t, active)
  \/ ActivateThread(t)
  \/ \E s \in Thread, fault \in BOOLEAN : DeleteThread(t, s, fault)

Next ==
  \/ TimerInterrupt
  \/ Yield \/ IpcBlock \/ FaultHalt \/ SpuriousIRQ
  \/ \E t \in Thread : SystemCall(t) \/ HardwareIRQ(t)

Spec == Init /\ [][Next]_vars

(***************************************************************************)
(* The one step that the kernel gets wrong.  A thread that runs on a       *)
(* donated timeslice may halt the donor, which keeps the timeslice: only a *)
(* thread that halts itself makes exchangeRegisters look for another one.  *)
(* If that timeslice ends before anything else calls reschedule, the timer *)
(* rotates the runqueue by a link of a thread that has left it, and puts   *)
(* at its head whatever the link still leads to.                           *)
(*                                                                         *)
(* Spec takes that step, and MCSchedDonor.cfg shows what it breaks.        *)
(* LinkedSpec is every behaviour of Spec without it: donors are halted as  *)
(* often as one likes, and resumed, deleted or rescheduled in time, or     *)
(* were alone on their runqueue.                                           *)
(***************************************************************************)
RotatesStale ==
  TickExpired /\ status[holder] # "Runnable" /\ rq.next[holder] # holder

LinkedNext == Next /\ ~RotatesStale

LinkedSpec == Init /\ [][LinkedNext]_vars

-----------------------------------------------------------------------------
(***************************************************************************)
(* Properties.                                                             *)
(***************************************************************************)
Queues == [head : [Prio -> TCB \cup {NoTCB}], next : [TCB -> TCB],
           prev : [TCB -> TCB], prioset : SUBSET Prio]

\* Type correctness of the scheduler's state.
TypeOK ==
  /\ rq \in Queues
  /\ status \in [TCB -> Status]
  /\ prio \in [TCB -> Prio]
  /\ timeslice \in [TCB -> 0..(WordSize - 1)]
  /\ timeleft \in [TCB -> 0..(WordSize - 1)]
  /\ current \in TCB
  /\ holder \in TCB

\* The runnable threads of each priority, for statuses st and priorities pr.
Ready(st, pr) == [p \in Prio |-> {t \in TCB : st[t] = "Runnable" /\ pr[t] = p}]

\* A is one ring: next and prev are inverse and stay inside A, and a
\* nonempty part of A that is closed under next is all of A.
Ring(next, prev, A) ==
  /\ \A t \in A : next[t] \in A /\ prev[next[t]] = t
  /\ \A t \in A : prev[t] \in A /\ next[prev[t]] = t
  /\ \A S \in SUBSET A : S # {} /\ (\A t \in S : next[t] \in S) => S = A

\* The runqueues q hold exactly the threads on[p] at each priority p, as a
\* ring with one of them as its head, and the priorities in use are those
\* of nonempty rings.
Rings(q, on) ==
  /\ q.prioset = {p \in Prio : on[p] # {}}
  /\ \A p \in Prio :
       /\ IF on[p] = {} THEN q.head[p] = NoTCB ELSE q.head[p] \in on[p]
       /\ Ring(q.next, q.prev, on[p])

\* Every runnable thread is on the runqueue of its priority, exactly once,
\* and no other thread is (threads.h, "Thread status"), through every
\* interleaving of priority changes, halts, wakeups, deletions and ticks.
RunqueuesExact == Rings(rq, Ready(status, prio))

\* The kernel never returns to a user thread that is not runnable.
CurrentRunnable == current # Idle => status[current] = "Runnable"

\* The idle thread is not a user thread: it has no runnable status and no
\* finite timeslice, so the timer never rotates a queue on its behalf.
IdleParked == status[Idle] = "Halted" /\ timeslice[Idle] = 0

\* Neither does it leave the timeslice with a thread that blocked or was
\* deleted while it held it; one that was halted keeps it only while
\* another, runnable, thread runs on it.  And the kernel idles only if
\* nothing is runnable.
Dispatched ==
  /\ CurrentRunnable
  /\ holder # Idle => status[holder] \in {"Runnable", "Halted"}
  /\ Idle \in {current, holder} => rq.prioset = {} /\ current = holder

\* Schedule never lets a thread gain priority over what threads are created
\* with, whoever schedules whom.  So the idle thread, which has that
\* priority too, is never preferred to, nor by, a tick of its own.
PrioCapped == \A t \in TCB : prio[t] <= DefaultPrio

\* Timeslices are not saved up: what a thread has left never exceeds the
\* longer of one timeslice and one tick, in spite of the remainder that
\* timerInterrupt carries over and of the word size.
NoBanking ==
  \A t \in Thread : timeleft[t] <= Tick \/ timeleft[t] <= timeslice[t]

\* After a tick no runnable thread has a higher priority than the thread
\* whose timeslice is being used, even if one was resumed, or the holder's
\* priority lowered, without a reschedule since the last tick.
PreemptedByTick ==
  [][TimerInterrupt => \A p \in rq'.prioset : p <= prio'[holder']]_vars

(***************************************************************************)
(* Round robin.  The threads never yield, set no timeslice and no          *)
(* priority, and none halts the donor of the timeslice it runs on, but     *)
(* they block, wake each other, donate and halt as they like.              *)
(***************************************************************************)
RobinNext ==
  \/ TimerInterrupt
  \/ IpcBlock
  \/ \E t \in Thread : Donate(t) \/ IpcTransfer(t) \/ IpcCall(t)
                       \/ ExchangeResume(t) \/ HardwareIRQ(t) \/ CreateThread(t, TRUE)
  \/ \E t \in Thread : (t # holder \/ current = holder) /\ ExchangeHalt(t)

\* The timer is started by the kernel and interrupts user mode for ever.
RobinSpec == Init /\ [][RobinNext]_vars /\ WF_vars(TimerInterrupt)

\* A thread that stays runnable gets the timeslice sooner or later.
RoundRobin ==
  \A t \in Thread : status[t] = "Runnable" ~> (holder = t \/ status[t] # "Runnable")
=============================================================================
