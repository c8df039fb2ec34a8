--------------------------------- MODULE Ipc ---------------------------------
(***************************************************************************)
(* Synchronous message passing in the pork kernel: pork/kernel/ipc.c, and  *)
(* what threads.c does to threads that take part in it.                    *)
(*                                                                         *)
(* A thread that cannot send at once waits in the sendqueue of its         *)
(* receiver.  Faults and hardware interrupts are messages too: the kernel  *)
(* sends them for the faulting thread or for the TCB that stands for the   *)
(* interrupt, and then makes that TCB wait for the reply.                  *)
(*                                                                         *)
(* Handlers run with interrupts disabled.  Each is one action, but for the *)
(* loop of recvPhase, where a sender that has been served becomes the next *)
(* receiver: "todo" holds the receiver whose turn it is, each iteration is *)
(* a step, and no other handler starts before the loop is over.            *)
(*                                                                         *)
(* Which of the runnable threads runs is left open here (see Sched).       *)
(***************************************************************************)
EXTENDS Naturals, Sequences

CONSTANTS
  User,       \* the TCBs of user threads
  IRQ,        \* the TCBs of interrupts
  SpaceOf,    \* tcb->space, for TCBs that exist
  Version,    \* the version numbers of thread ids
  Root,       \* the thread that exists initially (initTCBs)
  Pagers,     \* the ids that user code names as pagers, of threads and
              \* interrupts
  Handlers,   \* and as exception handlers
  Nil,        \* nilthread
  AnyThread,  \* anythread
  AnyLocal    \* anylocalthread

TCB == User \cup IRQ

\* The id of a thread is its number, which selects the TCB, and a version.
Id == TCB \X Version

ASSUME IpcAssumption ==
  /\ User \cap IRQ = {}
  /\ Root \in User
  /\ 1 \in Version
  /\ {Nil, AnyThread, AnyLocal} \cap Id = {}
  /\ Nil # AnyThread /\ Nil # AnyLocal /\ AnyThread # AnyLocal
  /\ Pagers \cup Handlers \subseteq Id \cup {Nil, AnyThread, AnyLocal}

VARIABLES
  life,       \* Absent: space==0; Inactive: utcb==0; Active
  version,    \* the version number in tcb->tid
  status,     \* tcb->status
  sendqueue,  \* tcb->sendqueue, from the head on
  pager,      \* utcb->pager; for an interrupt its handler, in tcb->vutcb
  handler,    \* utcb->exceptionHandler
  unmasked,   \* the interrupts that are enabled at the PIC
  todo        \* what recvPhase has still to do

vars == <<life, version, status, sendqueue, pager, handler, unmasked, todo>>
ids      == <<life, version>>
partners == <<pager, handler>>

(***************************************************************************)
(* tcb->status is a mode, an ipctype and the halt bit.  Here it also has   *)
(* what the kernel reads only while the thread is in an IPC: the receiver  *)
(* of a thread that is sending, and, of one in the ipc system call, the    *)
(* registers that say whom it receives from and whether it would wait.     *)
(***************************************************************************)
Types == {"MRs", "PageFault", "Exception", "Interrupt", "Startup"}
Specs == Id \cup {Nil, AnyThread, AnyLocal}
Modes == {"Runnable", "Halted", "Sending", "Receiving"}

Statuses == [mode : Modes, type : Types, halt : BOOLEAN,
             receiver : TCB \cup {Nil}, from : Specs, patient : BOOLEAN]

Runnable == [mode |-> "Runnable", type |-> "MRs", halt |-> FALSE,
             receiver |-> Nil, from |-> Nil, patient |-> FALSE]

Halted == [Runnable EXCEPT !.mode = "Halted", !.halt = TRUE]

Sending(type, h, r, spec, canWait) ==
  [mode |-> "Sending", type |-> type, halt |-> h,
   receiver |-> r, from |-> spec, patient |-> canWait]

\* A slip: the halt bit is lost.
ReceivingOn(type, h, spec) ==
  [mode |-> "Receiving", type |-> type, halt |-> FALSE,
   receiver |-> Nil, from |-> spec, patient |-> FALSE]

Receiving(type, h, spec) ==
  [mode |-> "Receiving", type |-> type, halt |-> h,
   receiver |-> Nil, from |-> spec, patient |-> FALSE]

isSending(t)   == status[t].mode = "Sending"
isReceiving(t) == status[t].mode = "Receiving"

\* findTCB: the id is that of an existing thread.
Finds(id) == id \in Id /\ life[id[1]] # "Absent" /\ version[id[1]] = id[2]

\* haltThread and resumeThread.
haltThread(st, t)   == [st EXCEPT ![t] = Halted]
resumeThread(st, t) == [st EXCEPT ![t] = IF @.halt THEN Halted ELSE Runnable]

\* sendError and recvError: an error code, or an end to the fault.
sendError(st, type, t) ==
  IF type = "MRs" THEN resumeThread(st, t) ELSE haltThread(st, t)

recvError(st, type, t) ==
  IF type \in {"MRs", "Startup"} THEN resumeThread(st, t) ELSE haltThread(st, t)

\* recvFromSpec: whom t receives from in an IPC of the given type.
recvFromSpec(type, t) ==
  CASE type = "MRs"       -> status[t].from
    [] type = "Exception" -> handler[t]
    [] OTHER              -> pager[t]

\* Would a receiver r that waits for spec take a message from s?
Accepts(spec, r, s) ==
  \/ spec = <<s, version[s]>>
  \/ spec = AnyThread
  \/ spec = AnyLocal /\ SpaceOf[s] = SpaceOf[r]

(***************************************************************************)
(* transferMessage: may it succeed?  Messages between threads do, or not,  *)
(* depending on their contents, and so do replies to the kernel; messages  *)
(* from the kernel suit every thread that is in ipc(), and no other.       *)
(***************************************************************************)
Transfers(sendtype, recvtype) ==
  CASE sendtype = "MRs"                      -> BOOLEAN
    [] sendtype # "MRs" /\ recvtype = "MRs"  -> {TRUE}
    [] OTHER                                 -> {FALSE}

\* maskAckIRQ, and a slip: the interrupt is only acknowledged.
AckOnly(n) == unmasked
Masked(n)  == unmasked \ {n}

\* The reply to an interrupt enables it again.
Reenabled(on, recvtype, r) == IF recvtype = "Interrupt" THEN on \cup {r} ELSE on

\* A slip: whatever is to be removed, the first thread goes.
Shift(s, t) == IF s = << >> THEN s ELSE Tail(s)

\* removeTCB.
Without(s, t) ==
  LET i == CHOOSE i \in DOMAIN s : s[i] = t
  IN IF \E j \in DOMAIN s : s[j] = t
     THEN [j \in 1..(Len(s) - 1) |-> IF j < i THEN s[j] ELSE s[j + 1]]
     ELSE s

Queued(t) == {sendqueue[t][i] : i \in DOMAIN sendqueue[t]}

\* What recvPhase has been called with; it does nothing for Nil.
Work(t, type, spec, canWait) ==
  [recv |-> t, type |-> type, from |-> spec, patient |-> canWait]

NoWork == Work(Root, "MRs", Nil, FALSE)
Idle   == todo = NoWork

-----------------------------------------------------------------------------
(***************************************************************************)
(* sendPhase(type, s, to).  It either returns 1, after which s gets the    *)
(* status "sent", or 0.                                                    *)
(***************************************************************************)
\* A slip: a receiver that waits for any local thread is taken for busy.
ReadyNotLocal(s, to) ==
  LET r == to[1] IN
  /\ Finds(to) /\ isReceiving(r)
  /\ recvFromSpec(status[r].type, r) \in {<<s, version[s]>>, AnyThread}

Ready(s, to) ==
  LET r == to[1] IN
  Finds(to) /\ isReceiving(r) /\ Accepts(recvFromSpec(status[r].type, r), r, s)

SendNow(type, s, to, sent, on) ==
  LET r == to[1] IN
  /\ Ready(s, to)
  /\ TRUE \in Transfers(type, status[r].type)
  /\ status' = [resumeThread(status, r) EXCEPT ![s] = sent]
  /\ unmasked' = Reenabled(on, status[r].type, r)
  /\ UNCHANGED sendqueue

SendRejected(type, s, to, on) ==
  LET r == to[1] IN
  /\ Ready(s, to)
  /\ FALSE \in Transfers(type, status[r].type)
  /\ status' = recvError(sendError(status, type, s), status[r].type, r)
  /\ unmasked' = on
  /\ UNCHANGED sendqueue

\* spec and canWait are kept for the receive phase that follows.
SendWaits(type, s, to, on, spec, canWait) ==
  LET r == to[1] IN
  /\ Finds(to) /\ ~Ready(s, to)
  /\ status' = [status EXCEPT ![s] = Sending(type, @.halt, r, spec, canWait)]
  /\ sendqueue' = [sendqueue EXCEPT ![r] = Append(@, s)]
  /\ unmasked' = on

\* There is no such thread, or it is not ready and s must not wait.
SendFails(type, s, to, on, canBlock) ==
  /\ ~Finds(to) \/ (~Ready(s, to) /\ ~canBlock)
  /\ status' = sendError(status, type, s)
  /\ unmasked' = on
  /\ UNCHANGED sendqueue

(***************************************************************************)
(* The ipc system call of a runnable thread: a send phase, which may block *)
(* or not, and a receive phase, which may wait or not.                     *)
(***************************************************************************)
IpcReceive(t, spec, canWait) ==
  /\ Idle /\ status[t] = Runnable
  /\ todo' = IF spec = Nil THEN NoWork ELSE Work(t, "MRs", spec, canWait)
  /\ UNCHANGED <<ids, status, sendqueue, partners, unmasked>>

IpcSent(t, to, spec, canWait) ==
  /\ Idle /\ status[t] = Runnable
  /\ SendNow("MRs", t, to, Runnable, unmasked)
  /\ todo' = IF spec = Nil THEN NoWork ELSE Work(t, "MRs", spec, canWait)
  /\ UNCHANGED <<ids, partners>>

IpcUnsent(t, to, canBlock, spec, canWait) ==
  /\ Idle /\ status[t] = Runnable
  /\ \/ SendRejected("MRs", t, to, unmasked)
     \/ canBlock /\ SendWaits("MRs", t, to, unmasked, spec, canWait)
     \/ SendFails("MRs", t, to, unmasked, canBlock)
  /\ UNCHANGED <<ids, partners, todo>>

Ipc(t, to, canBlock, spec, canWait) ==
  IF to = Nil
  THEN IpcReceive(t, spec, canWait)
  ELSE IpcSent(t, to, spec, canWait) \/ IpcUnsent(t, to, canBlock, spec, canWait)

(***************************************************************************)
(* One iteration of the loop in recvPhase.                                 *)
(***************************************************************************)
\* Slips: only the head of the queue is looked at, or the last sender is
\* preferred.
OnlyHead(r, spec) ==
  {s \in TCB : /\ sendqueue[r] # << >> /\ s = Head(sendqueue[r])
               /\ Accepts(spec, r, s)}

LastIn(r, spec) ==
  LET q == sendqueue[r]
  IN IF spec \in {AnyThread, AnyLocal}
     THEN {q[i] : i \in DOMAIN q \cap {Len(q)}}
     ELSE {s \in TCB : Finds(spec) /\ s = spec[1] /\ isSending(s) /\ status[s].receiver = r}

\* The sender that is found, as a set of at most one.
Partner(r, spec) ==
  LET q     == sendqueue[r]
      local == {i \in DOMAIN q : SpaceOf[q[i]] = SpaceOf[r]}
  IN CASE spec = AnyThread      -> {q[i] : i \in DOMAIN q \cap {1}}
       [] spec = AnyLocal -> {q[i] : i \in {i \in local : \A j \in local : i <= j}}
       [] OTHER           -> {s \in TCB : /\ Finds(spec) /\ s = spec[1]
                                          /\ isSending(s) /\ status[s].receiver = r}

RecvRendezvous(s) ==
  LET r        == todo.recv
      sendtype == status[s].type
      next     == recvFromSpec(sendtype, s)
      resumed  == resumeThread(status, r)
  IN
  /\ ~Idle
  /\ s \in Partner(r, todo.from)
  /\ TRUE \in Transfers(sendtype, todo.type)
  /\ sendqueue' = [sendqueue EXCEPT ![r] = Without(@, s)]
  /\ unmasked' = Reenabled(unmasked, todo.type, r)
  /\ IF next = Nil
     THEN status' = resumeThread(resumed, s) /\ todo' = NoWork
     ELSE /\ status' = [resumed EXCEPT ![s] = Receiving(sendtype, @.halt, @.from)]
          /\ todo' = Work(s, sendtype, next, status[s].patient)
  /\ UNCHANGED <<ids, partners>>

RecvRejected(s) ==
  LET r == todo.recv
      sendtype == status[s].type
  IN
  /\ ~Idle
  /\ s \in Partner(r, todo.from)
  /\ FALSE \in Transfers(sendtype, todo.type)
  /\ sendqueue' = [sendqueue EXCEPT ![r] = Without(@, s)]
  /\ status' = recvError(sendError(status, sendtype, s), todo.type, r)
  /\ todo' = NoWork
  /\ UNCHANGED <<ids, partners, unmasked>>

\* Without a partner the thread waits, or gives up.
RecvAlone ==
  LET r == todo.recv IN
  /\ ~Idle
  /\ Partner(r, todo.from) = {}
  /\ status' = IF \/ todo.from \notin {AnyThread, AnyLocal} /\ ~Finds(todo.from)
                  \/ todo.type = "MRs" /\ ~todo.patient
               THEN recvError(status, todo.type, r)
               ELSE IF status[r] = Runnable
                    THEN [status EXCEPT ![r] = Receiving(todo.type, FALSE, todo.from)]
                    ELSE status
  /\ todo' = NoWork
  /\ UNCHANGED <<ids, sendqueue, partners, unmasked>>

RecvPhase == RecvAlone \/ \E s \in TCB : RecvRendezvous(s) \/ RecvRejected(s)

(***************************************************************************)
(* handleException and pageFault, for a thread with a pager or handler.    *)
(***************************************************************************)
FaultSent(t, type, to) ==
  /\ Idle /\ status[t] = Runnable
  /\ SendNow(type, t, to, Receiving(type, FALSE, Nil), unmasked)
  /\ UNCHANGED <<ids, partners, todo>>

FaultUnsent(t, type, to) ==
  /\ Idle /\ status[t] = Runnable
  /\ \/ SendRejected(type, t, to, unmasked)
     \/ SendWaits(type, t, to, unmasked, Nil, FALSE)
     \/ SendFails(type, t, to, unmasked, TRUE)
  /\ UNCHANGED <<ids, partners, todo>>

FaultHalts(t) ==
  /\ Idle /\ status[t] = Runnable
  /\ status' = haltThread(status, t)
  /\ UNCHANGED <<ids, sendqueue, partners, unmasked, todo>>

Fault(t, type) ==
  LET to == recvFromSpec(type, t)
  IN  IF to = Nil
      THEN FaultHalts(t)
      ELSE FaultSent(t, type, to) \/ FaultUnsent(t, type, to)

(***************************************************************************)
(* hardwareIRQ.                                                            *)
(***************************************************************************)
HardwareIRQ(n) ==
  LET on == Masked(n)
      to == pager[n]
  IN
  /\ Idle /\ n \in unmasked
  /\ IF status[n] = Halted /\ to # Nil
     THEN \/ SendNow("Interrupt", n, to, Receiving("Interrupt", TRUE, Nil), on)
          \/ SendRejected("Interrupt", n, to, on)
          \/ SendWaits("Interrupt", n, to, on, Nil, FALSE)
          \/ SendFails("Interrupt", n, to, on, TRUE)
     ELSE unmasked' = on /\ UNCHANGED <<status, sendqueue>>
  /\ UNCHANGED <<ids, partners, todo>>

(***************************************************************************)
(* exchangeRegisters: optionally a new pager, then halt or resume, then    *)
(* cancel the receive or the send that dest is waiting in.                 *)
(***************************************************************************)
ExchangeRegisters(dest, p, halting, cancelReceive, cancelSend) ==
  LET st == CASE halting = "halt" /\ status[dest] = Runnable ->
                   haltThread(status, dest)
              [] halting = "halt" /\ status[dest] # Runnable ->
                   [status EXCEPT ![dest].halt = TRUE]
              [] halting = "resume" /\ status[dest] = Halted ->
                   [status EXCEPT ![dest] = Runnable]
              [] OTHER -> status
      type == status[dest].type
      r    == status[dest].receiver
  IN
  /\ Idle /\ life[dest] = "Active"
  /\ pager' = [pager EXCEPT ![dest] = p]
  /\ CASE isReceiving(dest) /\ cancelReceive ->
            status' = recvError(st, type, dest) /\ UNCHANGED sendqueue
       [] isSending(dest) /\ cancelSend ->
            /\ status' = sendError(st, type, dest)
            /\ sendqueue' = [sendqueue EXCEPT ![r] = Without(@, dest)]
       [] OTHER -> status' = st /\ UNCHANGED sendqueue
  /\ UNCHANGED <<ids, handler, unmasked, todo>>

(***************************************************************************)
(* threadControl, called by a privileged thread.                           *)
(***************************************************************************)
activateTCB(st, t) == [st EXCEPT ![t] = Receiving("Startup", FALSE, Nil)]

\* createThread, which activates the thread if it is given a pager.
CreateThread(t, v, p) ==
  /\ Idle /\ life[t] = "Absent"
  /\ life' = [life EXCEPT ![t] = IF p = Nil THEN "Inactive" ELSE "Active"]
  /\ version' = [version EXCEPT ![t] = v]
  /\ status' = IF p = Nil THEN [status EXCEPT ![t] = Halted] ELSE activateTCB(status, t)
  /\ sendqueue' = [sendqueue EXCEPT ![t] = << >>]
  /\ pager' = [pager EXCEPT ![t] = p]
  /\ handler' = [handler EXCEPT ![t] = Nil]
  /\ UNCHANGED <<unmasked, todo>>

\* modifyThread: the version number and, unless it is Nil, the pager.
ModifyThread(t, v, p) ==
  /\ Idle /\ life[t] # "Absent"
  /\ IF p = Nil
     THEN UNCHANGED <<life, status, partners>>
     ELSE /\ life' = [life EXCEPT ![t] = "Active"]
          /\ status' = IF life[t] = "Inactive" THEN activateTCB(status, t) ELSE status
          /\ pager' = [pager EXCEPT ![t] = p]
          /\ handler' = IF life[t] = "Inactive" THEN [handler EXCEPT ![t] = Nil] ELSE handler
  /\ version' = [version EXCEPT ![t] = v]
  /\ UNCHANGED <<sendqueue, unmasked, todo>>

\* deleteThread: the threads that wait to send to t get an error.
DeleteThread(t) ==
  LET left  == IF isSending(t)
               THEN [sendqueue EXCEPT ![status[t].receiver] = Without(@, t)]
               ELSE sendqueue
      others == {left[t][i] : i \in DOMAIN left[t]}
  IN
  /\ Idle /\ life[t] # "Absent"
  /\ life' = [life EXCEPT ![t] = "Absent"]
  /\ sendqueue' = [left EXCEPT ![t] = << >>]
  /\ status' = [s \in TCB |-> CASE s = t        -> Halted
                                [] s \in others -> sendError(status, status[s].type, s)[s]
                                [] OTHER        -> status[s]]
  /\ UNCHANGED <<version, partners, unmasked, todo>>

\* interruptControl: another handler for interrupt n.
InterruptControl(n, p) ==
  /\ Idle /\ p # Nil /\ p # pager[n]
  /\ sendqueue' = IF isSending(n)
                  THEN [sendqueue EXCEPT ![status[n].receiver] = Without(@, n)]
                  ELSE sendqueue
  /\ status' = [status EXCEPT ![n] = Halted]
  /\ pager' = [pager EXCEPT ![n] = p]
  /\ unmasked' = IF p = <<n, 1>> THEN unmasked \ {n} ELSE unmasked \cup {n}
  /\ UNCHANGED <<ids, handler, todo>>

\* User code writes to the UTCB, which its address space shares with the
\* kernel.
WriteUTCB(t, p, h) ==
  /\ Idle /\ life[t] = "Active"
  /\ pager' = [pager EXCEPT ![t] = p]
  /\ handler' = [handler EXCEPT ![t] = h]
  /\ UNCHANGED <<ids, status, sendqueue, unmasked, todo>>

-----------------------------------------------------------------------------
(***************************************************************************)
(* Initially there is a root task, and a TCB for each interrupt that is    *)
(* its own handler, which means that there is none.                        *)
(***************************************************************************)
Init ==
  /\ life = [t \in TCB |-> CASE t = Root -> "Active"
                             [] t \in IRQ -> "Inactive"
                             [] OTHER -> "Absent"]
  /\ version = [t \in TCB |-> 1]
  /\ status = [t \in TCB |-> IF t = Root THEN Runnable ELSE Halted]
  /\ sendqueue = [t \in TCB |-> << >>]
  /\ pager = [t \in TCB |-> IF t \in IRQ THEN <<t, 1>> ELSE Nil]
  /\ handler = [t \in TCB |-> Nil]
  /\ unmasked = {}
  /\ todo = NoWork

\* Some thread runs in user mode.
UserRuns == \E t \in User : status[t] = Runnable

Communicate(t) ==
  /\ Idle /\ status[t] = Runnable
  /\ \/ \E to \in Id \cup {Nil, AnyThread}, spec \in Specs, b, w \in BOOLEAN :
          Ipc(t, to, b, spec, w)
     \/ Fault(t, "PageFault") \/ Fault(t, "Exception")

Control(t) ==
  /\ Idle /\ UserRuns
  /\ \/ \E p \in Pagers \cup {pager[t]}, h \in {"halt", "resume", "leave"},
          r, s \in BOOLEAN : ExchangeRegisters(t, p, h, r, s)
     \/ \E v \in Version, p \in Pagers : CreateThread(t, v, p) \/ ModifyThread(t, v, p)
     \/ DeleteThread(t)
     \/ \E p \in Pagers, h \in Handlers : WriteUTCB(t, p, h)

Interrupts(n) ==
  \/ HardwareIRQ(n)
  \/ UserRuns /\ \E p \in Pagers \cup {<<n, 1>>} : InterruptControl(n, p)

Next ==
  \/ RecvPhase
  \/ \E t \in User : Communicate(t) \/ Control(t)
  \/ \E n \in IRQ : Interrupts(n)

Spec == Init /\ [][Next]_vars

\* Nothing interrupts the loop in recvPhase.
FairSpec == Spec /\ WF_vars(RecvPhase)

-----------------------------------------------------------------------------
(***************************************************************************)
(* Properties.                                                             *)
(***************************************************************************)
TypeOK ==
  /\ life \in [TCB -> {"Absent", "Inactive", "Active"}]
  /\ version \in [TCB -> Version]
  /\ status \in [TCB -> Statuses]
  /\ sendqueue \in [TCB -> Seq(TCB)]
  /\ pager \in [TCB -> Specs]
  /\ handler \in [TCB -> Specs]
  /\ unmasked \subseteq IRQ
  /\ todo \in [recv : TCB, type : Types, from : Specs, patient : BOOLEAN]

\* A thread is in the sendqueue of the thread that it is sending to, once,
\* and in no other; and that thread exists.  Every removeTCB relies on it,
\* with a pointer to the receiver that was saved when the send began.
SendqueuesExact ==
  \A s, r \in TCB :
    /\ s \in Queued(r) <=> isSending(s) /\ status[s].receiver = r
    /\ s \in Queued(r) => life[r] # "Absent" /\ life[s] # "Absent"
    /\ \A i, j \in DOMAIN sendqueue[r] : i # j => sendqueue[r][i] # sendqueue[r][j]

\* r waits for a message, s waits to send it, and r would take it.
Missed(r, s) ==
  /\ Idle \/ todo.recv # r
  /\ isReceiving(r) /\ s \in Queued(r)
  /\ Accepts(recvFromSpec(status[r].type, r), r, s)

\* Two threads never wait for each other, each ready for the other, unless
\* r was only just activated, or user code changed the id of s, or the
\* thread that r expects a reply from, while they were waiting.
NoMissedRendezvous ==
  [][\A r, s \in TCB :
       Missed(r, s)' /\ ~Missed(r, s)
         => \/ life'[r] # life[r]
            \/ version'[s] # version[s]
            \/ pager'[r] # pager[r] \/ handler'[r] # handler[r]]_vars

\* An interrupt that is enabled has a handler and an idle TCB, so that there
\* never is a second interrupt before the first is answered (hardwareIRQ).
IrqArmed == \A n \in unmasked : status[n] = Halted /\ pager[n] # <<n, 1>>

\* The TCB of an interrupt never becomes runnable, and no other TCB waits for
\* an interrupt: the assertions in interruptControl and transferMessage.
IrqParked ==
  /\ \A n \in IRQ : status[n].halt
  /\ \A t \in TCB : status[t].type = "Interrupt" => t \in IRQ

\* Interrupts and their TCBs go together, whatever handlers reply, fail to
\* reply, are deleted or replaced.
IrqsExact == IrqArmed /\ IrqParked

\* A thread that was halted, perhaps in the middle of an IPC, does not run
\* again until it is resumed by exchangeRegisters, or activated, however
\* the IPC ends.
HaltLasts ==
  [][\A t \in TCB :
       status[t].halt /\ ~status'[t].halt
         => Idle /\ status[t] = Halted /\ (life'[t] # life[t] \/ life[t] = "Active")]_vars

(***************************************************************************)
(* A server that forever replies, without blocking, and receives from      *)
(* anyone, and clients that call it, send to it and fault.  It is their    *)
(* pager and the handler of the interrupts.                                *)
(***************************************************************************)
ServerId == <<Root, 1>>

ServeInit ==
  /\ life = [t \in TCB |-> IF t \in IRQ THEN "Inactive" ELSE "Active"]
  /\ version = [t \in TCB |-> 1]
  /\ status = [t \in TCB |-> IF t \in IRQ THEN Halted ELSE Runnable]
  /\ sendqueue = [t \in TCB |-> << >>]
  /\ pager = [t \in TCB |-> ServerId]
  /\ handler = [t \in TCB |-> Nil]
  /\ unmasked = IRQ
  /\ todo = NoWork

Receive == Ipc(Root, Nil, FALSE, AnyThread, TRUE)
Reply   == \E t \in TCB, spec \in {Nil, AnyThread} : Ipc(Root, <<t, 1>>, FALSE, spec, TRUE)

Client(t) ==
  \/ \E spec \in {Nil, ServerId} : Ipc(t, ServerId, TRUE, spec, TRUE)
  \/ Fault(t, "PageFault")
  \/ \E h \in {"halt", "resume"}, cancel \in BOOLEAN :
       UserRuns /\ ExchangeRegisters(t, ServerId, h, cancel, FALSE)

ServeNext ==
  \/ RecvPhase
  \/ Receive \/ Reply
  \/ \E t \in User \ {Root} : Client(t)
  \/ \E n \in IRQ : HardwareIRQ(n)

\* The server is scheduled again and again (see Sched), and then, once it
\* has nothing to reply, receives.
ServeSpec == ServeInit /\ [][ServeNext]_vars /\ WF_vars(RecvPhase) /\ SF_vars(Receive)

\* Every message to the server is taken sooner or later, however many other
\* threads and interrupts keep sending: sendqueues are first-in first-out.
Served == \A t \in TCB : isSending(t) ~> ~isSending(t)
=============================================================================
