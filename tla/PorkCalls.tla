------------------------------ MODULE PorkCalls ------------------------------
(***************************************************************************)
(* The pork kernel as a program sees it through the library (pork/user/    *)
(* include/l4/ipc.h, thread.h): what messages carry, where threads start,  *)
(* and what address spaces map, on top of the control in Ipc.              *)
(*                                                                         *)
(* Bit 15 of a tag is the send-block flag when a thread makes a system     *)
(* call and the error flag when it returns: a Send that succeeds leaves it *)
(* set.  Two words of a message are kept, which is what a startup message, *)
(* a page fault and its answer need.                                       *)
(***************************************************************************)
EXTENDS Naturals, Sequences

CONSTANTS
  User, IRQ, SpaceOf, Version, Root, Pagers, Handlers, Nil, AnyThread, AnyLocal,
  NUMMRS,     \* the number of message registers
  Pages       \* the pages of the program that can fault

VARIABLES
  life, version, status, sendqueue, pager, handler, unmasked, todo,
  mr,         \* the message registers
  from,       \* eax on return from ipc: the thread that sent the message
  context,    \* eip and esp of a thread that has not run yet
  faultCode,  \* the page that a thread has faulted on
  space,      \* the address space of a thread, named for the first in it
  configured, \* the address spaces that have a KIP and a UTCB area
  mapped,     \* the pages that an address space maps, one to one
  short       \* some request was turned down for want of kernel memory

K == INSTANCE Ipc

kernelVars == <<life, version, status, sendqueue, pager, handler, unmasked, todo,
                mr, from, context, faultCode, space, configured, mapped, short>>

\* The root thread has version 1, and it gives its threads version 2.
IdOf(t) == <<t, IF t = Root THEN 1 ELSE 2>>

-----------------------------------------------------------------------------
(***************************************************************************)
(* Messages: L4_Clear, L4_Append, L4_Load, L4_Store and L4_Get.            *)
(***************************************************************************)
Empty == [bit15 |-> FALSE, u |-> 0, t |-> 0, w |-> <<Nil, Nil>>]
Clear(msg) == [msg EXCEPT !.bit15 = FALSE, !.u = 0, !.t = 0]

AppendWord(msg, x) == [msg EXCEPT !.w[msg.u + 1] = x, !.u = @ + 1]

AppendMapItem(msg, base, fpage) ==
  [msg EXCEPT !.w[msg.u + msg.t + 1] = base, !.w[msg.u + msg.t + 2] = fpage, !.t = @ + 2]

\* The words that a message has are copied, and the registers beyond stay.
Copied(old, new) ==
  [new EXCEPT !.w = [i \in 1 .. 2 |-> IF i <= new.u + new.t THEN new.w[i] ELSE old.w[i]]]

Load(m, t, msg) == [m EXCEPT ![t] = Copied(@, msg)]
Store(msg, regs) == Copied(msg, regs)
Get(msg, i) == msg.w[i + 1]
IpcFailed(regs) == regs.bit15

-----------------------------------------------------------------------------
(***************************************************************************)
(* transferMessage from s to r.  avail is what availPages says.  Map items *)
(* are only sent in answer to a fault.                                     *)
(***************************************************************************)
Suits(m, sendtype, s, recvtype, avail) ==
  CASE recvtype = "MRs" /\ sendtype = "MRs"       -> m[s].u + m[s].t < NUMMRS /\ m[s].t = 0
    [] recvtype = "MRs" /\ sendtype # "MRs"       -> TRUE
    [] recvtype = "PageFault" /\ sendtype = "MRs" -> m[s].u = 0 /\ m[s].t = 2 /\ avail
    [] recvtype = "Startup" /\ sendtype = "MRs"   -> m[s].u = 2 /\ m[s].t = 0
    [] OTHER                                      -> FALSE

\* A page fault message has the address and the instruction pointer.
Registers(m, s, r, sendtype, recvtype, page) ==
  CASE recvtype = "MRs" /\ sendtype = "MRs" ->
         [m EXCEPT ![r] = Copied(@, [m[s] EXCEPT !.bit15 = FALSE])]
    [] recvtype = "MRs" /\ sendtype = "PageFault" ->
         [m EXCEPT ![r] = [Empty EXCEPT !.u = 2, !.w[1] = page]]
    [] OTHER -> m

\* The sender is named even when its message is turned down.
Named(s, r, recvtype) ==
  from' = IF recvtype = "MRs" THEN [from EXCEPT ![r] = <<s, version[s]>>] ELSE from

\* Mapping a page that the sender does not have does nothing (map2).
Received(m, s, r, recvtype) ==
  /\ Named(s, r, recvtype)
  /\ mapped' = IF recvtype = "PageFault"
               THEN [mapped EXCEPT ![space[r]] = @ \cup ({m[s].w[2]} \cap mapped[space[s]])]
               ELSE mapped
  /\ context' = IF recvtype = "Startup" THEN [context EXCEPT ![r] = m[s].w] ELSE context

\* sendError and recvError leave an error in the tag.
TagError(m, type, t) ==
  IF type \in {"MRs", "Startup"} THEN [m EXCEPT ![t] = [Clear(@) EXCEPT !.bit15 = TRUE]] ELSE m

Nothing == UNCHANGED <<from, context, mapped>>

\* The answer to a fault needs memory, and there may be none.
Avail(recvtype) == IF recvtype = "PageFault" THEN BOOLEAN ELSE {TRUE}

-----------------------------------------------------------------------------
(***************************************************************************)
(* The ipc system call.  m has the registers that t has loaded; mr[0] = 0  *)
(* before the receive phase.                                               *)
(***************************************************************************)
SysIpc(t, to, block, spec, m) ==
  LET sent  == [m EXCEPT ![t].bit15 = block]
      after(x) == IF spec = Nil THEN x ELSE [x EXCEPT ![t] = Clear(@)]
      r     == to[1]
      ready == K!Ready(t, to)
      type  == status[r].type
  IN
  /\ \/ /\ to = Nil
        /\ K!IpcReceive(t, spec, TRUE)
        /\ mr' = after(m) /\ Nothing
        /\ UNCHANGED short
     \/ /\ to # Nil
        /\ ready
        /\ \E avail \in Avail(type) :
             /\ IF Suits(sent, "MRs", t, type, avail)
                THEN /\ K!IpcSent(t, to, spec, TRUE)
                     /\ mr' = after(Registers(sent, t, r, "MRs", type, Nil))
                     /\ Received(sent, t, r, type)
                ELSE /\ K!IpcUnsent(t, to, block, spec, TRUE)
                     /\ mr' = TagError(TagError(sent, "MRs", t), type, r)
                     /\ Named(t, r, type) /\ UNCHANGED <<context, mapped>>
             /\ short' = (short \/ ~avail)
     \/ /\ to # Nil
        /\ ~ready
        /\ K!IpcUnsent(t, to, block, spec, TRUE)
        /\ mr' = IF K!Finds(to) /\ block THEN sent ELSE TagError(sent, "MRs", t)
        /\ Nothing
        /\ UNCHANGED short
  /\ UNCHANGED <<faultCode, space, configured>>

\* The wrappers of ipc.h.
Call(t, to, m)      == SysIpc(t, to, TRUE, to, m)
Send(t, to, m)      == SysIpc(t, to, TRUE, Nil, m)
Receive(t, spec)    == SysIpc(t, Nil, FALSE, spec, mr)
Wait(t)             == SysIpc(t, Nil, FALSE, AnyThread, mr)
ReplyWait(t, to, m) == SysIpc(t, to, FALSE, AnyThread, m)

\* An iteration of the loop in recvPhase.
RecvStep ==
  LET r == todo.recv IN
  /\ \/ /\ K!RecvAlone
        /\ mr' = IF todo.from # AnyThread /\ ~K!Finds(todo.from)
                 THEN TagError(mr, todo.type, r) ELSE mr
        /\ Nothing /\ UNCHANGED short
     \/ \E s \in User, avail \in Avail(todo.type) :
          LET type == status[s].type IN
          /\ IF Suits(mr, type, s, todo.type, avail)
             THEN /\ K!RecvRendezvous(s)
                  /\ mr' = Registers(mr, s, r, type, todo.type, faultCode[s])
                  /\ Received(mr, s, r, todo.type)
             ELSE /\ K!RecvRejected(s)
                  /\ mr' = TagError(TagError(mr, type, s), todo.type, r)
                  /\ Named(s, r, todo.type) /\ UNCHANGED <<context, mapped>>
          /\ short' = (short \/ ~avail)
  /\ UNCHANGED <<faultCode, space, configured>>

\* pageFault: t touches a page that its address space does not map.
PageFault(t, page) ==
  LET to == pager[t] IN
  /\ faultCode' = [faultCode EXCEPT ![t] = page]
  /\ \/ /\ to = Nil
        /\ K!FaultHalts(t) /\ UNCHANGED mr /\ Nothing
     \/ /\ to # Nil
        /\ K!FaultSent(t, "PageFault", to)
        /\ mr' = Registers(mr, t, to[1], "PageFault", status[to[1]].type, page)
        /\ Received(mr, t, to[1], status[to[1]].type)
     \/ /\ to # Nil
        /\ K!FaultUnsent(t, "PageFault", to)
        /\ mr' = IF K!Ready(t, to) THEN TagError(mr, status[to[1]].type, to[1]) ELSE mr
        /\ IF K!Ready(t, to) THEN Named(t, to[1], status[to[1]].type) ELSE UNCHANGED from
        /\ UNCHANGED <<context, mapped>>
  /\ UNCHANGED <<space, configured, short>>

-----------------------------------------------------------------------------
(***************************************************************************)
(* threadControl and spaceControl, for the root thread.  Those that are    *)
(* turned down change nothing; their results are not looked at.            *)
(***************************************************************************)
TurnedDown(lacksMemory) ==
  /\ K!Idle
  /\ short' = (short \/ lacksMemory)
  /\ UNCHANGED <<life, version, status, sendqueue, pager, handler, unmasked, todo,
                 mr, from, context, faultCode, space, configured, mapped>>

\* createThread in the space of the thread spec, or in one of its own.
Create(dest, spec, p) ==
  LET sp == IF spec = dest THEN dest ELSE space[spec]
      wrong == \/ spec # dest /\ ~K!Finds(IdOf(spec))
               \/ p # Nil /\ (spec = dest \/ sp \notin configured)
  IN
  /\ life[dest] = "Absent"
  /\ \/ TurnedDown(~wrong)
     \/ /\ ~wrong
        /\ K!CreateThread(dest, 2, p)
        /\ space' = [space EXCEPT ![dest] = sp]
        /\ mr' = [mr EXCEPT ![dest] = Empty]
        /\ context' = [context EXCEPT ![dest] = <<Nil, Nil>>]
        /\ UNCHANGED <<from, faultCode, configured, mapped, short>>

\* modifyThread: activation needs a configured space and memory.
Modify(dest, p) ==
  LET activate == p # Nil /\ life[dest] = "Inactive"
      wrong == activate /\ space[dest] \notin configured
  IN
  /\ life[dest] # "Absent"
  /\ \/ activate /\ TurnedDown(~wrong)
     \/ /\ ~wrong
        /\ K!ModifyThread(dest, 2, p)
        /\ UNCHANGED <<mr, from, context, faultCode, space, configured, mapped, short>>

\* deleteThread, and the address space goes with its last thread.
Delete(dest) ==
  LET sp   == space[dest]
      last == \A t \in User \ {dest} : space[t] # sp
      aborted == {s \in User : status[s].type = "MRs" /\ s \in K!Queued(dest)}
  IN
  /\ life[dest] # "Absent"
  /\ K!DeleteThread(dest)
  /\ mr' = [t \in User |-> IF t \in aborted THEN TagError(mr, "MRs", t)[t] ELSE mr[t]]
  /\ space' = [space EXCEPT ![dest] = Nil]
  /\ configured' = IF last THEN configured \ {sp} ELSE configured
  /\ mapped' = IF last THEN [mapped EXCEPT ![sp] = {}] ELSE mapped
  /\ UNCHANGED <<from, context, faultCode, short>>

ThreadControl(dest, spec, p) ==
  IF spec = Nil
  THEN IF life[dest] = "Absent" THEN TurnedDown(FALSE) ELSE Delete(dest)
  ELSE Create(dest, spec, p) \/ Modify(dest, p)

\* spaceControl is ignored once a thread of the space is active.
SpaceControl(dest) ==
  LET sp == space[dest] IN
  IF \/ life[dest] = "Absent"
     \/ \E t \in User : space[t] = sp /\ life[t] = "Active"
  THEN TurnedDown(FALSE)
  ELSE /\ K!Idle
       /\ configured' = configured \cup {sp}
       /\ UNCHANGED <<life, version, status, sendqueue, pager, handler, unmasked, todo,
                      mr, from, context, faultCode, space, mapped, short>>

\* L4_Start: exchangeRegisters resumes dest at ip, out of the IPC it waits in.
Start(dest, sp, ip) ==
  IF life[dest] # "Active" THEN TurnedDown(FALSE)
  ELSE /\ K!ExchangeRegisters(dest, pager[dest], "resume", TRUE, TRUE)
       /\ context' = [context EXCEPT ![dest] = <<ip, sp>>]
       /\ mr' = IF K!isReceiving(dest) THEN TagError(mr, status[dest].type, dest) ELSE mr
       /\ UNCHANGED <<from, faultCode, space, configured, mapped, short>>

\* The root thread runs in an address space that the kernel has configured.
KernelInit ==
  /\ K!Init
  /\ mr = [t \in User |-> Empty]
  /\ from = [t \in User |-> Nil]
  /\ context = [t \in User |-> <<Nil, Nil>>]
  /\ faultCode = [t \in User |-> Nil]
  /\ space = [t \in User |-> IF t = Root THEN Root ELSE Nil]
  /\ configured = {Root}
  /\ mapped = [t \in User |-> {}]
  /\ short = FALSE
=============================================================================
