------------------------------ MODULE IpcProofs ------------------------------
(***************************************************************************)
(* Proofs about Ipc: sendqueues and interrupts, and that two threads never *)
(* wait for each other, each ready for the other, for any number of        *)
(* threads, interrupts, versions and pagers.                               *)
(***************************************************************************)
EXTENDS Ipc, NatLemmas, SequenceTheorems, TLAPS

(***************************************************************************)
(* Status words.                                                           *)
(***************************************************************************)
LEMMA FixedStatuses ==
  /\ Runnable \in Statuses /\ Halted \in Statuses
  /\ Runnable.mode = "Runnable" /\ Runnable.type = "MRs" /\ ~Runnable.halt
  /\ Halted.mode = "Halted" /\ Halted.type = "MRs" /\ Halted.halt
<1>1. Runnable \in Statuses
  BY DEF Runnable, Statuses, Modes, Types, Specs
<1>2. Runnable.mode = "Runnable" /\ Runnable.type = "MRs" /\ ~Runnable.halt
  BY DEF Runnable
<1>3. Halted \in Statuses /\ Halted.mode = "Halted" /\ Halted.type = "MRs" /\ Halted.halt
  BY <1>1, <1>2 DEF Halted, Statuses, Modes
<1> QED BY <1>1, <1>2, <1>3

LEMMA WaitingStatuses ==
  ASSUME NEW type \in Types, NEW h \in BOOLEAN, NEW spec \in Specs
  PROVE  /\ \A r \in TCB, w \in BOOLEAN :
              /\ Sending(type, h, r, spec, w) \in Statuses
              /\ Sending(type, h, r, spec, w).mode = "Sending"
              /\ Sending(type, h, r, spec, w).type = type
              /\ Sending(type, h, r, spec, w).halt = h
              /\ Sending(type, h, r, spec, w).receiver = r
         /\ Receiving(type, h, spec) \in Statuses
         /\ Receiving(type, h, spec).mode = "Receiving"
         /\ Receiving(type, h, spec).type = type
         /\ Receiving(type, h, spec).halt = h
BY DEF Sending, Receiving, Statuses, Modes

\* What the end of an IPC, good or bad, does to statuses: a thread whose status
\* changes is halted, or runs if it was not halted before.
Calmer(st, st2) ==
  /\ st2 \in [TCB -> Statuses]
  /\ \A x \in TCB : \/ st2[x] = st[x]
                    \/ st2[x] = Halted
                    \/ st2[x] = Runnable /\ ~st[x].halt

Only(st, st2, T) == \A x \in TCB \ T : st2[x] = st[x]

LEMMA ThreadEnds ==
  ASSUME NEW st \in [TCB -> Statuses], NEW t \in TCB, NEW st2,
         \/ st2 = haltThread(st, t) \/ st2 = resumeThread(st, t)
         \/ \E type : st2 = sendError(st, type, t)
         \/ \E type : st2 = recvError(st, type, t)
  PROVE  Calmer(st, st2) /\ Only(st, st2, {t}) /\ st2[t] \in {Runnable, Halted}
<1>1. st2 = haltThread(st, t) \/ st2 = resumeThread(st, t)
  BY DEF sendError, recvError
<1>2. CASE st2 = haltThread(st, t)
  BY <1>2, FixedStatuses DEF haltThread, Calmer, Only
<1>3. CASE st2 = resumeThread(st, t)
  BY <1>3, FixedStatuses DEF resumeThread, Calmer, Only
<1> QED BY <1>1, <1>2, <1>3

LEMMA CalmerTwice ==
  ASSUME NEW st \in [TCB -> Statuses], NEW st2, NEW st3, NEW T, NEW T2,
         Calmer(st, st2), Calmer(st2, st3), Only(st, st2, T), Only(st2, st3, T2)
  PROVE  Calmer(st, st3) /\ Only(st, st3, T \cup T2)
BY FixedStatuses DEF Calmer, Only

(***************************************************************************)
(* Queues.                                                                 *)
(***************************************************************************)
Elems(q) == {q[i] : i \in DOMAIN q}
Once(q)  == \A i, j \in DOMAIN q : i # j => q[i] # q[j]

LEMMA AppendElems ==
  ASSUME NEW S, NEW q \in Seq(S), NEW t \in S
  PROVE  /\ Append(q, t) \in Seq(S)
         /\ Elems(Append(q, t)) = Elems(q) \cup {t}
         /\ Once(q) /\ t \notin Elems(q) => Once(Append(q, t))
<1> DEFINE n == Len(q)
           a == Append(q, t)
<1>1. n \in Nat /\ DOMAIN q = 1 .. n /\ \A k \in 1 .. n : q[k] \in S
  BY LenProperties, ElementOfSeq
<1>2. /\ a \in Seq(S) /\ DOMAIN a = 1 .. n + 1
      /\ \A k \in 1 .. n + 1 : a[k] = IF k = n + 1 THEN t ELSE q[k]
  BY <1>1
<1> HIDE DEF n, a
<1>3. Elems(a) = Elems(q) \cup {t}
  <2>1. ASSUME NEW k \in 1 .. n PROVE q[k] \in Elems(a)
    BY <1>1, <1>2, k \in 1 .. n + 1, k # n + 1 DEF Elems
  <2>2. t \in Elems(a)
    BY <1>1, <1>2, n + 1 \in 1 .. n + 1 DEF Elems
  <2>3. ASSUME NEW k \in 1 .. n + 1 PROVE a[k] \in Elems(q) \cup {t}
    BY <1>1, <1>2 DEF Elems
  <2>4. Elems(q) = {q[k] : k \in 1 .. n} /\ Elems(a) = {a[k] : k \in 1 .. n + 1}
    BY <1>1, <1>2 DEF Elems
  <2> QED BY <2>1, <2>2, <2>3, <2>4
<1>4. ASSUME Once(q), t \notin Elems(q) PROVE Once(a)
  BY <1>1, <1>2, <1>4 DEF Elems, Once
<1> QED BY <1>2, <1>3, <1>4 DEF a

LEMMA WithoutElems ==
  ASSUME NEW S, NEW q \in Seq(S), NEW t, Once(q)
  PROVE  /\ Without(q, t) \in Seq(S)
         /\ Elems(Without(q, t)) = Elems(q) \ {t}
         /\ Once(Without(q, t))
<1>1. CASE ~\E j \in DOMAIN q : q[j] = t
  BY <1>1 DEF Without, Elems
<1>2. CASE \E j \in DOMAIN q : q[j] = t
  <2> DEFINE i == CHOOSE i \in DOMAIN q : q[i] = t
             n == Len(q) - 1
             w == [j \in 1 .. n |-> IF j < i THEN q[j] ELSE q[j + 1]]
  <2>1. i \in DOMAIN q /\ q[i] = t
    BY <1>2
  <2>2. Without(q, t) = w
    BY <1>2 DEF Without
  <2>3. n \in Nat /\ i \in 1 .. n + 1 /\ DOMAIN q = 1 .. n + 1 /\ \A k \in 1 .. n + 1 : q[k] \in S
    BY <2>1, LenProperties, ElementOfSeq
  <2> HIDE DEF i, n
  <2>4. w \in [1 .. n -> S]
    BY <2>3
  <2>5. w \in Seq(S)
    BY <2>3, <2>4, SeqDef
  <2>6. DOMAIN w = 1 .. n /\ \A k \in 1 .. n : w[k] = IF k < i THEN q[k] ELSE q[k + 1]
    OBVIOUS
  <2> HIDE DEF w
  <2> DEFINE origin(k) == IF k < i THEN k ELSE k + 1
  <2>a. ASSUME NEW k \in 1 .. n
        PROVE  origin(k) \in 1 .. n + 1 /\ origin(k) # i /\ w[k] = q[origin(k)]
    BY <2>3, <2>6
  <2>b. \A k, l \in 1 .. n : k # l => origin(k) # origin(l)
    BY <2>3
  <2>c. \A k, l \in 1 .. n + 1 : k # l => q[k] # q[l]
    BY <2>3 DEF Once
  <2> HIDE DEF origin
  <2>7. Once(w)
    BY <2>a, <2>b, <2>c, <2>6 DEF Once
  <2>8. Elems(w) = Elems(q) \ {t}
    <3>1. ASSUME NEW k \in 1 .. n PROVE w[k] \in Elems(q) \ {t}
      BY <2>a, <2>c, <2>1, <2>3 DEF Elems
    <3>2. ASSUME NEW k \in 1 .. n + 1, q[k] # t PROVE q[k] \in Elems(w)
      <4>1. CASE k < i
        BY <4>1, <2>3, <2>6 DEF Elems
      <4>2. CASE k > i
        <5>1. k - 1 \in 1 .. n /\ w[k - 1] = q[k]
          BY <4>2, <2>3, <2>6
        <5> QED BY <5>1, <2>6 DEF Elems
      <4> QED BY <4>1, <4>2, <3>2, <2>1, <2>3
    <3> QED BY <3>1, <3>2, <2>3, <2>6 DEF Elems
  <2> QED BY <2>2, <2>5, <2>7, <2>8
<1> QED BY <1>1, <1>2

(***************************************************************************)
(* The inductive invariant.                                                *)
(***************************************************************************)
\* What holds of every thread.  Only an interrupt whose TCB is idle may arrive,
\* only threads that are active do more than wait to be activated, and the
\* TCBs of interrupts remain halted beside whatever they send or receive.
Sound(t) ==
  /\ t \in IRQ => status[t].halt /\ life[t] = "Inactive"
  /\ t \in User => life[t] = "Active" \/ status[t] = Halted
  /\ status[t].type = "Interrupt" => t \in IRQ /\ pager[t] # <<t, 1>>
  /\ t \in unmasked => status[t] = Halted /\ pager[t] # <<t, 1>>
  /\ isSending(t) => status[t].receiver \in TCB

AllSound == \A t \in TCB : Sound(t)

\* The receiver of recvPhase is not sending any more; unless it is in the ipc
\* system call, it has been made to receive already.
LoopReady ==
  \/ Idle
  \/ /\ ~isSending(todo.recv)
     /\ \/ todo.type = "MRs"
        \/ isReceiving(todo.recv) /\ status[todo.recv].type = todo.type

IInv == TypeOK /\ LoopReady /\ SendqueuesExact /\ AllSound

LEMMA Distinct ==
  /\ TCB = User \cup IRQ /\ User \cap IRQ = {}
  /\ Id \subseteq Specs /\ Pagers \subseteq Specs /\ Handlers \subseteq Specs
  /\ Nil \in Specs /\ AnyThread \in Specs /\ AnyLocal \in Specs
  /\ Nil \notin Id /\ AnyThread \notin Id /\ AnyLocal \notin Id
  /\ Nil # AnyThread /\ Nil # AnyLocal /\ AnyThread # AnyLocal
  /\ Root \in User /\ 1 \in Version
  /\ \A id \in Id : id[1] \in TCB /\ id[2] \in Version /\ id = <<id[1], id[2]>>
  /\ \A t \in TCB, v \in Version : <<t, v>> \in Id
BY IpcAssumption DEF TCB, Id, Specs

(***************************************************************************)
(* Sendqueues: nobody joins or leaves, one joins, one leaves.              *)
(***************************************************************************)
Senders(r) == {s \in TCB : isSending(s) /\ status[s].receiver = r}

QueuesMatch ==
  \A r \in TCB :
    /\ Elems(sendqueue[r]) = Senders(r)
    /\ Once(sendqueue[r])
    /\ Senders(r) # {} => life[r] # "Absent"

LEMMA QueuesAreExact ==
  ASSUME TypeOK
  PROVE  /\ SendqueuesExact => QueuesMatch
         /\ QueuesMatch /\ AllSound => SendqueuesExact
<1>1. \A r \in TCB : Queued(r) = Elems(sendqueue[r]) /\ Queued(r) \subseteq TCB
  <2> TAKE r \in TCB
  <2>1. sendqueue[r] \in Seq(TCB)
    BY DEF TypeOK
  <2>2. \A i \in DOMAIN sendqueue[r] : sendqueue[r][i] \in TCB
    BY <2>1, LenProperties, ElementOfSeq
  <2> QED BY <2>2 DEF Queued, Elems
<1>2. ASSUME SendqueuesExact PROVE QueuesMatch
  <2>1. ASSUME NEW r \in TCB PROVE Queued(r) = Senders(r)
    BY <1>1, <1>2 DEF SendqueuesExact, Senders
  <2>2. ASSUME NEW r \in TCB, Senders(r) # {} PROVE life[r] # "Absent"
    BY <2>1, <2>2, <1>1, <1>2 DEF SendqueuesExact
  <2>3. ASSUME NEW r \in TCB PROVE Once(sendqueue[r])
    BY <1>2 DEF SendqueuesExact, Once
  <2> QED BY <2>1, <2>2, <2>3, <1>1 DEF QueuesMatch
<1>3. ASSUME QueuesMatch, AllSound PROVE SendqueuesExact
  <2>1. ASSUME NEW s \in TCB, NEW r \in TCB
        PROVE  s \in Queued(r) <=> isSending(s) /\ status[s].receiver = r
    BY <1>1, <1>3 DEF QueuesMatch, Senders
  <2>2. ASSUME NEW s \in TCB, NEW r \in TCB, s \in Queued(r)
        PROVE  life[r] # "Absent" /\ life[s] # "Absent"
    <3>1. s \in Senders(r) /\ life[r] # "Absent"
      BY <1>1, <1>3, <2>2 DEF QueuesMatch
    <3>2. isSending(s) /\ status[s] # Halted
      BY <3>1, FixedStatuses DEF Senders, isSending
    <3> QED BY <3>1, <3>2, <1>3, Distinct DEF AllSound, Sound
  <2>3. ASSUME NEW r \in TCB
        PROVE  \A i, j \in DOMAIN sendqueue[r] : i # j => sendqueue[r][i] # sendqueue[r][j]
    BY <1>3 DEF QueuesMatch, Once
  <2> QED BY <2>1, <2>2, <2>3 DEF SendqueuesExact
<1> QED BY <1>2, <1>3

\* x still sends to the same thread, or is no sender before or after the step.
Alike(x) ==
  \/ status'[x].mode = status[x].mode /\ status'[x].receiver = status[x].receiver
  \/ status[x].mode # "Sending" /\ status'[x].mode # "Sending"

LEMMA NobodyQueues ==
  ASSUME QueuesMatch, UNCHANGED sendqueue, \A x \in TCB : Alike(x),
         \A x \in TCB : life[x] # "Absent" => life'[x] # "Absent"
  PROVE  QueuesMatch'
<1>1. \A r \in TCB : Senders(r)' = Senders(r)
  BY DEF Senders, isSending, Alike
<1> QED BY <1>1 DEF QueuesMatch

LEMMA OneJoins ==
  ASSUME TypeOK, QueuesMatch, NEW s \in TCB, NEW r \in TCB,
         ~isSending(s), isSending(s)', status'[s].receiver = r,
         \A x \in TCB \ {s} : Alike(x),
         sendqueue' = [sendqueue EXCEPT ![r] = Append(@, s)],
         life' = life, life[r] # "Absent"
  PROVE  QueuesMatch'
<1>1. Senders(r)' = Senders(r) \cup {s} /\ s \notin Senders(r)
  BY DEF Senders, isSending, Alike
<1>2. \A x \in TCB \ {r} : Senders(x)' = Senders(x)
  BY DEF Senders, isSending, Alike
<1>3. /\ sendqueue'[r] = Append(sendqueue[r], s)
      /\ \A x \in TCB \ {r} : sendqueue'[x] = sendqueue[x]
      /\ sendqueue[r] \in Seq(TCB)
  BY DEF TypeOK
<1>4. Elems(sendqueue'[r]) = Senders(r)' /\ Once(sendqueue'[r])
  BY <1>1, <1>3, AppendElems DEF QueuesMatch
<1> QED BY <1>1, <1>2, <1>3, <1>4 DEF QueuesMatch

LEMMA OneLeaves ==
  ASSUME TypeOK, QueuesMatch, NEW s \in TCB, NEW r \in TCB,
         isSending(s), status[s].receiver = r, ~isSending(s)',
         \A x \in TCB \ {s} : Alike(x),
         sendqueue' = [sendqueue EXCEPT ![r] = Without(@, s)],
         life' = life
  PROVE  QueuesMatch'
<1>1. Senders(r)' = Senders(r) \ {s}
  BY DEF Senders, isSending, Alike
<1>2. \A x \in TCB \ {r} : Senders(x)' = Senders(x)
  BY DEF Senders, isSending, Alike
<1>3. /\ sendqueue'[r] = Without(sendqueue[r], s)
      /\ \A x \in TCB \ {r} : sendqueue'[x] = sendqueue[x]
      /\ sendqueue[r] \in Seq(TCB)
  BY DEF TypeOK
<1>4. Elems(sendqueue'[r]) = Senders(r)' /\ Once(sendqueue'[r])
  BY <1>1, <1>3, WithoutElems DEF QueuesMatch
<1> QED BY <1>1, <1>2, <1>3, <1>4 DEF QueuesMatch

(***************************************************************************)
(* What the phases of an IPC do to the invariant.                          *)
(***************************************************************************)
\* The interrupts that a step enables are idle and have a handler.
MayEnable(n) == n \in IRQ /\ status'[n] = Halted /\ pager[n] # <<n, 1>>

LEMMA CalmerSound ==
  ASSUME TypeOK, AllSound, Calmer(status, status'), UNCHANGED pager,
         \A x \in TCB : life'[x] = life[x] \/ (x \in User /\ status'[x] = Halted),
         \A n \in unmasked' : n \in unmasked \/ MayEnable(n)
  PROVE  AllSound'
<1> SUFFICES ASSUME NEW t \in TCB PROVE Sound(t)'
  BY DEF AllSound
<1>1. Sound(t) /\ ~(t \in User /\ t \in IRQ)
  BY Distinct DEF AllSound
<1>2. CASE status'[t] = status[t]
  BY <1>1, <1>2 DEF Sound, MayEnable, isSending
<1>3. CASE status'[t] = Halted
  BY <1>1, <1>3, FixedStatuses DEF Sound, MayEnable, isSending
<1>4. CASE status'[t] = Runnable /\ ~status[t].halt
  BY <1>1, <1>4, FixedStatuses DEF Sound, MayEnable, isSending
<1> QED BY <1>2, <1>3, <1>4 DEF Calmer

LEMMA Restored ==
  ASSUME TypeOK', LoopReady', QueuesMatch', AllSound'
  PROVE  IInv'
<1>1. TypeOK' => (QueuesMatch' /\ AllSound' => SendqueuesExact')
  BY QueuesAreExact, PTL
<1> QED BY <1>1 DEF IInv

TodoOK == todo \in [recv : TCB, type : Types, from : Specs, patient : BOOLEAN]

LEMMA IdleTodo ==
  /\ NoWork \in [recv : TCB, type : Types, from : Specs, patient : BOOLEAN]
  /\ Idle' => TodoOK'
<1>1. "MRs" \in Types /\ Root \in TCB /\ Nil \in Specs /\ FALSE \in BOOLEAN
  BY Distinct DEF Types
<1>2. NoWork \in [recv : TCB, type : Types, from : Specs, patient : BOOLEAN]
  BY <1>1 DEF NoWork, Work
<1>3. Idle' => todo' = NoWork
  BY DEF Idle, NoWork, Work
<1> QED BY <1>2, <1>3 DEF TodoOK

\* No thread that is halted may run again.
KeepsHalted == \A x \in TCB : status[x].halt => status'[x].halt

LEMMA CalmerHalted ==
  ASSUME Calmer(status, status')
  PROVE  KeepsHalted
BY FixedStatuses DEF Calmer, KeepsHalted

\* A step after which some threads, none of them a sender, have come to the end
\* of their IPC.
LEMMA CalmStep ==
  ASSUME IInv, Idle', Calmer(status, status'), \A x \in TCB : Alike(x),
         UNCHANGED <<sendqueue, ids, partners>>, unmasked' \subseteq unmasked
  PROVE  IInv' /\ KeepsHalted
<1>1. TypeOK'
  BY IdleTodo DEF IInv, TypeOK, TodoOK, Calmer, ids, partners
<1>2. AllSound'
  <2>1. /\ UNCHANGED pager /\ TypeOK /\ AllSound
        /\ \A n \in unmasked' : n \in unmasked \/ MayEnable(n)
    BY DEF IInv, partners
  <2>2. \A x \in TCB : life'[x] = life[x] \/ (x \in User /\ status'[x] = Halted)
    BY DEF ids
  <2> QED BY <2>1, <2>2, CalmerSound
<1>3. LoopReady'
  BY DEF LoopReady, Idle
<1>4. QueuesMatch'
  BY QueuesAreExact, NobodyQueues DEF IInv, ids
<1> QED BY <1>1, <1>2, <1>3, <1>4, Restored, CalmerHalted

LEMMA EndsAlike ==
  ASSUME TypeOK, Calmer(status, status'), NEW x \in TCB, ~isSending(x)
  PROVE  Alike(x)
BY FixedStatuses DEF Calmer, Alike, isSending

LEMMA SendRejectedStep ==
  ASSUME IInv, Idle, NEW type, NEW s \in TCB, ~isSending(s), NEW to, NEW on \in SUBSET unmasked,
         SendRejected(type, s, to, on), UNCHANGED <<ids, partners, todo>>
  PROVE  IInv' /\ KeepsHalted
<1> DEFINE r  == to[1]
           st == sendError(status, type, s)
<1>1. r \in TCB /\ isReceiving(r)
  BY Distinct DEF SendRejected, Ready, Finds
<1>2. status \in [TCB -> Statuses]
  BY DEF IInv, TypeOK
<1>3. Calmer(status, st) /\ Only(status, st, {s}) /\ st \in [TCB -> Statuses]
  BY <1>2, ThreadEnds DEF Calmer
<1>4. Calmer(st, status') /\ Only(st, status', {r})
  BY <1>1, <1>3, ThreadEnds DEF SendRejected
<1>5. Calmer(status, status') /\ Only(status, status', {s} \cup {r})
  BY <1>2, <1>3, <1>4, CalmerTwice
<1>6. ASSUME NEW x \in TCB PROVE Alike(x)
  BY <1>1, <1>5, EndsAlike DEF Only, Alike, IInv, isReceiving, isSending
<1>7. UNCHANGED sendqueue /\ unmasked' = on
  BY DEF SendRejected
<1> QED BY <1>5, <1>6, <1>7, CalmStep DEF Idle

LEMMA SendFailsStep ==
  ASSUME IInv, Idle, NEW type, NEW s \in TCB, ~isSending(s), NEW to, NEW on \in SUBSET unmasked,
         NEW b, SendFails(type, s, to, on, b), UNCHANGED <<ids, partners, todo>>
  PROVE  IInv' /\ KeepsHalted
<1>1. status \in [TCB -> Statuses]
  BY DEF IInv, TypeOK
<1>2. Calmer(status, status') /\ Only(status, status', {s})
  BY <1>1, ThreadEnds DEF SendFails
<1>3. ASSUME NEW x \in TCB PROVE Alike(x)
  BY <1>2, EndsAlike DEF Only, Alike, IInv, isSending
<1>4. UNCHANGED sendqueue /\ unmasked' = on
  BY DEF SendFails
<1> QED BY <1>2, <1>3, <1>4, CalmStep DEF Idle

\* A sender is a thread that is active and runs, or an interrupt that has just
\* been masked.
MaySend(type, s, on) ==
  /\ s \in TCB /\ type \in Types
  /\ on \subseteq unmasked /\ s \notin on
  /\ \/ s \in User /\ status[s] = Runnable /\ type # "Interrupt"
     \/ s \in IRQ /\ status[s] = Halted /\ pager[s] # <<s, 1>>

LEMMA MaySendIdle ==
  ASSUME IInv, NEW type, NEW s, NEW on, MaySend(type, s, on)
  PROVE  /\ ~isSending(s) /\ ~isReceiving(s) /\ life[s] # "Absent"
         /\ s \in User => life[s] = "Active"
BY FixedStatuses, Distinct DEF MaySend, isSending, isReceiving, IInv, AllSound, Sound

LEMMA SendWaitsStep ==
  ASSUME IInv, Idle, NEW type, NEW s, NEW to, NEW on, MaySend(type, s, on),
         NEW spec \in Specs, NEW w \in BOOLEAN,
         SendWaits(type, s, to, on, spec, w), UNCHANGED <<ids, partners, todo>>
  PROVE  IInv' /\ KeepsHalted
<1> DEFINE r == to[1]
           h == status[s].halt
<1>1. r \in TCB /\ life[r] # "Absent"
  BY Distinct DEF SendWaits, Finds
<1>2. s \in TCB /\ type \in Types /\ status \in [TCB -> Statuses] /\ h \in BOOLEAN
  BY DEF MaySend, IInv, TypeOK, Statuses
<1>3. status' = [status EXCEPT ![s] = Sending(type, h, r, spec, w)]
  BY <1>2 DEF SendWaits
<1>4. /\ status'[s] \in Statuses /\ status'[s].mode = "Sending" /\ status'[s].type = type
      /\ status'[s].halt = h /\ status'[s].receiver = r
  BY <1>1, <1>2, <1>3, WaitingStatuses
<1>5. Only(status, status', {s})
  BY <1>2, <1>3 DEF Only
<1>6. sendqueue' = [sendqueue EXCEPT ![r] = Append(@, s)] /\ unmasked' = on
  BY DEF SendWaits
<1>7. TypeOK'
  <2>1. status' \in [TCB -> Statuses]
    BY <1>2, <1>3, <1>4
  <2>2. sendqueue' \in [TCB -> Seq(TCB)]
    BY <1>1, <1>2, <1>6, AppendElems DEF IInv, TypeOK
  <2> QED BY <2>1, <2>2, <1>6 DEF MaySend, IInv, TypeOK, ids, partners
<1>8. LoopReady'
  BY DEF LoopReady, Idle
<1>9. QueuesMatch'
  <2>1. QueuesMatch
    BY QueuesAreExact DEF IInv
  <2>2. \A x \in TCB \ {s} : Alike(x)
    BY <1>5 DEF Only, Alike
  <2>3. ~isSending(s) /\ isSending(s)'
    BY <1>4, MaySendIdle DEF isSending
  <2> QED BY <2>1, <2>2, <2>3, <1>1, <1>2, <1>4, <1>6, OneJoins DEF IInv, ids
<1>10. AllSound'
  <2> SUFFICES ASSUME NEW t \in TCB PROVE Sound(t)'
    BY DEF AllSound
  <2>1. CASE t = s
    BY <2>1, <1>1, <1>4, <1>6, MaySendIdle, FixedStatuses, Distinct
       DEF MaySend, Sound, IInv, AllSound, ids, partners
  <2>2. CASE t # s
    BY <2>2, <1>5, <1>6 DEF Only, MaySend, Sound, IInv, AllSound, ids, partners, isSending
  <2> QED BY <2>1, <2>2
<1>11. KeepsHalted
  BY <1>4, <1>5 DEF KeepsHalted, Only
<1> QED BY <1>7, <1>8, <1>9, <1>10, <1>11, Restored

LEMMA SendNowStep ==
  ASSUME IInv, NEW type, NEW s, NEW to, NEW on, MaySend(type, s, on),
         NEW sent \in Statuses, sent.mode # "Sending", sent.halt = status[s].halt,
         sent.type \in {type, "MRs"},
         SendNow(type, s, to, sent, on), UNCHANGED <<ids, partners>>, TodoOK'
  PROVE  TypeOK' /\ QueuesMatch' /\ AllSound' /\ KeepsHalted /\ status'[s] = sent
<1> DEFINE r  == to[1]
           st == resumeThread(status, r)
<1>1. r \in TCB /\ isReceiving(r) /\ s \in TCB /\ s # r
  BY Distinct, MaySendIdle DEF SendNow, Ready, Finds, MaySend
<1>2. status \in [TCB -> Statuses]
  BY DEF IInv, TypeOK
<1>3. /\ Calmer(status, st) /\ Only(status, st, {r}) /\ st[r] \in {Runnable, Halted}
      /\ st \in [TCB -> Statuses]
  <2> HIDE DEF r
  <2>1. Calmer(status, st) /\ Only(status, st, {r}) /\ st[r] \in {Runnable, Halted}
    BY <1>1, <1>2, ThreadEnds
  <2> QED BY <2>1 DEF Calmer
<1>4. status' = [st EXCEPT ![s] = sent] /\ UNCHANGED sendqueue
  BY DEF SendNow
<1> HIDE DEF st
<1>5. /\ status' \in [TCB -> Statuses] /\ status'[s] = sent
      /\ \A x \in TCB \ {s} : status'[x] = st[x]
  BY <1>1, <1>3, <1>4
<1>6. unmasked' = Reenabled(on, status[r].type, r) /\ TRUE \in Transfers(type, status[r].type)
  BY DEF SendNow
<1>7. status[r].type = "Interrupt" => r \in IRQ /\ st[r] = Halted /\ pager[r] # <<r, 1>>
  BY <1>1, <1>3, FixedStatuses DEF IInv, AllSound, Sound, Calmer, isReceiving
<1>8. \A n \in unmasked' : \/ n \in on
                           \/ n = r /\ status[r].type = "Interrupt"
  BY <1>6 DEF Reenabled
<1>9. TypeOK'
  BY <1>5, <1>4, <1>7, <1>8 DEF MaySend, IInv, TypeOK, ids, partners, TodoOK
<1>10. QueuesMatch'
  <2>1. QueuesMatch
    BY QueuesAreExact DEF IInv
  <2>2. ASSUME NEW x \in TCB PROVE Alike(x)
    <3>1. CASE x = s
      BY <3>1, <1>5, MaySendIdle DEF Alike, isSending
    <3>2. CASE x = r
      BY <3>2, <1>1, <1>3, <1>5, FixedStatuses DEF Alike, isReceiving
    <3>3. CASE x # s /\ x # r
      BY <3>3, <1>3, <1>5 DEF Alike, Only
    <3> QED BY <3>1, <3>2, <3>3
  <2> QED BY <2>1, <2>2, <1>4, NobodyQueues DEF ids
<1>11. AllSound'
  <2> SUFFICES ASSUME NEW t \in TCB PROVE Sound(t)'
    BY DEF AllSound
  <2>0. Sound(t)
    BY DEF IInv, AllSound
  <2>1. CASE t = s
    BY <2>0, <2>1, <1>1, <1>5, <1>8, MaySendIdle, FixedStatuses, Distinct
       DEF MaySend, Sound, ids, partners, isSending
  <2>2. CASE t = r
    <3>1. status'[r] = st[r]
      BY <1>1, <1>5
    <3>2. status[r] # Halted /\ (status[r].halt => st[r] = Halted)
      BY <1>1, <1>3, FixedStatuses DEF Calmer, isReceiving
    <3> QED BY <2>0, <2>2, <3>1, <3>2, <1>3, <1>7, <1>8, FixedStatuses, Distinct
            DEF MaySend, Sound, ids, partners, isSending
  <2>3. CASE t # s /\ t # r
    <3>1. status'[t] = status[t]
      BY <2>3, <1>3, <1>5 DEF Only
    <3> QED BY <2>0, <2>3, <3>1, <1>8 DEF MaySend, Sound, ids, partners, isSending
  <2> QED BY <2>1, <2>2, <2>3
<1>12. KeepsHalted
  BY <1>3, <1>5, FixedStatuses DEF KeepsHalted, Calmer
<1> QED BY <1>5, <1>9, <1>10, <1>11, <1>12

(***************************************************************************)
(* The system calls and the faults of a thread.                            *)
(***************************************************************************)
LEMMA RunsMaySend ==
  ASSUME IInv, NEW t \in User, status[t] = Runnable, NEW type \in Types, type # "Interrupt"
  PROVE  MaySend(type, t, unmasked)
<1>1. t \notin unmasked
  BY FixedStatuses, Distinct DEF IInv, AllSound, Sound
<1> QED BY <1>1, Distinct DEF MaySend

LEMMA IpcStep ==
  ASSUME IInv, NEW t \in User, NEW to \in Id \cup {Nil, AnyThread}, NEW spec \in Specs,
         NEW b \in BOOLEAN, NEW w \in BOOLEAN, Ipc(t, to, b, spec, w)
  PROVE  IInv' /\ KeepsHalted
<1>0. t \in TCB /\ "MRs" \in Types /\ Idle /\ status[t] = Runnable /\ NoWork.type = "MRs"
  BY Distinct DEF Ipc, IpcReceive, IpcSent, IpcUnsent, Types, NoWork, Work
<1>1. MaySend("MRs", t, unmasked) /\ ~isSending(t)
  BY <1>0, RunsMaySend, MaySendIdle
<1>2. Work(t, "MRs", spec, w) \in [recv : TCB, type : Types, from : Specs, patient : BOOLEAN]
  BY <1>0 DEF Work
<1>3. NoWork \in [recv : TCB, type : Types, from : Specs, patient : BOOLEAN]
  BY IdleTodo
<1>4. ASSUME todo' = IF spec = Nil THEN NoWork ELSE Work(t, "MRs", spec, w),
             ~isSending(t)'
      PROVE  TodoOK' /\ LoopReady'
  BY <1>2, <1>3, <1>4 DEF TodoOK, LoopReady, Idle, Work
<1>5. CASE IpcReceive(t, spec, w)
  <2>1. TodoOK' /\ LoopReady'
    BY <1>1, <1>4, <1>5 DEF IpcReceive, isSending
  <2>2. TypeOK' /\ QueuesMatch' /\ AllSound' /\ KeepsHalted
    <3>1. TypeOK'
      BY <2>1, <1>5 DEF IpcReceive, IInv, TypeOK, TodoOK, ids, partners
    <3>2. QueuesMatch'
      BY <1>5, QueuesAreExact, NobodyQueues DEF IpcReceive, IInv, Alike, ids
    <3>3. AllSound'
      BY <1>5 DEF IpcReceive, IInv, AllSound, Sound, ids, partners, isSending
    <3>4. KeepsHalted
      BY <1>5 DEF IpcReceive, KeepsHalted
    <3> QED BY <3>1, <3>2, <3>3, <3>4
  <2> QED BY <2>1, <2>2, Restored
<1>6. CASE IpcSent(t, to, spec, w)
  <2>1. SendNow("MRs", t, to, Runnable, unmasked) /\ UNCHANGED <<ids, partners>>
    BY <1>6 DEF IpcSent
  <2>2. todo' = IF spec = Nil THEN NoWork ELSE Work(t, "MRs", spec, w)
    BY <1>6 DEF IpcSent
  <2>3. TodoOK'
    BY <2>2, <1>2, <1>3 DEF TodoOK
  <2>4. TypeOK' /\ QueuesMatch' /\ AllSound' /\ KeepsHalted /\ status'[t] = Runnable
    BY <2>1, <2>3, <1>0, <1>1, FixedStatuses, SendNowStep
  <2>5. LoopReady'
    BY <2>2, <2>4, <1>4, FixedStatuses DEF isSending
  <2> QED BY <2>4, <2>5, Restored
<1>7. CASE IpcUnsent(t, to, b, spec, w)
  <2>1. UNCHANGED <<ids, partners, todo>>
    BY <1>7 DEF IpcUnsent
  <2>2. CASE SendRejected("MRs", t, to, unmasked)
    BY <2>1, <2>2, <1>0, <1>1, SendRejectedStep
  <2>3. CASE SendWaits("MRs", t, to, unmasked, spec, w)
    BY <2>1, <2>3, <1>0, <1>1, SendWaitsStep
  <2>4. CASE SendFails("MRs", t, to, unmasked, b)
    BY <2>1, <2>4, <1>0, <1>1, SendFailsStep
  <2> QED BY <2>2, <2>3, <2>4, <1>7 DEF IpcUnsent
<1> QED BY <1>5, <1>6, <1>7 DEF Ipc

LEMMA FaultStep ==
  ASSUME IInv, NEW t \in User, NEW type \in {"PageFault", "Exception"}, Fault(t, type)
  PROVE  IInv' /\ KeepsHalted
<1> DEFINE to == recvFromSpec(type, t)
<1>0. /\ t \in TCB /\ type \in Types /\ type # "Interrupt" /\ Idle /\ status[t] = Runnable
      /\ UNCHANGED <<ids, partners, todo>>
  BY Distinct DEF Fault, FaultSent, FaultUnsent, FaultHalts, Types
<1>1. MaySend(type, t, unmasked) /\ ~isSending(t)
  BY <1>0, RunsMaySend, MaySendIdle
<1>2. CASE FaultHalts(t)
  <2>1. Calmer(status, status') /\ Only(status, status', {t})
    BY <1>0, <1>2, ThreadEnds DEF FaultHalts, IInv, TypeOK
  <2>2. ASSUME NEW x \in TCB PROVE Alike(x)
    BY <1>1, <2>1, EndsAlike DEF Only, Alike, IInv, isSending
  <2> QED BY <1>0, <1>2, <2>1, <2>2, CalmStep DEF FaultHalts, Idle
<1>3. CASE FaultSent(t, type, to)
  <2> DEFINE sent == Receiving(type, FALSE, Nil)
  <2>1. SendNow(type, t, to, sent, unmasked)
    BY <1>3 DEF FaultSent
  <2>2. /\ sent \in Statuses /\ sent.mode # "Sending" /\ sent.type = type
        /\ sent.halt = status[t].halt
    <3>1. FALSE \in BOOLEAN /\ Nil \in Specs
      BY Distinct
    <3>2. /\ sent \in Statuses /\ sent.mode = "Receiving" /\ sent.type = type
          /\ sent.halt = FALSE
      BY <3>1, <1>0 DEF Receiving, Statuses, Modes
    <3>3. status[t].halt = FALSE
      BY <1>0 DEF Runnable
    <3> HIDE DEF sent
    <3> QED BY <3>2, <3>3
  <2>3. TodoOK' /\ LoopReady'
    BY <1>0 DEF IInv, TypeOK, TodoOK, LoopReady, Idle
  <2>4. TypeOK' /\ QueuesMatch' /\ AllSound' /\ KeepsHalted
    <3> HIDE DEF sent, to
    <3> QED BY <1>0, <1>1, <2>1, <2>2, <2>3, SendNowStep
  <2> QED BY <2>3, <2>4, Restored
<1>4. CASE FaultUnsent(t, type, to)
  <2>1. CASE SendRejected(type, t, to, unmasked)
    BY <2>1, <1>0, <1>1, SendRejectedStep
  <2>2. CASE SendWaits(type, t, to, unmasked, Nil, FALSE)
    BY <2>2, <1>0, <1>1, SendWaitsStep, Distinct
  <2>3. CASE SendFails(type, t, to, unmasked, TRUE)
    BY <2>3, <1>0, <1>1, SendFailsStep
  <2> QED BY <2>1, <2>2, <2>3, <1>4 DEF FaultUnsent
<1> QED BY <1>2, <1>3, <1>4 DEF Fault

LEMMA HardwareIRQStep ==
  ASSUME IInv, NEW n \in IRQ, HardwareIRQ(n)
  PROVE  IInv' /\ KeepsHalted
<1> DEFINE on == unmasked \ {n}
           to == pager[n]
<1>0. /\ n \in TCB /\ "Interrupt" \in Types /\ Idle /\ n \in unmasked
      /\ UNCHANGED <<ids, partners, todo>>
  BY Distinct DEF HardwareIRQ, Types
<1>1. MaySend("Interrupt", n, on) /\ ~isSending(n)
  BY <1>0, FixedStatuses DEF MaySend, IInv, AllSound, Sound, isSending
<1>2. CASE SendNow("Interrupt", n, to, Receiving("Interrupt", TRUE, Nil), on)
  <2> DEFINE sent == Receiving("Interrupt", TRUE, Nil)
  <2>1. /\ sent \in Statuses /\ sent.mode # "Sending" /\ sent.type = "Interrupt"
        /\ sent.halt = status[n].halt
    <3>1. TRUE \in BOOLEAN /\ Nil \in Specs
      BY Distinct
    <3>2. /\ sent \in Statuses /\ sent.mode = "Receiving" /\ sent.type = "Interrupt"
          /\ sent.halt = TRUE
      BY <3>1, <1>0 DEF Receiving, Statuses, Modes
    <3>3. status[n] = Halted
      BY <1>0 DEF IInv, AllSound, Sound
    <3>4. status[n].halt = TRUE
      BY <3>3 DEF Halted, Runnable
    <3> HIDE DEF sent
    <3> QED BY <3>2, <3>4
  <2>2. TodoOK' /\ LoopReady'
    BY <1>0 DEF IInv, TypeOK, TodoOK, LoopReady, Idle
  <2>3. TypeOK' /\ QueuesMatch' /\ AllSound' /\ KeepsHalted
    <3>1. SendNow("Interrupt", n, to, sent, on)
      BY <1>2
    <3> HIDE DEF sent, to, on
    <3> QED BY <3>1, <1>0, <1>1, <2>1, <2>2, SendNowStep
  <2> QED BY <2>2, <2>3, Restored
<1>3. CASE SendRejected("Interrupt", n, to, on)
  BY <1>3, <1>0, <1>1, SendRejectedStep
<1>4. CASE SendWaits("Interrupt", n, to, on, Nil, FALSE)
  BY <1>4, <1>0, <1>1, SendWaitsStep, Distinct
<1>5. CASE SendFails("Interrupt", n, to, on, TRUE)
  BY <1>5, <1>0, <1>1, SendFailsStep
<1>6. CASE unmasked' = on /\ UNCHANGED <<status, sendqueue>>
  <2>1. Calmer(status, status') /\ \A x \in TCB : Alike(x)
    BY <1>6 DEF Calmer, Alike, IInv, TypeOK
  <2> QED BY <1>0, <1>6, <2>1, CalmStep DEF Idle
<1> QED BY <1>2, <1>3, <1>4, <1>5, <1>6 DEF HardwareIRQ, Masked

(***************************************************************************)
(* The receive phase.                                                      *)
(***************************************************************************)
LEMMA QueuesTyped ==
  ASSUME TypeOK, QueuesMatch, NEW r \in TCB, NEW s,
         sendqueue' = [sendqueue EXCEPT ![r] = Without(@, s)]
  PROVE  sendqueue' \in [TCB -> Seq(TCB)]
<1>1. sendqueue \in [TCB -> Seq(TCB)] /\ Once(sendqueue[r])
  BY DEF TypeOK, QueuesMatch
<1>2. Without(sendqueue[r], s) \in Seq(TCB)
  BY <1>1, WithoutElems
<1> QED BY <1>1, <1>2

\* Whoever is found in the sendqueue is a sender, and not the receiver.
LEMMA PartnerSends ==
  ASSUME IInv, ~Idle, NEW s \in Partner(todo.recv, todo.from)
  PROVE  /\ todo.recv \in TCB /\ todo.type \in Types /\ todo.from \in Specs
         /\ s \in TCB /\ isSending(s) /\ status[s].receiver = todo.recv
         /\ ~isSending(todo.recv) /\ s # todo.recv
<1> DEFINE r    == todo.recv
           spec == todo.from
           q    == sendqueue[r]
<1>1. r \in TCB /\ todo.type \in Types /\ spec \in Specs /\ ~isSending(r)
  BY DEF IInv, TypeOK, LoopReady
<1>2. Elems(q) = Senders(r)
  BY <1>1, QueuesAreExact DEF IInv, QueuesMatch
<1>3. s \in Elems(q) \/ (s \in TCB /\ isSending(s) /\ status[s].receiver = r)
  <2>1. CASE spec = AnyThread
    BY <2>1 DEF Partner, Elems
  <2>2. CASE spec = AnyLocal
    BY <2>2, Distinct DEF Partner, Elems
  <2>3. CASE spec # AnyThread /\ spec # AnyLocal
    BY <2>3 DEF Partner
  <2> QED BY <2>1, <2>2, <2>3
<1> QED BY <1>1, <1>2, <1>3 DEF Senders

LEMMA RecvRejectedStep ==
  ASSUME IInv, NEW s, RecvRejected(s)
  PROVE  IInv' /\ KeepsHalted
<1> DEFINE r  == todo.recv
           st == sendError(status, status[s].type, s)
<1>0. ~Idle /\ s \in Partner(r, todo.from) /\ UNCHANGED <<ids, partners, unmasked>> /\ Idle'
  BY DEF RecvRejected, Idle, NoWork, Work
<1>1. /\ r \in TCB /\ s \in TCB /\ isSending(s) /\ status[s].receiver = r
      /\ ~isSending(r) /\ s # r
  BY <1>0, PartnerSends
<1>2. status \in [TCB -> Statuses] /\ TypeOK /\ AllSound /\ QueuesMatch
  BY QueuesAreExact DEF IInv, TypeOK
<1>3. /\ Calmer(status, st) /\ Only(status, st, {s}) /\ st[s] \in {Runnable, Halted}
      /\ st \in [TCB -> Statuses]
  <2>1. \E type : st = sendError(status, type, s)
    OBVIOUS
  <2> HIDE DEF st
  <2>2. Calmer(status, st) /\ Only(status, st, {s}) /\ st[s] \in {Runnable, Halted}
    BY <1>1, <1>2, <2>1, ThreadEnds
  <2> QED BY <2>2 DEF Calmer
<1>4. Calmer(st, status') /\ Only(st, status', {r})
  BY <1>1, <1>3, ThreadEnds DEF RecvRejected
<1>5. Calmer(status, status') /\ Only(status, status', {s} \cup {r})
  BY <1>2, <1>3, <1>4, CalmerTwice
<1>6. ~isSending(s)'
  BY <1>1, <1>3, <1>4, FixedStatuses DEF Only, isSending
<1>7. ASSUME NEW x \in TCB \ {s} PROVE Alike(x)
  BY <1>1, <1>2, <1>5, EndsAlike DEF Only, Alike
<1>8. sendqueue' = [sendqueue EXCEPT ![r] = Without(@, s)]
  BY DEF RecvRejected
<1>9. QueuesMatch'
  BY <1>0, <1>1, <1>2, <1>6, <1>7, <1>8, OneLeaves DEF ids
<1>10. AllSound'
  <2>1. UNCHANGED pager /\ \A n \in unmasked' : n \in unmasked \/ MayEnable(n)
    BY <1>0 DEF partners
  <2>2. \A x \in TCB : life'[x] = life[x] \/ (x \in User /\ status'[x] = Halted)
    BY <1>0 DEF ids
  <2> QED BY <1>2, <1>5, <2>1, <2>2, CalmerSound
<1>11. TypeOK'
  <2>1. sendqueue' \in [TCB -> Seq(TCB)]
    BY <1>1, <1>2, <1>8, QueuesTyped
  <2> QED BY <1>0, <1>2, <1>5, <2>1, IdleTodo DEF TypeOK, TodoOK, Calmer, ids, partners
<1>12. LoopReady'
  BY <1>0 DEF LoopReady
<1> QED BY <1>5, <1>9, <1>10, <1>11, <1>12, Restored, CalmerHalted

LEMMA RecvAloneStep ==
  ASSUME IInv, RecvAlone
  PROVE  IInv' /\ KeepsHalted
<1> DEFINE r == todo.recv
<1>0. ~Idle /\ Idle' /\ UNCHANGED <<ids, sendqueue, partners, unmasked>>
  BY DEF RecvAlone, Idle, NoWork, Work
<1>1. r \in TCB /\ todo.type \in Types /\ todo.from \in Specs /\ ~isSending(r)
  BY <1>0 DEF IInv, TypeOK, LoopReady
<1>2. status \in [TCB -> Statuses]
  BY DEF IInv, TypeOK
<1>3. CASE status' = recvError(status, todo.type, r)
  <2>1. Calmer(status, status') /\ Only(status, status', {r})
    BY <1>1, <1>2, <1>3, ThreadEnds
  <2>2. ASSUME NEW x \in TCB PROVE Alike(x)
    BY <1>1, <2>1, EndsAlike DEF Only, Alike, IInv
  <2> QED BY <1>0, <2>1, <2>2, CalmStep
<1>4. CASE status' = status
  <2>1. Calmer(status, status') /\ \A x \in TCB : Alike(x)
    BY <1>2, <1>4 DEF Calmer, Alike
  <2> QED BY <1>0, <2>1, CalmStep
<1>5. CASE /\ status[r] = Runnable
           /\ status' = [status EXCEPT ![r] = Receiving(todo.type, FALSE, todo.from)]
  <2> DEFINE st == Receiving(todo.type, FALSE, todo.from)
  <2>1. todo.type = "MRs"
    BY <1>0, <1>5, FixedStatuses DEF IInv, LoopReady, isReceiving
  <2>2. st \in Statuses /\ st.mode = "Receiving" /\ st.type = "MRs"
    BY <1>1, <2>1 DEF Receiving, Statuses, Modes
  <2>a. status' = [status EXCEPT ![r] = st]
    BY <1>5
  <2> HIDE DEF st
  <2>3. /\ status' \in [TCB -> Statuses] /\ status'[r] = st
        /\ \A x \in TCB \ {r} : status'[x] = status[x]
    BY <1>1, <1>2, <2>a, <2>2
  <2>4. TypeOK' /\ LoopReady'
    BY <1>0, <2>3, IdleTodo DEF IInv, TypeOK, TodoOK, LoopReady, ids, partners
  <2>5. QueuesMatch'
    <3>1. \A x \in TCB : Alike(x)
      BY <1>1, <2>2, <2>3 DEF Alike, isSending
    <3> QED BY <1>0, <3>1, QueuesAreExact, NobodyQueues DEF IInv, ids
  <2>6. AllSound'
    <3> SUFFICES ASSUME NEW t \in TCB PROVE Sound(t)'
      BY DEF AllSound
    <3>1. Sound(t) /\ UNCHANGED <<life, pager, unmasked>>
      BY <1>0 DEF IInv, AllSound, ids, partners
    <3>2. CASE t = r
      BY <1>5, <2>2, <2>3, <3>1, <3>2, FixedStatuses, Distinct DEF Sound, isSending
    <3>3. CASE t # r
      BY <2>3, <3>1, <3>3 DEF Sound, isSending
    <3> QED BY <3>2, <3>3
  <2>7. KeepsHalted
    BY <1>5, <2>3, FixedStatuses DEF KeepsHalted
  <2> QED BY <2>4, <2>5, <2>6, <2>7, Restored
<1> QED BY <1>3, <1>4, <1>5 DEF RecvAlone

LEMMA RecvRendezvousStep ==
  ASSUME IInv, NEW s, RecvRendezvous(s)
  PROVE  IInv' /\ KeepsHalted
<1> DEFINE r        == todo.recv
           sendtype == status[s].type
           next     == recvFromSpec(sendtype, s)
           resumed  == resumeThread(status, r)
           sent     == Receiving(sendtype, status[s].halt, status[s].from)
<1>0. ~Idle /\ s \in Partner(r, todo.from) /\ UNCHANGED <<ids, partners>>
  BY DEF RecvRendezvous
<1>1. /\ r \in TCB /\ s \in TCB /\ isSending(s) /\ status[s].receiver = r
      /\ ~isSending(r) /\ s # r
  BY <1>0, PartnerSends
<1>2. status \in [TCB -> Statuses] /\ TypeOK /\ AllSound /\ QueuesMatch
  BY QueuesAreExact DEF IInv, TypeOK
<1>3. /\ Calmer(status, resumed) /\ Only(status, resumed, {r})
      /\ resumed[r] \in {Runnable, Halted} /\ resumed \in [TCB -> Statuses]
      /\ resumed[s] = status[s]
  <2> HIDE DEF r
  <2>1. Calmer(status, resumed) /\ Only(status, resumed, {r}) /\ resumed[r] \in {Runnable, Halted}
    BY <1>1, <1>2, ThreadEnds
  <2> QED BY <1>1, <2>1 DEF Calmer, Only
<1>4. \/ status' = resumeThread(resumed, s) /\ todo' = NoWork
      \/ /\ status' = [resumed EXCEPT ![s] = Receiving(sendtype, @.halt, @.from)]
         /\ todo' = Work(s, sendtype, next, status[s].patient)
  BY DEF RecvRendezvous
<1>5. /\ sendqueue' = [sendqueue EXCEPT ![r] = Without(@, s)]
      /\ unmasked' = Reenabled(unmasked, todo.type, r)
  BY DEF RecvRendezvous
<1>6. /\ status[s] \in Statuses /\ sendtype \in Types /\ status[s].halt \in BOOLEAN
      /\ status[s].from \in Specs /\ status[s].patient \in BOOLEAN /\ next \in Specs
  BY <1>1, <1>2 DEF Statuses, recvFromSpec, TypeOK
<1>7. /\ sent \in Statuses /\ sent.mode = "Receiving" /\ sent.type = sendtype
      /\ sent.halt = status[s].halt
  BY <1>6, WaitingStatuses
<1> HIDE DEF resumed, next, sent
<1>8. /\ status' \in [TCB -> Statuses]
      /\ \A x \in TCB \ {s} : status'[x] = resumed[x]
      /\ \/ status'[s] = sent /\ todo' = Work(s, sendtype, next, status[s].patient)
         \/ /\ status'[s] \in {Runnable, Halted} /\ (status[s].halt => status'[s] = Halted)
            /\ Idle'
  <2>1. CASE status' = resumeThread(resumed, s) /\ todo' = NoWork
    <3>1. /\ Calmer(resumed, status') /\ Only(resumed, status', {s})
          /\ status'[s] \in {Runnable, Halted}
      BY <1>1, <1>3, <2>1, ThreadEnds
    <3>2. status'[s] = IF status[s].halt THEN Halted ELSE Runnable
      BY <1>1, <1>3, <2>1 DEF resumeThread
    <3> QED BY <2>1, <3>1, <3>2 DEF Calmer, Only, Idle, NoWork, Work
  <2>2. CASE /\ status' = [resumed EXCEPT ![s] = Receiving(sendtype, @.halt, @.from)]
             /\ todo' = Work(s, sendtype, next, status[s].patient)
    <3>1. status' = [resumed EXCEPT ![s] = sent]
      BY <1>3, <2>2 DEF sent
    <3> QED BY <1>1, <1>3, <1>7, <2>2, <3>1
  <2> QED BY <1>4, <2>1, <2>2
<1>9. todo.type = "Interrupt" => r \in IRQ /\ status'[r] = Halted /\ pager[r] # <<r, 1>>
  <2>1. todo.type = "Interrupt" => r \in IRQ /\ status[r].halt /\ pager[r] # <<r, 1>>
                                   /\ isReceiving(r)
    BY <1>0, <1>1 DEF IInv, LoopReady, AllSound, Sound
  <2>2. isReceiving(r) /\ status[r].halt => resumed[r] = Halted
    BY <1>1, <1>3, FixedStatuses DEF Calmer, isReceiving
  <2> QED BY <1>1, <1>8, <2>1, <2>2
<1>10. \A n \in unmasked' : n \in unmasked \/ (n = r /\ todo.type = "Interrupt")
  BY <1>5 DEF Reenabled
<1>11. TodoOK' /\ LoopReady'
  <2>1. CASE Idle'
    BY <2>1, IdleTodo DEF LoopReady
  <2>2. CASE status'[s] = sent /\ todo' = Work(s, sendtype, next, status[s].patient)
    <3>1. todo'.recv = s /\ todo'.type = sendtype
      BY <2>2 DEF Work
    <3>2. TodoOK'
      BY <1>1, <1>6, <2>2 DEF TodoOK, Work
    <3>3. LoopReady'
      BY <1>7, <2>2, <3>1 DEF LoopReady, isSending, isReceiving
    <3> QED BY <3>2, <3>3
  <2> QED BY <1>8, <2>1, <2>2
<1>12. TypeOK'
  <2>1. sendqueue' \in [TCB -> Seq(TCB)]
    BY <1>1, <1>2, <1>5, QueuesTyped
  <2>2. unmasked' \subseteq IRQ
    BY <1>2, <1>9, <1>10 DEF TypeOK
  <2> QED BY <1>0, <1>2, <1>8, <1>11, <2>1, <2>2 DEF TypeOK, TodoOK, ids, partners
<1>13. QueuesMatch'
  <2>1. ~isSending(s)'
    BY <1>7, <1>8, FixedStatuses DEF isSending
  <2>2. ASSUME NEW x \in TCB \ {s} PROVE Alike(x)
    BY <1>1, <1>3, <1>8, FixedStatuses DEF Only, Alike, isSending
  <2> QED BY <1>0, <1>1, <1>2, <1>5, <2>1, <2>2, OneLeaves DEF ids
<1>14. AllSound'
  <2> SUFFICES ASSUME NEW t \in TCB PROVE Sound(t)'
    BY DEF AllSound
  <2>1. Sound(t) /\ UNCHANGED <<life, pager>> /\ ~(t \in User /\ t \in IRQ)
    BY <1>0, <1>2, Distinct DEF AllSound, ids, partners
  <2>2. CASE t = s
    <3>1. status[s] # Halted
      BY <1>1, FixedStatuses DEF isSending
    <3>2. status'[s].mode # "Sending" /\ (status[s].halt => status'[s].halt)
          /\ status'[s].type \in {sendtype, "MRs"} /\ s \notin unmasked'
      BY <1>1, <1>7, <1>8, <1>10, <2>1, <2>2, <3>1, FixedStatuses DEF Sound
    <3> QED BY <2>1, <2>2, <3>1, <3>2 DEF Sound, isSending
  <2>3. CASE t # s
    <3>1. \/ status'[t] = status[t] \/ status'[t] = Halted
          \/ status'[t] = Runnable /\ ~status[t].halt
      BY <1>3, <1>8, <2>3 DEF Calmer
    <3>2. t \in unmasked' => t \in unmasked \/ (status'[t] = Halted /\ pager[t] # <<t, 1>>)
      BY <1>9, <1>10
    <3>3. t \in unmasked => status'[t] # Runnable
      BY <2>1, <3>1, FixedStatuses DEF Sound
    <3> QED BY <2>1, <3>1, <3>2, <3>3, FixedStatuses DEF Sound, isSending
  <2> QED BY <2>2, <2>3
<1>15. KeepsHalted
  BY <1>1, <1>3, <1>7, <1>8, FixedStatuses DEF KeepsHalted, Calmer
<1> QED BY <1>11, <1>12, <1>13, <1>14, <1>15, Restored

(***************************************************************************)
(* The system calls that control threads and interrupts.                   *)
(***************************************************************************)
\* A halted thread runs again only if it is resumed or activated.
HaltStep ==
  \A t \in TCB :
    status[t].halt /\ ~status'[t].halt
      => Idle /\ status[t] = Halted /\ (life'[t] # life[t] \/ life[t] = "Active")

\* A step between two system calls that changes the status, the life and the
\* pager of no thread but t.
LEMMA UserStep ==
  ASSUME IInv, Idle, UNCHANGED <<unmasked, todo>>, NEW t \in User,
         life' \in [TCB -> {"Absent", "Inactive", "Active"}],
         version' \in [TCB -> Version], status' \in [TCB -> Statuses],
         sendqueue' \in [TCB -> Seq(TCB)],
         pager' \in [TCB -> Specs], handler' \in [TCB -> Specs],
         \A x \in TCB \ {t} :
           status'[x] = status[x] /\ life'[x] = life[x] /\ pager'[x] = pager[x],
         life'[t] = "Active" \/ status'[t] = Halted,
         status'[t].type # "Interrupt",
         status'[t].mode = "Sending" => status'[t].receiver \in TCB,
         QueuesMatch'
  PROVE  IInv'
<1>1. TypeOK'
  BY DEF IInv, TypeOK
<1>2. LoopReady'
  BY DEF LoopReady, Idle
<1>3. AllSound'
  <2> SUFFICES ASSUME NEW x \in TCB PROVE Sound(x)'
    BY DEF AllSound
  <2>1. CASE x = t
    BY <2>1, Distinct DEF Sound, isSending, IInv, TypeOK
  <2>2. CASE x # t
    BY <2>2 DEF Sound, isSending, IInv, AllSound
  <2> QED BY <2>1, <2>2
<1> QED BY <1>1, <1>2, <1>3, Restored

LEMMA ExchangeRegistersStep ==
  ASSUME IInv, NEW dest \in User, NEW p \in Specs, NEW halting, NEW cr, NEW cs,
         ExchangeRegisters(dest, p, halting, cr, cs)
  PROVE  IInv' /\ HaltStep
<1> DEFINE st == CASE halting = "halt" /\ status[dest] = Runnable ->
                        haltThread(status, dest)
                   [] halting = "halt" /\ status[dest] # Runnable ->
                        [status EXCEPT ![dest].halt = TRUE]
                   [] halting = "resume" /\ status[dest] = Halted ->
                        [status EXCEPT ![dest] = Runnable]
                   [] OTHER -> status
           type == status[dest].type
           r    == status[dest].receiver
           old  == status[dest]
<1>0. /\ Idle /\ life[dest] = "Active" /\ UNCHANGED <<ids, handler, unmasked, todo>>
      /\ pager' = [pager EXCEPT ![dest] = p]
  BY DEF ExchangeRegisters
<1>1. /\ dest \in TCB /\ dest \notin IRQ /\ status \in [TCB -> Statuses] /\ old \in Statuses
      /\ TypeOK /\ AllSound /\ Sound(dest) /\ QueuesMatch
  BY Distinct, QueuesAreExact DEF IInv, TypeOK, AllSound
<1>2. /\ type # "Interrupt" /\ (isSending(dest) => r \in TCB)
  BY <1>1 DEF Sound
<1>3. \/ isReceiving(dest) /\ status' = recvError(st, type, dest) /\ UNCHANGED sendqueue
      \/ /\ isSending(dest) /\ status' = sendError(st, type, dest)
         /\ sendqueue' = [sendqueue EXCEPT ![r] = Without(@, dest)]
      \/ status' = st /\ UNCHANGED sendqueue
  <2> HIDE DEF st, type, r
  <2> QED BY DEF ExchangeRegisters, st, type, r
<1>4. st \in [TCB -> Statuses] /\ Only(status, st, {dest})
      /\ \/ old = Runnable /\ st[dest] = Halted
         \/ old = Halted /\ st[dest] = Runnable
         \/ st[dest] = old
         \/ /\ st[dest].mode = old.mode /\ st[dest].receiver = old.receiver
            /\ st[dest].type = type /\ st[dest].halt
  <2>1. CASE old = Runnable /\ st = haltThread(status, dest)
    BY <1>1, <2>1, FixedStatuses DEF haltThread, Only
  <2>2. CASE st = [status EXCEPT ![dest].halt = TRUE]
    <3> DEFINE hs == [old EXCEPT !.halt = TRUE]
    <3>1. /\ hs \in Statuses /\ hs.mode = old.mode /\ hs.receiver = old.receiver
          /\ hs.type = type /\ hs.halt
      BY <1>1 DEF Statuses
    <3>2. st = [status EXCEPT ![dest] = hs]
      BY <2>2
    <3> HIDE DEF hs, st
    <3>3. st[dest] = hs
      BY <1>1, <3>2
    <3> QED BY <1>1, <3>1, <3>2, <3>3 DEF Only
  <2>3. CASE old = Halted /\ st = [status EXCEPT ![dest] = Runnable]
    BY <1>1, <2>3, FixedStatuses DEF Only
  <2>4. CASE st = status
    BY <1>1, <2>4 DEF Only
  <2>5. \/ old = Runnable /\ st = haltThread(status, dest)
        \/ st = [status EXCEPT ![dest].halt = TRUE]
        \/ old = Halted /\ st = [status EXCEPT ![dest] = Runnable]
        \/ st = status
    OBVIOUS
  <2> QED BY <2>1, <2>2, <2>3, <2>4, <2>5
<1> HIDE DEF st, type, r, old
<1>5. /\ life' = life /\ version' = version /\ handler' = handler
      /\ pager' \in [TCB -> Specs] /\ \A x \in TCB \ {dest} : pager'[x] = pager[x]
      /\ \A x \in TCB \ {dest} : st[x] = status[x]
  BY <1>0, <1>1, <1>4 DEF TypeOK, ids, Only
<1>6. ASSUME \/ status' = recvError(st, type, dest) \/ status' = sendError(st, type, dest),
             old # Halted
      PROVE  /\ status' \in [TCB -> Statuses] /\ status'[dest] \in {Runnable, Halted}
             /\ status'[dest].type # "Interrupt" /\ status'[dest].mode # "Sending"
             /\ \A x \in TCB \ {dest} : status'[x] = status[x]
             /\ HaltStep
  <2>1. Calmer(st, status') /\ Only(st, status', {dest}) /\ status'[dest] \in {Runnable, Halted}
    BY <1>1, <1>4, <1>6, ThreadEnds
  <2>2. status' \in [TCB -> Statuses] /\ \A x \in TCB \ {dest} : status'[x] = status[x]
    BY <1>5, <2>1 DEF Calmer, Only
  <2>3. status[dest].halt => status'[dest].halt
    BY <1>1, <1>4, <1>6, <2>1, FixedStatuses DEF Calmer, old
  <2>4. status'[dest].type # "Interrupt" /\ status'[dest].mode # "Sending"
    BY <2>1, FixedStatuses
  <2> QED BY <2>1, <2>2, <2>3, <2>4 DEF HaltStep
<1>7. CASE isReceiving(dest) /\ status' = recvError(st, type, dest) /\ UNCHANGED sendqueue
  <2>1. old # Halted /\ ~isSending(dest)
    BY <1>7, FixedStatuses DEF isReceiving, isSending, old
  <2>2. /\ status' \in [TCB -> Statuses] /\ status'[dest] \in {Runnable, Halted}
        /\ status'[dest].type # "Interrupt" /\ status'[dest].mode # "Sending"
        /\ \A x \in TCB \ {dest} : status'[x] = status[x]
        /\ HaltStep
    BY <1>6, <1>7, <2>1
  <2>3. ASSUME NEW x \in TCB PROVE Alike(x)
    BY <2>1, <2>2, FixedStatuses DEF Alike, isSending
  <2>4. QueuesMatch'
    BY <1>1, <1>5, <1>7, <2>3, NobodyQueues
  <2> QED BY <1>0, <1>1, <1>5, <1>7, <2>2, <2>4, UserStep DEF TypeOK
<1>8. CASE /\ isSending(dest) /\ status' = sendError(st, type, dest)
           /\ sendqueue' = [sendqueue EXCEPT ![r] = Without(@, dest)]
  <2>1. old # Halted
    BY <1>8, FixedStatuses DEF isSending, old
  <2>2. /\ status' \in [TCB -> Statuses] /\ status'[dest] \in {Runnable, Halted}
        /\ status'[dest].type # "Interrupt" /\ status'[dest].mode # "Sending"
        /\ \A x \in TCB \ {dest} : status'[x] = status[x]
        /\ HaltStep
    BY <1>6, <1>8, <2>1
  <2>3. ASSUME NEW x \in TCB \ {dest} PROVE Alike(x)
    BY <2>2 DEF Alike
  <2>4. r \in TCB /\ status[dest].receiver = r /\ ~isSending(dest)'
    BY <1>2, <1>8, <2>2, FixedStatuses DEF isSending, r
  <2>5. QueuesMatch' /\ sendqueue' \in [TCB -> Seq(TCB)]
    BY <1>1, <1>5, <1>8, <2>3, <2>4, OneLeaves, QueuesTyped
  <2>6. IInv'
    BY <1>0, <1>1, <1>5, <2>2, <2>5, UserStep DEF TypeOK
  <2> QED BY <2>2, <2>6
<1>9. CASE status' = st /\ UNCHANGED sendqueue
  <2>1. ASSUME NEW x \in TCB PROVE Alike(x)
    BY <1>4, <1>5, <1>9, FixedStatuses DEF Alike, old
  <2>2. QueuesMatch'
    BY <1>1, <1>5, <1>9, <2>1, NobodyQueues
  <2>3. HaltStep
    <3>1. old = Halted \/ (old.halt => status'[dest].halt)
      BY <1>4, <1>9, FixedStatuses
    <3>2. \A x \in TCB \ {dest} : status'[x] = status[x]
      BY <1>5, <1>9
    <3> QED BY <1>0, <3>1, <3>2 DEF HaltStep, old
  <2>4. status'[dest].type # "Interrupt"
    BY <1>2, <1>4, <1>9, FixedStatuses DEF type, old
  <2>5. status'[dest].mode = "Sending" => status'[dest].receiver \in TCB
    BY <1>2, <1>4, <1>9, FixedStatuses DEF isSending, r, old
  <2>6. status' \in [TCB -> Statuses] /\ \A x \in TCB \ {dest} : status'[x] = status[x]
    BY <1>4, <1>5, <1>9
  <2>7. sendqueue' \in [TCB -> Seq(TCB)]
    BY <1>1, <1>9 DEF TypeOK
  <2>8. IInv'
    BY <1>0, <1>1, <1>5, <2>2, <2>4, <2>5, <2>6, <2>7, UserStep DEF TypeOK
  <2> QED BY <2>3, <2>8
<1> QED BY <1>3, <1>7, <1>8, <1>9

LEMMA CreateThreadStep ==
  ASSUME IInv, NEW t \in User, NEW v \in Version, NEW p \in Specs, CreateThread(t, v, p)
  PROVE  IInv' /\ HaltStep
<1>0. /\ Idle /\ life[t] = "Absent" /\ UNCHANGED <<unmasked, todo>>
      /\ t \in TCB /\ TypeOK /\ AllSound /\ QueuesMatch
  BY Distinct, QueuesAreExact DEF CreateThread, IInv
<1>1. status[t] = Halted
  BY <1>0 DEF AllSound, Sound
<1>2. /\ status' \in [TCB -> Statuses] /\ \A x \in TCB \ {t} : status'[x] = status[x]
      /\ status'[t].mode # "Sending" /\ status'[t].type \in {"MRs", "Startup"}
      /\ status'[t] = Halted \/ p # Nil
  <2> DEFINE st == Receiving("Startup", FALSE, Nil)
  <2>1. st \in Statuses /\ st.mode = "Receiving" /\ st.type = "Startup"
    BY Distinct DEF Receiving, Statuses, Modes, Types
  <2> HIDE DEF st
  <2>2. status' = [status EXCEPT ![t] = Halted] \/ (p # Nil /\ status' = [status EXCEPT ![t] = st])
    BY DEF CreateThread, activateTCB, st
  <2> QED BY <1>0, <2>1, <2>2, FixedStatuses DEF TypeOK
<1>3. /\ life' = [life EXCEPT ![t] = IF p = Nil THEN "Inactive" ELSE "Active"]
      /\ version' = [version EXCEPT ![t] = v]
      /\ sendqueue' = [sendqueue EXCEPT ![t] = << >>]
      /\ pager' = [pager EXCEPT ![t] = p]
      /\ handler' = [handler EXCEPT ![t] = Nil]
  BY DEF CreateThread
<1>4. /\ sendqueue' \in [TCB -> Seq(TCB)] /\ sendqueue'[t] = << >>
      /\ \A x \in TCB \ {t} : sendqueue'[x] = sendqueue[x]
  BY <1>0, <1>3 DEF TypeOK
<1>5. /\ life' \in [TCB -> {"Absent", "Inactive", "Active"}]
      /\ version' \in [TCB -> Version]
      /\ pager' \in [TCB -> Specs] /\ handler' \in [TCB -> Specs]
      /\ \A x \in TCB \ {t} : life'[x] = life[x] /\ pager'[x] = pager[x]
      /\ life'[t] # "Absent" /\ (p # Nil => life'[t] = "Active")
  BY <1>0, <1>3, Distinct DEF TypeOK
<1>6. QueuesMatch'
  <2>1. \A x \in TCB : Senders(x)' = Senders(x)
    BY <1>1, <1>2, FixedStatuses DEF Senders, isSending
  <2>2. Senders(t) = {}
    BY <1>0 DEF QueuesMatch
  <2>3. Elems(<< >>) = {} /\ Once(<< >>)
    BY DEF Elems, Once
  <2> QED BY <1>0, <1>4, <1>5, <2>1, <2>2, <2>3 DEF QueuesMatch
<1>7. IInv'
  BY <1>0, <1>2, <1>4, <1>5, <1>6, UserStep
<1>8. HaltStep
  BY <1>0, <1>1, <1>2, <1>5 DEF HaltStep
<1> QED BY <1>7, <1>8

LEMMA ModifyThreadStep ==
  ASSUME IInv, NEW t \in User, NEW v \in Version, NEW p \in Specs, ModifyThread(t, v, p)
  PROVE  IInv' /\ HaltStep
<1>0. /\ Idle /\ life[t] # "Absent" /\ UNCHANGED <<sendqueue, unmasked, todo>>
      /\ version' = [version EXCEPT ![t] = v]
      /\ t \in TCB /\ TypeOK /\ AllSound /\ QueuesMatch /\ Sound(t) /\ t \notin IRQ
  BY Distinct, QueuesAreExact DEF ModifyThread, IInv, AllSound
<1>1. version' \in [TCB -> Version] /\ sendqueue' \in [TCB -> Seq(TCB)]
  BY <1>0 DEF TypeOK
<1>2. CASE UNCHANGED <<life, status, partners>>
  <2>1. QueuesMatch'
    BY <1>0, <1>2, NobodyQueues DEF Alike
  <2>2. IInv'
    BY <1>0, <1>1, <1>2, <2>1, UserStep DEF TypeOK, Sound, isSending, partners
  <2> QED BY <1>2, <2>2 DEF HaltStep
<1>3. CASE UNCHANGED <<status, handler>> /\ life' = [life EXCEPT ![t] = "Active"]
           /\ pager' = [pager EXCEPT ![t] = p] /\ life[t] = "Active"
  <2>1. QueuesMatch'
    BY <1>0, <1>3, NobodyQueues DEF Alike, TypeOK
  <2>2. IInv'
    <3>1. /\ life' \in [TCB -> {"Absent", "Inactive", "Active"}] /\ life'[t] = "Active"
          /\ pager' \in [TCB -> Specs] /\ handler' \in [TCB -> Specs]
          /\ \A x \in TCB \ {t} : life'[x] = life[x] /\ pager'[x] = pager[x]
      BY <1>0, <1>3 DEF TypeOK
    <3>2. /\ status' \in [TCB -> Statuses] /\ status'[t].type # "Interrupt"
          /\ status'[t].mode = "Sending" => status'[t].receiver \in TCB
      BY <1>0, <1>3 DEF TypeOK, Sound, isSending
    <3> QED BY <1>0, <1>1, <1>3, <2>1, <3>1, <3>2, UserStep
  <2> QED BY <1>3, <2>2 DEF HaltStep
<1>4. CASE /\ status' = activateTCB(status, t) /\ handler' = [handler EXCEPT ![t] = Nil]
           /\ life' = [life EXCEPT ![t] = "Active"]
           /\ pager' = [pager EXCEPT ![t] = p] /\ life[t] = "Inactive"
  <2> DEFINE st == Receiving("Startup", FALSE, Nil)
  <2>1. st \in Statuses /\ st.mode = "Receiving" /\ st.type = "Startup"
    BY Distinct DEF Receiving, Statuses, Modes, Types
  <2>2. status' = [status EXCEPT ![t] = st]
    BY <1>4 DEF activateTCB
  <2> HIDE DEF st
  <2>3. /\ status' \in [TCB -> Statuses] /\ status'[t] = st
        /\ \A x \in TCB \ {t} : status'[x] = status[x]
    BY <1>0, <2>1, <2>2 DEF TypeOK
  <2>4. status[t] = Halted
    BY <1>0, <1>4 DEF Sound
  <2>5. /\ life' \in [TCB -> {"Absent", "Inactive", "Active"}] /\ life'[t] = "Active"
        /\ pager' \in [TCB -> Specs] /\ handler' \in [TCB -> Specs]
        /\ \A x \in TCB \ {t} : life'[x] = life[x] /\ pager'[x] = pager[x]
    BY <1>0, <1>4, Distinct DEF TypeOK
  <2>6. QueuesMatch'
    <3>1. \A x \in TCB : Alike(x)
      BY <2>1, <2>3, <2>4, FixedStatuses DEF Alike
    <3> QED BY <1>0, <2>5, <3>1, NobodyQueues
  <2>7. IInv'
    BY <1>0, <1>1, <2>1, <2>3, <2>5, <2>6, UserStep
  <2>8. HaltStep
    BY <1>0, <1>4, <2>3, <2>4, <2>5 DEF HaltStep
  <2> QED BY <2>7, <2>8
<1>5. life[t] \in {"Inactive", "Active"}
  BY <1>0 DEF TypeOK
<1> QED BY <1>2, <1>3, <1>4, <1>5 DEF ModifyThread

LEMMA WriteUTCBStep ==
  ASSUME IInv, NEW t \in User, NEW p \in Specs, NEW h \in Specs, WriteUTCB(t, p, h)
  PROVE  IInv' /\ HaltStep
<1>0. /\ Idle /\ life[t] = "Active"
      /\ UNCHANGED <<life, version, status, sendqueue, unmasked, todo>>
      /\ pager' = [pager EXCEPT ![t] = p] /\ handler' = [handler EXCEPT ![t] = h]
  BY DEF WriteUTCB, ids
<1>1. t \in TCB /\ TypeOK /\ QueuesMatch /\ Sound(t) /\ t \notin IRQ
  BY Distinct, QueuesAreExact DEF IInv, AllSound
<1>2. QueuesMatch'
  BY <1>0, <1>1, NobodyQueues DEF Alike
<1>3. IInv'
  BY <1>0, <1>1, <1>2, UserStep DEF TypeOK, Sound, isSending
<1> QED BY <1>0, <1>3 DEF HaltStep

LEMMA DeleteThreadStep ==
  ASSUME IInv, NEW t \in User, DeleteThread(t)
  PROVE  IInv' /\ HaltStep
<1> DEFINE left   == IF isSending(t)
                     THEN [sendqueue EXCEPT ![status[t].receiver] = Without(@, t)]
                     ELSE sendqueue
           others == Elems(left[t])
<1>0. /\ Idle /\ life[t] # "Absent" /\ UNCHANGED <<version, partners, unmasked, todo>>
      /\ life' = [life EXCEPT ![t] = "Absent"]
  BY DEF DeleteThread
<1>1. sendqueue' = [left EXCEPT ![t] = << >>]
  BY DEF DeleteThread
<1>2. status' = [s \in TCB |-> CASE s = t -> Halted
                                 [] s \in others -> sendError(status, status[s].type, s)[s]
                                 [] OTHER -> status[s]]
  BY DEF DeleteThread, Elems
<1>3. /\ t \in TCB /\ status \in [TCB -> Statuses] /\ sendqueue \in [TCB -> Seq(TCB)]
      /\ TypeOK /\ AllSound /\ QueuesMatch /\ Sound(t)
  BY Distinct, QueuesAreExact DEF IInv, AllSound, TypeOK
<1>4. /\ left \in [TCB -> Seq(TCB)]
      /\ \A r \in TCB : Elems(left[r]) = Senders(r) \ {t} /\ Once(left[r])
  <2>1. CASE ~isSending(t)
    BY <1>3, <2>1 DEF QueuesMatch, Senders
  <2>2. CASE isSending(t)
    <3> DEFINE r == status[t].receiver
    <3>1. r \in TCB /\ left = [sendqueue EXCEPT ![r] = Without(@, t)]
      BY <1>3, <2>2 DEF Sound
    <3>2. /\ Without(sendqueue[r], t) \in Seq(TCB) /\ Once(Without(sendqueue[r], t))
          /\ Elems(Without(sendqueue[r], t)) = Senders(r) \ {t}
      BY <1>3, <3>1, WithoutElems DEF QueuesMatch
    <3>3. ASSUME NEW x \in TCB, x # r
          PROVE  Elems(sendqueue[x]) = Senders(x) \ {t} /\ Once(sendqueue[x])
      BY <1>3, <3>3 DEF QueuesMatch, Senders
    <3> HIDE DEF r, left
    <3> QED BY <1>3, <3>1, <3>2, <3>3
  <2> QED BY <2>1, <2>2
<1>5. others = Senders(t) \ {t}
  BY <1>3, <1>4
<1> HIDE DEF left, others
<1>6. /\ status' \in [TCB -> Statuses] /\ status'[t] = Halted
      /\ \A s \in TCB \ {t} :
           IF s \in Senders(t)
           THEN \/ status'[s] = Halted
                \/ status'[s] = Runnable /\ ~status[s].halt
           ELSE status'[s] = status[s]
  <2>1. ASSUME NEW s \in TCB, NEW type, NEW st, st = sendError(status, type, s)
        PROVE  \/ st[s] = Halted
               \/ st[s] = Runnable /\ ~status[s].halt
    BY <1>3, <2>1 DEF sendError, haltThread, resumeThread
  <2>2. ASSUME NEW s \in TCB \ {t}, s \in Senders(t)
        PROVE  \/ status'[s] = Halted
               \/ status'[s] = Runnable /\ ~status[s].halt
    <3>1. status'[s] = sendError(status, status[s].type, s)[s]
      BY <1>2, <1>5, <2>2
    <3> QED BY <2>1, <3>1
  <2>3. ASSUME NEW s \in TCB \ {t}, s \notin Senders(t)
        PROVE  status'[s] = status[s]
    BY <1>2, <1>5, <2>3
  <2>4. status'[t] = Halted
    BY <1>2, <1>3, <1>5
  <2>5. \A s \in TCB : status'[s] \in Statuses
    BY <1>3, <2>2, <2>3, <2>4, FixedStatuses
  <2>6. status' \in [TCB -> Statuses]
    BY <1>2, <2>5
  <2> QED BY <2>2, <2>3, <2>4, <2>6
<1>7. Calmer(status, status')
  BY <1>6 DEF Calmer
<1>8. AllSound'
  <2>1. UNCHANGED pager /\ \A n \in unmasked' : n \in unmasked \/ MayEnable(n)
    BY <1>0 DEF partners
  <2>2. \A x \in TCB : life'[x] = life[x] \/ (x \in User /\ status'[x] = Halted)
    BY <1>0, <1>3, <1>6 DEF TypeOK
  <2> QED BY <1>3, <1>7, <2>1, <2>2, CalmerSound
<1>9. /\ sendqueue' \in [TCB -> Seq(TCB)] /\ sendqueue'[t] = << >>
      /\ \A x \in TCB \ {t} : sendqueue'[x] = left[x]
  BY <1>1, <1>3, <1>4
<1>10. QueuesMatch'
  <2>1. Senders(t)' = {}
    BY <1>6, FixedStatuses DEF Senders, isSending
  <2>2. ASSUME NEW r \in TCB \ {t} PROVE Senders(r)' = Senders(r) \ {t}
    <3>1. ASSUME NEW s \in TCB PROVE s \in Senders(r)' <=> s \in Senders(r) /\ s # t
      BY <1>6, FixedStatuses DEF Senders, isSending
    <3> QED BY <3>1 DEF Senders
  <2>3. Elems(<< >>) = {} /\ Once(<< >>)
    BY DEF Elems, Once
  <2>4. \A x \in TCB \ {t} : life'[x] = life[x]
    BY <1>0, <1>3 DEF TypeOK
  <2> QED BY <1>3, <1>4, <1>9, <2>1, <2>2, <2>3, <2>4 DEF QueuesMatch
<1>11. TypeOK' /\ LoopReady'
  <2>1. TypeOK'
    BY <1>0, <1>3, <1>6, <1>9 DEF TypeOK, partners
  <2> QED BY <1>0, <2>1 DEF LoopReady, Idle
<1>12. HaltStep
  BY <1>7, CalmerHalted DEF HaltStep, KeepsHalted
<1> QED BY <1>8, <1>10, <1>11, <1>12, Restored

LEMMA InterruptControlStep ==
  ASSUME IInv, NEW n \in IRQ, NEW p \in Specs, InterruptControl(n, p)
  PROVE  IInv' /\ HaltStep
<1> DEFINE r == status[n].receiver
<1>0. /\ Idle /\ UNCHANGED <<life, version, handler, todo>>
      /\ status' = [status EXCEPT ![n] = Halted] /\ pager' = [pager EXCEPT ![n] = p]
      /\ unmasked' = IF p = <<n, 1>> THEN unmasked \ {n} ELSE unmasked \cup {n}
      /\ \/ ~isSending(n) /\ UNCHANGED sendqueue
         \/ isSending(n) /\ sendqueue' = [sendqueue EXCEPT ![r] = Without(@, n)]
  BY DEF InterruptControl, ids
<1>1. n \in TCB /\ n \notin User /\ TypeOK /\ AllSound /\ QueuesMatch /\ Sound(n)
  BY Distinct, QueuesAreExact DEF IInv, AllSound
<1>2. /\ status' \in [TCB -> Statuses] /\ status'[n] = Halted
      /\ pager' \in [TCB -> Specs] /\ pager'[n] = p
      /\ \A x \in TCB \ {n} : status'[x] = status[x] /\ pager'[x] = pager[x]
  BY <1>0, <1>1, FixedStatuses DEF TypeOK
<1>3. QueuesMatch' /\ sendqueue' \in [TCB -> Seq(TCB)]
  <2>1. \A x \in TCB \ {n} : Alike(x)
    BY <1>2 DEF Alike
  <2>2. ~isSending(n)'
    BY <1>2, FixedStatuses DEF isSending
  <2>3. CASE ~isSending(n) /\ UNCHANGED sendqueue
    <3>1. Alike(n)
      BY <2>2, <2>3 DEF Alike, isSending
    <3> QED BY <1>0, <1>1, <2>1, <2>3, <3>1, NobodyQueues DEF TypeOK
  <2>4. CASE isSending(n) /\ sendqueue' = [sendqueue EXCEPT ![r] = Without(@, n)]
    <3>1. r \in TCB
      BY <1>1, <2>4 DEF Sound
    <3> QED BY <1>0, <1>1, <2>1, <2>2, <2>4, <3>1, OneLeaves, QueuesTyped
  <2> QED BY <1>0, <2>3, <2>4
<1>4. TypeOK' /\ LoopReady'
  <2>1. TypeOK'
    BY <1>0, <1>1, <1>2, <1>3 DEF TypeOK
  <2> QED BY <1>0, <2>1 DEF LoopReady, Idle
<1>5. AllSound'
  <2> SUFFICES ASSUME NEW t \in TCB PROVE Sound(t)'
    BY DEF AllSound
  <2>1. CASE t = n
    BY <1>0, <1>1, <1>2, <2>1, FixedStatuses DEF Sound, isSending
  <2>2. CASE t # n
    BY <1>0, <1>1, <1>2, <2>2 DEF Sound, isSending, AllSound
  <2> QED BY <2>1, <2>2
<1>6. HaltStep
  BY <1>2, FixedStatuses DEF HaltStep
<1> QED BY <1>3, <1>4, <1>5, <1>6, Restored

(***************************************************************************)
(* The invariant is inductive.                                             *)
(***************************************************************************)
LEMMA InitIInv == Init => IInv
<1> SUFFICES ASSUME Init PROVE IInv
  OBVIOUS
<1>1. /\ status \in [TCB -> Statuses]
      /\ \A t \in TCB : status[t] = IF t = Root THEN Runnable ELSE Halted
      /\ \A t \in TCB : sendqueue[t] = << >>
  BY FixedStatuses DEF Init
<1>2. TypeOK
  <2>1. life \in [TCB -> {"Absent", "Inactive", "Active"}]
    BY DEF Init
  <2>2. version \in [TCB -> Version] /\ pager \in [TCB -> Specs] /\ handler \in [TCB -> Specs]
    BY Distinct DEF Init
  <2>3. sendqueue \in [TCB -> Seq(TCB)] /\ unmasked \subseteq IRQ
    BY DEF Init
  <2>4. TodoOK
    BY IdleTodo DEF Init, TodoOK
  <2> QED BY <1>1, <2>1, <2>2, <2>3, <2>4 DEF TypeOK, TodoOK
<1>3. LoopReady
  BY DEF Init, LoopReady, Idle
<1>4. AllSound
  <2> SUFFICES ASSUME NEW t \in TCB PROVE Sound(t)
    BY DEF AllSound
  <2>1. life[t] = IF t = Root THEN "Active" ELSE IF t \in IRQ THEN "Inactive" ELSE "Absent"
    BY Distinct DEF Init
  <2> QED BY <1>1, <2>1, FixedStatuses, Distinct DEF Sound, Init, isSending
<1>5. QueuesMatch
  <2>1. \A r \in TCB : Senders(r) = {}
    BY <1>1, FixedStatuses DEF Senders, isSending
  <2>2. Elems(<< >>) = {} /\ Once(<< >>)
    BY DEF Elems, Once
  <2> QED BY <1>1, <2>1, <2>2 DEF QueuesMatch
<1> QED BY <1>2, <1>3, <1>4, <1>5, QueuesAreExact DEF IInv

LEMMA NextIInv ==
  ASSUME IInv, [Next]_vars
  PROVE  IInv' /\ (HaltStep \/ UNCHANGED vars)
<1>1. ASSUME KeepsHalted PROVE HaltStep
  BY <1>1 DEF KeepsHalted, HaltStep
<1>2. CASE RecvPhase
  BY <1>1, <1>2, RecvAloneStep, RecvRendezvousStep, RecvRejectedStep DEF RecvPhase
<1>3. ASSUME NEW t \in User, Communicate(t) PROVE IInv' /\ HaltStep
  <2>1. ASSUME NEW to \in Id \cup {Nil, AnyThread}, NEW spec \in Specs,
               NEW b \in BOOLEAN, NEW w \in BOOLEAN, Ipc(t, to, b, spec, w)
        PROVE  IInv' /\ HaltStep
    BY <1>1, <2>1, IpcStep
  <2>2. CASE Fault(t, "PageFault") \/ Fault(t, "Exception")
    BY <1>1, <2>2, FaultStep
  <2> QED BY <1>3, <2>1, <2>2 DEF Communicate
<1>4. ASSUME NEW t \in User, Control(t) PROVE IInv' /\ HaltStep
  <2>0. pager[t] \in Specs /\ Pagers \subseteq Specs /\ Handlers \subseteq Specs
    BY Distinct DEF IInv, TypeOK
  <2>1. ASSUME NEW p \in Pagers \cup {pager[t]}, NEW h \in {"halt", "resume", "leave"},
               NEW r \in BOOLEAN, NEW s \in BOOLEAN, ExchangeRegisters(t, p, h, r, s)
        PROVE  IInv' /\ HaltStep
    BY <2>0, <2>1, ExchangeRegistersStep
  <2>2. ASSUME NEW v \in Version, NEW p \in Pagers, CreateThread(t, v, p) \/ ModifyThread(t, v, p)
        PROVE  IInv' /\ HaltStep
    BY <2>0, <2>2, CreateThreadStep, ModifyThreadStep
  <2>3. CASE DeleteThread(t)
    BY <2>3, DeleteThreadStep
  <2>4. ASSUME NEW p \in Pagers, NEW h \in Handlers, WriteUTCB(t, p, h)
        PROVE  IInv' /\ HaltStep
    BY <2>0, <2>4, WriteUTCBStep
  <2> QED BY <1>4, <2>1, <2>2, <2>3, <2>4 DEF Control
<1>5. ASSUME NEW n \in IRQ, Interrupts(n) PROVE IInv' /\ HaltStep
  <2>1. CASE HardwareIRQ(n)
    BY <1>1, <2>1, HardwareIRQStep
  <2>2. ASSUME NEW p \in Pagers \cup {<<n, 1>>}, InterruptControl(n, p)
        PROVE  IInv' /\ HaltStep
    <3>1. p \in Specs
      BY Distinct
    <3> QED BY <2>2, <3>1, InterruptControlStep
  <2> QED BY <1>5, <2>1, <2>2 DEF Interrupts
<1>6. CASE UNCHANGED vars
  <2>1. UNCHANGED <<life, version, status, sendqueue, pager, handler, unmasked, todo>>
    BY <1>6 DEF vars
  <2>2. TypeOK' /\ LoopReady' /\ SendqueuesExact' /\ AllSound'
    BY <2>1 DEF IInv, TypeOK, LoopReady, SendqueuesExact, AllSound, Sound, Idle, Queued,
                isSending, isReceiving
  <2> QED BY <1>6, <2>2 DEF IInv
<1> QED BY <1>2, <1>3, <1>4, <1>5, <1>6 DEF Next

LEMMA Inductive == Spec => []IInv
BY InitIInv, NextIInv, PTL DEF Spec

(***************************************************************************)
(* Theorems.                                                               *)
(***************************************************************************)
\* Every variable of the IPC code always has its type.
THEOREM IpcTypes == Spec => []TypeOK
<1>1. IInv => TypeOK
  BY DEF IInv
<1> QED BY <1>1, Inductive, PTL

\* A thread is in the sendqueue of the thread it is sending to, once, and in no
\* other, and both exist: no removeTCB and no deletion of a thread leaves a TCB
\* behind in a queue, or follows a pointer to a receiver that is gone.
THEOREM SendqueuesStayExact == Spec => []SendqueuesExact
<1>1. IInv => SendqueuesExact
  BY DEF IInv
<1> QED BY <1>1, Inductive, PTL

\* An interrupt that is enabled has a handler and an idle TCB, whose status can
\* be overwritten by hardwareIRQ; no TCB of an interrupt ever runs.
THEOREM InterruptsStayExact == Spec => []IrqsExact
<1>1. IInv => IrqsExact
  <2> SUFFICES ASSUME IInv PROVE IrqsExact
    OBVIOUS
  <2>1. ASSUME NEW t \in TCB PROVE Sound(t)
    BY DEF IInv, AllSound
  <2>2. unmasked \subseteq IRQ /\ IRQ \subseteq TCB
    BY Distinct DEF IInv, TypeOK
  <2>3. IrqArmed
    BY <2>1, <2>2 DEF Sound, IrqArmed
  <2>4. IrqParked
    BY <2>1, <2>2 DEF Sound, IrqParked
  <2> QED BY <2>3, <2>4 DEF IrqsExact
<1> QED BY <1>1, Inductive, PTL

\* A thread halted by exchangeRegisters, even in the middle of an IPC, does not
\* run until it is resumed or activated: no reply, error, cancellation or
\* deletion of its partner ends the halt.
THEOREM HaltsLast == Spec => HaltLasts
<1>1. IInv /\ [Next]_vars => [HaltStep]_vars
  BY NextIInv
<1>2. Spec => [][HaltStep]_vars
  BY <1>1, Inductive, PTL DEF Spec
<1> QED BY <1>2 DEF HaltLasts, HaltStep

-----------------------------------------------------------------------------
(***************************************************************************)
(* The loop of recvPhase looks for the senders that its receiver would     *)
(* accept if it were waiting already.                                      *)
(***************************************************************************)
LoopLooks ==
  Idle \/ (isReceiving(todo.recv)
             => todo.from = recvFromSpec(status[todo.recv].type, todo.recv))

LEMMA InitLooks == Init => LoopLooks
BY DEF Init, LoopLooks, Idle

LEMMA StaysIdle ==
  ASSUME Idle, UNCHANGED todo
  PROVE  LoopLooks'
BY DEF LoopLooks, Idle

\* Every handler but ipc() and recvPhase leaves todo alone.
LEMMA OthersStayIdle ==
  /\ \A t \in User : \A type : Fault(t, type) => Idle /\ UNCHANGED todo
  /\ \A t \in User : \A p, h, r, s : ExchangeRegisters(t, p, h, r, s) => Idle /\ UNCHANGED todo
  /\ \A t \in User : \A v, p :
       CreateThread(t, v, p) \/ ModifyThread(t, v, p) => Idle /\ UNCHANGED todo
  /\ \A t \in User : DeleteThread(t) => Idle /\ UNCHANGED todo
  /\ \A t \in User : \A p, h : WriteUTCB(t, p, h) => Idle /\ UNCHANGED todo
  /\ \A n \in IRQ : HardwareIRQ(n) => Idle /\ UNCHANGED todo
  /\ \A n \in IRQ : \A p : InterruptControl(n, p) => Idle /\ UNCHANGED todo
<1>1. \A t \in User : \A type : Fault(t, type) => Idle /\ UNCHANGED todo
  BY DEF Fault, FaultHalts, FaultSent, FaultUnsent
<1>2. \A t \in User : \A p, h, r, s : ExchangeRegisters(t, p, h, r, s) => Idle /\ UNCHANGED todo
  BY DEF ExchangeRegisters
<1>3. \A t \in User : \A v, p :
        CreateThread(t, v, p) \/ ModifyThread(t, v, p) => Idle /\ UNCHANGED todo
  BY DEF CreateThread, ModifyThread
<1>4. \A t \in User : DeleteThread(t) => Idle /\ UNCHANGED todo
  BY DEF DeleteThread
<1>5. \A t \in User : \A p, h : WriteUTCB(t, p, h) => Idle /\ UNCHANGED todo
  BY DEF WriteUTCB
<1>6. \A n \in IRQ : HardwareIRQ(n) => Idle /\ UNCHANGED todo
  BY DEF HardwareIRQ
<1>7. \A n \in IRQ : \A p : InterruptControl(n, p) => Idle /\ UNCHANGED todo
  BY DEF InterruptControl
<1> QED BY <1>1, <1>2, <1>3, <1>4, <1>5, <1>6, <1>7

(***************************************************************************)
(* Nobody is missed who was not missed before.                             *)
(***************************************************************************)
\* The part of NoMissedRendezvous about one step and two threads.
Excused(r, s) ==
  \/ life'[r] # life[r]
  \/ version'[s] # version[s]
  \/ pager'[r] # pager[r] \/ handler'[r] # handler[r]

Seen(r, s) == Missed(r, s)' /\ ~Missed(r, s) => Excused(r, s)

NobodyMissed == \A r, s \in TCB : Seen(r, s)

\* If x waits after the step it waited for the same thread before.
Lingers(x) ==
  status'[x].mode \in {"Sending", "Receiving"}
    => /\ status'[x].mode = status[x].mode /\ status'[x].type = status[x].type
       /\ status'[x].receiver = status[x].receiver /\ status'[x].from = status[x].from

LEMMA LingerersSeen ==
  ASSUME SendqueuesExact, SendqueuesExact', NEW r \in TCB, NEW s \in TCB,
         Lingers(r), Lingers(s), Idle \/ todo.recv # r \/ ~Missed(r, s)'
  PROVE  Seen(r, s)
<1> SUFFICES ASSUME Missed(r, s)', ~Excused(r, s)
             PROVE  Missed(r, s)
  BY DEF Seen
<1>1. isReceiving(r)' /\ (s \in Queued(r))'
      /\ Accepts(recvFromSpec(status[r].type, r), r, s)'
  BY DEF Missed
<1>2. isSending(s)' /\ status'[s].receiver = r
  BY <1>1 DEF SendqueuesExact
<1>3. isReceiving(r) /\ isSending(s) /\ status[s].receiver = r
  BY <1>1, <1>2 DEF isReceiving, isSending, Lingers
<1>4. s \in Queued(r)
  BY <1>3 DEF SendqueuesExact
<1>5. /\ status'[r].type = status[r].type /\ status'[r].from = status[r].from
      /\ pager'[r] = pager[r] /\ handler'[r] = handler[r] /\ version'[s] = version[s]
  BY <1>1 DEF isReceiving, Lingers, Excused
<1>6. Accepts(recvFromSpec(status[r].type, r), r, s)
  BY <1>1, <1>5 DEF Accepts, recvFromSpec
<1> QED BY <1>3, <1>4, <1>6 DEF Missed

LEMMA CalmLingers ==
  ASSUME Calmer(status, status'), NEW x \in TCB
  PROVE  Lingers(x)
BY FixedStatuses DEF Calmer, Lingers

LEMMA CalmSeen ==
  ASSUME SendqueuesExact, SendqueuesExact', Calmer(status, status'),
         Idle \/ \A r, s \in TCB : r = todo.recv => ~Missed(r, s)'
  PROVE  NobodyMissed
<1> SUFFICES ASSUME NEW r \in TCB, NEW s \in TCB PROVE Seen(r, s)
  BY DEF NobodyMissed
<1>1. Lingers(r) /\ Lingers(s)
  BY CalmLingers
<1> QED BY <1>1, LingerersSeen

LEMMA AllLinger ==
  ASSUME IInv, IInv', Idle, \A x \in TCB : Lingers(x)
  PROVE  NobodyMissed
BY LingerersSeen DEF IInv, NobodyMissed

\* A thread that is activated is excused as a receiver, and is no sender.
LEMMA ActivatedSeen ==
  ASSUME IInv, IInv', Idle, NEW t \in TCB, life'[t] # life[t], status'[t].mode # "Sending",
         \A x \in TCB \ {t} : status'[x] = status[x]
  PROVE  NobodyMissed
<1> SUFFICES ASSUME NEW r \in TCB, NEW s \in TCB PROVE Seen(r, s)
  BY DEF NobodyMissed
<1>1. SendqueuesExact /\ SendqueuesExact'
  BY DEF IInv
<1>2. CASE r = t
  BY <1>2 DEF Seen, Excused
<1>3. CASE s = t
  BY <1>1, <1>3 DEF Seen, Missed, SendqueuesExact, isSending
<1>4. CASE r # t /\ s # t
  BY <1>1, <1>4, LingerersSeen DEF Lingers
<1> QED BY <1>2, <1>3, <1>4

(***************************************************************************)
(* Sending.                                                                *)
(***************************************************************************)
\* Either phase of a send that comes to an end at once.
LEMMA EndedSendSeen ==
  ASSUME IInv, IInv', Idle, NEW type, NEW s \in TCB, NEW to, NEW on,
         \/ SendRejected(type, s, to, on)
         \/ \E b : SendFails(type, s, to, on, b)
  PROVE  NobodyMissed
<1> DEFINE st == sendError(status, type, s)
<1>1. status \in [TCB -> Statuses] /\ SendqueuesExact /\ SendqueuesExact'
  BY DEF IInv, TypeOK
<1>2. Calmer(status, st) /\ st \in [TCB -> Statuses] /\ Only(status, st, {s})
  <2>1. Calmer(status, st) /\ Only(status, st, {s})
    BY <1>1, ThreadEnds
  <2> QED BY <2>1 DEF Calmer
<1>3. Calmer(status, status')
  <2>1. CASE SendRejected(type, s, to, on)
    <3>1. to[1] \in TCB
      BY <2>1, Distinct DEF SendRejected, Ready, Finds
    <3>2. Calmer(st, status') /\ Only(st, status', {to[1]})
      BY <1>2, <2>1, <3>1, ThreadEnds DEF SendRejected
    <3> QED BY <1>1, <1>2, <3>2, CalmerTwice
  <2>2. CASE \E b : SendFails(type, s, to, on, b)
    BY <1>2, <2>2 DEF SendFails
  <2> QED BY <2>1, <2>2
<1> QED BY <1>1, <1>3, CalmSeen

\* Who joins a sendqueue would not be accepted.
LEMMA SendWaitsSeen ==
  ASSUME IInv, IInv', Idle, NEW type, NEW x, NEW to, NEW on, MaySend(type, x, on),
         NEW spec, NEW w, SendWaits(type, x, to, on, spec, w),
         UNCHANGED <<pager, handler, version>>
  PROVE  NobodyMissed
<1> SUFFICES ASSUME NEW r \in TCB, NEW s \in TCB PROVE Seen(r, s)
  BY DEF NobodyMissed
<1>1. x \in TCB /\ to[1] \in TCB /\ status \in [TCB -> Statuses]
  BY Distinct DEF MaySend, SendWaits, Finds, IInv, TypeOK
<1>2. /\ status'[x].mode = "Sending" /\ status'[x].receiver = to[1]
      /\ \A y \in TCB \ {x} : status'[y] = status[y]
  BY <1>1 DEF SendWaits, Sending
<1>3. SendqueuesExact /\ SendqueuesExact'
  BY DEF IInv
<1>4. CASE r # x /\ s # x
  BY <1>2, <1>3, <1>4, LingerersSeen DEF Lingers
<1>5. CASE r = x
  BY <1>2, <1>5 DEF Seen, Missed, isReceiving
<1>6. CASE r # x /\ s = x
  <2> SUFFICES ASSUME Missed(r, s)' PROVE FALSE
    BY DEF Seen
  <2>1. status'[s].receiver = r
    BY <1>3 DEF Missed, SendqueuesExact
  <2>2. r = to[1] /\ status'[r] = status[r]
    BY <1>2, <1>6, <2>1
  <2>3. isReceiving(r) /\ Accepts(recvFromSpec(status[r].type, r), r, s)
    BY <2>2 DEF Missed, isReceiving, Accepts, recvFromSpec
  <2> QED BY <1>6, <2>2, <2>3 DEF SendWaits, Ready
<1> QED BY <1>4, <1>5, <1>6

\* A sender that waits for the reply of one thread, the thread that has just
\* got its message, finds no message of that thread in its own queue.
LEMMA SendNowSeen ==
  ASSUME IInv, IInv', Idle, NEW type, NEW x, NEW to, NEW on, MaySend(type, x, on),
         NEW sent \in Statuses,
         sent = Runnable \/ (sent.mode = "Receiving" /\ recvFromSpec(sent.type, x)' = to),
         SendNow(type, x, to, sent, on),
         UNCHANGED <<pager, handler, version>>
  PROVE  NobodyMissed
<1> DEFINE st == resumeThread(status, to[1])
<1> SUFFICES ASSUME NEW r \in TCB, NEW s \in TCB PROVE Seen(r, s)
  BY DEF NobodyMissed
<1>1. /\ x \in TCB /\ to[1] \in TCB /\ to[1] # x /\ to \in Id
      /\ status \in [TCB -> Statuses]
  BY Distinct, MaySendIdle DEF MaySend, SendNow, Ready, Finds, IInv, TypeOK
<1>2. Calmer(status, st) /\ st[to[1]] \in {Runnable, Halted} /\ st \in [TCB -> Statuses]
  <2>1. Calmer(status, st) /\ st[to[1]] \in {Runnable, Halted}
    BY <1>1, ThreadEnds
  <2> QED BY <2>1 DEF Calmer
<1>3. status'[x] = sent /\ \A y \in TCB \ {x} : status'[y] = st[y]
  <2>1. status' = [st EXCEPT ![x] = sent]
    BY DEF SendNow
  <2> HIDE DEF st
  <2> QED BY <1>1, <1>2, <2>1
<1> HIDE DEF st
<1>4. SendqueuesExact /\ SendqueuesExact'
  BY DEF IInv
<1>5. ASSUME NEW y \in TCB, y # x PROVE Lingers(y)
  BY <1>2, <1>3, <1>5, FixedStatuses DEF Calmer, Lingers
<1>6. ~isSending(x)' /\ ~isSending(to[1])'
  <2>1. status'[x].mode # "Sending"
    BY <1>3, FixedStatuses
  <2>2. status'[to[1]].mode # "Sending"
    BY <1>1, <1>2, <1>3, FixedStatuses
  <2> QED BY <2>1, <2>2 DEF isSending
<1>7. ASSUME Missed(r, s)' PROVE isSending(s)' /\ s # x /\ s # to[1]
  BY <1>4, <1>6, <1>7 DEF Missed, SendqueuesExact
<1>8. CASE r # x
  BY <1>4, <1>5, <1>7, <1>8, LingerersSeen DEF Seen
<1>9. CASE r = x
  <2> SUFFICES ASSUME Missed(r, s)' PROVE FALSE
    BY DEF Seen
  <2>1. sent.mode = "Receiving" /\ status'[x] = sent
    BY <1>3, <1>9, FixedStatuses DEF Missed, isReceiving
  <2>2. recvFromSpec(sent.type, x)' = to
    BY <2>1, FixedStatuses
  <2>3. recvFromSpec(status[r].type, r)' = to
    BY <1>9, <2>1, <2>2 DEF recvFromSpec
  <2>4. Accepts(to, r, s)'
    BY <2>3 DEF Missed, Accepts
  <2>5. to = <<s, version'[s]>>
    BY <1>1, <2>4, Distinct DEF Accepts
  <2> QED BY <1>7, <2>5
<1> QED BY <1>8, <1>9

(***************************************************************************)
(* The system calls and the faults of a thread.                            *)
(***************************************************************************)
LEMMA IpcSeen ==
  ASSUME IInv, IInv', NEW t \in User, NEW to \in Id \cup {Nil, AnyThread}, NEW spec \in Specs,
         NEW b \in BOOLEAN, NEW w \in BOOLEAN, Ipc(t, to, b, spec, w)
  PROVE  NobodyMissed /\ LoopLooks'
<1>0. t \in TCB /\ "MRs" \in Types /\ Idle /\ status[t] = Runnable /\ UNCHANGED <<ids, partners>>
  BY Distinct DEF Ipc, IpcReceive, IpcSent, IpcUnsent, Types
<1>1. MaySend("MRs", t, unmasked) /\ UNCHANGED <<pager, handler, version>>
  BY <1>0, RunsMaySend DEF ids, partners
<1>2. ASSUME todo' = IF spec = Nil THEN NoWork ELSE Work(t, "MRs", spec, w), ~isReceiving(t)'
      PROVE  LoopLooks'
  <2>1. Idle' \/ todo'.recv = t
    BY <1>2 DEF Idle, NoWork, Work
  <2> QED BY <1>2, <2>1 DEF LoopLooks, isReceiving
<1>3. CASE IpcReceive(t, spec, w)
  <2>1. UNCHANGED status /\ ~isReceiving(t)'
    BY <1>0, <1>3, FixedStatuses DEF IpcReceive, isReceiving
  <2>2. NobodyMissed
    BY <1>0, <2>1, AllLinger DEF Lingers
  <2> QED BY <1>2, <1>3, <2>1, <2>2 DEF IpcReceive
<1>4. CASE IpcSent(t, to, spec, w)
  <2>1. SendNow("MRs", t, to, Runnable, unmasked)
    BY <1>4 DEF IpcSent
  <2>2. ~isReceiving(t)'
    BY <1>0, <2>1, FixedStatuses DEF SendNow, isReceiving, IInv, TypeOK, resumeThread
  <2>3. NobodyMissed
    BY <1>0, <1>1, <2>1, SendNowSeen, FixedStatuses
  <2> QED BY <1>2, <1>4, <2>2, <2>3 DEF IpcSent
<1>5. CASE IpcUnsent(t, to, b, spec, w)
  <2>1. LoopLooks'
    BY <1>0, <1>5, StaysIdle DEF IpcUnsent
  <2>2. NobodyMissed
    BY <1>0, <1>1, <1>5, EndedSendSeen, SendWaitsSeen DEF IpcUnsent
  <2> QED BY <2>1, <2>2
<1> QED BY <1>3, <1>4, <1>5 DEF Ipc

LEMMA FaultSeen ==
  ASSUME IInv, IInv', NEW t \in User, NEW type \in {"PageFault", "Exception"}, Fault(t, type)
  PROVE  NobodyMissed
<1> DEFINE to == recvFromSpec(type, t)
<1>0. /\ t \in TCB /\ type \in Types /\ type # "Interrupt" /\ type # "MRs"
      /\ Idle /\ status[t] = Runnable /\ UNCHANGED <<ids, partners, todo>>
  BY Distinct DEF Fault, FaultSent, FaultUnsent, FaultHalts, Types
<1>1. MaySend(type, t, unmasked) /\ UNCHANGED <<pager, handler, version>>
  BY <1>0, RunsMaySend DEF ids, partners
<1>2. recvFromSpec(type, t)' = to
  BY <1>0, <1>1 DEF recvFromSpec
<1>3. CASE FaultHalts(t)
  <2>1. Calmer(status, status')
    BY <1>0, <1>3, ThreadEnds DEF FaultHalts, IInv, TypeOK
  <2> QED BY <1>0, <2>1, CalmSeen DEF IInv
<1>4. CASE FaultSent(t, type, to)
  <2> DEFINE sent == Receiving(type, FALSE, Nil)
  <2>1. SendNow(type, t, to, sent, unmasked)
    BY <1>4 DEF FaultSent
  <2>2. sent \in Statuses /\ sent.mode = "Receiving" /\ sent.type = type
    BY <1>0, Distinct DEF Receiving, Statuses, Modes
  <2> HIDE DEF sent, to
  <2> QED BY <1>0, <1>1, <1>2, <2>1, <2>2, SendNowSeen
<1>5. CASE FaultUnsent(t, type, to)
  BY <1>0, <1>1, <1>5, EndedSendSeen, SendWaitsSeen DEF FaultUnsent
<1> QED BY <1>3, <1>4, <1>5 DEF Fault

LEMMA HardwareIRQSeen ==
  ASSUME IInv, IInv', NEW n \in IRQ, HardwareIRQ(n)
  PROVE  NobodyMissed
<1> DEFINE on == unmasked \ {n}
           to == pager[n]
<1>0. /\ n \in TCB /\ "Interrupt" \in Types /\ Idle /\ n \in unmasked
      /\ UNCHANGED <<ids, partners, todo>>
  BY Distinct DEF HardwareIRQ, Types
<1>1. MaySend("Interrupt", n, on) /\ UNCHANGED <<pager, handler, version>>
  BY <1>0, FixedStatuses DEF MaySend, IInv, AllSound, Sound, ids, partners
<1>2. CASE SendNow("Interrupt", n, to, Receiving("Interrupt", TRUE, Nil), on)
  <2> DEFINE sent == Receiving("Interrupt", TRUE, Nil)
  <2>1. SendNow("Interrupt", n, to, sent, on)
    BY <1>2
  <2>2. sent \in Statuses /\ sent.mode = "Receiving" /\ sent.type = "Interrupt"
    BY <1>0, Distinct DEF Receiving, Statuses, Modes
  <2>3. recvFromSpec("Interrupt", n)' = to
    BY <1>1 DEF recvFromSpec
  <2> HIDE DEF sent, to, on
  <2> QED BY <1>0, <1>1, <2>1, <2>2, <2>3, SendNowSeen
<1>3. CASE SendRejected("Interrupt", n, to, on) \/ SendFails("Interrupt", n, to, on, TRUE)
  BY <1>0, <1>3, EndedSendSeen
<1>4. CASE SendWaits("Interrupt", n, to, on, Nil, FALSE)
  BY <1>0, <1>1, <1>4, SendWaitsSeen
<1>5. CASE UNCHANGED status
  BY <1>0, <1>5, AllLinger DEF Lingers
<1> QED BY <1>2, <1>3, <1>4, <1>5 DEF HardwareIRQ, Masked

(***************************************************************************)
(* The receive phase.                                                      *)
(***************************************************************************)
\* If recvPhase finds no partner, there is none.
LEMMA NoPartner ==
  ASSUME IInv, NEW r \in TCB, NEW spec, Partner(r, spec) = {}, NEW s \in TCB, s \in Queued(r)
  PROVE  ~Accepts(spec, r, s)
<1> DEFINE q     == sendqueue[r]
           local == {i \in DOMAIN q : SpaceOf[q[i]] = SpaceOf[r]}
<1> SUFFICES ASSUME Accepts(spec, r, s) PROVE FALSE
  OBVIOUS
<1>1. q \in Seq(TCB) /\ Len(q) \in Nat /\ DOMAIN q = 1 .. Len(q)
  BY LenProperties DEF IInv, TypeOK
<1>2. PICK i \in DOMAIN q : q[i] = s
  BY DEF Queued
<1>3. CASE spec = <<s, version[s]>>
  <2>1. isSending(s) /\ status[s].receiver = r /\ life[s] # "Absent"
    BY DEF IInv, SendqueuesExact
  <2>2. spec \in Id /\ spec[1] = s /\ spec[2] = version[s]
    BY <1>3, Distinct DEF IInv, TypeOK
  <2>3. spec # AnyThread /\ spec # AnyLocal
    BY <2>2, Distinct
  <2>4. s \in Partner(r, spec)
    BY <2>1, <2>2, <2>3 DEF Partner, Finds
  <2> QED BY <2>4
<1>4. CASE spec = AnyThread
  <2>1. 1 \in DOMAIN q
    BY <1>1, <1>2
  <2>2. Partner(r, spec) = {q[k] : k \in DOMAIN q \cap {1}}
    BY <1>4, Distinct DEF Partner
  <2>3. q[1] \in Partner(r, spec)
    BY <2>1, <2>2
  <2> QED BY <2>3
<1>5. CASE spec = AnyLocal /\ SpaceOf[s] = SpaceOf[r]
  <2>1. i \in local /\ local \in SUBSET Nat
    BY <1>1, <1>2, <1>5
  <2>2. PICK m \in local : \A j \in local : m <= j
    BY <2>1, LeastNumber
  <2>3. q[m] \in Partner(r, spec)
    BY <1>5, <2>2, Distinct DEF Partner
  <2> QED BY <2>3
<1> QED BY <1>3, <1>4, <1>5 DEF Accepts

LEMMA RecvAloneSeen ==
  ASSUME IInv, IInv', LoopLooks, RecvAlone
  PROVE  NobodyMissed /\ LoopLooks'
<1> PICK x \in TCB : x = todo.recv
  BY DEF IInv, TypeOK
<1>0. /\ ~Idle /\ Idle' /\ UNCHANGED <<ids, sendqueue, partners, unmasked>>
      /\ Partner(x, todo.from) = {}
  BY DEF RecvAlone, Idle, NoWork, Work
<1>1. todo.type \in Types /\ status \in [TCB -> Statuses]
      /\ SendqueuesExact /\ SendqueuesExact'
  BY DEF IInv, TypeOK
<1>2. CASE status' = recvError(status, todo.type, x)
  <2>1. Calmer(status, status') /\ status'[x] \in {Runnable, Halted}
    BY <1>1, <1>2, ThreadEnds
  <2>2. \A r, s \in TCB : r = x => ~Missed(r, s)'
    BY <2>1, FixedStatuses DEF Missed, isReceiving
  <2> QED BY <1>0, <1>1, <2>1, <2>2, CalmSeen DEF LoopLooks
<1>3. CASE \/ status' = status
           \/ /\ status[x] = Runnable
              /\ status' = [status EXCEPT ![x] = Receiving(todo.type, FALSE, todo.from)]
  <2>1. \A y \in TCB \ {x} : status'[y] = status[y]
    BY <1>1, <1>3
  <2>2. ~isSending(x)'
    BY <1>0, <1>1, <1>3 DEF IInv, LoopReady, isSending, Receiving
  <2>3. isReceiving(x)' => recvFromSpec(status[x].type, x)' = todo.from
    <3>1. CASE status' = status
      <4>1. isReceiving(x)' => recvFromSpec(status[x].type, x) = todo.from
        BY <1>0, <3>1 DEF LoopLooks, isReceiving
      <4>2. pager'[x] = pager[x] /\ handler'[x] = handler[x]
        BY <1>0 DEF partners
      <4> QED BY <3>1, <4>1, <4>2 DEF recvFromSpec
    <3>2. CASE /\ status[x] = Runnable
               /\ status' = [status EXCEPT ![x] = Receiving(todo.type, FALSE, todo.from)]
      <4>1. todo.type = "MRs"
        BY <1>0, <3>2, FixedStatuses DEF IInv, LoopReady, isReceiving
      <4>2. status'[x].type = "MRs" /\ status'[x].from = todo.from
        BY <1>1, <3>2, <4>1 DEF Receiving
      <4> QED BY <4>2 DEF recvFromSpec
    <3> QED BY <1>3, <3>1, <3>2
  <2> SUFFICES ASSUME NEW r \in TCB, NEW s \in TCB PROVE Seen(r, s)
    BY <1>0 DEF NobodyMissed, LoopLooks
  <2>4. CASE r = x
    <3> SUFFICES ASSUME Missed(r, s)' PROVE FALSE
      BY DEF Seen
    <3>1. s \in Queued(r)
      BY <1>0 DEF Missed, Queued
    <3>2. recvFromSpec(status[r].type, r)' = todo.from /\ version'[s] = version[s]
      BY <1>0, <2>3, <2>4 DEF Missed, isReceiving, recvFromSpec, ids
    <3>3. Accepts(todo.from, r, s)
      BY <3>2 DEF Missed, Accepts
    <3> QED BY <1>0, <2>4, <3>1, <3>3, NoPartner
  <2>5. CASE r # x /\ s # x
    BY <1>1, <2>1, <2>5, LingerersSeen DEF Lingers
  <2>6. CASE s = x
    BY <1>1, <2>2, <2>6 DEF Seen, Missed, SendqueuesExact
  <2> QED BY <2>4, <2>5, <2>6
<1> QED BY <1>2, <1>3 DEF RecvAlone

LEMMA RecvRejectedSeen ==
  ASSUME IInv, IInv', NEW y, RecvRejected(y)
  PROVE  NobodyMissed /\ LoopLooks'
<1> DEFINE x  == todo.recv
           st == sendError(status, status[y].type, y)
<1>0. ~Idle /\ y \in Partner(x, todo.from) /\ Idle'
  BY DEF RecvRejected, Idle, NoWork, Work
<1>1. x \in TCB /\ y \in TCB /\ status \in [TCB -> Statuses]
      /\ SendqueuesExact /\ SendqueuesExact'
  BY <1>0, PartnerSends DEF IInv, TypeOK
<1>2. Calmer(status, st) /\ st \in [TCB -> Statuses] /\ Only(status, st, {y})
  <2>1. \E type : st = sendError(status, type, y)
    OBVIOUS
  <2> HIDE DEF st
  <2>2. Calmer(status, st) /\ Only(status, st, {y})
    BY <1>1, <2>1, ThreadEnds
  <2> QED BY <2>2 DEF Calmer
<1>3. Calmer(st, status') /\ status'[x] \in {Runnable, Halted} /\ Only(st, status', {x})
  BY <1>1, <1>2, ThreadEnds DEF RecvRejected
<1>4. Calmer(status, status')
  BY <1>1, <1>2, <1>3, CalmerTwice
<1>5. \A r, s \in TCB : r = x => ~Missed(r, s)'
  BY <1>3, FixedStatuses DEF Missed, isReceiving
<1> QED BY <1>0, <1>1, <1>4, <1>5, CalmSeen DEF LoopLooks

\* The receiver is served; the sender is the next to look for a partner, and
\* not missed before it has.
LEMMA RecvRendezvousSeen ==
  ASSUME IInv, IInv', NEW y, RecvRendezvous(y)
  PROVE  NobodyMissed /\ LoopLooks'
<1> DEFINE x        == todo.recv
           sendtype == status[y].type
           next     == recvFromSpec(sendtype, y)
           resumed  == resumeThread(status, x)
           sent     == Receiving(sendtype, status[y].halt, status[y].from)
<1>0. ~Idle /\ y \in Partner(x, todo.from) /\ UNCHANGED <<ids, partners>>
  BY DEF RecvRendezvous
<1>1. /\ x \in TCB /\ y \in TCB /\ isSending(y) /\ y # x /\ status \in [TCB -> Statuses]
      /\ SendqueuesExact /\ SendqueuesExact'
  BY <1>0, PartnerSends DEF IInv, TypeOK
<1>2. /\ Calmer(status, resumed) /\ resumed \in [TCB -> Statuses] /\ resumed[y] = status[y]
      /\ resumed[x] \in {Runnable, Halted}
  <2> HIDE DEF x
  <2>1. Calmer(status, resumed) /\ Only(status, resumed, {x}) /\ resumed[x] \in {Runnable, Halted}
    BY <1>1, ThreadEnds
  <2> QED BY <1>1, <2>1 DEF Calmer, Only
<1>3. \/ status' = resumeThread(resumed, y) /\ todo' = NoWork
      \/ /\ next # Nil
         /\ status' = [resumed EXCEPT ![y] = Receiving(sendtype, @.halt, @.from)]
         /\ todo' = Work(y, sendtype, next, status[y].patient)
  BY DEF RecvRendezvous
<1> HIDE DEF resumed, next, sent
<1>4. CASE status' = resumeThread(resumed, y) /\ todo' = NoWork
  <2>1. Calmer(resumed, status') /\ Only(resumed, status', {y})
    BY <1>1, <1>2, <1>4, ThreadEnds
  <2>2. Calmer(status, status')
    BY <1>2, <2>1, FixedStatuses DEF Calmer
  <2>3. \A r, s \in TCB : r = x => ~Missed(r, s)'
    BY <1>1, <1>2, <2>1, FixedStatuses DEF Only, Missed, isReceiving
  <2>4. LoopLooks'
    BY <1>4 DEF LoopLooks, Idle, NoWork, Work
  <2> QED BY <1>1, <2>2, <2>3, <2>4, CalmSeen
<1>5. CASE /\ next # Nil
           /\ status' = [resumed EXCEPT ![y] = Receiving(sendtype, @.halt, @.from)]
           /\ todo' = Work(y, sendtype, next, status[y].patient)
  <2>1. status'[y] = sent /\ \A z \in TCB \ {y} : status'[z] = resumed[z]
    <3>1. status' = [resumed EXCEPT ![y] = sent]
      BY <1>2, <1>5 DEF sent
    <3> QED BY <1>1, <1>2, <3>1
  <2>2. sent.mode = "Receiving" /\ sent.type = sendtype /\ sent.from = status[y].from
    BY DEF sent, Receiving
  <2>3. todo'.recv = y /\ todo'.from = next /\ ~Idle'
    BY <1>5 DEF Work, Idle, NoWork
  <2>4. pager'[y] = pager[y] /\ handler'[y] = handler[y]
    BY <1>0 DEF partners
  <2>5. LoopLooks'
    BY <2>1, <2>2, <2>3, <2>4 DEF LoopLooks, recvFromSpec, next
  <2>6. ASSUME NEW z \in TCB, z # y PROVE Lingers(z)
    BY <1>2, <2>1, <2>6, FixedStatuses DEF Calmer, Lingers
  <2>7. ASSUME NEW r \in TCB, NEW s \in TCB PROVE Seen(r, s)
    <3>1. CASE r = y
      BY <2>3, <3>1 DEF Seen, Missed
    <3>2. CASE r = x
      BY <1>1, <1>2, <2>1, <3>2, FixedStatuses DEF Seen, Missed, isReceiving
    <3>3. CASE s = y
      BY <1>1, <2>1, <2>2, <3>3 DEF Seen, Missed, SendqueuesExact, isSending
    <3>4. CASE r # y /\ r # x /\ s # y
      BY <1>1, <2>6, <3>4, LingerersSeen
    <3> QED BY <3>1, <3>2, <3>3, <3>4
  <2> QED BY <2>5, <2>7 DEF NobodyMissed
<1> QED BY <1>3, <1>4, <1>5

(***************************************************************************)
(* The system calls that control threads and interrupts.                   *)
(***************************************************************************)
LEMMA ExchangeRegistersSeen ==
  ASSUME IInv, IInv', NEW dest \in User, NEW p, NEW halting, NEW cr, NEW cs,
         ExchangeRegisters(dest, p, halting, cr, cs)
  PROVE  NobodyMissed
<1> DEFINE st == CASE halting = "halt" /\ status[dest] = Runnable ->
                        haltThread(status, dest)
                   [] halting = "halt" /\ status[dest] # Runnable ->
                        [status EXCEPT ![dest].halt = TRUE]
                   [] halting = "resume" /\ status[dest] = Halted ->
                        [status EXCEPT ![dest] = Runnable]
                   [] OTHER -> status
           type == status[dest].type
           old  == status[dest]
<1>1. dest \in TCB /\ status \in [TCB -> Statuses] /\ old \in Statuses
  BY Distinct DEF IInv, TypeOK
<1>2. \/ status' = recvError(st, type, dest)
      \/ status' = sendError(st, type, dest)
      \/ status' = st
  <2> HIDE DEF st, type
  <2> QED BY DEF ExchangeRegisters, st, type
<1>3. /\ st \in [TCB -> Statuses] /\ \A x \in TCB \ {dest} : st[x] = status[x]
      /\ \/ st[dest] \in {Runnable, Halted} \/ st[dest] = old
         \/ /\ st[dest].mode = old.mode /\ st[dest].receiver = old.receiver
            /\ st[dest].type = type /\ st[dest].from = old.from
  <2>1. CASE st = haltThread(status, dest)
    BY <1>1, <2>1, FixedStatuses DEF haltThread
  <2>2. CASE st = [status EXCEPT ![dest].halt = TRUE]
    <3> DEFINE hs == [old EXCEPT !.halt = TRUE]
    <3>1. /\ hs \in Statuses /\ hs.mode = old.mode /\ hs.receiver = old.receiver
          /\ hs.type = type /\ hs.from = old.from
      BY <1>1 DEF Statuses
    <3>2. st = [status EXCEPT ![dest] = hs]
      BY <2>2
    <3> HIDE DEF hs, st
    <3>3. st[dest] = hs
      BY <1>1, <3>2
    <3> QED BY <1>1, <3>1, <3>2, <3>3
  <2>3. CASE st = [status EXCEPT ![dest] = Runnable]
    BY <1>1, <2>3, FixedStatuses
  <2>4. CASE st = status
    BY <1>1, <2>4
  <2>5. \/ st = haltThread(status, dest) \/ st = [status EXCEPT ![dest].halt = TRUE]
        \/ st = [status EXCEPT ![dest] = Runnable] \/ st = status
    OBVIOUS
  <2> QED BY <2>1, <2>2, <2>3, <2>4, <2>5
<1> HIDE DEF st, type
<1>4. CASE status' = recvError(st, type, dest) \/ status' = sendError(st, type, dest)
  <2>1. Calmer(st, status') /\ Only(st, status', {dest}) /\ status'[dest] \in {Runnable, Halted}
    BY <1>1, <1>3, <1>4, ThreadEnds
  <2>2. \A x \in TCB : Lingers(x)
    BY <1>3, <2>1, FixedStatuses DEF Lingers, Only
  <2> QED BY <2>2, AllLinger DEF ExchangeRegisters
<1>5. CASE status' = st
  <2>1. \A x \in TCB : Lingers(x)
    BY <1>3, <1>5, FixedStatuses DEF Lingers, type
  <2> QED BY <2>1, AllLinger DEF ExchangeRegisters
<1> QED BY <1>2, <1>4, <1>5

LEMMA ControlSeen ==
  ASSUME IInv, IInv', NEW t \in User, Control(t)
  PROVE  NobodyMissed
<1>0. t \in TCB /\ TypeOK /\ Idle
  BY Distinct DEF IInv, Control
<1>1. ASSUME NEW p, NEW h, NEW r, NEW s, ExchangeRegisters(t, p, h, r, s) PROVE NobodyMissed
  BY <1>1, ExchangeRegistersSeen
<1>2. ASSUME NEW p, NEW h, WriteUTCB(t, p, h) PROVE NobodyMissed
  BY <1>0, <1>2, AllLinger DEF WriteUTCB, Lingers
<1>3. ASSUME NEW v, NEW p, CreateThread(t, v, p) PROVE NobodyMissed
  <2>1. life'[t] # life[t] /\ \A x \in TCB \ {t} : status'[x] = status[x]
    BY <1>0, <1>3 DEF CreateThread, activateTCB, TypeOK
  <2>2. status'[t].mode # "Sending"
    BY <1>0, <1>3, FixedStatuses DEF CreateThread, activateTCB, TypeOK, Receiving
  <2> QED BY <1>0, <2>1, <2>2, ActivatedSeen
<1>4. ASSUME NEW v, NEW p, ModifyThread(t, v, p) PROVE NobodyMissed
  <2>1. CASE UNCHANGED status
    BY <1>0, <2>1, AllLinger DEF Lingers
  <2>2. CASE life[t] = "Inactive" /\ life' = [life EXCEPT ![t] = "Active"]
             /\ status' = activateTCB(status, t)
    <3>1. life'[t] # life[t] /\ \A x \in TCB \ {t} : status'[x] = status[x]
      BY <1>0, <2>2 DEF activateTCB, TypeOK
    <3>2. status'[t].mode # "Sending"
      BY <1>0, <2>2 DEF activateTCB, TypeOK, Receiving
    <3> QED BY <1>0, <3>1, <3>2, ActivatedSeen
  <2> QED BY <1>4, <2>1, <2>2 DEF ModifyThread
<1>5. ASSUME DeleteThread(t) PROVE NobodyMissed
  <2>1. \A x \in TCB : Lingers(x)
    <3> SUFFICES ASSUME NEW x \in TCB PROVE Lingers(x)
      OBVIOUS
    <3>1. \/ status'[x] = Halted \/ status'[x] = status[x]
          \/ \E type : status'[x] = sendError(status, type, x)[x]
      BY <1>5 DEF DeleteThread
    <3>2. ASSUME NEW type PROVE sendError(status, type, x)[x] \in {Runnable, Halted}
      BY <1>0 DEF sendError, haltThread, resumeThread, TypeOK
    <3> QED BY <3>1, <3>2, FixedStatuses DEF Lingers
  <2> QED BY <1>0, <2>1, AllLinger
<1> QED BY <1>1, <1>2, <1>3, <1>4, <1>5 DEF Control

LEMMA InterruptControlSeen ==
  ASSUME IInv, IInv', NEW n \in IRQ, NEW p, InterruptControl(n, p)
  PROVE  NobodyMissed
<1>1. n \in TCB /\ status \in [TCB -> Statuses] /\ Idle
  BY Distinct DEF IInv, TypeOK, InterruptControl
<1>2. status' = [status EXCEPT ![n] = Halted]
  BY DEF InterruptControl
<1>3. \A x \in TCB : Lingers(x)
  BY <1>1, <1>2, FixedStatuses DEF Lingers
<1> QED BY <1>1, <1>3, AllLinger

(***************************************************************************)
(* The theorem.                                                            *)
(***************************************************************************)
LEMMA NextSeen ==
  ASSUME IInv, IInv', LoopLooks, Next
  PROVE  NobodyMissed /\ LoopLooks'
<1>1. CASE RecvPhase
  BY <1>1, RecvAloneSeen, RecvRejectedSeen, RecvRendezvousSeen DEF RecvPhase
<1>2. ASSUME NEW t \in User, Communicate(t) PROVE NobodyMissed /\ LoopLooks'
  <2>1. CASE Fault(t, "PageFault") \/ Fault(t, "Exception")
    BY <2>1, FaultSeen, OthersStayIdle, StaysIdle
  <2> QED BY <1>2, <2>1, IpcSeen DEF Communicate
<1>3. ASSUME NEW t \in User, Control(t) PROVE NobodyMissed /\ LoopLooks'
  <2>1. Idle /\ UNCHANGED todo
    BY <1>3, OthersStayIdle DEF Control
  <2> QED BY <1>3, <2>1, ControlSeen, StaysIdle
<1>4. ASSUME NEW n \in IRQ, Interrupts(n) PROVE NobodyMissed /\ LoopLooks'
  <2>1. Idle /\ UNCHANGED todo
    BY <1>4, OthersStayIdle DEF Interrupts
  <2>2. NobodyMissed
    BY <1>4, HardwareIRQSeen, InterruptControlSeen DEF Interrupts
  <2> QED BY <2>1, <2>2, StaysIdle
<1> QED BY <1>1, <1>2, <1>3, <1>4 DEF Next

\* Two threads never come to wait for each other, each ready for the other,
\* whatever else sends, receives, faults or is cancelled, unless the receiver
\* was only just activated or user code changed an id or a partner meanwhile:
\* neither sendPhase nor recvPhase overlooks a partner.
THEOREM NothingMissed == Spec => NoMissedRendezvous
<1>1. IInv /\ IInv' /\ LoopLooks /\ [Next]_vars => LoopLooks' /\ [NobodyMissed]_vars
  <2> SUFFICES ASSUME IInv, IInv', LoopLooks, [Next]_vars
               PROVE  LoopLooks' /\ [NobodyMissed]_vars
    OBVIOUS
  <2>1. CASE UNCHANGED vars
    BY <2>1 DEF vars, LoopLooks, Idle, isReceiving, recvFromSpec
  <2>2. CASE Next
    BY <2>2, NextSeen
  <2> QED BY <2>1, <2>2
<1>2. Spec => [][NobodyMissed]_vars
  BY <1>1, InitLooks, Inductive, PTL DEF Spec
<1> QED BY <1>2 DEF NoMissedRendezvous, NobodyMissed, Seen, Excused
=============================================================================
