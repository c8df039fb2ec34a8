------------------------------ MODULE Pingpong ------------------------------
(***************************************************************************)
(* The benchmark pork/user/l4ka-pingpong/pingpong.cc, a root server with a *)
(* pager and two threads, on the kernel of PorkCalls and the console of    *)
(* Simpleio.  The four threads share the program's memory, whatever their  *)
(* address spaces, and with it the cursor.                                 *)
(*                                                                         *)
(* A thread is at the statement in pc[t] and goes on when all of its       *)
(* output is on the screen.  Texts are cut down to a few characters; the   *)
(* times that are measured are left out.                                   *)
(***************************************************************************)
EXTENDS PorkCalls, Simpleio

CONSTANTS
  Main, Pager, Ping, Pong,  \* master_tid, pager_tid, ping_tid, pong_tid
  WindowArgs,               \* the arguments of setWindow
  MaxWords, MRSTEPPING,     \* the benchmark's numbers of words
  ROUNDS                    \* messages of each size

ASSUME PingpongAssumption ==
  /\ User = {Main, Pager, Ping, Pong} /\ Root = Main /\ IRQ = {}
  /\ Printers = User
  /\ Pages = {"code", "data", "screen"}
  /\ MRSTEPPING \in Nat \ {0} /\ ROUNDS \in Nat \ {0}

VARIABLES
  pc,
  opts,       \* INTER_AS, MIGRATE and PRINT_TABLE; LIPC makes no difference
  n,          \* the system call of main that is next
  kept,       \* the pager's msg
  j, i        \* ping's counters: words, messages sent

progVars == <<pc, opts, n, kept, j, i>>
vars == <<kernelVars, screenVars, progVars>>

NL == Lit("\n")

\* The pages that t needs next.  Main touches its memory beforehand, and its
\* pager sigma0 is not modelled.
Needs(t) ==
  CASE t \in {Main, Pager} -> {}
    [] pc[t] = "start"     -> {"code"}
    [] out[t] # << >>      -> {"code", "data", "screen"}
    [] OTHER               -> {"code", "data"}

Running(t) ==
  /\ K!Idle /\ status[t] = K!Runnable
  /\ pc[t] \notin {"gone", "lost"}
  /\ t \in {Ping, Pong} => Needs(t) \subseteq mapped[space[t]]

\* t is at the statement l, with nothing left to print, and goes to next.
At_(t, l, next) ==
  /\ Running(t) /\ out[t] = << >>
  /\ pc[t] = l
  /\ pc' = [pc EXCEPT ![t] = next]

Prints(t, text) ==
  /\ out' = [out EXCEPT ![t] = text]
  /\ UNCHANGED <<video, xpos, ypos, window, attr, stage>>

\* L4_KDB_Enter prints a message and waits for a key.
KdbMessage == <<"K", "\n">>

Display(t) == Running(t) /\ putchar(t) /\ UNCHANGED <<kernelVars, progVars>>

Faults(t) ==
  /\ K!Idle /\ status[t] = K!Runnable /\ t \in {Ping, Pong} /\ pc[t] \notin {"gone", "lost"}
  /\ \E page \in Needs(t) \ mapped[space[t]] : PageFault(t, page)
  /\ UNCHANGED <<screenVars, progVars>>

\* Where the threads begin; anywhere else is not the program's code.
Entry == [ping_thread |-> "await", pong_thread |-> "first", pager |-> "wait"]

Begin(t) ==
  LET ip == context[t][1] IN
  /\ At_(t, "start", IF ip \in DOMAIN Entry THEN Entry[ip] ELSE "lost")
  /\ UNCHANGED <<kernelVars, screenVars, opts, n, kept, j, i>>

-----------------------------------------------------------------------------
(***************************************************************************)
(* main.                                                                   *)
(***************************************************************************)
MainWindow ==
  /\ At_(Main, "window", "cls")
  /\ setWindow(WindowArgs[1], WindowArgs[2], WindowArgs[3], WindowArgs[4])
  /\ attr' = 5
  /\ UNCHANGED <<kernelVars, video, xpos, ypos, out, stage, opts, n, kept, j, i>>

MainCls ==
  /\ At_(Main, "cls", "greet")
  /\ cls
  /\ UNCHANGED <<kernelVars, window, attr, out, stage, opts, n, kept, j, i>>

MainGreet ==
  /\ At_(Main, "greet", "touch")
  /\ Prints(Main, <<"R", "\n">>)
  /\ UNCHANGED <<kernelVars, opts, n, kept, j, i>>

\* Touching all of its memory, main gets it from its own pager.
MainTouch ==
  /\ At_(Main, "touch", "pager")
  /\ mapped' = [mapped EXCEPT ![Main] = Pages]
  /\ UNCHANGED <<life, version, status, sendqueue, pager, handler, unmasked, todo,
                 mr, from, context, faultCode, space, configured, short,
                 screenVars, opts, n, kept, j, i>>

MainPager ==
  /\ Running(Main) /\ out[Main] = << >> /\ pc[Main] = "pager"
  /\ pc' = [pc EXCEPT ![Main] = "startpager", ![Pager] = "start"]
  /\ ThreadControl(Pager, Main, IdOf(Main))
  /\ UNCHANGED <<screenVars, opts, n, kept, j, i>>

MainStart ==
  /\ At_(Main, "startpager", "menu")
  /\ Start(Pager, "pager_stack", "pager")
  /\ UNCHANGED <<screenVars, opts, n, kept, j, i>>

MainMenu ==
  /\ At_(Main, "menu", "key")
  /\ Prints(Main, <<"M", "\n">>)
  /\ UNCHANGED <<kernelVars, opts, n, kept, j, i>>

\* 1 to 4; LIPC, which 3 sets, is IPC on pork.  A bound: there are no more
\* measurements once the kernel has run out of memory.
MainSelect ==
  /\ At_(Main, "key", "create")
  /\ ~short
  /\ \E inter, migrate \in BOOLEAN :
       ~(inter /\ migrate) /\ opts' = [opts EXCEPT !.inter = inter, !.migrate = migrate]
  /\ n' = 1
  /\ UNCHANGED <<kernelVars, screenVars, kept, j, i>>

MainTable ==
  /\ At_(Main, "key", "menu")
  /\ opts' = [opts EXCEPT !.table = ~@]
  /\ UNCHANGED <<kernelVars, screenVars, n, kept, j, i>>

MainEscape ==
  /\ At_(Main, "key", "kdb")
  /\ Prints(Main, KdbMessage)
  /\ UNCHANGED <<kernelVars, opts, n, kept, j, i>>

MainKdb ==
  /\ At_(Main, "kdb", "menu")
  /\ UNCHANGED <<kernelVars, screenVars, opts, n, kept, j, i>>

Thread(dest, spec, p) == [dest |-> dest, spec |-> spec, pager |-> p]
Space(dest)           == [dest |-> dest, spec |-> Nil, pager |-> Nil]

\* A slip: the space of pong is never configured.
CallsHalf ==
  IF opts.inter
  THEN <<Thread(Ping, Ping, Nil), Thread(Pong, Pong, Nil), Space(Ping),
         Thread(Ping, Ping, IdOf(Pager)), Thread(Pong, Pong, IdOf(Pager))>>
  ELSE <<Thread(Ping, Ping, Nil), Space(Ping),
         Thread(Ping, Ping, IdOf(Pager)), Thread(Pong, Ping, IdOf(Pager))>>

\* The system calls that create the threads, in two spaces or in one, give
\* their space a KIP and UTCBs, and then activate them.
Calls ==
  IF opts.inter
  THEN <<Thread(Ping, Ping, Nil), Thread(Pong, Pong, Nil), Space(Ping), Space(Pong),
         Thread(Ping, Ping, IdOf(Pager)), Thread(Pong, Pong, IdOf(Pager))>>
  ELSE <<Thread(Ping, Ping, Nil), Space(Ping),
         Thread(Ping, Ping, IdOf(Pager)), Thread(Pong, Ping, IdOf(Pager))>>

\* Moving pong to another processor does nothing on pork.
MainCreate ==
  LET c == Calls[n] IN
  /\ Running(Main) /\ out[Main] = << >> /\ pc[Main] = "create"
  /\ IF c.spec = Nil THEN SpaceControl(c.dest) ELSE ThreadControl(c.dest, c.spec, c.pager)
  /\ pc' = [pc EXCEPT ![Main] = IF n < Len(Calls) THEN "create" ELSE "notify",
                      ![c.dest] = "start"]
  /\ n' = IF n < Len(Calls) THEN n + 1 ELSE 1
  /\ UNCHANGED <<screenVars, opts, kept, j, i>>

\* A slip: main does not wait for ping.
BackToMenu  == "menu"
WaitForPing == "await"

MainNotify ==
  LET msg == AppendWord(AppendWord(Clear(Empty), "ping_thread"), "pong_thread") IN
  /\ At_(Main, "notify", WaitForPing)
  /\ Send(Main, IdOf(Pager), Load(mr, Main, msg))
  /\ UNCHANGED <<screenVars, opts, n, kept, j, i>>

MainAwait ==
  /\ At_(Main, "await", "kill")
  /\ Receive(Main, IdOf(Ping))
  /\ UNCHANGED <<screenVars, opts, n, kept, j, i>>

Killed     == <<Ping, Pong>>

MainKill ==
  LET dest == Killed[n] IN
  /\ Running(Main) /\ out[Main] = << >> /\ pc[Main] = "kill"
  /\ ThreadControl(dest, Nil, Nil)
  /\ pc' = [pc EXCEPT ![Main] = IF n < Len(Killed) THEN "kill" ELSE "menu", ![dest] = "gone"]
  /\ n' = IF n < Len(Killed) THEN n + 1 ELSE 1
  /\ out' = [out EXCEPT ![dest] = << >>]
  /\ stage' = [stage EXCEPT ![dest] = "char"]
  /\ UNCHANGED <<video, xpos, ypos, window, attr, opts, kept, j, i>>

MainStep ==
  \/ MainWindow \/ MainCls \/ MainGreet \/ MainTouch \/ MainPager \/ MainStart
  \/ MainMenu \/ MainCreate \/ MainNotify \/ MainAwait \/ MainKill

MainKey == MainSelect \/ MainTable \/ MainEscape \/ MainKdb

-----------------------------------------------------------------------------
(***************************************************************************)
(* pager.                                                                  *)
(***************************************************************************)
PagerWait ==
  /\ At_(Pager, "wait", "got")
  /\ Wait(Pager)
  /\ UNCHANGED <<screenVars, opts, n, kept, j, i>>

IsPageFault(msg) == msg.u = 2 /\ msg.t = 0 /\ ~IpcFailed(msg)

PagerGot ==
  LET msg == Store(kept, mr[Pager]) IN
  /\ kept' = msg
  /\ \/ /\ from[Pager] = IdOf(Main)
        /\ At_(Pager, "got", "startping")
        /\ UNCHANGED screenVars
     \/ /\ from[Pager] # IdOf(Main) /\ IsPageFault(msg)
        /\ At_(Pager, "got", "reply")
        /\ UNCHANGED screenVars
     \/ /\ from[Pager] # IdOf(Main) /\ ~IsPageFault(msg)
        /\ At_(Pager, "got", "kdb")
        /\ Prints(Pager, <<"!", "\n">> \o KdbMessage)
  /\ UNCHANGED <<kernelVars, opts, n, j, i>>

send_startup_ipc(t, ip, sp) ==
  Send(Pager, IdOf(t), Load(mr, Pager, AppendWord(AppendWord(Clear(Empty), ip), sp)))

\* A slip: the message is read from the registers, not from the copy.
NotKept(x) == mr[Pager].w[x + 1]
Notified(x) == Get(kept, x)

PagerStartPing ==
  /\ At_(Pager, "startping", "startpong")
  /\ send_startup_ipc(Ping, Notified(0), "ping_stack")
  /\ UNCHANGED <<screenVars, opts, n, kept, j, i>>

PagerStartPong ==
  /\ At_(Pager, "startpong", "wait")
  /\ send_startup_ipc(Pong, Notified(1), "pong_stack")
  /\ UNCHANGED <<screenVars, opts, n, kept, j, i>>

\* handle_arch_pagefault: the page of the fault, at the same address.
PagerReply ==
  LET msg == AppendMapItem(Clear(kept), Get(kept, 0), Get(kept, 0)) IN
  /\ At_(Pager, "reply", "got")
  /\ kept' = msg
  /\ ReplyWait(Pager, from[Pager], Load(mr, Pager, msg))
  /\ UNCHANGED <<screenVars, opts, n, j, i>>

PagerKdb ==
  /\ At_(Pager, "kdb", "wait")
  /\ UNCHANGED <<kernelVars, screenVars, opts, n, kept, j, i>>

PagerStep ==
  PagerWait \/ PagerGot \/ PagerStartPing \/ PagerStartPong \/ PagerReply

-----------------------------------------------------------------------------
(***************************************************************************)
(* pong_thread answers with as many words as it got, and first with none.  *)
(***************************************************************************)
Tagged(t, u) == [mr EXCEPT ![t] = [Clear(@) EXCEPT !.u = u]]

pingpong_ipc(t, dest, untyped) == Call(t, IdOf(dest), Tagged(t, untyped))

PongFirst ==
  /\ At_(Pong, "first", "again")
  /\ pingpong_ipc(Pong, Ping, 0)
  /\ UNCHANGED <<screenVars, opts, n, kept, j, i>>

PongAgain ==
  /\ At_(Pong, "again", "again")
  /\ pingpong_ipc(Pong, Ping, mr[Pong].u)
  /\ UNCHANGED <<screenVars, opts, n, kept, j, i>>

PongStep == PongFirst \/ PongAgain

-----------------------------------------------------------------------------
(***************************************************************************)
(* ping_thread.                                                            *)
(***************************************************************************)
PingAwait ==
  /\ At_(Ping, "await", "banner")
  /\ Receive(Ping, IdOf(Pong))
  /\ UNCHANGED <<screenVars, opts, n, kept, j, i>>

Kind == CASE opts.migrate -> <<"X">> [] opts.inter -> <<"E">> [] OTHER -> <<"A">>

PingBanner ==
  /\ At_(Ping, "banner", "call")
  /\ Prints(Ping, printf(<<Conv("s", FALSE, 0), NL>>, <<Kind>>)
                    \o (IF opts.table THEN <<"T", "\n">> ELSE << >>))
  /\ j' = 0 /\ i' = ROUNDS
  /\ UNCHANGED <<kernelVars, opts, n, kept>>

PingCall ==
  /\ At_(Ping, "call", "answered")
  /\ pingpong_ipc(Ping, Pong, j)
  /\ i' = i - 1
  /\ UNCHANGED <<screenVars, opts, n, kept, j>>

PingAnswered ==
  /\ i > 0
  /\ At_(Ping, "answered", "call")
  /\ UNCHANGED <<kernelVars, screenVars, opts, n, kept, j, i>>

PingResult ==
  /\ i = 0
  /\ At_(Ping, "answered", "result")
  /\ Prints(Ping, IF opts.table
                  THEN printf(<<Conv("u", FALSE, 0), Lit("|"), NL>>, <<j>>)
                  ELSE printf(<<Lit("I"), Conv("u", FALSE, 2), NL>>, <<j>>))
  /\ UNCHANGED <<kernelVars, opts, n, kept, j, i>>

Below(words) == words < MaxWords

PingNext ==
  /\ At_(Ping, "result", IF Below(j + MRSTEPPING) THEN "call" ELSE "menu")
  /\ IF Below(j + MRSTEPPING) THEN j' = j + MRSTEPPING /\ i' = ROUNDS ELSE UNCHANGED <<j, i>>
  /\ UNCHANGED <<kernelVars, screenVars, opts, n, kept>>

PingMenu ==
  /\ At_(Ping, "menu", "key")
  /\ Prints(Ping, <<"W", "\n">>)
  /\ UNCHANGED <<kernelVars, opts, n, kept, j, i>>

PingContinue ==
  /\ At_(Ping, "key", "banner")
  /\ UNCHANGED <<kernelVars, screenVars, opts, n, kept, j, i>>

PingQuit ==
  /\ At_(Ping, "key", "tell")
  /\ UNCHANGED <<kernelVars, screenVars, opts, n, kept, j, i>>

PingEscape ==
  /\ At_(Ping, "key", "kdb")
  /\ Prints(Ping, KdbMessage)
  /\ UNCHANGED <<kernelVars, opts, n, kept, j, i>>

PingKdb ==
  /\ At_(Ping, "kdb", "menu")
  /\ UNCHANGED <<kernelVars, screenVars, opts, n, kept, j, i>>

PingTell ==
  /\ At_(Ping, "tell", "sleep")
  /\ Send(Ping, IdOf(Main), Tagged(Ping, 0))
  /\ UNCHANGED <<screenVars, opts, n, kept, j, i>>

PingSleep ==
  /\ At_(Ping, "sleep", "sleep")
  /\ Receive(Ping, IdOf(Ping))
  /\ UNCHANGED <<screenVars, opts, n, kept, j, i>>

PingStep ==
  \/ PingAwait \/ PingBanner \/ PingCall \/ PingAnswered \/ PingResult \/ PingNext
  \/ PingMenu \/ PingTell \/ PingSleep

PingKey == PingContinue \/ PingEscape

-----------------------------------------------------------------------------
Init ==
  /\ KernelInit /\ ScreenInit
  /\ pc = [t \in User |-> IF t = Main THEN "window" ELSE "gone"]
  /\ opts = [inter |-> TRUE, migrate |-> FALSE, table |-> FALSE]
  /\ n = 1
  /\ kept = Empty
  /\ j = 0 /\ i = 0

Kernel == RecvStep /\ UNCHANGED <<screenVars, progVars>>

Own(t) ==
  \/ Display(t) \/ Faults(t) \/ Begin(t)
  \/ t = Main /\ MainStep
  \/ t = Pager /\ PagerStep
  \/ t = Ping /\ PingStep
  \/ t = Pong /\ PongStep

Next ==
  \/ Kernel
  \/ \E t \in User : Own(t)
  \/ MainKey \/ PingKey \/ PingQuit \/ PingKdb \/ PagerKdb

\* The scheduler lets every runnable thread run again and again (see Sched),
\* and the user presses a key at the debugger and, sooner or later, q.
Spec ==
  /\ Init /\ [][Next]_vars
  /\ WF_vars(Kernel)
  /\ \A t \in User : SF_vars(Own(t))
  /\ SF_vars(PingQuit) /\ SF_vars(PingKdb)

-----------------------------------------------------------------------------
(***************************************************************************)
(* Properties.  Nothing in the program deals with a kernel that is out of  *)
(* memory: they are about the runs in which it is not.                     *)
(***************************************************************************)
\* A measurement that is selected comes to its end and main is back at its
\* menu: no message between the four threads is waited for in vain, and
\* each finds the thread that it is meant for (main, pager, ping_thread).
RoundEnds == pc[Main] = "create" ~> pc[Main] = "key" \/ short

\* The cursor and the putchar of one thread are never in the way of those of
\* another: only one thread prints at a time, although nothing but the
\* messages between them keeps them from it.
OnePrinter ==
  \A s, t \in User : out[s] # << >> /\ out[t] # << >> => s = t \/ short

\* What the row of the window says between the first and the last digit.
Digits(row) == {c \in window.left .. window.right - 1 :
                  video[At(row, c)].char \in {Digit[d] : d \in 1 .. 10}}
Value(row) == FoldLeft(LAMBDA v, c : 10 * v + (CHOOSE d \in 0 .. 9 :
                                       Digit[d + 1] = video[At(row, c)].char),
                       0, SetToSortSeq(Digits(row), <))

\* When ping goes on after a result, the row above the cursor has it: printf,
\* putchar and the scrolling of the window got all of it there, and no other
\* thread wrote over it.
ResultShown ==
  pc[Ping] = "result" /\ out[Ping] = << >> /\ ~short =>
    /\ xpos = window.left
    /\ Digits(ypos - 1) # {} /\ Value(ypos - 1) = j

\* A thread starts where this round's message from main says, on its own
\* stack, whatever the pager has sent and received in between.
Starts == [ping |-> <<"ping_thread", "ping_stack">>, pong |-> <<"pong_thread", "pong_stack">>]

StartedAsAsked ==
  /\ pc[Ping] = "start" /\ status[Ping] = K!Runnable => context[Ping] = Starts.ping
  /\ pc[Pong] = "start" /\ status[Pong] = K!Runnable => context[Pong] = Starts.pong

\* The answer to a message is pong's, to this message: it has as many words.
Echoed ==
  K!Idle /\ pc[Ping] = "answered" /\ status[Ping] = K!Runnable =>
    mr[Ping].u = j /\ ~IpcFailed(mr[Ping])

\* Every message arrives as it was meant: startup messages, which the pager
\* makes from main's, and the answers that ping gets.
MessagesArrive == ~short => StartedAsAsked /\ Echoed
=============================================================================
