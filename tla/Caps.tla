--------------------------------- MODULE Caps ---------------------------------
(***************************************************************************)
(* The capability kernel (caps/kernel): it turns the memory map into       *)
(* untyped memory (alloc.c), sets up two processes, each with a page       *)
(* directory, a capability space and one block of untyped memory           *)
(* (kernel.c, proc.c, paging.c), and then serves their system calls        *)
(* (syscalls.c), switching between them at timer interrupts.               *)
(*                                                                         *)
(* Booting is a sequence of calls, each an action.  Every system call is   *)
(* an action; the ones that fail return 0 and change nothing, which is a   *)
(* stuttering step here, as are the ones that only write to the screen and *)
(* the ones that are left to students.  Return values, the pages' data and *)
(* the contexts of the processes are left out.                             *)
(*                                                                         *)
(* "objects" is the memory that has been given a use, by physical address: *)
(* capability spaces, page directories, page tables, and pages of data.    *)
(* An entry that is not present is 0, as in the code.                      *)
(***************************************************************************)
EXTENDS CapsMemory

CONSTANTS
  SuperBits,      \* SUPERSIZE
  KernelSpace,    \* KERNEL_SPACE
  PhysMap,        \* PHYSMAP
  LowMemory,      \* MB(1)
  CspaceSize,     \* CSPACESIZE, at least 4
  Boots,          \* memory maps and headers that the loader may hand over
  Faulty,         \* addresses that programs ask for with kmapPage: a bound
  Sizes,          \* sizes that programs ask for with allocUntyped: a bound
  MaxCalls        \* system calls with an effect: a bound

Proc == 0..1
Slot == 0..CspaceSize - 1

Super == 2^SuperBits

\* Regions of memory that start in the last page, or end in the first one,
\* would be rounded to ones on the other side: no memory map has them.  The
\* code of the user program, the third header, lies below the kernel.
ASSUME CapsAssumption ==
  /\ SuperBits \in PageBits..WordBits
  /\ {LowMemory, KernelSpace} \subseteq Addr \ {0}
  /\ PhysMap \in Nat
  /\ KernelSpace % Super = 0
  /\ CspaceSize \in Nat /\ CspaceSize >= 4
  /\ Faulty \subseteq Addr /\ Sizes \subseteq Nat
  /\ \A b \in Boots :
       /\ b.mmap \in Seq(Spans) /\ b.hdrs \in Seq(Spans)
       /\ \A k \in DOMAIN b.mmap : /\ b.mmap[k].lo + PageLen <= Words
                                   /\ b.mmap[k].hi + 1 >= PageLen
       /\ Len(b.hdrs) >= 3 /\ b.hdrs[3].hi < KernelSpace

Dirs  == 0..(Words \div Super) - 1
Idxs  == 0..(Super \div PageLen) - 1
DirOf(virt) == virt \div Super
IdxOf(virt) == (virt % Super) \div PageLen

SuperPage == 1      \* PERMS_SUPERPAGE: an entry for a superpage of the kernel

NullCap == [type |-> "null"]
ConsoleCap == [type |-> "console"]
WindowCap(window) == [type |-> "window", window |-> window]
CspaceCap(c) == [type |-> "cspace", cspace |-> c]

VARIABLES
  boot,       \* the memory map and the headers: fixed
  pc,         \* what the kernel does next; "run" is user mode
  at,         \* the index in a loop of the initialization
  lo,         \* the address in the loop of newUserPdir
  intervals,  \* lo and hi
  untyped,    \* the table of untyped memory
  objects,
  proc,       \* the directory and the capability space of each process
  current,
  cr3,
  calls       \* how many system calls had an effect: bounded

vars == <<boot, pc, at, lo, intervals, untyped, objects, proc, current, cr3, calls>>

NullSpace == [kind |-> "cspace", caps |-> [s \in Slot |-> NullCap]]
EmptyTable == [kind |-> "ptab", pte |-> [i \in Idxs |-> 0]]
Data == [kind |-> "data"]

\* allocPdir: the kernel's superpages are in every directory.
KernelPdir ==
  [kind |-> "pdir",
   pde  |-> [d \in Dirs |->
               IF d \in DirOf(KernelSpace)..DirOf(KernelSpace + PhysMap) - 1
               THEN SuperPage ELSE 0]]

\* What is left of an object when its memory is set to zero.
Cleared(o) ==
  CASE o.kind = "cspace" -> NullSpace
    [] o.kind = "ptab"   -> EmptyTable
    [] o.kind = "pdir"   -> [o EXCEPT !.pde = [d \in Dirs |-> 0]]
    [] o.kind = "data"   -> Data

\* alloc sets the new object to zero, whatever may be there.
Zeroed(objs, address, len) ==
  [a \in DOMAIN objs |-> IF a <= address + len - 1 /\ address <= a + PageLen - 1
                         THEN Cleared(objs[a]) ELSE objs[a]]

With(objs, address, object) ==
  [a \in DOMAIN objs \cup {address} |->
     IF a = address THEN object ELSE Zeroed(objs, address, PageLen)[a]]

NoObjects == [a \in {} |-> Data]

Init ==
  /\ boot \in Boots
  /\ pc = "insert" /\ at = 1 /\ lo = 0
  /\ intervals = <<>> /\ untyped = <<>>
  /\ objects = NoObjects
  /\ proc = [p \in Proc |-> [pdir |-> 0, cspace |-> 0]]
  /\ current = 0 /\ cr3 = 0
  /\ calls = 0

-----------------------------------------------------------------------------
(* Page tables.  "m" is the memory, [untyped, objects], at some point of a *)
(* handler.                                                                *)

Memory == [untyped |-> untyped, objects |-> objects]

Entry(objs, pdir, virt) == objs[pdir].pde[DirOf(virt)]
PageEntry(objs, pdir, virt) == objs[Entry(objs, pdir, virt)].pte[IdxOf(virt)]

\* allocPage ends in "fatal" when there is no page.
Exhausted(m) == Givers(m.untyped) = {}

\* The page that allocPage finds, now used for an object.
NewPage(m) == PageFrom(m.untyped)
AllocPage(m, object) ==
  [untyped |-> AfterPage(m.untyped), objects |-> With(m.objects, NewPage(m), object)]

\* mapPage ends in "fatal" when the address is not free for it.
MapFails(m, pdir, virt) ==
  \/ virt >= KernelSpace
  \/ Entry(m.objects, pdir, virt) = SuperPage
  \/ /\ Entry(m.objects, pdir, virt) # 0
     /\ PageEntry(m.objects, pdir, virt) # 0

\* mapPage: memory with the page table, that is, with a new one if there is
\* none, and then with the page entered in it.
WithTable(m, pdir, virt) ==
  IF Entry(m.objects, pdir, virt) # 0 THEN m
  ELSE [AllocPage(m, EmptyTable) EXCEPT !.objects[pdir].pde[DirOf(virt)] = NewPage(m)]

MapPage(m, pdir, virt, phys) ==
  LET t == WithTable(m, pdir, virt)
  IN  [t EXCEPT !.objects[Entry(t.objects, pdir, virt)].pte[IdxOf(virt)] = phys]

\* A new page of data, at a free address: copyPage or allocPage, then mapPage.
Outcome(pdir, virt) ==
  IF Exhausted(Memory) THEN "nomemory"
  ELSE LET m == AllocPage(Memory, Data)
       IN  CASE MapFails(m, pdir, virt) -> "badmap"
             [] ~MapFails(m, pdir, virt) ->
                IF Entry(m.objects, pdir, virt) = 0 /\ Exhausted(m)
                THEN "nomemory" ELSE "mapped"
AddPage(pdir, virt) ==
  LET m == MapPage(AllocPage(Memory, Data), pdir, virt, NewPage(Memory))
  IN  untyped' = m.untyped /\ objects' = m.objects

\* fatal: the processor is halted.
Halt(why) ==
  /\ pc' = why
  /\ UNCHANGED <<boot, at, lo, intervals, untyped, objects, proc, current, cr3, calls>>

-----------------------------------------------------------------------------
(* Booting: initMemory, and then kernel.                                   *)

Reserved == <<Span(0, LowMemory - 1), Span(KernelSpace, Words - 1)>> \o boot.hdrs

Go(next) == pc' = next /\ at' = 1
Again == pc' = pc /\ at' = at + 1

InsertRegion ==
  /\ pc = "insert"
  /\ \/ /\ at <= Len(boot.mmap)
        /\ intervals' = InsertInterval(intervals, boot.mmap[at])
        /\ Again
     \/ at > Len(boot.mmap) /\ Go("reserve") /\ UNCHANGED intervals
  /\ UNCHANGED <<boot, lo, untyped, objects, proc, current, cr3, calls>>

\* A split when the arrays are full writes behind them.
ReserveRegion ==
  /\ pc = "reserve"
  /\ \/ LET cut == ReserveInterval(intervals, Reserved[at]) IN
        /\ at <= Len(Reserved)
        /\ IF Len(cut) > MaxIntervals THEN Go("smashed") ELSE Again
        /\ intervals' = cut
     \/ /\ at > Len(Reserved)
        /\ intervals' = SortIntervals(intervals)
        /\ Go("untyped")
  /\ UNCHANGED <<boot, lo, untyped, objects, proc, current, cr3, calls>>

\* addUntyped, one block of the first interval that is left.
AddBlock ==
  /\ pc = "untyped" /\ intervals # <<>>
  /\ LET first == intervals[1]
         next  == FirstPageAfter(first.lo)
         bits  == BlockBits(next, first.hi)
         last  == next + 2^bits - 1
     IN  IF next < first.lo \/ next + PageLen - 1 > first.hi
         THEN intervals' = Tail(intervals) /\ UNCHANGED untyped
         ELSE /\ untyped' = InsertUntyped(untyped, next, bits)
              /\ intervals' = IF last < first.hi
                              THEN [intervals EXCEPT ![1].lo = last + 1]
                              ELSE Tail(intervals)
  /\ UNCHANGED <<boot, pc, at, lo, objects, proc, current, cr3, calls>>

MemoryReady ==
  /\ pc = "untyped" /\ intervals = <<>>
  /\ IF untyped = <<>> THEN pc' = "nomemory" ELSE pc' = "spare"
  /\ UNCHANGED <<boot, at, lo, intervals, untyped, objects, proc, current, cr3, calls>>

\* Three pages that the kernel allocates to show their addresses.
SparePage ==
  /\ pc = "spare"
  /\ IF Exhausted(Memory) THEN Halt("nomemory")
     ELSE /\ untyped' = AllocPage(Memory, Data).untyped
          /\ objects' = AllocPage(Memory, Data).objects
          /\ IF at < 3 THEN Again ELSE Go("pdir")
          /\ UNCHANGED <<boot, lo, intervals, proc, current, cr3, calls>>

UserCode == boot.hdrs[3]

\* initProcess, for process at - 1: newUserPdir up to the loop.
NewPdir ==
  /\ pc = "pdir"
  /\ IF Exhausted(Memory) THEN Halt("nomemory")
     ELSE /\ untyped' = AllocPage(Memory, KernelPdir).untyped
          /\ objects' = AllocPage(Memory, KernelPdir).objects
          /\ proc' = [proc EXCEPT ![at - 1].pdir = NewPage(Memory)]
          /\ lo' = PageStart(UserCode.lo)
          /\ pc' = "copy"
          /\ UNCHANGED <<boot, at, intervals, current, cr3, calls>>

\* A round of the loop of newUserPdir.
CopyUserPage ==
  /\ pc = "copy" /\ lo < PageEnd(UserCode.hi)
  /\ LET pdir == proc[at - 1].pdir IN
     \/ Outcome(pdir, lo) # "mapped" /\ Halt(Outcome(pdir, lo))
     \/ /\ Outcome(pdir, lo) = "mapped"
        /\ AddPage(pdir, lo)
        /\ lo' = lo + PageLen
        /\ UNCHANGED <<boot, pc, at, intervals, proc, current, cr3, calls>>

\* A slip: the second process is set up with the space of the first.
CspaceLoopFirst(p, cspace) == CspaceCap(IF p = 0 THEN cspace ELSE proc[0].cspace)

\* cspaceLoop: a space has a capability to itself.
CspaceLoop(p, cspace) == CspaceCap(cspace)

\* The first capabilities of a process, with untyped memory from donateUntyped.
FirstCaps(p, cspace, tab) ==
  [s \in Slot |-> CASE s = 0 -> CspaceLoop(p, cspace)
                    [] s = 1 /\ p = 0 -> ConsoleCap
                    [] s = 2 -> WindowCap(p)
                    [] s = 3 /\ tab # <<>> -> tab[1]
                    [] OTHER -> NullCap]

Donated(tab) == IF tab = <<>> THEN tab ELSE Tail(tab)

NewCspace ==
  /\ pc = "copy" /\ lo >= PageEnd(UserCode.hi)
  /\ LET m == AllocPage(Memory, NullSpace)  c == NewPage(Memory)  p == at - 1 IN
     IF Exhausted(Memory) THEN Halt("nomemory")
     ELSE /\ objects' = [m.objects EXCEPT ![c].caps = FirstCaps(p, c, m.untyped)]
          /\ untyped' = Donated(m.untyped)
          /\ proc' = [proc EXCEPT ![p].cspace = c]
          /\ IF p = 0
             THEN pc' = "pdir" /\ at' = at + 1 /\ UNCHANGED <<current, cr3>>
             ELSE Go("run") /\ current' = 0 /\ cr3' = proc[0].pdir
          /\ UNCHANGED <<boot, lo, intervals, calls>>

Booting ==
  \/ InsertRegion \/ ReserveRegion \/ AddBlock \/ MemoryReady
  \/ SparePage \/ NewPdir \/ CopyUserPage \/ NewCspace

-----------------------------------------------------------------------------
(* System calls of the current process, and the timer.                     *)

\* Where getCap finds a capability: by a slot that has a capability to a
\* capability space, and a slot in that.  "holder" is that capability.
Cap(s) == objects[proc[current].cspace].caps[s]
Target(holder, s) == objects[holder.cspace].caps[s]

InUserMode == pc = "run" /\ calls < MaxCalls
Called ==
  /\ calls' = calls + 1
  /\ UNCHANGED <<boot, at, lo, intervals, proc, current, cr3>>

\* A slip: any capability may be copied.
MayMoveAny(src, dst, copy) == dst = NullCap /\ src # NullCap

\* capmove_imp
MayMove(src, dst, copy) ==
  /\ dst = NullCap /\ src # NullCap
  /\ ~copy \/ src.type # "untyped"

CapMove(i, s, j, d, copy) ==
  /\ InUserMode
  /\ Cap(i).type = "cspace" /\ Cap(j).type = "cspace"
  /\ LET src == Target(Cap(i), s) IN
     /\ MayMove(src, Target(Cap(j), d), copy)
     /\ objects' = [objects EXCEPT ![Cap(j).cspace].caps[d] = src,
                                   ![Cap(i).cspace].caps[s] = IF copy THEN src ELSE NullCap]
  /\ UNCHANGED <<pc, untyped>>
  /\ Called

\* allocUntyped_imp and allocCspace_imp: an object of the untyped memory in
\* slot u, whose capability goes to slot d of the capability space in slot j.
Allocate(u, j, d, bits, cap, objs) ==
  /\ InUserMode
  /\ Cap(u).type = "untyped" /\ Cap(j).type = "cspace"
  /\ Target(Cap(j), d) = NullCap
  /\ Allocates(Cap(u), bits)
  /\ objects' = [objs EXCEPT ![proc[current].cspace].caps[u] = After(Cap(u), bits),
                             ![Cap(j).cspace].caps[d] = cap]
  /\ UNCHANGED <<pc, untyped>>
  /\ Called

AllocUntyped(u, j, d, bits) ==
  /\ ValidUntypedSize(bits)
  /\ LET at0 == Object(Cap(u), bits)
     IN  Allocate(u, j, d, bits, UntypedCap(at0, bits), Zeroed(objects, at0, 2^bits))

AllocCspace(u, j, d) ==
  LET at0 == Object(Cap(u), PageBits)
  IN  Allocate(u, j, d, PageBits, CspaceCap(at0), With(objects, at0, NullSpace))

\* A slip: the entry in the page table is not looked at.
IsMappedDir(pdir, virt) ==
  \/ virt >= KernelSpace
  \/ Entry(objects, pdir, virt) = SuperPage

\* kmapPage_imp: it tests whether the address is mapped already, and lets the
\* kernel find the memory.
IsMapped(pdir, virt) ==
  \/ virt >= KernelSpace
  \/ Entry(objects, pdir, virt) = SuperPage
  \/ /\ Entry(objects, pdir, virt) # 0
     /\ PageEntry(objects, pdir, virt) # 0

KMapPage(virt) ==
  LET pdir == proc[current].pdir IN
  /\ InUserMode
  /\ ~IsMapped(pdir, virt)
  /\ \/ Outcome(pdir, virt) # "mapped" /\ Halt(Outcome(pdir, virt))
     \/ Outcome(pdir, virt) = "mapped" /\ AddPage(pdir, virt) /\ Called /\ UNCHANGED pc

\* timerInterrupt, at one of the ticks that reschedule.
TimerInterrupt ==
  /\ pc = "run"
  /\ current' = 1 - current
  /\ cr3' = proc[current'].pdir
  /\ UNCHANGED <<boot, pc, at, lo, intervals, untyped, objects, proc, calls>>

Syscall ==
  \/ \E i, s, j, d \in Slot, copy \in BOOLEAN : CapMove(i, s, j, d, copy)
  \/ \E u, j, d \in Slot : AllocCspace(u, j, d)
  \/ \E u, j, d \in Slot, bits \in Sizes : AllocUntyped(u, j, d, bits)
  \/ \E virt \in Faulty : KMapPage(virt)

Next == Booting \/ Syscall \/ TimerInterrupt

Spec == Init /\ [][Next]_vars

-----------------------------------------------------------------------------
(* What should hold.                                                       *)

\* Reference: the pages that are wholly in some region of the memory map and
\* touched by nothing that is reserved.
Usable ==
  LET free  == UNION {PagesIn(boot.mmap[k].lo, boot.mmap[k].hi) : k \in DOMAIN boot.mmap}
      taken == UNION {Reserved[k].lo..Reserved[k].hi : k \in DOMAIN Reserved}
  IN  UNION {a..a + PageLen - 1 : a \in {b \in free : (b..b + PageLen - 1) \cap taken = {}}}

\* The untyped memory that initMemory finds is all that is usable, unless the
\* table was too short, and then it is part of it; and the larger blocks come
\* first, so that allocPage begins with the smallest.
UntypedExact ==
  (pc = "spare" /\ at = 1) =>
    LET found == UNION {Rest(untyped[i]) : i \in DOMAIN untyped} IN
    /\ found \subseteq Usable
    /\ Len(untyped) < MaxUntyped /\ Len(boot.mmap) <= MaxIntervals => found = Usable
    /\ \A i, j \in DOMAIN untyped : i <= j => untyped[i].bits >= untyped[j].bits

Cspaces == {a \in DOMAIN objects : objects[a].kind = "cspace"}
Tables  == {a \in DOMAIN objects : objects[a].kind = "ptab"}
Pdirs   == {a \in DOMAIN objects : objects[a].kind = "pdir"}
Page(a) == a..a + PageLen - 1

\* The capabilities to untyped memory: in the table (0), or in a capability space.
Holders ==
  ({0} \X DOMAIN untyped)
    \cup {h \in Cspaces \X Slot : objects[h[1]].caps[h[2]].type = "untyped"}
Held(h) == Rest(IF h[1] = 0 THEN untyped[h[2]] ELSE objects[h[1]].caps[h[2]])

\* Every piece of usable memory is an object, or can be given out by one
\* capability, and never both: no two users ever get the same memory, and the
\* kernel never sets to zero what is in use (alloc, donateUntyped, moveCap).
MemoryUsedOnce ==
  /\ \A h \in Holders :
       /\ Held(h) \subseteq Usable
       /\ \A g \in Holders \ {h} : Held(h) \cap Held(g) = {}
       /\ \A a \in DOMAIN objects : Held(h) \cap Page(a) = {}
  /\ \A a \in DOMAIN objects : a % PageLen = 0 /\ Page(a) \subseteq Usable

Entries == {e \in Pdirs \X Dirs : objects[e[1]].pde[e[2]] \notin {0, SuperPage}}
PageEntries == {e \in Tables \X Idxs : objects[e[1]].pte[e[2]] # 0}

\* A page table is in one directory and a page of data in one table, so that
\* the processes share no memory; the kernel's superpages are in every
\* directory; and mapPage, which tests what its callers have tested, never
\* finds the address taken.
MapsOnce ==
  /\ pc # "badmap"
  /\ \A e \in Entries :
       /\ objects[e[1]].pde[e[2]] \in Tables
       /\ \A f \in Entries \ {e} : objects[e[1]].pde[e[2]] # objects[f[1]].pde[f[2]]
  /\ \A e \in PageEntries :
       LET a == objects[e[1]].pte[e[2]] IN
       /\ a \in DOMAIN objects /\ objects[a].kind = "data"
       /\ \A f \in PageEntries \ {e} : a # objects[f[1]].pte[f[2]]
  /\ \A p \in Pdirs, d \in Dirs :
       (objects[p].pde[d] = SuperPage) = (KernelPdir.pde[d] = SuperPage)
  /\ pc = "run" => cr3 = proc[current].pdir

\* The capability spaces that a process can ever get at, and what is in them
\* and in its page tables.
Closed(found) ==
  \A c \in found, s \in Slot :
    objects[c].caps[s].type = "cspace" => objects[c].caps[s].cspace \in found
Reach(p) ==
  {c \in Cspaces : \A found \in SUBSET Cspaces :
                     proc[p].cspace \in found /\ Closed(found) => c \in found}
View(p) ==
  LET pdir == objects[proc[p].pdir] IN
  [pdir |-> pdir, tables |-> [t \in {pdir.pde[d] : d \in Dirs} \cap Tables |-> objects[t]],
   cspaces |-> [c \in Reach(p) |-> objects[c]]]

\* A system call of one process changes nothing that belongs to the other.
Isolated ==
  [][pc = "run" => \A p \in Proc \ {current} : View(p)' = View(p)]_vars
=============================================================================
