# A verification of llp-labs

The repository holds small operating systems for the low-level-programming labs:
`pork`, an L4 X.2 microkernel; `caps`, a capability kernel that students complete; the
`mimg` boot loader; and starting points and libraries for the labs. This directory
models the parts with logic of their own in TLA+, checks them with TLC, and proves
theorems about some of them with TLAPS. `PROJECT.json` lists every component, run,
mutant, hazard, finding and theorem, and maps every definition to the lines it models.

Contents: 1 inventory; 2 modules; 3 how models correspond to code; 4 runs; 5 fairness;
6 bounds; 7 proofs; 8 findings, and other places where the code goes wrong; 9 what is not
modelled; 10 plan.

## 1. Inventory

### pork: threads and scheduling (`pork/kernel/scheduling.c`, `threads.c`)

* **State.** `runqueue[prio]`, circular doubly linked lists of TCBs; `prioset`, a binary
  heap of the priorities in use, with its index `prioidx` and `priosetSize`; `current`,
  the thread that runs; `holder`, the thread whose timeslice is consumed; per thread its
  status, priority, `timeslice` and `timeleft`, scheduler; `tcbDir`, the pages of TCBs.
* **Operations.** The timer interrupt, `threadSwitch` (donation and yield), `schedule`,
  `threadControl` (create, modify, delete, and interrupt control), and, from IPC, halting,
  resuming, blocking and waking threads.
* **Hard.** A handler runs with interrupts disabled and never returns: it ends in `resume`,
  `reschedule` or `switchTo`. Correctness is therefore about sequences of handlers and the
  pointers they leave behind. `current` and `holder` differ after a donation, and each of
  them may be halted, raised or deleted on behalf of the other. The heap is repaired in
  place while array and index are out of step.
* **Correct if** the queues hold exactly the runnable threads, whoever is dispatched is
  runnable and the first of the highest priority when a timeslice begins, ticks preempt,
  timeslices neither wrap nor accumulate, equals take turns, and no thread outranks the
  first one.

### pork: IPC (`pork/kernel/ipc.c`)

* **State.** The status word of each thread (mode, type of IPC, halt bit), `receiver`,
  `fromSpec`, `sendqueue`, pager and exception handler in the utcb, the interrupt masks.
* **Operations.** The `ipc` system call, page faults and exceptions turned into messages,
  interrupts turned into messages, `exchangeRegisters` (halt, resume, cancel).
* **Hard.** One call sends, then receives, and may finish the other thread's send, which
  makes that thread a receiver, which may find yet another sender (`recvPhase` loops). A
  third party can cancel, halt, delete or reprogram either side at any point in between.
* **Correct if** sendqueues hold exactly the senders, nobody misses a partner that is
  ready, no interrupt arrives while the previous one is served, a halt survives the IPC
  it interrupts, every sender to a server is served, and the loop ends.

### pork: address spaces (`pork/kernel/space.c`) and kernel memory (`memory.c`)

* **State.** Spaces with their page directories and counts of threads; the mapping
  database: `Mapping` objects in a doubly linked depth-first list with levels, and in one
  binary search tree per space; page tables; objects that are fractions of a page with
  their free lists; the list of free pages; `currentSpace`, and the directory in cr3.
* **Operations.** `map2` (from IPC), `flush`, `exitSpace`, activation of threads and
  spaces, `spaceControl`, page faults of sigma0, `switchSpace` and `refreshSpace`.
* **Hard.** One mapping is in four structures. `flush` frees a run of the list while its
  callers hold pointers into it and go on searching the tree. Pages are reserved with
  `availPages(n)`, `n` counted by hand, and then taken without a test. Freed spaces and
  directories may still be the ones that are loaded.
* **Correct if** nobody has access that was not given, revoking takes all that was derived,
  the structures agree with each other and with the page tables, every page is free or in
  use for one thing, no handler runs out of pages, and a thread that runs sees its space.

### caps: memory, capabilities and processes (`caps/kernel/*.c`)

* **State.** At boot, intervals of free memory (arrays `lo`, `hi`), then a table of untyped
  memory, aligned blocks of which each records what is given out already; two processes,
  each with a page directory and a capability space of 256 slots; `current`, cr3.
* **Operations.** Inserting and reserving intervals, making blocks of them, allocating pages
  for the kernel, donating a block to a process; `capmove`, `allocUntyped`, `allocCspace`,
  `kmapPage`, and the timer interrupt. The rest of the calls are stubs for students.
* **Hard.** The arithmetic of inclusive intervals in words; tables that fill up; memory that
  is described by a capability that can be moved, divided, and put into other spaces, where
  one copy too many gives the same memory to two objects, and `alloc` sets it to zero.
* **Correct if** exactly the usable memory is found, no memory is used twice, no page is
  mapped twice, and the processes cannot affect each other.

### mimg: image maker and loader (`mimg/mimgmake.c`, `mimgload.c`), and pork's `initMemory`

* **State.** In the maker, headers and a sorted list of sections, then the file as it is
  written through a buffer. In the loader, memory itself: the image lies in it while its
  sections are moved to where they belong. In the kernel, the headers and memory ranges of
  the boot data, the memory descriptors of the KIP, and the free list.
* **Operations.** One per argument of the maker; finding and validating the image, putting
  off or loading a section; describing memory, and taking pages between the headers.
* **Hard.** Sections may go over the image, so loading one may destroy the next; those that
  would are put off, linked through a field in the image itself. Boot data are copied into
  a section whose size was fixed when the image was made. The page arithmetic wraps.
* **Correct if** every section arrives whole wherever the image was put, nothing else is
  written, what the maker finishes is accepted, and the kernel takes no page that holds
  any of it.

### sigma0 (`pork/user/l4ka-sigma0`)

* **State.** Three pools of regions (conventional, other, allocated), sorted lists with an
  owner per region; a free list of the structures that these lists are made of.
* **Operations.** Reading the kernel's descriptors, then page faults and requests for a
  page, at an address or anywhere.
* **Hard.** Any insertion may need a structure, and getting one may allocate a page to
  sigma0 in the middle of what is being done to the same pools. A block that lies in
  several pools is checked page by page and then taken page by page.
* **Correct if** every page is in one pool or has one owner, no page goes to two threads,
  and a refusal takes nothing.

### pingpong (`pork/user/l4ka-pingpong`) and its console (`simpleio/simpleio.c`)

* **State.** Four threads, in one address space or three; options of the menu; the pager's
  stored message; message registers; pages that each space maps; cursor, window, screen.
* **Operations.** The menu, creation and deletion of the measured threads, startup
  messages, page faults and the pager's answers, calls and replies, printing.
* **Hard.** Threads are deleted and created again each round while the pager may still have
  messages of the last one; the registers that carry a startup message are those of the
  next; and all of them print with one cursor and no lock.
* **Correct if** every round ends, each thread starts where main said, answers match
  calls, and no two threads are printing at the same time.

### The other components

| component | state and operations | status |
|---|---|---|
| pork boot and hardware (`boot.S`, `pork.c`, `kip.S`, headers) | descriptor tables, entry stubs, port I/O | not modelled: straight-line code at the processor's interface |
| pork's own user programs (`sigma0.c`, `root.c`) | a loop that answers faults; a demonstration | their messages are inputs of Ipc, MapDB and PorkCalls |
| `winio`, `userio`, `vram`, `print.cc` | variants of `simpleio`; formatting of numbers | not modelled |
| lab starting points (`paging`, `switching`, `example-*`, `hello`, `bootinfo`) | subsets of the kernels above | not modelled |

### How they interact

Everything in pork meets in the TCB. IPC calls into scheduling (`insertRunnable`,
`removeRunnable`, `reschedule`), into spaces (`map2`, for typed items) and is called by
thread control (deletion fails the senders). Thread control calls `enterSpace`,
`exitSpace` and `allocUtcb4`. Every dispatch calls `switchSpace`. Spaces and TCBs take
their memory from the same list of pages. The loader hands the kernel its boot data in
memory; the kernel hands sigma0 its descriptors in the KIP; a program like pingpong sees
the kernel through the library's `ipc.h` and `thread.h`.

## 2. Modules

| module | role |
|---|---|
| `TCBList` | the linked rings of `insertTCB` and `removeTCB` |
| `Sched` | the scheduler: one action per interrupt, system call, or effect of IPC and thread control on the runqueues |
| `ReadyQueues` | abstract: a first-in first-out queue per priority |
| `SchedFifo` | refinement mapping: following the links of `Sched` gives the queues of `ReadyQueues` |
| `PrioHeap` | the heap of priorities, one action per iteration of a repair loop |
| `Ipc` | IPC, faults, interrupts and control calls, with status words and sendqueues; one action per handler, and one per round of `recvPhase` |
| `MapDB` | the mapping database with list, trees and page tables; `map2` and `exitSpace` in steps, one per round of `flush` |
| `Grants` | abstract: who may access which page, by whose grant; revoked with all that was derived |
| `MapGrants` | refinement mapping from `MapDB` to `Grants`: half-flushed trees count as already revoked |
| `Spaces` | kernel memory: pages, objects, page directories and tables, utcbs, the TCB directory, and the directory in cr3 |
| `CapsMemory` | operators: intervals, the table of untyped memory, and allocation from it, in words of few bits |
| `Caps` | the capability kernel: booting call by call, then system calls and the timer |
| `MimgFormat` | the layout of an image, in a memory of small words |
| `MimgMake` | the maker: its arguments one by one, then the output file |
| `MimgLoad` | the loader: a section validated, put off or loaded per step |
| `BootMemory` | `initMemory`: memory descriptors, and pages for the free list |
| `MimgBoot` | composes the three: arguments, a file put anywhere in memory, the loaded kernel |
| `Regions` | operators: sigma0's pools, allocation at an address or anywhere, growth of the free list of structures |
| `Sigma0` | sigma0: descriptors, then requests |
| `Simpleio` | the console, one access to shared state per step |
| `PorkCalls` | what `Ipc` leaves out, for programs: contents of messages, startup, map items, spaces |
| `Pingpong` | composes `PorkCalls` (hence `Ipc`) and `Simpleio` with the program of the four threads |
| `SchedProofs`, `PrioHeapProofs`, `IpcProofs`, `MapDBProofs`, `SpacesProofs`, `CapsProofs`, `Sigma0Proofs` | theorems |
| `NatLemmas` | lemmas about natural numbers, their least elements, multiples and powers of two |
| `MC*` | instances for TLC |

`Sched` uses the heap only through "the highest priority in use" (`Top`), a set of
priorities; `PrioHeap` shows that the array delivers it. In the same way `Spaces` leaves
open which mappings a flush removes, and `MapDB` decides; `MapDB` leaves open when
mappings are requested, and `Ipc` leaves open what a message does besides being accepted;
`Ipc` and `Spaces` leave open which runnable thread is dispatched, and `Sched` decides.
`PorkCalls` runs the actions of `Ipc`, which is split for the purpose into a call that
only receives, a message that is sent and one that is not (`IpcReceive`, `IpcSent`,
`IpcUnsent`; and `FaultSent`, `FaultUnsent`, `FaultHalts`), and adds what is carried.

## 3. Correspondence

*Handlers are actions.* Kernel code runs to completion with interrupts off, so a handler is
one step, with the exceptions of loops whose termination or intermediate states are a
question of their own: `recvPhase` (Ipc), the flushing loops (MapDB), and the heap repairs
(PrioHeap). While such a loop is in progress no other action is enabled, as in the code.

*Sched.* `rq` is `runqueue`, the links and `prioset`; `status`, `prio`, `timeleft` and the
`timeslice` are fields of `struct TCB`; `current` and `holder` are the variables of that
name. The idle thread is a TCB outside every queue. Statuses are cut down to what scheduling
distinguishes: absent, runnable, halted, and waiting in an IPC. `quantleft` has no
variable: no code sets a quantum other than infinite. Times are numbers modulo `WordSize`.

*Ipc.* `status` is the record of mode, type and halt bit with `receiver` and `fromSpec`
added while they are meaningful; `sendqueue` is a sequence (the rings themselves are the
subject of TCBList); ids are pairs of number and version, with `Nil`, `AnyThread` and
`AnyLocal`. Only threads that exist can be found by id, with the version they have now.
A message either transfers or is rejected (protocol and format errors). User code may write
pager and handler of its utcb at any time (`WriteUTCB`). `todo` is the argument of the
next round of `recvPhase`.

*MapDB.* `map` holds the fields of `struct Mapping`, `tree` the search trees, `pt` and
`tabs` page table entries and which page tables exist. Fpages are pairs of address and size
class. `job` is the point in `map2` or `exitSpace` where a loop is. Where the code reads a
freed mapping or a null pointer the job becomes a crash that properties exclude.

*PrioHeap.* `prioset`, `prioidx` and `priosetSize` as in the code, with the gap that a
repair moves through the array.

*Spaces.* `mem` holds all of memory. A page is named by what took it ("the table for
superpage i of directory d"), because which free page is handed out plays no part, and
this keeps states that differ by a permutation of pages equal. `stale` records that the
processor may have cached an entry that is gone from the directory in cr3; loading cr3
clears it. `DeleteThread` and `Transfer` choose any set of other mappings to be flushed
along, in any order (`list`), which is more than the mapping database would allow. Booting
takes up to 14 pages without looking whether there are any, so there must be (`NumPages`).

*CapsMemory, Caps.* Addresses are physical; `fromPhys` and `toPhys` add and take a constant. A
loop over the table of intervals is a recursive function of the number of rounds, from the last
interval down, because removing an interval moves the last one in its place (`Merged`, `Cut`).
Sorting puts every interval where the number of those before it says. `objects` is the memory
in use, by address, with its content as far as the kernel reads it: slots, directory and table
entries (0 is not present, 1 a superpage of the kernel). `alloc` sets to zero whatever is
there, so that memory given out twice would show in the objects of its first owner. `pc` is the
kernel's position in booting; "run" is user mode, and `fatal` ends in "nomemory" or "badmap".
Writing an interval behind the arrays ends in "smashed".

*MimgFormat, MimgMake, MimgLoad.* The modelled machine has words of one cell: a byte, a
character and a word take a cell each, and a structure as many as it has words. What is in a
cell is tagged with what it is, so that a byte of a file is never taken for an address. `mem`
is all of memory, with the file at one of `Homes`; `prev` of the sections that are put off is
in the image, as in the code. `smartcopy` copies up or down cell by cell, so that a copy over
itself is right only in the right direction. The maker's buffer is flushed when full, so that a
write that fails, or a section of boot data found too small while writing, leaves the first
part of a file (`truncated`), which may be loaded all the same. The multiboot loader is
external: it leaves image, strings and memory map where it likes.

*BootMemory.* `rngs` and `hdrs` are the arrays of boot data, `servers` and `descs` what goes
into the KIP, `klo`, `khi` and `pages` the locals of the last loop; `freePages` is the list,
head first. A call `initPages(lo, 0)` counts down from zero: it is the outcome "wild".

*Regions, Sigma0.* A pool is a sequence of regions; `free` counts the structures left.
Operators return the pools, with `ok = FALSE` where the program would hang. Pools have no
bound on their length but memory. `given` collects what replies have mapped. Attributes of
mappings, replies that fail and requests for I/O ports (not compiled) change no pool.

*Simpleio.* `video`, `xpos`, `ypos`, `window`, `attr` are the variables of that name; `out`
is what a thread still has to print and `stage` how far its `putchar` has come. Scrolling is
one step: what matters is whether another thread comes between cursor and cell.

*PorkCalls, Pingpong.* `mr` holds tag and words of the message registers of each thread, `from`
the register that names the sender, `context` where a new thread starts, `mapped` the pages of
a space; `short` is set when the kernel turns a request down for want of memory. A thread is at
the statement `pc[t]`. LIPC is IPC on pork, which ignores processors as well. `L4_KDB_Enter`
prints and waits for a key (`kdebug.h`). `L4_Send` leaves bit 15 of the tag set when it
succeeds.

## 4. Runs

| run | shows | size |
|---|---|---|
| `sched` | under any order of ticks, system calls, faults and interrupts, but for ticks that rotate a queue by the link of a halted donor: runqueues are exact, the dispatched are runnable, a tick leaves nobody of a higher priority waiting, and the linked lists implement `ReadyQueues` | 3 threads, 3 priorities; 170,000 states |
| `sched_robin` | a thread that stays runnable gets the timeslice; leftovers do not accumulate | 3 threads, slice 5, tick 4, words of 3 bits |
| `ipc` | sendqueues are exact, interrupts arrive one at a time and their TCBs never run (`IrqsExact`), halts last, a rendezvous is missed only in the cases the property names | 2 threads that share a space, 1 interrupt; 700,000 states |
| `ipc_serve` | every sender to a server is served, hence chains of `recvPhase` end | 3 threads, 1 interrupt |
| `map_db` | but for sends that replace what their source was derived from: the database is a tree and nobody has more than was given and the source of a send outlives what is flushed for it (`DerivationsSound`), trees and tables agree, loops progress, and all of it implements `Grants` | 3 spaces, 4 mappings, 16 pages, utcb areas of two; 56,000 states |
| `map_lost` | *violation*: a subtree of the search tree is lost | 6 mappings |
| `prio_heap` | heap order, exact index, root is the maximum, repairs end | 6 priorities |
| `spaces` | but for sends into a part of a utcb area: pages are exact, objects and counts are what they count (`CountsExact`), reservations suffice, a running thread uses its own, current directory | 3 threads, 16 pages, utcb areas of one page and of two; 440,000 states |
| `caps` | untyped memory is exactly what is usable; no memory is used twice; no page is mapped twice; no system call changes what belongs to the other process | 1,249 memory maps with their headers, 3 calls; 93,000 states |
| `image` | every section arrives, copies stay in their sections, the loader accepts what the maker finished, and the kernel's pages are free memory | 96 cells, 3 arguments, 4 places, 7 memory maps; 300,000 states |
| `sigma0` | every page is in one pool or has one owner, no page goes to two threads, a refusal takes nothing | 16 addresses, 8 pages, 2 KIPs; 7,000 states |
| `pingpong` | every measurement ends, threads start and are answered as they were asked, one thread prints at a time and the result is on the screen | 4 threads, every combination of the options; 72,000 states |

What `sched`, `map_db` and `spaces` leave out is what the code gets wrong (section 8). Three more
configurations, kept beside the runs of `PROJECT.json`, leave out nothing, and TLC finds the
violation in seconds:

| configuration | module | shows |
|---|---|---|
| `MCSchedDonor.cfg` | `MCSched` | `RunqueuesExact` fails: with those ticks, a queue gets a head that is not in it, or a thread that does not run |
| `MCMapDBUpwards.cfg` | `MCMapDB` | `SourceKept`, a part of `DerivationsSound`, fails: with those sends, the source is freed, or looked for beyond the end of the list |
| `MCSpacesWide.cfg` | `MCSpaces` | `PagesExact` fails: with those sends, a page of utcbs is mapped over and lost |

Each property of a passing run has a mutant in `PROJECT.json`: a slip in one definition
(kept next to it, with a comment "A slip") that the property detects.

Deadlock checking is off only where the system may really stop: in `ipc`, when every thread
waits or is halted and no interrupt is enabled; in the serving run, for the same reason;
in `MCMapDBUpwards.cfg`, when the kernel follows a null pointer (in `map_db` it never does);
in `caps`, when booting or `kmapPage` ends in `fatal`; in `image`, when the maker aborts,
the loader halts, or the kernel has its pages; in `sigma0`, when it hangs; and in
`pingpong`, when memory has run short (`RoundEnds` says that it does not stop otherwise).

## 5. Fairness

* `RobinSpec` of `Sched`: weak fairness of the timer interrupt alone. The timer is hardware
  and user code cannot mask it; nothing is assumed of user threads. Round robin is promised
  only to threads whose priorities and timeslices stay as they are, so this specification
  leaves `schedule` out, and the yield: `threadSwitch(nilthread)` refills the caller's
  timeslice without rotating its queue (`scheduling.c:291`), so that it is picked again.
  The specification keeps donations, blocking and waking in IPC, interrupts, new threads,
  and halts, but for a donor's by the thread that runs on its timeslice (section 8, first
  item).
* `Ipc`: weak fairness of a round of `recvPhase`: nothing interrupts the kernel. In
  `ServeSpec` also strong fairness of the server's receive: the server is a program that
  calls receive again and again, and by round robin it runs again and again; but clients
  may disable the step in between by making the server reply first.
* `PrioHeap`: weak fairness of the repair, a loop in the kernel.
* `Pingpong`: weak fairness of the kernel's own steps; strong fairness of each thread's
  steps, because a thread that is runnable again and again is dispatched again and again
  (`RoundRobin`); and strong fairness of the user, who presses a key when the debugger
  waits for one and `q` at last where the program would else measure for ever. Nothing is
  assumed of the choice in main's menu.

## 6. Bounds

* **Threads.** Three are the least with donor, donee and bystander, and the least with a
  sender behind another sender. `ipc` has two and an interrupt, which is a third
  party: it sends, queues behind a sender, is cancelled and unregistered. Its threads
  share a space, so that local and any-thread specifiers differ for the interrupt.
* **Priorities.** Three, with the default in the middle, so that threads are lowered, and
  raised back; above the default is out of reach (theorem `PriosCapped`).
* **Versions.** One in the runs of `Ipc`: deletion and creation under the same id is
  included, stale ids are not.
* **Time.** A tick of 4, words of 3 bits; a timeslice of 5 in `sched_robin` leaves
  remainders.
* **Mappings.** `MaxMappings` of 3 beyond what sigma0 has from the start: source, target
  and something derived from either. Superpages of four pages; a superpage or a page is sent
  at one of two bases, and accepted anywhere or in a superpage. Search trees with a node with
  two children *and* a replacement that has a right subtree need more mappings; with them the
  run `map_lost` fails, so that `map_db` stays below on purpose. `map_lost` has superpages of
  two pages and 8 pages in all, which are enough for it.
* **Memory.** 16 pages are what three active spaces, two mappings in different tables and
  a third page of objects take: the run reaches the states where `availPages` fails.
  With 14, some of the mixed situations no longer occur; with more, nothing new fits.
  Objects are three to a page (127 in the code): one page is full from the start, one is
  shared with an object that is never freed, one comes and goes. A page has two TCBs.
* **Utcb areas** of one page and of two in `spaces`, and of two in `map_db`: pork accepts any
  size from a page on, and pingpong asks for twice the least (`pingpong.cc:414`). In
  `spaces` the area of two pages is a whole superpage, of which the first page and the last
  can be in use or not. Privileged spaces have one page (`PrivArea`). Areas are fpages, hence
  one that reaches into a second superpage fills every superpage it is in (`Aligned`), and what
  can be mapped next to a utcb is in the first. What `map2` lets through is a page that is
  received over a *part* of an area; that is in `MCSpacesWide.cfg` and left out of `spaces`
  (`SparingSpec`). In `map_db`, whose tables do not refer to utcbs, nothing is received there:
  the bases at which pages are received are 1 and 10, the area is 8 and 9, and 10 lies behind it
  in the same superpage.
* **The capability kernel.** Pages of two units, words of 7 bits, so that every region can
  begin and end within a page, and blocks come in all sizes from half a page to 16 pages.
  Four intervals and eight blocks: both tables overflow. Memory maps with two free regions
  are enumerated over seven addresses around the boundaries of pages, of reserved memory and
  of code; three larger ones are enough to boot, with the table of untyped memory empty
  afterwards, or not. Three system calls reach objects two levels deep (memory inside
  memory, a space inside a space) for both processes. The inputs keep what the loader
  checks, that sections lie within the memory map; no region ends within the first page
  of memory, where `endPageBefore` wraps around (hazard at `memory.h:95`). All of memory is
  taken to be accessible to the kernel (at most `PHYSMAP`).
* **The last thread of pork's sigma0** is not deleted: the flush of the mapping of all memory would
  clear sigma0's directory with the kernel's own entries, and the system ends there.
* **Images.** 96 cells of memory, kernel pages of 8; 3 arguments out of an ELF file with two
  program headers, one that is not ELF, and special sections that overlap each other, span
  several homes, and end just before the loader or begin just after it. Three sections are the
  least for one that is put off with one before and one after it. The four homes put the image
  below, across, within and above the sections' places. The memory maps have ranges that end
  within a page, are empty, wide, no memory, or reach the top of the address space, and boot
  information that makes the loader give up. Strings have one character and may lie where a
  section goes; map and multiboot information are taken not to be overwritten.
* **sigma0.** 16 addresses in pages of two, five initial structures (the two KIPs use them
  up while being read) and three per page, so that growth happens in every operation.
  Blocks of 1 (refused), 2, 4 and 8. Requests go on until nothing changes any more. Sizes of
  a whole address space and more (`log2size` 32) are not asked for.
* **pingpong.** `NUMMRS`, `MRSTEPPING` and `ROUNDS` are 24, 12 and 2 where the source has 64, 4
  and 131,072: two sizes of message (0 and 12 words), and a first and a last round of each. The
  window is 2 by 4 cells on a screen of 6 by 4, so that every line scrolls. A space has a page
  of code, one of data and the screen. Texts are cut to a few characters and times left out.
  Main's own faults are answered by sigma0, which is external here. After a shortage of memory,
  main's menu offers no other measurement (section 8).

## 7. Proofs

TLAPS checks these for every number of threads, interrupts and priorities, every word size,
every tick and timeslice that fits a word; for pork's memory, every number of pages from 14 on,
of objects and of TCBs to a page, and every set of areas of any size; and, for the capability
kernel, every memory map, every size of words, pages, tables and spaces, and any number of
system calls.

*`SchedProofs`* assumes no more than the constants' assumptions in `Sched`. The theorems are
about `LinkedSpec`: the behaviours of `Spec` without one step, a tick that ends the timeslice
of a donor that was halted on it, while its link leads to another thread (`RotatesStale`).
Of `Spec` they are false (section 8, first item, and `MCSchedDonor.cfg`). All else that a
thread may do to the donor of its timeslice is in `LinkedSpec`: halt it, resume it, delete it,
change its priority, or be preempted. The inductive invariant is

    IInv == TypeOK /\ RunqueuesExact /\ IdleParked /\ Dispatched

`Dispatched` says of the holder of the timeslice that it is runnable, or halted while another
thread runs on its timeslice.

`RunqueuesExact` by itself is not inductive: a handler removes `current` from its queue
without looking, so it must be known to be runnable (`Dispatched`), and the idle thread,
which is never in a queue, must never be removed from one (`IdleParked`). Each action is a
composition of `InsertRunnable` and `RemoveRunnable` with a change of status, so the
proofs rest on lemmas about these two (they keep the rings closed, and add or take exactly
one thread), and then go action by action. `TypeCorrect`, `QueuesExact` and
`AlwaysDispatched` follow; `PriosCapped`, `TickPreempts` and `NothingBanked` use the same
invariant, the last with arithmetic modulo the word size.

`QueuesAreFifo` is the refinement `SchedFifo`, for finitely many threads. The mapping reads a
runqueue from its head on along the links, which the prover can follow only if it knows an
order of the threads in which each link leads to the next one and the last back to the
head (`Order`). That there is one for every runqueue is kept by every step: each operation on
the links is shown to do to it what `ReadyQueues` says of queues, so that each handler makes
one step of `ReadyQueues` or none (`QueueStep`). And the walk along the links is the order
(`OrderWalked`), both before a step and after it.

*`PrioHeapProofs`* assumes only `PRIORITIES \in Nat \ {0}`. The inductive invariant says
what holds in the middle of a repair: the heap is ordered everywhere but around the gap,
and the parent of the gap dominates its children (`AroundGap`), the index is exact but
for the entry in hand, the array holds each priority at most once (hence never overflows).
`RootIsHighest` needs that the root dominates every index. Induction over data being out
of the prover's reach, the least counterexample is taken with the well-ordering of the
naturals (`NatLemmas`).

*`IpcProofs`* assumes only `IpcAssumption`: user threads and interrupts are different TCBs,
the special ids are no thread ids, and pagers and handlers are ids. The invariant is

    IInv == TypeOK /\ LoopReady /\ SendqueuesExact /\ AllSound

`SendqueuesExact` by itself is not inductive. A sender is put in a queue without a look at
the queues it may be in already, so it must be known to be no sender: a user thread that
runs, or an interrupt that is enabled, whose TCB is idle (`Sound`). In the loop of
`recvPhase` the receiver changes between rounds, and is resumed as if it were waiting: it
must be known not to be in a queue itself, and, when it is an interrupt that gets its
reply, to be waiting for one, or the interrupt would be enabled with nobody to handle it
(`LoopReady`). Deletion relies on threads that are not active being halted. The proofs
first say what the end of an IPC may do to a status (`Calmer`: it becomes halted, or
runnable if the halt bit was clear) and what queues look like when nobody, one thread or
all senders leave them, and then go handler by handler. `SendqueuesStayExact`,
`InterruptsStayExact` and `HaltsLast` follow; the last says of every step that the halt
bit is only lost by a resume or an activation.

`NothingMissed` proves `NoMissedRendezvous` from the same invariant and one more,
`LoopLooks`: the loop of `recvPhase` looks for the senders that its receiver would accept
if it were waiting already. A thread that still waits after a step waited for the same
before (`Lingers`), so only three steps need an argument: a sender joins a queue only if it
would not be accepted; a fault that is delivered at once leaves the handler, whose reply is
awaited, outside all queues; and a receiver waits only if `recvPhase` found no partner,
and then its queue has none (`NoPartner`).

*`MapDBProofs`* assumes `MapDBAssumption` and `PowersAssumption` (that `2^0 = 1` and
`2^(b+1) = 2 * 2^b` up to the size of memory: the prover knows no more of a power than that
it is a number). Its theorem is about `DownSpec`: the behaviours of `Spec` without the sends
by which a thread replaces what its own mapping was derived from (`Upwards`), which frees the
source of the send, or makes the kernel run off the end of the list. Of `Spec` that is false
(section 8, third item, and `MCMapDBUpwards.cfg`). `DerivationsStaySound` says that the database
stays sound, and that whatever else `map2` flushes to make room for a mapping, the source is
still there when the mapping is added (`SourceKept`, a part of `DerivationsSound`). There is no
bound on the mappings of a space, so it also holds where `removeMapping` forgets a subtree:
mappings that are lost to their space are still flushed with what they were derived from. The
inductive invariant is

    MapDBInv == Sound(map, tree, job)

which says that there are an order of the mappings in the list (`pos`), and for each space a
set of mappings (`T`), of which the following holds. Going by the order each `next` and each
`prev` leads to the neighbour; and each mapping but the first has a parent before it, of the
level below, with nothing of a lower level in between, whose space is another and whose
memory and rights contain its own (`Listed`). In the midst of a flush, links around the part
that is gone are open, and what is left of the subtree, the segment from `m` on with levels
above the first (`InSegment`), need not have its parents. The tree of each space is a search
tree of the mappings in `T`, which are of that space and apart (`Grown`). That the tree has all
of them is not claimed, and is not so. And of a request that waits for the end of a flush it
says that the source is not in the segment (`FlushedFor`): what is smaller than the request
cannot be what the source was derived from, because what is derived is never larger
(`SegmentSizes`), and what is larger was compared with the source by the loop of `map2`. So the
source is still there when the mapping is added, and, as all in `T` that meets the request was
flushed, the new leaf is apart from the others.

A search tree is described by the span of each node: all that starts between `lo[x]` and
`hi[x]` is to be found from `x` on (`Bst`). Of two spans one is part of a side of the other, or
they are apart (`Laminar`). With that, what a search finds (`FoundFacts`), where a removal
writes (`PlaceFacts`), and the three ways to remove a node (`RemoveFacts`), to add one
(`AddFacts`) and to turn the tree (`Rotated`) are each a matter of comparing numbers, without
induction over trees. Loops that follow links are recursive functions; each link leads to a
higher rank in a finite set, so they come to a null pointer in time (`RankedWalk`).

*`SpacesProofs`* assumes `SpacesAssumption`, which says of areas what `spaceControl` checks
(the kip is outside the utcb area), that they are fpages (`Aligned`), and that the privileged
spaces have one page of utcbs, as they are set up. Utcb areas may have any number of pages.
The theorems are about `SparingSpec`: the behaviours of `Spec` in which nothing is received over
a part of a utcb area (`OverUtcbs`). Of `Spec` they are false (section 8, fourth item, and
`MCSpacesWide.cfg`). The invariant is

    IInv == MemInv(mem, tcb, DOMAIN tcb, KernelObjs) /\ mem.num >= 0
              /\ Inhabited(mem.space, tcb) /\ RunInv

`MemInv` is what holds of memory at every call within a handler, too, and has one part per
structure, each about the fields that it names. `UsedInv`: the pages that are not free are
those that something is in. `ObjInv`: a page of objects has as many in use as it counts, its
free list has each of the other places once, and `partials` has each page with room once.
`TabInv`: directories refer to tables of their own, and tables to utcbs of their own.
`SpaceInv`: there is a directory for each space with active threads and for no other, with the
utcbs of its area and no more. `ThreadInv` and `TcbInv`: counts are numbers of threads.
`UtcbInv`: the utcb of a thread that is active is in a page of its space's directory. `MapInv`:
mappings are in active spaces, outside the utcb area, which is why unmapping one never takes a
utcb; nor does the page table go that they are in, because an area that is not within one
superpage leaves no room for a mapping in those it fills. `LoadInv`: if the current space is
marked as loaded, its directory is in cr3 and nothing is stale. A handler passes through states
in which a thread has left its space but not the directory of TCBs, or an object is allocated
but is nothing yet; that is what the arguments for threads, ids of TCBs and objects are for.
Two things hold only between handlers: spaces have threads, and sigma0 its directory and the
area it was booted with, so that its faults are never at a utcb (`Inhabited`, `PrivInv`); and
what runs is loaded (`RunInv`).

The proofs go operation by operation (`allocObject1`, `freeObject`, `allocPdir2`,
`allocUtcbPage2`, `freePdir`, `unmapFpage`, `flush` and lists of it, `exitSpace`,
`allocTCB1`, `destroyTCB`, `switchSpace`), and say of each what it keeps, what it changes, and
how many pages it may take; a handler is a chain of them, and the numbers of its
`availPages` must cover their sum. `PagesExactTheorem`, `CountsExactTheorem` and
`SeesOwnSpaceTheorem` follow. Two lists, of partial pages and of free places, are shown to be
without repetition by positions, since the prover has no induction over sequences.

The first part of *`CapsProofs`* is about the operators of `CapsMemory`. It assumes
`WidthsAssumption` (a page is smaller than memory, the smallest block no larger than a page;
tables have room for something) and `PowersAssumption`, that `2^0 = 1` and `2^(b+1) = 2 * 2^b`:
the prover knows no more of a power than that it is a number. Its lemmas say that inserting an
interval and cutting one out of the table leave intervals of whole pages, all of them usable
and no two with a page in common (`Separate`), whatever is full; that the blocks made of an
interval partition it; and that `alloc` takes its object from what its capability had left, and
leaves a rest without it (`TakenFacts`). The loops are recursive functions, which are shown to
exist, and whose every round is shown to keep what it should, by the least round that does not.

The second part assumes these two and `CapsAssumption`: the loader's checks of the memory map
and the headers, and that the kernel's own superpages lie above the addresses of users. The
inductive invariant is

    Inv == TypeInv /\ MemoryInv /\ InsertInv /\ ReserveInv /\ UntypedInv
             /\ PdirInv /\ CopyInv /\ RunInv

`MemoryInv` says of every moment that the memory left in each untyped capability, in the table
or in a slot of any space, the objects, and the directory and table entries that lead to them
are pairwise apart and usable (`UsedOnce`, `MappedOnce`). To give memory to the table at all, the
kernel must have found each page once: `InsertInv`, `ReserveInv` and `UntypedInv` say what is
in the intervals while regions are inserted, reserved ones cut out, and blocks made of
them. `PdirInv` and `CopyInv` follow the processes and their code into pages. `RunInv` is about
the system calls: the capability spaces fall in two sets, one per process, and no capability
in a space of one set leads to the other (`Parted`). A move or an allocation only writes slots
in the caller's set, and a space it creates joins that set. `Invariant`, `MemoryUsedOnceTheorem`,
`MapsOnceTheorem` and `IsolatedTheorem` follow; the last says of every step that what the
other process can reach is as it was.

`UntypedExactTheorem` is the other direction, that no usable page is lost while the tables have
room. Each operator that the table of intervals goes through keeps every page that it should
(`InsertKeeps`, `CutOutLeaves`, `ReserveKeeps`, `SortSeparate`, `LeftKeeps`), and the table of
blocks keeps its blocks and their order by size (`InsertUntypedFacts`). `FoundInv`, which is
inductive beside `Inv`, says where the pages are at each step: at most one interval for each
region so far, and every page of those regions in an interval; then every page that
nothing reserved has touched in an interval; then every usable page in an interval or a
block; and at last in a block. The theorem has a hypothesis, `HeadersWhole`: no header is an
empty region in the inside of a page. `reserveInterval` rounds outwards, and would take
that page, which nothing uses. The maker refuses empty files (`mimgmake.c:196`), ranges
(line 693) and sections (line 354), so the only image with such a header is one with an ELF
program whose only segment is empty. The runs' headers are not empty (`WholeHeaders`).

*`Sigma0Proofs`* assumes `RegionsAssumption` and `Sigma0Assumption`: pages divide memory, blocks
of a page or more are made of pages and divide memory too (the source has powers of two), a
page holds more than two structures, and descriptors are not upside down. `PoolsStayExact`,
`GivenStaysOwned` and `RefusalsTakeNothing` are about any descriptors, in any order, and any
number of structures. The
inductive invariant (`IInv`) has one part for each phase. While descriptors are read, the pools
fit the homes that the descriptors so far give to each page (`HomeAt`); after that, those of all
descriptors. In each phase the lists are in order and no page is in two of them (`Sound`);
`Backed` says that what has been given is allocated.

What makes the proof long is growth. Any operation that needs a structure may take a page for
sigma0 first, from the very list that it is about to change. If that page was the start of a
region that is being split, the region may be left with no page at all in front of the
block, and it stays in the list like that: its end lies before its start. So the lists of
conventional memory are made of regions that may be empty (`Slack`), which count as the last
address before them, and all else is shown for these. Regions are inserted into
that list only while descriptors are read, and none of it is empty then. Each operation is
reduced to what it does to the set of pages of each pool: `Loses`, `With`, `Grew`, `Cleared`
(a block is in no pool), `Put`, `Removed`. A request is a chain of these, and says what it
allocates (`Gets`), that nothing allocated is lost (`Kept`) and that pages fit their homes
(`FitsBut`, but for the block in hand), also if the program hangs on the way (`Lost`). The loops
over pages, regions and areas are recursive functions, as in `CapsProofs`.

`RefusalsTakeNothing` needs the same invariant, and follows owners too: a step that takes a
block for a thread leaves free pages with the owners they had, and allocates pages to that
thread and to sigma0 alone (`Tracks`). So a page that was to be had when all were checked
is, when its turn comes, where it was, or allocated to the thread itself, or to sigma0
(`StaysOpen`). In the last case sigma0 has a page that it did not have before, which is the
exception; in the others the page is found (`HoldingPage`: a page that the thread may have
is always found in its region), and the second loop refuses none (`Looped`).

*Only model-checked:* of `MapDB`, that the trees and the page tables are exact and that
handlers end, and its refinement `MapGrants`; the modules of the image and pingpong; and all
liveness (round robin, `Served`, the loops that end), which is beyond the prover, as is
ENABLED.

## 8. Findings, and other places where the code goes wrong

These four end in a violation, the second in the run `map_lost`, the others in the
configurations named:

1. `MCSchedDonor.cfg`, `scheduling.c:253`: an expired timeslice moves the queue on through the
   holder's `next` link, even if the holder was unlinked meanwhile. When a thread that runs on
   a donated timeslice halts the donor and the timeslice ends, the queue gets a head that is
   not in it, where `threads.h:125` has halted threads in no runqueue. The step is
   `RotatesStale`, and everything but it is in `LinkedSpec`.
2. `map_lost`, `space.c:250`: `removeMapping` assigns `m->right = m->right`, and a subtree is
   lost. `map_db` has too few mappings for it.
3. `MCMapDBUpwards.cfg`, `space.c:760`: the loop in `map2` that looks for the source below the target
   compares levels the wrong way round; the source is freed and then used, or the loop leaves
   the end of the list. The steps are `Upwards`, and everything but them is in `DownSpec`.
4. `MCSpacesWide.cfg`, `space.c:721`: `map2` tests whether the receive page *contains* an area where
   its comment says *intersects*; with a utcb area of two pages, as pingpong has, a page of
   utcbs is mapped over and lost. The steps are `OverUtcbs`, and everything but them is in
   `SparingSpec`.

These are kept out of the runs by a bound or an exception that is named in the model, and
are worth knowing for a reader of the code. In the kernel:

5. `memory.c:141`: a header that reaches into the last, incomplete page of the chosen range
   puts the search for pages beyond the end of the range (`RunsPast` in `KernelPagesFree`,
   `memory.c:183`), and with nothing before it `initPages` is called for no page and counts
   down through zero (the outcome "wild"). A size in lines 141 to 151 may wrap below zero,
   and make the wrong range the largest.

In images:

6. `mimgload.c:302`: the search for sections that must be put off ends at a section that
   lies beyond the image; those put off are then loaded before the sections after it are
   read, which they may overwrite (`Straddled`).
7. `mimgload.c:100` assigns `type = 1` where the type is to be compared. A range of
   the memory map that is empty at zero counts as all of memory. A file that was cut
   between two sections is accepted. Strings of the multiboot loader may be overwritten
   before they are copied. Where words have eight bytes, the maker's `ElfWord` has too, and
   every ELF file is refused.

In sigma0 (all of these are in the model, except where a bound says so):

8. Structures may run out while the descriptors are read (`sigma0_mem.cc:176`), and sigma0
   then takes a page that a later descriptor calls reserved. In the slow path
   (`sigma0_mem.cc:362`) growth may take a page that was checked, and the second phase fails
   half way, hence the exception in `RefusedTakesNothing`; at the top of memory the loop
   wraps and hangs (line 367, `ok = FALSE`). The last structure of a page may cross its end
   (`region.cc:312`); structures freed while it grows are leaked (line 353); nested
   growth may leave a region whose bounds are inverted. `register_memory` passes over pages
   that it cannot have (`sigma0_mem.cc:90`). The kernel's descriptors come in another order,
   and with another virtual bit, than this sigma0 expects (`memory.c:46`, 51).

In pingpong:

9. No result is looked at. If the kernel lacks memory for a mapping, ping is halted at
   its fault and main waits for ever; for an activation, the pager blocks; for a
   creation, pong loops. A malformed message then makes the pager print, and wait in the
   debugger, while main prints. Only the messages between the threads keep two of them from
   printing at once, and they do as long as there is memory (`OnePrinter`).

## 9. Not modelled

The KIP apart from its memory descriptors, descriptor tables and entry code, port I/O apart
from the interrupt masks, formatting (`print.cc`, `userio`) and the debugging output, IPC
timeouts other than zero and never (the code has no others), string items, `winio` and
`vram`, which do what `simpleio` does, and the components that the table above marks.

## 10. Plan

In this order:

1. *Proofs*: the trees and page tables of the mapping database (`TreesExact`,
   `TablesExact`).
2. *Composition*: `Ipc` with `Sched`, so that the strong fairness of the server in
   `ServeSpec`, and of the threads in `Pingpong`, is a consequence of round robin.
3. *winio*: windows that share a screen, with the cursor of each.
