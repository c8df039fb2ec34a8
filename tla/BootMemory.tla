------------------------------ MODULE BootMemory ------------------------------
(***************************************************************************)
(* initMemory of the pork kernel: from the boot data (the headers of what   *)
(* was loaded, the ranges of memory) it describes memory for user programs  *)
(* and takes free pages for the kernel, out of the range that has most.     *)
(*                                                                          *)
(* Arithmetic on addresses and sizes is unsigned and wraps.  kpc is "wild"  *)
(* where the loop that frees pages does not end: it has then freed every    *)
(* page, there or not.                                                      *)
(***************************************************************************)
EXTENDS MimgFormat, FiniteSets, SequencesExt

CONSTANTS
    PageLen,        \* 1 << PAGESIZE
    Fine,           \* 1 << 10, the granularity of memory descriptors
    PhysMap,        \* PHYSMAP: memory that the kernel has mapped
    KernelSpace,    \* KERNEL_SPACE
    Video,          \* first and last address of 0xa0000 .. 0xfffff
    KernelShare,    \* kernelPages takes one page of so many
    MAX_MEMDESC

ASSUME MemoryAssumption ==
    /\ {PageLen, Fine, KernelShare, MAX_MEMDESC} \subseteq Nat \ {0}
    /\ (PageLen % Fine) = 0
    /\ ((MaxAddr + 1) % PageLen) = 0
    /\ {PhysMap, KernelSpace} \subseteq Addr \ {0}
    /\ Video \in Addr \X Addr

VARIABLES
    kpc,        \* "off", "take", "done", "aborted" or "wild"
    rngs,       \* ranges of memory: lo, hi
    hdrs,       \* headers: lo, hi, entry
    servers,    \* lo, hi and ip of sigma0 and the root task in the KIP
    descs,      \* memory descriptors in the KIP
    klo,        \* the loop that takes pages: where it has got to in its range,
    khi,        \*   the end of the range
    pages,      \*   pages still to take
    freePages   \* free list of kernel pages, the head first

memVars == <<kpc, rngs, hdrs, servers, descs, klo, khi, pages, freePages>>

Down(a, unit)  == a - (a % unit)
UpEnd(a, unit) == Down(a, unit) + unit - 1      \* ~align(~a)
Less(a, b)     == IF a < b THEN a ELSE b
More(a, b)     == IF a < b THEN b ELSE a

kernelPages(upper) == upper \div KernelShare

(***************************************************************************)
(* Memory descriptors.                                                      *)
(***************************************************************************)
Desc(lo, hi, type) == [lo |-> Down(lo, Fine), hi |-> Down(hi, Fine), type |-> type]

addMemDesc(ds, lo, hi, type) ==
    IF lo <= hi THEN Append(ds, Desc(lo, hi, type)) ELSE ds

\* Those that do not depend on the kernel's own pages, in their order.
Described ==
    LET base  == <<Desc(0, KernelSpace - 1, "Virtual"), Desc(0, MaxAddr, "Shared"),
                   Desc(Video[1], Video[2], "Shared")>>
        convs == FoldLeft(LAMBDA ds, r : addMemDesc(ds, r.lo, r.hi, "Conventional"),
                          base, rngs)
    IN  FoldLeft(LAMBDA ds, h : addMemDesc(ds, h.lo, h.hi, "BootModules"), convs, hdrs)

Server(h) == [lo |-> h.lo, hi |-> h.hi, ip |-> h.entry]
NoServer  == [lo |-> 0, hi |-> 0, ip |-> 0]

(***************************************************************************)
(* The part of the pages of [lo, hi] that a header takes up, and the choice *)
(* of the range with the most space left, by a size that wraps if headers   *)
(* share a page or no whole page lies in the range.                         *)
(***************************************************************************)
HLo(lo, h) == Down(More(lo, h.lo), PageLen)
HHi(hi, h) == UpEnd(Less(hi, h.hi), PageLen)
Touches(lo, hi, h) == HLo(lo, h) < HHi(hi, h)

RangeHi(r) == Less(r.hi, PhysMap - 1)

SizeLeft(r) ==
    LET lo == Wrap(Down(Wrap(r.lo - 1), PageLen) + PageLen)
        hi == Wrap(Down(RangeHi(r) + 1, PageLen) - 1)
        In == {j \in DOMAIN hdrs : Touches(lo, hi, hdrs[j])}
    IN  IF r.lo < RangeHi(r) /\ PageLen - 1 < RangeHi(r)
        THEN Wrap(1 + hi - lo -
                  FoldSet(LAMBDA j, sum : sum + 1 + HHi(hi, hdrs[j]) - HLo(lo, hdrs[j]),
                          0, In))
        ELSE 0

\* The first of the largest; 0 if no range has any.
Biggest ==
    LET sizes == {i \in DOMAIN rngs : /\ SizeLeft(rngs[i]) > 0
                                      /\ \A j \in DOMAIN rngs :
                                             SizeLeft(rngs[j]) <= SizeLeft(rngs[i])}
    IN  IF sizes = {} THEN 0 ELSE Min(sizes)

(***************************************************************************)
(* initPages: a descriptor for the pages, and the pages to the free list.   *)
(***************************************************************************)
PagesEnd(lo, n) == Wrap(lo + n * PageLen - 1)

\* The loop over pages compares with <= and so does not end at the top.
Endless(lo, n) == PagesEnd(lo, n) = MaxAddr

\* Addresses of the whole pages from lo, in the order that they are freed.
PagesFrom(lo, n) ==
    LET start == Down(Wrap(lo + PageLen - 1), PageLen)
        count == Cardinality({k \in 0 .. MaxAddr \div PageLen :
                                 start + k * PageLen + PageLen - 1 <= PagesEnd(lo, n)})
    IN  [k \in 1 .. count |-> start + (k - 1) * PageLen]

initPages(lo, n) ==
    /\ descs' = addMemDesc(descs, lo, PagesEnd(lo, n), "Reserved")
    /\ freePages' = Reverse(PagesFrom(lo, n)) \o freePages

\* There is no room for the descriptor.
NoRoom(lo, n) == lo <= PagesEnd(lo, n) /\ Len(descs) >= MAX_MEMDESC

(***************************************************************************)
(* initMemory: what comes before the loop that takes pages, and one turn of *)
(* that loop.                                                               *)
(***************************************************************************)
initMemory ==
    /\ kpc = "start"
    /\ IF Len(hdrs) < 3 \/ Len(Described) > MAX_MEMDESC
       THEN kpc' = "aborted" /\ UNCHANGED <<servers, descs, klo, khi, pages>>
       ELSE /\ servers' = [sigma0 |-> Server(hdrs[3]),
                           root   |-> IF Len(hdrs) >= 4 THEN Server(hdrs[4]) ELSE NoServer]
            /\ descs' = Described
            /\ IF Biggest = 0
               THEN kpc' = "aborted" /\ UNCHANGED <<klo, khi, pages>>
               ELSE /\ klo' = rngs[Biggest].lo
                    /\ khi' = RangeHi(rngs[Biggest])
                    /\ pages' = kernelPages(Wrap(1 + khi' - klo') \div PageLen)
                    /\ kpc' = "take"
    /\ UNCHANGED <<rngs, hdrs, freePages>>

\* The headers in what is left of the range, and where the first of them begins.
InRest == {j \in DOMAIN hdrs : Touches(klo, khi, hdrs[j])}
\* A slip for the runs to find: the first of them in the list is taken.
FirstLo == HLo(klo, hdrs[Min(InRest)])

EarLo  == Min({HLo(klo, hdrs[j]) : j \in InRest})
EarHi  == HHi(khi, hdrs[Min({j \in InRest : HLo(klo, hdrs[j]) = EarLo})])

\* The end of initMemory asserts that there is a free page.
Finish(list) == kpc' = IF list = <<>> THEN "aborted" ELSE "done"

Abort == kpc' = "aborted" /\ UNCHANGED <<descs, freePages, klo, pages>>

\* No header in the rest of the range: all pages come from it.
TakeRest ==
    /\ kpc = "take"
    /\ InRest = {}
    /\ LET n == Less(Wrap(1 + khi - klo) \div PageLen, pages)
       IN  IF NoRoom(klo, n) THEN Abort
           ELSE /\ initPages(klo, n)
                /\ IF Endless(klo, n) THEN kpc' = "wild" ELSE Finish(freePages')
                /\ UNCHANGED <<klo, pages>>
    /\ UNCHANGED <<rngs, hdrs, servers, khi>>

\* Pages from what is before the next header, and on after it.
TakeBefore ==
    /\ kpc = "take"
    /\ InRest # {}
    /\ EarLo > klo
    /\ LET n == Less((EarLo - klo) \div PageLen, pages)
       IN  IF NoRoom(klo, n) THEN Abort
           ELSE /\ initPages(klo, n)
                /\ pages' = pages - n
                /\ IF Endless(klo, n) THEN kpc' = "wild" /\ UNCHANGED klo
                   ELSE IF pages' = 0 THEN Finish(freePages') /\ UNCHANGED klo
                   ELSE klo' = Wrap(EarHi + 1) /\ UNCHANGED kpc
    /\ UNCHANGED <<rngs, hdrs, servers, khi>>

PassHeader ==
    /\ kpc = "take"
    /\ InRest # {}
    /\ EarLo <= klo
    /\ klo' = Wrap(EarHi + 1)
    /\ UNCHANGED <<kpc, rngs, hdrs, servers, descs, khi, pages, freePages>>

MemoryInit ==
    /\ kpc = "off" /\ rngs = <<>> /\ hdrs = <<>>
    /\ servers = [sigma0 |-> NoServer, root |-> NoServer]
    /\ descs = <<>> /\ klo = 0 /\ khi = 0 /\ pages = 0 /\ freePages = <<>>

MemoryNext == initMemory \/ TakeRest \/ TakeBefore \/ PassHeader
=============================================================================
