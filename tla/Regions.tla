------------------------------- MODULE Regions --------------------------------
(***************************************************************************)
(* The memory pools of L4Ka's sigma0 (region.cc, sigma0_mem.cc): sorted     *)
(* lists of regions, each with an owner.  conv and mem hold free memory,    *)
(* conventional and other; alloc holds what is taken.  Every region takes a *)
(* structure from a free list; a list that has run out is given a page that *)
(* sigma0 allocates to itself, in the middle of whatever it was doing.      *)
(*                                                                          *)
(* The operators take the pools, a record, and return them; ok is FALSE     *)
(* where the program hangs.  Addresses are unsigned and wrap after Top.     *)
(***************************************************************************)
EXTENDS Integers, FiniteSets, SequencesExt

CONSTANTS
    Top,            \* ~0UL
    Page,           \* 1 << min_pgsize
    Anythread,      \* L4_anythread
    Sigma0Id,       \* sigma0_id
    InitialRegs,    \* structures in initial_regs
    PageRegs        \* structures that a page gives

ASSUME RegionsAssumption ==
    /\ {Top, Page, InitialRegs, PageRegs} \subseteq Nat \ {0}
    /\ ((Top + 1) % Page) = 0
    /\ PageRegs > 2

Wrap(n) == n % (Top + 1)
Down(a, size) == a - (a % size)

region(low, high, owner) == [low |-> low, high |-> high, owner |-> owner]

\* Pools before the first region is inserted.
NoPools == [conv |-> <<>>, mem |-> <<>>, alloc |-> <<>>, free |-> InitialRegs, ok |-> TRUE]

(***************************************************************************)
(* region_t::concatenate and region_pool_t::insert.                         *)
(***************************************************************************)
Follows(r, n) == Wrap(r.high + 1) = n.low /\ n.low # 0
Joins(r, n)   == r.owner = n.owner /\ (Follows(r, n) \/ Follows(n, r))
concatenate(r, n) ==
    IF Follows(n, r) THEN [r EXCEPT !.low = n.low] ELSE [r EXCEPT !.high = n.high]

\* The first region of the list that r does not lie behind.
Place(list, r) == Min({Len(list) + 1} \cup {i \in DOMAIN list : r.low <= list[i].high})

\* A structure for r has been taken; it is free again if r is concatenated.
insert(s, pool, r) ==
    LET list == s[pool]
        n    == Place(list, r)
        Next == n <= Len(list)
    IN  IF ~s.ok THEN s
        ELSE IF n > 1 /\ Joins(list[n - 1], r)
        THEN LET p == concatenate(list[n - 1], r)
             IN  IF Next /\ Joins(p, list[n])
                 THEN [s EXCEPT ![pool] = RemoveAt(ReplaceAt(@, n - 1, concatenate(p, list[n])), n),
                                !.free = @ + 2]
                 ELSE [s EXCEPT ![pool] = ReplaceAt(@, n - 1, p), !.free = @ + 1]
        ELSE IF Next /\ Joins(list[n], r)
        THEN [s EXCEPT ![pool] = ReplaceAt(@, n, concatenate(list[n], r)), !.free = @ + 1]
        ELSE [s EXCEPT ![pool] = InsertAt(@, n, r)]

(***************************************************************************)
(* region_t::allocate and can_allocate.  Aligned bounds of a region wrap.   *)
(***************************************************************************)
low_a(r, size)  == Down(Wrap(r.low + size - 1), size)
high_a(r, size) == Wrap(Down(Wrap(r.high + 1), size) - 1)

\* Whether tid may have a block of this size from the region.
Roomy(r, size, tid) ==
    /\ Wrap(high_a(r, size) - low_a(r, size)) >= size - 1
    /\ r.low <= low_a(r, size)
    /\ r.high >= size - 1
    /\ r.owner \in {tid, Anythread}

\* A slip for the runs to find: anybody may have what is in a region.
CanAllocateAny(r, addr, size, tid) ==
    /\ addr >= low_a(r, size)
    /\ Wrap(addr + size - 1) <= high_a(r, size)
    /\ Roomy(r, size, r.owner)

can_allocate(r, addr, size, tid) ==
    /\ addr >= low_a(r, size)
    /\ Wrap(addr + size - 1) <= high_a(r, size)
    /\ Roomy(r, size, tid)

\* A block anywhere in the region, and where it is then taken.
CanAnywhere(r, size, tid) == low_a(r, size) <= high_a(r, size) /\ Roomy(r, size, tid)

Anywhere(r, size) ==
    IF low_a(r, size) # r.low /\ high_a(r, size) = r.high
    THEN high_a(r, size) - size + 1
    ELSE low_a(r, size)

TakeStart(s, pool, i, size) ==
    IF Wrap(s[pool][i].low + size) = Wrap(s[pool][i].high + 1)
    THEN [s EXCEPT ![pool] = RemoveAt(@, i), !.free = @ + 1]
    ELSE [s EXCEPT ![pool][i].low = @ + size]

(***************************************************************************)
(* region_list_t::alloc.  For as long as it takes to allocate a page, the   *)
(* list is one structure on the stack, tmp.  If tmp ends up in a pool it is *)
(* replaced by one of the page; if not, the list as it then is is dropped,  *)
(* and any structure that was freed meanwhile with it.                      *)
(***************************************************************************)
FirstFit(list, size, tid) ==
    LET fits == {i \in DOMAIN list : CanAnywhere(list[i], size, tid)}
    IN  IF fits = {} THEN 0 ELSE Min(fits)

\* Structures in a page: none at address 0.
add(addr) == IF addr = 0 THEN PageRegs - 1 ELSE PageRegs

\* Regions begin and end with a page: a page is taken from their start.
Grow(s) ==
    LET i    == FirstFit(s.conv, Page, Sigma0Id)
        page == s.conv[i].low
        took == TakeStart([s EXCEPT !.free = 1], "conv", i, Page)
        own  == insert([took EXCEPT !.free = @ - 1], "alloc",
                       region(page, page + Page - 1, Sigma0Id))
    IN  IF i = 0 THEN [s EXCEPT !.ok = FALSE]
        ELSE [own EXCEPT !.free = IF @ = 0 THEN add(page) - 1 ELSE add(page)]

\* new region_t.
Pop(s) == IF s.ok THEN [s EXCEPT !.free = @ - 1] ELSE s
New(s) == Pop(IF s.free = 0 THEN Grow(s) ELSE s)

insertNew(s, pool, r) == insert(New(s), pool, r)

\* A block from the middle of a region, whose start may change while the
\* structure for the part after the block is found.
Split(s, pool, high, addr, size) ==
    LET j == CHOOSE k \in DOMAIN s[pool] : s[pool][k].high = high
        r == s[pool][j]
    IN  IF ~s.ok THEN s
        ELSE [s EXCEPT ![pool] =
                 InsertAt(ReplaceAt(@, j, [r EXCEPT !.high = addr - 1]), j + 1,
                          region(addr + size, high, r.owner))]

TakeMiddle(s, pool, i, addr, size) == Split(New(s), pool, s[pool][i].high, addr, size)

allocate(s, pool, i, addr, size) ==
    CASE addr = s[pool][i].low                -> TakeStart(s, pool, i, size)
      [] addr # s[pool][i].low
         /\ addr + size - 1 = s[pool][i].high -> [s EXCEPT ![pool][i].high = @ - size]
      [] OTHER                                -> TakeMiddle(s, pool, i, addr, size)

(***************************************************************************)
(* region_pool_t::remove of a range: regions disappear, or lose an end, or  *)
(* one is split.                                                            *)
(***************************************************************************)
Cut(r, low, high) ==
    CASE low <= r.low /\ high >= r.high               -> <<>>
      [] low <= r.low /\ high >= r.low /\ high < r.high -> <<[r EXCEPT !.low = high + 1]>>
      [] low > r.low /\ low <= r.high                 -> <<[r EXCEPT !.high = low - 1]>>
      [] OTHER                                        -> <<r>>

remove(s, pool, low, high) ==
    LET list   == s[pool]
        kept   == FlattenSeq([i \in DOMAIN list |-> Cut(list[i], low, high)])
        cut    == [s EXCEPT ![pool] = kept, !.free = @ + Len(list) - Len(kept)]
        Inside == {i \in DOMAIN list : low > list[i].low /\ high < list[i].high}
    IN  IF Inside = {} THEN cut
        ELSE LET r == list[Min(Inside)]
             IN  insertNew(cut, pool, region(high + 1, r.high, r.owner))

(***************************************************************************)
(* allocate_page, at an address and anywhere.  The result is the pools and  *)
(* the block that may be mapped, an address and a size.                     *)
(***************************************************************************)
Nilpage == <<0, 0>>
Result(s, map) == [s |-> s, map |-> IF s.ok THEN map ELSE Nilpage]

Holding(s, pool, addr, size, tid) ==
    {i \in DOMAIN s[pool] : can_allocate(s[pool][i], addr, size, tid)}

\* The first pool of ps that has the block; 0 if none has.
PoolOf(s, ps, addr, size, tid) ==
    LET has == {k \in DOMAIN ps : Holding(s, ps[k], addr, size, tid) # {}}
    IN  IF has = {} THEN 0 ELSE Min(has)

Take(s, pool, addr, size, tid) ==
    insertNew(allocate(s, pool, Min(Holding(s, pool, addr, size, tid)), addr, size),
              "alloc", region(addr, addr + size - 1, tid))

\* The pages that the slow way goes through.  Its loop over them does not end
\* at the end of memory, but goes on from 0.
SlowPages(addr, size) ==
    IF addr + size - 1 = Top
    THEN [k \in 1 .. (Top + 1) \div Page |-> (k - 1) * Page]
    ELSE [k \in 1 .. size \div Page |-> addr + (k - 1) * Page]

TakePage(s, ps, page, tid) ==
    LET k == PoolOf(s.s, ps, page, Page, tid)
    IN  IF ~s.done \/ ~s.s.ok THEN s
        ELSE IF k = 0 THEN [s EXCEPT !.done = FALSE]
        ELSE IF ps[k] = "alloc" THEN s
        ELSE [s EXCEPT !.s = Take(@, ps[k], page, Page, tid)]

TakePages(s, ps, addr, size, tid) ==
    LET pages == SlowPages(addr, size)
        after[k \in 0 .. Len(pages)] ==
            IF k = 0 THEN [s |-> s, done |-> TRUE]
            ELSE TakePage(after[k - 1], ps, pages[k], tid)
    IN  after[Len(pages)]

Taken(t, addr, size) == Result(t.s, IF t.done THEN <<addr, size>> ELSE Nilpage)

\* A slip for the runs to find: pages are taken without a check of all first.
SlowUnchecked(s, ps, addr, size, tid) == Taken(TakePages(s, ps, addr, size, tid), addr, size)

\* Page by page from different pools: all are checked, then all are taken.
Slow(s, ps, addr, size, tid) ==
    LET pages == SlowPages(addr, size)
        Free  == \A k \in DOMAIN pages : PoolOf(s, ps, pages[k], Page, tid) # 0
    IN  IF ~Free THEN Result(s, Nilpage)
        ELSE IF addr + size - 1 = Top THEN Result([s EXCEPT !.ok = FALSE], Nilpage)
        ELSE Taken(TakePages(s, ps, addr, size, tid), addr, size)

allocatePageAt(s, tid, at, size, onlyConv) ==
    LET addr  == Down(at, size)
        pools == IF onlyConv THEN <<"conv">> ELSE <<"conv", "mem">>
        quick == PoolOf(s, pools, addr, size, tid)
    IN  IF size < Page THEN Result(s, Nilpage)
        ELSE IF quick # 0
        THEN Result(Take(s, pools[quick], addr, size, tid), <<addr, size>>)
        ELSE IF Holding(s, "alloc", addr, size, tid) # {} THEN Result(s, <<addr, size>>)
        ELSE Slow(s, IF onlyConv THEN <<"conv", "alloc">> ELSE <<"conv", "alloc", "mem">>,
                  addr, size, tid)

allocatePage(s, tid, size) ==
    LET i    == FirstFit(s.conv, size, tid)
        addr == Anywhere(s.conv[i], size)
    IN  IF size < Page \/ i = 0 THEN Result(s, Nilpage)
        ELSE Result(insertNew(allocate(s, "conv", i, addr, size), "alloc",
                              region(addr, addr + size - 1, tid)),
                    <<addr, size>>)
=============================================================================
