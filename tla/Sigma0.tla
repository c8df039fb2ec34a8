-------------------------------- MODULE Sigma0 --------------------------------
(***************************************************************************)
(* L4Ka's sigma0 (sigma0.cc, sigma0_mem.cc): it reads the descriptors of    *)
(* memory in the kernel interface page, in their order, takes the areas of  *)
(* the initial servers, and then answers requests for pages, one at a time, *)
(* from page faults and from its protocol.                                  *)
(***************************************************************************)
EXTENDS Regions

CONSTANTS
    KernelId, Sigma1Id, RootserverId,   \* kernel_id, sigma1_id, rootserver_id
    Users,      \* other threads
    KIPs,       \* contents of the kernel interface page, see ReadDescriptor
    Blocks      \* bound: sizes that requests name

\* Blocks are powers of two, of which this is what matters.
ASSUME Sigma0Assumption ==
    /\ Blocks \subseteq Nat \ {0}
    /\ \A size \in Blocks : size >= Page => (size % Page) = 0 /\ ((Top + 1) % size) = 0
    /\ \A k \in KIPs :
          /\ k.mem \in Seq([low : 0 .. Top, high : 0 .. Top, type : STRING, virtual : BOOLEAN])
          /\ \A i \in DOMAIN k.mem : k.mem[i].low <= k.mem[i].high
          /\ \A i \in 1 .. 4 : k.servers[i].low \in 0 .. Top /\ k.servers[i].high \in 0 .. Top

VARIABLES
    kip,    \* mem: descriptors; servers: areas of Kdebug, sigma0, sigma1, root
    pc,     \* "memory", "servers", "serve" or "hung"
    n,      \* next descriptor or server
    pools,  \* conv_memory_pool, memory_pool, alloc_pool and region_list
    given   \* what replies have mapped: pairs of a page and a thread

vars == <<kip, pc, n, pools, given>>

Clients == Users \cup {RootserverId}
Pages   == {a \in 0 .. Top : a % Page = 0}
PagesIn(map) == {p \in Pages : map[1] <= p /\ p < map[1] + map[2]}

(***************************************************************************)
(* init_mempool_from_kip.                                                   *)
(***************************************************************************)
page_start(a) == Down(a, Page)
page_end(a)   == Down(Wrap(a + Page - 1), Page)
LastOf(d)     == Wrap(page_end(Wrap(d.high + 1)) - 1)

\* The pool and the owner for memory of each type; other types have none.
PoolFor == [bootloader |-> "mem", architecture |-> "mem", dedicated |-> "mem",
            conventional |-> "conv", reserved |-> "alloc", shared |-> "alloc"]
OwnerFor(type) == IF type = "reserved" THEN KernelId ELSE Anythread

\* A slip for the runs to find: memory taken before stays taken.
DescribedOver(s, d) ==
    LET low     == page_start(d.low)
        high    == LastOf(d)
        cleared == remove(remove(s, "conv", low, high), "mem", low, high)
    IN  IF d.virtual THEN s
        ELSE IF d.type \in DOMAIN PoolFor
        THEN insertNew(cleared, PoolFor[d.type], region(low, high, OwnerFor(d.type)))
        ELSE cleared

Described(s, d) ==
    LET low     == page_start(d.low)
        high    == LastOf(d)
        cleared == remove(remove(remove(s, "conv", low, high), "mem", low, high),
                          "alloc", low, high)
    IN  IF d.virtual THEN s
        ELSE IF d.type \in DOMAIN PoolFor
        THEN insertNew(cleared, PoolFor[d.type], region(low, high, OwnerFor(d.type)))
        ELSE cleared

\* Pages of the area that cannot be had are left out.
register_memory(s, low, high, tid) ==
    LET first == page_start(low)
        count == IF first < page_end(high) THEN (page_end(high) - first) \div Page ELSE 0
        after[k \in 0 .. count] ==
            IF k = 0 THEN s
            ELSE IF ~after[k - 1].ok THEN after[k - 1]
            ELSE allocatePageAt(after[k - 1], tid, first + (k - 1) * Page, Page, FALSE).s
    IN  after[count]

Servers == <<KernelId, Sigma0Id, Sigma1Id, RootserverId>>

ReadDescriptor ==
    /\ pc = "memory"
    /\ n <= Len(kip.mem)
    /\ pools' = Described(pools, kip.mem[n])
    /\ n' = n + 1
    /\ pc' = IF pools'.ok THEN pc ELSE "hung"
    /\ UNCHANGED <<kip, given>>

AllDescriptors ==
    /\ pc = "memory"
    /\ n > Len(kip.mem)
    /\ pc' = "servers"
    /\ n' = 1
    /\ UNCHANGED <<kip, pools, given>>

AllocMemory ==
    /\ pc = "servers"
    /\ n <= Len(Servers)
    /\ pools' = IF kip.servers[n].high = 0 THEN pools
                ELSE register_memory(pools, kip.servers[n].low, kip.servers[n].high, Servers[n])
    /\ n' = n + 1
    /\ pc' = IF pools'.ok THEN pc ELSE "hung"
    /\ UNCHANGED <<kip, given>>

StartServing ==
    /\ pc = "servers"
    /\ n > Len(Servers)
    /\ pc' = "serve"
    /\ UNCHANGED <<kip, n, pools, given>>

(***************************************************************************)
(* sigma0_main.  A reply may fail, and then maps nothing: sigma0 goes on to *)
(* wait.  Requests that change nothing (kernel threads, the extended        *)
(* protocol, malformed and unknown ones) leave the sender without a reply.  *)
(***************************************************************************)
Answer(tid, map) ==
    \/ given' = given \cup {<<p, tid>> : p \in PagesIn(map)}
    \/ UNCHANGED given

Serve(tid, result) ==
    /\ pc = "serve"
    /\ pools' = result.s
    /\ pc' = IF result.s.ok THEN pc ELSE "hung"
    /\ Answer(tid, result.map)
    /\ UNCHANGED <<kip, n>>

\* The page size of a fault is the smallest, and only conventional memory does.
PageFault ==
    \E tid \in Clients, at \in Pages : Serve(tid, allocatePageAt(pools, tid, at, Page, TRUE))

\* Memory attributes that the kernel refuses are like a reply that fails.
RpcAt ==
    \E tid \in Clients, at \in Pages, size \in Blocks :
        Serve(tid, allocatePageAt(pools, tid, at, size, FALSE))

RpcAnywhere ==
    \E tid \in Clients, size \in Blocks : Serve(tid, allocatePage(pools, tid, size))

Init ==
    /\ kip \in KIPs
    /\ pc = "memory"
    /\ n = 1
    /\ pools = insertNew(NoPools, "mem", region(0, Top, Anythread))
    /\ given = {}

Next ==
    \/ ReadDescriptor \/ AllDescriptors \/ AllocMemory \/ StartServing
    \/ PageFault \/ RpcAt \/ RpcAnywhere

Spec == Init /\ [][Next]_vars

-----------------------------------------------------------------------------
(***************************************************************************)
(* Properties.                                                              *)
(***************************************************************************)
Regs(pool, p) == {i \in DOMAIN pools[pool] : pools[pool][i].low <= p /\ p <= pools[pool][i].high}

\* The descriptors that touch a page, and the pool that the last one names.
Touching(p) == {i \in DOMAIN kip.mem : /\ ~kip.mem[i].virtual
                                       /\ page_start(kip.mem[i].low) <= p
                                       /\ p <= kip.mem[i].high}
TypeOf(p) == kip.mem[Max(Touching(p))].type
Home(p) ==
    IF Touching(p) = {} THEN "mem"
    ELSE IF TypeOf(p) \in DOMAIN PoolFor THEN PoolFor[TypeOf(p)] ELSE "none"

\* Every page is accounted for once: it is free in the pool that the last
\* descriptor for it names, or it has one owner, and never leaves the pools
\* (region_pool_t::insert, remove, region_t::allocate).
PoolsExact ==
    pc = "serve" =>
        \A p \in Pages :
            LET places == UNION {{pool} \X Regs(pool, p) : pool \in {"conv", "mem", "alloc"}}
            IN  IF Home(p) = "none" THEN places = {}
                ELSE /\ Cardinality(places) = 1
                     /\ \A x \in places : x[1] \in {Home(p), "alloc"}

\* Whoever has been given a page owns it or shares it with all: no page goes
\* to two threads, and none of the kernel's or of sigma0's own pages to any,
\* however the pages of a block were found (allocate_page, can_allocate).
GivenIsOwned ==
    \A g \in given : \E i \in Regs("alloc", g[1]) :
        pools.alloc[i].owner \in {g[2], Anythread}

PagesOf(s, tid) == {p \in Pages : \E i \in DOMAIN s.alloc :
    s.alloc[i].owner = tid /\ s.alloc[i].low <= p /\ p <= s.alloc[i].high}

TakesNothing(tid, result) ==
    /\ result.map = Nilpage
    /\ result.s.ok
    /\ PagesOf(result.s, Sigma0Id) = PagesOf(pools, Sigma0Id)
    => PagesOf(result.s, tid) = PagesOf(pools, tid)

\* A request that is refused leaves the thread with the pages it had, unless
\* sigma0 needed a page for itself meanwhile ("Loop once for checking followed
\* by once for allocating").
RefusedTakesNothing ==
    pc = "serve" =>
        \A tid \in Clients, at \in Pages, size \in Blocks :
            TakesNothing(tid, allocatePageAt(pools, tid, at, size, FALSE))
=============================================================================
