-------------------------------- MODULE Spaces --------------------------------
(***************************************************************************)
(* Kernel memory of the pork kernel, and what lives in it: the free pages  *)
(* (pork/kernel/memory.c), objects of a fraction of a page, spaces with    *)
(* their page directories, page tables and utcbs (space.c), and the        *)
(* directory of TCBs (threads.c).                                          *)
(*                                                                         *)
(* Handlers that need memory first test that there are enough free pages,  *)
(* with a number that was counted by hand, and then allocate without a     *)
(* test.  The last thread of a space takes the space's memory along.       *)
(*                                                                         *)
(* Each handler is an action.  All of memory is one record, "mem", and the *)
(* functions of the code are operators that take it from one state to the  *)
(* next.  Which free page is taken plays no part: a page goes by the name  *)
(* of its first use.  Which mappings are flushed is left open here (see    *)
(* MapDB), and so is which thread is dispatched (see Sched).               *)
(***************************************************************************)
EXTENDS Integers, FiniteSets, SequencesExt

CONSTANTS
  NumPages,    \* pages of kernel memory
  Thread,      \* numbers of user threads; 0 is sigma0's and 1 the root task's
  TableSize,   \* TCBs in a page, 2^TCBDIRBITS
  Full,        \* objects in a page, FULL
  Super,       \* superpages of user memory, by number
  PageNo,      \* pages in a superpage
  Areas,       \* the kip and utcb areas that spaceControl is called with
  PrivArea,    \* those of the privileged spaces
  Faults,      \* what sigma0 touches: a bound
  MaxMappings, \* threads hold at most so many mappings: a bound
  None,        \* a null pointer, or an entry that is not present
  Kip, User,   \* entries of page tables for the kip, and for memory that was
               \* mapped by threads: these pages are not kernel memory
  Idle         \* the current thread, when nothing is runnable

Loc  == Super \X PageNo
Area == [kip : Loc, utcb : (SUBSET Loc) \ {{}}]

\* Areas are fpages: one that is in more than one superpage has all of them.
Aligned(utcb) == \A l, k \in utcb : l[1] # k[1] => \A n \in PageNo : <<l[1], n>> \in utcb

\* Pages of kernel memory, by what took them.
ObjectPage(k)       == <<"objects", k>>
TCBPage(i)          == <<"tcbs", i>>
DirectoryPage(sp)   == <<"directory", sp>>
TablePage(d, i)     == <<"table", d, i>>
UtcbPage(d, loc)    == <<"utcb", d, loc>>

Object      == Nat \X Nat                \* a page of objects, and a place in it
Directories == {"directory"} \X Object
Tables      == {"table"} \X Directories \X Super
Utcbs       == {"utcb"} \X Directories \X Loc

Sigma0Thread == 0
RootThread   == 1

\* Booting takes up to 14 pages (Init) and makes sure of none of them.
ASSUME SpacesAssumption ==
  /\ NumPages \in Nat /\ NumPages >= 14
  /\ Thread \subseteq Nat /\ {Sigma0Thread, RootThread} \subseteq Thread
  /\ TableSize \in Nat \ {0} /\ Full \in Nat \ {0, 1}
  /\ Super \subseteq Nat /\ PageNo \subseteq Nat
  /\ Areas \cup {PrivArea} \subseteq Area
  /\ \A a \in Areas \cup {PrivArea} : a.kip \notin a.utcb /\ Aligned(a.utcb)
  /\ \E l \in Loc : PrivArea.utcb = {l}
  /\ Kip # None /\ User # None /\ Kip # User
  /\ None \notin Area /\ None \notin Directories
  /\ \A x \in {None, Kip, User} : x \notin Tables /\ x \notin Utcbs
  /\ Idle \notin Thread
  /\ Faults \subseteq Loc /\ MaxMappings \in Nat

(***************************************************************************)
(* The fields of mem: num, the length of the free list, and used, the      *)
(* names of the pages that are not free; objs, the pages of objects, and   *)
(* partials, the list of those with room; space and mapping, the objects,  *)
(* by page and place; pdir and ptab, page directories and page tables;     *)
(* table, the count of TCBs in each page of the TCB directory; cr3 and     *)
(* currentSpace; and stale, whether the processor may still use entries    *)
(* that are gone from the directory in cr3.                                *)
(***************************************************************************)
VARIABLES
  mem,      \* all of memory
  tcb,      \* the TCBs that exist: their space, and utcb or None
  current   \* the current thread

vars == <<mem, tcb, current>>

\* A function with one more argument, or a new value for one, and with one less.
With(f, x, v) == [y \in DOMAIN f \cup {x} |-> IF y = x THEN v ELSE f[y]]
Dropped(f, x) == Restrict(f, DOMAIN f \ {x})

(***************************************************************************)
(* memory.c: the free list is known by its length; the other pages are in  *)
(* use, under the name of what took them.                                  *)
(***************************************************************************)
allocPage1(m, p) == [m EXCEPT !.used = @ \cup {p}, !.num = @ - 1]
freePage(m, p)   == [m EXCEPT !.used = @ \ {p}, !.num = @ + 1]
availPages(n)    == mem.num >= n

(***************************************************************************)
(* Objects.  A page of them has a count of those in use, a list of those   *)
(* that were freed, and the last that was ever used.  Pages that are not   *)
(* full are in the list of partials.                                       *)
(***************************************************************************)
NewObjs(m) == CHOOSE k \in 1..NumPages + 1 :
                /\ k \notin DOMAIN m.objs
                /\ \A j \in 1..k - 1 : j \in DOMAIN m.objs

NewObj(m) ==
  LET k == Head(m.partials)
  IN IF m.partials = << >> THEN <<NewObjs(m), 1>>
     ELSE IF m.objs[k].free # << >> THEN <<k, Head(m.objs[k].free)>>
     ELSE <<k, m.objs[k].last + 1>>

allocObject1(m) ==
  LET k == Head(m.partials)
      o == m.objs[k]
      q == [o EXCEPT !.count = @ + 1,
                     !.free  = IF @ = << >> THEN @ ELSE Tail(@),
                     !.last  = IF o.free = << >> THEN @ + 1 ELSE @]
  IN IF m.partials # << >>
     THEN [m EXCEPT !.objs[k] = q,
                    !.partials = IF q.count = Full THEN Tail(@) ELSE @]
     ELSE LET new == NewObjs(m)
          IN [allocPage1(m, ObjectPage(new)) EXCEPT
                !.objs = With(@, new, [count |-> 1, free |-> << >>, last |-> 1]),
                !.partials = <<new>>]

\* What is left of a list of pages when p is unlinked from it.
Unlinked(list, p) == RemoveAt(list, CHOOSE i \in DOMAIN list : list[i] = p)

\* The page o of objects, when its object in place i is freed.
Less(o, i) == [o EXCEPT !.count = @ - 1, !.free = <<i>> \o @]

\* A slip: a page that was full stays out of the list.
freeObjectFull(m, obj) ==
  LET p == obj[1] IN
  IF m.objs[p].count > 1
  THEN [m EXCEPT !.objs[p] = Less(@, obj[2])]
  ELSE [freePage(m, ObjectPage(p)) EXCEPT
              !.objs = Dropped(@, p), !.partials = Unlinked(@, p)]

freeObject(m, obj) ==
  LET p == obj[1] IN
  IF m.objs[p].count > 1
  THEN [m EXCEPT !.objs[p]  = Less(@, obj[2]),
                 !.partials = IF m.objs[p].count = Full THEN <<p>> \o @ ELSE @]
  ELSE [freePage(m, ObjectPage(p)) EXCEPT
              !.objs = Dropped(@, p), !.partials = Unlinked(@, p)]

(***************************************************************************)
(* Page directories and page tables.                                       *)
(***************************************************************************)
allocPdir2(m, sp, kip) ==
  LET d == DirectoryPage(sp)
      p == TablePage(d, kip[1])
  IN [allocPage1(allocPage1(m, d), p) EXCEPT
        !.pdir = With(@, d, [i \in Super |-> IF i = kip[1] THEN p ELSE None]),
        !.ptab = With(@, p, [n \in PageNo |-> IF n = kip[2] THEN Kip ELSE None])]

\* The page table for superpage i of directory d, allocated if need be.
WithTable(m, d, i) ==
  LET p == TablePage(d, i) IN
  IF m.pdir[d][i] # None THEN m
  ELSE [allocPage1(m, p) EXCEPT !.pdir[d][i] = p,
                                !.ptab = With(@, p, [n \in PageNo |-> None])]

PageAt(m, d, loc) == m.ptab[m.pdir[d][loc[1]]][loc[2]]

allocUtcbPage2(m, d, loc) ==
  LET w == WithTable(m, d, loc[1])
      u == UtcbPage(d, loc)
  IN IF PageAt(w, d, loc) # None THEN w
     ELSE [allocPage1(w, u) EXCEPT !.ptab[w.pdir[d][loc[1]]][loc[2]] = u]

\* A translation that the processor may have cached is not valid any more,
\* until cr3 is loaded again.
Changed(m, d) == [m EXCEPT !.stale = @ \/ m.cr3 = d]

\* The tables that a directory refers to, and the pages of utcbs in them.
TablesOf(m, d)  == Range(m.pdir[d]) \ {None}
UtcbPages(m, d) == (UNION {Range(m.ptab[p]) : p \in TablesOf(m, d)}) \ {None, Kip, User}

\* freePdir.
freePdir(m, d, utcb) ==
  LET here == {loc \in utcb : m.pdir[d][loc[1]] # None /\ PageAt(m, d, loc) \notin {None, Kip, User}}
      gone == {PageAt(m, d, loc) : loc \in here} \cup TablesOf(m, d) \cup {d}
  IN [Changed(m, d) EXCEPT
        !.used = @ \ gone,
        !.num  = @ + Cardinality(here) + Cardinality(TablesOf(m, d)) + 1,
        !.ptab = Restrict(@, DOMAIN @ \ TablesOf(m, d)),
        !.pdir = Dropped(@, d)]

mapFpage1(m, sp, loc) ==
  LET d == m.space[sp].pdir
      w == WithTable(m, d, loc[1])
      c == IF PageAt(w, d, loc) = None THEN w ELSE Changed(w, d)
  IN [c EXCEPT !.ptab[w.pdir[d][loc[1]]][loc[2]] = User, !.space[sp].loaded = FALSE]

\* The first superpage of an area.
FirstSuper(utcb) == CHOOSE i \in Super : (\E l \in utcb : l[1] = i) /\ \A l \in utcb : i <= l[1]

\* A slip: cr3 is not loaded again.
unmapFpageStale(m, sp, loc) ==
  LET d == m.space[sp].pdir
      p == m.pdir[d][loc[1]]
  IN IF p = None THEN m ELSE [Changed(m, d) EXCEPT !.ptab[p][loc[2]] = None]

\* unmapFpage, when the mapping is no longer in the memory map.
unmapFpage(m, sp, loc) ==
  LET d == m.space[sp].pdir
      i == loc[1]
      p == m.pdir[d][i]
      a == m.space[sp].area
      c == [Changed(m, d) EXCEPT !.space[sp].loaded = FALSE]
  IN IF p = None THEN c
     ELSE IF \/ \E o \in DOMAIN m.mapping : m.mapping[o].space = sp /\ m.mapping[o].loc[1] = i
             \/ a.kip[1] = i \/ FirstSuper(a.utcb) = i
          THEN [c EXCEPT !.ptab[p][loc[2]] = None]
          ELSE [freePage(c, p) EXCEPT !.ptab = Dropped(@, p),
                                      !.pdir[d][i] = None]

\* One round of flush.
flush(m, o) ==
  LET sp == m.mapping[o].space
      l  == m.mapping[o].loc
  IN freeObject(unmapFpage([m EXCEPT !.mapping = Dropped(@, o)], sp, l), o)

\* Flushing a list of mappings, one after the other.
flushAll(m, list) ==
  LET done[n \in 0..Len(list)] == IF n = 0 THEN m ELSE flush(done[n - 1], list[n])
  IN done[Len(list)]

\* addMapping1: a new object for a mapping (see MapDB for the trees).
addMapping1(m, sp, loc) ==
  [allocObject1(m) EXCEPT !.mapping = With(@, NewObj(m), [space |-> sp, loc |-> loc])]

Held(m, sp) == {o \in DOMAIN m.mapping : m.mapping[o].space = sp}

(***************************************************************************)
(* Spaces.                                                                 *)
(***************************************************************************)
NewSpace == [pdir |-> None, area |-> None, count |-> 0, active |-> 0, loaded |-> FALSE]

allocSpace1(m) == [allocObject1(m) EXCEPT !.space = With(@, NewObj(m), NewSpace)]

enterSpace(m, sp) == [m EXCEPT !.space[sp].count = @ + 1]

allocUtcb4(m, sp, loc) ==
  LET first == m.space[sp].active = 0
      w     == IF first THEN allocPdir2(m, sp, m.space[sp].area.kip) ELSE m
      d     == IF first THEN DirectoryPage(sp) ELSE m.space[sp].pdir
  IN allocUtcbPage2([w EXCEPT !.space[sp].active = @ + 1,
                              !.space[sp].pdir   = d,
                              !.space[sp].loaded = FALSE], d, loc)

UtcbAt(m, sp, loc)  == PageAt(m, m.space[sp].pdir, loc)
Present(m, sp, loc) == m.pdir[m.space[sp].pdir][loc[1]] # None /\ UtcbAt(m, sp, loc) # None

setPdir(m, sp) ==
  [m EXCEPT !.cr3 = m.space[sp].pdir, !.currentSpace = sp, !.stale = FALSE,
            !.space[sp].loaded = TRUE]

refreshSpace(m) == IF m.space[m.currentSpace].loaded THEN m ELSE setPdir(m, m.currentSpace)

switchSpace(m, sp) ==
  IF m.space[sp].pdir = None THEN m
  ELSE IF m.currentSpace # sp THEN setPdir(m, sp) ELSE refreshSpace(m)

\* The spaces that initSpaces allocates first.
sigma0Space == <<1, 1>>
rootSpace   == <<1, 2>>
privileged(sp) == sp \in {sigma0Space, rootSpace}

\* exitSpace; "list" is what is flushed when the last active thread exits.
exitSpace(m, sp, utcb, list) ==
  LET last == utcb # None /\ m.space[sp].active = 1
      f    == IF last THEN flushAll(m, list) ELSE m
      e    == [f EXCEPT !.space[sp].count  = @ - 1,
                        !.space[sp].active = IF utcb = None THEN @ ELSE @ - 1]
      d    == IF last THEN freePdir(e, e.space[sp].pdir, e.space[sp].area.utcb) ELSE e
  IN IF d.space[sp].count = 0 /\ ~privileged(sp)
     THEN freeObject([d EXCEPT !.space = Dropped(@, sp)], sp)
     ELSE d

(***************************************************************************)
(* The directory of TCBs.                                                  *)
(***************************************************************************)
TableFor(t) == t \div TableSize

allocTCB1(m, t, sp) ==
  LET i == TableFor(t)
      w == IF i \in DOMAIN m.table THEN m
           ELSE [allocPage1(m, TCBPage(i)) EXCEPT !.table = With(@, i, 0)]
  IN enterSpace([w EXCEPT !.table[i] = @ + 1], sp)

\* A slip: the directory still refers to a table that is freed.
leaveTableDangling(m, i) ==
  LET w == [m EXCEPT !.table[i] = @ - 1]
  IN IF w.table[i] # 0 THEN w ELSE freePage(w, TCBPage(i))

\* The second half of destroyTCB.
leaveTable(m, i) ==
  LET w == [m EXCEPT !.table[i] = @ - 1]
  IN IF w.table[i] # 0 THEN w
     ELSE [freePage(w, TCBPage(i)) EXCEPT !.table = Dropped(@, i)]

-----------------------------------------------------------------------------
(***************************************************************************)
(* The handlers.  They end with resume(), back to the current thread, or   *)
(* with reschedule().                                                      *)
(***************************************************************************)
Active == {t \in DOMAIN tcb : tcb[t].utcb # None}

\* reschedule, with memory m and TCBs T: a runnable thread, or the idle one,
\* whose space has no page directory.
RescheduleWith(m, T) ==
  \/ current' = Idle /\ mem' = m /\ tcb' = T
  \/ \E t \in DOMAIN T : /\ T[t].utcb # None
                         /\ current' = t
                         /\ mem' = switchSpace(m, T[t].space)
                         /\ tcb' = T

\* Interrupts, and system calls that need no memory.
Reschedule == RescheduleWith(mem, tcb)

MayControl == current # Idle /\ privileged(tcb[current].space)

\* createThread without a pager, in a new space or that of another thread.
CreateInactive(t, spaceTCB) ==
  LET fresh == spaceTCB = t
      m1    == IF fresh THEN allocSpace1(mem) ELSE mem
      sp    == IF fresh THEN NewObj(mem) ELSE tcb[spaceTCB].space
  IN
  /\ MayControl /\ t \notin DOMAIN tcb
  /\ fresh \/ spaceTCB \in DOMAIN tcb
  /\ availPages(6)
  /\ mem' = allocTCB1(m1, t, sp)
  /\ tcb' = With(tcb, t, [space |-> sp, utcb |-> None])
  /\ UNCHANGED current

\* createThread with a pager.
CreateActive(t, spaceTCB, loc) ==
  LET sp == tcb[spaceTCB].space
      m1 == allocUtcb4(allocTCB1(mem, t, sp), sp, loc)
  IN
  /\ MayControl /\ t \notin DOMAIN tcb /\ spaceTCB \in DOMAIN tcb
  /\ mem.space[sp].area # None /\ loc \in mem.space[sp].area.utcb
  /\ availPages(6)
  /\ mem' = refreshSpace(m1)
  /\ tcb' = With(tcb, t, [space |-> sp, utcb |-> UtcbAt(m1, sp, loc)])
  /\ UNCHANGED current

\* modifyThread that activates a thread.
ModifyThread(t, loc) ==
  LET sp == tcb[t].space
      m1 == allocUtcb4(mem, sp, loc)
  IN
  /\ MayControl /\ t \in DOMAIN tcb /\ tcb[t].utcb = None
  /\ mem.space[sp].area # None /\ loc \in mem.space[sp].area.utcb
  /\ availPages(4)
  /\ mem' = m1
  /\ tcb' = [tcb EXCEPT ![t].utcb = UtcbAt(m1, sp, loc)]
  /\ UNCHANGED current

\* deleteThread.  If it is the last active one of its space, its mappings go
\* with all that was derived from them.  A bound: sigma0 does not exit (the
\* mapping of all memory would be flushed, and with it the whole directory).
DeleteThread(t, derived) ==
  LET sp   == tcb[t].space
      gone == IF Held(mem, sp) = {} THEN {} ELSE Held(mem, sp) \cup derived
  IN
  /\ MayControl /\ t \in DOMAIN tcb
  /\ ~(sp = sigma0Space /\ tcb[t].utcb # None /\ mem.space[sp].active = 1)
  /\ \E list \in SetToSeqs(gone) :
       RescheduleWith(leaveTable(exitSpace(mem, sp, tcb[t].utcb, list), TableFor(t)),
                      Dropped(tcb, t))

\* spaceControl.  A space that once was active stays as it is.
SpaceControl(t, a) ==
  LET sp == tcb[t].space IN
  /\ MayControl /\ t \in DOMAIN tcb
  /\ mem.space[sp].pdir = None
  /\ mem' = [mem EXCEPT !.space[sp].area = a]
  /\ UNCHANGED <<tcb, current>>

\* transferTyped and map2: a thread of space sp receives a mapping at loc.
\* A mapping that is there already goes, with what was derived from it.
\* (map2 refuses what contains a whole area; see OverUtcbs.)
Transfer(t, loc, derived) ==
  LET sp   == tcb[t].space
      here == {o \in Held(mem, sp) : mem.mapping[o].loc = loc}
      gone == IF here = {} THEN {} ELSE here \cup derived
  IN
  /\ current # Idle /\ t \in Active /\ sp # sigma0Space
  /\ loc # mem.space[sp].area.kip /\ {loc} # mem.space[sp].area.utcb
  /\ availPages(2)
  /\ here # {} \/ Cardinality(DOMAIN mem.mapping) < MaxMappings
  /\ \E list \in SetToSeqs(gone) :
       RescheduleWith(mapFpage1(addMapping1(flushAll(mem, list), sp, loc), sp, loc), tcb)

\* sigma0map, on a page fault of sigma0: there is no mapping for it.
Sigma0Fault(loc) ==
  /\ current # Idle /\ tcb[current].space = sigma0Space
  /\ ~Present(mem, sigma0Space, loc)
  /\ availPages(1)
  /\ RescheduleWith(refreshSpace(mapFpage1(mem, sigma0Space, loc)), tcb)

-----------------------------------------------------------------------------
(***************************************************************************)
(* initSpaces and initTCBs: two privileged spaces with a thread each, and  *)
(* objects for the mapping of all memory and for the space of the          *)
(* interrupt threads.  Pages that are allocated here for good (for the     *)
(* idle thread, interrupts and the utcb pointer) are not in NumPages.      *)
(***************************************************************************)
NoEntries == [x \in {} |-> None]

Nothing ==
  [used |-> {}, num |-> NumPages, partials |-> << >>, objs |-> NoEntries,
   space |-> NoEntries, mapping |-> NoEntries, pdir |-> NoEntries, ptab |-> NoEntries,
   table |-> NoEntries,
   cr3 |-> None, currentSpace |-> None, stale |-> FALSE]

\* kernelThread5.
Booted(m, t, sp, loc) ==
  allocUtcb4(allocTCB1([m EXCEPT !.space[sp].area = PrivArea], t, sp), sp, loc)

PrivLoc == CHOOSE loc \in PrivArea.utcb : TRUE

AfterInitSpaces == allocObject1(allocSpace1(allocSpace1(Nothing)))

AfterThreads ==
  Booted(Booted(AfterInitSpaces, Sigma0Thread, sigma0Space, PrivLoc),
         RootThread, rootSpace, PrivLoc)

BootMemory == allocObject1(AfterThreads)

\* The mapping of all memory, and the space of the interrupt threads.
KernelObjs == {NewObj(allocSpace1(allocSpace1(Nothing))), NewObj(AfterThreads)}

Init ==
  LET m == BootMemory IN
  /\ mem = setPdir(m, sigma0Space)
  /\ tcb = [t \in {Sigma0Thread, RootThread} |->
             LET sp == IF t = Sigma0Thread THEN sigma0Space ELSE rootSpace
             IN  [space |-> sp, utcb |-> UtcbAt(m, sp, PrivLoc)]]
  /\ current = Sigma0Thread

Control(t) ==
  \/ \E u \in Thread : CreateInactive(t, u)
  \/ \E u \in Thread, loc \in Loc : CreateActive(t, u, loc)
  \/ \E loc \in Loc : ModifyThread(t, loc)
  \/ \E derived \in SUBSET DOMAIN mem.mapping : DeleteThread(t, derived)
  \/ \E a \in Areas : SpaceControl(t, a)

Next ==
  \/ Reschedule
  \/ \E t \in Thread : Control(t)
  \/ \E t \in Thread, loc \in Loc, derived \in SUBSET DOMAIN mem.mapping : Transfer(t, loc, derived)
  \/ \E loc \in Faults : Sigma0Fault(loc)

Spec == Init /\ [][Next]_vars

\* Memory is received at loc, a part of the utcb area of thread t, and takes
\* the place of the page that holds utcbs there, or that will: map2 only looks
\* for areas that the page received contains.
OverUtcbs(t, loc) ==
  /\ t \in DOMAIN tcb /\ mem.space[tcb[t].space].area # None
  /\ loc \in mem.space[tcb[t].space].area.utcb

\* All but that.
SparingNext ==
  \/ Reschedule
  \/ \E t \in Thread : Control(t)
  \/ \E t \in Thread, loc \in Loc, derived \in SUBSET DOMAIN mem.mapping :
       ~OverUtcbs(t, loc) /\ Transfer(t, loc, derived)
  \/ \E loc \in Faults : Sigma0Fault(loc)

SparingSpec == Init /\ [][SparingNext]_vars

-----------------------------------------------------------------------------
(***************************************************************************)
(* Properties.                                                             *)
(***************************************************************************)
\* Everything that refers to a page of kernel memory: from where, and to which.
Uses ==
  LET m == mem IN
  UNION {
    {<<"objects", k, ObjectPage(k)>> : k \in DOMAIN m.objs},
    {<<"tcbs", i, TCBPage(i)>>       : i \in DOMAIN m.table},
    {<<"directory", s, m.space[s].pdir>> : s \in {s \in DOMAIN m.space : m.space[s].active # 0}},
    {<<"table", x, m.pdir[x[1]][x[2]]>>  : x \in {x \in (DOMAIN m.pdir) \X Super : m.pdir[x[1]][x[2]] # None}},
    {<<"utcb", x, m.ptab[x[1]][x[2]]>>   : x \in {x \in (DOMAIN m.ptab) \X PageNo :
                                                    m.ptab[x[1]][x[2]] \notin {None, Kip, User}}}}

\* Every page of kernel memory is either free or in use, for one thing: none
\* is freed while it is still referred to, none is freed twice, and none
\* is lost, whatever threads and spaces come and go.  And no handler needs
\* more pages than it made sure of: the list never is empty when a page is
\* taken (memory.h, "xxxN").
PagesExact ==
  /\ mem.num >= 0
  /\ mem.num + Cardinality(mem.used) = NumPages
  /\ {u[3] : u \in Uses} = mem.used
  /\ Cardinality(Uses) = Cardinality(mem.used)

\* Objects are what was allocated: a page counts those in use, the others up
\* to the last are in its free list, once, and the partials are the pages
\* with room.  So no space and no mapping is handed out twice.
ObjectsExact ==
  LET used == DOMAIN mem.space \cup DOMAIN mem.mapping \cup KernelObjs
      listed == Range(mem.partials)
  IN
  /\ DOMAIN mem.space \cap DOMAIN mem.mapping = {}
  /\ \A o \in used : o[1] \in DOMAIN mem.objs
  /\ Len(mem.partials) = Cardinality(listed)
  /\ listed = {p \in DOMAIN mem.objs : mem.objs[p].count < Full}
  /\ \A p \in DOMAIN mem.objs :
       LET r == mem.objs[p]
           here == {o[2] : o \in {o \in used : o[1] = p}}
       IN /\ r.count = Cardinality(here) /\ r.last <= Full
          /\ here \cup Range(r.free) = 1..r.last
          /\ Len(r.free) = r.last - r.count

\* Counts are what they count: of threads in a space and in a page of TCBs,
\* and of active threads, whose utcbs are in pages of the directory of their own
\* space (a page stays when the threads with utcbs in it are gone, until the
\* directory goes).  Spaces without threads are gone, but for the privileged.
ThreadsCounted ==
  /\ \A s \in DOMAIN mem.space :
       LET in == {t \in DOMAIN tcb : tcb[t].space = s} IN
       /\ mem.space[s].count = Cardinality(in)
       /\ mem.space[s].active = Cardinality(in \cap Active)
       /\ in # {} \/ privileged(s)
       /\ mem.space[s].active # 0
            => {tcb[t].utcb : t \in in \cap Active} \subseteq UtcbPages(mem, mem.space[s].pdir)
  /\ DOMAIN mem.table = {TableFor(t) : t \in DOMAIN tcb}
  /\ \A i \in DOMAIN mem.table :
       mem.table[i] = Cardinality({t \in DOMAIN tcb : TableFor(t) = i})

\* The counters of the kernel's objects, spaces and pages of TCBs, on which it
\* decides what to free, count what there is.
CountsExact == ObjectsExact /\ ThreadsCounted

\* When a thread runs, the processor uses the directory of its space, and no
\* translation that has been removed or replaced since.  (Threads that are
\* activated add entries to the directory of the current one.)
SeesOwnSpace ==
  current # Idle =>
    LET s == tcb[current].space IN
    /\ mem.currentSpace = s
    /\ mem.cr3 = mem.space[s].pdir /\ mem.cr3 \in DOMAIN mem.pdir
    /\ ~mem.stale
=============================================================================
