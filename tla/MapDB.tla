-------------------------------- MODULE MapDB --------------------------------
(***************************************************************************)
(* Address spaces of the pork kernel: the mapping database, the memory map *)
(* of each space and its page tables (pork/kernel/space.c).                *)
(*                                                                         *)
(* A thread gives others access to its memory by sending them mappings.    *)
(* Each mapping is a node of two structures: of a tree of all mappings,    *)
(* kept as a doubly linked list in depth-first order with the level of     *)
(* each node, where a mapping is below the one it was derived from; and of *)
(* the binary search tree of the mappings of its space.  A mapping that is *)
(* flushed takes everything derived from it along.                         *)
(*                                                                         *)
(* Addresses are page numbers.  Handlers run with interrupts disabled, and *)
(* the loops of map2, flush and exitSpace are steps here: "job" is what is *)
(* left of the handler, and no other starts before it is done.             *)
(*                                                                         *)
(* Following a null pointer, or using an object that was freed, has no     *)
(* defined outcome: such a step is not enabled, or leads to the job        *)
(* "crash".  The absence of deadlocks shows that, but for the steps called *)
(* Upwards, there is none.                                                 *)
(***************************************************************************)
EXTENDS Integers, Sequences, FiniteSets

CONSTANTS
  Space,        \* struct Space; those that exist
  Sigma0,       \* the space that all of memory belongs to
  Node,         \* the objects that are available for mappings
  Null,
  Bits,         \* the size of the complete address space, 32 - 12
  SuperBits,    \* the size of a superpage, 22 - 12
  KernelStart,  \* user mappings end below KERNEL_SPACE
  Kip,          \* the kipArea, one page, the same in each space
  Utcb,         \* the utcbArea, an fpage, the same in each space
  Perm,         \* the access rights
  Write,        \* the one that page tables know of
  Sends,        \* the fpages that threads send mappings of
  Bases,        \* the send bases they choose
  Gives,        \* the rights they give
  Accepts,      \* the acceptors of receivers
  Faults,       \* the pages that sigma0 touches
  MaxMappings   \* threads of a space hold at most so many mappings

Page  == 0..(2^Bits - 1)
Size  == 0..Bits
Super == 0..(2^(Bits - SuperBits) - 1)

\* An fpage: 2^size pages, aligned.
fpage(b, s) == [base |-> b, size |-> s]
Fpages == {f \in [base : Page, size : Size] : f.base % 2^f.size = 0}

Start(f)     == f.base
End(f)       == f.base + 2^f.size - 1
Pages(f)     == Start(f)..End(f)
CompleteFpage == fpage(0, Bits)
SuperOf(p)   == p \div 2^SuperBits
Supers(f)    == {SuperOf(p) : p \in Pages(f)}

\* trimFpage: the part of big that base selects, of the size of small.
Trim(big, b, small) ==
  fpage(big.base + (((b % 2^big.size) \div 2^small.size) * 2^small.size), small.size)

ASSUME MapDBAssumption ==
  /\ Sigma0 \in Space /\ IsFiniteSet(Node)
  /\ Null \notin Node \cup Space
  /\ Bits \in Nat /\ SuperBits \in 0..Bits /\ KernelStart \in Page
  /\ Kip \in Page /\ Utcb \in Fpages
  /\ Kip < KernelStart /\ End(Utcb) < KernelStart /\ Kip \notin Pages(Utcb)
  /\ Sends \subseteq Fpages /\ Accepts \subseteq Fpages /\ Bases \subseteq Page
  /\ Write \in Perm /\ Gives \subseteq SUBSET Perm /\ Faults \subseteq Page

\* What the powers are that occur: arithmetic, which the provers do not know.
ASSUME PowersAssumption ==
  2^0 = 1 /\ \A b \in 0..Bits - 1 : 2^(b + 1) = 2 * 2^b

VARIABLES
  map,    \* struct Mapping, without left and right
  tree,   \* [mem, left, right]: space->mem and the left and right links
  pt,     \* what the page tables of a space say of a page
  tabs,   \* the superpages for which a space has a page table
  active, \* space->active # 0
  job     \* what the current handler has still to do

vars == <<map, tree, pt, tabs, active, job>>

Mappings == [space : Space \cup {Null}, next : Node \cup {Null},
             prev : Node \cup {Null}, level : Nat, vfp : Fpages,
             perms : SUBSET Perm, phys : Page]

\* An object that is free.
Unused == [space |-> Null, next |-> Null, prev |-> Null, level |-> 0,
           vfp |-> CompleteFpage, perms |-> {}, phys |-> 0]

Live == {n \in Node : map[n] # Unused}

\* The mappings from n on, where each leads to the next.
Along(link, n) ==
  LET nth[k \in 1..Cardinality(Node)] == IF k = 1 THEN n ELSE link[nth[k - 1]]
      length == Cardinality({k \in 1..Cardinality(Node) : nth[k] # Null})
  IN [k \in 1..length |-> nth[k]]

Forward  == [n \in Node \cup {Null} |-> IF n = Null THEN Null ELSE map[n].next]
Backward == [n \in Node \cup {Null} |-> IF n = Null THEN Null ELSE map[n].prev]

\* The first mapping of list l at one of the given levels.
FirstAt(l, levels) ==
  LET hits == {i \in DOMAIN l : map[l[i]].level \in levels}
  IN IF hits = {} THEN Null ELSE l[CHOOSE i \in hits : \A j \in hits : i <= j]

\* Page table entries.  The kip and the utcbs are in memory of the kernel,
\* which is not part of any mapping here: they get numbers beyond Page.
NoFrame   == 2^Bits
KipFrame  == 2^Bits + 1
UtcbFrame == 2^Bits + 2

Entry(f, ps) == [frame |-> f, write |-> Write \in ps]
NoEntry      == Entry(NoFrame, {})
KipEntry     == Entry(KipFrame, {})
UtcbEntry    == Entry(UtcbFrame, Perm)

(***************************************************************************)
(* The binary search trees.                                                *)
(***************************************************************************)
\* From each node to the left if it is in S, and to the right if not.
Down(t, S) ==
  [n \in Node \cup {Null} |->
     IF n = Null THEN Null ELSE IF n \in S THEN t.left[n] ELSE t.right[n]]

Descent(t, m, S) == Along(Down(t, S), m)

\* The last mapping of list l that is not in S.
LastBut(l, S) ==
  LET hits == {i \in DOMAIN l : l[i] \notin S}
  IN IF hits = {} THEN Null ELSE l[CHOOSE i \in hits : \A j \in hits : j <= i]

\* findMapping: the rightmost mapping that starts no later than f ends, if
\* it intersects f.
findMapping(t, sp, f) ==
  LET after == {n \in Node : End(f) < Start(map[n].vfp)}
      cand  == LastBut(Descent(t, t.mem[sp], after), after)
  IN IF cand # Null /\ Start(f) <= End(map[cand].vfp) THEN cand ELSE Null

\* A place that holds a pointer: space->mem, or m->left or m->right.
At(t, where) ==
  CASE where[1] = "mem" -> t.mem[where[2]]
    [] where[1] = "left" -> t.left[where[2]]
    [] OTHER -> t.right[where[2]]

Put(t, where, v) ==
  CASE where[1] = "mem" -> [t EXCEPT !.mem[where[2]] = v]
    [] where[1] = "left" -> [t EXCEPT !.left[where[2]] = v]
    [] OTHER -> [t EXCEPT !.right[where[2]] = v]

\* The place at which a search for address b in the tree of sp gets to n, or
\* to a null pointer.
Place(t, sp, b, n) ==
  LET before == {m \in Node : b < Start(map[m].vfp)}
      way == Descent([t EXCEPT !.left[n] = Null, !.right[n] = Null], t.mem[sp], before)
      m   == LastBut(way, {n})
  IN IF m = Null THEN <<"mem", sp>> ELSE IF m \in before THEN <<"left", m>> ELSE <<"right", m>>

\* The place of the leftmost mapping on the right of n.
Leftmost(t, n) ==
  LET way == Descent(t, t.right[n], Node)
      m   == LastBut(way, {LastBut(way, {})})
  IN IF m = Null THEN <<"right", n>> ELSE <<"left", m>>

\* addMapping1: the tree with a new leaf n for fpage f.
addMapping(t, sp, f, n) ==
  LET u == Put(t, Place(t, sp, Start(f), n), n)
  IN [u EXCEPT !.left[n] = Null, !.right[n] = Null]

\* A slip: the mappings on the left of n are forgotten.
removeLeft(t, n) ==
  Put(t, Place(t, map[n].space, Start(map[n].vfp), n), t.right[n])

\* removeMapping(n).
InTree(t, n) == At(t, Place(t, map[n].space, Start(map[n].vfp), n)) = n

removeMapping(t, n) ==
  LET pn == Place(t, map[n].space, Start(map[n].vfp), n)
      pm == Leftmost(t, n)
      m  == At(t, pm)
      u  == Put(Put(t, pm, t.right[m]), pn, m)
  IN IF t.left[n] = Null THEN Put(t, pn, t.right[n])
     ELSE IF t.right[n] = Null THEN Put(t, pn, t.left[n])
     ELSE [u EXCEPT !.left[m] = t.left[n]]

(***************************************************************************)
(* Page directories and page tables.                                       *)
(***************************************************************************)
\* mapFpage1: superpages replace page tables, and a page table replaces a
\* superpage.
mapFpage(sp, f, phys, ps) ==
  /\ pt' = [pt EXCEPT ![sp] =
              [p \in Page |->
                 CASE p \in Pages(f) -> Entry(phys + (p - Start(f)), ps)
                   [] /\ p \notin Pages(f) /\ f.size < SuperBits
                      /\ SuperOf(p) \in Supers(f) \ tabs[sp] -> NoEntry
                   [] OTHER -> @[p]]]
  /\ tabs' = [tabs EXCEPT ![sp] = IF f.size >= SuperBits THEN @ \ Supers(f)
                                                        ELSE @ \cup Supers(f)]

\* A slip: the page table goes in any case.
unmapFpageTable(t, sp, f) ==
  /\ pt' = [pt EXCEPT ![sp] =
              [p \in Page |-> IF SuperOf(p) \in Supers(f) THEN NoEntry ELSE @[p]]]
  /\ tabs' = [tabs EXCEPT ![sp] = @ \ Supers(f)]

\* unmapFpage, with the tree t that is left: the page table goes when there
\* are no other mappings within the superpage.
unmapFpage(t, sp, f) ==
  LET i     == SuperOf(Start(f))
      super == fpage(i * 2^SuperBits, SuperBits)
      last  == /\ findMapping(t, sp, super) = Null
               /\ SuperOf(Kip) # i /\ SuperOf(Start(Utcb)) # i
      gone  == IF f.size < SuperBits
               THEN IF i \notin tabs[sp] THEN {}
                    ELSE IF last THEN Pages(super) ELSE Pages(f)
               ELSE Pages(f)
  IN /\ pt' = [pt EXCEPT ![sp] = [p \in Page |-> IF p \in gone THEN NoEntry ELSE @[p]]]
     /\ tabs' = [tabs EXCEPT ![sp] = IF f.size >= SuperBits THEN @ \ Supers(f)
                                     ELSE IF last THEN @ \ {i} ELSE @]

-----------------------------------------------------------------------------
(***************************************************************************)
(* What a handler has still to do.  "then" is what follows a flush: look   *)
(* for more to clear, add the mapping, or go on with exitSpace.            *)
(***************************************************************************)
NoJob == [do |-> "nothing"]
Crash == [do |-> "crash"]
Done  == job' = NoJob

\* For map2: the mapping s that is sent, and where to.
Request == [source : Node, space : Space, vfp : Fpages, perms : SUBSET Perm, phys : Page]

ToAdd(q) == [do |-> "add", req |-> q]

\* flush(t), with the values that it saves first.
ToFlush(t, then, q) ==
  [do |-> "flush", m |-> t, p |-> map[t].prev, l |-> map[t].level,
   then |-> then, req |-> q]

ToExit(sp)    == [do |-> "exit", space |-> sp]
ToRotate(sp, m) == [do |-> "rotate", space |-> sp, m |-> m]

Held(sp) == {n \in Live : map[n].space = sp}

(***************************************************************************)
(* map2.                                                                   *)
(***************************************************************************)
\* The mapping that is asked for: the send and receive fpages trimmed to the
\* same size, and the rights that the sender has and gives.
Requested(s, sfp, gives, b, rs, acc) ==
  LET sendfp == IF sfp.size > acc.size THEN Trim(sfp, b, acc) ELSE sfp
      recvfp == IF sfp.size < acc.size THEN Trim(acc, b, sfp) ELSE acc
  IN [source |-> s, space |-> rs, vfp |-> recvfp,
      perms |-> gives \cap map[s].perms,
      phys |-> (map[s].phys + Start(sendfp) - Start(map[s].vfp)) % 2^Bits]

Backed(s, size) == s # Null /\ map[s].vfp.size >= size

\* The receive fpage has to leave the kernel, kip and utcb areas alone.
Intact(f) ==
  /\ End(f) < KernelStart
  /\ ~(Start(f) <= Start(Utcb) /\ End(Utcb) <= End(f))
  /\ ~(Start(f) <= Kip /\ Kip <= End(f))

\* The mapping t that is in the way would be replaced by one that is derived
\* from a mapping s which is farther from the root.
Upward(t, s) == map[t].vfp.size >= map[s].vfp.size /\ map[s].level > map[t].level

\* s was derived from t.
Derives(t, s) ==
  LET l == Along(Forward, t)
  IN \E i \in DOMAIN l : l[i] = s /\ \A j \in 2..i : map[l[j]].level > map[t].level

\* In that case nothing should be done.  But the loop that looks for s stops
\* at the first mapping whose level is not below that of t, which comes
\* first if anything is derived from t: so it never finds s, and runs off
\* the end of the list if there is no such mapping.
RunsOff(t, s) ==
  LET l == Along(Forward, Forward[t])
  IN Upward(t, s) /\ \A i \in DOMAIN l : map[l[i]].level < map[t].level

Map(ss, sfp, gives, b, rs, acc) ==
  LET sendfp == IF sfp.size > acc.size THEN Trim(sfp, b, acc) ELSE sfp
      s == findMapping(tree, ss, sendfp)
      q == Requested(s, sfp, gives, b, rs, acc)
      t == findMapping(tree, rs, q.vfp)
  IN
  /\ job = NoJob /\ active[ss] /\ active[rs] /\ ss # rs
  /\ Backed(s, sendfp.size)
  /\ q.perms # {}
  /\ Intact(q.vfp)
  /\ Live # Node
  /\ \/ /\ t = Null
        /\ Cardinality(Held(rs)) < MaxMappings
        /\ job' = ToAdd(q)
     \/ /\ t # Null
        /\ map[t].vfp.size < q.vfp.size
        /\ job' = ToFlush(t, "look", q)
     \/ /\ t # Null
        /\ map[t].vfp.size >= q.vfp.size
        /\ job' = IF RunsOff(t, s) THEN Crash ELSE ToFlush(t, "add", q)
  /\ UNCHANGED <<map, tree, pt, tabs, active>>

(***************************************************************************)
(* flush: one mapping at a time, as long as the levels say that it was     *)
(* derived from the first.  Then the list is closed.                       *)
(***************************************************************************)
\* A slip: the list is closed in one direction only.
RelinkedNext(p, m) ==
  [n \in Node |-> [map[n] EXCEPT !.next = IF n = p THEN m ELSE @]]

Relinked(p, m) ==
  [n \in Node |-> [map[n] EXCEPT !.next  = IF n = p THEN m ELSE @,
                                 !.prev  = IF n = m THEN p ELSE @]]

\* A slip: by one level, so that what was derived directly is spared.
MoreBelow(next) == next # Null /\ map[next].level > job.l + 1

More(next) == next # Null /\ map[next].level > job.l

\* A slip: the objects are not freed.
FlushLeak ==
  LET m    == job.m
      next == map[m].next
      t    == removeMapping(tree, m)
  IN
  /\ job.do = "flush"
  /\ InTree(tree, m)
  /\ tree' = [t EXCEPT !.left[m] = Null, !.right[m] = Null]
  /\ unmapFpage(t, map[m].space, map[m].vfp)
  /\ IF More(next)
     THEN map' = map /\ job' = [job EXCEPT !.m = next]
     ELSE /\ map' = Relinked(job.p, next)
          /\ job' = CASE job.then = "look" -> [do |-> "look", req |-> job.req]
                      [] job.then = "add"  -> ToAdd(job.req)
                      [] OTHER             -> ToExit(job.req.space)
  /\ UNCHANGED active

Flush ==
  LET m    == job.m
      next == map[m].next
      t    == removeMapping(tree, m)
  IN
  /\ job.do = "flush"
  /\ InTree(tree, m)
  /\ tree' = [t EXCEPT !.left[m] = Null, !.right[m] = Null]
  /\ unmapFpage(t, map[m].space, map[m].vfp)
  /\ IF More(next)
     THEN map' = [map EXCEPT ![m] = Unused] /\ job' = [job EXCEPT !.m = next]
     ELSE /\ map' = [Relinked(job.p, next) EXCEPT ![m] = Unused]
          /\ job' = CASE job.then = "look" -> [do |-> "look", req |-> job.req]
                      [] job.then = "add"  -> ToAdd(job.req)
                      [] OTHER             -> ToExit(job.req.space)
  /\ UNCHANGED active

\* Is there more in the way?
Look ==
  LET t == findMapping(tree, job.req.space, job.req.vfp) IN
  /\ job.do = "look"
  /\ job' = IF t = Null THEN ToAdd(job.req) ELSE ToFlush(t, "look", job.req)
  /\ UNCHANGED <<map, tree, pt, tabs, active>>

(***************************************************************************)
(* The end of map2.                                                        *)
(***************************************************************************)
Add(t) ==
  LET q == job.req
      s == q.source
      n == map[s].next
      new == [space |-> q.space, next |-> n, prev |-> s, level |-> map[s].level + 1,
              vfp |-> q.vfp, perms |-> q.perms, phys |-> q.phys]
  IN
  /\ job.do = "add"
  /\ s \in Live /\ t \notin Live
  /\ tree' = addMapping(tree, q.space, q.vfp, t)
  /\ map' = [k \in Node |-> CASE k = t -> new
                             [] k = s -> [map[k] EXCEPT !.next = t]
                             [] k = n -> [map[k] EXCEPT !.prev = t]
                             [] OTHER -> map[k]]
  /\ mapFpage(q.space, q.vfp, q.phys, q.perms)
  /\ Done
  /\ UNCHANGED active

(***************************************************************************)
(* exitSpace for the last active thread of a space: flush its mappings,    *)
(* the leftmost first, after rotations that make it the root.              *)
(***************************************************************************)
Exit(sp) ==
  /\ job = NoJob /\ active[sp]
  /\ job' = ToExit(sp)
  /\ UNCHANGED <<map, tree, pt, tabs, active>>

ExitNext ==
  /\ job.do = "exit"
  /\ tree.mem[job.space] # Null
  /\ job' = ToRotate(job.space, tree.mem[job.space])
  /\ UNCHANGED <<map, tree, pt, tabs, active>>

Rotate ==
  LET m == job.m
      l == tree.left[m]
  IN
  /\ job.do = "rotate"
  /\ IF l # Null
     THEN /\ tree' = [tree EXCEPT !.left[m] = tree.right[l], !.right[l] = m]
          /\ job' = [job EXCEPT !.m = l]
     ELSE /\ tree' = [tree EXCEPT !.mem[job.space] = m]
          /\ job' = ToFlush(m, "exit", [space |-> job.space])
  /\ UNCHANGED <<map, pt, tabs, active>>

\* freePdir.
ExitLast ==
  /\ job.do = "exit"
  /\ tree.mem[job.space] = Null
  /\ active' = [active EXCEPT ![job.space] = FALSE]
  /\ pt' = [pt EXCEPT ![job.space] = [p \in Page |-> NoEntry]]
  /\ tabs' = [tabs EXCEPT ![job.space] = {}]
  /\ Done
  /\ UNCHANGED <<map, tree>>

(***************************************************************************)
(* allocUtcb4 for the first active thread of a space, with allocPdir2: the *)
(* kip and one utcb are mapped.                                            *)
(***************************************************************************)
Fresh == [p \in Page |-> CASE p = Kip         -> KipEntry
                           [] p = Start(Utcb) -> UtcbEntry
                           [] OTHER           -> NoEntry]

FreshTabs == {SuperOf(Kip), SuperOf(Start(Utcb))}

Activate(sp) ==
  /\ job = NoJob /\ ~active[sp]
  /\ active' = [active EXCEPT ![sp] = TRUE]
  /\ pt' = [pt EXCEPT ![sp] = Fresh]
  /\ tabs' = [tabs EXCEPT ![sp] = FreshTabs]
  /\ UNCHANGED <<map, tree, job>>

\* sigma0map: page faults of sigma0 are served by the kernel.
Sigma0Fault(p) ==
  /\ job = NoJob
  /\ p < KernelStart /\ pt[Sigma0][p] = NoEntry
  /\ mapFpage(Sigma0, fpage(p, 0), p, Perm)
  /\ UNCHANGED <<map, tree, active, job>>

-----------------------------------------------------------------------------
\* initSpaces: sigma0 has all of memory, and the level of that is 1.
CONSTANT First
ASSUME FirstAssumption == First \in Node

Init ==
  /\ map = [n \in Node |-> IF n = First
                           THEN [Unused EXCEPT !.space = Sigma0, !.level = 1, !.perms = Perm]
                           ELSE Unused]
  /\ tree = [mem   |-> [sp \in Space |-> IF sp = Sigma0 THEN First ELSE Null],
             left  |-> [n \in Node |-> Null],
             right |-> [n \in Node |-> Null]]
  /\ active = [sp \in Space |-> sp = Sigma0]
  /\ pt = [sp \in Space |-> IF sp = Sigma0 THEN Fresh ELSE [p \in Page |-> NoEntry]]
  /\ tabs = [sp \in Space |-> IF sp = Sigma0 THEN FreshTabs ELSE {}]
  /\ job = NoJob

Handlers ==
  \/ \E ss, rs \in Space, sfp \in Sends, gives \in Gives, b \in Bases, acc \in Accepts :
       Map(ss, sfp, gives, b, rs, acc)
  \/ \E sp \in Space \ {Sigma0} : Activate(sp) \/ Exit(sp)
  \/ \E p \in Faults : Sigma0Fault(p)

Steps == Flush \/ Look \/ (\E t \in Node : Add(t)) \/ ExitNext \/ Rotate \/ ExitLast

Next == Handlers \/ Steps

Spec == Init /\ [][Next]_vars

(***************************************************************************)
(* The step that map2 gets wrong: a mapping is to be replaced by one that  *)
(* is derived from what was itself derived from it.  Instead of ignoring   *)
(* the send, map2 flushes the source and then goes on with it, or runs off *)
(* the end of the list in search of it.                                    *)
(*                                                                         *)
(* Spec takes such steps, and MCMapDBUpwards.cfg shows what comes of them. *)
(* DownSpec is every behaviour of Spec without them.                       *)
(***************************************************************************)
Upwards ==
  \/ job' = Crash
  \/ /\ job = NoJob /\ job'.do = "flush"
     /\ job'.then = "add"
     /\ Upward(job'.m, job'.req.source) /\ Derives(job'.m, job'.req.source)

DownNext == Next /\ ~Upwards

DownSpec == Init /\ [][DownNext]_vars

-----------------------------------------------------------------------------
(***************************************************************************)
(* Properties.                                                             *)
(***************************************************************************)
TypeOK ==
  /\ map \in [Node -> Mappings]
  /\ tree \in [mem : [Space -> Node \cup {Null}], left : [Node -> Node \cup {Null}],
               right : [Node -> Node \cup {Null}]]
  /\ pt \in [Space -> [Page -> [frame : 0..UtcbFrame, write : BOOLEAN]]]
  /\ tabs \in [Space -> SUBSET Super]
  /\ active \in [Space -> BOOLEAN]
  /\ job.do \in {"nothing", "crash", "add", "flush", "look", "exit", "rotate"}

\* The list that starts with First, in order.
DBList == Along(Forward, First)

\* Between handlers, the mapping database is one tree, in depth-first order:
\* the list that starts with the mapping of all memory has every mapping,
\* once, links back, and no level skips one.
DepthFirst ==
  job = NoJob =>
    LET l == DBList IN
    /\ Len(l) = Cardinality(Live)
    /\ {l[i] : i \in DOMAIN l} = Live
    /\ map[l[Len(l)]].next = Null /\ map[First].prev = Null
    /\ \A i \in 2..Len(l) : /\ map[l[i]].prev = l[i - 1]
                            /\ map[l[i]].level \in 2..(map[l[i - 1]].level + 1)

\* What n was derived from: the last mapping before it of the level below.
Parent(n) == FirstAt(Along(Backward, n), 0..(map[n].level - 1))

Frames(n) == {map[n].phys + i : i \in 0..(2^map[n].vfp.size - 1)}

\* Nobody has more than was given, however mappings are split, remapped and
\* flushed: a mapping other than the first refers to memory of the mapping
\* that it was derived from, in another space, with rights that that has.
Confined ==
  job = NoJob =>
    \A n \in Live \ {First} :
      LET m == Parent(n) IN
      /\ m \in Live /\ map[m].level = map[n].level - 1
      /\ map[m].space # map[n].space
      /\ Frames(n) \subseteq Frames(m)
      /\ map[n].perms # {} /\ map[n].perms \subseteq map[m].perms

\* However much map2 flushes to make room, it keeps its source until the new
\* mapping is derived from it, and the search for the source among what is
\* to be replaced ends within the list (comment at space.c:748).
SourceKept ==
  /\ job # Crash
  /\ job.do = "add" => job.req.source \in Live

\* What the code maintains of the mapping database: between handlers, who
\* derived what from what, and that nobody has more than was given; within
\* map2, that what is about to be derived has its source.
DerivationsSound == DepthFirst /\ Confined /\ SourceKept

\* The mappings below m in a search tree, with m.
Below(m) ==
  LET walk[k \in 0..Cardinality(Node)] ==
        IF k = 0 THEN {m} \ {Null}
        ELSE LET w == walk[k - 1]
             IN w \cup (UNION {{tree.left[x], tree.right[x]} : x \in w} \ {Null})
  IN walk[Cardinality(Node)]

\* The memory map of each space is a search tree of exactly its mappings,
\* and these are disjoint (space.c, "Mapping database structures").
TreesExact ==
  job = NoJob =>
    \A sp \in Space :
      /\ Below(tree.mem[sp]) = Held(sp)
      /\ \A n \in Held(sp) :
           /\ \A m \in Below(tree.left[n])  : End(map[m].vfp) < Start(map[n].vfp)
           /\ \A m \in Below(tree.right[n]) : End(map[n].vfp) < Start(map[m].vfp)

\* What the page tables of a space should say.
Expected(sp) ==
  [p \in Page |->
     IF \E n \in Held(sp) : p \in Pages(map[n].vfp)
     THEN LET n == CHOOSE n \in Held(sp) : p \in Pages(map[n].vfp)
          IN Entry(map[n].phys + (p - Start(map[n].vfp)), map[n].perms)
     ELSE IF active[sp] THEN Fresh[p] ELSE NoEntry]

\* The page tables give each space exactly its mappings, its kip and its
\* utcb: nothing that was flushed is still accessible, and nothing that was
\* mapped got lost with a page table or under a superpage.
TablesExact ==
  job = NoJob => \A sp \in Space \ {Sigma0} : pt[sp] = Expected(sp)

\* How far a handler is from its end while it frees nothing: exitSpace walks
\* down the left links, and what is found is flushed before the next search.
LeftSpine(m) == Len(Along([n \in Node \cup {Null} |-> IF n = Null THEN Null ELSE tree.left[n]], m))

StepsLeft ==
  CASE job.do = "exit"   -> Cardinality(Node) + 3
    [] job.do = "rotate" -> LeftSpine(job.m) + 2
    [] job.do = "look"   -> 2
    [] job.do = "flush"  -> 1
    [] OTHER             -> 0

\* Every step of a handler ends it, or frees a mapping, or brings it closer
\* to the next one that it frees: so flushes of flushes, searches that start
\* again and rotations all come to an end.
HandlersEnd ==
  [][job # NoJob =>
       \/ job' = NoJob
       \/ Cardinality(Live') < Cardinality(Live)
       \/ Live' = Live /\ StepsLeft' < StepsLeft]_vars
=============================================================================
