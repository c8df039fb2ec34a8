------------------------------ MODULE MapGrants ------------------------------
(***************************************************************************)
(* The mapping database implements the grants of module Grants.  A flush   *)
(* revokes what it is about to remove in its first step.                   *)
(*                                                                         *)
(* A history variable, which nothing depends on, remembers what mapping    *)
(* each was really derived from; the code only has the levels.             *)
(***************************************************************************)
EXTENDS MapDB

VARIABLE origin

InitHistory == Init /\ origin = [n \in Node |-> Null]

NextHistory ==
  /\ Next
  /\ origin' = [n \in Node |-> CASE n \in Live' \ Live -> job.req.source
                                 [] n \in Live' \cap Live -> origin[n]
                                 [] OTHER -> Null]

SpecHistory == InitHistory /\ [][NextHistory]_<<vars, origin>>

\* Without the sends that free their source.
DownHistory == InitHistory /\ [][NextHistory /\ ~Upwards]_<<vars, origin>>

\* What a flush has still to remove.
Doomed ==
  IF job.do # "flush" THEN {}
  ELSE LET l == Along(Forward, job.m)
       IN {l[i] : i \in {i \in DOMAIN l : \A j \in 2..i : map[l[j]].level > job.l}}

CellsOf(n) == {map[n].space} \X Pages(map[n].vfp)

\* The page of mapping m that has the same frame as page p of n.
SourceCell(m, n, p) ==
  <<map[m].space, Start(map[m].vfp) + ((map[n].phys + (p - Start(map[n].vfp))) - map[m].phys)>>

GrantBy(n, x) ==
  [source |-> IF n = First THEN x ELSE SourceCell(origin[n], n, x[2]),
   perms  |-> map[n].perms]

GrantsOf(S) ==
  [x \in UNION {CellsOf(n) : n \in S} |-> GrantBy(CHOOSE n \in S : x \in CellsOf(n), x)]

Granted == GrantsOf(Live \ Doomed)

Memory == INSTANCE Grants WITH grant <- Granted

\* No access without a grant, and no grant that outlives the one it was
\* derived from, however the handlers split, trim and replace mappings.
ImplementsGrants == Memory!Spec
=============================================================================
