------------------------------- MODULE Grants --------------------------------
(***************************************************************************)
(* What the kernel promises about memory, page by page and without trees:  *)
(* a page of a space is accessible only because its owner was granted it   *)
(* by the owner of another page, with some of the rights that the latter   *)
(* has; and a grant is revoked with everything that was derived from it,   *)
(* at once.  Module MapGrants shows that the mapping database implements   *)
(* this.                                                                   *)
(***************************************************************************)
EXTENDS Integers

CONSTANTS Space, Sigma0, Page, Perm

Cell == Space \X Page

VARIABLE grant   \* from the cells that are accessible to [source, perms]

vars == grant

\* Sigma0 has all of memory, from itself.
Init == grant = [x \in {Sigma0} \X Page |-> [source |-> x, perms |-> Perm]]

\* In a step the grants change from old to all: pages of space sp are
\* granted with those of space src, in the same order; the rest stays.
Give(sp, src, old, all) ==
  LET new == DOMAIN all \ DOMAIN old IN
  /\ new # {} /\ new \subseteq {sp} \X Page
  /\ \A x \in DOMAIN old : x \in DOMAIN all /\ all[x] = old[x]
  /\ \A x \in new : /\ all[x].source \in DOMAIN old
                    /\ all[x].source[1] = src
                    /\ all[x].perms # {}
                    /\ all[x].perms \subseteq old[all[x].source].perms
  /\ \A x, y \in new : all[x].source[2] - x[2] = all[y].source[2] - y[2]

\* Grants to space sp are revoked, and what was derived from them, directly
\* or not: outside of sp, a grant goes exactly if its source goes.
Revoke(sp, old, left) ==
  LET gone == DOMAIN old \ DOMAIN left IN
  /\ gone # {}
  /\ DOMAIN left \subseteq DOMAIN old
  /\ \A x \in DOMAIN left : left[x] = old[x] /\ left[x].source \notin gone
  /\ \A x \in gone : x[1] = sp \/ (old[x].source \in gone /\ old[x].source # x)

Step(old, new) ==
  \E sp \in Space : \/ Revoke(sp, old, new)
                    \/ \E src \in Space \ {sp} : Give(sp, src, old, new)

Next == \E old \in {grant}, new \in {grant'} : Step(old, new)

Spec == Init /\ [][Next]_vars
=============================================================================
