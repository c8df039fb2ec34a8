------------------------------- MODULE MCSpaces -------------------------------
(***************************************************************************)
(* Instances of Spaces: superpages and pages in them are 0 and 1.          *)
(***************************************************************************)
EXTENDS Spaces

At(i, n) == <<i, n>>
MCPriv  == [kip |-> At(0, 0), utcb |-> {At(0, 1)}]

\* Utcb areas of one page, next to the kip or in another superpage, and of two
\* pages, as pingpong has them.
MCAreas == {MCPriv, [kip |-> At(0, 0), utcb |-> {At(1, 1)}],
            [kip |-> At(0, 0), utcb |-> {At(1, 0), At(1, 1)}]}

SigmaFaults == {At(1, 0)}
=============================================================================
