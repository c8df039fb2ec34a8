------------------------------ MODULE MCMapDB -------------------------------
(* Instances of MapDB, with its history, for TLC. *)
EXTENDS MapGrants, TLC

CONSTANTS sigma0, root, task, n1, n2, n3, n4, n5, n6

OneRight  == {"w"}
TwoRights == {"r", "w"}
GiveAll   == {OneRight}
GiveSome  == {{"r"}, TwoRights}

\* Sixteen pages in superpages of four; user memory is 0 to 11, the kip area 7
\* and the utcb area 8 and 9: two pages, as in pingpong.cc.  Fpages are of a
\* page or a superpage, and bases such that they are clear of a part of the
\* utcb area (that is the matter of MCSpacesWide.cfg).
UtcbPages == fpage(8, 1)
Parts     == {fpage(0, 2), fpage(1, 0)}
Windows   == {CompleteFpage, fpage(0, 2)}

\* Eight pages in superpages of two; user memory is 0 to 5, the kip area 3
\* and the utcb area 5.
UtcbPage  == fpage(5, 0)
APage     == {fpage(0, 0)}
Whole     == {CompleteFpage}

Objects == Permutations({n2, n3, n4})
=============================================================================
