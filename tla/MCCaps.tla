------------------------------- MODULE MCCaps -------------------------------
(* Instances of Caps: pages of two units, words of 7 bits. *)
EXTENDS Caps

\* The headers: boot data, kernel, and user code of one page.
Hdrs(user) == <<Span(2, 2), Span(4, 6), Span(user, user + 1)>>

\* The loader accepts an image only if every section is in the memory map.
Loadable(b) ==
  \A k \in DOMAIN b.hdrs : \E r \in DOMAIN b.mmap :
    b.mmap[r].lo <= b.hdrs[k].lo /\ b.hdrs[k].hi <= b.mmap[r].hi

\* Memory maps that are too small for two processes, with every way in which
\* two more regions and the code can lie.
Bounds == {1, 4, 10, 11, 14, 17, 20}
Ranges == {Span(a, b) : <<a, b>> \in {r \in Bounds \X Bounds : r[1] <= r[2]}}
Low    == Span(0, 9)
Small  == [mmap : {<<Low, r, s>> : r, s \in Ranges}, hdrs : {Hdrs(8), Hdrs(14)}]

\* More regions than intervals, and just as many, one of which is split.
Gaps(n) == <<Low>> \o [k \in 1..n |-> Span(16 * k, 16 * k + 5)]
Many == {[mmap |-> Gaps(5), hdrs |-> Hdrs(8)],
         [mmap |-> Gaps(3), hdrs |-> Hdrs(18)]}

\* Memory for two processes: with large blocks, all of which are used or given
\* away, and with more blocks than the table holds, so that the kernel keeps some.
Large == {[mmap |-> <<Span(1, 63)>>, hdrs |-> Hdrs(8)],
          [mmap |-> <<Span(1, 63), Span(66, 73)>>, hdrs |-> Hdrs(8)],
          [mmap |-> <<Span(80, 94), Span(1, 59)>>, hdrs |-> Hdrs(8)]}

MCBoots == {b \in Small \cup Many \cup Large : Loadable(b)}

\* No header is empty, as UntypedExactTheorem has it.
ASSUME WholeHeaders == \A b \in MCBoots : \A k \in DOMAIN b.hdrs : b.hdrs[k].lo <= b.hdrs[k].hi
=============================================================================
