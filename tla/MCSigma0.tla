------------------------------- MODULE MCSigma0 -------------------------------
EXTENDS Sigma0

D(low, high, type) == [low |-> low, high |-> high, type |-> type, virtual |-> FALSE]
Area(low, high) == [low |-> low, high |-> high]

\* In the order in which a kernel writes them: all memory, the holes, memory,
\* what was loaded, what the kernel keeps.  Then one without order or rounding.
MCKIPs ==
    {[mem |-> <<[low |-> 0, high |-> 11, type |-> "conventional", virtual |-> TRUE],
                D(0, 15, "shared"), D(0, 13, "conventional"), D(0, 3, "bootloader"),
                D(12, 13, "reserved")>>,
      servers |-> <<Area(0, 0), Area(0, 1), Area(0, 0), Area(2, 3)>>],
     [mem |-> <<D(11, 12, "conventional"), D(5, 5, "dedicated"), D(14, 15, "undefined")>>,
      servers |-> <<Area(0, 0), Area(2, 3), Area(0, 0), Area(0, 1)>>]}

=============================================================================
