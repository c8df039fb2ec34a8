------------------------------ MODULE MimgFormat ------------------------------
(***************************************************************************)
(* The layout of a memory image (mimg.h, mimguser.h), shared by the program *)
(* that writes images and the loader that unpacks them.  The modelled       *)
(* machine has words of one cell: a byte, a character and a word occupy one *)
(* cell each, and a structure as many cells as it has words.  Addresses are *)
(* unsigned and wrap after MaxAddr, the 0xffffffff of this machine.         *)
(***************************************************************************)
EXTENDS Integers, Sequences

CONSTANT MaxAddr

ASSUME AddrAssumption == MaxAddr \in Nat \ {0}

Addr == 0 .. MaxAddr

\* Unsigned arithmetic.
Wrap(n) == n % (MaxAddr + 1)

NOENTRY == MaxAddr

\* Types of section.
ZERO     == 0
DATA     == 1
BOOTDATA == 2
RESERVED == 3

\* Sizes of the structures, in cells: magic, version and entry; first, last,
\* prev and type; four pointers; a count; bounds and entry of a header; bounds
\* of a range of the memory map.
MimgHeader    == 3
SectionHeader == 4
BootData      == 4
CountSize     == 1
HeaderSize    == 3
RangeSize     == 2

\* The cells that l headers take up, and the least a bootdata section needs.
HDRLEN(l)  == CountSize + HeaderSize * l
BOOTLEN(l) == BootData + HDRLEN(l) + CountSize + 2

(***************************************************************************)
(* Contents of a cell.  A cell that is not a word reads as one all the      *)
(* same: its value is then whatever the cell holds.                         *)
(***************************************************************************)
Word(n)     == <<"word", n, 0>>
Byte(f, i)  == <<"byte", f, i>>      \* byte i of file f
Char(s, i)  == <<"char", s, i>>      \* character i of string s
Magic       == <<"magic", 1, 0>>
Free        == <<"free", 1, 0>>      \* whatever was there before
NUL         == Word(0)

Value(cell) == cell[2]

\* Offsets of the fields of a section header.
FirstAt == 0
LastAt  == 1
PrevAt  == 2
TypeAt  == 3
=============================================================================
