------------------------------- MODULE MimgBoot -------------------------------
(***************************************************************************)
(* From the arguments of mimgmake to the jump into the loaded program: the  *)
(* maker writes an image, a multiboot loader (not part of the repository)   *)
(* puts the file somewhere in memory and starts mimgload.  The program that  *)
(* it loads is the pork kernel, which first takes memory for itself.        *)
(***************************************************************************)
EXTENDS MimgMake, MimgLoad, BootMemory

CONSTANTS
    Homes,  \* where the multiboot loader may put the image
    MBIs    \* the multiboot information it may pass

ASSUME BootAssumption == Homes \subseteq Addr \ {0}

vars == <<makeVars, loadVars, memVars>>

Strings == CmdAt .. CmdAt + StrLen \cup ImgAt .. ImgAt + StrLen
LoaderRange == Loader[1] .. Loader[2] - 1
ImageRange(at) == at .. at + Len(out) - 1

StringCell(s, i) == IF i = StrLen THEN NUL ELSE Char(s, i + 1)

\* Memory as the multiboot loader leaves it.
PlacedAt(at) ==
    [a \in Addr |->
        CASE a \in ImageRange(at)            -> out[a - at + 1]
          [] a \in CmdAt .. CmdAt + StrLen   -> StringCell(1, a - CmdAt)
          [] a \in ImgAt .. ImgAt + StrLen   -> StringCell(2, a - ImgAt)
          [] OTHER                           -> Free]

Init ==
    /\ MakeInit /\ MemoryInit
    /\ mem = [a \in Addr |-> Free]
    /\ mbi = CHOOSE b \in MBIs : TRUE
    /\ pc = "off"
    /\ image = 0 /\ start = 0 /\ finish = 0 /\ allowed = 0 /\ found = FALSE /\ entry = 0
    /\ curr = 0 /\ prev = 0 /\ next = 0 /\ msg = "none"

Boot ==
    /\ pc = "off"
    /\ made \in {"written", "truncated"}
    /\ \E at \in Homes :
           /\ at + Len(out) <= MaxAddr
           /\ ImageRange(at) \cap (Strings \cup LoaderRange) = {}
           /\ mem' = PlacedAt(at)
           /\ image' = at
           /\ finish' = at + Len(out) - 1
    /\ mbi' \in MBIs
    /\ pc' = "entered"
    /\ UNCHANGED <<makeVars, memVars, start, allowed, found, entry, curr, prev, next, msg>>

Make == pc = "off" /\ MakeNext /\ UNCHANGED <<loadVars, memVars>>
LoadStep == LoadNext /\ UNCHANGED <<makeVars, memVars>>

\* The sections that the file holds to the end: all, unless it was cut off.
Held == {i \in DOMAIN Written(mimg) : Len(outimage(mimg, i)) <= Len(out)}

HeldSections == {Written(mimg)[i] : i \in Held}

\* The kernel looks for its boot data at its first address, that is 0, and
\* reads two arrays through the pointers there.
Words(at, n) == [i \in 1 .. n |-> Value(At(at + i - 1))]

ArrayAt(pointer, size) ==
    LET at == Value(At(pointer))
    IN  [i \in 1 .. Value(At(at)) |-> Words(at + CountSize + size * (i - 1), size)]

StartKernel ==
    /\ pc = "running" /\ kpc = "off"
    /\ \E sec \in HeldSections : TypeOf(sec) = BOOTDATA /\ sec.first = 0
    /\ LET hs == ArrayAt(0, HeaderSize)
           rs == ArrayAt(1, RangeSize)
       IN  /\ hdrs' = [i \in DOMAIN hs |-> [lo |-> hs[i][1], hi |-> hs[i][2], entry |-> hs[i][3]]]
           /\ rngs' = [i \in DOMAIN rs |-> [lo |-> rs[i][1], hi |-> rs[i][2]]]
    /\ kpc' = "start"
    /\ UNCHANGED <<makeVars, loadVars, servers, descs, klo, khi, pages, freePages>>

KernelStep == MemoryNext /\ UNCHANGED <<makeVars, loadVars>>

Next == Make \/ Boot \/ LoadStep \/ StartKernel \/ KernelStep

Spec == Init /\ [][Next]_vars

-----------------------------------------------------------------------------
(***************************************************************************)
(* Properties.                                                              *)
(***************************************************************************)
Place(sec) == sec.first .. sec.last

\* What the contents of a section should be.
CellsArrive(sec) ==
    \A a \in Place(sec) :
        mem[a] = IF TypeOf(sec) = DATA THEN Byte(sec.img, sec.offset + (a - sec.first))
                                       ELSE NUL

StringArrives(at, s, last) ==
    \E n \in 0 .. StrLen : /\ at + n <= last
                           /\ \A i \in 0 .. n - 1 : mem[at + i] = Char(s, i + 1)
                           /\ mem[at + n] = NUL

\* The program reads the headers of the image, a part of the memory map, and
\* the strings, which are those of the multiboot loader unless a section went
\* where it had left them.
BootDataArrives(sec) ==
    LET headers == Value(mem[sec.first])
        map     == Value(mem[sec.first + 1])
        cmd     == Value(mem[sec.first + 2])
        img     == Value(mem[sec.first + 3])
    IN  /\ {headers, map, cmd, img} \subseteq Place(sec)
        /\ Value(mem[headers]) = Len(mimg.hdrs)
        /\ \A i \in DOMAIN mimg.hdrs :
               LET h == headers + CountSize + HeaderSize * (i - 1)
               IN  /\ mem[h]     = Word(mimg.hdrs[i].min)
                   /\ mem[h + 1] = Word(mimg.hdrs[i].max)
                   /\ mem[h + 2] = Word(mimg.hdrs[i].entry)
        /\ \A i \in 1 .. Value(mem[map]) :
               \E j \in DOMAIN MMap :
                   /\ mmapAvailable(MMap[j])
                   /\ mem[map + CountSize + RangeSize * (i - 1)] = Word(MMap[j].base)
                   /\ mem[map + CountSize + RangeSize * (i - 1) + 1]
                          = Word(Wrap(MMap[j].base + MMap[j].len - 1))
        /\ (\A s \in HeldSections : Place(s) \cap Strings = {}) =>
               /\ "cmd" \in mbi.flags => StringArrives(cmd, 1, sec.last)
               /\ StringArrives(img, 2, sec.last)

Arrives(sec) == IF TypeOf(sec) = BOOTDATA THEN BootDataArrives(sec) ELSE CellsArrive(sec)

\* Where section i of the file, or the end of the file, is in memory.
HeaderAt(i) == image + Len(outimage(mimg, i - 1))

\* A section goes over a part of the image that holds sections after one that
\* goes beyond the end of the image: that one ends the search for sections to
\* put off, and those put off are then loaded before the rest is read.
Straddled ==
    \E i \in Held, j \in Held :
        /\ i < j
        /\ j + 1 \in Held
        /\ Written(mimg)[j].first > finish
        /\ Place(Written(mimg)[i]) \cap (HeaderAt(j + 1) .. finish) # {}

\* When the loader jumps to the program, every section of the image is in its
\* place, wherever the image had been put: no section was overwritten in the
\* image before it was loaded, nor in its place afterwards (loadImage).
ImageArrives ==
    pc = "running" /\ ~Straddled => \A sec \in HeldSections : Arrives(sec)

\* The loader changes only cells of sections and the prev fields of the image
\* (loadImage, loadSection).
WritesConfined ==
    [][(pc = "skip" \/ pc = "unwind") /\ ~Straddled =>
           \A a \in Addr : mem'[a] # mem[a] =>
               \/ pc = pc' /\ pc = "skip" /\ a = curr + PrevAt
               \/ \E sec \in HeldSections : a \in Place(sec)]_mem

\* The loader refuses an image that the maker has finished only for the memory
\* it was put to use on: the two agree on the format (outimage, validImage).
OnlyMemoryRefuses ==
    pc = "halted" /\ made = "written" =>
        msg \in {"cannot obtain memory map", "cannot locate image", "number of modules",
                 "not within memory map", "overlaps with loader"}

\* A header reaches into the last page of the range that pages come from, which
\* is not a whole one: the search then goes on beyond the end of the range.
RunsPast == klo > khi + 1

\* The pages that the kernel takes for itself are distinct pages of memory that
\* the multiboot loader has reported, within what the kernel has mapped, and
\* none holds any part of a section of the image (initMemory, initPages).
KernelPagesFree ==
    kpc = "done" /\ ~Straddled /\ ~RunsPast =>
        /\ IsInjective(freePages)
        /\ \A i \in DOMAIN freePages :
               LET page == freePages[i] .. freePages[i] + PageLen - 1
               IN  /\ page \subseteq 0 .. PhysMap - 1
                   /\ \E j \in DOMAIN MMap :
                          page \subseteq MMap[j].base .. Wrap(MMap[j].base + MMap[j].len - 1)
                   /\ \A sec \in HeldSections : page \cap Place(sec) = {}
=============================================================================
