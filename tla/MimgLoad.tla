------------------------------- MODULE MimgLoad -------------------------------
(***************************************************************************)
(* mimgload: started by a multiboot loader that has put an image somewhere  *)
(* in memory, it validates the image, moves every section to its place and  *)
(* jumps to the entry point.  The places may overlap the image, so a section *)
(* that would overwrite what follows it in the image is put off.            *)
(*                                                                          *)
(* One action per turn of a loop: a section validated, put off or loaded.   *)
(***************************************************************************)
EXTENDS MimgFormat, FiniteSets, SequencesExt

CONSTANTS
    Loader,     \* first address of the loader and first address after it
    OneMeg,     \* 0x100000
    CmdAt,      \* where the multiboot loader left the command line
    ImgAt,      \* and the command line of the image
    StrLen      \* length of both strings, without the NUL

ASSUME LoadAssumption ==
    /\ Loader \in Addr \X Addr
    /\ {OneMeg, CmdAt, ImgAt} \subseteq Addr
    /\ StrLen \in Nat

VARIABLES
    mem,        \* memory
    mbi,        \* multiboot information: flags, modsCount, memory sizes, map
    pc,         \* where the loader is
    image,      \* first address of the image
    start,      \* the section the loop has reached
    finish,     \* last address of the image
    allowed,    \* validImage: first address the next section may have
    found,      \* validImage: the entry point lies in a section
    entry,      \* entry point
    curr, prev, next,   \* loadImage
    msg         \* why the image was refused

loadVars == <<mem, mbi, pc, image, start, finish, allowed, found, entry, curr, prev, next, msg>>

At(a) == mem[Wrap(a)]
Field(sec, offset) == Value(At(sec + offset))

Put(m, a, cell) == [m EXCEPT ![Wrap(a)] = cell]

(***************************************************************************)
(* The memory map: ranges of base and length in bytes.  A range is wide if  *)
(* its base or length does not fit in a word.                               *)
(***************************************************************************)
\* Whether a map can be had, and the map: the one given, or two ranges made up.
hasMMap == {"mmap", "mem"} \cap mbi.flags # {}

MMap ==
    IF "mmap" \in mbi.flags
    THEN mbi.mmap
    ELSE <<[base |-> 0,      len |-> mbi.memLower, ram |-> TRUE, wide |-> FALSE],
           [base |-> OneMeg, len |-> mbi.memUpper, ram |-> TRUE, wide |-> FALSE]>>

\* The type of the range is assigned here, not compared: ram plays no part.
mmapAvailable(r) ==
    /\ ~r.wide
    /\ Wrap(r.base + r.len - 1) >= r.base

fitsInMemory(first, last) ==
    \E i \in DOMAIN MMap : /\ MMap[i].base <= first
                           /\ last < Wrap(MMap[i].base + MMap[i].len)
                           /\ mmapAvailable(MMap[i])

(***************************************************************************)
(* validImage.                                                              *)
(***************************************************************************)
nextSection(sec) ==
    Wrap(sec + SectionHeader +
         CASE Field(sec, TypeAt) = DATA ->
                  1 + Wrap(Field(sec, LastAt) - Field(sec, FirstAt))
           [] Field(sec, TypeAt) = BOOTDATA ->
                  HDRLEN(Value(At(sec + SectionHeader)))
           [] OTHER -> 0)

\* The checks on the whole image that come first.
Malformed ==
    CASE image > finish                      -> "start exceeds finish"
      [] 1 + (finish - image) < MimgHeader   -> "too small"
      [] At(image) # Magic                   -> "magic number"
      [] Value(At(image + 2)) = NOENTRY      -> "no entry point"
      [] OTHER                               -> "none"

\* The checks on the section that start has reached, in their order.
Unsound(sec, first, last) ==
    CASE Wrap(sec + SectionHeader) > Wrap(finish + 1) -> "incomplete section header"
      [] first > last                              -> "first exceeds last"
      [] first < allowed                           -> "overlap or not sorted"
      [] ~fitsInMemory(first, last)                -> "not within memory map"
      [] ~(last < Loader[1] \/ first >= Loader[2]) -> "overlaps with loader"
      [] /\ Field(sec, TypeAt) = BOOTDATA
         /\ Wrap(first + BOOTLEN(Value(At(sec + SectionHeader)))) > Wrap(last + 1)
                                                   -> "bootdata too small"
      [] nextSection(sec) > Wrap(finish + 1)       -> "does not fit in image"
      [] nextSection(sec) < Wrap(sec + SectionHeader) -> "wraps around"
      [] OTHER                                     -> "none"

Halt(why) == /\ pc' = "halted"
             /\ msg' = why
             /\ UNCHANGED <<mem, mbi, image, start, finish, allowed, found, entry, curr, prev, next>>

\* mimgload: what it needs of the multiboot information, then the header.
BootRefused ==
    /\ pc = "entered"
    /\ \/ ~hasMMap /\ Halt("cannot obtain memory map")
       \/ hasMMap /\ "mods" \notin mbi.flags /\ Halt("cannot locate image")
       \/ hasMMap /\ "mods" \in mbi.flags /\ mbi.modsCount # 1 /\ Halt("number of modules")

ValidateHeader ==
    /\ pc = "entered"
    /\ hasMMap /\ "mods" \in mbi.flags /\ mbi.modsCount = 1
    /\ IF Malformed # "none" THEN Halt(Malformed)
       ELSE /\ start' = Wrap(image + MimgHeader)
            /\ entry' = Value(At(image + 2))
            /\ allowed' = 0
            /\ found' = FALSE
            /\ pc' = "validate"
            /\ UNCHANGED <<mem, mbi, image, finish, curr, prev, next, msg>>

ValidateSection ==
    /\ pc = "validate"
    /\ start <= finish
    /\ LET first == Field(start, FirstAt)
           last  == Field(start, LastAt)
           why   == Unsound(start, first, last)
       IN  IF why # "none" THEN Halt(why)
           ELSE /\ found' = (found \/ /\ Field(start, TypeAt) = DATA
                                      /\ first <= entry
                                      /\ last >= entry)
                /\ start' = nextSection(start)
                /\ allowed' = Wrap(last + 1)
                /\ UNCHANGED <<mem, mbi, pc, image, finish, entry, curr, prev, next, msg>>

ValidateEnd ==
    /\ pc = "validate"
    /\ start > finish
    /\ IF ~found THEN Halt("entry point outside sections")
       ELSE /\ start' = Wrap(image + MimgHeader)
            /\ pc' = "load"
            /\ UNCHANGED <<mem, mbi, image, finish, allowed, found, entry, curr, prev, next, msg>>

(***************************************************************************)
(* loadSection.  Memory is passed along: each helper returns what it leaves. *)
(***************************************************************************)
\* A copy that goes cell by cell from the front: if it starts below its target
\* and reaches it, it goes on with what it has written.  CopyDown from the back.
CopyUp(m, to, from, len) ==
    [a \in Addr |->
        LET i == Wrap(a - to)
        IN  IF i >= len THEN m[a]
            ELSE m[Wrap(from + IF to > from THEN i % (to - from) ELSE i)]]

CopyDown(m, to, from, len) ==
    [a \in Addr |->
        LET i == Wrap(a - to)
            j == len - 1 - i
        IN  IF i >= len THEN m[a]
            ELSE m[Wrap(from + len - 1 - IF to < from THEN j % (from - to) ELSE j)]]

smartcopy(m, to, from, len) ==
    CASE to < from -> CopyUp(m, to, from, len)
      [] to > from -> CopyDown(m, to, from, len)
      [] OTHER     -> m

\* Writes a sequence of cells, and a number of zeros.
PutAll(m, at, cells) ==
    [a \in Addr |-> IF Wrap(a - at) < Len(cells) THEN cells[Wrap(a - at) + 1] ELSE m[a]]

Zeros(m, at, len) ==
    [a \in Addr |-> IF Wrap(a - at) < len THEN NUL ELSE m[a]]

\* The ranges copied to first..last: as many available ones as fit.
RangesCopied(first, last) ==
    LET room == Wrap(Wrap(last - first) - (CountSize - 1)) \div RangeSize
        ok   == SelectSeq(MMap, mmapAvailable)
    IN  SubSeq(ok, 1, Min({room, Len(ok)}))

MMapCells(first, last) ==
    LET ranges == RangesCopied(first, last)
    IN  <<Word(Len(ranges))>> \o
        FlattenSeq([i \in DOMAIN ranges |->
            <<Word(ranges[i].base), Word(Wrap(ranges[i].base + ranges[i].len - 1))>>])

\* A slip for the runs to find: no room is kept for the NUL.
CopiedLenAll(m, s, room) ==
    Min({room} \cup {n \in 0 .. room : m[Wrap(s + n)] = NUL})

\* Number of characters copyStr takes from the string at s: up to its NUL, or
\* one less than there is room for.
CopiedLen(m, s, room) ==
    Min({room - 1} \cup {n \in 0 .. room - 1 : m[Wrap(s + n)] = NUL})

copyStr(m, s, first, last) ==
    IF first > last THEN m
    ELSE LET n == CopiedLen(m, s, 1 + (last - first))
         IN  Put(CopyUp(m, first, s, n), first + n, NUL)

\* The address after the string that copyStr has written.
AfterStr(m, s, first, last) ==
    IF first > last THEN first ELSE Wrap(first + CopiedLen(m, s, 1 + (last - first)) + 1)

\* The strings: the command line, if there is one, is at CmdAt.
copyCmd(m, first, last) ==
    IF "cmd" \in mbi.flags THEN copyStr(m, CmdAt, first, last)
    ELSE IF first > last THEN m ELSE Put(m, first, NUL)

AfterCmd(m, first, last) ==
    IF "cmd" \in mbi.flags THEN AfterStr(m, CmdAt, first, last)
    ELSE IF first > last THEN first ELSE Wrap(first + 1)

loadBootData(sec) ==
    LET first  == Field(sec, FirstAt)
        last   == Field(sec, LastAt)
        data   == Wrap(sec + SectionHeader)
        req    == HDRLEN(Value(At(data)))
        heads  == Wrap(first + BootData)
        mmapAt == Wrap(heads + req)
        map    == MMapCells(mmapAt, Wrap(last - 2))
        cmdAt  == Wrap(mmapAt + Len(map))
        m1     == smartcopy(mem, heads, data, req)
        m2     == PutAll(PutAll(m1, first, <<Word(heads), Word(mmapAt)>>), mmapAt, map)
        m3     == Put(m2, first + 2, Word(cmdAt))
        m4     == copyCmd(m3, cmdAt, last - 1)
        imgAt  == AfterCmd(m3, cmdAt, last - 1)
    IN  copyStr(Put(m4, first + 3, Word(imgAt)), ImgAt, imgAt, last)

loadSection(sec) ==
    LET first == Field(sec, FirstAt)
        len   == 1 + Wrap(Field(sec, LastAt) - first)
        IN  CASE Field(sec, TypeAt) = ZERO     -> Zeros(mem, first, len)
          [] Field(sec, TypeAt) = DATA     -> smartcopy(mem, first, Wrap(sec + SectionHeader), len)
          [] Field(sec, TypeAt) = BOOTDATA -> loadBootData(sec)
          [] OTHER                         -> mem

(***************************************************************************)
(* loadImage.                                                               *)
(***************************************************************************)
\* A slip for the runs to find: only sections that begin after the rest wait.
WaitsIfFirst == /\ next <= finish
                /\ Field(curr, FirstAt) >= next
                /\ Field(curr, FirstAt) <= finish

\* A section that would overwrite what follows it in the image waits.
Waits == /\ next <= finish
         /\ Field(curr, LastAt) >= next
         /\ Field(curr, FirstAt) <= finish

LoadStart ==
    /\ pc = "load"
    /\ start <= finish
    /\ prev' = 0
    /\ curr' = start
    /\ next' = nextSection(start)
    /\ pc' = "skip"
    /\ UNCHANGED <<mem, mbi, image, start, finish, allowed, found, entry, msg>>

\* The next section is taken before prev is written, as curr and next do not
\* change with it.
Skip ==
    /\ pc = "skip"
    /\ Waits
    /\ mem' = Put(mem, curr + PrevAt, Word(prev))
    /\ prev' = curr
    /\ curr' = next
    /\ next' = nextSection(next)
    /\ UNCHANGED <<mbi, pc, image, start, finish, allowed, found, entry, msg>>

Load ==
    /\ pc = "skip"
    /\ ~Waits
    /\ mem' = loadSection(curr)
    /\ pc' = "unwind"
    /\ UNCHANGED <<mbi, image, start, finish, allowed, found, entry, curr, prev, next, msg>>

Unwind ==
    /\ pc = "unwind"
    /\ prev # 0
    /\ curr' = prev
    /\ prev' = Field(prev, PrevAt)
    /\ mem' = loadSection(prev)
    /\ UNCHANGED <<mbi, pc, image, start, finish, allowed, found, entry, next, msg>>

Continue ==
    /\ pc = "unwind"
    /\ prev = 0
    /\ start' = next
    /\ pc' = "load"
    /\ UNCHANGED <<mem, mbi, image, finish, allowed, found, entry, curr, prev, next, msg>>

Jump ==
    /\ pc = "load"
    /\ start > finish
    /\ pc' = "running"
    /\ UNCHANGED <<mem, mbi, image, start, finish, allowed, found, entry, curr, prev, next, msg>>

LoadNext ==
    \/ BootRefused \/ ValidateHeader \/ ValidateSection \/ ValidateEnd
    \/ LoadStart \/ Skip \/ Load \/ Unwind \/ Continue \/ Jump
=============================================================================
