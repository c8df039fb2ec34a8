------------------------------- MODULE MimgMake -------------------------------
(***************************************************************************)
(* mimgmake: reads its arguments one by one, keeps the sections of the      *)
(* image sorted, refuses overlaps, and writes the image to a file through a *)
(* buffer.  It stops at the first error (ABORT): what the buffer had        *)
(* flushed by then stays in the file.                                       *)
(***************************************************************************)
EXTENDS MimgFormat, FiniteSets, SequencesExt

CONSTANTS
    Files,      \* the files that can be named: sequence of [length, elf]
    Addrs,      \* the addresses that arguments name
    Specials,   \* the pairs of addresses that special sections name
    NextAlign,  \* what @next aligns to
    PageSize,   \* what @page aligns to
    MaxArgs,    \* bound: number of arguments
    BINOUTLEN   \* size of the output buffer

ASSUME MakeAssumption ==
    /\ Addrs \subseteq Addr
    /\ Specials \subseteq Addr \X Addr
    /\ {NextAlign, PageSize, MaxArgs, BINOUTLEN} \subseteq Nat \ {0}

VARIABLES
    mimg,   \* the memory image: headers, sections, last section inserted, entry
    args,   \* number of arguments read
    made,   \* "args" while reading, then "aborted", "truncated" or "written"
    out     \* the contents of the output file

makeVars == <<mimg, args, made, out>>

(***************************************************************************)
(* Building the image.  An operation on an image returns it with ok = FALSE *)
(* where the code calls ABORT.                                              *)
(***************************************************************************)
memImage == [hdrs |-> <<>>, list |-> <<>>, mri |-> <<>>,
             entry |-> NOENTRY, ok |-> TRUE]

Aborted(m) == [m EXCEPT !.ok = FALSE]

\* img is the number of a file, or 0; then offset is the type of the section.
section(first, last, img, offset) ==
    [first |-> first, last |-> last, img |-> img, offset |-> offset]

TypeOf(sec) == IF sec.img # 0 THEN DATA ELSE sec.offset

\* The sections that the search for the insertion point walks past.
Passed(list, new) ==
    {i \in DOMAIN list : \A j \in 1 .. i : new.last >= list[j].first}

insert(m, new) ==
    LET passed == Passed(m.list, new)
    IN  IF \/ ~m.ok
           \/ new.first > new.last
           \/ \E i \in passed : new.first <= m.list[i].last
        THEN Aborted(m)
        ELSE [m EXCEPT !.list = InsertAt(@, Cardinality(passed) + 1, new),
                       !.mri = <<new>>]

addHeader(m, min, max, entry) ==
    [m EXCEPT !.hdrs = Append(@, [min |-> min, max |-> max, entry |-> entry])]

insertFile(m, f, first) ==
    LET last == Wrap(first + Files[f].length - 1)
    IN  IF Files[f].length = 0
        THEN Aborted(m)
        ELSE addHeader(insert(m, section(first, last, f, 0)), first, last, NOENTRY)

insertSpecial(m, first, last, type) ==
    IF first > last
    THEN Aborted(m)
    ELSE addHeader(insert(m, section(first, last, 0, type)), first, last, NOENTRY)

\* A segment of an ELF file: the part that the file holds, then the rest.
EndOf(ph) == Wrap(ph.paddr + ph.memsz - 1)

loadSegment(m, f, ph) ==
    LET data == IF ph.filesz > 0
                THEN insert(m, section(ph.paddr, Wrap(ph.paddr + ph.filesz - 1), f, ph.offset))
                ELSE m
    IN  IF ph.memsz > ph.filesz
        THEN insert(data, section(Wrap(ph.paddr + ph.filesz), EndOf(ph), 0, ZERO))
        ELSE data

insertSegment(m, f, ph, load) ==
    IF Wrap(ph.offset + ph.filesz) > Files[f].length
    THEN Aborted(m)
    ELSE IF load THEN loadSegment(m, f, ph)
                 ELSE insert(m, section(ph.paddr, EndOf(ph), 0, RESERVED))

insertElf(m, f, load) ==
    LET elf   == Files[f].elf
        phs   == SelectSeq(elf.phs, LAMBDA ph : ph.load)
        added == FoldLeft(LAMBDA mm, ph : insertSegment(mm, f, ph, load), m, phs)
    IN  IF ~elf.valid \/ Files[f].length = 0
        THEN Aborted(m)
        ELSE IF load
        THEN addHeader(added,
                       Min({MaxAddr} \cup {phs[i].paddr : i \in DOMAIN phs}),
                       Max({0} \cup {EndOf(phs[i]) : i \in DOMAIN phs}),
                       elf.entry)
        ELSE added

nextAddr(m, align) == Wrap((m.mri[1].last \div align + 1) * align)

\* The address after @: given, next or page.
Places(m) ==
    Addrs \cup IF m.mri = <<>> THEN {}
               ELSE {nextAddr(m, NextAlign), nextAddr(m, PageSize)}

setEntry(m, addr) ==
    IF m.entry # NOENTRY /\ addr # m.entry THEN Aborted(m)
    ELSE [m EXCEPT !.entry = addr]

(***************************************************************************)
(* parseArg: one action for each kind of argument.                          *)
(***************************************************************************)
Parsed(m) ==
    /\ made = "args"
    /\ args < MaxArgs
    /\ args' = args + 1
    /\ mimg' = IF m.ok THEN m ELSE Aborted(memImage)
    /\ made' = IF m.ok THEN made ELSE "aborted"
    /\ UNCHANGED out

ArgElf     == \E f \in DOMAIN Files : Parsed(insertElf(mimg, f, TRUE))
ArgNoload  == \E f \in DOMAIN Files : Parsed(insertElf(mimg, f, FALSE))
ArgFile    == \E f \in DOMAIN Files, a \in Places(mimg) : Parsed(insertFile(mimg, f, a))
ArgEntry   == \E a \in Places(mimg) : Parsed(setEntry(mimg, a))
ArgSpecial == \E r \in Specials, type \in {ZERO, BOOTDATA, RESERVED} :
                  Parsed(insertSpecial(mimg, r[1], r[2], type))
\* No such file, no address, junk after it, overflow, an unknown keyword, or
\* @next before any section.
ArgBad     == Parsed(Aborted(mimg))

parseArg == ArgElf \/ ArgNoload \/ ArgFile \/ ArgEntry \/ ArgSpecial \/ ArgBad

(***************************************************************************)
(* Writing the image.                                                       *)
(***************************************************************************)
firstEntry(hs) ==
    LET has == {i \in DOMAIN hs : hs[i].entry # NOENTRY}
    IN  IF has = {} THEN NOENTRY ELSE hs[Min(has)].entry

Entry(m) == IF m.entry = NOENTRY THEN firstEntry(m.hdrs) ELSE m.entry

EntryLoaded(m) ==
    /\ Entry(m) # NOENTRY
    /\ \E i \in DOMAIN m.list : /\ m.list[i].img # 0
                                /\ m.list[i].first <= Entry(m)
                                /\ Entry(m) <= m.list[i].last

outheaders(hs) ==
    <<Word(Len(hs))>> \o
    FlattenSeq([i \in DOMAIN hs |->
        <<Word(hs[i].min), Word(hs[i].max), Word(hs[i].entry)>>])

\* A slip for the runs to find: no room for the map and the strings.
TooSmallForHeaders(m, sec) ==
    /\ TypeOf(sec) = BOOTDATA
    /\ 1 + (sec.last - sec.first) < BootData + HDRLEN(Len(m.hdrs))

TooSmall(m, sec) ==
    /\ TypeOf(sec) = BOOTDATA
    /\ 1 + (sec.last - sec.first) < BOOTLEN(Len(m.hdrs))

outsection(m, sec) ==
    <<Word(sec.first), Word(sec.last), Word(0), Word(TypeOf(sec))>> \o
    CASE TypeOf(sec) = DATA ->
             [i \in 1 .. 1 + (sec.last - sec.first) |-> Byte(sec.img, sec.offset + i - 1)]
      [] TypeOf(sec) = BOOTDATA /\ ~TooSmall(m, sec) -> outheaders(m.hdrs)
      [] OTHER -> <<>>

\* The sections that are written.
Written(m) == SelectSeq(m.list, LAMBDA sec : TypeOf(sec) # RESERVED)

\* The output for the first n of them.
outimage(m, n) ==
    <<Magic, Word(0), Word(Entry(m))>> \o
    FlattenSeq([i \in 1 .. n |-> outsection(m, Written(m)[i])])

Small(m) == {i \in DOMAIN Written(m) : TooSmall(m, Written(m)[i])}

\* What binoutFlush has written when a program that has put seq stops.
Flushed(seq) == SubSeq(seq, 1, (Len(seq) \div BINOUTLEN) * BINOUTLEN)

checkEntry ==
    /\ made = "args"
    /\ ~EntryLoaded(mimg)
    /\ made' = "aborted"
    /\ UNCHANGED <<mimg, args, out>>

Output ==
    /\ made = "args"
    /\ EntryLoaded(mimg)
    /\ IF Small(mimg) = {}
       THEN out' = outimage(mimg, Len(Written(mimg))) /\ made' = "written"
       ELSE out' = Flushed(outimage(mimg, Min(Small(mimg)))) /\ made' = "truncated"
    /\ UNCHANGED <<mimg, args>>

\* A flush fails, the first one included: what was flushed before stays.
OutputFails ==
    /\ made = "args"
    /\ EntryLoaded(mimg)
    /\ Small(mimg) = {}
    /\ \E n \in 0 .. (Len(outimage(mimg, Len(Written(mimg)))) - 1) \div BINOUTLEN :
           out' = SubSeq(outimage(mimg, Len(Written(mimg))), 1, n * BINOUTLEN)
    /\ made' = "truncated"
    /\ UNCHANGED <<mimg, args>>

MakeInit == mimg = memImage /\ args = 0 /\ made = "args" /\ out = <<>>

MakeNext == parseArg \/ checkEntry \/ Output \/ OutputFails
=============================================================================
