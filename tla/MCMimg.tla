-------------------------------- MODULE MCMimg --------------------------------
EXTENDS MimgBoot

\* A file of data, and a program: its code, its bss, and a note that is not
\* loaded.
Program == [valid |-> TRUE, entry |-> 32,
            phs |-> <<[load |-> TRUE,  offset |-> 2, paddr |-> 32, filesz |-> 2, memsz |-> 6],
                      [load |-> FALSE, offset |-> 1, paddr |-> 0,  filesz |-> 1, memsz |-> 1]>>]
NotElf == [valid |-> FALSE, entry |-> 0, phs |-> <<>>]

MCFiles == <<[length |-> 3, elf |-> NotElf], [length |-> 4, elf |-> Program]>>
MCAddrs == {30, 44}
MCSpecials == {<<0, 23>>, <<40, 53>>, <<60, 78>>, <<56, 57>>}
MCLoader == <<54, 56>>
MCVideo == <<48, 55>>
MCHomes == {16, 31, 40, 62}
Ranges(r) == [i \in DOMAIN r |->
    [base |-> r[i][1], len |-> r[i][2], ram |-> r[i][3], wide |-> r[i][4]]]

MBI(flags, count, map) ==
    [flags |-> flags, modsCount |-> count, memLower |-> 39, memUpper |-> 40,
     mmap |-> Ranges(map)]

\* One range; one that ends within a page; ranges of which one is wide, one not memory, one empty and one
\* reaches the top of the address space; no map; what makes the loader give up.
MCMBIs ==
    {MBI({"mmap", "cmd", "mods"}, 1, << <<0, 95, TRUE, FALSE>> >>),
     MBI({"mmap", "mods"}, 1, << <<0, 79, TRUE, FALSE>> >>),
     MBI({"mmap", "mods"}, 1, << <<0, 30, TRUE, FALSE>>, <<30, 4, FALSE, FALSE>>,
                                 <<30, 30, TRUE, TRUE>>, <<0, 0, TRUE, FALSE>>,
                                 <<30, 66, TRUE, FALSE>>, <<30, 50, TRUE, FALSE>> >>),
     MBI({"mem", "cmd", "mods"}, 1, <<>>),
     MBI({"cmd", "mods"}, 1, <<>>),
     MBI({"mem", "cmd"}, 1, <<>>),
     MBI({"mem", "mods"}, 2, <<>>)}
=============================================================================
