---------------------------- MODULE MCMinReaders ----------------------------
(***************************************************************************)
(* Small disks: three direct zones and tables of two, so that a file of    *)
(* nine zones and a directory of five need every kind of zone.             *)
(***************************************************************************)
EXTENDS MinReaders, SequencesExt, TLC

\* Data zone q of the file is zone 20 + q of the disk, its tables follow 40.
Top(size) == (size + 1) \div 2
Present(zone, parts, holes, size) ==
    IF \E q \in parts : q < Top(size) /\ q \notin holes THEN zone ELSE 0
Data(q, holes, size) == Present(20 + q, {q}, holes, size)

FileNode(size, holes) ==
    [mode |-> "regular", size |-> size,
     zone |-> [q \in 1..3 |-> Data(q - 1, holes, size)],
     indirect |-> Present(40, 3..4, holes, size),
     two_indirect |-> Present(41, 5..8, holes, size)]

FileTables(size, holes) ==
    40 :> <<Data(3, holes, size), Data(4, holes, size)>>
    @@ 41 :> <<Present(42, 5..6, holes, size), Present(43, 7..8, holes, size)>>
    @@ 42 :> <<Data(5, holes, size), Data(6, holes, size)>>
    @@ 43 :> <<Data(7, holes, size), Data(8, holes, size)>>

\* A directory of some entries, gone the deleted ones; its zones follow first.
Number == <<"n1", "n2", "n3", "n4", "n5", "n6", "n7", "n8", "n9", "n10">>
DirEntries(size, gone) ==
    [j \in 1..size |->
        CASE j = 1 -> [ino |-> 2, name |-> "."]
          [] j = 2 -> [ino |-> 1, name |-> ".."]
          [] OTHER -> [ino |-> IF j \in gone THEN 0 ELSE 3, name |-> Number[j]]]
RootEntries ==
    <<[ino |-> 1, name |-> "."], [ino |-> 1, name |-> ".."],
      [ino |-> 0, name |-> "gone"], [ino |-> 2, name |-> "dir"],
      [ino |-> 3, name |-> "file"], [ino |-> 4, name |-> "link"]>>
DirZones(first, list) ==
    [z \in first..first + 4 |->
        [j \in 1..2 |-> LET n == 2 * (z - first) + j
                        IN  IF n <= Len(list) THEN list[n] ELSE Blank]]
DirNode(first, size, table) ==
    [mode |-> "directory", size |-> size,
     zone |-> [q \in 1..3 |-> IF size > 2 * (q - 1) THEN first + q - 1 ELSE 0],
     indirect |-> IF size > 6 THEN table ELSE 0, two_indirect |-> 0]
Other == [mode |-> "other", size |-> 1, zone |-> <<0, 0, 0>>, indirect |-> 0,
          two_indirect |-> 0]

Fs(size, holes, boot, dirSize, gone, bitmap) ==
    [table |-> 0 :> boot @@ 44 :> <<13, IF dirSize > 8 THEN 14 ELSE 0>>
               @@ FileTables(size, holes),
     entries |-> DirZones(5, RootEntries) @@ DirZones(10, DirEntries(dirSize, gone)),
     inodes |-> 0 :> [Other EXCEPT !.mode = bitmap]
                @@ 1 :> DirNode(5, 6, 0) @@ 2 :> DirNode(10, dirSize, 44)
                @@ 3 :> FileNode(size, holes) @@ 4 :> Other]

Whole(fs) == [tables |-> <<>>, volumes |-> 0 :> fs, sectors |-> 9]
Empty(sectors) == [tables |-> <<>>, volumes |-> <<>>, sectors |-> sectors]
Args(command, path, parts) ==
    [tool |-> command, path |-> path, parts |-> parts, opens |-> TRUE,
     writes |-> TRUE, plain |-> FALSE, apart |-> FALSE]
Tools == {"minls", "minget"}

-----------------------------------------------------------------------------
\* Every size and every pattern of holes.
Copies(sizes, boots) ==
    {[disk |-> Whole(Fs(f[1], f[2], boot, 2, {}, "other")),
      args |-> Args("minget", <<"file">>, <<>>)] :
        f \in UNION {{size} \X SUBSET (0..Top(size) - 1) : size \in sizes},
        boot \in boots}

\* Every directory and every set of deleted entries; two sizes do not fit.
Listings(sizes) ==
    {[disk |-> Whole(Fs(3, {}, <<0, 0>>, f[1], f[2], "other")),
      args |-> Args(command, path, <<>>)] :
        f \in UNION {{size} \X SUBSET (3..size) : size \in sizes}, command \in Tools,
        path \in {<<"dir">>, <<"dir", "n3">>, <<"dir", "n8">>}}

\* Every path of up to so many names.
Names == {".", "..", "dir", "file", "link", "gone", "none"}
Paths(length) ==
    {[disk |-> Whole(Fs(3, {}, <<0, 0>>, 4, {3}, bitmap)),
      args |-> [Args(command, path, <<>>) EXCEPT !.opens = on[1],
                         !.writes = on[2], !.plain = on[3]]] :
        path \in SeqOf(Names, length), command \in Tools, bitmap \in {"other", "regular"},
        on \in {<<TRUE, TRUE, FALSE>>, <<FALSE, TRUE, FALSE>>,
                <<TRUE, FALSE, FALSE>>, <<TRUE, TRUE, TRUE>>}}

\* Partitions of equal size or not, of the right type or not, some with tables
\* of their own.  The size of the file tells the file systems apart.
Table(first, size, odd, foreign) ==
    [n \in 0..3 |-> [lFirst |-> first + n * size + IF n = odd THEN 1 ELSE 0,
                     size |-> size, minix |-> n \notin foreign]]
TableSets ==
    {0 :> Table(4, 20, odd, foreign) @@ 24 :> Table(25, 4, sub, subForeign) :
        odd \in {1, 4}, foreign \in {{}, {0}, {1}},
        sub \in {2, 4}, subForeign \in {{}, {0}}}
    \cup {<<>>, 0 :> Table(4, 20, 4, {}), 24 :> Table(25, 4, 4, {})}
Partitions(depth) ==
    {[disk |-> [tables |-> tables,
                volumes |-> [s \in {4, 24, 25, 29, 34, 44} |->
                                Fs((s % 9) + 1, {}, <<0, 0>>, 2, {}, "other")],
                sectors |-> 60],
      args |-> [Args("minls", path, parts) EXCEPT !.plain = typed[1], !.apart = typed[2]]] :
        tables \in TableSets, parts \in SeqOf(0..3, depth),
        path \in {<<>>, <<"file">>}, typed \in BOOLEAN \X BOOLEAN}

\* Images without a file system, and too short for one.
Tiny ==
    {[disk |-> Empty(sectors), args |-> Args(command, <<"file">>, <<>>)] :
        sectors \in 0..3, command \in Tools}

\* The bounds of the sizes are parameters for another reason too: TLC computes
\* every definition without one when it starts.
AllInputs ==
    {Copies(0..18, {<<0, 0>>, <<0, 21>>}), Listings(2..10), Paths(3),
     Partitions(2), Tiny}

\* Files without holes that need the indirect zone.
LongFiles ==
    {{[disk |-> Whole(Fs(size, {}, <<0, 0>>, 2, {}, "other")),
       args |-> Args("minget", <<"file">>, <<>>)] : size \in 7..10}}
=============================================================================
