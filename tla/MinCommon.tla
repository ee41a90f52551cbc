------------------------------ MODULE MinCommon ------------------------------
(***************************************************************************)
(* What minls and minget share: min_common.c, from the arguments to the    *)
(* inode the path leads to, and the reader of directories.                 *)
(***************************************************************************)
EXTENDS MinFs

CONSTANT MaxEntries     \* MAX_DIRECTORY_ENTRIES, the size of the entry buffer
\* The buffer is full before a double indirect zone is needed.
ASSUME BufferAssumption ==
    MaxEntries \in Nat /\ MaxEntries < (DirectZones + ZoneWords) * ZoneEntries
ASSUME InputsAssumption ==
    \A family \in Inputs : \A started \in family :
        SoundDisk(started.disk) /\ SoundArguments(started.args)

VARIABLES
    pc,         \* what runs next
    status,     \* the exit status, -1 while the program runs
    base,       \* base_offset, in sectors
    wanted,     \* the partition numbers get_partition_offset has still to follow
    ino,        \* curr_inode_num
    rest,       \* the tokens of the path strtok has still to deliver
    i, k,       \* the zone and the entry of the indirect zone read next
    total,      \* total_read
    buf         \* the entries read, filled up with what calloc left

common == <<pc, status, base, wanted, ino, rest, i, k, total, buf>>

volume == disk.volumes[base]
node == volume.inodes[ino]

-----------------------------------------------------------------------------
InitCommon ==
    /\ pc = "arguments" /\ status = -1
    /\ base = 0 /\ wanted = args.parts
    /\ ino = 1 /\ rest = args.path
    /\ i = 0 /\ k = 0 /\ total = 0 /\ buf = <<>>

Goto(label) == pc' = label /\ UNCHANGED status

\* A slip: return where the program should exit.
ReturnOnly(code) == Goto("exit")

Exit(code) == pc' = "exit" /\ status' = code

ParseArguments ==
    /\ pc = "arguments"
    /\ IF args.opens THEN Goto("partition") ELSE Exit(1)
    /\ UNCHANGED <<base, wanted, ino, rest, i, k, total, buf>>

\* A slip: a subpartition is taken to start relative to its partition.
FindRelative ==
    /\ pc = "partition" /\ wanted # <<>>
    /\ IF ValidEntry(base, Head(wanted))
       THEN /\ base' = base + disk.tables[base][Head(wanted)].lFirst
            /\ wanted' = Tail(wanted)
            /\ UNCHANGED <<pc, status>>
       ELSE Exit(1) /\ UNCHANGED <<base, wanted>>
    /\ UNCHANGED <<ino, rest, i, k, total, buf>>

\* get_partition_offset, one table: the first of the partitions named, then the
\* one within it.
FindPartition ==
    /\ pc = "partition" /\ wanted # <<>>
    /\ IF ValidEntry(base, Head(wanted))
       THEN /\ base' = disk.tables[base][Head(wanted)].lFirst
            /\ wanted' = Tail(wanted)
            /\ UNCHANGED <<pc, status>>
       ELSE Exit(1) /\ UNCHANGED <<base, wanted>>
    /\ UNCHANGED <<ino, rest, i, k, total, buf>>

\* parse_superblock and the start of get_inode_from_path, where "/" means ".".
ParseSuperblock ==
    /\ pc = "partition" /\ wanted = <<>>
    /\ IF base \in DOMAIN disk.volumes THEN Goto("walk") ELSE Exit(1)
    /\ rest' = IF args.path = <<>> THEN <<".">> ELSE args.path
    /\ UNCHANGED <<base, wanted, ino, i, k, total, buf>>

-----------------------------------------------------------------------------
(***************************************************************************)
(* directory_entries_from_inode: whole zones at a time into the buffer,    *)
(* whether they fit or not.                                                *)
(***************************************************************************)
\* A slip: the buffer of the last directory is used on.
StartBehindLast ==
    /\ Goto("entries")
    /\ i' = 0 /\ k' = 0 /\ total' = 0
    /\ UNCHANGED <<base, wanted, ino, rest, buf>>

StartDirectory ==
    /\ Goto("entries")
    /\ i' = 0 /\ k' = 0 /\ total' = 0 /\ buf' = <<>>
    /\ UNCHANGED <<base, wanted, ino, rest>>

EntriesIn(zone) ==
    IF zone \in DOMAIN volume.entries THEN volume.entries[zone]
    ELSE [j \in 1..ZoneEntries |-> Blank]

MoreEntries == pc = "entries" /\ total < node.size /\ i <= DirectZones
HasRoom == Len(buf) + ZoneEntries <= MaxEntries

TakeZone(zone) ==
    /\ buf' = buf \o EntriesIn(zone)
    /\ total' = total + ZoneEntries

ReadDirectoryZone ==
    /\ MoreEntries /\ HasRoom /\ i < DirectZones
    /\ TakeZone(node.zone[i + 1])
    /\ i' = i + 1
    /\ UNCHANGED <<pc, status, base, wanted, ino, rest, k>>

ReadIndirectDirectory ==
    /\ MoreEntries /\ HasRoom /\ i = DirectZones
    /\ TakeZone(Word(volume, node.indirect, k + 1))
    /\ IF total' >= node.size \/ k + 1 = ZoneWords
       THEN i' = i + 1 /\ k' = 0
       ELSE k' = k + 1 /\ UNCHANGED i
    /\ UNCHANGED <<pc, status, base, wanted, ino, rest>>

\* fread goes on behind the end of the buffer.
OverrunBuffer ==
    /\ MoreEntries /\ ~HasRoom
    /\ Goto("overrun")
    /\ UNCHANGED <<base, wanted, ino, rest, i, k, total, buf>>

EntriesRead == pc = "entries" /\ ~MoreEntries
Entry(j) == IF j <= Len(buf) THEN buf[j] ELSE Blank

-----------------------------------------------------------------------------
(***************************************************************************)
(* get_inode_from_path: a directory for every token.                       *)
(***************************************************************************)
Descend ==
    /\ pc = "walk" /\ rest # <<>>
    /\ IF node.mode = "directory" THEN StartDirectory
       ELSE Exit(1) /\ UNCHANGED <<base, wanted, ino, rest, i, k, total, buf>>

\* The first entry with the name decides, also a deleted one.
MatchToken ==
    LET named(j) == Entry(j).name = Head(rest)
        hits == {j \in 1..node.size : named(j)}
    IN  /\ EntriesRead /\ rest # <<>>
        /\ IF hits = {} THEN Exit(1) /\ UNCHANGED <<ino, rest>>
           ELSE /\ ino' = Entry(CHOOSE j \in hits : \A l \in hits : j <= l).ino
                /\ rest' = Tail(rest)
                /\ Goto("walk")
        /\ UNCHANGED <<base, wanted, i, k, total, buf>>

Common ==
    \/ ParseArguments \/ FindPartition \/ ParseSuperblock
    \/ Descend \/ MatchToken
    \/ ReadDirectoryZone \/ ReadIndirectDirectory \/ OverrunBuffer
=============================================================================
