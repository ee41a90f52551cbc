----------------------------- MODULE MinReaders -----------------------------
(***************************************************************************)
(* minls and minget of my_program5 next to the earlier minls of program5,  *)
(* all given the same disk and the same arguments.  No state is shared but *)
(* the disk, which nobody writes, so the earlier program runs second.      *)
(***************************************************************************)
EXTENDS MinTools, EarlierLs

vars == <<input, tool, earlier>>

Init ==
    /\ \E family \in Inputs : \E started \in family :
          disk = started.disk /\ args = started.args
    /\ InitTools /\ InitEarlier

RunTool == pc # "exit" /\ Tool /\ UNCHANGED <<input, earlier>>
RunEarlier ==
    /\ pc = "exit" /\ args.tool = "minls"
    /\ Earlier /\ UNCHANGED <<input, tool>>

Next == RunTool \/ RunEarlier

Spec == Init /\ [][Next]_vars

Finished == pc = "exit" /\ (args.tool = "minls" => at = "exit")

-----------------------------------------------------------------------------
Labels == {"arguments", "partition", "walk", "entries", "overrun", "direct",
           "call", "indirect", "exit"}

\* Every variable has its type: the counters count, the programs are at a
\* label of theirs and have a status once they have exited.
TypeOK ==
    /\ pc \in Labels /\ status \in -1..1 /\ (status = -1 <=> pc # "exit")
    /\ at \in {"main", "initialize", "zones", "exit"}
    /\ code \in -1..255 /\ (code = -1 <=> at # "exit")
    /\ {base, ino, i, k, total, done, tableZone, d} \subseteq Nat
    /\ i <= DirectZones + 1 /\ k <= ZoneWords /\ d <= ZoneWords + 1
    /\ {offset, level, inode, zones} \subseteq Nat
    /\ \A j \in DOMAIN out : out[j] \in Nat

(***************************************************************************)
(* What the programs answer.                                               *)
(***************************************************************************)
TargetNode == Volume.inodes[Target]

Answerable ==
    /\ Mounted /\ Target # 0
    /\ \/ args.tool = "minls" /\ TargetNode.mode \in {"directory", "regular"}
       \/ args.tool = "minget" /\ TargetNode.mode = "regular" /\ args.writes

\* Where a deleted entry's inode number, 0, leads: to the end of the zone
\* bitmap, which only a disk with many zones fills.
BlankBitmapEnd == Mounted => Volume.inodes[0].mode = "other"

\* The directories the path leads through, the last one included.
OnTheWay ==
    {Steps(Volume, args.path)[j] : j \in 0..Len(args.path)} \ {0}

\* A directory's zones, which are read whole, fit the buffer; so do those of all
\* the directories on the way.  The disk decides that, the program does not ask.
ZonesOf(size) == (size + ZoneEntries - 1) \div ZoneEntries
Fits(on) == on.mode = "directory" => ZonesOf(on.size) * ZoneEntries <= MaxEntries
DirectoriesFit == Mounted => \A n \in OnTheWay : Fits(Volume.inodes[n])

\* minls and minget succeed for what the path names through live entries of
\* directories, in the partition asked for, and fail for everything else:
\* deleted names, paths through files, links, wrong partitions; as long as the
\* directories fit the buffer.
\* get_partition_offset, parse_superblock, get_inode_from_path.
AnswersWhatIsNamed ==
    pc = "exit" /\ BlankBitmapEnd /\ DirectoriesFit => (status = 0 <=> Answerable)

Expected ==
    IF TargetNode.mode = "regular"
    THEN [what |-> "file", rows |-> <<Row(args.path, TargetNode)>>]
    ELSE [what |-> "directory",
          rows |-> DirectoryRows(Volume, LiveEntries(Volume, TargetNode))]

\* minls lists the live entries of a directory, those in the indirect zone
\* too, in their order and each with its own inode's mode and size, as long as
\* the directories fit the buffer.
\* directory_entries_from_inode and print_directory.
ListsTheDirectory ==
    status = 0 /\ args.tool = "minls" /\ Answerable /\ DirectoriesFit =>
        shown = Expected

-----------------------------------------------------------------------------
\* How many parts of a file there are, and those under a table that is missing.
Parts == (TargetNode.size + ZoneWords - 1) \div ZoneWords
TablesPresent ==
    LET double == Volume.table[TargetNode.two_indirect]
        past == Parts - DirectZones - ZoneWords
    IN  /\ Parts > DirectZones => TargetNode.indirect # 0
        /\ past > 0 =>
              /\ TargetNode.two_indirect # 0
              /\ \A j \in 1..ZoneWords : (j - 1) * ZoneWords < past => double[j] # 0

\* What minget has written agrees with the file, holes included, as far as
\* both go, and is never shorter in the end, unless a whole table of the file
\* is a hole.  The copying is done by two loops and one function called in two
\* ways, which pass the count of bytes on to each other.
OutputStartsWithFile ==
    LET data == Contents(Volume, TargetNode)
    IN  args.tool = "minget" /\ Answerable /\ DirectoriesFit /\ TablesPresent =>
            /\ \A j \in DOMAIN out : j <= Len(data) => out[j] = data[j]
            /\ status = 0 => Len(out) >= Len(data)

\* A file that needs no indirect zone is copied to its last byte and no
\* further, except that a hole at its end is written as a whole zone.
SmallFileIsWhole ==
    LET size == TargetNode.size
        hole == size > 0 /\ ZoneOf(Volume, TargetNode, Parts - 1) = 0
    IN  /\ status = 0 /\ args.tool = "minget" /\ Answerable
        /\ DirectoriesFit /\ Parts <= DirectZones
        => Len(out) = IF hole THEN Parts * ZoneWords ELSE size

\* minget writes the bytes of the file.  It does not: the total of the first
\* call of handle_indirect_zone is dropped, so whatever is longer than its
\* direct zones goes through the double indirect zone as well, and a table
\* that is a hole is read from zone 0.
OutputIsFile ==
    status = 0 /\ args.tool = "minget" /\ Answerable /\ DirectoriesFit =>
        out = Contents(Volume, TargetNode)

\* directory_entries_from_inode writes behind its buffer for a directory whose
\* zones do not fit, and for no other: what one directory has filled of a buffer
\* is never in the way of the next, and no directory that does not fit is read
\* to its end.
BufferHoldsDirectory ==
    /\ pc = "overrun" => ~DirectoriesFit
    /\ EntriesRead => Fits(node)

-----------------------------------------------------------------------------
(***************************************************************************)
(* The two listings.                                                       *)
(***************************************************************************)
\* Every partition is as large as the first and starts where the last ends.
EqualParts(table) ==
    /\ table[0].minix
    /\ \A n \in 1..Largest :
          /\ table[n].minix
          /\ table[n].lFirst = table[0].lFirst + n * table[0].size

\* What the earlier program handles: numbers glued to their flags, an image with
\* a superblock in it, equal partitions, zones small enough for its buffer,
\* directories in their direct zones, paths that go through directories only.
WithinReach ==
    /\ ~args.plain /\ (args.apart => args.parts = <<>>)
    /\ Partition >= 0 => HasSuperblock(disk, Partition)
    /\ DirectZones * ZoneEntries <= EarlierEntries
    /\ BlankBitmapEnd /\ DirectoriesFit
    /\ \A sector \in DOMAIN disk.tables : EqualParts(disk.tables[sector])
    /\ Mounted => \A n \in OnTheWay :
          LET on == Volume.inodes[n]
          IN  IF on.mode = "directory" THEN on.size <= DirectZones * ZoneEntries
              ELSE on.mode = "regular" => n = Target

\* There, the two programs list the same, and neither anything where the other
\* fails: two ways of finding a partition, of walking a path and of reading a
\* directory lead to the same lines.
EarlierAgrees == Finished /\ args.tool = "minls" /\ WithinReach => printed = shown
=============================================================================
