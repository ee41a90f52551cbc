------------------------------ MODULE EarlierLs ------------------------------
(***************************************************************************)
(* The earlier minls, src/assignments/assignments/program5/minls.c: one    *)
(* function that calls itself with the inode of each token's entry.        *)
(***************************************************************************)
EXTENDS MinFs

CONSTANT EarlierEntries     \* its MAX_DIRECTORY_ENTRIES
ASSUME EarlierAssumption == EarlierEntries \in Nat

VARIABLES
    at,         \* what runs next
    code,       \* the exit status, -1 while the program runs
    offset,     \* in sectors
    level,      \* how many of the partitions named are found
    inode,      \* the node findActualFile is called with
    tokens,     \* what strtok has still to deliver
    zones,      \* the direct zones read
    directory,  \* the entries in them
    printed     \* what was listed

earlier == <<at, code, offset, level, inode, tokens, zones, directory, printed>>

eVolume == disk.volumes[offset]
eNode == eVolume.inodes[inode]

InitEarlier ==
    /\ at = "main" /\ code = -1
    /\ offset = 0 /\ level = 0
    /\ inode = 1 /\ tokens = <<>>
    /\ zones = 0 /\ directory = <<>>
    /\ printed = Nothing

ExitEarlier(n) == at' = "exit" /\ code' = n % 256
Resume(label) == at' = label /\ UNCHANGED code

\* What is done with memory overwritten or never set may come to anything.
RunAstray ==
    /\ \E any \in 0..1 : ExitEarlier(any)
    /\ printed' \in {Nothing, Garbled}
    /\ UNCHANGED <<offset, level, inode, tokens, zones, directory>>

-----------------------------------------------------------------------------
\* main: a name without a directory is not taken for minls, and then the path
\* is opened as if it were the image.  For minls, the last word but one is the
\* image if it is no flag, also where it is a number and the image follows.
ImageMistaken ==
    IF args.plain THEN args.path # <<>>
    ELSE args.path = <<>> /\ args.apart /\ args.parts # <<>>

\* Only a number glued to its flag is read.
NumberRead(n) == IF args.apart THEN 0 ELSE args.parts[n]

ReadArguments ==
    /\ at = "main"
    /\ IF args.opens /\ ~ImageMistaken
       THEN Resume("initialize") ELSE ExitEarlier(1)
    /\ tokens' = args.path
    /\ UNCHANGED <<offset, level, inode, zones, directory, printed>>

\* initialize: the number of a partition counts sizes of the table's first
\* entry.  A first subpartition of another type is only complained about.
ReadPartition ==
    LET first == disk.tables[offset][0]
    IN  /\ at = "initialize" /\ level < Len(args.parts)
        /\ IF offset \notin DOMAIN disk.tables \/ (level = 0 /\ ~first.minix)
           THEN ExitEarlier(1) /\ UNCHANGED <<offset, level>>
           ELSE /\ offset' = IF first.minix
                             THEN first.lFirst + NumberRead(level + 1) * first.size
                             ELSE offset
                /\ level' = level + 1
                /\ UNCHANGED <<at, code>>
        /\ UNCHANGED <<inode, tokens, zones, directory, printed>>

\* An image too short for a superblock is only complained about.
MissSuperblock ==
    /\ at = "initialize" /\ level = Len(args.parts)
    /\ ~HasSuperblock(disk, offset)
    /\ RunAstray

ReadSuperblock ==
    /\ at = "initialize" /\ level = Len(args.parts)
    /\ HasSuperblock(disk, offset)
    /\ IF offset \in DOMAIN disk.volumes THEN Resume("zones")
       ELSE ExitEarlier(IF args.parts = <<>> THEN 1 ELSE 256)
    /\ UNCHANGED <<offset, level, inode, tokens, zones, directory, printed>>

-----------------------------------------------------------------------------
(***************************************************************************)
(* findActualFile.  It reads files too, and does not look at what it read. *)
(***************************************************************************)
ZoneParts == IF eNode.mode = "directory" THEN ZoneEntries ELSE ZoneWords
MoreZones == zones * ZoneParts <= eNode.size /\ zones < DirectZones

\* How far one more zone, or the copy of the entries, fills its buffer.
Filled ==
    IF MoreZones THEN (zones + 1) * ZoneEntries
    ELSE IF eNode.mode = "directory" THEN eNode.size ELSE 0

Overfill ==
    /\ at = "zones" /\ Filled > EarlierEntries
    /\ RunAstray

\* All is read, and there was room for it.
Looks == at = "zones" /\ ~MoreZones /\ Filled <= EarlierEntries

ReadZone ==
    LET zone == eNode.zone[zones + 1]
    IN  /\ at = "zones" /\ MoreZones /\ Filled <= EarlierEntries
        /\ directory' = directory \o
              (IF zone \in DOMAIN eVolume.entries THEN eVolume.entries[zone]
               ELSE [j \in 1..ZoneEntries |-> Blank])
        /\ zones' = zones + 1
        /\ UNCHANGED <<at, code, offset, level, inode, tokens, printed>>

\* The entries the size asks for; where no zone was read, what calloc left.
EarlierListed ==
    [j \in 1..eNode.size |-> IF j <= Len(directory) THEN directory[j] ELSE Blank]

PrintEarlier ==
    /\ Looks /\ eNode.mode = "directory" /\ tokens = <<>>
    /\ printed' = [what |-> "directory",
                   rows |-> DirectoryRows(eVolume, Undeleted(EarlierListed))]
    /\ ExitEarlier(0)
    /\ UNCHANGED <<offset, level, inode, tokens, zones, directory>>

\* A slip: the recursive call goes on where the zones of this one ended.
RecurseOn ==
    LET hits == {j \in DOMAIN EarlierListed : EarlierListed[j].name = Head(tokens)}
    IN  /\ Looks /\ eNode.mode = "directory" /\ tokens # <<>>
        /\ IF hits = {} THEN ExitEarlier(0) /\ UNCHANGED <<inode, tokens>>
           ELSE /\ \E hit \in hits : inode' = EarlierListed[hit].ino
                /\ tokens' = Tail(tokens)
                /\ UNCHANGED <<at, code>>
        /\ UNCHANGED <<offset, level, zones, directory, printed>>

Recurse ==
    LET hits == {j \in DOMAIN EarlierListed : EarlierListed[j].name = Head(tokens)}
        hit == CHOOSE j \in hits : \A l \in hits : j <= l
    IN  /\ Looks /\ eNode.mode = "directory" /\ tokens # <<>>
        /\ IF hits = {}
           THEN ExitEarlier(0) /\ UNCHANGED <<inode, tokens, zones, directory>>
           ELSE /\ inode' = EarlierListed[hit].ino
                /\ tokens' = Tail(tokens)
                /\ zones' = 0 /\ directory' = <<>>
                /\ UNCHANGED <<at, code>>
        /\ UNCHANGED <<offset, level, printed>>

\* A file ends the search, whatever is left of the path.
PrintFile ==
    /\ Looks /\ eNode.mode # "directory"
    /\ printed' = IF eNode.mode = "regular"
                  THEN [what |-> "file", rows |-> <<Row(args.path, eNode)>>]
                  ELSE Nothing
    /\ ExitEarlier(0)
    /\ UNCHANGED <<offset, level, inode, tokens, zones, directory>>

Earlier ==
    \/ ReadArguments \/ ReadPartition \/ MissSuperblock \/ ReadSuperblock
    \/ Overfill \/ ReadZone \/ PrintEarlier \/ Recurse \/ PrintFile
=============================================================================
