-------------------------------- MODULE MinFs --------------------------------
(***************************************************************************)
(* Disks that hold MINIX file systems, what is asked of them, and what the *)
(* answer is: the reference the readers of src/assignments/my_program5 and *)
(* src/assignments/assignments/program5 are checked against.               *)
(*                                                                         *)
(* Sizes are counted in what a zone is made of: a file's in words of four  *)
(* bytes, a directory's in entries.  A word is a number, since a zone of   *)
(* words is either data or a table of zone numbers; 0 is a word of zeroes, *)
(* and as a zone number a hole.                                            *)
(***************************************************************************)
EXTENDS Integers, Sequences

CONSTANTS
    DirectZones,    \* DIRECT_ZONES
    ZoneWords,      \* words in a zone, which are also the entries of a table
    ZoneEntries,    \* directory entries in a zone
    Inputs          \* families of disks and arguments to start the programs with

ASSUME GeometryAssumption ==
    {DirectZones, ZoneWords, ZoneEntries} \subseteq Nat \ {0}

\* What an inode and an entry hold.
Modes == {"directory", "regular", "other"}
Nodes == [mode : Modes, size : Nat, zone : [1..DirectZones -> Nat],
          indirect : Nat, two_indirect : Nat]
Entries == [ino : Nat, name : STRING]

\* Both are only read.  disk: the partition tables and the file systems, by
\* the sector they start at, and sectors is how many the image has.  args: opens
\* and writes say whether the image and the output file can be opened; parts are
\* the numbers given with -p and -s; path is split at its slashes, and empty
\* when there is none; plain and apart are about how the command was typed: as
\* minls without a directory, and its numbers as words of their own.
VARIABLES disk, args
input == <<disk, args>>

Largest == 3        \* a partition table's last entry
\* An entry of zeroes.
Blank == [ino |-> 0, name |-> ""]

-----------------------------------------------------------------------------
(***************************************************************************)
(* What a file system fs holds.                                            *)
(***************************************************************************)
Word(fs, zone, j) ==
    IF zone \in DOMAIN fs.table THEN fs.table[zone][j] ELSE zone * ZoneWords + j

\* The zone that holds the part k, counted from 0, of a file or directory.
ZoneOf(fs, node, k) ==
    LET past == k - DirectZones - ZoneWords
        second == fs.table[node.two_indirect][(past \div ZoneWords) + 1]
    IN  IF k < DirectZones THEN node.zone[k + 1]
        ELSE IF past < 0
        THEN IF node.indirect = 0 THEN 0
             ELSE fs.table[node.indirect][k - DirectZones + 1]
        ELSE IF node.two_indirect = 0 \/ second = 0 THEN 0
             ELSE fs.table[second][(past % ZoneWords) + 1]

Contents(fs, node) ==
    [j \in 1..node.size |->
        LET zone == ZoneOf(fs, node, (j - 1) \div ZoneWords)
        IN  IF zone = 0 THEN 0 ELSE Word(fs, zone, ((j - 1) % ZoneWords) + 1)]

Listed(fs, node) ==
    [j \in 1..node.size |->
        fs.entries[ZoneOf(fs, node, (j - 1) \div ZoneEntries)]
                  [((j - 1) % ZoneEntries) + 1]]

\* The entries of a list that are not deleted.
Undeleted(list) == SelectSeq(list, LAMBDA e : e.ino # 0)
LiveEntries(fs, node) == Undeleted(Listed(fs, node))

IsDirectory(fs, ino) == ino # 0 /\ fs.inodes[ino].mode = "directory"

\* One step down a path; 0 when there is no such file.
Child(fs, ino, name) ==
    LET list == Listed(fs, fs.inodes[ino])
        hits == {j \in DOMAIN list : list[j].ino # 0 /\ list[j].name = name}
    IN  IF IsDirectory(fs, ino) /\ hits # {}
        THEN list[CHOOSE j \in hits : TRUE].ino ELSE 0

\* Where the first n names of a path lead.
Steps(fs, path) ==
    LET to[n \in 0..Len(path)] ==
            IF n = 0 THEN 1 ELSE Child(fs, to[n - 1], path[n])
    IN  to

Resolve(fs, path) == Steps(fs, path)[Len(path)]

-----------------------------------------------------------------------------
(***************************************************************************)
(* Where the file system asked for starts, and the file asked for.         *)
(***************************************************************************)
ValidEntry(sector, n) ==
    sector \in DOMAIN disk.tables /\ disk.tables[sector][n].minix

\* The first sector of a partition of the table in this one; -1 when there is none.
FirstSector(sector, n) ==
    IF sector >= 0 /\ ValidEntry(sector, n) THEN disk.tables[sector][n].lFirst ELSE -1

\* Where the first n of the numbers given lead, and all of them.
Sectors ==
    LET to[n \in 0..Len(args.parts)] ==
            IF n = 0 THEN 0 ELSE FirstSector(to[n - 1], args.parts[n])
    IN  to

Partition == Sectors[Len(args.parts)]

\* A superblock is in the third of a file system's sectors.
HasSuperblock(d, sector) == sector + 2 < d.sectors

Mounted == args.opens /\ Partition \in DOMAIN disk.volumes
Volume == disk.volumes[Partition]
Target == Resolve(Volume, args.path)

-----------------------------------------------------------------------------
(***************************************************************************)
(* What makes a disk one of a MINIX system: what a run may start from.     *)
(***************************************************************************)
\* A directory has all its zones and each name once.
SoundDirectory(fs, node) ==
    /\ node.size > DirectZones * ZoneEntries => node.indirect \in DOMAIN fs.table \ {0}
    /\ \A j \in 1..node.size :
          ZoneOf(fs, node, (j - 1) \div ZoneEntries) \in DOMAIN fs.entries
    /\ \A j, l \in 1..node.size :
          Listed(fs, node)[j].name = Listed(fs, node)[l].name => j = l

\* A file is as large as its tables allow, and each of them is there or a hole.
SoundFile(fs, node) ==
    /\ node.size <= (DirectZones + ZoneWords + ZoneWords * ZoneWords) * ZoneWords
    /\ node.indirect # 0 => node.indirect \in DOMAIN fs.table
    /\ node.two_indirect # 0 =>
          /\ node.two_indirect \in DOMAIN fs.table
          /\ \A j \in 1..ZoneWords : LET second == fs.table[node.two_indirect][j]
                                   IN  second # 0 => second \in DOMAIN fs.table

\* Entries lead to inodes, the root is a directory, its own ".", and nothing in
\* the place of inode 0 looks like a directory.
SoundVolume(fs) ==
    /\ 0..1 \subseteq DOMAIN fs.inodes
    /\ \A zone \in DOMAIN fs.table : fs.table[zone] \in [1..ZoneWords -> Nat]
    /\ \A zone \in DOMAIN fs.entries :
          /\ fs.entries[zone] \in [1..ZoneEntries -> Entries]
          /\ \A j \in 1..ZoneEntries : fs.entries[zone][j].ino \in DOMAIN fs.inodes
    /\ \A ino \in DOMAIN fs.inodes :
          LET node == fs.inodes[ino]
          IN  /\ node \in Nodes
              /\ node.mode = "directory" => SoundDirectory(fs, node)
              /\ node.mode = "regular" => SoundFile(fs, node)
    /\ fs.inodes[0].mode # "directory" /\ fs.inodes[1].mode = "directory"
    /\ Child(fs, 1, ".") = 1

SoundTable(table) ==
    \A n \in 0..Largest : table[n].lFirst \in Nat /\ table[n].size \in Nat

SoundDisk(d) ==
    /\ DOMAIN d.volumes \subseteq Nat /\ d.sectors \in Nat
    /\ \A sector \in DOMAIN d.volumes :
          SoundVolume(d.volumes[sector]) /\ HasSuperblock(d, sector)
    /\ \A sector \in DOMAIN d.tables : SoundTable(d.tables[sector])

SoundArguments(a) ==
    /\ a.tool \in {"minls", "minget"}
    /\ a.path \in Seq(STRING) /\ a.parts \in Seq(0..Largest)

\* What a line of minls says of a file.
Row(name, node) == [name |-> name, mode |-> node.mode, size |-> node.size]
DirectoryRows(fs, list) ==
    [j \in DOMAIN list |-> Row(list[j].name, fs.inodes[list[j].ino])]

Nothing == [what |-> "nothing", rows |-> <<>>]
\* Whatever is printed once memory was overwritten, or read before it was set.
Garbled == [what |-> "garbled", rows |-> <<>>]
=============================================================================
