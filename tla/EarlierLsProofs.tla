--------------------------- MODULE EarlierLsProofs ---------------------------
(***************************************************************************)
(* The earlier minls prints what minls prints, on any sound disk within    *)
(* its reach: what both have to answer depends on the disk and the         *)
(* arguments only, and each comes to it on its own way.                    *)
(***************************************************************************)
EXTENDS MinReadersProofs

-----------------------------------------------------------------------------
(***************************************************************************)
(* The invariant.                                                          *)
(***************************************************************************)
\* What is to be printed.
Answer == IF Answerable THEN Lines(Volume, TargetNode) ELSE Nothing

\* initialize has followed the first of the numbers of partitions.
FindingPart ==
    /\ args.opens /\ tokens = args.path
    /\ level <= Len(args.parts) /\ offset = Sectors[level]

\* findActualFile has followed all the names but those in tokens, and has read
\* the first zones of the directory they lead to.
FindingFile ==
    LET n == Len(args.path) - Len(tokens)
    IN  /\ Mounted /\ offset = Partition
        /\ tokens \in Seq(STRING) /\ n \in Nat
        /\ \A j \in 1..Len(tokens) : tokens[j] = args.path[n + j]
        /\ inode = Steps(Volume, args.path)[n]
        /\ Len(directory) = zones * ZoneEntries
        /\ \A j \in 1..Len(directory) :
              eNode.mode = "directory" /\ j <= eNode.size
                 => directory[j] = Listed(eVolume, eNode)[j]

EarlierInv ==
    args.tool = "minls" /\ WithinReach =>
        /\ at # "exit" => printed = Nothing
        /\ at = "main" => offset = 0 /\ level = 0
        /\ at = "initialize" => FindingPart
        /\ at = "zones" => FindingFile
        /\ at = "exit" => printed = Answer

-----------------------------------------------------------------------------
(***************************************************************************)
(* The steps of the earlier minls.c.                                       *)
(***************************************************************************)
LEMMA ReachStays ==
    ASSUME UNCHANGED input
    PROVE  /\ WithinReach' = WithinReach /\ Mounted' = Mounted /\ Answer' = Answer
           /\ OnTheWay' = OnTheWay /\ disk' = disk /\ args' = args
<1>1. disk' = disk /\ args' = args
  BY DEF input
<1>2. Mounted' = Mounted
  BY <1>1, InputStays DEF Mounted
<1>3. OnTheWay' = OnTheWay
  BY <1>1, InputStays DEF OnTheWay
<1>4. BlankBitmapEnd' = BlankBitmapEnd
  BY <1>2, InputStays DEF BlankBitmapEnd
<1>5. WithinReach' = WithinReach
  BY <1>1, <1>2, <1>3, <1>4, InputStays DEF WithinReach
<1>6. Answer' = Answer
  BY <1>1, InputStays DEF Answer, Lines
<1> QED BY <1>1, <1>2, <1>3, <1>5, <1>6

\* It is enough to look at a step within reach.
LEMMA ReadArgumentsAgrees ==
    ASSUME InputInv, EarlierTypes, EarlierInv, ReadArguments, UNCHANGED input
    PROVE  EarlierInv'
<1> SUFFICES ASSUME args.tool = "minls", WithinReach
             PROVE  EarlierInv'
  BY ReachStays DEF EarlierInv
<1>1. /\ at = "main" /\ offset = 0 /\ level = 0 /\ printed = Nothing
      /\ tokens' = args.path /\ UNCHANGED <<offset, level, inode, zones, directory, printed>>
  BY DEF ReadArguments, EarlierInv
<1>2. CASE args.opens
  <2>1. at' = "initialize"
    BY <1>2 DEF ReadArguments, ImageMistaken, Resume, WithinReach
  <2>2. Len(args.parts) \in Nat /\ Sectors[0] = 0
    BY ArgumentFacts, SectorsAre
  <2>3. FindingPart'
    BY <1>1, <1>2, <2>2, InputStays, ReachStays DEF FindingPart
  <2> QED BY <1>1, <2>1, <2>3 DEF EarlierInv
<1>3. CASE ~args.opens
  <2>1. at' = "exit"
    BY <1>3 DEF ReadArguments, ExitEarlier
  <2>2. Answer = Nothing
    BY <1>3 DEF Answer, Answerable, Mounted
  <2> QED BY <1>1, <2>1, <2>2, ReachStays DEF EarlierInv
<1> QED BY <1>2, <1>3

LEMMA ReadPartitionAgrees ==
    ASSUME InputInv, EarlierTypes, EarlierInv, ReadPartition, UNCHANGED input
    PROVE  EarlierInv'
<1> SUFFICES ASSUME args.tool = "minls", WithinReach
             PROVE  EarlierInv'
  BY ReachStays DEF EarlierInv
<1> DEFINE first == disk.tables[offset][0]
           number == args.parts[level + 1]
<1>1. /\ at = "initialize" /\ level < Len(args.parts) /\ FindingPart /\ printed = Nothing
      /\ UNCHANGED <<inode, tokens, zones, directory, printed>>
      /\ level \in Nat /\ offset \in Nat
  BY DEF ReadPartition, EarlierInv, EarlierTypes
<1>2. Len(args.parts) \in Nat /\ args.parts \in Seq(0..Largest)
  BY ArgumentFacts
<1>3. level + 1 \in 1..Len(args.parts) /\ (level + 1) - 1 = level
  BY <1>1, <1>2
<1>4. number \in 0..Largest
  <2> DEFINE S == 0..Largest
  <2>1. args.parts \in Seq(S)
    BY <1>2
  <2> HIDE DEF S
  <2>2. number \in S
    BY <1>3, <2>1, ElementOfSeq
  <2> QED BY <2>2 DEF S
<1>5. Sectors[level + 1] = FirstSector(offset, number)
  <2>1. Sectors[level + 1] = FirstSector(Sectors[(level + 1) - 1], args.parts[level + 1])
    BY <1>2, <1>3, SectorsAre
  <2> QED BY <1>1, <1>3, <2>1 DEF FindingPart
<1>6. CASE offset \notin DOMAIN disk.tables
  <2>1. at' = "exit"
    BY <1>6 DEF ReadPartition, ExitEarlier
  <2>2. Partition = -1
    <3>1. Sectors[level + 1] = -1 /\ level + 1 \in 0..Len(args.parts)
      BY <1>3, <1>5, <1>6 DEF FirstSector, ValidEntry
    <3> QED BY <3>1, NowhereStays
  <2>3. Answer = Nothing
    BY <2>2 DEF Answer, Answerable, Mounted, InputInv, SoundDisk
  <2> QED BY <1>1, <2>1, <2>3, ReachStays DEF EarlierInv
<1>7. CASE offset \in DOMAIN disk.tables
  <2>1. EqualParts(disk.tables[offset]) /\ SoundTable(disk.tables[offset])
    BY <1>7 DEF WithinReach, InputInv, SoundDisk
  <2>2. /\ first.minix /\ first.lFirst \in Nat /\ first.size \in Nat
    BY <2>1 DEF EqualParts, SoundTable, Largest
  <2>3. /\ offset' = first.lFirst + number * first.size
        /\ level' = level + 1 /\ UNCHANGED <<at, code>>
    <3>1. NumberRead(level + 1) = number
      BY <1>2, <1>3 DEF NumberRead, WithinReach
    <3> QED BY <1>7, <2>2, <3>1 DEF ReadPartition
  <2>4. offset' = disk.tables[offset][number].lFirst /\ disk.tables[offset][number].minix
    <3>1. CASE number = 0
      <4>1. number * first.size = 0
        BY <2>2, <3>1
      <4> QED BY <2>2, <2>3, <3>1, <4>1
    <3>2. CASE number # 0
      <4>1. number \in 1..Largest
        BY <1>4, <3>2 DEF Largest
      <4> QED BY <2>1, <2>3, <4>1 DEF EqualParts
    <3> QED BY <3>1, <3>2
  <2>5. offset' = Sectors[level + 1]
    BY <1>1, <1>5, <1>7, <2>4 DEF FirstSector, ValidEntry
  <2>6. FindingPart'
    <3>1. level + 1 <= Len(args.parts)
      BY <1>1, <1>2
    <3> QED BY <1>1, <2>3, <2>5, <3>1, InputStays, ReachStays DEF FindingPart
  <2> QED BY <1>1, <2>3, <2>6 DEF EarlierInv
<1> QED BY <1>6, <1>7

LEMMA MissSuperblockAgrees ==
    ASSUME InputInv, EarlierTypes, EarlierInv, MissSuperblock, UNCHANGED input
    PROVE  EarlierInv'
<1> SUFFICES ASSUME args.tool = "minls", WithinReach
             PROVE  FALSE
  BY ReachStays DEF EarlierInv
<1>1. offset = Partition /\ offset \in Nat /\ ~HasSuperblock(disk, offset)
  BY DEF MissSuperblock, EarlierInv, EarlierTypes, FindingPart, Partition
<1> QED BY <1>1 DEF WithinReach

LEMMA ReadSuperblockAgrees ==
    ASSUME InputInv, EarlierTypes, EarlierInv, ReadSuperblock, UNCHANGED input
    PROVE  EarlierInv'
<1> SUFFICES ASSUME args.tool = "minls", WithinReach
             PROVE  EarlierInv'
  BY ReachStays DEF EarlierInv
<1>1. /\ at = "initialize" /\ offset = Partition /\ printed = Nothing
      /\ args.opens /\ tokens = args.path
      /\ UNCHANGED <<offset, level, inode, tokens, zones, directory, printed>>
      /\ inode = 1 /\ zones = 0 /\ directory = <<>>
  BY DEF ReadSuperblock, EarlierInv, EarlierTypes, FindingPart, Partition
<1>2. CASE offset \in DOMAIN disk.volumes
  <2>1. at' = "zones"
    BY <1>2 DEF ReadSuperblock, Resume
  <2>2. args.path \in Seq(STRING) /\ Len(args.path) - Len(args.path) = 0
    BY ArgumentFacts
  <2>3. Steps(Volume, args.path)[0] = 1
    BY ArgumentFacts, StepsAre
  <2>4. Len(directory') = 0 /\ 0 * ZoneEntries = 0
    BY <1>1, Geometry
  <2>5. \A j \in 1..Len(args.path) : args.path[j] = args.path[0 + j]
    OBVIOUS
  <2>6. Mounted
    BY <1>1, <1>2 DEF Mounted
  <2>7. FindingFile'
    BY <1>1, <2>2, <2>3, <2>4, <2>5, <2>6, InputStays, ReachStays DEF FindingFile
  <2> QED BY <1>1, <2>1, <2>7 DEF EarlierInv
<1>3. CASE offset \notin DOMAIN disk.volumes
  <2>1. at' = "exit"
    BY <1>3 DEF ReadSuperblock, ExitEarlier
  <2>2. Answer = Nothing
    BY <1>1, <1>3 DEF Answer, Answerable, Mounted
  <2> QED BY <1>1, <2>1, <2>2, ReachStays DEF EarlierInv
<1> QED BY <1>2, <1>3

-----------------------------------------------------------------------------
(***************************************************************************)
(* findActualFile.                                                         *)
(***************************************************************************)
\* Where it is, and that the rest of the path decides.
LEMMA OnItsWay ==
    ASSUME InputInv, EarlierTypes, EarlierInv, args.tool = "minls", WithinReach, at = "zones"
    PROVE  LET n == Len(args.path) - Len(tokens) IN
           /\ FindingFile /\ eVolume = Volume /\ SoundVolume(Volume)
           /\ Mounted /\ Len(args.path) \in Nat /\ Len(tokens) \in Nat
           /\ n \in 0..Len(args.path) /\ inode = Steps(Volume, args.path)[n]
           /\ inode \in DOMAIN Volume.inodes /\ eNode = Volume.inodes[inode]
           /\ eNode.size \in Nat /\ eNode.mode \in Modes
           /\ eNode.mode # "other" => inode # 0
           /\ eNode.mode = "directory" =>
                 eNode.size <= DirectZones * ZoneEntries
                 /\ SoundDirectory(Volume, eNode)
           /\ eNode.mode = "regular" => inode = Target
           /\ tokens = <<>> => inode = Target
           /\ tokens # <<>> =>
                 /\ n + 1 \in 0..Len(args.path)
                 /\ Steps(Volume, args.path)[n + 1] = Child(Volume, inode, Head(tokens))
                 /\ Child(Volume, inode, Head(tokens)) = 0 => Target = 0
<1> DEFINE n == Len(args.path) - Len(tokens)
<1>1. /\ FindingFile /\ offset = Partition /\ Mounted /\ inode \in DOMAIN eVolume.inodes
      /\ tokens \in Seq(STRING) /\ n \in Nat /\ inode = Steps(Volume, args.path)[n]
      /\ \A j \in 1..Len(tokens) : tokens[j] = args.path[n + j]
      /\ eVolume = Volume
  BY DEF EarlierInv, FindingFile, EarlierTypes, eVolume, Volume
<1>2. SoundVolume(Volume)
  BY <1>1, VolumeIsSound DEF Mounted, Volume
<1>3. Len(args.path) \in Nat /\ Len(tokens) \in Nat /\ n \in 0..Len(args.path)
  BY <1>1, ArgumentFacts
<1>4. /\ eNode = Volume.inodes[inode] /\ eNode.size \in Nat /\ eNode.mode \in Modes
      /\ eNode.mode = "directory" => SoundDirectory(Volume, eNode)
  BY <1>1, <1>2, NodeFacts DEF eNode
<1>5. eNode.mode # "other" => inode # 0
  BY <1>1, <1>4 DEF WithinReach, BlankBitmapEnd
<1>6. inode # 0 => inode \in OnTheWay
  BY <1>1, <1>3 DEF OnTheWay
<1>7. /\ eNode.mode = "directory" => eNode.size <= DirectZones * ZoneEntries
      /\ eNode.mode = "regular" => inode = Target
  <2>1. inode \in OnTheWay =>
           IF eNode.mode = "directory" THEN eNode.size <= DirectZones * ZoneEntries
           ELSE eNode.mode = "regular" => inode = Target
    BY <1>1, <1>4 DEF WithinReach
  <2> QED BY <1>5, <1>6, <2>1
<1>8. tokens = <<>> => inode = Target
  BY <1>1, <1>3 DEF Target, Resolve
<1>9. ASSUME tokens # <<>>
      PROVE  /\ n + 1 \in 0..Len(args.path)
             /\ Steps(Volume, args.path)[n + 1] = Child(Volume, inode, Head(tokens))
             /\ Child(Volume, inode, Head(tokens)) = 0 => Target = 0
  <2>1. Len(tokens) \in Nat \ {0} /\ Head(tokens) = tokens[1]
    BY <1>1, <1>9
  <2>2. n + 1 \in 1..Len(args.path) /\ (n + 1) - 1 = n /\ tokens[1] = args.path[n + 1]
    BY <1>1, <1>3, <2>1
  <2> HIDE DEF n
  <2>3. Steps(Volume, args.path)[n + 1]
        = Child(Volume, Steps(Volume, args.path)[(n + 1) - 1], args.path[n + 1])
    BY <1>3, <2>2, StepsAre
  <2>4. Steps(Volume, args.path)[n + 1] = Child(Volume, inode, Head(tokens))
    BY <1>1, <2>1, <2>2, <2>3
  <2>5. n + 1 \in 0..Len(args.path) /\ Len(args.path) \in n + 1..Len(args.path)
    BY <1>3, <2>2
  <2>6. Steps(Volume, args.path)[n + 1] = 0 => Target = 0
    BY <1>3, <2>5, NoWay DEF Target, Resolve
  <2> QED BY <2>4, <2>5, <2>6
<1> QED BY <1>1, <1>2, <1>3, <1>4, <1>5, <1>7, <1>8, <1>9

\* When the zones are read, so is the directory.
LEMMA AllRead ==
    ASSUME InputInv, EarlierTypes, EarlierInv, args.tool = "minls", WithinReach, at = "zones",
           ~MoreZones, eNode.mode = "directory"
    PROVE  EarlierListed = Listed(Volume, eNode)
<1>1. /\ FindingFile /\ eVolume = Volume /\ eNode.size \in Nat
      /\ eNode.size <= DirectZones * ZoneEntries
  BY OnItsWay
<1>2. /\ zones \in Nat /\ zones <= DirectZones /\ Len(directory) = zones * ZoneEntries
  BY <1>1 DEF EarlierTypes, FindingFile
<1>3. zones * ZoneEntries \in Nat
  BY <1>2, Geometry, ProductOrder
<1>4. eNode.size <= Len(directory)
  <2>1. CASE zones = DirectZones
    BY <1>1, <1>2, <2>1
  <2>2. CASE zones # DirectZones
    BY <1>1, <1>2, <1>3, <2>2, Geometry DEF MoreZones, ZoneParts
  <2> QED BY <2>1, <2>2
<1>5. \A j \in 1..eNode.size : directory[j] = Listed(eVolume, eNode)[j] /\ j <= Len(directory)
  BY <1>1, <1>2, <1>3, <1>4 DEF FindingFile
<1>6. EarlierListed = [j \in 1..eNode.size |-> Listed(Volume, eNode)[j]]
  BY <1>1, <1>5 DEF EarlierListed
<1>7. Listed(Volume, eNode) = [j \in 1..eNode.size |-> Listed(Volume, eNode)[j]]
  BY DEF Listed
<1> QED BY <1>6, <1>7

\* Within reach there is room in the buffer.
LEMMA OverfillAgrees ==
    ASSUME InputInv, EarlierTypes, EarlierInv, Overfill, UNCHANGED input
    PROVE  EarlierInv'
<1> SUFFICES ASSUME args.tool = "minls", WithinReach
             PROVE  FALSE
  BY ReachStays DEF EarlierInv
<1>1. /\ at = "zones" /\ Filled > EarlierEntries /\ zones \in Nat
      /\ DirectZones * ZoneEntries <= EarlierEntries /\ EarlierEntries \in Nat
      /\ DirectZones * ZoneEntries \in Nat
  BY EarlierAssumption, Geometry, ProductOrder DEF Overfill, EarlierTypes, WithinReach
<1>2. eNode.size \in Nat /\ (eNode.mode = "directory" => eNode.size <= DirectZones * ZoneEntries)
  BY <1>1, OnItsWay
<1>3. CASE MoreZones
  <2>1. Filled = (zones + 1) * ZoneEntries /\ zones + 1 \in Nat /\ zones + 1 <= DirectZones
    BY <1>1, <1>3, Geometry DEF Filled, MoreZones
  <2>2. (zones + 1) * ZoneEntries <= DirectZones * ZoneEntries
        /\ (zones + 1) * ZoneEntries \in Nat
    BY <2>1, Geometry, ProductOrder
  <2> QED BY <1>1, <2>1, <2>2
<1>4. CASE ~MoreZones
  BY <1>1, <1>2, <1>4 DEF Filled
<1> QED BY <1>3, <1>4

LEMMA ReadZoneAgrees ==
    ASSUME InputInv, EarlierTypes, EarlierInv, ReadZone, UNCHANGED input
    PROVE  EarlierInv'
<1> SUFFICES ASSUME args.tool = "minls", WithinReach
             PROVE  EarlierInv'
  BY ReachStays DEF EarlierInv
<1> DEFINE zone == eNode.zone[zones + 1]
           new == IF zone \in DOMAIN eVolume.entries THEN eVolume.entries[zone]
                  ELSE [j \in 1..ZoneEntries |-> Blank]
<1>1. /\ at = "zones" /\ zones < DirectZones /\ disk' = disk
      /\ directory' = directory \o new /\ zones' = zones + 1
      /\ UNCHANGED <<at, code, offset, level, inode, tokens, printed>>
      /\ zones \in Nat /\ directory \in Seq(Held) /\ printed = Nothing
  BY DEF ReadZone, MoreZones, EarlierTypes, EarlierInv, input
<1>2. /\ FindingFile /\ eVolume = Volume /\ SoundVolume(Volume) /\ eNode.size \in Nat
      /\ eNode.mode = "directory" => SoundDirectory(Volume, eNode)
      /\ Len(directory) = zones * ZoneEntries /\ zones * ZoneEntries \in Nat
  <2>1. FindingFile
    BY <1>1, OnItsWay
  <2> QED BY <1>1, <2>1, OnItsWay, Geometry, ProductOrder DEF FindingFile
<1>3. eVolume' = eVolume /\ eNode' = eNode
  BY <1>1 DEF eVolume, eNode
<1>4. zone = ZoneOf(Volume, eNode, zones)
  BY <1>1 DEF ZoneOf
<1>5. eNode.mode = "directory" /\ zones * ZoneEntries < eNode.size
         => zone \in DOMAIN Volume.entries
  <2> SUFFICES ASSUME eNode.mode = "directory", zones * ZoneEntries < eNode.size
               PROVE  zone \in DOMAIN Volume.entries
    OBVIOUS
  <2>1. zones * ZoneEntries + 1 \in 1..eNode.size
    BY <1>2
  <2>2. (zones * ZoneEntries + 1) - 1 = zones * ZoneEntries + 0
    BY <1>2
  <2>3. (zones * ZoneEntries + 0) \div ZoneEntries = zones
    BY <1>1, DivMod, Geometry
  <2> QED BY <1>2, <1>4, <2>1, <2>2, <2>3 DEF SoundDirectory
<1>6. new \in Seq(Held) /\ Len(new) = ZoneEntries
  <2>1. CASE zone \in DOMAIN eVolume.entries
    <3>1. new \in Seq(Entries) /\ Len(new) = ZoneEntries
      BY <1>2, <2>1, EntryFacts
    <3> QED BY <3>1, SeqMonotonic DEF Held
  <2>2. CASE zone \notin DOMAIN eVolume.entries
    <3>1. Blank \in Held
      BY DEF Held
    <3> HIDE DEF zone
    <3>2. new = [j \in 1..ZoneEntries |-> Blank]
      BY <2>2
    <3> QED BY <3>1, <3>2, Geometry
  <2> QED BY <2>1, <2>2
<1> HIDE DEF new
<1>7. /\ Len(directory') = Len(directory) + ZoneEntries
      /\ \A j \in 1..Len(directory) + ZoneEntries :
            directory'[j] = IF j <= Len(directory) THEN directory[j]
                            ELSE new[j - Len(directory)]
  BY <1>1, <1>6, ConcatProperties
<1>8. Len(directory') = zones' * ZoneEntries
  <2>1. (zones + 1) * ZoneEntries = zones * ZoneEntries + ZoneEntries
    BY <1>1, Geometry
  <2> QED BY <1>1, <1>2, <1>7, <2>1
<1>9. ASSUME NEW j \in 1..Len(directory'), eNode.mode = "directory", j <= eNode.size
      PROVE  directory'[j] = Listed(eVolume, eNode)[j]
  <2>0. ZoneEntries \in Nat \ {0}
    BY Geometry
  <2>1. CASE j <= Len(directory)
    <3>1. j \in 1..Len(directory) /\ j \in 1..Len(directory) + ZoneEntries
      BY <1>2, <1>7, <2>0, <2>1
    <3> QED BY <1>1, <1>2, <1>7, <1>9, <2>1, <3>1 DEF FindingFile
  <2>2. CASE ~(j <= Len(directory))
    <3> DEFINE r == j - Len(directory) - 1
    <3>1. /\ r \in 0..ZoneEntries - 1 /\ j - 1 = zones * ZoneEntries + r
          /\ j - Len(directory) = r + 1
      BY <1>2, <1>7, <2>0, <2>2
    <3>2. directory'[j] = new[r + 1]
      BY <1>2, <1>7, <2>0, <2>2, <3>1
    <3> HIDE DEF r
    <3>3. (j - 1) \div ZoneEntries = zones /\ (j - 1) % ZoneEntries = r
      BY <1>1, <2>0, <3>1, DivMod
    <3>4. j \in 1..eNode.size /\ zones * ZoneEntries < eNode.size
      BY <1>2, <1>7, <1>9, <2>0, <2>2
    <3>5. Listed(Volume, eNode)[j] = Volume.entries[ZoneOf(Volume, eNode, zones)][r + 1]
      BY <3>3, <3>4 DEF Listed
    <3>6. new = Volume.entries[zone]
      BY <1>2, <1>5, <1>9, <3>4 DEF new
    <3> QED BY <1>2, <1>4, <3>2, <3>5, <3>6
  <2> QED BY <2>1, <2>2
<1>10. FindingFile'
  BY <1>1, <1>2, <1>3, <1>8, <1>9, InputStays, ReachStays DEF FindingFile
<1> QED BY <1>1, <1>10 DEF EarlierInv

LEMMA PrintEarlierAgrees ==
    ASSUME InputInv, EarlierTypes, EarlierInv, PrintEarlier, UNCHANGED input
    PROVE  EarlierInv'
<1> SUFFICES ASSUME args.tool = "minls", WithinReach
             PROVE  EarlierInv'
  BY ReachStays DEF EarlierInv
<1>1. /\ at = "zones" /\ ~MoreZones /\ eNode.mode = "directory" /\ tokens = <<>>
      /\ at' = "exit"
      /\ printed' = [what |-> "directory",
                     rows |-> DirectoryRows(eVolume, Undeleted(EarlierListed))]
  BY DEF PrintEarlier, Looks, ExitEarlier
<1>2. /\ inode = Target /\ inode # 0 /\ eVolume = Volume /\ Mounted
      /\ eNode = Volume.inodes[inode]
  BY <1>1, OnItsWay
<1>3. EarlierListed = Listed(Volume, eNode)
  BY <1>1, AllRead
<1>4. eNode = TargetNode
  BY <1>2 DEF TargetNode
<1>5. Answer = [what |-> "directory",
                rows |-> DirectoryRows(Volume, LiveEntries(Volume, TargetNode))]
  BY <1>1, <1>2, <1>4 DEF Answer, Answerable, Lines
<1>6. printed' = Answer
  BY <1>1, <1>2, <1>3, <1>4, <1>5 DEF LiveEntries
<1> QED BY <1>1, <1>6, ReachStays DEF EarlierInv

LEMMA RecurseAgrees ==
    ASSUME InputInv, EarlierTypes, EarlierInv, Recurse, UNCHANGED input
    PROVE  EarlierInv'
<1> SUFFICES ASSUME args.tool = "minls", WithinReach
             PROVE  EarlierInv'
  BY ReachStays DEF EarlierInv
<1> DEFINE hits == {j \in DOMAIN EarlierListed : EarlierListed[j].name = Head(tokens)}
           hit == CHOOSE j \in hits : \A l \in hits : j <= l
           n == Len(args.path) - Len(tokens)
           list == Listed(Volume, eNode)
<1>1. /\ at = "zones" /\ ~MoreZones /\ eNode.mode = "directory" /\ tokens # <<>>
      /\ UNCHANGED <<offset, level, printed>> /\ printed = Nothing
  BY DEF Recurse, Looks, EarlierInv
<1>2. EarlierListed = list
  BY <1>1, AllRead
<1>3. /\ SoundVolume(Volume) /\ inode \in DOMAIN Volume.inodes
      /\ eNode = Volume.inodes[inode] /\ eNode.size \in Nat /\ FindingFile
      /\ Steps(Volume, args.path)[n + 1] = Child(Volume, inode, Head(tokens))
      /\ Child(Volume, inode, Head(tokens)) = 0 => Target = 0
      /\ Len(args.path) \in Nat /\ Len(tokens) \in Nat /\ n \in Nat
  BY <1>1, OnItsWay
<1>4. DOMAIN list = 1..eNode.size
  BY <1>1, <1>3, ListedFacts
<1>5. CASE hits = {}
  <2>1. at' = "exit"
    BY <1>5 DEF Recurse, ExitEarlier
  <2>2. Child(Volume, inode, Head(tokens)) = 0
    <3>1. \A j \in 1..eNode.size : list[j].name # Head(tokens)
      BY <1>2, <1>4, <1>5
    <3> QED BY <1>1, <1>3, <3>1, ChildIs
  <2>3. Answer = Nothing
    BY <1>3, <2>2 DEF Answer, Answerable
  <2> QED BY <1>1, <2>1, <2>3, ReachStays DEF EarlierInv
<1>6. CASE hits # {}
  <2>1. /\ inode' = EarlierListed[hit].ino /\ tokens' = Tail(tokens)
        /\ zones' = 0 /\ directory' = <<>> /\ UNCHANGED <<at, code>>
    BY <1>6 DEF Recurse
  <2>2. hit \in hits
    <3>1. hits \in SUBSET Nat
      BY <1>2, <1>4
    <3>2. \E j \in hits : \A l \in hits : j <= l
      BY <1>6, <3>1, LeastNumber
    <3> HIDE DEF hits
    <3> QED BY <3>2
  <2> HIDE DEF hit
  <2>3. hit \in 1..eNode.size /\ list[hit].name = Head(tokens)
    BY <1>2, <1>4, <2>2
  <2>4. Child(Volume, inode, Head(tokens)) = list[hit].ino
    BY <1>1, <1>3, <2>3, ChildIs
  <2>5. inode' = Steps(Volume, args.path)[n + 1]
    BY <1>2, <1>3, <2>1, <2>4
  <2>6. /\ Tail(tokens) \in Seq(STRING) /\ Len(Tail(tokens)) = Len(tokens) - 1
        /\ \A j \in 1..Len(Tail(tokens)) : Tail(tokens)[j] = tokens[j + 1]
    BY <1>1, <1>3, HeadTailProperties DEF FindingFile
  <2>7. Len(args.path) - Len(tokens') = n + 1 /\ n + 1 \in Nat
    BY <1>3, <2>1, <2>6
  <2>8. \A j \in 1..Len(tokens') : tokens'[j] = args.path[(n + 1) + j]
    <3> SUFFICES ASSUME NEW j \in 1..Len(tokens') PROVE tokens'[j] = args.path[(n + 1) + j]
      OBVIOUS
    <3>1. j + 1 \in 1..Len(tokens) /\ tokens'[j] = tokens[j + 1]
      BY <1>3, <2>1, <2>6
    <3>2. tokens[j + 1] = args.path[n + (j + 1)]
      BY <1>3, <3>1 DEF FindingFile
    <3>3. n + (j + 1) = (n + 1) + j
      <4>1. j \in Nat /\ n \in Nat
        BY <1>3, <2>1, <2>6
      <4> HIDE DEF n
      <4> QED BY <4>1
    <3> QED BY <3>1, <3>2, <3>3
  <2>9. Len(directory') = 0 /\ 0 * ZoneEntries = 0
    BY <2>1, Geometry
  <2>10. Mounted /\ offset = Partition
    BY <1>3 DEF FindingFile
  <2> HIDE DEF n
  <2>11. FindingFile'
    <3>1. /\ Mounted' /\ offset' = Partition' /\ Volume' = Volume /\ args' = args
      BY <1>1, <2>10, InputStays, ReachStays
    <3>2. tokens' \in Seq(STRING)
      BY <2>1, <2>6
    <3>3. Len(directory') = zones' * ZoneEntries /\ 1..Len(directory') = {}
      BY <2>1, <2>9
    <3> QED BY <2>5, <2>7, <2>8, <3>1, <3>2, <3>3 DEF FindingFile
  <2> QED BY <1>1, <2>1, <2>11 DEF EarlierInv
<1> QED BY <1>5, <1>6

LEMMA PrintFileAgrees ==
    ASSUME InputInv, EarlierTypes, EarlierInv, PrintFile, UNCHANGED input
    PROVE  EarlierInv'
<1> SUFFICES ASSUME args.tool = "minls", WithinReach
             PROVE  EarlierInv'
  BY ReachStays DEF EarlierInv
<1>1. /\ at = "zones" /\ eNode.mode # "directory" /\ at' = "exit"
      /\ printed' = IF eNode.mode = "regular"
                    THEN [what |-> "file", rows |-> <<Row(args.path, eNode)>>]
                    ELSE Nothing
  BY DEF PrintFile, Looks, ExitEarlier
<1>2. /\ eNode = Volume.inodes[inode] /\ eNode.mode \in Modes /\ Mounted
      /\ eNode.mode # "other" => inode # 0
      /\ eNode.mode = "regular" => inode = Target
      /\ tokens = <<>> => inode = Target
      /\ tokens # <<>> => (Child(Volume, inode, Head(tokens)) = 0 => Target = 0)
  BY <1>1, OnItsWay
<1>3. inode = Target => eNode = TargetNode
  BY <1>2 DEF TargetNode
<1>4. CASE eNode.mode = "regular"
  BY <1>1, <1>2, <1>3, <1>4, ReachStays DEF EarlierInv, Answer, Answerable, Lines
<1>5. CASE eNode.mode # "regular"
  <2>1. tokens # <<>> => Target = 0
    BY <1>1, <1>2 DEF Child, IsDirectory
  <2>2. Answer = Nothing
    BY <1>1, <1>2, <1>3, <1>5, <2>1 DEF Answer, Answerable, Modes
  <2> QED BY <1>1, <1>5, <2>2, ReachStays DEF EarlierInv
<1> QED BY <1>4, <1>5

-----------------------------------------------------------------------------
(***************************************************************************)
(* Theorems.                                                               *)
(***************************************************************************)
LEMMA EarlierInit ==
    ASSUME Init PROVE EarlierInv
  BY DEF Init, InitEarlier, EarlierInv

LEMMA EarlierStep ==
    ASSUME Inv, EarlierInv, [Next]_vars PROVE EarlierInv'
<1>1. InputInv /\ EarlierTypes /\ UNCHANGED input
  BY DEF Inv, Next, RunTool, RunEarlier, vars
<1>2. CASE UNCHANGED earlier
  <2>1. UNCHANGED <<at, code, offset, level, inode, tokens, zones, directory, printed>>
    BY <1>2 DEF earlier
  <2>2. eVolume' = eVolume /\ eNode' = eNode
    BY <1>1, <2>1, ReachStays DEF eVolume, eNode
  <2>3. FindingPart' = FindingPart /\ FindingFile' = FindingFile
    BY <1>1, <2>1, <2>2, InputStays, ReachStays DEF FindingPart, FindingFile
  <2> QED BY <1>1, <2>1, <2>3, ReachStays DEF EarlierInv
<1>3. CASE Earlier
  BY <1>1, <1>3, ReadArgumentsAgrees, ReadPartitionAgrees, ReadSuperblockAgrees,
     MissSuperblockAgrees, OverfillAgrees, ReadZoneAgrees, PrintEarlierAgrees,
     RecurseAgrees, PrintFileAgrees DEF Earlier
<1> QED BY <1>2, <1>3 DEF Next, RunTool, RunEarlier, vars

\* Within its reach the earlier minls is always on the way to what the disk and
\* the arguments ask for, and prints that.
THEOREM EarlierOnItsWay == Spec => []EarlierInv
  BY Invariance, EarlierInit, EarlierStep, PTL DEF Spec

\* Both programs list the same where numbers glued to their flags, equal
\* partitions, direct zones that fit the buffers, and paths through directories
\* are all there is, and the earlier one prints nothing where the later one fails.
THEOREM ListingsAgree == Spec => []EarlierAgrees
<1>1. ASSUME Inv, pc = "exit", args.tool = "minls", BlankBitmapEnd, DirectoriesFit
      PROVE  shown = Answer
  <2>1. status = 0 <=> Answerable
    BY <1>1, AnswerIsRight DEF AnswersWhatIsNamed
  <2>2. CASE status = 0
    <3>1. Listing /\ Inside
      BY <1>1, <2>2 DEF Inv, ToolInv, Serving, Listing, Arrives
    <3>2. volume = Volume /\ node = TargetNode
      BY <1>1, <3>1, InsideFacts DEF Inv, Listing, Arrives, node, TargetNode
    <3> QED BY <2>1, <2>2, <3>1, <3>2 DEF Listing, Answer
  <2>3. CASE status # 0
    BY <1>1, <2>1, <2>3 DEF Inv, ToolInv, Answer
  <2> QED BY <2>2, <2>3
<1>2. ASSUME Inv, EarlierInv PROVE EarlierAgrees
  BY <1>1, <1>2 DEF EarlierAgrees, EarlierInv, WithinReach, Finished
<1> QED BY <1>2, Invariance, EarlierOnItsWay, PTL
=============================================================================
