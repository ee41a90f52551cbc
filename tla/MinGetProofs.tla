---------------------------- MODULE MinGetProofs ----------------------------
(***************************************************************************)
(* What minget writes, for any sound disk: the two loops and the function  *)
(* called in two ways pass on which part of the file is next.              *)
(***************************************************************************)
EXTENDS MinReadersProofs

-----------------------------------------------------------------------------
(***************************************************************************)
(* The invariant.                                                          *)
(***************************************************************************)
Copies == {"direct", "call", "indirect"}

\* minget has started to write.
Writing == pc \in Copies \/ (pc = "exit" /\ status = 0 /\ args.tool = "minget")

\* list agrees with the file, and is as long as its first p parts or longer
\* than the file.
Written(list, p) ==
    /\ \A j \in 1..Len(list) : j <= node.size => list[j] = Contents(volume, node)[j]
    /\ Len(list) >= node.size \/ Len(list) = p * ZoneWords

\* The table that call d of handle_indirect_zone is for.
TableOf(call) ==
    IF call = 0 THEN node.indirect ELSE Word(volume, node.two_indirect, call)

\* What is counted is written, and the part of the file that comes next is that
\* of the zone read next.
CopyInv ==
    /\ ~Writing => out = <<>> /\ d = 0 /\ done = 0
    /\ pc \in Copies => total <= Len(out) /\ done <= Len(out)
    /\ pc = "direct" => d = 0
    /\ pc = "indirect" => tableZone = TableOf(d)
    /\ TablesPresent =>
          /\ pc = "direct" => Written(out, i)
          /\ pc = "call" => Written(out, DirectZones + (d * ZoneWords))
          /\ pc = "indirect" => Written(out, (DirectZones + (d * ZoneWords)) + k)
          /\ Writing /\ pc = "exit" => Written(out, 0) /\ Len(out) >= node.size

\* How long a copy is that ends with the direct zones.
WholeLength ==
    LET hole == TargetNode.size > 0 /\ ZoneOf(Volume, TargetNode, Parts - 1) = 0
    IN  IF hole THEN Parts * ZoneWords ELSE TargetNode.size

\* A small file never leaves the direct zones for others.
SmallInv ==
    Parts <= DirectZones =>
        /\ pc \notin {"call", "indirect"}
        /\ pc = "direct" =>
              /\ total = Len(out) /\ i <= Parts
              /\ Len(out) = IF i < Parts THEN i * ZoneWords ELSE WholeLength
        /\ Writing /\ pc = "exit" => Len(out) = WholeLength

-----------------------------------------------------------------------------
(***************************************************************************)
(* Files.                                                                  *)
(***************************************************************************)
\* The parts of a file: all but the last are full, none is beyond its end.
LEMMA PartsOf ==
    ASSUME NEW size \in Nat, NEW w \in Nat \ {0}
    PROVE  LET parts == (size + w - 1) \div w
           IN  /\ parts \in Nat
               /\ \A x \in Nat : x * w < size <=> x < parts
               /\ size <= parts * w
<1> DEFINE parts == (size + w - 1) \div w
           rem == (size + w - 1) % w
<1>1. parts \in Nat /\ rem \in 0..w - 1 /\ size + w - 1 = parts * w + rem
  <2>1. size + w - 1 \in Nat
    OBVIOUS
  <2> QED BY <2>1
<1> HIDE DEF parts, rem
<1>2. parts * w \in Nat /\ size <= parts * w /\ parts * w < size + w
  BY <1>1, ProductOrder
<1>3. ASSUME NEW x \in Nat PROVE x * w < size <=> x < parts
  <2>1. x * w \in Nat
    BY ProductOrder
  <2>2. ASSUME x * w < size PROVE x < parts
    <3>1. x * w < parts * w
      BY <1>2, <2>1, <2>2
    <3> QED BY <1>1, <3>1, ProductOrder
  <2>3. ASSUME x < parts PROVE x * w < size
    <3>1. (x + 1) * w <= parts * w
      BY <1>1, <2>3, ProductOrder
    <3>2. (x + 1) * w = x * w + w
      OBVIOUS
    <3> QED BY <1>2, <2>1, <3>1, <3>2
  <2> QED BY <2>2, <2>3
<1> QED BY <1>1, <1>2, <1>3 DEF parts

LEMMA ContentsAt ==
    ASSUME NEW fs, NEW node_, node_.size \in Nat, NEW p \in Nat, NEW r \in 1..ZoneWords,
           p * ZoneWords + r <= node_.size
    PROVE  Contents(fs, node_)[p * ZoneWords + r]
           = IF ZoneOf(fs, node_, p) = 0 THEN 0 ELSE Word(fs, ZoneOf(fs, node_, p), r)
<1> DEFINE j == p * ZoneWords + r
<1>1. ZoneWords \in Nat \ {0} /\ p * ZoneWords \in Nat
  BY Geometry, ProductOrder
<1>2. r - 1 \in 0..ZoneWords - 1 /\ j - 1 = p * ZoneWords + (r - 1) /\ j \in 1..node_.size
  BY <1>1
<1>3. (j - 1) \div ZoneWords = p /\ (j - 1) % ZoneWords = r - 1 /\ (r - 1) + 1 = r
  <2> DEFINE x == r - 1
  <2>1. x \in 0..ZoneWords - 1 /\ j - 1 = p * ZoneWords + x /\ x + 1 = r
    BY <1>2
  <2> HIDE DEF x, j
  <2>2. (p * ZoneWords + x) \div ZoneWords = p /\ (p * ZoneWords + x) % ZoneWords = x
    BY <1>1, <2>1, DivMod
  <2>3. (j - 1) \div ZoneWords = p /\ (j - 1) % ZoneWords = x /\ x + 1 = r
    BY <2>1, <2>2
  <2> QED BY <2>3 DEF x
<1> HIDE DEF j
<1>4. Contents(fs, node_)[j]
      = IF ZoneOf(fs, node_, (j - 1) \div ZoneWords) = 0 THEN 0
        ELSE Word(fs, ZoneOf(fs, node_, (j - 1) \div ZoneWords), ((j - 1) % ZoneWords) + 1)
  BY <1>2 DEF Contents
<1> QED BY <1>3, <1>4 DEF j

LEMMA ServingFacts ==
    ASSUME InputInv, Serving
    PROVE  /\ Inside /\ SoundVolume(volume) /\ node.size \in Nat
           /\ volume = Volume /\ node = TargetNode
           /\ node.indirect \in Nat /\ node.two_indirect \in Nat
           /\ \A z \in 1..DirectZones : node.zone[z] \in Nat
           /\ SoundFile(volume, node)
<1>1. Inside /\ Arrives /\ node.mode = "regular"
  BY DEF Serving, Arrives
<1>2. /\ SoundVolume(volume) /\ ino \in DOMAIN volume.inodes
      /\ node = volume.inodes[ino] /\ volume = Volume
  BY <1>1, InsideFacts
<1>3. node = TargetNode
  BY <1>1, <1>2 DEF Arrives, TargetNode
<1> QED BY <1>1, <1>2, <1>3, NodeFacts

\* A zone's worth more: if nothing is missing, it is the next part of the file.
LEMMA WritePiece ==
    ASSUME InputInv, Serving, out \in Seq(Nat),
           NEW zone \in Nat, NEW sofar \in Nat, NEW p \in Nat,
           sofar < node.size, sofar <= Len(out), Written(out, p),
           Len(out) < node.size => zone = ZoneOf(volume, node, p)
    PROVE  Written(out \o Piece(zone, sofar), p + 1)
<1> DEFINE piece == Piece(zone, sofar)
           next == out \o piece
           file == Contents(volume, node)
<1>1. node.size \in Nat /\ Inside
  BY ServingFacts
<1>2. /\ piece \in Seq(Nat) /\ Len(piece) \in 1..ZoneWords
      /\ Len(piece) = IF zone = 0 THEN ZoneWords ELSE Less(ZoneWords, node.size - sofar)
      /\ \A j \in 1..Len(piece) : piece[j] = IF zone = 0 THEN 0 ELSE Word(volume, zone, j)
  BY <1>1, PieceFacts
<1> HIDE DEF piece
<1>3. /\ next \in Seq(Nat) /\ Len(next) = Len(out) + Len(piece)
      /\ \A j \in 1..Len(out) + Len(piece) :
            next[j] = IF j <= Len(out) THEN out[j] ELSE piece[j - Len(out)]
  BY <1>2, ConcatProperties
<1>4. Len(out) \in Nat /\ Len(piece) \in Nat /\ ZoneWords \in Nat \ {0} /\ p * ZoneWords \in Nat
  BY <1>2, Geometry, ProductOrder
<1> HIDE DEF next
<1>5. ASSUME NEW j \in 1..Len(next), j <= node.size PROVE next[j] = file[j]
  <2>1. CASE j <= Len(out)
    <3>1. j \in 1..Len(out) /\ j \in 1..Len(out) + Len(piece)
      BY <1>3, <1>4, <2>1
    <3> QED BY <1>3, <1>5, <2>1, <3>1 DEF Written
  <2>2. CASE ~(j <= Len(out))
    <3> DEFINE r == j - Len(out)
    <3>1. Len(out) < node.size
      BY <1>1, <1>4, <1>5, <2>2
    <3>2. Len(out) = p * ZoneWords /\ zone = ZoneOf(volume, node, p)
      BY <1>1, <1>4, <3>1 DEF Written
    <3>3. r \in 1..Len(piece) /\ next[j] = piece[r]
      BY <1>3, <1>4, <2>2
    <3>4. r \in 1..ZoneWords /\ p * ZoneWords + r = j
      BY <1>2, <1>4, <3>2, <3>3
    <3> HIDE DEF r
    <3>5. file[j] = IF zone = 0 THEN 0 ELSE Word(volume, zone, r)
      BY <1>1, <1>5, <3>2, <3>4, ContentsAt
    <3> QED BY <1>2, <3>3, <3>5
  <2> QED BY <2>1, <2>2
<1>6. Len(next) >= node.size \/ Len(next) = (p + 1) * ZoneWords
  <2>1. CASE Len(out) >= node.size
    BY <1>1, <1>3, <1>4, <2>1
  <2>2. CASE Len(out) = p * ZoneWords
    <3>1. CASE Len(piece) = ZoneWords
      <4>1. (p + 1) * ZoneWords = p * ZoneWords + ZoneWords
        BY <1>4
      <4> QED BY <1>3, <2>2, <3>1, <4>1
    <3>2. CASE Len(piece) # ZoneWords
      <4>1. Len(piece) = node.size - sofar
        BY <1>2, <3>2 DEF Less
      <4> QED BY <1>1, <1>3, <1>4, <4>1
    <3> QED BY <3>1, <3>2
  <2> QED BY <2>1, <2>2 DEF Written
<1> QED BY <1>5, <1>6 DEF Written, next, piece

-----------------------------------------------------------------------------
(***************************************************************************)
(* The zone read is that of the part of the file that is written next.     *)
(***************************************************************************)
LEMMA ZoneRead ==
    ASSUME InputInv, Serving, TablesPresent, NEW call \in 0..ZoneWords, NEW k_ \in Nat,
           k_ < ZoneWords,
           ((DirectZones + (call * ZoneWords)) + k_) * ZoneWords < node.size
    PROVE  Word(volume, TableOf(call), k_ + 1)
           = ZoneOf(volume, node, (DirectZones + (call * ZoneWords)) + k_)
<1> DEFINE p == (DirectZones + (call * ZoneWords)) + k_
<1>1. /\ node.size \in Nat /\ volume = Volume /\ node = TargetNode /\ SoundFile(volume, node)
      /\ node.indirect \in Nat /\ node.two_indirect \in Nat
  BY ServingFacts
<1>2. /\ DirectZones \in Nat \ {0} /\ ZoneWords \in Nat \ {0} /\ call \in Nat
      /\ call * ZoneWords \in Nat /\ p \in Nat
  BY Geometry, ProductOrder
<1>3. p < Parts /\ Parts \in Nat
  BY <1>1, <1>2, PartsOf DEF Parts
<1>4. CASE call = 0
  <2>1. p = DirectZones + k_ /\ p >= DirectZones /\ p - DirectZones - ZoneWords < 0
        /\ p - DirectZones + 1 = k_ + 1
    BY <1>2, <1>4
  <2>2. Parts > DirectZones
    BY <1>2, <1>3, <2>1
  <2>3. node.indirect # 0 /\ node.indirect \in DOMAIN volume.table
    BY <1>1, <2>2 DEF TablesPresent, SoundFile
  <2> HIDE DEF p
  <2>4. ZoneOf(volume, node, p) = volume.table[node.indirect][k_ + 1]
    BY <1>2, <2>1, <2>3 DEF ZoneOf
  <2>5. TableOf(call) = node.indirect
    BY <1>4 DEF TableOf
  <2> QED BY <2>3, <2>4, <2>5 DEF Word, p
<1>5. CASE call # 0
  <2> DEFINE c == call - 1
             past == p - DirectZones - ZoneWords
             second == volume.table[node.two_indirect][c + 1]
  <2>1. c \in Nat /\ c + 1 = call /\ c * ZoneWords \in Nat /\ call \in 1..ZoneWords
    BY <1>2, <1>5, ProductOrder
  <2>2. past = c * ZoneWords + k_
    <3>1. call * ZoneWords = c * ZoneWords + ZoneWords
      BY <1>2, <2>1
    <3> QED BY <1>2, <2>1, <3>1
  <2>3. past \in Nat /\ ~(past < 0) /\ ~(p < DirectZones)
    BY <1>2, <2>1, <2>2
  <2>4. past \div ZoneWords = c /\ past % ZoneWords = k_
    <3>1. k_ \in 0..ZoneWords - 1
      BY <1>2
    <3> HIDE DEF past, c, p
    <3> QED BY <1>2, <2>1, <2>2, <3>1, DivMod
  <2>5. Parts - DirectZones - ZoneWords > c * ZoneWords
    BY <1>2, <1>3, <2>1, <2>2
  <2>6. node.two_indirect # 0 /\ second # 0
    <3>1. (call - 1) * ZoneWords < Parts - DirectZones - ZoneWords
      BY <1>2, <1>3, <2>1, <2>5
    <3>2. Parts - DirectZones - ZoneWords > 0
      BY <1>2, <1>3, <2>1, <2>5
    <3>3. volume.table[node.two_indirect][call] # 0 /\ node.two_indirect # 0
      BY <1>1, <2>1, <3>1, <3>2 DEF TablesPresent
    <3> QED BY <2>1, <3>3
  <2>7. node.two_indirect \in DOMAIN volume.table /\ second \in DOMAIN volume.table
    BY <1>1, <2>1, <2>6 DEF SoundFile
  <2>8. TableOf(call) = second
    BY <1>5, <2>1, <2>7 DEF TableOf, Word
  <2> HIDE DEF p, past, c
  <2>9. ZoneOf(volume, node, p) = volume.table[second][k_ + 1]
    <3>1. ZoneOf(volume, node, p)
          = IF node.two_indirect = 0
               \/ volume.table[node.two_indirect][(past \div ZoneWords) + 1] = 0
            THEN 0
            ELSE volume.table[volume.table[node.two_indirect][(past \div ZoneWords) + 1]]
                             [(past % ZoneWords) + 1]
      BY <2>3 DEF ZoneOf, past
    <3> QED BY <2>4, <2>6, <3>1
  <2> QED BY <2>7, <2>8, <2>9 DEF Word, p
<1> QED BY <1>4, <1>5

-----------------------------------------------------------------------------
(***************************************************************************)
(* Steps.                                                                  *)
(***************************************************************************)
LEMMA FileStays ==
    ASSUME UNCHANGED <<input, base, ino>>
    PROVE  /\ volume' = volume /\ node' = node /\ Serving' = Serving
           /\ TargetNode' = TargetNode /\ Volume' = Volume
           /\ Parts' = Parts /\ TablesPresent' = TablesPresent /\ WholeLength' = WholeLength
           /\ args' = args
<1>1. /\ volume' = volume /\ node' = node /\ Arrives' = Arrives /\ args' = args
  BY PlaceStays DEF input
<1>2. TargetNode' = TargetNode /\ Volume' = Volume
  BY InputStays
<1>3. Parts' = Parts
  BY <1>2 DEF Parts
<1>4. TablesPresent' = TablesPresent
  BY <1>2, <1>3 DEF TablesPresent
<1>5. WholeLength' = WholeLength
  BY <1>2, <1>3 DEF WholeLength
<1> QED BY <1>1, <1>2, <1>3, <1>4, <1>5 DEF Serving

\* Until the file is opened nothing is written.
LEMMA EarlyKeeps ==
    ASSUME InputInv, ToolInv, CopyInv, SmallInv, UNCHANGED input,
           \/ Common /\ UNCHANGED <<shown, copying>>
           \/ ListContentsOfInode
           \/ PrintDirectory
    PROVE  CopyInv' /\ SmallInv'
<1>1. UNCHANGED <<out, done, tableZone, d>> /\ args' = args
  <2>1. UNCHANGED copying
    BY DEF ListContentsOfInode, PrintDirectory
  <2> QED BY <2>1 DEF copying, input
<1>2. ~Writing
  BY DEF Writing, Copies, Common, ParseArguments, FindPartition, ParseSuperblock, Descend,
         MatchToken, EntriesRead, ReadDirectoryZone, ReadIndirectDirectory, MoreEntries,
         OverrunBuffer, ListContentsOfInode, Arrived, PrintDirectory
<1>3. pc' \notin Copies /\ ~Writing'
  <2>1. CASE Common
    BY <2>1 DEF Common, Writing, Copies, ParseArguments, FindPartition, ParseSuperblock, Descend,
         MatchToken, EntriesRead, ReadDirectoryZone, ReadIndirectDirectory, MoreEntries,
         OverrunBuffer, StartDirectory, Goto, Exit
  <2>2. CASE ListContentsOfInode
    BY <1>1, <2>2 DEF ListContentsOfInode, Writing, Copies, StartDirectory, Goto, Exit
  <2>3. CASE PrintDirectory
    <3>1. args.tool = "minls" /\ pc' = "exit"
      BY <2>3 DEF PrintDirectory, ToolInv, Reading, EntriesRead, Exit
    <3> QED BY <1>1, <3>1 DEF Writing, Copies
  <2> QED BY <2>1, <2>2, <2>3
<1>4. out = <<>> /\ d = 0 /\ done = 0
  BY <1>2 DEF CopyInv
<1>5. pc' \notin {"direct", "call", "indirect"}
  BY <1>3 DEF Copies
<1> QED BY <1>1, <1>3, <1>4, <1>5 DEF CopyInv, SmallInv

LEMMA OutputFileContentsCopies ==
    ASSUME InputInv, ToolInv, CopyInv, SmallInv, OutputFileContents, UNCHANGED input
    PROVE  CopyInv' /\ SmallInv'
<1>1. /\ pc = "walk" /\ rest = <<>> /\ args.tool = "minget" /\ Walking
      /\ i' = 0 /\ total' = 0 /\ UNCHANGED <<input, base, ino>>
      /\ UNCHANGED <<out, done, tableZone, d>>
  BY DEF OutputFileContents, Arrived, ToolInv, copying
<1>2. out = <<>> /\ d = 0 /\ done = 0 /\ Len(out) = 0 /\ Len(out') = 0
  <2>1. out = <<>> /\ d = 0 /\ done = 0
    BY <1>1 DEF CopyInv, Writing, Copies
  <2> QED BY <1>1, <2>1
<1>3. CASE node.mode = "regular" /\ args.writes
  <2>1. pc' = "direct"
    BY <1>3 DEF OutputFileContents, Goto
  <2>2. Arrives
    BY <1>1, PathEnds
  <2>3. Serving /\ node.size \in Nat /\ node = TargetNode
    BY <1>1, <1>3, <2>2, ServingFacts DEF Serving
  <2>4. 0 * ZoneWords = 0
    BY Geometry
  <2>5. CopyInv'
    <3>1. Written(out, i)'
      BY <1>1, <1>2, <2>4 DEF Written
    <3> QED BY <1>1, <1>2, <2>1, <3>1 DEF CopyInv, Writing, Copies
  <2>6. SmallInv'
    <3>1. Parts' = Parts /\ WholeLength' = WholeLength
      BY <1>1, FileStays
    <3>2. /\ Parts \in Nat /\ TargetNode.size <= Parts * ZoneWords /\ TargetNode.size \in Nat
      BY <2>3, Geometry, PartsOf DEF Parts
    <3>3. ~(0 < Parts) => WholeLength = 0
      BY <2>4, <3>2 DEF WholeLength
    <3> QED BY <1>1, <1>2, <2>1, <2>4, <3>1, <3>2, <3>3 DEF SmallInv, Writing
  <2> QED BY <2>5, <2>6
<1>4. CASE ~(node.mode = "regular" /\ args.writes)
  <2>1. pc' = "exit" /\ status' = 1
    BY <1>4 DEF OutputFileContents, Exit
  <2> QED BY <1>1, <1>2, <2>1 DEF CopyInv, SmallInv, Writing, Copies
<1> QED BY <1>3, <1>4

LEMMA CopyDirectZoneCopies ==
    ASSUME InputInv, ToolInv, CopyInv, SmallInv, CopyDirectZone, UNCHANGED input
    PROVE  CopyInv' /\ SmallInv'
<1> DEFINE zone == node.zone[i + 1]
           piece == Piece(zone, total)
<1>1. /\ pc = "direct" /\ total < node.size /\ i < DirectZones /\ Serving
      /\ out' = out \o piece /\ total' = total + Len(piece) /\ i' = i + 1
      /\ UNCHANGED <<input, base, ino>> /\ UNCHANGED <<pc, done, tableZone, d>>
  BY DEF CopyDirectZone, ToolInv
<1>2. i \in Nat /\ total \in Nat /\ out \in Seq(Nat) /\ Len(out) \in Nat /\ done \in Nat
  BY DEF ToolInv, CounterInv
<1>3. node.size \in Nat /\ Inside /\ zone \in Nat /\ node = TargetNode /\ volume = Volume
  <2>1. i + 1 \in 1..DirectZones
    BY <1>1, <1>2, Geometry
  <2> QED BY <1>1, <2>1, ServingFacts
<1>4. zone = ZoneOf(volume, node, i)
  BY <1>1 DEF ZoneOf
<1>5. /\ piece \in Seq(Nat) /\ Len(piece) \in 1..ZoneWords
      /\ Len(piece) = IF zone = 0 THEN ZoneWords ELSE Less(ZoneWords, node.size - total)
  BY <1>1, <1>2, <1>3, PieceFacts
<1>6. Len(out') = Len(out) + Len(piece) /\ ZoneWords \in Nat \ {0}
  BY <1>1, <1>2, <1>5, ConcatProperties, Geometry
<1>7. d = 0 /\ total <= Len(out) /\ done <= Len(out)
  BY <1>1 DEF CopyInv, Copies
<1>8. CopyInv'
  <2>1. TablesPresent => Written(out', i + 1)
    BY <1>1, <1>2, <1>3, <1>4, <1>7, WritePiece DEF CopyInv
  <2>2. TablesPresent' => Written(out, i)'
    BY <1>1, <2>1, FileStays DEF Written
  <2>3. total' <= Len(out') /\ done' <= Len(out')
    BY <1>1, <1>2, <1>5, <1>6, <1>7
  <2> QED BY <1>1, <1>7, <2>2, <2>3 DEF CopyInv, Writing, Copies
<1>9. SmallInv'
  <2> SUFFICES ASSUME Parts <= DirectZones PROVE SmallInv'
    BY <1>1, FileStays DEF SmallInv
  <2>1. /\ total = Len(out) /\ i <= Parts
        /\ Len(out) = IF i < Parts THEN i * ZoneWords ELSE WholeLength
    BY <1>1 DEF SmallInv
  <2>2. /\ Parts \in Nat /\ node.size <= Parts * ZoneWords
        /\ \A x \in Nat : x * ZoneWords < node.size <=> x < Parts
    BY <1>3, Geometry, PartsOf DEF Parts
  <2>3. i < Parts
    <3>1. WholeLength >= node.size
      <4>1. Parts * ZoneWords \in Nat
        BY <2>2, Geometry, ProductOrder
      <4> QED BY <1>3, <2>2, <4>1 DEF WholeLength
    <3> QED BY <1>1, <1>2, <1>3, <2>1, <2>2, <3>1
  <2>4. total = i * ZoneWords /\ (i + 1) * ZoneWords = i * ZoneWords + ZoneWords
        /\ i * ZoneWords \in Nat /\ (i + 1) * ZoneWords \in Nat
    BY <1>2, <1>6, <2>1, <2>3, ProductOrder
  <2>5. CASE i + 1 < Parts
    <3>1. (i + 1) * ZoneWords < node.size
      BY <1>2, <2>2, <2>5
    <3>2. Len(piece) = ZoneWords
      BY <1>3, <1>5, <1>6, <2>4, <3>1 DEF Less
    <3>3. Len(out') = (i + 1) * ZoneWords /\ total' = Len(out')
      BY <1>1, <1>6, <2>1, <2>4, <3>2
    <3> QED BY <1>1, <1>2, <2>2, <2>3, <2>5, <3>3, FileStays DEF SmallInv, Writing
  <2>6. CASE i + 1 = Parts
    <3>1. Parts - 1 = i /\ node.size > 0
      BY <1>1, <1>2, <1>3, <2>2, <2>6
    <3>2. WholeLength = IF zone = 0 THEN Parts * ZoneWords ELSE node.size
      BY <1>3, <1>4, <3>1 DEF WholeLength
    <3>3. node.size <= i * ZoneWords + ZoneWords /\ i * ZoneWords < node.size
      BY <1>1, <2>2, <2>4, <2>6
    <3>4. Len(out') = WholeLength /\ total' = Len(out')
      <4>1. CASE zone = 0
        BY <1>1, <1>5, <1>6, <2>1, <2>4, <2>6, <3>2, <4>1
      <4>2. CASE zone # 0
        <5>1. Len(piece) = node.size - total
          BY <1>3, <1>5, <1>6, <2>4, <3>3, <4>2 DEF Less
        <5> QED BY <1>1, <1>2, <1>3, <1>6, <2>1, <3>2, <4>2, <5>1
      <4> QED BY <4>1, <4>2
    <3> QED BY <1>1, <1>2, <2>2, <2>6, <3>4, FileStays DEF SmallInv, Writing
  <2> QED BY <1>2, <2>2, <2>3, <2>5, <2>6
<1> QED BY <1>8, <1>9

LEMMA LeaveDirectCopies ==
    ASSUME InputInv, ToolInv, CopyInv, SmallInv, LeaveDirect, UNCHANGED input
    PROVE  CopyInv' /\ SmallInv'
<1>1. /\ pc = "direct" /\ (total >= node.size \/ i = DirectZones) /\ Serving
      /\ UNCHANGED <<input, base, ino>> /\ UNCHANGED <<i, k, total, out, done, tableZone, d>>
      /\ d = 0 /\ total <= Len(out) /\ done <= Len(out) /\ args.tool = "minget" /\ args' = args
  BY DEF LeaveDirect, ToolInv, copying, CopyInv, Copies, Serving, input
<1>2. i \in Nat /\ total \in Nat /\ Len(out) \in Nat /\ node.size \in Nat /\ node = TargetNode
  BY <1>1, ServingFacts DEF ToolInv, CounterInv
<1>3. /\ Parts \in Nat /\ node.size <= Parts * ZoneWords
      /\ \A x \in Nat : x * ZoneWords < node.size <=> x < Parts
  BY <1>2, Geometry, PartsOf DEF Parts
<1>4. Parts <= DirectZones =>
         /\ total = Len(out) /\ i <= Parts
         /\ Len(out) = IF i < Parts THEN i * ZoneWords ELSE WholeLength
         /\ WholeLength >= node.size
  <2>1. Parts * ZoneWords \in Nat
    BY <1>3, Geometry, ProductOrder
  <2>2. WholeLength >= node.size
    BY <1>2, <1>3, <2>1 DEF WholeLength
  <2> QED BY <1>1, <2>2 DEF SmallInv
<1>5. CASE total < node.size
  <2>1. pc' = "call" /\ i = DirectZones
    BY <1>1, <1>2, <1>5, Geometry DEF LeaveDirect, Goto
  <2>2. ~(Parts <= DirectZones)
    BY <1>2, <1>3, <1>4, <1>5, <2>1, Geometry
  <2>3. TablesPresent' => Written(out, DirectZones + (d * ZoneWords))'
    <3>1. DirectZones + (d * ZoneWords) = i
      BY <1>1, <2>1, Geometry
    <3>2. TablesPresent => Written(out, i)
      BY <1>1 DEF CopyInv
    <3>3. TablesPresent => Written(out, DirectZones + (d * ZoneWords))
      BY <3>1, <3>2
    <3> QED BY <1>1, <3>3, FileStays DEF Written
  <2>4. CopyInv'
    BY <1>1, <2>1, <2>3 DEF CopyInv, Writing, Copies
  <2>5. SmallInv'
    BY <1>1, <2>2, FileStays DEF SmallInv
  <2> QED BY <2>4, <2>5
<1>6. CASE ~(total < node.size)
  <2>1. pc' = "exit" /\ status' = 0
    BY <1>6 DEF LeaveDirect, Exit
  <2>2. TablesPresent' => Written(out, 0)' /\ Len(out') >= node'.size
    <3>1. TablesPresent => Written(out, i)
      BY <1>1 DEF CopyInv
    <3>2. Len(out) >= node.size
      BY <1>1, <1>2, <1>6
    <3>3. TablesPresent => Written(out, 0)
      BY <3>1, <3>2 DEF Written
    <3> QED BY <1>1, <3>2, <3>3, FileStays DEF Written
  <2>3. CopyInv'
    BY <1>1, <2>1, <2>2 DEF CopyInv, Writing, Copies
  <2>4. Parts <= DirectZones => Len(out) = WholeLength
    BY <1>2, <1>3, <1>4, <1>6
  <2>5. SmallInv'
    BY <1>1, <2>1, <2>4, FileStays DEF SmallInv
  <2> QED BY <2>3, <2>5
<1> QED BY <1>5, <1>6

LEMMA CallHandlerCopies ==
    ASSUME InputInv, ToolInv, CopyInv, SmallInv, CallHandler, UNCHANGED input
    PROVE  CopyInv' /\ SmallInv'
<1>1. /\ pc = "call" /\ Serving /\ pc' = "indirect" /\ tableZone' = TableOf(d)
      /\ done' = total /\ k' = 0
      /\ UNCHANGED <<input, base, ino>> /\ UNCHANGED <<i, total, out, d>>
      /\ total <= Len(out)
  BY DEF CallHandler, ToolInv, Goto, CopyInv, Copies, TableOf
<1>2. volume' = volume /\ node' = node /\ TableOf(d)' = TableOf(d)
  BY <1>1, FileStays DEF TableOf
<1>3. TablesPresent' => Written(out, (DirectZones + (d * ZoneWords)) + k)'
  <2>1. d * ZoneWords \in Nat
    BY Geometry, ProductOrder DEF ToolInv, CounterInv
  <2>2. DirectZones + (d * ZoneWords) = (DirectZones + (d * ZoneWords)) + 0
    BY <2>1, Geometry
  <2>3. TablesPresent => Written(out, DirectZones + (d * ZoneWords))
    BY <1>1 DEF CopyInv
  <2>4. TablesPresent => Written(out, (DirectZones + (d * ZoneWords)) + 0)
    BY <2>2, <2>3
  <2> QED BY <1>1, <2>4, FileStays DEF Written
<1>4. CopyInv'
  BY <1>1, <1>2, <1>3 DEF CopyInv, Writing, Copies
<1>5. SmallInv'
  BY <1>1, FileStays DEF SmallInv
<1> QED BY <1>4, <1>5

LEMMA CopyIndirectZoneCopies ==
    ASSUME InputInv, ToolInv, CopyInv, SmallInv, CopyIndirectZone, UNCHANGED input
    PROVE  CopyInv' /\ SmallInv'
<1> DEFINE zone == Word(volume, tableZone, k + 1)
           piece == Piece(zone, done)
           p == (DirectZones + (d * ZoneWords)) + k
<1>1. /\ pc = "indirect" /\ done < node.size /\ k < ZoneWords /\ Serving
      /\ out' = out \o piece /\ done' = done + Len(piece) /\ k' = k + 1
      /\ UNCHANGED <<input, base, ino>> /\ UNCHANGED <<pc, total, tableZone, d>>
      /\ total <= Len(out) /\ done <= Len(out) /\ tableZone = TableOf(d)
  BY DEF CopyIndirectZone, ToolInv, CopyInv, Copies
<1>2. /\ k \in Nat /\ done \in Nat /\ out \in Seq(Nat) /\ Len(out) \in Nat
      /\ tableZone \in Nat /\ d \in 0..ZoneWords /\ total \in Nat
  BY <1>1, Geometry DEF ToolInv, CounterInv
<1>3. node.size \in Nat /\ Inside /\ zone \in Nat /\ p \in Nat
  <2>1. k + 1 \in 1..ZoneWords
    BY <1>1, <1>2, Geometry
  <2>2. d * ZoneWords \in Nat
    BY <1>2, Geometry, ProductOrder
  <2>3. p \in Nat
    BY <1>2, <2>2, Geometry
  <2>4. zone \in Nat /\ Inside /\ node.size \in Nat
    BY <1>1, <1>2, <2>1, ServingFacts, WordIsNumber
  <2> QED BY <2>3, <2>4
<1>4. piece \in Seq(Nat) /\ Len(piece) \in 1..ZoneWords
  BY <1>1, <1>2, <1>3, PieceFacts
<1>5. Len(out') = Len(out) + Len(piece) /\ ZoneWords \in Nat \ {0}
  BY <1>1, <1>2, <1>4, ConcatProperties, Geometry
<1>6. TablesPresent => Written(out', p + 1)
  <2> SUFFICES ASSUME TablesPresent PROVE Written(out', p + 1)
    OBVIOUS
  <2>1. Written(out, p)
    BY <1>1 DEF CopyInv
  <2>2. ASSUME Len(out) < node.size PROVE zone = ZoneOf(volume, node, p)
    <3>1. p * ZoneWords < node.size
      BY <1>2, <1>3, <2>1, <2>2 DEF Written
    <3> QED BY <1>1, <1>2, <3>1, ZoneRead
  <2> QED BY <1>1, <1>2, <1>3, <2>1, <2>2, WritePiece
<1>7. TablesPresent' => Written(out, (DirectZones + (d * ZoneWords)) + k)'
  <2>1. (DirectZones + (d' * ZoneWords)) + k' = p + 1
    <3>1. d * ZoneWords \in Nat /\ d' = d
      BY <1>1, <1>2, Geometry, ProductOrder
    <3> QED BY <1>1, <1>2, <3>1, Geometry
  <2> HIDE DEF p
  <2>2. /\ TablesPresent' = TablesPresent
        /\ Written(out, (DirectZones + (d * ZoneWords)) + k)' = Written(out', p + 1)
    BY <1>1, <2>1, FileStays DEF Written
  <2> QED BY <1>6, <2>2
<1>8. total' <= Len(out') /\ done' <= Len(out')
  BY <1>1, <1>2, <1>4, <1>5
<1>9. TableOf(d)' = TableOf(d)
  BY <1>1, FileStays DEF TableOf
<1>10. CopyInv'
  BY <1>1, <1>7, <1>8, <1>9 DEF CopyInv, Writing, Copies
<1>11. SmallInv'
  BY <1>1, FileStays DEF SmallInv
<1> QED BY <1>10, <1>11

LEMMA ReturnFromHandlerCopies ==
    ASSUME InputInv, ToolInv, CopyInv, SmallInv, ReturnFromHandler, UNCHANGED input
    PROVE  CopyInv' /\ SmallInv'
<1>1. /\ pc = "indirect" /\ (k = ZoneWords \/ done >= node.size) /\ Serving
      /\ pc' = "call" /\ d' = d + 1 /\ total' = IF d = 0 THEN total ELSE done
      /\ UNCHANGED <<input, base, ino>> /\ UNCHANGED <<i, k, out, done, tableZone>>
      /\ total <= Len(out) /\ done <= Len(out)
  BY DEF ReturnFromHandler, ToolInv, Goto, CopyInv, Copies
<1>2. d \in Nat /\ k \in Nat /\ done \in Nat /\ Len(out) \in Nat /\ node.size \in Nat
  BY <1>1, ServingFacts DEF ToolInv, CounterInv
<1>3. TablesPresent => Written(out, DirectZones + ((d + 1) * ZoneWords))
  <2> SUFFICES ASSUME TablesPresent PROVE Written(out, DirectZones + ((d + 1) * ZoneWords))
    OBVIOUS
  <2>1. Written(out, (DirectZones + (d * ZoneWords)) + k)
    BY <1>1 DEF CopyInv
  <2>2. CASE k = ZoneWords
    <3>1. (DirectZones + (d * ZoneWords)) + k = DirectZones + ((d + 1) * ZoneWords)
      <4>1. d * ZoneWords \in Nat /\ (d + 1) * ZoneWords = d * ZoneWords + ZoneWords
        BY <1>2, Geometry, ProductOrder
      <4> QED BY <2>2, <4>1, Geometry
    <3> QED BY <2>1, <3>1
  <2>3. CASE done >= node.size
    BY <1>1, <1>2, <2>1, <2>3 DEF Written
  <2> QED BY <1>1, <2>2, <2>3
<1>4. TablesPresent' => Written(out, DirectZones + (d * ZoneWords))'
  BY <1>1, <1>3, FileStays DEF Written
<1>5. CopyInv'
  BY <1>1, <1>4 DEF CopyInv, Writing, Copies
<1>6. SmallInv'
  BY <1>1, FileStays DEF SmallInv
<1> QED BY <1>5, <1>6

LEMMA LeaveDoubleIndirectCopies ==
    ASSUME InputInv, ToolInv, CopyInv, SmallInv, LeaveDoubleIndirect, UNCHANGED input
    PROVE  CopyInv' /\ SmallInv'
<1>1. /\ pc = "call" /\ (total >= node.size \/ d > ZoneWords) /\ Serving
      /\ pc' = "exit" /\ status' = 0
      /\ UNCHANGED <<input, base, ino>> /\ UNCHANGED <<i, k, out, done, tableZone, d>>
      /\ total <= Len(out) /\ args.tool = "minget" /\ args' = args
  BY DEF LeaveDoubleIndirect, ToolInv, Exit, copying, CopyInv, Copies, Serving, input
<1>2. d \in Nat /\ total \in Nat /\ Len(out) \in Nat /\ node.size \in Nat /\ d <= ZoneWords + 1
      /\ SoundFile(volume, node)
  BY <1>1, ServingFacts DEF ToolInv, CounterInv
<1>3. TablesPresent => Written(out, 0) /\ Len(out) >= node.size
  <2> SUFFICES ASSUME TablesPresent PROVE Written(out, 0) /\ Len(out) >= node.size
    OBVIOUS
  <2>1. Written(out, DirectZones + (d * ZoneWords))
    BY <1>1 DEF CopyInv
  <2>2. Len(out) >= node.size
    <3>1. CASE total >= node.size
      BY <1>1, <1>2, <3>1
    <3>2. CASE d > ZoneWords
      <4>1. d * ZoneWords = ZoneWords * ZoneWords + ZoneWords
        <5>1. d = ZoneWords + 1
          BY <1>2, <3>2, Geometry
        <5>2. (ZoneWords + 1) * ZoneWords = ZoneWords * ZoneWords + ZoneWords
          BY Geometry
        <5> QED BY <5>1, <5>2
      <4>2. ZoneWords * ZoneWords \in Nat
        BY Geometry, ProductOrder
      <4>3. DirectZones + (d * ZoneWords) = DirectZones + ZoneWords + ZoneWords * ZoneWords
        BY <4>1, <4>2, Geometry
      <4>4. node.size <= (DirectZones + (d * ZoneWords)) * ZoneWords
        BY <1>2, <4>3 DEF SoundFile
      <4> QED BY <1>2, <2>1, <4>4 DEF Written
    <3> QED BY <1>1, <3>1, <3>2
  <2> QED BY <2>1, <2>2 DEF Written
<1>4. TablesPresent' => Written(out, 0)' /\ Len(out') >= node'.size
  BY <1>1, <1>3, FileStays DEF Written
<1>5. CopyInv'
  BY <1>1, <1>4 DEF CopyInv, Writing, Copies
<1>6. SmallInv'
  BY <1>1, FileStays DEF SmallInv
<1> QED BY <1>5, <1>6

-----------------------------------------------------------------------------
(***************************************************************************)
(* Theorems.                                                               *)
(***************************************************************************)
LEMMA CopiesInit ==
    ASSUME Init PROVE CopyInv /\ SmallInv
  BY DEF Init, InitTools, InitCommon, CopyInv, SmallInv, Writing, Copies

LEMMA CopiesStep ==
    ASSUME Inv, DirectoriesFit, CopyInv, SmallInv, [Next]_vars PROVE CopyInv' /\ SmallInv'
<1>1. InputInv /\ ToolInv /\ UNCHANGED input
  BY DEF Inv, Next, RunTool, RunEarlier, vars
<1>2. CASE UNCHANGED tool
  <2>1. /\ UNCHANGED <<pc, status, i, k, total, out, done, tableZone, d>>
        /\ UNCHANGED <<input, base, ino>> /\ args' = args
    BY <1>1, <1>2 DEF tool, common, copying, input
  <2>2. Writing' = Writing /\ TableOf(d)' = TableOf(d)
    BY <2>1, FileStays DEF Writing, TableOf
  <2>3. CopyInv' = CopyInv
    BY <2>1, <2>2, FileStays DEF CopyInv, Written
  <2> QED BY <2>1, <2>2, <2>3, FileStays DEF SmallInv
<1>3. ~GoAstray
  BY <1>1 DEF GoAstray, ToolInv
<1>4. CASE Tool
  BY <1>1, <1>3, <1>4, EarlyKeeps, OutputFileContentsCopies, CopyDirectZoneCopies, LeaveDirectCopies,
     CallHandlerCopies, CopyIndirectZoneCopies, ReturnFromHandlerCopies,
     LeaveDoubleIndirectCopies DEF Tool
<1> QED BY <1>2, <1>4 DEF Next, RunTool, RunEarlier, vars

\* As long as no directory overruns the buffer.
CopiesInv == DirectoriesFit => CopyInv /\ SmallInv

LEMMA CopiesInvStep ==
    ASSUME Inv, CopiesInv, [Next]_vars PROVE CopiesInv'
<1>1. UNCHANGED input
  BY DEF Next, RunTool, RunEarlier, vars
<1>2. DirectoriesFit' = DirectoriesFit
  BY <1>1, InputStays
<1> QED BY <1>2, CopiesStep DEF CopiesInv

\* What minget has counted it has written, and what it reads next is the zone
\* of the part of the file that it writes next, if the directories on the way
\* fit the buffer.
THEOREM CopiesInOrder == Spec => []CopiesInv
<1>1. Init => CopiesInv
  BY CopiesInit DEF CopiesInv
<1> QED BY <1>1, Invariance, CopiesInvStep, PTL DEF Spec

\* Contents of a file, as a sequence.
LEMMA FileLength ==
    ASSUME NEW fs, NEW node_, node_.size \in Nat
    PROVE  Len(Contents(fs, node_)) = node_.size
  BY DEF Contents

\* minget's output starts with the file, if none of the file's tables is a hole,
\* whatever the sizes of zones and tables, and if its directories fit the buffer.
THEOREM CopyStartsWithFile == Spec => []OutputStartsWithFile
<1>1. ASSUME Inv, CopyInv, SmallInv, Answerable, DirectoriesFit, TablesPresent,
             args.tool = "minget"
      PROVE  LET data == Contents(Volume, TargetNode)
             IN  /\ \A j \in DOMAIN out : j <= Len(data) => out[j] = data[j]
                 /\ status = 0 => Len(out) >= Len(data)
  <2>1. out \in Seq(Nat) /\ DOMAIN out = 1..Len(out)
    BY <1>1 DEF Inv, ToolInv, CounterInv
  <2>2. status = 0 => Writing
    BY <1>1 DEF Inv, ToolInv, CounterInv, Writing
  <2>3. CASE Writing
    <3>1. Serving
      BY <1>1, <2>3 DEF Inv, ToolInv, Writing, Copies, Listing
    <3>2. node.size \in Nat /\ node = TargetNode /\ volume = Volume
      BY <1>1, <3>1, ServingFacts DEF Inv
    <3>3. Len(Contents(Volume, TargetNode)) = node.size
      BY <3>2, FileLength
    <3>4. \E p : Written(out, p)
      BY <1>1, <2>3 DEF CopyInv, Writing, Copies
    <3>5. \A j \in 1..Len(out) : j <= node.size => out[j] = Contents(volume, node)[j]
      BY <3>4 DEF Written
    <3>6. status = 0 => Len(out) >= node.size
      BY <1>1, <2>3 DEF Inv, ToolInv, CounterInv, CopyInv
    <3> QED BY <2>1, <3>2, <3>3, <3>5, <3>6
  <2>4. CASE ~Writing
    <3>1. out = <<>> /\ status # 0
      BY <1>1, <2>2, <2>4 DEF CopyInv
    <3>2. DOMAIN out = {}
      BY <3>1
    <3> QED BY <3>1, <3>2
  <2> QED BY <2>3, <2>4
<1>2. ASSUME Inv, CopiesInv PROVE OutputStartsWithFile
  BY <1>1, <1>2 DEF OutputStartsWithFile, CopiesInv
<1> QED BY <1>2, Invariance, CopiesInOrder, PTL

\* A file that fits into the direct zones is copied whole, and no more.
THEOREM SmallFilesAreWhole == Spec => []SmallFileIsWhole
<1>1. ASSUME Inv, SmallInv, status = 0, args.tool = "minget", DirectoriesFit,
             Parts <= DirectZones
      PROVE  Len(out) = WholeLength
  BY <1>1 DEF Inv, ToolInv, CounterInv, SmallInv, Writing
<1>2. ASSUME Inv, CopiesInv PROVE SmallFileIsWhole
  BY <1>1, <1>2 DEF SmallFileIsWhole, WholeLength, CopiesInv
<1> QED BY <1>2, Invariance, CopiesInOrder, PTL
=============================================================================
