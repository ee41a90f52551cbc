-------------------------- MODULE MinReadersProofs --------------------------
(***************************************************************************)
(* Theorems about the readers of MINIX disks, for any sound disk.          *)
(***************************************************************************)
EXTENDS MinReaders, SequenceTheorems, WellFoundedInduction, TLAPS

-----------------------------------------------------------------------------
(***************************************************************************)
(* Numbers.                                                                *)
(***************************************************************************)
LEMMA LeastNumber ==
    ASSUME NEW T \in SUBSET Nat, T # {}
    PROVE  \E n \in T : \A m \in T : n <= m
<1> DEFINE R == OpToRel(<, Nat)
<1>1. \A x, y \in Nat : x < y => <<x, y>> \in R
  BY Zenon DEF OpToRel
<1>2. IsWellFoundedOn(R, Nat)
  BY NatLessThanWellFounded, Zenon
<1> HIDE DEF R
<1>3. PICK n \in T : \A m \in T : ~ (<<m, n>> \in R)
  BY <1>2, WFMin
<1>4. \A m \in T : ~ (m < n)
  BY <1>1, <1>3
<1> QED BY <1>4

-----------------------------------------------------------------------------
(***************************************************************************)
(* The recursive functions of the reference are what they are defined to   *)
(* be: there is such a function.                                           *)
(***************************************************************************)
\* The equation of Steps, for the first l names of the path.
AreSteps(fs, path, l, to) ==
    to = [n \in 0..l |-> IF n = 0 THEN 1 ELSE Child(fs, to[n - 1], path[n])]

LEMMA StepsExist ==
    ASSUME NEW fs, NEW path, NEW N \in Nat
    PROVE  \E to : AreSteps(fs, path, N, to)
<1> DEFINE Bad == {l \in Nat : ~ \E to : AreSteps(fs, path, l, to)}
<1>1. CASE Bad = {}
  BY <1>1
<1>2. CASE Bad # {}
  <2>1. PICK l \in Bad : \A m \in Bad : l <= m
    BY <1>2, LeastNumber
  <2>2. CASE l = 0
    <3>1. AreSteps(fs, path, 0, [n \in 0..0 |-> 1])
      BY DEF AreSteps
    <3> QED BY <2>1, <2>2, <3>1
  <2>3. CASE l # 0
    <3>1. l \in Nat /\ l - 1 \in Nat
      BY <2>1, <2>3
    <3>2. l - 1 \notin Bad
      BY <2>1, <3>1
    <3>3. PICK to : AreSteps(fs, path, l - 1, to)
      BY <3>1, <3>2
    <3> DEFINE next == [n \in 0..l |-> IF n = l THEN Child(fs, to[l - 1], path[l]) ELSE to[n]]
    <3>4. \A n \in 0..l : next[n] = IF n = 0 THEN 1 ELSE Child(fs, next[n - 1], path[n])
      <4> SUFFICES ASSUME NEW n \in 0..l
                   PROVE  next[n] = IF n = 0 THEN 1 ELSE Child(fs, next[n - 1], path[n])
        OBVIOUS
      <4>1. CASE n = l
        <5>1. next[n] = Child(fs, to[l - 1], path[l])
          BY <4>1
        <5>2. next[l - 1] = to[l - 1]
          BY <2>3, <3>1
        <5> QED BY <4>1, <5>1, <5>2, <2>3
      <4>2. CASE n # l
        <5>1. n \in 0..l - 1 /\ next[n] = to[n] /\ (n # 0 => next[n - 1] = to[n - 1])
          BY <4>2, <3>1
        <5>2. to[n] = IF n = 0 THEN 1 ELSE Child(fs, to[n - 1], path[n])
          <6> HIDE DEF next
          <6> QED BY <3>3, <5>1 DEF AreSteps
        <5> QED BY <5>1, <5>2
      <4> QED BY <4>1, <4>2
    <3>5. AreSteps(fs, path, l, next)
      BY <3>4 DEF AreSteps
    <3> HIDE DEF next
    <3> QED BY <2>1, <3>5
  <2> QED BY <2>2, <2>3
<1> QED BY <1>1, <1>2

LEMMA StepsAre ==
    ASSUME NEW fs, NEW path, Len(path) \in Nat
    PROVE  /\ Steps(fs, path)[0] = 1
           /\ \A n \in 1..Len(path) :
                 Steps(fs, path)[n] = Child(fs, Steps(fs, path)[n - 1], path[n])
<1> DEFINE S == CHOOSE to : AreSteps(fs, path, Len(path), to)
<1>1. Steps(fs, path) = S
  BY DEF Steps, AreSteps
<1>2. AreSteps(fs, path, Len(path), S)
  BY StepsExist
<1> HIDE DEF S
<1> QED BY <1>1, <1>2 DEF AreSteps

\* The same of Sectors.
AreSectors(l, to) ==
    to = [n \in 0..l |->
            IF n = 0 THEN 0 ELSE FirstSector(to[n - 1], args.parts[n])]

LEMMA SectorsExist ==
    ASSUME NEW N \in Nat
    PROVE  \E to : AreSectors(N, to)
<1> DEFINE Bad == {l \in Nat : ~ \E to : AreSectors(l, to)}
<1>1. CASE Bad = {}
  BY <1>1
<1>2. CASE Bad # {}
  <2>1. PICK l \in Bad : \A m \in Bad : l <= m
    BY <1>2, LeastNumber
  <2>2. CASE l = 0
    <3>1. AreSectors(0, [n \in 0..0 |-> 0])
      BY DEF AreSectors
    <3> QED BY <2>1, <2>2, <3>1
  <2>3. CASE l # 0
    <3>1. l \in Nat /\ l - 1 \in Nat
      BY <2>1, <2>3
    <3>2. l - 1 \notin Bad
      BY <2>1, <3>1
    <3>3. PICK to : AreSectors(l - 1, to)
      BY <3>1, <3>2
    <3> DEFINE next == [n \in 0..l |-> IF n = l THEN FirstSector(to[l - 1], args.parts[l])
                                       ELSE to[n]]
    <3>4. \A n \in 0..l :
            next[n] = IF n = 0 THEN 0 ELSE FirstSector(next[n - 1], args.parts[n])
      <4> SUFFICES ASSUME NEW n \in 0..l
                   PROVE  next[n] = IF n = 0 THEN 0
                                    ELSE FirstSector(next[n - 1], args.parts[n])
        OBVIOUS
      <4>1. CASE n = l
        <5>1. next[n] = FirstSector(to[l - 1], args.parts[l])
          BY <4>1
        <5>2. next[l - 1] = to[l - 1]
          BY <2>3, <3>1
        <5> QED BY <4>1, <5>1, <5>2, <2>3
      <4>2. CASE n # l
        <5>1. n \in 0..l - 1 /\ next[n] = to[n] /\ (n # 0 => next[n - 1] = to[n - 1])
          BY <4>2, <3>1
        <5>2. to[n] = IF n = 0 THEN 0 ELSE FirstSector(to[n - 1], args.parts[n])
          <6> HIDE DEF next
          <6> QED BY <3>3, <5>1 DEF AreSectors
        <5> QED BY <5>1, <5>2
      <4> QED BY <4>1, <4>2
    <3>5. AreSectors(l, next)
      BY <3>4 DEF AreSectors
    <3> HIDE DEF next
    <3> QED BY <2>1, <3>5
  <2> QED BY <2>2, <2>3
<1> QED BY <1>1, <1>2

LEMMA SectorsAre ==
    ASSUME Len(args.parts) \in Nat
    PROVE  /\ Sectors[0] = 0
           /\ \A n \in 1..Len(args.parts) :
                 Sectors[n] = FirstSector(Sectors[n - 1], args.parts[n])
<1> DEFINE S == CHOOSE to : AreSectors(Len(args.parts), to)
<1>1. Sectors = S
  BY DEF Sectors, AreSectors
<1>2. AreSectors(Len(args.parts), S)
  BY SectorsExist
<1> HIDE DEF S
<1> QED BY <1>1, <1>2 DEF AreSectors

-----------------------------------------------------------------------------
(***************************************************************************)
(* The invariant.                                                          *)
(***************************************************************************)
InputInv == SoundDisk(disk) /\ SoundArguments(args)

\* The path as get_inode_from_path takes it.
Walked == IF args.path = <<>> THEN <<".">> ELSE args.path
PathNames == STRING \cup {"."}

\* The numbers count, whatever the programs are at.
CounterInv ==
    /\ status \in -1..1 /\ (status = -1 <=> pc # "exit")
    /\ {base, ino, i, k, total, done, tableZone, d} \subseteq Nat
    /\ i <= DirectZones + 1 /\ k <= ZoneWords /\ d <= ZoneWords + 1
    /\ pc = "indirect" => d <= ZoneWords
    /\ out \in Seq(Nat) /\ buf \in Seq(Entries) /\ Len(buf) <= MaxEntries

\* get_partition_offset has followed all the numbers but those still wanted.
Locating ==
    LET n == Len(args.parts) - Len(wanted)
    IN  /\ wanted \in Seq(0..Largest) /\ n \in Nat
        /\ \A j \in 1..Len(wanted) : wanted[j] = args.parts[n + j]
        /\ base = Sectors[n]
        /\ ino = 1
        /\ pc = "partition" => args.opens

\* In the file system asked for, at one of its inodes.
Inside ==
    /\ args.opens /\ base = Partition /\ base \in DOMAIN disk.volumes
    /\ ino \in DOMAIN volume.inodes

\* get_inode_from_path has followed all the names but those in rest.
Walking ==
    LET n == Len(Walked) - Len(rest)
    IN  /\ Inside
        /\ rest \in Seq(PathNames) /\ n \in Nat
        /\ \A j \in 1..Len(rest) : rest[j] = Walked[n + j]
        /\ ino = Steps(volume, Walked)[n]

WholeZones(l) == \E m \in Nat : l = m * ZoneEntries

\* directory_entries_from_inode has read the first zones of the node.
Reading ==
    /\ node.mode = "directory"
    /\ rest = <<>> => args.tool = "minls"
    /\ total = Len(buf)
    /\ i <= DirectZones => Len(buf) = (i + k) * ZoneEntries /\ k < ZoneWords
    /\ i < DirectZones => k = 0
    /\ i > DirectZones => total >= node.size
    /\ WholeZones(Len(buf))
    /\ \A j \in 1..Len(buf) : j <= node.size => buf[j] = Listed(volume, node)[j]

\* At the inode the path names.
Arrives == Inside /\ ino = Target

Serving ==
    Arrives /\ args.tool = "minget" /\ node.mode = "regular" /\ args.writes

\* What minls says of a node.
Lines(fs, at_) ==
    IF at_.mode = "regular"
    THEN [what |-> "file", rows |-> <<Row(args.path, at_)>>]
    ELSE [what |-> "directory", rows |-> DirectoryRows(fs, LiveEntries(fs, at_))]

Listing ==
    /\ Arrives /\ args.tool = "minls"
    /\ node.mode \in {"directory", "regular"}
    /\ shown = Lines(volume, node)

ToolInv ==
    /\ CounterInv
    /\ pc \in Labels
    /\ pc \in {"arguments", "partition"} => Locating
    /\ pc \in {"walk", "entries"} => Walking
    /\ pc = "entries" => Reading
    /\ pc \in {"direct", "call", "indirect"} => Serving
    /\ pc = "overrun" => ~DirectoriesFit
    /\ pc = "exit" /\ DirectoriesFit =>
          IF status = 0 THEN Serving \/ Listing ELSE ~Answerable
    /\ pc # "exit" \/ (status # 0 /\ DirectoriesFit) => shown = Nothing

-----------------------------------------------------------------------------
(***************************************************************************)
(* Disks.                                                                  *)
(***************************************************************************)
LEMMA Geometry ==
    /\ DirectZones \in Nat \ {0} /\ ZoneWords \in Nat \ {0} /\ ZoneEntries \in Nat \ {0}
    /\ MaxEntries \in Nat
  BY GeometryAssumption, BufferAssumption

LEMMA ProductSign ==
    ASSUME NEW k_ \in Nat \ {0}, NEW e \in Int
    PROVE  /\ e >= 1 => e * k_ >= k_
           /\ e <= -1 => e * k_ <= -k_
<1>1. ASSUME e >= 1 PROVE e * k_ >= k_
  <2>1. (e - 1) * k_ >= 0
    BY <1>1
  <2>2. (e - 1) * k_ = e * k_ - k_
    OBVIOUS
  <2> QED BY <2>1, <2>2
<1>2. ASSUME e <= -1 PROVE e * k_ <= -k_
  <2>1. (-e - 1) * k_ >= 0
    BY <1>2
  <2>2. (-e - 1) * k_ = -(e * k_) - k_
    OBVIOUS
  <2> QED BY <2>1, <2>2
<1> QED BY <1>1, <1>2

\* The place r of the part q, for parts of w.
LEMMA DivMod ==
    ASSUME NEW w \in Nat \ {0}, NEW q \in Nat, NEW r \in 0..w - 1
    PROVE  (q * w + r) \div w = q /\ (q * w + r) % w = r
<1> DEFINE x == q * w + r
           a == x \div w
           b == x % w
<1>1. x \in Nat /\ a \in Int /\ b \in 0..w - 1 /\ x = a * w + b
  OBVIOUS
<1>2. (q - a) * w = b - r
  BY <1>1
<1> HIDE DEF x, a, b
<1>3. ~ (q - a >= 1) /\ ~ (q - a <= -1)
  BY <1>1, <1>2, ProductSign
<1>4. q = a
  BY <1>1, <1>3
<1>5. b = r
  <2>1. (q - a) * w = 0
    BY <1>4
  <2> QED BY <1>1, <1>2, <2>1
<1> QED BY <1>4, <1>5 DEF x, a, b

\* And every place is one of that kind.
LEMMA PlaceOf ==
    ASSUME NEW w \in Nat \ {0}, NEW j \in Nat \ {0}
    PROVE  LET q == (j - 1) \div w
               r == (j - 1) % w
           IN  q \in Nat /\ r \in 0..w - 1 /\ j = q * w + r + 1
<1> DEFINE x == j - 1
<1>1. x \in Nat
  OBVIOUS
<1>2. x \div w \in Nat /\ x % w \in 0..w - 1 /\ x = (x \div w) * w + (x % w)
  BY <1>1
<1> QED BY <1>2

LEMMA ProductOrder ==
    ASSUME NEW w \in Nat \ {0}, NEW p \in Nat, NEW q \in Nat
    PROVE  /\ p <= q => p * w <= q * w
           /\ p < q => (p + 1) * w <= q * w
           /\ p * w < q * w => p < q
           /\ p * w \in Nat
<1>1. ASSUME NEW s \in Nat, NEW t \in Nat, s <= t PROVE s * w <= t * w
  <2>1. (t - s) * w >= 0
    BY <1>1
  <2>2. (t - s) * w = t * w - s * w
    OBVIOUS
  <2> QED BY <2>1, <2>2
<1>2. p < q => (p + 1) * w <= q * w
  BY <1>1
<1>3. p * w < q * w => p < q
  <2>1. SUFFICES ASSUME p * w < q * w, ~(p < q) PROVE FALSE
    OBVIOUS
  <2>2. q * w <= p * w
    BY <1>1, <2>1
  <2> QED BY <2>1, <2>2
<1> QED BY <1>1, <1>2, <1>3

LEMMA VolumeIsSound ==
    ASSUME InputInv, NEW b \in DOMAIN disk.volumes
    PROVE  SoundVolume(disk.volumes[b]) /\ b \in Nat
  BY DEF InputInv, SoundDisk

LEMMA NodeFacts ==
    ASSUME NEW fs, SoundVolume(fs), NEW n \in DOMAIN fs.inodes
    PROVE  LET node_ == fs.inodes[n] IN
           /\ node_.mode \in Modes /\ node_.size \in Nat
           /\ \A z \in 1..DirectZones : node_.zone[z] \in Nat
           /\ node_.indirect \in Nat /\ node_.two_indirect \in Nat
           /\ node_.mode = "directory" => SoundDirectory(fs, node_)
           /\ node_.mode = "regular" => SoundFile(fs, node_)
<1>1. /\ fs.inodes[n] \in Nodes
      /\ fs.inodes[n].mode = "directory" => SoundDirectory(fs, fs.inodes[n])
      /\ fs.inodes[n].mode = "regular" => SoundFile(fs, fs.inodes[n])
  BY DEF SoundVolume
<1> QED BY <1>1 DEF Nodes

LEMMA WordIsNumber ==
    ASSUME NEW fs, SoundVolume(fs), NEW zone \in Nat, NEW j \in 1..ZoneWords
    PROVE  Word(fs, zone, j) \in Nat
<1>1. CASE zone \in DOMAIN fs.table
  <2>1. fs.table[zone] \in [1..ZoneWords -> Nat]
    BY <1>1 DEF SoundVolume
  <2> QED BY <1>1, <2>1 DEF Word
<1>2. CASE zone \notin DOMAIN fs.table
  BY <1>2, Geometry DEF Word
<1> QED BY <1>1, <1>2

LEMMA EntryFacts ==
    ASSUME NEW fs, SoundVolume(fs), NEW zone \in DOMAIN fs.entries
    PROVE  /\ fs.entries[zone] \in Seq(Entries)
           /\ Len(fs.entries[zone]) = ZoneEntries
           /\ \A j \in 1..ZoneEntries :
                 fs.entries[zone][j] \in Entries /\ fs.entries[zone][j].ino \in DOMAIN fs.inodes
<1>1. /\ fs.entries[zone] \in [1..ZoneEntries -> Entries]
      /\ \A j \in 1..ZoneEntries : fs.entries[zone][j].ino \in DOMAIN fs.inodes
  BY DEF SoundVolume
<1> QED BY <1>1, Geometry

\* The entries of a directory: each is in its place, and leads to an inode.
LEMMA ListedFacts ==
    ASSUME NEW fs, SoundVolume(fs), NEW n \in DOMAIN fs.inodes,
           fs.inodes[n].mode = "directory"
    PROVE  LET list == Listed(fs, fs.inodes[n])
               size == fs.inodes[n].size
           IN  /\ size \in Nat /\ DOMAIN list = 1..size
               /\ \A j \in 1..size :
                     list[j] \in Entries /\ list[j].ino \in DOMAIN fs.inodes
               /\ \A j, l \in 1..size : list[j].name = list[l].name => j = l
<1> DEFINE node_ == fs.inodes[n]
<1>1. node_.size \in Nat /\ SoundDirectory(fs, node_)
  BY NodeFacts
<1>2. ASSUME NEW j \in 1..node_.size
      PROVE  /\ Listed(fs, node_)[j] \in Entries
             /\ Listed(fs, node_)[j].ino \in DOMAIN fs.inodes
  <2> DEFINE zone == ZoneOf(fs, node_, (j - 1) \div ZoneEntries)
             r == (j - 1) % ZoneEntries
  <2>1. zone \in DOMAIN fs.entries
    BY <1>1 DEF SoundDirectory
  <2>2. r \in 0..ZoneEntries - 1
    BY <1>1, Geometry, PlaceOf
  <2>3. Listed(fs, node_)[j] = fs.entries[zone][r + 1]
    BY DEF Listed
  <2> HIDE DEF zone, r
  <2>4. r + 1 \in 1..ZoneEntries
    BY <2>2, Geometry
  <2> QED BY <2>1, <2>3, <2>4, EntryFacts
<1>3. DOMAIN Listed(fs, node_) = 1..node_.size
  BY DEF Listed
<1> QED BY <1>1, <1>2, <1>3 DEF SoundDirectory

-----------------------------------------------------------------------------
(***************************************************************************)
(* Paths and partitions.                                                   *)
(***************************************************************************)
LEMMA ArgumentFacts ==
    ASSUME InputInv
    PROVE  /\ args.path \in Seq(STRING) /\ args.parts \in Seq(0..Largest)
           /\ Len(args.path) \in Nat /\ Len(args.parts) \in Nat
           /\ Walked \in Seq(PathNames) /\ Len(Walked) \in Nat \ {0}
<1>1. args.path \in Seq(STRING) /\ args.parts \in Seq(0..Largest)
  BY DEF InputInv, SoundArguments
<1>2. args.path # <<>> => Len(args.path) # 0
  BY <1>1
<1>3. ASSUME NEW S, NEW e \in S PROVE <<e>> \in Seq(S) /\ Len(<<e>>) = 1
  OBVIOUS
<1>5. Walked \in Seq(PathNames)
  <2>1. <<".">> \in Seq(PathNames)
    BY <1>3 DEF PathNames
  <2>2. args.path \in Seq(PathNames)
    BY <1>1, SeqMonotonic DEF PathNames
  <2> QED BY <2>1, <2>2 DEF Walked
<1>6. Len(Walked) \in Nat \ {0}
  <2>1. Len(<<".">>) = 1
    OBVIOUS
  <2> QED BY <1>1, <1>2, <2>1 DEF Walked
<1> QED BY <1>1, <1>5, <1>6

\* From no partition there is no way to another.
LEMMA NowhereStays ==
    ASSUME InputInv, NEW n \in 0..Len(args.parts), Sectors[n] = -1
    PROVE  Partition = -1
<1>1. Len(args.parts) \in Nat
  BY ArgumentFacts
<1> DEFINE T == {m \in n..Len(args.parts) : Sectors[m] # -1}
<1>2. CASE T = {}
  <2>1. Len(args.parts) \in n..Len(args.parts)
    BY <1>1
  <2> QED BY <1>2, <2>1 DEF Partition
<1>3. CASE T # {}
  <2>1. T \in SUBSET Nat
    BY <1>1
  <2>2. PICK m \in T : \A l \in T : m <= l
    BY <1>3, <2>1, LeastNumber
  <2>3. m \in n..Len(args.parts) /\ Sectors[m] # -1 /\ m # n
    BY <2>2
  <2>4. m - 1 \in n..Len(args.parts) /\ m - 1 \notin T /\ m \in 1..Len(args.parts)
    BY <1>1, <2>2, <2>3
  <2>5. Sectors[m - 1] = -1
    BY <2>4
  <2>6. Sectors[m] = FirstSector(Sectors[m - 1], args.parts[m])
    BY <1>1, <2>4, SectorsAre
  <2> QED BY <2>3, <2>5, <2>6 DEF FirstSector
<1> QED BY <1>2, <1>3

\* From no file there is no way to another.
LEMMA NoWay ==
    ASSUME NEW fs, NEW path, Len(path) \in Nat, NEW n \in 0..Len(path),
           Steps(fs, path)[n] = 0
    PROVE  \A m \in n..Len(path) : Steps(fs, path)[m] = 0
<1> DEFINE T == {m \in n..Len(path) : Steps(fs, path)[m] # 0}
<1>1. CASE T # {}
  <2>1. T \in SUBSET Nat
    OBVIOUS
  <2>2. PICK m \in T : \A l \in T : m <= l
    BY <1>1, <2>1, LeastNumber
  <2>3. m \in n..Len(path) /\ Steps(fs, path)[m] # 0 /\ m # n
    BY <2>2
  <2>4. m - 1 \in n..Len(path) /\ m - 1 \notin T /\ m \in 1..Len(path)
    BY <2>2, <2>3
  <2>5. Steps(fs, path)[m - 1] = 0
    BY <2>4
  <2>6. Steps(fs, path)[m] = Child(fs, Steps(fs, path)[m - 1], path[m])
    BY <2>4, StepsAre
  <2>7. Child(fs, 0, path[m]) = 0
    BY DEF Child, IsDirectory
  <2> QED BY <2>3, <2>5, <2>6, <2>7
<1> QED BY <1>1

\* A sound directory's child by some name is the inode of the entry with that
\* name; 0, which is a deleted entry's, if there is none.
LEMMA ChildIs ==
    ASSUME NEW fs, SoundVolume(fs), NEW n \in DOMAIN fs.inodes,
           fs.inodes[n].mode = "directory", NEW name
    PROVE  LET list == Listed(fs, fs.inodes[n])
               size == fs.inodes[n].size
           IN  /\ \A j \in 1..size : list[j].name = name => Child(fs, n, name) = list[j].ino
               /\ (\A j \in 1..size : list[j].name # name) => Child(fs, n, name) = 0
<1> DEFINE list == Listed(fs, fs.inodes[n])
           size == fs.inodes[n].size
           hits == {j \in DOMAIN list : list[j].ino # 0 /\ list[j].name = name}
<1>1. /\ DOMAIN list = 1..size
      /\ \A j, l \in 1..size : list[j].name = list[l].name => j = l
  BY ListedFacts
<1>2. IsDirectory(fs, n)
  BY DEF SoundVolume, IsDirectory
<1>3. Child(fs, n, name) = IF hits # {} THEN list[CHOOSE j \in hits : TRUE].ino ELSE 0
  BY <1>2 DEF Child
<1>4. ASSUME NEW j \in 1..size, list[j].name = name PROVE Child(fs, n, name) = list[j].ino
  <2>1. \A l \in hits : l = j
    BY <1>1, <1>4
  <2>2. CASE list[j].ino = 0
    <3>1. hits = {}
      BY <2>1, <2>2
    <3> QED BY <1>3, <2>2, <3>1
  <2>3. CASE list[j].ino # 0
    <3>1. j \in hits
      BY <1>1, <1>4, <2>3
    <3> HIDE DEF hits, list, size
    <3>2. (CHOOSE l \in hits : TRUE) = j
      BY <2>1, <3>1
    <3> QED BY <1>3, <3>1, <3>2
  <2> QED BY <2>2, <2>3
<1>5. ASSUME \A j \in 1..size : list[j].name # name PROVE Child(fs, n, name) = 0
  <2>1. hits = {}
    BY <1>1, <1>5
  <2> QED BY <1>3, <2>1
<1> QED BY <1>4, <1>5

\* Every name of a path leads to an inode, or nowhere.
LEMMA StepsStay ==
    ASSUME NEW fs, SoundVolume(fs), NEW path, Len(path) \in Nat,
           NEW n \in 0..Len(path)
    PROVE  Steps(fs, path)[n] \in DOMAIN fs.inodes
<1> DEFINE T == {m \in 0..Len(path) : Steps(fs, path)[m] \notin DOMAIN fs.inodes}
<1>0. 0 \in DOMAIN fs.inodes /\ 1 \in DOMAIN fs.inodes
  BY DEF SoundVolume
<1>1. CASE T # {}
  <2>1. T \in SUBSET Nat
    OBVIOUS
  <2>2. PICK m \in T : \A l \in T : m <= l
    BY <1>1, <2>1, LeastNumber
  <2>3. m # 0 /\ m \in 0..Len(path)
    BY <1>0, <2>2, StepsAre
  <2>4. m - 1 \in 0..Len(path) /\ m - 1 \notin T /\ m \in 1..Len(path)
    BY <2>2, <2>3
  <2> DEFINE from == Steps(fs, path)[m - 1]
  <2>5. from \in DOMAIN fs.inodes
    BY <2>4
  <2>6. Steps(fs, path)[m] = Child(fs, from, path[m])
    BY <2>4, StepsAre
  <2> HIDE DEF from
  <2>7. Child(fs, from, path[m]) \in DOMAIN fs.inodes
    <3>1. CASE fs.inodes[from].mode = "directory"
      <4>1. Child(fs, from, path[m]) = 0
            \/ \E j \in 1..fs.inodes[from].size :
                  Child(fs, from, path[m]) = Listed(fs, fs.inodes[from])[j].ino
        BY <2>5, <3>1, ChildIs
      <4> QED BY <1>0, <2>5, <3>1, <4>1, ListedFacts
    <3>2. CASE fs.inodes[from].mode # "directory"
      BY <1>0, <3>2 DEF Child, IsDirectory
    <3> QED BY <3>1, <3>2
  <2> QED BY <2>2, <2>6, <2>7
<1> QED BY <1>1

\* "/" leads where "." leads.
LEMMA WalkedLeads ==
    ASSUME InputInv, Partition \in DOMAIN disk.volumes
    PROVE  Target = Steps(Volume, Walked)[Len(Walked)]
<1>1. Child(Volume, 1, ".") = 1
  BY VolumeIsSound DEF Volume, SoundVolume
<1>2. CASE args.path = <<>>
  <2>1. Walked = <<".">> /\ Len(Walked) = 1 /\ Walked[1] = "." /\ Len(args.path) = 0
    BY <1>2 DEF Walked
  <2>2. Steps(Volume, args.path)[0] = 1
    BY <2>1, StepsAre
  <2>3. Steps(Volume, Walked)[0] = 1
        /\ Steps(Volume, Walked)[1] = Child(Volume, Steps(Volume, Walked)[1 - 1], Walked[1])
    BY <2>1, StepsAre
  <2> QED BY <1>1, <2>1, <2>2, <2>3 DEF Target, Resolve
<1>3. CASE args.path # <<>>
  BY <1>3 DEF Walked, Target, Resolve
<1> QED BY <1>2, <1>3

-----------------------------------------------------------------------------
(***************************************************************************)
(* The steps of min_common.c, minls.c and minget.c.                        *)
(***************************************************************************)
LEMMA InputStays ==
    ASSUME UNCHANGED input
    PROVE  /\ InputInv' = InputInv /\ Sectors' = Sectors /\ Partition' = Partition
           /\ Volume' = Volume /\ Target' = Target /\ Walked' = Walked
           /\ TargetNode' = TargetNode /\ Answerable' = Answerable
           /\ DirectoriesFit' = DirectoriesFit
<1>1. disk' = disk /\ args' = args
  BY DEF input
<1>2. Sectors' = Sectors
  BY <1>1 DEF Sectors, FirstSector, ValidEntry
<1>3. Partition' = Partition
  BY <1>1, <1>2 DEF Partition
<1>4. Volume' = Volume
  BY <1>1, <1>3 DEF Volume
<1>5. Target' = Target
  BY <1>1, <1>4 DEF Target
<1>6. TargetNode' = TargetNode
  BY <1>4, <1>5 DEF TargetNode
<1>7. Mounted' = Mounted
  BY <1>1, <1>3 DEF Mounted
<1>8. Answerable' = Answerable
  BY <1>1, <1>5, <1>6, <1>7 DEF Answerable
<1>9. Walked' = Walked
  BY <1>1 DEF Walked
<1>10. InputInv' = InputInv
  BY <1>1 DEF InputInv
<1>11. OnTheWay' = OnTheWay
  BY <1>1, <1>4 DEF OnTheWay
<1>12. DirectoriesFit' = DirectoriesFit
  BY <1>4, <1>7, <1>11 DEF DirectoriesFit
<1> QED BY <1>2, <1>3, <1>4, <1>5, <1>6, <1>8, <1>9, <1>10, <1>12

LEMMA ParseArgumentsKeeps ==
    ASSUME InputInv, ToolInv, ParseArguments, UNCHANGED <<input, shown, copying>>
    PROVE  ToolInv'
<1>1. UNCHANGED input /\ disk' = disk /\ args' = args
  BY DEF input
<1>2. /\ pc = "arguments" /\ Locating
      /\ UNCHANGED <<base, wanted, ino, rest, i, k, total, buf, shown, out, done, tableZone, d>>
  BY DEF ToolInv, ParseArguments, copying
<1>3. CounterInv' /\ pc' \in Labels /\ shown' = Nothing
  BY <1>2 DEF ToolInv, CounterInv, ParseArguments, Goto, Exit, Labels
<1>4. CASE args.opens
  <2>1. pc' = "partition"
    BY <1>4 DEF ParseArguments, Goto
  <2>2. Locating'
    BY <1>1, <1>2, <1>4, <2>1, InputStays DEF Locating
  <2> QED BY <1>3, <2>1, <2>2 DEF ToolInv
<1>5. CASE ~args.opens
  <2>1. pc' = "exit" /\ status' = 1
    BY <1>5 DEF ParseArguments, Exit
  <2>2. ~Answerable'
    BY <1>1, <1>5, InputStays DEF Answerable, Mounted
  <2> QED BY <1>3, <2>1, <2>2 DEF ToolInv
<1> QED BY <1>4, <1>5

LEMMA FindPartitionKeeps ==
    ASSUME InputInv, ToolInv, FindPartition, UNCHANGED <<input, shown, copying>>
    PROVE  ToolInv'
<1>1. UNCHANGED input /\ disk' = disk /\ args' = args
  BY DEF input
<1>2. /\ pc = "partition" /\ Locating /\ args.opens /\ wanted # <<>>
      /\ UNCHANGED <<ino, rest, i, k, total, buf, shown, out, done, tableZone, d>>
  BY DEF ToolInv, FindPartition, copying, Locating
<1> DEFINE n == Len(args.parts) - Len(wanted)
<1>3. /\ wanted \in Seq(0..Largest) /\ n \in Nat
      /\ \A j \in 1..Len(wanted) : wanted[j] = args.parts[n + j]
      /\ base = Sectors[n] /\ ino = 1
  BY <1>2 DEF Locating
<1>4. /\ Head(wanted) = wanted[1] /\ Tail(wanted) \in Seq(0..Largest)
      /\ Len(wanted) \in Nat \ {0} /\ Len(Tail(wanted)) = Len(wanted) - 1
      /\ \A j \in 1..Len(Tail(wanted)) : Tail(wanted)[j] = wanted[j + 1]
      /\ wanted[1] \in 0..Largest
  <2>1. wanted \in Seq(0..Largest) /\ wanted # <<>>
    BY <1>2, <1>3
  <2>2. /\ Tail(wanted) \in Seq(0..Largest) /\ Len(Tail(wanted)) = Len(wanted) - 1
        /\ \A j \in 1..Len(Tail(wanted)) : Tail(wanted)[j] = wanted[j + 1]
    BY <2>1, HeadTailProperties
  <2>3. Len(wanted) \in Nat \ {0} /\ Head(wanted) = wanted[1]
    BY <2>1
  <2>4. wanted[1] \in 0..Largest
    <3> DEFINE S == 0..Largest
    <3>1. 1 \in 1..Len(wanted) /\ wanted \in Seq(S)
      BY <2>1, <2>3
    <3> HIDE DEF S
    <3>2. wanted[1] \in S
      BY <3>1, ElementOfSeq
    <3> QED BY <3>2 DEF S
  <2> QED BY <2>2, <2>3, <2>4
<1>5. Len(args.parts) \in Nat /\ base \in Nat
  BY ArgumentFacts DEF ToolInv, CounterInv
<1>6. Sectors[n + 1] = FirstSector(base, Head(wanted))
  <2>1. n + 1 \in 1..Len(args.parts) /\ (n + 1) - 1 = n /\ wanted[1] = args.parts[n + 1]
    BY <1>3, <1>4, <1>5
  <2>2. Sectors[n + 1] = FirstSector(Sectors[(n + 1) - 1], args.parts[n + 1])
    BY <1>5, <2>1, SectorsAre
  <2> QED BY <1>3, <1>4, <2>1, <2>2
<1>7. CASE ValidEntry(base, Head(wanted))
  <2>1. /\ base' = disk.tables[base][Head(wanted)].lFirst
        /\ wanted' = Tail(wanted) /\ UNCHANGED <<pc, status>>
    BY <1>7 DEF FindPartition
  <2>2. base' \in Nat
    <3>1. base \in DOMAIN disk.tables /\ SoundTable(disk.tables[base])
      BY <1>7 DEF ValidEntry, InputInv, SoundDisk
    <3> QED BY <1>4, <2>1, <3>1 DEF SoundTable
  <2>3. base' = Sectors[n + 1]
    BY <1>5, <1>6, <1>7, <2>1 DEF FirstSector
  <2>4. Locating'
    <3>1. Len(args.parts) - Len(wanted') = n + 1 /\ n + 1 \in Nat
      BY <1>3, <1>4, <1>5, <2>1
    <3>2. \A j \in 1..Len(wanted') : wanted'[j] = args.parts[(n + 1) + j]
      <4> SUFFICES ASSUME NEW j \in 1..Len(wanted')
                   PROVE  wanted'[j] = args.parts[(n + 1) + j]
        OBVIOUS
      <4>1. j + 1 \in 1..Len(wanted) /\ wanted'[j] = wanted[j + 1]
        BY <1>4, <2>1
      <4>2. j \in Nat /\ n + (j + 1) = (n + 1) + j
        <5> HIDE DEF n
        <5> QED BY <1>3, <1>4, <2>1
      <4> QED BY <1>3, <4>1, <4>2
    <3> HIDE DEF n
    <3> QED BY <1>1, <1>2, <1>3, <1>4, <2>1, <2>3, <3>1, <3>2, InputStays DEF Locating
  <2>5. CounterInv'
    BY <1>2, <2>1, <2>2 DEF ToolInv, CounterInv
  <2> QED BY <1>2, <2>1, <2>4, <2>5 DEF ToolInv
<1>8. CASE ~ValidEntry(base, Head(wanted))
  <2>1. pc' = "exit" /\ status' = 1 /\ base' = base
    BY <1>8 DEF FindPartition, Exit
  <2>2. Partition = -1
    <3>1. n + 1 \in 0..Len(args.parts)
      BY <1>3, <1>4, <1>5
    <3>2. Sectors[n + 1] = -1
      BY <1>6, <1>8 DEF FirstSector
    <3> HIDE DEF n
    <3> QED BY <3>1, <3>2, NowhereStays
  <2>3. ~Answerable'
    BY <1>1, <2>2, InputStays DEF Answerable, Mounted, InputInv, SoundDisk
  <2>4. CounterInv'
    BY <1>2, <2>1 DEF ToolInv, CounterInv
  <2> QED BY <1>2, <2>1, <2>3, <2>4 DEF ToolInv, Labels
<1> QED BY <1>7, <1>8

LEMMA ParseSuperblockKeeps ==
    ASSUME InputInv, ToolInv, ParseSuperblock, UNCHANGED <<input, shown, copying>>
    PROVE  ToolInv'
<1>1. UNCHANGED input /\ disk' = disk /\ args' = args
  BY DEF input
<1>2. /\ pc = "partition" /\ Locating /\ args.opens /\ wanted = <<>>
      /\ UNCHANGED <<base, ino, i, k, total, buf, shown, out, done, tableZone, d>>
      /\ rest' = Walked
  BY DEF ToolInv, ParseSuperblock, copying, Locating, Walked
<1>3. base = Partition /\ ino = 1
  <2>1. Len(args.parts) - Len(wanted) = Len(args.parts)
    BY <1>2, ArgumentFacts
  <2> QED BY <1>2, <2>1 DEF Locating, Partition
<1>4. CASE base \in DOMAIN disk.volumes
  <2>1. pc' = "walk" /\ UNCHANGED status
    BY <1>4 DEF ParseSuperblock, Goto
  <2>2. CounterInv'
    BY <1>2, <2>1 DEF ToolInv, CounterInv
  <2>3. Inside'
    <3>1. ino \in DOMAIN volume.inodes
      BY <1>3, <1>4, VolumeIsSound DEF volume, SoundVolume
    <3> QED BY <1>1, <1>2, <1>3, <1>4, <3>1, InputStays DEF Inside, volume
  <2>4. Walking'
    <3>1. /\ Walked \in Seq(PathNames) /\ Len(Walked) \in Nat
          /\ Len(Walked) - Len(rest') = 0
      BY <1>2, ArgumentFacts
    <3>2. Steps(volume', Walked)[0] = 1
      BY <3>1, StepsAre
    <3>3. \A j \in 1..Len(rest') : rest'[j] = Walked[0 + j]
      BY <1>2
    <3> QED BY <1>1, <1>2, <1>3, <2>3, <3>1, <3>2, <3>3, InputStays DEF Walking
  <2> QED BY <1>2, <2>1, <2>2, <2>4 DEF ToolInv, Labels
<1>5. CASE base \notin DOMAIN disk.volumes
  <2>1. pc' = "exit" /\ status' = 1
    BY <1>5 DEF ParseSuperblock, Exit
  <2>2. CounterInv'
    BY <1>2, <2>1 DEF ToolInv, CounterInv
  <2>3. ~Answerable'
    BY <1>1, <1>3, <1>5, InputStays DEF Answerable, Mounted
  <2> QED BY <1>2, <2>1, <2>2, <2>3 DEF ToolInv, Labels
<1> QED BY <1>4, <1>5

LEMMA PlaceStays ==
    ASSUME UNCHANGED <<input, base, ino>>
    PROVE  /\ volume' = volume /\ node' = node
           /\ Inside' = Inside /\ Arrives' = Arrives
           /\ rest' = rest => Walking' = Walking
<1>1. disk' = disk /\ args' = args /\ base' = base /\ ino' = ino /\ UNCHANGED input
  BY DEF input
<1>2. volume' = volume
  BY <1>1 DEF volume
<1>3. node' = node
  BY <1>1, <1>2 DEF node
<1>4. Inside' = Inside
  BY <1>1, <1>2, InputStays DEF Inside
<1>5. Arrives' = Arrives
  BY <1>1, <1>4, InputStays DEF Arrives
<1>6. rest' = rest => Walking' = Walking
  BY <1>1, <1>2, <1>4, InputStays DEF Walking
<1> QED BY <1>2, <1>3, <1>4, <1>5, <1>6

LEMMA InsideFacts ==
    ASSUME InputInv, Inside
    PROVE  /\ SoundVolume(volume) /\ ino \in DOMAIN volume.inodes
           /\ node = volume.inodes[ino] /\ volume = Volume
           /\ node.size \in Nat
<1>1. SoundVolume(volume)
  BY VolumeIsSound DEF Inside, volume
<1>2. ino \in DOMAIN volume.inodes
  BY DEF Inside
<1> QED BY <1>1, <1>2, NodeFacts DEF node, Inside, volume, Volume

LEMMA StartReading ==
    ASSUME InputInv, ToolInv, StartDirectory, UNCHANGED <<input, shown, copying>>,
           pc = "walk", node.mode = "directory", rest = <<>> => args.tool = "minls"
    PROVE  ToolInv'
<1>1. UNCHANGED <<input, base, ino>> /\ UNCHANGED <<rest, status, shown, out, done, tableZone, d>>
      /\ pc' = "entries" /\ i' = 0 /\ k' = 0 /\ total' = 0 /\ buf' = <<>> /\ args' = args
  BY DEF input, StartDirectory, Goto, copying
<1>2. Walking'
  BY <1>1, PlaceStays DEF ToolInv
<1>3. CounterInv'
  BY <1>1, Geometry DEF ToolInv, CounterInv
<1>4. Reading'
  <2>1. node' = node /\ volume' = volume
    BY <1>1, PlaceStays
  <2>2. Len(buf') = 0 /\ (0 + 0) * ZoneEntries = 0
    BY <1>1, Geometry
  <2>3. WholeZones(Len(buf'))
    <3>1. 0 \in Nat /\ 0 * ZoneEntries = 0
      BY Geometry
    <3> QED BY <2>2, <3>1 DEF WholeZones
  <2> QED BY <1>1, <2>1, <2>2, <2>3, Geometry DEF Reading
<1> QED BY <1>1, <1>2, <1>3, <1>4 DEF ToolInv, Labels

LEMMA DescendKeeps ==
    ASSUME InputInv, ToolInv, Descend, UNCHANGED <<input, shown, copying>>
    PROVE  ToolInv'
<1>1. CASE node.mode = "directory"
  <2>1. StartDirectory /\ pc = "walk" /\ rest # <<>>
    BY <1>1 DEF Descend
  <2> QED BY <1>1, <2>1, StartReading
<1>2. CASE node.mode # "directory"
  <2>1. /\ pc = "walk" /\ Walking /\ Inside /\ rest # <<>>
        /\ pc' = "exit" /\ status' = 1 /\ UNCHANGED input
        /\ UNCHANGED <<base, wanted, ino, rest, i, k, total, buf, shown, out, done, tableZone, d>>
    BY <1>2 DEF Descend, Exit, copying, ToolInv, Walking, input
  <2> DEFINE n == Len(Walked) - Len(rest)
  <2>2. /\ rest \in Seq(PathNames) /\ n \in Nat /\ ino = Steps(volume, Walked)[n]
    BY <2>1 DEF Walking
  <2>3. Len(rest) \in Nat \ {0} /\ Len(Walked) \in Nat
    BY <2>1, <2>2, ArgumentFacts
  <2>4. n + 1 \in 1..Len(Walked) /\ (n + 1) - 1 = n
    BY <2>2, <2>3
  <2>5. Steps(volume, Walked)[n + 1] = Child(volume, ino, Walked[n + 1])
    BY <2>2, <2>3, <2>4, StepsAre
  <2> HIDE DEF n
  <2>6. Steps(volume, Walked)[n + 1] = 0
    BY <1>2, <2>5 DEF Child, IsDirectory, node
  <2>7. Steps(volume, Walked)[Len(Walked)] = 0
    <3>1. n + 1 \in 0..Len(Walked) /\ Len(Walked) \in n + 1..Len(Walked)
      BY <2>3, <2>4
    <3> QED BY <2>3, <2>6, <3>1, NoWay
  <2>8. Target = 0
    BY <2>1, <2>7, WalkedLeads, InsideFacts DEF Inside
  <2>9. ~Answerable'
    BY <2>1, <2>8, InputStays DEF Answerable
  <2>10. CounterInv'
    BY <2>1 DEF ToolInv, CounterInv
  <2> QED BY <2>1, <2>9, <2>10 DEF ToolInv, Labels
<1> QED BY <1>1, <1>2

\* One zone of a directory more: the entries read are still the directory's.
LEMMA TakeZoneKeeps ==
    ASSUME InputInv, ToolInv, MoreEntries, HasRoom,
           TakeZone(ZoneOf(volume, node, i + k))
    PROVE  /\ buf' \in Seq(Entries) /\ total' = Len(buf') /\ total' \in Nat
           /\ Len(buf') = (i + k + 1) * ZoneEntries /\ Len(buf') <= MaxEntries
           /\ WholeZones(Len(buf'))
           /\ \A j \in 1..Len(buf') : j <= node.size => buf'[j] = Listed(volume, node)[j]
<1> DEFINE p == i + k
           zone == ZoneOf(volume, node, p)
           new == volume.entries[zone]
<1>1. /\ Inside /\ Reading /\ buf \in Seq(Entries) /\ i \in Nat /\ k \in Nat
      /\ total < node.size /\ i <= DirectZones
  BY DEF ToolInv, Walking, CounterInv, MoreEntries
<1>2. /\ SoundVolume(volume) /\ ino \in DOMAIN volume.inodes
      /\ node = volume.inodes[ino] /\ node.size \in Nat
      /\ node.mode = "directory" /\ total = Len(buf) /\ Len(buf) = p * ZoneEntries
  BY <1>1, InsideFacts DEF Reading
<1>3. SoundDirectory(volume, node)
  BY <1>2, NodeFacts
<1>4. p \in Nat /\ p * ZoneEntries \in Nat /\ ZoneEntries \in Nat \ {0} /\ MaxEntries \in Nat
  BY <1>1, Geometry, ProductOrder
<1> HIDE DEF p
<1>5. zone \in DOMAIN volume.entries
  <2>1. p * ZoneEntries + 1 \in 1..node.size
    BY <1>1, <1>2, <1>4
  <2>2. (p * ZoneEntries + 1) - 1 = p * ZoneEntries + 0
    BY <1>4
  <2>3. (p * ZoneEntries + 0) \div ZoneEntries = p
    BY <1>4, DivMod
  <2> QED BY <1>3, <2>1, <2>2, <2>3 DEF SoundDirectory
<1>6. /\ new \in Seq(Entries) /\ Len(new) = ZoneEntries
      /\ buf' = buf \o new /\ total' = total + ZoneEntries
  BY <1>2, <1>5, EntryFacts DEF TakeZone, EntriesIn, p
<1> HIDE DEF new
<1>7. /\ buf' \in Seq(Entries) /\ Len(buf') = Len(buf) + ZoneEntries
      /\ \A j \in 1..Len(buf) + ZoneEntries :
            buf'[j] = IF j <= Len(buf) THEN buf[j] ELSE new[j - Len(buf)]
  BY <1>1, <1>6, ConcatProperties
<1>8. Len(buf') = (p + 1) * ZoneEntries
  BY <1>2, <1>4, <1>7
<1>9. Len(buf') <= MaxEntries
  BY <1>1, <1>7 DEF HasRoom
<1>10. ASSUME NEW j \in 1..Len(buf'), j <= node.size
       PROVE  buf'[j] = Listed(volume, node)[j]
  <2>1. CASE j <= Len(buf)
    <3>1. j \in 1..Len(buf)
      BY <1>2, <1>4, <2>1
    <3>2. buf[j] = Listed(volume, node)[j]
      BY <1>1, <1>10, <3>1 DEF Reading
    <3>3. j \in 1..Len(buf) + ZoneEntries
      BY <1>7
    <3> QED BY <1>7, <2>1, <3>2, <3>3
  <2>2. CASE ~(j <= Len(buf))
    <3> DEFINE r == j - Len(buf) - 1
    <3>1. r \in 0..ZoneEntries - 1 /\ j - 1 = p * ZoneEntries + r /\ j - Len(buf) = r + 1
      BY <1>2, <1>4, <1>7, <2>2
    <3>2. buf'[j] = new[r + 1]
      BY <1>2, <1>4, <1>7, <2>2, <3>1
    <3> HIDE DEF r
    <3>3. (j - 1) \div ZoneEntries = p /\ (j - 1) % ZoneEntries = r
      BY <1>4, <3>1, DivMod
    <3>4. j \in 1..node.size
      BY <1>2, <1>7, <1>10
    <3>5. Listed(volume, node)[j] = volume.entries[ZoneOf(volume, node, p)][r + 1]
      BY <3>3, <3>4 DEF Listed
    <3> QED BY <3>2, <3>5 DEF new
  <2> QED BY <2>1, <2>2
<1>11. total' = Len(buf') /\ total' \in Nat
  <2>1. total' = Len(buf')
    BY <1>2, <1>6, <1>7
  <2> QED BY <1>7, <2>1
<1>12. WholeZones(Len(buf'))
  <2>1. p + 1 \in Nat
    BY <1>4
  <2> QED BY <1>8, <2>1 DEF WholeZones
<1> QED BY <1>7, <1>8, <1>9, <1>10, <1>11, <1>12 DEF p

LEMMA ReadDirectoryZoneKeeps ==
    ASSUME InputInv, ToolInv, ReadDirectoryZone, UNCHANGED <<input, shown, copying>>
    PROVE  ToolInv'
<1>1. /\ UNCHANGED <<input, base, ino>> /\ args' = args
      /\ UNCHANGED <<pc, rest, status, k, shown, out, done, tableZone, d>>
      /\ pc = "entries" /\ Reading /\ Inside /\ i < DirectZones /\ k = 0 /\ i' = i + 1
      /\ total < node.size /\ i \in Nat /\ MoreEntries /\ HasRoom
  BY DEF input, ReadDirectoryZone, MoreEntries, copying, ToolInv, Walking, Reading, CounterInv
<1>2. TakeZone(ZoneOf(volume, node, i + k))
  <2>1. i + k = i /\ ZoneOf(volume, node, i) = node.zone[i + 1]
    BY <1>1 DEF ZoneOf
  <2> QED BY <2>1 DEF ReadDirectoryZone
<1>3. /\ buf' \in Seq(Entries) /\ total' = Len(buf') /\ total' \in Nat
      /\ Len(buf') = (i + k + 1) * ZoneEntries /\ Len(buf') <= MaxEntries
      /\ WholeZones(Len(buf'))
      /\ \A j \in 1..Len(buf') : j <= node.size => buf'[j] = Listed(volume, node)[j]
  BY <1>1, <1>2, Geometry, TakeZoneKeeps
<1>4. Walking' /\ node' = node /\ volume' = volume
  BY <1>1, PlaceStays DEF ToolInv
<1>5. CounterInv'
  BY <1>1, <1>3, Geometry DEF ToolInv, CounterInv
<1>6. Reading'
  <2>1. i' + k' = i + k + 1 /\ i' <= DirectZones
    BY <1>1, Geometry
  <2> QED BY <1>1, <1>3, <1>4, <2>1, Geometry DEF Reading
<1> QED BY <1>1, <1>4, <1>5, <1>6 DEF ToolInv

LEMMA ReadIndirectDirectoryKeeps ==
    ASSUME InputInv, ToolInv, ReadIndirectDirectory, UNCHANGED <<input, shown, copying>>
    PROVE  ToolInv'
<1>1. /\ UNCHANGED <<input, base, ino>> /\ args' = args
      /\ UNCHANGED <<pc, rest, status, shown, out, done, tableZone, d>>
      /\ pc = "entries" /\ Reading /\ Inside /\ i = DirectZones
      /\ total < node.size /\ i \in Nat /\ k \in Nat /\ k < ZoneWords
      /\ MoreEntries /\ HasRoom
  BY Geometry
     DEF input, ReadIndirectDirectory, MoreEntries, copying, ToolInv, Walking, Reading, CounterInv
<1>2. /\ SoundVolume(volume) /\ ino \in DOMAIN volume.inodes
      /\ node = volume.inodes[ino] /\ node.size \in Nat
      /\ node.mode = "directory" /\ total = Len(buf) /\ Len(buf) = (i + k) * ZoneEntries
      /\ SoundDirectory(volume, node)
  BY <1>1, InsideFacts, NodeFacts DEF Reading
<1>3. TakeZone(ZoneOf(volume, node, i + k))
  <2>1. DirectZones * ZoneEntries <= (i + k) * ZoneEntries
    BY <1>1, Geometry, ProductOrder
  <2>2. DirectZones * ZoneEntries < node.size
    BY <1>1, <1>2, <2>1, Geometry, ProductOrder
  <2>3. node.indirect \in DOMAIN volume.table \ {0}
    BY <1>2, <2>2, Geometry, ProductOrder DEF SoundDirectory
  <2>4. ~(i + k < DirectZones) /\ (i + k) - DirectZones - ZoneWords < 0
        /\ (i + k) - DirectZones + 1 = k + 1
    BY <1>1, Geometry
  <2>5. node.indirect # 0 => ZoneOf(volume, node, i + k) = volume.table[node.indirect][k + 1]
    BY <2>4 DEF ZoneOf
  <2> QED BY <2>3, <2>5 DEF ReadIndirectDirectory, Word
<1>4. /\ buf' \in Seq(Entries) /\ total' = Len(buf') /\ total' \in Nat
      /\ Len(buf') = (i + k + 1) * ZoneEntries /\ Len(buf') <= MaxEntries
      /\ WholeZones(Len(buf'))
      /\ \A j \in 1..Len(buf') : j <= node.size => buf'[j] = Listed(volume, node)[j]
  BY <1>1, <1>3, Geometry, TakeZoneKeeps
<1>5. Walking' /\ node' = node /\ volume' = volume
  BY <1>1, PlaceStays DEF ToolInv
<1>6. CASE total' >= node.size \/ k + 1 = ZoneWords
  <2>1. i' = i + 1 /\ k' = 0
    BY <1>6 DEF ReadIndirectDirectory
  <2>2. CounterInv'
    BY <1>1, <1>4, <2>1, Geometry DEF ToolInv, CounterInv
  <2>3. total' >= node.size
    <3>1. CASE k + 1 = ZoneWords
      <4>0. i + k + 1 = DirectZones + ZoneWords
        BY <1>1, <3>1, Geometry
      <4>1. Len(buf') = (DirectZones + ZoneWords) * ZoneEntries
        BY <1>4, <4>0
      <4>2. MaxEntries < (DirectZones + ZoneWords) * ZoneEntries
        BY BufferAssumption
      <4>3. (DirectZones + ZoneWords) * ZoneEntries \in Nat
        BY Geometry, ProductOrder
      <4> QED BY <1>2, <1>4, <4>1, <4>2, <4>3, Geometry
    <3> QED BY <1>6, <3>1
  <2>4. Reading'
    BY <1>1, <1>4, <1>5, <2>1, <2>3, Geometry DEF Reading
  <2> QED BY <1>1, <1>5, <2>2, <2>4 DEF ToolInv
<1>7. CASE ~(total' >= node.size \/ k + 1 = ZoneWords)
  <2>1. i' = i /\ k' = k + 1
    BY <1>7 DEF ReadIndirectDirectory
  <2>2. CounterInv'
    BY <1>1, <1>4, <2>1, Geometry DEF ToolInv, CounterInv
  <2>3. Reading'
    <3>1. i' + k' = i + k + 1 /\ k' < ZoneWords
      BY <1>1, <1>7, <2>1, Geometry
    <3> QED BY <1>1, <1>4, <1>5, <2>1, <3>1 DEF Reading
  <2> QED BY <1>1, <1>5, <2>2, <2>3 DEF ToolInv
<1> QED BY <1>6, <1>7

\* When a directory has been read, the entries are the directory's.
LEMMA ReadIsListed ==
    ASSUME InputInv, ToolInv, EntriesRead
    PROVE  /\ \A j \in 1..node.size : Entry(j) = Listed(volume, node)[j]
           /\ [j \in 1..node.size |-> Entry(j)] = Listed(volume, node)
<1>1. /\ pc = "entries" /\ Reading /\ Inside /\ node.size \in Nat
      /\ total = Len(buf) /\ total \in Nat
  BY InsideFacts DEF EntriesRead, ToolInv, Walking, Reading, CounterInv
<1>2. total >= node.size
  BY <1>1, Geometry DEF EntriesRead, MoreEntries, Reading, ToolInv, CounterInv
<1>3. \A j \in 1..node.size : Entry(j) = Listed(volume, node)[j]
  BY <1>1, <1>2 DEF Entry, Reading
<1>4. Listed(volume, node) = [j \in 1..node.size |-> Listed(volume, node)[j]]
  BY DEF Listed
<1> QED BY <1>3, <1>4

\* As many zones as a directory needs, and no more, cover it.
LEMMA ZonesCover ==
    ASSUME NEW size \in Nat, NEW m \in Nat
    PROVE  /\ m * ZoneEntries >= size => ZonesOf(size) * ZoneEntries <= m * ZoneEntries
           /\ m * ZoneEntries < size => ZonesOf(size) * ZoneEntries >= (m + 1) * ZoneEntries
           /\ ZonesOf(size) * ZoneEntries \in Nat
<1> DEFINE x == size + ZoneEntries - 1
           q == x \div ZoneEntries
           r == x % ZoneEntries
<1>1. /\ ZoneEntries \in Nat \ {0} /\ x \in Nat /\ q \in Nat /\ r \in 0..ZoneEntries - 1
      /\ x = q * ZoneEntries + r
  <2>1. ZoneEntries \in Nat \ {0} /\ x \in Nat
    BY Geometry
  <2>2. x + 1 \in Nat \ {0} /\ (x + 1) - 1 = x
    BY <2>1
  <2> HIDE DEF x
  <2>3. x + 1 = q * ZoneEntries + r + 1 /\ q \in Nat /\ r \in 0..ZoneEntries - 1
    BY <2>1, <2>2, PlaceOf
  <2>4. q * ZoneEntries \in Nat
    BY <2>1, <2>3, ProductOrder
  <2> HIDE DEF q, r
  <2> QED BY <2>1, <2>3, <2>4
<1>2. ZonesOf(size) = q /\ x = size + ZoneEntries - 1
  BY DEF ZonesOf
<1> HIDE DEF x, q, r
<1>3. q * ZoneEntries \in Nat /\ m * ZoneEntries \in Nat
      /\ (m + 1) * ZoneEntries = m * ZoneEntries + ZoneEntries
  BY <1>1, ProductOrder
<1>4. ASSUME m * ZoneEntries >= size PROVE q * ZoneEntries <= m * ZoneEntries
  <2>1. q * ZoneEntries < (m + 1) * ZoneEntries
    BY <1>1, <1>2, <1>3, <1>4
  <2>2. q < m + 1
    BY <1>1, <2>1, ProductOrder
  <2>3. q <= m
    BY <1>1, <2>2
  <2> QED BY <1>1, <2>3, ProductOrder
<1>5. ASSUME m * ZoneEntries < size PROVE q * ZoneEntries >= (m + 1) * ZoneEntries
  <2>1. m * ZoneEntries < q * ZoneEntries
    BY <1>1, <1>2, <1>3, <1>5
  <2>2. m < q
    BY <1>1, <2>1, ProductOrder
  <2> QED BY <1>1, <2>2, ProductOrder
<1> QED BY <1>2, <1>3, <1>4, <1>5

\* A directory that is read is one the path leads through.
LEMMA WayThere ==
    ASSUME InputInv, Walking, node.mode = "directory"
    PROVE  Mounted /\ ino \in OnTheWay /\ node = Volume.inodes[ino]
<1> DEFINE n == Len(Walked) - Len(rest)
<1>1. /\ Inside /\ volume = Volume /\ ino \in DOMAIN volume.inodes
      /\ SoundVolume(volume) /\ node = volume.inodes[ino]
      /\ rest \in Seq(PathNames) /\ n \in Nat /\ ino = Steps(volume, Walked)[n]
  BY InsideFacts DEF Walking
<1>2. Mounted
  BY <1>1 DEF Inside, Mounted
<1>3. ino # 0
  BY <1>1 DEF SoundVolume
<1>4. \E j \in 0..Len(args.path) : ino = Steps(Volume, args.path)[j]
  <2>1. n \in 0..Len(Walked)
    BY <1>1, ArgumentFacts
  <2> HIDE DEF n
  <2>2. CASE args.path = <<>>
    <3>1. Walked = <<".">> /\ Len(Walked) = 1 /\ Walked[1] = "." /\ Len(args.path) = 0
      BY <2>2 DEF Walked
    <3>2. Steps(Volume, args.path)[0] = 1
      BY <3>1, StepsAre
    <3>3. Steps(Volume, Walked)[0] = 1
          /\ Steps(Volume, Walked)[1] = Child(Volume, Steps(Volume, Walked)[1 - 1], Walked[1])
      BY <3>1, StepsAre
    <3>4. Child(Volume, 1, ".") = 1
      BY <1>1 DEF SoundVolume
    <3>5. n = 0 \/ n = 1
      BY <2>1, <3>1
    <3>6. ino = 1
      BY <1>1, <3>1, <3>3, <3>4, <3>5
    <3> QED BY <3>1, <3>2, <3>6
  <2>3. CASE args.path # <<>>
    BY <1>1, <2>1, <2>3 DEF Walked
  <2> QED BY <2>2, <2>3
<1> QED BY <1>1, <1>2, <1>3, <1>4 DEF OnTheWay

\* The buffer is overrun only by a directory whose zones do not fit.
LEMMA OverrunBufferKeeps ==
    ASSUME InputInv, ToolInv, OverrunBuffer, UNCHANGED <<input, shown, copying>>
    PROVE  ToolInv'
<1>1. /\ UNCHANGED input /\ pc = "entries" /\ Walking /\ Reading /\ pc' = "overrun"
      /\ total < node.size /\ i <= DirectZones /\ ~HasRoom
      /\ UNCHANGED <<status, base, wanted, ino, rest, i, k, total, buf, shown, out, done,
                     tableZone, d>>
  BY DEF input, OverrunBuffer, MoreEntries, Goto, copying, ToolInv
<1>2. /\ i \in Nat /\ k \in Nat /\ node.size \in Nat /\ node.mode = "directory"
      /\ total = Len(buf) /\ Len(buf) = (i + k) * ZoneEntries
  BY <1>1, InsideFacts DEF Reading, ToolInv, CounterInv, Walking
<1> DEFINE m == i + k
<1>3. m \in Nat /\ m * ZoneEntries < node.size
  BY <1>1, <1>2
<1>4. Len(buf) + ZoneEntries = (m + 1) * ZoneEntries
  BY <1>2, Geometry
<1> HIDE DEF m
<1>5. ZonesOf(node.size) * ZoneEntries >= (m + 1) * ZoneEntries
      /\ ZonesOf(node.size) * ZoneEntries \in Nat
  BY <1>2, <1>3, ZonesCover
<1>6. (m + 1) * ZoneEntries > MaxEntries /\ (m + 1) * ZoneEntries \in Nat
  <2>1. m + 1 \in Nat /\ ZoneEntries \in Nat \ {0} /\ MaxEntries \in Nat
    BY <1>3, Geometry
  <2>2. (m + 1) * ZoneEntries \in Nat
    BY <2>1, ProductOrder
  <2> QED BY <1>1, <1>4, <2>1, <2>2 DEF HasRoom
<1>7. ~Fits(node)
  <2>1. MaxEntries \in Nat
    BY Geometry
  <2>2. ~(ZonesOf(node.size) * ZoneEntries <= MaxEntries)
    BY <1>5, <1>6, <2>1
  <2> QED BY <1>2, <2>2 DEF Fits
<1>8. ~DirectoriesFit
  BY <1>1, <1>2, <1>7, WayThere DEF DirectoriesFit
<1>9. ~DirectoriesFit'
  BY <1>1, <1>8, InputStays
<1>10. CounterInv'
  BY <1>1 DEF ToolInv, CounterInv
<1> QED BY <1>1, <1>9, <1>10 DEF ToolInv, Labels

\* Behind that, nothing is claimed but what the counters are.
LEMMA GoAstrayKeeps ==
    ASSUME InputInv, ToolInv, GoAstray, UNCHANGED input
    PROVE  ToolInv'
<1>1. /\ ~DirectoriesFit /\ pc' = "exit" /\ status' \in 0..1 /\ out' \in {<<>>, <<0>>}
      /\ UNCHANGED <<base, wanted, ino, rest, i, k, total, buf, done, tableZone, d>>
  BY DEF GoAstray, Exit, ToolInv
<1>2. out' \in Seq(Nat)
  <2>1. <<>> \in Seq(Nat) /\ <<0>> \in Seq(Nat)
    OBVIOUS
  <2> QED BY <1>1, <2>1
<1>3. CounterInv'
  BY <1>1, <1>2 DEF ToolInv, CounterInv
<1>4. ~DirectoriesFit'
  BY <1>1, InputStays
<1> QED BY <1>1, <1>3, <1>4 DEF ToolInv, Labels

LEMMA MatchTokenKeeps ==
    ASSUME InputInv, ToolInv, MatchToken, UNCHANGED <<input, shown, copying>>
    PROVE  ToolInv'
<1> DEFINE n == Len(Walked) - Len(rest)
           list == Listed(volume, node)
           hits == {j \in 1..node.size : Entry(j).name = Head(rest)}
<1>1. /\ pc = "entries" /\ Walking /\ Inside /\ Reading /\ EntriesRead /\ rest # <<>>
      /\ UNCHANGED <<input, base, wanted, i, k, total, buf, shown, out, done, tableZone, d>>
      /\ disk' = disk /\ args' = args
  BY DEF MatchToken, copying, ToolInv, Walking, input, EntriesRead
<1>2. /\ rest \in Seq(PathNames) /\ n \in Nat /\ ino = Steps(volume, Walked)[n]
      /\ \A j \in 1..Len(rest) : rest[j] = Walked[n + j]
  BY <1>1 DEF Walking
<1>3. /\ Len(rest) \in Nat \ {0} /\ Head(rest) = rest[1] /\ Len(Walked) \in Nat
      /\ Tail(rest) \in Seq(PathNames) /\ Len(Tail(rest)) = Len(rest) - 1
      /\ \A j \in 1..Len(Tail(rest)) : Tail(rest)[j] = rest[j + 1]
  <2>1. Len(rest) \in Nat \ {0} /\ Head(rest) = rest[1] /\ Len(Walked) \in Nat
    BY <1>1, <1>2, ArgumentFacts
  <2> QED BY <1>1, <1>2, <2>1, HeadTailProperties
<1>4. n + 1 \in 1..Len(Walked) /\ (n + 1) - 1 = n /\ rest[1] = Walked[n + 1]
  BY <1>2, <1>3
<1> HIDE DEF n
<1>5. Steps(volume, Walked)[n + 1] = Child(volume, ino, Head(rest))
  <2>1. Steps(volume, Walked)[n + 1]
        = Child(volume, Steps(volume, Walked)[(n + 1) - 1], Walked[n + 1])
    BY <1>3, <1>4, StepsAre
  <2> QED BY <1>2, <1>3, <1>4, <2>1
<1>6. /\ SoundVolume(volume) /\ ino \in DOMAIN volume.inodes
      /\ node = volume.inodes[ino] /\ node.size \in Nat /\ node.mode = "directory"
      /\ volume = Volume
  BY <1>1, InsideFacts DEF Reading
<1>7. \A j \in 1..node.size :
         Entry(j) = list[j] /\ list[j].ino \in DOMAIN volume.inodes
         /\ list[j] \in Entries
  BY <1>1, <1>6, ReadIsListed, ListedFacts
<1>8. CASE hits = {}
  <2>1. pc' = "exit" /\ status' = 1 /\ UNCHANGED <<ino, rest>>
    BY <1>8 DEF MatchToken, Exit
  <2>2. Child(volume, ino, Head(rest)) = 0
    BY <1>6, <1>7, <1>8, ChildIs
  <2>3. Steps(volume, Walked)[Len(Walked)] = 0
    <3>1. n + 1 \in 0..Len(Walked) /\ Len(Walked) \in n + 1..Len(Walked)
      BY <1>3, <1>4
    <3> QED BY <1>3, <1>5, <2>2, <3>1, NoWay
  <2>4. Target = 0
    BY <1>1, <1>6, <2>3, WalkedLeads DEF Inside
  <2>5. ~Answerable'
    BY <1>1, <2>4, InputStays DEF Answerable
  <2>6. CounterInv'
    BY <1>1, <2>1 DEF ToolInv, CounterInv
  <2> QED BY <1>1, <2>1, <2>5, <2>6 DEF ToolInv, Labels
<1>9. CASE hits # {}
  <2> DEFINE first == CHOOSE j \in hits : \A l \in hits : j <= l
  <2>1. /\ pc' = "walk" /\ UNCHANGED status
        /\ ino' = Entry(first).ino /\ rest' = Tail(rest)
    BY <1>9 DEF MatchToken, Goto
  <2>2. first \in hits
    <3>1. hits \in SUBSET Nat
      OBVIOUS
    <3>2. \E j \in hits : \A l \in hits : j <= l
      BY <1>9, <3>1, LeastNumber
    <3> HIDE DEF hits
    <3> QED BY <3>2
  <2> HIDE DEF first
  <2>3. first \in 1..node.size /\ list[first].name = Head(rest)
        /\ ino' = list[first].ino /\ ino' \in DOMAIN volume.inodes
    BY <1>7, <2>1, <2>2
  <2>4. ino' = Steps(volume, Walked)[n + 1]
    BY <1>5, <1>6, <2>3, ChildIs
  <2>5. ino' \in Nat
    BY <1>7, <2>3 DEF Entries
  <2>6. CounterInv'
    BY <1>1, <2>1, <2>5 DEF ToolInv, CounterInv
  <2>7. volume' = volume
    BY <1>1 DEF volume
  <2>8. Inside'
    BY <1>1, <2>3, <2>7, InputStays DEF Inside
  <2>9. Walking'
    <3>1. Len(Walked) - Len(rest') = n + 1 /\ n + 1 \in Nat
      <4>1. Len(rest') = Len(rest) - 1 /\ n = Len(Walked) - Len(rest)
        BY <1>3, <2>1 DEF n
      <4> QED BY <1>2, <1>3, <4>1
    <3>2. \A j \in 1..Len(rest') : rest'[j] = Walked[(n + 1) + j]
      <4> SUFFICES ASSUME NEW j \in 1..Len(rest') PROVE rest'[j] = Walked[(n + 1) + j]
        OBVIOUS
      <4>1. j + 1 \in 1..Len(rest) /\ rest'[j] = rest[j + 1]
        BY <1>3, <2>1
      <4>2. j \in Nat /\ n + (j + 1) = (n + 1) + j
        BY <1>2, <1>3, <2>1
      <4> QED BY <1>2, <4>1, <4>2
    <3>3. rest' \in Seq(PathNames)
      BY <1>3, <2>1
    <3> QED BY <1>1, <2>4, <2>7, <2>8, <3>1, <3>2, <3>3, InputStays DEF Walking
  <2> QED BY <1>1, <2>1, <2>6, <2>9 DEF ToolInv, Labels
<1> QED BY <1>8, <1>9

-----------------------------------------------------------------------------
(***************************************************************************)
(* At the end of the path.                                                 *)
(***************************************************************************)
LEMMA PathEnds ==
    ASSUME InputInv, Walking, rest = <<>>
    PROVE  Arrives /\ node = TargetNode
<1>1. Len(Walked) - Len(rest) = Len(Walked)
  BY ArgumentFacts
<1>2. ino = Steps(volume, Walked)[Len(Walked)] /\ Inside
  BY <1>1 DEF Walking
<1>3. ino = Target /\ volume = Volume
  BY <1>2, WalkedLeads, InsideFacts DEF Inside
<1> QED BY <1>2, <1>3 DEF Arrives, node, TargetNode

LEMMA ListContentsOfInodeKeeps ==
    ASSUME InputInv, ToolInv, ListContentsOfInode, UNCHANGED input
    PROVE  ToolInv'
<1>1. /\ pc = "walk" /\ rest = <<>> /\ args.tool = "minls" /\ UNCHANGED copying
      /\ Walking /\ args' = args
  BY DEF ListContentsOfInode, Arrived, ToolInv, input
<1>2. Arrives /\ Inside /\ node = TargetNode
  BY <1>1, PathEnds DEF Arrives
<1>3. CASE node.mode = "directory"
  <2>1. StartDirectory /\ UNCHANGED shown
    BY <1>3 DEF ListContentsOfInode
  <2> QED BY <1>1, <1>3, <2>1, StartReading
<1>4. CASE node.mode = "regular"
  <2>1. /\ shown' = [what |-> "file", rows |-> <<Row(args.path, node)>>]
        /\ pc' = "exit" /\ status' = 0
        /\ UNCHANGED <<base, wanted, ino, rest, i, k, total, buf, out, done, tableZone, d>>
    BY <1>1, <1>4 DEF ListContentsOfInode, Exit, copying
  <2>2. CounterInv'
    BY <2>1 DEF ToolInv, CounterInv
  <2>3. Arrives' /\ node' = node /\ volume' = volume
    BY <1>2, <2>1, PlaceStays
  <2>4. Listing'
    BY <1>1, <1>4, <2>1, <2>3 DEF Listing, Lines
  <2> QED BY <2>1, <2>2, <2>4 DEF ToolInv, Labels
<1>5. CASE node.mode \notin {"directory", "regular"}
  <2>1. /\ pc' = "exit" /\ status' = 1
        /\ UNCHANGED <<base, wanted, ino, rest, i, k, total, buf, out, done, tableZone, d, shown>>
    BY <1>1, <1>5 DEF ListContentsOfInode, Exit, copying
  <2>2. CounterInv'
    BY <2>1 DEF ToolInv, CounterInv
  <2>3. ~Answerable'
    BY <1>1, <1>2, <1>5, InputStays DEF Answerable
  <2> QED BY <1>1, <2>1, <2>2, <2>3 DEF ToolInv, Labels
<1> QED BY <1>3, <1>4, <1>5

LEMMA PrintDirectoryKeeps ==
    ASSUME InputInv, ToolInv, PrintDirectory, UNCHANGED input
    PROVE  ToolInv'
<1>1. /\ pc = "entries" /\ rest = <<>> /\ EntriesRead /\ Walking /\ Reading /\ args' = args
      /\ pc' = "exit" /\ status' = 0
      /\ UNCHANGED <<base, wanted, ino, rest, i, k, total, buf, out, done, tableZone, d>>
      /\ shown' = [what |-> "directory",
             rows |-> DirectoryRows(volume, Undeleted([j \in 1..node.size |-> Entry(j)]))]
  BY DEF PrintDirectory, EntriesRead, ToolInv, input, Exit, copying
<1>2. Arrives /\ Inside /\ node.mode = "directory" /\ args.tool = "minls"
  BY <1>1, PathEnds DEF Arrives, Reading
<1>3. shown' = Lines(volume, node)
  <2>1. [j \in 1..node.size |-> Entry(j)] = Listed(volume, node)
    BY <1>1, ReadIsListed
  <2> QED BY <1>1, <1>2, <2>1 DEF Lines, LiveEntries
<1>4. Arrives' /\ node' = node /\ volume' = volume
  BY <1>1, <1>2, PlaceStays
<1>5. Listing'
  BY <1>1, <1>2, <1>3, <1>4 DEF Listing, Lines
<1>6. CounterInv'
  BY <1>1 DEF ToolInv, CounterInv
<1> QED BY <1>1, <1>5, <1>6 DEF ToolInv, Labels

LEMMA OutputFileContentsKeeps ==
    ASSUME InputInv, ToolInv, OutputFileContents, UNCHANGED input
    PROVE  ToolInv'
<1>1. /\ pc = "walk" /\ rest = <<>> /\ args.tool = "minget" /\ Walking /\ args' = args
      /\ i' = 0 /\ total' = 0 /\ shown' = Nothing
      /\ UNCHANGED <<base, wanted, ino, rest, k, buf, out, done, tableZone, d>>
  BY DEF OutputFileContents, Arrived, ToolInv, input, copying
<1>2. Arrives /\ Inside /\ node = TargetNode
  BY <1>1, PathEnds DEF Arrives
<1>3. Arrives' /\ node' = node
  BY <1>1, <1>2, PlaceStays
<1>4. CASE node.mode = "regular" /\ args.writes
  <2>1. pc' = "direct" /\ UNCHANGED status
    BY <1>4 DEF OutputFileContents, Goto
  <2>2. CounterInv'
    BY <1>1, <2>1, Geometry DEF ToolInv, CounterInv
  <2>3. Serving'
    BY <1>1, <1>3, <1>4 DEF Serving
  <2> QED BY <1>1, <2>1, <2>2, <2>3 DEF ToolInv, Labels
<1>5. CASE ~(node.mode = "regular" /\ args.writes)
  <2>1. pc' = "exit" /\ status' = 1
    BY <1>5 DEF OutputFileContents, Exit
  <2>2. CounterInv'
    BY <1>1, <2>1, Geometry DEF ToolInv, CounterInv
  <2>3. ~Answerable'
    BY <1>1, <1>2, <1>5, InputStays DEF Answerable
  <2> QED BY <1>1, <2>1, <2>2, <2>3 DEF ToolInv, Labels
<1> QED BY <1>4, <1>5

-----------------------------------------------------------------------------
(***************************************************************************)
(* Copying, as far as it is about the numbers.                             *)
(***************************************************************************)
LEMMA PieceFacts ==
    ASSUME InputInv, Inside, NEW zone \in Nat, NEW sofar \in Nat, sofar < node.size
    PROVE  /\ Piece(zone, sofar) \in Seq(Nat)
           /\ Len(Piece(zone, sofar)) = IF zone = 0 THEN ZoneWords
                                        ELSE Less(ZoneWords, node.size - sofar)
           /\ Len(Piece(zone, sofar)) \in 1..ZoneWords
           /\ \A j \in 1..Len(Piece(zone, sofar)) :
                 Piece(zone, sofar)[j] = IF zone = 0 THEN 0 ELSE Word(volume, zone, j)
<1>1. SoundVolume(volume) /\ node.size \in Nat
  BY InsideFacts
<1>2. CASE zone = 0
  <2>1. Piece(zone, sofar) = [j \in 1..ZoneWords |-> 0]
    BY <1>2 DEF Piece
  <2>2. [j \in 1..ZoneWords |-> 0] \in Seq(Nat) /\ Len([j \in 1..ZoneWords |-> 0]) = ZoneWords
    BY Geometry
  <2> QED BY <1>2, <2>1, <2>2, Geometry
<1>3. CASE zone # 0
  <2> DEFINE l == Less(ZoneWords, node.size - sofar)
  <2>1. l \in 1..ZoneWords
    BY <1>1, Geometry DEF Less
  <2>2. Piece(zone, sofar) = [j \in 1..l |-> Word(volume, zone, j)]
    BY <1>3 DEF Piece
  <2> HIDE DEF l
  <2>3. \A j \in 1..l : Word(volume, zone, j) \in Nat
    BY <1>1, <2>1, WordIsNumber, Geometry
  <2>4. l \in Nat
    BY <2>1, Geometry
  <2>5. Piece(zone, sofar) \in [1..l -> Nat]
    BY <2>2, <2>3
  <2>6. Piece(zone, sofar) \in Seq(Nat) /\ Len(Piece(zone, sofar)) = l
    BY <2>4, <2>5
  <2> QED BY <1>3, <2>1, <2>2, <2>6 DEF l
<1> QED BY <1>2, <1>3

LEMMA CopyDirectZoneKeeps ==
    ASSUME InputInv, ToolInv, CopyDirectZone, UNCHANGED input
    PROVE  ToolInv'
<1> DEFINE piece == Piece(node.zone[i + 1], total)
<1>1. /\ pc = "direct" /\ total < node.size /\ i < DirectZones /\ Serving /\ Inside
      /\ out' = out \o piece /\ total' = total + Len(piece) /\ i' = i + 1
      /\ UNCHANGED <<pc, status, base, wanted, ino, rest, k, buf, shown, done, tableZone, d>>
      /\ args' = args
  BY DEF CopyDirectZone, ToolInv, Serving, Arrives, input
<1>2. i \in Nat /\ total \in Nat /\ out \in Seq(Nat)
  BY DEF ToolInv, CounterInv
<1>3. node.zone[i + 1] \in Nat
  <2>1. i + 1 \in 1..DirectZones
    BY <1>1, <1>2, Geometry
  <2>2. \A z \in 1..DirectZones : node.zone[z] \in Nat
    BY <1>1, InsideFacts, NodeFacts
  <2> QED BY <2>1, <2>2
<1>4. piece \in Seq(Nat) /\ Len(piece) \in 1..ZoneWords
  BY <1>1, <1>2, <1>3, PieceFacts
<1> HIDE DEF piece
<1>5. out' \in Seq(Nat)
  BY <1>1, <1>2, <1>4, ConcatProperties
<1>6. CounterInv'
  BY <1>1, <1>2, <1>4, <1>5, Geometry DEF ToolInv, CounterInv
<1>7. Serving'
  BY <1>1, PlaceStays DEF Serving
<1> QED BY <1>1, <1>6, <1>7 DEF ToolInv

LEMMA LeaveDirectKeeps ==
    ASSUME InputInv, ToolInv, LeaveDirect, UNCHANGED input
    PROVE  ToolInv'
<1>1. /\ pc = "direct" /\ Serving /\ args' = args
      /\ UNCHANGED <<base, wanted, ino, rest, i, k, total, buf, shown, out, done, tableZone, d>>
      /\ \/ pc' = "call" /\ UNCHANGED status
         \/ pc' = "exit" /\ status' = 0
  BY DEF LeaveDirect, ToolInv, input, Goto, Exit, copying
<1>2. CounterInv'
  BY <1>1 DEF ToolInv, CounterInv
<1>3. Serving'
  BY <1>1, PlaceStays DEF Serving
<1> QED BY <1>1, <1>2, <1>3 DEF ToolInv, Labels

LEMMA CallHandlerKeeps ==
    ASSUME InputInv, ToolInv, CallHandler, UNCHANGED input
    PROVE  ToolInv'
<1>1. /\ pc = "call" /\ Serving /\ args' = args /\ d <= ZoneWords /\ Inside
      /\ pc' = "indirect" /\ done' = total /\ k' = 0
      /\ tableZone' = IF d = 0 THEN node.indirect ELSE Word(volume, node.two_indirect, d)
      /\ UNCHANGED <<status, base, wanted, ino, rest, i, total, buf, shown, out, d>>
  BY DEF CallHandler, ToolInv, input, Goto, Serving, Arrives
<1>2. d \in Nat /\ node.indirect \in Nat /\ node.two_indirect \in Nat
  BY <1>1, InsideFacts, NodeFacts DEF ToolInv, CounterInv
<1>3. tableZone' \in Nat
  <2>1. CASE d = 0
    BY <1>1, <1>2, <2>1
  <2>2. CASE d # 0
    <3>1. d \in 1..ZoneWords
      BY <1>1, <1>2, <2>2, Geometry
    <3> QED BY <1>1, <1>2, <2>2, <3>1, WordIsNumber, InsideFacts
  <2> QED BY <2>1, <2>2
<1>4. CounterInv'
  BY <1>1, <1>3, Geometry DEF ToolInv, CounterInv
<1>5. Serving'
  BY <1>1, PlaceStays DEF Serving
<1> QED BY <1>1, <1>4, <1>5 DEF ToolInv, Labels

LEMMA CopyIndirectZoneKeeps ==
    ASSUME InputInv, ToolInv, CopyIndirectZone, UNCHANGED input
    PROVE  ToolInv'
<1> DEFINE piece == Piece(Word(volume, tableZone, k + 1), done)
<1>1. /\ pc = "indirect" /\ done < node.size /\ k < ZoneWords /\ Serving /\ Inside
      /\ out' = out \o piece /\ done' = done + Len(piece) /\ k' = k + 1
      /\ UNCHANGED <<pc, status, base, wanted, ino, rest, i, total, buf, shown, tableZone, d>>
      /\ args' = args
  BY DEF CopyIndirectZone, ToolInv, Serving, Arrives, input
<1>2. k \in Nat /\ done \in Nat /\ out \in Seq(Nat) /\ tableZone \in Nat
  BY DEF ToolInv, CounterInv
<1>3. Word(volume, tableZone, k + 1) \in Nat
  <2>1. k + 1 \in 1..ZoneWords
    BY <1>1, <1>2, Geometry
  <2> QED BY <1>1, <1>2, <2>1, InsideFacts, WordIsNumber
<1>4. piece \in Seq(Nat) /\ Len(piece) \in 1..ZoneWords
  BY <1>1, <1>2, <1>3, PieceFacts
<1> HIDE DEF piece
<1>5. out' \in Seq(Nat)
  BY <1>1, <1>2, <1>4, ConcatProperties
<1>6. CounterInv'
  BY <1>1, <1>2, <1>4, <1>5, Geometry DEF ToolInv, CounterInv
<1>7. Serving'
  BY <1>1, PlaceStays DEF Serving
<1> QED BY <1>1, <1>6, <1>7 DEF ToolInv

LEMMA ReturnFromHandlerKeeps ==
    ASSUME InputInv, ToolInv, ReturnFromHandler, UNCHANGED input
    PROVE  ToolInv'
<1>1. /\ pc = "indirect" /\ Serving /\ args' = args /\ d <= ZoneWords
      /\ pc' = "call" /\ d' = d + 1 /\ total' = IF d = 0 THEN total ELSE done
      /\ UNCHANGED <<status, base, wanted, ino, rest, i, k, buf, shown, out, done, tableZone>>
  BY DEF ReturnFromHandler, ToolInv, CounterInv, input, Goto
<1>2. CounterInv'
  BY <1>1, Geometry DEF ToolInv, CounterInv
<1>3. Serving'
  BY <1>1, PlaceStays DEF Serving
<1> QED BY <1>1, <1>2, <1>3 DEF ToolInv, Labels

LEMMA LeaveDoubleIndirectKeeps ==
    ASSUME InputInv, ToolInv, LeaveDoubleIndirect, UNCHANGED input
    PROVE  ToolInv'
<1>1. /\ pc = "call" /\ Serving /\ args' = args /\ pc' = "exit" /\ status' = 0
      /\ UNCHANGED <<base, wanted, ino, rest, i, k, total, buf, shown, out, done, tableZone, d>>
  BY DEF LeaveDoubleIndirect, ToolInv, input, Exit, copying
<1>2. CounterInv'
  BY <1>1 DEF ToolInv, CounterInv
<1>3. Serving'
  BY <1>1, PlaceStays DEF Serving
<1> QED BY <1>1, <1>2, <1>3 DEF ToolInv, Labels

LEMMA ToolKeeps ==
    ASSUME InputInv, ToolInv, Tool, UNCHANGED input
    PROVE  ToolInv'
<1>1. CASE Common /\ UNCHANGED <<shown, copying>>
  <2>1. UNCHANGED <<input, shown, copying>>
    BY <1>1
  <2> QED BY <1>1, <2>1, ParseArgumentsKeeps, FindPartitionKeeps, ParseSuperblockKeeps, DescendKeeps,
             MatchTokenKeeps, ReadDirectoryZoneKeeps, ReadIndirectDirectoryKeeps,
             OverrunBufferKeeps DEF Common
<1> QED BY <1>1, GoAstrayKeeps, ListContentsOfInodeKeeps, PrintDirectoryKeeps, OutputFileContentsKeeps,
           CopyDirectZoneKeeps, LeaveDirectKeeps, CallHandlerKeeps, CopyIndirectZoneKeeps,
           ReturnFromHandlerKeeps, LeaveDoubleIndirectKeeps DEF Tool
-----------------------------------------------------------------------------
(***************************************************************************)
(* The earlier program, as far as it is about the numbers.                 *)
(***************************************************************************)
\* What its buffer can hold: a zone that is missing reads as zeroes.
Held == Entries \cup {Blank}

\* Every entry it has read leads to an inode.
EarlierTypes ==
    /\ at \in {"main", "initialize", "zones", "exit"}
    /\ code \in -1..255 /\ (code = -1 <=> at # "exit")
    /\ {offset, level, inode, zones} \subseteq Nat
    /\ at = "zones" =>
          /\ offset \in DOMAIN disk.volumes /\ inode \in DOMAIN eVolume.inodes
          /\ zones <= DirectZones
          /\ directory \in Seq(Held)
          /\ \A j \in 1..Len(directory) : directory[j].ino \in DOMAIN eVolume.inodes
    /\ at \in {"main", "initialize"} => zones = 0 /\ directory = <<>> /\ inode = 1

LEMMA HeldNumbers ==
    ASSUME NEW e \in Held
    PROVE  e.ino \in Nat
<1>1. CASE e \in Entries
  BY <1>1 DEF Entries
<1>2. CASE e = Blank
  BY <1>2 DEF Blank
<1> QED BY <1>1, <1>2 DEF Held

LEMMA TimesIsNumber ==
    ASSUME NEW a \in Nat, NEW b \in Nat
    PROVE  a * b \in Nat
<1>1. CASE b = 0
  BY <1>1
<1>2. CASE b # 0
  BY <1>2, ProductOrder
<1> QED BY <1>1, <1>2

LEMMA Statuses ==
    /\ 1 % 256 = 1 /\ 0 % 256 = 0 /\ 256 % 256 = 0
    /\ 1 \in -1..255 /\ 0 \in -1..255
  OBVIOUS

LEMMA ReadPartitionTypes ==
    ASSUME InputInv, EarlierTypes, ReadPartition, UNCHANGED input
    PROVE  EarlierTypes'
<1>1. /\ at = "initialize" /\ level < Len(args.parts) /\ disk' = disk
      /\ UNCHANGED <<inode, tokens, zones, directory, printed>>
      /\ offset \in Nat /\ level \in Nat
  BY DEF ReadPartition, EarlierTypes, input
<1> DEFINE first == disk.tables[offset][0]
           stops == offset \notin DOMAIN disk.tables \/ (level = 0 /\ ~first.minix)
<1>2. CASE stops
  <2>1. at' = "exit" /\ code' = 1 /\ UNCHANGED <<offset, level>>
    BY <1>2, Statuses DEF ReadPartition, ExitEarlier
  <2> QED BY <1>1, <2>1, Statuses DEF EarlierTypes
<1>3. CASE ~stops
  <2>1. /\ offset' = IF first.minix THEN first.lFirst + NumberRead(level + 1) * first.size
                     ELSE offset
        /\ level' = level + 1 /\ UNCHANGED <<at, code>>
    BY <1>3 DEF ReadPartition
  <2>2. first.lFirst \in Nat /\ first.size \in Nat
    <3>1. SoundTable(disk.tables[offset])
      BY <1>3 DEF InputInv, SoundDisk
    <3> QED BY <3>1 DEF SoundTable, Largest
  <2>3. NumberRead(level + 1) \in Nat
    <3>1. level + 1 \in 1..Len(args.parts) /\ args.parts \in Seq(0..Largest)
      BY <1>1, ArgumentFacts
    <3> DEFINE S == 0..Largest
    <3>2. args.parts \in Seq(S)
      BY <3>1
    <3> HIDE DEF S
    <3>3. args.parts[level + 1] \in S
      BY <3>1, <3>2, ElementOfSeq
    <3> QED BY <3>3 DEF S, NumberRead
  <2> HIDE DEF first
  <2>4. offset' \in Nat
    <3>1. NumberRead(level + 1) * first.size \in Nat
      BY <2>2, <2>3, TimesIsNumber
    <3> QED BY <1>1, <2>1, <2>2, <3>1
  <2> QED BY <1>1, <2>1, <2>4 DEF EarlierTypes
<1> QED BY <1>2, <1>3

LEMMA ReadZoneTypes ==
    ASSUME InputInv, EarlierTypes, ReadZone, UNCHANGED input
    PROVE  EarlierTypes'
<1> DEFINE zone == eNode.zone[zones + 1]
           new == IF zone \in DOMAIN eVolume.entries THEN eVolume.entries[zone]
                  ELSE [j \in 1..ZoneEntries |-> Blank]
<1>1. /\ at = "zones" /\ zones < DirectZones /\ disk' = disk
      /\ directory' = directory \o new /\ zones' = zones + 1
      /\ UNCHANGED <<at, code, offset, level, inode, tokens, printed>>
      /\ zones \in Nat /\ directory \in Seq(Held)
      /\ offset \in DOMAIN disk.volumes /\ inode \in DOMAIN eVolume.inodes
  BY DEF ReadZone, MoreZones, EarlierTypes, input
<1>2. SoundVolume(eVolume) /\ eVolume' = eVolume
  BY <1>1, VolumeIsSound DEF eVolume
<1>3. /\ new \in Seq(Held) /\ Len(new) \in Nat
      /\ \A j \in 1..Len(new) : new[j].ino \in DOMAIN eVolume.inodes
  <2>1. CASE zone \in DOMAIN eVolume.entries
    <3>1. new \in Seq(Entries) /\ Len(new) = ZoneEntries
          /\ \A j \in 1..ZoneEntries : new[j].ino \in DOMAIN eVolume.inodes
      BY <1>2, <2>1, EntryFacts
    <3>2. new \in Seq(Held)
      BY <3>1, SeqMonotonic DEF Held
    <3> QED BY <3>1, <3>2, Geometry
  <2>2. CASE zone \notin DOMAIN eVolume.entries
    <3>0. 0 \in DOMAIN eVolume.inodes
      BY <1>2 DEF SoundVolume
    <3>1. Blank.ino = 0 /\ Blank \in Held
      BY DEF Blank, Held
    <3> HIDE DEF zone
    <3>2. new = [j \in 1..ZoneEntries |-> Blank]
      BY <2>2
    <3> QED BY <3>0, <3>1, <3>2, Geometry
  <2> QED BY <2>1, <2>2
<1> HIDE DEF new
<1>4. /\ directory' \in Seq(Held) /\ Len(directory') = Len(directory) + Len(new)
      /\ \A j \in 1..Len(directory) + Len(new) :
            directory'[j] = IF j <= Len(directory) THEN directory[j]
                            ELSE new[j - Len(directory)]
  BY <1>1, <1>3, ConcatProperties
<1>5. ASSUME NEW j \in 1..Len(directory')
      PROVE  directory'[j].ino \in DOMAIN eVolume.inodes
  <2>1. CASE j <= Len(directory)
    BY <1>1, <1>4, <1>5, <2>1 DEF EarlierTypes
  <2>2. CASE ~(j <= Len(directory))
    <3>1. Len(directory) \in Nat
      BY <1>1
    <3>2. j - Len(directory) \in 1..Len(new) /\ directory'[j] = new[j - Len(directory)]
      BY <1>3, <1>4, <2>2, <3>1
    <3> QED BY <1>3, <3>2
  <2> QED BY <2>1, <2>2
<1> QED BY <1>1, <1>2, <1>4, <1>5, Geometry DEF EarlierTypes

LEMMA RunAstrayTypes ==
    ASSUME EarlierTypes, RunAstray, UNCHANGED input
    PROVE  EarlierTypes'
<1>1. /\ at' = "exit" /\ code' \in 0..1
      /\ UNCHANGED <<offset, level, inode, tokens, zones, directory>>
  BY Statuses DEF RunAstray, ExitEarlier
<1> QED BY <1>1 DEF EarlierTypes

LEMMA EarlierTypesKeep ==
    ASSUME InputInv, EarlierTypes, Earlier, UNCHANGED input
    PROVE  EarlierTypes'
<1>1. disk' = disk
  BY DEF input
<1>2. CASE ReadArguments
  BY <1>1, <1>2, Statuses DEF ReadArguments, EarlierTypes, Resume, ExitEarlier
<1>3. CASE ReadSuperblock
  <2>1. CASE offset \in DOMAIN disk.volumes
    <3>1. 1 \in DOMAIN eVolume.inodes
      BY <2>1, VolumeIsSound DEF eVolume, SoundVolume
    <3> QED BY <1>1, <1>3, <2>1, <3>1, Geometry
            DEF ReadSuperblock, EarlierTypes, Resume, eVolume
  <2>2. CASE offset \notin DOMAIN disk.volumes
    BY <1>1, <1>3, <2>2, Statuses DEF ReadSuperblock, EarlierTypes, ExitEarlier
  <2> QED BY <2>1, <2>2
<1>4. CASE PrintEarlier
  BY <1>1, <1>4, Statuses DEF PrintEarlier, EarlierTypes, ExitEarlier
<1>5. CASE PrintFile
  BY <1>1, <1>5, Statuses DEF PrintFile, EarlierTypes, ExitEarlier
<1>6. CASE Recurse
  <2> DEFINE hits == {j \in DOMAIN EarlierListed : EarlierListed[j].name = Head(tokens)}
             hit == CHOOSE j \in hits : \A l \in hits : j <= l
  <2>1. /\ at = "zones" /\ UNCHANGED <<offset, level, printed>>
        /\ offset \in DOMAIN disk.volumes /\ inode \in DOMAIN eVolume.inodes
        /\ directory \in Seq(Held) /\ eVolume' = eVolume
    BY <1>1, <1>6 DEF Recurse, Looks, EarlierTypes, eVolume
  <2>2. CASE hits = {}
    BY <1>1, <1>6, <2>2, Statuses DEF Recurse, EarlierTypes, ExitEarlier
  <2>3. CASE hits # {}
    <3>1. /\ inode' = EarlierListed[hit].ino /\ zones' = 0 /\ directory' = <<>>
          /\ UNCHANGED <<at, code>>
      BY <1>6, <2>3 DEF Recurse
    <3>2. SoundVolume(eVolume) /\ eNode.size \in Nat
      BY <2>1, VolumeIsSound, NodeFacts DEF eVolume, eNode
    <3>3. hits \in SUBSET Nat
      BY <3>2 DEF EarlierListed
    <3>4. hit \in hits
      <4>1. \E j \in hits : \A l \in hits : j <= l
        BY <2>3, <3>3, LeastNumber
      <4> HIDE DEF hits
      <4> QED BY <4>1
    <3> HIDE DEF hit
    <3>5. hit \in 1..eNode.size
      BY <3>4 DEF EarlierListed
    <3>6. inode' \in DOMAIN eVolume.inodes /\ inode' \in Nat
      <4>1. EarlierListed[hit] = IF hit <= Len(directory) THEN directory[hit] ELSE Blank
        BY <3>5 DEF EarlierListed
      <4>2. CASE hit <= Len(directory)
        <5>1. hit \in 1..Len(directory)
          BY <2>1, <3>2, <3>5, <4>2
        <5>2. directory[hit] \in Held
          BY <2>1, <5>1, ElementOfSeq
        <5>3. directory[hit].ino \in Nat
          BY <5>2, HeldNumbers
        <5> QED BY <2>1, <3>1, <4>1, <4>2, <5>1, <5>3 DEF EarlierTypes
      <4>3. CASE ~(hit <= Len(directory))
        <5>1. inode' = 0
          <6>1. EarlierListed[hit] = Blank
            BY <4>1, <4>3
          <6>2. inode' = Blank.ino
            BY <3>1, <6>1
          <6> QED BY <6>2 DEF Blank
        <5>2. 0 \in DOMAIN eVolume.inodes
          BY <3>2 DEF SoundVolume
        <5> QED BY <5>1, <5>2
      <4> QED BY <4>2, <4>3
    <3>7. Len(<<>>) = 0 /\ <<>> \in Seq(Held)
      OBVIOUS
    <3> QED BY <1>1, <2>1, <3>1, <3>6, <3>7, Geometry DEF EarlierTypes
  <2> QED BY <2>2, <2>3
<1>7. CASE MissSuperblock \/ Overfill
  BY <1>7, RunAstrayTypes DEF MissSuperblock, Overfill
<1> QED BY <1>2, <1>3, <1>4, <1>5, <1>6, <1>7, ReadPartitionTypes, ReadZoneTypes DEF Earlier

-----------------------------------------------------------------------------
(***************************************************************************)
(* All together.                                                           *)
(***************************************************************************)
Inv == InputInv /\ ToolInv /\ EarlierTypes

LEMMA InitHolds ==
    ASSUME Init PROVE Inv
<1>1. InputInv
  BY InputsAssumption DEF Init, InputInv
<1>2. InitCommon /\ InitEarlier /\ shown = Nothing
      /\ out = <<>> /\ done = 0 /\ tableZone = 0 /\ d = 0
  BY DEF Init, InitTools
<1>3. CounterInv
  <2>1. <<>> \in Seq(Nat) /\ <<>> \in Seq(Entries) /\ Len(<<>>) = 0
    OBVIOUS
  <2> QED BY <1>2, <2>1, Geometry DEF CounterInv, InitCommon
<1>4. Locating
  <2>1. wanted = args.parts /\ base = 0 /\ ino = 1 /\ pc = "arguments"
        /\ args.parts \in Seq(0..Largest) /\ Len(args.parts) \in Nat
    BY <1>1, <1>2, ArgumentFacts DEF InitCommon
  <2>2. Len(args.parts) - Len(wanted) = 0 /\ Sectors[0] = 0
    BY <2>1, SectorsAre
  <2>3. \A j \in 1..Len(wanted) : wanted[j] = args.parts[0 + j]
    BY <2>1
  <2> QED BY <2>1, <2>2, <2>3 DEF Locating
<1>5. ToolInv
  BY <1>2, <1>3, <1>4 DEF ToolInv, InitCommon, Labels
<1>6. EarlierTypes
  BY <1>2 DEF InitEarlier, EarlierTypes
<1> QED BY <1>1, <1>5, <1>6 DEF Inv

LEMMA ToolStays ==
    ASSUME InputInv, ToolInv, UNCHANGED <<input, tool>>
    PROVE  ToolInv'
<1>1. /\ UNCHANGED <<input, base, ino>> /\ args' = args
      /\ UNCHANGED <<pc, status, wanted, rest, i, k, total, buf, shown, out, done, tableZone, d>>
  BY DEF input, tool, common, copying
<1>2. /\ volume' = volume /\ node' = node /\ Inside' = Inside /\ Arrives' = Arrives
      /\ Walking' = Walking
  BY <1>1, PlaceStays
<1>3. CounterInv' = CounterInv
  BY <1>1 DEF CounterInv
<1>4. Locating' = Locating
  BY <1>1, InputStays DEF Locating
<1>5. Reading' = Reading
  BY <1>1, <1>2 DEF Reading
<1>6. Serving' = Serving /\ Listing' = Listing
  BY <1>1, <1>2 DEF Serving, Listing, Lines
<1> QED BY <1>1, <1>2, <1>3, <1>4, <1>5, <1>6, InputStays DEF ToolInv

LEMMA StepKeeps ==
    ASSUME Inv, [Next]_vars PROVE Inv'
<1>1. InputInv /\ ToolInv /\ EarlierTypes
  BY DEF Inv
<1>2. UNCHANGED input
  BY DEF Next, RunTool, RunEarlier, vars
<1>3. InputInv'
  BY <1>1, <1>2, InputStays
<1>4. ASSUME UNCHANGED earlier PROVE EarlierTypes'
  <2>1. disk' = disk
    BY <1>2 DEF input
  <2> QED BY <1>1, <1>4, <2>1 DEF earlier, EarlierTypes, eVolume
<1>5. CASE RunTool
  BY <1>1, <1>2, <1>3, <1>4, <1>5, ToolKeeps DEF RunTool, Inv
<1>6. CASE RunEarlier
  <2>1. UNCHANGED <<input, tool>> /\ Earlier
    BY <1>6 DEF RunEarlier
  <2> QED BY <1>1, <1>2, <1>3, <2>1, ToolStays, EarlierTypesKeep DEF Inv
<1>7. CASE UNCHANGED vars
  <2>1. UNCHANGED <<input, tool>> /\ UNCHANGED earlier
    BY <1>7 DEF vars
  <2> QED BY <1>1, <1>2, <1>3, <1>4, <2>1, ToolStays DEF Inv
<1> QED BY <1>5, <1>6, <1>7 DEF Next

\* For any sound disk and any arguments: the programs are where the path and the
\* partition table lead, hold entries of the directory they read, and have
\* answered what they should once they have ended.
THEOREM Invariance == Spec => []Inv
  BY InitHolds, StepKeeps, PTL DEF Spec

\* Both programs' variables keep their types.
THEOREM TypeCorrect == Spec => []TypeOK
<1>1. ASSUME Inv PROVE TypeOK
  <2>1. \A j \in DOMAIN out : out[j] \in Nat
    <3>1. out \in Seq(Nat)
      BY <1>1 DEF Inv, ToolInv, CounterInv
    <3> QED BY <3>1
  <2> QED BY <1>1, <2>1 DEF Inv, ToolInv, CounterInv, EarlierTypes, TypeOK
<1> QED BY <1>1, Invariance, PTL

\* directory_entries_from_inode writes past the end of its buffer for directories
\* whose zones do not fit, and for no others: those it reads to the end do.
THEOREM BufferHolds == Spec => []BufferHoldsDirectory
<1>1. ASSUME Inv, EntriesRead PROVE Fits(node)
  <2>1. /\ Reading /\ Inside /\ node.size \in Nat /\ i \in Nat
        /\ total = Len(buf) /\ Len(buf) <= MaxEntries
    BY <1>1, InsideFacts DEF Inv, EntriesRead, ToolInv, Walking, Reading, CounterInv
  <2>2. total >= node.size
    BY <1>1, <2>1, Geometry DEF EntriesRead, MoreEntries, Reading, Inv, ToolInv, CounterInv
  <2>3. PICK m \in Nat : Len(buf) = m * ZoneEntries
    BY <2>1 DEF Reading, WholeZones
  <2>4. ZonesOf(node.size) * ZoneEntries <= m * ZoneEntries
        /\ ZonesOf(node.size) * ZoneEntries \in Nat
    <3>1. m * ZoneEntries >= node.size
      BY <2>1, <2>2, <2>3
    <3> QED BY <2>1, <3>1, ZonesCover
  <2>5. m * ZoneEntries \in Nat
    BY Geometry, ProductOrder
  <2> QED BY <2>1, <2>3, <2>4, <2>5, Geometry DEF Fits
<1>2. ASSUME Inv PROVE BufferHoldsDirectory
  BY <1>1, <1>2 DEF Inv, ToolInv, BufferHoldsDirectory
<1> QED BY <1>2, Invariance, PTL

LEMMA AnswerIsRight ==
    ASSUME Inv PROVE AnswersWhatIsNamed
<1> SUFFICES ASSUME pc = "exit", BlankBitmapEnd, DirectoriesFit PROVE status = 0 <=> Answerable
  BY DEF AnswersWhatIsNamed
<1>1. IF status = 0 THEN Serving \/ Listing ELSE ~Answerable
  BY DEF Inv, ToolInv
<1>2. ASSUME Arrives, node.mode \in {"directory", "regular"}
      PROVE  Mounted /\ Target # 0 /\ node = TargetNode
  <2>1. Mounted /\ volume = Volume /\ ino = Target
    BY <1>2, InsideFacts DEF Arrives, Inside, Mounted, Inv
  <2> QED BY <1>2, <2>1 DEF BlankBitmapEnd, node, TargetNode
<1> QED BY <1>1, <1>2 DEF Serving, Listing, Answerable

\* minls and minget succeed exactly for the directories and files that the
\* path names, in the partition asked for, if the directories fit the buffer.
THEOREM AnswersRight == Spec => []AnswersWhatIsNamed
  BY AnswerIsRight, Invariance, PTL

\* minls lists the live entries of the directory, in their order, each with its
\* inode's mode and size, or the file, if the directories fit the buffer.
THEOREM ListsRight == Spec => []ListsTheDirectory
<1>1. ASSUME Inv, status = 0, args.tool = "minls", DirectoriesFit PROVE shown = Expected
  <2>1. Listing /\ Inside
    BY <1>1 DEF Inv, ToolInv, CounterInv, Serving, Listing, Arrives
  <2>2. volume = Volume /\ node = TargetNode
    BY <1>1, <2>1, InsideFacts DEF Inv, Listing, Arrives, node, TargetNode
  <2> QED BY <2>1, <2>2 DEF Listing, Lines, Expected
<1>2. ASSUME Inv PROVE ListsTheDirectory
  BY <1>1, <1>2 DEF ListsTheDirectory
<1> QED BY <1>2, Invariance, PTL
=============================================================================
