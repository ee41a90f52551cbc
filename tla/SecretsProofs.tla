--------------------------- MODULE SecretsProofs ---------------------------
(***************************************************************************)
(* What the secret keeper keeps for every number of descriptors and users  *)
(* and every size of the buffer, whichever copies fail and whenever the    *)
(* driver is updated or restarted.                                         *)
(***************************************************************************)
EXTENDS Secrets, FiniteSetTheorems, TLAPS

\* The inductive invariant is the conjunction of the state properties: the
\* type of the place needs PlaceInsideSecret, the agreement of the bytes needs
\* the size, the count needs WipedMeansGone.
Inv ==
    /\ TypeOK
    /\ PlaceInsideSecret
    /\ WipedMeansGone
    /\ SecretIsOnePiece
    /\ NeverOverCounted

\* What secret_transfer fits: no more than was asked for, no more than is left.
LEMMA FittingFacts ==
    ASSUME TypeOK, PlaceInsideSecret, NEW n \in IovSize
    PROVE  /\ Fitting(n) \in Int
           /\ Fitting(n) <= n
           /\ secret_size > 0 => Fitting(n) <= secret_size - secret_posn
           /\ secret_size = 0 => Fitting(n) <= SECRET_SIZE
BY SizeAssumption
   DEF TypeOK, PlaceInsideSecret, Fitting, Smaller, IovSize

\* There are finitely many readers.
LEMMA ReadersCountable == Cardinality(Open("R")) \in Nat
<1>1. IsFiniteSet(Open("R"))
  BY FDAssumption, FS_Subset DEF Open
<1> QED
  BY <1>1, FS_CardinalityType

\* Opening a descriptor for reading makes one reader more, closing one makes
\* one less, and the others make no difference.
LEMMA ReaderOpened ==
    ASSUME TypeOK, NEW f \in FD, mode[f] = "closed", NEW way \in {"R", "W"},
           mode' = [mode EXCEPT ![f] = way]
    PROVE  Cardinality(Open("R")') = Cardinality(Open("R"))
                                       + (IF way = "R" THEN 1 ELSE 0)
<1>1. IsFiniteSet(Open("R")) /\ f \notin Open("R")
  BY FDAssumption, FS_Subset DEF Open
<1>2. CASE way = "R"
  <2>1. Open("R")' = Open("R") \cup {f}
    BY <1>2 DEF Open, TypeOK
  <2> QED
    BY <1>1, <1>2, <2>1, FS_AddElement
<1>3. CASE way = "W"
  <2>1. Open("R")' = Open("R")
    BY <1>3 DEF Open, TypeOK
  <2>2. Cardinality(Open("R")) \in Nat
    BY <1>1, FS_CardinalityType
  <2> QED
    BY <1>3, <2>1, <2>2
<1> QED
  BY <1>2, <1>3

LEMMA ReaderClosed ==
    ASSUME TypeOK, NEW f \in FD, mode' = [mode EXCEPT ![f] = "closed"]
    PROVE  /\ Cardinality(Open("R")) \in Nat
           /\ Cardinality(Open("R")') \in Nat
           /\ Cardinality(Open("R")') >= Cardinality(Open("R")) - 1
<1>1. IsFiniteSet(Open("R"))
  BY FDAssumption, FS_Subset DEF Open
<1>2. Open("R")' = Open("R") \ {f}
  BY DEF Open, TypeOK
<1>3. Cardinality(Open("R")) \in Nat
  BY <1>1, FS_CardinalityType
<1>4. Cardinality(Open("R")') = IF f \in Open("R") THEN Cardinality(Open("R")) - 1
                                                   ELSE Cardinality(Open("R"))
  BY <1>1, <1>2, FS_RemoveElement
<1>5. Cardinality(Open("R")') \in Nat
  <2>1. IsFiniteSet(Open("R")')
    BY <1>1, <1>2, FS_RemoveElement
  <2> QED
    BY <2>1, FS_CardinalityType
<1> QED
  BY <1>3, <1>4, <1>5

-----------------------------------------------------------------------------
LEMMA InitInv == Init => Inv
<1> SUFFICES ASSUME Init PROVE Inv
  OBVIOUS
<1>1. TypeOK /\ PlaceInsideSecret /\ WipedMeansGone /\ SecretIsOnePiece
  BY UserAssumption, SizeAssumption
     DEF Init, TypeOK, PlaceInsideSecret, WipedMeansGone, SecretIsOnePiece,
         NoSecret, Byte
<1>2. NeverOverCounted
  <2>1. Open("R") = {}
    BY DEF Init, Open
  <2> QED
    BY <2>1, FS_EmptySet DEF Init, NeverOverCounted
<1> QED
  BY <1>1, <1>2 DEF Inv

LEMMA RefuseKeeps == ASSUME Inv, NEW r \in {"OK", "EACCES", "ENOSPC", "ENOTTY"},
                            Refuse(r)
                     PROVE  Inv'
<1> USE DEF Inv, Refuse, Reply, device
<1>1. TypeOK' /\ PlaceInsideSecret'
  BY DEF TypeOK, PlaceInsideSecret
<1>2. WipedMeansGone' /\ SecretIsOnePiece' /\ NeverOverCounted'
  BY DEF WipedMeansGone, SecretIsOnePiece, NeverOverCounted, Open
<1> QED
  BY <1>1, <1>2

LEMMA OpenForReadingKeeps ==
    ASSUME Inv, NEW f \in FD, NEW u \in User, OpenForReading(f, u) PROVE Inv'
<1>1. CASE Refuse("EACCES")
  BY <1>1, RefuseKeeps
<1>2. CASE /\ mode[f] = "closed"
           /\ mode' = [mode EXCEPT ![f] = "R"]
           /\ uid' = [uid EXCEPT ![f] = u]
           /\ reply' = "OK"
           /\ \/ num_reading_secret' = num_reading_secret
              \/ /\ num_reading_secret' = num_reading_secret + 1
                 /\ device_state = "FULL"
           /\ UNCHANGED <<secret, secret_size, owner, secret_posn, device_state,
                          lastCopy>>
  <2> USE <1>2 DEF Inv
  <2>1. TypeOK'
    BY DEF TypeOK
  <2>2. PlaceInsideSecret' /\ SecretIsOnePiece' /\ WipedMeansGone'
    BY DEF PlaceInsideSecret, SecretIsOnePiece, WipedMeansGone
  <2>3. NeverOverCounted'
    <3>1. Cardinality(Open("R")') = Cardinality(Open("R")) + 1
      BY ReaderOpened
    <3>2. Cardinality(Open("R")) \in Nat /\ num_reading_secret \in Int
      BY ReadersCountable DEF TypeOK
    <3> QED
      BY <3>1, <3>2 DEF NeverOverCounted
  <2> QED
    BY <2>1, <2>2, <2>3
<1> QED
  BY <1>1, <1>2 DEF OpenForReading, Grant, Reply, device

LEMMA OpenForWritingKeeps ==
    ASSUME Inv, NEW f \in FD, NEW u \in User, OpenForWriting(f, u) PROVE Inv'
<1>1. CASE Refuse("ENOSPC") \/ Refuse("EACCES")
  BY <1>1, RefuseKeeps
<1>2. CASE /\ mode[f] = "closed"
           /\ mode' = [mode EXCEPT ![f] = "W"]
           /\ uid' = [uid EXCEPT ![f] = u]
           /\ reply' = "OK" /\ owner' = u
           /\ UNCHANGED <<secret, secret_size, num_reading_secret, secret_posn,
                          device_state, lastCopy>>
  <2> USE <1>2 DEF Inv
  <2>1. TypeOK'
    BY DEF TypeOK
  <2>2. PlaceInsideSecret' /\ SecretIsOnePiece' /\ WipedMeansGone'
    BY DEF PlaceInsideSecret, SecretIsOnePiece, WipedMeansGone
  <2>3. NeverOverCounted'
    <3>1. Cardinality(Open("R")') = Cardinality(Open("R")) + 0
      BY ReaderOpened
    <3>2. Cardinality(Open("R")) \in Nat
      BY ReadersCountable
    <3> QED
      BY <3>1, <3>2 DEF NeverOverCounted
  <2> QED
    BY <2>1, <2>2, <2>3
<1> QED
  BY <1>1, <1>2 DEF OpenForWriting, Grant, Reply

LEMMA CloseKeeps == ASSUME Inv, NEW f \in FD, Close(f) PROVE Inv'
<1> USE DEF Inv, Close, Reply, device, Blanked
<1>1. TypeOK' /\ PlaceInsideSecret'
  BY SizeAssumption DEF TypeOK, PlaceInsideSecret, NoSecret
<1>2. WipedMeansGone'
  BY DEF WipedMeansGone, TypeOK
<1>3. SecretIsOnePiece'
  BY DEF SecretIsOnePiece, NoSecret
<1>4. NeverOverCounted'
  <2>1. /\ Cardinality(Open("R")) \in Nat /\ Cardinality(Open("R")') \in Nat
        /\ Cardinality(Open("R")') >= Cardinality(Open("R")) - 1
    BY ReaderClosed
  <2>2. \/ num_reading_secret' = num_reading_secret - 1
        \/ num_reading_secret' = 0
    BY DEF WipedMeansGone
  <2>3. num_reading_secret \in Int /\ num_reading_secret <= Cardinality(Open("R"))
    BY DEF TypeOK, NeverOverCounted
  <2> HIDE DEF Close, Inv
  <2> QED
    BY <2>1, <2>2, <2>3 DEF NeverOverCounted
<1> QED
  BY <1>1, <1>2, <1>3, <1>4

LEMMA IoctlKeeps ==
    ASSUME Inv, NEW f \in FD, NEW u \in User, NEW fault \in Faults,
           Ioctl(f, u, fault)
    PROVE  Inv'
<1>1. CASE Refuse("EACCES") \/ Refuse("ENOTTY")
  BY <1>1, RefuseKeeps
<1>2. CASE ~(Refuse("EACCES") \/ Refuse("ENOTTY"))
  <2> USE <1>2 DEF Inv, Ioctl, Reply
  <2>1. TypeOK' /\ PlaceInsideSecret'
    BY DEF TypeOK, PlaceInsideSecret
  <2>2. WipedMeansGone' /\ SecretIsOnePiece' /\ NeverOverCounted'
    BY DEF WipedMeansGone, SecretIsOnePiece, NeverOverCounted, Open
  <2> QED
    BY <2>1, <2>2
<1> QED
  BY <1>1, <1>2

LEMMA ReadKeeps ==
    ASSUME Inv, NEW f \in FD, NEW n \in IovSize, NEW fault \in Faults,
           Read(f, n, fault)
    PROVE  Inv'
<1>1. CASE Refuse("ENOSPC") \/ Refuse("OK") \/ Refuse("EACCES")
  BY <1>1, RefuseKeeps
<1>2. CASE /\ device_state = "FULL" /\ Fitting(n) > 0
           /\ secret_posn' = secret_posn + Fitting(n)
           /\ Reply(IF fault THEN "EFAULT" ELSE "OK")
           /\ UNCHANGED <<secret, secret_size, owner, num_reading_secret,
                          device_state, lastCopy, mode, uid>>
  <2> USE <1>2 DEF Inv
  <2>1. /\ secret_posn' \in 0 .. SECRET_SIZE
        /\ secret_posn' <= secret_size
    BY FittingFacts, SizeAssumption DEF TypeOK, PlaceInsideSecret
  <2>2. TypeOK' /\ PlaceInsideSecret'
    BY <2>1 DEF TypeOK, PlaceInsideSecret, Reply
  <2>3. WipedMeansGone' /\ SecretIsOnePiece' /\ NeverOverCounted'
    BY DEF WipedMeansGone, SecretIsOnePiece, NeverOverCounted, Open
  <2> QED
    BY <2>2, <2>3
<1> QED
  BY <1>1, <1>2 DEF Read, Rejected

LEMMA WriteKeeps ==
    ASSUME Inv, NEW f \in FD, NEW n \in IovSize, NEW fault \in Faults,
           Write(f, n, fault)
    PROVE  Inv'
<1>1. CASE Refuse("ENOSPC") \/ Refuse("OK")
  BY <1>1, RefuseKeeps
<1>2. CASE /\ Fitting(n) > 0
           /\ CopyFrom(f, n, fault)
           /\ secret_posn' = 0
           /\ device_state' = "BEING_WRITTEN"
           /\ num_reading_secret' = 0
           /\ secret_size' = Fitting(n)
           /\ Reply(IF fault THEN "EFAULT" ELSE "OK")
           /\ UNCHANGED <<owner, mode, uid>>
  <2> USE <1>2 DEF Inv
  <2>1. /\ Fitting(n) \in 0 .. SECRET_SIZE /\ Fitting(n) <= n
        /\ fault \in BOOLEAN
    BY FittingFacts, SizeAssumption, FaultsAssumption
       DEF TypeOK, PlaceInsideSecret
  <2>2. secret' \in [Byte -> FD \cup {Blank}] /\ lastCopy' = IF fault THEN "failed" ELSE "whole"
    BY DEF CopyFrom, TypeOK
  <2>3. TypeOK' /\ PlaceInsideSecret' /\ WipedMeansGone'
    BY <2>1, <2>2, SizeAssumption
       DEF TypeOK, PlaceInsideSecret, WipedMeansGone, Reply
  <2>5. SecretIsOnePiece'
    <3>1. CASE ~fault
      <4>1. secret' = [i \in Byte |-> IF i < n THEN f ELSE secret[i]]
        BY <3>1 DEF CopyFrom
      <4> QED
        BY <2>1, <4>1 DEF SecretIsOnePiece, Byte, IovSize
    <3>2. CASE fault
      BY <2>2, <3>2 DEF SecretIsOnePiece
    <3> QED
      BY <3>1, <3>2
  <2>4. NeverOverCounted'
    <3>1. Cardinality(Open("R")') \in Nat
      <4>1. IsFiniteSet(Open("R")')
        BY FDAssumption, FS_Subset DEF Open
      <4> QED
        BY <4>1, FS_CardinalityType
    <3> QED
      BY <3>1 DEF NeverOverCounted
  <2> QED
    BY <2>3, <2>4, <2>5
<1> QED
  BY <1>1, <1>2 DEF Write, Rejected

\* A live update loses the bytes and keeps the rest; a restart begins anew.
LEMMA RenewalKeeps == ASSUME Inv, LiveUpdate \/ Restart PROVE Inv'
<1>0. Cardinality(Open("R")) \in Nat
  BY ReadersCountable
<1> USE DEF Inv, LiveUpdate, Restart, Blanked
<1>1. TypeOK' /\ PlaceInsideSecret'
  BY SizeAssumption, UserAssumption DEF TypeOK, PlaceInsideSecret, NoSecret
<1>2. WipedMeansGone' /\ SecretIsOnePiece'
  BY DEF WipedMeansGone, SecretIsOnePiece, NoSecret
<1>3. NeverOverCounted'
  BY <1>0 DEF NeverOverCounted, Open
<1> QED
  BY <1>1, <1>2, <1>3

LEMMA StutterKeeps == ASSUME Inv, UNCHANGED vars PROVE Inv'
<1> USE DEF Inv, vars, device
<1>1. TypeOK' /\ PlaceInsideSecret'
  BY DEF TypeOK, PlaceInsideSecret
<1>2. WipedMeansGone' /\ SecretIsOnePiece' /\ NeverOverCounted'
  BY DEF WipedMeansGone, SecretIsOnePiece, NeverOverCounted, Open
<1> QED
  BY <1>1, <1>2

-----------------------------------------------------------------------------
THEOREM Invariance == Spec => []Inv
<1>1. ASSUME Inv, [Next]_vars PROVE Inv'
  BY <1>1, RefuseKeeps, OpenForReadingKeeps, OpenForWritingKeeps, CloseKeeps,
     IoctlKeeps, ReadKeeps, WriteKeeps, RenewalKeeps, StutterKeeps
     DEF Next, OpenRefused
<1> QED
  BY <1>1, InitInv, PTL DEF Spec

\* Every variable keeps its type, for every set of callers and every size.
THEOREM TypeCorrect == Spec => []TypeOK
<1>1. Inv => TypeOK BY DEF Inv
<1> QED BY <1>1, Invariance, PTL

\* The readers' place stays inside the secret.
THEOREM PlaceSafe == Spec => []PlaceInsideSecret
<1>1. Inv => PlaceInsideSecret BY DEF Inv
<1> QED BY <1>1, Invariance, PTL

\* An EMPTY device holds nothing of any secret.
THEOREM WipeComplete == Spec => []WipedMeansGone
<1>1. Inv => WipedMeansGone BY DEF Inv
<1> QED BY <1>1, Invariance, PTL

\* A secret is a mixture of two only when the last copy into it has failed.
THEOREM OnePiece == Spec => []SecretIsOnePiece
<1>1. Inv => SecretIsOnePiece BY DEF Inv
<1> QED BY <1>1, Invariance, PTL

\* The count of readers never exceeds the number of open readers.
THEOREM CountBounded == Spec => []NeverOverCounted
<1>1. Inv => NeverOverCounted BY DEF Inv
<1> QED BY <1>1, Invariance, PTL

\* While the device stays FULL the secret keeps its size and readers advance.
THEOREM Frozen == Spec => FullIsFrozen
<1>1. ASSUME Inv, [Next]_vars, device_state = "FULL", device_state' = "FULL"
      PROVE  secret_size' = secret_size /\ secret_posn' >= secret_posn
  <2> USE <1>1 DEF Inv
  <2>0. secret_posn >= secret_posn
    BY DEF TypeOK
  <2>1. ASSUME NEW f \in FD, NEW n \in IovSize, NEW fault \in Faults,
               Read(f, n, fault) \/ Write(f, n, fault)
        PROVE  secret_size' = secret_size /\ secret_posn' >= secret_posn
    <3>1. Fitting(n) \in Int /\ secret_posn \in Int
      BY FittingFacts DEF TypeOK
    <3>2. \/ UNCHANGED device
          \/ /\ Fitting(n) > 0 /\ secret_size' = secret_size
             /\ secret_posn' = secret_posn + Fitting(n)
      BY <2>1 DEF Read, Write, Rejected, Refuse
    <3> QED
      BY <2>0, <3>1, <3>2 DEF device
  <2>2. ASSUME NEW f \in FD, NEW u \in User,
               OpenForReading(f, u) \/ OpenForWriting(f, u) \/ Close(f)
               \/ \E fault \in Faults : Ioctl(f, u, fault)
        PROVE  secret_size' = secret_size /\ secret_posn' = secret_posn
    BY <2>2 DEF OpenForReading, OpenForWriting, Close, Ioctl, Refuse, device
  <2>3. CASE OpenRefused \/ LiveUpdate \/ UNCHANGED vars
    BY <2>0, <2>3 DEF OpenRefused, Refuse, LiveUpdate, vars, device
  <2>4. CASE Restart
    BY <2>4 DEF Restart
  <2>5. ASSUME NEW f \in FD, Close(f)
        PROVE  secret_size' = secret_size /\ secret_posn' = secret_posn
    BY <2>5 DEF Close, device
  <2> QED
    BY <2>0, <2>1, <2>2, <2>3, <2>4, <2>5 DEF Next
<1> QED
  BY <1>1, Invariance, PTL DEF Spec, FullIsFrozen
=============================================================================
