------------------------------ MODULE Secrets ------------------------------
(***************************************************************************)
(* The secret keeper of src/assignments/secrets/secrets.c, a MINIX         *)
(* character driver that holds one secret: a writer fills the empty        *)
(* device, the secret's owner reads it, and the close of the last reader   *)
(* wipes it.  The driver serves one request at a time, so each callback is *)
(* one action.                                                             *)
(*                                                                         *)
(* The callers are descriptors that VFS has opened for some user: it reads *)
(* only on those opened for reading, writes only on those opened for       *)
(* writing, and sends one close for each open that the driver granted.     *)
(***************************************************************************)
EXTENDS Integers, FiniteSets

CONSTANTS
    FD,             \* file descriptors
    User, Root,     \* user ids, and the one that is 0
    SECRET_SIZE,    \* length of the buffer, in bytes
    Blank,          \* the byte memset writes
    Faults          \* whether copies between address spaces can fail

ASSUME FDAssumption   == IsFiniteSet(FD)
ASSUME UserAssumption == Root \in User
ASSUME SizeAssumption == SECRET_SIZE \in Nat /\ SECRET_SIZE > 0
ASSUME BlankAssumption == Blank \notin FD
ASSUME FaultsAssumption == Faults \subseteq BOOLEAN /\ FALSE \in Faults

Byte == 0 .. SECRET_SIZE - 1
IovSize == 0 .. SECRET_SIZE + 1     \* the sizes a caller asks for
NoSecret == [i \in Byte |-> Blank]
Smaller(a, b) == IF a < b THEN a ELSE b

VARIABLES
    secret,             \* the buffer: each byte names the writer it came from
    secret_size, owner, num_reading_secret, secret_posn, device_state,
    mode, uid,          \* VFS: how each descriptor is open, and for whom
    reply,              \* what the last callback returned
    lastCopy            \* history: how the last copy into the buffer went

device == <<secret, secret_size, owner, num_reading_secret, secret_posn,
            device_state, lastCopy>>
vars == <<device, mode, uid, reply>>

Open(way) == {f \in FD : mode[f] = way}
Reply(r)  == reply' = r
Refuse(r) == Reply(r) /\ UNCHANGED <<device, mode, uid>>

\* SEF_INIT_FRESH.
Init ==
    /\ secret = NoSecret
    /\ secret_size = 0
    /\ owner = Root
    /\ num_reading_secret = 0
    /\ secret_posn = 0
    /\ device_state = "EMPTY"
    /\ mode = [f \in FD |-> "closed"]
    /\ uid = [f \in FD |-> Root]
    /\ reply = "OK"
    /\ lastCopy = "whole"

\* The buffer full of the byte that memset and a new process put there.
Blanked == secret' = NoSecret /\ lastCopy' = "whole"

-----------------------------------------------------------------------------
\* VFS hands out descriptor f, once secret_open has returned OK.
Grant(f, u, way) ==
    /\ mode' = [mode EXCEPT ![f] = way]
    /\ uid' = [uid EXCEPT ![f] = u]
    /\ Reply("OK")

\* open_for_reading: the open of an empty device succeeds and is not counted.
OpenForReading(f, u) ==
    /\ mode[f] = "closed"
    /\ \/ /\ device_state = "EMPTY"
          /\ Grant(f, u, "R")
          /\ UNCHANGED device
       \/ /\ device_state = "FULL" /\ u = owner
          /\ num_reading_secret' = num_reading_secret + 1
          /\ Grant(f, u, "R")
          /\ UNCHANGED <<secret, secret_size, owner, secret_posn, device_state,
                         lastCopy>>
       \/ /\ device_state = "BEING_WRITTEN" \/ (device_state = "FULL" /\ u # owner)
          /\ Refuse("EACCES")

\* open_for_writing: whoever finds the device empty owns it.
OpenForWriting(f, u) ==
    /\ mode[f] = "closed"
    /\ \/ /\ device_state = "EMPTY"
          /\ owner' = u
          /\ Grant(f, u, "W")
          /\ UNCHANGED <<secret, secret_size, num_reading_secret, secret_posn,
                         device_state, lastCopy>>
       \/ /\ device_state # "EMPTY"
          /\ Refuse(IF u = owner THEN "ENOSPC" ELSE "EACCES")

\* secret_open refuses both directions at once, and a caller it cannot name.
OpenRefused == Refuse("EACCES")

\* Slips: a reader that is not counted down; a buffer that is not wiped.
CloseUncounted(f) ==
    /\ mode[f] # "closed"
    /\ mode' = [mode EXCEPT ![f] = "closed"]
    /\ Reply("OK")
    /\ device_state' = IF device_state = "EMPTY" THEN "EMPTY" ELSE "FULL"
    /\ UNCHANGED <<uid, secret, secret_size, owner, num_reading_secret,
                   secret_posn, lastCopy>>
CloseUnwiped(f) ==
    /\ mode[f] # "closed"
    /\ mode' = [mode EXCEPT ![f] = "closed"]
    /\ Reply("OK")
    /\ device_state' = CASE device_state = "BEING_WRITTEN" -> "FULL"
                         [] device_state = "FULL" /\ num_reading_secret = 1 -> "EMPTY"
                         [] OTHER -> device_state
    /\ num_reading_secret' = IF device_state = "FULL" THEN num_reading_secret - 1
                                                      ELSE num_reading_secret
    /\ secret_size' = IF device_state' = "EMPTY" THEN 0 ELSE secret_size
    /\ secret_posn' = IF device_state' = "EMPTY" THEN 0 ELSE secret_posn
    /\ UNCHANGED <<uid, secret, owner, lastCopy>>

\* secret_close: the same for every descriptor, whichever way it is open.
\* In EMPTY nothing changes; in BEING_WRITTEN the secret counts as written; in
\* FULL one reader less, and the wipe when that makes none.
Close(f) ==
    /\ mode[f] # "closed"
    /\ mode' = [mode EXCEPT ![f] = "closed"]
    /\ Reply("OK")
    /\ UNCHANGED <<uid, owner>>
    /\ \/ /\ device_state = "EMPTY"
          /\ UNCHANGED device
       \/ /\ device_state = "BEING_WRITTEN"
          /\ device_state' = "FULL"
          /\ UNCHANGED <<secret, secret_size, num_reading_secret, secret_posn,
                         lastCopy>>
       \/ /\ device_state = "FULL"
          /\ num_reading_secret' = num_reading_secret - 1
          /\ IF num_reading_secret' = 0
             THEN /\ Blanked
                  /\ secret_size' = 0
                  /\ secret_posn' = 0
                  /\ device_state' = "EMPTY"
             ELSE UNCHANGED <<secret, secret_size, secret_posn, device_state,
                              lastCopy>>

\* secret_ioctl: SSGRANT by the owner.  The owner is assigned before the
\* result of the copy is looked at, so a failed copy leaves there whatever
\* the uninitialized grantee held.
Ioctl(f, u, fault) ==
    /\ mode[f] # "closed"
    /\ \/ uid[f] # owner /\ Refuse("EACCES")
       \/ Refuse("ENOTTY")
       \/ /\ uid[f] = owner
          /\ owner' = u
          /\ Reply(IF fault THEN "EFAULT" ELSE "OK")
          /\ UNCHANGED <<secret, secret_size, num_reading_secret, secret_posn,
                         device_state, lastCopy, mode, uid>>

-----------------------------------------------------------------------------
\* secret_transfer: the part of the request that fits, of the secret or, when
\* there is none, of the buffer.
Fitting(iov_size) ==
    Smaller((IF secret_size = 0 THEN SECRET_SIZE ELSE secret_size) - secret_posn,
            iov_size)

Rejected(iov_size) ==
    \/ iov_size > SECRET_SIZE /\ Refuse("ENOSPC")
    \/ iov_size <= SECRET_SIZE /\ Fitting(iov_size) <= 0 /\ Refuse("OK")

\* Slips: the place moved by what the reader asked for, or set back at the end
\* of the secret; a write that appends to the secret.
ReadAsked(f, iov_size, fault) ==
    /\ mode[f] = "R"
    /\ device_state = "FULL" /\ iov_size <= SECRET_SIZE
    /\ secret_posn' = secret_posn + iov_size
    /\ Reply(IF fault THEN "EFAULT" ELSE "OK")
    /\ UNCHANGED <<secret, secret_size, owner, num_reading_secret,
                   device_state, lastCopy, mode, uid>>
ReadAround(f, iov_size, fault) ==
    /\ mode[f] = "R"
    /\ device_state = "FULL" /\ iov_size <= SECRET_SIZE
    /\ secret_posn' = IF secret_posn = secret_size THEN 0
                      ELSE secret_posn + Fitting(iov_size)
    /\ Reply(IF fault THEN "EFAULT" ELSE "OK")
    /\ UNCHANGED <<secret, secret_size, owner, num_reading_secret,
                   device_state, lastCopy, mode, uid>>
WriteAfter(f, iov_size, fault) ==
    /\ mode[f] = "W" /\ iov_size <= SECRET_SIZE - secret_size
    /\ secret' = [i \in Byte |-> IF i >= secret_size /\ i < secret_size + iov_size
                                 THEN f ELSE secret[i]]
    /\ secret_size' = secret_size + iov_size
    /\ device_state' = IF secret_size' > 0 THEN "BEING_WRITTEN" ELSE device_state
    /\ secret_posn' = 0 /\ num_reading_secret' = 0
    /\ Reply("OK") /\ lastCopy' = IF fault THEN "failed" ELSE "whole"
    /\ UNCHANGED <<owner, mode, uid>>

\* do_read: the place moves on even when the copy fails.
Read(f, iov_size, fault) ==
    /\ mode[f] = "R"
    /\ \/ Rejected(iov_size)
       \/ LET bytes == Fitting(iov_size) IN
          /\ iov_size <= SECRET_SIZE /\ bytes > 0
          /\ \/ bytes - secret_posn > secret_size /\ Refuse("EACCES")
             \/ /\ bytes - secret_posn <= secret_size
                /\ device_state # "FULL"
                /\ Refuse("OK")
             \/ /\ bytes - secret_posn <= secret_size
                /\ device_state = "FULL"
                /\ secret_posn' = secret_posn + bytes
                /\ Reply(IF fault THEN "EFAULT" ELSE "OK")
                /\ UNCHANGED <<secret, secret_size, owner, num_reading_secret,
                               device_state, lastCopy, mode, uid>>

\* sys_safecopyfrom: the whole request, or any part of it when it fails.
CopyFrom(f, iov_size, fault) ==
    \E copied \in IF fault THEN 0 .. iov_size - 1 ELSE {iov_size} :
        /\ secret' = [i \in Byte |-> IF i < copied THEN f ELSE secret[i]]
        /\ lastCopy' = IF fault THEN "failed" ELSE "whole"

\* do_write: copies the whole request to the start of the buffer, counts the
\* part that fits as the secret, and begins anew, whatever the copy returned.
Write(f, iov_size, fault) ==
    /\ mode[f] = "W"
    /\ \/ Rejected(iov_size)
       \/ LET bytes == Fitting(iov_size) IN
          /\ iov_size <= SECRET_SIZE /\ bytes > 0
          /\ CopyFrom(f, iov_size, fault)
          /\ secret_posn' = 0
          /\ device_state' = "BEING_WRITTEN"
          /\ num_reading_secret' = 0
          /\ secret_size' = bytes
          /\ Reply(IF fault THEN "EFAULT" ELSE "OK")
          /\ UNCHANGED <<owner, mode, uid>>

-----------------------------------------------------------------------------
\* A slip: the size is not in the data store either.
LiveUpdateUnsized ==
    /\ Blanked
    /\ secret_size' = 0
    /\ UNCHANGED <<owner, num_reading_secret, secret_posn, device_state,
                   mode, uid, reply>>

\* A live update: the new instance finds in the data store every variable of
\* the device except the secret itself.
LiveUpdate ==
    /\ Blanked
    /\ UNCHANGED <<secret_size, owner, num_reading_secret, secret_posn,
                   device_state, mode, uid, reply>>

\* A restart after a crash: a new process, its variables zero, then EMPTY.
\* VFS keeps the descriptors.
Restart ==
    /\ Blanked
    /\ secret_size' = 0
    /\ owner' = Root
    /\ num_reading_secret' = 0
    /\ secret_posn' = 0
    /\ device_state' = "EMPTY"
    /\ UNCHANGED <<mode, uid, reply>>

Next ==
    \/ \E f \in FD, u \in User : OpenForReading(f, u) \/ OpenForWriting(f, u)
    \/ OpenRefused
    \/ \E f \in FD : Close(f)
    \/ \E f \in FD, u \in User, fault \in Faults : Ioctl(f, u, fault)
    \/ \E f \in FD, n \in IovSize, fault \in Faults :
           Read(f, n, fault) \/ Write(f, n, fault)
    \/ LiveUpdate
    \/ Restart

Spec == Init /\ [][Next]_vars

-----------------------------------------------------------------------------
(***************************************************************************)
(* Properties.                                                             *)
(***************************************************************************)
\* Every variable keeps its type.
TypeOK ==
    /\ secret \in [Byte -> FD \cup {Blank}]
    /\ secret_size \in 0 .. SECRET_SIZE
    /\ owner \in User
    /\ num_reading_secret \in Int
    /\ secret_posn \in 0 .. SECRET_SIZE
    /\ device_state \in {"EMPTY", "BEING_WRITTEN", "FULL"}
    /\ mode \in [FD -> {"closed", "R", "W"}]
    /\ uid \in [FD -> User]
    /\ reply \in {"OK", "EACCES", "ENOSPC", "ENOTTY", "EFAULT"}
    /\ lastCopy \in {"whole", "failed"}

\* The state, the size and the place agree: there is a secret exactly when the
\* device is not EMPTY, and readers stand inside it.  do_read's arithmetic and
\* secret_transfer's choice between buffer and secret both rely on it.
PlaceInsideSecret ==
    /\ device_state = "EMPTY" <=> secret_size = 0
    /\ secret_posn <= secret_size
    /\ device_state = "BEING_WRITTEN" => secret_posn = 0

\* After the wipe nothing of the secret is left, neither in the buffer nor in
\* the count of its readers; a secret being written has no counted reader.
WipedMeansGone ==
    /\ device_state = "EMPTY" => secret = NoSecret
    /\ device_state # "FULL" => num_reading_secret = 0

\* The bytes that can be read mix two writers' secrets, or one's with blanks,
\* only when the last write was answered by EFAULT: do_write sets size and
\* state whatever sys_safecopyfrom has left in the buffer.  The next write that
\* succeeds makes them one piece again, whichever writers are still open.
SecretIsOnePiece ==
    lastCopy = "whole" => \A i, j \in Byte :
        i < secret_size /\ j < secret_size => secret[i] = secret[j]

\* The driver never counts more readers than there are, so a secret is never
\* kept because of readers that have left.
NeverOverCounted == num_reading_secret <= Cardinality(Open("R"))

\* From the close that makes the device FULL to the one that wipes it, or to a
\* new write, the secret keeps its size and its place only moves forward.
FullIsFrozen ==
    [][device_state = "FULL" /\ device_state' = "FULL" =>
            /\ secret_size' = secret_size
            /\ secret_posn' >= secret_posn]_vars

(***************************************************************************)
(* What the comments of secrets.c say, and the code does not keep.         *)
(***************************************************************************)
\* secrets.c:168-171: when a descriptor closes and "there's nobody left reading
\* us", a FULL device destroys its secret.
LastReaderWipes ==
    [][\A f \in FD :
         /\ device_state = "FULL" /\ Open("R") = {f}
         /\ mode[f] = "R" /\ mode'[f] = "closed"
         => device_state' = "EMPTY"]_vars

\* secrets.c:324 and 335 save and restore "the state" over a live update: what
\* a FULL device holds does not change while it stays FULL.
UpdateKeepsSecret ==
    [][device_state = "FULL" /\ device_state' = "FULL" => secret' = secret]_vars
=============================================================================
