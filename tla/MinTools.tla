------------------------------ MODULE MinTools ------------------------------
(***************************************************************************)
(* The two programs themselves: minls.c lists the directory or the file    *)
(* the path leads to, minget.c copies the file.                            *)
(***************************************************************************)
EXTENDS MinCommon, FiniteSets

VARIABLES
    shown,      \* what minls printed
    out,        \* what minget wrote, word by word
    done,       \* handle_indirect_zone's own total_read
    tableZone,  \* its indirect_zone_num
    d           \* which call of it: 0 is the inode's indirect zone, then the
                \* entries of the double indirect one

copying == <<out, done, tableZone, d>>
tool == <<common, shown, copying>>

InitTools ==
    /\ InitCommon
    /\ shown = Nothing
    /\ out = <<>> /\ done = 0 /\ tableZone = 0 /\ d = 0

Arrived == pc = "walk" /\ rest = <<>>

\* What follows a write behind the buffer is not defined: the program may be
\* killed, fail, or succeed with anything.
GoAstray ==
    /\ pc = "overrun"
    /\ \E any \in 0..1 : Exit(any)
    /\ shown' \in {Nothing, Garbled} /\ out' \in {<<>>, <<0>>}
    /\ UNCHANGED <<base, wanted, ino, rest, i, k, total, buf, done, tableZone, d>>

-----------------------------------------------------------------------------
(***************************************************************************)
(* minls.                                                                  *)
(***************************************************************************)
ListContentsOfInode ==
    /\ Arrived /\ args.tool = "minls"
    /\ CASE node.mode = "directory" -> StartDirectory /\ UNCHANGED shown
         [] node.mode = "regular" ->
              /\ shown' = [what |-> "file", rows |-> <<Row(args.path, node)>>]
              /\ Exit(0)
              /\ UNCHANGED <<base, wanted, ino, rest, i, k, total, buf>>
         [] OTHER ->
              /\ Exit(1)
              /\ UNCHANGED <<base, wanted, ino, rest, i, k, total, buf, shown>>
    /\ UNCHANGED copying

\* A slip: deleted files are printed.
PrintAll ==
    /\ EntriesRead /\ rest = <<>>
    /\ shown' = [what |-> "directory",
                 rows |-> DirectoryRows(volume, [j \in 1..node.size |-> Entry(j)])]
    /\ Exit(0)
    /\ UNCHANGED <<base, wanted, ino, rest, i, k, total, buf, copying>>

PrintDirectory ==
    LET entries == [j \in 1..node.size |-> Entry(j)]
    IN  /\ EntriesRead /\ rest = <<>>
        /\ shown' = [what |-> "directory",
                     rows |-> DirectoryRows(volume, Undeleted(entries))]
        /\ Exit(0)
        /\ UNCHANGED <<base, wanted, ino, rest, i, k, total, buf, copying>>

-----------------------------------------------------------------------------
(***************************************************************************)
(* minget: output_file_contents and handle_indirect_zone.                  *)
(***************************************************************************)
Less(a, b) == IF a < b THEN a ELSE b

\* Slips: a hole is read from zone 0; the last zone is written whole.
PieceOfZoneZero(zone, sofar) ==
    [j \in 1..Less(ZoneWords, node.size - sofar) |-> Word(volume, zone, j)]
WholePiece(zone, sofar) ==
    [j \in 1..ZoneWords |-> IF zone = 0 THEN 0 ELSE Word(volume, zone, j)]

\* What is written for a zone when sofar words of the file are counted: a hole
\* counts as a whole zone of zeroes.
Piece(zone, sofar) ==
    IF zone = 0 THEN [j \in 1..ZoneWords |-> 0]
    ELSE [j \in 1..Less(ZoneWords, node.size - sofar) |-> Word(volume, zone, j)]

OutputFileContents ==
    /\ Arrived /\ args.tool = "minget"
    /\ IF node.mode = "regular" /\ args.writes THEN Goto("direct") ELSE Exit(1)
    /\ i' = 0 /\ total' = 0
    /\ UNCHANGED <<base, wanted, ino, rest, k, buf, shown, copying>>

CopyDirectZone ==
    LET piece == Piece(node.zone[i + 1], total)
    IN  /\ pc = "direct" /\ total < node.size /\ i < DirectZones
        /\ out' = out \o piece
        /\ total' = total + Len(piece)
        /\ i' = i + 1
        /\ UNCHANGED <<pc, status, base, wanted, ino, rest, k, buf, shown, done,
                       tableZone, d>>

LeaveDirect ==
    /\ pc = "direct" /\ (total >= node.size \/ i = DirectZones)
    /\ IF total < node.size THEN Goto("call") ELSE Exit(0)
    /\ UNCHANGED <<base, wanted, ino, rest, i, k, total, buf, shown, copying>>

CallHandler ==
    /\ pc = "call" /\ total < node.size /\ d <= ZoneWords
    /\ Goto("indirect")
    /\ tableZone' = IF d = 0 THEN node.indirect
                    ELSE Word(volume, node.two_indirect, d)
    /\ done' = total /\ k' = 0
    /\ UNCHANGED <<base, wanted, ino, rest, i, total, buf, shown, out, d>>

CopyIndirectZone ==
    LET piece == Piece(Word(volume, tableZone, k + 1), done)
    IN  /\ pc = "indirect" /\ k < ZoneWords /\ done < node.size
        /\ out' = out \o piece
        /\ done' = done + Len(piece)
        /\ k' = k + 1
        /\ UNCHANGED <<pc, status, base, wanted, ino, rest, i, total, buf, shown,
                       tableZone, d>>

\* Only the calls for the double indirect zone use what is returned.
ReturnFromHandler ==
    /\ pc = "indirect" /\ (k = ZoneWords \/ done >= node.size)
    /\ total' = IF d = 0 THEN total ELSE done
    /\ d' = d + 1
    /\ Goto("call")
    /\ UNCHANGED <<base, wanted, ino, rest, i, k, buf, shown, out, done, tableZone>>

LeaveDoubleIndirect ==
    /\ pc = "call" /\ (total >= node.size \/ d > ZoneWords)
    /\ Exit(0)
    /\ UNCHANGED <<base, wanted, ino, rest, i, k, total, buf, shown, copying>>

Tool ==
    \/ Common /\ UNCHANGED <<shown, copying>>
    \/ GoAstray \/ ListContentsOfInode \/ PrintDirectory
    \/ OutputFileContents \/ CopyDirectZone \/ LeaveDirect
    \/ CallHandler \/ CopyIndirectZone \/ ReturnFromHandler
    \/ LeaveDoubleIndirect
=============================================================================
