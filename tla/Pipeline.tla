------------------------------ MODULE Pipeline ------------------------------
(***************************************************************************)
(* src/assignments/assignments/lab1/main.c: a parent that runs ls and sort *)
(* with a pipe from one to the other and waits for both.                   *)
(*                                                                         *)
(* A line is a count: sent lines went into the pipe, taken ones came out.  *)
(* Any system call may fail.  The pipe, ls and sort are the system's own,  *)
(* as the program uses them: a pipe ends for its reader when nobody holds  *)
(* its write end, and kills its writer when nobody holds its read end.     *)
(***************************************************************************)
EXTENDS Integers, FiniteSets

CONSTANTS
    NumLines,   \* what ls has to say
    PipeSize    \* lines the pipe holds

ASSUME LinesAssumption == NumLines \in Nat
ASSUME PipeAssumption == PipeSize \in Nat \ {0}

VARIABLES
    pc,         \* where each process is; "unborn" before its fork
    result,     \* how it ended: "none" yet, "ok", "failed" or "killed"
    readers, writers,   \* who holds pipeFileDescriptors[0] and [1]
    sent, taken,
    outfile     \* the lines in it; -1 as long as it is as it was

vars == <<pc, result, readers, writers, sent, taken, outfile>>

Parent == "parent"
Ls == "ls"
Sort == "sort"
Procs == {Parent, Ls, Sort}

Init ==
    /\ pc = [p \in Procs |-> IF p = Parent THEN "pipe" ELSE "unborn"]
    /\ result = [p \in Procs |-> "none"]
    /\ readers = {} /\ writers = {}
    /\ sent = 0 /\ taken = 0 /\ outfile = -1

Goto(p, label) == pc' = [pc EXCEPT ![p] = label]

\* What exit, _exit, a return from main and a signal do: the ends are closed.
End(p, how) ==
    /\ Goto(p, "ended")
    /\ result' = [result EXCEPT ![p] = how]
    /\ readers' = readers \ {p} /\ writers' = writers \ {p}

Fail(p) == End(p, "failed") /\ UNCHANGED <<sent, taken, outfile>>

ends == <<readers, writers>>
data == <<sent, taken, outfile>>

-----------------------------------------------------------------------------
(***************************************************************************)
(* The parent: main, doParentProcess, waitForMyKids.                       *)
(***************************************************************************)
MakePipe ==
    /\ pc[Parent] = "pipe"
    /\ \/ Fail(Parent)
       \/ /\ readers' = {Parent} /\ writers' = {Parent}
          /\ Goto(Parent, "forkLs")
          /\ UNCHANGED <<result, data>>

\* A child is born with its parent's ends of the pipe.
Fork(child, next) ==
    /\ pc' = [pc EXCEPT ![Parent] = next, ![child] = "close"]
    /\ readers' = IF Parent \in readers THEN readers \cup {child} ELSE readers
    /\ writers' = IF Parent \in writers THEN writers \cup {child} ELSE writers
    /\ UNCHANGED <<result, data>>

ForkLs == pc[Parent] = "forkLs" /\ (Fail(Parent) \/ Fork(Ls, "forkSort"))
ForkSort == pc[Parent] = "forkSort" /\ (Fail(Parent) \/ Fork(Sort, "closeRead"))

CloseRead ==
    /\ pc[Parent] = "closeRead" /\ readers' = readers \ {Parent}
    /\ Goto(Parent, "closeWrite") /\ UNCHANGED <<result, writers, data>>

\* A slip: the parent keeps its write end.
KeepWrite ==
    /\ pc[Parent] = "closeWrite"
    /\ Goto(Parent, "waitLs") /\ UNCHANGED <<result, ends, data>>

CloseWrite ==
    /\ pc[Parent] = "closeWrite" /\ writers' = writers \ {Parent}
    /\ Goto(Parent, "waitLs") /\ UNCHANGED <<result, readers, data>>

WaitLs ==
    /\ pc[Parent] = "waitLs" /\ pc[Ls] = "ended"
    /\ IF result[Ls] = "ok"
       THEN Goto(Parent, "waitSort") /\ UNCHANGED <<result, ends, data>>
       ELSE Fail(Parent)

\* A slip: sort's exit status is not looked at.
WaitSortBlindly ==
    /\ pc[Parent] = "waitSort" /\ pc[Sort] = "ended"
    /\ End(Parent, "ok") /\ UNCHANGED data

WaitSort ==
    /\ pc[Parent] = "waitSort" /\ pc[Sort] = "ended"
    /\ End(Parent, IF result[Sort] = "ok" THEN "ok" ELSE "failed")
    /\ UNCHANGED data

-----------------------------------------------------------------------------
(***************************************************************************)
(* doLSProcess, and ls.                                                    *)
(***************************************************************************)
\* A slip: the other end.
LsCloseOther ==
    /\ pc[Ls] = "close" /\ writers' = writers \ {Ls}
    /\ Goto(Ls, "exec") /\ UNCHANGED <<result, readers, data>>

LsClose ==
    /\ pc[Ls] = "close" /\ readers' = readers \ {Ls}
    /\ Goto(Ls, "exec") /\ UNCHANGED <<result, writers, data>>

LsExec ==
    /\ pc[Ls] = "exec"
    /\ \/ Fail(Ls)
       \/ Goto(Ls, "running") /\ UNCHANGED <<result, ends, data>>

\* A slip: a pipe that never fills up.
LsWriteAlways ==
    /\ pc[Ls] = "running" /\ Ls \in writers /\ sent < NumLines
    /\ IF readers = {} THEN End(Ls, "killed") /\ UNCHANGED data
       ELSE sent' = sent + 1 /\ UNCHANGED <<pc, result, ends, taken, outfile>>

LsWrite ==
    /\ pc[Ls] = "running" /\ Ls \in writers /\ sent < NumLines
    /\ IF readers = {} THEN End(Ls, "killed") /\ UNCHANGED data
       ELSE /\ sent - taken < PipeSize /\ sent' = sent + 1
            /\ UNCHANGED <<pc, result, ends, taken, outfile>>

\* It succeeds with all lines written; before, it may fail, but not while it
\* waits for room.
LsEnd ==
    /\ pc[Ls] = "running"
    /\ \/ sent = NumLines /\ End(Ls, "ok") /\ UNCHANGED data
       \/ sent < NumLines /\ sent - taken < PipeSize /\ Fail(Ls)

-----------------------------------------------------------------------------
(***************************************************************************)
(* doSortProcess, and sort.                                                *)
(***************************************************************************)
\* A slip: sort keeps a write end of the pipe it reads.
SortKeepWrite ==
    /\ pc[Sort] = "close"
    /\ Goto(Sort, "open") /\ UNCHANGED <<result, ends, data>>

SortClose ==
    /\ pc[Sort] = "close" /\ writers' = writers \ {Sort}
    /\ Goto(Sort, "open") /\ UNCHANGED <<result, readers, data>>

\* O_TRUNC: whatever was in the file is gone.
SortOpen ==
    /\ pc[Sort] = "open"
    /\ \/ Fail(Sort)
       \/ /\ outfile' = 0 /\ Goto(Sort, "exec")
          /\ UNCHANGED <<result, ends, sent, taken>>

SortExec ==
    /\ pc[Sort] = "exec"
    /\ \/ Fail(Sort)
       \/ Goto(Sort, "running") /\ UNCHANGED <<result, ends, data>>

SortRead ==
    /\ pc[Sort] = "running" /\ Sort \in readers /\ taken < sent
    /\ taken' = taken + 1
    /\ UNCHANGED <<pc, result, ends, sent, outfile>>

SortSeesEnd ==
    /\ pc[Sort] = "running" /\ Sort \in readers
    /\ taken = sent /\ writers = {}
    /\ Goto(Sort, "write") /\ UNCHANGED <<result, ends, data>>

\* Out of space, it leaves a part of the lines and fails.
SortWrite ==
    /\ pc[Sort] = "write"
    /\ \/ outfile' = taken /\ End(Sort, "ok")
       \/ \E part \in 0..taken : outfile' = part /\ End(Sort, "failed")
    /\ UNCHANGED <<sent, taken>>

-----------------------------------------------------------------------------
RunParent ==
    \/ MakePipe \/ ForkLs \/ ForkSort \/ CloseRead \/ CloseWrite
    \/ WaitLs \/ WaitSort
RunLs == LsClose \/ LsExec \/ LsWrite \/ LsEnd
RunSort ==
    \/ SortClose \/ SortOpen \/ SortExec \/ SortRead \/ SortSeesEnd \/ SortWrite

Next == RunParent \/ RunLs \/ RunSort

Spec == Init /\ [][Next]_vars
FairSpec == Spec /\ WF_vars(RunParent) /\ WF_vars(RunLs) /\ WF_vars(RunSort)

-----------------------------------------------------------------------------
Alive(p) == pc[p] \notin {"unborn", "ended"}

Labels ==
    {"unborn", "pipe", "forkLs", "forkSort", "closeRead", "closeWrite", "waitLs",
     "waitSort", "close", "open", "exec", "running", "write", "ended"}

\* Every variable has its type, and the pipe never holds more than it can.
TypeOK ==
    /\ pc \in [Procs -> Labels]
    /\ result \in [Procs -> {"none", "ok", "failed", "killed"}]
    /\ readers \subseteq Procs /\ writers \subseteq Procs
    /\ sent \in 0..NumLines /\ taken \in 0..sent /\ sent - taken <= PipeSize
    /\ outfile \in -1..NumLines

\* The program reports success only when both children succeeded and outfile
\* has every line of ls, however the three processes interleave and whatever
\* fails on the way.
SuccessIsReal ==
    result[Parent] = "ok" =>
        /\ result[Ls] = "ok" /\ result[Sort] = "ok"
        /\ outfile = NumLines

\* sort takes the listing for complete only when ls can add nothing to it and
\* all of it was read: the pipe's end means ls's end.
EndMeansEnd ==
    pc[Sort] = "write" => pc[Ls] = "ended" /\ taken = sent

\* Each process waits for the others: the parent for its children's ends, ls
\* for room in the pipe, sort for a line or the end of the pipe.
Waits(p) ==
    \/ p = Parent /\ \/ pc[p] = "waitLs" /\ pc[Ls] # "ended"
                     \/ pc[p] = "waitSort" /\ pc[Sort] # "ended"
    \/ p = Ls /\ /\ pc[p] = "running" /\ sent < NumLines
                 /\ readers # {} /\ sent - taken = PipeSize
    \/ p = Sort /\ pc[p] = "running" /\ taken = sent /\ writers # {}

\* They are never all stuck: as long as one of them is alive, one can go on.
\* This is what the parent's and the children's calls of close are for ("make
\* sure our copy of the pipe isn't open so nothing hangs").
NobodyHangs ==
    (\E p \in Procs : Alive(p)) => (\E p \in Procs : Alive(p) /\ ~Waits(p))

\* Whatever fails, all processes that were started end.
AllEnd == <>[](\A p \in Procs : ~Alive(p))
=============================================================================
