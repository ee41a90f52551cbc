--------------------------- MODULE PipelineProofs ---------------------------
(***************************************************************************)
(* What lab1/main.c keeps for every number of lines and every size of the  *)
(* pipe: an inductive invariant that says who holds which end of the pipe  *)
(* where, and the safety properties of Pipeline as its consequences.       *)
(***************************************************************************)
EXTENDS Pipeline, TLAPS

ParentLabels ==
    {"pipe", "forkLs", "forkSort", "closeRead", "closeWrite", "waitLs",
     "waitSort", "ended"}
LsLabels == {"unborn", "close", "exec", "running", "ended"}
SortLabels == {"unborn", "close", "open", "exec", "running", "write", "ended"}

LabelInv ==
    pc[Parent] \in ParentLabels /\ pc[Ls] \in LsLabels /\ pc[Sort] \in SortLabels

\* The children are born in order, both before the parent lets go of the pipe.
BirthInv ==
    /\ pc[Sort] # "unborn" => pc[Ls] # "unborn"
    /\ pc[Parent] \in {"pipe", "forkLs"} => pc[Ls] = "unborn"
    /\ pc[Parent] \in {"pipe", "forkLs", "forkSort"} => pc[Sort] = "unborn"
    /\ pc[Parent] = "forkSort" => pc[Ls] # "unborn"
    /\ pc[Parent] \in {"closeRead", "closeWrite", "waitLs", "waitSort"} =>
          pc[Sort] # "unborn"

\* The parent holds both ends until it closes them; the children, each the end
\* it uses as long as it lives, and the other one until it closes it.
ReadersInv ==
    /\ Parent \in readers <=> pc[Parent] \in {"forkLs", "forkSort", "closeRead"}
    /\ Ls \in readers <=> pc[Ls] = "close"
    /\ Sort \in readers <=> Alive(Sort)

WritersInv ==
    /\ Parent \in writers <=>
          pc[Parent] \in {"forkLs", "forkSort", "closeRead", "closeWrite"}
    /\ Ls \in writers <=> Alive(Ls)
    /\ Sort \in writers <=> pc[Sort] = "close"

\* What a process has achieved when it has ended well.
ResultInv ==
    /\ result[Ls] = "ok" => pc[Ls] = "ended" /\ sent = NumLines
    /\ result[Sort] = "ok" => pc[Sort] = "ended" /\ outfile = taken
    /\ pc[Sort] = "write" \/ result[Sort] = "ok" =>
          pc[Ls] = "ended" /\ taken = sent
    /\ pc[Parent] = "waitSort" => result[Ls] = "ok"
    /\ result[Parent] = "ok" => result[Ls] = "ok" /\ result[Sort] = "ok"

IInv ==
    TypeOK /\ LabelInv /\ BirthInv /\ ReadersInv /\ WritersInv /\ ResultInv






-----------------------------------------------------------------------------
\* The parts of the invariant, for the leaves that use several of them.
LEMMA Known ==
    ASSUME IInv
    PROVE  /\ TypeOK /\ LabelInv /\ BirthInv
           /\ ReadersInv /\ WritersInv /\ ResultInv
BY DEF IInv

\* The three processes are three.
LEMMA ThreeProcesses ==
    /\ Parent \in Procs /\ Ls \in Procs /\ Sort \in Procs
    /\ Parent # Ls /\ Parent # Sort /\ Ls # Sort
    /\ \A p \in Procs : p = Parent \/ p = Ls \/ p = Sort
BY DEF Procs, Parent, Ls, Sort

LEMMA InitIInv == Init => IInv
<1> SUFFICES ASSUME Init PROVE IInv
  OBVIOUS
<1> USE ThreeProcesses DEF Init
<1>1. TypeOK
  BY LinesAssumption, PipeAssumption DEF TypeOK, Labels
<1>2. LabelInv /\ BirthInv
  BY DEF LabelInv, BirthInv, ParentLabels, LsLabels, SortLabels
<1>3. ReadersInv /\ WritersInv /\ ResultInv
  BY DEF ReadersInv, WritersInv, ResultInv, Alive
<1> QED
  BY <1>1, <1>2, <1>3 DEF IInv

\* Every step keeps the invariant, one lemma per step.
LEMMA MakePipeKeeps == ASSUME IInv, MakePipe PROVE IInv'
<1> USE Known, ThreeProcesses
        DEF MakePipe, Goto, Fail, End, ends, data, TypeOK, Labels
<1>1. TypeOK'
  BY LinesAssumption, PipeAssumption
<1>2. LabelInv' /\ BirthInv'
  BY DEF LabelInv, BirthInv, ParentLabels, LsLabels, SortLabels
<1>3. ReadersInv' /\ WritersInv'
  BY DEF ReadersInv, WritersInv, BirthInv, Alive
<1>4. ResultInv'
  BY DEF ResultInv, WritersInv, BirthInv, LabelInv, LsLabels, Alive
<1> QED
  BY <1>1, <1>2, <1>3, <1>4 DEF IInv

\* A fork moves the parent on and gives the child the parent's ends.
LEMMA ForkMoves ==
    ASSUME IInv, NEW child \in {Ls, Sort}, NEW next \in ParentLabels,
           Fork(child, next)
    PROVE  /\ TypeOK'
           /\ pc'[child] = "close" /\ pc'[Parent] = next
           /\ \A p \in {Ls, Sort} \ {child} : pc'[p] = pc[p]
<1>1. child \in Procs /\ child # Parent /\ pc \in [Procs -> Labels]
  BY Known, ThreeProcesses DEF TypeOK, Labels
<1>2. next \in Labels /\ "close" \in Labels
  BY DEF ParentLabels, Labels
<1>3. pc' = [pc EXCEPT ![Parent] = next, ![child] = "close"]
  BY DEF Fork
<1>4. pc' \in [Procs -> Labels]
  BY <1>1, <1>2, <1>3
<1>5. /\ pc'[child] = "close" /\ pc'[Parent] = next
      /\ \A p \in Procs \ {child, Parent} : pc'[p] = pc[p]
  BY <1>1, <1>3, ThreeProcesses
<1>6. readers' \subseteq Procs /\ writers' \subseteq Procs
  BY <1>1, Known DEF Fork, TypeOK
<1>7. TypeOK'
  BY <1>4, <1>6, Known DEF Fork, data, TypeOK, Labels
<1> QED
  BY <1>5, <1>7, ThreeProcesses

LEMMA ForkLsKeeps == ASSUME IInv, ForkLs PROVE IInv'
<1> USE Known, ThreeProcesses
<1>1. CASE Fail(Parent)
  <2> USE <1>1 DEF ForkLs, Fail, End, Goto, TypeOK, Labels
  <2>1. TypeOK' /\ LabelInv' /\ BirthInv'
    BY DEF LabelInv, BirthInv, ParentLabels, LsLabels, SortLabels
  <2>2. ReadersInv' /\ WritersInv' /\ ResultInv'
    BY DEF ReadersInv, WritersInv, BirthInv, ResultInv, Alive
  <2> QED
    BY <2>1, <2>2 DEF IInv
<1>2. CASE Fork(Ls, "forkSort")
  <2>1. /\ TypeOK' /\ pc'[Ls] = "close" /\ pc'[Parent] = "forkSort"
        /\ pc'[Sort] = pc[Sort]
    BY <1>2, ForkMoves DEF ParentLabels
  <2>2. pc[Parent] = "forkLs"
    BY DEF ForkLs
  <2>3. LabelInv' /\ BirthInv'
    BY <2>1, <2>2 DEF LabelInv, BirthInv, ParentLabels, LsLabels, SortLabels
  <2>4. ReadersInv' /\ WritersInv'
    BY <1>2, <2>1, <2>2 DEF Fork, ReadersInv, WritersInv, BirthInv, Alive
  <2>5. ResultInv'
    BY <1>2, <2>1, <2>2 DEF Fork, data, ResultInv, BirthInv
  <2> QED
    BY <2>1, <2>3, <2>4, <2>5 DEF IInv
<1> QED
  BY <1>1, <1>2 DEF ForkLs

LEMMA ForkSortKeeps == ASSUME IInv, ForkSort PROVE IInv'
<1> USE Known, ThreeProcesses
<1>1. CASE Fail(Parent)
  <2> USE <1>1 DEF ForkSort, Fail, End, Goto, TypeOK, Labels
  <2>1. TypeOK' /\ LabelInv' /\ BirthInv'
    BY DEF LabelInv, BirthInv, ParentLabels, LsLabels, SortLabels
  <2>2. ReadersInv' /\ WritersInv' /\ ResultInv'
    BY DEF ReadersInv, WritersInv, BirthInv, ResultInv, Alive
  <2> QED
    BY <2>1, <2>2 DEF IInv
<1>2. CASE Fork(Sort, "closeRead")
  <2>1. /\ TypeOK' /\ pc'[Sort] = "close" /\ pc'[Parent] = "closeRead"
        /\ pc'[Ls] = pc[Ls]
    BY <1>2, ForkMoves DEF ParentLabels
  <2>2. pc[Parent] = "forkSort"
    BY DEF ForkSort
  <2>3. LabelInv' /\ BirthInv'
    BY <2>1, <2>2 DEF LabelInv, BirthInv, ParentLabels, LsLabels, SortLabels
  <2>4. ReadersInv' /\ WritersInv'
    BY <1>2, <2>1, <2>2 DEF Fork, ReadersInv, WritersInv, BirthInv, Alive
  <2>5. ResultInv'
    BY <1>2, <2>1, <2>2 DEF Fork, data, ResultInv, BirthInv
  <2> QED
    BY <2>1, <2>3, <2>4, <2>5 DEF IInv
<1> QED
  BY <1>1, <1>2 DEF ForkSort

LEMMA CloseReadKeeps == ASSUME IInv, CloseRead PROVE IInv'
<1> USE Known, ThreeProcesses
        DEF CloseRead, Goto, Fail, End, ends, data, TypeOK, Labels
<1>1. TypeOK'
  BY LinesAssumption, PipeAssumption
<1>2. LabelInv' /\ BirthInv'
  BY DEF LabelInv, BirthInv, ParentLabels, LsLabels, SortLabels
<1>3. ReadersInv' /\ WritersInv'
  BY DEF ReadersInv, WritersInv, BirthInv, Alive
<1>4. ResultInv'
  BY DEF ResultInv, WritersInv, BirthInv, LabelInv, LsLabels, Alive
<1> QED
  BY <1>1, <1>2, <1>3, <1>4 DEF IInv

LEMMA CloseWriteKeeps == ASSUME IInv, CloseWrite PROVE IInv'
<1> USE Known, ThreeProcesses
        DEF CloseWrite, Goto, Fail, End, ends, data, TypeOK, Labels
<1>1. TypeOK'
  BY LinesAssumption, PipeAssumption
<1>2. LabelInv' /\ BirthInv'
  BY DEF LabelInv, BirthInv, ParentLabels, LsLabels, SortLabels
<1>3. ReadersInv' /\ WritersInv'
  BY DEF ReadersInv, WritersInv, BirthInv, Alive
<1>4. ResultInv'
  BY DEF ResultInv, WritersInv, BirthInv, LabelInv, LsLabels, Alive
<1> QED
  BY <1>1, <1>2, <1>3, <1>4 DEF IInv

LEMMA WaitLsKeeps == ASSUME IInv, WaitLs PROVE IInv'
<1> USE Known, ThreeProcesses
        DEF WaitLs, Goto, Fail, End, ends, data, TypeOK, Labels
<1>1. TypeOK'
  BY LinesAssumption, PipeAssumption
<1>2. LabelInv' /\ BirthInv'
  BY DEF LabelInv, BirthInv, ParentLabels, LsLabels, SortLabels
<1>3. ReadersInv' /\ WritersInv'
  BY DEF ReadersInv, WritersInv, BirthInv, Alive
<1>4. ResultInv'
  BY DEF ResultInv, WritersInv, BirthInv, LabelInv, LsLabels, Alive
<1> QED
  BY <1>1, <1>2, <1>3, <1>4 DEF IInv

LEMMA WaitSortKeeps == ASSUME IInv, WaitSort PROVE IInv'
<1> USE Known, ThreeProcesses
        DEF WaitSort, Goto, Fail, End, ends, data, TypeOK, Labels
<1>1. TypeOK'
  BY LinesAssumption, PipeAssumption
<1>2. LabelInv' /\ BirthInv'
  BY DEF LabelInv, BirthInv, ParentLabels, LsLabels, SortLabels
<1>3. ReadersInv' /\ WritersInv'
  BY DEF ReadersInv, WritersInv, BirthInv, Alive
<1>4. ResultInv'
  BY DEF ResultInv, WritersInv, BirthInv, LabelInv, LsLabels, Alive
<1> QED
  BY <1>1, <1>2, <1>3, <1>4 DEF IInv

LEMMA LsCloseKeeps == ASSUME IInv, LsClose PROVE IInv'
<1> USE Known, ThreeProcesses
        DEF LsClose, Goto, Fail, End, ends, data, TypeOK, Labels
<1>1. TypeOK'
  BY LinesAssumption, PipeAssumption
<1>2. LabelInv' /\ BirthInv'
  BY DEF LabelInv, BirthInv, ParentLabels, LsLabels, SortLabels
<1>3. ReadersInv' /\ WritersInv'
  BY DEF ReadersInv, WritersInv, BirthInv, Alive
<1>4. ResultInv'
  BY DEF ResultInv, WritersInv, BirthInv, LabelInv, LsLabels, Alive
<1> QED
  BY <1>1, <1>2, <1>3, <1>4 DEF IInv

LEMMA LsExecKeeps == ASSUME IInv, LsExec PROVE IInv'
<1> USE Known, ThreeProcesses
        DEF LsExec, Goto, Fail, End, ends, data, TypeOK, Labels
<1>1. TypeOK'
  BY LinesAssumption, PipeAssumption
<1>2. LabelInv' /\ BirthInv'
  BY DEF LabelInv, BirthInv, ParentLabels, LsLabels, SortLabels
<1>3. ReadersInv' /\ WritersInv'
  BY DEF ReadersInv, WritersInv, BirthInv, Alive
<1>4. ResultInv'
  BY DEF ResultInv, WritersInv, BirthInv, LabelInv, LsLabels, Alive
<1> QED
  BY <1>1, <1>2, <1>3, <1>4 DEF IInv

LEMMA LsWriteKeeps == ASSUME IInv, LsWrite PROVE IInv'
<1> USE Known, ThreeProcesses
        DEF LsWrite, Goto, Fail, End, ends, data, TypeOK, Labels
<1>1. TypeOK'
  BY LinesAssumption, PipeAssumption
<1>2. LabelInv' /\ BirthInv'
  BY DEF LabelInv, BirthInv, ParentLabels, LsLabels, SortLabels
<1>3. ReadersInv' /\ WritersInv'
  BY DEF ReadersInv, WritersInv, BirthInv, Alive
<1>4. ResultInv'
  BY DEF ResultInv, WritersInv, BirthInv, LabelInv, LsLabels, Alive
<1> QED
  BY <1>1, <1>2, <1>3, <1>4 DEF IInv

LEMMA LsEndKeeps == ASSUME IInv, LsEnd PROVE IInv'
<1> USE Known, ThreeProcesses
        DEF LsEnd, Goto, Fail, End, ends, data, TypeOK, Labels
<1>1. TypeOK'
  BY LinesAssumption, PipeAssumption
<1>2. LabelInv' /\ BirthInv'
  BY DEF LabelInv, BirthInv, ParentLabels, LsLabels, SortLabels
<1>3. ReadersInv' /\ WritersInv'
  BY DEF ReadersInv, WritersInv, BirthInv, Alive
<1>4. ResultInv'
  BY DEF ResultInv, WritersInv, BirthInv, LabelInv, LsLabels, Alive
<1> QED
  BY <1>1, <1>2, <1>3, <1>4 DEF IInv

LEMMA SortCloseKeeps == ASSUME IInv, SortClose PROVE IInv'
<1> USE Known, ThreeProcesses
        DEF SortClose, Goto, Fail, End, ends, data, TypeOK, Labels
<1>1. TypeOK'
  BY LinesAssumption, PipeAssumption
<1>2. LabelInv' /\ BirthInv'
  BY DEF LabelInv, BirthInv, ParentLabels, LsLabels, SortLabels
<1>3. ReadersInv' /\ WritersInv'
  BY DEF ReadersInv, WritersInv, BirthInv, Alive
<1>4. ResultInv'
  BY DEF ResultInv, WritersInv, BirthInv, LabelInv, LsLabels, Alive
<1> QED
  BY <1>1, <1>2, <1>3, <1>4 DEF IInv

LEMMA SortOpenKeeps == ASSUME IInv, SortOpen PROVE IInv'
<1> USE Known, ThreeProcesses
        DEF SortOpen, Goto, Fail, End, ends, data, TypeOK, Labels
<1>1. TypeOK'
  BY LinesAssumption, PipeAssumption
<1>2. LabelInv' /\ BirthInv'
  BY DEF LabelInv, BirthInv, ParentLabels, LsLabels, SortLabels
<1>3. ReadersInv' /\ WritersInv'
  BY DEF ReadersInv, WritersInv, BirthInv, Alive
<1>4. ResultInv'
  BY DEF ResultInv, WritersInv, BirthInv, LabelInv, LsLabels, Alive
<1> QED
  BY <1>1, <1>2, <1>3, <1>4 DEF IInv

LEMMA SortExecKeeps == ASSUME IInv, SortExec PROVE IInv'
<1> USE Known, ThreeProcesses
        DEF SortExec, Goto, Fail, End, ends, data, TypeOK, Labels
<1>1. TypeOK'
  BY LinesAssumption, PipeAssumption
<1>2. LabelInv' /\ BirthInv'
  BY DEF LabelInv, BirthInv, ParentLabels, LsLabels, SortLabels
<1>3. ReadersInv' /\ WritersInv'
  BY DEF ReadersInv, WritersInv, BirthInv, Alive
<1>4. ResultInv'
  BY DEF ResultInv, WritersInv, BirthInv, LabelInv, LsLabels, Alive
<1> QED
  BY <1>1, <1>2, <1>3, <1>4 DEF IInv

LEMMA SortReadKeeps == ASSUME IInv, SortRead PROVE IInv'
<1> USE Known, ThreeProcesses
        DEF SortRead, Goto, Fail, End, ends, data, TypeOK, Labels
<1>1. TypeOK'
  BY LinesAssumption, PipeAssumption
<1>2. LabelInv' /\ BirthInv'
  BY DEF LabelInv, BirthInv, ParentLabels, LsLabels, SortLabels
<1>3. ReadersInv' /\ WritersInv'
  BY DEF ReadersInv, WritersInv, BirthInv, Alive
<1>4. ResultInv'
  BY DEF ResultInv, WritersInv, BirthInv, LabelInv, LsLabels, Alive
<1> QED
  BY <1>1, <1>2, <1>3, <1>4 DEF IInv

LEMMA SortSeesEndKeeps == ASSUME IInv, SortSeesEnd PROVE IInv'
<1> USE Known, ThreeProcesses
        DEF SortSeesEnd, Goto, Fail, End, ends, data, TypeOK, Labels
<1>1. TypeOK'
  BY LinesAssumption, PipeAssumption
<1>2. LabelInv' /\ BirthInv'
  BY DEF LabelInv, BirthInv, ParentLabels, LsLabels, SortLabels
<1>3. ReadersInv' /\ WritersInv'
  BY DEF ReadersInv, WritersInv, BirthInv, Alive
<1>4. ResultInv'
  BY DEF ResultInv, WritersInv, BirthInv, LabelInv, LsLabels, Alive
<1> QED
  BY <1>1, <1>2, <1>3, <1>4 DEF IInv

LEMMA SortWriteKeeps == ASSUME IInv, SortWrite PROVE IInv'
<1> USE Known, ThreeProcesses
        DEF SortWrite, Goto, Fail, End, ends, data, TypeOK, Labels
<1>1. TypeOK'
  BY LinesAssumption, PipeAssumption
<1>2. LabelInv' /\ BirthInv'
  BY DEF LabelInv, BirthInv, ParentLabels, LsLabels, SortLabels
<1>3. ReadersInv' /\ WritersInv'
  BY DEF ReadersInv, WritersInv, BirthInv, Alive
<1>4. ResultInv'
  BY DEF ResultInv, WritersInv, BirthInv, LabelInv, LsLabels, Alive
<1> QED
  BY <1>1, <1>2, <1>3, <1>4 DEF IInv

LEMMA StutterKeeps == ASSUME IInv, UNCHANGED vars PROVE IInv'
BY DEF vars, IInv, TypeOK, LabelInv, BirthInv, ReadersInv, WritersInv, ResultInv, Alive

\* The inductive invariant holds in every state of the program.
THEOREM Invariance == Spec => []IInv
<1>1. ASSUME IInv, [Next]_vars PROVE IInv'
  <2>1. CASE RunParent
    BY <1>1, <2>1, MakePipeKeeps, ForkLsKeeps, ForkSortKeeps, CloseReadKeeps,
       CloseWriteKeeps, WaitLsKeeps, WaitSortKeeps DEF RunParent
  <2>2. CASE RunLs
    BY <1>1, <2>2, LsCloseKeeps, LsExecKeeps, LsWriteKeeps, LsEndKeeps DEF RunLs
  <2>3. CASE RunSort
    BY <1>1, <2>3, SortCloseKeeps, SortOpenKeeps, SortExecKeeps, SortReadKeeps,
       SortSeesEndKeeps, SortWriteKeeps DEF RunSort
  <2> QED
    BY <1>1, <2>1, <2>2, <2>3, StutterKeeps DEF Next
<1> QED
  BY <1>1, InitIInv, PTL DEF Spec

\* Every variable keeps its type, and the pipe never overflows.
THEOREM TypeCorrect == Spec => []TypeOK
BY Invariance, Known, PTL

\* Success is reported only for a complete outfile, however long the listing
\* and however small the pipe.
THEOREM SuccessReal == Spec => []SuccessIsReal
<1>1. ASSUME IInv PROVE SuccessIsReal
  BY <1>1, Known DEF ResultInv, SuccessIsReal
<1> QED
  BY <1>1, Invariance, PTL

\* sort takes only a complete listing for complete.
THEOREM EndReal == Spec => []EndMeansEnd
<1>1. ASSUME IInv PROVE EndMeansEnd
  BY <1>1, Known DEF ResultInv, EndMeansEnd
<1> QED
  BY <1>1, Invariance, PTL

\* No circular wait: whoever is waited for can run or waits for somebody who
\* can.  A full pipe is emptied by sort, an empty one is filled or closed by
\* ls, since nobody else is left holding an end of it.
THEOREM HangFree == Spec => []NobodyHangs
<1>1. ASSUME IInv PROVE NobodyHangs
  <2> SUFFICES ASSUME \A p \in Procs : Alive(p) => Waits(p), NEW q \in Procs, Alive(q)
               PROVE  FALSE
    BY DEF NobodyHangs
  <2> USE <1>1, Known, ThreeProcesses
  <2>1. Alive(Parent) => pc[Parent] \in {"waitLs", "waitSort"}
    BY DEF Waits
  <2>2. Alive(Ls) => pc[Ls] = "running" /\ readers # {} /\ sent - taken = PipeSize
    BY DEF Waits
  <2>3. Alive(Sort) => pc[Sort] = "running" /\ taken = sent /\ writers # {}
    BY DEF Waits
  <2>4. Parent \notin readers /\ Parent \notin writers
    BY <2>1 DEF ReadersInv, WritersInv, Alive
  <2>5. Ls \notin readers /\ Sort \notin writers
    BY <2>2, <2>3 DEF ReadersInv, WritersInv, Alive
  <2>6. Alive(Ls) => Alive(Sort)
    BY <2>2, <2>4, <2>5 DEF ReadersInv, TypeOK
  <2>7. Alive(Sort) => Alive(Ls)
    BY <2>3, <2>4, <2>5 DEF WritersInv, TypeOK
  <2>8. ~(Alive(Ls) /\ Alive(Sort))
    <3> SUFFICES ASSUME sent - taken = PipeSize, taken = sent PROVE FALSE
      BY <2>2, <2>3
    <3> QED
      BY PipeAssumption, LinesAssumption DEF TypeOK
  <2>9. ~Alive(Ls) /\ ~Alive(Sort)
    BY <2>6, <2>7, <2>8
  <2>10. Alive(Parent)
    BY <2>9
  <2>11. pc[Ls] # "unborn" /\ pc[Sort] # "unborn"
    BY <2>1, <2>10 DEF BirthInv
  <2>12. pc[Ls] = "ended" /\ pc[Sort] = "ended"
    BY <2>9, <2>11 DEF Alive
  <2>13. ~Waits(Parent)
    BY <2>1, <2>10, <2>12 DEF Waits
  <2> QED
    BY <2>10, <2>13
<1> QED
  BY <1>1, Invariance, PTL
=============================================================================
