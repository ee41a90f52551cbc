---------------------------- MODULE DiningProofs ----------------------------
(***************************************************************************)
(* What dining.c keeps for every number of philosophers and of cycles.     *)
(* IInv of DiningInv is shown inductive, one lemma per action; the safety  *)
(* properties of Dining follow from it.                                    *)
(***************************************************************************)
EXTENDS DiningInv, TLAPS

\* The ring of forks: every fork is the left one of one philosopher and the
\* right one of another.
LEMMA RingFacts ==
    /\ Phil = Fork
    /\ \A p \in Phil : /\ Left(p) \in Fork /\ Right(p) \in Fork
                       /\ Left(p) # Right(p)
    /\ \A p, q \in Phil : Right(p) = Right(q) => p = q
    /\ \A p, q \in Phil : Left(p) = Left(q) => p = q
    /\ None \notin Phil /\ Destroyed \notin Phil /\ None # Destroyed
BY NAssumption DEF Phil, Fork, Left, Right, None, Destroyed

\* The parts of the invariant, for the leaves that use several of them.
LEMMA Known ==
    ASSUME IInv
    PROVE  /\ TypeOK /\ ForkInv /\ BesideInv /\ ArrayLockInv
           /\ HandInv /\ StateInv /\ CycleInv /\ MainInv
BY DEF IInv

-----------------------------------------------------------------------------
\* The program starts in the invariant.
LEMMA InitIInv == Init => IInv
<1> SUFFICES ASSUME Init PROVE IInv
  OBVIOUS
<1> USE NAssumption, RingFacts DEF Init
<1>1. TypeOK
  BY CyclesAssumption DEF TypeOK, Labels
<1>2. ForkInv /\ BesideInv
  BY DEF ForkInv, BesideInv, HoldsLeft, HoldsRight, BothForks
<1>3. ArrayLockInv
  BY DEF ArrayLockInv, Showing
<1>4. HandInv /\ StateInv /\ CycleInv
  BY DEF HandInv, ShowsLeft, ShowsRight, StateInv, CycleInv, BothForks
<1>5. MainInv
  BY DEF MainInv
<1> QED
  BY <1>1, <1>2, <1>3, <1>4, <1>5 DEF IInv

\* Every step of a philosopher's thread keeps it, one lemma per step.
LEMMA BeginCycleKeeps == ASSUME IInv, NEW p \in Phil, BeginCycle(p) PROVE IInv'
<1> USE Known, RingFacts DEF BeginCycle, Goto, array, TypeOK
<1>1. TypeOK' /\ BesideInv'
  BY CyclesAssumption DEF BesideInv, CycleInv, Labels, Saying, Showing
<1>2. ForkInv' /\ HandInv'
  BY DEF ForkInv, HandInv, ShowsLeft, ShowsRight, HoldsLeft, HoldsRight, BothForks, Showing
<1>3. ArrayLockInv' /\ StateInv' /\ CycleInv' /\ MainInv'
  BY DEF ArrayLockInv, StateInv, CycleInv, MainInv, Showing
<1> QED
  BY <1>1, <1>2, <1>3 DEF IInv

LEMMA RetireKeeps == ASSUME IInv, NEW p \in Phil, Retire(p) PROVE IInv'
<1> USE Known, RingFacts DEF Retire, Goto, TypeOK
<1>1. TypeOK' /\ BesideInv'
  BY CyclesAssumption DEF BesideInv, CycleInv, Labels, Saying, Showing
<1>2. ForkInv' /\ HandInv'
  BY DEF ForkInv, HandInv, ShowsLeft, ShowsRight, HoldsLeft, HoldsRight, BothForks, Showing
<1>3. ArrayLockInv' /\ StateInv' /\ CycleInv' /\ MainInv'
  BY DEF ArrayLockInv, StateInv, CycleInv, MainInv, Showing
<1> QED
  BY <1>1, <1>2, <1>3 DEF IInv

LEMMA SnatchLeftKeeps == ASSUME IInv, NEW p \in Phil, SnatchLeft(p) PROVE IInv'
<1> USE Known, RingFacts DEF SnatchLeft, SnatchFork, Goto, array, TypeOK
<1>1. TypeOK' /\ BesideInv'
  BY CyclesAssumption DEF BesideInv, CycleInv, Labels, Saying, Showing
<1>2. ForkInv' /\ HandInv'
  BY DEF ForkInv, HandInv, ShowsLeft, ShowsRight, HoldsLeft, HoldsRight, BothForks, Showing
<1>3. ArrayLockInv' /\ StateInv' /\ CycleInv' /\ MainInv'
  BY DEF ArrayLockInv, StateInv, CycleInv, MainInv, Showing
<1> QED
  BY <1>1, <1>2, <1>3 DEF IInv

LEMMA SnatchRightKeeps == ASSUME IInv, NEW p \in Phil, SnatchRight(p) PROVE IInv'
<1> USE Known, RingFacts DEF SnatchRight, SnatchFork, Goto, array, TypeOK
<1>1. TypeOK' /\ BesideInv'
  BY CyclesAssumption DEF BesideInv, CycleInv, Labels, Saying, Showing
<1>2. ForkInv' /\ HandInv'
  BY DEF ForkInv, HandInv, ShowsLeft, ShowsRight, HoldsLeft, HoldsRight, BothForks, Showing
<1>3. ArrayLockInv' /\ StateInv' /\ CycleInv' /\ MainInv'
  BY DEF ArrayLockInv, StateInv, CycleInv, MainInv, Showing
<1> QED
  BY <1>1, <1>2, <1>3 DEF IInv

LEMMA SayLeftKeeps == ASSUME IInv, NEW p \in Phil, SayLeft(p) PROVE IInv'
<1> USE Known, RingFacts DEF SayLeft, SetLeft, Announce, Goto, TypeOK
<1>1. TypeOK' /\ BesideInv'
  BY CyclesAssumption DEF BesideInv, CycleInv, Labels, Saying, Showing
<1>2. ForkInv' /\ HandInv'
  BY DEF ForkInv, HandInv, ShowsLeft, ShowsRight, HoldsLeft, HoldsRight, BothForks, Showing
<1>3. ArrayLockInv' /\ StateInv' /\ CycleInv' /\ MainInv'
  BY DEF ArrayLockInv, StateInv, CycleInv, MainInv, Showing
<1> QED
  BY <1>1, <1>2, <1>3 DEF IInv

LEMMA SayRightKeeps == ASSUME IInv, NEW p \in Phil, SayRight(p) PROVE IInv'
<1> USE Known, RingFacts DEF SayRight, SetRight, Announce, Goto, TypeOK
<1>1. TypeOK' /\ BesideInv'
  BY CyclesAssumption DEF BesideInv, CycleInv, Labels, Saying, Showing
<1>2. ForkInv' /\ HandInv'
  BY DEF ForkInv, HandInv, ShowsLeft, ShowsRight, HoldsLeft, HoldsRight, BothForks, Showing
<1>3. ArrayLockInv' /\ StateInv' /\ CycleInv' /\ MainInv'
  BY DEF ArrayLockInv, StateInv, CycleInv, MainInv, Showing
<1> QED
  BY <1>1, <1>2, <1>3 DEF IInv

LEMMA SayEatingKeeps == ASSUME IInv, NEW p \in Phil, SayEating(p) PROVE IInv'
<1> USE Known, RingFacts DEF SayEating, SetState, Announce, Goto, TypeOK
<1>1. TypeOK' /\ BesideInv'
  BY CyclesAssumption DEF BesideInv, CycleInv, Labels, Saying, Showing
<1>2. ForkInv' /\ HandInv'
  BY DEF ForkInv, HandInv, ShowsLeft, ShowsRight, HoldsLeft, HoldsRight, BothForks, Showing
<1>3. ArrayLockInv' /\ StateInv' /\ CycleInv' /\ MainInv'
  BY DEF ArrayLockInv, StateInv, CycleInv, MainInv, Showing
<1> QED
  BY <1>1, <1>2, <1>3 DEF IInv

LEMMA SayEatenKeeps == ASSUME IInv, NEW p \in Phil, SayEaten(p) PROVE IInv'
<1> USE Known, RingFacts DEF SayEaten, SetState, Announce, Goto, TypeOK
<1>1. TypeOK' /\ BesideInv'
  BY CyclesAssumption DEF BesideInv, CycleInv, Labels, Saying, Showing
<1>2. ForkInv' /\ HandInv'
  BY DEF ForkInv, HandInv, ShowsLeft, ShowsRight, HoldsLeft, HoldsRight, BothForks, Showing
<1>3. ArrayLockInv' /\ StateInv' /\ CycleInv' /\ MainInv'
  BY DEF ArrayLockInv, StateInv, CycleInv, MainInv, Showing
<1> QED
  BY <1>1, <1>2, <1>3 DEF IInv

LEMMA UnlockLeftKeeps == ASSUME IInv, NEW p \in Phil, UnlockLeft(p) PROVE IInv'
<1> USE Known, RingFacts DEF UnlockLeft, DropFork, Goto, array, TypeOK
<1>1. TypeOK' /\ BesideInv'
  BY CyclesAssumption DEF BesideInv, CycleInv, Labels, Saying, Showing
<1>2. ForkInv' /\ HandInv'
  BY DEF ForkInv, HandInv, ShowsLeft, ShowsRight, HoldsLeft, HoldsRight, BothForks, Showing
<1>3. ArrayLockInv' /\ StateInv' /\ CycleInv' /\ MainInv'
  BY DEF ArrayLockInv, StateInv, CycleInv, MainInv, Showing
<1> QED
  BY <1>1, <1>2, <1>3 DEF IInv

LEMMA SayLeftDroppedKeeps == ASSUME IInv, NEW p \in Phil, SayLeftDropped(p) PROVE IInv'
<1> USE Known, RingFacts DEF SayLeftDropped, SetLeft, Announce, Goto, TypeOK
<1>1. TypeOK' /\ BesideInv'
  BY CyclesAssumption DEF BesideInv, CycleInv, Labels, Saying, Showing
<1>2. ForkInv' /\ HandInv'
  BY DEF ForkInv, HandInv, ShowsLeft, ShowsRight, HoldsLeft, HoldsRight, BothForks, Showing
<1>3. ArrayLockInv' /\ StateInv' /\ CycleInv' /\ MainInv'
  BY DEF ArrayLockInv, StateInv, CycleInv, MainInv, Showing
<1> QED
  BY <1>1, <1>2, <1>3 DEF IInv

LEMMA UnlockRightKeeps == ASSUME IInv, NEW p \in Phil, UnlockRight(p) PROVE IInv'
<1> USE Known, RingFacts DEF UnlockRight, DropFork, Goto, array, TypeOK
<1>1. TypeOK' /\ BesideInv'
  BY CyclesAssumption DEF BesideInv, CycleInv, Labels, Saying, Showing
<1>2. ForkInv' /\ HandInv'
  BY DEF ForkInv, HandInv, ShowsLeft, ShowsRight, HoldsLeft, HoldsRight, BothForks, Showing
<1>3. ArrayLockInv' /\ StateInv' /\ CycleInv' /\ MainInv'
  BY DEF ArrayLockInv, StateInv, CycleInv, MainInv, Showing
<1> QED
  BY <1>1, <1>2, <1>3 DEF IInv

LEMMA SayRightDroppedKeeps == ASSUME IInv, NEW p \in Phil, SayRightDropped(p) PROVE IInv'
<1> USE Known, RingFacts DEF SayRightDropped, SetRight, Announce, Goto, TypeOK
<1>1. TypeOK' /\ BesideInv'
  BY CyclesAssumption DEF BesideInv, CycleInv, Labels, Saying, Showing
<1>2. ForkInv' /\ HandInv'
  BY DEF ForkInv, HandInv, ShowsLeft, ShowsRight, HoldsLeft, HoldsRight, BothForks, Showing
<1>3. ArrayLockInv' /\ StateInv' /\ CycleInv' /\ MainInv'
  BY DEF ArrayLockInv, StateInv, CycleInv, MainInv, Showing
<1> QED
  BY <1>1, <1>2, <1>3 DEF IInv

LEMMA SayThinkingKeeps == ASSUME IInv, NEW p \in Phil, SayThinking(p) PROVE IInv'
<1> USE Known, RingFacts DEF SayThinking, SetState, Announce, Goto, TypeOK
<1>1. TypeOK' /\ BesideInv'
  BY CyclesAssumption DEF BesideInv, CycleInv, Labels, Saying, Showing
<1>2. ForkInv' /\ HandInv'
  BY DEF ForkInv, HandInv, ShowsLeft, ShowsRight, HoldsLeft, HoldsRight, BothForks, Showing
<1>3. ArrayLockInv' /\ StateInv' /\ CycleInv' /\ MainInv'
  BY DEF ArrayLockInv, StateInv, CycleInv, MainInv, Showing
<1> QED
  BY <1>1, <1>2, <1>3 DEF IInv

LEMMA SayThoughtKeeps == ASSUME IInv, NEW p \in Phil, SayThought(p) PROVE IInv'
<1> USE Known, RingFacts DEF SayThought, SetState, Announce, Goto, TypeOK
<1>1. TypeOK' /\ BesideInv'
  BY CyclesAssumption DEF BesideInv, CycleInv, Labels, Saying, Showing
<1>2. ForkInv' /\ HandInv'
  BY DEF ForkInv, HandInv, ShowsLeft, ShowsRight, HoldsLeft, HoldsRight, BothForks, Showing
<1>3. ArrayLockInv' /\ StateInv' /\ CycleInv' /\ MainInv'
  BY DEF ArrayLockInv, StateInv, CycleInv, MainInv, Showing
<1> QED
  BY <1>1, <1>2, <1>3 DEF IInv

LEMMA PrintStateChangeKeeps == ASSUME IInv, NEW p \in Phil, PrintStateChange(p) PROVE IInv'
<1> USE Known, RingFacts DEF PrintStateChange, ReturnLabel, Goto, array, TypeOK
<1>1. TypeOK' /\ BesideInv'
  BY CyclesAssumption DEF BesideInv, CycleInv, Labels, Saying, Showing
<1>2. ForkInv' /\ HandInv'
  BY DEF ForkInv, HandInv, ShowsLeft, ShowsRight, HoldsLeft, HoldsRight, BothForks, Showing
<1>3. ArrayLockInv' /\ StateInv' /\ CycleInv' /\ MainInv'
  BY DEF ArrayLockInv, StateInv, CycleInv, MainInv, Showing
<1> QED
  BY <1>1, <1>2, <1>3 DEF IInv

LEMMA EndCycleKeeps == ASSUME IInv, NEW p \in Phil, EndCycle(p) PROVE IInv'
<1> USE Known, RingFacts DEF EndCycle, Goto, TypeOK
<1>1. TypeOK' /\ BesideInv'
  BY CyclesAssumption DEF BesideInv, CycleInv, Labels, Saying, Showing
<1>2. ForkInv' /\ HandInv'
  BY DEF ForkInv, HandInv, ShowsLeft, ShowsRight, HoldsLeft, HoldsRight, BothForks, Showing
<1>3. ArrayLockInv' /\ StateInv' /\ CycleInv' /\ MainInv'
  BY DEF ArrayLockInv, StateInv, CycleInv, MainInv, Showing
<1> QED
  BY <1>1, <1>2, <1>3 DEF IInv

LEMMA PhilosophizeKeeps ==
    ASSUME IInv, NEW p \in Phil, Philosophize(p) PROVE IInv'
BY BeginCycleKeeps, RetireKeeps, SnatchLeftKeeps, SnatchRightKeeps, SayLeftKeeps, SayRightKeeps, SayEatingKeeps, SayEatenKeeps, UnlockLeftKeeps, SayLeftDroppedKeeps, UnlockRightKeeps, SayRightDroppedKeeps, SayThinkingKeeps, SayThoughtKeeps, PrintStateChangeKeeps, EndCycleKeeps DEF Philosophize

-----------------------------------------------------------------------------
\* Every step of main keeps it.
LEMMA PrintFirstRowKeeps == ASSUME IInv, PrintFirstRow PROVE IInv'
<1> USE Known, RingFacts, NAssumption DEF PrintFirstRow, array, TypeOK
<1>1. \A p \in Phil : pc[p] = "unborn"
  BY DEF MainInv
<1>2. TypeOK' /\ BesideInv' /\ ForkInv' /\ HandInv'
  BY DEF BesideInv, ForkInv, HandInv, ShowsLeft, ShowsRight, HoldsLeft, HoldsRight
<1>3. ArrayLockInv' /\ StateInv' /\ CycleInv'
  BY <1>1 DEF ArrayLockInv, StateInv, CycleInv, Showing
<1>4. MainInv'
  BY <1>1 DEF MainInv, Phil
<1> QED
  BY <1>2, <1>3, <1>4 DEF IInv

\* main's loop index, after its increment or at the end of its loop.
LEMMA IndexAdvances ==
    ASSUME ndx \in 0 .. N - 1, NEW label, NEW next, Advance(label, next)
    PROVE  /\ ndx' \in 0 .. N - 1
           /\ \/ ndx = N - 1 /\ ndx' = 0 /\ mainPc' = next
              \/ ndx < N - 1 /\ ndx' = ndx + 1 /\ mainPc' = label
<1>1. CASE ndx + 1 = N
  BY <1>1, NAssumption DEF Advance
<1>2. CASE ndx + 1 # N
  BY <1>2, NAssumption DEF Advance
<1> QED
  BY <1>1, <1>2

LEMMA CreateThreadKeeps == ASSUME IInv, CreateThread PROVE IInv'
<1>1. ndx \in Phil /\ pc[ndx] = "unborn"
  BY Known, NAssumption DEF CreateThread, TypeOK, MainInv, Phil
<1>2. /\ ndx' \in 0 .. N - 1
      /\ \/ ndx = N - 1 /\ ndx' = 0 /\ mainPc' = "join"
         \/ ndx < N - 1 /\ ndx' = ndx + 1 /\ mainPc' = "create"
  BY IndexAdvances, Known DEF CreateThread, TypeOK
<1>3. \A p \in Phil : pc'[p] = IF p = ndx THEN "loop" ELSE pc[p]
  BY <1>1, Known DEF CreateThread, TypeOK
<1>4. TypeOK' /\ BesideInv'
  BY <1>2, Known DEF CreateThread, array, TypeOK, BesideInv, Labels
<1>5. ForkInv' /\ HandInv'
  BY <1>1, <1>3, Known
     DEF CreateThread, array, ForkInv, HandInv, ShowsLeft, ShowsRight, HoldsLeft, HoldsRight, BothForks
<1>6. ArrayLockInv' /\ StateInv' /\ CycleInv'
  BY <1>1, <1>3, Known
     DEF CreateThread, array, ArrayLockInv, StateInv, CycleInv, Showing
<1>7. MainInv'
  <2>1. \A p \in Phil : p \in 0 .. N - 1
    BY DEF Phil
  <2>2. mainPc = "create" /\ forkLocks' = forkLocks
    BY DEF CreateThread
  <2>3. \A p \in Phil : pc[p] = "unborn" <=> ndx <= p
    BY <2>2, Known DEF MainInv
  <2> QED
    BY <1>1, <1>2, <1>3, <2>1, <2>2, <2>3, Known, NAssumption DEF MainInv
<1> QED
  BY <1>4, <1>5, <1>6, <1>7 DEF IInv

LEMMA JoinThreadKeeps == ASSUME IInv, JoinThread PROVE IInv'
<1>1. /\ ndx' \in 0 .. N - 1
      /\ \/ ndx = N - 1 /\ ndx' = 0 /\ mainPc' = "cleanup"
         \/ ndx < N - 1 /\ ndx' = ndx + 1 /\ mainPc' = "join"
  BY IndexAdvances, Known DEF JoinThread, TypeOK
<1>2. TypeOK' /\ BesideInv'
  BY <1>1, Known DEF JoinThread, array, TypeOK, BesideInv
<1>3. ForkInv' /\ HandInv' /\ ArrayLockInv' /\ StateInv' /\ CycleInv'
  BY Known DEF JoinThread, array, ForkInv, HandInv, ShowsLeft, ShowsRight, HoldsLeft, HoldsRight,
               ArrayLockInv, StateInv, CycleInv
<1>4. MainInv'
  <2>1. /\ mainPc = "join" /\ pc[ndx] = "exited"
        /\ pc' = pc /\ forkLocks' = forkLocks /\ ndx \in 0 .. N - 1
    BY Known DEF JoinThread, TypeOK
  <2>2. \A p \in Phil : pc[p] # "unborn" /\ (p < ndx => pc[p] = "exited")
    BY <2>1, Known DEF MainInv
  <2>3. \A p \in Phil : p \in 0 .. N - 1
    BY DEF Phil
  <2>4. \A p \in Phil : p <= ndx => pc[p] = "exited"
    BY <2>1, <2>2, <2>3
  <2> QED
    BY <1>1, <2>1, <2>2, <2>3, <2>4, Known, NAssumption DEF MainInv
<1> QED
  BY <1>2, <1>3, <1>4 DEF IInv

LEMMA CleanupKeeps == ASSUME IInv, Cleanup PROVE IInv'
<1> USE Known, RingFacts DEF Cleanup, array, TypeOK
<1>1. \A p \in Phil : pc[p] = "exited"
  BY DEF MainInv
<1>2. TypeOK' /\ BesideInv'
  BY DEF BesideInv
<1>3. ForkInv'
  BY <1>1 DEF ForkInv, HoldsLeft, HoldsRight, BothForks
<1>4. HandInv' /\ ArrayLockInv' /\ StateInv' /\ CycleInv' /\ MainInv'
  BY <1>1 DEF HandInv, ShowsLeft, ShowsRight, ArrayLockInv, StateInv,
                  CycleInv, MainInv
<1> QED
  BY <1>2, <1>3, <1>4 DEF IInv

LEMMA StutterKeeps == ASSUME IInv, UNCHANGED vars PROVE IInv'
<1> USE Known DEF vars, array
<1>1. TypeOK' /\ BesideInv' /\ HandInv' /\ ArrayLockInv'
  BY DEF TypeOK, BesideInv, HandInv, ShowsLeft, ShowsRight, ArrayLockInv
<1>2. ForkInv' /\ StateInv' /\ CycleInv' /\ MainInv'
  BY DEF ForkInv, HoldsLeft, HoldsRight, StateInv, CycleInv, MainInv
<1> QED
  BY <1>1, <1>2 DEF IInv

-----------------------------------------------------------------------------
\* The inductive invariant holds in every state of the program.
THEOREM Invariance == Spec => []IInv
<1>1. ASSUME IInv, [Next]_vars PROVE IInv'
  BY <1>1, PrintFirstRowKeeps, CreateThreadKeeps, JoinThreadKeeps,
     CleanupKeeps, StutterKeeps, PhilosophizeKeeps DEF Next, Main, Ended
<1> QED
  BY <1>1, InitIInv, PTL DEF Spec

\* Every variable keeps its type, for every size of table.
THEOREM TypeCorrect == Spec => []TypeOK
BY Invariance, Known, PTL

\* Mutual exclusion, the heart of the assignment: neighbours never eat at the
\* same time, and who eats has both forks.
THEOREM NeighboursSafe == Spec => []NeighboursNeverEatTogether
<1>1. ASSUME IInv PROVE NeighboursNeverEatTogether
  <2> SUFFICES ASSUME NEW p \in Phil, state[p] = "EATING"
               PROVE  /\ state[Right(p)] # "EATING"
                      /\ <<hasLeftFork[p], hasRightFork[p]>>
                             = <<Left(p), Right(p)>>
                      /\ forkLocks[Left(p)] = p /\ forkLocks[Right(p)] = p
    BY DEF NeighboursNeverEatTogether
  <2>1. forkLocks[Left(p)] = p /\ forkLocks[Right(p)] = p
    BY <1>1, Known DEF StateInv, ForkInv, HoldsLeft, HoldsRight, BothForks
  <2>2. hasLeftFork[p] = Left(p) /\ hasRightFork[p] = Right(p)
    BY <1>1, Known DEF StateInv, HandInv, ShowsLeft, ShowsRight, BothForks
  <2>3. state[Right(p)] # "EATING"
    <3>1. SUFFICES ASSUME state[Right(p)] = "EATING" PROVE FALSE
      OBVIOUS
    <3>2. Right(p) \in Phil /\ Left(Right(p)) = Right(p) /\ Right(p) # p
      BY RingFacts DEF Left
    <3>3. forkLocks[Right(p)] = Right(p)
      BY <1>1, <3>1, <3>2, Known
         DEF StateInv, ForkInv, HoldsLeft, BothForks
    <3> QED
      BY <2>1, <3>2, <3>3
  <2> QED
    BY <2>1, <2>2, <2>3
<1> QED
  BY <1>1, Invariance, PTL

\* Whatever philosophers[] shows, a fork in two hands is on its way out of one
\* of them: at most one of the two owns its mutex, and the other has still to
\* announce the drop.
THEOREM TwoHandsSafe == Spec => []ForkInTwoHandsIsBeingDropped
<1>1. ASSUME IInv PROVE ForkInTwoHandsIsBeingDropped
  <2> SUFFICES ASSUME NEW p \in Phil, hasRightFork[p] # None,
                      hasRightFork[p] = hasLeftFork[Right(p)],
                      pc[p] # "sayRightDropped",
                      pc[Right(p)] # "sayLeftDropped"
               PROVE  FALSE
    BY DEF ForkInTwoHandsIsBeingDropped
  <2>1. Right(p) \in Phil /\ Left(Right(p)) = Right(p) /\ Right(p) # p
    BY RingFacts DEF Left
  <2>2. HoldsRight(p)
    BY <1>1, Known DEF HandInv, ShowsRight, HoldsRight, BothForks
  <2>3. HoldsLeft(Right(p))
    BY <1>1, <2>1, Known DEF HandInv, ShowsLeft, HoldsLeft, BothForks
  <2>4. forkLocks[Right(p)] = p /\ forkLocks[Right(p)] = Right(p)
    BY <1>1, <2>1, <2>2, <2>3, Known DEF ForkInv
  <2> QED
    BY <2>1, <2>4
<1> QED
  BY <1>1, Invariance, PTL

\* Philosophers unlock what they have locked, and main, which has locked
\* nothing, unlocks a mutex that is free and that nobody is there to want.
THEOREM UnlocksSafe == Spec => []NobodyLosesAMutex
<1>1. ASSUME IInv PROVE NobodyLosesAMutex
  <2>1. ASSUME NEW p \in Phil
        PROVE  /\ pc[p] = "unlockLeft" => forkLocks[Left(p)] = p
               /\ pc[p] = "unlockRight" => forkLocks[Right(p)] = p
               /\ pc[p] \in Showing => stateChangeLock = p
    BY <1>1, Known DEF ForkInv, ArrayLockInv, HoldsLeft, HoldsRight, BothForks
  <2>2. ASSUME mainPc = "print"
        PROVE  stateChangeLock = None /\ \A p \in Phil : pc[p] = "unborn"
    <3>1. \A p \in Phil : pc[p] = "unborn"
      BY <1>1, <2>2, Known DEF MainInv
    <3>2. stateChangeLock \notin Phil
      BY <1>1, <3>1, Known DEF ArrayLockInv, Showing
    <3> QED
      BY <1>1, <3>1, <3>2, Known DEF TypeOK
  <2> QED
    BY <2>1, <2>2 DEF NobodyLosesAMutex
<1> QED
  BY <1>1, Invariance, PTL

\* The mutexes are destroyed only when nobody can lock them any more.
THEOREM CleanupSafe == Spec => []CleanupIsSafe
<1>1. ASSUME IInv PROVE CleanupIsSafe
  <2> SUFFICES ASSUME mainPc \in {"cleanup", "exit"}
               PROVE  /\ \A p \in Phil : pc[p] = "exited" /\ cyclesLeft[p] = 0
                      /\ \A f \in Fork : forkLocks[f] =
                            IF mainPc = "exit" THEN Destroyed ELSE None
    BY DEF CleanupIsSafe
  <2>1. \A p \in Phil : pc[p] = "exited" /\ cyclesLeft[p] = 0
    BY <1>1, Known DEF MainInv, CycleInv
  <2>2. \A f \in Fork : forkLocks[f] \notin Phil
    BY <1>1, <2>1, Known, RingFacts
       DEF BesideInv, ForkInv, HoldsLeft, HoldsRight, BothForks
  <2>3. \A f \in Fork : forkLocks[f] = IF mainPc = "exit" THEN Destroyed
                                                          ELSE None
    BY <1>1, <2>2, Known DEF MainInv, TypeOK
  <2> QED
    BY <2>1, <2>3
<1> QED
  BY <1>1, Invariance, PTL

-----------------------------------------------------------------------------
\* Around the ring even and odd philosophers alternate, except where an odd
\* number of them closes it: there the last and the first are both even.
LEMMA Parity ==
    \A p \in Phil : /\ Right(p) # 0 => (Even(Right(p)) <=> ~Even(p))
                    /\ Right(p) = 0 => p = N - 1
                    /\ Even(0)
BY NAssumption DEF Phil, Right, Even

\* No gridlock, for every size of table.  If everybody were stuck, each would
\* wait for a second fork that a neighbour took as its first; neighbours of
\* unlike parity share their first fork, or none, so such a chain of waits
\* breaks within two steps.
THEOREM Gridlock == Spec => []NoGridlock
<1>1. ASSUME IInv PROVE NoGridlock
  <2> SUFFICES ASSUME NEW a \in Phil, Running(a),
                      \A p \in Phil : ~CanRun(p)
               PROVE  FALSE
    BY DEF NoGridlock
  <2> USE <1>1, Known, RingFacts
  <2>1. stateChangeLock = None
    <3>1. CASE stateChangeLock \in Phil
      <4>1. pc[stateChangeLock] \in Showing
        BY <3>1 DEF ArrayLockInv
      <4>2. CanRun(stateChangeLock)
        BY <3>1, <4>1 DEF CanRun, Running, WaitsForFork, WaitsForArray,
                          Saying, Showing
      <4> QED
        BY <3>1, <4>2
    <3> QED
      BY <3>1 DEF TypeOK
  \* So whoever runs waits for a fork, and a neighbour has it.
  <2>2. \A p \in Phil : Running(p) =>
            \/ pc[p] = "lockLeft" /\ forkLocks[Left(p)] \in Phil
            \/ pc[p] = "lockRight" /\ forkLocks[Right(p)] \in Phil
    <3>1. mainPc # "exit"
      BY DEF MainInv, Running
    <3> QED
      BY <2>1, <3>1 DEF CanRun, WaitsForFork, WaitsForArray, MainInv, TypeOK
  \* Who has a fork has its first one only, and waits for the second.
  <2>3. \A q \in Phil, f \in Fork : forkLocks[f] = q =>
            \/ Even(q) /\ f = Right(q) /\ forkLocks[q] \in Phil \ {q}
            \/ ~Even(q) /\ f = q /\ forkLocks[Right(q)] \in Phil \ {q}
    <3> SUFFICES ASSUME NEW q \in Phil, NEW f \in Fork, forkLocks[f] = q
                 PROVE  \/ Even(q) /\ f = Right(q) /\ forkLocks[q] \in Phil \ {q}
                        \/ ~Even(q) /\ f = q /\ forkLocks[Right(q)] \in Phil \ {q}
      OBVIOUS
    <3>1. \/ f = q /\ HoldsLeft(q)
          \/ f = Right(q) /\ HoldsRight(q)
      BY DEF BesideInv, ForkInv, Left
    <3>2. Running(q)
      BY <3>1 DEF HoldsLeft, HoldsRight, BothForks, Running
    <3>3. CASE pc[q] = "lockLeft" /\ forkLocks[Left(q)] \in Phil
      BY <3>1, <3>3 DEF HoldsLeft, HoldsRight, BothForks, ForkInv, Left
    <3>4. CASE pc[q] = "lockRight" /\ forkLocks[Right(q)] \in Phil
      BY <3>1, <3>4 DEF HoldsLeft, HoldsRight, BothForks, ForkInv, Left
    <3> QED
      BY <2>2, <3>2, <3>3, <3>4
  \* No odd philosopher has a fork: its right neighbour would be odd too.
  <2>4. \A q \in Phil, f \in Fork : forkLocks[f] = q => Even(q)
    <3> SUFFICES ASSUME NEW q \in Phil, NEW f \in Fork, forkLocks[f] = q,
                        ~Even(q)
                 PROVE  FALSE
      OBVIOUS
    <3> DEFINE r == forkLocks[Right(q)]
    <3>1. r \in Phil /\ r # q
      BY <2>3
    <3>2. ~Even(r) /\ r = Right(q)
      BY <2>3, <3>1
    <3> QED
      BY <3>2, Parity
  \* An even one that has a fork waits for an even left neighbour, which is
  \* possible for philosopher 0 only.
  <2>5. \A q \in Phil, f \in Fork : forkLocks[f] = q =>
            /\ q = 0
            /\ forkLocks[q] \in Phil \ {q} /\ Right(forkLocks[q]) = q
    <3> SUFFICES ASSUME NEW q \in Phil, NEW f \in Fork, forkLocks[f] = q
                 PROVE  /\ q = 0
                        /\ forkLocks[q] \in Phil \ {q}
                        /\ Right(forkLocks[q]) = q
      OBVIOUS
    <3> DEFINE r == forkLocks[q]
    <3>1. r \in Phil \ {q} /\ Even(q)
      BY <2>3, <2>4
    <3>2. Even(r) /\ Right(r) = q
      BY <2>3, <2>4, <3>1
    <3> QED
      BY <3>1, <3>2, Parity
  <2>6. \E f \in Fork : forkLocks[f] \in Phil
    BY <2>2
  <2>7. PICK f \in Fork : forkLocks[f] \in Phil
    BY <2>6
  <2>8. 0 \in Fork /\ forkLocks[0] \in Phil \ {0}
    BY <2>5, <2>7
  <2>9. ASSUME NEW r \in Phil, forkLocks[0] = r PROVE r = 0
    BY <2>5, <2>8, <2>9
  <2> QED
    BY <2>8, <2>9
<1> QED
  BY <1>1, Invariance, PTL

-----------------------------------------------------------------------------
\* The row under a printing philosopher's eyes does not change, although two
\* writes of the array are made without the mutex.
THEOREM RowStable == Spec => RowIsStableWhilePrinted
<1> DEFINE Stable == \A p \in Phil : pc[p] \in Showing /\ pc'[p] = pc[p] =>
                        \A q \in Phil : Cell(q)' = Cell(q)
<1>1. ASSUME IInv, [Next]_vars PROVE [Stable]_vars
  <2> SUFFICES ASSUME NEW p \in Phil, pc[p] \in Showing, pc'[p] = pc[p],
                      NEW q \in Phil
               PROVE  Cell(q)' = Cell(q)
    OBVIOUS
  <2> USE <1>1, Known, RingFacts DEF Cell
  <2>1. stateChangeLock = p
    BY DEF ArrayLockInv
  <2>2. ASSUME NEW r \in Phil, Philosophize(r) PROVE Cell(q)' = Cell(q)
    <3>1. CASE Retire(r)
      BY <3>1 DEF Retire, Goto, StateInv, TypeOK
    <3>2. CASE EndCycle(r)
      BY <3>2 DEF EndCycle, Goto
    <3>3. CASE UNCHANGED array
      BY <3>3 DEF array
    <3>4. CASE stateChangeLock = None
      BY <2>1, <3>4
    <3>5. Retire(r) \/ EndCycle(r) \/ UNCHANGED array \/ stateChangeLock = None
      BY <2>2
         DEF Philosophize, BeginCycle, SnatchLeft, SnatchRight, SnatchFork,
             SayLeft, SayRight, SetLeft, SetRight, SayEating, SayEaten,
             SayThinking, SayThought, SetState, Announce, UnlockLeft,
             UnlockRight, DropFork, SayLeftDropped, SayRightDropped,
             PrintStateChange
    <3> QED
      BY <3>1, <3>2, <3>3, <3>4, <3>5
  <2>3. CASE Main \/ Ended \/ UNCHANGED vars
    BY <2>3 DEF Main, PrintFirstRow, CreateThread, JoinThread, Cleanup,
                Ended, vars, array
  <2> QED
    BY <2>2, <2>3 DEF Next
<1> QED
  BY <1>1, Invariance, PTL DEF Spec, RowIsStableWhilePrinted
-----------------------------------------------------------------------------
\* A step that moves p alone, keeps who eats and keeps the meals p is owed, is
\* a stutter of the table.
LEMMA QuietStep ==
    ASSUME NEW p \in Phil,
           \A q \in Phil \ {p} : /\ pc'[q] = pc[q] /\ cyclesLeft'[q] = cyclesLeft[q]
                                 /\ state'[q] = state[q],
           state'[p] = "EATING" <=> state[p] = "EATING",
           \/ /\ pc'[p] \in AfterMeal <=> pc[p] \in AfterMeal
              /\ cyclesLeft'[p] = cyclesLeft[p]
           \/ /\ pc[p] \in AfterMeal /\ pc'[p] \notin AfterMeal
              /\ cyclesLeft'[p] = cyclesLeft[p] - 1
              /\ cyclesLeft[p] \in Int
    PROVE  UNCHANGED <<Eating, Owed>>
<1>1. \A q \in Phil : state'[q] = "EATING" <=> state[q] = "EATING"
  OBVIOUS
<1>2. Eating' = Eating
  BY <1>1 DEF Eating
<1>3. ASSUME NEW q \in Phil
      PROVE  cyclesLeft'[q] - (IF pc'[q] \in AfterMeal THEN 1 ELSE 0)
               = cyclesLeft[q] - (IF pc[q] \in AfterMeal THEN 1 ELSE 0)
  BY <1>3
<1>4. Owed' = Owed
  BY <1>3 DEF Owed
<1> QED
  BY <1>2, <1>4

\* Each step of a philosopher is a step of the table or a stutter of it.
LEMMA PhilosophizeImplements ==
    ASSUME IInv, NEW p \in Phil, Philosophize(p)
    PROVE  \/ Table!BeginMeal(p) \/ Table!EndMeal(p)
           \/ UNCHANGED <<Eating, Owed>>
<1> USE Known, RingFacts DEF TypeOK
<1>1. CASE SayEating(p)
  <2>1. p \notin Eating /\ Eating' = Eating \cup {p}
    BY <1>1 DEF SayEating, SetState, Announce, Goto, StateInv, Eating
  <2>2. Owed' = Owed /\ Owed[p] > 0
    <3>1. /\ pc[p] = "sayEating" /\ pc' = [pc EXCEPT ![p] = "showEating"]
          /\ cyclesLeft' = cyclesLeft
      BY <1>1 DEF SayEating, SetState, Announce, Goto
    <3>2. \A q \in Phil : pc'[q] \in AfterMeal <=> pc[q] \in AfterMeal
      BY <3>1 DEF AfterMeal
    <3>3. Owed' = Owed
      BY <3>1, <3>2 DEF Owed
    <3>4. Owed[p] = cyclesLeft[p] - 0 /\ cyclesLeft[p] > 0
      BY <3>1 DEF Owed, AfterMeal, CycleInv
    <3> QED
      BY <3>3, <3>4
  <2>3. forkLocks[p] = p /\ forkLocks[Right(p)] = p
    BY <1>1 DEF SayEating, SetState, Announce, Goto, ForkInv, HoldsLeft,
                HoldsRight, BothForks, Left
  <2>4. ASSUME NEW e \in Eating PROVE e # Right(p) /\ p # Right(e)
    <3>1. e \in Phil /\ e # p /\ pc[e] \in {"showEating", "sayEaten"}
      BY <1>1 DEF Eating, StateInv, SayEating, SetState, Announce, Goto
    <3>2. forkLocks[e] = e /\ forkLocks[Right(e)] = e
      BY <3>1 DEF ForkInv, HoldsLeft, HoldsRight, BothForks, Left
    <3> QED
      BY <2>3, <3>1, <3>2
  <2> QED
    BY <2>1, <2>2, <2>4 DEF Table!BeginMeal, Table!Neighbours, Eating, Owed
<1>2. CASE SayEaten(p)
  <2>1. /\ pc[p] = "sayEaten" /\ pc' = [pc EXCEPT ![p] = "showEaten"]
        /\ cyclesLeft' = cyclesLeft /\ state' = [state EXCEPT ![p] = "CHANGING"]
    BY <1>2 DEF SayEaten, SetState, Announce, Goto
  <2>2. p \in Eating /\ Eating' = Eating \ {p}
    BY <2>1 DEF StateInv, Eating
  <2>3. Owed' = [Owed EXCEPT ![p] = @ - 1]
    <3>1. \A q \in Phil \ {p} : pc'[q] = pc[q]
      BY <2>1
    <3>2. pc[p] \notin AfterMeal /\ pc'[p] \in AfterMeal
      BY <2>1 DEF AfterMeal
    <3>3. Owed'[p] = cyclesLeft[p] - 1 /\ Owed[p] = cyclesLeft[p] - 0
      BY <2>1, <3>2 DEF Owed
    <3>4. \A q \in Phil \ {p} : Owed'[q] = Owed[q]
      BY <2>1, <3>1 DEF Owed
    <3>5. Owed \in [Phil -> Int] /\ Owed' \in [Phil -> Int]
      BY <2>1 DEF Owed
    <3> QED
      BY <3>3, <3>4, <3>5
  <2> QED
    BY <2>2, <2>3 DEF Table!EndMeal, Eating, Owed
<1>3. CASE ~SayEating(p) /\ ~SayEaten(p)
  <2>1. /\ \A q \in Phil \ {p} :
              /\ pc'[q] = pc[q] /\ cyclesLeft'[q] = cyclesLeft[q]
              /\ state'[q] = state[q]
        /\ state'[p] = "EATING" <=> state[p] = "EATING"
        /\ \/ /\ pc'[p] \in AfterMeal <=> pc[p] \in AfterMeal
              /\ cyclesLeft'[p] = cyclesLeft[p]
           \/ /\ pc[p] \in AfterMeal /\ pc'[p] \notin AfterMeal
              /\ cyclesLeft'[p] = cyclesLeft[p] - 1
              /\ cyclesLeft[p] \in Int
    <3> USE <1>3 DEF Goto, AfterMeal, StateInv
    <3>1. CASE BeginCycle(p) \/ Retire(p) \/ EndCycle(p)
      BY <3>1 DEF BeginCycle, Retire, EndCycle, array
    <3>2. CASE SnatchLeft(p) \/ SnatchRight(p) \/ UnlockLeft(p) \/ UnlockRight(p)
      BY <3>2 DEF SnatchLeft, SnatchRight, SnatchFork, UnlockLeft, UnlockRight,
                  DropFork, array
    <3>3. CASE SayLeft(p) \/ SayRight(p) \/ SayLeftDropped(p)
               \/ SayRightDropped(p)
      BY <3>3 DEF SayLeft, SayRight, SayLeftDropped, SayRightDropped, SetLeft,
                  SetRight, Announce
    <3>4. CASE SayThinking(p) \/ SayThought(p)
      BY <3>4 DEF SayThinking, SayThought, SetState, Announce
    <3>5. CASE PrintStateChange(p)
      BY <3>5 DEF PrintStateChange, ReturnLabel, Showing, array
    <3> QED
      BY <1>3, <3>1, <3>2, <3>3, <3>4, <3>5 DEF Philosophize
  <2> QED
    BY <2>1, QuietStep
<1> QED
  BY <1>1, <1>2, <1>3

\* The program keeps the safety part of the abstract table: diners begin a
\* meal they are owed, next to nobody who eats, and each meal is counted once.
THEOREM TableSafety == Spec => Table!TableInit /\ [][Table!TableNext]_(Table!tvars)
<1>1. Init => Table!TableInit
  BY CyclesAssumption DEF Init, Table!TableInit, AfterMeal, Eating, Owed
<1> USE DEF Table!tvars
<1>2. ASSUME IInv, [Next]_vars
      PROVE  [Table!TableNext]_(Table!tvars)
  <2>1. CASE \E p \in Phil : Philosophize(p)
    BY <1>2, <2>1, PhilosophizeImplements DEF Table!TableNext
  <2>2. CASE Main
    <3>1. state' = state /\ cyclesLeft' = cyclesLeft
      BY <2>2 DEF Main, PrintFirstRow, CreateThread, JoinThread, Cleanup, array
    <3>2. \A p \in Phil : pc'[p] \in AfterMeal <=> pc[p] \in AfterMeal
      <4>1. CASE CreateThread
        <5>1. ndx \in Phil /\ pc[ndx] = "unborn"
          BY <1>2, <4>1, Known, NAssumption
             DEF CreateThread, TypeOK, MainInv, Phil
        <5>2. \A p \in Phil : pc'[p] = IF p = ndx THEN "loop" ELSE pc[p]
          BY <1>2, <4>1, <5>1, Known DEF CreateThread, TypeOK
        <5> QED
          BY <5>1, <5>2 DEF AfterMeal
      <4>2. CASE pc' = pc
        BY <4>2
      <4> QED
        BY <2>2, <4>1, <4>2 DEF Main, PrintFirstRow, JoinThread, Cleanup
    <3> QED
      BY <3>1, <3>2 DEF Eating, Owed
  <2>3. CASE Ended \/ UNCHANGED vars
    BY <2>3 DEF Ended, vars, array, Eating, Owed
  <2> QED
    BY <1>2, <2>1, <2>2, <2>3 DEF Next
<1> QED
  BY <1>1, <1>2, Invariance, PTL DEF Spec
=============================================================================
