----------------------------- MODULE DiningInv -----------------------------
(***************************************************************************)
(* The inductive invariant of Dining: what relates each mutex, each entry  *)
(* of philosophers[] and main's loop index to where the threads are.       *)
(* DiningProofs proves it for every N and NumCycles.                       *)
(***************************************************************************)
EXTENDS Dining

\* The owner of a fork is the philosopher beside it whose thread is between
\* the lock and the unlock.
ForkInv ==
    \A p \in Phil :
        /\ HoldsLeft(p) <=> forkLocks[Left(p)] = p
        /\ HoldsRight(p) <=> forkLocks[Right(p)] = p

BesideInv ==
    \A f \in Fork : forkLocks[f] \in Phil =>
        f = Left(forkLocks[f]) \/ f = Right(forkLocks[f])

\* The owner of stateChangeLock is the one philosopher that prints.
ArrayLockInv == \A p \in Phil : pc[p] \in Showing <=> stateChangeLock = p

\* A hand shows its fork from the announcement to the announcement that it is
\* dropped, which comes after the unlock.
ShowsLeft(p) ==
    \/ pc[p] \in BothForks \cup {"showLeft", "sayLeftDropped"}
    \/ ~Even(p) /\ pc[p] \in {"lockRight", "sayRight", "showRight"}

ShowsRight(p) ==
    \/ pc[p] \in BothForks \cup {"showRight", "sayLeftDropped",
                                "showLeftDropped", "unlockRight",
                                "sayRightDropped"}
    \/ Even(p) /\ pc[p] \in {"lockLeft", "sayLeft", "showLeft"}

HandInv ==
    \A p \in Phil :
        /\ hasLeftFork[p] = IF ShowsLeft(p) THEN Left(p) ELSE None
        /\ hasRightFork[p] = IF ShowsRight(p) THEN Right(p) ELSE None

StateInv ==
    \A p \in Phil :
        /\ state[p] = "EATING" <=> pc[p] \in {"showEating", "sayEaten"}
        /\ state[p] = "THINKING" <=> pc[p] \in {"showThinking", "sayThought"}

\* A thread inside a round has that round still to count.
CycleInv ==
    \A p \in Phil :
        /\ pc[p] \notin {"unborn", "loop", "exited"} => cyclesLeft[p] > 0
        /\ pc[p] = "exited" => cyclesLeft[p] = 0

MainInv ==
    /\ mainPc = "print" => ndx = 0
    /\ \A p \in Phil :
          /\ pc[p] = "unborn" <=>
                mainPc = "print" \/ (mainPc = "create" /\ ndx <= p)
          /\ mainPc = "join" /\ p < ndx => pc[p] = "exited"
          /\ mainPc \in {"cleanup", "exit"} => pc[p] = "exited"
    /\ \A f \in Fork : forkLocks[f] = Destroyed <=> mainPc = "exit"

IInv ==
    /\ TypeOK
    /\ ForkInv
    /\ BesideInv
    /\ ArrayLockInv
    /\ HandInv
    /\ StateInv
    /\ CycleInv
    /\ MainInv
=============================================================================
