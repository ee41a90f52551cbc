------------------------------- MODULE Dining -------------------------------
(***************************************************************************)
(* The dining philosophers of src/assignments/program3/dining.c: one       *)
(* POSIX thread per philosopher, one mutex per fork, one mutex             *)
(* (stateChangeLock) around the shared philosophers[] array, and a main    *)
(* thread that creates the philosophers, joins them and destroys the       *)
(* forks.                                                                  *)
(*                                                                         *)
(* Philosopher p sits between fork Left(p) and fork Right(p).  Even ones   *)
(* take the right fork first, odd ones the left fork.  A step of the model *)
(* runs from one blocking call to the next: pthread_mutex_lock is a step   *)
(* whose guard is that the mutex is free.  The assignment made under       *)
(* stateChangeLock belongs to the step that takes it, the printing belongs *)
(* to the step that releases it, and everybody else may run in between.    *)
(***************************************************************************)
EXTENDS Integers

CONSTANTS
    N,          \* NUM_PHILOSOPHERS
    NumCycles   \* the command line argument, DEFAULT_NUM_CYCLES without one

\* With one philosopher both forks are the same mutex and the second
\* pthread_mutex_lock never returns, so the program needs at least two.
ASSUME NAssumption == N \in Nat /\ N >= 2
ASSUME CyclesAssumption == NumCycles \in Nat

Phil == 0 .. N - 1
Fork == 0 .. N - 1
None == -1          \* a free mutex; an empty hand in hasLeftFork, hasRightFork
Destroyed == -2     \* a mutex after pthread_mutex_destroy

VARIABLES
    forkLocks,          \* who holds each fork's mutex
    stateChangeLock,    \* who holds the mutex of the philosophers[] array
    state, hasLeftFork, hasRightFork, cyclesLeft,  \* philosophers[]
    pc,                 \* where each philosopher's thread is
    mainPc, ndx         \* where main is, and its loop index

array == <<state, hasLeftFork, hasRightFork, cyclesLeft>>
vars  == <<forkLocks, stateChangeLock, array, pc, mainPc, ndx>>

Left(p)  == p
Right(p) == IF p + 1 = N THEN 0 ELSE p + 1
AlwaysEven(p) == TRUE       \* a slip: everybody takes the right fork first
Even(p)  == p % 2 = 0

-----------------------------------------------------------------------------
\* Labels of a philosopher's thread.  At a Saying label it is about to lock
\* stateChangeLock; at a Showing label it is inside printStateChange, with
\* that mutex held.
Saying  == {"sayLeft", "sayRight", "sayEating", "sayEaten",
            "sayLeftDropped", "sayRightDropped", "sayThinking", "sayThought"}
Showing == {"showLeft", "showRight", "showEating", "showEaten",
            "showLeftDropped", "showRightDropped", "showThinking",
            "showThought"}
Labels  == Saying \cup Showing \cup
           {"unborn", "loop", "lockLeft", "lockRight",
            "unlockLeft", "unlockRight", "endCycle", "exited"}

\* Where printStateChange returns to.
ReturnLabel(p) ==
    CASE pc[p] = "showLeft"         -> IF Even(p) THEN "sayEating" ELSE "lockRight"
      [] pc[p] = "showRight"        -> IF Even(p) THEN "lockLeft" ELSE "sayEating"
      [] pc[p] = "showEating"       -> "sayEaten"
      [] pc[p] = "showEaten"        -> "unlockLeft"
      [] pc[p] = "showLeftDropped"  -> "unlockRight"
      [] pc[p] = "showRightDropped" -> "sayThinking"
      [] pc[p] = "showThinking"     -> "sayThought"
      [] OTHER                      -> "endCycle"

-----------------------------------------------------------------------------
\* main has run setupPhilosophers and is about to print the first row.
Init ==
    /\ forkLocks = [f \in Fork |-> None]
    /\ stateChangeLock = None
    /\ state = [p \in Phil |-> "CHANGING"]
    /\ hasLeftFork = [p \in Phil |-> None]
    /\ hasRightFork = [p \in Phil |-> None]
    /\ cyclesLeft = [p \in Phil |-> NumCycles]
    /\ pc = [p \in Phil |-> "unborn"]
    /\ mainPc = "print"
    /\ ndx = 0

Goto(p, from, to) ==
    /\ pc[p] = from
    /\ pc' = [pc EXCEPT ![p] = to]
    /\ UNCHANGED <<mainPc, ndx>>

\* A slip: the loop tests cyclesLeft at its end instead of its start.
BeginUnowedCycle(p) ==
    /\ Goto(p, "loop", IF Even(p) THEN "lockRight" ELSE "lockLeft")
    /\ UNCHANGED <<forkLocks, stateChangeLock, array>>

\* The loop test of philosophize(): another round, or the thread ends.  The
\* write of DONE is made without stateChangeLock.
BeginCycle(p) ==
    /\ cyclesLeft[p] # 0
    /\ Goto(p, "loop", IF Even(p) THEN "lockRight" ELSE "lockLeft")
    /\ UNCHANGED <<forkLocks, stateChangeLock, array>>

Retire(p) ==
    /\ cyclesLeft[p] = 0
    /\ Goto(p, "loop", "exited")
    /\ state' = [state EXCEPT ![p] = "DONE"]
    /\ UNCHANGED <<forkLocks, stateChangeLock, hasLeftFork, hasRightFork,
                   cyclesLeft>>

\* A slip: pthread_mutex_trylock with its result ignored.
GrabFork(p, f) ==
    /\ forkLocks' = [forkLocks EXCEPT ![f] = p]
    /\ UNCHANGED <<stateChangeLock, array>>

\* snatchFork: block until the mutex of the fork is free, then own it.
SnatchFork(p, f) ==
    /\ forkLocks[f] = None
    /\ forkLocks' = [forkLocks EXCEPT ![f] = p]
    /\ UNCHANGED <<stateChangeLock, array>>

SnatchLeft(p)  == Goto(p, "lockLeft", "sayLeft") /\ SnatchFork(p, Left(p))
SnatchRight(p) == Goto(p, "lockRight", "sayRight") /\ SnatchFork(p, Right(p))

\* A slip: an announcement that does not wait for stateChangeLock.
Interrupt(p, from, to) ==
    /\ Goto(p, from, to)
    /\ stateChangeLock' = p
    /\ UNCHANGED <<forkLocks, cyclesLeft>>

\* The common head of every announcement: lock stateChangeLock, or block.
Announce(p, from, to) ==
    /\ Goto(p, from, to)
    /\ stateChangeLock = None
    /\ stateChangeLock' = p
    /\ UNCHANGED <<forkLocks, cyclesLeft>>

SetLeft(p, from, to, f) ==
    /\ Announce(p, from, to)
    /\ hasLeftFork' = [hasLeftFork EXCEPT ![p] = f]
    /\ UNCHANGED <<state, hasRightFork>>

SetRight(p, from, to, f) ==
    /\ Announce(p, from, to)
    /\ hasRightFork' = [hasRightFork EXCEPT ![p] = f]
    /\ UNCHANGED <<state, hasLeftFork>>

SetState(p, from, to, s) ==
    /\ Announce(p, from, to)
    /\ state' = [state EXCEPT ![p] = s]
    /\ UNCHANGED <<hasLeftFork, hasRightFork>>

SayLeft(p)  == SetLeft(p, "sayLeft", "showLeft", Left(p))
SayRight(p) == SetRight(p, "sayRight", "showRight", Right(p))

\* eat() and think(): announce, dawdle, announce again.
SayEating(p)   == SetState(p, "sayEating", "showEating", "EATING")
SayEaten(p)    == SetState(p, "sayEaten", "showEaten", "CHANGING")
SayThinking(p) == SetState(p, "sayThinking", "showThinking", "THINKING")
SayThought(p)  == SetState(p, "sayThought", "showThought", "CHANGING")

\* A slip: printStateChange without its last line.
PrintAndKeepLock(p) ==
    /\ pc[p] \in Showing
    /\ Goto(p, pc[p], ReturnLabel(p))
    /\ UNCHANGED <<forkLocks, stateChangeLock, array>>

\* printStateChange(): prints the whole array, then unlocks the mutex that
\* its caller has locked.
PrintStateChange(p) ==
    /\ pc[p] \in Showing
    /\ Goto(p, pc[p], ReturnLabel(p))
    /\ stateChangeLock' = None
    /\ UNCHANGED <<forkLocks, array>>

\* dropForks(): each mutex is released first and the empty hand is announced
\* afterwards.
DropFork(f) ==
    /\ forkLocks' = [forkLocks EXCEPT ![f] = None]
    /\ UNCHANGED <<stateChangeLock, array>>

\* Slips: the empty hand written together with the unlock, without
\* stateChangeLock, or never; the wrong fork released.
UnlockAndEmptyLeft(p) ==
    /\ Goto(p, "unlockLeft", "sayLeftDropped")
    /\ forkLocks' = [forkLocks EXCEPT ![Left(p)] = None]
    /\ hasLeftFork' = [hasLeftFork EXCEPT ![p] = None]
    /\ UNCHANGED <<stateChangeLock, state, hasRightFork, cyclesLeft>>
UnlockLeftUnsaid(p) == Goto(p, "unlockLeft", "unlockRight") /\ DropFork(Left(p))
UnlockLeftTwice(p) == Goto(p, "unlockRight", "sayRightDropped") /\ DropFork(Left(p))

UnlockLeft(p)  == Goto(p, "unlockLeft", "sayLeftDropped") /\ DropFork(Left(p))
UnlockRight(p) == Goto(p, "unlockRight", "sayRightDropped") /\ DropFork(Right(p))
SayLeftDropped(p)  == SetLeft(p, "sayLeftDropped", "showLeftDropped", None)
SayRightDropped(p) == SetRight(p, "sayRightDropped", "showRightDropped", None)

\* A slip: the round is not counted.
EndCycleUncounted(p) ==
    /\ Goto(p, "endCycle", "loop")
    /\ UNCHANGED <<forkLocks, stateChangeLock, array>>

\* me->cyclesLeft--, again without stateChangeLock.
EndCycle(p) ==
    /\ Goto(p, "endCycle", "loop")
    /\ cyclesLeft' = [cyclesLeft EXCEPT ![p] = @ - 1]
    /\ UNCHANGED <<forkLocks, stateChangeLock, state, hasLeftFork, hasRightFork>>

Philosophize(p) ==
    \/ BeginCycle(p) \/ Retire(p)
    \/ SnatchLeft(p) \/ SnatchRight(p)
    \/ SayLeft(p) \/ SayRight(p)
    \/ SayEating(p) \/ SayEaten(p)
    \/ UnlockLeft(p) \/ SayLeftDropped(p)
    \/ UnlockRight(p) \/ SayRightDropped(p)
    \/ SayThinking(p) \/ SayThought(p)
    \/ PrintStateChange(p)
    \/ EndCycle(p)

-----------------------------------------------------------------------------
\* The main thread.  Its call of printStateChange unlocks a mutex that nobody
\* has locked, which POSIX leaves undefined; what pthreads make of it is a mutex
\* that is free, or an error number, which safe_unlock does not look for.
PrintFirstRow ==
    /\ mainPc = "print"
    /\ mainPc' = "create"
    /\ stateChangeLock' = None
    /\ UNCHANGED <<forkLocks, array, pc, ndx>>

\* A slip: the loop runs to N instead of N - 1.
AdvanceTooFar(label, next) ==
    /\ mainPc' = IF ndx = N THEN next ELSE label
    /\ ndx' = IF ndx = N THEN 0 ELSE ndx + 1

\* The next value of main's loop index, and the label once the loop ends.
Advance(label, next) ==
    /\ mainPc' = IF ndx + 1 = N THEN next ELSE label
    /\ ndx' = IF ndx + 1 = N THEN 0 ELSE ndx + 1

CreateThread ==
    /\ mainPc = "create"
    /\ pc' = [pc EXCEPT ![ndx] = "loop"]
    /\ Advance("create", "join")
    /\ UNCHANGED <<forkLocks, stateChangeLock, array>>

\* A slip: main does not wait for the thread it joins.
JoinAtOnce ==
    /\ mainPc = "join"
    /\ Advance("join", "cleanup")
    /\ UNCHANGED <<forkLocks, stateChangeLock, array, pc>>

JoinThread ==
    /\ mainPc = "join"
    /\ pc[ndx] = "exited"
    /\ Advance("join", "cleanup")
    /\ UNCHANGED <<forkLocks, stateChangeLock, array, pc>>

\* cleanup() destroys the mutexes of the forks, and the process ends.
Cleanup ==
    /\ mainPc = "cleanup"
    /\ forkLocks' = [f \in Fork |-> Destroyed]
    /\ mainPc' = "exit"
    /\ UNCHANGED <<stateChangeLock, array, pc, ndx>>

Main == PrintFirstRow \/ CreateThread \/ JoinThread \/ Cleanup

\* The process has ended; the disjunct tells this from a deadlock.
Ended == mainPc = "exit" /\ UNCHANGED vars

Next == Main \/ (\E p \in Phil : Philosophize(p)) \/ Ended

\* The operating system runs every thread that can run.  Nothing is assumed
\* about the order in which a mutex is granted to the threads waiting for it.
Fairness == WF_vars(Main) /\ \A p \in Phil : WF_vars(Philosophize(p))

Spec     == Init /\ [][Next]_vars
FairSpec == Spec /\ Fairness
-----------------------------------------------------------------------------
(***************************************************************************)
(* Properties.                                                             *)
(***************************************************************************)
\* The labels at which p's thread owns the mutex of a fork: between its lock
\* and its unlock, whichever fork it takes first.
BothForks == {"sayEating", "showEating", "sayEaten", "showEaten", "unlockLeft"}

HoldsLeft(p) ==
    \/ pc[p] \in BothForks \cup {"sayLeft", "showLeft"}
    \/ ~Even(p) /\ pc[p] \in {"lockRight", "sayRight", "showRight"}

HoldsRight(p) ==
    \/ pc[p] \in BothForks \cup {"sayRight", "showRight", "sayLeftDropped",
                                "showLeftDropped", "unlockRight"}
    \/ Even(p) /\ pc[p] \in {"lockLeft", "sayLeft", "showLeft"}

\* Every variable keeps its type.
TypeOK ==
    /\ forkLocks \in [Fork -> Phil \cup {None, Destroyed}]
    /\ stateChangeLock \in Phil \cup {None}
    /\ state \in [Phil -> {"EATING", "THINKING", "CHANGING", "DONE"}]
    /\ hasLeftFork \in [Phil -> Fork \cup {None}]
    /\ hasRightFork \in [Phil -> Fork \cup {None}]
    /\ cyclesLeft \in [Phil -> 0 .. NumCycles]
    /\ pc \in [Phil -> Labels]
    /\ mainPc \in {"print", "create", "join", "cleanup", "exit"}
    /\ ndx \in 0 .. N - 1

\* Two neighbours are never both EATING in philosophers[], and one who is
\* EATING there has both its forks, in its hands and by their mutexes.
NeighboursNeverEatTogether ==
    \A p \in Phil : state[p] = "EATING" =>
        /\ state[Right(p)] # "EATING"
        /\ <<hasLeftFork[p], hasRightFork[p]>> = <<Left(p), Right(p)>>
        /\ forkLocks[Left(p)] = p /\ forkLocks[Right(p)] = p

\* No unlock takes a mutex away from another thread.  A philosopher unlocks
\* what it owns: a fork in dropForks, the mutex of the array in
\* printStateChange.  main owns nothing: its own call of printStateChange
\* unlocks a mutex that nobody has locked, before there is a thread to lock it.
NobodyLosesAMutex ==
    /\ \A p \in Phil :
          /\ pc[p] = "unlockLeft" => forkLocks[Left(p)] = p
          /\ pc[p] = "unlockRight" => forkLocks[Right(p)] = p
          /\ pc[p] \in Showing => stateChangeLock = p
    /\ mainPc = "print" =>
          stateChangeLock = None /\ \A p \in Phil : pc[p] = "unborn"

\* cleanup() destroys the mutexes only when they are all free and no thread
\* is left to lock one.
CleanupIsSafe ==
    mainPc \in {"cleanup", "exit"} =>
        /\ \A p \in Phil : pc[p] = "exited" /\ cyclesLeft[p] = 0
        /\ \A f \in Fork : forkLocks[f] = IF mainPc = "exit" THEN Destroyed
                                                           ELSE None

\* A thread cannot run when the mutex it is about to lock is taken.
WaitsForFork(p) ==
    \/ pc[p] = "lockLeft" /\ forkLocks[Left(p)] # None
    \/ pc[p] = "lockRight" /\ forkLocks[Right(p)] # None
WaitsForArray(p) == pc[p] \in Saying /\ stateChangeLock # None
Running(p) == pc[p] \notin {"unborn", "exited"}
CanRun(p)  == Running(p) /\ ~WaitsForFork(p) /\ ~WaitsForArray(p)

\* The philosophers are never all stuck waiting for each other: while one is
\* in the middle of its life, one of them can take a step.
NoGridlock == (\E p \in Phil : Running(p)) => (\E p \in Phil : CanRun(p))

\* dropForks releases a fork before it empties the hand, so philosophers[] can
\* show one fork in the hands of two neighbours, but only while one of them is
\* about to say that it has dropped it.
ForkInTwoHandsIsBeingDropped ==
    \A p \in Phil :
        hasRightFork[p] # None /\ hasRightFork[p] = hasLeftFork[Right(p)] =>
            \/ pc[p] = "sayRightDropped"
            \/ pc[Right(p)] = "sayLeftDropped"

\* What a philosopher's cell of a printed row shows.  CHANGING and DONE are
\* both printed as blanks.
Cell(p) ==
    <<hasLeftFork[p], hasRightFork[p],
      IF state[p] \in {"EATING", "THINKING"} THEN state[p] ELSE "">>

\* While one philosopher prints the row, no step of another changes a cell:
\* the only write made without stateChangeLock that printStateChange could
\* see, DONE, prints as the CHANGING it replaces.
RowIsStableWhilePrinted ==
    [][\A p \in Phil : pc[p] \in Showing /\ pc'[p] = pc[p] =>
            \A q \in Phil : Cell(q)' = Cell(q)]_vars

\* The program ends: every philosopher eats and thinks NumCycles times and
\* main returns.
Termination == <>(mainPc = "exit")

\* A philosopher who has begun a round gets to eat.
HungryEats ==
    \A p \in Phil : pc[p] \in {"lockLeft", "lockRight"} ~> state[p] = "EATING"

\* The program is a table of diners: a diner eats while its state is EATING
\* and is owed its remaining cycles, less the one whose meal is over.
AfterMeal == {"showEaten", "unlockLeft", "sayLeftDropped", "showLeftDropped",
              "unlockRight", "sayRightDropped", "showRightDropped",
              "sayThinking", "showThinking", "sayThought", "showThought",
              "endCycle"}

Eating == {p \in Phil : state[p] = "EATING"}
Owed   == [p \in Phil |-> cyclesLeft[p] - (IF pc[p] \in AfterMeal THEN 1 ELSE 0)]

Table == INSTANCE DiningTable WITH
    Diner  <- Phil,
    Meals  <- NumCycles,
    Next_  <- Right,
    eating <- Eating,
    owed   <- Owed

\* Fed in turn, nobody next to an eater, nobody forgotten: the program
\* implements the table.
ImplementsTable == Table!TableSpec
=============================================================================
