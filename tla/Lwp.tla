-------------------------------- MODULE Lwp --------------------------------
(***************************************************************************)
(* The lightweight processes of                                            *)
(* src/assignments/assignments/program2/lwp_main.c: cooperative threads    *)
(* that main and the threads create, a library list of them linked through *)
(* lib_one, and a default scheduler that links the same structures through *)
(* sched_one, in place of which a program can plug in one of its own.      *)
(*                                                                         *)
(* One processor: main, a thread, or the loop of lwp_start runs.  A call   *)
(* of the library is a step; swap_rfiles ends the step of the caller and   *)
(* hands the processor over.  A structure is an address, which calloc may  *)
(* hand out again after free; what a freed one holds stays in its fields.  *)
(***************************************************************************)
EXTENDS Integers, FiniteSets, Sequences, Functions

CONSTANTS
    Addr,           \* where calloc can place a thread structure
    NULL,
    Scheduler,      \* the schedulers a program can plug in
    Resets,         \* of those, the ones whose shutdown() empties their pool,
    Inits,          \* the ones whose init() starts with an empty pool,
    Links,          \* and the ones that keep links of theirs in sched_one
    MaxTid          \* bound: lwp_create is called until this id is given out

ASSUME AddrAssumption == IsFiniteSet(Addr)
ASSUME NULLAssumption == NULL \notin Addr /\ NULL \notin Scheduler
ASSUME KindsAssumption ==
    Resets \subseteq Scheduler /\ Inits \subseteq Scheduler /\ Links \subseteq Scheduler
ASSUME MaxTidAssumption == MaxTid \in Nat /\ MaxTid >= 1

VARIABLES
    live,           \* the structures allocated and not freed
    tid, lib_one, sched_one,            \* their fields
    head_lib,                           \* threadListHead_lib
    head_sched, tail_sched,             \* threadListHead_sched, ...Tail_sched
    currThreadID, currentThread, currScheduler, stopFlag, yieldFlag,
    pool,           \* the threads each plugged-in scheduler holds
    where,          \* who runs: main, the currentThread, lwp_start's loop
    dropped,        \* history: whether a shutdown() or an init() emptied a pool
    handed          \* history: whether the default list is as it was handed
                    \* over, with nobody admitted or run since

sched == [head |-> head_sched, tail |-> tail_sched, one |-> sched_one]
lib   == [head |-> head_lib, one |-> lib_one]
vars  == <<live, tid, lib_one, sched_one, head_lib, head_sched, tail_sched,
           currThreadID, currentThread, currScheduler, stopFlag, yieldFlag,
           pool, where, dropped, handed>>

-----------------------------------------------------------------------------
(***************************************************************************)
(* The two linked lists, as functions of a list.                           *)
(***************************************************************************)
\* The structures a walk along `one' meets: the least set with the first one
\* that is closed under the link.
Chain(first, one) ==
    {a \in Addr : \A C \in SUBSET Addr :
        (first # NULL => first \in C) /\ (\A c \in C : one[c] \in C \cup {NULL})
        => a \in C}

\* What the search loops stop at: who comes before the victim, if anybody.  The
\* first such is the one whose walk has not passed the victim.
Before(victim, first, one) ==
    {p \in Chain(first, [one EXCEPT ![victim] = NULL]) : p # victim /\ one[p] = victim}

\* A search that neither finds the victim nor comes to an end.
Endless(victim, first, one) ==
    /\ first # NULL /\ Before(victim, first, one) = {}
    /\ \A a \in Chain(first, one) : one[a] # NULL

\* The threads of the default list: those up to its tail, whatever the tail's
\* own link holds.
Ended(s) == IF s.tail = NULL THEN s ELSE [s EXCEPT !.one[s.tail] = NULL]
Listed == LET s == Ended(sched) IN Chain(s.head, s.one)

\* Slips: no rotation; the rotated head keeps its link.
RotateNever(s) == s
RotateLinked(s) ==
    IF s.head = NULL \/ s.one[s.head] = NULL THEN s
    ELSE LET linked == [s.one EXCEPT ![s.tail] = s.head] IN
         [head |-> linked[s.head], tail |-> s.head, one |-> linked]

\* defaultScheduler_next: the head, if there is another, becomes the tail.
Rotate(s) ==
    IF s.head = NULL \/ s.one[s.head] = NULL THEN s
    ELSE LET linked == [s.one EXCEPT ![s.tail] = s.head] IN
         [head |-> linked[s.head],
          tail |-> s.head,
          one  |-> [linked EXCEPT ![s.head] = NULL]]

\* A slip: the new thread in front of the others.
Push(s, t) ==
    IF s.tail = NULL THEN [s EXCEPT !.head = t, !.tail = t]
    ELSE [s EXCEPT !.head = t, !.one[t] = s.head]

\* defaultScheduler_admit.
Admit(s, t) ==
    IF s.tail = NULL THEN [s EXCEPT !.head = t, !.tail = t]
    ELSE [s EXCEPT !.tail = t, !.one[s.tail] = t]

\* Where defaultScheduler_remove looks for who comes before the victim.
SearchedFrom(s, victim) == IF victim = s.head THEN s.one[victim] ELSE s.head
RemoveHangs(s, victim) ==
    s.head # s.tail /\ Endless(victim, SearchedFrom(s, victim), s.one)

\* A slip: the tail still points to a victim that was last.
RemoveKeepingTail(s, victim) ==
    IF s.head = s.tail THEN [s EXCEPT !.head = NULL, !.tail = NULL]
    ELSE LET first == SearchedFrom(s, victim)
             prev  == Before(victim, first, s.one)
         IN [s EXCEPT !.head = first,
                      !.one  = [a \in Addr |-> IF a \in prev THEN s.one[victim]
                                                             ELSE s.one[a]]]

\* defaultScheduler_remove: the only one, whoever it is; or the victim and,
\* when a predecessor is found, its link and the tail.
Remove(s, victim) ==
    IF s.head = s.tail THEN [s EXCEPT !.head = NULL, !.tail = NULL]
    ELSE LET first == SearchedFrom(s, victim)
             prev  == Before(victim, first, s.one)
         IN IF prev = {} THEN [s EXCEPT !.head = first]
            ELSE LET p == CHOOSE p \in prev : TRUE IN
                 [head |-> first,
                  tail |-> IF victim = s.tail THEN p ELSE s.tail,
                  one  |-> [s.one EXCEPT ![p] = s.one[victim]]]

\* A slip: a thread that is not the first stays in the library's list.
LibRemoveFirst(l, victim) ==
    IF l.head = victim THEN [l EXCEPT !.head = l.one[victim]] ELSE l

\* libraryList_remove.
LibRemove(l, victim) ==
    IF l.head = victim THEN [l EXCEPT !.head = l.one[victim]]
    ELSE LET prev == Before(victim, l.head, l.one) IN
         IF prev = {} THEN l
         ELSE [l EXCEPT !.one[CHOOSE p \in prev : TRUE] = l.one[victim]]

SetSched(s) ==
    /\ head_sched' = s.head
    /\ tail_sched' = s.tail
    /\ sched_one' = s.one
    /\ handed' = "no"

-----------------------------------------------------------------------------
Init ==
    /\ live = {}
    /\ tid = [a \in Addr |-> 0]
    /\ lib_one = [a \in Addr |-> NULL]
    /\ sched_one = [a \in Addr |-> NULL]
    /\ head_lib = NULL
    /\ head_sched = NULL /\ tail_sched = NULL
    /\ currThreadID = 1
    /\ currentThread = NULL
    /\ currScheduler = NULL
    /\ stopFlag = FALSE /\ yieldFlag = FALSE
    /\ pool = [s \in Scheduler |-> {}]
    /\ where = "main"
    /\ dropped = "no" /\ handed = "no"

\* lwp_create, called by main or by a thread.  calloc zeroes the structure;
\* without memory there is none to place and nothing changes.
Create(t) ==
    /\ where \in {"main", "thread"}
    /\ currThreadID < MaxTid
    /\ t \notin live
    /\ live' = live \cup {t}
    /\ currThreadID' = currThreadID + 1
    /\ tid' = [tid EXCEPT ![t] = currThreadID + 1]
    /\ lib_one' = [lib_one EXCEPT ![t] = head_lib]
    /\ head_lib' = t
    /\ LET zeroed == [sched EXCEPT !.one[t] = NULL] IN
       IF currScheduler = NULL
       THEN SetSched(Admit(zeroed, t)) /\ UNCHANGED pool
       ELSE SetSched(zeroed) /\ pool' = [pool EXCEPT ![currScheduler] = @ \cup {t}]
    /\ UNCHANGED <<currentThread, currScheduler, stopFlag, yieldFlag, where, dropped>>

\* lwp_get_next, and what lwp_start does with the answer: switch to that
\* thread, or return to main.  s and held are the default list and the
\* plugged-in scheduler's threads.  Which of its threads that one chooses is
\* its own affair.
Dispatch(s, held) ==
    \/ /\ currScheduler = NULL
       /\ s.head # NULL
       /\ SetSched(Rotate(s))
       /\ currentThread' = s.head /\ where' = "thread"
    \/ /\ currScheduler # NULL
       /\ SetSched(s)
       /\ currentThread' \in held /\ where' = "thread"
    \/ /\ IF currScheduler = NULL THEN s.head = NULL ELSE held = {}
       /\ SetSched(s)
       /\ UNCHANGED currentThread /\ where' = "main"

Held == IF currScheduler = NULL THEN {} ELSE pool[currScheduler]

\* lwp_start, called by main.
Start ==
    /\ where = "main"
    /\ Dispatch(sched, Held)
    /\ UNCHANGED <<live, tid, lib_one, head_lib, currThreadID, currScheduler,
                   stopFlag, yieldFlag, pool, dropped>>

\* lwp_yield, lwp_stop and lwp_exit, called by the running thread: raise the
\* flag, if any, and switch back into lwp_start.
GiveUp(stop, yield) ==
    /\ where = "thread" /\ where' = "loop"
    /\ stopFlag' = (stopFlag \/ stop)
    /\ yieldFlag' = (yieldFlag \/ yield)
    /\ UNCHANGED <<live, tid, lib_one, sched_one, head_lib, head_sched,
                   tail_sched, currThreadID, currentThread, currScheduler, pool,
                   dropped, handed>>

Yield == GiveUp(FALSE, TRUE)
Stop  == GiveUp(TRUE, FALSE)
Exit  == GiveUp(FALSE, FALSE)

\* lwp_start after swap_rfiles.  Stopped: back to main, whatever yieldFlag
\* says.
ReturnStopped ==
    /\ where = "loop" /\ stopFlag
    /\ stopFlag' = FALSE
    /\ where' = "main"
    /\ UNCHANGED <<live, tid, lib_one, sched_one, head_lib, head_sched,
                   tail_sched, currThreadID, currentThread, currScheduler,
                   yieldFlag, pool, dropped, handed>>

\* The thread yielded: the next one's turn.
ResumeAfterYield ==
    /\ where = "loop" /\ ~stopFlag /\ yieldFlag
    /\ yieldFlag' = FALSE
    /\ Dispatch(sched, Held)
    /\ UNCHANGED <<live, tid, lib_one, head_lib, currThreadID, currScheduler,
                   stopFlag, pool, dropped>>

\* A slip: the exited thread is not taken from its scheduler.
ExitScheduled ==
    /\ where = "loop" /\ ~stopFlag /\ ~yieldFlag
    /\ LET left == LibRemove(lib, currentThread) IN
       head_lib' = left.head /\ lib_one' = left.one
    /\ tid' = [tid EXCEPT ![currentThread] = -1]
    /\ live' = live \ {currentThread}
    /\ Dispatch(sched, Held)
    /\ UNCHANGED <<currThreadID, currScheduler, stopFlag, yieldFlag, pool, dropped>>

\* The thread exited: out of the scheduler and of the library's list, freed,
\* and the next one's turn.  currentThread keeps pointing to it if there is
\* no next.
ResumeAfterExit ==
    /\ where = "loop" /\ ~stopFlag /\ ~yieldFlag
    /\ currScheduler = NULL => ~RemoveHangs(sched, currentThread)
    /\ LET left == LibRemove(lib, currentThread) IN
       head_lib' = left.head /\ lib_one' = left.one
    /\ tid' = [tid EXCEPT ![currentThread] = -1]
    /\ live' = live \ {currentThread}
    /\ IF currScheduler = NULL
       THEN /\ Dispatch(Remove(sched, currentThread), {})
            /\ UNCHANGED pool
       ELSE /\ Dispatch(sched, Held \ {currentThread})
            /\ pool' = [pool EXCEPT ![currScheduler] = @ \ {currentThread}]
    /\ UNCHANGED <<currThreadID, currScheduler, stopFlag, yieldFlag, dropped>>

\* The thread exited, and the search for it in the default list has no end:
\* a link that another scheduler left behind the tail leads back into the list.
SearchForExited ==
    /\ where = "loop" /\ ~stopFlag /\ ~yieldFlag
    /\ currScheduler = NULL /\ RemoveHangs(sched, currentThread)
    /\ where' = "hung"
    /\ UNCHANGED <<live, tid, lib_one, sched_one, head_lib, head_sched,
                   tail_sched, currThreadID, currentThread, currScheduler,
                   stopFlag, yieldFlag, pool, dropped, handed>>

-----------------------------------------------------------------------------
\* fun->init(), once the threads G are in the new scheduler's pool.
Admitted(new, G) == IF new \in Inits THEN {} ELSE pool[new] \cup G

\* The history of threads that go, of which those in kept come to their new pool.
Drop(going, kept) == dropped' = IF going \subseteq kept THEN dropped ELSE "yes"

\* A slip: the loop that empties the default list tests its thread at the end.
PlugInAtLeastOne(new) ==
    /\ where \in {"main", "thread"}
    /\ currScheduler = NULL
    /\ currScheduler' = new
    /\ pool' = [pool EXCEPT ![new] = @ \cup {head_sched} \cup Listed]
    /\ head_sched' = NULL /\ tail_sched' = NULL /\ handed' = "no"
    /\ UNCHANGED <<live, tid, lib_one, sched_one, head_lib, currThreadID,
                   currentThread, stopFlag, yieldFlag, where, dropped>>

\* lwp_set_scheduler, called by main or by a thread.  Plugging in: the default
\* list is emptied one thread at a time, each to the new scheduler, which is
\* initialised when it has them.
PlugIn(new) ==
    /\ where \in {"main", "thread"}
    /\ currScheduler = NULL
    /\ currScheduler' = new
    /\ pool' = [pool EXCEPT ![new] = Admitted(new, Listed)]
    /\ Drop(Listed, Admitted(new, Listed))
    /\ head_sched' = NULL /\ tail_sched' = NULL /\ handed' = "no"
    /\ sched_one' = [a \in Addr |-> IF a \in Listed THEN NULL ELSE sched_one[a]]
    /\ UNCHANGED <<live, tid, lib_one, head_lib, currThreadID, currentThread,
                   stopFlag, yieldFlag, where>>

\* The threads that leave a plugged-in scheduler: its first, taken before
\* shutdown(), and those it still hands out after it.
Leaving(first) ==
    IF currScheduler \in Resets THEN {first} \cap Held ELSE Held

\* What a plugged-in scheduler may have left in sched_one when it gives its
\* threads away: where it links them, in each a link to one of them or none.
\* Nothing reads the field of a thread before that.
Leftover ==
    IF currScheduler \in Links
    THEN {[a \in Addr |-> IF a \in Held THEN f[a] ELSE sched_one[a]] :
             f \in [Held -> Held \cup {NULL}]}
    ELSE {sched_one}

\* The ways to queue up a set of threads.
Orders(S) == Bijection(1 .. Cardinality(S), S)

\* defaultScheduler_admit of each thread of q in turn, to an empty list.  The
\* last one's link stays what it is.
QueueUp(q, one) ==
    [head |-> q[1],
     tail |-> q[Len(q)],
     one  |-> [a \in Addr |->
                  IF \E i \in 1 .. Len(q) - 1 : q[i] = a
                  THEN q[(CHOOSE i \in 1 .. Len(q) - 1 : q[i] = a) + 1]
                  ELSE one[a]]]

\* Back to the default scheduler.
Unplug ==
    /\ where \in {"main", "thread"}
    /\ currScheduler # NULL
    /\ currScheduler' = NULL
    /\ pool' = [pool EXCEPT ![currScheduler] = {}]
    /\ \/ /\ Held = {}
          /\ UNCHANGED <<sched_one, head_sched, tail_sched, dropped, handed>>
       \/ \E first \in Held : \E q \in Orders(Leaving(first)), one \in Leftover :
             LET s == QueueUp(q, one) IN
             /\ head_sched' = s.head /\ tail_sched' = s.tail /\ sched_one' = s.one
             /\ handed' = "yes"
             /\ Drop(Held, Leaving(first))
    /\ UNCHANGED <<live, tid, lib_one, head_lib, currThreadID, currentThread,
                   stopFlag, yieldFlag, where>>

\* From one plugged-in scheduler to another.
Replug(new) ==
    /\ where \in {"main", "thread"}
    /\ currScheduler \notin {NULL, new}
    /\ currScheduler' = new
    /\ \E first \in Held \cup {NULL} :
          /\ first = NULL <=> Held = {}
          /\ pool' = [pool EXCEPT ![currScheduler] = {},
                                  ![new] = Admitted(new, Leaving(first))]
          /\ Drop(Held, Admitted(new, Leaving(first)))
    /\ head_sched' = NULL /\ tail_sched' = NULL /\ handed' = "no"
    /\ sched_one' \in Leftover
    /\ UNCHANGED <<live, tid, lib_one, head_lib, currThreadID, currentThread,
                   stopFlag, yieldFlag, where>>

\* The scheduler that is already in charge.  With threads to transfer, NULL
\* for NULL dereferences currScheduler, and any other hands its own threads
\* back to itself for ever; without threads nothing changes.
SetSame ==
    /\ where \in {"main", "thread"}
    /\ where' = IF currScheduler = NULL
                THEN IF head_sched = NULL THEN where ELSE "crashed"
                ELSE IF Held = {} THEN where ELSE "hung"
    /\ UNCHANGED <<live, tid, lib_one, sched_one, head_lib, head_sched,
                   tail_sched, currThreadID, currentThread, currScheduler,
                   stopFlag, yieldFlag, pool, dropped, handed>>

SetScheduler == (\E s \in Scheduler : PlugIn(s) \/ Replug(s)) \/ Unplug \/ SetSame

Next ==
    \/ \E t \in Addr : Create(t)
    \/ Start
    \/ Yield \/ Stop \/ Exit
    \/ ReturnStopped \/ ResumeAfterYield \/ ResumeAfterExit \/ SearchForExited
    \/ SetScheduler

Spec == Init /\ [][Next]_vars

\* Cooperation: the running thread gives the processor up some time, and then
\* lwp_start goes on.  A thread that never does starves the others.
FairSpec ==
    /\ Spec
    /\ WF_vars(Yield \/ Stop \/ Exit)
    /\ WF_vars(ReturnStopped \/ ResumeAfterYield \/ ResumeAfterExit \/ SearchForExited)

-----------------------------------------------------------------------------
(***************************************************************************)
(* Properties.                                                             *)
(***************************************************************************)
\* Every variable keeps its type.
TypeOK ==
    /\ live \subseteq Addr
    /\ tid \in [Addr -> -1 .. MaxTid]
    /\ lib_one \in [Addr -> Addr \cup {NULL}]
    /\ sched_one \in [Addr -> Addr \cup {NULL}]
    /\ {head_lib, head_sched, tail_sched, currentThread} \subseteq Addr \cup {NULL}
    /\ currThreadID \in 1 .. MaxTid
    /\ currScheduler \in Scheduler \cup {NULL}
    /\ stopFlag \in BOOLEAN /\ yieldFlag \in BOOLEAN
    /\ pool \in [Scheduler -> SUBSET Addr]
    /\ where \in {"main", "thread", "loop", "crashed", "hung"}
    /\ dropped \in {"no", "yes"} /\ handed \in {"no", "yes"}

\* The scheduler in charge knows no thread that was freed, whatever schedulers
\* there were; and it knows every live one, until the shutdown() or the init()
\* of a scheduler has emptied a pool with threads in it.
Scheduled == IF currScheduler = NULL THEN Listed ELSE Held
EveryThreadScheduled ==
    /\ Scheduled \subseteq live
    /\ dropped = "no" => live \subseteq Scheduled

\* The default list leads from its head to its tail and ends there.  Only a list
\* that a plugged-in scheduler has just handed over may have a link behind its
\* tail, until a thread is admitted or run.
ListIsClosed ==
    LET one == Ended(sched).one IN
    /\ head_sched = NULL <=> tail_sched = NULL
    /\ {a \in Listed : one[a] = NULL} = {tail_sched} \ {NULL}
    /\ tail_sched # NULL /\ handed = "no" => sched_one[tail_sched] = NULL

\* The library's list has exactly the live threads, and tid2thread finds each
\* by its id.
Tid2Thread(id) == {a \in Chain(head_lib, lib_one) : tid[a] = id}
ThreadsAreFound ==
    /\ Chain(head_lib, lib_one) = live
    /\ \A a \in live : Tid2Thread(tid[a]) = {a}

\* Whoever runs as a thread, or has just been switched out of one, is alive:
\* lwp_gettid, lwp_yield and lwp_stop touch its structure.  And main and the
\* threads run with neither flag raised: one left over would make a later exit a
\* yield or a stop.
CurrentIsFit ==
    /\ where \in {"thread", "loop"} => currentThread \in live
    /\ where \in {"main", "thread"} => ~stopFlag /\ ~yieldFlag

\* Every thread gets its turn, unless the threads are stopped, or the program
\* with them.
EveryThreadGetsATurn ==
    \A a \in Addr : a \in live /\ where = "thread"
                    ~> \/ where = "thread" /\ currentThread = a
                       \/ where \notin {"thread", "loop"}

\* The queue that a list stands for: its structures in order, and their ids.
Walk(s) ==
    LET nth[i \in 1 .. Cardinality(Addr)] ==
            IF i = 1 THEN s.head
            ELSE IF nth[i - 1] = NULL THEN NULL ELSE s.one[nth[i - 1]]
    IN  nth
IdsAlong(s, ids) ==
    LET walk == Walk(s)
    IN  [i \in 1 .. Cardinality(Chain(s.head, s.one)) |-> ids[walk[i]]]
QueueOfTids == IdsAlong(sched, tid)

\* The id of the thread whose turn it is.
TurnOf == IF where \in {"thread", "loop"} THEN tid[currentThread] ELSE 0

Queue == INSTANCE LwpQueue WITH
    Id     <- 1 .. MaxTid,
    Nobody <- 0,
    queue  <- QueueOfTids,
    turn   <- TurnOf

\* The linked list implements the queue: first come, first served, then round
\* and round.
ImplementsQueue == Queue!QueueSpec
=============================================================================
