------------------------------ MODULE LwpQueue ------------------------------
(***************************************************************************)
(* What the default scheduler promises: threads take turns in the order of *)
(* a queue.  A new thread goes to the end; who is chosen to run goes to    *)
(* the end too, and keeps the processor until it gives it up.              *)
(***************************************************************************)
EXTENDS Integers, Sequences, Functions

CONSTANTS
    Id,         \* thread ids
    Nobody      \* the processor is main's

VARIABLES queue,    \* thread ids, the next to run first
          turn      \* the thread that runs

qvars == <<queue, turn>>

\* q without t, which it has once.
Without(q, t) ==
    LET at == CHOOSE i \in DOMAIN q : q[i] = t
    IN  [i \in 1 .. Len(q) - 1 |-> IF i < at THEN q[i] ELSE q[i + 1]]

QueueInit == queue = <<>> /\ turn = Nobody

\* The head of q runs and goes to its end; main runs when there is none.
Choose(q) ==
    IF q = <<>> THEN queue' = q /\ turn' = Nobody
    ELSE queue' = Append(Tail(q), Head(q)) /\ turn' = Head(q)

Spawn ==
    /\ \E t \in Id \ Range(queue) : queue' = Append(queue, t)
    /\ UNCHANGED turn

Begin == turn = Nobody /\ Choose(queue)
Pass  == turn # Nobody /\ Choose(queue)
Leave == turn # Nobody /\ Choose(Without(queue, turn))
Halt  == turn # Nobody /\ turn' = Nobody /\ UNCHANGED queue

QueueNext == Spawn \/ Begin \/ Pass \/ Leave \/ Halt

QueueSpec == QueueInit /\ [][QueueNext]_qvars
=============================================================================
