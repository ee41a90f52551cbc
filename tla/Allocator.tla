----------------------------- MODULE Allocator -----------------------------
(***************************************************************************)
(* What malloc.c promises its clients: the ranges they hold never overlap, *)
(* and a call changes the range of no pointer but its own.                 *)
(***************************************************************************)
EXTENDS Integers

CONSTANT Size
VARIABLE live       \* the pointers clients hold, with the size they asked for

\* A range overlaps another, or begins where it does.
Clash(p, size, q, other) ==
    p = q \/ (p < q + other /\ q < p + size)

Kept(p) == [q \in DOMAIN live \ {p} |-> live[q]]
Given(f, p, size) == [q \in DOMAIN f \cup {p} |-> IF q = p THEN size ELSE f[q]]

Init == live = [p \in {} |-> 0]

\* malloc: a new pointer, clear of all ranges held.
Give(size) ==
    \E p \in DOMAIN live' \ DOMAIN live :
        /\ \A q \in DOMAIN live : ~Clash(p, size, q, live[q])
        /\ live' = Given(live, p, size)

\* free.
Take(p) == live' = Kept(p)

\* realloc: the range grows or shrinks where it is, or moves to a pointer
\* that is clear of all ranges held, the old one too.
Resize(p, size) ==
    \/ /\ \A q \in DOMAIN live \ {p} : ~Clash(p, size, q, live[q])
       /\ live' = Given(live, p, size)
    \/ \E r \in DOMAIN live' \ DOMAIN live :
        /\ \A q \in DOMAIN live : ~Clash(r, size, q, live[q])
        /\ live' = Given(Kept(p), r, size)

Next ==
    \/ \E size \in Size : Give(size)
    \/ \E p \in DOMAIN live : Take(p) \/ \E size \in Size : Resize(p, size)

Spec == Init /\ [][Next]_live
=============================================================================
