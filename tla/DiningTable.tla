---------------------------- MODULE DiningTable ----------------------------
(***************************************************************************)
(* What a table of diners promises, without forks, locks or announcements: *)
(* a ring of diners, each owed a number of meals, where a diner eats only  *)
(* while neither neighbour eats, and every diner gets every meal.          *)
(***************************************************************************)
EXTENDS Integers

CONSTANTS
    Diner,      \* the diners around the table
    Meals,      \* how many meals each is owed
    Next_(_)    \* the ring: the diner after this one

VARIABLES eating,   \* the diners eating now
          owed      \* meals each diner has yet to finish

tvars == <<eating, owed>>

Neighbours(d, e) == e = Next_(d) \/ d = Next_(e)

TableInit == eating = {} /\ owed = [d \in Diner |-> Meals]

BeginMeal(d) ==
    /\ d \notin eating
    /\ owed[d] > 0
    /\ \A e \in eating : ~Neighbours(d, e)
    /\ eating' = eating \cup {d}
    /\ UNCHANGED owed

EndMeal(d) ==
    /\ d \in eating
    /\ eating' = eating \ {d}
    /\ owed' = [owed EXCEPT ![d] = @ - 1]

TableNext == \E d \in Diner : BeginMeal(d) \/ EndMeal(d)

\* Nobody is passed over for ever at a meal it is owed.
TableSpec ==
    /\ TableInit
    /\ [][TableNext]_tvars
    /\ \A d \in Diner : SF_tvars(BeginMeal(d)) /\ WF_tvars(EndMeal(d))
=============================================================================
