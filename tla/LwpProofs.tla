------------------------------ MODULE LwpProofs ------------------------------
(***************************************************************************)
(* Theorems about Lwp, for any set of structures, any schedulers and any   *)
(* number of thread ids.                                                   *)
(*                                                                         *)
(* What a walk along a linked list meets, Chain, is the least set that has *)
(* the head and is closed under the link.  So a set of threads is a        *)
(* list's when it is closed, and when with the removed or added threads    *)
(* the set of the other list is closed: that is how each operation on a    *)
(* list is shown to add, to remove or to rotate, without an induction.     *)
(* Only a list made at once, QueueUp, and a walk that counts its places    *)
(* need one, on the place in the queue.  The order of the default list is  *)
(* carried along as a function from places to threads (Follows), for which *)
(* each operation has its own form.                                        *)
(***************************************************************************)
EXTENDS Lwp, FiniteSetTheorems, SequenceTheorems, WellFoundedInduction, TLAPS

Link == Addr \cup {NULL}
Lists == [head : Link, tail : Link, one : [Addr -> Link]]

Closed(C, first, one) ==
    /\ C \subseteq Addr
    /\ first \in C \cup {NULL}
    /\ \A c \in C : one[c] \in C \cup {NULL}

\* No structure of the list is linked to twice, the first one not at all.
Linked(first, one) ==
    /\ \A a, b \in Chain(first, one) : one[a] = one[b] /\ one[a] # NULL => a = b
    /\ \A a \in Chain(first, one) : one[a] # first

Items(s) == Chain(s.head, s.one)

\* The default list: a list, with its last element as the tail.
IsQueue(s) ==
    /\ Linked(s.head, s.one)
    /\ s.head = NULL <=> s.tail = NULL
    /\ s.head # NULL => s.tail \in Items(s) /\ s.one[s.tail] = NULL
    /\ \A a \in Items(s) : s.one[a] = NULL => a = s.tail

-----------------------------------------------------------------------------
(***************************************************************************)
(* Chain.                                                                  *)
(***************************************************************************)
LEMMA ChainClosed ==
    ASSUME NEW first \in Link, NEW one \in [Addr -> Link]
    PROVE  Closed(Chain(first, one), first, one)
<1> DEFINE L == Chain(first, one)
<1>1. L \subseteq Addr
  BY DEF Chain
<1>2. first \in L \cup {NULL}
  BY DEF Chain, Link
<1>3. ASSUME NEW c \in L, one[c] # NULL PROVE one[c] \in L
  <2>1. c \in Addr /\ one[c] \in Addr
    BY <1>1, <1>3 DEF Link
  <2>2. ASSUME NEW C \in SUBSET Addr, first # NULL => first \in C,
               \A d \in C : one[d] \in C \cup {NULL}
        PROVE  one[c] \in C
    <3>1. c \in C
      BY <2>2 DEF Chain
    <3> QED BY <3>1, <2>2, <1>3
  <2> QED BY <2>1, <2>2 DEF Chain
<1> HIDE DEF L
<1> QED BY <1>1, <1>2, <1>3 DEF Closed, L

LEMMA ChainLeast ==
    ASSUME NEW first, NEW one, NEW C, Closed(C, first, one), NULL \notin Addr
    PROVE  Chain(first, one) \subseteq C
<1>1. C \in SUBSET Addr /\ (first # NULL => first \in C)
      /\ \A c \in C : one[c] \in C \cup {NULL}
  BY DEF Closed
<1> QED BY <1>1 DEF Chain

LEMMA ChainEmpty == ASSUME NEW one PROVE Chain(NULL, one) = {}
<1>1. Closed({}, NULL, one)
  BY DEF Closed
<1> QED BY <1>1, ChainLeast, NULLAssumption

\* Only the links of the list matter.
LEMMA ChainSame ==
    ASSUME NEW first \in Link, NEW one \in [Addr -> Link], NEW new \in [Addr -> Link],
           \A a \in Chain(first, one) : new[a] = one[a]
    PROVE  Chain(first, new) = Chain(first, one)
<1> DEFINE L == Chain(first, one)  D == Chain(first, new)
<1>1. Closed(L, first, one) /\ Closed(D, first, new)
  BY ChainClosed
<1>2. \A a \in L : new[a] = one[a]
  OBVIOUS
<1> HIDE DEF L, D
<1>3. Closed(L, first, new)
  BY <1>1, <1>2 DEF Closed
<1>4. D \subseteq L
  BY <1>3, ChainLeast, NULLAssumption DEF D
<1>5. Closed(D, first, one)
  BY <1>1, <1>2, <1>4 DEF Closed
<1>6. L \subseteq D
  BY <1>5, ChainLeast, NULLAssumption DEF L
<1> QED BY <1>4, <1>6 DEF L, D

-----------------------------------------------------------------------------
(***************************************************************************)
(* Adding to and removing from a list.                                     *)
(***************************************************************************)
\* A structure put before the first one.
LEMMA Prepended ==
    ASSUME NEW first \in Link, NEW one \in [Addr -> Link],
           Linked(first, one),
           NEW t \in Addr, t \notin Chain(first, one)
    PROVE  LET new == [one EXCEPT ![t] = first] IN
           /\ Chain(t, new) = Chain(first, one) \cup {t}
           /\ Linked(t, new)
<1> DEFINE L == Chain(first, one)
           new == [one EXCEPT ![t] = first]
           D == Chain(t, new)
<1>1. new \in [Addr -> Link] /\ new[t] = first /\ t # NULL
      /\ \A a \in Addr \ {t} : new[a] = one[a]
  BY NULLAssumption DEF Link
<1>2. t \in Link /\ Closed(L, first, one)
  BY ChainClosed DEF Link
<1> HIDE DEF new
<1>3. Closed(D, t, new)
  BY <1>1, <1>2, ChainClosed
<1>0. t \notin L /\ Linked(first, one)
  OBVIOUS
<1> HIDE DEF L, D
<1>4. Closed(L \cup {t}, t, new)
  BY <1>0, <1>1, <1>2 DEF Closed
<1>5. D \subseteq L \cup {t}
  BY <1>4, ChainLeast, NULLAssumption DEF D
<1>6. t \in D
  BY <1>3, <1>1 DEF Closed
<1>7. Closed(D \cap L, first, one)
  BY <1>0, <1>1, <1>2, <1>3, <1>6 DEF Closed
<1>8. L \subseteq D
  BY <1>7, ChainLeast, NULLAssumption DEF L
<1>9. D = L \cup {t}
  BY <1>5, <1>6, <1>8
<1>10. \A a, b \in L : one[a] = one[b] /\ one[a] # NULL => a = b
  BY <1>0 DEF Linked, L
<1>11. \A a \in L : one[a] # first /\ one[a] # t /\ a # t /\ new[a] = one[a]
  BY <1>0, <1>1, <1>2 DEF Linked, L, Closed
<1>12. first # t
  BY <1>0, <1>1, <1>2 DEF Closed
<1>13. Linked(t, new)
  BY <1>1, <1>9, <1>10, <1>11, <1>12 DEF Linked, D
<1> QED BY <1>9, <1>13 DEF new, D, L

\* The first one removed.
LEMMA Beheaded ==
    ASSUME NEW first \in Addr, NEW one \in [Addr -> Link], Linked(first, one)
    PROVE  /\ Chain(one[first], one) = Chain(first, one) \ {first}
           /\ Linked(one[first], one)
           /\ first \in Chain(first, one)
<1> DEFINE L == Chain(first, one)  D == Chain(one[first], one)
<1>0. first \in Link /\ one[first] \in Link /\ first # NULL /\ Linked(first, one)
  BY NULLAssumption DEF Link
<1>1. Closed(L, first, one) /\ Closed(D, one[first], one)
  BY <1>0, ChainClosed
<1> HIDE DEF L, D
<1>2. \A a \in L : one[a] # first
  BY <1>0 DEF Linked, L
<1>3. first \in L
  BY <1>0, <1>1 DEF Closed
<1>4. Closed(L \ {first}, one[first], one)
  BY <1>1, <1>2, <1>3 DEF Closed
<1>5. D \subseteq L \ {first}
  BY <1>4, ChainLeast, NULLAssumption DEF D
<1>6. Closed(D \cup {first}, first, one)
  BY <1>1 DEF Closed
<1>7. L \subseteq D \cup {first}
  BY <1>6, ChainLeast, NULLAssumption DEF L
<1>8. D = L \ {first}
  BY <1>5, <1>7
<1>9. \A a, b \in L : one[a] = one[b] /\ one[a] # NULL => a = b
  BY <1>0 DEF Linked, L
<1>10. \A a \in D : one[a] # one[first]
  <2> SUFFICES ASSUME NEW a \in D, one[a] = one[first] PROVE FALSE
    OBVIOUS
  <2>1. a \in L /\ a # first /\ one[first] = NULL
    BY <1>8, <1>9, <1>3
  <2>2. D = {}
    BY <2>1, ChainEmpty DEF D
  <2> QED BY <2>2
<1>11. Linked(one[first], one)
  BY <1>8, <1>9, <1>10 DEF Linked, D
<1> QED BY <1>3, <1>8, <1>11 DEF L, D

\* One that has another before it removed: its predecessor takes over its link.
LEMMA Bypassed ==
    ASSUME NEW first \in Link, NEW one \in [Addr -> Link], Linked(first, one),
           NEW victim \in Chain(first, one), victim # first,
           NEW p \in Chain(first, one), one[p] = victim
    PROVE  LET new == [one EXCEPT ![p] = one[victim]] IN
           /\ Chain(first, new) = Chain(first, one) \ {victim}
           /\ Linked(first, new)
           /\ p # victim
<1> DEFINE L == Chain(first, one)
           new == [one EXCEPT ![p] = one[victim]]
           D == Chain(first, new)
<1>1. Closed(L, first, one)
  BY ChainClosed
<1>2. /\ victim \in L /\ p \in L /\ one[p] = victim /\ Linked(first, one)
      /\ victim \in Addr /\ p \in Addr /\ victim # NULL /\ one[victim] \in Link
  BY <1>1, NULLAssumption DEF Closed
<1>3. new \in [Addr -> Link] /\ new[p] = one[victim]
      /\ \A a \in Addr \ {p} : new[a] = one[a]
  BY <1>2
<1> HIDE DEF new
<1>4. Closed(D, first, new)
  BY <1>3, ChainClosed
<1> HIDE DEF L, D
<1>5. /\ \A a, b \in L : one[a] = one[b] /\ one[a] # NULL => a = b
      /\ \A a \in L : one[a] # first
  BY <1>2 DEF Linked, L
<1>6. \A a \in L : one[a] = victim => a = p
  BY <1>2, <1>5
<1>7. p # victim
  <2> SUFFICES ASSUME p = victim PROVE FALSE
    OBVIOUS
  <2>1. Closed(L \ {victim}, first, one)
    BY <1>1, <1>6 DEF Closed
  <2>2. L \subseteq L \ {victim}
    BY <2>1, ChainLeast, NULLAssumption DEF L
  <2> QED BY <2>2, <1>2
<1>8. one[victim] # victim
  BY <1>6, <1>7, <1>2
<1>9. Closed(L \ {victim}, first, new)
  BY <1>1, <1>2, <1>3, <1>6, <1>7, <1>8 DEF Closed
<1>10. D \subseteq L \ {victim}
  BY <1>9, ChainLeast, NULLAssumption DEF D
<1>11. p \in D
  <2> SUFFICES ASSUME p \notin D PROVE FALSE
    OBVIOUS
  <2>1. Closed(D, first, one)
    BY <1>3, <1>4 DEF Closed
  <2>2. L \subseteq D
    BY <2>1, ChainLeast, NULLAssumption DEF L
  <2> QED BY <2>2, <1>2
<1>12. Closed(D \cup {victim}, first, one)
  BY <1>2, <1>3, <1>4, <1>11 DEF Closed
<1>13. L \subseteq D \cup {victim}
  BY <1>12, ChainLeast, NULLAssumption DEF L
<1>14. D = L \ {victim}
  BY <1>10, <1>13
<1>15. \A a \in D : a # victim /\ a \in L /\ a \in Addr
                    /\ new[a] = IF a = p THEN one[victim] ELSE one[a]
  BY <1>1, <1>3, <1>14 DEF Closed
<1>16. \A a \in D : new[a] # first
  BY <1>2, <1>5, <1>15
<1>17. \A a, b \in D : new[a] = new[b] /\ new[a] # NULL => a = b
  BY <1>2, <1>5, <1>15
<1>18. Linked(first, new)
  BY <1>16, <1>17 DEF Linked, D
<1> QED BY <1>7, <1>14, <1>18 DEF new, D, L

\* Whom the search finds is in the list and linked to the victim.  It finds one
\* when the victim is in the list and not its first, and none when it is not in it.
LEMMA Found ==
    ASSUME NEW first \in Link, NEW one \in [Addr -> Link], NEW victim \in Addr
    PROVE  \A p \in Before(victim, first, one) :
              p \in Chain(first, one) /\ p \in Addr /\ one[p] = victim /\ p # victim
<1> DEFINE cut == [one EXCEPT ![victim] = NULL]
<1>1. Closed(Chain(first, one), first, one)
  BY ChainClosed
<1>2. \A a \in Addr : cut[a] = IF a = victim THEN NULL ELSE one[a]
  OBVIOUS
<1>3. Before(victim, first, one) = {p \in Chain(first, cut) : p # victim /\ one[p] = victim}
  BY DEF Before
<1> HIDE DEF cut
<1>4. Closed(Chain(first, one), first, cut)
  BY <1>1, <1>2 DEF Closed
<1>5. Chain(first, cut) \subseteq Chain(first, one)
  BY <1>4, ChainLeast, NULLAssumption
<1> QED BY <1>1, <1>3, <1>5 DEF Closed

LEMMA Predecessor ==
    ASSUME NEW first \in Link, NEW one \in [Addr -> Link],
           NEW victim \in Chain(first, one), victim # first
    PROVE  Before(victim, first, one) # {}
<1> DEFINE L == Chain(first, one)
           cut == [one EXCEPT ![victim] = NULL]
           D == Chain(first, cut)
<1>1. Closed(L, first, one) /\ victim \in L
  BY ChainClosed
<1>2. victim \in Addr
  BY <1>1 DEF Closed
<1>3. cut \in [Addr -> Link] /\ \A a \in Addr : cut[a] = IF a = victim THEN NULL ELSE one[a]
  BY DEF Link
<1> SUFFICES ASSUME \A p \in D : p # victim => one[p] # victim PROVE FALSE
  BY DEF Before
<1> HIDE DEF L, cut, D
<1>4. Closed(D, first, cut)
  BY <1>3, ChainClosed DEF D
<1>5. Closed(D \ {victim}, first, one)
  BY <1>3, <1>4 DEF Closed
<1>6. L \subseteq D \ {victim}
  BY <1>5, ChainLeast, NULLAssumption DEF L
<1> QED BY <1>1, <1>6

LEMMA NoPredecessor ==
    ASSUME NEW first \in Link, NEW one \in [Addr -> Link], NEW victim \in Addr,
           victim \notin Chain(first, one)
    PROVE  Before(victim, first, one) = {}
<1>1. Closed(Chain(first, one), first, one)
  BY ChainClosed
<1>2. \A p \in Before(victim, first, one) : p \in Chain(first, one) /\ one[p] = victim
  BY Found
<1> QED BY <1>1, <1>2, NULLAssumption DEF Closed

-----------------------------------------------------------------------------
(***************************************************************************)
(* The library's list.                                                     *)
(***************************************************************************)
LEMMA LibRemoves ==
    ASSUME NEW l \in [head : Link, one : [Addr -> Link]],
           Linked(l.head, l.one), NEW victim \in Chain(l.head, l.one)
    PROVE  LET left == LibRemove(l, victim) IN
           /\ left \in [head : Link, one : [Addr -> Link]]
           /\ Chain(left.head, left.one) = Chain(l.head, l.one) \ {victim}
           /\ Linked(left.head, left.one)
<1>1. l.head \in Link /\ l.one \in [Addr -> Link]
  OBVIOUS
<1>2. Closed(Chain(l.head, l.one), l.head, l.one)
  BY <1>1, ChainClosed
<1>3. victim \in Addr /\ l.one[victim] \in Link
  BY <1>1, <1>2 DEF Closed
<1>4. CASE l.head = victim
  <2>1. LibRemove(l, victim) = [l EXCEPT !.head = l.one[victim]]
    BY <1>4 DEF LibRemove
  <2> QED BY <2>1, <1>1, <1>3, <1>4, Beheaded
<1>5. CASE l.head # victim
  <2> DEFINE p == CHOOSE p \in Before(victim, l.head, l.one) : TRUE
  <2>1. Before(victim, l.head, l.one) # {}
    BY <1>1, <1>5, Predecessor
  <2>2. p \in Chain(l.head, l.one) /\ l.one[p] = victim
    <3>1. p \in Before(victim, l.head, l.one)
      BY <2>1
    <3> HIDE DEF p
    <3> QED BY <3>1, <1>1, <1>3, Found
  <2>3. LibRemove(l, victim) = [l EXCEPT !.one = [l.one EXCEPT ![p] = l.one[victim]]]
    BY <1>5, <2>1 DEF LibRemove
  <2> HIDE DEF p
  <2>4. p \in Addr
    BY <1>2, <2>2 DEF Closed
  <2>5. [l.one EXCEPT ![p] = l.one[victim]] \in [Addr -> Link]
    BY <1>1, <1>3, <2>4
  <2> QED BY <2>2, <2>3, <2>5, <1>1, <1>5, Bypassed
<1> QED BY <1>4, <1>5

-----------------------------------------------------------------------------
(***************************************************************************)
(* The default scheduler's list.                                           *)
(***************************************************************************)
LEMMA RotateKeeps ==
    ASSUME NEW s \in Lists, IsQueue(s)
    PROVE  /\ Rotate(s) \in Lists /\ IsQueue(Rotate(s))
           /\ Items(Rotate(s)) = Items(s)
           /\ \A a \in Addr \ Items(s) : Rotate(s).one[a] = s.one[a]
<1> DEFINE h == s.head  t == s.tail  one == s.one  n == one[h]
           new == [[one EXCEPT ![t] = h] EXCEPT ![h] = NULL]
           L == Items(s)  D == Chain(n, new)
<1>1. CASE s.head = NULL \/ s.one[s.head] = NULL
  BY <1>1 DEF Rotate
<1>2. CASE ~(s.head = NULL \/ s.one[s.head] = NULL)
  <2>0. h \in Link /\ t \in Link /\ one \in [Addr -> Link] /\ h # NULL /\ n # NULL
    BY <1>2 DEF Lists
  <2>1. Closed(L, h, one)
    BY <2>0, ChainClosed DEF Items
  <2>2. /\ \A a, b \in L : one[a] = one[b] /\ one[a] # NULL => a = b
        /\ \A a \in L : one[a] # h
        /\ t \in L /\ one[t] = NULL
        /\ \A a \in L : one[a] = NULL => a = t
    BY <2>0 DEF IsQueue, Linked, Items
  <2>3. h \in L /\ n \in L
    BY <2>0, <2>1 DEF Closed
  <2>4. n # h /\ t # h /\ h \in Addr /\ t \in Addr /\ n \in Addr
    BY <2>0, <2>1, <2>2, <2>3 DEF Closed
  <2>5. [one EXCEPT ![t] = h] \in [Addr -> Link] /\ [one EXCEPT ![t] = h][h] = n
    BY <2>0, <2>4
  <2>6. Rotate(s) = [head |-> n, tail |-> h, one |-> new]
    BY <1>2, <2>5 DEF Rotate
  <2>7. /\ new \in [Addr -> Link] /\ new[h] = NULL /\ new[t] = h
        /\ \A a \in Addr \ {h, t} : new[a] = one[a]
    BY <2>0, <2>4, <2>5 DEF Link
  <2> HIDE DEF L, D, new, n, one, h, t
  <2>8. Closed(D, n, new)
    BY <2>4, <2>7, ChainClosed DEF D, Link
  <2>9. Closed(L, n, new)
    BY <2>1, <2>3, <2>7 DEF Closed
  <2>10. D \subseteq L
    BY <2>9, ChainLeast, NULLAssumption DEF D
  <2>11. Closed(D \cup {h}, h, one)
    <3>1. \A c \in D \ {h, t} : one[c] \in D \cup {NULL}
      BY <2>7, <2>8 DEF Closed
    <3>2. one[h] \in D
      BY <2>4, <2>8, NULLAssumption DEF Closed, n
    <3> QED BY <2>2, <2>4, <2>8, <3>1, <3>2 DEF Closed
  <2>12. L \subseteq D \cup {h}
    BY <2>11, ChainLeast, NULLAssumption DEF L, Items, h, one
  <2>13. t \in D /\ h \in D
    BY <2>2, <2>4, <2>7, <2>8, <2>12, NULLAssumption DEF Closed
  <2>14. D = L
    BY <2>10, <2>12, <2>13
  <2>15. \A a \in D : a \in Addr /\ new[a] = IF a = h THEN NULL ELSE IF a = t THEN h ELSE one[a]
    BY <2>1, <2>4, <2>7, <2>14 DEF Closed
  <2>16. \A a \in D : new[a] # n
    <3> SUFFICES ASSUME NEW a \in D, new[a] = n PROVE FALSE
      OBVIOUS
    <3>1. a # h /\ a # t
      BY <2>4, <2>15, NULLAssumption
    <3>2. one[a] = one[h] /\ one[a] # NULL
      BY <3>1, <2>4, <2>15, NULLAssumption DEF n
    <3> QED BY <3>1, <3>2, <2>2, <2>3, <2>14
  <2>17. \A a, b \in D : new[a] = new[b] /\ new[a] # NULL => a = b
    BY <2>2, <2>14, <2>15
  <2>18. \A a \in D : new[a] = NULL => a = h
    BY <2>2, <2>4, <2>14, <2>15, NULLAssumption
  <2>19. Rotate(s) \in Lists /\ Rotate(s).head = n /\ Rotate(s).tail = h
         /\ Rotate(s).one = new
    BY <2>4, <2>6, <2>7 DEF Lists, Link
  <2>20. Items(Rotate(s)) = D
    BY <2>19 DEF Items, D
  <2>21. Linked(n, new)
    BY <2>16, <2>17 DEF Linked, D
  <2>22. n # NULL /\ h # NULL
    BY <2>4, NULLAssumption
  <2>23. IsQueue(Rotate(s))
    BY <2>7, <2>13, <2>18, <2>19, <2>20, <2>21, <2>22 DEF IsQueue
  <2>24. \A a \in Addr \ L : new[a] = one[a]
    BY <2>2, <2>3, <2>7
  <2> QED BY <2>14, <2>19, <2>20, <2>23, <2>24 DEF L, one
<1> QED BY <1>1, <1>2

LEMMA AdmitKeeps ==
    ASSUME NEW s \in Lists, IsQueue(s), NEW t \in Addr, t \notin Items(s),
           s.one[t] = NULL
    PROVE  /\ Admit(s, t) \in Lists /\ IsQueue(Admit(s, t))
           /\ Items(Admit(s, t)) = Items(s) \cup {t}
           /\ \A a \in Addr \ Items(s) : Admit(s, t).one[a] = s.one[a]
<1> DEFINE h == s.head  e == s.tail  one == s.one
           L == Items(s)
<1>0. /\ h \in Link /\ e \in Link /\ one \in [Addr -> Link] /\ t \in Link /\ t # NULL
      /\ h = NULL <=> e = NULL
  BY NULLAssumption DEF Lists, Link, IsQueue
<1>1. CASE e = NULL
  <2>1. Admit(s, t) = [s EXCEPT !.head = t, !.tail = t]
    BY <1>1 DEF Admit
  <2>2. Admit(s, t) \in Lists /\ Admit(s, t).head = t /\ Admit(s, t).tail = t
        /\ Admit(s, t).one = one
    BY <2>1, <1>0 DEF Lists
  <2>3. L = {}
    BY <1>0, <1>1, ChainEmpty DEF Items
  <2>4. Closed({t}, t, one)
    BY <1>0 DEF Closed
  <2>5. Chain(t, one) \subseteq {t}
    BY <2>4, ChainLeast, NULLAssumption
  <2>6. t \in Chain(t, one)
    BY <1>0, ChainClosed DEF Closed
  <2>7. Items(Admit(s, t)) = {t}
    BY <2>2, <2>5, <2>6 DEF Items
  <2>8. IsQueue(Admit(s, t))
    BY <2>2, <2>7, <1>0 DEF IsQueue, Linked, Items
  <2> QED BY <2>2, <2>3, <2>7, <2>8
<1>2. CASE e # NULL
  <2> DEFINE new == [one EXCEPT ![e] = t]  D == Chain(h, new)
  <2>1. Admit(s, t) = [s EXCEPT !.tail = t, !.one = new]
    BY <1>2 DEF Admit
  <2>2. Closed(L, h, one)
    BY <1>0, ChainClosed DEF Items
  <2>3. /\ \A a, b \in L : one[a] = one[b] /\ one[a] # NULL => a = b
        /\ \A a \in L : one[a] # h
        /\ e \in L /\ one[e] = NULL /\ h # NULL
        /\ \A a \in L : one[a] = NULL => a = e
    BY <1>0, <1>2 DEF IsQueue, Linked, Items
  <2>4. t \notin L /\ one[t] = NULL /\ e # t /\ e \in Addr /\ h \in L
    BY <1>0, <2>2, <2>3 DEF Closed
  <2>5. /\ new \in [Addr -> Link] /\ new[e] = t
        /\ \A a \in Addr \ {e} : new[a] = one[a]
    BY <1>0, <2>4
  <2>6. Admit(s, t) \in Lists /\ Admit(s, t).head = h /\ Admit(s, t).tail = t
        /\ Admit(s, t).one = new
    BY <2>1, <2>5, <1>0 DEF Lists
  <2> HIDE DEF new, L, D, h, e, one
  <2>7. Closed(D, h, new)
    BY <1>0, <2>5, ChainClosed DEF D
  <2>8. Closed(L \cup {t}, h, new)
    BY <2>2, <2>4, <2>5 DEF Closed
  <2>9. D \subseteq L \cup {t}
    BY <2>8, ChainLeast, NULLAssumption DEF D
  <2>10. Closed(D \cap L, h, one)
    BY <2>2, <2>3, <2>5, <2>7 DEF Closed
  <2>11. L \subseteq D
    BY <2>10, ChainLeast, NULLAssumption DEF L, Items, h, one
  <2>12. t \in D
    BY <2>3, <2>5, <2>7, <2>11, <1>0 DEF Closed
  <2>13. D = L \cup {t}
    BY <2>9, <2>11, <2>12
  <2>14. \A a \in D : a \in Addr
            /\ new[a] = IF a = e THEN t ELSE IF a = t THEN NULL ELSE one[a]
    BY <2>2, <2>4, <2>5, <2>13 DEF Closed
  <2>15. \A a \in L : one[a] # t
    BY <1>0, <2>2, <2>4 DEF Closed
  <2>16. \A a, b \in D : new[a] = new[b] /\ new[a] # NULL => a = b
    BY <1>0, <2>3, <2>13, <2>14, <2>15
  <2>17. \A a \in D : new[a] # h
    BY <2>3, <2>4, <2>13, <2>14
  <2>18. \A a \in D : new[a] = NULL => a = t
    BY <1>0, <2>3, <2>13, <2>14
  <2>19. new[t] = NULL
    BY <2>4, <2>5
  <2>20. Items(Admit(s, t)) = D
    BY <2>6 DEF Items, D
  <2>21. IsQueue(Admit(s, t))
    BY <1>0, <2>3, <2>6, <2>12, <2>16, <2>17, <2>18, <2>19, <2>20
    DEF IsQueue, Linked, D
  <2>22. \A a \in Addr \ L : new[a] = one[a]
    BY <2>3, <2>5
  <2> QED BY <2>6, <2>13, <2>20, <2>21, <2>22 DEF L, one
<1> QED BY <1>1, <1>2

\* Also for a victim the list does not have, whom a scheduler forgot.
LEMMA RemoveKeeps ==
    ASSUME NEW s \in Lists, IsQueue(s), NEW victim \in Addr
    PROVE  LET left == Remove(s, victim) IN
           /\ left \in Lists /\ IsQueue(left)
           /\ Items(left) \subseteq Items(s) \ {victim}
           /\ victim \in Items(s) => Items(left) = Items(s) \ {victim}
<1> DEFINE L == Items(s)
<1>0. /\ s.head \in Link /\ s.tail \in Link /\ s.one \in [Addr -> Link]
      /\ s.head = NULL <=> s.tail = NULL
  BY DEF Lists, IsQueue
<1>1. Closed(L, s.head, s.one)
  BY <1>0, ChainClosed DEF Items
<1>2. /\ Linked(s.head, s.one)
      /\ s.head # NULL => s.tail \in L /\ s.one[s.tail] = NULL
      /\ \A a \in L : s.one[a] = NULL => a = s.tail
  BY DEF IsQueue
<1>3. CASE s.head = s.tail
  <2>1. Remove(s, victim) = [s EXCEPT !.head = NULL, !.tail = NULL]
    BY <1>3 DEF Remove
  <2> DEFINE left == Remove(s, victim)
  <2>2. left \in Lists /\ left.head = NULL /\ left.tail = NULL /\ left.one = s.one
    BY <2>1 DEF Lists, Link
  <2> HIDE DEF left
  <2>3. Items(left) = {}
    BY <2>2, ChainEmpty DEF Items
  <2>4. IsQueue(left)
    BY <2>2, <2>3 DEF IsQueue, Linked, Items
  <2>5. L \subseteq {s.head} /\ \A a \in L : s.one[a] = NULL
    <3>1. CASE s.head = NULL
      BY <3>1, ChainEmpty DEF Items
    <3>2. CASE s.head # NULL
      <4>1. Closed({s.head}, s.head, s.one)
        BY <3>2, <1>0, <1>2, <1>3 DEF Closed, Link
      <4> QED BY <4>1, <1>2, <1>3, <3>2, ChainLeast, NULLAssumption DEF Items
    <3> QED BY <3>1, <3>2
  <2>6. victim \in L => L = {victim}
    BY <2>5
  <2> QED BY <2>2, <2>3, <2>4, <2>6 DEF left
<1>4. CASE s.head # s.tail
  <2>1. s.head # NULL /\ s.head \in L /\ s.head \in Addr /\ s.tail \in L
        /\ s.one[s.head] # NULL
    BY <1>0, <1>1, <1>2, <1>4 DEF Closed
  <2> DEFINE first == IF victim = s.head THEN s.one[victim] ELSE s.head
             prev  == Before(victim, first, s.one)
             p == CHOOSE p \in prev : TRUE
  <2>2. Remove(s, victim) =
            IF prev = {} THEN [s EXCEPT !.head = first]
            ELSE [head |-> first,
                  tail |-> IF victim = s.tail THEN p ELSE s.tail,
                  one  |-> [s.one EXCEPT ![p] = s.one[victim]]]
    BY <1>4 DEF Remove, SearchedFrom
  <2>3. CASE victim = s.head
    <3>1. first = s.one[victim] /\ first \in Link /\ first # NULL
      BY <2>1, <2>3, <1>0
    <3>2. Chain(first, s.one) = L \ {victim} /\ Linked(first, s.one)
      BY <2>1, <2>3, <3>1, <1>0, <1>2, Beheaded DEF Items
    <3> HIDE DEF first
    <3>3. prev = {}
      BY <3>1, <3>2, <1>0, NoPredecessor
    <3> DEFINE left == Remove(s, victim)
    <3>4. left = [s EXCEPT !.head = first]
      BY <2>2, <3>3
    <3>5. left \in Lists /\ left.head = first /\ left.tail = s.tail
          /\ left.one = s.one
      BY <3>1, <3>4 DEF Lists
    <3> HIDE DEF left
    <3>6. Items(left) = L \ {victim}
      BY <3>2, <3>5 DEF Items
    <3>7. IsQueue(left)
      BY <3>1, <3>2, <3>5, <3>6, <1>2, <2>1, <2>3, <1>0, <1>4 DEF IsQueue
    <3> QED BY <3>5, <3>6, <3>7 DEF left
  <2>4. CASE victim # s.head /\ victim \notin L
    <3>1. prev = {}
      BY <2>4, <1>0, NoPredecessor DEF Items
    <3>2. Remove(s, victim) = s
      BY <2>2, <2>4, <3>1 DEF Lists
    <3> QED BY <2>4, <3>2
  <2>5. CASE victim # s.head /\ victim \in L
    <3>1. prev # {}
      BY <2>5, <1>0, Predecessor DEF Items
    <3>2. p \in L /\ s.one[p] = victim
      <4>1. p \in Before(victim, s.head, s.one)
        BY <2>5, <3>1
      <4> HIDE DEF p
      <4> QED BY <4>1, <1>0, Found DEF Items
    <3> DEFINE left == Remove(s, victim)
               new == [s.one EXCEPT ![p] = s.one[victim]]
               last == IF victim = s.tail THEN p ELSE s.tail
    <3>3. left = [head |-> s.head, tail |-> last, one |-> new]
      BY <2>2, <2>5, <3>1
    <3> HIDE DEF p, left
    <3>4. p \in Addr
      BY <3>2, <1>1 DEF Closed
    <3>5. /\ new \in [Addr -> Link] /\ new[p] = s.one[victim]
          /\ \A a \in Addr \ {p} : new[a] = s.one[a]
      BY <3>4, <1>0
    <3>6. Chain(s.head, new) = L \ {victim} /\ Linked(s.head, new) /\ p # victim
      BY <3>2, <2>5, <1>0, <1>2, Bypassed DEF Items
    <3> HIDE DEF new
    <3>7. left \in Lists /\ left.head = s.head /\ left.tail = last /\ left.one = new
      BY <3>3, <3>4, <3>5, <1>0 DEF Lists, Link
    <3>8. Items(left) = L \ {victim}
      BY <3>6, <3>7 DEF Items
    <3>9. last \in L \ {victim} /\ last # NULL
      BY <3>2, <3>4, <3>6, <2>1, <1>0, NULLAssumption
    <3>10. new[last] = NULL
      <4>1. CASE victim = s.tail
        BY <4>1, <3>5, <1>2, <2>1
      <4>2. CASE victim # s.tail
        <5>1. s.one[s.tail] = NULL /\ s.tail \in Addr
          BY <1>1, <1>2, <2>1 DEF Closed
        <5>2. s.tail # p
          BY <5>1, <3>2, NULLAssumption, <2>5
        <5> QED BY <4>2, <5>1, <5>2, <3>5
      <4> QED BY <4>1, <4>2
    <3>11. \A a \in L \ {victim} : new[a] = NULL => a = last
      <4> SUFFICES ASSUME NEW a \in L \ {victim}, new[a] = NULL PROVE a = last
        OBVIOUS
      <4>1. a \in Addr
        BY <1>1 DEF Closed
      <4>2. CASE a = p
        BY <4>2, <3>5, <2>5, <1>2
      <4>3. CASE a # p
        <5>1. a = s.tail
          BY <4>1, <4>3, <3>5, <1>2
        <5> QED BY <5>1
      <4> QED BY <4>2, <4>3
    <3> HIDE DEF last
    <3>12. IsQueue(left)
      BY <3>6, <3>7, <3>8, <3>9, <3>10, <3>11, <2>1 DEF IsQueue
    <3> QED BY <2>5, <3>7, <3>8, <3>12 DEF left
  <2> QED BY <2>3, <2>4, <2>5
<1> QED BY <1>3, <1>4

LEMMA EmptyQueue ==
    ASSUME NEW s \in Lists, s.head = NULL, s.tail = NULL
    PROVE  IsQueue(s) /\ Items(s) = {}
<1>1. Items(s) = {}
  BY ChainEmpty DEF Items
<1> QED BY <1>1 DEF IsQueue, Linked, Items

LEMMA SameQueue ==
    ASSUME NEW s \in Lists, NEW u \in Lists, IsQueue(s),
           u.head = s.head, u.tail = s.tail, \A a \in Items(s) : u.one[a] = s.one[a]
    PROVE  IsQueue(u) /\ Items(u) = Items(s)
<1>1. s.head \in Link /\ s.one \in [Addr -> Link] /\ u.one \in [Addr -> Link]
  BY DEF Lists
<1>2. Items(u) = Items(s)
  BY <1>1, ChainSame DEF Items
<1>3. \A a \in Items(s) : u.one[a] = s.one[a]
  OBVIOUS
<1>4. Linked(u.head, u.one)
  BY <1>2, <1>3 DEF IsQueue, Linked, Items
<1>5. IsQueue(u)
  BY <1>2, <1>3, <1>4 DEF IsQueue
<1> QED BY <1>2, <1>5

-----------------------------------------------------------------------------
(***************************************************************************)
(* A list whose tail has a link that somebody left there.                  *)
(***************************************************************************)
LEMMA EndedKeeps ==
    ASSUME NEW s \in Lists
    PROVE  /\ Ended(s) \in Lists /\ Ended(s).head = s.head /\ Ended(s).tail = s.tail
           /\ \A a \in Addr : a # s.tail => Ended(s).one[a] = s.one[a]
           /\ s.tail # NULL => s.tail \in Addr /\ Ended(s).one[s.tail] = NULL
           /\ (s.tail = NULL \/ s.one[s.tail] = NULL) => Ended(s) = s
<1>1. CASE s.tail = NULL
  BY <1>1, NULLAssumption DEF Ended
<1>2. CASE s.tail # NULL
  <2>1. s.tail \in Addr
    BY <1>2 DEF Lists, Link
  <2>2. Ended(s) = [s EXCEPT !.one = [s.one EXCEPT ![s.tail] = NULL]]
    BY <1>2 DEF Ended
  <2>3. s.one \in [Addr -> Link]
    BY DEF Lists
  <2> DEFINE new == [s.one EXCEPT ![s.tail] = NULL]
  <2>4. /\ new \in [Addr -> Link] /\ new[s.tail] = NULL
        /\ \A a \in Addr : a # s.tail => new[a] = s.one[a]
    BY <2>1, <2>3 DEF Link
  <2>5. s.one[s.tail] = NULL => new = s.one
    BY <2>1, <2>3
  <2> HIDE DEF new
  <2>6. Ended(s) = [s EXCEPT !.one = new]
    BY <2>2 DEF new
  <2> QED BY <1>2, <2>1, <2>4, <2>5, <2>6 DEF Lists
<1> QED BY <1>1, <1>2

LEMMA QueueIsEnded == ASSUME NEW s \in Lists, IsQueue(s) PROVE Ended(s) = s
  BY EndedKeeps DEF IsQueue

\* Who agrees with a queue up to the tail is one, too.
LEMMA EndedQueue ==
    ASSUME NEW s \in Lists, NEW u \in Lists, IsQueue(s),
           u.head = s.head, u.tail = s.tail,
           \A a \in Items(s) : a # s.tail => u.one[a] = s.one[a]
    PROVE  IsQueue(Ended(u)) /\ Items(Ended(u)) = Items(s)
<1> DEFINE e == Ended(u)
<1>1. /\ e \in Lists /\ e.head = s.head /\ e.tail = s.tail
      /\ \A a \in Addr : a # s.tail => e.one[a] = u.one[a]
      /\ s.tail # NULL => e.one[s.tail] = NULL
  BY EndedKeeps
<1> HIDE DEF e
<1>2. Items(s) \subseteq Addr /\ (s.tail \in Items(s) => s.tail # NULL /\ s.one[s.tail] = NULL)
  <2>1. s.head \in Link /\ s.one \in [Addr -> Link]
    BY DEF Lists
  <2>2. Items(s) \subseteq Addr
    BY <2>1, ChainClosed DEF Items, Closed
  <2> QED BY <2>2, NULLAssumption DEF IsQueue
<1>3. \A a \in Items(s) : e.one[a] = s.one[a]
  BY <1>1, <1>2
<1> QED BY <1>1, <1>3, SameQueue DEF e

\* Neither defaultScheduler_next nor defaultScheduler_admit sees what is left
\* there: they write over it.
LEMMA RotateWritesOver ==
    ASSUME NEW s \in Lists, IsQueue(Ended(s)) PROVE Rotate(s) = Rotate(Ended(s))
<1> DEFINE e == Ended(s)  h == s.head  t == s.tail
<1>1. /\ e \in Lists /\ e.head = h /\ e.tail = t
      /\ \A a \in Addr : a # t => e.one[a] = s.one[a]
      /\ t # NULL => t \in Addr /\ e.one[t] = NULL
      /\ t = NULL => e = s
      /\ h = NULL <=> t = NULL
      /\ s.one \in [Addr -> Link] /\ e.one \in [Addr -> Link] /\ h \in Link
  BY EndedKeeps DEF IsQueue, Lists
<1> HIDE DEF e
<1>2. CASE h = NULL
  BY <1>1, <1>2 DEF e
<1>3. CASE h # NULL /\ h # t
  <2>1. h \in Addr /\ t \in Addr /\ e.one[h] = s.one[h]
    BY <1>1, <1>3 DEF Link
  <2>2. [s.one EXCEPT ![t] = h] = [e.one EXCEPT ![t] = h]
    BY <1>1, <2>1
  <2>3. CASE s.one[h] = NULL
    <3>1. h \in Items(e)
      BY <1>1, <1>3, ChainClosed DEF Items, Closed
    <3> QED BY <2>1, <2>3, <3>1, <1>1, <1>3 DEF IsQueue, e
  <2>4. CASE s.one[h] # NULL
    <3>1. Rotate(s) = [head |-> [s.one EXCEPT ![t] = h][h], tail |-> h,
                       one |-> [[s.one EXCEPT ![t] = h] EXCEPT ![h] = NULL]]
      BY <1>3, <2>4 DEF Rotate
    <3>2. Rotate(e) = [head |-> [e.one EXCEPT ![t] = h][h], tail |-> h,
                       one |-> [[e.one EXCEPT ![t] = h] EXCEPT ![h] = NULL]]
      BY <1>1, <1>3, <2>1, <2>4 DEF Rotate
    <3> QED BY <2>2, <3>1, <3>2 DEF e
  <2> QED BY <2>3, <2>4
<1>4. CASE h # NULL /\ h = t
  <2>1. h \in Addr /\ e.one[h] = NULL
    BY <1>1, <1>4
  <2>2. Rotate(e) = e
    BY <1>1, <2>1 DEF Rotate
  <2>3. CASE s.one[h] = NULL
    <3>1. e = s
      BY <2>3, <1>4, EndedKeeps DEF e
    <3> QED BY <3>1 DEF e
  <2>4. CASE s.one[h] # NULL
    <3>1. [s.one EXCEPT ![h] = h][h] = h
          /\ [[s.one EXCEPT ![h] = h] EXCEPT ![h] = NULL] = e.one
      BY <1>1, <1>4, <2>1
    <3>2. Rotate(s) = [head |-> h, tail |-> h, one |-> e.one]
      BY <1>4, <2>4, <3>1 DEF Rotate
    <3>3. e = [head |-> h, tail |-> h, one |-> e.one]
      BY <1>1, <1>4 DEF Lists
    <3> QED BY <2>2, <3>2, <3>3 DEF e
  <2> QED BY <2>3, <2>4
<1> QED BY <1>2, <1>3, <1>4

LEMMA AdmitWritesOver ==
    ASSUME NEW s \in Lists, NEW t PROVE Admit(s, t) = Admit(Ended(s), t)
<1> DEFINE e == Ended(s)
<1>1. /\ e \in Lists /\ e.head = s.head /\ e.tail = s.tail
      /\ \A a \in Addr : a # s.tail => e.one[a] = s.one[a]
      /\ s.tail # NULL => s.tail \in Addr
      /\ s.tail = NULL => e = s
      /\ s.one \in [Addr -> Link] /\ e.one \in [Addr -> Link]
  BY EndedKeeps DEF Lists
<1> HIDE DEF e
<1>2. CASE s.tail = NULL
  BY <1>1, <1>2 DEF e
<1>3. CASE s.tail # NULL
  <2>1. [s.one EXCEPT ![s.tail] = t] = [e.one EXCEPT ![s.tail] = t]
    BY <1>1, <1>3
  <2>2. Admit(s, t) = [s EXCEPT !.tail = t, !.one = [s.one EXCEPT ![s.tail] = t]]
    BY <1>3 DEF Admit
  <2>3. Admit(e, t) = [e EXCEPT !.tail = t, !.one = [e.one EXCEPT ![s.tail] = t]]
    BY <1>1, <1>3 DEF Admit
  <2> DEFINE new == [s.one EXCEPT ![s.tail] = t]
  <2>4. Admit(s, t) = [s EXCEPT !.tail = t, !.one = new]
        /\ Admit(e, t) = [e EXCEPT !.tail = t, !.one = new]
    BY <2>1, <2>2, <2>3
  <2> HIDE DEF new
  <2>5. /\ Admit(s, t) = [head |-> s.head, tail |-> t, one |-> new]
        /\ Admit(e, t) = [head |-> e.head, tail |-> t, one |-> new]
    BY <2>4, <1>1 DEF Lists
  <2> QED BY <2>5, <1>1 DEF e
<1> QED BY <1>2, <1>3

\* defaultScheduler_remove, which searches the list, finds the same predecessor
\* of a thread in it as without that link.
LEMMA SameBefore ==
    ASSUME NEW s \in Lists, IsQueue(Ended(s)),
           NEW victim \in Items(Ended(s)), victim # s.head
    PROVE  Before(victim, s.head, s.one) = Before(victim, s.head, Ended(s).one)
<1> DEFINE e == Ended(s)  h == s.head  t == s.tail
           L == Items(e)
           M == {c \in L : victim \in Chain(c, e.one)}
           cut == [s.one EXCEPT ![victim] = NULL]
           B == Before(victim, h, s.one)
           E == Before(victim, h, e.one)
<1>1. /\ e \in Lists /\ e.head = h /\ e.tail = t
      /\ \A a \in Addr : a # t => e.one[a] = s.one[a]
      /\ t # NULL => t \in Addr /\ e.one[t] = NULL
      /\ s.one \in [Addr -> Link] /\ e.one \in [Addr -> Link] /\ h \in Link
  BY EndedKeeps DEF Lists
<1> HIDE DEF e
<1>2. Closed(L, h, e.one) /\ L = Chain(h, e.one) /\ victim \in L /\ victim \in Addr
  <2>1. L = Chain(h, e.one) /\ victim \in L
    BY <1>1 DEF Items, e
  <2>2. Closed(Chain(h, e.one), h, e.one)
    BY <1>1, ChainClosed
  <2> QED BY <2>1, <2>2 DEF Closed
<1>3. \A a, b \in L : e.one[a] = e.one[b] /\ e.one[a] # NULL => a = b
  BY <1>1 DEF IsQueue, Linked, Items, e
<1>4. cut \in [Addr -> Link] /\ \A a \in Addr : cut[a] = IF a = victim THEN NULL ELSE s.one[a]
  BY <1>1 DEF Link
<1> HIDE DEF L
<1>5. ASSUME NEW c \in M, c # victim
      PROVE  c \in L /\ c # t /\ e.one[c] = s.one[c] /\ s.one[c] \in M \cup {NULL}
  <2>1. c \in L /\ c \in Addr /\ victim \in Chain(c, e.one) /\ c \in Link
    BY <1>2 DEF Closed, Link
  <2>2. c # t
    <3> SUFFICES ASSUME c = t PROVE FALSE
      OBVIOUS
    <3>1. Closed({c}, c, e.one)
      BY <1>1, <2>1, NULLAssumption DEF Closed
    <3> QED BY <3>1, <2>1, <1>5, ChainLeast, NULLAssumption
  <2>3. e.one[c] = s.one[c] /\ e.one[c] \in L \cup {NULL}
    BY <1>1, <1>2, <2>1, <2>2 DEF Closed
  <2> DEFINE d == e.one[c]  R == Chain(d, e.one)
  <2>4. Closed(R, d, e.one)
    <3>1. d \in Link
      BY <1>1, <2>1
    <3> QED BY <3>1, <1>1, ChainClosed
  <2> HIDE DEF R
  <2>5. Closed(R \cup {c}, c, e.one)
    BY <2>1, <2>4 DEF Closed
  <2>6. victim \in R
    BY <2>5, <2>1, <1>5, ChainLeast, NULLAssumption
  <2> QED BY <2>1, <2>2, <2>3, <2>6 DEF R
<1>6. h \in M
  <2>1. h # NULL
    BY <1>2, ChainEmpty
  <2> QED BY <2>1, <1>2 DEF Closed
<1>7. M \subseteq L
  OBVIOUS
<1> HIDE DEF M
<1>8. Closed(M, h, cut)
  BY <1>2, <1>4, <1>5, <1>6, <1>7 DEF Closed
<1>9. Chain(h, cut) \subseteq M
  BY <1>8, ChainLeast, NULLAssumption
<1>10. \A b \in B : b \in L /\ e.one[b] = victim
  <2>1. B = {p \in Chain(h, cut) : p # victim /\ s.one[p] = victim}
    BY DEF Before
  <2> QED BY <2>1, <1>5, <1>9
<1>11. \A b \in E : b \in L /\ e.one[b] = victim
  BY <1>1, <1>2, Found
<1>12. E # {}
  BY <1>1, <1>2, Predecessor DEF L
<1>13. B # {}
  <2> DEFINE C == Chain(h, s.one)
  <2>1. Closed(C, h, s.one)
    BY <1>1, ChainClosed
  <2> HIDE DEF C
  <2>2. Closed(C, h, e.one)
    BY <2>1, <1>1, NULLAssumption DEF Closed
  <2>3. victim \in C
    BY <2>2, <1>2, ChainLeast, NULLAssumption
  <2> QED BY <2>3, <1>1, Predecessor DEF C
<1>14. victim # NULL
  BY <1>2, NULLAssumption
<1> HIDE DEF B, E
<1>15. B = E
  BY <1>3, <1>10, <1>11, <1>12, <1>13, <1>14
<1> QED BY <1>15 DEF B, E, e

\* What it leaves is then the same up to the tail.
LEMMA RemoveEnded ==
    ASSUME NEW s \in Lists, IsQueue(Ended(s)), NEW victim \in Addr
    PROVE  LET left == Remove(s, victim) IN
           /\ left \in Lists /\ IsQueue(Ended(left))
           /\ Items(Ended(left)) \subseteq Items(Ended(s)) \ {victim}
           /\ victim \in Items(Ended(s)) =>
                 Items(Ended(left)) = Items(Ended(s)) \ {victim}
<1> DEFINE e == Ended(s)  h == s.head  t == s.tail  L == Items(e)
           left == Remove(s, victim)
           r == Remove(e, victim)
<1>1. /\ e \in Lists /\ e.head = h /\ e.tail = t /\ IsQueue(e)
      /\ \A a \in Addr : a # t => e.one[a] = s.one[a]
      /\ t # NULL => t \in Addr /\ e.one[t] = NULL
      /\ s.one \in [Addr -> Link] /\ e.one \in [Addr -> Link] /\ h \in Link /\ t \in Link
  BY EndedKeeps DEF Lists
<1> HIDE DEF e
<1>2. /\ r \in Lists /\ IsQueue(r) /\ Items(r) \subseteq L \ {victim}
      /\ victim \in L => Items(r) = L \ {victim}
  BY <1>1, RemoveKeeps
<1>3. Closed(L, h, e.one) /\ L = Chain(h, e.one)
  BY <1>1, ChainClosed DEF Items
<1>4. /\ \A a \in L : e.one[a] # h
      /\ h # NULL => t \in L
      /\ h = NULL <=> t = NULL
  BY <1>1, <1>3 DEF IsQueue, Linked
<1> HIDE DEF L
<1> SUFFICES /\ left \in Lists /\ left.head = r.head /\ left.tail = r.tail
             /\ \A a \in Items(r) : a # r.tail => left.one[a] = r.one[a]
  <2> HIDE DEF left, r
  <2>1. IsQueue(Ended(left)) /\ Items(Ended(left)) = Items(r)
    BY <1>2, EndedQueue
  <2> QED BY <2>1, <1>2 DEF left, L, e
<1>5. CASE h = t
  <2>1. left = [s EXCEPT !.head = NULL, !.tail = NULL]
        /\ r = [e EXCEPT !.head = NULL, !.tail = NULL]
    BY <1>1, <1>5 DEF Remove
  <2>2. left \in Lists /\ left.head = NULL /\ left.tail = NULL
        /\ r.head = NULL /\ r.tail = NULL
    BY <2>1, <1>1 DEF Lists, Link
  <2> HIDE DEF left, r
  <2>3. Items(r) = {}
    BY <2>2, ChainEmpty DEF Items
  <2> QED BY <2>2, <2>3
<1>6. CASE h # t
  <2>0. h # NULL /\ h \in Addr /\ t # NULL /\ t \in Addr /\ t \in L /\ h \in L
        /\ e.one[h] = s.one[h]
    BY <1>1, <1>3, <1>4, <1>6 DEF Link, Closed
  <2> DEFINE first == SearchedFrom(s, victim)
             B == Before(victim, first, s.one)
             p == CHOOSE p \in B : TRUE
  <2>1. first = SearchedFrom(e, victim) /\ first \in Link
    BY <1>1, <2>0 DEF SearchedFrom
  <2>2. left = IF B = {} THEN [s EXCEPT !.head = first]
               ELSE [head |-> first, tail |-> IF victim = t THEN p ELSE t,
                     one |-> [s.one EXCEPT ![p] = s.one[victim]]]
    BY <1>6 DEF Remove
  <2>3. B # {} => p \in B /\ p \in Addr /\ s.one[p] = victim
    <3>1. B # {} => p \in B
      OBVIOUS
    <3> HIDE DEF p
    <3> QED BY <3>1, <2>1, <1>1, Found
  <2> HIDE DEF p
  <2> DEFINE one == IF B = {} THEN s.one ELSE [s.one EXCEPT ![p] = s.one[victim]]
             tail == IF B # {} /\ victim = t THEN p ELSE t
  <2>4. one \in [Addr -> Link] /\ tail \in Link
    BY <1>1, <2>3 DEF Link
  <2>5. left \in Lists /\ left.head = first /\ left.tail = tail /\ left.one = one
    <3>1. s = [head |-> s.head, tail |-> s.tail, one |-> s.one]
      BY DEF Lists
    <3>2. left = [head |-> first, tail |-> tail, one |-> one]
      BY <2>2, <3>1
    <3> HIDE DEF left, one, tail, first
    <3> QED BY <3>2, <2>1, <2>4 DEF Lists
  <2> DEFINE G == Before(victim, first, e.one)
             g == CHOOSE g \in G : TRUE
  <2>6. r = IF G = {} THEN [e EXCEPT !.head = first]
            ELSE [head |-> first, tail |-> IF victim = t THEN g ELSE t,
                  one |-> [e.one EXCEPT ![g] = e.one[victim]]]
    BY <1>1, <1>6, <2>1 DEF Remove
  <2> HIDE DEF left, first
  <2>7. CASE victim \in L /\ victim # h
    <3>1. first = h
      BY <2>7 DEF first, SearchedFrom
    <3>2. G = B /\ G # {}
      <4>1. B = G
        BY <3>1, <2>7, SameBefore DEF L, e
      <4>2. G # {}
        BY <3>1, <2>7, <1>1, <1>3, Predecessor
      <4> QED BY <4>1, <4>2
    <3>3. g = p
      BY <3>2 DEF p
    <3> HIDE DEF B, G, g
    <3>4. r = [head |-> first, tail |-> tail, one |-> [e.one EXCEPT ![p] = e.one[victim]]]
      BY <2>6, <3>2, <3>3
    <3>5. one = [s.one EXCEPT ![p] = s.one[victim]]
      BY <3>2
    <3>6. ASSUME NEW a \in Items(r), a # tail PROVE one[a] = r.one[a]
      <4>1. a \in L \ {victim} /\ a \in Addr
        BY <1>2, <1>3 DEF Closed
      <4>2. a # t
        BY <4>1, <3>2, <3>6
      <4>3. e.one[a] = s.one[a]
        BY <4>1, <4>2, <1>1
      <4>4. CASE a = p
        <5>1. victim # t
          BY <4>4, <3>2, <3>6
        <5>2. e.one[victim] = s.one[victim]
          BY <5>1, <1>1
        <5> QED BY <4>1, <4>4, <5>2, <3>4, <3>5, <1>1
      <4>5. CASE a # p
        BY <4>1, <4>3, <4>5, <3>4, <3>5, <1>1
      <4> QED BY <4>4, <4>5
    <3>7. r.head = first /\ r.tail = tail
      BY <3>4
    <3> HIDE DEF r, one, tail
    <3> QED BY <2>5, <3>6, <3>7
  <2>8. CASE ~(victim \in L /\ victim # h)
    <3>1. victim # t
      BY <2>0, <2>8, <1>6
    <3>2. G = {}
      <4>1. CASE victim = h
        <5>1. first = e.one[h]
          BY <4>1, <2>0 DEF first, SearchedFrom
        <5>2. h \notin Chain(first, e.one)
          BY <5>1, <2>0, <1>1, Beheaded DEF IsQueue
        <5> QED BY <4>1, <5>2, <2>0, <2>1, <1>1, NoPredecessor
      <4>2. CASE victim # h
        <5>1. first = h /\ victim \notin L
          BY <4>2, <2>8 DEF first, SearchedFrom
        <5> QED BY <5>1, <1>1, <1>3, NoPredecessor
      <4> QED BY <4>1, <4>2
    <3>3. r = [e EXCEPT !.head = first]
      BY <2>6, <3>2
    <3>4. r.head = first /\ r.tail = t /\ r.one = e.one
      BY <3>3, <1>1 DEF Lists
    <3>5. tail = t
      BY <3>1
    <3>6. ASSUME NEW a \in Items(r), a # t PROVE one[a] = e.one[a]
      <4>1. a \in L /\ a \in Addr /\ e.one[a] = s.one[a]
        BY <3>6, <1>1, <1>2, <1>3 DEF Closed
      <4>2. B # {} => a # p
        <5> SUFFICES ASSUME B # {}, a = p PROVE FALSE
          OBVIOUS
        <5>1. e.one[a] = victim
          BY <4>1, <2>3
        <5>2. victim \in L
          BY <5>1, <4>1, <1>3, NULLAssumption DEF Closed
        <5>3. victim = h
          BY <5>2, <2>8
        <5> QED BY <5>1, <5>3, <4>1, <1>4
      <4> QED BY <4>1, <4>2, <2>3, <1>1
    <3> HIDE DEF r, one, tail
    <3> QED BY <2>5, <3>4, <3>5, <3>6
  <2> QED BY <2>7, <2>8
<1> QED BY <1>5, <1>6

-----------------------------------------------------------------------------
(***************************************************************************)
(* A list made of a set of threads.                                        *)
(***************************************************************************)
LEMMA LeastNumber ==
    ASSUME NEW T \in SUBSET Nat, T # {}
    PROVE  \E n \in T : \A m \in T : ~ (m < n)
<1> DEFINE R == OpToRel(<, Nat)
<1>1. \A x, y \in Nat : x < y => <<x, y>> \in R
  BY Zenon DEF OpToRel
<1>2. IsWellFoundedOn(R, Nat)
  BY NatLessThanWellFounded, Zenon
<1> HIDE DEF R
<1>3. PICK n \in T : \A m \in T : ~ (<<m, n>> \in R)
  BY <1>2, WFMin
<1> QED BY <1>1, <1>3

LEMMA OrdersAreSequences ==
    ASSUME NEW S \in SUBSET Addr, S # {}, NEW q \in Orders(S)
    PROVE  /\ Len(q) \in Nat \ {0} /\ DOMAIN q = 1 .. Len(q)
           /\ q \in [1 .. Len(q) -> S]
           /\ \A i, j \in 1 .. Len(q) : q[i] = q[j] => i = j
           /\ \A t \in S : \E i \in 1 .. Len(q) : q[i] = t
<1> DEFINE n == Cardinality(S)
<1>1. IsFiniteSet(S)
  BY FS_Subset, AddrAssumption
<1>2. n \in Nat
  BY <1>1, FS_CardinalityType
<1> HIDE DEF n
<1>3. /\ q \in [1 .. n -> S]
      /\ \A i, j \in 1 .. n : q[i] = q[j] => i = j
      /\ \A t \in S : \E i \in 1 .. n : q[i] = t
  BY DEF Orders, Bijection, Injection, Surjection, IsInjective, n
<1>4. q \in Seq(S)
  BY <1>2, <1>3, SeqDef
<1>5. Len(q) \in Nat /\ DOMAIN q = 1 .. Len(q)
  BY <1>4, LenProperties
<1>6. Len(q) = n
  BY <1>2, <1>3, <1>5
<1>7. n # 0
  BY <1>3
<1> QED BY <1>2, <1>3, <1>5, <1>6, <1>7

LEMMA QueueUpMakes ==
    ASSUME NEW S \in SUBSET Addr, S # {}, NEW q \in Orders(S),
           NEW one \in [Addr -> Link], one[q[Len(q)]] = NULL
    PROVE  LET made == QueueUp(q, one) IN
           made \in Lists /\ IsQueue(made) /\ Items(made) = S
<1> DEFINE n == Len(q)
           Place(a) == CHOOSE i \in 1 .. n - 1 : q[i] = a
           new == [a \in Addr |-> IF \E i \in 1 .. n - 1 : q[i] = a
                                  THEN q[Place(a) + 1] ELSE one[a]]
           D == Chain(q[1], new)
<1>1. /\ n \in Nat \ {0} /\ DOMAIN q = 1 .. n
      /\ q \in [1 .. n -> S]
      /\ \A i, j \in 1 .. n : q[i] = q[j] => i = j
      /\ \A t \in S : \E i \in 1 .. n : q[i] = t
  BY OrdersAreSequences
<1>2. \A a \in S : a \in Addr /\ a # NULL
  BY NULLAssumption
<1>3. QueueUp(q, one) = [head |-> q[1], tail |-> q[n], one |-> new]
  BY DEF QueueUp
<1>0. one[q[n]] = NULL
  OBVIOUS
<1> HIDE DEF n
<1>4. \A i \in 1 .. n : q[i] \in S
  BY <1>1
<1>5. ASSUME NEW i \in 1 .. n - 1 PROVE new[q[i]] = q[i + 1]
  <2>1. i \in 1 .. n /\ q[i] \in Addr
    BY <1>1, <1>2, <1>4
  <2>2. Place(q[i]) \in 1 .. n - 1 /\ q[Place(q[i])] = q[i]
    OBVIOUS
  <2> HIDE DEF Place
  <2>3. Place(q[i]) = i
    BY <1>1, <2>1, <2>2
  <2> QED BY <2>1, <2>3
<1>6. new[q[n]] = NULL
  <2>1. n \in 1 .. n /\ q[n] \in S
    BY <1>1, <1>4
  <2>2. \A i \in 1 .. n - 1 : i \in 1 .. n /\ i # n
    BY <1>1
  <2>3. ~ \E i \in 1 .. n - 1 : q[i] = q[n]
    BY <1>1, <2>1, <2>2
  <2> QED BY <1>0, <1>2, <2>1, <2>3
<1>7. \A a \in Addr \ S : new[a] = one[a]
  <2> SUFFICES ASSUME NEW a \in Addr \ S PROVE new[a] = one[a]
    OBVIOUS
  <2>1. \A i \in 1 .. n - 1 : i \in 1 .. n
    BY <1>1
  <2>2. ~ \E i \in 1 .. n - 1 : q[i] = a
    BY <1>4, <2>1
  <2> QED BY <2>2
<1>8. \A a \in S : \/ a = q[n] /\ new[a] = NULL
                   \/ \E i \in 1 .. n - 1 : a = q[i] /\ new[a] = q[i + 1]
  <2> SUFFICES ASSUME NEW a \in S PROVE
        \/ a = q[n] /\ new[a] = NULL
        \/ \E i \in 1 .. n - 1 : a = q[i] /\ new[a] = q[i + 1]
    OBVIOUS
  <2>1. PICK i \in 1 .. n : q[i] = a
    BY <1>1
  <2>2. CASE i = n
    BY <2>1, <2>2, <1>6
  <2>3. CASE i # n
    <3>1. i \in 1 .. n - 1
      BY <2>3, <1>1
    <3> QED BY <3>1, <2>1, <1>5
  <2> QED BY <2>2, <2>3
<1>9. \A i \in 1 .. n - 1 : i \in 1 .. n /\ i + 1 \in 1 .. n /\ i + 1 # 1
  BY <1>1
<1>10. \A a \in S : new[a] \in S \cup {NULL} /\ new[a] # q[1]
  <2> SUFFICES ASSUME NEW a \in S
               PROVE  new[a] \in S \cup {NULL} /\ new[a] # q[1]
    OBVIOUS
  <2>1. 1 \in 1 .. n
    BY <1>1
  <2>2. CASE new[a] = NULL
    BY <2>1, <2>2, <1>2, <1>4
  <2>3. ASSUME NEW i \in 1 .. n - 1, new[a] = q[i + 1]
        PROVE  new[a] \in S /\ new[a] # q[1]
    BY <2>1, <2>3, <1>1, <1>4, <1>9
  <2> QED BY <1>8, <2>2, <2>3
<1>11. new \in [Addr -> Link]
  <2> SUFFICES ASSUME NEW a \in Addr PROVE new[a] \in Link
    OBVIOUS
  <2>1. CASE a \in S
    BY <2>1, <1>2, <1>10 DEF Link
  <2>2. CASE a \notin S
    BY <2>2, <1>7
  <2> QED BY <2>1, <2>2
<1>12. \A a, b \in S : new[a] = new[b] /\ new[a] # NULL => a = b
  <2> SUFFICES ASSUME NEW a \in S, NEW b \in S, new[a] = new[b], new[a] # NULL
               PROVE  a = b
    OBVIOUS
  <2>1. PICK i \in 1 .. n - 1 : a = q[i] /\ new[a] = q[i + 1]
    BY <1>8
  <2>2. PICK j \in 1 .. n - 1 : b = q[j] /\ new[b] = q[j + 1]
    BY <1>8
  <2>3. i + 1 = j + 1
    BY <1>1, <1>9, <2>1, <2>2
  <2>4. i = j
    BY <2>3
  <2> QED BY <2>1, <2>2, <2>4
<1>13. 1 \in 1 .. n /\ n \in 1 .. n /\ q[1] \in S /\ q[n] \in S
  BY <1>1, <1>4
<1> HIDE DEF new, D
<1>14. Closed(S, q[1], new)
  BY <1>10, <1>13 DEF Closed
<1>15. D \subseteq S
  BY <1>14, ChainLeast, NULLAssumption DEF D
<1>16. Closed(D, q[1], new)
  BY <1>2, <1>11, <1>13, ChainClosed DEF D, Link
<1>17. S \subseteq D
  <2> SUFFICES ASSUME NEW t \in S, t \notin D PROVE FALSE
    OBVIOUS
  <2> DEFINE T == {i \in 1 .. n : q[i] \notin D}
  <2>1. T \in SUBSET Nat /\ T # {}
    BY <1>1
  <2> HIDE DEF T
  <2>2. PICK i \in T : \A m \in T : ~ (m < i)
    BY <2>1, LeastNumber
  <2>3. i \in 1 .. n /\ q[i] \notin D
    BY <2>2 DEF T
  <2>4. q[1] \in D
    BY <1>2, <1>13, <1>16 DEF Closed
  <2>5. i - 1 \in 1 .. n - 1 /\ i - 1 \in 1 .. n /\ i - 1 < i /\ (i - 1) + 1 = i
    BY <1>1, <2>3, <2>4
  <2>6. q[i - 1] \in D
    BY <2>2, <2>5 DEF T
  <2>7. new[q[i - 1]] = q[i]
    BY <1>5, <2>5
  <2>8. q[i] \in D \cup {NULL}
    BY <1>16, <2>6, <2>7 DEF Closed
  <2> QED BY <1>2, <1>4, <2>3, <2>8
<1>18. D = S
  BY <1>15, <1>17
<1> DEFINE made == QueueUp(q, one)
<1>19. made \in Lists /\ made.head = q[1] /\ made.tail = q[n] /\ made.one = new
  BY <1>2, <1>3, <1>11, <1>13 DEF Lists, Link
<1> HIDE DEF made
<1>20. Items(made) = S
  BY <1>18, <1>19 DEF Items, D
<1>21. \A a \in S : new[a] = NULL => a = q[n]
  <2> SUFFICES ASSUME NEW a \in S, new[a] = NULL, a # q[n] PROVE FALSE
    OBVIOUS
  <2>1. PICK i \in 1 .. n - 1 : new[a] = q[i + 1]
    BY <1>8
  <2> QED BY <2>1, <1>2, <1>4, <1>9
<1>22. Linked(q[1], new)
  BY <1>10, <1>12, <1>18 DEF Linked, D
<1>23. IsQueue(made)
  BY <1>2, <1>6, <1>13, <1>19, <1>20, <1>21, <1>22 DEF IsQueue
<1> QED BY <1>19, <1>20, <1>23 DEF made

LEMMA HandedOver ==
    ASSUME NEW S \in SUBSET Addr, S # {}, NEW q \in Orders(S), NEW one \in [Addr -> Link]
    PROVE  LET made == QueueUp(q, one) IN
           /\ made \in Lists /\ IsQueue(Ended(made)) /\ Items(Ended(made)) = S
<1> DEFINE z == q[Len(q)]
           neat == [one EXCEPT ![z] = NULL]
           made == QueueUp(q, one)
           ideal == QueueUp(q, neat)
<1>1. /\ Len(q) \in Nat \ {0} /\ q \in [1 .. Len(q) -> S]
  BY OrdersAreSequences
<1>2. /\ \A i \in 1 .. Len(q) : q[i] \in Addr /\ q[i] # NULL
      /\ 1 \in 1 .. Len(q) /\ Len(q) \in 1 .. Len(q)
      /\ \A i \in 1 .. Len(q) - 1 : i + 1 \in 1 .. Len(q)
  BY <1>1, NULLAssumption
<1>3. neat \in [Addr -> Link] /\ neat[z] = NULL /\ \A a \in Addr \ {z} : neat[a] = one[a]
  BY <1>2 DEF Link
<1> HIDE DEF neat
<1>4. ideal \in Lists /\ IsQueue(ideal) /\ Items(ideal) = S
  BY <1>3, QueueUpMakes
<1>5. made.head = q[1] /\ made.tail = z /\ ideal.head = q[1] /\ ideal.tail = z
      /\ \A a \in Addr \ {z} : made.one[a] = ideal.one[a]
  BY <1>3 DEF QueueUp
<1>6. made.one \in [Addr -> Link]
  <2> DEFINE at(a) == CHOOSE i \in 1 .. Len(q) - 1 : q[i] = a
  <2>1. made.one = [a \in Addr |-> IF \E i \in 1 .. Len(q) - 1 : q[i] = a
                                   THEN q[at(a) + 1] ELSE one[a]]
    BY DEF QueueUp
  <2>2. ASSUME NEW a \in Addr, \E i \in 1 .. Len(q) - 1 : q[i] = a
        PROVE  q[at(a) + 1] \in Link
    <3>1. at(a) \in 1 .. Len(q) - 1
      BY <2>2
    <3> HIDE DEF at
    <3> QED BY <3>1, <1>2 DEF Link
  <2> HIDE DEF at
  <2> QED BY <2>1, <2>2
<1>7. made \in Lists
  <2>1. made = [head |-> made.head, tail |-> made.tail, one |-> made.one]
    BY DEF QueueUp
  <2>2. made.head \in Link /\ made.tail \in Link
    BY <1>2, <1>5 DEF Link
  <2> HIDE DEF made
  <2> QED BY <2>1, <2>2, <1>6 DEF Lists
<1>8. ideal.one[z] = NULL /\ z # NULL
  BY <1>2, <1>4, <1>5 DEF IsQueue
<1> HIDE DEF made, ideal, z
<1>9. IsQueue(Ended(made)) /\ Items(Ended(made)) = Items(ideal)
  BY <1>4, <1>5, <1>7, <1>8, EndedQueue
<1> QED BY <1>4, <1>7, <1>9 DEF made

-----------------------------------------------------------------------------
(***************************************************************************)
(* The inductive invariant.                                                *)
(***************************************************************************)
\* The default list up to its tail, and what is behind the tail.
QueueInv == IsQueue(Ended(sched)) /\ (handed = "no" => Ended(sched) = sched)
LibInv == Linked(head_lib, lib_one) /\ Chain(head_lib, lib_one) = live
TidInv ==
    /\ \A a \in live : tid[a] \in 1 .. currThreadID
    /\ \A a, b \in live : tid[a] = tid[b] => a = b
PoolInv ==
    /\ currScheduler # NULL => head_sched = NULL
    /\ \A s \in Scheduler : s # currScheduler => pool[s] = {}
\* A scheduler that forgets its threads may lose some, and invents none.
SchedInv == Scheduled \subseteq live /\ (dropped = "no" => Scheduled = live)
CurrentInv == where \in {"thread", "loop"} => currentThread \in live
\* A thread leaves one message at most for lwp_start, which takes it.
FlagsInv ==
    /\ where \in {"main", "thread"} => ~stopFlag /\ ~yieldFlag
    /\ where = "loop" => ~(stopFlag /\ yieldFlag)

IInv ==
    /\ TypeOK /\ QueueInv /\ LibInv /\ TidInv /\ PoolInv /\ SchedInv
    /\ CurrentInv /\ FlagsInv

LEMMA ListedItems == Listed = Items(Ended(sched))
  BY DEF Listed, Items

LEMMA Types ==
    ASSUME TypeOK
    PROVE  /\ sched \in Lists /\ lib \in [head : Link, one : [Addr -> Link]]
           /\ head_lib \in Link /\ lib_one \in [Addr -> Link]
           /\ sched_one \in [Addr -> Link] /\ currentThread \in Link
BY DEF TypeOK, sched, lib, Lists, Link

LEMMA ListedAreLive == ASSUME IInv PROVE Listed \subseteq live
<1>1. CASE currScheduler = NULL
  BY <1>1 DEF IInv, SchedInv, Scheduled
<1>2. CASE currScheduler # NULL
  <2>1. sched \in Lists /\ sched.head = NULL
    BY <1>2, Types DEF IInv, PoolInv, sched
  <2>2. Ended(sched).head = NULL
    BY <2>1, EndedKeeps
  <2> QED BY <2>2, ChainEmpty, ListedItems DEF Items
<1> QED BY <1>1, <1>2

\* A list that nobody has handed over is a queue as it stands.
LEMMA IsQueueNow ==
    ASSUME NEW s \in Lists, IsQueue(s), sched' = s
    PROVE  IsQueue(Ended(sched)') /\ Ended(sched)' = sched' /\ Listed' = Items(s)
<1>1. Ended(s) = s
  BY QueueIsEnded
<1>2. Ended(sched)' = s
  BY <1>1 DEF Ended
<1> QED BY <1>2, ListedItems DEF Listed, Items

LEMMA DispatchKeeps ==
    ASSUME NEW s \in Lists, NEW held \in SUBSET Addr, IsQueue(Ended(s)),
           Dispatch(s, held), currentThread \in Link,
           currScheduler # NULL => s.head = NULL
    PROVE  /\ sched' \in Lists /\ QueueInv' /\ Listed' = Items(Ended(s))
           /\ s.head = NULL => head_sched' = NULL
           /\ where' \in {"main", "thread"} /\ currentThread' \in Link
           /\ where' = "thread" =>
                 currentThread' \in IF currScheduler = NULL THEN Items(Ended(s)) ELSE held
           /\ handed' = "no"
<1> DEFINE e == Ended(s)
<1>0. e \in Lists /\ e.head = s.head /\ IsQueue(e) /\ (s.tail = NULL => e = s)
      /\ (s.head = NULL => s.tail = NULL)
  BY EndedKeeps DEF IsQueue
<1> HIDE DEF e
<1>1. CASE SetSched(Rotate(s)) /\ s.head # NULL /\ currentThread' = s.head
           /\ where' = "thread" /\ currScheduler = NULL
  <2>1. Rotate(e) \in Lists /\ IsQueue(Rotate(e)) /\ Items(Rotate(e)) = Items(e)
    BY <1>0, RotateKeeps
  <2>2. Rotate(s) = Rotate(e)
    BY RotateWritesOver DEF e
  <2>3. sched' = Rotate(e) /\ handed' = "no"
    BY <1>1, <2>1, <2>2 DEF SetSched, sched, Lists
  <2>4. IsQueue(Ended(sched)') /\ Ended(sched)' = sched' /\ Listed' = Items(Rotate(e))
    BY <2>1, <2>3, IsQueueNow
  <2>5. s.head \in Items(e) /\ s.head \in Link
    BY <1>0, <1>1, ChainClosed DEF Closed, Items, Lists
  <2> QED BY <1>1, <2>1, <2>3, <2>4, <2>5 DEF e, QueueInv
<1>2. CASE SetSched(s) /\ where' \in {"main", "thread"} /\ s.head = NULL
           /\ (where' = "thread" => currScheduler # NULL /\ currentThread' \in held)
           /\ (where' = "main" => currentThread' = currentThread)
  <2>1. IsQueue(s) /\ e = s
    BY <1>0, <1>2
  <2>2. sched' = s /\ head_sched' = s.head /\ handed' = "no"
    BY <1>2 DEF SetSched, sched, Lists
  <2>3. IsQueue(Ended(sched)') /\ Ended(sched)' = sched' /\ Listed' = Items(s)
    BY <2>1, <2>2, IsQueueNow
  <2>4. currentThread' \in Link
    BY <1>2 DEF Link
  <2> QED BY <1>2, <2>1, <2>2, <2>3, <2>4 DEF e, QueueInv
<1>3. SetSched(s) => s.head = NULL \/ currScheduler = NULL
  OBVIOUS
<1> QED BY <1>1, <1>2 DEF Dispatch

-----------------------------------------------------------------------------
(***************************************************************************)
(* Every step keeps it.                                                    *)
(***************************************************************************)
LEMMA InitHolds == Init => IInv
<1> SUFFICES ASSUME Init PROVE IInv
  OBVIOUS
<1>1. TypeOK
  <2>1. 0 \in -1 .. MaxTid /\ 1 \in 1 .. MaxTid
    BY MaxTidAssumption
  <2>2. tid \in [Addr -> -1 .. MaxTid] /\ currThreadID \in 1 .. MaxTid
    BY <2>1 DEF Init
  <2> QED BY <2>2 DEF Init, TypeOK
<1>2. sched \in Lists /\ sched.head = NULL /\ sched.tail = NULL
  BY <1>1, Types DEF Init, sched
<1>3. IsQueue(sched) /\ Items(sched) = {} /\ Ended(sched) = sched
  BY <1>2, EmptyQueue, QueueIsEnded
<1>4. Chain(head_lib, lib_one) = {}
  BY ChainEmpty DEF Init
<1>5. LibInv
  BY <1>4 DEF LibInv, Linked, Init
<1>6. SchedInv
  BY <1>3, ListedItems DEF SchedInv, Scheduled, Init
<1>7. QueueInv /\ TidInv /\ PoolInv /\ CurrentInv /\ FlagsInv
  BY <1>3 DEF QueueInv, TidInv, PoolInv, CurrentInv, FlagsInv, Init
<1> QED BY <1>1, <1>5, <1>6, <1>7 DEF IInv

\* lwp_create gives the default scheduler the thread, in a structure that calloc
\* has zeroed.
LEMMA AdmitAfterZeroing ==
    ASSUME NEW s \in Lists, IsQueue(Ended(s)), NEW t \in Addr, t \notin Items(Ended(s))
    PROVE  LET zeroed == [s EXCEPT !.one[t] = NULL] IN
           /\ zeroed \in Lists /\ zeroed.head = s.head /\ zeroed.tail = s.tail
           /\ Admit(zeroed, t) \in Lists /\ IsQueue(Admit(zeroed, t))
           /\ Items(Admit(zeroed, t)) = Items(Ended(s)) \cup {t}
<1> DEFINE zeroed == [s EXCEPT !.one[t] = NULL]
           e == Ended(s)  z == Ended(zeroed)
<1>1. /\ zeroed \in Lists /\ zeroed.head = s.head /\ zeroed.tail = s.tail
      /\ zeroed.one = [s.one EXCEPT ![t] = NULL]
  BY DEF Lists, Link
<1>2. /\ zeroed.one[t] = NULL /\ \A a \in Addr \ {t} : zeroed.one[a] = s.one[a]
  <2>1. s.one \in [Addr -> Link]
    BY DEF Lists
  <2> QED BY <2>1, <1>1
<1> HIDE DEF zeroed
<1>3. /\ e \in Lists /\ e.head = s.head /\ e.tail = s.tail
      /\ \A a \in Addr : a # s.tail => e.one[a] = s.one[a]
  BY EndedKeeps
<1> HIDE DEF e
<1>4. Items(e) \subseteq Addr \ {t}
  <2>1. e.head \in Link /\ e.one \in [Addr -> Link]
    BY <1>3 DEF Lists
  <2> QED BY <2>1, ChainClosed DEF Items, Closed, e
<1>5. IsQueue(z) /\ Items(z) = Items(e)
  <2>1. \A a \in Items(e) : a # e.tail => zeroed.one[a] = e.one[a]
    BY <1>2, <1>3, <1>4
  <2> QED BY <2>1, <1>1, <1>3, EndedQueue DEF e
<1>6. z \in Lists /\ z.one[t] = NULL
  BY <1>1, <1>2, EndedKeeps
<1> HIDE DEF z
<1>7. Admit(z, t) \in Lists /\ IsQueue(Admit(z, t)) /\ Items(Admit(z, t)) = Items(e) \cup {t}
  BY <1>4, <1>5, <1>6, AdmitKeeps
<1>8. Admit(zeroed, t) = Admit(z, t)
  BY <1>1, AdmitWritesOver DEF z
<1> QED BY <1>1, <1>7, <1>8 DEF e, zeroed

LEMMA CreateKeeps ==
    ASSUME IInv, NEW t \in Addr, Create(t) PROVE IInv'
<1> DEFINE zeroed == [sched EXCEPT !.one[t] = NULL]
<1>0. /\ TypeOK /\ sched \in Lists /\ IsQueue(Ended(sched)) /\ t # NULL
      /\ head_lib \in Link /\ lib_one \in [Addr -> Link]
      /\ Listed = Items(Ended(sched))
  BY Types, NULLAssumption, ListedItems DEF IInv, QueueInv
<1>1. t \notin live /\ live' = live \cup {t} /\ t \notin Listed /\ live \subseteq Addr
  BY <1>0, ListedAreLive DEF Create, TypeOK
<1>2. /\ zeroed \in Lists /\ zeroed.head = head_sched /\ zeroed.tail = sched.tail
      /\ Admit(zeroed, t) \in Lists /\ IsQueue(Admit(zeroed, t))
      /\ Items(Admit(zeroed, t)) = Listed \cup {t}
  <2>1. /\ zeroed \in Lists /\ zeroed.head = sched.head /\ zeroed.tail = sched.tail
        /\ Admit(zeroed, t) \in Lists /\ IsQueue(Admit(zeroed, t))
        /\ Items(Admit(zeroed, t)) = Items(Ended(sched)) \cup {t}
    BY <1>0, <1>1, AdmitAfterZeroing
  <2>2. sched.head = head_sched
    BY DEF sched
  <2> HIDE DEF zeroed
  <2> QED BY <2>1, <2>2, <1>0
<1> HIDE DEF zeroed
<1>6. /\ sched' \in Lists /\ QueueInv'
      /\ currScheduler # NULL => head_sched' = head_sched
      /\ Scheduled' = Scheduled \cup {t}
      /\ pool' \in [Scheduler -> SUBSET Addr]
      /\ \A s \in Scheduler : s # currScheduler => pool'[s] = pool[s]
  <2>1. CASE currScheduler = NULL
    <3>1. SetSched(Admit(zeroed, t)) /\ pool' = pool /\ currScheduler' = NULL
      BY <2>1 DEF Create, zeroed
    <3>3. sched' = Admit(zeroed, t)
      BY <3>1, <1>2 DEF SetSched, sched, Lists
    <3>4. IsQueue(Ended(sched)') /\ Ended(sched)' = sched' /\ Listed' = Listed \cup {t}
      BY <3>3, <1>2, IsQueueNow
    <3>5. Scheduled' = Listed' /\ Scheduled = Listed
      BY <2>1, <3>1 DEF Scheduled
    <3> QED BY <2>1, <3>1, <3>3, <3>4, <3>5, <1>0, <1>2 DEF TypeOK, QueueInv
  <2>2. CASE currScheduler # NULL
    <3>1. /\ SetSched(zeroed) /\ currScheduler' = currScheduler
          /\ pool' = [pool EXCEPT ![currScheduler] = @ \cup {t}]
          /\ currScheduler \in Scheduler /\ pool \in [Scheduler -> SUBSET Addr]
          /\ head_sched = NULL
      BY <2>2, <1>0 DEF Create, zeroed, TypeOK, IInv, PoolInv
    <3>2. sched' = zeroed /\ head_sched' = head_sched
      BY <3>1, <1>2 DEF SetSched, sched, Lists
    <3>3. pool' \in [Scheduler -> SUBSET Addr]
          /\ pool'[currScheduler] = pool[currScheduler] \cup {t}
          /\ \A s \in Scheduler : s # currScheduler => pool'[s] = pool[s]
      BY <3>1
    <3>4. Scheduled' = pool'[currScheduler] /\ Scheduled = pool[currScheduler]
      BY <2>2, <3>1 DEF Scheduled, Held
    <3>5. IsQueue(zeroed)
      <4>1. Ended(sched).head = sched.head /\ Ended(sched).tail = sched.tail
            /\ sched.head = head_sched
        BY <1>0, EndedKeeps DEF sched
      <4>2. zeroed.head = NULL /\ zeroed.tail = NULL
        BY <4>1, <3>1, <1>0, <1>2 DEF IsQueue
      <4> QED BY <4>2, <1>2, EmptyQueue
    <3>6. QueueInv'
      BY <3>2, <3>5, <1>2, IsQueueNow DEF QueueInv
    <3> QED BY <2>2, <3>2, <3>3, <3>4, <3>6, <1>2
  <2> QED BY <2>1, <2>2
<1>7. LibInv'
  <2>1. head_lib' = t /\ lib_one' = [lib_one EXCEPT ![t] = head_lib]
    BY DEF Create
  <2>2. Linked(head_lib, lib_one) /\ Chain(head_lib, lib_one) = live
    BY DEF IInv, LibInv
  <2> DEFINE new == [lib_one EXCEPT ![t] = head_lib]
  <2>3. Chain(t, new) = Chain(head_lib, lib_one) \cup {t} /\ Linked(t, new)
    BY <1>0, <1>1, <2>2, Prepended
  <2> QED BY <1>1, <2>1, <2>2, <2>3 DEF LibInv
<1>8. TidInv'
  BY <1>0, <1>1 DEF Create, IInv, TidInv, TypeOK
<1>9. dropped' = dropped /\ Scheduled \subseteq live
      /\ (dropped = "no" => Scheduled = live)
  BY DEF Create, IInv, SchedInv
<1>10. PoolInv' /\ SchedInv' /\ CurrentInv'
  BY <1>1, <1>6, <1>9 DEF IInv, PoolInv, SchedInv, CurrentInv, Create
<1>10a. FlagsInv'
  BY DEF IInv, FlagsInv, Create
<1>11. TypeOK'
  <2>1. head_sched' \in Link /\ tail_sched' \in Link /\ sched_one' \in [Addr -> Link]
    BY <1>6 DEF sched, Lists
  <2>2. currThreadID' \in 1 .. MaxTid /\ currThreadID' \in -1 .. MaxTid
    BY <1>0, MaxTidAssumption DEF TypeOK, Create
  <2>3. tid' \in [Addr -> -1 .. MaxTid]
    BY <1>0, <2>2 DEF TypeOK, Create
  <2>4. lib_one' \in [Addr -> Link] /\ head_lib' \in Link
    BY <1>0 DEF Create, Link
  <2>5. handed' = "no"
    BY DEF Create, SetSched
  <2> QED BY <2>1, <2>2, <2>3, <2>4, <2>5, <1>0, <1>1, <1>6, <1>9 DEF TypeOK, Create, Link
<1> QED BY <1>6, <1>7, <1>8, <1>10, <1>10a, <1>11 DEF IInv

\* The parts that only look at the threads and the lists.
ThreadsInv == QueueInv /\ LibInv /\ TidInv /\ PoolInv /\ SchedInv

LEMMA ThreadsUntouched ==
    ASSUME ThreadsInv,
           UNCHANGED <<live, tid, lib_one, sched_one, head_lib, head_sched,
                       tail_sched, currThreadID, currScheduler, pool, dropped, handed>>
    PROVE  ThreadsInv'
<1>1. sched' = sched /\ Ended(sched)' = Ended(sched)
  BY DEF sched, Ended
<1>2. Scheduled' = Scheduled
  BY <1>1 DEF Scheduled, Held, Listed
<1>3. QueueInv' /\ SchedInv'
  BY <1>1, <1>2 DEF ThreadsInv, QueueInv, SchedInv
<1>4. LibInv' /\ TidInv' /\ PoolInv'
  BY DEF ThreadsInv, LibInv, TidInv, PoolInv
<1> QED BY <1>3, <1>4 DEF ThreadsInv

LEMMA GiveUpKeeps ==
    ASSUME IInv, NEW stop \in BOOLEAN, NEW yield \in BOOLEAN, ~(stop /\ yield),
           GiveUp(stop, yield)
    PROVE  IInv'
<1>1. ThreadsInv'
  BY ThreadsUntouched DEF IInv, ThreadsInv, GiveUp
<1>2. TypeOK'
  BY DEF IInv, TypeOK, GiveUp
<1>3. CurrentInv'
  BY DEF IInv, CurrentInv, GiveUp
<1>4. FlagsInv'
  <2>1. ~stopFlag /\ ~yieldFlag /\ where' = "loop"
    BY DEF IInv, FlagsInv, GiveUp
  <2>2. (stopFlag' <=> stop) /\ (yieldFlag' <=> yield)
    BY <2>1, Zenon DEF GiveUp
  <2>3. where' # "main" /\ where' # "thread"
    BY <2>1
  <2>4. ~(stopFlag' /\ yieldFlag')
    BY <2>2, Zenon
  <2> QED BY <2>3, <2>4 DEF FlagsInv
<1> QED BY <1>1, <1>2, <1>3, <1>4 DEF IInv, ThreadsInv

LEMMA ReturnStoppedKeeps == ASSUME IInv, ReturnStopped PROVE IInv'
<1>1. ThreadsInv'
  BY ThreadsUntouched DEF IInv, ThreadsInv, ReturnStopped
<1>2. TypeOK'
  BY DEF IInv, TypeOK, ReturnStopped
<1>3. CurrentInv'
  BY DEF CurrentInv, ReturnStopped
<1>4. FlagsInv'
  BY DEF IInv, FlagsInv, ReturnStopped
<1> QED BY <1>1, <1>2, <1>3, <1>4 DEF IInv, ThreadsInv

\* Calls that end the program, or change nothing.
LEMMA EndingKeeps ==
    ASSUME IInv, where' \in {where, "crashed", "hung"},
           UNCHANGED <<live, tid, lib_one, sched_one, head_lib, head_sched,
                       tail_sched, currThreadID, currentThread, currScheduler,
                       stopFlag, yieldFlag, pool, dropped, handed>>
    PROVE  IInv'
<1>1. ThreadsInv'
  BY ThreadsUntouched DEF IInv, ThreadsInv
<1>2. TypeOK'
  BY DEF IInv, TypeOK
<1>3. CurrentInv'
  BY DEF IInv, CurrentInv
<1>4. FlagsInv'
  BY DEF IInv, FlagsInv
<1> QED BY <1>1, <1>2, <1>3, <1>4 DEF IInv, ThreadsInv

LEMMA SetSameKeeps == ASSUME IInv, SetSame PROVE IInv'
  BY EndingKeeps DEF SetSame

LEMMA SearchForExitedKeeps == ASSUME IInv, SearchForExited PROVE IInv'
  BY EndingKeeps DEF SearchForExited

LEMMA StutterKeeps == ASSUME IInv, UNCHANGED vars PROVE IInv'
  BY EndingKeeps DEF vars

\* lwp_start's first turn, and the one after a thread has yielded.
LEMMA TurnKeeps ==
    ASSUME IInv, Dispatch(sched, Held),
           UNCHANGED <<live, tid, lib_one, head_lib, currThreadID, currScheduler,
                       pool, dropped>>,
           stopFlag' \in BOOLEAN, yieldFlag' \in BOOLEAN, ~stopFlag', ~yieldFlag'
    PROVE  IInv'
<1>1. /\ TypeOK /\ sched \in Lists /\ IsQueue(Ended(sched)) /\ currentThread \in Link
      /\ Scheduled \subseteq live /\ live \subseteq Addr /\ sched.head = head_sched
      /\ currScheduler # NULL => head_sched = NULL
      /\ Listed = Items(Ended(sched))
  BY Types, ListedItems DEF IInv, QueueInv, SchedInv, PoolInv, TypeOK, sched
<1>2. Held \in SUBSET Addr
  BY <1>1 DEF Held, TypeOK
<1>3. /\ sched' \in Lists /\ QueueInv' /\ Listed' = Listed
      /\ sched.head = NULL => head_sched' = NULL
      /\ where' \in {"main", "thread"} /\ currentThread' \in Link
      /\ where' = "thread" =>
            currentThread' \in IF currScheduler = NULL THEN Listed ELSE Held
      /\ handed' = "no"
  BY <1>1, <1>2, DispatchKeeps
<1>4. Scheduled' = Scheduled
  BY <1>3 DEF Scheduled, Held
<1>5. where' = "thread" => currentThread' \in Scheduled
  BY <1>3 DEF Scheduled
<1>6. CurrentInv'
  BY <1>1, <1>3, <1>5 DEF CurrentInv
<1>7. FlagsInv'
  BY <1>3 DEF FlagsInv
<1>8. dropped = "no" => Scheduled = live
  BY DEF IInv, SchedInv
<1>9. PoolInv' /\ SchedInv'
  BY <1>1, <1>3, <1>4, <1>8 DEF IInv, PoolInv, SchedInv
<1>10. LibInv' /\ TidInv'
  BY DEF IInv, LibInv, TidInv
<1>11. head_sched' \in Link /\ tail_sched' \in Link /\ sched_one' \in [Addr -> Link]
  BY <1>3 DEF sched, Lists
<1>12. TypeOK'
  BY <1>1, <1>3, <1>11 DEF TypeOK, Link
<1> QED BY <1>3, <1>6, <1>7, <1>9, <1>10, <1>12 DEF IInv

LEMMA ResumeAfterExitKeeps == ASSUME IInv, ResumeAfterExit PROVE IInv'
<1> DEFINE v == currentThread
           left == LibRemove(lib, v)
<1>1. /\ TypeOK /\ sched \in Lists /\ IsQueue(Ended(sched))
      /\ lib \in [head : Link, one : [Addr -> Link]]
      /\ Scheduled \subseteq live /\ live \subseteq Addr /\ v \in Link
      /\ Listed = Items(Ended(sched)) /\ sched.head = head_sched
      /\ currScheduler # NULL => head_sched = NULL
  BY Types, ListedItems DEF IInv, QueueInv, SchedInv, PoolInv, TypeOK, sched
<1>2. v \in live /\ v \in Addr /\ live' = live \ {v} /\ currScheduler' = currScheduler
      /\ tid' = [tid EXCEPT ![v] = -1] /\ currThreadID' = currThreadID
  BY <1>1 DEF IInv, CurrentInv, ResumeAfterExit
<1>3. lib.head = head_lib /\ lib.one = lib_one
  BY DEF lib
<1>4. /\ left \in [head : Link, one : [Addr -> Link]]
      /\ Chain(left.head, left.one) = Chain(head_lib, lib_one) \ {v}
      /\ Linked(left.head, left.one)
  <2>1. Linked(lib.head, lib.one) /\ v \in Chain(lib.head, lib.one)
    BY <1>2, <1>3 DEF IInv, LibInv
  <2> HIDE DEF v
  <2> QED BY <1>1, <1>3, <2>1, LibRemoves
<1>5. head_lib' = left.head /\ lib_one' = left.one
  BY DEF ResumeAfterExit
<1> HIDE DEF left
<1>6. LibInv' /\ head_lib' \in Link /\ lib_one' \in [Addr -> Link]
  BY <1>2, <1>4, <1>5 DEF IInv, LibInv
<1>7. TidInv' /\ tid' \in [Addr -> -1 .. MaxTid]
  <2>1. -1 \in -1 .. MaxTid
    BY MaxTidAssumption
  <2> QED BY <1>1, <1>2, <2>1 DEF IInv, TidInv, TypeOK
<1>8. /\ sched' \in Lists /\ QueueInv'
      /\ currScheduler # NULL => head_sched' = NULL
      /\ Scheduled' \subseteq live' /\ (Scheduled = live => Scheduled' = live')
      /\ where' \in {"main", "thread"} /\ currentThread' \in Link
      /\ where' = "thread" => currentThread' \in Scheduled'
      /\ pool' \in [Scheduler -> SUBSET Addr]
      /\ \A s \in Scheduler : s # currScheduler => pool'[s] = pool[s]
      /\ handed' = "no"
  <2>1. CASE currScheduler = NULL
    <3> DEFINE rest == Remove(sched, v)  Rest == Items(Ended(rest))
    <3>1. /\ rest \in Lists /\ IsQueue(Ended(rest))
          /\ Rest \subseteq Listed \ {v}
          /\ v \in Listed => Rest = Listed \ {v}
      <4> HIDE DEF v
      <4> QED BY <1>1, <1>2, RemoveEnded
    <3>2. Dispatch(rest, {}) /\ pool' = pool
      BY <2>1 DEF ResumeAfterExit
    <3> HIDE DEF rest, v
    <3>3. /\ sched' \in Lists /\ QueueInv' /\ Listed' = Rest
          /\ where' \in {"main", "thread"} /\ currentThread' \in Link
          /\ where' = "thread" =>
                currentThread' \in IF currScheduler = NULL THEN Rest ELSE {}
          /\ handed' = "no"
      <4>1. currentThread \in Link /\ {} \in SUBSET Addr
        BY <1>1 DEF v
      <4> QED BY <2>1, <3>1, <3>2, <4>1, DispatchKeeps
    <3> HIDE DEF Rest
    <3>4. Scheduled = Listed /\ Scheduled' = Rest
      BY <1>2, <2>1, <3>3 DEF Scheduled
    <3>6. Scheduled' \subseteq live' /\ (Scheduled = live => Scheduled' = live')
      BY <1>1, <1>2, <3>1, <3>4
    <3>7. pool' \in [Scheduler -> SUBSET Addr]
      BY <1>1, <3>2 DEF TypeOK
    <3> QED BY <2>1, <3>2, <3>3, <3>4, <3>6, <3>7
  <2>2. CASE currScheduler # NULL
    <3>1. /\ currScheduler \in Scheduler /\ pool \in [Scheduler -> SUBSET Addr]
          /\ Held = pool[currScheduler] /\ Dispatch(sched, Held \ {v})
          /\ pool' = [pool EXCEPT ![currScheduler] = @ \ {v}]
      BY <1>1, <2>2 DEF TypeOK, ResumeAfterExit, Held
    <3> HIDE DEF v
    <3>2. /\ pool' \in [Scheduler -> SUBSET Addr]
          /\ pool'[currScheduler] = Held \ {v}
          /\ \A s \in Scheduler : s # currScheduler => pool'[s] = pool[s]
      BY <3>1
    <3>3. /\ sched' \in Lists /\ QueueInv'
          /\ sched.head = NULL => head_sched' = NULL
          /\ where' \in {"main", "thread"} /\ currentThread' \in Link
          /\ where' = "thread" =>
               currentThread' \in IF currScheduler = NULL THEN Items(Ended(sched))
                                  ELSE Held \ {v}
          /\ handed' = "no"
      <4>1. currentThread \in Link /\ Held \ {v} \in SUBSET Addr
        BY <1>1, <3>1 DEF v
      <4> QED BY <1>1, <3>1, <4>1, DispatchKeeps
    <3>4. Scheduled = Held /\ Scheduled' = Held \ {v}
      BY <1>2, <2>2, <3>2 DEF Scheduled, Held
    <3>6. head_sched' = NULL
      BY <1>1, <2>2, <3>3
    <3> QED BY <1>1, <1>2, <2>2, <3>2, <3>3, <3>4, <3>6
  <2> QED BY <2>1, <2>2
<1>9. CurrentInv'
  BY <1>8 DEF CurrentInv
<1>10. PoolInv' /\ SchedInv'
  <2>1. dropped' = dropped /\ (dropped = "no" => Scheduled = live)
    BY DEF IInv, SchedInv, ResumeAfterExit
  <2> QED BY <2>1, <1>2, <1>8 DEF IInv, PoolInv, SchedInv
<1>10a. FlagsInv'
  BY <1>8 DEF FlagsInv, ResumeAfterExit
<1>11. TypeOK'
  <2>1. head_sched' \in Link /\ tail_sched' \in Link /\ sched_one' \in [Addr -> Link]
    BY <1>8 DEF sched, Lists
  <2>2. live' \subseteq Addr /\ stopFlag' = stopFlag /\ yieldFlag' = yieldFlag
        /\ dropped' = dropped
    BY <1>1, <1>2 DEF ResumeAfterExit
  <2> HIDE DEF v
  <2> QED BY <2>1, <2>2, <1>1, <1>2, <1>6, <1>7, <1>8 DEF TypeOK, Link
<1> QED BY <1>6, <1>7, <1>8, <1>9, <1>10, <1>10a, <1>11 DEF IInv

\* The parts that a change of scheduler leaves alone.
LEMMA ReplacedKeeps ==
    ASSUME IInv, where \in {"main", "thread"},
           UNCHANGED <<live, tid, lib_one, head_lib, currThreadID, currentThread,
                       stopFlag, yieldFlag, where>>
    PROVE  /\ LibInv' /\ TidInv' /\ CurrentInv' /\ FlagsInv'
           /\ currScheduler' \in Scheduler \cup {NULL} /\ sched' \in Lists
              /\ pool' \in [Scheduler -> SUBSET Addr]
              /\ dropped' \in {"no", "yes"} /\ handed' \in {"no", "yes"} => TypeOK'
<1>1. LibInv' /\ TidInv' /\ CurrentInv' /\ FlagsInv'
  BY DEF IInv, LibInv, TidInv, CurrentInv, FlagsInv
<1>2. ASSUME sched' \in Lists
      PROVE  head_sched' \in Link /\ tail_sched' \in Link
             /\ sched_one' \in [Addr -> Link]
  BY <1>2 DEF sched, Lists
<1> QED BY <1>1, <1>2 DEF IInv, TypeOK, Link

\* What the history tells.
LEMMA DropTells ==
    ASSUME NEW G, NEW K, dropped \in {"no", "yes"}, Drop(G, K)
    PROVE  dropped' \in {"no", "yes"} /\ (dropped' = "no" => dropped = "no" /\ G \subseteq K)
BY DEF Drop

\* The default scheduler has nobody left.
LEMMA NobodyQueued ==
    ASSUME NEW s \in Lists, s.head = NULL, s.tail = NULL, sched' = s PROVE QueueInv'
<1>1. IsQueue(s)
  BY EmptyQueue
<1> QED BY <1>1, IsQueueNow DEF QueueInv

LEMMA PlugInKeeps ==
    ASSUME IInv, NEW new \in Scheduler, PlugIn(new) PROVE IInv'
<1> DEFINE G == Admitted(new, Listed)
<1>1. /\ TypeOK /\ currScheduler = NULL /\ currScheduler' = new /\ new # NULL
      /\ pool \in [Scheduler -> SUBSET Addr] /\ live \subseteq Addr
      /\ Scheduled = Listed /\ live' = live /\ sched_one \in [Addr -> Link]
      /\ dropped \in {"no", "yes"} /\ handed' = "no"
  BY Types, NULLAssumption DEF IInv, TypeOK, PlugIn, Scheduled
<1>2. Listed \subseteq live
  BY ListedAreLive
<1>3. \A s \in Scheduler : pool[s] = {}
  BY <1>1, NULLAssumption DEF IInv, PoolInv
<1>4. G \subseteq Listed /\ pool' = [pool EXCEPT ![new] = G]
      /\ dropped' \in {"no", "yes"}
      /\ (dropped' = "no" => dropped = "no" /\ Listed \subseteq G)
  <2>1. Drop(Listed, G)
    BY DEF PlugIn
  <2>2. G \subseteq Listed /\ pool' = [pool EXCEPT ![new] = G]
    BY <1>3 DEF PlugIn, Admitted
  <2> HIDE DEF G
  <2> QED BY <2>1, <2>2, <1>1, DropTells
<1> HIDE DEF G
<1>5. pool' \in [Scheduler -> SUBSET Addr] /\ pool'[new] = G
      /\ \A s \in Scheduler : s # new => pool'[s] = {}
  <2>1. G \in SUBSET Addr
    BY <1>1, <1>2, <1>4
  <2> QED BY <2>1, <1>1, <1>3, <1>4
<1>6. sched' \in Lists /\ sched'.head = NULL /\ sched'.tail = NULL
  <2>1. /\ sched_one' = [a \in Addr |-> IF a \in Listed THEN NULL ELSE sched_one[a]]
        /\ head_sched' = NULL /\ tail_sched' = NULL
    BY DEF PlugIn
  <2>2. sched_one' \in [Addr -> Link]
    BY <2>1, <1>1 DEF Link
  <2> QED BY <2>1, <2>2 DEF sched, Lists, Link
<1>7. QueueInv' /\ head_sched' = NULL
  BY <1>6, NobodyQueued DEF sched
<1>8. Scheduled' = G
  BY <1>1, <1>5 DEF Scheduled, Held
<1>9. dropped = "no" => Scheduled = live
  BY DEF IInv, SchedInv
<1>10. PoolInv' /\ SchedInv'
  BY <1>1, <1>2, <1>4, <1>5, <1>7, <1>8, <1>9 DEF PoolInv, SchedInv
<1>11. TypeOK' /\ LibInv' /\ TidInv' /\ CurrentInv' /\ FlagsInv'
  <2>1. where \in {"main", "thread"}
        /\ UNCHANGED <<live, tid, lib_one, head_lib, currThreadID, currentThread,
                       stopFlag, yieldFlag, where>>
    BY DEF PlugIn
  <2> QED BY <2>1, <1>1, <1>4, <1>5, <1>6, ReplacedKeeps
<1> QED BY <1>7, <1>10, <1>11 DEF IInv

\* What a scheduler that is replaced leaves in the links has their type.
LEMMA LeftoverType ==
    ASSUME sched_one \in [Addr -> Link], Held \subseteq Addr, NEW one \in Leftover
    PROVE  one \in [Addr -> Link]
<1>1. CASE currScheduler \in Links
  <2>1. PICK f \in [Held -> Held \cup {NULL}] :
            one = [a \in Addr |-> IF a \in Held THEN f[a] ELSE sched_one[a]]
    BY <1>1 DEF Leftover
  <2>2. \A a \in Held : f[a] \in Link
    BY DEF Link
  <2> QED BY <2>1, <2>2
<1>2. CASE currScheduler \notin Links
  BY <1>2 DEF Leftover
<1> QED BY <1>1, <1>2

LEMMA UnplugKeeps == ASSUME IInv, Unplug PROVE IInv'
<1>1. /\ TypeOK /\ currScheduler \in Scheduler /\ currScheduler' = NULL
      /\ currScheduler # NULL
      /\ pool \in [Scheduler -> SUBSET Addr] /\ live \subseteq Addr
      /\ sched_one \in [Addr -> Link] /\ sched \in Lists /\ QueueInv
      /\ live' = live /\ pool' = [pool EXCEPT ![currScheduler] = {}]
      /\ dropped \in {"no", "yes"} /\ handed \in {"no", "yes"}
  BY Types DEF IInv, TypeOK, Unplug
<1>3. Listed = {}
  <2>1. sched.head = NULL
    BY <1>1 DEF IInv, PoolInv, sched
  <2>2. Ended(sched).head = NULL
    BY <2>1, <1>1, EndedKeeps
  <2> QED BY <2>2, ChainEmpty, ListedItems DEF Items
<1>4. Scheduled = Held /\ Held \subseteq live /\ (dropped = "no" => Held = live)
  BY <1>1 DEF IInv, SchedInv, Scheduled
<1>5. pool' \in [Scheduler -> SUBSET Addr] /\ \A s \in Scheduler : pool'[s] = {}
  BY <1>1 DEF IInv, PoolInv
<1>6. /\ sched' \in Lists /\ QueueInv' /\ Listed' \subseteq Held
      /\ dropped' \in {"no", "yes"} /\ handed' \in {"no", "yes"}
      /\ dropped' = "no" => dropped = "no" /\ Listed' = Held
  <2>1. CASE Held = {} /\ UNCHANGED <<sched_one, head_sched, tail_sched, dropped, handed>>
    <3>1. sched' = sched /\ Ended(sched)' = Ended(sched)
      BY <2>1 DEF sched, Ended
    <3>2. Listed' = Listed /\ QueueInv'
      BY <2>1, <3>1, <1>1 DEF Listed, QueueInv
    <3> QED BY <2>1, <3>1, <3>2, <1>1, <1>3
  <2>2. ASSUME NEW first \in Held, NEW q \in Orders(Leaving(first)), NEW one \in Leftover,
               LET s == QueueUp(q, one) IN
               /\ head_sched' = s.head /\ tail_sched' = s.tail /\ sched_one' = s.one
               /\ handed' = "yes"
               /\ Drop(Held, Leaving(first))
        PROVE  /\ sched' \in Lists /\ QueueInv' /\ Listed' = Leaving(first)
               /\ handed' = "yes" /\ Drop(Held, Leaving(first))
    <3> DEFINE S == Leaving(first)  s == QueueUp(q, one)
    <3>1. S \in SUBSET Addr /\ S # {}
      BY <1>1, <1>4 DEF Leaving
    <3>2. one \in [Addr -> Link]
      BY <1>1, <1>4, LeftoverType
    <3>3. s \in Lists /\ IsQueue(Ended(s)) /\ Items(Ended(s)) = S
      <4>1. q \in Orders(S)
        OBVIOUS
      <4> HIDE DEF S
      <4> QED BY <3>1, <3>2, <4>1, HandedOver
    <3> HIDE DEF S
    <3>4. head_sched' = s.head /\ tail_sched' = s.tail /\ sched_one' = s.one
          /\ handed' = "yes"
      BY <2>2
    <3> HIDE DEF s
    <3>5. sched' = s
      BY <3>3, <3>4 DEF sched, Lists
    <3>6. Ended(sched)' = Ended(s)
      BY <3>5 DEF Ended
    <3>7. Listed' = S
      BY <3>3, <3>6 DEF Listed, Items
    <3> QED BY <2>2, <3>3, <3>4, <3>5, <3>6, <3>7 DEF QueueInv, S
  <2>3. \/ Held = {} /\ UNCHANGED <<sched_one, head_sched, tail_sched, dropped, handed>>
        \/ \E first \in Held : \E q \in Orders(Leaving(first)), one \in Leftover :
              LET s == QueueUp(q, one) IN
              /\ head_sched' = s.head /\ tail_sched' = s.tail /\ sched_one' = s.one
              /\ handed' = "yes"
              /\ Drop(Held, Leaving(first))
    BY DEF Unplug
  <2>4. ASSUME NEW first \in Held PROVE Leaving(first) \subseteq Held
    BY DEF Leaving
  <2>5. ASSUME NEW first \in Held, Listed' = Leaving(first), Drop(Held, Leaving(first))
        PROVE  /\ Listed' \subseteq Held /\ dropped' \in {"no", "yes"}
               /\ dropped' = "no" => dropped = "no" /\ Listed' = Held
    <3>1. dropped' \in {"no", "yes"}
          /\ (dropped' = "no" => dropped = "no" /\ Held \subseteq Leaving(first))
      BY <2>5, <1>1, DropTells
    <3>2. Leaving(first) \subseteq Held
      BY <2>4
    <3> QED BY <2>5, <3>1, <3>2
  <2> QED BY <2>1, <2>2, <2>3, <2>5
<1>7. Scheduled' = Listed'
  BY <1>1 DEF Scheduled
<1>8. PoolInv' /\ SchedInv'
  BY <1>1, <1>4, <1>5, <1>6, <1>7 DEF PoolInv, SchedInv
<1>9. TypeOK' /\ LibInv' /\ TidInv' /\ CurrentInv' /\ FlagsInv'
  <2>1. where \in {"main", "thread"}
        /\ UNCHANGED <<live, tid, lib_one, head_lib, currThreadID, currentThread,
                       stopFlag, yieldFlag, where>>
    BY DEF Unplug
  <2> QED BY <2>1, <1>1, <1>5, <1>6, ReplacedKeeps
<1> QED BY <1>6, <1>8, <1>9 DEF IInv

\* What Replug does to the pools.
LEMMA Handover ==
    ASSUME NEW D, NEW f \in [D -> SUBSET Addr], NEW a \in D, NEW b \in D, a # b,
           NEW G \in SUBSET Addr
    PROVE  LET g == [f EXCEPT ![a] = {}, ![b] = G] IN
           /\ g \in [D -> SUBSET Addr] /\ g[a] = {} /\ g[b] = G
           /\ \A s \in D : s \notin {a, b} => g[s] = f[s]
OBVIOUS

LEMMA ReplugKeeps ==
    ASSUME IInv, NEW new \in Scheduler, Replug(new) PROVE IInv'
<1>1. /\ TypeOK /\ currScheduler \in Scheduler /\ currScheduler' = new
      /\ currScheduler # NULL /\ currScheduler # new /\ new # NULL
      /\ pool \in [Scheduler -> SUBSET Addr] /\ live \subseteq Addr /\ live' = live
      /\ sched_one' \in Leftover /\ head_sched' = NULL /\ tail_sched' = NULL
      /\ sched_one \in [Addr -> Link]
      /\ dropped \in {"no", "yes"} /\ handed' = "no"
  BY Types, NULLAssumption DEF IInv, TypeOK, Replug
<1>2. pool[new] = {} /\ \A s \in Scheduler : s # currScheduler => pool[s] = {}
  BY <1>1 DEF IInv, PoolInv
<1>4. Scheduled = Held /\ Held \subseteq live /\ (dropped = "no" => Held = live)
  BY <1>1 DEF IInv, SchedInv, Scheduled
<1>5. PICK first \in Held \cup {NULL} :
          /\ pool' = [pool EXCEPT ![currScheduler] = {},
                                  ![new] = Admitted(new, Leaving(first))]
          /\ Drop(Held, Admitted(new, Leaving(first)))
  BY DEF Replug
<1> DEFINE G == Admitted(new, Leaving(first))
<1>6. G \subseteq Held
  BY <1>2 DEF Leaving, Admitted
<1>7. pool' = [pool EXCEPT ![currScheduler] = {}, ![new] = G] /\ Drop(Held, G)
  BY <1>5
<1> HIDE DEF G
<1>8. dropped' \in {"no", "yes"} /\ (dropped' = "no" => dropped = "no" /\ Held \subseteq G)
  BY <1>1, <1>7, DropTells
<1>9. /\ pool' \in [Scheduler -> SUBSET Addr]
      /\ pool'[new] = G
      /\ \A s \in Scheduler : s # new => pool'[s] = {}
  <2>1. G \in SUBSET Addr
    BY <1>1, <1>4, <1>6
  <2>2. /\ pool' \in [Scheduler -> SUBSET Addr] /\ pool'[currScheduler] = {}
        /\ pool'[new] = G
        /\ \A s \in Scheduler : s \notin {currScheduler, new} => pool'[s] = pool[s]
    BY <1>1, <1>7, <2>1, Handover
  <2> QED BY <1>2, <2>2
<1>10. sched' \in Lists /\ sched'.head = NULL /\ sched'.tail = NULL
  <2>1. sched_one' \in [Addr -> Link]
    BY <1>1, <1>4, LeftoverType
  <2> QED BY <2>1, <1>1 DEF sched, Lists, Link
<1>11. QueueInv'
  BY <1>10, NobodyQueued
<1>12. Scheduled' = G
  BY <1>1, <1>9 DEF Scheduled, Held
<1>13. PoolInv' /\ SchedInv'
  BY <1>1, <1>4, <1>6, <1>8, <1>9, <1>12 DEF PoolInv, SchedInv
<1>14. TypeOK' /\ LibInv' /\ TidInv' /\ CurrentInv' /\ FlagsInv'
  <2>1. where \in {"main", "thread"}
        /\ UNCHANGED <<live, tid, lib_one, head_lib, currThreadID, currentThread,
                       stopFlag, yieldFlag, where>>
    BY DEF Replug
  <2> QED BY <2>1, <1>1, <1>8, <1>9, <1>10, ReplacedKeeps
<1> QED BY <1>11, <1>13, <1>14 DEF IInv

\* What lwp_start's turns share with Dispatch.
LEMMA StartKeeps == ASSUME IInv, Start PROVE IInv'
<1>1. stopFlag' \in BOOLEAN /\ yieldFlag' \in BOOLEAN
  BY DEF IInv, TypeOK, Start
<1>2. ~stopFlag' /\ ~yieldFlag'
  BY DEF IInv, FlagsInv, Start
<1> QED BY <1>1, <1>2, TurnKeeps DEF Start

LEMMA ResumeAfterYieldKeeps == ASSUME IInv, ResumeAfterYield PROVE IInv'
<1>1. stopFlag' \in BOOLEAN /\ yieldFlag' \in BOOLEAN
  BY DEF IInv, TypeOK, ResumeAfterYield
<1>2. ~stopFlag' /\ ~yieldFlag'
  BY DEF ResumeAfterYield
<1> QED BY <1>1, <1>2, TurnKeeps DEF ResumeAfterYield

LEMMA StepKeeps == IInv /\ [Next]_vars => IInv'
<1> SUFFICES ASSUME IInv, [Next]_vars PROVE IInv'
  OBVIOUS
<1>1. ASSUME NEW t \in Addr, Create(t) PROVE IInv'
  BY <1>1, CreateKeeps
<1>2. CASE Start
  BY <1>2, StartKeeps
<1>3. CASE Yield \/ Stop \/ Exit
  <2>1. CASE Yield
    BY <2>1, GiveUpKeeps, Zenon DEF Yield
  <2>2. CASE Stop
    BY <2>2, GiveUpKeeps, Zenon DEF Stop
  <2>3. CASE Exit
    BY <2>3, GiveUpKeeps, Zenon DEF Exit
  <2> QED BY <1>3, <2>1, <2>2, <2>3
<1>4. CASE ReturnStopped
  BY <1>4, ReturnStoppedKeeps
<1>5. CASE ResumeAfterYield
  BY <1>5, ResumeAfterYieldKeeps
<1>6. CASE ResumeAfterExit
  BY <1>6, ResumeAfterExitKeeps
<1>7. CASE SetScheduler
  BY <1>7, PlugInKeeps, ReplugKeeps, UnplugKeeps, SetSameKeeps DEF SetScheduler
<1>8. CASE UNCHANGED vars
  BY <1>8, StutterKeeps
<1>9. CASE SearchForExited
  BY <1>9, SearchForExitedKeeps
<1> QED BY <1>1, <1>2, <1>3, <1>4, <1>5, <1>6, <1>7, <1>8, <1>9 DEF Next

-----------------------------------------------------------------------------
(***************************************************************************)
(* Theorems.                                                               *)
(***************************************************************************)
\* IInv holds in every reachable state of lwp_main.c's calls.
THEOREM Invariance == Spec => []IInv
<1>1. Init => IInv
  BY InitHolds
<1>2. IInv /\ [Next]_vars => IInv'
  BY StepKeeps
<1> QED BY <1>1, <1>2, PTL DEF Spec

\* Every variable of the library keeps its type.
THEOREM TypeCorrect == Spec => []TypeOK
<1>1. IInv => TypeOK
  BY DEF IInv
<1> QED BY <1>1, Invariance, PTL

\* Whatever schedulers a program plugs in, empties or initialises, whatever they
\* link and however the threads come and go: the scheduler in charge never holds
\* a thread that was freed, and as long as no shutdown() and no init() has emptied
\* a pool with threads in it, it holds every live one.
THEOREM NobodyForgotten == Spec => []EveryThreadScheduled
<1>1. IInv => EveryThreadScheduled
  BY DEF IInv, SchedInv, EveryThreadScheduled
<1> QED BY <1>1, Invariance, PTL

\* defaultScheduler_next, _admit and _remove leave a list that leads to its tail
\* and ends there, whatever link another scheduler had left behind the tail and
\* whatever is removed, also a thread that is not in it.
THEOREM ListCloses == Spec => []ListIsClosed
<1>1. ASSUME IInv PROVE ListIsClosed
  <2> DEFINE e == Ended(sched)
  <2>1. /\ e \in Lists /\ e.head = head_sched /\ e.tail = tail_sched
        /\ IsQueue(e) /\ Listed = Items(e)
        /\ handed = "no" => e.one = sched_one
    BY <1>1, Types, EndedKeeps, ListedItems DEF IInv, QueueInv, sched
  <2> HIDE DEF e
  <2>2. /\ head_sched = NULL <=> tail_sched = NULL
        /\ head_sched # NULL => tail_sched \in Listed /\ e.one[tail_sched] = NULL
        /\ \A a \in Listed : e.one[a] = NULL => a = tail_sched
    BY <2>1 DEF IsQueue
  <2>3. head_sched = NULL => Listed = {}
    BY <2>1, ChainEmpty DEF Items
  <2>4. tail_sched # NULL => {a \in Listed : e.one[a] = NULL} = {tail_sched}
    BY <2>2
  <2>5. tail_sched = NULL => {a \in Listed : e.one[a] = NULL} = {}
    BY <2>2, <2>3
  <2>6. {a \in Listed : e.one[a] = NULL} = {tail_sched} \ {NULL}
    BY <2>4, <2>5
  <2>7. tail_sched # NULL /\ handed = "no" => sched_one[tail_sched] = NULL
    BY <2>1, <2>2
  <2> QED BY <2>2, <2>6, <2>7 DEF ListIsClosed, e
<1> QED BY <1>1, Invariance, PTL

\* tid2thread finds every live thread by its id, and nothing else: a freed
\* structure is in no list, and no id is given out twice.
THEOREM LiveThreadsFound == Spec => []ThreadsAreFound
<1>1. ASSUME IInv PROVE ThreadsAreFound
  <2>1. Chain(head_lib, lib_one) = live
        /\ \A a, b \in live : tid[a] = tid[b] => a = b
    BY <1>1 DEF IInv, LibInv, TidInv
  <2>2. \A a \in live : Tid2Thread(tid[a]) = {a}
    BY <2>1 DEF Tid2Thread
  <2> QED BY <2>1, <2>2 DEF ThreadsAreFound
<1> QED BY <1>1, Invariance, PTL

\* lwp_gettid, lwp_yield, lwp_stop and lwp_exit never touch a freed structure,
\* and no flag of an earlier call decides what becomes of the one that exits.
THEOREM CurrentFit == Spec => []CurrentIsFit
<1>1. IInv => CurrentIsFit
  BY DEF IInv, CurrentInv, FlagsInv, CurrentIsFit
<1> QED BY <1>1, Invariance, PTL

-----------------------------------------------------------------------------
(***************************************************************************)
(* The order of the default list.                                          *)
(***************************************************************************)
\* Somebody comes to the end of a queue f of n, its first goes to the end, the
\* one at place k leaves it.
Behind(f, n, e) == [i \in 1 .. n + 1 |-> IF i <= n THEN f[i] ELSE e]
Turned(f, n) == [i \in 1 .. n |-> IF i < n THEN f[i + 1] ELSE f[1]]
Cut(f, n, k) == [i \in 1 .. n - 1 |-> IF i < k THEN f[i] ELSE f[i + 1]]

\* q is the order in which the list s holds its n threads.
Follows(q, n, s) ==
    /\ q \in [1 .. n -> Addr]
    /\ \A i, j \in 1 .. n : q[i] = q[j] => i = j
    /\ Items(s) = {q[i] : i \in 1 .. n}
    /\ s.head = IF n = 0 THEN NULL ELSE q[1]
    /\ \A i \in 1 .. n : s.one[q[i]] = IF i < n THEN q[i + 1] ELSE NULL

LEMMA TailIsLast ==
    ASSUME NEW s \in Lists, IsQueue(s), NEW n \in Nat, NEW q, Follows(q, n, s)
    PROVE  IF n = 0 THEN s.head = NULL /\ s.tail = NULL
           ELSE s.head = q[1] /\ s.tail = q[n] /\ s.head # NULL /\ s.tail # NULL
<1>1. CASE n = 0
  BY <1>1 DEF Follows, IsQueue
<1>2. CASE n # 0
  <2>1. n \in 1 .. n /\ 1 \in 1 .. n
    BY <1>2
  <2>2. q[n] \in Items(s) /\ s.one[q[n]] = NULL /\ s.head = q[1] /\ q[1] \in Addr /\ q[n] \in Addr
    BY <1>2, <2>1 DEF Follows
  <2>3. s.tail = q[n]
    BY <2>2 DEF IsQueue
  <2> QED BY <1>2, <2>2, <2>3, NULLAssumption
<1> QED BY <1>1, <1>2

LEMMA AdmitFollows ==
    ASSUME NEW s \in Lists, IsQueue(s), NEW t \in Addr, t \notin Items(s),
           s.one[t] = NULL, NEW n \in Nat, NEW q, Follows(q, n, s)
    PROVE  Follows(Behind(q, n, t), n + 1, Admit(s, t))
<1> DEFINE r == Behind(q, n, t)  u == Admit(s, t)
<1>1. u \in Lists /\ Items(u) = Items(s) \cup {t}
  BY AdmitKeeps
<1>2. /\ q \in [1 .. n -> Addr]
      /\ \A i, j \in 1 .. n : q[i] = q[j] => i = j
      /\ Items(s) = {q[i] : i \in 1 .. n}
      /\ \A i \in 1 .. n : s.one[q[i]] = IF i < n THEN q[i + 1] ELSE NULL
  BY DEF Follows
<1>3. /\ r \in [1 .. n + 1 -> Addr] /\ r[n + 1] = t
      /\ \A i \in 1 .. n : r[i] = q[i]
  BY <1>2 DEF Behind
<1>4. \A i \in 1 .. n + 1 : i \in 1 .. n \/ i = n + 1
  OBVIOUS
<1>5. \A i \in 1 .. n : q[i] \in Items(s) /\ q[i] # t /\ q[i] \in Addr
  BY <1>2
<1>6. /\ u.head = IF n = 0 THEN t ELSE q[1]
      /\ u.one = IF n = 0 THEN s.one ELSE [s.one EXCEPT ![q[n]] = t]
  <2>1. s.one \in [Addr -> Link]
    BY DEF Lists
  <2>2. IF n = 0 THEN s.head = NULL /\ s.tail = NULL
        ELSE s.head = q[1] /\ s.tail = q[n] /\ s.head # NULL /\ s.tail # NULL
    BY TailIsLast
  <2>3. CASE n = 0
    <3>1. u = [s EXCEPT !.head = t, !.tail = t]
      BY <2>2, <2>3 DEF Admit
    <3> QED BY <2>3, <3>1 DEF Lists
  <2>4. CASE n # 0
    <3>1. u = [s EXCEPT !.tail = t, !.one[q[n]] = t]
      BY <2>2, <2>4 DEF Admit
    <3> QED BY <2>2, <2>4, <3>1 DEF Lists
  <2> QED BY <2>3, <2>4
<1> HIDE DEF r, u
<1>7. \A i, j \in 1 .. n + 1 : r[i] = r[j] => i = j
  BY <1>2, <1>3, <1>4, <1>5
<1>8. Items(u) = {r[i] : i \in 1 .. n + 1}
  <2>1. ASSUME NEW a \in Items(u) PROVE \E i \in 1 .. n + 1 : a = r[i]
    <3>1. CASE a = t
      BY <3>1, <1>3
    <3>2. ASSUME NEW i \in 1 .. n, a = q[i] PROVE a = r[i] /\ i \in 1 .. n + 1
      BY <3>2, <1>3
    <3> QED BY <3>1, <3>2, <1>1, <1>2
  <2>2. \A i \in 1 .. n + 1 : r[i] \in Items(u)
    BY <1>1, <1>3, <1>4, <1>5
  <2> QED BY <2>1, <2>2
<1>9. ASSUME NEW i \in 1 .. n + 1
      PROVE  u.one[r[i]] = IF i < n + 1 THEN r[i + 1] ELSE NULL
  <2>1. s.one \in [Addr -> Link]
    BY DEF Lists
  <2>2. CASE i = n + 1
    <3>1. r[i] = t
      BY <2>2, <1>3
    <3>2. CASE n = 0
      BY <2>2, <3>1, <3>2, <1>6
    <3>3. CASE n # 0
      <4>1. n \in 1 .. n
        BY <3>3
      <4>2. q[n] # t /\ q[n] \in Addr
        BY <4>1, <1>5
      <4> QED BY <2>1, <2>2, <3>1, <3>3, <4>2, <1>6
    <3> QED BY <3>2, <3>3
  <2>3. CASE i = n /\ n # 0
    <3>1. i \in 1 .. n /\ i + 1 = n + 1
      BY <2>3
    <3>2. r[i] = q[n] /\ q[n] \in Addr /\ r[i + 1] = t
      BY <2>3, <3>1, <1>3, <1>5
    <3>3. u.one[q[n]] = t
      BY <2>1, <2>3, <3>2, <1>6
    <3> QED BY <2>3, <3>2, <3>3
  <2>4. CASE i < n
    <3>1. i \in 1 .. n /\ i + 1 \in 1 .. n /\ n \in 1 .. n /\ i # n /\ n # 0
      BY <2>4
    <3>2. r[i] = q[i] /\ r[i + 1] = q[i + 1] /\ q[i] # q[n] /\ q[i] \in Addr
          /\ s.one[q[i]] = q[i + 1] /\ q[n] \in Addr
      BY <2>4, <3>1, <1>2, <1>3, <1>5
    <3>3. u.one[q[i]] = s.one[q[i]]
      BY <2>1, <3>1, <3>2, <1>6
    <3> QED BY <2>4, <3>2, <3>3
  <2> QED BY <2>2, <2>3, <2>4
<1>10. u.head = r[1]
  <2>1. CASE n = 0
    BY <2>1, <1>3, <1>6
  <2>2. CASE n # 0
    <3>1. 1 \in 1 .. n
      BY <2>2
    <3> QED BY <2>2, <3>1, <1>3, <1>6
  <2> QED BY <2>1, <2>2
<1>11. n + 1 # 0
  OBVIOUS
<1> QED BY <1>3, <1>7, <1>8, <1>9, <1>10, <1>11 DEF Follows, r, u

LEMMA RotateFollows ==
    ASSUME NEW s \in Lists, IsQueue(s), NEW n \in Nat \ {0}, NEW q, Follows(q, n, s)
    PROVE  Follows(Turned(q, n), n, Rotate(s))
<1> DEFINE r == Turned(q, n)  u == Rotate(s)
<1>1. u \in Lists /\ Items(u) = Items(s)
  BY RotateKeeps
<1>2. /\ q \in [1 .. n -> Addr]
      /\ \A i, j \in 1 .. n : q[i] = q[j] => i = j
      /\ Items(s) = {q[i] : i \in 1 .. n}
      /\ \A i \in 1 .. n : s.one[q[i]] = IF i < n THEN q[i + 1] ELSE NULL
      /\ s.one \in [Addr -> Link]
  BY DEF Follows, Lists
<1>3. \A i \in 1 .. n : IF i < n THEN i + 1 \in 1 .. n ELSE i = n
  OBVIOUS
<1>4. /\ r \in [1 .. n -> Addr] /\ r[n] = q[1]
      /\ \A i \in 1 .. n : i < n => r[i] = q[i + 1]
      /\ 1 \in 1 .. n /\ n \in 1 .. n
  BY <1>2, <1>3 DEF Turned
<1>5. \A i \in 1 .. n : q[i] \in Addr /\ q[i] # NULL
  BY <1>2, NULLAssumption
<1>6. s.head = q[1] /\ s.tail = q[n] /\ s.head # NULL
  BY TailIsLast
<1>7. CASE n = 1
  <2>1. s.one[s.head] = NULL
    BY <1>2, <1>6, <1>7
  <2>2. u = s
    BY <2>1 DEF Rotate
  <2>3. r = q
    <3>1. \A i \in 1 .. n : r[i] = q[i]
      BY <1>4, <1>7
    <3> QED BY <3>1, <1>2, <1>4
  <2> QED BY <2>2, <2>3
<1>8. CASE n # 1
  <2> DEFINE new == [[s.one EXCEPT ![q[n]] = q[1]] EXCEPT ![q[1]] = NULL]
  <2>1. 1 < n /\ q[1] # q[n] /\ 2 \in 1 .. n
    <3>1. 1 < n /\ 2 \in 1 .. n
      BY <1>8
    <3> QED BY <3>1, <1>2, <1>4
  <2>2. s.one[q[1]] = q[2] /\ q[2] # NULL
    BY <2>1, <1>2, <1>4, <1>5
  <2>3. [s.one EXCEPT ![q[n]] = q[1]][q[1]] = q[2]
    BY <2>1, <2>2, <1>2, <1>4
  <2>4. u = [head |-> q[2], tail |-> q[1], one |-> new]
    BY <2>2, <2>3, <1>6 DEF Rotate
  <2>5. /\ new[q[1]] = NULL /\ new[q[n]] = q[1]
        /\ \A a \in Addr \ {q[1], q[n]} : new[a] = s.one[a]
    BY <2>1, <1>2, <1>4
  <2>6. u.head = q[2] /\ u.one = new
    BY <2>4
  <2> HIDE DEF new, u, r
  <2>7. \A i, j \in 1 .. n : r[i] = r[j] => i = j
    <3> SUFFICES ASSUME NEW i \in 1 .. n, NEW j \in 1 .. n, r[i] = r[j] PROVE i = j
      OBVIOUS
    <3>1. ASSUME NEW k \in 1 .. n, k < n PROVE r[k] = q[k + 1] /\ k + 1 \in 1 .. n /\ k + 1 # 1
      BY <3>1, <1>3, <1>4
    <3>2. CASE i < n /\ j < n
      <4>1. i + 1 = j + 1
        BY <3>1, <3>2, <1>2
      <4> QED BY <4>1
    <3>3. CASE i = n /\ j < n
      BY <3>1, <3>3, <1>2, <1>4
    <3>4. CASE i < n /\ j = n
      BY <3>1, <3>4, <1>2, <1>4
    <3>5. CASE i = n /\ j = n
      BY <3>5
    <3> QED BY <3>2, <3>3, <3>4, <3>5
  <2>8. {q[i] : i \in 1 .. n} = {r[i] : i \in 1 .. n}
    <3>1. ASSUME NEW i \in 1 .. n PROVE \E j \in 1 .. n : q[i] = r[j]
      <4>1. CASE i = 1
        BY <4>1, <1>4
      <4>2. CASE i # 1
        <5>1. i - 1 \in 1 .. n /\ i - 1 < n /\ (i - 1) + 1 = i
          BY <4>2
        <5>2. r[i - 1] = q[(i - 1) + 1]
          BY <5>1, <1>4
        <5> QED BY <5>1, <5>2
      <4> QED BY <4>1, <4>2
    <3>2. ASSUME NEW i \in 1 .. n PROVE \E j \in 1 .. n : r[i] = q[j]
      BY <1>3, <1>4
    <3> QED BY <3>1, <3>2
  <2>9. ASSUME NEW i \in 1 .. n
        PROVE  new[r[i]] = IF i < n THEN r[i + 1] ELSE NULL
    <3>1. CASE i = n
      BY <3>1, <2>5, <1>4
    <3>2. CASE i < n
      <4>1. r[i] = q[i + 1] /\ i + 1 \in 1 .. n
        BY <3>2, <1>3, <1>4
      <4>2. CASE i + 1 = n
        BY <3>2, <4>1, <4>2, <2>5, <1>4
      <4>3. CASE i + 1 # n
        <5>1. i + 1 < n /\ i + 1 # 1 /\ (i + 1) + 1 \in 1 .. n
          BY <3>2, <4>3
        <5>2. q[i + 1] # q[1] /\ q[i + 1] # q[n] /\ q[i + 1] \in Addr
          BY <4>1, <4>3, <5>1, <1>2, <1>4, <1>5
        <5>3. s.one[q[i + 1]] = q[(i + 1) + 1]
          BY <4>1, <5>1, <1>2
        <5>4. r[i + 1] = q[(i + 1) + 1]
          BY <4>1, <5>1, <1>4
        <5> QED BY <3>2, <4>1, <5>2, <5>3, <5>4, <2>5
      <4> QED BY <4>2, <4>3
    <3> QED BY <3>1, <3>2
  <2>10. r[1] = q[2]
    <3>1. r[1] = q[1 + 1]
      BY <2>1, <1>4
    <3> QED BY <3>1
  <2>11. n # 0
    OBVIOUS
  <2>12. Items(u) = {r[i] : i \in 1 .. n}
    BY <2>8, <1>1, <1>2
  <2> QED BY <2>6, <2>7, <2>9, <2>10, <2>11, <2>12, <1>4 DEF Follows, r, u
<1> QED BY <1>7, <1>8

LEMMA RemoveFollows ==
    ASSUME NEW s \in Lists, IsQueue(s), NEW n \in Nat, NEW q, Follows(q, n, s),
           NEW k \in 1 .. n
    PROVE  Follows(Cut(q, n, k), n - 1, Remove(s, q[k]))
<1> DEFINE r == Cut(q, n, k)  v == q[k]  u == Remove(s, v)
<1>1. /\ q \in [1 .. n -> Addr]
      /\ \A i, j \in 1 .. n : q[i] = q[j] => i = j
      /\ Items(s) = {q[i] : i \in 1 .. n}
      /\ \A i \in 1 .. n : s.one[q[i]] = IF i < n THEN q[i + 1] ELSE NULL
      /\ s.one \in [Addr -> Link] /\ s.head \in Link
  BY DEF Follows, Lists
<1>2. n # 0 /\ 1 \in 1 .. n /\ n \in 1 .. n /\ n - 1 \in Nat
  OBVIOUS
<1>3. s.head = q[1] /\ s.tail = q[n] /\ s.head # NULL
  BY <1>2, TailIsLast
<1>4. \A i \in 1 .. n : q[i] \in Addr /\ q[i] # NULL /\ q[i] \in Items(s)
  BY <1>1, NULLAssumption
<1>5. u \in Lists /\ Items(u) = Items(s) \ {v}
  BY <1>4, RemoveKeeps
<1>6. \A i \in 1 .. n - 1 : i \in 1 .. n /\ i + 1 \in 1 .. n /\ (i < n - 1 => i + 1 \in 1 .. n - 1)
  BY <1>2
<1>7. /\ r \in [1 .. n - 1 -> Addr]
      /\ \A i \in 1 .. n - 1 : r[i] = IF i < k THEN q[i] ELSE q[i + 1]
  BY <1>1, <1>6 DEF Cut
<1> HIDE DEF r
<1>8. \A i, j \in 1 .. n - 1 : r[i] = r[j] => i = j
  <2> SUFFICES ASSUME NEW i \in 1 .. n - 1, NEW j \in 1 .. n - 1, r[i] = r[j] PROVE i = j
    OBVIOUS
  <2> DEFINE p == IF i < k THEN i ELSE i + 1  o == IF j < k THEN j ELSE j + 1
  <2>1. p \in 1 .. n /\ o \in 1 .. n /\ r[i] = q[p] /\ r[j] = q[o]
    BY <1>6, <1>7
  <2>2. p = o
    BY <2>1, <1>1
  <2> QED BY <2>2
<1>9. Items(u) = {r[i] : i \in 1 .. n - 1}
  <2>1. ASSUME NEW a \in Items(u) PROVE \E i \in 1 .. n - 1 : a = r[i]
    <3>1. PICK j \in 1 .. n : a = q[j] /\ j # k
      BY <1>1, <1>5
    <3>2. CASE j < k
      <4>1. j \in 1 .. n - 1 /\ r[j] = q[j]
        <5>1. j \in 1 .. n - 1
          BY <3>2
        <5> QED BY <5>1, <3>2, <1>7
      <4> QED BY <4>1, <3>1
    <3>3. CASE j > k
      <4>1. j - 1 \in 1 .. n - 1 /\ ~(j - 1 < k) /\ (j - 1) + 1 = j
        BY <3>3
      <4>2. r[j - 1] = q[(j - 1) + 1]
        BY <4>1, <1>7
      <4> QED BY <4>1, <4>2, <3>1
    <3> QED BY <3>1, <3>2, <3>3
  <2>2. ASSUME NEW i \in 1 .. n - 1 PROVE r[i] \in Items(u)
    <3> DEFINE p == IF i < k THEN i ELSE i + 1
    <3>1. p \in 1 .. n /\ p # k /\ r[i] = q[p]
      BY <1>6, <1>7
    <3> HIDE DEF p
    <3>2. q[p] # v /\ q[p] \in Items(s)
      BY <3>1, <1>1, <1>4
    <3> QED BY <3>1, <3>2, <1>5
  <2> QED BY <2>1, <2>2
<1>10. CASE n = 1
  <2>1. u = [s EXCEPT !.head = NULL, !.tail = NULL]
    BY <1>3, <1>10 DEF Remove
  <2>2. u.head = NULL
    BY <2>1 DEF Lists
  <2>3. n - 1 = 0 /\ \A i \in 1 .. n - 1 : FALSE
    BY <1>10
  <2> HIDE DEF u
  <2> QED BY <2>2, <2>3, <1>7, <1>8, <1>9 DEF Follows, r, u
<1>11. CASE n # 1
  <2>1. n - 1 # 0 /\ 1 \in 1 .. n - 1 /\ 2 \in 1 .. n /\ 1 < n
    BY <1>2, <1>11
  <2>2. s.head # s.tail
    BY <1>1, <1>2, <1>3, <1>11
  <2>3. s.one[q[1]] = q[2]
    BY <2>1, <1>1, <1>2
  <2>4. CASE k = 1
    <3>1. q[1] \notin Chain(q[2], s.one)
      BY <2>3, <1>1, <1>2, <1>3, <1>4, Beheaded DEF IsQueue
    <3>2. Before(v, q[2], s.one) = {}
      <4>1. q[2] \in Link
        BY <2>1, <1>4 DEF Link
      <4> QED BY <2>4, <3>1, <4>1, <1>1, <1>2, <1>4, NoPredecessor
    <3>3. u = [s EXCEPT !.head = q[2]]
      BY <2>2, <2>3, <2>4, <3>2, <1>3 DEF Remove, SearchedFrom
    <3>4. u.head = q[2] /\ u.one = s.one
      BY <3>3 DEF Lists
    <3> HIDE DEF u
    <3>5. \A i \in 1 .. n - 1 : r[i] = q[i + 1]
      BY <2>4, <1>7
    <3>6. r[1] = q[2]
      <4>1. r[1] = q[1 + 1]
        BY <2>1, <3>5
      <4> QED BY <4>1
    <3>7. ASSUME NEW i \in 1 .. n - 1
          PROVE  u.one[r[i]] = IF i < n - 1 THEN r[i + 1] ELSE NULL
      <4>1. r[i] = q[i + 1] /\ i + 1 \in 1 .. n /\ i \in Nat
        BY <3>5, <1>6
      <4>2. s.one[q[i + 1]] = IF i + 1 < n THEN q[(i + 1) + 1] ELSE NULL
        BY <4>1, <1>1
      <4>3. CASE i < n - 1
        <5>1. i + 1 < n /\ i + 1 \in 1 .. n - 1
          BY <4>3
        <5>2. r[i + 1] = q[(i + 1) + 1]
          BY <5>1, <3>5
        <5> QED BY <4>1, <4>2, <4>3, <5>1, <5>2, <3>4
      <4>4. CASE ~(i < n - 1)
        <5>1. ~(i + 1 < n)
          BY <4>4
        <5> QED BY <4>1, <4>2, <4>4, <5>1, <3>4
      <4> QED BY <4>3, <4>4
    <3> QED BY <2>1, <3>4, <3>6, <3>7, <1>7, <1>8, <1>9 DEF Follows, r, u
  <2>5. CASE k # 1
    <3> DEFINE p == q[k - 1]  new == [s.one EXCEPT ![p] = s.one[v]]
    <3>1. k - 1 \in 1 .. n - 1 /\ k - 1 \in 1 .. n /\ k - 1 < n /\ (k - 1) + 1 = k /\ k - 1 < k
      BY <2>5
    <3>2. v # q[1] /\ p \in Items(s) /\ p \in Addr /\ s.one[p] = v /\ v \in Addr
      <4>1. s.one[q[k - 1]] = q[(k - 1) + 1]
        BY <3>1, <1>1
      <4> QED BY <3>1, <4>1, <2>5, <1>1, <1>2, <1>4
    <3>3. Before(v, s.head, s.one) = {p}
      <4>1. \A i \in 1 .. n : s.one[q[i]] = v => i = k - 1
        <5> SUFFICES ASSUME NEW i \in 1 .. n, s.one[q[i]] = v PROVE i = k - 1
          OBVIOUS
        <5>1. i < n /\ q[i + 1] = q[k]
          BY <1>1, <1>4
        <5>2. i + 1 \in 1 .. n
          BY <5>1
        <5>3. i + 1 = k
          BY <5>1, <5>2, <1>1
        <5> QED BY <5>3
      <4>2. \A b \in Before(v, s.head, s.one) : b \in Items(s) /\ s.one[b] = v
        BY <3>2, <1>1, Found DEF Items
      <4>3. Before(v, s.head, s.one) # {}
        <5>1. v \in Items(s) /\ v # s.head
          BY <3>2, <1>3, <1>4
        <5> HIDE DEF v
        <5> QED BY <5>1, <1>1, Predecessor DEF Items
      <4> HIDE DEF v
      <4>4. \A b \in Before(v, s.head, s.one) : b = p
        BY <4>1, <4>2, <1>1
      <4> HIDE DEF p
      <4> QED BY <4>3, <4>4
    <3>4. (CHOOSE b \in Before(v, s.head, s.one) : TRUE) = p
      BY <3>3
    <3>5. u = [head |-> q[1], tail |-> IF v = s.tail THEN p ELSE s.tail, one |-> new]
      <4>1. Before(v, s.head, s.one) # {} /\ v # s.head
        BY <3>2, <3>3, <1>3
      <4> QED BY <2>2, <3>4, <4>1, <1>3 DEF Remove, SearchedFrom
    <3>6. u.head = q[1] /\ u.one = new
      BY <3>5
    <3> HIDE DEF u
    <3>7. \A a \in Addr \ {p} : new[a] = s.one[a]
      BY <1>1
    <3>8. new[p] = IF k < n THEN q[k + 1] ELSE NULL
      BY <3>2, <1>1
    <3> HIDE DEF new
    <3>9. r[1] = q[1]
      <4>1. 1 < k
        BY <2>5
      <4> QED BY <2>1, <4>1, <1>7
    <3>10. ASSUME NEW i \in 1 .. n - 1
           PROVE  u.one[r[i]] = IF i < n - 1 THEN r[i + 1] ELSE NULL
      <4>0. i \in 1 .. n /\ i \in Nat /\ k \in Nat
        BY <1>6
      <4>1. CASE i < k - 1
        <5>1. i < k /\ i + 1 < k /\ i < n - 1 /\ i < n /\ i + 1 \in 1 .. n - 1 /\ i # k - 1
          BY <4>0, <4>1
        <5>2. r[i] = q[i] /\ r[i + 1] = q[i + 1]
          BY <5>1, <1>7
        <5>3. q[i] \in Addr \ {p}
          BY <5>1, <4>0, <3>1, <1>1, <1>4
        <5>4. s.one[q[i]] = q[i + 1]
          BY <5>1, <4>0, <1>1
        <5> QED BY <5>1, <5>2, <5>3, <5>4, <3>6, <3>7
      <4>2. CASE i = k - 1
        <5>1. r[i] = p
          BY <4>2, <3>1, <1>7
        <5>2. CASE i < n - 1
          <6>1. k < n /\ i + 1 = k /\ k \in 1 .. n - 1 /\ ~(k < k)
            BY <4>0, <4>2, <5>2
          <6>2. r[k] = q[k + 1]
            BY <6>1, <1>7
          <6> QED BY <5>1, <5>2, <6>1, <6>2, <3>6, <3>8
        <5>3. CASE ~(i < n - 1)
          <6>1. ~(k < n)
            BY <4>0, <4>2, <5>3
          <6> QED BY <5>1, <5>3, <6>1, <3>6, <3>8
        <5> QED BY <5>2, <5>3
      <4>3. CASE i > k - 1
        <5>1. ~(i < k) /\ ~(i + 1 < k) /\ i + 1 \in 1 .. n /\ i + 1 # k - 1
          BY <4>0, <4>3
        <5>2. r[i] = q[i + 1]
          BY <5>1, <1>7
        <5>3. q[i + 1] \in Addr \ {p}
          BY <5>1, <3>1, <1>1, <1>4
        <5>4. s.one[q[i + 1]] = IF i + 1 < n THEN q[(i + 1) + 1] ELSE NULL
          BY <5>1, <1>1
        <5>5. CASE i < n - 1
          <6>1. i + 1 < n /\ i + 1 \in 1 .. n - 1
            BY <4>0, <5>5
          <6>2. r[i + 1] = q[(i + 1) + 1]
            BY <5>1, <6>1, <1>7
          <6> QED BY <5>2, <5>3, <5>4, <5>5, <6>1, <6>2, <3>6, <3>7
        <5>6. CASE ~(i < n - 1)
          <6>1. ~(i + 1 < n)
            BY <4>0, <5>6
          <6> QED BY <5>2, <5>3, <5>4, <5>6, <6>1, <3>6, <3>7
        <5> QED BY <5>5, <5>6
      <4> QED BY <4>0, <4>1, <4>2, <4>3
    <3> QED BY <2>1, <3>6, <3>9, <3>10, <1>7, <1>8, <1>9 DEF Follows, r, u
  <2> QED BY <2>4, <2>5
<1> QED BY <1>10, <1>11

\* An empty list has no order to keep.
LEMMA NobodyFollows ==
    ASSUME NEW s \in Lists, IsQueue(s), s.head = NULL, NEW n \in Nat, NEW q, Follows(q, n, s)
    PROVE  n = 0
  BY TailIsLast

\* The equation of Walk.
IsWalk(s, m, nth) ==
    nth = [i \in 1 .. m |-> IF i = 1 THEN s.head
                            ELSE IF nth[i - 1] = NULL THEN NULL ELSE s.one[nth[i - 1]]]

\* A walk along a list meets its threads in its order.
LEMMA WalkFollows ==
    ASSUME NEW s \in Lists, NEW n \in Nat, NEW q, Follows(q, n, s),
           NEW m \in Nat, n <= m, NEW nth, IsWalk(s, m, nth)
    PROVE  \A i \in 1 .. n : nth[i] = q[i]
<1> DEFINE Bad == {i \in 1 .. n : nth[i] # q[i]}
<1>1. CASE Bad = {}
  BY <1>1
<1>2. CASE Bad # {}
  <2>0. Bad \subseteq Nat
    OBVIOUS
  <2>1. PICK i \in Bad : \A j \in Bad : ~(j < i)
    BY <1>2, <2>0, LeastNumber
  <2>2. i \in 1 .. n /\ i \in 1 .. m /\ i \in Nat
    BY <2>1
  <2>3. nth[i] = IF i = 1 THEN s.head
                 ELSE IF nth[i - 1] = NULL THEN NULL ELSE s.one[nth[i - 1]]
    BY <2>2 DEF IsWalk
  <2>4. CASE i = 1
    BY <2>1, <2>2, <2>3, <2>4 DEF Follows
  <2>5. CASE i # 1
    <3>1. i - 1 \in 1 .. n /\ i - 1 < i /\ (i - 1) + 1 = i /\ i - 1 < n
      BY <2>2, <2>5
    <3>2. i - 1 \notin Bad
      BY <2>1, <3>1
    <3>3. nth[i - 1] = q[i - 1]
      BY <3>1, <3>2
    <3>4. q[i - 1] \in Addr /\ s.one[q[i - 1]] = q[(i - 1) + 1]
      BY <3>1 DEF Follows
    <3> QED BY <2>1, <2>3, <2>5, <3>1, <3>3, <3>4, NULLAssumption
  <2> QED BY <2>4, <2>5
<1> QED BY <1>1, <1>2

LEMMA IdsFollow ==
    ASSUME NEW s \in Lists, NEW n \in Nat, NEW q, Follows(q, n, s), NEW ids
    PROVE  IdsAlong(s, ids) = [i \in 1 .. n |-> ids[q[i]]]
<1> DEFINE m == Cardinality(Addr)
           nth == CHOOSE nth : IsWalk(s, m, nth)
           w == [i \in 1 .. m |-> IF i <= n THEN q[i] ELSE NULL]
<1>1. Items(s) \subseteq Addr /\ m \in Nat
  <2>1. s.head \in Link /\ s.one \in [Addr -> Link]
    BY DEF Lists
  <2> QED BY <2>1, ChainClosed, AddrAssumption, FS_CardinalityType DEF Items, Closed
<1>2. Cardinality(Items(s)) = n
  <2>1. IsFiniteSet(1 .. n) /\ Cardinality(1 .. n) = n
    <3>1. IsFiniteSet(1 .. n) /\ Cardinality(1 .. n) = IF 1 > n THEN 0 ELSE n - 1 + 1
      BY FS_Interval
    <3> QED BY <3>1
  <2>2. q \in Bijection(1 .. n, Items(s))
    <3>1. \A i, j \in 1 .. n : q[i] = q[j] => i = j
      BY DEF Follows
    <3>2. q \in [1 .. n -> Items(s)] /\ \A a \in Items(s) : \E i \in 1 .. n : q[i] = a
      BY DEF Follows
    <3> QED BY <3>1, <3>2 DEF Bijection, Injection, Surjection, IsInjective
  <2>3. ExistsBijection(1 .. n, Items(s))
    BY <2>2 DEF ExistsBijection
  <2> QED BY <2>1, <2>3, FS_Bijection
<1>3. n <= m
  BY <1>1, <1>2, AddrAssumption, FS_Subset
<1> HIDE DEF m
<1>4. IsWalk(s, m, w)
  <2> SUFFICES ASSUME NEW i \in 1 .. m
               PROVE  w[i] = IF i = 1 THEN s.head
                             ELSE IF w[i - 1] = NULL THEN NULL ELSE s.one[w[i - 1]]
    BY DEF IsWalk
  <2>1. CASE i = 1
    <3>1. s.head = IF n = 0 THEN NULL ELSE q[1]
      BY DEF Follows
    <3> QED BY <2>1, <3>1
  <2>2. CASE i # 1
    <3>1. i - 1 \in 1 .. m /\ i \in Nat /\ (i - 1) + 1 = i
      BY <2>2, <1>1
    <3>2. CASE i - 1 <= n
      <4>1. i - 1 \in 1 .. n /\ w[i - 1] = q[i - 1]
        BY <3>1, <3>2
      <4>2. q[i - 1] # NULL /\ s.one[q[i - 1]] = IF i - 1 < n THEN q[(i - 1) + 1] ELSE NULL
        BY <4>1, NULLAssumption DEF Follows
      <4>3. w[i] = IF i - 1 < n THEN q[i] ELSE NULL
        BY <3>1
      <4> HIDE DEF w
      <4> QED BY <2>2, <3>1, <4>1, <4>2, <4>3
    <3>3. CASE ~(i - 1 <= n)
      <4>1. w[i - 1] = NULL /\ w[i] = NULL
        BY <3>1, <3>3
      <4> HIDE DEF w
      <4> QED BY <2>2, <4>1
    <3> QED BY <3>2, <3>3
  <2> QED BY <2>1, <2>2
<1>5. Walk(s) = nth
  BY DEF Walk, IsWalk, m
<1>6. IsWalk(s, m, nth)
  BY <1>4
<1> HIDE DEF nth
<1>7. \A i \in 1 .. n : nth[i] = q[i]
  BY <1>1, <1>3, <1>6, WalkFollows
<1>8. IdsAlong(s, ids) = [i \in 1 .. n |-> ids[nth[i]]]
  BY <1>2, <1>5 DEF IdsAlong, Items
<1> QED BY <1>7, <1>8

-----------------------------------------------------------------------------
(***************************************************************************)
(* The queue of ids.                                                       *)
(***************************************************************************)
Ids(q, n, ids) == [i \in 1 .. n |-> ids[q[i]]]

LEMMA QueueIsSequence ==
    ASSUME NEW n \in Nat, NEW f \in [1 .. n -> Int]
    PROVE  /\ f \in Seq(Int) /\ Len(f) = n /\ DOMAIN f = 1 .. n
           /\ f = <<>> <=> n = 0
<1>1. f \in Seq(Int)
  BY SeqDef
<1>2. Len(f) \in Nat /\ DOMAIN f = 1 .. Len(f) /\ DOMAIN f = 1 .. n
  BY <1>1, LenProperties
<1>3. Len(f) = n
  BY <1>2
<1>4. f = <<>> <=> Len(f) = 0
  BY <1>1, EmptySeq
<1> QED BY <1>1, <1>2, <1>3, <1>4

LEMMA BehindAppends ==
    ASSUME NEW n \in Nat, NEW f \in [1 .. n -> Int], NEW e \in Int
    PROVE  Append(f, e) = Behind(f, n, e)
<1>1. f \in Seq(Int) /\ Len(f) = n
  BY QueueIsSequence
<1> DEFINE g == Append(f, e)
<1>2. /\ g \in Seq(Int) /\ Len(g) = n + 1
      /\ \A i \in 1 .. n : g[i] = f[i]
      /\ g[n + 1] = e
  BY <1>1, AppendProperties
<1> HIDE DEF g
<1>3. g \in [1 .. n + 1 -> Int]
  BY <1>2, LenProperties
<1>4. \A i \in 1 .. n + 1 : g[i] = Behind(f, n, e)[i]
  <2> SUFFICES ASSUME NEW i \in 1 .. n + 1 PROVE g[i] = Behind(f, n, e)[i]
    OBVIOUS
  <2>1. CASE i <= n
    <3>1. i \in 1 .. n
      BY <2>1
    <3> QED BY <2>1, <3>1, <1>2 DEF Behind
  <2>2. CASE ~(i <= n)
    <3>1. i = n + 1
      BY <2>2
    <3> QED BY <2>2, <3>1, <1>2 DEF Behind
  <2> QED BY <2>1, <2>2
<1>5. DOMAIN Behind(f, n, e) = 1 .. n + 1 /\ Behind(f, n, e) = [i \in 1 .. n + 1 |-> Behind(f, n, e)[i]]
  BY DEF Behind
<1>6. g = Behind(f, n, e)
  BY <1>3, <1>4, <1>5
<1> QED BY <1>6 DEF g

LEMMA TurnedAppends ==
    ASSUME NEW n \in Nat \ {0}, NEW f \in [1 .. n -> Int]
    PROVE  Append(Tail(f), Head(f)) = Turned(f, n) /\ Head(f) = f[1]
<1>1. f \in Seq(Int) /\ Len(f) = n /\ f # <<>>
  BY QueueIsSequence
<1> DEFINE t == Tail(f)  g == Append(t, Head(f))
<1>2. /\ Head(f) \in Int /\ t \in Seq(Int) /\ Len(t) = n - 1
      /\ \A i \in 1 .. n - 1 : t[i] = f[i + 1]
  BY <1>1, HeadTailProperties
<1>3. Head(f) = f[1]
  BY <1>1
<1> HIDE DEF t
<1>4. t \in [1 .. n - 1 -> Int] /\ n - 1 \in Nat /\ (n - 1) + 1 = n
  <2>1. t \in [1 .. Len(t) -> Int]
    BY <1>2, LenProperties
  <2>2. n - 1 \in Nat /\ (n - 1) + 1 = n
    OBVIOUS
  <2> QED BY <2>1, <2>2, <1>2
<1>5. g = Behind(t, n - 1, f[1])
  BY <1>2, <1>3, <1>4, BehindAppends
<1>6. g = [i \in 1 .. n |-> IF i <= n - 1 THEN t[i] ELSE f[1]]
  BY <1>4, <1>5 DEF Behind
<1>7. \A i \in 1 .. n : (i <= n - 1 <=> i < n) /\ (i < n => i \in 1 .. n - 1)
  OBVIOUS
<1>8. g = Turned(f, n)
  BY <1>2, <1>6, <1>7 DEF Turned
<1> QED BY <1>3, <1>8 DEF g, t

LEMMA CutTakesOut ==
    ASSUME NEW n \in Nat, NEW f \in [1 .. n -> Int], NEW k \in 1 .. n,
           \A i, j \in 1 .. n : f[i] = f[j] => i = j
    PROVE  Queue!Without(f, f[k]) = Cut(f, n, k)
<1>1. DOMAIN f = 1 .. n /\ Len(f) = n
  BY QueueIsSequence
<1>2. (CHOOSE i \in DOMAIN f : f[i] = f[k]) = k
  BY <1>1
<1> QED BY <1>1, <1>2 DEF Queue!Without, Cut

-----------------------------------------------------------------------------
(***************************************************************************)
(* Each call is a step of the queue, as long as the default scheduler is   *)
(* in charge.                                                              *)
(***************************************************************************)
\* Where there is none to plug in, nothing is ever dropped or handed over.
Plain == dropped = "no" /\ handed = "no"
InOrder == Plain /\ \E n \in Nat : \E q : Follows(q, n, sched)

\* lwp_get_next, and what lwp_start does with the answer.
LEMMA DispatchChooses ==
    ASSUME NEW s \in Lists, IsQueue(s), NEW n \in Nat, NEW q, Follows(q, n, s),
           currScheduler = NULL, Dispatch(s, {}), tid' \in [Addr -> Int],
           dropped' = "no", NEW f, f = Ids(q, n, tid')
    PROVE  Queue!Choose(f) /\ InOrder'
<1>1. q \in [1 .. n -> Addr]
  BY DEF Follows
<1>2. f \in [1 .. n -> Int]
  BY <1>1 DEF Ids
<1>3. f = <<>> <=> n = 0
  BY <1>2, QueueIsSequence
<1>4. CASE s.head # NULL /\ SetSched(Rotate(s)) /\ currentThread' = s.head /\ where' = "thread"
  <2>1. n \in Nat \ {0} /\ s.head = q[1] /\ 1 \in 1 .. n
    BY <1>4, TailIsLast
  <2>2. Rotate(s) \in Lists
    BY RotateKeeps
  <2>3. sched' = Rotate(s)
    BY <1>4, <2>2 DEF SetSched, sched, Lists
  <2>4. Follows(Turned(q, n), n, Rotate(s))
    BY <2>1, RotateFollows
  <2>5. InOrder'
    BY <2>3, <2>4, <1>4 DEF InOrder, Plain, SetSched
  <2>6. IdsAlong(Rotate(s), tid') = [i \in 1 .. n |-> tid'[Turned(q, n)[i]]]
    <3>1. \A ids : IdsAlong(Rotate(s), ids) = [i \in 1 .. n |-> ids[Turned(q, n)[i]]]
      BY <2>2, <2>4, IdsFollow
    <3> QED BY <3>1
  <2>7. [i \in 1 .. n |-> tid'[Turned(q, n)[i]]] = Turned(f, n)
    <3>1. \A i \in 1 .. n : i < n => i + 1 \in 1 .. n
      OBVIOUS
    <3> QED BY <2>1, <3>1 DEF Turned, Ids
  <2>8. QueueOfTids' = Turned(f, n)
    BY <2>3, <2>6, <2>7 DEF QueueOfTids
  <2>9. TurnOf' = f[1]
    BY <1>4, <2>1 DEF TurnOf, Ids
  <2>10. Append(Tail(f), Head(f)) = Turned(f, n) /\ Head(f) = f[1]
    BY <2>1, <1>2, TurnedAppends
  <2>11. QueueOfTids' = Append(Tail(f), Head(f)) /\ TurnOf' = Head(f) /\ f # <<>>
    BY <2>1, <2>8, <2>9, <2>10, <1>3
  <2> QED BY <2>5, <2>11 DEF Queue!Choose
<1>5. CASE s.head = NULL /\ SetSched(s) /\ where' = "main"
  <2>1. n = 0
    BY <1>5, NobodyFollows
  <2>2. sched' = s
    BY <1>5 DEF SetSched, sched, Lists
  <2>3. InOrder'
    BY <2>2, <1>5 DEF InOrder, Plain, SetSched
  <2>4. QueueOfTids' = f
    BY <2>2, IdsFollow DEF QueueOfTids, Ids
  <2>5. TurnOf' = 0
    BY <1>5 DEF TurnOf
  <2>6. f = <<>>
    BY <2>1, <1>3
  <2> QED BY <2>3, <2>4, <2>5, <2>6 DEF Queue!Choose
<1> QED BY <1>4, <1>5 DEF Dispatch

\* What every lemma of a call needs of the invariant.
LEMMA OrderFacts ==
    ASSUME IInv, Scheduler = {}, Plain, NEW n \in Nat, NEW q, Follows(q, n, sched)
    PROVE  /\ currScheduler = NULL /\ Items(sched) = live /\ live \subseteq Addr
           /\ sched \in Lists /\ IsQueue(sched) /\ q \in [1 .. n -> Addr]
           /\ tid \in [Addr -> Int] /\ currThreadID \in Nat
           /\ Held = {}
           /\ QueueOfTids = Ids(q, n, tid) /\ QueueOfTids \in [1 .. n -> Int]
           /\ where \in {"thread", "loop"} =>
                 /\ TurnOf # 0 /\ TurnOf = tid[currentThread] /\ currentThread \in live
           /\ where = "main" => TurnOf = 0
<1>1. /\ TypeOK /\ QueueInv /\ SchedInv /\ TidInv /\ CurrentInv
      /\ currScheduler = NULL /\ dropped = "no" /\ handed = "no"
  BY DEF IInv, TypeOK, Plain
<1>3. Items(sched) = live
  BY <1>1, ListedItems DEF SchedInv, Scheduled, QueueInv
<1>4. sched \in Lists /\ IsQueue(sched) /\ Held = {}
  BY <1>1, Types DEF QueueInv, Held
<1>5. live \subseteq Addr /\ tid \in [Addr -> Int] /\ currThreadID \in Nat
  <2>1. tid \in [Addr -> -1 .. MaxTid] /\ MaxTid \in Nat
    BY <1>1, MaxTidAssumption DEF TypeOK
  <2>2. -1 .. MaxTid \subseteq Int
    BY <2>1
  <2>3. tid \in [Addr -> Int]
    BY <2>1, <2>2
  <2> QED BY <1>1, <2>3 DEF TypeOK
<1>6. q \in [1 .. n -> Addr]
  BY DEF Follows
<1>7. QueueOfTids = Ids(q, n, tid)
  BY <1>4, IdsFollow DEF QueueOfTids, Ids
<1>8. QueueOfTids \in [1 .. n -> Int]
  BY <1>5, <1>6, <1>7 DEF Ids
<1>9. where \in {"thread", "loop"} =>
         TurnOf # 0 /\ TurnOf = tid[currentThread] /\ currentThread \in live
  BY <1>1, <1>5 DEF TurnOf, TidInv, CurrentInv
<1>10. where = "main" => TurnOf = 0
  BY DEF TurnOf
<1> QED BY <1>1, <1>3, <1>4, <1>5, <1>6, <1>7, <1>8, <1>9, <1>10

\* lwp_create: the new thread goes to the end.
LEMMA CreateSpawns ==
    ASSUME IInv, Scheduler = {}, Plain, NEW n \in Nat, NEW q, Follows(q, n, sched),
           NEW t \in Addr, Create(t)
    PROVE  Queue!Spawn /\ InOrder'
<1> DEFINE zeroed == [sched EXCEPT !.one[t] = NULL]
<1>1. /\ currScheduler = NULL /\ Items(sched) = live /\ live \subseteq Addr
      /\ sched \in Lists /\ IsQueue(sched) /\ q \in [1 .. n -> Addr]
      /\ tid \in [Addr -> Int] /\ currThreadID \in Nat
      /\ QueueOfTids = Ids(q, n, tid) /\ QueueOfTids \in [1 .. n -> Int]
      /\ where = "thread" => TurnOf = tid[currentThread] /\ currentThread \in live
      /\ where = "main" => TurnOf = 0
  BY OrderFacts
<1>2. /\ zeroed \in Lists /\ zeroed.head = sched.head /\ zeroed.tail = sched.tail
      /\ zeroed.one = [sched.one EXCEPT ![t] = NULL]
  BY <1>1 DEF Lists, Link
<1>3. t \notin live /\ SetSched(Admit(zeroed, t))
      /\ tid' = [tid EXCEPT ![t] = currThreadID + 1]
      /\ where \in {"main", "thread"} /\ where' = where
      /\ currentThread' = currentThread /\ currThreadID < MaxTid
  BY <1>1 DEF Create
<1> HIDE DEF zeroed
<1>4. zeroed.one[t] = NULL /\ \A a \in live : zeroed.one[a] = sched.one[a]
  <2>1. sched.one \in [Addr -> Link]
    BY <1>1 DEF Lists
  <2> QED BY <2>1, <1>1, <1>2, <1>3
<1>5. IsQueue(zeroed) /\ Items(zeroed) = live
  BY <1>1, <1>2, <1>4, SameQueue
<1>6. \A i \in 1 .. n : q[i] \in live
  BY <1>1 DEF Follows
<1>7. Follows(q, n, zeroed)
  BY <1>1, <1>2, <1>4, <1>5, <1>6 DEF Follows
<1>8. Admit(zeroed, t) \in Lists
  BY <1>2, <1>3, <1>4, <1>5, AdmitKeeps
<1>9. sched' = Admit(zeroed, t)
  BY <1>3, <1>8 DEF SetSched, sched, Lists
<1>10. Follows(Behind(q, n, t), n + 1, Admit(zeroed, t))
  BY <1>2, <1>3, <1>4, <1>5, <1>7, AdmitFollows
<1>11. InOrder'
  <2>1. n + 1 \in Nat
    OBVIOUS
  <2>2. Plain'
    BY <1>3 DEF Plain, Create, SetSched
  <2> QED BY <2>1, <2>2, <1>9, <1>10 DEF InOrder
<1>12. QueueOfTids' = Append(QueueOfTids, currThreadID + 1)
  <2>1. IdsAlong(Admit(zeroed, t), tid') =
          [i \in 1 .. n + 1 |-> tid'[Behind(q, n, t)[i]]]
    BY <1>8, <1>10, IdsFollow
  <2>2. \A i \in 1 .. n : tid'[q[i]] = tid[q[i]]
    BY <1>1, <1>3, <1>6
  <2>3. tid'[t] = currThreadID + 1
    BY <1>1, <1>3
  <2>4. \A i \in 1 .. n + 1 : i <= n => i \in 1 .. n
    OBVIOUS
  <2>5. [i \in 1 .. n + 1 |-> tid'[Behind(q, n, t)[i]]] =
          Behind(Ids(q, n, tid), n, currThreadID + 1)
    BY <2>2, <2>3, <2>4 DEF Behind, Ids
  <2>6. currThreadID + 1 \in Int
    BY <1>1
  <2>7. Append(QueueOfTids, currThreadID + 1) = Behind(Ids(q, n, tid), n, currThreadID + 1)
    BY <2>6, <1>1, BehindAppends
  <2> QED BY <2>1, <2>5, <2>7, <1>9 DEF QueueOfTids
<1>13. currThreadID + 1 \in (1 .. MaxTid) \ Range(QueueOfTids)
  <2>1. \A i \in 1 .. n : QueueOfTids[i] \in 1 .. currThreadID
    BY <1>1, <1>6 DEF Ids, IInv, TidInv
  <2>2. \A e \in Range(QueueOfTids) : e \in 1 .. currThreadID
    BY <2>1, <1>1 DEF Range
  <2>3. currThreadID + 1 \notin 1 .. currThreadID /\ currThreadID + 1 \in 1 .. MaxTid
    BY <1>1, <1>3, MaxTidAssumption
  <2> QED BY <2>2, <2>3
<1>14. TurnOf' = TurnOf
  <2>1. CASE where = "main"
    BY <2>1, <1>3 DEF TurnOf
  <2>2. CASE where = "thread"
    <3>1. currentThread \in Addr /\ currentThread # t
      BY <2>2, <1>1, <1>3
    <3> QED BY <2>2, <3>1, <1>1, <1>3 DEF TurnOf
  <2> QED BY <2>1, <2>2, <1>3
<1> QED BY <1>11, <1>12, <1>13, <1>14 DEF Queue!Spawn, Queue!Range, Range

\* lwp_exit: the thread leaves the queue, from wherever it stands in it.
LEMMA ExitLeaves ==
    ASSUME IInv, Scheduler = {}, Plain, NEW n \in Nat, NEW q, Follows(q, n, sched),
           ResumeAfterExit
    PROVE  Queue!Leave /\ InOrder'
<1> DEFINE v == currentThread  left == Remove(sched, v)
<1>1. /\ currScheduler = NULL /\ Items(sched) = live /\ live \subseteq Addr
      /\ sched \in Lists /\ IsQueue(sched) /\ q \in [1 .. n -> Addr]
      /\ tid \in [Addr -> Int]
      /\ QueueOfTids = Ids(q, n, tid) /\ QueueOfTids \in [1 .. n -> Int]
      /\ where \in {"thread", "loop"} =>
            TurnOf # 0 /\ TurnOf = tid[v] /\ v \in live
  BY OrderFacts
<1>2. /\ Dispatch(left, {}) /\ tid' = [tid EXCEPT ![v] = -1] /\ where = "loop"
      /\ dropped' = "no"
  BY <1>1 DEF ResumeAfterExit, Plain
<1>3. v \in live /\ v \in Addr /\ TurnOf # 0 /\ TurnOf = tid[v]
  BY <1>1, <1>2
<1>4. PICK k \in 1 .. n : v = q[k]
  BY <1>1, <1>3 DEF Follows
<1>5. left \in Lists /\ IsQueue(left)
  BY <1>1, <1>3, RemoveKeeps
<1>6. Follows(Cut(q, n, k), n - 1, left)
  BY <1>1, <1>4, RemoveFollows
<1>7. n - 1 \in Nat
  BY <1>4
<1>8. tid' \in [Addr -> Int]
  BY <1>1, <1>2
<1>9. Queue!Choose(Ids(Cut(q, n, k), n - 1, tid')) /\ InOrder'
  BY <1>1, <1>2, <1>5, <1>6, <1>7, <1>8, DispatchChooses
<1>10. \A i, j \in 1 .. n : q[i] = q[j] => i = j
  BY DEF Follows
<1>11. \A i, j \in 1 .. n : QueueOfTids[i] = QueueOfTids[j] => i = j
  <2>1. \A i \in 1 .. n : q[i] \in live
    BY <1>1 DEF Follows
  <2>2. \A a, b \in live : tid[a] = tid[b] => a = b
    BY DEF IInv, TidInv
  <2> QED BY <2>1, <2>2, <1>1, <1>10 DEF Ids
<1>12. Queue!Without(QueueOfTids, TurnOf) = Cut(QueueOfTids, n, k)
  <2>1. QueueOfTids[k] = TurnOf
    BY <1>1, <1>3, <1>4 DEF Ids
  <2> QED BY <2>1, <1>1, <1>11, CutTakesOut
<1>13. Ids(Cut(q, n, k), n - 1, tid') = Cut(QueueOfTids, n, k)
  <2>1. \A i \in 1 .. n : i # k => tid'[q[i]] = QueueOfTids[i]
    BY <1>1, <1>2, <1>4, <1>10 DEF Ids
  <2>2. \A i \in 1 .. n - 1 : IF i < k THEN i \in 1 .. n /\ i # k
                              ELSE i + 1 \in 1 .. n /\ i + 1 # k
    OBVIOUS
  <2> QED BY <2>1, <2>2 DEF Ids, Cut
<1> QED BY <1>3, <1>9, <1>12, <1>13 DEF Queue!Leave

\* Calls that leave the list alone.
LEMMA QueueStays ==
    ASSUME InOrder, UNCHANGED <<tid, sched_one, head_sched, tail_sched, dropped, handed>>
    PROVE  InOrder' /\ QueueOfTids' = QueueOfTids
<1>1. sched' = sched
  BY DEF sched
<1> QED BY <1>1 DEF InOrder, Plain, QueueOfTids

LEMMA StepQueues ==
    ASSUME Scheduler = {}, IInv, InOrder, [Next]_vars
    PROVE  InOrder' /\ [Queue!QueueNext]_(Queue!qvars)
<1>1. PICK n \in Nat : \E q : Follows(q, n, sched)
  BY DEF InOrder
<1>2. PICK q : Follows(q, n, sched)
  BY <1>1
<1>0. Plain
  BY DEF InOrder
<1>3. /\ currScheduler = NULL /\ sched \in Lists /\ IsQueue(sched) /\ Held = {}
      /\ tid \in [Addr -> Int] /\ QueueOfTids = Ids(q, n, tid)
      /\ where \in {"thread", "loop"} => TurnOf # 0
      /\ where = "main" => TurnOf = 0
  BY <1>0, <1>2, OrderFacts
<1>4. ASSUME NEW t \in Addr, Create(t) PROVE Queue!Spawn /\ InOrder'
  BY <1>0, <1>2, <1>4, CreateSpawns
<1>5. CASE Start
  <2>1. Dispatch(sched, {}) /\ tid' = tid /\ where = "main" /\ dropped' = "no"
    BY <1>0, <1>3, <1>5 DEF Start, Plain
  <2>2. Queue!Choose(QueueOfTids) /\ InOrder'
    BY <2>1, <1>2, <1>3, DispatchChooses
  <2> QED BY <2>1, <2>2, <1>3 DEF Queue!Begin, Queue!QueueNext
<1>6. CASE Yield \/ Stop \/ Exit
  <2>1. UNCHANGED <<tid, sched_one, head_sched, tail_sched, currentThread, dropped, handed>>
        /\ where = "thread" /\ where' = "loop"
    BY <1>6 DEF Yield, Stop, Exit, GiveUp
  <2>2. TurnOf' = TurnOf
    BY <2>1 DEF TurnOf
  <2> QED BY <2>1, <2>2, QueueStays DEF Queue!qvars
<1>7. CASE ReturnStopped
  <2>1. UNCHANGED <<tid, sched_one, head_sched, tail_sched, currentThread, dropped, handed>>
        /\ where = "loop" /\ where' = "main"
    BY <1>7 DEF ReturnStopped
  <2>2. TurnOf' = 0 /\ TurnOf # 0
    BY <2>1, <1>3 DEF TurnOf
  <2> QED BY <2>1, <2>2, QueueStays DEF Queue!Halt, Queue!QueueNext
<1>12. CASE SearchForExited
  <2>1. UNCHANGED <<tid, sched_one, head_sched, tail_sched, currentThread, dropped, handed>>
        /\ where = "loop" /\ where' = "hung"
    BY <1>12 DEF SearchForExited
  <2>2. TurnOf' = 0 /\ TurnOf # 0
    BY <2>1, <1>3 DEF TurnOf
  <2> QED BY <2>1, <2>2, QueueStays DEF Queue!Halt, Queue!QueueNext
<1>8. CASE ResumeAfterYield
  <2>1. Dispatch(sched, {}) /\ tid' = tid /\ where = "loop" /\ dropped' = "no"
    BY <1>0, <1>3, <1>8 DEF ResumeAfterYield, Plain
  <2>2. Queue!Choose(QueueOfTids) /\ InOrder'
    BY <2>1, <1>2, <1>3, DispatchChooses
  <2> QED BY <2>1, <2>2, <1>3 DEF Queue!Pass, Queue!QueueNext
<1>9. CASE ResumeAfterExit
  BY <1>0, <1>2, <1>9, ExitLeaves DEF Queue!QueueNext
<1>10. CASE SetScheduler
  <2>1. SetSame
    BY <1>3, <1>10 DEF SetScheduler, Unplug
  <2>2. UNCHANGED <<tid, sched_one, head_sched, tail_sched, currentThread, dropped, handed>>
        /\ where \in {"main", "thread"} /\ where' \in {where, "crashed"}
    BY <2>1, <1>3 DEF SetSame
  <2>3. InOrder' /\ QueueOfTids' = QueueOfTids
    BY <2>2, QueueStays
  <2>4. TurnOf' = TurnOf \/ (TurnOf # 0 /\ TurnOf' = 0)
    BY <2>2, <1>3 DEF TurnOf
  <2> QED BY <2>3, <2>4 DEF Queue!qvars, Queue!Halt, Queue!QueueNext
<1>11. CASE UNCHANGED vars
  <2>1. UNCHANGED <<tid, sched_one, head_sched, tail_sched, currentThread, where,
                  dropped, handed>>
    BY <1>11 DEF vars
  <2>2. TurnOf' = TurnOf
    BY <2>1 DEF TurnOf
  <2> QED BY <2>1, <2>2, QueueStays DEF Queue!qvars
<1> QED BY <1>4, <1>5, <1>6, <1>7, <1>8, <1>9, <1>10, <1>11, <1>12 DEF Next, Queue!QueueNext

LEMMA InitQueues == Init => InOrder /\ Queue!QueueInit
<1> SUFFICES ASSUME Init PROVE InOrder /\ Queue!QueueInit
  OBVIOUS
<1>1. IInv
  BY InitHolds
<1>2. sched \in Lists /\ sched.head = NULL /\ sched.tail = NULL /\ sched.head = head_sched
  BY <1>1, Types DEF Init, sched, IInv
<1>3. Items(sched) = {}
  BY <1>2, EmptyQueue
<1> DEFINE none == [i \in 1 .. 0 |-> NULL]
<1>4. Follows(none, 0, sched)
  BY <1>2, <1>3 DEF Follows
<1>5. InOrder
  BY <1>4 DEF InOrder, Plain, Init
<1>6. QueueOfTids = [i \in 1 .. 0 |-> tid[none[i]]]
  BY <1>2, <1>4, IdsFollow DEF QueueOfTids
<1>7. QueueOfTids = <<>>
  <2>1. QueueOfTids \in [1 .. 0 -> Int]
    BY <1>6
  <2> QED BY <2>1, QueueIsSequence
<1>8. TurnOf = 0
  BY DEF Init, TurnOf
<1> QED BY <1>5, <1>7, <1>8 DEF Queue!QueueInit

\* For programs that plug in no scheduler, the default one is the queue it
\* promises to be: its linked list takes a new thread at the end, hands out its
\* first and puts it last, and lets go of a thread that exits, wherever it
\* stands, without disturbing the order of the others.
THEOREM TakesTurns ==
    ASSUME Scheduler = {} PROVE Spec => ImplementsQueue
<1>1. Init => InOrder /\ Queue!QueueInit
  BY InitQueues
<1>2. IInv /\ InOrder /\ [Next]_vars => InOrder' /\ [Queue!QueueNext]_(Queue!qvars)
  BY StepQueues
<1> QED BY <1>1, <1>2, Invariance, PTL DEF Spec, ImplementsQueue, Queue!QueueSpec
=============================================================================
