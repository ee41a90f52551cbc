---------------------------- MODULE MallocProofs ----------------------------
(***************************************************************************)
(* Theorems about Malloc, for any sizes and any layout in which a header   *)
(* is at least as large as the alignment.                                  *)
(*                                                                         *)
(* The list is in address order: the link of a block leads to the least    *)
(* header behind it.  That is what the walks of the code are replaced by:  *)
(* WalkTo finds the least block at which a walk may end (FirstEnd), and    *)
(* each of the four things that calls do to the list (append, cut, join,   *)
(* mark as free) keeps the order.  All of it ends where free takes client  *)
(* bytes for a header; of the states from there on only types are known.   *)
(***************************************************************************)
EXTENDS Malloc, FiniteSetTheorems, WellFoundedInduction, TLAPS

Header == [isFree : BOOLEAN, isLast : BOOLEAN, dataSize : Nat, data : Nat, next : Nat]

\* The headers m are a list in address order from the first on.
IsList(m, first) ==
    /\ DOMAIN m \subseteq Nat /\ m \in [DOMAIN m -> Header]
    /\ \A a \in DOMAIN m :
        /\ m[a].data = DataAt(a) /\ DataAt(a) + m[a].dataSize <= m[a].next
        /\ ~m[a].isLast => m[a].next \in DOMAIN m
    /\ \A a, c \in DOMAIN m : a < c => ~m[a].isLast /\ m[a].next <= c
    /\ IF DOMAIN m = {} THEN first = NULL
       ELSE /\ first \in DOMAIN m /\ first # NULL
            /\ \A a \in DOMAIN m : first <= a
            /\ \E z \in DOMAIN m : m[z].isLast

\* Free blocks are apart.
Apart(m) ==
    \A a \in DOMAIN m : m[a].isFree /\ ~m[a].isLast => ~m[m[a].next].isFree

\* The block b is in use, for data at p of this size.
Serves(m, b, p, size) ==
    b \in DOMAIN m /\ m[b].data = p /\ ~m[b].isFree /\ m[b].dataSize >= size

\* Every pointer that clients hold has a block that serves it.
Holds(m, f) == \A p \in DOMAIN f : \E b \in DOMAIN m : Serves(m, b, p, f[p])

-----------------------------------------------------------------------------
(***************************************************************************)
(* Numbers.                                                                *)
(***************************************************************************)
LEMMA LeastNumber ==
    ASSUME NEW T \in SUBSET Nat, T # {}
    PROVE  \E n \in T : \A m \in T : n <= m
<1> DEFINE R == OpToRel(<, Nat)
<1>1. \A x, y \in Nat : x < y => <<x, y>> \in R
  BY Zenon DEF OpToRel
<1>2. IsWellFoundedOn(R, Nat)
  BY NatLessThanWellFounded, Zenon
<1> HIDE DEF R
<1>3. PICK n \in T : \A m \in T : ~ (<<m, n>> \in R)
  BY <1>2, WFMin
<1>4. \A m \in T : ~ (m < n)
  BY <1>1, <1>3
<1> QED BY <1>4

LEMMA ProductSign ==
    ASSUME NEW k \in Nat \ {0}, NEW e \in Int
    PROVE  /\ e >= 1 => k * e >= k
           /\ e <= -1 => k * e <= -k
<1>1. ASSUME e >= 1 PROVE k * e >= k
  <2>1. k * (e - 1) >= 0
    BY <1>1
  <2>2. k * (e - 1) = k * e - k
    OBVIOUS
  <2> QED BY <2>1, <2>2
<1>2. ASSUME e <= -1 PROVE k * e <= -k
  <2>1. k * (-e - 1) >= 0
    BY <1>2
  <2>2. k * (-e - 1) = -(k * e) - k
    OBVIOUS
  <2> QED BY <2>1, <2>2
<1> QED BY <1>1, <1>2

LEMMA MultiplesDivide ==
    ASSUME NEW k \in Nat \ {0}, NEW q \in Nat
    PROVE  (k * q) % k = 0
<1> DEFINE x == k * q
           d == x \div k
           r == x % k
<1>1. x \in Nat /\ d \in Int /\ r \in 0 .. k - 1 /\ x = k * d + r
  OBVIOUS
<1>2. k * (q - d) = r
  BY <1>1
<1>3. q - d \in Int /\ q - d = 0 => r = 0
  BY <1>1, <1>2
<1> HIDE DEF x, d, r
<1>4. ~ (q - d >= 1) /\ ~ (q - d <= -1)
  BY <1>1, <1>2, ProductSign
<1>5. q - d = 0
  BY <1>1, <1>4
<1>6. r = k * 0
  BY <1>2, <1>5
<1> QED BY <1>1, <1>6 DEF r, x

LEMMA Aligned ==
    ASSUME NEW n \in Nat, NEW k \in Nat \ {0}
    PROVE  (n + (k - (n % k))) % k = 0
<1>1. n = k * (n \div k) + (n % k) /\ n \div k \in Nat /\ n % k \in 0 .. k - 1
  OBVIOUS
<1>2. n + (k - (n % k)) = k * ((n \div k) + 1)
  BY <1>1
<1> QED BY <1>1, <1>2, MultiplesDivide

LEMMA DataBehindHeader ==
    ASSUME NEW at \in Nat
    PROVE  /\ DataAt(at) \in Nat
           /\ at + HeaderSize < DataAt(at) /\ DataAt(at) <= at + HeaderSize * 2
           /\ DataAt(at) % Alignment = 0
<1> DEFINE after == at + HeaderSize
<1>1. after \in Nat /\ Alignment \in Nat \ {0} /\ Alignment <= HeaderSize
      /\ HeaderSize \in Nat \ {0}
  BY LayoutAssumption
<1>2. DataAt(at) = after + (Alignment - (after % Alignment))
  BY DEF DataAt
<1> HIDE DEF after
<1>3. after % Alignment \in 0 .. Alignment - 1
  BY <1>1
<1>4. DataAt(at) % Alignment = 0
  BY <1>1, <1>2, Aligned
<1> QED BY <1>1, <1>2, <1>3, <1>4 DEF after

-----------------------------------------------------------------------------
(***************************************************************************)
(* Lists in address order, and the walks along them.                       *)
(***************************************************************************)
LEMMA BlockFacts ==
    ASSUME NEW m, NEW first, IsList(m, first), NEW a \in DOMAIN m
    PROVE  /\ a \in Nat /\ m[a] \in Header
           /\ m[a].next \in Nat /\ m[a].dataSize \in Nat
           /\ m[a].data = DataAt(a) /\ DataAt(a) + m[a].dataSize <= m[a].next
           /\ DataAt(a) \in Nat /\ a < DataAt(a) /\ a < m[a].next
           /\ first \in DOMAIN m /\ first \in Nat /\ first <= a
<1>1. a \in Nat /\ m[a] \in Header
  BY DEF IsList
<1>2. m[a].data = DataAt(a) /\ DataAt(a) + m[a].dataSize <= m[a].next
  BY DEF IsList
<1>3. first \in DOMAIN m /\ first <= a /\ first \in Nat
  BY DEF IsList
<1>4. m[a].next \in Nat /\ m[a].dataSize \in Nat
  BY <1>1 DEF Header
<1>5. HeaderSize \in Nat
  BY LayoutAssumption
<1>6. DataAt(a) \in Nat /\ a + HeaderSize < DataAt(a)
  BY <1>1, DataBehindHeader
<1> QED BY <1>1, <1>2, <1>3, <1>4, <1>5, <1>6

\* The last block is the highest.
LEMMA LastIsHighest ==
    ASSUME NEW m, NEW first, IsList(m, first), NEW z \in DOMAIN m, m[z].isLast
    PROVE  \A a \in DOMAIN m : a <= z /\ (a # z => ~m[a].isLast /\ m[a].next <= z)
<1>1. \A a, c \in DOMAIN m : a < c => ~m[a].isLast /\ m[a].next <= c
  BY DEF IsList
<1>2. DOMAIN m \subseteq Nat
  BY DEF IsList
<1>3. \A a \in DOMAIN m : ~ (z < a)
  BY <1>1
<1> QED BY <1>1, <1>2, <1>3

\* Every block but the first is behind exactly one other, its neighbour below.
LEMMA Below ==
    ASSUME NEW m, NEW first, IsList(m, first), NEW a \in DOMAIN m, a # first
    PROVE  \E p \in DOMAIN m : Previous(m, a) = {p} /\ p < a
<1> DEFINE D == {a - c : c \in {c \in DOMAIN m : c < a}}
<1>1. \A c \in DOMAIN m : c \in Nat /\ m[c].next \in Nat /\ c < m[c].next
  BY BlockFacts
<1>2. first \in DOMAIN m /\ first < a
  BY <1>1, BlockFacts
<1>3. D \in SUBSET Nat
  BY <1>1
<1>4. a - first \in D
  BY <1>2
<1>5. PICK d \in D : \A e \in D : d <= e
  BY <1>3, <1>4, LeastNumber
<1>6. PICK p \in DOMAIN m : p < a /\ d = a - p
  BY <1>5
<1>7. \A c \in DOMAIN m : c < a => c <= p
  <2> TAKE c \in DOMAIN m
  <2> HAVE c < a
  <2>1. a - c \in D
    OBVIOUS
  <2>2. a - p <= a - c
    BY <1>5, <1>6, <2>1
  <2> QED BY <1>1, <2>2
<1> HIDE DEF D
<1>8. \A x, y \in DOMAIN m : x < y => ~m[x].isLast /\ m[x].next <= y
  BY DEF IsList
<1>9. m[p].next \in DOMAIN m
  BY <1>6, <1>8 DEF IsList
<1>10. m[p].next = a /\ ~m[p].isLast
  BY <1>1, <1>6, <1>7, <1>8, <1>9
<1>11. \A q \in DOMAIN m : ~m[q].isLast /\ m[q].next = a => q = p
  BY <1>1, <1>6, <1>7, <1>8, <1>10
<1> QED BY <1>6, <1>10, <1>11 DEF Previous

\* A walk ends at the least block at which it may.
LEMMA WalkFinds ==
    ASSUME NEW m, NEW first, IsList(m, first), DOMAIN m # {}, NEW stops
    PROVE  LET b == WalkTo(m, first, stops) IN
           /\ b \in DOMAIN m /\ b \in Ends(m, stops)
           /\ \A c \in DOMAIN m : c < b => c \notin Ends(m, stops)
<1> DEFINE E == Ends(m, stops)
           M == Met(m, first, stops)
<1>1. DOMAIN m \subseteq Nat /\ first \in DOMAIN m
  BY DEF IsList
<1>2. PICK e \in DOMAIN m \cap E : \A c \in DOMAIN m \cap E : e <= c
  <2>1. DOMAIN m \cap E # {}
    BY DEF IsList, Ends
  <2>2. DOMAIN m \cap E \in SUBSET Nat
    BY <1>1
  <2> HIDE DEF E
  <2> QED BY <2>1, <2>2, LeastNumber
<1>3. \A c \in DOMAIN m : c < e => c \notin E /\ ~m[c].isLast /\ m[c].next \in DOMAIN m
  <2> TAKE c \in DOMAIN m
  <2> HAVE c < e
  <2>1. c \notin E
    BY <1>1, <1>2
  <2>2. ~m[c].isLast
    BY <2>1 DEF Ends
  <2> QED BY <2>1, <2>2 DEF IsList
<1> DEFINE P == {c \in DOMAIN m : c <= e}
<1>4. ASSUME NEW C \in SUBSET DOMAIN m, first \in C,
             \A c \in C \ E : m[c].next \in C
      PROVE  e \in C
  <2> DEFINE T == P \ C
  <2>1. SUFFICES ASSUME e \notin C PROVE FALSE
    OBVIOUS
  <2>2. e \in T /\ T \in SUBSET Nat
    BY <1>1, <1>2, <2>1
  <2>3. PICK t \in T : \A c \in T : t <= c
    BY <2>2, LeastNumber
  <2>4. t \in DOMAIN m /\ t # first /\ t <= e /\ t \notin C
    BY <1>4, <2>3
  <2>5. PICK p \in DOMAIN m : Previous(m, t) = {p} /\ p < t
    BY <2>4, Below
  <2>6. p < e /\ p \in P
    BY <1>1, <1>2, <2>4, <2>5
  <2>7. p \in C
    BY <1>1, <2>3, <2>4, <2>5, <2>6
  <2>8. m[p].next = t
    BY <2>5 DEF Previous
  <2>9. p \notin E
    BY <1>3, <2>6
  <2> QED BY <1>4, <2>4, <2>7, <2>8, <2>9
<1>5. e \in M
  BY <1>2, <1>4 DEF Met
<1>6. \A b \in M : b \in P
  <2>1. first \in P
    <3>1. first <= e
      BY <1>2, BlockFacts
    <3> QED BY <1>1, <3>1
  <2>2. ASSUME NEW c \in P \ E PROVE m[c].next \in P
    <3>1. c < e
      BY <1>1, <1>2, <2>2
    <3>2. m[c].next <= e
      BY <1>2, <3>1 DEF IsList
    <3> QED BY <1>3, <3>1, <3>2
  <2>3. P \in SUBSET DOMAIN m
    OBVIOUS
  <2> HIDE DEF P
  <2> QED BY <2>1, <2>2, <2>3 DEF Met
<1>7. \A b \in M : b \in E => b = e
  BY <1>1, <1>2, <1>6
<1> HIDE DEF E, M, P
<1>8. WalkTo(m, first, stops) = e
  BY <1>2, <1>5, <1>7 DEF WalkTo, M, E
<1> QED BY <1>2, <1>3, <1>8 DEF E

\* The data of two blocks do not share a byte, nor begin at one.
LEMMA Disjoint ==
    ASSUME NEW m, NEW first, IsList(m, first), NEW a, NEW b, a # b,
           NEW p, NEW q, NEW s \in Nat, NEW t \in Nat,
           Serves(m, a, p, s), Serves(m, b, q, t)
    PROVE  ~Clients!Clash(p, s, q, t)
<1>1. a \in DOMAIN m /\ b \in DOMAIN m
  BY DEF Serves
<1>2. /\ p = DataAt(a) /\ s <= m[a].dataSize
      /\ q = DataAt(b) /\ t <= m[b].dataSize
  BY <1>1, BlockFacts DEF Serves
<1>3. /\ a \in Nat /\ DataAt(a) \in Nat /\ m[a].dataSize \in Nat /\ m[a].next \in Nat
      /\ DataAt(a) + m[a].dataSize <= m[a].next /\ a < DataAt(a)
  BY <1>1, BlockFacts
<1>4. /\ b \in Nat /\ DataAt(b) \in Nat /\ m[b].dataSize \in Nat /\ m[b].next \in Nat
      /\ DataAt(b) + m[b].dataSize <= m[b].next /\ b < DataAt(b)
  BY <1>1, BlockFacts
<1>5. /\ a < b => m[a].next <= b
      /\ b < a => m[b].next <= a
  BY <1>1 DEF IsList
<1>6. a < b \/ b < a
  BY <1>3, <1>4
<1>7. (p + s < q \/ q + t < p) /\ p \in Nat /\ q \in Nat
  BY <1>2, <1>3, <1>4, <1>5, <1>6
<1> QED BY <1>7 DEF Clients!Clash

\* findOwnerBlock finds the block that serves a pointer, from the pointer, from
\* the end of its range and from what lies between.
LEMMA OwnerFinds ==
    ASSUME NEW h, IsList(h.mem, h.head), NEW b, NEW p \in Nat, NEW s \in Nat,
           Serves(h.mem, b, p, s), NEW ptr \in Nat, p <= ptr, ptr <= p + s
    PROVE  Owner(h, ptr) = b
<1> DEFINE m == h.mem
           stops == {x \in DOMAIN m : m[x].data + m[x].dataSize >= ptr}
           w == WalkTo(m, h.head, stops)
<1>1. b \in DOMAIN m /\ m[b].data = p /\ m[b].dataSize >= s
  BY DEF Serves
<1>2. /\ b \in Nat /\ p = DataAt(b) /\ p \in Nat /\ b < p
      /\ h.head \in Nat /\ h.head <= b /\ m[b].dataSize \in Nat
  BY <1>1, BlockFacts
<1>3. h.head # NULL
  BY <1>1 DEF IsList
<1>4. Owner(h, ptr) = w
  BY <1>2, <1>3 DEF Owner
<1>5. /\ w \in DOMAIN m /\ w \in Ends(m, stops)
      /\ \A c \in DOMAIN m : c < w => c \notin Ends(m, stops)
  BY <1>1, WalkFinds
<1>6. w \in Nat
  BY <1>5, BlockFacts
<1>7. b \in Ends(m, stops)
  BY <1>1, <1>2 DEF Ends
<1> HIDE DEF w
<1>8. ~ (b < w)
  BY <1>1, <1>5, <1>7
<1>9. ~ (w < b)
  <2>1. SUFFICES ASSUME w < b PROVE FALSE
    OBVIOUS
  <2>2. ~m[w].isLast /\ m[w].next <= b
    BY <1>1, <1>5, <2>1 DEF IsList
  <2>3. /\ m[w].data + m[w].dataSize <= m[w].next /\ m[w].next \in Nat
        /\ m[w].data \in Nat /\ m[w].dataSize \in Nat
    BY <1>5, BlockFacts
  <2>4. w \notin stops
    BY <1>2, <2>2, <2>3
  <2> QED BY <1>5, <2>2, <2>4 DEF Ends
<1> QED BY <1>2, <1>4, <1>6, <1>8, <1>9

-----------------------------------------------------------------------------
(***************************************************************************)
(* What calls do to the list.                                              *)
(***************************************************************************)
\* Everything of f but p has a block beside n, which serves p.
Offers(m, f, n, p, size) ==
    /\ Serves(m, n, p, size)
    /\ \A q \in DOMAIN f : \E a \in DOMAIN m : a # n /\ Serves(m, a, q, f[q])

\* The header that allocateMemoryAt writes.
LastInUse(at, size) ==
    [isFree |-> FALSE, isLast |-> TRUE, dataSize |-> size,
     data |-> DataAt(at), next |-> DataAt(at) + size]

LEMMA LastInUseIsHeader ==
    ASSUME NEW at \in Nat, NEW size \in Nat
    PROVE  LastInUse(at, size) \in Header
<1>1. DataAt(at) \in Nat
  BY DataBehindHeader
<1> QED BY <1>1 DEF Header, LastInUse

LEMMA FirstBlock ==
    ASSUME NEW m, DOMAIN m = {}, NEW at \in Nat \ {0}, NEW size \in Nat
    PROVE  LET k == AllocateMemoryAt(m, at, size) IN
           IsList(k, at) /\ Apart(k) /\ Serves(k, at, DataAt(at), size)
<1> DEFINE k == AllocateMemoryAt(m, at, size)
<1>0. /\ DOMAIN k = DOMAIN m \cup {at}
      /\ k[at] = LastInUse(at, size) /\ k[at] \in Header
  <2>1. at \in Nat
    OBVIOUS
  <2>2. LastInUse(at, size) \in Header
    BY <2>1, LastInUseIsHeader
  <2>3. k[at] = LastInUse(at, size)
    BY <2>1 DEF AllocateMemoryAt, LastInUse
  <2>4. DOMAIN k = DOMAIN m \cup {at}
    BY <2>1 DEF AllocateMemoryAt, LastInUse
  <2> QED BY <2>2, <2>3, <2>4
<1>1. /\ DOMAIN k = {at} /\ k[at] \in Header
      /\ ~k[at].isFree /\ k[at].isLast /\ k[at].dataSize = size
      /\ k[at].data = DataAt(at) /\ k[at].next = DataAt(at) + size
  BY <1>0 DEF LastInUse
<1>2. k \in [DOMAIN k -> Header]
  BY <1>1 DEF AllocateMemoryAt
<1>3. DataAt(at) \in Nat
  BY DataBehindHeader
<1> HIDE DEF k
<1>4. IsList(k, at)
  BY <1>1, <1>2, <1>3 DEF IsList, NULL
<1>5. Apart(k)
  BY <1>1 DEF Apart
<1>6. Serves(k, at, DataAt(at), size)
  BY <1>1 DEF Serves
<1> QED BY <1>4, <1>5, <1>6 DEF k

\* malloc at the end of the list: the last block is one no more.
LEMMA AppendKeeps ==
    ASSUME NEW m, NEW first, IsList(m, first), Apart(m),
           NEW z \in DOMAIN m, m[z].isLast, NEW size \in Nat,
           NEW f, Holds(m, f)
    PROVE  LET at == m[z].next
               k  == AllocateMemoryAt([m EXCEPT ![z].isLast = FALSE], at, size)
           IN /\ IsList(k, first) /\ Apart(k)
              /\ Offers(k, f, at, DataAt(at), size)
<1> DEFINE at == m[z].next
           u  == [m EXCEPT ![z].isLast = FALSE]
           k  == AllocateMemoryAt(u, at, size)
<1>1. /\ z \in Nat /\ at \in Nat /\ z < at /\ DataAt(z) + m[z].dataSize <= at
      /\ m[z] \in Header /\ m[z].data = DataAt(z)
  BY BlockFacts
<1>2. \A a \in DOMAIN m : a <= z /\ (a # z => ~m[a].isLast /\ m[a].next <= z)
  BY LastIsHighest
<1>3. DOMAIN m \subseteq Nat /\ at \notin DOMAIN m
  BY <1>1, <1>2 DEF IsList
<1>4. /\ DOMAIN u = DOMAIN m
      /\ u[z] = [m[z] EXCEPT !.isLast = FALSE]
      /\ \A a \in DOMAIN m : a # z => u[a] = m[a]
  OBVIOUS
<1>5. /\ u[z] \in Header /\ ~u[z].isLast /\ u[z].next = at /\ u[z].data = DataAt(z)
      /\ u[z].dataSize = m[z].dataSize /\ u[z].isFree = m[z].isFree
  BY <1>1, <1>4 DEF Header
<1> HIDE DEF u
<1>6. /\ DOMAIN k = DOMAIN m \cup {at} /\ k[at] \in Header
      /\ ~k[at].isFree /\ k[at].isLast /\ k[at].dataSize = size
      /\ k[at].data = DataAt(at) /\ k[at].next = DataAt(at) + size
      /\ \A a \in DOMAIN m : a # at => k[a] = u[a]
  <2> HIDE DEF at
  <2>1. at \in Nat /\ size \in Nat /\ DOMAIN u = DOMAIN m
    BY <1>1, <1>4
  <2>2. DOMAIN k = DOMAIN u \cup {at}
    BY <2>1 DEF AllocateMemoryAt, LastInUse
  <2>3. \A a \in DOMAIN u : a # at => k[a] = u[a]
    BY <2>1 DEF AllocateMemoryAt, LastInUse
  <2>4. k[at] = LastInUse(at, size)
    BY <2>1 DEF AllocateMemoryAt, LastInUse
  <2>5. k[at] \in Header
    BY <2>1, <2>4, LastInUseIsHeader
  <2> QED BY <2>1, <2>2, <2>3, <2>4, <2>5 DEF LastInUse
<1>7. k[z] = u[z] /\ \A a \in DOMAIN m : a # z => k[a] = m[a]
  BY <1>3, <1>4, <1>6
<1>8. k \in [DOMAIN k -> Header]
  <2>1. k = [a \in DOMAIN k |-> k[a]]
    BY <1>6 DEF AllocateMemoryAt
  <2>2. \A a \in DOMAIN m : k[a] \in Header
    BY <1>5, <1>7, BlockFacts
  <2> HIDE DEF k, at
  <2> QED BY <1>6, <2>1, <2>2
<1>9. DataAt(at) \in Nat
  BY <1>1, DataBehindHeader
<1> HIDE DEF k, at
<1>10. \A a \in DOMAIN k :
        /\ k[a].data = DataAt(a) /\ DataAt(a) + k[a].dataSize <= k[a].next
        /\ ~k[a].isLast => k[a].next \in DOMAIN k
  <2> TAKE a \in DOMAIN k
  <2>1. CASE a = at
    BY <1>6, <1>9, <2>1
  <2>2. CASE a = z
    BY <1>1, <1>5, <1>6, <1>7, <2>2
  <2>3. CASE a \in DOMAIN m /\ a # z
    BY <1>6, <1>7, <2>3 DEF IsList
  <2> QED BY <1>6, <2>1, <2>2, <2>3
<1>11. \A a, c \in DOMAIN k : a < c => ~k[a].isLast /\ k[a].next <= c
  <2> TAKE a, c \in DOMAIN k
  <2> HAVE a < c
  <2>1. a # at
    BY <1>1, <1>2, <1>3, <1>6
  <2>2. CASE a = z
    BY <1>1, <1>2, <1>3, <1>5, <1>6, <1>7, <2>2
  <2>3. CASE a # z /\ c = at
    <3>1. a \in DOMAIN m /\ k[a] = m[a] /\ m[a].next \in Nat
      BY <1>6, <1>7, <2>1, <2>3, BlockFacts
    <3> QED BY <1>1, <1>2, <2>3, <3>1
  <2>4. CASE a # z /\ c # at
    BY <1>6, <1>7, <2>1, <2>4 DEF IsList
  <2> QED BY <2>2, <2>3, <2>4
<1>12. IsList(k, first)
  <2>1. first \in DOMAIN m /\ first # NULL /\ \A a \in DOMAIN m : first <= a
    BY DEF IsList
  <2>2. first <= at
    BY <1>1, <1>2, <1>3, <2>1
  <2> QED BY <1>1, <1>3, <1>6, <1>8, <1>10, <1>11, <2>1, <2>2 DEF IsList
<1>13. Apart(k)
  <2> SUFFICES ASSUME NEW a \in DOMAIN k, k[a].isFree, ~k[a].isLast
               PROVE  ~k[k[a].next].isFree
    BY DEF Apart
  <2>1. a \in DOMAIN m
    BY <1>6
  <2>2. CASE a = z
    BY <1>5, <1>6, <1>7, <2>2
  <2>3. CASE a # z
    <3>1. k[a] = m[a] /\ m[a].next \in DOMAIN m /\ ~m[m[a].next].isFree
      BY <1>7, <2>1, <2>3 DEF Apart, IsList
    <3> QED BY <1>5, <1>7, <3>1
  <2> QED BY <2>2, <2>3
<1>14. Offers(k, f, at, DataAt(at), size)
  <2>1. Serves(k, at, DataAt(at), size)
    BY <1>6 DEF Serves
  <2>2. ASSUME NEW q \in DOMAIN f
        PROVE  \E a \in DOMAIN k : a # at /\ Serves(k, a, q, f[q])
    <3>1. PICK a \in DOMAIN m : Serves(m, a, q, f[q])
      BY <2>2 DEF Holds
    <3>2. Serves(k, a, q, f[q])
      BY <1>1, <1>5, <1>6, <1>7, <3>1 DEF Serves
    <3> QED BY <1>3, <1>6, <3>1, <3>2
  <2> QED BY <2>1, <2>2 DEF Offers
<1> QED BY <1>12, <1>13, <1>14 DEF k, u, at

\* expandLastBlock: the last block, larger.
LEMMA ExpandKeeps ==
    ASSUME NEW m, NEW first, IsList(m, first), Apart(m),
           NEW z \in DOMAIN m, m[z].isLast, NEW size \in Nat
    PROVE  LET k == AllocateMemoryAt(m, z, size) IN
           /\ IsList(k, first) /\ Apart(k)
           /\ Serves(k, z, m[z].data, size)
           /\ \A a, q : \A s \in Nat :
                a # z /\ Serves(m, a, q, s) => Serves(k, a, q, s)
<1> DEFINE k == AllocateMemoryAt(m, z, size)
<1>1. z \in Nat /\ m[z].data = DataAt(z) /\ DataAt(z) \in Nat
  BY BlockFacts
<1>2. \A a \in DOMAIN m : a <= z /\ (a # z => ~m[a].isLast /\ m[a].next <= z)
  BY LastIsHighest
<1>0. /\ DOMAIN k = DOMAIN m \cup {z}
      /\ k[z] = LastInUse(z, size) /\ k[z] \in Header
      /\ \A a \in DOMAIN m : a # z => k[a] = m[a]
  <2>1. LastInUse(z, size) \in Header
    BY <1>1, LastInUseIsHeader
  <2>2. k[z] = LastInUse(z, size)
    BY <1>1 DEF AllocateMemoryAt, LastInUse
  <2>3. DOMAIN k = DOMAIN m \cup {z}
    BY <1>1 DEF AllocateMemoryAt, LastInUse
  <2>4. \A a \in DOMAIN m : a # z => k[a] = m[a]
    BY <1>1 DEF AllocateMemoryAt, LastInUse
  <2> QED BY <2>1, <2>2, <2>3, <2>4
<1>3. /\ DOMAIN k = DOMAIN m /\ k[z] \in Header
      /\ ~k[z].isFree /\ k[z].isLast /\ k[z].dataSize = size
      /\ k[z].data = DataAt(z) /\ k[z].next = DataAt(z) + size
      /\ \A a \in DOMAIN m : a # z => k[a] = m[a]
  BY <1>0 DEF LastInUse
<1>4. k \in [DOMAIN k -> Header]
  <2>1. k = [a \in DOMAIN k |-> k[a]]
    BY <1>3 DEF AllocateMemoryAt
  <2>2. \A a \in DOMAIN m : k[a] \in Header
    BY <1>3, BlockFacts
  <2> HIDE DEF k
  <2> QED BY <1>3, <2>1, <2>2
<1> HIDE DEF k
<1>5. DOMAIN m \subseteq Nat
  BY DEF IsList
<1>6. \A a \in DOMAIN k :
        /\ k[a].data = DataAt(a) /\ DataAt(a) + k[a].dataSize <= k[a].next
        /\ ~k[a].isLast => k[a].next \in DOMAIN k
  <2> TAKE a \in DOMAIN k
  <2>1. CASE a = z
    BY <1>1, <1>3, <2>1
  <2>2. CASE a # z
    BY <1>3, <2>2 DEF IsList
  <2> QED BY <2>1, <2>2
<1>7. \A a, c \in DOMAIN k : a < c => ~k[a].isLast /\ k[a].next <= c
  <2> TAKE a, c \in DOMAIN k
  <2> HAVE a < c
  <2>1. a # z
    BY <1>2, <1>3, <1>5
  <2> QED BY <1>3, <2>1 DEF IsList
<1>8. IsList(k, first)
  <2>1. first \in DOMAIN m /\ first # NULL /\ \A a \in DOMAIN m : first <= a
    BY DEF IsList
  <2> QED BY <1>3, <1>4, <1>5, <1>6, <1>7, <2>1 DEF IsList
<1>9. Apart(k)
  <2> SUFFICES ASSUME NEW a \in DOMAIN k, k[a].isFree, ~k[a].isLast
               PROVE  ~k[k[a].next].isFree
    BY DEF Apart
  <2>1. a # z /\ a \in DOMAIN m /\ k[a] = m[a]
    BY <1>3
  <2>2. m[a].next \in DOMAIN m /\ ~m[m[a].next].isFree
    BY <2>1 DEF Apart, IsList
  <2> QED BY <1>3, <2>1, <2>2
<1>10. \A a, q : \A s \in Nat :
                a # z /\ Serves(m, a, q, s) => Serves(k, a, q, s)
  BY <1>3 DEF Serves
<1>11. Serves(k, z, m[z].data, size)
  BY <1>1, <1>3 DEF Serves
<1> QED BY <1>8, <1>9, <1>10, <1>11 DEF k

\* reuseFreedMemory without a rest.
LEMMA FitKeeps ==
    ASSUME NEW m, NEW first, IsList(m, first), Apart(m),
           NEW b \in DOMAIN m, NEW size \in Nat, size <= m[b].dataSize,
           ~ (m[b].dataSize - size > FreeMargin)
    PROVE  LET k == Reuse(m, b, size) IN
           /\ IsList(k, first) /\ Apart(k)
           /\ Serves(k, b, m[b].data, size)
           /\ \A a, q : \A s \in Nat : a # b /\ Serves(m, a, q, s) => Serves(k, a, q, s)
<1> DEFINE k == Reuse(m, b, size)
           p == AllocateMemoryAt(m, b, size)
<1>1. /\ b \in Nat /\ m[b] \in Header /\ m[b].next \in Nat /\ m[b].dataSize \in Nat
      /\ m[b].data = DataAt(b) /\ DataAt(b) \in Nat
      /\ DataAt(b) + m[b].dataSize <= m[b].next
  BY BlockFacts
<1>2. k = [p EXCEPT ![b].next = m[b].next, ![b].isLast = m[b].isLast]
  BY DEF Reuse
<1>3. /\ DOMAIN p = DOMAIN m /\ p[b] = LastInUse(b, size)
      /\ \A a \in DOMAIN m : a # b => p[a] = m[a]
      /\ p = [a \in DOMAIN p |-> p[a]]
  BY DEF AllocateMemoryAt, LastInUse
<1>4. p[b] \in Header
  BY <1>1, <1>3, LastInUseIsHeader
<1> HIDE DEF p
<1>5. /\ DOMAIN k = DOMAIN m
      /\ k[b] = [p[b] EXCEPT !.next = m[b].next, !.isLast = m[b].isLast]
      /\ \A a \in DOMAIN m : a # b => k[a] = m[a]
      /\ k = [a \in DOMAIN k |-> k[a]]
  BY <1>2, <1>3
<1> HIDE DEF k
<1>6. /\ k[b] \in Header /\ ~k[b].isFree /\ k[b].isLast = m[b].isLast
      /\ k[b].dataSize = size /\ k[b].data = DataAt(b) /\ k[b].next = m[b].next
  <2>1. p[b].dataSize = size /\ p[b].data = DataAt(b) /\ ~p[b].isFree
    BY <1>3 DEF LastInUse
  <2>2. m[b].isLast \in BOOLEAN
    BY <1>1 DEF Header
  <2> QED BY <1>1, <1>4, <1>5, <2>1, <2>2 DEF Header
<1>7. k \in [DOMAIN k -> Header]
  <2>1. \A a \in DOMAIN m : k[a] \in Header
    BY <1>5, <1>6, BlockFacts
  <2> QED BY <1>5, <2>1
<1>8. \A a \in DOMAIN k :
        /\ k[a].data = DataAt(a) /\ DataAt(a) + k[a].dataSize <= k[a].next
        /\ ~k[a].isLast => k[a].next \in DOMAIN k
  <2> TAKE a \in DOMAIN k
  <2>1. CASE a = b
    <3>1. ~m[b].isLast => m[b].next \in DOMAIN m
      BY DEF IsList
    <3>2. DataAt(b) + size <= m[b].next
      BY <1>1
    <3> QED BY <1>5, <1>6, <2>1, <3>1, <3>2
  <2>2. CASE a # b
    BY <1>5, <2>2 DEF IsList
  <2> QED BY <2>1, <2>2
<1>9. \A a, c \in DOMAIN k : a < c => ~k[a].isLast /\ k[a].next <= c
  <2>1. \A a, c \in DOMAIN m : a < c => ~m[a].isLast /\ m[a].next <= c
    BY DEF IsList
  <2>2. \A a \in DOMAIN m : k[a].isLast = m[a].isLast /\ k[a].next = m[a].next
    BY <1>5, <1>6
  <2> QED BY <1>5, <2>1, <2>2
<1>10. IsList(k, first)
  <2>1. DOMAIN m \subseteq Nat /\ first \in DOMAIN m /\ first # NULL
        /\ \A a \in DOMAIN m : first <= a
    BY DEF IsList
  <2>2. PICK z \in DOMAIN m : m[z].isLast
    BY <2>1 DEF IsList
  <2>3. k[z].isLast
    BY <1>5, <1>6, <2>2
  <2> QED BY <1>5, <1>7, <1>8, <1>9, <2>1, <2>2, <2>3 DEF IsList
<1>11. Apart(k)
  <2> SUFFICES ASSUME NEW a \in DOMAIN k, k[a].isFree, ~k[a].isLast
               PROVE  ~k[k[a].next].isFree
    BY DEF Apart
  <2>1. a # b /\ a \in DOMAIN m /\ k[a] = m[a]
    BY <1>5, <1>6
  <2>2. m[a].next \in DOMAIN m /\ ~m[m[a].next].isFree
    BY <2>1 DEF Apart, IsList
  <2> QED BY <1>5, <1>6, <2>1, <2>2
<1>12. \A a, q : \A s \in Nat : a # b /\ Serves(m, a, q, s) => Serves(k, a, q, s)
  BY <1>5 DEF Serves
<1>13. Serves(k, b, m[b].data, size)
  BY <1>1, <1>5, <1>6 DEF Serves
<1> QED BY <1>10, <1>11, <1>12, <1>13 DEF k

\* reuseFreedMemory with a rest, which becomes a free block.  It must not come
\* to lie in front of another.
LEMMA CutKeeps ==
    ASSUME NEW m, NEW first, IsList(m, first), Apart(m),
           NEW b \in DOMAIN m, NEW size \in Nat, size <= m[b].dataSize,
           m[b].dataSize - size > FreeMargin,
           ~m[b].isLast => ~m[m[b].next].isFree
    PROVE  LET k == Reuse(m, b, size) IN
           /\ IsList(k, first) /\ Apart(k)
           /\ Serves(k, b, m[b].data, size)
           /\ \A a, q : \A s \in Nat : a # b /\ Serves(m, a, q, s) => Serves(k, a, q, s)
<1> DEFINE k == Reuse(m, b, size)
           p == AllocateMemoryAt(m, b, size)
           rest == DataAt(b) + size
           left == m[b].dataSize - size - FreeMargin
           r == AllocateMemoryAt(p, rest, left)
<1>1. /\ b \in Nat /\ m[b] \in Header /\ m[b].next \in Nat /\ m[b].dataSize \in Nat
      /\ m[b].data = DataAt(b) /\ DataAt(b) \in Nat /\ b < DataAt(b)
      /\ DataAt(b) + m[b].dataSize <= m[b].next
  BY BlockFacts
<1>2. FreeMargin \in Nat /\ FreeMargin = HeaderSize * 2 /\ HeaderSize \in Nat \ {0}
  BY LayoutAssumption DEF FreeMargin
<1>3. /\ left \in Nat /\ rest \in Nat /\ b < rest
      /\ rest + HeaderSize * 2 + left <= m[b].next
  BY <1>1, <1>2
<1>4. /\ DataAt(rest) \in Nat /\ DataAt(rest) + left <= m[b].next
      /\ rest < m[b].next
  <2> HIDE DEF rest, left
  <2>1. DataAt(rest) \in Nat /\ DataAt(rest) <= rest + HeaderSize * 2
    BY <1>3, DataBehindHeader
  <2> QED BY <1>1, <1>2, <1>3, <2>1
<1>5. \A a, c \in DOMAIN m : a < c => ~m[a].isLast /\ m[a].next <= c
  BY DEF IsList
<1>6. DOMAIN m \subseteq Nat /\ rest \notin DOMAIN m
  <2>1. DOMAIN m \subseteq Nat
    BY DEF IsList
  <2> HIDE DEF rest, left
  <2> QED BY <1>1, <1>3, <1>4, <1>5, <2>1
<1>7. /\ DOMAIN p = DOMAIN m /\ p[b] = LastInUse(b, size)
      /\ \A a \in DOMAIN m : a # b => p[a] = m[a]
  BY DEF AllocateMemoryAt, LastInUse
<1>8. p[b] \in Header /\ p[b].next = rest
  BY <1>1, <1>7, LastInUseIsHeader DEF LastInUse
<1>9. k = [r EXCEPT ![rest].isFree = TRUE, ![rest].next = m[b].next,
                    ![rest].isLast = m[b].isLast, ![b].isLast = FALSE]
  BY <1>8 DEF Reuse
<1> HIDE DEF p, rest, left
<1>10. /\ DOMAIN r = DOMAIN m \cup {rest} /\ r[rest] = LastInUse(rest, left)
       /\ \A a \in DOMAIN m : r[a] = p[a]
       /\ r = [a \in DOMAIN r |-> r[a]]
  BY <1>6, <1>7 DEF AllocateMemoryAt, LastInUse
<1>11. r[rest] \in Header
  BY <1>3, <1>10, LastInUseIsHeader
<1> HIDE DEF r
<1>12. /\ DOMAIN k = DOMAIN m \cup {rest}
       /\ k[rest] = [r[rest] EXCEPT !.isFree = TRUE, !.next = m[b].next,
                                    !.isLast = m[b].isLast]
       /\ k[b] = [p[b] EXCEPT !.isLast = FALSE]
       /\ \A a \in DOMAIN m : a # b => k[a] = m[a]
       /\ k = [a \in DOMAIN k |-> k[a]]
  BY <1>6, <1>7, <1>9, <1>10
<1> HIDE DEF k
<1>13. /\ k[b] \in Header /\ ~k[b].isFree /\ ~k[b].isLast
       /\ k[b].dataSize = size /\ k[b].data = DataAt(b) /\ k[b].next = rest
  <2>1. p[b].dataSize = size /\ p[b].data = DataAt(b) /\ ~p[b].isFree
    BY <1>7 DEF LastInUse
  <2> QED BY <1>8, <1>12, <2>1 DEF Header
<1>14. /\ k[rest] \in Header /\ k[rest].isFree /\ k[rest].isLast = m[b].isLast
       /\ k[rest].dataSize = left /\ k[rest].data = DataAt(rest)
       /\ k[rest].next = m[b].next
  <2>1. r[rest].dataSize = left /\ r[rest].data = DataAt(rest)
    BY <1>10 DEF LastInUse
  <2> QED BY <1>1, <1>11, <1>12, <2>1 DEF Header
<1>15. k \in [DOMAIN k -> Header]
  <2>1. \A a \in DOMAIN m : k[a] \in Header
    BY <1>12, <1>13, BlockFacts
  <2> QED BY <1>12, <1>14, <2>1
<1>16. rest = DataAt(b) + size
  BY DEF rest
<1>17. \A a \in DOMAIN k :
        /\ k[a].data = DataAt(a) /\ DataAt(a) + k[a].dataSize <= k[a].next
        /\ ~k[a].isLast => k[a].next \in DOMAIN k
  <2> TAKE a \in DOMAIN k
  <2>1. CASE a = rest
    <3>1. ~m[b].isLast => m[b].next \in DOMAIN m
      BY DEF IsList
    <3> QED BY <1>4, <1>12, <1>14, <2>1, <3>1
  <2>2. CASE a = b
    <3>1. k[a].data = DataAt(a) /\ k[a].dataSize = size /\ k[a].next = rest
      BY <1>13, <2>2
    <3>2. DataAt(a) + size <= rest
      BY <1>3, <1>16, <2>2
    <3> QED BY <1>12, <3>1, <3>2
  <2>3. CASE a \in DOMAIN m /\ a # b
    BY <1>12, <2>3 DEF IsList
  <2> QED BY <1>12, <2>1, <2>2, <2>3
<1>18. \A a, c \in DOMAIN k : a < c => ~k[a].isLast /\ k[a].next <= c
  <2> TAKE a, c \in DOMAIN k
  <2> HAVE a < c
  <2>1. CASE a = b
    <3>1. c = rest \/ (c \in DOMAIN m /\ m[b].next <= c)
      BY <1>5, <1>12, <2>1
    <3>2. rest <= c
      BY <1>1, <1>3, <1>4, <1>6, <3>1
    <3> QED BY <1>13, <2>1, <3>2
  <2>2. CASE a = rest
    <3>1. c \in DOMAIN m /\ b < c
      BY <1>1, <1>3, <1>6, <1>12, <2>2
    <3> QED BY <1>5, <1>14, <2>2, <3>1
  <2>3. CASE a \in DOMAIN m /\ a # b /\ c = rest
    <3>1. a < b
      BY <1>1, <1>3, <1>4, <1>5, <1>6, <2>3
    <3>2. ~m[a].isLast /\ m[a].next <= b /\ m[a].next \in Nat
      BY <1>5, <2>3, <3>1, BlockFacts
    <3> QED BY <1>1, <1>3, <1>12, <2>3, <3>2
  <2>4. CASE a \in DOMAIN m /\ a # b /\ c \in DOMAIN m
    BY <1>5, <1>12, <2>4
  <2> QED BY <1>12, <2>1, <2>2, <2>3, <2>4
<1>19. IsList(k, first)
  <2>1. first \in DOMAIN m /\ first # NULL /\ \A a \in DOMAIN m : first <= a
    BY DEF IsList
  <2>2. first <= rest
    BY <1>1, <1>3, <1>6, <2>1
  <2>3. PICK z \in DOMAIN m : m[z].isLast
    BY <2>1 DEF IsList
  <2>4. \E y \in DOMAIN k : k[y].isLast
    BY <1>12, <1>14, <2>3
  <2> QED BY <1>3, <1>6, <1>12, <1>15, <1>17, <1>18, <2>1, <2>2, <2>4 DEF IsList
<1>20. Apart(k)
  <2> SUFFICES ASSUME NEW a \in DOMAIN k, k[a].isFree, ~k[a].isLast
               PROVE  ~k[k[a].next].isFree
    BY DEF Apart
  <2>1. CASE a = rest
    <3>1. ~m[b].isLast /\ m[b].next \in DOMAIN m /\ ~m[m[b].next].isFree
      BY <1>14, <2>1 DEF IsList
    <3>2. m[b].next # b
      BY <1>1
    <3> QED BY <1>12, <1>14, <2>1, <3>1, <3>2
  <2>2. CASE a # rest
    <3>1. a # b /\ a \in DOMAIN m /\ k[a] = m[a]
      BY <1>12, <1>13, <2>2
    <3>2. m[a].next \in DOMAIN m /\ ~m[m[a].next].isFree
      BY <3>1 DEF Apart, IsList
    <3> QED BY <1>12, <1>13, <3>1, <3>2
  <2> QED BY <2>1, <2>2
<1>21. \A a, q : \A s \in Nat : a # b /\ Serves(m, a, q, s) => Serves(k, a, q, s)
  BY <1>12 DEF Serves
<1>22. Serves(k, b, m[b].data, size)
  BY <1>1, <1>12, <1>13 DEF Serves
<1> QED BY <1>19, <1>20, <1>21, <1>22 DEF k

\* Both together: what malloc and realloc rely on.
LEMMA ReuseKeeps ==
    ASSUME NEW m, NEW first, IsList(m, first), Apart(m),
           NEW b \in DOMAIN m, NEW size \in Nat, size <= m[b].dataSize,
           ~m[b].isLast /\ m[m[b].next].isFree => m[b].dataSize = size
    PROVE  LET k == Reuse(m, b, size) IN
           /\ IsList(k, first) /\ Apart(k)
           /\ Serves(k, b, m[b].data, size)
           /\ \A a, q : \A s \in Nat : a # b /\ Serves(m, a, q, s) => Serves(k, a, q, s)
<1>1. CASE ~ (m[b].dataSize - size > FreeMargin)
  BY <1>1, FitKeeps
<1>2. CASE m[b].dataSize - size > FreeMargin
  <2>1. FreeMargin \in Nat
    BY LayoutAssumption DEF FreeMargin
  <2>2. m[b].dataSize # size
    BY <1>2, <2>1
  <2>3. ~m[b].isLast => ~m[m[b].next].isFree
    BY <2>2
  <2> QED BY <1>2, <2>3, CutKeeps
<1> QED BY <1>1, <1>2

\* No free block but x is in front of a free one.
ApartBut(m, x) ==
    \A a \in DOMAIN m \ {x} : m[a].isFree /\ ~m[a].isLast => ~m[m[a].next].isFree

\* k is m in which b took in the block behind it.
Merged(k, m, b) ==
    /\ DOMAIN k = DOMAIN m \ {m[b].next}
    /\ k[b] = [m[b] EXCEPT !.dataSize = m[b].dataSize + m[m[b].next].dataSize,
                           !.isLast = m[m[b].next].isLast,
                           !.next = m[m[b].next].next]
    /\ \A a \in DOMAIN k : a # b => k[a] = m[a]
    /\ k = [a \in DOMAIN k |-> k[a]]

LEMMA AbsorbMerges ==
    ASSUME NEW m, NEW first, IsList(m, first), NEW b \in DOMAIN m
    PROVE  Merged(Absorb(m, b), m, b)
<1>1. b # m[b].next
  BY BlockFacts
<1> QED BY <1>1 DEF Merged, Absorb

LEMMA AbsorbKeeps ==
    ASSUME NEW m, NEW first, IsList(m, first), NEW b \in DOMAIN m, ~m[b].isLast,
           NEW k, Merged(k, m, b)
    PROVE  /\ IsList(k, first) /\ b \in DOMAIN k
           /\ \A a, q : \A s \in Nat : a # m[b].next /\ Serves(m, a, q, s) => Serves(k, a, q, s)
<1> DEFINE c == m[b].next
<1>1. /\ b \in Nat /\ m[b] \in Header /\ c \in Nat /\ m[b].dataSize \in Nat
      /\ m[b].data = DataAt(b) /\ DataAt(b) \in Nat /\ b < c
      /\ DataAt(b) + m[b].dataSize <= c
  BY BlockFacts
<1>2. c \in DOMAIN m
  BY DEF IsList
<1> HIDE DEF c
<1>3. /\ m[c] \in Header /\ m[c].next \in Nat /\ m[c].dataSize \in Nat
      /\ DataAt(c) \in Nat /\ c < DataAt(c) /\ c < m[c].next
      /\ DataAt(c) + m[c].dataSize <= m[c].next
  BY <1>2, BlockFacts
<1>4. /\ DOMAIN k = DOMAIN m \ {c}
      /\ k[b] = [m[b] EXCEPT !.dataSize = m[b].dataSize + m[c].dataSize,
                             !.isLast = m[c].isLast, !.next = m[c].next]
      /\ \A a \in DOMAIN k : a # b => k[a] = m[a]
      /\ k = [a \in DOMAIN k |-> k[a]]
  BY DEF Merged, c
<1>5. /\ k[b] \in Header /\ k[b].isFree = m[b].isFree /\ k[b].data = m[b].data
      /\ k[b].isLast = m[c].isLast /\ k[b].next = m[c].next
      /\ k[b].dataSize = m[b].dataSize + m[c].dataSize
  <2>1. m[c].isLast \in BOOLEAN
    BY <1>3 DEF Header
  <2>2. m[b].dataSize + m[c].dataSize \in Nat
    BY <1>1, <1>3
  <2> QED BY <1>1, <1>3, <1>4, <2>1, <2>2 DEF Header
<1>6. b \in DOMAIN k
  BY <1>1, <1>4
<1>7. k \in [DOMAIN k -> Header]
  <2>1. \A a \in DOMAIN k : k[a] \in Header
    BY <1>4, <1>5, BlockFacts
  <2> QED BY <1>4, <2>1
<1>8. \A a, d \in DOMAIN m : a < d => ~m[a].isLast /\ m[a].next <= d
  BY DEF IsList
<1>9. \A a \in DOMAIN m : a # b /\ ~m[a].isLast => m[a].next # c
  <2> SUFFICES ASSUME NEW a \in DOMAIN m, a # b, m[a].next = c PROVE FALSE
    OBVIOUS
  <2>1. a \in Nat /\ a < c
    BY BlockFacts
  <2>2. CASE a < b
    BY <1>1, <1>8, <2>2
  <2>3. CASE b < a
    BY <1>1, <1>8, <2>1, <2>3 DEF c
  <2>4. a \in Nat /\ b \in Nat
    BY <1>1, <2>1
  <2>5. \A x, y \in Nat : x = y \/ x < y \/ y < x
    OBVIOUS
  <2> QED BY <2>2, <2>3, <2>4, <2>5
<1>10. \A a \in DOMAIN k :
        /\ k[a].data = DataAt(a) /\ DataAt(a) + k[a].dataSize <= k[a].next
        /\ ~k[a].isLast => k[a].next \in DOMAIN k
  <2> TAKE a \in DOMAIN k
  <2>1. CASE a = b
    <3>1. DataAt(b) + (m[b].dataSize + m[c].dataSize) <= m[c].next
      BY <1>1, <1>3
    <3>2. ~m[c].isLast => m[c].next \in DOMAIN m \ {c}
      BY <1>2, <1>3 DEF IsList
    <3> QED BY <1>1, <1>4, <1>5, <2>1, <3>1, <3>2
  <2>2. CASE a # b
    <3>1. a \in DOMAIN m /\ k[a] = m[a]
      BY <1>4, <2>2
    <3>2. /\ m[a].data = DataAt(a) /\ DataAt(a) + m[a].dataSize <= m[a].next
          /\ ~m[a].isLast => m[a].next \in DOMAIN m
      BY <3>1 DEF IsList
    <3> QED BY <1>4, <1>9, <2>2, <3>1, <3>2
  <2> QED BY <2>1, <2>2
<1>11. \A a, d \in DOMAIN k : a < d => ~k[a].isLast /\ k[a].next <= d
  <2> TAKE a, d \in DOMAIN k
  <2> HAVE a < d
  <2>1. d \in DOMAIN m /\ d # c /\ d \in Nat
    BY <1>4, BlockFacts
  <2>2. CASE a = b
    <3>1. c <= d
      BY <1>8, <2>1, <2>2 DEF c
    <3>2. c < d
      BY <1>1, <2>1, <3>1
    <3> QED BY <1>2, <1>5, <1>8, <2>1, <2>2, <3>2
  <2>3. CASE a # b
    BY <1>4, <1>8, <2>1, <2>3
  <2> QED BY <2>2, <2>3
<1>12. IsList(k, first)
  <2>1. DOMAIN m \subseteq Nat /\ first \in DOMAIN m /\ first # NULL
        /\ \A a \in DOMAIN m : first <= a
    BY DEF IsList
  <2>2. first # c
    BY <1>1, <2>1
  <2>3. PICK z \in DOMAIN m : m[z].isLast
    BY <2>1 DEF IsList
  <2>4. \E y \in DOMAIN k : k[y].isLast
    <3>1. CASE z = c
      BY <1>5, <1>6, <2>3, <3>1
    <3>2. CASE z # c
      BY <1>4, <2>3, <3>2
    <3> QED BY <3>1, <3>2
  <2> QED BY <1>4, <1>7, <1>10, <1>11, <2>1, <2>2, <2>4 DEF IsList
<1>13. ASSUME NEW a, NEW q, NEW s \in Nat, a # c, Serves(m, a, q, s) PROVE Serves(k, a, q, s)
  <2>1. a \in DOMAIN k
    BY <1>4, <1>13 DEF Serves
  <2>2. CASE a = b
    <3>1. m[b].data = q /\ ~m[b].isFree /\ m[b].dataSize >= s
      BY <1>13, <2>2 DEF Serves
    <3>2. k[b].dataSize >= s
      BY <1>1, <1>3, <1>5, <3>1
    <3> QED BY <1>5, <2>1, <2>2, <3>1, <3>2 DEF Serves
  <2>3. CASE a # b
    BY <1>4, <1>13, <2>1, <2>3 DEF Serves
  <2> QED BY <2>2, <2>3
<1> QED BY <1>6, <1>12, <1>13 DEF c

\* A block that takes in a free one behind it.
LEMMA AbsorbApart ==
    ASSUME NEW m, NEW first, IsList(m, first), NEW b \in DOMAIN m, ~m[b].isLast,
           m[m[b].next].isFree, ApartBut(m, b),
           NEW k, Merged(k, m, b)
    PROVE  Apart(k)
<1> DEFINE c == m[b].next
<1>1. c \in DOMAIN m /\ b \in Nat /\ b < c /\ m[b] \in Header /\ m[c] \in Header
  <2>1. c \in DOMAIN m
    BY DEF IsList
  <2> QED BY <2>1, BlockFacts
<1>2. /\ DOMAIN k = DOMAIN m \ {c}
      /\ k[b] = [m[b] EXCEPT !.dataSize = m[b].dataSize + m[c].dataSize,
                             !.isLast = m[c].isLast, !.next = m[c].next]
      /\ \A a \in DOMAIN k : a # b => k[a] = m[a]
  BY DEF Merged
<1>3. c \in Nat /\ c < m[c].next /\ m[c].next \in Nat
  BY <1>1, BlockFacts
<1> HIDE DEF c
<1>4. k[b].isFree = m[b].isFree /\ k[b].isLast = m[c].isLast /\ k[b].next = m[c].next
  BY <1>1, <1>2 DEF Header
<1>5. m[c].isFree /\ (~m[c].isLast => ~m[m[c].next].isFree)
  BY <1>1 DEF ApartBut, c
<1>6. IsList(k, first)
  BY AbsorbKeeps
<1> SUFFICES ASSUME NEW a \in DOMAIN k, k[a].isFree, ~k[a].isLast
             PROVE  ~k[k[a].next].isFree
  BY DEF Apart
<1>7. k[a].next \in DOMAIN k
  BY <1>6 DEF IsList
<1>8. CASE a = b
  <2>1. m[c].next # b /\ ~m[m[c].next].isFree
    BY <1>1, <1>3, <1>4, <1>5, <1>8
  <2> QED BY <1>2, <1>4, <1>7, <1>8, <2>1
<1>9. CASE a # b
  <2>1. a \in DOMAIN m /\ k[a] = m[a]
    BY <1>2, <1>9
  <2>2. ~m[m[a].next].isFree
    BY <1>9, <2>1 DEF ApartBut
  <2> QED BY <1>2, <1>4, <1>7, <2>1, <2>2
<1> QED BY <1>8, <1>9

\* Whether a block is free does not matter to the order.
LEMMA MarkKeeps ==
    ASSUME NEW m, NEW first, IsList(m, first), NEW b \in DOMAIN m,
           NEW k, k = [m EXCEPT ![b].isFree = TRUE]
    PROVE  IsList(k, first)
<1>1. /\ DOMAIN k = DOMAIN m /\ k[b] = [m[b] EXCEPT !.isFree = TRUE]
      /\ \A a \in DOMAIN m : a # b => k[a] = m[a]
      /\ k = [a \in DOMAIN k |-> k[a]]
  OBVIOUS
<1>2. \A a \in DOMAIN m : m[a] \in Header
  BY BlockFacts
<1>3. \A a \in DOMAIN m :
        /\ k[a] \in Header /\ k[a].isLast = m[a].isLast /\ k[a].data = m[a].data
        /\ k[a].dataSize = m[a].dataSize /\ k[a].next = m[a].next
  BY <1>1, <1>2 DEF Header
<1>4. k \in [DOMAIN k -> Header]
  BY <1>1, <1>3
<1>5. \A a \in DOMAIN k :
        /\ k[a].data = DataAt(a) /\ DataAt(a) + k[a].dataSize <= k[a].next
        /\ ~k[a].isLast => k[a].next \in DOMAIN k
  BY <1>1, <1>3 DEF IsList
<1>6. \A a, c \in DOMAIN k : a < c => ~k[a].isLast /\ k[a].next <= c
  BY <1>1, <1>3 DEF IsList
<1>7. /\ DOMAIN m \subseteq Nat /\ first \in DOMAIN m /\ first # NULL
      /\ \A a \in DOMAIN m : first <= a
      /\ \E z \in DOMAIN m : m[z].isLast
  BY DEF IsList
<1>8. \E z \in DOMAIN k : k[z].isLast
  BY <1>1, <1>3, <1>7
<1> QED BY <1>1, <1>4, <1>5, <1>6, <1>7, <1>8 DEF IsList

\* free up to the first merge.
LEMMA MarkFreeKeeps ==
    ASSUME NEW m, NEW first, IsList(m, first), Apart(m),
           NEW b \in DOMAIN m, ~m[b].isFree
    PROVE  LET f == MarkFree(m, b) IN
           /\ IsList(f.mem, first) /\ f.at \in DOMAIN f.mem
           /\ ApartBut(f.mem, f.at)
           /\ \A a, q : \A s \in Nat : a # b /\ Serves(m, a, q, s) => Serves(f.mem, a, q, s)
<1> DEFINE k == [m EXCEPT ![b].isFree = TRUE]
           before == {a \in Previous(m, b) : m[a].isFree}
           f == MarkFree(m, b)
<1>1. IsList(k, first)
  BY MarkKeeps
<1>2. /\ DOMAIN k = DOMAIN m /\ k[b] = [m[b] EXCEPT !.isFree = TRUE]
      /\ \A a \in DOMAIN m : a # b => k[a] = m[a]
  OBVIOUS
<1>3. m[b] \in Header
  BY BlockFacts
<1>4. k[b].isLast = m[b].isLast /\ k[b].next = m[b].next
  BY <1>2, <1>3 DEF Header
<1>5. \A a, q : \A s \in Nat : a # b /\ Serves(m, a, q, s) => Serves(k, a, q, s)
  <2> HIDE DEF k
  <2> QED BY <1>2 DEF Serves
<1>6. CASE before = {}
  <2>1. f.mem = k /\ f.at = b
    BY <1>6 DEF MarkFree
  <2> HIDE DEF k
  <2>2. ASSUME NEW a \in DOMAIN k \ {b}, k[a].isFree, ~k[a].isLast
        PROVE  ~k[k[a].next].isFree
    <3>1. a \in DOMAIN m /\ a # b /\ k[a] = m[a]
      BY <1>2, <2>2
    <3>2. m[a].next # b
      BY <1>6, <2>2, <3>1 DEF Previous
    <3>3. m[a].next \in DOMAIN m /\ ~m[m[a].next].isFree
      BY <2>2, <3>1 DEF Apart, IsList
    <3> QED BY <1>2, <3>1, <3>2, <3>3
  <2>3. ApartBut(k, b)
    BY <2>2 DEF ApartBut
  <2> HIDE DEF f
  <2> QED BY <1>1, <1>2, <1>5, <2>1, <2>3 DEF f
<1>7. CASE before # {}
  <2> DEFINE p == CHOOSE p \in before : TRUE
  <2>1. f.mem = Absorb(k, p) /\ f.at = p
    BY <1>7 DEF MarkFree
  <2>2. p \in before
    BY <1>7
  <2> HIDE DEF k, p, f
  <2>3. p \in DOMAIN m /\ ~m[p].isLast /\ m[p].next = b /\ m[p].isFree /\ p # b
    BY <2>2 DEF Previous
  <2>4. k[p] = m[p] /\ p \in DOMAIN k
    BY <1>2, <2>3
  <2> DEFINE g == Absorb(k, p)
  <2>5. Merged(g, k, p)
    BY <1>1, <2>4, AbsorbMerges
  <2> HIDE DEF g
  <2>6. /\ IsList(g, first) /\ p \in DOMAIN g
        /\ \A a, q : \A s \in Nat : a # b /\ Serves(k, a, q, s) => Serves(g, a, q, s)
    BY <1>1, <2>3, <2>4, <2>5, AbsorbKeeps
  <2>7. /\ DOMAIN g = DOMAIN m \ {b}
        /\ \A a \in DOMAIN g : a # p => g[a] = m[a]
    BY <1>2, <2>3, <2>4, <2>5 DEF Merged
  <2>8. ASSUME NEW a \in DOMAIN g \ {p}, g[a].isFree, ~g[a].isLast
        PROVE  ~g[g[a].next].isFree
    <3>1. a \in DOMAIN m /\ g[a] = m[a]
      BY <2>7, <2>8
    <3>2. ~m[m[a].next].isFree
      BY <2>8, <3>1 DEF Apart
    <3>3. m[a].next # p
      BY <2>3, <3>2
    <3>4. m[a].next \in DOMAIN g
      BY <2>6, <2>8, <3>1 DEF IsList
    <3> QED BY <2>7, <3>1, <3>2, <3>3, <3>4
  <2>9. ApartBut(g, p)
    BY <2>8 DEF ApartBut
  <2> QED BY <1>5, <2>1, <2>6, <2>9 DEF f, g
<1> QED BY <1>6, <1>7

\* free: both merges.
LEMMA FreedKeeps ==
    ASSUME NEW m, NEW first, IsList(m, first), Apart(m),
           NEW b \in DOMAIN m, ~m[b].isFree
    PROVE  /\ IsList(Freed(m, b), first) /\ Apart(Freed(m, b))
           /\ \A a, q : \A s \in Nat : a # b /\ Serves(m, a, q, s) => Serves(Freed(m, b), a, q, s)
<1> DEFINE f == MarkFree(m, b)
           k == f.mem
           at == f.at
<1>1. /\ IsList(k, first) /\ at \in DOMAIN k /\ ApartBut(k, at)
      /\ \A a, q : \A s \in Nat : a # b /\ Serves(m, a, q, s) => Serves(k, a, q, s)
  BY MarkFreeKeeps
<1>2. CASE k[at].isLast \/ ~k[k[at].next].isFree
  <2>1. Freed(m, b) = k
    BY <1>2 DEF Freed
  <2> HIDE DEF k, at
  <2>2. Apart(k)
    BY <1>1, <1>2 DEF Apart, ApartBut
  <2> QED BY <1>1, <2>1, <2>2
<1>3. CASE ~ (k[at].isLast \/ ~k[k[at].next].isFree)
  <2>1. Freed(m, b) = Absorb(k, at)
    BY <1>3 DEF Freed
  <2> HIDE DEF k, at
  <2> DEFINE g == Absorb(k, at)
  <2>2. Merged(g, k, at)
    BY <1>1, AbsorbMerges
  <2> HIDE DEF g
  <2>3. /\ IsList(g, first)
        /\ \A a, q : \A s \in Nat : a # k[at].next /\ Serves(k, a, q, s) => Serves(g, a, q, s)
    BY <1>1, <1>3, <2>2, AbsorbKeeps
  <2>4. Apart(g)
    BY <1>1, <1>3, <2>2, AbsorbApart
  <2>5. \A a, q : \A s \in Nat : Serves(k, a, q, s) => a # k[at].next
    BY <1>3 DEF Serves
  <2> QED BY <1>1, <2>1, <2>3, <2>4, <2>5 DEF g
<1> QED BY <1>2, <1>3

-----------------------------------------------------------------------------
(***************************************************************************)
(* The inductive invariant, and the break.                                 *)
(***************************************************************************)
\* Before the first chunk there is nothing.
Untouched == mallocListHead = NULL => brk = HeapStart /\ availableMemoryInChunk = 0

IInv ==
    /\ TypeOK
    /\ IsList(mem, mallocListHead)
    /\ Apart(mem)
    /\ Holds(mem, live)
    /\ Untouched

\* All of this until free reads a false header, and the types from then on.
Inv == TypeOK /\ (NoFalseHeader => IInv)

\* The part of a heap that adjustDataBreak changes.
BreakOK(h) ==
    /\ h.head \in {NULL, HeapStart}
    /\ h.avail \in 0 .. (ChunkA - 1) * ChunkB
    /\ h.brk \in HeapStart .. HeapLimit
    /\ h.head = NULL => h.brk = HeapStart /\ h.avail = 0

LEMMA ProductInNat ==
    ASSUME NEW x \in Nat, NEW y \in Nat
    PROVE  x * y \in Nat
OBVIOUS

LEMMA ProductMonotonic ==
    ASSUME NEW x \in Nat, NEW z \in Nat, x <= z, NEW y \in Nat
    PROVE  x * y <= z * y
<1>1. (z - x) * y >= 0
  OBVIOUS
<1>2. (z - x) * y = z * y - x * y
  OBVIOUS
<1> QED BY <1>1, <1>2

LEMMA WhatIsLeft ==
    ASSUME NEW x \in Nat
    PROVE  (x % ChunkA) * ChunkB \in 0 .. (ChunkA - 1) * ChunkB
<1>1. ChunkA \in Nat \ {0} /\ ChunkB \in Nat
  BY LayoutAssumption
<1> DEFINE r == x % ChunkA
<1>2. r \in Nat /\ ChunkA - 1 \in Nat /\ r <= ChunkA - 1
  BY <1>1
<1> HIDE DEF r
<1>3. r * ChunkB \in Nat /\ (ChunkA - 1) * ChunkB \in Nat
  BY <1>1, <1>2, ProductInNat
<1>4. r * ChunkB <= (ChunkA - 1) * ChunkB
  BY <1>1, <1>2, ProductMonotonic
<1> QED BY <1>3, <1>4 DEF r

LEMMA QuotientPositive ==
    ASSUME NEW k \in Nat \ {0}, NEW x \in Nat, x >= k
    PROVE  x \div k \in Nat /\ x \div k > 0
<1> DEFINE n == x \div k
           r == x % k
<1>1. n \in Nat /\ r \in 0 .. k - 1 /\ x = k * n + r
  OBVIOUS
<1> HIDE DEF n, r
<1>2. n # 0
  <2>1. SUFFICES ASSUME n = 0 PROVE FALSE
    OBVIOUS
  <2>2. k * n = 0
    BY <2>1
  <2> QED BY <1>1, <2>2
<1> QED BY <1>1, <1>2 DEF n

LEMMA ChunksAsked ==
    ASSUME NEW h, h.avail \in Nat, NEW size \in Nat
    PROVE  /\ Chunks(h, size) \in Nat /\ Chunks(h, size) * ChunkSize \in Nat
           /\ h.avail = 0 /\ size > 0 => Chunks(h, size) > 0
<1>1. ChunkSize \in Nat \ {0}
  <2>1. ChunkA \in Nat \ {0} /\ ChunkB \in Nat \ {0}
    BY LayoutAssumption
  <2>2. ChunkA * ChunkB >= ChunkA
    BY <2>1, ProductSign
  <2> QED BY <2>1, <2>2 DEF ChunkSize
<1> DEFINE x == size - h.avail + ChunkSize - 1
           n == x \div ChunkSize
<1>2. ASSUME ~ (h.avail >= size)
      PROVE  n \in Nat /\ n > 0
  <2>1. x \in Nat /\ x >= ChunkSize
    BY <1>1, <1>2
  <2> QED BY <1>1, <2>1, QuotientPositive
<1>3. Chunks(h, size) = IF h.avail >= size THEN 0 ELSE n
  BY DEF Chunks
<1> HIDE DEF n, x
<1>4. Chunks(h, size) \in Nat
  BY <1>2, <1>3
<1>5. Chunks(h, size) * ChunkSize \in Nat
  BY <1>1, <1>4, ProductInNat
<1> QED BY <1>2, <1>3, <1>4, <1>5

LEMMA Types ==
    ASSUME IInv
    PROVE  /\ mallocListHead \in {NULL, HeapStart} /\ HeapStart \in Nat \ {0}
           /\ availableMemoryInChunk \in Nat /\ brk \in Nat /\ touched \in Nat
           /\ BreakOK(heap) /\ HeaderSize \in Nat \ {0}
           /\ \A p \in DOMAIN live : live[p] \in Size /\ live[p] \in Nat
<1>1. ChunkA \in Nat \ {0} /\ ChunkB \in Nat \ {0} /\ HeapStart \in Nat \ {0}
      /\ HeaderSize \in Nat \ {0} /\ HeapLimit \in Nat
  BY LayoutAssumption, BoundAssumption
<1>2. TypeOK /\ Untouched
  BY DEF IInv
<1>3. BreakOK(heap)
  BY <1>2 DEF BreakOK, heap, TypeOK, Untouched
<1>4. \A p \in DOMAIN live : live[p] \in Size /\ live[p] \in Nat
  BY <1>2, SizeAssumption DEF TypeOK
<1>5. (ChunkA - 1) * ChunkB \in Nat
  BY <1>1, ProductInNat
<1>6. availableMemoryInChunk \in Nat
  BY <1>2, <1>5 DEF TypeOK
<1> QED BY <1>1, <1>2, <1>3, <1>4, <1>6 DEF TypeOK

\* adjustDataBreak.
LEMMA AdjustKeeps ==
    ASSUME IInv, NEW size \in Nat, SbrkMaySucceed(heap, size),
           size > 0 \/ mallocListHead # NULL
    PROVE  LET g == AdjustDataBreak(heap, size) IN
           BreakOK(g) /\ g.head = HeapStart /\ g.mem = mem
<1> DEFINE g == AdjustDataBreak(heap, size)
           more == Chunks(heap, size)
           moved == more * ChunkSize
<1>1. /\ heap.avail = availableMemoryInChunk /\ heap.brk = brk
      /\ heap.head = mallocListHead /\ heap.mem = mem
  BY DEF heap
<1>2. /\ mallocListHead \in {NULL, HeapStart} /\ HeapStart \in Nat \ {0}
      /\ availableMemoryInChunk \in Nat /\ brk \in Nat /\ BreakOK(heap)
  BY Types
<1>3. more \in Nat /\ moved \in Nat /\ (availableMemoryInChunk = 0 /\ size > 0 => more > 0)
  BY <1>1, <1>2, ChunksAsked
<1>4. /\ g.brk = brk + moved
      /\ g.head = IF mallocListHead = NULL /\ more > 0 THEN brk ELSE mallocListHead
      /\ g.avail = ((availableMemoryInChunk + size) % ChunkA) * ChunkB
      /\ g.mem = mem
  BY DEF AdjustDataBreak, heap
<1>5. brk + moved <= HeapLimit
  BY <1>1 DEF SbrkMaySucceed
<1> HIDE DEF g, more, moved
<1>6. g.avail \in 0 .. (ChunkA - 1) * ChunkB
  <2>1. availableMemoryInChunk + size \in Nat
    BY <1>2
  <2> QED BY <1>4, <2>1, WhatIsLeft
<1>7. brk >= HeapStart /\ (mallocListHead = NULL => brk = HeapStart /\ availableMemoryInChunk = 0)
  BY <1>1, <1>2, BoundAssumption DEF BreakOK
<1>8. g.brk \in HeapStart .. HeapLimit
  BY <1>2, <1>3, <1>4, <1>5, <1>7, BoundAssumption
<1>9. g.head = HeapStart
  BY <1>2, <1>3, <1>4, <1>7
<1>10. HeapStart # NULL
  BY <1>2 DEF NULL
<1> QED BY <1>4, <1>6, <1>8, <1>9, <1>10 DEF BreakOK, g

\* A pointer beside the blocks of others is clear of their ranges.
LEMMA OffersClear ==
    ASSUME NEW m, NEW first, IsList(m, first), NEW f,
           \A q \in DOMAIN f : f[q] \in Nat,
           NEW n, NEW p, NEW size \in Nat, Offers(m, f, n, p, size)
    PROVE  /\ p \notin DOMAIN f /\ p \in Nat
           /\ \A q \in DOMAIN f : ~Clients!Clash(p, size, q, f[q])
<1>1. Serves(m, n, p, size)
  BY DEF Offers
<1>2. ASSUME NEW q \in DOMAIN f PROVE ~Clients!Clash(p, size, q, f[q])
  <2>1. PICK a \in DOMAIN m : a # n /\ Serves(m, a, q, f[q])
    BY DEF Offers
  <2> QED BY <1>1, <2>1, Disjoint
<1>3. \A q \in DOMAIN f : q # p
  BY <1>2 DEF Clients!Clash
<1>4. p \in Nat
  <2>1. n \in DOMAIN m /\ p = m[n].data
    BY <1>1 DEF Serves
  <2> QED BY <2>1, BlockFacts
<1> QED BY <1>2, <1>3, <1>4

-----------------------------------------------------------------------------
(***************************************************************************)
(* The calls.  Each keeps IInv, and is a call of the abstract allocator or *)
(* changes nothing that clients see.                                       *)
(***************************************************************************)
\* A heap as a call may leave it.
HeapOK(h) == BreakOK(h) /\ IsList(h.mem, h.head) /\ Apart(h.mem)

\* What malloc returns has a block of its own, beside those of all others.
LEMMA PlacedKeeps ==
    ASSUME IInv, NEW size \in Nat, SbrkMaySucceed(heap, size + HeaderSize)
    PROVE  LET got == Placed(heap, size) IN
           /\ HeapOK(got.heap) /\ got.heap.head = HeapStart
           /\ \E n : Offers(got.heap.mem, live, n, got.data, size)
<1> DEFINE got == Placed(heap, size)
           grown == AdjustDataBreak(heap, size + HeaderSize)
           b == WalkTo(mem, mallocListHead, Candidates(heap, size))
           at == mem[b].next
<1> SUFFICES /\ HeapOK(got.heap) /\ got.heap.head = HeapStart
             /\ \E x : Offers(got.heap.mem, live, x, got.data, size)
  OBVIOUS
<1>1. /\ heap.head = mallocListHead /\ heap.mem = mem
  BY DEF heap
<1>2. /\ mallocListHead \in {NULL, HeapStart} /\ HeapStart \in Nat \ {0}
      /\ HeaderSize \in Nat \ {0} /\ \A p \in DOMAIN live : live[p] \in Nat
  BY Types
<1>3. /\ IsList(mem, mallocListHead) /\ Apart(mem) /\ Holds(mem, live)
  BY DEF IInv
<1>4. BreakOK(grown) /\ grown.head = HeapStart /\ grown.mem = mem
  <2>1. size + HeaderSize \in Nat /\ size + HeaderSize > 0
    BY <1>2
  <2> QED BY <2>1, AdjustKeeps
<1>5. \A k : LET h == [grown EXCEPT !.mem = k] IN
             BreakOK(h) /\ h.head = HeapStart /\ h.mem = k
  <2> TAKE k
  <2> DEFINE h == [grown EXCEPT !.mem = k]
  <2>1. h.head = grown.head /\ h.avail = grown.avail /\ h.brk = grown.brk /\ h.mem = k
    BY DEF AdjustDataBreak, heap
  <2> HIDE DEF grown, h
  <2>2. BreakOK(h) /\ h.head = HeapStart /\ h.mem = k
    BY <1>4, <2>1 DEF BreakOK
  <2> QED BY <2>2 DEF h
<1>6. ASSUME NEW k, NEW n, NEW data, IsList(k, HeapStart), Apart(k),
             Offers(k, live, n, data, size),
             got = [heap |-> [grown EXCEPT !.mem = k], data |-> data]
      PROVE  /\ HeapOK(got.heap) /\ got.heap.head = HeapStart
             /\ \E x : Offers(got.heap.mem, live, x, got.data, size)
  <2> DEFINE h == [grown EXCEPT !.mem = k]
  <2>1. got.heap = h /\ got.data = data
    BY <1>6
  <2> HIDE DEF got, grown, h
  <2>2. BreakOK(h) /\ h.head = HeapStart /\ h.mem = k
    BY <1>5 DEF h
  <2> QED BY <1>6, <2>1, <2>2 DEF HeapOK
<1>7. CASE mallocListHead = NULL
  <2> DEFINE k == AllocateMemoryAt(mem, HeapStart, size)
  <2>1. got = [heap |-> [grown EXCEPT !.mem = k], data |-> DataAt(HeapStart)]
    <3>1. [grown EXCEPT !.mem = AllocateMemoryAt(@, grown.head, size)]
          = [grown EXCEPT !.mem = k]
      BY <1>4
    <3> HIDE DEF grown, k
    <3> QED BY <1>1, <1>4, <1>7, <3>1 DEF Placed, grown
  <2>2. DOMAIN mem = {}
    BY <1>3, <1>7 DEF IsList
  <2>3. IsList(k, HeapStart) /\ Apart(k) /\ Serves(k, HeapStart, DataAt(HeapStart), size)
    BY <1>2, <2>2, FirstBlock
  <2>4. DOMAIN live = {}
    BY <1>3, <2>2 DEF Holds
  <2>5. Offers(k, live, HeapStart, DataAt(HeapStart), size)
    BY <2>3, <2>4 DEF Offers
  <2> HIDE DEF got, grown, k
  <2> QED BY <1>6, <2>1, <2>3, <2>5
<1>8. CASE mallocListHead # NULL
  <2>1. mallocListHead = HeapStart /\ DOMAIN mem # {}
    BY <1>2, <1>3, <1>8 DEF IsList
  <2>2. b \in DOMAIN mem /\ b \in Ends(mem, Candidates(heap, size))
    BY <1>3, <2>1, WalkFinds
  <2>3. CASE b \in Candidates(heap, size)
    <3> DEFINE k == Reuse(mem, b, size)
    <3>1. got = [heap |-> [grown EXCEPT !.mem = k], data |-> mem[b].data]
      <4>1. [grown EXCEPT !.mem = Reuse(@, b, size)] = [grown EXCEPT !.mem = k]
        BY <1>4
      <4> HIDE DEF grown, k
      <4> QED BY <1>1, <1>8, <2>3, <4>1 DEF Placed, grown
    <3> HIDE DEF b
    <3>2. mem[b].isFree /\ mem[b].dataSize >= size
      BY <1>1, <2>3 DEF Candidates, Reusable
    <3>3. ~mem[b].isLast => ~mem[mem[b].next].isFree
      BY <1>3, <2>2, <3>2 DEF Apart
    <3>4. mem[b].dataSize \in Nat
      BY <1>3, <2>2, BlockFacts
    <3>5. size <= mem[b].dataSize
      BY <3>2, <3>4
    <3>6. /\ IsList(k, HeapStart) /\ Apart(k)
          /\ Serves(k, b, mem[b].data, size)
          /\ \A a, q : \A s \in Nat : a # b /\ Serves(mem, a, q, s) => Serves(k, a, q, s)
      BY <1>3, <2>1, <2>2, <3>3, <3>5, ReuseKeeps
    <3> HIDE DEF k
    <3>7. ASSUME NEW q \in DOMAIN live
          PROVE  \E a \in DOMAIN k : a # b /\ Serves(k, a, q, live[q])
      <4>1. PICK a \in DOMAIN mem : Serves(mem, a, q, live[q])
        BY <1>3 DEF Holds
      <4>2. a # b
        BY <3>2, <4>1 DEF Serves
      <4>3. Serves(k, a, q, live[q])
        BY <1>2, <3>6, <4>1, <4>2
      <4> QED BY <4>2, <4>3 DEF Serves
    <3>8. Offers(k, live, b, mem[b].data, size)
      BY <3>6, <3>7 DEF Offers
    <3> HIDE DEF got, grown
    <3> QED BY <1>6, <3>1, <3>6, <3>8
  <2>4. CASE b \notin Candidates(heap, size)
    <3> DEFINE u == [mem EXCEPT ![b].isLast = FALSE]
               k == AllocateMemoryAt(u, at, size)
    <3>1. got = [heap |-> [grown EXCEPT !.mem = k], data |-> DataAt(at)]
      <4>1. [grown EXCEPT !.mem = AllocateMemoryAt([@ EXCEPT ![b].isLast = FALSE], at, size)]
            = [grown EXCEPT !.mem = k]
        BY <1>4
      <4> HIDE DEF grown, k
      <4> QED BY <1>1, <1>8, <2>4, <4>1 DEF Placed, grown
    <3>2. mem[b].isLast
      BY <2>2, <2>4 DEF Ends
    <3> HIDE DEF b
    <3>3. IsList(k, HeapStart) /\ Apart(k) /\ Offers(k, live, at, DataAt(at), size)
      BY <1>3, <2>1, <2>2, <3>2, AppendKeeps
    <3> HIDE DEF got, grown, k, at
    <3> QED BY <1>6, <3>1, <3>3
  <2> QED BY <2>3, <2>4
<1> QED BY <1>7, <1>8

\* The highest end of a block is a number.
LEMMA TopIsNumber ==
    ASSUME NEW m, NEW first, IsList(m, first)
    PROVE  Top(m) \in Nat
<1> DEFINE ends == {m[a].next : a \in DOMAIN m} \cup {HeapStart}
<1>1. HeapStart \in Nat
  BY LayoutAssumption
<1>2. ends \subseteq Nat
  BY <1>1, BlockFacts
<1>3. \E e \in ends : \A f \in ends : f <= e
  <2>1. CASE DOMAIN m = {}
    BY <1>1, <2>1
  <2>2. CASE DOMAIN m # {}
    <3>1. PICK z \in DOMAIN m : m[z].isLast
      BY <2>2 DEF IsList
    <3>2. \A a \in DOMAIN m : a \in Nat /\ m[a].next \in Nat /\ a < m[a].next
      BY BlockFacts
    <3>3. \A a \in DOMAIN m : a # z => m[a].next <= z
      BY <3>1, LastIsHighest
    <3>4. \A a \in DOMAIN m : m[a].next <= m[z].next
      BY <3>2, <3>3
    <3>5. CASE HeapStart <= m[z].next
      BY <3>4, <3>5
    <3>6. CASE m[z].next <= HeapStart
      BY <1>1, <3>2, <3>4, <3>6
    <3> QED BY <1>1, <3>2, <3>5, <3>6
  <2> QED BY <2>1, <2>2
<1>4. Top(m) \in ends
  BY <1>3 DEF Top
<1> HIDE DEF ends
<1> QED BY <1>2, <1>4

\* A call that leaves a list, and a block for every pointer.
LEMMA LeaveKeeps ==
    ASSUME IInv, NEW h, NEW m, NEW pointers,
           mallocListHead' = h.head, availableMemoryInChunk' = h.avail, brk' = h.brk,
           mem' = m, touched' = Larger(touched, Top(h.mem)), live' = pointers,
           BreakOK(h), IsList(h.mem, h.head),
           IsList(m, h.head), Apart(m), Holds(m, pointers),
           \A p \in DOMAIN pointers : pointers[p] \in Size,
           status' \in {"running", "fault", "corrupt"}
    PROVE  IInv'
<1>1. touched' \in Nat
  <2>1. touched \in Nat /\ Top(h.mem) \in Nat
    BY Types, TopIsNumber
  <2> QED BY <2>1 DEF Larger
<1>2. /\ \A a \in DOMAIN m : a \in Nat /\ m[a] \in Header
      /\ \A p \in DOMAIN pointers : p \in Nat
  <2>1. \A a \in DOMAIN m : a \in Nat /\ m[a] \in Header
    BY BlockFacts
  <2>2. ASSUME NEW p \in DOMAIN pointers PROVE p \in Nat
    <3>1. PICK b \in DOMAIN m : Serves(m, b, p, pointers[p])
      BY DEF Holds
    <3> QED BY <3>1, BlockFacts DEF Serves
  <2> QED BY <2>1, <2>2
<1>3. TypeOK'
  BY <1>1, <1>2 DEF TypeOK, BreakOK, Header
<1>4. Untouched'
  BY DEF Untouched, BreakOK
<1>5. IsList(m, h.head) /\ Apart(m) /\ Holds(m, pointers)
  OBVIOUS
<1> QED BY <1>3, <1>4, <1>5 DEF IInv

LEMMA StutterKeeps == ASSUME IInv, UNCHANGED vars PROVE IInv' /\ live' = live
<1>1. /\ mallocListHead' = mallocListHead /\ mem' = mem /\ live' = live
      /\ availableMemoryInChunk' = availableMemoryInChunk /\ brk' = brk
      /\ touched' = touched /\ status' = status
  BY DEF vars
<1>2. TypeOK' /\ Untouched'
  BY <1>1 DEF IInv, TypeOK, Untouched
<1>3. IsList(mem, mallocListHead) /\ Apart(mem) /\ Holds(mem, live)
  BY DEF IInv
<1> QED BY <1>1, <1>2, <1>3 DEF IInv

LEMMA DieKeeps == ASSUME IInv, Die PROVE IInv' /\ live' = live
<1>1. /\ mallocListHead' = mallocListHead /\ mem' = mem /\ live' = live
      /\ availableMemoryInChunk' = availableMemoryInChunk /\ brk' = brk
      /\ touched' = touched /\ status' = "fault"
  BY DEF Die
<1>2. TypeOK' /\ Untouched'
  BY <1>1 DEF IInv, TypeOK, Untouched
<1>3. IsList(mem, mallocListHead) /\ Apart(mem) /\ Holds(mem, live)
  BY DEF IInv
<1> QED BY <1>1, <1>2, <1>3 DEF IInv

\* The block of a pointer is the one findOwnerBlock finds.
LEMMA OwnerServes ==
    ASSUME IInv, NEW ptr \in DOMAIN live
    PROVE  Serves(mem, Owner(heap, ptr), ptr, live[ptr])
<1>1. PICK b \in DOMAIN mem : Serves(mem, b, ptr, live[ptr])
  BY DEF IInv, Holds
<1>2. live[ptr] \in Nat
  BY Types
<1>3. IsList(heap.mem, heap.head) /\ heap.mem = mem
  BY DEF IInv, heap
<1>4. ptr \in Nat
  BY DEF IInv, TypeOK
<1>5. Owner(heap, ptr) = b
  <2>1. Serves(heap.mem, b, ptr, live[ptr])
    BY <1>1, <1>3
  <2>2. ptr <= ptr /\ ptr <= ptr + live[ptr]
    BY <1>2, <1>4
  <2> QED BY <1>2, <1>3, <1>4, <2>1, <2>2, OwnerFinds
<1> QED BY <1>1, <1>5

\* The blocks of two pointers are two.
LEMMA OthersElsewhere ==
    ASSUME IInv, NEW ptr \in DOMAIN live, NEW b, Serves(mem, b, ptr, live[ptr]),
           NEW q \in DOMAIN live, q # ptr
    PROVE  \E a \in DOMAIN mem : a # b /\ Serves(mem, a, q, live[q])
<1>1. PICK a \in DOMAIN mem : Serves(mem, a, q, live[q])
  BY DEF IInv, Holds
<1>2. a # b
  BY <1>1 DEF Serves
<1> QED BY <1>1, <1>2

LEMMA GiveKeeps ==
    ASSUME IInv, NEW size \in Size, SbrkMaySucceed(heap, size + HeaderSize),
           Leave(Placed(heap, size).heap, Placed(heap, size).heap.mem,
                 With(Placed(heap, size).data, size)),
           UNCHANGED status
    PROVE  IInv' /\ [Clients!Next]_live
<1> DEFINE got == Placed(heap, size)
           h == got.heap
           d == got.data
<1>0. size \in Nat
  BY SizeAssumption
<1>1. /\ HeapOK(h) /\ h.head = HeapStart
      /\ \E n : Offers(h.mem, live, n, d, size)
  BY <1>0, PlacedKeeps
<1>2. /\ mallocListHead' = h.head /\ availableMemoryInChunk' = h.avail /\ brk' = h.brk
      /\ mem' = h.mem /\ touched' = Larger(touched, Top(h.mem))
      /\ live' = With(d, size)
  BY DEF Leave, SetBreak
<1> HIDE DEF got, h, d
<1>3. PICK n : Offers(h.mem, live, n, d, size)
  BY <1>1
<1>4. BreakOK(h) /\ IsList(h.mem, h.head) /\ Apart(h.mem)
  BY <1>1 DEF HeapOK
<1>5. \A p \in DOMAIN live : live[p] \in Size /\ live[p] \in Nat
  BY Types
<1>6. /\ d \notin DOMAIN live
      /\ \A q \in DOMAIN live : ~Clients!Clash(d, size, q, live[q])
  BY <1>0, <1>3, <1>4, <1>5, OffersClear
<1>7. /\ DOMAIN live' = DOMAIN live \cup {d} /\ live'[d] = size
      /\ \A q \in DOMAIN live : live'[q] = live[q]
  BY <1>2, <1>6 DEF With
<1>8. Holds(h.mem, live')
  <2> SUFFICES ASSUME NEW q \in DOMAIN live'
               PROVE  \E b \in DOMAIN h.mem : Serves(h.mem, b, q, live'[q])
    BY DEF Holds
  <2>1. CASE q = d
    BY <1>3, <1>7, <2>1 DEF Offers, Serves
  <2>2. CASE q \in DOMAIN live
    BY <1>3, <1>7, <2>2 DEF Offers
  <2> QED BY <1>7, <2>1, <2>2
<1>9. \A p \in DOMAIN live' : live'[p] \in Size
  BY <1>5, <1>7
<1>10. status' \in {"running", "fault", "corrupt"}
  BY DEF IInv, TypeOK
<1>11. IInv'
  BY <1>2, <1>4, <1>8, <1>9, <1>10, LeaveKeeps
<1>12. Clients!Give(size)
  <2>1. live' = Clients!Given(live, d, size)
    BY <1>2 DEF With, Clients!Given
  <2>2. d \in DOMAIN live' \ DOMAIN live
    BY <1>6, <1>7
  <2> QED BY <1>6, <2>1, <2>2 DEF Clients!Give
<1> QED BY <1>11, <1>12 DEF Clients!Next

\* The pointer dropped, and its block no longer needed.
LEMMA DropKeeps ==
    ASSUME IInv, NEW ptr \in DOMAIN live, NEW k, Apart(k), IsList(k, mallocListHead),
           \A q \in DOMAIN live : q # ptr =>
                \E a \in DOMAIN k : Serves(k, a, q, live[q]),
           Leave(heap, k, Without(live, ptr)),
           status' \in {"running", "fault", "corrupt"}
    PROVE  IInv' /\ [Clients!Next]_live
<1> DEFINE f == Without(live, ptr)
<1>1. /\ mallocListHead' = heap.head /\ availableMemoryInChunk' = heap.avail
      /\ brk' = heap.brk /\ mem' = k
      /\ touched' = Larger(touched, Top(heap.mem)) /\ live' = f
  BY DEF Leave, SetBreak
<1>2. DOMAIN f = DOMAIN live \ {ptr} /\ \A q \in DOMAIN f : f[q] = live[q]
  BY DEF Without
<1>3. live' = Clients!Kept(ptr)
  BY <1>1 DEF Without, Clients!Kept
<1> HIDE DEF f
<1>4. Holds(k, f)
  BY <1>2 DEF Holds
<1>5. \A p \in DOMAIN f : f[p] \in Size
  BY <1>2, Types
<1>6. heap.head = mallocListHead /\ heap.mem = mem
  BY DEF heap
<1>7. BreakOK(heap) /\ IsList(heap.mem, heap.head)
  BY <1>6, Types DEF IInv
<1>8. IInv'
  BY <1>1, <1>4, <1>5, <1>6, <1>7, LeaveKeeps
<1>9. Clients!Next
  BY <1>3 DEF Clients!Next, Clients!Take
<1> QED BY <1>8, <1>9

\* What is left of the list when a block takes in client bytes still has types.
LEMMA GarbageTyped ==
    ASSUME NEW m, NEW first, IsList(m, first), NEW b \in DOMAIN m,
           NEW garbage \in NoHeader, NEW k,
           k = Absorb([a \in DOMAIN m \cup {m[b].next} |->
                          IF a = m[b].next THEN garbage ELSE m[a]], b)
    PROVE  \A a \in DOMAIN k : a \in Nat /\ k[a] \in Header
<1> DEFINE c == m[b].next
           j == [a \in DOMAIN m \cup {c} |-> IF a = c THEN garbage ELSE m[a]]
<1>1. b # c /\ m[b] \in Header /\ m[b].dataSize \in Nat
  BY BlockFacts DEF Header
<1>2. garbage.isLast \in BOOLEAN /\ garbage.dataSize \in Nat /\ garbage.next \in Nat
  BY GarbageAssumption DEF NoHeader
<1>3. \A a \in DOMAIN m : a \in Nat /\ m[a] \in Header
  BY BlockFacts
<1>4. j[b] = m[b] /\ j[c] = garbage /\ \A a \in DOMAIN m : a # c => j[a] = m[a]
  BY <1>1
<1>5. DOMAIN j \ {c} \subseteq DOMAIN m
  OBVIOUS
<1>6. k = Absorb(j, b)
  OBVIOUS
<1>7. j[b].next = c
  BY <1>4
<1> HIDE DEF c, j
<1>8. /\ DOMAIN k = DOMAIN j \ {c}
      /\ \A a \in DOMAIN k :
            k[a] = IF a # b THEN j[a]
                   ELSE [j[b] EXCEPT !.dataSize = j[b].dataSize + j[c].dataSize,
                                     !.isLast = j[c].isLast, !.next = j[c].next]
  BY <1>6, <1>7 DEF Absorb
<1>9. m[b].dataSize + garbage.dataSize \in Nat
  BY <1>1, <1>2
<1>10. [m[b] EXCEPT !.dataSize = m[b].dataSize + garbage.dataSize,
                    !.isLast = garbage.isLast, !.next = garbage.next] \in Header
  BY <1>1, <1>2, <1>9 DEF Header
<1> QED BY <1>3, <1>4, <1>5, <1>8, <1>10

LEMMA FreeKeeps ==
    ASSUME IInv, NEW ptr \in DOMAIN live, Free(ptr)
    PROVE  Inv' /\ [Clients!Next]_live
<1> DEFINE b == Owner(heap, ptr)
<1>1. Serves(mem, b, ptr, live[ptr])
  BY OwnerServes
<1> HIDE DEF b
<1>2. b \in DOMAIN mem /\ ~mem[b].isFree
  BY <1>1 DEF Serves
<1>3. IsList(mem, mallocListHead) /\ Apart(mem)
  BY DEF IInv
<1>4. \A q \in DOMAIN live : live[q] \in Nat
  BY Types
<1>5. \A q \in DOMAIN live : q # ptr =>
        \E a \in DOMAIN mem : a # b /\ Serves(mem, a, q, live[q])
  BY <1>1, OthersElsewhere
<1>6. CASE Die
  BY <1>6, DieKeeps DEF Inv, IInv
<1>7. CASE Leave(heap, Freed(mem, b), Without(live, ptr)) /\ UNCHANGED status
  <2>1. /\ IsList(Freed(mem, b), mallocListHead) /\ Apart(Freed(mem, b))
        /\ \A a, q : \A s \in Nat :
                a # b /\ Serves(mem, a, q, s) => Serves(Freed(mem, b), a, q, s)
    BY <1>2, <1>3, FreedKeeps
  <2>2. \A q \in DOMAIN live : q # ptr =>
            \E a \in DOMAIN Freed(mem, b) : Serves(Freed(mem, b), a, q, live[q])
    BY <1>4, <1>5, <2>1 DEF Serves
  <2>3. status' \in {"running", "fault", "corrupt"}
    BY <1>7 DEF IInv, TypeOK
  <2>4. IInv' /\ [Clients!Next]_live
    BY <1>7, <2>1, <2>2, <2>3, DropKeeps
  <2> QED BY <2>4 DEF Inv, IInv
<1>8. ASSUME NEW garbage \in NoHeader, status' = "corrupt",
             Leave(heap, FreedIntoGarbage(mem, b, garbage), Without(live, ptr))
      PROVE  Inv' /\ [Clients!Next]_live
  <2> DEFINE f == MarkFree(mem, b)
             g == FreedIntoGarbage(mem, b, garbage)
  <2>1. IsList(f.mem, mallocListHead) /\ f.at \in DOMAIN f.mem
    BY <1>2, <1>3, MarkFreeKeeps
  <2>2. g = Absorb([a \in DOMAIN f.mem \cup {f.mem[f.at].next} |->
                      IF a = f.mem[f.at].next THEN garbage ELSE f.mem[a]], f.at)
    BY DEF FreedIntoGarbage
  <2> HIDE DEF f, g
  <2>3. \A a \in DOMAIN g : a \in Nat /\ g[a] \in Header
    BY <2>1, <2>2, GarbageTyped
  <2>4. /\ mallocListHead' = mallocListHead /\ availableMemoryInChunk' = availableMemoryInChunk
        /\ brk' = brk /\ mem' = g /\ touched' = Larger(touched, Top(mem))
        /\ live' = Without(live, ptr)
    BY <1>8 DEF Leave, SetBreak, heap, g
  <2>5. touched' \in Nat
    <3>1. touched \in Nat /\ Top(mem) \in Nat
      BY <1>3, Types, TopIsNumber
    <3> QED BY <2>4, <3>1 DEF Larger
  <2>6. DOMAIN live' \subseteq DOMAIN live /\ \A q \in DOMAIN live' : live'[q] = live[q]
    BY <2>4 DEF Without
  <2>7. TypeOK
    BY DEF IInv
  <2>8. TypeOK'
    BY <1>8, <2>3, <2>4, <2>5, <2>6, <2>7 DEF TypeOK, Header
  <2>9. Clients!Next
    <3>1. live' = Clients!Kept(ptr)
      BY <2>4 DEF Without, Clients!Kept
    <3> QED BY <3>1 DEF Clients!Next, Clients!Take
  <2> QED BY <1>8, <2>8, <2>9 DEF Inv, NoFalseHeader
<1> QED BY <1>6, <1>7, <1>8 DEF Free, b

\* Whatever the calls do after that, clients hold numbers.
LEMMA StrayKeeps == ASSUME TypeOK, Stray PROVE Inv'
<1>1. /\ status = "corrupt" /\ status' = status /\ mallocListHead' = mallocListHead
      /\ mem' = mem /\ availableMemoryInChunk' = availableMemoryInChunk
      /\ brk' = brk /\ touched' = touched
  BY DEF Stray
<1>2. \A p \in DOMAIN live' : p \in Nat /\ live'[p] \in Size
  <2>1. ASSUME NEW at \in Garbage, NEW size \in Size, live' = With(DataAt(at), size)
        PROVE  \A p \in DOMAIN live' : p \in Nat /\ live'[p] \in Size
    <3>1. DataAt(at) \in Nat
      BY GarbageAssumption, DataBehindHeader
    <3> QED BY <2>1, <3>1 DEF With, TypeOK
  <2>2. ASSUME NEW ptr \in DOMAIN live, live' = Without(live, ptr)
        PROVE  \A p \in DOMAIN live' : p \in Nat /\ live'[p] \in Size
    BY <2>2 DEF Without, TypeOK
  <2> QED BY <2>1, <2>2 DEF Stray
<1>3. TypeOK'
  BY <1>1, <1>2 DEF TypeOK
<1> QED BY <1>1, <1>3 DEF Inv, NoFalseHeader

\* The range of a pointer that stays where it is, resized.
LEMMA ResizeKeeps ==
    ASSUME IInv, NEW ptr \in DOMAIN live, NEW size \in Size,
           NEW h, NEW k, NEW b, BreakOK(h), IsList(h.mem, h.head),
           IsList(k, h.head), Apart(k),
           Serves(k, b, ptr, size),
           \A q \in DOMAIN live : q # ptr =>
                \E a \in DOMAIN k : a # b /\ Serves(k, a, q, live[q]),
           Leave(h, k, With(ptr, size)), UNCHANGED status
    PROVE  IInv' /\ [Clients!Next]_live
<1> DEFINE f == With(ptr, size)
<1>1. /\ mallocListHead' = h.head /\ availableMemoryInChunk' = h.avail
      /\ brk' = h.brk /\ mem' = k
      /\ touched' = Larger(touched, Top(h.mem)) /\ live' = f
  BY DEF Leave, SetBreak
<1>2. /\ DOMAIN f = DOMAIN live /\ f[ptr] = size
      /\ \A q \in DOMAIN live : q # ptr => f[q] = live[q]
  BY DEF With
<1>3. live' = Clients!Given(live, ptr, size)
  BY <1>1 DEF With, Clients!Given
<1> HIDE DEF f
<1>4. Holds(k, f)
  <2> SUFFICES ASSUME NEW q \in DOMAIN f
               PROVE  \E a \in DOMAIN k : Serves(k, a, q, f[q])
    BY DEF Holds
  <2>1. CASE q = ptr
    BY <1>2, <2>1 DEF Serves
  <2>2. CASE q # ptr
    BY <1>2, <2>2
  <2> QED BY <2>1, <2>2
<1>5. \A p \in DOMAIN f : f[p] \in Size
  BY <1>2, Types
<1>6. status' \in {"running", "fault", "corrupt"}
  BY DEF IInv, TypeOK
<1>7. IInv'
  BY <1>1, <1>4, <1>5, <1>6, LeaveKeeps
<1>8. \A q \in DOMAIN live \ {ptr} : ~Clients!Clash(ptr, size, q, live[q])
  <2> SUFFICES ASSUME NEW q \in DOMAIN live \ {ptr}
               PROVE  ~Clients!Clash(ptr, size, q, live[q])
    OBVIOUS
  <2>1. PICK a \in DOMAIN k : a # b /\ Serves(k, a, q, live[q])
    OBVIOUS
  <2>2. live[q] \in Nat /\ size \in Nat
    BY Types, SizeAssumption
  <2> QED BY <2>1, <2>2, Disjoint
<1>9. Clients!Next
  BY <1>3, <1>8 DEF Clients!Next, Clients!Resize
<1> QED BY <1>7, <1>9

\* The heap h with another list.
LEMMA HeapWith ==
    ASSUME NEW k
    PROVE  LET h == [heap EXCEPT !.mem = k] IN
           /\ h.head = mallocListHead /\ h.avail = availableMemoryInChunk
           /\ h.brk = brk /\ h.mem = k
BY DEF heap

\* realloc's merge: when it leaves the list alone and the block is large enough
\* all the same, nothing can be cut off in front of a free block.
LEMMA JoinedKeeps ==
    ASSUME IInv, NEW b, NEW ptr \in DOMAIN live, Serves(mem, b, ptr, live[ptr]),
           NEW size \in Nat
    PROVE  LET m == Joined(b, size) IN
           /\ IsList(m, mallocListHead) /\ Apart(m) /\ b \in DOMAIN m
           /\ m[b].data = ptr
           /\ (m[b].dataSize >= size =>
                (~m[b].isLast /\ m[m[b].next].isFree => m[b].dataSize = size))
           /\ \A q \in DOMAIN live : q # ptr =>
                \E a \in DOMAIN m : a # b /\ Serves(m, a, q, live[q])
<1> DEFINE c == mem[b].next
           joins == /\ ~mem[b].isLast /\ mem[c].isFree
                    /\ mem[b].dataSize + mem[c].dataSize > size
           m == Joined(b, size)
<1>1. IsList(mem, mallocListHead) /\ Apart(mem)
  BY DEF IInv
<1>2. b \in DOMAIN mem /\ mem[b].data = ptr /\ ~mem[b].isFree
  BY DEF Serves
<1>3. \A q \in DOMAIN live : q # ptr =>
        \E a \in DOMAIN mem : a # b /\ Serves(mem, a, q, live[q])
  BY OthersElsewhere
<1>4. \A q \in DOMAIN live : live[q] \in Nat
  BY Types
<1>5. CASE joins
  <2> DEFINE k == Absorb(mem, b)
  <2>1. m = k
    BY <1>5 DEF Joined
  <2>2. Merged(k, mem, b)
    BY <1>1, <1>2, AbsorbMerges
  <2> HIDE DEF k, m
  <2>3. /\ IsList(k, mallocListHead) /\ b \in DOMAIN k
        /\ \A a, q : \A s \in Nat : a # c /\ Serves(mem, a, q, s) => Serves(k, a, q, s)
    BY <1>1, <1>2, <1>5, <2>2, AbsorbKeeps
  <2>4. ApartBut(mem, b)
    BY <1>1 DEF Apart, ApartBut
  <2>5. Apart(k)
    BY <1>1, <1>2, <1>5, <2>2, <2>4, AbsorbApart
  <2>6. mem[b] \in Header /\ c \in DOMAIN mem
    BY <1>1, <1>2, <1>5, BlockFacts DEF IsList
  <2>7. mem[c] \in Header /\ b < c /\ c < mem[c].next /\ c \in Nat
        /\ b \in Nat /\ mem[c].next \in Nat
    BY <1>1, <1>2, <2>6, BlockFacts
  <2>8. k[b].data = ptr /\ k[b].next = mem[c].next /\ k[b].isLast = mem[c].isLast
    BY <1>2, <2>2, <2>6, <2>7 DEF Merged, Header
  <2>9. ~k[b].isLast => ~k[k[b].next].isFree
    <3>1. SUFFICES ASSUME ~k[b].isLast PROVE ~k[k[b].next].isFree
      OBVIOUS
    <3>2. ~mem[mem[c].next].isFree
      BY <1>1, <1>5, <2>6, <2>8, <3>1 DEF Apart
    <3>3. mem[c].next # b /\ k[b].next \in DOMAIN k
      BY <2>3, <2>7, <3>1 DEF IsList
    <3>4. k[mem[c].next] = mem[mem[c].next]
      BY <2>2, <2>8, <3>3 DEF Merged
    <3> QED BY <2>8, <3>2, <3>4
  <2>10. ASSUME NEW q \in DOMAIN live, q # ptr
         PROVE  \E a \in DOMAIN k : a # b /\ Serves(k, a, q, live[q])
    <3>1. PICK a \in DOMAIN mem : a # b /\ Serves(mem, a, q, live[q])
      BY <1>3, <2>10
    <3>2. a # c
      BY <1>5, <3>1 DEF Serves
    <3>3. Serves(k, a, q, live[q])
      BY <1>4, <2>3, <3>1, <3>2
    <3> QED BY <3>1, <3>3 DEF Serves
  <2> QED BY <2>1, <2>3, <2>5, <2>8, <2>9, <2>10 DEF m
<1>6. CASE ~joins
  <2>1. m = mem
    BY <1>6 DEF Joined
  <2>2. ASSUME mem[b].dataSize >= size, ~mem[b].isLast, mem[c].isFree
        PROVE  mem[b].dataSize = size
    <3>1. c \in DOMAIN mem
      BY <1>1, <1>2, <2>2 DEF IsList
    <3>2. mem[b].dataSize \in Nat /\ mem[c].dataSize \in Nat
      BY <1>1, <1>2, <3>1, BlockFacts
    <3>3. ~ (mem[b].dataSize + mem[c].dataSize > size)
      BY <1>6, <2>2
    <3> QED BY <2>2, <3>2, <3>3
  <2> HIDE DEF m
  <2> QED BY <1>1, <1>2, <1>3, <2>1, <2>2 DEF m
<1> QED BY <1>5, <1>6

LEMMA ReallocInPlaceKeeps ==
    ASSUME IInv, NEW ptr \in DOMAIN live, NEW size \in Size, ReallocInPlace(ptr, size)
    PROVE  IInv' /\ [Clients!Next]_live
<1> DEFINE b == Owner(heap, ptr)
           m == Joined(b, size)
           k == Reuse(m, b, size)
           cut == [heap EXCEPT !.mem = k]
<1>0. size \in Nat
  BY SizeAssumption
<1>1. Serves(mem, b, ptr, live[ptr])
  BY OwnerServes
<1>2. CASE Die
  BY <1>2, DieKeeps
<1>3. CASE ~Die
  <2>1. /\ m[b].dataSize >= size
        /\ Leave(cut, cut.mem, With(ptr, size)) /\ UNCHANGED status
    BY <1>3 DEF ReallocInPlace
  <2> HIDE DEF b
  <2>2. /\ IsList(m, mallocListHead) /\ Apart(m) /\ b \in DOMAIN m
        /\ m[b].data = ptr
        /\ (m[b].dataSize >= size =>
             (~m[b].isLast /\ m[m[b].next].isFree => m[b].dataSize = size))
        /\ \A q \in DOMAIN live : q # ptr =>
             \E a \in DOMAIN m : a # b /\ Serves(m, a, q, live[q])
    BY <1>0, <1>1, JoinedKeeps
  <2> HIDE DEF m
  <2>3. m[b].dataSize \in Nat
    BY <2>2, BlockFacts
  <2>4. size <= m[b].dataSize
    BY <1>0, <2>1, <2>3
  <2>5. /\ IsList(k, mallocListHead) /\ Apart(k)
        /\ Serves(k, b, m[b].data, size)
        /\ \A a, q : \A s \in Nat : a # b /\ Serves(m, a, q, s) => Serves(k, a, q, s)
    BY <1>0, <2>1, <2>2, <2>4, ReuseKeeps
  <2>6. /\ cut.head = mallocListHead /\ cut.avail = availableMemoryInChunk
        /\ cut.brk = brk /\ cut.mem = k
    BY HeapWith
  <2> HIDE DEF cut, k
  <2>7. BreakOK(heap) /\ heap.head = mallocListHead /\ heap.brk = brk
        /\ heap.avail = availableMemoryInChunk
    BY Types DEF heap
  <2>8. BreakOK(cut)
    BY <2>6, <2>7 DEF BreakOK
  <2>9. ASSUME NEW q \in DOMAIN live, q # ptr
        PROVE  \E a \in DOMAIN k : a # b /\ Serves(k, a, q, live[q])
    <3>1. PICK a \in DOMAIN m : a # b /\ Serves(m, a, q, live[q])
      BY <2>2, <2>9
    <3>2. live[q] \in Nat
      BY Types
    <3>3. Serves(k, a, q, live[q])
      BY <2>5, <3>1, <3>2
    <3> QED BY <3>1, <3>3 DEF Serves
  <2>10. Serves(k, b, ptr, size)
    BY <2>2, <2>5
  <2>11. IsList(cut.mem, cut.head) /\ IsList(k, cut.head)
    BY <2>5, <2>6
  <2>12. Leave(cut, k, With(ptr, size))
    BY <2>1, <2>6
  <2> QED BY <2>1, <2>5, <2>8, <2>9, <2>10, <2>11, <2>12, ResizeKeeps
<1> QED BY <1>2, <1>3

\* The heap that adjustDataBreak leaves, with another list.
LEMMA GrownWith ==
    ASSUME NEW size, NEW k
    PROVE  LET g == AdjustDataBreak(heap, size)
               h == [g EXCEPT !.mem = k]
           IN h.head = g.head /\ h.avail = g.avail /\ h.brk = g.brk /\ h.mem = k
BY DEF AdjustDataBreak, heap

LEMMA ReallocExpandKeeps ==
    ASSUME IInv, NEW ptr \in DOMAIN live, NEW size \in Size, ReallocExpand(ptr, size)
    PROVE  IInv' /\ [Clients!Next]_live
<1> DEFINE b == Owner(heap, ptr)
           g == AdjustDataBreak(heap, size)
           larger == mem[b].dataSize + size
           k == AllocateMemoryAt(mem, b, larger)
           h == [g EXCEPT !.mem = k]
<1>0. size \in Nat
  BY SizeAssumption
<1>1. Serves(mem, b, ptr, live[ptr])
  BY OwnerServes
<1>2. CASE UNCHANGED vars
  BY <1>2, StutterKeeps
<1>3. CASE ~UNCHANGED vars
  <2>1. /\ mem[b].isLast /\ SbrkMaySucceed(heap, size)
        /\ Leave(h, k, With(ptr, size)) /\ UNCHANGED status
    BY <1>3 DEF ReallocExpand
  <2> HIDE DEF b
  <2>2. b \in DOMAIN mem /\ mem[b].data = ptr
    BY <1>1 DEF Serves
  <2>3. IsList(mem, mallocListHead) /\ Apart(mem)
    BY DEF IInv
  <2>4. mem[b].dataSize \in Nat /\ larger \in Nat /\ larger >= size
    <3>1. mem[b].dataSize \in Nat
      BY <2>2, <2>3, BlockFacts
    <3> QED BY <1>0, <3>1
  <2>5. mallocListHead # NULL
    BY <2>2, <2>3 DEF IsList
  <2>6. BreakOK(g) /\ g.head = HeapStart
    BY <1>0, <2>1, <2>5, AdjustKeeps
  <2>7. mallocListHead = HeapStart
    BY <2>5, Types
  <2> HIDE DEF larger
  <2>8. /\ IsList(k, HeapStart) /\ Apart(k)
        /\ Serves(k, b, ptr, larger)
        /\ \A a, q : \A s \in Nat : a # b /\ Serves(mem, a, q, s) => Serves(k, a, q, s)
    BY <2>1, <2>2, <2>3, <2>4, <2>7, ExpandKeeps
  <2>9. h.head = g.head /\ h.avail = g.avail /\ h.brk = g.brk /\ h.mem = k
    BY GrownWith
  <2> HIDE DEF g, h, k
  <2>10. BreakOK(h) /\ IsList(h.mem, h.head) /\ IsList(k, h.head)
    BY <2>6, <2>8, <2>9 DEF BreakOK
  <2>11. Serves(k, b, ptr, size)
    <3>1. b \in DOMAIN k /\ k[b].dataSize \in Nat
      BY <2>8, BlockFacts DEF Serves
    <3>2. k[b].dataSize >= larger
      BY <2>8 DEF Serves
    <3>3. k[b].dataSize >= size
      BY <1>0, <2>4, <3>1, <3>2
    <3> QED BY <2>8, <3>3 DEF Serves
  <2>12. ASSUME NEW q \in DOMAIN live, q # ptr
         PROVE  \E a \in DOMAIN k : a # b /\ Serves(k, a, q, live[q])
    <3>1. PICK a \in DOMAIN mem : a # b /\ Serves(mem, a, q, live[q])
      BY <1>1, <2>12, OthersElsewhere
    <3>2. live[q] \in Nat
      BY Types
    <3>3. Serves(k, a, q, live[q])
      BY <2>8, <3>1, <3>2
    <3> QED BY <3>1, <3>3 DEF Serves
  <2> QED BY <2>1, <2>8, <2>10, <2>11, <2>12, ResizeKeeps
<1> QED BY <1>2, <1>3

LEMMA ReallocMoveKeeps ==
    ASSUME IInv, NEW ptr \in DOMAIN live, NEW size \in Size, ReallocMove(ptr, size)
    PROVE  IInv' /\ [Clients!Next]_live
<1> DEFINE got == Placed(heap, size)
           h == got.heap
           d == got.data
           old == Owner(h, ptr)
           k == Freed(h.mem, old)
           f == Without(With(d, size), ptr)
<1>0. size \in Nat
  BY SizeAssumption
<1>1. CASE UNCHANGED vars
  BY <1>1, StutterKeeps
<1>2. CASE Die
  BY <1>2, DieKeeps
<1>3. CASE ~UNCHANGED vars /\ ~Die
  <2>1. /\ SbrkMaySucceed(heap, size + HeaderSize)
        /\ Leave(h, k, f) /\ UNCHANGED status
    BY <1>3 DEF ReallocMove
  <2>2. /\ HeapOK(h) /\ h.head = HeapStart
        /\ \E n : Offers(h.mem, live, n, d, size)
    BY <1>0, <2>1, PlacedKeeps
  <2> HIDE DEF got, h, d
  <2>3. PICK n : Offers(h.mem, live, n, d, size)
    BY <2>2
  <2>4. BreakOK(h) /\ IsList(h.mem, h.head) /\ Apart(h.mem)
    BY <2>2 DEF HeapOK
  <2>5. \A p \in DOMAIN live : live[p] \in Size /\ live[p] \in Nat
    BY Types
  <2>6. /\ d \notin DOMAIN live /\ d \in Nat
        /\ \A q \in DOMAIN live : ~Clients!Clash(d, size, q, live[q])
    BY <1>0, <2>3, <2>4, <2>5, OffersClear
  <2>7. PICK a \in DOMAIN h.mem : a # n /\ Serves(h.mem, a, ptr, live[ptr])
    BY <2>3 DEF Offers
  <2>8. old = a
    <3>1. ptr \in Nat
      BY DEF IInv, TypeOK
    <3>2. live[ptr] \in Nat
      BY <2>5
    <3>3. ptr <= ptr /\ ptr <= ptr + live[ptr]
      BY <3>1, <3>2
    <3> QED BY <2>4, <2>7, <3>1, <3>2, <3>3, OwnerFinds
  <2>9. old \in DOMAIN h.mem /\ ~h.mem[old].isFree
    BY <2>7, <2>8 DEF Serves
  <2> HIDE DEF old
  <2>10. /\ IsList(k, h.head) /\ Apart(k)
         /\ \A x, q : \A s \in Nat : x # old /\ Serves(h.mem, x, q, s) => Serves(k, x, q, s)
    BY <2>4, <2>9, FreedKeeps
  <2>11. /\ mallocListHead' = h.head /\ availableMemoryInChunk' = h.avail /\ brk' = h.brk
         /\ mem' = k /\ touched' = Larger(touched, Top(h.mem)) /\ live' = f
    BY <2>1 DEF Leave, SetBreak
  <2>12. /\ DOMAIN f = (DOMAIN live \ {ptr}) \cup {d} /\ f[d] = size
         /\ \A q \in DOMAIN live : q # ptr => f[q] = live[q]
    BY <2>6 DEF With, Without
  <2>13. live' = Clients!Given(Clients!Kept(ptr), d, size)
    <3>1. f = Clients!Given(Clients!Kept(ptr), d, size)
      BY <2>6 DEF With, Without, Clients!Given, Clients!Kept
    <3> QED BY <2>11, <3>1
  <2> HIDE DEF f, k
  <2>14. Holds(k, f)
    <3> SUFFICES ASSUME NEW q \in DOMAIN f
                 PROVE  \E x \in DOMAIN k : Serves(k, x, q, f[q])
      BY DEF Holds
    <3>1. CASE q = d
      <4>1. Serves(h.mem, n, d, size) /\ n # old
        BY <2>3, <2>7, <2>8 DEF Offers
      <4>2. Serves(k, n, d, size)
        BY <1>0, <2>10, <4>1
      <4> QED BY <2>12, <3>1, <4>2 DEF Serves
    <3>2. CASE q \in DOMAIN live /\ q # ptr
      <4>1. PICK x \in DOMAIN h.mem : x # n /\ Serves(h.mem, x, q, live[q])
        BY <2>3, <3>2 DEF Offers
      <4>2. x # old
        BY <2>7, <2>8, <3>2, <4>1 DEF Serves
      <4>3. Serves(k, x, q, live[q])
        BY <2>5, <2>10, <3>2, <4>1, <4>2
      <4> QED BY <2>12, <3>2, <4>3 DEF Serves
    <3> QED BY <2>12, <3>1, <3>2
  <2>15. \A p \in DOMAIN f : f[p] \in Size
    BY <2>5, <2>12
  <2>16. status' \in {"running", "fault", "corrupt"}
    BY <2>1 DEF IInv, TypeOK
  <2>17. IInv'
    BY <2>4, <2>10, <2>11, <2>14, <2>15, <2>16, LeaveKeeps
  <2>18. d \in DOMAIN live' \ DOMAIN live
    BY <2>6, <2>11, <2>12
  <2>19. Clients!Resize(ptr, size)
    BY <2>6, <2>13, <2>18 DEF Clients!Resize
  <2> QED BY <2>17, <2>19 DEF Clients!Next
<1> QED BY <1>1, <1>2, <1>3

LEMMA MallocKeeps ==
    ASSUME IInv, NEW size \in Size, Malloc(size) \/ Calloc(size)
    PROVE  IInv' /\ [Clients!Next]_live
<1>1. CASE UNCHANGED vars
  BY <1>1, StutterKeeps
<1>2. CASE Die
  BY <1>2, DieKeeps
<1>3. CASE ~UNCHANGED vars /\ ~Die
  <2>1. /\ SbrkMaySucceed(heap, size + HeaderSize)
        /\ Leave(Placed(heap, size).heap, Placed(heap, size).heap.mem,
                 With(Placed(heap, size).data, size))
        /\ UNCHANGED status
    BY <1>3 DEF Malloc, Calloc
  <2> QED BY <2>1, GiveKeeps
<1> QED BY <1>1, <1>2, <1>3

LEMMA InitHolds == Init => IInv
<1> SUFFICES ASSUME Init PROVE IInv
  OBVIOUS
<1>1. DOMAIN mem = {} /\ DOMAIN live = {} /\ mallocListHead = NULL
      /\ mem = [a \in {} |-> NULL]
  BY DEF Init
<1>2. HeapStart \in Nat /\ (ChunkA - 1) * ChunkB \in Nat
  <2>1. HeapStart \in Nat /\ ChunkA - 1 \in Nat /\ ChunkB \in Nat
    BY LayoutAssumption
  <2> QED BY <2>1, ProductInNat
<1>3. TypeOK
  <2>1. HeapStart \in HeapStart .. HeapLimit
    BY <1>2, BoundAssumption
  <2>2. 0 \in 0 .. (ChunkA - 1) * ChunkB
    BY <1>2
  <2> QED BY <1>1, <1>2, <2>1, <2>2 DEF Init, TypeOK
<1>4. mem \in [DOMAIN mem -> Header]
  BY <1>1
<1>5. IsList(mem, mallocListHead)
  BY <1>1, <1>4 DEF IsList
<1>6. Apart(mem) /\ Holds(mem, live)
  BY <1>1 DEF Apart, Holds
<1>7. Untouched
  BY DEF Init, Untouched
<1> QED BY <1>3, <1>5, <1>6, <1>7 DEF IInv

LEMMA StepKeeps == Inv /\ [Next]_vars => Inv' /\ [NoFalseHeader => Clients!Next]_live
<1> SUFFICES ASSUME Inv, [Next]_vars
             PROVE  Inv' /\ [NoFalseHeader => Clients!Next]_live
  OBVIOUS
<1>1. CASE ~NoFalseHeader
  <2>1. Stray \/ UNCHANGED vars
    BY <1>1 DEF NoFalseHeader, Next, Malloc, Calloc, Free, ReallocInPlace,
                ReallocExpand, ReallocMove
  <2>2. CASE Stray
    BY <1>1, <2>2, StrayKeeps DEF Inv
  <2>3. CASE UNCHANGED vars
    <3>1. TypeOK' /\ ~NoFalseHeader'
      BY <1>1, <2>3 DEF Inv, vars, TypeOK, NoFalseHeader
    <3> QED BY <1>1, <3>1 DEF Inv
  <2> QED BY <2>1, <2>2, <2>3
<1>2. CASE NoFalseHeader
  <2> USE <1>2 DEF Inv
  <2>1. IInv
    OBVIOUS
  <2>2. IInv' => Inv'
    BY DEF IInv
  <2> SUFFICES Inv' /\ [Clients!Next]_live
    OBVIOUS
  <2> HIDE DEF Inv
  <2>3. CASE UNCHANGED vars
    BY <2>1, <2>2, <2>3, StutterKeeps
  <2>4. ASSUME NEW size \in Size, Malloc(size) \/ Calloc(size)
        PROVE  Inv' /\ [Clients!Next]_live
    BY <2>1, <2>2, <2>4, MallocKeeps
  <2>5. ASSUME NEW ptr \in DOMAIN live, Free(ptr)
        PROVE  Inv' /\ [Clients!Next]_live
    BY <2>1, <2>5, FreeKeeps
  <2>6. ASSUME NEW ptr \in DOMAIN live, NEW size \in Size, ReallocInPlace(ptr, size)
        PROVE  Inv' /\ [Clients!Next]_live
    BY <2>1, <2>2, <2>6, ReallocInPlaceKeeps
  <2>7. ASSUME NEW ptr \in DOMAIN live, NEW size \in Size, ReallocExpand(ptr, size)
        PROVE  Inv' /\ [Clients!Next]_live
    BY <2>1, <2>2, <2>7, ReallocExpandKeeps
  <2>8. ASSUME NEW ptr \in DOMAIN live, NEW size \in Size, ReallocMove(ptr, size)
        PROVE  Inv' /\ [Clients!Next]_live
    BY <2>1, <2>2, <2>8, ReallocMoveKeeps
  <2>9. ~Stray
    BY DEF Stray, NoFalseHeader
  <2> QED BY <2>3, <2>4, <2>5, <2>6, <2>7, <2>8, <2>9 DEF Next
<1> QED BY <1>1, <1>2

-----------------------------------------------------------------------------
(***************************************************************************)
(* Theorems.                                                               *)
(***************************************************************************)
\* The list in address order, its free blocks apart and a block for every
\* pointer, in every reachable state of malloc.c's calls up to the one in which
\* free takes client bytes for a header.
THEOREM Invariance == Spec => []Inv
<1>1. Init => Inv
  BY InitHolds DEF Inv, IInv
<1>2. Inv /\ [Next]_vars => Inv'
  BY StepKeeps
<1> QED BY <1>1, <1>2, PTL DEF Spec

\* Every variable keeps its type; what adjustDataBreak believes to be available
\* stays less than a chunk.
THEOREM TypeCorrect == Spec => []TypeOK
<1>1. Inv => TypeOK
  BY DEF Inv
<1> QED BY <1>1, Invariance, PTL

\* The headers are one list in address order, whatever was merged, cut and
\* grown, until free reads a false header.
THEOREM ListInOrder == Spec => []BlocksInOrder
<1>1. ASSUME Inv PROVE BlocksInOrder
  <2> SUFFICES ASSUME IInv PROVE BlocksInOrder
    BY <1>1 DEF Inv, BlocksInOrder
  <2>1. IsList(mem, mallocListHead)
    BY DEF IInv
  <2>2. (mallocListHead = NULL) <=> (DOMAIN mem = {})
    BY <2>1 DEF IsList
  <2>3. ASSUME NEW a \in DOMAIN mem
        PROVE  /\ mem[a].data = DataAt(a) /\ mem[a].data % Alignment = 0
               /\ mem[a].data + mem[a].dataSize <= mem[a].next
               /\ ~mem[a].isLast => mem[a].next \in DOMAIN mem
               /\ a # mallocListHead => \E p \in DOMAIN mem : Previous(mem, a) = {p}
    <3>1. /\ a \in Nat /\ mem[a].data = DataAt(a)
          /\ DataAt(a) + mem[a].dataSize <= mem[a].next
      BY <2>1, BlockFacts
    <3>2. DataAt(a) % Alignment = 0
      BY <3>1, DataBehindHeader
    <3>3. ~mem[a].isLast => mem[a].next \in DOMAIN mem
      BY <2>1 DEF IsList
    <3>4. a # mallocListHead => \E p \in DOMAIN mem : Previous(mem, a) = {p}
      BY <2>1, Below
    <3> QED BY <3>1, <3>2, <3>3, <3>4
  <2>4. Cardinality({a \in DOMAIN mem : mem[a].isLast})
            = IF DOMAIN mem = {} THEN 0 ELSE 1
    <3>1. CASE DOMAIN mem = {}
      <4>1. {a \in DOMAIN mem : mem[a].isLast} = {}
        BY <3>1
      <4> QED BY <3>1, <4>1, FS_EmptySet
    <3>2. CASE DOMAIN mem # {}
      <4>1. PICK z \in DOMAIN mem : mem[z].isLast
        BY <2>1, <3>2 DEF IsList
      <4>2. \A a \in DOMAIN mem : a # z => ~mem[a].isLast
        BY <2>1, <4>1, LastIsHighest
      <4>3. {a \in DOMAIN mem : mem[a].isLast} = {z}
        BY <4>1, <4>2
      <4> QED BY <3>2, <4>3, FS_Singleton
    <3> QED BY <3>1, <3>2
  <2> QED BY <2>2, <2>3, <2>4 DEF BlocksInOrder
<1> QED BY <1>1, Invariance, PTL

\* findOwnerBlock leads from a pointer, and from the last byte it may use, to a
\* block in use that nobody else's pointer leads to, until free reads a false
\* header.
THEOREM PointersOwned == Spec => []LivePointersOwned
<1>1. ASSUME Inv PROVE LivePointersOwned
  <2> SUFFICES ASSUME IInv, NEW p \in DOMAIN live
               PROVE  LET b == Owner(heap, p) IN
                      /\ Owner(heap, p + live[p]) = b
                      /\ mem[b].data = p /\ ~mem[b].isFree
                      /\ mem[b].dataSize >= live[p]
    BY <1>1 DEF Inv, LivePointersOwned
  <2> DEFINE b == Owner(heap, p)
  <2>1. Serves(mem, b, p, live[p])
    BY OwnerServes
  <2> HIDE DEF b
  <2>2. IsList(heap.mem, heap.head) /\ Serves(heap.mem, b, p, live[p])
    BY <2>1 DEF IInv, heap
  <2>3. p \in Nat /\ live[p] \in Nat
    BY Types DEF IInv, TypeOK
  <2>4. p + live[p] \in Nat /\ p <= p + live[p] /\ p + live[p] <= p + live[p]
    BY <2>3
  <2>5. Owner(heap, p + live[p]) = b
    BY <2>2, <2>3, <2>4, OwnerFinds
  <2> QED BY <2>1, <2>5 DEF Serves, b
<1> QED BY <1>1, Invariance, PTL

\* Nothing that free could merge is left unmerged, until it reads a false header.
THEOREM FreeBlocksApart == Spec => []NoFreeNeighbours
<1>1. Inv => NoFreeNeighbours
  BY DEF Inv, IInv, Apart, NoFreeNeighbours
<1> QED BY <1>1, Invariance, PTL

\* What clients see of malloc.c is the abstract allocator, up to and including
\* the call in which free takes client bytes for a header.
THEOREM Implements == Spec => AllocatesUntilCorrupt
<1>1. Init => Clients!Init
  BY DEF Init, Clients!Init
<1>2. Inv /\ [Next]_vars => [NoFalseHeader => Clients!Next]_live
  BY StepKeeps
<1> QED BY <1>1, <1>2, Invariance, PTL DEF Spec, AllocatesUntilCorrupt
=============================================================================
