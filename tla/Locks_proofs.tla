---------------------------- MODULE Locks_proofs ----------------------------
(***************************************************************************)
(* The locks of Locks for every number of threads and locks, and whatever  *)
(* the lists have come to: what list_insert and list_remove do to the      *)
(* memory of the list elements, pointer by pointer, and what a walk over a *)
(* list can meet; mutual exclusion; types; what a contended lock_acquire   *)
(* leaves of the lists, and why a contended lock is never handed over.     *)
(***************************************************************************)
EXTENDS Locks, QueueLemmas, FiniteSetTheorems

Elem == [prev : Node \union {NULL}, next : Node \union {NULL}]

\* The lists that link threads, and those that link locks.
ThreadList == {ready_list} \union {waiters(l) : l \in Lock}
                  \union {sema_waiters(s) : s \in Sema}
HeldList == {locks_held(t) : t \in Thread}

Heads(lists) == {head(list) : list \in lists}
Ends(lists) == {tail(list) : list \in lists}

\* The elements E that have been on a list, where all lists that E can be on
\* are in `lists': their pointers, and those of the heads and tails, lead
\* to such elements, heads and tails, never to NULL.
Linked(m, E) == {e \in E : m[e].next # NULL}
Sound(m, E, lists) ==
    /\ \A n \in Linked(m, E) \union Heads(lists) :
           m[n].next \in Linked(m, E) \union Ends(lists)
    /\ \A n \in Linked(m, E) \union Ends(lists) :
           m[n].prev \in Linked(m, E) \union Heads(lists)

LinkOK(m) ==
    /\ m \in [Node -> Elem]
    /\ Sound(m, Thread, ThreadList)
    /\ Sound(m, Lock, HeldList)

-----------------------------------------------------------------------------
(* Which nodes are the same.                                               *)

\* Two lists are the same only if they are called the same.
LEMMA ListNames ==
  /\ \A l : waiters(l) # ready_list /\ sema_waiters(l) # ready_list
            /\ locks_held(l) # ready_list
  /\ \A l, k : waiters(l) # sema_waiters(k) /\ waiters(l) # locks_held(k)
               /\ sema_waiters(l) # locks_held(k)
  /\ \A l, k : (waiters(l) = waiters(k) => l = k)
               /\ (sema_waiters(l) = sema_waiters(k) => l = k)
               /\ (locks_held(l) = locks_held(k) => l = k)
BY DEF waiters, sema_waiters, locks_held, ready_list

\* Heads and tails of lists differ from each other.
LEMMA HeadNotTail ==
  /\ \A x, y : head(x) # tail(y)
  /\ \A x, y : head(x) = head(y) => x = y
  /\ \A x, y : tail(x) = tail(y) => x = y
BY DEF head, tail

\* Threads and locks link to lists of their own.
LEMMA Kinds ==
  /\ List = ThreadList \union HeldList
  /\ ThreadList \intersect HeldList = {}
  /\ Tails = Ends(ThreadList) \union Ends(HeldList)
  /\ Node = Thread \union Lock \union Tails \union Heads(List)
  /\ Heads(List) = Heads(ThreadList) \union Heads(HeldList)
<1>1. List = ThreadList \union HeldList
  BY DEF List, ThreadList, HeldList
<1>2. ThreadList \intersect HeldList = {}
  BY ListNames DEF ThreadList, HeldList
<1> QED BY <1>1, <1>2 DEF Tails, Ends, Heads, Node

\* A node is one thing only.
LEMMA NodesApart ==
  /\ \A t \in Thread : t \notin Lock /\ t \notin Tails /\ t \notin Heads(List) /\ t # NULL
  /\ \A l \in Lock : l \notin Tails /\ l \notin Heads(List) /\ l # NULL
  /\ \A n \in Tails : n \notin Heads(List) /\ n # NULL
  /\ \A n \in Heads(List) : n # NULL
  /\ Ends(ThreadList) \intersect Ends(HeldList) = {}
  /\ Heads(ThreadList) \intersect Heads(HeldList) = {}
  /\ NULL \notin Node
<1>1. \A n \in Tails : n \notin Heads(List)
  BY HeadNotTail DEF Tails, Heads
<1>2. \A n \in Tails \union Heads(List) : n \notin Thread /\ n \notin Lock /\ n # NULL
  BY NodeAssumption DEF Heads
<1>3. /\ Ends(ThreadList) \intersect Ends(HeldList) = {}
      /\ Heads(ThreadList) \intersect Heads(HeldList) = {}
  BY Kinds, HeadNotTail DEF Ends, Heads
<1>4. NULL \notin Thread \union Lock
  BY DistinctAssumption
<1>5. NULL \notin Node
  BY <1>2, <1>4, Kinds
<1> QED BY <1>1, <1>2, <1>3, <1>4, <1>5, DistinctAssumption

-----------------------------------------------------------------------------
(* list_insert and list_remove, pointer by pointer.                        *)

\* What list_insert leaves.
LEMMA InsertEffect ==
  ASSUME NEW m \in [Node -> Elem], NEW before \in Node, NEW elem \in Node,
         m[before].prev \in Node, elem # before
  PROVE  LET r == list_insert(m, before, elem)
             p == m[before].prev
         IN /\ r \in [Node -> Elem]
            /\ \A n \in Node :
                   /\ r[n].next = IF n = p THEN elem
                                  ELSE IF n = elem THEN before ELSE m[n].next
                   /\ r[n].prev = IF n = before THEN elem
                                  ELSE IF n = elem THEN p ELSE m[n].prev
<1> DEFINE p == m[before].prev
           m1 == [m EXCEPT ![elem] = [prev |-> p, next |-> before]]
           m2 == [m1 EXCEPT ![p].next = elem]
           m3 == [m2 EXCEPT ![before].prev = elem]
<1>1. list_insert(m, before, elem) = m3
  BY DEF list_insert
<1>2. m1 \in [Node -> Elem] /\ m1[elem].next = before /\ m1[elem].prev = p
      /\ \A n \in Node \ {elem} : m1[n] = m[n]
  BY DEF Elem
<1> HIDE DEF m1
<1>3. m2 \in [Node -> Elem]
      /\ m2[p].next = elem /\ m2[p].prev = m1[p].prev
      /\ \A n \in Node \ {p} : m2[n] = m1[n]
  BY <1>2 DEF Elem
<1> HIDE DEF m2
<1>4. m3 \in [Node -> Elem]
      /\ m3[before].prev = elem /\ m3[before].next = m2[before].next
      /\ \A n \in Node \ {before} : m3[n] = m2[n]
  BY <1>3 DEF Elem
<1> HIDE DEF m3
<1>5. ASSUME NEW n \in Node
      PROVE  /\ m3[n].next = IF n = p THEN elem
                             ELSE IF n = elem THEN before ELSE m[n].next
             /\ m3[n].prev = IF n = before THEN elem
                             ELSE IF n = elem THEN p ELSE m[n].prev
  BY <1>2, <1>3, <1>4
<1> QED BY <1>1, <1>4, <1>5

\* What list_remove leaves.
LEMMA RemoveEffect ==
  ASSUME NEW m \in [Node -> Elem], NEW elem \in Node,
         m[elem].prev \in Node, m[elem].next \in Node
  PROVE  LET r == list_remove(m, elem)
         IN /\ r \in [Node -> Elem]
            /\ \A n \in Node :
                   /\ r[n].next = IF n = m[elem].prev THEN m[elem].next ELSE m[n].next
                   /\ r[n].prev = IF n = m[elem].next THEN m[elem].prev ELSE m[n].prev
<1> DEFINE p == m[elem].prev
           q == m[elem].next
           m1 == [m EXCEPT ![p].next = q]
           m2 == [m1 EXCEPT ![q].prev = p]
<1>1. list_remove(m, elem) = m2
  BY DEF list_remove
<1>2. m1 \in [Node -> Elem]
      /\ m1[p].next = q /\ m1[p].prev = m[p].prev
      /\ \A n \in Node \ {p} : m1[n] = m[n]
  BY DEF Elem
<1> HIDE DEF m1
<1>3. m2 \in [Node -> Elem]
      /\ m2[q].prev = p /\ m2[q].next = m1[q].next
      /\ \A n \in Node \ {q} : m2[n] = m1[n]
  BY <1>2 DEF Elem
<1> HIDE DEF m2
<1>4. ASSUME NEW n \in Node
      PROVE  /\ m2[n].next = IF n = p THEN q ELSE m[n].next
             /\ m2[n].prev = IF n = q THEN p ELSE m[n].prev
  BY <1>2, <1>3
<1> QED BY <1>1, <1>3, <1>4

-----------------------------------------------------------------------------
(* Sound pointers stay sound.                                              *)

IsSide(E, lists) ==
    \/ E = Thread /\ lists = ThreadList
    \/ E = Lock /\ lists = HeldList

Side(E, lists) == E \union Heads(lists) \union Ends(lists)

\* The parts of a side, and what is on the other one.
LEMMA SideParts ==
  ASSUME NEW E, NEW lists, IsSide(E, lists)
  PROVE  /\ Side(E, lists) \subseteq Node
         /\ \A n \in E : n \notin Heads(lists) /\ n \notin Ends(lists)
         /\ \A n \in Heads(lists) : n \notin E /\ n \notin Ends(lists)
         /\ NULL \notin Side(E, lists)
         /\ Ends(lists) \subseteq Tails
         /\ \A n \in E : n \notin Tails
         /\ E \subseteq Thread \union Lock
<1>1. CASE E = Thread /\ lists = ThreadList
  BY <1>1, Kinds, NodesApart DEF Side
<1>2. CASE E = Lock /\ lists = HeldList
  BY <1>2, Kinds, NodesApart DEF Side
<1> QED BY <1>1, <1>2 DEF IsSide

\* A change of one side's pointers that keeps it sound keeps all sound.
LEMMA OtherSideSound ==
  ASSUME NEW E, NEW lists, IsSide(E, lists), NEW m, LinkOK(m),
         NEW r \in [Node -> Elem], Sound(r, E, lists),
         \A n \in Node \ Side(E, lists) :
             r[n].next = m[n].next /\ r[n].prev = m[n].prev
  PROVE  LinkOK(r)
<1>1. ASSUME NEW F, NEW others, IsSide(F, others), Sound(m, F, others),
             Side(F, others) \intersect Side(E, lists) = {}
      PROVE  Sound(r, F, others)
  <2>1. \A n \in Side(F, others) : r[n].next = m[n].next /\ r[n].prev = m[n].prev
    BY <1>1, SideParts
  <2>2. Linked(r, F) = Linked(m, F)
    BY <2>1 DEF Linked, Side
  <2>3. Linked(m, F) \subseteq Side(F, others)
    BY DEF Linked, Side
  <2> QED BY <1>1, <2>1, <2>2, <2>3 DEF Sound, Side
<1>2. Side(Lock, HeldList) \intersect Side(Thread, ThreadList) = {}
  BY Kinds, NodesApart DEF Side
<1>3. IsSide(Thread, ThreadList) /\ IsSide(Lock, HeldList)
  BY DEF IsSide
<1>4. CASE E = Thread /\ lists = ThreadList
  BY <1>1, <1>2, <1>3, <1>4 DEF LinkOK
<1>5. CASE E = Lock /\ lists = HeldList
  BY <1>1, <1>2, <1>3, <1>5 DEF LinkOK
<1> QED BY <1>4, <1>5 DEF IsSide

\* The side's own part of LinkOK.
LEMMA SideSound ==
  ASSUME NEW E, NEW lists, IsSide(E, lists), NEW m, LinkOK(m)
  PROVE  Sound(m, E, lists) /\ m \in [Node -> Elem]
BY DEF LinkOK, IsSide

\* list_insert of elem before an element met on a list.
LEMMA InsertSound ==
  ASSUME NEW E, NEW lists, IsSide(E, lists), NEW m, LinkOK(m),
         NEW before \in Linked(m, E) \union Ends(lists), NEW elem \in E, elem # before
  PROVE  LET r == list_insert(m, before, elem)
             p == m[before].prev
         IN /\ LinkOK(r)
            /\ p \in Linked(m, E) \union Heads(lists)
            /\ Linked(r, E) = Linked(m, E) \union {elem}
            /\ \A n \in Node \ Side(E, lists) :
                   r[n].next = m[n].next /\ r[n].prev = m[n].prev
            /\ \A n \in Node :
                   /\ r[n].next = IF n = p THEN elem
                                  ELSE IF n = elem THEN before ELSE m[n].next
                   /\ r[n].prev = IF n = before THEN elem
                                  ELSE IF n = elem THEN p ELSE m[n].prev
<1> DEFINE r == list_insert(m, before, elem)
           p == m[before].prev
<1>1. Sound(m, E, lists) /\ m \in [Node -> Elem]
  BY SideSound
<1>2. p \in Linked(m, E) \union Heads(lists)
  BY <1>1 DEF Sound
<1>3. {before, p, elem} \subseteq Side(E, lists)
  BY <1>2 DEF Side, Linked
<1>4. {before, p, elem} \subseteq Node
  BY <1>3, SideParts
<1>5. /\ r \in [Node -> Elem]
      /\ \A n \in Node :
             /\ r[n].next = IF n = p THEN elem
                            ELSE IF n = elem THEN before ELSE m[n].next
             /\ r[n].prev = IF n = before THEN elem
                            ELSE IF n = elem THEN p ELSE m[n].prev
  BY <1>1, <1>4, InsertEffect
<1> HIDE DEF r, p
<1>6. elem # NULL /\ before # NULL
  BY <1>3, SideParts
<1>7. Linked(r, E) = Linked(m, E) \union {elem}
  <2>1. \A n \in E : n \in Node
    BY SideParts DEF Side
  <2>2. \A n \in E : r[n].next # NULL <=> m[n].next # NULL \/ n = elem
    BY <1>2, <1>5, <1>6, <2>1, SideParts DEF Linked
  <2> QED BY <2>2 DEF Linked
<1>8. Sound(r, E, lists)
  <2>1. Linked(m, E) \union {elem} \union Heads(lists) \union Ends(lists) \subseteq Node
    BY SideParts DEF Side, Linked
  <2>2. ASSUME NEW n \in Linked(r, E) \union Heads(lists)
        PROVE  r[n].next \in Linked(r, E) \union Ends(lists)
    BY <1>1, <1>5, <1>7, <2>1 DEF Sound
  <2>3. ASSUME NEW n \in Linked(r, E) \union Ends(lists)
        PROVE  r[n].prev \in Linked(r, E) \union Heads(lists)
    BY <1>1, <1>2, <1>5, <1>7, <2>1 DEF Sound
  <2> QED BY <2>2, <2>3 DEF Sound
<1>9. \A n \in Node \ Side(E, lists) : r[n].next = m[n].next /\ r[n].prev = m[n].prev
  BY <1>3, <1>5
<1>10. LinkOK(r)
  BY <1>5, <1>8, <1>9, OtherSideSound
<1> QED BY <1>2, <1>5, <1>7, <1>9, <1>10 DEF r, p

\* list_remove of an element that has been on a list.
LEMMA RemoveSound ==
  ASSUME NEW E, NEW lists, IsSide(E, lists), NEW m, LinkOK(m), NEW elem \in Linked(m, E)
  PROVE  LET r == list_remove(m, elem)
             p == m[elem].prev
             q == m[elem].next
         IN /\ LinkOK(r)
            /\ p \in Linked(m, E) \union Heads(lists)
            /\ q \in Linked(m, E) \union Ends(lists)
            /\ Linked(r, E) = Linked(m, E)
            /\ \A n \in Node \ Side(E, lists) :
                   r[n].next = m[n].next /\ r[n].prev = m[n].prev
            /\ \A n \in Node :
                   /\ r[n].next = IF n = p THEN q ELSE m[n].next
                   /\ r[n].prev = IF n = q THEN p ELSE m[n].prev
<1> DEFINE r == list_remove(m, elem)
           p == m[elem].prev
           q == m[elem].next
<1>1. Sound(m, E, lists) /\ m \in [Node -> Elem]
  BY SideSound
<1>2. p \in Linked(m, E) \union Heads(lists) /\ q \in Linked(m, E) \union Ends(lists)
  BY <1>1 DEF Sound
<1>3. {elem, p, q} \subseteq Side(E, lists)
  BY <1>2 DEF Side, Linked
<1>4. {elem, p, q} \subseteq Node
  BY <1>3, SideParts
<1>5. /\ r \in [Node -> Elem]
      /\ \A n \in Node :
             /\ r[n].next = IF n = p THEN q ELSE m[n].next
             /\ r[n].prev = IF n = q THEN p ELSE m[n].prev
  BY <1>1, <1>4, RemoveEffect
<1> HIDE DEF r, p, q
<1>6. q # NULL
  BY <1>3, SideParts
<1>7. Linked(r, E) = Linked(m, E)
  <2>1. \A n \in E : n \in Node
    BY SideParts DEF Side
  <2>2. \A n \in E : r[n].next # NULL <=> m[n].next # NULL
    BY <1>2, <1>5, <1>6, <2>1, SideParts DEF Linked
  <2> QED BY <2>2 DEF Linked
<1>8. Sound(r, E, lists)
  <2>1. Linked(m, E) \union Heads(lists) \union Ends(lists) \subseteq Node
    BY SideParts DEF Side, Linked
  <2>2. ASSUME NEW n \in Linked(r, E) \union Heads(lists)
        PROVE  r[n].next \in Linked(r, E) \union Ends(lists)
    BY <1>1, <1>2, <1>5, <1>7, <2>1 DEF Sound
  <2>3. ASSUME NEW n \in Linked(r, E) \union Ends(lists)
        PROVE  r[n].prev \in Linked(r, E) \union Heads(lists)
    BY <1>1, <1>2, <1>5, <1>7, <2>1 DEF Sound
  <2> QED BY <2>2, <2>3 DEF Sound
<1>9. \A n \in Node \ Side(E, lists) : r[n].next = m[n].next /\ r[n].prev = m[n].prev
  BY <1>3, <1>5
<1>10. LinkOK(r)
  BY <1>5, <1>8, <1>9, OtherSideSound
<1> QED BY <1>2, <1>5, <1>7, <1>9, <1>10 DEF r, p, q

-----------------------------------------------------------------------------
(* Walks over a list.                                                      *)

\* What path goes through: from the head along `next', tails only at the end.
Walks(m, list, E, lists) ==
    {p \in Seq(Linked(m, E) \union Ends(lists)) :
        /\ p # <<>>
        /\ p[1] = begin(m, list)
        /\ \A i \in 1..(Len(p) - 1) : p[i] \in Linked(m, E) /\ p[i + 1] = m[p[i]].next}

\* Where a walk stops of itself.
Over(p) == Last(p) \in Tails \/ \E i \in 1..(Len(p) - 1) : p[i] = Last(p)

\* One step of a walk.
Further(m, p) == IF Over(p) THEN p ELSE Append(p, m[Last(p)].next)

\* The front of a list, and its elements.
LEMMA FrontFacts ==
  ASSUME NEW S, NEW p \in Seq(S), p # <<>>
  PROVE  /\ Len(p) \in Nat \ {0} /\ Last(p) = p[Len(p)] /\ Last(p) \in S
         /\ Front(p) \in Seq(S) /\ Len(Front(p)) = Len(p) - 1
         /\ \A i \in 1..(Len(p) - 1) : Front(p)[i] = p[i] /\ p[i] \in S
         /\ Range(Front(p)) = {p[i] : i \in 1..(Len(p) - 1)}
<1>1. Len(p) \in Nat \ {0} /\ Last(p) = p[Len(p)] /\ Last(p) \in S
      /\ \A i \in 1..(Len(p) - 1) : p[i] \in S
  BY LenProperties, EmptySeq, ElementOfSeq DEF Last
<1>2. 1 \in 1..(Len(p) + 1) /\ Len(p) - 1 \in (1 - 1)..Len(p)
      /\ (Len(p) - 1) - 1 + 1 = Len(p) - 1
  BY <1>1
<1>3. Front(p) \in Seq(S) /\ Len(Front(p)) = Len(p) - 1
  BY <1>1, <1>2, SubSeqProperties DEF Front
<1>4. ASSUME NEW i \in 1..(Len(p) - 1)
      PROVE  Front(p)[i] = p[i]
  <2>1. Front(p)[i] = p[1 + i - 1] /\ 1 + i - 1 = i
    BY <1>1, <1>2, SubSeqProperties DEF Front
  <2> QED BY <2>1
<1>5. DOMAIN Front(p) = 1..(Len(p) - 1)
  BY <1>3, LenProperties
<1>6. Range(Front(p)) = {p[i] : i \in 1..(Len(p) - 1)}
  BY <1>4, <1>5 DEF Range
<1> QED BY <1>1, <1>3, <1>4, <1>6

\* A walk goes on as a walk.
LEMMA FurtherWalks ==
  ASSUME NEW E, NEW lists, IsSide(E, lists), NEW m, LinkOK(m), NEW list \in lists,
         NEW p \in Walks(m, list, E, lists)
  PROVE  /\ Further(m, p) \in Walks(m, list, E, lists)
         /\ Len(p) \in Nat \ {0}
         /\ ~Over(p) => Len(Further(m, p)) = Len(p) + 1
<1> DEFINE V == Linked(m, E) \union Ends(lists)
<1>1. p \in Seq(V) /\ p # <<>> /\ p[1] = begin(m, list)
      /\ \A i \in 1..(Len(p) - 1) : p[i] \in Linked(m, E) /\ p[i + 1] = m[p[i]].next
  BY DEF Walks
<1>2. Len(p) \in Nat \ {0} /\ Last(p) = p[Len(p)] /\ Last(p) \in V
  BY <1>1, FrontFacts
<1>3. ASSUME ~Over(p)
      PROVE  Further(m, p) \in Walks(m, list, E, lists)
             /\ Len(Further(m, p)) = Len(p) + 1
  <2> DEFINE z == m[Last(p)].next
             r == Append(p, z)
  <2>1. Last(p) \in Linked(m, E)
    BY <1>2, <1>3, SideParts DEF Over
  <2>2. z \in V
    BY <2>1, SideSound DEF Sound
  <2> HIDE DEF V
  <2>3. r \in Seq(V) /\ Len(r) = Len(p) + 1 /\ r[Len(p) + 1] = z
        /\ \A i \in 1..Len(p) : r[i] = p[i]
    BY <1>1, <2>2, AppendProperties
  <2> HIDE DEF r, z
  <2>4. r # <<>> /\ r[1] = begin(m, list)
    BY <1>1, <1>2, <2>3, EmptySeq
  <2>5. ASSUME NEW i \in 1..(Len(r) - 1)
        PROVE  r[i] \in Linked(m, E) /\ r[i + 1] = m[r[i]].next
    <3>1. CASE i = Len(p)
      <4>1. r[i] = Last(p) /\ r[i + 1] = z
        BY <1>2, <2>3, <3>1
      <4> QED BY <2>1, <4>1 DEF z
    <3>2. CASE i # Len(p)
      <4>1. i \in 1..(Len(p) - 1) /\ i \in 1..Len(p) /\ i + 1 \in 1..Len(p)
        BY <1>2, <2>3, <3>2
      <4> QED BY <1>1, <2>3, <4>1
    <3> QED BY <3>1, <3>2
  <2>6. r \in Walks(m, list, E, lists)
    BY <2>3, <2>4, <2>5 DEF Walks, V
  <2> QED BY <1>3, <2>3, <2>6 DEF Further, r, z
<1> QED BY <1>2, <1>3 DEF Further

\* path is a walk, which stops of itself or has met as many elements as there
\* are.
LEMMA PathWalks ==
  ASSUME NEW E, NEW lists, IsSide(E, lists), NEW m, LinkOK(m), NEW list \in lists
  PROVE  LET p == path(m, list)
         IN /\ p \in Walks(m, list, E, lists)
            /\ Over(p) \/ Len(p) = Cardinality(Thread \union Lock) + 1
<1> DEFINE most == Cardinality(Thread \union Lock)
           S == Walks(m, list, E, lists)
           V == Linked(m, E) \union Ends(lists)
           c == <<begin(m, list)>>
           step == [p \in S |-> Further(m, p)]
           body(f, n) == IF n = 0 THEN c
                         ELSE LET p == f[n - 1]
                              IN IF Last(p) \in Tails \union Range(Front(p))
                                 THEN p
                                 ELSE Append(p, m[Last(p)].next)
           met == CHOOSE f : f = [n \in 0..most |-> body(f, n)]
<1>1. most \in Nat
  BY NodeAssumption, FS_CardinalityType
<1>2. c \in S
  <2>1. begin(m, list) \in V
    BY SideSound DEF Sound, begin, Heads
  <2>2. c \in Seq(V) /\ c # <<>> /\ Len(c) = 1 /\ c[1] = begin(m, list)
    BY <2>1
  <2> QED BY <2>2 DEF Walks
<1>3. step \in [S -> S]
  BY FurtherWalks
<1>4. ASSUME NEW p \in S
      PROVE  Over(p) <=> Last(p) \in Tails \union Range(Front(p))
  <2>1. p \in Seq(V) /\ p # <<>>
    BY DEF Walks
  <2>2. Range(Front(p)) = {p[i] : i \in 1..(Len(p) - 1)}
    BY <2>1, FrontFacts
  <2> QED BY <2>2 DEF Over
<1> HIDE DEF c, V, S, most, step
<1>0. PICK f : IsIteration(f, S, c, step, most)
  BY <1>1, <1>2, <1>3, Iterates
<1>5. f \in [0..most -> S] /\ f[0] = c /\ \A n \in 1..most : f[n] = step[f[n - 1]]
  BY <1>0 DEF IsIteration
<1>6. ASSUME NEW n \in 1..most, NEW g, g[n - 1] = f[n - 1]
      PROVE  body(g, n) = f[n]
  <2>1. n # 0 /\ n - 1 \in 0..most
    BY <1>1
  <2>2. f[n - 1] \in S
    BY <1>5, <2>1
  <2>3. f[n] = Further(m, f[n - 1])
    BY <1>5, <2>2 DEF step
  <2> QED BY <1>4, <1>6, <2>1, <2>2, <2>3 DEF Further
<1>7. f = [n \in 0..most |-> body(f, n)]
  <2>1. ASSUME NEW n \in 0..most
        PROVE  f[n] = body(f, n)
    <3>1. n = 0 \/ n \in 1..most
      BY <1>1
    <3> QED BY <1>5, <1>6, <3>1
  <2>2. f = [n \in 0..most |-> f[n]]
    BY <1>5
  <2> QED BY <2>1, <2>2
<1>8. met = [n \in 0..most |-> body(met, n)]
  BY <1>7
<1>9. path(m, list) = met[most]
  BY DEF path, most, c
<1> HIDE DEF met
<1>10. \A n \in 0..most : met[n] = f[n]
  <2>1. met[0] = f[0]
    <3>1. 0 \in 0..most
      BY <1>1
    <3> QED BY <1>5, <1>8, <3>1
  <2>2. ASSUME NEW n \in 1..most, met[n - 1] = f[n - 1]
        PROVE  met[n] = f[n]
    <3>1. n \in 0..most
      BY <1>1
    <3>2. met[n] = body(met, n)
      BY <1>8, <3>1
    <3> QED BY <1>6, <2>2, <3>2
  <2> HIDE DEF body
  <2>3. \A n \in 1..most : met[n - 1] = f[n - 1] => met[n] = f[n]
    BY <2>2
  <2> QED BY <1>1, <2>1, <2>3, IteratesUnique
<1> HIDE DEF body
<1>11. path(m, list) = f[most] /\ f[most] \in S
  BY <1>1, <1>5, <1>9, <1>10
<1>12. Over(f[most]) \/ Len(f[most]) = most + 1
  <2> DEFINE T == {n \in Nat : n <= most => Over(f[n]) \/ Len(f[n]) = n + 1}
  <2>1. 0 \in T
    <3>1. Len(c) = 1
      BY DEF c
    <3> QED BY <1>5, <3>1
  <2>2. ASSUME NEW n \in Nat, n \in T
        PROVE  n + 1 \in T
    <3>1. CASE n + 1 <= most
      <4>1. n \in 0..most /\ n + 1 \in 1..most /\ (n + 1) - 1 = n /\ n <= most
        BY <1>1, <3>1
      <4>2. f[n] \in S /\ f[n + 1] = Further(m, f[n])
        BY <1>5, <4>1 DEF step
      <4>3. /\ Over(f[n]) => f[n + 1] = f[n]
            /\ ~Over(f[n]) => Len(f[n + 1]) = Len(f[n]) + 1
        BY <4>2, FurtherWalks DEF Further, S
      <4>4. Over(f[n]) \/ Len(f[n]) = n + 1
        BY <2>2, <4>1
      <4> QED BY <4>3, <4>4
    <3> QED BY <3>1
  <2> HIDE DEF T
  <2>3. Nat \subseteq T
    BY <2>1, <2>2, NatSetInduction
  <2>4. most \in T
    BY <1>1, <2>3
  <2> QED BY <1>1, <2>4 DEF T
<1> QED BY <1>11, <1>12 DEF S, most

\* The elements, and the tail, that a walk over the list meets.
Met(m, list) == Range(path(m, list))

\* What is met follows the head or an element that is met.
LEMMA MetFacts ==
  ASSUME NEW E, NEW lists, IsSide(E, lists), NEW m, LinkOK(m), NEW list \in lists
  PROVE  /\ Met(m, list) \subseteq Linked(m, E) \union Ends(lists)
         /\ Last(path(m, list)) \in Met(m, list)
         /\ OnList(m, list) \subseteq Met(m, list) \intersect Linked(m, E)
         /\ \A i \in 1..(Len(path(m, list)) - 1) :
                path(m, list)[i] \in OnList(m, list)
         /\ \A b \in Met(m, list) :
                \/ b = begin(m, list)
                \/ \E n \in Linked(m, E) : n \in Met(m, list) /\ b = m[n].next
<1> DEFINE p == path(m, list)
           V == Linked(m, E) \union Ends(lists)
<1>1. /\ p \in Seq(V) /\ p # <<>> /\ p[1] = begin(m, list)
      /\ \A i \in 1..(Len(p) - 1) : p[i] \in Linked(m, E) /\ p[i + 1] = m[p[i]].next
  <2>1. p \in Walks(m, list, E, lists)
    BY PathWalks
  <2> HIDE DEF p
  <2> QED BY <2>1 DEF Walks
<1> HIDE DEF p, V
<1>2. /\ Len(p) \in Nat \ {0} /\ Last(p) = p[Len(p)]
      /\ Range(Front(p)) = {p[i] : i \in 1..(Len(p) - 1)}
  <2>1. p \in Seq(V) /\ p # <<>>
    BY <1>1
  <2> QED BY <2>1, FrontFacts
<1>3. DOMAIN p = 1..Len(p)
  BY <1>1, LenProperties
<1>4. Range(p) = {p[i] : i \in 1..Len(p)}
  BY <1>3 DEF Range
<1>5. \A i \in 1..Len(p) : p[i] \in V
  BY <1>1, ElementOfSeq
<1>6. ASSUME NEW b \in Range(p), b # begin(m, list)
      PROVE  \E n \in Linked(m, E) : n \in Range(p) /\ b = m[n].next
  <2>1. PICK i \in 1..Len(p) : b = p[i]
    BY <1>4
  <2>2. i # 1
    BY <1>1, <1>6, <2>1
  <2>3. i - 1 \in 1..(Len(p) - 1) /\ i - 1 \in 1..Len(p) /\ (i - 1) + 1 = i
    BY <1>2, <2>2
  <2>4. p[i - 1] \in Linked(m, E) /\ b = m[p[i - 1]].next /\ p[i - 1] \in Range(p)
    BY <1>1, <1>4, <2>1, <2>3
  <2> QED BY <2>4
<1>7. Range(p) \subseteq V
  BY <1>4, <1>5
<1>8. Len(p) \in 1..Len(p) /\ \A i \in 1..(Len(p) - 1) : i \in 1..Len(p)
  BY <1>2
<1>9. Last(p) \in Range(p) /\ Range(Front(p)) \subseteq Range(p) \intersect Linked(m, E)
  BY <1>1, <1>2, <1>4, <1>8
<1>10. \A i \in 1..(Len(p) - 1) : p[i] \in Range(Front(p))
  BY <1>2
<1> QED BY <1>6, <1>7, <1>9, <1>10 DEF Met, OnList, p, V

\* How a loop over a list can end.
LEMMA LoopEnds ==
  ASSUME NEW m, NEW list
  PROVE  /\ LoopEnd(m, list) \in {"ok", "panic", "hang"}
         /\ LoopEnd(m, list) = "ok" <=> Last(path(m, list)) = tail(list)
         /\ LoopEnd(m, list) = "panic" => Last(path(m, list)) \in Tails
BY DEF LoopEnd

\* list_insert_ordered inserts before something it meets, or stops the kernel
\* and changes nothing.
LEMMA OrderedInsert ==
  ASSUME NEW m, LinkOK(m), NEW list \in ThreadList, NEW elem \in Thread,
         NEW pri \in [Thread -> Int], NEW r \in list_insert_ordered(m, list, elem, pri)
  PROVE  \/ r.outcome \in {"panic", "hang"} /\ r.link = m
         \/ /\ r.outcome = "ok"
            /\ \E before \in Met(m, list) :
                   /\ before \in Linked(m, Thread) \union Ends(ThreadList)
                   /\ before # elem
                   /\ r.link = list_insert(m, before, elem)
<1> DEFINE p == path(m, list)
           lower == {i \in 1..(Len(p) - 1) : pri[elem] > pri[p[i]]}
           done(before) == [outcome |-> "ok", link |-> list_insert(m, before, elem)]
           stop(why) == [outcome |-> why, link |-> m]
<1>1. IsSide(Thread, ThreadList)
  BY DEF IsSide
<1>2. /\ Met(m, list) \subseteq Linked(m, Thread) \union Ends(ThreadList)
      /\ Last(p) \in Met(m, list)
      /\ OnList(m, list) \subseteq Met(m, list) \intersect Linked(m, Thread)
      /\ \A i \in 1..(Len(p) - 1) : p[i] \in OnList(m, list)
  BY <1>1, MetFacts
<1>3. /\ lower # {} => r = done(p[Min(lower)])
      /\ lower = {} =>
             \/ LoopEnd(m, list) = "ok" /\ r = done(tail(list))
             \/ LoopEnd(m, list) = "panic" /\ r \in {done(Last(p)), stop("panic")}
             \/ r = stop("hang")
  BY LoopEnds DEF list_insert_ordered
<1>4. ASSUME lower # {}
      PROVE  p[Min(lower)] \in Met(m, list) /\ p[Min(lower)] # elem
  <2>1. Len(p) \in Nat
    BY <1>1, PathWalks, LenProperties DEF Walks
  <2>2. lower \in SUBSET Nat
    BY <2>1
  <2>3. PICK i \in lower : \A k \in lower : i <= k
    BY <1>4, <2>2, LeastNat
  <2>4. Min(lower) = i
    BY <2>2, <2>3 DEF Min
  <2>5. i \in 1..(Len(p) - 1) /\ pri[elem] > pri[p[i]]
    OBVIOUS
  <2>6. p[i] \in Met(m, list) /\ p[i] \in Thread
    BY <1>2, <2>5 DEF Linked
  <2>7. p[i] # elem
    BY <2>5, <2>6
  <2> QED BY <2>4, <2>6, <2>7
<1> HIDE DEF p, lower
<1>5. \A n \in Tails : n # elem
  BY NodesApart
<1>6. \A l \in ThreadList : tail(l) \in Tails
  BY Kinds DEF Ends
<1>7. LoopEnd(m, list) = "ok" => Last(p) = tail(list)
  BY LoopEnds DEF p
<1>8. LoopEnd(m, list) = "panic" => Last(p) \in Tails
  BY LoopEnds DEF p
<1>9. CASE \E b \in Met(m, list) : b # elem /\ r = done(b)
  BY <1>2, <1>9
<1>10. CASE \E why \in {"panic", "hang"} : r = stop(why)
  BY <1>10
<1> HIDE DEF done, stop
<1>11. CASE lower # {}
  BY <1>3, <1>4, <1>9, <1>11
<1>12. CASE lower = {}
  BY <1>2, <1>3, <1>5, <1>6, <1>7, <1>8, <1>9, <1>10, <1>12
<1> QED BY <1>11, <1>12

-----------------------------------------------------------------------------
(* What the parts of an action leave alone.                                *)

\* The null pointer and the idle thread are neither threads nor locks, and a
\* thread's semaphore is not a lock's.
LEMMA Distinct ==
  /\ \A t \in Thread : t # NULL /\ t # Idle /\ t \notin Lock
  /\ \A l \in Lock : l # NULL /\ l \notin Thread /\ l \in Sema
  /\ Idle # NULL /\ NULL \notin Sema
BY DistinctAssumption DEF Sema

\* A thread or the idle thread is on the CPU, whatever schedule finds.
LEMMA ScheduleRunsThread ==
  ASSUME NEW m, NEW st, cur \in Thread \union {Idle}, schedule(m, st)
  PROVE  cur' \in Thread \union {Idle}
BY DEF schedule, Stop

\* The same for thread_yield.
LEMMA YieldRunsThread ==
  ASSUME NEW m, NEW st, NEW pri, cur \in Thread \union {Idle}, thread_yield(m, st, pri)
  PROVE  cur' \in Thread \union {Idle}
<1>1. CASE cur = Idle
  BY <1>1, ScheduleRunsThread DEF thread_yield
<1>2. CASE cur # Idle
  <2>1. PICK r \in list_insert_ordered(m, ready_list, cur, pri) :
            IF r.outcome = "ok"
            THEN schedule(r.link, [st EXCEPT ![cur] = "READY"])
            ELSE Stop(r.outcome)
    BY <1>2 DEF thread_yield
  <2> QED BY <2>1, ScheduleRunsThread DEF Stop
<1> QED BY <1>1, <1>2

\* The same for check_preemption.
LEMMA CheckRunsThread ==
  ASSUME NEW m, NEW st, NEW pri, cur \in Thread \union {Idle},
         check_preemption(m, st, pri)
  PROVE  cur' \in Thread \union {Idle}
BY YieldRunsThread DEF check_preemption

\* A round of sema_down that finds the semaphore down takes no lock.
LEMMA BlockOnLeaves ==
  ASSUME NEW s, cur \in Thread \union {Idle}, block_on(s)
  PROVE  /\ cur' \in Thread \union {Idle}
         /\ pc' = [pc EXCEPT ![cur] = "sema_down"]
         /\ UNCHANGED <<value, holder, waiting_lock>>
<1>1. PICK r \in list_insert_ordered(link, sema_waiters(s), cur, priority) :
          IF r.outcome = "ok"
          THEN schedule(r.link, [status EXCEPT ![cur] = "BLOCKED"])
          ELSE Stop(r.outcome)
  BY DEF block_on
<1>2. cur' \in Thread \union {Idle}
  BY <1>1, ScheduleRunsThread DEF Stop
<1> QED BY <1>2 DEF block_on, Goto

-----------------------------------------------------------------------------
(* The owners of a lock.                                                   *)

\* A step that leaves the holder and the thread in lock_try_acquire alone
\* leaves the owners alone.
LEMMA SameOwners ==
  ASSUME NEW l \in Lock, holder'[l] = holder[l],
         \A t \in Thread :
             (pc'[t] = "try" /\ lock'[t] = l) <=> (pc[t] = "try" /\ lock[t] = l)
  PROVE  Owners(l)' = Owners(l)
BY DEF Owners

\* A step that touches no lock keeps the invariant.
LEMMA OwnersKept ==
  ASSUME OwnerInv,
         cur' \in Thread \union {Idle},
         pc' \in [Thread -> PC],
         lock' \in [Thread -> Lock \union {NULL}],
         value' \in [Sema -> Nat],
         holder' = holder,
         \A l \in Lock : value'[l] = value[l],
         \A t \in Thread :
             /\ pc'[t] = "try" <=> pc[t] = "try"
             /\ pc[t] = "try" => lock'[t] = lock[t]
             /\ lock[t] \in Lock \/ pc'[t] \in {"wait", "sema_down"} => lock'[t] \in Lock
  PROVE  OwnerInv'
<1>1. \A l \in Lock : Owners(l)' = Owners(l)
  BY SameOwners
<1>2. \A l \in Lock :
          \/ value'[l] = 1 /\ Owners(l)' = {}
          \/ value'[l] = 0 /\ \E t \in Thread : Owners(l)' = {t}
  BY <1>1 DEF OwnerInv
<1>3. \A t \in Thread :
          pc'[t] \in {"wait", "sema_down", "try"} \/ (\E l \in Lock : holder'[l] = t)
          => lock'[t] \in Lock
  BY DEF OwnerInv
<1> QED BY <1>2, <1>3 DEF OwnerInv

\* lock_acquire past the semaphore: the lock had no owner and has one.
LEMMA TakeOwns ==
  ASSUME OwnerInv, NEW l \in Lock, value[l] # 0, cur \in Thread, pc[cur] # "try",
         lock' \in [Thread -> Lock \union {NULL}],
         lock'[cur] \in Lock,
         \A t \in Thread \ {cur} : lock'[t] = lock[t],
         take(l)
  PROVE  /\ OwnerInv'
         /\ holder' = [holder EXCEPT ![l] = cur]
         /\ pc' = [pc EXCEPT ![cur] = "run"]
         /\ cur' = cur
<1>1. /\ pc' = [pc EXCEPT ![cur] = "run"]
      /\ value' = [value EXCEPT ![l] = @ - 1]
      /\ holder' = [holder EXCEPT ![l] = cur]
      /\ cur' = cur
  BY DEF take, Goto
<1>2. value[l] = 1 /\ Owners(l) = {}
  BY DEF OwnerInv
<1>3. l \in Sema /\ cur # NULL
  BY Distinct
<1>4. /\ pc' \in [Thread -> PC]
      /\ holder' \in [Lock -> Thread \union {NULL}]
      /\ value' \in [Sema -> Nat]
      /\ value'[l] = 0
  BY <1>1, <1>2, <1>3 DEF OwnerInv, PC
<1>5. Owners(l)' = {cur}
  BY <1>1, <1>2 DEF Owners, OwnerInv
<1>6. ASSUME NEW k \in Lock, k # l
      PROVE  value'[k] = value[k] /\ Owners(k)' = Owners(k)
  <2>1. k \in Sema
    BY Distinct
  <2>2. holder'[k] = holder[k]
    BY <1>1, <1>6 DEF OwnerInv
  <2>3. \A t \in Thread :
            (pc'[t] = "try" /\ lock'[t] = k) <=> (pc[t] = "try" /\ lock[t] = k)
    BY <1>1 DEF OwnerInv
  <2>4. Owners(k)' = Owners(k)
    BY <2>2, <2>3, SameOwners
  <2> QED BY <1>1, <1>6, <2>1, <2>4 DEF OwnerInv
<1>7. \A k \in Lock :
          \/ value'[k] = 1 /\ Owners(k)' = {}
          \/ value'[k] = 0 /\ \E t \in Thread : Owners(k)' = {t}
  BY <1>4, <1>5, <1>6 DEF OwnerInv
<1>8. \A t \in Thread :
          pc'[t] \in {"wait", "sema_down", "try"} \/ (\E k \in Lock : holder'[k] = t)
          => lock'[t] \in Lock
  BY <1>1 DEF OwnerInv
<1> QED BY <1>1, <1>4, <1>7, <1>8 DEF OwnerInv

\* sema_down of a lock's semaphore, whether it blocks or goes through.
LEMMA SemaDownOwns ==
  ASSUME OwnerInv, NEW l \in Lock, cur \in Thread, pc[cur] # "try",
         lock' \in [Thread -> Lock \union {NULL}],
         lock'[cur] \in Lock,
         \A t \in Thread \ {cur} : lock'[t] = lock[t],
         sema_down_loop(l)
  PROVE  OwnerInv'
<1>1. CASE value[l] # 0
  BY <1>1, TakeOwns DEF sema_down_loop
<1>2. CASE value[l] = 0
  <2>1. block_on(l)
    BY <1>2 DEF sema_down_loop
  <2>2. /\ cur' \in Thread \union {Idle}
        /\ pc' = [pc EXCEPT ![cur] = "sema_down"]
        /\ value' = value /\ holder' = holder
    BY <2>1, BlockOnLeaves DEF OwnerInv
  <2>3. pc' \in [Thread -> PC]
    BY <2>2 DEF OwnerInv, PC, IntrOffPC
  <2> QED BY <2>2, <2>3, OwnersKept DEF OwnerInv
<1> QED BY <1>1, <1>2

-----------------------------------------------------------------------------
(* The actions of Locks.                                                   *)

\* What At says of the running thread.
LEMMA AtRuns ==
  ASSUME NEW p, At(p), OwnerInv
  PROVE  outcome = "ok" /\ cur \in Thread /\ cur # Idle /\ pc[cur] = p
BY DEF At, OwnerInv

\* lock_acquire of a lock without a holder.
LEMMA AcquireFreeOwns ==
  ASSUME OwnerInv, NEW l \in Lock, AcquireFree(l)
  PROVE  OwnerInv'
<1>1. cur \in Thread /\ pc[cur] = "run"
  BY AtRuns DEF AcquireFree
<1>2. lock' = [lock EXCEPT ![cur] = l] /\ sema_down_loop(l)
  BY DEF AcquireFree
<1>3. /\ lock' \in [Thread -> Lock \union {NULL}]
      /\ lock'[cur] = l
      /\ \A t \in Thread \ {cur} : lock'[t] = lock[t]
  BY <1>1, <1>2 DEF OwnerInv
<1> QED BY <1>1, <1>2, <1>3, SemaDownOwns

\* lock_acquire of a lock that is held, up to its sema_down.
LEMMA AcquireHeldOwns ==
  ASSUME OwnerInv, NEW l \in Lock, AcquireHeld(l)
  PROVE  OwnerInv'
<1>1. cur \in Thread /\ pc[cur] = "run"
  BY AtRuns DEF AcquireHeld
<1>2. /\ lock' = [lock EXCEPT ![cur] = l]
      /\ pc' = [pc EXCEPT ![cur] = "wait"]
      /\ cur' = cur /\ holder' = holder /\ value' = value
  BY DEF AcquireHeld, Goto
<1>3. pc' \in [Thread -> PC] /\ lock' \in [Thread -> Lock \union {NULL}]
  BY <1>1, <1>2 DEF OwnerInv, PC
<1> QED BY <1>1, <1>2, <1>3, OwnersKept DEF OwnerInv

\* The sema_down of a lock_acquire that found the lock held.
LEMMA SemaDownStepOwns ==
  ASSUME OwnerInv, SemaDown
  PROVE  OwnerInv'
<1>1. cur \in Thread /\ pc[cur] \in {"wait", "sema_down"}
  BY AtRuns DEF SemaDown
<1>2. lock[cur] \in Lock /\ lock' = lock /\ sema_down_loop(lock[cur])
  BY <1>1 DEF SemaDown, OwnerInv
<1> QED BY <1>1, <1>2, SemaDownOwns DEF OwnerInv

\* The semaphore of lock_try_acquire: its thread is the owner.
LEMMA TryAcquireOwns ==
  ASSUME OwnerInv, NEW l \in Lock, TryAcquire(l)
  PROVE  OwnerInv'
<1>1. cur \in Thread /\ pc[cur] = "run" /\ l \in Sema
  BY AtRuns, Distinct DEF TryAcquire
<1>2. /\ value' = [value EXCEPT ![l] = @ - 1]
      /\ lock' = [lock EXCEPT ![cur] = l]
      /\ pc' = [pc EXCEPT ![cur] = "try"]
      /\ cur' = cur /\ holder' = holder
      /\ value[l] > 0
  BY DEF TryAcquire, Goto
<1>3. value[l] = 1 /\ Owners(l) = {}
  BY <1>2 DEF OwnerInv
<1>4. /\ pc' \in [Thread -> PC]
      /\ lock' \in [Thread -> Lock \union {NULL}]
      /\ value' \in [Sema -> Nat]
      /\ value'[l] = 0
  BY <1>1, <1>2, <1>3 DEF OwnerInv, PC
<1>5. Owners(l)' = {cur}
  BY <1>1, <1>2, <1>3 DEF Owners, OwnerInv
<1>6. ASSUME NEW k \in Lock, k # l
      PROVE  value'[k] = value[k] /\ Owners(k)' = Owners(k)
  <2>1. k \in Sema
    BY Distinct
  <2>2. \A t \in Thread :
            (pc'[t] = "try" /\ lock'[t] = k) <=> (pc[t] = "try" /\ lock[t] = k)
    BY <1>1, <1>2, <1>6 DEF OwnerInv
  <2>3. Owners(k)' = Owners(k)
    BY <1>2, <2>2, SameOwners
  <2> QED BY <1>2, <1>6, <2>1, <2>3 DEF OwnerInv
<1>7. \A k \in Lock :
          \/ value'[k] = 1 /\ Owners(k)' = {}
          \/ value'[k] = 0 /\ \E t \in Thread : Owners(k)' = {t}
  BY <1>1, <1>4, <1>5, <1>6 DEF OwnerInv
<1>8. \A t \in Thread :
          pc'[t] \in {"wait", "sema_down", "try"} \/ (\E k \in Lock : holder'[k] = t)
          => lock'[t] \in Lock
  BY <1>1, <1>2 DEF OwnerInv
<1> QED BY <1>1, <1>2, <1>4, <1>7, <1>8 DEF OwnerInv

\* The holder of lock_try_acquire: the owner stays the same thread.
LEMMA TryOwnOwns ==
  ASSUME OwnerInv, TryOwn
  PROVE  /\ OwnerInv'
         /\ lock[cur] \in Lock
         /\ holder[lock[cur]] \in {NULL, cur}
         /\ holder' = [holder EXCEPT ![lock[cur]] = cur]
<1>1. cur \in Thread /\ pc[cur] = "try" /\ cur # NULL
  BY AtRuns, Distinct DEF TryOwn
<1>2. /\ holder' = [holder EXCEPT ![lock[cur]] = cur]
      /\ pc' = [pc EXCEPT ![cur] = "run"]
      /\ cur' = cur /\ lock' = lock /\ value' = value
  BY DEF TryOwn, Goto
<1>3. PICK l \in Lock : l = lock[cur]
  BY <1>1 DEF OwnerInv
<1>4. cur \in Owners(l)
  BY <1>1, <1>3 DEF Owners
<1>5. value[l] = 0 /\ Owners(l) = {cur}
  BY <1>4 DEF OwnerInv
<1>6. holder[l] \in {NULL, cur}
  BY <1>3, <1>5 DEF Owners, OwnerInv
<1>7. pc' \in [Thread -> PC] /\ holder' \in [Lock -> Thread \union {NULL}]
  BY <1>1, <1>2, <1>3 DEF OwnerInv, PC
<1>8. Owners(l)' = {cur}
  BY <1>1, <1>2, <1>3, <1>5 DEF Owners, OwnerInv
<1>9. ASSUME NEW k \in Lock, k # l
      PROVE  Owners(k)' = Owners(k)
  <2>1. holder'[k] = holder[k]
    BY <1>2, <1>3, <1>9 DEF OwnerInv
  <2>2. \A t \in Thread :
            (pc'[t] = "try" /\ lock'[t] = k) <=> (pc[t] = "try" /\ lock[t] = k)
    BY <1>1, <1>2, <1>3, <1>9 DEF OwnerInv
  <2> QED BY <2>1, <2>2, SameOwners
<1>10. \A k \in Lock :
           \/ value'[k] = 1 /\ Owners(k)' = {}
           \/ value'[k] = 0 /\ \E t \in Thread : Owners(k)' = {t}
  BY <1>1, <1>2, <1>5, <1>8, <1>9 DEF OwnerInv
<1>11. \A t \in Thread :
           pc'[t] \in {"wait", "sema_down", "try"} \/ (\E k \in Lock : holder'[k] = t)
           => lock'[t] \in Lock
  BY <1>1, <1>2, <1>3 DEF OwnerInv
<1> QED BY <1>1, <1>2, <1>3, <1>6, <1>7, <1>10, <1>11 DEF OwnerInv

\* lock_release changes nothing when it stops, and gives the lock up if not.
LEMMA ReleaseEffect ==
  ASSUME OwnerInv, NEW l \in Lock, LockRelease(l)
  PROVE  /\ cur \in Thread /\ pc[cur] = "run" /\ holder[l] = cur
         /\ cur' \in Thread \union {Idle}
         /\ lock' = lock
         /\ \/ holder' = holder /\ value' = value /\ pc' = pc
            \/ /\ holder' = [holder EXCEPT ![l] = NULL]
               /\ value' = [value EXCEPT ![l] = @ + 1]
               /\ pc' = [pc EXCEPT ![cur] = "refresh"]
<1>1. cur \in Thread /\ pc[cur] = "run" /\ holder[l] = cur /\ lock' = lock
  BY AtRuns DEF LockRelease
<1>2. CASE unheld(l).outcome # "ok"
  BY <1>1, <1>2 DEF LockRelease, Stop
<1>3. CASE unheld(l).outcome = "ok"
  <2>1. PICK r \in sema_up(unheld(l).link, l) :
            IF r.outcome = "ok"
            THEN check_preemption(r.link, r.status, priority)
            ELSE Stop(r.outcome)
    BY <1>3 DEF LockRelease
  <2>2. cur' \in Thread \union {Idle}
    BY <1>1, <2>1, CheckRunsThread DEF Stop
  <2> QED BY <1>1, <1>3, <2>2 DEF LockRelease, Goto
<1> QED BY <1>2, <1>3

\* lock_release: the one owner leaves, as the semaphore goes up.
LEMMA ReleaseOwns ==
  ASSUME OwnerInv, NEW l \in Lock, LockRelease(l)
  PROVE  OwnerInv'
<1>1. /\ cur \in Thread /\ pc[cur] = "run" /\ holder[l] = cur
      /\ cur' \in Thread \union {Idle}
      /\ lock' = lock
  BY ReleaseEffect
<1>2. CASE holder' = holder /\ value' = value /\ pc' = pc
  BY <1>1, <1>2, OwnersKept DEF OwnerInv
<1>3. CASE /\ holder' = [holder EXCEPT ![l] = NULL]
           /\ value' = [value EXCEPT ![l] = @ + 1]
           /\ pc' = [pc EXCEPT ![cur] = "refresh"]
  <2>1. l \in Sema /\ \A t \in Thread : t # NULL
    BY Distinct
  <2>2. cur \in Owners(l)
    BY <1>1 DEF Owners
  <2>3. value[l] = 0 /\ Owners(l) = {cur}
    BY <2>2 DEF OwnerInv
  <2>4. /\ pc' \in [Thread -> PC]
        /\ holder' \in [Lock -> Thread \union {NULL}]
        /\ value' \in [Sema -> Nat]
        /\ value'[l] = 1
    BY <1>1, <1>3, <2>1, <2>3 DEF OwnerInv, PC, IntrOffPC
  <2>5. Owners(l)' = {}
    BY <1>1, <1>3, <2>1, <2>3 DEF Owners, OwnerInv
  <2>6. ASSUME NEW k \in Lock, k # l
        PROVE  value'[k] = value[k] /\ Owners(k)' = Owners(k)
    <3>1. k \in Sema
      BY Distinct
    <3>2. holder'[k] = holder[k]
      BY <1>3, <2>6 DEF OwnerInv
    <3>3. \A t \in Thread :
              (pc'[t] = "try" /\ lock'[t] = k) <=> (pc[t] = "try" /\ lock[t] = k)
      BY <1>1, <1>3 DEF OwnerInv
    <3>4. Owners(k)' = Owners(k)
      BY <3>2, <3>3, SameOwners
    <3> QED BY <1>3, <2>6, <3>1, <3>4 DEF OwnerInv
  <2>7. \A k \in Lock :
            \/ value'[k] = 1 /\ Owners(k)' = {}
            \/ value'[k] = 0 /\ \E t \in Thread : Owners(k)' = {t}
    BY <2>4, <2>5, <2>6 DEF OwnerInv
  <2>8. \A t \in Thread :
            pc'[t] \in {"wait", "sema_down", "try"} \/ (\E k \in Lock : holder'[k] = t)
            => lock'[t] \in Lock
    BY <1>1, <1>3, <2>1 DEF OwnerInv
  <2> QED BY <1>1, <2>4, <2>7, <2>8 DEF OwnerInv
<1> QED BY <1>2, <1>3, ReleaseEffect

\* The end of lock_release and the end of thread_set_priority leave the locks
\* alone.
LEMMA CheckLeaves ==
  ASSUME OwnerInv, Refresh \/ Check
  PROVE  /\ cur \in Thread /\ pc[cur] \in {"refresh", "check"}
         /\ cur' \in Thread \union {Idle}
         /\ pc' = [pc EXCEPT ![cur] = "run"]
         /\ lock' = lock /\ holder' = holder /\ value' = value
<1>1. cur \in Thread /\ pc[cur] \in {"refresh", "check"}
  BY AtRuns DEF Refresh, Check
<1>2. CASE Refresh
  <2>1. cur' \in Thread \union {Idle}
    BY <1>1, <1>2, CheckRunsThread DEF Refresh, Stop
  <2> QED BY <1>1, <1>2, <2>1 DEF Refresh, Goto
<1>3. CASE Check
  <2>1. cur' \in Thread \union {Idle}
    BY <1>1, <1>3, CheckRunsThread DEF Check
  <2> QED BY <1>1, <1>3, <2>1 DEF Check, Goto
<1> QED BY <1>2, <1>3

\* Interrupts leave the locks alone, and move no thread but out of its sleep.
LEMMA InterruptLeaves ==
  ASSUME OwnerInv, Interrupt
  PROVE  /\ cur' \in Thread \union {Idle}
         /\ \/ pc' = pc
            \/ \E t \in Thread : pc[t] = "asleep" /\ pc' = [pc EXCEPT ![t] = "run"]
         /\ lock' = lock /\ holder' = holder /\ value' = value
<1>1. ASSUME NEW t \in Thread, TimerWakeup(t)
      PROVE  /\ cur' = cur
             /\ pc[t] = "asleep" /\ pc' = [pc EXCEPT ![t] = "run"]
             /\ lock' = lock /\ holder' = holder /\ value' = value
  BY <1>1 DEF TimerWakeup
<1>2. ASSUME Preempt
      PROVE  /\ cur' \in Thread \union {Idle}
             /\ pc' = pc /\ lock' = lock /\ holder' = holder /\ value' = value
  BY <1>2, YieldRunsThread DEF Preempt, threadVars, OwnerInv
<1> QED BY <1>1, <1>2 DEF Interrupt, OwnerInv

\* A call keeps the invariant, ...
LEMMA CallOwns ==
  ASSUME OwnerInv, Call
  PROVE  OwnerInv'
<1>1. ASSUME NEW l \in TryLock, TryAcquire(l)
      PROVE  OwnerInv'
  BY <1>1, TryAcquireOwns, ArgumentAssumption
<1>2. ASSUME NEW pri \in NewPriority, ThreadSetPriority(pri)
      PROVE  OwnerInv'
  <2>1. cur \in Thread /\ pc[cur] = "run"
    BY <1>2, AtRuns DEF ThreadSetPriority
  <2>2. /\ pc' = [pc EXCEPT ![cur] = "check"]
        /\ cur' = cur /\ lock' = lock /\ holder' = holder /\ value' = value
    BY <1>2 DEF ThreadSetPriority, Goto
  <2>3. pc' \in [Thread -> PC]
    BY <2>1, <2>2 DEF OwnerInv, PC
  <2> QED BY <2>1, <2>2, <2>3, OwnersKept DEF OwnerInv
<1> QED BY <1>1, <1>2, AcquireFreeOwns, AcquireHeldOwns, ReleaseOwns DEF Call

\* ... so does what goes on with a call, ...
LEMMA ContinueOwns ==
  ASSUME OwnerInv, Continue
  PROVE  OwnerInv'
<1>1. ASSUME Refresh \/ Check
      PROVE  OwnerInv'
  <2>1. /\ cur \in Thread /\ pc[cur] \in {"refresh", "check"}
        /\ cur' \in Thread \union {Idle}
        /\ pc' = [pc EXCEPT ![cur] = "run"]
        /\ lock' = lock /\ holder' = holder /\ value' = value
    BY <1>1, CheckLeaves
  <2>2. pc' \in [Thread -> PC]
    BY <2>1 DEF OwnerInv, PC
  <2> QED BY <2>1, <2>2, OwnersKept DEF OwnerInv
<1> QED BY <1>1, TryOwnOwns DEF Continue

\* ... and so do interrupts.
LEMMA InterruptOwns ==
  ASSUME OwnerInv, Interrupt
  PROVE  OwnerInv'
<1>1. /\ cur' \in Thread \union {Idle}
      /\ \/ pc' = pc
         \/ \E t \in Thread : pc[t] = "asleep" /\ pc' = [pc EXCEPT ![t] = "run"]
      /\ lock' = lock /\ holder' = holder /\ value' = value
  BY InterruptLeaves
<1>2. pc' \in [Thread -> PC]
  BY <1>1 DEF OwnerInv, PC
<1>3. \A t \in Thread : pc'[t] # pc[t] => pc[t] = "asleep" /\ pc'[t] = "run"
  BY <1>1 DEF OwnerInv
<1>4. \A t \in Thread :
          /\ pc'[t] = "try" <=> pc[t] = "try"
          /\ pc'[t] \in {"wait", "sema_down"} => pc[t] = pc'[t]
  BY <1>3
<1> QED BY <1>1, <1>2, <1>4, OwnersKept DEF OwnerInv

\* At the start every lock is free.
LEMMA InitOwns == Init => OwnerInv
<1> SUFFICES ASSUME Init PROVE OwnerInv
  OBVIOUS
<1>1. /\ cur \in Thread
      /\ pc = [t \in Thread |-> IF t = cur THEN "run" ELSE "asleep"]
      /\ lock = [t \in Thread |-> NULL]
      /\ holder = [l \in Lock |-> NULL]
      /\ value = [s \in Sema |-> IF s \in Lock THEN 1 ELSE 0]
  BY DEF Init
<1>2. /\ pc \in [Thread -> PC] /\ lock \in [Thread -> Lock \union {NULL}]
      /\ holder \in [Lock -> Thread \union {NULL}] /\ value \in [Sema -> Nat]
  BY <1>1 DEF PC
<1>3. \A l \in Lock : value[l] = 1 /\ Owners(l) = {}
  BY <1>1, Distinct DEF Owners
<1>4. \A t \in Thread :
          pc[t] \notin {"wait", "sema_down", "try"} /\ \A l \in Lock : holder[l] # t
  BY <1>1, Distinct
<1> QED BY <1>1, <1>2, <1>3, <1>4 DEF OwnerInv

\* The invariant says that the semaphore and the owners add up to one.
LEMMA OwnerCount == OwnerInv => OneOwner
<1> SUFFICES ASSUME OwnerInv, NEW l \in Lock
             PROVE  value[l] + Cardinality(Owners(l)) = 1
  BY DEF OneOwner
<1>1. CASE value[l] = 1 /\ Owners(l) = {}
  BY <1>1, FS_EmptySet
<1>2. CASE value[l] = 0 /\ \E t \in Thread : Owners(l) = {t}
  <2>1. PICK t \in Thread : Owners(l) = {t}
    BY <1>2
  <2>2. Cardinality({t}) = 1
    BY FS_Singleton, Zenon
  <2> QED BY <1>2, <2>1, <2>2
<1> QED BY <1>1, <1>2 DEF OwnerInv

\* Mutual exclusion of the locks of synch.c, threads barging in past a woken
\* waiter and lock_try_acquire's gap between the semaphore and the holder
\* included, whatever state the wait lists are in.
THEOREM MutualExclusion == Spec => []OneOwner
<1>1. OwnerInv /\ [Next]_vars => OwnerInv'
  <2>1. ASSUME OwnerInv, Next PROVE OwnerInv'
    BY <2>1, CallOwns, SemaDownStepOwns, ContinueOwns, InterruptOwns DEF Next
  <2>2. ASSUME OwnerInv, UNCHANGED vars PROVE OwnerInv'
    BY <2>2 DEF OwnerInv, Owners, vars, threadVars
  <2> QED BY <2>1, <2>2
<1> QED BY <1>1, InitOwns, OwnerCount, PTL DEF Spec

-----------------------------------------------------------------------------
(* Where a donation goes.                                                  *)

\* The thread that t waits for.
waits_for(t) == IF waiting_lock[t] = NULL THEN NULL ELSE holder[waiting_lock[t]]

\* A donation on its way: what it has raised, and whom it is to raise next.
Reaches(d, from, to, pri) ==
    /\ \A u \in Thread :
           \/ d.pri[u] = pri[u]
           \/ d.pri[u] = pri[from] /\ pri[u] < pri[from]
    /\ d.to = to \/ d.pri[to] >= pri[from]
    /\ \A u \in Thread : d.pri[u] # pri[u] =>
           waits_for(u) \in {NULL, d.to} \/ d.pri[waits_for(u)] >= pri[from]
Donations(from, to, pri) ==
    {d \in [to : Thread \union {NULL}, pri : [Thread -> Int]] : Reaches(d, from, to, pri)}

OnItsWay(d, from, pri) == d.to # NULL /\ pri[from] > d.pri[d.to]
Raised(d, pri) == {u \in Thread : d.pri[u] # pri[u]}
PassOn(d, from, pri) ==
    IF OnItsWay(d, from, pri)
    THEN [to |-> waits_for(d.to), pri |-> [d.pri EXCEPT ![d.to] = pri[from]]]
    ELSE d

\* Whom a thread waits for is a thread, if anyone.
LEMMA WaitsForThread ==
  ASSUME waiting_lock \in [Thread -> Lock \union {NULL}],
         holder \in [Lock -> Thread \union {NULL}], NEW t \in Thread
  PROVE  waits_for(t) \in Thread \union {NULL}
BY DEF waits_for

\* A donation that is passed on raises one more thread.
LEMMA PassOnReaches ==
  ASSUME waiting_lock \in [Thread -> Lock \union {NULL}],
         holder \in [Lock -> Thread \union {NULL}],
         NEW from \in Thread, NEW to \in Thread, NEW pri \in [Thread -> Int],
         NEW d \in Donations(from, to, pri)
  PROVE  /\ PassOn(d, from, pri) \in Donations(from, to, pri)
         /\ OnItsWay(d, from, pri) =>
                /\ d.to \in Thread \ Raised(d, pri)
                /\ Raised(PassOn(d, from, pri), pri) = Raised(d, pri) \union {d.to}
<1>1. /\ d.to \in Thread \union {NULL} /\ d.pri \in [Thread -> Int]
      /\ \A u \in Thread :
             \/ d.pri[u] = pri[u]
             \/ d.pri[u] = pri[from] /\ pri[u] < pri[from]
      /\ d.to = to \/ d.pri[to] >= pri[from]
      /\ \A u \in Thread : d.pri[u] # pri[u] =>
             waits_for(u) \in {NULL, d.to} \/ d.pri[waits_for(u)] >= pri[from]
  BY DEF Donations, Reaches
<1>2. ASSUME OnItsWay(d, from, pri)
      PROVE  /\ PassOn(d, from, pri) \in Donations(from, to, pri)
             /\ d.to \in Thread \ Raised(d, pri)
             /\ Raised(PassOn(d, from, pri), pri) = Raised(d, pri) \union {d.to}
  <2> DEFINE e == PassOn(d, from, pri)
  <2>1. PICK x \in Thread : x = d.to
    BY <1>1, <1>2 DEF OnItsWay
  <2>2. pri[from] > d.pri[x] /\ pri[from] \in Int /\ d.pri[x] = pri[x]
    BY <1>1, <1>2, <2>1 DEF OnItsWay
  <2>3. e = [to |-> waits_for(x), pri |-> [d.pri EXCEPT ![x] = pri[from]]]
    BY <1>2, <2>1 DEF PassOn
  <2>4. waits_for(x) \in Thread \union {NULL}
    BY WaitsForThread
  <2>5. /\ e.to = waits_for(x) /\ e.pri = [d.pri EXCEPT ![x] = pri[from]]
        /\ e.pri \in [Thread -> Int]
        /\ e.pri[x] = pri[from] /\ \A u \in Thread \ {x} : e.pri[u] = d.pri[u]
    BY <1>1, <2>2, <2>3
  <2>6. e \in [to : Thread \union {NULL}, pri : [Thread -> Int]]
    BY <2>3, <2>4, <2>5
  <2> HIDE DEF e
  <2>7. \A u \in Thread : \/ e.pri[u] = pri[u]
                          \/ e.pri[u] = pri[from] /\ pri[u] < pri[from]
    BY <1>1, <2>2, <2>5
  <2>8. e.pri[to] >= pri[from]
    BY <1>1, <2>1, <2>2, <2>5
  <2>9. ASSUME NEW u \in Thread, e.pri[u] # pri[u], waits_for(u) \notin {NULL, e.to}
        PROVE  e.pri[waits_for(u)] >= pri[from]
    <3>1. u # x /\ d.pri[u] # pri[u]
      BY <2>5, <2>9
    <3>2. waits_for(u) = x \/ d.pri[waits_for(u)] >= pri[from]
      BY <1>1, <2>1, <2>9, <3>1
    <3>3. waits_for(u) \in Thread
      BY <2>9, WaitsForThread
    <3> QED BY <2>2, <2>5, <3>2, <3>3
  <2>10. Reaches(e, from, to, pri)
    BY <2>7, <2>8, <2>9 DEF Reaches
  <2>11. e \in Donations(from, to, pri)
    BY <2>6, <2>10 DEF Donations
  <2>12. x \notin Raised(d, pri) /\ Raised(e, pri) = Raised(d, pri) \union {x}
    BY <2>2, <2>5 DEF Raised
  <2> QED BY <2>1, <2>11, <2>12 DEF e
<1>3. ~OnItsWay(d, from, pri) => PassOn(d, from, pri) = d
  BY DEF PassOn
<1> QED BY <1>2, <1>3

\* donate_priority passes the donation on until it has reached everyone it
\* should: there are no more steps to make than threads to raise.
LEMMA DonateReaches ==
  ASSUME waiting_lock \in [Thread -> Lock \union {NULL}],
         holder \in [Lock -> Thread \union {NULL}],
         NEW from \in Thread, NEW to \in Thread, NEW pri \in [Thread -> Int]
  PROVE  LET D == donate_priority(from, to, pri)
         IN /\ D \in [Thread -> Int]
            /\ \A u \in Thread : \/ D[u] = pri[u]
                                 \/ D[u] = pri[from] /\ pri[u] < pri[from]
            /\ D[to] >= pri[from]
            /\ \A u \in Thread : D[u] # pri[u] =>
                   waits_for(u) = NULL \/ D[waits_for(u)] >= pri[from]
<1> DEFINE N == Cardinality(Thread)
           S == Donations(from, to, pri)
           c == [to |-> to, pri |-> pri]
           step == [d \in S |-> PassOn(d, from, pri)]
           body(f, n) == IF n = 0 THEN [to |-> to, pri |-> pri]
                         ELSE LET d == f[n - 1]
                              IN IF d.to # NULL /\ pri[from] > d.pri[d.to]
                                 THEN [to |-> waits_for(d.to),
                                       pri |-> [d.pri EXCEPT ![d.to] = pri[from]]]
                                 ELSE d
           donated == CHOOSE f : f = [n \in 0..N |-> body(f, n)]
<1>1. IsFiniteSet(Thread) /\ N \in Nat
  <2>1. Thread \in SUBSET (Thread \union Lock)
    OBVIOUS
  <2>2. IsFiniteSet(Thread)
    BY <2>1, NodeAssumption, FS_Subset
  <2> QED BY <2>2, FS_CardinalityType
<1>2. c \in S
  <2>1. c.to = to /\ c.pri = pri /\ c \in [to : Thread \union {NULL}, pri : [Thread -> Int]]
    OBVIOUS
  <2> HIDE DEF c
  <2> QED BY <2>1 DEF Donations, Reaches
<1>3. step \in [S -> S]
  BY PassOnReaches
<1>4. donate_priority(from, to, pri) = donated[N].pri
  BY DEF donate_priority, waits_for
<1> HIDE DEF N, S, step
<1>5. PICK f : IsIteration(f, S, c, step, N)
  <2> HIDE DEF c
  <2> QED BY <1>1, <1>2, <1>3, Iterates
<1>6. f \in [0..N -> S] /\ f[0] = c /\ \A n \in 1..N : f[n] = step[f[n - 1]]
  <2> HIDE DEF c
  <2> QED BY <1>5 DEF IsIteration
<1>7. ASSUME NEW n \in 1..N, NEW g, g[n - 1] = f[n - 1]
      PROVE  body(g, n) = f[n]
  <2>1. n # 0 /\ n - 1 \in 0..N
    BY <1>1
  <2>2. f[n - 1] \in S
    BY <1>6, <2>1
  <2>3. f[n] = PassOn(f[n - 1], from, pri)
    BY <1>6, <2>2 DEF step
  <2> QED BY <1>7, <2>1, <2>3 DEF PassOn, OnItsWay
<1>8. f = [n \in 0..N |-> body(f, n)]
  <2>1. ASSUME NEW n \in 0..N
        PROVE  f[n] = body(f, n)
    <3>1. n = 0 \/ n \in 1..N
      BY <1>1
    <3> QED BY <1>6, <1>7, <3>1
  <2>2. f = [n \in 0..N |-> f[n]]
    BY <1>6
  <2> HIDE DEF body
  <2> QED BY <2>1, <2>2
<1>9. donated = [n \in 0..N |-> body(donated, n)]
  <2> HIDE DEF body
  <2> QED BY <1>8
<1> HIDE DEF donated, c
<1>10. \A n \in 0..N : donated[n] = f[n]
  <2>1. donated[0] = f[0]
    <3>1. 0 \in 0..N
      BY <1>1
    <3> QED BY <1>6, <1>9, <3>1 DEF c
  <2>2. ASSUME NEW n \in 1..N, donated[n - 1] = f[n - 1]
        PROVE  donated[n] = f[n]
    <3>1. n \in 0..N
      BY <1>1
    <3> HIDE DEF body
    <3>2. donated[n] = body(donated, n)
      BY <1>9, <3>1
    <3> QED BY <1>7, <2>2, <3>2
  <2> HIDE DEF body
  <2>3. \A n \in 1..N : donated[n - 1] = f[n - 1] => donated[n] = f[n]
    BY <2>2
  <2> QED BY <1>1, <2>1, <2>3, IteratesUnique
<1> HIDE DEF body
<1>11. \A n \in 0..N : f[n] \in S
  BY <1>6
<1>12. ~OnItsWay(f[N], from, pri)
  <2> DEFINE T == {n \in Nat : n <= N /\ OnItsWay(f[n], from, pri) =>
                       IsFiniteSet(Raised(f[n], pri)) /\ Cardinality(Raised(f[n], pri)) = n}
  <2>1. 0 \in T
    <3>1. Raised(f[0], pri) = {}
      BY <1>6 DEF c, Raised
    <3> QED BY <3>1, FS_EmptySet
  <2>2. ASSUME NEW n \in Nat, n \in T
        PROVE  n + 1 \in T
    <3>1. CASE n + 1 <= N /\ OnItsWay(f[n + 1], from, pri)
      <4>1. n \in 0..N /\ n + 1 \in 1..N /\ (n + 1) - 1 = n /\ n <= N
        BY <1>1, <3>1
      <4>2. f[n] \in S /\ f[n + 1] = PassOn(f[n], from, pri)
        BY <1>6, <4>1 DEF step
      <4>3. OnItsWay(f[n], from, pri)
        BY <3>1, <4>2 DEF PassOn
      <4>4. /\ f[n].to \notin Raised(f[n], pri)
            /\ Raised(f[n + 1], pri) = Raised(f[n], pri) \union {f[n].to}
        BY <4>2, <4>3, PassOnReaches DEF S
      <4>5. IsFiniteSet(Raised(f[n], pri)) /\ Cardinality(Raised(f[n], pri)) = n
        BY <2>2, <4>1, <4>3
      <4> QED BY <4>4, <4>5, FS_AddElement
    <3> QED BY <3>1
  <2> HIDE DEF T
  <2>3. Nat \subseteq T
    BY <2>1, <2>2, NatSetInduction
  <2>4. N \in T
    BY <1>1, <2>3
  <2>5. ASSUME OnItsWay(f[N], from, pri)
        PROVE  FALSE
    <3>1. Cardinality(Raised(f[N], pri)) = N
      BY <1>1, <2>4, <2>5 DEF T
    <3>2. f[N] \in S
      BY <1>1, <1>11
    <3>3. f[N].to \in Thread \ Raised(f[N], pri)
      BY <2>5, <3>2, PassOnReaches DEF S
    <3>4. Raised(f[N], pri) \in SUBSET Thread
      BY DEF Raised
    <3>5. Thread = Raised(f[N], pri)
      BY <1>1, <3>1, <3>4, FS_Subset DEF N
    <3> QED BY <3>3, <3>5
  <2> QED BY <2>5
<1>13. PICK d \in S : d = f[N]
  BY <1>1, <1>11
<1>14. donate_priority(from, to, pri) = d.pri
  BY <1>1, <1>4, <1>10, <1>13
<1>15. /\ d.to \in Thread \union {NULL} /\ d.pri \in [Thread -> Int]
       /\ \A u \in Thread :
              \/ d.pri[u] = pri[u]
              \/ d.pri[u] = pri[from] /\ pri[u] < pri[from]
       /\ d.to = to \/ d.pri[to] >= pri[from]
       /\ \A u \in Thread : d.pri[u] # pri[u] =>
              waits_for(u) \in {NULL, d.to} \/ d.pri[waits_for(u)] >= pri[from]
  BY DEF S, Donations, Reaches
<1>16. d.to = NULL \/ d.pri[d.to] >= pri[from]
  BY <1>12, <1>13, <1>15 DEF OnItsWay
<1>17. to # NULL
  BY Distinct
<1> QED BY <1>14, <1>15, <1>16, <1>17

-----------------------------------------------------------------------------
(* Types, whatever state the lists are in: no walk runs into a null        *)
(* pointer.                                                                *)

Status == {"RUNNING", "READY", "BLOCKED"}
Outcome == {"ok", "panic", "hang", "list_front"}

DataOK ==
    /\ status \in [Thread -> Status]
    /\ priority \in [Thread -> Priority]
    /\ base_priority \in [Thread -> Priority]
    /\ waiting_lock \in [Thread -> Lock \union {NULL}]
    /\ outcome \in Outcome
    /\ LinkOK(link)

\* The part of it that the scheduler changes, and the part that it does not.
MachineOK == LinkOK(link) /\ status \in [Thread -> Status] /\ outcome \in Outcome

\* Together with what mutual exclusion rests on, these are all the types.
LEMMA TypesJoin ==
  OwnerInv /\ DataOK => TypeOK
BY DEF OwnerInv, DataOK, TypeOK, Status, Outcome, LinkOK, Elem

\* Threads' priorities are numbers that list_insert_ordered can compare.
LEMMA PriorityIsInt ==
  /\ \A p \in [Thread -> Priority] : p \in [Thread -> Int]
  /\ Priority \subseteq Int
BY ArgumentAssumption DEF Priority

\* The lists that a thread can be on.
LEMMA ThreadLists ==
  /\ ready_list \in ThreadList
  /\ \A l \in Lock : waiters(l) \in ThreadList
  /\ \A s \in Sema : sema_waiters(s) \in ThreadList
  /\ \A t \in Thread : locks_held(t) \in HeldList
  /\ IsSide(Thread, ThreadList) /\ IsSide(Lock, HeldList)
BY DEF ThreadList, HeldList, IsSide

\* A thread that a sound pointer leads to has been on a list.
LEMMA FrontIsLinked ==
  ASSUME NEW m, LinkOK(m), NEW list \in ThreadList, begin(m, list) \in Thread
  PROVE  begin(m, list) \in Linked(m, Thread)
<1>1. head(list) \in Heads(ThreadList)
  BY DEF Heads
<1>2. begin(m, list) \in Linked(m, Thread) \union Ends(ThreadList)
  BY <1>1 DEF LinkOK, Sound, begin
<1> QED BY <1>2, ThreadLists, SideParts

\* list_insert_ordered, whatever it does.
LEMMA InsertTypes ==
  ASSUME NEW m, LinkOK(m), NEW list \in ThreadList, NEW elem \in Thread,
         NEW pri \in [Thread -> Int], NEW r \in list_insert_ordered(m, list, elem, pri)
  PROVE  LinkOK(r.link) /\ r.outcome \in {"ok", "panic", "hang"}
<1>1. CASE r.outcome \in {"panic", "hang"} /\ r.link = m
  BY <1>1
<1>2. CASE ~(r.outcome \in {"panic", "hang"} /\ r.link = m)
  <2>1. PICK before \in Linked(m, Thread) \union Ends(ThreadList) :
            before # elem /\ r.link = list_insert(m, before, elem) /\ r.outcome = "ok"
    BY <1>2, OrderedInsert
  <2>2. LinkOK(list_insert(m, before, elem))
    BY <2>1, InsertSound, ThreadLists
  <2> QED BY <2>1, <2>2
<1> QED BY <1>1, <1>2

\* The tail of the run queue is not a thread.
LEMMA QueueTail ==
  /\ tail(ready_list) \notin Thread
  /\ \A list \in ThreadList : tail(list) \in Tails /\ tail(list) \notin Thread
BY ThreadLists, Kinds, NodesApart DEF Ends

\* schedule() keeps the types.
LEMMA ScheduleTypes ==
  ASSUME NEW m, NEW st, LinkOK(m), st \in [Thread -> Status], schedule(m, st), MachineOK
  PROVE  MachineOK'
<1>1. CASE begin(m, ready_list) = tail(ready_list)
  BY <1>1, QueueTail DEF schedule, MachineOK
<1>2. CASE begin(m, ready_list) \in Thread /\ begin(m, ready_list) # tail(ready_list)
  <2> DEFINE n == begin(m, ready_list)
  <2>1. n \in Linked(m, Thread)
    BY <1>2, FrontIsLinked, ThreadLists
  <2>2. status' = [st EXCEPT ![n] = "RUNNING"] /\ link' = list_remove(m, n)
        /\ UNCHANGED outcome
    BY <1>2 DEF schedule
  <2>3. LinkOK(list_remove(m, n))
    BY <2>1, RemoveSound, ThreadLists
  <2> QED BY <2>2, <2>3 DEF MachineOK, Status
<1>3. CASE begin(m, ready_list) \notin Thread \union {tail(ready_list)}
  BY <1>3 DEF schedule, Stop, MachineOK, Outcome
<1> QED BY <1>1, <1>2, <1>3

\* thread_yield keeps the types.
LEMMA YieldTypes ==
  ASSUME NEW m, NEW st, NEW pri \in [Thread -> Int], LinkOK(m),
         st \in [Thread -> Status], cur \in Thread \union {Idle},
         thread_yield(m, st, pri), MachineOK
  PROVE  MachineOK'
<1>1. CASE cur = Idle
  BY <1>1, ScheduleTypes DEF thread_yield
<1>2. CASE cur # Idle
  <2>0. PICK me \in Thread : me = cur
    BY <1>2
  <2>1. PICK r \in list_insert_ordered(m, ready_list, me, pri) :
            IF r.outcome = "ok"
            THEN schedule(r.link, [st EXCEPT ![me] = "READY"])
            ELSE Stop(r.outcome)
    BY <1>2, <2>0 DEF thread_yield
  <2>2. LinkOK(r.link) /\ r.outcome \in {"ok", "panic", "hang"}
    BY InsertTypes, ThreadLists
  <2>3. [st EXCEPT ![me] = "READY"] \in [Thread -> Status]
    BY DEF Status
  <2>4. CASE r.outcome = "ok"
    BY <2>1, <2>2, <2>3, <2>4, ScheduleTypes
  <2>5. CASE r.outcome # "ok"
    BY <2>1, <2>2, <2>5 DEF Stop, MachineOK, Outcome
  <2> QED BY <2>4, <2>5
<1> QED BY <1>1, <1>2

\* check_preemption keeps the types.
LEMMA CheckTypes ==
  ASSUME NEW m, NEW st, NEW pri \in [Thread -> Int], LinkOK(m),
         st \in [Thread -> Status], cur \in Thread \union {Idle},
         check_preemption(m, st, pri), MachineOK
  PROVE  MachineOK'
<1>1. PICK higher \in outranked(m, pri) :
          IF higher THEN thread_yield(m, st, pri)
          ELSE link' = m /\ status' = st /\ UNCHANGED <<cur, outcome>>
  BY DEF check_preemption
<1>2. CASE higher
  BY <1>1, <1>2, YieldTypes
<1>3. CASE ~higher
  BY <1>1, <1>3 DEF MachineOK
<1> QED BY <1>2, <1>3

\* A round of sema_down that blocks the thread keeps the types.
LEMMA BlockTypes ==
  ASSUME NEW s \in Sema, block_on(s), cur \in Thread, MachineOK,
         priority \in [Thread -> Priority]
  PROVE  MachineOK'
<1>0. PICK me \in Thread : me = cur
  OBVIOUS
<1>1. PICK r \in list_insert_ordered(link, sema_waiters(s), me, priority) :
          IF r.outcome = "ok"
          THEN schedule(r.link, [status EXCEPT ![me] = "BLOCKED"])
          ELSE Stop(r.outcome)
  BY <1>0 DEF block_on
<1>2. LinkOK(r.link) /\ r.outcome \in {"ok", "panic", "hang"}
  BY InsertTypes, ThreadLists, PriorityIsInt DEF MachineOK
<1>3. [status EXCEPT ![me] = "BLOCKED"] \in [Thread -> Status]
  BY DEF Status, MachineOK
<1>4. CASE r.outcome = "ok"
  BY <1>1, <1>2, <1>3, <1>4, ScheduleTypes
<1>5. CASE r.outcome # "ok"
  BY <1>1, <1>2, <1>5 DEF Stop, MachineOK, Outcome
<1> QED BY <1>4, <1>5

\* What sema_up leaves.
LEMMA SemaUpTypes ==
  ASSUME NEW m, LinkOK(m), NEW s \in Sema, status \in [Thread -> Status],
         priority \in [Thread -> Priority], NEW r \in sema_up(m, s)
  PROVE  /\ LinkOK(r.link) /\ r.status \in [Thread -> Status]
         /\ r.outcome \in {"ok", "panic", "hang"}
<1> DEFINE front == begin(m, sema_waiters(s))
<1>1. CASE r = [outcome |-> "ok", link |-> m, status |-> status]
  BY <1>1
<1>2. CASE r = [outcome |-> "panic", link |-> m, status |-> status]
  BY <1>2
<1>3. CASE /\ front \in Thread
           /\ \E q \in list_insert_ordered(list_remove(m, front), ready_list, front, priority) :
                  r = [outcome |-> q.outcome, link |-> q.link,
                       status |-> [status EXCEPT ![front] = "READY"]]
  <2>1. PICK t \in Thread : t = front
    BY <1>3
  <2>2. PICK q \in list_insert_ordered(list_remove(m, t), ready_list, t, priority) :
            r = [outcome |-> q.outcome, link |-> q.link,
                 status |-> [status EXCEPT ![t] = "READY"]]
    BY <1>3, <2>1
  <2>3. t \in Linked(m, Thread)
    BY <2>1, FrontIsLinked, ThreadLists
  <2>4. LinkOK(list_remove(m, t))
    BY <2>3, RemoveSound, ThreadLists
  <2>5. LinkOK(q.link) /\ q.outcome \in {"ok", "panic", "hang"}
    BY <2>4, InsertTypes, ThreadLists, PriorityIsInt
  <2> QED BY <2>2, <2>5 DEF Status
<1> QED BY <1>1, <1>2, <1>3 DEF sema_up

\* What lock_release leaves of the lists before its sema_up.
LEMMA UnheldTypes ==
  ASSUME LinkOK(link), NEW l \in Lock, cur \in Thread
  PROVE  LinkOK(unheld(l).link) /\ unheld(l).outcome \in {"ok", "panic", "hang"}
<1> DEFINE m == list_remove(link, l)
<1>1. CASE ~is_interior(link, l)
  BY <1>1 DEF unheld
<1>2. CASE is_interior(link, l)
  <2>1. l \in Linked(link, Lock)
    BY <1>2 DEF is_interior, Linked
  <2>2. LinkOK(m)
    BY <2>1, RemoveSound, ThreadLists
  <2>3. unheld(l) = [outcome |-> LoopEnd(m, waiters(l)),
                     link |-> IF cur \in OnList(m, waiters(l)) THEN list_remove(m, cur) ELSE m]
    BY <1>2 DEF unheld
  <2> HIDE DEF m
  <2>4. ASSUME cur \in OnList(m, waiters(l))
        PROVE  LinkOK(list_remove(m, cur))
    <3>1. cur \in Linked(m, Thread)
      BY <2>2, <2>4, MetFacts, ThreadLists
    <3> QED BY <2>2, <3>1, RemoveSound, ThreadLists
  <2> QED BY <2>2, <2>3, <2>4, LoopEnds
<1> QED BY <1>1, <1>2

\* A set of priorities has a highest one.
LEMMA HighestPriority ==
  ASSUME NEW S \in SUBSET Priority, S # {}
  PROVE  Max(S) \in S /\ \A p \in S : Max(S) >= p
<1>1. PRI_MAX \in Nat /\ S \subseteq 0..PRI_MAX
  BY ArgumentAssumption DEF Priority
<1> DEFINE T == {n \in Nat : PRI_MAX - n \in S}
<1>2. ASSUME NEW p \in S
      PROVE  PRI_MAX - p \in T
  <2>1. PRI_MAX - p \in Nat /\ PRI_MAX - (PRI_MAX - p) = p
    BY <1>1
  <2> QED BY <2>1
<1>3. PICK n \in T : \A k \in T : n <= k
  BY <1>2, LeastNat
<1>4. PRI_MAX - n \in S /\ n \in Nat
  OBVIOUS
<1> HIDE DEF T
<1>5. \A p \in S : PRI_MAX - n >= p
  BY <1>1, <1>2, <1>3, <1>4
<1> QED BY <1>4, <1>5 DEF Max

\* The threads whose priority refresh_priority looks at.
donors(t) == UNION {OnList(link, waiters(l)) : l \in OnList(link, locks_held(t))}

\* refresh_priority finds a priority, the highest there is.
LEMMA RefreshTypes ==
  ASSUME LinkOK(link), priority \in [Thread -> Priority],
         base_priority \in [Thread -> Priority], NEW t \in Thread
  PROVE  /\ donors(t) \subseteq Thread
         /\ OnList(link, locks_held(t)) \subseteq Lock
         /\ refreshed(t) \in Priority
         /\ refreshed(t) >= base_priority[t]
         /\ \A u \in donors(t) : refreshed(t) >= priority[u]
<1>1. OnList(link, locks_held(t)) \subseteq Lock
  BY MetFacts, ThreadLists DEF Linked
<1>2. \A l \in Lock : OnList(link, waiters(l)) \subseteq Thread
  BY MetFacts, ThreadLists DEF Linked
<1>3. donors(t) \subseteq Thread
  BY <1>1, <1>2 DEF donors
<1> DEFINE S == {base_priority[t]} \union {priority[u] : u \in donors(t)}
<1>4. S \in SUBSET Priority /\ S # {}
  BY <1>3
<1>5. refreshed(t) = Max(S)
  BY DEF refreshed, donors
<1>6. refreshed(t) \in S /\ \A p \in S : refreshed(t) >= p
  BY <1>4, <1>5, HighestPriority
<1> HIDE DEF donors
<1> QED BY <1>1, <1>3, <1>4, <1>6

\* lock_acquire past the semaphore puts the lock at the end of locks_held.
LEMMA TakeTypes ==
  ASSUME OwnerInv, DataOK, NEW l \in Lock, cur \in Thread, take(l),
         UNCHANGED <<priority, base_priority>>
  PROVE  DataOK'
<1>0. PICK me \in Thread : me = cur
  OBVIOUS
<1>1. /\ link' = list_insert(link, tail(locks_held(me)), l)
      /\ waiting_lock' = [waiting_lock EXCEPT ![me] = NULL]
      /\ UNCHANGED <<status, outcome>>
  BY <1>0 DEF take, list_push_back
<1>2. tail(locks_held(me)) \in Ends(HeldList) /\ l # tail(locks_held(me))
  BY ThreadLists, Kinds, NodesApart DEF Ends
<1>3. LinkOK(list_insert(link, tail(locks_held(me)), l))
  BY <1>2, InsertSound, ThreadLists DEF DataOK
<1> QED BY <1>1, <1>3 DEF DataOK

\* sema_down of a lock's semaphore keeps the types.
LEMMA LoopTypes ==
  ASSUME OwnerInv, DataOK, NEW l \in Lock, cur \in Thread, sema_down_loop(l),
         UNCHANGED <<priority, base_priority>>
  PROVE  DataOK'
<1>1. CASE value[l] = 0
  <2>1. block_on(l) /\ l \in Sema
    BY <1>1, Distinct DEF sema_down_loop
  <2>2. UNCHANGED waiting_lock
    BY <2>1 DEF block_on
  <2>3. MachineOK'
    BY <2>1, BlockTypes DEF DataOK, MachineOK
  <2> QED BY <2>2, <2>3 DEF DataOK, MachineOK
<1>2. CASE value[l] # 0
  BY <1>2, TakeTypes DEF sema_down_loop
<1> QED BY <1>1, <1>2

\* lock_acquire of a lock that is held keeps the types.
LEMMA AcquireHeldTypes ==
  ASSUME OwnerInv, DataOK, NEW l \in Lock, AcquireHeld(l)
  PROVE  DataOK'
<1>0. cur \in Thread
  BY AtRuns DEF AcquireHeld
<1>1. PICK me \in Thread : me = cur
  BY <1>0
<1>2. PICK h \in Thread : h = holder[l]
  BY DEF AcquireHeld, OwnerInv
<1>3. PICK r \in list_insert_ordered(link, waiters(l), me, priority) :
          outcome' = r.outcome /\ link' = r.link
  BY <1>1 DEF AcquireHeld
<1>4. LinkOK(r.link) /\ r.outcome \in {"ok", "panic", "hang"}
  BY InsertTypes, ThreadLists, PriorityIsInt DEF DataOK
<1>5. priority' = priority \/ priority' = donate_priority(me, h, priority)
  BY <1>1, <1>2 DEF AcquireHeld
<1>6. donate_priority(me, h, priority) \in [Thread -> Priority]
  <2> DEFINE D == donate_priority(me, h, priority)
  <2>0. /\ waiting_lock \in [Thread -> Lock \union {NULL}]
        /\ holder \in [Lock -> Thread \union {NULL}]
        /\ priority \in [Thread -> Int]
    BY PriorityIsInt DEF OwnerInv, DataOK
  <2>1. D \in [Thread -> Int] /\ \A u \in Thread : D[u] = priority[u] \/ D[u] = priority[me]
    BY <2>0, DonateReaches
  <2> HIDE DEF D
  <2>2. \A u \in Thread : D[u] \in Priority
    BY <2>1 DEF DataOK
  <2> QED BY <2>1, <2>2 DEF D
<1>7. waiting_lock' = [waiting_lock EXCEPT ![me] = l] /\ UNCHANGED <<status, base_priority>>
  BY <1>1 DEF AcquireHeld
<1>8. priority' \in [Thread -> Priority]
  BY <1>5, <1>6 DEF DataOK
<1> QED BY <1>3, <1>4, <1>7, <1>8 DEF DataOK, Outcome

\* lock_release keeps the types.
LEMMA ReleaseTypes ==
  ASSUME OwnerInv, DataOK, NEW l \in Lock, LockRelease(l)
  PROVE  DataOK'
<1>0. cur \in Thread
  BY AtRuns DEF LockRelease
<1>1. LinkOK(unheld(l).link) /\ unheld(l).outcome \in {"ok", "panic", "hang"}
  BY <1>0, UnheldTypes DEF DataOK
<1>2. UNCHANGED <<priority, base_priority, waiting_lock>>
  BY DEF LockRelease
<1>3. MachineOK'
  <2>1. CASE unheld(l).outcome # "ok"
    BY <1>1, <2>1 DEF LockRelease, Stop, MachineOK, DataOK, Outcome
  <2>2. CASE unheld(l).outcome = "ok"
    <3>1. PICK r \in sema_up(unheld(l).link, l) :
              IF r.outcome = "ok"
              THEN check_preemption(r.link, r.status, priority)
              ELSE Stop(r.outcome)
      BY <2>2 DEF LockRelease
    <3>2. /\ LinkOK(r.link) /\ r.status \in [Thread -> Status]
          /\ r.outcome \in {"ok", "panic", "hang"}
      BY <1>1, SemaUpTypes, Distinct DEF DataOK
    <3>3. CASE r.outcome = "ok"
      BY <1>0, <3>1, <3>2, <3>3, CheckTypes, PriorityIsInt DEF DataOK, MachineOK
    <3>4. CASE r.outcome # "ok"
      BY <3>1, <3>2, <3>4 DEF Stop, MachineOK, DataOK, Outcome
    <3> QED BY <3>3, <3>4
  <2> QED BY <2>1, <2>2
<1> QED BY <1>2, <1>3 DEF DataOK, MachineOK

\* The end of lock_release, refresh_priority and all, keeps the types.
LEMMA RefreshStepTypes ==
  ASSUME OwnerInv, DataOK, Refresh
  PROVE  DataOK'
<1>0. cur \in Thread
  BY AtRuns DEF Refresh
<1>1. PICK me \in Thread : me = cur
  BY <1>0
<1>2. UNCHANGED <<base_priority, waiting_lock>>
  BY DEF Refresh
<1>3. CASE priority' = [priority EXCEPT ![me] = refreshed(me)]
           /\ check_preemption(link, status, priority')
  <2>1. refreshed(me) \in Priority
    BY RefreshTypes DEF DataOK
  <2>2. PICK pri \in [Thread -> Priority] : pri = priority'
    BY <1>3, <2>1 DEF DataOK
  <2>3. check_preemption(link, status, pri)
    BY <1>3, <2>2 DEF check_preemption, outranked, thread_yield, list_insert_ordered
  <2>4. MachineOK'
    BY <1>0, <2>3, CheckTypes, PriorityIsInt DEF DataOK, MachineOK
  <2> QED BY <1>2, <2>2, <2>4 DEF DataOK, MachineOK
<1>4. CASE UNCHANGED priority /\ \E why \in {"panic", "hang"} : Stop(why)
  BY <1>2, <1>4 DEF DataOK, Stop, Outcome
<1>5. \A list \in refresh_lists(me) : LoopEnd(link, list) \in {"ok", "panic", "hang"}
  BY LoopEnds
<1> QED BY <1>1, <1>3, <1>4, <1>5 DEF Refresh

\* What a thread calls keeps the types.
LEMMA CallTypes ==
  ASSUME OwnerInv, DataOK, Call
  PROVE  DataOK'
<1>1. ASSUME NEW l \in Lock, AcquireFree(l)
      PROVE  DataOK'
  <2>1. cur \in Thread
    BY <1>1, AtRuns DEF AcquireFree
  <2> QED BY <1>1, <2>1, LoopTypes DEF AcquireFree
<1>2. ASSUME NEW l \in TryLock, TryAcquire(l)
      PROVE  DataOK'
  BY <1>2 DEF TryAcquire, DataOK
<1>3. ASSUME NEW pri \in NewPriority, ThreadSetPriority(pri)
      PROVE  DataOK'
  <2>1. cur \in Thread /\ pri \in Priority
    BY <1>3, AtRuns, ArgumentAssumption DEF ThreadSetPriority, Priority
  <2> QED BY <1>3, <2>1 DEF ThreadSetPriority, DataOK
<1> QED BY <1>1, <1>2, <1>3, AcquireHeldTypes, ReleaseTypes DEF Call

\* The rest of a call keeps the types.
LEMMA ContinueTypes ==
  ASSUME OwnerInv, DataOK, Continue \/ SemaDown
  PROVE  DataOK'
<1>1. CASE TryOwn
  BY <1>1 DEF TryOwn, DataOK
<1>2. CASE Refresh
  BY <1>2, RefreshStepTypes
<1>3. CASE Check
  <2>1. cur \in Thread /\ check_preemption(link, status, priority)
        /\ UNCHANGED <<priority, base_priority, waiting_lock>>
    BY <1>3, AtRuns DEF Check
  <2>2. MachineOK'
    BY <2>1, CheckTypes, PriorityIsInt DEF DataOK, MachineOK
  <2> QED BY <2>1, <2>2 DEF DataOK, MachineOK
<1>4. CASE SemaDown
  <2>1. cur \in Thread /\ sema_down_loop(lock[cur]) /\ lock[cur] \in Lock
        /\ UNCHANGED <<priority, base_priority>>
    BY <1>4, AtRuns DEF SemaDown, At, OwnerInv
  <2> QED BY <2>1, LoopTypes
<1> QED BY <1>1, <1>2, <1>3, <1>4 DEF Continue

\* Interrupts keep the types.
LEMMA InterruptTypes ==
  ASSUME OwnerInv, DataOK, Interrupt
  PROVE  DataOK'
<1>1. ASSUME NEW t \in Thread, TimerWakeup(t)
      PROVE  DataOK'
  <2>1. PICK r \in list_insert_ordered(link, ready_list, t, priority) :
            outcome' = r.outcome /\ link' = r.link
    BY <1>1 DEF TimerWakeup
  <2>2. LinkOK(r.link) /\ r.outcome \in {"ok", "panic", "hang"}
    BY InsertTypes, ThreadLists, PriorityIsInt DEF DataOK
  <2>3. status' \in [Thread -> Status]
    BY <1>1 DEF TimerWakeup, DataOK, Status
  <2> QED BY <1>1, <2>1, <2>2, <2>3 DEF TimerWakeup, DataOK, Outcome
<1>2. ASSUME Preempt
      PROVE  DataOK'
  <2>1. cur \in Thread \union {Idle} /\ thread_yield(link, status, priority)
        /\ UNCHANGED <<priority, base_priority, waiting_lock>>
    BY <1>2 DEF Preempt, OwnerInv, threadVars
  <2>2. MachineOK'
    BY <2>1, YieldTypes, PriorityIsInt DEF DataOK, MachineOK
  <2> QED BY <2>1, <2>2 DEF DataOK, MachineOK
<1> QED BY <1>1, <1>2 DEF Interrupt

\* The kernel starts with empty lists, which are sound.
LEMMA EmptySound ==
  /\ LinkOK(EmptyLists)
  /\ \A e \in Thread \union Lock : EmptyLists[e] = [prev |-> NULL, next |-> NULL]
  /\ \A list \in List :
         /\ EmptyLists[tail(list)] = [prev |-> head(list), next |-> NULL]
         /\ EmptyLists[head(list)] = [prev |-> NULL, next |-> tail(list)]
<1>1. ASSUME NEW e \in Thread \union Lock
      PROVE  EmptyLists[e] = [prev |-> NULL, next |-> NULL] /\ e \in Node
  <2>1. e \in Node /\ e \notin Tails
    BY Kinds, NodesApart
  <2> QED BY <2>1 DEF EmptyLists
<1>2. ASSUME NEW list \in List
      PROVE  EmptyLists[tail(list)] = [prev |-> head(list), next |-> NULL]
  <2>1. tail(list) \in Node /\ tail(list) \in Tails /\ tail(list)[1] = list
        /\ tail(list) \notin Thread \union Lock
    BY Kinds, NodesApart DEF tail, Tails
  <2> QED BY <2>1 DEF EmptyLists
<1>3. ASSUME NEW list \in List
      PROVE  EmptyLists[head(list)] = [prev |-> NULL, next |-> tail(list)]
  <2>1. head(list) \in Heads(List) /\ head(list)[1] = list
    BY DEF head, Heads
  <2>2. head(list) \in Node /\ head(list) \notin Tails
        /\ head(list) \notin Thread \union Lock
    BY <2>1, Kinds, NodesApart
  <2> QED BY <2>1, <2>2 DEF EmptyLists
<1>4. \A list \in List : tail(list) \in Node /\ head(list) \in Node
  BY Kinds DEF Tails, Heads
<1>5. EmptyLists \in [Node -> Elem]
  <2>1. ASSUME NEW n \in Node
        PROVE  EmptyLists[n] \in Elem
    <3>1. CASE n \in Thread \union Lock
      BY <1>1, <3>1 DEF Elem
    <3>2. CASE n \in Tails
      <4>1. PICK list \in List : n = tail(list)
        BY <3>2 DEF Tails
      <4>2. EmptyLists[n] = [prev |-> head(list), next |-> NULL] /\ head(list) \in Node
        BY <1>2, <1>4, <4>1
      <4> QED BY <4>2 DEF Elem
    <3>3. CASE n \in Heads(List)
      <4>1. PICK list \in List : n = head(list)
        BY <3>3 DEF Heads
      <4>2. EmptyLists[n] = [prev |-> NULL, next |-> tail(list)] /\ tail(list) \in Node
        BY <1>3, <1>4, <4>1
      <4> QED BY <4>2 DEF Elem
    <3> QED BY <3>1, <3>2, <3>3, Kinds
  <2>2. EmptyLists = [n \in Node |-> EmptyLists[n]]
    BY DEF EmptyLists
  <2> QED BY <2>1, <2>2
<1>6. Linked(EmptyLists, Thread) = {} /\ Linked(EmptyLists, Lock) = {}
  BY <1>1 DEF Linked
<1>7. ASSUME NEW list \in List
      PROVE  EmptyLists[tail(list)].prev = head(list)
             /\ EmptyLists[head(list)].next = tail(list)
  <2>1. EmptyLists[tail(list)] = [prev |-> head(list), next |-> NULL]
        /\ EmptyLists[head(list)] = [prev |-> NULL, next |-> tail(list)]
    BY <1>2, <1>3
  <2> QED BY <2>1
<1>8. ASSUME NEW E, NEW lists, lists \subseteq List, Linked(EmptyLists, E) = {}
      PROVE  Sound(EmptyLists, E, lists)
  BY <1>7, <1>8 DEF Sound, Heads, Ends
<1> QED BY <1>1, <1>2, <1>3, <1>5, <1>6, <1>8, Kinds DEF LinkOK

\* The types at the start.
LEMMA InitTypes == Init => DataOK
BY EmptySound DEF Init, DataOK, Status, Outcome

\* A step of the locks keeps mutual exclusion and the types.
LEMMA NextTypes ==
  ASSUME OwnerInv, DataOK, [Next]_vars
  PROVE  OwnerInv' /\ DataOK'
<1>1. CASE Next
  BY <1>1, CallOwns, SemaDownStepOwns, ContinueOwns, InterruptOwns,
     CallTypes, ContinueTypes, InterruptTypes DEF Next
<1>2. CASE UNCHANGED vars
  BY <1>2 DEF OwnerInv, Owners, DataOK, vars, threadVars
<1> QED BY <1>1, <1>2

\* Types of the lock code, whatever a contended lock_acquire has done to the
\* lists: every pointer that a list operation follows leads to an element,
\* never to NULL, and every number it takes for a priority is one.
THEOREM LockTypes == Spec => []TypeOK
<1>1. Init => OwnerInv /\ DataOK
  BY InitOwns, InitTypes
<1>2. OwnerInv /\ DataOK /\ [Next]_vars => (OwnerInv /\ DataOK)'
  BY NextTypes
<1> QED BY <1>1, <1>2, TypesJoin, PTL DEF Spec

-----------------------------------------------------------------------------
(* What a contended lock_acquire leaves of the lists.  A thread that has   *)
(* never found a lock held is `clean'.                                     *)

From == Thread \union Heads(ThreadList)
To == Thread \union Ends(ThreadList)

\* Nothing leads to t.
Loose(m, t) == \A n \in From : m[n].next # t

\* What leads to a clean thread, not counting the nodes of `out', is what the
\* thread's `prev' names: it is on one list at most.
Backed(m, out, clean) ==
    \A n \in From \ out : \A t \in clean : m[n].next = t => m[t].prev = n

\* A list that has been empty so far; and one whose tail is out of reach.
Untouched(m, list) ==
    /\ m[head(list)].next = tail(list) /\ m[tail(list)].prev = head(list)
    /\ \A n \in From \ {head(list)} : m[n].next # tail(list)
    /\ \A n \in To \ {tail(list)} : m[n].prev # head(list)
Cut(m, list) == \A n \in From : m[n].next # tail(list)

\* t has just been put on the list, which was empty.
FreshOn(m, t, list) ==
    /\ \A n \in From \ {t} : m[n].next # tail(list)
    /\ \A n \in From \ {head(list)} : m[n].next # t

\* The waiters of the locks, where `contested' are those some thread has found
\* held and `fresh' the thread, if any, that is still to go on to the semaphore.
WaitersOK(m, contested, fresh) ==
    \A l \in Lock :
        IF l \in contested
        THEN Cut(m, waiters(l)) \/ \E t \in fresh : FreshOn(m, t, waiters(l))
        ELSE Untouched(m, waiters(l))

\* The memory of the thread lists as a whole.
Memory(m, out, clean, loose, contested, fresh) ==
    /\ LinkOK(m)
    /\ Backed(m, out, clean)
    /\ \A t \in loose : Loose(m, t)
    /\ WaitersOK(m, contested, fresh)

\* A walk meets only what something leads to.
LEMMA MetIsLedTo ==
  ASSUME NEW m, LinkOK(m), NEW list \in ThreadList, NEW b \in Met(m, list)
  PROVE  /\ b \in To
         /\ \/ m[head(list)].next = b
            \/ \E n \in Thread : n \in Met(m, list) /\ m[n].next = b
         /\ ~Loose(m, b)
<1>1. /\ b \in Linked(m, Thread) \union Ends(ThreadList)
      /\ \/ b = begin(m, list)
         \/ \E n \in Linked(m, Thread) : n \in Met(m, list) /\ b = m[n].next
  BY MetFacts, ThreadLists
<1>2. head(list) \in From
  BY DEF From, Heads
<1> QED BY <1>1, <1>2 DEF To, Linked, begin, Loose, From

\* So it does not meet a tail that is out of reach, the tail of another list
\* that has been empty so far, or a thread that is fresh on another list.
LEMMA NotMet ==
  ASSUME NEW m, LinkOK(m), NEW list \in ThreadList, NEW x \in ThreadList
  PROVE  /\ Cut(m, x) => tail(x) \notin Met(m, list)
         /\ Untouched(m, x) /\ list # x => tail(x) \notin Met(m, list)
         /\ \A t \in Thread : FreshOn(m, t, x) /\ list # x =>
                t \notin Met(m, list) /\ tail(x) \notin Met(m, list)
<1>1. \A b \in Met(m, list) :
          \/ m[head(list)].next = b
          \/ \E n \in Thread : n \in Met(m, list) /\ m[n].next = b
  BY MetIsLedTo
<1>2. head(list) \in From /\ Thread \subseteq From
  BY DEF From, Heads
<1>3. head(list) = head(x) => list = x
  BY HeadNotTail
<1>4. head(x) \notin Thread /\ head(list) \notin Thread
  BY ThreadLists, SideParts DEF Heads
<1>5. Cut(m, x) => tail(x) \notin Met(m, list)
  BY <1>1, <1>2 DEF Cut
<1>6. Untouched(m, x) /\ list # x => tail(x) \notin Met(m, list)
  BY <1>1, <1>2, <1>3, <1>4 DEF Untouched
<1>7. ASSUME NEW t \in Thread, FreshOn(m, t, x), list # x
      PROVE  t \notin Met(m, list) /\ tail(x) \notin Met(m, list)
  <2>1. t \notin Met(m, list)
    BY <1>1, <1>2, <1>3, <1>4, <1>7 DEF FreshOn
  <2> QED BY <1>1, <1>2, <1>4, <1>7, <2>1 DEF FreshOn
<1> QED BY <1>5, <1>6, <1>7

\* list_insert_ordered as far as the nodes of the thread lists go.
Inserted(m, list, e, b, r) ==
    /\ b \in Met(m, list) /\ b \in To /\ b # e
    /\ m[b].prev \in From
    /\ LinkOK(r)
    /\ \A n \in From : r[n].next = IF n = m[b].prev THEN e
                                   ELSE IF n = e THEN b ELSE m[n].next
    /\ \A n \in To : r[n].prev = IF n = b THEN e
                                 ELSE IF n = e THEN m[b].prev ELSE m[n].prev

\* The threads' nodes are nodes.
LEMMA FromTo ==
  /\ From \subseteq Node /\ To \subseteq Node /\ Thread \subseteq From /\ Thread \subseteq To
  /\ \A list \in ThreadList : /\ head(list) \in From /\ tail(list) \in To
                              /\ head(list) \notin To /\ tail(list) \notin From
                              /\ head(list) \notin Thread /\ tail(list) \notin Thread
<1>1. IsSide(Thread, ThreadList)
  BY ThreadLists
<1>2. From \subseteq Node /\ To \subseteq Node
  BY <1>1, SideParts DEF Side, From, To
<1> QED BY <1>1, <1>2, SideParts DEF From, To, Heads, Ends

\* An insertion that does not stop the kernel.
LEMMA InsertIsInserted ==
  ASSUME NEW m, LinkOK(m), NEW list \in ThreadList, NEW e \in Thread,
         NEW pri \in [Thread -> Int], NEW r \in list_insert_ordered(m, list, e, pri),
         r.outcome = "ok"
  PROVE  \E b : Inserted(m, list, e, b, r.link)
<1>1. PICK b \in Met(m, list) :
          /\ b \in Linked(m, Thread) \union Ends(ThreadList)
          /\ b # e
          /\ r.link = list_insert(m, b, e)
  BY OrderedInsert
<1> DEFINE q == list_insert(m, b, e)
           p == m[b].prev
<1>2. /\ LinkOK(q)
      /\ p \in Linked(m, Thread) \union Heads(ThreadList)
      /\ \A n \in Node :
             /\ q[n].next = IF n = p THEN e ELSE IF n = e THEN b ELSE m[n].next
             /\ q[n].prev = IF n = b THEN e ELSE IF n = e THEN p ELSE m[n].prev
  BY <1>1, InsertSound, ThreadLists
<1>3. p \in From /\ b \in To
  BY <1>1, <1>2 DEF From, To, Linked
<1> HIDE DEF q
<1>4. Inserted(m, list, e, b, q)
  BY <1>1, <1>2, <1>3, FromTo DEF Inserted
<1> QED BY <1>1, <1>4 DEF q

\* An insertion keeps the threads backed that were backed without regard to
\* the element inserted.
LEMMA InsertBacks ==
  ASSUME NEW m, NEW list \in ThreadList, NEW e \in Thread, NEW b, NEW r,
         Inserted(m, list, e, b, r), NEW out, NEW clean \in SUBSET Thread,
         Backed(m, out \union {e}, clean),
         e \in clean => \A n \in From \ (out \union {e}) : m[n].next # e
  PROVE  Backed(r, out, clean)
<1>1. ASSUME NEW n \in From \ out, NEW t \in clean, r[n].next = t
      PROVE  r[t].prev = n
  <2>1. t \in To /\ e \in To /\ e \in From
    BY FromTo
  <2>2. CASE n = m[b].prev
    BY <1>1, <2>1, <2>2 DEF Inserted
  <2>3. CASE n = e /\ n # m[b].prev
    BY <1>1, <2>1, <2>3 DEF Inserted
  <2>4. CASE n # e /\ n # m[b].prev
    <3>1. m[n].next = t /\ n \in From \ (out \union {e})
      BY <1>1, <2>4 DEF Inserted
    <3>2. m[t].prev = n /\ t # b /\ t # e
      BY <2>4, <3>1 DEF Backed
    <3> QED BY <2>1, <3>2 DEF Inserted
  <2> QED BY <2>2, <2>3, <2>4
<1> QED BY <1>1 DEF Backed

\* It leads to nothing new but the element and what was met.
LEMMA InsertKeepsLoose ==
  ASSUME NEW m, LinkOK(m), NEW list \in ThreadList, NEW e \in Thread, NEW b, NEW r,
         Inserted(m, list, e, b, r), NEW t, t # e, Loose(m, t)
  PROVE  Loose(r, t)
<1>1. b # t
  BY MetIsLedTo DEF Inserted
<1> QED BY <1>1 DEF Inserted, Loose

\* It leaves the tail of every wait list where it was: out of reach, or reached
\* from its own head alone.
LEMMA InsertKeepsWaiters ==
  ASSUME NEW m, LinkOK(m), NEW list \in ThreadList, NEW e \in Thread, NEW b, NEW r,
         Inserted(m, list, e, b, r), NEW x \in ThreadList
  PROVE  /\ Cut(m, x) => Cut(r, x)
         /\ Untouched(m, x) /\ list # x => Untouched(r, x)
         /\ \A t \in Thread : FreshOn(m, t, x) /\ list # x =>
                IF t = e THEN Cut(r, x) ELSE FreshOn(r, t, x)
<1>1. /\ b \in Met(m, list) /\ b \in To /\ b # e
      /\ m[b].prev \in From
      /\ \A n \in From : r[n].next = IF n = m[b].prev THEN e
                                     ELSE IF n = e THEN b ELSE m[n].next
      /\ \A n \in To : r[n].prev = IF n = b THEN e
                                   ELSE IF n = e THEN m[b].prev ELSE m[n].prev
  BY DEF Inserted
<1>2. /\ head(x) \in From /\ tail(x) \in To /\ head(x) \notin Thread /\ tail(x) \notin Thread
      /\ e \in From /\ e \in To
  BY FromTo
<1>3. Cut(m, x) => Cut(r, x)
  <2> SUFFICES ASSUME Cut(m, x) PROVE Cut(r, x)
    OBVIOUS
  <2>1. b # tail(x)
    BY <1>1, NotMet
  <2> QED BY <1>1, <1>2, <2>1 DEF Cut
<1>4. ASSUME Untouched(m, x), list # x
      PROVE  Untouched(r, x)
  <2>1. b # tail(x)
    BY <1>1, <1>4, NotMet
  <2>2. m[b].prev # head(x)
    BY <1>1, <1>4, <2>1 DEF Untouched
  <2> QED BY <1>1, <1>2, <1>4, <2>1, <2>2 DEF Untouched
<1>5. ASSUME NEW t \in Thread, FreshOn(m, t, x), list # x
      PROVE  IF t = e THEN Cut(r, x) ELSE FreshOn(r, t, x)
  <2>1. b # tail(x) /\ b # t
    BY <1>1, <1>5, NotMet
  <2>2. CASE t = e
    BY <1>1, <1>2, <1>5, <2>1, <2>2 DEF Cut, FreshOn
  <2>3. CASE t # e
    BY <1>1, <1>2, <1>5, <2>1, <2>3 DEF FreshOn
  <2> QED BY <2>2, <2>3
<1> QED BY <1>3, <1>4, <1>5

\* All of it for an insertion into the run queue or a semaphore's wait list: the
\* element counts for the rest from now on.
LEMMA InsertMemory ==
  ASSUME NEW m, NEW list \in ThreadList, \A l \in Lock : list # waiters(l),
         NEW e \in Thread, NEW b, NEW r, Inserted(m, list, e, b, r),
         NEW out, NEW clean \in SUBSET Thread, NEW loose, e \notin loose,
         NEW contested, NEW fresh \in SUBSET Thread,
         Memory(m, out \union {e}, clean, loose, contested, fresh),
         e \in clean => \A n \in From \ (out \union {e}) : m[n].next # e
  PROVE  Memory(r, out, clean, loose, contested, fresh \ {e})
<1>1. LinkOK(m) /\ LinkOK(r)
  BY DEF Memory, Inserted
<1>2. Backed(r, out, clean)
  BY InsertBacks DEF Memory
<1>3. \A t \in loose : Loose(r, t)
  BY <1>1, InsertKeepsLoose DEF Memory
<1>4. ASSUME NEW l \in Lock
      PROVE  IF l \in contested
             THEN Cut(r, waiters(l)) \/ \E t \in fresh \ {e} : FreshOn(r, t, waiters(l))
             ELSE Untouched(r, waiters(l))
  <2>1. waiters(l) \in ThreadList /\ list # waiters(l)
    BY ThreadLists
  <2>2. IF l \in contested
        THEN Cut(m, waiters(l)) \/ \E t \in fresh : FreshOn(m, t, waiters(l))
        ELSE Untouched(m, waiters(l))
    BY DEF Memory, WaitersOK
  <2> QED BY <1>1, <2>1, <2>2, InsertKeepsWaiters
<1> QED BY <1>1, <1>2, <1>3, <1>4 DEF Memory, WaitersOK

-----------------------------------------------------------------------------

\* list_remove as far as the nodes of the thread lists go.
Removed(m, e, r) ==
    /\ LinkOK(r)
    /\ m[e].prev \in From /\ m[e].next \in To
    /\ \A n \in From : r[n].next = IF n = m[e].prev THEN m[e].next ELSE m[n].next
    /\ \A n \in To : r[n].prev = IF n = m[e].next THEN m[e].prev ELSE m[n].prev

\* Taking the front off a list.
LEMMA PopIsRemoved ==
  ASSUME NEW m, LinkOK(m), NEW list \in ThreadList, begin(m, list) \in Thread
  PROVE  Removed(m, begin(m, list), list_remove(m, begin(m, list)))
<1> DEFINE e == begin(m, list)
           r == list_remove(m, e)
<1>1. e \in Linked(m, Thread)
  BY FrontIsLinked
<1>2. /\ LinkOK(r)
      /\ m[e].prev \in Linked(m, Thread) \union Heads(ThreadList)
      /\ m[e].next \in Linked(m, Thread) \union Ends(ThreadList)
      /\ \A n \in Node :
             /\ r[n].next = IF n = m[e].prev THEN m[e].next ELSE m[n].next
             /\ r[n].prev = IF n = m[e].next THEN m[e].prev ELSE m[n].prev
  BY <1>1, RemoveSound, ThreadLists
<1> HIDE DEF r, e
<1>3. m[e].prev \in From /\ m[e].next \in To
  BY <1>2 DEF From, To, Linked
<1>4. Removed(m, e, r)
  BY <1>2, <1>3, FromTo DEF Removed
<1> QED BY <1>4 DEF r, e

\* Once the front is off its list, no other node leads to it if it is clean, and
\* what its own pointers say no longer counts.
LEMMA PopMemory ==
  ASSUME NEW m, NEW list \in ThreadList, NEW e \in Thread, e = begin(m, list), NEW r,
         Removed(m, e, r), NEW out \in SUBSET Thread, e \notin out,
         NEW clean \in SUBSET Thread, NEW loose, NEW contested,
         Memory(m, out, clean, loose, contested, {})
  PROVE  /\ Memory(r, out \union {e}, clean, loose, contested, {})
         /\ e \in clean => \A n \in From \ out : r[n].next # e
         /\ e \notin loose
<1>1. /\ m[e].prev \in From /\ m[e].next \in To
      /\ \A n \in From : r[n].next = IF n = m[e].prev THEN m[e].next ELSE m[n].next
      /\ \A n \in To : r[n].prev = IF n = m[e].next THEN m[e].prev ELSE m[n].prev
      /\ LinkOK(r)
  BY DEF Removed
<1>2. /\ head(list) \in From /\ head(list) \notin Thread /\ m[head(list)].next = e
      /\ Thread \subseteq From /\ Thread \subseteq To
  BY FromTo DEF begin
<1>3. \A n \in From \ out : \A t \in clean : m[n].next = t => m[t].prev = n
  BY DEF Memory, Backed
<1>4. Backed(r, out \union {e}, clean)
  <2> SUFFICES ASSUME NEW n \in From \ (out \union {e}), NEW t \in clean, r[n].next = t
               PROVE  r[t].prev = n
    BY DEF Backed
  <2>1. CASE n = m[e].prev
    BY <1>1, <1>2, <2>1
  <2>2. CASE n # m[e].prev
    <3>1. m[t].prev = n
      BY <1>1, <1>3, <2>2
    <3>2. m[e].next # t
      BY <1>2, <1>3, <3>1
    <3> QED BY <1>1, <1>2, <3>1, <3>2
  <2> QED BY <2>1, <2>2
<1>5. ASSUME e \in clean, NEW n \in From \ out
      PROVE  r[n].next # e
  <2>1. m[e].prev = head(list)
    BY <1>2, <1>3, <1>5
  <2>2. m[e].next # e
    BY <1>2, <1>3, <1>5, <2>1
  <2> QED BY <1>1, <1>3, <1>5, <2>1, <2>2
<1>6. e \notin loose
  BY <1>2 DEF Memory, Loose
<1>7. \A t \in loose : Loose(r, t)
  BY <1>1, <1>2 DEF Memory, Loose
<1>8. ASSUME NEW l \in Lock
      PROVE  IF l \in contested THEN Cut(r, waiters(l)) ELSE Untouched(r, waiters(l))
  <2> DEFINE x == waiters(l)
  <2>1. /\ head(x) \in From /\ tail(x) \in To /\ head(x) \notin Thread
        /\ tail(x) \notin Thread
    BY FromTo, ThreadLists
  <2>2. IF l \in contested THEN Cut(m, x) ELSE Untouched(m, x)
    BY DEF Memory, WaitersOK
  <2> HIDE DEF x
  <2>3. Cut(m, x) => Cut(r, x)
    BY <1>1, <1>2 DEF Cut
  <2>4. ASSUME Untouched(m, x)
        PROVE  Untouched(r, x)
    <3>1. m[e].next # tail(x) /\ m[e].prev # head(x)
      BY <1>2, <2>1, <2>4 DEF Untouched
    <3> QED BY <1>1, <2>1, <2>4, <3>1 DEF Untouched
  <2> QED BY <2>2, <2>3, <2>4 DEF x
<1>9. WaitersOK(r, contested, {})
  BY <1>8 DEF WaitersOK
<1> QED BY <1>1, <1>4, <1>5, <1>6, <1>7, <1>9 DEF Memory

-----------------------------------------------------------------------------
(* What the scheduler leaves.                                              *)

Running == Thread \intersect {cur}

\* The memory when a thread, or the idle thread, has the CPU: the thread is on
\* no list unless it has found a lock held.
Kept(clean, asleep, contested) ==
    outcome = "ok" =>
        /\ Memory(link, Running, clean, asleep \union (Running \intersect clean),
                  contested, {})
        /\ Running \intersect asleep = {}
        /\ \A t \in Running : status[t] = "RUNNING"

\* schedule() with every thread on a list or asleep.
LEMMA ScheduleKeeps ==
  ASSUME NEW m, NEW st, st \in [Thread -> Status], schedule(m, st),
         NEW clean \in SUBSET Thread, NEW asleep \in SUBSET Thread, NEW contested,
         Memory(m, {}, clean, asleep, contested, {})
  PROVE  Kept(clean, asleep, contested)'
<1>0. LinkOK(m)
  BY DEF Memory
<1>1. CASE begin(m, ready_list) = tail(ready_list)
  <2>1. cur' = Idle /\ status' = st /\ link' = m
    BY <1>1, QueueTail DEF schedule
  <2>2. Running' = {}
    BY <2>1, Distinct DEF Running
  <2>3. asleep \union (Running' \intersect clean) = asleep
    BY <2>2
  <2> QED BY <2>1, <2>2, <2>3 DEF Kept
<1>2. CASE begin(m, ready_list) \in Thread
  <2>1. PICK e \in Thread : e = begin(m, ready_list)
    BY <1>2
  <2>2. cur' = e /\ status' = [st EXCEPT ![e] = "RUNNING"] /\ link' = list_remove(m, e)
    BY <2>1, QueueTail DEF schedule
  <2>3. Removed(m, e, link')
    BY <1>0, <2>1, <2>2, PopIsRemoved, ThreadLists
  <2>4. PICK r : r = link'
    OBVIOUS
  <2>5. /\ Memory(r, {} \union {e}, clean, asleep, contested, {})
        /\ e \in clean => \A n \in From \ {} : r[n].next # e
        /\ e \notin asleep
    <3>1. Removed(m, e, r) /\ ready_list \in ThreadList /\ e = begin(m, ready_list)
      BY <2>1, <2>3, <2>4, ThreadLists
    <3>2. PICK out \in SUBSET Thread : out = {}
      OBVIOUS
    <3>3. e \notin out /\ Memory(m, out, clean, asleep, contested, {})
      BY <3>2
    <3>4. /\ Memory(r, out \union {e}, clean, asleep, contested, {})
          /\ e \in clean => \A n \in From \ out : r[n].next # e
          /\ e \notin asleep
      BY <3>1, <3>3, PopMemory
    <3> QED BY <3>2, <3>4
  <2>6. Running' = {e} /\ {} \union {e} = {e} /\ status'[e] = "RUNNING"
    BY <2>2 DEF Running
  <2>7. \A t \in asleep \union ({e} \intersect clean) : Loose(r, t)
    BY <2>5 DEF Memory, Loose
  <2>8. Memory(r, {e}, clean, asleep \union ({e} \intersect clean), contested, {})
    BY <2>5, <2>6, <2>7 DEF Memory
  <2> QED BY <2>4, <2>5, <2>6, <2>8 DEF Kept
<1>3. CASE begin(m, ready_list) \notin Thread \union {tail(ready_list)}
  BY <1>3 DEF schedule, Stop, Kept
<1> QED BY <1>1, <1>2, <1>3

\* A thread that gives up the CPU, to the run queue or to a semaphore.
LEMMA GiveUpKeeps ==
  ASSUME NEW m, NEW me \in Thread, NEW list \in ThreadList, \A l \in Lock : list # waiters(l),
         NEW pri \in [Thread -> Int], NEW r \in list_insert_ordered(m, list, me, pri),
         NEW st, st \in [Thread -> Status],
         IF r.outcome = "ok" THEN schedule(r.link, st) ELSE Stop(r.outcome),
         NEW clean \in SUBSET Thread, NEW asleep \in SUBSET Thread, NEW contested,
         NEW fresh \in SUBSET {me}, me \notin asleep,
         Memory(m, {me}, clean, asleep \union ({me} \intersect clean), contested, fresh)
  PROVE  Kept(clean, asleep, contested)'
<1>1. CASE r.outcome = "ok"
  <2>1. LinkOK(m)
    BY DEF Memory
  <2>2. PICK b : Inserted(m, list, me, b, r.link)
    BY <1>1, <2>1, InsertIsInserted
  <2>3. Memory(m, {} \union {me}, clean, asleep, contested, fresh)
        /\ {} \union {me} = {me}
    BY DEF Memory
  <2>4. me \in clean => \A n \in From \ ({} \union {me}) : m[n].next # me
    BY DEF Memory, Loose
  <2>5. Memory(r.link, {}, clean, asleep, contested, fresh \ {me})
    BY <2>2, <2>3, <2>4, InsertMemory
  <2>6. fresh \ {me} = {}
    OBVIOUS
  <2>7. Memory(r.link, {}, clean, asleep, contested, {})
    BY <2>5, <2>6
  <2> QED BY <1>1, <2>7, ScheduleKeeps
<1>2. CASE r.outcome # "ok"
  BY <1>2 DEF Stop, Kept
<1> QED BY <1>1, <1>2

\* The run queue and the semaphores' wait lists are not the waiters of a lock.
LEMMA OtherLists ==
  /\ \A l \in Lock : ready_list # waiters(l)
  /\ \A s, l : sema_waiters(s) # waiters(l)
BY ListNames

\* thread_yield.
LEMMA YieldKeeps ==
  ASSUME NEW m, NEW st, NEW pri \in [Thread -> Int], st \in [Thread -> Status],
         cur \in Thread \union {Idle}, thread_yield(m, st, pri),
         NEW clean \in SUBSET Thread, NEW asleep \in SUBSET Thread, NEW contested,
         NEW fresh \in SUBSET Thread, fresh \subseteq Running, Running \intersect asleep = {},
         Memory(m, Running, clean, asleep \union (Running \intersect clean), contested, fresh)
  PROVE  Kept(clean, asleep, contested)'
<1>1. CASE cur = Idle
  <2>1. Running = {}
    BY <1>1, Distinct DEF Running
  <2>2. fresh = {} /\ asleep \union (Running \intersect clean) = asleep
    BY <2>1
  <2>3. Memory(m, {}, clean, asleep, contested, {})
    BY <2>1, <2>2
  <2> QED BY <1>1, <2>3, ScheduleKeeps DEF thread_yield
<1>2. CASE cur # Idle
  <2>0. PICK me \in Thread : me = cur
    BY <1>2
  <2>1. PICK r \in list_insert_ordered(m, ready_list, me, pri) :
            IF r.outcome = "ok"
            THEN schedule(r.link, [st EXCEPT ![me] = "READY"])
            ELSE Stop(r.outcome)
    BY <1>2, <2>0 DEF thread_yield
  <2>2. [st EXCEPT ![me] = "READY"] \in [Thread -> Status]
    BY DEF Status
  <2>3. Running = {me}
    BY <2>0 DEF Running
  <2>4. /\ Memory(m, {me}, clean, asleep \union ({me} \intersect clean), contested, fresh)
        /\ fresh \in SUBSET {me} /\ me \notin asleep
    BY <2>3
  <2>5. ready_list \in ThreadList /\ \A l \in Lock : ready_list # waiters(l)
    BY ThreadLists, OtherLists
  <2> QED BY <2>1, <2>2, <2>4, <2>5, GiveUpKeeps
<1> QED BY <1>1, <1>2

\* check_preemption.
LEMMA CheckKeeps ==
  ASSUME NEW m, NEW st, NEW pri \in [Thread -> Int], st \in [Thread -> Status],
         cur \in Thread \union {Idle}, check_preemption(m, st, pri),
         NEW clean \in SUBSET Thread, NEW asleep \in SUBSET Thread, NEW contested,
         Running \intersect asleep = {}, \A t \in Running : st[t] = "RUNNING",
         Memory(m, Running, clean, asleep \union (Running \intersect clean), contested, {})
  PROVE  Kept(clean, asleep, contested)'
<1>1. PICK higher \in outranked(m, pri) :
          IF higher THEN thread_yield(m, st, pri)
          ELSE link' = m /\ status' = st /\ UNCHANGED <<cur, outcome>>
  BY DEF check_preemption
<1>2. CASE higher
  <2>1. {} \in SUBSET Thread /\ {} \subseteq Running
    OBVIOUS
  <2> QED BY <1>1, <1>2, <2>1, YieldKeeps
<1>3. CASE ~higher
  <2>1. link' = m /\ status' = st /\ Running' = Running
    BY <1>1, <1>3 DEF Running
  <2> QED BY <2>1 DEF Kept
<1> QED BY <1>2, <1>3

\* A round of sema_down that blocks the thread.
LEMMA BlockKeeps ==
  ASSUME NEW s \in Sema, block_on(s), cur \in Thread, MachineOK,
         priority \in [Thread -> Priority],
         NEW clean \in SUBSET Thread, NEW asleep \in SUBSET Thread, NEW contested,
         NEW fresh \in SUBSET Thread, fresh \subseteq Running, Running \intersect asleep = {},
         Memory(link, Running, clean, asleep \union (Running \intersect clean), contested, fresh)
  PROVE  Kept(clean, asleep, contested)'
<1>0. PICK me \in Thread : me = cur
  OBVIOUS
<1>1. PICK m : m = link
  OBVIOUS
<1>2. PICK pri \in [Thread -> Int] : pri = priority
  BY PriorityIsInt
<1>3. PICK r \in list_insert_ordered(m, sema_waiters(s), me, pri) :
          IF r.outcome = "ok"
          THEN schedule(r.link, [status EXCEPT ![me] = "BLOCKED"])
          ELSE Stop(r.outcome)
  BY <1>0, <1>1, <1>2 DEF block_on
<1>4. PICK st \in [Thread -> Status] : st = [status EXCEPT ![me] = "BLOCKED"]
  BY DEF Status, MachineOK
<1>5. IF r.outcome = "ok" THEN schedule(r.link, st) ELSE Stop(r.outcome)
  BY <1>3, <1>4
<1>6. Running = {me}
  BY <1>0 DEF Running
<1>7. /\ Memory(m, {me}, clean, asleep \union ({me} \intersect clean), contested, fresh)
      /\ fresh \in SUBSET {me} /\ me \notin asleep
  BY <1>1, <1>6
<1>8. sema_waiters(s) \in ThreadList /\ \A l \in Lock : sema_waiters(s) # waiters(l)
  BY ThreadLists, OtherLists
<1> QED BY <1>5, <1>7, <1>8, GiveUpKeeps

\* sema_up: the thread it wakes goes from the wait list to the run queue.
LEMMA SemaUpKeeps ==
  ASSUME NEW m, NEW s \in Sema, status \in [Thread -> Status],
         priority \in [Thread -> Priority], NEW r \in sema_up(m, s), r.outcome = "ok",
         NEW clean \in SUBSET Thread, NEW asleep \in SUBSET Thread, NEW contested,
         \A t \in Running : status[t] = "RUNNING",
         Memory(m, Running, clean, asleep \union (Running \intersect clean), contested, {})
  PROVE  /\ Memory(r.link, Running, clean, asleep \union (Running \intersect clean),
                   contested, {})
         /\ \A t \in Running : r.status[t] = "RUNNING"
<1> DEFINE front == begin(m, sema_waiters(s))
           loose == asleep \union (Running \intersect clean)
<1>1. CASE r = [outcome |-> "ok", link |-> m, status |-> status]
  BY <1>1
<1>2. CASE r = [outcome |-> "panic", link |-> m, status |-> status]
  BY <1>2
<1>3. CASE /\ front \in Thread /\ status[front] = "BLOCKED"
           /\ \E q \in list_insert_ordered(list_remove(m, front), ready_list, front, priority) :
                  r = [outcome |-> q.outcome, link |-> q.link,
                       status |-> [status EXCEPT ![front] = "READY"]]
  <2>1. PICK e \in Thread : e = front
    BY <1>3
  <2>2. PICK q \in list_insert_ordered(list_remove(m, e), ready_list, e, priority) :
            r = [outcome |-> q.outcome, link |-> q.link,
                 status |-> [status EXCEPT ![e] = "READY"]]
    BY <1>3, <2>1
  <2>3. PICK k : k = list_remove(m, e)
    OBVIOUS
  <2>4. LinkOK(m) /\ sema_waiters(s) \in ThreadList
    BY ThreadLists DEF Memory
  <2>5. Removed(m, e, k)
    BY <2>1, <2>3, <2>4, PopIsRemoved
  <2>6. e \notin Running /\ Running \in SUBSET Thread
    BY <1>3, <2>1 DEF Running
  <2>0. Memory(m, Running, clean, loose, contested, {}) /\ e = begin(m, sema_waiters(s))
    BY <2>1
  <2> HIDE DEF loose, front
  <2>7. /\ Memory(k, Running \union {e}, clean, loose, contested, {})
        /\ e \in clean => \A n \in From \ Running : k[n].next # e
        /\ e \notin loose
    <3>1. PICK R \in SUBSET Thread : R = Running
      BY <2>6
    <3>2. PICK L : L = loose
      OBVIOUS
    <3>3. Memory(m, R, clean, L, contested, {}) /\ e \notin R
      BY <2>0, <2>6, <3>1, <3>2
    <3>4. /\ Memory(k, R \union {e}, clean, L, contested, {})
          /\ e \in clean => \A n \in From \ R : k[n].next # e
          /\ e \notin L
      <4>1. PICK list \in ThreadList : list = sema_waiters(s)
        BY <2>4
      <4>2. e = begin(m, list)
        BY <2>0, <4>1
      <4> QED BY <2>5, <3>3, <4>2, PopMemory
    <3> QED BY <3>1, <3>2, <3>4
  <2>8. LinkOK(k)
    BY <2>5 DEF Removed
  <2>9. q.outcome = "ok" /\ r.link = q.link /\ r.status = [status EXCEPT ![e] = "READY"]
    BY <2>2
  <2>10. PICK b : Inserted(k, ready_list, e, b, q.link)
    BY <2>2, <2>3, <2>8, <2>9, InsertIsInserted, ThreadLists, PriorityIsInt
  <2>11. ready_list \in ThreadList /\ \A l \in Lock : ready_list # waiters(l)
    BY ThreadLists, OtherLists
  <2>12. e \in clean => \A n \in From \ (Running \union {e}) : k[n].next # e
    BY <2>7
  <2>13. {} \in SUBSET Thread /\ {} \ {e} = {}
    OBVIOUS
  <2>14. Memory(q.link, Running, clean, loose, contested, {} \ {e})
    BY <2>7, <2>10, <2>11, <2>12, <2>13, InsertMemory
  <2>15. \A t \in Running : r.status[t] = "RUNNING"
    BY <2>6, <2>9
  <2> QED BY <2>9, <2>13, <2>14, <2>15 DEF loose
<1> QED BY <1>1, <1>2, <1>3 DEF sema_up

-----------------------------------------------------------------------------
(* The lists and the threads that have found a lock held.                  *)

Clean == {t \in Thread : waiting_lock[t] = NULL}
Asleep == {t \in Thread : pc[t] = "asleep"}
Contested == {l \in Lock : \E t \in Thread : waiting_lock[t] = l}
Fresh == {t \in Running : pc[t] = "wait"}

\* A thread that has found a lock held waits for it for good, and the lock
\* stays held.
Waits ==
    \A t \in Thread :
        /\ pc[t] = "wait" => waiting_lock[t] # NULL
        /\ waiting_lock[t] # NULL =>
               /\ waiting_lock[t] \in Lock
               /\ holder[waiting_lock[t]] # NULL
               /\ pc[t] \in {"wait", "sema_down"}
               /\ lock[t] = waiting_lock[t]

WaitInv ==
    outcome = "ok" =>
        /\ Memory(link, Running, Clean, Asleep \union (Running \intersect Clean),
                  Contested, Fresh)
        /\ Running \intersect Asleep = {}
        /\ \A t \in Running : status[t] = "RUNNING"
        /\ Waits

\* Where the scheduler has left the lists in order, the rest is about the locks.
LEMMA KeptWaits ==
  ASSUME NEW clean, NEW asleep, NEW contested, Kept(clean, asleep, contested)',
         clean = Clean', asleep = Asleep', contested = Contested',
         outcome' = "ok" => Waits'
  PROVE  WaitInv'
<1> SUFFICES ASSUME outcome' = "ok" PROVE WaitInv'
  BY DEF WaitInv
<1>1. /\ Memory(link', Running', clean, asleep \union (Running' \intersect clean),
                contested, {})
      /\ Running' \intersect asleep = {}
      /\ \A t \in Running' : status'[t] = "RUNNING"
  BY DEF Kept
<1>2. Memory(link', Running', clean, asleep \union (Running' \intersect clean),
             contested, Fresh')
  BY <1>1 DEF Memory, WaitersOK
<1> QED BY <1>1, <1>2 DEF WaitInv

\* Nothing about the threads' lists depends on the locks' own elements.
LEMMA SameMemory ==
  ASSUME NEW m, NEW r, LinkOK(r),
         \A n \in From : r[n].next = m[n].next,
         \A n \in To : r[n].prev = m[n].prev,
         NEW out, NEW clean \in SUBSET Thread, NEW loose, NEW contested, NEW fresh,
         Memory(m, out, clean, loose, contested, fresh)
  PROVE  Memory(r, out, clean, loose, contested, fresh)
<1>1. Backed(r, out, clean) /\ \A t \in loose : Loose(r, t)
  BY FromTo DEF Memory, Backed, Loose
<1>2. ASSUME NEW l \in Lock
      PROVE  /\ Cut(m, waiters(l)) => Cut(r, waiters(l))
             /\ Untouched(m, waiters(l)) => Untouched(r, waiters(l))
             /\ \A t : FreshOn(m, t, waiters(l)) => FreshOn(r, t, waiters(l))
  BY FromTo, ThreadLists DEF Cut, Untouched, FreshOn
<1>3. WaitersOK(r, contested, fresh)
  BY <1>2 DEF Memory, WaitersOK
<1> QED BY <1>1, <1>3 DEF Memory

\* The nodes of the locks' lists are others.
LEMMA LockSide ==
  From \union To \subseteq Node \ Side(Lock, HeldList)
<1>1. From \subseteq Node /\ To \subseteq Node
  BY FromTo
<1>2. \A n \in From \union To : n \notin Side(Lock, HeldList)
  BY Kinds, NodesApart DEF From, To, Side
<1> QED BY <1>1, <1>2

\* A lock that goes onto locks_held or off it.
LEMMA LockLinks ==
  ASSUME NEW m, LinkOK(m), NEW l \in Lock
  PROVE  /\ \A t \in Thread :
                LET r == list_push_back(m, locks_held(t), l)
                IN /\ LinkOK(r)
                   /\ \A n \in From : r[n].next = m[n].next
                   /\ \A n \in To : r[n].prev = m[n].prev
         /\ is_interior(m, l) =>
                LET r == list_remove(m, l)
                IN /\ LinkOK(r)
                   /\ \A n \in From : r[n].next = m[n].next
                   /\ \A n \in To : r[n].prev = m[n].prev
<1>1. ASSUME NEW t \in Thread, NEW r, r = list_push_back(m, locks_held(t), l)
      PROVE  /\ LinkOK(r)
             /\ \A n \in Node \ Side(Lock, HeldList) :
                    r[n].next = m[n].next /\ r[n].prev = m[n].prev
  <2>1. tail(locks_held(t)) \in Ends(HeldList) /\ l # tail(locks_held(t))
    BY ThreadLists, Kinds, NodesApart DEF Ends
  <2> QED BY <1>1, <2>1, InsertSound, ThreadLists DEF list_push_back
<1>2. ASSUME is_interior(m, l), NEW r, r = list_remove(m, l)
      PROVE  /\ LinkOK(r)
             /\ \A n \in Node \ Side(Lock, HeldList) :
                    r[n].next = m[n].next /\ r[n].prev = m[n].prev
  <2>1. l \in Linked(m, Lock)
    BY <1>2 DEF is_interior, Linked
  <2> QED BY <1>2, <2>1, RemoveSound, ThreadLists
<1> QED BY <1>1, <1>2, LockSide

\* The sets above are sets of threads and locks.
LEMMA WaitSets ==
  /\ Clean \in SUBSET Thread /\ Asleep \in SUBSET Thread /\ Contested \in SUBSET Lock
  /\ Fresh \in SUBSET Thread /\ Fresh \subseteq Running /\ Running \in SUBSET Thread
  /\ \A t \in Thread : t = cur => Running = {t}
BY DEF Clean, Asleep, Contested, Fresh, Running

\* A lock is taken past its semaphore by a thread that has not found it held.
LEMMA TakeWaits ==
  ASSUME OwnerInv, DataOK, WaitInv, outcome = "ok", NEW l \in Lock, NEW me \in Thread, me = cur,
         take(l), waiting_lock[me] = NULL, pc[me] # "wait",
         \A t \in Thread \ {me} : lock'[t] = lock[t]
  PROVE  WaitInv'
<1>1. /\ pc' = [pc EXCEPT ![me] = "run"]
      /\ holder' = [holder EXCEPT ![l] = me]
      /\ link' = list_push_back(link, locks_held(me), l)
      /\ waiting_lock' = [waiting_lock EXCEPT ![me] = NULL]
      /\ UNCHANGED <<cur, status, outcome>>
  BY DEF take, Goto
<1>2. waiting_lock' = waiting_lock
  BY <1>1 DEF DataOK
<1>3. /\ Memory(link, Running, Clean, Asleep \union (Running \intersect Clean),
                Contested, Fresh)
      /\ Running \intersect Asleep = {}
      /\ \A t \in Running : status[t] = "RUNNING"
      /\ Waits
  BY DEF WaitInv
<1>4. Running' = Running /\ Clean' = Clean /\ Contested' = Contested /\ Running = {me}
  BY <1>1, <1>2 DEF Running, Clean, Contested
<1>5. Asleep' = Asleep /\ Fresh' = Fresh
  BY <1>1, <1>3, <1>4 DEF Asleep, Fresh, OwnerInv
<1>6. /\ LinkOK(link') /\ \A n \in From : link'[n].next = link[n].next
      /\ \A n \in To : link'[n].prev = link[n].prev
  BY <1>1, LockLinks DEF DataOK
<1>7. Memory(link', Running, Clean, Asleep \union (Running \intersect Clean), Contested, Fresh)
  BY <1>3, <1>6, SameMemory, WaitSets
<1>8. Waits'
  <2>1. ASSUME NEW t \in Thread
        PROVE  /\ pc'[t] = "wait" => waiting_lock[t] # NULL
               /\ waiting_lock[t] # NULL =>
                      /\ waiting_lock[t] \in Lock
                      /\ holder'[waiting_lock[t]] # NULL
                      /\ pc'[t] \in {"wait", "sema_down"}
                      /\ lock'[t] = waiting_lock[t]
    BY <1>1, <1>3, Distinct DEF Waits, OwnerInv
  <2> QED BY <1>2, <2>1 DEF Waits
<1> QED BY <1>1, <1>3, <1>4, <1>5, <1>7, <1>8 DEF WaitInv

\* A thread that blocks on a semaphore.
LEMMA BlockWaits ==
  ASSUME OwnerInv, DataOK, WaitInv, outcome = "ok", NEW s \in Sema, NEW me \in Thread, me = cur,
         block_on(s), \A t \in Thread : waiting_lock[t] # NULL => lock'[t] = lock[t]
  PROVE  WaitInv'
<1>1. /\ Memory(link, Running, Clean, Asleep \union (Running \intersect Clean),
                Contested, Fresh)
      /\ Running \intersect Asleep = {}
      /\ Waits
  BY DEF WaitInv
<1>2. /\ pc' = [pc EXCEPT ![me] = "sema_down"]
      /\ UNCHANGED <<holder, waiting_lock>>
  BY DEF block_on, Goto
<1>3. PICK clean \in SUBSET Thread : clean = Clean
  BY WaitSets
<1>4. PICK asleep \in SUBSET Thread : asleep = Asleep
  BY WaitSets
<1>5. PICK contested : contested = Contested
  OBVIOUS
<1>6. PICK fresh \in SUBSET Thread : fresh = Fresh
  BY WaitSets
<1>7. Kept(clean, asleep, contested)'
  <2>1. MachineOK /\ priority \in [Thread -> Priority]
    BY DEF MachineOK, DataOK
  <2>2. Memory(link, Running, clean, asleep \union (Running \intersect clean),
               contested, fresh)
        /\ Running \intersect asleep = {} /\ fresh \subseteq Running
    BY <1>1, <1>3, <1>4, <1>5, <1>6, WaitSets
  <2> QED BY <2>1, <2>2, BlockKeeps
<1>8. clean = Clean' /\ contested = Contested'
  BY <1>2, <1>3, <1>5 DEF Clean, Contested
<1>9. asleep = Asleep'
  <2>1. me \notin Asleep
    BY <1>1 DEF Running
  <2> QED BY <1>2, <1>4, <2>1 DEF Asleep, OwnerInv
<1>10. Waits'
  BY <1>1, <1>2 DEF Waits, OwnerInv
<1> QED BY <1>7, <1>8, <1>9, <1>10, KeptWaits

\* sema_down of a lock's semaphore: a thread that has found the lock held finds
\* the semaphore down.
LEMMA LoopWaits ==
  ASSUME OwnerInv, DataOK, WaitInv, outcome = "ok", NEW l \in Lock, NEW me \in Thread, me = cur,
         sema_down_loop(l), waiting_lock[me] # NULL => lock[me] = l,
         \A t \in Thread : waiting_lock[t] # NULL \/ t # me => lock'[t] = lock[t]
  PROVE  /\ WaitInv'
         /\ waiting_lock' = waiting_lock
<1>1. CASE value[l] = 0
  <2>1. block_on(l) /\ l \in Sema
    BY <1>1, Distinct DEF sema_down_loop
  <2>2. waiting_lock' = waiting_lock
    BY <2>1 DEF block_on
  <2> QED BY <2>1, <2>2, BlockWaits
<1>2. CASE value[l] # 0
  <2>1. take(l)
    BY <1>2 DEF sema_down_loop
  <2>2. holder[l] = NULL
    <3>1. Owners(l) = {} /\ holder[l] \in Thread \union {NULL}
      BY <1>2 DEF OwnerInv
    <3> QED BY <3>1 DEF Owners
  <2>3. Waits
    BY DEF WaitInv
  <2>4. waiting_lock[me] = NULL
    BY <2>2, <2>3 DEF Waits
  <2>5. pc[me] # "wait"
    BY <2>3, <2>4 DEF Waits
  <2>6. waiting_lock' = waiting_lock
    BY <2>1, <2>4 DEF take, DataOK
  <2> QED BY <2>1, <2>4, <2>5, <2>6, TakeWaits
<1> QED BY <1>1, <1>2

\* A walk over a list whose head leads to its tail.
LEMMA EmptyWalk ==
  ASSUME NEW E, NEW lists, IsSide(E, lists), NEW m, LinkOK(m), NEW list \in lists,
         begin(m, list) = tail(list)
  PROVE  /\ path(m, list) = <<tail(list)>>
         /\ Met(m, list) = {tail(list)}
         /\ OnList(m, list) = {}
         /\ LoopEnd(m, list) = "ok"
<1> DEFINE p == path(m, list)
           V == Linked(m, E) \union Ends(lists)
<1>1. p \in Walks(m, list, E, lists)
  BY PathWalks
<1> HIDE DEF p
<1>2. /\ p \in Seq(V) /\ p # <<>> /\ p[1] = tail(list)
      /\ \A i \in 1..(Len(p) - 1) : p[i] \in Linked(m, E)
  <2>1. p \in Seq(V) /\ p # <<>> /\ p[1] = begin(m, list)
    BY <1>1 DEF Walks, begin
  <2>2. \A i \in 1..(Len(p) - 1) : p[i] \in Linked(m, E)
    BY <1>1 DEF Walks
  <2> QED BY <2>1, <2>2
<1> HIDE DEF V
<1>3. /\ Len(p) \in Nat \ {0} /\ Last(p) = p[Len(p)]
      /\ Range(Front(p)) = {p[i] : i \in 1..(Len(p) - 1)}
  <2>1. p \in Seq(V) /\ p # <<>>
    BY <1>2
  <2> QED BY <2>1, FrontFacts
<1>4. tail(list) \notin Linked(m, E)
  BY SideParts DEF Ends, Linked
<1>5. Len(p) = 1
  <2>1. 1 \notin 1..(Len(p) - 1)
    BY <1>2, <1>4
  <2>2. PICK n \in Nat \ {0} : n = Len(p)
    BY <1>3
  <2>3. ~(1 <= n - 1)
    BY <2>1, <2>2
  <2> QED BY <2>2, <2>3
<1>6. p = <<tail(list)>>
  BY <1>2, <1>5, LenProperties
<1>7. Last(p) = tail(list)
  BY <1>2, <1>3, <1>5
<1>8. Range(Front(p)) = {}
  BY <1>3, <1>5
<1>9. Range(p) = {tail(list)}
  BY <1>6 DEF Range
<1> QED BY <1>6, <1>7, <1>8, <1>9, LoopEnds DEF p, Met, OnList

\* The first thread that finds a lock held.
LEMMA InsertFresh ==
  ASSUME NEW m, LinkOK(m), NEW list \in ThreadList, NEW e \in Thread, NEW b, NEW r,
         Inserted(m, list, e, b, r), Untouched(m, list), Loose(m, e)
  PROVE  FreshOn(r, e, list)
<1>1. b = tail(list)
  BY EmptyWalk, ThreadLists DEF Inserted, Untouched, begin
<1>2. /\ m[b].prev = head(list) /\ b # e
      /\ \A n \in From : r[n].next = IF n = head(list) THEN e
                                     ELSE IF n = e THEN b ELSE m[n].next
  BY <1>1 DEF Inserted, Untouched
<1>3. head(list) \in From /\ head(list) \notin Thread /\ e \in From /\ tail(list) \notin Thread
  BY FromTo
<1> QED BY <1>1, <1>2, <1>3 DEF FreshOn, Untouched, Loose

\* A thread that finds lock l held goes onto its wait list.
LEMMA ContendMemory ==
  ASSUME NEW m, NEW l \in Lock, NEW e \in Thread, NEW b, NEW r,
         Inserted(m, waiters(l), e, b, r),
         NEW clean \in SUBSET Thread, NEW asleep, e \notin asleep, e \in clean,
         NEW contested,
         Memory(m, {e}, clean, asleep \union ({e} \intersect clean), contested, {})
  PROVE  Memory(r, {e}, clean \ {e}, asleep, contested \union {l}, {e})
<1>0. waiters(l) \in ThreadList
  BY ThreadLists
<1>1. LinkOK(m) /\ LinkOK(r)
  BY DEF Memory, Inserted
<1>2. Backed(r, {e}, clean \ {e})
  <2>1. clean \ {e} \in SUBSET Thread /\ {e} \union {e} = {e} /\ e \notin clean \ {e}
    OBVIOUS
  <2>2. Backed(m, {e} \union {e}, clean \ {e})
    BY <2>1 DEF Memory, Backed
  <2> QED BY <1>0, <2>1, <2>2, InsertBacks
<1>3. \A t \in asleep : Loose(r, t)
  BY <1>0, <1>1, InsertKeepsLoose DEF Memory
<1>4. ASSUME NEW k \in Lock
      PROVE  IF k \in contested \union {l}
             THEN Cut(r, waiters(k)) \/ \E t \in {e} : FreshOn(r, t, waiters(k))
             ELSE Untouched(r, waiters(k))
  <2>1. waiters(k) \in ThreadList
    BY ThreadLists
  <2>2. IF k \in contested THEN Cut(m, waiters(k)) ELSE Untouched(m, waiters(k))
    BY DEF Memory, WaitersOK
  <2>3. CASE k \in contested
    BY <1>0, <1>1, <2>1, <2>2, <2>3, InsertKeepsWaiters
  <2>4. CASE k \notin contested /\ k # l
    <3>1. waiters(l) # waiters(k)
      BY <2>4, ListNames
    <3> QED BY <1>0, <1>1, <2>1, <2>2, <2>4, <3>1, InsertKeepsWaiters
  <2>5. CASE k \notin contested /\ k = l
    <3>1. Loose(m, e)
      BY DEF Memory
    <3> QED BY <1>0, <1>1, <2>2, <2>5, <3>1, InsertFresh
  <2> QED BY <2>3, <2>4, <2>5
<1> QED BY <1>1, <1>2, <1>3, <1>4 DEF Memory, WaitersOK

\* lock_acquire of a lock that is held.
LEMMA AcquireHeldWaits ==
  ASSUME OwnerInv, DataOK, WaitInv, NEW l \in Lock, AcquireHeld(l)
  PROVE  /\ WaitInv'
         /\ \A t \in Thread : waiting_lock[t] # NULL => waiting_lock'[t] = waiting_lock[t]
<1>0. cur \in Thread /\ outcome = "ok" /\ pc[cur] = "run"
  BY AtRuns DEF AcquireHeld
<1>1. PICK me \in Thread : me = cur
  BY <1>0
<1>2. PICK r \in list_insert_ordered(link, waiters(l), me, priority) :
          outcome' = r.outcome /\ link' = r.link
  BY <1>1 DEF AcquireHeld
<1>3. /\ lock' = [lock EXCEPT ![me] = l] /\ pc' = [pc EXCEPT ![me] = "wait"]
      /\ waiting_lock' = [waiting_lock EXCEPT ![me] = l]
      /\ holder[l] # NULL /\ UNCHANGED <<cur, status, holder>>
  BY <1>1 DEF AcquireHeld, Goto
<1>4. /\ Memory(link, Running, Clean, Asleep \union (Running \intersect Clean),
                Contested, Fresh)
      /\ Running \intersect Asleep = {}
      /\ \A t \in Running : status[t] = "RUNNING"
      /\ Waits
  BY <1>0 DEF WaitInv
<1>5. waiting_lock[me] = NULL
  BY <1>0, <1>1, <1>4 DEF Waits
<1>6. \A t \in Thread : waiting_lock[t] # NULL => waiting_lock'[t] = waiting_lock[t]
  BY <1>3, <1>5 DEF DataOK
<1>7. ASSUME outcome' = "ok"
      PROVE  WaitInv'
  <2>1. PICK b : Inserted(link, waiters(l), me, b, r.link)
    BY <1>2, <1>7, InsertIsInserted, ThreadLists, PriorityIsInt DEF DataOK
  <2>2. Running = {me} /\ Running' = {me} /\ Fresh = {} /\ me \in Clean /\ me \notin Asleep
    BY <1>0, <1>1, <1>3, <1>5 DEF Running, Fresh, Clean, Asleep
  <2>3. Memory(link, {me}, Clean, Asleep \union ({me} \intersect Clean), Contested, {})
    BY <1>4, <2>2
  <2>4. Memory(r.link, {me}, Clean \ {me}, Asleep, Contested \union {l}, {me})
    BY <2>1, <2>2, <2>3, ContendMemory, WaitSets
  <2>5. Clean' = Clean \ {me}
    BY <1>3, Distinct DEF Clean, DataOK
  <2>6. Asleep' = Asleep /\ Fresh' = {me}
    BY <1>3, <2>2 DEF Asleep, Fresh, OwnerInv
  <2>7. Contested' = Contested \union {l}
    <3>1. \A k \in Lock : (\E t \in Thread : waiting_lock'[t] = k)
              <=> k = l \/ \E t \in Thread : waiting_lock[t] = k
      BY <1>3, <1>5, Distinct DEF DataOK
    <3> QED BY <3>1 DEF Contested
  <2>8. Asleep' \union (Running' \intersect Clean') = Asleep
    BY <2>2, <2>5, <2>6
  <2>9. Waits'
    <3>1. ASSUME NEW t \in Thread, t # me
          PROVE  /\ pc'[t] = pc[t] /\ waiting_lock'[t] = waiting_lock[t]
                 /\ lock'[t] = lock[t]
      BY <1>3, <3>1 DEF OwnerInv, DataOK
    <3>2. /\ pc'[me] = "wait" /\ waiting_lock'[me] = l /\ lock'[me] = l
          /\ holder' = holder /\ l # NULL
      BY <1>3, Distinct DEF OwnerInv, DataOK
    <3> QED BY <1>3, <1>4, <3>1, <3>2 DEF Waits
  <2>10. Memory(link', Running', Clean', Asleep' \union (Running' \intersect Clean'),
                Contested', Fresh')
    BY <1>2, <2>2, <2>4, <2>5, <2>6, <2>7, <2>8
  <2> QED BY <1>3, <1>4, <2>2, <2>6, <2>9, <2>10 DEF WaitInv
<1> QED BY <1>6, <1>7 DEF WaitInv

-----------------------------------------------------------------------------

\* The loop of lock_release over the waiters of a lock that a thread has found
\* held does not end; over those of any other it meets nobody.
LEMMA ReleaseLoop ==
  ASSUME NEW m, NEW out, NEW clean, NEW loose, NEW contested,
         Memory(m, out, clean, loose, contested, {}), NEW l \in Lock
  PROVE  /\ l \in contested => LoopEnd(m, waiters(l)) # "ok"
         /\ l \notin contested => /\ LoopEnd(m, waiters(l)) = "ok"
                                  /\ OnList(m, waiters(l)) = {}
<1>1. waiters(l) \in ThreadList /\ IsSide(Thread, ThreadList) /\ LinkOK(m)
  BY ThreadLists DEF Memory
<1>2. l \in contested => LoopEnd(m, waiters(l)) # "ok"
  <2>1. l \in contested => Cut(m, waiters(l))
    BY DEF Memory, WaitersOK
  <2>2. Last(path(m, waiters(l))) \in Met(m, waiters(l))
    BY <1>1, MetFacts
  <2> QED BY <1>1, <2>1, <2>2, NotMet, LoopEnds
<1>3. ASSUME l \notin contested
      PROVE  LoopEnd(m, waiters(l)) = "ok" /\ OnList(m, waiters(l)) = {}
  <2>1. begin(m, waiters(l)) = tail(waiters(l))
    BY <1>3 DEF Memory, WaitersOK, Untouched, begin
  <2> QED BY <1>1, <2>1, EmptyWalk
<1> QED BY <1>2, <1>3

\* So what lock_release leaves of the lists before sema_up.
LEMMA UnheldKeeps ==
  ASSUME LinkOK(link), NEW l \in Lock,
         NEW out, NEW clean \in SUBSET Thread, NEW loose, NEW contested,
         Memory(link, out, clean, loose, contested, {}), unheld(l).outcome = "ok"
  PROVE  /\ l \notin contested /\ Memory(unheld(l).link, out, clean, loose, contested, {})
         /\ unheld(l).link = list_remove(link, l)
<1>1. is_interior(link, l)
  BY DEF unheld
<1> DEFINE m == list_remove(link, l)
<1>2. unheld(l) = [outcome |-> LoopEnd(m, waiters(l)),
                   link |-> IF cur \in OnList(m, waiters(l)) THEN list_remove(m, cur) ELSE m]
  BY <1>1 DEF unheld
<1>3. /\ LinkOK(m)
      /\ \A n \in From : m[n].next = link[n].next
      /\ \A n \in To : m[n].prev = link[n].prev
  BY <1>1, LockLinks
<1> HIDE DEF m
<1>4. Memory(m, out, clean, loose, contested, {})
  BY <1>3, SameMemory
<1>5. l \notin contested /\ OnList(m, waiters(l)) = {}
  BY <1>2, <1>4, ReleaseLoop
<1>6. unheld(l).link = m
  BY <1>2, <1>5
<1> QED BY <1>4, <1>5, <1>6 DEF m

\* lock_release.
LEMMA ReleaseWaits ==
  ASSUME OwnerInv, DataOK, WaitInv, NEW l \in Lock, LockRelease(l)
  PROVE  WaitInv' /\ (outcome' = "ok" => l \notin Contested)
<1>0. cur \in Thread /\ outcome = "ok" /\ pc[cur] = "run"
  BY AtRuns DEF LockRelease
<1>1. PICK me \in Thread : me = cur
  BY <1>0
<1>2. CASE unheld(l).outcome # "ok"
  BY <1>2 DEF LockRelease, Stop, WaitInv
<1>3. CASE unheld(l).outcome = "ok"
  <2>1. PICK r \in sema_up(unheld(l).link, l) :
            IF r.outcome = "ok"
            THEN check_preemption(r.link, r.status, priority)
            ELSE Stop(r.outcome)
    BY <1>3 DEF LockRelease
  <2>2. /\ holder' = [holder EXCEPT ![l] = NULL] /\ pc' = [pc EXCEPT ![me] = "refresh"]
        /\ UNCHANGED <<waiting_lock, lock>>
    BY <1>1, <1>3 DEF LockRelease, Goto
  <2>3. /\ Memory(link, Running, Clean, Asleep \union (Running \intersect Clean),
                  Contested, Fresh)
        /\ Running \intersect Asleep = {}
        /\ \A t \in Running : status[t] = "RUNNING"
        /\ Waits
    BY <1>0 DEF WaitInv
  <2>4. PICK clean \in SUBSET Thread : clean = Clean
    BY WaitSets
  <2>5. PICK asleep \in SUBSET Thread : asleep = Asleep
    BY WaitSets
  <2>6. PICK contested : contested = Contested
    OBVIOUS
  <2>7. PICK m : m = unheld(l).link
    OBVIOUS
  <2>8. Fresh = {} /\ me \notin Asleep
    BY <1>0, <1>1 DEF Fresh, Running, Asleep
  <2> DEFINE loose == asleep \union (Running \intersect clean)
  <2>9. Memory(link, Running, clean, loose, contested, {})
    BY <2>3, <2>4, <2>5, <2>6, <2>8
  <2>10. l \notin contested /\ Memory(m, Running, clean, loose, contested, {}) /\ LinkOK(m)
    <3> HIDE DEF loose
    <3>1. l \notin contested /\ Memory(m, Running, clean, loose, contested, {})
      BY <1>3, <2>7, <2>9, UnheldKeeps DEF DataOK
    <3> QED BY <3>1 DEF Memory
  <2>11. CASE r.outcome = "ok"
    <3>0. /\ r \in sema_up(m, l) /\ l \in Sema /\ status \in [Thread -> Status]
          /\ priority \in [Thread -> Priority]
      BY <2>1, <2>7, Distinct DEF DataOK
    <3>1. /\ Memory(r.link, Running, clean, loose, contested, {})
          /\ \A t \in Running : r.status[t] = "RUNNING"
      BY <2>3, <2>10, <2>11, <3>0, SemaUpKeeps
    <3>2. r.status \in [Thread -> Status]
      BY <2>1, <2>7, <2>10, SemaUpTypes, Distinct DEF DataOK
    <3>3. PICK pri \in [Thread -> Int] : pri = priority
      BY PriorityIsInt DEF DataOK
    <3>4. check_preemption(r.link, r.status, pri)
      BY <2>1, <2>11, <3>3
    <3>5. Kept(clean, asleep, contested)'
      BY <1>0, <2>3, <2>5, <3>1, <3>2, <3>4, CheckKeeps
    <3>6. clean = Clean' /\ contested = Contested'
      BY <2>2, <2>4, <2>6 DEF Clean, Contested
    <3>7. asleep = Asleep'
      BY <2>2, <2>5, <2>8 DEF Asleep, OwnerInv
    <3>8. Waits'
      <4>1. ASSUME NEW t \in Thread, waiting_lock[t] # NULL
            PROVE  holder'[waiting_lock[t]] # NULL /\ pc'[t] = pc[t]
        <5>1. waiting_lock[t] \in Lock /\ waiting_lock[t] # l /\ t # me
          BY <1>0, <1>1, <2>3, <2>6, <2>10, <4>1 DEF Waits, Contested
        <5> QED BY <2>2, <2>3, <4>1, <5>1 DEF Waits, OwnerInv
      <4>2. \A t \in Thread : pc'[t] = "wait" => pc[t] = "wait"
        BY <2>2 DEF OwnerInv
      <4> QED BY <2>2, <2>3, <4>1, <4>2 DEF Waits
    <3> QED BY <2>6, <2>10, <3>5, <3>6, <3>7, <3>8, KeptWaits
  <2>12. CASE r.outcome # "ok"
    BY <2>1, <2>12 DEF Stop, WaitInv
  <2> QED BY <2>11, <2>12
<1> QED BY <1>2, <1>3

\* A step that leaves the locks, and the thread that has the CPU, as they are.
LEMMA SameWaits ==
  ASSUME OwnerInv, WaitInv, outcome = "ok",
         UNCHANGED <<cur, status, waiting_lock, link>>,
         \A t \in Thread : /\ pc'[t] = "asleep" <=> pc[t] = "asleep"
                           /\ pc'[t] = "wait" <=> pc[t] = "wait"
                           /\ waiting_lock[t] # NULL => pc'[t] = pc[t] /\ lock'[t] = lock[t],
         \A l \in Lock : holder[l] # NULL => holder'[l] # NULL
  PROVE  WaitInv'
<1>1. /\ Memory(link, Running, Clean, Asleep \union (Running \intersect Clean),
                Contested, Fresh)
      /\ Running \intersect Asleep = {}
      /\ \A t \in Running : status[t] = "RUNNING"
      /\ Waits
  BY DEF WaitInv
<1>2. /\ Running' = Running /\ Clean' = Clean /\ Contested' = Contested
      /\ Asleep' = Asleep
  BY DEF Running, Clean, Contested, Asleep
<1>3. Fresh' = Fresh
  BY <1>2, WaitSets DEF Fresh
<1>4. Waits'
  BY <1>1 DEF Waits
<1> QED BY <1>1, <1>2, <1>3, <1>4 DEF WaitInv

\* A call that ends with check_preemption, its thread going on from `check' or
\* `refresh'.
LEMMA CheckWaits ==
  ASSUME OwnerInv, DataOK, WaitInv, outcome = "ok", NEW me \in Thread, me = cur,
         pc[me] \in {"refresh", "check"}, NEW pri \in [Thread -> Int],
         check_preemption(link, status, pri),
         pc' = [pc EXCEPT ![me] = "run"], UNCHANGED <<waiting_lock, lock, holder>>
  PROVE  WaitInv'
<1>1. /\ Memory(link, Running, Clean, Asleep \union (Running \intersect Clean),
                Contested, Fresh)
      /\ Running \intersect Asleep = {}
      /\ \A t \in Running : status[t] = "RUNNING"
      /\ Waits
  BY DEF WaitInv
<1>2. PICK clean \in SUBSET Thread : clean = Clean
  BY WaitSets
<1>3. PICK asleep \in SUBSET Thread : asleep = Asleep
  BY WaitSets
<1>4. PICK contested : contested = Contested
  OBVIOUS
<1>5. Fresh = {} /\ me \notin Asleep /\ Running = {me}
  BY DEF Fresh, Asleep, Running
<1>6. Kept(clean, asleep, contested)'
  <2>0. PICK m : m = link
    OBVIOUS
  <2>1. PICK st \in [Thread -> Status] : st = status
    BY DEF DataOK
  <2>2. Memory(m, Running, clean, asleep \union (Running \intersect clean), contested, {})
    BY <1>1, <1>2, <1>3, <1>4, <1>5, <2>0
  <2>3. check_preemption(m, st, pri) /\ \A t \in Running : st[t] = "RUNNING"
    BY <1>1, <2>0, <2>1
  <2>4. Running \intersect asleep = {} /\ cur \in Thread \union {Idle}
    BY <1>1, <1>3
  <2> QED BY <2>2, <2>3, <2>4, CheckKeeps
<1>7. clean = Clean' /\ contested = Contested'
  BY <1>2, <1>4 DEF Clean, Contested
<1>8. asleep = Asleep'
  BY <1>3, <1>5 DEF Asleep, OwnerInv
<1>9. Waits'
  BY <1>1 DEF Waits, OwnerInv
<1> QED BY <1>6, <1>7, <1>8, <1>9, KeptWaits

\* check_preemption compares with priorities that may be the new ones.
LEMMA CheckConstant ==
  ASSUME NEW m, NEW st, NEW pri, pri = priority', check_preemption(m, st, priority')
  PROVE  check_preemption(m, st, pri)
BY DEF check_preemption, outranked, thread_yield, list_insert_ordered

\* The end of lock_release.  If it goes through, no lock on the thread's list has
\* been found held.
LEMMA RefreshWaits ==
  ASSUME OwnerInv, DataOK, WaitInv, Refresh
  PROVE  /\ WaitInv'
         /\ outcome' = "ok" => OnList(link, locks_held(cur)) \intersect Contested = {}
<1>0. cur \in Thread /\ outcome = "ok" /\ pc[cur] = "refresh"
  BY AtRuns DEF Refresh
<1>1. PICK me \in Thread : me = cur
  BY <1>0
<1> DEFINE ends == {LoopEnd(link, list) : list \in refresh_lists(me)}
<1>2. CASE ends = {"ok"}
  <2>1. /\ priority' = [priority EXCEPT ![me] = refreshed(me)]
        /\ check_preemption(link, status, priority')
        /\ pc' = [pc EXCEPT ![me] = "run"] /\ UNCHANGED <<waiting_lock, lock, holder>>
    BY <1>1, <1>2 DEF Refresh, Goto
  <2>2. priority' \in [Thread -> Priority]
    BY RefreshStepTypes DEF DataOK
  <2>3. PICK pri \in [Thread -> Int] : pri = priority'
    BY <2>2, PriorityIsInt
  <2>4. PICK m : m = link
    OBVIOUS
  <2>5. PICK st : st = status
    OBVIOUS
  <2>6. check_preemption(m, st, priority')
    BY <2>1, <2>4, <2>5
  <2>7. check_preemption(m, st, pri)
    BY <2>3, <2>6, CheckConstant
  <2>8. check_preemption(link, status, pri)
    BY <2>4, <2>5, <2>7
  <2>9. WaitInv'
    BY <1>0, <1>1, <2>1, <2>8, CheckWaits
  <2>10. ASSUME NEW l \in OnList(link, locks_held(me)) \intersect Contested
         PROVE  FALSE
    <3>1. waiters(l) \in refresh_lists(me) /\ l \in Lock
      BY WaitSets DEF refresh_lists
    <3>2. LoopEnd(link, waiters(l)) = "ok"
      BY <1>2, <3>1
    <3>3. Memory(link, Running, Clean, Asleep \union (Running \intersect Clean),
                 Contested, Fresh)
      BY <1>0 DEF WaitInv
    <3>4. Fresh = {}
      BY <1>0 DEF Fresh, Running
    <3>5. Memory(link, Running, Clean, Asleep \union (Running \intersect Clean),
                 Contested, {})
      BY <3>3, <3>4
    <3> QED BY <3>1, <3>2, <3>5, ReleaseLoop
  <2> QED BY <1>1, <2>9, <2>10
<1>3. CASE ends # {"ok"}
  BY <1>1, <1>3 DEF Refresh, Stop, WaitInv
<1> QED BY <1>2, <1>3

\* timer_wakeup.
LEMMA WakeupWaits ==
  ASSUME OwnerInv, DataOK, WaitInv, NEW t \in Thread, TimerWakeup(t)
  PROVE  WaitInv' /\ waiting_lock[t] = NULL
<1>0. outcome = "ok" /\ pc[t] = "asleep"
  BY DEF TimerWakeup, IntrOn
<1>1. PICK r \in list_insert_ordered(link, ready_list, t, priority) :
          outcome' = r.outcome /\ link' = r.link
  BY DEF TimerWakeup
<1>2. /\ pc' = [pc EXCEPT ![t] = "run"] /\ status' = [status EXCEPT ![t] = "READY"]
      /\ UNCHANGED <<cur, waiting_lock, lock, holder>>
  BY DEF TimerWakeup
<1>3. /\ Memory(link, Running, Clean, Asleep \union (Running \intersect Clean),
                Contested, Fresh)
      /\ Running \intersect Asleep = {}
      /\ \A u \in Running : status[u] = "RUNNING"
      /\ Waits
  BY <1>0 DEF WaitInv
<1>4. waiting_lock[t] = NULL /\ t \in Clean /\ t \in Asleep /\ t \notin Running
  BY <1>0, <1>3 DEF Waits, Clean, Asleep
<1>5. ASSUME outcome' = "ok"
      PROVE  WaitInv'
  <2>1. PICK b : Inserted(link, ready_list, t, b, r.link)
    BY <1>1, <1>5, InsertIsInserted, ThreadLists, PriorityIsInt DEF DataOK
  <2> DEFINE loose == (Asleep \ {t}) \union (Running \intersect Clean)
  <2>2. Memory(link, Running \union {t}, Clean, loose, Contested, Fresh)
    BY <1>3 DEF Memory, Backed
  <2>3. t \notin loose /\ \A n \in From : link[n].next # t
    BY <1>3, <1>4 DEF Memory, Loose
  <2>4. ready_list \in ThreadList /\ \A l \in Lock : ready_list # waiters(l)
    BY ThreadLists, OtherLists
  <2>5. t \in Clean => \A n \in From \ (Running \union {t}) : link[n].next # t
    BY <2>3
  <2> HIDE DEF loose
  <2>6. Memory(r.link, Running, Clean, loose, Contested, Fresh \ {t})
    BY <2>1, <2>2, <2>3, <2>4, <2>5, InsertMemory, WaitSets
  <2>7. Running' = Running /\ Clean' = Clean /\ Contested' = Contested
    BY <1>2 DEF Running, Clean, Contested
  <2>8. Asleep' = Asleep \ {t} /\ Fresh' = Fresh \ {t}
    BY <1>2, <1>4, <2>7, WaitSets DEF Asleep, Fresh, OwnerInv
  <2>9. \A u \in Running' : status'[u] = "RUNNING"
    BY <1>2, <1>3, <1>4, <2>7, WaitSets DEF DataOK
  <2>10. Waits'
    BY <1>2, <1>3, <1>4 DEF Waits, OwnerInv
  <2>11. Memory(link', Running', Clean', Asleep' \union (Running' \intersect Clean'),
                Contested', Fresh')
    BY <1>1, <2>6, <2>7, <2>8 DEF loose
  <2> QED BY <1>3, <2>7, <2>8, <2>9, <2>10, <2>11 DEF WaitInv
<1> QED BY <1>4, <1>5 DEF WaitInv

\* The end of a time slice.
LEMMA PreemptWaits ==
  ASSUME OwnerInv, DataOK, WaitInv, Preempt
  PROVE  WaitInv'
<1>0. outcome = "ok" /\ thread_yield(link, status, priority)
      /\ UNCHANGED <<waiting_lock, pc, lock, holder>>
  BY DEF Preempt, IntrOn, threadVars
<1>1. /\ Memory(link, Running, Clean, Asleep \union (Running \intersect Clean),
                Contested, Fresh)
      /\ Running \intersect Asleep = {}
      /\ Waits
  BY <1>0 DEF WaitInv
<1>2. PICK clean \in SUBSET Thread : clean = Clean
  BY WaitSets
<1>3. PICK asleep \in SUBSET Thread : asleep = Asleep
  BY WaitSets
<1>4. PICK contested : contested = Contested
  OBVIOUS
<1>5. PICK fresh \in SUBSET Thread : fresh = Fresh
  BY WaitSets
<1>6. PICK m : m = link
  OBVIOUS
<1>7. PICK st \in [Thread -> Status] : st = status
  BY DEF DataOK
<1>8. PICK pri \in [Thread -> Int] : pri = priority
  BY PriorityIsInt DEF DataOK
<1>9. Kept(clean, asleep, contested)'
  <2>1. Memory(m, Running, clean, asleep \union (Running \intersect clean), contested, fresh)
        /\ fresh \subseteq Running /\ Running \intersect asleep = {}
    BY <1>1, <1>2, <1>3, <1>4, <1>5, <1>6, WaitSets
  <2>2. thread_yield(m, st, pri) /\ cur \in Thread \union {Idle}
    BY <1>0, <1>6, <1>7, <1>8 DEF OwnerInv
  <2> QED BY <2>1, <2>2, YieldKeeps
<1>10. clean = Clean' /\ contested = Contested' /\ asleep = Asleep'
  BY <1>0, <1>2, <1>3, <1>4 DEF Clean, Contested, Asleep
<1>11. Waits'
  BY <1>0, <1>1 DEF Waits
<1> QED BY <1>9, <1>10, <1>11, KeptWaits

\* A call keeps the invariant, and nobody who waits for a lock stops waiting.
LEMMA CallWaits ==
  ASSUME OwnerInv, DataOK, WaitInv, Call
  PROVE  /\ WaitInv'
         /\ \A t \in Thread : waiting_lock[t] # NULL => waiting_lock'[t] = waiting_lock[t]
<1>0. outcome = "ok" /\ cur \in Thread /\ pc[cur] = "run" /\ Waits
  <2>1. At("run")
    BY DEF Call, AcquireFree, AcquireHeld, LockRelease, TryAcquire, ThreadSetPriority
  <2>2. outcome = "ok" /\ cur \in Thread /\ pc[cur] = "run"
    BY <2>1, AtRuns
  <2> QED BY <2>2 DEF WaitInv
<1>1. PICK me \in Thread : me = cur
  BY <1>0
<1>2. waiting_lock[me] = NULL
  BY <1>0, <1>1 DEF Waits
<1>3. ASSUME NEW l \in Lock, AcquireFree(l)
      PROVE  WaitInv' /\ waiting_lock' = waiting_lock
  <2>1. sema_down_loop(l) /\ lock' = [lock EXCEPT ![me] = l]
    BY <1>1, <1>3 DEF AcquireFree
  <2>2. \A t \in Thread : waiting_lock[t] # NULL \/ t # me => lock'[t] = lock[t]
    BY <1>2, <2>1 DEF OwnerInv
  <2> QED BY <1>0, <1>1, <1>2, <2>1, <2>2, LoopWaits
<1>4. ASSUME NEW l \in Lock, LockRelease(l)
      PROVE  WaitInv' /\ waiting_lock' = waiting_lock
  <2>1. waiting_lock' = waiting_lock
    BY <1>4 DEF LockRelease
  <2> QED BY <1>4, <2>1, ReleaseWaits
<1>5. ASSUME NEW l \in TryLock, TryAcquire(l)
      PROVE  WaitInv' /\ waiting_lock' = waiting_lock
  <2>1. /\ lock' = [lock EXCEPT ![me] = l] /\ pc' = [pc EXCEPT ![me] = "try"]
        /\ UNCHANGED <<cur, status, waiting_lock, holder, link>>
    BY <1>1, <1>5 DEF TryAcquire, Goto
  <2>2. \A t \in Thread : /\ pc'[t] = "asleep" <=> pc[t] = "asleep"
                          /\ pc'[t] = "wait" <=> pc[t] = "wait"
                          /\ waiting_lock[t] # NULL => pc'[t] = pc[t] /\ lock'[t] = lock[t]
    BY <1>0, <1>1, <1>2, <2>1 DEF OwnerInv
  <2> QED BY <1>0, <2>1, <2>2, SameWaits
<1>6. ASSUME NEW pri \in NewPriority, ThreadSetPriority(pri)
      PROVE  WaitInv' /\ waiting_lock' = waiting_lock
  <2>1. /\ pc' = [pc EXCEPT ![me] = "check"]
        /\ UNCHANGED <<cur, status, waiting_lock, lock, holder, link>>
    BY <1>1, <1>6 DEF ThreadSetPriority, Goto
  <2>2. \A t \in Thread : /\ pc'[t] = "asleep" <=> pc[t] = "asleep"
                          /\ pc'[t] = "wait" <=> pc[t] = "wait"
                          /\ waiting_lock[t] # NULL => pc'[t] = pc[t] /\ lock'[t] = lock[t]
    BY <1>0, <1>1, <1>2, <2>1 DEF OwnerInv
  <2> QED BY <1>0, <2>1, <2>2, SameWaits
<1> QED BY <1>3, <1>4, <1>5, <1>6, AcquireHeldWaits DEF Call

\* The rest of a call keeps it.
LEMMA ContinueWaits ==
  ASSUME OwnerInv, DataOK, WaitInv, Continue \/ SemaDown
  PROVE  WaitInv' /\ waiting_lock' = waiting_lock
<1>0. outcome = "ok" /\ cur \in Thread /\ pc[cur] \in {"try", "refresh", "check", "wait", "sema_down"}
  BY AtRuns DEF Continue, TryOwn, Refresh, Check, SemaDown
<1>1. PICK me \in Thread : me = cur
  BY <1>0
<1>2. Waits
  BY <1>0 DEF WaitInv
<1>3. CASE TryOwn
  <2>1. /\ holder' = [holder EXCEPT ![lock[me]] = me] /\ pc' = [pc EXCEPT ![me] = "run"]
        /\ pc[me] = "try"
        /\ UNCHANGED <<cur, status, waiting_lock, lock, link>>
    BY <1>1, <1>3 DEF TryOwn, Goto, At
  <2>2. waiting_lock[me] = NULL
    BY <1>2, <2>1 DEF Waits
  <2>3. \A t \in Thread : /\ pc'[t] = "asleep" <=> pc[t] = "asleep"
                          /\ pc'[t] = "wait" <=> pc[t] = "wait"
                          /\ waiting_lock[t] # NULL => pc'[t] = pc[t] /\ lock'[t] = lock[t]
    BY <2>1, <2>2 DEF OwnerInv
  <2>4. \A l \in Lock : holder[l] # NULL => holder'[l] # NULL
    BY <2>1, Distinct DEF OwnerInv
  <2> QED BY <1>0, <2>1, <2>3, <2>4, SameWaits
<1>4. CASE Refresh
  <2>1. waiting_lock' = waiting_lock
    BY <1>4 DEF Refresh
  <2> QED BY <1>4, <2>1, RefreshWaits
<1>5. CASE Check
  <2>1. /\ pc[me] = "check" /\ check_preemption(link, status, priority)
        /\ pc' = [pc EXCEPT ![me] = "run"] /\ UNCHANGED <<waiting_lock, lock, holder>>
    BY <1>1, <1>5 DEF Check, Goto, At
  <2>2. PICK pri \in [Thread -> Int] : pri = priority
    BY PriorityIsInt DEF DataOK
  <2>3. check_preemption(link, status, pri)
    BY <2>1, <2>2
  <2> QED BY <1>0, <1>1, <2>1, <2>3, CheckWaits
<1>6. CASE SemaDown
  <2>1. PICK l \in Lock : l = lock[me]
    BY <1>1, <1>6, AtRuns DEF SemaDown, OwnerInv
  <2>2. sema_down_loop(l) /\ lock' = lock
    BY <1>1, <1>6, <2>1 DEF SemaDown
  <2> QED BY <1>0, <1>1, <2>1, <2>2, LoopWaits
<1> QED BY <1>3, <1>4, <1>5, <1>6 DEF Continue

\* At the start every list is empty.
LEMMA InitWaits == Init => WaitInv
<1> SUFFICES ASSUME Init PROVE WaitInv
  OBVIOUS
<1>1. /\ cur \in Thread /\ link = EmptyLists /\ waiting_lock = [t \in Thread |-> NULL]
      /\ pc = [t \in Thread |-> IF t = cur THEN "run" ELSE "asleep"]
      /\ status = [t \in Thread |-> IF t = cur THEN "RUNNING" ELSE "BLOCKED"]
  BY DEF Init
<1>2. /\ LinkOK(link)
      /\ \A e \in Thread : link[e] = [prev |-> NULL, next |-> NULL]
      /\ \A list \in ThreadList :
             /\ link[tail(list)] = [prev |-> head(list), next |-> NULL]
             /\ link[head(list)] = [prev |-> NULL, next |-> tail(list)]
  BY <1>1, EmptySound, Kinds
<1>3. /\ \A e \in Thread : link[e].next = NULL /\ link[e].prev = NULL
      /\ \A list \in ThreadList :
             link[tail(list)].prev = head(list) /\ link[head(list)].next = tail(list)
  <2>1. ASSUME NEW e \in Thread
        PROVE  link[e].next = NULL /\ link[e].prev = NULL
    <3>1. link[e] = [prev |-> NULL, next |-> NULL]
      BY <1>2
    <3> QED BY <3>1
  <2>2. ASSUME NEW list \in ThreadList
        PROVE  link[tail(list)].prev = head(list) /\ link[head(list)].next = tail(list)
    <3>1. /\ link[tail(list)] = [prev |-> head(list), next |-> NULL]
          /\ link[head(list)] = [prev |-> NULL, next |-> tail(list)]
      BY <1>2
    <3> QED BY <3>1
  <2> QED BY <2>1, <2>2
<1>4. \A n \in From : \A t \in Thread : link[n].next # t
  BY <1>3, Distinct, FromTo DEF From, Heads
<1>5. ASSUME NEW list \in ThreadList
      PROVE  Untouched(link, list)
  <2>1. ASSUME NEW n \in From, n # head(list)
        PROVE  link[n].next # tail(list)
    <3>1. tail(list) # NULL
      BY NodesApart, QueueTail
    <3> QED BY <1>3, <2>1, <3>1, HeadNotTail DEF From, Heads
  <2>2. ASSUME NEW n \in To, n # tail(list)
        PROVE  link[n].prev # head(list)
    <3>1. head(list) # NULL
      BY NodesApart, Kinds DEF Heads
    <3> QED BY <1>3, <2>2, <3>1, HeadNotTail DEF To, Ends
  <2> QED BY <1>3, <2>1, <2>2 DEF Untouched
<1>6. Clean \subseteq Thread /\ Contested = {} /\ Running = {cur} /\ Asleep \subseteq Thread
  BY <1>1, Distinct DEF Clean, Contested, Running, Asleep
<1>7. Memory(link, Running, Clean, Asleep \union (Running \intersect Clean), Contested, Fresh)
  BY <1>2, <1>4, <1>5, <1>6, ThreadLists DEF Memory, Backed, Loose, WaitersOK
<1>8. Running \intersect Asleep = {} /\ \A t \in Running : status[t] = "RUNNING"
  BY <1>1, <1>6 DEF Asleep
<1>9. Waits
  BY <1>1 DEF Waits
<1> QED BY <1>7, <1>8, <1>9 DEF WaitInv

\* Everything known of the locks so far.
LockInv == OwnerInv /\ DataOK /\ WaitInv

\* It is inductive, and nobody who waits for a lock stops waiting.
LEMMA NextWaits ==
  ASSUME LockInv, [Next]_vars
  PROVE  /\ LockInv'
         /\ \A t \in Thread : waiting_lock[t] # NULL => waiting_lock'[t] = waiting_lock[t]
<1>1. OwnerInv /\ DataOK /\ WaitInv /\ OwnerInv' /\ DataOK'
  BY NextTypes DEF LockInv
<1>2. CASE Call
  BY <1>1, <1>2, CallWaits DEF LockInv
<1>3. CASE Continue \/ SemaDown
  BY <1>1, <1>3, ContinueWaits DEF LockInv
<1>4. CASE Interrupt
  <2>1. WaitInv'
    BY <1>1, <1>4, WakeupWaits, PreemptWaits DEF Interrupt
  <2>2. waiting_lock' = waiting_lock
    BY <1>4 DEF Interrupt, TimerWakeup, Preempt, threadVars
  <2> QED BY <1>1, <2>1, <2>2 DEF LockInv
<1>5. CASE UNCHANGED vars
  <2>1. WaitInv' /\ waiting_lock' = waiting_lock
    BY <1>1, <1>5 DEF vars, threadVars, WaitInv, Running, Clean, Asleep, Contested, Fresh, Waits
  <2> QED BY <1>1, <2>1 DEF LockInv
<1> QED BY <1>2, <1>3, <1>4, <1>5 DEF Next

\* It holds at the start.
LEMMA InitLockInv == Init => LockInv
BY InitOwns, InitTypes, InitWaits DEF LockInv

\* A contended lock is never handed over, for any number of threads and locks
\* and whatever else they call: the walk of lock_release over lock->waiters
\* never reaches the tail of that list again once a second thread has put its
\* `elem' there and gone on to the semaphore with it.
THEOREM NeverHanded == Spec => NeverHandedOver
<1>1. LockInv /\ [Next]_vars =>
          LockInv' /\ [\A t \in Thread : waiting_lock[t] # NULL =>
                           waiting_lock'[t] = waiting_lock[t]]_vars
  BY NextWaits
<1> QED BY <1>1, InitLockInv, PTL DEF Spec, NeverHandedOver

-----------------------------------------------------------------------------
(* Donations are lost by the holder only.                                  *)

\* A lock that somebody waits for keeps its holder while the kernel runs.
LEMMA HolderStays ==
  ASSUME LockInv, Next, outcome' = "ok", NEW l \in Contested
  PROVE  holder'[l] = holder[l] /\ holder[l] \in Thread
<1>0. OwnerInv /\ DataOK /\ WaitInv /\ l \in Lock /\ outcome = "ok"
  BY WaitSets DEF LockInv, Next, Call, AcquireFree, AcquireHeld, LockRelease, TryAcquire,
     ThreadSetPriority, Continue, TryOwn, Refresh, Check, SemaDown, At, Interrupt,
     TimerWakeup, Preempt, IntrOn
<1>1. holder[l] \in Thread
  <2>1. PICK t \in Thread : waiting_lock[t] = l
    BY DEF Contested
  <2>2. l # NULL /\ holder[l] \in Thread \union {NULL}
    BY <1>0, Distinct DEF OwnerInv
  <2> QED BY <1>0, <2>1, <2>2 DEF WaitInv, Waits
<1> SUFFICES holder'[l] = holder[l]
  BY <1>1
<1>2. ASSUME NEW k \in Lock, cur \in Thread, sema_down_loop(k)
      PROVE  holder'[l] = holder[l]
  <2>1. CASE value[k] = 0
    BY <1>2, <2>1 DEF sema_down_loop, block_on
  <2>2. CASE value[k] # 0
    <3>1. Owners(k) = {}
      BY <1>0, <2>2 DEF OwnerInv
    <3>2. k # l
      BY <1>1, <3>1 DEF Owners
    <3> QED BY <1>0, <1>2, <2>2, <3>2 DEF sema_down_loop, take, OwnerInv
  <2> QED BY <2>1, <2>2
<1>3. ASSUME NEW k \in Lock, LockRelease(k)
      PROVE  holder'[l] = holder[l]
  <2>1. k # l
    BY <1>0, <1>3, ReleaseWaits
  <2> QED BY <1>0, <1>3, <2>1, ReleaseEffect DEF OwnerInv
<1>4. CASE TryOwn
  <2>1. cur \in Thread /\ pc[cur] = "try" /\ holder' = [holder EXCEPT ![lock[cur]] = cur]
    BY <1>0, <1>4, AtRuns DEF TryOwn
  <2>2. CASE lock[cur] = l
    <3>1. cur \in Owners(l) /\ holder[l] \in Owners(l)
      BY <1>1, <2>1, <2>2 DEF Owners
    <3>2. holder[l] = cur
      BY <1>0, <3>1 DEF OwnerInv
    <3> QED BY <1>0, <2>1, <2>2, <3>2 DEF OwnerInv
  <2>3. CASE lock[cur] # l
    BY <1>0, <2>1, <2>3 DEF OwnerInv
  <2> QED BY <2>2, <2>3
<1>5. CASE Interrupt
  BY <1>0, <1>5, InterruptLeaves
<1>6. CASE Refresh \/ Check
  BY <1>0, <1>6, CheckLeaves
<1>7. CASE SemaDown
  BY <1>0, <1>2, <1>7, AtRuns DEF SemaDown, OwnerInv
<1>8. CASE Call
  <2>1. ASSUME NEW k \in Lock, AcquireFree(k)
        PROVE  holder'[l] = holder[l]
    BY <1>0, <1>2, <2>1, AtRuns DEF AcquireFree
  <2>2. ASSUME NEW k \in Lock, AcquireHeld(k)
        PROVE  holder'[l] = holder[l]
    BY <2>2 DEF AcquireHeld
  <2>3. ASSUME NEW k \in TryLock, TryAcquire(k)
        PROVE  holder'[l] = holder[l]
    BY <2>3 DEF TryAcquire
  <2>4. ASSUME NEW pri \in NewPriority, ThreadSetPriority(pri)
        PROVE  holder'[l] = holder[l]
    BY <2>4 DEF ThreadSetPriority
  <2> QED BY <1>3, <1>8, <2>1, <2>2, <2>3, <2>4 DEF Call
<1> QED BY <1>1, <1>4, <1>5, <1>6, <1>7, <1>8 DEF Next, Continue

\* t does not wait for a thread of lower priority.
Upheld(t) ==
    waiting_lock[t] # NULL /\ holder[waiting_lock[t]] # NULL =>
        priority[holder[waiting_lock[t]]] >= priority[t]

\* lock_acquire of a lock that is held: the donation reaches every holder.
LEMMA AcquireHeldUpholds ==
  ASSUME LockInv, NEW l \in Lock, AcquireHeld(l), outcome' = "ok", NEW t \in Thread, Upheld(t)
  PROVE  Upheld(t)'
<1>0. OwnerInv /\ DataOK /\ WaitInv /\ outcome = "ok" /\ cur \in Thread /\ pc[cur] = "run" /\ Waits
  BY AtRuns DEF LockInv, AcquireHeld, WaitInv
<1>1. PICK me \in Thread : me = cur
  BY <1>0
<1>2. PICK h \in Thread : h = holder[l]
  BY <1>0 DEF AcquireHeld, OwnerInv
<1>3. /\ waiting_lock' = [waiting_lock EXCEPT ![me] = l] /\ holder' = holder
      /\ priority' = donate_priority(me, h, priority)
  BY <1>1, <1>2 DEF AcquireHeld
<1>4. /\ waiting_lock \in [Thread -> Lock \union {NULL}]
      /\ holder \in [Lock -> Thread \union {NULL}] /\ priority \in [Thread -> Int]
  BY <1>0, PriorityIsInt DEF DataOK, OwnerInv
<1>5. PICK D : D = donate_priority(me, h, priority)
  OBVIOUS
<1>6. /\ D \in [Thread -> Int]
      /\ \A u \in Thread : \/ D[u] = priority[u]
                           \/ D[u] = priority[me] /\ priority[u] < priority[me]
      /\ D[h] >= priority[me]
      /\ \A u \in Thread : D[u] # priority[u] =>
             waits_for(u) = NULL \/ D[waits_for(u)] >= priority[me]
  BY <1>4, <1>5, DonateReaches
<1>7. CASE t = me
  <2>1. waiting_lock'[t] = l /\ holder'[l] = h /\ D[t] = priority[me]
    BY <1>2, <1>3, <1>4, <1>6, <1>7
  <2> QED BY <1>3, <1>5, <1>6, <2>1 DEF Upheld
<1>8. CASE t # me /\ waiting_lock[t] # NULL
  <2>1. waiting_lock'[t] = waiting_lock[t] /\ waiting_lock[t] \in Lock
    BY <1>3, <1>4, <1>8
  <2>2. PICK g \in Thread : g = holder[waiting_lock[t]]
    BY <1>0, <1>4, <1>8, <2>1 DEF Waits
  <2>3. waits_for(t) = g /\ priority[g] >= priority[t] /\ g # NULL
    BY <1>8, <2>2, Distinct DEF waits_for, Upheld
  <2>4. D[g] >= D[t]
    <3>1. \A u \in Thread : D[u] >= priority[u] /\ D[u] \in Int /\ priority[u] \in Int
      BY <1>4, <1>6
    <3>2. CASE D[t] = priority[t]
      BY <2>3, <3>1, <3>2
    <3>3. CASE D[t] # priority[t]
      BY <1>6, <2>3, <3>1, <3>3
    <3> QED BY <3>2, <3>3
  <2> QED BY <1>3, <1>5, <2>1, <2>2, <2>4 DEF Upheld
<1>9. CASE t # me /\ waiting_lock[t] = NULL
  BY <1>3, <1>4, <1>9 DEF Upheld
<1> QED BY <1>7, <1>8, <1>9

\* Whatever else sets a priority sets the priority of the running thread, which
\* waits for no lock.
LEMMA OthersUphold ==
  ASSUME LockInv, Next, \A l \in Lock : ~AcquireHeld(l), outcome' = "ok",
         NEW t \in Thread, Upheld(t), ~Upheld(t)'
  PROVE  /\ waiting_lock'[t] = waiting_lock[t] /\ waiting_lock[t] \in Contested
         /\ holder'[waiting_lock'[t]] = cur
         /\ \/ pc[cur] = "run" /\ pc'[cur] = "check" /\ \E pri \in NewPriority : ThreadSetPriority(pri)
            \/ /\ Refresh /\ pc[cur] = "refresh"
               /\ waiting_lock'[t] \notin OnList(link, locks_held(cur))
<1>0. OwnerInv /\ DataOK /\ WaitInv /\ outcome = "ok" /\ Waits
  BY DEF LockInv, Next, Call, AcquireFree, AcquireHeld, LockRelease, TryAcquire,
     ThreadSetPriority, Continue, TryOwn, Refresh, Check, SemaDown, At, Interrupt,
     TimerWakeup, Preempt, IntrOn, WaitInv
<1>1. waiting_lock' = waiting_lock
  <2>1. CASE Call
    <3>1. ASSUME NEW l \in Lock, AcquireFree(l)
          PROVE  waiting_lock' = waiting_lock
      <4>1. cur \in Thread /\ pc[cur] = "run"
        BY <1>0, <3>1, AtRuns DEF AcquireFree
      <4>2. waiting_lock[cur] = NULL
        BY <1>0, <4>1 DEF Waits
      <4> QED BY <1>0, <3>1, <4>1, <4>2 DEF AcquireFree, sema_down_loop, block_on, take, DataOK
    <3> QED BY <2>1, <3>1 DEF Call, LockRelease, TryAcquire, ThreadSetPriority
  <2>2. CASE Continue \/ SemaDown
    BY <1>0, <2>2, ContinueWaits
  <2>3. CASE Interrupt
    BY <2>3 DEF Interrupt, TimerWakeup, Preempt, threadVars
  <2> QED BY <2>1, <2>2, <2>3 DEF Next
<1>2. waiting_lock[t] # NULL /\ waiting_lock[t] \in Contested
  BY <1>0, <1>1 DEF Upheld, Contested, DataOK
<1>3. PICK l \in Contested : l = waiting_lock[t]
  BY <1>2
<1>4. PICK h \in Thread : h = holder[l] /\ h = holder'[l]
  BY <1>3, HolderStays
<1>5. priority[h] >= priority[t] /\ ~(priority'[h] >= priority'[t])
  BY <1>1, <1>2, <1>3, <1>4, Distinct DEF Upheld
<1>6. priority' # priority
  BY <1>5
<1>7. Refresh \/ \E pri \in NewPriority : ThreadSetPriority(pri)
  BY <1>6 DEF Next, Call, AcquireFree, LockRelease, TryAcquire, Continue, TryOwn, Check,
     SemaDown, Interrupt, TimerWakeup, Preempt, threadVars
<1>8. cur \in Thread /\ pc[cur] \in {"run", "refresh"}
      /\ (Refresh => pc[cur] = "refresh") /\ (~Refresh => pc[cur] = "run")
  BY <1>0, <1>7, AtRuns DEF Refresh, ThreadSetPriority
<1>9. t # cur
  BY <1>0, <1>2, <1>8 DEF Waits
<1>10. \A u \in Thread : u # cur => priority'[u] = priority[u]
  BY <1>0, <1>6, <1>7, <1>8 DEF Refresh, ThreadSetPriority, DataOK
<1>11. h = cur
  BY <1>5, <1>9, <1>10
<1>12. Refresh => l \notin OnList(link, locks_held(cur))
  BY <1>0, RefreshWaits
<1>13. ~Refresh => pc'[cur] = "check"
  BY <1>0, <1>7, <1>8 DEF ThreadSetPriority, Goto, OwnerInv
<1> QED BY <1>1, <1>2, <1>3, <1>4, <1>7, <1>8, <1>11, <1>12, <1>13

\* A donation is lost by what the holder of the lock does: it sets its own
\* priority with thread_set_priority, or refresh_priority does not see the lock.
THEOREM DonationLost == Spec => DonationLostByHolder
<1> DEFINE Lost == \A t \in Thread :
               Inverted(t)' /\ ~Inverted(t) =>
                   LET l == waiting_lock'[t]
                   IN /\ holder'[l] = cur
                      /\ \/ pc[cur] = "run" /\ pc'[cur] = "check"
                         \/ pc[cur] = "refresh" /\ l \notin OnList(link, locks_held(cur))
<1>1. LockInv /\ [Next]_vars => LockInv' /\ [Lost]_vars
  <2> SUFFICES ASSUME LockInv, [Next]_vars
               PROVE  LockInv' /\ [Lost]_vars
    OBVIOUS
  <2>1. LockInv'
    BY NextWaits
  <2>2. ASSUME Next, NEW t \in Thread, Inverted(t)', ~Inverted(t)
        PROVE  LET l == waiting_lock'[t]
               IN /\ holder'[l] = cur
                  /\ \/ pc[cur] = "run" /\ pc'[cur] = "check"
                     \/ pc[cur] = "refresh" /\ l \notin OnList(link, locks_held(cur))
    <3>1. outcome = "ok" /\ outcome' = "ok"
      BY <2>2 DEF LockInv, Next, Call, AcquireFree, AcquireHeld, LockRelease, TryAcquire,
         ThreadSetPriority, Continue, TryOwn, Refresh, Check, SemaDown, At, Interrupt,
         TimerWakeup, Preempt, IntrOn, Inverted
    <3>2. OwnerInv /\ DataOK /\ OwnerInv' /\ DataOK'
      BY <2>1 DEF LockInv
    <3>3. \A u \in Thread : priority[u] \in Int /\ priority'[u] \in Int
      BY <3>2, PriorityIsInt DEF DataOK
    <3>4. Upheld(t)
      BY <2>2, <3>1, <3>2, <3>3 DEF Upheld, Inverted, DataOK, OwnerInv
    <3>5. ~Upheld(t)'
      BY <2>2, <3>2, <3>3 DEF Upheld, Inverted, DataOK, OwnerInv
    <3> QED BY <2>2, <3>1, <3>4, <3>5, AcquireHeldUpholds, OthersUphold
  <2> QED BY <2>1, <2>2
<1> QED BY <1>1, InitLockInv, PTL DEF Spec, DonationLostByHolder

=============================================================================
