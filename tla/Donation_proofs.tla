--------------------------- MODULE Donation_proofs --------------------------
(***************************************************************************)
(* Where the lists of Locks are whole: a list as a chain of ranks, and what *)
(* the list operations do to it; locks_held, and with it why donation      *)
(* reaches every holder; the run queue, and with it why a kernel whose     *)
(* locks are never contended goes on, with its queue in order.             *)
(***************************************************************************)
EXTENDS Locks_proofs

-----------------------------------------------------------------------------
(* Lists that are whole.                                                   *)

\* The list holds S, linked both ways in the order of the ranks: the head has
\* rank 0, the tail the highest, and `next' leads from each node to the one
\* of the next higher rank.
Chain(m, list, S, rank) ==
    /\ rank \in [Node -> Nat] /\ rank[head(list)] = 0 /\ rank[tail(list)] > 0
    /\ \A x \in S : 0 < rank[x] /\ rank[x] < rank[tail(list)]
    /\ \A x, y \in S : rank[x] = rank[y] => x = y
    /\ \A a \in S \union {head(list)} :
           /\ m[a].next \in S \union {tail(list)}
           /\ m[m[a].next].prev = a
           /\ rank[a] < rank[m[a].next]
           /\ \A x \in S : rank[x] <= rank[a] \/ rank[x] >= rank[m[a].next]
    /\ \A b \in S \union {tail(list)} :
           m[b].prev \in S \union {head(list)} /\ m[m[b].prev].next = b
Whole(m, list, S) == \E rank : Chain(m, list, S, rank)

\* From m to r only this list changes, and the pointers of the elements S.
OnlyOn(m, r, list, S) ==
    /\ \A n \in Node : n \notin S \union {head(list)} => r[n].next = m[n].next
    /\ \A n \in Node : n \notin S \union {tail(list)} => r[n].prev = m[n].prev

\* A list stays whole when the pointers on it stay as they are.
LEMMA SameChain ==
  ASSUME NEW m, NEW r, NEW list, NEW S, NEW rank, Chain(m, list, S, rank),
         \A n \in S \union {head(list)} : r[n].next = m[n].next,
         \A n \in S \union {tail(list)} : r[n].prev = m[n].prev
  PROVE  Chain(r, list, S, rank)
<1>1. \A a \in S \union {head(list)} :
          r[a].next \in S \union {tail(list)} /\ r[r[a].next].prev = m[m[a].next].prev
  BY DEF Chain
<1>2. \A b \in S \union {tail(list)} :
          r[b].prev \in S \union {head(list)} /\ r[r[b].prev].next = m[m[b].prev].next
  BY DEF Chain
<1> QED BY <1>1, <1>2 DEF Chain

\* The head and the tail of a list of the side.
LEMMA ListEnds ==
  ASSUME NEW E, NEW lists, IsSide(E, lists), NEW list \in lists
  PROVE  /\ head(list) \in Node /\ tail(list) \in Node /\ head(list) # tail(list)
         /\ head(list) \notin E /\ tail(list) \notin E
         /\ tail(list) \in Ends(lists) /\ head(list) \in Heads(lists)
         /\ tail(list) \in Tails /\ E \subseteq Node
<1>1. tail(list) \in Ends(lists) /\ head(list) \in Heads(lists)
  BY DEF Ends, Heads
<1> QED BY <1>1, SideParts, HeadNotTail DEF Side

\* An empty list.
LEMMA EmptyChain ==
  ASSUME NEW E, NEW lists, IsSide(E, lists), NEW list \in lists, NEW m,
         m[head(list)].next = tail(list), m[tail(list)].prev = head(list)
  PROVE  Whole(m, list, {})
<1> DEFINE rank == [n \in Node |-> IF n = head(list) THEN 0 ELSE 1]
<1>1. rank \in [Node -> Nat] /\ rank[head(list)] = 0 /\ rank[tail(list)] = 1
  BY ListEnds
<1> HIDE DEF rank
<1>2. Chain(m, list, {}, rank)
  BY <1>1 DEF Chain
<1> QED BY <1>2 DEF Whole

\* list_remove of an element of a list that is whole.
LEMMA ChainRemove ==
  ASSUME NEW E, NEW lists, IsSide(E, lists), NEW list \in lists, NEW m, LinkOK(m),
         NEW S \in SUBSET Linked(m, E), Whole(m, list, S), NEW e \in S
  PROVE  /\ Whole(list_remove(m, e), list, S \ {e})
         /\ OnlyOn(m, list_remove(m, e), list, S)
<1> DEFINE r == list_remove(m, e)
           p == m[e].prev
           q == m[e].next
<1>1. \A n \in Node : /\ r[n].next = IF n = p THEN q ELSE m[n].next
                      /\ r[n].prev = IF n = q THEN p ELSE m[n].prev
  BY RemoveSound
<1>2. PICK rank : Chain(m, list, S, rank)
  BY DEF Whole
<1>3. /\ p \in S \union {head(list)} /\ q \in S \union {tail(list)}
      /\ m[p].next = e /\ m[q].prev = e
  BY <1>2 DEF Chain
<1>4. S \subseteq E /\ S \subseteq Node
  BY ListEnds DEF Linked
<1>5. /\ head(list) \in Node /\ tail(list) \in Node /\ head(list) # tail(list)
      /\ head(list) \notin S /\ tail(list) \notin S
  BY <1>4, ListEnds
<1> HIDE DEF r, p, q
<1>6. rank[p] < rank[e] /\ rank[e] < rank[q] /\ rank \in [Node -> Nat]
  BY <1>2, <1>3 DEF Chain, q
<1>7. p # e /\ q # e /\ p \in Node /\ q \in Node
  BY <1>3, <1>4, <1>5, <1>6
<1>8. ASSUME NEW a \in (S \ {e}) \union {head(list)}
      PROVE  /\ r[a].next \in (S \ {e}) \union {tail(list)}
             /\ r[r[a].next].prev = a
             /\ rank[a] < rank[r[a].next]
             /\ \A x \in S \ {e} : rank[x] <= rank[a] \/ rank[x] >= rank[r[a].next]
  <2>1. a \in S \union {head(list)} /\ a \in Node /\ a # e
    BY <1>4, <1>5
  <2>2. CASE a = p
    <3>1. r[a].next = q /\ r[q].prev = p
      BY <1>1, <1>7, <2>2
    <3>2. \A x \in S : rank[x] <= rank[p] \/ rank[x] >= rank[e]
      BY <1>2, <1>3 DEF Chain
    <3>3. \A x \in S : rank[x] <= rank[e] \/ rank[x] >= rank[q]
      BY <1>2 DEF Chain, q
    <3>4. \A x \in S : rank[x] = rank[e] => x = e
      BY <1>2 DEF Chain
    <3>5. \A x \in S : rank[x] \in Nat
      BY <1>4, <1>6
    <3>6. rank[e] \in Nat /\ rank[p] \in Nat /\ rank[q] \in Nat
      BY <1>4, <1>6, <1>7
    <3>7. \A x \in S \ {e} : rank[x] <= rank[a] \/ rank[x] >= rank[q]
      BY <2>2, <3>2, <3>3, <3>4, <3>5, <3>6
    <3> QED BY <1>3, <1>6, <1>7, <2>2, <3>1, <3>6, <3>7
  <2>3. CASE a # p
    <3>1. r[a].next = m[a].next
      BY <1>1, <2>1, <2>3
    <3>2. m[a].next \in S \union {tail(list)} /\ m[m[a].next].prev = a
          /\ rank[a] < rank[m[a].next]
          /\ \A x \in S : rank[x] <= rank[a] \/ rank[x] >= rank[m[a].next]
      BY <1>2, <2>1 DEF Chain
    <3>3. m[a].next # e /\ m[a].next # q
      BY <1>3, <2>1, <2>3, <3>2 DEF p
    <3>4. r[m[a].next].prev = a
      BY <1>1, <1>4, <1>5, <3>2, <3>3
    <3> QED BY <3>1, <3>2, <3>3, <3>4
  <2> QED BY <2>2, <2>3
<1>9. ASSUME NEW b \in (S \ {e}) \union {tail(list)}
      PROVE  r[b].prev \in (S \ {e}) \union {head(list)} /\ r[r[b].prev].next = b
  <2>1. b \in S \union {tail(list)} /\ b \in Node /\ b # e
    BY <1>4, <1>5
  <2>2. CASE b = q
    BY <1>1, <1>3, <1>7, <2>2
  <2>3. CASE b # q
    <3>1. r[b].prev = m[b].prev
      BY <1>1, <2>1, <2>3
    <3>2. m[b].prev \in S \union {head(list)} /\ m[m[b].prev].next = b
      BY <1>2, <2>1 DEF Chain
    <3>3. m[b].prev # e /\ m[b].prev # p
      BY <1>3, <2>1, <2>3, <3>2 DEF q
    <3>4. r[m[b].prev].next = b
      BY <1>1, <1>4, <1>5, <3>2, <3>3
    <3> QED BY <3>1, <3>2, <3>3, <3>4
  <2> QED BY <2>2, <2>3
<1>10. Chain(r, list, S \ {e}, rank)
  BY <1>2, <1>8, <1>9 DEF Chain
<1>11. OnlyOn(m, r, list, S)
  BY <1>1, <1>3 DEF OnlyOn
<1> QED BY <1>10, <1>11 DEF r, Whole

\* list_insert before an element, or the tail, of a list that is whole.
LEMMA ChainInsert ==
  ASSUME NEW E, NEW lists, IsSide(E, lists), NEW list \in lists, NEW m, LinkOK(m),
         NEW S \in SUBSET Linked(m, E), Whole(m, list, S),
         NEW b \in S \union {tail(list)}, NEW e \in E \ S
  PROVE  /\ Whole(list_insert(m, b, e), list, S \union {e})
         /\ OnlyOn(m, list_insert(m, b, e), list, S \union {e})
<1> DEFINE r == list_insert(m, b, e)
           p == m[b].prev
<1>0. /\ head(list) \in Node /\ tail(list) \in Node /\ head(list) # tail(list)
      /\ head(list) \notin E /\ tail(list) \notin E /\ tail(list) \in Ends(lists)
      /\ E \subseteq Node
  BY ListEnds
<1>1. /\ S \subseteq E /\ S \subseteq Node /\ e \in Node /\ b \in Node /\ b # e
      /\ b \in Linked(m, E) \union Ends(lists)
      /\ head(list) \notin S /\ tail(list) \notin S
  BY <1>0 DEF Linked
<1>2. \A n \in Node : /\ r[n].next = IF n = p THEN e
                                     ELSE IF n = e THEN b ELSE m[n].next
                      /\ r[n].prev = IF n = b THEN e
                                     ELSE IF n = e THEN p ELSE m[n].prev
  BY <1>1, InsertSound
<1>3. PICK rank : Chain(m, list, S, rank)
  BY DEF Whole
<1>4. p \in S \union {head(list)} /\ m[p].next = b
  BY <1>3 DEF Chain
<1> HIDE DEF r, p
<1>5. p # e /\ p \in Node
  BY <1>0, <1>1, <1>4
<1>6. rank \in [Node -> Nat] /\ rank[p] < rank[b] /\ rank[head(list)] = 0
  BY <1>3, <1>4 DEF Chain
<1> DEFINE k == rank[b]
           new == [n \in Node |-> IF n = e THEN k
                                  ELSE IF rank[n] >= k THEN rank[n] + 1 ELSE rank[n]]
<1>7. /\ new \in [Node -> Nat] /\ new[e] = k /\ k \in Nat
      /\ \A n \in Node : n # e =>
             new[n] = IF rank[n] >= k THEN rank[n] + 1 ELSE rank[n]
  BY <1>1, <1>6
<1>8. k > 0 /\ k <= rank[tail(list)]
  <2>1. \A n \in Node : rank[n] \in Nat
    BY <1>6
  <2>2. CASE b \in S
    <3>1. 0 < rank[b] /\ rank[b] < rank[tail(list)]
      BY <1>3, <2>2 DEF Chain
    <3> QED BY <1>0, <1>1, <2>1, <3>1
  <2>3. CASE b = tail(list)
    <3>1. rank[tail(list)] > 0
      BY <1>3 DEF Chain
    <3> QED BY <1>0, <2>1, <2>3, <3>1
  <2> QED BY <2>2, <2>3
<1> HIDE DEF k, new
<1>9. \A n \in Node : rank[n] \in Nat
  BY <1>6
<1>10. new[head(list)] = 0 /\ new[tail(list)] > 0
  BY <1>0, <1>6, <1>7, <1>8, <1>9
<1>11. \A x \in S \union {e} : 0 < new[x] /\ new[x] < new[tail(list)]
  <2>1. \A x \in S : 0 < rank[x] /\ rank[x] < rank[tail(list)]
    BY <1>3 DEF Chain
  <2>2. new[tail(list)] = rank[tail(list)] + 1
    BY <1>0, <1>7, <1>8, <1>9
  <2>3. \A x \in S : 0 < new[x] /\ new[x] < new[tail(list)]
    BY <1>0, <1>1, <1>7, <1>9, <2>1, <2>2
  <2>4. 0 < new[e] /\ new[e] < new[tail(list)]
    BY <1>0, <1>7, <1>8, <1>9, <2>2
  <2> QED BY <2>3, <2>4
<1>12. \A x, y \in S \union {e} : new[x] = new[y] => x = y
  <2>1. \A x, y \in S : rank[x] = rank[y] => x = y
    BY <1>3 DEF Chain
  <2>2. ASSUME NEW x \in S, NEW y \in S, new[x] = new[y] PROVE x = y
    <3>1. rank[x] = rank[y]
      BY <1>1, <1>7, <1>9, <2>2
    <3> QED BY <2>1, <3>1
  <2>3. ASSUME NEW x \in S PROVE new[x] # new[e]
    BY <1>1, <1>7, <1>9
  <2> QED BY <2>2, <2>3
<1>13. ASSUME NEW a \in S \union {e} \union {head(list)}
       PROVE  /\ r[a].next \in S \union {e} \union {tail(list)}
              /\ r[r[a].next].prev = a
              /\ new[a] < new[r[a].next]
              /\ \A x \in S \union {e} : new[x] <= new[a] \/ new[x] >= new[r[a].next]
  <2>1. \A x \in S : rank[x] <= rank[p] \/ rank[x] >= k
    BY <1>3, <1>4 DEF Chain, k
  <2>2. new[p] = rank[p] /\ new[b] = k + 1 /\ new[e] = k
    BY <1>1, <1>5, <1>6, <1>7, <1>9 DEF k
  <2>3. \A x \in S : /\ x # e /\ x \in Node
                     /\ rank[x] < k => new[x] = rank[x]
                     /\ rank[x] >= k => new[x] = rank[x] + 1
    BY <1>1, <1>7, <1>9
  <2>4. rank[p] < k /\ rank[p] \in Nat
    BY <1>5, <1>6, <1>9 DEF k
  <2>5. CASE a = p
    <3>1. r[a].next = e /\ r[e].prev = p
      BY <1>1, <1>2, <1>5, <2>5
    <3>2. \A x \in S : new[x] <= new[p] \/ new[x] >= new[e]
      BY <1>7, <1>9, <2>1, <2>2, <2>3, <2>4
    <3>3. new[p] < new[e]
      BY <2>2, <2>4
    <3>4. new[e] >= new[e]
      BY <1>7
    <3> QED BY <2>5, <3>1, <3>2, <3>3, <3>4
  <2>6. CASE a = e
    <3>1. r[a].next = b /\ r[b].prev = e
      BY <1>1, <1>2, <1>5, <2>6
    <3>2. \A x \in S : new[x] <= new[e] \/ new[x] >= new[b]
      BY <1>7, <1>9, <2>1, <2>2, <2>3, <2>4
    <3>3. new[e] < new[b] /\ new[e] <= new[e]
      BY <1>7, <2>2
    <3> QED BY <2>6, <3>1, <3>2, <3>3
  <2>7. CASE a # p /\ a # e
    <3>1. a \in S \union {head(list)} /\ a \in Node
      BY <1>0, <1>1, <2>7
    <3>2. r[a].next = m[a].next
      BY <1>2, <2>7, <3>1
    <3>3. m[a].next \in S \union {tail(list)} /\ m[m[a].next].prev = a
          /\ rank[a] < rank[m[a].next]
          /\ \A x \in S : rank[x] <= rank[a] \/ rank[x] >= rank[m[a].next]
      BY <1>3, <3>1 DEF Chain
    <3>4. PICK c \in S \union {tail(list)} : c = m[a].next
      BY <3>3
    <3>5. c # b /\ c # e /\ c \in Node
      BY <1>0, <1>1, <2>7, <3>3, <3>4 DEF p
    <3>6. r[c].prev = a
      BY <1>2, <3>3, <3>4, <3>5
    <3>7. new[a] = (IF rank[a] >= k THEN rank[a] + 1 ELSE rank[a])
          /\ new[c] = (IF rank[c] >= k THEN rank[c] + 1 ELSE rank[c])
          /\ rank[a] \in Nat /\ rank[c] \in Nat /\ rank[a] < rank[c]
      BY <1>7, <1>9, <2>7, <3>1, <3>3, <3>4, <3>5
    <3>8. \A x \in S : new[x] <= new[a] \/ new[x] >= new[c]
      BY <1>7, <1>9, <2>3, <3>3, <3>4, <3>7
    <3>9. new[e] <= new[a] \/ new[e] >= new[c]
      <4>1. CASE b \in S
        <5>1. rank[b] <= rank[a] \/ rank[b] >= rank[c]
          BY <3>3, <3>4, <4>1
        <5>2. rank[b] # rank[c]
          <6>1. CASE c \in S
            BY <1>3, <3>5, <4>1, <6>1 DEF Chain
          <6>2. CASE c = tail(list)
            BY <1>3, <1>9, <4>1, <6>2, <1>0, <1>1 DEF Chain
          <6> QED BY <6>1, <6>2
        <5> QED BY <1>7, <3>7, <5>1, <5>2 DEF k
      <4>2. CASE b = tail(list)
        <5>1. c \in S
          BY <3>5, <4>2
        <5>2. rank[c] < k
          BY <1>3, <4>2, <5>1 DEF Chain, k
        <5> QED BY <1>7, <3>7, <5>2
      <4> QED BY <4>1, <4>2
    <3>10. new[a] < new[c]
      BY <1>7, <3>7
    <3> QED BY <3>2, <3>4, <3>6, <3>8, <3>9, <3>10
  <2> QED BY <2>5, <2>6, <2>7
<1>14. ASSUME NEW c \in S \union {e} \union {tail(list)}
       PROVE  r[c].prev \in S \union {e} \union {head(list)} /\ r[r[c].prev].next = c
  <2>1. CASE c = b
    BY <1>1, <1>2, <1>5, <2>1
  <2>2. CASE c = e
    BY <1>1, <1>2, <1>4, <1>5, <2>2
  <2>3. CASE c # b /\ c # e
    <3>1. c \in S \union {tail(list)} /\ c \in Node
      BY <1>0, <1>1, <2>3
    <3>2. r[c].prev = m[c].prev /\ m[c].prev \in S \union {head(list)} /\ m[m[c].prev].next = c
      BY <1>2, <1>3, <2>3, <3>1 DEF Chain
    <3>3. m[c].prev # p /\ m[c].prev # e /\ m[c].prev \in Node
      BY <1>0, <1>1, <1>4, <2>3, <3>2
    <3> QED BY <1>2, <3>2, <3>3
  <2> QED BY <2>1, <2>2, <2>3
<1>15. Chain(r, list, S \union {e}, new)
  BY <1>7, <1>10, <1>11, <1>12, <1>13, <1>14 DEF Chain
<1>16. OnlyOn(m, r, list, S \union {e})
  BY <1>2, <1>4 DEF OnlyOn
<1> QED BY <1>15, <1>16 DEF r, Whole

\* A walk over a list that is whole goes up in rank, ...
LEMMA WalkRises ==
  ASSUME NEW E, NEW lists, IsSide(E, lists), NEW list \in lists, NEW m, LinkOK(m),
         NEW S \in SUBSET Linked(m, E), NEW rank, Chain(m, list, S, rank)
  PROVE  LET p == path(m, list)
         IN /\ Len(p) \in Nat \ {0}
            /\ \A i \in 1..Len(p) : p[i] \in S \union {tail(list)}
            /\ \A i \in 1..(Len(p) - 1) : p[i] \in S /\ p[i + 1] = m[p[i]].next
            /\ \A j \in 1..Len(p) : \A i \in 1..(j - 1) : rank[p[i]] < rank[p[j]]
<1> DEFINE p == path(m, list)
           V == Linked(m, E) \union Ends(lists)
<1>1. p \in Walks(m, list, E, lists)
  BY PathWalks
<1> HIDE DEF p
<1>2. /\ p \in Seq(V) /\ p # <<>> /\ p[1] = m[head(list)].next
      /\ \A i \in 1..(Len(p) - 1) : p[i] \in Linked(m, E) /\ p[i + 1] = m[p[i]].next
  BY <1>1 DEF Walks, begin
<1> HIDE DEF V
<1>3. Len(p) \in Nat \ {0}
  BY <1>2, FrontFacts
<1>4. tail(list) \notin Linked(m, E) /\ tail(list) \in Node /\ S \subseteq Node
  BY ListEnds DEF Linked
<1>5. \A n \in Node : rank[n] \in Nat
  BY DEF Chain
<1> DEFINE P(j) == /\ p[j] \in S \union {tail(list)}
                   /\ \A i \in 1..(j - 1) : p[i] \in S /\ rank[p[i]] < rank[p[j]]
           T == {n \in Nat : n + 1 <= Len(p) => P(n + 1)}
<1>6. 0 \in T
  BY <1>2 DEF Chain
<1>7. ASSUME NEW n \in Nat, n \in T
      PROVE  n + 1 \in T
  <2> SUFFICES ASSUME n + 2 <= Len(p) PROVE P(n + 2)
    OBVIOUS
  <2>1. n + 1 \in 1..(Len(p) - 1) /\ (n + 1) + 1 = n + 2 /\ n + 1 <= Len(p)
    BY <1>3
  <2>2. P(n + 1)
    BY <1>7, <2>1
  <2>3. p[n + 1] \in Linked(m, E) /\ p[n + 2] = m[p[n + 1]].next
    BY <1>2, <2>1
  <2>4. p[n + 1] \in S
    BY <1>4, <2>2, <2>3
  <2>5. p[n + 2] \in S \union {tail(list)} /\ rank[p[n + 1]] < rank[p[n + 2]]
    BY <2>3, <2>4 DEF Chain
  <2>6. ASSUME NEW i \in 1..((n + 2) - 1)
        PROVE  p[i] \in S /\ rank[p[i]] < rank[p[n + 2]]
    <3>1. CASE i = n + 1
      BY <2>4, <2>5, <3>1
    <3>2. CASE i # n + 1
      <4>1. i \in 1..((n + 1) - 1)
        BY <3>2
      <4>2. p[i] \in S /\ rank[p[i]] < rank[p[n + 1]]
        BY <2>2, <4>1
      <4>3. rank[p[i]] \in Nat /\ rank[p[n + 1]] \in Nat /\ rank[p[n + 2]] \in Nat
        BY <1>4, <1>5, <2>4, <2>5, <4>2
      <4> QED BY <2>5, <4>2, <4>3
    <3> QED BY <3>1, <3>2
  <2> QED BY <2>5, <2>6
<1> HIDE DEF T
<1>8. Nat \subseteq T
  BY <1>6, <1>7, NatSetInduction
<1>9. ASSUME NEW j \in 1..Len(p)
      PROVE  P(j)
  <2>1. j - 1 \in Nat /\ (j - 1) + 1 = j /\ j <= Len(p)
    BY <1>3
  <2>2. j - 1 \in T
    BY <1>8, <2>1
  <2> HIDE DEF P
  <2> QED BY <2>1, <2>2 DEF T
<1>10. ASSUME NEW i \in 1..(Len(p) - 1)
       PROVE  p[i] \in S /\ p[i + 1] = m[p[i]].next
  <2>1. i \in 1..Len(p)
    BY <1>3
  <2>2. p[i] \in S \union {tail(list)} /\ p[i] \in Linked(m, E)
    BY <1>2, <1>9, <2>1
  <2> QED BY <1>2, <1>4, <2>2
<1> QED BY <1>3, <1>9, <1>10 DEF p

\* ... so it ends at the tail, and has met everything on the list.
LEMMA ChainWalk ==
  ASSUME NEW E, NEW lists, IsSide(E, lists), NEW list \in lists, NEW m, LinkOK(m),
         NEW S \in SUBSET Linked(m, E), Whole(m, list, S)
  PROVE  LET p == path(m, list)
         IN /\ LoopEnd(m, list) = "ok"
            /\ OnList(m, list) = S
            /\ Met(m, list) = S \union {tail(list)}
            /\ Len(p) \in Nat \ {0} /\ m[p[1]].prev = head(list)
            /\ \A i \in 1..(Len(p) - 1) : p[i] \in S /\ m[p[i + 1]].prev = p[i]
<1> DEFINE p == path(m, list)
           V == Linked(m, E) \union Ends(lists)
           N == Cardinality(Thread \union Lock)
<1>1. PICK rank : Chain(m, list, S, rank)
  BY DEF Whole
<1>2. /\ Len(p) \in Nat \ {0}
      /\ \A i \in 1..Len(p) : p[i] \in S \union {tail(list)}
      /\ \A i \in 1..(Len(p) - 1) : p[i] \in S /\ p[i + 1] = m[p[i]].next
      /\ \A j \in 1..Len(p) : \A i \in 1..(j - 1) : rank[p[i]] < rank[p[j]]
  BY <1>1, WalkRises
<1>3. p \in Walks(m, list, E, lists) /\ (Over(p) \/ Len(p) = N + 1)
  BY PathWalks
<1> HIDE DEF p
<1>4. p \in Seq(V) /\ p # <<>> /\ p[1] = m[head(list)].next
  BY <1>3 DEF Walks, begin
<1> HIDE DEF V
<1>5. Last(p) = p[Len(p)] /\ Range(Front(p)) = {p[i] : i \in 1..(Len(p) - 1)}
  <2>1. p \in Seq(V) /\ p # <<>>
    BY <1>4
  <2> QED BY <2>1, FrontFacts
<1>6. /\ tail(list) \in Tails /\ tail(list) \notin S /\ S \subseteq E /\ S \subseteq Node
      /\ \A x \in S : x \notin Tails
      /\ S \subseteq Thread \union Lock /\ tail(list) \in Node /\ head(list) \notin S
  BY ListEnds, SideParts DEF Linked
<1>7. \A n \in Node : rank[n] \in Nat
  BY <1>1 DEF Chain
<1>8. \A i, j \in 1..Len(p) : i # j => p[i] # p[j]
  <2>1. ASSUME NEW j \in 1..Len(p), NEW i \in 1..Len(p), i < j
        PROVE  p[i] # p[j]
    <3>1. i \in 1..(j - 1)
      BY <1>2, <2>1
    <3>2. rank[p[i]] < rank[p[j]] /\ rank[p[j]] \in Nat
      BY <1>2, <1>6, <1>7, <3>1
    <3> QED BY <3>2
  <2>2. \A i, j \in 1..Len(p) : i # j => i < j \/ j < i
    BY <1>2
  <2> QED BY <2>1, <2>2
<1>9. p[Len(p)] = tail(list)
  <2> SUFFICES ASSUME p[Len(p)] # tail(list) PROVE FALSE
    OBVIOUS
  <2>1. Len(p) \in 1..Len(p) /\ \A i \in 1..(Len(p) - 1) : i \in 1..Len(p) /\ i # Len(p)
    BY <1>2
  <2>2. ~Over(p)
    BY <1>2, <1>5, <1>6, <1>8, <2>1 DEF Over
  <2>3. N \in Nat /\ IsFiniteSet(Thread \union Lock)
    BY NodeAssumption, FS_CardinalityType
  <2>4. Len(p) = N + 1
    BY <1>3, <2>2
  <2>5. \A i \in 1..Len(p) : p[i] \in Thread \union Lock
    <3>1. \A i \in 1..Len(p) : i = Len(p) \/ i \in 1..(Len(p) - 1)
      BY <1>2
    <3> QED BY <1>2, <1>6, <2>1, <3>1
  <2> DEFINE f == [i \in 1..(N + 1) |-> p[i]]
  <2>6. f \in [1..(N + 1) -> Thread \union Lock]
    BY <2>4, <2>5
  <2> HIDE DEF N, f
  <2>7. IsFiniteSet(1..(N + 1)) /\ Cardinality(1..(N + 1)) = N + 1
    <3>1. 1 \in Int /\ N + 1 \in Int /\ ~(1 > N + 1) /\ (N + 1) - 1 + 1 = N + 1
      BY <2>3
    <3> QED BY <3>1, FS_Interval
  <2>8. N < N + 1
    BY <2>3
  <2>9. \E i, j \in 1..(N + 1) : i # j /\ f[i] = f[j]
    BY <2>3, <2>6, <2>7, <2>8, FS_PigeonHole DEF N
  <2> QED BY <1>8, <2>4, <2>9 DEF f
<1>10. LoopEnd(m, list) = "ok"
  BY <1>5, <1>9, LoopEnds DEF p
<1> DEFINE M == {p[i] : i \in 1..(Len(p) - 1)}
<1>11. \A i \in 1..Len(p) : p[i] # tail(list) => p[i] \in M
  <2>1. \A i \in 1..Len(p) : i = Len(p) \/ i \in 1..(Len(p) - 1)
    BY <1>2
  <2> QED BY <1>9, <2>1
<1>12. S \subseteq M
  <2> SUFFICES ASSUME S \ M # {} PROVE FALSE
    OBVIOUS
  <2> DEFINE R == {rank[x] : x \in S \ M}
  <2>1. R \in SUBSET Nat /\ R # {}
    BY <1>6, <1>7
  <2>2. PICK k \in R : \A h \in R : k <= h
    BY <2>1, LeastNat
  <2>3. PICK x \in S \ M : rank[x] = k
    OBVIOUS
  <2>4. m[x].prev \in S \union {head(list)} /\ m[m[x].prev].next = x
        /\ rank[m[x].prev] < rank[x]
    BY <1>1, <2>3 DEF Chain
  <2>5. x # tail(list)
    BY <1>6, <2>3
  <2>6. CASE m[x].prev = head(list)
    <3>1. p[1] = x /\ 1 \in 1..Len(p)
      BY <1>2, <1>4, <2>4, <2>6
    <3> HIDE DEF M
    <3> QED BY <1>11, <2>3, <2>5, <3>1
  <2>7. CASE m[x].prev \in S
    <3>1. PICK y \in S : y = m[x].prev
      BY <2>7
    <3>2. rank[y] \in Nat /\ rank[x] \in Nat /\ rank[y] < rank[x]
      BY <1>6, <1>7, <2>3, <2>4, <3>1
    <3>3. y \in M
      <4>1. y \notin M => rank[y] \in R
        OBVIOUS
      <4>2. ~(k <= rank[y])
        BY <2>3, <3>2
      <4> HIDE DEF M, R
      <4> QED BY <2>2, <4>1, <4>2
    <3>4. PICK i \in 1..(Len(p) - 1) : y = p[i]
      BY <3>3
    <3>5. i + 1 \in 1..Len(p) /\ p[i + 1] = x
      BY <1>2, <2>4, <3>1, <3>4
    <3> HIDE DEF M
    <3> QED BY <1>11, <2>3, <2>5, <3>5
  <2> QED BY <2>4, <2>6, <2>7
<1>13. M = S
  BY <1>2, <1>12
<1>14. OnList(m, list) = S
  BY <1>5, <1>13 DEF OnList, p
<1>15. Range(p) = S \union {tail(list)}
  <2>1. DOMAIN p = 1..Len(p)
    BY <1>4, LenProperties
  <2>2. Range(p) = {p[i] : i \in 1..Len(p)}
    BY <2>1 DEF Range
  <2>3. Len(p) \in 1..Len(p) /\ \A i \in 1..(Len(p) - 1) : i \in 1..Len(p)
    BY <1>2
  <2>4. tail(list) \in Range(p) /\ M \subseteq Range(p)
    BY <1>9, <2>2, <2>3
  <2>5. Range(p) \subseteq S \union {tail(list)}
    BY <1>2, <2>2
  <2> HIDE DEF M
  <2> QED BY <1>13, <2>4, <2>5
<1>16. m[p[1]].prev = head(list)
  BY <1>1, <1>4 DEF Chain
<1>17. \A i \in 1..(Len(p) - 1) : p[i] \in S /\ m[p[i + 1]].prev = p[i]
  BY <1>1, <1>2 DEF Chain
<1> QED BY <1>2, <1>10, <1>14, <1>15, <1>16, <1>17 DEF p, Met

\* A change to one list leaves the others alone.
LEMMA OtherChain ==
  ASSUME NEW E, NEW lists, IsSide(E, lists), NEW a \in lists, NEW b \in lists, a # b,
         NEW m, NEW r, NEW S \in SUBSET E, NEW T \in SUBSET E, S \intersect T = {},
         Whole(m, b, T), OnlyOn(m, r, a, S)
  PROVE  Whole(r, b, T)
<1>1. PICK rank : Chain(m, b, T, rank)
  BY DEF Whole
<1>2. head(a) # head(b) /\ tail(a) # tail(b)
  BY HeadNotTail
<1>3. /\ head(b) \in Node /\ tail(b) \in Node
      /\ \A e \in E : /\ e \in Node /\ e # head(a) /\ e # tail(a)
                      /\ e # head(b) /\ e # tail(b)
  BY ListEnds
<1>4. Chain(r, b, T, rank)
  BY <1>1, <1>2, <1>3, SameChain DEF OnlyOn
<1> QED BY <1>4 DEF Whole

-----------------------------------------------------------------------------
(* The scheduler leaves the lists of locks held as they are.               *)

SameHeld(m, r) ==
    \A n \in Side(Lock, HeldList) : r[n].next = m[n].next /\ r[n].prev = m[n].prev

\* The elements of a list of locks are not on a thread list.
LEMMA HeldSide ==
  Side(Lock, HeldList) \subseteq Node \ Side(Thread, ThreadList)
<1>1. Side(Lock, HeldList) \subseteq Node
  BY SideParts, ThreadLists
<1>2. Side(Lock, HeldList) \intersect Side(Thread, ThreadList) = {}
  BY Kinds, NodesApart DEF Side
<1> QED BY <1>1, <1>2

\* list_insert_ordered of a thread.
LEMMA InsertHeld ==
  ASSUME NEW m, LinkOK(m), NEW list \in ThreadList, NEW e \in Thread,
         NEW pri \in [Thread -> Int], NEW r \in list_insert_ordered(m, list, e, pri)
  PROVE  SameHeld(m, r.link)
<1>1. CASE r.outcome \in {"panic", "hang"} /\ r.link = m
  BY <1>1 DEF SameHeld
<1>2. CASE ~(r.outcome \in {"panic", "hang"} /\ r.link = m)
  <2>1. PICK before \in Linked(m, Thread) \union Ends(ThreadList) :
            before # e /\ r.link = list_insert(m, before, e)
    BY <1>2, OrderedInsert
  <2>2. \A n \in Node \ Side(Thread, ThreadList) :
            /\ list_insert(m, before, e)[n].next = m[n].next
            /\ list_insert(m, before, e)[n].prev = m[n].prev
    BY <2>1, InsertSound, ThreadLists
  <2> QED BY <2>1, <2>2, HeldSide DEF SameHeld
<1> QED BY <1>1, <1>2

\* Taking a thread off the front of a list.
LEMMA PopHeld ==
  ASSUME NEW m, LinkOK(m), NEW list \in ThreadList, begin(m, list) \in Thread
  PROVE  SameHeld(m, list_remove(m, begin(m, list)))
<1>1. begin(m, list) \in Linked(m, Thread)
  BY FrontIsLinked
<1>2. \A n \in Node \ Side(Thread, ThreadList) :
          /\ list_remove(m, begin(m, list))[n].next = m[n].next
          /\ list_remove(m, begin(m, list))[n].prev = m[n].prev
  BY <1>1, RemoveSound, ThreadLists
<1> QED BY <1>2, HeldSide DEF SameHeld

\* schedule()
LEMMA ScheduleHeld ==
  ASSUME NEW m, NEW st, LinkOK(m), schedule(m, st), outcome' = "ok"
  PROVE  SameHeld(m, link')
<1>1. CASE begin(m, ready_list) = tail(ready_list)
  BY <1>1, QueueTail DEF schedule, SameHeld
<1>2. CASE begin(m, ready_list) \in Thread
  <2>1. link' = list_remove(m, begin(m, ready_list))
    BY <1>2, QueueTail DEF schedule
  <2> QED BY <1>2, <2>1, PopHeld, ThreadLists
<1>3. CASE begin(m, ready_list) \notin Thread \union {tail(ready_list)}
  BY <1>3 DEF schedule, Stop
<1> QED BY <1>1, <1>2, <1>3

\* A thread that gives up the CPU.
LEMMA GiveUpHeld ==
  ASSUME NEW m, LinkOK(m), NEW me \in Thread, NEW list \in ThreadList,
         NEW pri \in [Thread -> Int], NEW r \in list_insert_ordered(m, list, me, pri), NEW st,
         IF r.outcome = "ok" THEN schedule(r.link, st) ELSE Stop(r.outcome), outcome' = "ok"
  PROVE  SameHeld(m, link')
<1>1. schedule(r.link, st)
  BY DEF Stop
<1>2. SameHeld(m, r.link) /\ LinkOK(r.link)
  BY InsertHeld, InsertTypes
<1>3. SameHeld(r.link, link')
  BY <1>1, <1>2, ScheduleHeld
<1> QED BY <1>2, <1>3 DEF SameHeld

\* thread_yield.
LEMMA YieldHeld ==
  ASSUME NEW m, NEW st, NEW pri \in [Thread -> Int], LinkOK(m),
         cur \in Thread \union {Idle}, thread_yield(m, st, pri), outcome' = "ok"
  PROVE  SameHeld(m, link')
<1>1. CASE cur = Idle
  BY <1>1, ScheduleHeld DEF thread_yield
<1>2. CASE cur # Idle
  <2>0. PICK me \in Thread : me = cur
    BY <1>2
  <2>1. PICK r \in list_insert_ordered(m, ready_list, me, pri) :
            IF r.outcome = "ok"
            THEN schedule(r.link, [st EXCEPT ![me] = "READY"])
            ELSE Stop(r.outcome)
    BY <1>2, <2>0 DEF thread_yield
  <2> QED BY <2>1, GiveUpHeld, ThreadLists
<1> QED BY <1>1, <1>2

\* check_preemption.
LEMMA CheckHeld ==
  ASSUME NEW m, NEW st, NEW pri \in [Thread -> Int], LinkOK(m),
         cur \in Thread \union {Idle}, check_preemption(m, st, pri), outcome' = "ok"
  PROVE  SameHeld(m, link')
<1>1. thread_yield(m, st, pri) \/ link' = m
  BY DEF check_preemption
<1> QED BY <1>1, YieldHeld DEF SameHeld

\* block_on.
LEMMA BlockHeld ==
  ASSUME NEW s \in Sema, block_on(s), cur \in Thread, LinkOK(link),
         priority \in [Thread -> Priority], outcome' = "ok"
  PROVE  SameHeld(link, link')
<1>0. PICK me \in Thread : me = cur
  OBVIOUS
<1>1. PICK m : m = link
  OBVIOUS
<1>2. PICK pri \in [Thread -> Int] : pri = priority
  BY PriorityIsInt
<1>3. PICK st : st = [status EXCEPT ![me] = "BLOCKED"]
  OBVIOUS
<1>4. PICK r \in list_insert_ordered(m, sema_waiters(s), me, pri) :
          IF r.outcome = "ok" THEN schedule(r.link, st) ELSE Stop(r.outcome)
  BY <1>0, <1>1, <1>2, <1>3 DEF block_on
<1>5. SameHeld(m, link')
  BY <1>1, <1>4, GiveUpHeld, ThreadLists
<1> QED BY <1>1, <1>5

\* sema_up.
LEMMA SemaUpHeld ==
  ASSUME NEW m, LinkOK(m), NEW s \in Sema, priority \in [Thread -> Priority],
         NEW r \in sema_up(m, s)
  PROVE  SameHeld(m, r.link)
<1> DEFINE front == begin(m, sema_waiters(s))
<1>1. CASE r.link = m
  BY <1>1 DEF SameHeld
<1>2. CASE /\ front \in Thread
           /\ \E q \in list_insert_ordered(list_remove(m, front), ready_list, front, priority) :
                  r.link = q.link
  <2>1. PICK t \in Thread : t = front
    BY <1>2
  <2>2. PICK q \in list_insert_ordered(list_remove(m, t), ready_list, t, priority) :
            r.link = q.link
    BY <1>2, <2>1
  <2>3. t \in Linked(m, Thread)
    BY <2>1, FrontIsLinked, ThreadLists
  <2>4. LinkOK(list_remove(m, t)) /\ SameHeld(m, list_remove(m, t))
    BY <2>1, <2>3, RemoveSound, PopHeld, ThreadLists
  <2>5. SameHeld(list_remove(m, t), q.link)
    BY <2>4, InsertHeld, ThreadLists, PriorityIsInt
  <2> QED BY <2>2, <2>4, <2>5 DEF SameHeld
<1> QED BY <1>1, <1>2 DEF sema_up

-----------------------------------------------------------------------------
(* The list of locks held, where lock_try_acquire is not used.             *)

Held(t) == {l \in Lock : holder[l] = t}
HeldInv == outcome = "ok" => \A t \in Thread : Whole(link, locks_held(t), Held(t))

\* What is on a whole list has been put there.
LEMMA ChainLinked ==
  ASSUME NEW E, NEW lists, IsSide(E, lists), NEW list \in lists, NEW m,
         NEW S \in SUBSET E, Whole(m, list, S)
  PROVE  S \subseteq Linked(m, E)
<1>1. \A x \in S : m[x].next \in S \union {tail(list)}
  BY DEF Whole, Chain
<1>2. NULL \notin S \union {tail(list)}
  BY SideParts DEF Side, Ends
<1> QED BY <1>1, <1>2 DEF Linked

\* A list of locks that are held is as whole as it was if nothing happened to it.
LEMMA SameHeldWhole ==
  ASSUME NEW m, NEW r, SameHeld(m, r), NEW t \in Thread, NEW S \in SUBSET Lock,
         Whole(m, locks_held(t), S)
  PROVE  Whole(r, locks_held(t), S)
<1>1. PICK rank : Chain(m, locks_held(t), S, rank)
  BY DEF Whole
<1>2. head(locks_held(t)) \in Side(Lock, HeldList) /\ tail(locks_held(t)) \in Side(Lock, HeldList)
      /\ S \subseteq Side(Lock, HeldList)
  BY ThreadLists DEF Side, Heads, Ends
<1>3. Chain(r, locks_held(t), S, rank)
  BY <1>1, <1>2, SameChain DEF SameHeld
<1> QED BY <1>3 DEF Whole

\* A change to one thread's list leaves the others alone.
LEMMA OtherHeld ==
  ASSUME NEW m, NEW r, NEW t \in Thread, NEW u \in Thread, t # u,
         NEW S \in SUBSET Lock, NEW T \in SUBSET Lock, S \intersect T = {},
         Whole(m, locks_held(u), T), OnlyOn(m, r, locks_held(t), S)
  PROVE  Whole(r, locks_held(u), T)
<1>1. locks_held(t) # locks_held(u) /\ locks_held(t) \in HeldList /\ locks_held(u) \in HeldList
  BY ListNames, ThreadLists
<1>2. PICK a \in HeldList : a = locks_held(t)
  BY <1>1
<1>3. PICK b \in HeldList : b = locks_held(u)
  BY <1>1
<1>4. IsSide(Lock, HeldList) /\ a # b /\ Whole(m, b, T) /\ OnlyOn(m, r, a, S)
  BY <1>1, <1>2, <1>3, ThreadLists
<1>5. Whole(r, b, T)
  BY <1>4, OtherChain
<1> QED BY <1>3, <1>5

\* The lock taken goes to the end of the list.
LEMMA TakeHeld ==
  ASSUME OwnerInv, DataOK, HeldInv, outcome = "ok", NEW l \in Lock, cur \in Thread,
         holder[l] = NULL, take(l)
  PROVE  HeldInv'
<1>0. PICK me \in Thread : me = cur
  OBVIOUS
<1>1. /\ link' = list_insert(link, tail(locks_held(me)), l)
      /\ holder' = [holder EXCEPT ![l] = me]
  BY <1>0 DEF take, list_push_back
<1>2. \A t \in Thread : Whole(link, locks_held(t), Held(t)) /\ Held(t) \in SUBSET Lock
  BY DEF HeldInv, Held
<1>3. Held(me)' = Held(me) \union {l} /\ \A t \in Thread : t # me => Held(t)' = Held(t)
  BY <1>1, Distinct DEF Held, OwnerInv
<1>4. locks_held(me) \in HeldList /\ IsSide(Lock, HeldList) /\ LinkOK(link)
  BY ThreadLists DEF DataOK
<1>5. Held(me) \in SUBSET Linked(link, Lock) /\ l \in Lock \ Held(me)
  BY <1>2, <1>4, ChainLinked, Distinct DEF Held
<1>6. tail(locks_held(me)) \in Held(me) \union {tail(locks_held(me))}
  OBVIOUS
<1>7. PICK r : r = list_insert(link, tail(locks_held(me)), l)
  OBVIOUS
<1>8. /\ Whole(r, locks_held(me), Held(me) \union {l})
      /\ OnlyOn(link, r, locks_held(me), Held(me) \union {l})
  BY <1>2, <1>4, <1>5, <1>6, <1>7, ChainInsert
<1>9. ASSUME NEW t \in Thread, t # me
      PROVE  Whole(r, locks_held(t), Held(t))
  <2>1. PICK S \in SUBSET Lock : S = Held(me) \union {l}
    BY <1>2
  <2>2. S \intersect Held(t) = {} /\ OnlyOn(link, r, locks_held(me), S)
    BY <1>8, <1>9, <2>1, Distinct DEF Held
  <2> QED BY <1>2, <1>9, <2>2, OtherHeld
<1>10. \A t \in Thread : Whole(link', locks_held(t), Held(t)')
  BY <1>1, <1>3, <1>7, <1>8, <1>9
<1> QED BY <1>10 DEF HeldInv, Held

\* The lock released leaves it.
LEMMA UnheldHeld ==
  ASSUME OwnerInv, DataOK, HeldInv, outcome = "ok", NEW l \in Lock, NEW me \in Thread,
         holder[l] = me
  PROVE  /\ is_interior(link, l)
         /\ \A t \in Thread : Whole(list_remove(link, l), locks_held(t), Held(t) \ {l})
<1>2. \A t \in Thread : Whole(link, locks_held(t), Held(t)) /\ Held(t) \in SUBSET Lock
  BY DEF HeldInv, Held
<1>4. locks_held(me) \in HeldList /\ IsSide(Lock, HeldList) /\ LinkOK(link)
  BY ThreadLists DEF DataOK
<1>5. Held(me) \in SUBSET Linked(link, Lock) /\ l \in Held(me)
  BY <1>2, <1>4, ChainLinked DEF Held
<1>6. is_interior(link, l)
  <2>1. link[l].prev \in Linked(link, Lock) \union Heads(HeldList)
    BY <1>4, <1>5, RemoveSound
  <2>2. link[l].prev # NULL
    BY <1>4, <2>1, SideParts DEF Side, Linked
  <2> QED BY <1>5, <2>2 DEF is_interior, Linked
<1>7. PICK r : r = list_remove(link, l)
  OBVIOUS
<1>8. /\ Whole(r, locks_held(me), Held(me) \ {l})
      /\ OnlyOn(link, r, locks_held(me), Held(me))
  <2>1. PICK list \in HeldList : list = locks_held(me)
    BY <1>4
  <2>2. PICK S \in SUBSET Linked(link, Lock) : S = Held(me)
    BY <1>5
  <2>3. Whole(link, list, S) /\ l \in S
    BY <1>2, <1>5, <2>1, <2>2
  <2>4. /\ Whole(r, list, S \ {l})
        /\ OnlyOn(link, r, list, S)
    BY <1>4, <1>7, <2>3, ChainRemove
  <2> QED BY <2>1, <2>2, <2>4
<1>9. ASSUME NEW t \in Thread, t # me
      PROVE  Whole(r, locks_held(t), Held(t) \ {l})
  <2>1. Held(me) \intersect Held(t) = {} /\ Held(t) \ {l} = Held(t)
    BY <1>9 DEF Held
  <2>2. PICK S \in SUBSET Lock : S = Held(me)
    BY <1>2
  <2>3. PICK T \in SUBSET Lock : T = Held(t)
    BY <1>2
  <2>4. Whole(link, locks_held(t), T) /\ S \intersect T = {}
    BY <1>2, <2>1, <2>2, <2>3
  <2>5. OnlyOn(link, r, locks_held(me), S)
    BY <1>8, <2>2
  <2>6. Whole(r, locks_held(t), T)
    BY <1>9, <2>4, <2>5, OtherHeld
  <2> QED BY <2>1, <2>3, <2>6
<1> QED BY <1>6, <1>7, <1>8, <1>9

\* A step that only moves threads.
LEMMA HeldStays ==
  ASSUME HeldInv, outcome = "ok", SameHeld(link, link'), holder' = holder
  PROVE  HeldInv'
<1>1. \A t \in Thread : Whole(link, locks_held(t), Held(t)) /\ Held(t) \in SUBSET Lock
  BY DEF HeldInv, Held
<1>2. PICK r : r = link'
  OBVIOUS
<1>3. \A t \in Thread : Whole(r, locks_held(t), Held(t))
  BY <1>1, <1>2, SameHeldWhole
<1>4. \A t \in Thread : Held(t)' = Held(t)
  BY DEF Held
<1> QED BY <1>2, <1>3, <1>4 DEF HeldInv

\* No lock_try_acquire is under way.
NoTry == \A t \in Thread : pc[t] # "try"

\* lock_acquire past the semaphore.
LEMMA LoopHeld ==
  ASSUME LockInv, HeldInv, outcome = "ok", NEW l \in Lock, cur \in Thread, sema_down_loop(l)
  PROVE  HeldInv'
<1>0. OwnerInv /\ DataOK
  BY DEF LockInv
<1>1. CASE value[l] = 0
  <2>1. block_on(l) /\ l \in Sema /\ holder' = holder
    BY <1>1, Distinct DEF sema_down_loop, block_on
  <2>2. CASE outcome' = "ok"
    <3>1. SameHeld(link, link')
      BY <1>0, <2>1, <2>2, BlockHeld DEF DataOK
    <3> QED BY <2>1, <3>1, HeldStays
  <2> QED BY <2>2 DEF HeldInv
<1>2. CASE value[l] # 0
  <2>1. Owners(l) = {} /\ holder[l] \in Thread \union {NULL}
    BY <1>0, <1>2 DEF OwnerInv
  <2>2. holder[l] = NULL /\ take(l)
    BY <1>2, <2>1 DEF Owners, sema_down_loop
  <2> QED BY <1>0, <2>2, TakeHeld
<1> QED BY <1>1, <1>2

\* lock_release.
LEMMA ReleaseHeld ==
  ASSUME LockInv, HeldInv, NEW l \in Lock, LockRelease(l)
  PROVE  HeldInv'
<1>0. OwnerInv /\ DataOK /\ WaitInv /\ cur \in Thread /\ outcome = "ok" /\ pc[cur] = "run"
  BY AtRuns DEF LockRelease, LockInv
<1>1. PICK me \in Thread : me = cur /\ holder[l] = me
  BY <1>0 DEF LockRelease
<1> SUFFICES ASSUME outcome' = "ok" PROVE HeldInv'
  BY DEF HeldInv
<1>2. unheld(l).outcome = "ok"
  BY DEF LockRelease, Stop
<1>3. PICK r \in sema_up(unheld(l).link, l) :
          IF r.outcome = "ok" THEN check_preemption(r.link, r.status, priority)
          ELSE Stop(r.outcome)
  BY <1>2 DEF LockRelease
<1>4. holder' = [holder EXCEPT ![l] = NULL]
  BY <1>2 DEF LockRelease
<1>5. PICK m : m = list_remove(link, l)
  OBVIOUS
<1>6. unheld(l).link = m /\ LinkOK(m)
  <2>1. Memory(link, Running, Clean, Asleep \union (Running \intersect Clean), Contested, Fresh)
        /\ Fresh = {}
    BY <1>0 DEF WaitInv, Fresh, Running
  <2>2. Memory(link, Running, Clean, Asleep \union (Running \intersect Clean), Contested, {})
    BY <2>1
  <2>3. unheld(l).link = list_remove(link, l)
    BY <1>0, <1>2, <2>2, UnheldKeeps, WaitSets DEF DataOK
  <2>4. LinkOK(unheld(l).link)
    BY <1>0, UnheldTypes DEF DataOK
  <2> QED BY <1>5, <2>3, <2>4
<1>7. r \in sema_up(m, l) /\ check_preemption(r.link, r.status, priority)
  BY <1>3, <1>6 DEF Stop
<1>8. SameHeld(m, r.link) /\ LinkOK(r.link)
  BY <1>0, <1>6, <1>7, SemaUpHeld, SemaUpTypes, Distinct DEF DataOK
<1>9. PICK pri \in [Thread -> Int] : pri = priority
  BY <1>0, PriorityIsInt DEF DataOK
<1>10. SameHeld(r.link, link')
  BY <1>0, <1>7, <1>8, <1>9, CheckHeld
<1>11. PICK k : k = link'
  OBVIOUS
<1>12. SameHeld(m, k)
  BY <1>8, <1>10, <1>11 DEF SameHeld
<1>13. \A t \in Thread : Whole(m, locks_held(t), Held(t) \ {l})
  BY <1>0, <1>1, <1>5, UnheldHeld
<1>14. \A t \in Thread : Held(t)' = Held(t) \ {l} /\ Held(t) \ {l} \in SUBSET Lock
  BY <1>0, <1>4, Distinct DEF Held, OwnerInv
<1>15. ASSUME NEW t \in Thread PROVE Whole(k, locks_held(t), Held(t) \ {l})
  <2>1. PICK S \in SUBSET Lock : S = Held(t) \ {l}
    BY <1>14
  <2>2. Whole(m, locks_held(t), S)
    BY <1>13, <2>1
  <2>3. Whole(k, locks_held(t), S)
    BY <1>12, <2>2, SameHeldWhole
  <2> QED BY <2>1, <2>3
<1> QED BY <1>11, <1>14, <1>15 DEF HeldInv

\* Every step, if lock_try_acquire is not used.
LEMMA NextHeld ==
  ASSUME TryLock = {}, LockInv, HeldInv, NoTry, [Next]_vars
  PROVE  HeldInv' /\ NoTry'
<1>0. OwnerInv /\ DataOK /\ WaitInv /\ OwnerInv' /\ DataOK'
  BY NextWaits DEF LockInv
<1>1. LinkOK(link) /\ priority \in [Thread -> Int] /\ cur \in Thread \union {Idle}
      /\ priority' \in [Thread -> Int]
  BY <1>0, PriorityIsInt DEF DataOK, OwnerInv
<1>2. CASE Call
  <2>1. ASSUME NEW l \in Lock, AcquireFree(l)
        PROVE  HeldInv' /\ NoTry'
    <3>1. cur \in Thread /\ outcome = "ok" /\ sema_down_loop(l)
      BY <1>0, <2>1, AtRuns DEF AcquireFree
    <3>2. NoTry'
      BY <1>0, <3>1 DEF sema_down_loop, block_on, take, Goto, NoTry, OwnerInv
    <3> QED BY <3>1, <3>2, LoopHeld
  <2>2. ASSUME NEW l \in Lock, AcquireHeld(l)
        PROVE  HeldInv' /\ NoTry'
    <3>1. cur \in Thread /\ outcome = "ok"
      BY <1>0, <2>2, AtRuns DEF AcquireHeld
    <3>2. PICK r \in list_insert_ordered(link, waiters(l), cur, priority) : link' = r.link
      BY <2>2 DEF AcquireHeld
    <3>3. SameHeld(link, link')
      BY <1>1, <3>1, <3>2, InsertHeld, ThreadLists
    <3>4. holder' = holder /\ NoTry'
      BY <1>0, <2>2, <3>1 DEF AcquireHeld, Goto, NoTry, OwnerInv
    <3> QED BY <3>1, <3>3, <3>4, HeldStays
  <2>3. ASSUME NEW l \in Lock, LockRelease(l)
        PROVE  HeldInv' /\ NoTry'
    <3>1. NoTry'
      BY <1>0, <2>3, ReleaseEffect DEF NoTry, OwnerInv
    <3> QED BY <2>3, <3>1, ReleaseHeld
  <2>4. ASSUME NEW pri \in NewPriority, ThreadSetPriority(pri)
        PROVE  HeldInv' /\ NoTry'
    <3>1. holder' = holder /\ link' = link /\ NoTry' /\ outcome' = outcome
      BY <1>0, <2>4 DEF ThreadSetPriority, Goto, NoTry, OwnerInv
    <3> QED BY <3>1 DEF HeldInv, Held
  <2> QED BY <1>2, <2>1, <2>2, <2>3, <2>4 DEF Call
<1>3. CASE Refresh \/ Check
  <2>1. cur \in Thread /\ holder' = holder /\ pc' = [pc EXCEPT ![cur] = "run"] /\ outcome = "ok"
    BY <1>0, <1>3, CheckLeaves DEF Refresh, Check, At
  <2>2. NoTry'
    BY <1>0, <2>1 DEF NoTry, OwnerInv
  <2>3. ASSUME outcome' = "ok"
        PROVE  SameHeld(link, link')
    <3>1. PICK m : m = link
      OBVIOUS
    <3>2. PICK st : st = status
      OBVIOUS
    <3>3. \E pri \in [Thread -> Int] : check_preemption(m, st, pri)
      <4>1. CASE Refresh
        <5>1. PICK pri \in [Thread -> Int] : pri = priority'
          BY <1>1
        <5>2. check_preemption(m, st, priority')
          BY <2>3, <3>1, <3>2, <4>1 DEF Refresh, Stop
        <5>3. check_preemption(m, st, pri)
          BY <5>1, <5>2, CheckConstant
        <5> QED BY <5>3
      <4>2. CASE Check
        BY <1>1, <3>1, <3>2, <4>2 DEF Check
      <4> QED BY <1>3, <4>1, <4>2
    <3>4. SameHeld(m, link')
      BY <1>1, <2>3, <3>1, <3>3, CheckHeld
    <3> QED BY <3>1, <3>4
  <2>4. CASE outcome' = "ok"
    BY <2>1, <2>2, <2>3, <2>4, HeldStays
  <2> QED BY <2>2, <2>4 DEF HeldInv
<1>4. CASE TryOwn
  BY <1>4, <1>0, AtRuns DEF TryOwn, NoTry
<1>5. CASE SemaDown
  <2>1. cur \in Thread /\ outcome = "ok" /\ lock[cur] \in Lock /\ sema_down_loop(lock[cur])
    BY <1>0, <1>5, AtRuns DEF SemaDown, OwnerInv
  <2>2. NoTry'
    BY <1>0, <2>1 DEF sema_down_loop, block_on, take, Goto, NoTry, OwnerInv
  <2> QED BY <2>1, <2>2, LoopHeld
<1>6. CASE Interrupt
  <2>1. outcome = "ok" /\ holder' = holder
    BY <1>0, <1>6, InterruptLeaves DEF Interrupt, TimerWakeup, Preempt, IntrOn
  <2>2. NoTry'
    BY <1>0, <1>6, InterruptLeaves DEF NoTry, OwnerInv
  <2>3. ASSUME outcome' = "ok"
        PROVE  SameHeld(link, link')
    <3>1. CASE Preempt
      <4>1. PICK m : m = link
        OBVIOUS
      <4>2. PICK st : st = status
        OBVIOUS
      <4>3. PICK pri \in [Thread -> Int] : pri = priority
        BY <1>1
      <4>4. thread_yield(m, st, pri)
        BY <3>1, <4>1, <4>2, <4>3 DEF Preempt
      <4>5. SameHeld(m, link')
        BY <1>1, <2>3, <4>1, <4>4, YieldHeld
      <4> QED BY <4>1, <4>5
    <3>2. CASE \E t \in Thread : TimerWakeup(t)
      <4>1. PICK t \in Thread : TimerWakeup(t)
        BY <3>2
      <4>2. PICK r \in list_insert_ordered(link, ready_list, t, priority) : link' = r.link
        BY <4>1 DEF TimerWakeup
      <4> QED BY <1>1, <4>2, InsertHeld, ThreadLists
    <3> QED BY <1>6, <3>1, <3>2 DEF Interrupt
  <2>4. CASE outcome' = "ok"
    BY <2>1, <2>2, <2>3, <2>4, HeldStays
  <2> QED BY <2>2, <2>4 DEF HeldInv
<1>7. CASE UNCHANGED vars
  BY <1>7 DEF vars, threadVars, HeldInv, NoTry, Held
<1> QED BY <1>2, <1>3, <1>4, <1>5, <1>6, <1>7 DEF Next, Continue

\* Nobody holds a lock at the start.
LEMMA InitHeld == Init => HeldInv /\ NoTry
<1> SUFFICES ASSUME Init PROVE HeldInv /\ NoTry
  OBVIOUS
<1>1. /\ link = EmptyLists /\ holder = [l \in Lock |-> NULL]
      /\ pc = [t \in Thread |-> IF t = cur THEN "run" ELSE "asleep"]
  BY DEF Init
<1>2. ASSUME NEW t \in Thread
      PROVE  Whole(link, locks_held(t), Held(t))
  <2>1. locks_held(t) \in HeldList /\ IsSide(Lock, HeldList)
    BY ThreadLists
  <2>2. /\ link[tail(locks_held(t))] = [prev |-> head(locks_held(t)), next |-> NULL]
        /\ link[head(locks_held(t))] = [prev |-> NULL, next |-> tail(locks_held(t))]
    BY <1>1, <2>1, EmptySound, Kinds
  <2>3. /\ link[tail(locks_held(t))].prev = head(locks_held(t))
        /\ link[head(locks_held(t))].next = tail(locks_held(t))
    BY <2>2
  <2>4. Held(t) = {}
    BY <1>1, Distinct DEF Held
  <2>5. Whole(link, locks_held(t), {})
    BY <2>1, <2>3, EmptyChain
  <2> QED BY <2>4, <2>5
<1> QED BY <1>1, <1>2 DEF HeldInv, NoTry

\* What a thread holds is what it has on its list.
LEMMA HeldIsListed ==
  ASSUME DataOK, HeldInv, outcome = "ok", NEW t \in Thread
  PROVE  OnList(link, locks_held(t)) = Held(t) /\ LoopEnd(link, locks_held(t)) = "ok"
<1>1. locks_held(t) \in HeldList /\ IsSide(Lock, HeldList) /\ LinkOK(link)
  BY ThreadLists DEF DataOK
<1>2. Whole(link, locks_held(t), Held(t)) /\ Held(t) \in SUBSET Lock
  BY DEF HeldInv, Held
<1>3. Held(t) \in SUBSET Linked(link, Lock)
  BY <1>1, <1>2, ChainLinked
<1> QED BY <1>1, <1>2, <1>3, ChainWalk

\* Donation reaches every holder on the way, as long as no lock is taken with
\* lock_try_acquire and nobody sets a priority: refresh_priority then sees
\* every lock that its thread holds, and nothing else takes a donation away.
THEOREM DonationReaches ==
  ASSUME TryLock = {}, NewPriority = {}
  PROVE  Spec => []Donated
<1> DEFINE Inv == /\ LockInv /\ HeldInv /\ NoTry
                  /\ outcome = "ok" => \A t \in Thread : Upheld(t)
<1>1. Init => Inv
  BY InitLockInv, InitHeld DEF Init, Upheld
<1>2. Inv /\ [Next]_vars => Inv'
  <2> SUFFICES ASSUME Inv, [Next]_vars PROVE Inv'
    OBVIOUS
  <2>1. LockInv' /\ HeldInv' /\ NoTry'
    BY NextWaits, NextHeld
  <2>2. ASSUME Next, outcome' = "ok", NEW t \in Thread
        PROVE  Upheld(t)'
    <3>1. outcome = "ok"
      BY <2>2 DEF Next, Call, AcquireFree, AcquireHeld, LockRelease, TryAcquire,
         ThreadSetPriority, Continue, TryOwn, Refresh, Check, SemaDown, At, Interrupt,
         TimerWakeup, Preempt, IntrOn
    <3>2. Upheld(t) /\ OwnerInv /\ DataOK
      BY <3>1 DEF LockInv
    <3>3. CASE \E l \in Lock : AcquireHeld(l)
      BY <2>2, <3>2, <3>3, AcquireHeldUpholds
    <3>4. CASE \A l \in Lock : ~AcquireHeld(l)
      <4> SUFFICES ASSUME ~Upheld(t)' PROVE FALSE
        OBVIOUS
      <4>1. /\ waiting_lock'[t] = waiting_lock[t] /\ waiting_lock[t] \in Contested
            /\ holder'[waiting_lock'[t]] = cur
            /\ Refresh /\ waiting_lock'[t] \notin OnList(link, locks_held(cur))
        BY <2>2, <3>2, <3>4, OthersUphold
      <4>2. cur \in Thread
        BY <3>2, <4>1, AtRuns DEF Refresh
      <4>3. holder[waiting_lock[t]] = cur /\ waiting_lock[t] \in Lock
        BY <2>2, <4>1, HolderStays, WaitSets
      <4>4. waiting_lock[t] \in Held(cur)
        BY <4>3 DEF Held
      <4> QED BY <3>1, <3>2, <4>1, <4>2, <4>4, HeldIsListed
    <3> QED BY <3>3, <3>4
  <2>3. ASSUME UNCHANGED vars, outcome' = "ok", NEW t \in Thread
        PROVE  Upheld(t)'
    BY <2>3 DEF vars, threadVars, Upheld
  <2> QED BY <2>1, <2>2, <2>3
<1>3. Inv => Donated
  BY DEF LockInv, WaitInv, Waits, Donated, Upheld
<1> HIDE DEF Inv
<1> QED BY <1>1, <1>2, <1>3, PTL DEF Spec

-----------------------------------------------------------------------------
(* The lists of threads while every lock is found free.                    *)

\* The threads that sleep on this list, each on the semaphore of its own.
On(list, sleepers) == {t \in sleepers : list = sema_waiters(t)}

\* The run queue holds the threads of `ready', and nobody else waits on a list.
Tidy(m, ready, sleepers) ==
    /\ LinkOK(m)
    /\ ready \intersect sleepers = {}
    /\ Whole(m, ready_list, ready)
    /\ \A list \in ThreadList \ {ready_list} : Whole(m, list, On(list, sleepers))
Ready(st) == {t \in Thread : st[t] = "READY"}

\* What is put in order on a list that is whole gets there.
LEMMA InsertEnds ==
  ASSUME NEW m, NEW list, NEW e, NEW pri, LoopEnd(m, list) = "ok",
         NEW r \in list_insert_ordered(m, list, e, pri)
  PROVE  r.outcome = "ok"
<1> DEFINE p == path(m, list)
           done(before) == [outcome |-> "ok", link |-> list_insert(m, before, e)]
<1>1. \A before : done(before).outcome = "ok"
  OBVIOUS
<1>2. \E before : r = done(before)
  <2> HIDE DEF done
  <2> USE DEF done
  <2>1. \/ r \in {done(tail(list))}
        \/ \E before : r \in {done(before)}
    BY DEF list_insert_ordered
  <2> QED BY <2>1
<1> HIDE DEF done
<1> QED BY <1>1, <1>2

\* list_insert_ordered into a list that is whole.
LEMMA InsertChain ==
  ASSUME NEW m, LinkOK(m), NEW list \in ThreadList, NEW S \in SUBSET Thread, Whole(m, list, S),
         NEW e \in Thread \ S, NEW pri \in [Thread -> Int],
         NEW r \in list_insert_ordered(m, list, e, pri)
  PROVE  /\ r.outcome = "ok" /\ LinkOK(r.link)
         /\ Whole(r.link, list, S \union {e}) /\ OnlyOn(m, r.link, list, S \union {e})
<1>1. IsSide(Thread, ThreadList)
  BY ThreadLists
<1>2. S \in SUBSET Linked(m, Thread)
  BY <1>1, ChainLinked
<1>3. LoopEnd(m, list) = "ok" /\ Met(m, list) = S \union {tail(list)}
  BY <1>1, <1>2, ChainWalk
<1>4. r.outcome = "ok"
  BY <1>3, InsertEnds
<1>5. PICK b \in Met(m, list) : b # e /\ r.link = list_insert(m, b, e)
  BY <1>4, OrderedInsert
<1>6. b \in S \union {tail(list)}
  BY <1>3
<1>7. LinkOK(r.link)
  BY InsertTypes
<1>8. /\ Whole(list_insert(m, b, e), list, S \union {e})
      /\ OnlyOn(m, list_insert(m, b, e), list, S \union {e})
  BY <1>1, <1>2, <1>6, ChainInsert
<1> QED BY <1>4, <1>5, <1>7, <1>8

\* A thread sleeps on one list at most.
LEMMA OnFacts ==
  ASSUME NEW sleepers \in SUBSET Thread
  PROVE  /\ \A list : On(list, sleepers) \in SUBSET Thread /\ On(list, sleepers) \subseteq sleepers
         /\ \A t \in sleepers : On(sema_waiters(t), sleepers) = {t}
         /\ \A t \in Thread \ sleepers : On(sema_waiters(t), sleepers) = {}
         /\ \A l \in Lock : On(waiters(l), sleepers) = {} /\ On(sema_waiters(l), sleepers) = {}
         /\ \A t \in Thread : sema_waiters(t) \in ThreadList \ {ready_list}
         /\ \A l \in Lock : /\ waiters(l) \in ThreadList \ {ready_list}
                            /\ sema_waiters(l) \in ThreadList \ {ready_list}
<1>1. \A s \in Sema : sema_waiters(s) \in ThreadList \ {ready_list}
  BY ThreadLists, ListNames
<1>2. Thread \subseteq Sema /\ Lock \subseteq Sema
  BY DEF Sema
<1>3. \A l \in Lock : waiters(l) \in ThreadList \ {ready_list}
  BY ThreadLists, ListNames
<1>4. \A t \in sleepers : On(sema_waiters(t), sleepers) = {t}
  BY ListNames DEF On
<1>5. \A t \in Thread \ sleepers : On(sema_waiters(t), sleepers) = {}
  BY ListNames DEF On
<1>6. \A l \in Lock : On(waiters(l), sleepers) = {} /\ On(sema_waiters(l), sleepers) = {}
  BY ListNames, Distinct DEF On
<1>7. \A list : On(list, sleepers) \in SUBSET Thread /\ On(list, sleepers) \subseteq sleepers
  BY DEF On
<1> QED BY <1>1, <1>2, <1>3, <1>4, <1>5, <1>6, <1>7

\* A thread is made ready.
LEMMA InsertTidy ==
  ASSUME NEW m, NEW S \in SUBSET Thread, NEW sleepers \in SUBSET Thread, Tidy(m, S, sleepers),
         NEW e \in Thread \ (S \union sleepers), NEW pri \in [Thread -> Int],
         NEW r \in list_insert_ordered(m, ready_list, e, pri)
  PROVE  r.outcome = "ok" /\ Tidy(r.link, S \union {e}, sleepers)
<1>1. /\ ready_list \in ThreadList /\ IsSide(Thread, ThreadList) /\ LinkOK(m)
      /\ Whole(m, ready_list, S) /\ S \intersect sleepers = {} /\ e \in Thread \ S
  BY ThreadLists DEF Tidy
<1>2. PICK k : k = r.link
  OBVIOUS
<1>3. PICK T \in SUBSET Thread : T = S \union {e}
  OBVIOUS
<1>4. /\ r.outcome = "ok" /\ LinkOK(k)
      /\ Whole(k, ready_list, T) /\ OnlyOn(m, k, ready_list, T)
  BY <1>1, <1>2, <1>3, InsertChain
<1>5. T \intersect sleepers = {}
  BY <1>1, <1>3
<1>6. ASSUME NEW list \in ThreadList \ {ready_list}
      PROVE  Whole(k, list, On(list, sleepers))
  <2>1. PICK U \in SUBSET Thread : U = On(list, sleepers)
    BY OnFacts
  <2>2. Whole(m, list, U) /\ T \intersect U = {} /\ list \in ThreadList /\ ready_list # list
    BY <1>5, <2>1, OnFacts DEF Tidy
  <2>3. Whole(k, list, U)
    BY <1>1, <1>4, <2>2, OtherChain
  <2> QED BY <2>1, <2>3
<1> QED BY <1>2, <1>3, <1>4, <1>5, <1>6 DEF Tidy

\* The front of the run queue is taken off.
LEMMA PopTidy ==
  ASSUME NEW m, NEW S \in SUBSET Thread, NEW sleepers \in SUBSET Thread, Tidy(m, S, sleepers)
  PROVE  /\ begin(m, ready_list) \in S \union {tail(ready_list)}
         /\ \A e \in S : Tidy(list_remove(m, e), S \ {e}, sleepers)
<1>1. /\ ready_list \in ThreadList /\ IsSide(Thread, ThreadList) /\ LinkOK(m)
      /\ Whole(m, ready_list, S) /\ S \intersect sleepers = {}
  BY ThreadLists DEF Tidy
<1>2. S \in SUBSET Linked(m, Thread)
  BY <1>1, ChainLinked
<1>3. begin(m, ready_list) \in S \union {tail(ready_list)}
  BY <1>1 DEF Whole, Chain, begin
<1>4. ASSUME NEW e \in S
      PROVE  Tidy(list_remove(m, e), S \ {e}, sleepers)
  <2>1. PICK k : k = list_remove(m, e)
    OBVIOUS
  <2>2. Whole(k, ready_list, S \ {e}) /\ OnlyOn(m, k, ready_list, S)
    BY <1>1, <1>2, <2>1, ChainRemove
  <2>3. e \in Linked(m, Thread)
    BY <1>2
  <2>4. LinkOK(k)
    BY <1>1, <2>1, <2>3, RemoveSound
  <2>5. ASSUME NEW list \in ThreadList \ {ready_list}
        PROVE  Whole(k, list, On(list, sleepers))
    <3>1. PICK U \in SUBSET Thread : U = On(list, sleepers)
      BY OnFacts
    <3>2. Whole(m, list, U) /\ S \intersect U = {} /\ list \in ThreadList /\ ready_list # list
      BY <1>1, <3>1, OnFacts DEF Tidy
    <3>3. Whole(k, list, U)
      BY <1>1, <2>2, <3>2, OtherChain
    <3> QED BY <3>1, <3>3
  <2> QED BY <1>1, <2>1, <2>2, <2>4, <2>5 DEF Tidy
<1> QED BY <1>3, <1>4

\* What a step of the scheduler from the states st comes to.
TidyAfter(st, sleepers) ==
    /\ outcome' = outcome
    /\ Tidy(link', Ready(status'), sleepers)
    /\ \A t \in Thread : status'[t] = "BLOCKED" <=> st[t] = "BLOCKED"

\* schedule()
LEMMA ScheduleTidy ==
  ASSUME NEW m, NEW st \in [Thread -> Status], NEW sleepers \in SUBSET Thread,
         Tidy(m, Ready(st), sleepers), schedule(m, st)
  PROVE  TidyAfter(st, sleepers)
<1>1. Ready(st) \in SUBSET Thread
  BY DEF Ready
<1>2. begin(m, ready_list) \in Ready(st) \union {tail(ready_list)}
  BY <1>1, PopTidy
<1>3. CASE begin(m, ready_list) = tail(ready_list)
  <2>1. status' = st /\ link' = m /\ outcome' = outcome
    BY <1>3, QueueTail DEF schedule
  <2>2. Tidy(link', Ready(status'), sleepers)
    BY <2>1
  <2> QED BY <2>1, <2>2 DEF TidyAfter
<1>4. CASE begin(m, ready_list) \in Ready(st)
  <2>1. PICK e \in Ready(st) : e = begin(m, ready_list)
    BY <1>4
  <2>2. e \in Thread /\ e # tail(ready_list) /\ st[e] = "READY"
    BY <2>1, QueueTail DEF Ready
  <2>3. /\ status' = [st EXCEPT ![e] = "RUNNING"]
        /\ link' = list_remove(m, e)
        /\ outcome' = outcome
    BY <2>1, <2>2 DEF schedule
  <2>4. Tidy(list_remove(m, e), Ready(st) \ {e}, sleepers)
    BY <1>1, <2>1, PopTidy
  <2>5. Ready(status') = Ready(st) \ {e}
    BY <2>2, <2>3 DEF Ready
  <2>6. \A t \in Thread : status'[t] = "BLOCKED" <=> st[t] = "BLOCKED"
    BY <2>2, <2>3
  <2> QED BY <2>3, <2>4, <2>5, <2>6 DEF TidyAfter
<1> QED BY <1>2, <1>3, <1>4

\* thread_yield.
LEMMA YieldTidy ==
  ASSUME NEW m, NEW st \in [Thread -> Status], NEW pri \in [Thread -> Int],
         NEW sleepers \in SUBSET Thread, Tidy(m, Ready(st), sleepers),
         \A t \in sleepers : st[t] = "BLOCKED", cur \in Thread \union {Idle},
         \A t \in Running : st[t] = "RUNNING", thread_yield(m, st, pri)
  PROVE  TidyAfter(st, sleepers)
<1>1. CASE cur = Idle
  BY <1>1, ScheduleTidy DEF thread_yield
<1>2. CASE cur # Idle
  <2>1. PICK me \in Thread : me = cur
    BY <1>2
  <2>2. st[me] = "RUNNING"
    BY <2>1 DEF Running
  <2>3. PICK new : new = [st EXCEPT ![me] = "READY"]
    OBVIOUS
  <2>4. PICK r \in list_insert_ordered(m, ready_list, me, pri) :
            IF r.outcome = "ok" THEN schedule(r.link, new) ELSE Stop(r.outcome)
    BY <1>2, <2>1, <2>3 DEF thread_yield
  <2>5. Ready(st) \in SUBSET Thread /\ me \in Thread \ (Ready(st) \union sleepers)
    BY <2>2 DEF Ready
  <2>6. r.outcome = "ok" /\ Tidy(r.link, Ready(st) \union {me}, sleepers)
    BY <2>5, InsertTidy
  <2>7. Ready(new) = Ready(st) \union {me} /\ new \in [Thread -> Status]
    BY <2>3 DEF Ready, Status
  <2>8. TidyAfter(new, sleepers)
    BY <2>4, <2>6, <2>7, ScheduleTidy
  <2>9. \A t \in Thread : st[t] = "BLOCKED" <=> new[t] = "BLOCKED"
    BY <2>2, <2>3
  <2> QED BY <2>8, <2>9 DEF TidyAfter
<1> QED BY <1>1, <1>2

\* check_preemption.
LEMMA CheckTidy ==
  ASSUME NEW m, NEW st \in [Thread -> Status], NEW pri \in [Thread -> Int],
         NEW sleepers \in SUBSET Thread, Tidy(m, Ready(st), sleepers),
         \A t \in sleepers : st[t] = "BLOCKED", cur \in Thread \union {Idle},
         \A t \in Running : st[t] = "RUNNING", check_preemption(m, st, pri)
  PROVE  TidyAfter(st, sleepers)
<1>1. \/ thread_yield(m, st, pri)
      \/ link' = m /\ status' = st /\ outcome' = outcome
  BY DEF check_preemption
<1> QED BY <1>1, YieldTidy DEF TidyAfter

\* Locks come and go on other lists.
LEMMA SameTidy ==
  ASSUME NEW m, NEW r, NEW S \in SUBSET Thread, NEW sleepers \in SUBSET Thread,
         Tidy(m, S, sleepers), LinkOK(r),
         \A n \in From : r[n].next = m[n].next, \A n \in To : r[n].prev = m[n].prev
  PROVE  Tidy(r, S, sleepers)
<1>1. ASSUME NEW list \in ThreadList, NEW T \in SUBSET Thread, Whole(m, list, T)
      PROVE  Whole(r, list, T)
  <2>1. PICK rank : Chain(m, list, T, rank)
    BY <1>1 DEF Whole
  <2>2. head(list) \in From /\ tail(list) \in To /\ T \subseteq From /\ T \subseteq To
    BY FromTo
  <2>3. Chain(r, list, T, rank)
    BY <2>1, <2>2, SameChain
  <2> QED BY <2>3 DEF Whole
<1>2. Whole(r, ready_list, S)
  BY <1>1, ThreadLists DEF Tidy
<1>3. \A list \in ThreadList \ {ready_list} : Whole(r, list, On(list, sleepers))
  BY <1>1, OnFacts DEF Tidy
<1> QED BY <1>2, <1>3 DEF Tidy

\* A list with nobody on it.
LEMMA TidyEmpty ==
  ASSUME NEW m, NEW S, NEW sleepers, Tidy(m, S, sleepers),
         NEW list \in ThreadList \ {ready_list}, On(list, sleepers) = {}
  PROVE  /\ m[head(list)].next = tail(list) /\ m[tail(list)].prev = head(list)
         /\ begin(m, list) = tail(list) /\ LoopEnd(m, list) = "ok" /\ OnList(m, list) = {}
<1>1. Whole(m, list, {}) /\ LinkOK(m)
  BY DEF Tidy
<1>2. m[head(list)].next = tail(list) /\ m[tail(list)].prev = head(list)
  BY <1>1 DEF Whole, Chain
<1>3. LoopEnd(m, list) = "ok" /\ OnList(m, list) = {}
  BY <1>1, <1>2, EmptyWalk, ThreadLists DEF begin
<1> QED BY <1>2, <1>3 DEF begin

\* As long as no lock is found held, the kernel has not stopped, the lists
\* are tidy, and whoever is in sema_down is among W.
Free(sleepers, W) ==
    /\ outcome = "ok"
    /\ Tidy(link, Ready(status), sleepers)
    /\ \A t \in Thread : /\ pc[t] \in {"wait", "sema_down"} => t \in W
                         /\ pc[t] = "asleep" => status[t] = "BLOCKED" /\ t \notin sleepers
    /\ \A t \in sleepers : status[t] = "BLOCKED"

\* Such a step puts nobody to sleep.
FreeStep(sleepers, W) ==
    /\ Free(sleepers, W)'
    /\ \A t \in Thread : status'[t] = "BLOCKED" => status[t] = "BLOCKED"

\* A step of the scheduler, with a change of pc to one that does not wait.
LEMMA TidyFree ==
  ASSUME NEW st, st = status, NEW sleepers \in SUBSET Thread, NEW W, Free(sleepers, W),
         TidyAfter(st, sleepers),
         pc \in [Thread -> PC], NEW me \in Thread, NEW p \in PC \ {"wait", "sema_down", "asleep"},
         pc' = pc \/ pc' = [pc EXCEPT ![me] = p]
  PROVE  FreeStep(sleepers, W)
<1>1. \A t \in Thread : /\ pc'[t] \in {"wait", "sema_down"} => t \in W
                        /\ pc'[t] = "asleep" => st[t] = "BLOCKED" /\ t \notin sleepers
  BY DEF Free
<1>2. \A t \in Thread : status'[t] = "BLOCKED" <=> status[t] = "BLOCKED"
  BY DEF TidyAfter
<1>3. outcome' = "ok" /\ Tidy(link', Ready(status'), sleepers)
  BY DEF TidyAfter, Free
<1>4. \A t \in sleepers : status'[t] = "BLOCKED"
  BY <1>2 DEF Free
<1>5. Free(sleepers, W)'
  BY <1>1, <1>2, <1>3, <1>4 DEF Free
<1> QED BY <1>2, <1>5 DEF FreeStep

\* lock_acquire of a lock without a holder gets it.
LEMMA AcquireFreeTidy ==
  ASSUME LockInv, NoTry, NEW sleepers \in SUBSET Thread, NEW W, Free(sleepers, W),
         NEW l \in Lock, AcquireFree(l)
  PROVE  FreeStep(sleepers, W)
<1>0. OwnerInv /\ DataOK /\ cur \in Thread /\ holder[l] = NULL /\ pc[cur] = "run"
  BY AtRuns DEF AcquireFree, LockInv
<1>1. PICK me \in Thread : me = cur
  BY <1>0
<1>2. Owners(l) = {}
  BY <1>0, Distinct DEF Owners, NoTry
<1>3. value[l] # 0
  <2>1. \A t \in Thread : {t} # {}
    OBVIOUS
  <2>2. value[l] = 1 \/ \E t \in Thread : Owners(l) = {t}
    BY <1>0 DEF OwnerInv
  <2> QED BY <1>2, <2>1, <2>2
<1>4. take(l)
  BY <1>3 DEF AcquireFree, sema_down_loop
<1>5. /\ link' = list_push_back(link, locks_held(me), l) /\ status' = status
      /\ pc' = [pc EXCEPT ![me] = "run"] /\ outcome' = outcome
  BY <1>1, <1>4 DEF take, Goto
<1>6. Tidy(link, Ready(status), sleepers) /\ LinkOK(link)
  BY <1>0 DEF Free, DataOK
<1>7. PICK m : m = link
  OBVIOUS
<1>8. PICK S \in SUBSET Thread : S = Ready(status)
  BY DEF Ready
<1>9. PICK r : r = list_push_back(m, locks_held(me), l)
  OBVIOUS
<1>10. /\ LinkOK(r) /\ \A n \in From : r[n].next = m[n].next
       /\ \A n \in To : r[n].prev = m[n].prev
  BY <1>6, <1>7, <1>9, LockLinks
<1>11. Tidy(r, S, sleepers)
  BY <1>6, <1>7, <1>8, <1>10, SameTidy
<1>12. Tidy(link', Ready(status'), sleepers)
  BY <1>5, <1>7, <1>8, <1>9, <1>11
<1>13. PICK st : st = status
  OBVIOUS
<1>14. TidyAfter(st, sleepers)
  BY <1>5, <1>12, <1>13 DEF TidyAfter
<1>15. pc \in [Thread -> PC] /\ "run" \in PC \ {"wait", "sema_down", "asleep"}
  BY <1>0 DEF OwnerInv, PC
<1> QED BY <1>5, <1>13, <1>14, <1>15, TidyFree

\* lock_release finds nobody waiting.
LEMMA ReleaseTidy ==
  ASSUME LockInv, HeldInv, NEW sleepers \in SUBSET Thread, NEW W, Free(sleepers, W),
         NEW l \in Lock, LockRelease(l)
  PROVE  FreeStep(sleepers, W)
<1>0. OwnerInv /\ DataOK /\ WaitInv /\ cur \in Thread /\ outcome = "ok" /\ pc[cur] = "run"
      /\ holder[l] = cur
  BY AtRuns DEF LockRelease, LockInv
<1>1. PICK me \in Thread : me = cur
  BY <1>0
<1>2. PICK S \in SUBSET Thread : S = Ready(status)
  BY DEF Ready
<1>3. Tidy(link, S, sleepers) /\ LinkOK(link)
  BY <1>0, <1>2 DEF Free, DataOK
<1>4. PICK m : m = list_remove(link, l)
  OBVIOUS
<1>5. is_interior(link, l)
  BY <1>0, <1>1, UnheldHeld
<1>6. /\ LinkOK(m) /\ \A n \in From : m[n].next = link[n].next
      /\ \A n \in To : m[n].prev = link[n].prev
  BY <1>3, <1>4, <1>5, LockLinks
<1>7. Tidy(m, S, sleepers)
  BY <1>3, <1>6, SameTidy
<1>8. /\ begin(m, sema_waiters(l)) = tail(sema_waiters(l))
      /\ LoopEnd(m, waiters(l)) = "ok" /\ OnList(m, waiters(l)) = {}
  BY <1>7, OnFacts, TidyEmpty
<1>10. unheld(l).outcome = "ok" /\ unheld(l).link = m
  <2>1. unheld(l) = [outcome |-> "ok", link |-> m]
    BY <1>4, <1>5, <1>8 DEF unheld
  <2> QED BY <2>1
<1>11. PICK r \in sema_up(m, l) :
           IF r.outcome = "ok" THEN check_preemption(r.link, r.status, priority)
           ELSE Stop(r.outcome)
  BY <1>10 DEF LockRelease
<1>12. r = [outcome |-> "ok", link |-> m, status |-> status]
  <2>1. tail(sema_waiters(l)) \notin Thread
    BY QueueTail, ThreadLists, Distinct
  <2> QED BY <1>8, <1>11, <2>1 DEF sema_up, empty
<1>13. PICK st \in [Thread -> Status] : st = status
  BY <1>0 DEF DataOK
<1>14. PICK pri \in [Thread -> Int] : pri = priority
  BY <1>0, PriorityIsInt DEF DataOK
<1>15. check_preemption(m, st, pri)
  BY <1>11, <1>12, <1>13, <1>14
<1>16. /\ Tidy(m, Ready(st), sleepers) /\ \A t \in Running : st[t] = "RUNNING"
       /\ \A t \in sleepers : st[t] = "BLOCKED"
  BY <1>0, <1>2, <1>7, <1>13 DEF WaitInv, Free
<1>17. TidyAfter(st, sleepers)
  BY <1>0, <1>15, <1>16, CheckTidy
<1>18. pc' = [pc EXCEPT ![me] = "refresh"]
  BY <1>1, <1>10 DEF LockRelease, Goto
<1>19. pc \in [Thread -> PC] /\ "refresh" \in PC \ {"wait", "sema_down", "asleep"}
  BY <1>0 DEF OwnerInv, PC, IntrOffPC
<1> QED BY <1>13, <1>17, <1>18, <1>19, TidyFree

\* check_preemption after lock_release or thread_set_priority.
LEMMA CheckFree ==
  ASSUME LockInv, HeldInv, NEW sleepers \in SUBSET Thread, NEW W, Free(sleepers, W),
         Refresh \/ Check
  PROVE  FreeStep(sleepers, W)
<1>0. OwnerInv /\ DataOK /\ WaitInv /\ cur \in Thread /\ outcome = "ok"
      /\ pc' = [pc EXCEPT ![cur] = "run"]
  BY CheckLeaves DEF Refresh, Check, At, LockInv
<1>1. PICK m : m = link
  OBVIOUS
<1>2. PICK st \in [Thread -> Status] : st = status
  BY <1>0 DEF DataOK
<1>3. \E pri \in [Thread -> Int] : check_preemption(m, st, pri)
  <2>1. CASE Refresh
    <3>1. PICK pri \in [Thread -> Int] : pri = priority'
      BY <1>0, <2>1, RefreshStepTypes, PriorityIsInt DEF DataOK
    <3>2. ASSUME NEW list \in refresh_lists(cur)
          PROVE  LoopEnd(link, list) = "ok"
      <4>1. LoopEnd(link, locks_held(cur)) = "ok" /\ OnList(link, locks_held(cur)) \subseteq Lock
        BY <1>0, HeldIsListed DEF Held
      <4>2. ASSUME NEW l \in Lock PROVE LoopEnd(link, waiters(l)) = "ok"
        <5>1. Tidy(link, Ready(status), sleepers)
          BY DEF Free
        <5> QED BY <5>1, OnFacts, TidyEmpty
      <4> QED BY <4>1, <4>2 DEF refresh_lists
    <3>3. locks_held(cur) \in refresh_lists(cur)
      BY DEF refresh_lists
    <3>4. {LoopEnd(link, list) : list \in refresh_lists(cur)} = {"ok"}
      BY <3>2, <3>3
    <3>5. check_preemption(m, st, priority')
      BY <1>1, <1>2, <2>1, <3>4 DEF Refresh
    <3>6. check_preemption(m, st, pri)
      BY <3>1, <3>5, CheckConstant
    <3> QED BY <3>6
  <2>2. CASE Check
    BY <1>0, <1>1, <1>2, <2>2, PriorityIsInt DEF Check, DataOK
  <2> QED BY <2>1, <2>2
<1>4. /\ Tidy(m, Ready(st), sleepers) /\ \A t \in Running : st[t] = "RUNNING"
      /\ \A t \in sleepers : st[t] = "BLOCKED"
  BY <1>0, <1>1, <1>2 DEF WaitInv, Free
<1>5. TidyAfter(st, sleepers)
  BY <1>0, <1>3, <1>4, CheckTidy
<1>6. pc \in [Thread -> PC] /\ "run" \in PC \ {"wait", "sema_down", "asleep"}
  BY <1>0 DEF OwnerInv, PC
<1> QED BY <1>0, <1>2, <1>5, <1>6, TidyFree

\* The timer.
LEMMA InterruptFree ==
  ASSUME LockInv, NEW sleepers \in SUBSET Thread, NEW W, Free(sleepers, W), Interrupt
  PROVE  FreeStep(sleepers, W)
<1>0. OwnerInv /\ DataOK /\ WaitInv /\ outcome = "ok" /\ cur \in Thread \union {Idle}
      /\ pc \in [Thread -> PC]
  BY DEF Interrupt, TimerWakeup, Preempt, IntrOn, LockInv, OwnerInv
<1>1. PICK m : m = link
  OBVIOUS
<1>2. PICK st \in [Thread -> Status] : st = status
  BY <1>0 DEF DataOK
<1>3. PICK pri \in [Thread -> Int] : pri = priority
  BY <1>0, PriorityIsInt DEF DataOK
<1>4. /\ Tidy(m, Ready(st), sleepers) /\ Ready(st) \in SUBSET Thread
      /\ \A t \in sleepers : st[t] = "BLOCKED"
  BY <1>1, <1>2 DEF Free, Ready
<1>5. CASE Preempt
  <2>1. thread_yield(m, st, pri) /\ pc' = pc
    BY <1>1, <1>2, <1>3, <1>5 DEF Preempt, threadVars
  <2>2. \A t \in Running : st[t] = "RUNNING"
    BY <1>0, <1>2 DEF WaitInv
  <2>3. TidyAfter(st, sleepers)
    BY <1>0, <1>4, <2>1, <2>2, YieldTidy
  <2>4. outcome' = "ok" /\ Tidy(link', Ready(status'), sleepers)
        /\ \A t \in Thread : status'[t] = "BLOCKED" <=> status[t] = "BLOCKED"
    BY <1>0, <1>2, <2>3 DEF TidyAfter
  <2> QED BY <2>1, <2>4 DEF Free, FreeStep
<1>6. ASSUME NEW t \in Thread, TimerWakeup(t)
      PROVE  FreeStep(sleepers, W)
  <2>1. PICK r \in list_insert_ordered(m, ready_list, t, pri) :
            outcome' = r.outcome /\ link' = r.link
    BY <1>1, <1>3, <1>6 DEF TimerWakeup
  <2>2. /\ pc[t] = "asleep" /\ pc' = [pc EXCEPT ![t] = "run"]
        /\ status' = [st EXCEPT ![t] = "READY"]
    BY <1>2, <1>6 DEF TimerWakeup
  <2>3. t \in Thread \ (Ready(st) \union sleepers)
    BY <1>2, <2>2 DEF Free, Ready
  <2>4. r.outcome = "ok" /\ Tidy(r.link, Ready(st) \union {t}, sleepers)
    BY <1>4, <2>3, InsertTidy
  <2>5. Ready(status') = Ready(st) \union {t}
    BY <2>2 DEF Ready
  <2>6. \A u \in Thread : /\ pc'[u] \in {"wait", "sema_down"} => u \in W
                          /\ pc'[u] = "asleep" => status'[u] = "BLOCKED" /\ u \notin sleepers
    BY <1>0, <1>2, <2>2 DEF Free
  <2>7. \A u \in sleepers : status'[u] = "BLOCKED"
    BY <1>4, <2>2, <2>3
  <2>8. \A u \in Thread : status'[u] = "BLOCKED" => status[u] = "BLOCKED"
    BY <1>2, <2>2
  <2> QED BY <2>1, <2>4, <2>5, <2>6, <2>7, <2>8 DEF Free, FreeStep
<1> QED BY <1>5, <1>6 DEF Interrupt

\* thread_set_priority.
LEMMA SetPriorityFree ==
  ASSUME OwnerInv, NEW sleepers \in SUBSET Thread, NEW W, Free(sleepers, W),
         NEW pri, ThreadSetPriority(pri)
  PROVE  FreeStep(sleepers, W)
<1>1. cur \in Thread /\ pc' = [pc EXCEPT ![cur] = "check"] /\ pc \in [Thread -> PC]
      /\ UNCHANGED <<link, status, outcome>>
  BY AtRuns DEF ThreadSetPriority, Goto, OwnerInv
<1> QED BY <1>1 DEF Free, FreeStep

\* Every step, if lock_try_acquire is not used.
LEMMA NextFree ==
  ASSUME TryLock = {}, LockInv, HeldInv, NoTry, NEW sleepers \in SUBSET Thread, NEW W,
         Free(sleepers, W), SemaDown => cur \notin W, Next, ~Contended'
  PROVE  FreeStep(sleepers, W)
<1>0. OwnerInv /\ DataOK
  BY DEF LockInv
<1>1. ASSUME NEW l \in Lock, AcquireHeld(l) PROVE FALSE
  <2>1. cur \in Thread /\ waiting_lock' = [waiting_lock EXCEPT ![cur] = l]
    BY <1>0, <1>1, AtRuns DEF AcquireHeld
  <2>2. waiting_lock'[cur] = l /\ l # NULL
    BY <1>0, <2>1, Distinct DEF DataOK
  <2> QED BY <2>1, <2>2 DEF Contended
<1>2. CASE Call
  BY <1>0, <1>1, <1>2, AcquireFreeTidy, ReleaseTidy, SetPriorityFree DEF Call
<1>3. CASE SemaDown
  <2>1. cur \in Thread /\ pc[cur] \in {"wait", "sema_down"}
    BY <1>0, <1>3, AtRuns DEF SemaDown
  <2> QED BY <1>3, <2>1 DEF Free
<1>4. CASE Continue
  <2>1. ~TryOwn
    BY <1>0, AtRuns DEF TryOwn, NoTry
  <2> QED BY <1>4, <2>1, CheckFree DEF Continue
<1> QED BY <1>2, <1>3, <1>4, InterruptFree DEF Next

\* At the start.
LEMMA InitFree == ASSUME NEW W PROVE Init => Free({}, W)
<1> SUFFICES ASSUME Init PROVE Free({}, W)
  OBVIOUS
<1>1. /\ link = EmptyLists /\ outcome = "ok"
      /\ pc = [t \in Thread |-> IF t = cur THEN "run" ELSE "asleep"]
      /\ status = [t \in Thread |-> IF t = cur THEN "RUNNING" ELSE "BLOCKED"]
  BY DEF Init
<1>2. ASSUME NEW list \in ThreadList
      PROVE  Whole(link, list, {})
  <2>1. /\ link[tail(list)] = [prev |-> head(list), next |-> NULL]
        /\ link[head(list)] = [prev |-> NULL, next |-> tail(list)]
    BY <1>1, EmptySound, Kinds
  <2>2. link[tail(list)].prev = head(list) /\ link[head(list)].next = tail(list)
    BY <2>1
  <2> QED BY <2>2, EmptyChain, ThreadLists
<1>3. Ready(status) = {} /\ LinkOK(link)
  BY <1>1, EmptySound DEF Ready
<1>4. \A list : On(list, {}) = {}
  BY DEF On
<1>5. Tidy(link, Ready(status), {})
  BY <1>2, <1>3, <1>4, ThreadLists DEF Tidy
<1> QED BY <1>1, <1>5 DEF Free

\* A list that is whole is well linked.
LEMMA WholeWellLinked ==
  ASSUME NEW E, NEW lists, IsSide(E, lists), NEW list \in lists, LinkOK(link),
         NEW S \in SUBSET E, Whole(link, list, S)
  PROVE  WellLinked(list, S)
<1> DEFINE p == path(link, list)
           nodes == <<head(list)>> \o p
<1>1. S \in SUBSET Linked(link, E)
  BY ChainLinked
<1>2. /\ LoopEnd(link, list) = "ok" /\ OnList(link, list) = S
      /\ Len(p) \in Nat \ {0} /\ link[p[1]].prev = head(list)
      /\ \A i \in 1..(Len(p) - 1) : link[p[i + 1]].prev = p[i]
  <2>1. PICK m : m = link
    OBVIOUS
  <2>2. LinkOK(m) /\ S \in SUBSET Linked(m, E) /\ Whole(m, list, S)
    BY <1>1, <2>1
  <2>3. /\ LoopEnd(m, list) = "ok"
        /\ OnList(m, list) = S
        /\ Met(m, list) = S \union {tail(list)}
        /\ Len(path(m, list)) \in Nat \ {0} /\ m[path(m, list)[1]].prev = head(list)
        /\ \A i \in 1..(Len(path(m, list)) - 1) :
               path(m, list)[i] \in S /\ m[path(m, list)[i + 1]].prev = path(m, list)[i]
    BY <2>2, ChainWalk
  <2> HIDE DEF p
  <2> QED BY <2>1, <2>3 DEF p
<1>3. p \in Walks(link, list, E, lists)
  BY PathWalks
<1>4. PICK V : p \in Seq(V) /\ head(list) \in V
  <2> DEFINE W == Linked(link, E) \union Ends(lists)
  <2>1. p \in Seq(W)
    BY <1>3 DEF Walks
  <2> HIDE DEF W, p
  <2>2. p \in Seq(W \union {head(list)})
    BY <2>1
  <2> QED BY <2>2
<1> HIDE DEF p
<1>5. /\ Len(nodes) = Len(p) + 1 /\ nodes[1] = head(list)
      /\ \A i \in 1..Len(p) : nodes[i + 1] = p[i]
  <2>1. <<head(list)>> \in Seq(V) /\ Len(<<head(list)>>) = 1 /\ <<head(list)>>[1] = head(list)
    BY <1>4
  <2>2. /\ Len(nodes) = Len(<<head(list)>>) + Len(p)
        /\ \A i \in 1..(1 + Len(p)) :
               nodes[i] = IF i <= 1 THEN <<head(list)>>[i] ELSE p[i - 1]
    BY <1>4, <2>1, ConcatProperties
  <2> HIDE DEF nodes
  <2> QED BY <1>2, <2>1, <2>2
<1> HIDE DEF nodes
<1>6. ASSUME NEW i \in 2..Len(nodes)
      PROVE  link[nodes[i]].prev = nodes[i - 1]
  <2>1. CASE i = 2
    BY <1>2, <1>5, <2>1
  <2>2. CASE i # 2
    <3>1. PICK j \in 1..(Len(p) - 1) : i = j + 2
      <4>1. i - 2 \in 1..(Len(p) - 1) /\ i = (i - 2) + 2
        BY <1>2, <1>5, <2>2
      <4> QED BY <4>1
    <3>2. nodes[i] = p[j + 1] /\ nodes[i - 1] = p[j]
      <4>1. j + 1 \in 1..Len(p) /\ j \in 1..Len(p) /\ i = (j + 1) + 1 /\ i - 1 = j + 1
        BY <1>2, <3>1
      <4> QED BY <1>5, <4>1
    <3> QED BY <1>2, <3>1, <3>2
  <2> QED BY <2>1, <2>2
<1> QED BY <1>2, <1>6 DEF WellLinked, nodes, p

\* Without condition variables nobody sleeps while the locks are found free.
FreeInv == LockInv /\ HeldInv /\ NoTry /\ (Contended \/ Free({}, {}))

\* The invariant of a kernel that does not use lock_try_acquire.
LEMMA FreeInvHolds ==
  ASSUME TryLock = {}
  PROVE  Spec => []FreeInv
<1>1. Init => FreeInv
  BY InitLockInv, InitHeld, InitFree DEF FreeInv
<1>2. FreeInv /\ [Next]_vars => FreeInv'
  <2> SUFFICES ASSUME FreeInv, [Next]_vars PROVE FreeInv'
    OBVIOUS
  <2>1. LockInv' /\ HeldInv' /\ NoTry' /\ (Contended => Contended')
    BY NextWaits, NextHeld DEF FreeInv, Contended
  <2>2. ASSUME Free({}, {}), ~Contended', Next
        PROVE  Free({}, {})'
    <3>1. {} \in SUBSET Thread /\ (SemaDown => cur \notin {})
      OBVIOUS
    <3>2. FreeStep({}, {})
      BY <2>2, <3>1, NextFree DEF FreeInv
    <3> QED BY <3>2 DEF FreeStep
  <2>3. ASSUME Free({}, {}), UNCHANGED vars
        PROVE  Free({}, {})'
    BY <2>3 DEF vars, threadVars, Free
  <2> QED BY <2>1, <2>2, <2>3 DEF FreeInv
<1> QED BY <1>1, <1>2, PTL DEF Spec

\* A kernel whose locks are never found held does not panic or hang in them,
\* for any number of threads and locks, as long as nobody uses
\* lock_try_acquire.
THEOREM FreeKernelRuns ==
  ASSUME TryLock = {}
  PROVE  Spec => []RunsWhileFree
<1>1. FreeInv => RunsWhileFree
  BY DEF FreeInv, Free, RunsWhileFree
<1> QED BY <1>1, FreeInvHolds, PTL

\* Lists that are tidy are intact.
LEMMA TidyIntact ==
  ASSUME NEW sleepers \in SUBSET Thread, Tidy(link, Ready(status), sleepers),
         \A t \in Thread : Whole(link, locks_held(t), Held(t))
  PROVE  IntactWhileFree
<1> SUFFICES /\ WellLinked(ready_list, Ready(status))
             /\ \A t \in Thread : WellLinked(locks_held(t), Held(t))
             /\ \A l \in Lock : WellLinked(waiters(l), {}) /\ WellLinked(sema_waiters(l), {})
  BY DEF IntactWhileFree, Ready, Held
<1>1. LinkOK(link) /\ Whole(link, ready_list, Ready(status)) /\ Ready(status) \in SUBSET Thread
  BY DEF Tidy, Ready
<1>2. WellLinked(ready_list, Ready(status))
  BY <1>1, WholeWellLinked, ThreadLists
<1>3. ASSUME NEW t \in Thread PROVE WellLinked(locks_held(t), Held(t))
  <2>1. Whole(link, locks_held(t), Held(t)) /\ Held(t) \in SUBSET Lock
    BY DEF Held
  <2> QED BY <1>1, <2>1, WholeWellLinked, ThreadLists
<1>4. ASSUME NEW list \in ThreadList \ {ready_list}, On(list, sleepers) = {}
      PROVE  WellLinked(list, {})
  <2>1. Whole(link, list, {})
    BY <1>4 DEF Tidy
  <2> QED BY <1>1, <2>1, WholeWellLinked, ThreadLists
<1> QED BY <1>2, <1>3, <1>4, OnFacts

\* Until a lock is first found held, the run queue holds the ready threads,
\* locks_held the locks held and the wait lists nobody, all linked both ways,
\* as long as nobody uses lock_try_acquire, which leaves its lock off
\* locks_held.
THEOREM FreeListsIntact ==
  ASSUME TryLock = {}
  PROVE  Spec => []IntactWhileFree
<1>1. FreeInv => IntactWhileFree
  <2> SUFFICES ASSUME FreeInv, ~Contended PROVE IntactWhileFree
    BY DEF IntactWhileFree
  <2>1. PICK none \in SUBSET Thread : none = {}
    OBVIOUS
  <2>2. Tidy(link, Ready(status), none) /\ \A t \in Thread : Whole(link, locks_held(t), Held(t))
    BY <2>1 DEF FreeInv, Free, HeldInv
  <2> QED BY <2>2, TidyIntact
<1> QED BY <1>1, FreeInvHolds, PTL

-----------------------------------------------------------------------------
(* The order of the run queue while every lock is found free.              *)

\* From S no thread leads to one of a higher priority.
Falls(m, S, pri) == \A a \in S : m[a].next \in Thread => pri[m[a].next] <= pri[a]

\* list_insert_ordered on a list that is whole finds the place between what has
\* the priority and what has not.
LEMMA OrderedPlace ==
  ASSUME NEW m, LinkOK(m), NEW list \in ThreadList, NEW S \in SUBSET Thread, Whole(m, list, S),
         NEW e \in Thread, NEW pri \in [Thread -> Int],
         NEW r \in list_insert_ordered(m, list, e, pri)
  PROVE  \E b \in S \union {tail(list)} :
             /\ r.link = list_insert(m, b, e)
             /\ b \in Thread => pri[b] < pri[e]
             /\ m[b].prev \in Thread => pri[m[b].prev] >= pri[e]
<1> DEFINE p == path(m, list)
           lower == {i \in 1..(Len(p) - 1) : pri[e] > pri[p[i]]}
<1>1. IsSide(Thread, ThreadList)
  BY ThreadLists
<1>2. S \in SUBSET Linked(m, Thread)
  BY <1>1, ChainLinked
<1>3. /\ LoopEnd(m, list) = "ok" /\ Len(p) \in Nat \ {0}
      /\ m[p[1]].prev = head(list)
      /\ \A i \in 1..(Len(p) - 1) : p[i] \in S /\ m[p[i + 1]].prev = p[i]
  BY <1>1, <1>2, ChainWalk
<1>4. Last(p) = tail(list) /\ Last(p) = p[Len(p)]
  BY <1>3, LoopEnds DEF Last
<1>5. head(list) \notin Thread /\ tail(list) \notin Thread
  BY FromTo
<1>6. /\ lower # {} => r = [outcome |-> "ok", link |-> list_insert(m, p[Min(lower)], e)]
      /\ lower = {} => r = [outcome |-> "ok", link |-> list_insert(m, tail(list), e)]
  BY <1>3 DEF list_insert_ordered
<1> HIDE DEF p
<1>7. PICK n \in 1..Len(p) : /\ r.link = list_insert(m, p[n], e)
                             /\ n < Len(p) => pri[p[n]] < pri[e]
                             /\ \A j \in 1..(n - 1) : pri[p[j]] >= pri[e]
  <2>1. CASE lower # {}
    <3>1. lower \in SUBSET Nat
      BY <1>3
    <3>2. PICK i \in lower : \A k \in lower : i <= k
      BY <2>1, <3>1, LeastNat
    <3>3. Min(lower) = i
      BY <3>1, <3>2 DEF Min
    <3>4. i \in 1..(Len(p) - 1) /\ pri[e] > pri[p[i]] /\ i \in 1..Len(p)
      BY <1>3, <3>2
    <3>5. r.link = list_insert(m, p[i], e)
      BY <1>6, <2>1, <3>3
    <3>6. ASSUME NEW j \in 1..(i - 1) PROVE pri[p[j]] >= pri[e]
      <4>1. j \in 1..(Len(p) - 1) /\ j \notin lower
        BY <1>3, <3>2, <3>4
      <4>2. p[j] \in Thread
        BY <1>3, <4>1
      <4> QED BY <4>1, <4>2
    <3>7. p[i] \in Thread
      BY <1>3, <3>4
    <3> HIDE DEF lower
    <3> QED BY <3>4, <3>5, <3>6, <3>7
  <2>2. CASE lower = {}
    <3>1. Len(p) \in 1..Len(p) /\ r.link = list_insert(m, p[Len(p)], e)
      BY <1>3, <1>4, <1>6, <2>2
    <3>2. ASSUME NEW j \in 1..(Len(p) - 1) PROVE pri[p[j]] >= pri[e]
      <4>1. p[j] \in Thread /\ j \notin lower
        BY <1>3, <2>2
      <4> QED BY <4>1
    <3> QED BY <1>3, <3>1, <3>2
  <2> QED BY <2>1, <2>2
<1>8. p[n] \in S \union {tail(list)} /\ (p[n] \in Thread => n < Len(p))
  BY <1>3, <1>4, <1>5
<1>9. m[p[n]].prev \in Thread => pri[m[p[n]].prev] >= pri[e]
  <2>1. CASE n = 1
    BY <1>3, <1>5, <2>1
  <2>2. CASE n # 1
    <3>1. PICK j \in 1..(n - 1) : n = j + 1
      <4>1. n - 1 \in 1..(n - 1) /\ n = (n - 1) + 1
        BY <1>3, <2>2
      <4> QED BY <4>1
    <3>2. j \in 1..(Len(p) - 1)
      BY <1>3, <3>1
    <3>3. m[p[n]].prev = p[j]
      BY <1>3, <3>1, <3>2
    <3> QED BY <1>7, <3>1, <3>3
  <2> QED BY <2>1, <2>2
<1> QED BY <1>7, <1>8, <1>9

\* So a list that falls in priority still does.
LEMMA InsertFalls ==
  ASSUME NEW m, LinkOK(m), NEW list \in ThreadList, NEW S \in SUBSET Thread, Whole(m, list, S),
         NEW e \in Thread \ S, NEW pri \in [Thread -> Int], Falls(m, S, pri),
         NEW r \in list_insert_ordered(m, list, e, pri)
  PROVE  Falls(r.link, S \union {e}, pri)
<1>1. PICK b \in S \union {tail(list)} :
          /\ r.link = list_insert(m, b, e)
          /\ b \in Thread => pri[b] < pri[e]
          /\ m[b].prev \in Thread => pri[m[b].prev] >= pri[e]
  BY OrderedPlace
<1>2. IsSide(Thread, ThreadList) /\ S \in SUBSET Linked(m, Thread) /\ tail(list) \notin Thread
  BY ThreadLists, ChainLinked, FromTo
<1>3. b \in Linked(m, Thread) \union Ends(ThreadList) /\ e # b
  BY <1>1, <1>2 DEF Ends
<1>4. PICK k : k = list_insert(m, b, e)
  OBVIOUS
<1>5. \A n \in Node : k[n].next = IF n = m[b].prev THEN e ELSE IF n = e THEN b ELSE m[n].next
  BY <1>2, <1>3, <1>4, InsertSound
<1>6. m[b].prev # e
  <2>1. m[b].prev \in S \union {head(list)}
    BY <1>1 DEF Whole, Chain
  <2> QED BY <2>1, FromTo
<1>7. ASSUME NEW a \in S \union {e}, k[a].next \in Thread
      PROVE  pri[k[a].next] <= pri[a]
  <2>1. a \in Thread /\ a \in Node
    BY FromTo
  <2>2. CASE a = e
    BY <1>1, <1>5, <1>6, <1>7, <2>1, <2>2
  <2>3. CASE a # e /\ a = m[b].prev
    BY <1>1, <1>5, <2>1, <2>3
  <2>4. CASE a # e /\ a # m[b].prev
    BY <1>5, <1>7, <2>1, <2>4 DEF Falls
  <2> QED BY <2>2, <2>3, <2>4
<1> QED BY <1>1, <1>4, <1>7 DEF Falls

\* The same when its front is taken off.
LEMMA PopFalls ==
  ASSUME NEW m, LinkOK(m), NEW list \in ThreadList, NEW S \in SUBSET Thread, Whole(m, list, S),
         NEW pri, Falls(m, S, pri), NEW e \in S, e = begin(m, list)
  PROVE  Falls(list_remove(m, e), S \ {e}, pri)
<1>1. IsSide(Thread, ThreadList) /\ S \in SUBSET Linked(m, Thread)
  BY ThreadLists, ChainLinked
<1>2. m[e].prev = head(list)
  BY DEF Whole, Chain, begin
<1>3. PICK k : k = list_remove(m, e)
  OBVIOUS
<1>4. \A n \in Node : k[n].next = IF n = m[e].prev THEN m[e].next ELSE m[n].next
  <2>1. e \in Linked(m, Thread)
    BY <1>1
  <2> QED BY <1>1, <1>3, <2>1, RemoveSound
<1>5. \A a \in S : k[a].next = m[a].next
  BY <1>2, <1>4, FromTo
<1> QED BY <1>3, <1>5 DEF Falls

\* schedule().
LEMMA ScheduleFalls ==
  ASSUME NEW m, NEW st \in [Thread -> Status], NEW sleepers \in SUBSET Thread,
         Tidy(m, Ready(st), sleepers), NEW pri, Falls(m, Ready(st), pri), schedule(m, st)
  PROVE  Falls(link', Ready(status'), pri)
<1>1. PICK S \in SUBSET Thread : S = Ready(st)
  BY DEF Ready
<1>2. Tidy(m, S, sleepers) /\ Falls(m, S, pri)
  BY <1>1
<1>3. begin(m, ready_list) \in S \union {tail(ready_list)}
  BY <1>2, PopTidy
<1>4. CASE begin(m, ready_list) = tail(ready_list)
  <2>1. status' = st /\ link' = m
    BY <1>4, QueueTail DEF schedule
  <2> QED BY <2>1
<1>5. CASE begin(m, ready_list) \in S
  <2>1. PICK e \in S : e = begin(m, ready_list)
    BY <1>5
  <2>2. e \in Thread /\ e # tail(ready_list)
    BY <2>1, QueueTail
  <2>3. status' = [st EXCEPT ![e] = "RUNNING"] /\ link' = list_remove(m, e)
    BY <2>1, <2>2 DEF schedule
  <2>4. LinkOK(m) /\ ready_list \in ThreadList /\ Whole(m, ready_list, S)
    BY <1>2, ThreadLists DEF Tidy
  <2>5. Falls(list_remove(m, e), S \ {e}, pri)
    BY <1>2, <2>1, <2>4, PopFalls
  <2>6. Ready(status') = S \ {e}
    BY <1>1, <2>2, <2>3 DEF Ready
  <2> QED BY <2>3, <2>5, <2>6
<1> QED BY <1>3, <1>4, <1>5

\* thread_yield.
LEMMA YieldFalls ==
  ASSUME NEW m, NEW st \in [Thread -> Status], NEW pri \in [Thread -> Int],
         NEW sleepers \in SUBSET Thread, Tidy(m, Ready(st), sleepers),
         \A t \in sleepers : st[t] = "BLOCKED", cur \in Thread \union {Idle},
         \A t \in Running : st[t] = "RUNNING", Falls(m, Ready(st), pri), thread_yield(m, st, pri)
  PROVE  Falls(link', Ready(status'), pri)
<1>1. CASE cur = Idle
  BY <1>1, ScheduleFalls DEF thread_yield
<1>2. CASE cur # Idle
  <2>1. PICK me \in Thread : me = cur
    BY <1>2
  <2>2. st[me] = "RUNNING"
    BY <2>1 DEF Running
  <2>3. PICK new : new = [st EXCEPT ![me] = "READY"]
    OBVIOUS
  <2>4. PICK r \in list_insert_ordered(m, ready_list, me, pri) :
            IF r.outcome = "ok" THEN schedule(r.link, new) ELSE Stop(r.outcome)
    BY <1>2, <2>1, <2>3 DEF thread_yield
  <2>5. PICK S \in SUBSET Thread : S = Ready(st)
    BY DEF Ready
  <2>6. me \in Thread \ (S \union sleepers) /\ Tidy(m, S, sleepers) /\ Falls(m, S, pri)
    BY <2>2, <2>5 DEF Ready
  <2>7. PICK k : k = r.link
    OBVIOUS
  <2>8. PICK T \in SUBSET Thread : T = S \union {me}
    OBVIOUS
  <2>9. r.outcome = "ok" /\ Tidy(k, T, sleepers)
    BY <2>4, <2>6, <2>7, <2>8, InsertTidy
  <2>10. Falls(k, T, pri)
    <3>1. LinkOK(m) /\ ready_list \in ThreadList /\ Whole(m, ready_list, S) /\ me \in Thread \ S
      BY <2>6, ThreadLists DEF Tidy
    <3>2. Falls(r.link, S \union {me}, pri)
      BY <2>4, <2>6, <3>1, InsertFalls
    <3> QED BY <2>7, <2>8, <3>2
  <2>11. Ready(new) = T /\ new \in [Thread -> Status]
    BY <2>3, <2>5, <2>8 DEF Ready, Status
  <2>12. schedule(k, new) /\ Tidy(k, Ready(new), sleepers) /\ Falls(k, Ready(new), pri)
    BY <2>4, <2>7, <2>9, <2>10, <2>11
  <2> QED BY <2>11, <2>12, ScheduleFalls
<1> QED BY <1>1, <1>2

\* check_preemption.
LEMMA CheckFalls ==
  ASSUME NEW m, NEW st \in [Thread -> Status], NEW pri \in [Thread -> Int],
         NEW sleepers \in SUBSET Thread, Tidy(m, Ready(st), sleepers),
         \A t \in sleepers : st[t] = "BLOCKED", cur \in Thread \union {Idle},
         \A t \in Running : st[t] = "RUNNING", Falls(m, Ready(st), pri),
         check_preemption(m, st, pri)
  PROVE  Falls(link', Ready(status'), pri)
<1>1. \/ thread_yield(m, st, pri)
      \/ link' = m /\ status' = st
  BY DEF check_preemption
<1>2. CASE thread_yield(m, st, pri)
  BY <1>2, YieldFalls
<1>3. CASE link' = m /\ status' = st
  BY <1>3
<1> QED BY <1>1, <1>2, <1>3

\* Only the priorities of the threads on the list matter, and the pointers
\* between them.
LEMMA OtherFalls ==
  ASSUME NEW m, NEW S \in SUBSET Thread, Whole(m, ready_list, S), NEW pri, Falls(m, S, pri),
         NEW r, \A n \in From : r[n].next = m[n].next,
         NEW new, \A t \in S : new[t] = pri[t]
  PROVE  Falls(r, S, new)
<1>1. \A a \in S : r[a].next = m[a].next /\ m[a].next \in S \union {tail(ready_list)}
  BY FromTo DEF Whole, Chain
<1> QED BY <1>1, QueueTail DEF Falls

InOrder == Falls(link, Ready(status), priority)

\* lock_acquire of a lock that is free changes neither queue nor priorities.
LEMMA AcquireFreeInOrder ==
  ASSUME LockInv, NoTry, NEW sleepers \in SUBSET Thread, NEW W, Free(sleepers, W), InOrder,
         NEW l \in Lock, AcquireFree(l)
  PROVE  InOrder'
<1>0. OwnerInv /\ DataOK /\ cur \in Thread /\ holder[l] = NULL /\ UNCHANGED priority
  BY AtRuns DEF AcquireFree, LockInv
<1>1. PICK me \in Thread : me = cur
  BY <1>0
<1>2. Owners(l) = {}
  BY <1>0, Distinct DEF Owners, NoTry
<1>3. value[l] # 0
  <2>1. \A t \in Thread : {t} # {}
    OBVIOUS
  <2>2. value[l] = 1 \/ \E t \in Thread : Owners(l) = {t}
    BY <1>0 DEF OwnerInv
  <2> QED BY <1>2, <2>1, <2>2
<1>4. link' = list_push_back(link, locks_held(me), l) /\ status' = status
  BY <1>1, <1>3 DEF AcquireFree, sema_down_loop, take
<1>5. PICK m : m = link
  OBVIOUS
<1>6. PICK r : r = list_push_back(m, locks_held(me), l)
  OBVIOUS
<1>7. PICK S \in SUBSET Thread : S = Ready(status)
  BY DEF Ready
<1>8. PICK pri : pri = priority
  OBVIOUS
<1>9. Whole(m, ready_list, S) /\ Falls(m, S, pri) /\ LinkOK(m)
  BY <1>5, <1>7, <1>8 DEF Free, Tidy, InOrder
<1>10. \A n \in From : r[n].next = m[n].next
  BY <1>6, <1>9, LockLinks
<1>11. Falls(r, S, pri)
  BY <1>9, <1>10, OtherFalls
<1> QED BY <1>0, <1>4, <1>5, <1>6, <1>7, <1>8, <1>11 DEF InOrder

\* lock_release finds nobody waiting, and may yield.
LEMMA ReleaseInOrder ==
  ASSUME LockInv, HeldInv, NEW sleepers \in SUBSET Thread, NEW W, Free(sleepers, W), InOrder,
         NEW l \in Lock, LockRelease(l)
  PROVE  InOrder'
<1>0. /\ OwnerInv /\ DataOK /\ WaitInv /\ cur \in Thread /\ outcome = "ok"
      /\ holder[l] = cur /\ UNCHANGED priority
  BY AtRuns DEF LockRelease, LockInv
<1>1. PICK me \in Thread : me = cur
  BY <1>0
<1>2. PICK S \in SUBSET Thread : S = Ready(status)
  BY DEF Ready
<1>3. Tidy(link, S, sleepers) /\ LinkOK(link) /\ Whole(link, ready_list, S)
  BY <1>0, <1>2 DEF Free, DataOK, Tidy
<1>4. PICK m : m = list_remove(link, l)
  OBVIOUS
<1>5. is_interior(link, l)
  BY <1>0, <1>1, UnheldHeld
<1>6. /\ LinkOK(m) /\ \A n \in From : m[n].next = link[n].next
      /\ \A n \in To : m[n].prev = link[n].prev
  BY <1>3, <1>4, <1>5, LockLinks
<1>7. Tidy(m, S, sleepers)
  BY <1>3, <1>6, SameTidy
<1>8. /\ begin(m, sema_waiters(l)) = tail(sema_waiters(l))
      /\ LoopEnd(m, waiters(l)) = "ok" /\ OnList(m, waiters(l)) = {}
  <2>1. /\ waiters(l) \in ThreadList \ {ready_list} /\ On(waiters(l), sleepers) = {}
        /\ sema_waiters(l) \in ThreadList \ {ready_list} /\ On(sema_waiters(l), sleepers) = {}
    BY OnFacts
  <2> QED BY <1>7, <2>1, TidyEmpty
<1>9. unheld(l).outcome = "ok" /\ unheld(l).link = m
  <2>1. unheld(l) = [outcome |-> "ok", link |-> m]
    BY <1>4, <1>5, <1>8 DEF unheld
  <2> QED BY <2>1
<1>10. PICK r \in sema_up(m, l) :
           IF r.outcome = "ok" THEN check_preemption(r.link, r.status, priority)
           ELSE Stop(r.outcome)
  BY <1>9 DEF LockRelease
<1>11. r = [outcome |-> "ok", link |-> m, status |-> status]
  <2>1. tail(sema_waiters(l)) \notin Thread
    BY QueueTail, ThreadLists, Distinct
  <2> QED BY <1>8, <1>10, <2>1 DEF sema_up, empty
<1>12. PICK st \in [Thread -> Status] : st = status
  BY <1>0 DEF DataOK
<1>13. PICK pri \in [Thread -> Int] : pri = priority
  BY <1>0, PriorityIsInt DEF DataOK
<1>14. check_preemption(m, st, pri)
  BY <1>10, <1>11, <1>12, <1>13
<1>15. /\ Tidy(m, Ready(st), sleepers) /\ \A t \in Running : st[t] = "RUNNING"
       /\ \A t \in sleepers : st[t] = "BLOCKED"
  BY <1>0, <1>2, <1>7, <1>12 DEF WaitInv, Free
<1>16. Falls(m, S, pri)
  <2>1. PICK k : k = link
    OBVIOUS
  <2>2. /\ Whole(k, ready_list, S) /\ Falls(k, S, pri)
        /\ \A n \in From : m[n].next = k[n].next
    BY <1>2, <1>3, <1>6, <1>13, <2>1 DEF InOrder
  <2> QED BY <2>2, OtherFalls
<1>17. Falls(m, Ready(st), pri)
  BY <1>2, <1>12, <1>16
<1>18. Falls(link', Ready(status'), pri)
  BY <1>0, <1>14, <1>15, <1>17, CheckFalls
<1> QED BY <1>0, <1>13, <1>18 DEF InOrder

\* Priorities change only at the thread that runs, which is not on the queue.
LEMMA OwnPriority ==
  ASSUME LockInv, NEW sleepers \in SUBSET Thread, NEW W, Free(sleepers, W), InOrder,
         NEW me \in Thread, me = cur, NEW pri,
         \A t \in Thread \ {me} : pri[t] = priority[t]
  PROVE  Falls(link, Ready(status), pri)
<1>1. PICK m : m = link
  OBVIOUS
<1>2. PICK S \in SUBSET Thread : S = Ready(status)
  BY DEF Ready
<1>3. PICK old : old = priority
  OBVIOUS
<1>4. Whole(m, ready_list, S) /\ Falls(m, S, old)
  BY <1>1, <1>2, <1>3 DEF Free, Tidy, InOrder
<1>5. me \notin S
  <2>1. WaitInv /\ outcome = "ok"
    BY DEF LockInv, Free
  <2>2. status[me] = "RUNNING"
    BY <2>1 DEF WaitInv, Running
  <2> QED BY <1>2, <2>2 DEF Ready
<1>6. \A t \in S : pri[t] = old[t]
  BY <1>3, <1>5
<1>7. Falls(m, S, pri)
  BY <1>4, <1>6, OtherFalls
<1> QED BY <1>1, <1>2, <1>7

\* check_preemption after lock_release or thread_set_priority.
LEMMA CheckInOrder ==
  ASSUME LockInv, HeldInv, NEW sleepers \in SUBSET Thread, NEW W, Free(sleepers, W), InOrder,
         Refresh \/ Check
  PROVE  InOrder'
<1>0. OwnerInv /\ DataOK /\ WaitInv /\ cur \in Thread /\ outcome = "ok"
  BY CheckLeaves DEF Refresh, Check, At, LockInv
<1>1. PICK m : m = link
  OBVIOUS
<1>2. PICK st \in [Thread -> Status] : st = status
  BY <1>0 DEF DataOK
<1>3. PICK me \in Thread : me = cur
  BY <1>0
<1>4. PICK pri \in [Thread -> Int] : pri = priority'
  <2>1. priority' \in [Thread -> Int]
    <3>1. CASE Refresh
      BY <1>0, <3>1, RefreshStepTypes, PriorityIsInt DEF DataOK
    <3>2. CASE Check
      BY <1>0, <3>2, PriorityIsInt DEF Check, DataOK
    <3> QED BY <3>1, <3>2
  <2> QED BY <2>1
<1>5. /\ check_preemption(m, st, pri)
      /\ \A t \in Thread \ {me} : pri[t] = priority[t]
  <2>1. CASE Refresh
    <3>2. ASSUME NEW list \in refresh_lists(cur)
          PROVE  LoopEnd(link, list) = "ok"
      <4>1. LoopEnd(link, locks_held(cur)) = "ok" /\ OnList(link, locks_held(cur)) \subseteq Lock
        BY <1>0, HeldIsListed DEF Held
      <4>2. ASSUME NEW l \in Lock PROVE LoopEnd(link, waiters(l)) = "ok"
        <5>1. Tidy(link, Ready(status), sleepers)
          BY DEF Free
        <5> QED BY <5>1, OnFacts, TidyEmpty
      <4> QED BY <4>1, <4>2 DEF refresh_lists
    <3>3. locks_held(cur) \in refresh_lists(cur)
      BY DEF refresh_lists
    <3>4. {LoopEnd(link, list) : list \in refresh_lists(cur)} = {"ok"}
      BY <3>2, <3>3
    <3>5. check_preemption(m, st, priority') /\ priority' = [priority EXCEPT ![me] = refreshed(me)]
      BY <1>1, <1>2, <1>3, <2>1, <3>4 DEF Refresh
    <3>6. check_preemption(m, st, pri)
      BY <1>4, <3>5, CheckConstant
    <3>7. \A t \in Thread \ {me} : pri[t] = priority[t]
      BY <1>0, <1>4, <3>5 DEF DataOK
    <3> QED BY <3>6, <3>7
  <2>2. CASE Check
    BY <1>1, <1>2, <1>4, <2>2 DEF Check
  <2> QED BY <2>1, <2>2
<1>6. /\ Tidy(m, Ready(st), sleepers) /\ \A t \in Running : st[t] = "RUNNING"
      /\ \A t \in sleepers : st[t] = "BLOCKED"
  BY <1>0, <1>1, <1>2 DEF WaitInv, Free
<1>7. Falls(m, Ready(st), pri)
  <2>1. Falls(link, Ready(status), pri)
    BY <1>3, <1>5, OwnPriority
  <2> QED BY <1>1, <1>2, <2>1
<1>8. Falls(link', Ready(status'), pri)
  BY <1>0, <1>5, <1>6, <1>7, CheckFalls
<1> QED BY <1>4, <1>8 DEF InOrder

\* The timer.
LEMMA InterruptInOrder ==
  ASSUME LockInv, NEW sleepers \in SUBSET Thread, NEW W, Free(sleepers, W), InOrder, Interrupt
  PROVE  InOrder'
<1>0. OwnerInv /\ DataOK /\ WaitInv /\ outcome = "ok" /\ cur \in Thread \union {Idle}
  BY DEF Interrupt, TimerWakeup, Preempt, IntrOn, LockInv, OwnerInv
<1>1. PICK m : m = link
  OBVIOUS
<1>2. PICK st \in [Thread -> Status] : st = status
  BY <1>0 DEF DataOK
<1>3. PICK pri \in [Thread -> Int] : pri = priority
  BY <1>0, PriorityIsInt DEF DataOK
<1>4. /\ Tidy(m, Ready(st), sleepers) /\ \A t \in sleepers : st[t] = "BLOCKED"
      /\ Falls(m, Ready(st), pri)
  BY <1>1, <1>2, <1>3 DEF Free, InOrder
<1>5. CASE Preempt
  <2>1. thread_yield(m, st, pri) /\ priority' = pri
    BY <1>1, <1>2, <1>3, <1>5 DEF Preempt, threadVars
  <2>2. \A t \in Running : st[t] = "RUNNING"
    BY <1>0, <1>2 DEF WaitInv
  <2>3. Falls(link', Ready(status'), pri)
    BY <1>0, <1>4, <2>1, <2>2, YieldFalls
  <2> QED BY <2>1, <2>3 DEF InOrder
<1>6. ASSUME NEW t \in Thread, TimerWakeup(t)
      PROVE  InOrder'
  <2>1. PICK r \in list_insert_ordered(m, ready_list, t, pri) :
            outcome' = r.outcome /\ link' = r.link
    BY <1>1, <1>3, <1>6 DEF TimerWakeup
  <2>2. /\ pc[t] = "asleep" /\ priority' = pri
        /\ status' = [st EXCEPT ![t] = "READY"]
    BY <1>2, <1>3, <1>6 DEF TimerWakeup
  <2>3. PICK S \in SUBSET Thread : S = Ready(st)
    BY DEF Ready
  <2>4. /\ t \in Thread \ S /\ LinkOK(m) /\ ready_list \in ThreadList
        /\ Whole(m, ready_list, S) /\ Falls(m, S, pri)
    <3>1. t \notin S
      BY <1>2, <2>2, <2>3 DEF Free, Ready
    <3> QED BY <1>4, <2>3, <3>1, ThreadLists DEF Tidy
  <2>5. Falls(r.link, S \union {t}, pri)
    BY <2>1, <2>4, InsertFalls
  <2>6. Ready(status') = S \union {t}
    BY <2>2, <2>3 DEF Ready
  <2> QED BY <2>1, <2>2, <2>5, <2>6 DEF InOrder
<1> QED BY <1>5, <1>6 DEF Interrupt

\* thread_set_priority.
LEMMA SetPriorityInOrder ==
  ASSUME LockInv, NEW sleepers \in SUBSET Thread, NEW W, Free(sleepers, W), InOrder,
         NEW pri, ThreadSetPriority(pri)
  PROVE  InOrder'
<1>1. OwnerInv /\ DataOK
  BY DEF LockInv
<1>2. /\ cur \in Thread /\ priority' = [priority EXCEPT ![cur] = pri]
      /\ UNCHANGED <<link, status>>
  BY <1>1, AtRuns DEF ThreadSetPriority
<1>3. PICK me \in Thread : me = cur
  BY <1>2
<1>4. PICK new : new = priority'
  OBVIOUS
<1>5. \A t \in Thread \ {me} : new[t] = priority[t]
  BY <1>1, <1>2, <1>3, <1>4 DEF DataOK
<1>6. Falls(link, Ready(status), new)
  BY <1>3, <1>5, OwnPriority
<1> QED BY <1>2, <1>4, <1>6 DEF InOrder

\* Every step, if lock_try_acquire is not used.
LEMMA NextInOrder ==
  ASSUME TryLock = {}, LockInv, HeldInv, NoTry, NEW sleepers \in SUBSET Thread, NEW W,
         Free(sleepers, W), InOrder, SemaDown => cur \notin W, Next, ~Contended'
  PROVE  InOrder'
<1>0. OwnerInv /\ DataOK
  BY DEF LockInv
<1>1. ASSUME NEW l \in Lock, AcquireHeld(l) PROVE FALSE
  <2>1. cur \in Thread /\ waiting_lock' = [waiting_lock EXCEPT ![cur] = l]
    BY <1>0, <1>1, AtRuns DEF AcquireHeld
  <2>2. waiting_lock'[cur] = l /\ l # NULL
    BY <1>0, <2>1, Distinct DEF DataOK
  <2> QED BY <2>1, <2>2 DEF Contended
<1>2. CASE Call
  BY <1>1, <1>2, AcquireFreeInOrder, ReleaseInOrder, SetPriorityInOrder DEF Call
<1>3. CASE SemaDown
  <2>1. cur \in Thread /\ pc[cur] \in {"wait", "sema_down"}
    BY <1>0, <1>3, AtRuns DEF SemaDown
  <2> QED BY <1>3, <2>1 DEF Free
<1>4. CASE Continue
  <2>1. ~TryOwn
    BY <1>0, AtRuns DEF TryOwn, NoTry
  <2> QED BY <1>4, <2>1, CheckInOrder DEF Continue
<1> QED BY <1>2, <1>3, <1>4, InterruptInOrder DEF Next

\* What falls from each element to the next falls along the whole list.
LEMMA FallsAlong ==
  ASSUME NEW m, LinkOK(m), NEW S \in SUBSET Thread, Whole(m, ready_list, S),
         NEW pri \in [Thread -> Int], Falls(m, S, pri)
  PROVE  LET q == Front(path(m, ready_list))
         IN \A i, j \in DOMAIN q : i < j => pri[q[i]] >= pri[q[j]]
<1> DEFINE p == path(m, ready_list)
           q == Front(p)
<1>1. IsSide(Thread, ThreadList) /\ ready_list \in ThreadList
  BY ThreadLists
<1>2. S \in SUBSET Linked(m, Thread)
  BY <1>1, ChainLinked
<1>3. PICK rank : Chain(m, ready_list, S, rank)
  BY DEF Whole
<1>4. /\ Len(p) \in Nat \ {0}
      /\ \A i \in 1..(Len(p) - 1) : p[i] \in S /\ p[i + 1] = m[p[i]].next
  <2>1. LET w == path(m, ready_list)
        IN /\ Len(w) \in Nat \ {0}
           /\ \A i \in 1..Len(w) : w[i] \in S \union {tail(ready_list)}
           /\ \A i \in 1..(Len(w) - 1) : w[i] \in S /\ w[i + 1] = m[w[i]].next
           /\ \A j \in 1..Len(w) : \A i \in 1..(j - 1) : rank[w[i]] < rank[w[j]]
    BY <1>1, <1>2, <1>3, WalkRises
  <2> QED BY <2>1
<1>5. DOMAIN q = 1..(Len(p) - 1) /\ \A i \in 1..(Len(p) - 1) : q[i] = p[i]
  <2>1. p \in Walks(m, ready_list, Thread, ThreadList)
    BY <1>1, PathWalks
  <2>2. PICK V : p \in Seq(V) /\ p # <<>>
    BY <2>1 DEF Walks
  <2> HIDE DEF p
  <2>3. Len(q) = Len(p) - 1 /\ q \in Seq(V) /\ \A i \in 1..(Len(p) - 1) : q[i] = p[i]
    BY <2>2, FrontFacts
  <2> HIDE DEF q
  <2>4. DOMAIN q = 1..Len(q)
    BY <2>3
  <2> QED BY <2>3, <2>4
<1> HIDE DEF p, q
<1> DEFINE T == {n \in Nat : n + 1 <= Len(p) - 1 =>
                                 \A i \in 1..n : pri[p[i]] >= pri[p[n + 1]]}
<1>6. 0 \in T
  OBVIOUS
<1>7. ASSUME NEW n \in Nat, n \in T
      PROVE  n + 1 \in T
  <2> SUFFICES ASSUME n + 2 <= Len(p) - 1, NEW i \in 1..(n + 1)
               PROVE  pri[p[i]] >= pri[p[n + 2]]
    BY <1>4
  <2>1. /\ n + 1 \in 1..(Len(p) - 1) /\ (n + 1) + 1 = n + 2 /\ n + 1 <= Len(p) - 1
        /\ n + 2 \in 1..(Len(p) - 1) /\ i \in 1..(Len(p) - 1)
    BY <1>4
  <2>2. p[n + 1] \in S /\ p[n + 2] \in S /\ p[i] \in S /\ p[n + 2] = m[p[n + 1]].next
    BY <1>4, <2>1
  <2>3. pri[p[n + 2]] <= pri[p[n + 1]]
    BY <2>2 DEF Falls
  <2>4. pri[p[n + 2]] \in Int /\ pri[p[n + 1]] \in Int /\ pri[p[i]] \in Int
    BY <2>2
  <2>5. CASE i = n + 1
    BY <2>3, <2>4, <2>5
  <2>6. CASE i # n + 1
    <3>1. i \in 1..n
      BY <2>6
    <3>2. pri[p[i]] >= pri[p[n + 1]]
      BY <1>7, <2>1, <3>1
    <3> QED BY <2>3, <2>4, <3>2
  <2> QED BY <2>5, <2>6
<1> HIDE DEF T
<1>8. Nat \subseteq T
  BY <1>6, <1>7, NatSetInduction
<1>9. ASSUME NEW i \in DOMAIN q, NEW j \in DOMAIN q, i < j
      PROVE  pri[q[i]] >= pri[q[j]]
  <2>1. i \in 1..(Len(p) - 1) /\ j \in 1..(Len(p) - 1) /\ q[i] = p[i] /\ q[j] = p[j]
    BY <1>5
  <2>2. j - 1 \in Nat /\ (j - 1) + 1 = j /\ j <= Len(p) - 1 /\ i \in 1..(j - 1)
    BY <1>4, <1>9, <2>1
  <2>3. j - 1 \in T
    BY <1>8, <2>2
  <2>4. \A k \in 1..(j - 1) : pri[p[k]] >= pri[p[j]]
    BY <2>2, <2>3 DEF T
  <2> QED BY <2>1, <2>2, <2>4
<1> QED BY <1>9 DEF p, q

\* FreeInv with the order.
FreeOrder == FreeInv /\ (Contended \/ InOrder)

\* The order is an invariant as long as no lock is found held.
LEMMA FreeOrderHolds ==
  ASSUME TryLock = {}
  PROVE  Spec => []FreeOrder
<1>1. Init => FreeOrder
  <2> SUFFICES ASSUME Init PROVE FreeInv /\ InOrder
    BY DEF FreeOrder
  <2>1. FreeInv
    BY InitLockInv, InitHeld, InitFree DEF FreeInv
  <2>2. status = [t \in Thread |-> IF t = cur THEN "RUNNING" ELSE "BLOCKED"]
    BY DEF Init
  <2>3. Ready(status) = {}
    BY <2>2 DEF Ready
  <2> QED BY <2>1, <2>3 DEF InOrder, Falls
<1>2. FreeOrder /\ [Next]_vars /\ FreeInv' => FreeOrder'
  <2> SUFFICES ASSUME FreeOrder, [Next]_vars, FreeInv' PROVE Contended' \/ InOrder'
    BY DEF FreeOrder
  <2>1. /\ FreeInv /\ LockInv /\ HeldInv /\ NoTry
        /\ ~Contended' => ~Contended /\ Free({}, {}) /\ InOrder
    <3>1. FreeInv /\ LockInv /\ HeldInv /\ NoTry
      BY DEF FreeOrder, FreeInv
    <3>2. Contended => Contended'
      BY <3>1, NextWaits DEF Contended
    <3> QED BY <3>1, <3>2 DEF FreeOrder, FreeInv
  <2>2. ASSUME Free({}, {}), InOrder, ~Contended', Next
        PROVE  InOrder'
    <3>1. {} \in SUBSET Thread /\ (SemaDown => cur \notin {})
      OBVIOUS
    <3> QED BY <2>1, <2>2, <3>1, NextInOrder
  <2>3. ASSUME InOrder, UNCHANGED vars
        PROVE  InOrder'
    BY <2>3 DEF vars, threadVars, InOrder
  <2> QED BY <2>1, <2>2, <2>3
<1> QED BY <1>1, <1>2, FreeInvHolds, PTL DEF Spec

\* Until a lock is first found held the run queue falls in priority, whatever
\* thread_set_priority is called with and whenever the timer interrupts, as
\* long as nobody uses lock_try_acquire: the part of DisorderByDonation
\* about queues that no donation can have reached.
THEOREM FreeQueueOrdered ==
  ASSUME TryLock = {}
  PROVE  Spec => [](~Contended => \A i, j \in DOMAIN Queue :
                                      i < j => priority[Queue[i]] >= priority[Queue[j]])
<1>1. FreeOrder => (~Contended => \A i, j \in DOMAIN Queue :
                                      i < j => priority[Queue[i]] >= priority[Queue[j]])
  <2> SUFFICES ASSUME FreeOrder, ~Contended
               PROVE  \A i, j \in DOMAIN Queue :
                          i < j => priority[Queue[i]] >= priority[Queue[j]]
    OBVIOUS
  <2>1. Free({}, {}) /\ InOrder /\ DataOK
    BY DEF FreeOrder, FreeInv, LockInv
  <2>2. PICK m : m = link
    OBVIOUS
  <2>3. PICK S \in SUBSET Thread : S = Ready(status)
    BY DEF Ready
  <2>4. PICK pri \in [Thread -> Int] : pri = priority
    BY <2>1, PriorityIsInt DEF DataOK
  <2>5. LinkOK(m) /\ Whole(m, ready_list, S) /\ Falls(m, S, pri)
    BY <2>1, <2>2, <2>3, <2>4 DEF Free, Tidy, InOrder
  <2>6. PICK q : q = Front(path(m, ready_list))
    OBVIOUS
  <2>7. \A i, j \in DOMAIN q : i < j => pri[q[i]] >= pri[q[j]]
    BY <2>5, <2>6, FallsAlong
  <2>8. Queue = q
    BY <2>2, <2>6 DEF Queue
  <2> QED BY <2>4, <2>7, <2>8
<1> QED BY <1>1, FreeOrderHolds, PTL

=============================================================================
