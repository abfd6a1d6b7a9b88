---------------------------- MODULE QueueLemmas ----------------------------
(***************************************************************************)
(* What list_pop_front, list_push_back and list_remove do to the contents  *)
(* of a list, as the sequence of its elements.                             *)
(***************************************************************************)
EXTENDS Integers, SequencesExt, SequenceTheorems, WellFoundedInduction, TLAPS

\* A non-empty set of naturals has a least element.
LEMMA LeastNat ==
  ASSUME NEW T \in SUBSET Nat, T # {}
  PROVE  \E n \in T : \A m \in T : n <= m
<1>1. PICK n \in T : \A m \in T : <<m, n>> \notin OpToRel(<, Nat)
  BY NatLessThanWellFounded, WFMin
<1>2. \A m \in T : ~(m < n)
  BY <1>1 DEF OpToRel
<1> QED BY <1>2

\* Induction on the naturals, for a set of them.
LEMMA NatSetInduction ==
  ASSUME NEW T, 0 \in T, \A n \in Nat : n \in T => n + 1 \in T
  PROVE  Nat \subseteq T
<1> DEFINE U == Nat \ T
<1>1. ASSUME U # {}
      PROVE  FALSE
  <2>1. PICK n \in U : \A k \in U : n <= k
    BY <1>1, LeastNat
  <2>2. n \in Nat /\ n \notin T /\ n # 0
    OBVIOUS
  <2>3. n - 1 \in Nat /\ ~(n <= n - 1) /\ (n - 1) + 1 = n
    BY <2>2
  <2>4. n - 1 \in T
    BY <2>1, <2>3
  <2> QED BY <2>2, <2>3, <2>4
<1> QED BY <1>1

\* f is given by its first value and the step from one value to the next.
IsIteration(f, S, c, step, N) ==
    /\ f \in [0..N -> S]
    /\ f[0] = c
    /\ \A n \in 1..N : f[n] = step[f[n - 1]]

\* Such a function exists, up to any bound.
LEMMA Iterates ==
  ASSUME NEW S, NEW c \in S, NEW step \in [S -> S], NEW N \in Nat
  PROVE  \E f : IsIteration(f, S, c, step, N)
<1> DEFINE Solved(k) == \E f : IsIteration(f, S, c, step, k)
           T == {k \in Nat : Solved(k)}
<1>1. 0 \in T
  <2> DEFINE f == [n \in 0..0 |-> c]
  <2>1. f \in [0..0 -> S] /\ f[0] = c /\ 1..0 = {}
    OBVIOUS
  <2> QED BY <2>1 DEF IsIteration
<1>2. ASSUME NEW k \in Nat, k \in T
      PROVE  k + 1 \in T
  <2>0. PICK g : IsIteration(g, S, c, step, k)
    BY <1>2
  <2>1. g \in [0..k -> S] /\ g[0] = c /\ \A n \in 1..k : g[n] = step[g[n - 1]]
    BY <2>0 DEF IsIteration
  <2> DEFINE f == [n \in 0..(k + 1) |-> IF n <= k THEN g[n] ELSE step[g[k]]]
  <2>2. f \in [0..(k + 1) -> S]
    <3>1. g[k] \in S /\ step[g[k]] \in S
      BY <2>1
    <3>2. \A n \in 0..(k + 1) : n <= k => g[n] \in S
      BY <2>1
    <3> QED BY <3>1, <3>2
  <2>3. f[0] = c
    BY <2>1
  <2>4. ASSUME NEW n \in 1..(k + 1)
        PROVE  f[n] = step[f[n - 1]]
    <3>1. n - 1 \in 0..(k + 1) /\ n - 1 <= k /\ n \in 0..(k + 1)
      OBVIOUS
    <3>2. f[n - 1] = g[n - 1]
      BY <3>1
    <3>3. CASE n <= k
      BY <2>1, <3>1, <3>2, <3>3
    <3>4. CASE ~(n <= k)
      <4>1. n - 1 = k
        BY <3>4
      <4> QED BY <3>1, <3>2, <3>4, <4>1
    <3> QED BY <3>3, <3>4
  <2> HIDE DEF f
  <2> QED BY <2>2, <2>3, <2>4 DEF IsIteration
<1> HIDE DEF T
<1>3. Nat \subseteq T
  BY <1>1, <1>2, NatSetInduction
<1>4. N \in T
  BY <1>3
<1> QED BY <1>4 DEF T

\* There is only one such function.
LEMMA IteratesUnique ==
  ASSUME NEW N \in Nat, NEW f, NEW g, f[0] = g[0],
         \A n \in 1..N : f[n - 1] = g[n - 1] => f[n] = g[n]
  PROVE  \A n \in 0..N : f[n] = g[n]
<1> DEFINE T == {k \in Nat : k <= N => f[k] = g[k]}
<1>1. 0 \in T
  OBVIOUS
<1>2. ASSUME NEW k \in Nat, k \in T
      PROVE  k + 1 \in T
  <2>1. CASE k + 1 <= N
    <3>1. k + 1 \in 1..N /\ (k + 1) - 1 = k /\ k <= N
      BY <2>1
    <3> QED BY <1>2, <3>1
  <2> QED BY <2>1
<1> HIDE DEF T
<1>3. Nat \subseteq T
  BY <1>1, <1>2, NatSetInduction
<1> QED BY <1>3 DEF T

\* list_pop_front takes the front element off the list.
LEMMA PopSeq ==
  ASSUME NEW S, NEW list \in Seq(S), list # <<>>
  PROVE  /\ Head(list) \in S
         /\ Head(list) \in Range(list)
         /\ Tail(list) \in Seq(S)
         /\ IsInjective(list) =>
                /\ IsInjective(Tail(list))
                /\ \A t : t \in Range(Tail(list)) <=>
                              t \in Range(list) /\ t # Head(list)
<1> DEFINE n == Len(list)
           r == Tail(list)
<1>1. /\ n \in Nat \ {0} /\ DOMAIN list = 1..n
      /\ Head(list) \in S /\ Head(list) = list[1]
      /\ r \in Seq(S) /\ Len(r) = n - 1
      /\ \A j \in 1..(n - 1) : r[j] = list[j + 1]
  BY LenProperties, EmptySeq, HeadTailProperties
<1>2. DOMAIN r = 1..(n - 1)
  BY <1>1, LenProperties
<1> HIDE DEF n, r
<1>3. Head(list) \in Range(list)
  BY <1>1 DEF Range
<1>4. ASSUME IsInjective(list)
      PROVE  /\ IsInjective(r)
             /\ \A t : t \in Range(r) <=> t \in Range(list) /\ t # Head(list)
  <2>1. \A j, k \in 1..n : list[j] = list[k] => j = k
    BY <1>1, <1>4 DEF IsInjective
  <2>2. \A j, k \in 1..(n - 1) : r[j] = r[k] => j = k
    BY <1>1, <2>1
  <2>3. ASSUME NEW t, t \in Range(r)
        PROVE  t \in Range(list) /\ t # Head(list)
    <3>1. PICK j \in 1..(n - 1) : t = r[j]
      BY <1>2, <2>3 DEF Range
    <3>2. j + 1 \in 1..n /\ t = list[j + 1] /\ 1 \in 1..n /\ j + 1 # 1
      BY <1>1, <3>1
    <3> QED BY <1>1, <2>1, <3>2 DEF Range
  <2>4. ASSUME NEW t, t \in Range(list), t # Head(list)
        PROVE  t \in Range(r)
    <3>1. PICK j \in 1..n : t = list[j]
      BY <1>1, <2>4 DEF Range
    <3>2. j - 1 \in 1..(n - 1) /\ r[j - 1] = list[(j - 1) + 1] /\ (j - 1) + 1 = j
      BY <1>1, <2>4, <3>1
    <3> QED BY <1>2, <3>1, <3>2 DEF Range
  <2> QED BY <1>2, <2>2, <2>3, <2>4 DEF IsInjective
<1> QED BY <1>1, <1>3, <1>4 DEF r

\* What is left after list_pop_front was on the list.
LEMMA TailRange ==
  ASSUME NEW S, NEW list \in Seq(S), list # <<>>
  PROVE  Range(Tail(list)) \subseteq Range(list)
<1>1. /\ Tail(list) \in Seq(S) /\ Len(Tail(list)) = Len(list) - 1
      /\ \A j \in 1..Len(Tail(list)) : Tail(list)[j] = list[j + 1]
      /\ Len(list) \in Nat /\ DOMAIN list = 1..Len(list)
  BY LenProperties, HeadTailProperties
<1>2. DOMAIN Tail(list) = 1..Len(Tail(list))
  BY <1>1, LenProperties
<1>3. ASSUME NEW t \in Range(Tail(list))
      PROVE  t \in Range(list)
  <2>1. PICK j \in 1..Len(Tail(list)) : t = Tail(list)[j]
    BY <1>2 DEF Range
  <2>2. j + 1 \in DOMAIN list /\ t = list[j + 1]
    BY <1>1, <2>1
  <2> QED BY <2>2 DEF Range
<1> QED BY <1>3

\* list_push_back puts an element at the end.
LEMMA PushSeq ==
  ASSUME NEW S, NEW list \in Seq(S), NEW elem \in S
  PROVE  LET r == Append(list, elem)
         IN /\ r \in Seq(S)
            /\ r # <<>>
            /\ \A t : t \in Range(r) <=> t \in Range(list) \/ t = elem
            /\ IsInjective(list) /\ elem \notin Range(list) => IsInjective(r)
<1> DEFINE n == Len(list)
           r == Append(list, elem)
<1>1. /\ n \in Nat /\ DOMAIN list = 1..n
      /\ r \in Seq(S) /\ Len(r) = n + 1
      /\ \A j \in 1..n : r[j] = list[j]
      /\ r[n + 1] = elem
  BY LenProperties, AppendProperties
<1>2. DOMAIN r = 1..(n + 1)
  BY <1>1, LenProperties
<1> HIDE DEF n, r
<1>3. \A t : t \in Range(list) <=> \E j \in 1..n : t = list[j]
  BY <1>1 DEF Range
<1>4. \A t : t \in Range(r) <=> \E j \in 1..(n + 1) : t = r[j]
  BY <1>2 DEF Range
<1>5. ASSUME NEW t, t \in Range(r)
      PROVE  t \in Range(list) \/ t = elem
  <2>1. PICK j \in 1..(n + 1) : t = r[j]
    BY <1>4, <1>5
  <2>2. j \in 1..n \/ j = n + 1
    BY <1>1
  <2> QED BY <1>1, <1>3, <2>1, <2>2
<1>6. ASSUME NEW t, t \in Range(list) \/ t = elem
      PROVE  t \in Range(r)
  <2>1. n + 1 \in 1..(n + 1) /\ \A j \in 1..n : j \in 1..(n + 1)
    BY <1>1
  <2> QED BY <1>1, <1>3, <1>4, <1>6, <2>1
<1>7. ASSUME IsInjective(list), elem \notin Range(list)
      PROVE  IsInjective(r)
  <2>1. \A j, k \in 1..n : list[j] = list[k] => j = k
    BY <1>1, <1>7 DEF IsInjective
  <2>2. \A j \in 1..n : r[j] # elem
    BY <1>1, <1>3, <1>7
  <2>3. \A j \in 1..(n + 1) : j \in 1..n \/ j = n + 1
    BY <1>1
  <2>4. \A j, k \in 1..(n + 1) : r[j] = r[k] => j = k
    BY <1>1, <2>1, <2>2, <2>3
  <2> QED BY <1>2, <2>4 DEF IsInjective
<1>8. r # <<>>
  BY <1>1, EmptySeq
<1> QED BY <1>1, <1>5, <1>6, <1>7, <1>8 DEF r

\* An empty list has no elements.
LEMMA EmptyRange == Range(<<>>) = {} /\ IsInjective(<<>>)
BY DEF Range, IsInjective

\* A list of threads holds threads.
LEMMA SeqElement ==
  ASSUME NEW S, NEW list \in Seq(S), NEW t \in Range(list)
  PROVE  t \in S
<1>1. DOMAIN list = 1..Len(list)
  BY LenProperties
<1>2. PICK j \in 1..Len(list) : t = list[j]
  BY <1>1 DEF Range
<1> QED BY <1>2, ElementOfSeq

\* list_remove takes an element out of the list, wherever it is.
LEMMA RemoveSeq ==
  ASSUME NEW S, NEW list \in Seq(S), NEW elem
  PROVE  LET r == RemoveFirst(list, elem)
         IN /\ r \in Seq(S)
            /\ IsInjective(list) =>
                   /\ IsInjective(r)
                   /\ \A t : t \in Range(r) <=> t \in Range(list) /\ t # elem
<1> DEFINE n == Len(list)
           at == {i \in 1..n : list[i] = elem}
           r == RemoveFirst(list, elem)
<1>1. n \in Nat /\ DOMAIN list = 1..n
  BY LenProperties
<1>2. \A t : t \in Range(list) <=> \E j \in 1..n : t = list[j]
  BY <1>1 DEF Range
<1>3. CASE at = {}
  <2>1. ~\E i \in 1..n : list[i] = elem
    BY <1>3
  <2>2. r = list
    BY <2>1 DEF RemoveFirst
  <2> QED BY <1>2, <2>1, <2>2
<1>4. CASE at # {}
  <2>1. at \in SUBSET Nat
    BY <1>1
  <2>2. PICK i \in at : \A m \in at : i <= m
    BY <1>4, <2>1, LeastNat
  <2>3. i \in 1..n /\ list[i] = elem
    BY <2>2
  <2>4. Min(at) = i
    BY <2>1, <2>2 DEF Min
  <2>5. r = RemoveAt(list, i)
    <3>1. r = RemoveAt(list, SelectInSeq(list, LAMBDA v : v = elem))
      BY <2>3 DEF RemoveFirst
    <3>2. SelectInSeq(list, LAMBDA v : v = elem) = Min(at)
      BY <1>4 DEF SelectInSeq
    <3> QED BY <2>4, <3>1, <3>2
  <2> HIDE DEF at
  <2> DEFINE a == SubSeq(list, 1, i - 1)
             b == SubSeq(list, i + 1, n)
  <2>6. r = a \o b
    BY <2>5 DEF RemoveAt
  <2>7. /\ a \in Seq(S) /\ Len(a) = i - 1
        /\ \A j \in 1..(i - 1) : a[j] = list[j]
    BY <1>1, <2>3
  <2>8. /\ b \in Seq(S) /\ Len(b) = n - i
        /\ \A j \in 1..(n - i) : b[j] = list[j + i]
    <3>1. b \in Seq(S) /\ Len(b) = n - i
      <4>1. i + 1 \in 1..(n + 1) /\ n \in (i + 1) - 1..n /\ n - (i + 1) + 1 = n - i
        BY <1>1, <2>3
      <4> QED BY <4>1, SubSeqProperties
    <3>2. ASSUME NEW j \in 1..(n - i)
          PROVE  b[j] = list[j + i]
      <4>1. b[j] = list[(i + 1) + j - 1]
        BY <1>1, <2>3
      <4>2. (i + 1) + j - 1 = j + i
        BY <1>1, <2>3
      <4> QED BY <4>1, <4>2
    <3> QED BY <3>1, <3>2
  <2> HIDE DEF a, b, n, r
  <2>9. /\ r \in Seq(S) /\ Len(r) = n - 1
        /\ \A j \in 1..(n - 1) : r[j] = IF j < i THEN list[j] ELSE list[j + 1]
    <3>1. /\ r \in Seq(S) /\ Len(r) = Len(a) + Len(b)
          /\ \A j \in 1..(Len(a) + Len(b)) : r[j] = IF j <= Len(a) THEN a[j]
                                                   ELSE b[j - Len(a)]
      BY <2>6, <2>7, <2>8, ConcatProperties
    <3>2. Len(a) + Len(b) = n - 1
      BY <1>1, <2>3, <2>7, <2>8
    <3>3. ASSUME NEW j \in 1..(n - 1)
          PROVE  r[j] = IF j < i THEN list[j] ELSE list[j + 1]
      <4>1. CASE j < i
        <5>1. j \in 1..(i - 1) /\ j <= Len(a)
          BY <1>1, <2>3, <2>7, <4>1
        <5> QED BY <2>7, <3>1, <3>2, <4>1, <5>1
      <4>2. CASE ~(j < i)
        <5>1. j - (i - 1) \in 1..(n - i) /\ ~(j <= Len(a)) /\ j - Len(a) = j - (i - 1)
              /\ (j - (i - 1)) + i = j + 1
          BY <1>1, <2>3, <2>7, <4>2
        <5> QED BY <2>8, <3>1, <3>2, <4>2, <5>1
      <4> QED BY <4>1, <4>2
    <3> QED BY <3>1, <3>2, <3>3
  <2>10. DOMAIN r = 1..(n - 1)
    BY <2>9, LenProperties
  <2>11. \A t : t \in Range(r) <=> \E j \in 1..(n - 1) : t = r[j]
    BY <2>10 DEF Range
  <2>12. ASSUME IsInjective(list)
         PROVE  /\ IsInjective(r)
                /\ \A t : t \in Range(r) <=> t \in Range(list) /\ t # elem
    <3>1. \A j, k \in 1..n : list[j] = list[k] => j = k
      BY <1>1, <2>12 DEF IsInjective
    <3>2. \A j, k \in 1..(n - 1) : r[j] = r[k] => j = k
      BY <1>1, <2>3, <2>9, <3>1
    <3>3. ASSUME NEW t, t \in Range(r)
          PROVE  t \in Range(list) /\ t # elem
      <4>1. PICK j \in 1..(n - 1) : t = r[j]
        BY <2>11, <3>3
      <4>2. \E k \in 1..n : k # i /\ t = list[k]
        BY <1>1, <2>3, <2>9, <4>1
      <4> QED BY <1>2, <2>3, <3>1, <4>2
    <3>4. ASSUME NEW t, t \in Range(list), t # elem
          PROVE  t \in Range(r)
      <4>1. PICK k \in 1..n : t = list[k]
        BY <1>2, <3>4
      <4>2. CASE k < i
        BY <1>1, <2>3, <2>9, <2>11, <4>1, <4>2
      <4>3. CASE ~(k < i)
        <5>1. k - 1 \in 1..(n - 1) /\ ~(k - 1 < i) /\ (k - 1) + 1 = k
          BY <1>1, <2>3, <3>4, <4>1, <4>3
        <5> QED BY <2>9, <2>11, <4>1, <5>1
      <4> QED BY <4>2, <4>3
    <3> QED BY <2>10, <3>2, <3>3, <3>4 DEF IsInjective
  <2> QED BY <2>9, <2>12 DEF r
<1> QED BY <1>3, <1>4

=============================================================================
