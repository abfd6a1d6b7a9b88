---------------------- MODULE PriorityScheduler_proofs ----------------------
(***************************************************************************)
(* Theorems about PriorityScheduler, for any number of threads, semaphores *)
(* and priorities.  IInv is the inductive invariant: types, and which      *)
(* threads each list holds.  Above it, the order of the lists: the run     *)
(* queue and the wait lists fall in priority and the sleep list rises in   *)
(* wakeup_tick, so what is taken off the front of a list is what the       *)
(* list's order promises: the action properties, and from these the claims *)
(* about preemption and the idle thread.                                   *)
(***************************************************************************)
EXTENDS PriorityScheduler, QueueLemmas

\* list_insert_ordered finds a place for elem, at the end if nowhere else.
LEMMA InsertPointExists ==
  ASSUME NEW list \in Seq(Thread), NEW greater
  PROVE  LET i == InsertPoint(list, greater)
         IN /\ i \in 1..(Len(list) + 1)
            /\ i <= Len(list) => list[i] \in greater
            /\ \A j \in 1..(i - 1) : list[j] \notin greater
<1> DEFINE T == {i \in 1..(Len(list) + 1) : i <= Len(list) => list[i] \in greater}
<1>1. Len(list) \in Nat
  BY LenProperties
<1>2. T \in SUBSET Nat /\ Len(list) + 1 \in T
  BY <1>1
<1>3. PICK i \in T : \A m \in T : i <= m
  BY <1>2, LeastNat
<1>4. \A j \in 1..(i - 1) : list[j] \notin greater
  BY <1>1, <1>3
<1>5. /\ i \in 1..(Len(list) + 1)
      /\ i <= Len(list) => list[i] \in greater
  BY <1>3
<1> HIDE DEF T
<1> QED BY <1>4, <1>5 DEF InsertPoint

\* The shape of the list after list_insert_ordered.
LEMMA InsertShape ==
  ASSUME NEW list \in Seq(Thread), NEW elem \in Thread, NEW greater
  PROVE  LET i == InsertPoint(list, greater)
             r == list_insert_ordered(list, elem, greater)
         IN /\ i \in 1..(Len(list) + 1)
            /\ r \in Seq(Thread)
            /\ Len(r) = Len(list) + 1
            /\ \A j \in 1..(Len(list) + 1) :
                   r[j] = IF j < i THEN list[j]
                          ELSE IF j = i THEN elem ELSE list[j - 1]
<1> DEFINE i == InsertPoint(list, greater)
           n == Len(list)
           a == SubSeq(list, 1, i - 1)
           b == SubSeq(list, i, n)
           r == list_insert_ordered(list, elem, greater)
<1>1. n \in Nat /\ i \in 1..(n + 1)
  BY LenProperties, InsertPointExists
<1>2. r = a \o <<elem>> \o b
  BY DEF list_insert_ordered, InsertAt
<1> HIDE DEF i
<1>3. /\ a \in Seq(Thread) /\ Len(a) = i - 1
      /\ \A j \in 1..(i - 1) : a[j] = list[j]
  BY <1>1, SubSeqProperties
<1>4. /\ b \in Seq(Thread) /\ Len(b) = n - i + 1
      /\ \A j \in 1..(n - i + 1) : b[j] = list[i + j - 1]
  BY <1>1, SubSeqProperties
<1> HIDE DEF a, b, n, r
<1>5. <<elem>> \in Seq(Thread) /\ Len(<<elem>>) = 1 /\ <<elem>>[1] = elem
  OBVIOUS
<1>6. /\ a \o <<elem>> \in Seq(Thread)
      /\ Len(a \o <<elem>>) = i
      /\ \A j \in 1..i : (a \o <<elem>>)[j] = IF j < i THEN list[j] ELSE elem
  BY <1>1, <1>3, <1>5, ConcatProperties
<1>7. /\ r \in Seq(Thread)
      /\ Len(r) = n + 1
      /\ \A j \in 1..(n + 1) : r[j] = IF j <= i THEN (a \o <<elem>>)[j] ELSE b[j - i]
  <2> DEFINE c == a \o <<elem>>
  <2>1. c \in Seq(Thread) /\ Len(c) = i /\ r = c \o b
    BY <1>2, <1>6
  <2> HIDE DEF c
  <2>2. /\ r \in Seq(Thread)
        /\ Len(r) = Len(c) + Len(b)
        /\ \A j \in 1..(Len(c) + Len(b)) :
               r[j] = IF j <= Len(c) THEN c[j] ELSE b[j - Len(c)]
    BY <1>4, <2>1, ConcatProperties
  <2>3. Len(c) + Len(b) = n + 1
    BY <1>1, <1>4, <2>1
  <2>4. \A j \in 1..(n + 1) : r[j] = IF j <= i THEN c[j] ELSE b[j - i]
    BY <2>1, <2>2, <2>3
  <2> QED BY <2>2, <2>3, <2>4 DEF c
<1>8. ASSUME NEW j \in 1..(n + 1)
      PROVE  r[j] = IF j < i THEN list[j] ELSE IF j = i THEN elem ELSE list[j - 1]
  <2>1. CASE j <= i
    <3>1. j \in 1..i
      BY <1>1, <2>1
    <3>2. r[j] = (a \o <<elem>>)[j]
      BY <1>7, <2>1
    <3>3. r[j] = IF j < i THEN list[j] ELSE elem
      BY <1>6, <3>1, <3>2
    <3> QED BY <1>1, <2>1, <3>3
  <2>2. CASE j > i
    <3>1. j - i \in 1..(n - i + 1) /\ i + (j - i) - 1 = j - 1
      BY <1>1, <2>2
    <3>2. r[j] = b[j - i] /\ b[j - i] = list[i + (j - i) - 1]
      BY <1>1, <1>4, <1>7, <2>2, <3>1
    <3> QED BY <1>1, <2>2, <3>1, <3>2
  <2> QED BY <1>1, <2>1, <2>2
<1> QED BY <1>1, <1>7, <1>8 DEF i, n, r

\* list_insert_ordered adds elem to the threads on the list.
LEMMA InsertRange ==
  ASSUME NEW list \in Seq(Thread), NEW elem \in Thread, NEW greater
  PROVE  LET r == list_insert_ordered(list, elem, greater)
         IN /\ r \in Seq(Thread)
            /\ r # <<>>
            /\ \A t : t \in Range(r) <=> t \in Range(list) \/ t = elem
            /\ IsInjective(list) /\ elem \notin Range(list) => IsInjective(r)
<1> DEFINE i == InsertPoint(list, greater)
           n == Len(list)
           r == list_insert_ordered(list, elem, greater)
<1>1. /\ n \in Nat /\ i \in 1..(n + 1)
      /\ r \in Seq(Thread) /\ Len(r) = n + 1
      /\ \A j \in 1..(n + 1) : r[j] = IF j < i THEN list[j]
                                      ELSE IF j = i THEN elem ELSE list[j - 1]
  BY LenProperties, InsertShape
<1>2. DOMAIN list = 1..n /\ DOMAIN r = 1..(n + 1)
  BY <1>1, LenProperties
<1> HIDE DEF i, n, r
<1>3. r # <<>>
  BY <1>1
<1>4. ASSUME NEW t, t \in Range(r)
      PROVE  t \in Range(list) \/ t = elem
  <2>1. PICK j \in 1..(n + 1) : t = r[j]
    BY <1>2, <1>4 DEF Range
  <2>2. CASE j < i
    <3>1. j \in 1..n /\ t = list[j]
      BY <1>1, <2>1, <2>2
    <3> QED BY <1>2, <3>1 DEF Range
  <2>3. CASE j = i
    BY <1>1, <2>1, <2>3
  <2>4. CASE j > i
    <3>1. j - 1 \in 1..n /\ t = list[j - 1]
      BY <1>1, <2>1, <2>4
    <3> QED BY <1>2, <3>1 DEF Range
  <2> QED BY <1>1, <2>2, <2>3, <2>4
<1>5. elem \in Range(r)
  <2>1. r[i] = elem
    BY <1>1
  <2> QED BY <1>1, <1>2, <2>1 DEF Range
<1>6. ASSUME NEW t, t \in Range(list)
      PROVE  t \in Range(r)
  <2>1. PICK j \in 1..n : t = list[j]
    BY <1>2, <1>6 DEF Range
  <2>2. CASE j < i
    BY <1>1, <1>2, <2>1, <2>2 DEF Range
  <2>3. CASE j >= i
    <3>1. j + 1 \in 1..(n + 1) /\ r[j + 1] = list[j]
      BY <1>1, <2>1, <2>3
    <3> QED BY <1>2, <2>1, <3>1 DEF Range
  <2> QED BY <1>1, <2>1, <2>2, <2>3
<1>7. ASSUME IsInjective(list), elem \notin Range(list)
      PROVE  IsInjective(r)
  <2>1. \A j \in 1..n : list[j] # elem
    BY <1>2, <1>7 DEF Range
  <2>2. \A j, k \in 1..n : list[j] = list[k] => j = k
    BY <1>2, <1>7 DEF IsInjective
  <2>3. ASSUME NEW j \in 1..(n + 1), NEW k \in 1..(n + 1), r[j] = r[k], j < k
        PROVE  FALSE
    BY SMTT(30), <1>1, <2>1, <2>2, <2>3
  <2>4. \A j, k \in 1..(n + 1) : r[j] = r[k] => j = k
    BY <1>1, <2>3
  <2> QED BY <1>2, <2>4 DEF IsInjective
<1> QED BY <1>1, <1>3, <1>4, <1>5, <1>6, <1>7 DEF r

\* list_pop_front takes the front thread off the list.
LEMMA PopRange ==
  ASSUME NEW list \in Seq(Thread), list # <<>>
  PROVE  /\ Head(list) \in Thread
         /\ Head(list) \in Range(list)
         /\ Tail(list) \in Seq(Thread)
         /\ IsInjective(list) =>
                /\ IsInjective(Tail(list))
                /\ \A t : t \in Range(Tail(list)) <=>
                              t \in Range(list) /\ t # Head(list)
BY PopSeq

\* A list of threads holds threads.
LEMMA ListOfThreads ==
  ASSUME NEW list \in Seq(Thread), NEW t \in Range(list)
  PROVE  t \in Thread
BY SeqElement

IInv == TypeOK /\ ListInv

-----------------------------------------------------------------------------
(* The scheduler's building blocks.                                        *)

\* schedule(): given a run queue that holds the ready threads and nobody
\* running, afterwards cur' runs, it was ready or is the idle thread, and the
\* queue holds the ready threads again.
LEMMA ScheduleEffect ==
  ASSUME NEW queue \in Seq(Thread), IsInjective(queue),
         NEW st \in [Thread -> Status], cur \in Thread,
         \A t \in Thread : st[t] # "RUNNING",
         \A t \in Thread : t \in Range(queue) <=> st[t] = "READY" /\ t # Idle,
         schedule(queue, st)
  PROVE  /\ cur' \in Thread
         /\ cur' # Idle => st[cur'] = "READY"
         /\ ready_list' \in Seq(Thread)
         /\ IsInjective(ready_list')
         /\ status' \in [Thread -> Status]
         /\ thread_ticks' = 0
         /\ \A t \in Thread :
                t \in Range(ready_list') <=> status'[t] = "READY" /\ t # Idle
         /\ \A t \in Thread :
                status'[t] = IF t = cur' THEN "RUNNING"
                             ELSE IF t = cur /\ cur # Main /\ st[cur] = "DYING"
                             THEN "FREE" ELSE st[t]
<1> DEFINE next == next_thread_to_run(queue)
<1>1. next \in Thread /\ (next # Idle => st[next] = "READY")
  BY PopRange, ThreadAssumption DEF next_thread_to_run
<1>2. /\ cur' = next
      /\ status' = thread_schedule_tail(next, st)
      /\ thread_ticks' = 0
  BY DEF schedule
<1>3. /\ ready_list' \in Seq(Thread)
      /\ IsInjective(ready_list')
      /\ \A t \in Thread : t \in Range(ready_list') <=> t \in Range(queue) /\ t # next
  <2>1. CASE queue = <<>>
    BY <2>1, <1>1 DEF schedule, next_thread_to_run
  <2>2. CASE queue # <<>>
    BY <2>2, PopRange DEF schedule, next_thread_to_run
  <2> QED BY <2>1, <2>2
<1> HIDE DEF next
<1>4. \A t \in Thread :
          thread_schedule_tail(next, st)[t] =
              IF t = next THEN "RUNNING"
              ELSE IF t = cur /\ cur # Main /\ st[cur] = "DYING"
              THEN "FREE" ELSE st[t]
  BY <1>1 DEF thread_schedule_tail
<1>5. thread_schedule_tail(next, st) \in [Thread -> Status]
  BY <1>1 DEF thread_schedule_tail, Status
<1> QED BY <1>1, <1>2, <1>3, <1>4, <1>5

\* What the switch from cur, left in state `to', does to the state.
Switched(queue, st, to) ==
  /\ cur' \in Thread
  /\ cur' # Idle => st[cur'] = "READY" \/ (cur' = cur /\ to = "READY")
  /\ ready_list' \in Seq(Thread)
  /\ status' \in [Thread -> Status]
  /\ thread_ticks' = 0
  /\ ReadyInv'
  /\ RunInv'
  /\ \A t \in Thread :
         status'[t] = IF t = cur' THEN "RUNNING"
                      ELSE IF t # cur THEN st[t]
                      ELSE IF to = "DYING" /\ t # Main THEN "FREE" ELSE to

\* A queue that holds the ready threads, and states with cur running.
Consistent(queue, st) ==
  /\ queue \in Seq(Thread)
  /\ IsInjective(queue)
  /\ st \in [Thread -> Status]
  /\ cur \in Thread
  /\ \A t \in Thread : t \in Range(queue) <=> st[t] = "READY" /\ t # Idle
  /\ \A t \in Thread : st[t] = "RUNNING" <=> t = cur

\* The switch of thread_block and thread_exit.
LEMMA LeaveEffect ==
  ASSUME NEW to \in {"BLOCKED", "DYING"},
         Consistent(ready_list, status),
         schedule(ready_list, [status EXCEPT ![cur] = to])
  PROVE  Switched(ready_list, status, to)
<1> DEFINE st == [status EXCEPT ![cur] = to]
<1>1. /\ st \in [Thread -> Status]
      /\ \A t \in Thread : st[t] = IF t = cur THEN to ELSE status[t]
  BY DEF Consistent, Status
<1>2. \A t \in Thread : st[t] # "RUNNING"
  BY <1>1 DEF Consistent
<1>3. \A t \in Thread : t \in Range(ready_list) <=> st[t] = "READY" /\ t # Idle
  BY <1>1 DEF Consistent
<1> HIDE DEF st
<1>4. /\ cur' \in Thread
      /\ cur' # Idle => st[cur'] = "READY"
      /\ ready_list' \in Seq(Thread)
      /\ IsInjective(ready_list')
      /\ status' \in [Thread -> Status]
      /\ thread_ticks' = 0
      /\ \A t \in Thread :
             t \in Range(ready_list') <=> status'[t] = "READY" /\ t # Idle
      /\ \A t \in Thread :
             status'[t] = IF t = cur' THEN "RUNNING"
                          ELSE IF t = cur /\ cur # Main /\ st[cur] = "DYING"
                          THEN "FREE" ELSE st[t]
  BY <1>1, <1>2, <1>3, ScheduleEffect DEF Consistent, st
<1>5. ReadyInv'
  BY <1>4 DEF ReadyInv
<1>6. RunInv'
  BY <1>1, <1>2, <1>4 DEF RunInv
<1>7. \A t \in Thread :
         status'[t] = IF t = cur' THEN "RUNNING"
                      ELSE IF t # cur THEN status[t]
                      ELSE IF to = "DYING" /\ t # Main THEN "FREE" ELSE to
  BY <1>1, <1>4 DEF Consistent
<1>8. cur' # Idle => status[cur'] = "READY" \/ (cur' = cur /\ to = "READY")
  BY <1>1, <1>4 DEF Consistent
<1> QED BY <1>4, <1>5, <1>6, <1>7, <1>8 DEF Switched

\* The switch of thread_yield.
LEMMA YieldEffect ==
  ASSUME NEW queue, NEW st, NEW pri, Consistent(queue, st),
         thread_yield(queue, st, pri)
  PROVE  Switched(queue, st, "READY")
<1> DEFINE q == IF cur = Idle THEN queue
                ELSE list_insert_ordered(queue, cur, less_priority(cur, pri))
           r == [st EXCEPT ![cur] = "READY"]
<1>1. /\ r \in [Thread -> Status]
      /\ \A t \in Thread : r[t] = IF t = cur THEN "READY" ELSE st[t]
  BY DEF Consistent, Status
<1>2. cur \notin Range(queue)
  BY DEF Consistent
<1>3. /\ q \in Seq(Thread)
      /\ IsInjective(q)
      /\ \A t : t \in Range(q) <=> t \in Range(queue) \/ (t = cur /\ cur # Idle)
  <2>1. CASE cur = Idle
    BY <2>1 DEF Consistent
  <2>2. CASE cur # Idle
    BY <2>2, <1>2, InsertRange DEF Consistent
  <2> QED BY <2>1, <2>2
<1>4. schedule(q, r)
  BY DEF thread_yield
<1> HIDE DEF q, r
<1>5. \A t \in Thread : r[t] # "RUNNING"
  BY <1>1 DEF Consistent
<1>6. \A t \in Thread : t \in Range(q) <=> r[t] = "READY" /\ t # Idle
  BY <1>1, <1>3 DEF Consistent
<1>7. /\ cur' \in Thread
      /\ cur' # Idle => r[cur'] = "READY"
      /\ ready_list' \in Seq(Thread)
      /\ IsInjective(ready_list')
      /\ status' \in [Thread -> Status]
      /\ thread_ticks' = 0
      /\ \A t \in Thread :
             t \in Range(ready_list') <=> status'[t] = "READY" /\ t # Idle
      /\ \A t \in Thread :
             status'[t] = IF t = cur' THEN "RUNNING"
                          ELSE IF t = cur /\ cur # Main /\ r[cur] = "DYING"
                          THEN "FREE" ELSE r[t]
  BY <1>1, <1>3, <1>4, <1>5, <1>6, ScheduleEffect DEF Consistent
<1>8. ReadyInv'
  BY <1>7 DEF ReadyInv
<1>9. RunInv'
  BY <1>1, <1>5, <1>7 DEF RunInv
<1>10. \A t \in Thread :
         status'[t] = IF t = cur' THEN "RUNNING"
                      ELSE IF t # cur THEN st[t]
                      ELSE IF "READY" = "DYING" /\ t # Main THEN "FREE" ELSE "READY"
  BY <1>1, <1>7 DEF Consistent
<1>11. cur' # Idle => st[cur'] = "READY" \/ (cur' = cur /\ "READY" = "READY")
  BY <1>1, <1>7 DEF Consistent
<1> QED BY <1>7, <1>8, <1>9, <1>10, <1>11 DEF Switched

\* thread_unblock: a blocked thread that is not the idle thread goes on the
\* run queue, and that keeps the queue consistent.
LEMMA UnblockEffect ==
  ASSUME IInv, NEW t \in Thread, status[t] = "BLOCKED", t # Idle
  PROVE  /\ Consistent(unblocked_queue(t), unblocked_status(t))
         /\ \A u \in Thread :
                unblocked_status(t)[u] = IF u = t THEN "READY" ELSE status[u]
<1>1. ready_list \in Seq(Thread) /\ status \in [Thread -> Status] /\ cur \in Thread
  BY DEF IInv, TypeOK
<1>2. /\ IsInjective(ready_list)
      /\ \A u \in Thread : u \in Range(ready_list) <=> status[u] = "READY" /\ u # Idle
      /\ \A u \in Thread : status[u] = "RUNNING" <=> u = cur
  BY DEF IInv, ListInv, ReadyInv, RunInv
<1> DEFINE q == unblocked_queue(t)
           st == unblocked_status(t)
<1>3. /\ q \in Seq(Thread)
      /\ IsInjective(q)
      /\ \A u : u \in Range(q) <=> u \in Range(ready_list) \/ u = t
  BY <1>1, <1>2, InsertRange DEF unblocked_queue
<1>4. /\ st \in [Thread -> Status]
      /\ \A u \in Thread : st[u] = IF u = t THEN "READY" ELSE status[u]
  BY <1>1 DEF unblocked_status, Status
<1> HIDE DEF q, st
<1>5. \A u \in Thread : u \in Range(q) <=> st[u] = "READY" /\ u # Idle
  BY <1>2, <1>3, <1>4
<1>6. \A u \in Thread : st[u] = "RUNNING" <=> u = cur
  BY <1>2, <1>4
<1>7. Consistent(q, st)
  BY <1>1, <1>3, <1>4, <1>5, <1>6 DEF Consistent
<1> QED BY <1>4, <1>7 DEF q, st

\* IInv gives what the lemmas about the scheduler ask for.
LEMMA ConsistentNow ==
  ASSUME IInv
  PROVE  Consistent(ready_list, status)
BY DEF IInv, TypeOK, ListInv, ReadyInv, RunInv, Consistent

-----------------------------------------------------------------------------
(* Steps that leave the wait lists alone.                                  *)

Awake == {"READY", "RUNNING"}

\* Where a thread that can run may be, apart from the idle thread.
BusyPC == PC \ {"idle", "hlt", "nascent", "dead", "asleep"}

\* The running thread moves on within its call, or to another one, and
\* threads that can run may swap the CPU.
CurMoves ==
  /\ UNCHANGED <<sleep_list, waiters, child>>
  /\ \A t \in Thread \ {cur} :
         /\ pc'[t] = pc[t]
         /\ sema'[t] = sema[t]
         /\ \/ status'[t] = status[t]
            \/ {status[t], status'[t]} \subseteq Awake
            \/ t = Idle /\ status'[t] \in Awake
  /\ status'[cur] \in Awake
  /\ pc'[cur] \in IF cur = Idle THEN {"idle", "hlt"} ELSE BusyPC
  /\ pc'[cur] = "sema_down" => sema'[cur] \in Sema
  /\ pc'[cur] \in CreatePC <=> pc[cur] \in CreatePC

\* Such a step keeps every thread where it waits.
LEMMA CurMovesKeeps ==
  ASSUME IInv, CurMoves
  PROVE  SleepInv' /\ WaitInv' /\ PcInv'
<1> USE DEF IInv, TypeOK, ListInv
<1>1. cur \in Thread /\ status[cur] = "RUNNING"
  BY DEF RunInv
<1>2. \A t \in Thread \ {Idle} : status[t] = "BLOCKED" <=> status'[t] = "BLOCKED"
  BY <1>1 DEF CurMoves, Awake
<1>3. \A t \in Thread : /\ status[t] = "DYING" <=> status'[t] = "DYING"
                        /\ status[t] = "FREE" <=> status'[t] = "FREE"
  BY <1>1 DEF CurMoves, Awake, PcInv
<1>4. SleepInv'
  BY ZenonT(40), <1>1, <1>2 DEF SleepInv, CurMoves, PcInv, Awake, BusyPC
<1>5. WaitInv'
  <2>1. ASSUME NEW t \in Thread, NEW s \in Sema
        PROVE  t \in Range(waiters[s]) <=> /\ status'[t] = "BLOCKED"
                                           /\ pc'[t] = "sema_down"
                                           /\ sema'[t] = s
    <3>1. t \in Range(waiters[s]) <=> /\ status[t] = "BLOCKED"
                                      /\ pc[t] = "sema_down"
                                      /\ sema[t] = s
      BY DEF WaitInv
    <3>2. CASE t = cur
      BY <1>1, <3>1, <3>2 DEF CurMoves, Awake
    <3>3. CASE t # cur /\ t = Idle
      BY <3>1, <3>3 DEF CurMoves, PcInv
    <3>4. CASE t # cur /\ t # Idle
      BY <1>2, <3>1, <3>4 DEF CurMoves
    <3> QED BY <3>2, <3>3, <3>4
  <2> QED BY <2>1 DEF WaitInv, CurMoves
<1>6. PcInv'
  <2>1. ASSUME NEW t \in Thread, t # cur
        PROVE  /\ t = Idle <=> pc'[t] \in {"idle", "hlt"}
               /\ pc'[t] = "nascent" <=> t = child'
               /\ pc'[t] = "dead" <=> status'[t] \in {"FREE", "DYING"}
               /\ pc'[t] \in {"asleep", "nascent"} => status'[t] = "BLOCKED"
               /\ pc'[t] = "sema_down" => sema'[t] \in Sema
               /\ pc'[t] \in CreatePC => t = Main
               /\ status'[t] = "DYING" => t = Main
               /\ status'[t] = "BLOCKED" =>
                      pc'[t] \in {"asleep", "nascent", "sema_down", "idle", "hlt"}
    BY <1>2, <1>3, <2>1 DEF PcInv, CurMoves
  <2>2. /\ cur = Idle <=> pc'[cur] \in {"idle", "hlt"}
        /\ pc'[cur] # "nascent" /\ cur # child'
        /\ pc'[cur] # "dead" /\ status'[cur] \notin {"FREE", "DYING", "BLOCKED"}
        /\ pc'[cur] # "asleep"
        /\ pc'[cur] = "sema_down" => sema'[cur] \in Sema
        /\ pc'[cur] \in CreatePC => cur = Main
    BY <1>1 DEF PcInv, CurMoves, BusyPC, Awake, PC, IntrOffPC, CreatePC
  <2>3. child' # NoThread <=> pc'[Main] \in CreatePC
    BY <1>1, ThreadAssumption DEF PcInv, CurMoves
  <2> QED BY <2>1, <2>2, <2>3 DEF PcInv
<1> QED BY <1>4, <1>5, <1>6

\* What such a step may do to the scheduler's state.
SchedKept ==
  /\ cur' \in Thread
  /\ ready_list' \in Seq(Thread)
  /\ status' \in [Thread -> Status]
  /\ thread_ticks' = 0 \/ thread_ticks' = thread_ticks
  /\ ReadyInv'
  /\ RunInv'
  /\ \A t \in Thread \ {cur} :
         \/ status'[t] = status[t]
         \/ {status[t], status'[t]} \subseteq Awake
         \/ t = Idle /\ status'[t] \in Awake
  /\ status'[cur] \in Awake

\* It keeps the scheduler's part of TypeOK.
LEMMA SchedTypes ==
  ASSUME IInv, SchedKept
  PROVE  /\ cur' \in Thread
         /\ ready_list' \in Seq(Thread)
         /\ status' \in [Thread -> Status]
         /\ thread_ticks' \in 0..TIME_SLICE
<1>1. thread_ticks \in 0..TIME_SLICE /\ 0 \in 0..TIME_SLICE
  BY NumberAssumption DEF IInv, TypeOK
<1> QED BY <1>1 DEF SchedKept

\* A thread_yield, or no call of the scheduler at all.
LEMMA MaybeYield ==
  ASSUME IInv, NEW pri,
         thread_yield(ready_list, status, pri) \/ UNCHANGED schedVars
  PROVE  SchedKept
<1>1. CASE thread_yield(ready_list, status, pri)
  <2>1. Switched(ready_list, status, "READY")
    BY <1>1, ConsistentNow, YieldEffect
  <2> QED BY <2>1 DEF Switched, SchedKept, Awake, IInv, TypeOK
<1>2. CASE UNCHANGED schedVars
  BY <1>2 DEF schedVars, SchedKept, Awake, IInv, TypeOK, ListInv, ReadyInv, RunInv
<1> QED BY <1>1, <1>2

\* A thread that executes has status RUNNING and only the idle thread is in
\* idle().
LEMMA CurFacts ==
  ASSUME IInv
  PROVE  /\ cur \in Thread
         /\ status[cur] = "RUNNING"
         /\ pc \in [Thread -> PC]
         /\ cur = Idle <=> pc[cur] \in {"idle", "hlt"}
         /\ pc[cur] \notin {"asleep", "nascent", "dead"}
         /\ cur # child
         /\ pc[cur] \in CreatePC => cur = Main /\ child \in Thread
         /\ cur = Main /\ pc[cur] \notin CreatePC => child = NoThread
BY DEF IInv, TypeOK, ListInv, RunInv, PcInv

\* The running thread goes to p and nothing else of a call changes.
LEMMA GotoKeeps ==
  ASSUME IInv, SchedKept, NEW p \in BusyPC, p # "sema_down", Goto(p), cur # Idle,
         UNCHANGED <<sleep_list, waiters, child>>,
         \A t \in Thread \ {cur} : sema'[t] = sema[t],
         p \in CreatePC <=> pc[cur] \in CreatePC
  PROVE  ReadyInv' /\ SleepInv' /\ WaitInv' /\ RunInv' /\ PcInv' /\ pc' \in [Thread -> PC]
<1>1. p \in PC
  BY DEF BusyPC
<1>2. /\ pc' \in [Thread -> PC]
      /\ pc'[cur] = p
      /\ \A t \in Thread \ {cur} : pc'[t] = pc[t]
  BY <1>1, CurFacts DEF Goto
<1>3. CurMoves
  BY <1>2 DEF CurMoves, SchedKept
<1> QED BY <1>2, <1>3, CurMovesKeeps DEF SchedKept

\* An interrupt, or a call that ends where it began.
LEMMA StayKeeps ==
  ASSUME IInv, SchedKept, UNCHANGED pc \/ AfterInterrupt,
         UNCHANGED <<sleep_list, waiters, child, sema>>
  PROVE  ReadyInv' /\ SleepInv' /\ WaitInv' /\ RunInv' /\ PcInv' /\ pc' \in [Thread -> PC]
<1>1. /\ pc' \in [Thread -> PC]
      /\ pc'[cur] = pc[cur] \/ (pc[cur] = "hlt" /\ pc'[cur] = "idle")
      /\ \A t \in Thread \ {cur} : pc'[t] = pc[t]
  BY CurFacts DEF AfterInterrupt, PC, IntrOffPC
<1>2. pc'[cur] \in IF cur = Idle THEN {"idle", "hlt"} ELSE BusyPC
  BY <1>1, CurFacts DEF BusyPC
<1>3. /\ pc'[cur] = "sema_down" => sema'[cur] \in Sema
      /\ pc'[cur] \in CreatePC <=> pc[cur] \in CreatePC
  BY <1>1, CurFacts DEF IInv, ListInv, PcInv, CreatePC
<1>4. CurMoves
  BY <1>1, <1>2, <1>3 DEF CurMoves, SchedKept
<1> QED BY <1>1, <1>4, CurMovesKeeps DEF SchedKept

-----------------------------------------------------------------------------
(* One lemma per action: it preserves IInv.                                *)

\* allocate_tid.
LEMMA AllocateTidStep ==
  ASSUME IInv, AllocateTid
  PROVE  IInv'
<1>1. SchedKept
  BY MaybeYield DEF AllocateTid
<1>2. /\ cur # Idle /\ pc[cur] = "allocate_tid" /\ Goto("refresh_priority")
      /\ UNCHANGED <<sleep_list, waiters, child, sema>>
  BY CurFacts DEF AllocateTid, At, timerVars, semaVars
<1>3. ReadyInv' /\ SleepInv' /\ WaitInv' /\ RunInv' /\ PcInv' /\ pc' \in [Thread -> PC]
  BY <1>1, <1>2, GotoKeeps DEF BusyPC, PC, IntrOffPC, CreatePC
<1>4. TypeOK'
  BY <1>1, <1>3, SchedTypes
     DEF IInv, TypeOK, AllocateTid, timerVars, semaVars, priVars
<1>5. SliceInv'
  BY <1>1, NumberAssumption
     DEF SchedKept, IInv, ListInv, TypeOK, SliceInv, AllocateTid, timerVars
<1> QED BY <1>3, <1>4, <1>5 DEF IInv, ListInv

\* refresh_priority and thread_yield_if_necessary in lock_release.
LEMMA RefreshPriorityStep ==
  ASSUME IInv, RefreshPriority
  PROVE  IInv'
<1>1. SchedKept
  BY MaybeYield DEF RefreshPriority
<1>2. /\ cur # Idle /\ pc[cur] = "refresh_priority" /\ Goto("thread_unblock")
      /\ UNCHANGED <<sleep_list, waiters, child, sema>>
  BY CurFacts DEF RefreshPriority, At, timerVars, semaVars
<1>3. ReadyInv' /\ SleepInv' /\ WaitInv' /\ RunInv' /\ PcInv' /\ pc' \in [Thread -> PC]
  BY <1>1, <1>2, GotoKeeps DEF BusyPC, PC, IntrOffPC, CreatePC
<1>4. TypeOK'
  <2>1. priority' \in [Thread -> Priority]
    BY CurFacts DEF IInv, TypeOK, RefreshPriority
  <2> QED BY <1>1, <1>3, <2>1, SchedTypes
       DEF IInv, TypeOK, RefreshPriority, timerVars, semaVars
<1>5. SliceInv'
  BY <1>1, NumberAssumption
     DEF SchedKept, IInv, ListInv, TypeOK, SliceInv, RefreshPriority, timerVars
<1> QED BY <1>3, <1>4, <1>5 DEF IInv, ListInv

\* thread_set_priority.
LEMMA ThreadSetPriorityStep ==
  ASSUME IInv, NEW pri \in Priority, ThreadSetPriority(pri)
  PROVE  IInv'
<1>1. SchedKept
  BY MaybeYield DEF ThreadSetPriority
<1>2. /\ cur # Idle /\ pc[cur] = "run" /\ Goto("cp_empty")
      /\ UNCHANGED <<sleep_list, waiters, child, sema>>
  BY CurFacts DEF ThreadSetPriority, At, timerVars, semaVars
<1>3. ReadyInv' /\ SleepInv' /\ WaitInv' /\ RunInv' /\ PcInv' /\ pc' \in [Thread -> PC]
  BY <1>1, <1>2, GotoKeeps DEF BusyPC, PC, IntrOffPC, CreatePC
<1>4. TypeOK'
  <2>1. priority' \in [Thread -> Priority]
    BY CurFacts DEF IInv, TypeOK, ThreadSetPriority
  <2> QED BY <1>1, <1>3, <2>1, SchedTypes
       DEF IInv, TypeOK, ThreadSetPriority, timerVars, semaVars
<1>5. SliceInv'
  BY <1>1, NumberAssumption
     DEF SchedKept, IInv, ListInv, TypeOK, SliceInv, ThreadSetPriority, timerVars
<1> QED BY <1>3, <1>4, <1>5 DEF IInv, ListInv

\* The thread_yield of check_preemption.
LEMMA CheckYieldStep ==
  ASSUME IInv, CheckYield
  PROVE  IInv'
<1>1. SchedKept
  BY MaybeYield DEF CheckYield
<1>2. /\ cur # Idle /\ pc[cur] = "cp_yield" /\ Goto("run")
      /\ UNCHANGED <<sleep_list, waiters, child, sema>>
  BY CurFacts DEF CheckYield, At, timerVars, semaVars
<1>3. ReadyInv' /\ SleepInv' /\ WaitInv' /\ RunInv' /\ PcInv' /\ pc' \in [Thread -> PC]
  BY <1>1, <1>2, GotoKeeps DEF BusyPC, PC, IntrOffPC, CreatePC
<1>4. TypeOK'
  BY <1>1, <1>3, SchedTypes
     DEF IInv, TypeOK, CheckYield, timerVars, semaVars, priVars
<1>5. SliceInv'
  BY <1>1, NumberAssumption
     DEF SchedKept, IInv, ListInv, TypeOK, SliceInv, CheckYield, timerVars
<1> QED BY <1>3, <1>4, <1>5 DEF IInv, ListInv

\* The first test of check_preemption.
LEMMA CheckEmptyStep ==
  ASSUME IInv, CheckEmpty
  PROVE  IInv'
<1>1. SchedKept
  BY MaybeYield DEF CheckEmpty
<1>2. PICK p \in {"run", "cp_front"} : Goto(p)
  BY DEF CheckEmpty
<1>3. /\ cur # Idle /\ pc[cur] = "cp_empty"
      /\ UNCHANGED <<sleep_list, waiters, child, sema>>
  BY CurFacts DEF CheckEmpty, At, timerVars, semaVars
<1>4. ReadyInv' /\ SleepInv' /\ WaitInv' /\ RunInv' /\ PcInv' /\ pc' \in [Thread -> PC]
  BY <1>1, <1>2, <1>3, GotoKeeps DEF BusyPC, PC, IntrOffPC, CreatePC
<1>5. TypeOK'
  BY <1>1, <1>4, SchedTypes
     DEF IInv, TypeOK, CheckEmpty, timerVars, semaVars, priVars
<1>6. SliceInv'
  BY <1>1, NumberAssumption
     DEF SchedKept, IInv, ListInv, TypeOK, SliceInv, CheckEmpty, timerVars
<1> QED BY <1>4, <1>5, <1>6 DEF IInv, ListInv

\* The list_front of check_preemption.
LEMMA CheckFrontStep ==
  ASSUME IInv, CheckFront
  PROVE  IInv'
<1>1. SchedKept
  BY MaybeYield DEF CheckFront
<1>2. /\ cur # Idle /\ pc[cur] = "cp_front"
      /\ UNCHANGED <<sleep_list, waiters, child, sema>>
  BY CurFacts DEF CheckFront, At, timerVars, semaVars
<1>3. ReadyInv' /\ SleepInv' /\ WaitInv' /\ RunInv' /\ PcInv' /\ pc' \in [Thread -> PC]
  <2>1. CASE ready_list = <<>>
    BY <1>1, <1>2, <2>1, StayKeeps DEF CheckFront
  <2>2. CASE ready_list # <<>>
    <3>1. Goto("cp_compare")
      BY <2>2 DEF CheckFront
    <3> QED BY <1>1, <1>2, <3>1, GotoKeeps DEF BusyPC, PC, IntrOffPC, CreatePC
  <2> QED BY <2>1, <2>2
<1>4. TypeOK'
  <2>1. /\ cand' \in [Thread -> Thread \union {NoThread}]
        /\ panic' \in {"none", "list_front"}
    <3>1. CASE ready_list = <<>>
      BY <3>1 DEF IInv, TypeOK, CheckFront
    <3>2. CASE ready_list # <<>>
      <4>1. Head(ready_list) \in Thread
        BY <3>2, PopRange DEF IInv, TypeOK
      <4> QED BY <3>2, <4>1, CurFacts DEF IInv, TypeOK, CheckFront
    <3> QED BY <3>1, <3>2
  <2> QED BY <1>1, <1>3, <2>1, SchedTypes
       DEF IInv, TypeOK, CheckFront, timerVars, semaVars, priVars
<1>5. SliceInv'
  BY <1>1, NumberAssumption
     DEF SchedKept, IInv, ListInv, TypeOK, SliceInv, CheckFront, timerVars
<1> QED BY <1>3, <1>4, <1>5 DEF IInv, ListInv

\* The comparison of check_preemption.
LEMMA CheckCompareStep ==
  ASSUME IInv, CheckCompare
  PROVE  IInv'
<1>1. SchedKept
  BY MaybeYield DEF CheckCompare
<1>2. PICK p \in {"run", "cp_yield"} : Goto(p)
  BY DEF CheckCompare
<1>3. /\ cur # Idle /\ pc[cur] = "cp_compare"
      /\ UNCHANGED <<sleep_list, waiters, child, sema>>
  BY CurFacts DEF CheckCompare, At, timerVars, semaVars
<1>4. ReadyInv' /\ SleepInv' /\ WaitInv' /\ RunInv' /\ PcInv' /\ pc' \in [Thread -> PC]
  BY <1>1, <1>2, <1>3, GotoKeeps DEF BusyPC, PC, IntrOffPC, CreatePC
<1>5. TypeOK'
  <2>1. cand' \in [Thread -> Thread \union {NoThread}]
    BY CurFacts DEF IInv, TypeOK, CheckCompare
  <2> QED BY <1>1, <1>4, <2>1, SchedTypes
       DEF IInv, TypeOK, CheckCompare, timerVars, semaVars, priVars
<1>6. SliceInv'
  BY <1>1, NumberAssumption
     DEF SchedKept, IInv, ListInv, TypeOK, SliceInv, CheckCompare, timerVars
<1> QED BY <1>4, <1>5, <1>6 DEF IInv, ListInv

\* thread_yield.
LEMMA ThreadYieldStep ==
  ASSUME IInv, ThreadYield
  PROVE  IInv'
<1>1. SchedKept
  BY MaybeYield DEF ThreadYield
<1>2. ReadyInv' /\ SleepInv' /\ WaitInv' /\ RunInv' /\ PcInv' /\ pc' \in [Thread -> PC]
  BY <1>1, StayKeeps DEF ThreadYield, timerVars, semaVars
<1>3. TypeOK'
  BY <1>1, <1>2, SchedTypes
     DEF IInv, TypeOK, ThreadYield, timerVars, semaVars, priVars
<1>4. SliceInv'
  BY <1>1, NumberAssumption
     DEF SchedKept, IInv, ListInv, TypeOK, SliceInv, ThreadYield, timerVars
<1> QED BY <1>2, <1>3, <1>4 DEF IInv, ListInv

\* sema_try_down.
LEMMA SemaTryDownStep ==
  ASSUME IInv, NEW s \in Sema, SemaTryDown(s)
  PROVE  IInv'
<1>1. SchedKept
  BY MaybeYield DEF SemaTryDown
<1>2. ReadyInv' /\ SleepInv' /\ WaitInv' /\ RunInv' /\ PcInv' /\ pc' \in [Thread -> PC]
  BY <1>1, StayKeeps DEF SemaTryDown, timerVars
<1>3. TypeOK'
  <2>1. value' \in [Sema -> 0..MaxValue]
    BY NumberAssumption DEF IInv, TypeOK, SemaTryDown
  <2> QED BY <1>1, <1>2, <2>1, SchedTypes
       DEF IInv, TypeOK, SemaTryDown, timerVars, priVars
<1>4. SliceInv'
  BY <1>1, NumberAssumption
     DEF SchedKept, IInv, ListInv, TypeOK, SliceInv, SemaTryDown, timerVars
<1> QED BY <1>2, <1>3, <1>4 DEF IInv, ListInv

\* The clock reading of timer_sleep.
LEMMA TimerSleepStep ==
  ASSUME IInv, NEW n \in Durations, TimerSleep(n)
  PROVE  IInv'
<1>1. SchedKept
  BY MaybeYield DEF TimerSleep
<1>2. /\ cur # Idle /\ pc[cur] = "run" /\ Goto("timer_sleep")
      /\ UNCHANGED <<sleep_list, waiters, child, sema>>
  BY CurFacts DEF TimerSleep, At, semaVars
<1>3. ReadyInv' /\ SleepInv' /\ WaitInv' /\ RunInv' /\ PcInv' /\ pc' \in [Thread -> PC]
  BY <1>1, <1>2, GotoKeeps DEF BusyPC, PC, IntrOffPC, CreatePC
<1>4. TypeOK'
  <2>1. ticks + n \in Nat
    BY NumberAssumption DEF IInv, TypeOK
  <2>2. wakeup_tick' \in [Thread -> Nat]
    BY <2>1, CurFacts DEF IInv, TypeOK, TimerSleep
  <2> QED BY <1>1, <1>3, <2>2, SchedTypes
       DEF IInv, TypeOK, TimerSleep, semaVars, priVars
<1>5. SliceInv'
  BY <1>1, NumberAssumption
     DEF SchedKept, IInv, ListInv, TypeOK, SliceInv, TimerSleep
<1> QED BY <1>3, <1>4, <1>5 DEF IInv, ListInv

\* The part of timer_interrupt before timer_wakeup.
LEMMA TimerInterruptStep ==
  ASSUME IInv, TimerInterrupt
  PROVE  IInv'
<1>1. /\ thread_ticks \in 0..(TIME_SLICE - 1)
      /\ thread_ticks' = thread_ticks + 1
      /\ UNCHANGED <<cur, status, ready_list>>
  BY NumberAssumption DEF IInv, ListInv, TypeOK, SliceInv, TimerInterrupt, IntrOn
<1>2. /\ CurMoves
      /\ ReadyInv' /\ RunInv'
      /\ pc' \in [Thread -> PC]
  <2>1. /\ pc' \in [Thread -> PC]
        /\ pc'[cur] = pc[cur] \/ (pc[cur] = "hlt" /\ pc'[cur] = "idle")
        /\ \A t \in Thread \ {cur} : pc'[t] = pc[t]
    BY CurFacts DEF TimerInterrupt, AfterInterrupt, PC, IntrOffPC
  <2>2. pc'[cur] \in IF cur = Idle THEN {"idle", "hlt"} ELSE BusyPC
    BY <2>1, CurFacts DEF BusyPC
  <2>3. /\ pc'[cur] = "sema_down" => sema[cur] \in Sema
        /\ pc'[cur] \in CreatePC <=> pc[cur] \in CreatePC
    BY <2>1, CurFacts DEF IInv, ListInv, PcInv, CreatePC
  <2>4. UNCHANGED <<sleep_list, waiters, child, sema>>
    BY DEF TimerInterrupt, semaVars
  <2>5. CurMoves
    BY <1>1, <2>1, <2>2, <2>3, <2>4, CurFacts DEF CurMoves, Awake
  <2>6. ReadyInv' /\ RunInv'
    BY <1>1 DEF IInv, ListInv, ReadyInv, RunInv
  <2> QED BY <2>1, <2>5, <2>6
<1>3. SleepInv' /\ WaitInv' /\ PcInv'
  BY <1>2, CurMovesKeeps
<1>4. TypeOK'
  <2>1. ticks' \in 0..MaxTicks /\ thread_ticks' \in 0..TIME_SLICE
    BY <1>1, NumberAssumption DEF IInv, TypeOK, TimerInterrupt
  <2>2. intr' \in {"none", "timer"} /\ yield_on_return' \in BOOLEAN
    BY DEF TimerInterrupt
  <2> QED BY <1>1, <1>2, <2>1, <2>2
       DEF IInv, TypeOK, TimerInterrupt, semaVars, priVars
<1>5. SliceInv'
  <2>1. intr' = "timer" /\ yield_on_return' = (thread_ticks + 1 >= TIME_SLICE)
    BY DEF TimerInterrupt
  <2>2. ~(thread_ticks + 1 >= TIME_SLICE) => thread_ticks' < TIME_SLICE
    BY <1>1, NumberAssumption
  <2>3. intr' = "timer" /\ ~yield_on_return' => thread_ticks' < TIME_SLICE
    BY <2>1, <2>2, Zenon
  <2> QED BY <2>1, <2>3 DEF SliceInv
<1> QED BY <1>2, <1>3, <1>4, <1>5 DEF IInv, ListInv

\* The return from the timer interrupt.
LEMMA TimerReturnStep ==
  ASSUME IInv, TimerReturn
  PROVE  IInv'
<1>1. SchedKept
  BY MaybeYield DEF TimerReturn
<1>2. ReadyInv' /\ SleepInv' /\ WaitInv' /\ RunInv' /\ PcInv' /\ pc' \in [Thread -> PC]
  BY <1>1, StayKeeps DEF TimerReturn, semaVars
<1>3. TypeOK'
  <2>1. intr' \in {"none", "timer"} /\ yield_on_return' \in BOOLEAN
    BY DEF TimerReturn
  <2>2. UNCHANGED <<sleep_list, wakeup_tick, ticks, sema, value, waiters, priority,
                    base_priority, cand, child, panic>>
    BY DEF TimerReturn, semaVars, priVars
  <2> QED BY <1>1, <1>2, <2>1, <2>2, SchedTypes DEF IInv, TypeOK
<1>4. SliceInv'
  <2>1. CASE yield_on_return
    <3>1. Switched(ready_list, status, "READY")
      BY <2>1, ConsistentNow, YieldEffect DEF TimerReturn
    <3> QED BY <3>1, NumberAssumption DEF Switched, SliceInv, TimerReturn
  <2>2. CASE ~yield_on_return
    BY <2>2 DEF IInv, ListInv, SliceInv, TimerReturn, schedVars
  <2> QED BY <2>1, <2>2
<1> QED BY <1>2, <1>3, <1>4 DEF IInv, ListInv

\* thread_create up to init_thread.
LEMMA ThreadCreateStep ==
  ASSUME IInv, NEW t \in Thread, NEW pri \in Priority, ThreadCreate(t, pri)
  PROVE  IInv'
<1>1. /\ cur = Main /\ pc[cur] = "run" /\ status[t] = "FREE" /\ t # cur
      /\ pc[t] = "dead" /\ t # Idle /\ t # NoThread
  BY CurFacts, ThreadAssumption DEF ThreadCreate, At, IInv, ListInv, PcInv
<1>2. /\ status' \in [Thread -> Status]
      /\ \A u \in Thread : status'[u] = IF u = t THEN "BLOCKED" ELSE status[u]
  BY DEF ThreadCreate, IInv, TypeOK, Status
<1>3. /\ pc' \in [Thread -> PC]
      /\ \A u \in Thread : pc'[u] = IF u = cur THEN "allocate_tid"
                                    ELSE IF u = t THEN "nascent" ELSE pc[u]
  BY <1>1, CurFacts DEF ThreadCreate, PC, IntrOffPC
<1>4. UNCHANGED <<cur, ready_list, thread_ticks, sleep_list, ticks, intr,
                  yield_on_return, sema, value, waiters, cand, panic>>
  BY DEF ThreadCreate, semaVars
<1>5. ReadyInv'
  BY <1>1, <1>2, <1>4 DEF IInv, ListInv, ReadyInv
<1>6. SleepInv'
  BY <1>1, <1>2, <1>3, <1>4, CurFacts DEF IInv, ListInv, SleepInv
<1>7. WaitInv'
  <2>1. ASSUME NEW u \in Thread, NEW s \in Sema
        PROVE  u \in Range(waiters[s]) <=> /\ status'[u] = "BLOCKED"
                                           /\ pc'[u] = "sema_down"
                                           /\ sema[u] = s
    BY <1>1, <1>2, <1>3, CurFacts DEF IInv, ListInv, WaitInv
  <2> QED BY <1>4, <2>1 DEF IInv, ListInv, WaitInv
<1>8. RunInv'
  BY <1>1, <1>2, <1>4 DEF IInv, ListInv, RunInv
<1>9. PcInv'
  <2>1. child' = t /\ child = NoThread
    BY <1>1, CurFacts DEF ThreadCreate, CreatePC
  <2>2. \A u \in Thread : pc[u] # "nascent"
    BY <2>1, ThreadAssumption DEF IInv, ListInv, PcInv
  <2> QED BY <1>1, <1>2, <1>3, <1>4, <2>1, <2>2, CurFacts
          DEF IInv, ListInv, PcInv, CreatePC
<1>10. SliceInv'
  BY <1>4 DEF IInv, ListInv, SliceInv
<1>11. TypeOK'
  <2>1. /\ priority' \in [Thread -> Priority]
        /\ base_priority' \in [Thread -> Priority]
        /\ wakeup_tick' \in [Thread -> Nat]
        /\ child' \in Thread \union {NoThread}
    BY DEF ThreadCreate, IInv, TypeOK
  <2> QED BY <1>2, <1>3, <1>4, <2>1 DEF IInv, TypeOK
<1> QED BY <1>5, <1>6, <1>7, <1>8, <1>9, <1>10, <1>11 DEF IInv, ListInv

\* The thread_unblock of thread_create.
LEMMA UnblockChildStep ==
  ASSUME IInv, UnblockChild
  PROVE  IInv'
<1>1. /\ cur = Main /\ pc[cur] = "thread_unblock" /\ child \in Thread /\ child # cur
      /\ pc[child] = "nascent" /\ status[child] = "BLOCKED" /\ child # Idle
  BY CurFacts, ThreadAssumption DEF UnblockChild, At, IInv, ListInv, PcInv, CreatePC
<1>2. /\ Consistent(ready_list', status')
      /\ \A u \in Thread : status'[u] = IF u = child THEN "READY" ELSE status[u]
  BY <1>1, UnblockEffect DEF UnblockChild
<1>3. /\ pc' \in [Thread -> PC]
      /\ \A u \in Thread : pc'[u] = IF u = cur THEN "cp_empty"
                                    ELSE IF u = child THEN "run" ELSE pc[u]
  BY <1>1, CurFacts DEF UnblockChild, PC, IntrOffPC
<1>4. UNCHANGED <<cur, thread_ticks, sleep_list, wakeup_tick, ticks, intr,
                  yield_on_return, sema, value, waiters, priority, base_priority,
                  cand, panic>>
  BY DEF UnblockChild, timerVars, semaVars, priVars
<1>5. ReadyInv' /\ RunInv'
  BY <1>2, <1>4 DEF Consistent, ReadyInv, RunInv
<1>6. SleepInv'
  BY <1>1, <1>2, <1>3, <1>4, CurFacts DEF IInv, ListInv, SleepInv
<1>7. WaitInv'
  BY <1>1, <1>2, <1>3, <1>4, CurFacts DEF IInv, ListInv, WaitInv
<1>8. PcInv'
  <2>1. child' = NoThread
    BY DEF UnblockChild
  <2> QED BY <1>1, <1>2, <1>3, <1>4, <2>1, CurFacts, ThreadAssumption
          DEF IInv, ListInv, PcInv, CreatePC
<1>9. SliceInv'
  BY <1>4 DEF IInv, ListInv, SliceInv
<1>10. TypeOK'
  <2>1. child' \in Thread \union {NoThread}
    BY DEF UnblockChild
  <2> QED BY <1>2, <1>3, <1>4, <2>1 DEF IInv, TypeOK, Consistent
<1> QED BY <1>5, <1>6, <1>7, <1>8, <1>9, <1>10 DEF IInv, ListInv

\* thread_exit.
LEMMA ThreadExitStep ==
  ASSUME IInv, ThreadExit
  PROVE  IInv'
<1>1. cur # Idle /\ pc[cur] = "run" /\ Switched(ready_list, status, "DYING")
  BY CurFacts, ConsistentNow, LeaveEffect DEF ThreadExit, At
<1>2. /\ pc' \in [Thread -> PC]
      /\ \A u \in Thread : pc'[u] = IF u = cur THEN "dead" ELSE pc[u]
  BY CurFacts DEF ThreadExit, Goto, PC, IntrOffPC
<1>3. UNCHANGED <<sleep_list, wakeup_tick, ticks, intr, yield_on_return, sema, value,
                  waiters, priority, base_priority, cand, child, panic>>
  BY DEF ThreadExit, timerVars, semaVars, priVars
<1>4. /\ cur' # cur
      /\ \A u \in Thread \ {cur, Idle} : status'[u] = "BLOCKED" <=> status[u] = "BLOCKED"
      /\ \A u \in Thread \ {cur} : status'[u] = "DYING" <=> status[u] = "DYING"
      /\ \A u \in Thread \ {cur} : status'[u] = "FREE" <=> status[u] = "FREE"
      /\ status'[cur] \in {"FREE", "DYING"}
      /\ status'[cur] = "DYING" => cur = Main
  BY <1>1, CurFacts DEF Switched, IInv, ListInv, PcInv
<1>5. SleepInv'
  BY <1>1, <1>2, <1>3, <1>4, CurFacts DEF IInv, ListInv, SleepInv, PcInv
<1>6. WaitInv'
  BY <1>1, <1>2, <1>3, <1>4, CurFacts DEF IInv, ListInv, WaitInv, PcInv
<1>7. PcInv'
  BY <1>1, <1>2, <1>3, <1>4, CurFacts, ThreadAssumption DEF IInv, ListInv, PcInv, CreatePC
<1>8. SliceInv'
  BY <1>1, NumberAssumption DEF Switched, SliceInv
<1>9. TypeOK'
  BY <1>1, <1>2, <1>3, NumberAssumption DEF IInv, TypeOK, Switched
<1> QED BY <1>1, <1>5, <1>6, <1>7, <1>8, <1>9 DEF IInv, ListInv, Switched

\* The thread_block of idle().
LEMMA IdleBlockStep ==
  ASSUME IInv, IdleBlock
  PROVE  IInv'
<1>1. cur = Idle /\ pc[cur] = "idle" /\ Switched(ready_list, status, "BLOCKED")
  BY CurFacts, ConsistentNow, LeaveEffect DEF IdleBlock, At, thread_block
<1>2. /\ pc' \in [Thread -> PC]
      /\ \A u \in Thread : pc'[u] = IF u = cur THEN "hlt" ELSE pc[u]
  BY CurFacts DEF IdleBlock, Goto, PC, IntrOffPC
<1>3. UNCHANGED <<sleep_list, wakeup_tick, ticks, intr, yield_on_return, sema, value,
                  waiters, priority, base_priority, cand, child, panic>>
  BY DEF IdleBlock, timerVars, semaVars, priVars
<1>4. /\ \A u \in Thread \ {Idle} : status'[u] = "BLOCKED" <=> status[u] = "BLOCKED"
      /\ \A u \in Thread : status'[u] = "DYING" <=> status[u] = "DYING"
      /\ \A u \in Thread : status'[u] = "FREE" <=> status[u] = "FREE"
  BY <1>1, CurFacts DEF Switched
<1>5. SleepInv'
  BY <1>1, <1>2, <1>3, <1>4 DEF IInv, ListInv, SleepInv, PcInv
<1>6. WaitInv'
  BY <1>1, <1>2, <1>3, <1>4 DEF IInv, ListInv, WaitInv, PcInv
<1>7. PcInv'
  BY <1>1, <1>2, <1>3, <1>4, CurFacts, ThreadAssumption DEF IInv, ListInv, PcInv, CreatePC
<1>8. SliceInv'
  BY <1>1, NumberAssumption DEF Switched, SliceInv
<1>9. TypeOK'
  BY <1>1, <1>2, <1>3, NumberAssumption DEF IInv, TypeOK, Switched
<1> QED BY <1>1, <1>5, <1>6, <1>7, <1>8, <1>9 DEF IInv, ListInv, Switched

\* The part of timer_sleep with interrupts off.
LEMMA TimerSleepBlockStep ==
  ASSUME IInv, TimerSleepBlock
  PROVE  IInv'
<1>1. cur # Idle /\ pc[cur] = "timer_sleep" /\ Switched(ready_list, status, "BLOCKED")
  BY CurFacts, ConsistentNow, LeaveEffect DEF TimerSleepBlock, At, thread_block
<1>2. /\ pc' \in [Thread -> PC]
      /\ \A u \in Thread : pc'[u] = IF u = cur THEN "asleep" ELSE pc[u]
  BY CurFacts DEF TimerSleepBlock, Goto, PC, IntrOffPC
<1>3. UNCHANGED <<wakeup_tick, ticks, intr, yield_on_return, sema, value, waiters,
                  priority, base_priority, cand, child, panic>>
  BY DEF TimerSleepBlock, semaVars, priVars
<1>4. /\ cur' # cur
      /\ status'[cur] = "BLOCKED"
      /\ \A u \in Thread \ {cur, Idle} : status'[u] = "BLOCKED" <=> status[u] = "BLOCKED"
      /\ \A u \in Thread : status'[u] = "DYING" <=> status[u] = "DYING"
      /\ \A u \in Thread : status'[u] = "FREE" <=> status[u] = "FREE"
  BY <1>1, CurFacts DEF Switched, IInv, ListInv, PcInv
<1>5. SleepInv' /\ sleep_list' \in Seq(Thread)
  <2>1. cur \notin Range(sleep_list) /\ IsInjective(sleep_list)
    BY CurFacts DEF IInv, ListInv, SleepInv
  <2>2. /\ sleep_list' \in Seq(Thread)
        /\ IsInjective(sleep_list')
        /\ \A u : u \in Range(sleep_list') <=> u \in Range(sleep_list) \/ u = cur
    BY <2>1, InsertRange, CurFacts DEF TimerSleepBlock, IInv, TypeOK
  <2>3. ASSUME NEW u \in Thread
        PROVE  u \in Range(sleep_list') <=> status'[u] = "BLOCKED" /\ pc'[u] = "asleep"
    BY <1>1, <1>2, <1>4, <2>2 DEF IInv, ListInv, SleepInv, PcInv
  <2> QED BY <2>2, <2>3 DEF SleepInv
<1>6. WaitInv'
  <2>1. ASSUME NEW u \in Thread, NEW s \in Sema
        PROVE  u \in Range(waiters[s]) <=> /\ status'[u] = "BLOCKED"
                                           /\ pc'[u] = "sema_down"
                                           /\ sema[u] = s
    BY <1>1, <1>2, <1>4, CurFacts DEF IInv, ListInv, WaitInv, PcInv
  <2> QED BY <1>3, <2>1 DEF IInv, ListInv, WaitInv
<1>7. PcInv'
  BY <1>1, <1>2, <1>3, <1>4, CurFacts, ThreadAssumption DEF IInv, ListInv, PcInv, CreatePC
<1>8. SliceInv'
  BY <1>1, NumberAssumption DEF Switched, SliceInv
<1>9. TypeOK'
  BY <1>1, <1>2, <1>3, <1>5, NumberAssumption DEF IInv, TypeOK, Switched
<1> QED BY <1>1, <1>5, <1>6, <1>7, <1>8, <1>9 DEF IInv, ListInv, Switched

\* The loop of sema_down, first time round or again.
LEMMA SemaDownLoopStep ==
  ASSUME IInv, NEW s \in Sema, sema_down_loop(s), pc[cur] \in {"run", "sema_down"},
         UNCHANGED <<timerVars, priVars, cand, child, panic>>
  PROVE  IInv'
<1>1. cur # Idle
  BY CurFacts
<1>2. UNCHANGED <<sleep_list, wakeup_tick, ticks, intr, yield_on_return, priority,
                  base_priority, cand, child, panic>>
  BY DEF timerVars, priVars
<1>3. CASE value[s] = 0
  <2>1. Switched(ready_list, status, "BLOCKED") /\ UNCHANGED value
    BY <1>3, ConsistentNow, LeaveEffect DEF sema_down_loop, thread_block
  <2>2. /\ pc' \in [Thread -> PC]
        /\ \A u \in Thread : pc'[u] = IF u = cur THEN "sema_down" ELSE pc[u]
    BY <1>3, CurFacts DEF sema_down_loop, Goto, PC, IntrOffPC
  <2>3. /\ sema' \in [Thread -> Sema \union {NoSema}]
        /\ \A u \in Thread : sema'[u] = IF u = cur THEN s ELSE sema[u]
    BY ZenonT(40), <1>3, CurFacts DEF sema_down_loop, IInv, TypeOK
  <2>4. /\ cur' # cur
        /\ status'[cur] = "BLOCKED"
        /\ \A u \in Thread \ {cur, Idle} : status'[u] = "BLOCKED" <=> status[u] = "BLOCKED"
        /\ \A u \in Thread : status'[u] = "DYING" <=> status[u] = "DYING"
        /\ \A u \in Thread : status'[u] = "FREE" <=> status[u] = "FREE"
    BY <1>1, <2>1, CurFacts DEF Switched, IInv, ListInv, PcInv
  <2>5. SleepInv'
    BY <1>1, <1>2, <2>2, <2>4, CurFacts DEF IInv, ListInv, SleepInv, PcInv
  <2>6. WaitInv' /\ waiters' \in [Sema -> Seq(Thread)]
    <3> DEFINE w == list_insert_ordered(waiters[s], cur, less_priority(cur, priority))
    <3>1. waiters[s] \in Seq(Thread) /\ IsInjective(waiters[s]) /\ cur \notin Range(waiters[s])
      BY CurFacts DEF IInv, TypeOK, ListInv, WaitInv
    <3>2. /\ w \in Seq(Thread) /\ IsInjective(w)
          /\ \A u : u \in Range(w) <=> u \in Range(waiters[s]) \/ u = cur
      BY <3>1, InsertRange, CurFacts
    <3>3. waiters' = [waiters EXCEPT ![s] = w]
      BY <1>3 DEF sema_down_loop
    <3> HIDE DEF w
    <3>4. /\ waiters' \in [Sema -> Seq(Thread)]
          /\ \A r \in Sema : waiters'[r] = IF r = s THEN w ELSE waiters[r]
      BY <3>2, <3>3 DEF IInv, TypeOK
    <3>5. ASSUME NEW r \in Sema, NEW u \in Thread
          PROVE  u \in Range(waiters'[r]) <=> /\ status'[u] = "BLOCKED"
                                              /\ pc'[u] = "sema_down"
                                              /\ sema'[u] = r
      <4>1. u \in Range(waiters[r]) <=> /\ status[u] = "BLOCKED"
                                        /\ pc[u] = "sema_down"
                                        /\ sema[u] = r
        BY DEF IInv, ListInv, WaitInv
      <4>2. u \in Range(waiters'[r]) <=> u \in Range(waiters[r]) \/ (r = s /\ u = cur)
        BY <3>2, <3>4
      <4>3. CASE u = cur
        BY <2>2, <2>3, <2>4, <4>1, <4>2, <4>3, CurFacts
      <4>4. CASE u = Idle
        <5>1. pc[u] # "sema_down" /\ pc'[u] = pc[u] /\ u # cur
          BY <1>1, <2>2, <4>4 DEF IInv, ListInv, PcInv
        <5> QED BY <4>1, <4>2, <5>1
      <4>5. CASE u # cur /\ u # Idle
        BY <2>2, <2>3, <2>4, <4>1, <4>2, <4>5
      <4> QED BY <4>3, <4>4, <4>5
    <3>6. \A r \in Sema : IsInjective(waiters'[r])
      BY <3>2, <3>4 DEF IInv, ListInv, WaitInv
    <3> QED BY <3>4, <3>5, <3>6 DEF WaitInv
  <2>7. PcInv'
    BY <1>1, <1>2, <2>2, <2>3, <2>4, CurFacts, ThreadAssumption
       DEF IInv, ListInv, PcInv, CreatePC
  <2>8. SliceInv'
    BY <2>1, NumberAssumption DEF Switched, SliceInv
  <2>9. TypeOK'
    BY <1>2, <2>1, <2>2, <2>3, <2>6, NumberAssumption DEF IInv, TypeOK, Switched
  <2> QED BY <2>1, <2>5, <2>6, <2>7, <2>8, <2>9 DEF IInv, ListInv, Switched
<1>4. CASE value[s] # 0
  <2>1. UNCHANGED schedVars /\ UNCHANGED waiters /\ Goto("run")
    BY <1>4 DEF sema_down_loop
  <2>2. SchedKept
    BY <2>1, MaybeYield
  <2>3. /\ sema' \in [Thread -> Sema \union {NoSema}]
        /\ \A t \in Thread \ {cur} : sema'[t] = sema[t]
    BY <1>4, CurFacts DEF sema_down_loop, IInv, TypeOK
  <2>4. ReadyInv' /\ SleepInv' /\ WaitInv' /\ RunInv' /\ PcInv' /\ pc' \in [Thread -> PC]
    BY <1>1, <1>2, <2>1, <2>2, <2>3, GotoKeeps DEF BusyPC, PC, IntrOffPC, CreatePC
  <2>5. TypeOK'
    <3>1. value' \in [Sema -> 0..MaxValue]
      <4>1. value \in [Sema -> 0..MaxValue] /\ value[s] - 1 \in 0..MaxValue
        BY <1>4, NumberAssumption DEF IInv, TypeOK
      <4>2. value' = [value EXCEPT ![s] = value[s] - 1]
        BY <1>4 DEF sema_down_loop
      <4> QED BY <4>1, <4>2
    <3> QED BY <1>2, <2>1, <2>2, <2>3, <2>4, <3>1, SchedTypes
            DEF IInv, TypeOK
  <2>6. SliceInv'
    BY <1>2, <2>1 DEF schedVars, IInv, ListInv, SliceInv
  <2> QED BY <2>4, <2>5, <2>6 DEF IInv, ListInv
<1> QED BY <1>3, <1>4

\* sema_down.
LEMMA SemaDownStep ==
  ASSUME IInv, NEW s \in Sema, SemaDown(s)
  PROVE  IInv'
BY SemaDownLoopStep DEF SemaDown, At

\* sema_down after thread_block has returned.
LEMMA SemaDownAgainStep ==
  ASSUME IInv, SemaDownAgain
  PROVE  IInv'
<1>1. pc[cur] = "sema_down" /\ sema[cur] \in Sema
  BY CurFacts DEF SemaDownAgain, At, IInv, ListInv, PcInv
<1> QED BY <1>1, SemaDownLoopStep DEF SemaDownAgain

\* The part of sema_up with interrupts off: the lists it leaves, with the
\* states it leaves, are as the invariant wants them.
LEMMA UpEffect ==
  ASSUME IInv, NEW s \in Sema
  PROVE  /\ Consistent(upped_queue(s), upped_status(s))
         /\ upped_waiters(s) \in [Sema -> Seq(Thread)]
         /\ \A r \in Sema : IsInjective(upped_waiters(s)[r])
         /\ \A r \in Sema, u \in Thread :
                u \in Range(upped_waiters(s)[r]) <=>
                    upped_status(s)[u] = "BLOCKED" /\ pc[u] = "sema_down" /\ sema[u] = r
         /\ \A u \in Thread :
                \/ upped_status(s)[u] = status[u]
                \/ /\ upped_status(s)[u] = "READY" /\ status[u] = "BLOCKED"
                   /\ pc[u] = "sema_down"
<1>1. CASE waiters[s] = <<>>
  <2>1. upped_queue(s) = ready_list /\ upped_status(s) = status /\ upped_waiters(s) = waiters
    BY <1>1 DEF upped_queue, upped_status, upped_waiters
  <2> QED BY <2>1, ConsistentNow DEF IInv, TypeOK, ListInv, WaitInv
<1>2. CASE waiters[s] # <<>>
  <2> DEFINE h == Head(waiters[s])
             w == Tail(waiters[s])
  <2>1. waiters[s] \in Seq(Thread) /\ IsInjective(waiters[s])
    BY DEF IInv, TypeOK, ListInv, WaitInv
  <2>2. /\ h \in Thread /\ h \in Range(waiters[s])
        /\ w \in Seq(Thread) /\ IsInjective(w)
        /\ \A t : t \in Range(w) <=> t \in Range(waiters[s]) /\ t # h
    BY <1>2, <2>1, PopRange
  <2>3. /\ upped_queue(s) = unblocked_queue(h)
        /\ upped_status(s) = unblocked_status(h)
        /\ upped_waiters(s) = [waiters EXCEPT ![s] = w]
    BY <1>2 DEF upped_queue, upped_status, upped_waiters
  <2> HIDE DEF h, w
  <2>4. status[h] = "BLOCKED" /\ pc[h] = "sema_down" /\ sema[h] = s
    BY <2>2 DEF IInv, ListInv, WaitInv
  <2>5. h # Idle
    BY <2>2, <2>4 DEF IInv, ListInv, PcInv
  <2>6. /\ Consistent(upped_queue(s), upped_status(s))
        /\ \A u \in Thread : upped_status(s)[u] = IF u = h THEN "READY" ELSE status[u]
    BY <2>2, <2>3, <2>4, <2>5, UnblockEffect
  <2>7. /\ upped_waiters(s) \in [Sema -> Seq(Thread)]
        /\ \A r \in Sema : upped_waiters(s)[r] = IF r = s THEN w ELSE waiters[r]
    BY <2>2, <2>3 DEF IInv, TypeOK
  <2>8. \A r \in Sema : IsInjective(upped_waiters(s)[r])
    BY <2>2, <2>7 DEF IInv, ListInv, WaitInv
  <2>9. ASSUME NEW r \in Sema, NEW u \in Thread
        PROVE  u \in Range(upped_waiters(s)[r]) <=>
                   upped_status(s)[u] = "BLOCKED" /\ pc[u] = "sema_down" /\ sema[u] = r
    <3>1. u \in Range(waiters[r]) <=> /\ status[u] = "BLOCKED"
                                      /\ pc[u] = "sema_down"
                                      /\ sema[u] = r
      BY DEF IInv, ListInv, WaitInv
    <3>2. u \in Range(upped_waiters(s)[r]) <=> u \in Range(waiters[r]) /\ ~(r = s /\ u = h)
      BY <2>2, <2>7
    <3> QED BY <2>4, <2>6, <3>1, <3>2
  <2>10. \A u \in Thread :
             \/ upped_status(s)[u] = status[u]
             \/ /\ upped_status(s)[u] = "READY" /\ status[u] = "BLOCKED"
                /\ pc[u] = "sema_down"
    BY <2>4, <2>6
  <2> QED BY <2>6, <2>7, <2>8, <2>9, <2>10
<1> QED BY <1>1, <1>2

\* What sema_up leaves of the wait lists, of the threads' states and of the
\* place of cur, whoever has the CPU afterwards.
LEMMA UpKeeps ==
  ASSUME IInv, NEW s \in Sema,
         value[s] < MaxValue, value' = [value EXCEPT ![s] = @ + 1],
         waiters' = upped_waiters(s),
         UNCHANGED <<timerVars, priVars, sema, cand, child, panic>>,
         cur' \in Thread, ready_list' \in Seq(Thread), status' \in [Thread -> Status],
         thread_ticks' = 0 \/ thread_ticks' = thread_ticks,
         ReadyInv', RunInv',
         \A t \in Thread :
             \/ status'[t] = upped_status(s)[t]
             \/ {upped_status(s)[t], status'[t]} \subseteq Awake
             \/ t = Idle /\ status'[t] \in Awake,
         pc' \in [Thread -> PC],
         \A t \in Thread \ {cur} : pc'[t] = pc[t],
         status'[cur] \in Awake,
         pc'[cur] \in IF cur = Idle THEN {"idle", "hlt"} ELSE BusyPC,
         pc'[cur] = "sema_down" => pc[cur] = "sema_down",
         pc'[cur] \in CreatePC <=> pc[cur] \in CreatePC
  PROVE  IInv'
<1>1. /\ \A r \in Sema : IsInjective(upped_waiters(s)[r])
      /\ upped_waiters(s) \in [Sema -> Seq(Thread)]
      /\ \A r \in Sema, u \in Thread :
             u \in Range(upped_waiters(s)[r]) <=>
                 upped_status(s)[u] = "BLOCKED" /\ pc[u] = "sema_down" /\ sema[u] = r
      /\ \A u \in Thread :
             \/ upped_status(s)[u] = status[u]
             \/ /\ upped_status(s)[u] = "READY" /\ status[u] = "BLOCKED"
                /\ pc[u] = "sema_down"
  BY UpEffect
<1>2. UNCHANGED <<sleep_list, wakeup_tick, ticks, intr, yield_on_return, priority,
                  base_priority, sema, cand, child, panic>>
  BY DEF timerVars, priVars
<1>3. \A u \in Thread \ {Idle} : status'[u] = "BLOCKED" <=> upped_status(s)[u] = "BLOCKED"
  BY DEF Awake
<1>4. upped_status(s)[cur] # "BLOCKED"
  BY <1>1, CurFacts
<1>5. \A u \in Thread : status'[u] \in {"FREE", "DYING"} \/ status[u] \in {"FREE", "DYING"} =>
                            status'[u] = status[u]
  <2>1. \A u \in Thread : status[u] \in {"FREE", "DYING"} <=> pc[u] = "dead"
    BY DEF IInv, ListInv, PcInv
  <2>2. Idle \in Thread => pc[Idle] # "dead"
    BY DEF IInv, ListInv, PcInv
  <2>3. \A u \in Thread : upped_status(s)[u] \in {"FREE", "DYING"} \/ status[u] \in {"FREE", "DYING"}
                             => upped_status(s)[u] = status[u]
    BY <1>1, <2>1
  <2> QED BY <2>1, <2>2, <2>3 DEF Awake
<1>6. \A u \in Thread \ {Idle} : \/ status'[u] = "BLOCKED" <=> status[u] = "BLOCKED"
                                 \/ pc[u] = "sema_down" /\ status'[u] # "BLOCKED"
  BY <1>1, <1>3
<1>7. WaitInv'
  <2>1. ASSUME NEW r \in Sema, NEW u \in Thread
        PROVE  u \in Range(waiters'[r]) <=>
                   status'[u] = "BLOCKED" /\ pc'[u] = "sema_down" /\ sema'[u] = r
    <3>1. u \in Range(waiters'[r]) <=>
              upped_status(s)[u] = "BLOCKED" /\ pc[u] = "sema_down" /\ sema[u] = r
      BY <1>1
    <3>2. CASE u = cur
      BY <1>4, <3>1, <3>2 DEF Awake
    <3>3. CASE u # cur /\ u = Idle
      <4>1. pc[u] # "sema_down" /\ pc'[u] = pc[u]
        BY <3>3 DEF IInv, ListInv, PcInv
      <4> QED BY <3>1, <4>1
    <3>4. CASE u # cur /\ u # Idle
      BY <1>2, <1>3, <3>1, <3>4
    <3> QED BY <3>2, <3>3, <3>4
  <2> QED BY <1>1, <2>1 DEF WaitInv
<1>8. SleepInv'
  <2>1. ASSUME NEW u \in Thread
        PROVE  u \in Range(sleep_list) <=> status'[u] = "BLOCKED" /\ pc'[u] = "asleep"
    <3>1. u \in Range(sleep_list) <=> status[u] = "BLOCKED" /\ pc[u] = "asleep"
      BY DEF IInv, ListInv, SleepInv
    <3>2. CASE u = cur
      BY <3>1, <3>2, CurFacts DEF Awake
    <3>3. CASE u # cur /\ u = Idle
      <4>1. pc[u] # "asleep" /\ pc'[u] = pc[u]
        BY <3>3 DEF IInv, ListInv, PcInv
      <4> QED BY <3>1, <4>1
    <3>4. CASE u # cur /\ u # Idle
      BY <1>6, <3>1, <3>4
    <3> QED BY <3>2, <3>3, <3>4
  <2> QED BY <1>2, <2>1 DEF IInv, ListInv, SleepInv
<1>9. PcInv'
  <2>1. ASSUME NEW t \in Thread, t # cur
        PROVE  /\ t = Idle <=> pc'[t] \in {"idle", "hlt"}
               /\ pc'[t] = "nascent" <=> t = child'
               /\ pc'[t] = "dead" <=> status'[t] \in {"FREE", "DYING"}
               /\ pc'[t] \in {"asleep", "nascent"} => status'[t] = "BLOCKED"
               /\ pc'[t] = "sema_down" => sema'[t] \in Sema
               /\ pc'[t] \in CreatePC => t = Main
               /\ status'[t] = "DYING" => t = Main
               /\ status'[t] = "BLOCKED" =>
                      pc'[t] \in {"asleep", "nascent", "sema_down", "idle", "hlt"}
    BY <1>2, <1>5, <1>6, <2>1 DEF IInv, ListInv, PcInv
  <2>2. /\ cur = Idle <=> pc'[cur] \in {"idle", "hlt"}
        /\ pc'[cur] # "nascent" /\ cur # child'
        /\ pc'[cur] # "dead" /\ status'[cur] \notin {"FREE", "DYING", "BLOCKED"}
        /\ pc'[cur] # "asleep"
        /\ pc'[cur] = "sema_down" => sema'[cur] \in Sema
        /\ pc'[cur] \in CreatePC => cur = Main
    BY <1>2, CurFacts DEF IInv, ListInv, PcInv, BusyPC, Awake
  <2>3. child' # NoThread <=> pc'[Main] \in CreatePC
    BY <1>2, ThreadAssumption DEF IInv, ListInv, PcInv
  <2> QED BY <2>1, <2>2, <2>3 DEF PcInv
<1>10. SliceInv'
  BY <1>2, NumberAssumption DEF IInv, ListInv, TypeOK, SliceInv
<1>11. TypeOK'
  <2>1. value' \in [Sema -> 0..MaxValue]
    <3>1. value \in [Sema -> 0..MaxValue] /\ value[s] + 1 \in 0..MaxValue
      BY NumberAssumption DEF IInv, TypeOK
    <3> QED BY <3>1
  <2>2. /\ priority' \in [Thread -> Priority] /\ base_priority' \in [Thread -> Priority]
        /\ wakeup_tick' \in [Thread -> Nat] /\ sema' \in [Thread -> Sema \union {NoSema}]
        /\ cand' \in [Thread -> Thread \union {NoThread}]
        /\ child' \in Thread \union {NoThread} /\ sleep_list' \in Seq(Thread)
        /\ ticks' \in 0..MaxTicks /\ intr' \in {"none", "timer"}
        /\ yield_on_return' \in BOOLEAN /\ panic' \in {"none", "list_front"}
    BY <1>2 DEF IInv, TypeOK
  <2>3. thread_ticks' \in 0..TIME_SLICE
    BY NumberAssumption DEF IInv, TypeOK
  <2>4. waiters' \in [Sema -> Seq(Thread)]
    BY <1>1
  <2> QED BY <2>1, <2>2, <2>3, <2>4 DEF TypeOK
<1> QED BY <1>7, <1>8, <1>9, <1>10, <1>11 DEF IInv, ListInv

\* sema_up in a thread.
LEMMA SemaUpStep ==
  ASSUME IInv, NEW s \in Sema, SemaUp(s)
  PROVE  IInv'
<1>1. /\ cur # Idle /\ pc[cur] = "run" /\ Goto("cp_empty")
      /\ value[s] < MaxValue /\ value' = [value EXCEPT ![s] = @ + 1]
      /\ waiters' = upped_waiters(s)
      /\ ready_list' = upped_queue(s) /\ status' = upped_status(s)
      /\ UNCHANGED <<cur, thread_ticks, timerVars, priVars, sema, cand, child, panic>>
  BY CurFacts DEF SemaUp, At
<1>2. Consistent(ready_list', status')
  BY <1>1, UpEffect
<1>3. ReadyInv' /\ RunInv' /\ status'[cur] \in Awake
  BY <1>1, <1>2 DEF Consistent, ReadyInv, RunInv, Awake
<1>4. /\ pc' \in [Thread -> PC]
      /\ pc'[cur] = "cp_empty"
      /\ \A t \in Thread \ {cur} : pc'[t] = pc[t]
  BY <1>1, CurFacts DEF Goto, PC, IntrOffPC
<1>5. /\ pc'[cur] \in IF cur = Idle THEN {"idle", "hlt"} ELSE BusyPC
      /\ pc'[cur] # "sema_down"
      /\ pc'[cur] \in CreatePC <=> pc[cur] \in CreatePC
  BY <1>1, <1>4 DEF BusyPC, PC, IntrOffPC, CreatePC
<1>6. cur' \in Thread /\ ready_list' \in Seq(Thread) /\ status' \in [Thread -> Status]
  BY <1>1, <1>2 DEF Consistent
<1> QED BY <1>1, <1>3, <1>4, <1>5, <1>6, UpKeeps

\* sema_up in an interrupt handler.
LEMMA DeviceInterruptStep ==
  ASSUME IInv, NEW s \in Sema, DeviceInterrupt(s)
  PROVE  IInv'
<1>1. /\ value[s] < MaxValue /\ value' = [value EXCEPT ![s] = @ + 1]
      /\ waiters' = upped_waiters(s)
      /\ UNCHANGED <<timerVars, priVars, sema, cand, child, panic>>
  BY DEF DeviceInterrupt
<1>2. /\ pc' \in [Thread -> PC]
      /\ pc'[cur] = pc[cur] \/ (pc[cur] = "hlt" /\ pc'[cur] = "idle")
      /\ \A t \in Thread \ {cur} : pc'[t] = pc[t]
  BY CurFacts DEF DeviceInterrupt, AfterInterrupt, PC, IntrOffPC
<1>3. /\ pc'[cur] \in IF cur = Idle THEN {"idle", "hlt"} ELSE BusyPC
      /\ pc'[cur] = "sema_down" => pc[cur] = "sema_down"
      /\ pc'[cur] \in CreatePC <=> pc[cur] \in CreatePC
  BY <1>2, CurFacts DEF BusyPC, CreatePC
<1>4. Consistent(upped_queue(s), upped_status(s))
  BY UpEffect
<1>5. CASE outranked(upped_queue(s), priority)
  <2>1. Switched(upped_queue(s), upped_status(s), "READY")
    BY <1>4, <1>5, YieldEffect DEF DeviceInterrupt
  <2>2. /\ cur' \in Thread /\ ready_list' \in Seq(Thread) /\ status' \in [Thread -> Status]
        /\ thread_ticks' = 0 /\ ReadyInv' /\ RunInv'
        /\ status'[cur] \in Awake
    BY <2>1, CurFacts DEF Switched, Awake
  <2>3. upped_status(s)[cur] = "RUNNING"
    BY <1>4, CurFacts DEF Consistent
  <2>4. \A t \in Thread :
            \/ status'[t] = upped_status(s)[t]
            \/ {upped_status(s)[t], status'[t]} \subseteq Awake
            \/ t = Idle /\ status'[t] \in Awake
    BY <2>1, <2>3, CurFacts DEF Switched, Awake
  <2> QED BY <1>1, <1>2, <1>3, <2>2, <2>4, UpKeeps
<1>6. CASE ~outranked(upped_queue(s), priority)
  <2>1. /\ ready_list' = upped_queue(s) /\ status' = upped_status(s)
        /\ UNCHANGED <<cur, thread_ticks>>
    BY <1>6 DEF DeviceInterrupt
  <2>2. ReadyInv' /\ RunInv' /\ status'[cur] \in Awake
    BY <1>4, <2>1 DEF Consistent, ReadyInv, RunInv, Awake
  <2>3. cur' \in Thread /\ ready_list' \in Seq(Thread) /\ status' \in [Thread -> Status]
    BY <1>4, <2>1 DEF Consistent
  <2> QED BY <1>1, <1>2, <1>3, <2>1, <2>2, <2>3, UpKeeps
<1> QED BY <1>5, <1>6

\* One round of timer_wakeup.
LEMMA TimerWakeupStep ==
  ASSUME IInv, TimerWakeup
  PROVE  IInv'
<1> DEFINE h == Head(sleep_list)
<1>1. /\ sleep_list # <<>> /\ sleep_list' = Tail(sleep_list)
      /\ ready_list' = unblocked_queue(h) /\ status' = unblocked_status(h)
      /\ pc' = [pc EXCEPT ![h] = "run"]
      /\ UNCHANGED <<cur, thread_ticks, wakeup_tick, ticks, intr, yield_on_return,
                     sema, value, waiters, priority, base_priority, cand, child, panic>>
  BY DEF TimerWakeup, due, semaVars, priVars
<1>2. /\ h \in Thread /\ h \in Range(sleep_list)
      /\ sleep_list' \in Seq(Thread) /\ IsInjective(sleep_list')
      /\ \A t : t \in Range(sleep_list') <=> t \in Range(sleep_list) /\ t # h
  BY <1>1, PopRange DEF IInv, TypeOK, ListInv, SleepInv
<1> HIDE DEF h
<1>3. status[h] = "BLOCKED" /\ pc[h] = "asleep"
  BY <1>2 DEF IInv, ListInv, SleepInv
<1>4. h # Idle /\ h # cur /\ h # child
  BY <1>2, <1>3, CurFacts DEF IInv, ListInv, PcInv
<1>5. /\ Consistent(ready_list', status')
      /\ \A u \in Thread : status'[u] = IF u = h THEN "READY" ELSE status[u]
  BY <1>1, <1>2, <1>3, <1>4, UnblockEffect
<1>6. /\ pc' \in [Thread -> PC]
      /\ \A u \in Thread : pc'[u] = IF u = h THEN "run" ELSE pc[u]
  BY <1>1, <1>2, CurFacts DEF PC, IntrOffPC
<1>7. ReadyInv' /\ RunInv'
  BY <1>1, <1>5 DEF Consistent, ReadyInv, RunInv
<1>8. SleepInv'
  BY <1>2, <1>3, <1>5, <1>6 DEF IInv, ListInv, SleepInv
<1>9. WaitInv'
  <2>1. ASSUME NEW u \in Thread, NEW s \in Sema
        PROVE  u \in Range(waiters[s]) <=> /\ status'[u] = "BLOCKED"
                                           /\ pc'[u] = "sema_down"
                                           /\ sema[u] = s
    BY <1>3, <1>5, <1>6 DEF IInv, ListInv, WaitInv
  <2> QED BY <1>1, <2>1 DEF IInv, ListInv, WaitInv
<1>10. PcInv'
  BY <1>1, <1>2, <1>3, <1>4, <1>5, <1>6, CurFacts, ThreadAssumption
     DEF IInv, ListInv, PcInv, CreatePC
<1>11. SliceInv'
  BY <1>1 DEF IInv, ListInv, SliceInv
<1>12. TypeOK'
  BY <1>1, <1>2, <1>5, <1>6 DEF IInv, TypeOK, Consistent
<1> QED BY <1>7, <1>8, <1>9, <1>10, <1>11, <1>12 DEF IInv, ListInv

-----------------------------------------------------------------------------
(* The theorems.                                                           *)

\* The state after thread_start satisfies the invariant.
LEMMA InitEstablishes ==
  ASSUME Init
  PROVE  IInv
<1>1. TypeOK
  <2>1. <<>> \in Seq(Thread)
    OBVIOUS
  <2>2. status \in [Thread -> Status] /\ pc \in [Thread -> PC]
    BY DEF Init, Status, PC, IntrOffPC
  <2>3. priority \in [Thread -> Priority] /\ base_priority \in [Thread -> Priority]
    BY NumberAssumption DEF Init, Priority, PRI_MIN
  <2>4. /\ cur \in Thread
        /\ wakeup_tick \in [Thread -> Nat]
        /\ sema \in [Thread -> Sema \union {NoSema}]
        /\ cand \in [Thread -> Thread \union {NoThread}]
        /\ child \in Thread \union {NoThread}
    BY ThreadAssumption DEF Init
  <2>5. /\ ready_list \in Seq(Thread) /\ sleep_list \in Seq(Thread)
        /\ waiters \in [Sema -> Seq(Thread)] /\ value \in [Sema -> 0..MaxValue]
    BY <2>1 DEF Init
  <2>6. ticks \in 0..MaxTicks /\ thread_ticks \in 0..TIME_SLICE
    BY NumberAssumption DEF Init
  <2>7. /\ intr \in {"none", "timer"} /\ yield_on_return \in BOOLEAN
        /\ panic \in {"none", "list_front"}
    BY DEF Init
  <2> QED BY <2>2, <2>3, <2>4, <2>5, <2>6, <2>7 DEF TypeOK
<1>2. \A t : t \notin Range(<<>>)
  BY DEF Range
<1>3. IsInjective(<<>>)
  BY DEF IsInjective
<1>4. ReadyInv
  BY <1>2, <1>3, ThreadAssumption DEF Init, ReadyInv
<1>5. SleepInv
  BY <1>2, <1>3, ThreadAssumption DEF Init, SleepInv
<1>6. WaitInv
  <2>1. \A s \in Sema : waiters[s] = <<>>
    BY DEF Init
  <2>2. \A t \in Thread : pc[t] # "sema_down"
    BY DEF Init
  <2> QED BY <1>2, <1>3, <2>1, <2>2 DEF WaitInv
<1>7. RunInv
  BY ThreadAssumption DEF Init, RunInv
<1>8. PcInv
  BY ThreadAssumption DEF Init, PcInv, CreatePC
<1>9. SliceInv
  BY NumberAssumption DEF Init, SliceInv
<1> QED BY <1>1, <1>4, <1>5, <1>6, <1>7, <1>8, <1>9 DEF IInv, ListInv

\* Every step of the kernel preserves the invariant.
LEMMA NextPreserves ==
  ASSUME IInv, [Next]_vars
  PROVE  IInv'
<1>1. CASE UNCHANGED vars
  BY <1>1 DEF vars, schedVars, timerVars, semaVars, priVars, IInv, TypeOK, ListInv,
              ReadyInv, SleepInv, WaitInv, RunInv, PcInv, SliceInv
<1>2. CASE Call
  BY <1>2, ThreadCreateStep, ThreadSetPriorityStep, ThreadExitStep, ThreadYieldStep,
     SemaDownStep, SemaTryDownStep, SemaUpStep, TimerSleepStep DEF Call
<1>3. CASE Continue
  BY <1>3, AllocateTidStep, RefreshPriorityStep, UnblockChildStep, CheckEmptyStep,
     CheckFrontStep, CheckCompareStep, CheckYieldStep, SemaDownAgainStep,
     TimerSleepBlockStep, IdleBlockStep, TimerWakeupStep, TimerReturnStep DEF Continue
<1>4. CASE TimerInterrupt
  BY <1>4, TimerInterruptStep
<1>5. CASE \E s \in Sema : DeviceInterrupt(s)
  BY <1>5, DeviceInterruptStep
<1>6. CASE Halt
  BY <1>1, <1>6 DEF Halt
<1> QED BY <1>1, <1>2, <1>3, <1>4, <1>5, <1>6 DEF Next

\* IInv is an invariant of the scheduler, the semaphores and the alarm clock.
THEOREM Invariance == Spec => []IInv
BY InitEstablishes, NextPreserves, PTL DEF Spec

\* Type correctness: no handler writes a field outside its range, for any
\* number of threads; in particular thread_ticks never passes TIME_SLICE.
THEOREM TypeCorrect == Spec => []TypeOK
<1>1. IInv => TypeOK
  BY DEF IInv
<1> QED BY <1>1, Invariance, PTL

\* thread.h's condition on sharing `elem' holds in the scheduler, the
\* semaphores and the alarm clock.
THEOREM ElemIsShareable == Spec => []ElemOnOneList
<1>1. ASSUME IInv PROVE ElemOnOneList
  <2>1. /\ \A t \in Range(ready_list) : t \in Thread
        /\ \A t \in Range(sleep_list) : t \in Thread
        /\ \A s \in Sema : \A t \in Range(waiters[s]) : t \in Thread
    BY <1>1, ListOfThreads DEF IInv, TypeOK
  <2>2. /\ IsInjective(ready_list) /\ IsInjective(sleep_list)
        /\ \A s \in Sema : IsInjective(waiters[s])
    BY <1>1 DEF IInv, ListInv, ReadyInv, SleepInv, WaitInv
  <2>3. /\ \A t \in Range(ready_list) : status[t] = "READY"
        /\ \A t \in Range(sleep_list) : status[t] = "BLOCKED" /\ pc[t] = "asleep"
    BY <1>1, <2>1 DEF IInv, ListInv, ReadyInv, SleepInv
  <2>4. ASSUME NEW s \in Sema, NEW t \in Range(waiters[s])
        PROVE  status[t] = "BLOCKED" /\ pc[t] = "sema_down" /\ sema[t] = s
    BY <1>1, <2>1 DEF IInv, ListInv, WaitInv
  <2> QED BY <2>2, <2>3, <2>4 DEF ElemOnOneList
<1> QED BY <1>1, Invariance, PTL

\* A thread that is ready is on the run queue and a thread that is blocked is
\* on the list of what it waits for.
THEOREM NoneForgotten == Spec => []NoThreadForgotten
<1>1. ASSUME IInv PROVE NoThreadForgotten
  BY <1>1 DEF IInv, TypeOK, ListInv, ReadyInv, SleepInv, WaitInv, RunInv, PcInv,
              NoThreadForgotten
<1> QED BY <1>1, Invariance, PTL

-----------------------------------------------------------------------------
(* Order and the list operations.                                          *)

\* Only the keys of the threads on a list matter for its order.
LEMMA SameKeys ==
  ASSUME NEW list \in Seq(Thread), NEW key, NEW key2,
         \A t \in Range(list) : key2[t] = key[t]
  PROVE  /\ Falling(list, key) => Falling(list, key2)
         /\ Rising(list, key) => Rising(list, key2)
<1>1. \A i \in 1..Len(list) : key2[list[i]] = key[list[i]]
  BY LenProperties DEF Range
<1> QED BY <1>1 DEF Falling, Rising

\* An empty list is in order.
LEMMA EmptyInOrder ==
  ASSUME NEW key
  PROVE  Falling(<<>>, key) /\ Rising(<<>>, key)
BY DEF Falling, Rising

Negated(key) == [t \in Thread |-> 0 - key[t]]

\* Rising is falling with the signs of the keys changed, so that one lemma on
\* list_insert_ordered serves both orders.
LEMMA RisingIsFalling ==
  ASSUME NEW list \in Seq(Thread), NEW key \in [Thread -> Int]
  PROVE  /\ Negated(key) \in [Thread -> Int]
         /\ Rising(list, key) <=> Falling(list, Negated(key))
         /\ \A t \in Thread : wakeup_less(t, key) = less_priority(t, Negated(key))
<1>1. \A i \in 1..Len(list) : list[i] \in Thread
  BY LenProperties
<1>2. \A t \in Thread : key[t] \in Int /\ Negated(key)[t] = 0 - key[t]
  BY DEF Negated
<1>3. Negated(key) \in [Thread -> Int]
  BY DEF Negated
<1>4. \A i, j \in 1..Len(list) :
          key[list[i]] <= key[list[j]] <=> Negated(key)[list[j]] <= Negated(key)[list[i]]
  BY <1>1, <1>2
<1>5. \A t, u \in Thread : key[t] < key[u] <=> Negated(key)[t] > Negated(key)[u]
  BY <1>2
<1> QED BY <1>3, <1>4, <1>5 DEF Rising, Falling, wakeup_less, less_priority

\* list_insert_ordered with less_priority keeps a list falling in priority.
LEMMA InsertFalling ==
  ASSUME NEW list \in Seq(Thread), NEW elem \in Thread, NEW key \in [Thread -> Int],
         Falling(list, key)
  PROVE  Falling(list_insert_ordered(list, elem, less_priority(elem, key)), key)
<1> DEFINE greater == less_priority(elem, key)
           i == InsertPoint(list, greater)
           n == Len(list)
           r == list_insert_ordered(list, elem, greater)
           v == [j \in 1..n |-> key[list[j]]]
           e == key[elem]
<1>1. /\ n \in Nat /\ i \in 1..(n + 1)
      /\ r \in Seq(Thread) /\ Len(r) = n + 1
      /\ \A j \in 1..(n + 1) : r[j] = IF j < i THEN list[j]
                                      ELSE IF j = i THEN elem ELSE list[j - 1]
  BY LenProperties, InsertShape
<1>2. /\ i <= n => list[i] \in greater
      /\ \A j \in 1..(i - 1) : list[j] \notin greater
  BY InsertPointExists
<1>3. \A j \in 1..n : list[j] \in Thread
  BY LenProperties
<1>4. e \in Int /\ v \in [1..n -> Int] /\ \A j \in 1..n : v[j] = key[list[j]]
  BY <1>3
<1>5. \A j \in 1..n : list[j] \in greater <=> e > v[j]
  BY <1>3 DEF less_priority
<1>6. \A j, k \in 1..n : j < k => v[k] <= v[j]
  BY DEF Falling
<1> HIDE DEF i, n, r, greater, v, e
<1>7. ASSUME NEW j \in 1..n, j < i
      PROVE  e <= v[j]
  <2>1. j \in 1..(i - 1)
    BY <1>1, <1>7
  <2> QED BY <1>2, <1>4, <1>5, <2>1
<1>8. ASSUME NEW j \in 1..n, i <= j
      PROVE  v[j] <= e
  <2>1. i \in 1..n /\ i <= n
    BY <1>1, <1>8
  <2>2. e > v[i]
    BY <1>2, <1>5, <2>1
  <2>3. v[j] <= v[i]
    BY <1>4, <1>6, <1>8, <2>1
  <2> QED BY <1>4, <2>1, <2>2, <2>3
<1>9. ASSUME NEW j \in 1..(n + 1)
      PROVE  /\ j < i => j \in 1..n /\ key[r[j]] = v[j]
             /\ j = i => key[r[j]] = e
             /\ i < j => j - 1 \in 1..n /\ key[r[j]] = v[j - 1]
  <2>1. CASE j < i
    <3>1. j \in 1..n /\ r[j] = list[j]
      BY <1>1, <2>1
    <3>2. v[j] = key[list[j]] /\ j # i /\ ~(i < j)
      BY <1>1, <1>4, <2>1, <3>1
    <3> QED BY <3>1, <3>2
  <2>2. CASE j = i
    BY <1>1, <2>2 DEF e
  <2>3. CASE i < j
    <3>1. j - 1 \in 1..n /\ r[j] = list[j - 1]
      BY <1>1, <2>3
    <3> QED BY <1>1, <1>4, <2>3, <3>1
  <2> QED BY <1>1, <2>1, <2>2, <2>3
<1>10. ASSUME NEW j \in 1..(n + 1), NEW k \in 1..(n + 1), j < k
      PROVE  key[r[k]] <= key[r[j]]
  <2>1. CASE k < i
    <3>1. j < i
      BY <1>1, <1>10, <2>1
    <3> QED BY <1>6, <1>9, <1>10, <2>1, <3>1
  <2>2. CASE k = i
    BY <1>7, <1>9, <1>10, <2>2
  <2>3. CASE j = i
    <3>1. i <= k - 1 /\ i < k
      BY <1>1, <1>10, <2>3
    <3> QED BY <1>8, <1>9, <2>3, <3>1
  <2>4. CASE i < j
    <3>1. i < k /\ j - 1 < k - 1
      BY <1>1, <1>10, <2>4
    <3> QED BY <1>6, <1>9, <2>4, <3>1
  <2>5. CASE j < i /\ i < k
    <3>1. i <= k - 1 /\ k - 1 \in 1..n /\ j \in 1..n
      BY <1>1, <2>5
    <3>2. v[k - 1] <= e /\ e <= v[j]
      BY <1>7, <1>8, <2>5, <3>1
    <3>3. v[k - 1] <= v[j]
      BY <1>4, <3>1, <3>2
    <3> QED BY <1>9, <2>5, <3>3
  <2> QED BY <1>1, <1>10, <2>1, <2>2, <2>3, <2>4, <2>5
<1> QED BY <1>1, <1>10 DEF Falling, r, greater

\* list_insert_ordered with wakeup_less keeps a list rising in wakeup_tick.
LEMMA InsertRising ==
  ASSUME NEW list \in Seq(Thread), NEW elem \in Thread, NEW key \in [Thread -> Int],
         Rising(list, key)
  PROVE  Rising(list_insert_ordered(list, elem, wakeup_less(elem, key)), key)
<1> DEFINE r == list_insert_ordered(list, elem, wakeup_less(elem, key))
<1>1. r \in Seq(Thread)
  BY InsertShape
<1>2. /\ Negated(key) \in [Thread -> Int]
      /\ Falling(list, Negated(key))
      /\ wakeup_less(elem, key) = less_priority(elem, Negated(key))
  BY RisingIsFalling
<1>3. Falling(r, Negated(key))
  BY <1>2, InsertFalling
<1> HIDE DEF r
<1>4. Rising(r, key)
  BY <1>1, <1>3, RisingIsFalling
<1> QED BY <1>4 DEF r

\* list_pop_front: the rest is in order, and nothing in it comes before what
\* was taken.
LEMMA PopInOrder ==
  ASSUME NEW list \in Seq(Thread), list # <<>>, NEW key \in [Thread -> Int]
  PROVE  /\ Falling(list, key) =>
                /\ Falling(Tail(list), key)
                /\ \A t \in Range(list) : key[t] <= key[Head(list)]
         /\ Rising(list, key) =>
                /\ Rising(Tail(list), key)
                /\ \A t \in Range(list) : key[Head(list)] <= key[t]
<1> DEFINE n == Len(list)
           r == Tail(list)
           v == [j \in 1..n |-> key[list[j]]]
<1>1. /\ n \in Nat \ {0} /\ DOMAIN list = 1..n /\ Head(list) = list[1]
      /\ \A j \in 1..n : list[j] \in Thread
  BY LenProperties, EmptySeq, HeadTailProperties
<1>2. /\ r \in Seq(Thread) /\ Len(r) = n - 1
      /\ \A j \in 1..(n - 1) : r[j] = list[j + 1]
  BY HeadTailProperties
<1>3. v \in [1..n -> Int] /\ \A j \in 1..n : v[j] = key[list[j]]
  BY <1>1
<1>4. \A t \in Range(list) : \E j \in 1..n : t = list[j]
  BY <1>1 DEF Range
<1> HIDE DEF r, v
<1>5. \A j, k \in 1..(n - 1) : /\ j + 1 \in 1..n /\ k + 1 \in 1..n
                               /\ j < k => j + 1 < k + 1
  BY <1>1
<1>6. ASSUME Falling(list, key)
      PROVE  /\ Falling(r, key)
             /\ \A t \in Range(list) : key[t] <= key[list[1]]
  <2>1. \A j, k \in 1..n : j < k => key[list[k]] <= key[list[j]]
    BY <1>6 DEF Falling
  <2> HIDE DEF n
  <2>2. ASSUME NEW j \in 1..n PROVE v[j] <= v[1]
    <3>1. j = 1 \/ 1 < j
      BY <1>1
    <3>2. 1 \in 1..n
      BY <1>1
    <3> QED BY <1>3, <2>1, <3>1, <3>2
  <2>3. ASSUME NEW j \in 1..(n - 1), NEW k \in 1..(n - 1), j < k
        PROVE  key[r[k]] <= key[r[j]]
    <3>1. r[j] = list[j + 1] /\ r[k] = list[k + 1]
      BY <1>2
    <3>2. j + 1 \in 1..n /\ k + 1 \in 1..n /\ j + 1 < k + 1
      BY <1>5, <2>3
    <3> QED BY <2>1, <3>1, <3>2
  <2>4. 1 \in 1..n
    BY <1>1
  <2>5. Falling(r, key)
    BY <1>2, <2>3 DEF Falling
  <2> QED BY <1>3, <1>4, <2>2, <2>4, <2>5
<1>7. ASSUME Rising(list, key)
      PROVE  /\ Rising(r, key)
             /\ \A t \in Range(list) : key[list[1]] <= key[t]
  <2>1. \A j, k \in 1..n : j < k => key[list[j]] <= key[list[k]]
    BY <1>7 DEF Rising
  <2> HIDE DEF n
  <2>2. ASSUME NEW j \in 1..n PROVE v[1] <= v[j]
    <3>1. j = 1 \/ 1 < j
      BY <1>1
    <3>2. 1 \in 1..n
      BY <1>1
    <3> QED BY <1>3, <2>1, <3>1, <3>2
  <2>3. ASSUME NEW j \in 1..(n - 1), NEW k \in 1..(n - 1), j < k
        PROVE  key[r[j]] <= key[r[k]]
    <3>1. r[j] = list[j + 1] /\ r[k] = list[k + 1]
      BY <1>2
    <3>2. j + 1 \in 1..n /\ k + 1 \in 1..n /\ j + 1 < k + 1
      BY <1>5, <2>3
    <3> QED BY <2>1, <3>1, <3>2
  <2>4. 1 \in 1..n
    BY <1>1
  <2>5. Rising(r, key)
    BY <1>2, <2>3 DEF Rising
  <2> QED BY <1>3, <1>4, <2>2, <2>4, <2>5
<1> QED BY <1>1, <1>6, <1>7 DEF r

-----------------------------------------------------------------------------
(* The scheduler on lists in order.                                        *)

\* No ready thread is above the running one.
TopRuns == \A t \in Range(ready_list) : priority[t] <= priority[cur]

\* What schedule() leaves behind.
Scheduled ==
  /\ Falling(ready_list', priority')
  /\ TopRuns'
  /\ thread_ticks' = 0
  /\ cur' = Idle => ready_list' = <<>>

\* schedule() on a queue in order.
LEMMA ScheduleInOrder ==
  ASSUME NEW queue \in Seq(Thread), IsInjective(queue), Idle \notin Range(queue), NEW st,
         priority' \in [Thread -> Int], Falling(queue, priority'),
         schedule(queue, st)
  PROVE  Scheduled
<1>1. CASE queue = <<>>
  <2>1. ready_list' = <<>> /\ thread_ticks' = 0
    BY <1>1 DEF schedule
  <2>2. \A t : t \notin Range(<<>>)
    BY DEF Range
  <2> QED BY <2>1, <2>2, EmptyInOrder DEF Scheduled, TopRuns
<1>2. CASE queue # <<>>
  <2>1. ready_list' = Tail(queue) /\ cur' = Head(queue) /\ thread_ticks' = 0
    BY <1>2 DEF schedule, next_thread_to_run
  <2>2. /\ Falling(Tail(queue), priority')
        /\ \A t \in Range(queue) : priority'[t] <= priority'[Head(queue)]
    BY <1>2, PopInOrder
  <2>3. /\ Head(queue) \in Range(queue)
        /\ \A t \in Range(Tail(queue)) : t \in Range(queue)
    BY <1>2, PopRange
  <2> QED BY <2>1, <2>2, <2>3 DEF Scheduled, TopRuns
<1> QED BY <1>1, <1>2

\* thread_block and thread_exit.
LEMMA LeaveInOrder ==
  ASSUME NEW st, Consistent(ready_list, status),
         priority' \in [Thread -> Int], Falling(ready_list, priority'),
         schedule(ready_list, st)
  PROVE  Scheduled
<1>1. ready_list \in Seq(Thread) /\ IsInjective(ready_list) /\ Idle \notin Range(ready_list)
  BY ThreadAssumption DEF Consistent
<1> QED BY <1>1, ScheduleInOrder

\* thread_yield.
LEMMA YieldInOrder ==
  ASSUME NEW queue, NEW st, NEW pri, pri = priority', Consistent(queue, st),
         priority' \in [Thread -> Int], Falling(queue, priority'),
         thread_yield(queue, st, pri)
  PROVE  Scheduled
<1> DEFINE q == IF cur = Idle THEN queue
                ELSE list_insert_ordered(queue, cur, less_priority(cur, pri))
           r == [st EXCEPT ![cur] = "READY"]
<1>1. /\ queue \in Seq(Thread) /\ IsInjective(queue) /\ cur \in Thread
      /\ cur \notin Range(queue) /\ Idle \notin Range(queue)
  BY ThreadAssumption DEF Consistent
<1>2. q \in Seq(Thread) /\ IsInjective(q) /\ Idle \notin Range(q) /\ Falling(q, pri)
  <2>1. CASE cur = Idle
    BY <1>1, <2>1
  <2>2. CASE cur # Idle
    BY <1>1, <2>2, InsertRange, InsertFalling
  <2> QED BY <2>1, <2>2
<1>3. schedule(q, r)
  BY DEF thread_yield
<1> HIDE DEF q, r
<1> QED BY <1>2, <1>3, ScheduleInOrder

-----------------------------------------------------------------------------
(* What one step does to the lists.                                        *)

\* A thread that waits, for the CPU or for an event, keeps its priority and
\* its wakeup_tick: thread_set_priority and lock_release change those of the
\* running thread only, thread_create those of a free page.
LEMMA KeysKept ==
  ASSUME IInv, Next,
         NEW t \in Thread, status[t] \in {"READY", "BLOCKED"}
  PROVE  priority'[t] = priority[t] /\ wakeup_tick'[t] = wakeup_tick[t]
<1>1. t # cur /\ status[t] # "FREE"
  BY CurFacts
<1>2. CASE Call
  <2>1. CASE \E u \in Thread, pri \in Priority : ThreadCreate(u, pri)
    BY <1>1, <2>1 DEF ThreadCreate, IInv, TypeOK
  <2>2. CASE \E pri \in Priority : ThreadSetPriority(pri)
    BY <1>1, <2>2, CurFacts DEF ThreadSetPriority, timerVars, IInv, TypeOK
  <2>3. CASE ThreadExit \/ ThreadYield
    BY <2>3 DEF ThreadExit, ThreadYield, timerVars, priVars
  <2>4. CASE \E s \in Sema : SemaDown(s) \/ SemaTryDown(s) \/ SemaUp(s)
    BY <2>4 DEF SemaDown, SemaTryDown, SemaUp, timerVars, priVars
  <2>5. CASE \E n \in Durations : TimerSleep(n)
    BY <1>1, <2>5, CurFacts DEF TimerSleep, priVars, IInv, TypeOK
  <2> QED BY <1>2, <2>1, <2>2, <2>3, <2>4, <2>5 DEF Call
<1>3. CASE Continue
  <2>1. CASE RefreshPriority
    BY <1>1, <2>1, CurFacts DEF RefreshPriority, timerVars, IInv, TypeOK
  <2>2. CASE AllocateTid \/ UnblockChild \/ CheckEmpty \/ CheckFront
    BY <2>2 DEF AllocateTid, UnblockChild, CheckEmpty, CheckFront, timerVars, priVars
  <2>3. CASE CheckCompare \/ CheckYield \/ SemaDownAgain \/ IdleBlock
    BY <2>3 DEF CheckCompare, CheckYield, SemaDownAgain, IdleBlock, timerVars, priVars
  <2>4. CASE TimerSleepBlock \/ TimerWakeup \/ TimerReturn
    BY <2>4 DEF TimerSleepBlock, TimerWakeup, TimerReturn, priVars
  <2> QED BY <1>3, <2>1, <2>2, <2>3, <2>4 DEF Continue
<1>4. CASE TimerInterrupt \/ \E s \in Sema : DeviceInterrupt(s)
  BY <1>4 DEF TimerInterrupt, DeviceInterrupt, timerVars, priVars
<1>5. CASE Halt
  BY <1>5 DEF Halt, vars, timerVars, priVars
<1> QED BY <1>2, <1>3, <1>4, <1>5 DEF Next

\* So the lists are still in order for the priorities and the wake-up times
\* after a step.
LEMMA OldListsInOrder ==
  ASSUME IInv, OrderInv, Next
  PROVE  /\ priority \in [Thread -> Int] /\ wakeup_tick \in [Thread -> Int]
         /\ priority' \in [Thread -> Int] /\ wakeup_tick' \in [Thread -> Int]
         /\ Falling(ready_list, priority')
         /\ \A s \in Sema : Falling(waiters[s], priority')
         /\ Rising(sleep_list, wakeup_tick')
<1>1. IInv'
  BY NextPreserves
<1>2. \A p \in Priority : p \in Int
  BY DEF Priority, PRI_MIN
<1>3. priority \in [Thread -> Int] /\ wakeup_tick \in [Thread -> Int]
  BY <1>2 DEF IInv, TypeOK
<1>4. priority' \in [Thread -> Int] /\ wakeup_tick' \in [Thread -> Int]
  <2>1. priority' \in [Thread -> 0..PRI_MAX] /\ wakeup_tick' \in [Thread -> Nat]
    BY <1>1 DEF IInv, TypeOK, Priority, PRI_MIN
  <2> QED BY <2>1
<1>5. /\ ready_list \in Seq(Thread) /\ sleep_list \in Seq(Thread)
      /\ \A s \in Sema : waiters[s] \in Seq(Thread)
  BY DEF IInv, TypeOK
<1>6. Falling(ready_list, priority')
  <2>1. \A t \in Range(ready_list) : t \in Thread /\ status[t] = "READY"
    BY <1>5, ListOfThreads DEF IInv, ListInv, ReadyInv
  <2>2. \A t \in Range(ready_list) : priority'[t] = priority[t]
    BY <2>1, KeysKept
  <2> QED BY <1>5, <2>2, SameKeys DEF OrderInv
<1>7. ASSUME NEW s \in Sema PROVE Falling(waiters[s], priority')
  <2>1. \A t \in Range(waiters[s]) : t \in Thread /\ status[t] = "BLOCKED"
    BY <1>5, ListOfThreads DEF IInv, ListInv, WaitInv
  <2>2. \A t \in Range(waiters[s]) : priority'[t] = priority[t]
    BY <2>1, KeysKept
  <2> QED BY <1>5, <2>2, SameKeys DEF OrderInv
<1>8. Rising(sleep_list, wakeup_tick')
  <2>1. \A t \in Range(sleep_list) : t \in Thread /\ status[t] = "BLOCKED"
    BY <1>5, ListOfThreads DEF IInv, ListInv, SleepInv
  <2>2. \A t \in Range(sleep_list) : wakeup_tick'[t] = wakeup_tick[t]
    BY <2>1, KeysKept
  <2> QED BY <1>5, <2>2, SameKeys DEF OrderInv
<1> QED BY <1>3, <1>4, <1>6, <1>7, <1>8

\* thread_unblock keeps the run queue in order, also inside sema_up.
LEMMA UnblockInOrder ==
  ASSUME IInv, OrderInv
  PROVE  /\ \A t \in Thread : Falling(unblocked_queue(t), priority)
         /\ \A s \in Sema : Falling(upped_queue(s), priority)
<1>1. priority \in [Thread -> Int] /\ ready_list \in Seq(Thread)
  BY DEF IInv, TypeOK, Priority, PRI_MIN
<1>2. ASSUME NEW t \in Thread PROVE Falling(unblocked_queue(t), priority)
  BY <1>1, InsertFalling DEF OrderInv, unblocked_queue
<1>3. ASSUME NEW s \in Sema PROVE Falling(upped_queue(s), priority)
  <2>1. CASE waiters[s] = <<>>
    BY <2>1 DEF OrderInv, upped_queue
  <2>2. CASE waiters[s] # <<>>
    <3>1. Head(waiters[s]) \in Thread
      BY <2>2, PopRange DEF IInv, TypeOK
    <3> QED BY <1>2, <2>2, <3>1 DEF upped_queue
  <2> QED BY <2>1, <2>2
<1> QED BY <1>2, <1>3

\* A step switches through schedule(), or the running thread goes on and the
\* run queue stays in order.
LEMMA ReadyStep ==
  ASSUME IInv, OrderInv, Next
  PROVE  Scheduled \/ (cur' = cur /\ Falling(ready_list', priority'))
<1>1. /\ priority \in [Thread -> Int] /\ priority' \in [Thread -> Int]
      /\ Falling(ready_list, priority')
  BY OldListsInOrder
<1>2. Consistent(ready_list, status)
  BY ConsistentNow
<1>3. ASSUME UNCHANGED <<cur, ready_list>>
      PROVE  cur' = cur /\ Falling(ready_list', priority')
  BY <1>1, <1>3
<1>4. ASSUME NEW pri, pri = priority',
             thread_yield(ready_list, status, pri) \/ UNCHANGED schedVars
      PROVE  Scheduled \/ (cur' = cur /\ Falling(ready_list', priority'))
  BY <1>1, <1>2, <1>3, <1>4, YieldInOrder DEF schedVars
<1>5. ASSUME NEW st, schedule(ready_list, st)
      PROVE  Scheduled
  BY <1>1, <1>2, <1>5, LeaveInOrder
<1>6. CASE \E t \in Thread, pri \in Priority : ThreadCreate(t, pri)
  BY <1>3, <1>6 DEF ThreadCreate
<1>7. CASE \E pri \in Priority : ThreadSetPriority(pri)
  BY <1>3, <1>7 DEF ThreadSetPriority, schedVars
<1>8. CASE ThreadExit
  BY <1>5, <1>8 DEF ThreadExit
<1>9. CASE ThreadYield
  BY <1>4, <1>9 DEF ThreadYield, priVars
<1>10. ASSUME NEW s \in Sema, sema_down_loop(s)
       PROVE  Scheduled \/ (cur' = cur /\ Falling(ready_list', priority'))
  BY <1>3, <1>5, <1>10 DEF sema_down_loop, thread_block, schedVars
<1>11. CASE \E s \in Sema : SemaDown(s)
  BY <1>10, <1>11 DEF SemaDown
<1>12. CASE SemaDownAgain
  <2>1. sema[cur] \in Sema
    BY <1>12, CurFacts DEF SemaDownAgain, At, IInv, ListInv, PcInv
  <2> QED BY <1>10, <1>12, <2>1 DEF SemaDownAgain
<1>13. CASE \E s \in Sema : SemaTryDown(s)
  BY <1>3, <1>13 DEF SemaTryDown, schedVars
<1>14. CASE \E s \in Sema : SemaUp(s)
  BY <1>14, UnblockInOrder DEF SemaUp, priVars
<1>15. CASE \E n \in Durations : TimerSleep(n)
  BY <1>3, <1>15 DEF TimerSleep, schedVars
<1>16. CASE AllocateTid
  BY <1>4, <1>16 DEF AllocateTid, priVars
<1>17. CASE RefreshPriority
  BY <1>4, <1>17 DEF RefreshPriority
<1>18. CASE UnblockChild
  <2>1. child \in Thread
    BY <1>18, CurFacts DEF UnblockChild, At, CreatePC
  <2> QED BY <1>18, <2>1, UnblockInOrder DEF UnblockChild, priVars
<1>19. CASE CheckEmpty \/ CheckFront \/ CheckCompare
  BY <1>3, <1>19 DEF CheckEmpty, CheckFront, CheckCompare, schedVars
<1>20. CASE CheckYield
  BY <1>4, <1>20 DEF CheckYield, priVars
<1>21. CASE TimerSleepBlock
  BY <1>5, <1>21 DEF TimerSleepBlock, thread_block
<1>22. CASE IdleBlock
  BY <1>5, <1>22 DEF IdleBlock, thread_block
<1>23. CASE TimerWakeup
  <2>1. Head(sleep_list) \in Thread
    BY <1>23, PopRange DEF TimerWakeup, due, IInv, TypeOK
  <2> QED BY <1>23, <2>1, UnblockInOrder DEF TimerWakeup, priVars
<1>24. CASE TimerReturn
  BY <1>4, <1>24 DEF TimerReturn, priVars
<1>25. CASE TimerInterrupt
  BY <1>3, <1>25 DEF TimerInterrupt
<1>26. ASSUME NEW s \in Sema, DeviceInterrupt(s)
       PROVE  Scheduled \/ (cur' = cur /\ Falling(ready_list', priority'))
  <2>1. priority' = priority /\ Falling(upped_queue(s), priority')
    BY <1>26, UnblockInOrder DEF DeviceInterrupt, priVars
  <2>2. Consistent(upped_queue(s), upped_status(s))
    BY UpEffect
  <2>3. CASE outranked(upped_queue(s), priority)
    <3>1. thread_yield(upped_queue(s), upped_status(s), priority)
      BY <1>26, <2>3 DEF DeviceInterrupt
    <3> QED BY <1>1, <2>1, <2>2, <3>1, YieldInOrder
  <2>4. CASE ~outranked(upped_queue(s), priority)
    BY <1>26, <2>1, <2>4 DEF DeviceInterrupt
  <2> QED BY <2>3, <2>4
<1>27. CASE Halt
  BY <1>3, <1>27 DEF Halt, vars, schedVars
<1> QED BY <1>6, <1>7, <1>8, <1>9, <1>11, <1>12, <1>13, <1>14, <1>15, <1>16, <1>17,
        <1>18, <1>19, <1>20, <1>21, <1>22, <1>23, <1>24, <1>25, <1>26, <1>27
     DEF Next, Call, Continue

\* Only sema_down and sema_up change a wait list.
LEMMA WaitShape ==
  ASSUME IInv, Next
  PROVE  \/ UNCHANGED waiters
         \/ UNCHANGED priority /\ \E s \in Sema : waiters' = upped_waiters(s)
         \/ /\ UNCHANGED priority
            /\ \E s \in Sema : waiters' = [waiters EXCEPT ![s] =
                   list_insert_ordered(@, cur, less_priority(cur, priority))]
<1>1. ASSUME NEW s \in Sema, sema_down_loop(s), UNCHANGED priVars
      PROVE  \/ UNCHANGED waiters
             \/ /\ UNCHANGED priority
                /\ \E r \in Sema : waiters' = [waiters EXCEPT ![r] =
                       list_insert_ordered(@, cur, less_priority(cur, priority))]
  BY <1>1 DEF sema_down_loop, priVars
<1>2. CASE \E s \in Sema : SemaDown(s)
  BY <1>1, <1>2 DEF SemaDown
<1>3. CASE SemaDownAgain
  <2>1. sema[cur] \in Sema
    BY <1>3, CurFacts DEF SemaDownAgain, At, IInv, ListInv, PcInv
  <2> QED BY <1>1, <1>3, <2>1 DEF SemaDownAgain
<1>4. CASE \E s \in Sema : SemaUp(s) \/ DeviceInterrupt(s)
  BY <1>4 DEF SemaUp, DeviceInterrupt, priVars
<1>5. CASE \/ \E t \in Thread, pri \in Priority : ThreadCreate(t, pri)
           \/ \E pri \in Priority : ThreadSetPriority(pri)
           \/ ThreadExit \/ ThreadYield
           \/ \E s \in Sema : SemaTryDown(s)
           \/ \E n \in Durations : TimerSleep(n)
  BY <1>5 DEF ThreadCreate, ThreadSetPriority, ThreadExit, ThreadYield, SemaTryDown,
              TimerSleep, semaVars
<1>6. CASE AllocateTid \/ RefreshPriority \/ UnblockChild \/ CheckEmpty \/ CheckFront
  BY <1>6 DEF AllocateTid, RefreshPriority, UnblockChild, CheckEmpty, CheckFront, semaVars
<1>7. CASE \/ CheckCompare \/ CheckYield \/ IdleBlock \/ TimerSleepBlock
           \/ TimerWakeup \/ TimerReturn \/ TimerInterrupt \/ Halt
  BY <1>7 DEF CheckCompare, CheckYield, IdleBlock, TimerSleepBlock, TimerWakeup,
              TimerReturn, TimerInterrupt, Halt, vars, semaVars
<1> QED BY <1>2, <1>3, <1>4, <1>5, <1>6, <1>7 DEF Next, Call, Continue

\* They keep the wait lists in order, and who leaves one has no waiter of a
\* higher priority beside it.
LEMMA WaitStep ==
  ASSUME IInv, OrderInv, Next, NEW s \in Sema
  PROVE  /\ Falling(waiters'[s], priority')
         /\ \A t \in Range(waiters[s]) \ Range(waiters'[s]) :
                \A u \in Range(waiters[s]) : priority[u] <= priority[t]
<1>1. /\ priority \in [Thread -> Int]
      /\ \A r \in Sema : Falling(waiters[r], priority')
  BY OldListsInOrder
<1>2. /\ waiters \in [Sema -> Seq(Thread)] /\ waiters[s] \in Seq(Thread)
      /\ IsInjective(waiters[s]) /\ Falling(waiters[s], priority) /\ cur \in Thread
  BY DEF IInv, TypeOK, ListInv, WaitInv, OrderInv
<1>3. CASE waiters'[s] = waiters[s]
  BY <1>1, <1>3
<1>4. CASE /\ UNCHANGED priority
           /\ waiters[s] # <<>>
           /\ waiters'[s] = Tail(waiters[s])
  <2>1. /\ Falling(Tail(waiters[s]), priority)
        /\ \A u \in Range(waiters[s]) : priority[u] <= priority[Head(waiters[s])]
    BY <1>1, <1>2, <1>4, PopInOrder
  <2>2. \A t \in Range(waiters[s]) \ Range(Tail(waiters[s])) : t = Head(waiters[s])
    BY <1>2, <1>4, PopRange
  <2> QED BY <1>4, <2>1, <2>2
<1>5. CASE /\ UNCHANGED priority
           /\ waiters'[s] =
                  list_insert_ordered(waiters[s], cur, less_priority(cur, priority))
  <2>1. Falling(waiters'[s], priority)
    BY <1>1, <1>2, <1>5, InsertFalling
  <2>2. \A t \in Range(waiters[s]) : t \in Range(waiters'[s])
    BY <1>2, <1>5, InsertRange
  <2> QED BY <1>5, <2>1, <2>2
<1>6. CASE UNCHANGED priority /\ \E r \in Sema : waiters' = upped_waiters(r)
  BY <1>2, <1>3, <1>4, <1>6 DEF upped_waiters
<1>7. CASE /\ UNCHANGED priority
           /\ \E r \in Sema : waiters' = [waiters EXCEPT ![r] =
                  list_insert_ordered(@, cur, less_priority(cur, priority))]
  BY <1>2, <1>3, <1>5, <1>7
<1> QED BY <1>3, <1>6, <1>7, WaitShape

\* timer_sleep and timer_wakeup keep the sleep list in order; who leaves it
\* is due, and at the end of timer_interrupt nobody due is left on it.
LEMMA SleepStep ==
  ASSUME IInv, OrderInv, Next
  PROVE  /\ Rising(sleep_list', wakeup_tick')
         /\ \A t \in Range(sleep_list) \ Range(sleep_list') : wakeup_tick[t] <= ticks
         /\ intr = "timer" /\ intr' = "none" =>
                \A t \in Range(sleep_list') : wakeup_tick'[t] > ticks'
<1>1. /\ wakeup_tick \in [Thread -> Int] /\ Rising(sleep_list, wakeup_tick')
      /\ Rising(sleep_list, wakeup_tick)
  BY OldListsInOrder DEF OrderInv
<1>2. /\ sleep_list \in Seq(Thread) /\ IsInjective(sleep_list)
      /\ cur \in Thread /\ ticks \in Int
  BY NumberAssumption DEF IInv, TypeOK, ListInv, SleepInv
<1>3. CASE UNCHANGED <<sleep_list, intr>> \/ (UNCHANGED sleep_list /\ intr' # "none")
  BY <1>1, <1>3
<1>4. CASE TimerSleepBlock
  <2>1. /\ sleep_list' =
               list_insert_ordered(sleep_list, cur, wakeup_less(cur, wakeup_tick))
        /\ wakeup_tick' = wakeup_tick /\ intr' = intr
    BY <1>4 DEF TimerSleepBlock
  <2>2. Rising(sleep_list', wakeup_tick)
    BY <1>1, <1>2, <2>1, InsertRising
  <2>3. \A t \in Range(sleep_list) : t \in Range(sleep_list')
    BY <1>2, <2>1, InsertRange
  <2> QED BY <2>1, <2>2, <2>3
<1>5. CASE TimerWakeup
  <2>1. /\ sleep_list # <<>> /\ sleep_list' = Tail(sleep_list)
        /\ wakeup_tick[Head(sleep_list)] <= ticks
        /\ wakeup_tick' = wakeup_tick /\ intr' = intr
    BY <1>5 DEF TimerWakeup, due
  <2>2. Rising(sleep_list', wakeup_tick)
    BY <1>1, <1>2, <2>1, PopInOrder
  <2>3. \A t \in Range(sleep_list) \ Range(sleep_list') : t = Head(sleep_list)
    BY <1>2, <2>1, PopRange
  <2> QED BY <2>1, <2>2, <2>3
<1>6. CASE TimerReturn
  <2>1. ~due /\ UNCHANGED <<sleep_list, wakeup_tick, ticks>>
    BY <1>6 DEF TimerReturn
  <2>2. ASSUME NEW t \in Range(sleep_list) PROVE wakeup_tick[t] > ticks
    <3>1. sleep_list # <<>>
      BY <2>2 DEF Range
    <3>2. wakeup_tick[Head(sleep_list)] <= wakeup_tick[t]
      BY <1>1, <1>2, <3>1, PopInOrder
    <3>3. t \in Thread /\ Head(sleep_list) \in Thread
      BY <1>2, <3>1, ListOfThreads, PopRange
    <3> QED BY <1>1, <1>2, <2>1, <3>1, <3>2, <3>3 DEF due
  <2> QED BY <1>1, <2>1, <2>2
<1>7. CASE Call
  BY <1>3, <1>7 DEF Call, ThreadCreate, ThreadSetPriority, ThreadExit, ThreadYield,
                    SemaDown, SemaTryDown, SemaUp, TimerSleep, timerVars
<1>8. CASE AllocateTid \/ RefreshPriority \/ UnblockChild \/ CheckEmpty \/ CheckFront
  BY <1>3, <1>8
     DEF AllocateTid, RefreshPriority, UnblockChild, CheckEmpty, CheckFront, timerVars
<1>9. CASE CheckCompare \/ CheckYield \/ SemaDownAgain \/ IdleBlock
  BY <1>3, <1>9 DEF CheckCompare, CheckYield, SemaDownAgain, IdleBlock, timerVars
<1>10. CASE TimerInterrupt \/ (\E s \in Sema : DeviceInterrupt(s)) \/ Halt
  BY <1>3, <1>10 DEF TimerInterrupt, DeviceInterrupt, Halt, vars, timerVars
<1> QED BY <1>4, <1>5, <1>6, <1>7, <1>8, <1>9, <1>10 DEF Next, Continue

-----------------------------------------------------------------------------
(* The theorems.                                                           *)

\* The lists of the machine after thread_start are empty.
LEMMA InitInOrder ==
  ASSUME Init
  PROVE  OrderInv
BY EmptyInOrder DEF Init, OrderInv

\* Every step keeps the lists in order.
LEMMA NextInOrder ==
  ASSUME IInv, OrderInv, [Next]_vars
  PROVE  OrderInv'
<1>1. CASE Next
  <2>1. Falling(ready_list', priority')
    BY <1>1, ReadyStep DEF Scheduled
  <2> QED BY <1>1, <2>1, WaitStep, SleepStep DEF OrderInv
<1>2. CASE UNCHANGED vars
  BY <1>2 DEF vars, schedVars, timerVars, semaVars, priVars, OrderInv
<1> QED BY <1>1, <1>2

\* The run queue and the wait lists are in order of priority and the sleep
\* list is in order of wakeup_tick: list_insert_ordered is always given a
\* list in order, and no key changes while its thread is on a list.
THEOREM ListsInOrder == Spec => []OrderInv
BY InitInOrder, NextInOrder, InitEstablishes, NextPreserves, PTL DEF Spec

\* next_thread_to_run: every switch is to a thread of the highest priority
\* that is ready.
THEOREM HighestRuns == Spec => SwitchToHighest
<1>1. ASSUME IInv, OrderInv, [Next]_vars
      PROVE  [cur' # cur =>
                  \A t \in Range(ready_list') : priority'[t] <= priority'[cur']]_vars
  BY <1>1, ReadyStep DEF Scheduled, TopRuns
<1> QED BY <1>1, Invariance, ListsInOrder, PTL DEF Spec, SwitchToHighest

\* sema_up wakes a waiter of the highest priority.
THEOREM HighestWaiterWoken == Spec => WakesHighestWaiter
<1>1. ASSUME IInv, OrderInv, [Next]_vars
      PROVE  [\A s \in Sema : \A t \in Range(waiters[s]) \ Range(waiters'[s]) :
                  \A u \in Range(waiters[s]) : priority[u] <= priority[t]]_vars
  BY <1>1, WaitStep
<1> QED BY <1>1, Invariance, ListsInOrder, PTL DEF Spec, WakesHighestWaiter

\* timer_wakeup wakes the sleepers that are due, none that is not, and leaves
\* none behind.
THEOREM DueAreWoken == Spec => WakesExactlyTheDue
<1>1. ASSUME IInv, OrderInv, [Next]_vars
      PROVE  [/\ \A t \in Range(sleep_list) \ Range(sleep_list') :
                     wakeup_tick[t] <= ticks
              /\ intr = "timer" /\ intr' = "none" =>
                     \A t \in Range(sleep_list') : wakeup_tick'[t] > ticks']_vars
  BY <1>1, SleepStep
<1> QED BY <1>1, Invariance, ListsInOrder, PTL DEF Spec, WakesExactlyTheDue

-----------------------------------------------------------------------------
(* When a thread may keep the CPU although a thread of higher priority is  *)
(* ready, and when the idle thread may wait for an interrupt.              *)

\* What the two invariants ask of a step that leaves the running thread
\* outside check_preemption.
Settled ==
  /\ thread_ticks = 0 => ~outranked(ready_list, priority)
  /\ intr = "timer" => thread_ticks > 0
  /\ pc[cur] = "hlt" => ready_list = <<>>
  /\ intr = "timer" => pc[cur] # "hlt"

\* It is enough for them.
LEMMA SettledSuffices ==
  ASSUME Settled'
  PROVE  HltInv' /\ PreemptInv'
BY DEF Settled, HltInv, PreemptInv

\* schedule() leaves the highest thread running, the idle thread only when
\* nobody else is ready.
LEMMA ScheduledSettles ==
  ASSUME IInv', Scheduled, intr' = "none"
  PROVE  Settled'
<1>1. pc'[cur'] = "hlt" => ready_list' = <<>>
  BY DEF IInv, TypeOK, ListInv, PcInv, Scheduled
<1>2. ~(ready_list' # <<>> /\ priority'[Head(ready_list')] > priority'[cur'])
  <2>1. ready_list' # <<>> => /\ Head(ready_list') \in Range(ready_list')
                              /\ Head(ready_list') \in Thread
    BY PopRange DEF IInv, TypeOK
  <2>2. priority' \in [Thread -> 0..PRI_MAX] /\ cur' \in Thread
    BY DEF IInv, TypeOK, Priority, PRI_MIN
  <2>3. \A t \in Range(ready_list') : priority'[t] <= priority'[cur']
    BY DEF Scheduled, TopRuns
  <2> QED BY <2>1, <2>2, <2>3
<1> QED BY <1>1, <1>2 DEF Settled, outranked


\* A thread outside check_preemption is not outranked before the first tick.
LEMMA OutsideCheck ==
  ASSUME PreemptInv, thread_ticks = 0,
         pc[cur] \notin {"cp_empty", "cp_front", "cp_compare", "cp_yield"}
  PROVE  ~outranked(ready_list, priority)
BY DEF PreemptInv

\* The running thread goes on, outside check_preemption before and after,
\* and the front of the run queue stays what it was.
LEMMA GoesOn ==
  ASSUME IInv, PreemptInv, HltInv, At(pc[cur]),
         UNCHANGED <<cur, ready_list, thread_ticks, intr>>,
         UNCHANGED priority \/ \E t \in Thread, pri \in Priority :
             t # cur /\ status[t] = "FREE" /\ priority' = [priority EXCEPT ![t] = pri],
         pc[cur] \notin {"cp_empty", "cp_front", "cp_compare", "cp_yield"},
         pc'[cur] # "hlt"
  PROVE  Settled'
<1>1. ready_list # <<>> => /\ Head(ready_list) \in Thread
                           /\ status[Head(ready_list)] = "READY"
  BY PopRange DEF IInv, TypeOK, ListInv, ReadyInv
<1>2. priority'[cur] = priority[cur]
  BY DEF IInv, TypeOK
<1>3. ready_list # <<>> => priority'[Head(ready_list)] = priority[Head(ready_list)]
  BY <1>1 DEF IInv, TypeOK
<1> QED BY <1>2, <1>3, OutsideCheck DEF Settled, outranked, At

\* Every action keeps the two invariants.
LEMMA NextSettles ==
  ASSUME IInv, OrderInv, HltInv, PreemptInv, Next
  PROVE  HltInv' /\ PreemptInv'
<1>1. /\ cur \in Thread /\ pc \in [Thread -> PC] /\ Consistent(ready_list, status)
      /\ priority' \in [Thread -> Int] /\ Falling(ready_list, priority')
      /\ thread_ticks \in 0..TIME_SLICE
  BY CurFacts, ConsistentNow, OldListsInOrder DEF IInv, TypeOK
<1>2. ASSUME Scheduled, intr' = "none"
      PROVE  HltInv' /\ PreemptInv'
  BY <1>2, NextPreserves, ScheduledSettles, SettledSuffices
<1>3. ASSUME NEW st, schedule(ready_list, st), intr' = "none"
      PROVE  HltInv' /\ PreemptInv'
  BY <1>1, <1>2, <1>3, LeaveInOrder
<1>4. ASSUME NEW pri, pri = priority', thread_yield(ready_list, status, pri), intr' = "none"
      PROVE  HltInv' /\ PreemptInv'
  BY <1>1, <1>2, <1>4, YieldInOrder
<1>5. CASE \E t \in Thread, pri \in Priority : ThreadCreate(t, pri)
  <2>1. PICK t \in Thread, pri \in Priority : ThreadCreate(t, pri)
    BY <1>5
  <2>2. t # cur /\ pc[cur] = "run" /\ pc'[cur] = "allocate_tid" /\ At("run")
    BY <1>1, <2>1, CurFacts DEF ThreadCreate, At
  <2>3. Settled'
    BY <2>1, <2>2, GoesOn DEF ThreadCreate
  <2> QED BY <2>3, SettledSuffices
<1>6. CASE \E pri \in Priority : ThreadSetPriority(pri)
  <2>1. pc'[cur] = "cp_empty" /\ intr' = "none" /\ cur' = cur
    BY <1>1, <1>6 DEF ThreadSetPriority, At, Goto, schedVars, timerVars
  <2> QED BY <2>1 DEF HltInv, PreemptInv
<1>7. CASE ThreadExit
  BY <1>3, <1>7 DEF ThreadExit, At, timerVars
<1>8. CASE ThreadYield
  BY <1>4, <1>8 DEF ThreadYield, At, timerVars, priVars
<1>9. ASSUME NEW s \in Sema, sema_down_loop(s), At("run") \/ At("sema_down"),
             UNCHANGED <<timerVars, priVars>>
      PROVE  HltInv' /\ PreemptInv'
  <2>1. CASE value[s] = 0
    BY <1>3, <1>9, <2>1 DEF sema_down_loop, thread_block, At, timerVars
  <2>2. CASE value[s] # 0
    <3>1. pc'[cur] = "run" /\ UNCHANGED schedVars
      BY <1>1, <1>9, <2>2 DEF sema_down_loop, Goto
    <3>2. Settled'
      BY <1>9, <3>1, GoesOn DEF schedVars, timerVars, priVars, At
    <3> QED BY <3>2, SettledSuffices
  <2> QED BY <2>1, <2>2
<1>10. CASE \E s \in Sema : SemaDown(s)
  BY <1>9, <1>10 DEF SemaDown
<1>11. CASE SemaDownAgain
  <2>1. sema[cur] \in Sema
    BY <1>11, CurFacts DEF SemaDownAgain, At, IInv, ListInv, PcInv
  <2> QED BY <1>9, <1>11, <2>1 DEF SemaDownAgain
<1>12. CASE \E s \in Sema : SemaTryDown(s)
  <2>1. Settled'
    BY <1>12, GoesOn DEF SemaTryDown, At, schedVars, timerVars, priVars
  <2> QED BY <2>1, SettledSuffices
<1>13. CASE \E s \in Sema : SemaUp(s)
  <2>1. pc'[cur] = "cp_empty" /\ intr' = "none" /\ cur' = cur
    BY <1>1, <1>13 DEF SemaUp, At, Goto, timerVars
  <2> QED BY <2>1 DEF HltInv, PreemptInv
<1>14. CASE \E n \in Durations : TimerSleep(n)
  <2>1. pc'[cur] = "timer_sleep"
    BY <1>1, <1>14 DEF TimerSleep, Goto
  <2>2. Settled'
    BY <1>14, <2>1, GoesOn DEF TimerSleep, At, schedVars, priVars
  <2> QED BY <2>2, SettledSuffices
<1>15. CASE AllocateTid
  <2>1. intr' = "none" /\ priority' = priority /\ pc'[cur] = "refresh_priority"
    BY <1>1, <1>15 DEF AllocateTid, At, Goto, timerVars, priVars
  <2>2. CASE outranked(ready_list, priority)
    BY <1>4, <1>15, <2>1, <2>2 DEF AllocateTid
  <2>3. CASE ~outranked(ready_list, priority)
    <3>1. Settled'
      BY <1>15, <2>1, <2>3 DEF AllocateTid, Settled, outranked, schedVars
    <3> QED BY <3>1, SettledSuffices
  <2> QED BY <2>2, <2>3
<1>16. CASE RefreshPriority
  <2>1. intr' = "none" /\ pc'[cur] = "thread_unblock"
    BY <1>1, <1>16 DEF RefreshPriority, At, Goto, timerVars
  <2>2. CASE outranked(ready_list, priority')
    BY <1>4, <1>16, <2>1, <2>2 DEF RefreshPriority
  <2>3. CASE ~outranked(ready_list, priority')
    <3>1. Settled'
      BY <1>16, <2>1, <2>3 DEF RefreshPriority, Settled, outranked, schedVars
    <3> QED BY <3>1, SettledSuffices
  <2> QED BY <2>2, <2>3
<1>17. CASE UnblockChild
  <2>1. pc'[cur] = "cp_empty" /\ intr' = "none" /\ cur' = cur
    BY <1>1, <1>17 DEF UnblockChild, At, timerVars
  <2> QED BY <2>1 DEF HltInv, PreemptInv
<1>18. CASE CheckEmpty
  <2>1. /\ pc'[cur] = IF ready_list = <<>> THEN "run" ELSE "cp_front"
        /\ intr' = "none" /\ cur' = cur /\ ready_list' = ready_list
    BY <1>1, <1>18 DEF CheckEmpty, At, Goto, schedVars, timerVars
  <2> QED BY <2>1 DEF HltInv, PreemptInv, outranked
<1>19. CASE CheckFront
  <2>1. /\ pc[cur] = "cp_front" /\ intr' = "none" /\ priority' = priority
        /\ UNCHANGED <<cur, status, ready_list>>
    BY <1>19 DEF CheckFront, At, schedVars, timerVars, priVars
  <2>2. CASE ready_list = <<>>
    BY <1>19, <2>1, <2>2 DEF CheckFront, HltInv, PreemptInv, outranked
  <2>3. CASE ready_list # <<>>
    <3>1. pc'[cur] = "cp_compare" /\ cand'[cur] = Head(ready_list)
      BY <1>1, <1>19, <2>3 DEF CheckFront, Goto, IInv, TypeOK
    <3>2. Head(ready_list) \in Thread /\ status[Head(ready_list)] = "READY"
      BY <2>3, PopRange DEF IInv, TypeOK, ListInv, ReadyInv
    <3> QED BY <2>1, <3>1, <3>2 DEF HltInv, PreemptInv, outranked
  <2> QED BY <2>2, <2>3
<1>20. CASE CheckCompare
  <2>1. /\ pc[cur] = "cp_compare" /\ intr' = "none" /\ priority' = priority
        /\ UNCHANGED <<cur, status, ready_list, thread_ticks>>
    BY <1>20 DEF CheckCompare, At, schedVars, timerVars, priVars
  <2>2. pc'[cur] \in {"run", "cp_yield"}
    BY <1>1, <1>20 DEF CheckCompare, Goto
  <2>3. ASSUME thread_ticks = 0, outranked(ready_list, priority)
        PROVE  pc'[cur] = "cp_yield"
    <3>1. /\ status[cand[cur]] # "FREE"
          /\ priority[cand[cur]] > priority[cur]
      BY <2>1, <2>3 DEF PreemptInv
    <3> QED BY <1>1, <1>20, <3>1 DEF CheckCompare, Goto
  <2> QED BY <2>1, <2>2, <2>3 DEF HltInv, PreemptInv, outranked
<1>21. CASE CheckYield
  BY <1>4, <1>21 DEF CheckYield, At, timerVars, priVars
<1>22. CASE TimerSleepBlock
  BY <1>3, <1>22 DEF TimerSleepBlock, thread_block, At
<1>23. CASE IdleBlock
  BY <1>3, <1>23 DEF IdleBlock, thread_block, At, timerVars
<1>24. CASE TimerWakeup
  <2>1. /\ intr = "timer" /\ UNCHANGED <<cur, thread_ticks, intr>>
        /\ pc' = [pc EXCEPT ![Head(sleep_list)] = "run"]
    BY <1>24 DEF TimerWakeup
  <2>2. thread_ticks > 0 /\ pc'[cur] # "hlt"
    BY <1>1, <2>1 DEF HltInv, PreemptInv
  <2> QED BY <1>1, <2>1, <2>2 DEF HltInv, PreemptInv
<1>25. CASE TimerReturn
  <2>1. intr = "timer" /\ intr' = "none" /\ UNCHANGED <<pc, priority>>
    BY <1>25 DEF TimerReturn, priVars
  <2>2. CASE yield_on_return
    BY <1>4, <1>25, <2>1, <2>2 DEF TimerReturn
  <2>3. CASE ~yield_on_return
    <3>1. UNCHANGED schedVars
      BY <1>25, <2>3 DEF TimerReturn
    <3> QED BY <1>1, <2>1, <3>1 DEF HltInv, PreemptInv, schedVars
  <2> QED BY <2>2, <2>3
<1>26. CASE TimerInterrupt
  <2>1. thread_ticks' = thread_ticks + 1 /\ cur' = cur /\ pc'[cur] # "hlt"
    BY <1>1, <1>26 DEF TimerInterrupt, AfterInterrupt
  <2>2. thread_ticks' > 0
    BY <1>1, <2>1
  <2> QED BY <2>1, <2>2 DEF HltInv, PreemptInv
<1>27. ASSUME NEW s \in Sema, DeviceInterrupt(s)
       PROVE  HltInv' /\ PreemptInv'
  <2>1. intr' = "none" /\ priority' = priority /\ pc'[cur] # "hlt"
    BY <1>1, <1>27 DEF DeviceInterrupt, IntrOn, AfterInterrupt, timerVars, priVars
  <2>2. CASE outranked(upped_queue(s), priority)
    <3>1. thread_yield(upped_queue(s), upped_status(s), priority)
      BY <1>27, <2>2 DEF DeviceInterrupt
    <3>2. Falling(upped_queue(s), priority') /\ Consistent(upped_queue(s), upped_status(s))
      BY <2>1, UnblockInOrder, UpEffect
    <3> QED BY <1>1, <1>2, <2>1, <3>1, <3>2, YieldInOrder
  <2>3. CASE ~outranked(upped_queue(s), priority)
    <3>1. Settled'
      BY <1>27, <2>1, <2>3 DEF DeviceInterrupt, Settled, outranked
    <3> QED BY <3>1, SettledSuffices
  <2> QED BY <2>2, <2>3
<1>28. CASE Halt
  BY <1>28 DEF Halt, vars, schedVars, timerVars, priVars, HltInv, PreemptInv, outranked
<1> QED BY <1>5, <1>6, <1>7, <1>8, <1>10, <1>11, <1>12, <1>13, <1>14, <1>15, <1>16, <1>17,
        <1>18, <1>19, <1>20, <1>21, <1>22, <1>23, <1>24, <1>25, <1>26, <1>27, <1>28
     DEF Next, Call, Continue

-----------------------------------------------------------------------------
(* The theorems.                                                           *)

\* The state after thread_start: main runs and the queue is empty.
LEMMA InitSettled ==
  ASSUME Init
  PROVE  HltInv /\ PreemptInv
BY ThreadAssumption DEF Init, HltInv, PreemptInv, outranked

\* Nothing changes in a stuttering step.
LEMMA StutterSettled ==
  ASSUME HltInv, PreemptInv, UNCHANGED vars
  PROVE  HltInv' /\ PreemptInv'
BY DEF vars, schedVars, timerVars, priVars, HltInv, PreemptInv, outranked

\* The two invariants hold in every state of the kernel.
THEOREM PreemptionInvariance == Spec => [](HltInv /\ PreemptInv)
<1>1. ASSUME IInv, OrderInv, HltInv /\ PreemptInv, [Next]_vars
      PROVE  (HltInv /\ PreemptInv)'
  BY <1>1, NextSettles, StutterSettled
<1> QED BY <1>1, InitSettled, Invariance, ListsInOrder, PTL DEF Spec

\* idle() executes `hlt' only when no thread is ready.
THEOREM NeverIdlesWithWork == Spec => []NoIdlingWithWork
<1>1. HltInv => NoIdlingWithWork
  BY DEF HltInv, NoIdlingWithWork, At
<1> QED BY <1>1, PreemptionInvariance, PTL

\* Outside check_preemption, a thread runs although a higher one is ready
\* only between a timer tick and the end of its time slice.
THEOREM InversionBounded == Spec => []InversionOnlyAfterTick
<1>1. ASSUME IInv, PreemptInv PROVE InversionOnlyAfterTick
  <2>1. ASSUME At("run"), outranked(ready_list, priority)
        PROVE  thread_ticks \in 1..(TIME_SLICE - 1)
    <3>1. thread_ticks # 0
      BY <1>1, <2>1 DEF PreemptInv, At
    <3>2. thread_ticks \in 0..TIME_SLICE /\ thread_ticks < TIME_SLICE
      BY <1>1, <2>1 DEF IInv, TypeOK, ListInv, SliceInv, At
    <3> QED BY <3>1, <3>2, NumberAssumption
  <2> QED BY <2>1 DEF InversionOnlyAfterTick
<1> QED BY <1>1, Invariance, PreemptionInvariance, PTL

=============================================================================
