--------------------------- MODULE Mlfqs_proofs ----------------------------
(***************************************************************************)
(* Proofs that under MLFQS every ready thread is in the queue of its       *)
(* priority whenever a thread can look, that every switch is to a thread   *)
(* of the highest priority, and that no inversion of priorities outlasts   *)
(* the next fourth tick.                                                   *)
(***************************************************************************)
EXTENDS Mlfqs, QueueLemmas, FiniteSetTheorems

-----------------------------------------------------------------------------
(* The inductive invariant.                                                *)

\* The queues hold the ready threads by priority.
Consistent(lists, st, pri) ==
  /\ lists \in [Priority -> Seq(Thread)]
  /\ st \in [Thread -> Status]
  /\ pri \in [Thread -> Priority]
  /\ \A p \in Priority : IsInjective(lists[p])
  /\ \A p \in Priority, t \in Thread :
         t \in Range(lists[p]) <=> st[t] = "READY" /\ t # Idle /\ pri[t] = p

\* While mlfqs_reorganize_queues empties the queues, each ready thread is in
\* one of them, whichever, or in temp_list.
Collecting ==
  /\ IsInjective(temp_list)
  /\ \A p \in Priority : IsInjective(mlfqs_list[p])
  /\ \A t \in Thread :
         status[t] = "READY" /\ t # Idle <=>
             t \in Range(temp_list) \/ \E p \in Priority : t \in Range(mlfqs_list[p])
  /\ \A t \in Thread, p \in Priority : t \in Range(mlfqs_list[p]) =>
         /\ t \notin Range(temp_list)
         /\ \A q \in Priority : t \in Range(mlfqs_list[q]) => q = p

\* While it fills them again, the ready threads not in temp_list are in the
\* queue of their priority.
Filling ==
  /\ IsInjective(temp_list)
  /\ \A p \in Priority : IsInjective(mlfqs_list[p])
  /\ \A t \in Thread : t \in Range(temp_list) => status[t] = "READY" /\ t # Idle
  /\ \A p \in Priority, t \in Thread :
         t \in Range(mlfqs_list[p]) <=> /\ status[t] = "READY"
                                        /\ t # Idle
                                        /\ priority[t] = p
                                        /\ t \notin Range(temp_list)

QueueInv ==
  /\ intr \in {"none", "wakeup"} =>
         temp_list = <<>> /\ Consistent(mlfqs_list, status, priority)
  /\ intr = "collect" => Collecting
  /\ intr = "insert" => Filling

\* One thread runs.
RunInv == \A t \in Thread : status[t] = "RUNNING" <=> t = cur

\* Where a thread can be in the kernel, given its status.
CreatePC == {"all_list", "allocate_tid", "thread_unblock"}
PcInv ==
  /\ \A t \in Thread :
         /\ t = Idle <=> pc[t] \in {"idle", "hlt"}
         /\ pc[t] \in {"blocked", "nascent"} => status[t] = "BLOCKED"
         /\ pc[t] \in CreatePC => t = Main /\ child # NoThread
         /\ t = child => pc[t] = "nascent"
  /\ status[Idle] \in {"RUNNING", "READY", "BLOCKED"}

\* A time slice that is over ends with the interrupt that noticed it.
SliceInv ==
  intr = "none" \/ ~yield_on_return => thread_ticks < TIME_SLICE

IInv == TypeOK /\ QueueInv /\ RunInv /\ PcInv /\ SliceInv

-----------------------------------------------------------------------------
(* Arithmetic.                                                             *)

\* C division of an int by a positive divisor.
LEMMA QuotientInt ==
  ASSUME NEW a \in Int, NEW b \in Nat \ {0}
  PROVE  quotient(a, b) \in Int /\ (a >= 0 => quotient(a, b) \in Nat)
BY DEF quotient

\* A result that an int can hold is left as it is.
LEMMA IntFits ==
  ASSUME NEW x \in Int, x < INT_RANGE \div 2, x >= -(INT_RANGE \div 2)
  PROVE  int(x) = x
<1> DEFINE h == INT_RANGE \div 2
<1>1. INT_RANGE \in Nat \ {0} /\ h \in Nat /\ 2 * h <= INT_RANGE
  BY FAssumption
<1> HIDE DEF h
<1>2. x + h \in Nat /\ x + h < INT_RANGE
  BY <1>1 DEF h
<1>3. \A y \in Nat, m \in Nat \ {0} : y < m => y % m = y
  OBVIOUS
<1>4. (x + h) % INT_RANGE = x + h
  BY <1>1, <1>2, <1>3
<1> QED BY <1>1, <1>4 DEF int, h

\* fp_to_int_nearest is off by half a unit at most.
LEMMA NearestInt ==
  ASSUME NEW y \in Int, y + F \div 2 < INT_RANGE \div 2, y - F \div 2 >= -(INT_RANGE \div 2)
  PROVE  2 * (F * fp_to_int_nearest(y) - y) \in -F..F
<1> DEFINE g == F \div 2
           h == INT_RANGE \div 2
<1>1. F \in Nat \ {0} /\ g \in Nat /\ 2 * g <= F /\ F <= 2 * g + 1 /\ h \in Nat
  BY FAssumption
<1>2. \A z \in Nat : z \div F \in Nat /\ F * (z \div F) <= z /\ z < F * (z \div F) + F
  BY <1>1
<1>3. \A z \in Nat : F * (z \div F) \in Int /\ F * (-(z \div F)) = -(F * (z \div F))
  BY <1>1, <1>2
<1>4. y + g < h /\ y - g >= -h
  OBVIOUS
<1>5. int(y + g) = y + g \/ y < 0
  BY <1>1, <1>4, IntFits
<1>6. int(y - g) = y - g \/ y >= 0
  BY <1>1, <1>4, IntFits
<1> HIDE DEF g, h
<1>7. CASE y >= 0
  <2> DEFINE q == (y + g) \div F
  <2>1. y + g \in Nat /\ int(y + g) = y + g
    BY <1>1, <1>5, <1>7
  <2>2. fp_to_int_nearest(y) = q
    BY <1>7, <2>1 DEF fp_to_int_nearest, quotient, g
  <2>3. q \in Nat /\ F * q \in Int /\ F * q <= y + g /\ y + g < F * q + F
    BY <1>2, <1>3, <2>1
  <2> HIDE DEF q
  <2>4. 2 * (F * q - y) \in -F..F
    BY <1>1, <2>3
  <2> QED BY <2>2, <2>4
<1>8. CASE y < 0
  <2> DEFINE z == -(y - g)
             q == z \div F
  <2>1. z \in Nat /\ z > 0 /\ int(y - g) = y - g /\ ~(y >= 0) /\ ~(y - g >= 0)
    BY <1>1, <1>6, <1>8
  <2>2. fp_to_int_nearest(y) = -q
    BY <2>1 DEF fp_to_int_nearest, quotient, g
  <2>3. q \in Nat /\ F * q \in Int /\ F * q <= z /\ z < F * q + F /\ F * (-q) = -(F * q)
    BY <1>2, <1>3, <2>1
  <2>4. z = g - y
    BY <1>1
  <2> HIDE DEF q, z
  <2>5. 2 * (-(F * q) - y) \in -F..F
    BY <1>1, <2>1, <2>3, <2>4
  <2> QED BY <2>2, <2>3, <2>5
<1> QED BY <1>7, <1>8

\* A computed priority is the index of a queue.
LEMMA PriorityInRange ==
  ASSUME NEW cpu \in Int, NEW n \in Int
  PROVE  mlfqs_priority(cpu, n) \in Priority
<1>1. fp_to_int(fp_div_int(cpu, 4)) \in Int
  BY QuotientInt, FAssumption DEF fp_to_int, fp_div_int
<1> QED BY <1>1, NumberAssumption DEF mlfqs_priority, Priority, PRI_MIN

\* What update_priority stores is a priority, for the threads it visits only.
LEMMA UpdatedType ==
  ASSUME TypeOK, NEW threads
  PROVE  /\ updated_priority(threads) \in [Thread -> Priority]
         /\ \A t \in Thread \ threads : updated_priority(threads)[t] = priority[t]
<1>1. \A t \in Thread : recent_cpu[t] \in Int /\ nice[t] \in Int
  BY NumberAssumption DEF TypeOK
<1>2. \A t \in Thread : mlfqs_priority(recent_cpu[t], nice[t]) \in Priority
  BY <1>1, PriorityInRange
<1> QED BY <1>2 DEF updated_priority, TypeOK

\* The load average stays a natural number.
LEMMA LoadType ==
  ASSUME TypeOK
  PROVE  new_load_avg \in Nat
<1>1. mlfqs_ready_threads \in Nat
  <2>1. Queued \in SUBSET Thread
    <3>1. \A p \in Priority : mlfqs_list[p] \in Seq(Thread)
      BY DEF TypeOK
    <3>2. \A p \in Priority : \A t \in Range(mlfqs_list[p]) : t \in Thread
      BY <3>1, SeqElement
    <3> QED BY <3>2 DEF Queued
  <2>2. Cardinality(Queued) \in Nat
    BY <2>1, ThreadAssumption, FS_Subset, FS_CardinalityType
  <2> QED BY <2>2 DEF mlfqs_ready_threads
<1>2. /\ fp_div_int(int_to_fp(59), 60) \in Nat
      /\ fp_div_int(int_to_fp(1), 60) \in Nat
  BY QuotientInt, FAssumption DEF fp_div_int, int_to_fp
<1>3. \A x, y \in Nat : x * y \in Nat
  OBVIOUS
<1> DEFINE c == fp_div_int(int_to_fp(59), 60)
<1>4. fp_mul(c, load_avg) \in Nat
  <2>1. c * load_avg \in Nat
    BY <1>2, <1>3 DEF TypeOK
  <2> DEFINE x == c * load_avg
  <2>2. x \in Int /\ x >= 0
    BY <2>1
  <2> HIDE DEF x
  <2>3. quotient(x, F) \in Nat
    BY <2>2, QuotientInt, FAssumption
  <2> QED BY <2>3 DEF fp_mul, x
<1> QED BY <1>1, <1>2, <1>3, <1>4 DEF new_load_avg, fp_add, fp_mul_int

\* The decay divides by 2 * load_avg + 1, which is never zero.
LEMMA CpuType ==
  ASSUME TypeOK, NEW t \in Thread
  PROVE  decayed_cpu(t) \in Int
<1> DEFINE two == fp_mul_int(load_avg, 2)
           den == fp_add_int(two, 1)
<1>1. two \in Nat /\ den \in Nat \ {0}
  BY FAssumption DEF TypeOK, fp_mul_int, fp_add_int
<1>2. two * F \in Int
  BY <1>1, FAssumption
<1>3. fp_div(two, den) \in Int
  BY <1>1, <1>2, QuotientInt DEF fp_div
<1>4. recent_cpu[t] \in Int /\ nice[t] \in Int
  BY NumberAssumption DEF TypeOK
<1>5. fp_mul(fp_div(two, den), recent_cpu[t]) \in Int
  <2>1. fp_div(two, den) * recent_cpu[t] \in Int
    BY <1>3, <1>4
  <2> QED BY <2>1, QuotientInt, FAssumption DEF fp_mul
<1>6. nice[t] * F \in Int
  BY <1>4, FAssumption
<1> QED BY <1>5, <1>6 DEF decayed_cpu, fp_add_int

-----------------------------------------------------------------------------
(* The queues and the scheduler.                                           *)

\* mlfqs_insert of a thread that becomes ready, with a priority computed
\* just before or not.
LEMMA InsertEffect ==
  ASSUME NEW lists, NEW st, NEW pri, NEW new \in [Thread -> Priority],
         NEW t \in Thread, t # Idle, st[t] # "READY",
         Consistent(lists, st, pri),
         \A u \in Thread \ {t} : new[u] = pri[u]
  PROVE  Consistent(mlfqs_insert(lists, t, new), [st EXCEPT ![t] = "READY"], new)
<1> DEFINE ls == mlfqs_insert(lists, t, new)
           q == lists[new[t]]
           st2 == [st EXCEPT ![t] = "READY"]
<1>1. new[t] \in Priority /\ q \in Seq(Thread) /\ IsInjective(q) /\ t \notin Range(q)
  BY DEF Consistent
<1>2. /\ Append(q, t) \in Seq(Thread)
      /\ \A u : u \in Range(Append(q, t)) <=> u \in Range(q) \/ u = t
      /\ IsInjective(Append(q, t))
  BY <1>1, PushSeq
<1>3. /\ ls \in [Priority -> Seq(Thread)]
      /\ \A p \in Priority : ls[p] = IF p = new[t] THEN Append(q, t) ELSE lists[p]
  BY <1>1, <1>2 DEF mlfqs_insert, Consistent
<1>4. /\ st2 \in [Thread -> Status]
      /\ \A u \in Thread : st2[u] = IF u = t THEN "READY" ELSE st[u]
  BY DEF Consistent, Status
<1> HIDE DEF ls, st2, q
<1>5. \A p \in Priority : IsInjective(ls[p])
  BY <1>2, <1>3 DEF Consistent
<1>6. ASSUME NEW p \in Priority, NEW u \in Thread
      PROVE  u \in Range(ls[p]) <=> st2[u] = "READY" /\ u # Idle /\ new[u] = p
  <2>1. u \in Range(lists[p]) <=> st[u] = "READY" /\ u # Idle /\ pri[u] = p
    BY DEF Consistent
  <2>2. u \in Range(ls[p]) <=> u \in Range(lists[p]) \/ (u = t /\ p = new[t])
    BY <1>2, <1>3 DEF q
  <2> QED BY <1>4, <2>1, <2>2
<1>7. Consistent(ls, st2, new)
  BY <1>3, <1>4, <1>5, <1>6 DEF Consistent
<1> QED BY <1>7 DEF ls, st2

\* mlfqs_next_thread_to_run takes a ready thread off its queue.
Taken(lists, st) ==
  /\ cur' \in Thread
  /\ cur' = Idle \/ (st[cur'] = "READY" /\ cur' # Idle)
  /\ mlfqs_list' \in [Priority -> Seq(Thread)]
  /\ \A p \in Priority : IsInjective(mlfqs_list'[p])
  /\ \A p \in Priority, u \in Thread :
         u \in Range(mlfqs_list'[p]) <=> u \in Range(lists[p]) /\ u # cur'
  /\ \A p \in Priority : \A u \in Range(lists[p]) :
         cur' # Idle /\ \E q \in Priority : q >= p /\ cur' \in Range(lists[q])

\* Nobody who is ready outranks the thread that was taken.
Highest(pri) ==
  \A u \in Thread \ {Idle} :
      status'[u] = "READY" => cur' # Idle /\ pri[u] <= pri[cur']

\* What schedule() leaves behind, once the running thread has another status.
Switched(st, pri) ==
  /\ cur' \in Thread
  /\ thread_ticks' = 0
  /\ Consistent(mlfqs_list', status', pri)
  /\ \A u \in Thread :
         status'[u] = IF u = cur' THEN "RUNNING"
                      ELSE IF u = cur /\ u # Main /\ st[u] = "DYING" THEN "FREE"
                      ELSE st[u]
  /\ cur' = Idle \/ st[cur'] = "READY"
  /\ Highest(pri)

\* schedule() switches to the highest queue that is not empty.
LEMMA ScheduleEffect ==
  ASSUME NEW lists, NEW st, NEW pri, Consistent(lists, st, pri), cur \in Thread,
         \A u \in Thread : st[u] # "RUNNING",
         schedule(lists, st)
  PROVE  Switched(st, pri)
<1>1. Taken(lists, st)
  <2>1. CASE cur' = Idle /\ mlfqs_list' = lists /\ \A p \in Priority : lists[p] = <<>>
    <3>1. \A p \in Priority, u \in Thread : u \in Range(lists[p]) => u # Idle
      BY DEF Consistent
    <3>2. \A p \in Priority : \A u : u \notin Range(lists[p])
      BY <2>1, EmptyRange
    <3> QED BY <2>1, <3>1, <3>2, ThreadAssumption DEF Consistent, Taken
  <2>2. ASSUME NEW p \in Priority, lists[p] # <<>>, cur' = Head(lists[p]),
               \A q \in Priority : q > p => lists[q] = <<>>,
               mlfqs_list' = [lists EXCEPT ![p] = Tail(@)]
        PROVE  Taken(lists, st)
    <3>1. lists \in [Priority -> Seq(Thread)] /\ lists[p] \in Seq(Thread)
      BY DEF Consistent
    <3>2. /\ cur' \in Thread /\ cur' \in Range(lists[p])
          /\ Tail(lists[p]) \in Seq(Thread) /\ IsInjective(Tail(lists[p]))
          /\ \A u : u \in Range(Tail(lists[p])) <=> u \in Range(lists[p]) /\ u # cur'
      BY <2>2, <3>1, PopSeq DEF Consistent
    <3>3. st[cur'] = "READY" /\ cur' # Idle /\ pri[cur'] = p
      BY <3>2 DEF Consistent
    <3>4. /\ mlfqs_list' \in [Priority -> Seq(Thread)]
          /\ \A q \in Priority :
                 mlfqs_list'[q] = IF q = p THEN Tail(lists[p]) ELSE lists[q]
      BY <2>2, <3>1, <3>2
    <3>5. \A q \in Priority : IsInjective(mlfqs_list'[q])
      BY <3>2, <3>4 DEF Consistent
    <3>6. ASSUME NEW q \in Priority, NEW u \in Thread
          PROVE  u \in Range(mlfqs_list'[q]) <=> u \in Range(lists[q]) /\ u # cur'
      <4>1. cur' \in Range(lists[q]) => q = p
        BY <3>2, <3>3 DEF Consistent
      <4> QED BY <3>2, <3>4, <4>1
    <3>7. ASSUME NEW q \in Priority, NEW u \in Range(lists[q])
          PROVE  p >= q
      <4>1. lists[q] # <<>>
        BY <3>7, EmptyRange
      <4> QED BY <2>2, <4>1, NumberAssumption DEF Priority, PRI_MIN
    <3> QED BY <3>2, <3>3, <3>4, <3>5, <3>6, <3>7 DEF Taken
  <2> QED BY <2>1, <2>2 DEF schedule
<1>2. /\ status' \in [Thread -> Status]
      /\ \A u \in Thread :
             status'[u] = IF u = cur' THEN "RUNNING"
                          ELSE IF u = cur /\ u # Main /\ st[u] = "DYING" THEN "FREE"
                          ELSE st[u]
  BY <1>1 DEF Taken, schedule, thread_schedule_tail, Consistent, Status
<1>3. thread_ticks' = 0
  BY DEF schedule
<1>4. ASSUME NEW p \in Priority, NEW u \in Thread
      PROVE  u \in Range(mlfqs_list'[p]) <=>
                 status'[u] = "READY" /\ u # Idle /\ pri[u] = p
  <2>1. u \in Range(lists[p]) <=> st[u] = "READY" /\ u # Idle /\ pri[u] = p
    BY DEF Consistent
  <2>2. status'[u] = "READY" <=> st[u] = "READY" /\ u # cur'
    BY <1>2
  <2> QED BY <1>1, <2>1, <2>2 DEF Taken
<1>5. pri \in [Thread -> Priority]
  BY DEF Consistent
<1>6. Consistent(mlfqs_list', status', pri)
  BY <1>1, <1>2, <1>4, <1>5 DEF Consistent, Taken
<1>7. ASSUME NEW u \in Thread \ {Idle}, status'[u] = "READY"
      PROVE  cur' # Idle /\ pri[u] <= pri[cur']
  <2>1. st[u] = "READY" /\ pri[u] \in Priority
    BY <1>2, <1>5, <1>7
  <2>2. u \in Range(lists[pri[u]])
    BY <2>1 DEF Consistent
  <2>3. PICK q \in Priority : q >= pri[u] /\ cur' \in Range(lists[q]) /\ cur' # Idle
    BY <1>1, <2>1, <2>2 DEF Taken
  <2>4. pri[cur'] = q
    BY <1>1, <2>3 DEF Consistent, Taken
  <2> QED BY <2>1, <2>3, <2>4, NumberAssumption DEF Priority, PRI_MIN
<1> QED BY <1>1, <1>2, <1>3, <1>6, <1>7 DEF Switched, Taken, Highest

\* thread_yield() of the running thread.
LEMMA YieldEffect ==
  ASSUME NEW lists, NEW st, NEW pri, Consistent(lists, st, pri), cur \in Thread,
         \A u \in Thread : st[u] = "RUNNING" <=> u = cur,
         thread_yield(lists, st, pri)
  PROVE  Switched([st EXCEPT ![cur] = "READY"], pri)
<1> DEFINE st2 == [st EXCEPT ![cur] = "READY"]
           ls == IF cur = Idle THEN lists ELSE mlfqs_insert(lists, cur, pri)
<1>1. Consistent(ls, st2, pri)
  <2>1. CASE cur = Idle
    BY <2>1 DEF Consistent, Status
  <2>2. CASE cur # Idle
    <3>1. pri \in [Thread -> Priority] /\ st[cur] # "READY"
      BY DEF Consistent
    <3> QED BY <2>2, <3>1, InsertEffect
  <2> QED BY <2>1, <2>2
<1>2. \A u \in Thread : st2[u] # "RUNNING"
  BY DEF Consistent
<1>3. schedule(ls, st2)
  BY DEF thread_yield
<1> HIDE DEF ls, st2
<1>4. Switched(st2, pri)
  BY <1>1, <1>2, <1>3, ScheduleEffect
<1> QED BY <1>4 DEF st2

-----------------------------------------------------------------------------
(* What steps outside mlfqs_reorganize_queues have in common.              *)

Quiet == intr \in {"none", "wakeup"}

\* The action of SwitchToHighest.
TakesHighest ==
  cur' # cur => \A t \in Thread \ {Idle} : status'[t] = "READY" =>
                    cur' # Idle /\ priority'[t] <= priority'[cur']

\* The scheduler's state after a step that may have woken the threads in w.
SchedOK(w) ==
  /\ cur' \in Thread
  /\ thread_ticks' = 0 \/ thread_ticks' = thread_ticks
  /\ Consistent(mlfqs_list', status', priority')
  /\ RunInv'
  /\ \A u \in Thread \ ({cur, Idle} \union w) :
         status[u] = "BLOCKED" => status'[u] = "BLOCKED"
  /\ status'[Idle] \in {"RUNNING", "READY", "BLOCKED"}
  /\ TakesHighest

\* What the invariant says of the running thread outside the timer interrupt.
LEMMA CurFacts ==
  ASSUME IInv, Quiet
  PROVE  /\ cur \in Thread /\ status[cur] = "RUNNING"
         /\ \A u \in Thread : status[u] = "RUNNING" <=> u = cur
         /\ pc[cur] \notin {"blocked", "nascent"} /\ cur # child
         /\ Consistent(mlfqs_list, status, priority)
         /\ status[Idle] \in {"RUNNING", "READY", "BLOCKED"}
         /\ cur = Idle <=> pc[cur] \in {"idle", "hlt"}
BY DEF IInv, TypeOK, RunInv, PcInv, QueueInv, Quiet

\* No switch; the running thread may change its own priority.
LEMMA SchedStays ==
  ASSUME IInv, Quiet, UNCHANGED schedVars, priority' \in [Thread -> Priority],
         \A t \in Thread \ {cur} : priority'[t] = priority[t]
  PROVE  SchedOK({})
<1>1. \A p \in Priority : cur \notin Range(mlfqs_list[p])
  BY CurFacts DEF Consistent
<1>2. Consistent(mlfqs_list', status', priority')
  BY <1>1, CurFacts DEF Consistent, schedVars
<1> QED BY <1>2, CurFacts DEF SchedOK, RunInv, schedVars, TakesHighest

\* A switch away from the running thread, which now has status s.
LEMMA SchedSwitch ==
  ASSUME IInv, NEW s \in {"READY", "BLOCKED", "DYING"}, NEW pri, NEW w,
         NEW st, Switched([st EXCEPT ![cur] = s], pri), priority' = pri,
         st \in [Thread -> Status], cur \in Thread,
         \A u \in Thread : st[u] = "RUNNING" <=> u = cur,
         \A u \in Thread \ w : st[u] = status[u],
         st[Idle] \in {"RUNNING", "READY", "BLOCKED"},
         s = "DYING" => cur # Idle
  PROVE  SchedOK(w) /\ (s = "BLOCKED" /\ cur # Idle => status'[cur] = "BLOCKED")
<1> DEFINE st2 == [st EXCEPT ![cur] = s]
<1>1. \A u \in Thread : st2[u] = IF u = cur THEN s ELSE st[u]
  OBVIOUS
<1> HIDE DEF st2
<1>2. /\ cur' \in Thread /\ thread_ticks' = 0
      /\ Consistent(mlfqs_list', status', priority')
      /\ \A u \in Thread :
             status'[u] = IF u = cur' THEN "RUNNING"
                          ELSE IF u = cur /\ u # Main /\ st2[u] = "DYING" THEN "FREE"
                          ELSE st2[u]
      /\ cur' = Idle \/ st2[cur'] = "READY"
  BY DEF Switched, st2
<1>3. RunInv'
  BY <1>1, <1>2 DEF RunInv
<1>4. \A u \in Thread \ ({cur, Idle} \union w) :
          status[u] = "BLOCKED" => status'[u] = "BLOCKED"
  BY <1>1, <1>2
<1>5. status'[Idle] \in {"RUNNING", "READY", "BLOCKED"}
  BY <1>1, <1>2, ThreadAssumption
<1>6. s = "BLOCKED" /\ cur # Idle => status'[cur] = "BLOCKED"
  BY <1>1, <1>2
<1>7. TakesHighest
  BY DEF Switched, Highest, TakesHighest
<1> QED BY <1>2, <1>3, <1>4, <1>5, <1>6, <1>7 DEF SchedOK

\* thread_yield leaves queues and states in accord.
LEMMA SchedYield ==
  ASSUME IInv, Quiet, thread_yield(mlfqs_list, status, priority), UNCHANGED priority
  PROVE  SchedOK({})
<1>1. Switched([status EXCEPT ![cur] = "READY"], priority)
  BY CurFacts, YieldEffect
<1>2. status \in [Thread -> Status]
  BY DEF IInv, TypeOK
<1> QED BY <1>1, <1>2, CurFacts, SchedSwitch

\* thread_block() and thread_exit().
LEMMA SchedLeaves ==
  ASSUME IInv, Quiet, NEW s \in {"BLOCKED", "DYING"}, s = "DYING" => cur # Idle,
         schedule(mlfqs_list, [status EXCEPT ![cur] = s]), UNCHANGED priority
  PROVE  SchedOK({}) /\ (s = "BLOCKED" /\ cur # Idle => status'[cur] = "BLOCKED")
<1> DEFINE st2 == [status EXCEPT ![cur] = s]
<1>1. status \in [Thread -> Status] /\ cur \in Thread
  BY DEF IInv, TypeOK
<1>2. Consistent(mlfqs_list, st2, priority)
  BY <1>1, CurFacts DEF Consistent, Status
<1>3. \A u \in Thread : st2[u] # "RUNNING"
  BY <1>1, CurFacts
<1>4. Switched(st2, priority)
  <2> HIDE DEF st2
  <2>1. schedule(mlfqs_list, st2)
    BY DEF st2
  <2> QED BY <1>1, <1>2, <1>3, <2>1, ScheduleEffect
<1> QED BY <1>1, <1>4, CurFacts, SchedSwitch

\* thread_unblock(t), with or without a check for preemption.
LEMMA SchedWakes ==
  ASSUME IInv, Quiet, NEW t \in Thread, status[t] = "BLOCKED", t # Idle,
         priority' = unblocked_pri(t),
         \/ /\ mlfqs_list' = unblocked_list(t)
            /\ status' = unblocked_status(t)
            /\ UNCHANGED <<cur, thread_ticks>>
         \/ check_preemption(unblocked_list(t), unblocked_status(t), unblocked_pri(t))
  PROVE  SchedOK({t})
<1> DEFINE ls == unblocked_list(t)
           st == unblocked_status(t)
           pri == unblocked_pri(t)
<1>1. status \in [Thread -> Status] /\ cur \in Thread
  BY DEF IInv, TypeOK
<1>2. pri \in [Thread -> Priority] /\ \A u \in Thread \ {t} : pri[u] = priority[u]
  BY UpdatedType DEF IInv, unblocked_pri
<1>3. Consistent(ls, st, pri)
  BY <1>2, CurFacts, InsertEffect DEF unblocked_list, unblocked_status
<1>4. /\ st \in [Thread -> Status]
      /\ \A u \in Thread : st[u] = IF u = t THEN "READY" ELSE status[u]
  BY <1>1 DEF unblocked_status, Status
<1> HIDE DEF ls, st, pri
<1>5. \A u \in Thread : st[u] = "RUNNING" <=> u = cur
  BY <1>4, CurFacts
<1>6. st[Idle] \in {"RUNNING", "READY", "BLOCKED"}
  BY <1>4, CurFacts, ThreadAssumption
<1>7. CASE mlfqs_list' = ls /\ status' = st /\ UNCHANGED <<cur, thread_ticks>>
  BY <1>1, <1>3, <1>4, <1>5, <1>6, <1>7 DEF SchedOK, RunInv, TakesHighest, pri
<1>8. CASE thread_yield(ls, st, pri)
  <2>1. Switched([st EXCEPT ![cur] = "READY"], pri)
    BY <1>1, <1>3, <1>5, <1>8, YieldEffect
  <2>2. \A u \in Thread \ {t} : st[u] = status[u]
    BY <1>4
  <2>3. priority' = pri
    BY DEF pri
  <2> QED BY ZenonT(40), <1>1, <1>4, <1>5, <1>6, <2>1, <2>2, <2>3, SchedSwitch
<1> QED BY <1>7, <1>8 DEF check_preemption, ls, st, pri

-----------------------------------------------------------------------------
(* The rest of the state.                                                  *)

\* What PcStep needs to know of a thread: it stays where it is, goes on in
\* the kernel, blocks, or goes on in thread_create.
PcMoves(t) ==
  \/ /\ pc'[t] = pc[t]
     /\ pc[t] \in {"blocked", "nascent"} => status'[t] = "BLOCKED"
     /\ child' = child \/ pc[t] \notin CreatePC
  \/ /\ pc'[t] \notin {"blocked", "nascent"} \union CreatePC
     /\ t = Idle <=> pc'[t] \in {"idle", "hlt"}
     /\ t # child'
  \/ pc'[t] = "blocked" /\ status'[t] = "BLOCKED" /\ t # Idle /\ t # child'
  \/ pc'[t] \in CreatePC /\ t = Main /\ child' = child /\ child # NoThread /\ t # child

\* The control points follow the states of the threads.
LEMMA PcStep ==
  ASSUME IInv, child' \in {child, NoThread},
         status'[Idle] \in {"RUNNING", "READY", "BLOCKED"},
         \A t \in Thread : PcMoves(t)
  PROVE  PcInv'
<1>1. ASSUME NEW t \in Thread
      PROVE  /\ t = Idle <=> pc'[t] \in {"idle", "hlt"}
             /\ pc'[t] \in {"blocked", "nascent"} => status'[t] = "BLOCKED"
             /\ pc'[t] \in CreatePC => t = Main /\ child' # NoThread
             /\ t = child' => pc'[t] = "nascent"
  <2>1. /\ t = Idle <=> pc[t] \in {"idle", "hlt"}
        /\ pc[t] \in CreatePC => t = Main /\ child # NoThread
        /\ t = child => pc[t] = "nascent"
        /\ t # NoThread
    BY ThreadAssumption DEF IInv, PcInv
  <2> QED BY <1>1, <2>1, ThreadAssumption DEF PcMoves, CreatePC
<1> QED BY <1>1 DEF PcInv

FieldsOK ==
  /\ pc \in [Thread -> PC]
  /\ base_priority \in [Thread -> Priority]
  /\ nice \in [Thread -> NICE_MIN..NICE_MAX]
  /\ recent_cpu \in [Thread -> Int]
  /\ load_avg \in Nat
  /\ all_list \in SUBSET Thread
  /\ new_priority \in [Thread -> Priority]
  /\ level \in [Thread -> Priority]
  /\ child \in Thread \union {NoThread}

\* A step of a thread, or of a handler that does not touch the timer's state.
LEMMA ThreadStep ==
  ASSUME IInv, Quiet, NEW w, SchedOK(w), UNCHANGED timerVars, PcInv', FieldsOK'
  PROVE  IInv' /\ TakesHighest
<1>1. TypeOK'
  <2>1. /\ cur' \in Thread
        /\ status' \in [Thread -> Status]
        /\ priority' \in [Thread -> Priority]
        /\ mlfqs_list' \in [Priority -> Seq(Thread)]
    BY DEF SchedOK, Consistent
  <2>2. /\ temp_list' \in Seq(Thread) /\ ticks' \in 0..MaxTicks
        /\ intr' \in Stage /\ yield_on_return' \in BOOLEAN
    BY DEF IInv, TypeOK, timerVars
  <2>3. thread_ticks' \in 0..TIME_SLICE
    <3>1. thread_ticks \in 0..TIME_SLICE
      BY DEF IInv, TypeOK
    <3>2. thread_ticks' = 0 \/ thread_ticks' = thread_ticks
      BY DEF SchedOK
    <3> QED BY <3>1, <3>2, NumberAssumption
  <2> QED BY <2>1, <2>2, <2>3 DEF TypeOK, FieldsOK
<1>2. QueueInv'
  BY DEF IInv, QueueInv, Quiet, SchedOK, timerVars
<1>3. SliceInv'
  BY NumberAssumption DEF IInv, SliceInv, SchedOK, timerVars
<1> QED BY <1>1, <1>2, <1>3 DEF IInv, SchedOK

\* The fields of the threads have their types.
LEMMA Fields ==
  ASSUME IInv
  PROVE  FieldsOK
BY DEF IInv, TypeOK, FieldsOK

\* The running thread goes to p, which is not the beginning of a wait.
LEMMA GoesOn ==
  ASSUME IInv, Quiet, SchedOK({}), NEW p \in PC, Goto(p), UNCHANGED child,
         p \notin {"blocked", "nascent"} \union CreatePC,
         cur = Idle <=> p \in {"idle", "hlt"}
  PROVE  PcInv' /\ pc' \in [Thread -> PC]
<1>1. /\ pc' \in [Thread -> PC]
      /\ \A t \in Thread : pc'[t] = IF t = cur THEN p ELSE pc[t]
  BY CurFacts DEF Goto, IInv, TypeOK
<1>2. ASSUME NEW t \in Thread
      PROVE  PcMoves(t)
  <2>1. CASE t = cur
    BY <1>1, <2>1, CurFacts DEF PcMoves
  <2>2. CASE t # cur
    <3>1. pc[t] \in {"blocked", "nascent"} => status[t] = "BLOCKED" /\ t # Idle
      BY DEF IInv, PcInv
    <3> QED BY <1>1, <2>2, <3>1 DEF PcMoves, SchedOK
  <2> QED BY <2>1, <2>2
<1>3. PcInv'
  BY <1>2, PcStep DEF SchedOK
<1> QED BY <1>1, <1>3

-----------------------------------------------------------------------------
(* Calls of threads.                                                       *)

\* thread_create, up to the new thread's fields.
LEMMA ThreadCreateStep ==
  ASSUME IInv, NEW t \in Thread, NEW pri \in NewPriority, ThreadCreate(t, pri)
  PROVE  IInv' /\ TakesHighest
<1>1. /\ Quiet /\ t # cur /\ t # Idle /\ cur = Main /\ cur # Idle
      /\ status[t] = "FREE" /\ status \in [Thread -> Status]
  BY CurFacts, ThreadAssumption DEF ThreadCreate, At, Quiet, IInv, TypeOK
<1>2. /\ status' \in [Thread -> Status]
      /\ \A u \in Thread : status'[u] = IF u = t THEN "BLOCKED" ELSE status[u]
  BY <1>1 DEF ThreadCreate, Status
<1>3. /\ priority' \in [Thread -> Priority]
      /\ \A u \in Thread \ {t} : priority'[u] = priority[u]
  <2>1. recent_cpu[cur] \in Int /\ nice[cur] \in Int
    BY <1>1, CurFacts, NumberAssumption DEF IInv, TypeOK
  <2>2. mlfqs_priority(recent_cpu[cur], nice[cur]) \in Priority
    BY <2>1, PriorityInRange
  <2> QED BY <2>2 DEF ThreadCreate, IInv, TypeOK
<1>4. SchedOK({})
  <2>1. \A p \in Priority, u \in Thread :
            u \in Range(mlfqs_list[p]) <=>
                status'[u] = "READY" /\ u # Idle /\ priority'[u] = p
    BY <1>1, <1>2, <1>3, CurFacts DEF Consistent
  <2>2. Consistent(mlfqs_list', status', priority')
    BY <1>1, <1>2, <1>3, <2>1, CurFacts DEF Consistent, ThreadCreate
  <2>3. cur' = cur /\ thread_ticks' = thread_ticks
    BY DEF ThreadCreate
  <2>4. RunInv'
    BY <1>1, <1>2, <2>3, CurFacts DEF RunInv
  <2>5. status'[Idle] \in {"RUNNING", "READY", "BLOCKED"}
    BY <1>1, <1>2, CurFacts, ThreadAssumption
  <2>6. \A u \in Thread : status[u] = "BLOCKED" => status'[u] = "BLOCKED"
    BY <1>2
  <2>7. cur' \in Thread
    BY <1>1, <2>3, CurFacts
  <2> QED BY <2>2, <2>3, <2>4, <2>5, <2>6, <2>7 DEF SchedOK, TakesHighest
<1>5. /\ pc' \in [Thread -> PC]
      /\ \A u \in Thread : pc'[u] = IF u = cur THEN "all_list"
                                    ELSE IF u = t THEN "nascent" ELSE pc[u]
  BY <1>1, CurFacts DEF ThreadCreate, IInv, TypeOK, PC
<1>6. PcInv'
  <2>1. child' = t
    BY DEF ThreadCreate
  <2>2. ASSUME NEW u \in Thread
        PROVE  /\ u = Idle <=> pc'[u] \in {"idle", "hlt"}
               /\ pc'[u] \in {"blocked", "nascent"} => status'[u] = "BLOCKED"
               /\ pc'[u] \in CreatePC => u = Main /\ child' # NoThread
               /\ u = child' => pc'[u] = "nascent"
    <3>1. /\ u = Idle <=> pc[u] \in {"idle", "hlt"}
          /\ pc[u] \in {"blocked", "nascent"} => status[u] = "BLOCKED"
          /\ pc[u] \in CreatePC => u = Main
      BY DEF IInv, PcInv
    <3> QED BY <1>1, <1>2, <1>5, <2>1, <3>1, ThreadAssumption DEF CreatePC
  <2> QED BY <1>4, <2>2 DEF PcInv, SchedOK
<1>7. FieldsOK'
  <2>1. /\ base_priority' \in [Thread -> Priority]
        /\ nice' \in [Thread -> NICE_MIN..NICE_MAX]
        /\ recent_cpu' \in [Thread -> Int]
    BY <1>1, Fields, CurFacts, NumberAssumption DEF FieldsOK, ThreadCreate, Priority
  <2> QED BY <1>5, <2>1, Fields DEF FieldsOK, ThreadCreate
<1>8. UNCHANGED timerVars
  BY DEF ThreadCreate
<1> QED BY <1>1, <1>4, <1>6, <1>7, <1>8, ThreadStep

\* thread_create: the new thread enters all_list.
LEMMA EnterAllListStep ==
  ASSUME IInv, EnterAllList
  PROVE  IInv' /\ TakesHighest
<1>1. /\ Quiet /\ cur = Main /\ cur \in Thread /\ cur # Idle
      /\ child \in Thread /\ cur # child /\ child' = child
  BY CurFacts, ThreadAssumption
     DEF EnterAllList, At, Quiet, IInv, PcInv, CreatePC, TypeOK, localVars
<1>2. SchedOK({})
  BY <1>1, SchedStays DEF EnterAllList, IInv, TypeOK, priVars
<1>3. /\ pc' \in [Thread -> PC]
      /\ \A u \in Thread : pc'[u] = IF u = cur THEN "allocate_tid" ELSE pc[u]
  BY <1>1 DEF EnterAllList, Goto, IInv, TypeOK, PC
<1>4. ASSUME NEW u \in Thread
      PROVE  PcMoves(u)
  <2>1. pc[u] \in {"blocked", "nascent"} => status[u] = "BLOCKED" /\ u # Idle
    BY DEF IInv, PcInv
  <2> QED BY <1>1, <1>2, <1>3, <2>1, ThreadAssumption DEF PcMoves, CreatePC, SchedOK
<1>5. PcInv'
  BY <1>1, <1>2, <1>4, PcStep DEF SchedOK
<1>6. FieldsOK'
  BY <1>1, <1>3, Fields DEF FieldsOK, EnterAllList, priVars, cpuVars, localVars
<1>7. UNCHANGED timerVars
  BY DEF EnterAllList
<1> QED BY <1>1, <1>2, <1>5, <1>6, <1>7, ThreadStep

\* lock_release: sema_up checks for preemption.
LEMMA LockReleaseStep ==
  ASSUME IInv, LockRelease
  PROVE  IInv' /\ TakesHighest
<1>1. Quiet /\ cur # Idle
  BY CurFacts DEF LockRelease, At, Quiet
<1>2. /\ UNCHANGED timerVars /\ UNCHANGED priority /\ UNCHANGED child
      /\ UNCHANGED <<base_priority, cpuVars, new_priority, level, all_list>>
      /\ Goto("refresh_priority")
  BY DEF LockRelease, priVars, localVars
<1>3. SchedOK({})
  <2>1. CASE thread_yield(mlfqs_list, status, priority)
    BY <1>1, <1>2, <2>1, SchedYield
  <2>2. CASE UNCHANGED schedVars
    BY <1>1, <1>2, <2>2, SchedStays DEF IInv, TypeOK
  <2> QED BY <2>1, <2>2 DEF LockRelease, check_preemption, schedVars
<1>4. PcInv' /\ pc' \in [Thread -> PC]
  BY <1>1, <1>2, <1>3, GoesOn DEF PC, CreatePC
<1>5. FieldsOK'
  BY <1>2, <1>4, Fields DEF FieldsOK, cpuVars
<1> QED BY <1>1, <1>2, <1>3, <1>4, <1>5, ThreadStep

\* refresh_priority sets the priority to base_priority.
LEMMA RefreshPriorityStep ==
  ASSUME IInv, RefreshPriority
  PROVE  IInv' /\ TakesHighest
<1>1. Quiet /\ cur # Idle /\ cur \in Thread /\ cur # child
  BY CurFacts DEF RefreshPriority, At, Quiet
<1>2. /\ UNCHANGED <<timerVars, child, schedVars, base_priority, cpuVars>>
      /\ UNCHANGED <<new_priority, level, all_list>>
  BY DEF RefreshPriority, localVars
<1>3. SchedOK({})
  <2>1. /\ priority' \in [Thread -> Priority]
        /\ \A u \in Thread \ {cur} : priority'[u] = priority[u]
    BY <1>1 DEF RefreshPriority, IInv, TypeOK
  <2> QED BY <1>1, <1>2, <2>1, SchedStays
<1>4. PcInv' /\ pc' \in [Thread -> PC]
  <2>1. CASE cur = Main /\ child # NoThread
    <3>1. /\ pc' \in [Thread -> PC]
          /\ \A u \in Thread : pc'[u] = IF u = cur THEN "thread_unblock" ELSE pc[u]
      BY <1>1, <2>1 DEF RefreshPriority, Goto, IInv, TypeOK, PC
    <3>2. ASSUME NEW u \in Thread
          PROVE  PcMoves(u)
      <4>1. pc[u] \in {"blocked", "nascent"} => status[u] = "BLOCKED" /\ u # Idle
        BY DEF IInv, PcInv
      <4> QED BY <1>1, <1>2, <1>3, <2>1, <3>1, <4>1 DEF PcMoves, CreatePC, SchedOK
    <3>3. PcInv'
      BY <1>2, <1>3, <3>2, PcStep DEF SchedOK
    <3> QED BY <3>1, <3>3
  <2>2. CASE ~(cur = Main /\ child # NoThread)
    <3>1. Goto("run")
      BY <2>2 DEF RefreshPriority
    <3> QED BY <1>1, <1>2, <1>3, <3>1, GoesOn DEF PC, CreatePC
  <2> QED BY <2>1, <2>2
<1>5. FieldsOK'
  BY <1>2, <1>4, Fields DEF FieldsOK, cpuVars
<1> QED BY <1>1, <1>2, <1>3, <1>4, <1>5, ThreadStep

\* thread_unblock of a thread that waits, or of the child of thread_create:
\* it runs on from where it was, and the running thread goes to p.
LEMMA WakeStep ==
  ASSUME IInv, Quiet, NEW t \in Thread, SchedOK({t}), t # cur, t # Idle,
         NEW p \in PC \ {"blocked", "nascent"},
         p \in CreatePC => p = pc[cur] /\ child' = child,
         cur = Idle <=> p \in {"idle", "hlt"},
         pc' \in [Thread -> PC],
         \A u \in Thread : pc'[u] = IF u = cur THEN p ELSE IF u = t THEN "run" ELSE pc[u],
         \/ child' = child /\ pc[t] = "blocked"
         \/ child' = NoThread /\ cur = Main
  PROVE  PcInv'
<1>1. ASSUME NEW u \in Thread
      PROVE  PcMoves(u)
  <2>1. /\ pc[u] \in {"blocked", "nascent"} => status[u] = "BLOCKED" /\ u # Idle
        /\ u = child => pc[u] = "nascent"
        /\ pc[u] \in CreatePC => u = Main
        /\ u # NoThread
    BY ThreadAssumption DEF IInv, PcInv
  <2>2. CASE u = cur
    BY <2>2, <2>1, CurFacts DEF PcMoves
  <2>3. CASE u = t
    BY <2>3, <2>1, CurFacts DEF PcMoves, CreatePC
  <2>4. CASE u # cur /\ u # t
    BY <2>4, <2>1 DEF PcMoves, SchedOK
  <2> QED BY <2>2, <2>3, <2>4
<1>2. child' \in {child, NoThread}
  OBVIOUS
<1> QED BY <1>1, <1>2, PcStep DEF SchedOK

\* thread_create: thread_unblock and the check after it.
LEMMA UnblockChildStep ==
  ASSUME IInv, UnblockChild
  PROVE  IInv' /\ TakesHighest
<1>1. /\ Quiet /\ cur = Main /\ cur # Idle /\ cur \in Thread
      /\ child \in Thread /\ child # cur
  BY CurFacts, ThreadAssumption
     DEF UnblockChild, At, Quiet, IInv, PcInv, CreatePC, TypeOK
<1>2. status[child] = "BLOCKED" /\ child # Idle
  BY <1>1 DEF IInv, PcInv
<1>3. SchedOK({child})
  BY <1>1, <1>2, SchedWakes DEF UnblockChild
<1>4. /\ pc' \in [Thread -> PC]
      /\ \A u \in Thread : pc'[u] = IF u = cur THEN "cp_queue"
                                    ELSE IF u = child THEN "run" ELSE pc[u]
  BY <1>1 DEF UnblockChild, IInv, TypeOK, PC
<1>5. child' = NoThread
  BY DEF UnblockChild
<1>6. PcInv'
  BY <1>1, <1>2, <1>3, <1>4, <1>5, WakeStep DEF PC, CreatePC
<1>7. level' \in [Thread -> Priority]
  BY <1>1, NumberAssumption DEF UnblockChild, IInv, TypeOK, Priority, PRI_MIN
<1>8. FieldsOK'
  BY <1>4, <1>5, <1>7, Fields DEF FieldsOK, UnblockChild, cpuVars
<1>9. UNCHANGED timerVars
  BY DEF UnblockChild
<1> QED BY <1>1, <1>3, <1>6, <1>8, <1>9, ThreadStep

\* sema_up wakes a thread.
LEMMA SemaUpStep ==
  ASSUME IInv, NEW t \in Thread, SemaUp(t)
  PROVE  IInv' /\ TakesHighest
<1>1. Quiet /\ cur # Idle /\ cur \in Thread /\ t # cur
  BY CurFacts DEF SemaUp, At, Quiet
<1>2. status[t] = "BLOCKED" /\ t # Idle /\ pc[t] = "blocked"
  BY DEF IInv, PcInv, SemaUp
<1>3. SchedOK({t})
  BY <1>1, <1>2, SchedWakes DEF SemaUp
<1>4. /\ pc' \in [Thread -> PC]
      /\ \A u \in Thread : pc'[u] = IF u = cur THEN "cp_queue"
                                    ELSE IF u = t THEN "run" ELSE pc[u]
  BY <1>1 DEF SemaUp, IInv, TypeOK, PC
<1>5. child' = child
  BY DEF SemaUp
<1>6. PcInv'
  BY <1>1, <1>2, <1>3, <1>4, <1>5, WakeStep DEF PC, CreatePC
<1>7. level' \in [Thread -> Priority]
  BY <1>1, NumberAssumption DEF SemaUp, IInv, TypeOK, Priority, PRI_MIN
<1>8. FieldsOK'
  BY <1>4, <1>5, <1>7, Fields DEF FieldsOK, SemaUp, cpuVars
<1>9. UNCHANGED timerVars
  BY DEF SemaUp
<1> QED BY <1>1, <1>3, <1>6, <1>8, <1>9, ThreadStep

\* Steps of mlfqs_update_priority and mlfqs_check_preemption with interrupts
\* on touch nothing but the running thread's fields and locals.
LEMMA LocalStep ==
  ASSUME IInv, NEW p \in PC \ ({"blocked", "nascent", "idle", "hlt"} \union CreatePC),
         intr = "none", cur # Idle, Goto(p) \/ (pc[cur] = p /\ UNCHANGED pc),
         UNCHANGED <<schedVars, base_priority, recent_cpu, load_avg, child>>,
         UNCHANGED <<timerVars, all_list>>,
         priority' \in [Thread -> Priority],
         \A u \in Thread \ {cur} : priority'[u] = priority[u],
         nice' \in [Thread -> NICE_MIN..NICE_MAX],
         new_priority' \in [Thread -> Priority],
         level' \in [Thread -> Priority]
  PROVE  IInv' /\ TakesHighest
<1>1. Quiet
  BY DEF Quiet
<1>2. SchedOK({})
  BY <1>1, SchedStays
<1>3. pc \in [Thread -> PC]
  BY DEF IInv, TypeOK
<1>4. Goto(p)
  <2>1. CASE pc[cur] = p /\ UNCHANGED pc
    BY <1>3, <2>1 DEF Goto
  <2> QED BY <2>1
<1>5. PcInv' /\ pc' \in [Thread -> PC]
  BY <1>1, <1>2, <1>4, GoesOn
<1>6. FieldsOK'
  BY <1>5, Fields DEF FieldsOK
<1> QED BY <1>1, <1>2, <1>5, <1>6, ThreadStep

\* thread_set_nice stores the value.
LEMMA ThreadSetNiceStep ==
  ASSUME IInv, NEW n \in NewNice, ThreadSetNice(n)
  PROVE  IInv' /\ TakesHighest
<1>1. Quiet /\ intr = "none" /\ pc[cur] = "run"
  BY DEF ThreadSetNice, At, Quiet
<1>2. cur # Idle /\ cur \in Thread
  BY <1>1, CurFacts
<1>3. nice' \in [Thread -> NICE_MIN..NICE_MAX]
  BY <1>2, NumberAssumption DEF ThreadSetNice, IInv, TypeOK
<1> QED BY <1>1, <1>2, <1>3, LocalStep
        DEF ThreadSetNice, PC, CreatePC, IInv, TypeOK, priVars, localVars

\* thread_set_nice computes the priority.
LEMMA ComputePriorityStep ==
  ASSUME IInv, ComputePriority
  PROVE  IInv' /\ TakesHighest
<1>1. Quiet /\ intr = "none" /\ pc[cur] = "update_priority"
  BY DEF ComputePriority, At, Quiet
<1>2. cur # Idle /\ cur \in Thread
  BY <1>1, CurFacts
<1>3. recent_cpu[cur] \in Int /\ nice[cur] \in Int
  BY <1>2, NumberAssumption DEF IInv, TypeOK
<1>4. mlfqs_priority(recent_cpu[cur], nice[cur]) \in Priority
  BY <1>3, PriorityInRange
<1>5. new_priority' \in [Thread -> Priority]
  BY <1>4 DEF ComputePriority, IInv, TypeOK
<1> QED BY <1>1, <1>2, <1>5, LocalStep
        DEF ComputePriority, PC, CreatePC, IInv, TypeOK, priVars, cpuVars

\* thread_set_nice stores the priority.
LEMMA StorePriorityStep ==
  ASSUME IInv, StorePriority
  PROVE  IInv' /\ TakesHighest
<1>1. Quiet /\ intr = "none" /\ pc[cur] = "store_priority"
  BY DEF StorePriority, At, Quiet
<1>2. cur # Idle /\ cur \in Thread
  BY <1>1, CurFacts
<1>3. level' \in [Thread -> Priority]
  BY NumberAssumption DEF StorePriority, CallCheck, IInv, TypeOK, Priority, PRI_MIN
<1>4. /\ priority' \in [Thread -> Priority]
      /\ \A u \in Thread \ {cur} : priority'[u] = priority[u]
  BY <1>2 DEF StorePriority, IInv, TypeOK
<1> QED BY <1>1, <1>2, <1>3, <1>4, LocalStep
        DEF StorePriority, CallCheck, PC, CreatePC, IInv, TypeOK, cpuVars

\* mlfqs_check_preemption looks at one queue after the other, ...
LEMMA CheckQueueStep ==
  ASSUME IInv, CheckQueue
  PROVE  IInv' /\ TakesHighest
<1>1. Quiet /\ intr = "none" /\ pc[cur] = "cp_queue"
  BY DEF CheckQueue, At, Quiet
<1>2. cur # Idle /\ cur \in Thread
  BY <1>1, CurFacts
<1>3. level' \in [Thread -> Priority]
  <2>1. level \in [Thread -> Priority] /\ level[cur] \in Priority
    BY <1>2 DEF IInv, TypeOK
  <2>2. level[cur] > PRI_MIN => level[cur] - 1 \in Priority
    BY <2>1, NumberAssumption DEF Priority, PRI_MIN
  <2>3. CASE UNCHANGED level
    BY <2>1, <2>3
  <2>4. CASE level[cur] > PRI_MIN /\ level' = [level EXCEPT ![cur] = @ - 1]
    BY <1>2, <2>1, <2>2, <2>4
  <2> QED BY <2>3, <2>4 DEF CheckQueue
<1>4. PICK p \in {"cp_compare", "cp_queue", "run"} :
          Goto(p) \/ (pc[cur] = p /\ UNCHANGED pc)
  BY <1>1 DEF CheckQueue
<1> QED BY <1>1, <1>2, <1>3, <1>4, LocalStep
        DEF CheckQueue, PC, CreatePC, IInv, TypeOK, priVars, cpuVars

\* ... compares, ...
LEMMA CheckCompareStep ==
  ASSUME IInv, CheckCompare
  PROVE  IInv' /\ TakesHighest
<1>1. Quiet /\ intr = "none" /\ pc[cur] = "cp_compare"
  BY DEF CheckCompare, At, Quiet
<1>2. cur # Idle /\ cur \in Thread
  BY <1>1, CurFacts
<1>3. PICK p \in {"cp_yield", "run"} : Goto(p)
  BY DEF CheckCompare
<1> QED BY <1>1, <1>2, <1>3, LocalStep
        DEF CheckCompare, PC, CreatePC, IInv, TypeOK, priVars, cpuVars, localVars

\* thread_set_priority, which works under MLFQS too.
LEMMA ThreadSetPriorityStep ==
  ASSUME IInv, NEW pri \in NewPriority, ThreadSetPriority(pri)
  PROVE  IInv' /\ TakesHighest
<1>1. Quiet /\ intr = "none" /\ pc[cur] = "run"
  BY DEF ThreadSetPriority, At, Quiet
<1>2. cur # Idle /\ cur \in Thread
  BY <1>1, CurFacts
<1>3. /\ priority' \in [Thread -> Priority]
      /\ \A u \in Thread \ {cur} : priority'[u] = priority[u]
  BY <1>2, NumberAssumption DEF ThreadSetPriority, IInv, TypeOK, Priority
<1> QED BY <1>1, <1>2, <1>3, LocalStep
        DEF ThreadSetPriority, PC, CreatePC, IInv, TypeOK, cpuVars, localVars

\* ... and yields.
LEMMA CheckYieldStep ==
  ASSUME IInv, CheckYield
  PROVE  IInv' /\ TakesHighest
<1>1. Quiet /\ pc[cur] = "cp_yield"
  BY DEF CheckYield, At, Quiet
<1>2. /\ UNCHANGED timerVars /\ UNCHANGED priority /\ UNCHANGED child
      /\ UNCHANGED <<base_priority, cpuVars, new_priority, level, all_list>>
      /\ Goto("run")
  BY DEF CheckYield, priVars, localVars
<1>3. SchedOK({})
  BY <1>1, <1>2, SchedYield DEF CheckYield
<1>4. PcInv' /\ pc' \in [Thread -> PC]
  BY <1>1, <1>2, <1>3, CurFacts, GoesOn DEF PC, CreatePC
<1>5. FieldsOK'
  BY <1>2, <1>4, Fields DEF FieldsOK, cpuVars
<1> QED BY <1>1, <1>2, <1>3, <1>4, <1>5, ThreadStep

\* A thread blocks.
LEMMA ThreadBlockStep ==
  ASSUME IInv, ThreadBlock
  PROVE  IInv' /\ TakesHighest
<1>1. Quiet /\ pc[cur] = "run" /\ cur # Idle /\ cur \in Thread /\ cur # child
  BY CurFacts DEF ThreadBlock, At, Quiet
<1>2. /\ UNCHANGED timerVars /\ UNCHANGED priority /\ UNCHANGED child
      /\ UNCHANGED <<base_priority, cpuVars, new_priority, level, all_list>>
  BY DEF ThreadBlock, priVars, localVars
<1>3. SchedOK({}) /\ status'[cur] = "BLOCKED"
  BY <1>1, <1>2, SchedLeaves DEF ThreadBlock, thread_block
<1>4. /\ pc' \in [Thread -> PC]
      /\ \A u \in Thread : pc'[u] = IF u = cur THEN "blocked" ELSE pc[u]
  BY <1>1 DEF ThreadBlock, Goto, IInv, TypeOK, PC
<1>5. ASSUME NEW u \in Thread
      PROVE  PcMoves(u)
  <2>1. pc[u] \in {"blocked", "nascent"} => status[u] = "BLOCKED" /\ u # Idle
    BY DEF IInv, PcInv
  <2> QED BY <1>1, <1>2, <1>3, <1>4, <2>1 DEF PcMoves, SchedOK
<1>6. PcInv'
  BY <1>2, <1>3, <1>5, PcStep DEF SchedOK
<1>7. FieldsOK'
  BY <1>2, <1>4, Fields DEF FieldsOK, cpuVars
<1> QED BY <1>1, <1>2, <1>3, <1>6, <1>7, ThreadStep

\* A thread exits.
LEMMA ThreadExitStep ==
  ASSUME IInv, ThreadExit
  PROVE  IInv' /\ TakesHighest
<1>1. Quiet /\ pc[cur] = "run" /\ cur # Idle
  BY CurFacts DEF ThreadExit, At, Quiet
<1>2. /\ UNCHANGED timerVars /\ UNCHANGED priority /\ UNCHANGED child
      /\ UNCHANGED <<base_priority, cpuVars, new_priority, level>>
      /\ Goto("dead")
  BY DEF ThreadExit, priVars, localVars
<1>3. SchedOK({})
  BY <1>1, <1>2, SchedLeaves DEF ThreadExit
<1>4. PcInv' /\ pc' \in [Thread -> PC]
  BY <1>1, <1>2, <1>3, GoesOn DEF PC, CreatePC
<1>5. all_list' \in SUBSET Thread
  BY DEF ThreadExit, IInv, TypeOK
<1>6. FieldsOK'
  BY <1>2, <1>4, <1>5, Fields DEF FieldsOK, cpuVars
<1> QED BY <1>1, <1>2, <1>3, <1>4, <1>6, ThreadStep

\* The idle thread blocks.
LEMMA IdleBlockStep ==
  ASSUME IInv, IdleBlock
  PROVE  IInv' /\ TakesHighest
<1>1. Quiet /\ pc[cur] = "idle" /\ cur = Idle
  BY CurFacts DEF IdleBlock, At, Quiet
<1>2. /\ UNCHANGED timerVars /\ UNCHANGED priority /\ UNCHANGED child
      /\ UNCHANGED <<base_priority, cpuVars, new_priority, level, all_list>>
      /\ Goto("hlt")
  BY DEF IdleBlock, priVars, localVars
<1>3. SchedOK({})
  BY <1>1, <1>2, SchedLeaves DEF IdleBlock, thread_block
<1>4. PcInv' /\ pc' \in [Thread -> PC]
  BY <1>1, <1>2, <1>3, GoesOn DEF PC, CreatePC
<1>5. FieldsOK'
  BY <1>2, <1>4, Fields DEF FieldsOK, cpuVars
<1> QED BY <1>1, <1>2, <1>3, <1>4, <1>5, ThreadStep

-----------------------------------------------------------------------------
(* Interrupts.                                                             *)

\* An interrupt moves only the idle thread on, out of its hlt.
LEMMA AwokenFacts ==
  ASSUME IInv, Quiet
  PROVE  /\ Awoken \in [Thread -> PC]
         /\ \A u \in Thread \ {cur} : Awoken[u] = pc[u]
         /\ Awoken[cur] = pc[cur] \/ (Awoken[cur] = "idle" /\ cur = Idle)
<1>1. pc \in [Thread -> PC] /\ cur \in Thread
  BY DEF IInv, TypeOK
<1>2. CASE pc[cur] = "hlt"
  <2>1. Awoken = [pc EXCEPT ![cur] = "idle"] /\ cur = Idle
    BY <1>2, CurFacts DEF Awoken
  <2> QED BY <1>1, <2>1 DEF PC
<1>3. CASE pc[cur] # "hlt"
  BY <1>1, <1>3 DEF Awoken
<1> QED BY <1>2, <1>3

\* A device interrupt wakes a thread.
LEMMA DeviceInterruptStep ==
  ASSUME IInv, NEW t \in Thread, DeviceInterrupt(t)
  PROVE  IInv' /\ TakesHighest
<1>1. Quiet /\ t # cur /\ cur \in Thread
  BY CurFacts DEF DeviceInterrupt, IntrOn, Quiet
<1>2. status[t] = "BLOCKED" /\ t # Idle /\ pc[t] = "blocked"
  BY DEF IInv, PcInv, DeviceInterrupt
<1>3. SchedOK({t})
  BY <1>1, <1>2, SchedWakes DEF DeviceInterrupt
<1>4. /\ Awoken[cur] \in PC \ {"blocked", "nascent"}
      /\ Awoken[cur] \in CreatePC => Awoken[cur] = pc[cur]
      /\ cur = Idle <=> Awoken[cur] \in {"idle", "hlt"}
  BY <1>1, CurFacts, AwokenFacts DEF CreatePC
<1>5. /\ pc' \in [Thread -> PC]
      /\ \A u \in Thread : pc'[u] = IF u = cur THEN Awoken[cur]
                                    ELSE IF u = t THEN "run" ELSE pc[u]
  <2>1. pc' = [Awoken EXCEPT ![t] = "run"]
    BY DEF DeviceInterrupt
  <2> QED BY <1>1, <2>1, AwokenFacts DEF PC
<1>6. child' = child /\ UNCHANGED timerVars
  BY DEF DeviceInterrupt, localVars
<1>7. PcInv'
  BY <1>1, <1>2, <1>3, <1>4, <1>5, <1>6, WakeStep
<1>8. FieldsOK'
  BY <1>5, Fields DEF FieldsOK, DeviceInterrupt, cpuVars, localVars
<1> QED BY <1>1, <1>3, <1>6, <1>7, <1>8, ThreadStep

\* timer_wakeup wakes a thread.
LEMMA TimerWakeupStep ==
  ASSUME IInv, NEW t \in Thread, TimerWakeup(t)
  PROVE  IInv' /\ TakesHighest
<1>1. Quiet /\ t # cur /\ cur \in Thread
  BY CurFacts DEF TimerWakeup, Quiet
<1>2. status[t] = "BLOCKED" /\ t # Idle /\ pc[t] = "blocked"
  BY DEF IInv, PcInv, TimerWakeup
<1>3. SchedOK({t})
  BY <1>1, <1>2, SchedWakes DEF TimerWakeup
<1>4. /\ pc[cur] \in PC \ {"blocked", "nascent"}
      /\ cur = Idle <=> pc[cur] \in {"idle", "hlt"}
  BY <1>1, CurFacts, Fields DEF FieldsOK
<1>5. /\ pc' \in [Thread -> PC]
      /\ \A u \in Thread : pc'[u] = IF u = cur THEN pc[cur]
                                    ELSE IF u = t THEN "run" ELSE pc[u]
  BY <1>1, Fields DEF FieldsOK, TimerWakeup, PC
<1>6. child' = child /\ UNCHANGED timerVars
  BY DEF TimerWakeup, localVars
<1>7. PcInv'
  BY <1>1, <1>2, <1>3, <1>4, <1>5, <1>6, WakeStep
<1>8. FieldsOK'
  BY <1>5, Fields DEF FieldsOK, TimerWakeup, cpuVars, localVars
<1> QED BY <1>1, <1>3, <1>6, <1>7, <1>8, ThreadStep

\* The timer interrupt counts the tick.
LEMMA TimerInterruptStep ==
  ASSUME IInv, TimerInterrupt
  PROVE  IInv' /\ TakesHighest
<1>1. Quiet /\ intr = "none" /\ intr' = "wakeup" /\ cur \in Thread
  BY CurFacts DEF TimerInterrupt, IntrOn, Quiet
<1>2. thread_ticks \in 0..TIME_SLICE /\ thread_ticks < TIME_SLICE
  BY <1>1 DEF IInv, TypeOK, SliceInv
<1>3. thread_ticks' \in 0..TIME_SLICE /\ SliceInv'
  <2>1. /\ thread_ticks' = thread_ticks + 1
        /\ yield_on_return' = (thread_ticks + 1 >= TIME_SLICE)
    BY DEF TimerInterrupt
  <2>2. thread_ticks + 1 \in 0..TIME_SLICE
    BY <1>2, NumberAssumption
  <2>3. thread_ticks + 1 >= TIME_SLICE \/ thread_ticks + 1 < TIME_SLICE
    BY <1>2, NumberAssumption
  <2> QED BY <1>1, <2>1, <2>2, <2>3 DEF SliceInv
<1>4. recent_cpu' \in [Thread -> Int]
  <2>1. recent_cpu \in [Thread -> Int] /\ recent_cpu[cur] \in Int
    BY <1>1 DEF IInv, TypeOK
  <2>2. fp_add_int(recent_cpu[cur], 1) \in Int
    BY <2>1, FAssumption DEF fp_add_int
  <2>3. \/ recent_cpu' = recent_cpu
        \/ recent_cpu' = [recent_cpu EXCEPT ![cur] = fp_add_int(recent_cpu[cur], 1)]
    BY DEF TimerInterrupt
  <2> QED BY <2>1, <2>2, <2>3
<1>5. pc' \in [Thread -> PC]
  BY <1>1, AwokenFacts DEF TimerInterrupt
<1>6. ticks' \in 0..MaxTicks /\ yield_on_return' \in BOOLEAN /\ intr' \in Stage
  <2>1. ticks' \in 0..MaxTicks
    BY NumberAssumption DEF TimerInterrupt, IInv, TypeOK
  <2> QED BY <1>1, <2>1 DEF TimerInterrupt, Stage
<1>7. TypeOK'
  BY <1>3, <1>4, <1>5, <1>6
     DEF TimerInterrupt, IInv, TypeOK, priVars, localVars
<1>8. QueueInv'
  BY <1>1 DEF TimerInterrupt, IInv, QueueInv, Consistent, priVars
<1>9. RunInv'
  BY DEF TimerInterrupt, IInv, RunInv
<1>10. PcInv'
  <2>1. child' = child /\ status' = status
    BY DEF TimerInterrupt, localVars
  <2>2. ASSUME NEW u \in Thread
        PROVE  PcMoves(u)
    <3>1. pc[u] \in {"blocked", "nascent"} => status[u] = "BLOCKED"
      BY DEF IInv, PcInv
    <3>2. pc'[u] = pc[u] \/ (pc'[u] = "idle" /\ u = cur /\ u = Idle)
      BY <1>1, AwokenFacts DEF TimerInterrupt
    <3> QED BY <1>1, <2>1, <3>1, <3>2, CurFacts DEF PcMoves, CreatePC
  <2> QED BY <1>1, <2>1, <2>2, CurFacts, PcStep
<1>11. TakesHighest
  BY DEF TimerInterrupt, TakesHighest
<1> QED BY <1>3, <1>7, <1>8, <1>9, <1>10, <1>11 DEF IInv

\* The threads that mlfqs_reorganize_queues moves do not change, nor does
\* anything but the queues and temp_list.
LEMMA ReorganizeStep ==
  ASSUME IInv, mlfqs_list' \in [Priority -> Seq(Thread)], temp_list' \in Seq(Thread),
         intr' \in {"collect", "insert"}, priority' \in [Thread -> Priority],
         QueueInv', ticks' = ticks, yield_on_return' = yield_on_return,
         UNCHANGED <<cur, status, thread_ticks, base_priority, cpuVars, localVars>>,
         UNCHANGED <<pc, all_list>>, intr # "none"
  PROVE  IInv' /\ TakesHighest
<1>1. TypeOK'
  BY DEF IInv, TypeOK, Stage, cpuVars, localVars
<1>2. RunInv' /\ PcInv'
  BY DEF IInv, RunInv, PcInv, localVars
<1>3. SliceInv'
  BY DEF IInv, SliceInv
<1> QED BY <1>1, <1>2, <1>3 DEF IInv, TakesHighest

\* The timer interrupt recomputes the priorities.
LEMMA UpdatePrioritiesStep ==
  ASSUME IInv, UpdatePriorities
  PROVE  IInv' /\ TakesHighest
<1>1. priority' \in [Thread -> Priority]
  BY UpdatedType DEF IInv, UpdatePriorities
<1>2. /\ temp_list = <<>> /\ Consistent(mlfqs_list, status, priority)
      /\ temp_list' = temp_list /\ mlfqs_list' = mlfqs_list /\ status' = status
      /\ intr = "wakeup" /\ intr' = "collect"
  BY DEF UpdatePriorities, IInv, QueueInv, schedVars
<1>3. \A t : t \notin Range(temp_list)
  BY <1>2, EmptyRange
<1>4. IsInjective(temp_list)
  BY <1>2 DEF IsInjective
<1>5. \A t \in Thread : priority[t] \in Priority
  BY DEF IInv, TypeOK
<1>6. Collecting
  BY <1>2, <1>3, <1>4, <1>5 DEF Consistent, Collecting
<1>7. Collecting'
  BY <1>2, <1>6 DEF Collecting
<1>8. QueueInv'
  BY <1>2, <1>7 DEF QueueInv
<1> QED BY <1>1, <1>2, <1>8, ReorganizeStep
        DEF UpdatePriorities, IInv, TypeOK, schedVars

\* The queues are emptied into temp_list, thread by thread.
LEMMA CollectStep ==
  ASSUME IInv, Collect
  PROVE  IInv' /\ TakesHighest
<1>1. PICK p \in Priority :
          /\ mlfqs_list[p] # <<>>
          /\ temp_list' = Append(temp_list, Head(mlfqs_list[p]))
          /\ mlfqs_list' = [mlfqs_list EXCEPT ![p] = Tail(@)]
  BY DEF Collect
<1>2. /\ intr = "collect" /\ intr' = "collect" /\ Collecting
      /\ mlfqs_list \in [Priority -> Seq(Thread)] /\ temp_list \in Seq(Thread)
      /\ status' = status
  BY DEF Collect, IInv, QueueInv, TypeOK
<1> DEFINE h == Head(mlfqs_list[p])
<1>3. /\ h \in Thread /\ h \in Range(mlfqs_list[p])
      /\ Tail(mlfqs_list[p]) \in Seq(Thread) /\ IsInjective(Tail(mlfqs_list[p]))
      /\ \A u : u \in Range(Tail(mlfqs_list[p])) <=>
                    u \in Range(mlfqs_list[p]) /\ u # h
  BY <1>1, <1>2, PopSeq DEF Collecting
<1>4. /\ mlfqs_list' \in [Priority -> Seq(Thread)]
      /\ \A q \in Priority :
             mlfqs_list'[q] = IF q = p THEN Tail(mlfqs_list[p]) ELSE mlfqs_list[q]
  BY <1>1, <1>2, <1>3
<1> HIDE DEF h
<1>5. h \notin Range(temp_list) /\ \A q \in Priority : h \in Range(mlfqs_list[q]) => q = p
  BY <1>2, <1>3 DEF Collecting
<1>6. /\ temp_list' \in Seq(Thread) /\ IsInjective(temp_list')
      /\ \A u : u \in Range(temp_list') <=> u \in Range(temp_list) \/ u = h
  BY <1>1, <1>2, <1>3, <1>5, PushSeq DEF Collecting, h
<1>7. \A q \in Priority, u \in Thread :
          u \in Range(mlfqs_list'[q]) <=> u \in Range(mlfqs_list[q]) /\ u # h
  BY <1>3, <1>4, <1>5
<1>8. Collecting'
  <2>1. \A q \in Priority : IsInjective(mlfqs_list'[q])
    BY <1>2, <1>3, <1>4 DEF Collecting
  <2>2. ASSUME NEW u \in Thread
        PROVE  status'[u] = "READY" /\ u # Idle <=>
                   \/ u \in Range(temp_list')
                   \/ \E q \in Priority : u \in Range(mlfqs_list'[q])
    <3>1. status[u] = "READY" /\ u # Idle <=>
              u \in Range(temp_list) \/ \E q \in Priority : u \in Range(mlfqs_list[q])
      BY <1>2 DEF Collecting
    <3> QED BY <1>2, <1>3, <1>6, <1>7, <3>1
  <2>3. ASSUME NEW u \in Thread, NEW q \in Priority, u \in Range(mlfqs_list'[q])
        PROVE  /\ u \notin Range(temp_list')
               /\ \A r \in Priority : u \in Range(mlfqs_list'[r]) => r = q
    <3>1. u \in Range(mlfqs_list[q]) /\ u # h
      BY <1>7, <2>3
    <3>2. /\ u \notin Range(temp_list)
          /\ \A r \in Priority : u \in Range(mlfqs_list[r]) => r = q
      BY <1>2, <3>1 DEF Collecting
    <3> QED BY <1>6, <1>7, <3>1, <3>2
  <2> QED BY <1>6, <2>1, <2>2, <2>3 DEF Collecting
<1>9. QueueInv'
  BY <1>2, <1>8 DEF QueueInv
<1> QED BY <1>2, <1>4, <1>6, <1>9, ReorganizeStep DEF Collect, priVars, IInv, TypeOK

\* Once all queues are empty, the two loops' invariants agree.
LEMMA ReinsertingFilling ==
  ASSUME IInv, Reinserting
  PROVE  Filling /\ intr # "none"
<1>1. CASE intr = "insert"
  BY <1>1 DEF IInv, QueueInv
<1>2. CASE intr = "collect" /\ \A p \in Priority : mlfqs_list[p] = <<>>
  <2>1. Collecting
    BY <1>2 DEF IInv, QueueInv
  <2>2. \A p \in Priority, t \in Thread : t \notin Range(mlfqs_list[p])
    BY <1>2, EmptyRange
  <2> QED BY <1>2, <2>1, <2>2 DEF Collecting, Filling
<1> QED BY <1>1, <1>2 DEF Reinserting

\* temp_list is put back, each thread on the queue of its priority.
LEMMA InsertStep ==
  ASSUME IInv, Insert
  PROVE  IInv' /\ TakesHighest
<1>1. /\ Filling /\ intr # "none" /\ intr' = "insert"
      /\ mlfqs_list \in [Priority -> Seq(Thread)] /\ temp_list \in Seq(Thread)
      /\ priority \in [Thread -> Priority] /\ temp_list # <<>>
      /\ status' = status /\ priority' = priority
  BY ReinsertingFilling DEF Insert, IInv, TypeOK, priVars
<1> DEFINE h == Head(temp_list)
           q == mlfqs_list[priority[h]]
<1>2. /\ h \in Thread /\ h \in Range(temp_list)
      /\ Tail(temp_list) \in Seq(Thread) /\ IsInjective(Tail(temp_list))
      /\ \A u : u \in Range(Tail(temp_list)) <=> u \in Range(temp_list) /\ u # h
  BY <1>1, PopSeq DEF Filling
<1>3. temp_list' = Tail(temp_list)
  BY DEF Insert
<1>4. /\ priority[h] \in Priority /\ q \in Seq(Thread) /\ IsInjective(q)
      /\ h \notin Range(q) /\ status[h] = "READY" /\ h # Idle
  BY <1>1, <1>2 DEF Filling
<1>5. /\ Append(q, h) \in Seq(Thread) /\ IsInjective(Append(q, h))
      /\ \A u : u \in Range(Append(q, h)) <=> u \in Range(q) \/ u = h
  BY <1>2, <1>4, PushSeq
<1>6. /\ mlfqs_list' \in [Priority -> Seq(Thread)]
      /\ \A p \in Priority :
             mlfqs_list'[p] = IF p = priority[h] THEN Append(q, h) ELSE mlfqs_list[p]
  BY <1>1, <1>4, <1>5 DEF Insert, mlfqs_insert
<1> HIDE DEF h
<1>7. \A p \in Priority : IsInjective(mlfqs_list'[p])
  BY <1>1, <1>5, <1>6 DEF Filling
<1>8. ASSUME NEW p \in Priority, NEW u \in Thread
      PROVE  u \in Range(mlfqs_list'[p]) <=> /\ status'[u] = "READY"
                                             /\ u # Idle
                                             /\ priority'[u] = p
                                             /\ u \notin Range(temp_list')
  <2>1. u \in Range(mlfqs_list'[p]) <=>
            u \in Range(mlfqs_list[p]) \/ (u = h /\ p = priority[h])
    BY <1>5, <1>6
  <2>2. u \in Range(mlfqs_list[p]) <=> /\ status[u] = "READY"
                                       /\ u # Idle
                                       /\ priority[u] = p
                                       /\ u \notin Range(temp_list)
    BY <1>1 DEF Filling
  <2>3. u \in Range(temp_list') <=> u \in Range(temp_list) /\ u # h
    BY <1>2, <1>3
  <2> QED BY <1>1, <1>2, <1>4, <2>1, <2>2, <2>3
<1>9. \A u \in Thread : u \in Range(temp_list') => status'[u] = "READY" /\ u # Idle
  BY <1>1, <1>2, <1>3 DEF Filling
<1>10. Filling'
  BY <1>2, <1>3, <1>7, <1>8, <1>9 DEF Filling
<1>11. QueueInv'
  BY <1>1, <1>10 DEF QueueInv
<1> QED BY <1>1, <1>2, <1>3, <1>6, <1>11, ReorganizeStep DEF Insert, priVars

\* When mlfqs_reorganize_queues is done, or was not called, the queues are
\* in order.
LEMMA ReturnConsistent ==
  ASSUME IInv, TimerReturn
  PROVE  temp_list = <<>> /\ Consistent(mlfqs_list, status, priority)
<1>1. CASE intr = "wakeup"
  BY <1>1 DEF IInv, QueueInv
<1>2. CASE Reinserting /\ temp_list = <<>>
  <2>1. Filling /\ \A t : t \notin Range(temp_list)
    BY <1>2, ReinsertingFilling, EmptyRange
  <2> QED BY <1>2, <2>1 DEF Filling, Consistent, IInv, TypeOK
<1> QED BY <1>1, <1>2 DEF TimerReturn

\* The timer interrupt returns, and may yield.
LEMMA TimerReturnStep ==
  ASSUME IInv, TimerReturn
  PROVE  IInv' /\ TakesHighest
<1>1. temp_list = <<>> /\ Consistent(mlfqs_list, status, priority)
  BY ReturnConsistent
<1>2. /\ intr' = "none" /\ yield_on_return' = FALSE /\ ticks' = ticks
      /\ temp_list' = temp_list /\ priority' = priority
      /\ UNCHANGED <<base_priority, nice, localVars, pc, all_list>>
  BY DEF TimerReturn, priVars
<1>3. recent_cpu' \in [Thread -> Int] /\ load_avg' \in Nat
  <2>1. CASE mlfqs_update_rcpu_la
    <3>1. TypeOK
      BY DEF IInv
    <3>2. \A t \in Thread : decayed_cpu(t) \in Int /\ recent_cpu[t] \in Int
      BY <3>1, CpuType DEF TypeOK
    <3> QED BY <2>1, <3>1, <3>2, LoadType DEF mlfqs_update_rcpu_la
  <2>2. CASE UNCHANGED <<recent_cpu, load_avg>>
    BY <2>2 DEF IInv, TypeOK
  <2> QED BY <2>1, <2>2 DEF TimerReturn
<1>4. /\ status \in [Thread -> Status] /\ cur \in Thread
      /\ \A u \in Thread : status[u] = "RUNNING" <=> u = cur
      /\ status[Idle] \in {"RUNNING", "READY", "BLOCKED"}
  BY DEF IInv, TypeOK, RunInv, PcInv
<1>5. SchedOK({}) /\ thread_ticks' < TIME_SLICE
  <2>1. CASE thread_yield(mlfqs_list, status, priority)
    <3>1. Switched([status EXCEPT ![cur] = "READY"], priority)
      BY <1>1, <1>4, <2>1, YieldEffect
    <3>2. SchedOK({})
      BY <1>2, <1>4, <3>1, SchedSwitch
    <3> QED BY <3>1, <3>2, NumberAssumption DEF Switched
  <2>2. CASE ~yields /\ UNCHANGED schedVars
    <3>1. ~yield_on_return
      BY <2>2 DEF yields
    <3>2. thread_ticks < TIME_SLICE
      BY <3>1 DEF IInv, SliceInv
    <3>3. Consistent(mlfqs_list', status', priority')
      BY <1>1, <1>2, <2>2 DEF Consistent, schedVars
    <3> QED BY <1>4, <2>2, <3>2, <3>3 DEF SchedOK, RunInv, TakesHighest, schedVars
  <2> QED BY <2>1, <2>2 DEF TimerReturn
<1>6. thread_ticks' \in 0..TIME_SLICE
  <2>1. thread_ticks \in 0..TIME_SLICE
    BY DEF IInv, TypeOK
  <2>2. thread_ticks' = 0 \/ thread_ticks' = thread_ticks
    BY <1>5 DEF SchedOK
  <2> QED BY <2>1, <2>2, NumberAssumption
<1>7. TypeOK'
  <2>1. /\ cur' \in Thread
        /\ status' \in [Thread -> Status]
        /\ priority' \in [Thread -> Priority]
        /\ mlfqs_list' \in [Priority -> Seq(Thread)]
    BY <1>5 DEF SchedOK, Consistent
  <2>2. /\ temp_list' \in Seq(Thread) /\ ticks' \in 0..MaxTicks
        /\ intr' \in Stage /\ yield_on_return' \in BOOLEAN
    BY <1>2 DEF IInv, TypeOK, Stage
  <2>3. FieldsOK'
    BY <1>2, <1>3, Fields DEF FieldsOK, localVars
  <2> QED BY <1>6, <2>1, <2>2, <2>3 DEF TypeOK, FieldsOK
<1>8. QueueInv'
  BY <1>1, <1>2, <1>5 DEF QueueInv, SchedOK
<1>9. PcInv'
  <2>1. ASSUME NEW u \in Thread
        PROVE  PcMoves(u)
    <3>1. /\ pc[u] \in {"blocked", "nascent"} =>
                 status[u] = "BLOCKED" /\ u # Idle /\ u # cur
          /\ pc'[u] = pc[u] /\ child' = child
      BY <1>2, <1>4 DEF IInv, PcInv, localVars
    <3> QED BY <1>5, <3>1 DEF PcMoves, SchedOK
  <2> QED BY <1>2, <1>5, <2>1, PcStep DEF SchedOK, localVars
<1>10. SliceInv'
  BY <1>5 DEF SliceInv
<1> QED BY <1>5, <1>7, <1>8, <1>9, <1>10 DEF IInv, SchedOK

-----------------------------------------------------------------------------

\* The invariant holds at the start.
LEMMA Initially ==
  ASSUME Init
  PROVE  IInv
<1> USE ThreadAssumption
<1>1. /\ status \in [Thread -> Status] /\ pc \in [Thread -> PC]
      /\ \A t \in Thread : status[t] = IF t = Main THEN "RUNNING"
                                       ELSE IF t = Idle THEN "BLOCKED" ELSE "FREE"
      /\ \A t \in Thread : pc[t] = IF t = Main THEN "run"
                                   ELSE IF t = Idle THEN "hlt" ELSE "dead"
  BY DEF Init, Status, PC
<1>2. base_priority \in [Thread -> Priority] /\ priority \in [Thread -> Priority]
  <2>1. mlfqs_priority(RECENT_CPU_DEFAULT, NICE_DEFAULT) \in Priority
    BY PriorityInRange DEF RECENT_CPU_DEFAULT, NICE_DEFAULT
  <2>2. base_priority \in [Thread -> Priority]
    BY NumberAssumption DEF Init, Priority, PRI_MIN
  <2> QED BY <2>1, <2>2 DEF Init
<1>3. /\ mlfqs_list \in [Priority -> Seq(Thread)] /\ temp_list \in Seq(Thread)
      /\ \A p \in Priority : mlfqs_list[p] = <<>>
  BY DEF Init
<1>4. /\ nice \in [Thread -> NICE_MIN..NICE_MAX] /\ recent_cpu \in [Thread -> Int]
      /\ new_priority \in [Thread -> Priority] /\ level \in [Thread -> Priority]
      /\ ticks \in 0..MaxTicks /\ thread_ticks \in 0..TIME_SLICE
  BY NumberAssumption
     DEF Init, Priority, PRI_MIN, NICE_DEFAULT, RECENT_CPU_DEFAULT
<1>5. TypeOK
  BY <1>1, <1>2, <1>3, <1>4 DEF Init, TypeOK, Stage
<1>6. QueueInv
  <2>1. \A p \in Priority : \A t : t \notin Range(mlfqs_list[p])
    BY <1>3, EmptyRange
  <2>2. \A p \in Priority : IsInjective(mlfqs_list[p])
    BY <1>3 DEF IsInjective
  <2>3. Consistent(mlfqs_list, status, priority)
    BY <1>1, <1>2, <1>3, <2>1, <2>2 DEF Consistent
  <2>4. intr = "none" /\ temp_list = <<>>
    BY DEF Init
  <2> QED BY <2>3, <2>4 DEF QueueInv
<1>7. RunInv
  BY <1>1 DEF Init, RunInv
<1>8. PcInv
  BY <1>1 DEF Init, PcInv, CreatePC
<1>9. SliceInv
  BY NumberAssumption DEF Init, SliceInv
<1> QED BY <1>5, <1>6, <1>7, <1>8, <1>9 DEF IInv

\* A step that changes nothing.
LEMMA Stutter ==
  ASSUME IInv, UNCHANGED vars
  PROVE  IInv' /\ TakesHighest
<1> USE DEF vars, schedVars, priVars, cpuVars, localVars, timerVars
<1>1. TypeOK'
  BY DEF IInv, TypeOK
<1>2. QueueInv'
  BY DEF IInv, QueueInv, Consistent, Collecting, Filling
<1>3. RunInv' /\ PcInv' /\ SliceInv'
  BY DEF IInv, RunInv, PcInv, SliceInv
<1> QED BY <1>1, <1>2, <1>3 DEF IInv, TakesHighest

\* Every action, one lemma each.
LEMMA Step ==
  ASSUME IInv, [Next]_vars
  PROVE  IInv' /\ TakesHighest
<1>1. CASE Call
  BY <1>1, ThreadCreateStep, LockReleaseStep, ThreadSetNiceStep,
     ThreadSetPriorityStep, ThreadBlockStep, SemaUpStep, ThreadExitStep DEF Call
<1>2. CASE Continue
  BY <1>2, EnterAllListStep, RefreshPriorityStep, UnblockChildStep,
     ComputePriorityStep, StorePriorityStep, CheckQueueStep, CheckCompareStep,
     CheckYieldStep, IdleBlockStep DEF Continue
<1>3. CASE Timer
  BY <1>3, TimerInterruptStep, TimerWakeupStep, UpdatePrioritiesStep, CollectStep,
     InsertStep, TimerReturnStep DEF Timer
<1>4. CASE \E t \in Thread : DeviceInterrupt(t)
  BY <1>4, DeviceInterruptStep
<1>5. CASE UNCHANGED vars
  BY <1>5, Stutter
<1> QED BY <1>1, <1>2, <1>3, <1>4, <1>5 DEF Next

\* In every state of the MLFQS scheduler the inductive invariant holds.
THEOREM Invariance == Spec => []IInv
<1>1. Init => IInv
  BY Initially
<1>2. IInv /\ [Next]_vars => IInv'
  BY Step
<1> QED BY <1>1, <1>2, PTL DEF Spec

\* Every priority that MLFQS computes, stores or inherits is the index of a
\* queue, load_avg never becomes negative, and no time slice is longer than
\* TIME_SLICE, for any number of threads and any nice values.
THEOREM TypeCorrect == Spec => []TypeOK
<1>1. IInv => TypeOK
  BY DEF IInv
<1> QED BY <1>1, Invariance, PTL

\* What thread_get_recent_cpu and thread_get_load_avg return is 100 times the
\* value to the nearest integer, for every fixed-point unit, up to the limit of
\* an int.
THEOREM ReadsAreNearest == Spec => []ReadsHundredfold
<1>1. IInv => ReadsHundredfold
  <2> SUFFICES ASSUME IInv, NEW x \in {recent_cpu[cur], load_avg},
                      100 * x + F \div 2 < INT_RANGE \div 2,
                      100 * x - F \div 2 >= -(INT_RANGE \div 2)
               PROVE  2 * (F * hundredfold(x) - 100 * x) \in -F..F
    BY DEF ReadsHundredfold
  <2>1. x \in Int
    BY DEF IInv, TypeOK
  <2>2. F \div 2 \in Nat /\ 100 * x \in Int /\ x * 100 = 100 * x /\ INT_RANGE \div 2 \in Nat
    BY <2>1, FAssumption
  <2>3. int(100 * x) = 100 * x
    BY <2>2, IntFits
  <2>4. hundredfold(x) = fp_to_int_nearest(100 * x)
    BY <2>2, <2>3 DEF hundredfold, fp_mul_int
  <2> QED BY <2>2, <2>4, NearestInt
<1> QED BY <1>1, Invariance, PTL

\* mlfqs_update_priority_all, thread_unblock, thread_set_nice and the rest
\* leave every ready thread in the queue of its priority.
THEOREM ReadyInItsQueue == Spec => []QueueOfPriority
<1>1. IInv => QueueOfPriority
  BY DEF IInv, QueueInv, Consistent, QueueOfPriority
<1> QED BY <1>1, Invariance, PTL

\* mlfqs_next_thread_to_run always finds a ready thread of the highest
\* present priority.
THEOREM HighestTaken == Spec => SwitchToHighest
<1>1. IInv /\ [Next]_vars => [TakesHighest]_vars
  BY Step
<1>2. Spec => [][TakesHighest]_vars
  BY <1>1, Invariance, PTL DEF Spec
<1> QED BY <1>2 DEF SwitchToHighest, TakesHighest

-----------------------------------------------------------------------------
(* The fourth tick.                                                        *)

\* The action of NoInversionAfterUpdate.
Settled ==
  intr # "none" /\ intr' = "none" /\ ticks % 4 = 0 =>
      \A p \in Priority : mlfqs_list'[p] # <<>> => p <= priority'[cur']

\* Whether or not the thread yields on return from the timer interrupt.
LEMMA TimerReturnSettles ==
  ASSUME IInv, TimerReturn
  PROVE  Settled
<1> SUFFICES ASSUME ticks % 4 = 0, NEW p \in Priority, mlfqs_list'[p] # <<>>
             PROVE  p <= priority'[cur']
  BY DEF Settled
<1>1. priority' = priority /\ Consistent(mlfqs_list, status, priority)
  BY ReturnConsistent DEF TimerReturn, priVars
<1>2. CASE thread_yield(mlfqs_list, status, priority)
  <2>1. cur \in Thread /\ \A u \in Thread : status[u] = "RUNNING" <=> u = cur
    BY DEF IInv, TypeOK, RunInv
  <2>2. Switched([status EXCEPT ![cur] = "READY"], priority)
    BY <1>1, <1>2, <2>1, YieldEffect
  <2>3. mlfqs_list'[p] \in Seq(Thread)
    BY <2>2 DEF Switched, Consistent
  <2>4. PICK u \in Thread : u \in Range(mlfqs_list'[p])
    BY <2>3, PopSeq
  <2>5. status'[u] = "READY" /\ u # Idle /\ priority[u] = p
    BY <2>2, <2>4 DEF Switched, Consistent
  <2> QED BY <1>1, <2>2, <2>5 DEF Switched, Highest
<1>3. CASE ~yields /\ UNCHANGED schedVars
  <2>1. ~(p > priority[cur])
    BY <1>3 DEF yields, outranked, schedVars
  <2>2. priority[cur] \in Int /\ p \in Int
    BY NumberAssumption DEF IInv, TypeOK, Priority, PRI_MIN
  <2> QED BY <1>1, <1>3, <2>1, <2>2 DEF schedVars
<1> QED BY <1>2, <1>3 DEF TimerReturn

\* No other step returns from the timer interrupt.
LEMMA StepSettles ==
  ASSUME IInv, [Next]_vars
  PROVE  Settled
<1>1. CASE Call
  <2>1. intr = "none"
    BY <1>1 DEF Call, At, ThreadCreate, LockRelease, ThreadSetNice,
                ThreadSetPriority, ThreadBlock, SemaUp, ThreadExit
  <2> QED BY <2>1 DEF Settled
<1>2. CASE Continue
  <2>1. intr = "none"
    BY <1>2 DEF Continue, At, EnterAllList, RefreshPriority, UnblockChild,
                ComputePriority, StorePriority, CheckQueue, CheckCompare,
                CheckYield, IdleBlock
  <2> QED BY <2>1 DEF Settled
<1>3. CASE Timer
  <2>1. CASE TimerReturn
    BY <2>1, TimerReturnSettles
  <2>2. CASE ~TimerReturn
    <3>1. intr = "none" \/ intr' # "none"
      BY <1>3, <2>2 DEF Timer, TimerInterrupt, TimerWakeup, UpdatePriorities,
                        Collect, Insert, timerVars
    <3> QED BY <3>1 DEF Settled
  <2> QED BY <2>1, <2>2
<1>4. CASE \E t \in Thread : DeviceInterrupt(t)
  <2>1. intr = "none"
    BY <1>4 DEF DeviceInterrupt, IntrOn
  <2> QED BY <2>1 DEF Settled
<1>5. CASE UNCHANGED vars
  BY <1>5 DEF Settled, vars, timerVars
<1> QED BY <1>1, <1>2, <1>3, <1>4, <1>5 DEF Next

\* Whatever thread_set_priority, lock_release or timer_wakeup has done to the
\* order of priorities, the timer interrupt of every fourth tick leaves a
\* thread on the CPU that nobody outranks.
THEOREM InversionEnds == Spec => NoInversionAfterUpdate
<1>1. IInv /\ [Next]_vars => [Settled]_vars
  BY StepSettles
<1>2. Spec => [][Settled]_vars
  BY <1>1, Invariance, PTL DEF Spec
<1> QED BY <1>2 DEF NoInversionAfterUpdate, Settled

=============================================================================
