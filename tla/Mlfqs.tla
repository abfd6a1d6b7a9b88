------------------------------- MODULE Mlfqs -------------------------------
(***************************************************************************)
(* The multi-level feedback queue scheduler of threads/thread.c, chosen at *)
(* boot with "-mlfqs", and the part of timer_interrupt that feeds it.      *)
(*                                                                         *)
(* There is a queue for each priority.  A ready thread sits in the queue   *)
(* it was put in, while priorities are computed anew every four ticks: the *)
(* queues have to be put in order each time.  Steps are as in              *)
(* PriorityScheduler: a stretch of code with interrupts off, or one access *)
(* with interrupts on.  In the timer interrupt `intr' says which part of   *)
(* the handler comes next; nothing else runs until it has returned.        *)
(*                                                                         *)
(* What a blocked thread waits for is left open: sema_up, in a thread or   *)
(* in a device's handler, or timer_wakeup can wake any of them.            *)
(*                                                                         *)
(* A definition marked `Wrong' is a fault put in to see that a property    *)
(* notices it; no action uses it.                                          *)
(***************************************************************************)
EXTENDS FixedPoint, SequencesExt

CONSTANTS
    Thread,       \* pages that can hold a struct thread, Main's and Idle's too
    Main,         \* initial_thread
    Idle,         \* idle_thread
    NoThread,     \* the null thread pointer
    PRI_DEFAULT,  \* 31 in thread.h
    PRI_MAX,      \* 63 in thread.h
    NICE_MIN,     \* -20 in thread.h
    NICE_MAX,     \* 20 in thread.h
    TIME_SLICE,   \* 4 in thread.c
    TIMER_FREQ,   \* 100 in timer.h
    NewNice,      \* arguments of thread_set_nice
    NewPriority,  \* arguments of thread_create and thread_set_priority
    MaxTicks      \* the timer stops after so many ticks

PRI_MIN == 0
NICE_DEFAULT == 0
RECENT_CPU_DEFAULT == 0

ASSUME ThreadAssumption ==
    /\ IsFiniteSet(Thread)
    /\ Main \in Thread
    /\ Idle \in Thread
    /\ Main # Idle
    /\ NoThread \notin Thread

ASSUME NumberAssumption ==
    /\ PRI_MAX \in Nat
    /\ PRI_DEFAULT \in PRI_MIN..PRI_MAX
    /\ NICE_MIN \in Int /\ NICE_MAX \in Int
    /\ NICE_MIN <= NICE_DEFAULT /\ NICE_DEFAULT <= NICE_MAX
    /\ NewNice \subseteq Int
    /\ NewPriority \subseteq PRI_MIN..PRI_MAX
    /\ TIME_SLICE \in Nat \ {0}
    /\ TIMER_FREQ \in Nat \ {0}
    /\ MaxTicks \in Nat

Priority == PRI_MIN..PRI_MAX

VARIABLES
    cur,              \* running_thread()
    status,           \* t->status, "FREE" when the page holds no thread
    pc,               \* where t is in the kernel
    priority,         \* t->priority
    base_priority,    \* t->base_priority
    nice,             \* t->nice
    recent_cpu,       \* t->recent_cpu, fixed point
    load_avg,         \* fixed point
    all_list,         \* the threads thread_foreach goes through
    mlfqs_list,       \* the queue of each priority
    temp_list,        \* local to mlfqs_reorganize_queues
    new_priority,     \* t's local in mlfqs_update_priority
    level,            \* t's local `i' in mlfqs_check_preemption
    child,            \* Main's local `t' in thread_create
    ticks,            \* timer ticks since boot
    thread_ticks,     \* timer ticks since the last switch
    intr,             \* the next part of timer_interrupt, or "none"
    yield_on_return   \* what intr_yield_on_return() sets

schedVars == <<cur, status, mlfqs_list, thread_ticks>>
priVars   == <<priority, base_priority>>
cpuVars   == <<nice, recent_cpu, load_avg>>
localVars == <<new_priority, level, child>>
timerVars == <<ticks, intr, yield_on_return, temp_list>>
vars == <<schedVars, priVars, cpuVars, localVars, timerVars, pc, all_list>>

Status == {"RUNNING", "READY", "BLOCKED", "DYING", "FREE"}

PC == {"run", "all_list", "allocate_tid", "refresh_priority", "thread_unblock",
       "update_priority", "store_priority", "cp_queue", "cp_compare", "cp_yield",
       "blocked", "idle", "hlt", "nascent", "dead"}

Stage == {"none", "wakeup", "collect", "insert"}

TypeOK ==
    /\ cur \in Thread
    /\ status \in [Thread -> Status]
    /\ pc \in [Thread -> PC]
    /\ priority \in [Thread -> Priority]
    /\ base_priority \in [Thread -> Priority]
    /\ nice \in [Thread -> NICE_MIN..NICE_MAX]
    /\ recent_cpu \in [Thread -> Int]
    /\ load_avg \in Nat
    /\ all_list \in SUBSET Thread
    /\ mlfqs_list \in [Priority -> Seq(Thread)]
    /\ temp_list \in Seq(Thread)
    /\ new_priority \in [Thread -> Priority]
    /\ level \in [Thread -> Priority]
    /\ child \in Thread \union {NoThread}
    /\ ticks \in 0..MaxTicks
    /\ thread_ticks \in 0..TIME_SLICE
    /\ intr \in Stage
    /\ yield_on_return \in BOOLEAN

-----------------------------------------------------------------------------
(* The formulas.                                                           *)

\* Wrong: not brought back into the range of the queues.
priority_unclamped(cpu, n) == PRI_MAX - fp_to_int(fp_div_int(cpu, 4)) - n * 2

\* What mlfqs_update_priority computes from recent_cpu and nice.
mlfqs_priority(cpu, n) ==
    LET p == PRI_MAX - fp_to_int(fp_div_int(cpu, 4)) - n * 2
    IN IF p > PRI_MAX THEN PRI_MAX ELSE IF p < PRI_MIN THEN PRI_MIN ELSE p

\* mlfqs_update_priority for every thread but the idle one.
updated_priority(threads) ==
    [t \in Thread |-> IF t \in threads \ {Idle}
                      THEN mlfqs_priority(recent_cpu[t], nice[t])
                      ELSE priority[t]]

\* mlfqs_update_recent_cpu
decayed_cpu(t) ==
    LET two_load == fp_mul_int(load_avg, 2)
        coef == fp_div(two_load, fp_add_int(two_load, 1))
    IN fp_add_int(fp_mul(coef, recent_cpu[t]), nice[t])

Queued == UNION {Range(mlfqs_list[p]) : p \in Priority}

\* list_size of all queues together, and the running thread.
mlfqs_ready_threads == Cardinality(Queued) + (IF cur = Idle THEN 0 ELSE 1)

\* mlfqs_update_load_avg
new_load_avg ==
    fp_add(fp_mul(fp_div_int(int_to_fp(59), 60), load_avg),
           fp_mul_int(fp_div_int(int_to_fp(1), 60), mlfqs_ready_threads))

\* Wrong: rounded towards zero.
hundredfold_truncated(x) == fp_to_int(int(fp_mul_int(x, 100)))

\* What thread_get_recent_cpu and thread_get_load_avg make of their value.
hundredfold(x) == fp_to_int_nearest(int(fp_mul_int(x, 100)))

-----------------------------------------------------------------------------
(* The queues and the scheduler.                                           *)

mlfqs_insert(lists, t, pri) == [lists EXCEPT ![pri[t]] = Append(@, t)]

\* thread_schedule_tail
thread_schedule_tail(next, st) ==
    LET reaped == IF next # cur /\ cur # Main /\ st[cur] = "DYING"
                  THEN [st EXCEPT ![cur] = "FREE"]
                  ELSE st
    IN [reaped EXCEPT ![next] = "RUNNING"]

\* Wrong: the search begins one below PRI_MAX.
schedule_below_max(lists, st) ==
    /\ \/ /\ \A p \in Priority \ {PRI_MAX} : lists[p] = <<>>
          /\ cur' = Idle
          /\ mlfqs_list' = lists
       \/ \E p \in Priority \ {PRI_MAX} :
              /\ lists[p] # <<>>
              /\ \A q \in Priority \ {PRI_MAX} : q > p => lists[q] = <<>>
              /\ cur' = Head(lists[p])
              /\ mlfqs_list' = [lists EXCEPT ![p] = Tail(@)]
    /\ status' = thread_schedule_tail(cur', st)
    /\ thread_ticks' = 0

\* schedule(): mlfqs_next_thread_to_run takes the front of the highest queue
\* that is not empty.
schedule(lists, st) ==
    /\ \/ /\ \A p \in Priority : lists[p] = <<>>
          /\ cur' = Idle
          /\ mlfqs_list' = lists
       \/ \E p \in Priority :
              /\ lists[p] # <<>>
              /\ \A q \in Priority : q > p => lists[q] = <<>>
              /\ cur' = Head(lists[p])
              /\ mlfqs_list' = [lists EXCEPT ![p] = Tail(@)]
    /\ status' = thread_schedule_tail(cur', st)
    /\ thread_ticks' = 0

thread_block == schedule(mlfqs_list, [status EXCEPT ![cur] = "BLOCKED"])

thread_yield(lists, st, pri) ==
    schedule(IF cur = Idle THEN lists ELSE mlfqs_insert(lists, cur, pri),
             [st EXCEPT ![cur] = "READY"])

\* What thread_unblock(t) makes of priorities, queues and states.
unblocked_pri(t) == updated_priority({t})
unblocked_list(t) == mlfqs_insert(mlfqs_list, t, unblocked_pri(t))
unblocked_status(t) == [status EXCEPT ![t] = "READY"]

\* What mlfqs_check_preemption finds with interrupts off.
outranked(lists, pri) == \E p \in Priority : p > pri[cur] /\ lists[p] # <<>>

\* mlfqs_check_preemption with interrupts off.
check_preemption(lists, st, pri) ==
    IF outranked(lists, pri)
    THEN thread_yield(lists, st, pri)
    ELSE /\ mlfqs_list' = lists
         /\ status' = st
         /\ UNCHANGED <<cur, thread_ticks>>

At(p) == intr = "none" /\ pc[cur] = p

\* External interrupts are let in.
IntrOn == intr = "none" /\ pc[cur] # "refresh_priority"

Goto(p) == pc' = [pc EXCEPT ![cur] = p]

\* To mlfqs_check_preemption with interrupts on.
CallCheck ==
    /\ Goto("cp_queue")
    /\ level' = [level EXCEPT ![cur] = PRI_MAX]

-----------------------------------------------------------------------------
(* Calls of threads.                                                       *)

\* thread_create and init_thread: the new thread inherits nice and
\* recent_cpu, and PRI is its base_priority only.
ThreadCreate(t, pri) ==
    /\ At("run")
    /\ cur = Main
    /\ status[t] = "FREE"
    /\ status' = [status EXCEPT ![t] = "BLOCKED"]
    /\ base_priority' = [base_priority EXCEPT ![t] = pri]
    /\ nice' = [nice EXCEPT ![t] = nice[cur]]
    /\ recent_cpu' = [recent_cpu EXCEPT ![t] = recent_cpu[cur]]
    /\ priority' = [priority EXCEPT ![t] = mlfqs_priority(recent_cpu[cur], nice[cur])]
    /\ pc' = [pc EXCEPT ![t] = "nascent", ![cur] = "all_list"]
    /\ child' = t
    /\ UNCHANGED <<cur, mlfqs_list, thread_ticks, load_avg, all_list,
                   new_priority, level, timerVars>>

\* The end of init_thread.
EnterAllList ==
    /\ At("all_list")
    /\ all_list' = all_list \union {child}
    /\ Goto("allocate_tid")
    /\ UNCHANGED <<schedVars, priVars, cpuVars, localVars, timerVars>>

\* lock_acquire of a free lock and lock_release of it, in allocate_tid or
\* anywhere else: sema_up checks for preemption, interrupts off, ...
LockRelease ==
    /\ At("run") \/ At("allocate_tid")
    /\ Goto("refresh_priority")
    /\ check_preemption(mlfqs_list, status, priority)
    /\ UNCHANGED <<priVars, cpuVars, localVars, timerVars, all_list>>

\* ... and refresh_priority, which knows nothing of MLFQS, sets the priority
\* to base_priority.  It looks for a higher thread in ready_list, which is
\* always empty.
RefreshPriority ==
    /\ At("refresh_priority")
    /\ priority' = [priority EXCEPT ![cur] = base_priority[cur]]
    /\ Goto(IF cur = Main /\ child # NoThread THEN "thread_unblock" ELSE "run")
    /\ UNCHANGED <<schedVars, base_priority, cpuVars, localVars, timerVars, all_list>>

\* The end of thread_create.
UnblockChild ==
    /\ At("thread_unblock")
    /\ priority' = unblocked_pri(child)
    /\ mlfqs_list' = unblocked_list(child)
    /\ status' = unblocked_status(child)
    /\ pc' = [pc EXCEPT ![child] = "run", ![cur] = "cp_queue"]
    /\ level' = [level EXCEPT ![cur] = PRI_MAX]
    /\ child' = NoThread
    /\ UNCHANGED <<cur, thread_ticks, base_priority, cpuVars, new_priority,
                   timerVars, all_list>>

\* thread_set_nice: the value is clamped and stored, ...
ThreadSetNice(n) ==
    /\ At("run")
    /\ nice' = [nice EXCEPT ![cur] =
           IF n > NICE_MAX THEN NICE_MAX ELSE IF n < NICE_MIN THEN NICE_MIN ELSE n]
    /\ Goto("update_priority")
    /\ UNCHANGED <<schedVars, priVars, recent_cpu, load_avg, localVars, timerVars,
                   all_list>>

\* ... the new priority is computed, interrupts on, ...
ComputePriority ==
    /\ At("update_priority")
    /\ new_priority' = [new_priority EXCEPT ![cur] =
                            mlfqs_priority(recent_cpu[cur], nice[cur])]
    /\ Goto("store_priority")
    /\ UNCHANGED <<schedVars, priVars, cpuVars, level, child, timerVars, all_list>>

\* ... and stored, perhaps over a later one.
StorePriority ==
    /\ At("store_priority")
    /\ priority' = [priority EXCEPT ![cur] = new_priority[cur]]
    /\ CallCheck
    /\ UNCHANGED <<schedVars, base_priority, cpuVars, new_priority, child,
                   timerVars, all_list>>

\* mlfqs_check_preemption with interrupts on looks at one queue after the
\* other, ...
CheckQueue ==
    /\ At("cp_queue")
    /\ \/ /\ mlfqs_list[level[cur]] # <<>>
          /\ Goto("cp_compare")
          /\ UNCHANGED level
       \/ /\ mlfqs_list[level[cur]] = <<>>
          /\ level[cur] > PRI_MIN
          /\ level' = [level EXCEPT ![cur] = @ - 1]
          /\ UNCHANGED pc
       \/ /\ mlfqs_list[level[cur]] = <<>>
          /\ level[cur] = PRI_MIN
          /\ Goto("run")
          /\ UNCHANGED level
    /\ UNCHANGED <<schedVars, priVars, cpuVars, new_priority, child, timerVars,
                   all_list>>

\* ... compares the level it has found, ...
CheckCompare ==
    /\ At("cp_compare")
    /\ Goto(IF level[cur] > priority[cur] THEN "cp_yield" ELSE "run")
    /\ UNCHANGED <<schedVars, priVars, cpuVars, localVars, timerVars, all_list>>

\* ... and yields, whatever has happened since.
CheckYield ==
    /\ At("cp_yield")
    /\ Goto("run")
    /\ thread_yield(mlfqs_list, status, priority)
    /\ UNCHANGED <<priVars, cpuVars, localVars, timerVars, all_list>>

\* thread_set_priority works under MLFQS too; its check_preemption looks at
\* ready_list, which is empty.
ThreadSetPriority(pri) ==
    /\ At("run")
    /\ priority' = [priority EXCEPT ![cur] = pri]
    /\ UNCHANGED <<schedVars, base_priority, cpuVars, localVars, timerVars, pc,
                   all_list>>

\* A thread waits for a semaphore or sleeps.
ThreadBlock ==
    /\ At("run")
    /\ Goto("blocked")
    /\ thread_block
    /\ UNCHANGED <<priVars, cpuVars, localVars, timerVars, all_list>>

\* sema_up in a thread, for a thread that waits.
SemaUp(t) ==
    /\ At("run")
    /\ pc[t] = "blocked"
    /\ priority' = unblocked_pri(t)
    /\ mlfqs_list' = unblocked_list(t)
    /\ status' = unblocked_status(t)
    /\ pc' = [pc EXCEPT ![t] = "run", ![cur] = "cp_queue"]
    /\ level' = [level EXCEPT ![cur] = PRI_MAX]
    /\ UNCHANGED <<cur, thread_ticks, base_priority, cpuVars, new_priority, child,
                   timerVars, all_list>>

ThreadExit ==
    /\ At("run")
    /\ Goto("dead")
    /\ all_list' = all_list \ {cur}
    /\ schedule(mlfqs_list, [status EXCEPT ![cur] = "DYING"])
    /\ UNCHANGED <<priVars, cpuVars, localVars, timerVars>>

\* One round of idle()'s loop.
IdleBlock ==
    /\ At("idle")
    /\ Goto("hlt")
    /\ thread_block
    /\ UNCHANGED <<priVars, cpuVars, localVars, timerVars, all_list>>

-----------------------------------------------------------------------------
(* Interrupts.                                                             *)

\* The `hlt' of the idle thread is over once an interrupt has come.
Awoken == IF pc[cur] = "hlt" THEN [pc EXCEPT ![cur] = "idle"] ELSE pc

\* sema_up in a device's interrupt handler.
DeviceInterrupt(t) ==
    /\ IntrOn
    /\ pc[t] = "blocked"
    /\ pc' = [Awoken EXCEPT ![t] = "run"]
    /\ priority' = unblocked_pri(t)
    /\ check_preemption(unblocked_list(t), unblocked_status(t), unblocked_pri(t))
    /\ UNCHANGED <<base_priority, cpuVars, localVars, timerVars, all_list>>

\* timer_interrupt: the clock and thread_tick().
TimerInterrupt ==
    /\ IntrOn
    /\ ticks < MaxTicks
    /\ ticks' = ticks + 1
    /\ recent_cpu' = IF cur = Idle THEN recent_cpu
                     ELSE [recent_cpu EXCEPT ![cur] = fp_add_int(@, 1)]
    /\ thread_ticks' = thread_ticks + 1
    /\ yield_on_return' = (thread_ticks + 1 >= TIME_SLICE)
    /\ pc' = Awoken
    /\ intr' = "wakeup"
    /\ UNCHANGED <<cur, status, mlfqs_list, priVars, nice, load_avg, localVars,
                   temp_list, all_list>>

\* timer_wakeup for a thread whose time has come.
TimerWakeup(t) ==
    /\ intr = "wakeup"
    /\ pc[t] = "blocked"
    /\ pc' = [pc EXCEPT ![t] = "run"]
    /\ priority' = unblocked_pri(t)
    /\ mlfqs_list' = unblocked_list(t)
    /\ status' = unblocked_status(t)
    /\ UNCHANGED <<cur, thread_ticks, base_priority, cpuVars, localVars, timerVars,
                   all_list>>

\* Wrong: the queues stay as they are.
UpdatePrioritiesOnly ==
    /\ intr = "wakeup"
    /\ ticks % 4 = 0
    /\ priority' = updated_priority(all_list)
    /\ intr' = "insert"
    /\ UNCHANGED <<schedVars, base_priority, cpuVars, localVars, ticks,
                   yield_on_return, temp_list, pc, all_list>>

\* Every fourth tick mlfqs_update_priority_all: new priorities, then
\* mlfqs_reorganize_queues, ...
UpdatePriorities ==
    /\ intr = "wakeup"
    /\ ticks % 4 = 0
    /\ priority' = updated_priority(all_list)
    /\ intr' = "collect"
    /\ UNCHANGED <<schedVars, base_priority, cpuVars, localVars, ticks,
                   yield_on_return, temp_list, pc, all_list>>

\* ... which takes all threads off the queues, from the lowest queue up, ...
Collect ==
    /\ intr = "collect"
    /\ \E p \in Priority :
           /\ mlfqs_list[p] # <<>>
           /\ \A q \in Priority : q < p => mlfqs_list[q] = <<>>
           /\ temp_list' = Append(temp_list, Head(mlfqs_list[p]))
           /\ mlfqs_list' = [mlfqs_list EXCEPT ![p] = Tail(@)]
    /\ UNCHANGED <<cur, status, thread_ticks, priVars, cpuVars, localVars, ticks,
                   intr, yield_on_return, pc, all_list>>

\* In its second loop, which begins when all queues are empty, ...
Reinserting ==
    \/ intr = "insert"
    \/ intr = "collect" /\ \A p \in Priority : mlfqs_list[p] = <<>>

\* ... it puts each thread where it belongs.
Insert ==
    /\ Reinserting
    /\ temp_list # <<>>
    /\ mlfqs_list' = mlfqs_insert(mlfqs_list, Head(temp_list), priority)
    /\ temp_list' = Tail(temp_list)
    /\ intr' = "insert"
    /\ UNCHANGED <<cur, status, thread_ticks, priVars, cpuVars, localVars, ticks,
                   yield_on_return, pc, all_list>>

\* Wrong: no mlfqs_check_preemption.
yields_after_slice == yield_on_return

\* The thread yields on return from the timer interrupt: thread_tick has
\* asked for it, or the mlfqs_check_preemption of every fourth tick.
yields == yield_on_return \/ (ticks % 4 = 0 /\ outranked(mlfqs_list, priority))

\* Every second mlfqs_update_rcpu_la; recent_cpu is computed with the load
\* average of the second before.
mlfqs_update_rcpu_la ==
    /\ recent_cpu' = [t \in Thread |-> IF t \in all_list \ {Idle}
                                       THEN decayed_cpu(t)
                                       ELSE recent_cpu[t]]
    /\ load_avg' = new_load_avg

\* The rest of timer_interrupt and the return from it.
TimerReturn ==
    /\ \/ intr = "wakeup" /\ ticks % 4 # 0
       \/ Reinserting /\ temp_list = <<>>
    /\ intr' = "none"
    /\ yield_on_return' = FALSE
    /\ IF ticks % TIMER_FREQ = 0
       THEN mlfqs_update_rcpu_la
       ELSE UNCHANGED <<recent_cpu, load_avg>>
    /\ IF yields
       THEN thread_yield(mlfqs_list, status, priority)
       ELSE UNCHANGED schedVars
    /\ UNCHANGED <<priVars, nice, localVars, ticks, temp_list, pc, all_list>>

-----------------------------------------------------------------------------

\* The machine after thread_start() has returned to main().  Main has the
\* priority lock_release left it with in the thread_create of the idle
\* thread; the idle thread has the one computed for it before idle_thread
\* was set, which nothing changes any more.
Init ==
    /\ cur = Main
    /\ status = [t \in Thread |-> CASE t = Main -> "RUNNING"
                                    [] t = Idle -> "BLOCKED"
                                    [] OTHER    -> "FREE"]
    /\ pc = [t \in Thread |-> CASE t = Main -> "run"
                                [] t = Idle -> "hlt"
                                [] OTHER    -> "dead"]
    /\ base_priority = [t \in Thread |-> IF t = Main THEN PRI_DEFAULT ELSE PRI_MIN]
    /\ priority = [base_priority EXCEPT ![Idle] =
                       mlfqs_priority(RECENT_CPU_DEFAULT, NICE_DEFAULT)]
    /\ nice = [t \in Thread |-> NICE_DEFAULT]
    /\ recent_cpu = [t \in Thread |-> RECENT_CPU_DEFAULT]
    /\ load_avg = 0
    /\ all_list = {Main, Idle}
    /\ mlfqs_list = [p \in Priority |-> <<>>]
    /\ temp_list = <<>>
    /\ new_priority = [t \in Thread |-> PRI_MIN]
    /\ level = [t \in Thread |-> PRI_MIN]
    /\ child = NoThread
    /\ ticks = 0
    /\ thread_ticks = 0
    /\ intr = "none"
    /\ yield_on_return = FALSE

Call ==
    \/ \E t \in Thread, pri \in NewPriority : ThreadCreate(t, pri)
    \/ LockRelease
    \/ \E n \in NewNice : ThreadSetNice(n)
    \/ \E pri \in NewPriority : ThreadSetPriority(pri)
    \/ ThreadBlock
    \/ \E t \in Thread : SemaUp(t)
    \/ ThreadExit

Continue ==
    \/ EnterAllList
    \/ RefreshPriority
    \/ UnblockChild
    \/ ComputePriority
    \/ StorePriority
    \/ CheckQueue
    \/ CheckCompare
    \/ CheckYield
    \/ IdleBlock

Timer ==
    \/ TimerInterrupt
    \/ \E t \in Thread : TimerWakeup(t)
    \/ UpdatePriorities
    \/ Collect
    \/ Insert
    \/ TimerReturn

Next == Call \/ Continue \/ Timer \/ \E t \in Thread : DeviceInterrupt(t)

Spec == Init /\ [][Next]_vars

-----------------------------------------------------------------------------
(* Safety.                                                                 *)

\* Whenever a thread can look at the queues, every ready thread is in the
\* queue of its present priority, once, and nobody else is in a queue: the
\* priorities computed in the timer interrupt, by thread_unblock and by the
\* thread itself never leave a thread behind in an old queue.
QueueOfPriority ==
    intr = "none" =>
        /\ \A p \in Priority : IsInjective(mlfqs_list[p])
        /\ \A p \in Priority, t \in Thread :
               t \in Range(mlfqs_list[p]) <=>
                   status[t] = "READY" /\ t # Idle /\ priority[t] = p

\* thread_get_recent_cpu and thread_get_load_avg return 100 times the value,
\* to the nearest integer, as long as an int holds the product: up to a
\* recent_cpu of about 1310 with 17.14 fixed point.
ReadsHundredfold ==
    At("run") =>
        \A x \in {recent_cpu[cur], load_avg} :
            /\ 100 * x + F \div 2 < INT_RANGE \div 2
            /\ 100 * x - F \div 2 >= -(INT_RANGE \div 2)
            => 2 * (F * hundredfold(x) - 100 * x) \in -F..F

\* Every switch is to a ready thread of the highest priority; to the idle
\* thread only if there is none.
SwitchToHighest ==
    [][cur' # cur =>
           \A t \in Thread \ {Idle} : status'[t] = "READY" =>
               cur' # Idle /\ priority'[t] <= priority'[cur']]_vars

\* thread_set_priority, lock_release and timer_wakeup leave a thread on the
\* CPU that others outrank, but not past the next fourth tick.
NoInversionAfterUpdate ==
    [][intr # "none" /\ intr' = "none" /\ ticks % 4 = 0 =>
           \A p \in Priority : mlfqs_list'[p] # <<>> => p <= priority'[cur']]_vars

=============================================================================
