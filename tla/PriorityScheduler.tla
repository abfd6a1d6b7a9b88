------------------------- MODULE PriorityScheduler -------------------------
(***************************************************************************)
(* The default (non-MLFQS) scheduler of threads/thread.c together with the *)
(* two ways a thread of this kernel gives up the CPU: the counting         *)
(* semaphores of threads/synch.c and the alarm clock of devices/timer.c.   *)
(*                                                                         *)
(* There is one CPU.  `cur' is the thread whose stack is in use, and pc[t] *)
(* says how far thread t has got in the kernel call it is making.  A step  *)
(* is a stretch of code that runs with interrupts off, or one access to    *)
(* shared state made with interrupts on; between two steps taken with      *)
(* interrupts on a timer or device interrupt may come in.                  *)
(*                                                                         *)
(* The run queue and the wait lists are sequences: this is what the        *)
(* doubly linked lists of lib/kernel/list.c stand for as long as an `elem' *)
(* is on one list at a time, which ElemOnOneList below states.  (The sleep *)
(* list links threads by a field of its own, sleep_elem.)                  *)
(*                                                                         *)
(* A definition marked `Wrong' is a fault put in to see that a property    *)
(* notices it; no action uses it.                                          *)
(***************************************************************************)
EXTENDS Integers, SequencesExt

CONSTANTS
    Thread,       \* pages that can hold a struct thread, Main's and Idle's too
    Main,         \* initial_thread, the one running main() of init.c
    Idle,         \* idle_thread
    NoThread,     \* the null thread pointer
    Sema,         \* semaphores
    NoSema,       \* no semaphore
    PRI_DEFAULT,  \* 31 in thread.h
    PRI_MAX,      \* 63 in thread.h
    TIME_SLICE,   \* 4 in thread.c
    Durations,    \* arguments of timer_sleep that are > 0
    MaxTicks,     \* the clock stands still from here on, interrupts go on
    MaxValue      \* no semaphore is raised above this value

PRI_MIN == 0

ASSUME ThreadAssumption ==
    /\ Main \in Thread
    /\ Idle \in Thread
    /\ Main # Idle
    /\ NoThread \notin Thread

ASSUME SemaAssumption == NoSema \notin Sema

ASSUME NumberAssumption ==
    /\ PRI_MAX \in Nat
    /\ PRI_DEFAULT \in PRI_MIN..PRI_MAX
    /\ TIME_SLICE \in Nat \ {0}
    /\ Durations \subseteq Nat \ {0}
    /\ MaxTicks \in Nat
    /\ MaxValue \in Nat

Priority == PRI_MIN..PRI_MAX

VARIABLES
    cur,              \* running_thread()
    status,           \* t->status, "FREE" when the page holds no thread
    priority,         \* t->priority
    base_priority,    \* t->base_priority
    wakeup_tick,      \* t->wakeup_tick
    pc,               \* where t is in the kernel
    sema,             \* the semaphore t is taking down
    cand,             \* t's local `struct thread *t' in check_preemption
    child,            \* Main's local `struct thread *t' in thread_create
    ready_list,       \* run queue
    sleep_list,       \* sleeping threads, in order of wakeup_tick
    value,            \* s->value
    waiters,          \* s->waiters
    ticks,            \* timer ticks since boot
    thread_ticks,     \* timer ticks since the last switch
    intr,             \* "timer" while timer_interrupt runs, else "none"
    yield_on_return,  \* what intr_yield_on_return() sets
    panic             \* the assertion that stopped the kernel, or "none"

schedVars == <<cur, status, ready_list, thread_ticks>>
timerVars == <<sleep_list, wakeup_tick, ticks, intr, yield_on_return>>
semaVars  == <<sema, value, waiters>>
priVars   == <<priority, base_priority>>
vars == <<schedVars, timerVars, semaVars, priVars, pc, cand, child, panic>>

Status == {"RUNNING", "READY", "BLOCKED", "DYING", "FREE"}

\* With these the thread has interrupts off when it is next on the CPU.
IntrOffPC == {"sema_down", "refresh_priority"}

PC == IntrOffPC \union
      {"run", "allocate_tid", "thread_unblock", "cp_empty", "cp_front",
       "cp_compare", "cp_yield", "timer_sleep", "asleep", "idle", "hlt",
       "nascent", "dead"}

TypeOK ==
    /\ cur \in Thread
    /\ status \in [Thread -> Status]
    /\ priority \in [Thread -> Priority]
    /\ base_priority \in [Thread -> Priority]
    /\ wakeup_tick \in [Thread -> Nat]
    /\ pc \in [Thread -> PC]
    /\ sema \in [Thread -> Sema \union {NoSema}]
    /\ cand \in [Thread -> Thread \union {NoThread}]
    /\ child \in Thread \union {NoThread}
    /\ ready_list \in Seq(Thread)
    /\ sleep_list \in Seq(Thread)
    /\ value \in [Sema -> 0..MaxValue]
    /\ waiters \in [Sema -> Seq(Thread)]
    /\ ticks \in 0..MaxTicks
    /\ thread_ticks \in 0..TIME_SLICE
    /\ intr \in {"none", "timer"}
    /\ yield_on_return \in BOOLEAN
    /\ panic \in {"none", "list_front"}

-----------------------------------------------------------------------------
(* Lists (lib/kernel/list.c) and the orders they are kept in.              *)

\* list_insert_ordered: elem goes in front of the first element it is `less'
\* than; `greater' is the set of threads it is less than.
InsertPoint(list, greater) ==
    CHOOSE i \in 1..(Len(list) + 1) :
        /\ i <= Len(list) => list[i] \in greater
        /\ \A j \in 1..(i - 1) : list[j] \notin greater

list_insert_ordered(list, elem, greater) ==
    InsertAt(list, InsertPoint(list, greater), elem)

\* Wrong: a thread goes in front of those of its own priority.
less_priority_lifo(t, pri) == {u \in Thread : pri[t] >= pri[u]}

\* less_priority(t, u): despite its name, t has the higher priority.
less_priority(t, pri) == {u \in Thread : pri[t] > pri[u]}

\* Wrong: the order of the run queue, latest wakeup_tick first.
wakeup_more(t, wakeup) == {u \in Thread : wakeup[t] > wakeup[u]}

\* wakeup_less(t, u)
wakeup_less(t, wakeup) == {u \in Thread : wakeup[t] < wakeup[u]}

-----------------------------------------------------------------------------
(* The scheduler.                                                          *)

next_thread_to_run(queue) == IF queue = <<>> THEN Idle ELSE Head(queue)

\* thread_schedule_tail: the next thread runs, a dying one loses its page.
thread_schedule_tail(next, st) ==
    LET reaped == IF next # cur /\ cur # Main /\ st[cur] = "DYING"
                  THEN [st EXCEPT ![cur] = "FREE"]
                  ELSE st
    IN [reaped EXCEPT ![next] = "RUNNING"]

\* Wrong: thread_ticks is not reset.
schedule_same_slice(queue, st) ==
    /\ cur' = next_thread_to_run(queue)
    /\ ready_list' = IF queue = <<>> THEN queue ELSE Tail(queue)
    /\ status' = thread_schedule_tail(next_thread_to_run(queue), st)
    /\ UNCHANGED thread_ticks

\* schedule() with run queue `queue' and thread states `st'.
schedule(queue, st) ==
    /\ cur' = next_thread_to_run(queue)
    /\ ready_list' = IF queue = <<>> THEN queue ELSE Tail(queue)
    /\ status' = thread_schedule_tail(next_thread_to_run(queue), st)
    /\ thread_ticks' = 0

thread_block == schedule(ready_list, [status EXCEPT ![cur] = "BLOCKED"])

\* Wrong: the thread that yields is not put on the run queue.
thread_yield_forgets(queue, st, pri) ==
    schedule(queue, [st EXCEPT ![cur] = "READY"])

\* thread_yield(): the idle thread is never put on the run queue.
thread_yield(queue, st, pri) ==
    schedule(IF cur = Idle
             THEN queue
             ELSE list_insert_ordered(queue, cur, less_priority(cur, pri)),
             [st EXCEPT ![cur] = "READY"])

\* Wrong: list_push_back.
unblocked_queue_fifo(t) == Append(ready_list, t)

\* What thread_unblock(t) makes of the run queue and of the states.
unblocked_queue(t) == list_insert_ordered(ready_list, t, less_priority(t, priority))
unblocked_status(t) == [status EXCEPT ![t] = "READY"]

\* The test of check_preemption() and thread_yield_if_necessary().
outranked(queue, pri) == queue # <<>> /\ pri[Head(queue)] > pri[cur]

\* Thread context: the running thread is at p and no handler is running.
At(p) == panic = "none" /\ intr = "none" /\ pc[cur] = p

\* External interrupts are let in.
IntrOn == panic = "none" /\ intr = "none" /\ pc[cur] \notin IntrOffPC

\* The running thread goes on from p when it is next on the CPU.
Goto(p) == pc' = [pc EXCEPT ![cur] = p]

-----------------------------------------------------------------------------
(* Threads: creation, exit, priority.                                      *)

\* thread_create up to init_thread.  Main creates all threads, so tid_lock
\* is never contended here.
ThreadCreate(t, pri) ==
    /\ At("run")
    /\ cur = Main
    /\ status[t] = "FREE"
    /\ status' = [status EXCEPT ![t] = "BLOCKED"]
    /\ priority' = [priority EXCEPT ![t] = pri]
    /\ base_priority' = [base_priority EXCEPT ![t] = pri]
    /\ wakeup_tick' = [wakeup_tick EXCEPT ![t] = 0]
    /\ pc' = [pc EXCEPT ![t] = "nascent", ![cur] = "allocate_tid"]
    /\ child' = t
    /\ UNCHANGED <<cur, ready_list, thread_ticks, sleep_list, ticks, intr,
                   yield_on_return, semaVars, cand, panic>>

\* allocate_tid: tid_lock is taken and released.  The release ups the lock's
\* semaphore, which nobody waits for, and checks for preemption ...
AllocateTid ==
    /\ At("allocate_tid")
    /\ Goto("refresh_priority")
    /\ IF outranked(ready_list, priority)
       THEN thread_yield(ready_list, status, priority)
       ELSE UNCHANGED schedVars
    /\ UNCHANGED <<timerVars, semaVars, priVars, cand, child, panic>>

\* ... and then, interrupts still off, refreshes the priority of the thread,
\* which holds no other lock, and yields if that has lowered it.
RefreshPriority ==
    /\ At("refresh_priority")
    /\ Goto("thread_unblock")
    /\ priority' = [priority EXCEPT ![cur] = base_priority[cur]]
    /\ IF outranked(ready_list, priority')
       THEN thread_yield(ready_list, status, priority')
       ELSE UNCHANGED schedVars
    /\ UNCHANGED <<timerVars, semaVars, base_priority, cand, child, panic>>

\* Wrong: no check_preemption after thread_unblock.
UnblockChildUnchecked ==
    /\ At("thread_unblock")
    /\ ready_list' = unblocked_queue(child)
    /\ status' = unblocked_status(child)
    /\ pc' = [pc EXCEPT ![child] = "run", ![cur] = "run"]
    /\ child' = NoThread
    /\ UNCHANGED <<cur, thread_ticks, timerVars, semaVars, priVars, cand, panic>>

\* The end of thread_create: the thread goes on the run queue.
UnblockChild ==
    /\ At("thread_unblock")
    /\ ready_list' = unblocked_queue(child)
    /\ status' = unblocked_status(child)
    /\ pc' = [pc EXCEPT ![child] = "run", ![cur] = "cp_empty"]
    /\ child' = NoThread
    /\ UNCHANGED <<cur, thread_ticks, timerVars, semaVars, priVars, cand, panic>>

\* thread_set_priority assigns, then calls check_preemption.
ThreadSetPriority(pri) ==
    /\ At("run")
    /\ priority' = [priority EXCEPT ![cur] = pri]
    /\ Goto("cp_empty")
    /\ UNCHANGED <<schedVars, timerVars, semaVars, base_priority, cand, child,
                   panic>>

\* thread_exit; the page is freed by the thread that runs next.
ThreadExit ==
    /\ At("run")
    /\ schedule(ready_list, [status EXCEPT ![cur] = "DYING"])
    /\ Goto("dead")
    /\ UNCHANGED <<timerVars, semaVars, priVars, cand, child, panic>>

(* check_preemption in thread context runs with interrupts on, so every    *)
(* access it makes to the run queue is a step of its own.                  *)

CheckEmpty ==
    /\ At("cp_empty")
    /\ Goto(IF ready_list = <<>> THEN "run" ELSE "cp_front")
    /\ UNCHANGED <<schedVars, timerVars, semaVars, priVars, cand, child, panic>>

\* list_front asserts that the list is not empty.
CheckFront ==
    /\ At("cp_front")
    /\ IF ready_list = <<>>
       THEN panic' = "list_front" /\ UNCHANGED <<pc, cand>>
       ELSE /\ cand' = [cand EXCEPT ![cur] = Head(ready_list)]
            /\ Goto("cp_compare")
            /\ UNCHANGED panic
    /\ UNCHANGED <<schedVars, timerVars, semaVars, priVars, child>>

\* If the thread read from the queue has exited since, its page is free and
\* its `priority' reads as anything.
CheckCompare ==
    /\ At("cp_compare")
    /\ \E higher \in BOOLEAN :
        /\ status[cand[cur]] # "FREE" =>
               higher = (priority[cand[cur]] > priority[cur])
        /\ Goto(IF higher THEN "cp_yield" ELSE "run")
    /\ cand' = [cand EXCEPT ![cur] = NoThread]
    /\ UNCHANGED <<schedVars, timerVars, semaVars, priVars, child, panic>>

CheckYield ==
    /\ At("cp_yield")
    /\ Goto("run")
    /\ thread_yield(ready_list, status, priority)
    /\ UNCHANGED <<timerVars, semaVars, priVars, cand, child, panic>>

\* A thread may also yield of its own accord.
ThreadYield ==
    /\ At("run")
    /\ thread_yield(ready_list, status, priority)
    /\ UNCHANGED <<timerVars, semaVars, priVars, pc, cand, child, panic>>

\* Wrong: `sti; hlt' without thread_block.
IdleUnblocked ==
    /\ At("idle")
    /\ Goto("hlt")
    /\ UNCHANGED <<schedVars, timerVars, semaVars, priVars, cand, child, panic>>

\* One round of idle()'s loop: thread_block, and on return `sti; hlt'.
IdleBlock ==
    /\ At("idle")
    /\ Goto("hlt")
    /\ thread_block
    /\ UNCHANGED <<timerVars, semaVars, priVars, cand, child, panic>>

-----------------------------------------------------------------------------
(* Semaphores.                                                             *)

\* Wrong: list_push_back.
sema_down_fifo(s) ==
    IF value[s] = 0
    THEN /\ waiters' = [waiters EXCEPT ![s] = Append(@, cur)]
         /\ sema' = [sema EXCEPT ![cur] = s]
         /\ Goto("sema_down")
         /\ thread_block
         /\ UNCHANGED value
    ELSE /\ value' = [value EXCEPT ![s] = @ - 1]
         /\ sema' = [sema EXCEPT ![cur] = NoSema]
         /\ Goto("run")
         /\ UNCHANGED <<waiters, schedVars>>

\* The loop of sema_down, from a test of the value to the next switch.
sema_down_loop(s) ==
    IF value[s] = 0
    THEN /\ waiters' = [waiters EXCEPT ![s] =
                list_insert_ordered(@, cur, less_priority(cur, priority))]
         /\ sema' = [sema EXCEPT ![cur] = s]
         /\ Goto("sema_down")
         /\ thread_block
         /\ UNCHANGED value
    ELSE /\ value' = [value EXCEPT ![s] = @ - 1]
         /\ sema' = [sema EXCEPT ![cur] = NoSema]
         /\ Goto("run")
         /\ UNCHANGED <<waiters, schedVars>>

SemaDown(s) ==
    /\ At("run")
    /\ sema_down_loop(s)
    /\ UNCHANGED <<timerVars, priVars, cand, child, panic>>

\* Wrong: `if' for `while'.
SemaDownOnce ==
    /\ At("sema_down")
    /\ value' = [value EXCEPT ![sema[cur]] = @ - 1]
    /\ sema' = [sema EXCEPT ![cur] = NoSema]
    /\ Goto("run")
    /\ UNCHANGED <<schedVars, waiters, timerVars, priVars, cand, child, panic>>

\* A thread woken by sema_up tests the value again.
SemaDownAgain ==
    /\ At("sema_down")
    /\ sema_down_loop(sema[cur])
    /\ UNCHANGED <<timerVars, priVars, cand, child, panic>>

SemaTryDown(s) ==
    /\ At("run")
    /\ value[s] > 0
    /\ value' = [value EXCEPT ![s] = @ - 1]
    /\ UNCHANGED <<schedVars, timerVars, priVars, sema, waiters, pc, cand,
                   child, panic>>

\* Wrong: list_front, where list_pop_front is needed.
upped_waiters_front(s) == waiters

\* What sema_up does with interrupts off: the front waiter is unblocked and
\* the value goes up.  Neither the run queue nor the states change if nobody
\* waits.
upped_waiters(s) ==
    IF waiters[s] = <<>> THEN waiters ELSE [waiters EXCEPT ![s] = Tail(@)]
upped_queue(s) ==
    IF waiters[s] = <<>> THEN ready_list ELSE unblocked_queue(Head(waiters[s]))
upped_status(s) ==
    IF waiters[s] = <<>> THEN status ELSE unblocked_status(Head(waiters[s]))

\* Wrong: a thread is only woken when the value was 0.
SemaUpFromZero(s) ==
    /\ At("run")
    /\ value[s] < MaxValue
    /\ value' = [value EXCEPT ![s] = @ + 1]
    /\ IF value[s] = 0
       THEN /\ waiters' = upped_waiters(s)
            /\ ready_list' = upped_queue(s)
            /\ status' = upped_status(s)
       ELSE UNCHANGED <<waiters, ready_list, status>>
    /\ Goto("cp_empty")
    /\ UNCHANGED <<cur, thread_ticks, timerVars, priVars, sema, cand, child, panic>>

\* sema_up in a thread, up to its call of check_preemption.
SemaUp(s) ==
    /\ At("run")
    /\ value[s] < MaxValue
    /\ value' = [value EXCEPT ![s] = @ + 1]
    /\ waiters' = upped_waiters(s)
    /\ ready_list' = upped_queue(s)
    /\ status' = upped_status(s)
    /\ Goto("cp_empty")
    /\ UNCHANGED <<cur, thread_ticks, timerVars, priVars, sema, cand, child, panic>>

\* The `hlt' of the idle thread is over once an interrupt has come.
AfterInterrupt == pc' = [pc EXCEPT ![cur] = IF @ = "hlt" THEN "idle" ELSE @]

\* sema_up in a device's interrupt handler: check_preemption asks for a
\* yield on return from the interrupt.
DeviceInterrupt(s) ==
    /\ IntrOn
    /\ value[s] < MaxValue
    /\ value' = [value EXCEPT ![s] = @ + 1]
    /\ waiters' = upped_waiters(s)
    /\ AfterInterrupt
    /\ IF outranked(upped_queue(s), priority)
       THEN thread_yield(upped_queue(s), upped_status(s), priority)
       ELSE /\ ready_list' = upped_queue(s)
            /\ status' = upped_status(s)
            /\ UNCHANGED <<cur, thread_ticks>>
    /\ UNCHANGED <<timerVars, priVars, sema, cand, child, panic>>

-----------------------------------------------------------------------------
(* The alarm clock and the timer interrupt.                                *)

\* timer_sleep reads the clock with interrupts on.  The sum start + ticks is
\* put into wakeup_tick at once: nobody reads it before TimerSleepBlock.
TimerSleep(n) ==
    /\ At("run")
    /\ ticks + n <= MaxTicks
    /\ wakeup_tick' = [wakeup_tick EXCEPT ![cur] = ticks + n]
    /\ Goto("timer_sleep")
    /\ UNCHANGED <<schedVars, sleep_list, ticks, intr, yield_on_return,
                   semaVars, priVars, cand, child, panic>>

\* The rest of timer_sleep, interrupts off.
TimerSleepBlock ==
    /\ At("timer_sleep")
    /\ sleep_list' =
           list_insert_ordered(sleep_list, cur, wakeup_less(cur, wakeup_tick))
    /\ Goto("asleep")
    /\ thread_block
    /\ UNCHANGED <<wakeup_tick, ticks, intr, yield_on_return, semaVars,
                   priVars, cand, child, panic>>

\* timer_interrupt: the clock and thread_tick().
TimerInterrupt ==
    /\ IntrOn
    /\ ticks' = IF ticks < MaxTicks THEN ticks + 1 ELSE ticks
    /\ thread_ticks' = thread_ticks + 1
    /\ yield_on_return' = (thread_ticks + 1 >= TIME_SLICE)
    /\ intr' = "timer"
    /\ AfterInterrupt
    /\ UNCHANGED <<cur, status, ready_list, sleep_list, wakeup_tick, semaVars,
                   priVars, cand, child, panic>>

\* Wrong: the time is compared for equality.
due_now == sleep_list # <<>> /\ wakeup_tick[Head(sleep_list)] = ticks

\* The front sleeper's time has come.
due == sleep_list # <<>> /\ wakeup_tick[Head(sleep_list)] <= ticks

\* One round of timer_wakeup's loop.  Nothing else runs until TimerReturn.
TimerWakeup ==
    /\ intr = "timer"
    /\ due
    /\ sleep_list' = Tail(sleep_list)
    /\ ready_list' = unblocked_queue(Head(sleep_list))
    /\ status' = unblocked_status(Head(sleep_list))
    /\ pc' = [pc EXCEPT ![Head(sleep_list)] = "run"]
    /\ UNCHANGED <<cur, thread_ticks, wakeup_tick, ticks, intr, yield_on_return,
                   semaVars, priVars, cand, child, panic>>

\* Return from the timer interrupt, yielding at the end of a time slice.
TimerReturn ==
    /\ intr = "timer"
    /\ ~due
    /\ intr' = "none"
    /\ yield_on_return' = FALSE
    /\ IF yield_on_return
       THEN thread_yield(ready_list, status, priority)
       ELSE UNCHANGED schedVars
    /\ UNCHANGED <<sleep_list, wakeup_tick, ticks, semaVars, priVars, pc, cand,
                   child, panic>>

-----------------------------------------------------------------------------

\* The machine after thread_start() has returned to main(): the idle thread
\* has started main again with sema_up and is off the run queue.
Init ==
    /\ cur = Main
    /\ status = [t \in Thread |-> CASE t = Main -> "RUNNING"
                                    [] t = Idle -> "READY"
                                    [] OTHER    -> "FREE"]
    /\ priority = [t \in Thread |-> IF t = Main THEN PRI_DEFAULT ELSE PRI_MIN]
    /\ base_priority = priority
    /\ wakeup_tick = [t \in Thread |-> 0]
    /\ pc = [t \in Thread |-> CASE t = Main -> "run"
                                [] t = Idle -> "idle"
                                [] OTHER    -> "dead"]
    /\ sema = [t \in Thread |-> NoSema]
    /\ cand = [t \in Thread |-> NoThread]
    /\ child = NoThread
    /\ ready_list = <<>>
    /\ sleep_list = <<>>
    /\ value \in [Sema -> 0..MaxValue]
    /\ waiters = [s \in Sema |-> <<>>]
    /\ ticks = 0
    /\ thread_ticks = 0
    /\ intr = "none"
    /\ yield_on_return = FALSE
    /\ panic = "none"

\* What a thread calls, at its own choice.
Call ==
    \/ \E t \in Thread, pri \in Priority : ThreadCreate(t, pri)
    \/ \E pri \in Priority : ThreadSetPriority(pri)
    \/ ThreadExit
    \/ ThreadYield
    \/ \E s \in Sema : SemaDown(s) \/ SemaTryDown(s) \/ SemaUp(s)
    \/ \E n \in Durations : TimerSleep(n)

\* What follows by itself once a call has been made.
Continue ==
    \/ AllocateTid
    \/ RefreshPriority
    \/ UnblockChild
    \/ CheckEmpty
    \/ CheckFront
    \/ CheckCompare
    \/ CheckYield
    \/ SemaDownAgain
    \/ TimerSleepBlock
    \/ IdleBlock
    \/ TimerWakeup
    \/ TimerReturn

\* A kernel that has panicked stays where it is.
Halt == panic # "none" /\ UNCHANGED vars

Next ==
    \/ Call
    \/ Continue
    \/ TimerInterrupt
    \/ \E s \in Sema : DeviceInterrupt(s)
    \/ Halt

Spec == Init /\ [][Next]_vars

\* The CPU goes on executing, and the interrupt controller holds a timer
\* interrupt back until interrupts are on again: it is never lost for good.
Fairness == WF_vars(Continue) /\ SF_vars(TimerInterrupt)

FairSpec == Spec /\ Fairness

-----------------------------------------------------------------------------
(* Safety.                                                                 *)

\* thread.h's condition for sharing one `elem' between the run queue and the
\* wait lists: a thread is on at most one list, once; on the run queue only
\* if ready, on a wait list only if blocked.
ElemOnOneList ==
    /\ IsInjective(ready_list)
    /\ IsInjective(sleep_list)
    /\ \A s \in Sema : IsInjective(waiters[s])
    /\ \A t \in Range(ready_list) : status[t] = "READY"
    /\ \A t \in Range(sleep_list) : status[t] = "BLOCKED"
    /\ \A s \in Sema : \A t \in Range(waiters[s]) :
           /\ status[t] = "BLOCKED"
           /\ t \notin Range(sleep_list)
           /\ \A r \in Sema \ {s} : t \notin Range(waiters[r])

\* No thread is forgotten: whoever is ready can be picked by
\* next_thread_to_run, and whoever is blocked is somewhere thread_unblock
\* finds it, save the idle thread and one still inside thread_create.
NoThreadForgotten ==
    \A t \in Thread \ {Idle} :
        /\ status[t] = "READY" => t \in Range(ready_list)
        /\ status[t] = "BLOCKED" /\ t # child =>
               \/ t \in Range(sleep_list)
               \/ \E s \in Sema : t \in Range(waiters[s])
        /\ status[t] = "RUNNING" => t = cur

\* The threads that sema_up has taken off s->waiters and that have not yet
\* tested the value again.
Woken(s) == {t \in Thread : /\ pc[t] = "sema_down"
                            /\ sema[t] = s
                            /\ status[t] \in {"READY", "RUNNING"}}

\* sema_up wakes one thread but hands it nothing: any thread may take the
\* value first.  Still no up is lost: while threads wait, every unit of the
\* value is matched by a woken thread that is going to try for it.
NoLostWakeup ==
    \A s \in Sema : waiters[s] # <<>> => value[s] <= Cardinality(Woken(s))

\* Run queue, priorities, preemption and interrupts left out, the semaphores
\* do what module Semaphore says and nothing else.
Abstract == INSTANCE Semaphore WITH
    count <- value,
    waiting <- [s \in Sema |-> Range(waiters[s])],
    woken <- [s \in Sema |-> Woken(s)]
ImplementsSemaphore == Abstract!Spec

\* A thread of lower priority keeps the CPU, outside check_preemption, only
\* when a timer tick has come in its present time slice: timer_wakeup is the
\* one wake-up without a preemption check.
InversionOnlyAfterTick ==
    At("run") /\ outranked(ready_list, priority) =>
        thread_ticks \in 1..(TIME_SLICE - 1)

\* The idle thread does not wait for an interrupt while a thread is ready:
\* what the comment on `sti; hlt' in idle() asks for.
NoIdlingWithWork ==
    At("hlt") => ready_list = <<>>

\* Every switch is to a thread of the highest priority that is ready.
SwitchToHighest ==
    [][cur' # cur =>
           \A t \in Range(ready_list') : priority'[t] <= priority'[cur']]_vars

\* sema_up takes off the list a waiter of the highest priority.
WakesHighestWaiter ==
    [][\A s \in Sema : \A t \in Range(waiters[s]) \ Range(waiters'[s]) :
           \A u \in Range(waiters[s]) : priority[u] <= priority[t]]_vars

\* timer_wakeup stops at the first sleeper that is not due.  None that is due
\* is left behind it, and none is woken early.
WakesExactlyTheDue ==
    [][/\ \A t \in Range(sleep_list) \ Range(sleep_list') :
              wakeup_tick[t] <= ticks
       /\ intr = "timer" /\ intr' = "none" =>
              \A t \in Range(sleep_list') : wakeup_tick'[t] > ticks']_vars

-----------------------------------------------------------------------------
(* The inductive invariant behind ElemOnOneList and NoThreadForgotten.     *)

\* The run queue holds the ready threads, each once, but never the idle one.
ReadyInv ==
    /\ IsInjective(ready_list)
    /\ \A t \in Thread :
           t \in Range(ready_list) <=> status[t] = "READY" /\ t # Idle

\* The sleep list holds the threads blocked in timer_sleep.
SleepInv ==
    /\ IsInjective(sleep_list)
    /\ \A t \in Thread :
           t \in Range(sleep_list) <=> status[t] = "BLOCKED" /\ pc[t] = "asleep"

\* The wait list of s holds the threads blocked in sema_down(s).
WaitInv ==
    \A s \in Sema :
        /\ IsInjective(waiters[s])
        /\ \A t \in Thread :
               t \in Range(waiters[s]) <=> /\ status[t] = "BLOCKED"
                                           /\ pc[t] = "sema_down"
                                           /\ sema[t] = s

\* One thread runs.
RunInv == \A t \in Thread : status[t] = "RUNNING" <=> t = cur

\* Where a thread can be in the kernel, given its status.
CreatePC == {"allocate_tid", "refresh_priority", "thread_unblock"}
PcInv ==
    /\ \A t \in Thread :
           /\ t = Idle <=> pc[t] \in {"idle", "hlt"}
           /\ pc[t] = "nascent" <=> t = child
           /\ pc[t] = "dead" <=> status[t] \in {"FREE", "DYING"}
           /\ pc[t] \in {"asleep", "nascent"} => status[t] = "BLOCKED"
           /\ pc[t] = "sema_down" => sema[t] \in Sema
           /\ pc[t] \in CreatePC => t = Main
           /\ status[t] = "DYING" => t = Main
           /\ status[t] = "BLOCKED" =>
                  pc[t] \in {"asleep", "nascent", "sema_down", "idle", "hlt"}
    /\ child # NoThread <=> pc[Main] \in CreatePC

\* A time slice that is over ends with the interrupt that noticed it.
SliceInv ==
    /\ intr = "none" => thread_ticks < TIME_SLICE
    /\ intr = "timer" /\ ~yield_on_return => thread_ticks < TIME_SLICE

ListInv == ReadyInv /\ SleepInv /\ WaitInv /\ RunInv /\ PcInv /\ SliceInv

(* What the lists' order adds, behind the action properties and the two    *)
(* invariants on preemption.                                               *)

\* The keys of a list's threads, from front to back.
Falling(list, key) == \A i, j \in 1..Len(list) : i < j => key[list[j]] <= key[list[i]]
Rising(list, key) == \A i, j \in 1..Len(list) : i < j => key[list[i]] <= key[list[j]]

OrderInv ==
    /\ Falling(ready_list, priority)
    /\ \A s \in Sema : Falling(waiters[s], priority)
    /\ Rising(sleep_list, wakeup_tick)

\* An interrupt ends `hlt', and only an empty run queue brings it back.
HltInv ==
    /\ pc[cur] = "hlt" => ready_list = <<>>
    /\ intr = "timer" => pc[cur] # "hlt"

\* Before the first tick of its slice, the running thread is outranked only
\* inside check_preemption, and there not once the front of the queue has
\* been read and found lower.
PreemptInv ==
    /\ intr = "timer" => thread_ticks > 0
    /\ thread_ticks = 0 /\ outranked(ready_list, priority) =>
           \/ pc[cur] \in {"cp_empty", "cp_front", "cp_yield"}
           \/ /\ pc[cur] = "cp_compare"
              /\ cand[cur] \in Thread
              /\ status[cand[cur]] # "FREE"
              /\ priority[cand[cur]] > priority[cur]

-----------------------------------------------------------------------------
(* Liveness.                                                               *)

\* A sleeper is woken, also one that took so long to go to sleep that its
\* time had passed before it was on the list.
SleepersWake ==
    \A t \in Thread :
        t \in Range(sleep_list) ~> (t \notin Range(sleep_list) \/ panic # "none")

\* Nobody that can run has a higher priority than t.
Top(t) == \A u \in Thread : status[u] \in {"RUNNING", "READY"} =>
                                priority[u] <= priority[t]

\* Round robin: a ready thread of the highest priority gets the CPU, even if
\* the others never give it up.
TopThreadRuns ==
    \A t \in Thread \ {Idle} :
        (status[t] = "READY" /\ Top(t)) ~> (cur = t \/ ~Top(t) \/ panic # "none")

-----------------------------------------------------------------------------
(* What the repository says of the code and the code does not do.          *)

\* check_preemption, "yields thread if higher priority in ready queue",
\* finds a thread at the front of the queue it has just seen not to be empty.
CheckPreemptionFindsThread == panic # "list_front"

\* thread_set_priority "Sets the current thread's priority to NEW_PRIORITY":
\* until it sets another one, the thread has that priority.
SetPriorityLasts ==
    [][\A t \in Thread :
           status[t] # "FREE" /\ priority'[t] # priority[t] =>
               cur = t /\ pc[t] = "run"]_vars

=============================================================================
