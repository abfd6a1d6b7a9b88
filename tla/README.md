# Pintos threads: TLA+ models, checks and proofs

The repository is a Pintos kernel at the stage of its threads project: the
scheduler (`src/threads/thread.c`), the synchronisation primitives
(`src/threads/synch.c`), the alarm clock (`src/devices/timer.c`) and boot
(`src/threads/init.c`). This directory models the priority scheduler, the
semaphores, the alarm clock, the locks with their priority donation, the condition
variables, the MLFQS scheduler, and booting with the calibration of the timer. It
checks them with TLC on small instances, and proves with TLAPS, for every size, the
safety of the scheduler and its semaphores, the alarm clock, MLFQS and booting,
mutual exclusion of the locks, and what condition variables do with their signals.

## The system

| part | state | operations | modelled in |
|---|---|---|---|
| priority scheduler, `thread.c` | `ready_list`, `status`, `priority`, `base_priority`, `thread_ticks`, the running thread | `thread_create`, `thread_exit`, `thread_block`, `thread_unblock`, `thread_yield`, `thread_set_priority`, `check_preemption`, `thread_tick`, `idle`, `schedule` | `PriorityScheduler` |
| semaphores, `synch.c` | `value`, `waiters` | `sema_down`, `sema_try_down`, `sema_up` (also in interrupt handlers) | `PriorityScheduler`; what they promise: `Semaphore` |
| alarm clock, `timer.c` | `ticks`, `sleep_list`, `wakeup_tick` | `timer_sleep`, `timer_wakeup`, `timer_interrupt` | `PriorityScheduler` |
| locks and donation, `synch.c`, `thread.c` | `holder`, the semaphore, `lock->waiters`, `locks_held`, `waiting_lock`, all of it linked through `elem` | `lock_acquire`, `lock_try_acquire`, `lock_release`, `donate_priority`, `refresh_priority` | `Locks` |
| condition variables, `synch.c` | `cond->waiters`, a semaphore per waiter | `cond_wait`, `cond_signal`, `cond_broadcast` | `CondVars` |
| MLFQS, `thread.c`, `timer.c` | `mlfqs_list[]`, `load_avg`, `recent_cpu`, `nice` | `mlfqs_*`, `thread_set_nice`, `thread_get_load_avg`, `thread_get_recent_cpu` | `Mlfqs` |
| fixed point, `fixed_point.h` | none | 17.14 arithmetic in an `int` | `FixedPoint` |
| calibration, delays, units, `timer.c` | `loops_per_tick` | `timer_calibrate`, `timer_*delay`, `timer_*sleep` | `Calibration` |
| boot, `init.c` | command line, options, page tables | `main`, `bss_init`, `read_command_line`, `parse_options`, `paging_init`, `run_actions` | `Boot`, `Paging` |

`lib/kernel/list.c`, `threads/interrupt.c`, `threads/palloc.c` and `switch.S` are
not in the repository. Their effects are modelled from the way the code uses
them, and marked external in `PROJECT.json`.

How the parts meet. Everything goes through one field, `elem` of `struct thread`,
which links a thread into the run queue or into one wait list; `thread.h` allows
the sharing "only because they are mutually exclusive". A semaphore blocks its
caller with `thread_block` and wakes with `thread_unblock`; the alarm clock does
the same from the timer interrupt with a list of its own, linked by `sleep_elem`.
A lock is a semaphore and a holder, and `thread_create` takes and releases one,
`tid_lock`. Waking in thread context ends in `check_preemption`, waking in an
interrupt handler in `intr_yield_on_return`, except in `timer_wakeup`, which
asks for neither.

What is hard. There is one CPU, and mutual exclusion is done by turning
interrupts off; the interesting places are those where they are on.
`check_preemption` reads the run queue with interrupts on. `timer_sleep` reads
the clock before turning them off. A woken thread has to test its semaphore
again, because anybody may have been faster. A contended `lock_acquire` turns
interrupts on in the middle, with `elem` on a list. `cond_wait` gives up the lock
before it sleeps, and `cond_signal` reads the list of waiters with interrupts on.
Boot is sequential, but each call depends on the ones before it, and calibration
depends on measurements that vary. What should hold:

- lists: `elem` is on one list at a time, and every thread that is ready or
  blocked is where somebody will find it;
- scheduling: a switch is to the highest priority, equals take turns, and a lower
  thread keeps the CPU only where the code lets it;
- semaphores: no `sema_up` is lost, and the highest waiter goes first;
- alarm clock: each tick wakes exactly the threads that are due;
- MLFQS: priorities are recomputed under the feet of ready threads, and each must
  still be found in the queue of its priority; no inversion lasts;
- locks: one owner, donations that reach every holder on the way, releases that
  hand the lock over;
- condition variables: no signal is lost in the gap, and the highest waiter gets it;
- boot: the kernel is what the command line asks for, all RAM is mapped, the timer
  is calibrated to a known precision, and booting ends.

## Modules

| module | contents |
|---|---|
| `PriorityScheduler` | scheduler, semaphores, alarm clock; properties and the inductive invariant |
| `MCPriorityScheduler` | symmetry and view for TLC |
| `Semaphore` | abstract counting semaphore, implemented by `PriorityScheduler` |
| `QueueLemmas` | lemmas on `list_pop_front`, `list_push_back` and `list_remove`, as operations on sequences, the least element of a set of naturals, induction on such sets and functions given by a step |
| `PriorityScheduler_proofs` | theorems on `PriorityScheduler`: types, who is on which list, the order of the lists, who runs, who is woken, preemption |
| `SemaphoreRefinement` | that the semaphores of `PriorityScheduler` implement `Semaphore` |
| `Locks` | locks and donation on linked list elements |
| `MCLocks` | symmetry for TLC |
| `CondVars` | condition variables, composed with `Locks` |
| `MCCondVars` | symmetry for TLC |
| `Locks_proofs` | theorems on `Locks` that hold of damaged lists too: exclusion, types, no handover, who loses a donation |
| `Donation_proofs` | theorems on `Locks` where lists are whole: donation, and a kernel without contention |
| `CondVars_proofs` | theorems on `CondVars`, built on the two modules before |
| `FixedPoint` | the arithmetic of `fixed_point.h` |
| `Mlfqs` | the MLFQS scheduler and its part of the timer interrupt |
| `MCMlfqs` | symmetry and view for TLC |
| `Mlfqs_proofs` | theorems on `Mlfqs`, with their inductive invariant |
| `Calibration` | the search for `loops_per_tick`, and the delays computed from it |
| `Paging` | the page tables of `paging_init` |
| `Boot` | `main`, composed with `Calibration` and `Paging` |
| `MCBoot` | command lines for TLC |
| `Boot_proofs` | theorems on `Boot`, `Paging` and `Calibration` |

### PriorityScheduler

`cur` is the thread on the CPU and `pc[t]` the place in the kernel where thread
`t` is or will go on. A step is a stretch of code with interrupts off, or one
access to shared state with interrupts on. So `sema_down` is one step up to the
switch and one step after each wake-up, `timer_sleep` is two (reading the clock;
the rest), and `check_preemption` is four: test for an empty queue, `list_front`,
the comparison, the yield. `check_preemption` keeps the thread it read in
`cand[t]`. If that thread has exited by the time of the comparison its page may
hold anything, so the result of the comparison is arbitrary.

The variables carry the names of the C fields. `status[t] = "FREE"` is a page
without a thread: `thread_create` takes one, and `thread_schedule_tail` frees the
page of a dying thread. `intr = "timer"` while `timer_interrupt` runs; each
round of the loop of `timer_wakeup` is a step, but nothing else can run in
between. `DeviceInterrupt` is a handler that calls `sema_up`, whatever the device.
`panic` is set where `list_front` asserts.

Two simplifications. Only `Main` creates threads, so `tid_lock` is taken and
released without contention (`AllocateTid`, `RefreshPriority`); a contended lock
is the subject of `Locks`. And lists are sequences: this is what a linked list
stands for as long as `elem` is on one list at a time, which is proved
(`ElemIsShareable`), and which `Locks` does not assume.

The specification starts after `thread_start` has returned: `main` runs, and the
idle thread has run once, yielded inside `sema_up` and is off the run queue.

`Semaphore` is the promise of a semaphore without a scheduler: a count, a set of
threads that wait, and a set of threads woken and on their way. A woken thread has
no claim to the unit that woke it. `ImplementsSemaphore` maps the count to
`value`, the waiting threads to `waiters` and the woken ones to the threads that
have left the list and have not yet tested again. It is a statement about safety.
Liveness does not carry over: under strict priorities a woken thread may never get
the CPU.

### Locks

A contended `lock_acquire` puts `elem` on `lock->waiters`, and then `sema_down`
puts the same `elem` on `lock->semaphore.waiters`. What happens next depends on
pointers, so `link` is the memory of all list elements, heads and tails, and
`list_insert`, `list_remove` and the walks do what the pointer assignments do.
A walk that arrives at the tail of another list panics in `list_next`; one that
goes round in a circle hangs; a priority read from a list tail is arbitrary.
`outcome` records the end. A thread is asleep at first and `TimerWakeup` brings it
in at any time; `Preempt` is the end of a time slice. Both need interrupts on.
`check_preemption` is one step here: its finer grain is in `PriorityScheduler`.

### CondVars

`CondVars` extends `Locks`, so the lock of a condition variable is the lock the
code has, with all it does under contention. `stage[t]` is the place in `cond_wait`
or `cond_signal`; within a stage the calls of `lock_release`, `sema_down`,
`lock_acquire` and `check_preemption` are the actions of `Locks`, with their own
`pc`. A thread stands for the `semaphore_elem` it has on the stack: the element is
an entry of the sequence `cond_waiters[c]` (it has a link field of its own), and
the semaphore is one more semaphore of `Locks`, whose wait list is in `link` and
shares `elem` with everything else. `list_max` is one comparison per step, because
interrupts are on; `cond_broadcast` is `cond_signal` until the list is empty.

### Mlfqs

`Mlfqs` is the kernel booted with `-mlfqs`. The grain is that of
`PriorityScheduler`: `mlfqs_check_preemption` in a thread looks at one queue per
step, and `thread_set_nice` computes the priority in one step and stores it in
another, because interrupts are on. The timer interrupt is several steps, during
which nothing else runs: `thread_tick`, a step per thread that `timer_wakeup`
wakes, `mlfqs_update_priority_all`, a step per thread that
`mlfqs_reorganize_queues` takes off and puts back, and the rest with the return.
`intr` says which comes next.

Semaphores and sleeps are open: a blocked thread can be woken by any thread, by a
handler or by a tick. This is more than the code allows, and the properties hold
nevertheless. As in `PriorityScheduler`, only `Main` creates threads, so a lock is
never contended: `LockRelease` and `RefreshPriority` stand for taking and releasing
any free lock.

The model keeps what is surprising in the code:

- `refresh_priority` sets the priority to `base_priority` at each `lock_release`,
  so a thread that takes locks has a computed priority only until then;
  `main` starts out with its `base_priority` because creating the idle thread took
  `tid_lock`;
- `thread_set_priority` works under MLFQS and checks for preemption in `ready_list`,
  which is always empty;
- the idle thread's priority is computed before `idle_thread` is set and remains
  at `PRI_MAX`; nothing compares with it but `mlfqs_check_preemption` while the
  idle thread runs, so a woken thread waits until the idle thread blocks
  again;
- in the tick that begins a second, priorities come before `recent_cpu`, and
  `recent_cpu` before `load_avg`.

`load_avg` stays below the number of threads and `recent_cpu` within a few
thousand, a small part of what 17.14 holds, so their arithmetic is on unbounded
integers. The product by 100 in `thread_get_recent_cpu` and `thread_get_load_avg`
and the rounding after it are the exception: they are reduced to the width of an
`int` (`int` in `FixedPoint`), and `ReadsHundredfold` says up to where the result
is right.

### Boot, Paging and Calibration

`Boot` is `main` as built for the threads project, without `USERPROG`, `FILESYS`
and `VM`. A word of the command line is its name, its value and its length; what
matters of the bytes is where a word starts, whether the word begins with `-`, and
whether there is a value. Before `bss_init` the variables hold anything.
`random_init` is external, from its use: the comment in `parse_options` says that a
second call has no effect. A task may bring the kernel down; that it comes
back otherwise is an assumption (see Fairness).

A word may be empty, and the last may be cut off by the end of the loader's space.
`argv` has `LOADER_ARGS_LEN / 2 + 1` entries, enough for words of two bytes each with
the byte for their end. The loop stops when the bytes run out and does not look
at the number of words, and an empty word takes one byte: 65 empty words fit in
the 128 bytes of `loader.h` and need 66 of the 65 entries. The outcome of the model is then
`overrun`, and it stops, as nothing is known of memory any more; `ArgvFits` says that
this takes an empty word. This is a weakness of the code, and not a disagreement with
what it says: its one message, `command line arguments overflow`, is about the bytes.

The option is `-mlfqs` in `parse_options` and in `usage`, and in the model; the comments at
`thread.c:62` and `thread.h:125` call it `-o mlfqs`, which is an unknown option.

`Paging` has one step per round of the loop of `paging_init`. The local `pt` is the
table made last, so a page goes there and not to the table its directory entry
points to; `RamMapped` reads the tables the way the MMU does and finds
that the two agree. The pool may run out.

`Calibration` has one step per measurement. A machine does `speed` loops in a tick,
and a measurement may find up to `Jitter` fewer. So the same number of loops may be
too many once and not the next time. `CalibrationClosesIn` bounds the error
nevertheless. The value the search starts from, 1024, is not measured, and is what a
slower machine ends up with. The comment in the code speaks of refining 8 bits; the
loop tries 9.

The products in `real_time_delay` and `real_time_sleep` are those of an `int64_t`
(`int64`). `loops_per_tick * num` may be too large for one, and then nothing is said of the delay. When it is
not, dividing by 1000 before the product with `TIMER_FREQ` keeps that in range too,
since a `#error` in `timer.c` limits the frequency to 1000; this is what the comment in
`real_time_delay` claims, and `DelaysRoundDown` shows. In the kernel the first product is in range
when `real_time_sleep` busy waits for less than a tick: `num` is then below 10^7, and
`loops_per_tick` has 32 bits.

Definitions marked `Wrong` in all modules are faults for the mutation check: the
definition after it is replaced by the wrong one, and the property named in
`PROJECT.json` must fail.

## Runs

Passing runs.

| run | what it shows |
|---|---|
| `sched` | `TypeOK`; `ElemOnOneList`: the condition for sharing `elem`; `NoThreadForgotten`: a ready thread is on the run queue, a blocked one on the list it waits on; `NoLostWakeup`: while threads wait, each unit of the value has a woken thread on its way to it; `ImplementsSemaphore`; `WakesHighestWaiter`; `SwitchToHighest`; `WakesExactlyTheDue`: no tick ends with a due sleeper left, none is woken early; `NoIdlingWithWork`: `hlt` only with an empty run queue; `InversionOnlyAfterTick`: a lower thread keeps the CPU past its own calls only within a time slice in which a tick has come |
| `sched_liveness` | `SleepersWake`, also for a thread that goes on the list after its own time; `TopThreadRuns`: round robin among the highest |
| `locks_donation` | without contention lists are intact and nothing panics (`IntactWhileFree`, `RunsWhileFree`); `Donated`: a waiter is never above the holder it waits for; `DisorderByDonation`: a thread that stands behind a lower one on the run queue was raised there; `NeverHandedOver`: no contended lock changes hands in this code |
| `locks_exclusion` | `OneOwner`: value and owners of a lock add up to one, with `lock_try_acquire` and preemption inside it; `DonationLostByHolder`: nobody but the holder takes a donation away, by `thread_set_priority`, or by releasing another lock when this one is missing from `locks_held` |
| `condvars` | `CondTypeOK`; `OneOwner` with three threads; `NoSignalLost`: a thread in `cond_wait` is listed, picked by one signaller or has its semaphore raised once, one of the three; `SignalledAwake`: one whose semaphore is raised is not asleep on it; `WaitersGuarded` and `ListStableInSignal`: the lock alone protects `cond->waiters`, and is enough; `SignalsHighest` |
| `mlfqs` | `TypeOK`, with priorities that index a queue; `QueueOfPriority`: whenever a thread can look, the ready threads are in the queues of their present priorities; `SwitchToHighest`; `NoInversionAfterUpdate`: what `thread_set_priority`, `lock_release` and `timer_wakeup` do to the order ends with the fourth tick; `ReadsHundredfold` |
| `boot` | `TypeOK`; `ArgvFits`: `argv` is overrun only if a word is empty, never by the number of words that are not, nor by one that is cut off; `OptionsHonoured`: after parsing the kernel is what the options say, whatever was in memory, and the lists are those of the scheduler in use; `RunsTheLine`: tasks in order, each once, and all of them if `shutdown` is reached; `RamMapped`; `CalibrationClosesIn`; `DelaysRoundDown`: delays are right up to rounding, and no product but the first can overflow; `BootEnds`: every loop of `main` ends if the tasks do |

Runs that end in a violation: what the repository says and the code does not do.

| run | counterexample |
|---|---|
| `preempt_front` | `check_preemption` sees a non-empty run queue, the slice ends, the other thread runs and leaves it empty, `list_front` panics |
| `set_priority` | `thread_set_priority` leaves `base_priority`; the `lock_release` in `thread_create` brings the old priority back |
| `locks_release` | the release of a contended lock panics on its way over `lock->waiters` |
| `cond_signal` | two threads are in `cond_wait`, one of them past `lock_release` and not yet asleep; a third signals, and `cond_sema_priority_cmp` calls `list_front` on a semaphore without a thread |
| `locks_try` | a lock from `lock_try_acquire` cannot be released: it is not on `locks_held` |

The lock findings agree with `design.txt`, which lists the donation tests as
failing. Three weaknesses of the code are stated by properties that hold, because
they say how far the weakness goes: `timer_wakeup` does not preempt
(`InversionOnlyAfterTick`), `donate_priority` leaves a raised thread in its place on
the run queue (`DisorderByDonation`), and `thread_set_priority` overwrites a donated
priority (`DonationLostByHolder`; `Donated` is checked without it). `DonationLostByHolder` also
names a second consequence of the omission in `lock_try_acquire`: `refresh_priority`
does not see the waiters of such a lock.

### Bounds

`PriorityScheduler` runs with four pages: main, idle and two threads that may be
created, exit and be created again, so three threads compete. Two priorities
give a lower, an equal and a higher one for every comparison, and with three threads
on a list every place of insertion. A time
slice of 2 ticks has a tick that ends it and one that does not. `MaxTicks` stops
the clock while interrupts go on: a thread may fall asleep too late by a tick or
more (`Durations` {1, 2} with `MaxTicks` 2). `MaxValue` 2 lets two
ups come before a woken thread has run. `sched_liveness` has one thread besides main and idle, and no
symmetry.

The view `Live` leaves out fields that no later step reads (the priority of a free
page, the `wakeup_tick` of a thread that is not asleep), so states that differ in
them only are explored once. Symmetry is over the created threads.

`Locks` runs with three threads and two locks, enough for a chain of two
donations and for a deadlock of two; two threads and one lock suffice for most
findings. `locks_exclusion` has two threads and two locks, one of them tried, so that
a thread can release one lock while a waiter has donated for the other. `NULL`-linked elements and empty lists are the initial state. Deadlock is
not checked there: threads that wait for each other's locks, and a kernel that has
panicked, do stop. `PriorityScheduler` has no deadlock: a panicked kernel
stutters in `Halt`, any other can take an interrupt.

`CondVars` runs with three threads, one lock and one condition variable: two waiters
and a signaller, or a waiter and a race for the lock. Two priorities, set at any
time, decide who is signalled. With a second lock a donation between two
comparisons of `list_max` could raise a waiter after it was passed over; with one
lock the signaller holds it and waiters wait for nothing else, and `SignalsHighest`
is about that case. After a contended release the kernel has panicked, so what follows
a signal is explored for the cases in which the lock is free when the waiter comes back.

`Mlfqs` runs with main, idle and two threads, two priorities, nice values 0
and 1 and four ticks. With `TIMER_FREQ` 4 the fourth tick recomputes priorities,
`recent_cpu` and `load_avg` and ends a time slice; slices that ended early put a
thread's slice and the fourth tick out of step, so both reasons to yield occur
alone. `PRI_MAX` is 1, and four ticks of `recent_cpu`, or a nice value of 1, take
a thread from the higher queue to the lower. `F` is 64: it has to be
above 60 for the load average to be anything but 0. `INT_RANGE` is 2^15, so that a
`recent_cpu` of three ticks is beyond what 100 times it can be, as 1311 is with the real
numbers. Deadlock is not checked: after
the last tick an idle machine has nothing left to do.

`Boot` runs over all lines of up to three words from ten (each option, with and
without a value, an unknown one, `run`, another word), two lines of two `run`s, and
lines of 4 to 8 one-letter words. With `LOADER_ARGS_LEN` 14, `argv` has 8 entries, and
7 words fill the loader's space to the last byte; longer words are cut off there. Lines of three words
with empty ones among them, and of 7 to 10 words that begin with 1, 4 or 10 empty
ones, overrun `argv` at a word, at the `NULL` after the last, or not at all. `Speeds` are below and at the
start of the search, at and next to a power of two, in between, and so fast that the
bit is shifted out (`MODULUS` is 2^13). `START`, `FRACTION` and `TIMER_FREQ` are the real ones.
`INT64_RANGE` is 2^25: without the scaling most of the longer delays would overflow, and with it only
the longest does, on the fastest machine.
Page tables of 3 entries with 2, 3 and 7 pages of RAM give a table that is not
full, one just full, and several; pools of 2 and 4 pages are too small for some of
them and just enough for others. Deadlock is not checked: `main` ends.

### Fairness

`WF(Continue)`: the CPU executes; a call once made goes on when its thread runs.
Nothing is assumed of `Call`, so a thread may compute for ever.
`SF(TimerInterrupt)`: the timer does not stop, and the interrupt controller keeps
a tick pending while interrupts are off. Weak fairness would not do, because
the steps with interrupts off disable it again and again. In `Boot`, `WF(Next)`: the
CPU executes, ticks come, and a task comes back or panics.

## Proofs

The inductive invariants were checked by TLC on the instances of the runs, but for their
parts that say that a list is whole: these quantify over ranks, and TLC checks
`WellLinked`, which says the same of a walk.

### The scheduler's lists

In `PriorityScheduler_proofs`, for every set of threads and semaphores, any
`PRI_MAX`, `TIME_SLICE`, durations and bounds, from `ThreadAssumption` (main and
idle are two threads, the null pointer is none), `SemaAssumption` and
`NumberAssumption`.

| theorem | statement |
|---|---|
| `Invariance` | `Spec => []IInv`, the inductive invariant |
| `TypeCorrect` | `Spec => []TypeOK` |
| `ElemIsShareable` | `Spec => []ElemOnOneList` |
| `NoneForgotten` | `Spec => []NoThreadForgotten` |

`ElemOnOneList` alone is not inductive. Whether `thread_unblock` may insert a
thread depends on that thread being on no other list, which depends on its status
and on the call it is in. So `ListInv` says exactly what is on each list:
the run queue holds the ready threads but the idle one (`ReadyInv`), the sleep list
those blocked in `timer_sleep` (`SleepInv`), `waiters[s]` those blocked in
`sema_down(s)` (`WaitInv`); one thread runs (`RunInv`); and `PcInv` relates `pc`
to `status`, so that, for instance, the thread unblocked at the end of
`thread_create` is blocked and on no list. `TypeOK` bounds `thread_ticks`, which
needs `SliceInv`: a slice that is over is ended by the very interrupt that counts
it. The proof has a lemma for each action; the first lemmas of the module and
`QueueLemmas` say what ordered insertion, `Tail` and `Append` do to `Range` and
`IsInjective`.

### MLFQS

In `Mlfqs_proofs`, for every finite set of threads, any number of priorities, nice
values, time slice, timer frequency and fixed-point unit, from `ThreadAssumption`,
`NumberAssumption` and `FAssumption`:

| theorem | statement |
|---|---|
| `Invariance` | `Spec => []IInv`, the inductive invariant |
| `TypeCorrect` | `Spec => []TypeOK` |
| `ReadsAreNearest` | `Spec => []ReadsHundredfold` |
| `ReadyInItsQueue` | `Spec => []QueueOfPriority` |
| `HighestTaken` | `Spec => SwitchToHighest` |
| `InversionEnds` | `Spec => NoInversionAfterUpdate` |

`QueueOfPriority` speaks of states in which no timer interrupt is under way, so
the invariant has to say what the queues hold within it: while the queues are
emptied, each ready thread is in one queue or in `temp_list` (`Collecting`); while
they are filled, the threads not in `temp_list` are where they belong (`Filling`);
when all queues are empty the first implies the second, and when `temp_list` is
empty the second implies that the queues are in order (`Consistent`). `PcInv`
again ties `pc` to `status`. The effects of `schedule`, `thread_yield` and
`thread_unblock` on consistent queues are lemmas of their own, and each action's
lemma cites one of them. From `Consistent` it follows that the front of the highest
queue has the highest priority, which is `HighestTaken`. That `load_avg` is never
negative is needed for the division in `mlfqs_update_recent_cpu`.

`ReadsAreNearest` (`Spec => []ReadsHundredfold`) is arithmetic: the reduction to an
`int` does nothing up to the limit, and the two divisions by `F`, one for each
sign, are off by half a unit at most. The limit is stated on both sides: with negative nice
values `recent_cpu` may be negative.

### The order of the lists

The second half of `PriorityScheduler_proofs` starts from `IInv` and has the same
assumptions.

| theorem | statement |
|---|---|
| `ListsInOrder` | `Spec => []OrderInv` |
| `HighestRuns` | `Spec => SwitchToHighest` |
| `HighestWaiterWoken` | `Spec => WakesHighestWaiter` |
| `DueAreWoken` | `Spec => WakesExactlyTheDue` |
| `PreemptionInvariance` | `Spec => []` of `HltInv` and `PreemptInv` |
| `NeverIdlesWithWork` | `Spec => []NoIdlingWithWork` |
| `InversionBounded` | `Spec => []InversionOnlyAfterTick` |

`OrderInv`: the run queue and the wait lists fall in priority, the sleep list rises
in `wakeup_tick`. That holds because a priority changes only for the running
thread, which is on no list: here the order rests on `IInv`. An insertion into an
ordered list leaves it ordered (`list_insert_ordered` puts the element before the first that
is worse), so the front is the best, which is what `HighestRuns`,
`HighestWaiterWoken` and, for the loop of `timer_wakeup`, `DueAreWoken` need.
`NoIdlingWithWork` and `InversionOnlyAfterTick` are about what can come between two
calls, and are not inductive. `HltInv` adds that an interrupt ends `hlt` before it makes anybody ready.
`PreemptInv` says which thread the running one has read in
`check_preemption`: before the first tick of its slice, a thread that is outranked has yet to
look at the queue, or is about to compare itself with a thread above it, or is about to
yield. That the front of the queue is such a thread is `OrderInv`.

### Semaphores

In `SemaphoreRefinement`: `SemaphoresImplemented`, that `Spec` implies
`ImplementsSemaphore`, and `NoUpIsLost`, `Spec => []NoLostWakeup`. A step of the
scheduler maps to a step of `Semaphore` or leaves it alone, with a lemma per kind of
step; which threads are waiting and which woken follows from `WaitInv` and `PcInv`, two
parts of `IInv`. `NoLostWakeup` is then proved from the steps of `Semaphore` alone (`CountInv`: the woken
threads are finitely many, and at least as many as the count if threads wait).
An up with threads waiting adds one to both; a woken thread that tests again takes
from both, or finds the count at 0 and waits again; and a thread that barges in takes
from the count only.

### Locks

`Locks_proofs` and `Donation_proofs` are for every finite set of threads and locks and
every `PRI_MAX`, from `DistinctAssumption`, `ArgumentAssumption` and `NodeAssumption`:
an `elem` is not the head or the tail of a list, which in C are different places
in memory.

| theorem | statement |
|---|---|
| `MutualExclusion` | `Spec => []OneOwner` |
| `LockTypes` | `Spec => []TypeOK` |
| `NeverHanded` | `Spec => NeverHandedOver` |
| `DonationLost` | `Spec => DonationLostByHolder` |
| `DonationReaches` | `Spec => []Donated`, if `TryLock` and `NewPriority` are empty |
| `FreeKernelRuns` | `Spec => []RunsWhileFree`, if `TryLock` is empty |
| `FreeListsIntact` | `Spec => []IntactWhileFree`, if `TryLock` is empty |
| `FreeQueueOrdered` | until a lock is found held the run queue falls in priority, if `TryLock` is empty |

The hypotheses say what the threads call, and the instance of `locks_donation` satisfies
them. They are needed: `locks_try` shows a kernel that stops without contention, and `DonationLostByHolder` names the two ways to lose a donation, which
are `thread_set_priority` and `lock_try_acquire`.

*Damaged lists.* The lists of a contended lock are damaged in this code, so the
theorems of `Locks_proofs` do not depend on what the lists hold. Mutual exclusion
needs nothing of them, because `sema_down` tests the value after every wake-up, whoever
was woken. `OwnerInv` has what it does need: the value of a lock's semaphore is 1 and
nobody owns the lock, or 0 and one thread does; an owner is the `holder`, or
`lock_try_acquire` has the semaphore and has not yet assigned `holder`; and a thread that
acquires or holds a lock knows it (`lock[t]`).

`LockTypes` needs that no list operation follows a null pointer. `LinkOK` says so:
elements that have been on a list, heads and tails lead to one another. Every insertion and
removal keeps that, wherever it happens, because threads and locks are never on lists of
the same kind. What a walk meets (`PathWalks`) is then a sequence of such
elements, cut off when it is longer than there are elements. The walk is a recursive function; that it exists and
what it is was proved with `Iterates`, an existence theorem for functions
given by a step, itself proved by the least counterexample.

`NeverHanded` needs the shape of the damage (`Memory`). A contended `lock_acquire` puts
`elem` on `lock->waiters` and then moves it on. As long as
the running thread is between the two, its `elem` alone leads to the tail of that list
(`FreshOn`); after the second insertion nothing does (`Cut`), and nothing will again, because an
insertion makes an element lead only to a node that the walk before it has met.
Until then the list is `Untouched`. That only the head leads to the fresh `elem` needs that
the thread was on no other list when it came; so `Memory` also says that a thread that has
never found a lock held is on one list at most (`Clean`, `Backed`), and on none while it runs
or has not yet run (`Loose`). `WaitInv` joins this with what the threads do
(`Waits`), and `LockInv` with types and owners. So `lock_release` of a contended lock stops
in its walk, and `waiting_lock` is never cleared.

`DonationLost` follows: `donate_priority` goes up the chain of holders before the thread
sleeps, a priority falls only in `thread_set_priority` and `refresh_priority`, and
`refresh_priority` of a thread whose list of locks shows the lock takes in its waiters or stops.

*Lists that are whole.* `Donated` needs more, that `refresh_priority` does see every lock the
thread holds. `Whole(m, list, S)` says that the list holds `S`, linked both ways,
by giving every node a rank that rises along `next`; that makes it a property of
each pointer, with no induction in its statement, and an insertion makes
room by adding one to the ranks behind it. `ChainWalk` says that a
walk over such a list comes to its tail and meets exactly `S`.
`HeldInv` is that for `locks_held`, which contention does not damage.

`FreeInv` adds, until the first contention, `Free`: the kernel has not stopped, the run
queue is whole and holds the ready threads, and nobody is on another list (`Tidy`).
`FreeOrder` adds that no element of the run queue leads to one of a higher priority
(`Falls`); a priority changes only for the thread that runs, which is not on the queue, and
`list_insert_ordered` finds the place (`OrderedPlace`). These
invariants end with the first contention because the lists are then damaged:
that is the finding of `locks_release`.

### Condition variables

`CondVars_proofs` is for every finite set of threads and locks, every set of condition variables
and every assignment of locks to them.

| theorem | statement |
|---|---|
| `MutualExclusionWithConds` | `CondSpec => []OneOwner` |
| `GuardInvariance` | `CondSpec => []GuardInv` |
| `ConditionGuarded` | `CondSpec => []WaitersGuarded` |
| `ListStable` | `CondSpec => ListStableInSignal` |
| `SignalsAccounted` | `CondSpec => []NoSignalLost` |
| `CondTypesHold` | `CondSpec => []CondTypeOK` |
| `NeverHandedToWaiter` | `CondSpec => NeverHandedOver` |
| `FreeSignalWakes` | until a lock is found held, `SignalledAwake`, and the kernel stops in `list_front` or nowhere, if `TryLock` is empty |
| `FreeCondListsIntact` | `CondSpec => []IntactWhileFree`, if `TryLock` is empty |

`GuardInv` is `WaitersGuarded` with `OwnerInv` and `StageInv`, which says where in
`Locks` a thread is at each stage of `cond_wait` and `cond_signal`, and that the lock it
waits for at the end is that of the condition variable. `ListStable` follows: whoever
changes the list is the holder, and so is the signaller.
`SignalInv` accounts for signals: `ListSound` (a list holds threads that wait on it, each
once) and `Accounted` for each thread (what `list_max` has met is on the list; who is about
to be signalled has left it and was not signalled before). It
is inductive only together with `GuardInv`: two signallers at once could pick the same
waiter. `list_remove` on a sequence is `RemoveFirst`; the proofs do not expand it.

`CondWaitInv` is `WaitInv` with one more part (`Aside`): a thread that waits for a
lock is at the end of `cond_wait` or outside. So the `list_init` of a semaphore in
`cond_wait` and the `sema_down` on it do not touch the lists of a contended lock, and the
argument of `NeverHanded` goes through. `CondFreeInv` is `FreeInv` with sleepers: a
thread that sleeps in `cond_wait` is alone on the list of its own semaphore, and it does not
sleep if that semaphore is up, because `sema_up` finds it at the front of that list.

### Boot

`Boot_proofs` is for every set of command lines, options, sizes of memory, pools,
entries of a page table, kernel text, speeds, jitter, amounts of time, timer frequencies and
widths of an unsigned and an `int64_t`, from `LineAssumption` (the loader's space has an
even number of bytes), `OptionAssumption`, `PagingAssumption` and `CalibrationAssumption`.

| theorem | statement |
|---|---|
| `BootInvariance` | `Spec => []BootInv`, the inductive invariant |
| `BootTypes` | `Spec => []TypeOK` |
| `ArgumentsFit` | `Spec => []ArgvFits` |
| `SettingsHonoured` | `Spec => []OptionsHonoured` |
| `TasksOfTheLine` | `Spec => []RunsTheLine` |
| `MemoryMapped` | `Spec => []RamMapped` |
| `CalibrationBrackets` | `Spec => []CalibrationClosesIn` |
| `DelaysBounded` | `Spec => []DelaysRoundDown` |

`BootInv` has an invariant for each loop. `ReadInv`: the words read take two bytes each
unless one is empty, and `p` is at most one byte past the end of the space, when the last
is cut off. That one byte is why the size has to be even: with an odd one, a last word that
is cut off could be one too many. Hence `ArgvFits`. `ParseInv`: the settings are those the options before `argv[i]` ask
for; at the end of the options `i` is `Leading`, and `ParseInv` becomes `OptionsHonoured`. It needs
that after `bss_init` nothing is set. `ActionInv`: `i` is two words further for each task run.
`PagingInv`: entry `n` of the directory is table `n + 1` if a page
before the present one is in it, and there are as many tables as that; so the table made
last is the one for the present page (`TableCount`), which is what makes `pt` in
`paging_init` right. `CalInv`: `test_bit` is one of the ten bits below `high_bit`; what
is kept was measured to fit, and what was not kept was measured not to, up to the jitter.
`DelaysRoundDown` follows from that `loops_per_tick` is not 0, by the two divisions,
and from `InRange`: after the first product nothing overflows.
That `Leading` and `Good` exist is proved from the least element of a set of naturals (`LeastNat`) in place of
induction.

### Only model-checked

- Liveness (`SleepersWake`, `TopThreadRuns`, `BootEnds`): it needs fairness, which is
  out of the prover's reach.
- `DisorderByDonation` after a contention: it speaks of run queues that were damaged
  and happen to be whole again, and then depends on which insertions the damage
  allowed. Before, it follows from `FreeQueueOrdered`.
- `SignalledAwake` after a contention: whether a sleeper is found at the front of its own
  semaphore then depends on the walks of other threads over damaged lists. Before,
  it is `FreeSignalWakes`.
- `SignalsHighest`: with several locks a thread may be on the list while it holds another lock,
  and be raised by a donation between two comparisons of `list_max`. So this is a property of
  kernels with one lock, like the instance of `condvars`, and no theorem for all.

## Not modelled

- The parts of `init.c` that only the `USERPROG`, `FILESYS` and `VM` builds have: user
  processes, block devices, the file system's actions. The threads project builds none
  of them, and the code they call is not in the repository.
- `busy_wait` itself, whose time is the machine's; a delay is its number of loops.
- The self-test of semaphores, `thread_foreach` as such (it is inside the MLFQS
  actions), and the functions that return a field.
- Statistics, names, the magic number and the stack check of `thread_current`.
- Non-maskable events, and tick counts that overflow 64 bits.

## Plan

`PriorityScheduler`, `Locks`, `CondVars`, `FixedPoint`, `Mlfqs`, `Semaphore`,
`Calibration`, `Paging` and `Boot` are modelled, checked and have their safety properties
proved, with the exceptions above. If the code is mended so that a waiter has two
list elements, `Contended` goes from the theorems on whole lists: `Tidy` then has to say who
is on `lock->waiters` and on the semaphore of a lock, as `CondFree` already does for the semaphores
of `cond_wait`.
