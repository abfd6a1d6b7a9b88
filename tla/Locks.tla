------------------------------- MODULE Locks -------------------------------
(***************************************************************************)
(* The locks of threads/synch.c with the priority donation of              *)
(* threads/thread.c.  A contended lock_acquire links the same `elem' of a  *)
(* thread into lock->waiters and then into lock->semaphore.waiters, so     *)
(* here lists are not sequences: `link' is the memory of the list          *)
(* elements, and list operations do what their pointer assignments do.     *)
(*                                                                         *)
(* One thread runs at the start and the others are asleep until their time *)
(* comes.  Preempt is the end of a time slice, which PriorityScheduler     *)
(* counts in ticks.                                                        *)
(*                                                                         *)
(* A definition marked `Wrong' is a fault put in to see that a property    *)
(* notices it; no action uses it.                                          *)
(***************************************************************************)
EXTENDS Integers, SequencesExt

CONSTANTS
    Thread,         \* threads other than the idle thread
    Idle,           \* idle_thread
    Lock,           \* locks, each standing for its `elem' as well
    NULL,           \* the null pointer
    PRI_MAX,        \* 63 in thread.h
    TryLock,        \* locks that lock_try_acquire is called for
    NewPriority     \* what thread_set_priority is called with

ASSUME DistinctAssumption ==
    /\ Idle \notin Thread \union Lock
    /\ Thread \intersect Lock = {}
    /\ NULL \notin Thread \union Lock \union {Idle}

ASSUME ArgumentAssumption ==
    /\ PRI_MAX \in Nat
    /\ TryLock \subseteq Lock
    /\ NewPriority \subseteq 0..PRI_MAX

Priority == 0..PRI_MAX

\* A lock stands for its semaphore, a thread for the semaphore that its
\* cond_wait has on the stack (only CondVars uses it).
Sema == Lock \union Thread

VARIABLES
    cur,            \* running_thread()
    status,         \* t->status
    priority,       \* t->priority
    base_priority,  \* t->base_priority
    waiting_lock,   \* t->waiting_lock
    pc,             \* where t is in the kernel
    lock,           \* the lock that t's present call is about
    holder,         \* l->holder
    value,          \* the value of every semaphore
    link,           \* prev and next of every list_elem
    outcome         \* "ok", or how the kernel stopped

threadVars == <<priority, base_priority, waiting_lock, pc, lock>>
vars == <<cur, status, threadVars, holder, value, link, outcome>>

-----------------------------------------------------------------------------
(* lib/kernel/list.c                                                       *)

ready_list == <<"ready_list", NULL>>
waiters(l) == <<"lock->waiters", l>>
sema_waiters(s) == <<"semaphore.waiters", s>>
locks_held(t) == <<"locks_held", t>>

List == {ready_list} \union {waiters(l) : l \in Lock}
            \union {sema_waiters(s) : s \in Sema}
            \union {locks_held(t) : t \in Thread}

head(list) == <<list, "head">>
tail(list) == <<list, "tail">>
Tails == {tail(list) : list \in List}
Node == Thread \union Lock \union Tails \union {head(list) : list \in List}

\* The head and the tail of a list are elements of their own.
ASSUME NodeAssumption ==
    /\ IsFiniteSet(Thread \union Lock)
    /\ (Thread \union Lock \union {NULL})
           \intersect (Tails \union {head(list) : list \in List}) = {}

list_init(m, list) ==
    [m EXCEPT ![head(list)] = [prev |-> NULL, next |-> tail(list)],
              ![tail(list)] = [prev |-> head(list), next |-> NULL]]

begin(m, list) == m[head(list)].next
empty(m, list) == begin(m, list) = tail(list)

list_insert(m, before, elem) ==
    [m EXCEPT ![elem] = [prev |-> m[before].prev, next |-> before],
              ![m[before].prev].next = elem,
              ![before].prev = elem]

list_push_back(m, list, elem) == list_insert(m, tail(list), elem)

\* An elem that was never on a list is not `interior'.
is_interior(m, elem) == m[elem].prev # NULL /\ m[elem].next # NULL

list_remove(m, elem) ==
    [m EXCEPT ![m[elem].prev].next = m[elem].next,
              ![m[elem].next].prev = m[elem].prev]

\* Following `next' from the head: the elements met, up to and including the
\* first tail, of whichever list, or the first one met before, which is at
\* the latest the one after all threads and locks.
path(m, list) ==
    LET most == Cardinality(Thread \union Lock)
        met[n \in 0..most] ==
            IF n = 0 THEN <<begin(m, list)>>
            ELSE LET p == met[n - 1]
                 IN IF Last(p) \in Tails \union Range(Front(p))
                    THEN p
                    ELSE Append(p, m[Last(p)].next)
    IN met[most]

\* How a loop over the list ends: list_next panics at the tail of another
\* list, and a cycle is never left.
LoopEnd(m, list) ==
    CASE Last(path(m, list)) = tail(list) -> "ok"
      [] Last(path(m, list)) \in Tails \ {tail(list)} -> "panic"
      [] OTHER -> "hang"

OnList(m, list) == Range(Front(path(m, list)))

\* Wrong: list_push_back.
list_insert_back(m, list, elem, pri) ==
    {[outcome |-> "ok", link |-> list_push_back(m, list, elem)]}

\* list_insert_ordered with less_priority: what it may leave.  What it reads
\* as a priority at the tail of another list can be anything: it inserts
\* there, or goes on and panics.
list_insert_ordered(m, list, elem, pri) ==
    LET p == path(m, list)
        lower == {i \in 1..(Len(p) - 1) : pri[elem] > pri[p[i]]}
        done(before) == [outcome |-> "ok", link |-> list_insert(m, before, elem)]
        stop(why) == [outcome |-> why, link |-> m]
    IN IF lower # {} THEN {done(p[Min(lower)])}
       ELSE CASE LoopEnd(m, list) = "ok" -> {done(tail(list))}
              [] LoopEnd(m, list) = "panic" -> {done(Last(p)), stop("panic")}
              [] OTHER -> {stop("hang")}

-----------------------------------------------------------------------------
(* The scheduler, on the memory m and the states st.                       *)

\* The kernel stops.  How far it had got in the call no longer matters.
Stop(why) == outcome' = why /\ UNCHANGED <<cur, status, link>>

\* schedule() asserts that what it takes off the run queue is a thread.
schedule(m, st) ==
    LET next == begin(m, ready_list)
    IN CASE next = tail(ready_list) ->
                /\ cur' = Idle
                /\ status' = st
                /\ link' = m
                /\ UNCHANGED outcome
         [] next \in Thread ->
                /\ cur' = next
                /\ status' = [st EXCEPT ![next] = "RUNNING"]
                /\ link' = list_remove(m, next)
                /\ UNCHANGED outcome
         [] OTHER -> Stop("panic")

thread_yield(m, st, pri) ==
    IF cur = Idle
    THEN schedule(m, st)
    ELSE \E r \in list_insert_ordered(m, ready_list, cur, pri) :
             IF r.outcome = "ok"
             THEN schedule(r.link, [st EXCEPT ![cur] = "READY"])
             ELSE Stop(r.outcome)

\* The possible results of comparing the front of the run queue with cur.
outranked(m, pri) ==
    LET front == begin(m, ready_list)
    IN CASE front = tail(ready_list) -> {FALSE}
         [] front \in Thread -> {pri[front] > pri[cur]}
         [] OTHER -> BOOLEAN

\* check_preemption() and thread_yield_if_necessary()
check_preemption(m, st, pri) ==
    \E higher \in outranked(m, pri) :
        IF higher
        THEN thread_yield(m, st, pri)
        ELSE link' = m /\ status' = st /\ UNCHANGED <<cur, outcome>>

At(p) == outcome = "ok" /\ cur # Idle /\ pc[cur] = p
Goto(p) == pc' = [pc EXCEPT ![cur] = p]

-----------------------------------------------------------------------------
(* Priority donation.                                                      *)

\* Wrong: the donation is not passed on.
donate_once(from, to, pri) ==
    IF pri[from] > pri[to] THEN [pri EXCEPT ![to] = pri[from]] ELSE pri

\* Wrong: the comparison the other way round.
donate_lower(from, to, pri) ==
    IF pri[from] < pri[to] THEN [pri EXCEPT ![to] = pri[from]] ELSE pri

\* A donation is passed on to the thread that the receiver waits for, until
\* one has the priority already; each thread is raised at most once.
donate_priority(from, to, pri) ==
    LET waits_for(t) == IF waiting_lock[t] = NULL THEN NULL
                        ELSE holder[waiting_lock[t]]
        donated[n \in 0..Cardinality(Thread)] ==
            IF n = 0 THEN [to |-> to, pri |-> pri]
            ELSE LET d == donated[n - 1]
                 IN IF d.to # NULL /\ pri[from] > d.pri[d.to]
                    THEN [to |-> waits_for(d.to),
                          pri |-> [d.pri EXCEPT ![d.to] = pri[from]]]
                    ELSE d
    IN donated[Cardinality(Thread)].pri

\* The lists refresh_priority(t) goes through, and what it finds.
refresh_lists(t) ==
    {locks_held(t)} \union {waiters(l) : l \in OnList(link, locks_held(t))}
refreshed(t) ==
    LET donors == UNION {OnList(link, waiters(l)) : l \in OnList(link, locks_held(t))}
    IN Max({base_priority[t]} \union {priority[u] : u \in donors})

-----------------------------------------------------------------------------
(* Locks.                                                                  *)

\* One round of the loop of sema_down(s).
block_on(s) ==
    /\ Goto("sema_down")
    /\ \E r \in list_insert_ordered(link, sema_waiters(s), cur, priority) :
           IF r.outcome = "ok"
           THEN schedule(r.link, [status EXCEPT ![cur] = "BLOCKED"])
           ELSE Stop(r.outcome)
    /\ UNCHANGED <<value, holder, waiting_lock>>

\* Wrong: the lock is not put on locks_held.
take_unlisted(l) ==
    /\ Goto("run")
    /\ value' = [value EXCEPT ![l] = @ - 1]
    /\ holder' = [holder EXCEPT ![l] = cur]
    /\ waiting_lock' = [waiting_lock EXCEPT ![cur] = NULL]
    /\ UNCHANGED <<cur, status, link, outcome>>

\* lock_acquire once it is past the semaphore: the lock has a holder and is
\* on its list.
take(l) ==
    /\ Goto("run")
    /\ value' = [value EXCEPT ![l] = @ - 1]
    /\ holder' = [holder EXCEPT ![l] = cur]
    /\ link' = list_push_back(link, locks_held(cur), l)
    /\ waiting_lock' = [waiting_lock EXCEPT ![cur] = NULL]
    /\ UNCHANGED <<cur, status, outcome>>

\* Wrong: `if' for `while'.
sema_down_once(l) ==
    IF value[l] = 0 /\ pc[cur] # "sema_down" THEN block_on(l) ELSE take(l)

\* sema_down(&lock->semaphore) from a test of the value on.
sema_down_loop(l) == IF value[l] = 0 THEN block_on(l) ELSE take(l)

\* Wrong: a lock without a holder is taken to be free.
AcquireBlindly(l) ==
    /\ At("run")
    /\ holder[l] = NULL
    /\ lock' = [lock EXCEPT ![cur] = l]
    /\ value' = [value EXCEPT ![l] = 0]
    /\ holder' = [holder EXCEPT ![l] = cur]
    /\ link' = list_push_back(link, locks_held(cur), l)
    /\ UNCHANGED <<cur, status, priority, base_priority, waiting_lock, pc, outcome>>

\* lock_acquire of a lock without a holder, interrupts off throughout.
AcquireFree(l) ==
    /\ At("run")
    /\ holder[l] = NULL
    /\ lock' = [lock EXCEPT ![cur] = l]
    /\ sema_down_loop(l)
    /\ UNCHANGED <<priority, base_priority>>

\* The other way round: `elem' is kept for the semaphore's wait list.
AcquireHeldUnlisted(l) ==
    /\ At("run")
    /\ holder[l] \notin {NULL, cur}
    /\ lock' = [lock EXCEPT ![cur] = l]
    /\ waiting_lock' = [waiting_lock EXCEPT ![cur] = l]
    /\ priority' = donate_priority(cur, holder[l], priority)
    /\ Goto("wait")
    /\ UNCHANGED <<cur, status, base_priority, holder, value, link, outcome>>

\* lock_acquire of a lock that another thread holds, up to the point where
\* interrupts are on again.
AcquireHeld(l) ==
    /\ At("run")
    /\ holder[l] \notin {NULL, cur}
    /\ lock' = [lock EXCEPT ![cur] = l]
    /\ waiting_lock' = [waiting_lock EXCEPT ![cur] = l]
    /\ \E r \in list_insert_ordered(link, waiters(l), cur, priority) :
           /\ outcome' = r.outcome
           /\ link' = r.link
    /\ priority' = IF outcome' = "ok"
                   THEN donate_priority(cur, holder[l], priority)
                   ELSE priority
    /\ Goto("wait")
    /\ UNCHANGED <<cur, status, base_priority, holder, value>>

\* Its sema_down, at first and each time the thread is woken.
SemaDown ==
    /\ At("wait") \/ At("sema_down")
    /\ sema_down_loop(lock[cur])
    /\ UNCHANGED <<priority, base_priority, lock>>

\* lock_try_acquire: the semaphore is taken, ...
TryAcquire(l) ==
    /\ At("run")
    /\ holder[l] # cur
    /\ value[l] > 0
    /\ value' = [value EXCEPT ![l] = @ - 1]
    /\ lock' = [lock EXCEPT ![cur] = l]
    /\ Goto("try")
    /\ UNCHANGED <<cur, status, priority, base_priority, waiting_lock, holder,
                   link, outcome>>

\* ... and, interrupts having been on, the holder is set.
TryOwn ==
    /\ At("try")
    /\ holder' = [holder EXCEPT ![lock[cur]] = cur]
    /\ Goto("run")
    /\ UNCHANGED <<cur, status, priority, base_priority, waiting_lock, lock,
                   value, link, outcome>>

\* The part of sema_up(s) before check_preemption, on the memory m.
\* thread_unblock asserts that it is given a blocked thread.
sema_up(m, s) ==
    LET front == begin(m, sema_waiters(s))
        result(r, st) == [outcome |-> r.outcome, link |-> r.link, status |-> st]
    IN CASE empty(m, sema_waiters(s)) ->
                {[outcome |-> "ok", link |-> m, status |-> status]}
         [] front \in {t \in Thread : status[t] = "BLOCKED"} ->
                {result(r, [status EXCEPT ![front] = "READY"]) :
                    r \in list_insert_ordered(list_remove(m, front), ready_list,
                                              front, priority)}
         [] OTHER -> {[outcome |-> "panic", link |-> m, status |-> status]}

\* Wrong: the lock stays on locks_held.
still_held(l) == [outcome |-> LoopEnd(link, waiters(l)), link |-> link]

\* What lock_release does to the lists before sema_up: the lock leaves
\* locks_held, which list_remove asserts it is on, and the thread leaves the
\* lock's waiters.
unheld(l) ==
    LET m == list_remove(link, l)
    IN IF ~is_interior(link, l)
       THEN [outcome |-> "panic", link |-> link]
       ELSE [outcome |-> LoopEnd(m, waiters(l)),
             link |-> IF cur \in OnList(m, waiters(l)) THEN list_remove(m, cur) ELSE m]

\* lock_release up to and including sema_up, which may yield the CPU.
LockRelease(l) ==
    /\ At("run")
    /\ holder[l] = cur
    /\ IF unheld(l).outcome # "ok"
       THEN Stop(unheld(l).outcome) /\ UNCHANGED <<holder, value, pc>>
       ELSE /\ holder' = [holder EXCEPT ![l] = NULL]
            /\ value' = [value EXCEPT ![l] = @ + 1]
            /\ Goto("refresh")
            /\ \E r \in sema_up(unheld(l).link, l) :
                   IF r.outcome = "ok"
                   THEN check_preemption(r.link, r.status, priority)
                   ELSE Stop(r.outcome)
    /\ UNCHANGED <<priority, base_priority, waiting_lock, lock>>

\* The end of lock_release, interrupts still off.
Refresh ==
    /\ At("refresh")
    /\ LET ends == {LoopEnd(link, list) : list \in refresh_lists(cur)}
       IN IF ends = {"ok"}
          THEN /\ priority' = [priority EXCEPT ![cur] = refreshed(cur)]
               /\ check_preemption(link, status, priority')
          ELSE /\ \E why \in ends \ {"ok"} : Stop(why)
               /\ UNCHANGED priority
    /\ Goto("run")
    /\ UNCHANGED <<base_priority, waiting_lock, lock, holder, value>>

-----------------------------------------------------------------------------

ThreadSetPriority(pri) ==
    /\ At("run")
    /\ priority' = [priority EXCEPT ![cur] = pri]
    /\ Goto("check")
    /\ UNCHANGED <<cur, status, base_priority, waiting_lock, lock, holder, value,
                   link, outcome>>

Check ==
    /\ At("check")
    /\ Goto("run")
    /\ check_preemption(link, status, priority)
    /\ UNCHANGED <<priority, base_priority, waiting_lock, lock, holder, value>>

\* With these the thread has interrupts off when it is next on the CPU.
IntrOffPC == {"sema_down", "refresh"}

IntrOn == outcome = "ok" /\ cur \notin {t \in Thread : pc[t] \in IntrOffPC}

\* timer_wakeup: thread_unblock for a thread that has slept long enough.
TimerWakeup(t) ==
    /\ IntrOn
    /\ pc[t] = "asleep"
    /\ pc' = [pc EXCEPT ![t] = "run"]
    /\ \E r \in list_insert_ordered(link, ready_list, t, priority) :
           outcome' = r.outcome /\ link' = r.link
    /\ status' = [status EXCEPT ![t] = "READY"]
    /\ UNCHANGED <<cur, priority, base_priority, waiting_lock, lock, holder, value>>

\* The timer interrupt at the end of a time slice.
Preempt ==
    /\ IntrOn
    /\ thread_yield(link, status, priority)
    /\ UNCHANGED <<threadVars, holder, value>>

PC == IntrOffPC \union {"run", "wait", "try", "check", "asleep"}

\* Empty lists, and elements that were never on one.
EmptyLists ==
    [n \in Node |->
        CASE n \in Tails -> [prev |-> head(n[1]), next |-> NULL]
          [] n \in Thread \union Lock -> [prev |-> NULL, next |-> NULL]
          [] OTHER -> [prev |-> NULL, next |-> tail(n[1])]]

Init ==
    /\ cur \in Thread
    /\ status = [t \in Thread |-> IF t = cur THEN "RUNNING" ELSE "BLOCKED"]
    /\ pc = [t \in Thread |-> IF t = cur THEN "run" ELSE "asleep"]
    /\ base_priority \in [Thread -> Priority]
    /\ priority = base_priority
    /\ link = EmptyLists
    /\ waiting_lock = [t \in Thread |-> NULL]
    /\ lock = [t \in Thread |-> NULL]
    /\ holder = [l \in Lock |-> NULL]
    /\ value = [s \in Sema |-> IF s \in Lock THEN 1 ELSE 0]
    /\ outcome = "ok"

\* What a thread calls, at its own choice.
Call ==
    \/ \E l \in Lock : AcquireFree(l) \/ AcquireHeld(l) \/ LockRelease(l)
    \/ \E l \in TryLock : TryAcquire(l)
    \/ \E pri \in NewPriority : ThreadSetPriority(pri)

Continue == TryOwn \/ Refresh \/ Check

Interrupt ==
    \/ \E t \in Thread : TimerWakeup(t)
    \/ Preempt

Next == Call \/ SemaDown \/ Continue \/ Interrupt

Spec == Init /\ [][Next]_vars

-----------------------------------------------------------------------------
(* Safety.                                                                 *)

TypeOK ==
    /\ cur \in Thread \union {Idle}
    /\ status \in [Thread -> {"RUNNING", "READY", "BLOCKED"}]
    /\ priority \in [Thread -> Priority]
    /\ base_priority \in [Thread -> Priority]
    /\ waiting_lock \in [Thread -> Lock \union {NULL}]
    /\ pc \in [Thread -> PC]
    /\ lock \in [Thread -> Lock \union {NULL}]
    /\ holder \in [Lock -> Thread \union {NULL}]
    /\ value \in [Sema -> Nat]
    /\ link \in [Node -> [prev : Node \union {NULL}, next : Node \union {NULL}]]
    /\ outcome \in {"ok", "panic", "hang", "list_front"}

\* Threads that are past the semaphore of l.
Owners(l) == {t \in Thread : holder[l] = t \/ (pc[t] = "try" /\ lock[t] = l)}

\* Mutual exclusion: the semaphore and the owners of a lock agree, in spite
\* of threads that barge in and of the gap in lock_try_acquire between the
\* semaphore and the holder.
OneOwner == \A l \in Lock : value[l] + Cardinality(Owners(l)) = 1

\* What mutual exclusion rests on: a semaphore that is up has no owners and
\* one that is down has one, and the lock of a call that uses it is known.
OwnerInv ==
    /\ cur \in Thread \union {Idle}
    /\ pc \in [Thread -> PC]
    /\ lock \in [Thread -> Lock \union {NULL}]
    /\ holder \in [Lock -> Thread \union {NULL}]
    /\ value \in [Sema -> Nat]
    /\ \A l \in Lock :
           \/ value[l] = 1 /\ Owners(l) = {}
           \/ value[l] = 0 /\ \E t \in Thread : Owners(l) = {t}
    /\ \A t \in Thread :
           pc[t] \in {"wait", "sema_down", "try"} \/ (\E l \in Lock : holder[l] = t)
           => lock[t] \in Lock

\* Some thread has found a lock held.
Contended == \E t \in Thread : waiting_lock[t] # NULL

\* While every lock is found free, the lists hold what they should: linked
\* both ways, the run queue the ready threads and locks_held the locks held.
WellLinked(list, elems) ==
    LET nodes == <<head(list)>> \o path(link, list)
    IN /\ LoopEnd(link, list) = "ok"
       /\ OnList(link, list) = elems
       /\ \A i \in 2..Len(nodes) : link[nodes[i]].prev = nodes[i - 1]
IntactWhileFree ==
    ~Contended =>
        /\ WellLinked(ready_list, {t \in Thread : status[t] = "READY"})
        /\ \A t \in Thread : WellLinked(locks_held(t), {l \in Lock : holder[l] = t})
        /\ \A l \in Lock : WellLinked(waiters(l), {}) /\ WellLinked(sema_waiters(l), {})

\* A kernel whose locks are never contended does not panic or hang in them.
RunsWhileFree == ~Contended => outcome = "ok"

\* A contended lock is never handed over: whoever has found it held waits for
\* good, because the walk of lock_release over lock->waiters follows the
\* thread's `elem' onto another list and stops the kernel before sema_up.
NeverHandedOver ==
    [][\A t \in Thread : waiting_lock[t] # NULL =>
           waiting_lock'[t] = waiting_lock[t]]_vars

\* Donation reaches every holder on the way: a thread that waits for a lock
\* has no higher priority than the thread that holds it, so by induction
\* than anyone it waits for.
Donated ==
    outcome = "ok" =>
        \A t \in Thread : waiting_lock[t] # NULL =>
            /\ holder[waiting_lock[t]] # NULL
            /\ priority[holder[waiting_lock[t]]] >= priority[t]

\* t waits for a lock whose holder has a lower priority.
Inverted(t) ==
    /\ outcome = "ok"
    /\ waiting_lock[t] # NULL
    /\ holder[waiting_lock[t]] # NULL
    /\ priority[holder[waiting_lock[t]]] < priority[t]

\* A donation is lost by what the holder of the lock does, in two ways: it
\* sets its own priority, or it releases another lock and refresh_priority
\* does not see this one, which lock_try_acquire left off locks_held.
DonationLostByHolder ==
    [][\A t \in Thread :
           Inverted(t)' /\ ~Inverted(t) =>
               LET l == waiting_lock'[t]
               IN /\ holder'[l] = cur
                  /\ \/ pc[cur] = "run" /\ pc'[cur] = "check"
                     \/ pc[cur] = "refresh" /\ l \notin OnList(link, locks_held(cur))]_vars

\* The run queue is put out of order by donation alone: where its links are
\* whole, a thread that stands behind one of lower priority has been raised
\* above its own priority since it was put there.
Queue == Front(path(link, ready_list))
DisorderByDonation ==
    outcome = "ok" /\ WellLinked(ready_list, {t \in Thread : status[t] = "READY"}) =>
        \A i, j \in DOMAIN Queue :
            i < j /\ priority[Queue[i]] < priority[Queue[j]] =>
                priority[Queue[j]] > base_priority[Queue[j]]

-----------------------------------------------------------------------------
(* What the repository says of the code and the code does not do.          *)

\* lock_release, "Wake up highest priority waiter": a release ends.
ReleaseEnds == outcome = "ok"

=============================================================================
