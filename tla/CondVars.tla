------------------------------ MODULE CondVars ------------------------------
(***************************************************************************)
(* The condition variables of threads/synch.c, on top of Locks.  A thread  *)
(* in cond_wait stands for its `struct semaphore_elem' too: cond->waiters  *)
(* links these by a field of their own, so it is a sequence here, while    *)
(* the semaphore inside is one of the semaphores of Locks, with its list   *)
(* in the memory `link'.                                                   *)
(*                                                                         *)
(* cond_signal and cond_broadcast run with interrupts on: the list is safe *)
(* only because its users hold the lock, which WaitersGuarded states.      *)
(*                                                                         *)
(* A definition marked `Wrong' is a fault put in to see that a property    *)
(* notices it; no action uses it.                                          *)
(***************************************************************************)
EXTENDS Locks

CONSTANTS
    Cond,           \* condition variables
    Mutex           \* the lock that goes with each

ASSUME CondAssumption == Mutex \in [Cond -> Lock] /\ NULL \notin Cond

VARIABLES
    cond_waiters,   \* c->waiters, each semaphore_elem as its thread
    cond,           \* the condition variable of t's present call
    stage,          \* how far t has got in it
    max_e,          \* cond_signal's max_e, so far
    rest,           \* what list_max has yet to compare with it
    broadcast       \* the call is cond_broadcast

condVars == <<cond_waiters, cond, stage, max_e, rest, broadcast>>
allVars == <<vars, condVars>>

Stage == {"none", "release", "sema", "acquire", "return", "compare", "up"}

\* The running thread is at the given stage, and not inside a call made there.
InStage(s) == cur # Idle /\ stage[cur] = s
AtStage(s) == At("run") /\ InStage(s)
NextStage(s) == stage' = [stage EXCEPT ![cur] = s]

mutex == Mutex[cond[cur]]

-----------------------------------------------------------------------------
(* cond_wait                                                               *)

\* Wrong: the thread need not hold the lock.
CondWaitUnlocked(c) ==
    /\ AtStage("none")
    /\ cond_waiters' = [cond_waiters EXCEPT ![c] = Append(@, cur)]
    /\ cond' = [cond EXCEPT ![cur] = c]
    /\ NextStage("release")
    /\ UNCHANGED <<vars, max_e, rest, broadcast>>

\* sema_init makes the semaphore, and its element goes to the back of the
\* list.
CondWait(c) ==
    /\ AtStage("none")
    /\ holder[Mutex[c]] = cur
    /\ value' = [value EXCEPT ![cur] = 0]
    /\ link' = list_init(link, sema_waiters(cur))
    /\ cond_waiters' = [cond_waiters EXCEPT ![c] = Append(@, cur)]
    /\ cond' = [cond EXCEPT ![cur] = c]
    /\ NextStage("release")
    /\ UNCHANGED <<cur, status, threadVars, holder, outcome, max_e, rest, broadcast>>

\* lock_release, which may yield and which Refresh ends.
CondRelease ==
    /\ InStage("release")
    /\ LockRelease(mutex)
    /\ NextStage("sema")
    /\ UNCHANGED <<cond_waiters, cond, max_e, rest, broadcast>>

\* Wrong: the thread blocks without a look at the value.
CondDownBlindly ==
    /\ InStage("sema")
    /\ \/ At("run") /\ block_on(cur) /\ UNCHANGED stage
       \/ /\ At("sema_down")
          /\ value' = [value EXCEPT ![cur] = 0]
          /\ Goto("run")
          /\ NextStage("acquire")
          /\ UNCHANGED <<cur, status, waiting_lock, holder, link, outcome>>
    /\ UNCHANGED <<priority, base_priority, lock, cond_waiters, cond, max_e, rest,
                   broadcast>>

\* sema_down of the thread's own semaphore, at first and when woken.
CondDown ==
    /\ InStage("sema")
    /\ At("run") \/ At("sema_down")
    /\ IF value[cur] = 0
       THEN block_on(cur) /\ UNCHANGED stage
       ELSE /\ value' = [value EXCEPT ![cur] = @ - 1]
            /\ Goto("run")
            /\ NextStage("acquire")
            /\ UNCHANGED <<cur, status, waiting_lock, holder, link, outcome>>
    /\ UNCHANGED <<priority, base_priority, lock, cond_waiters, cond, max_e, rest,
                   broadcast>>

\* Wrong: cond_wait ends without the lock.
CondAcquireNot ==
    /\ AtStage("acquire")
    /\ NextStage("return")
    /\ UNCHANGED <<vars, cond_waiters, cond, max_e, rest, broadcast>>

\* lock_acquire; when the lock is held, SemaDown goes on with it.
CondAcquire ==
    /\ InStage("acquire")
    /\ AcquireFree(mutex) \/ AcquireHeld(mutex)
    /\ NextStage("return")
    /\ UNCHANGED <<cond_waiters, cond, max_e, rest, broadcast>>

\* The last call of cond_wait is check_preemption.
CondReturn ==
    /\ AtStage("return")
    /\ Goto("check")
    /\ NextStage("none")
    /\ UNCHANGED <<cur, status, priority, base_priority, waiting_lock, lock, holder,
                   value, link, outcome, cond_waiters, cond, max_e, rest, broadcast>>

-----------------------------------------------------------------------------
(* cond_signal and cond_broadcast                                          *)

\* Wrong: list_pop_front.
begin_max_front(w) ==
    /\ NextStage("compare")
    /\ max_e' = [max_e EXCEPT ![cur] = Head(w)]
    /\ rest' = [rest EXCEPT ![cur] = <<>>]

\* list_max begins with the first element of a list w that is not empty.
begin_max(w) ==
    /\ NextStage("compare")
    /\ max_e' = [max_e EXCEPT ![cur] = Head(w)]
    /\ rest' = [rest EXCEPT ![cur] = Tail(w)]

\* The call: cond_signal, or cond_broadcast with its first cond_signal.  With
\* nobody waiting neither does anything.
CondSignal(c, all) ==
    /\ AtStage("none")
    /\ holder[Mutex[c]] = cur
    /\ cond_waiters[c] # <<>>
    /\ cond' = [cond EXCEPT ![cur] = c]
    /\ broadcast' = [broadcast EXCEPT ![cur] = all]
    /\ begin_max(cond_waiters[c])
    /\ UNCHANGED <<vars, cond_waiters>>

\* What cond_sema_priority_cmp(a, b) may return: it compares the threads at
\* the front of the two semaphores' wait lists, whatever is linked there.
cond_sema_priority_cmp(a, b) ==
    LET front(t) == begin(link, sema_waiters(t))
    IN IF {front(a), front(b)} \subseteq Thread
       THEN {priority[front(a)] < priority[front(b)]}
       ELSE BOOLEAN

\* One comparison of list_max.  list_front asserts that there is a thread.
CondCompare ==
    /\ AtStage("compare")
    /\ rest[cur] # <<>>
    /\ LET a == max_e[cur]
           b == Head(rest[cur])
       IN IF empty(link, sema_waiters(a)) \/ empty(link, sema_waiters(b))
          THEN outcome' = "list_front" /\ UNCHANGED <<max_e, rest>>
          ELSE /\ \E less \in cond_sema_priority_cmp(a, b) :
                      max_e' = [max_e EXCEPT ![cur] = IF less THEN b ELSE a]
               /\ rest' = [rest EXCEPT ![cur] = Tail(@)]
               /\ UNCHANGED outcome
    /\ UNCHANGED <<cur, status, threadVars, holder, value, link, cond_waiters, cond,
                   stage, broadcast>>

\* Wrong: the element stays on the list.
CondRemoveNot ==
    /\ AtStage("compare")
    /\ rest[cur] = <<>>
    /\ NextStage("up")
    /\ UNCHANGED <<vars, cond_waiters, cond, max_e, rest, broadcast>>

\* list_remove(max_e)
CondRemove ==
    /\ AtStage("compare")
    /\ rest[cur] = <<>>
    /\ cond_waiters' = [cond_waiters EXCEPT ![cond[cur]] = RemoveFirst(@, max_e[cur])]
    /\ NextStage("up")
    /\ UNCHANGED <<vars, cond, max_e, rest, broadcast>>

\* sema_up and, Check following, its check_preemption.  cond_broadcast goes
\* on as long as somebody is on the list.
CondUp ==
    /\ AtStage("up")
    /\ value' = [value EXCEPT ![max_e[cur]] = @ + 1]
    /\ \E r \in sema_up(link, max_e[cur]) :
           outcome' = r.outcome /\ link' = r.link /\ status' = r.status
    /\ Goto("check")
    /\ IF broadcast[cur] /\ cond_waiters[cond[cur]] # <<>>
       THEN begin_max(cond_waiters[cond[cur]]) /\ UNCHANGED broadcast
       ELSE /\ NextStage("none")
            /\ broadcast' = [broadcast EXCEPT ![cur] = FALSE]
            /\ max_e' = [max_e EXCEPT ![cur] = NULL]
            /\ UNCHANGED rest
    /\ UNCHANGED <<cur, priority, base_priority, waiting_lock, lock, holder,
                   cond_waiters, cond>>

-----------------------------------------------------------------------------

\* cond_init
CondInit ==
    /\ Init
    /\ cond_waiters = [c \in Cond |-> <<>>]
    /\ cond = [t \in Thread |-> NULL]
    /\ stage = [t \in Thread |-> "none"]
    /\ max_e = [t \in Thread |-> NULL]
    /\ rest = [t \in Thread |-> <<>>]
    /\ broadcast = [t \in Thread |-> FALSE]

CondCall ==
    \E c \in Cond :
        \/ CondWait(c)
        \/ \E all \in BOOLEAN : CondSignal(c, all)

CondContinue ==
    \/ CondRelease
    \/ CondDown
    \/ CondAcquire
    \/ CondReturn
    \/ CondCompare
    \/ CondRemove
    \/ CondUp

\* The steps of Locks: calls by a thread that is not in cond_wait or
\* cond_signal, and the rest of a call, whoever made it.
LockStep ==
    \/ InStage("none") /\ Call
    \/ ~InStage("sema") /\ SemaDown
    \/ Continue
    \/ Interrupt

CondNext ==
    \/ CondCall
    \/ CondContinue
    \/ LockStep /\ UNCHANGED condVars

CondSpec == CondInit /\ [][CondNext]_allVars

-----------------------------------------------------------------------------
(* Safety.                                                                 *)

CondTypeOK ==
    /\ TypeOK
    /\ cond_waiters \in [Cond -> Seq(Thread)]
    /\ cond \in [Thread -> Cond \union {NULL}]
    /\ stage \in [Thread -> Stage]
    /\ max_e \in [Thread -> Thread \union {NULL}]
    /\ rest \in [Thread -> Seq(Thread)]
    /\ broadcast \in [Thread -> BOOLEAN]

\* t is on the list it waits on; a signal has picked t and will raise its
\* semaphore.
Listed(t) == t \in Range(cond_waiters[cond[t]])
Picked(t) == \E u \in Thread : stage[u] = "up" /\ max_e[u] = t

\* No signal is lost in the gap of cond_wait between lock_release and
\* sema_down, and none counts twice: a thread that has let go of the lock is
\* on cond->waiters, or is being signalled, or has its semaphore raised, one
\* of the three.
Reached(t) ==
    {how \in {"listed", "picked", "raised"} :
        CASE how = "listed" -> Listed(t)
          [] how = "picked" -> Picked(t)
          [] how = "raised" -> value[t] = 1}
NoSignalLost ==
    \A t \in Thread : stage[t] = "sema" => Cardinality(Reached(t)) = 1

\* A thread whose semaphore a signal has raised does not sleep on.
SignalledAwake ==
    outcome = "ok" =>
        \A t \in Thread : stage[t] = "sema" /\ value[t] = 1 => status[t] # "BLOCKED"

\* t goes through cond->waiters or changes it, or is about to return from
\* cond_wait.
NeedsLock(t) ==
    \/ stage[t] \in {"release", "compare", "up"}
    \/ stage[t] = "return" /\ pc[t] = "run"

\* cond->waiters has no protection but the lock: whoever reads or changes it
\* holds the lock, and so does a thread about to return from cond_wait.
WaitersGuarded ==
    \A t \in Thread : NeedsLock(t) => holder[Mutex[cond[t]]] = t

\* What keeps the list guarded: where a thread is in the kernel at each stage
\* of cond_wait and cond_signal, and the lock it waits for at the end.
InPlace(t) ==
    /\ stage[t] # "none" => cond[t] \in Cond /\ lock[t] \in Lock
    /\ stage[t] \in {"release", "acquire"} => pc[t] = "run"
    /\ stage[t] = "sema" => pc[t] \in {"run", "refresh", "sema_down"}
    /\ stage[t] = "return" =>
           \/ pc[t] = "run"
           \/ pc[t] \in {"wait", "sema_down"} /\ lock[t] = Mutex[cond[t]]
    /\ stage[t] \in {"compare", "up"} =>
           pc[t] \in {"run", "check"} /\ max_e[t] \in Thread

StageInv ==
    /\ cond_waiters \in [Cond -> Seq(Thread)]
    /\ cond \in [Thread -> Cond \union {NULL}]
    /\ stage \in [Thread -> Stage]
    /\ max_e \in [Thread -> Thread \union {NULL}]
    /\ rest \in [Thread -> Seq(Thread)]
    /\ broadcast \in [Thread -> BOOLEAN]
    /\ \A t \in Thread : InPlace(t)

\* What accounts for the signals: a list holds only threads that wait on it,
\* once each; list_max has met only these; and a thread whose semaphore is
\* about to be raised has left the list and has not been signalled before.
ListSound(c) ==
    /\ IsInjective(cond_waiters[c])
    /\ \A t \in Range(cond_waiters[c]) : cond[t] = c /\ stage[t] \in {"release", "sema"}

Accounted(t) ==
    /\ stage[t] = "compare" =>
           {max_e[t]} \union Range(rest[t]) \subseteq Range(cond_waiters[cond[t]])
    /\ stage[t] = "up" =>
           /\ stage[max_e[t]] = "sema" /\ cond[max_e[t]] = cond[t]
           /\ ~Listed(max_e[t]) /\ value[max_e[t]] = 0
    /\ stage[t] = "release" => Listed(t)
    /\ stage[t] \in {"release", "sema"} =>
           value[t] \in {0, 1} /\ (Listed(t) => value[t] = 0)
    /\ stage[t] = "sema" => Listed(t) \/ Picked(t) \/ value[t] = 1

SignalInv ==
    /\ \A c \in Cond : ListSound(c)
    /\ \A t \in Thread : Accounted(t)

\* While list_max goes through the list, and cond_broadcast round its loop,
\* nobody joins it and nobody leaves but by the signal: a broadcast ends, and
\* reaches those who waited when it began.
ListStableInSignal ==
    [][\A t \in Thread :
           LET c == cond[t]
           IN stage[t] \in {"compare", "up"} /\ cond_waiters'[c] # cond_waiters[c] =>
                  /\ cur = t
                  /\ cond_waiters'[c] = RemoveFirst(cond_waiters[c], max_e[t])]_allVars

\* The waiter that leaves the list has the highest priority on it.
SignalsHighest ==
    [][\A c \in Cond : \A t \in Range(cond_waiters[c]) \ Range(cond_waiters'[c]) :
           \A u \in Range(cond_waiters[c]) : priority[u] <= priority[t]]_allVars

-----------------------------------------------------------------------------
(* What the repository says of the code and the code does not do.          *)

\* cond_sema_priority_cmp, "the first is the thread blocked on it": there is
\* a thread on the semaphore of every element of cond->waiters.
CondSignalFindsThread == outcome # "list_front"

=============================================================================
