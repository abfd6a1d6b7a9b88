----------------------------- MODULE Semaphore -----------------------------
(***************************************************************************)
(* What a semaphore promises, without scheduler, lists or priorities: Up   *)
(* adds one to the count and wakes one of the waiting threads, if any; a   *)
(* woken thread competes for the count with everyone else, and waits again *)
(* when it comes too late.  PriorityScheduler implements this.             *)
(***************************************************************************)
EXTENDS Naturals, FiniteSets

CONSTANTS
    Thread,
    Sema

VARIABLES
    count,      \* the value of each semaphore
    waiting,    \* the threads that wait for it
    woken       \* those an Up has woken and that have not tried again

vars == <<count, waiting, woken>>

Busy == UNION {waiting[s] \union woken[s] : s \in Sema}

Init ==
    /\ count \in [Sema -> Nat]
    /\ waiting = [s \in Sema |-> {}]
    /\ woken = [s \in Sema |-> {}]

\* A thread passes at once, or starts to wait.
Down(s) ==
    /\ count[s] > 0
    /\ count' = [count EXCEPT ![s] = @ - 1]
    /\ UNCHANGED <<waiting, woken>>

Wait(t, s) ==
    /\ count[s] = 0
    /\ t \notin Busy
    /\ waiting' = [waiting EXCEPT ![s] = @ \union {t}]
    /\ UNCHANGED <<count, woken>>

Up(s) ==
    /\ count' = [count EXCEPT ![s] = @ + 1]
    /\ \/ waiting[s] = {} /\ UNCHANGED <<waiting, woken>>
       \/ \E t \in waiting[s] :
              /\ waiting' = [waiting EXCEPT ![s] = @ \ {t}]
              /\ woken' = [woken EXCEPT ![s] = @ \union {t}]

\* A woken thread gets through, or waits again.
Proceed(t, s) ==
    /\ t \in woken[s]
    /\ count[s] > 0
    /\ count' = [count EXCEPT ![s] = @ - 1]
    /\ woken' = [woken EXCEPT ![s] = @ \ {t}]
    /\ UNCHANGED waiting

WaitAgain(t, s) ==
    /\ t \in woken[s]
    /\ count[s] = 0
    /\ woken' = [woken EXCEPT ![s] = @ \ {t}]
    /\ waiting' = [waiting EXCEPT ![s] = @ \union {t}]
    /\ UNCHANGED count

Next ==
    \E s \in Sema :
        \/ Down(s)
        \/ Up(s)
        \/ \E t \in Thread : Wait(t, s) \/ Proceed(t, s) \/ WaitAgain(t, s)

Spec == Init /\ [][Next]_vars

=============================================================================
