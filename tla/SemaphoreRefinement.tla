------------------------ MODULE SemaphoreRefinement -------------------------
(***************************************************************************)
(* PriorityScheduler implements module Semaphore: whatever the run queue,  *)
(* the priorities and the interrupts do, sema_down and sema_up act on the  *)
(* semaphores as that module says, step by step.  NoLostWakeup then is a   *)
(* matter of counting on Semaphore's actions.                              *)
(***************************************************************************)
EXTENDS PriorityScheduler_proofs, FiniteSetTheorems

-----------------------------------------------------------------------------
(* Who is inside sema_down.                                                *)

\* The threads inside sema_down(s), whether blocked or woken.
Inside(s) == {t \in Thread : pc[t] = "sema_down" /\ sema[t] = s}

\* A thread inside sema_down waits or is woken, and not both.
LEMMA InsideSplits ==
  ASSUME IInv, NEW s \in Sema
  PROVE  /\ Woken(s) = Inside(s) \ Range(waiters[s])
         /\ Range(waiters[s]) \subseteq Inside(s)
<1>1. \A t \in Range(waiters[s]) : t \in Thread
  BY ListOfThreads DEF IInv, TypeOK
<1>2. \A t \in Thread : t \in Range(waiters[s]) <=> /\ status[t] = "BLOCKED"
                                                    /\ pc[t] = "sema_down"
                                                    /\ sema[t] = s
  BY DEF IInv, ListInv, WaitInv
<1>3. \A t \in Thread : pc[t] = "sema_down" =>
                            status[t] \in {"READY", "RUNNING", "BLOCKED"}
  BY DEF IInv, TypeOK, ListInv, PcInv, Status
<1> QED BY <1>1, <1>2, <1>3 DEF Woken, Inside

\* The same in the state after a step.
LEMMA InsideSplitsNext ==
  ASSUME IInv', NEW s \in Sema
  PROVE  Woken(s)' = Inside(s)' \ Range(waiters'[s])
<1>1. \A t \in Thread : t \in Range(waiters'[s]) <=> /\ status'[t] = "BLOCKED"
                                                     /\ pc'[t] = "sema_down"
                                                     /\ sema'[t] = s
  BY DEF IInv, ListInv, WaitInv
<1>2. \A t \in Thread : pc'[t] = "sema_down" =>
                            status'[t] \in {"READY", "RUNNING", "BLOCKED"}
  BY DEF IInv, TypeOK, ListInv, PcInv, Status
<1> QED BY <1>1, <1>2 DEF Woken, Inside

\* The list sema_down puts the running thread on.
LEMMA WaitersGrow ==
  ASSUME IInv, NEW s \in Sema,
         waiters' = [waiters EXCEPT ![s] =
             list_insert_ordered(@, cur, less_priority(cur, priority))]
  PROVE  \A r \in Sema : Range(waiters'[r]) =
             IF r = s THEN Range(waiters[s]) \union {cur} ELSE Range(waiters[r])
<1> DEFINE w == list_insert_ordered(waiters[s], cur, less_priority(cur, priority))
<1>1. waiters \in [Sema -> Seq(Thread)] /\ waiters[s] \in Seq(Thread) /\ cur \in Thread
  BY DEF IInv, TypeOK
<1>2. \A t : t \in Range(w) <=> t \in Range(waiters[s]) \/ t = cur
  BY <1>1, InsertRange
<1>3. \A r \in Sema : waiters'[r] = IF r = s THEN w ELSE waiters[r]
  BY <1>1
<1> HIDE DEF w
<1>4. Range(w) = Range(waiters[s]) \union {cur}
  BY <1>2
<1> QED BY <1>3, <1>4

\* The list sema_up takes the front waiter off.
LEMMA WaitersShrink ==
  ASSUME IInv, NEW s \in Sema, waiters' = upped_waiters(s), waiters[s] # <<>>
  PROVE  /\ Head(waiters[s]) \in Range(waiters[s])
         /\ \A r \in Sema : Range(waiters'[r]) =
                IF r = s THEN Range(waiters[s]) \ {Head(waiters[s])}
                ELSE Range(waiters[r])
<1>1. /\ waiters \in [Sema -> Seq(Thread)] /\ waiters[s] \in Seq(Thread)
      /\ IsInjective(waiters[s])
  BY DEF IInv, TypeOK, ListInv, WaitInv
<1>2. /\ Head(waiters[s]) \in Range(waiters[s])
      /\ \A t : t \in Range(Tail(waiters[s])) <=>
                    t \in Range(waiters[s]) /\ t # Head(waiters[s])
  BY <1>1, PopRange
<1>3. \A r \in Sema : waiters'[r] = IF r = s THEN Tail(waiters[s]) ELSE waiters[r]
  BY <1>1 DEF upped_waiters
<1>4. Range(Tail(waiters[s])) = Range(waiters[s]) \ {Head(waiters[s])}
  BY <1>2
<1> QED BY <1>2, <1>3, <1>4

-----------------------------------------------------------------------------
(* The steps, mapped to Semaphore's.                                       *)

\* A step in which nobody enters or leaves sema_down and no value or wait
\* list changes.
LEMMA Stutters ==
  ASSUME IInv, IInv', UNCHANGED <<value, waiters>>,
         \A r \in Sema : Inside(r)' = Inside(r)
  PROVE  UNCHANGED Abstract!vars
<1>1. \A r \in Sema : Woken(r)' = Woken(r)
  BY InsideSplits, InsideSplitsNext
<1>2. [r \in Sema |-> Woken(r)]' = [r \in Sema |-> Woken(r)]
  BY <1>1
<1> QED BY <1>2 DEF Abstract!vars

\* Nobody enters or leaves.
LEMMA NobodyMoves ==
  ASSUME IInv, UNCHANGED sema,
         \A t \in Thread : pc'[t] = "sema_down" <=> pc[t] = "sema_down"
  PROVE  \A r \in Sema : Inside(r)' = Inside(r)
BY DEF Inside

\* One round of sema_down's loop by a thread from outside: Down or Wait.
LEMMA FirstRound ==
  ASSUME IInv, IInv', NEW s \in Sema, pc[cur] = "run", sema_down_loop(s)
  PROVE  Abstract!Down(s) \/ Abstract!Wait(cur, s)
<1>1. cur \in Thread /\ pc \in [Thread -> PC] /\ value \in [Sema -> 0..MaxValue]
  BY DEF IInv, TypeOK
<1>2. \A r \in Sema : cur \notin Inside(r)
  BY DEF Inside
<1>3. CASE value[s] # 0
  <2>1. /\ value' = [value EXCEPT ![s] = @ - 1]
        /\ UNCHANGED waiters
        /\ pc' = [pc EXCEPT ![cur] = "run"] /\ sema' = [sema EXCEPT ![cur] = NoSema]
    BY <1>3 DEF sema_down_loop, Goto
  <2>2. \A r \in Sema : Inside(r)' = Inside(r)
    BY <1>1, <2>1 DEF Inside, IInv, TypeOK
  <2>3. \A r \in Sema : Woken(r)' = Woken(r)
    BY <2>1, <2>2, InsideSplits, InsideSplitsNext
  <2>4. [r \in Sema |-> Woken(r)]' = [r \in Sema |-> Woken(r)]
    BY <2>3
  <2>5. value[s] > 0
    BY <1>1, <1>3
  <2> QED BY <2>1, <2>4, <2>5 DEF Abstract!Down
<1>4. CASE value[s] = 0
  <2>1. /\ UNCHANGED value
        /\ waiters' = [waiters EXCEPT ![s] =
               list_insert_ordered(@, cur, less_priority(cur, priority))]
        /\ pc' = [pc EXCEPT ![cur] = "sema_down"] /\ sema' = [sema EXCEPT ![cur] = s]
    BY <1>4 DEF sema_down_loop, Goto
  <2>2. ASSUME NEW r \in Sema
        PROVE  Inside(r)' = IF r = s THEN Inside(s) \union {cur} ELSE Inside(r)
    <3>1. \A t \in Thread : /\ pc'[t] = IF t = cur THEN "sema_down" ELSE pc[t]
                            /\ sema'[t] = IF t = cur THEN s ELSE sema[t]
      BY <1>1, <2>1 DEF IInv, TypeOK
    <3>2. \A t : t \in Inside(r)' <=> t \in Inside(r) \/ (r = s /\ t = cur)
      BY <1>1, <1>2, <3>1 DEF Inside
    <3> QED BY <3>2
  <2>3. \A r \in Sema : Range(waiters'[r]) =
            IF r = s THEN Range(waiters[s]) \union {cur} ELSE Range(waiters[r])
    BY <2>1, WaitersGrow
  <2>4. \A r \in Sema : Woken(r)' = Woken(r)
    BY <1>2, <2>2, <2>3, InsideSplits, InsideSplitsNext
  <2>5. [r \in Sema |-> Woken(r)]' = [r \in Sema |-> Woken(r)]
    BY <2>4
  <2>6. \A r \in Sema : cur \notin Range(waiters[r]) /\ cur \notin Woken(r)
    BY <1>2, InsideSplits
  <2>7. [r \in Sema |-> Range(waiters[r])]' =
            [[r \in Sema |-> Range(waiters[r])] EXCEPT ![s] = @ \union {cur}]
    BY <2>3
  <2>8. cur \notin Abstract!Busy
    BY <2>6 DEF Abstract!Busy
  <2> QED BY <1>4, <2>1, <2>5, <2>7, <2>8 DEF Abstract!Wait
<1> QED BY <1>3, <1>4

\* A later round: Proceed or WaitAgain.
LEMMA LaterRound ==
  ASSUME IInv, IInv', SemaDownAgain
  PROVE  \E s \in Sema : Abstract!Proceed(cur, s) \/ Abstract!WaitAgain(cur, s)
<1> DEFINE s == sema[cur]
<1>1. cur \in Thread /\ pc \in [Thread -> PC] /\ value \in [Sema -> 0..MaxValue]
  BY DEF IInv, TypeOK
<1>2. s \in Sema /\ pc[cur] = "sema_down" /\ status[cur] = "RUNNING" /\ sema_down_loop(s)
  BY CurFacts DEF SemaDownAgain, At, IInv, ListInv, PcInv
<1>3. \A r \in Sema : cur \in Inside(r) <=> r = s
  BY <1>1, <1>2 DEF Inside
<1>4. cur \in Woken(s)
  BY <1>1, <1>2 DEF Woken
<1> HIDE DEF s
<1>5. CASE value[s] # 0
  <2>1. /\ value' = [value EXCEPT ![s] = @ - 1]
        /\ UNCHANGED waiters
        /\ pc' = [pc EXCEPT ![cur] = "run"] /\ sema' = [sema EXCEPT ![cur] = NoSema]
    BY <1>2, <1>5 DEF sema_down_loop, Goto
  <2>2. \A r \in Sema : Inside(r)' = IF r = s THEN Inside(s) \ {cur} ELSE Inside(r)
    <3>1. pc'[cur] = "run" /\ \A t \in Thread \ {cur} : pc'[t] = pc[t] /\ sema'[t] = sema[t]
      BY <1>1, <2>1 DEF IInv, TypeOK
    <3>2. \A t \in Thread : pc'[t] = "sema_down" <=> pc[t] = "sema_down" /\ t # cur
      BY <3>1
    <3>3. \A r \in Sema : Inside(r)' = Inside(r) \ {cur}
      BY <3>1, <3>2 DEF Inside
    <3> QED BY <1>3, <3>3
  <2>3. \A r \in Sema : Woken(r)' = IF r = s THEN Woken(s) \ {cur} ELSE Woken(r)
    BY <1>2, <2>1, <2>2, InsideSplits, InsideSplitsNext
  <2>4. [r \in Sema |-> Woken(r)]' = [[r \in Sema |-> Woken(r)] EXCEPT ![s] = @ \ {cur}]
    BY <2>3
  <2>5. value[s] > 0
    BY <1>1, <1>2, <1>5
  <2> QED BY <1>2, <1>4, <2>1, <2>4, <2>5 DEF Abstract!Proceed
<1>6. CASE value[s] = 0
  <2>1. /\ UNCHANGED value
        /\ waiters' = [waiters EXCEPT ![s] =
               list_insert_ordered(@, cur, less_priority(cur, priority))]
        /\ pc' = [pc EXCEPT ![cur] = "sema_down"] /\ sema' = [sema EXCEPT ![cur] = s]
    BY <1>2, <1>6 DEF sema_down_loop, Goto
  <2>2. \A r \in Sema : Inside(r)' = Inside(r)
    BY <1>1, <1>2, <2>1 DEF Inside, IInv, TypeOK, s
  <2>3. \A r \in Sema : Range(waiters'[r]) =
            IF r = s THEN Range(waiters[s]) \union {cur} ELSE Range(waiters[r])
    BY <1>2, <2>1, WaitersGrow
  <2>4. ASSUME NEW r \in Sema
        PROVE  Woken(r)' = IF r = s THEN Woken(s) \ {cur} ELSE Woken(r)
    <3>1. /\ Woken(r) = Inside(r) \ Range(waiters[r])
          /\ Woken(r)' = Inside(r)' \ Range(waiters'[r])
      BY InsideSplits, InsideSplitsNext
    <3>2. CASE r = s
      BY <2>2, <2>3, <3>1, <3>2
    <3>3. CASE r # s
      BY <2>2, <2>3, <3>1, <3>3
    <3> QED BY <3>2, <3>3
  <2>5. [r \in Sema |-> Woken(r)]' = [[r \in Sema |-> Woken(r)] EXCEPT ![s] = @ \ {cur}]
    BY <2>4
  <2>6. [r \in Sema |-> Range(waiters[r])]' =
            [[r \in Sema |-> Range(waiters[r])] EXCEPT ![s] = @ \union {cur}]
    BY <2>3
  <2> QED BY <1>2, <1>4, <1>6, <2>1, <2>5, <2>6 DEF Abstract!WaitAgain
<1> QED BY <1>5, <1>6

\* sema_up, in a thread or in an interrupt handler: Up.
LEMMA Ups ==
  ASSUME IInv, IInv', NEW s \in Sema,
         value' = [value EXCEPT ![s] = @ + 1], waiters' = upped_waiters(s),
         \A r \in Sema : Inside(r)' = Inside(r)
  PROVE  Abstract!Up(s)
<1>1. CASE waiters[s] = <<>>
  <2>1. Range(waiters[s]) = {}
    BY <1>1 DEF Range
  <2>2. waiters' = waiters
    BY <1>1 DEF upped_waiters
  <2>3. \A r \in Sema : Woken(r)' = Woken(r)
    BY <2>2, InsideSplits, InsideSplitsNext
  <2>4. [r \in Sema |-> Woken(r)]' = [r \in Sema |-> Woken(r)]
    BY <2>3
  <2> QED BY <2>1, <2>2, <2>4 DEF Abstract!Up
<1>2. CASE waiters[s] # <<>>
  <2> DEFINE h == Head(waiters[s])
  <2>1. /\ h \in Range(waiters[s])
        /\ \A r \in Sema : Range(waiters'[r]) =
               IF r = s THEN Range(waiters[s]) \ {h} ELSE Range(waiters[r])
    BY <1>2, WaitersShrink
  <2> HIDE DEF h
  <2>2. ASSUME NEW r \in Sema
        PROVE  Woken(r)' = IF r = s THEN Woken(s) \union {h} ELSE Woken(r)
    <3>1. /\ Woken(r) = Inside(r) \ Range(waiters[r])
          /\ Range(waiters[r]) \subseteq Inside(r)
          /\ Woken(r)' = Inside(r) \ Range(waiters'[r])
      BY InsideSplits, InsideSplitsNext
    <3>2. CASE r = s
      BY <2>1, <3>1, <3>2
    <3>3. CASE r # s
      BY <2>1, <3>1, <3>3
    <3> QED BY <3>2, <3>3
  <2>3. [r \in Sema |-> Woken(r)]' = [[r \in Sema |-> Woken(r)] EXCEPT ![s] = @ \union {h}]
    BY <2>2
  <2>4. [r \in Sema |-> Range(waiters[r])]' =
            [[r \in Sema |-> Range(waiters[r])] EXCEPT ![s] = @ \ {h}]
    BY <2>1
  <2> QED BY <2>1, <2>3, <2>4 DEF Abstract!Up
<1> QED BY <1>1, <1>2

\* Every step of the kernel is a step of Semaphore or a stutter.
LEMMA StepImplements ==
  ASSUME IInv, [Next]_vars
  PROVE  [Abstract!Next]_(Abstract!vars)
<1>1. IInv' /\ cur \in Thread /\ pc \in [Thread -> PC]
  BY NextPreserves DEF IInv, TypeOK
<1>2. ASSUME UNCHANGED semaVars,
             \A t \in Thread : pc'[t] = "sema_down" <=> pc[t] = "sema_down"
      PROVE  UNCHANGED Abstract!vars
  BY <1>1, <1>2, Stutters, NobodyMoves DEF semaVars
<1>3. ASSUME NEW p \in PC, UNCHANGED semaVars, Goto(p), p # "sema_down",
             pc[cur] # "sema_down"
      PROVE  UNCHANGED Abstract!vars
  BY <1>1, <1>2, <1>3 DEF Goto
<1>4. ASSUME UNCHANGED semaVars, AfterInterrupt \/ UNCHANGED pc
      PROVE  UNCHANGED Abstract!vars
  BY <1>1, <1>2, <1>4 DEF AfterInterrupt
<1>5. CASE \E t \in Thread, pri \in Priority : ThreadCreate(t, pri)
  <2>1. PICK t \in Thread, pri \in Priority : ThreadCreate(t, pri)
    BY <1>5
  <2>2. pc[cur] = "run" /\ pc[t] = "dead"
    BY <2>1 DEF ThreadCreate, At, IInv, ListInv, PcInv
  <2> QED BY <1>1, <1>2, <2>1, <2>2 DEF ThreadCreate
<1>6. CASE \E pri \in Priority : ThreadSetPriority(pri)
  BY <1>3, <1>6 DEF ThreadSetPriority, At, PC, IntrOffPC
<1>7. CASE ThreadExit
  BY <1>3, <1>7 DEF ThreadExit, At, PC, IntrOffPC
<1>8. CASE ThreadYield
  BY <1>4, <1>8 DEF ThreadYield
<1>9. CASE \E s \in Sema : SemaDown(s)
  BY <1>1, <1>9, FirstRound DEF SemaDown, At, Abstract!Next
<1>10. CASE \E s \in Sema : SemaTryDown(s)
  <2>1. PICK s \in Sema : SemaTryDown(s)
    BY <1>10
  <2>2. /\ value[s] > 0 /\ value' = [value EXCEPT ![s] = @ - 1]
        /\ UNCHANGED <<waiters, sema, pc>>
    BY <2>1 DEF SemaTryDown
  <2>3. \A r \in Sema : Inside(r)' = Inside(r)
    BY <2>2, NobodyMoves
  <2>4. \A r \in Sema : Woken(r)' = Woken(r)
    BY <1>1, <2>2, <2>3, InsideSplits, InsideSplitsNext
  <2>5. [r \in Sema |-> Woken(r)]' = [r \in Sema |-> Woken(r)]
    BY <2>4
  <2>6. Abstract!Down(s)
    BY <2>2, <2>5 DEF Abstract!Down
  <2> QED BY <2>6 DEF Abstract!Next
<1>11. CASE \E s \in Sema : SemaUp(s)
  <2>1. PICK s \in Sema : SemaUp(s)
    BY <1>11
  <2>2. \A t \in Thread : pc'[t] = "sema_down" <=> pc[t] = "sema_down"
    BY <1>1, <2>1 DEF SemaUp, At, Goto
  <2>3. Abstract!Up(s)
    BY <1>1, <2>1, <2>2, NobodyMoves, Ups DEF SemaUp
  <2> QED BY <2>3 DEF Abstract!Next
<1>12. CASE \E s \in Sema : DeviceInterrupt(s)
  <2>1. PICK s \in Sema : DeviceInterrupt(s)
    BY <1>12
  <2>2. \A t \in Thread : pc'[t] = "sema_down" <=> pc[t] = "sema_down"
    BY <1>1, <2>1 DEF DeviceInterrupt, AfterInterrupt
  <2>3. Abstract!Up(s)
    BY <1>1, <2>1, <2>2, NobodyMoves, Ups DEF DeviceInterrupt
  <2> QED BY <2>3 DEF Abstract!Next
<1>13. CASE \E n \in Durations : TimerSleep(n)
  BY <1>3, <1>13 DEF TimerSleep, At, PC, IntrOffPC
<1>14. CASE AllocateTid
  BY <1>3, <1>14 DEF AllocateTid, At, PC, IntrOffPC
<1>15. CASE RefreshPriority
  BY <1>3, <1>15 DEF RefreshPriority, At, PC, IntrOffPC
<1>16. CASE UnblockChild
  <2>1. /\ pc[cur] = "thread_unblock" /\ child \in Thread /\ pc[child] = "nascent"
        /\ pc' = [pc EXCEPT ![child] = "run", ![cur] = "cp_empty"]
    BY <1>16, CurFacts DEF UnblockChild, At, CreatePC, IInv, ListInv, PcInv
  <2> QED BY <1>1, <1>2, <1>16, <2>1 DEF UnblockChild
<1>17. CASE CheckEmpty
  BY <1>3, <1>17 DEF CheckEmpty, At, PC, IntrOffPC
<1>18. CASE CheckFront
  BY <1>3, <1>4, <1>18 DEF CheckFront, At, PC, IntrOffPC
<1>19. CASE CheckCompare
  BY <1>3, <1>19 DEF CheckCompare, At, PC, IntrOffPC
<1>20. CASE CheckYield
  BY <1>3, <1>20 DEF CheckYield, At, PC, IntrOffPC
<1>21. CASE SemaDownAgain
  BY <1>1, <1>21, LaterRound DEF Abstract!Next
<1>22. CASE TimerSleepBlock
  BY <1>3, <1>22 DEF TimerSleepBlock, At, PC, IntrOffPC
<1>23. CASE IdleBlock
  BY <1>3, <1>23 DEF IdleBlock, At, PC, IntrOffPC
<1>24. CASE TimerWakeup
  <2>1. /\ Head(sleep_list) \in Thread /\ Head(sleep_list) \in Range(sleep_list)
        /\ pc' = [pc EXCEPT ![Head(sleep_list)] = "run"]
    BY <1>24, PopRange DEF TimerWakeup, due, IInv, TypeOK
  <2>2. pc[Head(sleep_list)] = "asleep"
    BY <2>1 DEF IInv, ListInv, SleepInv
  <2> QED BY <1>1, <1>2, <1>24, <2>1, <2>2 DEF TimerWakeup
<1>25. CASE TimerReturn
  BY <1>4, <1>25 DEF TimerReturn
<1>26. CASE TimerInterrupt
  BY <1>4, <1>26 DEF TimerInterrupt
<1>27. CASE Halt \/ UNCHANGED vars
  BY <1>4, <1>27 DEF Halt, vars
<1> QED BY <1>5, <1>6, <1>7, <1>8, <1>9, <1>10, <1>11, <1>12, <1>13, <1>14, <1>15, <1>16,
        <1>17, <1>18, <1>19, <1>20, <1>21, <1>22, <1>23, <1>24, <1>25, <1>26, <1>27
     DEF Next, Call, Continue

\* Nobody waits or is woken at the start.
LEMMA InitImplements ==
  ASSUME Init
  PROVE  Abstract!Init
<1>1. value \in [Sema -> Nat]
  BY NumberAssumption DEF Init
<1>2. \A s \in Sema : Range(waiters[s]) = {} /\ Woken(s) = {}
  BY DEF Init, Range, Woken
<1> QED BY <1>1, <1>2 DEF Abstract!Init

\* sema_down, sema_try_down and sema_up implement module Semaphore,
\* under every schedule the kernel and its interrupts can produce.
THEOREM SemaphoresImplemented == Spec => ImplementsSemaphore
BY InitImplements, StepImplements, Invariance, PTL
   DEF Spec, ImplementsSemaphore, Abstract!Spec

-----------------------------------------------------------------------------
(* Counting wake-ups.                                                      *)

\* NoLostWakeup, with the finiteness that Cardinality needs.
CountInv ==
  \A s \in Sema : /\ IsFiniteSet(Woken(s))
                  /\ Range(waiters[s]) # {} => value[s] <= Cardinality(Woken(s))

\* What a step of Semaphore does to one semaphore s, whose woken threads are
\* W and waiting ones Q.
LEMMA OneSemaphore ==
  ASSUME IInv, [Abstract!Next]_(Abstract!vars), NEW s \in Sema
  PROVE  LET W == Woken(s)
             Q == Range(waiters[s])
         IN \/ Woken(s)' = W /\ Range(waiters'[s]) = Q /\ value'[s] = value[s]
            \/ Woken(s)' = W /\ Range(waiters'[s]) = Q /\ value'[s] = value[s] - 1
            \/ Woken(s)' = W /\ value[s] = 0 /\ value'[s] = 0
            \/ Woken(s)' = W /\ Range(waiters'[s]) = {} /\ Q = {}
            \/ Q # {} /\ value'[s] = value[s] + 1 /\ \E t \in Q : Woken(s)' = W \union {t}
            \/ /\ Range(waiters'[s]) = Q /\ value'[s] = value[s] - 1
               /\ \E t \in W : Woken(s)' = W \ {t}
            \/ value'[s] = 0 /\ \E t \in W : Woken(s)' = W \ {t}
<1> DEFINE wt == [r \in Sema |-> Range(waiters[r])]
           wk == [r \in Sema |-> Woken(r)]
<1>1. /\ wt[s] = Range(waiters[s]) /\ wk[s] = Woken(s)
      /\ wt'[s] = Range(waiters'[s]) /\ wk'[s] = Woken(s)'
      /\ DOMAIN wt = Sema /\ DOMAIN wk = Sema
      /\ value \in [Sema -> 0..MaxValue]
  BY DEF IInv, TypeOK
<1>2. CASE UNCHANGED Abstract!vars
  BY <1>1, <1>2 DEF Abstract!vars
<1>3. ASSUME NEW r \in Sema, Abstract!Down(r)
      PROVE  /\ wt' = wt /\ wk' = wk
             /\ value' = [value EXCEPT ![r] = @ - 1]
  BY <1>3 DEF Abstract!Down
<1>4. ASSUME NEW r \in Sema, NEW t \in Thread, Abstract!Wait(t, r)
      PROVE  /\ wt' = [wt EXCEPT ![r] = @ \union {t}] /\ wk' = wk
             /\ value[r] = 0 /\ value' = value
  BY <1>4 DEF Abstract!Wait
<1>5. ASSUME NEW r \in Sema, Abstract!Up(r)
      PROVE  /\ value' = [value EXCEPT ![r] = @ + 1]
             /\ \/ wt[r] = {} /\ wt' = wt /\ wk' = wk
                \/ \E t \in wt[r] : /\ wt' = [wt EXCEPT ![r] = @ \ {t}]
                                    /\ wk' = [wk EXCEPT ![r] = @ \union {t}]
  BY <1>5 DEF Abstract!Up
<1>6. ASSUME NEW r \in Sema, NEW t \in Thread, Abstract!Proceed(t, r)
      PROVE  /\ t \in wk[r] /\ wt' = wt /\ wk' = [wk EXCEPT ![r] = @ \ {t}]
             /\ value' = [value EXCEPT ![r] = @ - 1]
  BY <1>6 DEF Abstract!Proceed
<1>7. ASSUME NEW r \in Sema, NEW t \in Thread, Abstract!WaitAgain(t, r)
      PROVE  /\ t \in wk[r] /\ wt' = [wt EXCEPT ![r] = @ \union {t}]
             /\ wk' = [wk EXCEPT ![r] = @ \ {t}]
             /\ value[r] = 0 /\ value' = value
  BY <1>7 DEF Abstract!WaitAgain
<1> HIDE DEF wt, wk
<1>8. CASE \E r \in Sema : Abstract!Down(r)
  <2>1. PICK r \in Sema : Abstract!Down(r)
    BY <1>8
  <2> QED BY <1>1, <1>3, <2>1
<1>9. CASE \E r \in Sema : Abstract!Up(r)
  <2>1. PICK r \in Sema : Abstract!Up(r)
    BY <1>9
  <2>2. CASE r = s
    BY <1>1, <1>5, <2>1, <2>2
  <2>3. CASE r # s
    BY <1>1, <1>5, <2>1, <2>3
  <2> QED BY <2>2, <2>3
<1>10. CASE \E r \in Sema : \E t \in Thread : Abstract!Wait(t, r)
  <2>1. PICK r \in Sema : \E t \in Thread : Abstract!Wait(t, r)
    BY <1>10
  <2>2. CASE r = s
    BY <1>1, <1>4, <2>1, <2>2
  <2>3. CASE r # s
    BY <1>1, <1>4, <2>1, <2>3
  <2> QED BY <2>2, <2>3
<1>11. CASE \E r \in Sema : \E t \in Thread : Abstract!Proceed(t, r)
  <2>1. PICK r \in Sema : \E t \in Thread : Abstract!Proceed(t, r)
    BY <1>11
  <2>2. CASE r = s
    BY <1>1, <1>6, <2>1, <2>2
  <2>3. CASE r # s
    BY <1>1, <1>6, <2>1, <2>3
  <2> QED BY <2>2, <2>3
<1>12. CASE \E r \in Sema : \E t \in Thread : Abstract!WaitAgain(t, r)
  <2>1. PICK r \in Sema : \E t \in Thread : Abstract!WaitAgain(t, r)
    BY <1>12
  <2>2. CASE r = s
    BY <1>1, <1>7, <2>1, <2>2
  <2>3. CASE r # s
    BY <1>1, <1>7, <2>1, <2>3
  <2> QED BY <2>2, <2>3
<1> QED BY <1>2, <1>8, <1>9, <1>10, <1>11, <1>12 DEF Abstract!Next

\* Each of Semaphore's steps keeps the count.
LEMMA CountStep ==
  ASSUME IInv, CountInv, [Abstract!Next]_(Abstract!vars)
  PROVE  CountInv'
<1> SUFFICES ASSUME NEW s \in Sema
             PROVE  /\ IsFiniteSet(Woken(s)')
                    /\ Range(waiters'[s]) # {} => value'[s] <= Cardinality(Woken(s)')
  BY DEF CountInv
<1> DEFINE W == Woken(s)
           W2 == Woken(s)'
           Q == Range(waiters[s])
           Q2 == Range(waiters'[s])
           v == value[s]
           v2 == value'[s]
<1>1. /\ IsFiniteSet(W) /\ Cardinality(W) \in Nat /\ v \in Nat
      /\ Q # {} => v <= Cardinality(W)
  BY FS_CardinalityType, NumberAssumption DEF CountInv, IInv, TypeOK
<1>2. \A t \in Q : t \notin W
  BY InsideSplits
<1>3. \/ W2 = W /\ Q2 = Q /\ v2 = v
      \/ W2 = W /\ Q2 = Q /\ v2 = v - 1
      \/ W2 = W /\ v = 0 /\ v2 = 0
      \/ W2 = W /\ Q2 = {} /\ Q = {}
      \/ Q # {} /\ v2 = v + 1 /\ \E t \in Q : W2 = W \union {t}
      \/ Q2 = Q /\ v2 = v - 1 /\ \E t \in W : W2 = W \ {t}
      \/ v2 = 0 /\ \E t \in W : W2 = W \ {t}
  BY OneSemaphore
<1> HIDE DEF W, W2, Q, Q2, v, v2
<1>4. ASSUME NEW t \in Q
      PROVE  IsFiniteSet(W \union {t}) /\ Cardinality(W \union {t}) = Cardinality(W) + 1
  BY <1>1, <1>2, FS_AddElement
<1>5. ASSUME NEW t \in W
      PROVE  IsFiniteSet(W \ {t}) /\ Cardinality(W \ {t}) = Cardinality(W) - 1
  BY <1>1, FS_RemoveElement
<1>6. /\ IsFiniteSet(W2)
      /\ Q2 # {} => v2 <= Cardinality(W2)
  <2>1. CASE W2 = W
    BY <1>1, <1>3, <1>4, <2>1
  <2>2. CASE Q # {} /\ v2 = v + 1 /\ \E t \in Q : W2 = W \union {t}
    BY <1>1, <1>4, <2>2
  <2>3. CASE Q2 = Q /\ v2 = v - 1 /\ \E t \in W : W2 = W \ {t}
    BY <1>1, <1>5, <2>3
  <2>4. CASE v2 = 0 /\ \E t \in W : W2 = W \ {t}
    <3>1. PICK t \in W : W2 = W \ {t}
      BY <2>4
    <3>2. IsFiniteSet(W2) /\ Cardinality(W2) \in Nat
      BY <1>5, <3>1, FS_CardinalityType
    <3> QED BY <2>4, <3>2
  <2> QED BY <1>3, <2>1, <2>2, <2>3, <2>4
<1> QED BY <1>6 DEF W2, Q2, v2

\* Nobody has been woken at the start.
LEMMA InitCount ==
  ASSUME Init
  PROVE  CountInv
<1>1. \A s \in Sema : Range(waiters[s]) = {} /\ Woken(s) = {}
  BY DEF Init, Range, Woken
<1> QED BY <1>1, FS_EmptySet DEF CountInv

\* No sema_up is lost: while threads wait on a semaphore, each unit of its
\* value is matched by a woken thread that has yet to test it.
THEOREM NoUpIsLost == Spec => []NoLostWakeup
<1>1. ASSUME IInv, CountInv, [Next]_vars PROVE CountInv'
  BY <1>1, StepImplements, CountStep
<1>2. ASSUME IInv, CountInv PROVE NoLostWakeup
  <2>1. ASSUME NEW s \in Sema, waiters[s] # <<>>
        PROVE  Range(waiters[s]) # {}
    BY <1>2, <2>1, PopRange DEF IInv, TypeOK
  <2> QED BY <1>2, <2>1 DEF CountInv, NoLostWakeup
<1> QED BY <1>1, <1>2, InitCount, Invariance, PTL DEF Spec

=============================================================================
