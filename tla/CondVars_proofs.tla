--------------------------- MODULE CondVars_proofs --------------------------
(***************************************************************************)
(* What the condition variables of CondVars build on the locks, for every  *)
(* number of threads, locks and condition variables: the lock around       *)
(* cond->waiters, the account of the signals, types, what is left of the   *)
(* lists, and why a signal wakes while no lock is contended.               *)
(***************************************************************************)
EXTENDS CondVars, Donation_proofs

-----------------------------------------------------------------------------
(* The lock around cond->waiters.                                          *)

Guarded(t) == NeedsLock(t) => holder[Mutex[cond[t]]] = t

GuardInv == OwnerInv /\ StageInv /\ WaitersGuarded

\* Every condition variable has a lock.
LEMMA MutexIsLock == \A c \in Cond : Mutex[c] \in Lock /\ c # NULL
BY CondAssumption

\* A thread that a step does not move keeps its place and its locks.
LEMMA ThreadKept ==
  ASSUME NEW t \in Thread, InPlace(t), Guarded(t),
         stage'[t] = stage[t], cond'[t] = cond[t], max_e'[t] = max_e[t],
         pc'[t] = pc[t], lock'[t] = lock[t],
         \A l \in Lock : holder[l] = t => holder'[l] = t
  PROVE  InPlace(t)' /\ Guarded(t)'
<1>1. InPlace(t)'
  BY DEF InPlace
<1>2. NeedsLock(t)' => NeedsLock(t) /\ cond[t] \in Cond
  BY DEF NeedsLock, InPlace
<1> QED BY <1>1, <1>2, MutexIsLock DEF Guarded

\* The step of a thread outside cond_wait and cond_signal keeps it in place.
LEMMA OutsideKept ==
  ASSUME NEW t \in Thread, stage'[t] = "none"
  PROVE  InPlace(t)' /\ Guarded(t)'
BY DEF InPlace, Guarded, NeedsLock

\* A lock that is held stays held when another is taken.
LEMMA TakeKeepsHeld ==
  ASSUME OwnerInv, NEW l \in Lock, value[l] # 0, holder' = [holder EXCEPT ![l] = cur]
  PROVE  \A k \in Lock, t \in Thread : holder[k] = t => holder'[k] = t
<1>1. Owners(l) = {}
  BY DEF OwnerInv
<1>2. \A t \in Thread : holder[l] # t
  BY <1>1 DEF Owners
<1> QED BY <1>2 DEF OwnerInv

\* What lock_acquire does to a lock it finds without a holder, or goes on to
\* do once it has the CPU again.
LEMMA LoopEffect ==
  ASSUME OwnerInv, NEW l \in Lock, cur \in Thread, sema_down_loop(l)
  PROVE  /\ \A k \in Lock, t \in Thread : holder[k] = t => holder'[k] = t
         /\ \/ pc' = [pc EXCEPT ![cur] = "sema_down"]
            \/ pc' = [pc EXCEPT ![cur] = "run"] /\ holder'[l] = cur
<1>1. CASE value[l] = 0
  <2>1. block_on(l)
    BY <1>1 DEF sema_down_loop
  <2> QED BY <2>1, BlockOnLeaves
<1>2. CASE value[l] # 0
  <2>1. /\ holder' = [holder EXCEPT ![l] = cur]
        /\ pc' = [pc EXCEPT ![cur] = "run"]
    BY <1>2 DEF sema_down_loop, take, Goto
  <2> QED BY ZenonT(40), <1>2, <2>1, TakeKeepsHeld DEF OwnerInv
<1> QED BY <1>1, <1>2

\* lock_acquire: the calling thread has the lock or waits for it.
LEMMA AcquireEffect ==
  ASSUME OwnerInv, NEW l \in Lock, AcquireFree(l) \/ AcquireHeld(l)
  PROVE  /\ cur \in Thread /\ pc[cur] = "run"
         /\ lock' = [lock EXCEPT ![cur] = l]
         /\ \A k \in Lock, t \in Thread : holder[k] = t => holder'[k] = t
         /\ \/ pc' = [pc EXCEPT ![cur] = "sema_down"]
            \/ pc' = [pc EXCEPT ![cur] = "wait"]
            \/ pc' = [pc EXCEPT ![cur] = "run"] /\ holder'[l] = cur
<1>1. CASE AcquireFree(l)
  <2>1. cur \in Thread /\ pc[cur] = "run"
    BY <1>1, AtRuns DEF AcquireFree
  <2> QED BY <1>1, <2>1, LoopEffect DEF AcquireFree
<1>2. CASE AcquireHeld(l)
  <2>1. cur \in Thread /\ pc[cur] = "run"
    BY <1>2, AtRuns DEF AcquireHeld
  <2> QED BY <1>2, <2>1 DEF AcquireHeld, Goto
<1> QED BY <1>1, <1>2

\* A call by the running thread takes no lock from another.
LEMMA CallEffect ==
  ASSUME OwnerInv, Call
  PROVE  /\ cur \in Thread
         /\ \A t \in Thread \ {cur} :
                /\ pc'[t] = pc[t] /\ lock'[t] = lock[t]
                /\ \A k \in Lock : holder[k] = t => holder'[k] = t
<1>1. ASSUME NEW l \in Lock, AcquireFree(l) \/ AcquireHeld(l)
      PROVE  /\ cur \in Thread
             /\ \A t \in Thread \ {cur} :
                    /\ pc'[t] = pc[t] /\ lock'[t] = lock[t]
                    /\ \A k \in Lock : holder[k] = t => holder'[k] = t
  BY <1>1, AcquireEffect DEF OwnerInv
<1>2. ASSUME NEW l \in Lock, LockRelease(l)
      PROVE  /\ cur \in Thread
             /\ \A t \in Thread \ {cur} :
                    /\ pc'[t] = pc[t] /\ lock'[t] = lock[t]
                    /\ \A k \in Lock : holder[k] = t => holder'[k] = t
  BY <1>2, ReleaseEffect DEF OwnerInv
<1>3. ASSUME NEW l \in TryLock, TryAcquire(l)
      PROVE  /\ cur \in Thread
             /\ \A t \in Thread \ {cur} :
                    /\ pc'[t] = pc[t] /\ lock'[t] = lock[t]
                    /\ \A k \in Lock : holder[k] = t => holder'[k] = t
  <2>1. cur \in Thread
    BY <1>3, AtRuns DEF TryAcquire
  <2> QED BY <1>3, <2>1 DEF TryAcquire, Goto, OwnerInv
<1>4. ASSUME NEW pri \in NewPriority, ThreadSetPriority(pri)
      PROVE  /\ cur \in Thread
             /\ \A t \in Thread \ {cur} :
                    /\ pc'[t] = pc[t] /\ lock'[t] = lock[t]
                    /\ \A k \in Lock : holder[k] = t => holder'[k] = t
  <2>1. cur \in Thread
    BY <1>4, AtRuns DEF ThreadSetPriority
  <2> QED BY <1>4, <2>1 DEF ThreadSetPriority, Goto, OwnerInv
<1> QED BY <1>1, <1>2, <1>3, <1>4 DEF Call

\* The steps of Locks keep the list guarded.
LEMMA LockStepGuards ==
  ASSUME GuardInv, LockStep, UNCHANGED condVars
  PROVE  \A t \in Thread : InPlace(t)' /\ Guarded(t)'
<1> SUFFICES ASSUME NEW t \in Thread
             PROVE  InPlace(t)' /\ Guarded(t)'
  OBVIOUS
<1>1. /\ OwnerInv /\ InPlace(t) /\ Guarded(t)
      /\ stage'[t] = stage[t] /\ cond'[t] = cond[t] /\ max_e'[t] = max_e[t]
  BY DEF GuardInv, StageInv, WaitersGuarded, Guarded, condVars
<1>2. CASE InStage("none") /\ Call
  <2>1. CASE t = cur
    BY <1>1, <1>2, <2>1, OutsideKept DEF InStage
  <2>2. CASE t # cur
    BY <1>1, <1>2, <2>2, CallEffect, ThreadKept
  <2> QED BY <2>1, <2>2
<1>3. CASE ~InStage("sema") /\ SemaDown
  <2>1. cur \in Thread /\ cur # Idle /\ pc[cur] \in {"wait", "sema_down"}
    BY <1>1, <1>3, AtRuns DEF SemaDown
  <2>2. lock[cur] \in Lock /\ lock' = lock /\ sema_down_loop(lock[cur])
    BY <1>1, <1>3, <2>1 DEF SemaDown, OwnerInv
  <2>3. /\ \A k \in Lock, u \in Thread : holder[k] = u => holder'[k] = u
        /\ \/ pc' = [pc EXCEPT ![cur] = "sema_down"]
           \/ pc' = [pc EXCEPT ![cur] = "run"] /\ holder'[lock[cur]] = cur
    BY <1>1, <2>1, <2>2, LoopEffect
  <2>4. CASE t # cur
    <3>1. pc'[t] = pc[t]
      BY <1>1, <2>3, <2>4 DEF OwnerInv
    <3> QED BY <1>1, <2>2, <2>3, <3>1, ThreadKept
  <2>5. CASE t = cur
    <3>1. stage[t] # "sema"
      BY <1>3, <2>1, <2>5 DEF InStage
    <3>2. stage[t] \in {"none", "return"}
      BY <1>1, <2>1, <2>5, <3>1 DEF InPlace, GuardInv, StageInv, Stage
    <3>3. CASE stage[t] = "none"
      BY <1>1, <3>3, OutsideKept
    <3>4. CASE stage[t] = "return"
      <4>1. lock[t] = Mutex[cond[t]] /\ cond[t] \in Cond /\ lock[t] \in Lock
        BY <1>1, <2>1, <2>5, <3>4 DEF InPlace
      <4>2. pc'[t] = "sema_down" \/ (pc'[t] = "run" /\ holder'[lock[t]] = t)
        BY <1>1, <2>3, <2>5 DEF OwnerInv
      <4> QED BY <1>1, <2>2, <3>4, <4>1, <4>2 DEF InPlace, Guarded, NeedsLock
    <3> QED BY <3>2, <3>3, <3>4
  <2> QED BY <2>4, <2>5
<1>4. CASE TryOwn
  <2>1. /\ cur \in Thread /\ pc[cur] = "try"
        /\ pc' = [pc EXCEPT ![cur] = "run"] /\ lock' = lock
    BY <1>1, <1>4, AtRuns DEF TryOwn, Goto
  <2>2. \A k \in Lock : holder[k] = t => holder'[k] = t
    BY <1>1, <1>4, TryOwnOwns, Distinct DEF OwnerInv
  <2>3. CASE t = cur
    <3>1. stage[t] = "none"
      BY <1>1, <2>1, <2>3 DEF InPlace, GuardInv, StageInv, Stage
    <3> QED BY <1>1, <3>1, OutsideKept
  <2>4. CASE t # cur
    BY <1>1, <2>1, <2>2, <2>4, ThreadKept DEF OwnerInv
  <2> QED BY <2>3, <2>4
<1>5. CASE Refresh \/ Check
  <2>1. /\ cur \in Thread /\ pc[cur] \in {"refresh", "check"}
        /\ pc' = [pc EXCEPT ![cur] = "run"]
        /\ lock' = lock /\ holder' = holder
    BY <1>1, <1>5, CheckLeaves
  <2>2. CASE t = cur
    <3>1. pc'[t] = "run" /\ stage[t] \notin {"return", "release", "acquire"}
      BY <1>1, <2>1, <2>2 DEF InPlace, OwnerInv
    <3> QED BY <1>1, <2>1, <3>1 DEF InPlace, Guarded, NeedsLock
  <2>3. CASE t # cur
    BY <1>1, <2>1, <2>3, ThreadKept DEF OwnerInv
  <2> QED BY <2>2, <2>3
<1>6. CASE Interrupt
  <2>1. /\ pc'[t] = pc[t] \/ pc[t] = "asleep"
        /\ lock' = lock /\ holder' = holder
    BY <1>1, <1>6, InterruptLeaves DEF OwnerInv
  <2>2. CASE pc[t] = "asleep"
    <3>1. stage[t] = "none"
      BY <1>1, <2>2 DEF InPlace, GuardInv, StageInv, Stage
    <3> QED BY <1>1, <3>1, OutsideKept
  <2>3. CASE pc'[t] = pc[t]
    BY <1>1, <2>1, <2>3, ThreadKept
  <2> QED BY <2>1, <2>2, <2>3
<1> QED BY <1>2, <1>3, <1>4, <1>5, <1>6 DEF LockStep, Continue

\* The types of what CondVars adds to Locks.
CondTypes ==
    /\ cond_waiters \in [Cond -> Seq(Thread)]
    /\ cond \in [Thread -> Cond \union {NULL}]
    /\ stage \in [Thread -> Stage]
    /\ max_e \in [Thread -> Thread \union {NULL}]
    /\ rest \in [Thread -> Seq(Thread)]
    /\ broadcast \in [Thread -> BOOLEAN]

\* What GuardInv says of the running thread when it is at a stage.
LEMMA StageRuns ==
  ASSUME GuardInv, NEW s, InStage(s)
  PROVE  /\ cur \in Thread /\ stage[cur] = s
         /\ OwnerInv /\ CondTypes /\ InPlace(cur) /\ Guarded(cur)
BY DEF GuardInv, OwnerInv, StageInv, CondTypes, WaitersGuarded, Guarded, InStage

\* The same where the thread is not inside a call.
LEMMA AtStageRuns ==
  ASSUME GuardInv, NEW s, AtStage(s)
  PROVE  /\ cur \in Thread /\ pc[cur] = "run" /\ stage[cur] = s
         /\ OwnerInv /\ CondTypes /\ InPlace(cur) /\ Guarded(cur)
BY StageRuns, AtRuns DEF AtStage

\* The parts of GuardInv, put together after a step of one thread that leaves
\* the others and their locks alone.
LEMMA GuardKept ==
  ASSUME GuardInv, OwnerInv', CondTypes', NEW me \in Thread,
         InPlace(me)', Guarded(me)',
         \A t \in Thread \ {me} :
             /\ stage'[t] = stage[t] /\ cond'[t] = cond[t] /\ max_e'[t] = max_e[t]
             /\ pc'[t] = pc[t] /\ lock'[t] = lock[t]
             /\ \A l \in Lock : holder[l] = t => holder'[l] = t
  PROVE  GuardInv'
<1>1. ASSUME NEW t \in Thread
      PROVE  InPlace(t)' /\ Guarded(t)'
  <2>1. InPlace(t) /\ Guarded(t)
    BY DEF GuardInv, StageInv, WaitersGuarded, Guarded
  <2> QED BY <2>1, ThreadKept
<1> QED BY <1>1 DEF GuardInv, StageInv, WaitersGuarded, Guarded, CondTypes

\* Joining cond->waiters.
LEMMA CondWaitGuards ==
  ASSUME GuardInv, NEW c \in Cond, CondWait(c)
  PROVE  GuardInv'
<1>1. PICK me \in Thread : me = cur
  BY AtStageRuns DEF CondWait
<1>2. pc[me] = "run" /\ stage[me] = "none" /\ OwnerInv /\ CondTypes
  BY <1>1, AtStageRuns DEF CondWait
<1>3. /\ holder[Mutex[c]] = me
      /\ value' = [value EXCEPT ![me] = 0]
      /\ cond_waiters' = [cond_waiters EXCEPT ![c] = Append(@, me)]
      /\ cond' = [cond EXCEPT ![me] = c]
      /\ stage' = [stage EXCEPT ![me] = "release"]
      /\ cur' = cur /\ pc' = pc /\ lock' = lock /\ holder' = holder
      /\ max_e' = max_e /\ rest' = rest /\ broadcast' = broadcast
  BY <1>1 DEF CondWait, NextStage, threadVars
<1>4. Mutex[c] \in Lock /\ lock[me] \in Lock
  BY <1>2, <1>3, MutexIsLock DEF OwnerInv
<1>5. value' \in [Sema -> Nat] /\ \A l \in Lock : value'[l] = value[l]
  BY <1>2, <1>3, Distinct DEF OwnerInv
<1>6. OwnerInv'
  BY <1>2, <1>3, <1>5, OwnersKept DEF OwnerInv
<1>7. CondTypes'
  BY <1>2, <1>3 DEF CondTypes, Stage
<1>8. InPlace(me)' /\ Guarded(me)'
  BY <1>2, <1>3, <1>4 DEF InPlace, Guarded, NeedsLock, CondTypes
<1> QED BY <1>2, <1>3, <1>6, <1>7, <1>8, GuardKept DEF CondTypes

\* The lock_release of cond_wait: the one step that gives the lock up.
LEMMA CondReleaseGuards ==
  ASSUME GuardInv, CondRelease
  PROVE  GuardInv'
<1>1. PICK me \in Thread : me = cur
  BY StageRuns DEF CondRelease
<1>2. stage[me] = "release" /\ OwnerInv /\ CondTypes /\ InPlace(me)
  BY <1>1, StageRuns DEF CondRelease
<1>3. PICK l \in Lock : l = mutex
  BY <1>1, <1>2, MutexIsLock DEF InPlace, mutex
<1>4. /\ LockRelease(l)
      /\ stage' = [stage EXCEPT ![me] = "sema"]
      /\ cond_waiters' = cond_waiters /\ cond' = cond
      /\ max_e' = max_e /\ rest' = rest /\ broadcast' = broadcast
  BY <1>1, <1>3 DEF CondRelease, NextStage
<1>5. /\ lock' = lock /\ pc[me] = "run"
      /\ \/ holder' = holder /\ pc' = pc
         \/ /\ holder' = [holder EXCEPT ![l] = NULL]
            /\ pc' = [pc EXCEPT ![me] = "refresh"]
      /\ holder[l] = me
  BY <1>1, <1>2, <1>4, ReleaseEffect
<1>6. OwnerInv'
  BY <1>2, <1>4, ReleaseOwns
<1>7. CondTypes'
  BY <1>2, <1>4 DEF CondTypes, Stage
<1>8. InPlace(me)' /\ Guarded(me)'
  <2>1. stage'[me] = "sema" /\ pc'[me] \in {"run", "refresh"} /\ cond'[me] = cond[me]
    BY <1>2, <1>4, <1>5 DEF OwnerInv, CondTypes
  <2> QED BY <1>2, <1>5, <2>1 DEF InPlace, Guarded, NeedsLock
<1>9. ASSUME NEW t \in Thread \ {me}
      PROVE  /\ stage'[t] = stage[t] /\ pc'[t] = pc[t]
             /\ \A k \in Lock : holder[k] = t => holder'[k] = t
  BY <1>2, <1>4, <1>5 DEF CondTypes, OwnerInv
<1> QED BY <1>4, <1>5, <1>6, <1>7, <1>8, <1>9, GuardKept

\* sema_down of the thread's own semaphore.
LEMMA CondDownGuards ==
  ASSUME GuardInv, CondDown
  PROVE  GuardInv'
<1>1. PICK me \in Thread : me = cur
  BY StageRuns DEF CondDown
<1>2. stage[me] = "sema" /\ OwnerInv /\ CondTypes /\ InPlace(me)
  BY <1>1, StageRuns DEF CondDown
<1>3. /\ lock' = lock /\ cond_waiters' = cond_waiters /\ cond' = cond
      /\ max_e' = max_e /\ rest' = rest /\ broadcast' = broadcast
      /\ pc[me] \in {"run", "sema_down"}
  BY <1>1, <1>2, AtRuns DEF CondDown
<1>4. lock[me] \in Lock
  BY <1>2 DEF InPlace
<1>5. CASE value[me] = 0
  <2>1. block_on(me) /\ stage' = stage
    BY <1>1, <1>5 DEF CondDown
  <2>2. /\ cur' \in Thread \union {Idle}
        /\ pc' = [pc EXCEPT ![me] = "sema_down"]
        /\ value' = value /\ holder' = holder
    BY <1>1, <2>1, BlockOnLeaves
  <2>3. pc' \in [Thread -> PC]
    BY <1>2, <2>2 DEF OwnerInv, PC, IntrOffPC
  <2>4. OwnerInv'
    BY <1>2, <1>3, <1>4, <2>2, <2>3, OwnersKept DEF OwnerInv
  <2>5. CondTypes'
    BY <1>2, <1>3, <2>1 DEF CondTypes
  <2>6. InPlace(me)' /\ Guarded(me)'
    <3>1. stage'[me] = "sema" /\ pc'[me] = "sema_down"
      BY <1>2, <2>1, <2>2 DEF OwnerInv
    <3> QED BY <1>2, <1>3, <3>1 DEF InPlace, Guarded, NeedsLock
  <2>7. \A t \in Thread \ {me} : pc'[t] = pc[t]
    BY <1>2, <2>2 DEF OwnerInv
  <2> QED BY <1>3, <2>1, <2>2, <2>4, <2>5, <2>6, <2>7, GuardKept
<1>6. CASE value[me] # 0
  <2>1. /\ value' = [value EXCEPT ![me] = @ - 1]
        /\ pc' = [pc EXCEPT ![me] = "run"]
        /\ stage' = [stage EXCEPT ![me] = "acquire"]
        /\ cur' = cur /\ holder' = holder
    BY <1>1, <1>6 DEF CondDown, Goto, NextStage
  <2>2. pc' \in [Thread -> PC]
    BY <1>2, <2>1 DEF OwnerInv, PC
  <2>3. value' \in [Sema -> Nat] /\ \A l \in Lock : value'[l] = value[l]
    <3>1. me \in Sema /\ value[me] \in Nat
      BY <1>2 DEF OwnerInv, Sema
    <3> QED BY <1>2, <1>6, <2>1, <3>1, Distinct DEF OwnerInv
  <2>4. OwnerInv'
    BY <1>2, <1>3, <1>4, <2>1, <2>2, <2>3, OwnersKept DEF OwnerInv
  <2>5. CondTypes'
    BY <1>2, <1>3, <2>1 DEF CondTypes, Stage
  <2>6. InPlace(me)' /\ Guarded(me)'
    <3>1. stage'[me] = "acquire" /\ pc'[me] = "run"
      BY <1>2, <2>1 DEF OwnerInv, CondTypes
    <3> QED BY <1>2, <1>3, <3>1 DEF InPlace, Guarded, NeedsLock
  <2>7. \A t \in Thread \ {me} : pc'[t] = pc[t] /\ stage'[t] = stage[t]
    BY <1>2, <2>1 DEF OwnerInv, CondTypes
  <2> QED BY <1>3, <2>1, <2>4, <2>5, <2>6, <2>7, GuardKept
<1> QED BY <1>5, <1>6

\* The lock_acquire of cond_wait: the thread has the lock or waits for it.
LEMMA CondAcquireGuards ==
  ASSUME GuardInv, CondAcquire
  PROVE  GuardInv'
<1>1. PICK me \in Thread : me = cur
  BY StageRuns DEF CondAcquire
<1>2. stage[me] = "acquire" /\ OwnerInv /\ CondTypes /\ InPlace(me)
  BY <1>1, StageRuns DEF CondAcquire
<1>3. PICK l \in Lock : l = mutex
  BY <1>1, <1>2, MutexIsLock DEF InPlace, mutex
<1>4. /\ AcquireFree(l) \/ AcquireHeld(l)
      /\ stage' = [stage EXCEPT ![me] = "return"]
      /\ cond_waiters' = cond_waiters /\ cond' = cond
      /\ max_e' = max_e /\ rest' = rest /\ broadcast' = broadcast
  BY <1>1, <1>3 DEF CondAcquire, NextStage
<1>5. /\ lock' = [lock EXCEPT ![me] = l]
      /\ \A k \in Lock, t \in Thread : holder[k] = t => holder'[k] = t
      /\ \/ pc' = [pc EXCEPT ![me] = "sema_down"]
         \/ pc' = [pc EXCEPT ![me] = "wait"]
         \/ pc' = [pc EXCEPT ![me] = "run"] /\ holder'[l] = me
  BY <1>1, <1>2, <1>4, AcquireEffect
<1>6. OwnerInv'
  BY <1>2, <1>4, AcquireFreeOwns, AcquireHeldOwns
<1>7. CondTypes'
  BY <1>2, <1>4 DEF CondTypes, Stage
<1>8. InPlace(me)' /\ Guarded(me)'
  <2>1. /\ stage'[me] = "return" /\ cond'[me] = cond[me] /\ cond[me] \in Cond
        /\ l = Mutex[cond[me]] /\ lock'[me] = l
    BY <1>1, <1>2, <1>3, <1>4, <1>5 DEF OwnerInv, CondTypes, InPlace, mutex
  <2>2. pc'[me] \in {"sema_down", "wait"} \/ (pc'[me] = "run" /\ holder'[l] = me)
    BY <1>2, <1>5 DEF OwnerInv
  <2> QED BY <2>1, <2>2 DEF InPlace, Guarded, NeedsLock
<1>9. \A t \in Thread \ {me} :
          stage'[t] = stage[t] /\ pc'[t] = pc[t] /\ lock'[t] = lock[t]
  BY <1>2, <1>4, <1>5 DEF CondTypes, OwnerInv
<1> QED BY <1>4, <1>5, <1>6, <1>7, <1>8, <1>9, GuardKept

\* The return from cond_wait.
LEMMA CondReturnGuards ==
  ASSUME GuardInv, CondReturn
  PROVE  GuardInv'
<1>1. PICK me \in Thread : me = cur
  BY AtStageRuns DEF CondReturn
<1>2. pc[me] = "run" /\ stage[me] = "return" /\ OwnerInv /\ CondTypes
  BY <1>1, AtStageRuns DEF CondReturn
<1>3. /\ pc' = [pc EXCEPT ![me] = "check"]
      /\ stage' = [stage EXCEPT ![me] = "none"]
      /\ cur' = cur /\ lock' = lock /\ holder' = holder /\ value' = value
      /\ cond_waiters' = cond_waiters /\ cond' = cond
      /\ max_e' = max_e /\ rest' = rest /\ broadcast' = broadcast
  BY <1>1 DEF CondReturn, Goto, NextStage
<1>4. pc' \in [Thread -> PC]
  BY <1>2, <1>3 DEF OwnerInv, PC
<1>5. OwnerInv'
  BY <1>2, <1>3, <1>4, OwnersKept DEF OwnerInv
<1>6. CondTypes'
  BY <1>2, <1>3 DEF CondTypes, Stage
<1>7. InPlace(me)' /\ Guarded(me)'
  BY <1>2, <1>3, OutsideKept DEF CondTypes
<1>8. \A t \in Thread \ {me} : pc'[t] = pc[t] /\ stage'[t] = stage[t]
  BY <1>2, <1>3 DEF OwnerInv, CondTypes
<1> QED BY <1>3, <1>5, <1>6, <1>7, <1>8, GuardKept

\* list_max begins with an element of the list.
LEMMA BeginMaxTypes ==
  ASSUME CondTypes, NEW me \in Thread, me = cur, NEW w \in Seq(Thread), w # <<>>,
         begin_max(w)
  PROVE  /\ stage' = [stage EXCEPT ![me] = "compare"] /\ stage' \in [Thread -> Stage]
         /\ max_e' = [max_e EXCEPT ![me] = Head(w)]
         /\ max_e' \in [Thread -> Thread \union {NULL}]
         /\ max_e'[me] = Head(w) /\ Head(w) \in Thread
         /\ rest' = [rest EXCEPT ![me] = Tail(w)] /\ rest' \in [Thread -> Seq(Thread)]
<1>1. Head(w) \in Thread /\ Tail(w) \in Seq(Thread)
  BY PopSeq
<1> QED BY <1>1 DEF CondTypes, begin_max, NextStage, Stage

\* The call of cond_signal or cond_broadcast.
LEMMA CondSignalGuards ==
  ASSUME GuardInv, NEW c \in Cond, NEW all \in BOOLEAN, CondSignal(c, all)
  PROVE  GuardInv'
<1>1. PICK me \in Thread : me = cur
  BY AtStageRuns DEF CondSignal
<1>2. pc[me] = "run" /\ stage[me] = "none" /\ OwnerInv /\ CondTypes
  BY <1>1, AtStageRuns DEF CondSignal
<1>3. /\ holder[Mutex[c]] = me
      /\ cond' = [cond EXCEPT ![me] = c]
      /\ broadcast' = [broadcast EXCEPT ![me] = all]
      /\ cond_waiters[c] # <<>> /\ begin_max(cond_waiters[c])
      /\ cur' = cur /\ pc' = pc /\ lock' = lock /\ holder' = holder /\ value' = value
      /\ cond_waiters' = cond_waiters
  BY <1>1 DEF CondSignal, vars, threadVars
<1>4. cond_waiters[c] \in Seq(Thread)
  BY <1>2 DEF CondTypes
<1>5. /\ stage' = [stage EXCEPT ![me] = "compare"] /\ stage' \in [Thread -> Stage]
      /\ max_e' = [max_e EXCEPT ![me] = Head(cond_waiters[c])]
      /\ max_e' \in [Thread -> Thread \union {NULL}] /\ max_e'[me] \in Thread
      /\ rest' \in [Thread -> Seq(Thread)]
  BY <1>1, <1>2, <1>3, <1>4, BeginMaxTypes
<1>6. Mutex[c] \in Lock /\ lock[me] \in Lock
  BY <1>2, <1>3, MutexIsLock DEF OwnerInv
<1>7. OwnerInv'
  BY <1>2, <1>3, OwnersKept DEF OwnerInv
<1>8. CondTypes'
  BY <1>2, <1>3, <1>5 DEF CondTypes
<1>9. InPlace(me)' /\ Guarded(me)'
  BY <1>2, <1>3, <1>5, <1>6 DEF InPlace, Guarded, NeedsLock, CondTypes
<1>10. \A t \in Thread \ {me} :
           stage'[t] = stage[t] /\ cond'[t] = cond[t] /\ max_e'[t] = max_e[t]
  BY <1>2, <1>3, <1>5 DEF CondTypes
<1> QED BY <1>3, <1>7, <1>8, <1>9, <1>10, GuardKept

\* A comparison of list_max.
LEMMA CondCompareEffect ==
  ASSUME GuardInv, CondCompare
  PROVE  /\ cur \in Thread /\ stage[cur] = "compare" /\ rest[cur] # <<>>
         /\ Head(rest[cur]) \in Thread /\ max_e[cur] \in Thread
         /\ \/ UNCHANGED <<max_e, rest>>
            \/ /\ rest' = [rest EXCEPT ![cur] = Tail(rest[cur])]
               /\ \/ max_e' = [max_e EXCEPT ![cur] = Head(rest[cur])]
                  \/ max_e' = [max_e EXCEPT ![cur] = max_e[cur]]
         /\ CondTypes'
         /\ UNCHANGED <<cur, pc, lock, holder, value, cond_waiters, cond, stage, broadcast>>
<1>1. /\ cur \in Thread /\ stage[cur] = "compare" /\ rest[cur] # <<>>
      /\ CondTypes /\ max_e[cur] \in Thread
  BY AtStageRuns DEF CondCompare, InPlace
<1>2. Head(rest[cur]) \in Thread /\ Tail(rest[cur]) \in Seq(Thread)
  BY <1>1, PopSeq DEF CondTypes
<1>3. UNCHANGED <<cur, pc, lock, holder, value, cond_waiters, cond, stage, broadcast>>
  BY DEF CondCompare, threadVars
<1>4. \/ UNCHANGED <<max_e, rest>>
      \/ /\ rest' = [rest EXCEPT ![cur] = Tail(rest[cur])]
         /\ \/ max_e' = [max_e EXCEPT ![cur] = Head(rest[cur])]
            \/ max_e' = [max_e EXCEPT ![cur] = max_e[cur]]
  BY DEF CondCompare
<1>5. max_e' \in [Thread -> Thread \union {NULL}] /\ rest' \in [Thread -> Seq(Thread)]
  <2>1. max_e \in [Thread -> Thread \union {NULL}] /\ rest \in [Thread -> Seq(Thread)]
    BY <1>1 DEF CondTypes
  <2>2. CASE UNCHANGED <<max_e, rest>>
    BY <2>1, <2>2
  <2>3. CASE rest' = [rest EXCEPT ![cur] = Tail(rest[cur])]
    BY <1>1, <1>2, <1>4, <2>1, <2>3
  <2> QED BY <1>4, <2>2, <2>3
<1> QED BY <1>1, <1>2, <1>3, <1>4, <1>5 DEF CondTypes

\* The same step and the lock.
LEMMA CondCompareGuards ==
  ASSUME GuardInv, CondCompare
  PROVE  GuardInv'
<1>1. PICK me \in Thread : me = cur
  BY CondCompareEffect
<1>2. /\ stage[me] = "compare" /\ OwnerInv /\ CondTypes /\ InPlace(me) /\ Guarded(me)
  BY <1>1, AtStageRuns DEF CondCompare
<1>3. /\ cur' = cur /\ pc' = pc /\ lock' = lock /\ holder' = holder /\ value' = value
      /\ stage' = stage /\ cond' = cond /\ CondTypes'
  BY CondCompareEffect
<1>4. max_e'[me] \in Thread /\ \A t \in Thread \ {me} : max_e'[t] = max_e[t]
  BY <1>1, <1>2, CondCompareEffect DEF CondTypes
<1>5. OwnerInv'
  BY <1>2, <1>3, OwnersKept DEF OwnerInv
<1>6. InPlace(me)' /\ Guarded(me)'
  BY <1>2, <1>3, <1>4 DEF InPlace, Guarded, NeedsLock
<1> QED BY <1>3, <1>4, <1>5, <1>6, GuardKept

\* list_remove takes an element off the list of the call.
LEMMA CondRemoveEffect ==
  ASSUME GuardInv, CondRemove
  PROVE  /\ cur \in Thread /\ stage[cur] = "compare" /\ cond[cur] \in Cond
         /\ max_e[cur] \in Thread
         /\ cond_waiters' = [cond_waiters EXCEPT ![cond[cur]] = RemoveFirst(@, max_e[cur])]
         /\ stage' = [stage EXCEPT ![cur] = "up"]
         /\ CondTypes'
         /\ UNCHANGED <<cur, pc, lock, holder, value, cond, max_e, rest, broadcast>>
<1>1. /\ cur \in Thread /\ stage[cur] = "compare" /\ cond[cur] \in Cond
      /\ CondTypes /\ max_e[cur] \in Thread
  BY AtStageRuns DEF CondRemove, InPlace
<1>2. /\ cond_waiters' = [cond_waiters EXCEPT ![cond[cur]] = RemoveFirst(@, max_e[cur])]
      /\ stage' = [stage EXCEPT ![cur] = "up"]
      /\ UNCHANGED <<cur, pc, lock, holder, value, cond, max_e, rest, broadcast>>
  BY DEF CondRemove, NextStage, vars, threadVars
<1>3. RemoveFirst(cond_waiters[cond[cur]], max_e[cur]) \in Seq(Thread)
  BY <1>1, RemoveSeq DEF CondTypes
<1> QED BY <1>1, <1>2, <1>3 DEF CondTypes, Stage

\* The same step and the lock.
LEMMA CondRemoveGuards ==
  ASSUME GuardInv, CondRemove
  PROVE  GuardInv'
<1>1. PICK me \in Thread : me = cur
  BY CondRemoveEffect
<1>2. /\ stage[me] = "compare" /\ OwnerInv /\ CondTypes /\ InPlace(me) /\ Guarded(me)
  BY <1>1, AtStageRuns DEF CondRemove
<1>3. /\ cur' = cur /\ pc' = pc /\ lock' = lock /\ holder' = holder /\ value' = value
      /\ stage' = [stage EXCEPT ![me] = "up"] /\ cond' = cond /\ max_e' = max_e
      /\ CondTypes'
  BY <1>1, CondRemoveEffect
<1>4. OwnerInv'
  BY <1>2, <1>3, OwnersKept DEF OwnerInv
<1>5. InPlace(me)' /\ Guarded(me)'
  BY <1>2, <1>3 DEF InPlace, Guarded, NeedsLock, CondTypes
<1>6. \A t \in Thread \ {me} : stage'[t] = stage[t]
  BY <1>2, <1>3 DEF CondTypes
<1> QED BY <1>3, <1>4, <1>5, <1>6, GuardKept

\* The sema_up of cond_signal, after which cond_broadcast may go on.
LEMMA CondUpEffect ==
  ASSUME GuardInv, CondUp
  PROVE  /\ cur \in Thread /\ stage[cur] = "up" /\ cond[cur] \in Cond
         /\ max_e[cur] \in Thread
         /\ value' = [value EXCEPT ![max_e[cur]] = @ + 1]
         /\ pc' = [pc EXCEPT ![cur] = "check"]
         /\ \/ /\ cond_waiters[cond[cur]] # <<>>
               /\ stage' = [stage EXCEPT ![cur] = "compare"]
               /\ max_e' = [max_e EXCEPT ![cur] = Head(cond_waiters[cond[cur]])]
               /\ rest' = [rest EXCEPT ![cur] = Tail(cond_waiters[cond[cur]])]
               /\ Head(cond_waiters[cond[cur]]) \in Thread
            \/ /\ stage' = [stage EXCEPT ![cur] = "none"]
               /\ max_e' = [max_e EXCEPT ![cur] = NULL]
               /\ rest' = rest
         /\ CondTypes'
         /\ UNCHANGED <<cur, lock, holder, cond_waiters, cond>>
<1>1. /\ cur \in Thread /\ stage[cur] = "up" /\ cond[cur] \in Cond
      /\ CondTypes /\ max_e[cur] \in Thread
  BY AtStageRuns DEF CondUp, InPlace
<1>2. /\ value' = [value EXCEPT ![max_e[cur]] = @ + 1]
      /\ pc' = [pc EXCEPT ![cur] = "check"]
      /\ UNCHANGED <<cur, lock, holder, cond_waiters, cond>>
  BY DEF CondUp, Goto
<1>3. PICK w \in Seq(Thread) : w = cond_waiters[cond[cur]]
  BY <1>1 DEF CondTypes
<1>4. CASE broadcast[cur] /\ w # <<>>
  <2>1. begin_max(w) /\ broadcast' = broadcast
    BY <1>3, <1>4 DEF CondUp
  <2>2. /\ stage' = [stage EXCEPT ![cur] = "compare"] /\ stage' \in [Thread -> Stage]
        /\ max_e' = [max_e EXCEPT ![cur] = Head(w)]
        /\ max_e' \in [Thread -> Thread \union {NULL}] /\ Head(w) \in Thread
        /\ rest' = [rest EXCEPT ![cur] = Tail(w)] /\ rest' \in [Thread -> Seq(Thread)]
    BY <1>1, <1>4, <2>1, BeginMaxTypes
  <2> QED BY <1>1, <1>2, <1>3, <1>4, <2>1, <2>2 DEF CondTypes
<1>5. CASE ~(broadcast[cur] /\ w # <<>>)
  <2>1. /\ stage' = [stage EXCEPT ![cur] = "none"]
        /\ broadcast' = [broadcast EXCEPT ![cur] = FALSE]
        /\ max_e' = [max_e EXCEPT ![cur] = NULL]
        /\ rest' = rest
    BY <1>3, <1>5 DEF CondUp, NextStage
  <2> QED BY <1>1, <1>2, <2>1 DEF CondTypes, Stage
<1> QED BY <1>4, <1>5

\* The same step and the lock.
LEMMA CondUpGuards ==
  ASSUME GuardInv, CondUp
  PROVE  GuardInv'
<1>1. PICK me \in Thread : me = cur
  BY CondUpEffect
<1>2. /\ stage[me] = "up" /\ pc[me] = "run"
      /\ OwnerInv /\ CondTypes /\ InPlace(me) /\ Guarded(me)
  BY <1>1, AtStageRuns DEF CondUp
<1>3. /\ max_e[me] \in Thread
      /\ value' = [value EXCEPT ![max_e[me]] = @ + 1]
      /\ pc' = [pc EXCEPT ![me] = "check"]
      /\ cur' = cur /\ lock' = lock /\ holder' = holder
      /\ cond' = cond /\ CondTypes'
  BY <1>1, CondUpEffect
<1>4. /\ \/ stage'[me] = "compare" /\ max_e'[me] \in Thread
         \/ stage'[me] = "none"
      /\ \A t \in Thread \ {me} : stage'[t] = stage[t] /\ max_e'[t] = max_e[t]
  BY <1>1, <1>2, CondUpEffect DEF CondTypes
<1>5. pc' \in [Thread -> PC] /\ \A t \in Thread \ {me} : pc'[t] = pc[t]
  BY <1>2, <1>3 DEF OwnerInv, PC
<1>6. value' \in [Sema -> Nat] /\ \A l \in Lock : value'[l] = value[l]
  <2>1. max_e[me] \in Sema /\ value[max_e[me]] \in Nat
    BY <1>2, <1>3 DEF OwnerInv, Sema
  <2> QED BY <1>2, <1>3, <2>1, Distinct DEF OwnerInv
<1>7. OwnerInv'
  BY <1>2, <1>3, <1>5, <1>6, OwnersKept DEF OwnerInv
<1>8. InPlace(me)' /\ Guarded(me)'
  <2>1. pc'[me] = "check"
    BY <1>2, <1>3 DEF OwnerInv
  <2> QED BY <1>2, <1>3, <1>4, <2>1, OutsideKept DEF InPlace, Guarded, NeedsLock
<1> QED BY <1>3, <1>4, <1>5, <1>7, <1>8, GuardKept

\* A step of Locks.
LEMMA LockStepKeeps ==
  ASSUME GuardInv, LockStep, UNCHANGED condVars
  PROVE  GuardInv'
<1>1. OwnerInv'
  BY CallOwns, SemaDownStepOwns, ContinueOwns, InterruptOwns DEF LockStep, GuardInv
<1>2. CondTypes'
  BY DEF GuardInv, StageInv, CondTypes, condVars
<1> QED BY <1>1, <1>2, LockStepGuards DEF GuardInv, StageInv, WaitersGuarded, Guarded, CondTypes

\* Every step keeps the list guarded.
LEMMA NextGuards ==
  ASSUME GuardInv, [CondNext]_allVars
  PROVE  GuardInv'
<1>1. CASE CondCall
  BY <1>1, CondWaitGuards, CondSignalGuards DEF CondCall
<1>2. CASE CondContinue
  BY <1>2, CondReleaseGuards, CondDownGuards, CondAcquireGuards, CondReturnGuards,
     CondCompareGuards, CondRemoveGuards, CondUpGuards DEF CondContinue
<1>3. CASE LockStep /\ UNCHANGED condVars
  BY <1>3, LockStepKeeps
<1>4. CASE UNCHANGED allVars
  <2>1. OwnerInv'
    BY <1>4 DEF allVars, vars, threadVars, GuardInv, OwnerInv, Owners
  <2>2. StageInv' /\ WaitersGuarded'
    BY <1>4 DEF allVars, vars, threadVars, condVars, GuardInv, StageInv, InPlace,
       WaitersGuarded, NeedsLock
  <2> QED BY <2>1, <2>2 DEF GuardInv
<1> QED BY <1>1, <1>2, <1>3, <1>4 DEF CondNext

\* At the start nobody waits.
LEMMA InitGuards == CondInit => GuardInv
<1> SUFFICES ASSUME CondInit PROVE GuardInv
  OBVIOUS
<1>1. OwnerInv
  BY InitOwns DEF CondInit
<1>2. StageInv /\ WaitersGuarded
  BY DEF CondInit, StageInv, Stage, InPlace, WaitersGuarded, NeedsLock
<1> QED BY <1>1, <1>2 DEF GuardInv

\* What the next theorems rest on.
THEOREM GuardInvariance == CondSpec => []GuardInv
BY InitGuards, NextGuards, PTL DEF CondSpec

\* The locks exclude each other's holders under condition variables too, whose
\* lock_release and lock_acquire are calls of their own.
THEOREM MutualExclusionWithConds == CondSpec => []OneOwner
<1>1. GuardInv => OneOwner
  BY OwnerCount DEF GuardInv
<1> QED BY <1>1, GuardInvariance, PTL

\* cond->waiters is only read or changed by the holder of the lock, and
\* cond_wait returns with the lock held.
THEOREM ConditionGuarded == CondSpec => []WaitersGuarded
<1>1. GuardInv => WaitersGuarded
  BY DEF GuardInv
<1> QED BY <1>1, GuardInvariance, PTL

\* Two threads that need the lock of the same condition variable are one.
LEMMA OneUser ==
  ASSUME GuardInv, NEW t \in Thread, NEW u \in Thread, NeedsLock(t), cond[t] = cond[u],
         NeedsLock(u) \/ holder[Mutex[cond[u]]] = u
  PROVE  t = u
BY DEF GuardInv, WaitersGuarded

\* The list changes in two steps only.
LEMMA ListChanges ==
  ASSUME [CondNext]_allVars, cond_waiters' # cond_waiters
  PROVE  (\E c \in Cond : CondWait(c)) \/ CondRemove
<1>1. ASSUME NEW c \in Cond, NEW all \in BOOLEAN, CondSignal(c, all)
      PROVE  cond_waiters' = cond_waiters
  BY <1>1 DEF CondSignal
<1>2. ASSUME CondContinue, ~CondRemove
      PROVE  cond_waiters' = cond_waiters
  BY <1>2 DEF CondContinue, CondRelease, CondDown, CondAcquire, CondReturn, CondCompare, CondUp
<1> QED BY <1>1, <1>2 DEF CondNext, CondCall, allVars, condVars

\* While a thread goes through cond->waiters nobody else changes it, although
\* interrupts are on: a list_max compares what is on the list, and the loop
\* of cond_broadcast ends.
THEOREM ListStable == CondSpec => ListStableInSignal
<1> DEFINE Stable(t) ==
        LET c == cond[t]
        IN stage[t] \in {"compare", "up"} /\ cond_waiters'[c] # cond_waiters[c] =>
               /\ cur = t
               /\ cond_waiters'[c] = RemoveFirst(cond_waiters[c], max_e[t])
<1>1. ASSUME GuardInv, [CondNext]_allVars, NEW t \in Thread
      PROVE  Stable(t)
  <2> SUFFICES ASSUME stage[t] \in {"compare", "up"},
                      cond_waiters'[cond[t]] # cond_waiters[cond[t]]
               PROVE  /\ cur = t
                      /\ cond_waiters'[cond[t]] = RemoveFirst(cond_waiters[cond[t]], max_e[t])
    OBVIOUS
  <2>1. NeedsLock(t) /\ cond[t] \in Cond /\ CondTypes
    BY <1>1 DEF NeedsLock, GuardInv, StageInv, InPlace, CondTypes
  <2>2. ASSUME NEW c \in Cond, CondWait(c)
        PROVE  FALSE
    <3>1. /\ cur \in Thread /\ stage[cur] = "none" /\ holder[Mutex[c]] = cur
          /\ cond_waiters' = [cond_waiters EXCEPT ![c] = Append(@, cur)]
      BY <1>1, <2>2, AtStageRuns DEF CondWait
    <3>2. cond[t] = c
      BY <2>1, <3>1 DEF CondTypes
    <3> QED BY <1>1, <2>1, <3>1, <3>2 DEF GuardInv, WaitersGuarded
  <2>3. CondRemove
    BY <1>1, <2>2, ListChanges
  <2>4. /\ cur \in Thread /\ stage[cur] = "compare" /\ cond[cur] \in Cond
        /\ cond_waiters' = [cond_waiters EXCEPT ![cond[cur]] = RemoveFirst(@, max_e[cur])]
    BY <1>1, <2>3, CondRemoveEffect
  <2>5. cond[t] = cond[cur]
    BY <2>1, <2>4 DEF CondTypes
  <2>6. NeedsLock(cur)
    BY <2>4 DEF NeedsLock
  <2>7. cur = t
    BY <1>1, <2>1, <2>4, <2>5, <2>6, OneUser
  <2> QED BY <2>1, <2>4, <2>7 DEF CondTypes
<1>2. ASSUME GuardInv, [CondNext]_allVars
      PROVE  [\A t \in Thread : Stable(t)]_allVars
  BY <1>1, <1>2
<1> QED BY <1>2, GuardInvariance, PTL DEF CondSpec, ListStableInSignal

-----------------------------------------------------------------------------
(* The account of the signals.                                             *)

\* Stages at which a thread is on the list, or reads it.
Waiting == {"release", "sema"}
Signalling == {"compare", "up"}

\* What is on a list is a thread that waits on it.
LEMMA OnListWaits ==
  ASSUME SignalInv, CondTypes, NEW c \in Cond, NEW t \in Range(cond_waiters[c])
  PROVE  t \in Thread /\ cond[t] = c /\ stage[t] \in Waiting
<1>1. t \in Thread
  BY SeqElement DEF CondTypes
<1> QED BY <1>1 DEF SignalInv, ListSound, Waiting

\* A step that changes no list and no semaphore of a thread, and moves threads
\* only between stages that the account does not mention.
LEMMA SignalKept ==
  ASSUME SignalInv, CondTypes, StageInv, cond_waiters' = cond_waiters,
         \A t \in Thread :
             /\ value'[t] = value[t]
             /\ cond'[t] = cond[t] /\ max_e'[t] = max_e[t] /\ rest'[t] = rest[t]
             /\ \/ stage'[t] = stage[t]
                \/ {stage[t], stage'[t]} \intersect (Waiting \union Signalling) = {}
  PROVE  SignalInv'
<1>1. ASSUME NEW c \in Cond
      PROVE  ListSound(c)'
  <2>1. ListSound(c)
    BY DEF SignalInv
  <2>2. ASSUME NEW t \in Range(cond_waiters[c])
        PROVE  cond'[t] = c /\ stage'[t] \in {"release", "sema"}
    BY <1>1, OnListWaits DEF Waiting
  <2> QED BY <2>1, <2>2 DEF ListSound
<1>2. ASSUME NEW t \in Thread
      PROVE  Accounted(t)'
  <2>1. Accounted(t)
    BY DEF SignalInv
  <2>2. Listed(t)' <=> Listed(t)
    BY DEF Listed
  <2>3. Picked(t)' <=> Picked(t)
    BY DEF Picked, Waiting, Signalling
  <2>4. CASE stage'[t] # stage[t]
    BY <2>4 DEF Accounted, Waiting, Signalling
  <2>5. CASE stage'[t] = stage[t] /\ stage[t] = "up"
    <3>1. max_e[t] \in Thread
      BY <2>5 DEF StageInv, InPlace
    <3>2. PICK x \in Thread : x = max_e[t]
      BY <3>1
    <3>3. stage[x] = "sema" /\ cond[x] = cond[t] /\ ~Listed(x) /\ value[x] = 0
      BY <2>1, <2>5, <3>2 DEF Accounted
    <3>4. stage'[x] = "sema" /\ cond'[x] = cond'[t] /\ value'[x] = 0
      BY <3>3 DEF Waiting
    <3>5. ~Listed(x)'
      BY <3>3 DEF Listed
    <3>6. max_e'[t] = x
      BY <3>2
    <3> QED BY <2>5, <3>4, <3>5, <3>6 DEF Accounted, Listed
  <2>6. CASE stage'[t] = stage[t] /\ stage[t] # "up"
    BY <2>1, <2>2, <2>3, <2>6 DEF Accounted
  <2> QED BY <2>4, <2>5, <2>6
<1> QED BY <1>1, <1>2 DEF SignalInv

\* A thread that a step does not move stays accounted for, if the step spares
\* the list it compares and the thread it has picked.
LEMMA AccountKept ==
  ASSUME NEW t \in Thread, InPlace(t), Accounted(t),
         stage'[t] = stage[t], cond'[t] = cond[t], max_e'[t] = max_e[t],
         rest'[t] = rest[t], value'[t] = value[t],
         stage[t] \in Waiting => (Listed(t)' <=> Listed(t)),
         stage[t] = "sema" /\ Picked(t) => Picked(t)',
         stage[t] = "compare" => cond_waiters'[cond[t]] = cond_waiters[cond[t]],
         \A x \in Thread :
             stage[t] = "up" /\ x = max_e[t] =>
                 /\ stage'[x] = stage[x] /\ cond'[x] = cond[x] /\ value'[x] = value[x]
                 /\ Listed(x)' => Listed(x)
  PROVE  Accounted(t)'
<1>1. CASE stage[t] = "up"
  <2>1. PICK x \in Thread : x = max_e[t]
    BY <1>1 DEF InPlace
  <2>2. stage[x] = "sema" /\ cond[x] = cond[t] /\ ~Listed(x) /\ value[x] = 0
    BY <1>1, <2>1 DEF Accounted
  <2>3. stage'[x] = "sema" /\ cond'[x] = cond'[t] /\ ~Listed(x)' /\ value'[x] = 0
    BY <1>1, <2>1, <2>2
  <2>4. max_e'[t] = x
    BY <2>1
  <2> QED BY <1>1, <2>3, <2>4 DEF Accounted, Listed
<1>2. CASE stage[t] = "compare"
  BY <1>2 DEF Accounted
<1>3. CASE stage[t] \in Waiting
  BY <1>3 DEF Accounted, Waiting
<1>4. CASE stage[t] \notin Waiting \union Signalling
  BY <1>4 DEF Accounted, Waiting, Signalling
<1> QED BY <1>1, <1>2, <1>3, <1>4 DEF Signalling

\* A thread that is not at a stage of the account has no place in it: it is on
\* no list and nobody has picked it.
LEMMA NotInAccount ==
  ASSUME SignalInv, StageInv, NEW me \in Thread, stage[me] \notin Waiting
  PROVE  /\ \A c \in Cond : me \notin Range(cond_waiters[c])
         /\ \A t \in Thread : stage[t] = "up" => max_e[t] # me
<1>1. CondTypes
  BY DEF StageInv, CondTypes
<1> QED BY <1>1, OnListWaits DEF SignalInv, Accounted, Waiting

\* Joining the list.
LEMMA CondWaitAccounts ==
  ASSUME GuardInv, SignalInv, NEW c \in Cond, CondWait(c)
  PROVE  SignalInv'
<1>1. PICK me \in Thread : me = cur
  BY AtStageRuns DEF CondWait
<1>2. stage[me] = "none" /\ CondTypes /\ StageInv /\ OwnerInv
  BY <1>1, AtStageRuns DEF CondWait, GuardInv
<1>3. /\ holder[Mutex[c]] = me
      /\ value' = [value EXCEPT ![me] = 0]
      /\ cond_waiters' = [cond_waiters EXCEPT ![c] = Append(@, me)]
      /\ cond' = [cond EXCEPT ![me] = c]
      /\ stage' = [stage EXCEPT ![me] = "release"]
      /\ max_e' = max_e /\ rest' = rest
  BY <1>1 DEF CondWait, NextStage
<1>4. /\ \A d \in Cond : me \notin Range(cond_waiters[d])
      /\ \A t \in Thread : stage[t] = "up" => max_e[t] # me
  BY <1>2, NotInAccount DEF Waiting
<1>5. /\ stage'[me] = "release" /\ cond'[me] = c /\ value'[me] = 0
      /\ \A t \in Thread \ {me} :
             stage'[t] = stage[t] /\ cond'[t] = cond[t] /\ value'[t] = value[t]
  BY <1>2, <1>3 DEF CondTypes, OwnerInv, Sema
<1>6. /\ \A t : t \in Range(cond_waiters'[c]) <=> t \in Range(cond_waiters[c]) \/ t = me
      /\ IsInjective(cond_waiters'[c])
      /\ \A d \in Cond \ {c} : cond_waiters'[d] = cond_waiters[d]
  <2>1. cond_waiters[c] \in Seq(Thread) /\ cond_waiters'[c] = Append(cond_waiters[c], me)
    BY <1>2, <1>3 DEF CondTypes
  <2>2. IsInjective(cond_waiters[c])
    BY DEF SignalInv, ListSound
  <2>3. /\ \A t : t \in Range(cond_waiters'[c]) <=> t \in Range(cond_waiters[c]) \/ t = me
        /\ IsInjective(cond_waiters'[c])
    BY <1>4, <2>1, <2>2, PushSeq
  <2> QED BY <1>2, <1>3, <2>3 DEF CondTypes
<1>7. \A d \in Cond : \A t \in Thread \ {me} :
          t \in Range(cond_waiters'[d]) <=> t \in Range(cond_waiters[d])
  BY <1>6
<1>8. ASSUME NEW d \in Cond
      PROVE  ListSound(d)'
  <2>1. IsInjective(cond_waiters'[d])
    BY <1>6 DEF SignalInv, ListSound
  <2>2. ASSUME NEW t \in Range(cond_waiters'[d])
        PROVE  cond'[t] = d /\ stage'[t] \in {"release", "sema"}
    <3>1. CASE t = me
      BY <1>4, <1>5, <1>6, <3>1
    <3>2. CASE t # me
      <4>1. t \in Range(cond_waiters[d])
        BY <1>6, <3>2
      <4>2. t \in Thread /\ cond[t] = d /\ stage[t] \in {"release", "sema"}
        BY <1>2, <4>1, OnListWaits DEF Waiting
      <4> QED BY <1>5, <3>2, <4>2
    <3> QED BY <3>1, <3>2
  <2> QED BY <2>1, <2>2 DEF ListSound
<1>9. ASSUME NEW t \in Thread
      PROVE  Accounted(t)'
  <2>1. InPlace(t) /\ Accounted(t)
    BY <1>2 DEF StageInv, SignalInv
  <2>2. CASE t = me
    <3>1. me \in Range(cond_waiters'[cond'[me]])
      BY <1>5, <1>6
    <3> QED BY <1>5, <2>2, <3>1 DEF Accounted, Listed
  <2>3. CASE t # me
    <3>1. \A x \in Thread \ {me} : stage[x] # "none" => (Listed(x)' <=> Listed(x))
      BY <1>2, <1>5, <1>7 DEF Listed, StageInv, InPlace
    <3>2. Picked(t) => Picked(t)'
      BY <1>2, <1>3, <1>5 DEF Picked
    <3>3. stage[t] = "compare" => cond_waiters'[cond[t]] = cond_waiters[cond[t]]
      <4> SUFFICES ASSUME stage[t] = "compare" PROVE cond[t] # c
        BY <1>6, <2>1 DEF InPlace
      <4> QED BY <1>3, <2>3 DEF GuardInv, WaitersGuarded, NeedsLock
    <3>4. ASSUME NEW x \in Thread, stage[t] = "up", x = max_e[t]
          PROVE  /\ stage'[x] = stage[x] /\ cond'[x] = cond[x] /\ value'[x] = value[x]
                 /\ Listed(x)' => Listed(x)
      <4>1. x # me /\ stage[x] = "sema"
        BY <1>4, <2>1, <3>4 DEF Accounted
      <4> QED BY <1>5, <3>1, <4>1
    <3>5. stage[t] \in Waiting => (Listed(t)' <=> Listed(t))
      BY <2>3, <3>1 DEF Waiting
    <3> QED BY <1>3, <1>5, <2>1, <2>3, <3>2, <3>3, <3>4, <3>5, AccountKept
  <2> QED BY <2>2, <2>3
<1> QED BY <1>8, <1>9 DEF SignalInv

\* Letting go of the lock: the thread is on the list.
LEMMA CondReleaseAccounts ==
  ASSUME GuardInv, SignalInv, CondRelease
  PROVE  SignalInv'
<1>1. PICK me \in Thread : me = cur
  BY StageRuns DEF CondRelease
<1>2. /\ stage[me] = "release" /\ CondTypes /\ StageInv /\ OwnerInv
      /\ InPlace(me) /\ Accounted(me)
  BY <1>1, StageRuns DEF CondRelease, GuardInv, SignalInv
<1>3. PICK l \in Lock : l = mutex
  BY <1>1, <1>2, MutexIsLock DEF InPlace, mutex
<1>4. /\ LockRelease(l)
      /\ stage' = [stage EXCEPT ![me] = "sema"]
      /\ cond_waiters' = cond_waiters /\ cond' = cond
      /\ max_e' = max_e /\ rest' = rest
  BY <1>1, <1>3 DEF CondRelease, NextStage
<1>5. \A t \in Thread : value'[t] = value[t]
  <2>1. value' = value \/ value' = [value EXCEPT ![l] = @ + 1]
    BY <1>2, <1>4, ReleaseEffect
  <2> QED BY <1>2, <2>1, Distinct DEF OwnerInv, Sema
<1>6. stage'[me] = "sema" /\ \A t \in Thread \ {me} : stage'[t] = stage[t]
  BY <1>2, <1>4 DEF CondTypes
<1>7. \A t \in Thread : (Listed(t)' <=> Listed(t)) /\ (Picked(t) => Picked(t)')
  BY <1>2, <1>4, <1>6 DEF Listed, Picked
<1>8. ASSUME NEW d \in Cond
      PROVE  ListSound(d)'
  <2>1. ListSound(d)
    BY DEF SignalInv
  <2>2. ASSUME NEW t \in Range(cond_waiters[d])
        PROVE  cond'[t] = d /\ stage'[t] \in {"release", "sema"}
    BY <1>2, <1>4, <1>6, OnListWaits DEF Waiting
  <2> QED BY <1>4, <2>1, <2>2 DEF ListSound
<1>9. ASSUME NEW t \in Thread
      PROVE  Accounted(t)'
  <2>1. InPlace(t) /\ Accounted(t)
    BY <1>2 DEF StageInv, SignalInv
  <2>2. CASE t = me
    BY <1>2, <1>4, <1>5, <1>6, <1>7, <2>2 DEF Accounted
  <2>3. CASE t # me
    <3>1. ASSUME NEW x \in Thread, stage[t] = "up", x = max_e[t]
          PROVE  stage'[x] = stage[x]
      <4>1. x # me
        BY <1>2, <2>1, <3>1 DEF Accounted
      <4> QED BY <1>6, <4>1
    <3> QED BY <1>4, <1>5, <1>6, <1>7, <2>1, <2>3, <3>1, AccountKept
  <2> QED BY <2>2, <2>3
<1> QED BY <1>8, <1>9 DEF SignalInv

\* sema_down: a thread whose semaphore is up is on no list, and nobody has
\* picked it.
LEMMA CondDownAccounts ==
  ASSUME GuardInv, SignalInv, CondDown
  PROVE  SignalInv'
<1>1. PICK me \in Thread : me = cur
  BY StageRuns DEF CondDown
<1>2. /\ stage[me] = "sema" /\ CondTypes /\ StageInv /\ OwnerInv
      /\ InPlace(me) /\ Accounted(me)
  BY <1>1, StageRuns DEF CondDown, GuardInv, SignalInv
<1>3. cond_waiters' = cond_waiters /\ cond' = cond /\ max_e' = max_e /\ rest' = rest
  BY DEF CondDown
<1>4. CASE value[me] = 0
  <2>1. block_on(me) /\ stage' = stage
    BY <1>1, <1>4 DEF CondDown
  <2>2. value' = value
    BY <2>1 DEF block_on
  <2> QED BY <1>2, <1>3, <2>1, <2>2, SignalKept
<1>5. CASE value[me] # 0
  <2>1. /\ value' = [value EXCEPT ![me] = @ - 1]
        /\ stage' = [stage EXCEPT ![me] = "acquire"]
    BY <1>1, <1>5 DEF CondDown, NextStage
  <2>2. ~Listed(me) /\ \A t \in Thread : stage[t] = "up" => max_e[t] # me
    BY <1>2, <1>5 DEF Accounted, SignalInv
  <2>3. /\ stage'[me] = "acquire"
        /\ \A t \in Thread \ {me} : stage'[t] = stage[t] /\ value'[t] = value[t]
    BY <1>2, <2>1 DEF CondTypes, OwnerInv, Sema
  <2>4. \A t \in Thread : (Listed(t)' <=> Listed(t)) /\ (Picked(t) => Picked(t)')
    BY <1>2, <1>3, <2>3 DEF Listed, Picked
  <2>5. ASSUME NEW d \in Cond
        PROVE  ListSound(d)'
    <3>1. ListSound(d)
      BY DEF SignalInv
    <3>2. ASSUME NEW t \in Range(cond_waiters[d])
          PROVE  cond'[t] = d /\ stage'[t] \in {"release", "sema"}
      <4>1. t \in Thread /\ cond[t] = d /\ stage[t] \in {"release", "sema"}
        BY <1>2, OnListWaits DEF Waiting
      <4>2. t # me
        BY <2>2, <4>1 DEF Listed
      <4> QED BY <1>3, <2>3, <4>1, <4>2
    <3> QED BY <1>3, <3>1, <3>2 DEF ListSound
  <2>6. ASSUME NEW t \in Thread
        PROVE  Accounted(t)'
    <3>1. InPlace(t) /\ Accounted(t)
      BY <1>2 DEF StageInv, SignalInv
    <3>2. CASE t = me
      BY <2>3, <3>2 DEF Accounted
    <3>3. CASE t # me
      <4>1. ASSUME NEW x \in Thread, stage[t] = "up", x = max_e[t]
            PROVE  stage'[x] = stage[x] /\ value'[x] = value[x]
        BY <2>2, <2>3, <4>1
      <4> QED BY <1>3, <2>3, <2>4, <3>1, <3>3, <4>1, AccountKept
    <3> QED BY <3>2, <3>3
  <2> QED BY <2>5, <2>6 DEF SignalInv
<1> QED BY <1>4, <1>5

\* The rest of cond_wait is no part of the account.
LEMMA CondAcquireAccounts ==
  ASSUME GuardInv, SignalInv, CondAcquire \/ CondReturn
  PROVE  SignalInv'
<1>1. CASE CondAcquire
  <2>1. PICK me \in Thread : me = cur
    BY <1>1, StageRuns DEF CondAcquire
  <2>2. /\ stage[me] = "acquire" /\ CondTypes /\ StageInv /\ OwnerInv /\ InPlace(me)
    BY <1>1, <2>1, StageRuns DEF CondAcquire, GuardInv
  <2>3. PICK l \in Lock : l = mutex
    BY <2>1, <2>2, MutexIsLock DEF InPlace, mutex
  <2>4. /\ AcquireFree(l) \/ AcquireHeld(l)
        /\ stage' = [stage EXCEPT ![me] = "return"]
        /\ cond_waiters' = cond_waiters /\ cond' = cond /\ max_e' = max_e /\ rest' = rest
    BY <1>1, <2>1, <2>3 DEF CondAcquire, NextStage
  <2>5. value' = value \/ value' = [value EXCEPT ![l] = @ - 1]
    BY <2>4 DEF AcquireFree, AcquireHeld, sema_down_loop, block_on, take
  <2>6. \A t \in Thread : value'[t] = value[t]
    BY <2>2, <2>5, Distinct DEF OwnerInv, Sema
  <2>7. \A t \in Thread :
            \/ stage'[t] = stage[t]
            \/ {stage[t], stage'[t]} \intersect (Waiting \union Signalling) = {}
    BY <2>2, <2>4 DEF CondTypes, Waiting, Signalling
  <2> QED BY <2>2, <2>4, <2>6, <2>7, SignalKept
<1>2. CASE CondReturn
  <2>1. cur \in Thread /\ stage[cur] = "return" /\ CondTypes /\ StageInv
    BY <1>2, AtStageRuns DEF CondReturn, GuardInv
  <2>2. /\ stage' = [stage EXCEPT ![cur] = "none"]
        /\ cond_waiters' = cond_waiters /\ cond' = cond /\ max_e' = max_e /\ rest' = rest
        /\ value' = value
    BY <1>2 DEF CondReturn, NextStage
  <2>3. \A t \in Thread :
            \/ stage'[t] = stage[t]
            \/ {stage[t], stage'[t]} \intersect (Waiting \union Signalling) = {}
    BY <2>1, <2>2 DEF CondTypes, Waiting, Signalling
  <2> QED BY <2>1, <2>2, <2>3, SignalKept
<1> QED BY <1>1, <1>2

\* A step that leaves lists and semaphores alone, by a thread that nobody
\* waits for or has picked, to the start or the next round of list_max.
LEMMA ReadingAccounts ==
  ASSUME SignalInv, StageInv, CondTypes, cond_waiters' = cond_waiters,
         NEW me \in Thread, stage[me] \notin Waiting, stage'[me] = "compare",
         {max_e'[me]} \union Range(rest'[me]) \subseteq Range(cond_waiters[cond'[me]]),
         stage[me] # "up",
         \A t \in Thread \ {me} :
             /\ stage'[t] = stage[t] /\ cond'[t] = cond[t]
             /\ max_e'[t] = max_e[t] /\ rest'[t] = rest[t],
         \A t \in Thread : value'[t] = value[t]
  PROVE  SignalInv'
<1>1. /\ \A d \in Cond : me \notin Range(cond_waiters[d])
      /\ \A t \in Thread : stage[t] = "up" => max_e[t] # me
  BY NotInAccount
<1>2. \A t \in Thread \ {me} : (Listed(t)' <=> Listed(t)) /\ (Picked(t) => Picked(t)')
  BY DEF Listed, Picked
<1>3. ASSUME NEW d \in Cond
      PROVE  ListSound(d)'
  <2>1. ListSound(d)
    BY DEF SignalInv
  <2>2. ASSUME NEW t \in Range(cond_waiters[d])
        PROVE  cond'[t] = d /\ stage'[t] \in {"release", "sema"}
    <3>1. t \in Thread /\ cond[t] = d /\ stage[t] \in {"release", "sema"}
      BY OnListWaits DEF Waiting
    <3> QED BY <1>1, <3>1
  <2> QED BY <2>1, <2>2 DEF ListSound
<1>4. ASSUME NEW t \in Thread
      PROVE  Accounted(t)'
  <2>1. InPlace(t) /\ Accounted(t)
    BY DEF StageInv, SignalInv
  <2>2. CASE t = me
    BY <2>2 DEF Accounted
  <2>3. CASE t # me
    <3>1. ASSUME NEW x \in Thread, stage[t] = "up", x = max_e[t]
          PROVE  /\ stage'[x] = stage[x] /\ cond'[x] = cond[x]
                 /\ Listed(x)' => Listed(x)
      BY <1>1, <1>2, <3>1
    <3> QED BY <1>2, <2>1, <2>3, <3>1, AccountKept
  <2> QED BY <2>2, <2>3
<1> QED BY <1>3, <1>4 DEF SignalInv

\* The call of cond_signal: list_max begins with the list as it is.
LEMMA CondSignalAccounts ==
  ASSUME GuardInv, SignalInv, NEW c \in Cond, NEW all \in BOOLEAN, CondSignal(c, all)
  PROVE  SignalInv'
<1>1. PICK me \in Thread : me = cur
  BY AtStageRuns DEF CondSignal
<1>2. stage[me] = "none" /\ StageInv /\ CondTypes
  BY <1>1, AtStageRuns DEF CondSignal, GuardInv
<1>3. /\ cond' = [cond EXCEPT ![me] = c]
      /\ cond_waiters[c] # <<>> /\ begin_max(cond_waiters[c])
      /\ value' = value /\ cond_waiters' = cond_waiters
  BY <1>1 DEF CondSignal, vars
<1>4. cond_waiters[c] \in Seq(Thread) /\ IsInjective(cond_waiters[c])
  BY <1>2 DEF CondTypes, SignalInv, ListSound
<1>5. /\ stage' = [stage EXCEPT ![me] = "compare"]
      /\ max_e' = [max_e EXCEPT ![me] = Head(cond_waiters[c])]
      /\ rest' = [rest EXCEPT ![me] = Tail(cond_waiters[c])]
  BY <1>1, <1>2, <1>3, <1>4, BeginMaxTypes
<1>6. {Head(cond_waiters[c])} \union Range(Tail(cond_waiters[c])) \subseteq Range(cond_waiters[c])
  BY <1>3, <1>4, PopSeq
<1>7. /\ stage'[me] = "compare" /\ cond'[me] = c
      /\ max_e'[me] = Head(cond_waiters[c]) /\ rest'[me] = Tail(cond_waiters[c])
      /\ \A t \in Thread \ {me} :
             /\ stage'[t] = stage[t] /\ cond'[t] = cond[t]
             /\ max_e'[t] = max_e[t] /\ rest'[t] = rest[t]
  BY <1>2, <1>3, <1>5 DEF CondTypes
<1> QED BY <1>2, <1>3, <1>6, <1>7, ReadingAccounts DEF Waiting

\* A comparison: list_max stays on the list.
LEMMA CondCompareAccounts ==
  ASSUME GuardInv, SignalInv, CondCompare
  PROVE  SignalInv'
<1>1. PICK me \in Thread : me = cur
  BY CondCompareEffect
<1>2. stage[me] = "compare" /\ StageInv /\ CondTypes /\ Accounted(me)
  BY <1>1, AtStageRuns DEF CondCompare, GuardInv, SignalInv
<1>3. /\ rest[me] # <<>>
      /\ value' = value /\ cond_waiters' = cond_waiters /\ cond' = cond /\ stage' = stage
      /\ \/ max_e' = max_e /\ rest' = rest
         \/ /\ rest' = [rest EXCEPT ![me] = Tail(rest[me])]
            /\ \/ max_e' = [max_e EXCEPT ![me] = Head(rest[me])]
               \/ max_e' = [max_e EXCEPT ![me] = max_e[me]]
  BY <1>1, CondCompareEffect
<1>4. {max_e[me]} \union Range(rest[me]) \subseteq Range(cond_waiters[cond[me]])
  BY <1>2 DEF Accounted
<1>5. /\ Head(rest[me]) \in Range(rest[me])
      /\ Range(Tail(rest[me])) \subseteq Range(rest[me])
  <2>1. rest[me] \in Seq(Thread)
    BY <1>2 DEF CondTypes
  <2>2. Head(rest[me]) \in Range(rest[me])
    BY <1>3, <2>1, PopSeq
  <2>3. ASSUME NEW t \in Range(Tail(rest[me]))
        PROVE  t \in Range(rest[me])
    BY <1>3, <2>1, TailRange
  <2> QED BY <2>2, <2>3
<1>6. \A t \in Thread \ {me} : max_e'[t] = max_e[t] /\ rest'[t] = rest[t]
  BY <1>2, <1>3 DEF CondTypes
<1>7. /\ max_e'[me] \in {max_e[me], Head(rest[me])}
      /\ rest'[me] \in {rest[me], Tail(rest[me])}
  BY <1>2, <1>3 DEF CondTypes
<1>8. {max_e'[me]} \union Range(rest'[me]) \subseteq Range(cond_waiters[cond'[me]])
  BY <1>3, <1>4, <1>5, <1>7
<1> QED BY <1>2, <1>3, <1>6, <1>8, ReadingAccounts DEF Waiting

\* list_remove: the thread that leaves the list is past its lock_release, the
\* lock being with the signaller, and becomes the one that is picked.
LEMMA CondRemoveAccounts ==
  ASSUME GuardInv, SignalInv, CondRemove
  PROVE  SignalInv'
<1>1. PICK me \in Thread : me = cur
  BY CondRemoveEffect
<1>2. /\ stage[me] = "compare" /\ StageInv /\ CondTypes /\ Accounted(me)
      /\ NeedsLock(me)
  BY <1>1, AtStageRuns DEF CondRemove, GuardInv, SignalInv, NeedsLock
<1>3. PICK c \in Cond, x \in Thread : c = cond[me] /\ x = max_e[me]
  BY <1>1, CondRemoveEffect
<1>4. /\ cond_waiters' = [cond_waiters EXCEPT ![c] = RemoveFirst(@, x)]
      /\ stage' = [stage EXCEPT ![me] = "up"]
      /\ value' = value /\ cond' = cond /\ max_e' = max_e /\ rest' = rest
  BY <1>1, <1>3, CondRemoveEffect
<1>5. /\ x \in Range(cond_waiters[c]) /\ cond[x] = c /\ x # me
  BY <1>2, <1>3, OnListWaits DEF Accounted, Waiting
<1>6. stage[x] = "sema"
  <2>1. stage[x] \in {"release", "sema"}
    BY <1>2, <1>5, OnListWaits DEF Waiting
  <2>2. stage[x] # "release"
    BY <1>2, <1>3, <1>5, OneUser DEF NeedsLock
  <2> QED BY <2>1, <2>2
<1>7. value[x] = 0
  <2>1. Accounted(x) /\ Listed(x)
    BY <1>5 DEF SignalInv, Listed
  <2> QED BY <1>6, <2>1 DEF Accounted
<1>8. /\ stage'[me] = "up" /\ \A t \in Thread \ {me} : stage'[t] = stage[t]
      /\ \A d \in Cond \ {c} : cond_waiters'[d] = cond_waiters[d]
  BY <1>2, <1>4 DEF CondTypes
<1>9. /\ IsInjective(cond_waiters'[c])
      /\ \A t : t \in Range(cond_waiters'[c]) <=> t \in Range(cond_waiters[c]) /\ t # x
  <2>1. /\ cond_waiters[c] \in Seq(Thread) /\ IsInjective(cond_waiters[c])
        /\ cond_waiters'[c] = RemoveFirst(cond_waiters[c], x)
    BY <1>2, <1>4 DEF CondTypes, SignalInv, ListSound
  <2> QED BY <2>1, RemoveSeq
<1>10. /\ \A t \in Thread : stage[t] # "none" => (Listed(t)' <=> Listed(t) /\ t # x)
       /\ \A t \in Thread : Picked(t) => Picked(t)'
       /\ Picked(x)'
  <2>1. ASSUME NEW t \in Thread, stage[t] # "none"
        PROVE  Listed(t)' <=> Listed(t) /\ t # x
    <3>1. cond[t] \in Cond
      BY <1>2, <2>1 DEF StageInv, InPlace
    <3> QED BY <1>4, <1>5, <1>8, <1>9, <3>1 DEF Listed
  <2>2. \A t \in Thread : Picked(t) => Picked(t)'
    BY <1>2, <1>4, <1>8 DEF Picked
  <2>3. Picked(x)'
    BY <1>3, <1>4, <1>8 DEF Picked
  <2> QED BY <2>1, <2>2, <2>3
<1>11. ASSUME NEW d \in Cond
       PROVE  ListSound(d)'
  <2>1. IsInjective(cond_waiters'[d])
    BY <1>8, <1>9 DEF SignalInv, ListSound
  <2>2. ASSUME NEW t \in Range(cond_waiters'[d])
        PROVE  cond'[t] = d /\ stage'[t] \in {"release", "sema"}
    <3>1. t \in Range(cond_waiters[d])
      BY <1>8, <1>9
    <3>2. t \in Thread /\ cond[t] = d /\ stage[t] \in {"release", "sema"}
      BY <1>2, <3>1, OnListWaits DEF Waiting
    <3> QED BY <1>2, <1>4, <1>8, <3>2
  <2> QED BY <2>1, <2>2 DEF ListSound
<1>12. ASSUME NEW t \in Thread
       PROVE  Accounted(t)'
  <2>1. InPlace(t) /\ Accounted(t)
    BY <1>2 DEF StageInv, SignalInv
  <2>2. CASE t = me
    <3>1. stage'[x] = "sema" /\ cond'[x] = cond'[me] /\ ~Listed(x)' /\ value'[x] = 0
      BY <1>3, <1>4, <1>5, <1>6, <1>7, <1>8, <1>10
    <3>2. max_e'[me] = x
      BY <1>3, <1>4
    <3> QED BY <1>8, <2>2, <3>1, <3>2 DEF Accounted, Listed
  <2>3. CASE t = x
    BY <1>4, <1>5, <1>6, <1>7, <1>8, <1>10, <2>3 DEF Accounted
  <2>4. CASE t # me /\ t # x
    <3>1. stage[t] = "compare" => cond_waiters'[cond[t]] = cond_waiters[cond[t]]
      <4> SUFFICES ASSUME stage[t] = "compare" PROVE cond[t] # c
        BY <1>8, <2>1 DEF InPlace
      <4> QED BY <1>2, <1>3, <2>4, OneUser DEF NeedsLock
    <3>2. ASSUME NEW y \in Thread, stage[t] = "up", y = max_e[t]
          PROVE  stage'[y] = stage[y] /\ (Listed(y)' => Listed(y))
      <4>1. stage[y] = "sema"
        BY <2>1, <3>2 DEF Accounted
      <4> QED BY <1>2, <1>8, <1>10, <4>1
    <3>3. stage[t] \in Waiting => (Listed(t)' <=> Listed(t))
      BY <1>10, <2>4 DEF Waiting
    <3> QED BY <1>4, <1>8, <1>10, <2>1, <2>4, <3>1, <3>2, <3>3, AccountKept
  <2> QED BY <2>2, <2>3, <2>4
<1> QED BY <1>11, <1>12 DEF SignalInv

\* sema_up: the thread that was picked has its semaphore raised, and nobody
\* else has picked it.
LEMMA CondUpAccounts ==
  ASSUME GuardInv, SignalInv, CondUp
  PROVE  SignalInv'
<1>1. PICK me \in Thread : me = cur
  BY CondUpEffect
<1>2. /\ stage[me] = "up" /\ StageInv /\ CondTypes /\ OwnerInv /\ Accounted(me)
      /\ NeedsLock(me)
  BY <1>1, AtStageRuns DEF CondUp, GuardInv, SignalInv, NeedsLock
<1>3. PICK c \in Cond, x \in Thread : c = cond[me] /\ x = max_e[me]
  BY <1>1, CondUpEffect
<1>4. /\ value' = [value EXCEPT ![x] = @ + 1]
      /\ cond_waiters' = cond_waiters /\ cond' = cond
  BY <1>1, <1>3, CondUpEffect
<1>5. stage[x] = "sema" /\ cond[x] = c /\ ~Listed(x) /\ value[x] = 0 /\ x # me
  BY <1>2, <1>3 DEF Accounted
<1>6. value'[x] = 1 /\ \A t \in Thread \ {x} : value'[t] = value[t]
  BY <1>2, <1>4, <1>5 DEF OwnerInv, Sema
<1>7. /\ \A t \in Thread \ {me} :
             stage'[t] = stage[t] /\ max_e'[t] = max_e[t] /\ rest'[t] = rest[t]
      /\ \/ stage'[me] = "none"
         \/ /\ cond_waiters[c] # <<>> /\ stage'[me] = "compare"
            /\ max_e'[me] = Head(cond_waiters[c]) /\ rest'[me] = Tail(cond_waiters[c])
  <2>1. \/ /\ cond_waiters[c] # <<>>
           /\ stage' = [stage EXCEPT ![me] = "compare"]
           /\ max_e' = [max_e EXCEPT ![me] = Head(cond_waiters[c])]
           /\ rest' = [rest EXCEPT ![me] = Tail(cond_waiters[c])]
        \/ /\ stage' = [stage EXCEPT ![me] = "none"]
           /\ max_e' = [max_e EXCEPT ![me] = NULL]
           /\ rest' = rest
    BY <1>1, <1>3, CondUpEffect
  <2>2. /\ DOMAIN stage = Thread /\ DOMAIN max_e = Thread /\ DOMAIN rest = Thread
    BY <1>2 DEF CondTypes
  <2>3. \A t \in Thread \ {me} : stage'[t] = stage[t]
    BY <2>1, <2>2
  <2>4. \A t \in Thread \ {me} : max_e'[t] = max_e[t]
    BY <2>1, <2>2
  <2>5. \A t \in Thread \ {me} : rest'[t] = rest[t]
    BY <2>1, <2>2
  <2>6. \/ stage'[me] = "none"
        \/ /\ cond_waiters[c] # <<>> /\ stage'[me] = "compare"
           /\ max_e'[me] = Head(cond_waiters[c]) /\ rest'[me] = Tail(cond_waiters[c])
    BY <2>1, <2>2
  <2> QED BY <2>3, <2>4, <2>5, <2>6
<1>8. \A t \in Thread : Listed(t)' <=> Listed(t)
  BY <1>4 DEF Listed
<1>9. \A t \in Thread \ {x} : Picked(t) => Picked(t)'
  BY <1>3, <1>7 DEF Picked
<1>10. ASSUME NEW d \in Cond
       PROVE  ListSound(d)'
  <2>1. ListSound(d)
    BY DEF SignalInv
  <2>2. ASSUME NEW t \in Range(cond_waiters[d])
        PROVE  cond'[t] = d /\ stage'[t] \in {"release", "sema"}
    <3>1. t \in Thread /\ cond[t] = d /\ stage[t] \in {"release", "sema"}
      BY <1>2, OnListWaits DEF Waiting
    <3> QED BY <1>2, <1>4, <1>7, <3>1
  <2> QED BY <1>4, <2>1, <2>2 DEF ListSound
<1>11. ASSUME NEW t \in Thread
       PROVE  Accounted(t)'
  <2>1. InPlace(t) /\ Accounted(t)
    BY <1>2 DEF StageInv, SignalInv
  <2>2. CASE t = me
    <3>1. cond_waiters[c] # <<>> =>
              {Head(cond_waiters[c])} \union Range(Tail(cond_waiters[c]))
                  \subseteq Range(cond_waiters[c])
      <4>1. cond_waiters[c] \in Seq(Thread)
        BY <1>2 DEF CondTypes
      <4> QED BY <4>1, PopSeq, TailRange
    <3> QED BY <1>3, <1>4, <1>7, <2>2, <3>1 DEF Accounted
  <2>3. CASE t = x
    BY <1>4, <1>5, <1>6, <1>7, <1>8, <2>3 DEF Accounted
  <2>4. CASE t # me /\ t # x
    <3>1. ASSUME NEW y \in Thread, stage[t] = "up", y = max_e[t]
          PROVE  stage'[y] = stage[y] /\ value'[y] = value[y]
      <4>1. stage[y] = "sema" /\ cond[y] = cond[t]
        BY <2>1, <3>1 DEF Accounted
      <4>2. y # x
        BY <1>2, <1>3, <1>5, <2>4, <3>1, <4>1, OneUser DEF NeedsLock
      <4> QED BY <1>2, <1>6, <1>7, <4>1, <4>2
    <3> QED BY <1>4, <1>6, <1>7, <1>8, <1>9, <2>1, <2>4, <3>1, AccountKept
  <2> QED BY <2>2, <2>3, <2>4
<1> QED BY <1>10, <1>11 DEF SignalInv

\* The steps of Locks leave the semaphore of every cond_wait alone.
LEMMA NextValues ==
  ASSUME OwnerInv, Next
  PROVE  \A t \in Thread : value'[t] = value[t]
<1>1. value' = value \/ \E l \in Lock :
          \/ value' = [value EXCEPT ![l] = @ - 1]
          \/ value' = [value EXCEPT ![l] = @ + 1]
  <2>1. ASSUME NEW l \in Lock, sema_down_loop(l)
        PROVE  value' = value \/ value' = [value EXCEPT ![l] = @ - 1]
    BY <2>1 DEF sema_down_loop, block_on, take
  <2>2. CASE Call
    <3>1. ASSUME NEW l \in Lock, AcquireFree(l) \/ AcquireHeld(l) \/ LockRelease(l)
          PROVE  \/ value' = value
                 \/ value' = [value EXCEPT ![l] = @ - 1]
                 \/ value' = [value EXCEPT ![l] = @ + 1]
      BY <2>1, <3>1, ReleaseEffect DEF AcquireFree, AcquireHeld
    <3>2. ASSUME NEW l \in TryLock, TryAcquire(l)
          PROVE  l \in Lock /\ value' = [value EXCEPT ![l] = @ - 1]
      BY <3>2, ArgumentAssumption DEF TryAcquire
    <3>3. ASSUME NEW pri \in NewPriority, ThreadSetPriority(pri)
          PROVE  value' = value
      BY <3>3 DEF ThreadSetPriority
    <3> QED BY <2>2, <3>1, <3>2, <3>3 DEF Call
  <2>3. CASE SemaDown
    <3>1. lock[cur] \in Lock /\ sema_down_loop(lock[cur])
      BY <2>3, AtRuns DEF SemaDown, OwnerInv
    <3> QED BY <2>1, <3>1
  <2>4. CASE Continue
    BY <2>4, CheckLeaves DEF Continue, TryOwn
  <2>5. CASE Interrupt
    BY <2>5, InterruptLeaves
  <2> QED BY <2>2, <2>3, <2>4, <2>5 DEF Next
<1> QED BY <1>1, Distinct DEF OwnerInv, Sema

\* The steps of Locks keep the account.
LEMMA LockStepAccounts ==
  ASSUME GuardInv, SignalInv, LockStep, UNCHANGED condVars
  PROVE  SignalInv'
<1>1. OwnerInv /\ StageInv /\ CondTypes /\ Next
  BY DEF GuardInv, StageInv, CondTypes, LockStep, Next
<1>2. \A t \in Thread : value'[t] = value[t]
  BY <1>1, NextValues
<1> QED BY <1>1, <1>2, SignalKept DEF condVars

\* Every step keeps the account.
LEMMA NextAccounts ==
  ASSUME GuardInv, SignalInv, [CondNext]_allVars
  PROVE  SignalInv'
<1>1. CASE CondCall
  BY <1>1, CondWaitAccounts, CondSignalAccounts DEF CondCall
<1>2. CASE CondContinue
  BY <1>2, CondReleaseAccounts, CondDownAccounts, CondAcquireAccounts,
     CondCompareAccounts, CondRemoveAccounts, CondUpAccounts DEF CondContinue
<1>3. CASE LockStep /\ UNCHANGED condVars
  BY <1>3, LockStepAccounts
<1>4. CASE UNCHANGED allVars
  BY <1>4, SignalKept DEF allVars, vars, condVars, GuardInv, StageInv, CondTypes
<1> QED BY <1>1, <1>2, <1>3, <1>4 DEF CondNext

\* At the start there is nothing to account for.
LEMMA InitAccounts == CondInit => SignalInv
BY EmptyRange DEF CondInit, SignalInv, ListSound, Accounted

\* The account as the property has it.
LEMMA AccountCounts ==
  ASSUME SignalInv, StageInv
  PROVE  NoSignalLost
<1> SUFFICES ASSUME NEW t \in Thread, stage[t] = "sema"
             PROVE  Cardinality(Reached(t)) = 1
  BY DEF NoSignalLost
<1>1. Accounted(t)
  BY DEF SignalInv
<1>2. Picked(t) => ~Listed(t) /\ value[t] = 0
  BY DEF SignalInv, Accounted, Picked
<1>3. Listed(t) => value[t] = 0
  BY <1>1 DEF Accounted
<1>4. Listed(t) \/ Picked(t) \/ value[t] = 1
  BY <1>1 DEF Accounted
<1>5. \/ Reached(t) = {"listed"}
      \/ Reached(t) = {"picked"}
      \/ Reached(t) = {"raised"}
  <2>1. \A how : how \in Reached(t) <=>
            \/ how = "listed" /\ Listed(t)
            \/ how = "picked" /\ Picked(t)
            \/ how = "raised" /\ value[t] = 1
    BY DEF Reached
  <2>2. \/ Listed(t) /\ ~Picked(t) /\ value[t] # 1
        \/ ~Listed(t) /\ Picked(t) /\ value[t] # 1
        \/ ~Listed(t) /\ ~Picked(t) /\ value[t] = 1
    BY <1>2, <1>3, <1>4
  <2> QED BY <2>1, <2>2
<1> QED BY <1>5, FS_Singleton

\* cond_wait loses no signal between its lock_release and its sema_down, and
\* no signal counts for two: for any number of threads and condition
\* variables, whatever the wait lists of the semaphores hold.
THEOREM SignalsAccounted == CondSpec => []NoSignalLost
<1>1. GuardInv /\ SignalInv => NoSignalLost
  BY AccountCounts DEF GuardInv
<1> QED BY <1>1, InitAccounts, NextAccounts, GuardInvariance, PTL DEF CondSpec

-----------------------------------------------------------------------------
(* Types.                                                                  *)

\* list_init of a list of threads.
LEMMA InitListSound ==
  ASSUME NEW m, LinkOK(m), NEW list \in ThreadList
  PROVE  LET r == list_init(m, list)
         IN /\ LinkOK(r)
            /\ \A n \in Node :
                   /\ r[n].next = IF n = tail(list) THEN NULL
                                  ELSE IF n = head(list) THEN tail(list) ELSE m[n].next
                   /\ r[n].prev = IF n = tail(list) THEN head(list)
                                  ELSE IF n = head(list) THEN NULL ELSE m[n].prev
<1> DEFINE r == list_init(m, list)
<1>1. /\ head(list) \in Node /\ tail(list) \in Node /\ head(list) # tail(list)
      /\ head(list) \notin Thread /\ tail(list) \notin Thread
      /\ tail(list) \in Ends(ThreadList) /\ head(list) \in Heads(ThreadList)
      /\ IsSide(Thread, ThreadList)
  BY ThreadLists, ListEnds
<1>2. m \in [Node -> Elem] /\ Sound(m, Thread, ThreadList)
  BY DEF LinkOK
<1>3. /\ [prev |-> NULL, next |-> tail(list)] \in Elem
      /\ [prev |-> head(list), next |-> NULL] \in Elem
  BY <1>1 DEF Elem
<1>4. /\ r \in [Node -> Elem]
      /\ \A n \in Node : r[n] = IF n = tail(list) THEN [prev |-> head(list), next |-> NULL]
                                ELSE IF n = head(list) THEN [prev |-> NULL, next |-> tail(list)]
                                ELSE m[n]
  BY <1>1, <1>2, <1>3 DEF list_init
<1> HIDE DEF r
<1>5. \A n \in Node :
          /\ r[n].next = IF n = tail(list) THEN NULL
                         ELSE IF n = head(list) THEN tail(list) ELSE m[n].next
          /\ r[n].prev = IF n = tail(list) THEN head(list)
                         ELSE IF n = head(list) THEN NULL ELSE m[n].prev
  BY <1>4
<1>6. /\ Side(Thread, ThreadList) \subseteq Node
      /\ \A n \in Heads(ThreadList) : n \notin Ends(ThreadList)
  BY <1>1, SideParts
<1>7. Linked(r, Thread) = Linked(m, Thread)
  BY <1>1, <1>5, <1>6 DEF Linked, Side
<1>8. Sound(r, Thread, ThreadList)
  <2>1. ASSUME NEW n \in Linked(r, Thread) \union Heads(ThreadList)
        PROVE  r[n].next \in Linked(r, Thread) \union Ends(ThreadList)
    <3>1. n \in Node /\ n # tail(list) /\ n \in Linked(m, Thread) \union Heads(ThreadList)
      BY <1>1, <1>6, <1>7 DEF Linked, Side
    <3> QED BY <1>1, <1>2, <1>5, <1>7, <3>1 DEF Sound
  <2>2. ASSUME NEW n \in Linked(r, Thread) \union Ends(ThreadList)
        PROVE  r[n].prev \in Linked(r, Thread) \union Heads(ThreadList)
    <3>1. n \in Node /\ n # head(list) /\ n \in Linked(m, Thread) \union Ends(ThreadList)
      BY <1>1, <1>6, <1>7 DEF Linked, Side
    <3> QED BY <1>1, <1>2, <1>5, <1>7, <3>1 DEF Sound
  <2> QED BY <2>1, <2>2 DEF Sound
<1>9. \A n \in Node \ Side(Thread, ThreadList) : r[n].next = m[n].next /\ r[n].prev = m[n].prev
  BY <1>1, <1>5 DEF Side
<1>10. LinkOK(r)
  BY <1>1, <1>4, <1>8, <1>9, OtherSideSound
<1> QED BY <1>5, <1>10 DEF r

\* The steps of a call that leave the memory and the threads alone.
LEMMA SameData ==
  ASSUME DataOK, UNCHANGED <<status, priority, base_priority, waiting_lock, link>>,
         outcome' \in Outcome
  PROVE  DataOK'
BY DEF DataOK

\* cond_wait's lock_release and lock_acquire are calls of Locks.
LEMMA CondCalls ==
  ASSUME GuardInv, CondRelease \/ CondAcquire
  PROVE  Call
<1>1. InStage("release") \/ InStage("acquire")
  BY DEF CondRelease, CondAcquire
<1>2. cur \in Thread /\ cond[cur] \in Cond
  BY <1>1, StageRuns DEF InPlace
<1>3. mutex \in Lock
  BY <1>2, MutexIsLock DEF mutex
<1> QED BY <1>3 DEF CondRelease, CondAcquire, Call

\* Every step.
LEMMA NextCondTypes ==
  ASSUME GuardInv, DataOK, [CondNext]_allVars
  PROVE  DataOK'
<1>0. OwnerInv /\ StageInv /\ outcome \in Outcome /\ LinkOK(link) /\ status \in [Thread -> Status]
      /\ priority \in [Thread -> Priority]
  BY DEF GuardInv, DataOK
<1>1. CASE CondRelease \/ CondAcquire
  BY <1>0, <1>1, CondCalls, CallTypes
<1>2. ASSUME NEW c \in Cond, CondWait(c) PROVE DataOK'
  <2>1. cur \in Thread
    BY <1>2, AtStageRuns DEF CondWait
  <2>2. sema_waiters(cur) \in ThreadList
    BY <2>1, ThreadLists DEF Sema
  <2>3. LinkOK(link')
    BY <1>0, <1>2, <2>2, InitListSound DEF CondWait
  <2> QED BY <1>2, <2>3 DEF CondWait, threadVars, DataOK
<1>3. CASE CondDown
  <2>1. cur \in Thread
    BY <1>3, StageRuns DEF CondDown
  <2>2. cur \in Sema /\ MachineOK
    BY <1>0, <2>1 DEF Sema, MachineOK
  <2>3. CASE block_on(cur)
    <3>1. MachineOK'
      BY <1>0, <2>1, <2>2, <2>3, BlockTypes
    <3>2. UNCHANGED <<priority, base_priority, waiting_lock>>
      BY <1>3, <2>3 DEF CondDown, block_on
    <3> QED BY <3>1, <3>2 DEF DataOK, MachineOK
  <2>4. CASE ~block_on(cur)
    <3>1. UNCHANGED <<status, priority, base_priority, waiting_lock, link, outcome>>
      BY <1>3, <2>4 DEF CondDown
    <3> QED BY <1>0, <3>1, SameData
  <2> QED BY <2>3, <2>4
<1>4. CASE CondReturn \/ CondRemove \/ \E c \in Cond, all \in BOOLEAN : CondSignal(c, all)
  <2>1. UNCHANGED <<status, priority, base_priority, waiting_lock, link, outcome>>
    BY <1>4 DEF CondReturn, CondRemove, CondSignal, vars, threadVars
  <2> QED BY <1>0, <2>1, SameData
<1>5. CASE CondCompare
  <2>1. UNCHANGED <<status, priority, base_priority, waiting_lock, link>>
        /\ outcome' \in Outcome
    BY <1>0, <1>5 DEF CondCompare, threadVars, Outcome
  <2> QED BY <2>1, SameData
<1>6. CASE CondUp
  <2>1. cur \in Thread /\ max_e[cur] \in Thread
    BY <1>6, CondUpEffect
  <2>2. PICK s \in Sema : s = max_e[cur]
    BY <2>1 DEF Sema
  <2>3. PICK r \in sema_up(link, s) : outcome' = r.outcome /\ link' = r.link /\ status' = r.status
    BY <1>6, <2>2 DEF CondUp
  <2>4. LinkOK(r.link) /\ r.status \in [Thread -> Status] /\ r.outcome \in {"ok", "panic", "hang"}
    BY <1>0, SemaUpTypes
  <2>5. UNCHANGED <<priority, base_priority, waiting_lock>>
    BY <1>6 DEF CondUp
  <2> QED BY <2>3, <2>4, <2>5 DEF DataOK, Outcome
<1>7. CASE LockStep
  <2>1. Next
    BY <1>7 DEF LockStep, Next
  <2> QED BY <1>0, <2>1, NextTypes
<1>8. CASE UNCHANGED allVars
  <2>1. UNCHANGED <<status, priority, base_priority, waiting_lock, link, outcome>>
    BY <1>8 DEF allVars, vars, threadVars
  <2> QED BY <1>0, <2>1, SameData
<1> QED BY <1>1, <1>2, <1>3, <1>4, <1>5, <1>6, <1>7, <1>8 DEF CondNext, CondCall, CondContinue

\* Type correctness with condition variables: every pointer of a list leads
\* to an element or an end of a list of its kind, whoever waits and signals,
\* so no step of cond_wait, cond_signal or cond_broadcast follows a null
\* pointer.
THEOREM CondTypesHold == CondSpec => []CondTypeOK
<1> DEFINE Inv == GuardInv /\ DataOK
<1>1. CondInit => Inv
  BY InitGuards, InitTypes DEF CondInit
<1>2. Inv /\ [CondNext]_allVars => Inv'
  BY NextGuards, NextCondTypes
<1>3. Inv => CondTypeOK
  BY TypesJoin DEF GuardInv, StageInv, CondTypeOK
<1> HIDE DEF Inv
<1> QED BY <1>1, <1>2, <1>3, PTL DEF CondSpec

-----------------------------------------------------------------------------
(* Waiters of locks, with condition variables.                             *)

\* A thread that has found a lock held is not on its way through cond_wait or
\* cond_signal, other than at the end of cond_wait.
Aside == \A t \in Thread : waiting_lock[t] # NULL => stage[t] \in {"none", "return"}
CondWaitInv == WaitInv /\ (outcome = "ok" => Aside)

\* list_init of a list that is not a lock's.
LEMMA InitListMemory ==
  ASSUME NEW m, NEW list \in ThreadList, \A l \in Lock : list # waiters(l),
         NEW out, NEW clean \in SUBSET Thread, NEW loose \in SUBSET Thread, NEW contested,
         NEW fresh \in SUBSET Thread, Memory(m, out, clean, loose, contested, fresh)
  PROVE  Memory(list_init(m, list), out, clean, loose, contested, fresh)
<1> DEFINE r == list_init(m, list)
<1>1. LinkOK(m)
  BY DEF Memory
<1>2. /\ LinkOK(r)
      /\ \A n \in Node :
             /\ r[n].next = IF n = tail(list) THEN NULL
                            ELSE IF n = head(list) THEN tail(list) ELSE m[n].next
             /\ r[n].prev = IF n = tail(list) THEN head(list)
                            ELSE IF n = head(list) THEN NULL ELSE m[n].prev
  BY <1>1, InitListSound
<1> HIDE DEF r
<1>3. /\ \A n \in From : r[n].next = IF n = head(list) THEN tail(list) ELSE m[n].next
      /\ \A n \in To : r[n].prev = IF n = tail(list) THEN head(list) ELSE m[n].prev
      /\ head(list) \in From /\ tail(list) \in To
      /\ tail(list) \notin Thread /\ head(list) \notin Thread
  <2>1. From \subseteq Node /\ To \subseteq Node
        /\ head(list) \notin To /\ tail(list) \notin From
        /\ head(list) \in From /\ tail(list) \in To
        /\ tail(list) \notin Thread /\ head(list) \notin Thread
    BY FromTo
  <2> QED BY <1>2, <2>1
<1>4. Backed(r, out, clean)
  BY <1>3 DEF Memory, Backed, To
<1>5. \A t \in loose : Loose(r, t)
  BY <1>3 DEF Memory, Loose
<1>6. ASSUME NEW l \in Lock
      PROVE  IF l \in contested
             THEN Cut(r, waiters(l)) \/ \E t \in fresh : FreshOn(r, t, waiters(l))
             ELSE Untouched(r, waiters(l))
  <2>1. /\ tail(waiters(l)) # tail(list) /\ head(waiters(l)) # head(list)
        /\ head(waiters(l)) \in From /\ tail(waiters(l)) \in To
    BY HeadNotTail, FromTo, ThreadLists
  <2>2. IF l \in contested
        THEN Cut(m, waiters(l)) \/ \E t \in fresh : FreshOn(m, t, waiters(l))
        ELSE Untouched(m, waiters(l))
    BY DEF Memory, WaitersOK
  <2>3. Cut(m, waiters(l)) => Cut(r, waiters(l))
    BY <1>3, <2>1 DEF Cut
  <2>4. \A t \in fresh : FreshOn(m, t, waiters(l)) => FreshOn(r, t, waiters(l))
    BY <1>3, <2>1 DEF FreshOn
  <2>5. Untouched(m, waiters(l)) => Untouched(r, waiters(l))
    BY <1>3, <2>1 DEF Untouched
  <2> QED BY <2>2, <2>3, <2>4, <2>5
<1> QED BY <1>2, <1>4, <1>5, <1>6 DEF r, Memory, WaitersOK

\* cond_wait makes its semaphore.
LEMMA CondWaitWaits ==
  ASSUME GuardInv, DataOK, CondWaitInv, NEW c \in Cond, CondWait(c)
  PROVE  CondWaitInv' /\ waiting_lock' = waiting_lock
<1>0. cur \in Thread /\ pc[cur] = "run" /\ outcome = "ok" /\ OwnerInv /\ stage \in [Thread -> Stage]
  BY AtStageRuns DEF CondWait, AtStage, At, CondTypes
<1>1. PICK me \in Thread : me = cur
  BY <1>0
<1>2. /\ link' = list_init(link, sema_waiters(me))
      /\ UNCHANGED <<cur, status, waiting_lock, pc, lock, holder, outcome>>
      /\ stage' = [stage EXCEPT ![me] = "release"]
  BY <1>1 DEF CondWait, threadVars, NextStage
<1>3. /\ Memory(link, Running, Clean, Asleep \union (Running \intersect Clean), Contested, Fresh)
      /\ Running \intersect Asleep = {} /\ Waits /\ \A t \in Running : status[t] = "RUNNING"
  BY <1>0 DEF CondWaitInv, WaitInv
<1>4. sema_waiters(me) \in ThreadList /\ \A l \in Lock : sema_waiters(me) # waiters(l)
  BY ThreadLists, OtherLists DEF Sema
<1>5. PICK m : m = link
  OBVIOUS
<1>6. PICK loose \in SUBSET Thread : loose = Asleep \union (Running \intersect Clean)
  BY WaitSets
<1>7. PICK r : r = list_init(m, sema_waiters(me))
  OBVIOUS
<1>8. Memory(r, Running, Clean, loose, Contested, Fresh)
  BY <1>3, <1>4, <1>5, <1>6, <1>7, InitListMemory, WaitSets
<1>9. /\ Running' = Running /\ Clean' = Clean /\ Asleep' = Asleep /\ Contested' = Contested
      /\ Fresh' = Fresh /\ Waits'
  BY <1>2, <1>3 DEF Running, Clean, Asleep, Contested, Fresh, Waits
<1>10. WaitInv'
  BY <1>2, <1>3, <1>5, <1>6, <1>7, <1>8, <1>9 DEF WaitInv
<1>11. Aside'
  <2>1. waiting_lock[me] = NULL
    BY <1>0, <1>1, <1>3 DEF Waits
  <2> QED BY <1>0, <1>2, <2>1 DEF CondWaitInv, Aside
<1> QED BY <1>2, <1>10, <1>11 DEF CondWaitInv

\* The steps that change no list.
LEMMA StillWaits ==
  ASSUME OwnerInv, CondWaitInv, outcome = "ok", NEW me \in Thread, waiting_lock[me] = NULL,
         UNCHANGED <<cur, status, waiting_lock, link, lock, holder>>,
         \A t \in Thread \ {me} : pc'[t] = pc[t] /\ stage'[t] = stage[t],
         pc[me] \notin {"asleep", "wait"}, pc'[me] \notin {"asleep", "wait"}
  PROVE  CondWaitInv'
<1>1. WaitInv'
  <2>1. \A t \in Thread : /\ pc'[t] = "asleep" <=> pc[t] = "asleep"
                          /\ pc'[t] = "wait" <=> pc[t] = "wait"
                          /\ waiting_lock[t] # NULL => pc'[t] = pc[t] /\ lock'[t] = lock[t]
    OBVIOUS
  <2>2. \A l \in Lock : holder[l] # NULL => holder'[l] # NULL
    OBVIOUS
  <2> QED BY <2>1, <2>2, SameWaits DEF CondWaitInv
<1>2. Aside'
  BY DEF CondWaitInv, Aside
<1> QED BY <1>1, <1>2 DEF CondWaitInv

\* sema_down in cond_wait.
LEMMA CondDownWaits ==
  ASSUME GuardInv, DataOK, CondWaitInv, CondDown
  PROVE  CondWaitInv' /\ waiting_lock' = waiting_lock
<1>0. /\ cur \in Thread /\ pc[cur] \in {"run", "sema_down"} /\ outcome = "ok" /\ OwnerInv
      /\ stage[cur] = "sema" /\ stage \in [Thread -> Stage] /\ pc \in [Thread -> PC]
  BY StageRuns DEF CondDown, At, CondTypes, OwnerInv
<1>1. PICK me \in Thread : me = cur
  BY <1>0
<1>2. waiting_lock[me] = NULL
  BY <1>0, <1>1 DEF CondWaitInv, Aside
<1>3. CASE block_on(me) /\ stage' = stage
  <2>1. UNCHANGED <<waiting_lock, lock>>
    BY <1>3 DEF CondDown, block_on
  <2>2. WaitInv'
    BY <1>0, <1>1, <1>3, <2>1, BlockWaits DEF CondWaitInv, Sema
  <2> QED BY <1>0, <1>3, <2>1, <2>2 DEF CondWaitInv, Aside
<1>4. CASE /\ pc' = [pc EXCEPT ![me] = "run"]
           /\ stage' = [stage EXCEPT ![me] = "acquire"]
           /\ UNCHANGED <<cur, status, waiting_lock, holder, link, outcome>>
  <2>1. lock' = lock
    BY DEF CondDown
  <2> QED BY <1>0, <1>1, <1>2, <1>4, <2>1, StillWaits
<1> QED BY <1>1, <1>3, <1>4 DEF CondDown, Goto, NextStage

\* cond_signal.
LEMMA SignalWaits ==
  ASSUME GuardInv, DataOK, CondWaitInv,
         CondReturn \/ CondCompare \/ CondRemove \/ \E c \in Cond, all \in BOOLEAN : CondSignal(c, all)
  PROVE  CondWaitInv' /\ waiting_lock' = waiting_lock
<1>0. /\ cur \in Thread /\ pc[cur] = "run" /\ outcome = "ok" /\ OwnerInv
      /\ stage \in [Thread -> Stage] /\ pc \in [Thread -> PC]
  BY AtStageRuns DEF CondReturn, CondCompare, CondRemove, CondSignal, AtStage, At, CondTypes,
     OwnerInv
<1>1. PICK me \in Thread : me = cur
  BY <1>0
<1>2. waiting_lock[me] = NULL
  BY <1>0, <1>1 DEF CondWaitInv, WaitInv, Waits
<1>3. UNCHANGED <<cur, status, waiting_lock, link, lock, holder>>
  BY DEF CondReturn, CondCompare, CondRemove, CondSignal, vars, threadVars
<1>4. pc' = pc \/ pc' = [pc EXCEPT ![me] = "check"]
  BY <1>1 DEF CondReturn, CondCompare, CondRemove, CondSignal, vars, threadVars, Goto
<1>5. stage' = stage \/ \E s \in Stage : stage' = [stage EXCEPT ![me] = s]
  BY <1>1 DEF CondReturn, CondCompare, CondRemove, CondSignal, begin_max, NextStage, Stage
<1>6. \A t \in Thread \ {me} : pc'[t] = pc[t] /\ stage'[t] = stage[t]
  BY <1>0, <1>4, <1>5
<1>7. pc[me] \notin {"asleep", "wait"} /\ pc'[me] \notin {"asleep", "wait"}
  BY <1>0, <1>1, <1>4
<1> QED BY <1>0, <1>2, <1>3, <1>6, <1>7, StillWaits

\* Its sema_up.
LEMMA CondUpWaits ==
  ASSUME GuardInv, DataOK, CondWaitInv, CondUp
  PROVE  CondWaitInv' /\ waiting_lock' = waiting_lock
<1>0. /\ cur \in Thread /\ pc[cur] = "run" /\ outcome = "ok" /\ OwnerInv
      /\ stage \in [Thread -> Stage] /\ pc \in [Thread -> PC] /\ max_e[cur] \in Thread
  BY AtStageRuns, CondUpEffect DEF CondUp, AtStage, At, CondTypes, OwnerInv
<1>1. PICK me \in Thread : me = cur
  BY <1>0
<1>2. /\ Memory(link, Running, Clean, Asleep \union (Running \intersect Clean), Contested, Fresh)
      /\ Running \intersect Asleep = {} /\ Waits /\ \A t \in Running : status[t] = "RUNNING"
  BY <1>0 DEF CondWaitInv, WaitInv
<1>3. waiting_lock[me] = NULL
  BY <1>0, <1>1, <1>2 DEF Waits
<1>4. /\ pc' = [pc EXCEPT ![me] = "check"]
      /\ UNCHANGED <<cur, waiting_lock, lock, holder>>
  BY <1>1 DEF CondUp, Goto
<1>5. \E s \in Stage : stage' = [stage EXCEPT ![me] = s]
  BY <1>1 DEF CondUp, begin_max, NextStage, Stage
<1> SUFFICES ASSUME outcome' = "ok" PROVE CondWaitInv'
  BY <1>4 DEF CondWaitInv, WaitInv
<1>6. PICK m : m = link
  OBVIOUS
<1>7. PICK s \in Sema : s = max_e[cur]
  BY <1>0 DEF Sema
<1>8. PICK r \in sema_up(m, s) : outcome' = r.outcome /\ link' = r.link /\ status' = r.status
  BY <1>6, <1>7 DEF CondUp
<1>9. Fresh = {}
  BY <1>0 DEF Fresh, Running
<1>10. PICK clean \in SUBSET Thread : clean = Clean
  BY WaitSets
<1>11. PICK asleep \in SUBSET Thread : asleep = Asleep
  BY WaitSets
<1>12. Memory(m, Running, clean, asleep \union (Running \intersect clean), Contested, {})
  BY <1>2, <1>6, <1>9, <1>10, <1>11
<1>13. /\ Memory(r.link, Running, clean, asleep \union (Running \intersect clean), Contested, {})
       /\ \A t \in Running : r.status[t] = "RUNNING"
  <2>1. r.outcome = "ok" /\ status \in [Thread -> Status] /\ priority \in [Thread -> Priority]
    BY <1>8 DEF DataOK
  <2>2. PICK contested : contested = Contested
    OBVIOUS
  <2>3. Memory(m, Running, clean, asleep \union (Running \intersect clean), contested, {})
    BY <1>12, <2>2
  <2>4. \A t \in Running : status[t] = "RUNNING"
    BY <1>2
  <2>5. /\ Memory(r.link, Running, clean, asleep \union (Running \intersect clean), contested, {})
        /\ \A t \in Running : r.status[t] = "RUNNING"
    BY <2>1, <2>3, <2>4, SemaUpKeeps
  <2> QED BY <2>2, <2>5
<1>14. \A t \in Thread : /\ pc'[t] = "asleep" <=> pc[t] = "asleep"
                         /\ pc'[t] = "wait" <=> pc[t] = "wait"
                         /\ waiting_lock[t] # NULL => pc'[t] = pc[t]
  BY <1>0, <1>1, <1>3, <1>4
<1>15. /\ Running' = Running /\ Clean' = Clean /\ Asleep' = Asleep /\ Contested' = Contested
       /\ Fresh' = Fresh /\ Waits'
  BY <1>2, <1>4, <1>14 DEF Running, Clean, Asleep, Contested, Fresh, Waits
<1>16. WaitInv'
  BY <1>2, <1>8, <1>9, <1>10, <1>11, <1>13, <1>15 DEF WaitInv
<1>17. Aside'
  BY <1>0, <1>3, <1>4, <1>5 DEF CondWaitInv, Aside
<1> QED BY <1>16, <1>17 DEF CondWaitInv

\* A call sets waiting_lock of its own thread only.
LEMMA CallWaitsItself ==
  ASSUME DataOK, OwnerInv, Call, NEW t \in Thread \ {cur}
  PROVE  waiting_lock'[t] = waiting_lock[t]
<1>1. cur \in Thread
  BY AtRuns DEF Call, AcquireFree, AcquireHeld, LockRelease, TryAcquire, ThreadSetPriority
<1>2. \/ waiting_lock' = waiting_lock
      \/ \E l \in Lock \union {NULL} : waiting_lock' = [waiting_lock EXCEPT ![cur] = l]
  <2>1. CASE \E l \in Lock : AcquireFree(l)
    BY <2>1 DEF AcquireFree, sema_down_loop, block_on, take
  <2>2. CASE \E l \in Lock : AcquireHeld(l)
    BY <2>2 DEF AcquireHeld
  <2>3. CASE ~(\E l \in Lock : AcquireFree(l) \/ AcquireHeld(l))
    BY <2>3 DEF Call, LockRelease, TryAcquire, ThreadSetPriority
  <2> QED BY <2>1, <2>2, <2>3
<1> QED BY <1>1, <1>2 DEF DataOK

\* Every step.
LEMMA NextCondWaits ==
  ASSUME GuardInv, DataOK, CondWaitInv, [CondNext]_allVars
  PROVE  /\ CondWaitInv'
         /\ \A t \in Thread : waiting_lock[t] # NULL => waiting_lock'[t] = waiting_lock[t]
<1>0. OwnerInv /\ StageInv /\ WaitInv
  BY DEF GuardInv, CondWaitInv
<1>1. CASE CondRelease \/ CondAcquire
  <2>1. Call /\ cur \in Thread /\ outcome = "ok"
    BY <1>1, CondCalls, StageRuns
       DEF CondRelease, CondAcquire, LockRelease, AcquireFree, AcquireHeld, At
  <2>2. /\ WaitInv'
        /\ \A t \in Thread : waiting_lock[t] # NULL => waiting_lock'[t] = waiting_lock[t]
    BY <1>0, <2>1, CallWaits
  <2>3. \A t \in Thread \ {cur} : waiting_lock'[t] = waiting_lock[t] /\ stage'[t] = stage[t]
    BY <1>0, <1>1, <2>1, CallWaitsItself DEF CondRelease, CondAcquire, NextStage, StageInv
  <2>4. waiting_lock'[cur] # NULL => stage'[cur] \in {"none", "return"}
    <3>1. CASE CondRelease
      <4>1. pc[cur] = "run" /\ waiting_lock' = waiting_lock
        BY <3>1 DEF CondRelease, LockRelease, At
      <4> QED BY <1>0, <2>1, <4>1 DEF WaitInv, Waits
    <3>2. CASE CondAcquire
      BY <1>0, <2>1, <3>2 DEF CondAcquire, NextStage, StageInv
    <3> QED BY <1>1, <3>1, <3>2
  <2>5. Aside'
    BY <2>1, <2>3, <2>4 DEF CondWaitInv, Aside
  <2> QED BY <2>2, <2>5 DEF CondWaitInv
<1>2. CASE LockStep /\ UNCHANGED condVars
  <2>1. Next
    BY <1>2 DEF LockStep, Next
  <2>2. /\ WaitInv'
        /\ \A t \in Thread : waiting_lock[t] # NULL => waiting_lock'[t] = waiting_lock[t]
    BY <1>0, <2>1, NextWaits DEF LockInv
  <2>3. stage' = stage /\ outcome = "ok"
    BY <1>2, <2>1 DEF condVars, Next, Call, AcquireFree, AcquireHeld, LockRelease, TryAcquire,
       ThreadSetPriority, Continue, TryOwn, Refresh, Check, SemaDown, At, Interrupt,
       TimerWakeup, Preempt, IntrOn
  <2>4. CASE InStage("none") /\ Call
    <3>1. \A t \in Thread \ {cur} : waiting_lock'[t] = waiting_lock[t]
      BY <1>0, <2>4, CallWaitsItself
    <3> QED BY <2>2, <2>3, <2>4, <3>1 DEF CondWaitInv, Aside, InStage
  <2>5. CASE SemaDown \/ Continue
    BY <1>0, <2>2, <2>3, <2>5, ContinueWaits DEF CondWaitInv, Aside
  <2>6. CASE Interrupt
    <3>1. waiting_lock' = waiting_lock
      BY <2>6 DEF Interrupt, TimerWakeup, Preempt, threadVars
    <3> QED BY <2>2, <2>3, <3>1 DEF CondWaitInv, Aside
  <2> QED BY <1>2, <2>4, <2>5, <2>6 DEF LockStep
<1>3. CASE UNCHANGED allVars
  <2>1. LockInv /\ [Next]_vars
    BY <1>0, <1>3 DEF allVars, LockInv
  <2>2. WaitInv'
    BY <2>1, NextWaits DEF LockInv
  <2> QED BY <1>3, <2>2 DEF allVars, vars, threadVars, condVars, CondWaitInv, Aside
<1>4. CASE CondCall
  BY <1>4, CondWaitWaits, SignalWaits DEF CondCall
<1>5. CASE CondDown \/ CondUp \/ CondReturn \/ CondCompare \/ CondRemove
  BY <1>5, CondDownWaits, CondUpWaits, SignalWaits
<1> QED BY <1>1, <1>2, <1>3, <1>4, <1>5 DEF CondNext, CondContinue

\* At the start.
LEMMA InitCondWaits == CondInit => CondWaitInv
BY InitWaits DEF CondInit, Init, CondWaitInv, Aside

\* A contended lock is never handed over, to a thread that returns from
\* cond_wait either: a thread that was signalled while the signaller still
\* held the lock waits for it for good.
THEOREM NeverHandedToWaiter == CondSpec => NeverHandedOver
<1> DEFINE Inv == GuardInv /\ DataOK /\ CondWaitInv
<1>1. CondInit => Inv
  BY InitGuards, InitTypes, InitCondWaits DEF CondInit
<1>2. Inv /\ [CondNext]_allVars => Inv'
  BY NextGuards, NextCondTypes, NextCondWaits
<1>3. Inv /\ [CondNext]_allVars =>
          \A t \in Thread : waiting_lock[t] # NULL => waiting_lock'[t] = waiting_lock[t]
  BY NextCondWaits
<1> HIDE DEF Inv
<1> QED BY <1>1, <1>2, <1>3, PTL DEF CondSpec, NeverHandedOver

-----------------------------------------------------------------------------
(* Signals while every lock is found free.                                 *)

\* A thread goes to sleep on its semaphore.
LEMMA SleepTidy ==
  ASSUME NEW m, NEW S \in SUBSET Thread, NEW sleepers \in SUBSET Thread, Tidy(m, S, sleepers),
         NEW e \in Thread \ (S \union sleepers), NEW pri \in [Thread -> Int],
         NEW r \in list_insert_ordered(m, sema_waiters(e), e, pri)
  PROVE  r.outcome = "ok" /\ Tidy(r.link, S, sleepers \union {e})
<1>1. PICK own \in ThreadList \ {ready_list} : own = sema_waiters(e)
  BY OnFacts
<1>2. /\ IsSide(Thread, ThreadList) /\ LinkOK(m) /\ ready_list \in ThreadList
      /\ Whole(m, ready_list, S) /\ S \intersect sleepers = {} /\ On(own, sleepers) = {}
  BY <1>1, ThreadLists, OnFacts DEF Tidy
<1>3. Whole(m, own, {})
  BY <1>2 DEF Tidy
<1>4. PICK k : k = r.link
  OBVIOUS
<1>5. PICK T \in SUBSET Thread : T = {e}
  OBVIOUS
<1>6. r.outcome = "ok" /\ LinkOK(k) /\ Whole(k, own, T) /\ OnlyOn(m, k, own, T)
  <2>1. PICK none \in SUBSET Thread : none = {}
    OBVIOUS
  <2>2. Whole(m, own, none) /\ e \in Thread \ none
    BY <1>3, <2>1
  <2>3. /\ r.outcome = "ok" /\ LinkOK(r.link) /\ Whole(r.link, own, none \union {e})
        /\ OnlyOn(m, r.link, own, none \union {e})
    BY <1>1, <1>2, <2>2, InsertChain
  <2>4. none \union {e} = T
    BY <1>5, <2>1
  <2> QED BY <1>4, <2>3, <2>4
<1>7. Whole(k, ready_list, S)
  BY <1>1, <1>2, <1>5, <1>6, OtherChain
<1>8. ASSUME NEW list \in ThreadList \ {ready_list}
      PROVE  Whole(k, list, On(list, sleepers \union {e}))
  <2>1. CASE list = own
    <3>1. On(list, sleepers \union {e}) = T
      BY <1>1, <1>2, <1>5, <2>1 DEF On
    <3> QED BY <1>6, <2>1, <3>1
  <2>2. CASE list # own
    <3>1. PICK U \in SUBSET Thread : U = On(list, sleepers)
      BY OnFacts
    <3>2. On(list, sleepers \union {e}) = U
      BY <1>1, <2>2, <3>1 DEF On
    <3>3. Whole(m, list, U) /\ T \intersect U = {} /\ list \in ThreadList /\ own \in ThreadList
      BY <1>1, <1>5, <3>1 DEF Tidy, On
    <3>4. Whole(k, list, U)
      BY <1>2, <1>6, <2>2, <3>3, OtherChain
    <3> QED BY <3>2, <3>4
  <2> QED BY <2>1, <2>2
<1>9. S \intersect (sleepers \union {e}) = {}
  BY <1>2
<1> QED BY <1>4, <1>6, <1>7, <1>8, <1>9 DEF Tidy

\* A thread that sleeps on its semaphore is the first one there, and is taken
\* off.
LEMMA WakeTidy ==
  ASSUME NEW m, NEW S \in SUBSET Thread, NEW sleepers \in SUBSET Thread, Tidy(m, S, sleepers),
         NEW e \in sleepers
  PROVE  /\ begin(m, sema_waiters(e)) = e
         /\ Tidy(list_remove(m, e), S, sleepers \ {e})
<1>1. PICK own \in ThreadList \ {ready_list} : own = sema_waiters(e)
  BY OnFacts
<1>2. /\ IsSide(Thread, ThreadList) /\ LinkOK(m) /\ ready_list \in ThreadList
      /\ Whole(m, ready_list, S) /\ S \intersect sleepers = {}
  BY ThreadLists DEF Tidy
<1>3. PICK T \in SUBSET Thread : T = {e}
  OBVIOUS
<1>4. Whole(m, own, T)
  <2>1. On(own, sleepers) = T
    BY <1>1, <1>3, OnFacts
  <2>2. Whole(m, own, On(own, sleepers))
    BY <1>1 DEF Tidy
  <2> QED BY <2>1, <2>2
<1>5. T \in SUBSET Linked(m, Thread)
  BY <1>2, <1>4, ChainLinked
<1>6. begin(m, own) = e
  <2>1. PICK rank : Chain(m, own, T, rank)
    BY <1>4 DEF Whole
  <2>2. /\ rank[e] > 0 /\ rank[head(own)] = 0 /\ rank \in [Node -> Nat]
        /\ rank[e] < rank[tail(own)]
        /\ m[head(own)].next \in T \union {tail(own)}
        /\ rank[e] <= rank[head(own)] \/ rank[e] >= rank[m[head(own)].next]
    BY <1>3, <2>1 DEF Chain
  <2>3. /\ rank[e] \in Nat /\ rank[tail(own)] \in Nat
    BY <1>2, <2>2, SideParts, FromTo
  <2>4. m[head(own)].next # tail(own)
    BY <2>2, <2>3
  <2> QED BY <1>3, <2>2, <2>4 DEF begin
<1>7. PICK k : k = list_remove(m, e)
  OBVIOUS
<1>8. Whole(k, own, T \ {e}) /\ OnlyOn(m, k, own, T)
  <2>1. e \in T
    BY <1>3
  <2> QED BY <1>2, <1>4, <1>5, <1>7, <2>1, ChainRemove
<1>9. LinkOK(k)
  <2>1. e \in Linked(m, Thread)
    BY <1>3, <1>5
  <2> QED BY <1>2, <1>7, <2>1, RemoveSound
<1>10. Whole(k, ready_list, S)
  BY <1>1, <1>2, <1>3, <1>8, OtherChain
<1>11. ASSUME NEW list \in ThreadList \ {ready_list}
       PROVE  Whole(k, list, On(list, sleepers \ {e}))
  <2>1. CASE list = own
    <3>1. On(list, sleepers \ {e}) = T \ {e}
      BY <1>1, <1>3, <2>1, ListNames DEF On
    <3> QED BY <1>8, <2>1, <3>1
  <2>2. CASE list # own
    <3>1. PICK U \in SUBSET Thread : U = On(list, sleepers)
      BY OnFacts
    <3>2. On(list, sleepers \ {e}) = U
      BY <1>1, <2>2, <3>1 DEF On
    <3>3. Whole(m, list, U) /\ T \intersect U = {} /\ list \in ThreadList /\ own \in ThreadList
      BY <1>1, <1>3, <2>2, <3>1 DEF Tidy, On
    <3>4. Whole(k, list, U)
      BY <1>2, <1>8, <2>2, <3>3, OtherChain
    <3> QED BY <3>2, <3>4
  <2> QED BY <2>1, <2>2
<1>12. S \intersect (sleepers \ {e}) = {}
  BY <1>2
<1> QED BY <1>1, <1>6, <1>7, <1>9, <1>10, <1>11, <1>12 DEF Tidy

-----------------------------------------------------------------------------
(* The locks held, and condition variables.                                *)

\* list_init of the list of a semaphore.
LEMMA InitListHeld ==
  ASSUME NEW m, LinkOK(m), NEW list \in ThreadList
  PROVE  SameHeld(m, list_init(m, list))
<1>1. head(list) \in Side(Thread, ThreadList) /\ tail(list) \in Side(Thread, ThreadList)
  BY DEF Side, Heads, Ends
<1>2. \A n \in Side(Lock, HeldList) : n \in Node /\ n # head(list) /\ n # tail(list)
  BY <1>1, HeldSide
<1> QED BY <1>2, InitListSound DEF SameHeld

\* Every step, if lock_try_acquire is not used.
LEMMA NextCondHeld ==
  ASSUME TryLock = {}, GuardInv, DataOK, CondWaitInv, HeldInv, NoTry, [CondNext]_allVars
  PROVE  HeldInv' /\ NoTry'
<1>0. OwnerInv /\ LockInv /\ pc \in [Thread -> PC]
  BY DEF GuardInv, CondWaitInv, LockInv, OwnerInv
<1>1. CASE CondRelease \/ CondAcquire \/ (LockStep /\ UNCHANGED condVars)
  <2>1. Next
    BY <1>1, CondCalls DEF LockStep, Next
  <2> QED BY <1>0, <2>1, NextHeld
<1>2. ASSUME NEW c \in Cond, CondWait(c)
      PROVE  HeldInv' /\ NoTry'
  <2>1. PICK me \in Thread : me = cur
    BY <1>2, AtStageRuns DEF CondWait
  <2>2. /\ link' = list_init(link, sema_waiters(me)) /\ UNCHANGED <<pc, holder>>
        /\ outcome = "ok"
    BY <1>2, <2>1 DEF CondWait, threadVars, AtStage, At
  <2>3. SameHeld(link, link')
    BY <2>2, InitListHeld, OnFacts DEF DataOK
  <2> QED BY <2>2, <2>3, HeldStays DEF NoTry
<1>3. CASE CondDown
  <2>1. cur \in Thread /\ outcome = "ok"
    BY <1>3, StageRuns DEF CondDown, At
  <2>2. NoTry'
    <3>1. pc' = [pc EXCEPT ![cur] = "sema_down"] \/ pc' = [pc EXCEPT ![cur] = "run"]
      BY <1>3 DEF CondDown, block_on, Goto
    <3> QED BY <1>0, <3>1 DEF NoTry
  <2>3. SUFFICES ASSUME outcome' = "ok" PROVE HeldInv'
    BY <2>2 DEF HeldInv
  <2>4. holder' = holder
    BY <1>3 DEF CondDown, block_on
  <2>5. SameHeld(link, link')
    <3>1. CASE block_on(cur)
      BY <2>1, <2>3, <3>1, BlockHeld DEF DataOK, Sema
    <3>2. CASE link' = link
      BY <3>2 DEF SameHeld
    <3> QED BY <1>3, <3>1, <3>2 DEF CondDown
  <2> QED BY <2>1, <2>4, <2>5, HeldStays
<1>4. CASE CondUp
  <2>1. /\ cur \in Thread /\ outcome = "ok" /\ max_e[cur] \in Sema /\ holder' = holder
        /\ pc' = [pc EXCEPT ![cur] = "check"]
    BY <1>4, CondUpEffect DEF CondUp, AtStage, At, Sema
  <2>2. PICK r \in sema_up(link, max_e[cur]) : link' = r.link
    BY <1>4 DEF CondUp
  <2>3. SameHeld(link, link')
    BY <2>1, <2>2, SemaUpHeld DEF DataOK
  <2>4. NoTry'
    BY <1>0, <2>1 DEF NoTry
  <2> QED BY <2>1, <2>3, <2>4, HeldStays
<1>5. CASE \/ CondReturn \/ CondCompare \/ CondRemove
           \/ \E c \in Cond, all \in BOOLEAN : CondSignal(c, all)
  <2>1. /\ UNCHANGED <<link, holder>> /\ outcome = "ok" /\ cur \in Thread
        /\ pc' = pc \/ pc' = [pc EXCEPT ![cur] = "check"]
    BY <1>5, AtStageRuns DEF CondReturn, CondCompare, CondRemove, CondSignal, vars, threadVars,
       AtStage, At, Goto
  <2>2. SameHeld(link, link')
    BY <2>1 DEF SameHeld
  <2>3. NoTry'
    BY <1>0, <2>1 DEF NoTry
  <2> QED BY <2>1, <2>2, <2>3, HeldStays
<1>6. CASE UNCHANGED allVars
  <2>1. [Next]_vars
    BY <1>6 DEF allVars
  <2> QED BY <1>0, <2>1, NextHeld
<1> QED BY <1>1, <1>2, <1>3, <1>4, <1>5, <1>6 DEF CondNext, CondContinue, CondCall

-----------------------------------------------------------------------------
(* The lists, and condition variables.                                     *)

\* The threads past lock_release in cond_wait, and those of them that sleep.
InSema == {t \in Thread : stage[t] = "sema"}
Sleepers == {t \in InSema : status[t] = "BLOCKED"}

\* As long as no lock is found held, the kernel has not stopped but in
\* list_front, the sleepers alone are on the lists of semaphores, each on its
\* own, and nobody sleeps whose semaphore is up.
CondFree ==
    /\ outcome \in {"ok", "list_front"}
    /\ Tidy(link, Ready(status), Sleepers)
    /\ \A t \in Thread :
           /\ pc[t] \in {"wait", "sema_down"} => stage[t] = "sema"
           /\ pc[t] = "asleep" => status[t] = "BLOCKED" /\ stage[t] # "sema"
           /\ stage[t] = "sema" /\ value[t] = 1 => status[t] # "BLOCKED"

\* This is what Locks needs.
LEMMA CondFreeIsFree ==
  ASSUME CondFree, outcome = "ok"
  PROVE  Free(Sleepers, InSema)
BY DEF CondFree, Free, Sleepers, InSema

\* The steps of Locks.
LEMMA StepFree ==
  ASSUME CondFree, NEW sleepers \in SUBSET Thread, sleepers = Sleepers,
         NEW W, W = InSema, FreeStep(sleepers, W),
         \A t \in Thread : /\ value'[t] = value[t]
                           /\ \/ stage'[t] = stage[t]
                              \/ status[t] = "RUNNING" /\ stage[t] # "sema"
  PROVE  CondFree' /\ outcome' = "ok"
<1>1. Sleepers' = sleepers
  BY DEF FreeStep, Free, Sleepers, InSema
<1>2. Tidy(link', Ready(status'), sleepers) /\ outcome' = "ok"
  BY DEF FreeStep, Free
<1>3. ASSUME NEW t \in Thread
      PROVE  /\ pc'[t] \in {"wait", "sema_down"} => stage'[t] = "sema"
             /\ pc'[t] = "asleep" => status'[t] = "BLOCKED" /\ stage'[t] # "sema"
             /\ stage'[t] = "sema" /\ value'[t] = 1 => status'[t] # "BLOCKED"
  <2>1. pc'[t] \in {"wait", "sema_down"} => stage'[t] = "sema"
    BY DEF FreeStep, Free, InSema
  <2>2. pc'[t] = "asleep" => status'[t] = "BLOCKED" /\ stage'[t] # "sema"
    BY <1>1 DEF FreeStep, Free, Sleepers, InSema
  <2>3. status'[t] = "BLOCKED" => status[t] = "BLOCKED"
    BY DEF FreeStep
  <2>4. stage'[t] = "sema" /\ value'[t] = 1 => status'[t] # "BLOCKED"
    BY <2>3 DEF CondFree
  <2> QED BY <2>1, <2>2, <2>4
<1> QED BY <1>1, <1>2, <1>3 DEF CondFree

\* What the invariant says of the thread that makes a step.
LEMMA RunnerFacts ==
  ASSUME GuardInv, CondWaitInv, outcome = "ok", cur \in Thread
  PROVE  status[cur] = "RUNNING" /\ InPlace(cur)
BY DEF CondWaitInv, WaitInv, Running, GuardInv, StageInv

\* The steps of Locks, and the calls of lock_release and lock_acquire.
LEMMA LockStepFree ==
  ASSUME TryLock = {}, GuardInv, DataOK, CondWaitInv, HeldInv, NoTry, CondFree, ~Contended',
         CondRelease \/ CondAcquire \/ (LockStep /\ UNCHANGED condVars)
  PROVE  CondFree' /\ outcome' = "ok"
<1>1. OwnerInv /\ LockInv /\ pc \in [Thread -> PC] /\ stage \in [Thread -> Stage]
  BY DEF GuardInv, CondWaitInv, LockInv, OwnerInv, StageInv
<1>2. Next
  BY CondCalls DEF LockStep, Next
<1>3. outcome = "ok"
  BY <1>2 DEF Next, Call, AcquireFree, AcquireHeld, LockRelease, TryAcquire,
     ThreadSetPriority, Continue, TryOwn, Refresh, Check, SemaDown, At, Interrupt,
     TimerWakeup, Preempt, IntrOn
<1>4. PICK sleepers \in SUBSET Thread : sleepers = Sleepers
  BY DEF Sleepers, InSema
<1>5. PICK W : W = InSema
  OBVIOUS
<1>6. SemaDown => cur \notin W
  <2> SUFFICES ASSUME SemaDown PROVE stage[cur] # "sema"
    BY <1>5 DEF InSema
  <2>1. cur \in Thread /\ pc[cur] \in {"wait", "sema_down"} /\ InPlace(cur)
    BY <1>1, <1>3, AtRuns, RunnerFacts DEF SemaDown
  <2>2. CASE pc[cur] = "wait"
    BY <2>1, <2>2 DEF InPlace
  <2>3. CASE pc[cur] = "sema_down" /\ (CondRelease \/ CondAcquire)
    BY <2>3 DEF CondRelease, CondAcquire, InStage
  <2>4. CASE pc[cur] = "sema_down" /\ LockStep
    <3>1. ~Call /\ ~Continue /\ ~Interrupt
      BY <2>1, <2>4 DEF Call, AcquireFree, AcquireHeld, LockRelease, TryAcquire,
         ThreadSetPriority, Continue, TryOwn, Refresh, Check, At, Interrupt,
         TimerWakeup, Preempt, IntrOn, IntrOffPC
    <3>2. ~InStage("sema")
      BY <2>4, <3>1 DEF LockStep
    <3> QED BY <2>1, <3>2, Distinct DEF InStage
  <2> QED BY <2>1, <2>2, <2>3, <2>4
<1>7. Free(sleepers, W)
  BY <1>3, <1>4, <1>5, CondFreeIsFree
<1>8. FreeStep(sleepers, W)
  BY <1>1, <1>2, <1>6, <1>7, NextFree
<1>9. ASSUME NEW t \in Thread
      PROVE  /\ value'[t] = value[t]
             /\ stage'[t] = stage[t] \/ (status[t] = "RUNNING" /\ stage[t] # "sema")
  <2>1. value'[t] = value[t]
    BY <1>1, <1>2, NextValues
  <2>2. CASE UNCHANGED condVars
    BY <2>1, <2>2 DEF condVars
  <2>3. CASE CondRelease \/ CondAcquire
    <3>1. cur \in Thread /\ stage[cur] # "sema"
      BY <2>3, StageRuns DEF CondRelease, CondAcquire
    <3>2. status[cur] = "RUNNING"
      BY <1>3, <3>1, RunnerFacts
    <3>3. \E s \in Stage : stage' = [stage EXCEPT ![cur] = s]
      BY <2>3 DEF CondRelease, CondAcquire, NextStage, Stage
    <3> QED BY <1>1, <2>1, <3>1, <3>2, <3>3
  <2> QED BY <2>2, <2>3
<1> QED BY <1>4, <1>5, <1>8, <1>9, StepFree

\* cond_wait: list_init leaves a list that is empty as it is.
LEMMA CondWaitFree ==
  ASSUME GuardInv, DataOK, CondWaitInv, CondFree, NEW c \in Cond, CondWait(c)
  PROVE  CondFree' /\ outcome' = "ok"
<1>1. PICK me \in Thread : me = cur
  BY AtStageRuns DEF CondWait
<1>2. /\ link' = list_init(link, sema_waiters(me)) /\ UNCHANGED <<pc, status, outcome>>
      /\ value' = [value EXCEPT ![me] = 0] /\ stage' = [stage EXCEPT ![me] = "release"]
      /\ stage[me] = "none" /\ pc[me] = "run" /\ outcome = "ok"
      /\ value \in [Sema -> Nat] /\ stage \in [Thread -> Stage]
  BY <1>1, AtStageRuns DEF CondWait, threadVars, NextStage, CondTypes, OwnerInv, AtStage, At
<1>3. PICK sleepers \in SUBSET Thread : sleepers = Sleepers
  BY DEF Sleepers, InSema
<1>4. me \notin sleepers
  BY <1>2, <1>3 DEF Sleepers, InSema
<1>5. PICK S \in SUBSET Thread : S = Ready(status)
  BY DEF Ready
<1>6. PICK m : m = link
  OBVIOUS
<1>7. PICK own \in ThreadList \ {ready_list} : own = sema_waiters(me)
  BY OnFacts
<1>8. PICK r : r = list_init(m, own)
  OBVIOUS
<1>9. Tidy(m, S, sleepers) /\ LinkOK(m) /\ On(own, sleepers) = {}
  BY <1>3, <1>4, <1>5, <1>6, <1>7, OnFacts DEF CondFree, DataOK
<1>10. m[head(own)].next = tail(own) /\ m[tail(own)].prev = head(own)
  BY <1>9, TidyEmpty
<1>11. /\ LinkOK(r) /\ \A n \in From : r[n].next = m[n].next
       /\ \A n \in To : r[n].prev = m[n].prev
  BY <1>8, <1>9, <1>10, InitListSound, FromTo
<1>12. Tidy(r, S, sleepers)
  BY <1>9, <1>11, SameTidy
<1>13. Sleepers' = sleepers /\ Ready(status') = S /\ link' = r
  BY <1>2, <1>3, <1>5, <1>6, <1>7, <1>8 DEF Sleepers, InSema
<1>14. ASSUME NEW t \in Thread
       PROVE  /\ pc'[t] \in {"wait", "sema_down"} => stage'[t] = "sema"
              /\ pc'[t] = "asleep" => status'[t] = "BLOCKED" /\ stage'[t] # "sema"
              /\ stage'[t] = "sema" /\ value'[t] = 1 => status'[t] # "BLOCKED"
  <2>1. t # me => stage'[t] = stage[t] /\ value'[t] = value[t]
    BY <1>2 DEF Sema
  <2>2. stage'[me] = "release"
    BY <1>2
  <2> QED BY <1>2, <2>1, <2>2 DEF CondFree
<1> QED BY <1>2, <1>12, <1>13, <1>14 DEF CondFree

\* The steps that change neither lists nor semaphores.
LEMMA SignalFree ==
  ASSUME GuardInv, CondWaitInv, CondFree,
         CondReturn \/ CondCompare \/ CondRemove \/ \E c \in Cond, all \in BOOLEAN : CondSignal(c, all)
  PROVE  CondFree' /\ UNCHANGED <<link, holder>>
<1>1. /\ cur \in Thread /\ outcome = "ok" /\ pc[cur] = "run" /\ stage[cur] # "sema"
      /\ pc \in [Thread -> PC] /\ stage \in [Thread -> Stage]
  BY AtStageRuns DEF CondReturn, CondCompare, CondRemove, CondSignal, AtStage, At, CondTypes,
     OwnerInv
<1>2. /\ UNCHANGED <<status, link, value, holder>> /\ outcome' \in {"ok", "list_front"}
      /\ pc' = pc \/ pc' = [pc EXCEPT ![cur] = "check"]
  BY <1>1 DEF CondReturn, CondCompare, CondRemove, CondSignal, vars, threadVars, Goto
<1>3. stage' = stage \/ \E s \in Stage \ {"sema"} : stage' = [stage EXCEPT ![cur] = s]
  BY DEF CondReturn, CondCompare, CondRemove, CondSignal, begin_max, NextStage, Stage
<1>4. \A t \in Thread : /\ stage'[t] = "sema" <=> stage[t] = "sema"
                        /\ pc'[t] \in {"wait", "sema_down", "asleep"} => pc'[t] = pc[t]
  BY <1>1, <1>2, <1>3
<1>5. Sleepers' = Sleepers /\ Ready(status') = Ready(status)
  BY <1>2, <1>4 DEF Sleepers, InSema
<1>6. Tidy(link', Ready(status'), Sleepers')
  BY <1>2, <1>5 DEF CondFree
<1>7. \A t \in Thread :
          /\ pc'[t] \in {"wait", "sema_down"} => stage'[t] = "sema"
          /\ pc'[t] = "asleep" => status'[t] = "BLOCKED" /\ stage'[t] # "sema"
          /\ stage'[t] = "sema" /\ value'[t] = 1 => status'[t] # "BLOCKED"
  BY <1>2, <1>4 DEF CondFree
<1> QED BY <1>2, <1>6, <1>7 DEF CondFree

\* sema_down of cond_wait puts the thread to sleep, unless its semaphore is
\* up already.
LEMMA CondDownFree ==
  ASSUME GuardInv, DataOK, CondWaitInv, CondFree, CondDown
  PROVE  CondFree' /\ outcome' = "ok"
<1>1. /\ cur \in Thread /\ outcome = "ok" /\ stage[cur] = "sema" /\ pc[cur] # "asleep"
      /\ pc \in [Thread -> PC] /\ stage \in [Thread -> Stage] /\ value \in [Sema -> Nat]
  BY StageRuns DEF CondDown, At, CondTypes, OwnerInv
<1>2. PICK me \in Thread : me = cur
  BY <1>1
<1>3. status[me] = "RUNNING" /\ status \in [Thread -> Status]
  BY <1>1, <1>2, RunnerFacts DEF DataOK
<1>4. PICK sleepers \in SUBSET Thread : sleepers = Sleepers
  BY DEF Sleepers, InSema
<1>5. PICK S \in SUBSET Thread : S = Ready(status)
  BY DEF Ready
<1>6. PICK m : m = link
  OBVIOUS
<1>7. Tidy(m, S, sleepers) /\ me \in Thread \ (S \union sleepers)
  BY <1>3, <1>4, <1>5, <1>6 DEF CondFree, Sleepers, InSema, Ready
<1>8. CASE value[me] = 0
  <2>1. block_on(me) /\ stage' = stage
    BY <1>2, <1>8 DEF CondDown
  <2>2. PICK pri \in [Thread -> Int] : pri = priority
    BY PriorityIsInt DEF DataOK
  <2>3. PICK st \in [Thread -> Status] : st = [status EXCEPT ![me] = "BLOCKED"]
    BY <1>3 DEF Status
  <2>4. PICK r \in list_insert_ordered(m, sema_waiters(me), me, pri) :
            IF r.outcome = "ok" THEN schedule(r.link, st) ELSE Stop(r.outcome)
    BY <1>2, <1>6, <2>1, <2>2, <2>3 DEF block_on
  <2>5. PICK more \in SUBSET Thread : more = sleepers \union {me}
    OBVIOUS
  <2>6. r.outcome = "ok" /\ Tidy(r.link, S, more)
    BY <1>7, <2>4, <2>5, SleepTidy
  <2>7. Ready(st) = S
    BY <1>3, <1>5, <2>3 DEF Ready
  <2>8. PICK k : k = r.link
    OBVIOUS
  <2>9. Tidy(k, Ready(st), more) /\ schedule(k, st)
    BY <2>4, <2>6, <2>7, <2>8
  <2>10. TidyAfter(st, more)
    BY <2>9, ScheduleTidy
  <2>11. \A t \in Thread : status'[t] = "BLOCKED" <=> t = me \/ status[t] = "BLOCKED"
    BY <1>3, <2>3, <2>10 DEF TidyAfter
  <2>12. Sleepers' = more
    BY <1>1, <1>2, <1>4, <2>1, <2>5, <2>11 DEF Sleepers, InSema
  <2>13. Tidy(link', Ready(status'), Sleepers') /\ outcome' = "ok"
    BY <1>1, <2>10, <2>12 DEF TidyAfter
  <2>14. pc' = [pc EXCEPT ![me] = "sema_down"] /\ value' = value
    BY <1>2, <2>1 DEF block_on, Goto
  <2>15. ASSUME NEW t \in Thread
         PROVE  /\ pc'[t] \in {"wait", "sema_down"} => stage'[t] = "sema"
                /\ pc'[t] = "asleep" => status'[t] = "BLOCKED" /\ stage'[t] # "sema"
                /\ stage'[t] = "sema" /\ value'[t] = 1 => status'[t] # "BLOCKED"
    <3>1. CASE t = me
      BY <1>1, <1>2, <1>8, <2>1, <2>14, <3>1
    <3>2. CASE t # me
      BY <1>1, <2>1, <2>11, <2>14, <3>2 DEF CondFree
    <3> QED BY <3>1, <3>2
  <2> QED BY <2>13, <2>15 DEF CondFree
<1>9. CASE value[me] # 0
  <2>1. /\ UNCHANGED <<status, link, outcome>> /\ value' = [value EXCEPT ![me] = @ - 1]
        /\ pc' = [pc EXCEPT ![me] = "run"] /\ stage' = [stage EXCEPT ![me] = "acquire"]
    BY <1>2, <1>9 DEF CondDown, Goto, NextStage
  <2>2. Sleepers' = sleepers
    BY <1>1, <1>3, <1>4, <2>1 DEF Sleepers, InSema
  <2>3. Tidy(link', Ready(status'), Sleepers')
    BY <1>5, <1>6, <1>7, <2>1, <2>2
  <2>4. ASSUME NEW t \in Thread
        PROVE  /\ pc'[t] \in {"wait", "sema_down"} => stage'[t] = "sema"
               /\ pc'[t] = "asleep" => status'[t] = "BLOCKED" /\ stage'[t] # "sema"
               /\ stage'[t] = "sema" /\ value'[t] = 1 => status'[t] # "BLOCKED"
    <3>1. CASE t = me
      BY <1>1, <2>1, <3>1
    <3>2. CASE t # me
      <4>1. stage'[t] = stage[t] /\ pc'[t] = pc[t] /\ value'[t] = value[t]
        BY <1>1, <2>1, <3>2 DEF Sema
      <4> QED BY <2>1, <4>1 DEF CondFree
    <3> QED BY <3>1, <3>2
  <2> QED BY <1>1, <2>1, <2>3, <2>4 DEF CondFree
<1> QED BY <1>8, <1>9

\* sema_up of cond_signal wakes the thread it has picked, if that sleeps.
LEMMA CondUpFree ==
  ASSUME GuardInv, SignalInv, DataOK, CondWaitInv, CondFree, CondUp
  PROVE  CondFree' /\ outcome' = "ok"
<1>1. /\ cur \in Thread /\ outcome = "ok" /\ stage[cur] = "up" /\ max_e[cur] \in Thread
      /\ pc \in [Thread -> PC] /\ stage \in [Thread -> Stage] /\ value \in [Sema -> Nat]
      /\ value' = [value EXCEPT ![max_e[cur]] = @ + 1]
      /\ pc' = [pc EXCEPT ![cur] = "check"] /\ pc[cur] = "run"
  BY AtStageRuns, CondUpEffect DEF CondUp, AtStage, At, CondTypes, OwnerInv
<1>2. PICK me \in Thread : me = cur
  BY <1>1
<1>3. PICK e \in Thread : e = max_e[cur]
  BY <1>1
<1>4. stage[e] = "sema" /\ e # me
  BY <1>1, <1>2, <1>3 DEF SignalInv, Accounted
<1>5. \E s \in Stage \ {"sema"} : stage' = [stage EXCEPT ![me] = s]
  BY <1>1, <1>2, CondUpEffect DEF Stage
<1>6. \A t \in Thread : /\ stage'[t] = "sema" <=> stage[t] = "sema"
                        /\ pc'[t] \in {"wait", "sema_down", "asleep"} => pc'[t] = pc[t]
                        /\ t # e => value'[t] = value[t]
  BY <1>1, <1>2, <1>3, <1>5 DEF Sema
<1>7. PICK sleepers \in SUBSET Thread : sleepers = Sleepers
  BY DEF Sleepers, InSema
<1>8. PICK S \in SUBSET Thread : S = Ready(status)
  BY DEF Ready
<1>9. PICK m : m = link
  OBVIOUS
<1>10. Tidy(m, S, sleepers) /\ status \in [Thread -> Status]
  BY <1>7, <1>8, <1>9 DEF CondFree, DataOK
<1>11. PICK r \in sema_up(m, e) : outcome' = r.outcome /\ link' = r.link /\ status' = r.status
  BY <1>3, <1>9 DEF CondUp
<1>12. /\ outcome' = "ok" /\ Tidy(link', Ready(status'), Sleepers')
       /\ \A t \in Thread : status'[t] = "BLOCKED" <=> status[t] = "BLOCKED" /\ t # e
  <2>1. CASE e \in sleepers
    <3>1. PICK pri \in [Thread -> Int] : pri = priority
      BY PriorityIsInt DEF DataOK
    <3>2. PICK fewer \in SUBSET Thread : fewer = sleepers \ {e}
      OBVIOUS
    <3>3. PICK k : k = list_remove(m, e)
      OBVIOUS
    <3>4. begin(m, sema_waiters(e)) = e /\ Tidy(k, S, fewer)
      BY <1>10, <2>1, <3>2, <3>3, WakeTidy
    <3>5. status[e] = "BLOCKED" /\ e \notin S
      BY <1>7, <1>8, <2>1 DEF Sleepers, Ready
    <3>6. e # tail(sema_waiters(e))
      BY QueueTail, OnFacts
    <3>7. PICK q \in list_insert_ordered(k, ready_list, e, pri) :
              r = [outcome |-> q.outcome, link |-> q.link,
                   status |-> [status EXCEPT ![e] = "READY"]]
      BY <1>11, <3>1, <3>3, <3>4, <3>5, <3>6 DEF sema_up, empty
    <3>8. e \in Thread \ (S \union fewer)
      BY <3>2, <3>5
    <3>9. q.outcome = "ok" /\ Tidy(q.link, S \union {e}, fewer)
      BY <3>4, <3>7, <3>8, InsertTidy
    <3>10. outcome' = q.outcome /\ link' = q.link /\ status' = [status EXCEPT ![e] = "READY"]
      BY <1>11, <3>7
    <3>11. \A t \in Thread : status'[t] = IF t = e THEN "READY" ELSE status[t]
      BY <1>10, <3>10
    <3>12. Ready(status') = S \union {e} /\ Sleepers' = fewer
      BY <1>6, <1>7, <1>8, <3>2, <3>11 DEF Ready, Sleepers, InSema
    <3>13. outcome' = "ok" /\ Tidy(link', Ready(status'), Sleepers')
      BY <3>9, <3>10, <3>12
    <3>14. \A t \in Thread : status'[t] = "BLOCKED" <=> status[t] = "BLOCKED" /\ t # e
      BY <3>11
    <3> QED BY <3>13, <3>14
  <2>2. CASE e \notin sleepers
    <3>1. status[e] # "BLOCKED"
      BY <1>4, <1>7, <2>2 DEF Sleepers, InSema
    <3>2. PICK own \in ThreadList \ {ready_list} : own = sema_waiters(e)
      BY OnFacts
    <3>3. On(own, sleepers) = {}
      BY <2>2, <3>2, OnFacts
    <3>4. begin(m, own) = tail(own) /\ tail(own) \notin Thread
      BY <1>10, <3>3, TidyEmpty, QueueTail
    <3>5. r = [outcome |-> "ok", link |-> m, status |-> status]
      BY <1>11, <3>2, <3>4 DEF sema_up, empty
    <3>6. outcome' = "ok" /\ link' = m /\ status' = status
      BY <1>11, <3>5
    <3>7. Ready(status') = S /\ Sleepers' = sleepers
      BY <1>6, <1>7, <1>8, <3>6 DEF Sleepers, InSema
    <3>8. Tidy(link', Ready(status'), Sleepers')
      BY <1>10, <3>6, <3>7
    <3> QED BY <3>1, <3>6, <3>8
  <2> QED BY <2>1, <2>2
<1>13. ASSUME NEW t \in Thread
       PROVE  /\ pc'[t] \in {"wait", "sema_down"} => stage'[t] = "sema"
              /\ pc'[t] = "asleep" => status'[t] = "BLOCKED" /\ stage'[t] # "sema"
              /\ stage'[t] = "sema" /\ value'[t] = 1 => status'[t] # "BLOCKED"
  <2>1. pc'[t] = "asleep" => t # e
    BY <1>4, <1>6 DEF CondFree
  <2> QED BY <1>6, <1>12, <2>1 DEF CondFree
<1> QED BY <1>12, <1>13 DEF CondFree

\* The inductive invariant: as long as no lock is found held, the lists are
\* in order.
HeldWhole == \A t \in Thread : Whole(link, locks_held(t), Held(t))
CondFreeInv ==
    /\ GuardInv /\ SignalInv /\ DataOK /\ CondWaitInv /\ HeldInv /\ NoTry
    /\ Contended \/ (CondFree /\ HeldWhole)

\* It is one.
LEMMA CondFreeInvHolds ==
  ASSUME TryLock = {}
  PROVE  CondSpec => []CondFreeInv
<1>1. CondInit => CondFreeInv
  <2> SUFFICES ASSUME CondInit PROVE CondFreeInv
    OBVIOUS
  <2>1. GuardInv /\ SignalInv /\ DataOK /\ CondWaitInv /\ HeldInv /\ NoTry /\ outcome = "ok"
    BY InitGuards, InitAccounts, InitTypes, InitCondWaits, InitHeld DEF CondInit, Init
  <2>2. Free({}, {})
    BY InitFree DEF CondInit
  <2>3. \A t \in Thread : stage[t] = "none"
    BY DEF CondInit
  <2>4. Sleepers = {}
    BY <2>3 DEF Sleepers, InSema
  <2>5. CondFree
    BY <2>2, <2>3, <2>4 DEF Free, CondFree
  <2> QED BY <2>1, <2>5 DEF CondFreeInv, HeldInv, HeldWhole
<1>2. CondFreeInv /\ [CondNext]_allVars => CondFreeInv'
  <2> SUFFICES ASSUME CondFreeInv, [CondNext]_allVars PROVE CondFreeInv'
    OBVIOUS
  <2>1. GuardInv /\ SignalInv /\ DataOK /\ CondWaitInv /\ HeldInv /\ NoTry
    BY DEF CondFreeInv
  <2>2. GuardInv' /\ SignalInv' /\ DataOK' /\ CondWaitInv' /\ HeldInv' /\ NoTry'
    BY <2>1, NextGuards, NextAccounts, NextCondTypes, NextCondWaits, NextCondHeld
  <2>3. Contended => Contended'
    BY <2>1, NextCondWaits DEF Contended
  <2>4. ASSUME CondFree, HeldWhole, ~Contended'
        PROVE  CondFree' /\ HeldWhole'
    <3>1. \/ CondFree' /\ outcome' = "ok"
          \/ CondFree' /\ UNCHANGED <<link, holder>>
      <4>1. CASE CondRelease \/ CondAcquire \/ (LockStep /\ UNCHANGED condVars)
        BY <2>1, <2>4, <4>1, LockStepFree
      <4>2. CASE CondCall
        BY <2>1, <2>4, <4>2, CondWaitFree, SignalFree DEF CondCall
      <4>3. CASE CondDown \/ CondUp \/ CondReturn \/ CondCompare \/ CondRemove
        BY <2>1, <2>4, <4>3, CondDownFree, CondUpFree, SignalFree
      <4>4. CASE UNCHANGED allVars
        BY <2>4, <4>4 DEF allVars, vars, threadVars, condVars, CondFree, Sleepers, InSema
      <4> QED BY <4>1, <4>2, <4>3, <4>4 DEF CondNext, CondContinue
    <3>2. CASE outcome' = "ok"
      BY <2>2, <3>1, <3>2 DEF HeldInv, HeldWhole
    <3>3. CASE UNCHANGED <<link, holder>>
      BY <2>4, <3>1, <3>3 DEF HeldWhole, Held
    <3> QED BY <3>1, <3>2, <3>3
  <2> QED BY <2>2, <2>3, <2>4 DEF CondFreeInv
<1> QED BY <1>1, <1>2, PTL DEF CondSpec

\* A signal wakes: as long as every lock is found free, no thread sleeps on in
\* cond_wait once cond_signal has raised its semaphore, and the kernel stops
\* nowhere but in the list_front of cond_sema_priority_cmp.
THEOREM FreeSignalWakes ==
  ASSUME TryLock = {}
  PROVE  CondSpec => [](~Contended => SignalledAwake /\ outcome \in {"ok", "list_front"})
<1>1. CondFreeInv => (~Contended => SignalledAwake /\ outcome \in {"ok", "list_front"})
  BY DEF CondFreeInv, CondFree, SignalledAwake
<1> QED BY <1>1, CondFreeInvHolds, PTL

\* The lists hold what they should while every lock is found free, with
\* condition variables in use as well.
THEOREM FreeCondListsIntact ==
  ASSUME TryLock = {}
  PROVE  CondSpec => []IntactWhileFree
<1>1. CondFreeInv => IntactWhileFree
  <2> SUFFICES ASSUME CondFreeInv, ~Contended PROVE IntactWhileFree
    BY DEF IntactWhileFree
  <2>1. PICK sleepers \in SUBSET Thread : sleepers = Sleepers
    BY DEF Sleepers, InSema
  <2>2. /\ Tidy(link, Ready(status), sleepers)
        /\ \A t \in Thread : Whole(link, locks_held(t), Held(t))
    BY <2>1 DEF CondFreeInv, CondFree, HeldWhole
  <2> QED BY <2>2, TidyIntact
<1> QED BY <1>1, CondFreeInvHolds, PTL

=============================================================================
