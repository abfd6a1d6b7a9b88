------------------------ MODULE MCPriorityScheduler ------------------------
(* PriorityScheduler with a small set of threads for TLC.                  *)
EXTENDS PriorityScheduler

\* Pages other than Main's and Idle's are interchangeable.
Workers == Permutations(Thread \ {Main, Idle})

\* The state without what no step reads before writing it: the fields of a
\* free page and the wakeup_tick of a thread that is not going to sleep.
Live ==
    LET used == {t \in Thread : status[t] # "FREE"}
        late == {t \in Thread : pc[t] \in {"timer_sleep", "asleep"}}
    IN <<schedVars, sleep_list, ticks, intr, yield_on_return, semaVars, pc, cand,
         child, panic,
         [t \in used |-> <<priority[t], base_priority[t]>>],
         [t \in late |-> wakeup_tick[t]]>>

=============================================================================
