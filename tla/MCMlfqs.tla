------------------------------ MODULE MCMlfqs ------------------------------
(* Mlfqs with a small set of threads for TLC.                              *)
EXTENDS Mlfqs

\* Pages other than Main's and Idle's are interchangeable.
Workers == Permutations(Thread \ {Main, Idle})

\* The state without what no step reads before writing it: the fields of a
\* free page, and locals outside the function they belong to.
Live ==
    LET used == {t \in Thread : status[t] # "FREE"}
        storing == {t \in Thread : pc[t] = "store_priority"}
        checking == {t \in Thread : pc[t] \in {"cp_queue", "cp_compare"}}
    IN <<schedVars, timerVars, pc, all_list, child, load_avg,
         [t \in used |-> <<priority[t], base_priority[t], nice[t], recent_cpu[t]>>],
         [t \in storing |-> new_priority[t]],
         [t \in checking |-> level[t]]>>

=============================================================================
