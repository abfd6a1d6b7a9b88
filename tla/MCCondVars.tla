----------------------------- MODULE MCCondVars -----------------------------
(* CondVars with a small set of threads for TLC.                           *)
EXTENDS CondVars

\* One lock for all condition variables.
OneMutex == [c \in Cond |-> CHOOSE l \in Lock : TRUE]

\* Threads are interchangeable.
Workers == Permutations(Thread)

=============================================================================
