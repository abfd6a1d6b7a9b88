------------------------------ MODULE MCLocks ------------------------------
(* Locks with a small set of threads and locks for TLC.                    *)
EXTENDS Locks

\* Threads are interchangeable.
Workers == Permutations(Thread)

=============================================================================
