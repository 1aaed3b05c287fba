------------------------ MODULE MCBackgroundExecutor ------------------------
(* One company, its sources updated by web threads.  The configurations    *)
(* choose how many sources, threads, submissions, workers and crashes.     *)
EXTENDS BackgroundExecutor, TLC

CONSTANTS olo, q1, q2, t1, t2

MCOwner == [s \in Sources |-> olo]
Symmetry == Permutations(Requests) \cup Permutations(Tasks)
=============================================================================
