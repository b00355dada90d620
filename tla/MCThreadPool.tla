---------------------------- MODULE MCThreadPool ----------------------------
(***************************************************************************)
(* ThreadPool for TLC: model values, and the symmetry of the safety run.   *)
(* Each task is committed once, so the state space is finite.              *)
(***************************************************************************)
EXTENDS ThreadPool, TLC

Symmetry == Permutations(Worker) \cup Permutations(Producer) \cup Permutations(Task)
=============================================================================
