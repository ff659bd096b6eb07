---------------------------- MODULE MCTaskQueue ----------------------------
(***************************************************************************)
(* TaskQueue for TLC: two queues, so that a preemptive task can hold both, *)
(* three task identifiers (a task running, one behind it and a preemptive  *)
(* one), two peers as executors.                                           *)
(***************************************************************************)
EXTENDS TaskQueue, TLC

CONSTANTS n1, n2, k1, k2, t1, t2, t3

\* Peers, queues and task identifiers are interchangeable.
Symmetry == Permutations(Nodes) \cup Permutations(Queues) \cup Permutations(Tasks)

=============================================================================
