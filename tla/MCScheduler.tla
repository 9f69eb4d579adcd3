---------------------------- MODULE MCScheduler ----------------------------
(* Instances of Scheduler for TLC. *)
EXTENDS Scheduler, TLC

\* Requests of one kind, lease ids and functions are interchangeable.
Symmetry == Permutations(Invokers) \cup Permutations(Workers)
              \cup Permutations(LeaseIds)
=============================================================================
