---------------------------- MODULE MCScheduler ----------------------------
(* Small instances of Scheduler for TLC. *)
EXTENDS Scheduler, TLC

\* Tasks and workers are interchangeable where no property names one of them.
TaskAndWorkerSymmetry == Permutations(Tasks) \cup Permutations(Workers)
=============================================================================
