---- MODULE MCScheduler ----
(* An instance of Scheduler: two callers, two tasks, two starts. *)
EXTENDS Scheduler

CONSTANTS c1, c2
====
