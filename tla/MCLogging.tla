---- MODULE MCLogging ----
(* The instance of Logging: two emissions, their hooks, and one flush. *)
EXTENDS Logging

CONSTANT f1
====
