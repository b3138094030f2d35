---- MODULE MCProcRun ----
(* The instance of ProcRun: two calls that queue for one permit. *)
EXTENDS ProcRun

CONSTANTS c1, c2
====
