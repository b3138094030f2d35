---- MODULE MCProcStream ----
(* The instance of ProcStream: short texts on stdout, a silent stderr. *)
EXTENDS ProcStream

CONSTANTS stdout, stderr

Texting == [s \in Streams |-> IF s = stdout THEN 3 ELSE 0]
====
