---- MODULE MCFileLock ----
(* Instances of FileLock: two or three single-fiber processes on one      *)
(* host; a process with two fibers and one on another host.               *)
EXTENDS FileLockCalm

CONSTANTS a1, a2, a3, p1, p2, p3

PidTwo == [a \in {a1, a2} |-> IF a = a1 THEN p1 ELSE p2]
PidThree == [a \in {a1, a2, a3} |-> CASE a = a1 -> p1 [] a = a2 -> p2 [] OTHER -> p3]
PidShared == [a \in {a1, a2, a3} |-> IF a = a3 THEN p2 ELSE p1]
HostOne == [p \in Pids |-> "h1"]
HostEach == [p \in Pids |-> IF p = p1 THEN "h1" ELSE "h2"]
StaleTwo == [a \in Acquirers |-> 2]
StaleThree == [a \in Acquirers |-> IF a = a1 THEN 3 ELSE 2]
PatienceMixed == [a \in Acquirers |-> IF a = a1 THEN 0 ELSE 1]
====
