---------------------------- MODULE FileLockCalm ----------------------------
(***************************************************************************)
(* FileLock in the environment its staleness rules are made for, and what  *)
(* that environment still has to add for the lock to be a lock.            *)
(*                                                                         *)
(* Prompt: a live holder refreshes its file (by phase, or by being done)   *)
(* before any contender's bound, and no process is suspended for a unit of *)
(* time between reading a file it suspects and unlinking it.  Crashes, pid *)
(* reuse, failed writes and every interleaving remain.                     *)
(*                                                                         *)
(* Calm: also, contenders judge a suspect file one at a time.  Nothing in  *)
(* the code ensures this; it is what separates Prompt from exclusion.      *)
(***************************************************************************)
EXTENDS FileLock

Judging == {"inspect", "stat", "reclaim"}

(* No contender's bound has passed for the file of a live handle. *)
Timely ==
    file # NoFile /\ pc[file.creator] \in Handles =>
        \A b \in Acquirers : file.age <= LimitFor(b, file.meta)

PromptTick ==
    /\ \A a \in Acquirers : pc[a] \notin Judging
    /\ Tick
    /\ Timely'

PromptNext == (\E a \in Acquirers : Step(a)) \/ PromptTick \/ Faults

PromptSpec == Init /\ [][PromptNext]_vars

(* At most one contender is between reading a file and unlinking it. *)
SerialReclaim ==
    \A a, b \in Acquirers : pc[a] \in Judging /\ pc[b] \in Judging => a = b

CalmNext == PromptNext /\ SerialReclaim'

CalmSpec == Init /\ [][CalmNext]_vars

-----------------------------------------------------------------------------
(* Every handle, from the creation of its file to the unlink of its         *)
(* release, has its own file at the path, and only its own metadata in it.  *)
HandleOwnsFile ==
    \A a \in Acquirers :
        pc[a] \in Handles => /\ file # NoFile
                             /\ file.creator = a
                             /\ file.meta \in {a, Nobody}

(* A contender that has judged a file stale finds a file without a live     *)
(* handle to unlink; one still to compare ages will not find a live one too *)
(* old.                                                                     *)
VerdictsAreSound ==
    \A b \in Acquirers :
        /\ pc[b] = "reclaim" => file # NoFile /\ pc[file.creator] \notin Handles
        /\ pc[b] = "stat" /\ file # NoFile /\ pc[file.creator] \in Handles =>
               file.age <= limit[b]

(* The flows of a crashed process are gone. *)
CrashedStop == \A a \in Acquirers : Pid[a] \notin up => pc[a] = "dead"

CalmInv ==
    HandleOwnsFile /\ VerdictsAreSound /\ Timely /\ SerialReclaim /\ CrashedStop

(* A file leaves the path by its own holder's release, or once its creator  *)
(* no longer has a handle on it (it crashed, or its write failed).          *)
OnlyOwnOrAbandonedRemoved ==
    [][file # NoFile /\ file' = NoFile =>
          \/ pc[file.creator] = "checked" /\ pc'[file.creator] = "idle"
          \/ pc[file.creator] \notin Handles]_vars

(* In a calm environment the lock file is a mutex. *)
Lock == INSTANCE Mutex WITH holders <- {a \in Acquirers : pc[a] \in InCritical}

ImplementsMutex == Lock!Spec
=============================================================================
