------------------------------ MODULE FileLock ------------------------------
(***************************************************************************)
(* The cross-process file lock of src/locks/index.ts.                      *)
(*                                                                         *)
(* An acquirer is one flow that takes, holds and gives up the lock: the    *)
(* fiber of one tryAcquireLock, acquireLock or withLock call.  Acquirers   *)
(* live in processes; the kernel interleaves the system calls of distinct  *)
(* processes, while the event loop of one process runs a synchronous block *)
(* of calls to its end before it turns to a sibling fiber.                 *)
(*                                                                         *)
(* The file system is one path: absent, or a file with the acquirer that   *)
(* created the inode (a history value no code reads), the metadata written *)
(* in it (Nobody while it is empty) and its age, mtime counted backwards.  *)
(* Time passes by Tick, in units coarse enough that ages stop mattering    *)
(* past AgeCap.                                                            *)
(***************************************************************************)
EXTENDS Naturals, FiniteSets

CONSTANTS
    Acquirers,     \* the flows that use the lock
    Pids,          \* the operating system processes they run in
    Pid,           \* Pid[a]: the process of acquirer a
    Host,          \* Host[p]: the machine process p runs on
    StaleMs,       \* StaleMs[a]: the staleMs option of a's acquire
    UnreadableMs,  \* UNREADABLE_STALE_MS: the bound for a file without a pid
    Patience,      \* Patience[a]: timeoutMs of a's wait, 0 for tryAcquireLock
    AgeCap,        \* bound: file ages saturate here
    MaxCrashes,    \* bound: how many process crashes a behaviour may have
    Nobody, NoFile \* "no metadata" and "no lock file"

ASSUME LockAssumption ==
    /\ Pid \in [Acquirers -> Pids]
    /\ StaleMs \in [Acquirers -> Nat]
    /\ Patience \in [Acquirers -> Nat]
    /\ UnreadableMs \in Nat /\ AgeCap \in Nat /\ MaxCrashes \in Nat
    /\ UnreadableMs < AgeCap /\ \A a \in Acquirers : StaleMs[a] < AgeCap
    /\ Nobody \notin Acquirers

Metas == Acquirers \cup {Nobody}
Files == [creator : Acquirers, meta : Metas, age : 0..AgeCap]

ASSUME NoFileAssumption == NoFile \notin Files

VARIABLES
    file,    \* the path: NoFile or a member of Files
    pc,      \* where each acquirer is
    fd,      \* fd[a]: a's open descriptor still refers to the file at the path
    limit,   \* limit[a]: the age bound isStale has picked, from the meta it read
    left,    \* left[a]: what remains of a's retry schedule
    up,      \* the running processes
    crashes  \* crashes so far

vars == <<file, pc, fd, limit, left, up, crashes>>

Attempting == {"create", "fill", "inspect", "stat", "reclaim", "recreate", "waiting"}
InCritical == {"held", "rewriting"}
Handles == InCritical \cup {"fill", "checked"}
PcValues == Attempting \cup InCritical \cup {"idle", "checked", "dead"}

(* The program counters inside one synchronous block: the second half of   *)
(* openSync/writeFileSync and of readFileSync/unlinkSync.                  *)
MidBlock == {"fill", "rewriting", "checked"}

TypeOK ==
    /\ file \in Files \cup {NoFile}
    /\ pc \in [Acquirers -> PcValues]
    /\ fd \in [Acquirers -> BOOLEAN]
    /\ \A a \in Acquirers : fd[a] => file # NoFile
    /\ limit \in [Acquirers -> 0..AgeCap]
    /\ left \in [Acquirers -> Nat]
    /\ up \in SUBSET Pids
    /\ crashes \in 0..MaxCrashes

Init ==
    /\ file = NoFile
    /\ pc = [a \in Acquirers |-> "idle"]
    /\ fd = [a \in Acquirers |-> FALSE]
    /\ limit = [a \in Acquirers |-> 0]
    /\ left = [a \in Acquirers |-> 0]
    /\ up = Pids
    /\ crashes = 0

-----------------------------------------------------------------------------
(* Helpers *)

(* The event loop of a's process is free to run a. *)
LoopFree(a) ==
    \A b \in Acquirers \ {a} : Pid[b] = Pid[a] => pc[b] \notin MidBlock

At(a, label) == pc[a] = label /\ LoopFree(a)

Goto(a, label) == pc' = [pc EXCEPT ![a] = label]

(* readLockMeta: an absent or an empty file reads as {}. *)
ReadLockMeta == IF file = NoFile THEN Nobody ELSE file.meta

(* Mutant: a file with our own pid is taken for a leftover of ours. *)
HolderDeadOrUs(a, m) ==
    m # Nobody /\ (Pid[m] = Pid[a] \/ Pid[m] \notin up)

(* pidIsAlive is asked only about a pid of the same host. *)
HolderDead(a, m) ==
    /\ m # Nobody
    /\ Host[Pid[m]] = Host[Pid[a]]
    /\ Pid[m] \notin up

(* Mutant: no bound for a file without a pid. *)
LimitForPid(a, m) == IF m = Nobody THEN AgeCap ELSE StaleMs[a]

LimitFor(a, m) == IF m = Nobody THEN UnreadableMs ELSE StaleMs[a]

(* openSync with O_CREAT, or the truncating open of an existing file. *)
EmptyFile(creator) == [creator |-> creator, meta |-> Nobody, age |-> 0]

(* Any write to the file f, or its truncation, sets its mtime. *)
Rewritten(f, m) == [creator |-> f.creator, meta |-> m, age |-> 0]

(* A write through a descriptor opened before: it lands in the file at the *)
(* path only while that is still the file the descriptor refers to.        *)
WriteThrough(a) ==
    file' = IF fd[a] THEN Rewritten(file, a) ELSE file

(* The path stops naming the inode every open descriptor refers to. *)
UnlinkPath ==
    /\ file' = NoFile
    /\ fd' = [a \in Acquirers |-> FALSE]

(* Mutant: the retry has no schedule. *)
ResolveNoneForever(a) == Goto(a, "waiting")

(* An attempt that resolved None: waitForLock retries while its schedule   *)
(* lasts, tryAcquireLock returns, an exhausted wait fails.                 *)
ResolveNone(a) == Goto(a, IF left[a] > 0 THEN "waiting" ELSE "idle")

-----------------------------------------------------------------------------
(* acquireOnce and the retry loop around it *)

(* A call of tryAcquireLock, acquireLock or withLock. *)
Begin(a) ==
    /\ At(a, "idle")
    /\ Goto(a, "create")
    /\ left' = [left EXCEPT ![a] = Patience[a]]
    /\ UNCHANGED <<file, fd, limit, up, crashes>>

(* Mutant: after a reclaim the file is taken for ours whoever created it. *)
OpenAfterReclaim(a) ==
    /\ \/ /\ At(a, "create") \/ At(a, "recreate")
          /\ file = NoFile
          /\ file' = EmptyFile(a)
          /\ fd' = [fd EXCEPT ![a] = TRUE]
          /\ Goto(a, "fill")
       \/ /\ file # NoFile
          /\ \/ At(a, "create") /\ Goto(a, "inspect")
             \/ At(a, "recreate") /\ Goto(a, "held")
          /\ UNCHANGED <<file, fd>>
    /\ UNCHANGED <<limit, left, up, crashes>>

(* createLock, first half: openSync(path, "wx"), which makes the inode or  *)
(* fails with EEXIST; the first attempt then looks for staleness, the      *)
(* second gives up.                                                        *)
Open(a) ==
    /\ \E label \in {"create", "recreate"} :
        /\ At(a, label)
        /\ \/ /\ file = NoFile
              /\ file' = EmptyFile(a)
              /\ fd' = [fd EXCEPT ![a] = TRUE]
              /\ Goto(a, "fill")
           \/ /\ file # NoFile
              /\ IF label = "create" THEN Goto(a, "inspect") ELSE ResolveNone(a)
              /\ UNCHANGED <<file, fd>>
    /\ UNCHANGED <<limit, left, up, crashes>>

(* createLock failing otherwise (no permission, no descriptors, a           *)
(* directory that cannot be made): a LockError, which is not waited out.    *)
OpenFails(a) ==
    /\ At(a, "create") \/ At(a, "recreate")
    /\ Goto(a, "idle")
    /\ UNCHANGED <<file, fd, limit, left, up, crashes>>

(* createLock, second half: writeFileSync(fd, meta) and closeSync. *)
Fill(a) ==
    /\ At(a, "fill")
    /\ WriteThrough(a)
    /\ fd' = [fd EXCEPT ![a] = FALSE]
    /\ Goto(a, "held")
    /\ UNCHANGED <<limit, left, up, crashes>>

(* The same with the write failing (a full disk): the descriptor is closed, *)
(* the caller gets a LockError, and the empty file stays.                   *)
FillFails(a) ==
    /\ At(a, "fill")
    /\ fd' = [fd EXCEPT ![a] = FALSE]
    /\ Goto(a, "idle")
    /\ UNCHANGED <<file, limit, left, up, crashes>>

(* Mutant: a file without metadata is as good as no lock. *)
InspectEmpty(a) ==
    /\ At(a, "inspect")
    /\ IF HolderDead(a, ReadLockMeta) \/ ReadLockMeta = Nobody
       THEN Goto(a, "reclaim") /\ UNCHANGED limit
       ELSE /\ Goto(a, "stat")
            /\ limit' = [limit EXCEPT ![a] = LimitFor(a, ReadLockMeta)]
    /\ UNCHANGED <<file, fd, left, up, crashes>>

(* isStale, first half: read the metadata, ask whether its pid runs. *)
Inspect(a) ==
    /\ At(a, "inspect")
    /\ IF HolderDead(a, ReadLockMeta)
       THEN Goto(a, "reclaim") /\ UNCHANGED limit
       ELSE /\ Goto(a, "stat")
            /\ limit' = [limit EXCEPT ![a] = LimitFor(a, ReadLockMeta)]
    /\ UNCHANGED <<file, fd, left, up, crashes>>

(* isStale, second half: the age of whatever file is at the path now. *)
Stat(a) ==
    /\ At(a, "stat")
    /\ IF file # NoFile /\ file.age > limit[a]
       THEN Goto(a, "reclaim")
       ELSE ResolveNone(a)
    /\ UNCHANGED <<file, fd, limit, left, up, crashes>>

(* removeLock: unlink whatever file is at the path now. *)
Reclaim(a) ==
    /\ At(a, "reclaim")
    /\ UnlinkPath
    /\ Goto(a, "recreate")
    /\ UNCHANGED <<limit, left, up, crashes>>

(* The poll interval of the lockContention schedule ends. *)
Retry(a) ==
    /\ At(a, "waiting")
    /\ Goto(a, "create")
    /\ UNCHANGED <<file, fd, limit, left, up, crashes>>

-----------------------------------------------------------------------------
(* The handle *)

(* LockHandle.phase, first half: writeFileSync(path) opens with O_TRUNC and *)
(* O_CREAT, whoever the file belongs to.                                    *)
Phase(a) ==
    /\ At(a, "held")
    /\ file' = IF file = NoFile THEN EmptyFile(a)
               ELSE Rewritten(file, Nobody)
    /\ fd' = [fd EXCEPT ![a] = TRUE]
    /\ Goto(a, "rewriting")
    /\ UNCHANGED <<limit, left, up, crashes>>

(* LockHandle.phase, second half: the write, which may fail. *)
PhaseWrites(a) ==
    /\ At(a, "rewriting")
    /\ WriteThrough(a) \/ UNCHANGED file
    /\ fd' = [fd EXCEPT ![a] = FALSE]
    /\ Goto(a, "held")
    /\ UNCHANGED <<limit, left, up, crashes>>

(* LockHandle.release, first half: read the file and compare its pid and    *)
(* startedAt, which together name one acquisition.                          *)
Release(a) ==
    /\ At(a, "held")
    /\ Goto(a, IF ReadLockMeta = a THEN "checked" ELSE "idle")
    /\ UNCHANGED <<file, fd, limit, left, up, crashes>>

(* LockHandle.release, second half: unlink whatever file is there now. *)
ReleaseUnlinks(a) ==
    /\ At(a, "checked")
    /\ UnlinkPath
    /\ Goto(a, "idle")
    /\ UNCHANGED <<limit, left, up, crashes>>

-----------------------------------------------------------------------------
(* The environment *)

(* Time passes: the file ages, the retry schedules run down. *)
Tick ==
    /\ file' = IF file = NoFile \/ file.age = AgeCap THEN file
               ELSE [file EXCEPT !.age = @ + 1]
    /\ left' = [a \in Acquirers |->
                  IF pc[a] \in Attempting /\ left[a] > 0 THEN left[a] - 1 ELSE left[a]]
    /\ UNCHANGED <<pc, fd, limit, up, crashes>>

(* A process dies with every flow in it; nothing it left is cleaned up. *)
Crash(p) ==
    /\ p \in up /\ crashes < MaxCrashes
    /\ crashes' = crashes + 1
    /\ up' = up \ {p}
    /\ pc' = [a \in Acquirers |-> IF Pid[a] = p THEN "dead" ELSE pc[a]]
    /\ fd' = [a \in Acquirers |-> fd[a] /\ Pid[a] # p]
    /\ UNCHANGED <<file, limit, left>>

(* A process of the same pid starts: a restarted container, or a pid reused. *)
Restart(p) ==
    /\ p \notin up
    /\ up' = up \cup {p}
    /\ pc' = [a \in Acquirers |-> IF Pid[a] = p THEN "idle" ELSE pc[a]]
    /\ UNCHANGED <<file, fd, limit, left, crashes>>

(* What the code does on its own once called, and what a caller decides. *)
Progress(a) ==
    \/ Open(a) \/ Fill(a) \/ Inspect(a) \/ Stat(a) \/ Reclaim(a) \/ Retry(a)
    \/ PhaseWrites(a) \/ Release(a) \/ ReleaseUnlinks(a)

Step(a) == Progress(a) \/ Begin(a) \/ OpenFails(a) \/ FillFails(a) \/ Phase(a)

Faults == \E p \in Pids : Crash(p) \/ Restart(p)

Next == (\E a \in Acquirers : Step(a)) \/ Tick \/ Faults

Spec == Init /\ [][Next]_vars

(* Time passes, every call runs on, every body ends so that its scope or    *)
(* withLock releases, and crashed processes are started again.  Whether a   *)
(* call fails or a phase is recorded is never forced.  Progress is strongly *)
(* fair because an event loop that is free again and again gets to every    *)
(* runnable fiber.                                                          *)
Fairness ==
    /\ WF_vars(Tick)
    /\ \A a \in Acquirers : SF_vars(Progress(a))
    /\ \A p \in Pids : WF_vars(Restart(p))

FairSpec == Spec /\ Fairness

(* Callers that never stop asking for the lock, on a disk that does not    *)
(* refuse every write.                                                     *)
EagerSpec ==
    FairSpec /\ \A a \in Acquirers : SF_vars(Begin(a)) /\ SF_vars(Fill(a))

-----------------------------------------------------------------------------
(* Properties *)

(* README.md: "locks serializes work across processes".  No two flows are   *)
(* between a successful acquire and their release at the same time.         *)
MutualExclusion ==
    \A a, b \in Acquirers : pc[a] \in InCritical /\ pc[b] \in InCritical => a = b

(* LockHandle.release: the ownership check passes only on the file this     *)
(* handle's own acquire created, so a lock that another holder reclaimed    *)
(* is never deleted.                                                        *)
ReleaseChecksOwnFile ==
    [][\A a \in Acquirers :
          pc[a] = "held" /\ pc'[a] = "checked" => file.creator = a]_vars

(* Every acquire ends: with the lock, with None, with an error, or with its *)
(* process.  The wait loop has no exit but its own schedule, because the    *)
(* acquire of a scoped resource is uninterruptible.                         *)
AcquireEnds ==
    \A a \in Acquirers : pc[a] \in Attempting ~> pc[a] \notin Attempting

(* No file left behind wedges the lock for good: not that of a crash        *)
(* (before or after its metadata was written, its pid reused or not), not   *)
(* that of a write that failed.  While callers keep asking, the lock is     *)
(* taken again and again.                                                   *)
LockRecovers == []<>(\E a \in Acquirers : pc[a] = "held")
=============================================================================
