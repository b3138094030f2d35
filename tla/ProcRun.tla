------------------------------- MODULE ProcRun -------------------------------
(***************************************************************************)
(* Captured subprocess runs: run, capturedRun and terminateCaptured of     *)
(* src/proc/index.ts, with the permits of ProcConcurrency.                 *)
(*                                                                         *)
(* A call is one fiber in run.  While its child lives, up to two fibers of *)
(* the call's scope stand beside it: the watcher of an external            *)
(* AbortSignal and the timer of timeoutMs.  The child is a process group:  *)
(* a leader and one descendant standing for all, either of which may hold  *)
(* the captured pipes open; a descendant may leave the group.              *)
(* The kernel reports the leader's exit and the end of the pipes to the    *)
(* call as events of their own.                                            *)
(*                                                                         *)
(* Semaphore, raceFirst and the scope are Effect's: a queued take that is  *)
(* cancelled takes nothing, one that succeeds is always released.          *)
(***************************************************************************)
EXTENDS Naturals, FiniteSets

CONSTANTS
    Calls,      \* the calls of run, one each
    Permits     \* the permits of ProcConcurrency

ASSUME RunAssumption ==
    /\ IsFiniteSet(Calls)
    /\ Permits \in Nat \ {0}

VARIABLES
    free,       \* permits not taken
    call,       \* where each call is
    outcome,    \* how each call ended
    aborted,    \* whether its AbortSignal has aborted
    interrupted,\* whether its fiber has been interrupted
    leader,     \* the direct child: "none", "up", or "gone"
    kid,        \* the descendant: "none", "group", or "escaped"
    exitSeen,   \* the exit event has been handled
    undrained,  \* how many of its two captures have not settled
    failed,     \* a capture has settled with an error
    watcher,    \* the abort watcher: "off", "armed", "grace", "killed"
    timer,      \* the budget: "off", "armed", "set", "fired"
    timedOut,   \* the timedOut Ref
    slain       \* history: the budget's SIGKILL hit a live group member

vars == <<free, call, outcome, aborted, interrupted, leader, kid, exitSeen,
          undrained, failed, watcher, timer, timedOut, slain>>

callVars == <<call, outcome, free>>
childVars == <<leader, kid>>
eventVars == <<exitSeen, undrained, failed>>
fiberVars == <<watcher, timer, timedOut, slain>>
requestVars == <<aborted, interrupted>>

Running == {"starting", "joining", "grace", "killed"}
HasPermit == Running \cup {"entered", "returning"}
CallStates == HasPermit \cup {"idle", "queued", "done"}
Outcomes == {"none", "result", "aborted", "interrupted", "spawnError", "readError"}

TypeOK ==
    /\ free \in 0..Permits
    /\ call \in [Calls -> CallStates]
    /\ outcome \in [Calls -> Outcomes]
    /\ aborted \in [Calls -> BOOLEAN]
    /\ interrupted \in [Calls -> BOOLEAN]
    /\ leader \in [Calls -> {"none", "up", "gone"}]
    /\ kid \in [Calls -> {"none", "group", "escaped"}]
    /\ exitSeen \in [Calls -> BOOLEAN]
    /\ undrained \in [Calls -> 0..2]
    /\ failed \in [Calls -> BOOLEAN]
    /\ watcher \in [Calls -> {"off", "armed", "grace", "killed"}]
    /\ timer \in [Calls -> {"off", "armed", "set", "fired"}]
    /\ timedOut \in [Calls -> BOOLEAN]
    /\ slain \in [Calls -> BOOLEAN]

Init ==
    /\ free = Permits
    /\ call = [c \in Calls |-> "idle"]
    /\ outcome = [c \in Calls |-> "none"]
    /\ aborted = [c \in Calls |-> FALSE]
    /\ interrupted = [c \in Calls |-> FALSE]
    /\ leader = [c \in Calls |-> "none"]
    /\ kid = [c \in Calls |-> "none"]
    /\ exitSeen = [c \in Calls |-> FALSE]
    /\ undrained = [c \in Calls |-> 2]
    /\ failed = [c \in Calls |-> FALSE]
    /\ watcher = [c \in Calls |-> "off"]
    /\ timer = [c \in Calls |-> "off"]
    /\ timedOut = [c \in Calls |-> FALSE]
    /\ slain = [c \in Calls |-> FALSE]

-----------------------------------------------------------------------------
(* Helpers *)

Move(c, from, to) == call[c] = from /\ call' = [call EXCEPT ![c] = to]

End(c, how) == outcome' = [outcome EXCEPT ![c] = how]

(* Mutant: one capture of the two is joined. *)
SettledOnOne(c) == exitSeen[c] /\ undrained[c] < 2

(* The exit and both captures have settled: joins may complete. *)
Settled(c) == exitSeen[c] /\ undrained[c] = 0

PipesHeld(c) == leader[c] = "up" \/ kid[c] # "none"

GroupAlive(c) == leader[c] = "up" \/ kid[c] = "group"

(* killProcessGroup(SIGTERM): each member of the group dies of it, or       *)
(* handles it, or is slow to.                                               *)
SigTerm(c) ==
    /\ \/ UNCHANGED leader
       \/ leader[c] = "up" /\ leader' = [leader EXCEPT ![c] = "gone"]
    /\ \/ UNCHANGED kid
       \/ kid[c] = "group" /\ kid' = [kid EXCEPT ![c] = "none"]

(* killProcessGroup(SIGKILL): every member of the group dies. *)
SigKill(c) ==
    /\ leader' = IF leader[c] = "up" THEN [leader EXCEPT ![c] = "gone"] ELSE leader
    /\ kid' = IF kid[c] = "group" THEN [kid EXCEPT ![c] = "none"] ELSE kid

(* The scope closes: its forked fibers are interrupted. *)
StopFibers(c) ==
    /\ watcher' = [watcher EXCEPT ![c] = "off"]
    /\ timer' = [timer EXCEPT ![c] = "off"]
    /\ UNCHANGED <<timedOut, slain>>

(* What runOk makes of a call that is over.  Exit codes are not modelled:   *)
(* what is an answer here may still be a ProcNonZeroExitError.              *)
RunOk(c) ==
    IF outcome[c] # "result" THEN outcome[c]
    ELSE IF timedOut[c] THEN "timeout" ELSE "answer"

-----------------------------------------------------------------------------
(* The call's own fiber *)

Begin(c) ==
    /\ Move(c, "idle", "queued")
    /\ UNCHANGED <<free, outcome, childVars, eventVars, fiberVars, requestVars>>

(* raceFirst(take, externalInterruption), with the take winning. *)
Take(c) ==
    /\ free > 0
    /\ Move(c, "queued", "entered")
    /\ free' = free - 1
    /\ UNCHANGED <<outcome, childVars, eventVars, fiberVars, requestVars>>

(* The wait for a permit is cancelled, by the signal or with the fiber. *)
LeaveQueue(c) ==
    /\ Move(c, "queued", "done")
    /\ \/ aborted[c] /\ End(c, "aborted")
       \/ interrupted[c] /\ End(c, "interrupted")
    /\ UNCHANGED <<free, childVars, eventVars, fiberVars, requestVars>>

(* Mutant: the permit is not given back when nothing was spawned. *)
NoSpawnKeeps(c) ==
    /\ Move(c, "entered", "done")
    /\ \/ interrupted[c] /\ End(c, "interrupted")
       \/ aborted[c] /\ End(c, "aborted")
       \/ ~aborted[c] /\ End(c, "spawnError")
    /\ UNCHANGED <<free, childVars, eventVars, fiberVars, requestVars>>

(* capturedRun before the child exists: an interruption, a signal that has  *)
(* already aborted, or a spawn that fails at once.                          *)
NoSpawn(c) ==
    /\ Move(c, "entered", "returning")
    /\ \/ interrupted[c] /\ End(c, "interrupted")
       \/ aborted[c] /\ End(c, "aborted")
       \/ ~aborted[c] /\ End(c, "spawnError")
    /\ UNCHANGED <<free, childVars, eventVars, fiberVars, requestVars>>

(* spawnCaptured calls spawn. *)
Spawn(c) ==
    /\ ~aborted[c]
    /\ Move(c, "entered", "starting")
    /\ \/ leader' = [leader EXCEPT ![c] = "up"]
       \/ UNCHANGED leader
    /\ UNCHANGED <<free, outcome, kid, eventVars, fiberVars, requestVars>>

(* The error event instead of the spawn event: the acquire fails, nothing   *)
(* is released.                                                             *)
SpawnErrors(c) ==
    /\ leader[c] = "none"
    /\ Move(c, "starting", "returning")
    /\ End(c, "spawnError")
    /\ UNCHANGED <<free, childVars, eventVars, fiberVars, requestVars>>

(* Mutant: the watcher listens for the event and misses an earlier abort. *)
StartedDeaf(c) ==
    /\ leader[c] # "none" /\ ~interrupted[c]
    /\ Move(c, "starting", "joining")
    /\ watcher' = [watcher EXCEPT ![c] = IF aborted[c] THEN "off" ELSE "armed"]
    /\ \E t \in {"off", "armed"} : timer' = [timer EXCEPT ![c] = t]
    /\ UNCHANGED <<free, outcome, childVars, eventVars, timedOut, slain, requestVars>>

(* The spawn event: the scope holds releaseCaptured from here on, the       *)
(* watcher and, if the call has a budget, the timer are forked.             *)
Started(c) ==
    /\ leader[c] # "none" /\ ~interrupted[c]
    /\ Move(c, "starting", "joining")
    /\ watcher' = [watcher EXCEPT ![c] = "armed"]
    /\ \E t \in {"off", "armed"} : timer' = [timer EXCEPT ![c] = t]
    /\ UNCHANGED <<free, outcome, childVars, eventVars, timedOut, slain, requestVars>>

(* terminateCaptured on behalf of the call: of joinCaptured's onInterrupt,  *)
(* or of releaseCaptured when the call was interrupted while it was         *)
(* starting (the acquire is uninterruptible) or could not write its input.  *)
Terminate(c) ==
    /\ \/ /\ Move(c, "joining", "grace")
          /\ interrupted[c] /\ End(c, "interrupted")
          /\ UNCHANGED <<watcher, timer>>
       \/ /\ leader[c] # "none"
          /\ Move(c, "starting", "grace")
          /\ \/ interrupted[c] /\ End(c, "interrupted")
             \/ End(c, "readError")
          /\ UNCHANGED <<watcher, timer>>
    /\ SigTerm(c)
    /\ UNCHANGED <<free, eventVars, timedOut, slain, requestVars>>

(* The grace period ends before the join does. *)
GraceEnds(c) ==
    /\ ~Settled(c)
    /\ Move(c, "grace", "killed")
    /\ SigKill(c)
    /\ UNCHANGED <<free, outcome, eventVars, fiberVars, requestVars>>

(* The join inside terminateCaptured completes; the scope closes. *)
Terminated(c) ==
    /\ Settled(c)
    /\ Move(c, "grace", "returning") \/ Move(c, "killed", "returning")
    /\ StopFibers(c)
    /\ UNCHANGED <<free, outcome, childVars, eventVars, requestVars>>

(* joinCaptured resumes: the captures and the timedOut Ref become the       *)
(* result, or a failed capture the error, which makes releaseCaptured       *)
(* signal the group once more; the scope closes.                            *)
Joined(c) ==
    /\ Settled(c) /\ ~interrupted[c]
    /\ Move(c, "joining", "returning")
    /\ \/ ~failed[c] /\ End(c, "result") /\ UNCHANGED childVars
       \/ failed[c] /\ End(c, "readError") /\ SigTerm(c)
    /\ StopFibers(c)
    /\ UNCHANGED <<free, eventVars, requestVars>>

(* ensuring(..., semaphore.release(permits)).  From here on nobody looks at *)
(* the captures or at a descendant that is left: the model forgets them.    *)
Return(c) ==
    /\ Move(c, "returning", "done")
    /\ free' = free + 1
    /\ kid' = [kid EXCEPT ![c] = "none"]
    /\ failed' = [failed EXCEPT ![c] = FALSE]
    /\ UNCHANGED <<outcome, leader, exitSeen, undrained, fiberVars, requestVars>>

-----------------------------------------------------------------------------
(* The fibers beside it *)

(* The watcher sees the abort, which may have come before it listened, and  *)
(* terminates the child.                                                    *)
AbortTerminates(c) ==
    /\ watcher[c] = "armed" /\ aborted[c]
    /\ watcher' = [watcher EXCEPT ![c] = "grace"]
    /\ SigTerm(c)
    /\ UNCHANGED <<callVars, eventVars, timer, timedOut, slain, requestVars>>

AbortGraceEnds(c) ==
    /\ watcher[c] = "grace" /\ ~Settled(c)
    /\ watcher' = [watcher EXCEPT ![c] = "killed"]
    /\ SigKill(c)
    /\ UNCHANGED <<callVars, eventVars, timer, timedOut, slain, requestVars>>

(* Mutant: the budget kills without setting the Ref. *)
BudgetExpiresUnmarked(c) ==
    /\ timer[c] = "armed"
    /\ timer' = [timer EXCEPT ![c] = "set"]
    /\ UNCHANGED <<callVars, childVars, eventVars, watcher, timedOut, slain, requestVars>>

(* The budget runs out: first the Ref, then the signal. *)
BudgetExpires(c) ==
    /\ timer[c] = "armed"
    /\ timer' = [timer EXCEPT ![c] = "set"]
    /\ timedOut' = [timedOut EXCEPT ![c] = TRUE]
    /\ UNCHANGED <<callVars, childVars, eventVars, watcher, slain, requestVars>>

BudgetKills(c) ==
    /\ timer[c] = "set"
    /\ timer' = [timer EXCEPT ![c] = "fired"]
    /\ SigKill(c)
    /\ slain' = [slain EXCEPT ![c] = @ \/ GroupAlive(c)]
    /\ UNCHANGED <<callVars, eventVars, watcher, timedOut, requestVars>>

-----------------------------------------------------------------------------
(* Events of the child, and what callers ask for *)

(* The exit event: doneUnsafe(exited). *)
SeeExit(c) ==
    /\ leader[c] = "gone" /\ ~exitSeen[c]
    /\ exitSeen' = [exitSeen EXCEPT ![c] = TRUE]
    /\ UNCHANGED <<callVars, childVars, undrained, failed, fiberVars, requestVars>>

(* The end event of a pipe, once nobody holds it. *)
SeeEnd(c) ==
    /\ leader[c] # "none" /\ ~PipesHeld(c) /\ undrained[c] > 0
    /\ undrained' = [undrained EXCEPT ![c] = @ - 1]
    /\ UNCHANGED <<callVars, childVars, exitSeen, failed, fiberVars, requestVars>>

(* The child closes a pipe and lives on. *)
ClosesPipe(c) ==
    /\ leader[c] = "up" /\ kid[c] = "none" /\ undrained[c] > 0
    /\ undrained' = [undrained EXCEPT ![c] = @ - 1]
    /\ UNCHANGED <<callVars, childVars, exitSeen, failed, fiberVars, requestVars>>

(* The error event of a pipe: its own capture is over, the group gets       *)
(* SIGTERM; the other pipe and the exit are still to come.                  *)
SeeReadError(c) ==
    /\ leader[c] # "none" /\ undrained[c] > 0
    /\ undrained' = [undrained EXCEPT ![c] = @ - 1]
    /\ failed' = [failed EXCEPT ![c] = TRUE]
    /\ SigTerm(c)
    /\ UNCHANGED <<callVars, exitSeen, fiberVars, requestVars>>

ChildExits(c) ==
    /\ leader[c] = "up"
    /\ leader' = [leader EXCEPT ![c] = "gone"]
    /\ UNCHANGED <<callVars, kid, eventVars, fiberVars, requestVars>>

KidActs(c) ==
    /\ call[c] \in Running
    /\ \/ leader[c] = "up" /\ kid[c] = "none" /\ kid' = [kid EXCEPT ![c] = "group"]
       \/ kid[c] = "group" /\ kid' = [kid EXCEPT ![c] = "escaped"]
       \/ kid[c] # "none" /\ kid' = [kid EXCEPT ![c] = "none"]
    /\ UNCHANGED <<callVars, leader, eventVars, fiberVars, requestVars>>

Abort(c) ==
    /\ ~aborted[c] /\ call[c] \notin {"idle", "done"}
    /\ aborted' = [aborted EXCEPT ![c] = TRUE]
    /\ UNCHANGED <<callVars, childVars, eventVars, fiberVars, interrupted>>

Interrupt(c) ==
    /\ ~interrupted[c] /\ call[c] \notin {"idle", "done", "returning"}
    /\ interrupted' = [interrupted EXCEPT ![c] = TRUE]
    /\ UNCHANGED <<callVars, childVars, eventVars, fiberVars, aborted>>

-----------------------------------------------------------------------------
CallSteps(c) ==
    \/ Take(c) \/ LeaveQueue(c) \/ NoSpawn(c) \/ Spawn(c) \/ SpawnErrors(c) \/ Started(c)
    \/ Terminate(c) \/ GraceEnds(c) \/ Terminated(c) \/ Joined(c) \/ Return(c)

WatcherSteps(c) == AbortTerminates(c) \/ AbortGraceEnds(c)

TimerSteps(c) == BudgetExpires(c) \/ BudgetKills(c)

Events(c) == SeeExit(c) \/ SeeEnd(c)

World(c) == ClosesPipe(c) \/ SeeReadError(c) \/ ChildExits(c) \/ KidActs(c) \/ Abort(c) \/ Interrupt(c)

(* All calls are over: the program may stop. *)
AllDone == (\A c \in Calls : call[c] = "done") /\ UNCHANGED vars

Next ==
    \/ \E c \in Calls : Begin(c) \/ CallSteps(c) \/ WatcherSteps(c) \/ TimerSteps(c)
                        \/ Events(c) \/ World(c)
    \/ AllDone

Spec == Init /\ [][Next]_vars

(* Every fiber runs on, timers fire, the kernel reports what happened.  A   *)
(* child is never assumed to exit, nor a caller to cancel.  Effect's        *)
(* semaphore serves its waiters in order, hence the strong fairness.        *)
Fairness ==
    \A c \in Calls : /\ SF_vars(CallSteps(c)) /\ WF_vars(WatcherSteps(c))
                     /\ WF_vars(TimerSteps(c)) /\ WF_vars(Events(c))

FairSpec == Spec /\ Fairness

-----------------------------------------------------------------------------
(* Properties *)

(* proc/index.ts: "a released permit really means a free slot".  No permit  *)
(* is lost or made up, whatever is cancelled when, and a child lives only   *)
(* under a permit of its call, so at most Permits are alive.                *)
PermitsAreSlots ==
    /\ free + Cardinality({c \in Calls : call[c] \in HasPermit}) = Permits
    /\ \A c \in Calls : leader[c] = "up" => call[c] \in HasPermit

(* A call that ran a child is over only when the child is gone, its exit    *)
(* has been seen, and the capture of each pipe has ended or failed: an      *)
(* error of one pipe does not end the wait for the other, so no output      *)
(* arrives late, whoever cancelled the call.                                *)
EndsJoined ==
    \A c \in Calls :
        call[c] \in {"returning", "done"} /\ leader[c] # "none" =>
            leader[c] = "gone" /\ exitSeen[c] /\ undrained[c] = 0

(* timedOut is a discriminator: output cut short by the budget's SIGKILL,   *)
(* of the leader or of a descendant that outlived it, never passes runOk as *)
(* an answer.                                                               *)
CutOutputIsMarked == \A c \in Calls : RunOk(c) = "answer" => ~slain[c]

(* A call that is interrupted, aborted or out of budget ends, however its   *)
(* child treats SIGTERM, unless a descendant left the group with the pipes. *)
CancelledCallEnds ==
    \A c \in Calls :
        call[c] # "idle" /\ (interrupted[c] \/ aborted[c] \/ timedOut[c])
            ~> call[c] = "done" \/ kid[c] = "escaped"
=============================================================================
