----------------------------- MODULE ProcStream -----------------------------
(***************************************************************************)
(* Streamed subprocess runs and handed-over children: runStreaming,        *)
(* drainLines and terminateSubprocess of src/proc/index.ts.                *)
(*                                                                         *)
(* One call and one child.  The child is the call's own, spawned by        *)
(* runStreaming as the leader of a process group and read line by line, or *)
(* a foreign one that some other code spawned, watched and handed to       *)
(* terminateSubprocess.  One descendant stands for all: it shares the      *)
(* pipes, and may leave the group.                                         *)
(*                                                                         *)
(* Text is a sequence of tokens: "c" is a character that is part of a      *)
(* line, "n" a newline.  A line is the number of its characters; decoding  *)
(* and sanitizeLine work inside a line and are left out.                   *)
(***************************************************************************)
EXTENDS Naturals, Sequences, FiniteSets

CONSTANTS
    Streams,    \* the output pipes: stdout, stderr
    MaxText     \* bound: the tokens the child writes to each pipe

VARIABLES
    kind,       \* whose child it is: "own" or "foreign"
    call,       \* where the call is
    outcome,    \* how it ended
    interrupted,\* its fiber has been interrupted
    leader,     \* "none", "up", "exited" with a code, "signalled" to death
    kid,        \* the descendant: "none", "group", or "escaped"
    exitSeen,   \* Node has dispatched the exit event
    heard,      \* the awaitExit under way has resumed
    timer,      \* the killAfterMs deadline: "off", "armed", "fired", "dead"
    drain,      \* each drainLines: "off", "reading", "ended", "failed", "stopped"
    written,    \* history: what the child wrote to each pipe
    unread,     \* what is in the pipe
    buffer,     \* the unfinished line of drainLines
    lines       \* the lines onLine was called with

vars == <<kind, call, outcome, interrupted, leader, kid, exitSeen, heard,
          timer, drain, written, unread, buffer, lines>>

callVars == <<call, outcome>>
childVars == <<leader, kid>>
eventVars == <<exitSeen, heard>>
readVars == <<unread, buffer, lines>>

Tokens == {"c", "n"}
Living == {"starting", "joining", "grace", "killed"}

TypeOK ==
    /\ kind \in {"own", "foreign"}
    /\ call \in Living \cup {"idle", "done"}
    /\ outcome \in {"none", "code", "spawnError", "readError", "interrupted", "terminated"}
    /\ interrupted \in BOOLEAN
    /\ leader \in {"none", "up", "exited", "signalled"}
    /\ kid \in {"none", "group", "escaped"}
    /\ exitSeen \in BOOLEAN
    /\ heard \in BOOLEAN
    /\ timer \in {"off", "armed", "fired", "dead"}
    /\ drain \in [Streams -> {"off", "reading", "ended", "failed", "stopped"}]
    /\ \A s \in Streams :
        /\ written[s] \in Seq(Tokens) /\ Len(written[s]) <= MaxText[s]
        /\ \E n \in 0..Len(written[s]) :
             unread[s] = SubSeq(written[s], n + 1, Len(written[s]))
        /\ buffer[s] \in 0..MaxText[s]
        /\ Len(lines[s]) <= MaxText[s]

Init ==
    /\ \/ kind = "own" /\ leader = "none"
       \/ kind = "foreign" /\ leader = "up"
    /\ call = "idle"
    /\ outcome = "none"
    /\ interrupted = FALSE
    /\ kid = "none"
    /\ exitSeen = FALSE
    /\ heard = FALSE
    /\ timer = "off"
    /\ drain = [s \in Streams |-> "off"]
    /\ written = [s \in Streams |-> <<>>]
    /\ unread = [s \in Streams |-> <<>>]
    /\ buffer = [s \in Streams |-> 0]
    /\ lines = [s \in Streams |-> <<>>]

-----------------------------------------------------------------------------
(* Helpers *)

Move(from, to) == call = from /\ call' = to

Dead == leader \in {"exited", "signalled"}
PipesHeld == leader = "up" \/ kid # "none"

(* ChildProcess.exitCode # null: Node sets it when it dispatches the exit   *)
(* of a child that returned a code, and never for one a signal killed.      *)
ExitCode == exitSeen /\ leader = "exited"

(* The leader's reaction to SIGTERM: it dies of it, handles it and exits,   *)
(* or is slow to, or ignores it.                                            *)
TermLeader ==
    \/ UNCHANGED leader
    \/ leader = "up" /\ leader' \in {"exited", "signalled"}

KillLeader == leader' = IF leader = "up" THEN "signalled" ELSE leader

(* killProcessGroup *)
TermGroup ==
    /\ TermLeader
    /\ kid' = kid \/ (kid = "group" /\ kid' = "none")

KillGroup ==
    /\ KillLeader
    /\ kid' = IF kid = "group" THEN "none" ELSE kid

(* Interrupting Effect.all and closing the scope: drains still under way    *)
(* drop their listeners and destroy their stream, the timer is interrupted. *)
StopFibers ==
    /\ drain' = [s \in Streams |-> IF drain[s] = "reading" THEN "stopped" ELSE drain[s]]
    /\ timer' = "off"

(* What onData does to the state of a drain with one token of a chunk, and  *)
(* with the whole chunk, fed[n] being the state after n tokens.             *)
Feed(acc, token) ==
    IF token = "n" THEN [lines |-> Append(acc.lines, acc.buffer), buffer |-> 0]
                   ELSE [acc EXCEPT !.buffer = @ + 1]

FeedAll(acc, chunk) ==
    LET fed[n \in 0..Len(chunk)] ==
            IF n = 0 THEN acc ELSE Feed(fed[n - 1], chunk[n])
    IN  fed[Len(chunk)]

-----------------------------------------------------------------------------
(* runStreaming *)

(* spawnStreaming calls spawn, which throws, or starts a child or will      *)
(* report an error.                                                         *)
Begin ==
    /\ kind = "own"
    /\ \/ Move("idle", "done") /\ outcome' = "spawnError" /\ UNCHANGED leader
       \/ /\ Move("idle", "starting")
          /\ leader' \in {"none", "up"}
          /\ UNCHANGED outcome
    /\ UNCHANGED <<kind, interrupted, kid, eventVars, timer, drain, written, readVars>>

(* The error event: the acquire fails, there is nothing to release. *)
SpawnErrors ==
    /\ leader = "none"
    /\ Move("starting", "done") /\ outcome' = "spawnError"
    /\ UNCHANGED <<kind, interrupted, childVars, eventVars, timer, drain, written, readVars>>

(* The spawn event: the timer is forked if there is a budget, the exit and  *)
(* both drains are joined.                                                  *)
Started ==
    /\ leader # "none" /\ ~interrupted
    /\ Move("starting", "joining")
    /\ timer' \in {"off", "armed"}
    /\ drain' = [s \in Streams |-> "reading"]
    /\ UNCHANGED <<kind, outcome, interrupted, childVars, eventVars, written, readVars>>

(* onData: a chunk, line by line, until a callback throws. *)
Data(s) ==
    /\ drain[s] = "reading"
    /\ \E k \in 1..Len(unread[s]) :
        LET seen == FeedAll([lines |-> lines[s], buffer |-> buffer[s]],
                            SubSeq(unread[s], 1, k))
        IN  \/ /\ lines' = [lines EXCEPT ![s] = seen.lines]
               /\ buffer' = [buffer EXCEPT ![s] = seen.buffer]
               /\ unread' = [unread EXCEPT ![s] = SubSeq(@, k + 1, Len(@))]
               /\ UNCHANGED drain
            \/ \E upTo \in Len(lines[s])..(Len(seen.lines) - 1) :
                /\ lines' = [lines EXCEPT ![s] = SubSeq(seen.lines, 1, upTo)]
                /\ drain' = [drain EXCEPT ![s] = "failed"]
                /\ UNCHANGED <<unread, buffer>>
    /\ UNCHANGED <<kind, callVars, interrupted, childVars, eventVars, timer, written>>

(* Mutant: the fragment after the last newline is dropped. *)
EndDropsTail(s) ==
    /\ drain[s] = "reading"
    /\ unread[s] = <<>> /\ ~PipesHeld
    /\ drain' = [drain EXCEPT ![s] = "ended"]
    /\ UNCHANGED <<kind, callVars, interrupted, childVars, eventVars, timer, written, readVars>>

(* Mutant: a fragment is reported and the drain does not settle. *)
EndUnsettled(s) ==
    /\ drain[s] = "reading"
    /\ unread[s] = <<>> /\ ~PipesHeld
    /\ IF buffer[s] = 0 THEN drain' = [drain EXCEPT ![s] = "ended"] /\ UNCHANGED lines
       ELSE lines' = [lines EXCEPT ![s] = Append(@, buffer[s])] /\ UNCHANGED drain
    /\ UNCHANGED <<kind, callVars, interrupted, childVars, eventVars, timer, written, unread, buffer>>

(* onEnd: nobody holds the pipe and it is read to its end.  A fragment is a *)
(* line of its own, whose callback may throw.                               *)
End(s) ==
    /\ drain[s] = "reading"
    /\ unread[s] = <<>> /\ ~PipesHeld
    /\ \/ /\ drain' = [drain EXCEPT ![s] = "ended"]
          /\ lines' = IF buffer[s] = 0 THEN lines
                      ELSE [lines EXCEPT ![s] = Append(@, buffer[s])]
       \/ buffer[s] # 0 /\ drain' = [drain EXCEPT ![s] = "failed"] /\ UNCHANGED lines
    /\ UNCHANGED <<kind, callVars, interrupted, childVars, eventVars, timer, written, unread, buffer>>

(* onError *)
ReadFails(s) ==
    /\ drain[s] = "reading"
    /\ drain' = [drain EXCEPT ![s] = "failed"]
    /\ UNCHANGED <<kind, callVars, interrupted, childVars, eventVars, timer, written, readVars>>

(* The deadline: one more line, then SIGKILL.  A callback that throws ends  *)
(* the timer's fiber before the kill.                                       *)
DeadlineFires ==
    /\ timer = "armed"
    /\ \/ timer' = "fired" /\ KillGroup
       \/ timer' = "dead" /\ UNCHANGED childVars
    /\ UNCHANGED <<kind, callVars, interrupted, eventVars, drain, written, readVars>>

(* The join completes: the exit and both drains. *)
Joined ==
    /\ exitSeen /\ ~interrupted
    /\ \A s \in Streams : drain[s] = "ended"
    /\ Move("joining", "done") /\ outcome' = "code"
    /\ StopFibers
    /\ UNCHANGED <<kind, interrupted, childVars, eventVars, written, readVars>>

(* Mutant: the release of a failed call leaves the drains and timer alone. *)
TerminateKeepsFibers ==
    /\ kind = "own" /\ leader # "none"
    /\ \/ interrupted /\ outcome' = "interrupted"
       \/ (\E s \in Streams : drain[s] = "failed") /\ outcome' = "readError"
    /\ Move("starting", "grace") \/ Move("joining", "grace")
    /\ TermGroup
    /\ UNCHANGED <<kind, interrupted, eventVars, timer, drain, written, readVars>>

(* terminateStreaming, from releaseStreaming with a failed exit: a drain    *)
(* failed, or the fiber was interrupted, perhaps while it was starting (the *)
(* acquire is uninterruptible).                                             *)
Terminate ==
    /\ kind = "own" /\ leader # "none"
    /\ \/ interrupted /\ outcome' = "interrupted"
       \/ (\E s \in Streams : drain[s] = "failed") /\ outcome' = "readError"
    /\ Move("starting", "grace") \/ Move("joining", "grace")
    /\ StopFibers
    /\ TermGroup
    /\ UNCHANGED <<kind, interrupted, eventVars, written, readVars>>

-----------------------------------------------------------------------------
(* terminateSubprocess and the end of both terminations *)

(* terminateSubprocess: nothing to do for a child with an exit code;        *)
(* otherwise SIGTERM, to the child alone, and wait for its exit event.      *)
TerminateSubprocess ==
    /\ kind = "foreign"
    /\ \/ ExitCode /\ Move("idle", "done") /\ UNCHANGED leader
       \/ ~ExitCode /\ Move("idle", "grace") /\ TermLeader
    /\ outcome' = "terminated"
    /\ UNCHANGED <<kind, interrupted, kid, eventVars, timer, drain, written, readVars>>

(* Mutant: the grace period ends the wait and nothing is killed. *)
GraceEndsMildly ==
    /\ ~heard
    /\ Move("grace", "killed")
    /\ UNCHANGED <<kind, outcome, interrupted, childVars, eventVars, timer, drain, written, readVars>>

(* The grace period ends first: SIGKILL. *)
GraceEnds ==
    /\ ~heard
    /\ Move("grace", "killed")
    /\ \/ kind = "own" /\ KillGroup
       \/ kind = "foreign" /\ KillLeader /\ UNCHANGED kid
    /\ UNCHANGED <<kind, outcome, interrupted, eventVars, timer, drain, written, readVars>>

(* The exit was awaited. *)
Terminated ==
    /\ heard
    /\ Move("grace", "done") \/ Move("killed", "done")
    /\ UNCHANGED <<kind, outcome, interrupted, childVars, eventVars, timer, drain, written, readVars>>

-----------------------------------------------------------------------------
(* The child, the kernel and the caller *)

(* Node dispatches the exit.  The exited Deferred of watchChild remembers   *)
(* it; an awaitExit hears it only if it is listening.                       *)
SeeExit ==
    /\ Dead /\ ~exitSeen
    /\ exitSeen' = TRUE
    /\ heard' = (kind = "own" \/ call \in {"grace", "killed"})
    /\ UNCHANGED <<kind, callVars, interrupted, childVars, timer, drain, written, readVars>>

ChildWrites ==
    /\ kind = "own" /\ PipesHeld /\ call \in {"starting", "joining"}
    /\ \E s \in Streams, token \in Tokens :
        /\ Len(written[s]) < MaxText[s]
        /\ written' = [written EXCEPT ![s] = Append(@, token)]
        /\ unread' = [unread EXCEPT ![s] = Append(@, token)]
    /\ UNCHANGED <<kind, callVars, interrupted, childVars, eventVars, timer, drain, buffer, lines>>

ChildExits ==
    /\ leader = "up" /\ call # "done"
    /\ leader' \in {"exited", "signalled"}
    /\ UNCHANGED <<kind, callVars, interrupted, kid, eventVars, timer, drain, written, readVars>>

KidActs ==
    /\ kind = "own" /\ call \in Living
    /\ \/ leader = "up" /\ kid = "none" /\ kid' = "group"
       \/ kid = "group" /\ kid' = "escaped"
       \/ kid # "none" /\ kid' = "none"
    /\ UNCHANGED <<kind, callVars, interrupted, leader, eventVars, timer, drain, written, readVars>>

Interrupt ==
    /\ kind = "own" /\ call \in Living /\ ~interrupted
    /\ interrupted' = TRUE
    /\ UNCHANGED <<kind, callVars, childVars, eventVars, timer, drain, written, readVars>>

-----------------------------------------------------------------------------
CallSteps ==
    \/ SpawnErrors \/ Started \/ Joined \/ Terminate \/ GraceEnds \/ Terminated

World == ChildWrites \/ ChildExits \/ KidActs
         \/ \E s \in Streams : ReadFails(s)

(* The call is over, or waits for an event that Node dispatches only once. *)
Over ==
    /\ call = "done" \/ (call = "killed" /\ exitSeen /\ ~heard)
    /\ UNCHANGED vars

Uninterrupted ==
    \/ Begin \/ TerminateSubprocess \/ CallSteps \/ DeadlineFires \/ SeeExit
    \/ \E s \in Streams : Data(s) \/ End(s)
    \/ World

Next == Uninterrupted \/ Interrupt \/ Over

Spec == Init /\ [][Next]_vars

(* Fibers run on, timers fire, Node reports what happened and delivers what *)
(* was written.  No child is assumed to exit, no caller to interrupt.       *)
Fairness ==
    /\ WF_vars(CallSteps) /\ WF_vars(DeadlineFires) /\ WF_vars(SeeExit)
    /\ \A s \in Streams : WF_vars(Data(s)) /\ WF_vars(End(s))

FairSpec == Spec /\ Fairness

-----------------------------------------------------------------------------
(* Properties *)

(* The lines of a text, as the numbers of their characters: those between   *)
(* its newlines, and those after the last one if there are any.             *)
Breaks(text) == {i \in DOMAIN text : text[i] = "n"}
BreaksBefore(text, i) == {j \in Breaks(text) : j < i}

Line(text, n) ==
    Cardinality({i \in DOMAIN text \ Breaks(text) :
                    Cardinality(BreaksBefore(text, i)) = n - 1})

LinesOf(text) ==
    LET whole == Cardinality(Breaks(text))
    IN  [n \in 1..(IF Line(text, whole + 1) = 0 THEN whole ELSE whole + 1) |-> Line(text, n)]

(* RunStreamingOptions.onLine: "Called once per sanitized line of stdout    *)
(* and stderr".  However the text is cut into chunks and whoever else holds *)
(* the pipe, a call that returns an exit code has reported every line once, *)
(* in order, and has joined the child.                                      *)
ExitCodeIsComplete ==
    outcome = "code" =>
        /\ Dead /\ kid = "none"
        /\ \A s \in Streams : lines[s] = LinesOf(written[s])

(* A failed or interrupted call, and a terminated handover, is over only    *)
(* when the child is dead and Node has reported it.                         *)
EndsJoined == call = "done" /\ leader # "none" => Dead /\ exitSeen

(* onLine is called only while the call joins: never once it terminates its *)
(* child or has returned.                                                   *)
NoLateLine == [][lines' # lines => call = "joining"]_vars

(* An interruption or a failed drain ends the call, and terminateSubprocess *)
(* ends for a child whose exit Node had not dispatched before it was        *)
(* called, although the child ignores SIGTERM and whatever its descendants  *)
(* do.                                                                      *)
Cancelled ==
    \/ call \in Living /\ (interrupted \/ \E s \in Streams : drain[s] = "failed")
    \/ kind = "foreign" /\ call = "grace" /\ ~exitSeen

CancelledStreamEnds == Cancelled ~> call = "done"

(* A deadline that fired ends the call, unless a descendant left the group  *)
(* with the pipes.                                                          *)
FiredDeadlineEnds == timer = "fired" ~> call = "done" \/ kid = "escaped"

(* awaitExit: "Completes when the process has exited, immediately if it     *)
(* already has".  terminateSubprocess ends.                                 *)
TerminationEnds == kind = "foreign" /\ call = "grace" ~> call = "done"
=============================================================================
