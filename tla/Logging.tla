------------------------------- MODULE Logging -------------------------------
(***************************************************************************)
(* The Logger service and its daily file: makeService of                   *)
(* src/logging/Logger.ts with an onLog tap, an onError hook and one sink,  *)
(* dailyFileSink of src/logging/sinks.ts.                                  *)
(*                                                                         *)
(* An emission is one call of emit, in the fiber of its caller, or of      *)
(* emitUnsafe, in a fiber of the service's FiberSet.  An error starts a    *)
(* hook, another fiber of that set, which logs a line of its own.  Lines   *)
(* go through the sink's queue to the one writer fiber.  Callers flush,    *)
(* and the layer's scope closes, at any time.                              *)
(***************************************************************************)
EXTENDS Naturals, Sequences, SequencesExt

CONSTANTS
    Emissions,  \* the calls of emit and emitUnsafe, numbered as they come
    Flushers,   \* the callers of Logger.flush
    Scope       \* the scope of the layer, whose closing flushes the sink

ASSUME LoggingAssumption ==
    /\ Emissions \subseteq Nat
    /\ Scope \notin Flushers
    /\ (Flushers \cup {Scope}) \cap (Emissions \X {"own", "hook"}) = {}

Lines == Emissions \X {"own", "hook"}
Own(e) == <<e, "own">>
Hook(e) == <<e, "hook">>
Waiters == Flushers \cup {Scope}

VARIABLES
    how,        \* how each emission came: "emit" or "unsafe"
    level,      \* its level: "quiet" is below the threshold
    pc,         \* where the fiber that logs each line is
    hookRuns,   \* how many hooks each emission started
    queue,      \* the sink's queue: lines, and the flushes of Waiters
    offered,    \* history: the lines in the order they were queued
    initialized,\* the sink has made its directory, or tried to
    writer,     \* the writer: "idle", "init", "append", or "dead"
    current,    \* the lines it has taken and not yet settled
    flying,     \* the appendFile calls in flight
    file,       \* the lines in the file
    failed,     \* the lines whose append failed, which the console is told
    flush,      \* each flush: "idle", "hooks", "sink", "done"
    due,        \* history: the lines each flush is to wait for
    closing     \* the scope: "open", "flushing", "stopped", "closed"

vars == <<how, level, pc, hookRuns, queue, offered, initialized, writer, current,
          flying, file, failed, flush, due, closing>>

emitVars == <<how, level, pc, hookRuns>>
writerVars == <<initialized, writer, current, flying, file, failed>>
flushVars == <<flush, due, closing>>

LinePC == {"idle", "tap", "sink", "hook", "done", "lost", "console"}
Live == {"tap", "sink", "hook"}

TypeOK ==
    /\ how \in [Emissions -> {"none", "emit", "unsafe"}]
    /\ level \in [Emissions -> {"quiet", "loud", "error"}]
    /\ pc \in [Lines -> LinePC]
    /\ hookRuns \in [Emissions -> 0..1]
    /\ queue \in Seq(Lines \cup Waiters)
    /\ offered \in Seq(Lines)
    /\ initialized \in BOOLEAN
    /\ writer \in {"idle", "init", "append", "dead"}
    /\ flying \subseteq current /\ current \subseteq Lines
    /\ file \in Seq(Lines)
    /\ failed \subseteq Lines
    /\ flush \in [Waiters -> {"idle", "hooks", "sink", "done"}]
    /\ due \in [Waiters -> SUBSET Lines]
    /\ closing \in {"open", "flushing", "stopped", "closed"}

Init ==
    /\ how = [e \in Emissions |-> "none"]
    /\ level = [e \in Emissions |-> "quiet"]
    /\ pc = [l \in Lines |-> "idle"]
    /\ hookRuns = [e \in Emissions |-> 0]
    /\ queue = <<>>
    /\ offered = <<>>
    /\ initialized = FALSE
    /\ writer = "idle"
    /\ current = {}
    /\ flying = {}
    /\ file = <<>>
    /\ failed = {}
    /\ flush = [w \in Waiters |-> "idle"]
    /\ due = [w \in Waiters |-> {}]
    /\ closing = "open"

-----------------------------------------------------------------------------
(* Helpers *)

(* The emission that comes next. *)
Comes(e) == how[e] = "none" /\ \A d \in Emissions : d < e => how[d] # "none"

(* The fibers of the service's FiberSet: emitUnsafe and the hooks. *)
InSet(l) == pc[l] \in Live /\ (l[2] = "hook" \/ how[l[1]] = "unsafe")
FiberSet == {l \in Lines : InSet(l)}

Move(l, from, to) == pc[l] = from /\ pc' = [pc EXCEPT ![l] = to]

(* The service's finalizer, the first to run, has set its flag. *)
Closed == closing # "open"

(* A hook's line is logged at least at the level of the hook's cause. *)
Passes(l) == l[2] = "hook" \/ level[l[1]] # "quiet"

Settled(l) ==
    \/ pc[l] \in {"lost", "console"}
    \/ pc[l] = "done" /\ (Passes(l) => l \in ToSet(file) \cup failed)

-----------------------------------------------------------------------------
(* emit and emitUnsafe *)

(* emit, by its caller. *)
Emit(e) ==
    /\ Comes(e)
    /\ how' = [how EXCEPT ![e] = "emit"]
    /\ \E v \in {"quiet", "loud", "error"} : level' = [level EXCEPT ![e] = v]
    /\ Move(Own(e), "idle", "tap")
    /\ UNCHANGED <<hookRuns, queue, offered, writerVars, flushVars>>

(* emitUnsafe: a fiber of the set, or the console once the scope is closed. *)
EmitUnsafe(e) ==
    /\ Comes(e)
    /\ how' = [how EXCEPT ![e] = "unsafe"]
    /\ \E v \in {"quiet", "loud", "error"} : level' = [level EXCEPT ![e] = v]
    /\ Move(Own(e), "idle", IF Closed THEN "console" ELSE "tap")
    /\ UNCHANGED <<hookRuns, queue, offered, writerVars, flushVars>>

(* The tap ends, or fails, which the console is told. *)
TapEnds(l) ==
    /\ Move(l, "tap", "sink")
    /\ UNCHANGED <<how, level, hookRuns, queue, offered, writerVars, flushVars>>

(* The sink's write: a line at or above the threshold is queued.  A line    *)
(* from inside a hook ends here.                                            *)
WriteSink(l) ==
    /\ Move(l, "sink", IF l[2] = "own" THEN "hook" ELSE "done")
    /\ IF Passes(l) THEN queue' = Append(queue, l) /\ offered' = Append(offered, l)
                    ELSE UNCHANGED <<queue, offered>>
    /\ UNCHANGED <<how, level, hookRuns, writerVars, flushVars>>

(* startHook: an error starts its hook in the set, whose fibers are         *)
(* interrupted at once when it is closed.                                   *)
StartHook(l) ==
    LET e == l[1] IN
    /\ pc[l] = "hook"
    /\ IF level[e] = "error"
       THEN /\ hookRuns' = [hookRuns EXCEPT ![e] = @ + 1]
            /\ pc' = [pc EXCEPT ![l] = "done",
                                ![Hook(e)] = IF closing = "closed" THEN "lost" ELSE "sink"]
       ELSE pc' = [pc EXCEPT ![l] = "done"] /\ UNCHANGED hookRuns
    /\ UNCHANGED <<how, level, queue, offered, writerVars, flushVars>>

(* The caller of emit is interrupted before the emission is over. *)
EmitInterrupted(e) ==
    /\ how[e] = "emit" /\ pc[Own(e)] \in Live
    /\ pc' = [pc EXCEPT ![Own(e)] = "lost"]
    /\ UNCHANGED <<how, level, hookRuns, queue, offered, writerVars, flushVars>>

-----------------------------------------------------------------------------
(* The writer *)

Taking == writer = "idle" /\ queue # <<>> /\ queue' = Tail(queue)

(* Mutant: the writer does not wait for the append to come back. *)
TakesLineForked ==
    /\ writer \in {"idle", "append"} /\ queue # <<>> /\ queue' = Tail(queue)
    /\ Head(queue) \in Lines
    /\ current' = current \cup {Head(queue)}
    /\ initialized' = TRUE
    /\ writer' = "append" /\ flying' = flying \cup {Head(queue)}
    /\ UNCHANGED <<emitVars, offered, file, failed, flushVars>>

(* handle of a Write: the first one makes the directory and sweeps it.      *)
TakesLine ==
    /\ Taking
    /\ Head(queue) \in Lines
    /\ current' = {Head(queue)}
    /\ initialized' = TRUE
    /\ IF initialized THEN writer' = "append" /\ flying' = current'
                      ELSE writer' = "init" /\ UNCHANGED flying
    /\ UNCHANGED <<emitVars, offered, file, failed, flushVars>>

(* Mutant: a failure of init ends the writer. *)
InitEndsWriter ==
    /\ writer = "init"
    /\ \/ writer' = "append" /\ flying' = current
       \/ writer' = "dead" /\ UNCHANGED flying
    /\ UNCHANGED <<emitVars, queue, offered, initialized, current, file, failed, flushVars>>

(* init ends, well or not: what failed in it is reported, not tried again. *)
InitEnds ==
    /\ writer = "init"
    /\ writer' = "append" /\ flying' = current
    /\ UNCHANGED <<emitVars, queue, offered, initialized, current, file, failed, flushVars>>

(* appendFile comes back, perhaps to a writer that is gone by then. *)
AppendEnds(l) ==
    /\ l \in flying
    /\ flying' = flying \ {l} /\ current' = current \ {l}
    /\ \/ file' = Append(file, l) /\ UNCHANGED failed
       \/ failed' = failed \cup {l} /\ UNCHANGED file
    /\ writer' = IF writer = "append" /\ current' = {} THEN "idle" ELSE writer
    /\ UNCHANGED <<emitVars, queue, offered, initialized, flushVars>>

(* handle of a Flush *)
TakesFlush ==
    /\ Taking
    /\ Head(queue) \in Waiters
    /\ flush' = [flush EXCEPT ![Head(queue)] = "done"]
    /\ UNCHANGED <<emitVars, offered, writerVars, due, closing>>

-----------------------------------------------------------------------------
(* Flushing and closing *)

(* Logger.flush begins to wait for the set to be empty.  It is to wait for  *)
(* the lines of every emission that is over or in the set.                  *)
FlushBegins(f) ==
    /\ flush[f] = "idle"
    /\ flush' = [flush EXCEPT ![f] = "hooks"]
    /\ due' = [due EXCEPT ![f] = {l \in Lines : pc[l] = "done" \/ InSet(l)}]
    /\ UNCHANGED <<emitVars, queue, offered, writerVars, closing>>

(* Mutant: the sinks are flushed and the hooks are not waited for. *)
FlushSinksOnly(f) ==
    /\ flush[f] = "hooks"
    /\ flush' = [flush EXCEPT ![f] = "sink"]
    /\ queue' = Append(queue, f)
    /\ UNCHANGED <<emitVars, offered, writerVars, due, closing>>

(* The set is empty: the flush of the sink. *)
FlushSinks(f) ==
    /\ flush[f] = "hooks" /\ FiberSet = {}
    /\ flush' = [flush EXCEPT ![f] = "sink"]
    /\ queue' = Append(queue, f)
    /\ UNCHANGED <<emitVars, offered, writerVars, due, closing>>

(* The scope closes: the service's flag, then the sink's own flush. *)
CloseBegins ==
    /\ closing = "open"
    /\ closing' = "flushing"
    /\ flush' = [flush EXCEPT ![Scope] = "sink"]
    /\ due' = [due EXCEPT ![Scope] = {l \in Lines : pc[l] = "done"}]
    /\ queue' = Append(queue, Scope)
    /\ UNCHANGED <<emitVars, offered, writerVars>>

(* The flush is answered: the writer is interrupted.  An append in flight   *)
(* is not called back.                                                      *)
CloseStops ==
    /\ closing = "flushing" /\ flush[Scope] = "done"
    /\ closing' = "stopped"
    /\ writer' = "dead"
    /\ UNCHANGED <<emitVars, queue, offered, initialized, current, flying, file, failed,
                   flush, due>>

(* The FiberSet is the last to go, with the fibers that are left in it. *)
CloseClears ==
    /\ closing = "stopped"
    /\ closing' = "closed"
    /\ pc' = [l \in Lines |-> IF InSet(l) THEN "lost" ELSE pc[l]]
    /\ UNCHANGED <<how, level, hookRuns, queue, offered, writerVars, flush, due>>

-----------------------------------------------------------------------------
Emitting(l) == TapEnds(l) \/ WriteSink(l) \/ StartHook(l)

Writing == TakesLine \/ InitEnds \/ TakesFlush \/ \E l \in Lines : AppendEnds(l)

Closing == CloseStops \/ CloseClears

Next ==
    \/ \E e \in Emissions : Emit(e) \/ EmitUnsafe(e) \/ EmitInterrupted(e)
    \/ \E l \in Lines : Emitting(l)
    \/ \E f \in Flushers : FlushBegins(f) \/ FlushSinks(f)
    \/ Writing \/ CloseBegins \/ Closing

Spec == Init /\ [][Next]_vars

(* Fibers run on, taps and hooks end, appends come back. *)
Fairness ==
    /\ \A l \in Lines : WF_vars(Emitting(l))
    /\ \A f \in Flushers : WF_vars(FlushSinks(f))
    /\ WF_vars(Writing) /\ WF_vars(Closing)

FairSpec == Spec /\ Fairness

-----------------------------------------------------------------------------
(* Properties *)

(* Logger.flush "waits for every hook fiber started so far and for every    *)
(* sink's buffer": when it returns, the line of every emission that was     *)
(* over or in the set when it was called, and of every hook such an         *)
(* emission started, is in the file or its append has failed.               *)
FlushWaits ==
    \A f \in Flushers : flush[f] = "done" =>
        \A l \in due[f] : Settled(l) /\ (hookRuns[l[1]] > 0 => Settled(Hook(l[1])))

(* "The sink's scope flushes before it closes": what was logged before the  *)
(* scope began to close is in the file when the writer is gone, or its      *)
(* append has failed.                                                       *)
CloseKeeps ==
    closing \in {"stopped", "closed"} => \A l \in due[Scope] : Settled(l)

(* Every line that someone waits for is dealt with before the wait is over. *)
LinesAreKept == TypeOK /\ FlushWaits /\ CloseKeeps

(* "Appended through a single writer fiber so lines land in order": the     *)
(* lines of the file were queued in the order of the file, none twice, and  *)
(* also those whose append outlives the writer.                             *)
FileInOrder ==
    \A i, j \in DOMAIN file : i < j =>
        \E m, n \in DOMAIN offered : m < n /\ offered[m] = file[i] /\ offered[n] = file[j]

(* A flush returns unless the scope closes, and the scope closes whatever   *)
(* is logged or flushed meanwhile.                                          *)
FlushEnds ==
    /\ \A f \in Flushers : flush[f] = "hooks" ~> flush[f] = "done" \/ closing # "open"
    /\ closing = "flushing" ~> closing = "closed"
=============================================================================
