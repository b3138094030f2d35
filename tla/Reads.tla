--------------------------------- MODULE Reads ---------------------------------
(***************************************************************************)
(* streamToBuffer and readFileSlice of src/streams: one call.              *)
(*                                                                         *)
(* A Readable emits data, then end or error, unless somebody destroys it.  *)
(***************************************************************************)
EXTENDS Naturals, Sequences

CONSTANT MaxChunks  \* bound: the chunks of the stream

VARIABLES
    reads,      \* "stream" or "slice"
    pc,         \* "idle", "reading", "done"
    source,     \* the stream: "open", "ended", "failed", "destroyed"
    emitted,    \* history: the chunks the source has emitted, 1, 2, ...
    chunks,     \* what onData has collected
    attached,   \* the three listeners are on the stream
    fd,         \* the descriptor of a slice is open
    outcome     \* "none", "ok", "failed" or "interrupted"

vars == <<reads, pc, source, emitted, chunks, attached, fd, outcome>>

TypeOK ==
    /\ reads \in {"stream", "slice"} /\ pc \in {"idle", "reading", "done"}
    /\ source \in {"open", "ended", "failed", "destroyed"}
    /\ emitted \in 0..MaxChunks
    /\ chunks \in Seq(1..MaxChunks)
    /\ attached \in BOOLEAN /\ fd \in BOOLEAN
    /\ outcome \in {"none", "ok", "failed", "interrupted"}

Init ==
    /\ reads \in {"stream", "slice"} /\ pc = "idle"
    /\ source = "open" /\ emitted = 0 /\ chunks = <<>>
    /\ attached = FALSE /\ fd = FALSE
    /\ outcome = "none"

-----------------------------------------------------------------------------
(* streamToBuffer; a stream that nobody listens to does not flow. *)

Attach ==
    /\ pc = "idle" /\ reads = "stream"
    /\ pc' = "reading" /\ attached' = TRUE
    /\ UNCHANGED <<reads, source, emitted, chunks, fd, outcome>>

OnData ==
    /\ source = "open" /\ attached
    /\ emitted < MaxChunks
    /\ emitted' = emitted + 1
    /\ chunks' = Append(chunks, emitted')
    /\ UNCHANGED <<reads, pc, source, attached, fd, outcome>>

Settle(result) ==
    /\ pc = "reading" /\ attached
    /\ pc' = "done" /\ outcome' = result
    /\ attached' = FALSE
    /\ UNCHANGED <<reads, emitted, chunks, fd>>

OnEnd == source = "open" /\ source' = "ended" /\ Settle("ok")

OnError == source = "open" /\ source' = "failed" /\ Settle("failed")

\* Mutant: the stream is left open.
DetachOnly ==
    /\ UNCHANGED source
    /\ Settle("interrupted")

(* Interruption: detach, and destroy the stream. *)
Detach ==
    /\ source' = IF source = "open" THEN "destroyed" ELSE source
    /\ Settle("interrupted")

-----------------------------------------------------------------------------
(* readFileSlice: open, read and close, each of which may throw; a failing  *)
(* close changes nothing about the result.                                  *)

OpenFile ==
    /\ pc = "idle" /\ reads = "slice"
    /\ \/ pc' = "reading" /\ fd' = TRUE /\ UNCHANGED outcome
       \/ pc' = "done" /\ outcome' = "failed" /\ UNCHANGED fd
    /\ UNCHANGED <<reads, source, emitted, chunks, attached>>

ReadAndClose(result) ==
    /\ pc = "reading" /\ fd
    /\ pc' = "done" /\ outcome' = result
    /\ fd' = FALSE
    /\ UNCHANGED <<reads, source, emitted, chunks, attached>>

ReadSlice == ReadAndClose("ok") \/ ReadAndClose("failed")

(* The release runs whatever ends the use. *)
Interrupt == Detach \/ ReadAndClose("interrupted")

-----------------------------------------------------------------------------
(* Somebody else destroys the stream, without an error: no event that       *)
(* streamToBuffer listens to.                                               *)
Destroyed ==
    /\ source = "open" /\ pc = "reading" /\ reads = "stream"
    /\ source' = "destroyed"
    /\ UNCHANGED <<reads, pc, emitted, chunks, attached, fd, outcome>>

Steps == Attach \/ OpenFile \/ ReadSlice

Next == Steps \/ OnData \/ OnEnd \/ OnError \/ Destroyed

Spec == Init /\ [][Next \/ Interrupt]_vars

(* The call runs on; a stream may be silent for ever. *)
Fairness == WF_vars(Steps)

-----------------------------------------------------------------------------
(* A buffer is everything the stream had to say, and a call that is over    *)
(* holds no listener, no open stream and no descriptor.                     *)
ReadsAreWhole ==
    /\ outcome = "ok" /\ reads = "stream" =>
         source = "ended" /\ chunks = [i \in 1..emitted |-> i]
    /\ pc = "done" => ~attached /\ ~fd /\ (reads = "stream" => source # "open")
=============================================================================
