------------------------------- MODULE Sections -------------------------------
(***************************************************************************)
(* LogFile of src/services/logfile.ts: fibers that each write a section,   *)
(* under the file's one permit.                                            *)
(*                                                                         *)
(* writeFile opens the file, truncating or to append, and writes chunk     *)
(* after chunk; it looks at the abort signal in between.  An interrupted   *)
(* section aborts and gives up the permit at once, and does not wait for   *)
(* the operating system to finish what it is at.                           *)
(***************************************************************************)
EXTENDS Naturals, Sequences

CONSTANTS
    Writers,   \* the fibers, one section each
    Chunks,    \* the writes that a section takes
    Old        \* what a file that is there already holds

VARIABLES
    mode,          \* "overwrite" or "append"
    pc,            \* "idle", "waiting", "holding", "written", "failed", "interrupted"
    hasTruncated,  \* the flag of that name
    flag,          \* flag[w]: "w" or "a", as w's writeFile was given it
    io,            \* io[w]: "none", "opening" or "writing": what w's writeFile is at
    position,      \* position[w]: the chunks w has written so far, which is
                   \* where a descriptor that does not append writes next
    file,          \* the chunks in the file, each the writer it is of, or Old
    spoilt         \* history: a section has failed or was interrupted at its write

vars == <<mode, pc, hasTruncated, flag, io, position, file, spoilt>>

Ended == {"written", "failed", "interrupted"}

TypeOK ==
    /\ mode \in {"overwrite", "append"}
    /\ pc \in [Writers -> {"idle", "waiting", "holding"} \cup Ended]
    /\ hasTruncated \in BOOLEAN /\ spoilt \in BOOLEAN
    /\ flag \in [Writers -> {"w", "a"}]
    /\ io \in [Writers -> {"none", "opening", "writing"}]
    /\ position \in [Writers -> 0..Chunks]
    /\ file \in Seq(Writers \cup {Old})

Init ==
    /\ mode \in {"overwrite", "append"}
    /\ pc = [w \in Writers |-> "idle"]
    /\ hasTruncated = FALSE /\ spoilt = FALSE
    /\ flag = [w \in Writers |-> "a"]
    /\ io = [w \in Writers |-> "none"]
    /\ position = [w \in Writers |-> 0]
    /\ file = <<Old>>

-----------------------------------------------------------------------------
(* section *)

Begin(w) ==
    /\ pc[w] = "idle"
    /\ pc' = [pc EXCEPT ![w] = "waiting"]
    /\ UNCHANGED <<mode, hasTruncated, flag, io, position, file, spoilt>>

\* Mutant: the permit is not waited for.
StartWriteFreely(w) ==
    /\ pc[w] = "waiting"
    /\ pc' = [pc EXCEPT ![w] = "holding"]
    /\ flag' = [flag EXCEPT ![w] = IF mode = "append" \/ hasTruncated THEN "a" ELSE "w"]
    /\ hasTruncated' = (mode = "overwrite")
    /\ io' = [io EXCEPT ![w] = "opening"]
    /\ UNCHANGED <<mode, position, file, spoilt>>

(* The permit, nextWriteFlag, and the call of writeFile. *)
StartWrite(w) ==
    /\ pc[w] = "waiting" /\ \A v \in Writers : pc[v] # "holding"
    /\ pc' = [pc EXCEPT ![w] = "holding"]
    /\ flag' = [flag EXCEPT ![w] = IF mode = "append" \/ hasTruncated THEN "a" ELSE "w"]
    /\ hasTruncated' = (mode = "overwrite")
    /\ io' = [io EXCEPT ![w] = "opening"]
    /\ UNCHANGED <<mode, position, file, spoilt>>

(* What is under way completes in the operating system; the signal of an    *)
(* interrupted section ends its writeFile before the next operation.        *)
After(w, next) == io' = [io EXCEPT ![w] = IF pc[w] = "holding" THEN next ELSE "none"]

FileOpens(w) ==
    /\ io[w] = "opening"
    /\ After(w, "writing")
    /\ file' = IF flag[w] = "w" THEN <<>> ELSE file
    /\ UNCHANGED <<mode, pc, hasTruncated, flag, position, spoilt>>

Overwritten(at, w) ==
    [i \in 1..(IF at < Len(file) THEN Len(file) ELSE at + 1) |->
        IF i = at + 1 THEN w ELSE file[i]]

(* A descriptor opened with "w" writes at its own offset. *)
ChunkWritten(w) ==
    /\ io[w] = "writing" /\ position[w] < Chunks
    /\ After(w, "writing")
    /\ position' = [position EXCEPT ![w] = @ + 1]
    /\ file' = IF flag[w] = "w" THEN Overwritten(position[w], w) ELSE Append(file, w)
    /\ UNCHANGED <<mode, pc, hasTruncated, flag, spoilt>>

Resolved(w) ==
    /\ pc[w] = "holding" /\ position[w] = Chunks
    /\ pc' = [pc EXCEPT ![w] = "written"]
    /\ io' = [io EXCEPT ![w] = "none"]
    /\ UNCHANGED <<mode, hasTruncated, flag, position, file, spoilt>>

(* An open or a write fails: an OperationError, and the permit is free.     *)
WriteFails(w) ==
    /\ pc[w] = "holding" /\ io[w] # "none"
    /\ pc' = [pc EXCEPT ![w] = "failed"]
    /\ io' = [io EXCEPT ![w] = "none"]
    /\ spoilt' = TRUE
    /\ UNCHANGED <<mode, hasTruncated, flag, position, file>>

(* Interruption of the fibers of W, at once. *)
Interrupts(W) ==
    /\ pc' = [w \in Writers |-> IF w \in W /\ pc[w] \notin Ended THEN "interrupted" ELSE pc[w]]
    /\ spoilt' = (spoilt \/ \E w \in W : pc[w] = "holding")
    /\ UNCHANGED <<mode, hasTruncated, flag, io, position, file>>

Interrupt == (\E w \in Writers : pc[w] \notin Ended) /\ Interrupts(Writers)

Timeout(w) == pc[w] \in {"waiting", "holding"} /\ Interrupts({w})

Steps(w) ==
    Begin(w) \/ StartWrite(w) \/ FileOpens(w) \/ ChunkWritten(w) \/ Resolved(w) \/ WriteFails(w)

Next == \E w \in Writers : Steps(w)

Spec == Init /\ [][Next \/ \E w \in Writers : Timeout(w)]_vars

Fairness == \A w \in Writers : WF_vars(Steps(w))

-----------------------------------------------------------------------------
(* "Writes are serialized, so concurrent sections never interleave": a      *)
(* section whose write has succeeded stands in the file, whole.             *)
WrittenStays ==
    \A w \in Writers : pc[w] = "written" =>
        \E i \in 0..(Len(file) - Chunks) :
            \A n \in 1..Chunks : file[i + n] = w

(* "The first write truncates in overwrite mode", if it succeeds, and none  *)
(* does in append mode.                                                     *)
OldContents ==
    /\ mode = "append" => file[1] = Old
    /\ mode = "overwrite" /\ ~spoilt /\ (\E w \in Writers : pc[w] = "written")
          => \A i \in DOMAIN file : file[i] # Old
=============================================================================
