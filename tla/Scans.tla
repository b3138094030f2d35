--------------------------------- MODULE Scans ---------------------------------
(***************************************************************************)
(* lsofScan, listeningProcesses and processCwds of src/probes: one call.   *)
(*                                                                         *)
(* A line of lsof's field output has a tag and a value: p starts a         *)
(* process, c names it, n is a socket or a directory.  A value that does   *)
(* not parse is Bad.                                                       *)
(***************************************************************************)
EXTENDS Naturals, Sequences, FiniteSetsExt

CONSTANTS
    Worlds,  \* what a scan that finishes may print, as sequences of lines
    Bad      \* not a positive integer

VARIABLES
    asked,    \* "listeners" or "cwds"
    world,    \* what a scan that finishes prints
    attempt,  \* the scans begun
    scan,     \* the LsofScan returned: its output, and whether it is complete
    killed,   \* the lsof that answered had been killed, and not by its budget
    answer    \* "none", "some", "unknown" (Option.none) or "interrupted"

vars == <<asked, world, attempt, scan, killed, answer>>

NoScan == [out |-> <<>>, complete |-> FALSE]

(* What an lsof that dies has printed: some of its lines, the last of which *)
(* may be cut so that it says another value, or none.                       *)
Cut(n, v) == Append(SubSeq(world, 1, n - 1), [world[n] EXCEPT !.value = v])

CutShort ==
    {SubSeq(world, 1, n) : n \in 0..Len(world)} \cup
    {Cut(n, v) : n \in DOMAIN world, v \in {world[i].value : i \in DOMAIN world} \cup {Bad}}

TypeOK ==
    /\ asked \in {"listeners", "cwds"}
    /\ world \in Worlds
    /\ attempt \in 0..2
    /\ scan.complete \in BOOLEAN /\ killed \in BOOLEAN
    /\ scan.out \in {<<>>, world} \cup CutShort
    /\ answer \in {"none", "some", "unknown", "interrupted"}

Init ==
    /\ asked \in {"listeners", "cwds"}
    /\ world \in Worlds
    /\ attempt = 0
    /\ scan = NoScan
    /\ killed = FALSE
    /\ answer = "none"

-----------------------------------------------------------------------------
(* The parsers of each answer, line by line; a parse is the records by pid  *)
(* and the record under way.                                                *)

Extended(records, pid, record) ==
    [p \in DOMAIN records \cup {pid} |-> IF p = pid THEN record ELSE records[p]]

Empty == [records |-> <<>>, current |-> Bad]

ListenerLine(parse, line) ==
    LET pid == parse.current
        record == parse.records[pid]
        With(changed) == [parse EXCEPT !.records = Extended(@, pid, changed)]
    IN  CASE line.tag = "p" /\ line.value \in DOMAIN parse.records \cup {Bad} ->
                [parse EXCEPT !.current = line.value]
          [] line.tag = "p" /\ line.value \notin DOMAIN parse.records \cup {Bad} ->
                [records |-> Extended(parse.records, line.value,
                                      [command |-> Bad, ports |-> <<>>]),
                 current |-> line.value]
          [] line.tag = "c" /\ pid # Bad -> With([record EXCEPT !.command = line.value])
          [] line.tag = "n" /\ pid # Bad /\ line.value # Bad
             /\ line.value \notin Range(record.ports) ->
                With([record EXCEPT !.ports = Append(@, line.value)])
          [] OTHER -> parse

CwdLine(parse, line) ==
    CASE line.tag = "p" -> [parse EXCEPT !.current = line.value]
      [] line.tag = "n" /\ parse.current # Bad ->
            [parse EXCEPT !.records = Extended(@, parse.current, line.value)]
      [] OTHER -> parse

ParseLine(parse, line) ==
    IF asked = "listeners" THEN ListenerLine(parse, line) ELSE CwdLine(parse, line)

Parsed(out) ==
    LET parse[n \in 0..Len(out)] ==
            IF n = 0 THEN Empty ELSE ParseLine(parse[n - 1], out[n])
    IN  parse[Len(out)].records

-----------------------------------------------------------------------------
(* lsofScan *)

(* processCwds of no pids needs no scan. *)
Begin ==
    /\ attempt = 0 /\ answer = "none"
    /\ \/ attempt' = 1 /\ UNCHANGED <<scan, answer>>
       \/ /\ asked = "cwds" /\ answer' = "some"
          /\ scan' = [out |-> <<>>, complete |-> TRUE] /\ UNCHANGED attempt
    /\ UNCHANGED <<asked, world, killed>>

\* Mutant: the output of a scan that its budget killed passes for an answer.
ScanCutShort ==
    /\ attempt > 0 /\ answer = "none"
    /\ \E out \in CutShort : scan' = [out |-> out, complete |-> TRUE]
    /\ answer' = "some"
    /\ UNCHANGED <<asked, world, attempt, killed>>

(* lsof exits by itself: run resolves with all that it prints. *)
ScanFinishes ==
    /\ attempt > 0 /\ answer = "none"
    /\ scan' = [out |-> world, complete |-> TRUE]
    /\ answer' = "some"
    /\ UNCHANGED <<asked, world, attempt, killed>>

(* The exit code is not read, and only a blown budget is told: so does run  *)
(* of an lsof that crashed or that somebody else killed, whose code is      *)
(* 128 + n, with what it had printed.                                       *)
ScanKilled ==
    /\ attempt > 0 /\ answer = "none"
    /\ \E out \in CutShort : scan' = [out |-> out, complete |-> TRUE]
    /\ killed' = TRUE
    /\ answer' = "some"
    /\ UNCHANGED <<asked, world, attempt>>

(* The budget is blown, or run fails: once more, then unknown. *)
ScanFails ==
    /\ attempt > 0 /\ answer = "none"
    /\ IF attempt = 1
       THEN attempt' = 2 /\ UNCHANGED <<scan, answer>>
       ELSE scan' = NoScan /\ answer' = "unknown" /\ UNCHANGED attempt
    /\ UNCHANGED <<asked, world, killed>>

Interrupt ==
    /\ attempt > 0 /\ answer = "none"
    /\ answer' = "interrupted"
    /\ UNCHANGED <<asked, world, attempt, scan, killed>>

(* listeningProcesses, processCwds: what a complete scan is parsed to. *)
Found == Parsed(scan.out)

-----------------------------------------------------------------------------
Steps == ScanFinishes \/ ScanFails

Next == Begin \/ Steps \/ ScanKilled

Spec == Init /\ [][Next \/ Interrupt]_vars

(* A scan ends, by its budget at the latest. *)
Fairness == WF_vars(Steps)

-----------------------------------------------------------------------------
(* What the lines that were printed say: a line belongs to the last p line  *)
(* before it, to nobody if that one is Bad.                                 *)
Owner(i) ==
    LET starts == {j \in 1..i : scan.out[j].tag = "p"}
    IN  IF starts = {} THEN Bad ELSE scan.out[Max(starts)].value

Pids == {Owner(i) : i \in DOMAIN scan.out} \ {Bad}
Of(pid, tag) == {i \in DOMAIN scan.out : scan.out[i].tag = tag /\ Owner(i) = pid}

(* "it never reports an unfinished scan as an empty world": an answer is    *)
(* what all of the output says, every process with its last name or         *)
(* directory and each of its ports once, and a scan that its budget ended   *)
(* is no answer.  An lsof that anything else killed is one, of what it had  *)
(* printed.                                                                 *)
ScanIsHonest ==
    answer = "some" /\ attempt > 0 =>
        /\ scan.out = world \/ killed
        /\ IF asked = "listeners"
           THEN /\ DOMAIN Found = Pids
                /\ \A pid \in Pids :
                     /\ IsInjective(Found[pid].ports)
                     /\ Range(Found[pid].ports) = {scan.out[i].value : i \in Of(pid, "n")} \ {Bad}
                     /\ Found[pid].command = IF Of(pid, "c") = {} THEN Bad
                                             ELSE scan.out[Max(Of(pid, "c"))].value
           ELSE /\ DOMAIN Found = {pid \in Pids : Of(pid, "n") # {}}
                /\ \A pid \in DOMAIN Found : Found[pid] = scan.out[Max(Of(pid, "n"))].value
=============================================================================
