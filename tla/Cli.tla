---------------------------------- MODULE Cli ----------------------------------
(***************************************************************************)
(* runMain of src/cli, running a program that performs one operation of    *)
(* the library: a streamed subprocess (or the termination of one that was  *)
(* handed over), a port probe, a process scan, a request, a read, sections *)
(* of a log file, or a look at its settings.  SIGINT and SIGTERM interrupt *)
(* it at any time.                                                         *)
(***************************************************************************)
EXTENDS Naturals, Sequences

CONSTANTS
    Streams, MaxText, Worlds, Bad, Times, MaxAttempts, Retryable, MaxChunks,
    Writers, Chunks, Old, Readers, Current, Olds, \* see the modules of the operations
    Codes  \* the numbers that a program may resolve as its exit code

VARIABLES
    operation,  \* what the program does
    flush,      \* runMain was given a flush
    fiber,      \* "running" the program, "flushing", or "exited"
    signalled,  \* a signal has interrupted the fiber
    itself,     \* the program has interrupted itself
    result,     \* the program's: "none", "value", "failure", "interrupted", or
                \* "mixed": interrupted, and a finalizer failed
    flushed,    \* the flush was run
    printed,    \* a failure was printed
    code,       \* the exit code
    kind, call, ended, interrupted, leader, kid, exitSeen, heard, timer,
    drain, written, unread, buffer, lines,                       \* ProcStream
    listening, connects, socket, settled, probed, seen,          \* Ports
    asked, world, scans, scan, killed, scanned,                  \* Scans
    enabled, request, attempt, stage, posts, wire, reply, id, requested,
    strays, bookmarks, tagged, delivered,                        \* Requests
    reads, reading, source, emitted, chunks, attached, fd, readOutcome, \* Reads
    mode, section, hasTruncated, flag, io, position, file, spoilt,      \* Sections
    place, optional, toml, env, form, layer, at, try, found, probing, problem,
    warned, warnings                                             \* Config

mainVars == <<operation, flush, fiber, signalled, itself, result, flushed, printed, code>>
procVars == <<kind, call, ended, interrupted, leader, kid, exitSeen, heard, timer,
              drain, written, unread, buffer, lines>>
portVars == <<listening, connects, socket, settled, probed, seen>>
scanVars == <<asked, world, scans, scan, killed, scanned>>
requestVars == <<enabled, request, attempt, stage, posts, wire, reply, id, requested,
                 strays, bookmarks, tagged, delivered>>
readVars == <<reads, reading, source, emitted, chunks, attached, fd, readOutcome>>
logVars == <<mode, section, hasTruncated, flag, io, position, file, spoilt>>
configVars == <<place, optional, toml, env, form, layer, at, try, found, probing, problem,
                warned, warnings>>

vars == <<mainVars, procVars, portVars, scanVars, requestVars, readVars, logVars, configVars>>

Proc == INSTANCE ProcStream WITH outcome <- ended
Port == INSTANCE Ports WITH attempt <- connects, answer <- probed
Scan == INSTANCE Scans WITH attempt <- scans, answer <- scanned
Request == INSTANCE Requests WITH call <- request, outcome <- requested
Read == INSTANCE Reads WITH pc <- reading, outcome <- readOutcome
Log == INSTANCE Sections WITH pc <- section
Settings == INSTANCE Config WITH file <- toml, stage <- at

(* There is an output pipe; there is a reader of the key, whose old names   *)
(* are a sequence; a section takes a write, and no writer is mistaken for   *)
(* what a file held; a program does not repeat addBookmark for the failure  *)
(* of its tags, which would ask for a second bookmark; bounds are numbers,  *)
(* and a call is made once at least; lsof prints lines.                     *)
ASSUME CliAssumption ==
    /\ Streams # {} /\ MaxText \in [Streams -> Nat]
    /\ Readers # {} /\ Olds \in Seq(Settings!Names)
    /\ Chunks \in Nat \ {0} /\ Old \notin Writers
    /\ "attachTags" \notin Retryable
    /\ Times \in Nat /\ MaxAttempts \in Nat \ {0} /\ MaxChunks \in Nat
    /\ \A out \in Worlds : out \in Seq(Scan!Range(out))

Operations == {"stream", "probe", "scan", "request", "read", "log", "configure"}
Results == {"value", "failure", "interrupted", "mixed"}

TypeOK ==
    /\ operation \in Operations
    /\ flush \in BOOLEAN /\ signalled \in BOOLEAN /\ itself \in BOOLEAN
    /\ flushed \in BOOLEAN /\ printed \in BOOLEAN
    /\ fiber \in {"running", "flushing", "exited"}
    /\ result \in Results \cup {"none"}
    /\ code \in Codes \cup {0, 1, 130}

MainInit ==
    /\ operation \in Operations /\ flush \in BOOLEAN
    /\ fiber = "running" /\ result = "none" /\ code = 0
    /\ signalled = FALSE /\ itself = FALSE /\ flushed = FALSE /\ printed = FALSE

Init ==
    /\ MainInit
    /\ Proc!Init /\ Port!Init /\ Scan!Init /\ Request!Init /\ Read!Init /\ Log!Init
    /\ Settings!Init

-----------------------------------------------------------------------------
(* The operation *)

Is(what, others) == operation = what /\ UNCHANGED others

StreamOnly == Is("stream", <<portVars, scanVars, requestVars, readVars, logVars, configVars>>)
ProbeOnly == Is("probe", <<procVars, scanVars, requestVars, readVars, logVars, configVars>>)
ScanOnly == Is("scan", <<procVars, portVars, requestVars, readVars, logVars, configVars>>)
RequestOnly == Is("request", <<procVars, portVars, scanVars, readVars, logVars, configVars>>)
ReadOnly == Is("read", <<procVars, portVars, scanVars, requestVars, logVars, configVars>>)
LogOnly == Is("log", <<procVars, portVars, scanVars, requestVars, readVars, configVars>>)
ConfigOnly == Is("configure", <<procVars, portVars, scanVars, requestVars, readVars, logVars>>)

Outcomes ==
    CASE operation = "stream" -> {ended}
      [] operation = "probe" -> {probed}
      [] operation = "scan" -> {scanned}
      [] operation = "request" -> {requested}
      [] operation = "read" -> {readOutcome}
      [] operation = "log" -> {section[w] : w \in Writers}
      [] operation = "configure" -> {Settings!Outcome}

Begun ==
    CASE operation = "stream" -> call # "idle"
      [] operation = "probe" -> connects > 0
      [] operation = "scan" -> scans > 0
      [] operation = "request" -> stage # "idle"
      [] operation = "read" -> reading # "idle"
      [] operation = "log" -> Outcomes # {"idle"}
      [] operation = "configure" -> layer # "none"

Over ==
    CASE operation = "stream" -> call = "done"
      [] operation = "log" -> Outcomes \subseteq Log!Ended
      [] OTHER -> Outcomes # {"none"}

(* A signal came first: what the program had not begun it does not begin,   *)
(* but for a termination, which is its finalizer.                           *)
NeverBegun ==
    signalled /\ ~Begun /\ ~Over /\ ~(operation = "stream" /\ kind = "foreign")

Step ==
    /\ fiber # "exited" /\ ~NeverBegun
    /\ \/ Proc!Uninterrupted /\ StreamOnly
       \/ Port!Next /\ ProbeOnly
       \/ Scan!Next /\ ScanOnly
       \/ Request!Next /\ RequestOnly
       \/ Read!Next /\ ReadOnly
       \/ Log!Next /\ LogOnly
       \/ Settings!Next /\ ConfigOnly
    /\ UNCHANGED mainVars

Answers == {"code", "terminated", "listening", "free", "unknown", "some", "ok", "written"}

(* The program resolves what the operation did, fails as it failed, or is   *)
(* interrupted, with it or by itself; its own finalizers run then and one   *)
(* may fail.                                                                *)
Resolves ==
    IF itself \/ NeverBegun \/ "interrupted" \in Outcomes THEN {"interrupted", "mixed"}
    ELSE IF Outcomes \subseteq Answers THEN {"value"} ELSE {"failure"}

-----------------------------------------------------------------------------
(* runMain *)

(* exitCodeFor: a program resolves nothing, or a number, which may be one   *)
(* that other exits have.                                                   *)
CodesFor(exit) ==
    CASE exit = "value" -> Codes \cup {0}
      [] exit = "interrupted" -> {130}
      [] OTHER -> {1}

(* The observer, on the exit of the fiber: a signal during the flush may    *)
(* have replaced the result of the program.                                 *)
Exit(outcome) ==
    /\ fiber' = "exited"
    /\ result' \in {outcome} \cup {r \in {"interrupted"} : signalled}
    /\ printed' = (result' \in {"failure", "mixed"})
    /\ code' \in CodesFor(result')

\* Mutant: only a program that succeeds is flushed.
ProgramEndsUnflushed ==
    /\ fiber = "running" /\ (Over \/ NeverBegun)
    /\ \E outcome \in Resolves :
        IF flush /\ outcome = "value"
        THEN fiber' = "flushing" /\ result' = outcome /\ UNCHANGED <<printed, code>>
        ELSE Exit(outcome)
    /\ UNCHANGED <<operation, flush, signalled, itself, flushed, procVars, portVars,
                   scanVars, requestVars, readVars, logVars, configVars>>

(* Effect.ensuring runs the flush whatever the exit of the program. *)
ProgramEnds ==
    /\ fiber = "running" /\ (Over \/ NeverBegun)
    /\ \E outcome \in Resolves :
        IF flush
        THEN fiber' = "flushing" /\ result' = outcome /\ UNCHANGED <<printed, code>>
        ELSE Exit(outcome)
    /\ UNCHANGED <<operation, flush, signalled, itself, flushed, procVars, portVars,
                   scanVars, requestVars, readVars, logVars, configVars>>

(* Its failures are swallowed. *)
FlushEnds ==
    /\ fiber = "flushing"
    /\ flushed' = TRUE
    /\ Exit(result)
    /\ UNCHANGED <<operation, flush, signalled, itself, procVars, portVars, scanVars,
                   requestVars, readVars, logVars, configVars>>

(* Effect.interrupt, of the program, when it has done its operation. *)
InterruptsItself ==
    /\ fiber = "running" /\ Over /\ ~itself
    /\ itself' = TRUE
    /\ UNCHANGED <<operation, flush, fiber, signalled, result, flushed, printed, code, procVars,
                   portVars, scanVars, requestVars, readVars, logVars, configVars>>

(* The fiber's interruption reaches the fibers that the operation runs on;  *)
(* terminateSubprocess is called in a finalizer, which it does not reach.   *)
InterruptOperation ==
    \/ StreamOnly /\ kind = "own" /\ Proc!Interrupt
    \/ StreamOnly /\ kind = "foreign" /\ UNCHANGED procVars
    \/ ProbeOnly /\ Port!Interrupt
    \/ ScanOnly /\ Scan!Interrupt
    \/ RequestOnly /\ Request!Interrupt
    \/ ReadOnly /\ Read!Interrupt
    \/ LogOnly /\ Log!Interrupt
    \/ ConfigOnly /\ layer = "reading" /\ Settings!Interrupt
    \/ ConfigOnly /\ layer = "ready" /\ UNCHANGED configVars

Signalled ==
    /\ fiber # "exited" /\ ~signalled
    /\ signalled' = TRUE

\* Mutant: the handler ends the process.
SignalExits ==
    /\ Signalled
    /\ fiber' = "exited" /\ result' = "interrupted" /\ code' = 130
    /\ UNCHANGED <<operation, flush, itself, flushed, printed, procVars, portVars, scanVars,
                   requestVars, readVars, logVars, configVars>>

\* Mutant: the handler interrupts nothing.
SignalUnheard ==
    /\ Signalled
    /\ UNCHANGED <<operation, flush, fiber, itself, result, flushed, printed, code, procVars,
                   portVars, scanVars, requestVars, readVars, logVars, configVars>>

(* The first signal; interrupting the fiber again changes nothing.          *)
Signal ==
    /\ Signalled
    /\ IF fiber = "running" /\ Begun /\ ~Over THEN InterruptOperation
       ELSE UNCHANGED <<procVars, portVars, scanVars, requestVars, readVars, logVars, configVars>>
    /\ UNCHANGED <<operation, flush, fiber, itself, result, flushed, printed, code>>

-----------------------------------------------------------------------------
Next == Step \/ ProgramEnds \/ FlushEnds \/ InterruptsItself \/ Signal

(* What goes on by itself: the operation, as the fairness of its module says, *)
(* then the fiber.  No child exits, no stream ends and no signal comes by     *)
(* itself.                                                                    *)
RunsOn ==
    \/ Proc!CallSteps \/ Proc!DeadlineFires \/ Proc!SeeExit
    \/ \E s \in Streams : Proc!Data(s) \/ Proc!End(s)

Progress ==
    \/ ProgramEnds \/ FlushEnds
    \/ /\ \/ StreamOnly /\ RunsOn
          \/ ProbeOnly /\ (Port!Begin \/ Port!Steps)
          \/ ScanOnly /\ (Scan!Begin \/ Scan!Steps)
          \/ RequestOnly /\ Request!Steps
          \/ ReadOnly /\ Read!Steps
          \/ LogOnly /\ \E w \in Writers : Log!Steps(w)
          \/ ConfigOnly /\ Settings!Next
       /\ fiber # "exited" /\ ~NeverBegun /\ UNCHANGED mainVars

(* Each of these steps can be taken a bounded number of times, so that one    *)
(* fairness for all of them is enough.                                        *)
Fairness == WF_vars(Progress)

Spec == Init /\ [][Next]_vars
FairSpec == Spec /\ Fairness

-----------------------------------------------------------------------------
(* What the exit code and the terminal say of the program is true: the      *)
(* flush is run "on every path, success or failure, before exiting"; what   *)
(* is printed is a failure and its code is 1; one that nobody interrupted   *)
(* prints it exactly when its operation failed; one that prints nothing has *)
(* resolved its code, its operation having done what it was to do, or was   *)
(* interrupted, by a signal or by itself, and its code is 130.              *)
ExitTells ==
    fiber = "exited" =>
        /\ flush => flushed
        /\ printed => code = 1
        /\ ~signalled /\ ~itself => (printed <=> ~(Outcomes \subseteq Answers))
        /\ ~printed =>
             \/ result = "value" /\ Outcomes \subseteq Answers /\ ~itself
             \/ code = 130 /\ (signalled \/ itself)

(* "SIGINT and SIGTERM interrupt the running fiber, which lets finalizers   *)
(* run": when the process exits, its child is dead and reaped and no        *)
(* socket, descriptor, listener or stream that the operation took is left.  *)
NothingLeftBehind ==
    fiber = "exited" =>
        /\ kind = "own" /\ leader # "none" => Proc!Dead /\ exitSeen
        /\ socket = "none"
        /\ ~fd /\ ~attached
        /\ operation = "read" /\ reads = "stream" /\ reading # "idle" => source # "open"

(* A signal ends the process, whatever the child, the server, the port or   *)
(* the stream do, unless a child was handed over whose exit is never seen   *)
(* again.  Without one, every operation with a deadline of its own and      *)
(* every write and read of a file ends it.  A flush is taken to end.        *)
ProcessExits ==
    /\ signalled /\ kind = "own" ~> fiber = "exited"
    /\ operation \in {"probe", "scan", "request", "log", "configure"} ~> fiber = "exited"
    /\ operation = "read" /\ reads = "slice" ~> fiber = "exited"

(* The properties of the operations, under runMain. *)
TypesOK ==
    /\ TypeOK
    /\ Proc!TypeOK /\ Port!TypeOK /\ Scan!TypeOK /\ Request!TypeOK /\ Read!TypeOK /\ Log!TypeOK
    /\ Settings!TypeOK

StreamedIsWhole == Proc!ExitCodeIsComplete /\ Proc!EndsJoined
NoLateLine == Proc!NoLateLine
StreamEnds == Proc!CancelledStreamEnds /\ Proc!FiredDeadlineEnds
ProbeIsHonest == Port!ProbeIsHonest
ScanIsHonest == Scan!ScanIsHonest
AnswersAreTrue == Request!AnswersAreTrue
ReadsAreWhole == Read!ReadsAreWhole
SettingsAreTrue == Settings!SettingsAreTrue
SectionsStand == Log!WrittenStays /\ Log!OldContents
=============================================================================
