------------------------------- MODULE Scheduler -------------------------------
(***************************************************************************)
(* The Scheduler service of src/scheduling/Scheduler.ts.                   *)
(*                                                                         *)
(* A task is its place in the list of registered tasks.  start forks one   *)
(* loop fiber per registered task into the scope of its caller and then    *)
(* adds the fibers to the Ref that shutdown empties.  Every yield point of *)
(* start and shutdown separates two actions.  A loop sleeps to the next    *)
(* cron match, sleeps its jitter and runs the task uninterruptibly;        *)
(* failures and defects of the run are caught, so all runs end alike.      *)
(* Effect's fibers and scopes are external: an interrupted fiber ends at   *)
(* its next interruptible point, interruptAll asks all fibers before it    *)
(* awaits any, a scope runs its finalizers in reverse order, one by one.   *)
(***************************************************************************)
EXTENDS Naturals

CONSTANTS
    Callers,      \* fibers that call the service, each with a scope
    MaxTasks,     \* bound: tasks registered
    MaxLoops,     \* bound: loops forked
    OnStartup,    \* the tasks with runOnStartup
    Hanging       \* the tasks whose runs may never end

Tasks == 1..MaxTasks
Loops == 1..MaxLoops

ASSUME SchedulerAssumption ==
    /\ MaxTasks \in Nat /\ MaxLoops \in Nat
    /\ OnStartup \subseteq Tasks /\ Hanging \subseteq Tasks

VARIABLES
    registered,  \* the number of registered tasks
    forked,      \* the number of loops forked so far, in this order
    task,        \* task[i]: the task of loop i
    scope,       \* scope[i]: the caller into whose scope it was forked
    at,          \* at[i]: where loop i is
    asked,       \* the loops asked to end
    fibers,      \* the Ref that start adds to and shutdown empties
    pc,          \* pc[c]: where caller c is
    mine,        \* mine[c]: the loops its call is about
    next, last   \* the tasks its start has still to fork a loop for

calls == <<fibers, pc, mine, next, last>>
forks == <<forked, task, scope>>
vars == <<registered, forks, at, asked, calls>>

TypeOK ==
    /\ registered \in 0..MaxTasks
    /\ forked \in 0..MaxLoops
    /\ task \in [Loops -> Tasks \cup {0}]
    /\ scope \in [Loops -> Callers]
    /\ at \in [Loops -> {"none", "begin", "wait", "jitter", "run", "ended"}]
    /\ \A i \in Loops : at[i] = "none" <=> i > forked
    /\ \A i \in 1..forked : task[i] \in 1..registered
    /\ asked \subseteq 1..forked
    /\ fibers \subseteq 1..forked
    /\ pc \in [Callers -> {"idle", "starting", "started", "stopping", "waiting", "closing"}]
    /\ mine \in [Callers -> SUBSET (1..forked)]
    /\ next \in [Callers -> 1..MaxTasks + 1]
    /\ last \in [Callers -> 0..registered]

Init ==
    /\ registered = 0
    /\ forked = 0
    /\ task = [i \in Loops |-> 0]
    /\ scope \in [Loops -> Callers] /\ \A i, j \in Loops : scope[i] = scope[j]
    /\ at = [i \in Loops |-> "none"]
    /\ asked = {}
    /\ fibers = {}
    /\ pc = [c \in Callers |-> "idle"]
    /\ mine = [c \in Callers |-> {}]
    /\ next = [c \in Callers |-> 1]
    /\ last = [c \in Callers |-> 0]

Alive == {i \in Loops : at[i] \notin {"none", "ended"}}

Goto(c, label) == pc' = [pc EXCEPT ![c] = label]

-----------------------------------------------------------------------------
(* register: an expression that does not parse or never matches is refused. *)
Register ==
    /\ registered < MaxTasks
    /\ registered' = registered + 1
    /\ UNCHANGED <<forks, at, asked, calls>>

-----------------------------------------------------------------------------
(* start *)

(* tasks = Ref.get(registered) *)
StartBegins(c) ==
    /\ pc[c] \in {"idle", "started"}
    /\ forked + registered <= MaxLoops
    /\ Goto(c, "starting")
    /\ mine' = [mine EXCEPT ![c] = {}]
    /\ next' = [next EXCEPT ![c] = 1]
    /\ last' = [last EXCEPT ![c] = registered]
    /\ UNCHANGED <<registered, forks, at, asked, fibers>>

(* forkScoped(loop(task)) *)
Fork(c) ==
    /\ pc[c] = "starting" /\ next[c] <= last[c]
    /\ forked < MaxLoops
    /\ forked' = forked + 1
    /\ task' = [task EXCEPT ![forked + 1] = next[c]]
    /\ scope' = [scope EXCEPT ![forked + 1] = c]
    /\ at' = [at EXCEPT ![forked + 1] = "begin"]
    /\ mine' = [mine EXCEPT ![c] = mine[c] \cup {forked + 1}]
    /\ next' = [next EXCEPT ![c] = next[c] + 1]
    /\ UNCHANGED <<registered, asked, fibers, pc, last>>

(* Ref.update(fibers, ...) *)
StartEnds(c) ==
    /\ pc[c] = "starting" /\ next[c] > last[c]
    /\ Goto(c, "started")
    /\ fibers' = fibers \cup mine[c]
    /\ UNCHANGED <<registered, forks, at, asked, mine, next, last>>

-----------------------------------------------------------------------------
(* shutdown *)

\* Mutant: fibers that are in a run are left to finish by themselves.
ShutdownPeeks(c) ==
    /\ pc[c] \in {"idle", "started"}
    /\ Goto(c, "stopping")
    /\ mine' = [mine EXCEPT ![c] = {i \in fibers : at[i] # "run"}]
    /\ fibers' = {}
    /\ UNCHANGED <<registered, forks, at, asked, next, last>>

(* Ref.getAndSet(fibers, []) *)
ShutdownTakes(c) ==
    /\ pc[c] \in {"idle", "started"}
    /\ Goto(c, "stopping")
    /\ mine' = [mine EXCEPT ![c] = fibers]
    /\ fibers' = {}
    /\ UNCHANGED <<registered, forks, at, asked, next, last>>

(* Fiber.interruptAll(running), its first half *)
ShutdownAsks(c) ==
    /\ pc[c] = "stopping"
    /\ Goto(c, "waiting")
    /\ asked' = asked \cup mine[c]
    /\ UNCHANGED <<registered, forks, at, fibers, mine, next, last>>

\* Mutant: the fibers are interrupted but not awaited.
ShutdownReturnsEarly(c) ==
    /\ pc[c] = "waiting"
    /\ \A i \in mine[c] : i \in asked
    /\ Goto(c, "idle")
    /\ UNCHANGED <<registered, forks, at, asked, fibers, mine, next, last>>

(* its second half; with nothing taken shutdown returns at once *)
ShutdownReturns(c) ==
    /\ pc[c] = "waiting"
    /\ \A i \in mine[c] : at[i] = "ended"
    /\ Goto(c, "idle")
    /\ UNCHANGED <<registered, forks, at, asked, fibers, mine, next, last>>

-----------------------------------------------------------------------------
(* The scope of a caller closes; the caller may then open another. *)

InScope(c) == {i \in Alive : scope[i] = c}

CloseBegins(c) ==
    /\ pc[c] \in {"idle", "started"}
    /\ Goto(c, "closing")
    /\ UNCHANGED <<registered, forks, at, asked, fibers, mine, next, last>>

(* The finalizer of the youngest fiber left interrupts and awaits it. *)
CloseAsks(c) ==
    /\ pc[c] = "closing" /\ InScope(c) # {}
    /\ \E i \in InScope(c) \ asked :
         /\ \A j \in InScope(c) : j <= i
         /\ asked' = asked \cup {i}
    /\ UNCHANGED <<registered, forks, at, calls>>

CloseReturns(c) ==
    /\ pc[c] = "closing" /\ InScope(c) = {}
    /\ Goto(c, "idle")
    /\ UNCHANGED <<registered, forks, at, asked, fibers, mine, next, last>>

-----------------------------------------------------------------------------
(* A loop *)

Move(i, from, to) ==
    /\ at[i] = from
    /\ at' = [at EXCEPT ![i] = to]
    /\ UNCHANGED <<registered, forks, asked, calls>>

LoopBegins(i) ==
    i \notin asked /\ Move(i, "begin", IF task[i] \in OnStartup THEN "jitter" ELSE "wait")

CronMatches(i) == i \notin asked /\ Move(i, "wait", "jitter")

\* Mutant: one loop runs at a time.
RunBeginsAlone(i) ==
    i \notin asked /\ (\A j \in Loops : at[j] # "run") /\ Move(i, "jitter", "run")

RunBegins(i) == i \notin asked /\ Move(i, "jitter", "run")

(* The run succeeds, fails or dies; a pending interruption takes effect. *)
RunEnds(i) == Move(i, "run", IF i \in asked THEN "ended" ELSE "wait")

\* Mutant: a sleeping loop does not hear the interruption.
InterruptedAwake(i) == i \in asked /\ \E from \in {"begin", "jitter"} : Move(i, from, "ended")

Interrupted(i) ==
    i \in asked /\ \E from \in {"begin", "wait", "jitter"} : Move(i, from, "ended")

LoopStep(i) == LoopBegins(i) \/ CronMatches(i) \/ RunBegins(i) \/ Interrupted(i)

-----------------------------------------------------------------------------
CallStep(c) ==
    \/ Fork(c) \/ StartEnds(c) \/ ShutdownAsks(c) \/ ShutdownReturns(c)
    \/ CloseAsks(c) \/ CloseReturns(c)

Call(c) == ShutdownTakes(c) \/ CloseBegins(c) \/ CallStep(c)

Next ==
    \/ Register
    \/ \E c \in Callers : StartBegins(c) \/ Call(c)
    \/ \E i \in Loops : LoopStep(i) \/ RunEnds(i)

Spec == Init /\ [][Next]_vars

(* Callers take turns: nobody starts before whoever started last has shut   *)
(* down or closed its scope, and every call has returned.  Everybody may    *)
(* shut down at any time.                                                   *)
TurnsNext ==
    \/ Register
    \/ \E c \in Callers :
         \/ StartBegins(c) /\ \A d \in Callers : pc[d] = "idle"
         \/ Call(c)
    \/ \E i \in Loops : LoopStep(i) \/ RunEnds(i)

TurnsSpec == Init /\ [][TurnsNext]_vars

(* The runtime advances every fiber, every cron expression has a next match *)
(* (register has probed it), and runs end unless their task hangs.          *)
LiveSpec ==
    /\ TurnsSpec
    /\ \A c \in Callers : WF_vars(CallStep(c))
    /\ \A i \in Loops : WF_vars(LoopStep(i)) /\ WF_vars(RunEnds(i) /\ task[i] \notin Hanging)

-----------------------------------------------------------------------------
(* Properties *)

(* ScheduledTask: "Runs of one task never overlap".                         *)
NoOverlap ==
    \A i, j \in Loops : at[i] = "run" /\ at[j] = "run" /\ task[i] = task[j] => i = j

(* No loop escapes: while callers take turns a loop is always where whoever *)
(* is to end it will find it, and a start finds no loop alive but those it  *)
(* forks itself, one per task.                                              *)
InHand ==
    \A i \in Alive :
        \/ pc[scope[i]] = "closing"
        \/ pc[scope[i]] = "started" /\ i \in fibers
        \/ pc[scope[i]] = "starting" /\ i \in mine[scope[i]]
        \/ \E c \in Callers : pc[c] \in {"stopping", "waiting"} /\ i \in mine[c]

OneStarts ==
    \A c, d \in Callers : pc[c] = "starting" /\ pc[d] = "starting" => c = d

StartsFresh ==
    \A c \in Callers : pc[c] = "starting" => \A i \in Alive : task[i] < next[c]

OneLoop == \A i, j \in Alive : task[i] = task[j] => i = j

TurnsInv == InHand /\ OneStarts /\ StartsFresh /\ OneLoop

(* "a slow task never delays another": a loop runs its task again and again *)
(* until it is asked to end, even while a run of another task hangs.        *)
KeepsFiring ==
    \A i \in Loops :
        []<>(at[i] \in {"none", "run", "ended"} \/ i \in asked \/ task[i] \in Hanging)

(* shutdown and closing return, unless a run that hangs is waited for.      *)
StoppingEnds ==
    \A c \in Callers :
        pc[c] \in {"stopping", "waiting", "closing"}
            ~> \/ pc[c] \notin {"stopping", "waiting", "closing"}
               \/ \E i \in Loops : at[i] = "run" /\ task[i] \in Hanging
=============================================================================
