---------------------------- MODULE SchedulerProofs ----------------------------
(* Theorems about Scheduler: typing of every behaviour, and that runs of    *)
(* one task never overlap while callers take turns.                         *)
EXTENDS Scheduler, TLAPS

(* Moves of loops and calls, and what they leave alone. *)
LEMMA MoveTypes ==
    ASSUME TypeOK, NEW i \in Loops, NEW from, NEW to, Move(i, from, to),
           from \in {"begin", "wait", "jitter", "run"},
           to \in {"wait", "jitter", "run", "ended"}
    PROVE  TypeOK'
  BY SchedulerAssumption DEF TypeOK, Move, forks, calls, Loops

LEMMA CallTypes ==
    ASSUME TypeOK, NEW c \in Callers, NEW l, Goto(c, l),
           l \in {"idle", "starting", "started", "stopping", "waiting", "closing"}
    PROVE  pc' \in [Callers -> {"idle", "starting", "started", "stopping", "waiting", "closing"}]
  BY DEF TypeOK, Goto

LEMMA ForkTypes == ASSUME TypeOK, NEW c \in Callers, Fork(c) PROVE TypeOK'
  <1> USE SchedulerAssumption
  <1>1. forked + 1 \in Loops /\ forked' = forked + 1 /\ forked' \in 0..MaxLoops
    BY DEF TypeOK, Fork, Loops
  <1>2. next[c] \in 1..registered /\ next[c] \in Tasks
    BY DEF TypeOK, Fork, Tasks
  <1>3. task' \in [Loops -> Tasks \cup {0}] /\ \A i \in 1..forked' : task'[i] \in 1..registered'
    BY <1>1, <1>2 DEF TypeOK, Fork, Loops
  <1>4. scope' \in [Loops -> Callers]
    BY DEF TypeOK, Fork
  <1>5. /\ at' \in [Loops -> {"none", "begin", "wait", "jitter", "run", "ended"}]
        /\ \A i \in Loops : at'[i] = "none" <=> i > forked'
    BY <1>1 DEF TypeOK, Fork, Loops
  <1>6. asked' \subseteq 1..forked' /\ fibers' \subseteq 1..forked'
    BY <1>1 DEF TypeOK, Fork
  <1>7. mine' \in [Callers -> SUBSET (1..forked')]
    <2>1. SUBSET (1..forked) \subseteq SUBSET (1..forked') /\ forked + 1 \in 1..forked'
      BY <1>1 DEF TypeOK
    <2>2. mine[c] \cup {forked + 1} \in SUBSET (1..forked')
      BY <1>1, <2>1 DEF TypeOK
    <2> QED  BY <2>1, <2>2 DEF TypeOK, Fork
  <1>8. next' \in [Callers -> 1..MaxTasks + 1]
    <2>1. next[c] + 1 \in 1..MaxTasks + 1
      BY <1>2 DEF Tasks
    <2> QED  BY <2>1 DEF TypeOK, Fork
  <1> QED  BY <1>1, <1>3, <1>4, <1>5, <1>6, <1>7, <1>8 DEF TypeOK, Fork

LEMMA TypeStep == TypeOK /\ [Next]_vars => TypeOK'
  <1> SUFFICES ASSUME TypeOK, [Next]_vars PROVE TypeOK'
    OBVIOUS
  <1> USE SchedulerAssumption
  <1>1. CASE Register
    BY <1>1 DEF TypeOK, Register, forks, calls, Tasks
  <1>2. ASSUME NEW c \in Callers, StartBegins(c) PROVE TypeOK'
    BY <1>2, CallTypes DEF TypeOK, StartBegins, forks
  <1>3. ASSUME NEW c \in Callers, Fork(c) PROVE TypeOK'
    BY <1>3, ForkTypes
  <1>4. ASSUME NEW c \in Callers, StartEnds(c) PROVE TypeOK'
    BY <1>4, CallTypes DEF TypeOK, StartEnds, forks
  <1>5. ASSUME NEW c \in Callers, ShutdownTakes(c) PROVE TypeOK'
    BY <1>5, CallTypes DEF TypeOK, ShutdownTakes, forks
  <1>6. ASSUME NEW c \in Callers, ShutdownAsks(c) PROVE TypeOK'
    BY <1>6, CallTypes DEF TypeOK, ShutdownAsks, forks
  <1>7. ASSUME NEW c \in Callers, ShutdownReturns(c) \/ CloseBegins(c) \/ CloseReturns(c)
        PROVE  TypeOK'
    BY <1>7, CallTypes DEF TypeOK, ShutdownReturns, CloseBegins, CloseReturns, forks
  <1>8. ASSUME NEW c \in Callers, CloseAsks(c) PROVE TypeOK'
    <2>1. InScope(c) \subseteq 1..forked
      BY DEF TypeOK, InScope, Alive, Loops
    <2> QED  BY <1>8, <2>1 DEF TypeOK, CloseAsks, forks, calls
  <1>9. ASSUME NEW i \in Loops, LoopStep(i) \/ RunEnds(i) PROVE TypeOK'
    BY <1>9, MoveTypes DEF LoopStep, LoopBegins, CronMatches, RunBegins, Interrupted, RunEnds
  <1>10. CASE UNCHANGED vars
    BY <1>10 DEF TypeOK, vars, forks, calls
  <1> QED
    BY <1>1, <1>2, <1>3, <1>4, <1>5, <1>6, <1>7, <1>8, <1>9, <1>10
       DEF Next, Call, CallStep

LEMMA TypeInit == Init => TypeOK
  BY SchedulerAssumption DEF Init, TypeOK, Loops, Tasks

(* Every reachable state of the scheduler is well typed: loops are forked   *)
(* in order, each for a registered task, and only forked loops are asked to *)
(* end or held by anyone.                                                   *)
THEOREM TypeCorrect == Spec => []TypeOK
  BY TypeInit, TypeStep, PTL DEF Spec

-----------------------------------------------------------------------------
LEMMA TurnsIsNext == TurnsNext => Next
  BY DEF TurnsNext, Next

(* A step of a loop brings no loop to life and leaves the calls alone. *)
LEMMA LoopKeepsTurns ==
    ASSUME TypeOK, TurnsInv, NEW i \in Loops, LoopStep(i) \/ RunEnds(i)
    PROVE  TurnsInv'
  <1>1. /\ Alive' \subseteq Alive
        /\ UNCHANGED <<registered, forked, task, scope, fibers, pc, mine, next, last>>
    BY DEF TypeOK, Alive, LoopStep, LoopBegins, CronMatches, RunBegins, Interrupted, RunEnds,
           Move, forks, calls
  <1> QED
    BY <1>1 DEF TurnsInv, InHand, OneStarts, StartsFresh, OneLoop

(* When every caller is idle no loop is alive. *)
LEMMA IdleMeansDown ==
    ASSUME TypeOK, TurnsInv, \A d \in Callers : pc[d] = "idle" PROVE Alive = {}
  BY DEF TypeOK, TurnsInv, InHand, Alive

(* A start forks one loop per task, into its own hands. *)
LEMMA ForkKeepsTurns ==
    ASSUME TypeOK, TurnsInv, NEW c \in Callers, Fork(c) PROVE TurnsInv'
  <1> USE SchedulerAssumption
  <1> DEFINE f == forked + 1
  <1>1. f \in Loops /\ f \notin Alive /\ Alive' = Alive \cup {f}
    BY DEF TypeOK, Fork, Alive, Loops
  <1>2. /\ task'[f] = next[c] /\ scope'[f] = c /\ f \in mine'[c] /\ pc[c] = "starting"
        /\ \A i \in Alive : task'[i] = task[i] /\ scope'[i] = scope[i]
        /\ next'[c] = next[c] + 1
        /\ \A d \in Callers : mine[d] \subseteq mine'[d]
        /\ pc' = pc /\ fibers' = fibers
    BY <1>1 DEF TypeOK, Fork, Alive
  <1>3. \A i \in Alive : task[i] < next[c] /\ task[i] \in Nat /\ next[c] \in Nat
    BY <1>2 DEF TypeOK, TurnsInv, StartsFresh, Alive, Tasks
  <1>4. InHand'
    BY <1>1, <1>2 DEF TurnsInv, InHand, TypeOK, Alive
  <1>5. OneStarts'
    BY <1>2 DEF TurnsInv, OneStarts
  <1>6. StartsFresh'
    <2> SUFFICES ASSUME NEW d \in Callers, pc[d] = "starting", NEW i \in Alive'
                 PROVE  task'[i] < next'[d]
      BY <1>2 DEF StartsFresh
    <2>1. d = c
      BY <1>2 DEF TurnsInv, OneStarts
    <2>2. next[c] \in Nat
      BY DEF TypeOK
    <2> QED  BY <1>1, <1>2, <1>3, <2>1, <2>2
  <1>7. OneLoop'
    BY <1>1, <1>2, <1>3 DEF TurnsInv, OneLoop
  <1> QED  BY <1>4, <1>5, <1>6, <1>7 DEF TurnsInv

LEMMA TurnsStep == TypeOK /\ TurnsInv /\ [TurnsNext]_vars => TurnsInv'
  <1> SUFFICES ASSUME TypeOK, TurnsInv, [TurnsNext]_vars PROVE TurnsInv'
    OBVIOUS
  <1> USE DEF TurnsInv, InHand, OneStarts, StartsFresh, OneLoop
  <1>1. CASE Register
    BY <1>1 DEF Register, Alive, forks, calls
  <1>2. ASSUME NEW c \in Callers, StartBegins(c), \A d \in Callers : pc[d] = "idle"
        PROVE  TurnsInv'
    <2>1. Alive' = {}
      BY <1>2, IdleMeansDown DEF StartBegins, Alive
    <2>2. \A d \in Callers : pc'[d] = "starting" => d = c
      BY <1>2 DEF TypeOK, StartBegins, Goto
    <2> QED  BY <2>1, <2>2
  <1>3. ASSUME NEW c \in Callers, Fork(c) PROVE TurnsInv'
    BY <1>3, ForkKeepsTurns
  <1>4. ASSUME NEW c \in Callers, StartEnds(c) PROVE TurnsInv'
    BY <1>4 DEF TypeOK, StartEnds, Goto, Alive, forks
  <1>5. ASSUME NEW c \in Callers, ShutdownTakes(c) PROVE TurnsInv'
    BY <1>5 DEF TypeOK, ShutdownTakes, Goto, Alive, forks
  <1>6. ASSUME NEW c \in Callers, ShutdownAsks(c) PROVE TurnsInv'
    BY <1>6 DEF TypeOK, ShutdownAsks, Goto, Alive, forks
  <1>7. ASSUME NEW c \in Callers, ShutdownReturns(c) PROVE TurnsInv'
    BY <1>7 DEF TypeOK, ShutdownReturns, Goto, Alive, forks
  <1>8. ASSUME NEW c \in Callers, CloseBegins(c) PROVE TurnsInv'
    BY <1>8 DEF TypeOK, CloseBegins, Goto, Alive, forks
  <1>9. ASSUME NEW c \in Callers, CloseAsks(c) PROVE TurnsInv'
    BY <1>9 DEF CloseAsks, Alive, forks, calls
  <1>10. ASSUME NEW c \in Callers, CloseReturns(c) PROVE TurnsInv'
    BY <1>10 DEF TypeOK, CloseReturns, InScope, Goto, Alive, forks
  <1>11. ASSUME NEW i \in Loops, LoopStep(i) \/ RunEnds(i) PROVE TurnsInv'
    BY <1>11, LoopKeepsTurns
  <1>12. CASE UNCHANGED vars
    BY <1>12 DEF vars, Alive, forks, calls
  <1> QED
    BY <1>1, <1>2, <1>3, <1>4, <1>5, <1>6, <1>7, <1>8, <1>9, <1>10, <1>11, <1>12
       DEF TurnsNext, Call, CallStep

(* While callers take turns no loop escapes those that are to end it, and   *)
(* no two loops of one task are alive.                                      *)
THEOREM TurnsInvariant == TurnsSpec => [](TypeOK /\ TurnsInv)
  <1>1. Init => TypeOK /\ TurnsInv
    <2>1. Init => Alive = {} /\ \A c \in Callers : pc[c] = "idle"
      BY DEF Init, Alive
    <2> QED  BY <2>1, TypeInit DEF TurnsInv, InHand, OneStarts, StartsFresh, OneLoop
  <1>2. TypeOK /\ TurnsInv /\ [TurnsNext]_vars => (TypeOK /\ TurnsInv)'
    BY TurnsStep, TypeStep, TurnsIsNext
  <1> QED  BY <1>1, <1>2, PTL DEF TurnsSpec

(* ScheduledTask: runs of one task never overlap, whoever shuts down when,  *)
(* as long as nobody starts before the last one to start has stopped.       *)
THEOREM RunsNeverOverlap == TurnsSpec => []NoOverlap
  <1>1. TurnsInv => NoOverlap
    BY DEF TurnsInv, OneLoop, NoOverlap, Alive
  <1> QED  BY <1>1, TurnsInvariant, PTL
=============================================================================
