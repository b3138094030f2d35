----------------------------- MODULE ProcRunProofs -----------------------------
(* Theorems about ProcRun: typing, permits, joins, and the mark of output   *)
(* that the budget cut short.                                               *)
EXTENDS ProcRun, FiniteSetTheorems, TLAPS

(* A child appears only under a permit, and its exit is seen after it has   *)
(* exited.                                                                  *)
ChildInv ==
    \A c \in Calls :
        /\ call[c] \in {"idle", "queued", "entered"} => leader[c] = "none"
        /\ exitSeen[c] => leader[c] = "gone"

(* The Ref is set before the signal. *)
MarkInv ==
    \A c \in Calls :
        /\ timer[c] = "set" => timedOut[c]
        /\ slain[c] => timedOut[c]

Holding == {c \in Calls : call[c] \in HasPermit}

(* Everything but the number of free permits. *)
Typing ==
    /\ free \in Nat
    /\ call \in [Calls -> CallStates]
    /\ outcome \in [Calls -> Outcomes]
    /\ aborted \in [Calls -> BOOLEAN]
    /\ interrupted \in [Calls -> BOOLEAN]
    /\ leader \in [Calls -> {"none", "up", "gone"}]
    /\ kid \in [Calls -> {"none", "group", "escaped"}]
    /\ exitSeen \in [Calls -> BOOLEAN]
    /\ undrained \in [Calls -> 0..2]
    /\ failed \in [Calls -> BOOLEAN]
    /\ watcher \in [Calls -> {"off", "armed", "grace", "killed"}]
    /\ timer \in [Calls -> {"off", "armed", "set", "fired"}]
    /\ timedOut \in [Calls -> BOOLEAN]
    /\ slain \in [Calls -> BOOLEAN]

(* A step of one call, of the fibers beside it, or of its child. *)
StepOf(c) ==
    Begin(c) \/ CallSteps(c) \/ WatcherSteps(c) \/ TimerSteps(c) \/ Events(c) \/ World(c)

LEMMA NextIsStep ==
    ASSUME [Next]_vars PROVE UNCHANGED vars \/ \E c \in Calls : StepOf(c)
  BY DEF Next, StepOf, AllDone

-----------------------------------------------------------------------------
(* What the signals do. *)
LEMMA SigTermTypes ==
    ASSUME Typing, NEW c \in Calls, SigTerm(c)
    PROVE  /\ leader' \in [Calls -> {"none", "up", "gone"}]
           /\ kid' \in [Calls -> {"none", "group", "escaped"}]
           /\ \A d \in Calls : leader'[d] # leader[d] => leader[d] = "up" /\ leader'[d] = "gone"
  BY DEF Typing, SigTerm

LEMMA SigKillTypes ==
    ASSUME Typing, NEW c \in Calls, SigKill(c)
    PROVE  /\ leader' \in [Calls -> {"none", "up", "gone"}]
           /\ kid' \in [Calls -> {"none", "group", "escaped"}]
           /\ \A d \in Calls : leader'[d] # leader[d] => leader[d] = "up" /\ leader'[d] = "gone"
  BY DEF Typing, SigKill

LEMMA TypingStep ==
    ASSUME Typing, NEW c \in Calls, StepOf(c) PROVE Typing'
  <1> USE DEF callVars, childVars, eventVars, fiberVars, requestVars, Move, End
  <1>1. CASE Begin(c)
    BY <1>1 DEF Typing, Begin, CallStates
  <1>2. CASE CallSteps(c)
    <2>1. CASE Take(c)
      BY <2>1 DEF Typing, Take, CallStates, HasPermit
    <2>2. CASE LeaveQueue(c)
      BY <2>2 DEF Typing, LeaveQueue, CallStates, Outcomes
    <2>3. CASE NoSpawn(c)
      BY <2>3 DEF Typing, NoSpawn, CallStates, HasPermit, Outcomes
    <2>4. CASE Spawn(c)
      BY <2>4 DEF Typing, Spawn, CallStates, HasPermit, Running
    <2>5. CASE SpawnErrors(c)
      BY <2>5 DEF Typing, SpawnErrors, CallStates, HasPermit, Outcomes
    <2>6. CASE Started(c)
      BY <2>6 DEF Typing, Started, CallStates, HasPermit, Running
    <2>7. CASE Terminate(c)
      BY <2>7, SigTermTypes DEF Typing, Terminate, CallStates, HasPermit, Running, Outcomes
    <2>8. CASE GraceEnds(c)
      BY <2>8, SigKillTypes DEF Typing, GraceEnds, CallStates, HasPermit, Running
    <2>9. CASE Terminated(c)
      BY <2>9 DEF Typing, Terminated, StopFibers, CallStates, HasPermit
    <2>10. CASE Joined(c)
      <3>1. /\ leader' \in [Calls -> {"none", "up", "gone"}]
            /\ kid' \in [Calls -> {"none", "group", "escaped"}]
        BY <2>10, SigTermTypes DEF Joined, Typing
      <3> QED  BY <2>10, <3>1 DEF Typing, Joined, StopFibers, CallStates, HasPermit, Outcomes
    <2>11. CASE Return(c)
      BY <2>11 DEF Typing, Return, CallStates
    <2> QED
      BY <1>2, <2>1, <2>2, <2>3, <2>4, <2>5, <2>6, <2>7, <2>8, <2>9, <2>10, <2>11
      DEF CallSteps
  <1>3. CASE WatcherSteps(c)
    <2>1. CASE AbortTerminates(c)
      BY <2>1, SigTermTypes DEF Typing, AbortTerminates
    <2>2. CASE AbortGraceEnds(c)
      BY <2>2, SigKillTypes DEF Typing, AbortGraceEnds
    <2> QED  BY <1>3, <2>1, <2>2 DEF WatcherSteps
  <1>4. CASE TimerSteps(c)
    <2>1. CASE BudgetExpires(c)
      BY <2>1 DEF Typing, BudgetExpires
    <2>2. CASE BudgetKills(c)
      <3>1. (slain[c] \/ GroupAlive(c)) \in BOOLEAN
        BY DEF Typing, GroupAlive
      <3> QED  BY <2>2, <3>1, SigKillTypes DEF Typing, BudgetKills
    <2> QED  BY <1>4, <2>1, <2>2 DEF TimerSteps
  <1>5. CASE Events(c)
    <2>1. CASE SeeExit(c)
      BY <2>1 DEF Typing, SeeExit
    <2>2. CASE SeeEnd(c)
      <3>1. undrained[c] - 1 \in 0..2
        BY <2>2 DEF Typing, SeeEnd
      <3> QED  BY <2>2, <3>1 DEF Typing, SeeEnd
    <2> QED  BY <1>5, <2>1, <2>2 DEF Events
  <1>6. CASE World(c)
    <2>1. CASE SeeReadError(c)
      <3>1. undrained[c] - 1 \in 0..2
        BY <2>1 DEF Typing, SeeReadError
      <3> QED  BY <2>1, <3>1, SigTermTypes DEF Typing, SeeReadError
    <2>2. CASE ChildExits(c) \/ KidActs(c)
      BY <2>2 DEF Typing, ChildExits, KidActs
    <2>3. CASE Abort(c) \/ Interrupt(c)
      BY <2>3 DEF Typing, Abort, Interrupt
    <2>4. CASE ClosesPipe(c)
      <3>1. undrained[c] - 1 \in 0..2
        BY <2>4 DEF Typing, ClosesPipe
      <3> QED  BY <2>4, <3>1 DEF Typing, ClosesPipe
    <2> QED  BY <1>6, <2>1, <2>2, <2>3, <2>4 DEF World
  <1> QED  BY <1>1, <1>2, <1>3, <1>4, <1>5, <1>6 DEF StepOf
-----------------------------------------------------------------------------
(* Permits *)

(* Only Take and Return change who has a permit, or how many are free. *)
LEMMA PermitMoves ==
    ASSUME Typing, NEW c \in Calls, StepOf(c)
    PROVE  Take(c) \/ Return(c) \/ (free' = free /\ Holding' = Holding)
  <1> USE DEF callVars, Move, HasPermit, Running, Typing, Holding
  <1>1. CASE call' = call /\ free' = free
    BY <1>1
  <1>2. CASE Begin(c) \/ LeaveQueue(c)
    BY <1>2 DEF Begin, LeaveQueue
  <1>3. CASE NoSpawn(c) \/ Spawn(c) \/ SpawnErrors(c) \/ Started(c)
    BY <1>3 DEF NoSpawn, Spawn, SpawnErrors, Started
  <1>4. CASE Terminate(c) \/ GraceEnds(c) \/ Terminated(c) \/ Joined(c)
    BY <1>4 DEF Terminate, GraceEnds, Terminated, Joined
  <1>5. CASE WatcherSteps(c) \/ TimerSteps(c) \/ Events(c) \/ World(c)
    BY <1>1, <1>5
    DEF WatcherSteps, AbortTerminates, AbortGraceEnds, TimerSteps, BudgetExpires,
        BudgetKills, Events, SeeExit, SeeEnd, World, ClosesPipe, SeeReadError, ChildExits, KidActs,
        Abort, Interrupt
  <1> QED  BY <1>2, <1>3, <1>4, <1>5 DEF StepOf, CallSteps

PermitCount == free + Cardinality(Holding) = Permits

LEMMA HoldingIsFinite == IsFiniteSet(Holding) /\ Cardinality(Holding) \in Nat
  BY RunAssumption, FS_Subset, FS_CardinalityType DEF Holding

LEMMA CountStep ==
    ASSUME Typing, PermitCount, NEW c \in Calls, StepOf(c) PROVE PermitCount'
  <1> USE DEF HasPermit, Running, Move
  <1>1. CASE Take(c)
    <2>1. c \notin Holding /\ Holding' = Holding \cup {c} /\ free' = free - 1
      BY <1>1 DEF Take, Holding, Typing
    <2>2. Cardinality(Holding') = Cardinality(Holding) + 1
      BY <2>1, HoldingIsFinite, FS_AddElement
    <2> QED  BY <2>1, <2>2, HoldingIsFinite DEF PermitCount, Typing
  <1>2. CASE Return(c)
    <2>1. c \in Holding /\ Holding' = Holding \ {c} /\ free' = free + 1
      BY <1>2 DEF Return, Holding, Typing
    <2>2. Cardinality(Holding') = Cardinality(Holding) - 1
      BY <2>1, HoldingIsFinite, FS_RemoveElement
    <2> QED  BY <2>1, <2>2, HoldingIsFinite DEF PermitCount, Typing
  <1>3. CASE free' = free /\ Holding' = Holding
    BY <1>3 DEF PermitCount
  <1> QED  BY <1>1, <1>2, <1>3, PermitMoves

-----------------------------------------------------------------------------
(* Children *)

JoinInv == ChildInv /\ EndsJoined

(* Only Spawn starts a leader; nothing revives one. *)
LEMMA LeaderMoves ==
    ASSUME Typing, NEW c \in Calls, StepOf(c)
    PROVE  \A d \in Calls :
             \/ leader'[d] = leader[d]
             \/ leader[d] = "up" /\ leader'[d] = "gone"
             \/ d = c /\ Spawn(c)
  <1> USE DEF childVars
  <1>1. CASE leader' = leader
    BY <1>1
  <1>2. CASE Begin(c) \/ Take(c) \/ LeaveQueue(c) \/ NoSpawn(c) \/ SpawnErrors(c)
             \/ Started(c) \/ Terminated(c) \/ Return(c) \/ BudgetExpires(c)
             \/ Events(c) \/ ClosesPipe(c) \/ KidActs(c) \/ Abort(c) \/ Interrupt(c)
    BY <1>1, <1>2
    DEF Begin, Take, LeaveQueue, NoSpawn, SpawnErrors, Started, Terminated, Return,
        BudgetExpires, Events, SeeExit, SeeEnd, ClosesPipe, KidActs, Abort, Interrupt
  <1>3. CASE Spawn(c)
    BY <1>3 DEF Spawn, Typing
  <1>4. CASE Terminate(c) \/ AbortTerminates(c) \/ SeeReadError(c)
    BY <1>4, SigTermTypes DEF Terminate, AbortTerminates, SeeReadError
  <1>5. CASE GraceEnds(c) \/ AbortGraceEnds(c) \/ BudgetKills(c)
    BY <1>5, SigKillTypes DEF GraceEnds, AbortGraceEnds, BudgetKills
  <1>6. CASE Joined(c)
    BY <1>6, SigTermTypes DEF Joined
  <1>7. CASE ChildExits(c)
    BY <1>7 DEF ChildExits, Typing
  <1> QED
    BY <1>2, <1>3, <1>4, <1>5, <1>6, <1>7
    DEF StepOf, CallSteps, WatcherSteps, TimerSteps, World

(* An event is seen once and stays seen. *)
LEMMA EventMoves ==
    ASSUME Typing, NEW c \in Calls, StepOf(c)
    PROVE  \A d \in Calls :
             /\ exitSeen[d] => exitSeen'[d]
             /\ exitSeen'[d] => exitSeen[d] \/ leader[d] = "gone"
             /\ undrained[d] = 0 => undrained'[d] = 0
  <1> USE DEF eventVars, Typing
  <1>1. CASE exitSeen' = exitSeen /\ undrained' = undrained
    BY <1>1
  <1>2. CASE Events(c) \/ ClosesPipe(c) \/ SeeReadError(c)
    BY <1>2 DEF Events, SeeExit, SeeEnd, ClosesPipe, SeeReadError
  <1>3. CASE ~(Events(c) \/ ClosesPipe(c) \/ SeeReadError(c))
    BY <1>1, <1>3
    DEF StepOf, Begin, CallSteps, Take, LeaveQueue, NoSpawn, Spawn, SpawnErrors, Started,
        Terminate, GraceEnds, Terminated, Joined, Return, WatcherSteps, AbortTerminates,
        AbortGraceEnds, TimerSteps, BudgetExpires, BudgetKills, World, ChildExits, KidActs,
        Abort, Interrupt
  <1> QED  BY <1>2, <1>3

(* A call is over only by way of its joins, or before it had a child. *)
LEMMA EndMoves ==
    ASSUME Typing, NEW c \in Calls, StepOf(c)
    PROVE  \A d \in Calls :
             \/ call'[d] = call[d]
             \/ d = c /\ call'[c] \in {"returning", "done"} /\
                  \/ call[c] \in {"queued", "entered"} \/ leader[c] = "none"
                  \/ Settled(c) \/ call[c] = "returning"
             \/ d = c /\ call'[c] = "queued" /\ call[c] = "idle"
             \/ d = c /\ call'[c] = "entered" /\ call[c] = "queued"
             \/ d = c /\ call'[c] \in Running
  <1> USE DEF callVars, Move, Running, Typing
  <1>1. CASE call' = call
    BY <1>1
  <1>2. CASE Begin(c) \/ Take(c) \/ LeaveQueue(c) \/ NoSpawn(c) \/ Spawn(c)
    BY <1>2 DEF Begin, Take, LeaveQueue, NoSpawn, Spawn
  <1>3. CASE SpawnErrors(c) \/ Started(c) \/ Terminate(c) \/ GraceEnds(c)
    BY <1>3 DEF SpawnErrors, Started, Terminate, GraceEnds
  <1>4. CASE Terminated(c) \/ Joined(c) \/ Return(c)
    BY <1>4 DEF Terminated, Joined, Return
  <1>5. CASE WatcherSteps(c) \/ TimerSteps(c) \/ Events(c) \/ World(c)
    BY <1>1, <1>5
    DEF WatcherSteps, AbortTerminates, AbortGraceEnds, TimerSteps, BudgetExpires,
        BudgetKills, Events, SeeExit, SeeEnd, World, ClosesPipe, SeeReadError, ChildExits, KidActs,
        Abort, Interrupt
  <1> QED  BY <1>2, <1>3, <1>4, <1>5 DEF StepOf, CallSteps

LEMMA JoinStep ==
    ASSUME Typing, JoinInv, NEW c \in Calls, StepOf(c) PROVE JoinInv'
  <1>1. ASSUME NEW d \in Calls, call'[d] \in {"idle", "queued", "entered"}
        PROVE  leader'[d] = "none"
    <2>1. call[d] \in {"idle", "queued", "entered"}
      BY <1>1, EndMoves DEF Running
    <2>2. leader[d] = "none"
      BY <2>1 DEF JoinInv, ChildInv
    <2>3. ~(d = c /\ Spawn(c))
      BY <1>1 DEF Spawn, Move, Typing
    <2> QED  BY <2>2, <2>3, LeaderMoves
  <1>2. ASSUME NEW d \in Calls, exitSeen'[d] PROVE leader'[d] = "gone"
    <2>1. leader[d] = "gone"
      BY <1>2, EventMoves DEF JoinInv, ChildInv
    <2>2. ~(d = c /\ Spawn(c))
      BY <2>1 DEF Spawn, Move, Typing, JoinInv, ChildInv
    <2> QED  BY <2>1, <2>2, LeaderMoves
  <1>3. ASSUME NEW d \in Calls, call'[d] \in {"returning", "done"}, leader'[d] # "none"
        PROVE  leader'[d] = "gone" /\ exitSeen'[d] /\ undrained'[d] = 0
    <2>1. ~(d = c /\ Spawn(c))
      BY <1>3 DEF Spawn, Move, Typing
    <2>2. leader[d] # "none"
      BY <1>3, <2>1, LeaderMoves
    <2>3. Settled(d)
      BY <1>3, <2>2, EndMoves DEF JoinInv, ChildInv, EndsJoined, Running, Settled
    <2>4. Settled(d)'
      BY <2>3, EventMoves DEF Settled
    <2> QED  BY <1>2, <2>4 DEF Settled
  <1> QED  BY <1>1, <1>2, <1>3 DEF JoinInv, ChildInv, EndsJoined

-----------------------------------------------------------------------------
(* Marks *)

LEMMA MarkStep ==
    ASSUME Typing, MarkInv, NEW c \in Calls, StepOf(c) PROVE MarkInv'
  <1> USE DEF fiberVars, Typing, MarkInv
  <1>1. CASE timer' = timer /\ timedOut' = timedOut /\ slain' = slain
    BY <1>1
  <1>2. CASE TimerSteps(c)
    BY <1>2 DEF TimerSteps, BudgetExpires, BudgetKills
  <1>3. CASE Started(c) \/ Terminated(c) \/ Joined(c)
    BY <1>3 DEF Started, Terminated, Joined, StopFibers
  <1>4. CASE ~(TimerSteps(c) \/ Started(c) \/ Terminated(c) \/ Joined(c))
    BY <1>1, <1>4
    DEF StepOf, Begin, CallSteps, Take, LeaveQueue, NoSpawn, Spawn, SpawnErrors, Terminate,
        GraceEnds, Return, WatcherSteps, AbortTerminates, AbortGraceEnds, Events, SeeExit,
        SeeEnd, World, ClosesPipe, SeeReadError, ChildExits, KidActs, Abort, Interrupt
  <1> QED  BY <1>2, <1>3, <1>4

-----------------------------------------------------------------------------
(* The inductive invariant *)
RunInv == Typing /\ PermitCount /\ JoinInv /\ MarkInv

LEMMA RunInvInit == Init => RunInv
  <1> SUFFICES ASSUME Init PROVE RunInv
    OBVIOUS
  <1>1. Typing
    BY RunAssumption DEF Init, Typing, CallStates, Outcomes
  <1>2. PermitCount
    <2>1. Holding = {}
      BY DEF Init, Holding, HasPermit, Running
    <2> QED  BY <2>1, FS_EmptySet, RunAssumption DEF Init, PermitCount
  <1>3. JoinInv
    BY DEF Init, JoinInv, ChildInv, EndsJoined
  <1>4. MarkInv
    BY DEF Init, MarkInv
  <1> QED  BY <1>1, <1>2, <1>3, <1>4 DEF RunInv

LEMMA RunInvStep == RunInv /\ [Next]_vars => RunInv'
  <1> SUFFICES ASSUME RunInv, [Next]_vars PROVE RunInv'
    OBVIOUS
  <1>1. CASE UNCHANGED vars
    BY <1>1
    DEF RunInv, Typing, PermitCount, Holding, JoinInv, ChildInv, EndsJoined, Settled,
        MarkInv, vars
  <1>2. ASSUME NEW c \in Calls, StepOf(c) PROVE RunInv'
    BY <1>2, TypingStep, CountStep, JoinStep, MarkStep DEF RunInv
  <1> QED  BY <1>1, <1>2, NextIsStep

(* Typing, the count of permits, and what makes the joins and the mark of   *)
(* the budget inductive, hold in every reachable state.                     *)
THEOREM RunInvariant == Spec => []RunInv
  BY RunInvInit, RunInvStep, PTL DEF Spec

(* Every reachable state is well typed; in particular the permits free are  *)
(* never fewer than none nor more than there are.                           *)
THEOREM TypeCorrect == Spec => []TypeOK
  <1>1. RunInv => TypeOK
    BY HoldingIsFinite, RunAssumption DEF RunInv, Typing, PermitCount, TypeOK
  <1> QED  BY <1>1, RunInvariant, PTL

(* However calls are cancelled, no permit is lost or made up, and a child   *)
(* lives only under a permit of its call.                                   *)
THEOREM PermitsBalance == Spec => []PermitsAreSlots
  <1>1. RunInv => PermitsAreSlots
    <2> SUFFICES ASSUME RunInv PROVE PermitsAreSlots
      OBVIOUS
    <2>1. free + Cardinality({c \in Calls : call[c] \in HasPermit}) = Permits
      BY DEF RunInv, PermitCount, Holding
    <2>2. ASSUME NEW c \in Calls, leader[c] = "up" PROVE call[c] \in HasPermit
      BY <2>2
      DEF RunInv, Typing, JoinInv, ChildInv, EndsJoined, CallStates, HasPermit, Running
    <2> QED  BY <2>1, <2>2 DEF PermitsAreSlots
  <1> QED  BY <1>1, RunInvariant, PTL

(* A call is over only when the child it ran is gone, its exit has been     *)
(* seen, and each of its two captures has settled, also when one of them,   *)
(* the caller, or both fail.                                                *)
THEOREM CallsEndJoined == Spec => []EndsJoined
  <1>1. RunInv => EndsJoined
    BY DEF RunInv, JoinInv
  <1> QED  BY <1>1, RunInvariant, PTL

(* runOk never passes output for an answer that the budget cut short. *)
THEOREM CutIsMarked == Spec => []CutOutputIsMarked
  <1>1. RunInv => CutOutputIsMarked
    BY DEF RunInv, MarkInv, CutOutputIsMarked, RunOk, Typing, Outcomes
  <1> QED  BY <1>1, RunInvariant, PTL
=============================================================================
