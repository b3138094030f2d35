-------------------------------- MODULE Debounce --------------------------------
(***************************************************************************)
(* makeDebounced of src/async/debounce.ts.                                 *)
(*                                                                         *)
(* A call (trigger or cancel) suspends in two places only: when it waits   *)
(* for the gate and when it waits for the pending fire it has interrupted  *)
(* to end.  What it does in between is one step.  A fire sleeps, is        *)
(* resumed some time after its timer has gone off, and then looks at       *)
(* disposed and calls back at once.  The scope's finalizers run in reverse *)
(* order: first they interrupt and await the fires, then they cancel.      *)
(***************************************************************************)
EXTENDS Naturals, FiniteSets

CONSTANTS
    Calls,     \* fibers that call trigger and cancel
    Closer,    \* the fiber that closes the scope
    MaxFires,  \* bound: fires forked
    None       \* no pending fire, no holder of the gate

Actors == Calls \cup {Closer}
Fires == 1..MaxFires

ASSUME DebounceAssumption ==
    MaxFires \in Nat /\ None \notin Nat /\ None \notin Actors /\ Closer \notin Calls

VARIABLES
    forked,    \* fires forked so far, in this order
    at,        \* at[i]: "none", "sleep", "due", "called" or "dropped"
    asked,     \* the fires asked to end
    pending,   \* the Ref of the pending fire
    disposed,  \* the Ref of that name
    closed,    \* the scope is closing or closed
    gate,      \* who holds the semaphore's permit
    pc,        \* pc[a]: "idle", "queued", "await" or, of the closer, "sweep", "done"
    op,        \* op[a]: the call a makes
    victim,    \* victim[a]: the fire its call has interrupted
    cut        \* fires interrupted by a trigger that was itself cut off

fires == <<forked, at, asked>>
vars == <<fires, pending, disposed, closed, gate, pc, op, victim, cut>>

Alive == {i \in Fires : at[i] \in {"sleep", "due"}}

TypeOK ==
    /\ forked \in 0..MaxFires
    /\ at \in [Fires -> {"none", "sleep", "due", "called", "dropped"}]
    /\ \A i \in Fires : at[i] = "none" <=> i > forked
    /\ asked \subseteq 1..forked /\ cut \subseteq asked
    /\ pending \in 1..forked \cup {None}
    /\ disposed \in BOOLEAN /\ closed \in BOOLEAN
    /\ gate \in Actors \cup {None}
    /\ pc \in [Actors -> {"idle", "queued", "await", "sweep", "done"}]
    /\ op \in [Actors -> {"trigger", "cancel"}]
    /\ victim \in [Actors -> 1..forked \cup {None}]
    /\ \A a \in Actors : gate = a <=> pc[a] = "await"
    /\ \A a \in Actors : pc[a] = "await" => victim[a] \in asked

Init ==
    /\ forked = 0
    /\ at = [i \in Fires |-> "none"]
    /\ asked = {} /\ cut = {}
    /\ pending = None
    /\ disposed = FALSE /\ closed = FALSE
    /\ gate = None
    /\ pc = [a \in Actors |-> "idle"]
    /\ op = [a \in Actors |-> "cancel"]
    /\ victim = [a \in Actors |-> None]

-----------------------------------------------------------------------------
(* trigger and cancel *)

Ends(a) == IF a = Closer THEN "done" ELSE "idle"

Triggering == {a \in Calls : pc[a] # "idle" /\ op[a] = "trigger"}

Call(a) ==
    /\ a \in Calls /\ pc[a] = "idle"
    /\ pc' = [pc EXCEPT ![a] = "queued"]
    /\ \E o \in {"trigger", "cancel"} :
         /\ o = "trigger" => forked + Cardinality(Triggering) < MaxFires
         /\ op' = [op EXCEPT ![a] = o]
    /\ UNCHANGED <<fires, pending, disposed, closed, gate, victim, cut>>

\* Mutant: the new fire is not recorded.
ForkUnrecorded ==
    /\ forked < MaxFires
    /\ forked' = forked + 1
    /\ at' = [at EXCEPT ![forked + 1] = "sleep"]
    /\ asked' = IF closed THEN asked \cup {forked + 1} ELSE asked
    /\ pending' = None

(* forkIn(fire, scope), which interrupts at once what is forked into a      *)
(* closed scope, and Ref.set(pending).                                      *)
Fork ==
    /\ forked < MaxFires
    /\ forked' = forked + 1
    /\ at' = [at EXCEPT ![forked + 1] = "sleep"]
    /\ asked' = IF closed THEN asked \cup {forked + 1} ELSE asked
    /\ pending' = forked + 1

(* The call ends; a trigger forks on its way out. *)
Leave(a) ==
    /\ pc' = [pc EXCEPT ![a] = Ends(a)]
    /\ gate' = None
    /\ IF op[a] = "trigger" THEN Fork ELSE UNCHANGED fires /\ pending' = None

(* if (yield* Ref.get(disposed)) return *)
Ignored(a) ==
    /\ pc[a] = "queued" /\ gate = None
    /\ op[a] = "trigger" /\ disposed
    /\ pc' = [pc EXCEPT ![a] = "idle"]
    /\ UNCHANGED <<fires, pending, disposed, closed, gate, op, victim, cut>>

(* The permit is granted; cancel disposes first of all. *)
Disposes(a) ==
    IF op[a] = "trigger" THEN ~disposed /\ UNCHANGED disposed ELSE disposed' = TRUE

(* interruptPending finds nothing. *)
Enter(a) ==
    /\ pc[a] = "queued" /\ gate = None
    /\ Disposes(a)
    /\ pending = None
    /\ Leave(a)
    /\ UNCHANGED <<closed, op, victim, cut>>

(* interruptPending takes the fire out of its Ref and asks it to end. *)
EnterInterrupts(a) ==
    /\ pc[a] = "queued" /\ gate = None
    /\ Disposes(a)
    /\ pending # None
    /\ pc' = [pc EXCEPT ![a] = "await"]
    /\ gate' = a
    /\ victim' = [victim EXCEPT ![a] = pending]
    /\ asked' = asked \cup {pending}
    /\ pending' = None
    /\ UNCHANGED <<forked, at, closed, op, cut>>

\* Mutant: a trigger that has dropped a fire forks no other.
AwaitedDrops(a) ==
    /\ pc[a] = "await" /\ victim[a] \notin Alive
    /\ pc' = [pc EXCEPT ![a] = Ends(a)]
    /\ gate' = None
    /\ UNCHANGED <<fires, pending, disposed, closed, op, victim, cut>>

Awaited(a) ==
    /\ pc[a] = "await" /\ victim[a] \notin Alive
    /\ Leave(a)
    /\ UNCHANGED <<disposed, closed, op, victim, cut>>

(* The fiber of a call is interrupted while it is suspended. *)
CallInterrupted(a) ==
    /\ a \in Calls /\ pc[a] \in {"queued", "await"}
    /\ pc' = [pc EXCEPT ![a] = "idle"]
    /\ gate' = IF gate = a THEN None ELSE gate
    /\ cut' = IF pc[a] = "await" THEN cut \cup {victim[a]} ELSE cut
    /\ UNCHANGED <<fires, pending, disposed, closed, op, victim>>

-----------------------------------------------------------------------------
(* The scope closes. *)

CloseBegins ==
    /\ pc[Closer] = "idle"
    /\ pc' = [pc EXCEPT ![Closer] = "sweep"]
    /\ closed' = TRUE
    /\ UNCHANGED <<fires, pending, disposed, gate, op, victim, cut>>

CloseAsks ==
    /\ pc[Closer] = "sweep"
    /\ \E i \in Alive \ asked :
         /\ \A j \in Alive : j <= i
         /\ asked' = asked \cup {i}
    /\ UNCHANGED <<forked, at, pending, disposed, closed, gate, pc, op, victim, cut>>

CloseCancels ==
    /\ pc[Closer] = "sweep" /\ Alive = {}
    /\ pc' = [pc EXCEPT ![Closer] = "queued"]
    /\ UNCHANGED <<fires, pending, disposed, closed, gate, op, victim, cut>>

-----------------------------------------------------------------------------
(* A fire *)

Move(i, from, to) ==
    /\ at[i] = from
    /\ at' = [at EXCEPT ![i] = to]
    /\ UNCHANGED <<forked, asked, pending, disposed, closed, gate, pc, op, victim, cut>>

TimerGoesOff(i) == i \notin asked /\ Move(i, "sleep", "due")

\* Mutant: a resumed fire does not look whether it has been interrupted.
ResumesDeaf(i) == Move(i, "due", IF disposed THEN "dropped" ELSE "called")

Resumes(i) == i \notin asked /\ Move(i, "due", IF disposed THEN "dropped" ELSE "called")

\* Mutant: a fire hears the interruption only when it is resumed.
InterruptedLate(i) == i \in asked /\ Move(i, "due", "dropped")

Interrupted(i) == i \in asked /\ \E from \in {"sleep", "due"} : Move(i, from, "dropped")

FireStep(i) == TimerGoesOff(i) \/ Resumes(i) \/ Interrupted(i)
-----------------------------------------------------------------------------
Proceed(a) == Ignored(a) \/ Enter(a) \/ EnterInterrupts(a) \/ Awaited(a)

Close == CloseBegins \/ CloseAsks \/ CloseCancels

Next ==
    \/ \E a \in Actors : Call(a) \/ Proceed(a) \/ CallInterrupted(a)
    \/ Close
    \/ \E i \in Fires : FireStep(i)

(* Timers go off and fibers run on; the semaphore serves its waiters in     *)
(* order, hence the strong fairness.  No one has to call or to close.       *)
Spec ==
    /\ Init /\ [][Next]_vars
    /\ \A a \in Actors : SF_vars(Proceed(a))
    /\ WF_vars(CloseAsks \/ CloseCancels)
    /\ \A i \in Fires : WF_vars(FireStep(i))

-----------------------------------------------------------------------------
(* Properties *)

(* "Two triggers landing at once must not each fork a pending fiber": a     *)
(* fire that may still call back is the one the Ref of the pending fire     *)
(* holds, even when a trigger is cut off half-way.                          *)
OnePending == \A i \in Alive \ asked : i = pending

(* cancel: "Drops the pending callback and disposes the debouncer".         *)
CancelSticks == disposed => Alive \subseteq asked

(* What makes the above inductive: the pending fire is the last one forked, *)
(* it is taken out of its Ref before the permit's holder suspends, and no   *)
(* cancel overtakes a trigger that holds the permit.                        *)
GateInv ==
    /\ pending \in {None, forked}
    /\ pending # None => gate = None
    /\ \A a \in Actors : pc[a] = "await" /\ op[a] = "trigger" => ~disposed

(* One fire is pending, none after a cancel; inductive with TypeOK.         *)
FireInv == OnePending /\ CancelSticks /\ GateInv

(* "the callback runs once the last trigger has been quiet": what calls     *)
(* back is the fire of the last trigger that got through, and none that a   *)
(* trigger or a cancel has begun to replace.                                *)
LatestFires ==
    [][\A i \in Fires : at[i] # "called" /\ at'[i] = "called" =>
          i = forked /\ gate = None /\ ~disposed]_vars

(* The callback of a trigger comes, unless a later trigger, a cancel or the *)
(* closing of the scope takes its place.  A trigger that is itself cut off  *)
(* while it waits for the old fire to end takes that down with it.          *)
FiresOrReplaced ==
    \A i \in Fires :
        at[i] = "sleep" ~>
            at[i] = "called" \/ forked > i \/ disposed \/ closed \/ i \in cut

(* Neither trigger nor cancel waits for ever, nor does the closing scope.   *)
CallsEnd ==
    \A a \in Actors : pc[a] \in {"queued", "await", "sweep"} ~> pc[a] \in {"idle", "done"}
=============================================================================
