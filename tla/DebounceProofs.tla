---------------------------- MODULE DebounceProofs ----------------------------
(* Theorems about Debounce: typing, the single pending fire, and what a      *)
(* callback follows.                                                         *)
EXTENDS Debounce, TLAPS

(* Fires are counted in order, so only forked ones are alive. *)
LEMMA AliveForked == TypeOK => Alive \subseteq 1..forked
  BY DebounceAssumption DEF TypeOK, Alive, Fires

(* A fork adds one fire, the last. *)
LEMMA ForkShape ==
    ASSUME TypeOK, Fork
    PROVE  /\ forked' = forked + 1 /\ forked' \in 1..MaxFires /\ pending' = forked'
           /\ forked' \notin Alive
           /\ Alive' = Alive \cup {forked'}
           /\ asked' = IF closed THEN asked \cup {forked'} ELSE asked
           /\ at' \in [Fires -> {"none", "sleep", "due", "called", "dropped"}]
           /\ \A i \in Fires : at'[i] = "none" <=> i > forked'
  BY DebounceAssumption DEF TypeOK, Fork, Alive, Fires

(* What the last step of a call does to the fires. *)
LEMMA LeaveShape ==
    ASSUME TypeOK, NEW a \in Actors, Leave(a)
    PROVE  /\ gate' = None
           /\ pc' = [pc EXCEPT ![a] = Ends(a)]
           /\ \/ op[a] = "trigger" /\ Fork
              \/ op[a] = "cancel" /\ UNCHANGED fires /\ pending' = None
  BY DEF TypeOK, Leave

LEMMA LeaveTypes ==
    ASSUME TypeOK, NEW a \in Actors, Leave(a), gate \in {None, a},
           disposed' \in BOOLEAN, UNCHANGED <<closed, op, victim, cut>>
    PROVE  TypeOK'
  <1> USE DebounceAssumption
  <1>1. /\ pc' \in [Actors -> {"idle", "queued", "await", "sweep", "done"}]
        /\ \A b \in Actors : pc'[b] # "await"
        /\ \A b \in Actors : gate' # b
    BY LeaveShape DEF TypeOK, Ends, Actors
  <1>2. /\ forked' \in 0..MaxFires /\ forked <= forked'
        /\ at' \in [Fires -> {"none", "sleep", "due", "called", "dropped"}]
        /\ \A i \in Fires : at'[i] = "none" <=> i > forked'
        /\ asked \subseteq asked' /\ asked' \subseteq 1..forked'
        /\ pending' \in 1..forked' \cup {None}
    <2>1. CASE Fork
      <3>1. forked \in Nat /\ forked' = forked + 1 /\ forked' \in 1..MaxFires
        BY <2>1, ForkShape DEF TypeOK
      <3>2. 1..forked \subseteq 1..forked' /\ forked' \in 1..forked'
        BY <3>1
      <3>3. forked' \in 0..MaxFires /\ forked <= forked'
        BY <3>1
      <3>4. asked \subseteq 1..forked
        BY DEF TypeOK
      <3>5. asked \subseteq asked' /\ asked' \subseteq 1..forked'
        BY <2>1, <3>2, <3>4, ForkShape
      <3>6. pending' \in 1..forked' \cup {None}
        BY <2>1, <3>2, ForkShape
      <3>7. /\ at' \in [Fires -> {"none", "sleep", "due", "called", "dropped"}]
            /\ \A i \in Fires : at'[i] = "none" <=> i > forked'
        BY <2>1, ForkShape
      <3> QED  BY <3>3, <3>5, <3>6, <3>7
    <2>2. CASE UNCHANGED fires /\ pending' = None
      BY <2>2 DEF TypeOK, fires
    <2> QED  BY <2>1, <2>2, LeaveShape
  <1>3. victim' \in [Actors -> 1..forked' \cup {None}]
    <2>1. 1..forked \subseteq 1..forked'
      BY <1>2 DEF TypeOK
    <2> QED  BY <2>1 DEF TypeOK
  <1> QED  BY <1>1, <1>2, <1>3, LeaveShape DEF TypeOK

LEMMA TypeStep == TypeOK /\ [Next]_vars => TypeOK'
  <1> SUFFICES ASSUME TypeOK, [Next]_vars PROVE TypeOK'
    OBVIOUS
  <1> USE DebounceAssumption
  <1>1. ASSUME NEW a \in Actors, Call(a) PROVE TypeOK'
    BY <1>1 DEF TypeOK, Call, fires
  <1>2. ASSUME NEW a \in Actors, Ignored(a) PROVE TypeOK'
    BY <1>2 DEF TypeOK, Ignored, fires
  <1>3. ASSUME NEW a \in Actors, Enter(a) PROVE TypeOK'
    BY <1>3, LeaveTypes DEF TypeOK, Enter, Disposes
  <1>4. ASSUME NEW a \in Actors, EnterInterrupts(a) PROVE TypeOK'
    <2>1. pending \in 1..forked /\ disposed' \in BOOLEAN
      BY <1>4 DEF TypeOK, EnterInterrupts, Disposes
    <2>2. /\ pc' = [pc EXCEPT ![a] = "await"] /\ gate' = a
          /\ victim' = [victim EXCEPT ![a] = pending]
          /\ asked' = asked \cup {pending} /\ pending' = None
          /\ \A b \in Actors : pc[b] # "await"
          /\ UNCHANGED <<forked, at, closed, op, cut>>
      BY <1>4 DEF TypeOK, EnterInterrupts
    <2>3. \A b \in Actors : gate' = b <=> pc'[b] = "await"
      BY <2>2 DEF TypeOK
    <2>4. \A b \in Actors : pc'[b] = "await" => victim'[b] \in asked'
      BY <2>2 DEF TypeOK
    <2> QED  BY <2>1, <2>2, <2>3, <2>4 DEF TypeOK
  <1>5. ASSUME NEW a \in Actors, Awaited(a) PROVE TypeOK'
    <2>1. gate = a /\ disposed' \in BOOLEAN
      BY <1>5 DEF TypeOK, Awaited
    <2> QED  BY <1>5, <2>1, LeaveTypes DEF Awaited
  <1>6. ASSUME NEW a \in Actors, CallInterrupted(a) PROVE TypeOK'
    BY <1>6 DEF TypeOK, CallInterrupted, fires
  <1>7. CASE CloseBegins \/ CloseCancels
    <2>1. Closer \in Actors
      BY DEF Actors
    <2>2. /\ pc' \in [Actors -> {"idle", "queued", "await", "sweep", "done"}]
          /\ \A a \in Actors : pc'[a] = "await" <=> pc[a] = "await"
      BY <1>7, <2>1 DEF TypeOK, CloseBegins, CloseCancels
    <2>3. /\ UNCHANGED <<forked, at, asked, pending, disposed, gate, op, victim, cut>>
          /\ closed' \in BOOLEAN
      BY <1>7 DEF TypeOK, CloseBegins, CloseCancels, fires
    <2> QED  BY <2>2, <2>3 DEF TypeOK
  <1>8. CASE CloseAsks
    <2>1. PICK i \in Alive : asked' = asked \cup {i}
      BY <1>8 DEF CloseAsks
    <2> QED  BY <1>8, <2>1, AliveForked DEF TypeOK, CloseAsks
  <1>9. ASSUME NEW i \in Fires, FireStep(i) PROVE TypeOK'
    <2>1. /\ at[i] \in {"sleep", "due"}
          /\ \E to \in {"due", "called", "dropped"} : at' = [at EXCEPT ![i] = to]
          /\ UNCHANGED <<forked, asked, pending, disposed, closed, gate, pc, op, victim, cut>>
      BY <1>9 DEF FireStep, TimerGoesOff, Resumes, Interrupted, Move
    <2>2. /\ at' \in [Fires -> {"none", "sleep", "due", "called", "dropped"}]
          /\ \A j \in Fires : at'[j] = "none" <=> at[j] = "none"
      BY <2>1 DEF TypeOK
    <2> QED  BY <2>1, <2>2 DEF TypeOK
  <1>10. CASE UNCHANGED vars
    BY <1>10 DEF TypeOK, vars, fires
  <1> QED
    BY <1>1, <1>2, <1>3, <1>4, <1>5, <1>6, <1>7, <1>8, <1>9, <1>10 DEF Next, Proceed, Close

LEMMA TypeInit == Init => TypeOK
  <1> SUFFICES ASSUME Init PROVE TypeOK
    OBVIOUS
  <1> USE DebounceAssumption
  <1>1. forked \in 0..MaxFires /\ asked \subseteq 1..forked /\ cut \subseteq asked
    BY DEF Init
  <1>2. /\ at \in [Fires -> {"none", "sleep", "due", "called", "dropped"}]
        /\ \A i \in Fires : at[i] = "none" <=> i > forked
    BY DEF Init, Fires
  <1>3. \A a \in Actors : gate # a /\ pc[a] # "await"
    BY DEF Init
  <1> QED  BY <1>1, <1>2, <1>3 DEF Init, TypeOK

(* Every reachable state is well typed: the permit is held by exactly the   *)
(* call that waits for the fire it has interrupted.                         *)
THEOREM TypeCorrect == Spec => []TypeOK
  BY TypeInit, TypeStep, PTL DEF Spec

-----------------------------------------------------------------------------
LEMMA LeaveKeeps ==
    ASSUME TypeOK, FireInv, NEW a \in Actors, Leave(a), pending = None,
           gate \in {None, a}, UNCHANGED op,
           op[a] = "trigger" => ~disposed'
    PROVE  FireInv'
  <1> USE DebounceAssumption
  <1>1. Alive \subseteq asked
    BY AliveForked DEF FireInv, OnePending, TypeOK
  <1>2. \A b \in Actors : pc'[b] # "await"
    BY LeaveShape DEF TypeOK, Ends, Actors
  <1>3. CASE op[a] = "trigger" /\ Fork
    BY <1>1, <1>2, <1>3, ForkShape, LeaveShape DEF FireInv, OnePending, CancelSticks, GateInv
  <1>4. CASE UNCHANGED fires /\ pending' = None
    BY <1>1, <1>2, <1>4, LeaveShape
       DEF FireInv, OnePending, CancelSticks, GateInv, fires, Alive
  <1> QED  BY <1>3, <1>4, LeaveShape

LEMMA FireInvStep == TypeOK /\ FireInv /\ [Next]_vars => FireInv'
  <1> SUFFICES ASSUME TypeOK, FireInv, [Next]_vars PROVE FireInv'
    OBVIOUS
  <1> USE DebounceAssumption DEF FireInv, OnePending, CancelSticks, GateInv
  <1>1. ASSUME NEW a \in Actors, Call(a) PROVE FireInv'
    BY <1>1 DEF TypeOK, Call, fires, Alive
  <1>2. ASSUME NEW a \in Actors, Ignored(a) PROVE FireInv'
    BY <1>2 DEF TypeOK, Ignored, fires, Alive
  <1>3. ASSUME NEW a \in Actors, Enter(a) PROVE FireInv'
    BY <1>3, LeaveKeeps DEF Enter, Disposes
  <1>4. ASSUME NEW a \in Actors, EnterInterrupts(a) PROVE FireInv'
    <2>1. Alive' = Alive /\ asked' = asked \cup {pending} /\ pending' = None /\ forked' = forked
      BY <1>4 DEF EnterInterrupts, Alive
    <2>2. \A b \in Actors : pc[b] # "await"
      BY <1>4 DEF TypeOK, EnterInterrupts
    <2>3. op[a] = "trigger" => ~disposed'
      BY <1>4 DEF EnterInterrupts, Disposes
    <2> QED  BY <1>4, <2>1, <2>2, <2>3 DEF TypeOK, EnterInterrupts
  <1>5. ASSUME NEW a \in Actors, Awaited(a) PROVE FireInv'
    <2>1. gate = a /\ pending = None /\ (op[a] = "trigger" => ~disposed)
      BY <1>5 DEF TypeOK, Awaited, Actors
    <2> QED  BY <1>5, <2>1, LeaveKeeps DEF Awaited
  <1>6. ASSUME NEW a \in Actors, CallInterrupted(a) PROVE FireInv'
    BY <1>6 DEF TypeOK, CallInterrupted, fires, Alive
  <1>7. CASE CloseBegins \/ CloseCancels
    BY <1>7 DEF TypeOK, CloseBegins, CloseCancels, fires, Alive
  <1>8. CASE CloseAsks
    BY <1>8 DEF CloseAsks, Alive
  <1>9. ASSUME NEW i \in Fires, FireStep(i) PROVE FireInv'
    <2>1. /\ Alive' \subseteq Alive
          /\ UNCHANGED <<forked, asked, pending, disposed, closed, gate, pc, op, victim, cut>>
      BY <1>9 DEF TypeOK, FireStep, TimerGoesOff, Resumes, Interrupted, Move, Alive
    <2> QED  BY <2>1
  <1>10. CASE UNCHANGED vars
    BY <1>10 DEF vars, fires, Alive
  <1> QED
    BY <1>1, <1>2, <1>3, <1>4, <1>5, <1>6, <1>7, <1>8, <1>9, <1>10 DEF Next, Proceed, Close

LEMMA FireInvInit == Init => FireInv
  BY DEF Init, FireInv, OnePending, CancelSticks, GateInv, Alive

(* However calls overlap and whichever are cut off, at most one fire may    *)
(* still call back, and after a cancel none may.                            *)
THEOREM OnePendingFire == Spec => []FireInv
  <1>1. TypeOK /\ FireInv /\ [Next]_vars => (TypeOK /\ FireInv)'
    BY TypeStep, FireInvStep
  <1> QED  BY <1>1, TypeInit, FireInvInit, PTL DEF Spec

(* A callback is always that of the last trigger, and never comes while a   *)
(* trigger is being replaced or after a cancel.                             *)
THEOREM CallsBackLatest == Spec => LatestFires
  <1> DEFINE Step == \A i \in Fires : at[i] # "called" /\ at'[i] = "called" =>
                        i = forked /\ gate = None /\ ~disposed
  <1>1. TypeOK /\ FireInv /\ [Next]_vars => (TypeOK /\ FireInv)'
    BY TypeStep, FireInvStep
  <1>2. TypeOK /\ FireInv /\ [Next]_vars => [Step]_vars
    <2> SUFFICES ASSUME TypeOK, FireInv, Next, NEW i \in Fires,
                        at[i] # "called", at'[i] = "called"
                 PROVE  i = forked /\ gate = None /\ ~disposed
      BY DEF vars, fires
    <2>1. Resumes(i)
      <3>1. ASSUME NEW a \in Actors, Enter(a) \/ Awaited(a) PROVE at'[i] # "called"
        BY <3>1 DEF TypeOK, Enter, Awaited, Leave, Fork, fires
      <3>2. ASSUME NEW a \in Actors,
                   Call(a) \/ Ignored(a) \/ EnterInterrupts(a) \/ CallInterrupted(a)
            PROVE  at' = at
        BY <3>2 DEF Call, Ignored, EnterInterrupts, CallInterrupted, fires
      <3>3. Close => at' = at
        BY DEF Close, CloseBegins, CloseAsks, CloseCancels, fires
      <3>4. ASSUME NEW j \in Fires, FireStep(j), ~Resumes(i) PROVE at'[i] # "called"
        BY <3>4 DEF TypeOK, FireStep, TimerGoesOff, Resumes, Interrupted, Move
      <3> QED  BY <3>1, <3>2, <3>3, <3>4 DEF Next, Proceed
    <2>2. i \in Alive \ asked /\ ~disposed
      BY <2>1 DEF Resumes, Move, Alive, TypeOK
    <2>3. pending = i /\ pending # None
      BY <2>2, DebounceAssumption DEF FireInv, OnePending, Fires
    <2> QED  BY <2>2, <2>3 DEF FireInv, GateInv
  <1> QED  BY <1>1, <1>2, TypeInit, FireInvInit, PTL DEF Spec, LatestFires
=============================================================================
