------------------------------- MODULE CliProofs -------------------------------
(***************************************************************************)
(* What a program under runMain may rely on, proved of Cli.  A program     *)
(* performs one operation: each step of it is a step or an interruption of *)
(* that operation's module, and leaves the other operations where their    *)
(* modules' initial states have them.  So every operation keeps the        *)
(* invariant that its own steps keep, and from them, with one more about   *)
(* the fiber, follow the promises of runMain.                              *)
(***************************************************************************)
EXTENDS Cli, FiniteSetTheorems, SequenceTheorems, WellFoundedInduction, TLAPS

-----------------------------------------------------------------------------
(* What a step of the program is to each of the operations. *)
PartSteps ==
    /\ Proc!Uninterrupted \/ Proc!Interrupt \/ UNCHANGED procVars
    /\ [Port!Next \/ Port!Interrupt]_portVars
    /\ [Scan!Next \/ Scan!Interrupt]_scanVars
    /\ [Request!Next \/ Request!Interrupt]_requestVars
    /\ [Read!Next \/ Read!Interrupt]_readVars
    /\ [Log!Next \/ Log!Interrupt]_logVars
    /\ [Settings!Next \/ Settings!Interrupt]_configVars

LEMMA PartsStep == ASSUME [Next]_vars PROVE PartSteps
<1> USE DEF PartSteps, StreamOnly, ProbeOnly, ScanOnly, RequestOnly, ReadOnly, LogOnly,
            ConfigOnly, Is
<1>1. CASE Step
  BY <1>1 DEF Step
<1>2. CASE ProgramEnds
  BY <1>2 DEF ProgramEnds
<1>3. CASE FlushEnds
  BY <1>3 DEF FlushEnds
<1>4. CASE Signal
  BY <1>4 DEF Signal, InterruptOperation
<1>5. CASE InterruptsItself
  BY <1>5 DEF InterruptsItself
<1>6. CASE UNCHANGED vars
  BY <1>6 DEF vars
<1> QED BY <1>1, <1>2, <1>3, <1>4, <1>5, <1>6 DEF Next

-----------------------------------------------------------------------------
(* Streamed runs *)

StreamTyped ==
    /\ kind \in {"own", "foreign"}
    /\ call \in Proc!Living \cup {"idle", "done"}
    /\ interrupted \in BOOLEAN
    /\ leader \in {"none", "up", "exited", "signalled"}
    /\ exitSeen \in BOOLEAN /\ heard \in BOOLEAN
    /\ drain \in [Streams -> {"off", "reading", "ended", "failed", "stopped"}]

(* Lines are read while the call joins, of a child of its own. *)
ReadsJoining == \A s \in Streams : drain[s] = "reading" => call = "joining"

(* An exit that was heard was seen, one that was seen has come, and a call  *)
(* that is over had no child or saw its exit.                               *)
ExitsSeen ==
    /\ heard => exitSeen
    /\ exitSeen => Proc!Dead
    /\ kind = "own" /\ call = "idle" => leader = "none"
    /\ call = "done" /\ leader # "none" => exitSeen
    /\ ended = "interrupted" => interrupted

StreamInv == StreamTyped /\ ReadsJoining /\ ExitsSeen

LEMMA StreamInitial == ASSUME Proc!Init PROVE StreamInv
<1>1. drain \in [Streams -> {"off"}]
  BY DEF Proc!Init
<1> QED BY <1>1 DEF Proc!Init, StreamInv, StreamTyped, ReadsJoining, ExitsSeen,
           Proc!Living

(* A step that begins no reading, and ends none of a call that goes on.     *)
LEMMA CallStepKeeps ==
    ASSUME StreamInv,
           Proc!Begin \/ Proc!SpawnErrors \/ Proc!Started \/ Proc!Joined \/
           Proc!Terminate \/ Proc!GraceEnds \/ Proc!Terminated
             \/ Proc!TerminateSubprocess
    PROVE  StreamInv'
<1> USE DEF StreamInv, Proc!Move, Proc!Living, Proc!Begin, Proc!SpawnErrors,
            Proc!Started, Proc!Joined, Proc!Terminate, Proc!GraceEnds,
            Proc!Terminated, Proc!TerminateSubprocess
<1>0. /\ drain \in [Streams -> {"off", "reading", "ended", "failed", "stopped"}]
      /\ interrupted \in BOOLEAN /\ exitSeen \in BOOLEAN /\ heard \in BOOLEAN
      /\ leader \in {"none", "up", "exited", "signalled"}
      /\ kind \in {"own", "foreign"}
  BY DEF StreamTyped
<1>1. UNCHANGED <<kind, interrupted, exitSeen, heard>>
  BY DEF Proc!eventVars
<1>2. StreamTyped'
  <2>1. call' \in Proc!Living \cup {"idle", "done"}
    OBVIOUS
  <2>2. leader' \in {"none", "up", "exited", "signalled"}
    BY <1>0 DEF Proc!childVars, Proc!TermGroup, Proc!TermLeader, Proc!KillGroup,
           Proc!KillLeader
  <2>3. drain' \in [Streams -> {"off", "reading", "ended", "failed", "stopped"}]
    BY <1>0 DEF Proc!StopFibers
  <2> QED BY <1>0, <1>1, <2>1, <2>2, <2>3 DEF StreamTyped
<1>3. ReadsJoining'
  <2> SUFFICES ASSUME NEW s \in Streams, drain'[s] = "reading" PROVE call' = "joining"
    BY DEF ReadsJoining
  <2> QED BY <1>0 DEF ReadsJoining, Proc!StopFibers
<1>4. /\ leader' # leader => leader' \in {"exited", "signalled"} \/ call' = "starting"
      /\ leader = "none" /\ call # "idle" => leader' = "none"
      /\ leader \in {"exited", "signalled"} /\ ~(kind = "own" /\ call = "idle") =>
             leader' = leader
  BY <1>0 DEF Proc!childVars, Proc!TermGroup, Proc!TermLeader, Proc!KillGroup,
         Proc!KillLeader
<1>5. call' # "idle" /\ (call' = "done" => leader' = "none" \/ exitSeen)
  BY <1>0 DEF ExitsSeen, Proc!ExitCode, Proc!childVars
<1>6. ended' = "interrupted" => interrupted
  BY DEF ExitsSeen
<1>7. ExitsSeen'
  BY <1>0, <1>1, <1>4, <1>5, <1>6 DEF ExitsSeen, Proc!Dead
<1> QED BY <1>2, <1>3, <1>7

LEMMA ChildStepKeeps ==
    ASSUME StreamInv,
           Proc!DeadlineFires \/ Proc!SeeExit \/ Proc!ChildWrites \/ Proc!ChildExits \/
             Proc!KidActs \/ Proc!Interrupt \/ UNCHANGED procVars
    PROVE  StreamInv'
<1> USE DEF StreamInv, Proc!DeadlineFires, Proc!SeeExit, Proc!ChildWrites,
            Proc!ChildExits, Proc!KidActs
<1>0. /\ interrupted \in BOOLEAN /\ exitSeen \in BOOLEAN /\ heard \in BOOLEAN
      /\ leader \in {"none", "up", "exited", "signalled"}
  BY DEF StreamTyped
<1>1. UNCHANGED <<kind, call, ended, drain>>
  BY DEF Proc!Interrupt, procVars, Proc!callVars
<1>2. /\ leader' \in {"none", "up", "exited", "signalled"}
      /\ leader = "none" => leader' = "none"
      /\ leader' = "none" => leader = "none"
      /\ leader \in {"exited", "signalled"} => leader' = leader
  BY <1>0 DEF Proc!Interrupt, procVars, Proc!childVars, Proc!KillGroup, Proc!KillLeader
<1>3. CASE Proc!SeeExit
  <2>1. /\ Proc!Dead /\ exitSeen' = TRUE /\ heard' \in BOOLEAN
        /\ UNCHANGED <<interrupted, leader>>
    BY <1>3 DEF Proc!childVars
  <2>2. StreamTyped'
    BY <1>1, <1>2, <2>1 DEF StreamTyped
  <2> QED BY <1>1, <2>1, <2>2 DEF ReadsJoining, ExitsSeen, Proc!Dead
<1>4. CASE Proc!Interrupt
  <2>1. interrupted' = TRUE /\ UNCHANGED <<exitSeen, heard>>
    BY <1>4 DEF Proc!Interrupt, Proc!eventVars
  <2>2. StreamTyped'
    BY <1>0, <1>1, <1>2, <2>1 DEF StreamTyped
  <2> QED BY <1>1, <1>2, <2>1, <2>2 DEF ReadsJoining, ExitsSeen, Proc!Dead
<1>5. CASE ~Proc!SeeExit /\ ~Proc!Interrupt
  <2>1. UNCHANGED <<interrupted, exitSeen, heard>>
    BY <1>5 DEF procVars, Proc!eventVars
  <2>2. StreamTyped'
    BY <1>0, <1>1, <1>2, <2>1 DEF StreamTyped
  <2> QED BY <1>1, <1>2, <2>1, <2>2 DEF ReadsJoining, ExitsSeen, Proc!Dead
<1> QED BY <1>3, <1>4, <1>5

LEMMA DrainStepKeeps ==
    ASSUME StreamInv, NEW s \in Streams, Proc!Data(s) \/ Proc!End(s) \/ Proc!ReadFails(s)
    PROVE  StreamInv' /\ call = "joining" /\ UNCHANGED <<call, ended>>
<1> USE DEF StreamInv
<1>1. /\ UNCHANGED <<kind, call, ended, interrupted, leader, exitSeen, heard>>
      /\ drain[s] = "reading"
  BY DEF Proc!Data, Proc!End, Proc!ReadFails, Proc!callVars, Proc!childVars,
         Proc!eventVars
<1>2. \/ UNCHANGED drain
      \/ drain' = [drain EXCEPT ![s] = "failed"]
      \/ drain' = [drain EXCEPT ![s] = "ended"]
  BY DEF Proc!Data, Proc!End, Proc!ReadFails
<1>3. drain \in [Streams -> {"off", "reading", "ended", "failed", "stopped"}]
  BY DEF StreamTyped
<1>4. /\ drain' \in [Streams -> {"off", "reading", "ended", "failed", "stopped"}]
      /\ \A p \in Streams : drain'[p] = "reading" => drain[p] = "reading"
  BY <1>2, <1>3
<1>5. StreamTyped' /\ ReadsJoining'
  BY <1>1, <1>4 DEF StreamTyped, ReadsJoining
<1>6. ExitsSeen'
  BY <1>1 DEF ExitsSeen, Proc!Dead
<1> QED BY <1>1, <1>5, <1>6 DEF ReadsJoining

LEMMA StreamStep ==
    ASSUME StreamInv, Proc!Uninterrupted \/ Proc!Interrupt \/ UNCHANGED procVars
    PROVE  StreamInv'
  BY CallStepKeeps, ChildStepKeeps, DrainStepKeeps DEF Proc!Uninterrupted,
         Proc!CallSteps, Proc!World

(* The lines are read by the drains of a call that joins. *)
LEMMA LinesJoining ==
    ASSUME StreamInv, Proc!Uninterrupted \/ Proc!Interrupt \/ UNCHANGED procVars,
           lines' # lines
    PROVE  call = "joining"
<1>1. PICK s \in Streams : Proc!Data(s) \/ Proc!End(s)
  BY DEF Proc!Uninterrupted, Proc!CallSteps, Proc!World, Proc!Interrupt, procVars,
         Proc!Begin, Proc!SpawnErrors, Proc!Started, Proc!Joined,
         Proc!Terminate, Proc!GraceEnds, Proc!Terminated, Proc!TerminateSubprocess,
         Proc!DeadlineFires, Proc!SeeExit,
         Proc!ChildWrites, Proc!ChildExits, Proc!KidActs, Proc!ReadFails, Proc!readVars
<1> QED BY <1>1, DrainStepKeeps

(* How a call has ended stays, and only an interruption ends one as such.   *)
LEMMA StreamEnded ==
    ASSUME StreamInv, call = "done", Proc!Uninterrupted \/ Proc!Interrupt \/
           UNCHANGED procVars
    PROVE  UNCHANGED <<call, ended>>
<1>1. CASE \E s \in Streams : Proc!Data(s) \/ Proc!End(s) \/ Proc!ReadFails(s)
  BY <1>1, DrainStepKeeps
<1>2. CASE ~ \E s \in Streams : Proc!Data(s) \/ Proc!End(s) \/ Proc!ReadFails(s)
  BY <1>2 DEF Proc!Uninterrupted, Proc!CallSteps, Proc!World, Proc!Interrupt, procVars,
         Proc!Begin, Proc!SpawnErrors, Proc!Started,
         Proc!Joined, Proc!Terminate, Proc!GraceEnds, Proc!Terminated,
         Proc!TerminateSubprocess, Proc!DeadlineFires, Proc!SeeExit,
         Proc!ChildWrites, Proc!ChildExits, Proc!KidActs, Proc!Move, Proc!callVars,
         Proc!Living
<1> QED BY <1>1, <1>2

LEMMA InterruptedStays ==
    ASSUME StreamInv, Proc!Uninterrupted \/ UNCHANGED procVars
    PROVE  UNCHANGED interrupted
  BY DEF Proc!Uninterrupted, Proc!CallSteps, Proc!World, procVars, Proc!Begin,
         Proc!SpawnErrors, Proc!Started, Proc!Joined, Proc!Terminate,
         Proc!GraceEnds, Proc!Terminated, Proc!TerminateSubprocess, Proc!DeadlineFires,
         Proc!SeeExit, Proc!ChildWrites,
         Proc!ChildExits, Proc!KidActs, Proc!ReadFails, Proc!Data, Proc!End

LEMMA StreamJoined == ASSUME StreamInv PROVE Proc!EndsJoined
  BY DEF StreamInv, ExitsSeen, Proc!EndsJoined

(* onLine is called while the call joins: never once it terminates its      *)
(* child or has returned, whatever the chunks, the signals and the exits.   *)
THEOREM NoLineIsLate == Spec => NoLateLine
<1>1. Init => StreamInv
  BY StreamInitial DEF Init
<1>2. StreamInv /\ [Next]_vars => StreamInv'
  BY StreamStep, PartsStep DEF PartSteps
<1>3. StreamInv /\ [Next]_vars => [lines' # lines => call = "joining"]_Proc!vars
  BY LinesJoining, PartsStep DEF PartSteps
<1> QED BY <1>1, <1>2, <1>3, PTL DEF Spec, NoLateLine, Proc!NoLateLine

(* A failed or interrupted call, and a terminated handover, is over only    *)
(* when the child is dead and Node has reported it.                         *)
THEOREM EndsAreJoined == Spec => []Proc!EndsJoined
<1>1. Init => StreamInv
  BY StreamInitial DEF Init
<1>2. StreamInv /\ [Next]_vars => StreamInv'
  BY StreamStep, PartsStep DEF PartSteps
<1> QED BY <1>1, <1>2, StreamJoined, PTL DEF Spec

-----------------------------------------------------------------------------
(* Numbers and turns *)

(* Every set of numbers has a least one.                                    *)
LEMMA Least ==
    ASSUME NEW T, T \subseteq Nat, T # {}
    PROVE  \E m \in T : \A k \in T : m <= k
<1> DEFINE R == OpToRel(<, Nat)
<1>1. IsWellFoundedOn(R, Nat)
  BY NatLessThanWellFounded
<1>2. \A x, y \in Nat : x < y => <<x, y>> \in R
  BY DEF R, OpToRel
<1> HIDE DEF R
<1>3. PICK x \in T : \A y \in T : ~ (<<y, x>> \in R)
  BY <1>1, WFMin
<1>4. ASSUME NEW y \in T PROVE x <= y
  <2>1. x \in Nat /\ y \in Nat /\ ~(y < x)
    BY <1>2, <1>3
  <2> QED BY <2>1
<1> QED BY <1>4

(* What holds at first, and after each turn before which it holds, holds    *)
(* after all of them.                                                       *)
LEMMA AllTurns ==
    ASSUME NEW last \in Nat, NEW Good,
           0 \in Good, \A i \in 1..last : i - 1 \in Good => i \in Good
    PROVE  \A i \in 0..last : i \in Good
<1> DEFINE T == (0..last) \ Good
<1>1. SUFFICES ASSUME T # {} PROVE FALSE
  OBVIOUS
<1>2. PICK m \in T : \A k \in T : m <= k
  <2>1. T \subseteq Nat
    OBVIOUS
  <2> HIDE DEF T
  <2> QED BY <1>1, <2>1, Least
<1>3. m \in 1..last
  BY <1>2
<1>4. m - 1 \in 0..last /\ ~(m <= m - 1)
  BY <1>3
<1>5. m - 1 \in Good
  BY <1>2, <1>4
<1> QED BY <1>2, <1>3, <1>5

-----------------------------------------------------------------------------
(* The states of a drain that is fed a chunk, token by token.               *)
Feeding(fed, acc, chunk) ==
    /\ fed[0] = acc
    /\ \A n \in 1..Len(chunk) : fed[n] = Proc!Feed(fed[n - 1], chunk[n])

LEMMA FedStates ==
    ASSUME NEW acc, NEW chunk, Len(chunk) \in Nat
    PROVE  \E fed : Feeding(fed, acc, chunk) /\ Proc!FeedAll(acc, chunk) = fed[Len(chunk)]
<1> DEFINE Loop(f, m) ==
             f = [n \in 0..m |-> IF n = 0 THEN acc ELSE Proc!Feed(f[n - 1], chunk[n])]
           Good == {m \in 0..Len(chunk) : \E f : Loop(f, m)}
<1>1. 0 \in Good
  <2> DEFINE f == [n \in 0..0 |-> acc]
  <2>1. f = [n \in 0..0 |-> IF n = 0 THEN acc ELSE Proc!Feed(f[n - 1], chunk[n])]
    OBVIOUS
  <2>2. Loop(f, 0)
    BY <2>1
  <2> HIDE DEF Loop, f
  <2> QED BY <2>2
<1>2. ASSUME NEW m \in 1..Len(chunk), m - 1 \in Good PROVE m \in Good
  <2>1. PICK f : Loop(f, m - 1)
    BY <1>2
  <2> DEFINE g == [n \in 0..m |-> IF n = m THEN Proc!Feed(f[m - 1], chunk[m]) ELSE f[n]]
  <2>2. \A n \in 0..(m - 1) : f[n] = IF n = 0 THEN acc ELSE Proc!Feed(f[n - 1], chunk[n])
    BY <2>1
  <2>3. ASSUME NEW n \in 0..m
        PROVE  g[n] = IF n = 0 THEN acc ELSE Proc!Feed(g[n - 1], chunk[n])
    <3>1. CASE n = m
      <4>1. m # 0 /\ m - 1 \in 0..m /\ m - 1 # m
        OBVIOUS
      <4>2. g[m - 1] = f[m - 1] /\ g[m] = Proc!Feed(f[m - 1], chunk[m])
        BY <4>1
      <4> HIDE DEF g
      <4> QED BY <3>1, <4>1, <4>2
    <3>2. CASE n # m
      <4>1. n \in 0..(m - 1) /\ (n # 0 => n - 1 \in 0..m /\ n - 1 # m)
        BY <3>2
      <4>2. g[n] = f[n] /\ (n # 0 => g[n - 1] = f[n - 1])
        BY <3>2, <4>1
      <4> HIDE DEF g
      <4> QED BY <2>2, <4>1, <4>2
    <3> QED BY <3>1, <3>2
  <2>4. DOMAIN g = 0..m /\ g = [n \in 0..m |-> g[n]]
    OBVIOUS
  <2> HIDE DEF g
  <2>5. Loop(g, m)
    BY <2>3, <2>4
  <2>6. m \in 0..Len(chunk)
    OBVIOUS
  <2> HIDE DEF Loop
  <2> QED BY <2>5, <2>6
<1>3. Len(chunk) \in Good
  <2> HIDE DEF Good
  <2>1. \A m \in 0..Len(chunk) : m \in Good
    BY <1>1, <1>2, AllTurns
  <2> QED BY <2>1
<1> DEFINE fed == CHOOSE f : Loop(f, Len(chunk))
<1>4. Loop(fed, Len(chunk))
  <2>1. \E f : Loop(f, Len(chunk))
    BY <1>3
  <2> HIDE DEF Loop
  <2> QED BY <2>1
<1>5. Proc!FeedAll(acc, chunk) = fed[Len(chunk)]
  BY DEF Proc!FeedAll
<1> HIDE DEF fed
<1>6. \A n \in 0..Len(chunk) :
         fed[n] = IF n = 0 THEN acc ELSE Proc!Feed(fed[n - 1], chunk[n])
  BY <1>4
<1>7. /\ 0 \in 0..Len(chunk)
      /\ \A n \in 1..Len(chunk) : n \in 0..Len(chunk) /\ n # 0
  OBVIOUS
<1>8. Feeding(fed, acc, chunk)
  BY <1>6, <1>7 DEF Feeding
<1> QED BY <1>5, <1>8

-----------------------------------------------------------------------------
(* Texts and their lines *)

Text == Seq(Proc!Tokens)

(* A drain has read a text: it has reported the whole lines and kept the    *)
(* rest.                                                                    *)
Split(text, acc) ==
    /\ acc \in [lines : Seq(Nat), buffer : Nat]
    /\ Len(acc.lines) = Cardinality(Proc!Breaks(text))
    /\ \A n \in 1..Len(acc.lines) : acc.lines[n] = Proc!Line(text, n)
    /\ acc.buffer = Proc!Line(text, Len(acc.lines) + 1)
    /\ Len(acc.lines) + acc.buffer <= Len(text)

(* The characters of a line.                                                *)
Chars(text, n) ==
    {i \in DOMAIN text \ Proc!Breaks(text) : Cardinality(Proc!BreaksBefore(text, i)) = n - 1}

LEMMA SameCount == ASSUME NEW S PROVE Proc!Cardinality(S) = Cardinality(S)
  BY DEF Proc!Cardinality, Cardinality

LEMMA TextFinite ==
    ASSUME NEW text \in Text
    PROVE  Len(text) \in Nat /\ DOMAIN text = 1..Len(text) /\ IsFiniteSet(DOMAIN text)
<1>1. Len(text) \in Nat /\ DOMAIN text = 1..Len(text)
  BY DEF Text
<1>2. 1 \in Int /\ Len(text) \in Int
  BY <1>1
<1> QED BY <1>1, <1>2, FS_Interval

LEMMA BreaksFinite ==
    ASSUME NEW text \in Text
    PROVE  IsFiniteSet(Proc!Breaks(text)) /\ Cardinality(Proc!Breaks(text)) \in Nat
<1>1. Proc!Breaks(text) \in SUBSET DOMAIN text
  BY DEF Proc!Breaks
<1> QED BY <1>1, TextFinite, FS_Subset, FS_CardinalityType

LEMMA CharsFinite ==
    ASSUME NEW text \in Text, NEW n
    PROVE  /\ IsFiniteSet(Chars(text, n)) /\ Cardinality(Chars(text, n)) \in Nat
           /\ Proc!Line(text, n) = Cardinality(Chars(text, n))
<1>1. Chars(text, n) \in SUBSET DOMAIN text
  BY DEF Chars
<1>2. Proc!Line(text, n) = Cardinality(Chars(text, n))
  <2>1. \A i : Proc!Cardinality(Proc!BreaksBefore(text, i)) =
                 Cardinality(Proc!BreaksBefore(text, i))
    BY SameCount
  <2>2. Chars(text, n) = {i \in DOMAIN text \ Proc!Breaks(text) :
                            Proc!Cardinality(Proc!BreaksBefore(text, i)) = n - 1}
    BY <2>1 DEF Chars
  <2> QED BY <2>2, SameCount DEF Proc!Line
<1>3. IsFiniteSet(Chars(text, n))
  BY <1>1, TextFinite, FS_Subset
<1>4. Cardinality(Chars(text, n)) \in Nat
  BY <1>3, FS_CardinalityType
<1> QED BY <1>2, <1>3, <1>4

LEMMA FewBefore ==
    ASSUME NEW text \in Text, NEW i
    PROVE  /\ Cardinality(Proc!BreaksBefore(text, i)) \in Nat
           /\ Cardinality(Proc!BreaksBefore(text, i)) <= Cardinality(Proc!Breaks(text))
<1>1. Proc!BreaksBefore(text, i) \in SUBSET Proc!Breaks(text)
  BY DEF Proc!BreaksBefore
<1> QED BY <1>1, BreaksFinite, FS_Subset, FS_CardinalityType

LEMMA NothingRead == Split(<<>>, [lines |-> <<>>, buffer |-> 0])
<1> DEFINE none == << >>
<1>0. none \in Text /\ none \in Seq(Nat) /\ DOMAIN none = {} /\ Len(none) = 0
  BY DEF Text
<1> HIDE DEF none
<1>1. Proc!Breaks(none) = {} /\ Chars(none, 1) = {}
  BY <1>0 DEF Proc!Breaks, Chars
<1>2. Cardinality({}) = 0
  BY FS_EmptySet
<1>3. Proc!Line(none, 1) = 0
  BY <1>0, <1>1, <1>2, CharsFinite
<1>4. Split(none, [lines |-> none, buffer |-> 0])
  BY <1>0, <1>1, <1>2, <1>3 DEF Split
<1> QED BY <1>4 DEF none

(* What one more token is to the breaks and the lines of a text.            *)
LEMMA OneMore ==
    ASSUME NEW text \in Text, NEW token \in Proc!Tokens
    PROVE  LET more == Append(text, token)
               whole == Cardinality(Proc!Breaks(text))
           IN  /\ more \in Text /\ Len(more) = Len(text) + 1
               /\ token = "n" =>
                    /\ Cardinality(Proc!Breaks(more)) = whole + 1
                    /\ \A n \in Nat : Proc!Line(more, n) = Proc!Line(text, n)
                    /\ Proc!Line(more, whole + 2) = 0
               /\ token = "c" =>
                    /\ Cardinality(Proc!Breaks(more)) = whole
                    /\ \A n \in Nat : n # whole + 1 => Proc!Line(more, n) = Proc!Line(text, n)
                    /\ Proc!Line(more, whole + 1) = Proc!Line(text, whole + 1) + 1
<1> DEFINE more == Append(text, token)
           whole == Cardinality(Proc!Breaks(text))
           fresh == Len(text) + 1
<1>1. /\ more \in Text /\ Len(more) = fresh /\ Len(text) \in Nat
      /\ DOMAIN text = 1..Len(text) /\ DOMAIN more = 1..fresh
      /\ more[fresh] = token /\ \A i \in DOMAIN text : more[i] = text[i]
  BY DEF Text
<1>2. /\ DOMAIN more = DOMAIN text \cup {fresh} /\ fresh \notin DOMAIN text
      /\ \A i \in DOMAIN text : i < fresh /\ i \in Nat
  BY <1>1
<1> HIDE DEF more, fresh
<1>3. whole \in Nat
  BY BreaksFinite
<1>4. \A i \in DOMAIN text : Proc!BreaksBefore(more, i) = Proc!BreaksBefore(text, i)
  <2> SUFFICES ASSUME NEW i \in DOMAIN text
               PROVE  Proc!BreaksBefore(more, i) = Proc!BreaksBefore(text, i)
    OBVIOUS
  <2>1. i < fresh /\ i \in Nat /\ fresh \in Nat
    BY <1>1, <1>2 DEF fresh
  <2>2. ~(fresh < i)
    BY <2>1
  <2> QED BY <1>1, <1>2, <2>2 DEF Proc!BreaksBefore, Proc!Breaks
<1>5. Proc!BreaksBefore(more, fresh) = Proc!Breaks(text)
  <2>1. ~(fresh < fresh)
    BY <1>1 DEF fresh
  <2> QED BY <1>1, <1>2, <2>1 DEF Proc!BreaksBefore, Proc!Breaks
<1>6. CASE token = "n"
  <2>1. Proc!Breaks(more) = Proc!Breaks(text) \cup {fresh} /\ fresh \notin Proc!Breaks(text)
    BY <1>1, <1>2, <1>6 DEF Proc!Breaks
  <2>2. Cardinality(Proc!Breaks(more)) = whole + 1
    BY <2>1, BreaksFinite, FS_AddElement
  <2>3. \A n : Chars(more, n) = Chars(text, n)
    BY <1>2, <1>4, <2>1 DEF Chars, Proc!Breaks
  <2>4. Chars(text, whole + 2) = {}
    <3> SUFFICES ASSUME NEW i, i \in Chars(text, whole + 2) PROVE FALSE
      OBVIOUS
    <3> HIDE DEF whole
    <3>2. Cardinality(Proc!BreaksBefore(text, i)) = (whole + 2) - 1
      BY DEF Chars
    <3> USE DEF whole
    <3>1. /\ Cardinality(Proc!BreaksBefore(text, i)) <= whole
          /\ Cardinality(Proc!BreaksBefore(text, i)) \in Nat
      BY FewBefore
    <3> HIDE DEF whole
    <3> QED BY <1>3, <3>1, <3>2
  <2>5. Proc!Line(more, whole + 2) = 0
    BY <1>1, <2>3, <2>4, CharsFinite, FS_EmptySet
  <2>6. \A n : Proc!Line(more, n) = Proc!Line(text, n)
    BY <1>1, <2>3, CharsFinite
  <2>7. token # "c"
    BY <1>6
  <2> QED BY <1>1, <2>2, <2>5, <2>6, <2>7 DEF more, fresh
<1>7. CASE token = "c"
  <2>1. Proc!Breaks(more) = Proc!Breaks(text) /\ fresh \notin Proc!Breaks(text)
    BY <1>1, <1>2, <1>7 DEF Proc!Breaks
  <2>2. ASSUME NEW n \in Nat, n # whole + 1 PROVE Chars(more, n) = Chars(text, n)
    <3>1. Cardinality(Proc!BreaksBefore(more, fresh)) # n - 1
      <4>1. whole # n - 1
        <5> HIDE DEF whole
        <5> QED BY <1>3, <2>2
      <4> QED BY <1>5, <4>1
    <3> QED BY <1>2, <1>4, <2>1, <3>1 DEF Chars
  <2>3. Chars(more, whole + 1) = Chars(text, whole + 1) \cup {fresh}
    <3>1. Cardinality(Proc!BreaksBefore(more, fresh)) = (whole + 1) - 1
      <4>1. whole = (whole + 1) - 1
        <5> HIDE DEF whole
        <5> QED BY <1>3
      <4> QED BY <1>5, <4>1
    <3> HIDE DEF whole
    <3> QED BY <1>2, <1>4, <2>1, <3>1 DEF Chars
  <2>4. fresh \notin Chars(text, whole + 1)
    BY <1>2 DEF Chars
  <2>5. Proc!Line(more, whole + 1) = Proc!Line(text, whole + 1) + 1
    BY <1>1, <2>3, <2>4, CharsFinite, FS_AddElement
  <2>6. \A n \in Nat : n # whole + 1 => Proc!Line(more, n) = Proc!Line(text, n)
    BY <1>1, <2>2, CharsFinite
  <2>7. token # "n"
    BY <1>7
  <2> QED BY <1>1, <2>1, <2>5, <2>6, <2>7 DEF more, fresh
<1> QED BY <1>6, <1>7 DEF Proc!Tokens

(* A drain that is fed a token.                                             *)
LEMMA FedToken ==
    ASSUME NEW text \in Text, NEW token \in Proc!Tokens, NEW acc, Split(text, acc)
    PROVE  Split(Append(text, token), Proc!Feed(acc, token))
<1> DEFINE more == Append(text, token)
           next == Proc!Feed(acc, token)
           whole == Cardinality(Proc!Breaks(text))
<1>1. /\ acc \in [lines : Seq(Nat), buffer : Nat]
      /\ Len(acc.lines) = whole /\ whole \in Nat
      /\ \A n \in 1..whole : acc.lines[n] = Proc!Line(text, n)
      /\ acc.buffer = Proc!Line(text, whole + 1)
      /\ whole + acc.buffer <= Len(text) /\ Len(text) \in Nat
  BY TextFinite, BreaksFinite DEF Split
<1>2. /\ Len(more) = Len(text) + 1
      /\ token = "n" =>
           /\ Cardinality(Proc!Breaks(more)) = whole + 1
           /\ \A n \in Nat : Proc!Line(more, n) = Proc!Line(text, n)
           /\ Proc!Line(more, whole + 2) = 0
      /\ token = "c" =>
           /\ Cardinality(Proc!Breaks(more)) = whole
           /\ \A n \in Nat : n # whole + 1 => Proc!Line(more, n) = Proc!Line(text, n)
           /\ Proc!Line(more, whole + 1) = Proc!Line(text, whole + 1) + 1
  BY OneMore
<1> HIDE DEF more, whole
<1>3. CASE token = "n"
  <2>1. next = [lines |-> Append(acc.lines, acc.buffer), buffer |-> 0]
    BY <1>3 DEF Proc!Feed
  <2> HIDE DEF next
  <2>2. /\ next.lines \in Seq(Nat) /\ Len(next.lines) = whole + 1
        /\ next.lines[whole + 1] = acc.buffer
        /\ \A n \in 1..whole : next.lines[n] = acc.lines[n]
    BY <1>1, <2>1
  <2>3. ASSUME NEW n \in 1..(whole + 1) PROVE next.lines[n] = Proc!Line(more, n)
    <3>1. n \in 1..whole \/ n = whole + 1
      BY <1>1
    <3>2. n \in Nat /\ Proc!Line(more, n) = Proc!Line(text, n)
      BY <1>1, <1>2, <1>3
    <3> QED BY <1>1, <2>2, <3>1, <3>2
  <2>4. next.buffer = 0 /\ next.buffer = Proc!Line(more, Len(next.lines) + 1)
    <3>1. Len(next.lines) + 1 = whole + 2
      BY <1>1, <2>2
    <3> QED BY <1>2, <1>3, <2>1, <3>1
  <2>5. next \in [lines : Seq(Nat), buffer : Nat]
    BY <2>1, <2>2
  <2>6. Len(next.lines) + next.buffer <= Len(more)
    BY <1>1, <1>2, <2>2, <2>4
  <2>7. Split(more, next)
    BY <1>2, <1>3, <2>2, <2>3, <2>4, <2>5, <2>6 DEF Split
  <2> QED BY <2>7 DEF more, next
<1>4. CASE token = "c"
  <2>1. next = [acc EXCEPT !.buffer = acc.buffer + 1]
    BY <1>4 DEF Proc!Feed
  <2> HIDE DEF next
  <2>2. /\ next \in [lines : Seq(Nat), buffer : Nat]
        /\ next.lines = acc.lines /\ next.buffer = acc.buffer + 1
    BY <1>1, <2>1
  <2>3. ASSUME NEW n \in 1..whole PROVE next.lines[n] = Proc!Line(more, n)
    <3>1. n \in Nat /\ n # whole + 1
      BY <1>1
    <3> QED BY <1>1, <1>2, <1>4, <2>2, <3>1
  <2>4. next.buffer = Proc!Line(more, Len(next.lines) + 1)
    BY <1>1, <1>2, <1>4, <2>2
  <2>5. Len(next.lines) + next.buffer <= Len(more)
    BY <1>1, <1>2, <2>2
  <2>6. Split(more, next)
    BY <1>1, <1>2, <1>4, <2>2, <2>3, <2>4, <2>5 DEF Split
  <2> QED BY <2>6 DEF more, next
<1> QED BY <1>3, <1>4 DEF Proc!Tokens

(* A drain that is fed a chunk of a text.                                   *)
LEMMA FedChunk ==
    ASSUME NEW text \in Text, NEW from \in Nat, NEW chunk \in Text,
           from + Len(chunk) <= Len(text),
           \A i \in 1..Len(chunk) : chunk[i] = text[from + i],
           NEW acc, Split(SubSeq(text, 1, from), acc)
    PROVE  Split(SubSeq(text, 1, from + Len(chunk)), Proc!FeedAll(acc, chunk))
<1>1. Len(chunk) \in Nat /\ Len(text) \in Nat
  BY TextFinite
<1>0. PICK fed : Feeding(fed, acc, chunk) /\ Proc!FeedAll(acc, chunk) = fed[Len(chunk)]
  BY <1>1, FedStates
<1>2. /\ Proc!FeedAll(acc, chunk) = fed[Len(chunk)]
      /\ fed[0] = acc
      /\ \A n \in 1..Len(chunk) : fed[n] = Proc!Feed(fed[n - 1], chunk[n])
  BY <1>0 DEF Feeding
<1> DEFINE Right(n) == Split(SubSeq(text, 1, from + n), fed[n])
           Good == {n \in 0..Len(chunk) : Right(n)}
<1>3. 0 \in Good
  <2>1. from + 0 = from /\ 0 \in 0..Len(chunk)
    BY <1>1
  <2>2. Right(0)
    BY <1>2, <2>1
  <2> HIDE DEF Right
  <2> QED BY <2>1, <2>2
<1>4. ASSUME NEW n \in 1..Len(chunk), n - 1 \in Good PROVE n \in Good
  <2>1. Right(n - 1)
    BY <1>4
  <2>2. /\ from + (n - 1) \in Nat /\ from + n \in Nat /\ from + n <= Len(text)
        /\ from + n = (from + (n - 1)) + 1
    BY <1>1
  <2>3. text[from + n] \in Proc!Tokens /\ SubSeq(text, 1, from + (n - 1)) \in Text
    BY <2>2 DEF Text
  <2>4. SubSeq(text, 1, from + n) = Append(SubSeq(text, 1, from + (n - 1)), text[from + n])
    <3> DEFINE m == from + (n - 1)
               a == SubSeq(text, 1, m)
               b == SubSeq(text, 1, m + 1)
               c == Append(a, text[m + 1])
    <3>1. m \in Nat /\ m + 1 <= Len(text) /\ m + 1 = from + n
      BY <2>2
    <3> HIDE DEF m
    <3>2. a \in Seq(Proc!Tokens) /\ Len(a) = m /\ \A i \in 1..m : a[i] = text[i]
      BY <1>1, <3>1 DEF Text
    <3>3. b \in Seq(Proc!Tokens) /\ Len(b) = m + 1 /\ \A i \in 1..(m + 1) : b[i] = text[i]
      BY <1>1, <3>1 DEF Text
    <3>4. text[m + 1] \in Proc!Tokens
      BY <2>3, <3>1
    <3> HIDE DEF a, b
    <3>5. c \in Seq(Proc!Tokens) /\ Len(c) = m + 1 /\ \A i \in 1..(m + 1) : c[i] = text[i]
      BY <3>1, <3>2, <3>4
    <3> HIDE DEF c
    <3>6. b = c
      BY <3>1, <3>3, <3>5, SeqEqual
    <3> QED BY <3>1, <3>6 DEF a, b, c, m
  <2>5. fed[n] = Proc!Feed(fed[n - 1], text[from + n])
    BY <1>2
  <2>6. Right(n)
    BY <2>1, <2>3, <2>4, <2>5, FedToken
  <2> QED BY <1>1, <2>6
<1>5. Right(Len(chunk))
  <2> HIDE DEF Good
  <2>1. \A n \in 0..Len(chunk) : n \in Good
    BY <1>1, <1>3, <1>4, AllTurns
  <2> QED BY <1>1, <2>1 DEF Good
<1> QED BY <1>2, <1>5

(* A drain that has read all of a text has, with the rest it kept, its lines. *)
LEMMA SplitIsAll ==
    ASSUME NEW text \in Text, NEW acc, Split(text, acc)
    PROVE  Proc!LinesOf(text) =
               IF acc.buffer = 0 THEN acc.lines ELSE Append(acc.lines, acc.buffer)
<1> DEFINE whole == Cardinality(Proc!Breaks(text))
           all == IF acc.buffer = 0 THEN acc.lines ELSE Append(acc.lines, acc.buffer)
           of == Proc!LinesOf(text)
<1>1. /\ acc \in [lines : Seq(Nat), buffer : Nat]
      /\ Len(acc.lines) = whole /\ whole \in Nat
      /\ \A n \in 1..whole : acc.lines[n] = Proc!Line(text, n)
      /\ acc.buffer = Proc!Line(text, whole + 1)
  BY BreaksFinite DEF Split
<1>2. of = [n \in 1..(IF Proc!Line(text, whole + 1) = 0 THEN whole ELSE whole + 1) |->
               Proc!Line(text, n)]
  BY SameCount DEF Proc!LinesOf
<1> HIDE DEF whole, of
<1>3. CASE acc.buffer = 0
  <2>1. /\ of = [n \in 1..whole |-> Proc!Line(text, n)]
        /\ acc.lines \in Seq(Nat) /\ all = acc.lines
    BY <1>1, <1>2, <1>3
  <2>2. acc.lines = [n \in 1..whole |-> acc.lines[n]]
    BY <1>1, <2>1
  <2> QED BY <1>1, <2>1, <2>2 DEF of
<1>4. CASE acc.buffer # 0
  <2>1. /\ of = [n \in 1..(whole + 1) |-> Proc!Line(text, n)]
        /\ all = Append(acc.lines, acc.buffer)
    BY <1>1, <1>2, <1>4
  <2>2. /\ all \in Seq(Nat) /\ Len(all) = whole + 1
        /\ all[whole + 1] = acc.buffer /\ \A n \in 1..whole : all[n] = acc.lines[n]
    BY <1>1, <2>1
  <2> HIDE DEF all
  <2>3. all = [n \in 1..(whole + 1) |-> all[n]]
    BY <2>2
  <2>4. \A n \in 1..(whole + 1) : all[n] = Proc!Line(text, n)
    <3>1. \A n \in 1..(whole + 1) : n \in 1..whole \/ n = whole + 1
      BY <1>1
    <3> QED BY <1>1, <2>2, <3>1
  <2> QED BY <2>1, <2>3, <2>4 DEF all, of
<1> QED BY <1>3, <1>4

(* A pipe, with what its drain has reported of what was written to it.      *)
Pipe(text, rest, told, kept, most) ==
    /\ text \in Text /\ rest \in Text /\ told \in Seq(Nat) /\ kept \in Nat
    /\ Len(text) <= most /\ Len(rest) <= Len(text)
    /\ \A i \in 1..Len(rest) : rest[i] = text[Len(text) - Len(rest) + i]
    /\ Len(told) <= most /\ kept <= most

(* What was read from it.                                                   *)
HasRead(text, rest) == SubSeq(text, 1, Len(text) - Len(rest))

(* The child writes to it.                                                  *)
LEMMA PipeWritten ==
    ASSUME NEW text, NEW rest, NEW told, NEW kept, NEW most \in Nat,
           Pipe(text, rest, told, kept, most),
           NEW token \in Proc!Tokens, Len(text) < most
    PROVE  /\ Pipe(Append(text, token), Append(rest, token), told, kept, most)
           /\ HasRead(Append(text, token), Append(rest, token)) = HasRead(text, rest)
<1> DEFINE t == Append(text, token)
           r == Append(rest, token)
<1>1. /\ text \in Seq(Proc!Tokens) /\ rest \in Seq(Proc!Tokens)
      /\ Len(text) \in Nat /\ Len(rest) \in Nat /\ Len(rest) <= Len(text)
      /\ \A i \in 1..Len(rest) : rest[i] = text[Len(text) - Len(rest) + i]
      /\ told \in Seq(Nat) /\ kept \in Nat /\ Len(told) <= most /\ kept <= most
  BY DEF Pipe, Text
<1>2. /\ t \in Seq(Proc!Tokens) /\ Len(t) = Len(text) + 1 /\ t[Len(text) + 1] = token
      /\ \A i \in 1..Len(text) : t[i] = text[i]
  BY <1>1
<1>3. /\ r \in Seq(Proc!Tokens) /\ Len(r) = Len(rest) + 1 /\ r[Len(rest) + 1] = token
      /\ \A i \in 1..Len(rest) : r[i] = rest[i]
  BY <1>1
<1> HIDE DEF t, r
<1>4. Len(t) - Len(r) = Len(text) - Len(rest) /\ Len(text) - Len(rest) \in 0..Len(text)
  BY <1>1, <1>2, <1>3
<1>5. ASSUME NEW i \in 1..Len(r) PROVE r[i] = t[Len(t) - Len(r) + i]
  <2>1. CASE i = Len(rest) + 1
    <3>1. Len(t) - Len(r) + i = Len(text) + 1
      BY <1>1, <1>2, <1>3, <2>1
    <3> QED BY <1>2, <1>3, <2>1, <3>1
  <2>2. CASE i # Len(rest) + 1
    <3>1. i \in 1..Len(rest) /\ Len(text) - Len(rest) + i \in 1..Len(text)
      BY <1>1, <1>3, <2>2
    <3>2. r[i] = text[Len(text) - Len(rest) + i]
      BY <1>1, <1>3, <3>1
    <3>3. t[Len(text) - Len(rest) + i] = text[Len(text) - Len(rest) + i]
      BY <1>2, <3>1
    <3> QED BY <1>4, <3>2, <3>3
  <2> QED BY <2>1, <2>2
<1>6. HasRead(t, r) = HasRead(text, rest)
  <2> DEFINE m == Len(text) - Len(rest)
             a == SubSeq(t, 1, m)
             b == SubSeq(text, 1, m)
  <2>1. m \in Nat /\ m <= Len(text) /\ m <= Len(t)
    BY <1>1, <1>2
  <2> HIDE DEF m
  <2>2. /\ a \in Seq(Proc!Tokens) /\ Len(a) = m /\ \A i \in 1..m : a[i] = t[i]
        /\ b \in Seq(Proc!Tokens) /\ Len(b) = m /\ \A i \in 1..m : b[i] = text[i]
    BY <1>1, <1>2, <2>1
  <2>3. \A i \in 1..m : i \in 1..Len(text)
    BY <1>1, <2>1
  <2> HIDE DEF a, b
  <2>4. a = b
    BY <1>2, <2>2, <2>3, SeqEqual
  <2> QED BY <1>4, <2>4 DEF HasRead, a, b, m
<1>7. Pipe(t, r, told, kept, most)
  BY <1>1, <1>2, <1>3, <1>5 DEF Pipe, Text
<1> QED BY <1>6, <1>7 DEF t, r

(* Its drain reads a chunk of k tokens, perhaps until a callback throws.    *)
LEMMA PipeRead ==
    ASSUME NEW text, NEW rest, NEW told, NEW kept, NEW most \in Nat,
           Pipe(text, rest, told, kept, most),
           NEW acc, Split(HasRead(text, rest), acc),
           NEW k \in 1..Len(rest)
    PROVE  LET now == Proc!FeedAll(acc, SubSeq(rest, 1, k))
               left == SubSeq(rest, k + 1, Len(rest))
           IN  /\ Split(HasRead(text, left), now)
               /\ Pipe(text, left, now.lines, now.buffer, most)
               /\ \A n \in Nat : n < Len(now.lines) =>
                    Pipe(text, rest, SubSeq(now.lines, 1, n), kept, most)
<1> DEFINE chunk == SubSeq(rest, 1, k)
           now == Proc!FeedAll(acc, chunk)
           left == SubSeq(rest, k + 1, Len(rest))
           from == Len(text) - Len(rest)
<1>0. /\ text \in Text /\ rest \in Text /\ Len(text) <= most /\ Len(rest) <= Len(text)
      /\ \A i \in 1..Len(rest) : rest[i] = text[from + i]
      /\ told \in Seq(Nat) /\ kept \in Nat /\ Len(told) <= most /\ kept <= most
  BY DEF Pipe
<1>1. /\ text \in Seq(Proc!Tokens) /\ rest \in Seq(Proc!Tokens)
      /\ Len(text) \in Nat /\ Len(rest) \in Nat
  BY <1>0 DEF Text
<1>2. /\ chunk \in Seq(Proc!Tokens) /\ Len(chunk) = k /\ \A i \in 1..k : chunk[i] = rest[i]
  BY <1>0, <1>1
<1>3. /\ left \in Seq(Proc!Tokens) /\ Len(left) = Len(rest) - k
      /\ \A i \in 1..(Len(rest) - k) : left[i] = rest[k + i]
  <2>1. k + 1 \in 1..(Len(rest) + 1) /\ Len(rest) \in k..Len(rest)
    BY <1>0, <1>1
  <2> QED BY <1>0, <1>1, <2>1
<1>4. from \in Nat /\ from + k <= Len(text) /\ Len(text) - Len(left) = from + k
  <2> HIDE DEF left
  <2> QED BY <1>0, <1>1, <1>3
<1> HIDE DEF chunk, left
<1>5. \A i \in 1..k : chunk[i] = text[from + i]
  <2>1. \A i \in 1..k : i \in 1..Len(rest)
    BY <1>1
  <2> HIDE DEF from
  <2> QED BY <1>0, <1>2, <2>1
<1>6. Split(HasRead(text, left), now)
  <2>1. Split(SubSeq(text, 1, from), acc)
    BY DEF HasRead
  <2>2. chunk \in Text
    BY <1>2 DEF Text
  <2> HIDE DEF from
  <2>3. Split(SubSeq(text, 1, from + k), Proc!FeedAll(acc, chunk))
    BY <1>0, <1>1, <1>2, <1>4, <1>5, <2>1, <2>2, FedChunk
  <2> QED BY <1>4, <2>3 DEF HasRead
<1> HIDE DEF now
<1>7. /\ now \in [lines : Seq(Nat), buffer : Nat]
      /\ Len(now.lines) <= most /\ now.buffer <= most
  <2>1. /\ now \in [lines : Seq(Nat), buffer : Nat]
        /\ Len(now.lines) + now.buffer <= Len(HasRead(text, left))
    BY <1>6 DEF Split
  <2>2. Len(HasRead(text, left)) = from + k
    <3> DEFINE m == Len(text) - Len(left)
    <3>1. m \in Nat /\ m <= Len(text) /\ m = from + k
      BY <1>4
    <3> HIDE DEF m
    <3>2. Len(SubSeq(text, 1, m)) = m
      BY <1>1, <3>1
    <3> QED BY <3>1, <3>2 DEF HasRead, m
  <2>3. Len(now.lines) \in Nat /\ now.buffer \in Nat
    BY <2>1
  <2> HIDE DEF from
  <2> QED BY <1>0, <1>1, <1>4, <2>1, <2>2, <2>3
<1>8. ASSUME NEW i \in 1..Len(left) PROVE left[i] = text[Len(text) - Len(left) + i]
  <2>1. k + i \in 1..Len(rest) /\ i \in 1..(Len(rest) - k)
    BY <1>0, <1>1, <1>3
  <2>2. left[i] = text[from + (k + i)]
    BY <1>0, <1>1, <1>3, <2>1
  <2>3. from + (k + i) = Len(text) - Len(left) + i
    BY <1>0, <1>1, <1>3, <1>4
  <2> QED BY <2>2, <2>3
<1>9. Pipe(text, left, now.lines, now.buffer, most)
  <2>1. left \in Text /\ Len(left) <= Len(text)
    BY <1>0, <1>1, <1>3 DEF Text
  <2> QED BY <1>0, <1>1, <1>7, <1>8, <2>1 DEF Pipe
<1>10. ASSUME NEW n \in Nat, n < Len(now.lines)
       PROVE  Pipe(text, rest, SubSeq(now.lines, 1, n), kept, most)
  <2>1. now.lines \in Seq(Nat) /\ Len(now.lines) \in Nat
    BY <1>7
  <2> DEFINE some == now.lines
  <2>2. SubSeq(some, 1, n) \in Seq(Nat) /\ Len(SubSeq(some, 1, n)) = n
    <3> HIDE DEF some
    <3>1. some \in Seq(Nat) /\ n < Len(some)
      BY <1>10, <2>1 DEF some
    <3> QED BY <3>1
  <2> QED BY <1>0, <1>1, <1>7, <1>10, <2>1, <2>2 DEF Pipe
<1> QED BY <1>6, <1>9, <1>10 DEF now, chunk, left

-----------------------------------------------------------------------------
(* The lines of streamed runs *)

(* The state of the drains and what they have moved. *)
TextsTyped ==
    /\ kid \in {"none", "group", "escaped"}
    /\ timer \in {"off", "armed", "fired", "dead"}
    /\ ended \in {"none", "code", "spawnError", "readError", "interrupted", "terminated"}
    /\ written \in [Streams -> Text] /\ unread \in [Streams -> Text]
    /\ lines \in [Streams -> Seq(Nat)] /\ buffer \in [Streams -> Nat]

(* A drain under way has split what was read from its pipe, and one that    *)
(* has ended has reported the lines of all that was written.                *)
ReadsWell ==
    \A s \in Streams :
        /\ Pipe(written[s], unread[s], lines[s], buffer[s], MaxText[s])
        /\ drain[s] \in {"off", "reading"} =>
             Split(HasRead(written[s], unread[s]), [lines |-> lines[s], buffer |-> buffer[s]])
        /\ drain[s] = "ended" => lines[s] = Proc!LinesOf(written[s])

(* A drain ends when nobody is left to write, none begins before the child  *)
(* has, and a code is returned when all have ended.                         *)
NobodyWrites == (\E s \in Streams : drain[s] = "ended") => ~Proc!PipesHeld

DrainsBegin == call \in {"idle", "starting"} => \A s \in Streams : drain[s] = "off"

CodeIsLast ==
    ended = "code" => call = "done" /\ Proc!Dead /\ \A s \in Streams : drain[s] = "ended"

TextInv == TextsTyped /\ ReadsWell /\ NobodyWrites /\ DrainsBegin /\ CodeIsLast

LEMMA TextInitial == ASSUME Proc!Init PROVE TextInv
<1>1. /\ written = [s \in Streams |-> <<>>] /\ unread = [s \in Streams |-> <<>>]
      /\ lines = [s \in Streams |-> <<>>] /\ buffer = [s \in Streams |-> 0]
      /\ drain = [s \in Streams |-> "off"]
  BY DEF Proc!Init
<1> DEFINE none == << >>
<1>2. none \in Text /\ none \in Seq(Nat) /\ Len(none) = 0 /\ SubSeq(none, 1, 0) = none
  BY DEF Text
<1>3. Split(none, [lines |-> none, buffer |-> 0])
  BY NothingRead
<1> HIDE DEF none
<1>4. HasRead(none, none) = none
  BY <1>2 DEF HasRead
<1>5. ASSUME NEW s \in Streams PROVE Pipe(none, none, none, 0, MaxText[s])
  BY <1>2, CliAssumption DEF Pipe
<1>6. \A s \in Streams : /\ written[s] = none /\ unread[s] = none /\ lines[s] = none
                         /\ buffer[s] = 0 /\ drain[s] = "off"
  BY <1>1 DEF none
<1>7. ReadsWell
  BY <1>3, <1>4, <1>5, <1>6 DEF ReadsWell
<1>8. TextsTyped
  <2>1. /\ written = [s \in Streams |-> none] /\ unread = [s \in Streams |-> none]
        /\ lines = [s \in Streams |-> none]
    BY <1>1 DEF none
  <2> QED BY <1>1, <1>2, <2>1 DEF TextsTyped, Proc!Init
<1> QED BY <1>6, <1>7, <1>8 DEF TextInv, NobodyWrites, DrainsBegin, CodeIsLast, Proc!Init

(* What becomes of the drains in a step that neither reads nor writes.      *)
DrainsMove ==
    /\ UNCHANGED <<written, unread, buffer, lines>>
    /\ \A s \in Streams :
         \/ drain'[s] = drain[s]
         \/ drain[s] = "off" /\ drain'[s] = "reading"
         \/ drain[s] = "reading" /\ drain'[s] \in {"stopped", "failed"}

(* Then nothing that was read or reported changes.                          *)
LEMMA ReadsStay == ASSUME ReadsWell, DrainsMove PROVE ReadsWell'
<1> SUFFICES ASSUME NEW s \in Streams
             PROVE  /\ Pipe(written[s], unread[s], lines[s], buffer[s], MaxText[s])
                    /\ drain'[s] \in {"off", "reading"} =>
                         Split(HasRead(written[s], unread[s]),
                               [lines |-> lines[s], buffer |-> buffer[s]])
                    /\ drain'[s] = "ended" => lines[s] = Proc!LinesOf(written[s])
  BY DEF ReadsWell, DrainsMove
<1>1. /\ drain'[s] \in {"off", "reading"} => drain[s] \in {"off", "reading"}
      /\ drain'[s] = "ended" => drain[s] = "ended"
  BY DEF DrainsMove
<1> QED BY <1>1 DEF ReadsWell

(* A step of the call moves the drains, and writes to no pipe.              *)
LEMMA CallStepKeepsTexts ==
    ASSUME StreamInv, TextInv,
           Proc!Begin \/ Proc!SpawnErrors \/ Proc!Started \/ Proc!Joined \/
           Proc!Terminate \/ Proc!GraceEnds \/ Proc!Terminated
             \/ Proc!TerminateSubprocess
    PROVE  TextInv'
<1> USE DEF Proc!Move, Proc!Living, Proc!Begin, Proc!SpawnErrors,
            Proc!Started, Proc!Joined, Proc!Terminate, Proc!GraceEnds,
            Proc!Terminated, Proc!TerminateSubprocess
<1>0. /\ drain \in [Streams -> {"off", "reading", "ended", "failed", "stopped"}]
      /\ leader \in {"none", "up", "exited", "signalled"}
      /\ kind \in {"own", "foreign"}
      /\ kid \in {"none", "group", "escaped"} /\ timer \in {"off", "armed", "fired", "dead"}
  BY DEF StreamInv, StreamTyped, TextInv, TextsTyped
<1>1. UNCHANGED <<written, unread, buffer, lines>>
  BY DEF Proc!readVars
<1>2. DrainsMove
  <2>1. ASSUME NEW s \in Streams
        PROVE  \/ drain'[s] = drain[s]
               \/ drain[s] = "off" /\ drain'[s] = "reading"
               \/ drain[s] = "reading" /\ drain'[s] \in {"stopped", "failed"}
    BY <1>0 DEF TextInv, DrainsBegin, Proc!StopFibers
  <2> QED BY <1>1, <2>1 DEF DrainsMove
<1>3. kid' \in {"none", "group", "escaped"} /\ timer' \in {"off", "armed", "fired", "dead"}
  BY <1>0 DEF Proc!childVars, Proc!TermGroup, Proc!KillGroup, Proc!StopFibers
<1>4. ended' \in {"none", "code", "spawnError", "readError", "interrupted", "terminated"}
  BY DEF TextInv, TextsTyped
<1>5. TextsTyped'
  BY <1>1, <1>3, <1>4 DEF TextInv, TextsTyped
<1>6. NobodyWrites'
  <2> SUFFICES ASSUME NEW s \in Streams, drain'[s] = "ended" PROVE ~Proc!PipesHeld'
    BY DEF NobodyWrites
  <2>1. drain[s] = "ended" /\ call # "idle"
    BY <1>2 DEF DrainsMove, TextInv, DrainsBegin
  <2>2. leader # "up" /\ kid = "none"
    BY <2>1 DEF TextInv, NobodyWrites, Proc!PipesHeld
  <2>3. leader' # "up" /\ kid' = "none"
    BY <2>1, <2>2 DEF Proc!childVars, Proc!TermGroup, Proc!TermLeader, Proc!KillGroup,
           Proc!KillLeader, TextInv, DrainsBegin
  <2> QED BY <2>3 DEF Proc!PipesHeld
<1>7. DrainsBegin'
  BY <1>0 DEF TextInv, DrainsBegin
<1>8. CodeIsLast'
  <2> SUFFICES ASSUME ended' = "code"
               PROVE  call' = "done" /\ Proc!Dead' /\ \A s \in Streams : drain'[s] = "ended"
    BY DEF CodeIsLast
  <2>1. CASE Proc!Joined
    BY <1>0, <2>1 DEF StreamInv, ExitsSeen, Proc!Dead, Proc!StopFibers, Proc!childVars
  <2>2. CASE ~Proc!Joined
    <3>1. ended = "code"
      BY <2>2
    <3> QED BY <2>2, <3>1 DEF TextInv, CodeIsLast
  <2> QED BY <2>1, <2>2
<1> QED BY <1>2, <1>5, <1>6, <1>7, <1>8, ReadsStay DEF TextInv

(* Nor does a step of the timer, the child or the caller.                   *)
LEMMA QuietStepKeepsTexts ==
    ASSUME StreamInv, TextInv,
           Proc!DeadlineFires \/ Proc!SeeExit \/ Proc!ChildExits \/ Proc!KidActs
             \/ Proc!Interrupt \/ UNCHANGED procVars
    PROVE  TextInv'
<1> USE DEF Proc!DeadlineFires, Proc!SeeExit, Proc!ChildExits, Proc!KidActs, Proc!Interrupt
<1>0. /\ leader \in {"none", "up", "exited", "signalled"}
      /\ kid \in {"none", "group", "escaped"} /\ timer \in {"off", "armed", "fired", "dead"}
  BY DEF StreamInv, StreamTyped, TextInv, TextsTyped
<1>1. UNCHANGED <<call, ended, drain, written, unread, buffer, lines>>
  BY DEF procVars, Proc!callVars, Proc!readVars
<1>2. /\ kid' \in {"none", "group", "escaped"}
      /\ timer' \in {"off", "armed", "fired", "dead"}
  BY <1>0 DEF procVars, Proc!childVars, Proc!KillGroup
<1>3. /\ ~Proc!PipesHeld => ~Proc!PipesHeld'
      /\ Proc!Dead => Proc!Dead'
  BY <1>0 DEF Proc!PipesHeld, Proc!Dead, procVars, Proc!childVars, Proc!KillGroup,
         Proc!KillLeader
<1>4. DrainsMove
  BY <1>1 DEF DrainsMove
<1>5. TextsTyped'
  BY <1>1, <1>2 DEF TextInv, TextsTyped
<1>6. NobodyWrites' /\ DrainsBegin' /\ CodeIsLast'
  BY <1>1, <1>3 DEF TextInv, NobodyWrites, DrainsBegin, CodeIsLast
<1> QED BY <1>4, <1>5, <1>6, ReadsStay DEF TextInv

(* The child writes while somebody holds the pipes: no drain has ended.     *)
LEMMA WriteKeepsTexts ==
    ASSUME TextInv, Proc!ChildWrites
    PROVE  TextInv'
<1>1. PICK s \in Streams, token \in Proc!Tokens :
        /\ Len(written[s]) < MaxText[s]
        /\ written' = [written EXCEPT ![s] = Append(@, token)]
        /\ unread' = [unread EXCEPT ![s] = Append(@, token)]
  BY DEF Proc!ChildWrites
<1>2. /\ UNCHANGED <<call, ended, leader, kid, timer, drain, buffer, lines>>
      /\ Proc!PipesHeld /\ call \in {"starting", "joining"}
  BY DEF Proc!ChildWrites, Proc!callVars, Proc!childVars
<1>3. /\ written \in [Streams -> Text] /\ unread \in [Streams -> Text]
      /\ MaxText \in [Streams -> Nat]
  BY CliAssumption DEF TextInv, TextsTyped
<1>4. /\ written'[s] = Append(written[s], token) /\ unread'[s] = Append(unread[s], token)
      /\ \A o \in Streams : o # s => written'[o] = written[o] /\ unread'[o] = unread[o]
  BY <1>1, <1>3
<1>5. /\ Append(written[s], token) \in Text /\ Append(unread[s], token) \in Text
  BY <1>3 DEF Text
<1>6. TextsTyped'
  BY <1>1, <1>2, <1>3, <1>5 DEF TextInv, TextsTyped
<1>7. ASSUME NEW o \in Streams
      PROVE  /\ Pipe(written'[o], unread'[o], lines[o], buffer[o], MaxText[o])
             /\ HasRead(written'[o], unread'[o]) = HasRead(written[o], unread[o])
  <2>1. Pipe(written[o], unread[o], lines[o], buffer[o], MaxText[o]) /\ MaxText[o] \in Nat
    BY <1>3 DEF TextInv, ReadsWell
  <2>2. CASE o = s
    <3> DEFINE text == written[s]
               rest == unread[s]
               told == lines[s]
               kept == buffer[s]
               most == MaxText[s]
    <3>1. Pipe(text, rest, told, kept, most) /\ most \in Nat /\ Len(text) < most
      BY <1>1, <2>1, <2>2
    <3> HIDE DEF text, rest, told, kept, most
    <3>2. /\ Pipe(Append(text, token), Append(rest, token), told, kept, most)
          /\ HasRead(Append(text, token), Append(rest, token)) = HasRead(text, rest)
      BY <3>1, PipeWritten
    <3> QED BY <1>4, <2>2, <3>2 DEF text, rest, told, kept, most
  <2> QED BY <1>4, <2>1, <2>2
<1>8. \A o \in Streams : drain[o] # "ended"
  BY <1>2 DEF TextInv, NobodyWrites
<1>9. ReadsWell'
  <2> SUFFICES ASSUME NEW o \in Streams
               PROVE  /\ Pipe(written'[o], unread'[o], lines[o], buffer[o], MaxText[o])
                      /\ drain[o] \in {"off", "reading"} =>
                           Split(HasRead(written'[o], unread'[o]),
                                 [lines |-> lines[o], buffer |-> buffer[o]])
                      /\ drain[o] # "ended"
    BY <1>2 DEF ReadsWell
  <2> QED BY <1>7, <1>8 DEF TextInv, ReadsWell
<1>10. NobodyWrites' /\ DrainsBegin' /\ CodeIsLast'
  BY <1>2 DEF TextInv, NobodyWrites, DrainsBegin, CodeIsLast, Proc!PipesHeld, Proc!Dead
<1> QED BY <1>6, <1>9, <1>10 DEF TextInv

(* The drain of one stream goes on, or ends with all its lines reported.    *)
LEMMA DrainKeepsTexts ==
    ASSUME StreamInv, TextInv, NEW s \in Streams, drain[s] = "reading",
           UNCHANGED <<kind, call, ended, interrupted, leader, kid, timer, written>>,
           drain' \in [Streams -> {"off", "reading", "ended", "failed", "stopped"}],
           unread' \in [Streams -> Text], lines' \in [Streams -> Seq(Nat)],
           buffer' \in [Streams -> Nat],
           \A o \in Streams : o # s =>
               /\ drain'[o] = drain[o] /\ unread'[o] = unread[o]
               /\ lines'[o] = lines[o] /\ buffer'[o] = buffer[o],
           Pipe(written[s], unread'[s], lines'[s], buffer'[s], MaxText[s]),
           drain'[s] \in {"reading", "ended", "failed"},
           drain'[s] = "reading" =>
               Split(HasRead(written[s], unread'[s]),
                     [lines |-> lines'[s], buffer |-> buffer'[s]]),
           drain'[s] = "ended" => lines'[s] = Proc!LinesOf(written[s]) /\ ~Proc!PipesHeld
    PROVE  TextInv'
<1>1. TextsTyped'
  BY DEF TextInv, TextsTyped
<1>2. call = "joining"
  BY DEF StreamInv, ReadsJoining
<1>3. ReadsWell'
  <2> SUFFICES ASSUME NEW o \in Streams
               PROVE  /\ Pipe(written[o], unread'[o], lines'[o], buffer'[o], MaxText[o])
                      /\ drain'[o] \in {"off", "reading"} =>
                           Split(HasRead(written[o], unread'[o]),
                                 [lines |-> lines'[o], buffer |-> buffer'[o]])
                      /\ drain'[o] = "ended" => lines'[o] = Proc!LinesOf(written[o])
    BY DEF ReadsWell
  <2>1. CASE o = s
    BY <2>1
  <2>2. CASE o # s
    BY <2>2 DEF TextInv, ReadsWell
  <2> QED BY <2>1, <2>2
<1>4. NobodyWrites'
  <2> SUFFICES ASSUME NEW o \in Streams, drain'[o] = "ended" PROVE ~Proc!PipesHeld
    BY DEF NobodyWrites, Proc!PipesHeld
  <2> QED BY DEF TextInv, NobodyWrites
<1>5. DrainsBegin' /\ CodeIsLast'
  BY <1>2 DEF TextInv, DrainsBegin, CodeIsLast
<1> QED BY <1>1, <1>3, <1>4, <1>5 DEF TextInv

(* A drain fails with its pipe as it was.                                   *)
LEMMA FailKeepsTexts ==
    ASSUME StreamInv, TextInv, NEW s \in Streams, Proc!ReadFails(s)
    PROVE  TextInv'
<1>1. /\ drain[s] = "reading" /\ drain' = [drain EXCEPT ![s] = "failed"]
      /\ UNCHANGED <<kind, call, ended, interrupted, leader, kid, timer, written, unread,
                     buffer, lines>>
  BY DEF Proc!ReadFails, Proc!callVars, Proc!childVars, Proc!readVars
<1>2. /\ drain \in [Streams -> {"off", "reading", "ended", "failed", "stopped"}]
      /\ unread \in [Streams -> Text] /\ lines \in [Streams -> Seq(Nat)]
      /\ buffer \in [Streams -> Nat]
      /\ Pipe(written[s], unread[s], lines[s], buffer[s], MaxText[s])
  BY DEF StreamInv, StreamTyped, TextInv, TextsTyped, ReadsWell
<1>3. /\ drain' \in [Streams -> {"off", "reading", "ended", "failed", "stopped"}]
      /\ drain'[s] = "failed" /\ \A o \in Streams : o # s => drain'[o] = drain[o]
  BY <1>1, <1>2
<1> QED BY <1>1, <1>2, <1>3, DrainKeepsTexts

(* It reads a chunk, or fails in the middle of its lines.                   *)
LEMMA DataKeepsTexts ==
    ASSUME StreamInv, TextInv, NEW s \in Streams, Proc!Data(s)
    PROVE  TextInv'
<1> DEFINE text == written[s]
           rest == unread[s]
           told == lines[s]
           kept == buffer[s]
           most == MaxText[s]
           acc == [lines |-> told, buffer |-> kept]
           now(k) == Proc!FeedAll(acc, SubSeq(rest, 1, k))
           left(k) == SubSeq(rest, k + 1, Len(rest))
<1>1. /\ drain[s] = "reading"
      /\ UNCHANGED <<kind, call, ended, interrupted, leader, kid, timer, written>>
  BY DEF Proc!Data, Proc!callVars, Proc!childVars
<1>2. PICK k \in 1..Len(rest) :
        \/ /\ lines' = [lines EXCEPT ![s] = now(k).lines]
           /\ buffer' = [buffer EXCEPT ![s] = now(k).buffer]
           /\ unread' = [unread EXCEPT ![s] = left(k)]
           /\ UNCHANGED drain
        \/ \E upTo \in Len(told)..(Len(now(k).lines) - 1) :
             /\ lines' = [lines EXCEPT ![s] = SubSeq(now(k).lines, 1, upTo)]
             /\ drain' = [drain EXCEPT ![s] = "failed"]
             /\ UNCHANGED <<unread, buffer>>
  <2>1. \A k \in Nat : [unread EXCEPT ![s] = SubSeq(@, k + 1, Len(@))] =
                       [unread EXCEPT ![s] = left(k)]
    OBVIOUS
  <2> QED BY <2>1 DEF Proc!Data
<1>3. /\ drain \in [Streams -> {"off", "reading", "ended", "failed", "stopped"}]
      /\ unread \in [Streams -> Text] /\ lines \in [Streams -> Seq(Nat)]
      /\ buffer \in [Streams -> Nat]
      /\ Pipe(text, rest, told, kept, most) /\ most \in Nat
      /\ Split(HasRead(text, rest), acc)
  BY <1>1, CliAssumption DEF StreamInv, StreamTyped, TextInv, TextsTyped, ReadsWell
<1> DEFINE state == now(k)
           tail == left(k)
<1>4. /\ Split(HasRead(text, tail), state)
      /\ Pipe(text, tail, state.lines, state.buffer, most)
      /\ \A n \in Nat : n < Len(state.lines) => Pipe(text, rest, SubSeq(state.lines, 1, n), kept, most)
  <2> HIDE DEF text, rest, told, kept, most, acc
  <2> QED BY <1>2, <1>3, PipeRead
<1>5. \/ /\ lines' = [lines EXCEPT ![s] = state.lines]
         /\ buffer' = [buffer EXCEPT ![s] = state.buffer]
         /\ unread' = [unread EXCEPT ![s] = tail]
         /\ UNCHANGED drain
      \/ \E upTo \in Len(told)..(Len(state.lines) - 1) :
             /\ lines' = [lines EXCEPT ![s] = SubSeq(state.lines, 1, upTo)]
             /\ drain' = [drain EXCEPT ![s] = "failed"]
             /\ UNCHANGED <<unread, buffer>>
  BY <1>2
<1> HIDE DEF state, tail
<1>6. /\ state \in [lines : Seq(Nat), buffer : Nat] /\ tail \in Text
      /\ Len(state.lines) \in Nat /\ Len(told) \in Nat
      /\ state = [lines |-> state.lines, buffer |-> state.buffer]
  <2>1. state \in [lines : Seq(Nat), buffer : Nat] /\ tail \in Text
    BY <1>4 DEF Split, Pipe
  <2>2. told \in Seq(Nat)
    BY <1>3
  <2> QED BY <2>1, <2>2
<1>7. CASE /\ lines' = [lines EXCEPT ![s] = state.lines]
           /\ buffer' = [buffer EXCEPT ![s] = state.buffer]
           /\ unread' = [unread EXCEPT ![s] = tail]
           /\ UNCHANGED drain
  <2>1. /\ unread' \in [Streams -> Text] /\ lines' \in [Streams -> Seq(Nat)]
        /\ buffer' \in [Streams -> Nat]
        /\ lines'[s] = state.lines /\ buffer'[s] = state.buffer /\ unread'[s] = tail
        /\ \A o \in Streams : o # s => /\ unread'[o] = unread[o]
                                       /\ lines'[o] = lines[o] /\ buffer'[o] = buffer[o]
    BY <1>3, <1>6, <1>7
  <2>2. /\ Pipe(written[s], unread'[s], lines'[s], buffer'[s], MaxText[s])
        /\ Split(HasRead(written[s], unread'[s]),
                 [lines |-> lines'[s], buffer |-> buffer'[s]])
    BY <1>4, <1>6, <2>1
  <2>3. drain' = drain /\ drain'[s] = "reading"
    BY <1>1, <1>7
  <2> HIDE DEF text, rest, told, kept, most, acc
  <2> QED BY <1>1, <1>3, <2>1, <2>2, <2>3, DrainKeepsTexts
<1>8. CASE \E upTo \in Len(told)..(Len(state.lines) - 1) :
             /\ lines' = [lines EXCEPT ![s] = SubSeq(state.lines, 1, upTo)]
             /\ drain' = [drain EXCEPT ![s] = "failed"]
             /\ UNCHANGED <<unread, buffer>>
  <2>1. PICK upTo \in Len(told)..(Len(state.lines) - 1) :
             /\ lines' = [lines EXCEPT ![s] = SubSeq(state.lines, 1, upTo)]
             /\ drain' = [drain EXCEPT ![s] = "failed"]
             /\ UNCHANGED <<unread, buffer>>
    BY <1>8
  <2> DEFINE few == SubSeq(state.lines, 1, upTo)
  <2>2. upTo \in Nat /\ upTo < Len(state.lines)
    BY <1>6
  <2>3. Pipe(text, rest, few, kept, most)
    BY <1>4, <2>2
  <2>4. few \in Seq(Nat)
    BY <2>3 DEF Pipe
  <2> HIDE DEF few
  <2>5. /\ lines' \in [Streams -> Seq(Nat)] /\ lines'[s] = few
        /\ \A o \in Streams : o # s => lines'[o] = lines[o]
    BY <1>3, <2>1, <2>4 DEF few
  <2>6. /\ drain' \in [Streams -> {"off", "reading", "ended", "failed", "stopped"}]
        /\ drain'[s] = "failed" /\ \A o \in Streams : o # s => drain'[o] = drain[o]
    BY <1>3, <2>1
  <2>7. Pipe(written[s], unread'[s], lines'[s], buffer'[s], MaxText[s])
    BY <2>1, <2>3, <2>5
  <2>8. /\ unread' = unread /\ buffer' = buffer
    BY <2>1
  <2> HIDE DEF text, rest, told, kept, most, acc
  <2> QED BY <1>1, <1>3, <2>5, <2>6, <2>7, <2>8, DrainKeepsTexts
<1> QED BY <1>5, <1>7, <1>8

(* It reports the fragment that is left, or fails.                          *)
LEMMA EndKeepsTexts ==
    ASSUME StreamInv, TextInv, NEW s \in Streams, Proc!End(s)
    PROVE  TextInv'
<1> DEFINE text == written[s]
           told == lines[s]
           kept == buffer[s]
           all == IF kept = 0 THEN told ELSE Append(told, kept)
           acc == [lines |-> told, buffer |-> kept]
           most == MaxText[s]
           none == << >>
<1>1. /\ drain[s] = "reading" /\ unread[s] = none /\ ~Proc!PipesHeld
      /\ UNCHANGED <<kind, call, ended, interrupted, leader, kid, timer, written, unread,
                     buffer>>
  BY DEF Proc!End, Proc!callVars, Proc!childVars
<1>2. \/ /\ drain' = [drain EXCEPT ![s] = "ended"]
         /\ lines' = IF kept = 0 THEN lines ELSE [lines EXCEPT ![s] = Append(@, kept)]
      \/ drain' = [drain EXCEPT ![s] = "failed"] /\ UNCHANGED lines
  BY DEF Proc!End
<1>3. /\ drain \in [Streams -> {"off", "reading", "ended", "failed", "stopped"}]
      /\ unread \in [Streams -> Text] /\ lines \in [Streams -> Seq(Nat)]
      /\ buffer \in [Streams -> Nat] /\ written \in [Streams -> Text]
      /\ Pipe(text, none, told, kept, most) /\ most \in Nat
      /\ Split(HasRead(text, none), acc)
  BY <1>1, CliAssumption DEF StreamInv, StreamTyped, TextInv, TextsTyped, ReadsWell
<1>4. text \in Text /\ Len(text) \in Nat /\ Len(text) <= most
  BY <1>3, TextFinite DEF Pipe
<1>5. HasRead(text, none) = text
  <2>1. Len(none) = 0 /\ Len(text) - 0 = Len(text)
    BY <1>4
  <2>2. text \in Seq(Proc!Tokens)
    BY <1>4 DEF Text
  <2> HIDE DEF text, none
  <2>3. SubSeq(text, 1, Len(text)) = text
    BY <2>2
  <2> QED BY <2>1, <2>3 DEF HasRead
<1>6. Split(text, acc)
  BY <1>3, <1>5
<1>7. all = Proc!LinesOf(text)
  <2>1. acc.lines = told /\ acc.buffer = kept
    OBVIOUS
  <2> HIDE DEF text, told, kept, acc
  <2>2. Proc!LinesOf(text) = IF acc.buffer = 0 THEN acc.lines
                             ELSE Append(acc.lines, acc.buffer)
    BY <1>4, <1>6, SplitIsAll
  <2> QED BY <2>1, <2>2
<1>8. CASE drain' = [drain EXCEPT ![s] = "failed"] /\ UNCHANGED lines
  <2>1. /\ drain' \in [Streams -> {"off", "reading", "ended", "failed", "stopped"}]
        /\ drain'[s] = "failed" /\ \A o \in Streams : o # s => drain'[o] = drain[o]
    BY <1>3, <1>8
  <2>2. Pipe(written[s], unread'[s], lines'[s], buffer'[s], MaxText[s])
    BY <1>1, <1>3, <1>8
  <2>3. lines' = lines
    BY <1>8
  <2> HIDE DEF text, told, kept, all, acc, most, none
  <2> QED BY <1>1, <1>3, <2>1, <2>2, <2>3, DrainKeepsTexts
<1>9. CASE /\ drain' = [drain EXCEPT ![s] = "ended"]
           /\ lines' = IF kept = 0 THEN lines ELSE [lines EXCEPT ![s] = Append(@, kept)]
  <2>1. /\ drain' \in [Streams -> {"off", "reading", "ended", "failed", "stopped"}]
        /\ drain'[s] = "ended" /\ \A o \in Streams : o # s => drain'[o] = drain[o]
    BY <1>3, <1>9
  <2>2. told \in Seq(Nat) /\ kept \in Nat /\ Append(told, kept) \in Seq(Nat)
    BY <1>3
  <2>3. /\ lines' \in [Streams -> Seq(Nat)] /\ lines'[s] = all
        /\ \A o \in Streams : o # s => lines'[o] = lines[o]
    <3>1. CASE kept = 0
      BY <1>3, <1>9, <3>1
    <3>2. CASE kept # 0
      <4>1. lines' = [lines EXCEPT ![s] = Append(told, kept)] /\ all = Append(told, kept)
        BY <1>9, <3>2
      <4> HIDE DEF told, kept, all
      <4> QED BY <1>3, <2>2, <4>1
    <3> QED BY <3>1, <3>2
  <2>4. Pipe(text, none, all, kept, most)
    <3>1. /\ text \in Text /\ none \in Text /\ Len(text) <= most /\ Len(none) <= Len(text)
          /\ \A i \in 1..Len(none) : none[i] = text[Len(text) - Len(none) + i]
          /\ kept <= most /\ Len(told) <= most
      BY <1>3 DEF Pipe
    <3>2. all \in Seq(Nat)
      BY <2>2
    <3>3. Len(all) <= most
      <4>1. Len(told) + kept <= Len(text) /\ Len(told) \in Nat
        BY <1>6, <2>2 DEF Split
      <4>2. CASE kept = 0
        BY <3>1, <4>2
      <4>3. CASE kept # 0
        <5>1. Len(all) = Len(told) + 1 /\ kept >= 1
          BY <2>2, <4>3
        <5> HIDE DEF text, told, kept, all, most
        <5> QED BY <1>3, <1>4, <2>2, <4>1, <5>1
      <4> QED BY <4>2, <4>3
    <3> QED BY <2>2, <3>1, <3>2, <3>3 DEF Pipe
  <2>5. Pipe(written[s], unread'[s], lines'[s], buffer'[s], MaxText[s])
    BY <1>1, <2>3, <2>4
  <2>6. lines'[s] = Proc!LinesOf(written[s])
    BY <1>7, <2>3
  <2> HIDE DEF text, told, kept, all, acc, most, none
  <2> QED BY <1>1, <1>3, <2>1, <2>3, <2>5, <2>6, DrainKeepsTexts
<1> QED BY <1>2, <1>8, <1>9

(* So each step keeps the texts and their lines.                            *)
LEMMA TextStep ==
    ASSUME StreamInv, TextInv,
           Proc!Uninterrupted \/ Proc!Interrupt \/ UNCHANGED procVars
    PROVE  TextInv'
  BY CallStepKeepsTexts, QuietStepKeepsTexts, WriteKeepsTexts, FailKeepsTexts,
     DataKeepsTexts, EndKeepsTexts DEF Proc!Uninterrupted, Proc!CallSteps, Proc!World

(* When a code is returned all drains have ended.                           *)
LEMMA CodeIsComplete == ASSUME TextInv PROVE Proc!ExitCodeIsComplete
<1> SUFFICES ASSUME ended = "code"
             PROVE  /\ Proc!Dead /\ kid = "none"
                    /\ \A s \in Streams : lines[s] = Proc!LinesOf(written[s])
  BY DEF Proc!ExitCodeIsComplete
<1>1. Proc!Dead /\ \A s \in Streams : drain[s] = "ended"
  BY DEF TextInv, CodeIsLast
<1>2. kid = "none"
  BY <1>1, CliAssumption DEF TextInv, NobodyWrites, Proc!PipesHeld
<1> QED BY <1>1, <1>2 DEF TextInv, ReadsWell

(* However the text is cut into chunks and whoever else holds the pipes, a  *)
(* call that returns an exit code has reported every line of what the child *)
(* wrote once and in order, to each stream, and has joined the child.       *)
THEOREM LinesAreWhole == Spec => []StreamedIsWhole
<1>1. Init => StreamInv /\ TextInv
  BY StreamInitial, TextInitial DEF Init
<1>2. StreamInv /\ TextInv /\ [Next]_vars => StreamInv' /\ TextInv'
  BY StreamStep, TextStep, PartsStep DEF PartSteps
<1>3. StreamInv /\ TextInv => StreamedIsWhole
  BY StreamJoined, CodeIsComplete DEF StreamedIsWhole
<1> QED BY <1>1, <1>2, <1>3, PTL DEF Spec

-----------------------------------------------------------------------------
(* Probes *)

(* What the kernel has answered, an attempt has settled on or the call has  *)
(* returned was so during the call.                                         *)
AnswersWereSeen ==
    /\ settled = "listening" \/ probed = "listening" \/ socket = "connected" =>
            TRUE \in seen
    /\ settled = "free" \/ probed = "free" \/ socket = "refused" => FALSE \in seen

(* One connect at a time, of a call that is under way. *)
OneAttempt ==
    /\ connects = 0 => settled = "none" /\ probed = "none"
    /\ connects > 0 => listening \in seen
    /\ socket # "none" => Port!UnderWay /\ settled = "none"

PortsInv == Port!TypeOK /\ AnswersWereSeen /\ OneAttempt

-----------------------------------------------------------------------------
(* Every step keeps the invariant. *)
LEMMA PortsStep == ASSUME PortsInv, [Port!Next \/ Port!Interrupt]_portVars PROVE PortsInv'
<1> USE DEF PortsInv, Port!TypeOK, AnswersWereSeen, OneAttempt, Port!UnderWay, Port!Results
<1>1. CASE Port!Begin
  BY <1>1 DEF Port!Begin, Port!Connect
<1>2. ASSUME socket # "none", NEW answer \in Port!Results, Port!Done(answer),
             answer = "listening" => socket = "connected",
             answer = "free" => socket = "refused"
      PROVE  PortsInv'
  <2>1. Port!TypeOK'
    BY <1>2 DEF Port!Done
  <2>2. AnswersWereSeen'
    BY <1>2 DEF Port!Done
  <2>3. listening' \in seen'
    BY <1>2 DEF Port!Done
  <2>4. OneAttempt'
    BY <1>2, <2>3 DEF Port!Done
  <2> QED BY <2>1, <2>2, <2>4
<1>2a. CASE Port!OnConnect \/ Port!OnError \/ Port!OnTimeout
  BY <1>2, <1>2a DEF Port!OnConnect, Port!OnError, Port!OnTimeout
<1>3. CASE Port!Return
  <2>1. CASE settled = "unknown" /\ connects = 1
    BY <1>3, <2>1 DEF Port!Return, Port!Connect
  <2>2. CASE ~(settled = "unknown" /\ connects = 1)
    BY <1>3, <2>2 DEF Port!Return
  <2> QED BY <2>1, <2>2
<1>4. CASE Port!KernelAnswers
  BY <1>4 DEF Port!KernelAnswers
<1>5. CASE Port!ServerChanges
  BY <1>5 DEF Port!ServerChanges
<1>6. CASE Port!Interrupt
  <2>1. Port!TypeOK'
    BY <1>6 DEF Port!Interrupt
  <2>2. AnswersWereSeen'
    BY <1>6 DEF Port!Interrupt
  <2>3. listening' \in seen'
    BY <1>6 DEF Port!Interrupt
  <2>4. OneAttempt'
    BY <1>6, <2>3 DEF Port!Interrupt
  <2> QED BY <2>1, <2>2, <2>4
<1>7. CASE UNCHANGED portVars
  BY <1>7 DEF portVars
<1> QED BY <1>1, <1>2a, <1>3, <1>4, <1>5, <1>6, <1>7 DEF Port!Next, Port!Steps

(* "a probe that ran out of time reports unknown, never free": listening    *)
(* and free were so at some time during the call, and no socket outlives    *)
(* it, though attempts are repeated and the server changes in between.      *)
THEOREM ProbesAreHonest == Spec => []ProbeIsHonest
<1>1. Init => PortsInv
  BY DEF Init, Port!Init, PortsInv, Port!TypeOK, AnswersWereSeen, OneAttempt, Port!UnderWay
<1>2. PortsInv /\ [Next]_vars => PortsInv'
  BY PortsStep, PartsStep DEF PartSteps
<1>3. PortsInv => ProbeIsHonest
  BY DEF PortsInv, Port!TypeOK, AnswersWereSeen, OneAttempt, ProbeIsHonest,
         Port!ProbeIsHonest, Port!InUse
<1> QED BY <1>1, <1>2, <1>3, PTL DEF Spec

-----------------------------------------------------------------------------
(* Scans *)

(* The greatest of some numbers that include their bound.                   *)
LEMMA Last ==
    ASSUME NEW n \in Nat, NEW S, S \subseteq 1..n, n \in S
    PROVE  Scan!Max(S) = n
<1>1. n \in S /\ \A y \in S : n >= y
  OBVIOUS
<1>2. \A x \in S : (\A y \in S : x >= y) => x = n
  <2>1. \A x \in S : x \in Nat /\ x <= n
    OBVIOUS
  <2> QED BY <2>1
<1> DEFINE m == CHOOSE x \in S : \A y \in S : x >= y
<1>3. m \in S /\ \A y \in S : m >= y
  BY <1>1
<1>4. Scan!Max(S) = m
  BY DEF Scan!Max
<1> HIDE DEF m
<1> QED BY <1>2, <1>3, <1>4

(* The states of a parse, line by line.                                     *)
Parsing(parse, out) ==
    /\ parse[0] = Scan!Empty
    /\ \A n \in 1..Len(out) : parse[n] = Scan!ParseLine(parse[n - 1], out[n])

LEMMA ParseStates ==
    ASSUME NEW out, Len(out) \in Nat
    PROVE  \E parse : Parsing(parse, out) /\ Scan!Parsed(out) = parse[Len(out)].records
<1> DEFINE Loop(f, m) ==
             f = [n \in 0..m |->
                     IF n = 0 THEN Scan!Empty ELSE Scan!ParseLine(f[n - 1], out[n])]
           Good == {m \in 0..Len(out) : \E f : Loop(f, m)}
<1>1. 0 \in Good
  <2> DEFINE f == [n \in 0..0 |-> Scan!Empty]
  <2>1. f = [n \in 0..0 |->
                IF n = 0 THEN Scan!Empty ELSE Scan!ParseLine(f[n - 1], out[n])]
    OBVIOUS
  <2>2. Loop(f, 0)
    BY <2>1
  <2> HIDE DEF Loop, f
  <2> QED BY <2>2
<1>2. ASSUME NEW m \in 1..Len(out), m - 1 \in Good PROVE m \in Good
  <2>1. PICK f : Loop(f, m - 1)
    BY <1>2
  <2> DEFINE g == [n \in 0..m |->
                      IF n = m THEN Scan!ParseLine(f[m - 1], out[m]) ELSE f[n]]
  <2>2. \A n \in 0..(m - 1) :
          f[n] = IF n = 0 THEN Scan!Empty ELSE Scan!ParseLine(f[n - 1], out[n])
    BY <2>1
  <2>3. ASSUME NEW n \in 0..m
        PROVE  g[n] = IF n = 0 THEN Scan!Empty ELSE Scan!ParseLine(g[n - 1], out[n])
    <3>1. CASE n = m
      <4>1. m # 0 /\ m - 1 \in 0..m /\ m - 1 # m
        OBVIOUS
      <4>2. g[m - 1] = f[m - 1] /\ g[m] = Scan!ParseLine(f[m - 1], out[m])
        BY <4>1
      <4> HIDE DEF g
      <4> QED BY <3>1, <4>1, <4>2
    <3>2. CASE n # m
      <4>1. n \in 0..(m - 1) /\ (n # 0 => n - 1 \in 0..m /\ n - 1 # m)
        BY <3>2
      <4>2. g[n] = f[n] /\ (n # 0 => g[n - 1] = f[n - 1])
        BY <3>2, <4>1
      <4> HIDE DEF g
      <4> QED BY <2>2, <4>1, <4>2
    <3> QED BY <3>1, <3>2
  <2>4. DOMAIN g = 0..m /\ g = [n \in 0..m |-> g[n]]
    OBVIOUS
  <2> HIDE DEF g
  <2>5. Loop(g, m)
    BY <2>3, <2>4
  <2>6. m \in 0..Len(out)
    OBVIOUS
  <2> HIDE DEF Loop
  <2> QED BY <2>5, <2>6
<1>3. Len(out) \in Good
  <2> HIDE DEF Good
  <2>1. \A m \in 0..Len(out) : m \in Good
    BY <1>1, <1>2, AllTurns
  <2> QED BY <2>1
<1> DEFINE parse == CHOOSE f : Loop(f, Len(out))
<1>4. Loop(parse, Len(out))
  <2>1. \E f : Loop(f, Len(out))
    BY <1>3
  <2> HIDE DEF Loop
  <2> QED BY <2>1
<1>5. Scan!Parsed(out) = parse[Len(out)].records
  BY DEF Scan!Parsed
<1> HIDE DEF parse
<1>6. \A n \in 0..Len(out) :
         parse[n] = IF n = 0 THEN Scan!Empty ELSE Scan!ParseLine(parse[n - 1], out[n])
  BY <1>4
<1>7. /\ 0 \in 0..Len(out)
      /\ \A n \in 1..Len(out) : n \in 0..Len(out) /\ n # 0
  OBVIOUS
<1>8. Parsing(parse, out)
  BY <1>6, <1>7 DEF Parsing
<1> QED BY <1>5, <1>8

(* What the first n lines of the output say: their processes, and the lines *)
(* of one of them with a tag.                                               *)
PidsTo(n) == {Scan!Owner(i) : i \in 1..n} \ {Bad}
OfTo(n, pid, tag) == {i \in 1..n : scan.out[i].tag = tag /\ Scan!Owner(i) = pid}
ValuesTo(n, pid, tag) == {scan.out[i].value : i \in OfTo(n, pid, tag)}

(* The processes of a prefix, and of the output.                            *)
LEMMA AllTold ==
    ASSUME Len(scan.out) \in Nat, DOMAIN scan.out = 1..Len(scan.out)
    PROVE  /\ Scan!Pids = PidsTo(Len(scan.out))
           /\ \A pid, tag : Scan!Of(pid, tag) = OfTo(Len(scan.out), pid, tag)
  BY DEF Scan!Pids, Scan!Of, PidsTo, OfTo

(* A p line begins a process; any other is of the one under way.            *)
LEMMA Owners ==
    ASSUME NEW n \in Nat, n # 0
    PROVE  Scan!Owner(n) = IF scan.out[n].tag = "p" THEN scan.out[n].value
                           ELSE Scan!Owner(n - 1)
<1> DEFINE starts(i) == {j \in 1..i : scan.out[j].tag = "p"}
<1>1. CASE scan.out[n].tag = "p"
  <2>1. n \in starts(n) /\ starts(n) \subseteq 1..n
    BY <1>1
  <2>2. Scan!Max(starts(n)) = n /\ starts(n) # {}
    BY <2>1, Last
  <2> QED BY <1>1, <2>2 DEF Scan!Owner
<1>2. CASE scan.out[n].tag # "p"
  <2>1. starts(n) = starts(n - 1)
    <3>1. \A j : j \in 1..n /\ j # n <=> j \in 1..(n - 1)
      OBVIOUS
    <3> QED BY <1>2, <3>1
  <2> QED BY <1>2, <2>1 DEF Scan!Owner
<1> QED BY <1>1, <1>2

(* Before the first line no process is under way.                           *)
LEMMA OwnerFirst == Scan!Owner(0) = Bad
<1>1. {j \in 1..0 : scan.out[j].tag = "p"} = {}
  OBVIOUS
<1> QED BY <1>1 DEF Scan!Owner

(* What a line adds.                                                        *)
LEMMA ToldMore ==
    ASSUME NEW n \in Nat, n # 0
    PROVE  /\ PidsTo(n) = (PidsTo(n - 1) \cup {Scan!Owner(n)}) \ {Bad}
           /\ \A pid, tag :
                OfTo(n, pid, tag) =
                    IF scan.out[n].tag = tag /\ Scan!Owner(n) = pid
                    THEN OfTo(n - 1, pid, tag) \cup {n}
                    ELSE OfTo(n - 1, pid, tag)
<1>1. 1..n = (1..(n - 1)) \cup {n}
  OBVIOUS
<1>2. PidsTo(n) = (PidsTo(n - 1) \cup {Scan!Owner(n)}) \ {Bad}
  BY <1>1 DEF PidsTo
<1>3. ASSUME NEW pid, NEW tag
      PROVE  OfTo(n, pid, tag) =
                 IF scan.out[n].tag = tag /\ Scan!Owner(n) = pid
                 THEN OfTo(n - 1, pid, tag) \cup {n}
                 ELSE OfTo(n - 1, pid, tag)
  BY <1>1 DEF OfTo
<1> QED BY <1>2, <1>3

(* The process under way is one of them, unless it is Bad; one of whom      *)
(* nothing was said has no lines.                                           *)
LEMMA UnderWay ==
    ASSUME NEW n \in Nat
    PROVE  /\ Scan!Owner(n) \in PidsTo(n) \cup {Bad}
           /\ Bad \notin PidsTo(n)
           /\ \A pid, tag : pid \notin PidsTo(n) /\ pid # Bad => OfTo(n, pid, tag) = {}
<1>1. Scan!Owner(n) \in PidsTo(n) \cup {Bad}
  <2>1. CASE n = 0
    BY <2>1, OwnerFirst
  <2>2. CASE n # 0
    <3>1. n \in 1..n
      BY <2>2
    <3> QED BY <3>1 DEF PidsTo
  <2> QED BY <2>1, <2>2
<1>2. \A pid, tag : pid \notin PidsTo(n) /\ pid # Bad => OfTo(n, pid, tag) = {}
  BY DEF PidsTo, OfTo
<1> QED BY <1>1, <1>2 DEF PidsTo

(* The last of some lines.                                                  *)
LastValue(n, pid, tag) == scan.out[Scan!Max(OfTo(n, pid, tag))].value

(* A line that is added is the last.                                        *)
LEMMA LastAdded ==
    ASSUME NEW n \in Nat, n # 0, NEW pid, NEW tag,
           scan.out[n].tag = tag, Scan!Owner(n) = pid
    PROVE  /\ OfTo(n, pid, tag) # {} /\ LastValue(n, pid, tag) = scan.out[n].value
           /\ ValuesTo(n, pid, tag) = ValuesTo(n - 1, pid, tag) \cup {scan.out[n].value}
<1>1. /\ n \in OfTo(n, pid, tag) /\ OfTo(n, pid, tag) \subseteq 1..n
      /\ OfTo(n, pid, tag) = OfTo(n - 1, pid, tag) \cup {n}
  BY ToldMore DEF OfTo
<1>2. Scan!Max(OfTo(n, pid, tag)) = n
  BY <1>1, Last
<1> QED BY <1>1, <1>2 DEF LastValue, ValuesTo

(* A port that was not among those of a process.                            *)
LEMMA PortAdded ==
    ASSUME NEW V, NEW ports \in Seq(V), NEW v \in V,
           Scan!IsInjective(ports), v \notin Scan!Range(ports)
    PROVE  /\ Append(ports, v) \in Seq(V) /\ Scan!IsInjective(Append(ports, v))
           /\ Scan!Range(Append(ports, v)) = Scan!Range(ports) \cup {v}
<1> DEFINE more == Append(ports, v)
           last == Len(ports) + 1
<1>1. /\ more \in Seq(V) /\ Len(ports) \in Nat /\ Len(more) = last /\ more[last] = v
      /\ \A i \in 1..Len(ports) : more[i] = ports[i]
      /\ DOMAIN more = 1..last /\ DOMAIN ports = 1..Len(ports)
  OBVIOUS
<1>2. 1..last = (1..Len(ports)) \cup {last} /\ last \notin 1..Len(ports)
  BY <1>1
<1> HIDE DEF more, last
<1>3. \A i \in 1..Len(ports) : ports[i] # v
  BY <1>1 DEF Scan!Range
<1>4. Scan!IsInjective(more)
  <2> SUFFICES ASSUME NEW a \in DOMAIN more, NEW b \in DOMAIN more, more[a] = more[b]
               PROVE  a = b
    BY DEF Scan!IsInjective
  <2>1. a \in 1..Len(ports) \/ a = last
    BY <1>1, <1>2
  <2>2. b \in 1..Len(ports) \/ b = last
    BY <1>1, <1>2
  <2> QED BY <1>1, <1>3, <2>1, <2>2 DEF Scan!IsInjective
<1>5. Scan!Range(more) = Scan!Range(ports) \cup {v}
  BY <1>1, <1>2 DEF Scan!Range
<1> QED BY <1>1, <1>4, <1>5 DEF more

Values == {scan.out[i].value : i \in DOMAIN scan.out} \cup {Bad}

(* What was parsed of the first n lines: the process under way, and of each *)
(* one its ports once each, and its last name; or its last directory.       *)
RecordRight(n, pid, record) ==
    /\ record \in [command : Values, ports : Seq(Values)]
    /\ Scan!IsInjective(record.ports)
    /\ Scan!Range(record.ports) = ValuesTo(n, pid, "n") \ {Bad}
    /\ record.command = IF OfTo(n, pid, "c") = {} THEN Bad ELSE LastValue(n, pid, "c")

ListenersRight(n, parse) ==
    /\ parse = [records |-> parse.records, current |-> Scan!Owner(n)]
    /\ DOMAIN parse.records = PidsTo(n)
    /\ \A pid \in PidsTo(n) : RecordRight(n, pid, parse.records[pid])

CwdsRight(n, parse) ==
    /\ parse = [records |-> parse.records, current |-> Scan!Owner(n)]
    /\ DOMAIN parse.records = {pid \in PidsTo(n) : OfTo(n, pid, "n") # {}}
    /\ \A pid \in DOMAIN parse.records : parse.records[pid] = LastValue(n, pid, "n")

(* Nothing was said of a process that begins.                               *)
LEMMA RecordBegun ==
    ASSUME NEW n \in Nat, NEW pid, OfTo(n, pid, "n") = {}, OfTo(n, pid, "c") = {}
    PROVE  RecordRight(n, pid, [command |-> Bad, ports |-> <<>>])
<1> DEFINE none == << >>
           record == [command |-> Bad, ports |-> none]
<1>1. none \in Seq(Values) /\ DOMAIN none = {}
  OBVIOUS
<1>2. Scan!IsInjective(none) /\ Scan!Range(none) = {}
  BY <1>1 DEF Scan!IsInjective, Scan!Range
<1>3. ValuesTo(n, pid, "n") = {}
  BY DEF ValuesTo
<1> HIDE DEF none
<1>4. record \in [command : Values, ports : Seq(Values)]
  BY <1>1 DEF Values
<1>5. record.ports = none /\ record.command = Bad
  OBVIOUS
<1> HIDE DEF record
<1>6. RecordRight(n, pid, record)
  BY <1>2, <1>3, <1>4, <1>5 DEF RecordRight
<1> QED BY <1>6 DEF record, none

(* A record of which a line says nothing.                                   *)
LEMMA RecordStays ==
    ASSUME NEW n \in Nat, n # 0, NEW pid, NEW record, RecordRight(n - 1, pid, record),
           OfTo(n, pid, "n") = OfTo(n - 1, pid, "n"), OfTo(n, pid, "c") = OfTo(n - 1, pid, "c")
    PROVE  RecordRight(n, pid, record)
  BY DEF RecordRight, ValuesTo, LastValue

(* One that it names.                                                       *)
LEMMA RecordNamed ==
    ASSUME NEW n \in 1..Len(scan.out), DOMAIN scan.out = 1..Len(scan.out), Len(scan.out) \in Nat,
           NEW pid, NEW record, RecordRight(n - 1, pid, record),
           scan.out[n].tag = "c", Scan!Owner(n) = pid
    PROVE  RecordRight(n, pid, [record EXCEPT !.command = scan.out[n].value])
<1> DEFINE named == [record EXCEPT !.command = scan.out[n].value]
<1>1. n \in Nat /\ n # 0 /\ scan.out[n].value \in Values
  BY DEF Values
<1>2. OfTo(n, pid, "n") = OfTo(n - 1, pid, "n")
  BY <1>1, ToldMore
<1>3. OfTo(n, pid, "c") # {} /\ LastValue(n, pid, "c") = scan.out[n].value
  BY <1>1, LastAdded
<1>4. record \in [command : Values, ports : Seq(Values)]
  BY DEF RecordRight
<1>5. /\ named \in [command : Values, ports : Seq(Values)]
      /\ named.ports = record.ports /\ named.command = scan.out[n].value
  BY <1>1, <1>4
<1> HIDE DEF named
<1>6. RecordRight(n, pid, named)
  BY <1>2, <1>3, <1>5 DEF RecordRight, ValuesTo
<1> QED BY <1>6 DEF named

(* One to which it adds a port, or a port that is there, or none.           *)
LEMMA RecordAdded ==
    ASSUME NEW n \in 1..Len(scan.out), DOMAIN scan.out = 1..Len(scan.out), Len(scan.out) \in Nat,
           NEW pid, NEW record, RecordRight(n - 1, pid, record),
           scan.out[n].tag = "n", Scan!Owner(n) = pid
    PROVE  /\ scan.out[n].value \in Scan!Range(record.ports) \cup {Bad} =>
                RecordRight(n, pid, record)
           /\ scan.out[n].value \notin Scan!Range(record.ports) \cup {Bad} =>
                RecordRight(n, pid, [record EXCEPT !.ports = Append(@, scan.out[n].value)])
<1> DEFINE v == scan.out[n].value
           more == Append(record.ports, v)
           added == [record EXCEPT !.ports = more]
<1>1. n \in Nat /\ n # 0 /\ v \in Values
  BY DEF Values
<1>2. OfTo(n, pid, "c") = OfTo(n - 1, pid, "c")
  BY <1>1, ToldMore
<1>3. ValuesTo(n, pid, "n") = ValuesTo(n - 1, pid, "n") \cup {v}
  BY <1>1, LastAdded
<1>4. /\ record \in [command : Values, ports : Seq(Values)]
      /\ Scan!IsInjective(record.ports)
      /\ Scan!Range(record.ports) = ValuesTo(n - 1, pid, "n") \ {Bad}
  BY DEF RecordRight
<1> HIDE DEF v
<1>5. v \in Scan!Range(record.ports) \cup {Bad} => RecordRight(n, pid, record)
  <2> SUFFICES ASSUME v \in Scan!Range(record.ports) \cup {Bad}
               PROVE  Scan!Range(record.ports) = ValuesTo(n, pid, "n") \ {Bad}
    BY <1>2 DEF RecordRight, LastValue
  <2> QED BY <1>3, <1>4
<1>6. ASSUME v \notin Scan!Range(record.ports) \cup {Bad} PROVE RecordRight(n, pid, added)
  <2>1. record.ports \in Seq(Values)
    BY <1>4
  <2>2. /\ more \in Seq(Values) /\ Scan!IsInjective(more)
        /\ Scan!Range(more) = Scan!Range(record.ports) \cup {v}
    BY <1>1, <1>4, <1>6, <2>1, PortAdded
  <2> HIDE DEF more
  <2>3. /\ added \in [command : Values, ports : Seq(Values)]
        /\ added.ports = more /\ added.command = record.command
    BY <1>4, <2>2
  <2> HIDE DEF added
  <2>4. Scan!Range(more) = ValuesTo(n, pid, "n") \ {Bad}
    BY <1>3, <1>4, <1>6, <2>2
  <2> QED BY <1>2, <2>2, <2>3, <2>4 DEF RecordRight, LastValue
<1>7. added = [record EXCEPT !.ports = Append(@, v)]
  BY DEF added
<1> QED BY <1>5, <1>6, <1>7 DEF v

(* A line of lsof's output, to the parse of listeners.                      *)
LEMMA ListenersGoOn ==
    ASSUME NEW n \in 1..Len(scan.out), DOMAIN scan.out = 1..Len(scan.out), Len(scan.out) \in Nat,
           NEW parse, ListenersRight(n - 1, parse)
    PROVE  ListenersRight(n, Scan!ListenerLine(parse, scan.out[n]))
<1> DEFINE line == scan.out[n]
           next == Scan!ListenerLine(parse, line)
           was == Scan!Owner(n - 1)
           now == Scan!Owner(n)
           record == parse.records[was]
<1> SUFFICES ListenersRight(n, next)
  OBVIOUS
<1>0. n \in Nat /\ n # 0 /\ n - 1 \in Nat
  OBVIOUS
<1>1. /\ parse = [records |-> parse.records, current |-> was]
      /\ DOMAIN parse.records = PidsTo(n - 1)
      /\ \A pid \in PidsTo(n - 1) : RecordRight(n - 1, pid, parse.records[pid])
  BY DEF ListenersRight
<1>2. now = IF line.tag = "p" THEN line.value ELSE was
  BY <1>0, Owners
<1>3. /\ PidsTo(n) = (PidsTo(n - 1) \cup {now}) \ {Bad}
      /\ \A pid, tag : OfTo(n, pid, tag) = IF line.tag = tag /\ now = pid
                                           THEN OfTo(n - 1, pid, tag) \cup {n}
                                           ELSE OfTo(n - 1, pid, tag)
  BY <1>0, ToldMore
<1>4. /\ was \in PidsTo(n - 1) \cup {Bad} /\ Bad \notin PidsTo(n - 1)
      /\ \A pid, tag : pid \notin PidsTo(n - 1) /\ pid # Bad => OfTo(n - 1, pid, tag) = {}
  BY <1>0, UnderWay
<1>5. ASSUME NEW pid \in PidsTo(n - 1),
             OfTo(n, pid, "n") = OfTo(n - 1, pid, "n"),
             OfTo(n, pid, "c") = OfTo(n - 1, pid, "c")
      PROVE  RecordRight(n, pid, parse.records[pid])
  <2> DEFINE kept == parse.records[pid]
  <2>1. RecordRight(n - 1, pid, kept)
    BY <1>1
  <2> HIDE DEF kept
  <2>2. RecordRight(n, pid, kept)
    BY <1>0, <1>5, <2>1, RecordStays
  <2> QED BY <2>2 DEF kept
<1>6. CASE line.tag = "p" /\ line.value \in PidsTo(n - 1) \cup {Bad}
  <2>1. next = [records |-> parse.records, current |-> line.value]
    BY <1>1, <1>6 DEF Scan!ListenerLine
  <2>2. PidsTo(n) = PidsTo(n - 1) /\ now = line.value
    BY <1>2, <1>3, <1>4, <1>6
  <2>3. \A pid \in PidsTo(n) : RecordRight(n, pid, parse.records[pid])
    BY <1>3, <1>5, <1>6, <2>2
  <2> HIDE DEF next, line, now
  <2> QED BY <1>1, <2>1, <2>2, <2>3 DEF ListenersRight, now, next, line
<1>7. CASE line.tag = "p" /\ line.value \notin PidsTo(n - 1) \cup {Bad}
  <2> DEFINE fresh == [command |-> Bad, ports |-> <<>>]
             records == Scan!Extended(parse.records, line.value, fresh)
  <2>1. next = [records |-> records, current |-> line.value]
    BY <1>1, <1>7 DEF Scan!ListenerLine
  <2>2. /\ PidsTo(n) = PidsTo(n - 1) \cup {line.value} /\ now = line.value
        /\ \A pid : /\ OfTo(n, pid, "n") = OfTo(n - 1, pid, "n")
                    /\ OfTo(n, pid, "c") = OfTo(n - 1, pid, "c")
    BY <1>2, <1>3, <1>4, <1>7
  <2>3. RecordRight(n, line.value, fresh)
    BY <1>0, <1>4, <1>7, <2>2, RecordBegun
  <2>4. /\ DOMAIN records = PidsTo(n)
        /\ records[line.value] = fresh
        /\ \A pid \in PidsTo(n - 1) : records[pid] = parse.records[pid]
    BY <1>1, <1>7, <2>2 DEF Scan!Extended
  <2> HIDE DEF fresh, records
  <2>5. \A pid \in PidsTo(n) : RecordRight(n, pid, records[pid])
    BY <1>5, <2>2, <2>3, <2>4
  <2> HIDE DEF next, line, now
  <2> QED BY <2>1, <2>2, <2>4, <2>5 DEF ListenersRight, now, next, line
<1>8. ASSUME line.tag # "p"
      PROVE  now = was /\ PidsTo(n) = PidsTo(n - 1)
  BY <1>2, <1>3, <1>4, <1>8
<1>9. ASSUME NEW changed, line.tag # "p", was # Bad,
             next = [records |-> Scan!Extended(parse.records, was, changed), current |-> was],
             RecordRight(n, was, changed)
      PROVE  ListenersRight(n, next)
  <2> DEFINE records == Scan!Extended(parse.records, was, changed)
  <2>1. was \in PidsTo(n - 1) /\ now = was /\ PidsTo(n) = PidsTo(n - 1)
    BY <1>4, <1>8, <1>9
  <2>2. /\ DOMAIN records = PidsTo(n)
        /\ records[was] = changed
        /\ \A pid \in PidsTo(n) : pid # was => records[pid] = parse.records[pid]
    BY <1>1, <2>1 DEF Scan!Extended
  <2> HIDE DEF records
  <2>3. \A pid \in PidsTo(n) : RecordRight(n, pid, records[pid])
    BY <1>3, <1>5, <1>9, <2>1, <2>2
  <2> HIDE DEF next, line, now, was
  <2> QED BY <1>9, <2>1, <2>2, <2>3 DEF ListenersRight, records, now, was
<1>10. CASE line.tag = "c" /\ was # Bad
  <2> DEFINE changed == [record EXCEPT !.command = line.value]
  <2>1. next = [records |-> Scan!Extended(parse.records, was, changed), current |-> was]
    BY <1>1, <1>10 DEF Scan!ListenerLine
  <2>2. RecordRight(n - 1, was, record) /\ now = was
    BY <1>1, <1>4, <1>8, <1>10
  <2> HIDE DEF record
  <2>3. RecordRight(n, was, changed)
    BY <1>10, <2>2, RecordNamed
  <2> HIDE DEF changed, next, was, line
  <2> QED BY <1>9, <1>10, <2>1, <2>3
<1>11. CASE line.tag = "n" /\ was # Bad
  <2> DEFINE changed == [record EXCEPT !.ports = Append(@, line.value)]
  <2>1. RecordRight(n - 1, was, record) /\ now = was /\ was \in PidsTo(n)
    BY <1>1, <1>4, <1>8, <1>11
  <2>2. /\ line.value \in Scan!Range(record.ports) \cup {Bad} => RecordRight(n, was, record)
        /\ line.value \notin Scan!Range(record.ports) \cup {Bad} =>
             RecordRight(n, was, changed)
    <3> HIDE DEF record
    <3> QED BY <1>11, <2>1, RecordAdded
  <2>3. CASE line.value \in Scan!Range(record.ports) \cup {Bad}
    <3>1. next = parse
      BY <1>1, <1>11, <2>3 DEF Scan!ListenerLine
    <3>2. \A pid \in PidsTo(n) : RecordRight(n, pid, parse.records[pid])
      BY <1>3, <1>5, <1>8, <1>11, <2>2, <2>3
    <3> HIDE DEF next, line, now, was
    <3> QED BY <1>1, <1>8, <1>11, <3>1, <3>2 DEF ListenersRight, now, was, next, line
  <2>4. CASE line.value \notin Scan!Range(record.ports) \cup {Bad}
    <3>1. next = [records |-> Scan!Extended(parse.records, was, changed), current |-> was]
      <4>1. parse.current = was
        BY <1>1
      <4>2. next = [parse EXCEPT !.records = Scan!Extended(@, was, changed)]
        BY <1>11, <2>4, <4>1 DEF Scan!ListenerLine
      <4> HIDE DEF next, changed
      <4> QED BY <1>1, <4>2
    <3>2. RecordRight(n, was, changed)
      BY <2>2, <2>4
    <3> HIDE DEF changed, next, was, line
    <3> QED BY <1>9, <1>11, <3>1, <3>2
  <2> QED BY <2>3, <2>4
<1>12. CASE line.tag # "p" /\ (line.tag \notin {"c", "n"} \/ was = Bad)
  <2>1. next = parse
    BY <1>1, <1>12 DEF Scan!ListenerLine
  <2>2. \A pid \in PidsTo(n) : RecordRight(n, pid, parse.records[pid])
    BY <1>3, <1>4, <1>5, <1>8, <1>12
  <2> HIDE DEF next, line, now, was
  <2> QED BY <1>1, <1>8, <1>12, <2>1, <2>2 DEF ListenersRight, now, was, next, line
<1> QED BY <1>6, <1>7, <1>10, <1>11, <1>12

(* And to the parse of working directories.                                 *)
LEMMA CwdsGoOn ==
    ASSUME NEW n \in 1..Len(scan.out), DOMAIN scan.out = 1..Len(scan.out), Len(scan.out) \in Nat,
           NEW parse, CwdsRight(n - 1, parse)
    PROVE  CwdsRight(n, Scan!CwdLine(parse, scan.out[n]))
<1> DEFINE line == scan.out[n]
           next == Scan!CwdLine(parse, line)
           was == Scan!Owner(n - 1)
           now == Scan!Owner(n)
           told(m) == {pid \in PidsTo(m) : OfTo(m, pid, "n") # {}}
<1>0. n \in Nat /\ n # 0 /\ n - 1 \in Nat
  OBVIOUS
<1>1. /\ parse = [records |-> parse.records, current |-> was]
      /\ DOMAIN parse.records = told(n - 1)
      /\ \A pid \in told(n - 1) : parse.records[pid] = LastValue(n - 1, pid, "n")
  BY DEF CwdsRight
<1>2. now = IF line.tag = "p" THEN line.value ELSE was
  BY <1>0, Owners
<1>3. /\ PidsTo(n) = (PidsTo(n - 1) \cup {now}) \ {Bad}
      /\ \A pid : OfTo(n, pid, "n") = IF line.tag = "n" /\ now = pid
                                      THEN OfTo(n - 1, pid, "n") \cup {n}
                                      ELSE OfTo(n - 1, pid, "n")
  BY <1>0, ToldMore
<1>4. /\ was \in PidsTo(n - 1) \cup {Bad} /\ Bad \notin PidsTo(n - 1)
      /\ \A pid : pid \notin PidsTo(n - 1) /\ pid # Bad => OfTo(n - 1, pid, "n") = {}
  BY <1>0, UnderWay
<1>5. \A pid : OfTo(n, pid, "n") = OfTo(n - 1, pid, "n") =>
                 LastValue(n, pid, "n") = LastValue(n - 1, pid, "n")
  BY DEF LastValue
<1>6. CASE line.tag = "p"
  <2>1. next = [records |-> parse.records, current |-> line.value] /\ now = line.value
    BY <1>1, <1>2, <1>6 DEF Scan!CwdLine
  <2>2. \A pid : OfTo(n, pid, "n") = OfTo(n - 1, pid, "n")
    BY <1>3, <1>6
  <2>3. told(n) = told(n - 1)
    BY <1>3, <1>4, <2>2
  <2> HIDE DEF next, line, now, was
  <2> QED BY <1>1, <1>5, <2>1, <2>2, <2>3 DEF CwdsRight, next, line, now
<1>7. CASE line.tag = "n" /\ was # Bad
  <2> DEFINE records == Scan!Extended(parse.records, was, line.value)
  <2>1. next = [records |-> records, current |-> was] /\ now = was
    BY <1>1, <1>2, <1>7 DEF Scan!CwdLine
  <2>2. PidsTo(n) = PidsTo(n - 1) /\ was \in PidsTo(n)
    BY <1>3, <1>4, <1>7, <2>1
  <2>3. OfTo(n, was, "n") # {} /\ LastValue(n, was, "n") = line.value
    BY <1>0, <1>7, <2>1, LastAdded
  <2>4. \A pid : pid # was => OfTo(n, pid, "n") = OfTo(n - 1, pid, "n")
    BY <1>3, <2>1
  <2>5. told(n) = told(n - 1) \cup {was}
    BY <2>2, <2>3, <2>4
  <2>6. /\ DOMAIN records = told(n)
        /\ records[was] = line.value
        /\ \A pid \in told(n) : pid # was => records[pid] = parse.records[pid]
    BY <1>1, <2>5 DEF Scan!Extended
  <2> HIDE DEF records
  <2>7. \A pid \in told(n) : records[pid] = LastValue(n, pid, "n")
    BY <1>1, <1>5, <2>3, <2>4, <2>5, <2>6
  <2> HIDE DEF next, line, now, was
  <2> QED BY <2>1, <2>6, <2>7 DEF CwdsRight, next, line, now, was
<1>8. CASE line.tag # "p" /\ (line.tag # "n" \/ was = Bad)
  <2>1. next = parse /\ now = was
    BY <1>1, <1>2, <1>8 DEF Scan!CwdLine
  <2>2. PidsTo(n) = PidsTo(n - 1)
    BY <1>3, <1>4, <2>1
  <2>3. \A pid \in PidsTo(n) : OfTo(n, pid, "n") = OfTo(n - 1, pid, "n")
    BY <1>3, <1>4, <1>8, <2>1, <2>2
  <2>4. told(n) = told(n - 1)
    BY <2>2, <2>3
  <2> HIDE DEF next, line, now, was
  <2> QED BY <1>1, <1>5, <2>1, <2>3, <2>4 DEF CwdsRight, next, line, now, was
<1> QED BY <1>6, <1>7, <1>8

(* So the whole output is parsed to what it says.                           *)
LEMMA ParsedRight ==
    ASSUME asked \in {"listeners", "cwds"}, Len(scan.out) \in Nat, DOMAIN scan.out = 1..Len(scan.out)
    PROVE  \E parse : /\ Scan!Parsed(scan.out) = parse.records
                      /\ asked = "listeners" => ListenersRight(Len(scan.out), parse)
                      /\ asked = "cwds" => CwdsRight(Len(scan.out), parse)
<1>1. PICK parse : Parsing(parse, scan.out) /\ Scan!Parsed(scan.out) = parse[Len(scan.out)].records
  BY ParseStates
<1> DEFINE Right(n) == /\ asked = "listeners" => ListenersRight(n, parse[n])
                       /\ asked = "cwds" => CwdsRight(n, parse[n])
           Good == {n \in 0..Len(scan.out) : Right(n)}
<1>2. Right(0)
  <2> DEFINE none == << >>
  <2>1. parse[0] = [records |-> none, current |-> Bad] /\ DOMAIN none = {}
    BY <1>1 DEF Parsing, Scan!Empty
  <2>2. PidsTo(0) = {}
    BY DEF PidsTo
  <2> HIDE DEF none
  <2>3. parse[0].records = none /\ parse[0] = [records |-> parse[0].records, current |-> Bad]
    BY <2>1
  <2>4. asked = "listeners" => ListenersRight(0, parse[0])
    BY <2>1, <2>2, <2>3, OwnerFirst DEF ListenersRight
  <2>5. asked = "cwds" => CwdsRight(0, parse[0])
    BY <2>1, <2>2, <2>3, OwnerFirst DEF CwdsRight
  <2> QED BY <2>4, <2>5
<1>3. ASSUME NEW n \in 1..Len(scan.out), Right(n - 1) PROVE Right(n)
  <2> DEFINE old == parse[n - 1]
  <2>1. parse[n] = Scan!ParseLine(old, scan.out[n])
    BY <1>1 DEF Parsing
  <2>2. CASE asked = "listeners"
    <3>1. ListenersRight(n - 1, old)
      BY <1>3, <2>2
    <3>2. parse[n] = Scan!ListenerLine(old, scan.out[n])
      BY <2>1, <2>2 DEF Scan!ParseLine
    <3> HIDE DEF old
    <3>3. ListenersRight(n, Scan!ListenerLine(old, scan.out[n]))
      BY <3>1, ListenersGoOn
    <3> QED BY <2>2, <3>2, <3>3
  <2>3. CASE asked = "cwds"
    <3>1. CwdsRight(n - 1, old)
      BY <1>3, <2>3
    <3>2. parse[n] = Scan!CwdLine(old, scan.out[n])
      BY <2>1, <2>3 DEF Scan!ParseLine
    <3> HIDE DEF old
    <3>3. CwdsRight(n, Scan!CwdLine(old, scan.out[n]))
      BY <3>1, CwdsGoOn
    <3> QED BY <2>3, <3>2, <3>3
  <2> QED BY <2>2, <2>3
<1>4. Right(Len(scan.out))
  <2>1. 0 \in Good /\ Len(scan.out) \in 0..Len(scan.out)
    BY <1>2
  <2>2. \A i \in 1..Len(scan.out) : i - 1 \in Good => i \in Good
    <3> SUFFICES ASSUME NEW i \in 1..Len(scan.out), Right(i - 1) PROVE i \in Good
      BY DEF Good
    <3>1. Right(i)
      BY <1>3
    <3>2. i \in 0..Len(scan.out)
      OBVIOUS
    <3> HIDE DEF Right
    <3> QED BY <3>1, <3>2
  <2> HIDE DEF Good
  <2>3. \A i \in 0..Len(scan.out) : i \in Good
    BY <2>1, <2>2, AllTurns
  <2>4. Len(scan.out) \in Good
    BY <2>1, <2>3
  <2> QED BY <2>4 DEF Good
<1> QED BY <1>1, <1>4

(* The state of a scan: what answers is all of the output, or what an lsof  *)
(* had printed that somebody killed.                                        *)
ScanTyped ==
    /\ asked \in {"listeners", "cwds"} /\ world \in Worlds
    /\ scans \in 0..2 /\ scanned \in {"none", "some", "unknown", "interrupted"}
    /\ scan.complete \in BOOLEAN /\ killed \in BOOLEAN
    /\ scan.out \in {<<>>, world} \cup Scan!CutShort

ScanInv == ScanTyped /\ (scanned = "some" /\ scans > 0 => scan.out = world \/ killed)

(* No scan has begun.                                                       *)
LEMMA ScanInitial == ASSUME Scan!Init PROVE ScanInv
<1>1. scan = [out |-> <<>>, complete |-> FALSE]
  BY DEF Scan!Init, Scan!NoScan
<1>2. scan.out = <<>> /\ scan.complete \in BOOLEAN
  BY <1>1
<1>3. killed \in BOOLEAN
  BY DEF Scan!Init
<1>4. /\ asked \in {"listeners", "cwds"} /\ world \in Worlds /\ scans = 0
      /\ scanned = "none"
  BY DEF Scan!Init
<1>5. scan.out \in {<<>>, world} \cup Scan!CutShort
  BY <1>2
<1>6. ScanTyped
  BY <1>2, <1>3, <1>4, <1>5 DEF ScanTyped
<1> QED BY <1>4, <1>6 DEF ScanInv

(* An attempt that its budget cuts short answers nothing.                   *)
LEMMA ScanStep == ASSUME ScanInv, [Scan!Next \/ Scan!Interrupt]_scanVars PROVE ScanInv'
<1>0. world' = world => Scan!CutShort' = Scan!CutShort
  BY DEF Scan!CutShort, Scan!Cut
<1>1. CASE Scan!Begin
  <2>1. UNCHANGED <<asked, world, killed>> /\ scanned = "none" /\ scans = 0
    BY <1>1 DEF Scan!Begin
  <2>2. \/ scans' = 1 /\ UNCHANGED <<scan, scanned>>
        \/ /\ scanned' = "some" /\ scans' = 0
           /\ scan' = [out |-> <<>>, complete |-> TRUE]
    BY <1>1, <2>1 DEF Scan!Begin
  <2>3. CASE scans' = 1 /\ UNCHANGED <<scan, scanned>>
    BY <1>0, <2>1, <2>3 DEF ScanInv, ScanTyped
  <2>4. CASE scanned' = "some" /\ scans' = 0 /\ scan' = [out |-> <<>>, complete |-> TRUE]
    <3>1. scan'.out = <<>> /\ scan'.complete = TRUE
      BY <2>4
    <3> QED BY <1>0, <2>1, <2>4, <3>1 DEF ScanInv, ScanTyped
  <2> QED BY <2>2, <2>3, <2>4
<1>2. CASE Scan!ScanFinishes
  <2>1. /\ UNCHANGED <<asked, world, scans, killed>> /\ scanned' = "some"
        /\ scan'.out = world /\ scan'.complete = TRUE
    BY <1>2 DEF Scan!ScanFinishes
  <2> QED BY <1>0, <2>1 DEF ScanInv, ScanTyped
<1>3. CASE Scan!ScanFails
  <2>1. UNCHANGED <<asked, world, killed>> /\ scanned = "none"
    BY <1>3 DEF Scan!ScanFails
  <2>2. \/ scans' = 2 /\ UNCHANGED <<scan, scanned>>
        \/ /\ scanned' = "unknown" /\ scans' = scans
           /\ scan' = [out |-> <<>>, complete |-> FALSE]
    BY <1>3 DEF Scan!ScanFails, Scan!NoScan
  <2>3. CASE scans' = 2 /\ UNCHANGED <<scan, scanned>>
    BY <1>0, <2>1, <2>3 DEF ScanInv, ScanTyped
  <2>4. CASE scanned' = "unknown" /\ scans' = scans /\ scan' = [out |-> <<>>, complete |-> FALSE]
    <3>1. scan'.out = <<>> /\ scan'.complete = FALSE
      BY <2>4
    <3> QED BY <1>0, <2>1, <2>4, <3>1 DEF ScanInv, ScanTyped
  <2> QED BY <2>2, <2>3, <2>4
<1>4. CASE Scan!ScanKilled
  <2>1. PICK out \in Scan!CutShort : scan' = [out |-> out, complete |-> TRUE]
    BY <1>4 DEF Scan!ScanKilled
  <2>2. /\ UNCHANGED <<asked, world, scans>> /\ killed' = TRUE /\ scanned' = "some"
        /\ scan'.out \in Scan!CutShort /\ scan'.complete = TRUE
    BY <1>4, <2>1 DEF Scan!ScanKilled
  <2> QED BY <1>0, <2>2 DEF ScanInv, ScanTyped
<1>5. CASE Scan!Interrupt
  <2>1. UNCHANGED <<asked, world, scans, scan, killed>> /\ scanned' = "interrupted"
    BY <1>5 DEF Scan!Interrupt
  <2> QED BY <1>0, <2>1 DEF ScanInv, ScanTyped
<1>6. CASE UNCHANGED scanVars
  BY <1>0, <1>6 DEF scanVars, ScanInv, ScanTyped
<1> QED BY <1>1, <1>2, <1>3, <1>4, <1>5, <1>6 DEF Scan!Next, Scan!Steps

(* Whatever it was that lsof printed, it is lines.                          *)
LEMMA OutputsAreLines ==
    ASSUME ScanInv PROVE Len(scan.out) \in Nat /\ DOMAIN scan.out = 1..Len(scan.out)
<1> DEFINE R == Scan!Range(world)
<1>1. world \in Seq(R) /\ scan.out \in {<<>>, world} \cup Scan!CutShort
  BY CliAssumption DEF ScanInv, ScanTyped
<1>2. Len(world) \in Nat /\ DOMAIN world = 1..Len(world)
  <2> HIDE DEF R
  <2> QED BY <1>1
<1> HIDE DEF R
<1>3. ASSUME NEW n \in 0..Len(world)
      PROVE  SubSeq(world, 1, n) \in Seq(R) /\ Len(SubSeq(world, 1, n)) = n
  BY <1>1, <1>2
<1>4. ASSUME NEW n \in DOMAIN world, NEW line,
             scan.out = Append(SubSeq(world, 1, n - 1), line)
      PROVE  Len(scan.out) \in Nat /\ DOMAIN scan.out = 1..Len(scan.out)
  <2> DEFINE some == SubSeq(world, 1, n - 1)
  <2>1. n - 1 \in 0..Len(world)
    BY <1>2
  <2>2. some \in Seq(R)
    BY <1>3, <2>1
  <2> HIDE DEF some
  <2>3. some \in Seq(R \cup {line})
    BY <2>2
  <2>4. Append(some, line) \in Seq(R \cup {line})
    BY <2>3
  <2> QED BY <1>4, <2>4 DEF some
<1>5. CASE scan.out \in Scan!CutShort
  <2>1. \/ \E n \in 0..Len(world) : scan.out = SubSeq(world, 1, n)
        \/ \E n \in DOMAIN world : \E v : scan.out = Scan!Cut(n, v)
    BY <1>5 DEF Scan!CutShort
  <2>2. CASE \E n \in 0..Len(world) : scan.out = SubSeq(world, 1, n)
    <3>1. scan.out \in Seq(R)
      BY <1>3, <2>2
    <3> QED BY <3>1
  <2>3. CASE \E n \in DOMAIN world : \E v : scan.out = Scan!Cut(n, v)
    BY <1>4, <2>3 DEF Scan!Cut
  <2> QED BY <2>1, <2>2, <2>3
<1>6. CASE scan.out = <<>>
  BY <1>6
<1> QED BY <1>1, <1>2, <1>5, <1>6

(* What is answered is the parse of all that was printed.                   *)
LEMMA ScanHonest == ASSUME ScanInv PROVE ScanIsHonest
<1> SUFFICES ASSUME scanned = "some", scans > 0 PROVE ScanIsHonest
  BY DEF ScanIsHonest, Scan!ScanIsHonest
<1>1. asked \in {"listeners", "cwds"} /\ (scan.out = world \/ killed)
  BY DEF ScanInv, ScanTyped
<1>2. Len(scan.out) \in Nat /\ DOMAIN scan.out = 1..Len(scan.out)
  BY OutputsAreLines
<1>3. PICK parse : /\ Scan!Parsed(scan.out) = parse.records
                   /\ asked = "listeners" => ListenersRight(Len(scan.out), parse)
                   /\ asked = "cwds" => CwdsRight(Len(scan.out), parse)
  BY <1>1, <1>2, ParsedRight
<1>4. Scan!Found = parse.records
  BY <1>3 DEF Scan!Found
<1>5. /\ Scan!Pids = PidsTo(Len(scan.out))
      /\ \A pid, tag : Scan!Of(pid, tag) = OfTo(Len(scan.out), pid, tag)
  BY <1>2, AllTold
<1>6. CASE asked = "listeners"
  <2> DEFINE Right(pid) ==
        /\ Scan!IsInjective(Scan!Found[pid].ports)
        /\ Scan!Range(Scan!Found[pid].ports) =
             {scan.out[i].value : i \in Scan!Of(pid, "n")} \ {Bad}
        /\ Scan!Found[pid].command = IF Scan!Of(pid, "c") = {} THEN Bad
                                     ELSE scan.out[Scan!Max(Scan!Of(pid, "c"))].value
  <2>1. /\ DOMAIN Scan!Found = Scan!Pids
        /\ \A pid \in Scan!Pids : RecordRight(Len(scan.out), pid, Scan!Found[pid])
    BY <1>3, <1>4, <1>5, <1>6 DEF ListenersRight
  <2>2. ASSUME NEW pid \in Scan!Pids PROVE Right(pid)
    BY <1>5, <2>1 DEF RecordRight, ValuesTo, LastValue
  <2> QED BY <1>1, <1>6, <2>1, <2>2 DEF ScanIsHonest, Scan!ScanIsHonest
<1>7. CASE asked = "cwds"
  <2>1. /\ DOMAIN Scan!Found = {pid \in Scan!Pids : Scan!Of(pid, "n") # {}}
        /\ \A pid \in DOMAIN Scan!Found : Scan!Found[pid] = LastValue(Len(scan.out), pid, "n")
    BY <1>3, <1>4, <1>5, <1>7 DEF CwdsRight
  <2>2. \A pid \in DOMAIN Scan!Found :
          Scan!Found[pid] = scan.out[Scan!Max(Scan!Of(pid, "n"))].value
    BY <1>5, <2>1 DEF LastValue
  <2> QED BY <1>1, <1>7, <2>1, <2>2 DEF ScanIsHonest, Scan!ScanIsHonest
<1> QED BY <1>1, <1>6, <1>7

(* Whatever lsof prints, of which processes in which order, and whoever     *)
(* kills it where: an answer lists every process of all that was printed,   *)
(* with its last name or directory and each port once; and what was printed *)
(* is the whole output unless something but its budget has killed lsof.     *)
THEOREM ScansAreHonest == Spec => []ScanIsHonest
<1>1. Init => ScanInv
  BY ScanInitial DEF Init
<1>2. ScanInv /\ [Next]_vars => ScanInv'
  BY ScanStep, PartsStep DEF PartSteps
<1> QED BY <1>1, <1>2, ScanHonest, PTL DEF Spec

-----------------------------------------------------------------------------
(* Requests *)

RequestsTyped ==
    /\ enabled \in BOOLEAN /\ request \in {"add", "addTagged", "notify"}
    /\ stage \in Request!Operations \cup {"idle", "backoff", "done"}
    /\ wire \in {"none", "sent", "ok", "transient", "refused"}
    /\ reply \in Nat /\ id \in Nat /\ bookmarks \in Nat
    /\ requested \in Request!Operations \cup {"none", "ok", "disabled", "interrupted"}
    /\ strays \in [Request!Operations -> Nat] /\ delivered \in BOOLEAN

(* A POST is an operation's, of the call's own kind; nothing is sent        *)
(* without credentials.                                                     *)
OwnPosts ==
    /\ wire # "none" => stage \in Request!Operations
    /\ stage = "done" <=> requested # "none"
    /\ stage = "notify" => request = "notify"
    /\ stage = "createBookmark" => request # "notify"
    /\ stage = "attachTags" => request = "addTagged"
    /\ requested \in Request!Operations => enabled

NothingDisabled ==
    ~enabled =>
        /\ stage \in {"idle", "done"} /\ bookmarks = 0 /\ ~delivered
        /\ \A k \in Request!Operations : strays[k] = 0
        /\ requested = "ok" => request = "notify"

(* No tags are on their way before the bookmark is known, and it is not     *)
(* asked for again afterwards.                                              *)
TagsFollow ==
    /\ stage \notin {"attachTags", "done"} => tagged = {} /\ strays["attachTags"] = 0
    /\ tagged \subseteq {id}
    /\ stage = "attachTags" \/ requested = "attachTags" => id \in 1..bookmarks
    /\ requested = "ok" /\ request # "notify" => id \in 1..bookmarks

(* A POST that was answered with success has had its effect. *)
Served ==
    /\ wire = "ok" /\ stage = "createBookmark" => reply \in 1..bookmarks
    /\ wire = "ok" /\ stage = "attachTags" => id \in tagged
    /\ wire = "ok" /\ stage = "notify" => delivered
    /\ requested = "ok" /\ request = "addTagged" => id \in tagged
    /\ requested = "ok" /\ request = "notify" /\ enabled => delivered

RequestsInv == RequestsTyped /\ OwnPosts /\ NothingDisabled /\ TagsFollow /\ Served

LEMMA RequestsInitial == ASSUME Request!Init PROVE RequestsInv
<1>1. strays \in [Request!Operations -> Nat]
/\ \A k \in Request!Operations : strays[k] = 0
  BY DEF Request!Init
<1>2. "attachTags" \in Request!Operations
  BY DEF Request!Operations
<1> QED BY <1>1, <1>2 DEF Request!Init, RequestsInv, RequestsTyped, OwnPosts,
           NothingDisabled,
                          TagsFollow, Served, Request!Operations

(* A POST that is given up is one of the operation under way. *)
LEMMA GivenUp ==
    ASSUME RequestsInv, stage \in Request!Operations, Request!GiveUpPost
    PROVE  /\ wire' = "none" /\ enabled /\ strays' \in [Request!Operations -> Nat]
           /\ stage # "attachTags" => strays'["attachTags"] = strays["attachTags"]
<1>1. wire' = "none" /\ enabled
  BY DEF RequestsInv, Request!GiveUpPost, NothingDisabled, Request!Operations
<1>2. strays \in [Request!Operations -> Nat] /\ strays[stage] + 1 \in Nat
  BY DEF RequestsInv, RequestsTyped
<1>3. strays' = IF wire = "sent"
                THEN [strays EXCEPT ![stage] = strays[stage] + 1] ELSE strays
  BY DEF Request!GiveUpPost
<1>4. strays' \in [Request!Operations -> Nat]
  BY <1>2, <1>3
<1>5. "attachTags" \in Request!Operations
  BY DEF Request!Operations
<1>6. stage # "attachTags" => strays'["attachTags"] = strays["attachTags"]
  BY <1>2, <1>3, <1>5
<1> QED BY <1>1, <1>4, <1>6

LEMMA FailStep ==
    ASSUME RequestsInv, stage \in Request!Operations, Request!Fail
    PROVE  RequestsInv'
<1> USE DEF RequestsInv
<1>1. /\ Request!GiveUpPost
      /\ UNCHANGED <<enabled, request, reply, id, bookmarks, tagged, delivered>>
      /\ requested = "none"
      /\ \/ stage' = "backoff" /\ requested' = "none" /\ stage # "attachTags"
         \/ stage' = "done" /\ requested' = stage
  BY CliAssumption DEF Request!Fail, Request!serverVars, Request!ShouldRetry, OwnPosts,
         Request!Operations
<1>2. /\ wire' = "none" /\ enabled = TRUE /\ strays' \in [Request!Operations -> Nat]
      /\ stage # "attachTags" => strays'["attachTags"] = strays["attachTags"]
  BY <1>1, GivenUp DEF RequestsTyped
<1>3. RequestsTyped'
  BY <1>1, <1>2 DEF RequestsTyped
<1>4. OwnPosts'
  BY <1>1, <1>2 DEF OwnPosts, Request!Operations
<1>5. NothingDisabled'
  BY <1>1, <1>2 DEF NothingDisabled
<1>6. TagsFollow'
  BY <1>1, <1>2 DEF TagsFollow, Request!Operations
<1>7. Served'
  BY <1>1, <1>2 DEF Served, Request!Operations
<1> QED BY <1>3, <1>4, <1>5, <1>6, <1>7

(* The steps of the client. *)
LEMMA ClientStep ==
    ASSUME RequestsInv,
           Request!Disabled \/ Request!Begin \/ Request!Post \/ Request!PostServed \/
           Request!Interrupt \/ Request!PostFails \/ UNCHANGED requestVars
    PROVE  RequestsInv'
<1> USE DEF RequestsInv
<1>1. CASE Request!Disabled
  <2>1. /\ stage = "idle" /\ stage' = "done" /\ enabled = FALSE
        /\ requested' = IF request = "notify" THEN "ok" ELSE "disabled"
        /\ wire = "none"
        /\ UNCHANGED <<enabled, request, wire, reply, id, strays, bookmarks, tagged,
                       delivered>>
    BY <1>1 DEF Request!Disabled, Request!serverVars, RequestsTyped, OwnPosts,
           Request!Operations
  <2>2. RequestsTyped'
    BY <2>1 DEF RequestsTyped
  <2>3. OwnPosts' /\ TagsFollow' /\ Served'
    BY <2>1 DEF OwnPosts, TagsFollow, Served, Request!Operations
  <2>4. NothingDisabled'
    BY <2>1 DEF NothingDisabled
  <2> QED BY <2>2, <2>3, <2>4
<1>2. CASE Request!Begin
  <2>1. /\ stage \in {"idle", "backoff"} /\ enabled
        /\ stage' = (IF request = "notify" THEN "notify" ELSE "createBookmark")
        /\ wire = "none" /\ requested = "none"
        /\ UNCHANGED <<enabled, request, wire, reply, id, requested, strays, bookmarks,
                       tagged,
                       delivered>>
    BY <1>2 DEF Request!Begin, Request!Enter, Request!serverVars, OwnPosts,
           Request!Operations
  <2>2. RequestsTyped'
    BY <2>1 DEF RequestsTyped, Request!Operations
  <2>3. OwnPosts' /\ TagsFollow' /\ Served'
    BY <2>1 DEF OwnPosts, TagsFollow, Served, Request!Operations
  <2>4. NothingDisabled'
    BY <2>1 DEF NothingDisabled
  <2> QED BY <2>2, <2>3, <2>4
<1>3. CASE Request!Post
  <2>1. /\ stage \in Request!Operations /\ wire' = "sent"
        /\ UNCHANGED <<enabled, request, stage, reply, id, requested, strays, bookmarks,
                       tagged,
                       delivered>>
    BY <1>3 DEF Request!Post, Request!serverVars
  <2> QED BY <2>1 DEF RequestsTyped, OwnPosts, NothingDisabled, TagsFollow, Served
<1>4. CASE Request!PostServed
  <2>1. /\ wire = "ok" /\ wire' = "none" /\ stage \in Request!Operations
               /\ requested = "none"
        /\ id' = IF stage = "createBookmark" THEN reply ELSE id
        /\ \/
               /\ stage = "createBookmark" /\ request = "addTagged"
                      /\ stage' = "attachTags"
              /\ requested' = "none"
           \/ /\ ~(stage = "createBookmark" /\ request = "addTagged")
              /\ stage' = "done" /\ requested' = "ok"
        /\ UNCHANGED <<enabled, request, reply, strays, bookmarks, tagged, delivered>>
    BY <1>4 DEF Request!PostServed, Request!Enter, Request!Succeed, Request!serverVars,
           OwnPosts, Request!Operations
  <2>2. enabled = TRUE
    BY <2>1 DEF NothingDisabled, RequestsTyped, Request!Operations
  <2>3. RequestsTyped'
    BY <2>1 DEF RequestsTyped, Request!Operations
  <2>4. OwnPosts'
    BY <2>1 DEF OwnPosts, Request!Operations
  <2>5. NothingDisabled'
    BY <2>1, <2>2 DEF NothingDisabled
  <2>6. CASE stage = "createBookmark"
    <3>1. id' \in 1..bookmarks /\ tagged = {} /\ request # "notify"
      BY <2>1, <2>6 DEF Served, TagsFollow, OwnPosts
    <3>2. TagsFollow'
      BY <2>1, <2>6, <3>1 DEF TagsFollow
    <3>3. Served'
      BY <2>1, <2>6, <3>1 DEF Served
    <3> QED BY <2>3, <2>4, <2>5, <3>2, <3>3
  <2>7. CASE stage # "createBookmark"
    <3>1. id' = id /\ stage' = "done" /\ requested' = "ok"
      BY <2>1, <2>7
    <3>2. stage = "attachTags" =>
    request = "addTagged" /\ id \in tagged /\ id \in 1..bookmarks
      BY <2>1 DEF Served, TagsFollow, OwnPosts
    <3>3. stage # "attachTags" => stage = "notify" /\ request = "notify" /\ delivered
      BY <2>1, <2>7 DEF Served, OwnPosts, Request!Operations
    <3>4. TagsFollow'
      BY <2>1, <3>1, <3>2, <3>3 DEF TagsFollow
    <3>5. Served'
      BY <2>1, <3>1, <3>2, <3>3 DEF Served
    <3> QED BY <2>3, <2>4, <2>5, <3>4, <3>5
  <2> QED BY <2>6, <2>7
<1>5. CASE Request!Interrupt
  <2>1. /\ stage \in Request!Operations \cup {"backoff"} /\ stage' = "done"
               /\ requested' = "interrupted"
        /\ UNCHANGED <<enabled, request, reply, id, bookmarks, tagged, delivered>>
    BY <1>5 DEF Request!Interrupt, Request!serverVars
  <2>2. /\ wire' = "none" /\ enabled = TRUE /\ strays' \in [Request!Operations -> Nat]
    <3>1. CASE stage = "backoff"
      <4>1. UNCHANGED <<wire, strays>>
        BY <1>5, <3>1 DEF Request!Interrupt
      <4> QED BY <3>1, <4>1 DEF OwnPosts, NothingDisabled, RequestsTyped,
                 Request!Operations
    <3>2. CASE stage # "backoff"
      BY <1>5, <2>1, <3>2, GivenUp DEF Request!Interrupt, RequestsTyped
    <3> QED BY <3>1, <3>2
  <2>3. RequestsTyped'
    BY <2>1, <2>2 DEF RequestsTyped
  <2>4. OwnPosts' /\ Served' /\ TagsFollow'
    BY <2>1, <2>2 DEF OwnPosts, TagsFollow, Served, Request!Operations
  <2>5. NothingDisabled'
    BY <2>1, <2>2 DEF NothingDisabled
  <2> QED BY <2>3, <2>4, <2>5
<1>6. CASE Request!PostFails
  <2>1. stage \in Request!Operations
    BY <1>6 DEF Request!PostFails
  <2>2. CASE Request!MayRepeat
    <3>1. /\ Request!GiveUpPost
          /\ UNCHANGED <<enabled, request, stage, reply, id, requested, bookmarks,
                         tagged, delivered>>
      BY <1>6, <2>2 DEF Request!PostFails, Request!clientVars, Request!serverVars
    <3>2. /\ wire' = "none" /\ enabled = TRUE /\ strays' \in [Request!Operations -> Nat]
          /\ stage # "attachTags" => strays'["attachTags"] = strays["attachTags"]
      BY <2>1, <3>1, GivenUp DEF RequestsTyped
    <3>3. RequestsTyped' /\ NothingDisabled'
      BY <3>1, <3>2 DEF RequestsTyped, NothingDisabled
    <3>4. OwnPosts' /\ TagsFollow' /\ Served'
      BY <2>1, <3>1, <3>2 DEF OwnPosts, TagsFollow, Served
    <3> QED BY <3>3, <3>4
  <2>3. CASE ~Request!MayRepeat
    BY <1>6, <2>1, <2>3, FailStep DEF Request!PostFails
  <2> QED BY <2>2, <2>3
<1>7. CASE UNCHANGED requestVars
  BY <1>7 DEF requestVars, RequestsTyped, OwnPosts, NothingDisabled, TagsFollow, Served
<1> QED BY <1>1, <1>2, <1>3, <1>4, <1>5, <1>6, <1>7

(* What a POST that is served leaves as it was, or adds to. *)
LEMMA ServeAdds ==
    ASSUME RequestsInv, NEW k \in Request!Operations, Request!Serve(k) \/
           UNCHANGED Request!serverVars
    PROVE  /\ bookmarks' \in Nat /\ bookmarks <= bookmarks'
           /\ tagged \subseteq tagged' /\ tagged' \subseteq tagged \cup {id}
           /\ k # "attachTags" => tagged' = tagged
           /\ delivered' \in BOOLEAN /\ (delivered => delivered')
<1>1. bookmarks \in Nat /\ delivered \in BOOLEAN
  BY DEF RequestsInv, RequestsTyped
<1>2. bookmarks' \in Nat /\ bookmarks <= bookmarks'
  <2>1. bookmarks' \in {bookmarks, bookmarks + 1}
    BY <1>1 DEF Request!Serve, Request!serverVars
  <2> QED BY <1>1, <2>1
<1>3. /\ tagged \subseteq tagged' /\ tagged' \subseteq tagged \cup {id}
      /\ k # "attachTags" => tagged' = tagged
  BY DEF Request!Serve, Request!serverVars
<1>4. delivered' \in BOOLEAN /\ (delivered => delivered')
  <2>1. delivered' = (delivered \/ k = "notify") \/ delivered' = delivered
    BY DEF Request!Serve, Request!serverVars
  <2> QED BY <1>1, <2>1
<1> QED BY <1>2, <1>3, <1>4

LEMMA AnswerStep == ASSUME RequestsInv, Request!ServerAnswers PROVE RequestsInv'
<1> USE DEF RequestsInv
<1>1. /\ wire = "sent" /\ stage \in Request!Operations
      /\ UNCHANGED <<enabled, request, stage, id, requested, strays>>
      /\ reply' = IF stage = "createBookmark" THEN bookmarks' ELSE reply
      /\ wire' \in {"ok", "transient", "refused"}
      /\ Request!Serve(stage) \/ UNCHANGED Request!serverVars
      /\ wire' = "ok" => Request!Serve(stage)
  BY DEF Request!ServerAnswers, Request!clientVars, OwnPosts
<1>2. enabled = TRUE /\ requested = "none"
  BY <1>1 DEF NothingDisabled, OwnPosts, Request!Operations, RequestsTyped
<1>3. /\ bookmarks' \in Nat /\ bookmarks <= bookmarks'
      /\ tagged' \subseteq tagged \cup {id}
      /\ stage # "attachTags" => tagged' = tagged
      /\ delivered' \in BOOLEAN
  BY <1>1, ServeAdds
<1>4. RequestsTyped'
  BY <1>1, <1>3 DEF RequestsTyped
<1>5. OwnPosts' /\ NothingDisabled'
  BY <1>1, <1>2 DEF OwnPosts, NothingDisabled
<1>6. TagsFollow'
  <2>1. id \in 1..bookmarks => id \in 1..bookmarks'
    BY <1>3 DEF RequestsTyped
  <2>2. tagged' \subseteq {id'}
    BY <1>1, <1>3 DEF TagsFollow
  <2>3. stage' \notin {"attachTags", "done"} => tagged' = {} /\ strays'["attachTags"] = 0
    BY <1>1, <1>3 DEF TagsFollow
  <2> QED BY <1>1, <1>2, <2>1, <2>2, <2>3 DEF TagsFollow
<1>7. Served'
  <2>1. CASE wire' # "ok"
    BY <1>1, <1>2, <2>1 DEF Served
  <2>2. CASE wire' = "ok"
    <3>1. Request!Serve(stage) /\ bookmarks \in Nat
      BY <1>1, <2>2 DEF RequestsTyped
    <3>2. stage = "createBookmark" => reply' \in 1..bookmarks'
      BY <1>1, <3>1 DEF Request!Serve
    <3>3. /\ stage = "attachTags" => id \in tagged'
          /\ stage = "notify" => delivered'
      BY <3>1 DEF Request!Serve
    <3> QED BY <1>1, <1>2, <3>2, <3>3 DEF Served
  <2> QED BY <2>1, <2>2
<1> QED BY <1>4, <1>5, <1>6, <1>7

LEMMA StrayStep == ASSUME RequestsInv, Request!StrayServed PROVE RequestsInv'
<1> USE DEF RequestsInv
<1>1. PICK k \in Request!Operations :
          /\ strays[k] > 0
          /\ strays' = [strays EXCEPT ![k] = @ - 1]
          /\ Request!Serve(k) \/ UNCHANGED Request!serverVars
  BY DEF Request!StrayServed
<1>2. UNCHANGED <<enabled, request, stage, id, requested, wire, reply>>
  BY DEF Request!StrayServed, Request!clientVars
<1>3. /\ bookmarks' \in Nat /\ bookmarks <= bookmarks' /\ bookmarks \in Nat /\ id \in Nat
      /\ tagged \subseteq tagged' /\ tagged' \subseteq tagged \cup {id}
      /\ k # "attachTags" => tagged' = tagged
      /\ delivered' \in BOOLEAN /\ (delivered => delivered')
  BY <1>1, ServeAdds DEF RequestsTyped
<1>4. /\ strays' \in [Request!Operations -> Nat]
      /\ k # "attachTags" => strays'["attachTags"] = strays["attachTags"]
  <2>1. strays \in [Request!Operations -> Nat] /\ strays[k] - 1 \in Nat
    BY <1>1 DEF RequestsTyped
  <2>2. /\ strays' = [strays EXCEPT ![k] = strays[k] - 1]
        /\ "attachTags" \in Request!Operations
    BY <1>1 DEF Request!Operations
  <2> QED BY <2>1, <2>2
<1>5. enabled = TRUE
  BY <1>1 DEF NothingDisabled, RequestsTyped
<1>6. k = "attachTags" => stage \in {"attachTags", "done"}
  BY <1>1 DEF TagsFollow
<1>7. RequestsTyped'
  BY <1>2, <1>3, <1>4 DEF RequestsTyped
<1>8. OwnPosts' /\ NothingDisabled'
  BY <1>2, <1>5 DEF OwnPosts, NothingDisabled
<1>9. TagsFollow'
  <2>1. id \in 1..bookmarks => id \in 1..bookmarks'
    BY <1>3
  <2>2. tagged' \subseteq {id'}
    BY <1>2, <1>3 DEF TagsFollow
  <2>3. stage' \notin {"attachTags", "done"} => tagged' = {} /\ strays'["attachTags"] = 0
    BY <1>2, <1>3, <1>4, <1>6 DEF TagsFollow
  <2> QED BY <1>2, <2>1, <2>2, <2>3 DEF TagsFollow
<1>10. Served'
  <2>1. reply \in 1..bookmarks => reply \in 1..bookmarks'
    BY <1>3 DEF RequestsTyped
  <2>2. delivered => delivered'
    BY <1>3
  <2> QED BY <1>2, <1>3, <2>1, <2>2 DEF Served
<1> QED BY <1>7, <1>8, <1>9, <1>10

LEMMA RequestsStep ==
    ASSUME RequestsInv, [Request!Next \/ Request!Interrupt]_requestVars
    PROVE  RequestsInv'
<1>1. CASE Request!PostRefused \/ Request!Timeout
  <2>1. stage \in Request!Operations /\ Request!Fail
    BY <1>1 DEF Request!PostRefused, Request!Timeout, RequestsInv, OwnPosts
  <2> QED BY <2>1, FailStep
<1> QED BY <1>1, ClientStep, AnswerStep, StrayStep DEF Request!Next, Request!Steps

LEMMA RequestsTrue == ASSUME RequestsInv PROVE Request!AnswersAreTrue
  BY DEF RequestsInv, RequestsTyped, OwnPosts, NothingDisabled, TagsFollow, Served,
         Request!AnswersAreTrue

(* How a call has ended stays, and only an interruption ends one as such.   *)
LEMMA RequestsEnd ==
    ASSUME RequestsInv
    PROVE  /\ requested # "none" /\ [Request!Next \/ Request!Interrupt]_requestVars =>
                requested' = requested
           /\ Request!Next /\ requested # "interrupted" => requested' # "interrupted"
<1>1. /\ wire # "none" => stage \in Request!Operations
      /\ stage = "done" <=> requested # "none"
  BY DEF RequestsInv, OwnPosts
<1>2. ASSUME Request!Fail, stage \in Request!Operations
      PROVE  requested = "none" /\ requested' # "interrupted"
  BY <1>1, <1>2 DEF Request!Fail, Request!Operations
<1>3. ASSUME requested # "none", [Request!Next \/ Request!Interrupt]_requestVars
      PROVE  requested' = requested
  BY <1>1, <1>2, <1>3
    DEF Request!Next, Request!Steps, Request!Disabled, Request!Begin, Request!Post,
        Request!PostFails, Request!PostRefused, Request!PostServed, Request!Timeout,
        Request!ServerAnswers, Request!StrayServed, Request!Interrupt,
        Request!clientVars, requestVars, Request!Operations
<1>4. ASSUME Request!Next, requested # "interrupted" PROVE requested' # "interrupted"
  BY <1>1, <1>2, <1>4
    DEF Request!Next, Request!Steps, Request!Disabled, Request!Begin, Request!Post,
        Request!PostFails, Request!PostRefused, Request!PostServed, Request!Succeed,
        Request!Timeout, Request!ServerAnswers, Request!StrayServed, Request!clientVars
<1> QED BY <1>3, <1>4

(* However many POSTs are lost, repeated or served late, addBookmark        *)
(* resolves a bookmark that is there, with its tags and no other's, and     *)
(* what notify has sent is delivered.                                       *)
THEOREM RequestsAreAnswered == Spec => []AnswersAreTrue
<1>1. Init => RequestsInv
  BY RequestsInitial DEF Init
<1>2. RequestsInv /\ [Next]_vars => RequestsInv'
  BY RequestsStep, PartsStep DEF PartSteps
<1>3. RequestsInv => AnswersAreTrue
  BY RequestsTrue DEF AnswersAreTrue
<1> QED BY <1>1, <1>2, <1>3, PTL DEF Spec

-----------------------------------------------------------------------------
(* How often a request is sent *)

(* Products that grow with a factor.                                        *)
LEMMA Products ==
    ASSUME NEW a \in Nat, NEW b \in Nat, NEW n \in Nat
    PROVE  /\ a * n \in Nat /\ (a + 1) * n = a * n + n
           /\ a <= b => a * n <= b * n
           /\ a >= 1 => (a - 1) * n \in Nat /\ a * n = (a - 1) * n + n
<1>1. a * n \in Nat /\ (a + 1) * n = a * n + n
  OBVIOUS
<1>2. ASSUME a <= b PROVE a * n <= b * n
  <2> DEFINE d == b - a
  <2>1. d \in Nat /\ b = a + d
    BY <1>2
  <2> HIDE DEF d
  <2>2. (a + d) * n = a * n + d * n /\ d * n \in Nat
    BY <2>1
  <2> QED BY <1>1, <2>1, <2>2
<1>3. ASSUME a >= 1 PROVE (a - 1) * n \in Nat /\ a * n = (a - 1) * n + n
  <2> DEFINE d == a - 1
  <2>1. d \in Nat /\ a = d + 1
    BY <1>3
  <2> HIDE DEF d
  <2>2. (d + 1) * n = d * n + n /\ d * n \in Nat
    BY <2>1
  <2> QED BY <2>1, <2>2 DEF d
<1> QED BY <1>1, <1>2, <1>3

(* The POSTs of a kind that were served, are on their way or may be; and    *)
(* those that the tries so far allow.                                       *)
Most(a) == a * (Times + 1)

Sent(k) ==
    strays[k] + (IF wire = "sent" /\ stage = k THEN 1 ELSE 0)
              + (IF k = "createBookmark" THEN bookmarks ELSE 0)

Allowed(k) == IF stage = k THEN Most(attempt - 1) + posts ELSE Most(attempt)

Tries ==
    /\ attempt \in 0..MaxAttempts /\ posts \in 0..(Times + 1)
    /\ stage = "idle" => attempt = 0
    /\ stage = "backoff" => attempt < MaxAttempts
    /\ stage \in Request!Operations => attempt >= 1
    /\ stage \in Request!Operations /\ wire = "none" => posts <= Times

Counted == \A k \in Request!Operations : Sent(k) <= Allowed(k)

(* The bookmarks that anybody has heard of are there.                       *)
Known ==
    /\ id <= bookmarks /\ reply <= bookmarks
    /\ tagged \subseteq 1..bookmarks
    /\ strays["attachTags"] > 0 => id \in 1..bookmarks

BoundsInv == Tries /\ Counted /\ Known

(* One call more allows as many POSTs more as a call makes.                 *)
LEMMA MostMore ==
    ASSUME NEW a \in 0..MaxAttempts
    PROVE  /\ Most(a) \in Nat /\ Most(a) <= Request!MaxPosts
           /\ Most(a + 1) = Most(a) + Times + 1
           /\ a >= 1 => Most(a - 1) \in Nat /\ Most(a) = Most(a - 1) + Times + 1
<1>1. a \in Nat /\ MaxAttempts \in Nat /\ Times + 1 \in Nat /\ a <= MaxAttempts
  BY CliAssumption
<1>2. /\ a * (Times + 1) \in Nat /\ a * (Times + 1) <= MaxAttempts * (Times + 1)
      /\ (a + 1) * (Times + 1) = a * (Times + 1) + (Times + 1)
      /\ a >= 1 => /\ (a - 1) * (Times + 1) \in Nat
                   /\ a * (Times + 1) = (a - 1) * (Times + 1) + (Times + 1)
  BY <1>1, Products
<1>0. /\ Most(a) \in Nat /\ Times \in Nat
      /\ a >= 1 => Most(a - 1) \in Nat
  BY <1>2, CliAssumption DEF Most
<1>3. Most(a) + Times + 1 = Most(a) + (Times + 1)
  BY <1>0
<1>4. a >= 1 => Most(a - 1) + Times + 1 = Most(a - 1) + (Times + 1)
  BY <1>0
<1> QED BY <1>2, <1>3, <1>4 DEF Most, Request!MaxPosts

(* The bounds of the type invariant.                                        *)
LEMMA BoundsHold ==
    ASSUME RequestsInv, BoundsInv
    PROVE  Request!TypeOK
<1>1. attempt \in 0..MaxAttempts /\ Request!MaxPosts \in Nat
  <2>1. Times \in Nat /\ MaxAttempts \in Nat
    BY CliAssumption
  <2>2. MaxAttempts \in 0..MaxAttempts
    BY <2>1
  <2> QED BY <2>1, <2>2, Products DEF BoundsInv, Tries, Request!MaxPosts
<1>2. /\ Most(attempt) \in Nat /\ Most(attempt) <= Request!MaxPosts
      /\ attempt >= 1 => Most(attempt - 1) \in Nat
                         /\ Most(attempt) = Most(attempt - 1) + Times + 1
  BY <1>1, MostMore
<1>3. ASSUME NEW k \in Request!Operations PROVE Allowed(k) <= Request!MaxPosts
  <2>1. CASE stage = k
    <3>1. attempt >= 1 /\ posts \in 0..(Times + 1) /\ Times \in Nat
      BY <2>1, CliAssumption DEF BoundsInv, Tries
    <3> QED BY <1>1, <1>2, <2>1, <3>1 DEF Allowed
  <2>2. CASE stage # k
    BY <1>2, <2>2 DEF Allowed
  <2> QED BY <2>1, <2>2
<1>4. strays \in [Request!Operations -> Nat] /\ bookmarks \in Nat /\ id \in Nat /\ reply \in Nat
  BY DEF RequestsInv, RequestsTyped
<1>5. ASSUME NEW k \in Request!Operations
      PROVE  /\ strays[k] \in Nat /\ strays[k] <= Request!MaxPosts
             /\ k = "createBookmark" => bookmarks <= Request!MaxPosts
  <2>1. strays[k] \in Nat /\ Sent(k) <= Allowed(k) /\ Allowed(k) <= Request!MaxPosts
    BY <1>3, <1>4 DEF BoundsInv, Counted
  <2>2. Allowed(k) \in Nat
    <3>1. CASE stage = k
      <4>1. attempt >= 1 /\ posts \in Nat
        BY <3>1, CliAssumption DEF BoundsInv, Tries
      <4> QED BY <1>2, <3>1, <4>1 DEF Allowed
    <3>2. CASE stage # k
      BY <1>2, <3>2 DEF Allowed
    <3> QED BY <3>1, <3>2
  <2>3. Sent(k) \in Nat /\ strays[k] <= Sent(k)
         /\ (k = "createBookmark" => bookmarks <= Sent(k))
    BY <1>4, <2>1 DEF Sent
  <2> QED BY <1>1, <1>4, <2>1, <2>2, <2>3
<1>6. strays \in [Request!Operations -> 0..Request!MaxPosts]
  BY <1>1, <1>4, <1>5
<1>7. "createBookmark" \in Request!Operations
  BY DEF Request!Operations
<1>8. /\ bookmarks \in 0..Request!MaxPosts
      /\ id \in 0..Request!MaxPosts /\ reply \in 0..Request!MaxPosts
      /\ tagged \subseteq 1..bookmarks
  BY <1>1, <1>4, <1>5, <1>7 DEF BoundsInv, Known
<1> QED BY <1>1, <1>6, <1>8 DEF Request!TypeOK, RequestsInv, RequestsTyped, BoundsInv, Tries

(* Nothing was sent.                                                        *)
LEMMA BoundsInitial == ASSUME Request!Init PROVE BoundsInv
<1>0. /\ attempt = 0 /\ posts = 0 /\ id = 0 /\ reply = 0 /\ bookmarks = 0 /\ tagged = {}
      /\ stage = "idle" /\ wire = "none"
      /\ \A k \in Request!Operations : strays[k] = 0
      /\ "idle" \notin Request!Operations /\ "attachTags" \in Request!Operations
  BY DEF Request!Init, Request!Operations
<1>1. Tries
  BY <1>0, CliAssumption DEF Tries
<1>2. Counted
  <2> SUFFICES ASSUME NEW k \in Request!Operations PROVE Sent(k) <= Allowed(k)
    BY DEF Counted
  <2>1. 0 \in 0..MaxAttempts
    BY CliAssumption
  <2>2. Most(0) \in Nat
    BY <2>1, MostMore
  <2>3. Sent(k) = 0 /\ Allowed(k) = Most(0)
    BY <1>0 DEF Sent, Allowed
  <2> QED BY <2>2, <2>3
<1>3. Known
  BY <1>0 DEF Known
<1> QED BY <1>1, <1>2, <1>3 DEF BoundsInv

(* What is allowed to an operation under way is allowed in the end.         *)
LEMMA AllowedMost ==
    ASSUME BoundsInv, NEW k \in Request!Operations
    PROVE  /\ Allowed(k) \in Nat /\ Allowed(k) <= Most(attempt) /\ Most(attempt) \in Nat
           /\ Most(attempt + 1) = Most(attempt) + Times + 1
           /\ attempt >= 1 => Most(attempt - 1) \in Nat
                              /\ Most(attempt) = Most(attempt - 1) + Times + 1
<1>1. /\ attempt \in 0..MaxAttempts /\ posts \in 0..(Times + 1) /\ Times \in Nat
      /\ stage = k => attempt >= 1
  BY CliAssumption DEF BoundsInv, Tries
<1>2. /\ Most(attempt) \in Nat
      /\ Most(attempt + 1) = Most(attempt) + Times + 1
      /\ attempt >= 1 => Most(attempt - 1) \in Nat
                         /\ Most(attempt) = Most(attempt - 1) + Times + 1
  BY <1>1, MostMore
<1>3. CASE stage = k
  BY <1>1, <1>2, <1>3 DEF Allowed
<1>4. CASE stage # k
  BY <1>2, <1>4 DEF Allowed
<1> QED BY <1>2, <1>3, <1>4

(* A POST that is given up is counted on.                                   *)
LEMMA GivenUpCounts ==
    ASSUME RequestsInv, stage \in Request!Operations, Request!GiveUpPost,
           UNCHANGED bookmarks, NEW k \in Request!Operations
    PROVE  /\ Sent(k)' = Sent(k) /\ Sent(k) \in Nat /\ wire' = "none"
           /\ strays'[k] = strays[k] + (IF wire = "sent" /\ stage = k THEN 1 ELSE 0)
<1>1. strays \in [Request!Operations -> Nat] /\ bookmarks \in Nat
  BY DEF RequestsInv, RequestsTyped
<1>2. wire' = "none"
  BY DEF Request!GiveUpPost
<1>3. strays'[k] = strays[k] + (IF wire = "sent" /\ stage = k THEN 1 ELSE 0)
  <2>1. CASE wire = "sent"
    <3>1. strays' = [strays EXCEPT ![stage] = strays[stage] + 1]
      BY <2>1 DEF Request!GiveUpPost
    <3>2. CASE stage = k
      BY <1>1, <2>1, <3>1, <3>2
    <3>3. CASE stage # k
      BY <1>1, <2>1, <3>1, <3>3
    <3> QED BY <3>2, <3>3
  <2>2. CASE wire # "sent"
    <3>1. strays' = strays
      BY <2>2 DEF Request!GiveUpPost
    <3> QED BY <1>1, <2>2, <3>1
  <2> QED BY <2>1, <2>2
<1>4. strays[k] \in Nat
  BY <1>1
<1>5. Sent(k)' = strays'[k] + 0 + (IF k = "createBookmark" THEN bookmarks ELSE 0)
  BY <1>2 DEF Sent
<1> QED BY <1>1, <1>2, <1>3, <1>4, <1>5 DEF Sent

(* Giving up an operation, or its POST.                                     *)
LEMMA GiveUpStep ==
    ASSUME RequestsInv, BoundsInv, stage \in Request!Operations, Request!GiveUpPost,
           UNCHANGED <<attempt, reply, id, bookmarks, tagged>>,
           posts' \in 0..(Times + 1),
           \/ stage' = stage /\ posts' = posts /\ posts <= Times
           \/ stage' = "backoff" /\ attempt < MaxAttempts
           \/ stage' = "done"
    PROVE  BoundsInv'
<1>1. {"backoff", "done", "idle"} \cap Request!Operations = {}
  BY DEF Request!Operations
<1>2. wire' = "none"
  BY DEF Request!GiveUpPost
<1>3. Tries'
  BY <1>1, <1>2 DEF BoundsInv, Tries
<1>4. Counted'
  <2> SUFFICES ASSUME NEW k \in Request!Operations PROVE Sent(k)' <= Allowed(k)'
    BY DEF Counted, Request!Operations
  <2>1. Sent(k)' = Sent(k) /\ Sent(k) \in Nat /\ Sent(k) <= Allowed(k)
    BY GivenUpCounts DEF BoundsInv, Counted
  <2>2. Allowed(k) \in Nat /\ Allowed(k) <= Most(attempt) /\ Most(attempt) \in Nat
    BY AllowedMost
  <2>3. Allowed(k)' = Allowed(k) \/ Allowed(k)' = Most(attempt)
    <3>1. CASE stage' = stage /\ posts' = posts
      BY <3>1 DEF Allowed, Most
    <3>2. CASE stage' \in {"backoff", "done"}
      <4>1. stage' # k
        BY <1>1, <3>2
      <4> QED BY <4>1 DEF Allowed, Most
    <3> QED BY <3>1, <3>2
  <2> QED BY <2>1, <2>2, <2>3
<1>5. Known'
  <2>1. "attachTags" \in Request!Operations
    BY DEF Request!Operations
  <2>2. strays'["attachTags"] =
          strays["attachTags"] + (IF wire = "sent" /\ stage = "attachTags" THEN 1 ELSE 0)
    BY <2>1, GivenUpCounts
  <2>3. strays'["attachTags"] > 0 => id \in 1..bookmarks
    <3>1. CASE stage = "attachTags"
      BY <3>1 DEF RequestsInv, TagsFollow
    <3>2. CASE stage # "attachTags"
      <4>1. strays \in [Request!Operations -> Nat]
        BY DEF RequestsInv, RequestsTyped
      <4> QED BY <2>1, <2>2, <3>2, <4>1 DEF BoundsInv, Known
    <3> QED BY <3>1, <3>2
  <2> QED BY <2>3 DEF BoundsInv, Known
<1> QED BY <1>3, <1>4, <1>5 DEF BoundsInv

(* A step that leaves the server's side and the ways there alone keeps what *)
(* is known.                                                                *)
LEMMA KnownStays ==
    ASSUME Known, UNCHANGED <<id, reply, bookmarks, tagged, strays>> PROVE Known'
BY DEF Known

(* The operation fails, for good or until the next call.                    *)
LEMMA FailsStep ==
    ASSUME RequestsInv, BoundsInv, stage \in Request!Operations, Request!Fail
    PROVE  BoundsInv'
<1>1. /\ Request!GiveUpPost /\ UNCHANGED <<attempt, reply, id, bookmarks, tagged>>
      /\ posts' = 0
      /\ \/ stage' = "backoff" /\ attempt < MaxAttempts
         \/ stage' = "done"
  BY DEF Request!Fail, Request!serverVars, Request!ShouldRetry
<1>2. posts' \in 0..(Times + 1)
  BY <1>1, CliAssumption
<1> QED BY <1>1, <1>2, GiveUpStep

(* A call begins with all its POSTs before it.                              *)
LEMMA BeginBounds == ASSUME RequestsInv, BoundsInv, Request!Begin PROVE BoundsInv'
<1>1. /\ stage \in {"idle", "backoff"} /\ attempt' = attempt + 1
      /\ stage' \in {"notify", "createBookmark"} /\ posts' = 0
      /\ UNCHANGED <<wire, reply, id, strays, bookmarks, tagged>>
  BY DEF Request!Begin, Request!Enter, Request!serverVars
<1>2. {"idle", "backoff"} \cap Request!Operations = {} /\ stage' \in Request!Operations
  BY <1>1 DEF Request!Operations
<1>3. attempt \in 0..MaxAttempts /\ attempt < MaxAttempts /\ Times \in Nat /\ MaxAttempts \in Nat
  BY <1>1, CliAssumption DEF BoundsInv, Tries
<1>4. Tries'
  BY <1>1, <1>2, <1>3 DEF Tries, Request!Operations
<1>5. Counted'
  <2> SUFFICES ASSUME NEW k \in Request!Operations PROVE Sent(k)' <= Allowed(k)'
    BY DEF Counted, Request!Operations
  <2>1. Sent(k) <= Allowed(k)
    BY DEF BoundsInv, Counted
  <2>2. wire = "none"
    BY <1>1, <1>2 DEF RequestsInv, OwnPosts
  <2>3. strays[k] \in Nat /\ bookmarks \in Nat
    BY DEF RequestsInv, RequestsTyped
  <2>4. Sent(k)' = Sent(k) /\ Sent(k) \in Nat
    BY <1>1, <2>2, <2>3 DEF Sent
  <2>5. stage # k
    BY <1>1, <1>2
  <2>6. Allowed(k) = Most(attempt) /\ Most(attempt) \in Nat
        /\ Most(attempt + 1) = Most(attempt) + Times + 1
    BY <2>5, AllowedMost DEF Allowed
  <2>7. Allowed(k)' \in {Most(attempt), Most(attempt + 1)}
    <3>1. CASE stage' = k
      <4>1. Allowed(k)' = Most((attempt + 1) - 1) + 0
        BY <1>1, <3>1 DEF Allowed, Most
      <4>2. (attempt + 1) - 1 = attempt
        BY <1>3
      <4> QED BY <2>6, <4>1, <4>2
    <3>2. CASE stage' # k
      BY <1>1, <3>2 DEF Allowed, Most
    <3> QED BY <3>1, <3>2
  <2> QED BY <1>3, <2>1, <2>4, <2>6, <2>7
<1> QED BY <1>1, <1>4, <1>5, KnownStays DEF BoundsInv

(* A POST is sent that was allowed.                                         *)
LEMMA PostBounds == ASSUME RequestsInv, BoundsInv, Request!Post PROVE BoundsInv'
<1>1. /\ stage \in Request!Operations /\ wire = "none"
      /\ posts' = posts + 1 /\ wire' = "sent"
      /\ UNCHANGED <<attempt, stage, reply, id, strays, bookmarks, tagged>>
  BY DEF Request!Post, Request!serverVars
<1>2. posts \in 0..Times /\ Times \in Nat
  BY <1>1, CliAssumption DEF BoundsInv, Tries
<1>3. Tries'
  BY <1>1, <1>2 DEF BoundsInv, Tries, Request!Operations
<1>4. Counted'
  <2> SUFFICES ASSUME NEW k \in Request!Operations PROVE Sent(k)' <= Allowed(k)'
    BY DEF Counted, Request!Operations
  <2>1. Sent(k) <= Allowed(k)
    BY DEF BoundsInv, Counted
  <2>2. strays[k] \in Nat /\ bookmarks \in Nat
    BY DEF RequestsInv, RequestsTyped
  <2>3. CASE stage = k
    <3>1. attempt >= 1
      BY <1>1 DEF BoundsInv, Tries
    <3>2. Most(attempt - 1) \in Nat
      BY <3>1, AllowedMost
    <3>3. Allowed(k) = Most(attempt - 1) + posts
      BY <2>3 DEF Allowed
    <3>4. Allowed(k)' = Most(attempt - 1) + (posts + 1)
      BY <1>1, <2>3 DEF Allowed, Most
    <3>5. Sent(k) \in Nat /\ Sent(k)' = Sent(k) + 1
      BY <1>1, <2>2, <2>3 DEF Sent
    <3> QED BY <1>2, <2>1, <3>2, <3>3, <3>4, <3>5
  <2>4. CASE stage # k
    <3>1. Allowed(k)' = Allowed(k)
      BY <1>1, <2>4 DEF Allowed, Most
    <3>2. Sent(k)' = Sent(k)
      BY <1>1, <2>2, <2>4 DEF Sent
    <3> QED BY <2>1, <3>1, <3>2
  <2> QED BY <2>3, <2>4
<1> QED BY <1>1, <1>3, <1>4, KnownStays DEF BoundsInv

(* A POST that was served is no longer on its way, and no tags are yet.     *)
LEMMA ServedBounds == ASSUME RequestsInv, BoundsInv, Request!PostServed PROVE BoundsInv'
<1>1. /\ wire = "ok" /\ wire' = "none"
      /\ id' = IF stage = "createBookmark" THEN reply ELSE id
      /\ UNCHANGED <<attempt, reply, strays, bookmarks, tagged>>
  BY DEF Request!PostServed, Request!serverVars
<1>2. \/ stage = "createBookmark" /\ stage' = "attachTags" /\ posts' = 0
      \/ stage' = "done" /\ UNCHANGED posts
  BY DEF Request!PostServed, Request!Enter, Request!Succeed
<1>3. /\ "done" \notin Request!Operations /\ "attachTags" \in Request!Operations
      /\ stage \in Request!Operations /\ "createBookmark" \in Request!Operations
  BY <1>1 DEF Request!Operations, RequestsInv, OwnPosts
<1>4. Tries'
  <2>1. attempt \in 0..MaxAttempts /\ attempt >= 1 /\ posts \in 0..(Times + 1)
    BY <1>3 DEF BoundsInv, Tries
  <2>2. Times \in Nat
    BY CliAssumption
  <2> QED BY <1>1, <1>2, <1>3, <2>1, <2>2 DEF Tries
<1>5. strays \in [Request!Operations -> Nat] /\ bookmarks \in Nat
  BY DEF RequestsInv, RequestsTyped
<1>6. Counted'
  <2> SUFFICES ASSUME NEW k \in Request!Operations PROVE Sent(k)' <= Allowed(k)'
    BY DEF Counted, Request!Operations
  <2>1. Sent(k) <= Allowed(k)
    BY DEF BoundsInv, Counted
  <2>2. /\ Allowed(k) \in Nat /\ Allowed(k) <= Most(attempt) /\ Most(attempt) \in Nat
        /\ attempt >= 1 => Most(attempt - 1) \in Nat
    BY AllowedMost
  <2>3. Sent(k) \in Nat /\ Sent(k)' = Sent(k)
    BY <1>1, <1>5 DEF Sent
  <2>4. CASE stage' = k
    <3>1. stage = "createBookmark" /\ k = "attachTags" /\ posts' = 0
      BY <1>2, <1>3, <2>4
    <3>2. strays[k] = 0
      BY <3>1 DEF RequestsInv, TagsFollow
    <3>3. Sent(k) = 0
      BY <1>1, <3>1, <3>2 DEF Sent
    <3>4. Allowed(k)' = Most(attempt - 1) + 0
      BY <1>1, <2>4, <3>1 DEF Allowed, Most
    <3>5. attempt >= 1
      BY <1>3 DEF BoundsInv, Tries
    <3> QED BY <2>2, <2>3, <3>3, <3>4, <3>5
  <2>5. CASE stage' # k
    <3>1. Allowed(k)' = Most(attempt)
      BY <1>1, <2>5 DEF Allowed, Most
    <3> QED BY <2>1, <2>2, <2>3, <3>1
  <2> QED BY <2>4, <2>5
<1>7. Known'
  <2>1. CASE stage = "createBookmark"
    <3>1. reply \in 1..bookmarks
      BY <1>1, <2>1 DEF RequestsInv, Served
    <3>2. id' = reply
      BY <1>1, <2>1
    <3> QED BY <1>1, <1>5, <3>1, <3>2 DEF BoundsInv, Known
  <2>2. CASE stage # "createBookmark"
    <3>1. id' = id
      BY <1>1, <2>2
    <3> QED BY <1>1, <3>1 DEF BoundsInv, Known
  <2> QED BY <2>1, <2>2
<1> QED BY <1>4, <1>6, <1>7 DEF BoundsInv

(* Every step of the client.                                                *)
LEMMA ClientBounds ==
    ASSUME RequestsInv, BoundsInv, Request!Steps \/ Request!Interrupt PROVE BoundsInv'
<1>1. {"idle", "backoff", "done"} \cap Request!Operations = {}
  BY DEF Request!Operations
<1>2. CASE Request!Disabled
  <2>1. /\ stage = "idle" /\ stage' = "done"
        /\ UNCHANGED <<attempt, posts, wire, reply, id, strays, bookmarks, tagged>>
    BY <1>2 DEF Request!Disabled, Request!serverVars
  <2>2. Tries'
    BY <1>1, <2>1 DEF BoundsInv, Tries
  <2>3. Counted'
    <3> SUFFICES ASSUME NEW k \in Request!Operations PROVE Sent(k)' <= Allowed(k)'
      BY DEF Counted, Request!Operations
    <3>1. Sent(k) <= Allowed(k)
      BY DEF BoundsInv, Counted
    <3>2. stage # k /\ stage' # k
      BY <1>1, <2>1
    <3>3. Sent(k)' = Sent(k) /\ Allowed(k)' = Allowed(k)
      BY <2>1, <3>2 DEF Sent, Allowed, Most
    <3> QED BY <3>1, <3>3
  <2> QED BY <2>1, <2>2, <2>3, KnownStays DEF BoundsInv
<1>3. CASE Request!Begin
  BY <1>3, BeginBounds
<1>4. CASE Request!Post
  BY <1>4, PostBounds
<1>5. CASE Request!PostFails
  <2>1. stage \in Request!Operations
    BY <1>5 DEF Request!PostFails
  <2>2. CASE Request!MayRepeat
    <3>1. /\ Request!GiveUpPost /\ posts <= Times
          /\ UNCHANGED <<attempt, stage, posts, reply, id, bookmarks, tagged>>
      BY <1>5, <2>2 DEF Request!PostFails, Request!MayRepeat, Request!clientVars,
                        Request!serverVars
    <3>2. posts' \in 0..(Times + 1)
      BY <3>1 DEF BoundsInv, Tries
    <3> QED BY <2>1, <3>1, <3>2, GiveUpStep
  <2>3. CASE ~Request!MayRepeat
    <3>1. Request!Fail
      BY <1>5, <2>3 DEF Request!PostFails
    <3> QED BY <2>1, <3>1, FailsStep
  <2> QED BY <2>2, <2>3
<1>6. CASE Request!PostRefused
  <2>1. Request!Fail /\ wire # "none"
    BY <1>6 DEF Request!PostRefused
  <2>2. stage \in Request!Operations
    BY <2>1 DEF RequestsInv, OwnPosts
  <2> QED BY <2>1, <2>2, FailsStep
<1>7. CASE Request!PostServed
  BY <1>7, ServedBounds
<1>8. CASE Request!Timeout
  <2>1. Request!Fail /\ stage \in Request!Operations
    BY <1>8 DEF Request!Timeout
  <2> QED BY <2>1, FailsStep
<1>9. CASE Request!Interrupt
  <2>1. /\ stage' = "done" /\ UNCHANGED <<attempt, posts, reply, id, bookmarks, tagged>>
        /\ stage \in Request!Operations \cup {"backoff"}
    BY <1>9 DEF Request!Interrupt, Request!serverVars
  <2>2. CASE stage = "backoff"
    <3>1. UNCHANGED <<wire, strays>>
      BY <1>9, <2>2 DEF Request!Interrupt
    <3>2. Tries'
      BY <1>1, <2>1, <3>1 DEF BoundsInv, Tries
    <3>3. Counted'
      <4> SUFFICES ASSUME NEW k \in Request!Operations PROVE Sent(k)' <= Allowed(k)'
        BY DEF Counted, Request!Operations
      <4>1. Sent(k) <= Allowed(k)
        BY DEF BoundsInv, Counted
      <4>2. stage # k /\ stage' # k
        BY <1>1, <2>1, <2>2
      <4>3. Sent(k)' = Sent(k) /\ Allowed(k)' = Allowed(k)
        BY <2>1, <3>1, <4>2 DEF Sent, Allowed, Most
      <4> QED BY <4>1, <4>3
    <3> QED BY <2>1, <3>1, <3>2, <3>3, KnownStays DEF BoundsInv
  <2>3. CASE stage \in Request!Operations
    <3>1. Request!GiveUpPost
      BY <1>1, <1>9, <2>3 DEF Request!Interrupt
    <3>2. posts' \in 0..(Times + 1)
      BY <2>1 DEF BoundsInv, Tries
    <3> QED BY <2>1, <2>3, <3>1, <3>2, GiveUpStep
  <2> QED BY <2>1, <2>2, <2>3
<1> QED BY <1>2, <1>3, <1>4, <1>5, <1>6, <1>7, <1>8, <1>9 DEF Request!Steps

(* The server makes a bookmark of the POST on its way, or not.              *)
LEMMA AnswerBounds == ASSUME RequestsInv, BoundsInv, Request!ServerAnswers PROVE BoundsInv'
<1>1. /\ wire = "sent" /\ wire' # "none" /\ wire' # "sent"
      /\ UNCHANGED <<attempt, stage, posts, id, strays>>
      /\ reply' = IF stage = "createBookmark" THEN bookmarks' ELSE reply
  BY DEF Request!ServerAnswers, Request!clientVars
<1>2. stage \in Request!Operations
  BY <1>1 DEF RequestsInv, OwnPosts
<1>3. /\ bookmarks' \in {bookmarks, bookmarks + 1}
      /\ bookmarks' # bookmarks => stage = "createBookmark"
      /\ tagged' = tagged \/ (stage = "attachTags" /\ tagged' = tagged \cup {id})
  <2>1. bookmarks \in Nat
    BY DEF RequestsInv, RequestsTyped
  <2>2. CASE Request!Serve(stage)
    <3>1. bookmarks' = bookmarks + (IF stage = "createBookmark" THEN 1 ELSE 0)
      BY <2>2 DEF Request!Serve
    <3>2. tagged' = IF stage = "attachTags" THEN tagged \cup {id} ELSE tagged
      BY <2>2 DEF Request!Serve
    <3> QED BY <2>1, <3>1, <3>2
  <2>3. CASE UNCHANGED Request!serverVars
    BY <2>3 DEF Request!serverVars
  <2>4. Request!Serve(stage) \/ UNCHANGED Request!serverVars
    BY DEF Request!ServerAnswers
  <2> QED BY <2>2, <2>3, <2>4
<1>4. strays \in [Request!Operations -> Nat] /\ bookmarks \in Nat
  BY DEF RequestsInv, RequestsTyped
<1>5. Tries'
  BY <1>1, <1>2 DEF BoundsInv, Tries
<1>6. Counted'
  <2> SUFFICES ASSUME NEW k \in Request!Operations PROVE Sent(k)' <= Allowed(k)'
    BY DEF Counted, Request!Operations
  <2>1. Sent(k) <= Allowed(k) /\ Allowed(k) \in Nat
    BY AllowedMost DEF BoundsInv, Counted
  <2>2. Allowed(k)' = Allowed(k)
    BY <1>1 DEF Allowed, Most
  <2>3. CASE stage = k
    <3>1. Sent(k) = strays[k] + 1 + (IF k = "createBookmark" THEN bookmarks ELSE 0)
      BY <1>1, <2>3 DEF Sent
    <3>2. Sent(k)' = strays[k] + 0 + (IF k = "createBookmark" THEN bookmarks' ELSE 0)
      BY <1>1, <2>3 DEF Sent
    <3>3. strays[k] \in Nat
      BY <1>4
    <3> QED BY <1>3, <1>4, <2>1, <2>2, <3>1, <3>2, <3>3
  <2>4. CASE stage # k
    <3>1. k = "createBookmark" => bookmarks' = bookmarks
      BY <1>3, <2>4
    <3>2. Sent(k)' = Sent(k)
      BY <1>1, <2>4, <3>1 DEF Sent
    <3> QED BY <2>1, <2>2, <3>2
  <2> QED BY <2>3, <2>4
<1>7. Known'
  <2>1. stage = "attachTags" => id \in 1..bookmarks
    BY DEF RequestsInv, TagsFollow
  <2>2. bookmarks' \in Nat /\ bookmarks <= bookmarks' /\ reply \in Nat /\ id \in Nat
    BY <1>3, <1>4 DEF RequestsInv, RequestsTyped
  <2>3. 1..bookmarks \subseteq 1..bookmarks'
    BY <1>4, <2>2
  <2>4. id <= bookmarks' /\ tagged' \subseteq 1..bookmarks'
    <3>1. id <= bookmarks /\ tagged \subseteq 1..bookmarks
      BY DEF BoundsInv, Known
    <3>2. id <= bookmarks'
      BY <1>4, <2>2, <3>1
    <3>3. tagged' \subseteq 1..bookmarks'
      BY <1>3, <2>1, <2>3, <3>1
    <3> QED BY <3>2, <3>3
  <2>5. reply' <= bookmarks'
    BY <1>1, <1>4, <2>2 DEF BoundsInv, Known
  <2>6. strays["attachTags"] > 0 => id \in 1..bookmarks'
    BY <2>3 DEF BoundsInv, Known
  <2> QED BY <1>1, <2>4, <2>5, <2>6 DEF Known
<1> QED BY <1>5, <1>6, <1>7 DEF BoundsInv

(* A POST that was given up is served late, or lost.                        *)
LEMMA StrayBounds == ASSUME RequestsInv, BoundsInv, Request!StrayServed PROVE BoundsInv'
<1>1. UNCHANGED <<attempt, stage, posts, wire, id, reply>>
  BY DEF Request!StrayServed, Request!clientVars
<1>2. PICK o \in Request!Operations :
        /\ strays[o] > 0
        /\ strays' = [strays EXCEPT ![o] = strays[o] - 1]
        /\ Request!Serve(o) \/ UNCHANGED Request!serverVars
  BY DEF Request!StrayServed
<1>3. strays \in [Request!Operations -> Nat] /\ bookmarks \in Nat
  BY DEF RequestsInv, RequestsTyped
<1>4. /\ bookmarks' \in {bookmarks, bookmarks + 1}
      /\ bookmarks' # bookmarks => o = "createBookmark"
      /\ tagged' = tagged \/ (o = "attachTags" /\ tagged' = tagged \cup {id})
  <2>1. CASE Request!Serve(o)
    <3>1. bookmarks' = bookmarks + (IF o = "createBookmark" THEN 1 ELSE 0)
      BY <2>1 DEF Request!Serve
    <3>2. tagged' = IF o = "attachTags" THEN tagged \cup {id} ELSE tagged
      BY <2>1 DEF Request!Serve
    <3> QED BY <1>3, <3>1, <3>2
  <2>2. CASE UNCHANGED Request!serverVars
    BY <2>2 DEF Request!serverVars
  <2> QED BY <1>2, <2>1, <2>2
<1>5. Tries'
  BY <1>1 DEF BoundsInv, Tries
<1>6. ASSUME NEW k \in Request!Operations
      PROVE  /\ strays[k] \in Nat
             /\ strays'[k] = strays[k] - (IF o = k THEN 1 ELSE 0)
  <2>1. CASE o = k
    BY <1>2, <1>3, <2>1
  <2>2. CASE o # k
    BY <1>2, <1>3, <2>2
  <2> QED BY <2>1, <2>2
<1>7. Counted'
  <2> SUFFICES ASSUME NEW k \in Request!Operations PROVE Sent(k)' <= Allowed(k)'
    BY DEF Counted, Request!Operations
  <2>1. Sent(k) <= Allowed(k) /\ Allowed(k) \in Nat
    BY AllowedMost DEF BoundsInv, Counted
  <2>2. Allowed(k)' = Allowed(k)
    BY <1>1 DEF Allowed, Most
  <2>3. strays[k] \in Nat /\ strays'[k] = strays[k] - (IF o = k THEN 1 ELSE 0)
    BY <1>6
  <2> DEFINE flying == IF wire = "sent" /\ stage = k THEN 1 ELSE 0
  <2>4. Sent(k) = strays[k] + flying + (IF k = "createBookmark" THEN bookmarks ELSE 0)
    BY DEF Sent
  <2>5. Sent(k)' = strays'[k] + flying + (IF k = "createBookmark" THEN bookmarks' ELSE 0)
    BY <1>1 DEF Sent
  <2>6. flying \in {0, 1}
    OBVIOUS
  <2> HIDE DEF flying
  <2>7. CASE o = k
    BY <1>3, <1>4, <2>1, <2>2, <2>3, <2>4, <2>5, <2>6, <2>7
  <2>8. CASE o # k
    <3>1. k = "createBookmark" => bookmarks' = bookmarks
      BY <1>4, <2>8
    <3> QED BY <1>3, <2>1, <2>2, <2>3, <2>4, <2>5, <2>6, <2>8, <3>1
  <2> QED BY <2>7, <2>8
<1>8. Known'
  <2>1. "attachTags" \in Request!Operations
    BY DEF Request!Operations
  <2>2. o = "attachTags" => id \in 1..bookmarks
    BY <1>2 DEF BoundsInv, Known
  <2>3. bookmarks' \in Nat /\ bookmarks <= bookmarks' /\ reply \in Nat /\ id \in Nat
    BY <1>3, <1>4 DEF RequestsInv, RequestsTyped
  <2>4. 1..bookmarks \subseteq 1..bookmarks'
    BY <1>3, <2>3
  <2>5. id <= bookmarks' /\ tagged' \subseteq 1..bookmarks'
    <3>1. id <= bookmarks /\ tagged \subseteq 1..bookmarks
      BY DEF BoundsInv, Known
    <3>2. id <= bookmarks'
      BY <1>3, <2>3, <3>1
    <3>3. tagged' \subseteq 1..bookmarks'
      BY <1>4, <2>2, <2>4, <3>1
    <3> QED BY <3>2, <3>3
  <2>6. reply <= bookmarks'
    BY <1>3, <2>3 DEF BoundsInv, Known
  <2>7. strays'["attachTags"] > 0 => id \in 1..bookmarks'
    <3>1. strays["attachTags"] \in Nat
          /\ strays'["attachTags"] = strays["attachTags"] - (IF o = "attachTags" THEN 1 ELSE 0)
      BY <1>6, <2>1
    <3>2. strays["attachTags"] > 0 => id \in 1..bookmarks
      BY DEF BoundsInv, Known
    <3> QED BY <2>4, <3>1, <3>2
  <2> QED BY <1>1, <2>5, <2>6, <2>7 DEF Known
<1> QED BY <1>5, <1>7, <1>8 DEF BoundsInv

(* Every step.                                                              *)
LEMMA BoundsStep ==
    ASSUME RequestsInv, BoundsInv, [Request!Next \/ Request!Interrupt]_requestVars
    PROVE  BoundsInv'
<1>1. CASE UNCHANGED requestVars
  <2>1. UNCHANGED <<attempt, stage, posts, wire, reply, id, strays, bookmarks, tagged>>
    BY <1>1 DEF requestVars
  <2>2. Tries'
    BY <2>1 DEF BoundsInv, Tries
  <2>3. Counted'
    <3> SUFFICES ASSUME NEW k \in Request!Operations PROVE Sent(k)' <= Allowed(k)'
      BY DEF Counted, Request!Operations
    <3>1. Sent(k) <= Allowed(k)
      BY DEF BoundsInv, Counted
    <3>2. Sent(k)' = Sent(k) /\ Allowed(k)' = Allowed(k)
      BY <2>1 DEF Sent, Allowed, Most
    <3> QED BY <3>1, <3>2
  <2> QED BY <2>1, <2>2, <2>3, KnownStays DEF BoundsInv
<1>2. CASE Request!Steps \/ Request!Interrupt
  BY <1>2, ClientBounds
<1>3. CASE Request!ServerAnswers
  BY <1>3, AnswerBounds
<1>4. CASE Request!StrayServed
  BY <1>4, StrayBounds
<1> QED BY <1>1, <1>2, <1>3, <1>4 DEF Request!Next

-----------------------------------------------------------------------------
(* Reads *)

(* A listener and a descriptor are a reading call's, of its own kind. *)
HeldWhileReading ==
    /\ attached => reading = "reading" /\ reads = "stream"
    /\ fd => reading = "reading" /\ reads = "slice"
    /\ reading = "done" <=> readOutcome # "none"
    /\ reading = "done" /\ reads = "stream" => source # "open"

(* What is collected is what was emitted, and an answer comes at its end. *)
CollectsAll ==
    /\ emitted \in Nat /\ chunks = [i \in 1..emitted |-> i]
    /\ readOutcome = "ok" /\ reads = "stream" => source = "ended"

ReadsTyped ==
    /\ reads \in {"stream", "slice"} /\ reading \in {"idle", "reading", "done"}
    /\ source \in {"open", "ended", "failed", "destroyed"}
    /\ attached \in BOOLEAN /\ fd \in BOOLEAN
    /\ readOutcome \in {"none", "ok", "failed", "interrupted"}

ReadsInv == ReadsTyped /\ HeldWhileReading /\ CollectsAll

LEMMA ReadsInitial == ASSUME Read!Init PROVE ReadsInv
<1>1. chunks = [i \in 1..emitted |-> i]
  <2>1. emitted = 0 /\ 1..0 = {} /\ chunks = <<>>
    BY DEF Read!Init
  <2> QED BY <2>1
<1> QED BY <1>1 DEF Read!Init, ReadsInv, ReadsTyped, HeldWhileReading, CollectsAll

(* One chunk more. *)
LEMMA Collected ==
    ASSUME NEW n \in Nat PROVE Append([i \in 1..n |-> i], n + 1) = [i \in 1..n + 1 |-> i]
<1> DEFINE s == [i \in 1..n |-> i]
<1>1. s \in Seq(Nat) /\ Len(s) = n
  OBVIOUS
<1>2. /\ Append(s, n + 1) \in Seq(Nat) /\ Len(Append(s, n + 1)) = n + 1
      /\ \A i \in 1..n : Append(s, n + 1)[i] = i
      /\ Append(s, n + 1)[n + 1] = n + 1
  BY <1>1
<1> QED BY <1>2

LEMMA ReadsStep == ASSUME ReadsInv, [Read!Next \/ Read!Interrupt]_readVars PROVE ReadsInv'
<1> USE DEF ReadsInv, ReadsTyped, HeldWhileReading
<1>1. CASE Read!OnData
  <2>1. emitted \in Nat /\ chunks' = Append([i \in 1..emitted |-> i], emitted + 1)
        /\ emitted' = emitted + 1
    BY <1>1 DEF Read!OnData, CollectsAll
  <2>2. chunks' = [i \in 1..emitted' |-> i] /\ emitted' \in Nat
    BY <2>1, Collected
  <2> QED BY <1>1, <2>2 DEF Read!OnData, CollectsAll
<1>2. ASSUME UNCHANGED <<emitted, chunks>>, ReadsTyped', HeldWhileReading',
             readOutcome' = "ok" /\ reads' = "stream" => source' = "ended"
      PROVE  ReadsInv'
  BY <1>2 DEF CollectsAll
<1>3. CASE Read!Attach \/ Read!OpenFile \/ Read!Destroyed \/ UNCHANGED readVars
  <2>1. UNCHANGED <<emitted, chunks>>
    BY <1>3 DEF Read!Attach, Read!OpenFile, Read!Destroyed, readVars
  <2>2. ReadsTyped' /\ HeldWhileReading'
    <3>1. CASE Read!Attach
      BY <3>1 DEF Read!Attach
    <3>2. CASE Read!OpenFile
      <4>1. attached = FALSE /\ fd = FALSE /\ reads = "slice"
        BY <3>2 DEF Read!OpenFile
      <4> QED BY <3>2, <4>1 DEF Read!OpenFile
    <3>3. CASE Read!Destroyed
      BY <3>3 DEF Read!Destroyed
    <3>4. CASE UNCHANGED readVars
      BY <3>4 DEF readVars
    <3> QED BY <1>3, <3>1, <3>2, <3>3, <3>4
  <2>3. readOutcome' = "ok" /\ reads' = "stream" => source' = "ended"
    BY <1>3 DEF Read!Attach, Read!OpenFile, Read!Destroyed, readVars, CollectsAll
  <2> QED BY <1>2, <2>1, <2>2, <2>3
<1>4. CASE Read!OnEnd \/ Read!OnError \/ Read!Detach
  <2>1. UNCHANGED <<emitted, chunks>>
    BY <1>4 DEF Read!OnEnd, Read!OnError, Read!Detach, Read!Settle
  <2>a. /\ reads' = "stream" /\ reading' = "done" /\ attached' = FALSE /\ fd' = FALSE
        /\ readOutcome' \in {"ok", "failed", "interrupted"}
        /\ source' \in {"ended", "failed", "destroyed"}
    <3>1. reads = "stream" /\ fd = FALSE
      BY <1>4 DEF Read!OnEnd, Read!OnError, Read!Detach, Read!Settle
    <3> QED BY <1>4, <3>1 DEF Read!OnEnd, Read!OnError, Read!Detach, Read!Settle
  <2>2. ReadsTyped' /\ HeldWhileReading'
    BY <2>a
  <2>3. readOutcome' = "ok" => source' = "ended"
    BY <1>4 DEF Read!OnEnd, Read!OnError, Read!Detach, Read!Settle
  <2> QED BY <1>2, <2>1, <2>2, <2>3
<1>5. ASSUME NEW how \in {"ok", "failed", "interrupted"}, Read!ReadAndClose(how)
      PROVE  ReadsInv'
  BY <1>2, <1>5 DEF Read!ReadAndClose
<1> HIDE DEF ReadsInv
<1> QED BY <1>1, <1>3, <1>4, <1>5 DEF Read!Next, Read!Steps, Read!ReadSlice,
           Read!Interrupt

(* A buffer is everything the stream had to say, and a call that is over    *)
(* holds no listener, no open stream and no descriptor.                     *)
LEMMA ReadsWhole == ASSUME ReadsInv PROVE Read!ReadsAreWhole
  BY DEF ReadsInv, ReadsTyped, HeldWhileReading, CollectsAll, Read!ReadsAreWhole

(* How a call has ended stays, and only an interruption ends one as such.   *)
LEMMA ReadsEnd ==
    ASSUME ReadsInv
    PROVE  /\ readOutcome # "none" /\ [Read!Next \/ Read!Interrupt]_readVars =>
                readOutcome' = readOutcome
           /\ Read!Next /\ readOutcome # "interrupted" => readOutcome' # "interrupted"
<1> USE DEF ReadsInv, ReadsTyped, HeldWhileReading, readVars, Read!Next, Read!Steps,
            Read!Attach, Read!OpenFile,
            Read!ReadSlice, Read!ReadAndClose, Read!OnData, Read!OnEnd, Read!OnError,
            Read!Settle, Read!Destroyed
<1>1. ASSUME readOutcome # "none", [Read!Next \/ Read!Interrupt]_readVars
      PROVE  readOutcome' = readOutcome
  BY <1>1 DEF Read!Interrupt, Read!Detach
<1>2. ASSUME Read!Next, readOutcome # "interrupted" PROVE readOutcome' # "interrupted"
  BY <1>2
<1> QED BY <1>1, <1>2

(* Of a stream of any length: a buffer is all it had to say, and a read     *)
(* that is over holds no listener, no open stream and no descriptor.        *)
THEOREM ReadsAreComplete == Spec => []ReadsAreWhole
<1>1. Init => ReadsInv
  BY ReadsInitial DEF Init
<1>2. ReadsInv /\ [Next]_vars => ReadsInv'
  BY ReadsStep, PartsStep DEF PartSteps
<1>3. ReadsInv => ReadsAreWhole
  BY ReadsWhole DEF ReadsAreWhole
<1> QED BY <1>1, <1>2, <1>3, PTL DEF Spec

-----------------------------------------------------------------------------
(* Sections of a log file *)

(* One section at a time is at the file, the one that holds the permit or   *)
(* the one that was interrupted holding it; then nobody starts another.     *)
OneAtTheFile ==
    /\ \A w \in Writers : section[w] = "holding" => io[w] # "none"
    /\ \A w \in Writers : io[w] # "none" => section[w] \in {"holding", "interrupted"}
    /\ \A v, w \in Writers : io[v] # "none" /\ io[w] # "none" => v = w
    /\ \A v, w \in Writers : section[w] = "interrupted" => section[v] \in Log!Ended

(* The chunks of the section that is being written are the end of the file, *)
(* and all of it when the section has truncated it.                         *)
TailIsWritten ==
    \A w \in Writers :
        /\ io[w] = "none" /\ section[w] \notin Log!Ended => position[w] = 0
        /\ io[w] = "opening" => position[w] = 0
        /\ io[w] = "writing" =>
             /\ position[w] <= Len(file)
             /\ \A n \in 1..position[w] : file[(Len(file) - position[w]) + n] = w
             /\ flag[w] = "w" => Len(file) = position[w]

(* Only the first section truncates, before any other was written.          *)
FirstTruncates ==
    /\ mode = "append" => \A w \in Writers : flag[w] = "a"
    /\ mode = "overwrite" /\ ~hasTruncated =>
         \A w \in Writers : section[w] \in {"idle", "waiting",
         "interrupted"} /\ io[w] = "none"
    /\ \A w \in Writers : flag[w] = "w" /\ io[w] # "none" =>
         \A v \in Writers : section[v] # "written"

OldGone ==
    mode = "overwrite" /\ hasTruncated /\ ~spoilt =>
        \/ \E w \in Writers : flag[w] = "w" /\ io[w] = "opening"
        \/ \A i \in 1..Len(file) : file[i] # Old

OldFirst == mode = "append" => Len(file) > 0 /\ file[1] = Old

SectionsInv ==
    /\ Log!TypeOK /\ OneAtTheFile /\ TailIsWritten /\ FirstTruncates /\ OldGone
           /\ OldFirst
    /\ Log!WrittenStays

LEMMA SectionsInitial == ASSUME Log!Init PROVE SectionsInv
<1>1. file = <<Old>> /\ Len(file) = 1 /\ file[1] = Old
  BY DEF Log!Init
<1>2. Log!TypeOK
  <2>1. file \in Seq(Writers \cup {Old})
    BY <1>1
  <2>2. position \in [Writers -> 0..Chunks]
    BY CliAssumption DEF Log!Init
  <2> QED BY <2>1, <2>2 DEF Log!Init, Log!TypeOK
<1>3. \A w \in Writers : section[w] = "idle" /\ io[w] = "none" /\ flag[w] = "a"
/\ position[w] = 0
  BY DEF Log!Init
<1>4. hasTruncated = FALSE
  BY DEF Log!Init
<1> QED BY <1>1, <1>2, <1>3, <1>4
        DEF SectionsInv, OneAtTheFile, TailIsWritten, FirstTruncates, OldGone, OldFirst,
            Log!WrittenStays, Log!Ended

(* A step that leaves the file alone, and nobody's section written.         *)
LEMMA FileStays ==
    ASSUME SectionsInv, UNCHANGED file, \A w \in Writers : section'[w] = "written" =>
           section[w] = "written",
           UNCHANGED mode
    PROVE  Log!WrittenStays' /\ OldFirst'
  BY DEF SectionsInv, Log!WrittenStays, OldFirst

LEMMA BeginStep == ASSUME SectionsInv, NEW w \in Writers, Log!Begin(w) PROVE SectionsInv'
<1> USE DEF SectionsInv
<1>1. /\ section[w] = "idle" /\ section' = [section EXCEPT ![w] = "waiting"]
      /\ UNCHANGED <<mode, hasTruncated, flag, io, position, file, spoilt>>
  BY DEF Log!Begin
<1>2. Log!TypeOK'
  BY <1>1 DEF Log!TypeOK
<1>3. /\ \A v \in Writers : section'[v] = IF v = w THEN "waiting" ELSE section[v]
      /\ \A v \in Writers : section[v] # "interrupted"
  BY <1>1 DEF Log!TypeOK, OneAtTheFile, Log!Ended
<1>4. OneAtTheFile'
  BY <1>1, <1>3 DEF OneAtTheFile
<1>5. TailIsWritten'
  BY <1>1, <1>3 DEF TailIsWritten, Log!Ended
<1>6. FirstTruncates'
  BY <1>1, <1>3 DEF FirstTruncates
<1>7. OldGone'
  BY <1>1 DEF OldGone
<1>8. Log!WrittenStays' /\ OldFirst'
  BY <1>1, <1>3, FileStays
<1> QED BY <1>2, <1>4, <1>5, <1>6, <1>7, <1>8

LEMMA StartWriteStep ==
    ASSUME SectionsInv, NEW w \in Writers, Log!StartWrite(w)
    PROVE  SectionsInv'
<1> USE DEF SectionsInv
<1>1. /\ section[w] = "waiting" /\ section' = [section EXCEPT ![w] = "holding"]
      /\ io' = [io EXCEPT ![w] = "opening"]
      /\ UNCHANGED <<mode, position, file, spoilt>>
      /\ \A v \in Writers : section[v] # "holding"
  BY DEF Log!StartWrite
<1>a. flag' = [flag EXCEPT ![w] = IF mode = "append" \/ hasTruncated THEN "a" ELSE "w"]
  BY DEF Log!StartWrite
<1>b. hasTruncated' = (mode = "overwrite")
  BY DEF Log!StartWrite
<1>2. /\ \A v \in Writers : section'[v] = IF v = w THEN "holding" ELSE section[v]
      /\ \A v \in Writers : section[v] # "interrupted" /\ io[v] = "none"
      /\ \A v \in Writers : io'[v] = IF v = w THEN "opening" ELSE "none"
  BY <1>1 DEF Log!TypeOK, OneAtTheFile, Log!Ended
<1>3. Log!TypeOK'
  BY <1>1, <1>a, <1>b DEF Log!TypeOK
<1>4. OneAtTheFile'
  BY <1>1, <1>2 DEF OneAtTheFile
<1>5. TailIsWritten'
  <2>1. position[w] = 0
    BY <1>1, <1>2 DEF TailIsWritten, Log!Ended
  <2> QED BY <1>1, <1>2, <2>1 DEF TailIsWritten, Log!Ended
<1>c. \A v \in Writers : flag'[v] = IF v # w THEN flag[v]
                                    ELSE IF mode = "append" \/ hasTruncated
                                         THEN "a" ELSE "w"
  BY <1>a DEF Log!TypeOK
<1>6. FirstTruncates'
  <2>1. mode' = "append" => \A v \in Writers : flag'[v] = "a"
    BY <1>1, <1>c DEF FirstTruncates
  <2>2. ~(mode' = "overwrite" /\ ~hasTruncated')
    BY <1>1, <1>b
  <2>3. ASSUME NEW v \in Writers, flag'[v] = "w", io'[v] # "none", NEW u \in Writers
        PROVE  section'[u] # "written"
    <3>1. v = w
      BY <1>2, <2>3
    <3>2. mode = "overwrite" /\ ~hasTruncated
      BY <1>c, <2>3, <3>1 DEF Log!TypeOK
    <3> QED BY <1>2, <3>2 DEF FirstTruncates
  <2> QED BY <2>1, <2>2, <2>3 DEF FirstTruncates
<1>7. OldGone'
  <2>1. CASE hasTruncated
    BY <1>1, <1>2, <2>1 DEF OldGone
  <2>2. CASE ~hasTruncated
    <3>1. mode = "overwrite" => flag'[w] = "w" /\ io'[w] = "opening"
      BY <1>2, <1>c, <2>2
    <3> QED BY <1>1, <3>1 DEF OldGone
  <2> QED BY <2>1, <2>2
<1>8. Log!WrittenStays' /\ OldFirst'
  BY <1>1, <1>2, FileStays
<1> QED BY <1>3, <1>4, <1>5, <1>6, <1>7, <1>8

(* One operation of the file system is over. *)
LEMMA AfterStep ==
    ASSUME SectionsInv, NEW w \in Writers, io[w] # "none", Log!After(w, "writing"),
           UNCHANGED section
    PROVE  /\ \A v \in Writers : io'[v] = IF v # w THEN "none"
                                          ELSE IF section[w] = "holding"
                                               THEN "writing" ELSE "none"
           /\ io' \in [Writers -> {"none", "opening", "writing"}]
           /\ section[w] # "holding" => section[w] \in Log!Ended
           /\ OneAtTheFile'
<1> USE DEF SectionsInv
<1>1. \A v \in Writers \ {w} : io[v] = "none"
  BY DEF OneAtTheFile
<1>2. /\ \A v \in Writers : io'[v] = IF v # w THEN "none"
                                     ELSE IF section[w] = "holding"
                                          THEN "writing" ELSE "none"
      /\ io' \in [Writers -> {"none", "opening", "writing"}]
  BY <1>1 DEF Log!After, Log!TypeOK
<1>3. OneAtTheFile'
  BY <1>2 DEF OneAtTheFile
<1>4. section[w] # "holding" => section[w] \in Log!Ended
  BY DEF OneAtTheFile, Log!Ended
<1> QED BY <1>2, <1>3, <1>4

LEMMA FileOpensStep ==
    ASSUME SectionsInv, NEW w \in Writers, Log!FileOpens(w)
    PROVE  SectionsInv'
<1> USE DEF SectionsInv
<1>1. /\ io[w] = "opening" /\ Log!After(w, "writing")
      /\ UNCHANGED <<mode, section, hasTruncated, flag, position, spoilt>>
      /\ file' = IF flag[w] = "w" THEN <<>> ELSE file
  BY DEF Log!FileOpens
<1>2. /\ \A v \in Writers : io'[v] = IF v # w THEN "none"
                                     ELSE IF section[w] = "holding"
                                          THEN "writing" ELSE "none"
      /\ io' \in [Writers -> {"none", "opening", "writing"}]
      /\ section[w] # "holding" => section[w] \in Log!Ended
      /\ OneAtTheFile'
  BY <1>1, AfterStep
<1>3. Log!TypeOK'
  BY <1>1, <1>2 DEF Log!TypeOK
<1>4. position[w] = 0 /\ \A v \in Writers \ {w} : io[v] = "none"
  BY <1>1 DEF TailIsWritten, OneAtTheFile
<1>5. Len(file') \in Nat
  BY <1>3 DEF Log!TypeOK
<1>6. TailIsWritten'
  <2>1. ASSUME NEW v \in Writers
        PROVE  /\ io'[v] = "none" /\ section'[v] \notin Log!Ended => position'[v] = 0
               /\ io'[v] = "opening" => position'[v] = 0
    BY <1>1, <1>2, <1>4 DEF TailIsWritten
  <2>2. ASSUME NEW v \in Writers, io'[v] = "writing"
        PROVE  /\ position'[v] <= Len(file')
               /\ \A n \in 1..position'[v] : file'[(Len(file') - position'[v]) + n] = v
               /\ flag'[v] = "w" => Len(file') = position'[v]
    <3>1. v = w /\ position'[v] = 0
      BY <1>1, <1>2, <1>4, <2>2
    <3>2. flag'[w] = "w" => Len(file') = 0
      BY <1>1
    <3> QED BY <1>5, <3>1, <3>2
  <2> QED BY <2>1, <2>2 DEF TailIsWritten
<1>7. FirstTruncates'
  <2>1. \A v \in Writers : io'[v] # "none" => io[v] # "none"
    BY <1>1, <1>2
  <2>2. ~(mode = "overwrite" /\ ~hasTruncated)
    BY <1>1 DEF FirstTruncates
  <2> QED BY <1>1, <2>1, <2>2 DEF FirstTruncates
<1>8. OldGone'
  <2>1. CASE flag[w] = "w"
    BY <1>1, <2>1 DEF OldGone
  <2>2. CASE flag[w] # "w"
    BY <1>1, <1>4, <2>2 DEF OldGone
  <2> QED BY <2>1, <2>2
<1>9. Log!WrittenStays' /\ OldFirst'
  <2>1. CASE flag[w] = "w"
    <3>1. \A v \in Writers : section[v] # "written"
      BY <1>1, <2>1 DEF FirstTruncates
    <3>2. mode # "append"
      BY <2>1 DEF FirstTruncates
    <3> QED BY <1>1, <3>1, <3>2 DEF Log!WrittenStays, OldFirst
  <2>2. CASE flag[w] # "w"
    BY <1>1, <2>2, FileStays
  <2> QED BY <2>1, <2>2
<1> QED BY <1>2, <1>3, <1>6, <1>7, <1>8, <1>9

(* Whichever way the file was opened, a chunk goes to its end. *)
LEMMA ChunkAtTheEnd ==
    ASSUME SectionsInv, NEW w \in Writers, Log!ChunkWritten(w)
    PROVE  file' = Append(file, w)
<1> USE DEF SectionsInv
<1>1. file \in Seq(Writers \cup {Old}) /\ position[w] \in Nat
  BY CliAssumption DEF Log!TypeOK
<1>2. CASE flag[w] = "w"
  <2>1. Len(file) = position[w]
    BY <1>2 DEF Log!ChunkWritten, TailIsWritten
  <2>2. ~(position[w] < Len(file)) /\ Len(file) \in Nat
    BY <1>1, <2>1
  <2>3. file' = [i \in 1..position[w] + 1 |-> IF i = position[w] + 1 THEN w ELSE file[i]]
    BY <1>2, <2>2 DEF Log!ChunkWritten, Log!Overwritten
  <2>4. file' = [i \in 1..Len(file) + 1 |-> IF i = Len(file) + 1 THEN w ELSE file[i]]
    BY <2>1, <2>3
  <2>5. Append(file, w) =
            [i \in 1..Len(file) + 1 |-> IF i = Len(file) + 1 THEN w ELSE file[i]]
    <3> DEFINE S == Writers \cup {Old}
    <3>1. file \in Seq(S) /\ w \in S
      BY <1>1
    <3> DEFINE t == Append(file, w)
    <3> HIDE DEF S
    <3>2. /\ t \in Seq(S) /\ Len(t) = Len(file) + 1 /\ t[Len(file) + 1] = w
          /\ \A i \in 1..Len(file) : t[i] = file[i]
      BY <3>1
    <3> HIDE DEF t
    <3>3. t = [i \in 1..Len(t) |-> t[i]] /\ Len(file) \in Nat
      <4>1. \A u \in Seq(S) : u = [i \in 1..Len(u) |-> u[i]] /\ Len(u) \in Nat
        OBVIOUS
      <4> QED BY <3>1, <3>2, <4>1
    <3>4. \A i \in 1..Len(file) + 1 :
              t[i] = IF i = Len(file) + 1 THEN w ELSE file[i]
      BY <3>2, <3>3
    <3>5. t = [i \in 1..Len(file) + 1 |-> IF i = Len(file) + 1 THEN w ELSE file[i]]
      BY <3>2, <3>3, <3>4
    <3> QED BY <3>5 DEF t
  <2> QED BY <2>4, <2>5
<1>3. CASE flag[w] # "w"
  BY <1>3 DEF Log!ChunkWritten
<1> QED BY <1>2, <1>3

LEMMA ChunkWrittenStep ==
    ASSUME SectionsInv, NEW w \in Writers, Log!ChunkWritten(w) PROVE SectionsInv'
<1> USE DEF SectionsInv
<1>1. /\ io[w] = "writing" /\ position[w] < Chunks /\ Log!After(w, "writing")
      /\ UNCHANGED <<mode, section, hasTruncated, flag, spoilt>>
      /\ position' = [position EXCEPT ![w] = @ + 1]
  BY DEF Log!ChunkWritten
<1>2. /\ \A v \in Writers : io'[v] = IF v # w THEN "none"
                                     ELSE IF section[w] = "holding"
                                          THEN "writing" ELSE "none"
      /\ io' \in [Writers -> {"none", "opening", "writing"}]
      /\ section[w] # "holding" => section[w] \in Log!Ended
      /\ OneAtTheFile'
  BY <1>1, AfterStep
<1>3. /\ Len(file) \in Nat /\ file' \in Seq(Writers \cup {Old})
      /\ Len(file') = Len(file) + 1 /\ file'[Len(file) + 1] = w
      /\ \A i \in 1..Len(file) : file'[i] = file[i]
  <2> DEFINE S == Writers \cup {Old}
  <2>1. file \in Seq(S) /\ w \in S
    BY DEF Log!TypeOK
  <2>2. file' = Append(file, w)
    BY ChunkAtTheEnd
  <2> HIDE DEF S
  <2>3. Len(file) \in Nat /\ Len(file') = Len(file) + 1 /\ file'[Len(file) + 1] = w
        /\ \A i \in 1..Len(file) : file'[i] = file[i]
    BY <2>1, <2>2
  <2>4. file' \in Seq(S)
    BY <2>1, <2>2
  <2> QED BY <2>3, <2>4 DEF S
<1>4. /\ position[w] \in Nat /\ position[w] + 1 \in 0..Chunks
      /\ \A v \in Writers : position'[v] = IF v = w THEN position[w] + 1 ELSE position[v]
      /\ position' \in [Writers -> 0..Chunks]
  <2>1. position[w] \in 0..Chunks /\ position[w] \in Nat /\ position[w] + 1 \in 0..Chunks
    BY <1>1, CliAssumption DEF Log!TypeOK
  <2>2. position' = [position EXCEPT ![w] = position[w] + 1]
    BY <1>1
  <2> QED BY <2>1, <2>2 DEF Log!TypeOK
<1>5. Log!TypeOK'
  BY <1>1, <1>2, <1>3, <1>4 DEF Log!TypeOK
<1>6. TailIsWritten'
  <2>1. ASSUME NEW v \in Writers
        PROVE  /\ io'[v] = "none" /\ section'[v] \notin Log!Ended => position'[v] = 0
               /\ io'[v] = "opening" => position'[v] = 0
    <3>1. v # w => io[v] = "none"
      BY <1>1 DEF OneAtTheFile
    <3> QED BY <1>1, <1>2, <1>4, <3>1 DEF TailIsWritten
  <2>2. ASSUME NEW v \in Writers, io'[v] = "writing"
        PROVE  /\ position'[v] <= Len(file')
               /\ \A n \in 1..position'[v] : file'[(Len(file') - position'[v]) + n] = v
               /\ flag'[v] = "w" => Len(file') = position'[v]
    <3>1. v = w
      BY <1>2, <2>2
    <3>2. /\ position[w] <= Len(file)
          /\ \A n \in 1..position[w] : file[(Len(file) - position[w]) + n] = w
          /\ flag[w] = "w" => Len(file) = position[w]
      BY <1>1 DEF TailIsWritten
    <3>3. position'[w] = position[w] + 1 /\ Len(file') = Len(file) + 1
      BY <1>3, <1>4
    <3>4. Len(file') - position'[w] = Len(file) - position[w]
      <4>1. Len(file) \in Nat /\ position[w] \in Nat
        BY <1>3, <1>4
      <4>2. \A k, p \in Nat : (k + 1) - (p + 1) = k - p
        OBVIOUS
      <4> QED BY <3>3, <4>1, <4>2
    <3>5. ASSUME NEW n \in 1..position'[w] PROVE file'[(Len(file) - position[w]) + n] = w
      <4>1. CASE n = position[w] + 1
        <5>1. (Len(file) - position[w]) + n = Len(file) + 1
          BY <1>3, <1>4, <4>1
        <5> QED BY <1>3, <5>1
      <4>2. CASE n # position[w] + 1
        <5>1. n \in 1..position[w] /\ (Len(file) - position[w]) + n \in 1..Len(file)
          BY <1>3, <1>4, <3>2, <3>3, <4>2
        <5> QED BY <1>3, <3>2, <5>1
      <4> QED BY <4>1, <4>2
    <3>6. position'[w] <= Len(file') /\ (flag'[w] = "w" => Len(file') = position'[w])
      BY <1>1, <1>3, <1>4, <3>2, <3>3
    <3> QED BY <3>1, <3>4, <3>5, <3>6
  <2> QED BY <2>1, <2>2 DEF TailIsWritten
<1>7. FirstTruncates'
  <2>1. \A v \in Writers : io'[v] # "none" => io[v] # "none"
    BY <1>1, <1>2
  <2>2. ~(mode = "overwrite" /\ ~hasTruncated)
    BY <1>1 DEF FirstTruncates
  <2> QED BY <1>1, <2>1, <2>2 DEF FirstTruncates
<1>8. OldGone'
  <2>1. ~ \E v \in Writers : io[v] = "opening"
    BY <1>1 DEF OneAtTheFile
  <2>2. w # Old /\ \A i \in 1..Len(file') : i \in 1..Len(file) \/ i = Len(file) + 1
    BY <1>3, CliAssumption
  <2> QED BY <1>1, <1>3, <2>1, <2>2 DEF OldGone
<1>9. OldFirst'
  BY <1>1, <1>3 DEF OldFirst
<1>10. Log!WrittenStays'
  <2> SUFFICES ASSUME NEW v \in Writers, section[v] = "written"
               PROVE  \E i \in 0..(Len(file') - Chunks) :
                          \A n \in 1..Chunks : file'[i + n] = v
    BY <1>1 DEF Log!WrittenStays
  <2>1. PICK i \in 0..(Len(file) - Chunks) : \A n \in 1..Chunks : file[i + n] = v
    BY DEF Log!WrittenStays
  <2>2. i \in 0..(Len(file') - Chunks) /\ \A n \in 1..Chunks : i + n \in 1..Len(file)
    BY <1>3, <2>1, CliAssumption
  <2> QED BY <1>3, <2>1, <2>2
<1> QED BY <1>2, <1>5, <1>6, <1>7, <1>8, <1>9, <1>10

LEMMA ResolvedStep ==
    ASSUME SectionsInv, NEW w \in Writers, Log!Resolved(w)
    PROVE  SectionsInv'
<1> USE DEF SectionsInv
<1>1. /\ section[w] = "holding" /\ position[w] = Chunks
      /\ section' = [section EXCEPT ![w] = "written"] /\ io' = [io EXCEPT ![w] = "none"]
      /\ UNCHANGED <<mode, hasTruncated, flag, position, file, spoilt>>
  BY DEF Log!Resolved
<1>2. /\ \A v \in Writers : section'[v] = IF v = w THEN "written" ELSE section[v]
      /\ \A v \in Writers : io'[v] = IF v = w THEN "none" ELSE io[v]
      /\ io[w] # "none" /\ \A v \in Writers \ {w} : io[v] = "none"
             /\ section[v] # "holding"
      /\ \A v \in Writers : section[v] # "interrupted"
  BY <1>1 DEF Log!TypeOK, OneAtTheFile, Log!Ended
<1>3. io[w] = "writing"
  <2>1. position[w] # 0 /\ io[w] \in {"none", "opening", "writing"}
    BY <1>1, CliAssumption DEF Log!TypeOK
  <2> QED BY <1>2, <2>1 DEF TailIsWritten
<1>4. Log!TypeOK'
  BY <1>1 DEF Log!TypeOK, Log!Ended
<1>5. OneAtTheFile'
  BY <1>2 DEF OneAtTheFile
<1>6. TailIsWritten'
  BY <1>1, <1>2 DEF TailIsWritten, Log!Ended
<1>7. FirstTruncates'
  BY <1>1, <1>2 DEF FirstTruncates
<1>8. OldGone'
  BY <1>1, <1>2, <1>3 DEF OldGone
<1>9. OldFirst'
  BY <1>1 DEF OldFirst
<1>10. Log!WrittenStays'
  <2>1. \E i \in 0..(Len(file) - Chunks) : \A n \in 1..Chunks : file[i + n] = w
    <3>1. /\ Chunks <= Len(file)
          /\ \A n \in 1..Chunks : file[(Len(file) - Chunks) + n] = w
      BY <1>1, <1>3 DEF TailIsWritten
    <3>2. Len(file) - Chunks \in 0..(Len(file) - Chunks)
      <4>1. Len(file) \in Nat /\ Chunks \in Nat
        BY CliAssumption DEF Log!TypeOK
      <4> QED BY <3>1, <4>1
    <3> QED BY <3>1, <3>2
  <2> QED BY <1>1, <1>2, <2>1 DEF Log!WrittenStays
<1> QED BY <1>4, <1>5, <1>6, <1>7, <1>8, <1>9, <1>10

LEMMA WriteFailsStep ==
    ASSUME SectionsInv, NEW w \in Writers, Log!WriteFails(w)
    PROVE  SectionsInv'
<1> USE DEF SectionsInv
<1>1. /\ section[w] = "holding" /\ spoilt' = TRUE
      /\ section' = [section EXCEPT ![w] = "failed"] /\ io' = [io EXCEPT ![w] = "none"]
      /\ UNCHANGED <<mode, hasTruncated, flag, position, file>>
  BY DEF Log!WriteFails
<1>2. /\ \A v \in Writers : section'[v] = IF v = w THEN "failed" ELSE section[v]
      /\ \A v \in Writers : io'[v] = IF v = w THEN "none" ELSE io[v]
      /\ \A v \in Writers : section[v] # "interrupted"
  BY <1>1 DEF Log!TypeOK, OneAtTheFile, Log!Ended
<1>3. Log!TypeOK'
  BY <1>1 DEF Log!TypeOK, Log!Ended
<1>4. OneAtTheFile'
  BY <1>2 DEF OneAtTheFile
<1>5. TailIsWritten'
  BY <1>1, <1>2 DEF TailIsWritten, Log!Ended
<1>6. FirstTruncates'
  BY <1>1, <1>2 DEF FirstTruncates
<1>7. OldGone'
  BY <1>1 DEF OldGone
<1>8. Log!WrittenStays' /\ OldFirst'
  BY <1>1, <1>2, FileStays
<1> QED BY <1>3, <1>4, <1>5, <1>6, <1>7, <1>8

LEMMA SectionsInterrupted == ASSUME SectionsInv, Log!Interrupt PROVE SectionsInv'
<1> USE DEF SectionsInv
<1>1. /\ section' = [w \in Writers |-> IF section[w] \notin Log!Ended
                                       THEN "interrupted" ELSE section[w]]
      /\ UNCHANGED <<mode, hasTruncated, flag, io, position, file>>
  BY DEF Log!Interrupt, Log!Interrupts
<1>2. spoilt' = (spoilt \/ \E w \in Writers : section[w] = "holding")
  BY DEF Log!Interrupt, Log!Interrupts
<1>3. /\ \A w \in Writers : section'[w] = IF section[w] \notin Log!Ended
                                          THEN "interrupted" ELSE section[w]
      /\ \A w \in Writers : section'[w] \in Log!Ended
  BY <1>1 DEF Log!Ended
<1>4. Log!TypeOK'
  BY <1>1, <1>2, <1>3 DEF Log!TypeOK, Log!Ended
<1>5. OneAtTheFile'
  BY <1>1, <1>3 DEF OneAtTheFile, Log!Ended
<1>6. TailIsWritten'
  BY <1>1, <1>3 DEF TailIsWritten
<1>7. FirstTruncates'
  BY <1>1, <1>3 DEF FirstTruncates, Log!Ended
<1>8. OldGone'
  <2>1. ~spoilt' => ~spoilt
    BY <1>2 DEF Log!TypeOK
  <2> QED BY <1>1, <2>1 DEF OldGone
<1>9. Log!WrittenStays' /\ OldFirst'
  BY <1>1, <1>3, FileStays
<1> QED BY <1>4, <1>5, <1>6, <1>7, <1>8, <1>9

LEMMA SectionsStep ==
    ASSUME SectionsInv, [Log!Next \/ Log!Interrupt]_logVars
    PROVE  SectionsInv'
<1>1. CASE UNCHANGED logVars
  BY <1>1
    DEF logVars, SectionsInv, Log!TypeOK, OneAtTheFile, TailIsWritten, FirstTruncates,
        OldGone, OldFirst, Log!WrittenStays
<1>2. CASE Log!Next
  BY <1>2, BeginStep, StartWriteStep, FileOpensStep, ChunkWrittenStep, ResolvedStep,
     WriteFailsStep DEF Log!Next, Log!Steps
<1> QED BY <1>1, <1>2, SectionsInterrupted

LEMMA SectionsGood == ASSUME SectionsInv PROVE Log!WrittenStays /\ Log!OldContents
<1>1. mode = "append" => file[1] = Old
  BY DEF SectionsInv, OldFirst
<1>2. ASSUME mode = "overwrite", ~spoilt, NEW w \in Writers, section[w] = "written"
      PROVE  \A i \in DOMAIN file : file[i] # Old
  <2>1. hasTruncated
    BY <1>2 DEF SectionsInv, FirstTruncates
  <2>2. ~ \E v \in Writers : flag[v] = "w" /\ io[v] = "opening"
    BY <1>2 DEF SectionsInv, FirstTruncates
  <2> QED BY <1>2, <2>1, <2>2 DEF SectionsInv, OldGone
<1> QED BY <1>1, <1>2 DEF SectionsInv, Log!OldContents

(* How a section has ended stays, and only an interruption ends one as such. *)
LEMMA SectionsEnd ==
    ASSUME SectionsInv
    PROVE  /\ [Log!Next \/ Log!Interrupt]_logVars =>
                \A w \in Writers : section[w] \in Log!Ended => section'[w] = section[w]
           /\ Log!Next =>
                \A w \in Writers : section'[w] = "interrupted" =>
                section[w] = "interrupted"
<1>1. section \in [Writers -> {"idle", "waiting", "holding"} \cup Log!Ended]
  BY DEF SectionsInv, Log!TypeOK
<1>2. ASSUME NEW w \in Writers, section[w] \in Log!Ended, [Log!Next \/
Log!Interrupt]_logVars
      PROVE  section'[w] = section[w]
  BY <1>1, <1>2
    DEF Log!Next, Log!Steps, Log!Begin, Log!StartWrite, Log!FileOpens,
        Log!ChunkWritten, Log!Resolved, Log!WriteFails, Log!Interrupt, Log!Interrupts,
        logVars, Log!Ended
<1>3. ASSUME Log!Next, NEW w \in Writers, section'[w] = "interrupted"
      PROVE  section[w] = "interrupted"
  BY <1>1, <1>3
    DEF Log!Next, Log!Steps, Log!Begin, Log!StartWrite, Log!FileOpens,
        Log!ChunkWritten, Log!Resolved, Log!WriteFails, Log!Ended
<1> QED BY <1>2, <1>3

(* For any number of sections of any length, one of which may fail or all   *)
(* be interrupted: what a section has written stays in the file, whole; and *)
(* the first truncates in overwrite mode, none in append mode.              *)
THEOREM SectionsAreKept == Spec => []SectionsStand
<1>1. Init => SectionsInv
  BY SectionsInitial DEF Init
<1>2. SectionsInv /\ [Next]_vars => SectionsInv'
  BY SectionsStep, PartsStep DEF PartSteps
<1>3. SectionsInv => SectionsStand
  BY SectionsGood DEF SectionsStand
<1> QED BY <1>1, <1>2, <1>3, PTL DEF Spec

-----------------------------------------------------------------------------
(* Settings *)

OldsUnset(k) == \A j \in 1..(k - 1) : ~Settings!SetAt(Olds[j])

(* A reader that has come to its old names found none that is set before.   *)
OnTheWay ==
    \A r \in Readers :
        /\ at[r] \in {"olds", "warning"} =>
              form[r] = "nested" /\ ~Settings!SetAt(Current) /\ OldsUnset(try[r])
        /\ at[r] = "olds" => found[r] = "unset"
        /\ at[r] = "warning" => try[r] \in DOMAIN Olds /\ Settings!SetAt(Olds[try[r]])

(* What a reader has found is what it is to be told. *)
FoundRight ==
    \A r \in Readers :
        /\ at[r] \in {"warning", "decode", "done"} => found[r] = Settings!Expected(r)
        /\ probing[r] => Settings!Expected(r) # "good"

ProblemRight ==
    \A r \in Readers : at[r] = "done" =>
        problem[r] = CASE Settings!Expected(r) = "good" -> "none"
                       [] Settings!Expected(r) = "unset" -> "not set"
                       [] Settings!Expected(r) = "bad" -> "invalid"

(* The Set names those who were warned about or are about to be, by one     *)
(* reader each.                                                             *)
OneWarns ==
    /\ \A n \in Settings!Names : warnings[n] <= 1 /\ (n \notin warned => warnings[n] = 0)
    /\ \A n \in warned : Settings!SetAt(n) /\ ~Settings!SetAt(Current)
    /\ \A r \in Readers : at[r] = "warning" =>
         /\ Olds[try[r]] \in warned /\ warnings[Olds[try[r]]] = 0
         /\ \A q \in Readers \ {r} : at[q] = "warning" => Olds[try[q]] # Olds[try[r]]

ConfigInv == Settings!TypeOK /\ OnTheWay /\ FoundRight /\ ProblemRight /\ OneWarns

LEMMA OldsFacts ==
    /\ Len(Olds) \in Nat /\ DOMAIN Olds = 1..Len(Olds)
    /\ \A i \in DOMAIN Olds : Olds[i] \in Settings!Names
    /\ Current \in Settings!Names
  BY CliAssumption DEF Settings!Names

(* A path is unset exactly when it is set nowhere. *)
LEMMA LoadOfPath ==
    ASSUME Settings!TypeOK, NEW n \in Settings!Names
    PROVE  /\ Settings!Load(n, "nested") = "unset" <=> ~Settings!SetAt(n)
           /\ Settings!Load(n, "nested") \in Settings!Values
           /\ Settings!Load(n, "dotted") = toml[n]
  BY DEF Settings!TypeOK, Settings!Load, Settings!SetAt, Settings!Values

(* The cases of Expected. *)
LEMMA ExpectedDotted ==
    ASSUME NEW r \in Readers, form[r] = "dotted" PROVE Settings!Expected(r) = toml[Current]
  BY DEF Settings!Expected

LEMMA AllNames ==
    LET all == <<Current>> \o Olds
    IN  /\ DOMAIN all = 1..(Len(Olds) + 1)
        /\ all[1] = Current
        /\ \A i \in 1..Len(Olds) : all[i + 1] = Olds[i]
<1> DEFINE S == Settings!Names
<1>1. Olds \in Seq(S) /\ <<Current>> \in Seq(S)
  BY OldsFacts, CliAssumption
<1>2. Len(<<Current>>) = 1 /\ <<Current>>[1] = Current
  OBVIOUS
<1> HIDE DEF S
<1> QED BY <1>1, <1>2

LEMMA ExpectedFirst ==
    ASSUME NEW r \in Readers, form[r] = "nested",
           NEW k \in 1..(Len(Olds) + 1), NEW n, n = (<<Current>> \o Olds)[k],
           Settings!SetAt(n),
           \A j \in 1..(k - 1) : ~Settings!SetAt((<<Current>> \o Olds)[j])
    PROVE  Settings!Expected(r) = Settings!Load(n, "nested")
<1> DEFINE all == <<Current>> \o Olds
           first == {i \in DOMAIN all : /\ Settings!SetAt(all[i])
                                        /\ \A j \in 1..(i - 1) : ~Settings!SetAt(all[j])}
<1>1. DOMAIN all = 1..(Len(Olds) + 1) /\ Len(Olds) \in Nat
  BY AllNames, OldsFacts
<1>2. \A i \in first : i = k
  BY <1>1
<1>3. k \in first
  BY <1>1
<1>4. (CHOOSE i \in first : TRUE) = k /\ first # {}
  BY <1>2, <1>3
<1>5. Settings!Expected(r) = IF first = {} THEN "unset"
                    ELSE LET name == all[CHOOSE i \in first : TRUE]
                         IN  IF env[name] # "unset" THEN env[name] ELSE toml[name]
  BY DEF Settings!Expected
<1> HIDE DEF first, all
<1>6. Settings!Expected(r) = IF env[all[k]] # "unset" THEN env[all[k]] ELSE toml[all[k]]
  BY <1>4, <1>5
<1> QED BY <1>6 DEF Settings!Load, all

LEMMA ExpectedCurrent ==
    ASSUME NEW r \in Readers, form[r] = "nested", Settings!SetAt(Current)
    PROVE  Settings!Expected(r) = Settings!Load(Current, "nested")
<1>1. (<<Current>> \o Olds)[1] = Current /\ Len(Olds) \in Nat
  BY AllNames, OldsFacts
<1>2. 1 \in 1..(Len(Olds) + 1) /\ 1..(1 - 1) = {}
  BY <1>1
<1> QED BY <1>1, <1>2, ExpectedFirst

LEMMA ExpectedOld ==
    ASSUME NEW r \in Readers, form[r] = "nested", ~Settings!SetAt(Current),
           NEW i \in 1..Len(Olds), Settings!SetAt(Olds[i]), OldsUnset(i)
    PROVE  Settings!Expected(r) = Settings!Load(Olds[i], "nested")
<1> DEFINE all == <<Current>> \o Olds
<1>1. Len(Olds) \in Nat /\ all[1] = Current /\ \A j \in 1..Len(Olds) : all[j + 1] = Olds[j]
  BY AllNames, OldsFacts
<1> HIDE DEF all
<1>2. i + 1 \in 1..(Len(Olds) + 1) /\ Olds[i] = all[i + 1]
  BY <1>1
<1>3. ASSUME NEW j \in 1..((i + 1) - 1) PROVE ~Settings!SetAt(all[j])
  <2>1. CASE j = 1
    BY <1>1, <2>1
  <2>2. CASE j # 1
    <3>1. j - 1 \in 1..(i - 1) /\ j - 1 \in 1..Len(Olds) /\ (j - 1) + 1 = j
      BY <1>1, <2>2
    <3>2. all[j] = Olds[j - 1]
      BY <1>1, <3>1
    <3> QED BY <3>1, <3>2 DEF OldsUnset
  <2> QED BY <2>1, <2>2
<1> QED BY <1>2, <1>3, ExpectedFirst DEF all

LEMMA ExpectedNone ==
    ASSUME NEW r \in Readers, form[r] = "nested", ~Settings!SetAt(Current),
           OldsUnset(Len(Olds) + 1)
    PROVE  Settings!Expected(r) = "unset"
<1> DEFINE all == <<Current>> \o Olds
           first == {i \in DOMAIN all : /\ Settings!SetAt(all[i])
                                        /\ \A j \in 1..(i - 1) : ~Settings!SetAt(all[j])}
<1>1. /\ Len(Olds) \in Nat /\ DOMAIN all = 1..(Len(Olds) + 1) /\ all[1] = Current
      /\ \A j \in 1..Len(Olds) : all[j + 1] = Olds[j]
  BY AllNames, OldsFacts
<1>2. Settings!Expected(r) = IF first = {} THEN "unset"
                    ELSE LET name == all[CHOOSE i \in first : TRUE]
                         IN  IF env[name] # "unset" THEN env[name] ELSE toml[name]
  BY DEF Settings!Expected
<1>3. ASSUME NEW i \in DOMAIN all PROVE ~Settings!SetAt(all[i])
  <2> HIDE DEF all, first
  <2>1. CASE i = 1
    BY <1>1, <2>1
  <2>2. CASE i # 1
    <3>1. i - 1 \in 1..Len(Olds) /\ (i - 1) + 1 = i
      BY <1>1, <2>2
    <3>2. all[i] = Olds[i - 1]
      BY <1>1, <3>1
    <3>3. i - 1 \in 1..((Len(Olds) + 1) - 1)
      BY <1>1, <3>1
    <3> QED BY <3>2, <3>3 DEF OldsUnset
  <2> QED BY <2>1, <2>2
<1>4. first = {}
  BY <1>3
<1> HIDE DEF first, all
<1> QED BY <1>2, <1>4

(* What the sources hold does not change, and so what they mean does not.   *)
LEMMA SourcesStay ==
    ASSUME UNCHANGED Settings!sources
    PROVE  /\ \A n : Settings!SetAt(n)' <=> Settings!SetAt(n)
           /\ \A r : Settings!Expected(r)' = Settings!Expected(r)
           /\ \A k : OldsUnset(k)' <=> OldsUnset(k)
<1>1. \A n : Settings!SetAt(n)' <=> Settings!SetAt(n)
  BY DEF Settings!sources, Settings!SetAt
<1>2. \A r : Settings!Expected(r)' = Settings!Expected(r)
  BY DEF Settings!sources, Settings!SetAt, Settings!Expected
<1>3. \A k : OldsUnset(k)' <=> OldsUnset(k)
  BY <1>1 DEF OldsUnset
<1> QED BY <1>1, <1>2, <1>3

(* The variables that a step of a reader may change keep their types.       *)
LEMMA SettingsTyped ==
    ASSUME Settings!TypeOK, UNCHANGED <<Settings!sources, layer>>,
           at' \in [Readers -> {"idle", "direct", "olds", "warning", "decode", "done"}],
           try' \in [Readers -> 1..Len(Olds) + 1], found' \in [Readers -> Settings!Values],
           probing' \in [Readers -> BOOLEAN],
           problem' \in [Readers -> {"none", "not set", "invalid"}],
           warned' \subseteq Settings!Names, warnings' \in [Settings!Names -> Nat]
    PROVE  Settings!TypeOK'
<1>1. UNCHANGED <<place, optional, toml, env, form, layer>>
  BY DEF Settings!sources
<1> QED BY <1>1 DEF Settings!TypeOK

LEMMA ConfigInitial == ASSUME Settings!Init PROVE ConfigInv
<1>1. Settings!TypeOK
  <2>1. 1 \in 1..Len(Olds) + 1
    BY OldsFacts
  <2>2. at \in [Readers -> {"idle"}] /\ try \in [Readers -> 1..Len(Olds) + 1]
    BY <2>1 DEF Settings!Init
  <2>3. found \in [Readers -> Settings!Values] /\ problem \in [Readers -> {"none"}]
    BY DEF Settings!Init, Settings!Values
  <2>4. probing \in [Readers -> BOOLEAN]
    BY DEF Settings!Init
  <2>5. warned \subseteq Settings!Names /\ warnings \in [Settings!Names -> Nat]
    BY DEF Settings!Init
  <2>6. /\ place \in {"file", "missing", "broken", "unreadable"} /\ optional \in BOOLEAN
        /\ toml \in [Settings!Names -> Settings!Values]
        /\ env \in [Settings!Names -> Settings!Values]
        /\ form \in [Readers -> {"nested", "dotted"}] /\ layer = "none"
    BY DEF Settings!Init
  <2> QED BY <2>2, <2>3, <2>4, <2>5, <2>6 DEF Settings!TypeOK
<1>2. \A r \in Readers : at[r] = "idle" /\ ~probing[r]
  BY DEF Settings!Init
<1>3. OneWarns
  BY <1>2 DEF Settings!Init, OneWarns
<1> QED BY <1>1, <1>2, <1>3 DEF ConfigInv, OnTheWay, FoundRight, ProblemRight

(* The layer is made before anybody reads. *)
LEMMA LayerStep ==
    ASSUME ConfigInv,
           Settings!ReadFile \/ Settings!FileRead \/ Settings!Interrupt \/ UNCHANGED configVars
    PROVE  ConfigInv'
<1> USE DEF ConfigInv
<1>1. UNCHANGED Settings!sources
  BY DEF Settings!ReadFile, Settings!FileRead, Settings!Interrupt, configVars,
         Settings!sources
<1>2. /\ UNCHANGED <<try, found, probing, problem, warned, warnings>>
      /\ at' = at \/ at' \in [Readers -> {"direct", "idle"}]
  BY DEF Settings!ReadFile, Settings!FileRead, Settings!Interrupt, configVars
<1>3. Settings!TypeOK'
  BY <1>1, <1>2 DEF Settings!ReadFile, Settings!FileRead, Settings!Interrupt, configVars,
         Settings!sources, Settings!TypeOK
<1>4. OnTheWay'
  BY <1>1, <1>2, SourcesStay DEF Settings!sources, OnTheWay
<1>5. FoundRight' /\ ProblemRight'
  BY <1>1, <1>2, SourcesStay DEF FoundRight, ProblemRight
<1>6. OneWarns'
  BY <1>1, <1>2, SourcesStay DEF OneWarns
<1> QED BY <1>3, <1>4, <1>5, <1>6

(* A step of one reader leaves the others where they were: what is to be    *)
(* shown of the invariant is what it says of this reader.                   *)
LEMMA OtherReadersStay ==
    ASSUME ConfigInv, NEW r \in Readers, Settings!TypeOK', UNCHANGED Settings!sources,
           \A q \in Readers \ {r} :
               /\ at'[q] = at[q] /\ try'[q] = try[q] /\ found'[q] = found[q]
               /\ probing'[q] = probing[q] /\ problem'[q] = problem[q],
           at'[r] \in {"olds", "warning"} =>
               form[r] = "nested" /\ ~Settings!SetAt(Current) /\ OldsUnset(try'[r]),
           at'[r] = "olds" => found'[r] = "unset",
           at'[r] = "warning" => try'[r] \in DOMAIN Olds /\ Settings!SetAt(Olds[try'[r]]),
           at'[r] \in {"warning", "decode", "done"} => found'[r] = Settings!Expected(r),
           probing'[r] => Settings!Expected(r) # "good",
           at'[r] = "done" =>
               problem'[r] = CASE Settings!Expected(r) = "good" -> "none"
                                [] Settings!Expected(r) = "unset" -> "not set"
                                [] Settings!Expected(r) = "bad" -> "invalid"
    PROVE  OnTheWay' /\ FoundRight' /\ ProblemRight'
<1> USE DEF ConfigInv
<1>1. OnTheWay'
  <2> SUFFICES ASSUME NEW q \in Readers
               PROVE  /\ at'[q] \in {"olds", "warning"} =>
                            form[q] = "nested" /\ ~Settings!SetAt(Current) /\ OldsUnset(try'[q])
                      /\ at'[q] = "olds" => found'[q] = "unset"
                      /\ at'[q] = "warning" =>
                            try'[q] \in DOMAIN Olds /\ Settings!SetAt(Olds[try'[q]])
    BY SourcesStay DEF OnTheWay, Settings!sources
  <2> QED BY DEF OnTheWay
<1>2. FoundRight'
  BY SourcesStay DEF FoundRight
<1>3. ProblemRight'
  BY SourcesStay DEF ProblemRight
<1> QED BY <1>1, <1>2, <1>3

(* A step that neither starts nor ends a warning. *)
LEMMA NoWarning ==
    ASSUME ConfigInv, UNCHANGED <<Settings!sources, warned, warnings>>,
           \A q \in Readers : at'[q] = "warning" => at[q] = "warning" /\ try'[q] = try[q]
    PROVE  OneWarns'
  BY SourcesStay DEF ConfigInv, OneWarns

LEMMA ReaderStep ==
    ASSUME ConfigInv, NEW r \in Readers, Settings!Steps(r)
    PROVE  ConfigInv'
<1> USE DEF ConfigInv
<1>len. /\ Len(Olds) \in Nat /\ DOMAIN Olds = 1..Len(Olds)
        /\ \A i \in DOMAIN Olds : Olds[i] \in Settings!Names
        /\ Current \in Settings!Names
  BY OldsFacts
<1>1. CASE Settings!Direct(r)
  <2>1. UNCHANGED <<Settings!sources, probing, problem, warned, warnings>>
    BY <1>1 DEF Settings!Direct
  <2>2. /\ found' = [found EXCEPT ![r] = Settings!Load(Current, form[r])]
        /\ try' = [try EXCEPT ![r] = 1]
        /\ at' = [at EXCEPT ![r] =
              IF Settings!Load(Current, form[r]) = "unset" /\ form[r] = "nested"
              THEN "olds" ELSE "decode"]
    BY <1>1 DEF Settings!Direct, Settings!Goto
  <2>3. Settings!Load(Current, form[r]) \in Settings!Values
    BY <1>len, LoadOfPath DEF Settings!TypeOK
  <2>4. Settings!TypeOK'
    <3>1. layer' = layer
      BY <1>1 DEF Settings!Direct
    <3>2. 1 \in 1..Len(Olds) + 1
      BY <1>len
    <3> QED BY <2>1, <2>2, <2>3, <3>1, <3>2, SettingsTyped DEF Settings!TypeOK
  <2>5. Settings!Load(Current, form[r]) = "unset" /\ form[r] = "nested" =>
            ~Settings!SetAt(Current) /\ OldsUnset(1)
    BY <1>len, LoadOfPath DEF OldsUnset
  <2>6. ~(Settings!Load(Current, form[r]) = "unset" /\ form[r] = "nested") =>
            Settings!Load(Current, form[r]) = Settings!Expected(r)
    BY <1>len, LoadOfPath, ExpectedDotted, ExpectedCurrent DEF Settings!TypeOK
  <2>7. OnTheWay' /\ FoundRight' /\ ProblemRight'
    <3>1. \A q \in Readers \ {r} :
               /\ at'[q] = at[q] /\ try'[q] = try[q] /\ found'[q] = found[q]
               /\ probing'[q] = probing[q] /\ problem'[q] = problem[q]
      BY <2>1, <2>2 DEF Settings!TypeOK
    <3>2. /\ at'[r] \in {"olds", "decode"} /\ try'[r] = 1
          /\ found'[r] = Settings!Load(Current, form[r])
          /\ at'[r] = "olds" <=> Settings!Load(Current, form[r]) = "unset" /\ form[r] = "nested"
      BY <2>2 DEF Settings!TypeOK
    <3>3. probing'[r] => Settings!Expected(r) # "good"
      BY <2>1 DEF FoundRight
    <3> QED BY <2>1, <2>4, <2>5, <2>6, <3>1, <3>2, <3>3, OtherReadersStay
  <2>8. OneWarns'
    BY <2>1, <2>2, NoWarning DEF Settings!TypeOK
  <2> QED BY <2>4, <2>7, <2>8
<1>2. CASE Settings!TryOld(r)
  <2> DEFINE name == Olds[try[r]]
             node == Settings!Load(name, "nested")
  <2>0. /\ UNCHANGED <<Settings!sources, layer, probing, problem, warnings>>
        /\ at[r] = "olds" /\ try[r] <= Len(Olds)
    BY <1>2 DEF Settings!TryOld
  <2>1. /\ UNCHANGED <<Settings!sources, layer, probing, problem, warnings>>
        /\ at[r] = "olds" /\ try[r] \in 1..Len(Olds) /\ try[r] \in Nat /\ name \in Settings!Names
    <3>1. try[r] \in 1..Len(Olds) + 1
      BY DEF Settings!TypeOK
    <3>2. try[r] \in 1..Len(Olds) /\ try[r] \in Nat
      BY <3>1, <2>0, <1>len
    <3> QED BY <3>2, <2>0, <1>len
  <2>2. /\ node = "unset" <=> ~Settings!SetAt(name)
        /\ node \in Settings!Values
    BY <2>1, LoadOfPath
  <2>3. form[r] = "nested" /\ ~Settings!SetAt(Current) /\ OldsUnset(try[r])
    BY <2>1 DEF OnTheWay
  <2>4. CASE node = "unset"
    <3>1. try' = [try EXCEPT ![r] = @ + 1] /\ UNCHANGED <<at, found, warned>>
      BY <1>2, <2>4 DEF Settings!TryOld
    <3>2. Settings!TypeOK'
      <4>1. try[r] + 1 \in 1..Len(Olds) + 1
        BY <2>1, <1>len
      <4>2. try' \in [Readers -> 1..Len(Olds) + 1]
        BY <3>1, <4>1 DEF Settings!TypeOK
      <4> QED BY <2>1, <3>1, <4>2, SettingsTyped DEF Settings!TypeOK
    <3>3. OldsUnset(try[r] + 1)
      <4> SUFFICES ASSUME NEW j \in 1..((try[r] + 1) - 1) PROVE ~Settings!SetAt(Olds[j])
        BY DEF OldsUnset
      <4>1. j = try[r] \/ j \in 1..(try[r] - 1)
        BY <2>1
      <4> QED BY <4>1, <2>2, <2>3, <2>4 DEF OldsUnset
    <3>4. try'[r] = try[r] + 1 /\ at'[r] = "olds"
      BY <2>1, <3>1 DEF Settings!TypeOK
    <3>5. OnTheWay' /\ FoundRight' /\ ProblemRight'
      <4>1. \A q \in Readers \ {r} :
                 /\ at'[q] = at[q] /\ try'[q] = try[q] /\ found'[q] = found[q]
                 /\ probing'[q] = probing[q] /\ problem'[q] = problem[q]
        BY <2>1, <3>1 DEF Settings!TypeOK
      <4>2. found'[r] = "unset"
        BY <2>1, <3>1 DEF OnTheWay
      <4>3. probing'[r] => Settings!Expected(r) # "good"
        BY <2>1 DEF FoundRight
      <4> QED BY <2>1, <2>3, <3>2, <3>3, <3>4, <4>1, <4>2, <4>3, OtherReadersStay
    <3>6. OneWarns'
      BY <2>1, <3>1, NoWarning DEF Settings!TypeOK
    <3> QED BY <3>2, <3>5, <3>6
  <2>5. CASE node # "unset"
    <3>1. /\ found' = [found EXCEPT ![r] = node]
          /\ at' = [at EXCEPT ![r] = IF name \in warned THEN "decode" ELSE "warning"]
          /\ warned' = warned \cup {name}
          /\ UNCHANGED try
      BY <1>2, <2>5 DEF Settings!TryOld, Settings!Goto
    <3>2. Settings!TypeOK'
      BY <2>1, <2>2, <3>1, SettingsTyped DEF Settings!TypeOK
    <3>3. Settings!Expected(r) = node
      BY <2>1, <2>2, <2>3, <2>5, ExpectedOld
    <3>4. /\ found'[r] = node /\ at'[r] \in {"decode", "warning"} /\ try'[r] = try[r]
          /\ probing'[r] = probing[r]
      BY <2>1, <3>1 DEF Settings!TypeOK
    <3>5. OnTheWay' /\ FoundRight' /\ ProblemRight'
      <4>1. \A q \in Readers \ {r} :
                 /\ at'[q] = at[q] /\ try'[q] = try[q] /\ found'[q] = found[q]
                 /\ probing'[q] = probing[q] /\ problem'[q] = problem[q]
        BY <2>1, <3>1 DEF Settings!TypeOK
      <4>2. probing'[r] => Settings!Expected(r) # "good"
        BY <2>1 DEF FoundRight
      <4>3. try'[r] \in DOMAIN Olds /\ Settings!SetAt(Olds[try'[r]]) /\ OldsUnset(try'[r])
        BY <1>len, <2>1, <2>2, <2>3, <2>5, <3>4
      <4> QED BY <2>1, <2>3, <3>2, <3>3, <3>4, <4>1, <4>2, <4>3, OtherReadersStay
    <3>6. OneWarns'
      <4>1. \A n \in Settings!Names : warnings[n] <= 1 /\ (n \notin warned' => warnings[n] = 0)
        BY <3>1 DEF OneWarns
      <4>2. \A n \in warned' : Settings!SetAt(n) /\ ~Settings!SetAt(Current)
        BY <2>2, <2>3, <2>5, <3>1 DEF OneWarns
      <4>3. ASSUME NEW q \in Readers, at'[q] = "warning"
            PROVE  /\ Olds[try[q]] \in warned' /\ warnings[Olds[try[q]]] = 0
                   /\ \A p \in Readers \ {q} :
                         at'[p] = "warning" => Olds[try[p]] # Olds[try[q]]
        <5>1. CASE q = r
          BY <2>1, <3>1, <4>3, <5>1 DEF Settings!TypeOK, OneWarns
        <5>2. CASE q # r
          BY <2>1, <3>1, <4>3, <5>2 DEF Settings!TypeOK, OneWarns
        <5> QED BY <5>1, <5>2
      <4> QED BY <2>1, <3>1, <4>1, <4>2, <4>3, SourcesStay DEF OneWarns
    <3> QED BY <3>2, <3>5, <3>6
  <2> QED BY <2>4, <2>5
<1>3. CASE Settings!NoOld(r)
  <2>1. /\ UNCHANGED <<Settings!sources, layer, try, found, probing, problem, warned, warnings>>
        /\ at[r] = "olds" /\ try[r] > Len(Olds)
        /\ at' = [at EXCEPT ![r] = "decode"]
    BY <1>3 DEF Settings!NoOld, Settings!Goto
  <2>2. try[r] = Len(Olds) + 1
    <3>1. try[r] \in 1..Len(Olds) + 1
      BY DEF Settings!TypeOK
    <3> QED BY <3>1, <2>1, <1>len
  <2>3. Settings!TypeOK'
    BY <2>1, SettingsTyped DEF Settings!TypeOK
  <2>4. Settings!Expected(r) = "unset" /\ form[r] = "nested"
    BY <2>1, <2>2, ExpectedNone DEF OnTheWay
  <2>5. found[r] = "unset"
    BY <2>1 DEF OnTheWay
  <2>6. OnTheWay' /\ FoundRight' /\ ProblemRight'
    <3>1. \A q \in Readers \ {r} :
               /\ at'[q] = at[q] /\ try'[q] = try[q] /\ found'[q] = found[q]
               /\ probing'[q] = probing[q] /\ problem'[q] = problem[q]
      BY <2>1 DEF Settings!TypeOK
    <3>2. at'[r] = "decode" /\ found'[r] = Settings!Expected(r)
      BY <2>1, <2>4, <2>5 DEF Settings!TypeOK
    <3>3. probing'[r] => Settings!Expected(r) # "good"
      BY <2>1 DEF FoundRight
    <3> QED BY <2>1, <2>3, <3>1, <3>2, <3>3, OtherReadersStay
  <2>7. OneWarns'
    BY <2>1, NoWarning DEF Settings!TypeOK
  <2> QED BY <2>3, <2>6, <2>7
<1>4. CASE Settings!LogWarning(r)
  <2> DEFINE name == Olds[try[r]]
  <2>1. /\ UNCHANGED <<Settings!sources, layer, try, found, probing, problem, warned>>
        /\ at[r] = "warning"
        /\ warnings' = [warnings EXCEPT ![name] = @ + 1]
        /\ at' = [at EXCEPT ![r] = "decode"]
    BY <1>4 DEF Settings!LogWarning, Settings!Goto
  <2>2. name \in Settings!Names /\ name \in warned /\ warnings[name] = 0
    BY <2>1, <1>len DEF OnTheWay, OneWarns
  <2>3. Settings!TypeOK'
    <3>1. warnings[name] + 1 = 1
      BY <2>2
    <3>2. warnings' = [warnings EXCEPT ![name] = 1]
      BY <2>1, <3>1
    <3>3. warnings' \in [Settings!Names -> Nat]
      BY <3>2 DEF Settings!TypeOK
    <3> QED BY <2>1, <3>3, SettingsTyped DEF Settings!TypeOK
  <2>4. OnTheWay' /\ FoundRight' /\ ProblemRight'
    <3>1. \A q \in Readers \ {r} :
               /\ at'[q] = at[q] /\ try'[q] = try[q] /\ found'[q] = found[q]
               /\ probing'[q] = probing[q] /\ problem'[q] = problem[q]
      BY <2>1 DEF Settings!TypeOK
    <3>2. at'[r] = "decode" /\ found'[r] = Settings!Expected(r)
      BY <2>1 DEF Settings!TypeOK, FoundRight
    <3>3. probing'[r] => Settings!Expected(r) # "good"
      BY <2>1 DEF FoundRight
    <3> QED BY <2>1, <2>3, <3>1, <3>2, <3>3, OtherReadersStay
  <2>5. OneWarns'
    <3>1. \A n \in Settings!Names : warnings'[n] = IF n = name THEN 1 ELSE warnings[n]
      <4>1. warnings[name] + 1 = 1
        BY <2>2
      <4>2. warnings' = [warnings EXCEPT ![name] = 1]
        BY <2>1, <4>1
      <4> QED BY <2>2, <4>2 DEF Settings!TypeOK
    <3>2. \A n \in Settings!Names : warnings'[n] <= 1 /\ (n \notin warned => warnings'[n] = 0)
      BY <2>2, <3>1 DEF OneWarns
    <3>3. ASSUME NEW q \in Readers, at'[q] = "warning"
          PROVE  /\ Olds[try[q]] \in warned /\ warnings'[Olds[try[q]]] = 0
                 /\ \A p \in Readers \ {q} :
                       at'[p] = "warning" => Olds[try[p]] # Olds[try[q]]
      <4>1. q # r /\ at[q] = "warning"
        BY <2>1, <3>3 DEF Settings!TypeOK
      <4>2. Olds[try[q]] # name /\ Olds[try[q]] \in warned
        BY <2>1, <4>1 DEF OneWarns
      <4>3. Olds[try[q]] \in Settings!Names
        BY <4>2 DEF Settings!TypeOK
      <4>4. \A p \in Readers : at'[p] = "warning" => at[p] = "warning"
        BY <2>1 DEF Settings!TypeOK
      <4> QED BY <3>1, <4>1, <4>2, <4>3, <4>4 DEF OneWarns
    <3> QED BY <2>1, <3>2, <3>3, SourcesStay DEF OneWarns
  <2> QED BY <2>3, <2>4, <2>5
<1>5. CASE Settings!Decode(r)
  <2>1. /\ UNCHANGED <<Settings!sources, layer, try, found, warned, warnings>>
        /\ at[r] = "decode"
        /\ \/ /\ found[r] = "good" \/ probing[r]
              /\ at' = [at EXCEPT ![r] = "done"]
              /\ problem' = [problem EXCEPT ![r] =
                    IF ~probing[r] THEN "none"
                    ELSE IF found[r] = "unset" THEN "not set" ELSE "invalid"]
              /\ UNCHANGED probing
           \/ /\ found[r] # "good"
              /\ at' = [at EXCEPT ![r] = "direct"]
              /\ probing' = [probing EXCEPT ![r] = TRUE]
              /\ UNCHANGED problem
    BY <1>5 DEF Settings!Decode, Settings!Goto
  <2>2. Settings!TypeOK'
    BY <2>1, SettingsTyped DEF Settings!TypeOK
  <2>3. found[r] = Settings!Expected(r) /\ found[r] \in {"unset", "good", "bad"}
        /\ (probing[r] => Settings!Expected(r) # "good")
    BY <2>1 DEF FoundRight, Settings!TypeOK, Settings!Values
  <2>4. OnTheWay' /\ FoundRight' /\ ProblemRight'
    <3>1. \A q \in Readers \ {r} :
               /\ at'[q] = at[q] /\ try'[q] = try[q] /\ found'[q] = found[q]
               /\ probing'[q] = probing[q] /\ problem'[q] = problem[q]
      BY <2>1 DEF Settings!TypeOK
    <3>2. at'[r] \in {"done", "direct"} /\ found'[r] = Settings!Expected(r)
      BY <2>1, <2>3 DEF Settings!TypeOK
    <3>3. probing'[r] => Settings!Expected(r) # "good"
      BY <2>1, <2>3 DEF Settings!TypeOK
    <3>4. at'[r] = "done" =>
              problem'[r] = CASE Settings!Expected(r) = "good" -> "none"
                               [] Settings!Expected(r) = "unset" -> "not set"
                               [] Settings!Expected(r) = "bad" -> "invalid"
      BY <2>1, <2>3 DEF Settings!TypeOK
    <3> QED BY <2>1, <2>2, <3>1, <3>2, <3>3, <3>4, OtherReadersStay
  <2>5. OneWarns'
    BY <2>1, NoWarning DEF Settings!TypeOK
  <2> QED BY <2>2, <2>4, <2>5
<1> QED BY <1>1, <1>2, <1>3, <1>4, <1>5 DEF Settings!Steps

(* "an old key is only consulted when the current one is absent", "using it *)
(* logs one warning per alias", and withRemedy says truly whether a value   *)
(* is missing or refused: for any number of readers and of old names, in    *)
(* any order of their loads.                                                *)
THEOREM ReadersAreToldTheTruth == Spec => []SettingsAreTrue
<1>1. Init => ConfigInv
  BY ConfigInitial DEF Init
<1>2. ConfigInv /\ [Next]_vars => ConfigInv'
  BY PartsStep, LayerStep, ReaderStep DEF PartSteps, Settings!Next
<1>3. ConfigInv => SettingsAreTrue
  <2> SUFFICES ASSUME ConfigInv PROVE Settings!SettingsAreTrue
    BY DEF SettingsAreTrue
  <2>1. \A r \in Readers : at[r] = "done" => found[r] = Settings!Expected(r)
    BY DEF ConfigInv, FoundRight
  <2>2. ASSUME NEW n \in Settings!Names
        PROVE  /\ warnings[n] <= 1
               /\ warnings[n] = 1 => Settings!SetAt(n) /\ ~Settings!SetAt(Current)
    BY DEF ConfigInv, OneWarns
  <2> QED BY <2>1, <2>2 DEF Settings!SettingsAreTrue, ConfigInv, ProblemRight
<1> QED BY <1>1, <1>2, <1>3, PTL DEF Spec

-----------------------------------------------------------------------------
(* The program's fiber *)

PartsInv == StreamInv /\ PortsInv /\ RequestsInv /\ ReadsInv /\ SectionsInv /\ ConfigInv

(* Only the operation that the program performs is begun, and nobody reads  *)
(* a setting before the layer is there.                                     *)
OthersUntouched ==
    /\ operation # "stream" /\ kind = "own" => leader = "none"
    /\ operation # "probe" => connects = 0
    /\ operation # "read" => reading = "idle"
    /\ layer # "ready" => \A r \in Readers : at[r] = "idle"

(* Nothing but a signal interrupts. *)
SignalsInterrupt ==
    /\ interrupted => signalled
    /\ operation # "stream" /\ "interrupted" \in Outcomes => signalled

(* A program that has ended has its operation over, or never began it, and  *)
(* a result that follows from that unless a signal came during the flush.   *)
FiberEnded ==
    fiber # "running" =>
        /\ Over \/ NeverBegun
        /\ (result \in Resolves \/ (result = "interrupted" /\ signalled))

(* What an exit reports follows from the result. *)
ExitReports ==
    fiber = "exited" =>
        /\ flush => flushed
        /\ printed <=> result \in {"failure", "mixed"}
        /\ code \in CodesFor(result)

MainInv == TypeOK /\ OthersUntouched /\ SignalsInterrupt /\ FiberEnded /\ ExitReports

(* Once the settings are known, or cannot be, nothing of them goes on.      *)
LEMMA SettingsEnd ==
    ASSUME ConfigInv, \A r \in Readers : layer # "ready" => at[r] = "idle", Settings!Next
    PROVE  /\ Settings!Outcome = "none"
           /\ Settings!Outcome' # "interrupted"
<1>1. /\ layer' # "interrupted"
      /\ layer \in {"none", "reading"} \/ \E r \in Readers : at[r] \notin {"idle", "done"}
  <2>1. CASE Settings!ReadFile \/ Settings!FileRead
    BY <2>1 DEF Settings!ReadFile, Settings!FileRead, ConfigInv, Settings!TypeOK
  <2>2. ASSUME NEW r \in Readers, Settings!Steps(r)
        PROVE  at[r] \notin {"idle", "done"} /\ layer' = layer
    BY <2>2 DEF Settings!Steps, Settings!Direct, Settings!TryOld, Settings!NoOld,
           Settings!LogWarning, Settings!Decode
  <2>3. ASSUME NEW r \in Readers, at[r] # "idle" PROVE layer = "ready"
    BY <2>3
  <2> QED BY <2>1, <2>2, <2>3 DEF Settings!Next, ConfigInv, Settings!TypeOK
<1>2. Settings!Outcome = "none"
  <2>1. CASE layer \in {"none", "reading"}
    <3>1. PICK r \in Readers : at[r] = "idle"
      BY <2>1, CliAssumption
    <3> QED BY <2>1, <3>1 DEF Settings!Outcome
  <2>2. CASE layer \notin {"none", "reading"}
    <3>1. PICK r \in Readers : at[r] \notin {"idle", "done"}
      BY <1>1, <2>2
    <3>2. layer = "ready"
      BY <3>1
    <3> QED BY <3>1, <3>2 DEF Settings!Outcome
  <2> QED BY <2>1, <2>2
<1>3. Settings!Outcome' \in {"failed", "none", "ok"}
  <2>1. layer' # "interrupted"
    BY <1>1
  <2> QED BY <2>1 DEF Settings!Outcome
<1> QED BY <1>2, <1>3

(* A probe or a scan goes on while it has no answer, and does not interrupt *)
(* itself.                                                                  *)
LEMMA ProbeEnd ==
    ASSUME PortsInv, Port!Next PROVE probed = "none" /\ probed' # "interrupted"
  BY DEF PortsInv, Port!TypeOK, OneAttempt, Port!Next, Port!Begin, Port!Connect, Port!Steps,
         Port!OnConnect, Port!OnError, Port!OnTimeout, Port!Done, Port!Return,
         Port!KernelAnswers, Port!ServerChanges, Port!UnderWay, Port!Results

LEMMA ScanEnd == ASSUME Scan!Next PROVE scanned = "none" /\ scanned' # "interrupted"
  BY DEF Scan!Next, Scan!Begin, Scan!Steps, Scan!ScanFinishes, Scan!ScanFails, Scan!ScanKilled

(* What is over stays as it ended, and no step of the operation itself      *)
(* interrupts it.                                                           *)
LEMMA OperationEnds ==
    ASSUME PartsInv, OthersUntouched, Step
    PROVE  /\ Over => Over' /\ Outcomes' = Outcomes
           /\ operation # "stream" /\ "interrupted" \notin Outcomes =>
                "interrupted" \notin Outcomes'
<1> USE DEF Step, StreamOnly, ProbeOnly, ScanOnly, RequestOnly, ReadOnly, LogOnly, ConfigOnly,
            Is, Over, Outcomes, mainVars
<1>0. operation' = operation
  OBVIOUS
<1>1. CASE Proc!Uninterrupted /\ StreamOnly
  <2>1. call = "done" => UNCHANGED <<call, ended>>
    BY <1>1, StreamEnded DEF PartsInv
  <2> QED BY <1>0, <1>1, <2>1
<1>2. CASE Port!Next /\ ProbeOnly
  BY <1>0, <1>2, ProbeEnd DEF PartsInv
<1>3. CASE Scan!Next /\ ScanOnly
  BY <1>0, <1>3, ScanEnd
<1>4. CASE Request!Next /\ RequestOnly
  <2>1. /\ requested # "none" => requested' = requested
        /\ requested # "interrupted" => requested' # "interrupted"
    BY <1>4, RequestsEnd DEF PartsInv
  <2> QED BY <1>0, <1>4, <2>1
<1>5. CASE Read!Next /\ ReadOnly
  <2>1. /\ readOutcome # "none" => readOutcome' = readOutcome
        /\ readOutcome # "interrupted" => readOutcome' # "interrupted"
    BY <1>5, ReadsEnd DEF PartsInv
  <2> QED BY <1>0, <1>5, <2>1
<1>6. CASE Log!Next /\ LogOnly
  <2>1. /\ \A w \in Writers : section[w] \in Log!Ended => section'[w] = section[w]
        /\ \A w \in Writers : section'[w] = "interrupted" => section[w] = "interrupted"
    BY <1>6, SectionsEnd DEF PartsInv
  <2>2. Outcomes = {section[w] : w \in Writers} /\ Outcomes' = {section'[w] : w \in Writers}
    BY <1>0, <1>6
  <2>3. /\ Over <=> Outcomes \subseteq Log!Ended
        /\ Over' <=> Outcomes' \subseteq Log!Ended
    <3>1. operation = "log" /\ operation' = "log" /\ Log!Ended' = Log!Ended
      BY <1>0, <1>6 DEF Log!Ended
    <3>2. operation = "log" => (Over <=> Outcomes \subseteq Log!Ended)
      OBVIOUS
    <3>3. operation' = "log" => (Over' <=> Outcomes' \subseteq Log!Ended')
      OBVIOUS
    <3> HIDE DEF Outcomes, Over
    <3> QED BY <3>1, <3>2, <3>3
  <2>4. operation # "stream" /\ "interrupted" \notin Outcomes =>
          "interrupted" \notin Outcomes'
    BY <2>1, <2>2
  <2> HIDE DEF Step, StreamOnly, ProbeOnly, ScanOnly, RequestOnly, ReadOnly, LogOnly,
               ConfigOnly, Is, Over, Outcomes, mainVars
  <2>5. ASSUME Outcomes \subseteq Log!Ended PROVE Outcomes' = Outcomes
    <3>1. \A w \in Writers : section'[w] = section[w]
      BY <2>1, <2>2, <2>5
    <3> QED BY <2>2, <3>1
  <2> QED BY <2>3, <2>4, <2>5
<1>7. CASE Settings!Next /\ ConfigOnly
  <2>1. \A r \in Readers : layer # "ready" => at[r] = "idle"
    BY DEF OthersUntouched
  <2> QED BY <1>0, <1>7, <2>1, SettingsEnd DEF PartsInv
<1> QED BY <1>1, <1>2, <1>3, <1>4, <1>5, <1>6, <1>7

LEMMA OthersStay ==
    ASSUME [Next]_vars
    PROVE  /\ operation' = operation
           /\ operation # "stream" => UNCHANGED procVars
           /\ operation # "probe" => UNCHANGED portVars
           /\ operation # "read" => UNCHANGED readVars
<1> USE DEF StreamOnly, ProbeOnly, ScanOnly, RequestOnly, ReadOnly, LogOnly, ConfigOnly, Is
<1>1. CASE Step
  BY <1>1 DEF Step, mainVars
<1>2. CASE ProgramEnds
  BY <1>2 DEF ProgramEnds
<1>3. CASE FlushEnds
  BY <1>3 DEF FlushEnds
<1>4. CASE Signal
  BY <1>4 DEF Signal, InterruptOperation
<1>5. CASE InterruptsItself
  BY <1>5 DEF InterruptsItself
<1>6. CASE UNCHANGED vars
  BY <1>6 DEF vars, mainVars
<1> QED BY <1>1, <1>2, <1>3, <1>4, <1>5, <1>6 DEF Next

LEMMA OthersStep == ASSUME PartsInv, OthersUntouched, [Next]_vars PROVE OthersUntouched'
<1>1. /\ operation' = operation
      /\ operation # "stream" => UNCHANGED <<kind, leader>>
      /\ operation # "probe" => UNCHANGED connects
      /\ operation # "read" => UNCHANGED reading
  BY OthersStay DEF procVars, portVars, readVars
<1>2. ASSUME NEW r \in Readers, layer' # "ready" PROVE at'[r] = "idle"
  <2>1. [Settings!Next \/ Settings!Interrupt]_configVars
    BY PartsStep DEF PartSteps
  <2>2. layer # "ready" => at[r] = "idle"
    BY DEF OthersUntouched
  <2>3. CASE Settings!ReadFile \/ Settings!Interrupt \/ UNCHANGED configVars
    BY <1>2, <2>2, <2>3 DEF Settings!ReadFile, Settings!Interrupt, configVars
  <2>4. CASE Settings!FileRead
    BY <1>2, <2>4 DEF Settings!FileRead
  <2>5. ASSUME NEW q \in Readers, Settings!Steps(q) PROVE FALSE
    <3>1. layer' = layer /\ at[q] # "idle"
      BY <2>5 DEF Settings!Steps, Settings!Direct, Settings!TryOld, Settings!NoOld,
             Settings!LogWarning, Settings!Decode
    <3> QED BY <1>2, <3>1 DEF OthersUntouched
  <2> QED BY <2>1, <2>3, <2>4, <2>5 DEF Settings!Next
<1> QED BY <1>1, <1>2 DEF OthersUntouched

LEMMA SignalsStep ==
    ASSUME PartsInv, OthersUntouched, SignalsInterrupt, [Next]_vars
    PROVE  SignalsInterrupt'
<1> USE DEF SignalsInterrupt
<1>1. CASE Step
  <2>1. operation' = operation /\ signalled' = signalled
    BY <1>1 DEF Step, mainVars
  <2>2. interrupted' = interrupted
    BY <1>1, InterruptedStays
      DEF PartsInv, Step, StreamOnly, ProbeOnly, ScanOnly, RequestOnly, ReadOnly,
          LogOnly, ConfigOnly, Is
  <2> QED BY <1>1, <2>1, <2>2, OperationEnds
<1>2. CASE ProgramEnds \/ FlushEnds \/ InterruptsItself \/ UNCHANGED vars
  <2>1. UNCHANGED <<operation, signalled, interrupted>>
    BY <1>2 DEF ProgramEnds, FlushEnds, InterruptsItself, vars, mainVars, procVars
  <2>2. UNCHANGED Outcomes
    BY <1>2 DEF ProgramEnds, FlushEnds, InterruptsItself, vars, mainVars, procVars, portVars, scanVars,
           requestVars, readVars, logVars, configVars, Outcomes, Settings!Outcome
  <2> QED BY <2>1, <2>2
<1>3. CASE Signal
  BY <1>3 DEF Signal, Signalled
<1> QED BY <1>1, <1>2, <1>3 DEF Next

LEMMA PartsUnchanged ==
    ASSUME UNCHANGED <<operation, procVars, portVars, scanVars, requestVars, readVars, logVars,
                       configVars>>
    PROVE  /\ Over' <=> Over
           /\ Outcomes' = Outcomes
           /\ signalled' = signalled => (NeverBegun' <=> NeverBegun)
           /\ signalled' = signalled /\ itself' = itself => Resolves' = Resolves
<1>1. Outcomes' = Outcomes
  BY DEF procVars, portVars, scanVars, requestVars, readVars, logVars, configVars, Outcomes,
         Settings!Outcome
<1>2. Over' <=> Over
  BY <1>1 DEF procVars, Over, Log!Ended
<1>3. Begun' <=> Begun
  BY <1>1 DEF procVars, portVars, scanVars, requestVars, readVars, configVars, Begun
<1>4. signalled' = signalled => (NeverBegun' <=> NeverBegun)
  BY <1>2, <1>3 DEF NeverBegun, procVars
<1> QED BY <1>1, <1>2, <1>4 DEF Resolves

(* The exit of the fiber. *)
LEMMA ExitStep ==
    ASSUME TypeOK, NEW outcome \in Results, Exit(outcome)
    PROVE  /\ fiber' = "exited" /\ result' \in Results
           /\ result' = outcome \/ (result' = "interrupted" /\ signalled)
           /\ printed' \in BOOLEAN
           /\ printed' <=> result' \in {"failure", "mixed"}
           /\ code' \in CodesFor(result') /\ code' \in Codes \cup {0, 1, 130}
<1>1. code' \in CodesFor(result') /\ code' \in Codes \cup {0, 1, 130}
  BY DEF Exit, CodesFor
<1>2. /\ fiber' = "exited" /\ result' \in Results
      /\ result' = outcome \/ (result' = "interrupted" /\ signalled)
  BY DEF Exit, Results
<1>3. printed' = (result' \in {"failure", "mixed"})
  BY DEF Exit
<1>4. printed' \in BOOLEAN
  BY <1>3
<1>5. printed' <=> result' \in {"failure", "mixed"}
  BY <1>3
<1> QED BY <1>1, <1>2, <1>4, <1>5

LEMMA FiberStep ==
    ASSUME PartsInv, TypeOK, OthersUntouched, FiberEnded, ExitReports, [Next]_vars
    PROVE  TypeOK' /\ FiberEnded' /\ ExitReports'
<1>1. CASE Step
  <2>1. UNCHANGED <<operation, flush, fiber, signalled, itself, result, flushed, printed, code>>
        /\ fiber # "exited" /\ ~NeverBegun
    BY <1>1 DEF Step, mainVars
  <2>2. TypeOK'
    BY <2>1 DEF TypeOK
  <2>3. ExitReports'
    BY <2>1 DEF ExitReports
  <2>4. FiberEnded'
    <3>1. fiber # "running" => Over /\ Over' /\ Outcomes' = Outcomes
      BY <1>1, <2>1, OperationEnds DEF FiberEnded
    <3>2. fiber # "running" => ~NeverBegun' /\ Resolves' = Resolves
      BY <2>1, <3>1 DEF NeverBegun, Resolves
    <3> QED BY <2>1, <3>1, <3>2 DEF FiberEnded
  <2> QED BY <2>2, <2>3, <2>4
<1>2. CASE ProgramEnds
  <2>1. /\ UNCHANGED <<operation, flush, signalled, itself, flushed>>
        /\ Over' \/ NeverBegun'
        /\ Resolves' = Resolves
    BY <1>2, PartsUnchanged DEF ProgramEnds
  <2>2. PICK outcome \in Resolves :
            IF flush
            THEN fiber' = "flushing" /\ result' = outcome /\ UNCHANGED <<printed, code>>
            ELSE Exit(outcome)
    BY <1>2 DEF ProgramEnds
  <2>3. outcome \in Results
    BY DEF Resolves, Results
  <2>4. CASE flush
    BY <2>1, <2>2, <2>3, <2>4 DEF TypeOK, FiberEnded, ExitReports
  <2>5. CASE ~flush
    BY <2>1, <2>2, <2>3, <2>5, ExitStep DEF TypeOK, FiberEnded, ExitReports
  <2> QED BY <2>4, <2>5
<1>3. CASE FlushEnds
  <2>1. /\ UNCHANGED <<operation, flush, signalled, itself>> /\ flushed' = TRUE /\ Exit(result)
        /\ fiber = "flushing"
    BY <1>3 DEF FlushEnds
  <2>2. (Over' \/ NeverBegun') /\ Resolves' = Resolves
    BY <1>3, <2>1, PartsUnchanged DEF FlushEnds, FiberEnded
  <2>3. result \in Results /\ (result \in Resolves \/ (result = "interrupted" /\ signalled))
    BY <2>1 DEF FiberEnded, Resolves, Results
  <2> QED BY <2>1, <2>2, <2>3, ExitStep DEF TypeOK, FiberEnded, ExitReports
<1>4. CASE Signal
  <2>1. /\ UNCHANGED <<operation, flush, fiber, itself, result, flushed, printed, code>>
        /\ signalled' = TRUE /\ ~signalled /\ fiber # "exited"
    BY <1>4 DEF Signal, Signalled
  <2>2. TypeOK'
    BY <2>1 DEF TypeOK
  <2>3. ExitReports'
    BY <2>1 DEF ExitReports
  <2>4. FiberEnded'
    <3>1. fiber # "running" => Over /\ Over' /\ Outcomes' = Outcomes
      BY <1>4, <2>1, PartsUnchanged DEF Signal, FiberEnded, NeverBegun
    <3>2. fiber # "running" => Resolves' = Resolves
      BY <2>1, <3>1 DEF NeverBegun, Resolves
    <3> QED BY <2>1, <3>1, <3>2 DEF FiberEnded
  <2> QED BY <2>2, <2>3, <2>4
<1>5. CASE InterruptsItself
  <2>1. /\ UNCHANGED <<operation, flush, fiber, signalled, result, flushed, printed, code>>
        /\ itself' = TRUE /\ fiber = "running"
    BY <1>5 DEF InterruptsItself
  <2> QED BY <2>1 DEF TypeOK, FiberEnded, ExitReports
<1>6. CASE UNCHANGED vars
  <2>1. UNCHANGED <<operation, flush, fiber, signalled, itself, result, flushed, printed, code>>
    BY <1>6 DEF vars, mainVars
  <2>2. (Over' <=> Over) /\ (NeverBegun' <=> NeverBegun) /\ Resolves' = Resolves
    BY <1>6, <2>1, PartsUnchanged DEF vars, mainVars
  <2> QED BY <2>1, <2>2 DEF TypeOK, FiberEnded, ExitReports, CodesFor
<1> QED BY <1>1, <1>2, <1>3, <1>4, <1>5, <1>6 DEF Next

LEMMA MainInitial == ASSUME Init PROVE PartsInv /\ MainInv
<1>1. PartsInv
  BY StreamInitial, RequestsInitial, ReadsInitial, SectionsInitial, ConfigInitial
    DEF Init, PartsInv, Port!Init, PortsInv, Port!TypeOK, AnswersWereSeen, OneAttempt,
        Port!UnderWay
<1>2. TypeOK /\ FiberEnded /\ ExitReports
  BY DEF Init, MainInit, TypeOK, FiberEnded, ExitReports
<1>3. OthersUntouched
  BY DEF Init, Proc!Init, Port!Init, Read!Init, Settings!Init, OthersUntouched
<1>4. SignalsInterrupt
  <2>1. /\ interrupted = FALSE
        /\ probed = "none" /\ scanned = "none" /\ requested = "none" /\ readOutcome = "none"
        /\ section = [w \in Writers |-> "idle"] /\ Settings!Outcome # "interrupted"
    BY DEF Init, Proc!Init, Port!Init, Scan!Init, Request!Init, Read!Init, Log!Init,
           Settings!Init, Settings!Outcome
  <2>2. operation \in Operations
    BY DEF Init, MainInit
  <2> QED BY <2>1, <2>2 DEF SignalsInterrupt, Outcomes, Operations
<1> QED BY <1>1, <1>2, <1>3, <1>4 DEF MainInv

LEMMA MainStep == ASSUME PartsInv, MainInv, [Next]_vars PROVE PartsInv' /\ MainInv'
<1>1. PartsInv'
  BY PartsStep, StreamStep, PortsStep, RequestsStep, ReadsStep, SectionsStep,
     LayerStep, ReaderStep
    DEF PartsInv, PartSteps, Settings!Next
<1> QED BY <1>1, OthersStep, SignalsStep, FiberStep DEF MainInv

(* For every set of codes that a program may resolve: the flush comes       *)
(* "before exiting"; what is printed is a failure of code 1, exactly when   *)
(* the operation failed if nobody interrupted the program; and a program    *)
(* that prints nothing has done its operation and resolved its code, or was *)
(* interrupted and exits 130.                                               *)
THEOREM ExitCodesTell == Spec => []ExitTells
<1>1. PartsInv /\ MainInv => ExitTells
  <2> SUFFICES ASSUME PartsInv, MainInv, fiber = "exited" PROVE ExitTells
    BY DEF ExitTells
  <2>1. /\ flush => flushed
        /\ printed <=> result \in {"failure", "mixed"}
        /\ code \in CodesFor(result)
        /\ Over \/ NeverBegun
        /\ result \in Resolves \/ (result = "interrupted" /\ signalled)
    BY DEF MainInv, FiberEnded, ExitReports
  <2>2. "interrupted" \in Outcomes => signalled
    <3>1. ended = "interrupted" => interrupted
      BY DEF PartsInv, StreamInv, ExitsSeen
    <3>2. CASE operation = "stream"
      BY <3>1, <3>2 DEF MainInv, SignalsInterrupt, Outcomes
    <3>3. CASE operation # "stream"
      BY <3>3 DEF MainInv, SignalsInterrupt
    <3> QED BY <3>2, <3>3
  <2>3. /\ result \in Results
        /\ result = "interrupted" => code = 130
        /\ result \in {"failure", "mixed"} => code = 1
    <3>1. result \in Results
      BY <2>1 DEF Resolves, Results
    <3> QED BY <2>1, <3>1 DEF CodesFor, Results
  <2>4. result = "interrupted" => signalled \/ itself
    BY <2>1, <2>2 DEF Resolves, NeverBegun
  <2>5. result = "value" => Outcomes \subseteq Answers /\ ~itself
    BY <2>1 DEF Resolves
  <2>6. ~signalled /\ ~itself =>
            (result \in {"failure", "mixed"} <=> ~(Outcomes \subseteq Answers))
    <3> SUFFICES ASSUME ~signalled, ~itself
                 PROVE  result \in {"failure", "mixed"} <=> ~(Outcomes \subseteq Answers)
      OBVIOUS
    <3>1. Resolves = IF Outcomes \subseteq Answers THEN {"value"} ELSE {"failure"}
      BY <2>2 DEF Resolves, NeverBegun
    <3> QED BY <2>1, <3>1
  <2>7. ~printed => result \in {"value", "interrupted"}
    BY <2>1, <2>3 DEF Results
  <2> QED BY <2>1, <2>3, <2>4, <2>5, <2>6, <2>7 DEF ExitTells
<1> QED BY <1>1, MainInitial, MainStep, PTL DEF Spec

(* "SIGINT and SIGTERM interrupt the running fiber, which lets finalizers   *)
(* run": whatever came when, at the exit the child is dead and reaped and   *)
(* no socket, descriptor, listener or stream is left.                       *)
THEOREM NothingIsLeft == Spec => []NothingLeftBehind
<1>1. PartsInv /\ MainInv => NothingLeftBehind
  <2> SUFFICES ASSUME PartsInv, MainInv, fiber = "exited" PROVE NothingLeftBehind
    BY DEF NothingLeftBehind
  <2>1. (Over \/ ~Begun) /\ operation \in Operations
    BY DEF MainInv, FiberEnded, TypeOK, NeverBegun
  <2>2. kind = "own" /\ leader # "none" => Proc!Dead /\ exitSeen
    <3>1. operation = "stream" => call \in {"done", "idle"}
      BY <2>1 DEF Over, Begun
    <3>2. kind = "own" /\ leader # "none" => operation = "stream" /\ call # "idle"
      BY DEF PartsInv, StreamInv, ExitsSeen, MainInv, OthersUntouched
    <3> QED BY <3>1, <3>2, StreamJoined DEF PartsInv, Proc!EndsJoined
  <2>3. socket = "none"
    <3>1. operation = "probe" => probed # "none" \/ ~(connects > 0)
      BY <2>1 DEF Over, Begun, Outcomes
    <3>2. operation # "probe" => connects = 0
      BY DEF MainInv, OthersUntouched
    <3> QED BY <3>1, <3>2 DEF PartsInv, PortsInv, OneAttempt, Port!UnderWay
  <2>4. /\ reading # "reading"
        /\ operation = "read" => reading \in {"done", "idle"}
    BY <2>1
      DEF PartsInv, ReadsInv, HeldWhileReading, MainInv, OthersUntouched, Over, Begun,
          Outcomes
  <2>5. /\ ~fd /\ ~attached
        /\ operation = "read" /\ reads = "stream" /\ reading # "idle" => source # "open"
    BY <2>4 DEF PartsInv, ReadsInv, HeldWhileReading
  <2> QED BY <2>2, <2>3, <2>5 DEF NothingLeftBehind
<1> QED BY <1>1, MainInitial, MainStep, PTL DEF Spec

-----------------------------------------------------------------------------
(* Every type invariant *)

(* The chunks of a stream are no more than its bound. *)
EmittedFew == emitted \in 0..MaxChunks

(* None is emitted yet.                                                     *)
LEMMA EmittedInitial == ASSUME Read!Init PROVE EmittedFew
  BY CliAssumption DEF Read!Init, EmittedFew

(* Nobody but the stream emits one.                                         *)
LEMMA EmittedStep ==
    ASSUME EmittedFew, [Read!Next \/ Read!Interrupt]_readVars PROVE EmittedFew'
<1>1. CASE Read!OnData
  <2>1. emitted' = emitted + 1 /\ emitted < MaxChunks
    BY <1>1 DEF Read!OnData
  <2> QED BY <2>1, CliAssumption DEF EmittedFew
<1>2. CASE UNCHANGED emitted
  BY <1>2 DEF EmittedFew
<1> QED BY <1>1, <1>2
      DEF Read!Next, Read!Steps, Read!Attach, Read!OpenFile, Read!ReadSlice,
          Read!ReadAndClose, Read!OnEnd, Read!OnError, Read!Settle, Read!Destroyed,
          Read!Interrupt, Read!Detach, readVars

(* What was collected are chunks of the stream.                             *)
LEMMA ReadsInType == ASSUME ReadsInv, EmittedFew PROVE Read!TypeOK
<1>1. chunks = [i \in 1..emitted |-> i] /\ emitted \in 0..MaxChunks /\ MaxChunks \in Nat
  BY CliAssumption DEF ReadsInv, CollectsAll, EmittedFew
<1>2. chunks \in Seq(1..MaxChunks)
  <2>1. emitted \in Nat /\ \A i \in 1..emitted : i \in 1..MaxChunks
    BY <1>1
  <2>2. [i \in 1..emitted |-> i] \in Seq(1..MaxChunks)
    BY <2>1
  <2> QED BY <1>1, <2>2
<1> QED BY <1>1, <1>2 DEF ReadsInv, ReadsTyped, Read!TypeOK

(* What is unread of a pipe is the end of what was written.                 *)
LEMMA StreamInType == ASSUME StreamInv, TextInv PROVE Proc!TypeOK
<1>1. ASSUME NEW s \in Streams
      PROVE  /\ written[s] \in Seq(Proc!Tokens) /\ Len(written[s]) <= MaxText[s]
             /\ \E n \in 0..Len(written[s]) :
                  unread[s] = SubSeq(written[s], n + 1, Len(written[s]))
             /\ buffer[s] \in 0..MaxText[s]
             /\ Len(lines[s]) <= MaxText[s]
  <2> DEFINE text == written[s]
             rest == unread[s]
             n == Len(text) - Len(rest)
  <2>1. Pipe(text, rest, lines[s], buffer[s], MaxText[s])
    BY DEF TextInv, ReadsWell
  <2>2. MaxText[s] \in Nat
    BY CliAssumption
  <2> HIDE DEF text, rest
  <2>3. /\ text \in Seq(Proc!Tokens) /\ rest \in Seq(Proc!Tokens)
        /\ Len(text) <= MaxText[s] /\ Len(rest) <= Len(text)
        /\ \A i \in 1..Len(rest) : rest[i] = text[n + i]
        /\ buffer[s] \in Nat /\ buffer[s] <= MaxText[s] /\ Len(lines[s]) <= MaxText[s]
    BY <2>1 DEF Pipe, Text
  <2>4. Len(text) \in Nat /\ Len(rest) \in Nat /\ n \in 0..Len(text)
    BY <2>3
  <2> HIDE DEF n
  <2>5. n + Len(rest) = Len(text)
    BY <2>3, <2>4 DEF n
  <2>6. /\ SubSeq(text, n + 1, Len(text)) \in Seq(Proc!Tokens)
        /\ Len(SubSeq(text, n + 1, Len(text))) = Len(rest)
        /\ \A i \in 1..Len(rest) : SubSeq(text, n + 1, Len(text))[i] = text[n + i]
    BY <2>3, <2>4, <2>5
  <2>7. rest = SubSeq(text, n + 1, Len(text))
    BY <2>3, <2>4, <2>6, SeqEqual
  <2> QED BY <2>2, <2>3, <2>4, <2>7 DEF text, rest
<1> QED BY <1>1 DEF StreamInv, StreamTyped, TextInv, TextsTyped, Proc!TypeOK

(* What a scan has of the output is nothing, all, or the begin of it.       *)
LEMMA ScanInType == ASSUME ScanInv PROVE Scan!TypeOK
  BY DEF ScanInv, ScanTyped, Scan!TypeOK

(* What the bounds rest on, beyond the parts. *)
BoundedInv == TextInv /\ ScanInv /\ BoundsInv /\ EmittedFew

(* Whatever the operation and whenever the signal, every variable of every  *)
(* part keeps its type and every count its bound.                           *)
THEOREM AllTyped == Spec => []TypesOK
<1>1. Init => PartsInv /\ MainInv /\ BoundedInv
  BY MainInitial, TextInitial, ScanInitial, BoundsInitial, EmittedInitial
    DEF Init, BoundedInv
<1>2. PartsInv /\ MainInv /\ BoundedInv /\ [Next]_vars => PartsInv' /\ MainInv' /\ BoundedInv'
  <2> SUFFICES ASSUME PartsInv, MainInv, BoundedInv, [Next]_vars
               PROVE  PartsInv' /\ MainInv' /\ BoundedInv'
    OBVIOUS
  <2>1. PartSteps
    BY PartsStep
  <2>2. TextInv'
    BY <2>1, TextStep DEF PartsInv, BoundedInv, PartSteps
  <2>3. ScanInv' /\ EmittedFew'
    BY <2>1, ScanStep, EmittedStep DEF BoundedInv, PartSteps
  <2>4. BoundsInv'
    BY <2>1, BoundsStep DEF PartsInv, BoundedInv, PartSteps
  <2> QED BY MainStep, <2>2, <2>3, <2>4 DEF BoundedInv
<1>3. PartsInv /\ MainInv /\ BoundedInv => TypesOK
  BY StreamInType, ScanInType, BoundsHold, ReadsInType
    DEF PartsInv, MainInv, BoundedInv, PortsInv, SectionsInv, ConfigInv, TypesOK
<1> QED BY <1>1, <1>2, <1>3, PTL DEF Spec
=============================================================================
