----------------------------- MODULE LoggingProofs -----------------------------
(* Theorems about Logging: for any number of emissions and of flushes, a      *)
(* flush and the closing of the scope wait for the lines they owe, and the    *)
(* file is in the order of the queue.                                         *)
EXTENDS Logging, TLAPS

(* A line that will log nothing more. *)
Final(l) == pc[l] \in {"done", "lost", "console"}

(* A final line that was to be logged is in S. *)
Dealt(l, S) ==
    \/ pc[l] \in {"lost", "console"}
    \/ pc[l] = "done" /\ (Passes(l) => l \in S)

InFile == ToSet(file) \cup failed
InHand == InFile \cup current \cup {queue[j] : j \in DOMAIN queue}
Behind(i) == InFile \cup current \cup {queue[j] : j \in 1..(i - 1)}

(* The lines that a waiter waits for: a flush also for those of the hooks.   *)
HooksOf(w) ==
    {l \in Lines : w # Scope /\ l[2] = "hook" /\ hookRuns[l[1]] > 0 /\ \E k \in due[w] : k[1] = l[1]}

Awaited(w) == {l \in Lines : l \in due[w] \/ l \in HooksOf(w)}

(* How far the lines of an emission have come. *)
LinesBegin ==
    \A e \in Emissions :
        /\ how[e] = "none" => pc[Own(e)] = "idle"
        /\ hookRuns[e] = 0 => pc[Hook(e)] = "idle"
        /\ hookRuns[e] > 0 => pc[Own(e)] = "done" /\ pc[Hook(e)] \in {"sink", "done", "lost"}

WriterHolds ==
    /\ writer = "idle" => current = {}
    /\ \A a, b \in current : a = b

(* A line that has been to the sink is on its way to the file. *)
Kept == \A l \in Lines : pc[l] \in {"hook", "done"} /\ Passes(l) => l \in InHand

(* A flush that waits for the set waits for what it is to wait for. *)
HooksAwaited ==
    \A f \in Flushers : flush[f] = "hooks" =>
        \A l \in due[f] : pc[l] \in {"done", "lost"} \/ InSet(l)

(* A flush on the queue is behind every line that it waits for. *)
QueuedBehind ==
    \A i \in DOMAIN queue : queue[i] \in Waiters =>
        /\ flush[queue[i]] \in {"sink", "done"}
        /\ \A m \in Awaited(queue[i]) : Dealt(m, Behind(i))

Answered ==
    \A w \in Waiters : flush[w] = "done" => \A m \in Awaited(w) : Dealt(m, InFile)

ScopeFlush ==
    /\ closing = "open" <=> flush[Scope] = "idle"
    /\ flush[Scope] # "hooks"
    /\ closing \in {"stopped", "closed"} => flush[Scope] = "done"

KeptInv ==
    /\ TypeOK /\ LinesBegin /\ WriterHolds /\ Kept /\ HooksAwaited /\ QueuedBehind
    /\ Answered /\ ScopeFlush

(* a was queued before b. *)
Before(a, b) == \E m, n \in DOMAIN offered : m < n /\ offered[m] = a /\ offered[n] = b

Waiting == ToSet(queue) \cap Lines

(* The file, the line the writer has taken and the queue are in one order. *)
Ordered ==
    /\ \A i, j \in DOMAIN file, a, b \in Lines :
          i < j /\ file[i] = a /\ file[j] = b => Before(a, b)
    /\ \A a \in ToSet(file), b \in current \cup Waiting : Before(a, b)
    /\ \A a \in current, b \in Waiting : Before(a, b)
    /\ \A i, j \in DOMAIN queue, a, b \in Lines :
          i < j /\ queue[i] = a /\ queue[j] = b => Before(a, b)

Offered == ToSet(file) \cup current \cup Waiting \subseteq ToSet(offered)

OrderInv == Offered /\ Ordered

-----------------------------------------------------------------------------
LEMMA AppendFacts ==
    ASSUME NEW S, NEW s \in Seq(S), NEW x \in S
    PROVE  /\ Append(s, x) \in Seq(S)
           /\ Len(s) \in Nat /\ DOMAIN s = 1..Len(s)
           /\ DOMAIN Append(s, x) = 1..(Len(s) + 1)
           /\ \A i \in 1..Len(s) : Append(s, x)[i] = s[i]
           /\ Append(s, x)[Len(s) + 1] = x
           /\ ToSet(Append(s, x)) = ToSet(s) \cup {x}
<1>1. /\ Append(s, x) \in Seq(S)
      /\ Len(s) \in Nat /\ DOMAIN s = 1..Len(s)
      /\ DOMAIN Append(s, x) = 1..(Len(s) + 1)
      /\ \A i \in 1..Len(s) : Append(s, x)[i] = s[i]
      /\ Append(s, x)[Len(s) + 1] = x
  OBVIOUS
<1> QED BY <1>1 DEF ToSet

LEMMA TailFacts ==
    ASSUME NEW S, NEW s \in Seq(S), s # <<>>
    PROVE  /\ Tail(s) \in Seq(S) /\ Head(s) \in S /\ Head(s) = s[1]
           /\ Len(s) \in Nat /\ DOMAIN s = 1..Len(s) /\ 1 \in DOMAIN s
           /\ DOMAIN Tail(s) = 1..(Len(s) - 1)
           /\ \A i \in 1..(Len(s) - 1) : Tail(s)[i] = s[i + 1] /\ i + 1 \in DOMAIN s
  OBVIOUS

(* A line is the own line or the hook's of its emission. *)
LEMMA LineFacts ==
    /\ \A l \in Lines :
          /\ l[1] \in Emissions /\ l[2] \in {"own", "hook"}
          /\ l[2] = "own" => l = Own(l[1])
          /\ l[2] = "hook" => l = Hook(l[1])
    /\ \A e \in Emissions :
          /\ Own(e) \in Lines /\ Own(e)[1] = e /\ Own(e)[2] = "own"
          /\ Hook(e) \in Lines /\ Hook(e)[1] = e /\ Hook(e)[2] = "hook"
    /\ \A d, e \in Emissions :
          /\ Own(d) # Hook(e)
          /\ Own(d) = Own(e) => d = e
          /\ Hook(d) = Hook(e) => d = e
  BY DEF Lines, Own, Hook

LEMMA LinesAreNotWaiters == Lines \cap Waiters = {} /\ Scope \notin Flushers
  BY LoggingAssumption DEF Lines, Waiters

(* What the steps of the fibers that log leave alone. *)
GoesOn ==
    /\ \A l \in Lines : Final(l) => pc'[l] = pc[l]
    /\ \A l \in Lines : pc[l] # "idle" => (Passes(l)' <=> Passes(l))
    /\ \A e \in Emissions : hookRuns'[e] > 0 => hookRuns[e] > 0 \/ pc[Own(e)] = "hook"

(* A waiter whose lines are over waits for no others. *)
LEMMA AwaitedStays ==
    ASSUME TypeOK, LinesBegin, GoesOn, NEW w \in Waiters, due'[w] = due[w],
           \A m \in Awaited(w) : Final(m)
    PROVE  \A m \in Awaited(w)' :
               m \in Awaited(w) /\ pc'[m] = pc[m] /\ (Passes(m)' <=> Passes(m))
<1> SUFFICES ASSUME NEW m \in Lines, m \in Awaited(w)'
             PROVE  m \in Awaited(w) /\ pc'[m] = pc[m] /\ (Passes(m)' <=> Passes(m))
  BY DEF Awaited
<1>1. m \in Awaited(w)
  <2>1. CASE m \in due[w]
    BY <2>1 DEF Awaited
  <2>2. CASE m \notin due[w]
    <3>1. /\ w # Scope /\ m[2] = "hook" /\ hookRuns'[m[1]] > 0
          /\ \E k \in due[w] : k[1] = m[1]
      BY <2>2 DEF Awaited, HooksOf
    <3>2. PICK k \in due[w] : k[1] = m[1]
      BY <3>1
    <3>3. k \in Lines /\ Final(k)
      BY DEF Awaited, TypeOK
    <3>4. m[1] \in Emissions /\ (k = Own(m[1]) \/ k = Hook(m[1]))
      BY <3>2, <3>3, LineFacts
    <3>5. hookRuns[m[1]] > 0
      <4>1. hookRuns[m[1]] \in 0..1
        BY <3>4 DEF TypeOK
      <4>2. CASE pc[Own(m[1])] = "hook"
        <5>1. k = Hook(m[1])
          BY <3>3, <3>4, <4>2 DEF Final
        <5> QED BY <5>1, <3>3, <3>4, <4>1 DEF LinesBegin, Final
      <4> QED BY <3>1, <3>4, <4>2 DEF GoesOn
    <3> QED BY <3>1, <3>5 DEF Awaited, HooksOf
  <2> QED BY <2>1, <2>2
<1>2. Final(m)
  BY <1>1
<1> QED BY <1>1, <1>2 DEF GoesOn, Final

(* What is dealt with stays so. *)
LEMMA DealtStays ==
    ASSUME TypeOK, LinesBegin, GoesOn, NEW w \in Waiters, due'[w] = due[w],
           NEW S, NEW T, S \subseteq T, \A m \in Awaited(w) : Dealt(m, S)
    PROVE  \A m \in Awaited(w)' :
               \/ pc'[m] \in {"lost", "console"}
               \/ pc'[m] = "done" /\ (Passes(m)' => m \in T)
<1>1. \A m \in Awaited(w) : Final(m)
  BY DEF Dealt, Final
<1> QED BY <1>1, AwaitedStays DEF Dealt

LEMMA WaitersGoOn ==
    ASSUME KeptInv, GoesOn, UNCHANGED <<flush, due, current, file, failed>>,
           queue' = queue \/ \E l \in Lines : queue' = Append(queue, l)
    PROVE  QueuedBehind' /\ Answered'
<1> USE DEF KeptInv
<1>1. Answered'
  <2> SUFFICES ASSUME NEW w \in Waiters, flush'[w] = "done", NEW m \in Awaited(w)'
               PROVE  Dealt(m, InFile)'
    BY DEF Answered
  <2>1. \A k \in Awaited(w) : Dealt(k, InFile)
    BY DEF Answered
  <2>2. InFile' = InFile /\ due'[w] = due[w]
    BY DEF InFile
  <2>3. \/ pc'[m] \in {"lost", "console"}
        \/ pc'[m] = "done" /\ (Passes(m)' => m \in InFile)
    BY <2>1, <2>2, DealtStays
  <2> QED BY <2>2, <2>3 DEF Dealt
<1>2. QueuedBehind'
  <2> SUFFICES ASSUME NEW i \in DOMAIN queue', NEW w \in Waiters, w = queue'[i]
               PROVE  flush'[w] \in {"sink", "done"} /\ \A m \in Awaited(w)' : Dealt(m, Behind(i))'
    BY DEF QueuedBehind
  <2>0. queue \in Seq(Lines \cup Waiters)
    BY DEF TypeOK
  <2>1. i \in DOMAIN queue /\ queue'[i] = queue[i] /\ Behind(i)' = Behind(i)
    <3>1. CASE queue' = queue
      BY <3>1 DEF Behind, InFile
    <3>2. ASSUME NEW l \in Lines, queue' = Append(queue, l)
          PROVE  i \in DOMAIN queue /\ queue'[i] = queue[i] /\ Behind(i)' = Behind(i)
      <4>1. /\ Len(queue) \in Nat /\ DOMAIN queue = 1..Len(queue)
            /\ DOMAIN queue' = 1..(Len(queue) + 1)
            /\ \A j \in 1..Len(queue) : queue'[j] = queue[j]
            /\ queue'[Len(queue) + 1] = l
        BY <2>0, <3>2, AppendFacts
      <4>2. i \in 1..Len(queue)
        BY <4>1, LinesAreNotWaiters
      <4>3. \A j \in 1..(i - 1) : queue'[j] = queue[j]
        BY <4>1, <4>2
      <4> QED BY <4>1, <4>2, <4>3 DEF Behind, InFile
    <3> QED BY <3>1, <3>2
  <2>2. w \in Waiters /\ flush[w] \in {"sink", "done"} /\ \A m \in Awaited(w) : Dealt(m, Behind(i))
    BY <2>1 DEF QueuedBehind
  <2>3. due'[w] = due[w]
    OBVIOUS
  <2>4. \A m \in Awaited(w)' : \/ pc'[m] \in {"lost", "console"}
                               \/ pc'[m] = "done" /\ (Passes(m)' => m \in Behind(i))
    BY <2>2, <2>3, DealtStays
  <2>5. \A m \in Awaited(w)' : Dealt(m, Behind(i))'
    BY <2>1, <2>4 DEF Dealt
  <2> QED BY <2>2, <2>5
<1> QED BY <1>1, <1>2

-----------------------------------------------------------------------------
(* A step of the fibers that log, or the end of the set. *)
LEMMA FibersGoOn ==
    ASSUME KeptInv, TypeOK', LinesBegin', GoesOn,
           UNCHANGED <<flush, due, writer, current, file, failed>>,
           closing' = closing \/ (closing = "stopped" /\ closing' = "closed"),
           queue' = queue \/ \E l \in Lines : queue' = Append(queue, l),
           \A l \in Lines : pc'[l] \in {"hook", "done"} =>
               \/ pc[l] \in {"hook", "done"}
               \/ Passes(l)' => l \in {queue'[j] : j \in DOMAIN queue'},
           \A l \in Lines : InSet(l) => InSet(l)' \/ pc'[l] \in {"done", "lost"}
    PROVE  KeptInv'
<1> USE DEF KeptInv
<1>1. QueuedBehind' /\ Answered'
  BY WaitersGoOn
<1>2. WriterHolds' /\ ScopeFlush'
  BY DEF WriterHolds, ScopeFlush
<1>3. \A l \in Lines : l \in InHand => l \in InHand'
  <2>1. queue \in Seq(Lines \cup Waiters)
    BY DEF TypeOK
  <2>2. {queue[j] : j \in DOMAIN queue} \subseteq {queue'[j] : j \in DOMAIN queue'}
    <3>1. ASSUME NEW l \in Lines, queue' = Append(queue, l)
          PROVE  {queue[j] : j \in DOMAIN queue} \subseteq {queue'[j] : j \in DOMAIN queue'}
      <4>1. /\ Len(queue) \in Nat /\ DOMAIN queue = 1..Len(queue)
            /\ DOMAIN queue' = 1..(Len(queue) + 1)
            /\ \A j \in 1..Len(queue) : queue'[j] = queue[j]
        BY <2>1, <3>1, AppendFacts
      <4>2. \A j \in DOMAIN queue : j \in DOMAIN queue' /\ queue'[j] = queue[j]
        BY <4>1
      <4> QED BY <4>2
    <3> QED BY <3>1
  <2> QED BY <2>2 DEF InHand, InFile
<1>4. Kept'
  <2> SUFFICES ASSUME NEW l \in Lines, pc'[l] \in {"hook", "done"}, Passes(l)'
               PROVE  l \in InHand'
    BY DEF Kept
  <2>1. CASE pc[l] \in {"hook", "done"}
    BY <2>1, <1>3 DEF Kept, GoesOn
  <2>2. CASE pc[l] \notin {"hook", "done"}
    BY <2>2 DEF InHand
  <2> QED BY <2>1, <2>2
<1>5. HooksAwaited'
  <2> SUFFICES ASSUME NEW f \in Flushers, flush[f] = "hooks", NEW l \in due[f]
               PROVE  pc'[l] \in {"done", "lost"} \/ InSet(l)'
    BY DEF HooksAwaited
  <2>1. l \in Lines
    BY DEF TypeOK, Waiters
  <2>2. pc[l] \in {"done", "lost"} \/ InSet(l)
    BY DEF HooksAwaited
  <2> QED BY <2>1, <2>2 DEF GoesOn, Final
<1> QED BY <1>1, <1>2, <1>4, <1>5

(* A new emission. *)
LEMMA EmitStep ==
    ASSUME KeptInv, NEW e \in Emissions, Emit(e) \/ EmitUnsafe(e)
    PROVE  KeptInv'
<1> USE DEF KeptInv
<1>0. /\ UNCHANGED <<hookRuns, queue, offered, initialized, writer, current, flying, file,
                     failed, flush, due, closing>>
      /\ how[e] = "none"
  BY DEF Emit, EmitUnsafe, Comes, writerVars, flushVars
<1>1. PICK v \in {"quiet", "loud", "error"} : level' = [level EXCEPT ![e] = v]
  BY DEF Emit, EmitUnsafe
<1>2. PICK h \in {"emit", "unsafe"} : how' = [how EXCEPT ![e] = h]
  BY DEF Emit, EmitUnsafe
<1>3. PICK to \in {"tap", "console"} : pc' = [pc EXCEPT ![Own(e)] = to]
  BY DEF Emit, EmitUnsafe, Move
<1>4. pc[Own(e)] = "idle" /\ pc[Hook(e)] = "idle" /\ hookRuns[e] = 0
  <2>1. pc[Own(e)] = "idle" /\ hookRuns[e] \in 0..1
    BY <1>0 DEF LinesBegin, TypeOK
  <2>2. hookRuns[e] = 0
    BY <2>1 DEF LinesBegin
  <2> QED BY <2>1, <2>2 DEF LinesBegin
<1>5. TypeOK'
  <2>1. how' \in [Emissions -> {"none", "emit", "unsafe"}]
    BY <1>2 DEF TypeOK
  <2>2. level' \in [Emissions -> {"quiet", "loud", "error"}]
    BY <1>1 DEF TypeOK
  <2>3. pc' \in [Lines -> LinePC]
    BY <1>3 DEF TypeOK, LinePC
  <2> QED BY <1>0, <2>1, <2>2, <2>3 DEF TypeOK
<1>6. \A l \in Lines : l # Own(e) => pc'[l] = pc[l]
  BY <1>3 DEF TypeOK
<1>7. pc'[Own(e)] = to
  BY <1>3, LineFacts DEF TypeOK
<1>8. \A l \in Lines : pc[l] # "idle" => l[1] # e
  BY <1>4, LineFacts
<1>9. \A l \in Lines : pc[l] # "idle" => level'[l[1]] = level[l[1]] /\ how'[l[1]] = how[l[1]]
  BY <1>1, <1>2, <1>8, LineFacts DEF TypeOK
<1>10. GoesOn
  BY <1>0, <1>4, <1>6, <1>9 DEF GoesOn, Final, Passes
<1>11. LinesBegin'
  <2> SUFFICES ASSUME NEW d \in Emissions
               PROVE  /\ how'[d] = "none" => pc'[Own(d)] = "idle"
                      /\ hookRuns[d] = 0 => pc'[Hook(d)] = "idle"
                      /\ hookRuns[d] > 0 => pc'[Own(d)] = "done" /\ pc'[Hook(d)] \in {"sink", "done", "lost"}
    BY <1>0 DEF LinesBegin
  <2>1. pc'[Hook(d)] = pc[Hook(d)]
    BY <1>6, LineFacts
  <2>2. CASE d = e
    BY <2>1, <2>2, <1>2, <1>4 DEF TypeOK
  <2>3. CASE d # e
    <3>1. pc'[Own(d)] = pc[Own(d)] /\ how'[d] = how[d]
      BY <2>3, <1>2, <1>6, LineFacts DEF TypeOK
    <3> QED BY <2>1, <3>1 DEF LinesBegin
  <2> QED BY <2>2, <2>3
<1>12. \A l \in Lines : pc'[l] \in {"hook", "done"} => pc[l] \in {"hook", "done"}
  BY <1>6, <1>7
<1>13. \A l \in Lines : InSet(l) => InSet(l)'
  <2> SUFFICES ASSUME NEW l \in Lines, InSet(l) PROVE InSet(l)'
    OBVIOUS
  <2>1. pc[l] # "idle" /\ l # Own(e)
    BY <1>4 DEF InSet, Live
  <2> QED BY <2>1, <1>6, <1>9 DEF InSet
<1> QED BY <1>0, <1>5, <1>10, <1>11, <1>12, <1>13, FibersGoOn

(* The other steps of a fiber move a line on. *)
LEMMA LineMoves ==
    ASSUME TypeOK, LinesBegin, NEW l \in Lines, NEW to \in LinePC \ {"idle"},
           pc[l] \in Live, pc' = [pc EXCEPT ![l] = to], UNCHANGED <<how, level, hookRuns>>,
           l[2] = "hook" => to \in {"sink", "done", "lost"}
    PROVE  /\ GoesOn /\ LinesBegin' /\ pc' \in [Lines -> LinePC]
           /\ \A k \in Lines : k # l => pc'[k] = pc[k]
           /\ pc'[l] = to
           /\ \A k \in Lines : k # l \/ to \in Live => (InSet(k) => InSet(k)')
<1>1. /\ pc' \in [Lines -> LinePC]
      /\ \A k \in Lines : k # l => pc'[k] = pc[k]
      /\ pc'[l] = to
  BY DEF TypeOK
<1>2. GoesOn
  BY <1>1 DEF GoesOn, Final, Live, Passes
<1>3. LinesBegin'
  <2> SUFFICES ASSUME NEW d \in Emissions
               PROVE  /\ how[d] = "none" => pc'[Own(d)] = "idle"
                      /\ hookRuns[d] = 0 => pc'[Hook(d)] = "idle"
                      /\ hookRuns[d] > 0 => pc'[Own(d)] = "done" /\ pc'[Hook(d)] \in {"sink", "done", "lost"}
    BY DEF LinesBegin
  <2>1. /\ how[d] = "none" => pc[Own(d)] = "idle"
        /\ hookRuns[d] = 0 => pc[Hook(d)] = "idle"
        /\ hookRuns[d] > 0 => pc[Own(d)] = "done" /\ pc[Hook(d)] \in {"sink", "done", "lost"}
    BY DEF LinesBegin
  <2>2. Own(d) \in Lines /\ Hook(d) \in Lines /\ Hook(d)[2] = "hook" /\ Own(d) # Hook(d)
    BY LineFacts
  <2>3. CASE l = Own(d)
    BY <1>1, <2>1, <2>2, <2>3 DEF Live
  <2>4. CASE l = Hook(d)
    BY <1>1, <2>1, <2>2, <2>4 DEF Live
  <2>5. CASE l # Own(d) /\ l # Hook(d)
    BY <1>1, <2>1, <2>2, <2>5
  <2> QED BY <2>3, <2>4, <2>5
<1>4. \A k \in Lines : k # l \/ to \in Live => (InSet(k) => InSet(k)')
  BY <1>1 DEF InSet
<1> QED BY <1>1, <1>2, <1>3, <1>4

LEMMA TapEndsStep == ASSUME KeptInv, NEW l \in Lines, TapEnds(l) PROVE KeptInv'
<1> USE DEF KeptInv
<1>1. /\ pc[l] = "tap" /\ pc' = [pc EXCEPT ![l] = "sink"]
      /\ UNCHANGED <<how, level, hookRuns, queue, offered, initialized, writer, current,
                     flying, file, failed, flush, due, closing>>
  BY DEF TapEnds, Move, writerVars, flushVars
<1>2. /\ GoesOn /\ LinesBegin' /\ pc' \in [Lines -> LinePC]
      /\ \A k \in Lines : k # l => pc'[k] = pc[k]
      /\ pc'[l] = "sink"
      /\ \A k \in Lines : InSet(k) => InSet(k)'
  <2>1. "sink" \in LinePC \ {"idle"} /\ "sink" \in Live /\ pc[l] \in Live
    BY <1>1 DEF LinePC, Live
  <2> QED BY <1>1, <2>1, LineMoves
<1>3. TypeOK'
  BY <1>1, <1>2 DEF TypeOK
<1>4. \A k \in Lines : pc'[k] \in {"hook", "done"} => pc[k] \in {"hook", "done"}
  BY <1>2
<1> QED BY <1>1, <1>2, <1>3, <1>4, FibersGoOn

LEMMA WriteSinkStep == ASSUME KeptInv, NEW l \in Lines, WriteSink(l) PROVE KeptInv'
<1> USE DEF KeptInv
<1> DEFINE to == IF l[2] = "own" THEN "hook" ELSE "done"
<1>1. /\ pc[l] = "sink" /\ pc' = [pc EXCEPT ![l] = to]
      /\ UNCHANGED <<how, level, hookRuns, initialized, writer, current,
                     flying, file, failed, flush, due, closing>>
  BY DEF WriteSink, Move, writerVars, flushVars
<1>q. \/ Passes(l) /\ queue' = Append(queue, l) /\ offered' = Append(offered, l)
      \/ ~Passes(l) /\ UNCHANGED <<queue, offered>>
  BY DEF WriteSink
<1>t. /\ to \in LinePC \ {"idle"} /\ (l[2] = "hook" => to \in {"sink", "done", "lost"})
      /\ to \in Live \/ to = "done"
  BY LineFacts DEF LinePC, Live
<1> HIDE DEF to
<1>2. /\ GoesOn /\ LinesBegin' /\ pc' \in [Lines -> LinePC]
      /\ \A k \in Lines : k # l => pc'[k] = pc[k]
      /\ pc'[l] = to
      /\ \A k \in Lines : k # l \/ to \in Live => (InSet(k) => InSet(k)')
  <2>1. pc[l] \in Live
    BY <1>1 DEF Live
  <2> QED BY <1>1, <1>t, <2>1, LineMoves
<1>3. TypeOK'
  <2>1. queue' \in Seq(Lines \cup Waiters) /\ offered' \in Seq(Lines)
    <3>1. queue \in Seq(Lines \cup Waiters) /\ offered \in Seq(Lines) /\ l \in Lines \cup Waiters
      BY DEF TypeOK
    <3>2. Append(queue, l) \in Seq(Lines \cup Waiters)
      BY <3>1, AppendFacts
    <3>3. Append(offered, l) \in Seq(Lines)
      BY <3>1, AppendFacts
    <3> QED BY <3>1, <3>2, <3>3, <1>q
  <2> QED BY <1>1, <1>2, <2>1 DEF TypeOK
<1>4. \A k \in Lines : pc'[k] \in {"hook", "done"} =>
          \/ pc[k] \in {"hook", "done"}
          \/ Passes(k)' => k \in {queue'[j] : j \in DOMAIN queue'}
  <2>1. Passes(l)' => l \in {queue'[j] : j \in DOMAIN queue'}
    <3>1. Passes(l)' <=> Passes(l)
      BY <1>1 DEF Passes
    <3>2. CASE queue' = Append(queue, l)
      <4>1. /\ Len(queue) \in Nat /\ DOMAIN queue' = 1..(Len(queue) + 1)
            /\ queue'[Len(queue) + 1] = l
        BY <3>2, AppendFacts DEF TypeOK
      <4>2. Len(queue) + 1 \in DOMAIN queue'
        BY <4>1
      <4> QED BY <4>1, <4>2
    <3> QED BY <3>1, <3>2, <1>q
  <2> QED BY <2>1, <1>2
<1>5. \A k \in Lines : InSet(k) => InSet(k)' \/ pc'[k] \in {"done", "lost"}
  BY <1>2, <1>t
<1>6. queue' = queue \/ \E k \in Lines : queue' = Append(queue, k)
  BY <1>q
<1> QED BY <1>1, <1>2, <1>3, <1>4, <1>5, <1>6, FibersGoOn

LEMMA StartHookStep == ASSUME KeptInv, NEW l \in Lines, StartHook(l) PROVE KeptInv'
<1> USE DEF KeptInv
<1> DEFINE e == l[1]
<1>1. /\ pc[l] = "hook"
      /\ UNCHANGED <<how, level, queue, offered, initialized, writer, current,
                     flying, file, failed, flush, due, closing>>
  BY DEF StartHook, writerVars, flushVars
<1>2. e \in Emissions /\ hookRuns[e] \in 0..1
  BY LineFacts DEF TypeOK
<1>3. l = Own(e) /\ hookRuns[e] = 0 /\ pc[Hook(e)] = "idle"
  <2>1. CASE hookRuns[e] > 0
    BY <2>1, <1>1, <1>2, LineFacts DEF LinesBegin
  <2>2. CASE ~(hookRuns[e] > 0)
    <3>1. hookRuns[e] = 0
      BY <2>2, <1>2
    <3>2. pc[Hook(e)] = "idle"
      BY <3>1, <1>2 DEF LinesBegin
    <3> QED BY <3>1, <3>2, <1>1, <1>2, LineFacts
  <2> QED BY <2>1, <2>2
<1>4. CASE level[e] # "error"
  <2>1. pc' = [pc EXCEPT ![l] = "done"] /\ hookRuns' = hookRuns
    BY <1>4 DEF StartHook
  <2>2. /\ GoesOn /\ LinesBegin' /\ pc' \in [Lines -> LinePC]
        /\ \A k \in Lines : k # l => pc'[k] = pc[k]
        /\ pc'[l] = "done"
        /\ \A k \in Lines : k # l => (InSet(k) => InSet(k)')
    <3>1. pc[l] \in Live /\ "done" \in LinePC \ {"idle"}
      BY <1>1 DEF Live, LinePC
    <3> QED BY <1>1, <2>1, <3>1, LineMoves
  <2>3. TypeOK'
    BY <1>1, <2>1, <2>2 DEF TypeOK
  <2>4. \A k \in Lines : pc'[k] \in {"hook", "done"} => pc[k] \in {"hook", "done"}
    BY <1>1, <2>2
  <2>5. \A k \in Lines : InSet(k) => InSet(k)' \/ pc'[k] \in {"done", "lost"}
    BY <2>2
  <2> QED BY <1>1, <2>2, <2>3, <2>4, <2>5, FibersGoOn
<1>5. CASE level[e] = "error"
  <2>1. PICK to \in {"lost", "sink"} :
            pc' = [pc EXCEPT ![l] = "done", ![Hook(e)] = to]
    BY <1>5 DEF StartHook
  <2>2. hookRuns' = [hookRuns EXCEPT ![e] = hookRuns[e] + 1]
    BY <1>5 DEF StartHook
  <2>3. /\ hookRuns' \in [Emissions -> 0..1]
        /\ hookRuns'[e] = 1
        /\ \A d \in Emissions : d # e => hookRuns'[d] = hookRuns[d]
    <3>1. hookRuns' = [hookRuns EXCEPT ![e] = 1]
      BY <2>2, <1>3
    <3> QED BY <3>1, <1>2 DEF TypeOK
  <2>4. /\ pc' \in [Lines -> LinePC]
        /\ pc'[l] = "done" /\ pc'[Hook(e)] = to
        /\ \A k \in Lines : k # l /\ k # Hook(e) => pc'[k] = pc[k]
    <3>1. Hook(e) \in Lines /\ l # Hook(e)
      BY <1>2, <1>3, LineFacts
    <3>2. to \in LinePC /\ "done" \in LinePC /\ pc \in [Lines -> LinePC]
      BY DEF TypeOK, LinePC
    <3> HIDE DEF e
    <3> QED BY <2>1, <3>1, <3>2
  <2>5. TypeOK'
    BY <1>1, <2>3, <2>4 DEF TypeOK
  <2>6. GoesOn
    <3>1. \A k \in Lines : Final(k) => pc'[k] = pc[k]
      BY <1>1, <1>3, <2>4 DEF Final
    <3>2. \A k \in Lines : Passes(k)' <=> Passes(k)
      BY <1>1 DEF Passes
    <3>3. \A d \in Emissions : hookRuns'[d] > 0 => hookRuns[d] > 0 \/ pc[Own(d)] = "hook"
      BY <2>3, <1>1, <1>3
    <3> QED BY <3>1, <3>2, <3>3 DEF GoesOn
  <2>7. LinesBegin'
    <3> SUFFICES ASSUME NEW d \in Emissions
                 PROVE  /\ how[d] = "none" => pc'[Own(d)] = "idle"
                        /\ hookRuns'[d] = 0 => pc'[Hook(d)] = "idle"
                        /\ hookRuns'[d] > 0 =>
                              pc'[Own(d)] = "done" /\ pc'[Hook(d)] \in {"sink", "done", "lost"}
      BY <1>1 DEF LinesBegin
    <3>1. CASE d = e
      BY <3>1, <1>1, <1>3, <2>3, <2>4 DEF LinesBegin
    <3>2. CASE d # e
      <4>1. Own(d) # l /\ Own(d) # Hook(e) /\ Hook(d) # l /\ Hook(d) # Hook(e)
        BY <3>2, <1>2, <1>3, LineFacts
      <4>2. pc'[Own(d)] = pc[Own(d)] /\ pc'[Hook(d)] = pc[Hook(d)]
        BY <4>1, <2>4, LineFacts
      <4> QED BY <3>2, <4>2, <2>3 DEF LinesBegin
    <3> QED BY <3>1, <3>2
  <2>8. \A k \in Lines : pc'[k] \in {"hook", "done"} => pc[k] \in {"hook", "done"}
    BY <1>1, <2>4
  <2>9. \A k \in Lines : InSet(k) => InSet(k)' \/ pc'[k] \in {"done", "lost"}
    <3> SUFFICES ASSUME NEW k \in Lines, InSet(k) PROVE InSet(k)' \/ pc'[k] \in {"done", "lost"}
      OBVIOUS
    <3>1. k # Hook(e)
      BY <1>3 DEF InSet, Live
    <3>2. CASE k = l
      BY <3>2, <2>4
    <3>3. CASE k # l
      BY <3>1, <3>3, <2>4, <1>1 DEF InSet
    <3> QED BY <3>2, <3>3
  <2> QED BY <1>1, <2>5, <2>6, <2>7, <2>8, <2>9, FibersGoOn
<1> QED BY <1>4, <1>5

LEMMA EmitInterruptedStep ==
    ASSUME KeptInv, NEW e \in Emissions, EmitInterrupted(e) PROVE KeptInv'
<1> USE DEF KeptInv
<1> DEFINE l == Own(e)
<1>1. /\ how[e] = "emit" /\ pc[l] \in Live /\ pc' = [pc EXCEPT ![l] = "lost"]
      /\ l \in Lines /\ l[2] = "own" /\ l[1] = e
      /\ UNCHANGED <<how, level, hookRuns, queue, offered, initialized, writer, current,
                     flying, file, failed, flush, due, closing>>
  BY LineFacts DEF EmitInterrupted, writerVars, flushVars
<1> HIDE DEF l
<1>2. /\ GoesOn /\ LinesBegin' /\ pc' \in [Lines -> LinePC]
      /\ \A k \in Lines : k # l => pc'[k] = pc[k]
      /\ pc'[l] = "lost"
      /\ \A k \in Lines : k # l => (InSet(k) => InSet(k)')
  <2>1. "lost" \in LinePC \ {"idle"}
    BY DEF LinePC
  <2> QED BY <1>1, <2>1, LineMoves
<1>3. TypeOK'
  BY <1>1, <1>2 DEF TypeOK
<1>4. \A k \in Lines : pc'[k] \in {"hook", "done"} => pc[k] \in {"hook", "done"}
  BY <1>2
<1>5. \A k \in Lines : InSet(k) => InSet(k)' \/ pc'[k] \in {"done", "lost"}
  BY <1>2
<1> QED BY <1>1, <1>2, <1>3, <1>4, <1>5, FibersGoOn

(* The set ends the lines that are in it. *)
LEMMA CloseClearsStep == ASSUME KeptInv, CloseClears PROVE KeptInv'
<1> USE DEF KeptInv
<1>1. /\ closing = "stopped" /\ closing' = "closed"
      /\ pc' = [l \in Lines |-> IF InSet(l) THEN "lost" ELSE pc[l]]
      /\ UNCHANGED <<how, level, hookRuns, queue, offered, initialized, writer, current,
                     flying, file, failed, flush, due>>
  BY DEF CloseClears, writerVars
<1>2. /\ pc' \in [Lines -> LinePC]
      /\ \A l \in Lines : pc'[l] = pc[l] \/ (InSet(l) /\ pc'[l] = "lost")
      /\ \A l \in Lines : InSet(l) => pc'[l] = "lost"
  BY <1>1 DEF TypeOK, LinePC
<1>3. TypeOK'
  BY <1>1, <1>2 DEF TypeOK
<1>4. GoesOn
  BY <1>1, <1>2 DEF GoesOn, Final, InSet, Live, Passes
<1>5. LinesBegin'
  <2> SUFFICES ASSUME NEW d \in Emissions
               PROVE  /\ how[d] = "none" => pc'[Own(d)] = "idle"
                      /\ hookRuns[d] = 0 => pc'[Hook(d)] = "idle"
                      /\ hookRuns[d] > 0 => pc'[Own(d)] = "done" /\ pc'[Hook(d)] \in {"sink", "done", "lost"}
    BY <1>1 DEF LinesBegin
  <2>1. /\ how[d] = "none" => pc[Own(d)] = "idle"
        /\ hookRuns[d] = 0 => pc[Hook(d)] = "idle"
        /\ hookRuns[d] > 0 => pc[Own(d)] = "done" /\ pc[Hook(d)] \in {"sink", "done", "lost"}
    BY DEF LinesBegin
  <2>2. Own(d) \in Lines /\ Hook(d) \in Lines
    BY LineFacts
  <2> QED BY <1>2, <2>1, <2>2 DEF InSet, Live
<1>6. \A k \in Lines : pc'[k] \in {"hook", "done"} => pc[k] \in {"hook", "done"}
  BY <1>2
<1> QED BY <1>1, <1>2, <1>3, <1>4, <1>5, <1>6, FibersGoOn

-----------------------------------------------------------------------------
(* The writer and the flushes leave the lines where they are. *)
LEMMA LinesStay ==
    ASSUME UNCHANGED emitVars
    PROVE  /\ UNCHANGED <<how, level, pc, hookRuns>>
           /\ \A l : (Passes(l)' <=> Passes(l)) /\ (InSet(l)' <=> InSet(l))
           /\ \A w : due'[w] = due[w] => Awaited(w)' = Awaited(w)
           /\ LinesBegin' <=> LinesBegin
<1>1. UNCHANGED <<how, level, pc, hookRuns>>
  BY DEF emitVars
<1>2. \A l : (Passes(l)' <=> Passes(l)) /\ (InSet(l)' <=> InSet(l))
  BY <1>1 DEF Passes, InSet
<1>3. \A w : due'[w] = due[w] => Awaited(w)' = Awaited(w)
  BY <1>1 DEF Awaited, HooksOf
<1>4. LinesBegin' <=> LinesBegin
  BY <1>1 DEF LinesBegin
<1> QED BY <1>1, <1>2, <1>3, <1>4

(* What the writer takes off the queue it has in hand. *)
LEMMA WriterGoesOn ==
    ASSUME KeptInv, TypeOK', WriterHolds', UNCHANGED <<emitVars, due, closing>>,
           \A l \in Lines : l \in InFile => l \in InFile',
           \A l \in Lines : l \in InHand => l \in InHand',
           \A i \in DOMAIN queue' : \E j \in DOMAIN queue :
               queue'[i] = queue[j] /\ \A l \in Lines : l \in Behind(j) => l \in Behind(i)',
           \A w \in Waiters :
               \/ flush'[w] = flush[w]
               \/ /\ flush[w] \in {"sink", "done"} /\ flush'[w] = "done"
                  /\ \A m \in Awaited(w) : Dealt(m, InFile)
    PROVE  KeptInv'
<1> USE DEF KeptInv
<1>1. /\ UNCHANGED <<how, level, pc, hookRuns, due, closing>>
      /\ \A l : (Passes(l)' <=> Passes(l)) /\ (InSet(l)' <=> InSet(l))
      /\ \A w : Awaited(w)' = Awaited(w)
      /\ LinesBegin'
  BY LinesStay
<1>2. \A w : Awaited(w) \subseteq Lines
  BY DEF Awaited
<1>3. Answered'
  <2> SUFFICES ASSUME NEW w \in Waiters, flush'[w] = "done", NEW m \in Awaited(w)
               PROVE  Dealt(m, InFile)'
    BY <1>1 DEF Answered
  <2>1. Dealt(m, InFile)
    BY DEF Answered
  <2> QED BY <1>1, <1>2, <2>1 DEF Dealt
<1>4. QueuedBehind'
  <2> SUFFICES ASSUME NEW i \in DOMAIN queue', NEW w \in Waiters, w = queue'[i]
               PROVE  flush'[w] \in {"sink", "done"} /\ \A m \in Awaited(w) : Dealt(m, Behind(i))'
    BY <1>1 DEF QueuedBehind
  <2>1. PICK j \in DOMAIN queue :
            w = queue[j] /\ \A l \in Lines : l \in Behind(j) => l \in Behind(i)'
    OBVIOUS
  <2>2. flush[w] \in {"sink", "done"} /\ \A m \in Awaited(w) : Dealt(m, Behind(j))
    BY <2>1 DEF QueuedBehind
  <2> QED BY <1>1, <1>2, <2>1, <2>2 DEF Dealt
<1>5. Kept'
  BY <1>1 DEF Kept
<1>6. HooksAwaited'
  <2> SUFFICES ASSUME NEW f \in Flushers, flush'[f] = "hooks", NEW l \in due[f]
               PROVE  pc[l] \in {"done", "lost"} \/ InSet(l)
    BY <1>1 DEF HooksAwaited
  <2>1. flush[f] = "hooks"
    BY DEF Waiters
  <2> QED BY <2>1 DEF HooksAwaited
<1>7. ScopeFlush'
  BY <1>1 DEF ScopeFlush, Waiters
<1> QED BY <1>1, <1>3, <1>4, <1>5, <1>6, <1>7

(* Off the queue: every entry moves up by one. *)
LEMMA TakenFacts ==
    ASSUME TypeOK, Taking
    PROVE  /\ queue' \in Seq(Lines \cup Waiters)
           /\ Head(queue) \in Lines \cup Waiters
           /\ Len(queue) \in Nat /\ DOMAIN queue = 1..Len(queue) /\ 1 \in DOMAIN queue
           /\ DOMAIN queue' = 1..(Len(queue) - 1)
           /\ \A i \in DOMAIN queue' : queue'[i] = queue[i + 1] /\ i + 1 \in DOMAIN queue
           /\ \A i \in DOMAIN queue' :
                  {queue[j] : j \in 1..((i + 1) - 1)}
                      \subseteq {Head(queue)} \cup {queue'[j] : j \in 1..(i - 1)}
           /\ {queue[j] : j \in DOMAIN queue}
                  \subseteq {Head(queue)} \cup {queue'[j] : j \in DOMAIN queue'}
<1>1. /\ queue \in Seq(Lines \cup Waiters) /\ queue # <<>> /\ queue' = Tail(queue)
  BY DEF Taking, TypeOK
<1>2. /\ queue' \in Seq(Lines \cup Waiters)
      /\ Head(queue) \in Lines \cup Waiters
      /\ Len(queue) \in Nat /\ DOMAIN queue = 1..Len(queue) /\ 1 \in DOMAIN queue
      /\ DOMAIN queue' = 1..(Len(queue) - 1)
      /\ \A i \in 1..(Len(queue) - 1) : queue'[i] = queue[i + 1] /\ i + 1 \in DOMAIN queue
      /\ Head(queue) = queue[1]
  BY <1>1, TailFacts
<1>3. \A j \in DOMAIN queue : j = 1 \/ (j - 1 \in DOMAIN queue' /\ queue[j] = queue'[j - 1])
  <2> SUFFICES ASSUME NEW j \in DOMAIN queue, j # 1
               PROVE  j - 1 \in DOMAIN queue' /\ queue[j] = queue'[j - 1]
    OBVIOUS
  <2>1. j - 1 \in 1..(Len(queue) - 1) /\ (j - 1) + 1 = j
    BY <1>2
  <2> QED BY <2>1, <1>2
<1>4. ASSUME NEW i \in DOMAIN queue'
      PROVE  {queue[j] : j \in 1..((i + 1) - 1)}
                 \subseteq {Head(queue)} \cup {queue'[j] : j \in 1..(i - 1)}
  <2> SUFFICES ASSUME NEW j \in 1..((i + 1) - 1)
               PROVE  queue[j] = Head(queue) \/ \E k \in 1..(i - 1) : queue[j] = queue'[k]
    OBVIOUS
  <2>1. j \in DOMAIN queue
    BY <1>2
  <2>2. j = 1 \/ j - 1 \in 1..(i - 1)
    BY <1>2
  <2> QED BY <1>2, <1>3, <2>1, <2>2
<1>5. {queue[j] : j \in DOMAIN queue}
          \subseteq {Head(queue)} \cup {queue'[j] : j \in DOMAIN queue'}
  BY <1>2, <1>3
<1> QED BY <1>2, <1>4, <1>5

LEMMA TakesLineStep == ASSUME KeptInv, TakesLine PROVE KeptInv'
<1> USE DEF KeptInv
<1>1. /\ Taking /\ writer = "idle" /\ Head(queue) \in Lines /\ current' = {Head(queue)}
      /\ initialized' = TRUE
      /\ UNCHANGED <<emitVars, how, level, pc, hookRuns, offered, file, failed, flush, due, closing>>
  BY DEF TakesLine, Taking, emitVars, flushVars
<1>2. \/ writer' = "append" /\ flying' = current'
      \/ writer' = "init" /\ flying' = flying
  BY DEF TakesLine
<1>3. current = {} /\ flying = {}
  BY <1>1 DEF WriterHolds, TypeOK
<1>4. TypeOK'
  BY <1>1, <1>2, <1>3, TakenFacts DEF TypeOK
<1>5. WriterHolds'
  BY <1>1, <1>2 DEF WriterHolds
<1>6. InFile' = InFile
  BY <1>1 DEF InFile
<1>7. InHand \subseteq InHand'
  BY <1>1, <1>3, <1>6, TakenFacts DEF InHand
<1>8. \A i \in DOMAIN queue' : \E j \in DOMAIN queue :
          queue'[i] = queue[j] /\ \A l \in Lines : l \in Behind(j) => l \in Behind(i)'
  <2> SUFFICES ASSUME NEW i \in DOMAIN queue'
               PROVE  \E j \in DOMAIN queue :
                          queue'[i] = queue[j] /\ \A l \in Lines : l \in Behind(j) => l \in Behind(i)'
    OBVIOUS
  <2>1. i + 1 \in DOMAIN queue /\ queue'[i] = queue[i + 1]
    BY <1>1, TakenFacts
  <2>2. {queue[j] : j \in 1..((i + 1) - 1)}
            \subseteq {Head(queue)} \cup {queue'[j] : j \in 1..(i - 1)}
    BY <1>1, TakenFacts
  <2>3. Behind(i + 1) \subseteq Behind(i)'
    BY <1>1, <1>3, <1>6, <2>2 DEF Behind
  <2> QED BY <2>1, <2>3
<1> QED BY <1>1, <1>4, <1>5, <1>6, <1>7, <1>8, WriterGoesOn

LEMMA TakesFlushStep == ASSUME KeptInv, TakesFlush PROVE KeptInv'
<1> USE DEF KeptInv
<1>1. /\ Taking /\ writer = "idle" /\ Head(queue) \in Waiters
      /\ flush' = [flush EXCEPT ![Head(queue)] = "done"]
      /\ UNCHANGED <<emitVars, how, level, pc, hookRuns, offered, initialized, writer, current,
                     flying, file, failed, due, closing>>
  BY DEF TakesFlush, Taking, emitVars, writerVars
<1>2. current = {}
  BY <1>1 DEF WriterHolds
<1>3. TypeOK' /\ WriterHolds'
  <2>1. flush' \in [Waiters -> {"idle", "hooks", "sink", "done"}]
    BY <1>1 DEF TypeOK
  <2> QED BY <1>1, <2>1, TakenFacts DEF TypeOK, WriterHolds
<1>4. InFile' = InFile
  BY <1>1 DEF InFile
<1>5. Head(queue) \notin Lines
  BY <1>1, LinesAreNotWaiters
<1>6. \A l \in Lines : l \in InHand => l \in InHand'
  BY <1>1, <1>4, <1>5, TakenFacts DEF InHand
<1>7. \A i \in DOMAIN queue' : \E j \in DOMAIN queue :
          queue'[i] = queue[j] /\ \A l \in Lines : l \in Behind(j) => l \in Behind(i)'
  <2> SUFFICES ASSUME NEW i \in DOMAIN queue'
               PROVE  \E j \in DOMAIN queue :
                          queue'[i] = queue[j] /\ \A l \in Lines : l \in Behind(j) => l \in Behind(i)'
    OBVIOUS
  <2>1. i + 1 \in DOMAIN queue /\ queue'[i] = queue[i + 1]
    BY <1>1, TakenFacts
  <2>2. {queue[j] : j \in 1..((i + 1) - 1)}
            \subseteq {Head(queue)} \cup {queue'[j] : j \in 1..(i - 1)}
    BY <1>1, TakenFacts
  <2>3. \A l \in Lines : l \in Behind(i + 1) => l \in Behind(i)'
    BY <1>1, <1>4, <1>5, <2>2 DEF Behind
  <2> QED BY <2>1, <2>3
<1>8. ASSUME NEW w \in Waiters
      PROVE  \/ flush'[w] = flush[w]
             \/ /\ flush[w] \in {"sink", "done"} /\ flush'[w] = "done"
                /\ \A m \in Awaited(w) : Dealt(m, InFile)
  <2>1. CASE w # Head(queue)
    BY <1>1, <2>1 DEF TypeOK
  <2>2. CASE w = Head(queue)
    <3>1. 1 \in DOMAIN queue /\ w = queue[1]
      BY <1>1, <2>2, TakenFacts, TailFacts DEF Taking, TypeOK
    <3>2. flush[w] \in {"sink", "done"} /\ \A m \in Awaited(w) : Dealt(m, Behind(1))
      BY <3>1 DEF QueuedBehind
    <3>3. Behind(1) = InFile
      BY <1>2 DEF Behind
    <3>4. flush'[w] = "done"
      BY <1>1, <2>2 DEF TypeOK
    <3> QED BY <3>2, <3>3, <3>4
  <2> QED BY <2>1, <2>2
<1> QED BY <1>1, <1>3, <1>4, <1>6, <1>7, <1>8, WriterGoesOn

(* Steps that leave the queue and the flushes alone. *)
LEMMA QueueStays ==
    ASSUME KeptInv, TypeOK', WriterHolds', UNCHANGED <<emitVars, queue, due, flush, closing>>,
           InFile \subseteq InFile', InFile \cup current \subseteq InFile' \cup current'
    PROVE  KeptInv'
<1>1. \A l \in Lines : l \in InHand => l \in InHand'
  BY DEF InHand
<1>2. \A i : Behind(i) \subseteq Behind(i)'
  BY DEF Behind
<1>3. \A i \in DOMAIN queue' : \E j \in DOMAIN queue :
          queue'[i] = queue[j] /\ \A l \in Lines : l \in Behind(j) => l \in Behind(i)'
  BY <1>2
<1>4. UNCHANGED <<emitVars, due, closing>> /\ \A w \in Waiters : flush'[w] = flush[w]
  OBVIOUS
<1> QED BY <1>1, <1>3, <1>4, WriterGoesOn

LEMMA InitEndsStep == ASSUME KeptInv, InitEnds PROVE KeptInv'
<1>1. /\ writer' = "append" /\ flying' = current
      /\ UNCHANGED <<emitVars, how, level, pc, hookRuns, queue, offered, initialized, current,
                     file, failed, flush, due, closing>>
  BY DEF InitEnds, emitVars, flushVars
<1>2. TypeOK' /\ WriterHolds'
  BY <1>1 DEF KeptInv, TypeOK, WriterHolds
<1>3. InFile' = InFile /\ current' = current
  BY <1>1 DEF InFile
<1> QED BY <1>1, <1>2, <1>3, QueueStays

LEMMA AppendEndsStep == ASSUME KeptInv, NEW l \in Lines, AppendEnds(l) PROVE KeptInv'
<1>1. /\ l \in flying /\ flying' = flying \ {l} /\ current' = current \ {l}
      /\ UNCHANGED <<emitVars, how, level, pc, hookRuns, queue, offered, initialized,
                     flush, due, closing>>
      /\ writer' = IF writer = "append" /\ current' = {} THEN "idle" ELSE writer
      /\ \/ file' = Append(file, l) /\ failed' = failed
         \/ failed' = failed \cup {l} /\ file' = file
  BY DEF AppendEnds, emitVars, flushVars
<1>2. file' \in Seq(Lines) /\ failed' \subseteq Lines /\ InFile' = InFile \cup {l}
  <2>1. file \in Seq(Lines) /\ failed \subseteq Lines
    BY DEF KeptInv, TypeOK
  <2>2. Append(file, l) \in Seq(Lines) /\ ToSet(Append(file, l)) = ToSet(file) \cup {l}
    BY <2>1, AppendFacts
  <2> QED BY <1>1, <2>1, <2>2 DEF InFile
<1>3. TypeOK' /\ WriterHolds'
  <2>1. TypeOK'
    BY <1>1, <1>2 DEF KeptInv, TypeOK
  <2>2. WriterHolds'
    BY <1>1 DEF KeptInv, TypeOK, WriterHolds
  <2> QED BY <2>1, <2>2
<1>4. InFile \subseteq InFile' /\ InFile \cup current \subseteq InFile' \cup current'
  BY <1>1, <1>2
<1> QED BY <1>1, <1>3, <1>4, QueueStays

(* The flush is answered, so that the writer owes the scope nothing. *)
LEMMA CloseStopsStep == ASSUME KeptInv, CloseStops PROVE KeptInv'
<1> USE DEF KeptInv
<1>1. /\ closing = "flushing" /\ flush[Scope] = "done" /\ closing' = "stopped"
      /\ writer' = "dead"
      /\ UNCHANGED <<emitVars, how, level, pc, hookRuns, queue, offered, initialized, current,
                     flying, file, failed, flush, due>>
  BY DEF CloseStops, emitVars
<1>2. TypeOK' /\ WriterHolds' /\ ScopeFlush'
  BY <1>1 DEF TypeOK, WriterHolds, ScopeFlush
<1>3. LinesBegin'
  BY <1>1, LinesStay
<1>4. Kept' /\ HooksAwaited'
  BY <1>1 DEF Kept, HooksAwaited, InHand, InFile, Passes, InSet
<1>5. QueuedBehind' /\ Answered'
  BY <1>1 DEF QueuedBehind, Answered, Behind, InFile, Dealt, Passes, Awaited, HooksOf
<1> QED BY <1>2, <1>3, <1>4, <1>5

-----------------------------------------------------------------------------
(* Flushing *)

LEMMA FlushBeginsStep == ASSUME KeptInv, NEW f \in Flushers, FlushBegins(f) PROVE KeptInv'
<1> USE DEF KeptInv
<1>1. /\ flush[f] = "idle" /\ flush' = [flush EXCEPT ![f] = "hooks"]
      /\ due' = [due EXCEPT ![f] = {l \in Lines : pc[l] = "done" \/ InSet(l)}]
      /\ UNCHANGED <<emitVars, how, level, pc, hookRuns, queue, offered, initialized, writer,
                     current, flying, file, failed, closing>>
  BY DEF FlushBegins, emitVars, writerVars
<1>2. f \in Waiters /\ f # Scope
  BY LinesAreNotWaiters DEF Waiters
<1>3. /\ flush' \in [Waiters -> {"idle", "hooks", "sink", "done"}]
      /\ due' \in [Waiters -> SUBSET Lines]
      /\ flush'[f] = "hooks" /\ due'[f] = {l \in Lines : pc[l] = "done" \/ InSet(l)}
      /\ \A w \in Waiters : w # f => flush'[w] = flush[w] /\ due'[w] = due[w]
  BY <1>1, <1>2 DEF TypeOK
<1>4. TypeOK' /\ WriterHolds' /\ LinesBegin' /\ Kept'
  <2>1. TypeOK' /\ WriterHolds'
    BY <1>1, <1>3 DEF TypeOK, WriterHolds
  <2>2. Kept'
    BY <1>1 DEF Kept, InHand, InFile, Passes
  <2> QED BY <1>1, <2>1, <2>2, LinesStay
<1>5. ScopeFlush'
  BY <1>1, <1>2, <1>3 DEF ScopeFlush, Waiters
<1>6. HooksAwaited'
  <2> SUFFICES ASSUME NEW g \in Flushers, flush'[g] = "hooks", NEW l \in due'[g]
               PROVE  pc[l] \in {"done", "lost"} \/ InSet(l)
    BY <1>1, LinesStay DEF HooksAwaited
  <2>1. g \in Waiters
    BY DEF Waiters
  <2> QED BY <1>3, <2>1 DEF HooksAwaited
<1>7. QueuedBehind'
  <2> SUFFICES ASSUME NEW i \in DOMAIN queue, NEW w \in Waiters, w = queue[i]
               PROVE  flush'[w] \in {"sink", "done"} /\ \A m \in Awaited(w)' : Dealt(m, Behind(i))'
    BY <1>1 DEF QueuedBehind
  <2>1. flush[w] \in {"sink", "done"} /\ \A m \in Awaited(w) : Dealt(m, Behind(i))
    BY DEF QueuedBehind
  <2>2. w # f
    BY <1>1, <2>1
  <2>3. Behind(i)' = Behind(i) /\ Awaited(w)' = Awaited(w)
    <3>1. Behind(i)' = Behind(i)
      BY <1>1 DEF Behind, InFile
    <3>2. due'[w] = due[w] /\ UNCHANGED emitVars
      BY <1>1, <1>3, <2>2
    <3> QED BY <3>1, <3>2, LinesStay
  <2>4. flush'[w] = flush[w] /\ pc' = pc /\ \A l : Passes(l)' <=> Passes(l)
    BY <1>1, <1>3, <2>2, LinesStay
  <2> QED BY <2>1, <2>3, <2>4 DEF Dealt
<1>8. Answered'
  <2> SUFFICES ASSUME NEW w \in Waiters, flush'[w] = "done"
               PROVE  \A m \in Awaited(w)' : Dealt(m, InFile)'
    BY DEF Answered
  <2>1. w # f /\ flush[w] = "done"
    BY <1>3
  <2>2. InFile' = InFile /\ Awaited(w)' = Awaited(w)
    BY <1>1, <1>3, <2>1, LinesStay DEF InFile
  <2> QED BY <1>1, <2>1, <2>2 DEF Answered, Dealt, Passes
<1> QED BY <1>4, <1>5, <1>6, <1>7, <1>8

(* A waiter that joins the queue is behind all that it waits for. *)
LEMMA JoinsQueue ==
    ASSUME KeptInv, TypeOK', ScopeFlush', NEW w \in Waiters, queue' = Append(queue, w),
           UNCHANGED <<emitVars, writer, current, file, failed>>,
           flush[w] \in {"idle", "hooks"}, flush'[w] = "sink",
           \A v \in Waiters : v # w => flush'[v] = flush[v] /\ due'[v] = due[v],
           \A m \in Awaited(w)' : pc[m] \in {"done", "lost"}
    PROVE  KeptInv'
<1> USE DEF KeptInv
<1>0. queue \in Seq(Lines \cup Waiters) /\ w \in Lines \cup Waiters
  BY DEF TypeOK
<1>1. /\ Len(queue) \in Nat /\ DOMAIN queue = 1..Len(queue)
      /\ DOMAIN queue' = 1..(Len(queue) + 1)
      /\ \A j \in 1..Len(queue) : queue'[j] = queue[j]
      /\ queue'[Len(queue) + 1] = w
  BY <1>0, AppendFacts
<1>2. /\ UNCHANGED <<how, level, pc, hookRuns>>
      /\ \A l : (Passes(l)' <=> Passes(l)) /\ (InSet(l)' <=> InSet(l))
      /\ LinesBegin'
      /\ \A v \in Waiters : v # w => Awaited(v)' = Awaited(v)
  BY LinesStay
<1>3. InFile' = InFile
  BY DEF InFile
<1>4. WriterHolds'
  BY DEF WriterHolds
<1>5. InHand \subseteq InHand'
  <2>1. \A j \in DOMAIN queue : j \in DOMAIN queue' /\ queue'[j] = queue[j]
    BY <1>1
  <2> QED BY <1>3, <2>1 DEF InHand
<1>6. Kept'
  BY <1>2, <1>5 DEF Kept
<1>7. HooksAwaited'
  <2> SUFFICES ASSUME NEW f \in Flushers, flush'[f] = "hooks", NEW l \in due'[f]
               PROVE  pc[l] \in {"done", "lost"} \/ InSet(l)
    BY <1>2 DEF HooksAwaited
  <2>1. f \in Waiters /\ f # w
    BY DEF Waiters
  <2> QED BY <2>1 DEF HooksAwaited
<1>8. Answered'
  <2> SUFFICES ASSUME NEW v \in Waiters, flush'[v] = "done"
               PROVE  \A m \in Awaited(v)' : Dealt(m, InFile)'
    BY DEF Answered
  <2>1. v # w /\ flush[v] = "done"
    OBVIOUS
  <2> QED BY <1>2, <1>3, <2>1 DEF Answered, Dealt
<1>9. QueuedBehind'
  <2> SUFFICES ASSUME NEW i \in DOMAIN queue', NEW v \in Waiters, v = queue'[i]
               PROVE  flush'[v] \in {"sink", "done"} /\ \A m \in Awaited(v)' : Dealt(m, Behind(i))'
    BY DEF QueuedBehind
  <2>1. CASE i \in DOMAIN queue
    <3>1. v = queue[i] /\ \A j \in 1..(i - 1) : queue'[j] = queue[j]
      BY <1>1, <2>1
    <3>2. Behind(i)' = Behind(i)
      BY <1>3, <3>1 DEF Behind
    <3>3. flush[v] \in {"sink", "done"} /\ \A m \in Awaited(v) : Dealt(m, Behind(i))
      BY <2>1, <3>1 DEF QueuedBehind
    <3>4. v # w
      BY <3>3
    <3> QED BY <1>2, <3>2, <3>3, <3>4 DEF Dealt
  <2>2. CASE i \notin DOMAIN queue
    <3>1. i = Len(queue) + 1 /\ v = w
      BY <1>1, <2>2
    <3>2. \A j \in DOMAIN queue : j \in 1..(i - 1) /\ queue'[j] = queue[j]
      BY <1>1, <3>1
    <3>3. InHand \subseteq Behind(i)'
      BY <1>3, <3>2 DEF InHand, Behind
    <3>4. \A m \in Awaited(w)' : m \in Lines /\ pc[m] \in {"done", "lost"}
      BY DEF Awaited
    <3>5. \A m \in Awaited(w)' : pc[m] = "done" /\ Passes(m) => m \in InHand
      BY <3>4 DEF Kept
    <3> QED BY <1>2, <3>1, <3>3, <3>4, <3>5 DEF Dealt
  <2> QED BY <2>1, <2>2
<1> QED BY <1>2, <1>4, <1>6, <1>7, <1>8, <1>9

LEMMA FlushSinksStep == ASSUME KeptInv, NEW f \in Flushers, FlushSinks(f) PROVE KeptInv'
<1> USE DEF KeptInv
<1>1. /\ flush[f] = "hooks" /\ FiberSet = {} /\ flush' = [flush EXCEPT ![f] = "sink"]
      /\ queue' = Append(queue, f)
      /\ UNCHANGED <<emitVars, how, level, pc, hookRuns, offered, initialized, writer,
                     current, flying, file, failed, due, closing>>
  BY DEF FlushSinks, emitVars, writerVars
<1>2. f \in Waiters /\ f # Scope
  BY LinesAreNotWaiters DEF Waiters
<1>3. /\ flush' \in [Waiters -> {"idle", "hooks", "sink", "done"}]
      /\ flush'[f] = "sink"
      /\ \A w \in Waiters : w # f => flush'[w] = flush[w]
  BY <1>1, <1>2 DEF TypeOK
<1>4. TypeOK'
  <2>1. queue \in Seq(Lines \cup Waiters) /\ f \in Lines \cup Waiters
    BY <1>2 DEF TypeOK
  <2>2. queue' \in Seq(Lines \cup Waiters)
    BY <1>1, <2>1, AppendFacts
  <2> QED BY <1>1, <1>3, <2>2 DEF TypeOK
<1>5. ScopeFlush'
  BY <1>1, <1>2, <1>3 DEF ScopeFlush, Waiters
<1>6. \A l \in Lines : ~InSet(l)
  BY <1>1 DEF FiberSet
<1>7. ASSUME NEW m \in Awaited(f) PROVE pc[m] \in {"done", "lost"}
  <2>1. m \in Lines
    BY DEF Awaited
  <2>2. CASE m \in due[f]
    BY <2>1, <2>2, <1>1, <1>6 DEF HooksAwaited
  <2>3. CASE m \notin due[f]
    <3>1. m[2] = "hook" /\ hookRuns[m[1]] > 0
      BY <2>3 DEF Awaited, HooksOf
    <3>2. m = Hook(m[1]) /\ m[1] \in Emissions
      BY <2>1, <3>1, LineFacts
    <3>3. pc[m] \in {"sink", "done", "lost"}
      BY <3>1, <3>2 DEF LinesBegin
    <3> QED BY <2>1, <3>1, <3>3, <1>6 DEF InSet, Live
  <2> QED BY <2>2, <2>3
<1>8. Awaited(f)' = Awaited(f)
  BY <1>1, LinesStay
<1> QED BY <1>1, <1>2, <1>3, <1>4, <1>5, <1>7, <1>8, JoinsQueue

LEMMA CloseBeginsStep == ASSUME KeptInv, CloseBegins PROVE KeptInv'
<1> USE DEF KeptInv
<1>1. /\ closing = "open" /\ closing' = "flushing"
      /\ flush' = [flush EXCEPT ![Scope] = "sink"]
      /\ due' = [due EXCEPT ![Scope] = {l \in Lines : pc[l] = "done"}]
      /\ queue' = Append(queue, Scope)
      /\ UNCHANGED <<emitVars, how, level, pc, hookRuns, offered, initialized, writer,
                     current, flying, file, failed>>
  BY DEF CloseBegins, emitVars, writerVars
<1>2. Scope \in Waiters /\ flush[Scope] = "idle"
  BY <1>1 DEF Waiters, ScopeFlush
<1>3. /\ flush' \in [Waiters -> {"idle", "hooks", "sink", "done"}]
      /\ due' \in [Waiters -> SUBSET Lines]
      /\ flush'[Scope] = "sink" /\ due'[Scope] = {l \in Lines : pc[l] = "done"}
      /\ \A w \in Waiters : w # Scope => flush'[w] = flush[w] /\ due'[w] = due[w]
  BY <1>1, <1>2 DEF TypeOK
<1>4. TypeOK'
  <2>1. queue \in Seq(Lines \cup Waiters) /\ Scope \in Lines \cup Waiters
    BY <1>2 DEF TypeOK
  <2>2. queue' \in Seq(Lines \cup Waiters)
    BY <1>1, <2>1, AppendFacts
  <2> QED BY <1>1, <1>3, <2>2 DEF TypeOK
<1>5. ScopeFlush'
  BY <1>1, <1>3 DEF ScopeFlush
<1>6. \A m \in Awaited(Scope)' : pc[m] = "done"
  BY <1>3 DEF Awaited, HooksOf
<1> QED BY <1>1, <1>2, <1>3, <1>4, <1>5, <1>6, JoinsQueue

-----------------------------------------------------------------------------
LEMMA KeptInitial == Init => KeptInv
<1> SUFFICES ASSUME Init PROVE KeptInv
  OBVIOUS
<1>1. TypeOK
  <2>1. /\ how \in [Emissions -> {"none", "emit", "unsafe"}]
        /\ level \in [Emissions -> {"quiet", "loud", "error"}]
        /\ pc \in [Lines -> LinePC] /\ hookRuns \in [Emissions -> 0..1]
    BY DEF Init, LinePC
  <2>2. /\ flush \in [Waiters -> {"idle", "hooks", "sink", "done"}]
        /\ due \in [Waiters -> SUBSET Lines]
    BY DEF Init
  <2>3. /\ queue \in Seq(Lines \cup Waiters) /\ offered \in Seq(Lines) /\ file \in Seq(Lines)
    BY DEF Init
  <2>4. initialized \in BOOLEAN
    BY DEF Init
  <2>5. /\ writer = "idle" /\ closing = "open"
        /\ flying = {} /\ current = {} /\ failed = {}
    BY DEF Init
  <2> QED BY <2>1, <2>2, <2>3, <2>4, <2>5 DEF TypeOK
<1>2. LinesBegin
  BY LineFacts DEF Init, LinesBegin
<1>3. queue = <<>> /\ DOMAIN queue = {}
  BY DEF Init
<1>4. WriterHolds /\ QueuedBehind
  BY <1>3 DEF Init, WriterHolds, QueuedBehind
<1>5. Kept
  BY DEF Init, Kept
<1>6. HooksAwaited /\ Answered /\ ScopeFlush
  BY DEF Init, HooksAwaited, Answered, ScopeFlush, Waiters
<1> QED BY <1>1, <1>2, <1>4, <1>5, <1>6 DEF KeptInv

LEMMA KeptStep == KeptInv /\ [Next]_vars => KeptInv'
<1> SUFFICES ASSUME KeptInv, [Next]_vars PROVE KeptInv'
  OBVIOUS
<1>1. CASE Next
  <2>1. CASE \E e \in Emissions : Emit(e) \/ EmitUnsafe(e) \/ EmitInterrupted(e)
    BY <2>1, EmitStep, EmitInterruptedStep
  <2>2. CASE \E l \in Lines : Emitting(l)
    BY <2>2, TapEndsStep, WriteSinkStep, StartHookStep DEF Emitting
  <2>3. CASE \E f \in Flushers : FlushBegins(f) \/ FlushSinks(f)
    BY <2>3, FlushBeginsStep, FlushSinksStep
  <2>4. CASE Writing
    BY <2>4, TakesLineStep, InitEndsStep, TakesFlushStep, AppendEndsStep DEF Writing
  <2>5. CASE CloseBegins \/ Closing
    BY <2>5, CloseBeginsStep, CloseStopsStep, CloseClearsStep DEF Closing
  <2> QED BY <1>1, <2>1, <2>2, <2>3, <2>4, <2>5 DEF Next
<1>2. CASE UNCHANGED vars
  <2>1. /\ UNCHANGED <<emitVars, queue, due, flush, closing, current, file, failed, writer>>
        /\ UNCHANGED <<how, level, pc, hookRuns, offered, initialized, flying>>
    BY <1>2 DEF vars, emitVars
  <2>2. TypeOK' /\ WriterHolds'
    BY <2>1 DEF KeptInv, TypeOK, WriterHolds
  <2>3. InFile' = InFile
    BY <2>1 DEF InFile
  <2> QED BY <2>1, <2>2, <2>3, QueueStays
<1> QED BY <1>1, <1>2

(* Logger.flush "waits for every hook fiber started so far and for every    *)
(* sink's buffer", and "the sink's scope flushes before it closes": what a  *)
(* flush or the closing is to wait for is in the file, or its append has    *)
(* failed, when the wait is over, however many emissions, hooks and flushes *)
(* there are.                                                               *)
THEOREM NoLineIsLost == Spec => []LinesAreKept
<1>1. KeptInv => LinesAreKept
  <2> SUFFICES ASSUME KeptInv PROVE LinesAreKept
    OBVIOUS
  <2>1. \A l : Settled(l) <=> Dealt(l, InFile)
    BY DEF Settled, Dealt, InFile
  <2>2. FlushWaits
    <3> SUFFICES ASSUME NEW f \in Flushers, flush[f] = "done", NEW l \in due[f]
                 PROVE  Settled(l) /\ (hookRuns[l[1]] > 0 => Settled(Hook(l[1])))
      BY DEF FlushWaits
    <3>1. f \in Waiters /\ f # Scope /\ l \in Lines
      BY LinesAreNotWaiters DEF Waiters, KeptInv, TypeOK
    <3>2. l \in Awaited(f)
      BY <3>1 DEF Awaited
    <3>3. hookRuns[l[1]] > 0 => Hook(l[1]) \in Awaited(f)
      BY <3>1, LineFacts DEF Awaited, HooksOf
    <3> QED BY <2>1, <3>1, <3>2, <3>3 DEF KeptInv, Answered
  <2>3. CloseKeeps
    <3> SUFFICES ASSUME closing \in {"stopped", "closed"}, NEW l \in due[Scope]
                 PROVE  Settled(l)
      BY DEF CloseKeeps
    <3>1. Scope \in Waiters /\ flush[Scope] = "done" /\ l \in Awaited(Scope)
      BY DEF KeptInv, ScopeFlush, Waiters, Awaited, TypeOK
    <3> QED BY <2>1, <3>1 DEF KeptInv, Answered
  <2> QED BY <2>2, <2>3 DEF LinesAreKept, KeptInv
<1> QED BY <1>1, KeptInitial, KeptStep, PTL DEF Spec

-----------------------------------------------------------------------------
(* The order of the file *)

(* A line that is queued comes after every line that was. *)
LEMMA OfferFacts ==
    ASSUME TypeOK, NEW l \in Lines, offered' = Append(offered, l)
    PROVE  /\ \A a, b : Before(a, b) => Before(a, b)'
           /\ \A a \in ToSet(offered) : Before(a, l)'
           /\ ToSet(offered') = ToSet(offered) \cup {l}
<1>1. /\ Len(offered) \in Nat /\ DOMAIN offered = 1..Len(offered)
      /\ DOMAIN offered' = 1..(Len(offered) + 1)
      /\ \A i \in 1..Len(offered) : offered'[i] = offered[i]
      /\ offered'[Len(offered) + 1] = l
      /\ ToSet(offered') = ToSet(offered) \cup {l}
  BY AppendFacts DEF TypeOK
<1>2. ASSUME NEW a, NEW b, Before(a, b) PROVE Before(a, b)'
  <2>1. PICK m \in DOMAIN offered, n \in DOMAIN offered :
            m < n /\ offered[m] = a /\ offered[n] = b
    BY <1>2 DEF Before
  <2>2. /\ m \in DOMAIN offered' /\ n \in DOMAIN offered'
        /\ offered'[m] = a /\ offered'[n] = b
    BY <1>1, <2>1
  <2> QED BY <2>1, <2>2 DEF Before
<1>3. ASSUME NEW a \in ToSet(offered) PROVE Before(a, l)'
  <2>1. PICK m \in DOMAIN offered : offered[m] = a
    BY DEF ToSet
  <2>2. /\ m \in DOMAIN offered' /\ Len(offered) + 1 \in DOMAIN offered'
        /\ m < Len(offered) + 1
        /\ offered'[m] = a /\ offered'[Len(offered) + 1] = l
    BY <1>1, <2>1
  <2> QED BY <2>2 DEF Before
<1> QED BY <1>1, <1>2, <1>3

LEMMA SinkKeepsOrder ==
    ASSUME KeptInv, OrderInv, NEW l \in Lines, WriteSink(l) PROVE OrderInv'
<1> USE DEF KeptInv, OrderInv
<1>1. UNCHANGED <<current, file>>
  BY DEF WriteSink, writerVars
<1>2. CASE UNCHANGED <<queue, offered>>
  <2>1. \A a, b : Before(a, b)' <=> Before(a, b)
    BY <1>2 DEF Before
  <2> QED BY <1>1, <1>2, <2>1 DEF Offered, Ordered, Waiting
<1>3. CASE queue' = Append(queue, l) /\ offered' = Append(offered, l)
  <2>1. /\ \A a, b : Before(a, b) => Before(a, b)'
        /\ \A a \in ToSet(offered) : Before(a, l)'
        /\ ToSet(offered') = ToSet(offered) \cup {l}
    BY <1>3, OfferFacts
  <2>2. /\ Len(queue) \in Nat /\ DOMAIN queue = 1..Len(queue)
        /\ DOMAIN queue' = 1..(Len(queue) + 1)
        /\ \A j \in 1..Len(queue) : queue'[j] = queue[j]
        /\ queue'[Len(queue) + 1] = l
        /\ Waiting' = Waiting \cup {l}
    <3>1. queue \in Seq(Lines \cup Waiters) /\ l \in Lines \cup Waiters
      BY DEF TypeOK
    <3>2. ToSet(queue') = ToSet(queue) \cup {l}
      BY <3>1, <1>3, AppendFacts
    <3> QED BY <3>1, <3>2, <1>3, AppendFacts DEF Waiting
  <2>3. Offered'
    BY <1>1, <2>1, <2>2 DEF Offered
  <2>4. /\ \A i, j \in DOMAIN file', a, b \in Lines :
            i < j /\ file'[i] = a /\ file'[j] = b => Before(a, b)'
        /\ \A a \in ToSet(file'), b \in current' \cup Waiting' : Before(a, b)'
        /\ \A a \in current', b \in Waiting' : Before(a, b)'
    BY <1>1, <2>1, <2>2 DEF Offered, Ordered
  <2>5. ASSUME NEW i \in DOMAIN queue', NEW j \in DOMAIN queue', NEW a \in Lines, NEW b \in Lines,
               i < j, queue'[i] = a, queue'[j] = b
        PROVE  Before(a, b)'
    <3>1. i \in DOMAIN queue /\ queue[i] = a
      BY <2>2, <2>5
    <3>2. CASE j \in DOMAIN queue
      BY <2>1, <2>2, <2>5, <3>1, <3>2 DEF Ordered
    <3>3. CASE j \notin DOMAIN queue
      <4>1. b = l
        BY <2>2, <2>5, <3>3
      <4>2. a \in ToSet(offered)
        BY <3>1 DEF Offered, Waiting, ToSet
      <4> QED BY <2>1, <4>1, <4>2
    <3> QED BY <3>2, <3>3
  <2> QED BY <2>3, <2>4, <2>5 DEF Ordered
<1> QED BY <1>2, <1>3 DEF WriteSink

(* Elsewhere nothing is offered: the order of what is in hand is as it was. *)
LEMMA NothingOffered ==
    ASSUME UNCHANGED offered
    PROVE  /\ \A a, b : Before(a, b)' <=> Before(a, b)
           /\ ToSet(offered') = ToSet(offered)
  BY DEF Before

LEMMA TakingKeepsOrder ==
    ASSUME KeptInv, OrderInv, TakesLine \/ TakesFlush PROVE OrderInv'
<1> USE DEF KeptInv, OrderInv
<1>1. Taking /\ writer = "idle" /\ UNCHANGED <<offered, file>>
  BY DEF Taking, TakesLine, TakesFlush, writerVars
<1>2. current = {}
  BY <1>1 DEF WriterHolds
<1>3. \/ Head(queue) \in Lines /\ current' = {Head(queue)}
      \/ Head(queue) \in Waiters /\ current' = current
  BY DEF TakesLine, TakesFlush, writerVars
<1>4. /\ \A a, b : Before(a, b)' <=> Before(a, b)
      /\ ToSet(offered') = ToSet(offered)
  BY <1>1, NothingOffered
<1>5. /\ Len(queue) \in Nat /\ DOMAIN queue = 1..Len(queue) /\ 1 \in DOMAIN queue
      /\ \A i \in DOMAIN queue' : queue'[i] = queue[i + 1] /\ i + 1 \in DOMAIN queue
      /\ DOMAIN queue' = 1..(Len(queue) - 1)
  BY <1>1, TakenFacts
<1>6. Head(queue) = queue[1]
  BY <1>1, TailFacts DEF TypeOK, Taking
<1>7. current' \cup Waiting' \subseteq Waiting
  <2>1. ToSet(queue') \subseteq ToSet(queue)
    BY <1>5 DEF ToSet
  <2>2. current' \subseteq Waiting
    BY <1>2, <1>3, <1>5, <1>6 DEF Waiting, ToSet
  <2> QED BY <2>1, <2>2 DEF Waiting
<1>8. Offered'
  BY <1>1, <1>4, <1>7 DEF Offered
<1>9. /\ \A i, j \in DOMAIN file', a, b \in Lines :
          i < j /\ file'[i] = a /\ file'[j] = b => Before(a, b)'
      /\ \A a \in ToSet(file'), b \in current' \cup Waiting' : Before(a, b)'
  BY <1>1, <1>4, <1>7 DEF Ordered
<1>10. ASSUME NEW a \in current', NEW b \in Waiting' PROVE Before(a, b)'
  <2>1. a = queue[1] /\ a \in Lines
    BY <1>2, <1>3, <1>6
  <2>2. PICK j \in DOMAIN queue' : queue'[j] = b
    BY DEF Waiting, ToSet
  <2>3. j + 1 \in DOMAIN queue /\ queue[j + 1] = b /\ 1 < j + 1 /\ b \in Lines
    BY <1>5, <2>2 DEF Waiting
  <2> QED BY <1>4, <1>5, <2>1, <2>3 DEF Ordered
<1>11. ASSUME NEW i \in DOMAIN queue', NEW j \in DOMAIN queue', NEW a \in Lines, NEW b \in Lines,
              i < j, queue'[i] = a, queue'[j] = b
       PROVE  Before(a, b)'
  <2>1. /\ i + 1 \in DOMAIN queue /\ j + 1 \in DOMAIN queue /\ i + 1 < j + 1
        /\ queue[i + 1] = a /\ queue[j + 1] = b
    BY <1>5, <1>11
  <2> QED BY <1>4, <2>1 DEF Ordered
<1> QED BY <1>8, <1>9, <1>10, <1>11 DEF Ordered

LEMMA AppendKeepsOrder ==
    ASSUME KeptInv, OrderInv, NEW l \in Lines, AppendEnds(l) PROVE OrderInv'
<1> USE DEF KeptInv, OrderInv
<1>1. /\ l \in current /\ current' = current \ {l} /\ UNCHANGED <<offered, queue>>
      /\ file' = file \/ file' = Append(file, l)
  BY DEF AppendEnds, TypeOK
<1>2. current' = {}
  BY <1>1 DEF WriterHolds
<1>3. /\ \A a, b : Before(a, b)' <=> Before(a, b)
      /\ ToSet(offered') = ToSet(offered)
  BY <1>1, NothingOffered
<1>4. Waiting' = Waiting
  BY <1>1 DEF Waiting
<1>5. CASE file' = file
  BY <1>1, <1>2, <1>3, <1>4, <1>5 DEF Offered, Ordered
<1>6. CASE file' = Append(file, l)
  <2>1. /\ Len(file) \in Nat /\ DOMAIN file = 1..Len(file)
        /\ DOMAIN file' = 1..(Len(file) + 1)
        /\ \A j \in 1..Len(file) : file'[j] = file[j]
        /\ file'[Len(file) + 1] = l
        /\ ToSet(file') = ToSet(file) \cup {l}
    BY <1>6, AppendFacts DEF TypeOK
  <2>2. Offered'
    BY <1>1, <1>2, <1>3, <1>4, <2>1 DEF Offered
  <2>3. ASSUME NEW i \in DOMAIN file', NEW j \in DOMAIN file', NEW a \in Lines, NEW b \in Lines,
               i < j, file'[i] = a, file'[j] = b
        PROVE  Before(a, b)
    <3>1. i \in DOMAIN file /\ file[i] = a
      BY <2>1, <2>3
    <3>2. CASE j \in DOMAIN file
      BY <2>1, <2>3, <3>1, <3>2 DEF Ordered
    <3>3. CASE j \notin DOMAIN file
      <4>1. b = l /\ a \in ToSet(file)
        BY <2>1, <2>3, <3>1, <3>3 DEF ToSet
      <4> QED BY <1>1, <4>1 DEF Ordered
    <3> QED BY <3>2, <3>3
  <2>4. \A a \in ToSet(file'), b \in current' \cup Waiting' : Before(a, b)
    BY <1>1, <1>2, <1>4, <2>1 DEF Ordered
  <2>5. /\ \A a \in current', b \in Waiting' : Before(a, b)
        /\ \A i, j \in DOMAIN queue', a, b \in Lines :
              i < j /\ queue'[i] = a /\ queue'[j] = b => Before(a, b)
    BY <1>1, <1>2 DEF Ordered
  <2> QED BY <1>3, <2>2, <2>3, <2>4, <2>5 DEF Ordered
<1> QED BY <1>1, <1>5, <1>6

(* The other steps touch neither the file nor what the writer has in hand,  *)
(* nor the lines on the queue.                                              *)
LEMMA OthersKeepOrder ==
    ASSUME KeptInv, OrderInv, UNCHANGED <<offered, file, current>>,
           queue' = queue \/ \E w \in Waiters : queue' = Append(queue, w)
    PROVE  OrderInv'
<1> USE DEF KeptInv, OrderInv
<1>1. /\ \A a, b : Before(a, b)' <=> Before(a, b)
      /\ ToSet(offered') = ToSet(offered)
  BY NothingOffered
<1>2. CASE queue' = queue
  BY <1>1, <1>2 DEF Offered, Ordered, Waiting
<1>3. ASSUME NEW w \in Waiters, queue' = Append(queue, w) PROVE OrderInv'
  <2>1. queue \in Seq(Lines \cup Waiters) /\ w \in Lines \cup Waiters
    BY DEF TypeOK
  <2>2. /\ Len(queue) \in Nat /\ DOMAIN queue = 1..Len(queue)
        /\ DOMAIN queue' = 1..(Len(queue) + 1)
        /\ \A j \in 1..Len(queue) : queue'[j] = queue[j]
        /\ queue'[Len(queue) + 1] = w
        /\ ToSet(queue') = ToSet(queue) \cup {w}
    BY <2>1, <1>3, AppendFacts
  <2>3. w \notin Lines
    BY LinesAreNotWaiters
  <2>4. Waiting' = Waiting
    BY <2>2, <2>3 DEF Waiting
  <2>5. \A i \in DOMAIN queue', a \in Lines : queue'[i] = a => i \in DOMAIN queue /\ queue[i] = a
    BY <2>2, <2>3
  <2>6. Offered'
    BY <1>1, <2>4 DEF Offered
  <2> QED BY <1>1, <2>4, <2>5, <2>6 DEF Ordered
<1> QED BY <1>2, <1>3

LEMMA OrderStep == KeptInv /\ OrderInv /\ [Next]_vars => OrderInv'
<1> SUFFICES ASSUME KeptInv, OrderInv, [Next]_vars PROVE OrderInv'
  OBVIOUS
<1>1. CASE \E e \in Emissions : Emit(e) \/ EmitUnsafe(e) \/ EmitInterrupted(e)
  BY <1>1, OthersKeepOrder DEF Emit, EmitUnsafe, EmitInterrupted, writerVars
<1>2. CASE \E l \in Lines : Emitting(l)
  BY <1>2, SinkKeepsOrder, OthersKeepOrder DEF Emitting, TapEnds, StartHook, writerVars
<1>3. CASE \E f \in Flushers : FlushBegins(f) \/ FlushSinks(f)
  BY <1>3, OthersKeepOrder DEF FlushBegins, FlushSinks, writerVars, Waiters
<1>4. CASE Writing
  BY <1>4, TakingKeepsOrder, AppendKeepsOrder, OthersKeepOrder DEF Writing, InitEnds
<1>5. CASE CloseBegins \/ Closing
  BY <1>5, OthersKeepOrder
    DEF CloseBegins, Closing, CloseStops, CloseClears, writerVars, Waiters
<1>6. CASE UNCHANGED vars
  BY <1>6, OthersKeepOrder DEF vars
<1> QED BY <1>1, <1>2, <1>3, <1>4, <1>5, <1>6 DEF Next

(* "Appended through a single writer fiber so lines land in order": the     *)
(* lines of the file were queued in the order of the file, none twice, for  *)
(* any number of fibers that log, whatever appends fail or outlive the      *)
(* writer.                                                                  *)
THEOREM LinesLandInOrder == Spec => []FileInOrder
<1>1. Init => OrderInv
  BY DEF Init, OrderInv, Offered, Ordered, Waiting, ToSet
<1>2. KeptInv /\ OrderInv => FileInOrder
  <2> SUFFICES ASSUME KeptInv, OrderInv, NEW i \in DOMAIN file, NEW j \in DOMAIN file, i < j
               PROVE  \E m, n \in DOMAIN offered :
                          m < n /\ offered[m] = file[i] /\ offered[n] = file[j]
    BY DEF FileInOrder
  <2>1. file[i] \in Lines /\ file[j] \in Lines
    BY DEF KeptInv, TypeOK
  <2>2. Before(file[i], file[j])
    BY <2>1 DEF OrderInv, Ordered
  <2> QED BY <2>2 DEF Before
<1> QED BY <1>1, <1>2, KeptInitial, KeptStep, OrderStep, PTL DEF Spec
==============================================================================
