--------------------------- MODULE FileLockProofs ---------------------------
(***************************************************************************)
(* What is proved of the file lock for every set of acquirers, placement   *)
(* of acquirers in processes and hosts, and choice of bounds:              *)
(*   - its variables keep their types, in any environment;                 *)
(*   - in a calm environment CalmInv is inductive, hence the lock excludes,*)
(*     releases only its own file, and implements Mutex.                   *)
(***************************************************************************)
EXTENDS FileLockCalm, TLAPS

(* A file that is created or rewritten is a file. *)
LEMMA FileWrites ==
    /\ \A a \in Acquirers : EmptyFile(a) \in Files
    /\ \A f \in Files, m \in Metas : Rewritten(f, m) \in Files
    /\ Acquirers \subseteq Metas /\ Nobody \in Metas
<1>1. Acquirers \subseteq Metas /\ Nobody \in Metas
  BY DEF Metas
<1>2. 0 \in 0..AgeCap
  BY LockAssumption
<1> QED BY <1>1, <1>2 DEF EmptyFile, Rewritten, Files

(* What the two opens of an attempt may do: take a free path, or be refused. *)
LEMMA OpenShape ==
    ASSUME NEW a \in Acquirers, Open(a)
    PROVE  /\ pc[a] \in {"create", "recreate"}
           /\ file = NoFile => /\ file' = EmptyFile(a)
                              /\ fd' = [fd EXCEPT ![a] = TRUE]
                              /\ pc' = [pc EXCEPT ![a] = "fill"]
           /\ file # NoFile => /\ file' = file /\ fd' = fd
                              /\ \E l \in {"inspect", "waiting", "idle"} :
                                    pc' = [pc EXCEPT ![a] = l]
BY DEF Open, At, Goto, ResolveNone

LEMMA TypeInit == Init => TypeOK
BY LockAssumption DEF Init, TypeOK, PcValues

(* Every operation keeps the variables in their types. *)
LEMMA TypeStep == TypeOK /\ [Next]_vars => TypeOK'
<1> SUFFICES ASSUME TypeOK, [Next]_vars PROVE TypeOK'
  OBVIOUS
<1> USE LockAssumption
<1>1. ASSUME NEW a \in Acquirers, Step(a) PROVE TypeOK'
  <2> USE DEF TypeOK, Goto, At, PcValues, Attempting, InCritical
  <2>1. CASE Begin(a)
    BY <2>1 DEF Begin
  <2>2. CASE Open(a)
    <3>1. CASE file = NoFile
      <4>1. /\ file' = EmptyFile(a) /\ file' \in Files /\ file' # NoFile
            /\ fd' = [fd EXCEPT ![a] = TRUE] /\ pc' = [pc EXCEPT ![a] = "fill"]
        BY <2>2, <3>1, OpenShape, FileWrites, NoFileAssumption
      <4>2. UNCHANGED <<limit, left, up, crashes>>
        BY <2>2 DEF Open
      <4> QED BY <4>1, <4>2
    <3>2. CASE file # NoFile
      BY <2>2, <3>2, OpenShape DEF Open
    <3> QED BY <3>1, <3>2
  <2>3. CASE Fill(a)
    BY <2>3, FileWrites, NoFileAssumption DEF Fill, WriteThrough
  <2>4. CASE FillFails(a)
    BY <2>4 DEF FillFails
  <2>5. CASE Inspect(a)
    <3>1. LimitFor(a, ReadLockMeta) \in 0..AgeCap
      BY DEF LimitFor
    <3> QED BY <2>5, <3>1 DEF Inspect
  <2>6. CASE Stat(a)
    BY <2>6 DEF Stat, ResolveNone
  <2>7. CASE Reclaim(a)
    BY <2>7 DEF Reclaim, UnlinkPath
  <2>8. CASE Retry(a)
    BY <2>8 DEF Retry
  <2>9. CASE Phase(a)
    BY <2>9, FileWrites, NoFileAssumption DEF Phase
  <2>10. CASE PhaseWrites(a)
    <3>1. file' \in Files \cup {NoFile} /\ (file # NoFile => file' # NoFile)
      BY <2>10, FileWrites, NoFileAssumption DEF PhaseWrites, WriteThrough
    <3> QED BY <2>10, <3>1 DEF PhaseWrites
  <2>11. CASE Release(a)
    BY <2>11 DEF Release
  <2>12. CASE ReleaseUnlinks(a)
    BY <2>12 DEF ReleaseUnlinks, UnlinkPath
  <2>13. CASE OpenFails(a)
    BY <2>13 DEF OpenFails
  <2> QED BY <1>1, <2>1, <2>2, <2>3, <2>4, <2>5, <2>6, <2>7, <2>8, <2>9, <2>10,
             <2>11, <2>12, <2>13 DEF Step, Progress
<1>2. CASE Tick
  <2>1. file' \in Files \cup {NoFile}
    BY <1>2 DEF Tick, TypeOK, Files
  <2>2. left' \in [Acquirers -> Nat]
    BY <1>2 DEF Tick, TypeOK
  <2>3. file' = NoFile <=> file = NoFile
    BY <1>2, NoFileAssumption DEF Tick, TypeOK, Files
  <2> QED BY <1>2, <2>1, <2>2, <2>3 DEF Tick, TypeOK
<1>3. CASE Faults
  <2>1. ASSUME NEW p \in Pids, Crash(p) PROVE TypeOK'
    BY <2>1 DEF Crash, TypeOK, PcValues
  <2>2. ASSUME NEW p \in Pids, Restart(p) PROVE TypeOK'
    BY <2>2 DEF Restart, TypeOK, PcValues
  <2> QED BY <1>3, <2>1, <2>2 DEF Faults
<1>4. CASE UNCHANGED vars
  BY <1>4 DEF vars, TypeOK
<1> QED BY <1>1, <1>2, <1>3, <1>4 DEF Next

(* The variables of the lock keep their types whatever crashes, stalls or   *)
(* fails: the type invariant of every run of FileLock.                      *)
THEOREM TypeCorrect == Spec => []TypeOK
BY TypeInit, TypeStep, PTL DEF Spec

-----------------------------------------------------------------------------
(* The calm environment *)

LEMMA CalmInit == Init => CalmInv
BY LockAssumption DEF Init, CalmInv, HandleOwnsFile, VerdictsAreSound, Timely, SerialReclaim,
       CrashedStop, Handles, InCritical, Judging

(* The descriptor of a write leads to the file or nowhere. *)
LEMMA WriteShape ==
    ASSUME NEW a \in Acquirers, file \in Files, WriteThrough(a)
    PROVE  /\ file' \in Files /\ file'.creator = file.creator
           /\ file' = file \/ (file'.meta = a /\ file'.age = 0)
<1>1. CASE fd[a]
  BY <1>1, FileWrites DEF WriteThrough, Rewritten, Files
<1>2. CASE ~fd[a]
  BY <1>2 DEF WriteThrough
<1> QED BY <1>1, <1>2

(* An acquirer that creates the file, or rewrites the file it has a handle  *)
(* on, keeps the invariant: the file is fresh and its own.                  *)
LEMMA FreshFile ==
    ASSUME TypeOK, CalmInv, SerialReclaim', NEW a \in Acquirers,
           limit' = limit, up' = up, pc[a] \notin Judging \cup {"dead"},
           file = NoFile \/ pc[a] \in Handles,
           NEW l \in Handles, pc' = [pc EXCEPT ![a] = l],
           file' \in Files, file'.creator = a, file'.meta \in {a, Nobody},
           file' = file \/ file'.age = 0
    PROVE  CalmInv'
<1> USE LockAssumption, NoFileAssumption
<1>0. /\ \A b \in Acquirers : limit[b] \in 0..AgeCap
      /\ \A b \in Acquirers : StaleMs[b] \in Nat
      /\ UnreadableMs \in Nat /\ AgeCap \in Nat
  BY DEF TypeOK
<1>1. HandleOwnsFile'
  <2> SUFFICES ASSUME NEW b \in Acquirers, b # a PROVE pc[b] \notin Handles
    BY DEF HandleOwnsFile, TypeOK
  <2> QED BY DEF CalmInv, HandleOwnsFile
<1>2. VerdictsAreSound'
  <2> SUFFICES ASSUME NEW b \in Acquirers
               PROVE  /\ pc'[b] # "reclaim"
                      /\ pc'[b] = "stat" => file'.age <= limit[b]
    BY DEF VerdictsAreSound
  <2>1. pc'[b] # "reclaim" /\ (pc'[b] = "stat" => pc[b] = "stat" /\ b # a)
    BY DEF CalmInv, VerdictsAreSound, HandleOwnsFile, TypeOK, Handles, InCritical
  <2>2. CASE file'.age = 0
    BY <1>0, <2>1, <2>2
  <2>3. CASE file' = file
    BY <2>1, <2>3 DEF CalmInv, VerdictsAreSound, HandleOwnsFile
  <2> QED BY <2>2, <2>3
<1>3. Timely'
  <2>1. CASE file'.age = 0
    BY <1>0, <2>1 DEF Timely, LimitFor
  <2>2. CASE file' = file
    <3>1. pc[file.creator] \in Handles
      BY <2>2 DEF CalmInv, HandleOwnsFile
    <3> QED BY <2>2, <3>1 DEF CalmInv, Timely, LimitFor
  <2> QED BY <2>1, <2>2
<1>4. CrashedStop'
  BY DEF CalmInv, CrashedStop, TypeOK
<1> QED BY <1>1, <1>2, <1>3, <1>4 DEF CalmInv

(* A contender that only moves its program counter, outside the handle's    *)
(* states, keeps the invariant when its verdict, if it has one, is sound.   *)
LEMMA ContenderMoves ==
    ASSUME TypeOK, CalmInv, SerialReclaim', NEW a \in Acquirers,
           file' = file, up' = up, pc[a] # "dead",
           NEW l \in PcValues \ Handles, pc' = [pc EXCEPT ![a] = l],
           \A b \in Acquirers \ {a} : limit'[b] = limit[b],
           l = "reclaim" => file # NoFile /\ pc[file.creator] \notin Handles,
           l = "stat" /\ file # NoFile /\ pc[file.creator] \in Handles =>
               file.age <= limit'[a]
    PROVE  CalmInv'
<1>1. \A b \in Acquirers : pc'[b] = IF b = a THEN l ELSE pc[b]
  BY DEF TypeOK
<1>2. file # NoFile => file.creator \in Acquirers
  BY DEF TypeOK, Files
<1>3. HandleOwnsFile'
  BY <1>1 DEF CalmInv, HandleOwnsFile
<1>4. VerdictsAreSound'
  BY <1>1, <1>2 DEF CalmInv, VerdictsAreSound
<1>5. Timely'
  BY <1>1, <1>2 DEF CalmInv, Timely, LimitFor
<1>6. CrashedStop'
  BY <1>1 DEF CalmInv, CrashedStop
<1> QED BY <1>3, <1>4, <1>5, <1>6 DEF CalmInv

(* Every operation of a calm environment keeps CalmInv. *)
LEMMA CalmStep == TypeOK /\ CalmInv /\ [CalmNext]_vars => CalmInv'
<1> SUFFICES ASSUME TypeOK, CalmInv, [CalmNext]_vars PROVE CalmInv'
  OBVIOUS
<1> USE LockAssumption, NoFileAssumption
<1>0. ASSUME CalmNext PROVE SerialReclaim'
  BY <1>0 DEF CalmNext
<1>1. ASSUME NEW a \in Acquirers, Step(a), SerialReclaim' PROVE CalmInv'
  <2> USE DEF Goto, At, Handles, InCritical, Judging, PcValues, Attempting
  <2>1. CASE Begin(a)
    BY <1>1, <2>1, ContenderMoves DEF Begin
  <2>2. CASE Open(a)
    <3>1. CASE file = NoFile
      <4>1. /\ file'.creator = a /\ file'.meta = Nobody /\ file'.age = 0
            /\ file' \in Files
        BY <2>2, <3>1, OpenShape, FileWrites DEF EmptyFile
      <4>2. /\ pc[a] \in {"create", "recreate"} /\ pc' = [pc EXCEPT ![a] = "fill"]
            /\ limit' = limit /\ up' = up
        BY <2>2, <3>1, OpenShape DEF Open
      <4> QED BY <1>1, <3>1, <4>1, <4>2, FreshFile
    <3>2. CASE file # NoFile
      <4>1. /\ file' = file /\ pc[a] \in {"create", "recreate"}
            /\ limit' = limit /\ up' = up
            /\ \E l \in {"inspect", "waiting", "idle"} : pc' = [pc EXCEPT ![a] = l]
        BY <2>2, <3>2, OpenShape DEF Open
      <4> QED BY <1>1, <3>2, <4>1, ContenderMoves
    <3> QED BY <3>1, <3>2
  <2>3. CASE Fill(a)
    <3>1. /\ file # NoFile /\ file.creator = a /\ pc[a] = "fill"
          /\ file.meta \in {a, Nobody} /\ file \in Files
          /\ pc' = [pc EXCEPT ![a] = "held"] /\ limit' = limit /\ up' = up
      BY <2>3 DEF Fill, CalmInv, HandleOwnsFile, TypeOK
    <3>2. /\ file' \in Files /\ file'.creator = a /\ file'.meta \in {a, Nobody}
          /\ file' = file \/ file'.age = 0
      BY <2>3, <3>1, WriteShape DEF Fill
    <3> QED BY <1>1, <3>1, <3>2, FreshFile
  <2>4. CASE FillFails(a)
    BY <1>1, <2>4, ContenderMoves DEF FillFails
  <2>5. CASE Inspect(a)
    <3>1. CASE HolderDead(a, ReadLockMeta)
      <4>1. file # NoFile /\ pc[file.creator] \notin Handles
        BY <3>1 DEF HolderDead, ReadLockMeta, Files, TypeOK, CalmInv, HandleOwnsFile,
                    CrashedStop
      <4> QED BY <1>1, <2>5, <3>1, <4>1, ContenderMoves DEF Inspect
    <3>2. CASE ~HolderDead(a, ReadLockMeta)
      <4>1. /\ limit' = [limit EXCEPT ![a] = LimitFor(a, ReadLockMeta)]
            /\ pc[a] = "inspect" /\ pc' = [pc EXCEPT ![a] = "stat"]
            /\ file' = file /\ up' = up
        BY <2>5, <3>2 DEF Inspect
      <4>2. limit'[a] = LimitFor(a, ReadLockMeta)
            /\ \A b \in Acquirers \ {a} : limit'[b] = limit[b]
        BY <4>1 DEF TypeOK
      <4>3. file # NoFile /\ pc[file.creator] \in Handles => file.age <= limit'[a]
        BY <4>2 DEF ReadLockMeta, CalmInv, Timely
      <4> QED BY <1>1, <4>1, <4>2, <4>3, ContenderMoves
    <3> QED BY <3>1, <3>2
  <2>6. CASE Stat(a)
    <3>1. CASE file # NoFile /\ file.age > limit[a]
      <4>1. pc[file.creator] \notin Handles
        BY <2>6, <3>1 DEF Stat, Files, TypeOK, CalmInv, VerdictsAreSound
      <4> QED BY <1>1, <2>6, <3>1, <4>1, ContenderMoves DEF Stat
    <3>2. CASE ~(file # NoFile /\ file.age > limit[a])
      <4>1. /\ \E l \in {"waiting", "idle"} : pc' = [pc EXCEPT ![a] = l]
            /\ pc[a] = "stat" /\ file' = file /\ up' = up /\ limit' = limit
        BY <2>6, <3>2 DEF Stat, ResolveNone
      <4> QED BY <1>1, <4>1, ContenderMoves
    <3> QED BY <3>1, <3>2
  <2>7. CASE Reclaim(a)
    <3>1. /\ file' = NoFile /\ up' = up /\ pc[a] = "reclaim"
          /\ pc' = [pc EXCEPT ![a] = "recreate"]
      BY <2>7 DEF Reclaim, UnlinkPath
    <3>2. \A b \in Acquirers : pc'[b] \notin Handles \cup {"reclaim"}
      BY <3>1, <1>1 DEF TypeOK, CalmInv, HandleOwnsFile, VerdictsAreSound, SerialReclaim
    <3> QED BY <1>1, <3>1, <3>2 DEF TypeOK, CalmInv, HandleOwnsFile, VerdictsAreSound,
                                    Timely, CrashedStop
  <2>8. CASE Retry(a)
    BY <1>1, <2>8, ContenderMoves DEF Retry
  <2>9. CASE Phase(a)
    <3>1. /\ file # NoFile /\ file.creator = a /\ pc[a] = "held" /\ file \in Files
          /\ pc' = [pc EXCEPT ![a] = "rewriting"] /\ limit' = limit /\ up' = up
      BY <2>9 DEF Phase, CalmInv, HandleOwnsFile, TypeOK
    <3>2. /\ file' \in Files /\ file'.creator = a
          /\ file'.meta = Nobody /\ file'.age = 0
      BY <2>9, <3>1, FileWrites DEF Phase, Rewritten
    <3> QED BY <1>1, <3>1, <3>2, FreshFile
  <2>10. CASE PhaseWrites(a)
    <3>1. /\ file # NoFile /\ file.creator = a /\ pc[a] = "rewriting"
          /\ file.meta \in {a, Nobody} /\ file \in Files
          /\ pc' = [pc EXCEPT ![a] = "held"] /\ limit' = limit /\ up' = up
      BY <2>10 DEF PhaseWrites, CalmInv, HandleOwnsFile, TypeOK
    <3>2. /\ file' \in Files /\ file'.creator = a /\ file'.meta \in {a, Nobody}
          /\ file' = file \/ file'.age = 0
      BY <2>10, <3>1, WriteShape DEF PhaseWrites
    <3> QED BY <1>1, <3>1, <3>2, FreshFile
  <2>11. CASE Release(a)
    <3>1. CASE ReadLockMeta = a
      BY <1>1, <2>11, <3>1 DEF Release, TypeOK, CalmInv, HandleOwnsFile,
                               VerdictsAreSound, Timely, CrashedStop, LimitFor, Files
    <3>2. CASE ReadLockMeta # a
      BY <1>1, <2>11, <3>2, ContenderMoves DEF Release
    <3> QED BY <3>1, <3>2
  <2>12. CASE ReleaseUnlinks(a)
    <3>1. /\ file' = NoFile /\ up' = up /\ pc[a] = "checked"
          /\ pc' = [pc EXCEPT ![a] = "idle"]
      BY <2>12 DEF ReleaseUnlinks, UnlinkPath
    <3>2. \A b \in Acquirers : pc'[b] \notin Handles \cup {"reclaim"}
      BY <3>1 DEF TypeOK, CalmInv, HandleOwnsFile, VerdictsAreSound
    <3> QED BY <1>1, <3>1, <3>2 DEF TypeOK, CalmInv, HandleOwnsFile, VerdictsAreSound,
                                    Timely, CrashedStop
  <2>13. CASE OpenFails(a)
    BY <1>1, <2>13, ContenderMoves DEF OpenFails
  <2> QED BY <1>1, <2>1, <2>2, <2>3, <2>4, <2>5, <2>6, <2>7, <2>8, <2>9, <2>10,
             <2>11, <2>12, <2>13 DEF Step, Progress
<1>2. CASE PromptTick
  <2>1. /\ file = NoFile => file' = NoFile
        /\ file # NoFile => /\ file' # NoFile /\ file'.creator = file.creator
                            /\ file'.meta = file.meta
    BY <1>2 DEF PromptTick, Tick, TypeOK, Files
  <2>2. /\ pc' = pc /\ up' = up /\ Timely' /\ \A b \in Acquirers : pc[b] \notin Judging
    BY <1>2 DEF PromptTick, Tick
  <2> QED BY <2>1, <2>2 DEF CalmInv, HandleOwnsFile, VerdictsAreSound, SerialReclaim,
                            CrashedStop, Judging
<1>3. ASSUME Faults, SerialReclaim' PROVE CalmInv'
  <2>1. ASSUME NEW p \in Pids, Crash(p) PROVE CalmInv'
    BY <1>3, <2>1 DEF Crash, TypeOK, CalmInv, HandleOwnsFile, VerdictsAreSound,
              Timely, CrashedStop, Handles, InCritical, Files, LimitFor
  <2>2. ASSUME NEW p \in Pids, Restart(p) PROVE CalmInv'
    BY <1>3, <2>2 DEF Restart, TypeOK, CalmInv, HandleOwnsFile, VerdictsAreSound,
              Timely, CrashedStop, Handles, InCritical, Files, LimitFor
  <2> QED BY <1>3, <2>1, <2>2 DEF Faults
<1>4. CASE UNCHANGED vars
  BY <1>4 DEF vars, CalmInv, HandleOwnsFile, VerdictsAreSound, Timely,
              SerialReclaim, CrashedStop, LimitFor
<1> QED BY <1>0, <1>1, <1>2, <1>3, <1>4 DEF CalmNext, PromptNext

LEMMA CalmIsNext == CalmNext => Next
BY DEF CalmNext, PromptNext, PromptTick, Next

LEMMA CalmTypeCorrect == CalmSpec => []TypeOK
<1>1. TypeOK /\ [CalmNext]_vars => TypeOK'
  BY TypeStep, CalmIsNext
<1> QED BY <1>1, TypeInit, PTL DEF CalmSpec

(* In a calm environment every handle keeps its own file at the path, live  *)
(* holders are never judged stale and verdicts on the dead stay sound.      *)
THEOREM CalmInvariant == CalmSpec => []CalmInv
BY CalmInit, CalmStep, CalmTypeCorrect, PTL DEF CalmSpec

(* In a calm environment, which allows crashes, reused pids, failed writes  *)
(* and any number of contenders, the lock serializes its holders.           *)
THEOREM CalmExclusion == CalmSpec => []MutualExclusion
<1>1. CalmInv => MutualExclusion
  BY DEF CalmInv, HandleOwnsFile, MutualExclusion, Handles
<1> QED BY <1>1, CalmInvariant, PTL

(* In a calm environment a release never passes its ownership check on the  *)
(* file of another acquirer.                                                *)
THEOREM CalmRelease == CalmSpec => ReleaseChecksOwnFile
<1>1. CalmInv /\ [CalmNext]_vars =>
        [\A a \in Acquirers :
            pc[a] = "held" /\ pc'[a] = "checked" => file.creator = a]_vars
  BY DEF CalmInv, HandleOwnsFile, Handles, InCritical
<1> QED BY <1>1, CalmInvariant, PTL DEF CalmSpec, ReleaseChecksOwnFile

(* Only the two unlinks empty the path.                                     *)
LEMMA OnlyUnlinksRemove ==
    ASSUME TypeOK, [CalmNext]_vars, file # NoFile, file' = NoFile
    PROVE  \E a \in Acquirers : Reclaim(a) \/ ReleaseUnlinks(a)
<1>1. ASSUME NEW a \in Acquirers, Step(a) PROVE Reclaim(a) \/ ReleaseUnlinks(a)
  <2>1. CASE Open(a)
    BY <2>1, OpenShape
  <2>2. CASE Fill(a) \/ PhaseWrites(a)
    BY <2>2, FileWrites, NoFileAssumption DEF Fill, PhaseWrites, WriteThrough, TypeOK
  <2>3. CASE \/ Begin(a) \/ OpenFails(a) \/ FillFails(a) \/ Inspect(a) \/ Stat(a)
            \/ Retry(a) \/ Release(a)
    BY <2>3 DEF Begin, OpenFails, FillFails, Inspect, Stat, Retry, Release
  <2>4. CASE Phase(a)
    BY <2>4, FileWrites, NoFileAssumption DEF Phase, TypeOK
  <2> QED BY <1>1, <2>1, <2>2, <2>3, <2>4 DEF Step, Progress
<1>2. ~PromptTick
  <2>1. Tick => file' \in Files
    BY LockAssumption DEF Tick, TypeOK, Files
  <2> QED BY <2>1, NoFileAssumption DEF PromptTick
<1>3. ~Faults
  BY DEF Faults, Crash, Restart
<1> QED BY <1>1, <1>2, <1>3 DEF CalmNext, PromptNext, vars

(* In a calm environment a file leaves the path by the release of its own   *)
(* holder, or when its creator has no handle on it any more.                *)
THEOREM CalmRemoval == CalmSpec => OnlyOwnOrAbandonedRemoved
<1> DEFINE Rightly == \/ pc[file.creator] = "checked" /\ pc'[file.creator] = "idle"
                     \/ pc[file.creator] \notin Handles
<1>1. ASSUME TypeOK, CalmInv, [CalmNext]_vars, file # NoFile, file' = NoFile
      PROVE  Rightly
  <2>1. ASSUME NEW a \in Acquirers, Reclaim(a) PROVE Rightly
    BY <1>1, <2>1 DEF Reclaim, At, CalmInv, VerdictsAreSound
  <2>2. ASSUME NEW a \in Acquirers, ReleaseUnlinks(a) PROVE Rightly
    BY <1>1, <2>2 DEF ReleaseUnlinks, At, Goto, CalmInv, HandleOwnsFile, Handles, InCritical,
                      TypeOK
  <2> QED BY <1>1, <2>1, <2>2, OnlyUnlinksRemove
<1>2. TypeOK /\ CalmInv /\ [CalmNext]_vars =>
          [file # NoFile /\ file' = NoFile => Rightly]_vars
  BY <1>1
<1> QED BY <1>2, CalmInvariant, CalmTypeCorrect, PTL DEF CalmSpec, OnlyOwnOrAbandonedRemoved

(* A calm step lets an acquirer into the critical states only by the write  *)
(* that fills its own new file, while nobody else has a handle.             *)
LEMMA CriticalEntry ==
    ASSUME TypeOK, CalmInv, [CalmNext]_vars,
           NEW a \in Acquirers, pc'[a] \in InCritical, pc[a] \notin InCritical
    PROVE  /\ \A b \in Acquirers : pc[b] \notin InCritical
           /\ \A b \in Acquirers \ {a} : pc'[b] \notin InCritical
<1>1. Fill(a)
  <2>1. ASSUME NEW b \in Acquirers, Step(b), b # a PROVE FALSE
    BY <2>1 DEF Step, Progress, Begin, Open, OpenFails, Fill, FillFails, Inspect, Stat, Reclaim,
                Retry, Phase, PhaseWrites, Release, ReleaseUnlinks, Goto, ResolveNone,
                TypeOK
  <2>2. CASE Step(a)
    <3>1. \A l \in PcValues \ InCritical : pc' # [pc EXCEPT ![a] = l]
      BY DEF TypeOK
    <3>2. ~Open(a) /\ ~Stat(a)
      BY <3>1, OpenShape DEF Stat, ResolveNone, Goto, PcValues, Attempting, InCritical
    <3> QED BY <2>2, <3>1, <3>2 DEF Step, Progress, Begin, OpenFails, FillFails, Inspect, Reclaim,
                Retry, Phase, PhaseWrites, Release, ReleaseUnlinks, Goto, At, PcValues,
                Attempting, InCritical
  <2>3. ASSUME PromptTick \/ Faults \/ UNCHANGED vars PROVE FALSE
    BY <2>3 DEF PromptTick, Tick, Faults, Crash, Restart, vars, TypeOK, InCritical
  <2> QED BY <2>1, <2>2, <2>3 DEF CalmNext, PromptNext
<1>2. pc[a] = "fill" /\ pc' = [pc EXCEPT ![a] = "held"]
  BY <1>1 DEF Fill, At, Goto
<1>3. \A b \in Acquirers \ {a} : pc[b] \notin Handles
  BY <1>2 DEF CalmInv, HandleOwnsFile, Handles
<1> QED BY <1>2, <1>3 DEF Handles, InCritical, TypeOK

(* In a calm environment the lock file implements the abstract mutex: its   *)
(* holders are the acquirers between acquire and release.                   *)
THEOREM CalmImplementsMutex == CalmSpec => ImplementsMutex
<1> DEFINE H == {a \in Acquirers : pc[a] \in InCritical}
<1>1. Init => Lock!Init
  BY DEF Init, Lock!Init, InCritical
<1>2. TypeOK /\ CalmInv /\ [CalmNext]_vars => [Lock!Next]_H
  <2> SUFFICES ASSUME TypeOK, CalmInv, [CalmNext]_vars, H' # H
               PROVE  Lock!Next
    OBVIOUS
  <2>1. MutualExclusion
    BY DEF CalmInv, HandleOwnsFile, MutualExclusion, Handles
  <2>2. CASE \E a \in Acquirers : pc'[a] \in InCritical /\ pc[a] \notin InCritical
    <3>1. PICK a \in Acquirers : pc'[a] \in InCritical /\ pc[a] \notin InCritical
      BY <2>2
    <3>2. H = {} /\ H' = {a}
      BY <3>1, CriticalEntry
    <3> QED BY <3>2 DEF Lock!Next, Lock!Enter
  <2>3. CASE \A a \in Acquirers : pc'[a] \in InCritical => pc[a] \in InCritical
    <3>1. H' \subseteq H
      BY <2>3
    <3>2. PICK a \in H : a \notin H'
      BY <3>1
    <3>3. H = {a} /\ H' = {}
      BY <2>1, <3>1, <3>2 DEF MutualExclusion
    <3> QED BY <3>3 DEF Lock!Next, Lock!Leave
  <2> QED BY <2>2, <2>3
<1> QED BY <1>1, <1>2, CalmInvariant, CalmTypeCorrect, PTL
        DEF CalmSpec, ImplementsMutex, Lock!Spec
=============================================================================
