---------------------------- MODULE DocstoreProofs ----------------------------
(* Theorems about Docstore: typing, the snapshot invariant, the safety of   *)
(* cleanup, and the refinement of DocMap by operations that do not stall.   *)
EXTENDS Docstore, TLAPS

(* What a committed write stores is a row, so the table stays a table. *)
LEMMA RowsAreRows ==
    ASSUME TypeOK, NEW k \in Keys, NEW en \in Entities \cup {NoEntity},
           NEW e \in Expiries, NEW d \in Payloads
    PROVE  [blobs EXCEPT ![k] = [entity |-> en, expires |-> e, data |-> d]]
               \in [Keys -> Rows \cup {NoRow}]
  BY DEF TypeOK, Rows

LEMMA CommitTypes ==
    ASSUME NEW a \in Flows, NEW rows \in [Keys -> Rows \cup {NoRow}], Commit(a, rows)
    PROVE  blobs' \in [Keys -> Rows \cup {NoRow}] /\ stale' \in SUBSET Flows
  BY DEF Commit

LEMMA DeleteTypes ==
    ASSUME TypeOK, NEW a \in Flows, NEW K, DeleteRows(a, K)
    PROVE  blobs' \in [Keys -> Rows \cup {NoRow}] /\ stale' \in SUBSET Flows
  BY DEF TypeOK, DeleteRows, Without, Commit, NoCommit

LEMMA TypeStep == TypeOK /\ [Next]_vars => TypeOK'
  <1> SUFFICES ASSUME TypeOK, [Next]_vars PROVE TypeOK'
    OBVIOUS
  <1>0. stalls' \in BOOLEAN
    BY DEF Next, vars, TypeOK
  <1> USE DocAssumption, <1>0
  <1>1. ASSUME NEW a \in Flows, Sample(a) PROVE TypeOK'
    BY <1>1 DEF TypeOK, Sample, Goto
  <1>2. ASSUME NEW a \in Flows, NEW K \in SUBSET Keys, Select(a, K) PROVE TypeOK'
    <2>1. \A k \in K : Live(blobs[k], now[a]) => blobs[k].data \in Payloads
      BY DEF TypeOK, Live, Rows
    <2>2. {<<k, blobs[k].data>> : k \in {j \in K : Live(blobs[j], now[a])}}
              \in SUBSET (Keys \X Payloads)
      BY <2>1
    <2> QED  BY <1>2, <2>2 DEF TypeOK, Select, Goto
  <1>3. ASSUME NEW a \in Flows, Get(a) \/ GetByPrefix(a) \/ GetByEntity(a) PROVE TypeOK'
    BY <1>2, <1>3 DEF Get, GetByPrefix, GetByEntity
  <1>4. ASSUME NEW a \in Flows, Upsert(a) PROVE TypeOK'
    <2>1. PICK k \in Keys, e \in Expiries :
            Commit(a, [blobs EXCEPT ![k] =
                         [entity |-> EntityOf[k], expires |-> e, data |-> {a}]])
      BY <1>4 DEF Upsert, EntityRow
    <2>2. {a} \in Payloads /\ EntityOf[k] \in Entities \cup {NoEntity}
      BY DEF Payloads
    <2>3. blobs' \in [Keys -> Rows \cup {NoRow}] /\ stale' \in SUBSET Flows
      BY <2>1, <2>2, RowsAreRows, CommitTypes
    <2> QED  BY <1>4, <2>3 DEF TypeOK, Upsert, Goto
  <1>5. ASSUME NEW a \in Flows, UpsertRaw(a) PROVE TypeOK'
    <2>1. PICK k \in Keys :
            Commit(a, [blobs EXCEPT ![k] =
                         [entity |-> NoEntity, expires |-> Never, data |-> {a}]])
      BY <1>5 DEF UpsertRaw
    <2>2. {a} \in Payloads /\ Never \in Expiries
      BY DEF Payloads, Expiries
    <2>3. blobs' \in [Keys -> Rows \cup {NoRow}] /\ stale' \in SUBSET Flows
      BY <2>1, <2>2, RowsAreRows, CommitTypes
    <2> QED  BY <1>5, <2>3 DEF TypeOK, UpsertRaw, Goto
  <1>6. ASSUME NEW a \in Flows, Touch(a) PROVE TypeOK'
    <2>1. PICK k \in Keys, e \in Expiries :
            IF Live(blobs[k], now[a])
            THEN Commit(a, [blobs EXCEPT ![k] =
                   [entity |-> blobs[k].entity, expires |-> e, data |-> blobs[k].data]])
            ELSE NoCommit
      BY <1>6 DEF Touch
    <2>2. Live(blobs[k], now[a]) =>
              /\ blobs[k].entity \in Entities \cup {NoEntity}
              /\ blobs[k].data \in Payloads
      BY DEF TypeOK, Live, Rows
    <2>3. blobs' \in [Keys -> Rows \cup {NoRow}] /\ stale' \in SUBSET Flows
      <3>1. CASE Live(blobs[k], now[a])
        BY <2>1, <2>2, <3>1, RowsAreRows, CommitTypes
      <3>2. CASE ~Live(blobs[k], now[a])
        BY <2>1, <3>2 DEF NoCommit, TypeOK
      <3> QED  BY <3>1, <3>2
    <2> QED  BY <1>6, <2>3 DEF TypeOK, Touch, Goto
  <1>7. ASSUME NEW a \in Flows, Delete(a) \/ Clear(a) PROVE TypeOK'
    <2>1. blobs' \in [Keys -> Rows \cup {NoRow}] /\ stale' \in SUBSET Flows
      BY <1>7, DeleteTypes DEF Delete, Clear
    <2> QED  BY <1>7, <2>1 DEF TypeOK, Delete, Clear
  <1>8. ASSUME NEW a \in Flows, Cleanup(a) PROVE TypeOK'
    <2>1. blobs' \in [Keys -> Rows \cup {NoRow}] /\ stale' \in SUBSET Flows
      BY <1>8, DeleteTypes DEF Cleanup
    <2> QED  BY <1>8, <2>1 DEF TypeOK, Cleanup, Goto
  <1>9. ASSUME NEW a \in Flows, StatementFails(a) PROVE TypeOK'
    BY <1>9 DEF TypeOK, StatementFails, Goto
  <1>10. ASSUME NEW a \in Flows, UpdateReads(a) PROVE TypeOK'
    <2>1. PICK k \in Keys :
            IF Live(blobs[k], now[a])
            THEN /\ Goto(a, "tx")
                 /\ seen' = [seen EXCEPT ![a] = [key |-> k, row |-> blobs[k]]]
            ELSE Goto(a, "idle") /\ UNCHANGED seen
      BY <1>10 DEF UpdateReads, RawRow, Live
    <2>2. Live(blobs[k], now[a]) => [key |-> k, row |-> blobs[k]] \in Seen
      BY DEF TypeOK, Live, Seen
    <2>3. seen' \in [Flows -> Seen] /\ pc' \in [Flows -> {"idle", "ready", "tx"}]
      BY <2>1, <2>2 DEF TypeOK, Goto
    <2>4. Live(blobs[k], now[a]) => [key |-> k, row |-> blobs[k]] # NothingSeen
      BY DEF Live, NothingSeen
    <2>5. \A b \in Flows : pc'[b] = "tx" => seen'[b] # NothingSeen
      BY <2>1, <2>4 DEF TypeOK, Goto
    <2> QED  BY <1>10, <2>3, <2>5 DEF TypeOK, UpdateReads
  <1>11. ASSUME NEW a \in Flows, UpdateWrites(a) PROVE TypeOK'
    <2>1. seen[a].key \in Keys /\ seen[a].row \in Rows
      BY <1>11, AbsentAssumption DEF TypeOK, UpdateWrites, At, Seen, NothingSeen
    <2>2. PICK e \in Expiries :
            Commit(a, [blobs EXCEPT ![seen[a].key] =
                         [entity |-> EntityOf[seen[a].key], expires |-> e,
                          data |-> seen[a].row.data \cup {a}]])
      BY <1>11 DEF UpdateWrites, EntityRow
    <2>3. /\ seen[a].row.data \cup {a} \in Payloads
          /\ EntityOf[seen[a].key] \in Entities \cup {NoEntity}
      BY <2>1 DEF Payloads, Rows
    <2>4. blobs' \in [Keys -> Rows \cup {NoRow}] /\ stale' \in SUBSET Flows
      BY <2>1, <2>2, <2>3, RowsAreRows, CommitTypes
    <2> QED  BY <1>11, <2>4 DEF TypeOK, UpdateWrites, Goto, Seen
  <1>12. ASSUME NEW a \in Flows, UpdateFails(a) PROVE TypeOK'
    BY <1>12 DEF TypeOK, UpdateFails, Goto, Seen
  <1>13. ASSUME Tick PROVE TypeOK'
    BY <1>13 DEF TypeOK, Tick
  <1>14. CASE UNCHANGED vars
    BY <1>14 DEF TypeOK, vars
  <1> QED
    BY <1>1, <1>3, <1>4, <1>5, <1>6, <1>7, <1>8, <1>9, <1>10, <1>11, <1>12,
       <1>13, <1>14 DEF Next, Operation

(* Every reachable state is well typed, and an open transaction has read a  *)
(* row.                                                                     *)
THEOREM TypeCorrect == Spec => []TypeOK
  <1>1. Init => TypeOK
    BY DocAssumption DEF Init, TypeOK, Seen
  <1> QED  BY <1>1, TypeStep, PTL DEF Spec

-----------------------------------------------------------------------------
(* A commit of a outdates the snapshots of all others; a itself is not in a *)
(* transaction afterwards.                                                  *)
LEMMA CommitKeepsSnapshots ==
    ASSUME TypeOK, SnapshotIsCurrent, NEW a \in Flows, NEW rows, Commit(a, rows),
           pc'[a] # "tx", now' = now,
           \A b \in Flows \ {a} : pc'[b] = pc[b] /\ seen'[b] = seen[b]
    PROVE  SnapshotIsCurrent'
  BY DEF SnapshotIsCurrent, Commit, Live

LEMMA QuietKeepsSnapshots ==
    ASSUME TypeOK, SnapshotIsCurrent, NEW a \in Flows, blobs' = blobs,
           stale' = stale \ {a}, pc'[a] # "tx",
           \A b \in Flows \ {a} : pc'[b] = pc[b] /\ seen'[b] = seen[b] /\ now'[b] = now[b]
    PROVE  SnapshotIsCurrent'
  BY DEF SnapshotIsCurrent, Live

LEMMA SnapshotStep == TypeOK /\ SnapshotIsCurrent /\ [Next]_vars => SnapshotIsCurrent'
  <1> SUFFICES ASSUME TypeOK, SnapshotIsCurrent, [Next]_vars PROVE SnapshotIsCurrent'
    OBVIOUS
  <1> USE DEF At, Goto, TypeOK
  (* A flow that is not in a transaction has no outdated snapshot. *)
  <1>0. \A a \in Flows : pc[a] # "tx" => stale \ {a} = stale
    BY DEF SnapshotIsCurrent
  <1>1. ASSUME NEW a \in Flows, Sample(a) PROVE SnapshotIsCurrent'
    BY <1>0, <1>1, QuietKeepsSnapshots DEF Sample
  <1>2. ASSUME NEW a \in Flows, NEW K, Select(a, K) PROVE SnapshotIsCurrent'
    BY <1>0, <1>2, QuietKeepsSnapshots DEF Select
  <1>3. ASSUME NEW a \in Flows, Upsert(a) PROVE SnapshotIsCurrent'
    BY <1>3, CommitKeepsSnapshots DEF Upsert
  <1>4. ASSUME NEW a \in Flows, UpsertRaw(a) PROVE SnapshotIsCurrent'
    BY <1>4, CommitKeepsSnapshots DEF UpsertRaw
  <1>5. ASSUME NEW a \in Flows, Touch(a) PROVE SnapshotIsCurrent'
    <2>1. CASE NoCommit
      BY <1>0, <1>5, <2>1, QuietKeepsSnapshots DEF Touch, NoCommit
    <2>2. CASE ~NoCommit
      BY <1>5, <2>2, CommitKeepsSnapshots DEF Touch
    <2> QED  BY <2>1, <2>2
  <1>6. ASSUME NEW a \in Flows, Delete(a) \/ Clear(a) PROVE SnapshotIsCurrent'
    <2>1. CASE NoCommit
      BY <1>0, <1>6, <2>1, QuietKeepsSnapshots DEF Delete, Clear, NoCommit
    <2>2. CASE ~NoCommit
      <3>1. PICK rows : Commit(a, rows)
        BY <1>6, <2>2 DEF Delete, Clear, DeleteRows
      <3> QED  BY <1>6, <3>1, CommitKeepsSnapshots DEF Delete, Clear
    <2> QED  BY <2>1, <2>2
  <1>7. ASSUME NEW a \in Flows, Cleanup(a) PROVE SnapshotIsCurrent'
    <2>1. CASE NoCommit
      BY <1>0, <1>7, <2>1, QuietKeepsSnapshots DEF Cleanup, NoCommit
    <2>2. CASE ~NoCommit
      <3>1. PICK rows : Commit(a, rows)
        BY <1>7, <2>2 DEF Cleanup, DeleteRows
      <3> QED  BY <1>7, <3>1, CommitKeepsSnapshots DEF Cleanup
    <2> QED  BY <2>1, <2>2
  <1>8. ASSUME NEW a \in Flows, StatementFails(a) PROVE SnapshotIsCurrent'
    BY <1>0, <1>8, QuietKeepsSnapshots DEF StatementFails
  <1>9. ASSUME NEW a \in Flows, UpdateReads(a) PROVE SnapshotIsCurrent'
    BY <1>9 DEF UpdateReads, SnapshotIsCurrent, RawRow, Live
  <1>10. ASSUME NEW a \in Flows, UpdateWrites(a) PROVE SnapshotIsCurrent'
    BY <1>10, CommitKeepsSnapshots DEF UpdateWrites
  <1>11. ASSUME NEW a \in Flows, UpdateFails(a) PROVE SnapshotIsCurrent'
    BY <1>11, QuietKeepsSnapshots DEF UpdateFails
  <1>12. ASSUME Tick PROVE SnapshotIsCurrent'
    BY <1>12 DEF Tick, SnapshotIsCurrent, Live
  <1>13. CASE UNCHANGED vars
    BY <1>13 DEF vars, SnapshotIsCurrent, Live
  <1> QED
    BY <1>1, <1>2, <1>3, <1>4, <1>5, <1>6, <1>7, <1>8, <1>9, <1>10, <1>11, <1>12,
       <1>13 DEF Next, Operation, Get, GetByPrefix, GetByEntity

(* Only a tick changes the clock, only Sample a sampled time. *)
LEMMA TimeStep ==
    ASSUME TypeOK, NEW a \in Flows, Operation(a)
    PROVE  clock' = clock /\ (Sample(a) \/ now' = now)
  BY DEF Operation, Sample, Select, Get, GetByPrefix, GetByEntity, Upsert, UpsertRaw,
         Touch, Delete, Clear, Cleanup, StatementFails, UpdateReads, UpdateWrites, UpdateFails

LEMMA PastStep == TypeOK /\ TimesArePast /\ [Next]_vars => TimesArePast'
  <1> SUFFICES ASSUME TypeOK, TimesArePast, [Next]_vars PROVE TimesArePast'
    OBVIOUS
  <1>1. ASSUME NEW a \in Flows, Operation(a) PROVE TimesArePast'
    BY <1>1, TimeStep DEF TimesArePast, Sample, TypeOK
  <1>2. ASSUME Tick PROVE TimesArePast'
    BY <1>2, DocAssumption DEF TimesArePast, Tick, TypeOK
  <1>3. CASE UNCHANGED vars
    BY <1>3 DEF TimesArePast, vars
  <1> QED  BY <1>1, <1>2, <1>3 DEF Next

LEMMA FreshStep == TypeOK /\ TimesAreFresh /\ [Next]_vars => TimesAreFresh'
  <1> SUFFICES ASSUME TypeOK, TimesAreFresh, [Next]_vars PROVE TimesAreFresh'
    OBVIOUS
  <1>1. ASSUME NEW a \in Flows, Operation(a), stalls' = stalls PROVE TimesAreFresh'
    <2>1. CASE Sample(a)
      BY <1>1, <2>1 DEF Sample, Goto, TimesAreFresh, TypeOK
    <2>2. CASE ~Sample(a)
      <3>1. clock' = clock /\ now' = now
        BY <1>1, <2>2, TimeStep
      <3>2. \A b \in Flows : pc'[b] # "idle" => pc[b] # "idle"
        BY <1>1, <2>2
        DEF Operation, Select, Get, GetByPrefix, GetByEntity, Upsert, UpsertRaw, Touch,
            Delete, Clear, Cleanup, StatementFails, UpdateReads, UpdateWrites,
            UpdateFails, At, Goto, TypeOK
      <3> QED  BY <1>1, <3>1, <3>2 DEF TimesAreFresh
    <2> QED  BY <2>1, <2>2
  <1>2. ASSUME Tick, stalls' = stalls PROVE TimesAreFresh'
    BY <1>2 DEF Tick, TimesAreFresh
  <1>3. CASE UNCHANGED vars
    BY <1>3 DEF TimesAreFresh, vars
  <1> QED  BY <1>1, <1>2, <1>3 DEF Next

(* An update writes only over the row it has read, no sampled time is ahead *)
(* of the clock, and without stalls none is behind it.                      *)
THEOREM SnapshotCorrect == Spec => []StoreInv
  <1>1. Init => StoreInv
    BY DocAssumption DEF Init, StoreInv, SnapshotIsCurrent, TimesArePast, TimesAreFresh
  <1>2. TypeOK /\ StoreInv /\ [Next]_vars => StoreInv'
    BY SnapshotStep, PastStep, FreshStep DEF StoreInv
  <1> QED  BY <1>1, <1>2, TypeCorrect, PTL DEF Spec

(* However long a touch or an update stalls and whoever writes meanwhile,   *)
(* it changes only what was live when it looked at the clock, and adds to   *)
(* what is there.                                                           *)
THEOREM ModifiersKeep == Spec => ModifiesTheLive
  <1>1. TypeOK /\ StoreInv /\ [Next]_vars =>
          [\A a \in Flows : Touch(a) \/ UpdateWrites(a) =>
             \A k \in Keys : blobs'[k] # blobs[k] =>
                 Live(blobs[k], now[a]) /\ blobs[k].data \subseteq blobs'[k].data]_vars
    <2> SUFFICES ASSUME TypeOK, StoreInv, NEW a \in Flows, NEW k \in Keys,
                        Touch(a) \/ UpdateWrites(a), blobs'[k] # blobs[k]
                 PROVE  Live(blobs[k], now[a]) /\ blobs[k].data \subseteq blobs'[k].data
      OBVIOUS
    <2>1. CASE Touch(a)
      <3>1. PICK j \in Keys, e \in Expiries :
              IF Live(blobs[j], now[a])
              THEN Commit(a, [blobs EXCEPT ![j] =
                     [entity |-> blobs[j].entity, expires |-> e, data |-> blobs[j].data]])
              ELSE NoCommit
        BY <2>1 DEF Touch
      <3>2. j = k /\ Live(blobs[k], now[a])
        BY <3>1 DEF Commit, NoCommit, TypeOK
      <3>3. blobs'[k].data = blobs[k].data
        BY <3>1, <3>2 DEF Commit, TypeOK
      <3> QED  BY <3>2, <3>3
    <2>2. CASE UpdateWrites(a)
      <3>1. PICK e \in Expiries :
              Commit(a, [blobs EXCEPT ![seen[a].key] =
                           EntityRow(seen[a].key, e, seen[a].row.data \cup {a})])
        BY <2>2 DEF UpdateWrites
      <3>2. k = seen[a].key
        BY <3>1 DEF Commit, TypeOK
      <3>3. blobs[k] = seen[a].row /\ Live(seen[a].row, now[a])
        BY <2>2, <3>2 DEF UpdateWrites, At, StoreInv, SnapshotIsCurrent
      <3>4. blobs'[k].data = blobs[k].data \cup {a}
        BY <3>1, <3>2, <3>3 DEF Commit, TypeOK, EntityRow
      <3> QED  BY <3>3, <3>4
    <2> QED  BY <2>1, <2>2
  <1> QED  BY <1>1, TypeCorrect, SnapshotCorrect, PTL DEF Spec, ModifiesTheLive

(* Cleanup never takes a live row, whatever time it sampled and whoever     *)
(* reads.                                                                   *)
THEOREM CleanupCorrect == Spec => CleanupIsInvisible
  <1>1. TypeOK /\ StoreInv /\ [Next]_vars =>
          [\A a \in Flows : Cleanup(a) =>
             \A k \in Keys : Live(blobs[k], clock) => blobs'[k] = blobs[k]]_vars
    <2> SUFFICES ASSUME TypeOK, StoreInv, NEW a \in Flows, Cleanup(a),
                        NEW k \in Keys, Live(blobs[k], clock)
                 PROVE  blobs'[k] = blobs[k]
      OBVIOUS
    <2>1. PICK K \in SUBSET {j \in Keys : Expired(blobs[j], now[a])} : DeleteRows(a, K)
      BY DEF Cleanup
    <2>2. ~Expired(blobs[k], now[a])
      <3>1. CASE blobs[k].expires = Never
        BY <3>1 DEF Expired
      <3>2. CASE blobs[k].expires # Never
        <4>1. blobs[k] \in Rows /\ now[a] \in 0..MaxTime /\ now[a] <= clock
          BY DEF TypeOK, Live, StoreInv, TimesArePast
        <4>2. blobs[k].expires \in 0..MaxTime
          BY <3>2, <4>1 DEF Rows, Expiries
        <4> QED  BY <3>2, <4>1, <4>2, DocAssumption DEF Live, Expired, TypeOK
      <3> QED  BY <3>1, <3>2
    <2>3. k \notin K
      BY <2>1, <2>2
    <2> QED  BY <2>1, <2>3 DEF DeleteRows, Commit, NoCommit, Without
  <1> QED  BY <1>1, TypeCorrect, SnapshotCorrect, PTL DEF Spec, CleanupIsInvisible

-----------------------------------------------------------------------------
(* The map *)

(* Replacing one row changes the view at its key alone. *)
LEMMA ViewOfWrite ==
    ASSUME TypeOK, NEW a \in Flows, NEW k \in Keys, NEW r \in Rows,
           Commit(a, [blobs EXCEPT ![k] = r]), clock' = clock, ~stalls, ~stalls'
    PROVE  View' = [View EXCEPT ![k] = IF Live(r, clock) THEN r.data ELSE Absent]
  <1>1. r # NoRow
    BY AbsentAssumption
  <1>2. \A j \in Keys : blobs'[j] = IF j = k THEN r ELSE blobs[j]
    BY DEF Commit, TypeOK
  <1>3. \A j \in Keys : Live(blobs'[j], clock) = IF j = k THEN Live(r, clock)
                                                      ELSE Live(blobs[j], clock)
    BY <1>2
  <1>4. View' = [j \in Keys |-> IF Live(blobs'[j], clock) THEN blobs'[j].data ELSE Absent]
    BY DEF View, Live
  <1>5. \A j \in Keys :
          View'[j] = IF j = k THEN IF Live(r, clock) THEN r.data ELSE Absent ELSE View[j]
    BY <1>2, <1>3, <1>4 DEF View
  <1> QED  BY <1>4, <1>5 DEF View

LEMMA ViewOfDelete ==
    ASSUME TypeOK, NEW a \in Flows, NEW K \in SUBSET Keys, DeleteRows(a, K), clock' = clock,
           ~stalls, ~stalls'
    PROVE  Map!Forget(K)
  <1>1. \A j \in Keys : blobs'[j] = IF j \in K THEN NoRow ELSE blobs[j]
    BY DEF DeleteRows, Commit, NoCommit, Without, TypeOK
  <1> QED  BY <1>1 DEF View, Live, Map!Forget

(* The rows a reader at the current time finds are the documents of the view. *)
LEMMA ViewOfSelect ==
    ASSUME TypeOK, ~stalls, NEW K \in SUBSET Keys
    PROVE  {<<k, blobs[k].data>> : k \in {j \in K : Live(blobs[j], clock)}}
               = {<<k, View[k]>> : k \in {j \in K : View[j] # Absent}}
  <1>1. \A j \in Keys : Live(blobs[j], clock) => blobs[j].data \in Payloads
    BY DEF Live, TypeOK, Rows
  <1>2. \A j \in Keys : Live(blobs[j], clock) <=> View[j] # Absent
    BY <1>1, AbsentAssumption DEF View
  <1>3. {j \in K : Live(blobs[j], clock)} = {j \in K : View[j] # Absent}
    BY <1>2
  <1>4. \A j \in {i \in K : View[i] # Absent} : View[j] = blobs[j].data
    BY <1>2 DEF View
  <1> QED  BY <1>3, <1>4

LEMMA MapStep ==
    TypeOK /\ StoreInv /\ [Next]_vars => [Map!Next]_<<View, Answers>>
  <1> SUFFICES ASSUME TypeOK, StoreInv, [Next]_vars
               PROVE  [Map!Next]_<<View, Answers>>
    OBVIOUS
  <1>s. stalls' = stalls
    BY DEF Next, vars
  <1>t. CASE stalls
    BY <1>s, <1>t DEF View, Answers
  <1>u. SUFFICES ASSUME ~stalls PROVE [Map!Next]_<<View, Answers>>
    BY <1>t
  <1> USE <1>s, <1>u
  <1>v. Answers = answer /\ Answers' = answer'
    <2>1. TypeOK'
      BY TypeStep
    <2> QED  BY <2>1 DEF Answers, TypeOK
  <1> USE <1>v DEF At
  <1>a. \A a \in Flows : pc[a] # "idle" => now[a] = clock
    BY DEF StoreInv, TimesAreFresh
  <1>b. blobs' = blobs /\ clock' = clock => View' = View
    BY DEF View, Live
  <1>c. ASSUME NEW K \in SUBSET Keys, Map!Forget(K), answer' = answer PROVE Map!Next
    BY <1>c DEF Map!Next
  <1>d. ASSUME NEW a \in Flows, NEW K \in SUBSET Keys, Select(a, K)
        PROVE  Map!Next
    <2>1. Map!Read(a, K)
      BY <1>a, <1>d, ViewOfSelect DEF Select, Map!Read
    <2>2. View' = View
      BY <1>b, <1>d DEF Select
    <2> QED  BY <2>1, <2>2 DEF Map!Next
  <1>e. ASSUME NEW k \in Keys, View' = [View EXCEPT ![k] = Absent] PROVE Map!Forget({k})
    BY <1>e DEF Map!Forget, View
  <1>1. ASSUME NEW a \in Flows, Sample(a) PROVE Map!Next
    <2>1. Map!Read(a, {})
      BY <1>1 DEF Sample, Map!Read
    <2>2. View' = View
      BY <1>1, <1>b DEF Sample
    <2> QED  BY <2>1, <2>2 DEF Map!Next
  <1>2. ASSUME NEW a \in Flows, Get(a) \/ GetByPrefix(a) \/ GetByEntity(a)
        PROVE  Map!Next
    BY <1>2, <1>d DEF Get, GetByPrefix, GetByEntity
  <1>3. ASSUME NEW a \in Flows, Upsert(a) \/ UpsertRaw(a) PROVE Map!Next
    <2>1. PICK k \in Keys, r \in Rows :
            Commit(a, [blobs EXCEPT ![k] = r]) /\ r.data = {a}
      <3>1. CASE Upsert(a)
        <4>1. PICK k \in Keys, e \in Expiries :
                Commit(a, [blobs EXCEPT ![k] =
                             [entity |-> EntityOf[k], expires |-> e, data |-> {a}]])
          BY <3>1 DEF Upsert, EntityRow
        <4>2. [entity |-> EntityOf[k], expires |-> e, data |-> {a}] \in Rows
          BY DocAssumption DEF Rows, Payloads
        <4> QED  BY <4>1, <4>2
      <3>2. CASE UpsertRaw(a)
        <4>1. PICK k \in Keys :
                Commit(a, [blobs EXCEPT ![k] =
                             [entity |-> NoEntity, expires |-> Never, data |-> {a}]])
          BY <3>2 DEF UpsertRaw
        <4>2. [entity |-> NoEntity, expires |-> Never, data |-> {a}] \in Rows
          BY DEF Rows, Payloads, Expiries
        <4> QED  BY <4>1, <4>2
      <3> QED  BY <1>3, <3>1, <3>2
    <2>2. clock' = clock /\ answer' = answer
      BY <1>3 DEF Upsert, UpsertRaw
    <2>3. View' = [View EXCEPT ![k] = IF Live(r, clock) THEN {a} ELSE Absent]
      BY <2>1, <2>2, ViewOfWrite
    <2>4. CASE Live(r, clock)
      BY <2>2, <2>3, <2>4 DEF Map!Put, Map!Next
    <2>5. CASE ~Live(r, clock)
      BY <1>c, <1>e, <2>2, <2>3, <2>5
    <2> QED  BY <2>4, <2>5
  <1>4. ASSUME NEW a \in Flows, Touch(a) PROVE Map!Next \/ UNCHANGED <<View, Answers>>
    <2>1. PICK k \in Keys, e \in Expiries :
            IF Live(blobs[k], now[a])
            THEN Commit(a, [blobs EXCEPT ![k] =
                   [entity |-> blobs[k].entity, expires |-> e, data |-> blobs[k].data]])
            ELSE NoCommit
      BY <1>4 DEF Touch
    <2>2. clock' = clock /\ answer' = answer
      BY <1>4 DEF Touch
    <2>3. CASE Live(blobs[k], now[a])
      <3> DEFINE r == [entity |-> blobs[k].entity, expires |-> e, data |-> blobs[k].data]
      <3>1. r \in Rows
        BY <2>3 DEF TypeOK, Live, Rows
      <3>2. View[k] = r.data
        BY <1>4, <1>a, <2>3 DEF Touch, View
      <3>3. View' = [View EXCEPT ![k] = IF Live(r, clock) THEN r.data ELSE Absent]
        BY <2>1, <2>2, <2>3, <3>1, ViewOfWrite
      <3>4. CASE Live(r, clock)
        BY <2>2, <3>2, <3>3, <3>4 DEF View
      <3>5. CASE ~Live(r, clock)
        BY <1>c, <1>e, <2>2, <3>3, <3>5
      <3> QED  BY <3>4, <3>5
    <2>4. CASE ~Live(blobs[k], now[a])
      BY <1>b, <2>1, <2>2, <2>4 DEF NoCommit
    <2> QED  BY <2>3, <2>4
  <1>5. ASSUME NEW a \in Flows, Delete(a) \/ Clear(a) PROVE Map!Next
    <2>1. PICK K \in SUBSET Keys : DeleteRows(a, K)
      BY <1>5 DEF Delete, Clear
    <2>2. clock' = clock /\ answer' = answer
      BY <1>5 DEF Delete, Clear
    <2> QED  BY <1>c, <2>1, <2>2, ViewOfDelete
  <1>6. ASSUME NEW a \in Flows, Cleanup(a) PROVE Map!Next
    <2>1. PICK K \in SUBSET Keys : DeleteRows(a, K)
      BY <1>6 DEF Cleanup
    <2>2. clock' = clock /\ answer' = answer
      BY <1>6 DEF Cleanup
    <2> QED  BY <1>c, <2>1, <2>2, ViewOfDelete
  <1>7. ASSUME NEW a \in Flows, StatementFails(a) \/ UpdateReads(a) \/ UpdateFails(a)
        PROVE  UNCHANGED <<View, Answers>>
    BY <1>b, <1>7 DEF StatementFails, UpdateReads, UpdateFails
  <1>8. ASSUME NEW a \in Flows, UpdateWrites(a) PROVE Map!Next
    <2> DEFINE k == seen[a].key
               old == seen[a].row
    <2>1. k \in Keys /\ old \in Rows
      BY <1>8, AbsentAssumption DEF TypeOK, UpdateWrites, Seen, NothingSeen
    <2>2. PICK e \in Expiries :
            Commit(a, [blobs EXCEPT ![k] =
                         [entity |-> EntityOf[k], expires |-> e, data |-> old.data \cup {a}]])
      BY <1>8 DEF UpdateWrites, EntityRow
    <2> DEFINE r == [entity |-> EntityOf[k], expires |-> e, data |-> old.data \cup {a}]
    <2>3. r \in Rows
      BY <2>1, DocAssumption DEF Rows, Payloads
    <2>4. clock' = clock /\ answer' = answer
      BY <1>8 DEF UpdateWrites
    <2>5. blobs[k] = old /\ Live(old, clock)
      BY <1>8, <1>a DEF UpdateWrites, StoreInv, SnapshotIsCurrent
    <2>6. View[k] = old.data /\ old.data # Absent
      BY <2>1, <2>5, AbsentAssumption DEF View, Rows
    <2>7. View' = [View EXCEPT ![k] = IF Live(r, clock) THEN r.data ELSE Absent]
      BY <2>1, <2>2, <2>3, <2>4, ViewOfWrite
    <2>8. CASE Live(r, clock)
      <3>1. View' = [View EXCEPT ![k] = View[k] \cup {a}]
        BY <2>6, <2>7, <2>8
      <3> HIDE DEF k
      <3> QED  BY <2>1, <2>4, <2>6, <3>1 DEF Map!Modify, Map!Next
    <2>9. CASE ~Live(r, clock)
      BY <1>c, <1>e, <2>1, <2>4, <2>7, <2>9
    <2> QED  BY <2>8, <2>9
  <1>9. ASSUME Tick PROVE Map!Next
    <2> DEFINE K == {k \in Keys : ~Live(blobs[k], clock')}
    <2>1. \A k \in Keys : Live(blobs[k], clock') => Live(blobs[k], clock)
      BY <1>9, DocAssumption DEF Tick, TypeOK, Live, Rows, Expiries
    <2>2. Map!Forget(K)
      BY <1>9, <2>1 DEF Tick, View, Map!Forget
    <2> QED  BY <1>9, <1>c, <2>2 DEF Tick
  <1>10. CASE UNCHANGED vars
    BY <1>10, <1>b DEF vars
  <1> QED
    BY <1>1, <1>2, <1>3, <1>4, <1>5, <1>6, <1>7, <1>8, <1>9, <1>10
    DEF Next, Operation

(* Without stalls, readers, writers, expiry, cleanup and the transactions   *)
(* of two or more processes together are one map.                           *)
THEOREM DocMapRefined == Spec => ImplementsDocMap
  <1>1. Init => Map!Init
    BY DEF Init, Map!Init, View, Live, Answers
  <1> QED
    BY <1>1, MapStep, TypeCorrect, SnapshotCorrect, PTL DEF Spec, ImplementsDocMap, Map!Spec
=============================================================================
