------------------------------- MODULE Docstore -------------------------------
(***************************************************************************)
(* The document store of src/persistence/docstore.ts, driven by the Entity *)
(* operations of src/persistence/entities.ts, on SQLite in WAL mode as     *)
(* src/persistence/sqlite.ts opens it.                                     *)
(*                                                                         *)
(* A flow is a fiber that runs one operation at a time; flows on the same  *)
(* connection share an event loop.  An operation samples the clock and     *)
(* then runs one statement, which is atomic.  Entity.update runs two in a  *)
(* deferred transaction: its read takes a snapshot of the database, its    *)
(* write is refused when another connection has committed since.           *)
(*                                                                         *)
(* A payload is the set of flows that contributed to it: an upsert starts  *)
(* it anew, the callback of an update adds to what it was given.           *)
(***************************************************************************)
EXTENDS Naturals, FiniteSets

CONSTANTS
    Flows,        \* the fibers that use the store
    Conn,         \* Conn[a]: the connection (and the process) of flow a
    Keys,         \* primary keys
    Entities,     \* entity names
    EntityOf,     \* EntityOf[k]: the entity whose prefix key k has
    MaxTime,      \* bound: the last moment of the clock
    Limit,        \* the limit of cleanupExpired
    Never,        \* expires_at is NULL
    NoEntity,     \* entity is NULL
    NoRow, Absent \* no row with a key, no document under it

ASSUME DocAssumption ==
    /\ EntityOf \in [Keys -> Entities]
    /\ MaxTime \in Nat /\ Limit \in Nat
    /\ Never \notin Nat

Payloads == SUBSET Flows
Expiries == 0..MaxTime \cup {Never}
Rows == [entity : Entities \cup {NoEntity}, expires : Expiries, data : Payloads]

ASSUME AbsentAssumption == NoRow \notin Rows /\ \A d \in Payloads : Absent # d

VARIABLES
    blobs,   \* the table: blobs[k] is the row of key k or NoRow
    clock,   \* milliseconds, coarsely
    pc,      \* pc[a]: "idle", "ready" (clock sampled) or "tx"
    now,     \* now[a]: the time a sampled
    seen,    \* seen[a]: key and row the open transaction of a has read
    stale,   \* the flows whose snapshot another connection has outdated
    answer,  \* answer[a]: what the last read of a returned
    stalls   \* whether time may pass within an operation; it never changes

vars == <<blobs, clock, pc, now, seen, stale, answer, stalls>>

NothingSeen == [key |-> Absent, row |-> NoRow]
Seen == [key : Keys, row : Rows] \cup {NothingSeen}

TypeOK ==
    /\ blobs \in [Keys -> Rows \cup {NoRow}]
    /\ clock \in 0..MaxTime
    /\ pc \in [Flows -> {"idle", "ready", "tx"}]
    /\ now \in [Flows -> 0..MaxTime]
    /\ seen \in [Flows -> Seen]
    /\ \A a \in Flows : pc[a] = "tx" => seen[a] # NothingSeen
    /\ stale \in SUBSET Flows
    /\ answer \in [Flows -> SUBSET (Keys \X Payloads)]
    /\ stalls \in BOOLEAN

Init ==
    /\ blobs = [k \in Keys |-> NoRow]
    /\ clock = 0
    /\ pc = [a \in Flows |-> "idle"]
    /\ now = [a \in Flows |-> 0]
    /\ seen = [a \in Flows |-> NothingSeen]
    /\ stale = {}
    /\ answer = [a \in Flows |-> {}]
    /\ stalls \in BOOLEAN

-----------------------------------------------------------------------------
(* Helpers *)

(* A transaction is one synchronous block of its event loop. *)
At(a, label) ==
    /\ pc[a] = label
    /\ \A b \in Flows \ {a} : Conn[b] = Conn[a] => pc[b] # "tx"

Goto(a, label) == pc' = [pc EXCEPT ![a] = label]

(* NOT_EXPIRED at time t, of a row that exists. *)
Live(row, t) == row # NoRow /\ (row.expires = Never \/ row.expires > t)

(* Mutant: a row without expiry counts as expired. *)
ExpiredOrNull(row, t) == row # NoRow /\ (row.expires = Never \/ row.expires <= t)

(* The condition of cleanupExpired. *)
Expired(row, t) == row # NoRow /\ row.expires # Never /\ row.expires <= t

(* getRawRow: the row of key k if it is live at time t. *)
RawRow(k, t) == IF Live(blobs[k], t) THEN blobs[k] ELSE NoRow

(* The row an Entity writes: its metadata, with whatever expiry options,    *)
(* default TTL and, for a modify, the current expiry resolve to.            *)
EntityRow(k, e, data) == [entity |-> EntityOf[k], expires |-> e, data |-> data]

(* A statement or transaction of a commits rows: every other open snapshot  *)
(* is out of date.                                                          *)
Commit(a, rows) ==
    /\ blobs' = rows
    /\ stale' = {b \in Flows \ {a} : pc[b] = "tx"}

NoCommit == UNCHANGED <<blobs, stale>>

Without(K) == [k \in Keys |-> IF k \in K THEN NoRow ELSE blobs[k]]

(* A DELETE of the rows of K, which commits only if there are any. *)
DeleteRows(a, K) ==
    IF \E k \in K : blobs[k] # NoRow THEN Commit(a, Without(K)) ELSE NoCommit

-----------------------------------------------------------------------------
(* Statements *)

(* yield* Clock.currentTimeMillis, at the head of an operation. *)
Sample(a) ==
    /\ At(a, "idle")
    /\ Goto(a, "ready")
    /\ now' = [now EXCEPT ![a] = clock]
    /\ answer' = [answer EXCEPT ![a] = {}]
    /\ UNCHANGED <<blobs, clock, seen, stale>>

(* SELECT of the rows of K that are live at the sampled time. *)
Select(a, K) ==
    /\ At(a, "ready")
    /\ Goto(a, "idle")
    /\ answer' = [answer EXCEPT ![a] =
                    {<<k, blobs[k].data>> : k \in {j \in K : Live(blobs[j], now[a])}}]
    /\ UNCHANGED <<blobs, clock, now, seen, stale>>

(* getDoc, hasDoc, getRawRow; the reads by prefix; the reads by entity. *)
Get(a) == \E k \in Keys : Select(a, {k})
GetByPrefix(a) == \E e \in Entities : Select(a, {k \in Keys : EntityOf[k] = e})
GetByEntity(a) ==
    \E e \in Entities : Select(a, {k \in Keys : blobs[k] # NoRow /\ blobs[k].entity = e})

(* Entity.upsert writes the entity and whatever expiry its options and the  *)
(* default TTL resolve to; Docstore.upsertDoc without meta writes NULLs.    *)
Upsert(a) ==
    /\ At(a, "ready")
    /\ \E k \in Keys, e \in Expiries :
         Commit(a, [blobs EXCEPT ![k] = EntityRow(k, e, {a})])
    /\ Goto(a, "idle")
    /\ UNCHANGED <<clock, now, seen, answer>>

UpsertRaw(a) ==
    /\ At(a, "ready")
    /\ \E k \in Keys :
         Commit(a, [blobs EXCEPT ![k] =
                      [entity |-> NoEntity, expires |-> Never, data |-> {a}]])
    /\ Goto(a, "idle")
    /\ UNCHANGED <<clock, now, seen, answer>>

(* touchDoc: an UPDATE guarded by NOT_EXPIRED at the sampled time. *)
Touch(a) ==
    /\ At(a, "ready")
    /\ \E k \in Keys, e \in Expiries :
         IF Live(blobs[k], now[a])
         THEN Commit(a, [blobs EXCEPT ![k] =
                           [entity |-> blobs[k].entity, expires |-> e, data |-> blobs[k].data]])
         ELSE NoCommit
    /\ Goto(a, "idle")
    /\ UNCHANGED <<clock, now, seen, answer>>

(* deleteDoc, deleteDocsByPrefix and deleteDocsByEntity look at no clock.   *)
Delete(a) ==
    /\ At(a, "idle")
    /\ \/ \E k \in Keys : DeleteRows(a, {k})
       \/ \E e \in Entities : DeleteRows(a, {k \in Keys : EntityOf[k] = e})
       \/ \E e \in Entities :
            DeleteRows(a, {k \in Keys : blobs[k] # NoRow /\ blobs[k].entity = e})
    /\ UNCHANGED <<clock, pc, now, seen, answer>>

Clear(a) ==
    /\ At(a, "idle")
    /\ DeleteRows(a, Keys)
    /\ UNCHANGED <<clock, pc, now, seen, answer>>

(* cleanupExpired: at most Limit of the rows expired at the sampled time. *)
Cleanup(a) ==
    /\ At(a, "ready")
    /\ LET expired == {k \in Keys : Expired(blobs[k], now[a])}
       IN \E K \in SUBSET expired :
            /\ Cardinality(K) <= Limit
            /\ K = expired \/ Cardinality(K) = Limit
            /\ DeleteRows(a, K)
    /\ Goto(a, "idle")
    /\ UNCHANGED <<clock, now, seen, answer>>

(* SQLITE_BUSY after the busy timeout, or an I/O error: an OperationError. *)
StatementFails(a) ==
    /\ At(a, "ready")
    /\ Goto(a, "idle")
    /\ UNCHANGED <<blobs, clock, now, seen, stale, answer>>

-----------------------------------------------------------------------------
(* Entity.update and Entity.patch *)

(* BEGIN and getRawRow; a missing row ends the transaction. *)
UpdateReads(a) ==
    /\ At(a, "ready")
    /\ \E k \in Keys :
         IF RawRow(k, now[a]) # NoRow
         THEN /\ Goto(a, "tx")
              /\ seen' = [seen EXCEPT ![a] = [key |-> k, row |-> RawRow(k, now[a])]]
         ELSE Goto(a, "idle") /\ UNCHANGED seen
    /\ UNCHANGED <<blobs, clock, now, stale, answer>>

(* Mutant: read and write without a transaction around them. *)
UpdateWritesBlindly(a) ==
    /\ At(a, "tx")
    /\ \E e \in Expiries :
         LET k == seen[a].key
         IN Commit(a, [blobs EXCEPT ![k] =
                         EntityRow(k, e, seen[a].row.data \cup {a})])
    /\ Goto(a, "idle")
    /\ seen' = [seen EXCEPT ![a] = NothingSeen]
    /\ UNCHANGED <<clock, now, answer>>

(* upsertDoc with the callback's result and the next expiry, and COMMIT.    *)
(* The write needs the snapshot to be the latest.                           *)
UpdateWrites(a) ==
    /\ At(a, "tx") /\ a \notin stale
    /\ \E e \in Expiries :
         LET k == seen[a].key
         IN Commit(a, [blobs EXCEPT ![k] =
                         EntityRow(k, e, seen[a].row.data \cup {a})])
    /\ Goto(a, "idle")
    /\ seen' = [seen EXCEPT ![a] = NothingSeen]
    /\ UNCHANGED <<clock, now, answer>>

(* A corrupt row, a rejected result, a callback that throws, a write lock   *)
(* not got in time or SQLITE_BUSY_SNAPSHOT: the transaction rolls back.     *)
UpdateFails(a) ==
    /\ At(a, "tx")
    /\ Goto(a, "idle")
    /\ seen' = [seen EXCEPT ![a] = NothingSeen]
    /\ stale' = stale \ {a}
    /\ UNCHANGED <<blobs, clock, now, answer>>

-----------------------------------------------------------------------------
Operation(a) ==
    \/ Sample(a) \/ Get(a) \/ GetByPrefix(a) \/ GetByEntity(a)
    \/ Upsert(a) \/ UpsertRaw(a) \/ Touch(a) \/ Delete(a) \/ Clear(a)
    \/ Cleanup(a) \/ StatementFails(a) \/ UpdateReads(a) \/ UpdateWrites(a) \/ UpdateFails(a)

(* Between the clock read of an operation and its last statement lie a wait *)
(* for the write lock, of up to the busy timeout, and other fibers.         *)
Tick ==
    /\ clock < MaxTime
    /\ stalls \/ \A a \in Flows : pc[a] = "idle"
    /\ clock' = clock + 1
    /\ UNCHANGED <<blobs, pc, now, seen, stale, answer>>

Next == ((\E a \in Flows : Operation(a)) \/ Tick) /\ UNCHANGED stalls

Spec == Init /\ [][Next]_vars

-----------------------------------------------------------------------------
(* What makes the properties inductive *)

(* An open transaction whose snapshot is not outdated has read what is in   *)
(* the table: its write loses no other update.                              *)
SnapshotIsCurrent ==
    \A a \in Flows :
        IF pc[a] = "tx"
        THEN /\ Live(seen[a].row, now[a])
             /\ a \notin stale => blobs[seen[a].key] = seen[a].row
        ELSE a \notin stale

(* Sampled times are never ahead of the clock. *)
TimesArePast == \A a \in Flows : now[a] <= clock

(* Without stalls a sampled time is the current one. *)
TimesAreFresh == ~stalls => \A a \in Flows : pc[a] # "idle" => now[a] = clock

StoreInv == SnapshotIsCurrent /\ TimesArePast /\ TimesAreFresh

-----------------------------------------------------------------------------
(* Properties *)

(* Touch, update and patch modify: they change only a document that was     *)
(* live when they looked at the clock, and keep every contribution to it,   *)
(* however long they stall before they write, and whoever deletes, replaces *)
(* or cleans up the row in between.                                         *)
ModifiesTheLive ==
    [][\A a \in Flows : Touch(a) \/ UpdateWrites(a) =>
          \A k \in Keys : blobs'[k] # blobs[k] =>
              Live(blobs[k], now[a]) /\ blobs[k].data \subseteq blobs'[k].data]_vars

(* Physical cleanup is not expiry: no step of cleanupExpired removes a row  *)
(* that any reader, whatever time it sampled, could still see as live now.  *)
CleanupIsInvisible ==
    [][\A a \in Flows : Cleanup(a) =>
          \A k \in Keys : Live(blobs[k], clock) => blobs'[k] = blobs[k]]_vars

(* Readers, writers, expiry and cleanup together are the map they promise,  *)
(* as long as no operation stalls.  A store whose operations may stall is   *)
(* mapped to a map that nobody uses: of it nothing is said.                 *)
View == [k \in Keys |-> IF ~stalls /\ Live(blobs[k], clock) THEN blobs[k].data ELSE Absent]

Answers == [a \in Flows |-> IF stalls THEN {} ELSE answer[a]]

Map == INSTANCE DocMap WITH docs <- View, answer <- Answers

ImplementsDocMap == Map!Spec
=============================================================================
