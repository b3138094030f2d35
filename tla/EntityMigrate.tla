----------------------------- MODULE EntityMigrate -----------------------------
(***************************************************************************)
(* Entity.migrate, migrateRows and migrateAll of                           *)
(* src/persistence/entities.ts, in processes that migrate when they start  *)
(* and then serve.  Their programs may be of different ages: the entities  *)
(* of each have versions of their own, and so have the rows.               *)
(*                                                                         *)
(* The table is the sequence of its rows in rowid order, the order in      *)
(* which the prefix query returns them.  A migration reads the rows in one *)
(* statement and rewrites them in a transaction of its own, which takes    *)
(* the write lock with its first write: what was read may be old by then.  *)
(*                                                                         *)
(* A storage key is an entity name and an id.  A row stands for a          *)
(* document, at a revision that every application write to it moves (its   *)
(* payload, its expiry); the payload has the id field that getPk encodes.  *)
(* Two counts are history: the versions that migrateFn has taken the       *)
(* payload through, and the versions by which programs older than the row  *)
(* have lowered its version with the payload left as it was.               *)
(***************************************************************************)
EXTENDS Naturals, Sequences, SequencesExt

CONSTANTS
    Processes,  \* the processes that share the database
    Names,      \* entity names
    TopVersion, \* the newest version an entity has had in any program
    Registry,   \* Registry[p]: the entities of p's program, in the order of their making
    LikeName,   \* LikeName[n]: n as LIKE compares it, without ASCII case
    Ids,        \* primary key values
    Renumber,   \* Renumber[i]: the id migrateFn gives a payload with id i
    Rejected,   \* Renumber[i] = Rejected: migrateFn throws
    MaxRows,    \* bound: rows of the table a behaviour starts with
    MaxDocs,    \* bound: documents ever written
    NoEntity    \* entity is NULL, as older versions left it

Versions == 0..TopVersion
PrimaryKeys == Names \X Ids

(* An entity above version 0 has a migrateFn.                               *)
Registered == [name : Names, version : Versions]

Rows == [pk : PrimaryKeys, entity : Names \cup {NoEntity}, version : Versions, id : Ids,
         readable : BOOLEAN, upgrades : Nat, lowered : Nat, doc : 1..MaxDocs, rev : 0..1]

NoPlan == <<>>
Plans == Registered \X Seq(Rows)

VARIABLES
    blobs,   \* the table, in rowid order
    docs,    \* documents written so far
    plan,    \* plan[p]: the entity p migrates and the rows its query returned
    serving  \* the processes that have migrated

vars == <<blobs, docs, plan, serving>>

TypeOK ==
    /\ blobs \in Seq(Rows)
    /\ \A i, j \in DOMAIN blobs : blobs[i].pk = blobs[j].pk => i = j
    /\ docs \in 0..MaxDocs
    /\ plan \in [Processes -> Plans \cup {NoPlan}]
    /\ serving \in SUBSET Processes

(* Rows as older and newer versions of the program left them, and, without  *)
(* version and entity, as older versions of the library did: under any key  *)
(* of their entity and perhaps unreadable.                                  *)
StoredRows ==
    {r \in [pk : PrimaryKeys, entity : Names \cup {NoEntity}, version : Versions, id : Ids,
            readable : BOOLEAN, upgrades : Versions, lowered : {0}, doc : {1}, rev : {0}] :
        /\ r.entity \in {r.pk[1], NoEntity}
        /\ r.upgrades = r.version
        /\ r.version > 0 => r.pk = <<r.entity, r.id>>}

Init ==
    /\ docs \in 0..MaxRows
    /\ \E rows \in [1..docs -> StoredRows] :
         /\ \A i, j \in 1..docs : rows[i].pk = rows[j].pk => i = j
         /\ blobs = [i \in 1..docs |-> [rows[i] EXCEPT !.doc = i]]
    /\ plan = [p \in Processes |-> NoPlan]
    /\ serving = {}

-----------------------------------------------------------------------------
(* Statements *)

Upserted(table, row) ==
    IF \E i \in DOMAIN table : table[i].pk = row.pk
    THEN [i \in DOMAIN table |-> IF table[i].pk = row.pk THEN row ELSE table[i]]
    ELSE Append(table, row)

Deleted(table, key) ==
    IF \E i \in DOMAIN table : table[i].pk = key
    THEN RemoveAt(table, CHOOSE i \in DOMAIN table : table[i].pk = key)
    ELSE table

(* getRawRowsByPrefix: LIKE compares the prefix without ASCII case, and     *)
(* expired rows are returned as well.  found[n]: those of the first n rows. *)
Matches(row, e) == LikeName[row.pk[1]] = LikeName[e.name]

RawRowsByPrefix(table, e) ==
    LET found[n \in 0..Len(table)] ==
            IF n = 0 THEN <<>>
            ELSE IF Matches(table[n], e) THEN Append(found[n - 1], table[n])
            ELSE found[n - 1]
    IN found[Len(table)]

-----------------------------------------------------------------------------
(* migrateRows *)

Outdated(e, row) == row.version < e.version

(* decodeDoc, migrateFn or getPk throws. *)
Throws(e, row) == ~row.readable \/ (Outdated(e, row) /\ Renumber[row.id] = Rejected)

(* newPk: the key of the payload, upgraded if its version is old. *)
Target(e, row) == <<e.name, IF Outdated(e, row) THEN Renumber[row.id] ELSE row.id>>

Unchanged(e, row) ==
    Target(e, row) = row.pk /\ row.entity = e.name /\ row.version = e.version

\* Mutant: the rewrite forgets the version.
MigratedPayload(e, row) ==
    [pk |-> Target(e, row), entity |-> e.name, version |-> row.version,
     id |-> Target(e, row)[2], readable |-> TRUE,
     upgrades |-> IF Outdated(e, row) THEN row.upgrades + (e.version - row.version)
                  ELSE row.upgrades,
     lowered |-> row.lowered, doc |-> row.doc, rev |-> row.rev]

(* A row newer than the entity gets the entity's version as well, with its  *)
(* payload as it is.                                                        *)
MigratedRow(e, row) ==
    [pk |-> Target(e, row), entity |-> e.name, version |-> e.version,
     id |-> Target(e, row)[2], readable |-> TRUE,
     upgrades |-> IF Outdated(e, row) THEN row.upgrades + (e.version - row.version)
                  ELSE row.upgrades,
     lowered |-> IF Outdated(e, row) THEN row.lowered
                 ELSE row.lowered + (row.version - e.version),
     doc |-> row.doc, rev |-> row.rev]

(* One turn of the loop; state carries the table and the claimed keys. *)
MigrateRow(e, state, row) ==
    LET target == Target(e, row)
        collides == target # row.pk /\ target \in state.claimed
        written == Upserted(state.table, MigratedRow(e, row))
    IN IF Throws(e, row) \/ Unchanged(e, row) \/ collides
       THEN state
       ELSE [table |-> IF target = row.pk THEN written ELSE Deleted(written, row.pk),
             claimed |-> state.claimed \cup {target}]

\* Mutant: only targets are claimed, not the keys that are there.
ClaimedTargets(e, rows, n) ==
    {Target(e, rows[i]) : i \in {j \in 1..n : ~Throws(e, rows[j])}}

(* The keys claimed before the first write that succeeds: those of every    *)
(* row read, and the targets of the first n, whose writes were refused.     *)
Claimed(e, rows, n) ==
    {rows[i].pk : i \in DOMAIN rows}
        \cup {Target(e, rows[i]) : i \in {j \in 1..n : ~Throws(e, rows[j])}}

(* migrateRows of rows, the writes of the first n of them refused (the      *)
(* write lock was not to be had in time) and caught like any other failure. *)
(* after[i]: the state after the turns of the first i rows.                 *)
MigrateRows(table, e, rows, n) ==
    LET after[i \in n..Len(rows)] ==
            IF i = n THEN [table |-> table, claimed |-> Claimed(e, rows, n)]
            ELSE MigrateRow(e, after[i - 1], rows[i])
    IN after[Len(rows)].table

(* Entity.migrate with nothing between its read and its rewrite, and no     *)
(* write refused; Entity.migrateAll, entity by entity.                      *)
Migrated(table, e) == MigrateRows(table, e, RawRowsByPrefix(table, e), 0)

MigratedAll(table, registry) ==
    LET after[k \in 0..Len(registry)] ==
            IF k = 0 THEN table ELSE Migrated(after[k - 1], registry[k])
    IN after[Len(registry)]

-----------------------------------------------------------------------------
(* Entity.migrate *)

ReadRows(p) ==
    /\ plan[p] = NoPlan
    /\ \E k \in DOMAIN Registry[p] :
         LET e == Registry[p][k]
         IN plan' = [plan EXCEPT ![p] = <<e, RawRowsByPrefix(blobs, e)>>]
    /\ UNCHANGED <<blobs, docs, serving>>

Rewrite(p) ==
    /\ plan[p] # NoPlan
    /\ \E n \in 0..Len(plan[p][2]) :
         blobs' = MigrateRows(blobs, plan[p][1], plan[p][2], n)
    /\ plan' = [plan EXCEPT ![p] = NoPlan]
    /\ serving' = serving \cup {p}
    /\ UNCHANGED docs

(* The commit fails, or the process dies and starts again: nothing is       *)
(* written.                                                                 *)
RollBack(p) ==
    /\ plan[p] # NoPlan
    /\ plan' = [plan EXCEPT ![p] = NoPlan]
    /\ UNCHANGED <<blobs, docs, serving>>

Migrate(p) == ReadRows(p) \/ Rewrite(p) \/ RollBack(p)

-----------------------------------------------------------------------------
(* A process that has migrated serves, through the entities of its program. *)

Puts(e) ==
    /\ docs < MaxDocs
    /\ docs' = docs + 1
    /\ \E i \in Ids :
         blobs' = Upserted(blobs, [pk |-> <<e.name, i>>, entity |-> e.name,
                                   version |-> e.version, id |-> i, readable |-> TRUE,
                                   upgrades |-> e.version, lowered |-> 0,
                                   doc |-> docs + 1, rev |-> 0])
    /\ UNCHANGED <<plan, serving>>

(* update or patch of a row that is not older than the entity (what reading *)
(* one that is gives is undefined): the document moves to a new revision    *)
(* that has the entity's version, and its key's id is put into the payload. *)
Modifies(e) ==
    /\ \E i \in DOMAIN blobs :
         LET row == blobs[i] IN
         /\ row.pk[1] = e.name /\ row.readable /\ ~Outdated(e, row)
         /\ blobs' = [blobs EXCEPT ![i] =
              [pk |-> row.pk, entity |-> e.name, version |-> e.version, id |-> row.pk[2],
               readable |-> TRUE, upgrades |-> row.upgrades,
               lowered |-> row.lowered + (row.version - e.version),
               doc |-> row.doc, rev |-> 1]]
    /\ UNCHANGED <<docs, plan, serving>>

(* touch: a new revision, with the payload and its version as they are.     *)
Touches(e) ==
    /\ \E i \in DOMAIN blobs :
         blobs[i].pk[1] = e.name /\ blobs' = [blobs EXCEPT ![i].rev = 1]
    /\ UNCHANGED <<docs, plan, serving>>

Deletes(e) ==
    /\ \E i \in DOMAIN blobs :
         blobs[i].pk[1] = e.name /\ blobs' = Deleted(blobs, blobs[i].pk)
    /\ UNCHANGED <<docs, plan, serving>>

Serve(p) ==
    /\ p \in serving
    /\ \E k \in DOMAIN Registry[p] :
         LET e == Registry[p][k]
         IN Puts(e) \/ Modifies(e) \/ Touches(e) \/ Deletes(e)

-----------------------------------------------------------------------------
Next == \E p \in Processes : Migrate(p) \/ Serve(p)

Spec == Init /\ [][Next]_vars

NoneMigrating == \A p \in Processes : plan[p] = NoPlan

(* Migrations are run again and again, but nothing is written between the   *)
(* read and the rewrite of one.                                             *)
AloneNext ==
    \E p \in Processes :
        \/ Migrate(p) /\ \A q \in Processes \ {p} : plan[q] = NoPlan
        \/ Serve(p) /\ NoneMigrating

-----------------------------------------------------------------------------
(* Properties *)

Documents(table) == {<<table[i].doc, table[i].rev>> : i \in DOMAIN table}

(* The documents of rows that e need not upgrade.                           *)
CurrentDocs(table, e) == {table[i].doc : i \in {j \in DOMAIN table : ~Outdated(e, table[j])}}

(* migrateRows: a colliding row is skipped "rather than overwrite live data *)
(* and lose it", and an unreadable one stays.  A migration neither loses a  *)
(* document, nor brings one back, nor undoes a revision or what an earlier  *)
(* run achieved.                                                            *)
NothingLost ==
    [][\A p \in Processes :
         Rewrite(p) =>
             /\ Documents(blobs') = Documents(blobs)
             /\ CurrentDocs(blobs, plan[p][1]) \subseteq CurrentDocs(blobs', plan[p][1])]_vars

(* Whoever migrates how often, migrateFn has taken a payload through the    *)
(* versions that its row claims, once, and again only through those that an *)
(* older program had taken back; and a row above version 0 lies under its   *)
(* payload's key.                                                           *)
VersionsAreTrue ==
    \A i \in DOMAIN blobs :
        /\ blobs[i].upgrades = blobs[i].version + blobs[i].lowered
        /\ blobs[i].version > 0 => blobs[i].pk = <<blobs[i].entity, blobs[i].id>>

(* A row that e would re-key, if its target is free.                        *)
Moves(e, row) == Matches(row, e) /\ ~Throws(e, row) /\ Target(e, row) # row.pk

(* A row is to move to the key of another row that is to move as well.      *)
Chained(table, e) ==
    \E i, j \in DOMAIN table :
        Moves(e, table[i]) /\ Moves(e, table[j]) /\ Target(e, table[i]) = table[j].pk

NamesDiffer(registry) ==
    \A k, l \in DOMAIN registry :
        LikeName[registry[k].name] = LikeName[registry[l].name] => k = l

(* "Idempotent": a second migrateAll rewrites nothing, if LIKE tells the    *)
(* names of the program's entities apart and no row waits for another.      *)
SecondRunRests ==
    \A p \in Processes :
        LET registry == Registry[p]
            once == MigratedAll(blobs, registry)
        IN  /\ NamesDiffer(registry)
            /\ \A k \in DOMAIN registry : ~Chained(blobs, registry[k])
            => MigratedAll(once, registry) = once

=============================================================================
