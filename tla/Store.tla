--------------------------------- MODULE Store ---------------------------------
(***************************************************************************)
(* The database of an application, through src/persistence: the document   *)
(* store and, in the same file, its schema as processes open it, the       *)
(* documents of entities as processes migrate them, and a table that       *)
(* processes of different versions make.  No part reads what another       *)
(* writes.                                                                 *)
(***************************************************************************)
EXTENDS Docstore, Sequences

CONSTANTS
    Processes,                                   \* the processes that share the file
    Added, Indexed, NoTable,                     \* Schema
    Migrators, Names, LikeName, TopVersion, Registry,     \* EntityMigrate
    Serials, Renumber, Rejected, MaxStored, MaxDocs,
    Columns, Ids, Values, Declarations, MaxRows  \* Tables

VARIABLES
    table, docs, plan, serving,                  \* EntityMigrate
    columns, indexes, opening, known, broken,    \* Schema
    declared, exists, created, making, rows      \* Tables

migrateVars == <<table, docs, plan, serving>>
schemaVars == <<columns, indexes, opening, known, broken>>
tableVars == <<declared, exists, created, making, rows>>
storeVars == <<vars, migrateVars, schemaVars, tableVars>>

Migrate == INSTANCE EntityMigrate WITH
    Processes <- Migrators, Ids <- Serials, MaxRows <- MaxStored, blobs <- table
Schemas == INSTANCE Schema WITH at <- opening
Table == INSTANCE Tables WITH at <- making

(* The indexes of initializeSchema are on columns that it has added, an     *)
(* index declaration is a list of indexes on columns of the table, and      *)
(* migrateFn maps an id or throws; a program's registry is a list of        *)
(* entities.                                                                *)
ASSUME StoreAssumption ==
    /\ Added \in Seq(Schemas!All) /\ Indexed \in Seq(Schemas!All)
    /\ \A some \in SUBSET Schemas!All : NoTable # some
    /\ Declarations \subseteq Seq(Table!Index)
    /\ Renumber \in [Serials -> Serials \cup {Rejected}]
    /\ TopVersion \in Nat /\ Registry \in [Migrators -> Seq(Migrate!Registered)]
    /\ MaxStored \in Nat /\ MaxDocs \in Nat /\ MaxStored <= MaxDocs

StoreInit == Init /\ Migrate!Init /\ Schemas!Init /\ Table!Init

(* Nothing is written between the read and the rewrite of a migration. *)
StoreNext ==
    \/ Next /\ UNCHANGED <<migrateVars, schemaVars, tableVars>>
    \/ Migrate!AloneNext /\ UNCHANGED <<vars, schemaVars, tableVars>>
    \/ Schemas!Next /\ UNCHANGED <<vars, migrateVars, tableVars>>
    \/ Table!Next /\ UNCHANGED <<vars, migrateVars, schemaVars>>

StoreSpec == StoreInit /\ [][StoreNext]_storeVars

-----------------------------------------------------------------------------
(* What the modules promise of their parts. *)

MigrationIsSound == Migrate!TypeOK /\ Migrate!VersionsAreTrue /\ Migrate!SecondRunRests
NothingLost == Migrate!NothingLost
OpenedIsComplete == Schemas!TypeOK /\ Schemas!OpenedIsComplete
UniqueIsEnforced == Table!TypeOK /\ Table!UniqueIsEnforced
=============================================================================
