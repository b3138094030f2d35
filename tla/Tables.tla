-------------------------------- MODULE Tables --------------------------------
(***************************************************************************)
(* Table of src/persistence/table.ts: processes, perhaps of different      *)
(* versions of an application, that make a handle to one table and use it. *)
(*                                                                         *)
(* A column name is the sequence of its words, which is all that the name  *)
(* of an index depends on.  A table has a primary key of one column, which *)
(* is not NULL, and further columns.                                       *)
(***************************************************************************)
EXTENDS Naturals, Sequences, FiniteSets, SequencesExt

CONSTANTS
    Processes,     \* the processes that share the database
    Columns,       \* the columns beside the primary key
    Ids,           \* primary key values
    Values,        \* column values
    Declarations,  \* the index lists that versions of the application declare
    MaxRows        \* bound: rows of the table

VARIABLES
    declared,  \* declared[p]: the indexes p's version declares, in order
    exists,    \* the table is there
    created,   \* its indexes
    at,        \* at[p]: 0 before make, 1 at CREATE TABLE, i + 1 at index i, then made
    rows       \* the rows of the table

vars == <<declared, exists, created, at, rows>>

Index == [columns : Seq(Columns), unique : BOOLEAN]
Rows == [id : Ids, cells : [Columns -> Values]]

Made(p) == at[p] = Len(declared[p]) + 2

TypeOK ==
    /\ declared \in [Processes -> Declarations]
    /\ exists \in BOOLEAN /\ created \subseteq Index
    /\ at \in [Processes -> Nat] /\ \A p \in Processes : at[p] <= Len(declared[p]) + 2
    /\ rows \subseteq Rows

Init ==
    /\ declared \in [Processes -> Declarations]
    /\ exists = FALSE /\ created = {}
    /\ at = [p \in Processes |-> 0]
    /\ rows = {}

-----------------------------------------------------------------------------
(* idx_<table>_<columns>: the column names, joined. *)
IndexName(index) == FlattenSeq(index.columns)

Agree(r, s, index) == \A c \in Range(index.columns) : r.cells[c] = s.cells[c]

Conflict(r, s) ==
    \/ r.id = s.id
    \/ \E index \in created : index.unique /\ Agree(r, s, index)

Begin(p) ==
    /\ at[p] = 0
    /\ at' = [at EXCEPT ![p] = 1]
    /\ UNCHANGED <<declared, exists, created, rows>>

CreateTable(p) ==
    /\ at[p] = 1
    /\ exists' = TRUE
    /\ at' = [at EXCEPT ![p] = 2]
    /\ UNCHANGED <<declared, created, rows>>

\* Mutant: a failing index is passed over.
CreateIndexLeniently(p) ==
    \E i \in DOMAIN declared[p] :
        LET index == declared[p][i]
            taken == \E other \in created : IndexName(other) = IndexName(index)
            duplicates == index.unique /\ \E r, s \in rows : r # s /\ Agree(r, s, index)
        IN  /\ at[p] = i + 1
            /\ created' = IF taken \/ duplicates THEN created ELSE created \cup {index}
            /\ at' = [at EXCEPT ![p] = i + 2]
            /\ UNCHANGED <<declared, exists, rows>>

(* CREATE [UNIQUE] INDEX IF NOT EXISTS: what has the name stays as it is; a *)
(* unique index on rows that agree is an error, and make fails.             *)
CreateIndex(p) ==
    \E i \in DOMAIN declared[p] :
        LET index == declared[p][i]
            taken == \E other \in created : IndexName(other) = IndexName(index)
            duplicates == index.unique /\ \E r, s \in rows : r # s /\ Agree(r, s, index)
        IN  /\ at[p] = i + 1
            /\ created' = IF taken \/ duplicates THEN created ELSE created \cup {index}
            /\ at' = [at EXCEPT ![p] = IF duplicates /\ ~taken THEN 0 ELSE i + 2]
            /\ UNCHANGED <<declared, exists, rows>>

(* insert: INSERT OR IGNORE. *)
Insert(p) ==
    /\ Made(p)
    /\ \E row \in Rows :
         /\ ~\E r \in rows : Conflict(r, row)
         /\ Cardinality(rows) < MaxRows
         /\ rows' = rows \cup {row}
    /\ UNCHANGED <<declared, exists, created, at>>

(* upsert: INSERT OR REPLACE, which deletes every row in conflict. *)
Upsert(p) ==
    /\ Made(p)
    /\ \E row \in Rows :
         /\ rows' = {r \in rows : ~Conflict(r, row)} \cup {row}
         /\ Cardinality(rows') <= MaxRows
    /\ UNCHANGED <<declared, exists, created, at>>

Clear(p) ==
    /\ Made(p)
    /\ rows' = {}
    /\ UNCHANGED <<declared, exists, created, at>>

(* A refused statement, a crash, or the end of the process. *)
Stop(p) ==
    /\ at[p] # 0
    /\ at' = [at EXCEPT ![p] = 0]
    /\ UNCHANGED <<declared, exists, created, rows>>

Next ==
    \E p \in Processes :
        \/ Begin(p) \/ CreateTable(p) \/ CreateIndex(p)
        \/ Insert(p) \/ Upsert(p) \/ Clear(p) \/ Stop(p)

Spec == Init /\ [][Next]_vars

-----------------------------------------------------------------------------
(* Properties *)

(* No version declares another index under the name of this one. *)
OwnName(index) ==
    \A p \in Processes : \A other \in Range(declared[p]) :
        IndexName(other) = IndexName(index) => other = index

(* Table.make "ensures the table and its indexes exist": a handle with a    *)
(* unique index, whatever versions without it wrote before or write since,  *)
(* is to a table without duplicates, provided nothing else claims the       *)
(* name of the index.                                                       *)
UniqueIsEnforced ==
    \A p \in Processes : \A index \in Range(declared[p]) :
        Made(p) /\ index.unique /\ OwnName(index) =>
            \A r, s \in rows : Agree(r, s, index) => r = s
=============================================================================
