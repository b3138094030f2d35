-------------------------------- MODULE Schema --------------------------------
(***************************************************************************)
(* Sqlite.layer and initializeSchema of src/persistence: processes that    *)
(* open one database file, fresh or left by an older version, while others *)
(* do the same and any of them may be killed.                              *)
(*                                                                         *)
(* Every statement commits by itself.  It may be refused, when the write   *)
(* lock is not to be had in time; the process then gives up and closes the *)
(* connection.                                                             *)
(***************************************************************************)
EXTENDS Naturals, Sequences

CONSTANTS
    Processes,  \* the processes that share the file
    Added,      \* the columns that older versions lack, in the order of the code
    Indexed,    \* the columns of the two indexes, in the order of the code
    NoTable     \* the file has no blobs table yet

VARIABLES
    columns,    \* the Added columns that blobs has, or NoTable
    indexes,    \* the columns that have their index
    at,         \* at[p]: the statement of initializeSchema that p is about to run
    known,      \* known[p]: the columns p's PRAGMA returned
    broken      \* the processes that a statement failed for another reason than the lock

vars == <<columns, indexes, at, known, broken>>

Members(s) == {s[i] : i \in DOMAIN s}
All == Members(Added)

(* 1: CREATE TABLE, 2: PRAGMA, then the ALTERs, then the CREATE INDEXes. *)
Down == 0
Opened == 3 + Len(Added) + Len(Indexed)

TypeOK ==
    /\ columns \in (SUBSET All) \cup {NoTable}
    /\ indexes \in SUBSET Members(Indexed)
    /\ at \in [Processes -> Down..Opened]
    /\ known \in [Processes -> SUBSET All]
    /\ broken \in SUBSET Processes

Init ==
    /\ columns \in {NoTable, {}}
    /\ indexes = {}
    /\ at = [p \in Processes |-> Down]
    /\ known = [p \in Processes |-> {}]
    /\ broken = {}

-----------------------------------------------------------------------------
Proceed(p) == at' = [at EXCEPT ![p] = @ + 1]

Fails(p) ==
    /\ at' = [at EXCEPT ![p] = Down]
    /\ broken' = broken \cup {p}

Connect(p) ==
    /\ at[p] = Down
    /\ at' = [at EXCEPT ![p] = 1]
    /\ broken' = broken \ {p}
    /\ UNCHANGED <<columns, indexes, known>>

CreateTable(p) ==
    /\ at[p] = 1
    /\ columns' = IF columns = NoTable THEN All ELSE columns
    /\ Proceed(p)
    /\ UNCHANGED <<indexes, known, broken>>

TableInfo(p) ==
    /\ at[p] = 2
    /\ known' = [known EXCEPT ![p] = columns]
    /\ Proceed(p)
    /\ UNCHANGED <<columns, indexes, broken>>

\* Mutant: a duplicate column is an error like any other.
AddColumnStrictly(p) ==
    \E i \in DOMAIN Added :
        /\ at[p] = i + 2
        /\ IF Added[i] \notin known[p] /\ Added[i] \in columns
           THEN Fails(p) /\ UNCHANGED columns
           ELSE /\ columns' = columns \cup {Added[i]}
                /\ Proceed(p)
                /\ UNCHANGED broken
        /\ UNCHANGED <<indexes, known>>

(* addColumn: another process may have added it since the PRAGMA. *)
AddColumn(p) ==
    \E i \in DOMAIN Added :
        /\ at[p] = i + 2
        /\ columns' = IF Added[i] \in known[p] THEN columns ELSE columns \cup {Added[i]}
        /\ Proceed(p)
        /\ UNCHANGED <<indexes, known, broken>>

CreateIndex(p) ==
    \E i \in DOMAIN Indexed :
        /\ at[p] = i + 2 + Len(Added)
        /\ IF Indexed[i] \in columns
           THEN indexes' = indexes \cup {Indexed[i]} /\ Proceed(p) /\ UNCHANGED broken
           ELSE Fails(p) /\ UNCHANGED indexes
        /\ UNCHANGED <<columns, known>>

(* A statement is refused, the process is killed, or its scope closes: the  *)
(* connection is closed, what was committed stays.                          *)
Close(p) ==
    /\ at[p] # Down
    /\ at' = [at EXCEPT ![p] = Down]
    /\ UNCHANGED <<columns, indexes, known, broken>>

Next ==
    \E p \in Processes :
        \/ Connect(p) \/ CreateTable(p) \/ TableInfo(p) \/ AddColumn(p)
        \/ CreateIndex(p) \/ Close(p)

Spec == Init /\ [][Next]_vars

-----------------------------------------------------------------------------
(* Properties *)

(* initializeSchema: "Tolerate a concurrent process winning the race to     *)
(* ALTER".  Wherever others were killed or are racing, a store that opened  *)
(* has every column and index, and one that could not had been refused the  *)
(* lock: no process breaks another's opening.                               *)
OpenedIsComplete ==
    /\ \A p \in Processes :
         at[p] = Opened => columns = All /\ indexes = Members(Indexed)
    /\ broken = {}
=============================================================================
