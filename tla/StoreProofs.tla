------------------------------ MODULE StoreProofs ------------------------------
(***************************************************************************)
(* What the processes that share a database file may rely on, proved of    *)
(* Store: none breaks another's opening, whatever columns an older version *)
(* lacks and wherever a process is killed; a handle to a table with a      *)
(* unique index is to rows without duplicates; and a migration that ran    *)
(* alone loses no document, rows being sound whoever migrates and writes.  *)
(***************************************************************************)
EXTENDS Store, FiniteSetTheorems, SequenceTheorems, WellFoundedInduction, TLAPS

-----------------------------------------------------------------------------
(* What a step of the database is to its three parts.                       *)
LEMMA StorePartsStep ==
    ASSUME [StoreNext]_storeVars
    PROVE  /\ [Schemas!Next]_schemaVars
           /\ [Table!Next]_tableVars
           /\ [Migrate!AloneNext]_migrateVars
  BY DEF StoreNext, storeVars

-----------------------------------------------------------------------------
(* The schema *)

(* A process past a statement finds its effect, though others did or undid  *)
(* the statement in between; no PRAGMA said more than is true now.          *)
TableStands == \A p \in Processes : opening[p] > 1 => columns # NoTable

ColumnsStand ==
    \A p \in Processes : \A i \in DOMAIN Added : opening[p] > i + 2 => Added[i] \in columns

IndexesStand ==
    \A p \in Processes : \A i \in DOMAIN Indexed :
        opening[p] > i + 2 + Len(Added) => Indexed[i] \in indexes

KnownStands == \A p \in Processes : columns # NoTable => known[p] \subseteq columns

FreshIsUnknown == columns = NoTable => \A p \in Processes : known[p] = {}

SchemaInv ==
    /\ Schemas!TypeOK /\ TableStands /\ ColumnsStand /\ IndexesStand
    /\ KnownStands /\ FreshIsUnknown /\ broken = {}

-----------------------------------------------------------------------------
(* What is needed of the lengths and the indices.                           *)
LEMMA Lengths ==
    /\ Len(Added) \in Nat /\ DOMAIN Added = 1..Len(Added)
    /\ Len(Indexed) \in Nat /\ DOMAIN Indexed = 1..Len(Indexed)
    /\ \A i \in DOMAIN Added : Added[i] \in Schemas!All
    /\ \A i \in DOMAIN Indexed :
         Indexed[i] \in Schemas!All /\ Indexed[i] \in Schemas!Members(Indexed)
    /\ Schemas!Opened \in Nat /\ Schemas!Opened >= 3
  BY StoreAssumption DEF Schemas!Opened, Schemas!Members, Schemas!All

(* No table that is there has less than the known columns.                  *)
LEMMA SchemaInitial == ASSUME Schemas!Init PROVE SchemaInv
  BY Lengths, StoreAssumption
    DEF Schemas!Init, SchemaInv, Schemas!TypeOK, TableStands, ColumnsStand,
        IndexesStand, KnownStands, FreshIsUnknown, Schemas!Down

(* A step that leaves the file alone keeps what stands, if the process it   *)
(* moves has what its new place asks for.                                   *)
LEMMA SchemaStep ==
    ASSUME SchemaInv, [Schemas!Next]_schemaVars
    PROVE  SchemaInv'
<1> USE DEF SchemaInv
<1>len. /\ Len(Added) \in Nat /\ DOMAIN Added = 1..Len(Added)
        /\ Len(Indexed) \in Nat /\ DOMAIN Indexed = 1..Len(Indexed)
        /\ \A i \in DOMAIN Added : Added[i] \in Schemas!All
        /\ \A i \in DOMAIN Indexed :
             Indexed[i] \in Schemas!All /\ Indexed[i] \in Schemas!Members(Indexed)
        /\ Schemas!Opened \in Nat /\ Schemas!Opened >= 3
  BY Lengths
<1>1. ASSUME NEW p \in Processes, Schemas!Connect(p) PROVE SchemaInv'
  BY <1>1, <1>len
    DEF Schemas!Connect, Schemas!TypeOK, TableStands, ColumnsStand, IndexesStand,
        KnownStands, FreshIsUnknown, Schemas!Down
<1>2. ASSUME NEW p \in Processes, Schemas!CreateTable(p) PROVE SchemaInv'
  <2>1. /\ columns' # NoTable /\ columns' \subseteq Schemas!All
        /\ (columns # NoTable => columns' = columns)
        /\ (columns = NoTable => columns' = Schemas!All)
    BY <1>2, StoreAssumption DEF Schemas!CreateTable, Schemas!TypeOK
  <2>2. Schemas!TypeOK'
    BY <1>2, <2>1, <1>len DEF Schemas!CreateTable, Schemas!Proceed, Schemas!TypeOK,
           Schemas!Down
  <2>3. ColumnsStand'
    BY <1>2, <2>1, <1>len DEF Schemas!CreateTable, Schemas!Proceed, Schemas!TypeOK,
           ColumnsStand, Schemas!Down
  <2>4. TableStands' /\ KnownStands' /\ FreshIsUnknown' /\ broken' = {}
    BY <1>2, <2>1 DEF Schemas!CreateTable, Schemas!Proceed, Schemas!TypeOK, KnownStands,
           FreshIsUnknown, TableStands
  <2>5. IndexesStand'
    BY <1>2, <1>len DEF Schemas!CreateTable, Schemas!Proceed, Schemas!TypeOK, IndexesStand,
           Schemas!Down
  <2> QED BY <2>2, <2>3, <2>4, <2>5
<1>3. ASSUME NEW p \in Processes, Schemas!TableInfo(p) PROVE SchemaInv'
  <2>1. columns # NoTable /\ columns \in SUBSET Schemas!All
    BY <1>3 DEF Schemas!TableInfo, TableStands, Schemas!TypeOK
  <2>2. Schemas!TypeOK'
    BY <1>3, <2>1, <1>len DEF Schemas!TableInfo, Schemas!Proceed, Schemas!TypeOK,
           Schemas!Down
  <2>3. ColumnsStand' /\ IndexesStand'
    BY <1>3, <1>len DEF Schemas!TableInfo, Schemas!Proceed, Schemas!TypeOK, ColumnsStand,
           IndexesStand, Schemas!Down
  <2>4. TableStands' /\ KnownStands' /\ FreshIsUnknown' /\ broken' = {}
    BY <1>3, <2>1 DEF Schemas!TableInfo, Schemas!Proceed, Schemas!TypeOK, KnownStands,
           FreshIsUnknown, TableStands
  <2> QED BY <2>2, <2>3, <2>4
<1>4. ASSUME NEW p \in Processes, Schemas!AddColumn(p) PROVE SchemaInv'
  <2>1. PICK i \in DOMAIN Added :
          /\ opening[p] = i + 2
          /\ columns' = IF Added[i] \in known[p] THEN columns ELSE columns \cup {Added[i]}
          /\ Schemas!Proceed(p)
          /\ UNCHANGED <<indexes, known, broken>>
    BY <1>4 DEF Schemas!AddColumn
  <2>2. columns # NoTable /\ columns \in SUBSET Schemas!All
    BY <2>1, <1>len DEF TableStands, Schemas!TypeOK
  <2>3. columns \subseteq columns' /\ Added[i] \in columns' /\ columns' \in SUBSET Schemas!All
    BY <2>1, <2>2, <1>len DEF KnownStands
  <2>4. columns' # NoTable
    BY <2>3, StoreAssumption
  <2>5. Schemas!TypeOK'
    <3>1. opening' \in [Processes -> Schemas!Down..Schemas!Opened]
      BY <2>1, <1>len DEF Schemas!Proceed, Schemas!TypeOK, Schemas!Down, Schemas!Opened
    <3> QED BY <3>1, <2>1, <2>3 DEF Schemas!TypeOK
  <2>6. ColumnsStand'
    <3> SUFFICES ASSUME NEW q \in Processes, NEW j \in DOMAIN Added, opening'[q] > j + 2
                 PROVE  Added[j] \in columns'
      BY DEF ColumnsStand
    <3>1. CASE q = p
      <4>1. j = i \/ opening[p] > j + 2
        BY <2>1, <3>1, <1>len DEF Schemas!Proceed, Schemas!TypeOK
      <4> QED BY <4>1, <2>3 DEF ColumnsStand
    <3>2. CASE q # p
      BY <3>2, <2>1, <2>3 DEF Schemas!Proceed, Schemas!TypeOK, ColumnsStand
    <3> QED BY <3>1, <3>2
  <2>7. IndexesStand'
    BY <2>1, <1>len DEF Schemas!Proceed, Schemas!TypeOK, IndexesStand, Schemas!Down
  <2>8. TableStands' /\ KnownStands' /\ FreshIsUnknown' /\ broken' = {}
    BY <2>1, <2>2, <2>3, <2>4 DEF Schemas!TypeOK, KnownStands, FreshIsUnknown, TableStands
  <2> QED BY <2>5, <2>6, <2>7, <2>8
<1>5. ASSUME NEW p \in Processes, Schemas!CreateIndex(p) PROVE SchemaInv'
  <2>1. PICK i \in DOMAIN Indexed :
          /\ opening[p] = i + 2 + Len(Added)
          /\ IF Indexed[i] \in columns
             THEN indexes' = indexes \cup {Indexed[i]} /\ Schemas!Proceed(p) /\ UNCHANGED broken
             ELSE Schemas!Fails(p) /\ UNCHANGED indexes
          /\ UNCHANGED <<columns, known>>
    BY <1>5 DEF Schemas!CreateIndex
  <2>2. Indexed[i] \in columns
    <3>1. PICK j \in DOMAIN Added : Indexed[i] = Added[j]
      BY <1>len DEF Schemas!All, Schemas!Members
    <3>2. opening[p] > j + 2
      BY <2>1, <3>1, <1>len
    <3> QED BY <3>1, <3>2 DEF ColumnsStand
  <2>3. /\ indexes' = indexes \cup {Indexed[i]} /\ Schemas!Proceed(p)
        /\ UNCHANGED <<columns, known, broken>>
    BY <2>1, <2>2
  <2>4. Schemas!TypeOK'
    <3>1. opening' \in [Processes -> Schemas!Down..Schemas!Opened]
      BY <2>1, <2>3, <1>len DEF Schemas!Proceed, Schemas!TypeOK, Schemas!Down,
             Schemas!Opened
    <3> QED BY <3>1, <2>3, <1>len DEF Schemas!TypeOK
  <2>5. IndexesStand'
    <3> SUFFICES ASSUME NEW q \in Processes, NEW j \in DOMAIN Indexed,
                        opening'[q] > j + 2 + Len(Added)
                 PROVE  Indexed[j] \in indexes'
      BY DEF IndexesStand
    <3>1. CASE q = p
      <4>1. j = i \/ opening[p] > j + 2 + Len(Added)
        BY <2>1, <2>3, <3>1, <1>len DEF Schemas!Proceed, Schemas!TypeOK
      <4> QED BY <4>1, <2>3 DEF IndexesStand
    <3>2. CASE q # p
      BY <3>2, <2>3 DEF Schemas!Proceed, Schemas!TypeOK, IndexesStand
    <3> QED BY <3>1, <3>2
  <2>6. ColumnsStand'
    <3> SUFFICES ASSUME NEW q \in Processes, NEW j \in DOMAIN Added, opening'[q] > j + 2
                 PROVE  Added[j] \in columns'
      BY DEF ColumnsStand
    <3>1. opening[q] > j + 2
      BY <2>1, <2>3, <1>len DEF Schemas!Proceed, Schemas!TypeOK, Schemas!Down
    <3> QED BY <3>1, <2>3 DEF ColumnsStand
  <2>7. TableStands' /\ KnownStands' /\ FreshIsUnknown' /\ broken' = {}
    <3>1. opening[p] > 1
      BY <2>1, <1>len
    <3> QED BY <3>1, <2>3 DEF Schemas!Proceed, Schemas!TypeOK, KnownStands, FreshIsUnknown,
                              TableStands
  <2> QED BY <2>4, <2>5, <2>6, <2>7
<1>6. ASSUME NEW p \in Processes, Schemas!Close(p) PROVE SchemaInv'
  BY <1>6, <1>len
    DEF Schemas!Close, Schemas!TypeOK, TableStands, ColumnsStand, IndexesStand,
        KnownStands, FreshIsUnknown, Schemas!Down
<1>7. CASE UNCHANGED schemaVars
  BY <1>7 DEF schemaVars, Schemas!TypeOK, TableStands, ColumnsStand, IndexesStand,
         KnownStands, FreshIsUnknown
<1> QED BY <1>1, <1>2, <1>3, <1>4, <1>5, <1>6, <1>7 DEF Schemas!Next

(* Past the last statement every effect stands.                             *)
LEMMA SchemaImplies == ASSUME SchemaInv PROVE Schemas!TypeOK /\ Schemas!OpenedIsComplete
<1> SUFFICES ASSUME NEW p \in Processes, opening[p] = Schemas!Opened
             PROVE  columns = Schemas!All /\ indexes = Schemas!Members(Indexed)
  BY DEF Schemas!OpenedIsComplete, SchemaInv
<1>1. \A i \in DOMAIN Added : Added[i] \in columns
  BY Lengths DEF SchemaInv, ColumnsStand, Schemas!Opened
<1>2. \A i \in DOMAIN Indexed : Indexed[i] \in indexes
  BY Lengths DEF SchemaInv, IndexesStand, Schemas!Opened
<1>3. columns \subseteq Schemas!All
  BY Lengths DEF SchemaInv, TableStands, Schemas!TypeOK
<1> QED BY <1>1, <1>2, <1>3 DEF Schemas!All, Schemas!Members, SchemaInv, Schemas!TypeOK

(* initializeSchema: "Tolerate a concurrent process winning the race to     *)
(* ALTER".  However many processes open the file and die on the way, a      *)
(* store that opened has all columns and indexes, and no opening is broken. *)
THEOREM OpeningsComplete == StoreSpec => []OpenedIsComplete
<1>1. StoreInit => SchemaInv
  BY SchemaInitial DEF StoreInit
<1>2. SchemaInv /\ [StoreNext]_storeVars => SchemaInv'
  BY SchemaStep, StorePartsStep
<1>3. SchemaInv => OpenedIsComplete
  BY SchemaImplies DEF OpenedIsComplete
<1> QED BY <1>1, <1>2, <1>3, PTL DEF StoreSpec

-----------------------------------------------------------------------------
(* Tables *)

(* A handle past an index of its version finds one of that name, and every  *)
(* index there is was declared by some version.                             *)
NamesTaken ==
    \A p \in Processes : \A i \in DOMAIN declared[p] :
        making[p] > i + 1 =>
            \E other \in created : Table!IndexName(other) = Table!IndexName(declared[p][i])

CreatedWereDeclared ==
    \A index \in created : \E p \in Processes : index \in Table!Range(declared[p])

(* The rows keep to the unique indexes there are. *)
NoDuplicates ==
    \A index \in created : index.unique =>
        \A r, s \in rows : Table!Agree(r, s, index) => r = s

TablesInv == Table!TypeOK /\ NamesTaken /\ CreatedWereDeclared /\ NoDuplicates

(* An empty table has no duplicates.                                       *)
LEMMA TablesInitial == ASSUME Table!Init PROVE TablesInv
<1>1. \A p \in Processes : Len(declared[p]) \in Nat /\ DOMAIN declared[p] \subseteq Nat
  BY StoreAssumption DEF Table!Init
<1>2. Table!TypeOK
  <2>1. exists \in BOOLEAN
    BY DEF Table!Init
  <2> QED BY <1>1, <2>1 DEF Table!Init, Table!TypeOK
<1> QED BY <1>1, <1>2 DEF Table!Init, TablesInv, NamesTaken, CreatedWereDeclared, NoDuplicates

(* What is declared are lists of indexes. *)
LEMMA Declared ==
    ASSUME Table!TypeOK, NEW p \in Processes
    PROVE  /\ declared[p] \in Seq(Table!Index)
           /\ Len(declared[p]) \in Nat /\ DOMAIN declared[p] = 1..Len(declared[p])
           /\ \A i \in DOMAIN declared[p] :
                /\ declared[p][i] \in Table!Index
                /\ declared[p][i] \in Table!Range(declared[p])
           /\ making[p] \in Nat /\ making[p] <= Len(declared[p]) + 2
<1>1. declared[p] \in Seq(Table!Index)
  BY StoreAssumption DEF Table!TypeOK
<1> HIDE DEF Table!Index
<1>2. /\ Len(declared[p]) \in Nat /\ DOMAIN declared[p] = 1..Len(declared[p])
      /\ \A i \in DOMAIN declared[p] : declared[p][i] \in Table!Index
  BY <1>1
<1>3. \A i \in DOMAIN declared[p] : declared[p][i] \in Table!Range(declared[p])
  BY DEF Table!Range
<1> QED BY <1>1, <1>2, <1>3 DEF Table!TypeOK

(* An index is created only over rows it agrees with, or not at all.        *)
LEMMA CreateIndexStep ==
    ASSUME TablesInv, NEW p \in Processes, Table!CreateIndex(p)
    PROVE  TablesInv'
<1> USE DEF TablesInv
<1> DEFINE Taken(index) == \E other \in created : Table!IndexName(other) = Table!IndexName(index)
           Duplicates(index) == index.unique /\ \E r, s \in rows : r # s /\ Table!Agree(r, s, index)
<1>1. PICK i \in DOMAIN declared[p] :
          /\ making[p] = i + 1
          /\ created' = IF Taken(declared[p][i]) \/ Duplicates(declared[p][i]) THEN created
                        ELSE created \cup {declared[p][i]}
          /\ making' = [making EXCEPT ![p] =
                IF Duplicates(declared[p][i]) /\ ~Taken(declared[p][i]) THEN 0 ELSE i + 2]
          /\ UNCHANGED <<declared, exists, rows>>
  BY DEF Table!CreateIndex
<1> DEFINE index == declared[p][i]
<1>2. /\ index \in Table!Index /\ index \in Table!Range(declared[p])
      /\ i \in Nat /\ i <= Len(declared[p]) /\ Len(declared[p]) \in Nat
  BY Declared
<1>3. /\ created \subseteq created' /\ created' \subseteq created \cup {index}
      /\ making' \in [Processes -> Nat] /\ (making'[p] = 0 \/ making'[p] = i + 2)
      /\ \A q \in Processes \ {p} : making'[q] = making[q]
  BY <1>1, <1>2 DEF Table!TypeOK
<1>4. Table!TypeOK'
  BY <1>1, <1>2, <1>3 DEF Table!TypeOK
<1>5. NamesTaken'
  <2> SUFFICES ASSUME NEW q \in Processes, NEW j \in DOMAIN declared[q], making'[q] > j + 1
               PROVE  \E other \in created' :
                        Table!IndexName(other) = Table!IndexName(declared[q][j])
    BY <1>1 DEF NamesTaken
  <2>1. j \in Nat
    BY Declared
  <2>2. CASE making[q] > j + 1
    BY <1>3, <2>2 DEF NamesTaken
  <2>3. CASE ~(making[q] > j + 1)
    <3>1. q = p /\ making'[p] = i + 2 /\ j = i
      BY <1>1, <1>2, <1>3, <2>1, <2>3
    <3>2. Taken(index) \/ ~Duplicates(index)
      BY <1>1, <1>2, <3>1 DEF Table!TypeOK
    <3>3. Taken(index) \/ index \in created'
      BY <1>1, <3>2
    <3> QED BY <1>3, <3>1, <3>3
  <2> QED BY <2>2, <2>3
<1>6. CreatedWereDeclared'
  BY <1>1, <1>2, <1>3 DEF CreatedWereDeclared
<1>7. NoDuplicates'
  <2>1. index \in created' => index \in created \/ ~Duplicates(index)
    BY <1>1
  <2>2. ASSUME ~Duplicates(index), index.unique, NEW r \in rows, NEW s \in rows,
               Table!Agree(r, s, index)
        PROVE  r = s
    BY <2>2
  <2> QED BY <1>1, <1>3, <2>1, <2>2 DEF NoDuplicates
<1> QED BY <1>4, <1>5, <1>6, <1>7

(* A row that conflicts with no other of the table agrees with none on the  *)
(* columns of a unique index.                                               *)
LEMMA RowAdded ==
    ASSUME TablesInv, NEW row \in Table!Rows, NEW kept \in SUBSET rows,
           \A r \in kept : ~Table!Conflict(r, row),
           rows' = kept \cup {row}, UNCHANGED <<declared, exists, created, making>>
    PROVE  TablesInv'
<1> USE DEF TablesInv
<1>1. \A index \in created : index.unique =>
        \A r \in kept : ~Table!Agree(r, row, index) /\ ~Table!Agree(row, r, index)
  BY DEF Table!Conflict, Table!Agree
<1>2. NoDuplicates'
  BY <1>1 DEF NoDuplicates
<1> QED BY <1>2 DEF Table!TypeOK, NamesTaken, CreatedWereDeclared

(* No step of a handle admits a duplicate.                                  *)
LEMMA TablesStep == ASSUME TablesInv, [Table!Next]_tableVars PROVE TablesInv'
<1>1. ASSUME NEW p \in Processes,
             Table!Begin(p) \/ Table!CreateTable(p) \/ Table!Stop(p)
      PROVE  TablesInv'
  <2> USE DEF TablesInv
  <2>1. /\ UNCHANGED <<declared, created, rows>>
        /\ exists' = exists \/ exists' = TRUE
        /\ \E step \in {0, 1, 2} : making' = [making EXCEPT ![p] = step]
    BY <1>1 DEF Table!Begin, Table!CreateTable, Table!Stop
  <2>1a. exists' \in BOOLEAN
    BY <2>1 DEF Table!TypeOK
  <2>1b. /\ making' \in [Processes -> Nat] /\ making'[p] \in {0, 1, 2}
         /\ \A q \in Processes \ {p} : making'[q] = making[q]
    BY <2>1 DEF Table!TypeOK
  <2>2. \A q \in Processes : /\ Len(declared[q]) \in Nat
                             /\ DOMAIN declared[q] = 1..Len(declared[q])
    BY Declared
  <2>3. Table!TypeOK'
    BY <2>1, <2>1a, <2>1b, <2>2 DEF Table!TypeOK
  <2>4. NamesTaken'
    BY <2>1, <2>1b, <2>2 DEF NamesTaken
  <2> QED BY <2>1, <2>3, <2>4 DEF CreatedWereDeclared, NoDuplicates
<1>2. ASSUME NEW p \in Processes, Table!CreateIndex(p) PROVE TablesInv'
  BY <1>2, CreateIndexStep
<1>3. ASSUME NEW p \in Processes, Table!Insert(p) PROVE TablesInv'
  <2>1. PICK row \in Table!Rows : ~(\E r \in rows : Table!Conflict(r, row)) /\ rows' = rows \cup {row}
    BY <1>3 DEF Table!Insert
  <2> QED BY <1>3, <2>1, RowAdded DEF Table!Insert
<1>4. ASSUME NEW p \in Processes, Table!Upsert(p) PROVE TablesInv'
  <2>1. PICK row \in Table!Rows : rows' = {r \in rows : ~Table!Conflict(r, row)} \cup {row}
    BY <1>4 DEF Table!Upsert
  <2> DEFINE kept == {r \in rows : ~Table!Conflict(r, row)}
  <2>2. kept \in SUBSET rows /\ \A r \in kept : ~Table!Conflict(r, row)
    OBVIOUS
  <2>3. rows' = kept \cup {row} /\ UNCHANGED <<declared, exists, created, making>>
    BY <1>4, <2>1 DEF Table!Upsert
  <2> QED BY <2>2, <2>3, RowAdded
<1>5. ASSUME NEW p \in Processes, Table!Clear(p) PROVE TablesInv'
  BY <1>5
    DEF Table!Clear, TablesInv, Table!TypeOK, NamesTaken, CreatedWereDeclared,
        NoDuplicates
<1>6. CASE UNCHANGED tableVars
  BY <1>6
    DEF tableVars, TablesInv, Table!TypeOK, NamesTaken, CreatedWereDeclared,
        NoDuplicates
<1> QED BY <1>1, <1>2, <1>3, <1>4, <1>5, <1>6 DEF Table!Next

(* Nobody else claims the name: what has it is the index itself. *)
LEMMA TablesUnique == ASSUME TablesInv PROVE Table!UniqueIsEnforced
<1> SUFFICES ASSUME NEW p \in Processes, NEW index \in Table!Range(declared[p]),
                    Table!Made(p), index.unique, Table!OwnName(index),
                    NEW r \in rows, NEW s \in rows, Table!Agree(r, s, index)
             PROVE  r = s
  BY DEF Table!UniqueIsEnforced
<1> USE DEF TablesInv
<1>1. PICK i \in DOMAIN declared[p] : index = declared[p][i]
  BY DEF Table!Range
<1>2. making[p] > i + 1
  BY Declared DEF Table!Made
<1>3. PICK other \in created : Table!IndexName(other) = Table!IndexName(index)
  BY <1>1, <1>2 DEF NamesTaken
<1>4. other = index
  BY <1>3 DEF CreatedWereDeclared, Table!OwnName
<1> QED BY <1>3, <1>4 DEF NoDuplicates

(* Table.make "ensures the table and its indexes exist": whatever versions  *)
(* without it write, before or at the same time, a handle with a unique     *)
(* index is to a table without duplicates, if no other index has its name.  *)
THEOREM UniqueStaysUnique == StoreSpec => []UniqueIsEnforced
<1>1. StoreInit => TablesInv
  BY TablesInitial DEF StoreInit
<1>2. TablesInv /\ [StoreNext]_storeVars => TablesInv'
  BY TablesStep, StorePartsStep
<1>3. TablesInv => UniqueIsEnforced
  BY TablesUnique DEF UniqueIsEnforced, TablesInv
<1> QED BY <1>1, <1>2, <1>3, PTL DEF StoreSpec

-----------------------------------------------------------------------------
(* Loops: what a recursive function computes, turn by turn *)

(* Every set of numbers has a least one.                                    *)
LEMMA Least ==
    ASSUME NEW T, T \subseteq Nat, T # {}
    PROVE  \E m \in T : \A k \in T : m <= k
<1> DEFINE R == OpToRel(<, Nat)
<1>1. IsWellFoundedOn(R, Nat)
  BY NatLessThanWellFounded
<1>2. \A x, y \in Nat : x < y => <<x, y>> \in R
  BY DEF R, OpToRel
<1> HIDE DEF R
<1>3. PICK x \in T : \A y \in T : ~ (<<y, x>> \in R)
  BY <1>1, WFMin
<1>4. ASSUME NEW y \in T PROVE x <= y
  <2>1. x \in Nat /\ y \in Nat /\ ~(y < x)
    BY <1>2, <1>3
  <2> QED BY <2>1
<1> QED BY <1>4

(* What holds of the first turn, and of each that follows one of which it   *)
(* holds, holds of all.                                                     *)
LEMMA AllTurns ==
    ASSUME NEW n \in Nat, NEW last \in Nat, NEW Good,
           n \in Good, \A i \in (n + 1)..last : i - 1 \in Good => i \in Good
    PROVE  \A i \in n..last : i \in Good
<1> DEFINE T == (n..last) \ Good
<1>1. SUFFICES ASSUME T # {} PROVE FALSE
  OBVIOUS
<1>2. PICK m \in T : \A k \in T : m <= k
  <2>1. T \subseteq Nat
    OBVIOUS
  <2> HIDE DEF T
  <2> QED BY <1>1, <2>1, Least
<1>3. m \in (n + 1)..last
  BY <1>2
<1>4. m - 1 \in n..last /\ ~(m <= m - 1)
  BY <1>3
<1>5. m - 1 \in Good
  BY <1>2, <1>4
<1> QED BY <1>2, <1>3, <1>5

(* The states of a loop after each of its turns n+1, ..., last.             *)
LoopStates(S, base, n, last, turn) ==
    {after \in [n..last -> S] :
        /\ after[n] = base
        /\ \A i \in n..last : i # n => after[i] = turn[i][after[i - 1]]}

(* There are such states, whatever a turn does to its set.                  *)
LEMMA LoopHasStates ==
    ASSUME NEW S, NEW base \in S, NEW n \in Nat, NEW last \in Nat, n <= last,
           NEW turn \in [n..last -> [S -> S]]
    PROVE  LoopStates(S, base, n, last, turn) # {}
<1> DEFINE States(f, m) == /\ f[n] = base
                           /\ \A i \in n..m : i # n => f[i] = turn[i][f[i - 1]]
           Good == {m \in n..last : \E f \in [n..m -> S] : States(f, m)}
<1>1. n \in Good
  <2> DEFINE f == [i \in n..n |-> base]
  <2>1. f \in [n..n -> S] /\ States(f, n) /\ n \in n..last
    OBVIOUS
  <2> HIDE DEF f, States
  <2> QED BY <2>1
<1>2. ASSUME NEW m \in (n + 1)..last, m - 1 \in Good PROVE m \in Good
  <2>1. PICK f \in [n..(m - 1) -> S] : States(f, m - 1)
    BY <1>2
  <2> DEFINE g == [i \in n..m |-> IF i = m THEN turn[m][f[m - 1]] ELSE f[i]]
  <2>2. m - 1 \in n..(m - 1) /\ f[m - 1] \in S /\ turn[m] \in [S -> S]
    OBVIOUS
  <2>3. turn[m][f[m - 1]] \in S
    BY <2>2
  <2>4. g \in [n..m -> S]
    BY <2>3
  <2>5. ASSUME NEW i \in n..m, i # n PROVE g[i] = turn[i][g[i - 1]]
    <3>1. i - 1 \in n..m /\ i - 1 # m
      BY <2>5
    <3>2. g[i - 1] = f[i - 1]
      BY <3>1
    <3>3. CASE i = m
      BY <3>1, <3>2, <3>3
    <3>4. CASE i # m
      <4>1. i \in n..(m - 1)
        BY <3>4
      <4> QED BY <2>1, <2>5, <3>1, <3>2, <3>4, <4>1
    <3> QED BY <3>3, <3>4
  <2>6. g[n] = base
    BY <2>1
  <2>7. m \in n..last
    OBVIOUS
  <2> HIDE DEF g
  <2> QED BY <2>4, <2>5, <2>6, <2>7
<1> HIDE DEF Good
<1>3. \A i \in n..last : i \in Good
  BY <1>1, <1>2, AllTurns
<1>4. last \in n..last
  OBVIOUS
<1> QED BY <1>3, <1>4 DEF Good, LoopStates

-----------------------------------------------------------------------------
(* A table as a set of rows *)

(* The rows that LIKE the prefix of an entity, one after another.           *)
LEMMA PrefixLoop ==
    ASSUME NEW R, NEW t \in Seq(R), NEW e
    PROVE  \E found \in [0..Len(t) -> Seq(R)] :
             /\ Migrate!RawRowsByPrefix(t, e) = found[Len(t)]
             /\ found[0] = <<>>
             /\ \A i \in 1..Len(t) :
                   found[i] = IF Migrate!Matches(t[i], e) THEN Append(found[i - 1], t[i])
                              ELSE found[i - 1]
<1> DEFINE S == Seq(R)
           turn == [i \in 0..Len(t) |->
                      [s \in S |-> IF i # 0 /\ Migrate!Matches(t[i], e)
                                   THEN Append(s, t[i]) ELSE s]]
           Loop(f) == f = [n \in 0..Len(t) |->
                             IF n = 0 THEN <<>>
                             ELSE IF Migrate!Matches(t[n], e) THEN Append(f[n - 1], t[n])
                             ELSE f[n - 1]]
           states == CHOOSE f : Loop(f)
<1>1. Migrate!RawRowsByPrefix(t, e) = states[Len(t)]
  BY DEF Migrate!RawRowsByPrefix
<1>2. Len(t) \in Nat /\ \A i \in 1..Len(t) : t[i] \in R
  OBVIOUS
<1>3. <<>> \in S
  OBVIOUS
<1>4. ASSUME NEW i \in 1..Len(t), NEW s \in S PROVE Append(s, t[i]) \in S
  BY <1>2
<1>5. turn \in [0..Len(t) -> [S -> S]]
  <2>1. ASSUME NEW i \in 0..Len(t), NEW s \in S, i # 0 PROVE Append(s, t[i]) \in S
    BY <1>2, <2>1, <1>4
  <2> HIDE DEF S
  <2> QED BY <2>1
<1>6. \A i \in 1..Len(t) : \A s \in S :
        turn[i][s] = IF Migrate!Matches(t[i], e) THEN Append(s, t[i]) ELSE s
  OBVIOUS
<1>7. \A i \in 1..Len(t) : i \in 0..Len(t) /\ i # 0 /\ i - 1 \in 0..Len(t)
  BY <1>2
<1> HIDE DEF S, turn
<1>8. PICK f \in [0..Len(t) -> S] :
        f[0] = <<>> /\ \A i \in 1..Len(t) : f[i] = turn[i][f[i - 1]]
  <2>1. 0 \in Nat /\ 0 <= Len(t)
    BY <1>2
  <2>2. LoopStates(S, <<>>, 0, Len(t), turn) # {}
    BY <2>1, <1>2, <1>3, <1>5, LoopHasStates
  <2> QED BY <1>7, <2>2 DEF LoopStates
<1>9. Loop(f)
  <2>1. ASSUME NEW i \in 0..Len(t), i # 0
        PROVE  f[i] = IF Migrate!Matches(t[i], e) THEN Append(f[i - 1], t[i]) ELSE f[i - 1]
    <3>1. i \in 1..Len(t) /\ i - 1 \in 0..Len(t)
      BY <2>1, <1>2
    <3>2. f[i] = turn[i][f[i - 1]] /\ f[i - 1] \in S
      BY <3>1, <1>8, <1>7
    <3> QED BY <3>1, <3>2, <1>6
  <2>2. f[0] = <<>>
    BY <1>8, <1>2
  <2> QED BY <1>8, <2>1, <2>2
<1>10. Loop(states)
  <2> HIDE DEF Loop
  <2> QED BY <1>9
<1> HIDE DEF states
<1>11. /\ states[0] = <<>>
       /\ \A i \in 1..Len(t) :
             states[i] = IF Migrate!Matches(t[i], e) THEN Append(states[i - 1], t[i])
                         ELSE states[i - 1]
  <2>1. 0 \in 0..Len(t)
    BY <1>2
  <2>2. states[0] = <<>>
    BY <1>10, <2>1
  <2>3. ASSUME NEW i \in 1..Len(t)
        PROVE  states[i] = IF Migrate!Matches(t[i], e) THEN Append(states[i - 1], t[i])
                           ELSE states[i - 1]
    BY <1>10, <1>7
  <2> QED BY <2>2, <2>3
<1>12. \A i \in 0..Len(t) : states[i] \in S
  <2> DEFINE Good == {i \in 0..Len(t) : states[i] \in S}
  <2>1. 0 \in Good
    BY <1>11, <1>3, <1>2
  <2>2. \A i \in (0 + 1)..Len(t) : i - 1 \in Good => i \in Good
    <3> SUFFICES ASSUME NEW i \in 1..Len(t), states[i - 1] \in S PROVE states[i] \in S
      BY <1>7
    <3> QED BY <1>11, <1>4
  <2>3. \A i \in 0..Len(t) : i \in Good
    <3> HIDE DEF Good
    <3> QED BY <2>1, <2>2, <1>2, AllTurns
  <2> QED BY <2>3
<1>13. states \in [0..Len(t) -> S]
  BY <1>10, <1>12
<1> QED BY <1>1, <1>11, <1>13 DEF S

(* The rows of a table, no two of which have a key.                         *)
RowsOf(t) == {t[i] : i \in DOMAIN t}
KeysDiffer(t) == \A i, j \in DOMAIN t : t[i].pk = t[j].pk => i = j

(* A row with a new key, at the end.                                        *)
LEMMA AppendedRow ==
    ASSUME NEW R, NEW t \in Seq(R), NEW row \in R, KeysDiffer(t),
           \A r \in RowsOf(t) : r.pk # row.pk
    PROVE  /\ Append(t, row) \in Seq(R)
           /\ KeysDiffer(Append(t, row))
           /\ RowsOf(Append(t, row)) = RowsOf(t) \cup {row}
<1> DEFINE u == Append(t, row)
<1>1. /\ u \in Seq(R)
      /\ Len(t) \in Nat /\ DOMAIN t = 1..Len(t) /\ DOMAIN u = 1..(Len(t) + 1)
      /\ u[Len(t) + 1] = row
      /\ \A k \in DOMAIN t : u[k] = t[k]
  OBVIOUS
<1>2. /\ \A k \in DOMAIN u : k \in DOMAIN t \/ k = Len(t) + 1
      /\ \A k \in DOMAIN t : k \in DOMAIN u
      /\ Len(t) + 1 \in DOMAIN u
  BY <1>1
<1>3. \A k \in DOMAIN t : t[k].pk # row.pk
  BY DEF RowsOf
<1> HIDE DEF u
<1>4. KeysDiffer(u)
  BY <1>1, <1>2, <1>3 DEF KeysDiffer
<1>5. RowsOf(u) = RowsOf(t) \cup {row}
  BY <1>1, <1>2 DEF RowsOf
<1> QED BY <1>1, <1>4, <1>5 DEF u

(* The query returns the rows that match.                                   *)
LEMMA PrefixRows ==
    ASSUME NEW R, NEW t \in Seq(R), NEW e, KeysDiffer(t)
    PROVE  LET found == Migrate!RawRowsByPrefix(t, e) IN
           /\ found \in Seq(R)
           /\ KeysDiffer(found)
           /\ RowsOf(found) = {r \in RowsOf(t) : Migrate!Matches(r, e)}
<1>1. PICK f \in [0..Len(t) -> Seq(R)] :
             /\ Migrate!RawRowsByPrefix(t, e) = f[Len(t)]
             /\ f[0] = <<>>
             /\ \A i \in 1..Len(t) :
                   f[i] = IF Migrate!Matches(t[i], e) THEN Append(f[i - 1], t[i])
                          ELSE f[i - 1]
  BY PrefixLoop
<1>2. Len(t) \in Nat /\ DOMAIN t = 1..Len(t) /\ \A i \in 1..Len(t) : t[i] \in R
  OBVIOUS
<1> DEFINE First(n) == {t[i] : i \in 1..n}
           Right(n) == /\ KeysDiffer(f[n])
                       /\ RowsOf(f[n]) = {r \in First(n) : Migrate!Matches(r, e)}
<1>3. Right(0)
  BY <1>1 DEF KeysDiffer, RowsOf
<1>4. ASSUME NEW n \in 1..Len(t), Right(n - 1) PROVE Right(n)
  <2>1. f[n - 1] \in Seq(R) /\ t[n] \in R
    BY <1>2
  <2>2. First(n) = First(n - 1) \cup {t[n]}
    <3>1. \A i : i \in 1..n <=> i \in 1..(n - 1) \/ i = n
      BY <1>2
    <3> QED BY <3>1
  <2>3. \A r \in First(n - 1) : r.pk # t[n].pk
    <3> SUFFICES ASSUME NEW i \in 1..(n - 1) PROVE t[i].pk # t[n].pk
      OBVIOUS
    <3>1. i \in DOMAIN t /\ n \in DOMAIN t /\ i # n
      BY <1>2
    <3> QED BY <3>1 DEF KeysDiffer
  <2> HIDE DEF First
  <2>4. CASE ~Migrate!Matches(t[n], e)
    <3>1. f[n] = f[n - 1]
      BY <1>1, <2>4
    <3> QED BY <1>4, <2>2, <2>4, <3>1
  <2>5. CASE Migrate!Matches(t[n], e)
    <3>1. f[n] = Append(f[n - 1], t[n])
      BY <1>1, <2>5
    <3>2. \A r \in RowsOf(f[n - 1]) : r.pk # t[n].pk
      BY <1>4, <2>3
    <3>3. KeysDiffer(f[n]) /\ RowsOf(f[n]) = RowsOf(f[n - 1]) \cup {t[n]}
      BY <1>4, <2>1, <3>1, <3>2, AppendedRow
    <3> QED BY <1>4, <2>2, <2>5, <3>3
  <2> QED BY <2>4, <2>5
<1>5. Right(Len(t))
  <2> HIDE DEF Right
  <2> DEFINE Good == {n \in 0..Len(t) : Right(n)}
  <2>1. 0 \in Good
    BY <1>2, <1>3
  <2>2. \A n \in (0 + 1)..Len(t) : n - 1 \in Good => n \in Good
    <3> SUFFICES ASSUME NEW n \in (0 + 1)..Len(t), n - 1 \in Good PROVE n \in Good
      OBVIOUS
    <3>1. n \in 1..Len(t) /\ n \in 0..Len(t) /\ Right(n - 1)
      BY <1>2
    <3> QED BY <1>4, <3>1
  <2>3. \A n \in 0..Len(t) : n \in Good
    <3> HIDE DEF Good
    <3> QED BY <2>1, <2>2, <1>2, AllTurns
  <2>4. Len(t) \in 0..Len(t)
    BY <1>2
  <2> QED BY <2>3, <2>4
<1>6. f[Len(t)] \in Seq(R)
  BY <1>2
<1>7. First(Len(t)) = RowsOf(t)
  BY <1>2 DEF RowsOf
<1> HIDE DEF First
<1> QED BY <1>1, <1>5, <1>6, <1>7

(* What a write under a key leaves of the rows.                             *)
OtherRows(t, key) == {r \in RowsOf(t) : r.pk # key}

(* An upsert puts its row in the place of the one with its key, if any.     *)
LEMMA UpsertedRow ==
    ASSUME NEW R, NEW t \in Seq(R), NEW row \in R, KeysDiffer(t)
    PROVE  /\ Migrate!Upserted(t, row) \in Seq(R)
           /\ KeysDiffer(Migrate!Upserted(t, row))
           /\ RowsOf(Migrate!Upserted(t, row)) = OtherRows(t, row.pk) \cup {row}
<1>1. CASE \E i \in DOMAIN t : t[i].pk = row.pk
  <2> DEFINE u == [i \in DOMAIN t |-> IF t[i].pk = row.pk THEN row ELSE t[i]]
  <2>1. Migrate!Upserted(t, row) = u
    BY <1>1 DEF Migrate!Upserted
  <2>2. u \in Seq(R)
    <3>1. Len(t) \in Nat /\ DOMAIN t = 1..Len(t) /\ \A i \in DOMAIN t : t[i] \in R
      OBVIOUS
    <3>2. u \in [1..Len(t) -> R]
      BY <3>1
    <3> HIDE DEF u
    <3> QED BY <3>1, <3>2
  <2>3. KeysDiffer(u)
    BY DEF KeysDiffer
  <2>4. RowsOf(u) = OtherRows(t, row.pk) \cup {row}
    BY <1>1 DEF RowsOf, OtherRows
  <2> QED BY <2>1, <2>2, <2>3, <2>4
<1>2. CASE ~ \E i \in DOMAIN t : t[i].pk = row.pk
  <2>1. Migrate!Upserted(t, row) = Append(t, row)
    BY <1>2 DEF Migrate!Upserted
  <2>2. \A r \in RowsOf(t) : r.pk # row.pk
    BY <1>2 DEF RowsOf
  <2>3. OtherRows(t, row.pk) = RowsOf(t)
    BY <2>2 DEF OtherRows
  <2> QED BY <2>1, <2>2, <2>3, AppendedRow
<1> QED BY <1>1, <1>2

(* A delete takes the row with its key.                                     *)
LEMMA DeletedRow ==
    ASSUME NEW R, NEW t \in Seq(R), NEW key, KeysDiffer(t)
    PROVE  /\ Migrate!Deleted(t, key) \in Seq(R)
           /\ KeysDiffer(Migrate!Deleted(t, key))
           /\ RowsOf(Migrate!Deleted(t, key)) = OtherRows(t, key)
<1>1. CASE \E i \in DOMAIN t : t[i].pk = key
  <2>1. PICK d \in DOMAIN t : t[d].pk = key /\ Migrate!Deleted(t, key) = Migrate!RemoveAt(t, d)
    BY <1>1 DEF Migrate!Deleted
  <2> DEFINE u == Migrate!RemoveAt(t, d)
  <2>2. Len(t) \in Nat /\ DOMAIN t = 1..Len(t) /\ d \in 1..Len(t)
    OBVIOUS
  <2>3. /\ u \in Seq(R)
        /\ Len(u) = Len(t) - 1
        /\ \A i \in 1..(Len(t) - 1) : u[i] = IF i < d THEN t[i] ELSE t[i + 1]
    <3> DEFINE a == SubSeq(t, 1, d - 1)
               b == SubSeq(t, d + 1, Len(t))
    <3>1. a \in Seq(R) /\ Len(a) = d - 1 /\ \A i \in 1..(d - 1) : a[i] = t[i]
      BY <2>2
    <3>2. b \in Seq(R) /\ Len(b) = Len(t) - d /\ \A i \in 1..(Len(t) - d) : b[i] = t[i + d]
      BY <2>2
    <3>3. u = a \o b
      BY DEF Migrate!RemoveAt
    <3> HIDE DEF a, b, u
    <3>4. /\ u \in Seq(R) /\ Len(u) = Len(t) - 1
          /\ \A i \in 1..(d - 1) : u[i] = a[i]
          /\ \A i \in d..(Len(t) - 1) : u[i] = b[i - d + 1]
      <4>1. u \in Seq(R) /\ Len(u) = Len(a) + Len(b)
        BY <3>1, <3>2, <3>3, ConcatProperties
      <4>2. \A i \in 1..Len(u) : u[i] = IF i <= Len(a) THEN a[i] ELSE b[i - Len(a)]
        <5>1. \A i \in 1..(Len(a) + Len(b)) :
                (a \o b)[i] = IF i <= Len(a) THEN a[i] ELSE b[i - Len(a)]
          BY <3>1, <3>2, ConcatProperties
        <5> QED BY <3>3, <4>1, <5>1
      <4>3. Len(u) = Len(t) - 1
        BY <2>2, <3>1, <3>2, <4>1
      <4>4. ASSUME NEW i \in 1..(d - 1) PROVE u[i] = a[i]
        BY <2>2, <3>1, <4>2, <4>3
      <4>5. ASSUME NEW i \in d..(Len(t) - 1) PROVE u[i] = b[i - d + 1]
        <5>1. i \in 1..Len(u) /\ ~(i <= Len(a)) /\ i - Len(a) = i - d + 1
          BY <2>2, <3>1, <4>3
        <5> QED BY <4>2, <5>1
      <4> QED BY <4>1, <4>3, <4>4, <4>5
    <3>5. \A i \in d..(Len(t) - 1) : i - d + 1 \in 1..(Len(t) - d) /\ (i - d + 1) + d = i + 1
      BY <2>2
    <3>6. ASSUME NEW i \in 1..(Len(t) - 1) PROVE u[i] = IF i < d THEN t[i] ELSE t[i + 1]
      <4>1. CASE i < d
        BY <2>2, <3>1, <3>4, <4>1
      <4>2. CASE ~(i < d)
        <5>1. i \in d..(Len(t) - 1)
          BY <2>2, <4>2
        <5> QED BY <3>2, <3>4, <3>5, <4>2, <5>1
      <4> QED BY <4>1, <4>2
    <3> QED BY <3>4, <3>6
  <2> HIDE DEF u
  <2>4. DOMAIN u = 1..(Len(t) - 1)
    BY <2>3
  <2> DEFINE from(i) == IF i < d THEN i ELSE i + 1
  <2>5. /\ \A i \in DOMAIN u : from(i) \in DOMAIN t /\ from(i) # d /\ u[i] = t[from(i)]
        /\ \A i, j \in DOMAIN u : from(i) = from(j) => i = j
        /\ \A k \in DOMAIN t : k # d => \E i \in DOMAIN u : from(i) = k
    <3>1. \A i \in DOMAIN u : from(i) \in DOMAIN t /\ from(i) # d /\ u[i] = t[from(i)]
      BY <2>2, <2>3, <2>4
    <3>2. \A i, j \in DOMAIN u : from(i) = from(j) => i = j
      BY <2>2, <2>4
    <3>3. ASSUME NEW k \in DOMAIN t, k # d PROVE \E i \in DOMAIN u : from(i) = k
      <4>1. CASE k < d
        BY <2>2, <2>4, <4>1
      <4>2. CASE k > d
        <5>1. k - 1 \in DOMAIN u /\ ~(k - 1 < d) /\ (k - 1) + 1 = k
          BY <2>2, <2>4, <4>2
        <5> QED BY <5>1
      <4> QED BY <2>2, <3>3, <4>1, <4>2
    <3> QED BY <3>1, <3>2, <3>3
  <2> HIDE DEF from
  <2>6. KeysDiffer(u)
    BY <2>5 DEF KeysDiffer
  <2>7. RowsOf(u) = OtherRows(t, key)
    <3>1. \A i \in DOMAIN t : t[i].pk = key <=> i = d
      BY <2>1 DEF KeysDiffer
    <3> QED BY <2>5, <3>1 DEF RowsOf, OtherRows
  <2> QED BY <2>1, <2>3, <2>6, <2>7 DEF u
<1>2. CASE ~ \E i \in DOMAIN t : t[i].pk = key
  <2>1. Migrate!Deleted(t, key) = t
    BY <1>2 DEF Migrate!Deleted
  <2>2. OtherRows(t, key) = RowsOf(t)
    BY <1>2 DEF RowsOf, OtherRows
  <2> QED BY <2>1, <2>2
<1> QED BY <1>1, <1>2

-----------------------------------------------------------------------------
(* A migration *)

(* A row whose payload was upgraded as often as it claims, and again only   *)
(* as often as its version was lowered, and that lies under the key of its  *)
(* payload if it claims a version above zero.                               *)
SoundRows ==
    {r \in Migrate!Rows : /\ r.upgrades = r.version + r.lowered
                          /\ r.version > 0 => r.pk = <<r.entity, r.id>>}

(* What an upgrade that is not refused makes of an id is an id.             *)
LEMMA Renumbered ==
    \A i \in Serials : Renumber[i] # Rejected => Renumber[i] \in Serials
  BY StoreAssumption

(* What a rewrite makes of a row that can be read.                          *)
LEMMA RewrittenRow ==
    ASSUME NEW e \in Migrate!Registered, NEW row \in SoundRows, ~Migrate!Throws(e, row)
    PROVE  LET new == Migrate!MigratedRow(e, row) IN
           /\ new \in SoundRows
           /\ new.pk = Migrate!Target(e, row) /\ Migrate!Matches(new, e)
           /\ new.doc = row.doc /\ new.rev = row.rev
           /\ ~Migrate!Outdated(e, new) /\ ~Migrate!Throws(e, new) /\ Migrate!Unchanged(e, new)
<1> DEFINE new == Migrate!MigratedRow(e, row)
           id == IF Migrate!Outdated(e, row) THEN Renumber[row.id] ELSE row.id
           ups == IF Migrate!Outdated(e, row) THEN row.upgrades + (e.version - row.version)
                  ELSE row.upgrades
           low == IF Migrate!Outdated(e, row) THEN row.lowered
                  ELSE row.lowered + (row.version - e.version)
<1>1. /\ row.id \in Serials /\ row.upgrades \in Nat /\ row.version \in Nat
      /\ row.lowered \in Nat /\ row.doc \in 1..MaxDocs /\ row.rev \in 0..1
      /\ row.upgrades = row.version + row.lowered
  BY StoreAssumption DEF SoundRows, Migrate!Rows, Migrate!Versions
<1>2. e.version \in Migrate!Versions /\ e.version \in Nat /\ e.name \in Names
  BY StoreAssumption DEF Migrate!Registered, Migrate!Versions
<1>3. id \in Serials
  BY <1>1, Renumbered DEF Migrate!Throws
<1>4. ups \in Nat /\ low \in Nat /\ ups = e.version + low
  BY <1>1, <1>2 DEF Migrate!Outdated
<1>5. Migrate!Target(e, row) = <<e.name, id>>
  BY DEF Migrate!Target
<1> HIDE DEF id, ups, low
<1>6. new = [pk |-> <<e.name, id>>, entity |-> e.name, version |-> e.version, id |-> id,
             readable |-> TRUE, upgrades |-> ups, lowered |-> low,
             doc |-> row.doc, rev |-> row.rev]
  BY <1>5 DEF Migrate!MigratedRow, ups, low
<1> HIDE DEF new
<1>7. /\ new.pk = <<e.name, id>> /\ new.entity = e.name /\ new.version = e.version
      /\ new.id = id /\ new.upgrades = ups /\ new.lowered = low
      /\ new.doc = row.doc /\ new.rev = row.rev
  BY <1>6
<1>8. new.readable
  BY <1>6
<1>9. new \in Migrate!Rows
  BY <1>1, <1>2, <1>3, <1>4, <1>6 DEF Migrate!Rows, Migrate!PrimaryKeys
<1>10. ~Migrate!Outdated(e, new)
  BY <1>2, <1>7 DEF Migrate!Outdated
<1>11. ~Migrate!Throws(e, new)
  BY <1>8, <1>10 DEF Migrate!Throws
<1>12. Migrate!Unchanged(e, new)
  BY <1>7, <1>10 DEF Migrate!Unchanged, Migrate!Target
<1>13. new \in SoundRows
  BY <1>4, <1>7, <1>9 DEF SoundRows
<1>14. Migrate!Matches(new, e)
  BY <1>7 DEF Migrate!Matches
<1> QED BY <1>5, <1>7, <1>10, <1>11, <1>12, <1>13, <1>14 DEF new

(* The states of migrateRows.                                               *)
MigrateStates ==
    {s \in [table : Seq(SoundRows), claimed : SUBSET Migrate!PrimaryKeys] :
        KeysDiffer(s.table)}

(* A turn keeps a table a table of sound rows.                              *)
LEMMA TurnStates ==
    ASSUME NEW e \in Migrate!Registered, NEW s \in MigrateStates, NEW row \in SoundRows
    PROVE  Migrate!MigrateRow(e, s, row) \in MigrateStates
<1> DEFINE target == Migrate!Target(e, row)
           new == Migrate!MigratedRow(e, row)
           written == Migrate!Upserted(s.table, new)
           moved == Migrate!Deleted(written, row.pk)
           after == [table |-> IF target = row.pk THEN written ELSE moved,
                     claimed |-> s.claimed \cup {target}]
<1> DEFINE skipped == \/ Migrate!Throws(e, row) \/ Migrate!Unchanged(e, row)
                      \/ target # row.pk /\ target \in s.claimed
<1>1. Migrate!MigrateRow(e, s, row) = IF skipped THEN s ELSE after
  BY DEF Migrate!MigrateRow
<1>2. ASSUME ~Migrate!Throws(e, row) PROVE after \in MigrateStates
  <2>1. new \in SoundRows /\ new.pk = target
    BY <1>2, RewrittenRow
  <2>2. s.table \in Seq(SoundRows) /\ KeysDiffer(s.table) /\ s.claimed \subseteq Migrate!PrimaryKeys
    BY DEF MigrateStates
  <2>3. target \in Migrate!PrimaryKeys
    BY <2>1 DEF SoundRows, Migrate!Rows
  <2> HIDE DEF target, new
  <2>4. written \in Seq(SoundRows) /\ KeysDiffer(written)
    BY <2>1, <2>2, UpsertedRow
  <2> HIDE DEF written
  <2>5. moved \in Seq(SoundRows) /\ KeysDiffer(moved)
    BY <2>4, DeletedRow
  <2> HIDE DEF moved
  <2> QED BY <2>2, <2>3, <2>4, <2>5 DEF MigrateStates
<1> HIDE DEF after
<1> QED BY <1>1, <1>2

(* The loop of migrateRows.                                                 *)
LEMMA MigrateLoop ==
    ASSUME NEW e \in Migrate!Registered, NEW t \in Seq(SoundRows), KeysDiffer(t),
           NEW read \in Seq(SoundRows), NEW n \in 0..Len(read)
    PROVE  \E after \in [n..Len(read) -> MigrateStates] :
             /\ Migrate!MigrateRows(t, e, read, n) = after[Len(read)].table
             /\ after[n] = [table |-> t, claimed |-> Migrate!Claimed(e, read, n)]
             /\ \A i \in n..Len(read) :
                  i # n => after[i] = Migrate!MigrateRow(e, after[i - 1], read[i])
<1> DEFINE S == MigrateStates
           base == [table |-> t, claimed |-> Migrate!Claimed(e, read, n)]
           turn == [i \in n..Len(read) |->
                      [s \in S |-> IF i # n THEN Migrate!MigrateRow(e, s, read[i]) ELSE s]]
           Loop(f) == f = [i \in n..Len(read) |->
                             IF i = n THEN base
                             ELSE Migrate!MigrateRow(e, f[i - 1], read[i])]
           states == CHOOSE f : Loop(f)
<1>1. Migrate!MigrateRows(t, e, read, n) = states[Len(read)].table
  BY DEF Migrate!MigrateRows
<1>2. /\ Len(read) \in Nat /\ n \in Nat /\ n <= Len(read)
      /\ \A i \in 1..Len(read) : read[i] \in SoundRows
  OBVIOUS
<1>3. base \in S
  <2>1. \A i \in DOMAIN read : read[i].pk \in Migrate!PrimaryKeys
    BY DEF SoundRows, Migrate!Rows
  <2>2. ASSUME NEW i \in 1..n, ~Migrate!Throws(e, read[i])
        PROVE  Migrate!Target(e, read[i]) \in Migrate!PrimaryKeys
    <3>1. read[i] \in SoundRows
      BY <1>2
    <3>2. Migrate!MigratedRow(e, read[i]) \in SoundRows
          /\ Migrate!MigratedRow(e, read[i]).pk = Migrate!Target(e, read[i])
      BY <2>2, <3>1, RewrittenRow
    <3> QED BY <3>2 DEF SoundRows, Migrate!Rows
  <2>3. Migrate!Claimed(e, read, n) \subseteq Migrate!PrimaryKeys
    BY <2>1, <2>2 DEF Migrate!Claimed
  <2> QED BY <2>3 DEF MigrateStates
<1>4. ASSUME NEW i \in n..Len(read), i # n, NEW s \in S
      PROVE  Migrate!MigrateRow(e, s, read[i]) \in S
  <2>1. read[i] \in SoundRows
    BY <1>2, <1>4
  <2> QED BY <2>1, TurnStates
<1>5. turn \in [n..Len(read) -> [S -> S]]
  <2> HIDE DEF S
  <2> QED BY <1>4
<1>6. \A i \in n..Len(read) : \A s \in S :
        i # n => turn[i][s] = Migrate!MigrateRow(e, s, read[i])
  OBVIOUS
<1>7. \A i \in n..Len(read) : i # n => i - 1 \in n..Len(read)
  BY <1>2
<1> HIDE DEF S, turn, base
<1>8. PICK f \in [n..Len(read) -> S] :
        f[n] = base /\ \A i \in n..Len(read) : i # n => f[i] = turn[i][f[i - 1]]
  <2>1. LoopStates(S, base, n, Len(read), turn) # {}
    BY <1>2, <1>3, <1>5, LoopHasStates
  <2> QED BY <2>1 DEF LoopStates
<1>9. Loop(f)
  <2>1. ASSUME NEW i \in n..Len(read), i # n
        PROVE  f[i] = Migrate!MigrateRow(e, f[i - 1], read[i])
    <3>1. f[i] = turn[i][f[i - 1]] /\ f[i - 1] \in S
      BY <2>1, <1>8, <1>7
    <3> QED BY <2>1, <3>1, <1>6
  <2> QED BY <1>8, <2>1
<1>10. Loop(states)
  <2> HIDE DEF Loop
  <2> QED BY <1>9
<1> HIDE DEF states
<1>11. /\ states[n] = base
       /\ \A i \in n..Len(read) :
            i # n => states[i] = Migrate!MigrateRow(e, states[i - 1], read[i])
  <2>1. states[n] = base
    BY <1>10, <1>2
  <2>2. ASSUME NEW i \in n..Len(read), i # n
        PROVE  states[i] = Migrate!MigrateRow(e, states[i - 1], read[i])
    BY <1>10, <2>2
  <2> QED BY <2>1, <2>2
<1>12. \A i \in n..Len(read) : states[i] \in S
  <2> DEFINE Good == {i \in n..Len(read) : states[i] \in S}
  <2>1. n \in Good
    BY <1>11, <1>3, <1>2
  <2>2. \A i \in (n + 1)..Len(read) : i - 1 \in Good => i \in Good
    <3> SUFFICES ASSUME NEW i \in (n + 1)..Len(read), states[i - 1] \in S
                 PROVE  states[i] \in S /\ i \in n..Len(read)
      OBVIOUS
    <3>1. i \in n..Len(read) /\ i # n
      BY <1>2
    <3> QED BY <3>1, <1>11, <1>4
  <2>3. \A i \in n..Len(read) : i \in Good
    <3> HIDE DEF Good
    <3> QED BY <2>1, <2>2, <1>2, AllTurns
  <2> QED BY <2>3
<1>13. states \in [n..Len(read) -> S]
  BY <1>10, <1>12
<1> QED BY <1>1, <1>11, <1>13 DEF S, base

(* A migration leaves a table of sound rows, whatever it read and whenever. *)
LEMMA MigrateKeepsSound ==
    ASSUME NEW e \in Migrate!Registered, NEW t \in Seq(SoundRows), KeysDiffer(t),
           NEW read \in Seq(SoundRows), NEW n \in 0..Len(read)
    PROVE  /\ Migrate!MigrateRows(t, e, read, n) \in Seq(SoundRows)
           /\ KeysDiffer(Migrate!MigrateRows(t, e, read, n))
<1>1. PICK after \in [n..Len(read) -> MigrateStates] :
        Migrate!MigrateRows(t, e, read, n) = after[Len(read)].table
  BY MigrateLoop
<1>2. after[Len(read)] \in MigrateStates
  OBVIOUS
<1> QED BY <1>1, <1>2 DEF MigrateStates

(* A turn on a row that is in the table, when all keys of the entity are    *)
(* claimed, skips the row or puts the rewritten one in its stead.           *)
LEMMA TurnMoves ==
    ASSUME NEW e \in Migrate!Registered, NEW s \in MigrateStates, NEW row \in RowsOf(s.table),
           Migrate!Matches(row, e), row \in SoundRows,
           \A r \in RowsOf(s.table) : Migrate!Matches(r, e) => r.pk \in s.claimed
    PROVE  LET next == Migrate!MigrateRow(e, s, row)
               new == Migrate!MigratedRow(e, row)
               skips == \/ Migrate!Throws(e, row) \/ Migrate!Unchanged(e, row)
                        \/ Migrate!Target(e, row) # row.pk /\ Migrate!Target(e, row) \in s.claimed
           IN \/ skips /\ next = s
              \/ /\ ~skips
                 /\ RowsOf(next.table) = (RowsOf(s.table) \ {row}) \cup {new}
                 /\ next.claimed = s.claimed \cup {new.pk}
                 /\ new.pk = row.pk \/ new.pk \notin s.claimed
<1> DEFINE target == Migrate!Target(e, row)
           new == Migrate!MigratedRow(e, row)
           written == Migrate!Upserted(s.table, new)
           moved == Migrate!Deleted(written, row.pk)
           collides == target # row.pk /\ target \in s.claimed
<1>1. CASE Migrate!Throws(e, row) \/ Migrate!Unchanged(e, row) \/ collides
  BY <1>1 DEF Migrate!MigrateRow
<1>2. CASE ~(Migrate!Throws(e, row) \/ Migrate!Unchanged(e, row) \/ collides)
  <2>1. /\ Migrate!MigrateRow(e, s, row).table =
             IF target = row.pk THEN written ELSE moved
        /\ Migrate!MigrateRow(e, s, row).claimed = s.claimed \cup {target}
    BY <1>2 DEF Migrate!MigrateRow
  <2>2. new \in SoundRows /\ new.pk = target /\ Migrate!Matches(new, e)
    BY <1>2, RewrittenRow
  <2>3. s.table \in Seq(SoundRows) /\ KeysDiffer(s.table)
    BY DEF MigrateStates
  <2>4. \A r \in RowsOf(s.table) : r.pk = row.pk => r = row
    BY <2>3 DEF KeysDiffer, RowsOf
  <2>5. target = row.pk \/ target \notin s.claimed
    BY <1>2
  <2>6. \A r \in RowsOf(s.table) : r.pk = target => Migrate!Matches(r, e)
    BY <2>2 DEF Migrate!Matches
  <2> HIDE DEF target, new
  <2>7. /\ written \in Seq(SoundRows) /\ KeysDiffer(written)
        /\ RowsOf(written) = OtherRows(s.table, target) \cup {new}
    BY <2>2, <2>3, UpsertedRow
  <2> HIDE DEF written
  <2>8. RowsOf(moved) = OtherRows(written, row.pk)
    BY <2>7, DeletedRow
  <2> HIDE DEF moved
  <2>9. CASE target = row.pk
    <3>1. RowsOf(written) = (RowsOf(s.table) \ {row}) \cup {new}
      BY <2>4, <2>7, <2>9 DEF OtherRows
    <3> QED BY <1>2, <2>1, <2>2, <2>9, <3>1 DEF new, target
  <2>10. CASE target # row.pk
    <3>1. \A r \in RowsOf(s.table) : r.pk # target
      BY <2>5, <2>6, <2>10
    <3>2. RowsOf(moved) = (RowsOf(s.table) \ {row}) \cup {new}
      BY <2>2, <2>4, <2>7, <2>8, <2>10, <3>1 DEF OtherRows
    <3> QED BY <1>2, <2>1, <2>2, <2>5, <2>10, <3>2 DEF new, target
  <2> QED BY <2>9, <2>10
<1> QED BY <1>1, <1>2

(* The documents of some rows with their revisions, and those of rows that  *)
(* e need not upgrade.                                                      *)
DocsOf(some) == {<<r.doc, r.rev>> : r \in some}
CurrentsOf(some, e) == {r.doc : r \in {q \in some : ~Migrate!Outdated(e, q)}}

(* Both are the same of a table as of the set of its rows.                  *)
LEMMA DocumentsOfRows ==
    ASSUME NEW t, NEW e
    PROVE  /\ Migrate!Documents(t) = DocsOf(RowsOf(t))
           /\ Migrate!CurrentDocs(t, e) = CurrentsOf(RowsOf(t), e)
  BY DEF Migrate!Documents, Migrate!CurrentDocs, DocsOf, CurrentsOf, RowsOf

(* A rewrite of a row keeps its document, and undoes no upgrade.            *)
LEMMA ExchangedRow ==
    ASSUME NEW e \in Migrate!Registered, NEW some, NEW row \in some, row \in SoundRows,
           Migrate!Matches(row, e), ~Migrate!Throws(e, row), ~Migrate!Unchanged(e, row)
    PROVE  LET others == (some \ {row}) \cup {Migrate!MigratedRow(e, row)} IN
           /\ DocsOf(others) = DocsOf(some)
           /\ CurrentsOf(some, e) \subseteq CurrentsOf(others, e)
<1> DEFINE new == Migrate!MigratedRow(e, row)
           others == (some \ {row}) \cup {new}
<1>1. /\ new.doc = row.doc /\ new.rev = row.rev
      /\ ~Migrate!Outdated(e, new) /\ Migrate!Unchanged(e, new)
  BY RewrittenRow
<1> HIDE DEF new
<1>2. DocsOf(others) = DocsOf(some)
  <2>1. ASSUME NEW r \in others PROVE <<r.doc, r.rev>> \in DocsOf(some)
    BY <1>1 DEF DocsOf
  <2>2. ASSUME NEW r \in some PROVE <<r.doc, r.rev>> \in DocsOf(others)
    <3>1. CASE r = row
      <4>1. new \in others /\ <<r.doc, r.rev>> = <<new.doc, new.rev>>
        BY <1>1, <3>1
      <4> QED BY <4>1 DEF DocsOf
    <3>2. CASE r # row
      BY <3>2 DEF DocsOf
    <3> QED BY <3>1, <3>2
  <2> QED BY <2>1, <2>2 DEF DocsOf
<1>3. CurrentsOf(some, e) \subseteq CurrentsOf(others, e)
  <2> SUFFICES ASSUME NEW r \in some, ~Migrate!Outdated(e, r) PROVE r.doc \in CurrentsOf(others, e)
    BY DEF CurrentsOf
  <2>1. CASE r = row
    <3>1. new \in others /\ ~Migrate!Outdated(e, new) /\ new.doc = r.doc
      BY <1>1, <2>1
    <3> QED BY <3>1 DEF CurrentsOf
  <2>2. CASE r # row
    <3>1. r \in others
      BY <2>2
    <3> QED BY <3>1 DEF CurrentsOf
  <2> QED BY <2>1, <2>2
<1> QED BY <1>2, <1>3 DEF new

(* A migration of what is in the table loses no document, brings none back  *)
(* and undoes no upgrade.                                                   *)
LEMMA MigrateAlone ==
    ASSUME NEW e \in Migrate!Registered, NEW t \in Seq(SoundRows), KeysDiffer(t),
           NEW n \in 0..Len(Migrate!RawRowsByPrefix(t, e))
    PROVE  LET u == Migrate!MigrateRows(t, e, Migrate!RawRowsByPrefix(t, e), n) IN
           /\ Migrate!Documents(u) = Migrate!Documents(t)
           /\ Migrate!CurrentDocs(t, e) \subseteq Migrate!CurrentDocs(u, e)
<1> DEFINE read == Migrate!RawRowsByPrefix(t, e)
<1>1. /\ read \in Seq(SoundRows) /\ KeysDiffer(read)
      /\ RowsOf(read) = {r \in RowsOf(t) : Migrate!Matches(r, e)}
  BY PrefixRows
<1> HIDE DEF read
<1>2. n \in 0..Len(read)
  BY DEF read
<1>3. PICK after \in [n..Len(read) -> MigrateStates] :
        /\ Migrate!MigrateRows(t, e, read, n) = after[Len(read)].table
        /\ after[n] = [table |-> t, claimed |-> Migrate!Claimed(e, read, n)]
        /\ \A i \in n..Len(read) :
             i # n => after[i] = Migrate!MigrateRow(e, after[i - 1], read[i])
  BY <1>1, <1>2, MigrateLoop
<1>4. /\ Len(read) \in Nat /\ n \in Nat /\ n <= Len(read) /\ DOMAIN read = 1..Len(read)
      /\ \A i \in 1..Len(read) :
            /\ read[i] \in SoundRows /\ read[i] \in RowsOf(t) /\ Migrate!Matches(read[i], e)
  <2>1. \A i \in 1..Len(read) : read[i] \in SoundRows /\ read[i] \in RowsOf(read)
    BY <1>1 DEF RowsOf
  <2> QED BY <1>1, <1>2, <2>1
<1> DEFINE Kept(s) ==
      /\ DocsOf(RowsOf(s.table)) = DocsOf(RowsOf(t))
      /\ CurrentsOf(RowsOf(t), e) \subseteq CurrentsOf(RowsOf(s.table), e)
    Right(i) ==
      /\ \A r \in RowsOf(after[i].table) : Migrate!Matches(r, e) => r.pk \in after[i].claimed
      /\ \A j \in 1..Len(read) : read[j].pk \in after[i].claimed
      /\ \A j \in (i + 1)..Len(read) : read[j] \in RowsOf(after[i].table)
      /\ Kept(after[i])
<1>5. Right(n)
  <2>1. after[n].table = t /\ after[n].claimed = Migrate!Claimed(e, read, n)
    BY <1>3
  <2>2. \A j \in 1..Len(read) : read[j].pk \in after[n].claimed
    BY <1>4, <2>1 DEF Migrate!Claimed
  <2>3. \A r \in RowsOf(t) : Migrate!Matches(r, e) => \E j \in 1..Len(read) : r = read[j]
    <3>1. \A r \in RowsOf(read) : \E j \in 1..Len(read) : r = read[j]
      BY <1>4 DEF RowsOf
    <3> QED BY <1>1, <3>1
  <2>4. \A j \in (n + 1)..Len(read) : j \in 1..Len(read)
    BY <1>4
  <2>5. Kept(after[n])
    BY <2>1
  <2> QED BY <1>4, <2>1, <2>2, <2>3, <2>4, <2>5
<1>6. ASSUME NEW i \in (n + 1)..Len(read), Right(i - 1) PROVE Right(i)
  <2> DEFINE s == after[i - 1]
             row == read[i]
             new == Migrate!MigratedRow(e, row)
  <2>1. /\ i \in 1..Len(read) /\ i \in n..Len(read) /\ i - 1 \in n..Len(read) /\ i # n
        /\ i \in ((i - 1) + 1)..Len(read)
    BY <1>4
  <2>2. s \in MigrateStates /\ after[i] = Migrate!MigrateRow(e, s, row)
    BY <1>3, <2>1
  <2>3. row \in RowsOf(s.table) /\ row \in SoundRows /\ Migrate!Matches(row, e)
    BY <1>4, <1>6, <2>1
  <2>4. \/ after[i] = s
        \/ /\ ~Migrate!Throws(e, row) /\ ~Migrate!Unchanged(e, row)
           /\ RowsOf(after[i].table) = (RowsOf(s.table) \ {row}) \cup {new}
           /\ after[i].claimed = s.claimed \cup {new.pk}
           /\ new.pk = row.pk \/ new.pk \notin s.claimed
    <3>1. \A r \in RowsOf(s.table) : Migrate!Matches(r, e) => r.pk \in s.claimed
      BY <1>6
    <3> HIDE DEF s, row
    <3> QED BY <2>2, <2>3, <3>1, TurnMoves
  <2>5. \A j \in (i + 1)..Len(read) :
          j \in ((i - 1) + 1)..Len(read) /\ j \in 1..Len(read) /\ j # i
    BY <1>4
  <2>6. CASE after[i] = s
    BY <1>6, <2>5, <2>6
  <2>7. CASE after[i] # s
    <3>1. /\ ~Migrate!Throws(e, row) /\ ~Migrate!Unchanged(e, row)
          /\ RowsOf(after[i].table) = (RowsOf(s.table) \ {row}) \cup {new}
          /\ after[i].claimed = s.claimed \cup {new.pk}
      BY <2>4, <2>7
    <3>2. \A r \in RowsOf(after[i].table) :
            Migrate!Matches(r, e) => r.pk \in after[i].claimed
      BY <1>6, <3>1
    <3>3. \A j \in 1..Len(read) : read[j].pk \in after[i].claimed
      BY <1>6, <3>1
    <3>4. \A j \in (i + 1)..Len(read) : read[j] \in RowsOf(after[i].table)
      <4> SUFFICES ASSUME NEW j \in (i + 1)..Len(read)
                   PROVE  read[j] \in RowsOf(after[i].table)
        OBVIOUS
      <4>1. read[j] \in RowsOf(s.table)
        BY <1>6, <2>5
      <4>2. read[j] # row
        BY <1>1, <1>4, <2>1, <2>5 DEF KeysDiffer
      <4> QED BY <3>1, <4>1, <4>2
    <3>5. /\ DocsOf(RowsOf(after[i].table)) = DocsOf(RowsOf(s.table))
          /\ CurrentsOf(RowsOf(s.table), e) \subseteq CurrentsOf(RowsOf(after[i].table), e)
      <4> DEFINE some == RowsOf(s.table)
      <4>1. row \in some
        BY <2>3
      <4> HIDE DEF some, row
      <4>2. /\ DocsOf((some \ {row}) \cup {new}) = DocsOf(some)
            /\ CurrentsOf(some, e) \subseteq CurrentsOf((some \ {row}) \cup {new}, e)
        BY <2>3, <3>1, <4>1, ExchangedRow
      <4>3. RowsOf(after[i].table) = (some \ {row}) \cup {new}
        BY <3>1 DEF some
      <4> QED BY <4>2, <4>3 DEF some
    <3>6. Kept(after[i])
      BY <1>6, <3>5
    <3> QED BY <3>2, <3>3, <3>4, <3>6
  <2> QED BY <2>6, <2>7
<1>7. Right(Len(read))
  <2> HIDE DEF Right
  <2> DEFINE Good == {i \in n..Len(read) : Right(i)}
  <2>1. n \in Good
    BY <1>4, <1>5
  <2>2. \A i \in (n + 1)..Len(read) : i - 1 \in Good => i \in Good
    <3> SUFFICES ASSUME NEW i \in (n + 1)..Len(read), i - 1 \in Good PROVE i \in Good
      OBVIOUS
    <3>1. i \in n..Len(read) /\ Right(i - 1)
      BY <1>4
    <3> QED BY <1>6, <3>1
  <2>3. \A i \in n..Len(read) : i \in Good
    <3> HIDE DEF Good
    <3> QED BY <2>1, <2>2, <1>4, AllTurns
  <2>4. Len(read) \in n..Len(read)
    BY <1>4
  <2> QED BY <2>3, <2>4
<1> QED BY <1>3, <1>7, DocumentsOfRows DEF read

(* The tables that a migration finds and leaves.                            *)
SoundTables == {t \in Seq(SoundRows) : KeysDiffer(t)}

(* A row has what it takes: it cannot be rewritten, need not be, or its     *)
(* target is taken.                                                         *)
Settled(t, e, r) ==
    \/ Migrate!Throws(e, r) \/ Migrate!Unchanged(e, r)
    \/ Migrate!Target(e, r) # r.pk /\ \E q \in RowsOf(t) : q.pk = Migrate!Target(e, r)

AllSettled(t, e) == \A r \in RowsOf(t) : Migrate!Matches(r, e) => Settled(t, e, r)

(* The rows of an entity, and of those whose names LIKE does not tell from  *)
(* its name.                                                                *)
Mine(t, e) == {r \in RowsOf(t) : Migrate!Matches(r, e)}
OtherThan(t, e) == {r \in RowsOf(t) : ~Migrate!Matches(r, e)}

(* A whole pass leaves settled the rows of a table in which none is to move *)
(* to the key of one that is to move as well, and the other rows alone.     *)
LEMMA PassSettles ==
    ASSUME NEW e \in Migrate!Registered, NEW t \in SoundTables
    PROVE  /\ Migrate!Migrated(t, e) \in SoundTables
           /\ OtherThan(Migrate!Migrated(t, e), e) = OtherThan(t, e)
           /\ ~Migrate!Chained(t, e) => AllSettled(Migrate!Migrated(t, e), e)
<1> DEFINE read == Migrate!RawRowsByPrefix(t, e)
<1>1. t \in Seq(SoundRows) /\ KeysDiffer(t)
  BY DEF SoundTables
<1>2. /\ read \in Seq(SoundRows) /\ KeysDiffer(read)
      /\ RowsOf(read) = {r \in RowsOf(t) : Migrate!Matches(r, e)}
  BY <1>1, PrefixRows
<1>3. Migrate!Migrated(t, e) = Migrate!MigrateRows(t, e, read, 0)
  BY DEF Migrate!Migrated
<1> HIDE DEF read
<1>4. Len(read) \in Nat /\ DOMAIN read = 1..Len(read) /\ 0 \in 0..Len(read)
  BY <1>2
<1>5. PICK after \in [0..Len(read) -> MigrateStates] :
        /\ Migrate!MigrateRows(t, e, read, 0) = after[Len(read)].table
        /\ after[0] = [table |-> t, claimed |-> Migrate!Claimed(e, read, 0)]
        /\ \A i \in 0..Len(read) :
             i # 0 => after[i] = Migrate!MigrateRow(e, after[i - 1], read[i])
  BY <1>1, <1>2, <1>4, MigrateLoop
<1>6. \A i \in 1..Len(read) :
        /\ read[i] \in SoundRows /\ read[i] \in RowsOf(t) /\ Migrate!Matches(read[i], e)
  <2>1. \A i \in 1..Len(read) : read[i] \in SoundRows /\ read[i] \in RowsOf(read)
    BY <1>2, <1>4 DEF RowsOf
  <2> QED BY <1>2, <2>1
<1> DEFINE Holds(u, key) == \E q \in RowsOf(u) : q.pk = key
           Leaves(key) == \E q \in RowsOf(t) : q.pk = key /\ Migrate!Moves(e, q)
           Waits(i, r) == \E j \in (i + 1)..Len(read) : r = read[j]
           Blocked(i, r) == /\ r \in RowsOf(t)
                            /\ Migrate!Target(e, r) # r.pk
                            /\ Migrate!Target(e, r) \in after[i].claimed
           Done(i, r) == Migrate!Throws(e, r) \/ Migrate!Unchanged(e, r)
    Right(i) ==
      /\ \A r \in RowsOf(after[i].table) : Migrate!Matches(r, e) => r.pk \in after[i].claimed
      /\ \A j \in (i + 1)..Len(read) : read[j] \in RowsOf(after[i].table)
      /\ OtherThan(after[i].table, e) = OtherThan(t, e)
      /\ \A key \in after[i].claimed : Holds(after[i].table, key) \/ Leaves(key)
      /\ \A r \in RowsOf(after[i].table) :
            Migrate!Matches(r, e) => Done(i, r) \/ Waits(i, r) \/ Blocked(i, r)
<1>7. Right(0)
  <2>1. after[0].table = t /\ after[0].claimed = Migrate!Claimed(e, read, 0)
    BY <1>5
  <2>2. Migrate!Claimed(e, read, 0) = {r.pk : r \in RowsOf(read)}
    BY DEF Migrate!Claimed, RowsOf
  <2>3. \A r \in RowsOf(read) : \E j \in 1..Len(read) : r = read[j]
    BY <1>4 DEF RowsOf
  <2>4. \A j : j \in (0 + 1)..Len(read) <=> j \in 1..Len(read)
    OBVIOUS
  <2>5. \A r \in RowsOf(t) : Migrate!Matches(r, e) => r \in RowsOf(read)
    BY <1>2
  <2>6. RowsOf(read) \subseteq RowsOf(t)
    BY <1>2
  <2>7. \A r \in RowsOf(after[0].table) : Migrate!Matches(r, e) => r.pk \in after[0].claimed
    BY <2>1, <2>2, <2>5
  <2>8. \A key \in after[0].claimed : Holds(after[0].table, key)
    BY <2>1, <2>2, <2>6
  <2>9. \A r \in RowsOf(after[0].table) : Migrate!Matches(r, e) => Waits(0, r)
    BY <2>1, <2>3, <2>4, <2>5
  <2>10. \A j \in (0 + 1)..Len(read) : read[j] \in RowsOf(after[0].table)
    BY <1>6, <2>1, <2>4
  <2>11. OtherThan(after[0].table, e) = OtherThan(t, e)
    BY <2>1
  <2> QED BY <2>7, <2>8, <2>9, <2>10, <2>11
<1>8. ASSUME NEW i \in 1..Len(read), Right(i - 1) PROVE Right(i)
  <2> DEFINE s == after[i - 1]
             row == read[i]
             new == Migrate!MigratedRow(e, row)
  <2>1. /\ i \in 0..Len(read) /\ i - 1 \in 0..Len(read) /\ i # 0
        /\ i \in ((i - 1) + 1)..Len(read)
    BY <1>4
  <2>2. s \in MigrateStates /\ after[i] = Migrate!MigrateRow(e, s, row)
    BY <1>5, <2>1
  <2>3. row \in RowsOf(s.table) /\ row \in SoundRows /\ Migrate!Matches(row, e)
        /\ row \in RowsOf(t)
    BY <1>6, <1>8, <2>1
  <2>4. /\ \A r \in RowsOf(s.table) : Migrate!Matches(r, e) => r.pk \in s.claimed
        /\ \A j \in ((i - 1) + 1)..Len(read) : read[j] \in RowsOf(s.table)
        /\ OtherThan(s.table, e) = OtherThan(t, e)
        /\ \A key \in s.claimed : Holds(s.table, key) \/ Leaves(key)
        /\ \A r \in RowsOf(s.table) :
              Migrate!Matches(r, e) => Done(i - 1, r) \/ Waits(i - 1, r) \/ Blocked(i - 1, r)
    BY <1>8
  <2>5. \A j \in (i + 1)..Len(read) :
          j \in ((i - 1) + 1)..Len(read) /\ j \in 1..Len(read) /\ j # i
    BY <1>4
  <2>6. \A r : Waits(i - 1, r) => r = row \/ Waits(i, r)
    <3> SUFFICES ASSUME NEW j \in ((i - 1) + 1)..Len(read) PROVE j = i \/ j \in (i + 1)..Len(read)
      OBVIOUS
    <3> QED BY <1>4
  <2>7. CASE Migrate!Throws(e, row) \/ Migrate!Unchanged(e, row)
             \/ (Migrate!Target(e, row) # row.pk /\ Migrate!Target(e, row) \in s.claimed)
    <3>1. after[i] = s
      BY <2>2, <2>7 DEF Migrate!MigrateRow
    <3>2. Done(i, row) \/ Blocked(i, row)
      BY <2>3, <2>7, <3>1
    <3>3. \A r \in RowsOf(after[i].table) :
            Migrate!Matches(r, e) => Done(i, r) \/ Waits(i, r) \/ Blocked(i, r)
      <4> HIDE DEF Waits
      <4> QED BY <2>4, <2>6, <3>1, <3>2
    <3>4. \A j \in (i + 1)..Len(read) : read[j] \in RowsOf(after[i].table)
      BY <2>4, <2>5, <3>1
    <3>5. \A key \in after[i].claimed : Holds(after[i].table, key) \/ Leaves(key)
      BY <2>4, <3>1
    <3>6. \A r \in RowsOf(after[i].table) : Migrate!Matches(r, e) => r.pk \in after[i].claimed
      BY <2>4, <3>1
    <3>7. OtherThan(after[i].table, e) = OtherThan(t, e)
      BY <2>4, <3>1
    <3> HIDE DEF Done, Waits, Blocked, Holds, Leaves
    <3> QED BY <3>3, <3>4, <3>5, <3>6, <3>7
  <2>8. CASE ~(Migrate!Throws(e, row) \/ Migrate!Unchanged(e, row)
               \/ (Migrate!Target(e, row) # row.pk /\ Migrate!Target(e, row) \in s.claimed))
    <3>1. /\ RowsOf(after[i].table) = (RowsOf(s.table) \ {row}) \cup {new}
          /\ after[i].claimed = s.claimed \cup {new.pk}
      <4>1. \A r \in RowsOf(s.table) : Migrate!Matches(r, e) => r.pk \in s.claimed
        BY <2>4
      <4> HIDE DEF s, row
      <4> QED BY <2>2, <2>3, <2>8, <4>1, TurnMoves
    <3>2. /\ new.pk = Migrate!Target(e, row) /\ Migrate!Matches(new, e)
          /\ Migrate!Unchanged(e, new)
      <4> HIDE DEF row
      <4> QED BY <2>3, <2>8, RewrittenRow
    <3>3. row.pk # new.pk => Migrate!Moves(e, row)
      BY <2>3, <2>8, <3>2 DEF Migrate!Moves
    <3> HIDE DEF s, new
    <3>4. \A r \in RowsOf(after[i].table) : Migrate!Matches(r, e) => r.pk \in after[i].claimed
      BY <2>4, <3>1
    <3>5. \A j \in (i + 1)..Len(read) : read[j] \in RowsOf(after[i].table)
      <4> SUFFICES ASSUME NEW j \in (i + 1)..Len(read)
                   PROVE  read[j] \in RowsOf(after[i].table)
        OBVIOUS
      <4>1. read[j] \in RowsOf(s.table)
        BY <2>4, <2>5
      <4>2. read[j] # row
        BY <1>2, <1>4, <1>8, <2>5 DEF KeysDiffer
      <4> QED BY <3>1, <4>1, <4>2
    <3>6. OtherThan(after[i].table, e) = OtherThan(t, e)
      BY <2>3, <2>4, <3>1, <3>2 DEF OtherThan
    <3>7. \A key \in after[i].claimed : Holds(after[i].table, key) \/ Leaves(key)
      <4> SUFFICES ASSUME NEW key \in after[i].claimed
                   PROVE  Holds(after[i].table, key) \/ Leaves(key)
        OBVIOUS
      <4>1. CASE key = new.pk
        BY <3>1, <4>1
      <4>2. CASE key # new.pk
        <5>1. key \in s.claimed
          BY <3>1, <4>2
        <5>2. CASE Leaves(key)
          BY <5>2
        <5>3. CASE Holds(s.table, key)
          <6>1. PICK q \in RowsOf(s.table) : q.pk = key
            BY <5>3
          <6>2. CASE q # row
            BY <3>1, <6>1, <6>2
          <6>3. CASE q = row
            BY <2>3, <3>3, <4>2, <6>1, <6>3
          <6> QED BY <6>2, <6>3
        <5> HIDE DEF Holds, Leaves
        <5> QED BY <2>4, <5>1, <5>2, <5>3
      <4> QED BY <4>1, <4>2
    <3>8. \A r \in RowsOf(after[i].table) :
            Migrate!Matches(r, e) => Done(i, r) \/ Waits(i, r) \/ Blocked(i, r)
      <4> SUFFICES ASSUME NEW r \in RowsOf(after[i].table), Migrate!Matches(r, e)
                   PROVE  Done(i, r) \/ Waits(i, r) \/ Blocked(i, r)
        OBVIOUS
      <4>1. CASE r = new
        BY <3>2, <4>1
      <4>2. CASE r # new
        <5>1. r \in RowsOf(s.table) /\ r # row
          BY <3>1, <4>2
        <5>2. Done(i - 1, r) \/ Waits(i - 1, r) \/ Blocked(i - 1, r)
          BY <2>4, <5>1
        <5>3. Waits(i - 1, r) => Waits(i, r)
          BY <2>6, <5>1
        <5>4. Blocked(i - 1, r) => Blocked(i, r)
          BY <3>1 DEF s
        <5> HIDE DEF Waits, Blocked
        <5> QED BY <5>2, <5>3, <5>4
      <4> QED BY <4>1, <4>2
    <3> HIDE DEF Done, Waits, Blocked, Holds, Leaves
    <3> QED BY <3>4, <3>5, <3>6, <3>7, <3>8
  <2> QED BY <2>7, <2>8
<1>9. Right(Len(read))
  <2> HIDE DEF Right
  <2> DEFINE Good == {i \in 0..Len(read) : Right(i)}
  <2>1. 0 \in Good
    BY <1>4, <1>7
  <2>2. \A i \in (0 + 1)..Len(read) : i - 1 \in Good => i \in Good
    <3> SUFFICES ASSUME NEW i \in (0 + 1)..Len(read), i - 1 \in Good PROVE i \in Good
      OBVIOUS
    <3>1. i \in 1..Len(read) /\ i \in 0..Len(read) /\ Right(i - 1)
      BY <1>4
    <3> QED BY <1>8, <3>1
  <2>3. \A i \in 0..Len(read) : i \in Good
    <3> HIDE DEF Good
    <3> QED BY <2>1, <2>2, <1>4, AllTurns
  <2>4. Len(read) \in 0..Len(read)
    BY <1>4
  <2> QED BY <2>3, <2>4
<1> DEFINE u == after[Len(read)].table
<1>10. u \in SoundTables
  BY <1>4, <1>5 DEF MigrateStates, SoundTables
<1>11. ASSUME ~Migrate!Chained(t, e) PROVE AllSettled(u, e)
  <2> SUFFICES ASSUME NEW r \in RowsOf(u), Migrate!Matches(r, e) PROVE Settled(u, e, r)
    BY DEF AllSettled
  <2>1. ~Waits(Len(read), r)
    BY <1>4
  <2>2. CASE Done(Len(read), r)
    BY <2>2 DEF Settled
  <2>3. CASE Blocked(Len(read), r) /\ ~Migrate!Throws(e, r)
    <3>1. Holds(u, Migrate!Target(e, r)) \/ Leaves(Migrate!Target(e, r))
      BY <1>9, <2>3
    <3>2. ~Leaves(Migrate!Target(e, r))
      <4>1. Migrate!Moves(e, r) /\ r \in RowsOf(t)
        BY <2>3 DEF Migrate!Moves
      <4> QED BY <1>11, <4>1 DEF RowsOf, Migrate!Chained
    <3> QED BY <2>3, <3>1, <3>2 DEF Settled
  <2>4. Done(Len(read), r) \/ Waits(Len(read), r) \/ Blocked(Len(read), r)
    BY <1>9
  <2> HIDE DEF Waits, Blocked
  <2> QED BY <2>1, <2>2, <2>3, <2>4
<1>12. OtherThan(u, e) = OtherThan(t, e)
  BY <1>9
<1> QED BY <1>3, <1>5, <1>10, <1>11, <1>12

(* A pass over a table whose rows are settled rewrites nothing.             *)
LEMMA SettledRests ==
    ASSUME NEW e \in Migrate!Registered, NEW t \in SoundTables, AllSettled(t, e)
    PROVE  Migrate!Migrated(t, e) = t
<1> DEFINE read == Migrate!RawRowsByPrefix(t, e)
<1>1. t \in Seq(SoundRows) /\ KeysDiffer(t)
  BY DEF SoundTables
<1>2. /\ read \in Seq(SoundRows)
      /\ RowsOf(read) = {r \in RowsOf(t) : Migrate!Matches(r, e)}
  BY <1>1, PrefixRows
<1>3. Migrate!Migrated(t, e) = Migrate!MigrateRows(t, e, read, 0)
  BY DEF Migrate!Migrated
<1> HIDE DEF read
<1>4. Len(read) \in Nat /\ DOMAIN read = 1..Len(read) /\ 0 \in 0..Len(read)
  BY <1>2
<1> DEFINE start == [table |-> t, claimed |-> Migrate!Claimed(e, read, 0)]
<1>5. PICK after \in [0..Len(read) -> MigrateStates] :
        /\ Migrate!MigrateRows(t, e, read, 0) = after[Len(read)].table
        /\ after[0] = start
        /\ \A i \in 0..Len(read) :
             i # 0 => after[i] = Migrate!MigrateRow(e, after[i - 1], read[i])
  BY <1>1, <1>2, <1>4, MigrateLoop
<1>6. \A r \in RowsOf(read) : r.pk \in Migrate!Claimed(e, read, 0)
  BY DEF Migrate!Claimed, RowsOf
<1>7. ASSUME NEW i \in 1..Len(read), after[i - 1] = start PROVE after[i] = start
  <2> DEFINE row == read[i]
  <2>1. row \in RowsOf(read) /\ i \in 0..Len(read) /\ i # 0
    BY <1>4 DEF RowsOf
  <2>2. row \in RowsOf(t) /\ Migrate!Matches(row, e) /\ after[i] = Migrate!MigrateRow(e, start, row)
    BY <1>2, <1>5, <1>7, <2>1
  <2> HIDE DEF row
  <2>3. Settled(t, e, row)
    BY <2>2 DEF AllSettled
  <2>4. \A q \in RowsOf(t) : q.pk = Migrate!Target(e, row) => q \in RowsOf(read)
    BY <1>2 DEF Migrate!Matches, Migrate!Target
  <2>5. \/ Migrate!Throws(e, row) \/ Migrate!Unchanged(e, row)
        \/ Migrate!Target(e, row) # row.pk
           /\ Migrate!Target(e, row) \in Migrate!Claimed(e, read, 0)
    BY <1>6, <2>3, <2>4 DEF Settled
  <2> QED BY <2>2, <2>5 DEF Migrate!MigrateRow
<1>8. after[Len(read)] = start
  <2> HIDE DEF start
  <2> DEFINE Good == {i \in 0..Len(read) : after[i] = start}
  <2>1. 0 \in Good
    BY <1>4, <1>5
  <2>2. \A i \in (0 + 1)..Len(read) : i - 1 \in Good => i \in Good
    <3> SUFFICES ASSUME NEW i \in (0 + 1)..Len(read), i - 1 \in Good PROVE i \in Good
      OBVIOUS
    <3>1. i \in 1..Len(read) /\ i \in 0..Len(read) /\ after[i - 1] = start
      BY <1>4
    <3> QED BY <1>7, <3>1
  <2>3. \A i \in 0..Len(read) : i \in Good
    <3> HIDE DEF Good
    <3> QED BY <2>1, <2>2, <1>4, AllTurns
  <2>4. Len(read) \in 0..Len(read)
    BY <1>4
  <2> QED BY <2>3, <2>4
<1> QED BY <1>3, <1>5, <1>8

(* Whether rows of an entity are settled, or wait for each other, is said   *)
(* by these rows.                                                           *)
LEMMA MineDecide ==
    ASSUME NEW e, NEW t, NEW u, Mine(t, e) = Mine(u, e)
    PROVE  /\ AllSettled(t, e) => AllSettled(u, e)
           /\ Migrate!Chained(u, e) => Migrate!Chained(t, e)
<1>1. \A r : r \in RowsOf(t) /\ Migrate!Matches(r, e) <=> r \in RowsOf(u) /\ Migrate!Matches(r, e)
  BY DEF Mine
<1>2. ASSUME AllSettled(t, e), NEW r \in RowsOf(u), Migrate!Matches(r, e)
      PROVE  Settled(u, e, r)
  <2>1. Settled(t, e, r)
    BY <1>1, <1>2 DEF AllSettled
  <2>2. ASSUME NEW q \in RowsOf(t), q.pk = Migrate!Target(e, r) PROVE q \in RowsOf(u)
    BY <1>1, <2>2 DEF Migrate!Matches, Migrate!Target
  <2> QED BY <2>1, <2>2 DEF Settled
<1>3. ASSUME Migrate!Chained(u, e) PROVE Migrate!Chained(t, e)
  <2>1. PICK i, j \in DOMAIN u :
          Migrate!Moves(e, u[i]) /\ Migrate!Moves(e, u[j]) /\ Migrate!Target(e, u[i]) = u[j].pk
    BY <1>3 DEF Migrate!Chained
  <2>2. u[i] \in RowsOf(t) /\ u[j] \in RowsOf(t)
    BY <1>1, <2>1 DEF RowsOf, Migrate!Moves
  <2> QED BY <2>1, <2>2 DEF RowsOf, Migrate!Chained
<1> QED BY <1>2, <1>3 DEF AllSettled

(* The passes of a migrateAll.                                              *)
LEMMA PassesLoop ==
    ASSUME NEW registry \in Seq(Migrate!Registered), NEW t \in SoundTables
    PROVE  \E after \in [0..Len(registry) -> SoundTables] :
             /\ Migrate!MigratedAll(t, registry) = after[Len(registry)]
             /\ after[0] = t
             /\ \A k \in 1..Len(registry) :
                  after[k] = Migrate!Migrated(after[k - 1], registry[k])
<1> DEFINE m == Len(registry)
           Loop(f) == f = [k \in 0..m |->
                             IF k = 0 THEN t ELSE Migrate!Migrated(f[k - 1], registry[k])]
           states == CHOOSE f : Loop(f)
           turn == [k \in 0..m |-> [u \in SoundTables |->
                      IF k # 0 THEN Migrate!Migrated(u, registry[k]) ELSE u]]
<1>1. Migrate!MigratedAll(t, registry) = states[m]
  BY DEF Migrate!MigratedAll
<1>2. m \in Nat /\ \A k \in 1..m : registry[k] \in Migrate!Registered
  OBVIOUS
<1> HIDE DEF m
<1>3. turn \in [0..m -> [SoundTables -> SoundTables]]
  <2>1. ASSUME NEW k \in 0..m, NEW u \in SoundTables, k # 0
        PROVE  Migrate!Migrated(u, registry[k]) \in SoundTables
    <3>1. k \in 1..m
      BY <1>2, <2>1
    <3> QED BY <1>2, <3>1, PassSettles
  <2> QED BY <2>1
<1>4. \A k \in 0..m : \A u \in SoundTables :
        k # 0 => turn[k][u] = Migrate!Migrated(u, registry[k])
  OBVIOUS
<1>5. \A k \in 0..m : k # 0 => k \in 1..m /\ k - 1 \in 0..m
  BY <1>2
<1> HIDE DEF turn
<1>6. PICK f \in [0..m -> SoundTables] :
        f[0] = t /\ \A k \in 0..m : k # 0 => f[k] = turn[k][f[k - 1]]
  <2>1. 0 \in Nat /\ 0 <= m
    BY <1>2
  <2>2. LoopStates(SoundTables, t, 0, m, turn) # {}
    BY <2>1, <1>2, <1>3, LoopHasStates
  <2> QED BY <2>2 DEF LoopStates
<1>7. Loop(f)
  <2>1. ASSUME NEW k \in 0..m, k # 0 PROVE f[k] = Migrate!Migrated(f[k - 1], registry[k])
    <3>1. f[k] = turn[k][f[k - 1]] /\ f[k - 1] \in SoundTables
      BY <2>1, <1>6, <1>5
    <3> QED BY <2>1, <3>1, <1>4
  <2> QED BY <1>6, <2>1
<1>8. Loop(states)
  <2> HIDE DEF Loop
  <2> QED BY <1>7
<1> HIDE DEF states
<1>9. states[0] = t
  BY <1>2, <1>8
<1>10. ASSUME NEW k \in 1..m PROVE states[k] = Migrate!Migrated(states[k - 1], registry[k])
  <2>1. k \in 0..m /\ k # 0
    BY <1>2
  <2> QED BY <1>8, <2>1
<1>11. \A k \in 0..m : states[k] \in SoundTables
  <2> DEFINE Good == {k \in 0..m : states[k] \in SoundTables}
  <2>1. 0 \in Good
    BY <1>2, <1>9
  <2>2. \A k \in (0 + 1)..m : k - 1 \in Good => k \in Good
    <3> SUFFICES ASSUME NEW k \in 1..m, states[k - 1] \in SoundTables
                 PROVE  states[k] \in SoundTables /\ k \in 0..m
      OBVIOUS
    <3>1. registry[k] \in Migrate!Registered /\ states[k] = Migrate!Migrated(states[k - 1], registry[k])
      BY <1>2, <1>10
    <3>2. states[k] \in SoundTables
      BY <3>1, PassSettles
    <3> QED BY <1>2, <3>2
  <2>3. \A k \in 0..m : k \in Good
    <3> HIDE DEF Good
    <3> QED BY <2>1, <2>2, <1>2, AllTurns
  <2> QED BY <2>3
<1>12. states \in [0..m -> SoundTables]
  BY <1>8, <1>11
<1> QED BY <1>1, <1>9, <1>10, <1>12 DEF m

(* A second migrateAll rewrites nothing if LIKE tells the names of the      *)
(* entities apart and no row is to move to the key of one that is to move.  *)
LEMMA SecondRun ==
    ASSUME NEW registry \in Seq(Migrate!Registered), NEW t \in SoundTables,
           Migrate!NamesDiffer(registry),
           \A k \in DOMAIN registry : ~Migrate!Chained(t, registry[k])
    PROVE  Migrate!MigratedAll(Migrate!MigratedAll(t, registry), registry)
             = Migrate!MigratedAll(t, registry)
<1> DEFINE m == Len(registry)
           once == Migrate!MigratedAll(t, registry)
<1>1. m \in Nat /\ DOMAIN registry = 1..m /\ \A k \in 1..m : registry[k] \in Migrate!Registered
  OBVIOUS
<1>2. PICK after \in [0..m -> SoundTables] :
        /\ once = after[m]
        /\ after[0] = t
        /\ \A k \in 1..m : after[k] = Migrate!Migrated(after[k - 1], registry[k])
  BY PassesLoop
<1> HIDE DEF m
<1> DEFINE Right(k) ==
      /\ \A l \in 1..m : l <= k => AllSettled(after[k], registry[l])
      /\ \A l \in 1..m : l > k => ~Migrate!Chained(after[k], registry[l])
<1>3. Right(0)
  BY <1>1, <1>2
<1>4. ASSUME NEW k \in 1..m, Right(k - 1) PROVE Right(k)
  <2> DEFINE e == registry[k]
             u == after[k - 1]
             v == after[k]
  <2>1. k - 1 \in 0..m /\ k > k - 1 /\ \A l \in 1..m : l # k => (l <= k <=> l <= k - 1)
    BY <1>1
  <2>2. u \in SoundTables /\ e \in Migrate!Registered /\ v = Migrate!Migrated(u, e)
    BY <1>1, <1>2, <2>1
  <2>3. ~Migrate!Chained(u, e)
    BY <1>4, <2>1
  <2>4. AllSettled(v, e) /\ OtherThan(v, e) = OtherThan(u, e)
    <3> HIDE DEF e, u, v
    <3> QED BY <2>2, <2>3, PassSettles
  <2>5. ASSUME NEW l \in 1..m, l # k
        PROVE  /\ AllSettled(u, registry[l]) => AllSettled(v, registry[l])
               /\ Migrate!Chained(v, registry[l]) => Migrate!Chained(u, registry[l])
    <3>1. LikeName[registry[l].name] # LikeName[e.name]
      BY <1>1, <2>5 DEF Migrate!NamesDiffer
    <3> DEFINE d == registry[l]
    <3> HIDE DEF d, e, u, v
    <3>2. Mine(u, d) = Mine(v, d)
      <4>1. \A r : Migrate!Matches(r, d) => ~Migrate!Matches(r, e)
        BY <3>1 DEF Migrate!Matches, d
      <4> QED BY <2>4, <4>1 DEF Mine, OtherThan
    <3>3. /\ AllSettled(u, d) => AllSettled(v, d)
          /\ Migrate!Chained(v, d) => Migrate!Chained(u, d)
      BY <3>2, MineDecide
    <3> QED BY <3>3 DEF d
  <2>6. \A l \in 1..m : l <= k => AllSettled(v, registry[l])
    BY <1>4, <2>1, <2>4, <2>5
  <2>7. \A l \in 1..m : l > k => ~Migrate!Chained(v, registry[l])
    <3> SUFFICES ASSUME NEW l \in 1..m, l > k PROVE ~Migrate!Chained(v, registry[l])
      OBVIOUS
    <3>1. l # k /\ l > k - 1
      BY <1>1
    <3>2. ~Migrate!Chained(u, registry[l])
      BY <1>4, <3>1
    <3> QED BY <2>5, <3>1, <3>2
  <2> QED BY <2>6, <2>7
<1>5. Right(m)
  <2> HIDE DEF Right
  <2> DEFINE Good == {k \in 0..m : Right(k)}
  <2>1. 0 \in Good
    BY <1>1, <1>3
  <2>2. \A k \in (0 + 1)..m : k - 1 \in Good => k \in Good
    <3> SUFFICES ASSUME NEW k \in (0 + 1)..m, k - 1 \in Good PROVE k \in Good
      OBVIOUS
    <3>1. k \in 1..m /\ k \in 0..m /\ Right(k - 1)
      BY <1>1
    <3> QED BY <1>4, <3>1
  <2>3. \A k \in 0..m : k \in Good
    <3> HIDE DEF Good
    <3> QED BY <2>1, <2>2, <1>1, AllTurns
  <2>4. m \in 0..m
    BY <1>1
  <2> QED BY <2>3, <2>4
<1>6. once \in SoundTables /\ \A l \in 1..m : Migrate!Migrated(once, registry[l]) = once
  <2>1. once \in SoundTables
    BY <1>1, <1>2
  <2>2. \A l \in 1..m : AllSettled(once, registry[l])
    BY <1>1, <1>2, <1>5
  <2> HIDE DEF once
  <2> QED BY <1>1, <2>1, <2>2, SettledRests
<1> HIDE DEF once
<1>7. PICK again \in [0..m -> SoundTables] :
        /\ Migrate!MigratedAll(once, registry) = again[m]
        /\ again[0] = once
        /\ \A k \in 1..m : again[k] = Migrate!Migrated(again[k - 1], registry[k])
  BY <1>6, PassesLoop DEF m
<1>8. again[m] = once
  <2> DEFINE Good == {k \in 0..m : again[k] = once}
  <2>1. 0 \in Good
    BY <1>1, <1>7
  <2>2. \A k \in (0 + 1)..m : k - 1 \in Good => k \in Good
    <3> SUFFICES ASSUME NEW k \in 1..m, again[k - 1] = once
                 PROVE  again[k] = once /\ k \in 0..m
      OBVIOUS
    <3> QED BY <1>1, <1>6, <1>7
  <2>3. \A k \in 0..m : k \in Good
    <3> HIDE DEF Good
    <3> QED BY <2>1, <2>2, <1>1, AllTurns
  <2>4. m \in 0..m
    BY <1>1
  <2> QED BY <2>3, <2>4
<1> QED BY <1>7, <1>8 DEF once

-----------------------------------------------------------------------------
(* The rows that processes share *)

(* Whoever writes when: rows are sound and their keys differ, in the table  *)
(* and in what migrations have read.                                        *)
RowsInv ==
    /\ table \in SoundTables
    /\ docs \in 0..MaxDocs
    /\ serving \in SUBSET Migrators
    /\ plan \in [Migrators -> (Migrate!Registered \X Seq(SoundRows)) \cup {Migrate!NoPlan}]

(* The rows an older program left are sound.                                *)
LEMMA RowsInitial == ASSUME Migrate!Init PROVE RowsInv
<1>1. PICK stored \in [1..docs -> Migrate!StoredRows] :
        /\ \A i, j \in 1..docs : stored[i].pk = stored[j].pk => i = j
        /\ table = [i \in 1..docs |-> [stored[i] EXCEPT !.doc = i]]
  BY DEF Migrate!Init
<1>2. docs \in 0..MaxStored /\ docs \in Nat /\ docs \in 0..MaxDocs
  BY StoreAssumption DEF Migrate!Init
<1>3. ASSUME NEW i \in 1..docs
      PROVE  table[i] \in SoundRows /\ table[i].pk = stored[i].pk
  <2>1. stored[i] \in Migrate!StoredRows /\ i \in 1..MaxDocs
    BY <1>2, StoreAssumption
  <2> DEFINE old == stored[i]
  <2>2. table[i] = [old EXCEPT !.doc = i]
    BY <1>1
  <2> HIDE DEF old
  <2>3. old \in Migrate!StoredRows
    BY <2>1 DEF old
  <2>4. /\ old \in [pk : Migrate!PrimaryKeys, entity : Names \cup {NoEntity},
                    version : Migrate!Versions, id : Serials, readable : BOOLEAN,
                    upgrades : Migrate!Versions, lowered : {0}, doc : {1}, rev : {0}]
        /\ old.upgrades = old.version
        /\ old.version > 0 => old.pk = <<old.entity, old.id>>
    BY <2>3 DEF Migrate!StoredRows
  <2>5. Migrate!Versions \subseteq Nat
    BY StoreAssumption DEF Migrate!Versions
  <2>6. table[i] \in Migrate!Rows
    BY <2>1, <2>2, <2>4, <2>5 DEF Migrate!Rows
  <2>7. /\ table[i].pk = old.pk /\ table[i].version = old.version
        /\ table[i].upgrades = old.upgrades /\ table[i].lowered = 0
        /\ table[i].entity = old.entity /\ table[i].id = old.id
    BY <2>2, <2>4
  <2>8. old.version \in Nat
    BY <2>4, <2>5
  <2>9. table[i] \in SoundRows
    BY <2>4, <2>6, <2>7, <2>8 DEF SoundRows
  <2> QED BY <2>7, <2>9 DEF old
<1>4. DOMAIN table = 1..docs
  BY <1>1
<1>5. table \in [1..docs -> SoundRows]
  BY <1>1, <1>3
<1>6. table \in Seq(SoundRows)
  BY <1>2, <1>5
<1>7. KeysDiffer(table)
  BY <1>1, <1>3, <1>4 DEF KeysDiffer
<1> QED BY <1>2, <1>6, <1>7 DEF RowsInv, SoundTables, Migrate!Init

(* The row of a put is sound.                                               *)
LEMMA PutRow ==
    ASSUME NEW e \in Migrate!Registered, NEW i \in Serials, NEW d \in 1..MaxDocs
    PROVE  [pk |-> <<e.name, i>>, entity |-> e.name, version |-> e.version, id |-> i,
            readable |-> TRUE, upgrades |-> e.version, lowered |-> 0,
            doc |-> d, rev |-> 0] \in SoundRows
<1>1. e.name \in Names /\ e.version \in Migrate!Versions /\ e.version \in Nat
  BY StoreAssumption DEF Migrate!Registered, Migrate!Versions
<1> DEFINE row == [pk |-> <<e.name, i>>, entity |-> e.name, version |-> e.version, id |-> i,
                   readable |-> TRUE, upgrades |-> e.version, lowered |-> 0,
                   doc |-> d, rev |-> 0]
<1>2. row \in Migrate!Rows
  BY <1>1 DEF Migrate!Rows, Migrate!PrimaryKeys
<1>3. row.upgrades = row.version + row.lowered /\ row.pk = <<row.entity, row.id>>
  BY <1>1
<1> HIDE DEF row
<1>4. row \in SoundRows
  BY <1>2, <1>3 DEF SoundRows
<1> QED BY <1>4 DEF row

(* A sound row with the key of the old one in its place.                    *)
LEMMA ReplacedRow ==
    ASSUME NEW t \in SoundTables, NEW i \in DOMAIN t, NEW row \in SoundRows,
           row.pk = t[i].pk
    PROVE  [t EXCEPT ![i] = row] \in SoundTables
<1> DEFINE u == [t EXCEPT ![i] = row]
<1>1. t \in Seq(SoundRows) /\ KeysDiffer(t)
  BY DEF SoundTables
<1>2. u \in Seq(SoundRows)
  BY <1>1
<1>3. KeysDiffer(u)
  BY <1>1 DEF KeysDiffer
<1> QED BY <1>2, <1>3 DEF SoundTables

(* A touched row is sound.                                                  *)
LEMMA TouchedTable ==
    ASSUME NEW t \in SoundTables, NEW i \in DOMAIN t
    PROVE  [t EXCEPT ![i].rev = 1] \in SoundTables
<1>1. t[i] \in SoundRows
  BY DEF SoundTables
<1> DEFINE old == t[i]
           row == [old EXCEPT !.rev = 1]
<1>2. [t EXCEPT ![i].rev = 1] = [t EXCEPT ![i] = row]
  OBVIOUS
<1>3. old \in SoundRows
  BY <1>1
<1> HIDE DEF old
<1>4. old \in Migrate!Rows
  BY <1>3 DEF SoundRows
<1>5. /\ row \in Migrate!Rows /\ row.pk = old.pk /\ row.upgrades = old.upgrades
      /\ row.lowered = old.lowered /\ row.version = old.version
      /\ row.entity = old.entity /\ row.id = old.id
  BY <1>4 DEF Migrate!Rows
<1> HIDE DEF row
<1>6. row \in SoundRows
  BY <1>3, <1>5 DEF SoundRows
<1>7. [t EXCEPT ![i] = row] \in SoundTables
  BY <1>5, <1>6, ReplacedRow DEF old
<1> QED BY <1>2, <1>7

(* So is one that an update put in the place of a row that is not older     *)
(* than the entity.                                                         *)
LEMMA ModifiedTable ==
    ASSUME NEW e \in Migrate!Registered, NEW t \in SoundTables, NEW i \in DOMAIN t,
           t[i].pk[1] = e.name, ~Migrate!Outdated(e, t[i])
    PROVE  [t EXCEPT ![i] =
              [pk |-> t[i].pk, entity |-> e.name, version |-> e.version, id |-> t[i].pk[2],
               readable |-> TRUE, upgrades |-> t[i].upgrades,
               lowered |-> t[i].lowered + (t[i].version - e.version),
               doc |-> t[i].doc, rev |-> 1]] \in SoundTables
<1> DEFINE old == t[i]
           low == old.lowered + (old.version - e.version)
           row == [pk |-> old.pk, entity |-> e.name, version |-> e.version, id |-> old.pk[2],
                   readable |-> TRUE, upgrades |-> old.upgrades, lowered |-> low,
                   doc |-> old.doc, rev |-> 1]
<1>1. old \in SoundRows /\ ~Migrate!Outdated(e, old) /\ old.pk[1] = e.name
  BY DEF SoundTables
<1>2. e.name \in Names /\ e.version \in Migrate!Versions /\ e.version \in Nat
  BY StoreAssumption DEF Migrate!Registered, Migrate!Versions
<1> HIDE DEF old
<1>3. /\ old.pk \in Names \X Serials /\ old.upgrades \in Nat /\ old.lowered \in Nat
      /\ old.version \in Nat /\ old.doc \in 1..MaxDocs
      /\ old.upgrades = old.version + old.lowered
  BY <1>1, StoreAssumption DEF SoundRows, Migrate!Rows, Migrate!PrimaryKeys, Migrate!Versions
<1>4. old.pk[2] \in Serials /\ old.pk = <<e.name, old.pk[2]>>
  BY <1>1, <1>3
<1>5. low \in Nat /\ old.upgrades = e.version + low
  BY <1>1, <1>2, <1>3 DEF Migrate!Outdated
<1> HIDE DEF low
<1>6. row \in Migrate!Rows
  BY <1>2, <1>3, <1>4, <1>5 DEF Migrate!Rows, Migrate!PrimaryKeys
<1>7. /\ row.pk = old.pk /\ row.entity = e.name /\ row.id = old.pk[2]
      /\ row.version = e.version /\ row.upgrades = old.upgrades /\ row.lowered = low
  OBVIOUS
<1> HIDE DEF row
<1>8. row \in SoundRows
  BY <1>4, <1>5, <1>6, <1>7 DEF SoundRows
<1>9. [t EXCEPT ![i] = row] \in SoundTables
  BY <1>7, <1>8, ReplacedRow DEF old
<1> QED BY <1>9 DEF row, low, old

(* The entities of a program.                                               *)
LEMMA Registered ==
    \A p \in Migrators : \A k \in DOMAIN Registry[p] : Registry[p][k] \in Migrate!Registered
  BY StoreAssumption

(* Each statement keeps the rows sound, whatever ran since the read.        *)
LEMMA RowsStep == ASSUME RowsInv, [Migrate!Next]_migrateVars PROVE RowsInv'
<1>0. /\ table \in Seq(SoundRows) /\ KeysDiffer(table)
      /\ docs \in 0..MaxDocs /\ serving \in SUBSET Migrators
      /\ plan \in [Migrators -> (Migrate!Registered \X Seq(SoundRows)) \cup {Migrate!NoPlan}]
  BY DEF RowsInv, SoundTables
<1>1. ASSUME NEW p \in Migrators, Migrate!ReadRows(p) PROVE RowsInv'
  <2>1. PICK k \in DOMAIN Registry[p] :
          plan' = [plan EXCEPT ![p] = <<Registry[p][k],
                                       Migrate!RawRowsByPrefix(table, Registry[p][k])>>]
    BY <1>1 DEF Migrate!ReadRows
  <2> DEFINE e == Registry[p][k]
  <2>2. Migrate!RawRowsByPrefix(table, e) \in Seq(SoundRows)
    BY <1>0, PrefixRows
  <2>3. e \in Migrate!Registered
    BY Registered
  <2>4. plan' \in [Migrators -> (Migrate!Registered \X Seq(SoundRows)) \cup {Migrate!NoPlan}]
    BY <1>0, <2>1, <2>2, <2>3
  <2> QED BY <1>0, <1>1, <2>4 DEF Migrate!ReadRows, RowsInv, SoundTables
<1>2. ASSUME NEW p \in Migrators, Migrate!Rewrite(p) PROVE RowsInv'
  <2>1. PICK n \in 0..Len(plan[p][2]) :
          table' = Migrate!MigrateRows(table, plan[p][1], plan[p][2], n)
    BY <1>2 DEF Migrate!Rewrite
  <2>2. plan[p][1] \in Migrate!Registered /\ plan[p][2] \in Seq(SoundRows)
    BY <1>0, <1>2 DEF Migrate!Rewrite
  <2>3. table' \in Seq(SoundRows) /\ KeysDiffer(table')
    BY <1>0, <2>1, <2>2, MigrateKeepsSound
  <2> QED BY <1>0, <1>2, <2>3 DEF Migrate!Rewrite, RowsInv, SoundTables
<1>3. ASSUME NEW p \in Migrators, Migrate!RollBack(p) PROVE RowsInv'
  BY <1>0, <1>3 DEF Migrate!RollBack, RowsInv, SoundTables
<1>4. ASSUME NEW p \in Migrators, Migrate!Serve(p) PROVE RowsInv'
  <2>1. PICK k \in DOMAIN Registry[p] :
          \/ Migrate!Puts(Registry[p][k]) \/ Migrate!Modifies(Registry[p][k])
          \/ Migrate!Touches(Registry[p][k]) \/ Migrate!Deletes(Registry[p][k])
    BY <1>4 DEF Migrate!Serve
  <2> DEFINE e == Registry[p][k]
  <2>2. e \in Migrate!Registered
    BY Registered
  <2> HIDE DEF e
  <2>3. CASE Migrate!Puts(e)
    <3>1. docs + 1 \in 1..MaxDocs /\ docs + 1 \in 0..MaxDocs
      BY <1>0, <2>3, StoreAssumption DEF Migrate!Puts
    <3>2. PICK i \in Serials :
            table' = Migrate!Upserted(table,
                       [pk |-> <<e.name, i>>, entity |-> e.name, version |-> e.version,
                        id |-> i, readable |-> TRUE, upgrades |-> e.version, lowered |-> 0,
                        doc |-> docs + 1, rev |-> 0])
      BY <2>3 DEF Migrate!Puts
    <3>3. table' \in Seq(SoundRows) /\ KeysDiffer(table')
      BY <1>0, <2>2, <3>1, <3>2, PutRow, UpsertedRow
    <3> QED BY <1>0, <2>3, <3>1, <3>3 DEF Migrate!Puts, RowsInv, SoundTables
  <2>4. CASE Migrate!Modifies(e)
    <3>1. PICK i \in DOMAIN table :
            /\ table[i].pk[1] = e.name /\ ~Migrate!Outdated(e, table[i])
            /\ table' = [table EXCEPT ![i] =
                 [pk |-> table[i].pk, entity |-> e.name, version |-> e.version,
                  id |-> table[i].pk[2], readable |-> TRUE, upgrades |-> table[i].upgrades,
                  lowered |-> table[i].lowered + (table[i].version - e.version),
                  doc |-> table[i].doc, rev |-> 1]]
      BY <2>4 DEF Migrate!Modifies
    <3>2. table \in SoundTables
      BY DEF RowsInv
    <3>3. table' \in SoundTables
      BY <2>2, <3>1, <3>2, ModifiedTable
    <3> QED BY <1>0, <2>4, <3>3 DEF Migrate!Modifies, RowsInv
  <2>5. CASE Migrate!Touches(e)
    <3>1. table' \in SoundTables
      BY <2>5, TouchedTable DEF Migrate!Touches, RowsInv
    <3> QED BY <1>0, <2>5, <3>1 DEF Migrate!Touches, RowsInv
  <2>6. CASE Migrate!Deletes(e)
    <3>1. table' \in Seq(SoundRows) /\ KeysDiffer(table')
      BY <1>0, <2>6, DeletedRow DEF Migrate!Deletes
    <3> QED BY <1>0, <2>6, <3>1 DEF Migrate!Deletes, RowsInv, SoundTables
  <2> QED BY <2>1, <2>3, <2>4, <2>5, <2>6 DEF e
<1>5. CASE UNCHANGED migrateVars
  BY <1>5 DEF migrateVars, RowsInv
<1> QED BY <1>1, <1>2, <1>3, <1>4, <1>5 DEF Migrate!Next, Migrate!Migrate

(* What the invariant says in the words of the properties.                  *)
LEMMA RowsTell ==
    ASSUME RowsInv PROVE Migrate!TypeOK /\ Migrate!VersionsAreTrue /\ Migrate!SecondRunRests
<1>1. table \in Seq(SoundRows) /\ KeysDiffer(table)
  BY DEF RowsInv, SoundTables
<1>2. \A i \in DOMAIN table : table[i] \in SoundRows
  BY <1>1
<1>3. SoundRows \subseteq Migrate!Rows
  BY DEF SoundRows
<1>4. Migrate!VersionsAreTrue
  BY <1>2 DEF SoundRows, Migrate!VersionsAreTrue
<1>5. Migrate!TypeOK
  <2>1. table \in Seq(Migrate!Rows)
    BY <1>1, <1>3
  <2>2. ASSUME NEW x \in (Migrate!Registered \X Seq(SoundRows)) \cup {Migrate!NoPlan}
        PROVE  x \in Migrate!Plans \cup {Migrate!NoPlan}
    BY <1>3 DEF Migrate!Plans
  <2>3. plan \in [Migrators -> Migrate!Plans \cup {Migrate!NoPlan}]
    BY <2>2 DEF RowsInv
  <2> QED BY <1>1, <2>1, <2>3 DEF RowsInv, Migrate!TypeOK, KeysDiffer
<1>6. Migrate!SecondRunRests
  BY SecondRun, StoreAssumption DEF RowsInv, Migrate!SecondRunRests
<1> QED BY <1>4, <1>5, <1>6

(* However many processes of programs old and new migrate, serve and fail   *)
(* at once, keys stay distinct, migrateFn has taken a payload through the   *)
(* versions its row claims once, and again only where an older program had  *)
(* lowered it, a row above version 0 lies under its payload's key, and a    *)
(* second migrateAll would rewrite nothing where names differ to LIKE and   *)
(* no row waits for another.                                                *)
THEOREM RowsStaySound ==
    Migrate!Spec => [](Migrate!TypeOK /\ Migrate!VersionsAreTrue /\ Migrate!SecondRunRests)
<1>1. Migrate!Init => RowsInv
  BY RowsInitial
<1>2. RowsInv /\ [Migrate!Next]_Migrate!vars => RowsInv'
  BY RowsStep DEF Migrate!vars, migrateVars
<1>3. RowsInv => Migrate!TypeOK /\ Migrate!VersionsAreTrue /\ Migrate!SecondRunRests
  BY RowsTell
<1> QED BY <1>1, <1>2, <1>3, PTL DEF Migrate!Spec

(* When nothing is written between the read and the rewrite of a migration, *)
(* what is read is what is in the table, and there is one migration.        *)
PlansAreCurrent ==
    /\ \A p \in Migrators :
         plan[p] = Migrate!NoPlan \/
         \E e \in Migrate!Registered : plan[p] = <<e, Migrate!RawRowsByPrefix(table, e)>>
    /\ \A p, q \in Migrators :
         plan[p] # Migrate!NoPlan /\ plan[q] # Migrate!NoPlan => p = q

(* A step of a store whose migrations run alone keeps both.                 *)
LEMMA AloneStep ==
    ASSUME RowsInv, PlansAreCurrent, [Migrate!AloneNext]_migrateVars
    PROVE  RowsInv' /\ PlansAreCurrent'
<1>1. [Migrate!Next]_migrateVars
  BY DEF Migrate!AloneNext, Migrate!Next
<1>2. RowsInv'
  BY <1>1, RowsStep
<1>3. plan \in [Migrators -> (Migrate!Registered \X Seq(SoundRows)) \cup {Migrate!NoPlan}]
  BY DEF RowsInv
<1>4. PlansAreCurrent'
  <2>1. ASSUME NEW p \in Migrators, Migrate!ReadRows(p),
               \A q \in Migrators \ {p} : plan[q] = Migrate!NoPlan
        PROVE  PlansAreCurrent'
    BY <1>3, <2>1, Registered DEF Migrate!ReadRows, PlansAreCurrent
  <2>2. ASSUME NEW p \in Migrators, Migrate!Rewrite(p) \/ Migrate!RollBack(p),
               \A q \in Migrators \ {p} : plan[q] = Migrate!NoPlan
        PROVE  PlansAreCurrent'
    <3>1. \A q \in Migrators : plan'[q] = Migrate!NoPlan
      BY <1>3, <2>2 DEF Migrate!Rewrite, Migrate!RollBack
    <3> QED BY <3>1 DEF PlansAreCurrent
  <2>3. ASSUME NEW p \in Migrators, Migrate!Serve(p), Migrate!NoneMigrating
        PROVE  PlansAreCurrent'
    <3>1. plan' = plan
      BY <2>3 DEF Migrate!Serve, Migrate!Puts, Migrate!Modifies, Migrate!Touches, Migrate!Deletes
    <3> QED BY <2>3, <3>1 DEF Migrate!NoneMigrating, PlansAreCurrent
  <2>4. CASE UNCHANGED migrateVars
    BY <2>4 DEF migrateVars, PlansAreCurrent
  <2> QED BY <2>1, <2>2, <2>3, <2>4 DEF Migrate!AloneNext, Migrate!Migrate
<1> QED BY <1>2, <1>4

(* Hence a rewrite is one of what is in the table.                          *)
LEMMA RewriteLosesNothing ==
    ASSUME RowsInv, PlansAreCurrent, NEW p \in Migrators, Migrate!Rewrite(p)
    PROVE  /\ Migrate!Documents(table') = Migrate!Documents(table)
           /\ Migrate!CurrentDocs(table, plan[p][1])
                  \subseteq Migrate!CurrentDocs(table', plan[p][1])
<1>1. PICK e \in Migrate!Registered : plan[p] = <<e, Migrate!RawRowsByPrefix(table, e)>>
  BY DEF Migrate!Rewrite, PlansAreCurrent
<1>2. plan[p][1] = e /\ plan[p][2] = Migrate!RawRowsByPrefix(table, e)
  BY <1>1
<1>3. PICK n \in 0..Len(Migrate!RawRowsByPrefix(table, e)) :
        table' = Migrate!MigrateRows(table, e, Migrate!RawRowsByPrefix(table, e), n)
  BY <1>2 DEF Migrate!Rewrite
<1>4. table \in Seq(SoundRows) /\ KeysDiffer(table)
  BY DEF RowsInv, SoundTables
<1> QED BY <1>2, <1>3, <1>4, MigrateAlone

(* The rows and the plans of every state of the store.                      *)
LEMMA StoreMigrations == StoreSpec => [](RowsInv /\ PlansAreCurrent)
<1>1. StoreInit => RowsInv /\ PlansAreCurrent
  BY RowsInitial DEF StoreInit, Migrate!Init, PlansAreCurrent
<1>2. RowsInv /\ PlansAreCurrent /\ [StoreNext]_storeVars => (RowsInv /\ PlansAreCurrent)'
  BY StorePartsStep, AloneStep
<1> QED BY <1>1, <1>2, PTL DEF StoreSpec

(* In the store as well versions are true, and migrations come to rest.     *)
THEOREM MigrationsSound == StoreSpec => []MigrationIsSound
<1>1. RowsInv => MigrationIsSound
  BY RowsTell DEF MigrationIsSound
<1> QED BY <1>1, StoreMigrations, PTL

(* A migration in which nothing was written since it read loses no document *)
(* and brings none back, undoes no revision and no upgrade, however rows of *)
(* its entity collide and whichever writes were refused.                    *)
THEOREM MigrationsLoseNothing == StoreSpec => NothingLost
<1>1. RowsInv /\ PlansAreCurrent =>
        \A p \in Migrators :
          Migrate!Rewrite(p) =>
             /\ Migrate!Documents(table') = Migrate!Documents(table)
             /\ Migrate!CurrentDocs(table, plan[p][1])
                  \subseteq Migrate!CurrentDocs(table', plan[p][1])
  BY RewriteLosesNothing
<1> QED BY <1>1, StoreMigrations, PTL DEF NothingLost, Migrate!NothingLost

=============================================================================
