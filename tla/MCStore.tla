---- MODULE MCStore ----
(* Instances of the parts of the database, one of which a behaviour is      *)
(* about: two flows on the document store; an old and a new program that    *)
(* migrate repeatedly and serve in between, each with an entity whose name  *)
(* LIKE does not tell from the other's and one that both have; two          *)
(* processes that open an old or fresh file; two processes whose versions   *)
(* of a table declare different indexes.                                    *)
EXTENDS Store

CONSTANTS
    f1, f2, k1, k2, e1, x1, x2, p1, p2,
    MaxLowered  \* bound: versions taken back from a row

VARIABLE shown

ConnEach == [a \in Flows |-> IF a = f1 THEN x1 ELSE x2]
OneEntity == [k \in Keys |-> e1]

AlikeUsers == [n \in Names |-> IF n = "User" THEN "user" ELSE n]
Entity(n, v) == [name |-> n, version |-> v]
OldAndNew == [p \in Migrators |-> IF p = p1 THEN <<Entity("User", 0), Entity("acct", 1)>>
                                  ELSE <<Entity("user", 1), Entity("acct", 1)>>]
OneOn == [i \in Serials |-> IF i = 3 THEN Rejected ELSE i + 1]

MetaColumns == <<"entity", "version", "expires_at", "updated_at">>
IndexedColumns == <<"entity", "expires_at">>

(* Column a, column b and a column called a_b. *)
Unique(index) == [columns |-> index, unique |-> TRUE]
Plain(index) == [columns |-> index, unique |-> FALSE]
ThreeColumns == {<<"a">>, <<"b">>, <<"a", "b">>}
Versions == {<<>>, <<Unique(<<<<"a">>>>)>>,
             <<Plain(<<<<"a", "b">>>>), Unique(<<<<"a">>, <<"b">>>>)>>}

MCInit ==
    /\ shown \in {"flows", "migration", "schema", "table"}
    /\ Init /\ (shown = "flows" \/ stalls = FALSE)
    /\ Schemas!Init /\ (shown = "schema" \/ columns = NoTable)
    /\ Table!Init /\ (shown = "table" \/ declared = [p \in Processes |-> <<>>])
    /\ Migrate!Init /\ (shown = "migration" \/ docs = 0)
    /\ \A i \in DOMAIN table :
         /\ table[i].entity = NoEntity <=> table[i].version = 0
         /\ ~table[i].readable => table[i].id = 1 /\ table[i].version = 0
         /\ table[i].pk[1] = "acct" => i = 2 /\ table[i].version = 0 /\ table[i].readable

MCNext ==
    /\ StoreNext /\ UNCHANGED shown
    /\ shown # "flows" => UNCHANGED vars
    /\ shown # "migration" => UNCHANGED migrateVars
    /\ \A i \in DOMAIN table' : table'[i].lowered <= MaxLowered
    /\ shown # "schema" => UNCHANGED schemaVars
    /\ shown # "table" => UNCHANGED tableVars

MCSpec == MCInit /\ [][MCNext]_<<shown, storeVars>>
====
