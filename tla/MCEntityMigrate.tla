---- MODULE MCEntityMigrate ----
(* Programs with one entity, whose migrateFn keeps the ids.                 *)
EXTENDS EntityMigrate

CONSTANTS p1, p2

LikeItself == [n \in Names |-> n]
Keep == [i \in Ids |-> i]
FirstVersion == [p \in Processes |-> <<[name |-> "user", version |-> 1]>>]
====
