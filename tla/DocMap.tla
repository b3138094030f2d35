-------------------------------- MODULE DocMap --------------------------------
(***************************************************************************)
(* What the document store promises: a map from keys to documents.  A      *)
(* document is the set of the flows that contributed to it since it was    *)
(* last put.  It goes away by deletion or expiry and comes back by a put   *)
(* alone; a modification keeps every earlier contribution; a read answers  *)
(* with documents that are there.                                          *)
(***************************************************************************)
CONSTANTS Flows, Keys, Absent

VARIABLES docs, answer

Init ==
    /\ docs = [k \in Keys |-> Absent]
    /\ answer = [f \in Flows |-> {}]

Put(f, k) == docs' = [docs EXCEPT ![k] = {f}]

Modify(f, k) ==
    /\ docs[k] # Absent
    /\ docs' = [docs EXCEPT ![k] = docs[k] \cup {f}]

Forget(K) == docs' = [k \in Keys |-> IF k \in K THEN Absent ELSE docs[k]]

Read(f, K) ==
    answer' = [answer EXCEPT ![f] = {<<k, docs[k]>> : k \in {j \in K : docs[j] # Absent}}]

Next ==
    \/ /\ \/ \E f \in Flows, k \in Keys : Put(f, k) \/ Modify(f, k)
          \/ \E K \in SUBSET Keys : Forget(K)
       /\ UNCHANGED answer
    \/ \E f \in Flows, K \in SUBSET Keys : Read(f, K) /\ UNCHANGED docs

Spec == Init /\ [][Next]_<<docs, answer>>
=============================================================================
