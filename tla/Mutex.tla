-------------------------------- MODULE Mutex --------------------------------
(***************************************************************************)
(* What a lock promises, whatever it is made of: an acquirer enters only   *)
(* while nobody is in, and leaves by releasing or by dying.                *)
(***************************************************************************)
CONSTANT Acquirers

VARIABLE holders  \* the acquirers that hold the lock

Init == holders = {}

Enter(a) == holders = {} /\ holders' = {a}

Leave(a) == holders = {a} /\ holders' = {}

Next == \E a \in Acquirers : Enter(a) \/ Leave(a)

Spec == Init /\ [][Next]_holders
=============================================================================
