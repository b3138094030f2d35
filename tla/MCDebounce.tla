---- MODULE MCDebounce ----
(* An instance of Debounce: two calling fibers. *)
EXTENDS Debounce

CONSTANTS a1, a2
====
