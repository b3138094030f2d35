---- MODULE MCSections ----
(* Two sections of one log file, each of which may be interrupted alone.    *)
EXTENDS Sections

CONSTANTS w1, w2
====
