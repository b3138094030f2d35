--------------------------------- MODULE Ports ---------------------------------
(***************************************************************************)
(* probePort and portInUse of src/probes: one call, at most two loopback   *)
(* connects, while the server on the port comes and goes and the event     *)
(* loop may be blocked for any time.                                       *)
(***************************************************************************)
EXTENDS Naturals

VARIABLES
    listening,  \* something accepts connections on the port
    attempt,    \* the connects made so far
    socket,     \* "none", "connecting", or the kernel's answer that Node has
                \* yet to report: "connected", "refused", "broken"
    settled,    \* what the attempt under way has resolved to
    answer,     \* what the call has returned
    seen        \* history: what was true of the port during the call

vars == <<listening, attempt, socket, settled, answer, seen>>

Results == {"listening", "free", "unknown"}

TypeOK ==
    /\ listening \in BOOLEAN
    /\ attempt \in 0..2
    /\ socket \in {"none", "connecting", "connected", "refused", "broken"}
    /\ settled \in Results \cup {"none"}
    /\ answer \in Results \cup {"none", "interrupted"}
    /\ seen \in SUBSET BOOLEAN

Init ==
    /\ listening \in BOOLEAN
    /\ attempt = 0
    /\ socket = "none"
    /\ settled = "none" /\ answer = "none"
    /\ seen = {}

UnderWay == attempt > 0 /\ answer = "none"

-----------------------------------------------------------------------------
(* net.connect *)
Connect ==
    /\ attempt' = attempt + 1
    /\ socket' = "connecting"
    /\ settled' = "none"

Begin ==
    /\ attempt = 0
    /\ Connect
    /\ seen' = {listening}
    /\ UNCHANGED <<listening, answer>>

(* done: only the first callback counts, and the socket is destroyed, its   *)
(* timer and whatever else it had to report with it.                        *)
Done(result) ==
    /\ settled' = result
    /\ socket' = "none"
    /\ UNCHANGED <<listening, attempt, answer, seen>>

OnConnect == socket = "connected" /\ Done("listening")

OnError ==
    \/ socket = "refused" /\ Done("free")
    \/ socket = "broken" /\ Done("unknown")

\* Mutant: an attempt that ran out of time says the port is free.
OnTimeoutFree == socket # "none" /\ Done("free")

(* The timer may go off before a connect that has already landed: timers    *)
(* come first when a blocked loop runs again.                               *)
OnTimeout == socket # "none" /\ Done("unknown")

(* probePort goes on with the result: a second try after the first unknown. *)
Return ==
    /\ UnderWay /\ settled # "none"
    /\ IF settled = "unknown" /\ attempt = 1
       THEN Connect /\ UNCHANGED answer
       ELSE answer' = settled /\ UNCHANGED <<attempt, socket, settled>>
    /\ UNCHANGED <<listening, seen>>

(* Interruption: listeners removed, socket destroyed. *)
Interrupt ==
    /\ UnderWay
    /\ answer' = "interrupted"
    /\ socket' = "none"
    /\ UNCHANGED <<listening, attempt, settled, seen>>

-----------------------------------------------------------------------------
(* The kernel and the server *)

KernelAnswers ==
    /\ socket = "connecting"
    /\ socket' \in {IF listening THEN "connected" ELSE "refused", "broken"}
    /\ UNCHANGED <<listening, attempt, settled, answer, seen>>

ServerChanges ==
    /\ UnderWay
    /\ listening' = ~listening
    /\ seen' = seen \cup {listening'}
    /\ UNCHANGED <<attempt, socket, settled, answer>>

-----------------------------------------------------------------------------
Steps == OnConnect \/ OnError \/ OnTimeout \/ Return

Next == Begin \/ Steps \/ KernelAnswers \/ ServerChanges

Spec == Init /\ [][Next \/ Interrupt]_vars

(* Timers go off and callbacks are run. *)
Fairness == WF_vars(Steps)

(* portInUse *)
InUse == answer # "free"

-----------------------------------------------------------------------------
(* "a probe that ran out of time reports unknown, never free": a port       *)
(* reported as listening or free was so at some time during the call, and   *)
(* no socket outlives the call.                                             *)
ProbeIsHonest ==
    /\ answer = "listening" => TRUE \in seen
    /\ ~InUse => FALSE \in seen
    /\ ~UnderWay => socket = "none"
=============================================================================
