---- MODULE MCCli ----
(* Small operations for runMain; the modules of those that the program does *)
(* not perform keep one initial state.                                      *)
EXTENDS Cli, SequencesExt

CONSTANTS stdout, stderr, w1, w2

(* Up to two tokens on stdout; a silent stderr. *)
Texting == [s \in Streams |-> IF s = stdout THEN 2 ELSE 0]

(* What lsof may print: any three lines about two processes, and two longer *)
(* outputs in which a process comes back with a port it had.                *)
Line(tag, value) == [tag |-> tag, value |-> value]
Lines == {Line(t, v) : t \in {"p", "n"}, v \in {1, 2, Bad}} \cup {Line("c", 1)}

Prints ==
    BoundedSeq(Lines, 3) \cup
    {<<Line("p", 1), Line("n", 1), Line("p", 2), Line("n", 1), Line("p", 1), Line("n", v)>> :
        v \in {1, 2}}

(* A key that was renamed twice. *)
OldNames == <<"clone", "main">>

(* Init, cut down as it is enumerated: most programs are flushed, and one   *)
(* reader asks for the key by its path, the other either way; the first     *)
(* process or port is not 2, and c lines are for those who ask for them.    *)
MCInit ==
    /\ MainInit /\ (flush \/ operation \in {"probe", "read", "log"})
    /\ Settings!Init /\ form["first"] = "nested"
    /\ IF operation = "configure"
       THEN (\A n \in DOMAIN env : env[n] # "bad") /\ (optional \/ place = "missing")
       ELSE place = "missing" /\ optional /\ form["second"] = "nested"
            /\ \A n \in DOMAIN env : env[n] = "unset"
    /\ Proc!Init /\ (operation = "stream" \/ kind = "own")
    /\ Port!Init /\ (operation = "probe" \/ listening)
    /\ Request!Init /\ (operation = "request" \/ (enabled /\ request = "notify"))
    /\ Read!Init /\ (operation = "read" \/ reads = "slice")
    /\ Log!Init /\ (operation = "log" \/ mode = "append")
    /\ Scan!Init
    /\ IF operation = "scan"
       THEN /\ world # <<>> => world[1].value # 2
            /\ asked = "cwds" => \A line \in Range(world) : line.tag # "c"
       ELSE asked = "cwds" /\ world = <<>>

MCSpec == MCInit /\ [][Next]_vars /\ Fairness
====
