-------------------------------- MODULE Config --------------------------------
(***************************************************************************)
(* Settings as src/config reads them: a TOML file under the environment    *)
(* (layerTomlWithEnv), a renamed key (withAliases), and readers that each  *)
(* read the key through withRemedy, two or more at once.                   *)
(*                                                                         *)
(* The key is in a table, so that it can be asked for by its path or by    *)
(* its dotted name.  The loads of a provider are effects: other fibers may *)
(* run between two of them.                                                *)
(***************************************************************************)
EXTENDS Naturals, Sequences

CONSTANTS
    Readers,   \* fibers that read the key
    Current,   \* its name
    Olds       \* the names it had, the most recent first

VARIABLES
    place,     \* the path of the file: "file", "missing", "broken" or "unreadable"
    optional,  \* the option of layerTomlWithEnv
    file, env, \* what each holds under each name
    form,      \* form[r]: "nested" or "dotted", as r asks for the key
    layer,     \* the layer: "none", "reading", "ready", "failed", "interrupted"
    stage,     \* stage[r]: where r is
    try,       \* try[r]: the old name that is next
    found,     \* found[r]: what the provider has answered
    probing,   \* probing[r]: the value was refused, and isAbsent is asking
    problem,   \* problem[r]: what the ConfigRemedyError of r says
    warned,    \* the Set of that name
    warnings   \* history: warnings[n]: the warnings about the old name n

vars == <<place, optional, file, env, form, layer, stage, try, found, probing, problem,
          warned, warnings>>
sources == <<place, optional, file, env, form>>

Names == {Current} \cup {Olds[i] : i \in DOMAIN Olds}
Values == {"unset", "good", "bad"}

TypeOK ==
    /\ place \in {"file", "missing", "broken", "unreadable"} /\ optional \in BOOLEAN
    /\ file \in [Names -> Values] /\ env \in [Names -> Values]
    /\ form \in [Readers -> {"nested", "dotted"}]
    /\ layer \in {"none", "reading", "ready", "failed", "interrupted"}
    /\ stage \in [Readers -> {"idle", "direct", "olds", "warning", "decode", "done"}]
    /\ try \in [Readers -> 1..Len(Olds) + 1]
    /\ found \in [Readers -> Values] /\ probing \in [Readers -> BOOLEAN]
    /\ problem \in [Readers -> {"none", "not set", "invalid"}]
    /\ warned \subseteq Names
    /\ warnings \in [Names -> Nat]

Init ==
    /\ place \in {"file", "missing", "broken", "unreadable"} /\ optional \in BOOLEAN
    /\ file \in [Names -> Values] /\ env \in [Names -> Values]
    /\ place = "file" \/ \A n \in Names : file[n] = "unset"
    /\ form \in [Readers -> {"nested", "dotted"}]
    /\ layer = "none"
    /\ stage = [r \in Readers |-> "idle"] /\ try = [r \in Readers |-> 1]
    /\ found = [r \in Readers |-> "unset"] /\ probing = [r \in Readers |-> FALSE]
    /\ problem = [r \in Readers |-> "none"]
    /\ warned = {} /\ warnings = [n \in Names |-> 0]

-----------------------------------------------------------------------------
(* tomlConfigProviderFromFile, providerForLayer *)

ReadFile ==
    /\ layer = "none" /\ layer' = "reading"
    /\ UNCHANGED <<sources, stage, try, found, probing, problem, warned, warnings>>

(* Without a file every lookup misses. *)
FileRead ==
    /\ layer = "reading"
    /\ layer' = IF place = "file" \/ (place = "missing" /\ optional)
                THEN "ready" ELSE "failed"
    /\ stage' = [r \in Readers |-> IF layer' = "ready" THEN "direct" ELSE "idle"]
    /\ UNCHANGED <<sources, try, found, probing, problem, warned, warnings>>

Interrupt ==
    /\ layer = "reading" /\ layer' = "interrupted"
    /\ UNCHANGED <<sources, stage, try, found, probing, problem, warned, warnings>>

-----------------------------------------------------------------------------
(* The provider *)

\* Mutant: the file comes first.
FileFirst(name, asked) ==
    IF file[name] = "unset" /\ asked = "nested" THEN env[name] ELSE file[name]

(* orElse(overrides, toml): the environment joins the path with underscores  *)
(* and does not split a dotted name, which the file does.                    *)
Load(name, asked) ==
    IF asked = "nested" /\ env[name] # "unset" THEN env[name] ELSE file[name]

Goto(r, where) == stage' = [stage EXCEPT ![r] = where]

(* A dotted name has one segment, so that no alias is a prefix of it. *)
Direct(r) ==
    /\ stage[r] = "direct"
    /\ LET node == Load(Current, form[r])
       IN  /\ found' = [found EXCEPT ![r] = node]
           /\ Goto(r, IF node = "unset" /\ form[r] = "nested" THEN "olds" ELSE "decode")
    /\ try' = [try EXCEPT ![r] = 1]
    /\ UNCHANGED <<sources, layer, probing, problem, warned, warnings>>

(* The next old name; it is added to the Set before the warning is logged.   *)
TryOld(r) ==
    /\ stage[r] = "olds" /\ try[r] <= Len(Olds)
    /\ LET name == Olds[try[r]]
           node == Load(name, "nested")
       IN  IF node = "unset"
           THEN try' = [try EXCEPT ![r] = @ + 1] /\ UNCHANGED <<stage, found, warned>>
           ELSE /\ found' = [found EXCEPT ![r] = node]
                /\ Goto(r, IF name \in warned THEN "decode" ELSE "warning")
                /\ warned' = warned \cup {name}
                /\ UNCHANGED try
    /\ UNCHANGED <<sources, layer, probing, problem, warnings>>

NoOld(r) ==
    /\ stage[r] = "olds" /\ try[r] > Len(Olds)
    /\ Goto(r, "decode")
    /\ UNCHANGED <<sources, layer, try, found, probing, problem, warned, warnings>>

LogWarning(r) ==
    /\ stage[r] = "warning"
    /\ warnings' = [warnings EXCEPT ![Olds[try[r]]] = @ + 1]
    /\ Goto(r, "decode")
    /\ UNCHANGED <<sources, layer, try, found, probing, problem, warned>>

(* withRemedy: a value that is missing or refused is looked up once more, by *)
(* isAbsent, to tell which it is.                                            *)
Decode(r) ==
    /\ stage[r] = "decode"
    /\ IF found[r] = "good" \/ probing[r]
       THEN /\ Goto(r, "done")
            /\ problem' = [problem EXCEPT ![r] =
                    IF ~probing[r] THEN "none"
                    ELSE IF found[r] = "unset" THEN "not set" ELSE "invalid"]
            /\ UNCHANGED probing
       ELSE /\ Goto(r, "direct")
            /\ probing' = [probing EXCEPT ![r] = TRUE]
            /\ UNCHANGED problem
    /\ UNCHANGED <<sources, layer, try, found, warned, warnings>>

-----------------------------------------------------------------------------
Steps(r) == Direct(r) \/ TryOld(r) \/ NoOld(r) \/ LogWarning(r) \/ Decode(r)

Next == ReadFile \/ FileRead \/ \E r \in Readers : Steps(r)

Spec == Init /\ [][Next \/ Interrupt]_vars

(* What the program makes of it: the first failure is its failure. *)
Outcome ==
    IF layer \in {"failed", "interrupted"} THEN layer
    ELSE IF \E r \in Readers : stage[r] # "done" THEN "none"
    ELSE IF \A r \in Readers : problem[r] = "none" THEN "ok" ELSE "failed"

-----------------------------------------------------------------------------
(* Where the name is set, in the environment or the file. *)
SetAt(name) == env[name] # "unset" \/ file[name] # "unset"

(* By its path the key is what the first of its names that is set says, the  *)
(* current one before the old ones ("an old key is only consulted when the   *)
(* current one is absent") and the environment before the file; by its       *)
(* dotted name it is what the file says.                                     *)
Expected(r) ==
    LET all == <<Current>> \o Olds
        first == {i \in DOMAIN all : SetAt(all[i]) /\ \A j \in 1..(i - 1) : ~SetAt(all[j])}
    IN  IF form[r] = "dotted" THEN file[Current]
        ELSE IF first = {} THEN "unset"
        ELSE LET name == all[CHOOSE i \in first : TRUE]
             IN  IF env[name] # "unset" THEN env[name] ELSE file[name]

(* Every reader is told the value, or the right problem with it; "using it  *)
(* logs one warning per alias", whoever reads at once and however often.    *)
SettingsAreTrue ==
    /\ \A r \in Readers : stage[r] = "done" =>
         /\ found[r] = Expected(r)
         /\ problem[r] = CASE Expected(r) = "good" -> "none"
                           [] Expected(r) = "unset" -> "not set"
                           [] Expected(r) = "bad" -> "invalid"
    /\ \A n \in Names : warnings[n] <= 1 /\ (warnings[n] = 1 => SetAt(n) /\ ~SetAt(Current))
=============================================================================
