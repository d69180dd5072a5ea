--------------------------- MODULE MCPlanExecution ---------------------------
(***************************************************************************)
(* Small instances of PlanExecution for TLC.                               *)
(***************************************************************************)
EXTENDS PlanExecution, TLC

CONSTANTS c1, c2, c3

(* An agent step, a confirmation, an agent step. *)
Kinds == <<"AGENT", "USER_ACTION", "AGENT">>
(* Only the last has a second attempt of its own. *)
Attempts == <<1, 1, 2>>
(* Those that give commands are alike. *)
CallerSymmetry == Permutations(Callers \ {Runner})

(* A failure, or a command that is cut off, not both in one behaviour. *)
CommandNext == Next /\ (faults' = 0 \/ cancelled' \subseteq {Runner})
CommandSpec == Init /\ [][CommandNext]_vars
=============================================================================
