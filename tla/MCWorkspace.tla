----------------------------- MODULE MCWorkspace -----------------------------
(***************************************************************************)
(* Small instances of Workspace for TLC.                                   *)
(***************************************************************************)
EXTENDS Workspace

CONSTANTS r1, r2, r3, a1, a2, k1, k2

(* Two runs of one app and one of another. *)
TwoApps == [r \in Runs |-> IF r = r3 THEN a2 ELSE a1]
(* Every key is of a service of its own. *)
OwnService == [k \in Keys |-> k]
=============================================================================
