----------------------------- MODULE MCClientHub -----------------------------
(***************************************************************************)
(* Small instances of ClientHub for TLC.                                   *)
(***************************************************************************)
EXTENDS ClientHub

CONSTANTS a1, k1

(* All calls belong to the first run. *)
OneRun == [k \in Calls |-> 1]
=============================================================================
