----------------------------- MODULE MCSteering -----------------------------
(***************************************************************************)
(* Small instances of Steering for TLC.                                    *)
(***************************************************************************)
EXTENDS SteeringProps, TLC

ConnSymmetry == Permutations(Conns)
=============================================================================
