------------------------------ MODULE MCRuntime ------------------------------
(***************************************************************************)
(* Small instances of what surrounds a run, side by side for TLC: the      *)
(* shared workspaces, the distribution of the client's messages and what   *)
(* the client shows of its events.  Each behaviour moves one of them and   *)
(* leaves the others where they began.                                     *)
(***************************************************************************)
EXTENDS MCWorkspace, ClientHub, EventView

CONSTANTS
    Parts,   \* the parts that may move
    h1, h2, h3

VARIABLES
    part    \* the part that moves

(* Two parallel questions and a confirmation of one run, all with a timer. *)
OneHub == [k \in Calls |-> 1]

(* A run with one below it, of one round each. *)
OneBelow == <<0, 1>>
OneRound == <<1, 1>>

RuntimeInit == part \in Parts /\ Init /\ HubInit /\ ViewInit

RuntimeNext ==
    /\ UNCHANGED part
    /\ \/ part = "workspace" /\ Next /\ UNCHANGED <<hubVars, viewVars>>
       \/ part = "hub" /\ HubNext /\ UNCHANGED <<vars, viewVars>>
       \/ part = "view" /\ ViewNext /\ UNCHANGED <<vars, hubVars>>

RuntimeSpec == RuntimeInit /\ [][RuntimeNext]_<<part, vars, hubVars, viewVars>>

-----------------------------------------------------------------------------
(* Every variable of the part keeps its type. *)
RuntimeTypeOK ==
    /\ part = "workspace" => TypeOK
    /\ part = "hub" => HubTypeOK
    /\ part = "view" => ViewTypeOK
=============================================================================
