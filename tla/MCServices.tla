----------------------------- MODULE MCServices -----------------------------
(***************************************************************************)
(* Small instances of the components around the engine, side by side for   *)
(* TLC: each behaviour moves one of them and leaves the others where they  *)
(* began.                                                                  *)
(***************************************************************************)
EXTENDS AsyncTasks, Workflows, Conversation, Delegation, ModelRound, Gateway, WebClient, McpClient,
        Bundles

CONSTANTS w1, w2, flow1, flow2, editor, tg, fs, b1, b2, ag, sk, sv

VARIABLE part   \* the component that moves

tasksRest == <<flowVars, convVars, delegVars, roundVars, gwVars, webVars, mcpVars, bundleVars>>
flowsRest == <<taskVars, convVars, delegVars, roundVars, gwVars, webVars, mcpVars, bundleVars>>
convRest  == <<taskVars, flowVars, delegVars, roundVars, gwVars, webVars, mcpVars, bundleVars>>
delegRest == <<taskVars, flowVars, convVars, roundVars, gwVars, webVars, mcpVars, bundleVars>>
roundRest == <<taskVars, flowVars, convVars, delegVars, gwVars, webVars, mcpVars, bundleVars>>
gwRest    == <<taskVars, flowVars, convVars, delegVars, roundVars, webVars, mcpVars, bundleVars>>
webRest   == <<taskVars, flowVars, convVars, delegVars, roundVars, gwVars, mcpVars, bundleVars>>
mcpRest   == <<taskVars, flowVars, convVars, delegVars, roundVars, gwVars, webVars, bundleVars>>
bundleRest == <<taskVars, flowVars, convVars, delegVars, roundVars, gwVars, webVars, mcpVars>>

Parts == {"sync", "remind", "list", "firing", "editing", "conversation", "family", "inputs", "round", "gateway",
          "recovery", "takeover", "mcp", "bundle"}

ServicesInit ==
    /\ part \in Parts
    /\ TasksInit /\ FlowsInit /\ ConversationInit /\ DelegationInit /\ ModelRoundInit /\ GatewayInit
    /\ WebInit /\ McpInit /\ BundleInit
    /\ part # "bundle" => registry = [r \in Resources |-> Absent]

(* The rows of two tasks, or the reminder, or the list: each with what it  *)
(* depends on, as all of it at once has too many states.                   *)
TaskStep ==
    \/ part = "sync" /\ (Submitting \/ Reporting \/ Reconciling) /\ tasks'[3].state = "absent"
    \/ part = "remind" /\ (Submitting \/ Reminding)
    \/ part = "list" /\ (Submitting \/ Reporting \/ Reminding \/ Listing) /\ tasks'[3].state = "absent"
(* Three firings of what stays as it is, or two and an edit. *)
FlowStep ==
    \/ part = "firing" /\ FlowsNext /\ edited' = 0
    \/ part = "editing" /\ FlowsNext /\ history'[3].status = "none"
(* Two sub-runs without failures, or one with inputs and failures. *)
DelegationStep ==
    \/ part = "family" /\ DelegationNext /\ failures' = 0 /\ Inputs' = 0
    \/ part = "inputs" /\ DelegationNext /\ stands'[2] = "absent"
(* One request of the user over three connections; or two over two that do *)
(* not close slowly, sent three times at most and not cancelled.           *)
WebStep ==
    \/ part = "recovery" /\ WebNext /\ Len(SelectSeq(asks', LAMBDA a : a = 0)) <= 1
    \/ part = "takeover" /\ WebNext /\ Len(asks') <= 2 /\ link'.number <= 2
       /\ Len(sent') <= 3 /\ link'.state # "closing"
       /\ \A r \in WebRuns : server'.runs[r].state # "cancelled"

ServicesNext ==
    /\ UNCHANGED part
    /\ \/ TaskStep /\ UNCHANGED tasksRest
       \/ FlowStep /\ UNCHANGED flowsRest
       \/ part = "conversation" /\ ConversationNext /\ UNCHANGED convRest
       \/ DelegationStep /\ UNCHANGED delegRest
       \/ part = "round" /\ ModelRoundNext /\ UNCHANGED roundRest
       \/ part = "gateway" /\ GatewayNext /\ UNCHANGED gwRest
       \/ WebStep /\ UNCHANGED webRest
       \/ part = "mcp" /\ McpNext /\ UNCHANGED mcpRest
       \/ part = "bundle" /\ BundleNext /\ UNCHANGED bundleRest

ServicesSpec == ServicesInit /\ [][ServicesNext]_<<part, taskVars, tasksRest>>

-----------------------------------------------------------------------------
(* Three calls of one tool: the first two share a job. *)
SharedKey == <<1, 1, 2>>

Call(id, safe) == [id |-> id, safe |-> safe]
(* Serial; in parallel beside serial ones; with a repetition. *)
TheRounds ==
    { <<Call(1, FALSE), Call(2, FALSE)>>,
      <<Call(1, TRUE), Call(2, FALSE), Call(3, TRUE)>>,
      <<Call(1, FALSE), Call(1, FALSE), Call(2, TRUE)>> }

TheGroup == <<"m", "n", "p">>

(* The two of a kind are alike; only those of the component that moves      *)
(* make a difference.                                                       *)
OtherOf == w1 :> w2 @@ w2 :> w1 @@ flow1 :> flow2 @@ flow2 :> flow1 @@ tg :> fs @@ fs :> tg
           @@ b1 :> b2 @@ b2 :> b1
Twins == {[v \in DOMAIN OtherOf |-> IF swapped THEN OtherOf[v] ELSE v] : swapped \in BOOLEAN}

-----------------------------------------------------------------------------
(* Every variable of every component keeps its type. *)
ServicesTypeOK ==
    /\ part \in {"sync", "remind", "list"} => TasksTypeOK
    /\ part \in {"firing", "editing"} => FlowsTypeOK
    /\ part = "conversation" => ConversationTypeOK
    /\ part \in {"family", "inputs"} => DelegationTypeOK
    /\ part = "round" => ModelRoundTypeOK
    /\ part = "gateway" => GatewayTypeOK
    /\ part \in {"recovery", "takeover"} => WebTypeOK
    /\ part = "mcp" => McpTypeOK
    /\ part = "bundle" => BundleTypeOK
=============================================================================
