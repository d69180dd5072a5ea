----------------------------- MODULE InputLedger -----------------------------
(***************************************************************************)
(* What the pending-input ledger promises, whatever the runs, connections  *)
(* and transactions around it do: an input waits (as a guide of a run or   *)
(* in the queue), may move between the two, and settles once, either into  *)
(* exactly one user message of the transcript, or withdrawn by its user,   *)
(* or discarded.  No message is taken from two inputs.                     *)
(***************************************************************************)
CONSTANT Inputs

VARIABLES
    status,     \* Inputs -> state of the input
    bound       \* Inputs -> the messages it was turned into

Waiting == {"admitted", "queued"}
Status  == Waiting \cup {"free", "guided", "cancelled", "discarded"}

Init == /\ status = [i \in Inputs |-> "free"]
        /\ bound  = [i \in Inputs |-> {}]

Keep(i)     == status'[i] = status[i] /\ bound'[i] = bound[i]
Accept(i)   == status[i] = "free" /\ status'[i] \in Waiting /\ bound'[i] = bound[i]
Move(i)     == status[i] \in Waiting /\ status'[i] \in Waiting /\ bound'[i] = bound[i]
Withdraw(i) == status[i] = "queued" /\ status'[i] = "cancelled" /\ bound'[i] = bound[i]
Discard(i)  == status[i] \in Waiting /\ status'[i] = "discarded" /\ bound'[i] = bound[i]
Deliver(i)  ==
    /\ status[i] \in Waiting /\ status'[i] = "guided"
    /\ bound[i] = {}
    /\ \E m \in bound'[i] :
         /\ bound'[i] = {m}
         /\ \A j \in Inputs \ {i} : m \notin bound[j] /\ m \notin bound'[j]

Next == /\ DOMAIN status' = Inputs /\ DOMAIN bound' = Inputs
        /\ \A i \in Inputs :
              Keep(i) \/ Accept(i) \/ Move(i) \/ Withdraw(i) \/ Discard(i) \/ Deliver(i)

Spec == Init /\ [][Next]_<<status, bound>>
=============================================================================
