--------------------------- MODULE SteeringProps ---------------------------
(***************************************************************************)
(* Properties of Steering.                                                 *)
(***************************************************************************)
EXTENDS Steering

(* Every variable keeps its type.                                          *)
TypeOK ==
    /\ runs \in [RunId -> RunState]
    /\ ledger \in [RowId -> Row]
    /\ messages \in Seq(Message)
    /\ g \in [Conns -> Goroutine]
    /\ tx \in Tx
    /\ registry \subseteq RunId
    /\ soft \subseteq RunId
    /\ ctxCancelled \subseteq RunId
    /\ cancelling \subseteq RunId
    /\ children \subseteq 0..MaxRun
    /\ stopping \in BOOLEAN
    /\ restarts \in 0..MaxRestart
    /\ sent \in 0..MaxInput

-----------------------------------------------------------------------------
(* At most one engine works on the session: two connections are never both *)
(* between the creation of their run and the update that ends it (unless   *)
(* the process is shutting down, when the hook has already released the    *)
(* session under a live engine).  The check of the active runs and the     *)
(* insertion of the new run are in one transaction under the session lock; *)
(* the update that ends a run is not, and a cancel may overwrite any state.*)
Holding(c) == g[c].pc \in EnginePc \cup {"created"}
OneEngine ==
    ~stopping => \A c, d \in Conns : Holding(c) /\ Holding(d) => c = d

(* A queued or guided input is turned into a user message exactly once: a  *)
(* row is guided if and only if one message was taken from it, and that    *)
(* message belongs to the run the row names.  Guides are consumed by the   *)
(* engine, queued rows are promoted by createReactRunContext, settlements  *)
(* and the queue API move rows meanwhile.                                  *)
TakenFrom(i) == {k \in DOMAIN messages : messages[k].row = i}
PromoteAtomic ==
    \A i \in RowId :
        IF ledger[i].status = "guided"
        THEN \E k \in TakenFrom(i) : /\ TakenFrom(i) = {k}
                                     /\ messages[k].run = ledger[i].run
                                     /\ messages[k].input = ledger[i].input
        ELSE TakenFrom(i) = {}

(* No user message is added to a run that is over: a guide that reaches    *)
(* the transcript is still in front of a model call.  (After the shutdown  *)
(* hook the rows say expired while the engines still run.)                 *)
NoMessageAfterEnd ==
    [][ (messages' # messages /\ ~stopping) =>
            runs'[messages'[Len(messages')].run] \in ActiveState ]_vars

(* What is in the queue of this process stays there until it is consumed,  *)
(* injected or deleted by the user: neither a new run nor the end of a run *)
(* discards it.  Only rows of a previous process are dropped.              *)
QueuedSurvives ==
    [][ \A i \in RowId :
            (ledger[i].status = "queued" /\ ~ledger[i].old) =>
                ledger'[i].status # "discarded" ]_vars

(* The ledger implements its abstract specification. *)
Ledger == INSTANCE InputLedger WITH
            Inputs <- RowId,
            status <- [i \in RowId |-> ledger[i].status],
            bound  <- [i \in RowId |-> TakenFrom(i)]
LedgerSpec == Ledger!Spec

(* The order in which rows become messages is the order of admission, both *)
(* among the guides of one run and, in one connection, among the inputs    *)
(* promoted to runs of their own, when the user neither reorders nor       *)
(* injects queued inputs.  (Of two connections one may settle a guide into *)
(* the queue after the other has read its head.)                           *)
Promoted(k) == messages[k].row # 0 /\ (k = 1 \/ \A j \in 1..(k-1) : messages[j].run # messages[k].run)
Injected(k) == messages[k].row # 0 /\ ~Promoted(k)
AdmittedBefore(j, k) == ledger[messages[j].row].seq < ledger[messages[k].row].seq
GuidesInOrder ==
    \A j, k \in DOMAIN messages :
        j < k /\ Injected(j) /\ Injected(k) /\ messages[j].run = messages[k].run => AdmittedBefore(j, k)
QueueInOrder ==
    \A j, k \in DOMAIN messages : j < k /\ Promoted(j) /\ Promoted(k) => AdmittedBefore(j, k)
FirstInFirstOut == GuidesInOrder /\ QueueInOrder

-----------------------------------------------------------------------------
(* Every run reaches a terminal state, and its goroutine ends.             *)
RunsEnd ==
    /\ \A r \in RunId : Active(r) ~> runs[r] \in TerminalState
    /\ \A c \in Conns : ~At(c, "idle") ~> At(c, "idle")

(* An input that is queued while an engine of the session still has to     *)
(* settle its run leaves the queue: that run, or one started after it by   *)
(* the automatic drain, consumes it.                                       *)
BeforeDrain(c) == g[c].pc \in EnginePc \cup {"created", "settle"}
QueueDrains ==
    \A i \in RowId, c \in Conns :
        (ledger[i].status = "queued" /\ BeforeDrain(c)) ~> ledger[i].status # "queued"

-----------------------------------------------------------------------------
(* Statements of the documentation that the code does not keep.            *)

(* runtime.go: "one session has only one active outer run at a time".      *)
OneActiveRun ==
    \A q, r \in RunId : Active(q) /\ Active(r) => q = r

(* runtime.go: the claim at promotion "rules out that two runs consume the *)
(* same queued input".  An input is told to the model at most once.        *)
DeliveredOnce ==
    \A j, k \in DOMAIN messages : messages[j].input = messages[k].input => j = k
=============================================================================
