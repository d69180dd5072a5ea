----------------------------- MODULE MCLiveness -----------------------------
(***************************************************************************)
(* Small instances of the components of which something must eventually    *)
(* happen, side by side for TLC: each behaviour moves one of them and      *)
(* leaves the others where they began, where no fair action of theirs is   *)
(* enabled.                                                                *)
(***************************************************************************)
EXTENDS SteeringProps

CONSTANTS c1, c2, a1, a2, a3, NoCall, w1, w2, flow1, editor, Nobody

VARIABLES
    part,
    inbox, closed, run, waiters, pending, dead, pump, slot, wait, answers, cancels,
    runRow, up, line, behind, stands, cutOff, seen, notes, box, failures,
    jobs, tasks, held, look, reminded, hasMore, list, taskFaults,
    defs, entries, process, history, edits, edited, flowStops, forgiven,
    wants, link, view, wanted, rescue, lookup, resyncs, out, server,
    accepted, queue, buffer, collector, batches, logged, closing

hubVars == <<inbox, closed, run, waiters, pending, dead, pump, slot, wait, answers, cancels>>
treeVars == <<runRow, up, line, behind, stands, cutOff, seen, notes, box, failures>>
asyncVars == <<jobs, tasks, held, look, reminded, hasMore, list, taskFaults>>
cronVars == <<defs, entries, process, history, edits, edited, flowStops, forgiven>>
webVars == <<wants, link, view, wanted, rescue, lookup, resyncs, out, server>>
auditVars == <<accepted, queue, buffer, collector, batches, logged, closing>>

(* Calls of two successive runs of a connection, without a timer. *)
Hub == INSTANCE ClientHub WITH
    Asks <- {a1, a2, a3}, Confirms <- {}, MaxRun <- 2,
    RunOf <- [k \in {a1, a2, a3} |-> IF k = a1 THEN 1 ELSE 2], Timed <- {},
    InboxCap <- 2, PendingCap <- 1, MaxAnswers <- 1, MaxCancels <- 0

(* Two sub-runs, one below the other or both below the outer run, cut off  *)
(* with it or at their end; nobody asks the client, from whose wait a run  *)
(* is cut off as from its loop.                                            *)
Tree == INSTANCE Delegation WITH
    MaxSubs <- 2, MaxDepth <- 2, MaxSpend <- 0, MaxInputs <- 0, MaxFailures <- 0,
    ledger <- notes

(* One job, two instances that reconcile it. *)
Async == INSTANCE AsyncTasks WITH
    NumTasks <- 1, KeyOf <- <<1>>, Owners <- {w1, w2}, MaxReports <- 2, MaxTaskFaults <- 1,
    ReminderLimit <- 1, PageSize <- 1

(* Two firings of a workflow, and a stop or a crash. *)
Cron == INSTANCE Workflows WITH
    Flows <- {flow1}, Editors <- {editor}, MaxFlowRuns <- 2, MaxEdits <- 0, MaxFlowStops <- 1,
    MaxParallel <- 1, Threshold <- 2

(* One request of the user over three connections, sent three times at most. *)
Web == INSTANCE WebClient WITH
    MaxAsks <- 3, MaxConnections <- 3, MaxContinuations <- 2, MaxPolls <- 2, MaxReconnects <- 1,
    asks <- wants, pending <- wanted, sent <- out

(* Records for two batches, or one and a rest, and one worker beside the collector. *)
Audits == INSTANCE Audit WITH MaxRecords <- 4, QueueSize <- 2, BatchSize <- 2, WorkerNum <- 1

ASSUME AuditAssumptions == Audits!AuditAssumption

LiveInit ==
    /\ part \in {"live", "drain", "hub", "tree", "async", "cron", "web", "audit"}
    /\ Init /\ Hub!HubInit /\ Tree!DelegationInit /\ Async!TasksInit /\ Cron!FlowsInit
    /\ Web!WebInit /\ Audits!AuditInit

-----------------------------------------------------------------------------
(* One connection and nobody who fails, deletes or delegates: the queue is *)
(* drained run by run.                                                     *)
DrainStep ==
    /\ \/ Client(c1) \/ Start(c1) \/ Conclude(c1) \/ Commit
       \/ Engine(c1) /\ UNCHANGED children

SteeringStep ==
    \/ part = "live" /\ Next /\ sent' <= 2
    \/ part = "drain" /\ DrainStep

LiveNext ==
    /\ UNCHANGED part
    /\ IF part \in {"live", "drain"} THEN SteeringStep ELSE UNCHANGED vars
    /\ IF part = "hub" THEN Hub!HubNext ELSE UNCHANGED hubVars
    /\ IF part = "tree"
       THEN /\ Tree!DelegationNext
            /\ \A r \in 0..2 : stands'[r] # "asking"
            /\ \A c \in 1..2 :
                 cutOff'[c] => cutOff'[0] \/ \E d \in {c} \cup line'[c] : stands'[d] = "over"
       ELSE UNCHANGED treeVars
    /\ IF part = "async"
       THEN Async!Submitting \/ Async!Reporting \/ Async!Reconciling
       ELSE UNCHANGED asyncVars
    /\ IF part = "cron" THEN Cron!FlowsNext ELSE UNCHANGED cronVars
    /\ IF part = "web"
       THEN Web!WebNext /\ Len(SelectSeq(wants', LAMBDA a : a = 0)) <= 1 /\ Len(out') <= 3
       ELSE UNCHANGED webVars
    /\ IF part = "audit" THEN Audits!AuditNext ELSE UNCHANGED auditVars

LiveSpec ==
    /\ LiveInit
    /\ [][LiveNext]_<<part, vars, hubVars, treeVars, asyncVars, cronVars, webVars, auditVars>>
    /\ Fairness /\ Hub!HubFairness /\ Tree!DelegationFairness /\ Async!TasksFairness /\ Cron!FlowsFairness
    /\ Web!WebFairness /\ Audits!AuditFairness

-----------------------------------------------------------------------------
(* RunsEnd and QueueDrains, of the modes that are meant for them. *)
LiveRunsEnd == part = "live" => RunsEnd
LiveQueueDrains == part = "drain" => QueueDrains
(* A disconnection releases every call and ends every pump; what was begun *)
(* in the background ends: sub-runs, the records of jobs, the rows of      *)
(* workflow runs, the recovery of a client, the records of an audit.       *)
WorkEnds ==
    /\ part = "hub" => Hub!AllReleased /\ Hub!PumpsEnd
    /\ part = "tree" => Tree!OrphansEnd
    /\ part = "async" => Async!TasksSettle
    /\ part = "cron" => Cron!FlowRunsEnd
    /\ part = "web" => Web!RecoveryEnds
    /\ part = "audit" => Audits!AuditSettles
=============================================================================
