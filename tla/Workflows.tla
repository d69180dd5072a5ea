------------------------------ MODULE Workflows ------------------------------
(***************************************************************************)
(* Scheduled workflows of one app: the definitions in the database, the    *)
(* entries of the in-process cron scheduler, the history row of every      *)
(* firing, the gate on parallel runs, the breaker that disables a          *)
(* definition after consecutive failures, and the edits of operators.      *)
(*                                                                         *)
(* One instance of the service, with crashes, stops and restarts.  What a  *)
(* run does inside (the ReAct run, the judge and its follow-up rounds, the *)
(* webhook) is its end status.  Statements do not fail: in the code a      *)
(* failed count lets a run through the gate, a failed write of the end     *)
(* status leaves the row in flight until the next start, where it fills a  *)
(* place at the gate and hides a streak from the breaker, and the breaker  *)
(* gives up when one of its own statements fails.                          *)
(***************************************************************************)
EXTENDS Integers, FiniteSets, FiniteSetsExt

CONSTANTS
    Flows,          \* workflow keys of the app
    Editors,        \* requests that change a definition, one at a time each
    MaxFlowRuns,    \* bound: history rows, numbered in the order of their ids
    MaxEdits,       \* bound: edits
    MaxFlowStops,   \* bound: crashes and stops
    MaxParallel,    \* max_parallel_per_app
    Threshold       \* failure_breaker_threshold

NoFlow == ""    \* no workflow has the empty key

ASSUME WorkflowsAssumption ==
    /\ MaxFlowRuns \in Nat /\ MaxEdits \in Nat /\ MaxFlowStops \in Nat
    /\ MaxParallel \in Nat \ {0} /\ Threshold \in Nat \ {0}
    /\ NoFlow \notin Flows

FlowRuns == 1..MaxFlowRuns
InFlight == {"pending", "running"}
Failing == {"failed", "timeout"}

VARIABLES
    defs,       \* the definitions
    entries,    \* the flows the scheduler has an entry for
    process,    \* the process: up, stopping, down
    history,    \* the rows, with the goroutine that works on each
    edits,      \* per editor, the request it is serving
    edited,     \* edits so far
    flowStops,  \* crashes and stops so far
    forgiven    \* history: flows enabled by hand, or cut off by the end of the
                \* process, since one of their runs last failed
flowVars == <<defs, entries, process, history, edits, edited, flowStops, forgiven>>

NoRun == [flow |-> NoFlow, kind |-> "cron", status |-> "none", pc |-> "none"]
NoEdit == [pc |-> "none", flow |-> NoFlow, enabled |-> FALSE]

FlowsTypeOK ==
    /\ defs \in [Flows -> [enabled : BOOLEAN, deleted : BOOLEAN]]
    /\ entries \subseteq Flows
    /\ process \in {"up", "stopping", "down"}
    /\ \A r \in FlowRuns :
         /\ history[r].flow \in Flows \cup {NoFlow}
         /\ history[r].status \in InFlight \cup Failing \cup {"none", "completed", "cancelled", "skipped"}
         /\ history[r].pc \in {"none", "gate", "launched", "running", "breaker", "trip", "unhook"}
    /\ forgiven \subseteq Flows

FlowsInit ==
    /\ defs = [f \in Flows |-> [enabled |-> TRUE, deleted |-> FALSE]]
    /\ entries = Flows
    /\ process = "up"
    /\ history = [r \in FlowRuns |-> NoRun]
    /\ edits = [e \in Editors |-> NoEdit]
    /\ edited = 0
    /\ flowStops = 0
    /\ forgiven = {}

-----------------------------------------------------------------------------
(* Firing and dispatching *)

CronSchedulable(d) == d.enabled /\ ~d.deleted

\* CreateWorkflowRun: the next id.
NewRun(f, kind, pc) ==
    \E r \in FlowRuns :
      /\ history[r].status = "none"
      /\ \A q \in 1..r-1 : history[q].status # "none"
      /\ history' = [history EXCEPT ![r] = [flow |-> f, kind |-> kind, status |-> "pending", pc |-> pc]]

\* fire: the row is written before anything is counted.
Fire(f) ==
    /\ process = "up" /\ f \in entries
    /\ NewRun(f, "cron", "gate")
    /\ UNCHANGED <<defs, entries, process, edits, edited, flowStops, forgiven>>

\* Mutant: rows that do not run yet are not counted.
OthersRunning(r) ==
    {q \in FlowRuns \ {r} : history[q].status = "running" /\ ~defs[history[q].flow].deleted}
\* CountRunningWorkflowRunsByApp, without the run itself.
Others(r) ==
    {q \in FlowRuns \ {r} : history[q].status \in InFlight /\ ~defs[history[q].flow].deleted}

Goto(r, pc) == history' = [history EXCEPT ![r].pc = pc]

PassGate(r) ==
    /\ history[r].pc = "gate"
    /\ Cardinality(Others(r)) < MaxParallel
    /\ Goto(r, "launched")
    /\ UNCHANGED <<defs, entries, process, edits, edited, flowStops, forgiven>>

SkipRun(r) ==
    /\ history[r].pc = "gate"
    /\ Cardinality(Others(r)) >= MaxParallel
    /\ history' = [history EXCEPT ![r].pc = "none", ![r].status = "skipped"]
    /\ UNCHANGED <<defs, entries, process, edits, edited, flowStops, forgiven>>

\* DispatchWorkflowDef: by hand, past the gate.
Dispatch(f) ==
    /\ process = "up"
    /\ CronSchedulable(defs[f])
    /\ NewRun(f, "manual", "launched")
    /\ UNCHANGED <<defs, entries, process, edits, edited, flowStops, forgiven>>

-----------------------------------------------------------------------------
(* The goroutine of a run *)

\* executeWorkflowRun writes running whatever the row says by now.
BeginRun(r) ==
    /\ history[r].pc = "launched"
    /\ history' = [history EXCEPT ![r].pc = "running", ![r].status = "running"]
    /\ UNCHANGED <<defs, entries, process, edits, edited, flowStops, forgiven>>

\* Mutant: a run that timed out is not shown to the breaker.
AfterEndFailed(status) == IF status = "failed" THEN "breaker" ELSE "none"
\* Where the goroutine goes with the end of its run.
AfterEnd(status) == IF status \in Failing THEN "breaker" ELSE "none"

\* The run, its judge and its follow-ups are over: the end goes into the row, and
\* a failure on to the breaker.
EndRun(r) ==
    /\ history[r].pc = "running"
    /\ \E status \in Failing \cup {"completed", "cancelled"} :
         /\ history' = [history EXCEPT ![r].status = status,
                          ![r].pc = AfterEnd(status)]
         /\ forgiven' = IF status \in Failing THEN forgiven \ {history[r].flow} ELSE forgiven
    /\ UNCHANGED <<defs, entries, process, edits, edited, flowStops>>

RowsOf(f) == {r \in FlowRuns : history[r].flow = f}

\* ListRecentWorkflowRunStatuses: the last n rows of a flow, whatever their state.
Recent(f, n) == {r \in RowsOf(f) : Cardinality({q \in RowsOf(f) : q > r}) < n}

\* shouldTripFailureBreaker.
ShouldTrip(f) ==
    /\ Cardinality(RowsOf(f)) >= Threshold
    /\ \A r \in Recent(f, Threshold) : history[r].status \in Failing

\* maybeTripFailureBreaker reads the history, then the definition, then writes
\* enabled = 0 and takes the entry away.
CheckBreaker(r) ==
    /\ history[r].pc = "breaker"
    /\ Goto(r, IF ShouldTrip(history[r].flow) /\ CronSchedulable(defs[history[r].flow])
               THEN "trip" ELSE "none")
    /\ UNCHANGED <<defs, entries, process, edits, edited, flowStops, forgiven>>

TripBreaker(r) ==
    /\ history[r].pc = "trip"
    /\ defs' = [defs EXCEPT ![history[r].flow].enabled = @ /\ defs[history[r].flow].deleted]
    /\ Goto(r, "unhook")
    /\ UNCHANGED <<entries, process, edits, edited, flowStops, forgiven>>

\* SyncRemove does nothing once the scheduler has stopped.
Removed(f) == IF process = "up" THEN entries \ {f} ELSE entries

UnhookTripped(r) ==
    /\ history[r].pc = "unhook"
    /\ entries' = Removed(history[r].flow)
    /\ Goto(r, "none")
    /\ UNCHANGED <<defs, process, edits, edited, flowStops, forgiven>>

-----------------------------------------------------------------------------
(* Edits: UpdateWorkflowDef that sets enabled or leaves it, DeleteWorkflowDef *)

\* The request reads the definition; merged is what it read with its own change.
ReadDefinition(e, f) ==
    /\ process = "up" /\ edits[e].pc = "none"
    /\ edited < MaxEdits /\ ~defs[f].deleted
    /\ edited' = edited + 1
    /\ \E pc \in {"enable", "disable", "change", "delete"} :
         edits' = [edits EXCEPT ![e] =
           [pc |-> pc, flow |-> f,
            enabled |-> (pc = "enable" \/ (pc = "change" /\ defs[f].enabled))]]
    /\ UNCHANGED <<defs, entries, process, history, flowStops, forgiven>>

\* Only the columns of the request are written, and only to a row not deleted.
WriteDefinition(e) ==
    LET f == edits[e].flow  pc == edits[e].pc IN
    /\ pc \in {"enable", "disable", "change"}
    /\ defs' = IF defs[f].deleted \/ pc = "change" THEN defs
               ELSE [defs EXCEPT ![f].enabled = (pc = "enable")]
    /\ forgiven' = IF pc = "enable" THEN forgiven \cup {f} ELSE forgiven
    /\ edits' = [edits EXCEPT ![e].pc = "register"]
    /\ UNCHANGED <<entries, process, history, edited, flowStops>>

\* SyncRegister: the old entry goes, and the merged definition decides on the new.
SyncRegister(e) ==
    LET f == edits[e].flow IN
    /\ edits[e].pc = "register"
    /\ entries' = IF process = "up" /\ edits[e].enabled THEN entries \cup {f} ELSE Removed(f)
    /\ edits' = [edits EXCEPT ![e] = NoEdit]
    /\ UNCHANGED <<defs, process, history, edited, flowStops, forgiven>>

\* SoftDeleteWorkflow, two statements, and the entry.
DeleteDefinition(e) ==
    /\ edits[e].pc = "delete"
    /\ defs' = [defs EXCEPT ![edits[e].flow].deleted = TRUE]
    /\ edits' = [edits EXCEPT ![e].pc = "skip"]
    /\ UNCHANGED <<entries, process, history, edited, flowStops, forgiven>>

SkipPending(e) ==
    /\ edits[e].pc = "skip"
    /\ history' = [r \in FlowRuns |->
         IF history[r].flow = edits[e].flow /\ history[r].status = "pending"
         THEN [history[r] EXCEPT !.status = "skipped"] ELSE history[r]]
    /\ edits' = [edits EXCEPT ![e] = [NoEdit EXCEPT !.pc = "remove", !.flow = edits[e].flow]]
    /\ UNCHANGED <<defs, entries, process, edited, flowStops, forgiven>>

SyncRemove(e) ==
    /\ edits[e].pc = "remove"
    /\ entries' = Removed(edits[e].flow)
    /\ edits' = [edits EXCEPT ![e] = NoEdit]
    /\ UNCHANGED <<defs, process, history, edited, flowStops, forgiven>>

-----------------------------------------------------------------------------
(* The life of the process *)

\* Stop: no entry is left, firings under way are let through, runs get a grace.
StopScheduler ==
    /\ process = "up" /\ flowStops < MaxFlowStops
    /\ \A e \in Editors : edits[e].pc = "none"
    /\ process' = "stopping"
    /\ entries' = {}
    /\ flowStops' = flowStops + 1
    /\ UNCHANGED <<defs, history, edits, edited, forgiven>>

\* The process is gone, after the grace or by a crash, and every goroutine with it.
ProcessEnds ==
    /\ \/ /\ process = "stopping" /\ \A r \in FlowRuns : history[r].pc # "gate"
          /\ UNCHANGED flowStops
       \/ /\ process = "up" /\ flowStops < MaxFlowStops
          /\ flowStops' = flowStops + 1
    /\ process' = "down"
    /\ entries' = {}
    /\ edits' = [e \in Editors |-> NoEdit]
    /\ history' = [r \in FlowRuns |-> [history[r] EXCEPT !.pc = "none"]]
    /\ forgiven' = Flows
    /\ UNCHANGED <<defs, edited>>

\* Mutant: rows that were not begun stay.
ExpiredRunning(row) == IF row.status = "running" THEN [row EXCEPT !.status = "failed"] ELSE row
\* ExpireStaleWorkflowRuns, on a row.
ExpiredRow(row) == IF row.status \in InFlight THEN [row EXCEPT !.status = "failed"] ELSE row

\* start: ExpireStaleWorkflowRuns, then an entry for every schedulable definition.
StartScheduler ==
    /\ process = "down"
    /\ process' = "up"
    /\ history' = [r \in FlowRuns |-> ExpiredRow(history[r])]
    /\ entries' = {f \in Flows : CronSchedulable(defs[f])}
    /\ UNCHANGED <<defs, edits, edited, flowStops, forgiven>>

-----------------------------------------------------------------------------
RunStep(r) ==
    \/ PassGate(r) \/ SkipRun(r) \/ BeginRun(r) \/ EndRun(r)
    \/ CheckBreaker(r) \/ TripBreaker(r) \/ UnhookTripped(r)

EditStep(e) ==
    \/ \E f \in Flows : ReadDefinition(e, f)
    \/ WriteDefinition(e) \/ SyncRegister(e)
    \/ DeleteDefinition(e) \/ SkipPending(e) \/ SyncRemove(e)

FlowsNext ==
    \/ \E f \in Flows : Fire(f) \/ Dispatch(f)
    \/ \E r \in FlowRuns : RunStep(r)
    \/ \E e \in Editors : EditStep(e)
    \/ StopScheduler \/ ProcessEnds \/ StartScheduler

FlowsSpec == FlowsInit /\ [][FlowsNext]_flowVars

\* A run ends, by its time limit at the latest; a process that is down is started.
FlowsFairness ==
    /\ \A r \in FlowRuns : WF_flowVars(RunStep(r))
    /\ WF_flowVars(StartScheduler)
    /\ WF_flowVars(process = "stopping" /\ ProcessEnds)

-----------------------------------------------------------------------------
\* The gate: however firings interleave, no more runs that came through it are
\* under way than the app may have, deleted definitions aside (fire).
GateHolds ==
    Cardinality({r \in FlowRuns :
        /\ history[r].kind = "cron" /\ history[r].pc \in {"launched", "running"}
        /\ ~defs[history[r].flow].deleted}) <= MaxParallel

\* The breaker misses no streak: once no run of a flow is under way and its last
\* runs all failed, it is disabled, unless it was enabled by hand, or the process
\* ended, after the last failure (maybeTripFailureBreaker).
BreakerNotMissed ==
    \A f \in Flows \ forgiven :
      (/\ \A r \in RowsOf(f) : history[r].pc = "none" /\ history[r].status \notin InFlight
       /\ ShouldTrip(f))
      => ~CronSchedulable(defs[f])

\* No row stays in flight, where it would count against the gate for ever: runs
\* end, and those of a process that ended are closed by the next start.
FlowRunsEnd == \A r \in FlowRuns : (history[r].status \in InFlight) ~> (history[r].status \notin InFlight)

\* What the scheduler fires is what the definitions say, once no edit and no run
\* is under way: "all changes of a definition synchronise the entry through the
\* manager, so that memory and database do not drift" (service/workflow/manager.go).
EntriesMatch ==
    (/\ process = "up"
     /\ \A e \in Editors : edits[e].pc = "none"
     /\ \A r \in FlowRuns : history[r].pc = "none")
    => entries = {f \in Flows : CronSchedulable(defs[f])}
=============================================================================
