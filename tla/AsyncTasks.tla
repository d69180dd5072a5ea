----------------------------- MODULE AsyncTasks -----------------------------
(***************************************************************************)
(* Asynchronous tasks: jobs that a business tool submitted to an external  *)
(* scheduler, their rows in tblLlmReactAsyncTask, the observations that a  *)
(* provider reports, the leases under which the instances reconcile them,  *)
(* the reminder that a run holds in memory, and the paged list that the    *)
(* web client polls.  One session.                                         *)
(*                                                                         *)
(* Time is abstract: a flag per deadline says whether it has passed, and   *)
(* an action of its own lets it pass.  The scheduler and the transport of  *)
(* its events are external: an event that was published may be delivered   *)
(* at any later moment, several times, out of order, or never.             *)
(***************************************************************************)
EXTENDS Integers, Sequences, SequencesExt, FiniteSetsExt

CONSTANTS
    NumTasks,       \* rows, numbered in the order of their ids
    KeyOf,          \* the task_key of each row: two rows may share one
    Owners,         \* lease owners, one per instance of the service
    Nobody,         \* the empty lease_owner
    MaxReports,     \* bound: statuses that the scheduler goes through per job
    MaxTaskFaults,  \* bound: crashes of an owner and failed reconciliations
    ReminderLimit,  \* maxReactAsyncTaskReminderItems
    PageSize        \* rows in a page of the list

ASSUME AsyncTasksAssumption ==
    /\ NumTasks \in Nat /\ MaxReports \in Nat \ {0} /\ MaxTaskFaults \in Nat
    /\ ReminderLimit \in Nat \ {0} /\ PageSize \in Nat \ {0}
    /\ Nobody \notin Owners

Tasks == 1..NumTasks
Keys == {KeyOf[t] : t \in Tasks}
Ended == {"succeeded", "failed"}
NotKnown == ""     \* the provider does not recognise the job

VARIABLES
    jobs,       \* per key, the statuses the scheduler has published, in order
    tasks,      \* the rows
    held,       \* per owner, the rows of its last claim that it still works on
    look,       \* per owner, the answer of the scheduler it has not reported yet
    reminded,   \* pendingAsyncTasks of the active run, newest first
    hasMore,    \* pendingAsyncTasksHasMore
    list,       \* the web client's list and the request it has open
    taskFaults
taskVars == <<jobs, tasks, held, look, reminded, hasMore, list, taskFaults>>

NoLook == [task |-> 0, status |-> "processing", event |-> 0, seq |-> 0, at |-> 0]

NoTask == [ state |-> "absent", exec |-> NotKnown, event |-> 0, seq |-> 0, at |-> 0,
            owner |-> Nobody, leased |-> FALSE, due |-> TRUE, stale |-> TRUE,
            aged |-> FALSE ]

ClosedList == [pc |-> "idle", cursor |-> 0, got |-> <<>>, shown |-> <<>>, ready |-> {}]

TasksTypeOK ==
    /\ jobs \in [Keys -> UNION {[1..n -> Ended \cup {"processing"}] : n \in 0..MaxReports}]
    /\ tasks \in [Tasks ->
         [ state : {"absent", "called", "lost", "pending", "resolved", "expired"},
           exec : Ended \cup {NotKnown, "processing"},
           event : 0..MaxReports, seq : 0..MaxReports, at : 0..MaxReports,
           owner : Owners \cup {Nobody}, leased : BOOLEAN,
           due : BOOLEAN, stale : BOOLEAN, aged : BOOLEAN ]]
    /\ held \in [Owners -> SUBSET Tasks]
    /\ \A w \in Owners : look[w].task \in {0} \cup held[w]
    /\ Len(reminded) <= ReminderLimit /\ ToSet(reminded) \subseteq Tasks
    /\ hasMore \in BOOLEAN
    /\ list.pc \in {"idle", "page"} /\ ToSet(list.shown) \subseteq Tasks

TasksInit ==
    /\ jobs = [k \in Keys |-> <<>>]
    /\ tasks = [t \in Tasks |-> NoTask]
    /\ held = [w \in Owners |-> {}]
    /\ look = [w \in Owners |-> NoLook]
    /\ reminded = <<>>
    /\ hasMore = FALSE
    /\ list = ClosedList
    /\ taskFaults = 0

-----------------------------------------------------------------------------
(* The tool call of a run and the row that records it *)

\* The tool returned successfully: the scheduler has the job (or had it, for a
\* key that two calls share).
CallTool(t) ==
    /\ tasks[t].state = "absent"
    /\ \A u \in 1..t-1 : tasks[u].state \notin {"absent", "called"}
    /\ tasks' = [tasks EXCEPT ![t].state = "called"]
    /\ jobs' = [jobs EXCEPT ![KeyOf[t]] = IF @ = <<>> THEN <<"processing">> ELSE @]
    /\ UNCHANGED <<held, look, reminded, hasMore, list, taskFaults>>

\* The new row goes to the head of the run's reminder, which is cut at its limit.
Prepend(t) ==
    /\ reminded' = IF Len(reminded) >= ReminderLimit
                   THEN SubSeq(<<t>> \o reminded, 1, ReminderLimit)
                   ELSE <<t>> \o reminded
    /\ hasMore' = (hasMore \/ Len(reminded) >= ReminderLimit)

\* The provider recognises the job, or it does not and the row stays with the
\* reminder alone; next_sync_at is now, last_observed_at is unset.
RecordTask(t) ==
    /\ tasks[t].state = "called"
    /\ \E exec \in {"processing", NotKnown} :
         tasks' = [tasks EXCEPT ![t].state = "pending", ![t].exec = exec]
    /\ Prepend(t)
    /\ UNCHANGED <<jobs, held, look, list, taskFaults>>

\* The tool call failed in transport, or the row could not be written: the call
\* goes on and nothing is recorded.
RecordFails(t) ==
    /\ tasks[t].state = "called"
    /\ taskFaults < MaxTaskFaults
    /\ taskFaults' = taskFaults + 1
    /\ tasks' = [tasks EXCEPT ![t].state = "lost"]
    /\ UNCHANGED <<jobs, held, look, reminded, hasMore, list>>

\* ExpireReactAsyncTasks: rows past their time to live, whenever they are read.
Expired(rows) == [t \in Tasks |->
    IF rows[t].state = "pending" /\ rows[t].aged
    THEN [rows[t] EXCEPT !.state = "expired"] ELSE rows[t]]

Pending(rows) == {t \in Tasks : rows[t].state = "pending" /\ ~rows[t].aged}

\* Ascending and descending by id, cut at n rows.
ById(S) == FlattenSeq([t \in Tasks |-> IF t \in S THEN <<t>> ELSE <<>>])
FirstRows(S, n) == SubSeq(ById(S), 1, Min({n, Len(ById(S))}))
LastRows(S, n) == SubSeq(Reverse(ById(S)), 1, Min({n, Len(ById(S))}))

\* A new outer run of the session loads its reminder.
LoadReminder ==
    /\ \A t \in Tasks : tasks[t].state # "called"
    /\ tasks' = Expired(tasks)
    /\ LET rows == LastRows(Pending(tasks'), ReminderLimit + 1)
       IN /\ reminded' = SubSeq(rows, 1, Min({ReminderLimit, Len(rows)}))
          /\ hasMore' = (Len(rows) > ReminderLimit)
    /\ UNCHANGED <<jobs, held, look, list, taskFaults>>

\* removePendingAsyncTask keeps the others.
Without(s, t) == FlattenSeq([i \in 1..Len(s) |-> IF s[i] = t THEN <<>> ELSE <<s[i]>>])

\* The model closes a task; the answer is the same when it was closed before.
ResolveTask(t) ==
    /\ tasks[t].state \in {"pending", "resolved", "expired"}
    /\ tasks' = [tasks EXCEPT ![t].state = IF @ = "pending" THEN "resolved" ELSE @]
    /\ reminded' = Without(reminded, t)
    /\ tasks' # tasks \/ reminded' # reminded
    /\ UNCHANGED <<jobs, held, look, hasMore, list, taskFaults>>

-----------------------------------------------------------------------------
(* The scheduler and the observations of it *)

\* External: the scheduler moves the job on and publishes an event for it.
SchedulerReports(k) ==
    /\ jobs[k] # <<>> /\ Len(jobs[k]) < MaxReports
    /\ Last(jobs[k]) \notin Ended
    /\ \E status \in Ended \cup {"processing"} : jobs' = [jobs EXCEPT ![k] = Append(@, status)]
    /\ UNCHANGED <<tasks, held, look, reminded, hasMore, list, taskFaults>>

\* Mutant: numbers are not compared.
AcceptsAnyOrder(row, o) ==
    /\ row.exec \in {"processing"} \cup ({o.status} \cap Ended)
    /\ o.event # 0 => o.event # row.event
\* Which rows an observation of the key changes: those still processing, or
\* ended the same way; not an event seen before, a number that is not newer, or
\* an observation made before the last one.
Accepts(row, o) ==
    /\ row.exec \in {"processing"} \cup ({o.status} \cap Ended)
    /\ o.event # 0 => o.event # row.event
    /\ (o.seq > 0 /\ row.seq > 0) => o.seq > row.seq
    /\ row.at # 0 => o.at >= row.at

\* ApplyReactAsyncTaskObservation on one row: the lease is cleared, whoever has it.
Observed(row, o) ==
    [row EXCEPT !.exec = o.status, !.at = o.at, !.stale = FALSE,
                !.event = IF o.event # 0 THEN o.event ELSE @,
                !.seq = IF o.seq > 0 THEN o.seq ELSE @,
                !.due = IF o.status \in Ended THEN TRUE ELSE @,
                !.owner = Nobody, !.leased = FALSE]

Emit(k, o) ==
    tasks' = [t \in Tasks |-> IF KeyOf[t] = k /\ Accepts(tasks[t], o)
                              THEN Observed(tasks[t], o) ELSE tasks[t]]

\* An event of the scheduler arrives, with a sequence number or without.
DeliverEvent(k, n) ==
    /\ n \in 1..Len(jobs[k])
    /\ \E seq \in {0, n} :
         Emit(k, [status |-> jobs[k][n], event |-> n, seq |-> seq, at |-> n])
    /\ tasks' # tasks
    /\ UNCHANGED <<jobs, held, look, reminded, hasMore, list, taskFaults>>

-----------------------------------------------------------------------------
(* Reconciliation under leases *)

Claimable(row) ==
    /\ row.exec = "processing"
    /\ row.due /\ row.stale
    /\ ~row.leased

\* ClaimReactAsyncTasks: one transaction, rows locked by another are skipped.
ClaimTasks(w) ==
    /\ held[w] = {}
    /\ LET rows == {t \in Tasks : Claimable(tasks[t])}
       IN /\ rows # {}
          /\ tasks' = [t \in Tasks |-> IF t \in rows
                         THEN [tasks[t] EXCEPT !.owner = w, !.leased = TRUE] ELSE tasks[t]]
          /\ held' = [held EXCEPT ![w] = rows]
    /\ UNCHANGED <<jobs, look, reminded, hasMore, list, taskFaults>>

\* The owner asks the scheduler; the answer has no event and no number.
AskScheduler(w, t) ==
    /\ t \in held[w] /\ look[w] = NoLook
    /\ look' = [look EXCEPT ![w] =
         [NoLook EXCEPT !.task = t, !.status = Last(jobs[KeyOf[t]]), !.at = Len(jobs[KeyOf[t]])]]
    /\ UNCHANGED <<jobs, tasks, held, reminded, hasMore, list, taskFaults>>

\* The owner reports the answer, which the scheduler may have outdated meanwhile.
ReportLook(w) ==
    /\ look[w] # NoLook
    /\ Emit(KeyOf[look[w].task], look[w])
    /\ held' = [held EXCEPT ![w] = @ \ {look[w].task}]
    /\ look' = [look EXCEPT ![w] = NoLook]
    /\ UNCHANGED <<jobs, reminded, hasMore, list, taskFaults>>

\* ScheduleReactAsyncTaskRetry and ReleaseReactAsyncTaskLease: only the row's
\* present owner moves next_sync_at and gives the lease back.
GiveBack(w, t) ==
    /\ t \in held[w] /\ look[w] = NoLook
    /\ taskFaults < MaxTaskFaults
    /\ taskFaults' = taskFaults + 1
    /\ held' = [held EXCEPT ![w] = @ \ {t}]
    /\ tasks' = [tasks EXCEPT ![t] = IF @.owner # w THEN @
                   ELSE [@ EXCEPT !.due = FALSE, !.owner = Nobody, !.leased = FALSE]]
    /\ UNCHANGED <<jobs, look, reminded, hasMore, list>>

\* The instance dies: its leases stay in the rows.
OwnerCrash(w) ==
    /\ held[w] # {}
    /\ taskFaults < MaxTaskFaults
    /\ taskFaults' = taskFaults + 1
    /\ held' = [held EXCEPT ![w] = {}]
    /\ look' = [look EXCEPT ![w] = NoLook]
    /\ UNCHANGED <<jobs, tasks, reminded, hasMore, list>>

\* A deadline of a row passes: the lease, the next reconciliation, the age of
\* the last observation, the time to live.
Pass(t, row) == /\ tasks' = [tasks EXCEPT ![t] = row]
                /\ UNCHANGED <<jobs, held, look, reminded, hasMore, list, taskFaults>>
LeaseLapses(t) == tasks[t].leased /\ Pass(t, [tasks[t] EXCEPT !.leased = FALSE])
SyncComesDue(t) == ~tasks[t].due /\ Pass(t, [tasks[t] EXCEPT !.due = TRUE])
GoesStale(t) ==
    ~tasks[t].stale /\ tasks[t].exec = "processing" /\ Pass(t, [tasks[t] EXCEPT !.stale = TRUE])
GrowsOld(t) ==
    tasks[t].state = "pending" /\ ~tasks[t].aged /\ Pass(t, [tasks[t] EXCEPT !.aged = TRUE])

-----------------------------------------------------------------------------
(* The list that the web client polls *)

\* Rows the scheduler has ended and nobody has closed.
Ready(rows) == {t \in Tasks : rows[t].state = "pending" /\ rows[t].exec \in Ended}

\* refresh: after a run, when the page becomes visible, when the timer fires.
Refresh ==
    /\ list.pc = "idle"
    /\ list' = [ClosedList EXCEPT !.pc = "page", !.shown = list.shown,
                                  !.ready = Ready(Expired(tasks))]
    /\ UNCHANGED <<jobs, tasks, held, look, reminded, hasMore, taskFaults>>

\* A page of ListSessionAsyncTasks: it expires, then reads one row more than
\* fits; the client asks for the next page, or replaces what it shows.
ReadPage ==
    /\ list.pc = "page"
    /\ tasks' = Expired(tasks)
    /\ LET rows == FirstRows({t \in Ready(tasks') : t > list.cursor}, PageSize + 1)
           page == SubSeq(rows, 1, Min({PageSize, Len(rows)}))
       IN list' = IF Len(rows) > PageSize
                  THEN [list EXCEPT !.got = @ \o page, !.cursor = Last(page)]
                  ELSE [ClosedList EXCEPT !.shown = list.got \o page]
    /\ UNCHANGED <<jobs, held, look, reminded, hasMore, taskFaults>>

-----------------------------------------------------------------------------
Submitting == \E t \in Tasks : CallTool(t) \/ RecordTask(t) \/ RecordFails(t)

Reminding == LoadReminder \/ \E t \in Tasks : ResolveTask(t) \/ GrowsOld(t)

Reporting ==
    \E k \in Keys : SchedulerReports(k) \/ \E n \in 1..MaxReports : DeliverEvent(k, n)

Reconciling ==
    \/ \E w \in Owners :
         \/ ClaimTasks(w) \/ ReportLook(w) \/ OwnerCrash(w)
         \/ \E t \in Tasks : AskScheduler(w, t) \/ GiveBack(w, t)
    \/ \E t \in Tasks : LeaseLapses(t) \/ SyncComesDue(t) \/ GoesStale(t)

Listing == Refresh \/ ReadPage

TasksNext == Submitting \/ Reminding \/ Reporting \/ Reconciling \/ Listing

TasksSpec == TasksInit /\ [][TasksNext]_taskVars

\* Every instance keeps reconciling and time passes.
TasksFairness ==
    /\ \A w \in Owners :
         /\ WF_taskVars(ClaimTasks(w)) /\ WF_taskVars(ReportLook(w))
         /\ \A t \in Tasks : WF_taskVars(AskScheduler(w, t))
    /\ \A t \in Tasks :
         /\ WF_taskVars(LeaseLapses(t)) /\ WF_taskVars(SyncComesDue(t))
         /\ WF_taskVars(GoesStale(t))

-----------------------------------------------------------------------------
\* An observation never takes a row back: an ended task keeps its end, and the
\* number and the time of the last observation do not decrease, whatever order
\* events, answers and repetitions arrive in (ApplyReactAsyncTaskObservation).
ObservationsAdvance ==
    [][\A t \in Tasks :
         /\ tasks[t].exec \in Ended => tasks'[t].exec = tasks[t].exec
         /\ tasks'[t].seq >= tasks[t].seq
         /\ tasks'[t].at >= tasks[t].at]_taskVars

\* The run's reminder names every task that is pending, or says that there are
\* more: at its limit, after a cut and after a removal (loadPendingReactAsyncTasks,
\* recordAsyncSubmit, removePendingAsyncTask).
ReminderComplete == hasMore \/ Pending(tasks) \subseteq ToSet(reminded)

\* A refresh misses no task that was ready when it began and still is, and names
\* none twice, although pages are read one by one while tasks end and are closed
\* (ListSessionAsyncTasks with its cursor, AsyncTaskManager.loadAllPages).
RefreshComplete ==
    [][(list.pc = "page" /\ list'.pc = "idle") =>
         /\ (list.ready \cap Ready(tasks')) \subseteq ToSet(list'.shown)
         /\ IsInjective(list'.shown)]_taskVars

\* A task whose job has ended is eventually recorded as ended: a lost event is
\* made good by reconciliation, and the lease of an instance that died lapses.
TasksSettle ==
    \A t \in Tasks :
      (tasks[t].exec = "processing" /\ jobs[KeyOf[t]] # <<>> /\ Last(jobs[KeyOf[t]]) \in Ended)
        ~> (tasks[t].exec \in Ended)
=============================================================================
