---------------------------- MODULE PlanExecution ----------------------------
(***************************************************************************)
(* The plan runtime (service/plan).  A run in plan mode lets a planner     *)
(* write a plan of steps; its executor then takes the steps one by one: an *)
(* agent step is a sub-run with attempts, a user step stores a wait, ends  *)
(* the goroutine and is taken up again by a command.  The commands resume, *)
(* retry and skip go on with an executor of their own, cancel ends the     *)
(* plan.  They come over HTTP or from other connections, next to the       *)
(* executor that works on the plan.                                        *)
(*                                                                         *)
(* A step of the model is one statement or transaction on the database.  A *)
(* read is joined with the statement next to it, and so are the pairs of   *)
(* statements that end a cancelled attempt, and the registration of a      *)
(* cancel function with the update before it.                              *)
(***************************************************************************)
EXTENDS Integers, Sequences, FiniteSets

CONSTANTS
    Callers,        \* goroutines that run or command the plan
    Runner,         \* the one that starts it
    NumSteps,       \* steps of the plan
    Kind,           \* the type of each step
    Optional,       \* the steps that are not required
    MaxAttempts,    \* of each step
    Ops,            \* what users may do
    MaxFaults,      \* bound: statements and writes that fail
    Nobody          \* no caller

Steps == 1..NumSteps

ASSUME Assumptions ==
    /\ Runner \in Callers /\ Nobody \notin Callers
    /\ NumSteps \in Nat \ {0}
    /\ Kind \in [Steps -> {"AGENT", "USER_INPUT", "USER_ACTION"}]
    /\ Optional \subseteq Steps
    /\ MaxAttempts \in [Steps -> Nat \ {0}]
    /\ MaxFaults \in Nat

VARIABLES
    plan,       \* PlanExecution.Status; "WAIT" is WAIT_USER_INPUT or WAIT_USER_ACTION
    cur,        \* PlanExecution.CurrentStepID, 0 if empty
    version,    \* whether PlanExecution.CurrentVersionID is set
    step,       \* PlanStep.Status of each step
    tries,      \* per step, the status of its attempts
    waits,      \* the wait rows: step and status
    outer,      \* ReactRun.State of the outer run
    registered, \* whose cancel function the registry holds for the outer run
    cancelled,  \* the callers whose context is cancelled
    answers,    \* final answers written to the session
    pc, my,     \* progress and local copies of each caller
    faults,
    skipped     \* whether a step was ever skipped; a cancel may write over it

rows == <<plan, cur, version, step, tries, waits>>
vars == <<rows, outer, registered, cancelled, answers, pc, my, faults, skipped>>

PlanStatus == {"PLANNING", "RUNNING", "WAIT", "SUCCEEDED", "FAILED", "CANCELLED"}
StepStatus == {"ABSENT", "PENDING", "RUNNING", "WAITING", "SUCCEEDED", "FAILED",
               "CANCELLED", "SKIPPED"}
RunState   == {"running", "waiting_plan", "cancelling", "finished", "cancelled", "error"}
RunOver    == {"finished", "cancelled", "error"}

Pc == {"planning", "show", "loop", "claim", "attempt", "work", "pause", "paused",
       "finalize", "answer", "report", "idle", "retry", "skip", "restore", "begin", "resolve", "stop",
       "failSteps", "failPlan", "failRun",
       "cancelWait", "cancelStep", "cancelSteps", "cancelPlan", "cancelRun", "exit", "over"}

(* cur, version: of the copy of the plan row; step, wait: what a command   *)
(* names or the executor works on; waiting: the step was WAITING when it   *)
(* was read; attempt, limit: of the attempts of the step; begun: the       *)
(* cancel function was registered.                                         *)
Fresh == [op |-> "none", cur |-> 0, version |-> FALSE, step |-> 0, wait |-> 0,
          waiting |-> FALSE, attempt |-> 0, limit |-> 0, begun |-> FALSE]

Init ==
    /\ plan = "PLANNING" /\ cur = 0 /\ version = FALSE
    /\ step = [s \in Steps |-> "ABSENT"]
    /\ tries = [s \in Steps |-> <<>>]
    /\ waits = <<>>
    /\ outer = "running" /\ registered = Runner
    /\ cancelled = {} /\ answers = 0
    /\ pc = [c \in Callers |-> IF c = Runner THEN "planning" ELSE "idle"]
    /\ my = [c \in Callers |-> IF c = Runner THEN [Fresh EXCEPT !.op = "run", !.begun = TRUE]
                                             ELSE Fresh]
    /\ faults = 0 /\ skipped = FALSE

Goto(c, l) == pc' = [pc EXCEPT ![c] = l]
(* The goroutine ends, and what it read is gone with it. *)
Leave(c)   == Goto(c, "over") /\ my' = [my EXCEPT ![c] = Fresh]
Quiet      == UNCHANGED <<outer, registered, cancelled, answers, faults, skipped>>

(* The pending steps of a set, cancelled in one statement. *)
CancelPending(S) ==
    step' = [s \in Steps |-> IF s \in S /\ step[s] = "PENDING" THEN "CANCELLED" ELSE step[s]]

-----------------------------------------------------------------------------
(* RunWithClientReaderContext *)

(* The plan is stored; the plan row follows only if it is still PLANNING,  *)
(* and nobody looks at whether it was.                                     *)
Draft(c) ==
    /\ pc[c] = "planning"
    /\ step' = [s \in Steps |-> "PENDING"]
    /\ IF plan = "PLANNING" THEN plan' = "RUNNING" /\ version' = TRUE
                            ELSE UNCHANGED <<plan, version>>
    /\ my' = [my EXCEPT ![c].version = TRUE]
    /\ Goto(c, "show")
    /\ Quiet /\ UNCHANGED <<cur, tries, waits>>

(* The model failed, was cancelled, or wrote no valid plan. *)
DraftFails(c) ==
    /\ pc[c] = "planning" /\ Goto(c, "failSteps")
    /\ Quiet /\ UNCHANGED <<rows, my>>

(* The view is sent; a command or run that cannot send it just returns.    *)
Show(c) ==
    /\ pc[c] = "show" /\ Goto(c, "loop")
    /\ Quiet /\ UNCHANGED <<rows, my>>

ShowFails(c) ==
    /\ pc[c] = "show" /\ faults < MaxFaults
    /\ faults' = faults + 1
    /\ Goto(c, "exit")
    /\ UNCHANGED <<rows, outer, registered, cancelled, answers, my, skipped>>

-----------------------------------------------------------------------------
(* executor.run *)

PendingSteps(c) == {s \in Steps : my[c].version /\ step[s] = "PENDING"}
(* Mutant: the last step first. *)
LastOf(S)       == CHOOSE s \in S : \A t \in S : s >= t
FirstOf(S)      == CHOOSE s \in S : \A t \in S : s <= t

Loop(c) ==
    /\ pc[c] = "loop" /\ c \notin cancelled
    /\ \/ /\ PendingSteps(c) # {}
          /\ my' = [my EXCEPT ![c].step = FirstOf(PendingSteps(c))]
          /\ Goto(c, "claim")
       \/ PendingSteps(c) = {} /\ Goto(c, "finalize") /\ UNCHANGED my
    /\ Quiet /\ UNCHANGED rows

LoopCancelled(c) ==
    /\ pc[c] = "loop" /\ c \in cancelled /\ Goto(c, "cancelWait")
    /\ Quiet /\ UNCHANGED <<rows, my>>

Claimable(s) == plan = "RUNNING" /\ cur = 0 /\ step[s] = "PENDING"

Claim(c) ==
    LET s == my[c].step IN
    /\ pc[c] = "claim" /\ Claimable(s)
    /\ cur' = s
    /\ step' = [step EXCEPT ![s] = "RUNNING"]
    /\ my' = [my EXCEPT ![c].cur = s]
    /\ Goto(c, IF Kind[s] = "AGENT" THEN "attempt" ELSE "pause")
    /\ Quiet /\ UNCHANGED <<plan, version, tries, waits>>

ClaimConflict(c) ==
    /\ pc[c] = "claim" /\ ~Claimable(my[c].step) /\ Goto(c, "loop")
    /\ my' = [my EXCEPT ![c].step = 0]
    /\ Quiet /\ UNCHANGED rows

(* Mutant: only the configured limit. *)
SecondOf(m, n) == n
Larger(m, n) == IF m > n THEN m ELSE n

(* A new attempt, numbered after those that were there when the executor   *)
(* began on the step; when they had used the limit up, there is one more.  *)
(* An attempt of that number, by another executor, is an error.            *)
Attempt(c) ==
    LET s == my[c].step
        n == IF my[c].limit = 0 THEN Len(tries[s]) + 1 ELSE my[c].attempt + 1
    IN
    /\ pc[c] = "attempt"
    /\ IF n > Len(tries[s])
       THEN /\ tries' = [tries EXCEPT ![s] = Append(@, "RUNNING")]
            /\ my' = [my EXCEPT ![c].attempt = n,
                                ![c].limit = IF @ # 0 THEN @ ELSE Larger(n, MaxAttempts[s])]
            /\ Goto(c, "work")
       ELSE Goto(c, "failSteps") /\ UNCHANGED <<tries, my>>
    /\ Quiet /\ UNCHANGED <<plan, cur, version, step, waits>>

AttemptEnds(c, status) ==
    tries' = [tries EXCEPT ![my[c].step][my[c].attempt] = status]

(* The assertions of the transactions that complete a step. *)
Owns(c) == step[my[c].step] = "RUNNING" /\ cur = my[c].step

Succeed(c) ==
    /\ pc[c] = "work" /\ Owns(c)
    /\ AttemptEnds(c, "SUCCEEDED")
    /\ step' = [step EXCEPT ![my[c].step] = "SUCCEEDED"]
    /\ cur' = 0
    /\ my' = [my EXCEPT ![c].cur = 0, ![c].step = 0, ![c].attempt = 0, ![c].limit = 0]
    /\ Goto(c, "loop")
    /\ Quiet /\ UNCHANGED <<plan, version, waits>>

(* Not the last attempt: only the attempt is written. *)
AttemptFails(c) ==
    /\ pc[c] = "work" /\ my[c].attempt < my[c].limit
    /\ AttemptEnds(c, "FAILED")
    /\ Goto(c, "attempt")
    /\ Quiet /\ UNCHANGED <<plan, cur, version, step, waits, my>>

StepFails(c) ==
    /\ pc[c] = "work" /\ my[c].attempt >= my[c].limit /\ Owns(c)
    /\ AttemptEnds(c, "FAILED")
    /\ step' = [step EXCEPT ![my[c].step] = "FAILED"]
    /\ plan' = "FAILED"
    /\ Goto(c, "failSteps")
    /\ Quiet /\ UNCHANGED <<cur, version, waits, my>>

(* The step, or the slot, was taken away: the transaction is rolled back.  *)
Overtaken(c) ==
    /\ pc[c] = "work" /\ ~Owns(c) /\ Goto(c, "failSteps")
    /\ Quiet /\ UNCHANGED <<rows, my>>

AttemptCancelled(c) ==
    /\ pc[c] = "work" /\ c \in cancelled
    /\ AttemptEnds(c, "CANCELLED")
    /\ step' = [step EXCEPT ![my[c].step] = "CANCELLED"]
    /\ Goto(c, "cancelWait")
    /\ Quiet /\ UNCHANGED <<plan, cur, version, waits, my>>

(* pauseForUser: the wait, the outer run, the view. *)
Pause(c) ==
    LET s == my[c].step IN
    /\ pc[c] = "pause"
    /\ waits' = Append(waits, [step |-> s, status |-> "PENDING"])
    /\ step' = [step EXCEPT ![s] = "WAITING"]
    /\ plan' = "WAIT" /\ cur' = s
    /\ Goto(c, "paused")
    /\ Quiet /\ UNCHANGED <<version, tries, my>>

Paused(c) ==
    /\ pc[c] = "paused"
    /\ outer' = "waiting_plan"
    /\ Goto(c, "report")
    /\ UNCHANGED <<rows, registered, cancelled, answers, my, faults, skipped>>

(* finalize: the summary by the model, the plan, the answer. *)
Summarize(c) ==
    /\ pc[c] = "finalize"
    /\ plan' = "SUCCEEDED" /\ cur' = 0
    /\ my' = [my EXCEPT ![c].cur = 0]
    /\ Goto(c, "answer")
    /\ Quiet /\ UNCHANGED <<version, step, tries, waits>>

SummaryFails(c) ==
    /\ pc[c] = "finalize"
    /\ Goto(c, "failSteps") \/ (c \in cancelled /\ Goto(c, "cancelWait"))
    /\ Quiet /\ UNCHANGED <<rows, my>>

Answer(c) ==
    /\ pc[c] = "answer"
    /\ outer' = "finished" /\ answers' = answers + 1
    /\ Goto(c, "report")
    /\ UNCHANGED <<rows, registered, cancelled, my, faults, skipped>>

(* What comes last is sent; an error here fails the plan as any other.     *)
Report(c) ==
    /\ pc[c] = "report" /\ Goto(c, "exit")
    /\ Quiet /\ UNCHANGED <<rows, my>>

(* A statement, or the write of a view, fails inside the executor. *)
Fault(c) ==
    /\ pc[c] \in {"loop", "claim", "attempt", "work", "pause", "paused", "answer", "report"}
    /\ faults < MaxFaults
    /\ faults' = faults + 1
    /\ Goto(c, "failSteps")
    /\ UNCHANGED <<rows, outer, registered, cancelled, answers, my, skipped>>

Execute(c) ==
    \/ Draft(c) \/ DraftFails(c) \/ Show(c)
    \/ Loop(c) \/ LoopCancelled(c) \/ Claim(c) \/ ClaimConflict(c)
    \/ Attempt(c) \/ Succeed(c) \/ AttemptFails(c) \/ StepFails(c)
    \/ Overtaken(c) \/ AttemptCancelled(c)
    \/ Pause(c) \/ Paused(c)
    \/ Summarize(c) \/ SummaryFails(c) \/ Answer(c) \/ Report(c)

-----------------------------------------------------------------------------
(* failExecution: three statements, none of them conditional on the plan.  *)

FailSteps(c) ==
    /\ pc[c] = "failSteps"
    /\ CancelPending(IF my[c].version THEN Steps ELSE {})
    /\ Goto(c, "failPlan")
    /\ Quiet /\ UNCHANGED <<plan, cur, version, tries, waits, my>>

FailPlan(c) ==
    /\ pc[c] = "failPlan"
    /\ plan' = "FAILED"
    /\ Goto(c, "failRun")
    /\ Quiet /\ UNCHANGED <<cur, version, step, tries, waits, my>>

FailRun(c) ==
    /\ pc[c] = "failRun"
    /\ outer' = "error"
    /\ Goto(c, "exit")
    /\ UNCHANGED <<rows, registered, cancelled, answers, my, faults, skipped>>

(* cancelExecutionState: the wait, the current step as it was read, the    *)
(* pending steps, the plan, the outer run.                                 *)
CancelWait(c) ==
    /\ pc[c] = "cancelWait"
    /\ waits' = [i \in DOMAIN waits |->
                    IF waits[i].status = "PENDING" THEN [waits[i] EXCEPT !.status = "CANCELLED"]
                                                   ELSE waits[i]]
    /\ Goto(c, IF my[c].cur # 0 /\ step[my[c].cur] \in {"RUNNING", "WAITING"}
               THEN "cancelStep" ELSE "cancelSteps")
    /\ Quiet /\ UNCHANGED <<plan, cur, version, step, tries, my>>

CancelStep(c) ==
    /\ pc[c] = "cancelStep"
    /\ step' = [step EXCEPT ![my[c].cur] = "CANCELLED"]
    /\ Goto(c, "cancelSteps")
    /\ Quiet /\ UNCHANGED <<plan, cur, version, tries, waits, my>>

CancelSteps(c) ==
    /\ pc[c] = "cancelSteps"
    /\ CancelPending(IF my[c].version THEN Steps ELSE {})
    /\ Goto(c, "cancelPlan")
    /\ Quiet /\ UNCHANGED <<plan, cur, version, tries, waits, my>>

CancelPlan(c) ==
    /\ pc[c] = "cancelPlan"
    /\ plan' = "CANCELLED"
    /\ Goto(c, "cancelRun")
    /\ Quiet /\ UNCHANGED <<cur, version, step, tries, waits, my>>

CancelRun(c) ==
    /\ pc[c] = "cancelRun"
    /\ outer' = "cancelled"
    /\ Goto(c, "exit")
    /\ UNCHANGED <<rows, registered, cancelled, answers, my, faults, skipped>>

(* The deferred cleanup removes whatever the registry holds for the run.   *)
Exit(c) ==
    /\ pc[c] = "exit"
    /\ registered' = IF my[c].begun THEN Nobody ELSE registered
    /\ cancelled' = cancelled \ {c}
    /\ Leave(c)
    /\ UNCHANGED <<rows, outer, answers, faults, skipped>>

WindUp(c) ==
    \/ FailSteps(c) \/ FailPlan(c) \/ FailRun(c)
    \/ CancelWait(c) \/ CancelStep(c) \/ CancelSteps(c) \/ CancelPlan(c) \/ CancelRun(c)
    \/ Exit(c)

-----------------------------------------------------------------------------
(* The commands: what they read, and the checks on it. *)

Call(c, op, s, w, next) ==
    /\ pc[c] = "idle" /\ op \in Ops
    /\ my' = [my EXCEPT ![c] = [Fresh EXCEPT !.op = op, !.cur = cur, !.version = version,
                                             !.step = s, !.wait = w,
                                             !.waiting = (s # 0 /\ step[s] = "WAITING")]]
    /\ Goto(c, next)
    /\ Quiet /\ UNCHANGED rows

LatestWait(w) == waits[w].status = "PENDING" /\ \A v \in DOMAIN waits :
                                                   waits[v].status = "PENDING" => v <= w

(* A resume answers the pending wait; one that refuses a USER_ACTION       *)
(* cancels the plan.                                                       *)
Resume(c) == \E w \in DOMAIN waits :
    LET s == waits[w].step IN
    /\ LatestWait(w)
    /\ \/ Call(c, "resume", s, w, "restore")
       \/ Kind[s] = "USER_ACTION" /\ Call(c, "resume", s, w, "cancelWait")

Retry(c) == \E s \in Steps : step[s] = "FAILED" /\ Call(c, "retry", s, 0, "retry")

Skippable(s) == step[s] \in {"PENDING", "FAILED", "WAITING"}
Skip(c) == \E s \in Optional : Skippable(s) /\ Call(c, "skip", s, 0, "skip")

Cancel(c) == plan \notin {"SUCCEEDED", "CANCELLED"} /\ Call(c, "cancel", 0, 0, "stop")

CancelMessage(c) == Call(c, "message", 0, 0, "stop")

-----------------------------------------------------------------------------
(* The transactions of the commands. *)

(* reviveOuterRun is part of the transaction of a retry and of a skip.     *)
Revived(c) ==
    /\ plan' = "RUNNING" /\ cur' = 0
    /\ outer' = "running"
    /\ my' = [my EXCEPT ![c].cur = 0, ![c].step = 0]
    /\ Goto(c, "restore")

Rejected(c) == Leave(c) /\ Quiet /\ UNCHANGED rows

(* The steps behind a retried step that the failure had cancelled.         *)
Reopened(s) == [t \in Steps |-> IF t = s \/ (t > s /\ step[t] = "CANCELLED")
                                THEN "PENDING" ELSE step[t]]

(* Mutant: what was read before the transaction is trusted. *)
RetryableAsRead(s) == TRUE
Retryable(s) == step[s] = "FAILED" /\ plan = "FAILED"

RetryStep(c) ==
    LET s == my[c].step IN
    /\ pc[c] = "retry"
    /\ \/ /\ Retryable(s)
          /\ step' = Reopened(s)
          /\ Revived(c)
          /\ UNCHANGED <<version, tries, waits, registered, cancelled, answers, faults, skipped>>
       \/ ~Retryable(s) /\ Rejected(c)

SkipStep(c) ==
    LET s == my[c].step IN
    /\ pc[c] = "skip"
    /\ \/ /\ Skippable(s)
          /\ step' = [step EXCEPT ![s] = "SKIPPED"]
          /\ waits' = [i \in DOMAIN waits |->
                IF my[c].waiting /\ waits[i] = [step |-> s, status |-> "PENDING"]
                THEN [waits[i] EXCEPT !.status = "CANCELLED"] ELSE waits[i]]
          /\ Revived(c) /\ skipped' = TRUE
          /\ UNCHANGED <<version, tries, registered, cancelled, answers, faults>>
       \/ ~Skippable(s) /\ Rejected(c)

(* restoreForCommand: the state of the outer run, then its update and the  *)
(* registration of the cancel function.                                    *)
Restore(c) ==
    /\ pc[c] = "restore"
    /\ IF outer \in RunOver THEN Leave(c) ELSE Goto(c, "begin") /\ UNCHANGED my
    /\ Quiet /\ UNCHANGED rows

Begin(c) ==
    /\ pc[c] = "begin"
    /\ outer' = "running" /\ registered' = c
    /\ my' = [my EXCEPT ![c].begun = TRUE]
    /\ Goto(c, IF my[c].op = "resume" THEN "resolve" ELSE "loop")
    /\ UNCHANGED <<rows, cancelled, answers, faults, skipped>>

(* Mutant: the wait may have been resolved meanwhile, and the attempt gets *)
(* the next number.                                                        *)
ResolvableAnyway(w, s) == step[s] \in {"WAITING", "SUCCEEDED"}
(* The attempt that stands for the answer is number 1.                     *)
Resolvable(w, s) ==
    waits[w].status = "PENDING" /\ step[s] = "WAITING" /\ cur = s /\ tries[s] = <<>>

(* resolveWait *)
Resolve(c) ==
    LET s == my[c].step
        w == my[c].wait
    IN
    /\ pc[c] = "resolve" /\ Resolvable(w, s)
    /\ waits' = [waits EXCEPT ![w].status = "RESOLVED"]
    /\ tries' = [tries EXCEPT ![s] = Append(@, "SUCCEEDED")]
    /\ step' = [step EXCEPT ![s] = "SUCCEEDED"]
    /\ plan' = "RUNNING" /\ cur' = 0
    /\ my' = [my EXCEPT ![c].cur = 0, ![c].step = 0, ![c].wait = 0]
    /\ Goto(c, "show")
    /\ Quiet /\ UNCHANGED version

ResolveConflict(c) ==
    /\ pc[c] = "resolve" /\ ~Resolvable(my[c].wait, my[c].step) /\ Goto(c, "exit")
    /\ Quiet /\ UNCHANGED <<rows, my>>

(* react.Cancel.  A command on the plan ignores its errors and goes on; a  *)
(* cancel message for the run ends with it.                                *)
Stoppable == outer \notin RunOver /\ registered # Nobody
Stop(c) ==
    /\ pc[c] = "stop"
    /\ IF Stoppable THEN outer' = "cancelling" /\ cancelled' = cancelled \cup {registered}
                    ELSE UNCHANGED <<outer, cancelled>>
    /\ IF my[c].op = "cancel" THEN Goto(c, "cancelWait") /\ UNCHANGED my ELSE Leave(c)
    /\ UNCHANGED <<rows, registered, answers, faults, skipped>>

Command(c) ==
    \/ RetryStep(c) \/ SkipStep(c) \/ Restore(c) \/ Begin(c)
    \/ Resolve(c) \/ ResolveConflict(c) \/ Stop(c)

(* The HTTP client of a command goes away. *)
HangUp(c) ==
    /\ "hangup" \in Ops /\ c # Runner /\ my[c].begun
    /\ pc[c] \notin {"exit", "over"} /\ c \notin cancelled
    /\ cancelled' = cancelled \cup {c}
    /\ UNCHANGED <<rows, outer, registered, answers, pc, my, faults, skipped>>

Work(c) == Execute(c) \/ WindUp(c) \/ Command(c)
User(c) == Resume(c) \/ Retry(c) \/ Skip(c) \/ Cancel(c) \/ CancelMessage(c) \/ HangUp(c)

Next ==
    \E c \in Callers : Work(c) \/ User(c) \/ ShowFails(c) \/ Fault(c)

Spec == Init /\ [][Next]_vars

-----------------------------------------------------------------------------
(* Type invariant; in it, that an attempt is within the limit its executor *)
(* took when it began on the step (executor.go:73).                        *)
TypeOK ==
    /\ plan \in PlanStatus /\ cur \in 0..NumSteps /\ version \in BOOLEAN
    /\ step \in [Steps -> StepStatus]
    /\ tries \in [Steps -> Seq({"RUNNING", "SUCCEEDED", "FAILED", "CANCELLED"})]
    /\ waits \in Seq([step : Steps, status : {"PENDING", "RESOLVED", "CANCELLED"}])
    /\ outer \in RunState /\ registered \in Callers \cup {Nobody}
    /\ cancelled \subseteq Callers /\ answers \in Nat
    /\ pc \in [Callers -> Pc]
    /\ \A c \in Callers : pc[c] = "work" =>
          my[c].step \in Steps /\ my[c].attempt \in 1..my[c].limit
    /\ faults \in 0..MaxFaults /\ skipped \in BOOLEAN

(* At most one step is RUNNING at a time, as docs/system/plan.md claims of *)
(* claimStep (repository.go:242).                                          *)
OneRunningStep == Cardinality({s \in Steps : step[s] = "RUNNING"}) <= 1

(* Of all the commands only a skip, which clears the slot of the plan      *)
(* whoever holds it, can set two executors to work: without one, resumes,  *)
(* retries, cancels, hang-ups and failures leave at most one at work.      *)
Working(c) == pc[c] \in {"attempt", "work", "pause"}
OnlySkipOverlaps ==
    ~skipped => OneRunningStep /\ \A c, d \in Callers : Working(c) /\ Working(d) => c = d

(* However commands and executors race, the work of a step succeeds once,  *)
(* and a user's answer is taken once; a skip before a failed step breaks   *)
(* it too, when a cancel and a retry meet the executor it has started.     *)
SucceedsOnce ==
    ~skipped => \A s \in Steps : Cardinality({n \in DOMAIN tries[s] : tries[s][n] = "SUCCEEDED"}) <= 1

(* The session gets one final answer per plan, skips aside.                *)
AnsweredOnce == ~skipped => answers <= 1

(* Steps are started in order: none while one before it has still to end.  *)
InOrder ==
    [][\A s \in Steps :
         step[s] = "PENDING" /\ step'[s] = "RUNNING" /\ ~skipped =>
            \A t \in Steps : t < s => step[t] \notin {"PENDING", "RUNNING", "WAITING"}]_vars

(* A plan is closed as SUCCEEDED when none of its steps is left to end. *)
ClosedWhenDone ==
    [][plan # "SUCCEEDED" /\ plan' = "SUCCEEDED" /\ ~skipped =>
          \A s \in Steps : step[s] \notin {"PENDING", "RUNNING", "WAITING"}]_vars

=============================================================================
