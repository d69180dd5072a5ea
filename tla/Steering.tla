------------------------------ MODULE Steering ------------------------------
(***************************************************************************)
(* The life of the outer runs of ONE session and of the inputs its user    *)
(* sends while a run is active (service/react: runtime.go, steering.go,    *)
(* queue_manager.go, the run loop of engine.go, and the run and            *)
(* pending-input tables of models/llm).                                    *)
(*                                                                         *)
(* A connection c is one WebSocket handler (controllers/http/react/ws.go). *)
(* Its read loop handles one client message at a time and owns at most one *)
(* run goroutine, g[c].  Several connections may serve the same session.   *)
(* A database transaction that takes the session row lock is two steps:    *)
(* its first reads (Begin) and its writes and commit (Commit).  Statements *)
(* that do not take that lock, such as the update that ends a run, may     *)
(* fall in between; tx is the transaction that holds the lock.             *)
(***************************************************************************)
EXTENDS Integers, Sequences, FiniteSets

CONSTANTS
    Conns,          \* WebSocket connections of the session
    NoConn,         \* owner of the session lock when nobody holds it
    MaxRow,         \* bound: pending-input rows ever inserted
    MaxRun,         \* bound: outer runs ever created
    MaxInput,       \* bound: messages the user sends
    MaxRestart,     \* bound: process restarts
    QueueEnabled,   \* steering.queue
    AutoDrain,      \* steering.queue_auto_drain
    Flavors,        \* kinds of message the user sends
    Ops             \* optional operations the environment uses

ConnAssumption == NoConn \notin Conns
BoundAssumption ==
    /\ MaxRow \in Nat \ {0}
    /\ MaxRun \in Nat \ {0}
    /\ MaxInput \in Nat
    /\ MaxRestart \in Nat
ConfigAssumption ==
    /\ QueueEnabled \in BOOLEAN
    /\ AutoDrain \in BOOLEAN
    /\ Flavors \subseteq {"text", "later", "files"}

ASSUME Assumptions == ConnAssumption /\ BoundAssumption /\ ConfigAssumption

RowId == 1..MaxRow
RunId == 1..MaxRun

ActiveState   == {"running", "waiting", "cancelling"}
TerminalState == {"finished", "error", "cancelled", "expired", "timeout"}
RunState      == {"none"} \cup ActiveState \cup TerminalState

(* A message is plain text, text the client asks to queue, or text with    *)
(* attachments.                                                            *)
Flavor == {"text", "later", "files"}

RowStatus     == {"free", "admitted", "guided", "queued", "cancelled", "discarded"}
SettledStatus == {"guided", "cancelled", "discarded"}

Row == [status : RowStatus, delivery : {"guide", "queue"}, run : 0..MaxRun,
        seq : Nat, input : 0..MaxInput, flavor : Flavor, old : BOOLEAN]

FreeRow == [status |-> "free", delivery |-> "guide", run |-> 0, seq |-> 0,
            input |-> 0, flavor |-> "text", old |-> FALSE]

(* A user message of the transcript: what was said, to which run, and the  *)
(* ledger row it was taken from (0: it came directly from the client).     *)
Message == [input : 1..MaxInput, row : 0..MaxRow, run : RunId]

(* A run goroutine: from the payload to the end of run().                  *)
(*   prepare  runSingle was called with a payload                          *)
(*   create   createReactRunContext holds the session lock                 *)
(*   created  the run row is committed, nothing is registered yet          *)
(*   loop     executeReactLoop, between two boundaries                     *)
(*   wait     a tool waits for the client                                  *)
(*   ending   the loop decided to finish                                   *)
(*   settle   state=finished is written                                    *)
(*   settled  the pending inputs of the run are settled                    *)
(*   abort    cancelled, timeout or error is written                       *)
(*   release  runSingle returns: deferred cleanup                          *)
(*   done     the goroutine ended, the read loop has not noticed           *)
EnginePc == {"loop", "wait", "ending"}
Pc == EnginePc \cup {"idle", "prepare", "create", "created", "settle",
                     "settled", "abort", "release", "done"}

Goroutine == [pc : Pc, run : 0..MaxRun, input : 0..MaxInput,
              flavor : Flavor, promote : 0..MaxRow]
Idle == [pc |-> "idle", run |-> 0, input |-> 0, flavor |-> "text", promote |-> 0]

Verdict == {"guide", "queue", "reject", "create", "busy"}
Tx == [kind : {"none", "steer", "inject", "create"}, conn : Conns \cup {NoConn},
       target : 0..MaxRun, verdict : Verdict, seq : Nat,
       input : 0..MaxInput, flavor : Flavor, row : 0..MaxRow]
NoTx == [kind |-> "none", conn |-> NoConn, target |-> 0, verdict |-> "reject",
         seq |-> 0, input |-> 0, flavor |-> "text", row |-> 0]

VARIABLES
    runs,           \* state column of the session's outer runs, by creation order
    ledger,         \* the pending-input table of the session
    messages,       \* user messages of the transcript, in order of insertion
    g,              \* run goroutine of each connection
    tx,             \* transaction holding the session row lock
    registry,       \* runs with a registered cancel function
    soft,           \* runs whose soft-landing mark is set
    ctxCancelled,   \* runs whose context was cancelled by the user
    cancelling,     \* Cancel calls between their check and their update
    children,       \* runs with a background sub-run still active (0: one
                    \* left active in the table by a dead process)
    stopping,       \* shutdown hooks ran, the process is still alive
    restarts,       \* process restarts so far
    sent            \* messages sent by the user so far

dbVars   == <<runs, ledger, messages>>
memVars  == <<registry, soft, ctxCancelled>>
envVars  == <<children, stopping, restarts>>
vars == <<runs, ledger, messages, g, tx, registry, soft, ctxCancelled,
          cancelling, children, stopping, restarts, sent>>

-----------------------------------------------------------------------------
(* Reading the tables *)

Active(r)    == runs[r] \in ActiveState
RowsIn(st)   == {i \in RowId : ledger[i].status = st}
QueuedRows   == RowsIn("queued")
(* Mutant: the status is not part of the selection. *)
GuidesOfAnyStatus(r) ==
    {i \in RowsIn("admitted") \cup RowsIn("guided") :
        ledger[i].run = r /\ ledger[i].delivery = "guide"}
GuidesOf(r)  == {i \in RowsIn("admitted") : ledger[i].run = r /\ ledger[i].delivery = "guide"}

(* Mutant: the newest row first. *)
PrecedesNewest(i, j) == ledger[i].seq > ledger[j].seq \/ (ledger[i].seq = ledger[j].seq /\ i > j)
(* ORDER BY seq ASC, id ASC *)
Precedes(i, j) == \/ ledger[i].seq < ledger[j].seq
                  \/ ledger[i].seq = ledger[j].seq /\ i < j
IsFirst(i, S)  == i \in S /\ \A j \in S \ {i} : Precedes(i, j)

(* The most recent active outer run, 0 if there is none. *)
IsActiveOuter(t) ==
    \/ t = 0 /\ \A r \in RunId : ~Active(r)
    \/ t \in RunId /\ Active(t) /\ \A r \in RunId : r > t => ~Active(r)

(* SELECT MAX(seq) *)
Seqs == {0} \cup {ledger[i].seq : i \in RowId}
IsMaxSeq(s) == s \in Seqs /\ \A x \in Seqs : x <= s

(* AUTO_INCREMENT: the lowest id never used *)
IsNextRow(i) == /\ ledger[i].status = "free"
                /\ \A j \in RowId : j < i => ledger[j].status # "free"
IsNextRun(r) == /\ runs[r] = "none"
                /\ \A q \in RunId : q < r => runs[q] # "none"

(* steerAdmissionDecision *)
Admission(state, landing, flavor) ==
    IF state # "running" \/ landing \/ flavor = "files"
    THEN IF QueueEnabled THEN "queue" ELSE "reject"
    ELSE IF flavor = "later" /\ QueueEnabled THEN "queue" ELSE "guide"

(* Verdict of an admission towards run t, as SteerSession takes it. *)
SteerVerdict(t, flavor) ==
    IF t = 0 THEN "reject" ELSE Admission(runs[t], t \in soft, flavor)

(* Mutant: only a running run counts as active. *)
CreateVerdictRunningOnly(t, flavor) ==
    IF t # 0 /\ runs[t] = "running" THEN Admission(runs[t], t \in soft, flavor)
    ELSE IF children # {} THEN "busy" ELSE "create"
(* Verdict of createReactRunContext: sub-runs count as active runs. *)
CreateVerdict(t, flavor) ==
    IF t # 0 THEN Admission(runs[t], t \in soft, flavor)
    ELSE IF children # {} THEN "busy" ELSE "create"

InjectVerdict(t) ==
    IF t # 0 /\ runs[t] = "running" /\ t \notin soft THEN "guide" ELSE "reject"

-----------------------------------------------------------------------------
Init ==
    /\ runs = [r \in RunId |-> "none"]
    /\ ledger = [i \in RowId |-> FreeRow]
    /\ messages = <<>>
    /\ g = [c \in Conns |-> Idle]
    /\ tx = NoTx
    /\ registry = {} /\ soft = {} /\ ctxCancelled = {}
    /\ cancelling = {}
    /\ children = {}
    /\ stopping = FALSE
    /\ restarts = 0
    /\ sent = 0

At(c, pc)    == g[c].pc = pc
Goto(c, pc)  == g' = [g EXCEPT ![c].pc = pc]
(* The goroutine no longer holds a payload. *)
Drop(c, pc, r) == g' = [g EXCEPT ![c] = [Idle EXCEPT !.pc = pc, !.run = r]]
LockFree     == tx.kind = "none"
(* The read loop of c is inside SteerSession or InjectQueuedItemAsGuide.   *)
Busy(c)      == tx.conn = c /\ tx.kind \in {"steer", "inject"}

(* run() with a payload built from a message or from a queued row.         *)
StartGoroutine(c, input, flavor, promote) ==
    g' = [g EXCEPT ![c] = [pc |-> "prepare", run |-> 0, input |-> input,
                           flavor |-> flavor, promote |-> promote]]

-----------------------------------------------------------------------------
(* Messages of the client, handled by the read loop of c *)

(* A run message on a connection without run. *)
Submit(c, f) ==
    /\ At(c, "idle") /\ ~Busy(c)
    /\ sent < MaxInput
    /\ sent' = sent + 1
    /\ StartGoroutine(c, sent + 1, f, 0)
    /\ UNCHANGED <<dbVars, tx, memVars, cancelling, envVars>>

(* A run message while the connection runs one: SteerSession takes the     *)
(* session lock, reads the active outer run and decides.                   *)
SteerBegin(c, f) ==
    /\ ~At(c, "idle") /\ LockFree
    /\ sent < MaxInput
    /\ sent' = sent + 1
    /\ \E t \in 0..MaxRun, s \in Seqs :
          /\ IsActiveOuter(t) /\ IsMaxSeq(s)
          /\ tx' = [kind |-> "steer", conn |-> c, target |-> t,
                    verdict |-> SteerVerdict(t, f), seq |-> s,
                    input |-> sent + 1, flavor |-> f, row |-> 0]
    /\ UNCHANGED <<dbVars, g, memVars, cancelling, envVars>>

(* queue_send in inject mode. *)
InjectBegin(c, i) ==
    /\ ~At(c, "idle") /\ LockFree
    /\ ledger[i].status # "free"
    /\ \E t \in 0..MaxRun :
          /\ IsActiveOuter(t)
          /\ tx' = [NoTx EXCEPT !.kind = "inject", !.conn = c, !.target = t,
                                !.verdict = InjectVerdict(t), !.row = i]
    /\ UNCHANGED <<dbVars, g, memVars, cancelling, envVars, sent>>

(* queue_send on a connection without run: the row is read, nothing is     *)
(* claimed.  The payload is then serialised for startWSRun, and the id of  *)
(* the row is not part of its JSON form (json:"-").                        *)
QueueSendRun(c, i) ==
    /\ At(c, "idle") /\ ~Busy(c)
    /\ i \in QueuedRows
    /\ StartGoroutine(c, ledger[i].input, ledger[i].flavor, 0)
    /\ UNCHANGED <<dbVars, tx, memVars, cancelling, envVars, sent>>

-----------------------------------------------------------------------------
(* Admission: the writes of admitSteeringInputTx *)

(* Mutant: the two columns are swapped. *)
AddRowSwapped(i, delivery, status) ==
    ledger' = [ledger EXCEPT ![i] =
        [status |-> delivery, delivery |-> status, run |-> tx.target,
         seq |-> tx.seq + 1, input |-> tx.input, flavor |-> tx.flavor, old |-> FALSE]]

AddRow(i, delivery, status) ==
    ledger' = [ledger EXCEPT ![i] =
        [status |-> status, delivery |-> delivery, run |-> tx.target,
         seq |-> tx.seq + 1, input |-> tx.input, flavor |-> tx.flavor, old |-> FALSE]]

Admit ==
    \/ /\ tx.verdict = "guide"
       /\ \E i \in RowId : IsNextRow(i) /\ AddRow(i, "guide", "admitted")
    \/ /\ tx.verdict = "queue"
       /\ \E i \in RowId : IsNextRow(i) /\ AddRow(i, "queue", "queued")
    \/ /\ tx.verdict \in {"reject", "busy"}
       /\ UNCHANGED ledger

SteerCommit ==
    /\ tx.kind = "steer"
    /\ Admit
    /\ tx' = NoTx
    /\ UNCHANGED <<runs, messages, g, memVars, cancelling, envVars, sent>>

(* PromoteQueuedInputToGuide: only a row still queued and without          *)
(* attachments becomes a guide of the run.                                 *)
InjectCommit ==
    /\ tx.kind = "inject"
    /\ IF tx.verdict = "guide" /\ tx.row \in QueuedRows /\ ledger[tx.row].flavor # "files"
       THEN ledger' = [ledger EXCEPT ![tx.row].status = "admitted",
                                     ![tx.row].delivery = "guide",
                                     ![tx.row].run = tx.target]
       ELSE UNCHANGED ledger
    /\ tx' = NoTx
    /\ UNCHANGED <<runs, messages, g, memVars, cancelling, envVars, sent>>

-----------------------------------------------------------------------------
(* createReactRunContext *)

CreateBegin(c) ==
    /\ At(c, "prepare") /\ LockFree
    /\ \E t \in 0..MaxRun, s \in Seqs :
          /\ IsActiveOuter(t) /\ IsMaxSeq(s)
          /\ tx' = [kind |-> "create", conn |-> c, target |-> t,
                    verdict |-> CreateVerdict(t, g[c].flavor), seq |-> s,
                    input |-> g[c].input, flavor |-> g[c].flavor, row |-> g[c].promote]
    /\ Goto(c, "create")
    /\ UNCHANGED <<dbVars, memVars, cancelling, envVars, sent>>

(* An active run was found: the payload is admitted as a new row, or the   *)
(* caller gets ErrorReactRunActive.  Either way run() returns.             *)
CreateAdmits(c) ==
    /\ At(c, "create") /\ tx.verdict # "create"
    /\ Admit
    /\ tx' = NoTx
    /\ Drop(c, "done", 0)
    /\ UNCHANGED <<runs, messages, memVars, cancelling, envVars, sent>>

(* Mutant: the age of a queued row is not looked at. *)
LeftOverAnyAge(i) == ledger[i].status \in {"admitted", "queued"}

(* What the creation of a run does to the rows it finds: inputs still      *)
(* admitted, and rows queued before the process started, are discarded.    *)
LeftOver(i) == \/ ledger[i].status = "admitted"
               \/ ledger[i].status = "queued" /\ ledger[i].old
Resumed == [i \in RowId |-> IF LeftOver(i) THEN [ledger[i] EXCEPT !.status = "discarded"]
                                           ELSE ledger[i]]

(* Mutant: the row is claimed without a condition on its status. *)
CanPromoteAlways(i) == ledger[i].status # "free"

(* MarkPendingInputPromoted matches only a row still queued. *)
CanPromote(i) == Resumed[i].status = "queued"

CreateRun(c) ==
    /\ At(c, "create") /\ tx.verdict = "create"
    /\ \E r \in RunId :
          /\ IsNextRun(r)
          /\ runs' = [runs EXCEPT ![r] = "running"]
          /\ messages' = Append(messages, [input |-> tx.input, row |-> tx.row, run |-> r])
          /\ \/ tx.row = 0 /\ ledger' = Resumed
             \/ /\ tx.row # 0 /\ CanPromote(tx.row)
                /\ ledger' = [Resumed EXCEPT ![tx.row].status = "guided", ![tx.row].run = r]
          /\ Drop(c, "created", r)
    /\ tx' = NoTx
    /\ UNCHANGED <<memVars, cancelling, envVars, sent>>

(* The row to promote is gone: the transaction is rolled back. *)
CreateRollback(c) ==
    /\ At(c, "create") /\ tx.verdict = "create"
    /\ tx.row # 0 /\ ~CanPromote(tx.row)
    /\ tx' = NoTx
    /\ Drop(c, "done", 0)
    /\ UNCHANGED <<dbVars, memVars, cancelling, envVars, sent>>

(* registerReactRunCancel, registerReactRunSoftLanding *)
Register(c) ==
    /\ At(c, "created")
    /\ registry' = registry \cup {g[c].run}
    /\ Goto(c, "loop")
    /\ UNCHANGED <<dbVars, tx, soft, ctxCancelled, cancelling, envVars, sent>>

-----------------------------------------------------------------------------
(* The engine: executeReactLoop and what runSingle does after it *)

SetState(r, st) == runs' = [runs EXCEPT ![r] = st]

(* drainPendingGuideBoundary, after a batch of tools or at a text-only     *)
(* step: the first guide of the run becomes a user message, and its row is *)
(* guided, in one transaction.  Not taken once the run is soft landing.    *)
DrainGuide(c) ==
    LET r == g[c].run IN
    /\ At(c, "loop") /\ r \notin soft
    /\ \E i \in RowId :
          /\ IsFirst(i, GuidesOf(r))
          /\ ledger' = [ledger EXCEPT ![i].status = "guided"]
          /\ messages' = Append(messages, [input |-> ledger[i].input, row |-> i, run |-> r])
    /\ UNCHANGED <<runs, g, tx, memVars, cancelling, envVars, sent>>

EnterSoftLanding(c) ==
    /\ At(c, "loop")
    /\ soft' = soft \cup ({g[c].run} \cap registry)
    /\ UNCHANGED <<dbVars, g, tx, registry, ctxCancelled, cancelling, envVars, sent>>

(* A client tool, a question or a confirmation waits for the client. *)
AskClient(c) ==
    /\ At(c, "loop")
    /\ SetState(g[c].run, "waiting")
    /\ Goto(c, "wait")
    /\ UNCHANGED <<ledger, messages, tx, memVars, cancelling, envVars, sent>>

(* The answer, or the end of the interaction timeout. *)
ClientAnswers(c) ==
    /\ At(c, "wait")
    /\ SetState(g[c].run, "running")
    /\ Goto(c, "loop")
    /\ UNCHANGED <<ledger, messages, tx, memVars, cancelling, envVars, sent>>

(* delegate_agent with background=true: a sub-run row of the same session. *)
Delegate(c) ==
    /\ At(c, "loop")
    /\ children' = children \cup {g[c].run}
    /\ UNCHANGED <<dbVars, g, tx, memVars, cancelling, stopping, restarts, sent>>

ChildEnds(r) ==
    /\ r \in children
    /\ children' = children \ {r}
    /\ UNCHANGED <<dbVars, g, tx, memVars, cancelling, stopping, restarts, sent>>

(* A step without tool calls and nothing to inject. *)
FinalAnswer(c) ==
    /\ At(c, "loop")
    /\ g[c].run \in soft \/ GuidesOf(g[c].run) = {}
    /\ Goto(c, "ending")
    /\ UNCHANGED <<dbVars, tx, memVars, cancelling, envVars, sent>>

(* maxSteps or the token budget is used up: finishExhausted, no last drain *)
Exhausted(c) ==
    /\ At(c, "loop")
    /\ Goto(c, "ending")
    /\ UNCHANGED <<dbVars, tx, memVars, cancelling, envVars, sent>>

(* finish: the update of the run is unconditional and takes no lock. *)
Finish(c) ==
    /\ At(c, "ending")
    /\ SetState(g[c].run, "finished")
    /\ Goto(c, "settle")
    /\ UNCHANGED <<ledger, messages, tx, memVars, cancelling, envVars, sent>>

(* Mutant: the statuses of the rows of the run are not looked at. *)
SettledAnyStatus(r) ==
    [i \in RowId |->
        IF ledger[i].status # "free" /\ ledger[i].run = r
        THEN [ledger[i] EXCEPT !.status = "queued", !.delivery = "queue"]
        ELSE ledger[i]]

(* settleRunPendingInputs of an outer run, on rows admitted to it. *)
Settled(r) ==
    [i \in RowId |->
        IF ledger[i].status = "admitted" /\ ledger[i].run = r
        THEN IF QueueEnabled
             THEN [ledger[i] EXCEPT !.status = "queued", !.delivery = "queue"]
             ELSE [ledger[i] EXCEPT !.status = "discarded"]
        ELSE ledger[i]]

Settle(c) ==
    /\ At(c, "settle")
    /\ ledger' = Settled(g[c].run)
    /\ Goto(c, "settled")
    /\ UNCHANGED <<runs, messages, tx, memVars, cancelling, envVars, sent>>

(* dequeueQueuedHeadForAutoDrain: the head is read without any lock. *)
DrainHead(c) ==
    /\ At(c, "settled")
    /\ QueueEnabled /\ AutoDrain
    /\ \E i \in RowId :
          /\ IsFirst(i, QueuedRows)
          /\ g' = [g EXCEPT ![c] = [pc |-> "release", run |-> @.run, input |-> ledger[i].input,
                                    flavor |-> ledger[i].flavor, promote |-> i]]
    /\ UNCHANGED <<dbVars, tx, memVars, cancelling, envVars, sent>>

(* Mutant: the queue is not looked at. *)
NothingToDrainAlways(c) ==
    /\ At(c, "settled")
    /\ Drop(c, "release", g[c].run)
    /\ UNCHANGED <<dbVars, tx, memVars, cancelling, envVars, sent>>

(* Nothing to drain: the payload of the run is not kept. *)
NothingToDrain(c) ==
    /\ At(c, "settled")
    /\ (QueueEnabled /\ AutoDrain) => QueuedRows = {}
    /\ Drop(c, "release", g[c].run)
    /\ UNCHANGED <<dbVars, tx, memVars, cancelling, envVars, sent>>

(* The done event cannot be written: the error of Emit is the error of the *)
(* loop, and the run that was finished becomes a failed one.               *)
DoneNotWritten(c) ==
    /\ At(c, "settled")
    /\ SetState(g[c].run, "error")
    /\ Goto(c, "abort")
    /\ UNCHANGED <<ledger, messages, tx, memVars, cancelling, envVars, sent>>

(* Mutant: the state is written and the loop goes on. *)
FailGoesOn(c, st) ==
    /\ g[c].pc \in EnginePc
    /\ st \in {"cancelled", "error", "timeout"}
    /\ st = "cancelled" => g[c].run \in ctxCancelled
    /\ SetState(g[c].run, st)
    /\ Goto(c, "loop")
    /\ UNCHANGED <<ledger, messages, tx, memVars, cancelling, envVars, sent>>

(* Mutant: the error is returned and no state is written. *)
FailSilently(c, st) ==
    /\ g[c].pc \in EnginePc
    /\ st \in {"cancelled", "error", "timeout"}
    /\ st = "cancelled" => g[c].run \in ctxCancelled
    /\ Goto(c, "abort")
    /\ UNCHANGED <<dbVars, tx, memVars, cancelling, envVars, sent>>

(* The loop returns an error: runSingle writes the state of the run. *)
Fail(c, st) ==
    /\ g[c].pc \in EnginePc
    /\ st \in {"cancelled", "error", "timeout"}
    /\ st = "cancelled" => g[c].run \in ctxCancelled
    /\ SetState(g[c].run, st)
    /\ Goto(c, "abort")
    /\ UNCHANGED <<ledger, messages, tx, memVars, cancelling, envVars, sent>>

AbortSettle(c) ==
    /\ At(c, "abort")
    /\ ledger' = Settled(g[c].run)
    /\ Drop(c, "release", g[c].run)
    /\ UNCHANGED <<runs, messages, tx, memVars, cancelling, envVars, sent>>

(* prepareRuntimeRequest or the check of the input tokens fails. *)
PrepareFails(c) ==
    /\ At(c, "prepare")
    /\ Drop(c, "done", 0)
    /\ UNCHANGED <<dbVars, tx, memVars, cancelling, envVars, sent>>

(* Deferred cleanup of runSingle; run() goes on with the drained payload.  *)
Release(c) ==
    /\ At(c, "release")
    /\ registry' = registry \ {g[c].run}
    /\ soft' = soft \ {g[c].run}
    /\ ctxCancelled' = ctxCancelled \ {g[c].run}
    /\ g' = [g EXCEPT ![c].pc = IF g[c].promote # 0 THEN "prepare" ELSE "done",
                      ![c].run = 0]
    /\ UNCHANGED <<dbVars, tx, cancelling, envVars, sent>>

(* The read loop sees runDone. *)
Reap(c) ==
    /\ At(c, "done") /\ ~Busy(c)
    /\ g' = [g EXCEPT ![c] = Idle]
    /\ UNCHANGED <<dbVars, tx, memVars, cancelling, envVars, sent>>

-----------------------------------------------------------------------------
(* Cancel: the state is read and the cancel function looked up ...         *)
CancelBegin(r) ==
    /\ Active(r) /\ r \in registry
    /\ cancelling' = cancelling \cup {r}
    /\ UNCHANGED <<dbVars, g, tx, memVars, envVars, sent>>

(* ... then the state is overwritten and the context of the run cancelled. *)
CancelWrite(r) ==
    /\ r \in cancelling
    /\ cancelling' = cancelling \ {r}
    /\ SetState(r, "cancelling")
    /\ ctxCancelled' = ctxCancelled \cup ({r} \cap registry)
    /\ UNCHANGED <<ledger, messages, g, tx, registry, soft, envVars, sent>>

-----------------------------------------------------------------------------
(* Queue management over HTTP: row locks only *)

DeleteQueued(i) ==
    /\ i \in QueuedRows
    /\ ledger' = [ledger EXCEPT ![i].status = "cancelled"]
    /\ UNCHANGED <<runs, messages, g, tx, memVars, cancelling, envVars, sent>>

(* ReorderSessionQueue with any permutation of the queue: the new sequence *)
(* numbers are consecutive from the smallest one.                          *)
Reorder ==
    /\ \E lo \in {ledger[i].seq : i \in QueuedRows} :
          /\ \A i \in QueuedRows : lo <= ledger[i].seq
          /\ \E f \in [QueuedRows -> lo .. (lo + Cardinality(QueuedRows) - 1)] :
                /\ \A i, j \in QueuedRows : f[i] = f[j] => i = j
                /\ ledger' = [i \in RowId |->
                      IF i \in QueuedRows THEN [ledger[i] EXCEPT !.seq = f[i]] ELSE ledger[i]]
    /\ UNCHANGED <<runs, messages, g, tx, memVars, cancelling, envVars, sent>>

-----------------------------------------------------------------------------
(* The process *)

Expired(S) == [r \in RunId |-> IF r \in S /\ Active(r) THEN "expired" ELSE runs[r]]

(* The reactRuns shutdown hook; the server stops after it. *)
ShutdownHook ==
    /\ ~stopping
    /\ stopping' = TRUE
    /\ runs' = Expired(registry)
    /\ children' = children \cap {0}
    /\ UNCHANGED <<ledger, messages, g, tx, memVars, cancelling, restarts, sent>>

(* The process dies, with or without its hooks, and starts again.  Its     *)
(* open transaction is rolled back and its memory is gone; every queued    *)
(* row now predates the process, and the sub-runs it left have nobody to   *)
(* end them.  Startup expires the active runs that were last updated long  *)
(* ago: S, and perhaps the sub-runs.                                       *)
Restart ==
    /\ restarts < MaxRestart
    /\ restarts' = restarts + 1
    /\ stopping' = FALSE
    /\ g' = [c \in Conns |-> Idle]
    /\ tx' = NoTx
    /\ registry' = {} /\ soft' = {} /\ ctxCancelled' = {} /\ cancelling' = {}
    /\ ledger' = [i \in RowId |-> [ledger[i] EXCEPT !.old = (ledger[i].status # "free")]]
    /\ \E S \in SUBSET RunId : runs' = Expired(S)
    /\ children' \in {{}, IF children = {} THEN {} ELSE {0}}
    /\ UNCHANGED <<messages, sent>>

-----------------------------------------------------------------------------
Can(op) == op \in Ops

Client(c) ==
    \/ \E f \in Flavors : Submit(c, f) \/ SteerBegin(c, f)
    \/ Can("inject") /\ \E i \in RowId : InjectBegin(c, i)
    \/ Can("queue_send") /\ \E i \in RowId : QueueSendRun(c, i)

Commit == SteerCommit \/ InjectCommit

Start(c) == CreateBegin(c) \/ CreateAdmits(c) \/ CreateRun(c) \/ CreateRollback(c) \/ Register(c)

EndLoop(c) == FinalAnswer(c) \/ Exhausted(c)

Conclude(c) ==
    \/ Finish(c) \/ Settle(c) \/ DrainHead(c) \/ NothingToDrain(c)
    \/ AbortSettle(c) \/ Release(c) \/ Reap(c)

Engine(c) ==
    \/ DrainGuide(c) \/ EndLoop(c)
    \/ Can("landing") /\ EnterSoftLanding(c)
    \/ Can("wait") /\ (AskClient(c) \/ ClientAnswers(c))
    \/ Can("delegate") /\ Delegate(c)

Failure(c) ==
    /\ Can("fail")
    /\ \/ \E st \in {"error", "timeout"} : Fail(c, st)
       \/ PrepareFails(c) \/ DoneNotWritten(c)

UserCancel ==
    /\ Can("cancel")
    /\ \/ \E r \in RunId : CancelBegin(r) \/ CancelWrite(r)
       \/ \E c \in Conns : Fail(c, "cancelled")

Manage ==
    \/ Can("delete") /\ \E i \in RowId : DeleteQueued(i)
    \/ Can("reorder") /\ Reorder

Process == \/ Can("shutdown") /\ ShutdownHook
           \/ Can("restart") /\ Restart

Next ==
    \/ \E c \in Conns : Client(c) \/ Start(c) \/ Engine(c) \/ Conclude(c) \/ Failure(c)
    \/ Commit
    \/ \E r \in RunId : ChildEnds(r)
    \/ UserCancel
    \/ Manage
    \/ Process

Spec == Init /\ [][Next]_vars

(* The scheduler runs every goroutine that can go on, and a transaction    *)
(* ends.  A loop of steps is bounded by maxSteps, so an engine that keeps  *)
(* reaching a boundary reaches its last one; a wait ends with the client's *)
(* answer or with the interaction timeout.                                 *)
Fairness ==
    /\ WF_vars(Commit)
    /\ \A c \in Conns :
          /\ WF_vars(Start(c) \/ Conclude(c))
          /\ SF_vars(EndLoop(c))
          /\ WF_vars(ClientAnswers(c))
    /\ \A r \in RunId : WF_vars(ChildEnds(r))

FairSpec == Spec /\ Fairness

=============================================================================
