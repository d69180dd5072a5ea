# A TLA+ verification of react-base-service

react-base-service is a Go service that runs ReAct agents: a client opens a
WebSocket (or an IM gateway or a workflow takes its place), sends a task, and a
*run* alternates model calls and tool calls until the model answers. A *session*
is a sequence of runs. Runs may wait for their client, delegate to sub-agents in
parallel or in the background, be cancelled, be steered by further messages of
the user while they work, land softly when their budget is used up, and be
followed automatically by the next message of the session's queue. The state is
in MySQL; the coordination is in the memory of one process.

This directory specifies that coordination. Where the source is quoted the path
is relative to `src/`.

## 1. Inventory

### Components, their state and their operations

| Component | Source | State | Operations |
|---|---|---|---|
| Run lifecycle | `service/react/runtime.go`, `cancel.go`, `shutdown.go` | `react_run.state`; in memory the registries of cancel functions and of soft landings | `run`/`runSingle`, `createReactRunContext`, `Cancel`, soft landing, shutdown hook, expiry at startup |
| Steering and queue | `service/react/steering.go`, `queue_manager.go` | the rows of `react_pending_input` | `SteerSession`, the admission, the drain of a guide at a boundary, the settlement, the drain of the queue, `queue_send`, inject, delete, reorder |
| ReAct loop | `service/react/engine.go` | the messages of the next request, steps, token counters | model step, tool batch, boundaries, compaction, `finish`, `finishExhausted` |
| Client message hub | `service/react/internal/hub/client_hub.go` | waiters, buffer of early answers, pump goroutine, `deadErr` | `WaitTimeout`, `pump`, `dispatch`, `broadcastError` |
| WebSocket entry | `controllers/http/react/ws.go` | one run goroutine and one bounded channel per connection | read loop, `startWSRun`, `forwardWSRunMessage` |
| Interaction tools | `client_tool.go`, `ask_question.go`, `tool_confirm.go` | the state `waiting` | ask the client, wait, go on |
| Delegation | `delegate.go`, `wait_agent.go`, `internal/hub/command_box.go` | sub-runs, command boxes, notification rows | `delegate_agent`, `wait_agent`, `send_message`, background notifications |
| Tool dispatch and closure | `tool_dispatch.go`, `tool_closure.go` | results of a batch | parallel and serial execution, interruption |
| Context compaction | `engine.go`, `runtime_support.go` | rows of messages, coverage | compaction, reload |
| History | `history.go` | the events rebuilt from the rows | build |
| Model failover | `model_failover.go` | attempts, cooldown | retry, change of model |
| Workspaces | `service/workspace/workspace.go` | worktrees, their servers, holders | `Load`, `ReleaseRun` |
| Plan runtime | `service/plan` | executions, steps, attempts, waits | claim, settle, resume, retry, skip, cancel |
| Workflow scheduler | `service/workflow` | timers, running runs, breaker | fire, gate, run, stop |
| Asynchronous tasks | `service/asynctask` | leases | claim, renew, finish |
| IM gateway | `service/gateway` | one run per chat, pending interaction | incoming message, reply |
| MCP client | `service/mcpclient` | child processes, pumps, requests that wait | start, request, time-out, restart, removal |
| Agent bundles | `service/bundle` | the list of what a bundle wrote over | install, reinstall, uninstall, roll back |
| Web client | `web/sdk/runtime` | connection, pending request, recovery; the view of a session and its ledger of events | run, reconnect, recover, reduce, replay |

The administration services (`service/app`, `apikey`, `setting`, `credits`, ...),
memory, the registries of skills, agents and tools, the model clients under `api/`,
the HTTP controllers and the base library complete `PROJECT.json`; section 16 says
why they are not modelled.

### How they interact

The WebSocket handler owns one run goroutine. A `run` message without a run
starts one; with a run it becomes a *steering* message and goes through the
admission, which reads the active run of the session and stores the input as a
*guide* of that run or as a *queued* row. The engine takes guides between two
model calls; at the end of the run what is left falls back to the queue, and the
goroutine goes on with the head of the queue. Every other client message goes
through the bounded channel to the pump of the hub, which hands it to the tool
that waits for it. Several connections, and the queue API over HTTP, work on the
same session; they meet only in the database, where creation and admission take
the session row lock and the other statements do not.

A sub-run is a run with a goroutine of its own whose context descends from its
parent's; it speaks to the parent through rows of the ledger and a command box. A
workflow, a messenger and the web client are three ways to begin a run. The web
client keeps its own account of a session: it reduces the events it gets, stores
them, and after an end asks the server for the history, which is rebuilt from
the stored messages.

### What is hard about it

* Creation and admission hold the session row lock, but the update that ends a
  run, the settlement of its inputs, the drain of the queue, the queue API and
  `Cancel` do not.
* A run goes through two owners of its state: the database row and the goroutine.
* Two sequences of events have no common order: the messages of the client and
  the registrations of the tools that wait for them.
* A restart forgets the goroutines and keeps the rows.
* A round of the model is stored in pieces (the calls, then their results), and
  anything may fail or stop between two of them; the next request must still be one
  the provider accepts.
* Other processes (MCP servers, schedulers, messengers, browsers) answer late, twice
  or never, and the answer must not be taken for that of another question.
* Every wait must end, whichever of the answer, the timer, the cancel and the
  disconnection comes first.

`PROJECT.json` lists the hazards, each at its line.

### What makes each component correct

* *Run lifecycle*: one engine works on a session at a time; every run gets a
  terminal state; nothing is added to a run that ended.
* *Pending inputs*: an input settles once; a row is `guided` exactly when one
  message was taken from it; queued inputs survive runs; inputs are delivered in
  order, once; the queue drains.
* *Hub*: an answer ends only the call it names, and is used once; a
  disconnection releases every waiter; every pump ends.
* *Delegation*: nothing of a sub-run turns up after its session went on; no token
  is counted twice on its way up; no sub-run is left working for nobody.
* *Conversation*: each request pairs calls with results; a result tells the truth
  about whether its call ran; what one run knew the next one knows.
* *Model round*: the client shows the answer that is stored, and no other.
* *Workspaces*: what a run holds exists; what nobody holds is removed.
* *Plan runtime*: one executor works at a time, in order; a wait is resolved once;
  a plan has one final answer.
* *Workflows*: no more runs of an app than it may have; a streak of failures
  disables; no row stays in flight.
* *Asynchronous tasks*: observations only advance; a job that ended is recorded as ended.
* *Gateway*: an answer reaches the run of its chat; a reply goes on where it was made.
* *MCP client*: an answer belongs to the request and to the process it was sent to.
* *Web client*: a run that was cut off is continued once; a request goes out once; a recovery ends;
  what is shown live is what the history shows later.
* *Bundles*: what the user had before comes back.

## 2. Modules, runs and plan

| Module | Models | Composed in | Theorems in |
|---|---|---|---|
| `Steering`, `SteeringProps` | runs, inputs, engine boundaries, restarts of one session | `MCSteeringParts`, `MCLiveness`, `MCSteering` | `SteeringProofs`, `SteeringLedgerProofs` |
| `InputLedger` | abstract ledger of inputs, implemented by `Steering` | - | `SteeringLedgerProofs` |
| `ClientHub` | hub, channel and waiting tools of one connection | `MCRuntime`, `MCLiveness`, `MCClientHub` | `RuntimeProofs` |
| `Workspace` | shared worktrees, their servers and tool copies | `MCRuntime`, `MCWorkspace` | `RuntimeProofs` |
| `PlanExecution` | steps, attempts, waits, the commands on them | `MCPlanExecution` | `PlanProofs` |
| `Delegation` | sub-runs, command boxes, notices, tokens | `MCServices`, `MCLiveness` | `ConversationProofs` |
| `Conversation` | the messages of a session, rounds of tool calls, compaction | `MCServices` | `ConversationProofs` |
| `ModelRound` | retries and failover of one request to the model | `MCServices` | `ConversationProofs` |
| `Workflows` | firing, gate, breaker, edits, stop | `MCServices`, `MCLiveness` | `ServicesProofs` |
| `AsyncTasks` | jobs, observations, leases, reminder, list | `MCServices`, `MCLiveness` | `ServicesProofs` |
| `Gateway` | chats, adapters, questions, sessions | `MCServices` | `ConversationProofs` |
| `WebClient` | connection, requests and recovery of a web session | `MCServices`, `MCLiveness` | `ConversationProofs` |
| `EventView` | the view, the ledger of events and the history | `MCRuntime` | `ViewProofs` |
| `McpClient` | a stdio MCP server under restarts | `MCServices` | `ServicesProofs` |
| `Audit` | the audit batcher of the MCP gateway | `MCLiveness` | - |
| `Bundles` | installation and roll-back | `MCServices` | `ServicesProofs` |

### How the MC modules put components side by side

Most components interact with others through a narrow interface that each module
contains as a choice of its environment, so a product of their states would show
nothing more. `MCSteeringParts`, `MCServices`, `MCRuntime` and `MCLiveness` therefore
hold several *parts*: a variable `part`, chosen in the initial state, names the
instance that moves, and the variables of all others keep their initial values. A
part may also restrict the steps of its component (`InterleaveStep`, `TaskStep`,
`WebStep`, ...) where all of it at once has too many states. The properties are those of the
components; a component that does not move is in its initial state, where they
hold. In `MCLiveness` the fairness of all components is assumed at once: those that
stay where they began have no fair action enabled there, so the conjuncts about them
are met (were one enabled for ever, its fairness would contradict `UNCHANGED`, leave
no behaviour and make every liveness property true; the mutants
break each of these properties, which shows that behaviours remain).

That a component in company behaves as it does alone is proved, too: `ServicesTypeProofs!ComponentsImplemented`
and `RuntimeProofs!RuntimeImplements` say that a behaviour of `MCServices`, or of
`MCRuntime`, is one of each component's own specification. The theorems about the components
thereby hold of what the runs check, and the types of all variables together
(`ServicesTypesHold`, `RuntimeTypesHold`) follow from those of each.

| Run | Module | Parts | Properties |
|---|---|---|---|
| `SteeringQueue` | `MCSteeringParts` | queue, interleave | `TypeOK`, `OneEngine`, `PromoteAtomic`, `NoMessageAfterEnd`, `QueuedSurvives`, `LedgerSpec` |
| `Liveness` | `MCLiveness` | live, drain, hub, tree, async, cron, web, audit | `OneActiveRun`, `FirstInFirstOut`, `DeliveredOnce`, `LiveRunsEnd`, `LiveQueueDrains`, `WorkEnds` |
| `Runtime` | `MCRuntime` | workspace, hub, view | `RuntimeTypeOK`, `CountsRight`, `HeldIsIndexed`, `NothingLeft`, `NoCrossTalk`, `AnswersConserved`, `NobodyForgotten`, `ShownAsStored` |
| `Services` | `MCServices` | sync, remind, list, firing, editing, conversation, family, inputs, round, gateway, recovery, takeover, mcp, bundle | `ServicesTypeOK` and the properties of sections 7 to 15 |
| `PlanCommands` | `MCPlanExecution` | - | section 6 |
| `SteeringQueueSend`, `HubDisconnect`, `WorkspaceTeardown`, `PlanSkip`, `GatewayReply`, `WebResend`, `ViewTimeout` | | | one each; the code does not do what a comment, a document or its client expects |

`Services` has one symmetry, `Twins`: it exchanges the two lease owners, the two
workflows, the two chats and the two bundles at once. Only one component moves, in
which the other pairs do not occur, so it is a permutation of the model values under
which the specification and its properties do not change; no liveness is checked there.

### What is left

All modules of the plan are written, and every invariant that a run checks is a theorem.
Section 16 says what is left to TLC and why. Of code with a
state of its own the settlement of credits is left: nothing in the repository calls it.
No module declares a RECURSIVE operator.

## 3. Steering

One session, any number of connections. The variables:

| Variable | In the code |
|---|---|
| `runs` | `react_run.state` of the outer runs, in order of creation |
| `ledger` | the rows of `react_pending_input`: status, delivery, run, seq, and whether the row is older than the process |
| `messages` | the user messages inserted by `createReactRunContext` and by the drain of a guide |
| `g[c]` | the program counter of the run goroutine of connection `c` and the payload it carries |
| `tx` | the transaction that holds the session row lock, with what it read |
| `registry`, `soft`, `ctxCancelled` | the maps of `runtime.go` and the contexts of the runs |
| `cancelling` | `Cancel` calls between their read and their write |
| `children` | outer runs with a background sub-run still active |
| `stopping`, `restarts`, `sent` | the process, and two counters |

A transaction under the session lock is two steps, *Begin* (its reads; the lock
is taken by the first statement, so the snapshot is not older than the lock) and
*Commit* (its writes). Every statement outside that lock may fall between them.
`SteerBegin`/`SteerCommit` are `SteerSession`, `InjectBegin`/`InjectCommit`
`InjectQueuedItemAsGuide`, `CreateBegin` followed by `CreateAdmits`, `CreateRun`
or `CreateRollback` is `createReactRunContext`. The goroutine goes
`prepare -> create -> created -> loop (<-> wait) -> ending -> settle -> settled ->
release -> prepare | done`, with `abort` for every error of the loop; each arrow
is the action named for the function it models (`Register`, `DrainGuide`,
`AskClient`, `Finish`, `Settle`, `DrainHead`, ...). `Restart` forgets the
goroutines and rolls the open transaction back.

Abstractions. A message is plain text, text the client asks to queue (`later`)
or text with attachments (`files`). The content of a row may be edited while
queued (`UpdateQueuedItem`): that changes no control and is left out, as are slash
commands (rejected before anything is stored), sub-run and notification rows,
and the state `waiting_plan` of the Plan runtime. Steering must be enabled in the
configuration; the model assumes it is. A handler whose client disconnected
waits for its run, which is a behaviour of the handler that the client leaves alone.

### Properties

| Property | What it says |
|---|---|
| `TypeOK` | types |
| `OneEngine` | two connections are never both between the creation of their run and the update that ends it, unless the shutdown hook already ran |
| `PromoteAtomic` | a row is `guided` if and only if exactly one message was taken from it, of the run the row names and with its input |
| `NoMessageAfterEnd` | a message is added only to a run that is active |
| `QueuedSurvives` | no step discards a row queued by this process |
| `LedgerSpec` | refinement of `InputLedger` |
| `FirstInFirstOut` | guides reach a run, and on one connection queued inputs become runs, in the order of admission |
| `DeliveredOnce` | on one connection, an input is told to the model at most once |
| `RunsEnd` | every run reaches a terminal state and every goroutine ends |
| `QueueDrains` | an input queued while a run still has to settle leaves the queue |
| `OneActiveRun` | one run is active at a time: a comment says so, the code ensures it without cancels and without the shutdown hook |

### Runs

| Run | Bounds | Shows |
|---|---|---|
| `SteeringQueue`, part "queue" | 1 connection, 2 rows, 2 runs, 3 inputs; attachments, background sub-runs, `queue_send`, inject, reorder, delete; a restart, with or without the shutdown hook, at any point | all safety properties and the refinement under all queue operations, within a process and across two |
| `SteeringQueue`, part "interleave" | 2 connections, 2 rows, 2 runs, 2 inputs; cancel, delete, inject, failures, waits, soft landing | the same for two connections: `OneEngine`, `NoMessageAfterEnd`, the refinement |
| `Liveness`, part "drain" | 1 connection, 3 rows, 4 runs, 4 inputs, fair | order, single delivery, and the queue drains (`LiveQueueDrains`) |
| `Liveness`, part "live" | 2 connections, 2 inputs, fair, failures, background sub-runs | without cancels one run is active at a time, and every run ends (`LiveRunsEnd`); two inputs leave no room for the overtaking and the copies described under "Gaps", so that of order and single delivery this part shows nothing |
| `SteeringQueueSend` | 1 connection, `queue_send` | `DeliveredOnce` fails: the row that is sent is not claimed, because its id is not part of the JSON of the payload |

Why these bounds are enough: two connections are the fewest that interleave two
transactions and two engines; two rows and two runs are the fewest for a row that
leaves one run for another, for an order between rows, and for a run that finds
the leftovers of another; the third row and the third and fourth run of
part "drain" let the drain go round its loop more than once. Runs stop at their
bounds, and a session may be quiet for ever: `CHECK_DEADLOCK FALSE`. With two
connections the copies described under "Gaps" use up any bound on runs, so
`QueueDrains` is checked with one. The theorems below cover all bounds and both
values of `QueueEnabled` and `AutoDrain`.

Fairness. Weak fairness of a commit and of each goroutine's own steps: the
scheduler runs what can run, and a transaction ends. Strong fairness of the end
of the loop: `maxSteps` bounds the number of boundaries, so an engine that reaches
boundaries reaches its last one. Weak fairness of the end of a wait: the client
answers, or `interaction_timeout_sec` ends the wait (600 in the shipped
`conf/app/custom.yaml`; with 0, the default of the code, a wait depends on its
client). Weak fairness of the end of a sub-run. Nothing is assumed of the user.

### Proofs

For every set of connections, all bounds, both settings of the queue and any set
of operations, under the assumptions stated in `Steering`:

* `SteeringProofs!TypeCorrect`: `Spec => []TypeOK`. `TypeOK` is not inductive
  alone: `Typing` adds that the transaction under the lock belongs to a connection
  whose program counter agrees with it, and that a goroutine with an engine has a
  run.
* `SteeringProofs!OneEngineHolds`, `NoMessageAfterEndHolds`. `OneEngine`
  says nothing of the database, so its induction fails at the creation of a run:
  `EngineInv` adds that an engine's run is active (`HoldingActive`), that a
  transaction about to create a run found, and will find, no engine
  (`CreatesAlone`), and that goroutines have distinct, existing runs. Then a
  creation is excluded while an engine works because it would have read its run
  as active. `NoMessageAfterEnd` follows from `HoldingActive`.
* `SteeringLedgerProofs!PromoteAtomicHolds`, `QueuedSurvivesHolds`,
  `LedgerImplemented`. `LedgerInv` adds to `PromoteAtomic` that unused rows are
  blank, that no message is taken from a row of the future, and what a transaction
  and a goroutine may hold in their `row`; from it every action of `Steering` maps to a step
  of `InputLedger` or to a stutter.

* `SteeringProofs!OneActiveRunHolds`, if `Ops` has neither `cancel` nor `shutdown`
  (`NoLateWrites`): a cancel writes "cancelling" over a run that ended meanwhile, and the
  hook writes "expired" over one whose engine then goes on to write its own state. `ActiveInv` adds
  that a transaction about to create a run finds none active when it commits;
  `StepSubsides` shows that without the two only a creation makes a run active.
* `SteeringLedgerProofs!GuidesInOrderHolds` and `FirstInFirstOutHolds`, if `Ops` has neither
  `inject` nor `reorder` (`NoJumps`): the first for any set of connections, the second for one
  (`OneConnection`). `GuideInv` says that numbers ascend with the rows (`Ascending`) and
  that a run has been told nothing younger than a guide it still has to take;
  `QueueInv` says that the head on its way is the oldest row of the queue
  (`HeadFirst`) and that what was promoted is older than whatever may still be. `HeadFirst` is
  where one connection is needed: the only way back into the queue is a
  settlement, and the goroutine that carries the head is behind its own.
* `SteeringLedgerProofs!DeliveredOnceHolds`, on one connection, without `queue_send` and with
  `NoLateWrites`. An input is kept by one row, one message that came from no row, one
  goroutine that brings it from the client or one open admission (`InputInv`); a promoted
  payload is not admitted again because no run is active between the end of a run and the
  creation of the next (`BetweenInv`). A late cancel breaks that invariant: it leaves a copy
  of the row in the queue of a run that nobody ends. TLC finds no second delivery from
  such a copy on the instances tried; the theorem leaves it out.

TLC shows why two connections are excluded: with four inputs, three rows and four runs
it violates both `FirstInFirstOut` and `DeliveredOnce`. One connection reads the head, the other
settles an older guide back into the queue, and the younger row is promoted first; or the
other starts its run before the head is claimed, which is then admitted once more as a new row.

The invariants were found and repaired as invariants of TLC runs of the
same instances before they were proved. Proved in TLAPS with its SMT and Zenon
backends and LS4 for the temporal steps. Liveness is model-checked only.

## 4. ClientHub

One connection, its runs one after the other, each with a hub; the calls of a run
may be parallel (sub-agents share the hub of their outer run). `inbox` and
`closed` are the channel of `ws.go`, `waiters`, `pending`, `dead` and `pump` the
fields and the goroutine of each hub, `slot[k]` the channel of capacity one of the
waiter of call `k`, `wait[k]` the progress of the call inside `WaitTimeout` and
the tool around it. A step is one critical section of the mutex or one channel
operation: `Route` takes the snapshot of the waiters, `Buffer` and `Send` happen
later, `Expire` is the timer with the second look at the channel, `Unregister` the
removal. `Forward` drops a message that finds the channel full, as the handler does.

| Run | Bounds | Shows |
|---|---|---|
| `Runtime`, part "hub" | 2 answers and a confirmation in parallel, 1 buffer place, 2 channel places, one cancel, timers | types and capacities; `NoCrossTalk`; `AnswersConserved`; `NobodyForgotten` |
| `Liveness`, part "hub" | 3 calls in 2 runs, no timers, no cancels, fair | a disconnection ends every wait, and every pump ends (in `WorkEnds`) |
| `HubDisconnect` | an answer and a confirmation in parallel | `AllReleased` fails: a waiter that returned stays registered with a full channel, and the broadcast blocks on it |

The capacities of the code (16) are replaced by the smallest that can be
exceeded. Two parallel calls of one kind and one of another are the fewest that can
take each other's answers. Fairness: waits, timers and pumps that can go on do; nothing of
the client. The part "hub" of `Liveness` has no confirmation in parallel because that is exactly
the case in which `AllReleased` fails.

The part "hub" of `Runtime` has one run of the hub. That the pump of a run that ended goes on reading the channel of
the next one occurs in the part "hub" of `Liveness`, where TLC checks only that the waits end; that the safety
properties hold then too is what the theorems below say, for any number of runs and pumps.

`RuntimeProofs` proves the four invariants for any calls, runs, capacities and number of
messages, from `HubAssumption` alone. `NoCrossTalk` and `NobodyForgotten` need `HubInv`:

* `HubShape`, the types with what a pump may hold: nothing between two reads, a message of the
  client while it routes or buffers; what it hands out to a list of waiters goes to one of them
  if it is an answer, and to the call it names if it is an addressed one;
* `HubEnds`: a call that waits is registered; a pump that has ended, or that hands out
  the end of the channel, has set `dead`; and at a dead hub whoever waits has an event or
  is still on the list of the pump. `NobodyForgotten` alone is not inductive: it says nothing
  of the time between the error and the last send. That the list of a broadcast
  names every waiter (`OrderNames`) is the pigeonhole principle.

`AnswersConserved` is inductive together with `HubShape`. Each step takes a
message from one place and puts it at one other place at most; the lemmas `PlacesTaken`,
`PlacesForwarded`, `BuffersGrown`, `BuffersClaimed`, `PumpsChanged` and `SlotsChanged` count what
that does to each of the sets of copies, a buffer being rewritten by an injection of its places
(`Moved`). The list of an answer has one entry (`HubShape`), so a pump that has sent it is rid of it.

## 5. Workspace

A run that loads the code of a service takes part in the workspace of one
*key*, a service at a commit: a worktree and a repo MCP server shared by all runs
of that key, and a copy of the server's tools per app.

| Variable | In the code |
|---|---|
| `index` | `m.entries` |
| `key[e]`, `started`, `holders[e][a]` | the `key`, the `started` flag and the `holders` map of the `wsEntry` object `e` (a count of 0: the app is not in the map) |
| `refs[r]` | `m.runRefs[r]` |
| `pc[r]`, `loading[r]` | where the run is inside `Load` or `ReleaseRun`, and the entry its `Load` works on |
| `cleanups[r]`, `teardowns[r]` | the local slices of `ReleaseRun` that are still to be worked off |
| `worktree`, `server`, `tools` | the disk, the MCP servers by name, the registered tools |

`Load` is the registration under the mutex; `AlreadyStarted`, `ColdStart` and
`StartFails` are `ensureStarted`; `Undo` is `rollbackRegistration`; `Sync` is
`syncAppTools`. `Release` is the part of `ReleaseRun` under the mutex; `Clean`,
`TearDown` and `Released` are what it does after it. A section under the lock of a
key is one step: nothing reads the disk or the servers without that lock, except
`Sync`, which looks at one server once. The tools of one run are called one after
the other (`load_runtime_code` is not safe for parallel calls) and `ReleaseRun` is
deferred to after its last tool, so a run is never inside `Load` and `ReleaseRun`
together. What a reference resolves to may change between two loads: the key of a
load is free. A failing `removeRepoServer` or removal of tools is only logged by
the code and is not modelled.

| Property | What it says |
|---|---|
| `TypeOK` | types; no count is negative |
| `CountsRight` | what an entry counts for an app is the number of that app's runs that refer to it |
| `HeldIsIndexed` | what a run refers to is the entry in the index, the one the next load shares |
| `NothingLeft` | when all runs are over no worktree, server or tool copy is left |
| `StaysMounted` | what a run has loaded stays mounted: comments say so, the code does not ensure it |

| Run | Bounds | Shows |
|---|---|---|
| `Runtime`, part "workspace" | 3 runs of 2 apps, 2 keys, 4 entries, 1 failing start | all of them except `StaysMounted` |
| `WorkspaceTeardown` | the same | `StaysMounted` fails: the tear-down of a retired entry waits for the lock of the key until a new entry of the same key has started, and then removes the server and the worktree of the new one |

Two runs of one app and one of another are the fewest in which an app leaves
before a workspace does and a workspace is left by one run of an app and kept by
another; two keys let one run hold two workspaces; four entries let each key be
retired and loaded again. Runs end: `CHECK_DEADLOCK FALSE`.

`RuntimeProofs!CountsAreRight` and `HeldIsShared` hold for any finite set of
runs, any apps, keys and bounds. The inductive invariant `SharedInv` is `TypeOK`, the three
properties and what they lean on: an indexed entry is of its key (`IndexRight`),
a run inside a load refers to the entry it loads (`LoadingHeld`), a load that
returned is of a started entry (`LoadedIsStarted`), and one about to
register its tools found it started (`SyncedIsStarted`). `CountsRight` carries the
proof of `HeldIsIndexed`: an entry leaves the index when its counts are 0, and by
`CountsRight` then nobody refers to it. `Undo` and `Release` share the lemma
`DropStep`.

`RuntimeProofs!NothingIsLeft`, for the same constants. `LeftInv` adds to `SharedInv` that a run
cleans up only while it leaves and refers to nothing from then on (`LeavesLast`), and that, as
long as no start has failed, somebody refers to each worktree, server and tool copy or is
about to take it down (`AllMinded`). `CountsRight` is what it leans on: a run that leaves a
workspace whose count is not 0 hands it over to a run that still refers to it. When all runs are over nobody
refers to anything, so nothing can be there.

## 6. PlanExecution

One plan. `Callers` are the goroutines that work on it: the run that writes the
plan (`Runner`) and the commands, which come over HTTP or from other connections
at any time. Each gives one command.

| Variable | In the code |
|---|---|
| `plan`, `cur`, `version` | `status`, `current_step_id`, `current_version_id` of the `PlanExecution` row |
| `step[s]`, `tries[s]`, `waits` | the rows of the steps, of their attempts and of the waits |
| `outer` | `react_run.state` of the outer run |
| `registered`, `cancelled` | the registry of cancel functions for that run, and the contexts that are cancelled |
| `answers` | the assistant messages of `PersistExternalFinalAnswer` |
| `pc[c]`, `my[c]` | where a goroutine is and the rows it has read |
| `skipped` | history: a step was skipped |

`Loop`, `Claim`, `Attempt`, `Succeed`, `StepFails`, `Pause`, `Summarize`, ... are
the executor (`executor.go`), each database transaction of `repository.go` one
action with the conditions it asserts. `FailSteps`, `FailPlan`, `FailRun` are the
three statements of `failExecution`, `CancelWait` to `CancelRun` the five of
`cancelExecutionState`; none of them looks at the status it overwrites.
`Resume`, `Retry`, `Skip` and `Cancel` are what a command reads and checks;
`RetryStep`, `SkipStep`, `Restore`, `Begin`, `Resolve` and `Stop` its
transactions. `Exit` is the deferred cleanup, which unregisters whoever is
registered. The planner, the scoped sub-run of a step and the summary are choices
of their outcome: success, failure, and cancellation once the context is cancelled.
`Fault` is a failing statement or view in the executor, `ShowFails` a view that
cannot be sent where the code just returns. Failing statements inside
`failExecution` and `cancelExecutionState`, the external wait, which no step type
uses, and an outer run that expires are left out. Attempts are numbered by the executor,
from what it found when it began on the step (`executor.go:69-82`); the number is unique in
the table (`sql/init.sql:654`), so an executor that finds its number taken ends with an
error, and so does the answer to a wait, whose attempt is always number 1.

| Property | What it says |
|---|---|
| `TypeOK` | types; an attempt is within the limit its executor took |
| `OneRunningStep` | at most one step is RUNNING: the documentation says so, a skip breaks it |
| `OnlySkipOverlaps` | while no step is skipped, at most one step is RUNNING and one executor at work |
| `SucceedsOnce` | a step's work, or a user's answer, succeeds once, skips aside |
| `AnsweredOnce` | one final answer, skips aside |
| `InOrder` | no step starts while one before it has still to end, skips aside |
| `ClosedWhenDone` | a plan becomes SUCCEEDED when none of its steps is left to end, skips aside |

| Run | Bounds | Shows |
|---|---|---|
| `PlanCommands` | an agent step, an optional confirmation and an agent step with two attempts; the run and two commands of any kind; one failure | all of them except `OneRunningStep` |
| `PlanSkip` | the same plan, one skip | `OneRunningStep` fails: the skip of a PENDING step clears the slot that the running step holds |

Two commands next to the run are the fewest in which two commands race and the run
is still at work. Three steps are the fewest with a step to skip between one that
runs and one to start; the wait between two agent steps makes the plan change its
executor. Commands are alike (`CallerSymmetry`; no liveness is checked here), and
all goroutines end: `CHECK_DEADLOCK FALSE`. What remains of a goroutine that
ended is forgotten, which only joins equal states. The mutants show that the
transactions of the commands, not the slot, keep executors apart: without the
condition on the slot nothing above breaks as long as no step is skipped.

`skipped` replaced a look at the rows after TLC found, with four callers, that a skip
may leave no trace: step 1 fails, step 2 is skipped while the failure is written, the
executor of the skip works on step 3, a cancel that had read step 2 as pending or the
slot as taken writes CANCELLED over what came after it, and a retry of step 1 opens step 3
a second time. Its work then succeeds twice. The comment that the cancelled steps of a
FAILED plan can only come from that failure (`repository.go:716-718`) does not hold then.

### Proofs

`PlanProofs` proves all six properties of `PlanCommands`, `OnlySkipOverlapsHolds`,
`SucceedsOnceHolds`, `AnsweredOnceHolds`, `InOrderAlways`, `ClosedWhenDoneAlways` and
`PlanTypesHold`, for any number of callers, steps, attempts and failures and any kinds
of steps. The six lean on one invariant, `PlanInv`: types, what a goroutine knows where it
is (`Placed`), and, until a step is skipped, `Sole`:

* `OneToken`: the plan is carried on by one thing at a time, a goroutine that executes, a
  step that has FAILED, a step that is WAITING, or the final answer. A failure hands the
  token to the step, a retry takes it from there; the pause and the answer to the
  wait do the same. No property speaks of the token, and none is inductive without it: two
  resumes are kept apart because the first takes the step out of WAITING, not by the slot.
* `SlotKept`: a RUNNING step has the slot, and the executor is at work on it.
* `Ordered`: before a step that was begun there is none left to end.
* `DoneOnce`: behind a success nothing is left to do, so a retry, which opens the failed
  step and the cancelled ones after it, never opens one that has succeeded.
* `VersionKnown`: who executes has read which version of the steps counts; otherwise it
  would see no pending step and close the plan.

Most steps of a goroutine that does not execute only cancel steps; `LessensKeeps` proves
once that this keeps `Sole`, `GoesOnKeeps` that an executor that changes no step does, and
`StepGivesWay` covers the five actions that end the work on a step, hand it to the user
or take it up again. TLC had checked `PlanInv` with three callers before.

## 7. Delegation

The runs of a session as a tree: run 0 is the outer one, sub-runs are numbered as
they are created.

| Variable | In the code |
|---|---|
| `runRow[r]` | `tblLlmReactRun`: state, own tokens, delegated tokens |
| `up`, `line`, `behind` | `parent_run_id`, the runs named by `agent_path`, and `background` |
| `stands[r]` | where the goroutine of the run is; `cutOff[r]`: its context is done |
| `ledger`, `seen[r]` | `tblLlmReactPendingInput`, and the highest number a goroutine has read of it |
| `box[r]` | the `RuntimeCommandBox` |

`Delegate` is `executeDelegateAgent` and `launchBackgroundDelegate`; `Finish`, `Settle`,
`FinalizeError`, `Accumulate`, `Return` are the end of a sub-run, in the order the
code has for a blocking one and for one in the background; `Deliver`, `Commit` and `Push`
are `deliverBackgroundNotification` (the parent's row is locked between the first
two); `TakeNotices` and `TakeInput` the drains at a boundary of the parent;
`SendStart`/`SendWrite` `send_message`, which takes its number without a lock;
`NextRun` the creation of the next outer run. The engine of a sub-run is `Spend`
and the ends of its loop.

| Property | What it says |
|---|---|
| `NothingOutlives` | when the next run of the session begins no row is still admitted, and none turns up later |
| `CountedOnce` | what a run was charged for its delegates is at most what they spent, whatever the order in which runs of several depths end |
| `OrphansEnd` (in `WorkEnds`) | when the outer run is over all sub-runs end |

Parts "family" (2 sub-runs, depth 2, tokens) and "inputs" (1 sub-run, 1 input, 1
failure) of `Services`: two sub-runs are the fewest for a chain and for siblings; one
input and one failure for a notice that is lost. Part "tree" of `Liveness`: the
cut-off loops, the statements of a run's end and the notices are fair; nobody has to
answer and no model has to end; there a sub-run is cut off only with the outer run or
when it or a run above it is over. Left out: the summary and the transcript of a
sub-run, the tools of a sub-agent, and the resumption of a finished sub-run, which is a new
one here. A parent in `wait_agent` stays in its loop.

`ConversationProofs!NothingOutlivesHolds` proves `NothingOutlives` for any tree of runs, any
notices and inputs. `FamilyInv` adds that a run whose goroutine works is active in its row
(`WorkingActive`), that a parent waits for its sub-runs in the foreground (`ParentWaits`), that
the row of a parent does not change under a notice (`ParentHeld`), and that the next run
begins only when no run of the session is active (`NobodyActive`).

`CountedOnceHolds`, for any number of sub-runs and any depth. `LineInv` says that `line` is the chain of
runs above a run, so that what is below a run is below those above it; `AccountsInv` that a run was
charged at most what the runs that can have come up to it have spent: those below a sub-run that has
paid its parent (`Arrived`). A payment adds one more sub-run and what is below it, none of which had
arrived before. The sum is a function over finite sets; what it does with a union is proved once, by induction
over the size of the set.

## 8. Conversation

The messages of one session: `rows` is `tblLlmReactMessage` in the order of creation,
`mem` the messages the engine holds, `calls`, `slots` and `going` the round of tool
calls, its results and what became of each call, `compacted` the compactions of the run.
`BeginTurn` loads the context (`Load`: covered rows and partial answers are left out, and
calls without results get one); `Compact` replaces a prefix of the context by a
summary row that covers it; `AnswerText`, `AnswerCalls`, `AnswerFails`,
`AnswerOverBudget` are what a response leads to; `StartCall` and `FinishCall` the
dispatch, parallel under the semaphore or serial; `CloseRound` the result row;
`TurnStops` a crash or the last step. Texts are left out: a row is its
place in the table and a summary the set of rows told to it.

| Property | What it says |
|---|---|
| `RequestsPaired` | each request has, right after a message with calls, the results of just these calls, and no other results, after compactions, failed writes and crashes |
| `VerdictsTrue` | a call that began is never reported as not executed, nor as a duplicate |
| `ContextSurvives` | what a run has in its context the next run has, in full or in a summary, however often the run is compacted; only a row that was overtaken is lost: one that a compaction left standing, when the summary written after it is told to the next compaction |

Part "conversation": rounds that are serial, mixed and with a repeated id, a
semaphore of 1, 6 rows, 2 runs, 2 compactions in a run, 1 mishap. Five rows are enough to overtake
one: a message, a text cut at max_tokens, the summary of the message, a second text, and the summary
of that summary.

`ConversationProofs!VerdictsTrueHolds`, for any rounds and any semaphore: `VerdictsInv` adds
that a call without a start has no result yet.

`RequestsPairedHolds`, for any rounds, rows, compactions and mishaps. `ConvInv` has three parts:
what a table is (`TableFits`: results stand right after the row of their calls and have its ids, and a summary
covers only rows before it, and no row of calls without its results); that the round whose calls run is the last row
(`RoundStored`); and what the memory of a run has of it (`ContextFits`: calls are followed by their
results or by what stands for them). A load reads the table row by row, so what it gives is followed by
induction over the rows (`LoadsTo`): each entry fits, every row that is kept is there, and they are in order.

`ContextSurvivesHolds`, for any number of rows, runs and compactions. A summary covers its run up to the
highest number among the rows it was told, so that what stands before that row is lost unless it was told too.
`ContextInv` says where in the memory of a run such a row can be: the memory of a run that was compacted has its
last summary as its head; behind that head it is in order and holds no other summary of the run (`Headed`, `Rises`). So of
two rows of one run in the wrong order the first is that head, and what it leaves behind is of the present run, was
stored before the head, and is no summary: `Overtaken`. Every other row of the memory is still loaded (`Spared`), every
summary among them, and with it what it was told. `Overtaken` stays true because
no row is ever removed. `SurvivesOneCompaction` says that until a second compaction of the run nothing at all is lost:
before the first one the whole memory is in order, so no row can be overtaken.

## 9. ModelRound

One request: `order`, `index` and `attempt` say which model of the failover group is
asked for which time, `drawn` whether the last result holds output, `screen` and
`stored` what the client shows of the step and what is stored. `Request`, `Chunk`,
`StreamDone`, `StreamFails`, `Retry`, `Failover` and `RoundCut` are `callModelRound`,
`collectLLMStream` and what they call. `SeenIsStored`: when a round is done the client
shows exactly what is stored, and of a round that was cut off nothing that is not
stored. Part "round": 3 models, 2 attempts, 2 rounds, so that a model that took over
starts a round of its own. Delays and the classification of an error are choices.

`ConversationProofs!SeenIsStoredHolds`, for any number of models, attempts and rounds: `RoundInv`
adds that nothing is shown between two attempts (`ClearedBetween`), and in the middle of one
only what it has written, by the first model of the round (`ShowsItself`).

## 10. Workflows

`defs` the definitions, `entries` those in the cron scheduler, `history` the row of
each firing with its goroutine (`pc`), `process` up, stopping or down, `edits` the requests of the
editors, each of them read, write, and synchronisation in three steps. `Fire` writes
the row, `PassGate` and `SkipRun` count, `BeginRun` and `EndRun` are the run,
`CheckBreaker`, `TripBreaker`, `UnhookTripped` the breaker, `StopScheduler`,
`ProcessEnds`, `StartScheduler` the process.

| Property | What it says |
|---|---|
| `GateHolds` | at most `max_parallel_per_app` scheduled runs are past the gate, deleted definitions aside |
| `BreakerNotMissed` | once no run of a flow is under way and its last runs all failed, it is disabled, unless enabled by hand or cut off after the last failure |
| `FlowRunsEnd` (in `WorkEnds`) | no row stays in flight, across crashes and stops |

Parts "firing" (2 flows, 3 runs, a crash or stop) and "editing" (an edit instead of the third
run); a limit of 1 and a threshold of 2 are the smallest that can be exceeded and that
need a history. Fairness (part "cron"): a run ends, by its time limit at the latest, a
process that stops ends and one that is down is started. `forgiven` is a history variable
for the exceptions of `BreakerNotMissed`. The content of a run, its judge and the web hook are
its end status.

Statements of the database do not fail in this module. In the code a failed count at the gate lets the run
through, so that `GateHolds` is about counts that succeed; a failed write of the end status leaves the row
`running` until the next start, where it fills a place at the gate and is not one of the failures the
breaker reads; and a breaker whose read or update fails logs it and does nothing
(`runner.go:499-527`), so that `BreakerNotMissed` is about end statuses that were written and breakers that
could read and write.

`ServicesProofs!GateHoldsAlways`, `BreakerNotMissedAlways`, for any flows, firings, edits
and restarts. For the gate `HistoryInv` and `Gated` count the runs that came
through; the breaker needs `BreakerUnderWay`: a flow that should be disabled and is not
has a run on its way through the breaker. The
constant "no flow" is assumed to be none of the flows.

## 11. AsyncTasks

`jobs` what the external scheduler published per key, `tasks` the rows, `held` and `look` the
leases an instance works on and the answer it has not reported, `reminded` and `hasMore` the
reminder of a run, `list` the paged list of the web client with the request it has
open. `CallTool`, `RecordTask`, `RecordFails` the submission; `DeliverEvent` an event, late,
repeated, out of order or never; `ClaimTasks`, `AskScheduler`, `ReportLook`, `GiveBack`,
`OwnerCrash`, `LeaseLapses` the reconciliation; `ResolveTask`, `LoadReminder` the run;
`Refresh`, `ReadPage` the list. Time is a flag per deadline.

`ObservationsAdvance` (an ended job keeps its end; number and time of the observation never
decrease) is checked in parts "sync", "remind" and "list" with 3 rows, two of which
share a key, 2 owners, 2 reports and 1 fault; `TasksSettle` (in `WorkEnds`): a job that ended is recorded as
ended, though events are lost and an instance dies. `ReminderComplete` and
`RefreshComplete` (the reminder names every open task or says there are more; a refresh
misses no task that was ready) hold on these instances too; they follow closely from the cut and the
cursor, and no run lists them. Fairness: every instance keeps
claiming, asking and reporting, and deadlines pass.

`ServicesProofs!ObservationsAdvanceAlways` (an action property), for any keys, rows and owners:
`ObservedInv` adds that a job that was never reported is not stored as ended, which a later
observation could undo, and types.

## 12. Gateway

`bound` is `tblLlmChannelSession`, `results` `tblLlmChannelMessage`, `talks` the messages under
way with handler, adapter and run, `boss` the registered adapter of a chat, `holder` the run
active in a session. `Arrive`, `Reply`, `NewSession`, `Route`, `Bind`, `Mount`, `Start`,
`AskChat`, `ReadReply`, `AskEnds`, `End`, `CrossDeliver`, `Unmount`, `CancelChat` follow the handler
of a message. `NewestIsHeard`: whoever wrote to a chat last is registered there until its
run returns. Part "gateway": 2 chats, 2 messages that are routed, 2 sessions, 1
question, a reply buffer of 1. Run `GatewayReply`: `ReplyContinues`, what `gateway.go:268` tells
the user, fails after `/new`.

`ConversationProofs!NewestIsHeardHolds`, for any chats, sessions and messages: `ChatsInv` is
`NewestIsHeard` with types, and `TalksMove` what all steps but the registration share: a message may move on in
any way, but one that is over stays over. Only `Mount` and `Unmount` change who is
registered, the latter only for itself.

## 13. WebClient

One session of the TypeScript client and the server that answers it. `link` is the
`WsClient` (socket, its number, buffer, reconnect timer), `view` the state shown, `pending`
the `pendingLiveRunPayload` and its flags, `rescue` and `lookup` the recovery of an
interrupted run, `sent` what went out on which connection, `server` the runs, the queue
and the receipts. `SendRun`, `Opened`, `Disconnected`, `HeartbeatLate`,
`IdleDisconnect`, `RunEvent`, `Receipt`, `EndEvent`, `Replay`, `LookupReturns`, `LookAgain`,
`TryLater`, `Continue` are the callbacks of `session-runtime.ts` and `ws-client.ts`; `ServerReads`, `ServerEnds`,
`ServerDrains` the server, which goes on without its connection.

| Property | What it says |
|---|---|
| `ContinuedOnce` | a run is continued by the client only when it was cut off, and once unless a receipt named it (`joined`) |
| `RecoveryEnds` (in `WorkEnds`) | a recovery ends: the run was over, it is continued, or the user is told |
| `SentOnce` (run `WebResend`) | no connection carries a request twice: the buffer and the mark to resend both send it |

That a run is continued only once (`OneContinuation`, as `session-runtime.ts:715` has it) the code does not
ensure: a message sent during the recovery may be admitted to the run that still works, its receipt
(`steering.go:411`) arrives after that run failed and was continued and makes it the current one
again (`event-reducer.ts:939`), and the next disconnection recovers and continues it once more. TLC shows
this with `WebSpec`, four requests, three connections and two continuations; no run is spent on it.

`ContinuedOnceHolds` (`ConversationProofs`) proves `ContinuedOnce` for every number of requests, connections,
polls, continuations and reconnections. It does not hold by itself: `WebInv` adds that a run
the client recovers or looks up, and one it has continued, is *past* (`RecoversLost`,
`ContinuedBehind`: its connection was replaced or is gone, so that none of its events arrives any more),
that a run which was continued and that no receipt named is neither shown, recovered nor
looked up (`LeftAlone`), that what carries a number carries one the client has reached
(`NumbersPast`), that a receipt names a run that is marked `joined`
(`ReceiptsTell`), and that only what follows a run is queued (`QueueBehind`). `WebMoves` says what any action does with these: connections only grow older, a run keeps
its number and its error, and a run comes back into the view by an event of its own
connection or by a receipt, and into the recovery from the view that was cut off. Each action is
shown to be such a move, and `WebMoveKeeps` shows once that a move keeps the invariant.

Parts "recovery" (1 request of the user, 3 connections, 2 continuations, 2 polls, 1
reconnect) and "takeover" (2 requests over 2 connections): one for the counters, one
for the user who goes on meanwhile. Fairness: timers fire, a socket opens or fails, a
lookup returns. Left out: gaps in the numbering of events, plan commands, `queue_send`,
answers to tools, the promise of the hook before a run, and the end `timeout`.

## 14. EventView

What is seen of the runs of a session, three times: `shown` is `AgentState` as the
`EventReducer` keeps it, `kept` the view that the ledger filled by the `SessionEventAssembler` gives, and
`HistoryView` that of what `historyEventBuilder` makes of `rows`. A list of events is only ever
replayed, so that the ledger and a history are modelled by what their events add up to.
`turns` are the runs that emit and store; `ended` the ends that arrived. A text is the sequence of the
attempts it came from, a call has the cards that were made for it, and `index` is what
`toolCallIndex` knows of a step. `Speak`, `AttemptFails`, `RoundFails`, `Answer`, `Call`, `ToolStarts`, `ToolEnds`,
`ToolsOver`, `BudgetSpent`, `CutOff` and `Return` are the engine; each of its events goes through `Heard`,
which is `handleEvent`.

`syncs[r]` is the request that the end of run `r` starts, in the steps between which the client waits: the
server reads its rows (`SyncRead`, messages and runs at once), the answer replaces the ledger unless a run is
in progress (`SyncAnswered`), the session is looked at once more (`SyncChecked`), and what the ledger had
then replaces the view (`SyncReplayed`). Several of them may be under way.

A history may be read in the middle of a round of tools, whose results are stored together at its
end, and events may arrive while it is on its way: `lacks` names the runs of which it does not have
everything, and `torn` those of which the ledger, or the view, has lost something since such a history replaced
it. That is what the code does, and nothing makes it good for certain: after the end of a
sub-run that outlived its run the next request goes out only when the next run is over. A new run also empties the
index (`resetForNewRun`), after which the end of a call under way is not shown.

`ShownAsStored`: from its end on a run that finished is shown, live and out of the ledger, with the
texts and the cards it has in the history, whatever attempts failed and whatever other runs do,
unless it is torn. Part "view" of `Runtime`: an outer run and a sub-run of one step each
(`OneBelow`, `OneRound`), an attempt on each of two models, a piece of text, a tool, a cancel and a
time-out. A second step is beyond what TLC reaches next to the other parts; the proof is for any number.
Run `ViewTimeout`: `EndIsShown` fails, as the client knows no event `timeout`.

`ViewProofs!ViewShownAsStored`, for any runs with sub-runs, steps, tries, pieces of text and tools.
`ViewInv` says what a step of a view knows, cell by cell, of its run and of the rows:

* its text is that of its row, and before there is one it is empty but for what the attempt under way has
  shown, which the ledger and a history do not have (`TextFits`);
* a call with a result has one card with its status, or none when it was given up before it began; a call
  under way has one card, which the index knows; a call that is due has none (`CardFits`);
* what the rows of a run are: each step has one row with its calls and then one with their results, but
  for the step the run is in and runs that were cut off (`RowsFit`);
* all this holds of the view, of the ledger and of the histories that are on their way, for each run
  that is not torn in it (`Claims`).

A step that is over has its row and its results, so that two views of which this holds agree on it
(`FinishedSame`), and settling, in a replay or at an end, changes nothing they say. That a history
fits (`HistoryStores`) is an induction over the rows, along the recursive function `HistoryView` is. With
`ViewInv` as it stood first, without `torn`, the induction failed at `SyncAnswered`; TLC then showed the loss on a
larger instance, which the smaller one had hidden.

Assumed: a sub-run has no sub-runs of its own (`ViewAssumption`), and calls that begin or end at once are one
event. Left out: thoughts, messages of the user, compaction, lists of things to do, plans and
steering, which add entries of their own.

## 15. McpClient, Bundles and Audit

**McpClient** is one stdio server of the manager. `mutex`, `pos` and `purpose` are the caller
that holds the client and where it is (`Lock`, `KillProcess`, `BreakAwaited`, `Spawn`, `StartPump`,
`Register`, `WriteRequest`, `SettleResult`, `Expire`, `GiveUp`: `ensureStartedLocked`, `startLocked`, `stopLocked` and
`roundTripLockedTimeout`), `awaited` and `channels` are `c.pending`, `exited`,
`unanswered` and `lines` the child processes, `pumps` the goroutine of each generation, which
reads the fields of the client without the mutex: each of its reads is a step, and what two
pumps at one reader get is a choice. `AnswerIsOwn`: what a request gets is an answer of the
process it was sent to, or the end of that process; never a late answer to another request, nor the end of a
process that was replaced. Part "mcp": 2 callers, 2 processes, 5 requests, a limit of 2
time-outs. Two processes and two pumps are what a restart makes; 5 requests let a late answer
meet the request of the next process. A write to the child is assumed not to block. The HTTP and
SDK clients, the synchronisation of the registry and `ConnectServer` are left out.

`ServicesProofs!AnswerIsOwnAlways`, for any callers, processes and requests: `AnswersInv`
says where the id of the present request cannot be (`IdsPlaced`: in no other process, its
lines, or the hands of a pump that reads them), what its channel holds (`ChannelRight`), and that
the pump started last reads the process of its generation (`PumpsRight`). Requests are
numbered up to a bound, a guard of `Register`.

**Bundles**: `registry` the rows of agents, skills and servers, `bundles` and `lists` the bundles and what each
wrote over, `job` the request at work, statement by statement (`WriteRow`, `ClearList`, `Apply`,
`Record`, `Complete`, `RollBack`, `RolledBack`), `Stop` and `ApplyFails` a process that stops and a
statement that fails, `Edit` the user, who is assumed to leave the resources of installed bundles
alone. `own` and `spoilt` are history variables. `UsersStateReturns`: a resource that no
bundle has is what its user last made it, however bundles were installed, installed again, cut
off and rolled back; excepted are setbacks in two gaps the code does not make good and
bundles removed out of order. Part "bundle": 2 bundles, a skill and a server, 4 texts, 4 requests, 1
setback: two bundles of the same resource and a setback in the middle of either. Administrators are taken one
after the other. The entries of a list carry the ascending id of their table; `RollBack` takes the entry of the
highest id, as `ListBundleResourcesByBundleID` orders them.

`ServicesProofs!UsersStateReturnsHolds`, for any agents, skills, servers, bundles and any number of
requests and setbacks. `BundleInv` says where a request is and that ids ascend (`BundleBase`)
and, while nothing is spoilt (`Returning`): a bundle has one entry for a resource (`OneEach`); of the entries that will
be undone, the first of a resource found what the user made (`FirstFound`), as a resource without such an
entry is what the user made (`BareOwn`); nothing lies over the bundle at work, and what is rolled back is as it was
(`AtWork`). The property alone is about idle moments; `FirstFound` is what carries it through
bundles on top of each other. The attempt showed that `MaxTexts = 0` must be excluded: the rows that are there at the start
have the first text.

**Audit** is the batcher of the MCP gateway's audit log: callers leave records in a bounded
queue (`SubmitAudit`; a full queue or a closed writer drops them), one collector makes batches by
size or by time (`Collect`, `Tick`), gives them to workers or, when all are busy, writes them
itself (`WorkerWrites`, `CollectorWrites`), and a close drains the queue (`SeeStop`, `Drained`,
`Closed`). `AuditSettles` (in `WorkEnds`): time and again all that was accepted is written, each
record once, and no close is left waiting. Part "audit" of `Liveness`: 4 records, a queue of 2,
batches of 2, 1 worker: the queue is full, a batch is full or cut by the timer, all workers are
busy. Fairness: the goroutines go on. A panic inside a batch and a start after a close are left
out.

## 16. Gaps and limits

Each is a behaviour of a model or was met while the code was read for one; the
main ones are hazards in `PROJECT.json`. First those of sections 3 to 6.

* A payload drained by one connection that meets a run of another is admitted
  as a new row, while the row it came from stays queued: the user's input is
  delivered twice (`CreateAdmits` with `promote # 0`): with two connections
  `DeliveredOnce` fails.
* A guide that one connection settles into the queue after another has read the head
  is overtaken by it: with two connections `FirstInFirstOut` fails.
* When the drained head is deleted between its read and its claim, the creation is
  rolled back, `run` returns, and the rows behind it wait for the next run
  (`CreateRollback`).
* An input queued after the last look at the queue waits for the next run.
* A message delivered between the second look at the channel and the removal of
  the waiter is lost to the timeout.
* The pump of a finished run goes on reading next to the pump of the run that the
  automatic drain started.
* An answer routed with an old snapshot of the waiters is buffered after its waiter
  looked at the buffer, and waits there for nobody (`Route`, then `Buffer`).
* A rollback may be the last to leave an entry that another run started after the
  failure; it retires the entry and nobody takes it down, although the comment
  says there is nothing to recover (`workspace.go:302-303`). `NothingLeft` therefore
  excludes failed starts.
* `Cancel` overwrites the terminal state of a run that ended after it was read,
  possibly next to the run that followed it: with cancels `OneActiveRun` fails.
* A guide whose admission read the run as active and commits after its settlement
  is discarded by the next run.
* A cancel while the plan is written ends it as FAILED (`DraftFails`): only errors
  of the executor are looked at for a cancellation.
* A plan that was cancelled may become SUCCEEDED or FAILED: an executor, or a
  resume that is on its way, writes over it without looking.
* A retry that comes before the failed executor is through with `failExecution`
  finds its plan FAILED again: it cannot claim its step and asks for it without
  end (`Loop`, `ClaimConflict`), or it closes the plan with cancelled steps.
* A skip of a FAILED step does not bring back the steps that the failure
  cancelled, as a retry does; the plan is closed as SUCCEEDED without them.
* A plan whose view cannot be sent after the planner or after an answer stays
  RUNNING with nobody at work (`ShowFails`).
* A second resume that fails unregisters the cancel function of the first.
* The tool copies of an app are removed after the mutex, possibly after another
  run of the app registered them again (`Clean` after `Sync`).

Stated in a module, and not ensured by the code (TLC finds each of them violated on the
instances above when it is asked):

* `NumbersUnique`, `Announced`, `TokensClosed` (`Delegation`): a notice or a message to a
  sub-run takes its number without the session lock (`delegate.go:398`,
  `send_message.go:134`); a parent that waits for its client when a sub-run ends is not
  told; a sub-run in the background that ends after its parent is charged to the parent,
  whose own charge was already passed on (the comment at `delegate.go:217`).
* `EntriesMatch` (`Workflows`): with two edits under way memory and database may differ,
  although the comment says they do not (`manager.go:18-19`).
* `RunReachable` (`Gateway`): the registered adapter may not be that of the run active in the
  session of the chat.
* `RemovedIsStopped`, `OneReader` (`McpClient`): a call that took the client before its removal
  starts the server again (`client.go:256-262`, `manager.go:365-374`); an old pump
  that looks at `c.stdout` after a restart reads next to the new one, or from nil (`client.go:405-408`).
* `NoHalfInstallation`, `WholeRowReturns` (`Bundles`): what was applied and not recorded stays
  (`bundle.go:85`); `read_only` of an agent is not written back (`bundle.go:202-230`,
  `docs/system/bundle.md:81`).
* That all of a run's context survives does not hold with two compactions in one run: the second may cover a
  guide or a text that was stored before the first summary and is still in memory after it
  (`runtime_support.go:532-548`, `engine.go:806-835`; `docs/memory.md:252` takes the recorded interval
  for exactly what was compacted). `ContextSurvives` states this exception and that it is the only one.

Behaviours of the later models:

* `Conversation`: a step that takes in a guide after a text stores the text but does not
  append it to its own context (`engine.go:204-213`, the comment at :65); the serial path
  returns no error after an interruption.
* `Workflows`: a deleted workflow's pending run is marked skipped and still runs; two
  breakers may notify twice; the start of a second instance expires the rows of the
  first; two flows that fire together may skip each other.
* `AsyncTasks`: a claim by id with a limit may starve the last rows; the list reads two
  statements.
* `Gateway`: a reply answers whatever question is pending when it is read; a time-out leaves
  the question pending, so that the next message is swallowed.
* `WebClient`: a request that is sent again and lost again before its first event leaves
  the view recovering; a new request during a recovery may be followed by a
  continuation; a lookup on its way may continue a run the user stopped; a message on a new
  connection while the old run works is taken into that run, whose events go to the old
  connection.
* `EventView`: several thoughts of a step are joined in the history and overwritten live; calls given up
  before they began, and ends of sub-runs that were cut off, are only in the history; events of a sub-run after the
  end of its outer run set the view to running, after which answers of the server are dropped.
* `McpClient`: a stop waits for the mutex, so that a request on its way is not failed at once; the end
  of an old process may be taken for that of the new one before its generation is counted.
* `Bundles`: a crash between the revival of a bundle and the clearing of its list leaves an
  installed bundle with a list that was rolled back; an uninstallation stops at a server that cannot be
  reached; two administrators are not kept apart.

### What is proved and what is model-checked

The theorems of sections 3 to 15 hold for every value of the constants under the
assumptions of their modules. All invariants that the runs check are among them, and
so are the action properties and the refinement `LedgerSpec`. Checked by TLC alone, on the instances
above:

* all liveness (`LiveRunsEnd`, `LiveQueueDrains`, `WorkEnds`): neither fairness nor ENABLED is within
  the reach of this proof system;
* `OneActiveRun`, `FirstInFirstOut` and `DeliveredOnce` outside the hypotheses of their
  theorems (section 3): TLC violates the first with cancels, and the other two with two connections;
* the properties of the runs that expect a violation.

What a recursive function gives for every input needs an induction over data. The library's induction rules take an
operator as a parameter, which the provers cannot instantiate; where it is needed it is done with sets: the numbers for
which a fact holds contain 0 and, with each number, the next one, hence all (`NatInducts`, which follows
from the well-foundedness of the order). `Load`, `HistoryView` and the sum of the tokens are
followed in this way.

The assumptions about the constants are in the modules, each named, and TLC evaluates them. Most say that bounds are
natural numbers. Those a proof asked for: a failover group is a sequence of different models
(`ModelRoundAssumption`), there is at least one connection (`WebAssumption`), chats and runs are finitely many,
a task is reported on at least once (`AsyncTasksAssumption`), a sub-run of the view has no sub-runs
(`ViewAssumption`).

### Not modelled

`components` in `PROJECT.json` gives each reason. More than half of the repository is
code without a control of its own: tables with their statements (`models`,
administration services, registries of skills, agents and tools), HTTP controllers that
bind requests, the conversion of requests and streams between providers (`api/llm`), user
interface (React components, styles), configuration and logging. Their data does not decide what the
modelled components do beyond the choices the modules make for them. This is why the map covers a
small share of all lines and most of those that coordinate.
