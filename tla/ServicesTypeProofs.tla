------------------------- MODULE ServicesTypeProofs -------------------------
(***************************************************************************)
(* The types of the components around the engine, one after the other, and *)
(* of MCServices, which puts them side by side: there each of them runs as *)
(* it does alone.                                                          *)
(*                                                                         *)
(* What a type says of a number or of a reference is seldom inductive: the *)
(* lemmas take what they need from the invariants of ServicesProofs and    *)
(* ConversationProofs and add the bounds that those do not speak of.       *)
(***************************************************************************)
EXTENDS ServicesProofs

(* The definitions, the rows and the entries of the workflows stay what    *)
(* they are: no row is of a flow that does not exist, and the scheduler has *)
(* entries for flows alone.                                                *)
LEMMA FlowsTypesHold == FlowsSpec => []FlowsTypeOK
<1> DEFINE Placed == entries \subseteq Flows /\ process \in {"up", "stopping", "down"}
<1>1. FlowsInit => HistoryInv /\ Placed
  BY HistoryBegins DEF FlowsInit
<1>2. HistoryInv /\ Placed /\ [FlowsNext]_flowVars => (HistoryInv /\ Placed)'
  <2> SUFFICES ASSUME HistoryInv, Placed, [FlowsNext]_flowVars PROVE Placed'
    BY HistoryStep, WorkflowsAssumption
  <2>1. ASSUME NEW f \in Flows, Fire(f) \/ Dispatch(f) PROVE Placed'
    BY <2>1 DEF Fire, Dispatch
  <2>2. ASSUME NEW r \in FlowRuns, RunStep(r) PROVE Placed'
    BY <2>2 DEF RunStep, PassGate, SkipRun, BeginRun, EndRun, CheckBreaker, TripBreaker, UnhookTripped, Removed
  <2>3. ASSUME NEW e \in Editors, EditStep(e) PROVE Placed'
    <3>1. edits[e].pc = "register" => edits[e].flow \in Flows
      BY DEF HistoryInv, EditsPlaced
    <3>2. CASE SyncRegister(e)
      BY <3>1, <3>2 DEF SyncRegister, Removed
    <3> QED BY <2>3, <3>2 DEF EditStep, ReadDefinition, WriteDefinition, DeleteDefinition, SkipPending, SyncRemove, Removed
  <2>4. CASE StopScheduler \/ ProcessEnds \/ StartScheduler
    BY <2>4 DEF StopScheduler, ProcessEnds, StartScheduler
  <2> QED BY <2>1, <2>2, <2>3, <2>4 DEF FlowsNext, flowVars
<1>3. HistoryInv /\ Placed => FlowsTypeOK
  BY DEF HistoryInv, FlowsTyped, FlowRow, FlowStatuses, FlowPlaces, FlowsTypeOK
<1> QED BY <1>1, <1>2, <1>3, PTL DEF FlowsSpec

(* Who holds the client is one of its callers, and the time-outs of a      *)
(* process do not outnumber their limit.                                   *)
ManagerTyped ==
    /\ listing \in {"new", "listed", "gone"}
    /\ ops \in [Callers -> {"none", "start", "call", "remove"}]
    /\ mutex \in Callers \cup {NoCaller}
    /\ pos \in {"none", "restarting", "clearing", "spawning", "numbering", "asking", "writing",
                "waiting", "leaving", "stopping", "stopped"}
    /\ purpose \in {"handshake", "call"}
    /\ readBroken \in BOOLEAN /\ panicked \in BOOLEAN
TimeoutsCounted ==
    /\ timeouts \in 0..TimeoutLimit
    /\ timeouts = TimeoutLimit => pos \in {"stopping", "stopped"} \/ cmd = 0

LEMMA ManagerTypedStep == ManagerTyped /\ [McpNext]_mcpVars => ManagerTyped'
<1> SUFFICES ASSUME ManagerTyped, [McpNext]_mcpVars PROVE ManagerTyped'
  OBVIOUS
<1> USE DEF ManagerTyped
<1>1. \A well \in BOOLEAN : LetGo(well) /\ UNCHANGED <<readBroken, panicked>> /\ purpose' \in {"handshake", "call"} => ManagerTyped'
  BY DEF LetGo
<1>2. CASE UNCHANGED mcpVars
  BY <1>2 DEF mcpVars
<1>3. ASSUME NEW c \in Callers, Take(c) PROVE ManagerTyped'
  BY <1>3 DEF Take
<1>4. ASSUME NEW c \in Callers, Lock(c) PROVE ManagerTyped'
  BY <1>4 DEF Lock
<1>5. CASE KillProcess
  BY <1>5 DEF KillProcess, Proceed
<1>6. CASE ClearProcess
  BY <1>1, <1>6 DEF ClearProcess, Proceed
<1>7. CASE Spawn
  <2>1. CASE LetGo(FALSE) /\ UNCHANGED <<cmd, readBroken, timeouts>>
    BY <1>1, <1>7, <2>1 DEF Spawn
  <2>2. CASE readBroken' = FALSE /\ Proceed("numbering")
    BY <1>7, <2>2 DEF Spawn, Proceed
  <2> QED BY <1>7, <2>1, <2>2 DEF Spawn
<1>8. CASE StartPump
  BY <1>8 DEF StartPump, Proceed
<1>9. Fail /\ UNCHANGED <<readBroken, panicked, purpose>> => ManagerTyped'
  BY <1>1 DEF Fail, Proceed
<1>10. CASE Register
  <2>1. CASE readBroken
    BY <1>9, <1>10, <2>1 DEF Register
  <2>2. CASE ~readBroken
    BY <1>10, <2>2 DEF Register, Proceed
  <2> QED BY <2>1, <2>2
<1>11. CASE WriteRequest
  <2>1. CASE cmd \in exited
    BY <1>9, <1>11, <2>1 DEF WriteRequest
  <2>2. CASE cmd \notin exited
    BY <1>11, <2>2 DEF WriteRequest, Proceed
  <2> QED BY <2>1, <2>2
<1>12. CASE SettleResult
  <2>1. CASE Fail /\ UNCHANGED purpose
    BY <1>9, <1>12, <2>1 DEF SettleResult
  <2>2. CASE purpose' = "call" /\ Proceed("asking")
    BY <1>12, <2>2 DEF SettleResult, Proceed
  <2>3. CASE LetGo(TRUE) /\ UNCHANGED purpose
    BY <1>1, <1>12, <2>3 DEF SettleResult
  <2> QED BY <1>12, <2>1, <2>2, <2>3 DEF SettleResult
<1>13. CASE Expire
  BY <1>13 DEF Expire, Proceed
<1>14. CASE GiveUp
  <2>1. CASE timeouts' >= TimeoutLimit
    BY <1>14, <2>1 DEF GiveUp, Proceed
  <2>2. CASE ~(timeouts' >= TimeoutLimit)
    BY <1>9, <1>14, <2>2 DEF GiveUp
  <2> QED BY <2>1, <2>2
<1>15. ASSUME NEW p \in Processes, Answer(p) \/ Die(p) PROVE ManagerTyped'
  BY <1>15 DEF Answer, Die, callVars
<1>16. ASSUME NEW g \in Generations, Pump(g) PROVE ManagerTyped'
  <2>1. UNCHANGED callVars /\ readBroken' \in {readBroken, TRUE} /\ panicked' \in {panicked, TRUE}
    BY <1>16 DEF Pump, TurnToOutput, ReadLine, ReadEnd, Sort, SendReply, PumpBroken
  <2> QED BY <2>1 DEF callVars
<1> QED BY <1>2, <1>3, <1>4, <1>5, <1>6, <1>7, <1>8, <1>10, <1>11, <1>12, <1>13, <1>14, <1>15, <1>16 DEF McpNext

LEMMA TimeoutsStep == AnswersInv /\ TimeoutsCounted /\ [McpNext]_mcpVars => TimeoutsCounted'
<1> SUFFICES ASSUME AnswersInv, TimeoutsCounted, [McpNext]_mcpVars PROVE TimeoutsCounted'
  OBVIOUS
<1> USE McpAssumption DEF TimeoutsCounted
<1>1. /\ cmd \in Nat /\ generation \in Nat
      /\ pos \in {"asking", "writing", "waiting", "leaving"} => cmd # 0
      /\ pos = "numbering" => cmd = generation + 1
  BY DEF AnswersInv, ClientTyped, ProcessCounted
<1>2. CASE UNCHANGED <<timeouts, cmd>> /\ (pos' = pos \/ pos \notin {"stopping", "stopped"})
  BY <1>2
<1>3. CASE KillProcess
  BY <1>3 DEF KillProcess, Proceed
<1>4. CASE ClearProcess
  BY <1>4 DEF ClearProcess
<1>5. CASE Spawn
  <2>1. pos = "spawning" /\ (timeouts' = 0 \/ UNCHANGED <<cmd, timeouts>>)
    BY <1>5 DEF Spawn
  <2> QED BY <2>1
<1>6. CASE SettleResult
  BY <1>6 DEF SettleResult
<1>7. CASE GiveUp
  <2>1. cmd # 0 /\ timeouts # TimeoutLimit
    BY <1>1, <1>7 DEF GiveUp
  <2>2. timeouts' = timeouts + 1 /\ (timeouts' >= TimeoutLimit => pos' = "stopping")
    BY <1>7 DEF GiveUp, Proceed
  <2> QED BY <2>1, <2>2
<1>8. ASSUME NEW c \in Callers, Take(c) \/ Lock(c) PROVE TimeoutsCounted'
  <2>1. mutex = NoCaller => pos = "none"
    BY DEF AnswersInv, MutexHeld
  <2> QED BY <1>2, <1>8, <2>1 DEF Take, Lock
<1>9. CASE StartPump \/ Register \/ WriteRequest \/ Expire
  BY <1>2, <1>9 DEF StartPump, Register, WriteRequest, Expire
<1>10. ASSUME NEW p \in Processes, Answer(p) \/ Die(p) PROVE TimeoutsCounted'
  BY <1>2, <1>10 DEF Answer, Die, callVars
<1>11. ASSUME NEW g \in Generations, Pump(g) PROVE TimeoutsCounted'
  BY <1>2, <1>11 DEF Pump, TurnToOutput, ReadLine, ReadEnd, Sort, SendReply, PumpBroken, callVars
<1> QED BY <1>2, <1>3, <1>4, <1>5, <1>6, <1>7, <1>8, <1>9, <1>10, <1>11 DEF McpNext, mcpVars

LEMMA McpTypesHold == McpSpec => []McpTypeOK
<1>1. McpInit => ManagerTyped /\ TimeoutsCounted
  <2> SUFFICES ASSUME McpInit PROVE ManagerTyped /\ TimeoutsCounted
    OBVIOUS
  <2>1. ManagerTyped
    BY DEF McpInit, ManagerTyped
  <2>2. TimeoutsCounted
    BY McpAssumption DEF McpInit, TimeoutsCounted
  <2> QED BY <2>1, <2>2
<1>2. AnswersInv /\ ManagerTyped /\ TimeoutsCounted => McpTypeOK
  <2>1. 0..MaxProcesses = {0} \cup Processes /\ 0..MaxProcesses = {0} \cup Generations /\ 0..MaxIds = {0} \cup Ids
    BY McpAssumption DEF Processes, Generations, Ids
  <2> QED BY <2>1 DEF AnswersInv, ClientTyped, ManagerTyped, TimeoutsCounted, McpTypeOK, PumpPlaces
<1> QED BY <1>1, <1>2, AnswersHold, ManagerTypedStep, TimeoutsStep, PTL DEF McpSpec

LEMMA BundleTypesHold == BundleSpec => []BundleTypeOK
<1> DEFINE InBounds == /\ spoilt \subseteq {"unrecorded", "uncleared", "order"}
                      /\ served \in 0..MaxServed /\ setbacks \in 0..MaxSetbacks
<1>1. BundleInit => InBounds
  BY BundleAssumption DEF BundleInit
<1>2. InBounds /\ [BundleNext]_bundleVars => InBounds'
  <2> SUFFICES ASSUME InBounds, [BundleNext]_bundleVars PROVE InBounds'
    OBVIOUS
  <2>1. CASE UNCHANGED <<spoilt, served, setbacks>>
    BY <2>1
  <2>2. ASSUME NEW b \in BundleNames, Begin(b) PROVE InBounds'
    BY <2>2, BundleAssumption DEF Begin
  <2>3. CASE Setback
    BY <2>3, BundleAssumption DEF Setback
  <2> QED BY <2>1, <2>2, <2>3 DEF BundleNext, bundleVars, Edit, Install, Uninstall, RollBack, RolledBack, WriteRow, ClearList,
        Apply, Record, Complete, Stop, ApplyFails
<1>3. BundleInv /\ InBounds => BundleTypeOK
  BY DEF BundleInv, BundleBase, BundleShape, JobRow, JobPlaces, BundleTypeOK
<1> QED BY <1>1, <1>2, <1>3, BundleInvInit, BundleInvStep, PTL DEF BundleSpec
-----------------------------------------------------------------------------
(* Asynchronous tasks: the types (module AsyncTasks)                       *)

(* What is put together from pieces of one element at most is no longer    *)
(* than there are pieces.                                                  *)
LEMMA FlatTyped ==
    ASSUME NEW S, NEW ps \in Seq(Seq(S)), \A n \in 1..Len(ps) : Len(ps[n]) <= 1
    PROVE  FlattenSeq(ps) \in Seq(S) /\ Len(FlattenSeq(ps)) <= Len(ps)
<1>1. CASE Len(ps) = 0
  <2>1. ps = <<>>
    BY <1>1
  <2> QED BY <2>1 DEF FlattenSeq
<1>2. CASE Len(ps) # 0
  <2>1. PICK F : FlattensTo(ps, F, Len(ps)) /\ FlattenSeq(ps) = F[Len(ps)]
    BY <1>2, Flattened
  <2>2. \A i \in 1..Len(ps) : F[i] = IF i = 1 THEN ps[i] ELSE F[i-1] \o ps[i]
    BY <2>1 DEF FlattensTo
  <2> DEFINE T == {n \in Nat : n \in 1..Len(ps) => F[n] \in Seq(S) /\ Len(F[n]) <= n}
  <2>3. 0 \in T
    OBVIOUS
  <2>4. ASSUME NEW n \in Nat, n \in T PROVE n + 1 \in T
    <3>1. SUFFICES ASSUME n + 1 \in 1..Len(ps) PROVE F[n+1] \in Seq(S) /\ Len(F[n+1]) <= n + 1
      OBVIOUS
    <3>2. PICK piece : piece = ps[n+1]
      OBVIOUS
    <3>3. piece \in Seq(S) /\ Len(piece) <= 1
      BY <3>1, <3>2
    <3>4. CASE n = 0
      BY <2>2, <3>1, <3>2, <3>3, <3>4
    <3>5. CASE n # 0
      <4>1. n \in 1..Len(ps) /\ (n + 1) - 1 = n /\ n + 1 # 1
        BY <3>1, <3>5
      <4>2. PICK before : before = F[n]
        OBVIOUS
      <4>3. before \in Seq(S) /\ Len(before) <= n
        BY <2>4, <4>1, <4>2
      <4>4. F[n+1] = before \o piece
        BY <2>2, <3>1, <3>2, <4>1, <4>2
      <4>5. before \o piece \in Seq(S) /\ Len(before \o piece) = Len(before) + Len(piece)
        BY <3>3, <4>3
      <4> QED BY <3>3, <4>3, <4>4, <4>5
    <3> QED BY <3>4, <3>5
  <2>5. Nat \subseteq T
    <3> HIDE DEF T
    <3> QED BY <2>3, <2>4, NatInducts
  <2>6. Len(ps) \in T /\ Len(ps) \in 1..Len(ps)
    <3>1. Len(ps) \in Nat
      OBVIOUS
    <3> HIDE DEF T
    <3> QED BY <1>2, <2>5, <3>1
  <2> QED BY <2>1, <2>6
<1> QED BY <1>1, <1>2

LEMMA WithoutTyped ==
    ASSUME NEW S, NEW s \in Seq(S), NEW t
    PROVE  Without(s, t) \in Seq(S) /\ Len(Without(s, t)) <= Len(s)
<1> DEFINE piece(i) == IF s[i] = t THEN <<>> ELSE <<s[i]>>
           ps == [i \in 1..Len(s) |-> piece(i)]
<1>1. Len(s) \in Nat /\ \A i \in 1..Len(s) : piece(i) \in Seq(S) /\ Len(piece(i)) <= 1
  OBVIOUS
<1>2. Without(s, t) = FlattenSeq(ps)
  BY DEF Without
<1> HIDE DEF piece
<1>3. ps \in Seq(Seq(S)) /\ Len(ps) = Len(s) /\ \A i \in 1..Len(s) : Len(ps[i]) <= 1
  BY <1>1
<1> HIDE DEF ps
<1> QED BY <1>2, <1>3, FlatTyped

LEMMA ByIdTyped == ASSUME NEW S PROVE ById(S) \in Seq(Tasks)
<1> DEFINE piece(t) == IF t \in S THEN <<t>> ELSE <<>>
           ps == [t \in Tasks |-> piece(t)]
<1>1. \A t \in Tasks : piece(t) \in Seq(Tasks) /\ Len(piece(t)) <= 1
  OBVIOUS
<1>2. ById(S) = FlattenSeq(ps)
  BY DEF ById
<1> HIDE DEF piece
<1>3. ps \in Seq(Seq(Tasks)) /\ Len(ps) = NumTasks /\ \A i \in 1..NumTasks : Len(ps[i]) <= 1
  BY <1>1, AsyncTasksAssumption DEF Tasks
<1> HIDE DEF ps
<1> QED BY <1>2, <1>3, FlatTyped

LEMMA CutTyped ==
    ASSUME NEW S, NEW s \in Seq(S), NEW n \in Nat
    PROVE  SubSeq(s, 1, Min({n, Len(s)})) \in Seq(S) /\ Len(SubSeq(s, 1, Min({n, Len(s)}))) <= n
<1>1. Len(s) \in Nat
  OBVIOUS
<1>2. Min({n, Len(s)}) = IF n <= Len(s) THEN n ELSE Len(s)
  BY <1>1 DEF Min
<1>3. PICK m \in 0..Len(s) : m = Min({n, Len(s)}) /\ m <= n
  BY <1>1, <1>2
<1>4. SubSeq(s, 1, m) \in Seq(S) /\ Len(SubSeq(s, 1, m)) = m
  <2>1. m \in Int /\ \A i \in 1..m : s[i] \in S
    BY <1>1
  <2>2. SubSeq(s, 1, m) \in Seq(S) /\ Len(SubSeq(s, 1, m)) = IF 1 <= m THEN m - 1 + 1 ELSE 0
    BY <2>1, SubSeqProperties
  <2> QED BY <2>1, <2>2
<1> QED BY <1>3, <1>4

LEMMA CutRowsTyped ==
    ASSUME NEW S, NEW n \in Nat
    PROVE  FirstRows(S, n) \in Seq(Tasks) /\ LastRows(S, n) \in Seq(Tasks) /\ Len(FirstRows(S, n)) <= n
<1>1. PICK s : s = ById(S)
  OBVIOUS
<1>2. s \in Seq(Tasks) /\ Len(s) \in Nat
  BY <1>1, ByIdTyped
<1>3. PICK r : r = Reverse(s)
  OBVIOUS
<1>4. r \in Seq(Tasks) /\ Len(r) = Len(s)
  <2>1. r = [i \in 1..Len(s) |-> s[(Len(s) - i) + 1]]
    BY <1>3 DEF Reverse
  <2>2. \A i \in 1..Len(s) : s[(Len(s) - i) + 1] \in Tasks
    <3> SUFFICES ASSUME NEW i \in 1..Len(s) PROVE s[(Len(s) - i) + 1] \in Tasks
      OBVIOUS
    <3>1. (Len(s) - i) + 1 \in 1..Len(s)
      BY <1>2
    <3> QED BY <1>2, <3>1
  <2> QED BY <1>2, <2>1, <2>2
<1>5. /\ FirstRows(S, n) = SubSeq(s, 1, Min({n, Len(s)}))
      /\ LastRows(S, n) = SubSeq(r, 1, Min({n, Len(r)}))
  BY <1>1, <1>3, <1>4 DEF FirstRows, LastRows
<1> QED BY <1>2, <1>4, <1>5, CutTyped

JobStatuses == Ended \cup {"processing"}
TaskRow ==
    [ state : {"absent", "called", "lost", "pending", "resolved", "expired"},
      exec : Ended \cup {NotKnown, "processing"},
      event : 0..MaxReports, seq : 0..MaxReports, at : 0..MaxReports,
      owner : Owners \cup {Nobody}, leased : BOOLEAN,
      due : BOOLEAN, stale : BOOLEAN, aged : BOOLEAN ]
LookRow == [task : {0} \cup Tasks, status : JobStatuses, event : {0}, seq : {0}, at : 0..MaxReports]

TasksTyped ==
    /\ tasks \in [Tasks -> TaskRow]
    /\ jobs \in [Keys -> Seq(JobStatuses)] /\ \A k \in Keys : Len(jobs[k]) <= MaxReports
    /\ held \in [Owners -> SUBSET Tasks] /\ look \in [Owners -> LookRow]
    /\ \A w \in Owners : look[w].task \in {0} \cup held[w]

(* A row that was called for has a job, and who holds a row holds one.     *)
JobsThere ==
    /\ \A t \in Tasks : tasks[t].state # "absent" => jobs[KeyOf[t]] # <<>>
    /\ \A w \in Owners : \A t \in held[w] : tasks[t].state # "absent"

RunListsTyped ==
    /\ reminded \in Seq(Tasks) /\ Len(reminded) <= ReminderLimit /\ hasMore \in BOOLEAN
    /\ list \in [pc : {"idle", "page"}, cursor : Nat, got : Seq(Tasks), shown : Seq(Tasks), ready : SUBSET Tasks]

LEMMA TaskKeys == \A t \in Tasks : KeyOf[t] \in Keys
  BY DEF Keys

LEMMA ExpiredTyped ==
    ASSUME tasks \in [Tasks -> TaskRow]
    PROVE  /\ Expired(tasks) \in [Tasks -> TaskRow]
           /\ \A t \in Tasks : Expired(tasks)[t].state = "absent" <=> tasks[t].state = "absent"
  BY DEF Expired, TaskRow

LEMMA ObservedTyped ==
    ASSUME NEW row \in TaskRow, NEW o, o.status \in JobStatuses, o.event \in 0..MaxReports,
           o.seq \in 0..MaxReports, o.at \in 0..MaxReports
    PROVE  Observed(row, o) \in TaskRow /\ Observed(row, o).state = row.state
<1>1. PICK status \in JobStatuses, event \in 0..MaxReports, seq \in 0..MaxReports, at \in 0..MaxReports :
        /\ status = o.status /\ at = o.at
        /\ event = IF o.event # 0 THEN o.event ELSE row.event
        /\ seq = IF o.seq > 0 THEN o.seq ELSE row.seq
  BY DEF TaskRow
<1>2. PICK due \in BOOLEAN : due = IF o.status \in Ended THEN TRUE ELSE row.due
  BY DEF TaskRow
<1>3. Observed(row, o) = [row EXCEPT !.exec = status, !.at = at, !.stale = FALSE, !.event = event, !.seq = seq, !.due = due,
                                     !.owner = Nobody, !.leased = FALSE]
  BY <1>1, <1>2 DEF Observed, TaskRow
<1>4. Observed(row, o) =
        [ state |-> row.state, exec |-> status, event |-> event, seq |-> seq, at |-> at, owner |-> Nobody,
          leased |-> FALSE, due |-> due, stale |-> FALSE, aged |-> row.aged ]
  BY <1>3 DEF TaskRow
<1>5. row.state \in {"absent", "called", "lost", "pending", "resolved", "expired"} /\ row.aged \in BOOLEAN
  BY DEF TaskRow
<1> QED BY <1>4, <1>5 DEF TaskRow, JobStatuses

(* What a step may do to the rows.                                         *)
RowsGo ==
    /\ tasks' \in [Tasks -> TaskRow]
    /\ \A t \in Tasks : tasks'[t].state = "absent" <=> tasks[t].state = "absent"

LEMMA EmitTyped ==
    ASSUME tasks \in [Tasks -> TaskRow], NEW k, NEW o, o.status \in JobStatuses, o.event \in 0..MaxReports,
           o.seq \in 0..MaxReports, o.at \in 0..MaxReports, Emit(k, o)
    PROVE  RowsGo
<1>1. ASSUME NEW t \in Tasks PROVE tasks'[t] \in TaskRow /\ (tasks'[t].state = tasks[t].state)
  <2>1. tasks'[t] = Observed(tasks[t], o) \/ tasks'[t] = tasks[t]
    BY DEF Emit
  <2>2. tasks[t] \in TaskRow
    OBVIOUS
  <2> QED BY <2>1, <2>2, ObservedTyped
<1>2. tasks' = [t \in Tasks |-> tasks'[t]]
  BY DEF Emit
<1> QED BY <1>1, <1>2 DEF RowsGo

LEMMA OneRowGoes ==
    ASSUME tasks \in [Tasks -> TaskRow], NEW t \in Tasks, NEW row \in TaskRow, row.state = "absent" <=> tasks[t].state = "absent",
           tasks' = [tasks EXCEPT ![t] = row]
    PROVE  RowsGo
  BY DEF RowsGo

LEMMA NoRowGoes == tasks \in [Tasks -> TaskRow] /\ UNCHANGED tasks => RowsGo
  BY DEF RowsGo

(* The types of a step that calls for no row.                              *)
LEMMA TypedOnward ==
    ASSUME TasksTyped, JobsThere, RowsGo, UNCHANGED jobs,
           held' \in [Owners -> SUBSET Tasks], look' \in [Owners -> LookRow],
           \A w \in Owners : look'[w].task \in {0} \cup held'[w],
           \A w \in Owners : \A t \in held'[w] : tasks[t].state # "absent"
    PROVE  TasksTyped' /\ JobsThere'
<1>1. TasksTyped'
  BY DEF TasksTyped, RowsGo
<1>2. JobsThere'
  BY DEF JobsThere, RowsGo, TasksTyped
<1> QED BY <1>1, <1>2

LEMMA TypedKept ==
    ASSUME TasksTyped, JobsThere, RowsGo, UNCHANGED <<jobs, held, look>>
    PROVE  TasksTyped' /\ JobsThere'
  BY TypedOnward DEF TasksTyped, JobsThere

LEMMA NoLookTyped == NoLook \in LookRow /\ NoLook.task = 0
  BY AsyncTasksAssumption DEF NoLook, LookRow, JobStatuses

LEMMA SubmitTyped ==
    ASSUME TasksTyped, JobsThere, NEW t \in Tasks, CallTool(t) \/ RecordTask(t) \/ RecordFails(t)
    PROVE  TasksTyped' /\ JobsThere'
<1>0. tasks \in [Tasks -> TaskRow] /\ tasks[t] \in TaskRow
  BY DEF TasksTyped
<1>1. CASE CallTool(t)
  <2>1. KeyOf[t] \in Keys /\ UNCHANGED <<held, look>>
    BY <1>1, TaskKeys DEF CallTool
  <2>2. tasks' \in [Tasks -> TaskRow] /\ \A u \in Tasks : u # t => tasks'[u] = tasks[u]
    BY <1>0, <1>1 DEF CallTool, TaskRow
  <2>2a. tasks'[t].state = "called"
    BY <1>0, <1>1 DEF CallTool, TaskRow
  <2>3. PICK new \in Seq(JobStatuses) : /\ jobs' = [jobs EXCEPT ![KeyOf[t]] = new] /\ new # <<>> /\ Len(new) <= MaxReports
    <3>1. CASE jobs[KeyOf[t]] = <<>>
      <4>1. <<"processing">> \in Seq(JobStatuses) /\ Len(<<"processing">>) = 1 /\ 1 <= MaxReports /\ <<"processing">> # <<>>
        BY AsyncTasksAssumption DEF JobStatuses
      <4>2. jobs' = [jobs EXCEPT ![KeyOf[t]] = <<"processing">>]
        BY <1>1, <3>1 DEF CallTool
      <4> QED BY <4>1, <4>2
    <3>2. CASE jobs[KeyOf[t]] # <<>>
      <4>1. jobs' = [jobs EXCEPT ![KeyOf[t]] = jobs[KeyOf[t]]]
        BY <1>1, <3>2 DEF CallTool
      <4> QED BY <2>1, <3>2, <4>1 DEF TasksTyped
    <3> QED BY <3>1, <3>2
  <2>4. jobs' \in [Keys -> Seq(JobStatuses)] /\ \A k \in Keys : jobs'[k] = IF k = KeyOf[t] THEN new ELSE jobs[k]
    BY <2>1, <2>3 DEF TasksTyped
  <2>5. TasksTyped'
    BY <2>1, <2>2, <2>3, <2>4 DEF TasksTyped
  <2>6. \A u \in Tasks : tasks'[u].state # "absent" => jobs'[KeyOf[u]] # <<>>
    BY <2>2, <2>3, <2>4, TaskKeys DEF JobsThere
  <2>7. \A w \in Owners : \A u \in held'[w] : tasks'[u].state # "absent"
    BY <2>1, <2>2, <2>2a DEF JobsThere, TasksTyped
  <2> QED BY <2>5, <2>6, <2>7 DEF JobsThere
<1>2. CASE RecordTask(t)
  <2>1. PICK exec \in {"processing", NotKnown} :
          tasks' = [tasks EXCEPT ![t] = [tasks[t] EXCEPT !.state = "pending", !.exec = exec]]
    BY <1>2 DEF RecordTask
  <2>2. tasks[t].state # "absent" /\ UNCHANGED <<jobs, held, look>>
    BY <1>2 DEF RecordTask
  <2>3. /\ [tasks[t] EXCEPT !.state = "pending", !.exec = exec] \in TaskRow
        /\ [tasks[t] EXCEPT !.state = "pending", !.exec = exec].state = "pending"
    BY <1>0 DEF TaskRow
  <2> QED BY <1>0, <2>1, <2>2, <2>3, OneRowGoes, TypedKept
<1>3. CASE RecordFails(t)
  <2>1. /\ tasks' = [tasks EXCEPT ![t] = [tasks[t] EXCEPT !.state = "lost"]]
        /\ tasks[t].state # "absent" /\ UNCHANGED <<jobs, held, look>>
    BY <1>3 DEF RecordFails
  <2>2. [tasks[t] EXCEPT !.state = "lost"] \in TaskRow /\ [tasks[t] EXCEPT !.state = "lost"].state = "lost"
    BY <1>0 DEF TaskRow
  <2> QED BY <1>0, <2>1, <2>2, OneRowGoes, TypedKept
<1> QED BY <1>1, <1>2, <1>3

LEMMA PassTyped ==
    ASSUME TasksTyped, JobsThere, NEW t \in Tasks,
           LeaseLapses(t) \/ SyncComesDue(t) \/ GoesStale(t) \/ GrowsOld(t) \/ ResolveTask(t)
    PROVE  TasksTyped' /\ JobsThere'
<1>0. tasks \in [Tasks -> TaskRow] /\ tasks[t] \in TaskRow
  BY DEF TasksTyped
<1>1. UNCHANGED <<jobs, held, look>>
  BY DEF LeaseLapses, SyncComesDue, GoesStale, GrowsOld, Pass, ResolveTask
<1>2. CASE ResolveTask(t)
  <2>1. tasks[t].state # "absent"
    BY <1>2 DEF ResolveTask
  <2>2. PICK row : row = [tasks[t] EXCEPT !.state = IF tasks[t].state = "pending" THEN "resolved" ELSE tasks[t].state]
    OBVIOUS
  <2>3. row \in TaskRow /\ row.state # "absent"
    BY <1>0, <2>1, <2>2 DEF TaskRow
  <2>4. tasks' = [tasks EXCEPT ![t] = row]
    BY <1>2, <2>2 DEF ResolveTask
  <2> QED BY <1>0, <1>1, <2>1, <2>3, <2>4, OneRowGoes, TypedKept
<1>3. CASE LeaseLapses(t) \/ SyncComesDue(t) \/ GoesStale(t) \/ GrowsOld(t)
  <2>1. PICK row \in { [tasks[t] EXCEPT !.leased = FALSE], [tasks[t] EXCEPT !.due = TRUE],
                       [tasks[t] EXCEPT !.stale = TRUE], [tasks[t] EXCEPT !.aged = TRUE] } :
          tasks' = [tasks EXCEPT ![t] = row]
    BY <1>3 DEF LeaseLapses, SyncComesDue, GoesStale, GrowsOld, Pass
  <2>2. row \in TaskRow /\ row.state = tasks[t].state
    BY <1>0, <2>1 DEF TaskRow
  <2> QED BY <1>0, <1>1, <2>1, <2>2, OneRowGoes, TypedKept
<1> QED BY <1>2, <1>3

LEMMA ReportTyped ==
    ASSUME TasksTyped, JobsThere, NEW k \in Keys,
           SchedulerReports(k) \/ \E n \in 1..MaxReports : DeliverEvent(k, n)
    PROVE  TasksTyped' /\ JobsThere'
<1>0. tasks \in [Tasks -> TaskRow] /\ jobs \in [Keys -> Seq(JobStatuses)] /\ jobs[k] \in Seq(JobStatuses)
      /\ Len(jobs[k]) \in 0..MaxReports
  BY DEF TasksTyped
<1>1. CASE SchedulerReports(k)
  <2>1. PICK status \in JobStatuses : jobs' = [jobs EXCEPT ![k] = Append(jobs[k], status)]
    BY <1>1 DEF SchedulerReports, JobStatuses
  <2>2. PICK new : new = Append(jobs[k], status)
    OBVIOUS
  <2>3. new \in Seq(JobStatuses) /\ new # <<>> /\ Len(new) <= MaxReports
    <3>1. new \in Seq(JobStatuses) /\ Len(new) = Len(jobs[k]) + 1
      BY <1>0, <2>2
    <3>2. Len(jobs[k]) < MaxReports
      BY <1>1 DEF SchedulerReports
    <3> QED BY <1>0, <3>1, <3>2, AsyncTasksAssumption
  <2>4. jobs' \in [Keys -> Seq(JobStatuses)] /\ \A l \in Keys : jobs'[l] = IF l = k THEN new ELSE jobs[l]
    BY <1>0, <2>1, <2>2, <2>3
  <2>5. UNCHANGED <<tasks, held, look>>
    BY <1>1 DEF SchedulerReports
  <2>6. TasksTyped'
    BY <2>3, <2>4, <2>5 DEF TasksTyped
  <2>7. JobsThere'
    BY <2>3, <2>4, <2>5, TaskKeys DEF JobsThere
  <2> QED BY <2>6, <2>7
<1>2. ASSUME NEW n \in 1..MaxReports, DeliverEvent(k, n) PROVE TasksTyped' /\ JobsThere'
  <2>1. PICK seq \in {0, n} : Emit(k, [status |-> jobs[k][n], event |-> n, seq |-> seq, at |-> n])
    BY <1>2 DEF DeliverEvent
  <2>2. n \in 1..Len(jobs[k]) /\ UNCHANGED <<jobs, held, look>>
    BY <1>2 DEF DeliverEvent
  <2>3. PICK o : o = [status |-> jobs[k][n], event |-> n, seq |-> seq, at |-> n]
    OBVIOUS
  <2>4. o.status \in JobStatuses /\ o.event \in 0..MaxReports /\ o.seq \in 0..MaxReports /\ o.at \in 0..MaxReports
    <3>1. jobs[k][n] \in JobStatuses
      BY <1>0, <2>2
    <3>2. n \in 0..MaxReports /\ seq \in 0..MaxReports
      BY AsyncTasksAssumption
    <3>3. o.status = jobs[k][n] /\ o.event = n /\ o.seq = seq /\ o.at = n
      BY <2>3
    <3> QED BY <3>1, <3>2, <3>3
  <2>5. Emit(k, o)
    BY <2>1, <2>3
  <2> QED BY <1>0, <2>2, <2>4, <2>5, EmitTyped, TypedKept
<1> QED BY <1>1, <1>2

LEMMA LeaseTyped ==
    ASSUME TasksTyped, JobsThere, ObservedInv, NEW w \in Owners,
           ClaimTasks(w) \/ ReportLook(w) \/ OwnerCrash(w) \/ \E t \in Tasks : AskScheduler(w, t) \/ GiveBack(w, t)
    PROVE  TasksTyped' /\ JobsThere'
<1>0. /\ tasks \in [Tasks -> TaskRow] /\ jobs \in [Keys -> Seq(JobStatuses)] /\ held \in [Owners -> SUBSET Tasks]
      /\ look \in [Owners -> LookRow] /\ look[w] \in LookRow
      /\ \A v \in Owners : look[v].task \in {0} \cup held[v]
      /\ \A v \in Owners : \A t \in held[v] : tasks[t].state # "absent"
      /\ \A t \in Tasks : tasks[t].state # "absent" => jobs[KeyOf[t]] # <<>>
  BY DEF TasksTyped, JobsThere
<1>1. CASE ClaimTasks(w)
  <2>1. PICK found : found = {t \in Tasks : Claimable(tasks[t])}
    OBVIOUS
  <2>2. /\ tasks' = [t \in Tasks |-> IF t \in found THEN [tasks[t] EXCEPT !.owner = w, !.leased = TRUE] ELSE tasks[t]]
        /\ held' = [held EXCEPT ![w] = found] /\ held[w] = {} /\ UNCHANGED <<jobs, look>>
    BY <1>1, <2>1 DEF ClaimTasks
  <2>3. ASSUME NEW t \in Tasks PROVE tasks'[t] \in TaskRow /\ tasks'[t].state = tasks[t].state
    <3>1. tasks[t] \in TaskRow
      BY <1>0
    <3>2. [tasks[t] EXCEPT !.owner = w, !.leased = TRUE] \in TaskRow
          /\ [tasks[t] EXCEPT !.owner = w, !.leased = TRUE].state = tasks[t].state
      BY <3>1 DEF TaskRow
    <3> QED BY <2>2, <3>1, <3>2
  <2>4. RowsGo
    BY <2>2, <2>3 DEF RowsGo
  <2>5. \A t \in found : t \in Tasks /\ tasks[t].state # "absent"
    <3> SUFFICES ASSUME NEW t \in found PROVE t \in Tasks /\ tasks[t].state # "absent"
      OBVIOUS
    <3>1. t \in Tasks /\ tasks[t].exec = "processing"
      BY <2>1 DEF Claimable
    <3>2. TaskRight(tasks[t])
      BY <3>1 DEF ObservedInv
    <3> QED BY <3>1, <3>2 DEF TaskRight, Unsent
  <2>6. held' \in [Owners -> SUBSET Tasks] /\ \A v \in Owners : held'[v] = IF v = w THEN found ELSE held[v]
    BY <1>0, <2>2, <2>5
  <2>7. look' \in [Owners -> LookRow] /\ \A v \in Owners : look'[v].task \in {0} \cup held'[v]
    BY <1>0, <2>2, <2>6
  <2>8. \A v \in Owners : \A t \in held'[v] : tasks[t].state # "absent"
    BY <1>0, <2>5, <2>6
  <2> QED BY <2>2, <2>4, <2>6, <2>7, <2>8, TypedOnward
<1>2. ASSUME NEW t, held' = [held EXCEPT ![w] = held[w] \ {t}] \/ held' = [held EXCEPT ![w] = {}],
             look' = [look EXCEPT ![w] = NoLook], RowsGo, UNCHANGED jobs
      PROVE  TasksTyped' /\ JobsThere'
  <2>1. held' \in [Owners -> SUBSET Tasks] /\ \A v \in Owners : held'[v] \subseteq held[v] /\ (v # w => held'[v] = held[v])
    BY <1>0, <1>2
  <2>2. look' \in [Owners -> LookRow] /\ \A v \in Owners : look'[v] = IF v = w THEN NoLook ELSE look[v]
    BY <1>0, <1>2, NoLookTyped
  <2>3. \A v \in Owners : look'[v].task \in {0} \cup held'[v]
    BY <1>0, <2>1, <2>2, NoLookTyped
  <2>4. \A v \in Owners : \A u \in held'[v] : tasks[u].state # "absent"
    BY <1>0, <2>1
  <2> QED BY <1>2, <2>1, <2>2, <2>3, <2>4, TypedOnward
<1>3. CASE ReportLook(w)
  <2>1. PICK o : o = look[w]
    OBVIOUS
  <2>2. o.status \in JobStatuses /\ o.event \in 0..MaxReports /\ o.seq \in 0..MaxReports /\ o.at \in 0..MaxReports
    BY <1>0, <2>1, AsyncTasksAssumption DEF LookRow
  <2>3. Emit(KeyOf[o.task], o)
    BY <1>3, <2>1 DEF ReportLook
  <2>4. RowsGo
    BY <1>0, <2>2, <2>3, EmitTyped
  <2>5. held' = [held EXCEPT ![w] = held[w] \ {o.task}] /\ look' = [look EXCEPT ![w] = NoLook] /\ UNCHANGED jobs
    BY <1>3, <2>1 DEF ReportLook
  <2> QED BY <1>2, <2>4, <2>5
<1>4. CASE OwnerCrash(w)
  <2>1. held' = [held EXCEPT ![w] = {}] /\ look' = [look EXCEPT ![w] = NoLook] /\ UNCHANGED <<jobs, tasks>>
    BY <1>4 DEF OwnerCrash
  <2> QED BY <1>0, <1>2, <2>1, NoRowGoes
<1>5. ASSUME NEW t \in Tasks, AskScheduler(w, t) PROVE TasksTyped' /\ JobsThere'
  <2>1. t \in held[w] /\ KeyOf[t] \in Keys
    BY <1>5, TaskKeys DEF AskScheduler
  <2>2. jobs[KeyOf[t]] \in Seq(JobStatuses) /\ jobs[KeyOf[t]] # <<>> /\ Len(jobs[KeyOf[t]]) \in 1..MaxReports
    <3>1. jobs[KeyOf[t]] \in Seq(JobStatuses) /\ jobs[KeyOf[t]] # <<>>
      BY <1>0, <2>1
    <3>2. Len(jobs[KeyOf[t]]) <= MaxReports
      BY <2>1 DEF TasksTyped
    <3> QED BY <3>1, <3>2
  <2>3. PICK status \in JobStatuses, at \in 0..MaxReports : status = Last(jobs[KeyOf[t]]) /\ at = Len(jobs[KeyOf[t]])
    BY <2>2 DEF Last
  <2>4. PICK new : new = [NoLook EXCEPT !.task = t, !.status = status, !.at = at]
    OBVIOUS
  <2>5. new \in LookRow /\ new.task = t
    BY <2>3, <2>4, AsyncTasksAssumption DEF NoLook, LookRow
  <2>6. look' = [look EXCEPT ![w] = new] /\ UNCHANGED <<jobs, tasks, held>>
    BY <1>5, <2>3, <2>4 DEF AskScheduler
  <2>7. look' \in [Owners -> LookRow] /\ \A v \in Owners : look'[v] = IF v = w THEN new ELSE look[v]
    BY <1>0, <2>5, <2>6
  <2>8. \A v \in Owners : look'[v].task \in {0} \cup held'[v]
    BY <1>0, <2>1, <2>5, <2>6, <2>7
  <2> QED BY <1>0, <2>6, <2>7, <2>8, NoRowGoes, TypedOnward
<1>6. ASSUME NEW t \in Tasks, GiveBack(w, t) PROVE TasksTyped' /\ JobsThere'
  <2>1. /\ held' = [held EXCEPT ![w] = held[w] \ {t}] /\ look[w] = NoLook /\ UNCHANGED <<jobs, look>>
    BY <1>6 DEF GiveBack
  <2>2. PICK row : row = IF tasks[t].owner # w THEN tasks[t] ELSE [tasks[t] EXCEPT !.due = FALSE, !.owner = Nobody, !.leased = FALSE]
    OBVIOUS
  <2>3. row \in TaskRow /\ row.state = tasks[t].state
    <3>1. tasks[t] \in TaskRow
      BY <1>0
    <3> QED BY <2>2, <3>1 DEF TaskRow
  <2>4. tasks' = [tasks EXCEPT ![t] = row]
    BY <1>6, <2>2 DEF GiveBack
  <2>5. RowsGo
    BY <1>0, <2>3, <2>4, OneRowGoes
  <2>6. look' = [look EXCEPT ![w] = NoLook]
    BY <1>0, <2>1
  <2> QED BY <1>2, <2>1, <2>5, <2>6
<1> QED BY <1>1, <1>3, <1>4, <1>5, <1>6

LEMMA TasksTypedStep ==
    ASSUME TasksTyped, JobsThere, ObservedInv, [TasksNext]_taskVars
    PROVE  TasksTyped' /\ JobsThere'
<1>0. tasks \in [Tasks -> TaskRow]
  BY DEF TasksTyped
<1>1. CASE UNCHANGED taskVars
  BY <1>0, <1>1, NoRowGoes, TypedKept DEF taskVars
<1>2. CASE LoadReminder
  <2>1. tasks' = Expired(tasks) /\ UNCHANGED <<jobs, held, look>>
    BY <1>2 DEF LoadReminder
  <2> QED BY <1>0, <2>1, ExpiredTyped, TypedKept DEF RowsGo
<1>3. CASE ReadPage
  <2>1. tasks' = Expired(tasks) /\ UNCHANGED <<jobs, held, look>>
    BY <1>3 DEF ReadPage
  <2> QED BY <1>0, <2>1, ExpiredTyped, TypedKept DEF RowsGo
<1>4. CASE Refresh
  BY <1>0, <1>4, NoRowGoes, TypedKept DEF Refresh
<1> QED BY <1>1, <1>2, <1>3, <1>4, SubmitTyped, PassTyped, ReportTyped, LeaseTyped
        DEF TasksNext, Submitting, Reminding, Reporting, Reconciling, Listing

LEMMA RunListsStep ==
    ASSUME RunListsTyped, [TasksNext]_taskVars
    PROVE  RunListsTyped'
<1> USE DEF RunListsTyped
<1>0. ReminderLimit \in Nat /\ PageSize \in Nat /\ ReminderLimit >= 1 /\ PageSize >= 1 /\ ReminderLimit + 1 \in Nat
      /\ PageSize + 1 \in Nat
  BY AsyncTasksAssumption
<1>1. CASE UNCHANGED <<reminded, hasMore, list>>
  BY <1>1
<1>2. ASSUME NEW t \in Tasks, RecordTask(t) PROVE RunListsTyped'
  <2>1. PICK longer : longer = <<t>> \o reminded
    OBVIOUS
  <2>2. longer \in Seq(Tasks) /\ Len(longer) = Len(reminded) + 1
    BY <2>1
  <2>3. reminded' = IF Len(reminded) >= ReminderLimit THEN SubSeq(longer, 1, ReminderLimit) ELSE longer
    BY <1>2, <2>1 DEF RecordTask, Prepend
  <2>4. hasMore' \in BOOLEAN /\ UNCHANGED list
    BY <1>2 DEF RecordTask, Prepend
  <2>5. reminded' \in Seq(Tasks) /\ Len(reminded') <= ReminderLimit
    <3>1. CASE Len(reminded) >= ReminderLimit
      <4>1. ReminderLimit \in Int /\ \A i \in 1..ReminderLimit : longer[i] \in Tasks
        BY <1>0, <2>2, <3>1
      <4>2. SubSeq(longer, 1, ReminderLimit) \in Seq(Tasks)
            /\ Len(SubSeq(longer, 1, ReminderLimit)) = IF 1 <= ReminderLimit THEN ReminderLimit - 1 + 1 ELSE 0
        BY <4>1, SubSeqProperties
      <4> QED BY <1>0, <2>3, <3>1, <4>2
    <3>2. CASE ~(Len(reminded) >= ReminderLimit)
      <4>1. Len(reminded) \in Nat
        OBVIOUS
      <4> QED BY <1>0, <2>2, <2>3, <3>2, <4>1
    <3> QED BY <3>1, <3>2
  <2> QED BY <2>4, <2>5
<1>3. CASE LoadReminder
  <2>1. PICK found : found = LastRows(Pending(tasks'), ReminderLimit + 1)
    OBVIOUS
  <2>2. /\ reminded' = SubSeq(found, 1, Min({ReminderLimit, Len(found)})) /\ hasMore' = (Len(found) > ReminderLimit)
        /\ UNCHANGED list
    BY <1>3, <2>1 DEF LoadReminder
  <2>3. found \in Seq(Tasks)
    BY <1>0, <2>1, CutRowsTyped
  <2>4. PICK cut : cut = SubSeq(found, 1, Min({ReminderLimit, Len(found)}))
    OBVIOUS
  <2>5. cut \in Seq(Tasks) /\ Len(cut) <= ReminderLimit
    BY <1>0, <2>3, <2>4, CutTyped
  <2>6. reminded' = cut /\ hasMore' \in BOOLEAN /\ list' = list
    BY <2>2, <2>4
  <2> QED BY <2>5, <2>6
<1>4. ASSUME NEW t \in Tasks, ResolveTask(t) PROVE RunListsTyped'
  <2>1. reminded' = Without(reminded, t) /\ UNCHANGED <<hasMore, list>>
    BY <1>4 DEF ResolveTask
  <2>2. Without(reminded, t) \in Seq(Tasks) /\ Len(Without(reminded, t)) <= Len(reminded)
    BY WithoutTyped
  <2>3. Len(reminded') \in Nat /\ Len(reminded) \in Nat
    BY <2>1, <2>2
  <2> QED BY <1>0, <2>1, <2>2, <2>3
<1>5. CASE Refresh
  <2>1. list' = [ClosedList EXCEPT !.pc = "page", !.shown = list.shown, !.ready = Ready(Expired(tasks))] /\ UNCHANGED <<reminded, hasMore>>
    BY <1>5 DEF Refresh
  <2>2. Ready(Expired(tasks)) \subseteq Tasks /\ list.shown \in Seq(Tasks) /\ <<>> \in Seq(Tasks)
    BY DEF Ready
  <2> HIDE DEF RunListsTyped
  <2>3. list' \in [pc : {"idle", "page"}, cursor : Nat, got : Seq(Tasks), shown : Seq(Tasks), ready : SUBSET Tasks]
    BY <2>1, <2>2 DEF ClosedList
  <2> QED BY <2>1, <2>3 DEF RunListsTyped
<1>6. CASE ReadPage
  <2>1. PICK found : found = FirstRows({t \in Ready(tasks') : t > list.cursor}, PageSize + 1)
    OBVIOUS
  <2>2. PICK page : page = SubSeq(found, 1, Min({PageSize, Len(found)}))
    OBVIOUS
  <2>3. found \in Seq(Tasks) /\ page \in Seq(Tasks)
    BY <1>0, <2>1, <2>2, CutRowsTyped, CutTyped
  <2>4. list' = IF Len(found) > PageSize
                THEN [list EXCEPT !.got = list.got \o page, !.cursor = Last(page)]
                ELSE [ClosedList EXCEPT !.shown = list.got \o page]
    BY <1>6, <2>1, <2>2 DEF ReadPage
  <2>4a. list.got \in Seq(Tasks)
    OBVIOUS
  <2>5. PICK all \in Seq(Tasks) : all = list.got \o page
    <3> HIDE DEF RunListsTyped
    <3>1. list.got \o page \in Seq(Tasks)
      BY <2>3, <2>4a
    <3> QED BY <3>1
  <2>6. UNCHANGED <<reminded, hasMore>>
    BY <1>6 DEF ReadPage
  <2>7. CASE Len(found) > PageSize
    <3>1. Last(page) \in Nat
      <4>1. Len(found) \in Nat /\ Min({PageSize, Len(found)}) = PageSize
        <5>1. Len(found) \in Nat
          BY <2>3
        <5> QED BY <1>0, <2>7, <5>1 DEF Min
      <4>2. page = SubSeq(found, 1, PageSize) /\ \A i \in 1..PageSize : found[i] \in Tasks
        <5>1. page = SubSeq(found, 1, PageSize)
          BY <2>2, <4>1
        <5>2. ASSUME NEW i \in 1..PageSize PROVE found[i] \in Tasks
          <6>1. i \in 1..Len(found)
            BY <1>0, <2>7, <4>1
          <6> QED BY <2>3, <6>1
        <5> QED BY <5>1, <5>2
      <4>3. Len(page) = IF 1 <= PageSize THEN PageSize - 1 + 1 ELSE 0
        BY <1>0, <4>2, SubSeqProperties
      <4>4. Len(page) \in 1..Len(page)
        BY <1>0, <4>3
      <4>5. page[Len(page)] \in Tasks
        BY <2>3, <4>4
      <4> QED BY <4>5, AsyncTasksAssumption DEF Last, Tasks
    <3>2. PICK last \in Nat : last = Last(page)
      BY <3>1
    <3>3. list' = [list EXCEPT !.got = all, !.cursor = last]
      BY <2>4, <2>5, <2>7, <3>2
    <3>4. list' \in [pc : {"idle", "page"}, cursor : Nat, got : Seq(Tasks), shown : Seq(Tasks), ready : SUBSET Tasks]
      BY <2>5, <3>2, <3>3
    <3> QED BY <2>6, <3>4
  <2>8. CASE ~(Len(found) > PageSize)
    <3>1. list' = [ClosedList EXCEPT !.shown = all]
      BY <2>4, <2>5, <2>8
    <3>2. <<>> \in Seq(Tasks)
      OBVIOUS
    <3> HIDE DEF RunListsTyped
    <3>3. list' \in [pc : {"idle", "page"}, cursor : Nat, got : Seq(Tasks), shown : Seq(Tasks), ready : SUBSET Tasks]
      BY <2>5, <3>1, <3>2 DEF ClosedList
    <3> QED BY <2>6, <3>3 DEF RunListsTyped
  <2> QED BY <2>7, <2>8
<1>7. \/ UNCHANGED <<reminded, hasMore, list>> \/ LoadReminder \/ Refresh \/ ReadPage
      \/ \E t \in Tasks : RecordTask(t) \/ ResolveTask(t)
  <2>1. Submitting => UNCHANGED <<reminded, hasMore, list>> \/ \E t \in Tasks : RecordTask(t)
    BY DEF Submitting, CallTool, RecordFails
  <2>2. Reminding => UNCHANGED <<reminded, hasMore, list>> \/ LoadReminder \/ \E t \in Tasks : ResolveTask(t)
    BY DEF Reminding, GrowsOld, Pass
  <2>3. Reporting => UNCHANGED <<reminded, hasMore, list>>
    BY DEF Reporting, SchedulerReports, DeliverEvent
  <2>4. Reconciling => UNCHANGED <<reminded, hasMore, list>>
    BY DEF Reconciling, ClaimTasks, ReportLook, OwnerCrash, AskScheduler, GiveBack, LeaseLapses, SyncComesDue, GoesStale, Pass
  <2> QED BY <2>1, <2>2, <2>3, <2>4 DEF TasksNext, Listing, taskVars
<1> QED BY <1>1, <1>2, <1>3, <1>4, <1>5, <1>6, <1>7

LEMMA TasksTypedFirst == TasksInit => TasksTyped /\ JobsThere /\ RunListsTyped
<1> SUFFICES ASSUME TasksInit PROVE TasksTyped /\ JobsThere /\ RunListsTyped
  OBVIOUS
<1>1. NoTask \in TaskRow /\ NoTask.state = "absent"
  BY AsyncTasksAssumption DEF NoTask, TaskRow
<1>2. <<>> \in Seq(JobStatuses) /\ <<>> \in Seq(Tasks) /\ Len(<<>>) = 0 /\ MaxReports \in Nat /\ ReminderLimit \in Nat
  BY AsyncTasksAssumption
<1>3. TasksTyped
  BY <1>1, <1>2, NoLookTyped DEF TasksInit, TasksTyped
<1>4. JobsThere
  BY <1>1 DEF TasksInit, JobsThere
<1>5. list \in [pc : {"idle", "page"}, cursor : Nat, got : Seq(Tasks), shown : Seq(Tasks), ready : SUBSET Tasks]
  BY <1>2 DEF TasksInit, ClosedList
<1>6. RunListsTyped
  <2>1. reminded = <<>> /\ hasMore \in BOOLEAN
    BY DEF TasksInit
  <2>2. Len(<<>>) <= ReminderLimit
    BY AsyncTasksAssumption
  <2>3. reminded \in Seq(Tasks) /\ Len(reminded) <= ReminderLimit
    BY <1>2, <2>1, <2>2
  <2> QED BY <1>5, <2>1, <2>3 DEF RunListsTyped
<1> QED BY <1>3, <1>4, <1>6

LEMMA TasksTypesHold == TasksSpec => []TasksTypeOK
<1>1. TasksInit => TasksTyped /\ JobsThere /\ RunListsTyped /\ ObservedInv
  BY TasksTypedFirst, ObservedFirst
<1>2. TasksTyped /\ JobsThere /\ RunListsTyped /\ ObservedInv /\ [TasksNext]_taskVars
        => (TasksTyped /\ JobsThere /\ RunListsTyped /\ ObservedInv)'
  BY TasksTypedStep, RunListsStep, ObservedStep
<1>3. TasksTyped /\ RunListsTyped => TasksTypeOK
  <2> SUFFICES ASSUME TasksTyped, RunListsTyped PROVE TasksTypeOK
    OBVIOUS
  <2> DEFINE Published == UNION {[1..n -> Ended \cup {"processing"}] : n \in 0..MaxReports}
  <2>1. jobs \in [Keys -> Published]
    <3>1. ASSUME NEW k \in Keys PROVE jobs[k] \in Published
      <4>1. jobs[k] \in Seq(JobStatuses) /\ Len(jobs[k]) \in 0..MaxReports
        BY DEF TasksTyped
      <4>2. jobs[k] \in [1..Len(jobs[k]) -> JobStatuses]
        BY <4>1
      <4> QED BY <4>1, <4>2 DEF JobStatuses
    <3>2. jobs = [k \in Keys |-> jobs[k]]
      BY DEF TasksTyped
    <3> HIDE DEF Published
    <3> QED BY <3>1, <3>2
  <2>2. ToSet(reminded) \subseteq Tasks /\ ToSet(list.shown) \subseteq Tasks
    <3>1. reminded \in Seq(Tasks) /\ list.shown \in Seq(Tasks)
      BY DEF RunListsTyped
    <3> QED BY <3>1 DEF ToSet
  <2>3. tasks \in [Tasks -> TaskRow] /\ held \in [Owners -> SUBSET Tasks]
        /\ \A w \in Owners : look[w].task \in {0} \cup held[w]
    BY DEF TasksTyped
  <2>4. list.pc \in {"idle", "page"} /\ Len(reminded) <= ReminderLimit /\ hasMore \in BOOLEAN
    BY DEF RunListsTyped
  <2> QED BY <2>1, <2>2, <2>3, <2>4 DEF TasksTypeOK, TaskRow
<1> QED BY <1>1, <1>2, <1>3, PTL DEF TasksSpec

-----------------------------------------------------------------------------
(* The types of a conversation (module Conversation)                       *)

RowStands(row, n) ==
    /\ row.turn \in 1..MaxTurns /\ row.holds \subseteq 1..n-1
    /\ row.kind \in {"user", "text", "use", "result", "partial", "summary"}
RowsStand(table) == \A n \in 1..Len(table) : RowStands(table[n], n)

TurnTyped ==
    /\ turn \in 0..MaxTurns /\ turnEnds \in BOOLEAN
    /\ phase \in {"idle", "top", "model", "tools"}
    /\ phase # "idle" => turn \in 1..MaxTurns

LEMMA RowsStandMore ==
    ASSUME NEW table, TableFits(table), RowsStand(table), NEW row, RowStands(row, Len(table) + 1)
    PROVE  RowsStand(Append(table, row))
<1>1. /\ Len(Append(table, row)) = Len(table) + 1 /\ Append(table, row)[Len(table) + 1] = row
      /\ \A i \in 1..Len(table) : Append(table, row)[i] = table[i]
  BY AppendedRow DEF TableFits
<1>2. Len(table) \in Nat
  BY DEF TableFits
<1>3. ASSUME NEW n \in 1..Len(table) + 1 PROVE RowStands(Append(table, row)[n], n)
  <2>1. CASE n = Len(table) + 1
    BY <1>1, <2>1
  <2>2. CASE n \in 1..Len(table)
    BY <1>1, <2>2 DEF RowsStand
  <2> QED BY <1>2, <2>1, <2>2
<1> QED BY <1>1, <1>3 DEF RowsStand

(* A row of the run, whatever its calls say.                               *)
LEMMA RowOfTurn ==
    ASSUME turn \in 1..MaxTurns, TableFits(rows), NEW n
    PROVE  /\ \A kind \in {"user", "text", "partial"} : RowStands(Row(kind), n)
           /\ \A round : RowStands(UseRow(round), n)
           /\ \A round, verdicts, began : RowStands(ResultRow(round, verdicts, began), n)
  BY DEF RowStands, Row, UseRow, ResultRow

LEMMA ContentWithin ==
    ASSUME TableFits(rows), RowsStand(rows), NEW context
    PROVE  Content(rows, context) \subseteq 1..Len(rows)
<1> SUFFICES ASSUME NEW m \in Content(rows, context) PROVE m \in 1..Len(rows)
  OBVIOUS
<1>1. PICK n \in 1..Len(rows) : m \in IF rows[n].kind = "summary" THEN rows[n].holds ELSE {n}
  BY DEF Content
<1>2. rows[n].holds \subseteq 1..n-1 /\ Len(rows) \in Nat
  BY DEF RowsStand, RowStands, TableFits
<1> QED BY <1>1, <1>2

LEMMA TurnTypedStep ==
    ASSUME TurnTyped, MaxTurns \in Nat, [ConversationNext]_convVars
    PROVE  TurnTyped'
<1> USE DEF TurnTyped
<1>1. CASE BeginTurn
  BY <1>1 DEF BeginTurn
<1>2. CASE TakeNotice
  BY <1>2 DEF TakeNotice
<1>3. CASE Compact
  BY <1>3 DEF Compact, Ends
<1>4. CASE CallModel
  BY <1>4 DEF CallModel
<1>5. CASE AnswerText
  BY <1>5 DEF AnswerText, Ends
<1>6. CASE AnswerFails
  BY <1>6 DEF AnswerFails, Ends
<1>7. ASSUME NEW round \in Rounds, AnswerCalls(round) \/ AnswerOverBudget(round) PROVE TurnTyped'
  BY <1>7 DEF AnswerCalls, AnswerOverBudget, Ends
<1>8. ASSUME NEW i \in 1..Len(calls), StartCall(i) PROVE TurnTyped'
  BY <1>8 DEF StartCall
<1>9. ASSUME NEW i \in 1..Len(calls), FinishCall(i) PROVE TurnTyped'
  <2>1. UNCHANGED <<turn, phase>>
    BY <1>9 DEF FinishCall
  <2>2. turnEnds' = turnEnds \/ turnEnds' = (turnEnds \/ \E j \in 1..Len(calls) : Beside(j))
    BY <1>9 DEF FinishCall
  <2>3. turnEnds' \in BOOLEAN
    BY <2>2, Zenon
  <2> QED BY <2>1, <2>3
<1>10. CASE CloseRound
  BY <1>10 DEF CloseRound, RoundOver
<1>11. CASE TurnStops
  BY <1>11 DEF TurnStops, Ends
<1>12. CASE UNCHANGED convVars
  BY <1>12 DEF convVars
<1> QED
  BY <1>1, <1>2, <1>3, <1>4, <1>5, <1>6, <1>7, <1>8, <1>9, <1>10, <1>11, <1>12 DEF ConversationNext

LEMMA RowsStandStep ==
    ASSUME ConvInv, TurnTyped, RowsStand(rows), MaxTurns \in Nat, [ConversationNext]_convVars
    PROVE  RowsStand(rows')
<1>0. TableFits(rows) /\ ContextFits(rows, mem) /\ Len(rows) \in Nat
  BY DEF ConvInv, ContextInv, TableFits
<1>a. ASSUME NEW row, RowStands(row, Len(rows) + 1), rows' = Append(rows, row) PROVE RowsStand(rows')
  BY <1>0, <1>a, RowsStandMore
<1>b. ASSUME phase # "idle", NEW n
      PROVE  /\ \A kind \in {"user", "text", "partial"} : RowStands(Row(kind), n)
             /\ \A round : RowStands(UseRow(round), n)
             /\ \A round, verdicts, began : RowStands(ResultRow(round, verdicts, began), n)
  BY <1>0, <1>b, RowOfTurn DEF TurnTyped
<1>c. ASSUME NEW row, NEW other, row.kind # "result", row.covers = {}, RowStands(row, Len(rows) + 1), RowStands(other, Len(rows) + 2),
             rows' = rows \o <<row, other>>
      PROVE  RowsStand(rows')
  <2>1. RowsStand(Append(rows, row)) /\ TableFits(Append(rows, row))
    BY <1>0, <1>c, RowsStandMore, PlainGrows
  <2>2. Len(Append(rows, row)) + 1 = Len(rows) + 2
    BY <1>0, AppendedRow DEF TableFits
  <2>3. rows' = Append(Append(rows, row), other)
    BY <1>0, <1>c, TwoRows
  <2> QED BY <1>c, <2>1, <2>2, <2>3, RowsStandMore
<1>1. CASE BeginTurn
  <2>1. PICK row : row = [Row("user") EXCEPT !.turn = turn + 1]
    OBVIOUS
  <2>2. turn < MaxTurns /\ rows' = Append(rows, row) /\ turn \in Nat
    BY <1>1, <2>1 DEF BeginTurn, TurnTyped
  <2>3. row.turn = turn + 1 /\ row.kind = "user" /\ row.holds = {}
    BY <2>1 DEF Row
  <2>4. turn + 1 \in 1..MaxTurns
    BY <2>2
  <2> QED BY <1>a, <2>2, <2>3, <2>4 DEF RowStands
<1>2. CASE TakeNotice
  BY <1>2, <1>a, <1>b DEF TakeNotice
<1>3. CASE Compact
  <2>1. PICK cut \in 2..Len(mem) :
          rows' = Append(rows, Summary(CoveredThrough(Told(cut)), Content(rows, SubSeq(mem, 1, cut - 1))))
    BY <1>0, <1>3, CompactSays
  <2>2. PICK row : row = Summary(CoveredThrough(Told(cut)), Content(rows, SubSeq(mem, 1, cut - 1)))
    OBVIOUS
  <2>3. row.turn = turn /\ row.kind = "summary" /\ row.holds \subseteq 1..Len(rows)
    BY <1>0, <2>2, ContentWithin DEF Summary, Row
  <2>4. turn \in 1..MaxTurns
    BY <1>3 DEF Compact, TurnTyped
  <2>5. RowStands(row, Len(rows) + 1)
    BY <1>0, <2>3, <2>4 DEF RowStands
  <2> QED BY <1>a, <2>1, <2>2, <2>5
<1>4. CASE AnswerText
  <2>1. rows' = Append(rows, Row("text")) \/ rows' = rows \o <<Row("text"), Row("user")>>
    BY <1>4 DEF AnswerText
  <2>2. phase # "idle" /\ Row("text").kind # "result" /\ Row("text").covers = {}
    BY <1>4, RowIs DEF AnswerText
  <2> QED BY <1>a, <1>b, <1>c, <2>1, <2>2
<1>5. CASE AnswerFails
  <2>1. phase # "idle" /\ (UNCHANGED rows \/ rows' = Append(rows, Row("partial")))
    BY <1>5 DEF AnswerFails
  <2> QED BY <1>a, <1>b, <2>1
<1>6. ASSUME NEW round \in Rounds, AnswerCalls(round) PROVE RowsStand(rows')
  BY <1>6, <1>a, <1>b DEF AnswerCalls
<1>7. ASSUME NEW round \in Rounds, AnswerOverBudget(round) PROVE RowsStand(rows')
  <2>1. \/ rows' = Append(rows, UseRow(round))
        \/ \E verdicts, began : rows' = rows \o <<UseRow(round), ResultRow(round, verdicts, began)>>
    BY <1>7 DEF AnswerOverBudget
  <2>2. phase # "idle" /\ UseRow(round).kind # "result" /\ UseRow(round).covers = {}
    BY <1>7, UseRowIs DEF AnswerOverBudget
  <2> QED BY <1>a, <1>b, <1>c, <2>1, <2>2
<1>8. CASE CloseRound
  <2>1. PICK row : row = ResultRow(calls, Completed, [i \in 1..Len(calls) |-> going[i] # "ready"])
    OBVIOUS
  <2>2. UNCHANGED rows \/ \E guided \in {<<>>, <<Row("user")>>} : rows' = rows \o <<row>> \o guided
    BY <1>8, <2>1 DEF CloseRound
  <2>3. phase = "tools" /\ RowStands(row, Len(rows) + 1) /\ RowStands(Row("user"), Len(rows) + 2)
    BY <1>8, <1>b, <2>1 DEF CloseRound, RoundOver
  <2>4. TableFits(Append(rows, row)) /\ RowsStand(Append(rows, row)) /\ Len(Append(rows, row)) = Len(rows) + 1
    <3>1. row.kind = "result" /\ row.covers = {} /\ row.turn = turn /\ row.ids = IdsOf(calls)
      BY <2>1, ResultRowIs
    <3>2. UseIn(rows, Len(rows)) /\ rows[Len(rows)].turn = turn /\ rows[Len(rows)].ids = IdsOf(calls)
      BY <2>3 DEF ConvInv, RoundStored, IdsOf
    <3>3. Len(rows) > 0 /\ rows[Len(rows)].kind = "use"
      BY <1>0, <3>2 DEF UseIn
    <3>4. TableFits(Append(rows, row))
      BY <1>0, <3>1, <3>2, <3>3, ResultGrows
    <3> QED BY <1>0, <2>3, <3>4, RowsStandMore, AppendedRow DEF TableFits
  <2>5. rows \o <<row>> = Append(rows, row)
    BY <1>0, TwoRows
  <2>6. CASE rows' = rows \o <<row>> \o <<>>
    BY <2>4, <2>5, <2>6, TwoRows
  <2>7. CASE rows' = rows \o <<row>> \o <<Row("user")>>
    <3>1. rows' = Append(Append(rows, row), Row("user"))
      BY <2>4, <2>5, <2>7, TwoRows
    <3>2. Len(Append(rows, row)) + 1 = Len(rows) + 2
      BY <1>0, <2>4
    <3> QED BY <2>3, <2>4, <3>1, <3>2, RowsStandMore
  <2> QED BY <2>2, <2>6, <2>7
<1>9. UNCHANGED rows => RowsStand(rows')
  OBVIOUS
<1>10. CallModel \/ TurnStops \/ UNCHANGED convVars \/ (\E i \in 1..Len(calls) : StartCall(i) \/ FinishCall(i)) => UNCHANGED rows
  BY DEF CallModel, TurnStops, StartCall, FinishCall, convVars
<1> QED BY <1>1, <1>2, <1>3, <1>4, <1>5, <1>6, <1>7, <1>8, <1>9, <1>10 DEF ConversationNext

LEMMA ConversationTypesHold == ConversationSpec => []ConversationTypeOK
<1> USE ConversationAssumption
<1>0. MaxTurns \in Nat
  OBVIOUS
<1> DEFINE Inv == ConvInv /\ VerdictsInv /\ TurnTyped /\ RowsStand(rows)
<1>1. ConversationInit => Inv
  <2> SUFFICES ASSUME ConversationInit PROVE Inv
    OBVIOUS
  <2>1. ConvInv
    BY ConvFirst
  <2>2. VerdictsInv
    BY DEF ConversationInit, VerdictsInv, RoundTyped, VerdictsTrue
  <2>3. TurnTyped
    <3>1. turn = 0 /\ turnEnds = FALSE /\ phase = "idle"
      BY DEF ConversationInit
    <3>2. 0 \in 0..MaxTurns
      BY ONLY <1>0
    <3> QED BY <3>1, <3>2 DEF TurnTyped
  <2>4. RowsStand(rows)
    BY DEF ConversationInit, RowsStand
  <2> QED BY <2>1, <2>2, <2>3, <2>4
<1>2. Inv /\ [ConversationNext]_convVars => Inv'
  <2> SUFFICES ASSUME Inv, [ConversationNext]_convVars PROVE Inv'
    OBVIOUS
  <2>1. ConvInv' /\ VerdictsInv' /\ TurnTyped'
    BY <1>0, ConvStep, VerdictsStep, TurnTypedStep
  <2>2. RowsStand(rows')
    BY <1>0, RowsStandStep
  <2> QED BY <2>1, <2>2
<1>3. Inv => ConversationTypeOK
  <2> SUFFICES ASSUME Inv PROVE ConversationTypeOK
    OBVIOUS
  <2>1. ASSUME NEW p \in 1..Len(mem) PROVE mem[p] \in (1..Len(rows)) \cup {-n : n \in 1..Len(rows)}
    <3>1. mem[p] \in Int /\ (mem[p] \in 1..Len(rows) \/ -mem[p] \in 1..Len(rows))
      <4>1. ContextFits(rows, mem)
        BY DEF ConvInv, ContextInv
      <4> QED BY <4>1 DEF ContextFits
    <3>2. mem[p] = -(-mem[p])
      BY <3>1
    <3> QED BY <3>1, <3>2
  <2>2. RoundTyped
    BY DEF VerdictsInv
  <2>3. Len(slots) = Len(calls) /\ DOMAIN slots = 1..Len(calls) /\ Len(going) = Len(calls) /\ DOMAIN going = 1..Len(calls)
    <3>1. Len(calls) \in Nat /\ slots \in [1..Len(calls) -> Verdicts \ {"unexecuted", "unknown"}]
          /\ going \in [1..Len(calls) -> {"ready", "running", "over"}]
      BY <2>2 DEF RoundTyped
    <3> QED BY <3>1
  <2>4. ToSet(slots) \subseteq Verdicts /\ ToSet(going) \subseteq {"ready", "running", "over"}
    BY <2>2, <2>3 DEF RoundTyped, ToSet
  <2>5. \A n \in 1..Len(rows) :
          /\ rows[n].turn \in 1..MaxTurns
          /\ rows[n].kind \in {"user", "text", "use", "result", "partial", "summary"}
          /\ rows[n].holds \subseteq 1..n-1
    BY DEF RowsStand, RowStands
  <2> QED BY <2>1, <2>3, <2>4, <2>5 DEF ConversationTypeOK, TurnTyped
<1> HIDE DEF Inv
<1> QED BY <1>1, <1>2, <1>3, PTL DEF ConversationSpec

-----------------------------------------------------------------------------
(* The types of sub-runs (module Delegation)                               *)

InputKinds == {"notification", "user_input"}
InputRow(row) ==
    /\ {"to", "from", "kind", "status"} \subseteq DOMAIN row
    /\ row.to \in Runs /\ row.from \in Runs /\ row.kind \in InputKinds
    /\ row.status \in {"admitted", "guided", "discarded"}

InputsTyped == \A i \in 1..Len(ledger) : InputRow(ledger[i])
BoxesTyped == box \in [Runs -> Seq(1..Len(ledger))]
SpentTyped == cutOff \in [Runs -> BOOLEAN] /\ \A r \in Runs : runRow[r].own <= MaxSpend

(* Rows of the ledger are settled in place, or one more is written.        *)
InPlace ==
    /\ DOMAIN ledger' = 1..Len(ledger) /\ ledger' = [i \in 1..Len(ledger) |-> ledger'[i]]
    /\ \A i \in 1..Len(ledger) :
         \/ ledger'[i] = ledger[i]
         \/ \E status \in {"guided", "discarded"} : ledger'[i] = [ledger[i] EXCEPT !.status = status]
OneMore ==
    \E number : \E to \in Runs, from \in Runs, kind \in InputKinds : ledger' = Append(ledger, NewInput(to, from, kind, number))

LEMMA LedgerGoes ==
    ASSUME FamilyInv, [DelegationNext]_delegVars
    PROVE  UNCHANGED ledger \/ InPlace \/ OneMore
<1>0. ledger \in Seq(ToSet(ledger)) /\ up \in [Subs -> Runs] /\ Len(ledger) \in Nat /\ DOMAIN ledger = 1..Len(ledger)
  BY DEF FamilyInv, FamilyRows, RowsTyped, LedgerTyped
<1>1. ASSUME NEW r \in Runs, TakeNotices(r) PROVE InPlace
  BY <1>1 DEF TakeNotices, InPlace
<1>2. ASSUME NEW r \in Runs, TakeInput(r) PROVE InPlace
  <2>1. PICK i \in 1..Len(ledger) : ledger' = [ledger EXCEPT ![i].status = "guided"]
    BY <1>2 DEF TakeInput
  <2>2. \A j \in 1..Len(ledger) : ledger'[j] = IF j = i THEN [ledger[i] EXCEPT !.status = "guided"] ELSE ledger[j]
    BY <1>0, <2>1
  <2>3. DOMAIN ledger' = 1..Len(ledger) /\ ledger' = [j \in 1..Len(ledger) |-> ledger'[j]]
    BY <1>0, <2>1
  <2> QED BY <2>2, <2>3 DEF InPlace
<1>3. ASSUME NEW readers, ledger' = Settled(readers) PROVE InPlace
  BY <1>3 DEF Settled, InPlace
<1>4. ASSUME NEW r \in Runs, SendWrite(r) PROVE OneMore
  BY <1>4, FamilyFacts DEF SendWrite, OneMore, InputKinds
<1>5. CASE Steer
  BY <1>5, FamilyFacts DEF Steer, OneMore, InputKinds
<1>6. ASSUME NEW c \in Subs, Commit(c) PROVE UNCHANGED ledger \/ OneMore
  <2>1. up[c] \in Runs /\ c \in Runs
    BY <1>0, FamilyFacts
  <2> QED BY <1>6, <2>1 DEF Commit, OneMore, InputKinds
<1>7. ASSUME NEW r \in Runs, Settle(r) PROVE InPlace
  BY <1>3, <1>7 DEF Settle
<1>8. CASE NextRun
  BY <1>3, <1>8 DEF NextRun
<1>9. \/ UNCHANGED ledger \/ Steer \/ NextRun
      \/ \E r \in Runs : TakeNotices(r) \/ TakeInput(r) \/ SendWrite(r) \/ Settle(r)
      \/ \E c \in Subs : Commit(c)
  BY DEF DelegationNext, Going, Ending, Ask, Answered, Close, Finish, LeaveLoop, Cut, Spend, Delegate, SendStart, FailOuter,
         FinalizeError, Accumulate, Return, Deliver, Push, delegVars
<1> QED BY <1>1, <1>2, <1>4, <1>5, <1>6, <1>7, <1>8, <1>9

LEMMA InputsTypedStep ==
    ASSUME FamilyInv, InputsTyped, [DelegationNext]_delegVars
    PROVE  InputsTyped' /\ Len(ledger) \in Nat /\ Len(ledger') \in Nat /\ Len(ledger) <= Len(ledger')
<1>0. ledger \in Seq(ToSet(ledger)) /\ Len(ledger) \in Nat
  BY DEF FamilyInv, LedgerTyped
<1>1. CASE UNCHANGED ledger
  BY <1>0, <1>1 DEF InputsTyped
<1>2. CASE InPlace
  <2>1. ledger' \in Seq(ToSet(ledger')) /\ Len(ledger') = Len(ledger)
    BY <1>0, <1>2, RewrittenRows DEF InPlace
  <2>2. ASSUME NEW i \in 1..Len(ledger) PROVE InputRow(ledger'[i])
    <3>1. InputRow(ledger[i])
      BY DEF InputsTyped
    <3>2. ASSUME NEW status \in {"guided", "discarded"} PROVE InputRow([ledger[i] EXCEPT !.status = status])
      BY <3>1 DEF InputRow
    <3> QED BY <1>2, <3>1, <3>2 DEF InPlace
  <2> QED BY <1>0, <2>1, <2>2 DEF InputsTyped
<1>3. CASE OneMore
  <2>1. PICK number : \E to \in Runs, from \in Runs, kind \in InputKinds : ledger' = Append(ledger, NewInput(to, from, kind, number))
    BY <1>3 DEF OneMore
  <2>1a. PICK to \in Runs, from \in Runs, kind \in InputKinds : ledger' = Append(ledger, NewInput(to, from, kind, number))
    BY <2>1
  <2>2. PICK row : row = NewInput(to, from, kind, number)
    OBVIOUS
  <2>3. InputRow(row)
    BY <2>2 DEF InputRow, NewInput
  <2>4. /\ Len(ledger') = Len(ledger) + 1 /\ ledger'[Len(ledger) + 1] = row
        /\ \A i \in 1..Len(ledger) : ledger'[i] = ledger[i]
    BY <1>0, <2>1a, <2>2, AppendedRow
  <2>5. ASSUME NEW i \in 1..Len(ledger) + 1 PROVE InputRow(ledger'[i])
    <3>1. CASE i = Len(ledger) + 1
      BY <2>3, <2>4, <3>1
    <3>2. CASE i \in 1..Len(ledger)
      BY <2>4, <3>2 DEF InputsTyped
    <3> QED BY <1>0, <3>1, <3>2
  <2> QED BY <1>0, <2>4, <2>5 DEF InputsTyped
<1> QED BY <1>1, <1>2, <1>3, LedgerGoes

LEMMA SeqOfMore == ASSUME NEW S, NEW T, S \subseteq T PROVE \A s \in Seq(S) : s \in Seq(T)
  OBVIOUS

LEMMA BoxesTypedStep ==
    ASSUME FamilyInv, InputsTyped, BoxesTyped, [DelegationNext]_delegVars
    PROVE  BoxesTyped'
<1>0. Len(ledger) \in Nat /\ Len(ledger') \in Nat /\ Len(ledger) <= Len(ledger')
  BY InputsTypedStep
<1>1. 1..Len(ledger) \subseteq 1..Len(ledger')
  BY <1>0
<1>2. \A s \in Seq(1..Len(ledger)) : s \in Seq(1..Len(ledger'))
  BY <1>1, SeqOfMore
<1>3. box \in [Runs -> Seq(1..Len(ledger'))]
  BY <1>2 DEF BoxesTyped
<1>4. ASSUME NEW r \in Runs, TakeNotices(r) PROVE BoxesTyped'
  <2>1. box' = [box EXCEPT ![r] = <<>>] /\ <<>> \in Seq(1..Len(ledger'))
    BY <1>4 DEF TakeNotices
  <2> QED BY <1>3, <2>1 DEF BoxesTyped
<1>5. ASSUME NEW c \in Subs, Push(c) PROVE BoxesTyped'
  <2>1. PICK i \in 1..Len(ledger) : box' = [box EXCEPT ![up[c]] = Append(box[up[c]], i)]
    BY <1>5 DEF Push
  <2>2. up[c] \in Runs /\ i \in 1..Len(ledger')
    BY <1>1 DEF FamilyInv, FamilyRows, RowsTyped
  <2>3. box[up[c]] \in Seq(1..Len(ledger'))
    BY <1>3, <2>2
  <2>4. Append(box[up[c]], i) \in Seq(1..Len(ledger'))
    BY <2>2, <2>3
  <2> QED BY <1>3, <2>1, <2>2, <2>4 DEF BoxesTyped
<1>6. UNCHANGED box => BoxesTyped'
  BY <1>3 DEF BoxesTyped
<1>7. UNCHANGED box \/ (\E r \in Runs : TakeNotices(r)) \/ (\E c \in Subs : Push(c))
  BY DEF DelegationNext, Going, Ending, Ask, Answered, TakeInput, SendWrite, Settle, Close, Finish, LeaveLoop, Cut, Spend, Delegate,
         SendStart, Steer, FailOuter, NextRun, FinalizeError, Accumulate, Return, Deliver, Commit, delegVars
<1> QED BY <1>4, <1>5, <1>6, <1>7

LEMMA SpentTypedStep ==
    ASSUME FamilyInv, SpentTyped, [DelegationNext]_delegVars
    PROVE  SpentTyped'
<1>0. /\ runRow \in [Runs -> [state : States, own : Nat, delegated : Nat]] /\ up \in [Subs -> Runs]
      /\ cutOff \in [Runs -> BOOLEAN] /\ (\A r \in Runs : runRow[r].own <= MaxSpend) /\ MaxSpend \in Nat
  BY DelegationAssumption DEF FamilyInv, FamilyRows, RowsTyped, SpentTyped
<1>1. cutOff' \in [Runs -> BOOLEAN]
  <2>1. ASSUME NEW r, cutOff' = CutFrom(r) PROVE cutOff' \in [Runs -> BOOLEAN]
    <3>1. \A d \in Runs : (cutOff[d] \/ d = r \/ d \in Below(r)) \in BOOLEAN
      BY Zenon
    <3> QED BY <2>1, <3>1 DEF CutFrom
  <2>2. ASSUME NEW p \in Runs, NEW c \in Subs, Delegate(p, c) PROVE cutOff' \in [Runs -> BOOLEAN]
    <3>1. cutOff' = [cutOff EXCEPT ![c] = cutOff[p]]
      BY <2>2 DEF Delegate
    <3> QED BY <1>0, <3>1
  <2>3. \/ UNCHANGED cutOff \/ (\E r \in Runs : cutOff' = CutFrom(r)) \/ (\E p \in Runs, c \in Subs : Delegate(p, c))
    BY FamilyFacts
       DEF DelegationNext, Going, Ending, Ask, Answered, TakeInput, TakeNotices, SendWrite, Settle, Close, Finish, LeaveLoop, Cut,
           Spend, SendStart, Steer, FailOuter, NextRun, FinalizeError, Accumulate, Return, Deliver, Commit, Push, delegVars
  <2> QED BY <1>0, <2>1, <2>2, <2>3
<1>2. \A r \in Runs : runRow'[r].own <= MaxSpend
  <2>1. ASSUME NEW r \in Runs, NEW state, runRow' = [runRow EXCEPT ![r].state = state] PROVE \A d \in Runs : runRow'[d].own = runRow[d].own
    BY <1>0, <2>1
  <2>2. ASSUME NEW c \in Subs, Accumulate(c) PROVE \A d \in Runs : runRow'[d].own = runRow[d].own
    BY <1>0, <2>2 DEF Accumulate
  <2>3. ASSUME NEW c \in Subs, Spend(c) PROVE \A r \in Runs : runRow'[r].own <= MaxSpend
    <3>1. c \in Runs /\ runRow[c].own < MaxSpend /\ runRow' = [runRow EXCEPT ![c].own = runRow[c].own + 1]
      BY <2>3, FamilyFacts DEF Spend
    <3>2. runRow[c].own \in Nat /\ \A d \in Runs : runRow'[d].own = IF d = c THEN runRow[c].own + 1 ELSE runRow[d].own
      BY <1>0, <3>1
    <3> QED BY <1>0, <3>1, <3>2
  <2>4. \/ UNCHANGED runRow \/ (\E state : \E r \in Runs : runRow' = [runRow EXCEPT ![r].state = state])
        \/ (\E c \in Subs : Accumulate(c) \/ Spend(c))
    BY FamilyFacts
       DEF DelegationNext, Going, Ending, Ask, Answered, TakeInput, TakeNotices, SendWrite, Settle, Close, Finish, LeaveLoop, Cut,
           Delegate, SendStart, Steer, FailOuter, NextRun, FinalizeError, Return, Deliver, Commit, Push, delegVars, SetState
  <2> QED BY <1>0, <2>1, <2>2, <2>3, <2>4
<1> QED BY <1>1, <1>2 DEF SpentTyped

LEMMA DelegationTypesHold == DelegationSpec => []DelegationTypeOK
<1> DEFINE Inv == CountInv /\ InputsTyped /\ BoxesTyped /\ SpentTyped
<1>1. DelegationInit => Inv
  <2> SUFFICES ASSUME DelegationInit PROVE Inv
    OBVIOUS
  <2>1. CountInv
    BY CountFirst
  <2>2. InputsTyped
    BY DEF DelegationInit, InputsTyped
  <2>3. BoxesTyped
    <3>1. <<>> \in Seq(1..Len(ledger)) /\ box = [r \in Runs |-> <<>>]
      BY DEF DelegationInit
    <3> QED BY <3>1 DEF BoxesTyped
  <2>4. SpentTyped
    <3>1. cutOff = [r \in Runs |-> FALSE] /\ \A r \in Runs : runRow[r].own = 0
      BY DEF DelegationInit
    <3> QED BY <3>1, DelegationAssumption DEF SpentTyped
  <2> QED BY <2>1, <2>2, <2>3, <2>4
<1>2. Inv /\ [DelegationNext]_delegVars => Inv'
  <2> SUFFICES ASSUME Inv, [DelegationNext]_delegVars PROVE Inv'
    OBVIOUS
  <2>1. FamilyInv
    BY DEF CountInv
  <2> QED BY <2>1, CountStep, InputsTypedStep, BoxesTypedStep, SpentTypedStep
<1>3. Inv => DelegationTypeOK
  <2> SUFFICES ASSUME Inv PROVE DelegationTypeOK
    OBVIOUS
  <2>1. RowsTyped /\ line \in [Subs -> SUBSET Runs]
    BY DEF CountInv, FamilyInv, FamilyRows, LineInv
  <2>2. runRow \in [Runs -> [state : States, own : 0..MaxSpend, delegated : Nat]]
    <3>1. ASSUME NEW r \in Runs PROVE runRow[r] \in [state : States, own : 0..MaxSpend, delegated : Nat]
      <4>1. runRow[r] \in [state : States, own : Nat, delegated : Nat] /\ runRow[r].own <= MaxSpend /\ MaxSpend \in Nat
        BY <2>1, DelegationAssumption DEF RowsTyped, SpentTyped
      <4>2. runRow[r].own \in 0..MaxSpend
        BY <4>1
      <4> QED BY <4>1, <4>2
    <3> QED BY <2>1, <3>1 DEF RowsTyped
  <2>3. \A i \in 1..Len(ledger) :
         /\ ledger[i].to \in Runs /\ ledger[i].from \in Runs
         /\ ledger[i].kind \in {"notification", "user_input"}
         /\ ledger[i].status \in {"admitted", "guided", "discarded"}
    BY DEF InputsTyped, InputRow, InputKinds
  <2>4. \A r \in Runs : box[r] \in Seq(1..Len(ledger))
    BY DEF BoxesTyped
  <2> QED BY <2>1, <2>2, <2>3, <2>4 DEF DelegationTypeOK, RowsTyped, SpentTyped
<1> HIDE DEF Inv
<1> QED BY <1>1, <1>2, <1>3, PTL DEF DelegationSpec

-----------------------------------------------------------------------------
(* The types of a round of the model (module ModelRound)                   *)

\* A set of numbers that is not empty has a least one.
LEMMA LeastNat ==
    ASSUME NEW I, I \subseteq Nat, I # {}
    PROVE  \E x \in I : \A y \in I : x <= y
<1>1. PICK x \in I : \A y \in I : ~ (<<y, x>> \in OpToRel(<, Nat))
  BY NatLessThanWellFounded, WFMin
<1>2. \A y \in I : ~ (y < x)
  BY <1>1 DEF OpToRel
<1> QED BY <1>2

LEMMA RemovedOne ==
    ASSUME NEW S, NEW s \in Seq(S), NEW e \in ToSet(s)
    PROVE  RemoveFirst(s, e) \in Seq(S) /\ Len(RemoveFirst(s, e)) = Len(s) - 1
<1>1. PICK I : I = {i \in 1..Len(s) : s[i] = e}
  OBVIOUS
<1>2. I # {} /\ I \subseteq 0..Len(s) /\ I \subseteq 1..Len(s) /\ Len(s) \in Nat
  BY <1>1 DEF ToSet
<1>4. Min(I) \in I
  <2>1. \E x \in I : \A y \in I : x <= y
    <3>1. I \subseteq Nat /\ I # {}
      BY <1>2
    <3> QED BY <3>1, LeastNat
  <2> QED BY <2>1 DEF Min
<1>5. PICK m \in 1..Len(s) : m = Min(I)
  BY <1>2, <1>4
<1>6. SelectInSeq(s, LAMBDA v : v = e) = m
  BY <1>1, <1>2, <1>5 DEF SelectInSeq
<1>7. RemoveFirst(s, e) = SubSeq(s, 1, m - 1) \o SubSeq(s, m + 1, Len(s))
  <2>1. \E k \in 1..Len(s) : s[k] = e
    BY <1>1, <1>2
  <2> QED BY <1>6, <2>1 DEF RemoveFirst, RemoveAt
<1>8. SubSeq(s, 1, m - 1) \in Seq(S) /\ Len(SubSeq(s, 1, m - 1)) = m - 1
  <2>1. \A k \in 1..m-1 : s[k] \in S
    BY <1>2
  <2>2. 1 \in Int /\ m - 1 \in Int
    OBVIOUS
  <2>3. /\ SubSeq(s, 1, m - 1) \in Seq(S)
        /\ Len(SubSeq(s, 1, m - 1)) = IF 1 <= m - 1 THEN m - 1 - 1 + 1 ELSE 0
    BY <2>1, <2>2, SubSeqProperties
  <2>4. PICK left : left = Len(SubSeq(s, 1, m - 1))
    OBVIOUS
  <2>5. left = m - 1
    BY <2>3, <2>4
  <2> QED BY <2>3, <2>4, <2>5
<1>9. SubSeq(s, m + 1, Len(s)) \in Seq(S) /\ Len(SubSeq(s, m + 1, Len(s))) = Len(s) - m
  <2>1. \A k \in m+1..Len(s) : s[k] \in S
    BY <1>2
  <2>2. m + 1 \in Int /\ Len(s) \in Int
    BY <1>2
  <2>3. /\ SubSeq(s, m + 1, Len(s)) \in Seq(S)
        /\ Len(SubSeq(s, m + 1, Len(s))) = IF m + 1 <= Len(s) THEN Len(s) - (m + 1) + 1 ELSE 0
    BY <2>1, <2>2, SubSeqProperties
  <2>4. PICK right : right = Len(SubSeq(s, m + 1, Len(s)))
    OBVIOUS
  <2>5. right = Len(s) - m
    BY <1>2, <2>3, <2>4
  <2> QED BY <2>3, <2>4, <2>5
<1>10. PICK a \in Seq(S), b \in Seq(S) : a = SubSeq(s, 1, m - 1) /\ b = SubSeq(s, m + 1, Len(s))
  BY <1>8, <1>9
<1>11. a \o b \in Seq(S) /\ Len(a \o b) = Len(a) + Len(b)
  OBVIOUS
<1>12. Len(a) + Len(b) = Len(s) - 1
  <2>1. Len(a) = m - 1 /\ Len(b) = Len(s) - m
    BY <1>8, <1>9, <1>10
  <2>2. m \in Nat /\ Len(s) \in Nat
    BY <1>2
  <2> QED BY ONLY <2>1, <2>2
<1> QED BY <1>7, <1>10, <1>11, <1>12

Models == ToSet(Group)
RoundShaped ==
    /\ current \in Models /\ order \in Seq(Models) /\ Len(order) = Len(Group)
    /\ index \in 1..Len(Group) /\ attempt \in 1..MaxAttempts
    /\ standing \in {"idle", "building", "asking", "streaming", "pausing", "done", "failed", "cut"}
    /\ standing = "pausing" => attempt < MaxAttempts
    /\ drawn \in BOOLEAN /\ runCut \in BOOLEAN
    /\ modelRounds \in 0..MaxModelRounds
ShownShaped == screen \subseteq Outputs /\ stored \subseteq Outputs

LEMMA GroupFacts ==
    /\ Group \in Seq(Models) /\ Len(Group) \in Nat /\ Len(Group) >= 1 /\ MaxAttempts \in Nat /\ MaxAttempts >= 1
    /\ MaxModelRounds \in Nat
<1>1. Group \in Seq(Models) /\ Group # <<>>
  BY ModelRoundAssumption DEF Models
<1> QED BY <1>1, ModelRoundAssumption

LEMMA OutputShaped == RoundShaped => Output \in Outputs /\ order[index] \in Models
<1> SUFFICES ASSUME RoundShaped PROVE Output \in Outputs /\ order[index] \in Models
  OBVIOUS
<1>1. order[index] \in Models
  BY DEF RoundShaped
<1> QED BY <1>1 DEF RoundShaped, Output, Outputs, Models

LEMMA RoundShapedStep == RoundShaped /\ [ModelRoundNext]_roundVars => RoundShaped'
<1> SUFFICES ASSUME RoundShaped, [ModelRoundNext]_roundVars PROVE RoundShaped'
  OBVIOUS
<1> USE GroupFacts DEF RoundShaped
<1>1. CASE StartModelRound
  <2>1. PICK rest : rest = RemoveFirst(Group, current)
    OBVIOUS
  <2>2. rest \in Seq(Models) /\ Len(rest) = Len(Group) - 1
    BY <2>1, RemovedOne DEF Models
  <2>3. order' = <<current>> \o rest /\ current \in Models
    BY <1>1, <2>1 DEF StartModelRound
  <2>4. order' \in Seq(Models) /\ Len(order') = Len(Group)
    <3>1. <<current>> \o rest \in Seq(Models) /\ Len(<<current>> \o rest) = 1 + Len(rest)
      BY <2>2, <2>3
    <3>2. 1 + Len(rest) = Len(Group)
      BY <2>2
    <3> QED BY <2>3, <3>1, <3>2
  <2>5. modelRounds' \in 0..MaxModelRounds
    BY <1>1 DEF StartModelRound
  <2>6. /\ index' = 1 /\ attempt' = 1 /\ standing' = "building" /\ drawn' = FALSE
        /\ UNCHANGED <<current, runCut>>
    BY <1>1 DEF StartModelRound
  <2>7. index' \in 1..Len(Group) /\ attempt' \in 1..MaxAttempts
    BY <2>6
  <2> QED BY <2>4, <2>5, <2>6, <2>7
<1>2. ASSUME NEW reset, Failover(reset)
      PROVE  index' \in 1..Len(Group) /\ attempt' \in 1..MaxAttempts /\ standing' \in {"failed", "building"}
  BY <1>2 DEF Failover
<1>3. ASSUME NEW retryable, NEW wrote, AfterFailure(retryable, wrote)
      PROVE  /\ index' \in 1..Len(Group) /\ attempt' \in 1..MaxAttempts
             /\ standing' \in {"failed", "building", "pausing"} /\ (standing' = "pausing" => attempt' < MaxAttempts)
  <2>1. \/ standing' = "pausing" /\ UNCHANGED <<index, attempt>> /\ attempt < MaxAttempts
        \/ Failover(wrote)
    BY <1>3 DEF AfterFailure
  <2> QED BY <1>2, <2>1
<1>4. CASE BuildClient
  <2>1. /\ UNCHANGED <<current, order, runCut, modelRounds>> /\ drawn' \in BOOLEAN
        /\ (standing' = "asking" /\ UNCHANGED <<index, attempt>>) \/ Failover(FALSE)
    BY <1>4 DEF BuildClient
  <2> QED BY <1>2, <2>1
<1>5. CASE Request
  <2>1. /\ UNCHANGED <<current, order, runCut, modelRounds>> /\ drawn' \in BOOLEAN
        /\ \/ standing' \in {"streaming", "cut"} /\ UNCHANGED <<index, attempt>>
           \/ \E retryable \in BOOLEAN : AfterFailure(retryable, FALSE)
    BY <1>5 DEF Request
  <2> QED BY <1>3, <2>1
<1>6. CASE Chunk
  BY <1>6 DEF Chunk
<1>7. CASE StreamDone
  BY <1>7, OutputShaped DEF StreamDone
<1>8. CASE StreamFails
  <2>1. UNCHANGED <<current, order, drawn, runCut, modelRounds>> /\ AfterFailure(TRUE, drawn)
    BY <1>8 DEF StreamFails
  <2> QED BY <1>3, <2>1
<1>9. CASE RoundCut
  BY <1>9 DEF RoundCut
<1>10. CASE Retry
  BY <1>10 DEF Retry
<1>11. CASE CutRun
  BY <1>11 DEF CutRun
<1>12. CASE UNCHANGED roundVars
  BY <1>12 DEF roundVars
<1> QED
  BY <1>1, <1>4, <1>5, <1>6, <1>7, <1>8, <1>9, <1>10, <1>11, <1>12 DEF ModelRoundNext

LEMMA ShownShapedStep == RoundShaped /\ ShownShaped /\ [ModelRoundNext]_roundVars => ShownShaped'
<1> SUFFICES ASSUME RoundShaped, ShownShaped, [ModelRoundNext]_roundVars PROVE ShownShaped'
  OBVIOUS
<1>1. Output \in Outputs
  BY OutputShaped
<1>2. Outputs' = Outputs
  BY DEF Outputs
<1>3. screen' \subseteq screen \cup {Output} \/ screen' = {}
  BY DEF ModelRoundNext, StartModelRound, BuildClient, Request, Chunk, StreamDone, StreamFails, RoundCut, Retry, CutRun, roundVars,
         AfterFailure, Failover, ClearIf
<1>4. stored' = stored \/ stored' \subseteq {Output}
  BY DEF ModelRoundNext, StartModelRound, BuildClient, Request, Chunk, StreamDone, StreamFails, RoundCut, Retry, CutRun, roundVars
<1> QED BY <1>1, <1>2, <1>3, <1>4 DEF ShownShaped

LEMMA ModelRoundTypesHold == ModelRoundSpec => []ModelRoundTypeOK
<1>1. ModelRoundInit => RoundShaped /\ ShownShaped
  <2> SUFFICES ASSUME ModelRoundInit PROVE RoundShaped /\ ShownShaped
    OBVIOUS
  <2>1. current = Head(Group) /\ order = Group /\ index = 1 /\ attempt = 1 /\ standing = "idle" /\ drawn = FALSE /\ runCut = FALSE
        /\ modelRounds = 0 /\ screen = {} /\ stored = {}
    BY DEF ModelRoundInit
  <2>2. Head(Group) \in Models
    BY GroupFacts
  <2>3. current \in Models /\ order \in Seq(Models) /\ Len(order) = Len(Group)
    BY <2>1, <2>2, GroupFacts
  <2>4. index \in 1..Len(Group) /\ attempt \in 1..MaxAttempts /\ modelRounds \in 0..MaxModelRounds
    BY <2>1, GroupFacts
  <2>5. RoundShaped
    BY <2>1, <2>3, <2>4 DEF RoundShaped
  <2> QED BY <2>1, <2>5 DEF ShownShaped
<1>2. RoundShaped /\ ShownShaped => ModelRoundTypeOK
  BY DEF RoundShaped, ShownShaped, ModelRoundTypeOK, Models
<1> QED BY <1>1, <1>2, RoundShapedStep, ShownShapedStep, PTL DEF ModelRoundSpec

-----------------------------------------------------------------------------
(* The types of the gateway (module Gateway)                               *)

LEMMA ChatsFirst == GatewayInit => ChatsInv
<1> SUFFICES ASSUME GatewayInit PROVE ChatsInv
  OBVIOUS
<1>1. talks = <<>> /\ boss = [c \in Chats |-> 0] /\ newest = [c \in Chats |-> 0]
  BY DEF GatewayInit
<1>2. talks \in Seq(ToSet(talks)) /\ Len(talks) = 0
  BY <1>1
<1> QED BY <1>1, <1>2 DEF ChatsInv, NewestIsHeard

Numbers == 0..MaxQuestions
Pushes == [chat : Chats, session : Sessions]
TalkFields ==
    [chat : Chats, parent : Nat, forced : BOOLEAN, session : 0..MaxSessions, place : TalkPlaces,
     pending : Numbers, asked : Numbers, replies : Seq(Numbers), spread : BOOLEAN, cut : BOOLEAN]
(* A talk that replies to one of n results; it has a session once it is routed. *)
TalkFits(talk, n) ==
    /\ talk \in TalkFields /\ talk.parent <= n /\ Len(talk.replies) <= ReplyBuffer
    /\ talk.place # "routing" \/ talk.spread => talk.session # 0

PushedTyped == results \in Seq(Pushes)
TalksTyped == \A a \in 1..Len(talks) : TalkFits(talks[a], Len(results))
RoutesTyped == bound \in [Chats -> 0..MaxSessions] /\ ids \in 0..MaxSessions
HoldersTyped == holder \in [Sessions -> 0..Len(talks)]
GatewayTyped == ChatsInv /\ PushedTyped /\ TalksTyped /\ RoutesTyped /\ HoldersTyped

LEMMA GatewayFacts ==
    /\ MaxTalks \in Nat /\ MaxSessions \in Nat /\ MaxQuestions \in Nat /\ ReplyBuffer \in Nat /\ ReplyBuffer >= 1
    /\ IsFiniteSet(Chats)
  BY GatewayAssumption

LEMMA SetListed ==
    ASSUME NEW S, NEW T, T \subseteq S, IsFiniteSet(T)
    PROVE  SetToSeq(T) \in Seq(S)
<1>1. PICK n \in Nat : n = Cardinality(T)
  BY FS_CardinalityType
<1>2. \E f \in [1..n -> T] : IsInjective(f)
  BY <1>1, FS_CardinalityType DEF ExistsBijection, Bijection, Injection
<1>3. SetToSeq(T) \in [1..n -> T]
  BY <1>1, <1>2 DEF SetToSeq
<1>4. SetToSeq(T) \in Seq(T)
  BY <1>3, SeqDef
<1> QED BY <1>4

(* Who gets a result in its own chat, too. *)
Spread(session, chats) == {[chat |-> c, session |-> session] : c \in chats}
LEMMA SpreadListed ==
    ASSUME NEW session \in Sessions, NEW chats \in SUBSET Chats
    PROVE  SetToSeq(Spread(session, chats)) \in Seq(Pushes)
<1>1. PICK T : T = Spread(session, chats)
  OBVIOUS
<1>2. T \subseteq Pushes /\ \A p \in T : p = [chat |-> p.chat, session |-> session] /\ p.chat \in Chats
  BY <1>1 DEF Spread, Pushes
<1>3. PICK f : f = [p \in T |-> p.chat]
  OBVIOUS
<1>4. f \in [T -> Chats] /\ IsInjective(f)
  BY <1>2, <1>3 DEF IsInjective
<1>5. f \in Injection(T, Chats)
  BY <1>4 DEF Injection
<1>6. IsFiniteSet(T)
  BY <1>5, FS_Injection, GatewayFacts
<1>7. SetToSeq(T) \in Seq(Pushes)
  BY <1>2, <1>6, SetListed
<1> QED BY <1>1, <1>7

(* A buffer takes one more reply. *)
LEMMA BufferTakes ==
    ASSUME NEW replies \in Seq(Numbers), Len(replies) <= ReplyBuffer, NEW reply \in Numbers
    PROVE  Buffered(replies, reply) \in Seq(Numbers) /\ Len(Buffered(replies, reply)) <= ReplyBuffer
<1>1. CASE Len(replies) = ReplyBuffer
  <2>1. replies # <<>>
    BY <1>1, GatewayFacts
  <2>2. PICK t \in Seq(Numbers) : t = Tail(replies) /\ Len(t) = Len(replies) - 1
    BY <2>1, HeadTailProperties
  <2>3. Buffered(replies, reply) = Append(t, reply)
    BY <1>1, <2>2 DEF Buffered
  <2>4. Append(t, reply) \in Seq(Numbers) /\ Len(Append(t, reply)) = Len(t) + 1
    OBVIOUS
  <2>5. Len(t) + 1 = ReplyBuffer
    BY <1>1, <2>2, GatewayFacts
  <2> QED BY <2>3, <2>4, <2>5, GatewayFacts
<1>2. CASE Len(replies) # ReplyBuffer
  <2>1. Buffered(replies, reply) = Append(replies, reply)
    BY <1>2 DEF Buffered
  <2>2. Append(replies, reply) \in Seq(Numbers) /\ Len(Append(replies, reply)) = Len(replies) + 1
    OBVIOUS
  <2>3. Len(replies) + 1 <= ReplyBuffer
    BY <1>2, GatewayFacts
  <2> QED BY <2>1, <2>2, <2>3
<1> QED BY <1>1, <1>2

(* The results only grow. *)
LEMMA ResultsGrow ==
    ASSUME GatewayTyped, [GatewayNext]_gwVars
    PROVE  PushedTyped' /\ Len(results) \in Nat /\ Len(results') \in Nat /\ Len(results) <= Len(results')
<1>1. results \in Seq(Pushes) /\ Len(results) \in Nat
  BY DEF GatewayTyped, PushedTyped
<1>2. ASSUME NEW a \in 1..Len(talks), TalkFits(talks[a], Len(results)), talks[a].session # 0
      PROVE  talks[a].chat \in Chats /\ talks[a].session \in Sessions
  BY <1>2, GatewayFacts DEF TalkFits, TalkFields, Sessions
<1>3. \A a \in 1..Len(talks) : TalkFits(talks[a], Len(results))
  BY DEF GatewayTyped, TalksTyped
<1>4. \/ UNCHANGED results
      \/ \E push \in Pushes : results' = Append(results, push)
      \/ \E more \in Seq(Pushes) : results' = results \o more
  <2>1. ASSUME NEW a \in 1..Len(talks), End(a)
        PROVE  UNCHANGED results \/ \E push \in Pushes : results' = Append(results, push)
    <3>1. talks[a].session # 0
      BY <1>3, <2>1 DEF End, TalkFits
    <3>2. [chat |-> talks[a].chat, session |-> talks[a].session] \in Pushes
      BY <1>2, <1>3, <3>1 DEF Pushes
    <3> QED BY <2>1, <3>2 DEF End
  <2>2. ASSUME NEW a \in 1..Len(talks), CrossDeliver(a)
        PROVE  \E more \in Seq(Pushes) : results' = results \o more
    <3>1. talks[a].session \in Sessions
      BY <1>2, <1>3, <2>2 DEF CrossDeliver, TalkFits
    <3>2. PICK chats \in SUBSET Chats : chats = {d \in Chats \ {talks[a].chat} : bound[d] # 0}
      OBVIOUS
    <3>3. results' = results \o SetToSeq(Spread(talks[a].session, chats))
      BY <2>2, <3>2 DEF CrossDeliver, Spread
    <3> QED BY <3>1, <3>3, SpreadListed
  <2>3. \/ UNCHANGED results
        \/ \E a \in 1..Len(talks) : End(a) \/ CrossDeliver(a)
    BY DEF GatewayNext, gwVars, Reply, Arrive, NewSession, CancelChat, Route, Bind, Mount, Start, AskChat, ReadReply, AskEnds,
           Unmount
  <2> QED BY <2>1, <2>2, <2>3
<1>5. ASSUME NEW push \in Pushes, results' = Append(results, push)
      PROVE  results' \in Seq(Pushes) /\ Len(results') = Len(results) + 1
  BY <1>1, <1>5
<1>6. ASSUME NEW more \in Seq(Pushes), results' = results \o more
      PROVE  results' \in Seq(Pushes) /\ Len(results') = Len(results) + Len(more) /\ Len(more) \in Nat
  BY <1>1, <1>6
<1> QED BY <1>1, <1>4, <1>5, <1>6 DEF PushedTyped

(* Where a message is routed to. *)
LEMMA RoutedTyped ==
    ASSUME GatewayTyped, NEW a \in 1..Len(talks)
    PROVE  SessionOf(a) \in 0..MaxSessions
<1>1. /\ talks[a].chat \in Chats /\ talks[a].parent \in 0..Len(results)
  BY DEF GatewayTyped, TalksTyped, TalkFits, TalkFields
<1>2. talks[a].parent # 0 =>
        results[talks[a].parent].chat \in Chats /\ results[talks[a].parent].session \in Sessions
  <2>1. results \in Seq(Pushes)
    BY DEF GatewayTyped, PushedTyped
  <2>2. \A m \in 1..Len(results) : results[m] \in Pushes
    BY <2>1
  <2>3. \A m \in 1..Len(results) : results[m].chat \in Chats /\ results[m].session \in Sessions
    BY <2>2 DEF Pushes
  <2>4. talks[a].parent # 0 => talks[a].parent \in 1..Len(results)
    BY <1>1
  <2> QED BY <2>3, <2>4
<1>3. bound \in [Chats -> 0..MaxSessions]
  BY DEF GatewayTyped, RoutesTyped
<1> QED BY <1>1, <1>2, <1>3, GatewayFacts DEF SessionOf, Sessions

LEMMA RoutesTypedStep == GatewayTyped /\ [GatewayNext]_gwVars => RoutesTyped'
<1> SUFFICES ASSUME GatewayTyped, [GatewayNext]_gwVars PROVE RoutesTyped'
  OBVIOUS
<1>1. bound \in [Chats -> 0..MaxSessions] /\ ids \in 0..MaxSessions
  BY DEF GatewayTyped, RoutesTyped
<1>2. CASE UNCHANGED <<bound, ids>>
  BY <1>1, <1>2 DEF RoutesTyped
<1>3. ASSUME NEW chat \in Chats, NewSession(chat) PROVE RoutesTyped'
  BY <1>1, <1>3, GatewayFacts DEF NewSession, RoutesTyped
<1>4. ASSUME NEW a \in 1..Len(talks), Route(a) PROVE RoutesTyped'
  BY <1>1, <1>4, GatewayFacts DEF Route, RoutesTyped
<1>5. ASSUME NEW a \in 1..Len(talks), Bind(a) PROVE RoutesTyped'
  <2>1. talks[a].session \in 0..MaxSessions /\ talks[a].chat \in Chats
    BY DEF GatewayTyped, TalksTyped, TalkFits, TalkFields
  <2> QED BY <1>1, <1>5, <2>1 DEF Bind, RoutesTyped
<1>6. \/ UNCHANGED <<bound, ids>>
      \/ \E chat \in Chats : NewSession(chat)
      \/ \E a \in 1..Len(talks) : Route(a) \/ Bind(a)
  BY DEF GatewayNext, gwVars, Reply, Arrive, CancelChat, Mount, Start, AskChat, ReadReply, AskEnds, End, CrossDeliver, Unmount
<1> QED BY <1>2, <1>3, <1>4, <1>5, <1>6

LEMMA HoldersTypedStep == GatewayTyped /\ [GatewayNext]_gwVars => HoldersTyped'
<1> SUFFICES ASSUME GatewayTyped, [GatewayNext]_gwVars PROVE HoldersTyped'
  OBVIOUS
<1>1. holder \in [Sessions -> 0..Len(talks)] /\ Len(talks) \in Nat
  BY DEF GatewayTyped, HoldersTyped, ChatsInv
<1>2. Len(talks') \in Nat /\ Len(talks) <= Len(talks')
  <2>1. ChatsInv
    BY DEF GatewayTyped
  <2>2. TalksMove \/ \E a \in 1..Len(talks) : Mount(a) \/ Unmount(a)
    BY <2>1, ChatMoves, TalkingMoves, TalkUntouched DEF GatewayNext, gwVars
  <2>3. TalksMove => Len(talks') \in Nat /\ Len(talks) <= Len(talks')
    BY <1>1 DEF TalksMove
  <2>4. ASSUME NEW a \in 1..Len(talks), Mount(a) \/ Unmount(a) PROVE Len(talks') = Len(talks)
    BY <1>1, <2>1, <2>4 DEF Mount, Unmount, ChatsInv
  <2> QED BY <1>1, <2>2, <2>3, <2>4
<1>3. holder' \in [Sessions -> 0..Len(talks)]
  <2>1. \/ UNCHANGED holder
        \/ \E a \in 1..Len(talks) : Start(a) \/ End(a)
    BY DEF GatewayNext, gwVars, Reply, Arrive, NewSession, CancelChat, Route, Bind, Mount, AskChat, ReadReply, AskEnds,
           CrossDeliver, Unmount
  <2>2. ASSUME NEW a \in 1..Len(talks), Start(a) PROVE holder' \in [Sessions -> 0..Len(talks)]
    BY <1>1, <2>2 DEF Start
  <2>3. ASSUME NEW a \in 1..Len(talks), End(a) PROVE holder' \in [Sessions -> 0..Len(talks)]
    <3>1. holder' = [holder EXCEPT ![talks[a].session] = 0]
      BY <2>3 DEF End
    <3>2. PICK s : s = talks[a].session
      OBVIOUS
    <3>3. PICK n \in Nat : n = Len(talks)
      BY <1>1
    <3>4. 0 \in 0..n /\ holder \in [Sessions -> 0..n] /\ holder' = [holder EXCEPT ![s] = 0]
      BY <1>1, <3>1, <3>2, <3>3
    <3>5. holder' \in [Sessions -> 0..n]
      BY ONLY <3>4
    <3> QED BY <3>3, <3>5
  <2> QED BY <1>1, <2>1, <2>2, <2>3
<1> QED BY <1>1, <1>2, <1>3 DEF HoldersTyped

(* The talks but one are as they were, and that one still fits. *)
LEMMA TalksStillFit ==
    ASSUME GatewayTyped, NEW a \in 1..Len(talks), OnlyTalk(a), TalkFits(talks'[a], Len(results)),
           Len(results) \in Nat, Len(results') \in Nat, Len(results) <= Len(results')
    PROVE  TalksTyped'
<1>1. Len(talks') = Len(talks)
  BY RewrittenRows DEF GatewayTyped, ChatsInv, OnlyTalk
<1>2. \A b \in 1..Len(talks) : TalkFits(talks[b], Len(results))
  BY DEF GatewayTyped, TalksTyped
<1>3. \A b \in 1..Len(talks) : TalkFits(talks'[b], Len(results))
  BY <1>2 DEF OnlyTalk
<1>4. ASSUME NEW talk, TalkFits(talk, Len(results)) PROVE TalkFits(talk, Len(results'))
  BY <1>4 DEF TalkFits, TalkFields
<1> QED BY <1>1, <1>3, <1>4 DEF TalksTyped

Moved(talk, waiting, replies, place, spread) ==
    [talk EXCEPT !.pending = waiting, !.replies = replies, !.place = place, !.spread = spread]

LEMMA HandlerFits ==
    ASSUME GatewayTyped, NEW a \in 1..Len(talks),
           \/ Route(a) \/ Bind(a) \/ Mount(a) \/ Start(a) \/ AskChat(a) \/ ReadReply(a) \/ AskEnds(a)
           \/ End(a) \/ CrossDeliver(a) \/ Unmount(a)
    PROVE  OnlyTalk(a) /\ TalkFits(talks'[a], Len(results))
<1>1. DOMAIN talks = 1..Len(talks) /\ Len(talks) \in Nat
  BY DEF GatewayTyped, ChatsInv
<1>2. TalkFits(talks[a], Len(results))
  BY DEF GatewayTyped, TalksTyped
<1> PICK old : old = talks[a]
  OBVIOUS
<1>3. /\ old \in TalkFields /\ old.parent <= Len(results) /\ Len(old.replies) <= ReplyBuffer
      /\ old.place # "routing" \/ old.spread => old.session # 0
      /\ old.pending \in Numbers /\ old.asked \in Numbers /\ old.replies \in Seq(Numbers) /\ old.chat \in Chats
      /\ old.session \in 0..MaxSessions
  BY <1>2 DEF TalkFits, TalkFields
<1>4. bound \in [Chats -> 0..MaxSessions] /\ ids \in 0..MaxSessions
  BY DEF GatewayTyped, RoutesTyped
<1> USE <1>1 DEF OnlyTalk, Is
<1>5. ASSUME NEW session \in 0..MaxSessions, NEW place \in TalkPlaces, place # "routing" \/ old.spread => session # 0,
             talks'[a] = [old EXCEPT !.session = session, !.place = place]
      PROVE  TalkFits(talks'[a], Len(results))
  BY <1>3, <1>5 DEF TalkFits, TalkFields
<1>6. ASSUME NEW place \in TalkPlaces \ {"routing"}, old.place # "routing",
             NEW waiting \in Numbers, NEW replies \in Seq(Numbers), Len(replies) <= ReplyBuffer, NEW spread \in BOOLEAN,
             talks'[a] = Moved(old, waiting, replies, place, spread)
      PROVE  TalkFits(talks'[a], Len(results))
  BY <1>3, <1>6 DEF TalkFits, TalkFields, Moved
<1>7. CASE Route(a)
  <2>1. PICK s : s = SessionOf(a)
    OBVIOUS
  <2>2. s \in 0..MaxSessions
    BY <2>1, RoutedTyped
  <2>3. /\ OnlyTalk(a)
        /\ \/ s # 0 /\ talks'[a] = [old EXCEPT !.session = s, !.place = "mounting"]
           \/ ids < MaxSessions /\ talks'[a] = [old EXCEPT !.session = ids + 1, !.place = "binding"]
    BY <1>7, <2>1 DEF Route
  <2>4. ids < MaxSessions => ids + 1 \in 0..MaxSessions /\ ids + 1 # 0
    BY <1>4, GatewayFacts
  <2> QED BY <1>5, <2>2, <2>3, <2>4 DEF TalkPlaces
<1>8. CASE Bind(a)
  <2>1. PICK s : s = IF bound[old.chat] # 0 /\ ~old.forced THEN bound[old.chat] ELSE old.session
    OBVIOUS
  <2>2. OnlyTalk(a) /\ talks'[a] = [old EXCEPT !.session = s, !.place = "mounting"] /\ old.place = "binding"
    BY <1>8, <2>1 DEF Bind
  <2>3. s \in 0..MaxSessions /\ s # 0
    BY <1>3, <1>4, <2>1, <2>2
  <2> QED BY <1>5, <2>2, <2>3 DEF TalkPlaces
<1>9. CASE Mount(a) \/ Start(a) \/ AskEnds(a)
  <2>1. PICK place \in {"starting", "running", "returned"} : OnlyTalk(a) /\ talks'[a] = [old EXCEPT !.place = place]
    BY <1>9 DEF Mount, Start, AskEnds
  <2>2. old.place # "routing"
    BY <1>9 DEF Mount, Start, AskEnds
  <2>3. [old EXCEPT !.place = place] = [old EXCEPT !.session = old.session, !.place = place]
    BY <1>3 DEF TalkFields
  <2> QED BY <1>3, <1>5, <2>1, <2>2, <2>3 DEF TalkPlaces
<1>10. CASE AskChat(a)
  <2>1. /\ OnlyTalk(a) /\ old.place = "running" /\ old.asked < MaxQuestions
        /\ talks'[a] = [old EXCEPT !.asked = @ + 1, !.pending = old.asked + 1, !.place = "asking"]
    BY <1>10 DEF AskChat
  <2>2. old.asked + 1 \in Numbers
    BY <1>3, <2>1, GatewayFacts DEF Numbers
  <2> QED BY <1>3, <2>1, <2>2 DEF TalkFits, TalkFields, TalkPlaces
<1>11. CASE ReadReply(a)
  <2>1. PICK place \in {"running", "asking"} :
          /\ OnlyTalk(a) /\ old.place = "asking" /\ old.replies # <<>>
          /\ talks'[a] = [old EXCEPT !.replies = Tail(@), !.pending = 0, !.place = place]
    BY <1>11 DEF ReadReply
  <2>2. PICK t : t = Tail(old.replies)
    OBVIOUS
  <2>3. t \in Seq(Numbers) /\ Len(t) = Len(old.replies) - 1 /\ Len(old.replies) \in Nat
    BY <1>3, <2>1, <2>2, HeadTailProperties
  <2>4. talks'[a] = Moved(old, 0, t, place, old.spread)
    BY <1>3, <2>1, <2>2 DEF TalkFields, Moved
  <2>5. Len(t) <= ReplyBuffer /\ 0 \in Numbers /\ old.spread \in BOOLEAN
    BY <1>3, <2>3, GatewayFacts DEF Numbers, TalkFields
  <2>6. place \in TalkPlaces \ {"routing"} /\ old.place # "routing"
    BY <2>1 DEF TalkPlaces
  <2> QED BY <1>6, <2>1, <2>3, <2>4, <2>5, <2>6
<1>12. CASE End(a)
  <2>1. /\ OnlyTalk(a) /\ old.place \in {"running", "asking"}
        /\ \/ talks'[a] = [old EXCEPT !.pending = 0, !.replies = <<>>, !.place = "returned", !.spread = TRUE]
           \/ talks'[a] = [old EXCEPT !.replies = <<>>, !.place = "returned"]
    BY <1>12 DEF End
  <2>2. \/ talks'[a] = Moved(old, 0, <<>>, "returned", TRUE)
        \/ talks'[a] = Moved(old, old.pending, <<>>, "returned", old.spread)
    <3>1. [old EXCEPT !.pending = 0, !.replies = <<>>, !.place = "returned", !.spread = TRUE]
            = Moved(old, 0, <<>>, "returned", TRUE)
      BY DEF Moved
    <3>2. [old EXCEPT !.replies = <<>>, !.place = "returned"]
            = Moved(old, old.pending, <<>>, "returned", old.spread)
      BY <1>3 DEF TalkFields, Moved
    <3> QED BY <2>1, <3>1, <3>2
  <2>3. <<>> \in Seq(Numbers) /\ Len(<<>>) <= ReplyBuffer /\ 0 \in Numbers /\ old.spread \in BOOLEAN
    BY <1>3, GatewayFacts DEF Numbers, TalkFields
  <2>4. "returned" \in TalkPlaces \ {"routing"} /\ old.place # "routing" /\ TRUE \in BOOLEAN /\ old.pending \in Numbers
    BY <1>3, <2>1 DEF TalkPlaces
  <2>5. TalkFits(talks'[a], Len(results))
    BY <1>6, <2>2, <2>3, <2>4
  <2> QED BY <2>1, <2>5
<1>13. CASE CrossDeliver(a)
  <2>1. OnlyTalk(a) /\ talks'[a] = [old EXCEPT !.spread = FALSE]
    BY <1>13 DEF CrossDeliver
  <2> QED BY <1>3, <2>1 DEF TalkFits, TalkFields
<1>14. CASE Unmount(a)
  <2>1. OnlyTalk(a) /\ old.place = "returned" /\ talks'[a] = [old EXCEPT !.place = "over", !.pending = 0]
    BY <1>14 DEF Unmount
  <2>2. 0 \in Numbers
    BY GatewayFacts DEF Numbers
  <2> QED BY <1>3, <2>1, <2>2 DEF TalkFits, TalkFields, TalkPlaces
<1> QED BY <1>7, <1>8, <1>9, <1>10, <1>11, <1>12, <1>13, <1>14

LEMMA TalksTypedStep == GatewayTyped /\ [GatewayNext]_gwVars => TalksTyped'
<1> SUFFICES ASSUME GatewayTyped, [GatewayNext]_gwVars PROVE TalksTyped'
  OBVIOUS
<1>1. /\ DOMAIN talks = 1..Len(talks) /\ Len(talks) \in Nat /\ boss \in [Chats -> 0..Len(talks)]
      /\ \A a \in 1..Len(talks) : TalkFits(talks[a], Len(results))
  BY DEF GatewayTyped, ChatsInv, TalksTyped
<1>2. Len(results) \in Nat /\ Len(results') \in Nat /\ Len(results) <= Len(results')
  BY ResultsGrow
<1>3. CASE UNCHANGED talks
  <2>1. ASSUME NEW talk, TalkFits(talk, Len(results)) PROVE TalkFits(talk, Len(results'))
    BY <1>2, <2>1 DEF TalkFits, TalkFields
  <2> QED BY <1>1, <1>3, <2>1 DEF TalksTyped
<1>4. ASSUME NEW chat \in Chats, Reply(chat) PROVE TalksTyped'
  <2>1. PICK a \in 1..Len(talks) : a = boss[chat]
    BY <1>1, <1>4 DEF Reply, Questioned
  <2>2. OnlyTalk(a) /\ talks'[a] = [talks[a] EXCEPT !.replies = Buffered(talks[a].replies, talks[a].pending)]
    BY <1>1, <1>4, <2>1 DEF Reply, OnlyTalk
  <2>3. PICK buffer : buffer = Buffered(talks[a].replies, talks[a].pending)
    OBVIOUS
  <2>4. buffer \in Seq(Numbers) /\ Len(buffer) <= ReplyBuffer
    BY <1>1, <2>3, BufferTakes DEF TalkFits, TalkFields
  <2>5. TalkFits(talks'[a], Len(results))
    BY <1>1, <2>2, <2>3, <2>4 DEF TalkFits, TalkFields
  <2> QED BY <1>2, <2>2, <2>5, TalksStillFit
<1>5. ASSUME NEW chat \in Chats, CancelChat(chat) PROVE TalksTyped'
  <2>1. PICK a \in 1..Len(talks) : a = boss[chat]
    BY <1>1, <1>5 DEF CancelChat
  <2>2. OnlyTalk(a) /\ talks'[a] = [talks[a] EXCEPT !.cut = TRUE]
    BY <1>1, <1>5, <2>1 DEF CancelChat, OnlyTalk
  <2>3. TalkFits(talks'[a], Len(results))
    BY <1>1, <2>2 DEF TalkFits, TalkFields
  <2> QED BY <1>2, <2>2, <2>3, TalksStillFit
<1>6. ASSUME NEW chat \in Chats, Arrive(chat) PROVE TalksTyped'
  <2>1. PICK parent \in {0} \cup {m \in 1..Len(results) : results[m].chat = chat}, forced \in BOOLEAN :
          talks' = Append(talks, Talk(chat, parent, forced)) /\ results' = results
    BY <1>6 DEF Arrive
  <2>2. PICK talk : talk = Talk(chat, parent, forced)
    OBVIOUS
  <2>3. parent \in Nat /\ parent <= Len(results) /\ 0 \in 0..MaxSessions /\ 0 \in Numbers /\ <<>> \in Seq(Numbers)
        /\ Len(<<>>) <= ReplyBuffer
    BY <1>2, GatewayFacts DEF Numbers
  <2>4. TalkFits(talk, Len(results))
    BY <2>2, <2>3 DEF Talk, TalkFits, TalkFields, TalkPlaces
  <2>5. /\ Len(talks') = Len(talks) + 1 /\ \A b \in 1..Len(talks) : talks'[b] = talks[b]
        /\ talks'[Len(talks) + 1] = talk
    BY <2>1, <2>2, AppendedRow DEF GatewayTyped, ChatsInv
  <2>6. \A b \in 1..Len(talks') : b \in 1..Len(talks) \/ b = Len(talks) + 1
    BY <1>1, <2>5
  <2> QED BY <1>1, <2>1, <2>4, <2>5, <2>6 DEF TalksTyped
<1>7. ASSUME NEW a \in 1..Len(talks),
             \/ Route(a) \/ Bind(a) \/ Mount(a) \/ Start(a) \/ AskChat(a) \/ ReadReply(a) \/ AskEnds(a)
             \/ End(a) \/ CrossDeliver(a) \/ Unmount(a)
      PROVE  TalksTyped'
  BY <1>2, <1>7, HandlerFits, TalksStillFit
<1>8. ASSUME NEW chat \in Chats, NewSession(chat) PROVE UNCHANGED talks
  BY <1>8 DEF NewSession
<1>9. UNCHANGED gwVars => UNCHANGED talks
  BY DEF gwVars
<1> QED BY <1>3, <1>4, <1>5, <1>6, <1>7, <1>8, <1>9 DEF GatewayNext

LEMMA GatewayTypesHold == GatewaySpec => []GatewayTypeOK
<1>1. GatewayInit => GatewayTyped
  <2> SUFFICES ASSUME GatewayInit PROVE GatewayTyped
    OBVIOUS
  <2>1. /\ results = <<>> /\ talks = <<>> /\ ids = 0
        /\ bound = [c \in Chats |-> 0] /\ holder = [s \in Sessions |-> 0]
    BY DEF GatewayInit
  <2>2. results \in Seq(Pushes) /\ Len(talks) = 0
    BY <2>1
  <2>3. bound \in [Chats -> 0..MaxSessions] /\ ids \in 0..MaxSessions /\ holder \in [Sessions -> 0..Len(talks)]
    BY <2>1, <2>2, GatewayFacts
  <2> QED BY <2>2, <2>3, ChatsFirst DEF GatewayTyped, PushedTyped, TalksTyped, RoutesTyped, HoldersTyped
<1>2. GatewayTyped /\ [GatewayNext]_gwVars => GatewayTyped'
  BY ChatsStep, ResultsGrow, TalksTypedStep, RoutesTypedStep, HoldersTypedStep DEF GatewayTyped
<1>3. GatewayTyped => GatewayTypeOK
  <2> SUFFICES ASSUME GatewayTyped PROVE GatewayTypeOK
    OBVIOUS
  <2>1. results \in Seq(Pushes)
    BY DEF GatewayTyped, PushedTyped
  <2>2. \A m \in 1..Len(results) : results[m] \in Pushes
    BY <2>1
  <2>3. \A m \in 1..Len(results) : results[m].chat \in Chats /\ results[m].session \in Sessions
    BY <2>2 DEF Pushes
  <2>4. \A a \in 1..Len(talks) :
          /\ talks[a].place \in TalkPlaces /\ talks[a].session \in 0..MaxSessions
          /\ talks[a].pending \in 0..MaxQuestions /\ talks[a].asked \in 0..MaxQuestions
          /\ Len(talks[a].replies) <= ReplyBuffer
    BY DEF GatewayTyped, TalksTyped, TalkFits, TalkFields, Numbers
  <2> QED BY <2>3, <2>4 DEF GatewayTyped, GatewayTypeOK, RoutesTyped, HoldersTyped, ChatsInv
<1> QED BY <1>1, <1>2, <1>3, PTL DEF GatewaySpec

-----------------------------------------------------------------------------
(* The types of the web client (module WebClient)                          *)

LEMMA WebFirst == WebInit => WebInv
<1> SUFFICES ASSUME WebInit PROVE WebInv
  OBVIOUS
<1>1. /\ asks = <<>> /\ lookup = 0 /\ sent = <<>>
      /\ link = [state |-> "none", number |-> 0, buffer |-> <<>>, retry |-> FALSE]
      /\ view = [status |-> "idle", run |-> 0, version |-> 0]
      /\ pending = NothingPending
      /\ rescue = [run |-> 0, polls |-> 0, timer |-> FALSE, aborted |-> FALSE, continued |-> 0]
      /\ server = [read |-> 0, runs |-> <<>>, queue |-> 0, receipts |-> {}]
  BY DEF WebInit
<1>2. asks \in Seq(Nat) /\ lookup \in Nat /\ sent \in Seq(WebOuts)
  BY <1>1
<1>3. link \in WebLinks /\ view \in WebViews /\ rescue \in WebRescues /\ pending \in WebPendings
  BY <1>1, PendingNothing DEF WebLinks, WebViews, WebRescues
<1>4. server \in WebServers
  <2>1. <<>> \in Seq(WebServerRuns) /\ {} \in SUBSET [number : Nat, run : Nat]
    OBVIOUS
  <2> QED BY <1>1, <2>1 DEF WebServers
<1>5. /\ Len(asks) = 0 /\ Len(sent) = 0 /\ Len(server.runs) = 0 /\ server.receipts = {}
      /\ server.queue = 0 /\ view.run = 0 /\ rescue.run = 0
  BY <1>1
<1> QED BY <1>1, <1>2, <1>3, <1>4, <1>5
        DEF WebInv, WebTyped, NumbersPast, ReceiptsTell, QueueBehind, RunsKnown, RecoversLost, ContinuedBehind,
            ContinuedOnce, WebRuns

AskBounds ==
    /\ Len(asks) <= MaxAsks /\ view.version <= Len(asks) /\ pending.ask <= Len(asks)
    /\ resyncs \subseteq 0..view.version
(* A connection that is gone can be replaced within the bound. *)
LinkBounds ==
    /\ link.number <= MaxConnections
    /\ link.state \in {"none", "closing"} => link.number < MaxConnections
TryBounds ==
    /\ pending.reconnects <= MaxReconnects
    /\ rescue.polls <= MaxPolls /\ rescue.continued <= MaxContinuations
ReadBounds == server.read <= Len(sent)
WebBounds == AskBounds /\ LinkBounds /\ TryBounds /\ ReadBounds

LEMMA WebLimits ==
    /\ MaxAsks \in Nat /\ MaxContinuations \in Nat /\ MaxPolls \in Nat /\ MaxReconnects \in Nat
    /\ MaxConnections \in Nat /\ MaxConnections >= 1
  BY WebAssumption

LEMMA WebNumbers ==
    ASSUME WebInv
    PROVE  /\ view.version \in Nat /\ pending.ask \in Nat /\ pending.reconnects \in Nat /\ link.number \in Nat
           /\ rescue.polls \in Nat /\ rescue.continued \in Nat /\ server.read \in Nat
           /\ Len(asks) \in Nat /\ Len(sent) \in Nat
<1>1. /\ asks \in Seq(Nat) /\ sent \in Seq(WebOuts) /\ link \in WebLinks /\ view \in WebViews
      /\ rescue \in WebRescues /\ server \in WebServers /\ pending \in WebPendings
  BY WebFields
<1> QED BY <1>1 DEF WebLinks, WebViews, WebRescues, WebServers, WebPendings

(* Requests are numbered one by one, and a view by the last of them. *)
LEMMA SendRunCounts ==
    ASSUME WebInv, NEW continues \in Nat, SendRun(continues)
    PROVE  /\ Len(asks) < MaxAsks /\ Len(asks') = Len(asks) + 1
           /\ view'.version = view.version + 1 /\ pending'.ask = Len(asks') /\ pending'.reconnects = 0
<1>1. asks \in Seq(Nat)
  BY WebFields
<1>2. Len(asks) < MaxAsks /\ asks' = Append(asks, continues) /\ view'.version = view.version + 1
      /\ pending'.ask = Len(asks') /\ pending'.reconnects = 0
  BY DEF SendRun, NewPending
<1>3. Len(Append(asks, continues)) = Len(asks) + 1
  BY <1>1
<1> QED BY <1>2, <1>3

LEMMA AskCounts ==
    ASSUME WebInv, [WebNext]_webVars
    PROVE  \/ \E continues \in Nat : SendRun(continues)
           \/ /\ Len(asks') = Len(asks) \/ (Len(asks) < MaxAsks /\ Len(asks') = Len(asks) + 1)
              /\ view'.version = view.version /\ pending'.ask \in {pending.ask, 0}
<1>1. asks \in Seq(Nat) /\ lookup \in Nat /\ view \in WebViews /\ pending \in WebPendings
  BY WebFields
<1>2. \/ UNCHANGED <<asks, view, pending>>
      \/ Opened \/ Disconnected \/ Submit \/ StopRecovery \/ LookupReturns
      \/ \E r \in WebRuns : RunEvent(r) \/ EndEvent(r)
      \/ \E receipt \in server.receipts : Receipt(receipt)
      \/ \E version \in resyncs : Replay(version)
  BY DEF WebNext, Connecting, Answering, webVars, Show, Reconnect, HeartbeatLate, IdleDisconnect, CancelRun, ServerReads,
         ServerEnds, ServerDrains, LookAgain
<1>3. NothingPending.ask = 0
  BY DEF NothingPending
<1>4. CASE Opened
  BY <1>1, <1>4 DEF Opened, WebPendings
<1>5. CASE Disconnected
  <2>1. asks' = asks
    BY <1>5 DEF Disconnected
  <2>2. \E status : view' = [view EXCEPT !.status = status]
    BY <1>5 DEF Disconnected
  <2>3. \/ pending' = NothingPending
        \/ \E waiting, resend, reconnects :
             pending' = [pending EXCEPT !.waiting = waiting, !.resend = resend, !.reconnects = reconnects]
    BY <1>5 DEF Disconnected
  <2> QED BY <1>1, <1>3, <2>1, <2>2, <2>3 DEF WebViews, WebPendings
<1>6. CASE Submit
  <2>1. CASE SendRun(0)
    BY <2>1
  <2>2. CASE Len(asks) < MaxAsks /\ asks' = Append(asks, 0) /\ UNCHANGED <<view, pending>>
    BY <1>1, <2>2
  <2> QED BY <1>6, <2>1, <2>2 DEF Submit
<1>7. CASE StopRecovery
  <2>1. /\ asks' = asks /\ view' = [view EXCEPT !.status = "idle", !.run = 0]
        /\ pending' = [pending EXCEPT !.waiting = FALSE, !.reconnects = 0, !.ask = 0]
    BY <1>7 DEF StopRecovery
  <2> QED BY <1>1, <2>1 DEF WebViews, WebPendings
<1>8. CASE LookupReturns
  <2>1. \/ \E continues \in Nat : SendRun(continues)
        \/ asks' = asks /\ pending' = pending /\ view'.version = view.version
    <3>1. \/ UNCHANGED <<asks, view, pending>>
          \/ TryLater \/ ShowOutcome \/ Continue
      BY <1>8 DEF LookupReturns
    <3>2. TryLater => asks' = asks /\ pending' = pending /\ view'.version = view.version
      BY <1>1 DEF TryLater, WebViews
    <3>3. ShowOutcome => asks' = asks /\ pending' = pending /\ view'.version = view.version
      BY <1>1 DEF ShowOutcome, WebViews
    <3>4. Continue => SendRun(lookup) \/ (asks' = asks /\ pending' = pending /\ view'.version = view.version)
      BY <1>1 DEF Continue, WebViews
    <3> QED BY <1>1, <3>1, <3>2, <3>3, <3>4
  <2> QED BY <2>1
<1>9. ASSUME NEW r \in WebRuns, RunEvent(r) \/ EndEvent(r)
      PROVE  asks' = asks /\ view'.version = view.version /\ pending'.ask \in {pending.ask, 0}
  BY <1>1, <1>3, <1>9 DEF RunEvent, EndEvent, WebViews
<1>10. ASSUME NEW receipt \in server.receipts, Receipt(receipt)
       PROVE  asks' = asks /\ view'.version = view.version /\ pending'.ask \in {pending.ask, 0}
  BY <1>1, <1>3, <1>10 DEF Receipt, WebViews
<1>11. ASSUME NEW version \in resyncs, Replay(version)
       PROVE  asks' = asks /\ view'.version = view.version /\ pending'.ask \in {pending.ask, 0}
  BY <1>1, <1>11 DEF Replay, WebViews
<1> QED BY <1>2, <1>4, <1>5, <1>6, <1>7, <1>8, <1>9, <1>10, <1>11

LEMMA AskBoundsStep == WebInv /\ AskBounds /\ [WebNext]_webVars => AskBounds'
<1> SUFFICES ASSUME WebInv, AskBounds, [WebNext]_webVars PROVE AskBounds'
  OBVIOUS
<1>1. /\ view.version \in Nat /\ pending.ask \in Nat /\ Len(asks) \in Nat /\ MaxAsks \in Nat
      /\ Len(asks) <= MaxAsks /\ view.version <= Len(asks) /\ pending.ask <= Len(asks) /\ resyncs \subseteq 0..view.version
  BY WebNumbers, WebLimits DEF AskBounds
<1>2. resyncs' \subseteq resyncs \cup {view.version}
  BY DEF WebNext, Connecting, Answering, webVars, Show, Reconnect, Opened, Disconnected, HeartbeatLate, IdleDisconnect, Submit,
         StopRecovery, CancelRun, ServerReads, ServerEnds, ServerDrains, RunEvent, Receipt, EndEvent, Replay, LookupReturns,
         LookAgain
<1>3. CASE \E continues \in Nat : SendRun(continues)
  <2>1. /\ Len(asks) < MaxAsks /\ Len(asks') = Len(asks) + 1
        /\ view'.version = view.version + 1 /\ pending'.ask = Len(asks')
    BY <1>3, SendRunCounts
  <2> QED BY <1>1, <1>2, <2>1 DEF AskBounds
<1>4. CASE /\ Len(asks') = Len(asks) \/ (Len(asks) < MaxAsks /\ Len(asks') = Len(asks) + 1)
           /\ view'.version = view.version /\ pending'.ask \in {pending.ask, 0}
  BY <1>1, <1>2, <1>4 DEF AskBounds
<1> QED BY <1>3, <1>4, AskCounts

(* Connections are counted when one is asked for. *)
LEMMA ConnectedWithin ==
    ASSUME NEW l \in WebLinks, l.number <= MaxConnections, l.state \in {"none", "closing"} => l.number < MaxConnections
    PROVE  Connected(l).number <= MaxConnections /\ Connected(l).state \in {"open", "connecting"}
<1>1. l.number \in Nat
  BY DEF WebLinks
<1>2. CASE l.state \in {"open", "connecting"}
  BY <1>2 DEF Connected
<1>3. CASE l.state \notin {"open", "connecting"}
  <2>1. Connected(l).number = l.number + 1 /\ Connected(l).state = "connecting"
    BY <1>3 DEF Connected, WebLinks
  <2>2. l.number < MaxConnections
    BY <1>3 DEF WebLinks
  <2> QED BY <1>1, <2>1, <2>2, WebLimits
<1> QED BY <1>2, <1>3

LEMMA SendKeepsLink ==
    ASSUME NEW l \in WebLinks, NEW message, Send(l, message)
    PROVE  link'.number = l.number /\ link'.state = l.state
  BY DEF Send, WebLinks

LEMMA LinkBoundsStep == WebInv /\ LinkBounds /\ [WebNext]_webVars => LinkBounds'
<1> SUFFICES ASSUME WebInv, LinkBounds, [WebNext]_webVars PROVE LinkBounds'
  OBVIOUS
<1>1. link \in WebLinks /\ lookup \in Nat
  BY WebFields
<1>2. /\ Connected(link).number <= MaxConnections /\ Connected(link).state \in {"open", "connecting"}
      /\ Connected(link) \in WebLinks
  BY <1>1, ConnectedWithin, ConnectedAges DEF LinkBounds
<1>3. ASSUME NEW continues, SendRun(continues) PROVE LinkBounds'
  <2>1. link'.number = Connected(link).number /\ link'.state = Connected(link).state
    BY <1>2, <1>3, SendKeepsLink DEF SendRun
  <2> QED BY <1>2, <2>1 DEF LinkBounds
<1>4. ASSUME NEW message, Send(link, message) PROVE LinkBounds'
  BY <1>1, <1>4, SendKeepsLink DEF LinkBounds
<1>5. CASE Show
  BY <1>2, <1>5 DEF Show, LinkBounds
<1>6. CASE Reconnect
  <2>1. PICK l : l = [link EXCEPT !.retry = FALSE]
    OBVIOUS
  <2>2. l \in WebLinks /\ l.number = link.number /\ l.state = link.state
    BY <1>1, <2>1 DEF WebLinks
  <2>3. Connected(l).number <= MaxConnections /\ Connected(l).state \in {"open", "connecting"} /\ link' = Connected(l)
    BY <1>6, <2>1, <2>2, ConnectedWithin DEF Reconnect, LinkBounds
  <2> QED BY <2>3 DEF LinkBounds
<1>7. CASE Opened
  <2>1. link' = [link EXCEPT !.state = "open", !.buffer = <<>>]
    BY <1>7 DEF Opened
  <2> QED BY <1>1, <2>1 DEF LinkBounds, WebLinks
<1>8. CASE Disconnected \/ HeartbeatLate \/ IdleDisconnect
  <2>1. link'.number = link.number /\ link.number < MaxConnections /\ link.number \in Nat
    BY <1>1, <1>8 DEF Disconnected, HeartbeatLate, IdleDisconnect, WebLinks
  <2> QED BY <2>1, WebLimits DEF LinkBounds
<1>9. CASE Submit
  BY <1>3, <1>4, <1>9 DEF Submit
<1>10. CASE CancelRun
  BY <1>4, <1>10 DEF CancelRun
<1>11. CASE StopRecovery
  <2>1. link' = [link EXCEPT !.buffer = <<>>]
    BY <1>11 DEF StopRecovery
  <2> QED BY <1>1, <2>1 DEF LinkBounds, WebLinks
<1>12. CASE LookupReturns
  <2>1. UNCHANGED link \/ SendRun(lookup)
    BY <1>12 DEF LookupReturns, TryLater, ShowOutcome, Continue
  <2> QED BY <1>3, <2>1 DEF LinkBounds
<1>13. \/ UNCHANGED link \/ Show \/ Reconnect \/ Opened \/ Disconnected \/ HeartbeatLate \/ IdleDisconnect
       \/ Submit \/ StopRecovery \/ CancelRun \/ LookupReturns
  BY DEF WebNext, Connecting, Answering, webVars, ServerReads, ServerEnds, ServerDrains, RunEvent, Receipt, EndEvent, Replay,
         LookAgain
<1>14. UNCHANGED link => LinkBounds'
  BY DEF LinkBounds
<1> QED BY <1>5, <1>6, <1>7, <1>8, <1>9, <1>10, <1>11, <1>12, <1>13, <1>14

LEMMA TryBoundsStep == WebInv /\ TryBounds /\ [WebNext]_webVars => TryBounds'
<1> SUFFICES ASSUME WebInv, TryBounds, [WebNext]_webVars PROVE TryBounds'
  OBVIOUS
<1>1. rescue \in WebRescues /\ pending \in WebPendings /\ lookup \in Nat
  BY WebFields
<1>2. /\ rescue.polls \in Nat /\ rescue.continued \in Nat /\ pending.reconnects \in Nat
      /\ MaxPolls \in Nat /\ MaxContinuations \in Nat /\ MaxReconnects \in Nat
      /\ pending.reconnects <= MaxReconnects /\ rescue.polls <= MaxPolls /\ rescue.continued <= MaxContinuations
  BY WebNumbers, WebLimits DEF TryBounds
<1>3. Cleared(rescue).polls = 0 /\ Cleared(rescue).continued = rescue.continued /\ Cleared(rescue) \in WebRescues
  BY <1>1 DEF Cleared, WebRescues
<1>4. NothingPending.reconnects = 0
  BY DEF NothingPending
<1>5. pending'.reconnects <= MaxReconnects
  <2>1. CASE UNCHANGED pending
    BY <1>2, <2>1
  <2>2. CASE \E continues \in Nat : SendRun(continues)
    BY <1>2, <2>2, SendRunCounts
  <2>3. CASE Opened
    BY <1>1, <1>2, <2>3 DEF Opened, WebPendings
  <2>4. CASE Disconnected
    <3>1. PICK waits \in BOOLEAN : waits = (pending.ask # 0 /\ (pending.waiting \/ (view.status = "running" /\ view.run = 0 /\ pending.ask # 0)))
      BY Zenon
    <3>2. \/ pending' = NothingPending
          \/ /\ ~(waits /\ pending.reconnects = MaxReconnects)
             /\ \E waiting, resend :
                  pending' = [pending EXCEPT !.waiting = waiting, !.resend = resend,
                                             !.reconnects = IF waits THEN @ + 1 ELSE @]
      BY <2>4, <3>1 DEF Disconnected
    <3>3. \/ pending'.reconnects = 0
          \/ /\ ~(waits /\ pending.reconnects = MaxReconnects)
             /\ pending'.reconnects = IF waits THEN pending.reconnects + 1 ELSE pending.reconnects
      BY <1>1, <1>4, <3>2 DEF WebPendings
    <3> QED BY <1>2, <3>3
  <2>5. CASE StopRecovery
    <3>1. pending' = [pending EXCEPT !.waiting = FALSE, !.reconnects = 0, !.ask = 0]
      BY <2>5 DEF StopRecovery
    <3> QED BY <1>1, <1>2, <3>1 DEF WebPendings
  <2>6. CASE pending' = NothingPending
    BY <1>2, <1>4, <2>6
  <2>7. \/ UNCHANGED pending \/ Opened \/ Disconnected \/ StopRecovery \/ pending' = NothingPending
        \/ \E continues \in Nat : SendRun(continues)
    BY <1>1 DEF WebNext, Connecting, Answering, webVars, Show, Reconnect, HeartbeatLate, IdleDisconnect, Submit, CancelRun,
                ServerReads, ServerEnds, ServerDrains, RunEvent, Receipt, EndEvent, Replay, LookupReturns, TryLater, ShowOutcome,
                Continue, LookAgain
  <2> QED BY <2>1, <2>2, <2>3, <2>4, <2>5, <2>6, <2>7
<1>6. rescue'.polls <= MaxPolls /\ rescue'.continued <= MaxContinuations
  <2>1. CASE UNCHANGED rescue
    BY <1>2, <2>1
  <2>2. CASE Disconnected
    <3>1. rescue' = rescue \/ \E run : rescue' = [Cleared(rescue) EXCEPT !.run = run, !.aborted = FALSE]
      BY <2>2 DEF Disconnected
    <3>2. rescue' = rescue \/ (rescue'.polls = 0 /\ rescue'.continued = rescue.continued)
      BY <1>3, <3>1 DEF WebRescues
    <3> QED BY <1>2, <3>2
  <2>3. CASE Submit \/ CancelRun
    <3>1. rescue' = [rescue EXCEPT !.continued = 0]
      BY <2>3 DEF Submit, CancelRun
    <3> QED BY <1>1, <1>2, <3>1 DEF WebRescues
  <2>4. CASE StopRecovery
    <3>1. rescue' = [Cleared(rescue) EXCEPT !.aborted = TRUE, !.continued = 0]
      BY <2>4 DEF StopRecovery
    <3> QED BY <1>2, <1>3, <3>1 DEF WebRescues
  <2>5. ASSUME NEW r \in WebRuns, EndEvent(r)
        PROVE  rescue'.polls <= MaxPolls /\ rescue'.continued <= MaxContinuations
    <3>1. rescue' = rescue \/ rescue' = [rescue EXCEPT !.continued = 0]
      BY <2>5 DEF EndEvent
    <3> QED BY <1>1, <1>2, <3>1 DEF WebRescues
  <2>6. CASE TryLater
    <3>1. \/ rescue.polls + 1 < MaxPolls /\ rescue' = [rescue EXCEPT !.polls = @ + 1, !.timer = TRUE]
          \/ rescue' = Cleared(rescue)
      BY <2>6 DEF TryLater
    <3>2. \/ rescue.polls + 1 < MaxPolls /\ rescue'.polls = rescue.polls + 1 /\ rescue'.continued = rescue.continued
          \/ rescue'.polls = 0 /\ rescue'.continued = rescue.continued
      BY <1>1, <1>3, <3>1 DEF WebRescues
    <3> QED BY <1>2, <3>2
  <2>7. CASE ShowOutcome
    <3>1. rescue' = [Cleared(rescue) EXCEPT !.continued = 0]
      BY <2>7 DEF ShowOutcome
    <3> QED BY <1>2, <1>3, <3>1 DEF WebRescues
  <2>8. CASE Continue
    <3>1. \/ rescue.continued < MaxContinuations /\ rescue' = [Cleared(rescue) EXCEPT !.continued = @ + 1]
          \/ rescue' = Cleared(rescue)
      BY <2>8 DEF Continue
    <3>2. \/ rescue.continued < MaxContinuations /\ rescue'.polls = 0 /\ rescue'.continued = rescue.continued + 1
          \/ rescue'.polls = 0 /\ rescue'.continued = rescue.continued
      BY <1>3, <3>1 DEF WebRescues
    <3> QED BY <1>2, <3>2
  <2>9. CASE LookAgain
    <3>1. rescue' = [rescue EXCEPT !.timer = FALSE]
      BY <2>9 DEF LookAgain
    <3> QED BY <1>1, <1>2, <3>1 DEF WebRescues
  <2>10. \/ UNCHANGED rescue \/ Disconnected \/ Submit \/ CancelRun \/ StopRecovery \/ TryLater \/ ShowOutcome \/ Continue
         \/ LookAgain
         \/ \E r \in WebRuns : EndEvent(r)
    BY DEF WebNext, Connecting, Answering, webVars, Show, Reconnect, Opened, HeartbeatLate, IdleDisconnect, ServerReads,
           ServerEnds, ServerDrains, RunEvent, Receipt, Replay, LookupReturns
  <2> QED BY <2>1, <2>2, <2>3, <2>4, <2>5, <2>6, <2>7, <2>8, <2>9, <2>10
<1> QED BY <1>5, <1>6 DEF TryBounds

(* What is sent stays sent. *)
LEMMA SentGrows ==
    ASSUME WebInv, [WebNext]_webVars
    PROVE  Len(sent) \in Nat /\ Len(sent') \in Nat /\ Len(sent) <= Len(sent')
<1>1. sent \in Seq(WebOuts) /\ link \in WebLinks /\ link.number \in Nat /\ link.buffer \in Seq(WebMessages)
  BY WebFields
<1>2. ASSUME NEW l, NEW message, Send(l, message) PROVE Len(sent') = Len(sent) \/ Len(sent') = Len(sent) + 1
  <2>1. sent' = sent \/ \E out : sent' = Append(sent, out)
    BY <1>2 DEF Send
  <2>2. ASSUME NEW out PROVE Len(Append(sent, out)) = Len(sent) + 1
    <3>1. sent \in Seq(WebOuts \cup {out}) /\ out \in WebOuts \cup {out}
      BY <1>1
    <3> QED BY <3>1
  <2> QED BY <2>1, <2>2
<1>3. CASE Opened
  <2>1. PICK again \in BOOLEAN : again = (pending.resend /\ pending.waiting /\ pending.ask # 0)
    BY Zenon
  <2>2. PICK messages : messages = link.buffer \o IF again THEN <<RunMessage(pending.ask)>> ELSE <<>>
    OBVIOUS
  <2>3. RunMessage(pending.ask) \in WebMessages
    BY WebNumbers DEF RunMessage, WebMessages
  <2>4. messages \in Seq(WebMessages)
    BY <1>1, <2>2, <2>3
  <2>5. PICK outs : outs = [i \in 1..Len(messages) |-> Out(messages[i])]
    OBVIOUS
  <2>6. outs \in Seq(WebOuts)
    <3>1. \A i \in 1..Len(messages) : Out(messages[i]) \in WebOuts
      BY <1>1, <2>4 DEF Out, WebOuts
    <3>2. outs \in [1..Len(messages) -> WebOuts] /\ Len(messages) \in Nat
      BY <2>4, <2>5, <3>1
    <3> QED BY <3>2, SeqDef
  <2>7. sent' = sent \o outs
    BY <1>3, <2>1, <2>2, <2>5 DEF Opened
  <2>8. Len(sent \o outs) = Len(sent) + Len(outs) /\ Len(outs) \in Nat /\ Len(sent) \in Nat
    BY <1>1, <2>6
  <2> QED BY <2>7, <2>8
<1>4. \/ UNCHANGED sent \/ Opened
      \/ \E l, message : Send(l, message)
  <2>1. ASSUME NEW continues, SendRun(continues) PROVE \E l, message : Send(l, message)
    BY <2>1 DEF SendRun
  <2>2. Submit => UNCHANGED sent \/ \E l, message : Send(l, message)
    BY <2>1 DEF Submit
  <2>3. CancelRun => \E l, message : Send(l, message)
    BY DEF CancelRun
  <2>4. LookupReturns => UNCHANGED sent \/ \E l, message : Send(l, message)
    BY <2>1 DEF LookupReturns, TryLater, ShowOutcome, Continue
  <2>5. \/ UNCHANGED sent \/ Opened \/ Submit \/ CancelRun \/ LookupReturns
    BY DEF WebNext, Connecting, Answering, webVars, Show, Reconnect, Disconnected, HeartbeatLate, IdleDisconnect, StopRecovery,
           ServerReads, ServerEnds, ServerDrains, RunEvent, Receipt, EndEvent, Replay, LookAgain
  <2> QED BY <2>2, <2>3, <2>4, <2>5
<1>5. Len(sent) \in Nat
  BY <1>1
<1> QED BY <1>2, <1>3, <1>4, <1>5

LEMMA ReadBoundsStep == WebInv /\ ReadBounds /\ [WebNext]_webVars => ReadBounds'
<1> SUFFICES ASSUME WebInv, ReadBounds, [WebNext]_webVars PROVE ReadBounds'
  OBVIOUS
<1>1. /\ Len(sent) \in Nat /\ Len(sent') \in Nat /\ Len(sent) <= Len(sent') /\ server.read \in Nat /\ server \in WebServers
      /\ server.read <= Len(sent)
  BY SentGrows, WebNumbers, WebFields DEF ReadBounds
<1>2. server'.read = server.read \/ (server.read < Len(sent) /\ server'.read = server.read + 1)
  <2>1. CASE ServerReads
    <3>1. PICK read : read = [server EXCEPT !.read = @ + 1]
      OBVIOUS
    <3>2. read \in WebServers /\ read.read = server.read + 1
      BY <1>1, <3>1 DEF WebServers
    <3>3. server.read < Len(sent)
      BY <2>1 DEF ServerReads
    <3>4. \/ server' = read
          \/ \E number : server' \in Admitted(read, number)
          \/ \E now : server' = [read EXCEPT !.runs = now]
      <4>1. PICK next : next = sent[server.read + 1]
        OBVIOUS
      <4>2. \/ server' \in Admitted(read, next.number)
            \/ server' = [read EXCEPT !.runs = Append(@, StartedRun(next.number))]
            \/ server' = IF server.runs[next.message.of].state # "running" THEN read
                         ELSE [read EXCEPT !.runs[next.message.of].state = "cancelled"]
            \/ server' = read
        BY <2>1, <3>1, <4>1 DEF ServerReads
      <4> QED BY <4>2
    <3>5. ASSUME NEW number, server' \in Admitted(read, number) PROVE server'.read = read.read
      <4>1. PICK more \in {0, 1} :
              server' = [read EXCEPT !.queue = @ + more, !.runs[Len(read.runs)].joined = TRUE,
                                     !.receipts = @ \cup {[number |-> number, run |-> Len(read.runs)]}]
        BY <3>5 DEF Admitted
      <4>2. PICK first, second : /\ first = [read EXCEPT !.queue = @ + more]
                                 /\ second = [first EXCEPT !.runs[Len(read.runs)].joined = TRUE]
        OBVIOUS
      <4>3. first.read = read.read /\ DOMAIN first = {"read", "runs", "queue", "receipts"}
        BY <3>2, <4>2 DEF WebServers
      <4>4. second.read = read.read /\ DOMAIN second = {"read", "runs", "queue", "receipts"}
        BY <4>2, <4>3
      <4>5. server' = [second EXCEPT !.receipts = @ \cup {[number |-> number, run |-> Len(read.runs)]}]
        BY <4>1, <4>2
      <4> QED BY <4>4, <4>5
    <3>6. ASSUME NEW now, server' = [read EXCEPT !.runs = now] PROVE server'.read = read.read
      BY <3>2, <3>6 DEF WebServers
    <3> QED BY <3>2, <3>3, <3>4, <3>5, <3>6
  <2>2. CASE ServerDrains
    BY <1>1, <2>2 DEF ServerDrains, WebServers
  <2>3. ASSUME NEW r \in WebRuns, ServerEnds(r) \/ RunEvent(r) \/ EndEvent(r) PROVE server'.read = server.read
    BY <1>1, <2>3 DEF ServerEnds, RunEvent, EndEvent, WebServers
  <2>4. ASSUME NEW receipt \in server.receipts, Receipt(receipt) PROVE server'.read = server.read
    BY <1>1, <2>4 DEF Receipt, WebServers
  <2>5. \/ UNCHANGED server \/ ServerReads \/ ServerDrains
        \/ \E r \in WebRuns : ServerEnds(r) \/ RunEvent(r) \/ EndEvent(r)
        \/ \E receipt \in server.receipts : Receipt(receipt)
    BY DEF WebNext, Connecting, Answering, webVars, Show, Reconnect, Opened, Disconnected, HeartbeatLate, IdleDisconnect,
           Submit, StopRecovery, CancelRun, Replay, LookupReturns, LookAgain
  <2> QED BY <2>1, <2>2, <2>3, <2>4, <2>5
<1> QED BY <1>1, <1>2 DEF ReadBounds

LEMMA WebTypesHold == WebSpec => []WebTypeOK
<1>1. WebInit => WebInv /\ WebBounds
  <2> SUFFICES ASSUME WebInit PROVE WebInv /\ WebBounds
    OBVIOUS
  <2>1. /\ Len(asks) = 0 /\ view.version = 0 /\ pending.ask = 0 /\ pending.reconnects = 0 /\ resyncs = {}
        /\ link.number = 0 /\ rescue.polls = 0 /\ rescue.continued = 0 /\ server.read = 0 /\ Len(sent) = 0
    BY DEF WebInit, NothingPending
  <2> QED BY <2>1, WebFirst, WebLimits DEF WebBounds, AskBounds, LinkBounds, TryBounds, ReadBounds
<1>2. WebInv /\ WebBounds /\ [WebNext]_webVars => (WebInv /\ WebBounds)'
  BY WebInvStep, AskBoundsStep, LinkBoundsStep, TryBoundsStep, ReadBoundsStep DEF WebBounds
<1>3. WebInv /\ WebBounds => WebTypeOK
  <2> SUFFICES ASSUME WebInv, WebBounds PROVE WebTypeOK
    OBVIOUS
  <2>1. /\ asks \in Seq(Nat) /\ lookup \in Nat /\ link \in WebLinks /\ view \in WebViews /\ rescue \in WebRescues
        /\ server \in WebServers /\ pending \in WebPendings /\ server.runs \in Seq(WebServerRuns)
    BY WebFields
  <2>2. PICK n \in Nat : n = Len(server.runs)
    BY <2>1
  <2>3. \A i \in 1..Len(asks) : asks[i] \in 0..n
    <3>1. \A i \in 1..Len(asks) : asks[i] # 0 => asks[i] \in 1..n
      BY <2>2 DEF WebInv, ContinuedBehind, WebRuns
    <3>2. \A i \in 1..Len(asks) : asks[i] \in Nat
      BY <2>1
    <3> QED BY <3>1, <3>2
  <2>4. asks \in Seq(0..n)
    <3>1. DOMAIN asks = 1..Len(asks) /\ asks = [i \in 1..Len(asks) |-> asks[i]] /\ Len(asks) \in Nat
      BY <2>1
    <3>2. asks \in [1..Len(asks) -> 0..n]
      BY <2>3, <3>1
    <3> QED BY <3>1, <3>2, SeqDef
  <2>5. view.run \in 0..n /\ rescue.run \in 0..n /\ lookup \in 0..n
    <3>1. \A r \in {view.run, rescue.run, lookup} : r # 0 => r \in 1..n
      BY <2>2 DEF WebInv, RunsKnown, WebRuns
    <3> QED BY <2>2, <3>1
  <2>6. /\ view.version \in 0..MaxAsks /\ pending.ask \in 0..MaxAsks /\ pending.reconnects \in 0..MaxReconnects
        /\ rescue.polls \in 0..MaxPolls /\ rescue.continued \in 0..MaxContinuations
        /\ link.number \in 0..MaxConnections /\ resyncs \subseteq 0..view.version /\ server.read <= Len(sent)
        /\ Len(asks) <= MaxAsks
    <3>1. /\ Len(asks) <= MaxAsks /\ view.version <= Len(asks) /\ pending.ask <= Len(asks)
          /\ pending.reconnects <= MaxReconnects /\ rescue.polls <= MaxPolls /\ rescue.continued <= MaxContinuations
          /\ link.number <= MaxConnections /\ resyncs \subseteq 0..view.version /\ server.read <= Len(sent)
      BY DEF WebBounds, AskBounds, LinkBounds, TryBounds, ReadBounds
    <3>2. view.version <= MaxAsks /\ pending.ask <= MaxAsks
      BY <3>1, WebNumbers, WebLimits
    <3>3. view.version \in 0..MaxAsks /\ pending.ask \in 0..MaxAsks
      BY <3>2, WebNumbers, WebLimits
    <3>4. pending.reconnects \in 0..MaxReconnects /\ rescue.polls \in 0..MaxPolls
      BY <3>1, WebNumbers, WebLimits
    <3>5. rescue.continued \in 0..MaxContinuations /\ link.number \in 0..MaxConnections
      BY <3>1, WebNumbers, WebLimits
    <3> QED BY <3>1, <3>3, <3>4, <3>5
  <2>7. link.state \in {"none", "connecting", "open", "closing"} /\ link.retry \in BOOLEAN
    BY <2>1 DEF WebLinks
  <2>8. view \in [status : {"idle", "running", "recovering"}, run : 0..n, version : 0..MaxAsks]
    BY <2>1, <2>5, <2>6 DEF WebViews
  <2>9. pending \in [ask : 0..MaxAsks, waiting : BOOLEAN, resend : BOOLEAN, reconnects : 0..MaxReconnects]
    BY <2>1, <2>6 DEF WebPendings
  <2>10. rescue \in [run : 0..n, polls : 0..MaxPolls, timer : BOOLEAN, aborted : BOOLEAN, continued : 0..MaxContinuations]
    BY <2>1, <2>5, <2>6 DEF WebRescues
  <2> QED BY <2>2, <2>4, <2>5, <2>6, <2>7, <2>8, <2>9, <2>10 DEF WebTypeOK
<1> QED BY <1>1, <1>2, <1>3, PTL DEF WebSpec

-----------------------------------------------------------------------------
(* Side by side: each component runs as it does alone (MCServices)         *)

LEMMA ComponentStep ==
    ASSUME [ServicesNext]_<<part, taskVars, tasksRest>>
    PROVE  /\ [TasksNext]_taskVars /\ [FlowsNext]_flowVars /\ [ConversationNext]_convVars
           /\ [DelegationNext]_delegVars /\ [ModelRoundNext]_roundVars /\ [GatewayNext]_gwVars
           /\ [WebNext]_webVars /\ [McpNext]_mcpVars /\ [BundleNext]_bundleVars
<1>1. TaskStep => TasksNext
  BY DEF TaskStep, TasksNext
<1>2. FlowStep => FlowsNext
  BY DEF FlowStep
<1>3. DelegationStep => DelegationNext
  BY DEF DelegationStep
<1>4. WebStep => WebNext
  BY DEF WebStep
<1>5. ServicesNext \/ UNCHANGED <<taskVars, tasksRest>>
  OBVIOUS
<1>6. CASE UNCHANGED <<taskVars, tasksRest>>
  BY <1>6 DEF tasksRest
<1>7. CASE ServicesNext
  <2>1. CASE TaskStep /\ UNCHANGED tasksRest
    BY <1>1, <2>1 DEF tasksRest
  <2>2. CASE FlowStep /\ UNCHANGED flowsRest
    BY <1>2, <2>2 DEF flowsRest
  <2>3. CASE ConversationNext /\ UNCHANGED convRest
    BY <2>3 DEF convRest
  <2>4. CASE DelegationStep /\ UNCHANGED delegRest
    BY <1>3, <2>4 DEF delegRest
  <2>5. CASE ModelRoundNext /\ UNCHANGED roundRest
    BY <2>5 DEF roundRest
  <2>6. CASE GatewayNext /\ UNCHANGED gwRest
    BY <2>6 DEF gwRest
  <2>7. CASE WebStep /\ UNCHANGED webRest
    BY <1>4, <2>7 DEF webRest
  <2>8. CASE McpNext /\ UNCHANGED mcpRest
    BY <2>8 DEF mcpRest
  <2>9. CASE BundleNext /\ UNCHANGED bundleRest
    BY <2>9 DEF bundleRest
  <2> QED BY <1>7, <2>1, <2>2, <2>3, <2>4, <2>5, <2>6, <2>7, <2>8, <2>9 DEF ServicesNext
<1> QED BY <1>5, <1>6, <1>7

(* What is proved of a component alone holds of it here.                   *)
LEMMA ComponentsImplemented ==
    ServicesSpec => /\ TasksSpec /\ FlowsSpec /\ ConversationSpec /\ DelegationSpec /\ ModelRoundSpec
                    /\ GatewaySpec /\ WebSpec /\ McpSpec /\ BundleSpec
<1>1. ServicesInit => /\ TasksInit /\ FlowsInit /\ ConversationInit /\ DelegationInit /\ ModelRoundInit
                      /\ GatewayInit /\ WebInit /\ McpInit /\ BundleInit
  BY DEF ServicesInit
<1>2. [ServicesNext]_<<part, taskVars, tasksRest>> =>
        /\ [TasksNext]_taskVars /\ [FlowsNext]_flowVars /\ [ConversationNext]_convVars
        /\ [DelegationNext]_delegVars /\ [ModelRoundNext]_roundVars /\ [GatewayNext]_gwVars
        /\ [WebNext]_webVars /\ [McpNext]_mcpVars /\ [BundleNext]_bundleVars
  BY ComponentStep
<1> QED BY <1>1, <1>2, PTL DEF ServicesSpec, TasksSpec, FlowsSpec, ConversationSpec, DelegationSpec, ModelRoundSpec,
                               GatewaySpec, WebSpec, McpSpec, BundleSpec

(* Every variable of every component keeps its type, whichever of them     *)
(* moves: rows of tasks, firings, conversations, sub-runs, rounds of the   *)
(* model, chats, connections, processes and bundles.                       *)
THEOREM ServicesTypesHold == ServicesSpec => []ServicesTypeOK
<1>1. /\ TasksTypeOK /\ FlowsTypeOK /\ ConversationTypeOK /\ DelegationTypeOK /\ ModelRoundTypeOK
      /\ GatewayTypeOK /\ WebTypeOK /\ McpTypeOK /\ BundleTypeOK
      => ServicesTypeOK
  BY DEF ServicesTypeOK
<1> QED BY <1>1, ComponentsImplemented, TasksTypesHold, FlowsTypesHold, ConversationTypesHold, DelegationTypesHold,
           ModelRoundTypesHold, GatewayTypesHold, WebTypesHold, McpTypesHold, BundleTypesHold, PTL
=============================================================================
