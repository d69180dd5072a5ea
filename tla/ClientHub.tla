------------------------------ MODULE ClientHub ------------------------------
(***************************************************************************)
(* The distribution of the client's messages to the tools of a run tree    *)
(* that wait for them (service/react/internal/hub/client_hub.go), with the *)
(* channel the WebSocket handler feeds (controllers/http/react/ws.go).     *)
(*                                                                         *)
(* Every run of a connection has a hub of its own; an automatic drain      *)
(* starts the next run, with a new hub, on the same channel.  The pump of  *)
(* a hub is the goroutine that reads the channel; it starts with the first *)
(* registered waiter and ends when the channel is closed.  Tool calls of   *)
(* parallel sub-agents wait at the same time.  A step is one critical      *)
(* section of the hub's mutex or one channel operation.                    *)
(***************************************************************************)
EXTENDS Naturals, Sequences, FiniteSets

CONSTANTS
    Asks,           \* calls answered by tool_use_answer or client_tool_use_end
    Confirms,       \* calls answered by tool_confirm_answer
    NoCall,         \* the call of a message that belongs to none
    MaxRun,         \* bound: runs of the connection
    RunOf,          \* the run a call belongs to
    Timed,          \* the calls with an interaction_timeout_sec > 0
    InboxCap,       \* capacity of the channel (16 in the code)
    PendingCap,     \* clientHubPendingCap (16 in the code)
    MaxAnswers,     \* bound: answers the client sends to one call
    MaxCancels      \* bound: cancel messages of the client

Calls == Asks \cup Confirms
RunIds == 1..MaxRun

ASSUME HubAssumption ==
    /\ Asks \cap Confirms = {} /\ NoCall \notin Calls
    /\ IsFiniteSet(Calls)
    /\ MaxRun \in Nat \ {0} /\ RunOf \in [Calls -> RunIds]
    /\ Timed \subseteq Calls
    /\ {InboxCap, PendingCap} \subseteq Nat \ {0}
    /\ {MaxAnswers, MaxCancels} \subseteq Nat

MessageType == {"answer", "confirm", "cancel", "closed", "none"}
Message     == [type : MessageType, call : Calls \cup {NoCall}]
AnswerTo(k) == [type |-> IF k \in Asks THEN "answer" ELSE "confirm", call |-> k]
Cancel      == [type |-> "cancel", call |-> NoCall]
Closed      == [type |-> "closed", call |-> NoCall]
Nothing     == [type |-> "none", call |-> NoCall]

(* A call: not made, announced to the client but not registered, blocked   *)
(* on its channel, past its timer but still registered, or over.           *)
Open  == {"asked", "blocked", "expired"}
Ended == {"answered", "cancelled", "closed", "timeout", "unexpected"}

PumpPc == {"off", "read", "route", "buffer", "send", "exit"}
Pump   == [pc : PumpPc, msg : Message, todo : Seq(Calls)]
NoPump == [pc |-> "off", msg |-> Nothing, todo |-> <<>>]

VARIABLES
    inbox,      \* runMsgCh
    closed,     \* runMsgCh is closed
    run,        \* the current run of the connection
    waiters,    \* h.waiters of each run's hub
    pending,    \* h.pending of each run's hub
    dead,       \* h.deadErr # nil
    pump,       \* the pump goroutine of each hub
    slot,       \* the channel of a waiter, capacity 1
    wait,       \* progress of the calls
    answers,    \* answers sent to each call
    cancels     \* cancel messages sent

hubVars == <<inbox, closed, run, waiters, pending, dead, pump, slot, wait, answers, cancels>>
clientVars == <<closed, answers, cancels>>

HubInit ==
    /\ inbox = <<>> /\ closed = FALSE /\ run = 1
    /\ waiters = [r \in RunIds |-> {}]
    /\ pending = [r \in RunIds |-> <<>>]
    /\ dead = [r \in RunIds |-> FALSE]
    /\ pump = [r \in RunIds |-> NoPump]
    /\ slot = [k \in Calls |-> Nothing]
    /\ wait = [k \in Calls |-> "none"]
    /\ answers = [k \in Calls |-> 0]
    /\ cancels = 0

Addressable(m) == m.type = "answer"
Match(k, m)    == m = AnswerTo(k)

(* What a wait function makes of the event it gets. *)
Outcome(k, m) ==
    CASE Match(k, m)       -> "answered"
      [] m.type = "cancel" -> "cancelled"
      [] m.type = "closed" -> "closed"
      [] OTHER             -> "unexpected"

End(k, m) == wait' = [wait EXCEPT ![k] = Outcome(k, m)]

-----------------------------------------------------------------------------
(* A call: WaitTimeout *)

(* The request event reaches the client before the waiter is registered.   *)
(* A cancelled run makes no new call.                                      *)
Ask(k) ==
    /\ wait[k] = "none" /\ RunOf[k] = run /\ cancels = 0
    /\ wait' = [wait EXCEPT ![k] = "asked"]
    /\ UNCHANGED <<inbox, run, waiters, pending, dead, pump, slot, clientVars>>

RegisterDead(k) ==
    /\ wait[k] = "asked" /\ dead[RunOf[k]]
    /\ End(k, Closed)
    /\ UNCHANGED <<inbox, run, waiters, pending, dead, pump, slot, clientVars>>

(* The first buffered message for the call, if any, is taken. *)
IsBuffered(i, k) == LET p == pending[RunOf[k]] IN
    /\ i \in DOMAIN p /\ Match(k, p[i])
    /\ \A j \in 1..(i-1) : ~Match(k, p[j])
(* Mutant: the claimed message stays in the buffer. *)
UnclaimedNot(p, i) == p
Unclaimed(p, i) == SubSeq(p, 1, i - 1) \o SubSeq(p, i + 1, Len(p))

Claim(k) ==
    /\ wait[k] = "asked" /\ ~dead[RunOf[k]]
    /\ \E i \in DOMAIN pending[RunOf[k]] :
          /\ IsBuffered(i, k)
          /\ pending' = [pending EXCEPT ![RunOf[k]] = Unclaimed(@, i)]
          /\ End(k, pending[RunOf[k]][i])
    /\ UNCHANGED <<inbox, run, waiters, dead, pump, slot, clientVars>>

(* Mutant: the end of the channel is not looked at. *)
RegisterUnchecked(k) ==
    LET r == RunOf[k] IN
    /\ wait[k] = "asked"
    /\ \A i \in DOMAIN pending[r] : ~Match(k, pending[r][i])
    /\ waiters' = [waiters EXCEPT ![r] = @ \cup {k}]
    /\ pump' = [pump EXCEPT ![r].pc = IF @ = "off" THEN "read" ELSE @]
    /\ wait' = [wait EXCEPT ![k] = "blocked"]
    /\ UNCHANGED <<inbox, run, pending, dead, slot, clientVars>>

Register(k) ==
    LET r == RunOf[k] IN
    /\ wait[k] = "asked" /\ ~dead[r]
    /\ \A i \in DOMAIN pending[r] : ~Match(k, pending[r][i])
    /\ waiters' = [waiters EXCEPT ![r] = @ \cup {k}]
    /\ pump' = [pump EXCEPT ![r].pc = IF @ = "off" THEN "read" ELSE @]
    /\ wait' = [wait EXCEPT ![k] = "blocked"]
    /\ UNCHANGED <<inbox, run, pending, dead, slot, clientVars>>

(* An event came: the waiter is not removed from the hub. *)
Receive(k) ==
    /\ wait[k] = "blocked" /\ slot[k] # Nothing
    /\ slot' = [slot EXCEPT ![k] = Nothing]
    /\ End(k, slot[k])
    /\ UNCHANGED <<inbox, run, waiters, pending, dead, pump, clientVars>>

(* The timer fired and the second look at the channel found nothing. *)
Expire(k) ==
    /\ k \in Timed /\ wait[k] = "blocked" /\ slot[k] = Nothing
    /\ wait' = [wait EXCEPT ![k] = "expired"]
    /\ UNCHANGED <<inbox, run, waiters, pending, dead, pump, slot, clientVars>>

Unregister(k) ==
    /\ wait[k] = "expired"
    /\ waiters' = [waiters EXCEPT ![RunOf[k]] = @ \ {k}]
    /\ wait' = [wait EXCEPT ![k] = "timeout"]
    /\ UNCHANGED <<inbox, run, pending, dead, pump, slot, clientVars>>

-----------------------------------------------------------------------------
(* The pump *)

PumpAt(r, pc) == pump[r].pc = pc
PumpGoto(r, pc, m, todo) == pump' = [pump EXCEPT ![r] = [pc |-> pc, msg |-> m, todo |-> todo]]

(* The waiters of a hub in the order in which its map is walked. *)
Orders(S) == {s \in [1..Cardinality(S) -> S] : \A i, j \in DOMAIN s : s[i] = s[j] => i = j}
(* Mutant: the pump goes on reading after the error. *)
SendToAndReadOn(r, m, S) ==
    IF S = {} THEN PumpGoto(r, "read", Nothing, <<>>)
    ELSE \E order \in Orders(S) : PumpGoto(r, "send", m, order)

SendTo(r, m, S) ==
    IF S = {} THEN PumpGoto(r, IF m = Closed THEN "exit" ELSE "read", Nothing, <<>>)
    ELSE \E order \in Orders(S) : PumpGoto(r, "send", m, order)

Read(r) ==
    /\ PumpAt(r, "read") /\ inbox # <<>>
    /\ inbox' = Tail(inbox)
    /\ PumpGoto(r, "route", Head(inbox), <<>>)
    /\ UNCHANGED <<run, waiters, pending, dead, slot, wait, clientVars>>

(* Mutant: a single waiter gets every message. *)
ReceiversSingleFirst(m, W) ==
    IF m = Cancel \/ Cardinality(W) = 1 THEN W ELSE {k \in W : Match(k, m)}

(* dispatch: the snapshot of the waiters and the choice of the receivers. *)
Receivers(m, W) ==
    IF m = Cancel THEN W
    ELSE IF \E k \in W : Match(k, m) THEN {k \in W : Match(k, m)}
    ELSE IF ~Addressable(m) /\ Cardinality(W) = 1 THEN W
    ELSE {}

Route(r) ==
    LET m == pump[r].msg
        S == Receivers(m, waiters[r]) IN
    /\ PumpAt(r, "route")
    /\ IF S = {} /\ Addressable(m) THEN PumpGoto(r, "buffer", m, <<>>) ELSE SendTo(r, m, S)
    /\ UNCHANGED <<inbox, run, waiters, pending, dead, slot, wait, clientVars>>

(* Mutant: the buffer is not bounded. *)
BufferedUnbounded(p, m) == Append(p, m)

(* bufferPending: the oldest message makes room. *)
Buffered(p, m) == Append(IF Len(p) >= PendingCap THEN Tail(p) ELSE p, m)

Buffer(r) ==
    /\ PumpAt(r, "buffer")
    /\ pending' = [pending EXCEPT ![r] = Buffered(@, pump[r].msg)]
    /\ PumpGoto(r, "read", Nothing, <<>>)
    /\ UNCHANGED <<inbox, run, waiters, dead, slot, wait, clientVars>>

(* w.ch <- event: blocks while the channel of the waiter is full. *)
Send(r) ==
    LET k == Head(pump[r].todo) IN
    /\ PumpAt(r, "send") /\ slot[k] = Nothing
    /\ slot' = [slot EXCEPT ![k] = pump[r].msg]
    /\ IF Len(pump[r].todo) = 1
       THEN SendTo(r, pump[r].msg, {})
       ELSE PumpGoto(r, "send", pump[r].msg, Tail(pump[r].todo))
    /\ UNCHANGED <<inbox, run, waiters, pending, dead, wait, clientVars>>

(* broadcastError, once the closed channel is empty. *)
BroadcastError(r) ==
    /\ PumpAt(r, "read") /\ closed /\ inbox = <<>>
    /\ pending' = [pending EXCEPT ![r] = <<>>]
    /\ dead' = [dead EXCEPT ![r] = TRUE]
    /\ SendTo(r, Closed, waiters[r])
    /\ UNCHANGED <<inbox, run, waiters, slot, wait, clientVars>>

-----------------------------------------------------------------------------
(* The client and the WebSocket handler *)

(* forwardWSRunMessage: a message that finds the channel full is dropped. *)
Forward(m) == inbox' = IF Len(inbox) < InboxCap THEN Append(inbox, m) ELSE inbox

SendAnswer(k) ==
    /\ wait[k] # "none" /\ answers[k] < MaxAnswers /\ ~closed
    /\ answers' = [answers EXCEPT ![k] = @ + 1]
    /\ Forward(AnswerTo(k))
    /\ UNCHANGED <<closed, run, waiters, pending, dead, pump, slot, wait, cancels>>

SendCancel ==
    /\ cancels < MaxCancels /\ ~closed
    /\ cancels' = cancels + 1
    /\ Forward(Cancel)
    /\ UNCHANGED <<closed, run, waiters, pending, dead, pump, slot, wait, answers>>

(* The client disconnects, or the handler sees the end of the last run. *)
Close ==
    /\ ~closed
    /\ closed' = TRUE
    /\ UNCHANGED <<inbox, run, waiters, pending, dead, pump, slot, wait, answers, cancels>>

(* A run that finished is followed by the next one, with a new hub on the  *)
(* same channel; the pump of the old hub goes on reading.                  *)
NextRun ==
    /\ run < MaxRun /\ cancels = 0
    /\ \A k \in Calls : RunOf[k] = run => wait[k] \in {"none", "answered", "timeout"}
    /\ run' = run + 1
    /\ UNCHANGED <<inbox, waiters, pending, dead, pump, slot, wait, clientVars>>

-----------------------------------------------------------------------------
WaitStep(k) == RegisterDead(k) \/ Claim(k) \/ Register(k) \/ Receive(k) \/ Unregister(k)
PumpStep(r) == Read(r) \/ Route(r) \/ Buffer(r) \/ Send(r) \/ BroadcastError(r)

HubNext ==
    \/ \E k \in Calls : Ask(k) \/ WaitStep(k) \/ Expire(k) \/ SendAnswer(k)
    \/ \E r \in RunIds : PumpStep(r)
    \/ SendCancel \/ Close \/ NextRun

HubSpec == HubInit /\ [][HubNext]_hubVars

(* The Go scheduler runs every goroutine that is not blocked, and a timer  *)
(* that is set fires.  Nothing is assumed of the client.                   *)
HubFairness ==
    /\ \A k \in Calls : WF_hubVars(WaitStep(k)) /\ WF_hubVars(Expire(k))
    /\ \A r \in RunIds : WF_hubVars(PumpStep(r))

HubFairSpec == HubSpec /\ HubFairness

-----------------------------------------------------------------------------
(* Every variable keeps its type; the channels never exceed their capacity.*)
HubTypeOK ==
    /\ inbox \in Seq(Message) /\ Len(inbox) <= InboxCap
    /\ closed \in BOOLEAN /\ run \in RunIds
    /\ waiters \in [RunIds -> SUBSET Calls]
    /\ pending \in [RunIds -> Seq(Message)]
    /\ \A r \in RunIds : Len(pending[r]) <= PendingCap
    /\ dead \in [RunIds -> BOOLEAN]
    /\ pump \in [RunIds -> Pump]
    /\ slot \in [Calls -> Message]
    /\ wait \in [Calls -> {"none"} \cup Open \cup Ended]
    /\ answers \in [Calls -> 0..MaxAnswers]
    /\ cancels \in 0..MaxCancels

(* An answer to one call never ends another: parallel sub-agents do not    *)
(* take each other's answers, even when the right one is not registered.   *)
NoCrossTalk ==
    \A k \in Calls : slot[k].type = "answer" => slot[k].call = k

(* No answer is used twice: what is in the channel, in a buffer, in a pump,*)
(* on its way to a waiter or was consumed adds up to at most what was sent.*)
Places(m) == {i \in DOMAIN inbox : inbox[i] = m}
Buffers(m) ==
    {p \in RunIds \X (1..PendingCap) : p[2] \in DOMAIN pending[p[1]] /\ pending[p[1]][p[2]] = m}
Pumps(m) == {r \in RunIds : pump[r].msg = m}
Slots(m) == {j \in Calls : slot[j] = m}
Used(k)  == IF wait[k] = "answered" THEN 1 ELSE 0
InFlight(k) ==
    LET m == AnswerTo(k) IN
    Cardinality(Places(m)) + Cardinality(Buffers(m)) + Cardinality(Pumps(m)) + Cardinality(Slots(m)) + Used(k)
AnswersConserved == \A k \in Calls : InFlight(k) <= answers[k]

(* Nobody is forgotten by a disconnection: once the pump of a hub has      *)
(* ended, a waiter blocked on that hub has an event to wake it, whether it *)
(* registered before or after the error was broadcast.                     *)
NobodyForgotten ==
    \A k \in Calls :
        (PumpAt(RunOf[k], "exit") /\ wait[k] \in {"blocked", "expired"}) => slot[k] # Nothing

(* A disconnection ends every wait of every run.                           *)
AllReleased ==
    \A k \in Calls : (closed /\ wait[k] \in Open) ~> wait[k] \in Ended

(* Once the channel is closed every pump that was started ends, the one of *)
(* an earlier run included.                                                *)
PumpsEnd == closed ~> \A r \in RunIds : pump[r].pc \in {"off", "exit"}
=============================================================================
