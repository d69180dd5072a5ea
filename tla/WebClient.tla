------------------------------ MODULE WebClient ------------------------------
(***************************************************************************)
(* One session of the TypeScript client: its connection (WsClient), the    *)
(* runs it asks for, and how it goes on when the connection is lost while  *)
(* one of them runs (SessionRuntime): it asks the server how that run      *)
(* ended and, when it was cut off, asks for a continuation by itself.  The *)
(* server is here what answers: one run at a time, which goes on without   *)
(* its connection, and what it takes to itself or queues while it works.   *)
(* A view that is neither running nor recovering is "idle", whatever it    *)
(* shows.                                                                  *)
(***************************************************************************)
EXTENDS Naturals, Sequences, FiniteSets, SequencesExt

CONSTANTS
    MaxAsks,           \* bound: requests, continuations included
    MaxConnections,    \* bound: connections
    MaxContinuations,  \* MAX_CONSECUTIVE_RECOVERY_RUNS
    MaxPolls,          \* MAX_RECOVERY_POLL_ATTEMPTS
    MaxReconnects      \* MAX_PENDING_RUN_RECONNECT_ATTEMPTS

ASSUME WebAssumption ==
    /\ {MaxAsks, MaxContinuations, MaxPolls, MaxReconnects} \subseteq Nat
    /\ MaxConnections \in Nat \ {0}

VARIABLES
    asks,     \* what was asked for, in order: the run it continues, or 0
    link,     \* the socket, its number, what waits for it, the timer that reconnects
    view,     \* AgentState and the version of it, which is that of the last request
    pending,  \* pendingLiveRunPayload and the flags beside it
    rescue,   \* the recovery of an interrupted run
    lookup,   \* the request for the events of the session of that recovery
    resyncs,  \* views to be replayed when the events arrive, after an end
    sent,     \* all that went out: the request or the run to cancel, and the connection
    server    \* what was read of it, the runs, the queue, the receipts

webVars == <<asks, link, view, pending, rescue, lookup, resyncs, sent, server>>

WebRuns == 1..Len(server.runs)
Terminal == {"done", "error", "cancelled"}

(* Messages: a request to run, or a cancel. *)
RunMessage(ask) == [kind |-> "run", of |-> ask]
CancelMessage(run) == [kind |-> "cancel", of |-> run]

NothingPending == [ask |-> 0, waiting |-> FALSE, resend |-> FALSE, reconnects |-> 0]

WebInit ==
    /\ asks = <<>>
    /\ link = [state |-> "none", number |-> 0, buffer |-> <<>>, retry |-> FALSE]
    /\ view = [status |-> "idle", run |-> 0, version |-> 0]
    /\ pending = NothingPending
    /\ rescue = [run |-> 0, polls |-> 0, timer |-> FALSE, aborted |-> FALSE, continued |-> 0]
    /\ lookup = 0 /\ resyncs = {}
    /\ sent = <<>> /\ server = [read |-> 0, runs |-> <<>>, queue |-> 0, receipts |-> {}]

WebTypeOK ==
    /\ asks \in Seq(0..Len(server.runs)) /\ Len(asks) <= MaxAsks
    /\ link.state \in {"none", "connecting", "open", "closing"}
    /\ link.number \in 0..MaxConnections /\ link.retry \in BOOLEAN
    /\ view \in [status : {"idle", "running", "recovering"}, run : 0..Len(server.runs),
                 version : 0..MaxAsks]
    /\ pending \in [ask : 0..MaxAsks, waiting : BOOLEAN, resend : BOOLEAN,
                    reconnects : 0..MaxReconnects]
    /\ rescue \in [run : 0..Len(server.runs), polls : 0..MaxPolls, timer : BOOLEAN,
                   aborted : BOOLEAN, continued : 0..MaxContinuations]
    /\ lookup \in 0..Len(server.runs) /\ resyncs \subseteq 0..view.version
    /\ server.read <= Len(sent)

-----------------------------------------------------------------------------
(* The connection *)

\* connect(): skipped while the socket is open or opens.  A socket that closes is
\* replaced: its end is no longer heard of.
Connected(l) ==
    IF l.state \in {"open", "connecting"} THEN l
    ELSE [l EXCEPT !.state = "connecting", !.number = @ + 1]

Out(message) == [message |-> message, number |-> link.number]

\* send(): at once, or when the socket has opened.
Send(l, message) ==
    IF l.state = "open"
    THEN link' = l /\ sent' = Append(sent, Out(message))
    ELSE link' = [l EXCEPT !.buffer = Append(@, message)] /\ UNCHANGED sent

\* Mutant: the run stays noted.
ClearedPartly(r) == [r EXCEPT !.polls = 0, !.timer = FALSE]
\* The recovery comes to rest; what it counts and whether it was stopped stays.
Cleared(r) == [r EXCEPT !.run = 0, !.polls = 0, !.timer = FALSE]

\* sendRun: what was sent is sent again if the connection is lost before an answer.
NewPending(ask, open) == [ask |-> ask, waiting |-> ~open, resend |-> open, reconnects |-> 0]

\* sendRun: without a connection it asks for one and shows that.
SendRun(continues) ==
    /\ Len(asks) < MaxAsks
    /\ asks' = Append(asks, continues)
    /\ view' = [status |-> IF link.state \in {"none", "closing"} THEN "recovering" ELSE "running",
                run |-> 0, version |-> view.version + 1]
    /\ pending' = NewPending(Len(asks'), link.state = "open")
    /\ Send(Connected(link), RunMessage(Len(asks')))

\* The host connects; the session is shown again after an idle disconnection.
Show ==
    /\ link.state = "none" /\ ~link.retry
    /\ link' = Connected(link)
    /\ UNCHANGED <<asks, view, pending, rescue, lookup, resyncs, sent, server>>

\* The timer of scheduleReconnect, or the browser is online again.
Reconnect ==
    /\ link.retry
    /\ link' = Connected([link EXCEPT !.retry = FALSE])
    /\ UNCHANGED <<asks, view, pending, rescue, lookup, resyncs, sent, server>>

\* maybeResumeRecovery.
Resumes == rescue.run # 0 /\ view.status = "recovering" /\ lookup = 0 /\ ~rescue.timer

\* onopen: flushPendingMessages, then handleWsOpen.
Opened ==
    /\ link.state = "connecting"
    /\ LET again == pending.resend /\ pending.waiting /\ pending.ask # 0
           messages == link.buffer \o IF again THEN <<RunMessage(pending.ask)>> ELSE <<>>
       IN /\ sent' = sent \o [i \in 1..Len(messages) |-> Out(messages[i])]
          /\ pending' = [pending EXCEPT !.resend = @ /\ ~again]
    /\ link' = [link EXCEPT !.state = "open", !.buffer = <<>>]
    /\ lookup' = IF Resumes THEN rescue.run ELSE lookup
    /\ UNCHANGED <<asks, view, rescue, resyncs, server>>

\* onDisconnected, of a socket that closed, timed out, never opened or was torn down
\* after the browser went offline: handleConnectionChange, then handleReconnectAttempt.
Disconnected ==
    /\ link.state # "none" /\ link.number < MaxConnections
    /\ LET cutOff   == view.status = "running" /\ view.run # 0
           unheard  == view.status = "running" /\ view.run = 0 /\ pending.ask # 0
           waits    == pending.ask # 0 /\ (pending.waiting \/ unheard)
           givesUp  == waits /\ pending.reconnects = MaxReconnects
       IN /\ rescue' = IF cutOff
                       THEN [Cleared(rescue) EXCEPT !.run = view.run, !.aborted = FALSE]
                       ELSE rescue
          /\ pending' = IF givesUp THEN NothingPending
                        ELSE [pending EXCEPT !.waiting = @ \/ unheard, !.resend = @ \/ unheard,
                                             !.reconnects = IF waits THEN @ + 1 ELSE @]
          /\ view' = [view EXCEPT !.status = IF givesUp THEN "idle"
                                             ELSE IF cutOff \/ unheard THEN "recovering" ELSE @]
          /\ link' = [link EXCEPT !.state = "none", !.retry = TRUE,
                                  !.buffer = IF givesUp THEN <<>> ELSE @]
    /\ UNCHANGED <<asks, lookup, resyncs, sent, server>>

\* The heartbeat is overdue: close() is called, onclose comes later.
HeartbeatLate ==
    /\ link.state = "open" /\ link.number < MaxConnections
    /\ link' = [link EXCEPT !.state = "closing"]
    /\ UNCHANGED <<asks, view, pending, rescue, lookup, resyncs, sent, server>>

\* The session is in the background and idle: disconnectWs, which reports nothing.
IdleDisconnect ==
    /\ link.state # "none" /\ link.number < MaxConnections
    /\ rescue.run = 0 /\ view.status = "idle"
    /\ link' = [link EXCEPT !.state = "none", !.buffer = <<>>, !.retry = FALSE]
    /\ UNCHANGED <<asks, view, pending, rescue, lookup, resyncs, sent, server>>

-----------------------------------------------------------------------------
(* The user *)

\* run(): a new run, or, while one is running, a message to it.
Submit ==
    /\ rescue' = [rescue EXCEPT !.continued = 0]
    /\ \/ view.status # "running" /\ SendRun(0)
       \/ /\ view.status = "running" /\ Len(asks) < MaxAsks
          /\ asks' = Append(asks, 0) /\ Send(link, RunMessage(Len(asks')))
          /\ UNCHANGED <<view, pending>>
    /\ UNCHANGED <<lookup, resyncs, server>>

\* cancel(): while it recovers that ends; a run that is known is cancelled (here once).
StopRecovery ==
    /\ view.status = "recovering"
    /\ rescue' = [Cleared(rescue) EXCEPT !.aborted = TRUE, !.continued = 0]
    /\ pending' = [pending EXCEPT !.waiting = FALSE, !.reconnects = 0, !.ask = 0]
    /\ link' = [link EXCEPT !.buffer = <<>>]
    /\ view' = [view EXCEPT !.status = "idle", !.run = 0]
    /\ UNCHANGED <<asks, lookup, resyncs, sent, server>>

CancelRun ==
    /\ view.status = "running" /\ view.run # 0
    /\ CancelMessage(view.run) \notin ToSet(link.buffer) \cup {o.message : o \in ToSet(sent)}
    /\ Send(link, CancelMessage(view.run))
    /\ rescue' = [rescue EXCEPT !.continued = 0]
    /\ UNCHANGED <<asks, view, pending, lookup, resyncs, server>>

-----------------------------------------------------------------------------
(* The server *)

Working == \E r \in WebRuns : server.runs[r].state = "running"

StartedRun(number) ==
    [number |-> number, state |-> "running", told |-> "nothing", joined |-> FALSE]

\* A request while a run is active: guided to that run or refused, or queued behind it,
\* with a receipt that names the run (whatever its connection, EmitSteerReceipt).
Admitted(read, number) ==
    LET r == Len(read.runs)
    IN {[read EXCEPT !.queue = @ + more, !.runs[r].joined = TRUE,
                     !.receipts = @ \cup {[number |-> number, run |-> r]}] : more \in {0, 1}}

\* The next message: it runs, is admitted, or cancels; or it is lost with its connection.
ServerReads ==
    /\ server.read < Len(sent)
    /\ LET next == sent[server.read + 1]
           read == [server EXCEPT !.read = @ + 1]
       IN \/ next.message.kind = "run" /\ Working /\ server' \in Admitted(read, next.number)
          \/ /\ next.message.kind = "run" /\ ~Working
             /\ server' = [read EXCEPT !.runs = Append(@, StartedRun(next.number))]
          \/ /\ next.message.kind = "cancel"
             /\ server' = IF server.runs[next.message.of].state # "running" THEN read
                          ELSE [read EXCEPT !.runs[next.message.of].state = "cancelled"]
          \/ (next.number # link.number \/ link.state # "open") /\ server' = read
    /\ UNCHANGED <<asks, link, view, pending, rescue, lookup, resyncs, sent>>

\* With or without its connection (wsEventWriter.Detach).
ServerEnds(r) ==
    /\ server.runs[r].state = "running"
    /\ \E end \in {"done", "error"} : server' = [server EXCEPT !.runs[r].state = end]
    /\ UNCHANGED <<asks, link, view, pending, rescue, lookup, resyncs, sent>>

\* The queue is drained where the run that is done was running, on its connection.
ServerDrains ==
    /\ server.queue > 0 /\ Last(server.runs).state = "done"
    /\ server' = [server EXCEPT !.queue = @ - 1, !.runs = Append(@, StartedRun(Last(@).number))]
    /\ UNCHANGED <<asks, link, view, pending, rescue, lookup, resyncs, sent>>

-----------------------------------------------------------------------------
(* Events *)

Heard(r) ==
    /\ link.state = "open" /\ server.runs[r].number = link.number
    /\ \A q \in 1..(r - 1) : server.runs[q].number = link.number => server.runs[q].told = "end"

\* handleEvent: the first event takes the request off the list (persistPendingLiveRunEvent),
\* each one shows its run as running.
RunEvent(r) ==
    /\ Heard(r) /\ server.runs[r].told # "end"
    /\ server' = [server EXCEPT !.runs[r].told = "some"]
    /\ pending' = IF pending.ask # 0 THEN NothingPending ELSE pending
    /\ view' = [view EXCEPT !.status = "running", !.run = r]
    /\ UNCHANGED <<asks, link, rescue, lookup, resyncs, sent>>

\* The receipt of a request that an active run took: that run is shown.
Receipt(receipt) ==
    /\ link.state = "open" /\ receipt.number = link.number
    /\ server' = [server EXCEPT !.receipts = @ \ {receipt}]
    /\ pending' = IF pending.ask # 0 THEN NothingPending ELSE pending
    /\ view' = [view EXCEPT !.run = receipt.run]
    /\ UNCHANGED <<asks, link, rescue, lookup, resyncs, sent>>

\* The last event; the events of the session are asked for, to replay them.
EndEvent(r) ==
    /\ Heard(r) /\ server.runs[r].told # "end" /\ server.runs[r].state \in Terminal
    /\ server' = [server EXCEPT !.runs[r].told = "end"]
    /\ pending' = IF pending.ask # 0 THEN NothingPending ELSE pending
    /\ view' = [view EXCEPT !.status = "idle", !.run = r]
    /\ rescue' = IF server.runs[r].state = "done" THEN [rescue EXCEPT !.continued = 0] ELSE rescue
    /\ resyncs' = resyncs \cup {view.version}
    /\ UNCHANGED <<asks, link, lookup, sent>>

\* The events are here: unless the view is another, or running, it is replayed.
Replay(version) ==
    /\ version \in resyncs
    /\ resyncs' = resyncs \ {version}
    /\ view' = IF version = view.version /\ view.status # "running"
               THEN [view EXCEPT !.status = "idle", !.run = 0] ELSE view
    /\ UNCHANGED <<asks, link, pending, rescue, lookup, sent, server>>

-----------------------------------------------------------------------------
(* The recovery *)

\* scheduleRecoveryRetry, up to the limit.
TryLater ==
    /\ rescue' = IF rescue.polls + 1 < MaxPolls
                 THEN [rescue EXCEPT !.polls = @ + 1, !.timer = TRUE] ELSE Cleared(rescue)
    /\ view' = IF rescue.polls + 1 < MaxPolls THEN view ELSE [view EXCEPT !.status = "idle"]
    /\ UNCHANGED <<asks, link, pending, sent>>

ShowOutcome ==
    /\ view' = [view EXCEPT !.status = "idle", !.run = 0]
    /\ rescue' = [Cleared(rescue) EXCEPT !.continued = 0]
    /\ UNCHANGED <<asks, link, pending, sent>>

\* A new run goes on where the old one was cut off, up to the limit.
Continue ==
    IF rescue.continued < MaxContinuations
    THEN /\ rescue' = [Cleared(rescue) EXCEPT !.continued = @ + 1]
         /\ SendRun(lookup)
    ELSE /\ rescue' = Cleared(rescue)
         /\ view' = [view EXCEPT !.status = "idle"]
         /\ UNCHANGED <<asks, link, pending, sent>>

\* pollRecovery, once the events are there: they say how the run ended, or do not say
\* so yet, or could not be read.
LookupReturns ==
    /\ lookup # 0 /\ lookup' = 0
    /\ IF rescue.aborted \/ view.status # "recovering"
       THEN UNCHANGED <<asks, link, view, pending, rescue, sent>>
       ELSE \/ TryLater
            \/ server.runs[lookup].state \in {"done", "cancelled"} /\ ShowOutcome
            \/ server.runs[lookup].state = "error" /\ Continue
    /\ UNCHANGED <<resyncs, server>>

\* The timer of the retry: pollRecovery, up to its request.
LookAgain ==
    /\ rescue.timer
    /\ rescue' = [rescue EXCEPT !.timer = FALSE]
    /\ lookup' = IF view.status = "recovering" THEN rescue.run ELSE lookup
    /\ UNCHANGED <<asks, link, view, pending, resyncs, sent, server>>

-----------------------------------------------------------------------------
Connecting == Show \/ Reconnect \/ Opened \/ Disconnected \/ HeartbeatLate \/ IdleDisconnect

Answering ==
    \/ ServerReads \/ ServerDrains
    \/ \E r \in WebRuns : ServerEnds(r) \/ RunEvent(r) \/ EndEvent(r)
    \/ \E receipt \in server.receipts : Receipt(receipt)
    \/ \E version \in resyncs : Replay(version)

WebNext ==
    \/ Connecting \/ Answering
    \/ Submit \/ StopRecovery \/ CancelRun
    \/ LookupReturns \/ LookAgain

WebSpec == WebInit /\ [][WebNext]_webVars

\* Timers fire, a request is answered or fails.
WebFairness ==
    /\ WF_webVars(Reconnect) /\ WF_webVars(Opened)
    /\ WF_webVars(LookupReturns) /\ WF_webVars(LookAgain)

-----------------------------------------------------------------------------
\* A run is continued by the client only when it was cut off, and once, as long as no
\* request was admitted to it: whatever reconnections, lookups on their way, ends and
\* the user's own messages do meanwhile (pollRecovery, maybeResumeRecovery).
ContinuedOnce ==
    \A i \in 1..Len(asks) : asks[i] # 0 =>
      /\ server.runs[asks[i]].state = "error"
      /\ ~server.runs[asks[i]].joined => \A j \in 1..(i - 1) : asks[j] # asks[i]

\* Where a run was interrupted one new run goes on (pollRecovery).  The code does not
\* ensure it: the receipt of a message that was admitted to the run shows it as the
\* current one again, after it was continued, and the next disconnection recovers it.
OneContinuation ==
    \A i, j \in 1..Len(asks) : i # j /\ asks[i] # 0 => asks[i] # asks[j]

\* No connection carries a request twice: it is in the buffer or marked to be sent
\* again, never both (sendRun, handleWsOpen).
SentOnce ==
    \A i, j \in 1..Len(sent) :
      i # j /\ sent[i].message.kind = "run" => sent[i] # sent[j]

\* The recovery of a run ends: it was over, it is continued, or the user is told.
RecoveryEnds ==
    (rescue.run # 0 /\ view.status = "recovering") ~> (rescue.run = 0 \/ view.status # "recovering")
=============================================================================
