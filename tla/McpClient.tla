------------------------------ MODULE McpClient ------------------------------
(***************************************************************************)
(* One stdio MCP server of the manager: the child process, the pump that   *)
(* reads its output, and the callers that send it requests one at a time   *)
(* under the mutex of the client.  A request that gets no answer in time   *)
(* is given up; after TimeoutLimit of them the process is killed, and the  *)
(* next call starts another one.  The manager may take the client out of   *)
(* its map, and stops it then, while callers still hold it.                *)
(*                                                                         *)
(* The pump reads the fields of the client without the mutex: each of its  *)
(* reads is a step of its own, and so is each write it may fall between.   *)
(* Two pumps at one bufio.Reader are a data race: each takes some of the   *)
(* lines, or a line is torn and dropped.  Write is assumed not to block.   *)
(***************************************************************************)
EXTENDS Integers, Sequences, FiniteSets

CONSTANTS
    Callers,        \* goroutines that use the client
    NoCaller,       \* the mutex is free
    TimeoutLimit,   \* stdioMaxConsecutiveTimeouts
    MaxProcesses,   \* bound: child processes
    MaxIds          \* bound: requests

ASSUME McpAssumption ==
    /\ NoCaller \notin Callers
    /\ TimeoutLimit \in Nat \ {0} /\ MaxProcesses \in Nat /\ MaxIds \in Nat

Processes == 1..MaxProcesses
Ids == 1..MaxIds
Generations == 1..MaxProcesses

VARIABLES
    listing,    \* the client in the map of the manager: not yet, in it, taken out
    ops,        \* what each caller wants of the client, or nothing
    mutex,      \* c.mu: who holds it
    pos,        \* where its holder is
    purpose,    \* of its request: the handshake, or the call
    cmd,        \* c.cmd and c.stdout: the process, or 0 for nil
    readBroken, generation, timeouts, nextID,
    awaited,    \* c.pending, by id
    channels,   \* the channel of each id: empty, broken, or the process that answered
    exited,     \* processes that are dead
    unanswered,      \* per process, the ids it has read and not answered
    lines,      \* per process, the ids of the answers in its output
    pumps,      \* per generation, its pump
    panicked    \* a pump read from nil: the service is gone
mcpVars == <<listing, ops, mutex, pos, purpose, cmd, readBroken, generation, timeouts, nextID,
             awaited, channels, exited, unanswered, lines, pumps, panicked>>
callVars == <<listing, ops, mutex, pos, purpose, cmd, generation, timeouts, nextID>>

NoReply == 0
StreamBroken == -1
NoPump == [at |-> "none", src |-> 0, id |-> 0]

McpTypeOK ==
    /\ listing \in {"new", "listed", "gone"}
    /\ ops \in [Callers -> {"none", "start", "call", "remove"}]
    /\ mutex \in Callers \cup {NoCaller}
    /\ pos \in {"none", "restarting", "clearing", "spawning", "numbering", "asking", "writing",
                "waiting", "leaving", "stopping", "stopped"}
    /\ purpose \in {"handshake", "call"}
    /\ cmd \in {0} \cup Processes /\ generation \in {0} \cup Generations
    /\ readBroken \in BOOLEAN /\ panicked \in BOOLEAN
    /\ timeouts \in 0..TimeoutLimit /\ nextID \in 0..MaxIds
    /\ awaited \subseteq Ids
    /\ channels \in [Ids -> {NoReply, StreamBroken} \cup Processes]
    /\ exited \subseteq Processes
    /\ unanswered \in [Processes -> SUBSET Ids] /\ lines \in [Processes -> Seq(Ids)]
    /\ pumps \in [Generations ->
         [ at : {"none", "turn", "reading", "sorting", "sending", "eof", "ended"},
           src : {0} \cup Processes, id : {0} \cup Ids ]]

McpInit ==
    /\ listing = "new" /\ ops = [c \in Callers |-> "none"]
    /\ mutex = NoCaller /\ pos = "none" /\ purpose = "call"
    /\ cmd = 0 /\ readBroken = FALSE /\ generation = 0 /\ timeouts = 0 /\ nextID = 0
    /\ awaited = {} /\ channels = [i \in Ids |-> NoReply]
    /\ exited = {} /\ unanswered = [p \in Processes |-> {}] /\ lines = [p \in Processes |-> <<>>]
    /\ pumps = [g \in Generations |-> NoPump]
    /\ panicked = FALSE

ownId == nextID   \* the id of the request that the holder of the mutex has made

-----------------------------------------------------------------------------
(* The manager *)

\* Two ids for each caller that may still use the client.
IdsLeft == nextID + 2 * (1 + Cardinality({c \in Callers : ops[c] # "none"})) <= MaxIds

\* EnsureServer starts the client before anybody finds it; Call takes it from the
\* map and uses it afterwards; RemoveServer, the EnsureServer of its successor and
\* Shutdown take it out and stop it afterwards.
Take(c) ==
    /\ ops[c] = "none"
    /\ \/ listing = "new" /\ ops' = [ops EXCEPT ![c] = "start"] /\ UNCHANGED listing
          /\ \A d \in Callers : ops[d] = "none"
       \/ listing = "listed" /\ ops' = [ops EXCEPT ![c] = "call"] /\ UNCHANGED listing
       \/ listing = "listed" /\ ops' = [ops EXCEPT ![c] = "remove"] /\ listing' = "gone"
    /\ IdsLeft
    /\ UNCHANGED <<mutex, pos, purpose, cmd, readBroken, generation, timeouts, nextID, awaited,
                   channels, exited, unanswered, lines, pumps, panicked>>

\* The client is locked; a call finds its process at work, or starts one
\* (ensureStartedLocked).
Lock(c) ==
    /\ ops[c] # "none" /\ mutex = NoCaller
    /\ mutex' = c
    /\ pos' = CASE ops[c] = "remove" -> "stopping"
                [] ops[c] = "call" /\ cmd # 0 /\ ~readBroken -> "asking"
                [] OTHER -> "restarting"
    /\ purpose' = "call"
    /\ UNCHANGED <<listing, ops, cmd, readBroken, generation, timeouts, nextID, awaited,
                   channels, exited, unanswered, lines, pumps, panicked>>

\* The operation returns.  A client that was started is put in the map, one that
\* could not be started is forgotten.
LetGo(well) ==
    /\ ops' = [ops EXCEPT ![mutex] = "none"]
    /\ listing' = IF ops[mutex] # "start" THEN listing ELSE IF well THEN "listed" ELSE "gone"
    /\ mutex' = NoCaller /\ pos' = "none"

Proceed(where) == pos' = where /\ UNCHANGED <<listing, ops, mutex>>

\* A handshake that fails stops the process it was for.
Fail == IF purpose = "handshake" THEN Proceed("stopping") ELSE LetGo(FALSE)

-----------------------------------------------------------------------------
(* stopLocked and startLocked *)

\* The process is killed and waited for; there may be none.
KillProcess ==
    /\ pos \in {"restarting", "stopping"}
    /\ exited' = exited \cup ({cmd} \ {0})
    /\ Proceed(IF pos = "restarting" THEN "clearing" ELSE "stopped")
    /\ UNCHANGED <<purpose, cmd, readBroken, generation, timeouts, nextID, awaited, channels,
                   unanswered, lines, pumps, panicked>>

\* Whoever waits for an answer gets an error (failAllPending).
BreakAwaited ==
    /\ channels' = [i \in Ids |-> IF i \in awaited THEN StreamBroken ELSE channels[i]]
    /\ awaited' = {}

ClearProcess ==
    /\ pos \in {"clearing", "stopped"}
    /\ cmd' = 0
    /\ IF cmd = 0 THEN UNCHANGED <<awaited, channels>> ELSE BreakAwaited
    /\ IF pos = "clearing" THEN Proceed("spawning") ELSE LetGo(FALSE)
    /\ UNCHANGED <<purpose, readBroken, generation, timeouts, nextID, exited, unanswered, lines,
                   pumps, panicked>>

\* A process is started, or cannot be.
Spawn ==
    /\ pos = "spawning"
    /\ \/ /\ generation < MaxProcesses
          /\ cmd' = generation + 1
          /\ readBroken' = FALSE /\ timeouts' = 0
          /\ Proceed("numbering")
       \/ LetGo(FALSE) /\ UNCHANGED <<cmd, readBroken, timeouts>>
    /\ UNCHANGED <<purpose, generation, nextID, awaited, channels, exited, unanswered, lines, pumps,
                   panicked>>

\* Its pump is started, and the handshake begins.
StartPump ==
    /\ pos = "numbering"
    /\ generation' = generation + 1
    /\ pumps' = [pumps EXCEPT ![generation'].at = "turn"]
    /\ purpose' = "handshake" /\ Proceed("asking")
    /\ UNCHANGED <<cmd, readBroken, timeouts, nextID, awaited, channels, exited, unanswered, lines,
                   panicked>>

-----------------------------------------------------------------------------
(* roundTripLockedTimeout *)

\* The request is registered, unless the output of the process has broken.
Register ==
    /\ pos = "asking" /\ nextID < MaxIds
    /\ nextID' = nextID + 1
    /\ IF readBroken THEN Fail /\ UNCHANGED <<awaited, channels>>
       ELSE /\ awaited' = awaited \cup {nextID'}
            /\ channels' = [channels EXCEPT ![nextID'] = NoReply]
            /\ Proceed("writing")
    /\ UNCHANGED <<purpose, cmd, readBroken, generation, timeouts, exited, unanswered, lines, pumps,
                   panicked>>

WriteRequest ==
    /\ pos = "writing"
    /\ IF cmd \in exited
       THEN /\ awaited' = awaited \ {ownId}
            /\ Fail /\ UNCHANGED unanswered
       ELSE /\ unanswered' = [unanswered EXCEPT ![cmd] = @ \cup {ownId}]
            /\ Proceed("waiting") /\ UNCHANGED awaited
    /\ UNCHANGED <<purpose, cmd, readBroken, generation, timeouts, nextID, channels, exited,
                   lines, pumps, panicked>>

\* settleRoundTripResult: an answer, which may be an error, or the broken stream.
\* After the handshake comes the call, if there is one.
SettleResult ==
    /\ pos = "waiting" /\ channels[ownId] # NoReply
    /\ timeouts' = 0
    /\ \/ Fail /\ UNCHANGED purpose
       \/ /\ channels[ownId] # StreamBroken
          /\ IF purpose = "handshake" /\ ops[mutex] = "call"
             THEN purpose' = "call" /\ Proceed("asking")
             ELSE LetGo(TRUE) /\ UNCHANGED purpose
    /\ UNCHANGED <<cmd, readBroken, generation, nextID, awaited, channels, exited, unanswered,
                   lines, pumps, panicked>>

\* The timer fires and finds the channel empty.
Expire ==
    /\ pos = "waiting" /\ channels[ownId] = NoReply
    /\ Proceed("leaving")
    /\ UNCHANGED <<purpose, cmd, readBroken, generation, timeouts, nextID, awaited, channels,
                   exited, unanswered, lines, pumps, panicked>>

\* The request is given up; one too many stops the process.
GiveUp ==
    /\ pos = "leaving"
    /\ awaited' = awaited \ {ownId}
    /\ timeouts' = timeouts + 1
    /\ IF timeouts' >= TimeoutLimit THEN Proceed("stopping") ELSE Fail
    /\ UNCHANGED <<purpose, cmd, readBroken, generation, nextID, channels, exited, unanswered,
                   lines, pumps, panicked>>

-----------------------------------------------------------------------------
(* External: the child process answers what it likes, or dies. *)

Answer(p) ==
    /\ p \notin exited
    /\ \E i \in unanswered[p] :
         /\ unanswered' = [unanswered EXCEPT ![p] = @ \ {i}]
         /\ lines' = [lines EXCEPT ![p] = Append(@, i)]
    /\ UNCHANGED <<callVars, readBroken, awaited, channels, exited, pumps, panicked>>

Die(p) ==
    /\ p <= generation /\ p \notin exited
    /\ exited' = exited \cup {p}
    /\ UNCHANGED <<callVars, readBroken, awaited, channels, unanswered, lines, pumps, panicked>>

-----------------------------------------------------------------------------
(* pump *)

PumpTo(g, where) == pumps' = [pumps EXCEPT ![g].at = where]

\* c.stdout is looked at, whatever it is by now.
TurnToOutput(g) ==
    /\ pumps[g].at = "turn"
    /\ IF cmd = 0 THEN panicked' = TRUE /\ UNCHANGED pumps
       ELSE pumps' = [pumps EXCEPT ![g] = [at |-> "reading", src |-> cmd, id |-> 0]]
            /\ UNCHANGED panicked
    /\ UNCHANGED <<callVars, readBroken, awaited, channels, exited, unanswered, lines>>

\* A line is read; at a reader that is shared it may be torn, which ends in nothing.
ReadLine(g) ==
    LET p == pumps[g].src
    IN  /\ pumps[g].at = "reading" /\ lines[p] # <<>>
        /\ lines' = [lines EXCEPT ![p] = Tail(@)]
        /\ \/ pumps' = [pumps EXCEPT ![g].at = "sorting", ![g].id = Head(lines[p])]
           \/ /\ \E h \in Generations \ {g} : pumps[h].at = "reading" /\ pumps[h].src = p
              /\ PumpTo(g, "turn")
        /\ UNCHANGED <<callVars, readBroken, awaited, channels, exited, unanswered, panicked>>

\* The process has died; what it had written may be lost with the pipe.
ReadEnd(g) ==
    /\ pumps[g].at = "reading" /\ pumps[g].src \in exited
    /\ PumpTo(g, "eof")
    /\ UNCHANGED <<callVars, readBroken, awaited, channels, exited, unanswered, lines, panicked>>

\* Who waits for the id?  An answer that comes too late is dropped.
Sort(g) ==
    /\ pumps[g].at = "sorting"
    /\ awaited' = awaited \ {pumps[g].id}
    /\ PumpTo(g, IF pumps[g].id \in awaited THEN "sending" ELSE "turn")
    /\ UNCHANGED <<callVars, readBroken, channels, exited, unanswered, lines, panicked>>

SendReply(g) ==
    /\ pumps[g].at = "sending"
    /\ channels' = [channels EXCEPT ![pumps[g].id] = pumps[g].src]
    /\ PumpTo(g, "turn")
    /\ UNCHANGED <<callVars, readBroken, awaited, exited, unanswered, lines, panicked>>

\* Mutant: a pump that was replaced breaks what its successor works for.
PumpBrokenAlways(g) ==
    /\ pumps[g].at = "eof"
    /\ PumpTo(g, "ended")
    /\ BreakAwaited /\ readBroken' = TRUE
    /\ UNCHANGED <<callVars, exited, unanswered, lines, panicked>>
\* pumpBroken: the pump that was started last breaks what waits.
PumpBroken(g) ==
    /\ pumps[g].at = "eof"
    /\ PumpTo(g, "ended")
    /\ IF g = generation THEN BreakAwaited /\ readBroken' = TRUE
       ELSE UNCHANGED <<awaited, channels, readBroken>>
    /\ UNCHANGED <<callVars, exited, unanswered, lines, panicked>>

-----------------------------------------------------------------------------
Pump(g) == TurnToOutput(g) \/ ReadLine(g) \/ ReadEnd(g) \/ Sort(g) \/ SendReply(g) \/ PumpBroken(g)

McpNext ==
    /\ ~panicked
    /\ \/ \E c \in Callers : Take(c) \/ Lock(c)
       \/ KillProcess \/ ClearProcess \/ Spawn \/ StartPump
       \/ Register \/ WriteRequest \/ SettleResult \/ Expire \/ GiveUp
       \/ \E p \in Processes : Answer(p) \/ Die(p)
       \/ \E g \in Generations : Pump(g)

McpSpec == McpInit /\ [][McpNext]_mcpVars

-----------------------------------------------------------------------------
(* What a request gets comes from the process it was sent to: an answer of *)
(* that process, or the error of its stream after it has died; never the   *)
(* late answer to another request, nor the end of a process that was       *)
(* replaced (pump, pumpBroken).                                            *)
AnswerIsOwn ==
    pos = "waiting" =>
        /\ channels[ownId] \in {NoReply, StreamBroken, cmd}
        /\ channels[ownId] = StreamBroken => cmd \in exited

(* RemoveServer stops and removes the server.  The code does not ensure    *)
(* it: a call that took the client before starts another process after.    *)
RemovedIsStopped ==
    listing = "gone" /\ (\A c \in Callers : ops[c] = "none") => cmd = 0

(* One pump reads the output of the process (the comment at Client).  The  *)
(* code does not ensure it: a pump that is at work while the client is     *)
(* stopped and started turns to the new output, or to nil.                 *)
OneReader ==
    /\ ~panicked
    /\ \A g, h \in Generations :
         pumps[g].at = "reading" /\ pumps[h].at = "reading" /\ g # h => pumps[g].src # pumps[h].src
=============================================================================
