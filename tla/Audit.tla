-------------------------------- MODULE Audit --------------------------------
(***************************************************************************)
(* The audit of the MCP gateway: a tool call leaves a record in a bounded  *)
(* queue, one goroutine collects records into batches, and a bounded       *)
(* number of workers writes the batches; when all are busy the goroutine   *)
(* writes its batch itself.  Closing drains what has been accepted.        *)
(*                                                                         *)
(* A panic inside a batch is left out.                                     *)
(***************************************************************************)
EXTENDS Integers, Sequences, FiniteSets, SequencesExt

CONSTANTS
    MaxRecords,   \* bound: records that are accepted, numbered in their order
    QueueSize,    \* auditQueueSize
    BatchSize,    \* auditBatchSize
    WorkerNum     \* audit.worker_num

AuditAssumption ==
    /\ MaxRecords \in Nat /\ {QueueSize, BatchSize, WorkerNum} \subseteq Nat \ {0}

VARIABLES
    accepted,     \* records so far
    queue,        \* w.queue
    buffer,       \* of consumeAuditQueue
    collector,    \* where consume stands: selecting, draining, writing a batch, done
    batches,      \* w.batches: those the workers hold
    logged,       \* what was inserted or failed to be
    closing       \* auditWriterState.writer: open, closing (nil, Close waits), closed

auditVars == <<accepted, queue, buffer, collector, batches, logged, closing>>

Selecting == [at |-> "selecting", batch |-> <<>>, next |-> "selecting"]

AuditTypeOK ==
    /\ accepted \in 0..MaxRecords
    /\ Len(queue) <= QueueSize /\ Len(buffer) < BatchSize
    /\ Cardinality(batches) <= WorkerNum
    /\ {collector.at, collector.next} \subseteq {"selecting", "draining", "writing", "done"}
    /\ closing \in {"open", "closing", "closed"}

AuditInit ==
    /\ accepted = 0 /\ queue = <<>> /\ buffer = <<>> /\ collector = Selecting
    /\ batches = {} /\ logged = <<>> /\ closing = "open"

-----------------------------------------------------------------------------
\* Mutant: the writer is not looked at.
RoomAlways == Len(queue) < QueueSize

\* Otherwise a record is dropped.
Room == closing = "open" /\ Len(queue) < QueueSize

\* Under the read lock, so that nothing enters the queue after Close has taken the
\* writer away.
SubmitAudit ==
    /\ accepted < MaxRecords /\ Room
    /\ accepted' = accepted + 1 /\ queue' = Append(queue, accepted + 1)
    /\ UNCHANGED <<buffer, collector, batches, logged, closing>>

\* submitBatch: a worker, or the collector itself; then it goes on where it was.
SubmitBatch(batch, next) ==
    /\ buffer' = <<>>
    /\ IF Cardinality(batches) < WorkerNum
       THEN batches' = batches \cup {batch} /\ collector' = [Selecting EXCEPT !.at = next]
       ELSE collector' = [at |-> "writing", batch |-> batch, next |-> next] /\ UNCHANGED batches

\* A record is taken from the queue; the batch may be full with it.
Collect ==
    /\ collector.at \in {"selecting", "draining"} /\ queue # <<>>
    /\ queue' = Tail(queue)
    /\ LET collected == Append(buffer, Head(queue))
       IN IF Len(collected) >= BatchSize
          THEN SubmitBatch(collected, collector.at)
          ELSE buffer' = collected /\ UNCHANGED <<batches, collector>>
    /\ UNCHANGED <<accepted, logged, closing>>

\* The ticker: what there is becomes a batch.
Tick ==
    /\ collector.at = "selecting" /\ buffer # <<>>
    /\ SubmitBatch(buffer, "selecting")
    /\ UNCHANGED <<accepted, queue, logged, closing>>

\* The stop is seen, perhaps with records in the queue.
SeeStop ==
    /\ collector.at = "selecting" /\ closing = "closing"
    /\ collector' = [Selecting EXCEPT !.at = "draining"]
    /\ UNCHANGED <<accepted, queue, buffer, batches, logged, closing>>

\* Mutant: what is left in the buffer is forgotten.
DrainedHasty ==
    /\ collector.at = "draining" /\ queue = <<>>
    /\ collector' = [Selecting EXCEPT !.at = "done"] /\ buffer' = <<>>
    /\ UNCHANGED <<accepted, queue, batches, logged, closing>>

\* The queue is empty: a last batch, and the end.
Drained ==
    /\ collector.at = "draining" /\ queue = <<>>
    /\ IF buffer = <<>>
       THEN collector' = [Selecting EXCEPT !.at = "done"] /\ UNCHANGED <<buffer, batches>>
       ELSE SubmitBatch(buffer, "done")
    /\ UNCHANGED <<accepted, queue, logged, closing>>

\* flushAudit, in a worker or in the collector.  A failure is written to the log of
\* the process instead.
WorkerWrites(batch) ==
    /\ batch \in batches
    /\ batches' = batches \ {batch} /\ logged' = logged \o batch
    /\ UNCHANGED <<accepted, queue, buffer, collector, closing>>

CollectorWrites ==
    /\ collector.at = "writing"
    /\ logged' = logged \o collector.batch
    /\ collector' = [Selecting EXCEPT !.at = collector.next]
    /\ UNCHANGED <<accepted, queue, buffer, batches, closing>>

\* CloseAuditWriter, and its return.
Close ==
    /\ closing = "open" /\ closing' = "closing"
    /\ UNCHANGED <<accepted, queue, buffer, collector, batches, logged>>

Closed ==
    /\ closing = "closing" /\ collector.at = "done" /\ batches = {}
    /\ closing' = "closed"
    /\ UNCHANGED <<accepted, queue, buffer, collector, batches, logged>>

Working == \E batch \in batches : WorkerWrites(batch)

Collecting == Collect \/ Tick \/ SeeStop \/ Drained \/ CollectorWrites

AuditNext == SubmitAudit \/ Collecting \/ Working \/ Close \/ Closed

\* Each goroutine goes on.
AuditFairness == WF_auditVars(Collecting) /\ WF_auditVars(Working) /\ WF_auditVars(Closed)

AuditSpec == AuditInit /\ [][AuditNext]_auditVars /\ AuditFairness

-----------------------------------------------------------------------------
\* Time and again all that was accepted is written, each record once, and no close is
\* left waiting: with a queue, a batch or all workers full, and whenever the gateway
\* is closed (submitBatch, consumeAuditQueue, CloseAuditWriter).
AuditSettles ==
    []<>(ToSet(logged) = 1..accepted /\ Len(logged) = accepted /\ closing # "closing")
=============================================================================
