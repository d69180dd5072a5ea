----------------------------- MODULE ModelRound -----------------------------
(***************************************************************************)
(* One call of the model by the engine (callModelRound): the model that    *)
(* succeeded last is tried first, a retryable failure is tried again after *)
(* a pause, and then the next model of the failover group takes over.  The *)
(* first model streams to the client; what it has shown must be cleared    *)
(* before another attempt writes.  A run that is cut off keeps what had    *)
(* been received.                                                          *)
(*                                                                         *)
(* An output is named by the model and the attempt it comes from.          *)
(***************************************************************************)
EXTENDS Integers, Sequences, FiniteSets, SequencesExt

CONSTANTS
    Group,          \* the models of the failover group, in order: the selected one first
    MaxAttempts,    \* react.model_retry.max_attempts
    MaxModelRounds  \* bound: rounds

ASSUME ModelRoundAssumption ==
    /\ Group \in Seq(ToSet(Group)) /\ Group # <<>> /\ IsInjective(Group)
    /\ MaxAttempts \in Nat \ {0} /\ MaxModelRounds \in Nat

VARIABLES
    current,    \* s.currentModel
    order,      \* the models of the round
    index, attempt,
    standing,   \* where the round stands
    drawn,      \* the last result holds output: of this attempt
    screen,     \* the outputs that the client shows for this step
    stored,     \* the outputs that are stored
    runCut,     \* the context of the run is done
    modelRounds
roundVars == <<current, order, index, attempt, standing, drawn, screen, stored, runCut, modelRounds>>

Outputs == ToSet(Group) \X (1..MaxAttempts)

ModelRoundTypeOK ==
    /\ current \in ToSet(Group)
    /\ order \in Seq(ToSet(Group)) /\ index \in 1..Len(Group) /\ attempt \in 1..MaxAttempts
    /\ standing \in {"idle", "building", "asking", "streaming", "pausing", "done", "failed", "cut"}
    /\ drawn \in BOOLEAN /\ runCut \in BOOLEAN
    /\ screen \subseteq Outputs /\ stored \subseteq Outputs
    /\ modelRounds \in 0..MaxModelRounds

ModelRoundInit ==
    /\ current = Head(Group)
    /\ order = Group /\ index = 1 /\ attempt = 1
    /\ standing = "idle" /\ drawn = FALSE
    /\ screen = {} /\ stored = {} /\ runCut = FALSE /\ modelRounds = 0

Output == <<order[index], attempt>>

\* Mutant: the client is not told.
ClearNever(reset) == screen' = screen
\* The client is told to drop what it shows of the step (ResetCurrentOutput).
ClearIf(reset) == screen' = IF reset THEN {} ELSE screen

-----------------------------------------------------------------------------
\* modelAttemptOrder: the current model, then the others; none is there twice.
StartModelRound ==
    /\ standing \in {"idle", "done"} /\ modelRounds < MaxModelRounds
    /\ modelRounds' = modelRounds + 1
    /\ order' = <<current>> \o RemoveFirst(Group, current)
    /\ index' = 1 /\ attempt' = 1
    /\ standing' = "building" /\ drawn' = FALSE /\ screen' = {} /\ stored' = {}
    /\ UNCHANGED <<current, runCut>>

\* The next model takes over, or there is none and the round fails.
Failover(reset) ==
    IF index = Len(order)
    THEN standing' = "failed" /\ UNCHANGED <<index, attempt, screen>>
    ELSE /\ standing' = "building" /\ index' = index + 1 /\ attempt' = 1
         /\ ClearIf(reset)

\* A client exists for the current model; one for another model may fail to be built.
BuildClient ==
    /\ standing = "building"
    /\ \/ /\ standing' = "asking" /\ UNCHANGED <<index, attempt, drawn, screen>>
       \/ /\ order[index] # current
          /\ drawn' = FALSE
          /\ Failover(FALSE)
    /\ UNCHANGED <<current, order, stored, runCut, modelRounds>>

\* What follows a failed attempt: a pause and a retry of the same model within its
\* budget, or the failover.  The client is cleared when the attempt had written.
AfterFailure(retryable, wrote) ==
    IF retryable /\ attempt < MaxAttempts
    THEN /\ standing' = "pausing"
         /\ ClearIf(index = 1 /\ wrote)
         /\ UNCHANGED <<index, attempt>>
    ELSE Failover(wrote)

\* ChatStreamWithTools: a stream, an error of the provider, or the end of the run.
Request ==
    /\ standing = "asking"
    /\ drawn' = FALSE
    /\ \/ standing' = "streaming" /\ UNCHANGED <<index, attempt, screen>>
       \/ \E retryable \in BOOLEAN : AfterFailure(retryable, FALSE)
       \/ runCut /\ standing' = "cut" /\ UNCHANGED <<index, attempt, screen>>
    /\ UNCHANGED <<current, order, stored, runCut, modelRounds>>

\* collectLLMStream: the first model of the round writes as it goes.
Chunk ==
    /\ standing = "streaming"
    /\ drawn' = TRUE
    /\ screen' = IF index = 1 THEN screen \cup {Output} ELSE screen
    /\ UNCHANGED <<current, order, index, attempt, standing, stored, runCut, modelRounds>>

\* Done: another model's output is written now, and that model stays.
StreamDone ==
    /\ standing = "streaming" /\ drawn
    /\ standing' = "done"
    /\ screen' = screen \cup {Output}
    /\ stored' = {Output}
    /\ current' = order[index]
    /\ UNCHANGED <<order, index, attempt, drawn, runCut, modelRounds>>

\* An error chunk, no chunk for too long, or an end without Done.
StreamFails ==
    /\ standing = "streaming"
    /\ AfterFailure(TRUE, drawn)
    /\ UNCHANGED <<current, order, drawn, stored, runCut, modelRounds>>

\* A cancel, a disconnect or the deadline: persistPartialAssistant.
RoundCut ==
    /\ runCut /\ standing \in {"streaming", "pausing"}
    /\ standing' = "cut"
    /\ stored' = IF drawn THEN {Output} ELSE {}
    /\ UNCHANGED <<current, order, index, attempt, drawn, screen, runCut, modelRounds>>

Retry ==
    /\ standing = "pausing"
    /\ standing' = "asking" /\ attempt' = attempt + 1
    /\ UNCHANGED <<current, order, index, drawn, screen, stored, runCut, modelRounds>>

CutRun ==
    /\ ~runCut /\ runCut' = TRUE
    /\ UNCHANGED <<current, order, index, attempt, standing, drawn, screen, stored, modelRounds>>

-----------------------------------------------------------------------------
ModelRoundNext ==
    \/ StartModelRound \/ BuildClient \/ Request \/ Chunk \/ StreamDone \/ StreamFails
    \/ RoundCut \/ Retry \/ CutRun

ModelRoundSpec == ModelRoundInit /\ [][ModelRoundNext]_roundVars

-----------------------------------------------------------------------------
\* The client shows one answer, the one that is stored, whatever failed halfway
\* before it; and what it still shows of a run that was cut off is stored
\* (emitModelFallback, emitModelRetry, persistPartialAssistant).
SeenIsStored ==
    /\ standing = "done" => screen = stored
    /\ standing = "cut" => screen \subseteq stored
=============================================================================
