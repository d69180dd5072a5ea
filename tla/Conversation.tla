---------------------------- MODULE Conversation ----------------------------
(***************************************************************************)
(* The conversation of one session: the rows of tblLlmReactMessage, the    *)
(* messages that the running engine holds in memory, the round of tool     *)
(* calls it executes (serially, or in parallel under a semaphore), the     *)
(* closing of a round by one result per call, the compaction of a prefix   *)
(* of the context into a summary row, and the context that the next run    *)
(* loads from the rows.                                                    *)
(*                                                                         *)
(* One outer run at a time (module Steering shows why).  The texts are     *)
(* left out: a row is its place in the table, and a summary is the set of  *)
(* rows that were told to it.                                              *)
(***************************************************************************)
EXTENDS Integers, Sequences, SequencesExt, FiniteSetsExt

CONSTANTS
    Rounds,         \* the rounds of calls a model may ask for: sequences of calls
    Limit,          \* concurrentSafeParallelLimit
    MaxRows,        \* bound: rows
    MaxTurns,       \* bound: runs
    MaxCompacts,    \* bound: compactions in one run
    MaxMishaps      \* bound: failed writes, interrupted calls, crashes

\* A call has an id of its own, or one it shares with an earlier call, and is
\* safe to run beside others or not.
ASSUME ConversationAssumption ==
    /\ Rounds \subseteq Seq([id : Nat, safe : BOOLEAN])
    /\ \A calls \in Rounds : calls # <<>>
    /\ {MaxRows, MaxTurns, MaxCompacts, MaxMishaps} \subseteq Nat
    /\ Limit \in Nat \ {0}

VARIABLES
    rows,       \* the stored messages, in the order of their creation
    mem,        \* s.messages: rows by number, -n for what fills the gap after row n
    turn,       \* the run, counted
    phase,      \* where the engine stands
    calls,      \* the round under way
    slots,      \* results, by call
    going,      \* what has become of each call
    turnEnds,   \* the context of the run is done for
    compacted,  \* compactions of the run
    mishaps
convVars == <<rows, mem, turn, phase, calls, slots, going, turnEnds, compacted, mishaps>>

Verdicts == {"none", "answer", "interrupted", "duplicate", "unexecuted", "unknown"}

ConversationTypeOK ==
    /\ \A n \in 1..Len(rows) :
         /\ rows[n].turn \in 1..MaxTurns
         /\ rows[n].kind \in {"user", "text", "use", "result", "partial", "summary"}
         /\ rows[n].holds \subseteq 1..n-1
    /\ \A p \in 1..Len(mem) : mem[p] \in (1..Len(rows)) \cup {-n : n \in 1..Len(rows)}
    /\ turn \in 0..MaxTurns /\ turnEnds \in BOOLEAN
    /\ phase \in {"idle", "top", "model", "tools"}
    /\ Len(slots) = Len(calls) /\ Len(going) = Len(calls)
    /\ ToSet(slots) \subseteq Verdicts /\ ToSet(going) \subseteq {"ready", "running", "over"}

ConversationInit ==
    /\ rows = <<>> /\ mem = <<>>
    /\ turn = 0 /\ phase = "idle"
    /\ calls = <<>> /\ slots = <<>> /\ going = <<>>
    /\ turnEnds = FALSE /\ compacted = 0 /\ mishaps = 0

-----------------------------------------------------------------------------
(* Rows, and the context they are loaded into *)

Row(kind) == [turn |-> turn, kind |-> kind, ids |-> {}, verdicts |-> <<>>,
              began |-> <<>>, covers |-> {}, holds |-> {}]

\* The number of a row in its run: max + 1, and no row is ever removed.
NumberOf(n) == Cardinality({m \in 1..n : rows[m].turn = rows[n].turn})

\* Mutant: a run is covered as a whole.
CoveredWhole(S) ==
    { <<t, Cardinality({n \in 1..Len(rows) : rows[n].turn = t})>> : t \in {rows[n].turn : n \in S} }
\* compactCoveredThrough: per run, the highest number among the rows.
CoveredThrough(S) ==
    { <<t, Max({NumberOf(n) : n \in {m \in S : rows[m].turn = t}})>> : t \in {rows[n].turn : n \in S} }

\* filterCoveredReactMessages: every row up to that number is left out.
Covered(table, n) ==
    \E m \in 1..Len(table) : \E c \in table[m].covers :
      /\ table[n].turn = c[1]
      /\ Cardinality({k \in 1..n : table[k].turn = table[n].turn}) <= c[2]

\* Partial answers are left out as well.
Kept(table, n) == table[n].kind # "partial" /\ ~Covered(table, n)

\* Mutant: uses without results are left as they are.
OrphanNever(table, n) == FALSE
\* backfillOrphanToolResults: the row of the next message is not that of its results.
Orphan(table, n) ==
    /\ table[n].kind = "use"
    /\ ~\E m \in n+1..Len(table) : /\ table[m].kind = "result" /\ Kept(table, m)
                                   /\ \A k \in n+1..m-1 : ~Kept(table, k)

\* reactMessagesToChatMessagesWithRefs: what is kept, in order, and a made-up result
\* for each use without one.
Load(table) ==
    FlattenSeq([n \in 1..Len(table) |->
        IF ~Kept(table, n) THEN <<>> ELSE IF Orphan(table, n) THEN <<n, -n>> ELSE <<n>>])

\* What a context tells the model: its rows, and what its summaries were told.
Content(table, context) ==
    UNION {IF table[n].kind = "summary" THEN table[n].holds ELSE {n} : n \in ToSet(context) \cap (1..Len(table))}

IsUse(m) == m > 0 /\ rows[m].kind = "use"
IsResult(m) == m < 0 \/ rows[m].kind = "result"

-----------------------------------------------------------------------------
(* The life of a run *)

NoRound == calls' = <<>> /\ slots' = <<>> /\ going' = <<>>

Ends == /\ phase' = "idle" /\ turnEnds' = FALSE /\ NoRound

\* createReactRunContext: the history is loaded and the input stored in one
\* transaction.
BeginTurn ==
    /\ phase = "idle" /\ turn < MaxTurns /\ Len(rows) < MaxRows
    /\ turn' = turn + 1
    /\ rows' = Append(rows, [Row("user") EXCEPT !.turn = turn + 1])
    /\ mem' = Append(Load(rows), Len(rows) + 1)
    /\ phase' = "top" /\ compacted' = 0
    /\ UNCHANGED <<calls, slots, going, turnEnds, mishaps>>

\* The head of the loop takes a notification in, from the second step on.
TakeNotice ==
    /\ phase = "top" /\ Len(rows) < MaxRows
    /\ \E n \in 1..Len(rows) : rows[n].turn = turn /\ rows[n].kind = "result"
    /\ rows' = Append(rows, Row("user"))
    /\ mem' = Append(mem, Len(rows) + 1)
    /\ UNCHANGED <<turn, phase, calls, slots, going, turnEnds, compacted, mishaps>>

\* alignKeepStartToTurnBoundary on the first message kept.
SafeCut(p) == ~IsResult(mem[p]) /\ ~IsUse(mem[p-1])
AlignedCut(p) == Max({0} \cup {q \in 2..p : SafeCut(q)})

\* compactContextNow keeps as many of the last messages as the budget allows, and
\* moves the cut back to the boundary of a round; without one it gives up.  The
\* model is called next, or the run was a /compact and is over.
Compact ==
    /\ phase = "top" /\ compacted < MaxCompacts /\ Len(rows) < MaxRows
    /\ \E p \in 2..Len(mem) :
         LET cut == AlignedCut(p)
             told == SubSeq(mem, 1, cut - 1)
         IN /\ cut > 0
            /\ rows' = Append(rows,
                 [Row("summary") EXCEPT !.covers = CoveredThrough(ToSet(told) \cap (1..Len(rows))),
                                        !.holds = Content(rows, told)])
            /\ mem' = <<Len(rows) + 1>> \o SubSeq(mem, cut, Len(mem))
    /\ compacted' = compacted + 1
    /\ \/ phase' = "model" /\ UNCHANGED <<calls, slots, going, turnEnds>>
       \/ Last(rows) = Row("user") /\ compacted = 0 /\ Ends
    /\ UNCHANGED <<turn, mishaps>>

CallModel ==
    /\ phase = "top"
    /\ phase' = "model"
    /\ UNCHANGED <<rows, mem, turn, calls, slots, going, turnEnds, compacted, mishaps>>

\* The answer is text and the run ends with it, goes on because it was cut at
\* max_tokens, or goes on because a guide or a notification is taken in: then the
\* text is stored, and stays out of the context of this run.
AnswerText ==
    /\ phase = "model" /\ Len(rows) < MaxRows
    /\ \/ /\ rows' = Append(rows, Row("text"))
          /\ Ends /\ UNCHANGED mem
       \/ /\ rows' = Append(rows, Row("text"))
          /\ mem' = Append(mem, Len(rows) + 1)
          /\ phase' = "top" /\ UNCHANGED <<calls, slots, going, turnEnds>>
       \/ /\ Len(rows) + 1 < MaxRows
          /\ rows' = rows \o <<Row("text"), Row("user")>>
          /\ mem' = Append(mem, Len(rows) + 2)
          /\ phase' = "top" /\ UNCHANGED <<calls, slots, going, turnEnds>>
    /\ UNCHANGED <<turn, compacted, mishaps>>

\* The model fails or the run is cut off while it streams: what came of the answer
\* is stored as partial.
AnswerFails ==
    /\ phase = "model" /\ Len(rows) < MaxRows
    /\ \/ UNCHANGED rows
       \/ rows' = Append(rows, Row("partial"))
    /\ Ends
    /\ UNCHANGED <<mem, turn, compacted, mishaps>>

-----------------------------------------------------------------------------
(* A round of tool calls *)

Duplicate(round, i) == \E j \in 1..i-1 : round[j].id = round[i].id

\* isParallelizableCall: a round with at most one such call is serial.
Beside(i) ==
    /\ calls[i].safe /\ ~Duplicate(calls, i)
    /\ Cardinality({j \in 1..Len(calls) : calls[j].safe /\ ~Duplicate(calls, j)}) > 1

UseRow(round) ==
    [Row("use") EXCEPT !.ids = {round[i].id : i \in 1..Len(round)}]

ResultRow(round, verdicts, began) ==
    [Row("result") EXCEPT !.ids = {round[i].id : i \in 1..Len(round)},
                          !.verdicts = verdicts, !.began = began]

\* executeToolCalls: the answer is stored, duplicates are refused at once.
AnswerCalls(round) ==
    /\ phase = "model" /\ Len(rows) < MaxRows
    /\ rows' = Append(rows, UseRow(round))
    /\ calls' = round
    /\ slots' = [i \in 1..Len(round) |-> IF Duplicate(round, i) THEN "duplicate" ELSE "none"]
    /\ going' = [i \in 1..Len(round) |-> IF Duplicate(round, i) THEN "over" ELSE "ready"]
    /\ phase' = "tools"
    /\ UNCHANGED <<mem, turn, turnEnds, compacted, mishaps>>

\* The budget of the run or of its agent is spent: no call is executed.
AnswerOverBudget(round) ==
    /\ phase = "model" /\ Len(rows) + 1 < MaxRows
    /\ \/ /\ rows' = rows \o <<UseRow(round), ResultRow(round, [i \in 1..Len(round) |-> "unexecuted"],
                                                       [i \in 1..Len(round) |-> FALSE])>>
          /\ UNCHANGED mishaps
       \/ /\ rows' = Append(rows, UseRow(round))
          /\ mishaps < MaxMishaps /\ mishaps' = mishaps + 1
    /\ Ends
    /\ UNCHANGED <<mem, turn, compacted>>

\* A serial call that failed for good, with an error for the engine, stops the rest.
SerialStopped ==
    \E i \in 1..Len(calls) : going[i] = "over" /\ ~Beside(i) /\ slots[i] \in {"interrupted", "none"}

StartCall(i) ==
    /\ phase = "tools" /\ going[i] = "ready"
    /\ IF Beside(i)
       THEN Cardinality({j \in 1..Len(calls) : Beside(j) /\ going[j] = "running"}) < Limit
       ELSE ~SerialStopped /\ \A j \in 1..i-1 : Beside(j) \/ going[j] = "over"
    /\ going' = [going EXCEPT ![i] = "running"]
    /\ UNCHANGED <<rows, mem, turn, phase, calls, slots, turnEnds, compacted, mishaps>>

\* An answer, be it an error for the model; or an interruption that was recorded
\* for the call; or a failure that leaves no result at all.
FinishCall(i) ==
    /\ phase = "tools" /\ going[i] = "running"
    /\ going' = [going EXCEPT ![i] = "over"]
    /\ \/ /\ slots' = [slots EXCEPT ![i] = "answer"]
          /\ UNCHANGED <<turnEnds, mishaps>>
       \/ /\ \E verdict \in {"interrupted", "none"} : slots' = [slots EXCEPT ![i] = verdict]
          /\ mishaps < MaxMishaps /\ mishaps' = mishaps + 1
          \* The serial path drops the error of the call.
          /\ turnEnds' = (turnEnds \/ \E j \in 1..Len(calls) : Beside(j))
    /\ UNCHANGED <<rows, mem, turn, phase, calls, compacted>>

\* Mutant: a call without a result was not executed.
CompletedUnexecuted == [i \in 1..Len(calls) |-> IF slots[i] # "none" THEN slots[i] ELSE "unexecuted"]
\* fillUnexecutedSerialSuffix, then completeToolRoundResults.
Completed ==
    [i \in 1..Len(calls) |->
        IF slots[i] # "none" THEN slots[i]
        ELSE IF going[i] = "ready" THEN "unexecuted" ELSE "unknown"]

RoundOver ==
    /\ phase = "tools"
    /\ \A i \in 1..Len(calls) :
         going[i] = "over" \/ (going[i] = "ready" /\ ~Beside(i) /\ SerialStopped)

\* One row for the results of all calls; without it, or with an error, the run
\* ends; then a guide may be taken in.
CloseRound ==
    /\ RoundOver /\ Len(rows) + 1 < MaxRows
    /\ LET use == Len(rows)
           result == ResultRow(calls, Completed, [i \in 1..Len(calls) |-> going[i] # "ready"])
       IN \/ /\ \E guided \in {<<>>, <<Row("user")>>} :
                  /\ turnEnds => guided = <<>>
                  /\ rows' = rows \o <<result>> \o guided
                  /\ mem' = mem \o [k \in 1..2 + Len(guided) |-> use + k - 1]
             /\ phase' = IF turnEnds THEN "idle" ELSE "top"
             /\ UNCHANGED mishaps
          \/ /\ mishaps < MaxMishaps /\ mishaps' = mishaps + 1
             /\ phase' = "idle"
             /\ UNCHANGED <<rows, mem>>
    /\ turnEnds' = FALSE /\ NoRound
    /\ UNCHANGED <<turn, compacted>>

\* The process dies, or the last step of the run was its last.
TurnStops ==
    /\ phase \in {"top", "model", "tools"}
    /\ mishaps < MaxMishaps /\ mishaps' = mishaps + 1
    /\ Ends
    /\ UNCHANGED <<rows, mem, turn, compacted>>

-----------------------------------------------------------------------------
ConversationNext ==
    \/ BeginTurn \/ TakeNotice \/ Compact \/ CallModel \/ AnswerText \/ AnswerFails
    \/ \E round \in Rounds : AnswerCalls(round) \/ AnswerOverBudget(round)
    \/ \E i \in 1..Len(calls) : StartCall(i) \/ FinishCall(i)
    \/ CloseRound \/ TurnStops

ConversationSpec == ConversationInit /\ [][ConversationNext]_convVars

-----------------------------------------------------------------------------
\* Every request is one a provider accepts: a message with calls is followed at
\* once by the results of just these calls, and no result stands alone, after
\* compactions, failed writes and crashes alike (executeToolCalls,
\* backfillOrphanToolResults, alignKeepStartToTurnBoundary).
RequestsPaired ==
    phase = "model" =>
      \A p \in 1..Len(mem) :
        /\ IsUse(mem[p]) => /\ p < Len(mem) /\ IsResult(mem[p+1])
                            /\ mem[p+1] > 0 => rows[mem[p+1]].ids = rows[mem[p]].ids
        /\ IsResult(mem[p]) => p > 1 /\ IsUse(mem[p-1])

\* The model is told the truth about what a call may have changed: every call has a
\* verdict, "not executed" is said only of calls that never began, and an answer, an
\* interruption or an unknown result only of calls that did (tool_closure.go).
VerdictsTrue ==
    \A n \in 1..Len(rows) : \A i \in 1..Len(rows[n].verdicts) :
      /\ rows[n].verdicts[i] \in Verdicts \ {"none"}
      /\ rows[n].began[i] => rows[n].verdicts[i] # "unexecuted"
      /\ rows[n].verdicts[i] \in {"answer", "interrupted", "unknown"} => rows[n].began[i]

\* A row that a compaction left standing, when the summary written after it was
\* itself told to a later one: that one covers its run up to its own number
\* (compactCoveredThrough), and the row with it.
Overtaken(n) ==
    \E m \in n+1..Len(rows) : /\ rows[m].kind = "summary" /\ rows[m].turn = rows[n].turn
                              /\ Covered(rows, m)

\* What a run has in its context, the next run has too, in full or in a summary,
\* however often the run is compacted, but for the rows that were overtaken
\* (createReactRunContext, compactContextNow, filterCoveredReactMessages).  These,
\* and no others, the next run lacks, unless a later summary of this one tells them.
ContextSurvives ==
    \A n \in Content(rows, mem) :
      n \in Content(rows, Load(rows)) \/ (n \in ToSet(mem) /\ Overtaken(n))
=============================================================================
