------------------------------ MODULE EventView ------------------------------
(***************************************************************************)
(* What the user sees of the runs of a session, in three ways: live, from  *)
(* the events of the engine (EventReducer); from the local ledger of       *)
(* completed events (SessionEventAssembler, EventLedger); and from the     *)
(* history that the server rebuilds out of the messages it stored          *)
(* (historyEventBuilder).  The engine appears as what emits and stores:    *)
(* streams that fail half-way and are tried again, tools, sub-runs, ends.  *)
(*                                                                         *)
(* Events arrive in order.  Text is a sequence of the attempts it came     *)
(* from.  A list of events is only ever replayed, so that the ledger and a *)
(* history are the view their events give; calls that begin, or end, at    *)
(* once are one event.  Thoughts, messages of the user, compaction, lists  *)
(* of things to do, plans and steering are left out: they add entries of   *)
(* their own.                                                              *)
(***************************************************************************)
EXTENDS Naturals, Sequences, FiniteSets, SequencesExt

CONSTANTS
    Talks,         \* the runs of the session, in order: the run above, or 0
    MaxSteps,      \* max_steps of each run
    MaxTries,      \* react.model_retry.max_attempts; one more on the other model
    MaxTexts,      \* bound: pieces of text of an attempt
    MaxTools,      \* bound: calls of a round
    Cuts           \* how the outer run may be cut off: cancelled, timeout

ASSUME ViewAssumption ==
    /\ Talks \in Seq(Nat)
    /\ \A r \in 1..Len(Talks) : Talks[r] < r /\ (Talks[r] # 0 => Talks[Talks[r]] = 0)
    /\ MaxSteps \in [1..Len(Talks) -> Nat \ {0}]
    /\ MaxTries \in Nat \ {0} /\ MaxTexts \in Nat /\ MaxTools \in Nat
    /\ Cuts \subseteq {"cancelled", "timeout"}

VARIABLES
    turns,     \* the runs: row, goroutine and the round it is in
    rows,      \* tblLlmReactMessage, in the order of the session
    shown,     \* AgentState: steps with their toolCallIndex, status
    kept,      \* the events of the ledger
    ended,     \* the runs whose terminal event has arrived, in order
    syncs,     \* for each of them the request to the server that its end started
    torn       \* the runs of which the view, or the ledger, has lost something
viewVars == <<turns, rows, shown, kept, ended, syncs, torn>>

Turns == 1..Len(Talks)
IsSub(r) == Talks[r] # 0
OuterOf(r) == IF IsSub(r) THEN Talks[r] ELSE r

StepsOf(r) == 0..(MaxSteps[r] - 1)
StepIds == UNION {{r} \X StepsOf(r) : r \in Turns}

Fresh == [state |-> "none", cut |-> FALSE, step |-> 0, stage |-> "model", attempt |-> 1,
          text |-> <<>>, tools |-> <<>>]

\* A step that is not there yet is as one with nothing in it.
Empty == [text |-> <<>>, cards |-> [k \in 1..MaxTools |-> <<>>], index |-> {}]
NothingShown == [steps |-> [p \in StepIds |-> Empty], status |-> "idle"]

NoSync == [stage |-> "none", version |-> 0, view |-> NothingShown, lacks |-> {}]

ViewInit ==
    /\ turns = [r \in Turns |-> Fresh] /\ rows = <<>>
    /\ shown = NothingShown /\ kept = NothingShown /\ ended = <<>>
    /\ syncs = [r \in Turns |-> NoSync] /\ torn = [shown |-> {}, kept |-> {}]

Latest == Cardinality({r \in Turns : turns[r].state # "none" /\ ~IsSub(r)})
Busy == {"running", "waiting_client_tool"}

CardStates == {"running", "waiting", "success", "error", "cancelled"}
CallStates == {"due", "running", "success", "error", "cancelled"}
Terminal == {"finished", "cancelled", "timeout", "error"}

Views ==
    [steps : [StepIds -> [text : Seq(Nat), cards : [1..MaxTools -> Seq(CardStates)], index : SUBSET Nat]],
     status : Busy \cup {"idle", "done", "error", "cancelled"}]

ViewTypeOK ==
    /\ turns \in [Turns -> [state : {"none", "running"} \cup Terminal, cut : BOOLEAN, step : Nat,
                            stage : {"model", "tools"}, attempt : 1..(MaxTries + 1),
                            text : Seq(Nat), tools : Seq(CallStates)]]
    /\ \A r \in Turns : turns[r].step \in StepsOf(r) /\ Len(turns[r].tools) <= MaxTools
    /\ rows \in Seq([kind : {"user_input", "assistant", "assistant_partial", "tool_result"},
                     run : Turns, step : Nat, text : Seq(Nat), tools : Seq(CallStates)])
    /\ shown \in Views /\ kept \in Views /\ ended \in Seq(Turns)
    /\ syncs \in [Turns -> [stage : {"none", "asked", "read", "answered", "reads"}, version : Nat,
                            view : Views, lacks : SUBSET Turns]]
    /\ torn \in [shown : SUBSET Turns, kept : SUBSET Turns]

-----------------------------------------------------------------------------
(* Events *)

Ev(type, r, step, load) == [type |-> type, run |-> r, step |-> step, load |-> load]
NoEvent == Ev("none", 0, 0, <<>>)

\* Server tools of a run, client tools of a sub-run.
ToolStart(r) == IF IsSub(r) THEN "client_tool_use_start" ELSE "tool_use_start"
ToolEnd(r) == IF IsSub(r) THEN "client_tool_use_end" ELSE "tool_use_end"
Starts == {"tool_use_start", "client_tool_use_start"}
Stops == {"tool_use_end", "client_tool_use_end"}
Ends == {"done", "error", "cancelled", "timeout"}

Piece(r) == <<turns[r].attempt>>
ContentEnd(r) == Ev("content_end", r, turns[r].step, turns[r].text)
Reset(r) == Ev("model_fallback", r, turns[r].step, <<>>)

-----------------------------------------------------------------------------
(* EventReducer *)

\* Mutant: what the failed attempt showed stays until it is overwritten.
TextFallbackKept(text, e) ==
    CASE e.type = "content_delta" -> text \o e.load
      [] e.type = "content_end" -> e.load
      [] OTHER -> text
\* content_delta, content_end; model_fallback with resetCurrentOutput.
TextAfter(text, e) ==
    CASE e.type = "content_delta" -> text \o e.load
      [] e.type = "content_end" -> e.load
      [] e.type = "model_fallback" -> <<>>
      [] OTHER -> text

WithLast(s, status) == [s EXCEPT ![Len(s)] = status]

\* A call that starts gets a card, and a second one when it had one; of the cards of a
\* call the index knows the last.
CardsAfter(s, e) ==
    [k \in 1..MaxTools |->
        CASE e.type \in Starts /\ k \in DOMAIN e.load ->
               Append(s.cards[k], IF e.type = "tool_use_start" THEN "running" ELSE "waiting")
          [] e.type \in Stops /\ k \in DOMAIN e.load \cap s.index -> WithLast(s.cards[k], e.load[k])
          [] OTHER -> s.cards[k]]

StatusAfter(status, e) ==
    CASE e.type \in {"content_start", "model_fallback", "tool_use_start", "client_tool_use_end"} ->
           "running"
      [] e.type = "client_tool_use_start" -> "waiting_client_tool"
      [] OTHER -> status

\* settlePendingToolCalls, of these runs.
SettledCards(cards) ==
    [k \in 1..MaxTools |-> [i \in DOMAIN cards[k] |->
        IF cards[k][i] \in {"running", "waiting"} THEN "cancelled" ELSE cards[k][i]]]
SettledStep(s) == [s EXCEPT !.cards = SettledCards(@)]
Settled(v, R) ==
    [v EXCEPT !.steps = [p \in StepIds |->
        IF p[1] \in R THEN SettledStep(v.steps[p]) ELSE v.steps[p]]]

\* done, error, cancelled: that of a sub-run settles its own cards.  A timeout is not
\* known.
Settles(e) == IF e.type = "timeout" THEN {} ELSE IF IsSub(e.run) THEN {e.run} ELSE Turns

StepAfter(s, e) ==
    [text |-> TextAfter(s.text, e), cards |-> CardsAfter(s, e),
     index |-> IF e.type \in Starts THEN s.index \cup DOMAIN e.load ELSE s.index]

\* reduceEvent; ensureStep finds the step by run and index, as each run counts its own.
Reduced(v, e) ==
    IF e.type = "none" THEN v
    ELSE IF e.type \in Ends
    THEN [Settled(v, Settles(e)) EXCEPT
            !.status = IF e.type = "timeout" \/ IsSub(e.run) THEN @ ELSE e.type]
    ELSE [steps |-> [v.steps EXCEPT ![<<e.run, e.step>>] = StepAfter(@, e)],
          status |-> StatusAfter(v.status, e)]

\* replayEvents, of the events that gave v.
Replayed(v) == [Settled(v, Turns) EXCEPT !.status = "idle"]

-----------------------------------------------------------------------------
(* SessionEventAssembler *)

\* What is complete with an event: text when it is closed (the three events of it give
\* what the last one gives), the rest at once; consume has nothing for a timeout, so
\* that its caller stops there.
Assembled(e) == IF e.type \in {"content_start", "content_delta", "timeout"} THEN NoEvent ELSE e

-----------------------------------------------------------------------------
(* historyEventBuilder *)

Row(kind, r, text, tools) ==
    [kind |-> kind, run |-> r, step |-> turns[r].step, text |-> text, tools |-> tools]

\* appendAssistantEvents, appendToolUseStartEvent, appendToolResultEvents: a call and
\* its result are in rows of their own.
TextOf(row) ==
    IF row.kind \in {"assistant", "assistant_partial"} /\ row.text # <<>>
    THEN Ev("content_end", row.run, row.step, row.text) ELSE NoEvent
ToolsOf(row) ==
    IF row.tools = <<>> THEN NoEvent
    ELSE Ev(IF row.kind = "tool_result" THEN ToolEnd(row.run) ELSE ToolStart(row.run),
            row.run, row.step, row.tools)

EndOf(r) ==
    IF turns[r].state \notin Terminal THEN NoEvent
    ELSE Ev(IF turns[r].state = "finished" THEN "done" ELSE turns[r].state, r, 0, <<>>)

\* appendRunTerminal, once for each run; none while it runs.
Terminated(acc, r) ==
    IF r \in acc.over THEN acc
    ELSE [acc EXCEPT !.over = @ \cup {r}, !.view = Reduced(@, EndOf(r))]

\* Build: the end of a run comes when the rows leave it for another that is not
\* below it.
RowAdded(acc, row) ==
    LET leaves == acc.current # 0 /\ row.run # acc.current /\ Talks[row.run] # acc.current
        before == IF leaves THEN Terminated(acc, acc.current) ELSE acc
    IN [before EXCEPT !.current = row.run,
                      !.view = Reduced(Reduced(@, TextOf(row)), ToolsOf(row))]

\* After the rows the ends that have not come: they only settle.
HistoryView ==
    LET built[n \in 0..Len(rows)] ==
          IF n = 0 THEN [current |-> 0, over |-> {}, view |-> NothingShown]
          ELSE RowAdded(built[n - 1], rows[n])
        all  == built[Len(rows)]
        left == {r \in Turns \ all.over : turns[r].state \in Terminal /\ \E n \in DOMAIN rows : rows[n].run = r}
    IN Settled(all.view, UNION {Settles(EndOf(r)) : r \in left})

-----------------------------------------------------------------------------
(* The client hears events *)

\* What an event tells that is not told again.
News(e) == IF e.type \in {"content_end"} \cup Starts \cup Stops THEN {e.run} ELSE {}

\* handleEvent, of one event and then another, of which only the second may be an end:
\* the reducer, the ledger, and after an end the server is asked unless a run is in
\* progress.  A view that is on its way to replace the ledger, or the view, lacks what
\* is heard meanwhile.
Heard(e, f) ==
    LET busy == Reduced(Reduced(shown, e), f).status \in Busy
    IN /\ shown' = Reduced(Reduced(shown, e), f)
       /\ kept' = Reduced(Reduced(kept, Assembled(e)), Assembled(f))
       /\ ended' = IF f.type \in Ends THEN Append(ended, f.run) ELSE ended
       /\ syncs' = [r \in Turns |->
              IF r = f.run /\ f.type \in Ends \ {"timeout"}
              THEN [NoSync EXCEPT !.stage = IF busy THEN "answered" ELSE "asked", !.version = Latest]
              ELSE IF syncs[r].stage \in {"read", "reads"}
              THEN [syncs[r] EXCEPT !.lacks = @ \cup News(e) \cup News(f)] ELSE syncs[r]]
       /\ UNCHANGED torn

InTools(r) == turns[r].state = "running" /\ turns[r].stage = "tools"

\* GetHistoryEvents: of a round of tools the rows hold the calls, as begun, and no result.
SyncRead(r) ==
    /\ syncs[r].stage = "asked"
    /\ syncs' = [syncs EXCEPT ![r].stage = "read", ![r].view = HistoryView,
            ![r].lacks = {q \in Turns : InTools(q) /\ \E k \in DOMAIN turns[q].tools :
                                            turns[q].tools[k] # "running"}]
    /\ UNCHANGED <<turns, rows, shown, kept, ended, torn>>

\* syncSessionEvents: the answer replaces the ledger unless a run is in progress.
SyncAnswered(r) ==
    /\ syncs[r].stage = "read"
    /\ syncs' = [syncs EXCEPT ![r] = [NoSync EXCEPT !.stage = "answered", !.version = syncs[r].version]]
    /\ IF shown.status \in Busy THEN UNCHANGED <<kept, torn>>
       ELSE kept' = syncs[r].view /\ torn' = [torn EXCEPT !.kept = syncs[r].lacks]
    /\ UNCHANGED <<turns, rows, shown, ended>>

\* The ledger is read unless a run is in progress or was begun meanwhile.
SyncChecked(r) ==
    /\ syncs[r].stage = "answered"
    /\ syncs' = [syncs EXCEPT ![r] =
            IF syncs[r].version # Latest \/ shown.status \in Busy THEN NoSync
            ELSE [@ EXCEPT !.stage = "reads", !.view = kept, !.lacks = torn.kept]]
    /\ UNCHANGED <<turns, rows, shown, kept, ended, torn>>

\* getEvents, replayEvents: what began since the check is replaced as well.
SyncReplayed(r) ==
    /\ syncs[r].stage = "reads"
    /\ syncs' = [syncs EXCEPT ![r] = NoSync]
    /\ shown' = Replayed(syncs[r].view) /\ torn' = [torn EXCEPT !.shown = syncs[r].lacks]
    /\ UNCHANGED <<turns, rows, kept, ended>>

-----------------------------------------------------------------------------
(* The engine *)

\* An outer run begins when the goroutine of the one before has returned:
\* resetForNewRun, createReactRunContext.  The index forgets the calls under way.
BeginOuter(r) ==
    /\ ~IsSub(r) /\ turns[r].state = "none"
    /\ \A q \in 1..(r - 1) : ~IsSub(q) => turns[q].cut
    /\ shown.status \notin Busy
    /\ turns' = [turns EXCEPT ![r].state = "running"]
    /\ rows' = Append(rows, Row("user_input", r, <<>>, <<>>))
    /\ shown' = [steps |-> [p \in StepIds |-> [shown.steps[p] EXCEPT !.index = {}]], status |-> "running"]
    /\ torn' = [torn EXCEPT !.shown = @ \cup {q \in Turns : InTools(q) /\ \E k \in DOMAIN turns[q].tools :
                                                                turns[q].tools[k] = "running"}]
    /\ UNCHANGED <<kept, ended, syncs>>

\* A call of the outer run that has been shown delegates; in the background when the
\* call ends before the sub-run does.
BeginSub(r) ==
    /\ IsSub(r) /\ turns[r].state = "none"
    /\ turns[OuterOf(r)].stage = "tools" /\ ~turns[OuterOf(r)].cut
    /\ \E k \in DOMAIN turns[OuterOf(r)].tools : turns[OuterOf(r)].tools[k] = "running"
    /\ turns' = [turns EXCEPT ![r].state = "running"]
    /\ rows' = Append(rows, Row("user_input", r, <<>>, <<>>))
    /\ UNCHANGED <<shown, kept, ended, syncs, torn>>

Streams(r) == turns[r].state = "running" /\ turns[r].stage = "model"
\* Only the first model is shown as it speaks (index == 0).
Live(r) == turns[r].attempt <= MaxTries
Spoken(r, e) == IF Live(r) THEN e ELSE NoEvent

Speak(r) ==
    /\ Streams(r) /\ Len(turns[r].text) < MaxTexts
    /\ turns' = [turns EXCEPT ![r].text = @ \o Piece(r)]
    /\ Heard(Spoken(r, IF turns[r].text = <<>> THEN Ev("content_start", r, turns[r].step, <<>>)
                       ELSE NoEvent),
             Spoken(r, Ev("content_delta", r, turns[r].step, Piece(r))))
    /\ UNCHANGED rows

TextClosed(r) == IF turns[r].text = <<>> THEN NoEvent ELSE ContentEnd(r)

\* callModelRound: an attempt fails, with its blocks closed at the end of a stream; the
\* same model is tried again, then the other, whose output is shown at its end.
AttemptFails(r) ==
    /\ Streams(r) /\ Live(r)
    /\ turns' = [turns EXCEPT ![r].attempt = @ + 1, ![r].text = <<>>]
    /\ \E eof \in BOOLEAN :
         Heard(IF eof THEN TextClosed(r) ELSE NoEvent,
               IF turns[r].text = <<>> THEN NoEvent ELSE Reset(r))
    /\ UNCHANGED rows

\* The row first, then the event; a sub-run that is cut off or fails has no event.
Over(r, state, before) ==
    /\ turns' = [turns EXCEPT ![r].state = state, ![r].text = <<>>,
                              ![r].tools = <<>>]
    /\ Heard(before,
             IF state = "finished" THEN Ev("done", r, turns[r].step, <<>>)
             ELSE IF IsSub(r) THEN NoEvent ELSE Ev(state, r, turns[r].step, <<>>))

RoundFails(r) ==
    /\ Streams(r) /\ ~Live(r)
    /\ Over(r, "error", NoEvent)
    /\ UNCHANGED rows

Assistant(r, kind, tools) == Append(rows, Row(kind, r, turns[r].text, tools))

\* The answer of the last round.  The text that is still open is closed, or shown at
\* once (emitCollectedModelResult).
Answer(r) ==
    /\ Streams(r) /\ ~turns[OuterOf(r)].cut
    /\ rows' = Assistant(r, "assistant", <<>>)
    /\ Over(r, "finished", TextClosed(r))

\* A round that calls tools: they are stored with it.
Call(r) ==
    /\ Streams(r) /\ ~turns[OuterOf(r)].cut
    /\ \E n \in 1..MaxTools :
         /\ rows' = Assistant(r, "assistant", [k \in 1..n |-> "due"])
         /\ turns' = [turns EXCEPT ![r].stage = "tools", ![r].tools = [k \in 1..n |-> "due"],
                                   ![r].text = <<>>]
    /\ Heard(NoEvent, TextClosed(r))

ToolStarts(r, k) ==
    /\ InTools(r) /\ turns[r].tools[k] = "due" /\ ~turns[OuterOf(r)].cut
    /\ turns' = [turns EXCEPT ![r].tools[k] = "running"]
    /\ Heard(NoEvent, Ev(ToolStart(r), r, turns[r].step, [j \in {k} |-> "running"]))
    /\ UNCHANGED rows

ToolEnds(r, k) ==
    /\ InTools(r) /\ turns[r].tools[k] = "running"
    /\ \E state \in {"success", "error"} :
         /\ turns' = [turns EXCEPT ![r].tools[k] = state]
         /\ Heard(NoEvent, Ev(ToolEnd(r), r, turns[r].step, [j \in {k} |-> state]))
    /\ UNCHANGED rows

Results(r, tools) == Append(rows, Row("tool_result", r, <<>>, tools))

\* The results are stored together; finishExhausted after the last step.
ToolsOver(r) ==
    /\ InTools(r)
    /\ \A k \in DOMAIN turns[r].tools : turns[r].tools[k] \in {"success", "error"}
    /\ rows' = Results(r, turns[r].tools)
    /\ IF turns[r].step + 1 = MaxSteps[r]
       THEN Over(r, "finished", NoEvent)
       ELSE /\ turns' = [turns EXCEPT ![r].step = @ + 1, ![r].stage = "model", ![r].attempt = 1,
                                      ![r].tools = <<>>]
            /\ UNCHANGED <<shown, kept, ended, syncs, torn>>

\* checkLoopTokenBudget: results are made up for calls that were not begun.
BudgetSpent(r) ==
    /\ InTools(r) /\ ~IsSub(r)
    /\ \A k \in DOMAIN turns[r].tools : turns[r].tools[k] = "due"
    /\ rows' = Results(r, [k \in DOMAIN turns[r].tools |-> "error"])
    /\ Over(r, "finished", NoEvent)

\* The context of the run is done, or that of a sub-run (its own watchdog, its outer
\* run): what came of a stream is stored as partial, calls are closed as cancelled and
\* told so when they had begun.
CutOff(r, state) ==
    /\ turns[r].state = "running"
    /\ LET begun == {k \in DOMAIN turns[r].tools : turns[r].tools[k] = "running"}
           closed == [k \in DOMAIN turns[r].tools |->
                        IF turns[r].tools[k] \in {"running", "due"} THEN "cancelled"
                        ELSE turns[r].tools[k]]
       IN /\ rows' = IF InTools(r) THEN Results(r, closed)
                     ELSE IF turns[r].text # <<>> THEN Assistant(r, "assistant_partial", <<>>) ELSE rows
          /\ Over(r, state, IF begun = {} THEN NoEvent
                            ELSE Ev(ToolEnd(r), r, turns[r].step, [k \in begun |-> "cancelled"]))

\* The deferred calls of runSingle: the context of the sub-runs is done.
Return(r) ==
    /\ ~IsSub(r) /\ turns[r].state \notin {"none", "running"} /\ ~turns[r].cut
    /\ turns' = [turns EXCEPT ![r].cut = TRUE]
    /\ UNCHANGED <<rows, shown, kept, ended, syncs, torn>>

ViewNext ==
    \E r \in Turns :
       \/ SyncRead(r) \/ SyncAnswered(r) \/ SyncChecked(r) \/ SyncReplayed(r)
       \/ BeginOuter(r) \/ BeginSub(r) \/ Return(r)
       \/ Speak(r) \/ AttemptFails(r) \/ RoundFails(r)
       \/ Answer(r) \/ Call(r) \/ ToolsOver(r) \/ BudgetSpent(r)
       \/ \E k \in DOMAIN turns[r].tools : ToolStarts(r, k) \/ ToolEnds(r, k)
       \/ \E state \in Cuts : CutOff(r, IF IsSub(r) THEN "cancelled" ELSE state)

ViewSpec == ViewInit /\ [][ViewNext]_viewVars

-----------------------------------------------------------------------------
\* A view shows a run as the history does.  Cards of calls that were given up before
\* they began are only in the history.
SameAsStored(v, r) ==
    LET stored == Replayed(HistoryView)
    IN \A i \in StepsOf(r) :
         /\ v.steps[<<r, i>>].text = stored.steps[<<r, i>>].text
         /\ \A k \in 1..MaxTools :
              v.steps[<<r, i>>].cards[k] \in {<<>>, stored.steps[<<r, i>>].cards[k]}

\* From its end on, a run that finished is shown as it will be when the session is
\* opened again, live and out of the ledger, whatever attempts failed and whatever other
\* runs do: unless a history replaced it that was read in the middle of a round of its
\* tools or before the last it told, or the index forgot a call of it.  (EventReducer,
\* SessionEventAssembler, historyEventBuilder, syncSessionEvents.)
ShownAsStored ==
    \A r \in ToSet(ended) : turns[r].state = "finished" =>
        /\ r \notin torn.shown => SameAsStored(shown, r)
        /\ r \notin torn.kept => SameAsStored(Replayed(kept), r)

\* When the end of the outer run has arrived and nothing of the session works any
\* more, the view does not show work: an end of a kind the client does not know would
\* leave it so for ever (EventTimeout; event-reducer.ts, reduceEvent).
EndIsShown ==
    (\A r \in Turns : turns[r].state # "running") /\ ended # <<>> => shown.status \notin Busy
=============================================================================
