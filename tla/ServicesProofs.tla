--------------------------- MODULE ServicesProofs ---------------------------
(***************************************************************************)
(* The components around the engine: the gate and the breaker of the       *)
(* workflows, the observations of the asynchronous tasks, the answers of   *)
(* the MCP client, what the user gets back when a bundle goes.             *)
(***************************************************************************)
EXTENDS MCServices, ConversationProofs

-----------------------------------------------------------------------------
(* Workflows: the rows of the history and the definitions (module Workflows) *)

FlowStatuses == InFlight \cup Failing \cup {"none", "completed", "cancelled", "skipped"}
FlowPlaces == {"none", "gate", "launched", "running", "breaker", "trip", "unhook"}
FlowRow == [flow : Flows \cup {NoFlow}, kind : {"cron", "manual"}, status : FlowStatuses, pc : FlowPlaces]
EditRow == [pc : {"none", "enable", "disable", "change", "register", "delete", "skip", "remove"},
            flow : Flows \cup {NoFlow}, enabled : BOOLEAN]

FlowsTyped ==
    /\ defs \in [Flows -> [enabled : BOOLEAN, deleted : BOOLEAN]]
    /\ history \in [FlowRuns -> FlowRow]
    /\ edits \in [Editors -> EditRow]
    /\ forgiven \subseteq Flows

(* A row that is not used yet is empty, and the used ones are a prefix.    *)
UnusedRows ==
    \A r \in FlowRuns :
      IF history[r].status = "none" THEN history[r].pc = "none" /\ history[r].flow = NoFlow
      ELSE history[r].flow \in Flows /\ \A q \in FlowRuns : q < r => history[q].status # "none"

(* Who works on a definition has one, and who cleans up has deleted it.    *)
EditsPlaced ==
    \A e \in Editors : edits[e].pc # "none" =>
      /\ edits[e].flow \in Flows
      /\ edits[e].pc \in {"skip", "remove"} => defs[edits[e].flow].deleted

(* A run under way is in flight, unless its definition was deleted.        *)
RunsPlaced ==
    \A r \in FlowRuns :
      /\ history[r].pc = "running" => history[r].status = "running"
      /\ history[r].pc \in {"gate", "launched"} =>
           /\ history[r].status \in {"pending", "skipped"}
           /\ ~defs[history[r].flow].deleted => history[r].status = "pending"

(* With the process every goroutine is gone.                               *)
DownIsEmpty ==
    process = "down" => forgiven = Flows /\ \A r \in FlowRuns : history[r].pc = "none"

HistoryInv == FlowsTyped /\ UnusedRows /\ EditsPlaced /\ RunsPlaced /\ DownIsEmpty

(* One row has another status and place, the rest are as they were.        *)
RowMoves(r, status, pc) ==
    /\ history' \in [FlowRuns -> FlowRow]
    /\ history'[r].flow = history[r].flow /\ history'[r].kind = history[r].kind
    /\ history'[r].status = status /\ history'[r].pc = pc
    /\ \A q \in FlowRuns \ {r} : history'[q] = history[q]

LEMMA RowSet ==
    ASSUME history \in [FlowRuns -> FlowRow], NEW r \in FlowRuns, NEW row \in FlowRow,
           history' = [history EXCEPT ![r] = row]
    PROVE  /\ history' \in [FlowRuns -> FlowRow] /\ history'[r] = row
           /\ \A q \in FlowRuns \ {r} : history'[q] = history[q]
  OBVIOUS

LEMMA GotoMoves ==
    ASSUME history \in [FlowRuns -> FlowRow], NEW r \in FlowRuns, NEW pc \in FlowPlaces, Goto(r, pc)
    PROVE  RowMoves(r, history[r].status, pc)
<1> DEFINE row == [history[r] EXCEPT !.pc = pc]
<1>1. history' = [history EXCEPT ![r] = row]
  BY DEF Goto
<1>2. history[r] \in FlowRow
  OBVIOUS
<1>3. /\ row \in FlowRow /\ row.flow = history[r].flow /\ row.kind = history[r].kind
      /\ row.status = history[r].status /\ row.pc = pc
  BY <1>2 DEF FlowRow
<1> HIDE DEF row
<1> QED BY <1>1, <1>3, RowSet DEF RowMoves

LEMMA BothMove ==
    ASSUME history \in [FlowRuns -> FlowRow], NEW r \in FlowRuns, NEW pc \in FlowPlaces, NEW status \in FlowStatuses,
           \/ history' = [history EXCEPT ![r].pc = pc, ![r].status = status]
           \/ history' = [history EXCEPT ![r].status = status, ![r].pc = pc]
    PROVE  RowMoves(r, status, pc)
<1> DEFINE row == [flow |-> history[r].flow, kind |-> history[r].kind, status |-> status, pc |-> pc]
<1>1. history[r] \in FlowRow
  OBVIOUS
<1>2. history' = [history EXCEPT ![r] = row]
  BY <1>1 DEF FlowRow
<1>3. /\ row \in FlowRow /\ row.flow = history[r].flow /\ row.kind = history[r].kind
      /\ row.status = status /\ row.pc = pc
  BY <1>1 DEF FlowRow
<1> HIDE DEF row
<1> QED BY <1>2, <1>3, RowSet DEF RowMoves

(* Every step of a run: from where to where.                               *)
RunMoved(r) ==
    /\ UNCHANGED <<process, edits>>
        /\ \/ PassGate(r)  /\ RowMoves(r, history[r].status, "launched") /\ UNCHANGED <<defs, forgiven>>
           \/ SkipRun(r)   /\ RowMoves(r, "skipped", "none") /\ UNCHANGED <<defs, forgiven>>
           \/ BeginRun(r)  /\ RowMoves(r, "running", "running") /\ UNCHANGED <<defs, forgiven>>
           \/ /\ EndRun(r) /\ UNCHANGED defs
              /\ \E status \in Failing \cup {"completed", "cancelled"} :
                   /\ RowMoves(r, status, AfterEnd(status))
                   /\ forgiven' = IF status \in Failing THEN forgiven \ {history[r].flow} ELSE forgiven
           \/ /\ CheckBreaker(r) /\ UNCHANGED <<defs, forgiven>>
              /\ RowMoves(r, history[r].status,
                   IF ShouldTrip(history[r].flow) /\ CronSchedulable(defs[history[r].flow])
                   THEN "trip" ELSE "none")
           \/ TripBreaker(r)   /\ RowMoves(r, history[r].status, "unhook") /\ UNCHANGED forgiven
           \/ UnhookTripped(r) /\ RowMoves(r, history[r].status, "none") /\ UNCHANGED <<defs, forgiven>>

LEMMA RunMoves ==
    ASSUME FlowsTyped, NEW r \in FlowRuns, RunStep(r)
    PROVE  RunMoved(r)
<1> USE DEF FlowsTyped
<1>0. UNCHANGED <<process, edits>>
  BY DEF RunStep, PassGate, SkipRun, BeginRun, EndRun, CheckBreaker, TripBreaker, UnhookTripped
<1>8. /\ "launched" \in FlowPlaces /\ "running" \in FlowPlaces /\ "none" \in FlowPlaces /\ "unhook" \in FlowPlaces
      /\ "skipped" \in FlowStatuses /\ "running" \in FlowStatuses
      /\ history[r].status \in FlowStatuses
  BY DEF FlowPlaces, FlowStatuses, InFlight, Failing, FlowRow
<1>1. CASE PassGate(r)
  <2>1. Goto(r, "launched") /\ UNCHANGED <<defs, forgiven>>
    BY <1>1 DEF PassGate
  <2>2. RowMoves(r, history[r].status, "launched")
    BY <1>8, <2>1, GotoMoves, Zenon
  <2> QED BY <1>0, <1>1, <2>1, <2>2 DEF RunMoved
<1>2. CASE SkipRun(r)
  <2>1. /\ history' = [history EXCEPT ![r].pc = "none", ![r].status = "skipped"]
        /\ UNCHANGED <<defs, forgiven>>
    BY <1>2 DEF SkipRun
  <2>2. RowMoves(r, "skipped", "none")
    BY <1>8, <2>1, BothMove, Zenon
  <2> QED BY <1>0, <1>2, <2>1, <2>2 DEF RunMoved
<1>3. CASE BeginRun(r)
  <2>1. /\ history' = [history EXCEPT ![r].pc = "running", ![r].status = "running"]
        /\ UNCHANGED <<defs, forgiven>>
    BY <1>3 DEF BeginRun
  <2>2. RowMoves(r, "running", "running")
    BY <1>8, <2>1, BothMove, Zenon
  <2> QED BY <1>0, <1>3, <2>1, <2>2 DEF RunMoved
<1>4. CASE EndRun(r)
  <2>1. PICK status \in Failing \cup {"completed", "cancelled"} :
          /\ history' = [history EXCEPT ![r].status = status, ![r].pc = AfterEnd(status)]
          /\ forgiven' = IF status \in Failing THEN forgiven \ {history[r].flow} ELSE forgiven
    BY <1>4 DEF EndRun
  <2>2. status \in FlowStatuses /\ AfterEnd(status) \in FlowPlaces
    BY DEF AfterEnd, Failing, FlowStatuses, FlowPlaces
  <2>3. RowMoves(r, status, AfterEnd(status))
    BY <2>1, <2>2, BothMove, Zenon
  <2>4. UNCHANGED defs
    BY <1>4 DEF EndRun
  <2> QED BY <1>0, <1>4, <2>1, <2>3, <2>4 DEF RunMoved
<1>5. CASE CheckBreaker(r)
  <2> DEFINE pc == IF ShouldTrip(history[r].flow) /\ CronSchedulable(defs[history[r].flow])
                   THEN "trip" ELSE "none"
  <2>1. pc \in FlowPlaces /\ Goto(r, pc)
    BY <1>5 DEF CheckBreaker, FlowPlaces
  <2>2. RowMoves(r, history[r].status, pc)
    <3> HIDE DEF pc
    <3> QED BY <2>1, GotoMoves, Zenon
  <2>3. UNCHANGED <<defs, forgiven>>
    BY <1>5 DEF CheckBreaker
  <2> QED BY <1>0, <1>5, <2>2, <2>3 DEF RunMoved
<1>6. CASE TripBreaker(r)
  <2>1. Goto(r, "unhook") /\ UNCHANGED forgiven
    BY <1>6 DEF TripBreaker
  <2>2. RowMoves(r, history[r].status, "unhook")
    BY <1>8, <2>1, GotoMoves, Zenon
  <2> QED BY <1>0, <1>6, <2>1, <2>2 DEF RunMoved
<1>7. CASE UnhookTripped(r)
  <2>1. Goto(r, "none") /\ UNCHANGED <<defs, forgiven>>
    BY <1>7 DEF UnhookTripped
  <2>2. RowMoves(r, history[r].status, "none")
    BY <1>8, <2>1, GotoMoves, Zenon
  <2> QED BY <1>0, <1>7, <2>1, <2>2 DEF RunMoved
<1> QED BY <1>1, <1>2, <1>3, <1>4, <1>5, <1>6, <1>7 DEF RunStep

(* A step of an editor: its request moves on, and deleted definitions stay *)
(* deleted; rows change only with the definition they are of deleted.      *)
EditMoves(e, row) ==
    /\ edits' \in [Editors -> EditRow] /\ edits'[e] = row
    /\ \A d \in Editors \ {e} : edits'[d] = edits[d]
    /\ row.pc # "none" => /\ row.flow \in Flows
                          /\ row.pc \in {"skip", "remove"} => defs'[row.flow].deleted
    /\ defs' \in [Flows -> [enabled : BOOLEAN, deleted : BOOLEAN]]
    /\ \A f \in Flows : defs[f].deleted => defs'[f].deleted
    /\ process' = process /\ forgiven \subseteq forgiven' /\ forgiven' \subseteq Flows
    /\ history' \in [FlowRuns -> FlowRow]
    /\ \A r \in FlowRuns :
         /\ history'[r].flow = history[r].flow /\ history'[r].kind = history[r].kind
         /\ history'[r].pc = history[r].pc
         /\ \/ history'[r].status = history[r].status
            \/ /\ history[r].status = "pending" /\ history'[r].status = "skipped"
               /\ defs[history[r].flow].deleted

LEMMA EditSet ==
    ASSUME edits \in [Editors -> EditRow], NEW e \in Editors, NEW row \in EditRow,
           edits' = [edits EXCEPT ![e] = row]
    PROVE  /\ edits' \in [Editors -> EditRow] /\ edits'[e] = row
           /\ \A d \in Editors \ {e} : edits'[d] = edits[d]
  OBVIOUS

LEMMA EditStepMoves ==
    ASSUME FlowsTyped, EditsPlaced, NEW e \in Editors, EditStep(e)
    PROVE  \E row \in EditRow : EditMoves(e, row)
<1> USE DEF FlowsTyped
<1>1. edits[e] \in EditRow /\ NoEdit \in EditRow
  BY DEF EditRow, NoEdit
<1>2. ASSUME NEW f \in Flows, ReadDefinition(e, f) PROVE \E row \in EditRow : EditMoves(e, row)
  <2>1. PICK pc \in {"enable", "disable", "change", "delete"} :
          edits' = [edits EXCEPT ![e] =
           [pc |-> pc, flow |-> f,
            enabled |-> (pc = "enable" \/ (pc = "change" /\ defs[f].enabled))]]
    BY <1>2 DEF ReadDefinition
  <2> DEFINE row == [pc |-> pc, flow |-> f,
                     enabled |-> (pc = "enable" \/ (pc = "change" /\ defs[f].enabled))]
  <2>2. row \in EditRow /\ row.flow = f /\ row.pc = pc
    BY DEF EditRow
  <2> HIDE DEF row
  <2>3. /\ edits' \in [Editors -> EditRow] /\ edits'[e] = row
        /\ \A d \in Editors \ {e} : edits'[d] = edits[d]
    BY <2>1, <2>2, EditSet DEF row
  <2>4. UNCHANGED <<defs, process, history, forgiven>>
    BY <1>2 DEF ReadDefinition
  <2> QED BY <2>2, <2>3, <2>4 DEF EditMoves
<1>3. CASE WriteDefinition(e)
  <2> DEFINE f == edits[e].flow
             row == [edits[e] EXCEPT !.pc = "register"]
  <2>1. /\ edits' = [edits EXCEPT ![e] = row] /\ edits[e].pc # "none" /\ UNCHANGED <<process, history>>
        /\ defs' = defs \/ \E on \in BOOLEAN : defs' = [defs EXCEPT ![f].enabled = on]
        /\ forgiven' = forgiven \/ forgiven' = forgiven \cup {f}
    BY <1>3 DEF WriteDefinition
  <2>2. row \in EditRow /\ row.pc = "register" /\ row.flow = f /\ f \in Flows
    BY <1>1, <2>1 DEF EditRow, EditsPlaced
  <2> HIDE DEF row, f
  <2>3. /\ edits' \in [Editors -> EditRow] /\ edits'[e] = row
        /\ \A d \in Editors \ {e} : edits'[d] = edits[d]
    BY <2>1, <2>2, EditSet
  <2>4. /\ defs' \in [Flows -> [enabled : BOOLEAN, deleted : BOOLEAN]]
        /\ \A g \in Flows : defs[g].deleted => defs'[g].deleted
    BY <2>1, <2>2
  <2> QED BY <2>1, <2>2, <2>3, <2>4 DEF EditMoves
<1>4. CASE SyncRegister(e) \/ SyncRemove(e)
  <2>1. edits' = [edits EXCEPT ![e] = NoEdit] /\ UNCHANGED <<defs, process, history, forgiven>>
    BY <1>4 DEF SyncRegister, SyncRemove
  <2>2. /\ edits' \in [Editors -> EditRow] /\ edits'[e] = NoEdit
        /\ \A d \in Editors \ {e} : edits'[d] = edits[d]
    BY <1>1, <2>1, EditSet
  <2>3. NoEdit.pc = "none"
    BY DEF NoEdit
  <2> QED BY <1>1, <2>1, <2>2, <2>3 DEF EditMoves
<1>5. CASE DeleteDefinition(e)
  <2> DEFINE f == edits[e].flow
             row == [edits[e] EXCEPT !.pc = "skip"]
  <2>1. /\ edits' = [edits EXCEPT ![e] = row] /\ edits[e].pc # "none"
        /\ UNCHANGED <<process, history, forgiven>>
        /\ defs' = [defs EXCEPT ![f].deleted = TRUE]
    BY <1>5 DEF DeleteDefinition
  <2>2. row \in EditRow /\ row.flow = f /\ f \in Flows
    BY <1>1, <2>1 DEF EditRow, EditsPlaced
  <2> HIDE DEF row, f
  <2>3. /\ edits' \in [Editors -> EditRow] /\ edits'[e] = row
        /\ \A d \in Editors \ {e} : edits'[d] = edits[d]
    BY <2>1, <2>2, EditSet
  <2>4. /\ defs' \in [Flows -> [enabled : BOOLEAN, deleted : BOOLEAN]]
        /\ \A g \in Flows : defs[g].deleted => defs'[g].deleted
        /\ defs'[f].deleted
    BY <2>1, <2>2
  <2> QED BY <2>1, <2>2, <2>3, <2>4 DEF EditMoves
<1>6. CASE SkipPending(e)
  <2> DEFINE f == edits[e].flow
             row == [NoEdit EXCEPT !.pc = "remove", !.flow = edits[e].flow]
  <2>1. /\ edits' = [edits EXCEPT ![e] = row] /\ edits[e].pc = "skip"
        /\ UNCHANGED <<defs, process, forgiven>>
        /\ history' = [r \in FlowRuns |->
             IF history[r].flow = f /\ history[r].status = "pending"
             THEN [history[r] EXCEPT !.status = "skipped"] ELSE history[r]]
    BY <1>6 DEF SkipPending
  <2>2. row \in EditRow /\ row.flow = f /\ f \in Flows /\ defs[f].deleted
    BY <1>1, <2>1 DEF EditRow, NoEdit, EditsPlaced
  <2> HIDE DEF row, f
  <2>3. /\ edits' \in [Editors -> EditRow] /\ edits'[e] = row
        /\ \A d \in Editors \ {e} : edits'[d] = edits[d]
    BY <2>1, <2>2, EditSet
  <2>4. ASSUME NEW r \in FlowRuns
        PROVE  /\ history'[r] \in FlowRow
               /\ history'[r].flow = history[r].flow /\ history'[r].kind = history[r].kind
               /\ history'[r].pc = history[r].pc
               /\ \/ history'[r].status = history[r].status
                  \/ /\ history[r].status = "pending" /\ history'[r].status = "skipped"
                     /\ defs[history[r].flow].deleted
    <3>1. history[r] \in FlowRow
      OBVIOUS
    <3>2. CASE history[r].flow = f /\ history[r].status = "pending"
      <4>1. history'[r] = [history[r] EXCEPT !.status = "skipped"]
        BY <2>1, <3>2
      <4> QED BY <2>2, <3>1, <3>2, <4>1 DEF FlowRow, FlowStatuses
    <3>3. CASE ~(history[r].flow = f /\ history[r].status = "pending")
      BY <2>1, <3>1, <3>3
    <3> QED BY <3>2, <3>3
  <2>5. history' \in [FlowRuns -> FlowRow]
    BY <2>1, <2>4
  <2> QED BY <2>1, <2>2, <2>3, <2>4, <2>5 DEF EditMoves
<1> QED BY <1>2, <1>3, <1>4, <1>5, <1>6 DEF EditStep

LEMMA HistoryStep ==
    ASSUME WorkflowsAssumption, HistoryInv, [FlowsNext]_flowVars
    PROVE  HistoryInv'
<1> USE DEF HistoryInv
<1>0. CASE UNCHANGED flowVars
  BY <1>0 DEF flowVars, FlowsTyped, UnusedRows, EditsPlaced, RunsPlaced, DownIsEmpty
<1>1. ASSUME NEW f \in Flows, NEW kind \in {"cron", "manual"}, NEW pc \in {"gate", "launched"},
             process = "up", NewRun(f, kind, pc),
             UNCHANGED <<defs, entries, process, edits, edited, flowStops, forgiven>>
      PROVE  HistoryInv'
  <2> DEFINE row == [flow |-> f, kind |-> kind, status |-> "pending", pc |-> pc]
  <2>1. PICK r \in FlowRuns :
          /\ history[r].status = "none" /\ \A q \in 1..r-1 : history[q].status # "none"
          /\ history' = [history EXCEPT ![r] = row]
    BY <1>1 DEF NewRun
  <2>2. /\ row \in FlowRow /\ row.flow = f /\ row.status = "pending" /\ row.pc = pc
    BY DEF FlowRow, FlowStatuses, InFlight, FlowPlaces
  <2> HIDE DEF row
  <2>3. /\ history' \in [FlowRuns -> FlowRow] /\ history'[r] = row
        /\ \A q \in FlowRuns \ {r} : history'[q] = history[q]
    BY <2>1, <2>2, RowSet DEF FlowsTyped
  <2>4. FlowsTyped'
    BY <1>1, <2>3 DEF FlowsTyped
  <2>5. UnusedRows'
    <3> SUFFICES ASSUME NEW x \in FlowRuns
                 PROVE  IF history'[x].status = "none" THEN history'[x].pc = "none" /\ history'[x].flow = NoFlow
                        ELSE /\ history'[x].flow \in Flows
                             /\ \A q \in FlowRuns : q < x => history'[q].status # "none"
      BY DEF UnusedRows
    <3>1. CASE x = r
      <4>1. history'[x].status = "pending" /\ history'[x].flow \in Flows
        BY <2>2, <2>3, <3>1
      <4>2. ASSUME NEW q \in FlowRuns, q < x PROVE history'[q].status # "none"
        <5>1. q \in Nat /\ r \in Nat /\ q >= 1 /\ q < r
          BY <3>1, <4>2 DEF FlowRuns
        <5>2. q \in 1..r-1 /\ q # r
          BY ONLY <5>1
        <5> QED BY <2>1, <2>3, <5>2
      <4> QED BY <4>1, <4>2
    <3>2. CASE x # r
      <4>1. history'[x] = history[x]
        BY <2>3, <3>2
      <4>2. history[x].status # "none" => ~(r < x)
        BY <2>1 DEF UnusedRows
      <4> QED BY <2>3, <4>1, <4>2 DEF UnusedRows
    <3> QED BY <3>1, <3>2
  <2>6. EditsPlaced' /\ DownIsEmpty'
    BY <1>1 DEF EditsPlaced, DownIsEmpty
  <2>7. RunsPlaced'
    BY <1>1, <2>2, <2>3 DEF RunsPlaced
  <2> QED BY <2>4, <2>5, <2>6, <2>7
<1>2. ASSUME NEW f \in Flows, Fire(f) PROVE HistoryInv'
  BY <1>1, <1>2 DEF Fire
<1>3. ASSUME NEW f \in Flows, Dispatch(f) PROVE HistoryInv'
  BY <1>1, <1>3 DEF Dispatch
<1>4. ASSUME NEW r \in FlowRuns, RunStep(r) PROVE HistoryInv'
  <2>0. RunMoved(r)
    BY <1>4, RunMoves
  <2>1. history[r].pc # "none"
    BY <1>4 DEF RunStep, PassGate, SkipRun, BeginRun, EndRun, CheckBreaker, TripBreaker, UnhookTripped
  <2>2. history[r].flow \in Flows /\ history[r].status # "none" /\ process # "down"
    BY <2>1 DEF UnusedRows, DownIsEmpty
  <2>3. \E status, pc : RowMoves(r, status, pc) /\ status # "none"
    <3>1. \E pc : \E status \in Failing \cup {"skipped", "running", "completed", "cancelled", history[r].status} :
            RowMoves(r, status, pc)
      BY <2>0 DEF RunMoved
    <3> QED BY <2>2, <3>1 DEF Failing
  <2>4. /\ history' \in [FlowRuns -> FlowRow] /\ history'[r].flow = history[r].flow
        /\ history'[r].status # "none" /\ \A q \in FlowRuns \ {r} : history'[q] = history[q]
    BY <2>3 DEF RowMoves
  <2>5. /\ UNCHANGED <<process, edits>> /\ defs' \in [Flows -> [enabled : BOOLEAN, deleted : BOOLEAN]]
        /\ \A f \in Flows : defs'[f].deleted = defs[f].deleted
        /\ forgiven' \subseteq Flows
    <3>1. UNCHANGED <<process, edits>> /\ (UNCHANGED defs \/ TripBreaker(r)) /\ forgiven' \subseteq forgiven
      BY <1>4 DEF RunStep, PassGate, SkipRun, BeginRun, EndRun, CheckBreaker, TripBreaker, UnhookTripped
    <3>2. CASE TripBreaker(r)
      <4> DEFINE f == history[r].flow
      <4>1. defs' = [defs EXCEPT ![f].enabled = defs[f].enabled /\ defs[f].deleted]
        BY <3>2 DEF TripBreaker
      <4>2. f \in Flows
        BY <2>2
      <4> HIDE DEF f
      <4> QED BY <3>1, <4>1, <4>2 DEF FlowsTyped
    <3> QED BY <3>1, <3>2 DEF FlowsTyped
  <2>6. FlowsTyped'
    BY <2>4, <2>5 DEF FlowsTyped
  <2>7. UnusedRows'
    BY <2>2, <2>4 DEF UnusedRows
  <2>8. EditsPlaced'
    BY <2>5 DEF EditsPlaced
  <2>9. DownIsEmpty'
    BY <2>2, <2>5 DEF DownIsEmpty
  <2>10. /\ history'[r].pc # "gate"
         /\ history'[r].pc = "running" => history'[r].status = "running"
         /\ history'[r].pc = "launched" =>
              /\ history'[r].status \in {"pending", "skipped"}
              /\ ~defs[history[r].flow].deleted => history'[r].status = "pending"
    <3>1. \/ history'[r].pc \in {"none", "breaker", "trip", "unhook"}
          \/ history'[r].pc = "running" /\ history'[r].status = "running"
          \/ history[r].pc = "gate" /\ history'[r].pc = "launched" /\ history'[r].status = history[r].status
      BY <2>0 DEF RunMoved, RowMoves, AfterEnd, PassGate
    <3> QED BY <3>1, <2>2 DEF RunsPlaced
  <2>11. RunsPlaced'
    <3> SUFFICES ASSUME NEW q \in FlowRuns
                 PROVE  /\ history'[q].pc = "running" => history'[q].status = "running"
                        /\ history'[q].pc \in {"gate", "launched"} =>
                             /\ history'[q].status \in {"pending", "skipped"}
                             /\ ~defs'[history'[q].flow].deleted => history'[q].status = "pending"
      BY DEF RunsPlaced
    <3>1. CASE q = r
      BY <2>2, <2>4, <2>5, <2>10, <3>1
    <3>2. CASE q # r
      <4>1. history'[q] = history[q]
        BY <2>4, <3>2
      <4>2. history[q].pc \in {"gate", "launched"} => history[q].flow \in Flows
        BY DEF UnusedRows
      <4> QED BY <2>5, <4>1, <4>2 DEF RunsPlaced
    <3> QED BY <3>1, <3>2
  <2> QED BY <2>6, <2>7, <2>8, <2>9, <2>11
<1>5. ASSUME NEW e \in Editors, EditStep(e) PROVE HistoryInv'
  <2>1. PICK row \in EditRow : EditMoves(e, row)
    BY <1>5, EditStepMoves
  <2>2. FlowsTyped'
    BY <2>1 DEF EditMoves, FlowsTyped
  <2>3. EditsPlaced'
    <3> SUFFICES ASSUME NEW d \in Editors, edits'[d].pc # "none"
                 PROVE  /\ edits'[d].flow \in Flows
                        /\ edits'[d].pc \in {"skip", "remove"} => defs'[edits'[d].flow].deleted
      BY DEF EditsPlaced
    <3>1. CASE d = e
      BY <2>1, <3>1 DEF EditMoves
    <3>2. CASE d # e
      BY <2>1, <3>2 DEF EditMoves, EditsPlaced
    <3> QED BY <3>1, <3>2
  <2>4. UnusedRows'
    BY <2>1 DEF EditMoves, UnusedRows
  <2>6. RunsPlaced'
    <3> SUFFICES ASSUME NEW q \in FlowRuns
                 PROVE  /\ history'[q].pc = "running" => history'[q].status = "running"
                        /\ history'[q].pc \in {"gate", "launched"} =>
                             /\ history'[q].status \in {"pending", "skipped"}
                             /\ ~defs'[history'[q].flow].deleted => history'[q].status = "pending"
      BY DEF RunsPlaced
    <3>1. /\ history'[q].pc = history[q].pc /\ history'[q].flow = history[q].flow
          /\ \/ history'[q].status = history[q].status
             \/ history[q].status = "pending" /\ history'[q].status = "skipped" /\ defs[history[q].flow].deleted
          /\ \A f \in Flows : defs[f].deleted => defs'[f].deleted
      BY <2>1 DEF EditMoves
    <3>2. history[q].status # "none" => history[q].flow \in Flows
      BY DEF UnusedRows
    <3> QED BY <3>1, <3>2 DEF RunsPlaced
  <2>5. DownIsEmpty'
    <3>1. /\ process' = process /\ forgiven \subseteq forgiven' /\ forgiven' \subseteq Flows
          /\ \A q \in FlowRuns : history'[q].pc = history[q].pc
      BY <2>1 DEF EditMoves
    <3>2. DownIsEmpty
      OBVIOUS
    <3> QED BY ONLY <3>1, <3>2 DEF DownIsEmpty
  <2> QED BY <2>2, <2>3, <2>4, <2>5, <2>6
<1>6. CASE StopScheduler
  BY <1>6 DEF StopScheduler, FlowsTyped, UnusedRows, EditsPlaced, RunsPlaced, DownIsEmpty
<1>7. CASE ProcessEnds
  <2>1. \A r \in FlowRuns : history[r] \in FlowRow
    BY DEF FlowsTyped
  <2>2. \A r \in FlowRuns :
          /\ history'[r] \in FlowRow /\ history'[r].pc = "none"
          /\ history'[r].flow = history[r].flow /\ history'[r].status = history[r].status
    BY <1>7, <2>1 DEF ProcessEnds, FlowRow, FlowPlaces
  <2>3. history' \in [FlowRuns -> FlowRow]
    BY <1>7, <2>2 DEF ProcessEnds
  <2>4. /\ edits' \in [Editors -> EditRow] /\ \A e \in Editors : edits'[e].pc = "none"
        /\ forgiven' = Flows /\ UNCHANGED defs
    BY <1>7 DEF ProcessEnds, NoEdit, EditRow
  <2>5. FlowsTyped'
    BY <2>3, <2>4 DEF FlowsTyped
  <2>6. UnusedRows'
    BY <2>2 DEF UnusedRows
  <2> QED BY <2>2, <2>4, <2>5, <2>6 DEF EditsPlaced, RunsPlaced, DownIsEmpty
<1>8. CASE StartScheduler
  <2>1. \A r \in FlowRuns : history[r] \in FlowRow /\ history[r].pc = "none"
    BY <1>8 DEF FlowsTyped, StartScheduler, DownIsEmpty
  <2>2. \A r \in FlowRuns :
          /\ history'[r] \in FlowRow /\ history'[r].pc = "none" /\ history'[r].flow = history[r].flow
          /\ history'[r].status = "none" <=> history[r].status = "none"
    BY <1>8, <2>1 DEF StartScheduler, ExpiredRow, InFlight, FlowRow, FlowStatuses, Failing
  <2>3. history' \in [FlowRuns -> FlowRow] /\ UNCHANGED <<defs, edits, forgiven>> /\ process' = "up"
    BY <1>8, <2>2 DEF StartScheduler
  <2>4. UnusedRows'
    BY <2>2 DEF UnusedRows
  <2> QED BY <2>2, <2>3, <2>4 DEF FlowsTyped, EditsPlaced, RunsPlaced, DownIsEmpty
<1> QED
  BY <1>0, <1>2, <1>3, <1>4, <1>5, <1>6, <1>7, <1>8 DEF FlowsNext

(* The runs that came through the gate and are under way.                  *)
Gated == {r \in FlowRuns :
    /\ history[r].kind = "cron" /\ history[r].pc \in {"launched", "running"}
    /\ ~defs[history[r].flow].deleted}

LEMMA GateStep ==
    ASSUME WorkflowsAssumption, HistoryInv, GateHolds, [FlowsNext]_flowVars
    PROVE  GateHolds'
<1> USE DEF HistoryInv
<1>1. IsFiniteSet(FlowRuns)
  BY FS_Interval DEF FlowRuns
<1>2. IsFiniteSet(Gated) /\ Cardinality(Gated) <= MaxParallel /\ Cardinality(Gated) \in Nat
  BY <1>1, FS_Subset, FS_CardinalityType DEF Gated, GateHolds
<1>3. ASSUME Gated' \subseteq Gated PROVE GateHolds'
  <2>1. Cardinality(Gated') <= Cardinality(Gated) /\ Cardinality(Gated') \in Nat
    BY <1>2, <1>3, FS_Subset, FS_CardinalityType
  <2> QED BY <1>2, <2>1 DEF GateHolds, Gated
<1>4. ASSUME NEW r \in FlowRuns, PassGate(r) PROVE GateHolds'
  <2>1. /\ Cardinality(Others(r)) < MaxParallel /\ UNCHANGED defs
        /\ RowMoves(r, history[r].status, "launched")
    <3>1. Goto(r, "launched") /\ "launched" \in FlowPlaces
      BY <1>4 DEF PassGate, FlowPlaces
    <3>2. RowMoves(r, history[r].status, "launched")
      BY <3>1, GotoMoves, Zenon DEF FlowsTyped
    <3> QED BY <1>4, <3>2 DEF PassGate
  <2>2. Gated' \subseteq Others(r) \cup {r}
    <3> SUFFICES ASSUME NEW q \in Gated', q # r PROVE q \in Others(r)
      OBVIOUS
    <3>1. /\ q \in FlowRuns \ {r} /\ history'[q] = history[q]
          /\ history[q].pc \in {"launched", "running"} /\ ~defs[history[q].flow].deleted
      BY <2>1 DEF Gated, RowMoves
    <3>2. history[q].status \in {"pending", "running"}
      BY <3>1 DEF RunsPlaced
    <3> QED BY <3>1, <3>2 DEF Others, InFlight
  <2>3. IsFiniteSet(Others(r)) /\ r \notin Others(r)
    BY <1>1, FS_Subset DEF Others
  <2>4. /\ Cardinality(Others(r) \cup {r}) = Cardinality(Others(r)) + 1
        /\ Cardinality(Others(r)) \in Nat /\ IsFiniteSet(Others(r) \cup {r})
    BY <2>3, FS_AddElement, FS_CardinalityType
  <2>5. Cardinality(Gated') <= Cardinality(Others(r) \cup {r}) /\ Cardinality(Gated') \in Nat
    BY <2>2, <2>4, FS_Subset, FS_CardinalityType
  <2> QED BY <2>1, <2>4, <2>5 DEF GateHolds, Gated
<1>5. ASSUME NEW r \in FlowRuns, RunStep(r), ~PassGate(r) PROVE GateHolds'
  <2>1. RunMoved(r)
    BY <1>5, RunMoves
  <2>2. /\ history'[r].flow = history[r].flow /\ history'[r].kind = history[r].kind
        /\ history'[r].pc \in {"launched", "running"} => history[r].pc \in {"launched", "running"}
        /\ \A q \in FlowRuns \ {r} : history'[q] = history[q]
    BY <1>5, <2>1 DEF RunMoved, RowMoves, AfterEnd, BeginRun
  <2>3. \A q \in FlowRuns : history[q].pc # "none" => history[q].flow \in Flows
    BY DEF UnusedRows
  <2>4. \A f \in Flows : defs'[f].deleted = defs[f].deleted
    <3>1. CASE TripBreaker(r)
      <4> DEFINE f == history[r].flow
      <4>1. defs' = [defs EXCEPT ![f].enabled = defs[f].enabled /\ defs[f].deleted]
        BY <3>1 DEF TripBreaker
      <4> HIDE DEF f
      <4> QED BY <4>1 DEF FlowsTyped
    <3> QED BY <2>1, <3>1 DEF RunMoved
  <2>5. Gated' \subseteq Gated
    BY <2>2, <2>3, <2>4 DEF Gated
  <2> QED BY <1>3, <2>5
<1>6. ASSUME NEW e \in Editors, EditStep(e) PROVE GateHolds'
  <2>1. PICK row \in EditRow : EditMoves(e, row)
    BY <1>6, EditStepMoves
  <2>2. \A q \in FlowRuns : history[q].pc # "none" => history[q].flow \in Flows
    BY DEF UnusedRows
  <2>3. Gated' \subseteq Gated
    BY <2>1, <2>2 DEF EditMoves, Gated
  <2> QED BY <1>3, <2>3
<1>7. ASSUME NEW f \in Flows, Fire(f) \/ Dispatch(f) PROVE GateHolds'
  <2>1. PICK r \in FlowRuns, kind \in {"cron", "manual"}, pc \in {"gate", "launched"} :
          /\ history' = [history EXCEPT ![r] = [flow |-> f, kind |-> kind, status |-> "pending", pc |-> pc]]
          /\ kind = "cron" => pc = "gate"
    BY <1>7 DEF Fire, Dispatch, NewRun
  <2> DEFINE row == [flow |-> f, kind |-> kind, status |-> "pending", pc |-> pc]
  <2>2. row \in FlowRow /\ ~(row.kind = "cron" /\ row.pc \in {"launched", "running"})
    BY <2>1 DEF FlowRow, FlowStatuses, InFlight, FlowPlaces
  <2> HIDE DEF row
  <2>3. history'[r] = row /\ \A q \in FlowRuns \ {r} : history'[q] = history[q]
    BY <2>1, <2>2, RowSet DEF FlowsTyped, row
  <2>4. UNCHANGED defs
    BY <1>7 DEF Fire, Dispatch
  <2>5. Gated' \subseteq Gated
    BY <2>2, <2>3, <2>4 DEF Gated
  <2> QED BY <1>3, <2>5
<1>8. CASE ProcessEnds
  <2>1. \A r \in FlowRuns : history'[r].pc = "none"
    BY <1>8 DEF ProcessEnds, FlowsTyped, FlowRow
  <2> QED BY <1>3, <2>1 DEF Gated
<1>9. CASE StartScheduler
  <2>1. \A r \in FlowRuns : history[r].pc = "none" /\ history[r] \in FlowRow
    BY <1>9 DEF StartScheduler, DownIsEmpty, FlowsTyped
  <2>2. \A r \in FlowRuns : history'[r].pc = "none"
    BY <1>9, <2>1 DEF StartScheduler, ExpiredRow, FlowRow
  <2> QED BY <1>3, <2>2 DEF Gated
<1>10. CASE StopScheduler
  BY <1>3, <1>10 DEF StopScheduler, Gated
<1>11. CASE UNCHANGED flowVars
  BY <1>3, <1>11 DEF flowVars, Gated
<1> QED
  BY <1>4, <1>5, <1>6, <1>7, <1>8, <1>9, <1>10, <1>11 DEF FlowsNext

LEMMA HistoryBegins == FlowsInit => HistoryInv
  BY DEF FlowsInit, HistoryInv, FlowsTyped, FlowRow, EditRow, FlowStatuses, FlowPlaces, InFlight, NoRun, NoEdit,
         UnusedRows, EditsPlaced, RunsPlaced, DownIsEmpty

(* However firings interleave, no more runs that came through the gate are *)
(* under way than the app may have, deleted definitions aside (fire).      *)
THEOREM GateHoldsAlways == FlowsSpec => []GateHolds
<1>1. FlowsInit => HistoryInv /\ GateHolds
  <2> SUFFICES ASSUME FlowsInit PROVE HistoryInv /\ GateHolds
    OBVIOUS
  <2>1. Gated = {}
    BY DEF FlowsInit, NoRun, Gated
  <2>2. Cardinality({}) = 0
    BY FS_EmptySet
  <2>3. GateHolds <=> Cardinality(Gated) <= MaxParallel
    BY DEF GateHolds, Gated
  <2> QED BY <2>1, <2>2, <2>3, HistoryBegins, WorkflowsAssumption
<1>2. HistoryInv /\ GateHolds /\ [FlowsNext]_flowVars => (HistoryInv /\ GateHolds)'
  BY HistoryStep, GateStep, WorkflowsAssumption
<1> QED BY <1>1, <1>2, PTL DEF FlowsSpec

(* A flow that the breaker should disable has a run on its way to do so.   *)
BreakerUnderWay ==
    \A f \in Flows \ forgiven :
      ShouldTrip(f) /\ CronSchedulable(defs[f]) =>
        \E r \in FlowRuns : history[r].flow = f /\ history[r].pc \in {"breaker", "trip"}

(* What makes a flow's streak of failures no longer, and its runs at the   *)
(* breaker no fewer, keeps the breaker under way.                          *)
LEMMA StreakKept ==
    ASSUME NEW f,
           \A r \in FlowRuns :
             /\ history'[r].flow = f <=> history[r].flow = f
             /\ history[r].flow = f /\ history'[r].status \in Failing => history[r].status \in Failing,
           ShouldTrip(f)'
    PROVE  ShouldTrip(f)
<1>1. RowsOf(f)' = RowsOf(f)
  BY DEF RowsOf
<1>2. Recent(f, Threshold)' = Recent(f, Threshold)
  BY <1>1 DEF Recent
<1>3. \A r \in Recent(f, Threshold) : r \in FlowRuns /\ history[r].flow = f
  BY DEF Recent, RowsOf
<1> QED BY <1>1, <1>2, <1>3 DEF ShouldTrip

LEMMA BreakerKept ==
    ASSUME HistoryInv, BreakerUnderWay, forgiven \subseteq forgiven',
           \A f \in Flows : CronSchedulable(defs'[f]) => CronSchedulable(defs[f]),
           \A r \in FlowRuns :
             /\ history'[r].flow = history[r].flow
             /\ history'[r].status \in Failing => history[r].status \in Failing
             /\ history[r].pc \in {"breaker", "trip"} => history'[r].pc \in {"breaker", "trip"}
    PROVE  BreakerUnderWay'
<1> SUFFICES ASSUME NEW f \in Flows \ forgiven', ShouldTrip(f)', CronSchedulable(defs'[f])
             PROVE  \E r \in FlowRuns : history'[r].flow = f /\ history'[r].pc \in {"breaker", "trip"}
  BY DEF BreakerUnderWay
<1>1. ShouldTrip(f)
  BY StreakKept
<1> QED BY <1>1 DEF BreakerUnderWay

LEMMA BreakerStep ==
    ASSUME WorkflowsAssumption, HistoryInv, BreakerUnderWay, [FlowsNext]_flowVars
    PROVE  BreakerUnderWay'
<1> USE DEF HistoryInv
<1>1. ASSUME NEW f \in Flows, Fire(f) \/ Dispatch(f) PROVE BreakerUnderWay'
  <2>1. PICK r \in FlowRuns, kind \in {"cron", "manual"}, pc \in {"gate", "launched"} :
          /\ history[r].status = "none" /\ \A q \in 1..r-1 : history[q].status # "none"
          /\ history' = [history EXCEPT ![r] = [flow |-> f, kind |-> kind, status |-> "pending", pc |-> pc]]
    BY <1>1 DEF Fire, Dispatch, NewRun
  <2> DEFINE row == [flow |-> f, kind |-> kind, status |-> "pending", pc |-> pc]
  <2>2. row \in FlowRow /\ row.flow = f /\ row.status = "pending"
    BY DEF FlowRow, FlowStatuses, InFlight, FlowPlaces
  <2> HIDE DEF row
  <2>3. history'[r] = row /\ \A q \in FlowRuns \ {r} : history'[q] = history[q]
    BY <2>1, <2>2, RowSet DEF FlowsTyped, row
  <2>4. UNCHANGED <<defs, forgiven>>
    BY <1>1 DEF Fire, Dispatch
  <2>5. history[r].flow = NoFlow /\ history[r].pc = "none" /\ NoFlow \notin Flows
    BY <2>1 DEF UnusedRows
  <2>6. \A q \in FlowRuns : history[q].flow \in Flows => ~(q > r)
    <3> SUFFICES ASSUME NEW q \in FlowRuns, history[q].flow \in Flows, q > r PROVE FALSE
      OBVIOUS
    <3>1. history[q].status # "none" /\ r < q
      <4>1. q \in Nat /\ r \in Nat
        BY DEF FlowRuns
      <4> QED BY <2>5, <4>1 DEF UnusedRows
    <3> QED BY <2>1, <3>1 DEF UnusedRows
  <2> SUFFICES ASSUME NEW g \in Flows \ forgiven', ShouldTrip(g)', CronSchedulable(defs'[g])
               PROVE  \E q \in FlowRuns : history'[q].flow = g /\ history'[q].pc \in {"breaker", "trip"}
    BY DEF BreakerUnderWay
  <2>7. CASE g = f
    <3>1. RowsOf(g)' = RowsOf(g) \cup {r}
      BY <2>2, <2>3, <2>7 DEF RowsOf
    <3>2. {q \in RowsOf(g)' : q > r} = {}
      <4>1. \A q \in RowsOf(g) : ~(q > r)
        BY <2>6 DEF RowsOf
      <4>2. ~(r > r)
        BY DEF FlowRuns
      <4> QED BY <3>1, <4>1, <4>2
    <3>3. r \in Recent(g, Threshold)'
      <4>1. Cardinality({}) = 0 /\ 0 < Threshold
        BY FS_EmptySet
      <4> QED BY <3>1, <3>2, <4>1 DEF Recent
    <3>4. history'[r].status \in Failing
      BY <3>3 DEF ShouldTrip
    <3> QED BY <2>2, <2>3, <3>4 DEF Failing
  <2>8. CASE g # f
    <3>1. \A q \in FlowRuns :
             /\ history'[q].flow = g <=> history[q].flow = g
             /\ history[q].flow = g /\ history'[q].status \in Failing => history[q].status \in Failing
      BY <2>2, <2>3, <2>5, <2>8
    <3>2. ShouldTrip(g)
      BY <3>1, StreakKept
    <3>3. PICK q \in FlowRuns : history[q].flow = g /\ history[q].pc \in {"breaker", "trip"}
      BY <2>4, <3>2 DEF BreakerUnderWay
    <3>4. q # r
      BY <2>5, <3>3
    <3> QED BY <2>3, <3>3, <3>4
  <2> QED BY <2>7, <2>8
<1>2. ASSUME NEW r \in FlowRuns, PassGate(r) \/ SkipRun(r) \/ BeginRun(r) \/ UnhookTripped(r)
      PROVE  BreakerUnderWay'
  <2>1. RunMoved(r) /\ UNCHANGED <<defs, forgiven>> /\ history[r].pc \notin {"breaker", "trip"}
    <3>1. RunMoved(r)
      BY <1>2, RunMoves DEF RunStep
    <3> QED BY <1>2, <3>1 DEF PassGate, SkipRun, BeginRun, UnhookTripped
  <2>2. /\ history'[r].flow = history[r].flow
        /\ history'[r].status \in {history[r].status, "skipped", "running"}
        /\ \A q \in FlowRuns \ {r} : history'[q] = history[q]
    BY <1>2, <2>1 DEF RunMoved, RowMoves, PassGate, SkipRun, BeginRun, UnhookTripped,
                      EndRun, CheckBreaker, TripBreaker
  <2> QED BY <2>1, <2>2, BreakerKept DEF Failing
<1>3. ASSUME NEW r \in FlowRuns, EndRun(r) PROVE BreakerUnderWay'
  <2>1. PICK status \in Failing \cup {"completed", "cancelled"} :
          /\ RowMoves(r, status, AfterEnd(status)) /\ UNCHANGED defs /\ history[r].pc = "running"
          /\ forgiven' = IF status \in Failing THEN forgiven \ {history[r].flow} ELSE forgiven
    <3>1. RunMoved(r)
      BY <1>3, RunMoves DEF RunStep
    <3>2. history[r].pc = "running" /\ UNCHANGED defs
      BY <1>3 DEF EndRun
    <3> QED BY <3>1, <3>2 DEF RunMoved, PassGate, SkipRun, BeginRun, CheckBreaker, TripBreaker, UnhookTripped
  <2>2. CASE status \notin Failing
    BY <2>1, <2>2, BreakerKept DEF RowMoves, Failing
  <2>3. CASE status \in Failing
    <3>1. /\ history'[r].flow = history[r].flow /\ history'[r].pc = "breaker"
          /\ \A q \in FlowRuns \ {r} : history'[q] = history[q]
      BY <2>1, <2>3 DEF RowMoves, AfterEnd
    <3> SUFFICES ASSUME NEW g \in Flows \ forgiven', ShouldTrip(g)', CronSchedulable(defs'[g])
                 PROVE  \E q \in FlowRuns : history'[q].flow = g /\ history'[q].pc \in {"breaker", "trip"}
      BY DEF BreakerUnderWay
    <3>2. CASE g = history[r].flow
      BY <3>1, <3>2
    <3>3. CASE g # history[r].flow
      <4>1. \A q \in FlowRuns :
               /\ history'[q].flow = g <=> history[q].flow = g
               /\ history[q].flow = g /\ history'[q].status \in Failing => history[q].status \in Failing
        BY <3>1, <3>3
      <4>2. ShouldTrip(g)
        BY <4>1, StreakKept
      <4>3. g \in Flows \ forgiven /\ CronSchedulable(defs[g])
        BY <2>1, <2>3, <3>3
      <4>4. PICK q \in FlowRuns : history[q].flow = g /\ history[q].pc \in {"breaker", "trip"}
        BY <4>2, <4>3 DEF BreakerUnderWay
      <4> QED BY <3>1, <3>3, <4>4
    <3> QED BY <3>2, <3>3
  <2> QED BY <2>2, <2>3
<1>4. ASSUME NEW r \in FlowRuns, CheckBreaker(r) \/ TripBreaker(r) PROVE BreakerUnderWay'
  <2> DEFINE f == history[r].flow
  <2>1. /\ history'[r].flow = f /\ UNCHANGED forgiven /\ history'[r].status = history[r].status
        /\ \A q \in FlowRuns \ {r} : history'[q] = history[q]
        /\ \A g \in Flows : CronSchedulable(defs'[g]) => CronSchedulable(defs[g])
    <3>1. RunMoved(r) /\ UNCHANGED forgiven
      BY <1>4, RunMoves DEF RunStep, CheckBreaker, TripBreaker
    <3>2. /\ history'[r].flow = f /\ history'[r].status = history[r].status
          /\ \A q \in FlowRuns \ {r} : history'[q] = history[q]
      BY <1>4, <3>1 DEF RunMoved, RowMoves, PassGate, SkipRun, BeginRun, UnhookTripped,
                        EndRun, CheckBreaker, TripBreaker
    <3>3. UNCHANGED defs \/ defs' = [defs EXCEPT ![f].enabled = defs[f].enabled /\ defs[f].deleted]
      BY <1>4 DEF CheckBreaker, TripBreaker
    <3> HIDE DEF f
    <3>4. \A g \in Flows : CronSchedulable(defs'[g]) => CronSchedulable(defs[g])
      BY <3>3 DEF CronSchedulable, FlowsTyped
    <3> QED BY <3>1, <3>2, <3>4
  <2>2. \/ history'[r].pc = "trip" \/ ~(ShouldTrip(f) /\ CronSchedulable(defs[f]))
        \/ f \in Flows => ~CronSchedulable(defs'[f])
    <3>1. CASE CheckBreaker(r)
      <4>1. RunMoved(r)
        BY <3>1, RunMoves DEF RunStep
      <4> QED BY <3>1, <4>1 DEF RunMoved, RowMoves, PassGate, SkipRun, BeginRun, UnhookTripped,
                        EndRun, CheckBreaker, TripBreaker
    <3>2. CASE TripBreaker(r)
      <4>1. defs' = [defs EXCEPT ![f].enabled = defs[f].enabled /\ defs[f].deleted]
        BY <3>2 DEF TripBreaker
      <4> HIDE DEF f
      <4> QED BY <4>1 DEF CronSchedulable, FlowsTyped
    <3> QED BY <1>4, <3>1, <3>2
  <2> SUFFICES ASSUME NEW g \in Flows \ forgiven', ShouldTrip(g)', CronSchedulable(defs'[g])
               PROVE  \E q \in FlowRuns : history'[q].flow = g /\ history'[q].pc \in {"breaker", "trip"}
    BY DEF BreakerUnderWay
  <2>3. ShouldTrip(g) /\ g \in Flows \ forgiven /\ CronSchedulable(defs[g])
    <3>1. \A q \in FlowRuns :
             /\ history'[q].flow = g <=> history[q].flow = g
             /\ history[q].flow = g /\ history'[q].status \in Failing => history[q].status \in Failing
      BY <2>1
    <3> QED BY <2>1, <3>1, StreakKept
  <2>4. PICK q \in FlowRuns : history[q].flow = g /\ history[q].pc \in {"breaker", "trip"}
    BY <2>3 DEF BreakerUnderWay
  <2>5. CASE g = f
    BY <2>1, <2>2, <2>3, <2>5
  <2>6. CASE g # f
    BY <2>1, <2>4, <2>6
  <2> QED BY <2>5, <2>6
<1>5. ASSUME NEW e \in Editors, EditStep(e) PROVE BreakerUnderWay'
  <2>1. PICK row \in EditRow : EditMoves(e, row)
    BY <1>5, EditStepMoves
  <2>2. /\ forgiven \subseteq forgiven'
        /\ \A r \in FlowRuns :
             /\ history'[r].flow = history[r].flow
             /\ history'[r].status \in Failing => history[r].status \in Failing
             /\ history[r].pc \in {"breaker", "trip"} => history'[r].pc \in {"breaker", "trip"}
    BY <2>1 DEF EditMoves, Failing
  <2>3. \A f \in Flows \ forgiven' : CronSchedulable(defs'[f]) => CronSchedulable(defs[f])
    <3> SUFFICES ASSUME NEW f \in Flows \ forgiven', CronSchedulable(defs'[f]) PROVE CronSchedulable(defs[f])
      OBVIOUS
    <3>1. ~defs[f].deleted
      BY <2>1 DEF EditMoves, CronSchedulable
    <3>2. defs'[f].enabled => defs[f].enabled
      <4>1. CASE WriteDefinition(e)
        <5> DEFINE h == edits[e].flow
        <5>1. \/ UNCHANGED defs \/ defs' = [defs EXCEPT ![h].enabled = FALSE]
              \/ h \in forgiven' /\ defs' = [defs EXCEPT ![h].enabled = TRUE]
          BY <4>1 DEF WriteDefinition
        <5> HIDE DEF h
        <5> QED BY <5>1 DEF FlowsTyped
      <4>2. CASE DeleteDefinition(e)
        <5> DEFINE h == edits[e].flow
        <5>1. defs' = [defs EXCEPT ![h].deleted = TRUE]
          BY <4>2 DEF DeleteDefinition
        <5> HIDE DEF h
        <5> QED BY <5>1 DEF FlowsTyped
      <4>3. CASE ~WriteDefinition(e) /\ ~DeleteDefinition(e)
        BY <1>5, <4>3 DEF EditStep, ReadDefinition, SyncRegister, SkipPending, SyncRemove
      <4> QED BY <4>1, <4>2, <4>3
    <3> QED BY <3>1, <3>2 DEF CronSchedulable
  <2> SUFFICES ASSUME NEW f \in Flows \ forgiven', ShouldTrip(f)', CronSchedulable(defs'[f])
               PROVE  \E r \in FlowRuns : history'[r].flow = f /\ history'[r].pc \in {"breaker", "trip"}
    BY DEF BreakerUnderWay
  <2>4. ShouldTrip(f)
    BY <2>2, StreakKept
  <2> QED BY <2>2, <2>3, <2>4 DEF BreakerUnderWay
<1>6. CASE StopScheduler
  BY <1>6, BreakerKept DEF StopScheduler
<1>7. CASE ProcessEnds
  BY <1>7 DEF ProcessEnds, BreakerUnderWay
<1>8. CASE StartScheduler
  BY <1>8 DEF StartScheduler, DownIsEmpty, BreakerUnderWay
<1>9. CASE UNCHANGED flowVars
  BY <1>9, BreakerKept DEF flowVars
<1> QED
  BY <1>1, <1>2, <1>3, <1>4, <1>5, <1>6, <1>7, <1>8, <1>9 DEF FlowsNext, RunStep

(* The breaker misses no streak of failures, however runs, edits and the   *)
(* end of the process interleave (maybeTripFailureBreaker).                *)
THEOREM BreakerNotMissedAlways == FlowsSpec => []BreakerNotMissed
<1>1. FlowsInit => HistoryInv /\ BreakerUnderWay
  <2> SUFFICES ASSUME FlowsInit PROVE BreakerUnderWay
    BY HistoryBegins
  <2> SUFFICES ASSUME NEW f \in Flows, ShouldTrip(f) PROVE FALSE
    BY DEF BreakerUnderWay
  <2>1. RowsOf(f) = {}
    BY WorkflowsAssumption DEF FlowsInit, NoRun, RowsOf
  <2>2. Cardinality({}) = 0
    BY FS_EmptySet
  <2> QED BY <2>1, <2>2, WorkflowsAssumption DEF ShouldTrip
<1>2. HistoryInv /\ BreakerUnderWay /\ [FlowsNext]_flowVars => (HistoryInv /\ BreakerUnderWay)'
  BY HistoryStep, BreakerStep, WorkflowsAssumption
<1>3. BreakerUnderWay => BreakerNotMissed
  BY DEF BreakerUnderWay, BreakerNotMissed, RowsOf
<1> QED BY <1>1, <1>2, <1>3, PTL DEF FlowsSpec

-----------------------------------------------------------------------------
(* Asynchronous tasks: the rows and what is observed (module AsyncTasks)    *)

Unsent == {"absent", "called"}
TaskFields == {"state", "exec", "event", "seq", "at", "owner", "leased", "due", "stale", "aged"}

(* The status of a job that was never reported cannot have ended.          *)
TaskRight(row) ==
    /\ TaskFields \subseteq DOMAIN row
    /\ row.seq \in Nat /\ row.at \in Nat
    /\ row.state \in Unsent => row.exec \notin Ended \cup {"processing"}

ObservedInv ==
    /\ DOMAIN tasks = Tasks /\ \A t \in Tasks : TaskRight(tasks[t])
    /\ jobs \in [Keys -> Seq(Ended \cup {"processing"})]
    /\ held \in [Owners -> SUBSET Tasks]
    /\ DOMAIN look = Owners /\ \A w \in Owners : look[w].seq \in Nat /\ look[w].at \in Nat

(* How a row may change: its end stays, its number and time do not fall.   *)
TaskAdvances(row, new) ==
    /\ TaskRight(row) => TaskRight(new)
    /\ TaskRight(row) =>
         /\ row.exec \in Ended => new.exec = row.exec
         /\ new.seq >= row.seq /\ new.at >= row.at

(* A row whose observation stays as it is, and that does not go back       *)
(* before the call.                                                        *)
LEMMA SameObservation ==
    ASSUME NEW row, NEW new, DOMAIN new = DOMAIN row,
           new.exec = row.exec, new.seq = row.seq, new.at = row.at,
           new.state \in Unsent => row.state \in Unsent
    PROVE  TaskAdvances(row, new)
  BY DEF TaskAdvances, TaskRight

LEMMA Stays == \A row : TaskAdvances(row, row)
  BY DEF TaskAdvances, TaskRight

LEMMA ExpiredAdvances ==
    ASSUME DOMAIN tasks = Tasks, \A t \in Tasks : TaskRight(tasks[t])
    PROVE  \A t \in Tasks : TaskAdvances(tasks[t], Expired(tasks)[t])
<1> SUFFICES ASSUME NEW t \in Tasks PROVE TaskAdvances(tasks[t], Expired(tasks)[t])
  OBVIOUS
<1> DEFINE new == [tasks[t] EXCEPT !.state = "expired"]
<1>1. Expired(tasks)[t] = new \/ Expired(tasks)[t] = tasks[t]
  BY DEF Expired
<1>2. /\ DOMAIN new = DOMAIN tasks[t] /\ new.exec = tasks[t].exec /\ new.seq = tasks[t].seq
      /\ new.at = tasks[t].at /\ new.state \notin Unsent
  BY DEF TaskRight, TaskFields, Unsent
<1> HIDE DEF new
<1> QED BY <1>1, <1>2, SameObservation, Stays

LEMMA ObservedAdvances ==
    ASSUME NEW row, TaskRight(row), NEW o, o.seq \in Nat, o.at \in Nat, Accepts(row, o)
    PROVE  TaskAdvances(row, Observed(row, o))
<1> DEFINE new == Observed(row, o)
<1>1. /\ DOMAIN new = DOMAIN row /\ new.exec = o.status /\ new.at = o.at /\ new.state = row.state
      /\ new.seq = IF o.seq > 0 THEN o.seq ELSE row.seq
  BY DEF Observed, TaskRight, TaskFields
<1>2. /\ row.exec \in {"processing"} \cup ({o.status} \cap Ended)
      /\ (o.seq > 0 /\ row.seq > 0) => o.seq > row.seq
      /\ row.at # 0 => o.at >= row.at
  BY DEF Accepts
<1>3. row.state \notin Unsent
  BY <1>2 DEF TaskRight
<1>4. row.exec \in Ended => row.exec = o.status
  BY <1>2 DEF Ended
<1> HIDE DEF new
<1>5. new.seq \in Nat /\ new.seq >= row.seq /\ new.at \in Nat /\ new.at >= row.at
  BY <1>1, <1>2 DEF TaskRight
<1>6. TaskAdvances(row, new)
  BY <1>1, <1>3, <1>4, <1>5 DEF TaskAdvances, TaskRight
<1> QED BY <1>6 DEF new

(* A step that moves one row, all of them, or none.                        *)
LEMMA OneMoves ==
    ASSUME DOMAIN tasks = Tasks, NEW t \in Tasks, NEW new, TaskAdvances(tasks[t], new),
           tasks' = [tasks EXCEPT ![t] = new]
    PROVE  DOMAIN tasks' = Tasks /\ \A u \in Tasks : TaskAdvances(tasks[u], tasks'[u])
<1>1. DOMAIN tasks' = Tasks /\ tasks'[t] = new /\ \A u \in Tasks \ {t} : tasks'[u] = tasks[u]
  OBVIOUS
<1> QED BY <1>1, Stays

Advancing == DOMAIN tasks' = Tasks /\ \A t \in Tasks : TaskAdvances(tasks[t], tasks'[t])

LEMMA NoneMove == DOMAIN tasks = Tasks /\ UNCHANGED tasks => Advancing
  BY Stays DEF Advancing

LEMMA AllExpire == ObservedInv /\ tasks' = Expired(tasks) => Advancing
  BY ExpiredAdvances DEF Advancing, ObservedInv, Expired

LEMMA ShapeKept ==
    ASSUME NEW row, TaskRight(row), NEW field \in TaskFields \ {"state", "exec", "seq", "at"}, NEW v
    PROVE  TaskAdvances(row, [row EXCEPT ![field] = v]) /\ TaskFields \subseteq DOMAIN [row EXCEPT ![field] = v]
<1> DEFINE new == [row EXCEPT ![field] = v]
<1>1. /\ DOMAIN new = DOMAIN row /\ new.exec = row.exec /\ new.seq = row.seq
      /\ new.at = row.at /\ new.state = row.state
  BY DEF TaskRight, TaskFields
<1> HIDE DEF new
<1>2. TaskAdvances(row, new) /\ TaskFields \subseteq DOMAIN new
  BY <1>1, SameObservation DEF TaskRight
<1> QED BY <1>2 DEF new

LEMMA EmitAdvances ==
    ASSUME ObservedInv, NEW k, NEW o, o.seq \in Nat, o.at \in Nat, Emit(k, o)
    PROVE  Advancing
<1>1. DOMAIN tasks' = Tasks
  BY DEF Emit
<1>2. ASSUME NEW t \in Tasks PROVE TaskAdvances(tasks[t], tasks'[t])
  <2>1. \/ tasks'[t] = tasks[t]
        \/ Accepts(tasks[t], o) /\ tasks'[t] = Observed(tasks[t], o)
    BY DEF Emit
  <2> QED BY <2>1, ObservedAdvances, Stays DEF ObservedInv
<1> QED BY <1>1, <1>2 DEF Advancing

LEMMA TasksMove ==
    ASSUME ObservedInv, [TasksNext]_taskVars
    PROVE  Advancing
<1> USE DEF ObservedInv
<1>1. ASSUME NEW t \in Tasks, CallTool(t) \/ RecordFails(t) PROVE Advancing
  <2> DEFINE new(state) == [tasks[t] EXCEPT !.state = state]
  <2>1. PICK state \in {"called", "lost"} :
          tasks' = [tasks EXCEPT ![t] = new(state)] /\ tasks[t].state \in Unsent
    BY <1>1 DEF CallTool, RecordFails, Unsent
  <2>2. /\ DOMAIN new(state) = DOMAIN tasks[t] /\ new(state).exec = tasks[t].exec
        /\ new(state).seq = tasks[t].seq /\ new(state).at = tasks[t].at
    BY DEF TaskRight, TaskFields
  <2> HIDE DEF new
  <2>3. TaskAdvances(tasks[t], new(state))
    BY <2>1, <2>2, SameObservation
  <2> QED BY <2>1, <2>3, OneMoves DEF Advancing
<1>2. ASSUME NEW t \in Tasks, RecordTask(t) PROVE Advancing
  <2> DEFINE new(exec) == [tasks[t] EXCEPT !.state = "pending", !.exec = exec]
  <2>1. PICK exec : tasks' = [tasks EXCEPT ![t] = new(exec)] /\ tasks[t].state \in Unsent
    BY <1>2 DEF RecordTask, Unsent
  <2>2. /\ DOMAIN new(exec) = DOMAIN tasks[t] /\ new(exec).state = "pending"
        /\ new(exec).seq = tasks[t].seq /\ new(exec).at = tasks[t].at
    BY DEF TaskRight, TaskFields
  <2> HIDE DEF new
  <2>3. TaskAdvances(tasks[t], new(exec))
    BY <2>1, <2>2 DEF TaskAdvances, TaskRight, Unsent
  <2> QED BY <2>1, <2>3, OneMoves DEF Advancing
<1>3. CASE LoadReminder
  BY <1>3, AllExpire DEF LoadReminder
<1>4. ASSUME NEW t \in Tasks, ResolveTask(t) PROVE Advancing
  <2> DEFINE new == [tasks[t] EXCEPT !.state = IF tasks[t].state = "pending" THEN "resolved" ELSE tasks[t].state]
  <2>1. tasks' = [tasks EXCEPT ![t] = new] /\ tasks[t].state \notin Unsent
    BY <1>4 DEF ResolveTask, Unsent
  <2>2. /\ DOMAIN new = DOMAIN tasks[t] /\ new.exec = tasks[t].exec /\ new.seq = tasks[t].seq
        /\ new.at = tasks[t].at /\ new.state \in {"resolved", tasks[t].state}
    BY DEF TaskRight, TaskFields
  <2> HIDE DEF new
  <2>3. TaskAdvances(tasks[t], new)
    BY <2>1, <2>2, SameObservation DEF Unsent
  <2> QED BY <2>1, <2>3, OneMoves DEF Advancing
<1>5. ASSUME NEW t \in Tasks,
             GrowsOld(t) \/ LeaseLapses(t) \/ SyncComesDue(t) \/ GoesStale(t)
      PROVE  Advancing
  <2>1. PICK field, v :
          /\ field \in TaskFields \ {"state", "exec", "seq", "at"}
          /\ tasks' = [tasks EXCEPT ![t] = [tasks[t] EXCEPT ![field] = v]]
    BY <1>5 DEF GrowsOld, LeaseLapses, SyncComesDue, GoesStale, Pass, TaskFields
  <2>2. TaskAdvances(tasks[t], [tasks[t] EXCEPT ![field] = v])
    BY <2>1, ShapeKept
  <2> QED BY <2>1, <2>2, OneMoves DEF Advancing
<1>6. ASSUME NEW k \in Keys, NEW n \in 1..MaxReports, DeliverEvent(k, n) PROVE Advancing
  <2>1. PICK seq \in {0, n} : Emit(k, [status |-> jobs[k][n], event |-> n, seq |-> seq, at |-> n])
    BY <1>6 DEF DeliverEvent
  <2> DEFINE o == [status |-> jobs[k][n], event |-> n, seq |-> seq, at |-> n]
  <2>2. Emit(k, o) /\ o.seq \in Nat /\ o.at \in Nat
    BY <2>1
  <2> HIDE DEF o
  <2> QED BY <2>2, EmitAdvances
<1>7. ASSUME NEW w \in Owners, ClaimTasks(w) PROVE Advancing
  <2>1. DOMAIN tasks' = Tasks
    BY <1>7 DEF ClaimTasks
  <2>2. ASSUME NEW t \in Tasks PROVE TaskAdvances(tasks[t], tasks'[t])
    <3> DEFINE new == [tasks[t] EXCEPT !.owner = w, !.leased = TRUE]
    <3>1. tasks'[t] = new \/ tasks'[t] = tasks[t]
      BY <1>7 DEF ClaimTasks
    <3>2. /\ DOMAIN new = DOMAIN tasks[t] /\ new.exec = tasks[t].exec /\ new.seq = tasks[t].seq
          /\ new.at = tasks[t].at /\ new.state = tasks[t].state
      BY DEF TaskRight, TaskFields
    <3> HIDE DEF new
    <3> QED BY <3>1, <3>2, SameObservation, Stays
  <2> QED BY <2>1, <2>2 DEF Advancing
<1>8. ASSUME NEW w \in Owners, ReportLook(w) PROVE Advancing
  <2>1. Emit(KeyOf[look[w].task], look[w])
    BY <1>8 DEF ReportLook
  <2> QED BY <2>1, EmitAdvances
<1>9. ASSUME NEW w \in Owners, NEW t \in Tasks, GiveBack(w, t) PROVE Advancing
  <2> DEFINE new == [tasks[t] EXCEPT !.due = FALSE, !.owner = Nobody, !.leased = FALSE]
  <2>1. tasks' = [tasks EXCEPT ![t] = IF tasks[t].owner # w THEN tasks[t] ELSE new]
    BY <1>9 DEF GiveBack
  <2>2. /\ DOMAIN new = DOMAIN tasks[t] /\ new.exec = tasks[t].exec /\ new.seq = tasks[t].seq
        /\ new.at = tasks[t].at /\ new.state = tasks[t].state
    BY DEF TaskRight, TaskFields
  <2> HIDE DEF new
  <2>3. TaskAdvances(tasks[t], new)
    BY <2>2, SameObservation
  <2>4. TaskAdvances(tasks[t], IF tasks[t].owner # w THEN tasks[t] ELSE new)
    BY <2>3, Stays
  <2> QED BY <2>1, <2>4, OneMoves DEF Advancing
<1>10. CASE ReadPage
  BY <1>10, AllExpire DEF ReadPage
<1>11. CASE UNCHANGED tasks
  BY <1>11, NoneMove
<1> QED
  BY <1>1, <1>2, <1>3, <1>4, <1>5, <1>6, <1>7, <1>8, <1>9, <1>10, <1>11
  DEF TasksNext, Submitting, Reminding, Reporting, Reconciling, Listing, SchedulerReports,
      OwnerCrash, AskScheduler, Refresh, taskVars

LEMMA ObservedStep ==
    ASSUME ObservedInv, [TasksNext]_taskVars
    PROVE  ObservedInv'
<1>1. DOMAIN tasks' = Tasks /\ \A t \in Tasks : TaskRight(tasks'[t])
  BY TasksMove DEF Advancing, TaskAdvances, ObservedInv
<1>2. jobs' \in [Keys -> Seq(Ended \cup {"processing"})]
  <2> DEFINE S == Ended \cup {"processing"}
  <2>1. \/ UNCHANGED jobs
        \/ \E k \in Keys : jobs' = [jobs EXCEPT ![k] = <<"processing">>]
        \/ \E k \in Keys, status \in S : jobs' = [jobs EXCEPT ![k] = Append(jobs[k], status)]
    <3>1. ASSUME NEW t \in Tasks, CallTool(t)
          PROVE  UNCHANGED jobs \/ \E k \in Keys : jobs' = [jobs EXCEPT ![k] = <<"processing">>]
      <4> DEFINE k == KeyOf[t]
      <4>1. k \in Keys /\ jobs' = [jobs EXCEPT ![k] = IF jobs[k] = <<>> THEN <<"processing">> ELSE jobs[k]]
        BY <3>1 DEF CallTool, Keys
      <4> HIDE DEF k
      <4>2. CASE jobs[k] = <<>>
        BY <4>1, <4>2
      <4>3. CASE jobs[k] # <<>>
        BY <4>1, <4>3 DEF ObservedInv
      <4> QED BY <4>2, <4>3
    <3>2. ASSUME NEW k \in Keys, SchedulerReports(k)
          PROVE  \E status \in S : jobs' = [jobs EXCEPT ![k] = Append(jobs[k], status)]
      BY <3>2 DEF SchedulerReports
    <3> HIDE DEF S
    <3>3. Submitting \/ Reminding \/ Listing => UNCHANGED jobs \/ \E t \in Tasks : CallTool(t)
      BY DEF Submitting, RecordTask, RecordFails, Reminding, LoadReminder, ResolveTask, GrowsOld, Pass,
             Listing, Refresh, ReadPage
    <3>4. Reporting => UNCHANGED jobs \/ \E k \in Keys : SchedulerReports(k)
      BY DEF Reporting, DeliverEvent
    <3>5. Reconciling => UNCHANGED jobs
      BY DEF Reconciling, ClaimTasks, ReportLook, OwnerCrash, AskScheduler, GiveBack, LeaseLapses,
             SyncComesDue, GoesStale, Pass
    <3> QED BY <3>1, <3>2, <3>3, <3>4, <3>5 DEF TasksNext, taskVars
  <2>2. "processing" \in S
    OBVIOUS
  <2> HIDE DEF S
  <2>3. <<"processing">> \in Seq(S)
    BY <2>2
  <2>4. jobs \in [Keys -> Seq(S)]
    BY DEF ObservedInv, S
  <2>5. jobs' \in [Keys -> Seq(S)]
    <3>1. ASSUME NEW k \in Keys, NEW s \in Seq(S), jobs' = [jobs EXCEPT ![k] = s]
          PROVE  jobs' \in [Keys -> Seq(S)]
      BY <2>4, <3>1
    <3>2. \A k \in Keys, status \in S : Append(jobs[k], status) \in Seq(S)
      BY <2>4
    <3> QED BY <2>1, <2>3, <2>4, <3>1, <3>2
  <2> QED BY <2>5 DEF S
<1>0. Submitting \/ Reminding \/ Listing \/ Reporting => UNCHANGED <<held, look>>
  BY DEF Submitting, CallTool, RecordTask, RecordFails, Reminding, LoadReminder, ResolveTask, GrowsOld, Pass,
         Listing, Refresh, ReadPage, Reporting, SchedulerReports, DeliverEvent
<1>3. held' \in [Owners -> SUBSET Tasks]
  <2>1. Reconciling => UNCHANGED held \/ \E w \in Owners, S \in SUBSET Tasks : held' = [held EXCEPT ![w] = S]
    <3>1. ASSUME NEW w \in Owners, ClaimTasks(w)
          PROVE  \E S \in SUBSET Tasks : held' = [held EXCEPT ![w] = S]
      BY <3>1 DEF ClaimTasks
    <3>2. ASSUME NEW w \in Owners, ReportLook(w) \/ OwnerCrash(w) \/ \E t \in Tasks : GiveBack(w, t)
          PROVE  \E S \in SUBSET Tasks : held' = [held EXCEPT ![w] = S]
      <4>1. \/ held' = [held EXCEPT ![w] = {}]
            \/ \E t : held' = [held EXCEPT ![w] = held[w] \ {t}]
        BY <3>2 DEF ReportLook, OwnerCrash, GiveBack
      <4> QED BY <4>1 DEF ObservedInv
    <3>3. ASSUME NEW w \in Owners, NEW t \in Tasks, AskScheduler(w, t) PROVE UNCHANGED held
      BY <3>3 DEF AskScheduler
    <3>4. ASSUME NEW t \in Tasks, LeaseLapses(t) \/ SyncComesDue(t) \/ GoesStale(t) PROVE UNCHANGED held
      BY <3>4 DEF LeaseLapses, SyncComesDue, GoesStale, Pass
    <3> QED BY <3>1, <3>2, <3>3, <3>4 DEF Reconciling
  <2>2. UNCHANGED held \/ \E w \in Owners, S \in SUBSET Tasks : held' = [held EXCEPT ![w] = S]
    BY <1>0, <2>1 DEF TasksNext, taskVars
  <2> QED BY <2>2 DEF ObservedInv
<1>4. DOMAIN look' = Owners /\ \A w \in Owners : look'[w].seq \in Nat /\ look'[w].at \in Nat
  <2>1. \/ UNCHANGED look
        \/ \E w \in Owners : look' = [look EXCEPT ![w] = NoLook]
        \/ \E w \in Owners, t \in Tasks : AskScheduler(w, t)
    <3>1. Reconciling => \/ UNCHANGED look
                         \/ \E w \in Owners : look' = [look EXCEPT ![w] = NoLook]
                         \/ \E w \in Owners, t \in Tasks : AskScheduler(w, t)
      BY DEF Reconciling, ClaimTasks, ReportLook, OwnerCrash, GiveBack, LeaseLapses, SyncComesDue,
             GoesStale, Pass
    <3> QED BY <1>0, <3>1 DEF TasksNext, taskVars
  <2>2. NoLook.seq = 0 /\ NoLook.at = 0
    BY DEF NoLook
  <2>3. ASSUME NEW w \in Owners, look' = [look EXCEPT ![w] = NoLook]
        PROVE  DOMAIN look' = Owners /\ \A v \in Owners : look'[v].seq \in Nat /\ look'[v].at \in Nat
    BY <2>2, <2>3 DEF ObservedInv
  <2>4. ASSUME NEW w \in Owners, NEW t \in Tasks, AskScheduler(w, t)
        PROVE  DOMAIN look' = Owners /\ \A v \in Owners : look'[v].seq \in Nat /\ look'[v].at \in Nat
    <3> DEFINE new == [NoLook EXCEPT !.task = t, !.status = Last(jobs[KeyOf[t]]), !.at = Len(jobs[KeyOf[t]])]
    <3>1. look' = [look EXCEPT ![w] = new] /\ KeyOf[t] \in Keys
      BY <2>4 DEF AskScheduler, Keys
    <3>2. new.seq = 0 /\ new.at = Len(jobs[KeyOf[t]])
      BY DEF NoLook
    <3>3. Len(jobs[KeyOf[t]]) \in Nat
      BY <3>1 DEF ObservedInv
    <3> HIDE DEF new
    <3> QED BY <3>1, <3>2, <3>3 DEF ObservedInv
  <2> QED BY <2>1, <2>3, <2>4 DEF ObservedInv
<1> QED BY <1>1, <1>2, <1>3, <1>4 DEF ObservedInv

LEMMA ObservedFirst == TasksInit => ObservedInv
<1> SUFFICES ASSUME TasksInit PROVE ObservedInv
  OBVIOUS
<1>1. NotKnown \notin Ended \cup {"processing"}
  BY Zenon DEF NotKnown, Ended
<1>2. TaskRight(NoTask)
  BY <1>1 DEF TaskRight, TaskFields, NoTask
<1> QED BY <1>2 DEF TasksInit, ObservedInv, NoLook

(* No observation takes a row back, in whatever order events, answers and  *)
(* repetitions arrive (ApplyReactAsyncTaskObservation).                    *)
THEOREM ObservationsAdvanceAlways == TasksSpec => ObservationsAdvance
<1>1. TasksInit => ObservedInv
  BY ObservedFirst
<1>2. ObservedInv /\ [TasksNext]_taskVars => ObservedInv'
  BY ObservedStep
<1>3. ObservedInv /\ [TasksNext]_taskVars =>
        [\A t \in Tasks :
           /\ tasks[t].exec \in Ended => tasks'[t].exec = tasks[t].exec
           /\ tasks'[t].seq >= tasks[t].seq
           /\ tasks'[t].at >= tasks[t].at]_taskVars
  <2> SUFFICES ASSUME ObservedInv, [TasksNext]_taskVars, NEW t \in Tasks
               PROVE  /\ tasks[t].exec \in Ended => tasks'[t].exec = tasks[t].exec
                      /\ tasks'[t].seq >= tasks[t].seq
                      /\ tasks'[t].at >= tasks[t].at
    OBVIOUS
  <2> QED BY TasksMove DEF Advancing, TaskAdvances, ObservedInv
<1> QED BY <1>1, <1>2, <1>3, PTL DEF TasksSpec, ObservationsAdvance

-----------------------------------------------------------------------------
(* The MCP client: whose answer a request gets (module McpClient)           *)

PumpPlaces == {"none", "turn", "reading", "sorting", "sending", "eof", "ended"}

ClientTyped ==
    /\ cmd \in 0..MaxProcesses /\ generation \in 0..MaxProcesses /\ nextID \in 0..MaxIds
    /\ awaited \subseteq Ids
    /\ channels \in [Ids -> {NoReply, StreamBroken} \cup Processes]
    /\ exited \subseteq Processes
    /\ unanswered \in [Processes -> SUBSET Ids] /\ lines \in [Processes -> Seq(Ids)]
    /\ pumps \in [Generations -> [at : PumpPlaces, src : 0..MaxProcesses, id : 0..MaxIds]]

(* The mutex is free when nobody is inside.                                *)
MutexHeld == mutex = NoCaller <=> pos = "none"

(* The process is that of the generation, but for the moment before it is  *)
(* counted; a request has a process.                                       *)
ProcessCounted ==
    /\ IF pos = "numbering" THEN cmd = generation + 1 ELSE cmd \in {0, generation}
    /\ pos \in {"asking", "writing", "waiting", "leaving"} => cmd # 0

(* Where the id of the present request cannot be.                          *)
Elsewhere(i, p) ==
    /\ i <= nextID
    /\ pos = "writing" => i # nextID
    /\ pos = "waiting" /\ p # cmd => i # nextID
IdsPlaced ==
    /\ \A p \in Processes : \A i \in unanswered[p] : Elsewhere(i, p)
    /\ \A p \in Processes : \A n \in 1..Len(lines[p]) : Elsewhere(lines[p][n], p)
    /\ \A g \in Generations :
         pumps[g].at \in {"sorting", "sending"} => Elsewhere(pumps[g].id, pumps[g].src)

(* What the present request has got.                                       *)
ChannelRight ==
    pos \in {"writing", "waiting"} =>
      /\ nextID # 0
      /\ channels[nextID] \in {NoReply, StreamBroken} \cup (IF pos = "waiting" THEN {cmd} ELSE {})
      /\ channels[nextID] = StreamBroken => cmd \in exited

(* The pump that was started last reads the process of its generation.     *)
PumpsRight ==
    \A g \in Generations :
      /\ pumps[g].at \in {"reading", "sorting", "sending", "eof"} =>
           pumps[g].src # 0 /\ (g = generation /\ pos # "numbering" => pumps[g].src = g)
      /\ pumps[g].at = "eof" => pumps[g].src \in exited

AnswersInv ==
    /\ ClientTyped /\ MutexHeld /\ ProcessCounted /\ IdsPlaced /\ ChannelRight /\ PumpsRight

LEMMA IdsAreNumbers ==
    ASSUME ClientTyped
    PROVE  /\ \A p \in Processes : \A i \in unanswered[p] : i \in Nat
           /\ \A p \in Processes : \A n \in 1..Len(lines[p]) : lines[p][n] \in Nat
           /\ \A g \in Generations : pumps[g].id \in Nat
<1>1. \A p \in Processes : \A i \in unanswered[p] : i \in Nat
  BY DEF ClientTyped, Ids
<1>2. ASSUME NEW p \in Processes, NEW n \in 1..Len(lines[p]) PROVE lines[p][n] \in Nat
  <2>1. lines[p] \in Seq(Ids)
    BY DEF ClientTyped
  <2>2. lines[p][n] \in Ids
    BY <2>1
  <2> QED BY <2>2 DEF Ids
<1>3. \A g \in Generations : pumps[g].id \in Nat
  BY DEF ClientTyped
<1> QED BY <1>1, <1>2, <1>3

LEMMA LetGoFrees == ASSUME NEW well, LetGo(well) PROVE mutex' = NoCaller /\ pos' = "none"
  BY DEF LetGo

LEMMA FailLeaves ==
    ASSUME Fail, MutexHeld, pos # "none"
    PROVE  pos' \in {"stopping", "none"} /\ MutexHeld'
  BY LetGoFrees DEF Fail, Proceed, MutexHeld

LEMMA ProceedHolds ==
    ASSUME NEW where, where # "none", Proceed(where), MutexHeld, pos # "none"
    PROVE  pos' = where /\ MutexHeld'
  BY DEF Proceed, MutexHeld

(* A step of the caller that sends nothing and has nothing to wait for.    *)
LEMMA CallerMoves ==
    ASSUME McpAssumption, AnswersInv,
           pos' \notin {"writing", "waiting"}, MutexHeld', nextID' \in nextID..MaxIds,
           IF pos' = "numbering" THEN cmd' = generation + 1 ELSE cmd' \in {0, generation},
           cmd' \in 0..MaxProcesses,
           pos' \in {"asking", "writing", "waiting", "leaving"} => cmd' # 0,
           awaited' \subseteq Ids, channels' \in [Ids -> {NoReply, StreamBroken} \cup Processes],
           exited \subseteq exited', exited' \subseteq Processes,
           pos = "numbering" => pos' = "numbering",
           UNCHANGED <<generation, unanswered, lines, pumps>>
    PROVE  AnswersInv'
<1> USE DEF AnswersInv
<1>1. ClientTyped'
  BY DEF ClientTyped
<1>2. ProcessCounted'
  BY DEF ProcessCounted
<1>3. \A p : \A i \in Nat : Elsewhere(i, p) => Elsewhere(i, p)'
  BY DEF Elsewhere, ClientTyped
<1>4. IdsPlaced'
  BY <1>3, IdsAreNumbers DEF IdsPlaced
<1>5. ChannelRight'
  BY DEF ChannelRight
<1>6. PumpsRight'
  BY DEF PumpsRight
<1> QED BY <1>1, <1>2, <1>4, <1>5, <1>6

LEMMA Broken ==
    ASSUME ClientTyped, BreakAwaited
    PROVE  awaited' \subseteq Ids /\ channels' \in [Ids -> {NoReply, StreamBroken} \cup Processes]
  BY DEF ClientTyped, BreakAwaited

LEMMA ManagerStep ==
    ASSUME McpAssumption, AnswersInv, NEW c \in Callers, Take(c) \/ Lock(c)
    PROVE  AnswersInv'
<1> USE DEF AnswersInv
<1>1. CASE Take(c)
  <2>1. UNCHANGED <<mutex, pos, cmd, generation, nextID, awaited, channels, exited, unanswered, lines, pumps>>
    BY <1>1 DEF Take
  <2> QED BY <2>1 DEF ClientTyped, MutexHeld, ProcessCounted, IdsPlaced, Elsewhere, ChannelRight, PumpsRight
<1>2. CASE Lock(c)
  <2>1. UNCHANGED <<cmd, generation, nextID, awaited, channels, exited, unanswered, lines, pumps>>
    BY <1>2 DEF Lock
  <2>2. /\ pos' \in {"stopping", "asking", "restarting"} /\ (pos' = "asking" => cmd # 0)
        /\ pos = "none"
        /\ MutexHeld'
    BY <1>2 DEF Lock, MutexHeld, McpAssumption
  <2>3. nextID' \in nextID..MaxIds /\ cmd \in {0, generation} /\ cmd' \in 0..MaxProcesses
    BY <2>1, <2>2 DEF ClientTyped, ProcessCounted
  <2>4. /\ awaited' \subseteq Ids /\ channels' \in [Ids -> {NoReply, StreamBroken} \cup Processes]
        /\ exited \subseteq exited' /\ exited' \subseteq Processes
    BY <2>1 DEF ClientTyped
  <2>5. /\ pos' \notin {"writing", "waiting"} /\ cmd' \in {0, generation}
        /\ IF pos' = "numbering" THEN cmd' = generation + 1 ELSE cmd' \in {0, generation}
        /\ pos' \in {"asking", "writing", "waiting", "leaving"} => cmd' # 0
        /\ pos = "numbering" => pos' = "numbering"
    BY <2>1, <2>2, <2>3
  <2>6. UNCHANGED <<generation, unanswered, lines, pumps>>
    BY <2>1
  <2> QED BY <2>2, <2>3, <2>4, <2>5, <2>6, CallerMoves
<1> QED BY <1>1, <1>2

LEMMA ProcessStep ==
    ASSUME McpAssumption, AnswersInv, KillProcess \/ ClearProcess \/ Spawn \/ StartPump
    PROVE  AnswersInv'
<1> USE DEF AnswersInv
<1>0. nextID \in nextID..MaxIds /\ cmd \in 0..MaxProcesses /\ generation \in 0..MaxProcesses
  BY DEF ClientTyped
<1>1. CASE KillProcess
  <2>1. /\ UNCHANGED <<cmd, generation, nextID, awaited, channels, unanswered, lines, pumps>>
        /\ exited' = exited \cup ({cmd} \ {0}) /\ pos \in {"restarting", "stopping"}
        /\ Proceed("clearing") \/ Proceed("stopped")
    BY <1>1 DEF KillProcess
  <2>2. pos' \in {"clearing", "stopped"} /\ MutexHeld'
    BY <2>1, ProceedHolds
  <2>3. exited' \subseteq Processes /\ cmd \in {0, generation}
    BY <1>0, <2>1 DEF ClientTyped, Processes, ProcessCounted
  <2> QED BY <1>0, <2>1, <2>2, <2>3, CallerMoves DEF ClientTyped
<1>2. CASE ClearProcess
  <2>1. /\ UNCHANGED <<generation, nextID, exited, unanswered, lines, pumps>>
        /\ cmd' = 0 /\ pos \in {"clearing", "stopped"}
        /\ UNCHANGED <<awaited, channels>> \/ BreakAwaited
        /\ Proceed("spawning") \/ LetGo(FALSE)
    BY <1>2 DEF ClearProcess
  <2>2. pos' \in {"spawning", "none"} /\ MutexHeld'
    BY <2>1, ProceedHolds, LetGoFrees DEF MutexHeld
  <2>3. awaited' \subseteq Ids /\ channels' \in [Ids -> {NoReply, StreamBroken} \cup Processes]
    BY <2>1, Broken DEF ClientTyped
  <2>4. cmd' \in 0..MaxProcesses
    BY <1>0, <2>1
  <2> QED BY <1>0, <2>1, <2>2, <2>3, <2>4, CallerMoves DEF ClientTyped
<1>3. CASE Spawn
  <2>1. /\ UNCHANGED <<generation, nextID, awaited, channels, exited, unanswered, lines, pumps>>
        /\ pos = "spawning"
        /\ \/ generation < MaxProcesses /\ cmd' = generation + 1 /\ Proceed("numbering")
           \/ LetGo(FALSE) /\ UNCHANGED cmd
    BY <1>3 DEF Spawn
  <2>2. /\ pos' \in {"numbering", "none"} /\ MutexHeld'
        /\ pos' = "numbering" => cmd' = generation + 1 /\ generation < MaxProcesses
        /\ pos' = "none" => cmd' = cmd
    <3>1. CASE Proceed("numbering") /\ generation < MaxProcesses /\ cmd' = generation + 1
      BY <2>1, <3>1, ProceedHolds
    <3>2. CASE LetGo(FALSE) /\ UNCHANGED cmd
      BY <2>1, <3>2 DEF LetGo, MutexHeld
    <3> QED BY <2>1, <3>1, <3>2
  <2>3. cmd' \in 0..MaxProcesses /\ cmd \in {0, generation}
    BY <1>0, <2>1, <2>2 DEF ProcessCounted, McpAssumption
  <2> QED BY <1>0, <2>1, <2>2, <2>3, CallerMoves DEF ClientTyped
<1>4. CASE StartPump
  <2>1. /\ UNCHANGED <<cmd, nextID, awaited, channels, exited, unanswered, lines>>
        /\ pos = "numbering" /\ generation' = generation + 1 /\ Proceed("asking")
        /\ pumps' = [pumps EXCEPT ![generation'].at = "turn"]
    BY <1>4 DEF StartPump
  <2>2. pos' = "asking" /\ MutexHeld'
    BY <2>1, ProceedHolds
  <2>3. cmd = generation + 1 /\ generation' \in Generations /\ cmd # 0
    BY <1>0, <2>1 DEF ProcessCounted, Generations, McpAssumption
  <2>4. /\ pumps' \in [Generations -> [at : PumpPlaces, src : 0..MaxProcesses, id : 0..MaxIds]]
        /\ pumps'[generation'].at = "turn"
        /\ \A g \in Generations \ {generation'} : pumps'[g] = pumps[g]
    BY <2>1, <2>3 DEF ClientTyped, PumpPlaces
  <2>5. ClientTyped'
    BY <2>1, <2>3, <2>4 DEF ClientTyped, Generations
  <2>6. ProcessCounted' /\ ChannelRight'
    BY <2>1, <2>2, <2>3 DEF ProcessCounted, ChannelRight
  <2>7. IdsPlaced'
    BY <2>1, <2>2, <2>4 DEF IdsPlaced, Elsewhere
  <2>8. PumpsRight'
    BY <2>1, <2>4 DEF PumpsRight
  <2> QED BY <2>2, <2>5, <2>6, <2>7, <2>8
<1> QED BY <1>1, <1>2, <1>3, <1>4

(* A request that is sent fails before it is, or has its id to itself.      *)
LEMMA RequestStep ==
    ASSUME McpAssumption, AnswersInv,
           Register \/ WriteRequest \/ SettleResult \/ Expire \/ GiveUp
    PROVE  AnswersInv'
<1> USE DEF AnswersInv
<1>0. /\ nextID \in 0..MaxIds /\ cmd \in 0..MaxProcesses /\ generation \in 0..MaxProcesses
      /\ awaited \subseteq Ids /\ channels \in [Ids -> {NoReply, StreamBroken} \cup Processes]
      /\ exited \subseteq Processes
      /\ unanswered \in [Processes -> SUBSET Ids] /\ MaxIds \in Nat /\ MaxProcesses \in Nat
  BY DEF ClientTyped, McpAssumption
<1>1. CASE Register
  <2>1. /\ pos = "asking" /\ nextID' = nextID + 1 /\ nextID' \in Ids
        /\ UNCHANGED <<cmd, generation, exited, unanswered, lines, pumps>>
        /\ cmd \in {0, generation} /\ cmd # 0
    BY <1>0, <1>1 DEF Register, ProcessCounted, Ids
  <2>2. CASE readBroken
    <3>1. Fail /\ UNCHANGED <<awaited, channels>>
      BY <1>1, <2>2 DEF Register
    <3>2. pos' \in {"stopping", "none"} /\ MutexHeld'
      BY <2>1, <3>1, FailLeaves
    <3>3. /\ nextID' \in nextID..MaxIds /\ cmd' \in 0..MaxProcesses
          /\ awaited' \subseteq Ids /\ channels' \in [Ids -> {NoReply, StreamBroken} \cup Processes]
          /\ exited \subseteq exited' /\ exited' \subseteq Processes
      BY <1>0, <2>1, <3>1 DEF Ids
    <3> QED BY <2>1, <3>2, <3>3, CallerMoves
  <2>3. CASE ~readBroken
    <3>1. /\ awaited' = awaited \cup {nextID'}
          /\ channels' = [channels EXCEPT ![nextID'] = NoReply]
          /\ Proceed("writing")
      BY <1>1, <2>3 DEF Register
    <3>2. pos' = "writing" /\ MutexHeld'
      BY <2>1, <3>1, ProceedHolds
    <3>3. /\ awaited' \subseteq Ids /\ channels' \in [Ids -> {NoReply, StreamBroken} \cup Processes]
          /\ channels'[nextID'] = NoReply
      BY <1>0, <2>1, <3>1
    <3>4. ClientTyped'
      BY <1>0, <2>1, <3>3 DEF ClientTyped, Ids
    <3>5. ProcessCounted' /\ ChannelRight' /\ PumpsRight'
      <4>1. ProcessCounted'
        BY <2>1, <3>2 DEF ProcessCounted
      <4>2. ChannelRight'
        BY <1>0, <2>1, <3>2, <3>3 DEF ChannelRight, NoReply, StreamBroken
      <4>3. PumpsRight'
        BY <2>1, <3>2 DEF PumpsRight
      <4> QED BY <4>1, <4>2, <4>3
    <3>6. \A p : \A i \in Nat : Elsewhere(i, p) => Elsewhere(i, p)'
      BY <1>0, <2>1, <3>2 DEF Elsewhere
    <3>7. IdsPlaced'
      BY <2>1, <3>6, IdsAreNumbers DEF IdsPlaced
    <3> QED BY <3>2, <3>4, <3>5, <3>7
  <2> QED BY <2>2, <2>3
<1>2. CASE WriteRequest
  <2>1. /\ pos = "writing"
        /\ UNCHANGED <<cmd, generation, nextID, channels, exited, lines, pumps>>
        /\ cmd \in {0, generation} /\ cmd # 0 /\ nextID \in Ids
    BY <1>0, <1>2 DEF WriteRequest, ProcessCounted, ChannelRight, Ids
  <2>2. CASE cmd \in exited
    <3>1. Fail /\ awaited' = awaited \ {ownId} /\ UNCHANGED unanswered
      BY <1>2, <2>2 DEF WriteRequest
    <3>2. pos' \in {"stopping", "none"} /\ MutexHeld'
      BY <2>1, <3>1, FailLeaves
    <3>3. /\ nextID' \in nextID..MaxIds /\ cmd' \in 0..MaxProcesses
          /\ awaited' \subseteq Ids /\ channels' \in [Ids -> {NoReply, StreamBroken} \cup Processes]
          /\ exited \subseteq exited' /\ exited' \subseteq Processes
      <4>1. awaited' \subseteq Ids
        BY <1>0, <3>1
      <4>2. nextID' \in nextID..MaxIds
        BY <1>0, <2>1
      <4> QED BY <1>0, <2>1, <4>1, <4>2
    <3> QED BY <2>1, <3>1, <3>2, <3>3, CallerMoves
  <2>3. CASE cmd \notin exited
    <3>1. /\ unanswered' = [unanswered EXCEPT ![cmd] = @ \cup {nextID}]
          /\ Proceed("waiting") /\ UNCHANGED awaited
      BY <1>2, <2>3 DEF WriteRequest, ownId
    <3>2. pos' = "waiting" /\ MutexHeld'
      BY <2>1, <3>1, ProceedHolds
    <3>3. /\ unanswered' \in [Processes -> SUBSET Ids]
          /\ \A p \in Processes : unanswered'[p] \subseteq unanswered[p] \cup {nextID}
          /\ \A p \in Processes : p # cmd => unanswered'[p] = unanswered[p]
      BY <1>0, <2>1, <3>1 DEF Processes
    <3>4. ClientTyped'
      BY <1>0, <2>1, <3>1, <3>3 DEF ClientTyped
    <3>5. ProcessCounted' /\ ChannelRight' /\ PumpsRight'
      <4>1. ProcessCounted'
        BY <2>1, <3>2 DEF ProcessCounted
      <4>2. ChannelRight'
        BY <2>1, <3>2 DEF ChannelRight
      <4>3. PumpsRight'
        BY <2>1, <3>2 DEF PumpsRight
      <4> QED BY <4>1, <4>2, <4>3
    <3>6. \A p : \A i \in Nat : Elsewhere(i, p) => Elsewhere(i, p)'
      BY <1>0, <2>1, <3>2 DEF Elsewhere
    <3>7. \A p \in Processes : \A i \in unanswered'[p] : Elsewhere(i, p)'
      <4> SUFFICES ASSUME NEW p \in Processes, NEW i \in unanswered'[p] PROVE Elsewhere(i, p)'
        OBVIOUS
      <4>1. CASE i \in unanswered[p]
        BY <3>6, <4>1, IdsAreNumbers DEF IdsPlaced
      <4>2. CASE i \notin unanswered[p]
        <5>1. i = nextID /\ p = cmd
          BY <3>3, <4>2
        <5> QED BY <1>0, <2>1, <3>2, <5>1 DEF Elsewhere
      <4> QED BY <4>1, <4>2
    <3>8. IdsPlaced'
      BY <2>1, <3>6, <3>7, IdsAreNumbers DEF IdsPlaced
    <3> QED BY <3>2, <3>4, <3>5, <3>8
  <2> QED BY <2>2, <2>3
<1>3. CASE SettleResult
  <2>1. /\ pos = "waiting"
        /\ UNCHANGED <<cmd, generation, nextID, awaited, channels, exited, unanswered, lines, pumps>>
        /\ cmd \in {0, generation} /\ cmd # 0
        /\ Fail \/ Proceed("asking") \/ LetGo(TRUE)
    BY <1>0, <1>3 DEF SettleResult, ProcessCounted
  <2>2. pos' \in {"stopping", "none", "asking"} /\ MutexHeld'
    <3>1. CASE Fail
      BY <2>1, <3>1, FailLeaves
    <3>2. CASE Proceed("asking")
      BY <2>1, <3>2, ProceedHolds
    <3>3. CASE LetGo(TRUE)
      BY <3>3 DEF LetGo, MutexHeld
    <3> QED BY <2>1, <3>1, <3>2, <3>3
  <2>3. /\ nextID' \in nextID..MaxIds /\ cmd' \in 0..MaxProcesses
        /\ awaited' \subseteq Ids /\ channels' \in [Ids -> {NoReply, StreamBroken} \cup Processes]
        /\ exited \subseteq exited' /\ exited' \subseteq Processes
    BY <1>0, <2>1
  <2> QED BY <2>1, <2>2, <2>3, CallerMoves
<1>4. CASE Expire \/ GiveUp
  <2>1. /\ pos \in {"waiting", "leaving"}
        /\ UNCHANGED <<cmd, generation, nextID, channels, exited, unanswered, lines, pumps>>
        /\ cmd \in {0, generation} /\ cmd # 0 /\ awaited' \subseteq awaited
        /\ Fail \/ Proceed("leaving") \/ Proceed("stopping")
    BY <1>0, <1>4 DEF Expire, GiveUp, ProcessCounted
  <2>2. pos' \in {"stopping", "none", "leaving"} /\ MutexHeld'
    <3>1. CASE Fail
      BY <2>1, <3>1, FailLeaves
    <3>2. CASE Proceed("leaving") \/ Proceed("stopping")
      BY <2>1, <3>2, ProceedHolds
    <3> QED BY <2>1, <3>1, <3>2
  <2>3. /\ nextID' \in nextID..MaxIds /\ cmd' \in 0..MaxProcesses
        /\ awaited' \subseteq Ids /\ channels' \in [Ids -> {NoReply, StreamBroken} \cup Processes]
        /\ exited \subseteq exited' /\ exited' \subseteq Processes
    BY <1>0, <2>1
  <2> QED BY <2>1, <2>2, <2>3, CallerMoves
<1> QED BY <1>1, <1>2, <1>3, <1>4

(* The child process answers, or dies.                                      *)
LEMMA AnswerStep ==
    ASSUME McpAssumption, AnswersInv, NEW p \in Processes, Answer(p) \/ Die(p)
    PROVE  AnswersInv'
<1> USE DEF AnswersInv
<1>0. UNCHANGED <<mutex, pos, cmd, generation, nextID, awaited, channels, pumps>>
  BY DEF Answer, Die, callVars
<1>1. CASE Answer(p)
  <2>1. PICK i \in unanswered[p] :
          /\ unanswered' = [unanswered EXCEPT ![p] = @ \ {i}]
          /\ lines' = [lines EXCEPT ![p] = Append(@, i)]
    BY <1>1 DEF Answer
  <2>2. /\ unanswered \in [Processes -> SUBSET Ids] /\ lines \in [Processes -> Seq(Ids)]
        /\ i \in Ids /\ UNCHANGED exited
    BY <1>1 DEF ClientTyped, Answer
  <2>3. /\ unanswered' \in [Processes -> SUBSET Ids]
        /\ \A q \in Processes : unanswered'[q] \subseteq unanswered[q]
    BY <2>1, <2>2
  <2>4. /\ lines' \in [Processes -> Seq(Ids)] /\ lines'[p] = Append(lines[p], i)
        /\ \A q \in Processes \ {p} : lines'[q] = lines[q]
    BY <2>1, <2>2
  <2>5. ClientTyped'
    BY <1>0, <2>2, <2>3, <2>4 DEF ClientTyped
  <2>6. MutexHeld' /\ ProcessCounted' /\ ChannelRight' /\ PumpsRight'
    BY <1>0, <2>2 DEF MutexHeld, ProcessCounted, ChannelRight, PumpsRight
  <2>7. ASSUME NEW q \in Processes, NEW n \in 1..Len(lines'[q]) PROVE Elsewhere(lines'[q][n], q)
    <3>1. CASE q # p
      BY <2>4, <3>1 DEF IdsPlaced
    <3>2. CASE q = p
      <4>1. lines[p] \in Seq(Ids)
        BY <2>2
      <4>2. Len(lines'[p]) = Len(lines[p]) + 1
        BY <2>4, <4>1
      <4>3. CASE n = Len(lines[p]) + 1
        <5>1. lines'[q][n] = i
          BY <2>4, <3>2, <4>1, <4>3
        <5>2. Elsewhere(i, p)
          BY <2>1 DEF IdsPlaced
        <5> QED BY <3>2, <5>1, <5>2
      <4>4. CASE n # Len(lines[p]) + 1
        <5>1. n \in 1..Len(lines[p]) /\ lines'[q][n] = lines[p][n]
          BY <2>4, <3>2, <4>1, <4>2, <4>4
        <5>2. Elsewhere(lines[p][n], p)
          BY <5>1 DEF IdsPlaced
        <5> QED BY <3>2, <5>1, <5>2
      <4> QED BY <4>3, <4>4
    <3> QED BY <3>1, <3>2
  <2>8. /\ \A q \in Processes : \A j \in unanswered'[q] : Elsewhere(j, q)
        /\ \A g \in Generations :
             pumps[g].at \in {"sorting", "sending"} => Elsewhere(pumps[g].id, pumps[g].src)
    BY <2>3 DEF IdsPlaced
  <2>9. IdsPlaced'
    BY <1>0, <2>7, <2>8 DEF IdsPlaced, Elsewhere
  <2> QED BY <2>5, <2>6, <2>9
<1>2. CASE Die(p)
  <2>1. exited' = exited \cup {p} /\ UNCHANGED <<unanswered, lines>>
    BY <1>2 DEF Die
  <2>2. ClientTyped'
    BY <1>0, <2>1 DEF ClientTyped
  <2>3. MutexHeld' /\ ProcessCounted'
    BY <1>0, <2>1 DEF MutexHeld, ProcessCounted
  <2>4. IdsPlaced'
    BY <1>0, <2>1 DEF IdsPlaced, Elsewhere
  <2>5. ChannelRight' /\ PumpsRight'
    BY <1>0, <2>1 DEF ChannelRight, PumpsRight
  <2> QED BY <2>2, <2>3, <2>4, <2>5
<1> QED BY <1>1, <1>2

(* What a pump is after a step that only moves it.                          *)
LEMMA PumpMoved ==
    ASSUME ClientTyped, NEW g \in Generations, NEW where \in PumpPlaces, PumpTo(g, where)
    PROVE  /\ pumps' \in [Generations -> [at : PumpPlaces, src : 0..MaxProcesses, id : 0..MaxIds]]
           /\ pumps'[g].at = where /\ pumps'[g].src = pumps[g].src /\ pumps'[g].id = pumps[g].id
           /\ \A h \in Generations \ {g} : pumps'[h] = pumps[h]
  BY DEF ClientTyped, PumpTo

(* A step of a pump that changes nothing but the pump, what is awaited and  *)
(* the channel of another id, or that of the present one rightly.           *)
LEMMA PumpChanges ==
    ASSUME McpAssumption, AnswersInv, NEW g \in Generations,
           UNCHANGED <<mutex, pos, cmd, generation, nextID, exited, unanswered>>,
           ClientTyped', ChannelRight',
           \A q \in Processes : \A n \in 1..Len(lines'[q]) : Elsewhere(lines'[q][n], q),
           \A h \in Generations \ {g} : pumps'[h] = pumps[h],
           pumps'[g].at \in {"reading", "sorting", "sending", "eof"} =>
             /\ pumps'[g].src # 0
             /\ g = generation /\ pos # "numbering" => pumps'[g].src = g,
           pumps'[g].at = "eof" => pumps'[g].src \in exited,
           pumps'[g].at \in {"sorting", "sending"} => Elsewhere(pumps'[g].id, pumps'[g].src)
    PROVE  AnswersInv'
<1> USE DEF AnswersInv
<1>1. MutexHeld' /\ ProcessCounted'
  BY DEF MutexHeld, ProcessCounted
<1>2. /\ \A q \in Processes : \A i \in unanswered'[q] : Elsewhere(i, q)
      /\ \A h \in Generations :
           pumps'[h].at \in {"sorting", "sending"} => Elsewhere(pumps'[h].id, pumps'[h].src)
  BY DEF IdsPlaced
<1>3. IdsPlaced'
  BY <1>2 DEF IdsPlaced, Elsewhere
<1>4. PumpsRight'
  BY DEF PumpsRight
<1> QED BY <1>1, <1>3, <1>4

LEMMA ReadingStep ==
    ASSUME McpAssumption, AnswersInv, NEW g \in Generations,
           TurnToOutput(g) \/ ReadLine(g) \/ ReadEnd(g)
    PROVE  AnswersInv'
<1> USE DEF AnswersInv
<1>0. /\ UNCHANGED <<mutex, pos, cmd, generation, nextID, awaited, channels, exited, unanswered>>
      /\ cmd \in 0..MaxProcesses /\ lines \in [Processes -> Seq(Ids)] /\ pumps[g].src \in 0..MaxProcesses
      /\ pumps \in [Generations -> [at : PumpPlaces, src : 0..MaxProcesses, id : 0..MaxIds]]
      /\ \A q \in Processes : \A n \in 1..Len(lines[q]) : Elsewhere(lines[q][n], q)
  <2>1. UNCHANGED <<mutex, pos, cmd, generation, nextID, awaited, channels, exited, unanswered>>
    BY DEF TurnToOutput, ReadLine, ReadEnd, callVars
  <2> QED BY <2>1 DEF ClientTyped, IdsPlaced
<1>1. ChannelRight'
  BY <1>0 DEF ChannelRight
<1>2. CASE TurnToOutput(g)
  <2>1. UNCHANGED lines
    BY <1>2 DEF TurnToOutput
  <2>2. CASE cmd = 0
    <3>1. UNCHANGED pumps
      BY <1>2, <2>2 DEF TurnToOutput
    <3> QED BY <1>0, <2>1, <3>1
          DEF ClientTyped, MutexHeld, ProcessCounted, IdsPlaced, Elsewhere, ChannelRight, PumpsRight
  <2>3. CASE cmd # 0
    <3>1. pumps' = [pumps EXCEPT ![g] = [at |-> "reading", src |-> cmd, id |-> 0]]
      BY <1>2, <2>3 DEF TurnToOutput
    <3>2. [at |-> "reading", src |-> cmd, id |-> 0]
             \in [at : PumpPlaces, src : 0..MaxProcesses, id : 0..MaxIds]
      BY <1>0 DEF PumpPlaces, McpAssumption
    <3>3. /\ pumps' \in [Generations -> [at : PumpPlaces, src : 0..MaxProcesses, id : 0..MaxIds]]
          /\ pumps'[g].at = "reading" /\ pumps'[g].src = cmd
          /\ \A h \in Generations \ {g} : pumps'[h] = pumps[h]
      BY <1>0, <3>1, <3>2
    <3>4. ClientTyped'
      BY <1>0, <2>1, <3>3 DEF ClientTyped
    <3>5. g = generation /\ pos # "numbering" => cmd = g
      BY <2>3 DEF ProcessCounted
    <3> QED BY <1>0, <1>1, <2>1, <2>3, <3>3, <3>4, <3>5, PumpChanges
  <2> QED BY <2>2, <2>3
<1>3. CASE ReadLine(g)
  <2> DEFINE p == pumps[g].src
  <2>1. /\ pumps[g].at = "reading" /\ lines[p] # <<>>
        /\ lines' = [lines EXCEPT ![p] = Tail(lines[p])]
        /\ \/ pumps' = [pumps EXCEPT ![g].at = "sorting", ![g].id = Head(lines[p])]
           \/ PumpTo(g, "turn")
    BY <1>3 DEF ReadLine
  <2>2. p \in Processes /\ (g = generation /\ pos # "numbering" => p = g)
    BY <1>0, <2>1, McpAssumption DEF PumpsRight, Processes
  <2>3. lines[p] \in Seq(Ids) /\ Len(lines[p]) \in Nat \ {0}
    BY <1>0, <2>1, <2>2
  <2>4. /\ Head(lines[p]) \in Ids /\ Head(lines[p]) = lines[p][1] /\ Elsewhere(lines[p][1], p)
        /\ Tail(lines[p]) \in Seq(Ids) /\ Len(Tail(lines[p])) = Len(lines[p]) - 1
        /\ \A n \in 1..Len(Tail(lines[p])) : Tail(lines[p])[n] = lines[p][n + 1]
    <3>1. 1 \in 1..Len(lines[p])
      BY <2>3
    <3>2. Elsewhere(lines[p][1], p)
      BY <1>0, <2>2, <3>1
    <3> QED BY <2>1, <2>3, <3>2
  <2> HIDE DEF p
  <2>5. /\ lines' \in [Processes -> Seq(Ids)] /\ lines'[p] = Tail(lines[p])
        /\ \A q \in Processes \ {p} : lines'[q] = lines[q]
    BY <1>0, <2>1, <2>2, <2>4
  <2>6. ASSUME NEW q \in Processes, NEW n \in 1..Len(lines'[q]) PROVE Elsewhere(lines'[q][n], q)
    <3>1. CASE q # p
      BY <1>0, <2>5, <3>1
    <3>2. CASE q = p
      <4>1. n + 1 \in 1..Len(lines[p]) /\ lines'[q][n] = lines[p][n + 1]
        <5>1. lines'[q] = Tail(lines[p])
          BY <2>5, <3>2
        <5>2. n \in 1..Len(Tail(lines[p]))
          BY <5>1
        <5>3. Tail(lines[p])[n] = lines[p][n + 1]
          BY <2>4, <5>2
        <5>4. Len(Tail(lines[p])) = Len(lines[p]) - 1 /\ Len(lines[p]) \in Nat
          BY <2>3, <2>4
        <5>5. n + 1 \in 1..Len(lines[p])
          BY <5>2, <5>4
        <5> QED BY <5>1, <5>3, <5>5
      <4>2. Elsewhere(lines[p][n + 1], p)
        BY <1>0, <2>2, <4>1
      <4> QED BY <3>2, <4>1, <4>2
    <3> QED BY <3>1, <3>2
  <2>7. /\ pumps' \in [Generations -> [at : PumpPlaces, src : 0..MaxProcesses, id : 0..MaxIds]]
        /\ pumps'[g].src = p
        /\ pumps'[g].at = "turn" \/ (pumps'[g].at = "sorting" /\ pumps'[g].id = lines[p][1])
        /\ \A h \in Generations \ {g} : pumps'[h] = pumps[h]
    <3>1. CASE pumps' = [pumps EXCEPT ![g].at = "sorting", ![g].id = Head(lines[p])]
      <4>1. Head(lines[p]) \in 0..MaxIds /\ "sorting" \in PumpPlaces /\ p = pumps[g].src
        BY <2>4 DEF Ids, PumpPlaces, p
      <4>2. PICK id : id = Head(lines[p])
        OBVIOUS
      <4>3. PICK a : a = [pumps EXCEPT ![g].at = "sorting"]
        OBVIOUS
      <4>4. /\ a \in [Generations -> [at : PumpPlaces, src : 0..MaxProcesses, id : 0..MaxIds]]
            /\ a[g].at = "sorting" /\ a[g].src = p /\ \A h \in Generations \ {g} : a[h] = pumps[h]
        BY <1>0, <4>1, <4>3
      <4>5. pumps' = [a EXCEPT ![g].id = id]
        BY <3>1, <4>2, <4>3
      <4>6. id \in 0..MaxIds /\ id = lines[p][1]
        BY <4>1, <4>2, <2>4
      <4> QED BY ONLY <4>4, <4>5, <4>6, g \in Generations
    <3>2. CASE PumpTo(g, "turn")
      <4>1. "turn" \in PumpPlaces /\ p = pumps[g].src
        BY DEF PumpPlaces, p
      <4> QED BY <3>2, <4>1, PumpMoved
    <3> QED BY <2>1, <3>1, <3>2
  <2>8. ClientTyped'
    BY <1>0, <2>5, <2>7 DEF ClientTyped
  <2>9. p # 0
    BY <2>2 DEF Processes
  <2>10. pumps'[g].at \in {"sorting", "sending"} => Elsewhere(pumps'[g].id, pumps'[g].src)
    BY <2>4, <2>7
  <2>11. /\ pumps'[g].at \in {"reading", "sorting", "sending", "eof"} =>
             /\ pumps'[g].src # 0
             /\ g = generation /\ pos # "numbering" => pumps'[g].src = g
         /\ pumps'[g].at = "eof" => pumps'[g].src \in exited
    BY <2>2, <2>7, <2>9
  <2> QED BY <1>0, <1>1, <2>6, <2>7, <2>8, <2>10, <2>11, PumpChanges
<1>4. CASE ReadEnd(g)
  <2>1. /\ pumps[g].at = "reading" /\ pumps[g].src \in exited /\ PumpTo(g, "eof")
        /\ UNCHANGED lines /\ "eof" \in PumpPlaces
    BY <1>4 DEF ReadEnd, PumpPlaces
  <2>2. /\ pumps' \in [Generations -> [at : PumpPlaces, src : 0..MaxProcesses, id : 0..MaxIds]]
        /\ pumps'[g].at = "eof" /\ pumps'[g].src = pumps[g].src
        /\ \A h \in Generations \ {g} : pumps'[h] = pumps[h]
    BY <2>1, PumpMoved
  <2>3. ClientTyped'
    BY <1>0, <2>1, <2>2 DEF ClientTyped
  <2>4. pumps[g].src # 0 /\ (g = generation /\ pos # "numbering" => pumps[g].src = g)
    BY <2>1 DEF PumpsRight
  <2> QED BY <1>0, <1>1, <2>1, <2>2, <2>3, <2>4, PumpChanges
<1> QED BY <1>2, <1>3, <1>4

LEMMA DeliveryStep ==
    ASSUME McpAssumption, AnswersInv, NEW g \in Generations,
           Sort(g) \/ SendReply(g) \/ PumpBroken(g)
    PROVE  AnswersInv'
<1> USE DEF AnswersInv
<1>0. /\ UNCHANGED <<mutex, pos, cmd, generation, nextID, exited, unanswered, lines>>
      /\ awaited \subseteq Ids /\ channels \in [Ids -> {NoReply, StreamBroken} \cup Processes]
      /\ pumps[g].src \in 0..MaxProcesses
      /\ \A q \in Processes : \A n \in 1..Len(lines[q]) : Elsewhere(lines[q][n], q)
  <2>1. UNCHANGED <<mutex, pos, cmd, generation, nextID, exited, unanswered, lines>>
    BY DEF Sort, SendReply, PumpBroken, callVars
  <2> QED BY <2>1 DEF ClientTyped, IdsPlaced
<1>1. CASE Sort(g)
  <2>1. PICK where \in {"sending", "turn"} : PumpTo(g, where)
    BY <1>1 DEF Sort
  <2>2. /\ pumps[g].at = "sorting" /\ awaited' \subseteq awaited /\ UNCHANGED channels
        /\ where \in PumpPlaces
    BY <1>1 DEF Sort, PumpPlaces
  <2>3. /\ pumps' \in [Generations -> [at : PumpPlaces, src : 0..MaxProcesses, id : 0..MaxIds]]
        /\ pumps'[g].at = where /\ pumps'[g].src = pumps[g].src /\ pumps'[g].id = pumps[g].id
        /\ \A h \in Generations \ {g} : pumps'[h] = pumps[h]
    BY <2>1, <2>2, PumpMoved
  <2>4. ClientTyped' /\ ChannelRight'
    BY <1>0, <2>2, <2>3 DEF ClientTyped, ChannelRight
  <2>5. /\ pumps[g].src # 0 /\ (g = generation /\ pos # "numbering" => pumps[g].src = g)
        /\ Elsewhere(pumps[g].id, pumps[g].src)
    BY <2>2 DEF PumpsRight, IdsPlaced
  <2>6. pumps'[g].at # "eof"
    BY <2>1, <2>3
  <2> QED BY <1>0, <2>3, <2>4, <2>5, <2>6, PumpChanges
<1>2. CASE SendReply(g)
  <2>1. /\ pumps[g].at = "sending" /\ PumpTo(g, "turn") /\ UNCHANGED awaited
        /\ channels' = [channels EXCEPT ![pumps[g].id] = pumps[g].src]
        /\ "turn" \in PumpPlaces
    BY <1>2 DEF SendReply, PumpPlaces
  <2>2. /\ pumps' \in [Generations -> [at : PumpPlaces, src : 0..MaxProcesses, id : 0..MaxIds]]
        /\ pumps'[g].at = "turn"
        /\ \A h \in Generations \ {g} : pumps'[h] = pumps[h]
    BY <2>1, PumpMoved
  <2>3. pumps[g].src \in Processes /\ Elsewhere(pumps[g].id, pumps[g].src)
    BY <1>0, <2>1 DEF PumpsRight, IdsPlaced, Processes, McpAssumption
  <2>4. /\ channels' \in [Ids -> {NoReply, StreamBroken} \cup Processes]
        /\ \A i \in Ids : channels'[i] = IF i = pumps[g].id THEN pumps[g].src ELSE channels[i]
    BY <1>0, <2>1, <2>3
  <2>5. ClientTyped'
    BY <1>0, <2>1, <2>2, <2>4 DEF ClientTyped
  <2>6. nextID # 0 => nextID \in Ids
    BY DEF ClientTyped, Ids
  <2>7. pumps[g].src # StreamBroken
    BY <2>3 DEF Processes, StreamBroken
  <2>8. ASSUME pos \in {"writing", "waiting"}, pumps[g].id = nextID
        PROVE  pos = "waiting" /\ pumps[g].src = cmd
    BY <2>3, <2>8 DEF Elsewhere
  <2>9. ChannelRight'
    <3> SUFFICES ASSUME pos \in {"writing", "waiting"}
                 PROVE  /\ nextID # 0
                        /\ channels'[nextID] \in {NoReply, StreamBroken}
                              \cup (IF pos = "waiting" THEN {cmd} ELSE {})
                        /\ channels'[nextID] = StreamBroken => cmd \in exited
      BY <1>0 DEF ChannelRight
    <3>1. nextID \in Ids
      BY <2>6 DEF ChannelRight
    <3>2. CASE pumps[g].id = nextID
      BY <2>4, <2>6, <2>7, <2>8, <3>1, <3>2 DEF Ids
    <3>3. CASE pumps[g].id # nextID
      BY <2>4, <3>1, <3>3 DEF ChannelRight
    <3> QED BY <3>2, <3>3
  <2> QED BY <1>0, <2>2, <2>5, <2>9, PumpChanges
<1>3. CASE PumpBroken(g)
  <2>1. /\ pumps[g].at = "eof" /\ PumpTo(g, "ended") /\ "ended" \in PumpPlaces
        /\ IF g = generation THEN BreakAwaited ELSE UNCHANGED <<awaited, channels>>
    BY <1>3 DEF PumpBroken, PumpPlaces
  <2>2. /\ pumps' \in [Generations -> [at : PumpPlaces, src : 0..MaxProcesses, id : 0..MaxIds]]
        /\ pumps'[g].at = "ended"
        /\ \A h \in Generations \ {g} : pumps'[h] = pumps[h]
    BY <2>1, PumpMoved
  <2>3. awaited' \subseteq Ids /\ channels' \in [Ids -> {NoReply, StreamBroken} \cup Processes]
    BY <1>0, <2>1, Broken
  <2>4. ClientTyped'
    BY <1>0, <2>2, <2>3 DEF ClientTyped
  <2>5. ChannelRight'
    <3>1. CASE g # generation
      BY <1>0, <2>1, <3>1 DEF ChannelRight
    <3>2. CASE g = generation
      <4>1. ASSUME pos \in {"writing", "waiting"} PROVE cmd \in exited
        BY <2>1, <3>2, <4>1 DEF PumpsRight, ProcessCounted
      <4>2. \A i \in Ids : channels'[i] \in {channels[i], StreamBroken}
        BY <2>1, <3>2 DEF BreakAwaited
      <4>3. pos \in {"writing", "waiting"} => nextID \in Ids
        BY DEF ChannelRight, ClientTyped, Ids
      <4> QED BY <1>0, <4>1, <4>2, <4>3 DEF ChannelRight
    <3> QED BY <3>1, <3>2
  <2> QED BY <1>0, <2>2, <2>4, <2>5, PumpChanges
<1> QED BY <1>1, <1>2, <1>3

LEMMA AnswersHold == McpSpec => []AnswersInv
<1> USE McpAssumption
<1>1. McpInit => AnswersInv
  <2> SUFFICES ASSUME McpInit PROVE AnswersInv
    OBVIOUS
  <2>1. ClientTyped
    <3>1. /\ cmd = 0 /\ generation = 0 /\ nextID = 0 /\ awaited = {} /\ exited = {}
          /\ channels \in [Ids -> {NoReply, StreamBroken} \cup Processes]
          /\ unanswered \in [Processes -> SUBSET Ids]
      BY DEF McpInit
    <3>2. lines \in [Processes -> Seq(Ids)]
      BY DEF McpInit
    <3>3. pumps \in [Generations -> [at : PumpPlaces, src : 0..MaxProcesses, id : 0..MaxIds]]
      <4>1. NoPump \in [at : PumpPlaces, src : 0..MaxProcesses, id : 0..MaxIds]
        BY DEF NoPump, PumpPlaces, McpAssumption
      <4> QED BY <4>1 DEF McpInit
    <3> QED BY <3>1, <3>2, <3>3 DEF ClientTyped, McpAssumption
  <2>2. MutexHeld /\ ProcessCounted /\ ChannelRight
    BY DEF McpInit, MutexHeld, ProcessCounted, ChannelRight
  <2>3. IdsPlaced
    BY DEF McpInit, IdsPlaced, NoPump
  <2>4. PumpsRight
    BY DEF McpInit, PumpsRight, NoPump
  <2> QED BY <2>1, <2>2, <2>3, <2>4 DEF AnswersInv
<1>2. AnswersInv /\ [McpNext]_mcpVars => AnswersInv'
  <2>1. ASSUME AnswersInv, UNCHANGED mcpVars PROVE AnswersInv'
    BY <2>1 DEF mcpVars, AnswersInv, ClientTyped, MutexHeld, ProcessCounted, IdsPlaced, Elsewhere,
         ChannelRight, PumpsRight
  <2>2. ASSUME AnswersInv, McpNext PROVE AnswersInv'
    <3>1. ASSUME NEW g \in Generations, Pump(g) PROVE AnswersInv'
      BY <2>2, <3>1, ReadingStep, DeliveryStep DEF Pump
    <3>2. \/ \E c \in Callers : Take(c) \/ Lock(c)
          \/ KillProcess \/ ClearProcess \/ Spawn \/ StartPump
          \/ Register \/ WriteRequest \/ SettleResult \/ Expire \/ GiveUp
          \/ \E p \in Processes : Answer(p) \/ Die(p)
          \/ \E g \in Generations : Pump(g)
      BY <2>2 DEF McpNext
    <3> QED BY <2>2, <3>1, <3>2, ManagerStep, ProcessStep, RequestStep, AnswerStep
  <2> QED BY <2>1, <2>2
<1> QED BY <1>1, <1>2, PTL DEF McpSpec

(* What a request gets comes from the process it was sent to, or is the     *)
(* error of its stream after that process has died (module McpClient).      *)
THEOREM AnswerIsOwnAlways == McpSpec => []AnswerIsOwn
<1>1. AnswersInv => AnswerIsOwn
  BY DEF AnswersInv, ChannelRight, AnswerIsOwn, ownId
<1> QED BY <1>1, AnswersHold, PTL

-----------------------------------------------------------------------------
(* Bundles: what was there before (module Bundles)                         *)

JobPlaces == {"none", "rolling", "row", "clearing", "applying", "recording"}
JobRow == [at : JobPlaces, name : BundleNames \cup {NoBundle}, todo : SUBSET Resources, back : SUBSET Entry,
           then : {"row", "end"}, entry : SUBSET Entry]

BundleShape ==
    /\ registry \in [Resources -> RowState] /\ own \in [Resources -> RowState]
    /\ bundles \in [BundleNames -> {"none", "installed", "deleted"}]
    /\ lists \subseteq Entry /\ texts \in 0..MaxTexts /\ job \in JobRow

(* Where a request is. *)
JobPlaced ==
    /\ IF job.at = "none" THEN job = NoJob ELSE job.name \in BundleNames
    /\ job.at \in {"rolling", "clearing", "applying", "recording"} => Installed(job.name)
    /\ job.at = "row" => ~Installed(job.name)
    /\ job.back \subseteq ListOf(job.name) /\ (job.at # "rolling" => job.back = {})
    /\ IF job.at = "recording"
       THEN \E e \in Entry : job.entry = {e} /\ e.id = texts /\ e.bundle = job.name /\ \A d \in lists : d.id < texts
       ELSE job.entry = {}

(* Entries have ids of their own, and their bundle was installed once. *)
EntriesNumbered ==
    /\ \A d, e \in lists : d.id = e.id => d = e
    /\ \A e \in lists : e.id <= texts /\ bundles[e.bundle] # "none"

BundleBase == BundleShape /\ JobPlaced /\ EntriesNumbered

(* What is to be undone one day: the list of a bundle that is revived is   *)
(* the one of its last installation.                                       *)
Counts(e) == e \in lists /\ Installed(e.bundle) /\ ~(job.at = "clearing" /\ e.bundle = job.name)
Untouched(r) == \A e \in lists : Counts(e) => e.resource # r
Same(r, row) == Shown(row) = Shown(own[r])

(* A bundle has one entry for a resource; what the first entry found is    *)
(* what the user made, and so is what no bundle has.                       *)
OneEach ==
    \A d, e \in lists : Counts(d) /\ Counts(e) /\ d.bundle = e.bundle /\ d.resource = e.resource => d = e
FirstFound ==
    \A e \in lists : Counts(e) =>
        Same(e.resource, e.was) \/ \E d \in lists : Counts(d) /\ d.resource = e.resource /\ d.id < e.id
BareOwn ==
    \A r \in Resources : Untouched(r) =>
        IF \E e \in job.entry : e.resource = r
        THEN \A e \in job.entry : Same(r, e.was) ELSE Same(r, registry[r])

(* Nothing lies over the bundle at work; what was applied is not applied   *)
(* again; what was rolled back is as it was.                               *)
AtWork ==
    /\ job.at \in {"rolling", "applying", "recording"} => ~Overwritten(job.name)
    /\ job.at \in {"applying", "recording"} =>
         \A e \in ListOf(job.name) \cup job.entry : e.resource \notin job.todo
    /\ \A d \in ListOf(job.name), e \in job.entry : d.resource # e.resource
    /\ job.at = "rolling" =>
         \A e \in ListOf(job.name) \ job.back : Shown(registry[e.resource]) = Shown(e.was)

Returning == OneEach /\ FirstFound /\ BareOwn /\ AtWork

BundleInv == BundleBase /\ (spoilt = {} => Returning)

LEMMA EntryFields ==
    \A e \in Entry : /\ e.id \in 1..MaxTexts /\ e.bundle \in BundleNames /\ e.resource \in Resources
                     /\ e.was \in RowState
BY DEF Entry

LEMMA Idle ==
    /\ NoJob \in JobRow /\ NoJob.at = "none" /\ NoJob.back = {} /\ NoJob.entry = {} /\ NoJob.todo = {}
    /\ NoJob.name = NoBundle
BY DEF NoJob, JobRow, JobPlaces

LEMMA IdlePlaced == ASSUME job' = NoJob PROVE JobPlaced'
BY Idle DEF JobPlaced

(* What a step makes of the request. *)
LEMMA JobMoves ==
    ASSUME job \in JobRow
    PROVE  /\ \A at \in JobPlaces :
                LET j == [job EXCEPT !.at = at]
                IN  /\ j \in JobRow /\ j.at = at /\ j.name = job.name /\ j.todo = job.todo /\ j.back = job.back
                    /\ j.entry = job.entry
           /\ \A S \in SUBSET Entry :
                LET j == [job EXCEPT !.back = S]
                IN  /\ j \in JobRow /\ j.at = job.at /\ j.name = job.name /\ j.todo = job.todo /\ j.back = S
                    /\ j.entry = job.entry
BY DEF JobRow

LEMMA BaseInit == BundleInit => BundleBase
<1> SUFFICES ASSUME BundleInit PROVE BundleBase
  OBVIOUS
<1>1. BundleShape
  <2>1. 1 \in 0..MaxTexts
    BY BundleAssumption DEF BundleInit
  <2>2. Absent \in RowState /\ [live |-> TRUE, text |-> 1, readOnly |-> FALSE] \in RowState
    BY <2>1, BundleAssumption DEF Absent, RowState
  <2> QED BY <2>1, <2>2, Idle DEF BundleInit, BundleShape
<1>2. JobPlaced
  BY Idle DEF BundleInit, JobPlaced
<1>3. EntriesNumbered
  BY DEF BundleInit, EntriesNumbered
<1> QED BY <1>1, <1>2, <1>3 DEF BundleBase

(* The steps that end the request, or go on with it and change nothing but *)
(* a row of a registry.                                                    *)
LEMMA BaseEnds ==
    ASSUME BundleBase, job' = NoJob, registry' \in [Resources -> RowState], UNCHANGED <<lists, own, texts>>,
           bundles' = bundles \/ \E b \in BundleNames : bundles' = [bundles EXCEPT ![b] = "deleted"]
    PROVE  BundleBase'
<1>1. BundleShape /\ EntriesNumbered
  BY DEF BundleBase
<1>2. bundles' \in [BundleNames -> {"none", "installed", "deleted"}] /\ \A c \in BundleNames : bundles[c] # "none" => bundles'[c] # "none"
  BY <1>1 DEF BundleShape
<1>3. BundleShape'
  BY <1>1, <1>2, Idle DEF BundleShape
<1>4. EntriesNumbered'
  BY <1>1, <1>2, EntryFields DEF BundleShape, EntriesNumbered
<1> QED BY <1>3, <1>4, IdlePlaced DEF BundleBase

LEMMA RestoredRow ==
    ASSUME BundleShape, NEW e \in Entry
    PROVE  Restored(e) \in RowState /\ Shown(Restored(e)) = Shown(e.was)
<1>1. registry[e.resource] \in RowState /\ e.was \in RowState
  BY EntryFields DEF BundleShape
<1>2. CASE e.was = Absent
  <2>1. PICK row \in RowState : row = registry[e.resource]
    BY <1>1
  <2>2. Restored(e) = [row EXCEPT !.live = FALSE]
    BY <1>2, <2>1 DEF Restored
  <2>3. [row EXCEPT !.live = FALSE] \in RowState /\ [row EXCEPT !.live = FALSE].live = FALSE
    BY DEF RowState
  <2>4. e.was.live = FALSE
    BY <1>2 DEF Absent
  <2> QED BY <2>2, <2>3, <2>4 DEF Shown
<1>3. CASE e.was # Absent
  <2>1. PICK row \in RowState, was \in RowState : row = registry[e.resource] /\ was = e.was
    BY <1>1
  <2>2. Restored(e) = [was EXCEPT !.readOnly = row.readOnly]
    BY <1>3, <2>1 DEF Restored
  <2>3. /\ [was EXCEPT !.readOnly = row.readOnly] \in RowState
        /\ [was EXCEPT !.readOnly = row.readOnly].live = was.live /\ [was EXCEPT !.readOnly = row.readOnly].text = was.text
    BY DEF RowState
  <2> QED BY <2>1, <2>2, <2>3 DEF Shown
<1> QED BY <1>2, <1>3

LEMMA BaseStep == BundleBase /\ [BundleNext]_bundleVars => BundleBase'
<1> SUFFICES ASSUME BundleBase, [BundleNext]_bundleVars PROVE BundleBase'
  OBVIOUS
<1>1. BundleShape /\ JobPlaced /\ EntriesNumbered /\ job \in JobRow /\ texts \in 0..MaxTexts /\ MaxTexts \in Nat
  BY BundleAssumption DEF BundleBase, BundleShape
<1>2. ASSUME NEW r \in Resources, Edit(r) PROVE BundleBase'
  <2>1. job' = NoJob /\ UNCHANGED <<bundles, lists>> /\ texts' = texts + 1 /\ texts + 1 \in 0..MaxTexts
    BY <1>1, <1>2 DEF Edit
  <2>2. registry' \in [Resources -> RowState] /\ registry'[r] \in RowState
    <3>1. PICK row : row \in RowState /\ registry' = [registry EXCEPT ![r] = row]
      <4>1. PICK live \in BOOLEAN, readOnly \in BOOLEAN :
              registry' = [registry EXCEPT ![r] = [live |-> live, text |-> texts + 1, readOnly |-> readOnly /\ r \in Agents]]
        BY <1>2 DEF Edit
      <4>2. [live |-> live, text |-> texts + 1, readOnly |-> readOnly /\ r \in Agents] \in RowState
        BY <2>1 DEF RowState
      <4> QED BY <4>1, <4>2
    <3> QED BY <1>1, <3>1 DEF BundleShape
  <2>3. own' \in [Resources -> RowState]
    BY <1>1, <1>2, <2>2 DEF Edit, BundleShape
  <2>4. BundleShape'
    BY <1>1, <2>1, <2>2, <2>3, Idle DEF BundleShape
  <2>5. EntriesNumbered'
    BY <1>1, <2>1, EntryFields DEF EntriesNumbered, BundleShape
  <2> QED BY <2>1, <2>4, <2>5, IdlePlaced DEF BundleBase
<1>3. ASSUME UNCHANGED <<registry, bundles, lists, own, texts>>, job' \in JobRow, JobPlaced' PROVE BundleBase'
  BY <1>1, <1>3 DEF BundleBase, BundleShape, EntriesNumbered
<1>4. ASSUME NEW b \in BundleNames, Install(b) PROVE BundleBase'
  <2>1. PICK todo \in SUBSET Resources \ {{}} :
          job' = [ NoJob EXCEPT !.name = b, !.todo = todo, !.then = "row",
                     !.at = IF Installed(b) THEN "rolling" ELSE "row",
                     !.back = IF Installed(b) THEN ListOf(b) ELSE {} ]
    BY <1>4 DEF Install
  <2>2. ListOf(b) \subseteq Entry
    BY <1>1 DEF ListOf, BundleShape
  <2>3. /\ job' \in JobRow /\ job'.name = b /\ job'.entry = {}
        /\ job'.at = IF Installed(b) THEN "rolling" ELSE "row"
        /\ job'.back = IF Installed(b) THEN ListOf(b) ELSE {}
    BY <2>1, <2>2 DEF NoJob, JobRow, JobPlaces
  <2>4. UNCHANGED <<registry, bundles, lists, own, texts>>
    BY <1>4 DEF Install, Begin
  <2>5. JobPlaced'
    BY <2>3, <2>4 DEF JobPlaced, Installed, ListOf
  <2> QED BY <1>3, <2>3, <2>4, <2>5
<1>5. ASSUME NEW b \in BundleNames, Uninstall(b) PROVE BundleBase'
  <2>1. ListOf(b) \subseteq Entry
    BY <1>1 DEF ListOf, BundleShape
  <2>2. job' = [NoJob EXCEPT !.name = b, !.at = "rolling", !.back = ListOf(b)] /\ Installed(b)
    BY <1>5 DEF Uninstall
  <2>3. job' \in JobRow /\ job'.name = b /\ job'.entry = {} /\ job'.at = "rolling" /\ job'.back = ListOf(b)
    BY <2>1, <2>2 DEF NoJob, JobRow, JobPlaces
  <2>4. UNCHANGED <<registry, bundles, lists, own, texts>>
    BY <1>5 DEF Uninstall, Begin
  <2>5. JobPlaced'
    BY <2>2, <2>3, <2>4 DEF JobPlaced, Installed, ListOf
  <2> QED BY <1>3, <2>3, <2>4, <2>5
<1>6. CASE RollBack
  <2>1. PICK e \in job.back :
          /\ registry' = [registry EXCEPT ![e.resource] = Restored(e)]
          /\ job' = [job EXCEPT !.back = job.back \ {e}] \/ job' = NoJob
    BY <1>6 DEF RollBack, Over
  <2>2. UNCHANGED <<bundles, lists, own, texts>> /\ job.at = "rolling"
    BY <1>6 DEF RollBack
  <2>3. e \in Entry /\ Restored(e) \in RowState
    BY <1>1, RestoredRow DEF JobRow
  <2>4. registry' \in [Resources -> RowState]
    BY <1>1, <2>1, <2>3 DEF BundleShape
  <2>5. CASE job' = NoJob
    BY <2>2, <2>4, <2>5, BaseEnds
  <2>6. CASE job' = [job EXCEPT !.back = job.back \ {e}]
    <3>1. job.back \ {e} \in SUBSET Entry
      BY <1>1 DEF JobRow
    <3>2. /\ job' \in JobRow /\ job'.at = job.at /\ job'.name = job.name /\ job'.back = job.back \ {e}
          /\ job'.entry = job.entry
      BY <1>1, <2>6, <3>1, JobMoves
    <3>3. JobPlaced'
      BY <1>1, <2>2, <3>2 DEF JobPlaced, Installed, ListOf
    <3> QED BY <1>1, <2>2, <2>4, <3>2, <3>3 DEF BundleBase, BundleShape, EntriesNumbered
  <2> QED BY <2>1, <2>5, <2>6
<1>7. CASE RolledBack
  <2>1. /\ bundles' = [bundles EXCEPT ![job.name] = "deleted"] /\ job.name \in BundleNames
        /\ UNCHANGED <<registry, lists, own, texts>> /\ job.at = "rolling" /\ job.back = {}
    BY <1>1, <1>7 DEF RolledBack, JobPlaced
  <2>2. CASE job' = NoJob
    BY <1>1, <2>1, <2>2, BaseEnds DEF BundleShape
  <2>3. CASE job' = [job EXCEPT !.at = "row"]
    <3>1. job' \in JobRow /\ job'.at = "row" /\ job'.name = job.name /\ job'.back = {} /\ job'.entry = job.entry
      BY <1>1, <2>1, <2>3, JobMoves DEF JobPlaces
    <3>2. bundles' \in [BundleNames -> {"none", "installed", "deleted"}] /\ bundles'[job.name] = "deleted"
          /\ \A c \in BundleNames : bundles[c] # "none" => bundles'[c] # "none"
      BY <1>1, <2>1 DEF BundleShape
    <3>3. JobPlaced'
      BY <1>1, <2>1, <3>1, <3>2 DEF JobPlaced, Installed, ListOf
    <3>4. EntriesNumbered'
      BY <1>1, <2>1, <3>2, EntryFields DEF EntriesNumbered, BundleShape
    <3> QED BY <1>1, <2>1, <3>1, <3>2, <3>3, <3>4 DEF BundleBase, BundleShape
  <2> QED BY <1>7, <2>2, <2>3 DEF RolledBack, Over
<1>8. CASE WriteRow
  <2>1. /\ bundles' = [bundles EXCEPT ![job.name] = "installed"] /\ job.name \in BundleNames
        /\ UNCHANGED <<registry, lists, own, texts>> /\ job.at = "row"
        /\ \E at \in {"clearing", "applying"} : job' = [job EXCEPT !.at = at]
    BY <1>1, <1>8 DEF WriteRow, JobPlaced
  <2>2. /\ job' \in JobRow /\ job'.at \in {"clearing", "applying"} /\ job'.name = job.name /\ job'.back = job.back
        /\ job'.entry = job.entry
    <3>1. PICK at \in {"clearing", "applying"} : job' = [job EXCEPT !.at = at]
      BY <2>1
    <3>2. at \in JobPlaces
      BY DEF JobPlaces
    <3> QED BY <1>1, <3>1, <3>2, JobMoves
  <2>3. bundles' \in [BundleNames -> {"none", "installed", "deleted"}] /\ bundles'[job.name] = "installed"
        /\ \A c \in BundleNames : bundles[c] # "none" => bundles'[c] # "none"
    BY <1>1, <2>1 DEF BundleShape
  <2>4. JobPlaced'
    BY <1>1, <2>1, <2>2, <2>3 DEF JobPlaced, Installed, ListOf
  <2>5. EntriesNumbered'
    BY <1>1, <2>1, <2>3, EntryFields DEF EntriesNumbered, BundleShape
  <2> QED BY <1>1, <2>1, <2>2, <2>3, <2>4, <2>5 DEF BundleBase, BundleShape
<1>9. CASE ClearList
  <2>1. /\ lists' \subseteq lists /\ UNCHANGED <<registry, bundles, own, texts>> /\ job.at = "clearing"
        /\ job' = [job EXCEPT !.at = "applying"]
    BY <1>9 DEF ClearList, ListsWithout
  <2>2. job' \in JobRow /\ job'.at = "applying" /\ job'.name = job.name /\ job'.back = job.back /\ job'.entry = job.entry
    BY <1>1, <2>1, JobMoves DEF JobPlaces
  <2>3. JobPlaced'
    BY <1>1, <2>1, <2>2 DEF JobPlaced, Installed, ListOf
  <2>4. EntriesNumbered'
    BY <1>1, <2>1 DEF EntriesNumbered
  <2> QED BY <1>1, <2>1, <2>2, <2>3, <2>4 DEF BundleBase, BundleShape
<1>10. CASE Apply
  <2>1. job.at = "applying" /\ texts < MaxTexts /\ texts' = texts + 1 /\ UNCHANGED <<bundles, lists, own>>
    BY <1>10 DEF Apply
  <2>a. PICK r \in FirstKind(job.todo) :
          /\ registry' = [registry EXCEPT ![r] = [live |-> TRUE, text |-> texts + 1, readOnly |-> FALSE]]
          /\ job' = [job EXCEPT !.at = "recording", !.todo = job.todo \ {r},
                       !.entry = {[id |-> texts + 1, bundle |-> job.name, resource |-> r,
                                   was |-> IF r \in Skills /\ ~registry[r].live THEN Absent ELSE registry[r]]}]
    BY <1>10 DEF Apply
  <2>b. PICK e : e = [id |-> texts + 1, bundle |-> job.name, resource |-> r,
                      was |-> IF r \in Skills /\ ~registry[r].live THEN Absent ELSE registry[r]]
    OBVIOUS
  <2>2. /\ registry' = [registry EXCEPT ![r] = [live |-> TRUE, text |-> texts + 1, readOnly |-> FALSE]]
        /\ job' = [job EXCEPT !.at = "recording", !.todo = job.todo \ {r}, !.entry = {e}]
        /\ e = [id |-> texts + 1, bundle |-> job.name, resource |-> r,
                was |-> IF r \in Skills /\ ~registry[r].live THEN Absent ELSE registry[r]]
    BY ONLY <2>a, <2>b
  <2>3. r \in Resources /\ job.name \in BundleNames /\ texts + 1 \in 1..MaxTexts
    BY <1>1, <2>1, <2>2 DEF FirstKind, JobRow, JobPlaced
  <2>4. e \in Entry /\ e.id = texts + 1 /\ e.bundle = job.name
    <3>1. Absent \in RowState /\ registry[r] \in RowState
      BY <1>1, <2>3 DEF Absent, RowState, BundleShape
    <3> QED BY <2>2, <2>3, <3>1 DEF Entry
  <2>5. job' \in JobRow /\ job'.at = "recording" /\ job'.name = job.name /\ job'.back = job.back /\ job'.entry = {e}
    BY <1>1, <2>2, <2>4 DEF JobRow, JobPlaces
  <2>6. registry' \in [Resources -> RowState]
    <3>1. [live |-> TRUE, text |-> texts + 1, readOnly |-> FALSE] \in RowState
      BY <2>3 DEF RowState
    <3> QED BY <1>1, <2>2, <2>3, <3>1 DEF BundleShape
  <2>7. JobPlaced'
    <3>1. \A d \in lists : d.id < texts'
      BY <1>1, <2>1, EntryFields DEF EntriesNumbered, BundleShape
    <3>2. \E d \in Entry : job'.entry = {d} /\ d.id = texts' /\ d.bundle = job'.name /\ \A c \in lists' : c.id < texts'
      BY <2>1, <2>4, <2>5, <3>1
    <3> QED BY <1>1, <2>1, <2>3, <2>5, <3>2 DEF JobPlaced, Installed, ListOf
  <2>8. EntriesNumbered'
    BY <1>1, <2>1, EntryFields DEF EntriesNumbered, BundleShape
  <2> QED BY <1>1, <2>1, <2>3, <2>5, <2>6, <2>7, <2>8 DEF BundleBase, BundleShape
<1>11. CASE Record
  <2>1. /\ job.at = "recording" /\ lists' = lists \cup job.entry /\ job' = [job EXCEPT !.at = "applying", !.entry = {}]
        /\ UNCHANGED <<registry, bundles, own, texts>>
    BY <1>11 DEF Record
  <2>2. PICK e \in Entry : job.entry = {e} /\ e.id = texts /\ e.bundle = job.name /\ \A d \in lists : d.id < texts
    BY <1>1, <2>1 DEF JobPlaced
  <2>3. job' \in JobRow /\ job'.at = "applying" /\ job'.name = job.name /\ job'.back = job.back /\ job'.entry = {}
    BY <1>1, <2>1 DEF JobRow, JobPlaces
  <2>4. JobPlaced'
    BY <1>1, <2>1, <2>3 DEF JobPlaced, Installed, ListOf
  <2>5. EntriesNumbered'
    <3>1. bundles[e.bundle] # "none"
      BY <1>1, <2>1, <2>2 DEF JobPlaced, Installed
    <3>2. \A d \in lists' : d = e \/ d \in lists
      BY <2>1, <2>2
    <3>3. \A d \in lists : d.id \in Nat /\ d.id # e.id
      BY <1>1, <2>2, EntryFields DEF BundleShape
    <3> QED BY <1>1, <2>1, <2>2, <3>1, <3>2, <3>3 DEF EntriesNumbered
  <2> QED BY <1>1, <2>1, <2>2, <2>3, <2>4, <2>5 DEF BundleBase, BundleShape
<1>12. CASE Complete \/ Stop
  <2>1. job' = NoJob /\ UNCHANGED <<registry, bundles, lists, own, texts>>
    BY <1>12 DEF Complete, Stop, Setback, Over
  <2> QED BY <1>1, <2>1, BaseEnds DEF BundleShape
<1>13. CASE ApplyFails
  <2>1. /\ job.at \in {"applying", "recording"} /\ UNCHANGED <<registry, bundles, lists, own, texts>>
        /\ job' = [NoJob EXCEPT !.name = job.name, !.at = "rolling", !.back = ListOf(job.name)]
    BY <1>13 DEF ApplyFails, Setback, CleanUp
  <2>2. ListOf(job.name) \subseteq Entry /\ job.name \in BundleNames /\ Installed(job.name)
    BY <1>1, <2>1 DEF ListOf, BundleShape, JobPlaced
  <2>3. job' \in JobRow /\ job'.name = job.name /\ job'.entry = {} /\ job'.at = "rolling" /\ job'.back = ListOf(job.name)
    BY <2>1, <2>2 DEF NoJob, JobRow, JobPlaces
  <2>4. JobPlaced'
    BY <2>1, <2>2, <2>3 DEF JobPlaced, Installed, ListOf
  <2> QED BY <1>3, <2>1, <2>3, <2>4
<1>14. CASE UNCHANGED bundleVars
  BY <1>1, <1>14 DEF bundleVars, BundleBase, BundleShape, JobPlaced, EntriesNumbered, Installed, ListOf
<1> QED BY <1>2, <1>4, <1>5, <1>6, <1>7, <1>8, <1>9, <1>10, <1>11, <1>12, <1>13, <1>14 DEF BundleNext

(* A step that changes neither the lists nor what counts in them. *)
LEMMA CountsKept ==
    ASSUME UNCHANGED <<lists, own>>, \A e \in lists : Counts(e)' <=> Counts(e), OneEach, FirstFound
    PROVE  OneEach' /\ FirstFound' /\ \A r \in Resources : Untouched(r)' <=> Untouched(r)
BY DEF OneEach, FirstFound, Untouched, Same

LEMMA CountsWhere ==
    ASSUME job.at # "clearing"
    PROVE  \A e : Counts(e) <=> e \in lists /\ Installed(e.bundle)
BY DEF Counts

(* A request that ends, or one that begins, at a place where nothing is    *)
(* applied but not recorded.                                               *)
LEMMA OwnKept ==
    ASSUME BundleBase, Returning, UNCHANGED <<registry, own, lists, bundles>>, job' \in JobRow,
           job.at \notin {"clearing", "recording"}, job'.at \notin {"clearing", "recording"}, job'.entry = {}
    PROVE  OneEach' /\ FirstFound' /\ BareOwn'
<1>1. \A e \in lists : Counts(e)' <=> Counts(e)
  BY DEF Counts, Installed
<1>2. OneEach' /\ FirstFound' /\ \A r \in Resources : Untouched(r)' <=> Untouched(r)
  BY <1>1, CountsKept DEF Returning
<1>3. job.entry = {}
  BY DEF BundleBase, JobPlaced
<1> QED BY <1>2, <1>3 DEF Returning, BareOwn, Same

LEMMA IdleAtWork == ASSUME job'.at \in {"none", "row", "clearing"}, job'.entry = {} PROVE AtWork'
BY DEF AtWork

LEMMA OwnEdit ==
    ASSUME BundleBase, Returning, NEW r \in Resources, Edit(r) PROVE Returning'
<1>1. /\ job = NoJob /\ job' = job /\ UNCHANGED <<bundles, lists>> /\ job.at = "none" /\ job.entry = {}
      /\ own' = [own EXCEPT ![r] = registry'[r]] /\ ~Listed(r)
  BY Idle DEF Edit
<1>2. own'[r] = registry'[r] /\ \A q \in Resources \ {r} : own'[q] = own[q] /\ registry'[q] = registry[q]
  BY <1>1 DEF Edit, BundleBase, BundleShape
<1>3. \A e \in lists : (Counts(e)' <=> Counts(e)) /\ (Counts(e) => e.resource \in Resources \ {r})
  BY <1>1, EntryFields DEF Counts, Installed, Listed, BundleBase, BundleShape
<1>4. OneEach' /\ FirstFound'
  BY <1>1, <1>2, <1>3 DEF Returning, OneEach, FirstFound, Same
<1>5. BareOwn'
  <2>1. \A q \in Resources : Untouched(q)' => Untouched(q)
    BY <1>1, <1>3 DEF Untouched
  <2> QED BY <1>1, <1>2, <2>1 DEF Returning, BareOwn, Same
<1>6. AtWork'
  BY <1>1, IdleAtWork
<1> QED BY <1>4, <1>5, <1>6 DEF Returning

LEMMA OwnBegins ==
    ASSUME BundleBase, Returning, NEW b \in BundleNames, Install(b) \/ Uninstall(b), spoilt' = {} PROVE Returning'
<1>1. job.at = "none" /\ UNCHANGED <<registry, bundles, lists, own>>
  BY Idle DEF Install, Uninstall, Begin
<1>2. /\ job' \in JobRow /\ job'.name = b /\ job'.entry = {}
      /\ \/ job'.at = "rolling" /\ Installed(b) /\ job'.back = ListOf(b)
         \/ job'.at = "row"
  <2>1. ListOf(b) \subseteq Entry
    BY DEF ListOf, BundleBase, BundleShape
  <2>2. CASE Install(b)
    <3>1. PICK todo \in SUBSET Resources \ {{}} :
            job' = [ NoJob EXCEPT !.name = b, !.todo = todo, !.then = "row",
                       !.at = IF Installed(b) THEN "rolling" ELSE "row",
                       !.back = IF Installed(b) THEN ListOf(b) ELSE {} ]
      BY <2>2 DEF Install
    <3> QED BY <2>1, <3>1 DEF NoJob, JobRow, JobPlaces
  <2>3. CASE Uninstall(b)
    BY <2>1, <2>3 DEF Uninstall, NoJob, JobRow, JobPlaces
  <2> QED BY <2>2, <2>3
<1>3. OneEach' /\ FirstFound' /\ BareOwn'
  BY <1>1, <1>2, OwnKept
<1>4. AtWork'
  <2>1. CASE job'.at = "row"
    BY <1>2, <2>1, IdleAtWork
  <2>2. CASE job'.at = "rolling"
    <3>1. ~Overwritten(b)
      BY <1>2, <2>2 DEF Install, Uninstall, Begin
    <3>2. Overwritten(b)' <=> Overwritten(b)
      BY <1>1 DEF Overwritten, Installed
    <3>3. ListOf(b)' \ job'.back = {}
      BY <1>1, <1>2, <2>2 DEF ListOf
    <3> QED BY <1>2, <2>2, <3>1, <3>2, <3>3 DEF AtWork
  <2> QED BY <1>2, <2>1, <2>2
<1> QED BY <1>3, <1>4 DEF Returning

LEMMA OwnRolls == ASSUME BundleBase, Returning, RollBack PROVE Returning'
<1>1. PICK e \in job.back :
        /\ registry' = [registry EXCEPT ![e.resource] = Restored(e)]
        /\ job' = [job EXCEPT !.back = job.back \ {e}] \/ job' = NoJob
  BY DEF RollBack, Over
<1>2. UNCHANGED <<bundles, lists, own>> /\ job.at = "rolling" /\ job.entry = {}
  BY DEF RollBack, BundleBase, JobPlaced
<1>3. e \in Entry /\ e \in ListOf(job.name) /\ e \in lists /\ e.bundle = job.name /\ Installed(job.name) /\ e.resource \in Resources
  BY <1>1, <1>2, EntryFields DEF BundleBase, BundleShape, JobPlaced, JobRow, ListOf
<1>4. /\ registry'[e.resource] = Restored(e) /\ Shown(Restored(e)) = Shown(e.was)
      /\ \A q \in Resources \ {e.resource} : registry'[q] = registry[q]
  BY <1>1, <1>3, RestoredRow DEF BundleBase, BundleShape
<1>5. job'.at \in {"none", "rolling"} /\ job'.entry = {}
      /\ (job'.at = "rolling" => job'.name = job.name /\ job'.back = job.back \ {e})
  <2>1. CASE job' = NoJob
    BY <2>1, Idle
  <2>2. CASE job' = [job EXCEPT !.back = job.back \ {e}]
    <3>1. job \in JobRow /\ job.back \ {e} \in SUBSET Entry
      BY DEF BundleBase, BundleShape, JobRow
    <3> QED BY <1>2, <2>2, <3>1, JobMoves
  <2> QED BY <1>1, <2>1, <2>2
<1>6. (\A d \in lists : Counts(d)' <=> Counts(d)) /\ Counts(e) /\ \A d \in ListOf(job.name) : d \in lists /\ Counts(d) /\ d.bundle = job.name
  BY <1>2, <1>3, <1>5 DEF Counts, Installed, ListOf
<1>7. OneEach' /\ FirstFound' /\ \A r \in Resources : Untouched(r)' <=> Untouched(r)
  BY <1>2, <1>6, CountsKept DEF Returning
<1>8. BareOwn'
  <2>1. \A r \in Resources : Untouched(r) => r # e.resource
    BY <1>3, <1>6 DEF Untouched
  <2> QED BY <1>2, <1>4, <1>5, <1>7, <2>1 DEF Returning, BareOwn, Same
<1>9. AtWork'
  <2>1. CASE job'.at = "none"
    BY <1>5, <2>1, IdleAtWork
  <2>2. CASE job'.at = "rolling"
    <3>1. ~Overwritten(job.name)'
      BY <1>2, <1>5, <2>2 DEF Returning, AtWork, Overwritten, Installed
    <3>2. ASSUME NEW d \in ListOf(job.name)' \ job'.back PROVE Shown(registry'[d.resource]) = Shown(d.was)
      <4>1. d \in ListOf(job.name) /\ (d = e \/ d \notin job.back)
        BY <1>2, <1>5, <2>2 DEF ListOf
      <4>2. CASE d = e
        BY <1>4, <4>2
      <4>3. CASE d # e
        <5>1. d.resource # e.resource /\ d.resource \in Resources
          BY <1>3, <1>6, <4>1, <4>3, EntryFields DEF Returning, OneEach, BundleBase, BundleShape
        <5> QED BY <1>2, <1>4, <4>1, <4>3, <5>1 DEF Returning, AtWork
      <4> QED BY <4>2, <4>3
    <3> QED BY <1>5, <2>2, <3>1, <3>2 DEF AtWork
  <2> QED BY <1>5, <2>1, <2>2
<1> QED BY <1>7, <1>8, <1>9 DEF Returning

LEMMA OwnRolledBack == ASSUME BundleBase, Returning, RolledBack PROVE Returning'
<1>1. /\ bundles' = [bundles EXCEPT ![job.name] = "deleted"] /\ job.name \in BundleNames /\ Installed(job.name)
      /\ UNCHANGED <<registry, lists, own>> /\ job.at = "rolling" /\ job.back = {} /\ job.entry = {}
  BY DEF RolledBack, BundleBase, JobPlaced
<1>2. job'.at \in {"none", "row"} /\ job'.entry = {}
  <2>1. CASE job' = NoJob
    BY <2>1, Idle
  <2>2. CASE job' = [job EXCEPT !.at = "row"]
    BY <1>1, <2>2, JobMoves DEF JobPlaces, BundleBase, BundleShape
  <2> QED BY <2>1, <2>2 DEF RolledBack, Over
<1>3. \A c \in BundleNames : Installed(c)' <=> Installed(c) /\ c # job.name
  BY <1>1 DEF Installed, BundleBase, BundleShape
<1>4. \A e \in lists : /\ e.bundle \in BundleNames /\ e.resource \in Resources
                       /\ (Counts(e) <=> Installed(e.bundle)) /\ (Counts(e)' <=> Counts(e) /\ e.bundle # job.name)
  BY <1>1, <1>2, <1>3, EntryFields DEF Counts, BundleBase, BundleShape
<1>5. \A e \in lists : e.bundle = job.name => Counts(e) /\ Shown(registry[e.resource]) = Shown(e.was)
  BY <1>1, <1>4 DEF Returning, AtWork, ListOf
<1>6. \A d, e \in lists : d.bundle = job.name /\ Counts(e)' /\ d.resource = e.resource => ~(d.id < e.id)
  BY <1>1, <1>4 DEF Returning, AtWork, Overwritten
<1>7. OneEach'
  BY <1>1, <1>4 DEF Returning, OneEach
<1>8. FirstFound'
  <2> SUFFICES ASSUME NEW e \in lists, Counts(e)', ~Same(e.resource, e.was)
               PROVE  \E d \in lists : Counts(d)' /\ d.resource = e.resource /\ d.id < e.id
    BY <1>1 DEF FirstFound, Same
  <2>1. PICK d \in lists : Counts(d) /\ d.resource = e.resource /\ d.id < e.id
    BY <1>4 DEF Returning, FirstFound
  <2> QED BY <1>4, <1>6, <2>1
<1>9. BareOwn'
  <2> SUFFICES ASSUME NEW r \in Resources, Untouched(r)' PROVE Same(r, registry[r])
    BY <1>1, <1>2 DEF BareOwn, Same
  <2>1. CASE Untouched(r)
    BY <1>1, <2>1 DEF Returning, BareOwn
  <2>2. CASE ~Untouched(r)
    <3>1. PICK e \in lists : Counts(e) /\ e.resource = r
      BY <2>2 DEF Untouched
    <3>2. \A d \in lists : Counts(d) /\ d.resource = r => d.bundle = job.name
      BY <1>1, <1>4 DEF Untouched
    <3>3. \A d \in lists : Counts(d) /\ d.resource = r => d = e
      BY <3>1, <3>2 DEF Returning, OneEach
    <3>4. e.id \in Nat
      BY <3>1, EntryFields DEF BundleBase, BundleShape
    <3>5. Same(r, e.was)
      BY <3>1, <3>3, <3>4 DEF Returning, FirstFound
    <3> QED BY <1>5, <3>1, <3>2, <3>5 DEF Same
  <2> QED BY <2>1, <2>2
<1>10. AtWork'
  BY <1>2, IdleAtWork
<1> QED BY <1>7, <1>8, <1>9, <1>10 DEF Returning

LEMMA OwnRevived == ASSUME BundleBase, Returning, WriteRow PROVE Returning'
<1>1. /\ bundles' = [bundles EXCEPT ![job.name] = "installed"] /\ job.name \in BundleNames /\ ~Installed(job.name)
      /\ UNCHANGED <<registry, lists, own>> /\ job.at = "row" /\ job.entry = {} /\ job \in JobRow
      /\ job' = [job EXCEPT !.at = IF bundles[job.name] = "deleted" THEN "clearing" ELSE "applying"]
  BY DEF WriteRow, BundleBase, BundleShape, JobPlaced
<1>2. /\ job'.name = job.name /\ job'.entry = {}
      /\ job'.at = IF bundles[job.name] = "deleted" THEN "clearing" ELSE "applying"
  BY <1>1, JobMoves DEF JobPlaces
<1>3. \A c \in BundleNames : Installed(c)' <=> Installed(c) \/ c = job.name
  BY <1>1 DEF Installed, BundleBase, BundleShape
<1>4. job'.at = "applying" => \A e \in lists : e.bundle # job.name
  <2>1. job'.at = "applying" => bundles[job.name] = "none"
    BY <1>1, <1>2 DEF Installed, BundleBase, BundleShape
  <2> QED BY <2>1 DEF BundleBase, EntriesNumbered
<1>5. \A e \in lists : Counts(e)' <=> Counts(e)
  <2>1. \A e \in lists : e.bundle \in BundleNames
    BY EntryFields DEF BundleBase, BundleShape
  <2>2. job'.at \in {"clearing", "applying"}
    BY <1>2
  <2> QED BY <1>1, <1>2, <1>3, <1>4, <2>1, <2>2 DEF Counts
<1>6. OneEach' /\ FirstFound' /\ \A r \in Resources : Untouched(r)' <=> Untouched(r)
  BY <1>1, <1>5, CountsKept DEF Returning
<1>7. BareOwn'
  BY <1>1, <1>2, <1>6 DEF Returning, BareOwn, Same
<1>8. AtWork'
  <2>1. CASE job'.at = "clearing"
    BY <1>2, <2>1, IdleAtWork
  <2>2. CASE job'.at = "applying"
    <3>1. ListOf(job.name)' = {} /\ ~Overwritten(job.name)'
      BY <1>1, <1>2, <1>4, <2>2 DEF ListOf, Overwritten
    <3> QED BY <1>2, <2>2, <3>1 DEF AtWork
  <2> QED BY <1>2, <2>1, <2>2
<1> QED BY <1>6, <1>7, <1>8 DEF Returning

LEMMA OwnCleared == ASSUME BundleBase, Returning, ClearList PROVE Returning'
<1>1. /\ lists' = ListsWithout(job.name) /\ UNCHANGED <<registry, bundles, own>> /\ job.at = "clearing"
      /\ job' = [job EXCEPT !.at = "applying"] /\ job.entry = {} /\ job \in JobRow
  BY DEF ClearList, BundleBase, BundleShape, JobPlaced
<1>2. job'.at = "applying" /\ job'.name = job.name /\ job'.entry = {}
  BY <1>1, JobMoves DEF JobPlaces
<1>3. \A e : /\ e \in lists' <=> e \in lists /\ e.bundle # job.name
             /\ Counts(e) => e \in lists'
             /\ e \in lists' => (Counts(e)' <=> Counts(e))
  BY <1>1, <1>2 DEF ListsWithout, Counts, Installed
<1>4. OneEach'
  BY <1>3 DEF Returning, OneEach
<1>5. FirstFound'
  BY <1>1, <1>3 DEF Returning, FirstFound, Same
<1>6. BareOwn'
  <2>1. \A r \in Resources : Untouched(r)' => Untouched(r)
    BY <1>3 DEF Untouched
  <2> QED BY <1>1, <1>2, <2>1 DEF Returning, BareOwn, Same
<1>7. AtWork'
  <2>1. ListOf(job.name)' = {} /\ ~Overwritten(job.name)'
    BY <1>2, <1>3 DEF ListOf, Overwritten
  <2> QED BY <1>2, <2>1 DEF AtWork
<1> QED BY <1>4, <1>5, <1>6, <1>7 DEF Returning

LEMMA OwnApplied == ASSUME BundleBase, Returning, Apply PROVE Returning'
<1>1. job.at = "applying" /\ UNCHANGED <<bundles, lists, own>> /\ job.entry = {} /\ job \in JobRow
  BY DEF Apply, BundleBase, BundleShape, JobPlaced
<1>a. PICK r \in FirstKind(job.todo) :
        /\ registry' = [registry EXCEPT ![r] = [live |-> TRUE, text |-> texts + 1, readOnly |-> FALSE]]
        /\ job' = [job EXCEPT !.at = "recording", !.todo = job.todo \ {r},
                     !.entry = {[id |-> texts + 1, bundle |-> job.name, resource |-> r,
                                 was |-> IF r \in Skills /\ ~registry[r].live THEN Absent ELSE registry[r]]}]
  BY DEF Apply
<1>b. PICK e : e = [id |-> texts + 1, bundle |-> job.name, resource |-> r,
                    was |-> IF r \in Skills /\ ~registry[r].live THEN Absent ELSE registry[r]]
  OBVIOUS
<1>2. job' = [job EXCEPT !.at = "recording", !.todo = job.todo \ {r}, !.entry = {e}]
  BY ONLY <1>a, <1>b
<1>3. /\ job'.at = "recording" /\ job'.name = job.name /\ job'.entry = {e} /\ job'.todo = job.todo \ {r}
      /\ e.resource = r /\ r \in job.todo /\ r \in Resources
  BY <1>1, <1>2, <1>b DEF FirstKind, JobRow
<1>4. Shown(e.was) = Shown(registry[r])
  BY <1>b DEF Shown, Absent
<1>5. \A q \in Resources \ {r} : registry'[q] = registry[q]
  BY <1>a DEF BundleBase, BundleShape
<1>6. \A d \in lists : Counts(d)' <=> Counts(d)
  BY <1>1, <1>3 DEF Counts, Installed
<1>7. OneEach' /\ FirstFound' /\ \A q \in Resources : Untouched(q)' <=> Untouched(q)
  BY <1>1, <1>6, CountsKept DEF Returning
<1>8. BareOwn'
  <2> SUFFICES ASSUME NEW q \in Resources, Untouched(q)
               PROVE  IF q = r THEN Same(r, e.was)' ELSE Same(q, registry[q])'
    BY <1>3, <1>7 DEF BareOwn
  <2>1. Same(q, registry[q])
    BY <1>1 DEF Returning, BareOwn
  <2> QED BY <1>1, <1>4, <1>5, <2>1 DEF Same
<1>9. AtWork'
  <2>1. ListOf(job.name)' = ListOf(job.name) /\ ~Overwritten(job.name)'
    BY <1>1, <1>3 DEF ListOf, Overwritten, Installed, Returning, AtWork
  <2>2. \A d \in ListOf(job.name) : d.resource \notin job.todo
    BY <1>1 DEF Returning, AtWork
  <2> QED BY <1>3, <2>1, <2>2 DEF AtWork
<1> QED BY <1>7, <1>8, <1>9 DEF Returning

LEMMA OwnRecorded == ASSUME BundleBase, Returning, Record PROVE Returning'
<1>1. /\ job.at = "recording" /\ lists' = lists \cup job.entry /\ job' = [job EXCEPT !.at = "applying", !.entry = {}]
      /\ UNCHANGED <<registry, bundles, own>> /\ job \in JobRow /\ Installed(job.name)
  BY DEF Record, BundleBase, BundleShape, JobPlaced
<1>2. PICK e \in Entry : job.entry = {e} /\ e.id = texts /\ e.bundle = job.name /\ \A d \in lists : d.id < texts
  BY <1>1 DEF BundleBase, JobPlaced
<1>3. job'.at = "applying" /\ job'.name = job.name /\ job'.entry = {} /\ job'.todo = job.todo
  BY <1>1 DEF JobRow
<1>4. /\ lists' = lists \cup {e} /\ (\A d \in lists : (Counts(d)' <=> Counts(d)) /\ d.id < e.id) /\ Counts(e)'
      /\ \A d \in lists : d.id \in Nat
  BY <1>1, <1>2, <1>3, EntryFields DEF Counts, Installed, BundleBase, BundleShape
<1>5. \A d \in lists : d.bundle = e.bundle => d.resource # e.resource
  BY <1>1, <1>2 DEF Returning, AtWork, ListOf
<1>6. OneEach'
  BY <1>4, <1>5 DEF Returning, OneEach
<1>7. FirstFound'
  <2>1. ASSUME NEW d \in lists, Counts(d)'
        PROVE  Same(d.resource, d.was)' \/ \E c \in lists' : Counts(c)' /\ c.resource = d.resource /\ c.id < d.id
    BY <1>1, <1>4, <2>1 DEF Returning, FirstFound, Same
  <2>2. Same(e.resource, e.was)' \/ \E c \in lists' : Counts(c)' /\ c.resource = e.resource /\ c.id < e.id
    <3>1. CASE Untouched(e.resource)
      <4>1. Same(e.resource, e.was)
        BY <1>2, <3>1, EntryFields DEF Returning, BareOwn
      <4> QED BY <1>1, <4>1 DEF Same
    <3>2. CASE ~Untouched(e.resource)
      BY <1>4, <3>2 DEF Untouched
    <3> QED BY <3>1, <3>2
  <2> QED BY <1>4, <2>1, <2>2 DEF FirstFound
<1>8. BareOwn'
  <2> SUFFICES ASSUME NEW r \in Resources, Untouched(r)' PROVE Same(r, registry[r])
    BY <1>1, <1>3 DEF BareOwn, Same
  <2>1. Untouched(r) /\ r # e.resource
    BY <1>4 DEF Untouched
  <2> QED BY <1>2, <2>1 DEF Returning, BareOwn
<1>9. AtWork'
  <2>1. ListOf(job.name)' = ListOf(job.name) \cup {e}
    BY <1>2, <1>3, <1>4 DEF ListOf
  <2>2. ~Overwritten(job.name)'
    <3>1. ASSUME NEW c \in lists', NEW d \in lists', c.id < d.id, c.resource = d.resource, c.bundle = job.name,
                 d.bundle # job.name, Installed(d.bundle)
          PROVE  FALSE
      <4>1. d \in lists
        <5>1. d # e
          BY <1>2, <3>1
        <5> QED BY <1>4, <3>1, <5>1
      <4>2. c \in lists
        <5>1. d.id < e.id /\ d.id \in Nat /\ e.id \in Nat
          BY <1>4, <4>1, EntryFields
        <5>2. c # e
          BY <3>1, <5>1
        <5> QED BY <1>4, <3>1, <5>2
      <4> QED BY <1>1, <3>1, <4>1, <4>2 DEF Returning, AtWork, Overwritten
    <3> QED BY <1>1, <1>3, <3>1 DEF Overwritten, Installed
  <2>3. \A d \in ListOf(job.name) \cup {e} : d.resource \notin job.todo
    BY <1>1, <1>2 DEF Returning, AtWork
  <2> QED BY <1>3, <2>1, <2>2, <2>3 DEF AtWork
<1> QED BY <1>6, <1>7, <1>8, <1>9 DEF Returning

LEMMA OwnEnds == ASSUME BundleBase, Returning, Complete \/ Stop \/ ApplyFails, spoilt' = {} PROVE Returning'
<1>1. job.at \notin {"clearing", "recording"}
  BY DEF Complete, Stop, ApplyFails, Setback
<1>2. UNCHANGED <<registry, bundles, lists, own>>
  BY DEF Complete, Stop, ApplyFails, Setback
<1>3. CASE job' = NoJob
  <2>1. OneEach' /\ FirstFound' /\ BareOwn'
    BY <1>1, <1>2, <1>3, Idle, OwnKept
  <2> QED BY <1>3, <2>1, Idle, IdleAtWork DEF Returning
<1>4. CASE ApplyFails
  <2>1. ListOf(job.name) \subseteq Entry /\ job.name \in BundleNames \cup {NoBundle} /\ job.at = "applying"
    BY <1>1, <1>4 DEF ListOf, BundleBase, BundleShape, JobRow, ApplyFails
  <2>2. job' \in JobRow /\ job'.name = job.name /\ job'.entry = {} /\ job'.at = "rolling" /\ job'.back = ListOf(job.name)
    BY <1>4, <2>1 DEF ApplyFails, CleanUp, NoJob, JobRow, JobPlaces
  <2>3. OneEach' /\ FirstFound' /\ BareOwn'
    BY <1>1, <1>2, <2>2, OwnKept
  <2>4. AtWork'
    <3>1. ~Overwritten(job.name)'
      BY <1>2, <2>1, <2>2 DEF Returning, AtWork, Overwritten, Installed
    <3>2. ListOf(job.name)' \ job'.back = {}
      BY <1>2, <2>2 DEF ListOf
    <3> QED BY <2>2, <3>1, <3>2 DEF AtWork
  <2> QED BY <2>3, <2>4 DEF Returning
<1> QED BY <1>3, <1>4 DEF Complete, Stop, Over

LEMMA BundleInvStep == BundleInv /\ [BundleNext]_bundleVars => BundleInv'
<1> SUFFICES ASSUME BundleInv, [BundleNext]_bundleVars PROVE BundleInv'
  OBVIOUS
<1>1. BundleBase /\ BundleBase'
  BY BaseStep DEF BundleInv
<1>2. ASSUME spoilt' = {} PROVE Returning'
  <2>1. spoilt = {}
    BY <1>2 DEF BundleNext, Edit, Install, Uninstall, Begin, RollBack, RolledBack, WriteRow, ClearList, Apply,
                Record, Complete, Stop, ApplyFails, Setback, bundleVars
  <2>2. Returning
    BY <2>1 DEF BundleInv
  <2>3. CASE UNCHANGED bundleVars
    BY <2>2, <2>3 DEF bundleVars, Returning, OneEach, FirstFound, BareOwn, AtWork, Counts, Untouched, Same, Installed,
                      Overwritten, ListOf
  <2>4. CASE BundleNext
    BY <1>1, <1>2, <2>2, <2>4, OwnEdit, OwnBegins, OwnRolls, OwnRolledBack, OwnRevived, OwnCleared, OwnApplied,
       OwnRecorded, OwnEnds DEF BundleNext
  <2> QED BY <2>3, <2>4
<1> QED BY <1>1, <1>2 DEF BundleInv

LEMMA BundleInvInit == BundleInit => BundleInv
<1> SUFFICES ASSUME BundleInit PROVE BundleInv
  OBVIOUS
<1>1. lists = {} /\ own = registry /\ job.at = "none" /\ job.entry = {}
  BY Idle DEF BundleInit
<1>2. OneEach /\ FirstFound /\ BareOwn
  BY <1>1 DEF OneEach, FirstFound, BareOwn, Same
<1>3. AtWork
  BY <1>1 DEF AtWork
<1> QED BY <1>2, <1>3, BaseInit DEF BundleInv, Returning

(* However bundles are installed, installed again, cut off and rolled back, *)
(* a resource that no bundle has is what its user last made it, unless a   *)
(* setback fell into one of two gaps or bundles that overlap were removed  *)
(* out of order (bundle.go: Install, uninstallByBundleID).                 *)
THEOREM UsersStateReturnsHolds == BundleSpec => []UsersStateReturns
<1>1. BundleInv => UsersStateReturns
  <2> SUFFICES ASSUME BundleInv, job = NoJob, spoilt = {}, NEW r \in Resources, ~Listed(r)
               PROVE  Shown(registry[r]) = Shown(own[r])
    BY DEF UsersStateReturns
  <2>1. job.entry = {} /\ job.at = "none"
    BY Idle
  <2>2. Untouched(r)
    BY DEF Untouched, Counts, Listed
  <2> QED BY <2>1, <2>2 DEF BundleInv, Returning, BareOwn, Same
<1> QED BY <1>1, BundleInvInit, BundleInvStep, PTL DEF BundleSpec
=============================================================================
