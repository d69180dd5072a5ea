------------------------------ MODULE PlanProofs ------------------------------
(***************************************************************************)
(* Proofs about the plan runtime (module PlanExecution): for any number of *)
(* steps, callers, attempts and failures.                                  *)
(*                                                                         *)
(* The argument is one token.  While no step is skipped, the plan is       *)
(* carried on by one thing at a time: a caller that executes, a step that  *)
(* has failed, a step that waits for the user, or the final answer.  Every *)
(* transaction that makes one of them takes the one there was.             *)
(***************************************************************************)
EXTENDS PlanExecution, FiniteSetTheorems, WellFoundedInduction, TLAPS

-----------------------------------------------------------------------------
(* The types *)

TryStatus == {"RUNNING", "SUCCEEDED", "FAILED", "CANCELLED"}
WaitRow == [step : Steps, status : {"PENDING", "RESOLVED", "CANCELLED"}]
Orders == {"none", "run", "resume", "retry", "skip", "cancel", "message"}
MyRow == [op : Orders, cur : 0..NumSteps, version : BOOLEAN, step : 0..NumSteps, wait : Nat,
          waiting : BOOLEAN, attempt : Nat, limit : Nat, begun : BOOLEAN]

Typed ==
    /\ plan \in PlanStatus /\ cur \in 0..NumSteps /\ version \in BOOLEAN
    /\ step \in [Steps -> StepStatus]
    /\ tries \in [Steps -> Seq(TryStatus)]
    /\ waits \in Seq(WaitRow)
    /\ outer \in RunState /\ registered \in Callers \cup {Nobody}
    /\ cancelled \subseteq Callers /\ answers \in Nat
    /\ pc \in [Callers -> Pc] /\ my \in [Callers -> MyRow]
    /\ faults \in 0..MaxFaults /\ skipped \in BOOLEAN

(* What a caller knows where it is.                                        *)
Starting == {"planning", "show", "loop", "claim", "retry", "skip", "restore", "begin", "resolve"}
PlacedAt(c) ==
    /\ pc[c] \in Starting => my[c].limit = 0
    /\ pc[c] \in {"claim", "attempt", "work", "pause", "retry", "skip"} => my[c].step # 0
    /\ pc[c] = "attempt" /\ my[c].limit # 0 => my[c].attempt < my[c].limit
    /\ pc[c] = "work" => my[c].attempt \in 1..my[c].limit
    /\ pc[c] = "retry" => my[c].op = "retry"
    /\ pc[c] = "skip" => my[c].op = "skip"
    /\ pc[c] \in {"restore", "begin"} => my[c].op \in {"resume", "retry"} \/ skipped
    /\ pc[c] = "resolve" => my[c].op = "resume"
    /\ pc[c] = "cancelStep" => my[c].cur # 0
    /\ my[c].op = "resume" /\ pc[c] \in {"restore", "begin", "resolve"} =>
         my[c].step # 0 /\ my[c].wait \in DOMAIN waits
Placed == \A c \in Callers : PlacedAt(c)

-----------------------------------------------------------------------------
(* The token *)

Going == {"planning", "show", "loop", "claim", "attempt", "work", "pause", "finalize", "answer"}
Executing(c) == pc[c] \in Going \/ (pc[c] \in {"restore", "begin"} /\ my[c].op # "resume")
Halted(s) == step[s] \in {"FAILED", "WAITING"}

OneToken ==
    /\ \A c, d \in Callers : Executing(c) /\ Executing(d) => c = d
    /\ \A s, t \in Steps : Halted(s) /\ Halted(t) => s = t
    /\ \A c \in Callers, s \in Steps : ~(Executing(c) /\ Halted(s))
    /\ answers \in {0, 1}
    /\ answers = 1 => (\A c \in Callers : ~Executing(c)) /\ \A s \in Steps : ~Halted(s)

(* A step that is RUNNING has the slot of the plan, and who has the token   *)
(* is at work on it.                                                       *)
SlotKept ==
    \A s \in Steps : step[s] = "RUNNING" =>
      /\ cur = s
      /\ \A c \in Callers : Executing(c) => Working(c) /\ my[c].step = s
      /\ \A t \in Steps : ~Halted(t)

(* The steps before one that was begun have come to an end.                *)
Unfinished == {"PENDING", "RUNNING", "WAITING", "FAILED"}
Before(s) == \A t \in Steps : t < s => step[t] \notin Unfinished
Ordered ==
    /\ \A c \in Callers : Working(c) => Before(my[c].step)
    /\ \A s \in Steps : step[s] \in {"RUNNING", "WAITING", "FAILED"} => Before(s)
    /\ \A c \in Callers : pc[c] = "claim" =>
         \A t \in Steps : t < my[c].step => step[t] # "PENDING"
    /\ \A c \in Callers : pc[c] = "finalize" => \A s \in Steps : step[s] # "PENDING"

(* A step that has succeeded is not begun again.                           *)
Succeeded(s, n) == n \in DOMAIN tries[s] /\ tries[s][n] = "SUCCEEDED"
DoneOnce ==
    /\ \A s \in Steps : \A n : Succeeded(s, n) =>
         \A t \in Steps : t <= s => step[t] \notin Unfinished
    /\ \A c \in Callers : Working(c) =>
         \A s \in Steps : \A n : my[c].step <= s => ~Succeeded(s, n)
    /\ \A s \in Steps : \A n, m : Succeeded(s, n) /\ Succeeded(s, m) => n = m
    /\ \A c \in Callers : pc[c] = "planning" => \A s \in Steps : tries[s] = <<>>

(* Who executes the plan has read its version.                             *)
VersionKnown ==
    /\ plan = "RUNNING" => version
    /\ \A s \in Steps : step[s] \in {"RUNNING", "WAITING", "FAILED"} => version
    /\ waits # <<>> => version
    /\ \A c \in Callers : Working(c) => version
    /\ \A c \in Callers :
         pc[c] \in Going \ {"planning"} \/ my[c].op \in {"retry", "resume"} => my[c].version

Sole == OneToken /\ SlotKept /\ Ordered /\ DoneOnce /\ VersionKnown
PlanInv == Typed /\ Placed /\ (~skipped => Sole)

-----------------------------------------------------------------------------
(* What a caller's move does                                               *)

LEMMA PlacesMove ==
    ASSUME pc \in [Callers -> Pc], NEW c \in Callers, NEW l \in Pc, Goto(c, l)
    PROVE  /\ pc' \in [Callers -> Pc] /\ pc'[c] = l
           /\ \A d \in Callers \ {c} : pc'[d] = pc[d]
  BY DEF Goto

LEMMA FreshRow == Fresh \in MyRow
<1>1. "none" \in Orders /\ NumSteps \in Nat
  BY Assumptions DEF Orders
<1> QED BY <1>1 DEF Fresh, MyRow

LEMMA CallerLeaves ==
    ASSUME Typed, NEW c \in Callers, Leave(c)
    PROVE  /\ pc' \in [Callers -> Pc] /\ pc'[c] = "over"
           /\ \A d \in Callers \ {c} : pc'[d] = pc[d]
           /\ my' \in [Callers -> MyRow] /\ my'[c].op = "none"
           /\ my'[c].limit = 0
           /\ \A d \in Callers \ {c} : my'[d] = my[d]
<1>1. "over" \in Pc
  BY DEF Pc
<1>2. /\ pc' \in [Callers -> Pc] /\ pc'[c] = "over"
      /\ \A d \in Callers \ {c} : pc'[d] = pc[d]
  BY <1>1 DEF Leave, Goto, Typed
<1>3. /\ my' \in [Callers -> MyRow] /\ my'[c] = Fresh
      /\ \A d \in Callers \ {c} : my'[d] = my[d]
  BY FreshRow DEF Leave, Typed
<1> QED BY <1>2, <1>3 DEF Fresh

(* A step of a caller that does not go on with the plan: steps are         *)
(* cancelled at most, no attempt succeeds, and the slot stays as it is.    *)
Lessens(c) ==
    /\ \A d \in Callers \ {c} : pc'[d] = pc[d] /\ my'[d] = my[d]
    /\ pc'[c] \notin Going
    /\ pc'[c] \in {"restore", "begin"} => my'[c].op = "resume"
    /\ my'[c].op \in {"retry", "resume"} => my'[c].version
    /\ \A s \in Steps : step'[s] \in {step[s], "CANCELLED"}
    /\ \A s \in Steps : \A n : Succeeded(s, n)' => Succeeded(s, n)
    /\ (\E d \in Callers : pc'[d] = "planning") => tries' = tries
    /\ plan' = "RUNNING" => plan = "RUNNING"
    /\ (waits' # <<>> => waits # <<>>)
    /\ UNCHANGED <<cur, version, answers>>

LEMMA LessensKeeps ==
    ASSUME Typed, Sole, NEW c \in Callers, Lessens(c)
    PROVE  Sole'
<1> USE DEF Lessens
<1>1. \A d \in Callers : Executing(d)' => Executing(d) /\ pc'[d] = pc[d] /\ my'[d] = my[d]
  BY DEF Executing, Going
<1>2. \A s \in Steps : Halted(s)' => Halted(s)
  BY DEF Halted
<1>3. \A d \in Callers : Working(d)' => Working(d) /\ my'[d] = my[d]
  BY <1>1 DEF Executing, Going, Working
<1>4. \A d \in Callers : pc'[d] \in {"claim", "finalize", "planning"} => pc'[d] = pc[d] /\ my'[d] = my[d]
  BY DEF Going
<1>5. \A s \in Steps : step'[s] \in Unfinished => step'[s] = step[s]
  BY DEF Unfinished
<1>6. OneToken'
  BY <1>1, <1>2 DEF OneToken, Sole
<1>7. SlotKept'
  <2>1. \A d \in Callers : Executing(d)' /\ Working(d) => Working(d)'
    BY <1>1 DEF Working
  <2> QED BY <1>1, <1>2, <2>1 DEF SlotKept, Sole
<1>8. Ordered'
  <2>1. \A s \in Steps : Before(s) => Before(s)'
    BY <1>5 DEF Before
  <2>2. \A d \in Callers : Working(d)' => Before(my'[d].step)
    BY <1>3 DEF Ordered, Sole
  <2>3. \A d \in Callers : Working(d)' => Before(my[d].step)'
    BY <1>3, <1>5, <2>2 DEF Before
  <2>4. \A s \in Steps : step'[s] \in {"RUNNING", "WAITING", "FAILED"} => Before(s)'
    BY <2>1 DEF Ordered, Sole
  <2> QED BY <1>4, <2>3, <2>4 DEF Ordered, Sole
<1>9. DoneOnce'
  BY <1>3, <1>4, <1>5 DEF DoneOnce, Sole
<1>10. VersionKnown'
  BY <1>3 DEF VersionKnown, Sole, Going
<1> QED BY <1>6, <1>7, <1>8, <1>9, <1>10 DEF Sole

LEMMA PlacedKept ==
    ASSUME Placed, NEW c \in Callers, PlacedAt(c)',
           \A d \in Callers \ {c} : pc'[d] = pc[d] /\ my'[d] = my[d],
           DOMAIN waits \subseteq DOMAIN waits', skipped => skipped'
    PROVE  Placed'
<1>1. ASSUME NEW d \in Callers, d # c PROVE PlacedAt(d)'
  <2>1. pc'[d] = pc[d] /\ my'[d] = my[d] /\ PlacedAt(d)
    BY <1>1 DEF Placed
  <2> QED BY <2>1 DEF PlacedAt
<1> QED BY <1>1 DEF Placed

(* The ways to an end.                                                     *)
Ending == {"report", "failSteps", "failPlan", "failRun", "cancelWait", "cancelStep", "cancelSteps",
           "cancelPlan", "cancelRun", "exit"}

LEMMA EndingKeeps ==
    ASSUME PlanInv, NEW c \in Callers, NEW l \in Ending, Goto(c, l),
           l = "cancelStep" => my[c].cur # 0,
           UNCHANGED <<my, cur, version, answers, registered, skipped>>,
           plan' \in PlanStatus, plan' = "RUNNING" => plan = "RUNNING",
           step' \in [Steps -> StepStatus], \A s \in Steps : step'[s] \in {step[s], "CANCELLED"},
           tries' \in [Steps -> Seq(TryStatus)],
           \A s \in Steps : \A n : Succeeded(s, n)' => Succeeded(s, n),
           pc[c] # "work" => tries' = tries,
           waits' \in Seq(WaitRow), DOMAIN waits' = DOMAIN waits,
           outer' \in RunState, cancelled' \subseteq Callers, faults' \in 0..MaxFaults
    PROVE  PlanInv'
<1>1. /\ pc' \in [Callers -> Pc] /\ pc'[c] = l
      /\ \A d \in Callers \ {c} : pc'[d] = pc[d]
  <2>1. l \in Pc /\ pc \in [Callers -> Pc]
    BY DEF Ending, Pc, PlanInv, Typed
  <2> QED BY <2>1, PlacesMove
<1>2. Typed'
  BY <1>1 DEF PlanInv, Typed
<1>3. PlacedAt(c)'
  BY <1>1 DEF PlacedAt, Ending, Starting
<1>4. Placed'
  BY <1>1, <1>3, PlacedKept DEF PlanInv
<1>5. ASSUME ~skipped' PROVE Sole'
  <2>1. Sole /\ Typed
    BY <1>5 DEF PlanInv
  <2>2. (\E d \in Callers : pc'[d] = "planning") => tries' = tries
    <3> SUFFICES ASSUME NEW d \in Callers, pc'[d] = "planning" PROVE tries' = tries
      OBVIOUS
    <3>1. d # c /\ pc[d] = "planning"
      BY <1>1 DEF Ending
    <3>2. pc[c] # "work"
      BY <2>1, <3>1 DEF Sole, OneToken, Executing, Going
    <3> QED BY <3>2
  <2>3. waits' # <<>> => waits # <<>>
    <3>1. waits \in Seq(WaitRow) /\ waits' \in Seq(WaitRow) /\ Len(waits') = Len(waits)
      BY <2>1 DEF Typed
    <3> QED BY <3>1
  <2>4. my'[c].op \in {"retry", "resume"} => my'[c].version
    BY <2>1 DEF Sole, VersionKnown
  <2>5. Lessens(c)
    BY <1>1, <2>2, <2>3, <2>4 DEF Lessens, Ending, Going
  <2> QED BY <2>1, <2>5, LessensKeeps
<1> QED BY <1>2, <1>4, <1>5 DEF PlanInv

(* The caller is gone.                                                     *)
LEMMA LeavingKeeps ==
    ASSUME PlanInv, NEW c \in Callers, Leave(c),
           UNCHANGED <<rows, answers, faults, skipped>>,
           outer' \in RunState, cancelled' \subseteq Callers, registered' \in Callers \cup {Nobody}
    PROVE  PlanInv'
<1>1. /\ pc' \in [Callers -> Pc] /\ pc'[c] = "over"
      /\ \A d \in Callers \ {c} : pc'[d] = pc[d]
      /\ my' \in [Callers -> MyRow] /\ my'[c].op = "none"
      /\ my'[c].limit = 0
      /\ \A d \in Callers \ {c} : my'[d] = my[d]
  BY CallerLeaves DEF PlanInv
<1>2. Typed'
  BY <1>1 DEF PlanInv, Typed, rows
<1>3. PlacedAt(c)'
  BY <1>1 DEF PlacedAt, Starting
<1>4. Placed'
  BY <1>1, <1>3, PlacedKept DEF PlanInv, rows
<1>5. ASSUME ~skipped' PROVE Sole'
  <2>1. Sole /\ Typed
    BY <1>5 DEF PlanInv
  <2>2. \A s \in Steps : \A n : Succeeded(s, n)' => Succeeded(s, n)
    BY DEF Succeeded, rows
  <2>3. Lessens(c)
    BY <1>1, <2>2 DEF Lessens, Going, rows
  <2> QED BY <2>1, <2>3, LessensKeeps
<1> QED BY <1>2, <1>4, <1>5 DEF PlanInv

LEMMA SeqEdited ==
    ASSUME NEW S, NEW q \in Seq(S), NEW i, NEW v \in S
    PROVE  /\ [q EXCEPT ![i] = v] \in Seq(S)
           /\ DOMAIN [q EXCEPT ![i] = v] = DOMAIN q
           /\ \A n \in DOMAIN q : [q EXCEPT ![i] = v][n] = IF n = i THEN v ELSE q[n]
<1>1. q \in [1..Len(q) -> S] /\ Len(q) \in Nat
  OBVIOUS
<1>2. [q EXCEPT ![i] = v] \in [1..Len(q) -> S]
  BY <1>1
<1>3. [q EXCEPT ![i] = v] \in Seq(S)
  BY <1>1, <1>2
<1> QED BY <1>1, <1>3

(* An attempt gets its end.                                                *)
LEMMA AttemptGetsEnd ==
    ASSUME Typed, NEW c \in Callers, NEW status \in TryStatus, AttemptEnds(c, status)
    PROVE  /\ tries' \in [Steps -> Seq(TryStatus)]
           /\ \A s \in Steps : s # my[c].step => tries'[s] = tries[s]
           /\ \A s \in Steps : \A n : Succeeded(s, n)' =>
                Succeeded(s, n) \/ (status = "SUCCEEDED" /\ s = my[c].step /\ n = my[c].attempt)
<1> DEFINE k == my[c].step
           a == my[c].attempt
<1>1. tries \in [Steps -> Seq(TryStatus)] /\ tries' = [tries EXCEPT ![k] = [tries[k] EXCEPT ![a] = status]]
  BY DEF Typed, AttemptEnds
<1> HIDE DEF k, a
<1>2. \A s \in Steps : s # k => tries'[s] = tries[s]
  BY <1>1
<1>3. ASSUME k \in Steps
      PROVE  /\ tries'[k] \in Seq(TryStatus) /\ DOMAIN tries'[k] = DOMAIN tries[k]
             /\ \A n \in DOMAIN tries[k] : tries'[k][n] = IF n = a THEN status ELSE tries[k][n]
  <2>1. tries[k] \in Seq(TryStatus) /\ tries'[k] = [tries[k] EXCEPT ![a] = status]
    BY <1>1, <1>3
  <2> QED BY <2>1, SeqEdited DEF TryStatus
<1>4. tries' \in [Steps -> Seq(TryStatus)]
  BY <1>1, <1>2, <1>3
<1>5. \A s \in Steps : \A n : Succeeded(s, n)' =>
        Succeeded(s, n) \/ (status = "SUCCEEDED" /\ s = k /\ n = a)
  BY <1>2, <1>3 DEF Succeeded
<1> QED BY <1>2, <1>4, <1>5 DEF k, a

-----------------------------------------------------------------------------
(* The steps that come to an end                                           *)

LEMMA NoMoreSucceeds ==
    ASSUME UNCHANGED tries
    PROVE  \A s \in Steps : \A n : Succeeded(s, n)' => Succeeded(s, n)
  BY DEF Succeeded

(* Only the place of the caller and what no invariant speaks of changes.   *)
LEMMA PlaceEnds ==
    ASSUME PlanInv, NEW c \in Callers, NEW l \in Ending \ {"cancelStep"}, Goto(c, l),
           UNCHANGED <<my, cur, version, step, tries, waits, answers, registered, skipped>>,
           plan' \in PlanStatus, plan' = "RUNNING" => plan = "RUNNING",
           outer' \in RunState, cancelled' \subseteq Callers, faults' \in 0..MaxFaults
    PROVE  PlanInv'
  BY EndingKeeps, NoMoreSucceeds DEF PlanInv, Typed

LEMMA CallerEnds ==
    ASSUME PlanInv, NEW c \in Callers,
           \/ DraftFails(c) \/ LoopCancelled(c) \/ Overtaken(c) \/ Paused(c) \/ SummaryFails(c)
           \/ Report(c) \/ ShowFails(c) \/ Fault(c) \/ ResolveConflict(c)
           \/ FailPlan(c) \/ FailRun(c) \/ CancelPlan(c) \/ CancelRun(c)
    PROVE  PlanInv'
<1>1. /\ plan \in PlanStatus /\ outer \in RunState /\ cancelled \subseteq Callers
      /\ faults \in 0..MaxFaults /\ MaxFaults \in Nat
  BY Assumptions DEF PlanInv, Typed
<1>2. /\ {"failSteps", "cancelWait", "report", "exit", "failRun", "cancelRun"}
           \subseteq Ending \ {"cancelStep"}
      /\ {"waiting_plan", "error", "cancelled"} \subseteq RunState
      /\ {"FAILED", "CANCELLED"} \subseteq PlanStatus
  BY DEF Ending, RunState, PlanStatus
<1>3. CASE DraftFails(c) \/ LoopCancelled(c) \/ Overtaken(c) \/ SummaryFails(c) \/ Report(c)
             \/ ResolveConflict(c)
  <2>1. /\ Goto(c, "failSteps") \/ Goto(c, "cancelWait") \/ Goto(c, "exit")
        /\ UNCHANGED <<my, plan, cur, version, step, tries, waits, outer, registered, cancelled,
                       answers, faults, skipped>>
    BY <1>3 DEF DraftFails, LoopCancelled, Overtaken, SummaryFails, Report, ResolveConflict, Quiet, rows
  <2> QED BY <1>1, <1>2, <2>1, PlaceEnds
<1>4. CASE ShowFails(c) \/ Fault(c)
  <2>1. /\ Goto(c, "failSteps") \/ Goto(c, "exit")
        /\ faults' = faults + 1 /\ faults < MaxFaults
        /\ UNCHANGED <<my, plan, cur, version, step, tries, waits, outer, registered, cancelled,
                       answers, skipped>>
    BY <1>4 DEF ShowFails, Fault, rows
  <2>2. faults' \in 0..MaxFaults
    BY <1>1, <2>1
  <2> QED BY <1>1, <1>2, <2>1, <2>2, PlaceEnds
<1>5. CASE FailPlan(c) \/ CancelPlan(c)
  <2>1. /\ (Goto(c, "failRun") /\ plan' = "FAILED") \/ (Goto(c, "cancelRun") /\ plan' = "CANCELLED")
        /\ UNCHANGED <<my, cur, version, step, tries, waits, outer, registered, cancelled,
                       answers, faults, skipped>>
    BY <1>5 DEF FailPlan, CancelPlan, Quiet
  <2> QED BY <1>1, <1>2, <2>1, PlaceEnds
<1>6. CASE FailRun(c) \/ CancelRun(c) \/ Paused(c)
  <2>1. /\ Goto(c, "exit") \/ Goto(c, "report")
        /\ outer' \in {"error", "cancelled", "waiting_plan"}
        /\ UNCHANGED <<my, plan, cur, version, step, tries, waits, registered, cancelled,
                       answers, faults, skipped>>
    BY <1>6 DEF FailRun, CancelRun, Paused, rows
  <2> QED BY <1>1, <1>2, <2>1, PlaceEnds
<1> QED BY <1>3, <1>4, <1>5, <1>6

LEMMA StepsEnd ==
    ASSUME PlanInv, NEW c \in Callers,
           FailSteps(c) \/ CancelSteps(c) \/ CancelStep(c) \/ AttemptCancelled(c) \/ CancelWait(c)
    PROVE  PlanInv'
<1>1. /\ plan \in PlanStatus /\ outer \in RunState /\ cancelled \subseteq Callers
      /\ faults \in 0..MaxFaults /\ step \in [Steps -> StepStatus] /\ waits \in Seq(WaitRow)
      /\ tries \in [Steps -> Seq(TryStatus)] /\ Typed
  BY DEF PlanInv, Typed
<1>2. "CANCELLED" \in StepStatus
  BY DEF StepStatus
<1>3. CASE FailSteps(c) \/ CancelSteps(c)
  <2>1. PICK l \in {"failPlan", "cancelPlan"} : Goto(c, l)
    BY <1>3 DEF FailSteps, CancelSteps
  <2>2. l \in Ending /\ l # "cancelStep"
    BY <2>1 DEF Ending
  <2>3. UNCHANGED <<my, plan, cur, version, tries, waits, outer, registered, cancelled,
                    answers, faults, skipped>>
    BY <1>3 DEF FailSteps, CancelSteps, Quiet
  <2>4. step' \in [Steps -> StepStatus] /\ \A s \in Steps : step'[s] \in {step[s], "CANCELLED"}
    <3>1. CancelPending(IF my[c].version THEN Steps ELSE {})
      BY <1>3 DEF FailSteps, CancelSteps
    <3> QED BY <1>1, <1>2, <3>1 DEF CancelPending
  <2> QED BY <1>1, <2>1, <2>2, <2>3, <2>4, NoMoreSucceeds, EndingKeeps
<1>4. CASE CancelStep(c)
  <2>1. /\ step' = [step EXCEPT ![my[c].cur] = "CANCELLED"] /\ Goto(c, "cancelSteps")
        /\ UNCHANGED <<my, plan, cur, version, tries, waits, outer, registered, cancelled,
                       answers, faults, skipped>>
    BY <1>4 DEF CancelStep, Quiet
  <2>2. step' \in [Steps -> StepStatus] /\ \A s \in Steps : step'[s] \in {step[s], "CANCELLED"}
    BY <1>1, <1>2, <2>1
  <2>3. "cancelSteps" \in Ending
    BY DEF Ending
  <2> QED BY <1>1, <2>1, <2>2, <2>3, NoMoreSucceeds, EndingKeeps
<1>5. CASE AttemptCancelled(c)
  <2>1. /\ step' = [step EXCEPT ![my[c].step] = "CANCELLED"] /\ Goto(c, "cancelWait")
        /\ AttemptEnds(c, "CANCELLED") /\ pc[c] = "work"
        /\ UNCHANGED <<my, plan, cur, version, waits, outer, registered, cancelled,
                       answers, faults, skipped>>
    BY <1>5 DEF AttemptCancelled, Quiet
  <2>2. step' \in [Steps -> StepStatus] /\ \A s \in Steps : step'[s] \in {step[s], "CANCELLED"}
    BY <1>1, <1>2, <2>1
  <2>3. "cancelWait" \in Ending /\ "CANCELLED" \in TryStatus
    BY DEF Ending, TryStatus
  <2>4. /\ tries' \in [Steps -> Seq(TryStatus)]
        /\ \A s \in Steps : \A n : Succeeded(s, n)' => Succeeded(s, n)
    BY <1>1, <2>1, <2>3, AttemptGetsEnd
  <2> QED BY <1>1, <2>1, <2>2, <2>3, <2>4, EndingKeeps
<1>6. CASE CancelWait(c)
  <2>1. PICK l \in {"cancelStep", "cancelSteps"} : Goto(c, l) /\ (l = "cancelStep" => my[c].cur # 0)
    BY <1>6 DEF CancelWait
  <2>2. /\ waits' = [i \in DOMAIN waits |->
                       IF waits[i].status = "PENDING" THEN [waits[i] EXCEPT !.status = "CANCELLED"]
                                                      ELSE waits[i]]
        /\ UNCHANGED <<my, plan, cur, version, step, tries, outer, registered, cancelled,
                       answers, faults, skipped>>
    BY <1>6 DEF CancelWait, Quiet
  <2>3. waits' \in Seq(WaitRow) /\ DOMAIN waits' = DOMAIN waits
    <3>1. \A w \in WaitRow : [w EXCEPT !.status = "CANCELLED"] \in WaitRow
      BY DEF WaitRow
    <3>2. \A i \in 1..Len(waits) : waits[i] \in WaitRow
      BY <1>1
    <3>3. waits' \in [1..Len(waits) -> WaitRow] /\ Len(waits) \in Nat
      BY <1>1, <2>2, <3>1, <3>2
    <3>4. waits' \in Seq(WaitRow) /\ DOMAIN waits' = 1..Len(waits)
      BY ONLY <3>3
    <3>5. DOMAIN waits = 1..Len(waits)
      BY ONLY <1>1
    <3> QED BY <3>4, <3>5
  <2>4. l \in Ending
    BY <2>1 DEF Ending
  <2> QED BY <1>1, <2>1, <2>2, <2>3, <2>4, NoMoreSucceeds, EndingKeeps
<1> QED BY <1>3, <1>4, <1>5, <1>6

LEMMA CallerGone ==
    ASSUME PlanInv, NEW c \in Callers,
           \/ Exit(c)
           \/ RetryStep(c) /\ ~Retryable(my[c].step)
           \/ SkipStep(c) /\ ~Skippable(my[c].step)
           \/ Restore(c) /\ outer \in RunOver
           \/ Stop(c) /\ my[c].op # "cancel"
    PROVE  PlanInv'
<1>1. /\ Nobody \in Callers \cup {Nobody} /\ registered \in Callers \cup {Nobody}
      /\ outer \in RunState /\ "cancelling" \in RunState /\ cancelled \subseteq Callers
  BY DEF PlanInv, Typed, RunState
<1>2. Leave(c) /\ UNCHANGED <<rows, answers, faults, skipped>>
  BY DEF Exit, RetryStep, SkipStep, Restore, Stop, Rejected, Quiet
<1>3. registered' \in {registered, Nobody}
  BY DEF Exit, RetryStep, SkipStep, Restore, Stop, Rejected, Quiet
<1>4. outer' \in {outer, "cancelling"}
  BY DEF Exit, RetryStep, SkipStep, Restore, Stop, Rejected, Quiet
<1>5. cancelled' \subseteq Callers
  <2>1. Stoppable => registered \in Callers
    BY <1>1 DEF Stoppable
  <2> QED BY <1>1, <2>1 DEF Exit, RetryStep, SkipStep, Restore, Stop, Rejected, Quiet
<1> QED BY <1>1, <1>2, <1>3, <1>4, <1>5, LeavingKeeps

LEMMA StopGoesOn ==
    ASSUME PlanInv, NEW c \in Callers, Stop(c), my[c].op = "cancel"
    PROVE  PlanInv'
<1>1. /\ Goto(c, "cancelWait") /\ outer' \in {outer, "cancelling"}
      /\ UNCHANGED <<my, plan, cur, version, step, tries, waits, answers, registered, faults, skipped>>
  BY DEF Stop, rows
<1>2. cancelled' \subseteq Callers
  <2>1. registered \in Callers \cup {Nobody} /\ cancelled \subseteq Callers
    BY DEF PlanInv, Typed
  <2> QED BY <2>1 DEF Stop, Stoppable
<1>3. /\ plan \in PlanStatus /\ outer \in RunState /\ "cancelling" \in RunState /\ faults \in 0..MaxFaults
  BY DEF PlanInv, Typed, RunState
<1>4. "cancelWait" \in Ending \ {"cancelStep"}
  BY DEF Ending
<1> QED BY <1>1, <1>2, <1>3, <1>4, PlaceEnds

LEMMA NothingMoves ==
    ASSUME PlanInv, UNCHANGED <<rows, outer, registered, answers, pc, my, faults, skipped>>,
           cancelled' \subseteq Callers
    PROVE  PlanInv'
<1>1. Typed'
  BY DEF PlanInv, Typed, rows
<1>2. Placed'
  BY DEF PlanInv, Placed, PlacedAt, rows
<1>3. ASSUME ~skipped' PROVE Sole'
  <2> USE <1>3 DEF PlanInv, Sole, rows
  <2>1. OneToken'
    BY DEF OneToken, Executing, Halted
  <2>2. SlotKept'
    BY DEF SlotKept, Executing, Halted, Working
  <2>3. Ordered'
    BY DEF Ordered, Before, Working
  <2>4. DoneOnce'
    BY DEF DoneOnce, Succeeded, Working
  <2>5. VersionKnown'
    BY DEF VersionKnown, Working
  <2> QED BY <2>1, <2>2, <2>3, <2>4, <2>5
<1> QED BY <1>1, <1>2, <1>3 DEF PlanInv

-----------------------------------------------------------------------------
(* The commands read                                                       *)

LEMMA CallKeeps ==
    ASSUME PlanInv, NEW c \in Callers, NEW op \in Orders, NEW s \in 0..NumSteps, NEW w \in Nat,
           NEW l \in {"restore", "cancelWait", "retry", "skip", "stop"}, Call(c, op, s, w, l),
           l = "restore" => op = "resume" /\ w \in DOMAIN waits,
           l \in {"restore", "retry", "skip"} => s # 0, l = "retry" => op = "retry",
           l = "skip" => op = "skip",
           ~skipped /\ op \in {"retry", "resume"} => version
    PROVE  PlanInv'
<1>1. Typed
  BY DEF PlanInv
<1>2. /\ pc' \in [Callers -> Pc] /\ pc'[c] = l
      /\ \A d \in Callers \ {c} : pc'[d] = pc[d]
  <2>1. l \in Pc /\ Goto(c, l) /\ pc \in [Callers -> Pc]
    BY <1>1 DEF Pc, Call, Typed
  <2> QED BY <2>1, PlacesMove
<1>3. PICK row : row = [Fresh EXCEPT !.op = op, !.cur = cur, !.version = version,
                                     !.step = s, !.wait = w,
                                     !.waiting = (s # 0 /\ step[s] = "WAITING")]
  OBVIOUS
<1>4. /\ row \in MyRow /\ row.op = op /\ row.step = s /\ row.wait = w /\ row.version = version
      /\ row.limit = 0
  <2>1. cur \in 0..NumSteps /\ version \in BOOLEAN
    BY <1>1 DEF Typed
  <2> QED BY <1>3, <2>1, FreshRow DEF Fresh, MyRow
<1>5. /\ my' \in [Callers -> MyRow] /\ my'[c] = row
      /\ \A d \in Callers \ {c} : my'[d] = my[d]
  <2>1. my' = [my EXCEPT ![c] = row] /\ my \in [Callers -> MyRow]
    BY <1>1, <1>3 DEF Call, Typed
  <2> QED BY <1>4, <2>1
<1>6. UNCHANGED <<rows, outer, registered, cancelled, answers, faults, skipped>>
  BY DEF Call, Quiet
<1>7. Typed'
  BY <1>1, <1>2, <1>5, <1>6 DEF Typed, rows
<1>8. PlacedAt(c)'
  BY <1>2, <1>4, <1>5, <1>6 DEF PlacedAt, Starting, rows
<1>9. Placed'
  BY <1>2, <1>5, <1>6, <1>8, PlacedKept DEF PlanInv, rows
<1>10. ASSUME ~skipped' PROVE Sole'
  <2>1. Sole
    BY <1>6, <1>10 DEF PlanInv
  <2>2. op \in {"retry", "resume"} => version
    BY <1>6, <1>10
  <2>3. pc'[c] \notin Going /\ (pc'[c] \in {"restore", "begin"} => my'[c].op = "resume")
    BY <1>2, <1>4, <1>5 DEF Going
  <2>4. Lessens(c)
    BY <1>2, <1>4, <1>5, <1>6, <2>2, <2>3, NoMoreSucceeds DEF Lessens, rows
  <2> QED BY <1>1, <2>1, <2>4, LessensKeeps
<1> QED BY <1>7, <1>9, <1>10 DEF PlanInv

LEMMA UserKeeps ==
    ASSUME PlanInv, NEW c \in Callers, User(c)
    PROVE  PlanInv'
<1>1. Typed /\ NumSteps \in Nat
  BY Assumptions DEF PlanInv
<1>2. {"resume", "retry", "skip", "cancel", "message"} \subseteq Orders
  BY DEF Orders
<1>3. CASE Resume(c)
  <2>1. PICK w \in DOMAIN waits :
          \/ Call(c, "resume", waits[w].step, w, "restore")
          \/ Call(c, "resume", waits[w].step, w, "cancelWait")
    BY <1>3 DEF Resume
  <2>2. waits \in Seq(WaitRow)
    BY <1>1 DEF Typed
  <2>3. w \in Nat /\ waits[w] \in WaitRow /\ waits # <<>>
    BY <2>2
  <2>4. waits[w].step \in Steps
    BY <2>3 DEF WaitRow
  <2>5. waits[w].step \in 0..NumSteps /\ waits[w].step # 0
    BY <1>1, <2>4 DEF Steps
  <2>6. ~skipped => version
    BY <2>3 DEF PlanInv, Sole, VersionKnown
  <2> QED BY <1>2, <2>1, <2>3, <2>5, <2>6, CallKeeps
<1>4. CASE Retry(c)
  <2>1. PICK s \in Steps : step[s] = "FAILED" /\ Call(c, "retry", s, 0, "retry")
    BY <1>4 DEF Retry
  <2>2. s \in 0..NumSteps /\ s # 0
    BY <1>1 DEF Steps
  <2>3. ~skipped => version
    BY <2>1 DEF PlanInv, Sole, VersionKnown
  <2> QED BY <1>2, <2>1, <2>2, <2>3, CallKeeps
<1>5. CASE Skip(c)
  <2>1. PICK s \in Steps : Call(c, "skip", s, 0, "skip")
    BY <1>5, Assumptions DEF Skip
  <2>2. s \in 0..NumSteps /\ s # 0
    BY <1>1 DEF Steps
  <2> QED BY <1>2, <2>1, <2>2, CallKeeps
<1>6. CASE Cancel(c) \/ CancelMessage(c)
  <2>1. Call(c, "cancel", 0, 0, "stop") \/ Call(c, "message", 0, 0, "stop")
    BY <1>6 DEF Cancel, CancelMessage
  <2> QED BY <1>1, <1>2, <2>1, CallKeeps
<1>7. CASE HangUp(c)
  <2>1. cancelled' \subseteq Callers
    BY <1>1, <1>7 DEF HangUp, Typed
  <2> QED BY <1>7, <2>1, NothingMoves DEF HangUp
<1> QED BY <1>3, <1>4, <1>5, <1>6, <1>7 DEF User

-----------------------------------------------------------------------------
(* The one that executes goes on                                           *)

LEMMA FirstPending ==
    ASSUME NEW S \in SUBSET Steps, S # {}
    PROVE  FirstOf(S) \in S /\ \A t \in S : FirstOf(S) <= t
<1>1. S \in SUBSET Nat /\ S # {}
  BY Assumptions DEF Steps
<1>2. \E s \in S : \A t \in S : s <= t
  <2>1. PICK s \in S : \A t \in S : ~ (<<t, s>> \in OpToRel(<, Nat))
    BY <1>1, NatLessThanWellFounded, WFMin
  <2>2. \A t \in S : ~ (t < s)
    BY <1>1, <2>1 DEF OpToRel
  <2> QED BY <1>1, <2>2
<1> QED BY <1>2 DEF FirstOf

(* It keeps the token: no step changes, and it stays on its step until it  *)
(* is done with it.                                                        *)
GoesOn(c) ==
    /\ \A d \in Callers \ {c} : pc'[d] = pc[d] /\ my'[d] = my[d]
    /\ Executing(c)
    /\ pc'[c] # "planning"
    /\ Working(c)' <=> Working(c)
    /\ Working(c) => my'[c].step = my[c].step /\ cur' = cur
    /\ pc'[c] = "claim" => \A t \in Steps : t < my'[c].step => step[t] # "PENDING"
    /\ pc'[c] = "finalize" => \A s \in Steps : step[s] # "PENDING"
    /\ my'[c].version
    /\ \A s \in Steps : \A n : Succeeded(s, n)' => Succeeded(s, n)
    /\ plan' = "RUNNING" => plan = "RUNNING"
    /\ UNCHANGED <<step, version, waits, answers>>

LEMMA GoesOnKeeps ==
    ASSUME Typed, Sole, NEW c \in Callers, GoesOn(c)
    PROVE  Sole'
<1> USE DEF GoesOn
<1>1. \A d \in Callers : Executing(d)' => Executing(d) /\ d = c
  <2>1. \A d \in Callers \ {c} : ~Executing(d)
    BY DEF Sole, OneToken
  <2> QED BY <2>1 DEF Executing
<1>2. \A s \in Steps : Halted(s)' <=> Halted(s)
  BY DEF Halted
<1>3. \A d \in Callers \ {c} : ~Working(d)' /\ ~Working(d) /\ pc'[d] \notin {"claim", "finalize", "planning"}
  <2>1. \A d \in Callers \ {c} : ~Executing(d)
    BY DEF Sole, OneToken
  <2> QED BY <2>1 DEF Executing, Going, Working
<1>4. OneToken'
  BY <1>1, <1>2 DEF OneToken, Sole
<1>5. SlotKept'
  <2>1. ASSUME NEW s \in Steps, step[s] = "RUNNING"
        PROVE  Working(c) /\ my[c].step = s /\ cur = s /\ \A t \in Steps : ~Halted(t)
    BY <2>1 DEF SlotKept, Sole
  <2> QED BY <1>1, <1>2, <2>1 DEF SlotKept
<1>6. Ordered'
  <2>1. \A s : Before(s)' <=> Before(s)
    BY DEF Before
  <2>2. Working(c)' => Before(my'[c].step)
    BY DEF Ordered, Sole
  <2>3. Working(c)' => Before(my[c].step)'
    BY <2>2 DEF Before
  <2>4. \A s \in Steps : step'[s] \in {"RUNNING", "WAITING", "FAILED"} => Before(s)'
    BY <2>1 DEF Ordered, Sole
  <2> QED BY <1>3, <2>3, <2>4 DEF Ordered
<1>7. DoneOnce'
  <2>1. Working(c)' => \A s \in Steps : \A n : my'[c].step <= s => ~Succeeded(s, n)
    BY DEF DoneOnce, Sole
  <2>2. \A d \in Callers : pc'[d] # "planning"
    BY <1>3
  <2> QED BY <1>3, <2>1, <2>2 DEF DoneOnce, Sole
<1>8. VersionKnown'
  BY <1>3 DEF VersionKnown, Sole
<1> QED BY <1>4, <1>5, <1>6, <1>7, <1>8 DEF Sole

(* The row of one caller, edited.                                          *)
LEMMA RowEdited ==
    ASSUME Typed, NEW c \in Callers, NEW row \in MyRow, my' = [my EXCEPT ![c] = row]
    PROVE  /\ my' \in [Callers -> MyRow] /\ my'[c] = row
           /\ \A d \in Callers \ {c} : my'[d] = my[d]
  BY DEF Typed

LEMMA MyRowOf ==
    ASSUME Typed, NEW c \in Callers
    PROVE  /\ my[c] \in MyRow /\ my[c].step \in 0..NumSteps /\ my[c].cur \in 0..NumSteps
           /\ my[c].limit \in Nat /\ my[c].attempt \in Nat /\ my[c].version \in BOOLEAN
           /\ my[c].op \in Orders /\ my[c].wait \in Nat
           /\ NumSteps \in Nat /\ \A s \in 0..NumSteps : s # 0 => s \in Steps
<1>1. my[c] \in MyRow
  BY DEF Typed
<1>2. NumSteps \in Nat
  BY Assumptions
<1>3. \A s \in 0..NumSteps : s # 0 => s \in Steps
  BY <1>2 DEF Steps
<1> QED BY <1>1, <1>2, <1>3 DEF MyRow

LEMMA StartGoesOn ==
    ASSUME PlanInv, NEW c \in Callers,
           Show(c) \/ Loop(c) \/ ClaimConflict(c) \/ Summarize(c)
    PROVE  PlanInv'
<1> DEFINE row == my'[c]
<1>1. Typed /\ Placed /\ my[c] \in MyRow /\ pc[c] \in {"show", "loop", "claim", "finalize"}
  BY MyRowOf DEF PlanInv, Show, Loop, ClaimConflict, Summarize
<1>2. PICK l \in {"loop", "claim", "finalize", "answer"} : Goto(c, l)
  BY DEF Show, Loop, ClaimConflict, Summarize
<1>3. /\ pc' \in [Callers -> Pc] /\ pc'[c] = l
      /\ \A d \in Callers \ {c} : pc'[d] = pc[d]
  <2>1. l \in Pc /\ pc \in [Callers -> Pc]
    BY <1>1 DEF Pc, Typed
  <2> QED BY <1>2, <2>1, PlacesMove
<1>4. /\ UNCHANGED <<version, step, tries, waits, outer, registered, cancelled, answers, faults, skipped>>
      /\ plan' \in {plan, "SUCCEEDED"} /\ cur' \in {cur, 0}
      /\ l = "claim" => Loop(c) /\ PendingSteps(c) # {}
      /\ l = "finalize" => Loop(c) /\ PendingSteps(c) = {}
  <2>1. Show(c) \/ ClaimConflict(c) \/ Summarize(c) => l \in {"loop", "answer"}
    BY <1>1, <1>3 DEF Show, ClaimConflict, Summarize, Goto, Typed
  <2>2. Loop(c) => (l = "claim" => PendingSteps(c) # {}) /\ (l = "finalize" => PendingSteps(c) = {})
    BY <1>1, <1>3 DEF Loop, Goto, Typed
  <2> QED BY <2>1, <2>2 DEF Show, Loop, ClaimConflict, Summarize, Quiet, rows
<1>5. /\ my' \in [Callers -> MyRow]
      /\ \A d \in Callers \ {c} : my'[d] = my[d]
      /\ my'[c].version = my[c].version /\ my'[c].op = my[c].op /\ my'[c].limit = my[c].limit
      /\ l = "claim" => my'[c].step = FirstOf(PendingSteps(c)) /\ my'[c].step # 0
  <2>1. PICK r : /\ my' = [my EXCEPT ![c] = r]
                 /\ \/ r = my[c] /\ l # "claim"
                    \/ r = [my[c] EXCEPT !.step = FirstOf(PendingSteps(c))] /\ PendingSteps(c) # {}
                    \/ r = [my[c] EXCEPT !.step = 0] /\ l # "claim"
                    \/ r = [my[c] EXCEPT !.cur = 0] /\ l # "claim"
    <3>1. my = [my EXCEPT ![c] = my[c]]
      BY <1>1 DEF Typed
    <3> QED BY <1>1, <1>3, <1>4, <3>1 DEF Show, Loop, ClaimConflict, Summarize, Goto, Typed
  <2>2. PendingSteps(c) # {} => FirstOf(PendingSteps(c)) \in Steps
    BY FirstPending DEF PendingSteps
  <2>3. /\ r \in MyRow /\ r.version = my[c].version /\ r.op = my[c].op /\ r.limit = my[c].limit
        /\ l = "claim" => r.step = FirstOf(PendingSteps(c)) /\ r.step # 0
    <3>1. /\ my[c] \in MyRow /\ 0 \in 0..NumSteps
          /\ PendingSteps(c) # {} => FirstOf(PendingSteps(c)) \in 0..NumSteps /\ FirstOf(PendingSteps(c)) # 0
      BY <1>1, <2>2, Assumptions DEF Steps
    <3>2. CASE r = [my[c] EXCEPT !.step = FirstOf(PendingSteps(c))] /\ PendingSteps(c) # {}
      BY <3>1, <3>2 DEF MyRow
    <3>3. CASE r = [my[c] EXCEPT !.step = 0] /\ l # "claim"
      BY <3>1, <3>3 DEF MyRow
    <3>4. CASE r = [my[c] EXCEPT !.cur = 0] /\ l # "claim"
      BY <3>1, <3>4 DEF MyRow
    <3> QED BY <2>1, <3>1, <3>2, <3>3, <3>4
  <2> QED BY <1>1, <2>1, <2>3, RowEdited
<1>6. Typed'
  <2>1. cur' \in 0..NumSteps
    BY <1>1, <1>4, Assumptions DEF Typed
  <2>2. plan' \in PlanStatus
    BY <1>1, <1>4 DEF Typed, PlanStatus
  <2> QED BY <1>1, <1>3, <1>4, <1>5, <2>1, <2>2 DEF Typed
<1>7. PlacedAt(c)'
  <2>1. my[c].limit = 0 \/ pc[c] = "finalize"
    BY <1>1 DEF Placed, PlacedAt, Starting
  <2>2. pc[c] = "finalize" => l = "answer"
    BY <1>1, <1>3 DEF Show, Loop, ClaimConflict, Summarize, Goto, Typed
  <2> QED BY <1>3, <1>5, <2>1, <2>2 DEF PlacedAt, Starting
<1>8. Placed'
  BY <1>1, <1>3, <1>4, <1>5, <1>7, PlacedKept
<1>9. ASSUME ~skipped' PROVE Sole'
  <2>1. Sole
    BY <1>4, <1>9 DEF PlanInv
  <2>2. my[c].version
    BY <1>1, <2>1 DEF Sole, VersionKnown, Going
  <2>3. PendingSteps(c) = {s \in Steps : step[s] = "PENDING"}
    BY <2>2 DEF PendingSteps
  <2>4. l = "claim" => \A t \in Steps : t < my'[c].step => step[t] # "PENDING"
    <3> SUFFICES ASSUME l = "claim", NEW t \in Steps, t < my'[c].step, step[t] = "PENDING"
                 PROVE  FALSE
      OBVIOUS
    <3>1. FirstOf(PendingSteps(c)) <= t /\ FirstOf(PendingSteps(c)) \in Steps
      BY <1>4, <2>3, FirstPending
    <3> QED BY <1>5, <3>1, Assumptions DEF Steps
  <2>5. l = "finalize" => \A s \in Steps : step[s] # "PENDING"
    BY <1>4, <2>3
  <2>6. Executing(c) /\ ~Working(c) /\ ~Working(c)'
    BY <1>1, <1>3 DEF Executing, Going, Working
  <2>7. GoesOn(c)
    BY <1>3, <1>4, <1>5, <2>2, <2>4, <2>5, <2>6, NoMoreSucceeds DEF GoesOn
  <2> QED BY <1>1, <2>1, <2>7, GoesOnKeeps
<1> QED BY <1>6, <1>8, <1>9 DEF PlanInv

LEMMA AttemptGoesOn ==
    ASSUME PlanInv, NEW c \in Callers, Attempt(c) \/ AttemptFails(c)
    PROVE  PlanInv'
<1> DEFINE s == my[c].step
<1>1. Typed /\ Placed /\ my[c] \in MyRow /\ pc[c] \in {"attempt", "work"} /\ s \in Steps /\ s # 0
  <2>1. Typed /\ Placed /\ pc[c] \in {"attempt", "work"}
    BY DEF PlanInv, Attempt, AttemptFails
  <2>2. s # 0
    BY <2>1 DEF Placed, PlacedAt
  <2> QED BY <2>1, <2>2, MyRowOf
<1>2. /\ tries[s] \in Seq(TryStatus) /\ Len(tries[s]) \in Nat /\ MaxAttempts[s] \in Nat
      /\ my[c].limit \in Nat /\ my[c].attempt \in Nat
      /\ pc[c] = "attempt" /\ my[c].limit # 0 => my[c].attempt < my[c].limit
  BY <1>1, Assumptions, MyRowOf DEF Typed, Placed, PlacedAt
<1> HIDE DEF s
<1>3. UNCHANGED <<plan, cur, version, step, waits, outer, registered, cancelled, answers, faults, skipped>>
  BY DEF Attempt, AttemptFails, Quiet
<1>4. CASE Attempt(c) /\ UNCHANGED my
  <2>1. CASE Goto(c, "failSteps") /\ UNCHANGED tries
    <3>1. "failSteps" \in Ending \ {"cancelStep"}
      BY DEF Ending
    <3>2. plan \in PlanStatus /\ outer \in RunState /\ cancelled \subseteq Callers /\ faults \in 0..MaxFaults
      BY <1>1 DEF Typed
    <3> QED BY <1>3, <1>4, <2>1, <3>1, <3>2, PlaceEnds
  <2>2. CASE ~(Goto(c, "failSteps") /\ UNCHANGED tries)
    <3>1. /\ my' = [my EXCEPT ![c].attempt = my'[c].attempt, ![c].limit = my'[c].limit]
          /\ my[c].limit = 0 => my'[c].attempt = Len(tries[s]) + 1
          /\ my[c].limit # 0 => my'[c].attempt = my[c].attempt + 1
          /\ my[c].limit = 0 => my'[c].limit = Larger(Len(tries[s]) + 1, MaxAttempts[s])
      BY <1>1, <1>4, <2>2 DEF Attempt, Typed, MyRow, s
    <3> QED BY <1>2, <1>4, <3>1 DEF Larger
  <2> QED BY <2>1, <2>2
<1>5. CASE AttemptFails(c) \/ (Attempt(c) /\ ~UNCHANGED my)
  <2>1. PICK n, k, l :
          /\ Goto(c, l) /\ my' = [my EXCEPT ![c].attempt = n, ![c].limit = k]
          /\ \/ l = "work" /\ n \in 1..k /\ k \in Nat /\ tries' = [tries EXCEPT ![s] = Append(@, "RUNNING")]
             \/ l = "attempt" /\ n \in Nat /\ k \in Nat /\ n < k /\ AttemptEnds(c, "FAILED")
    <3>1. CASE AttemptFails(c)
      <4>1. my = [my EXCEPT ![c].attempt = my[c].attempt, ![c].limit = my[c].limit]
        BY <1>1 DEF Typed, MyRow
      <4> QED BY <1>2, <3>1, <4>1 DEF AttemptFails
    <3>2. CASE Attempt(c) /\ ~UNCHANGED my
      <4>1. PICK n : /\ n = IF my[c].limit = 0 THEN Len(tries[s]) + 1 ELSE my[c].attempt + 1
                     /\ tries' = [tries EXCEPT ![s] = Append(@, "RUNNING")]
                     /\ Goto(c, "work")
                     /\ my' = [my EXCEPT ![c].attempt = n,
                                         ![c].limit = IF my[c].limit # 0 THEN my[c].limit
                                                      ELSE Larger(n, MaxAttempts[s])]
        BY <3>2 DEF Attempt, s
      <4> DEFINE k == IF my[c].limit # 0 THEN my[c].limit ELSE Larger(n, MaxAttempts[s])
      <4>2. k \in Nat /\ n \in 1..k
        <5>1. pc[c] = "attempt"
          BY <3>2 DEF Attempt
        <5>2. n \in Nat /\ n # 0 /\ (my[c].limit # 0 => n \in 1..my[c].limit)
          BY <1>2, <4>1, <5>1
        <5>3. my[c].limit = 0 => Larger(n, MaxAttempts[s]) \in Nat /\ n \in 1..Larger(n, MaxAttempts[s])
          BY <1>2, <5>2 DEF Larger
        <5> QED BY <1>2, <5>2, <5>3
      <4> QED BY <4>1, <4>2
    <3> QED BY <1>5, <3>1, <3>2
  <2>2. n \in Nat /\ k \in Nat /\ k # 0
    BY <2>1
  <2>3. /\ my' \in [Callers -> MyRow]
        /\ \A d \in Callers \ {c} : my'[d] = my[d]
        /\ my'[c].attempt = n /\ my'[c].limit = k
        /\ my'[c].version = my[c].version /\ my'[c].op = my[c].op /\ my'[c].step = my[c].step
    <3>1. [my[c] EXCEPT !.attempt = n, !.limit = k] \in MyRow
      BY <1>1, <2>2 DEF MyRow
    <3>2. my' = [my EXCEPT ![c] = [my[c] EXCEPT !.attempt = n, !.limit = k]]
      BY <1>1, <2>1 DEF Typed
    <3>3. my' \in [Callers -> MyRow] /\ my'[c] = [my[c] EXCEPT !.attempt = n, !.limit = k]
          /\ \A d \in Callers \ {c} : my'[d] = my[d]
      BY <1>1, <3>1, <3>2, RowEdited
    <3> QED BY <1>1, <3>3 DEF MyRow
  <2>4. /\ pc' \in [Callers -> Pc] /\ pc'[c] = l
        /\ \A d \in Callers \ {c} : pc'[d] = pc[d]
    <3>1. l \in Pc /\ pc \in [Callers -> Pc]
      BY <1>1, <2>1 DEF Pc, Typed
    <3> QED BY <2>1, <3>1, PlacesMove
  <2>5. /\ tries' \in [Steps -> Seq(TryStatus)]
        /\ \A t \in Steps : \A m : Succeeded(t, m)' => Succeeded(t, m)
    <3>1. CASE tries' = [tries EXCEPT ![s] = Append(@, "RUNNING")]
      <4>1. "RUNNING" \in TryStatus
        BY DEF TryStatus
      <4>2. /\ tries' \in [Steps -> Seq(TryStatus)] /\ tries'[s] = Append(tries[s], "RUNNING")
            /\ \A t \in Steps : t # s => tries'[t] = tries[t]
        BY <1>1, <1>2, <3>1, <4>1 DEF Typed
      <4>3. \A m \in DOMAIN tries'[s] : tries'[s][m] = "SUCCEEDED" => m \in DOMAIN tries[s] /\ tries[s][m] = "SUCCEEDED"
        BY <1>2, <4>1, <4>2
      <4> QED BY <4>2, <4>3 DEF Succeeded
    <3>2. CASE AttemptEnds(c, "FAILED")
      BY <1>1, <3>2, AttemptGetsEnd DEF TryStatus
    <3> QED BY <2>1, <3>1, <3>2
  <2>6. Typed'
    BY <1>1, <1>3, <2>3, <2>4, <2>5 DEF Typed
  <2>7. PlacedAt(c)'
    <3>1. pc'[c] \in {"attempt", "work"} /\ my'[c].step # 0
      BY <1>1, <2>1, <2>3, <2>4 DEF s
    <3>2. pc'[c] = "work" => my'[c].attempt \in 1..my'[c].limit
      BY <2>1, <2>3, <2>4
    <3>3. pc'[c] = "attempt" => my'[c].attempt < my'[c].limit
      BY <2>1, <2>3, <2>4
    <3> QED BY <3>1, <3>2, <3>3 DEF PlacedAt, Starting
  <2>8. Placed'
    BY <1>1, <1>3, <2>3, <2>4, <2>7, PlacedKept
  <2>9. ASSUME ~skipped' PROVE Sole'
    <3>1. Sole
      BY <1>3, <2>9 DEF PlanInv
    <3>2. my[c].version
      BY <1>1, <3>1 DEF Sole, VersionKnown, Going
    <3>3. Executing(c) /\ Working(c) /\ Working(c)' /\ pc'[c] \in {"attempt", "work"}
      BY <1>1, <2>1, <2>4 DEF Executing, Going, Working
    <3>4. GoesOn(c)
      BY <1>3, <2>3, <2>4, <2>5, <3>2, <3>3 DEF GoesOn
    <3> QED BY <1>1, <3>1, <3>4, GoesOnKeeps
  <2> QED BY <2>6, <2>8, <2>9 DEF PlanInv
<1> QED BY <1>4, <1>5

LEMMA RestoreGoesOn ==
    ASSUME PlanInv, NEW c \in Callers,
           \/ Restore(c) /\ outer \notin RunOver
           \/ Begin(c)
    PROVE  PlanInv'
<1>1. Typed /\ Placed /\ my[c] \in MyRow
  BY MyRowOf DEF PlanInv
<1>2. PICK l : /\ Goto(c, l)
               /\ \/ pc[c] = "restore" /\ l = "begin"
                  \/ pc[c] = "begin" /\ l = "resolve" /\ my[c].op = "resume"
                  \/ pc[c] = "begin" /\ l = "loop" /\ my[c].op # "resume"
  BY DEF Restore, Begin
<1>3. /\ pc' \in [Callers -> Pc] /\ pc'[c] = l
      /\ \A d \in Callers \ {c} : pc'[d] = pc[d]
  <2>1. l \in Pc /\ pc \in [Callers -> Pc]
    BY <1>1, <1>2 DEF Pc, Typed
  <2> QED BY <1>2, <2>1, PlacesMove
<1>4. /\ UNCHANGED <<plan, cur, version, step, tries, waits, cancelled, answers, faults, skipped>>
      /\ outer' \in RunState /\ registered' \in Callers \cup {Nobody}
  BY <1>1 DEF Restore, Begin, Quiet, rows, RunState, Typed
<1>5. /\ my' \in [Callers -> MyRow]
      /\ \A d \in Callers \ {c} : my'[d] = my[d]
      /\ my'[c].version = my[c].version /\ my'[c].op = my[c].op /\ my'[c].step = my[c].step
      /\ my'[c].limit = my[c].limit /\ my'[c].wait = my[c].wait /\ my'[c].cur = my[c].cur
  <2>1. CASE UNCHANGED my
    BY <1>1, <2>1 DEF Typed
  <2>2. CASE my' = [my EXCEPT ![c].begun = TRUE]
    <3>1. [my[c] EXCEPT !.begun = TRUE] \in MyRow
      BY <1>1 DEF MyRow
    <3>2. my' = [my EXCEPT ![c] = [my[c] EXCEPT !.begun = TRUE]]
      BY <1>1, <2>2 DEF Typed
    <3>3. my' \in [Callers -> MyRow] /\ my'[c] = [my[c] EXCEPT !.begun = TRUE]
          /\ \A d \in Callers \ {c} : my'[d] = my[d]
      BY <1>1, <3>1, <3>2, RowEdited
    <3> QED BY <1>1, <3>3 DEF MyRow
  <2> QED BY <2>1, <2>2 DEF Restore, Begin
<1>6. Typed'
  BY <1>1, <1>3, <1>4, <1>5 DEF Typed
<1>7. PlacedAt(c) /\ my[c].limit = 0
  BY <1>1, <1>2 DEF Placed, PlacedAt, Starting
<1>8. PlacedAt(c)'
  BY <1>2, <1>3, <1>4, <1>5, <1>7 DEF PlacedAt, Starting
<1>9. Placed'
  BY <1>1, <1>3, <1>4, <1>5, <1>8, PlacedKept
<1>10. ASSUME ~skipped' PROVE Sole'
  <2>1. Sole /\ ~skipped
    BY <1>4, <1>10 DEF PlanInv
  <2>2. my[c].op \in {"resume", "retry"} /\ my[c].version
    BY <1>2, <1>7, <2>1 DEF PlacedAt, Sole, VersionKnown
  <2>3. CASE my[c].op = "resume"
    <3>1. pc'[c] \notin Going
      BY <1>2, <1>3, <2>3 DEF Going
    <3>2. Lessens(c)
      BY <1>3, <1>4, <1>5, <2>2, <2>3, <3>1, NoMoreSucceeds DEF Lessens
    <3> QED BY <1>1, <2>1, <3>2, LessensKeeps
  <2>4. CASE my[c].op # "resume"
    <3>1. Executing(c) /\ ~Working(c) /\ ~Working(c)' /\ pc'[c] \notin {"planning", "claim", "finalize"}
      BY <1>2, <1>3, <2>4 DEF Executing, Working
    <3>2. GoesOn(c)
      BY <1>3, <1>4, <1>5, <2>2, <3>1, NoMoreSucceeds DEF GoesOn
    <3> QED BY <1>1, <2>1, <3>2, GoesOnKeeps
  <2> QED BY <2>3, <2>4
<1> QED BY <1>6, <1>9, <1>10 DEF PlanInv

-----------------------------------------------------------------------------
(* The token is handed on                                                  *)

LEMMA DraftKeeps ==
    ASSUME PlanInv, NEW c \in Callers, Draft(c)
    PROVE  PlanInv'
<1>1. Typed /\ Placed /\ my[c] \in MyRow /\ pc[c] = "planning" /\ Goto(c, "show")
  BY MyRowOf DEF PlanInv, Draft
<1>2. /\ pc' \in [Callers -> Pc] /\ pc'[c] = "show"
      /\ \A d \in Callers \ {c} : pc'[d] = pc[d]
  <2>1. "show" \in Pc /\ pc \in [Callers -> Pc]
    BY <1>1 DEF Pc, Typed
  <2> QED BY <1>1, <2>1, PlacesMove
<1>3. /\ UNCHANGED <<cur, tries, waits, outer, registered, cancelled, answers, faults, skipped>>
      /\ step' = [s \in Steps |-> "PENDING"]
      /\ (plan' = "RUNNING" /\ version' = TRUE) \/ (plan # "PLANNING" /\ UNCHANGED <<plan, version>>)
  BY DEF Draft, Quiet
<1>4. /\ my' \in [Callers -> MyRow] /\ my'[c] = [my[c] EXCEPT !.version = TRUE]
      /\ \A d \in Callers \ {c} : my'[d] = my[d]
  <2>1. [my[c] EXCEPT !.version = TRUE] \in MyRow
    BY <1>1 DEF MyRow
  <2>2. my' = [my EXCEPT ![c] = [my[c] EXCEPT !.version = TRUE]]
    BY <1>1 DEF Draft, Typed
  <2> QED BY <1>1, <2>1, <2>2, RowEdited
<1>5. my'[c].version /\ my'[c].limit = my[c].limit /\ my'[c].op = my[c].op /\ my'[c].step = my[c].step
  BY <1>1, <1>4 DEF MyRow
<1>6. Typed'
  <2>1. step' \in [Steps -> StepStatus]
    BY <1>3 DEF StepStatus
  <2>2. plan' \in PlanStatus /\ version' \in BOOLEAN
    BY <1>1, <1>3 DEF Typed, PlanStatus
  <2> QED BY <1>1, <1>2, <1>3, <1>4, <2>1, <2>2 DEF Typed
<1>7. my[c].limit = 0
  BY <1>1 DEF Placed, PlacedAt, Starting
<1>8. PlacedAt(c)'
  BY <1>2, <1>5, <1>7 DEF PlacedAt, Starting
<1>9. Placed'
  BY <1>1, <1>2, <1>3, <1>4, <1>8, PlacedKept
<1>10. ASSUME ~skipped' PROVE Sole'
  <2>1. Sole
    BY <1>3, <1>10 DEF PlanInv
  <2>2. Executing(c)
    BY <1>1 DEF Executing, Going
  <2>3. \A d \in Callers \ {c} : ~Executing(d) /\ ~Executing(d)'
    <3>1. \A d \in Callers \ {c} : ~Executing(d)
      BY <2>1, <2>2 DEF Sole, OneToken
    <3> QED BY <1>2, <1>4, <3>1 DEF Executing
  <2>4. \A d \in Callers : ~Working(d)' /\ pc'[d] \notin {"planning", "claim", "finalize"}
    BY <1>2, <2>3 DEF Executing, Going, Working
  <2>5. \A s \in Steps : step'[s] = "PENDING" /\ ~Halted(s)'
    BY <1>3 DEF Halted
  <2>6. \A s \in Steps : \A n : ~Succeeded(s, n)'
    BY <1>1, <1>3, <2>1 DEF Sole, DoneOnce, Succeeded
  <2>7. answers' = 0
    BY <1>3, <2>1, <2>2 DEF Sole, OneToken
  <2>8. OneToken'
    BY <2>3, <2>5, <2>7 DEF OneToken
  <2>9. SlotKept'
    BY <2>5 DEF SlotKept
  <2>10. Ordered'
    BY <2>4, <2>5 DEF Ordered
  <2>11. DoneOnce'
    BY <2>4, <2>6 DEF DoneOnce
  <2>12. VersionKnown'
    <3>1. \A d \in Callers : my'[d].op \in {"retry", "resume"} \/ pc'[d] \in Going \ {"planning"} => my'[d].version
      <4>1. \A d \in Callers \ {c} : my[d].op \in {"retry", "resume"} \/ pc[d] \in Going \ {"planning"} => my[d].version
        BY <2>1 DEF Sole, VersionKnown
      <4> QED BY <1>2, <1>4, <1>5, <4>1
    <3>2. (plan' = "RUNNING" => version') /\ (waits' # <<>> => version')
      BY <1>3, <2>1 DEF Sole, VersionKnown
    <3> QED BY <2>4, <2>5, <3>1, <3>2 DEF VersionKnown
  <2> QED BY <2>8, <2>9, <2>10, <2>11, <2>12 DEF Sole
<1> QED BY <1>6, <1>9, <1>10 DEF PlanInv

LEMMA ClaimKeeps ==
    ASSUME PlanInv, NEW c \in Callers, Claim(c)
    PROVE  PlanInv'
<1>0. PICK s : s = my[c].step
  OBVIOUS
<1>1. /\ Typed /\ Placed /\ my[c] \in MyRow /\ pc[c] = "claim"
      /\ s \in Steps /\ s \in 0..NumSteps /\ s # 0 /\ my[c].limit = 0
  <2>1. Typed /\ Placed /\ pc[c] = "claim"
    BY DEF PlanInv, Claim
  <2>2. s # 0 /\ my[c].limit = 0
    BY <1>0, <2>1 DEF Placed, PlacedAt, Starting
  <2> QED BY <1>0, <2>1, <2>2, MyRowOf
<1>2. /\ plan = "RUNNING" /\ cur = 0 /\ step[s] = "PENDING"
      /\ cur' = s /\ step' = [step EXCEPT ![s] = "RUNNING"]
      /\ my' = [my EXCEPT ![c].cur = s]
      /\ UNCHANGED <<plan, version, tries, waits, outer, registered, cancelled, answers, faults, skipped>>
  BY <1>0 DEF Claim, Claimable, Quiet
<1>3. PICK l \in {"attempt", "pause"} : Goto(c, l)
  BY DEF Claim
<1>4. /\ pc' \in [Callers -> Pc] /\ pc'[c] = l
      /\ \A d \in Callers \ {c} : pc'[d] = pc[d]
  <2>1. l \in Pc /\ pc \in [Callers -> Pc]
    BY <1>1 DEF Pc, Typed
  <2> QED BY <1>3, <2>1, PlacesMove
<1>5. /\ my' \in [Callers -> MyRow] /\ my'[c] = [my[c] EXCEPT !.cur = s]
      /\ \A d \in Callers \ {c} : my'[d] = my[d]
  <2>1. [my[c] EXCEPT !.cur = s] \in MyRow
    BY <1>1 DEF MyRow
  <2>2. my' = [my EXCEPT ![c] = [my[c] EXCEPT !.cur = s]]
    BY <1>1, <1>2 DEF Typed
  <2> QED BY <1>1, <2>1, <2>2, RowEdited
<1>6. my'[c].version = my[c].version /\ my'[c].limit = my[c].limit /\ my'[c].op = my[c].op /\ my'[c].step = s
  BY <1>0, <1>1, <1>5 DEF MyRow
<1>7. /\ step' \in [Steps -> StepStatus] /\ step'[s] = "RUNNING"
      /\ \A t \in Steps : t # s => step'[t] = step[t]
  BY <1>1, <1>2 DEF Typed, StepStatus
<1>8. Typed'
  BY <1>1, <1>2, <1>4, <1>5, <1>7 DEF Typed
<1>9. PlacedAt(c)'
  BY <1>1, <1>4, <1>6 DEF PlacedAt, Starting
<1>10. Placed'
  BY <1>1, <1>2, <1>4, <1>5, <1>9, PlacedKept
<1>11. ASSUME ~skipped' PROVE Sole'
  <2>1. Sole
    BY <1>2, <1>11 DEF PlanInv
  <2>2. Executing(c) /\ Executing(c)' /\ Working(c)'
    BY <1>1, <1>4 DEF Executing, Going, Working
  <2>3. \A d \in Callers \ {c} : ~Executing(d) /\ ~Executing(d)'
    <3>1. \A d \in Callers \ {c} : ~Executing(d)
      BY <2>1, <2>2 DEF Sole, OneToken
    <3> QED BY <1>4, <1>5, <3>1 DEF Executing
  <2>4. \A d \in Callers \ {c} : ~Working(d)' /\ pc'[d] \notin {"planning", "claim", "finalize"}
    BY <2>3 DEF Executing, Going, Working
  <2>5. \A t \in Steps : ~Halted(t) /\ ~Halted(t)'
    <3>1. \A t \in Steps : ~Halted(t)
      BY <2>1, <2>2 DEF Sole, OneToken
    <3> QED BY <1>7, <3>1 DEF Halted
  <2>6. \A t \in Steps : step[t] # "RUNNING"
    BY <1>1, <1>2, <2>1, Assumptions DEF Sole, SlotKept, Steps
  <2>7. Before(s)'
    <3>1. \A t \in Steps : t < s => step[t] # "PENDING"
      BY <1>0, <1>1, <2>1 DEF Sole, Ordered
    <3>2. \A t \in Steps : t < s => t # s
      BY <1>1, Assumptions DEF Steps
    <3> QED BY <1>7, <2>5, <2>6, <3>1, <3>2 DEF Before, Halted, Unfinished
  <2>8. \A r \in Steps : \A n : s <= r => ~Succeeded(r, n)
    BY <1>1, <1>2, <2>1 DEF Sole, DoneOnce, Unfinished
  <2>9. \A r \in Steps : \A n : Succeeded(r, n)' <=> Succeeded(r, n)
    BY <1>2 DEF Succeeded
  <2>10. OneToken'
    <3>1. answers' # 1 /\ answers' \in {0, 1}
      BY <1>2, <2>1, <2>2 DEF Sole, OneToken
    <3> QED BY <2>3, <2>5, <3>1 DEF OneToken
  <2>11. SlotKept'
    BY <1>2, <1>6, <1>7, <2>2, <2>3, <2>5, <2>6 DEF SlotKept
  <2>12. Ordered'
    <3>1. \A d \in Callers : Working(d)' => Before(my[d].step)'
      BY <1>6, <2>4, <2>7
    <3>2. \A t \in Steps : step'[t] \in {"RUNNING", "WAITING", "FAILED"} => t = s
      BY <1>7, <2>5, <2>6 DEF Halted
    <3>3. \A d \in Callers : pc'[d] \notin {"claim", "finalize"}
      BY <1>4, <2>4
    <3> QED BY <2>7, <3>1, <3>2, <3>3 DEF Ordered
  <2>13. DoneOnce'
    <3>1. \A r \in Steps : \A n : Succeeded(r, n) => \A t \in Steps : t <= r => step'[t] \notin Unfinished
      BY <1>1, <1>7, <2>1, <2>8 DEF Sole, DoneOnce
    <3> QED BY <1>4, <1>6, <2>1, <2>4, <2>8, <2>9, <3>1 DEF DoneOnce, Sole
  <2>14. VersionKnown'
    <3>1. version /\ version'
      BY <1>2, <2>1 DEF Sole, VersionKnown
    <3>2. \A d \in Callers : pc'[d] \in Going \ {"planning"} \/ my'[d].op \in {"retry", "resume"} => my'[d].version
      <4>1. my[c].version
        BY <1>1, <2>1 DEF Sole, VersionKnown, Going
      <4> QED BY <1>4, <1>5, <1>6, <2>1, <4>1 DEF Sole, VersionKnown
    <3> QED BY <3>1, <3>2 DEF VersionKnown
  <2> QED BY <2>10, <2>11, <2>12, <2>13, <2>14 DEF Sole
<1> QED BY <1>8, <1>10, <1>11 DEF PlanInv

(* What the token says of the step it stands at, worked on or halted.      *)
StandsAt(s) == Halted(s) \/ \E c \in Callers : Working(c) /\ my[c].step = s

LEMMA AtTheToken ==
    ASSUME Typed, Sole, NEW s \in Steps, StandsAt(s)
    PROVE  /\ \A t \in Steps : t # s => ~Halted(t) /\ step[t] # "RUNNING"
           /\ \A d \in Callers : Executing(d) => Working(d) /\ my[d].step = s /\ ~Halted(s)
           /\ \A d \in Callers : pc[d] \notin {"planning", "claim", "finalize"}
           /\ Before(s) /\ version /\ answers = 0
           /\ \A r \in Steps : \A n : s <= r => ~Succeeded(r, n)
           /\ \A r, t \in Steps : \A n : Succeeded(r, n) /\ t <= r => t < s
<1>1. \A d \in Callers : Working(d) => Executing(d)
  BY DEF Working, Executing, Going
<1>2. \A t \in Steps : t # s => ~Halted(t) /\ step[t] # "RUNNING"
  BY <1>1 DEF StandsAt, Sole, OneToken, SlotKept
<1>3. \A d \in Callers : Executing(d) => Working(d) /\ my[d].step = s /\ ~Halted(s)
  BY <1>1 DEF StandsAt, Sole, OneToken
<1>4. \A d \in Callers : pc[d] \notin {"planning", "claim", "finalize"}
  BY <1>3 DEF Executing, Going, Working
<1>5. Before(s) /\ version /\ answers = 0
  BY <1>1 DEF StandsAt, Sole, OneToken, Ordered, VersionKnown, Halted
<1>6. \A r \in Steps : \A n : s <= r => ~Succeeded(r, n)
  BY DEF StandsAt, Sole, DoneOnce, Halted, Unfinished
<1>7. \A r, t \in Steps : \A n : Succeeded(r, n) /\ t <= r => t < s
  <2>1. Steps \subseteq Int
    BY Assumptions DEF Steps
  <2>2. \A r \in Steps : \A n : Succeeded(r, n) => ~ (s <= r)
    BY <1>6
  <2> HIDE DEF Steps, Succeeded
  <2> QED BY <2>1, <2>2
<1> QED BY <1>2, <1>3, <1>4, <1>5, <1>6, <1>7

(* The step it stands at changes, and no caller is given a new one.        *)
LEMMA StepGivesWay ==
    ASSUME Typed, Sole, NEW s \in Steps, StandsAt(s), NEW c \in Callers,
           \A d \in Callers \ {c} : pc'[d] = pc[d] /\ my'[d] = my[d],
           ~Working(c)', Working(c) => my[c].step = s, Executing(c) => Working(c),
           ~Halted(s) => Working(c),
           pc'[c] \notin {"planning", "claim", "finalize"},
           pc'[c] \in Going \/ my'[c].op \in {"retry", "resume"} => my'[c].version,
           \A t \in Steps : t # s => step'[t] = step[t] \/ (step'[t] = "PENDING" /\ s < t),
           step'[s] # "RUNNING",
           Halted(s)' => ~Executing(c)',
           \A t \in Steps : \A n : Succeeded(t, n)' =>
              Succeeded(t, n) \/ (t = s /\ step'[s] = "SUCCEEDED"),
           \A n, m : Succeeded(s, n)' /\ Succeeded(s, m)' => n = m,
           version' = version, answers' = answers
    PROVE  Sole'
<1>1. /\ \A t \in Steps : t # s => ~Halted(t) /\ step[t] # "RUNNING"
      /\ \A d \in Callers : Executing(d) => Working(d) /\ my[d].step = s /\ ~Halted(s)
      /\ \A d \in Callers : pc[d] \notin {"planning", "claim", "finalize"}
      /\ Before(s) /\ version /\ answers = 0
      /\ \A r \in Steps : \A n : s <= r => ~Succeeded(r, n)
      /\ \A r, t \in Steps : \A n : Succeeded(r, n) /\ t <= r => t < s
  BY AtTheToken
<1>2. Steps \subseteq Int
  BY Assumptions DEF Steps
<1>3. \A d \in Callers \ {c} : ~Executing(d) /\ ~Executing(d)' /\ ~Working(d)'
  <2>1. \A d \in Callers \ {c} : ~Executing(d)
    <3>1. Halted(s) => \A d \in Callers : ~Executing(d)
      BY <1>1
    <3>2. Working(c) => Executing(c)
      BY DEF Working, Executing, Going
    <3> QED BY <3>1, <3>2 DEF Sole, OneToken
  <2> QED BY <2>1 DEF Executing, Going, Working
<1>4. \A d \in Callers : ~Working(d)' /\ pc'[d] \notin {"planning", "claim", "finalize"}
  BY <1>1, <1>3
<1>5. \A t \in Steps : t # s => ~Halted(t)' /\ step'[t] # "RUNNING"
  BY <1>1 DEF Halted
<1>6. \A t \in Steps : t < s => step'[t] = step[t]
  <2> HIDE DEF Steps
  <2> QED BY <1>2
<1>7. OneToken'
  BY <1>1, <1>3, <1>5 DEF OneToken
<1>8. SlotKept'
  BY <1>5 DEF SlotKept
<1>9. Ordered'
  <2>1. Before(s)'
    BY <1>1, <1>6 DEF Before
  <2> QED BY <1>4, <1>5, <2>1 DEF Ordered, Halted
<1>10. DoneOnce'
  <2>1. ASSUME NEW r \in Steps, NEW n, Succeeded(r, n)', NEW t \in Steps, t <= r
        PROVE  step'[t] \notin Unfinished
    <3>1. CASE Succeeded(r, n)
      <4>1. t < s
        BY <1>1, <2>1, <3>1
      <4> QED BY <1>6, <2>1, <3>1, <4>1 DEF Sole, DoneOnce
    <3>2. CASE r = s /\ step'[s] = "SUCCEEDED"
      <4>1. t = s \/ t < s
        <5> HIDE DEF Steps
        <5> QED BY <1>2, <2>1, <3>2
      <4> QED BY <1>1, <1>6, <3>2, <4>1 DEF Before, Unfinished
    <3> QED BY <2>1, <3>1, <3>2
  <2>2. \A t \in Steps : \A n, m : Succeeded(t, n)' /\ Succeeded(t, m)' => n = m
    BY DEF Sole, DoneOnce
  <2> QED BY <1>4, <2>1, <2>2 DEF DoneOnce
<1>11. VersionKnown'
  BY <1>1, <1>3 DEF Sole, VersionKnown
<1> QED BY <1>7, <1>8, <1>9, <1>10, <1>11 DEF Sole

LEMMA RowDone ==
    ASSUME NEW m \in MyRow
    PROVE  /\ [m EXCEPT !.cur = 0, !.step = 0] \in MyRow
           /\ [m EXCEPT !.cur = 0, !.step = 0].version = m.version
           /\ [m EXCEPT !.cur = 0, !.step = 0].op = m.op
           /\ [m EXCEPT !.cur = 0, !.step = 0].limit = m.limit
<1>1. 0 \in 0..NumSteps
  BY Assumptions
<1>2. PICK a : a = [m EXCEPT !.cur = 0]
  OBVIOUS
<1>3. a \in MyRow /\ a.version = m.version /\ a.op = m.op /\ a.limit = m.limit
  BY <1>1, <1>2 DEF MyRow
<1>4. PICK b : b = [a EXCEPT !.step = 0]
  OBVIOUS
<1>5. b \in MyRow /\ b.version = m.version /\ b.op = m.op /\ b.limit = m.limit
  BY <1>1, <1>3, <1>4 DEF MyRow
<1>6. b = [m EXCEPT !.cur = 0, !.step = 0]
  BY ONLY <1>2, <1>4, Zenon
<1> QED BY <1>5, <1>6

(* The work of a step ends, or waits for the user.                         *)
LEMMA WorkEndsKeeps ==
    ASSUME PlanInv, NEW c \in Callers, Succeed(c) \/ StepFails(c) \/ Pause(c)
    PROVE  PlanInv'
<1>0. PICK s : s = my[c].step
  OBVIOUS
<1>1. /\ Typed /\ Placed /\ my[c] \in MyRow /\ pc[c] \in {"work", "pause"}
      /\ s \in Steps /\ s \in 0..NumSteps /\ NumSteps \in Nat
  <2>1. Typed /\ Placed /\ pc[c] \in {"work", "pause"}
    BY DEF PlanInv, Succeed, StepFails, Pause
  <2>2. s # 0
    BY <1>0, <2>1 DEF Placed, PlacedAt
  <2> QED BY <1>0, <2>1, <2>2, MyRowOf
<1>2. PICK l, new :
        /\ Goto(c, l) /\ step' = [step EXCEPT ![s] = new]
        /\ \/ l = "loop" /\ new = "SUCCEEDED" /\ Succeed(c)
           \/ l = "failSteps" /\ new = "FAILED" /\ StepFails(c)
           \/ l = "paused" /\ new = "WAITING" /\ Pause(c)
  BY <1>0 DEF Succeed, StepFails, Pause
<1>3. /\ pc' \in [Callers -> Pc] /\ pc'[c] = l
      /\ \A d \in Callers \ {c} : pc'[d] = pc[d]
  <2>1. l \in Pc /\ pc \in [Callers -> Pc]
    BY <1>1, <1>2 DEF Pc, Typed
  <2> QED BY <1>2, <2>1, PlacesMove
<1>4. /\ step' \in [Steps -> StepStatus] /\ step'[s] = new
      /\ \A t \in Steps : t # s => step'[t] = step[t]
  <2>1. new \in StepStatus /\ step \in [Steps -> StepStatus]
    BY <1>1, <1>2 DEF Typed, StepStatus
  <2> QED BY <1>1, <1>2, <2>1
<1>5. /\ UNCHANGED <<version, outer, registered, cancelled, answers, faults, skipped>>
      /\ plan' \in PlanStatus /\ cur' \in 0..NumSteps
  <2>1. cur \in 0..NumSteps /\ plan \in PlanStatus
    BY <1>1 DEF Typed
  <2>2. {"FAILED", "WAIT"} \subseteq PlanStatus
    BY DEF PlanStatus
  <2> QED BY <1>0, <1>1, <2>1, <2>2 DEF Succeed, StepFails, Pause, Quiet
<1>6. /\ my' \in [Callers -> MyRow]
      /\ \A d \in Callers \ {c} : my'[d] = my[d]
      /\ my'[c].version = my[c].version /\ my'[c].op = my[c].op
      /\ l = "loop" => my'[c].limit = 0
  <2>1. CASE l = "loop"
    <3> DEFINE row == [my[c] EXCEPT !.cur = 0, !.step = 0, !.attempt = 0, !.limit = 0]
    <3>1. /\ row \in MyRow /\ row.version = my[c].version /\ row.op = my[c].op /\ row.limit = 0
      <4>1. PICK m : m = [my[c] EXCEPT !.cur = 0, !.step = 0]
        OBVIOUS
      <4>2. m \in MyRow /\ m.version = my[c].version /\ m.op = my[c].op
        BY <1>1, <4>1, RowDone
      <4>3. PICK r : r = [m EXCEPT !.attempt = 0, !.limit = 0]
        OBVIOUS
      <4>4. r \in MyRow /\ r.version = my[c].version /\ r.op = my[c].op /\ r.limit = 0
        BY <4>2, <4>3 DEF MyRow
      <4> QED BY ONLY <4>1, <4>3, <4>4, Zenon
    <3>2. my' = [my EXCEPT ![c] = row]
      BY <1>1, <1>2, <2>1 DEF Succeed, Typed
    <3> HIDE DEF row
    <3> QED BY <1>1, <3>1, <3>2, RowEdited
  <2>2. CASE l # "loop"
    BY <1>1, <1>2, <2>2 DEF StepFails, Pause, Typed
  <2> QED BY <2>1, <2>2
<1>7. /\ tries' \in [Steps -> Seq(TryStatus)]
      /\ \A t \in Steps : \A n : Succeeded(t, n)' =>
           Succeeded(t, n) \/ (new = "SUCCEEDED" /\ t = s /\ n = my[c].attempt)
  <2>1. CASE Pause(c)
    BY <1>1, <2>1, NoMoreSucceeds DEF Pause, Typed
  <2>2. CASE Succeed(c) \/ StepFails(c)
    <3>1. PICK status \in TryStatus : AttemptEnds(c, status) /\ (status = "SUCCEEDED" => Succeed(c))
      BY <2>2 DEF Succeed, StepFails, TryStatus
    <3>2. Succeed(c) => new = "SUCCEEDED"
      <4>1. Succeed(c) => pc'[c] = "loop"
        BY <1>1 DEF Succeed, Goto, Typed
      <4> QED BY <1>2, <1>3, <4>1
    <3> QED BY <1>0, <1>1, <3>1, <3>2, AttemptGetsEnd
  <2> QED BY <1>2, <2>1, <2>2
<1>8. waits' \in Seq(WaitRow) /\ DOMAIN waits \subseteq DOMAIN waits'
  <2>1. CASE waits' = waits
    BY <1>1, <2>1 DEF Typed
  <2>2. CASE waits' = Append(waits, [step |-> s, status |-> "PENDING"])
    <3>1. [step |-> s, status |-> "PENDING"] \in WaitRow /\ waits \in Seq(WaitRow)
      BY <1>1 DEF WaitRow, Typed
    <3> QED BY <2>2, <3>1
  <2> QED BY <1>0, <2>1, <2>2 DEF Succeed, StepFails, Pause
<1>9. Typed'
  BY <1>1, <1>3, <1>4, <1>5, <1>6, <1>7, <1>8 DEF Typed
<1>10. PlacedAt(c)'
  BY <1>2, <1>3, <1>6 DEF PlacedAt, Starting
<1>11. Placed'
  BY <1>1, <1>3, <1>5, <1>6, <1>8, <1>10, PlacedKept
<1>12. ASSUME ~skipped' PROVE Sole'
  <2>1. Sole
    BY <1>5, <1>12 DEF PlanInv
  <2>2. Working(c) /\ StandsAt(s) /\ ~Working(c)'
    BY <1>0, <1>1, <1>2, <1>3 DEF Working, StandsAt
  <2>3. my'[c].version
    BY <1>1, <1>6, <2>1 DEF Sole, VersionKnown, Going
  <2>4. new # "RUNNING" /\ pc'[c] \notin {"planning", "claim", "finalize"}
    BY <1>2, <1>3
  <2>5. Halted(s)' => ~Executing(c)'
    BY <1>2, <1>3, <1>4 DEF Halted, Executing, Going
  <2>6. \A n : ~Succeeded(s, n)
    BY <1>1, <2>1, <2>2, AtTheToken DEF Steps
  <2>7. \A n, m : Succeeded(s, n)' /\ Succeeded(s, m)' => n = m
    BY <1>1, <1>7, <2>6
  <2> QED BY <1>0, <1>1, <1>3, <1>4, <1>5, <1>6, <1>7, <2>1, <2>2, <2>3, <2>4, <2>5, <2>7, StepGivesWay
<1> QED BY <1>9, <1>11, <1>12 DEF PlanInv

(* A failed step is taken up again by a retry.                             *)
LEMMA RetryKeeps ==
    ASSUME PlanInv, NEW c \in Callers, RetryStep(c), Retryable(my[c].step)
    PROVE  PlanInv'
<1>0. PICK s : s = my[c].step
  OBVIOUS
<1>1. /\ Typed /\ Placed /\ my[c] \in MyRow /\ pc[c] = "retry" /\ my[c].op = "retry"
      /\ s \in Steps /\ NumSteps \in Nat /\ my[c].limit = 0
  <2>1. Typed /\ Placed /\ pc[c] = "retry"
    BY DEF PlanInv, RetryStep
  <2>2. s # 0 /\ my[c].op = "retry" /\ my[c].limit = 0
    BY <1>0, <2>1 DEF Placed, PlacedAt, Starting
  <2> QED BY <1>0, <2>1, <2>2, MyRowOf
<1>2. /\ step[s] = "FAILED" /\ step' = Reopened(s)
      /\ plan' = "RUNNING" /\ cur' = 0 /\ outer' = "running" /\ Goto(c, "restore")
      /\ my' = [my EXCEPT ![c].cur = 0, ![c].step = 0]
      /\ UNCHANGED <<version, tries, waits, registered, cancelled, answers, faults, skipped>>
  BY <1>0 DEF RetryStep, Retryable, Revived
<1>3. /\ pc' \in [Callers -> Pc] /\ pc'[c] = "restore"
      /\ \A d \in Callers \ {c} : pc'[d] = pc[d]
  <2>1. "restore" \in Pc /\ pc \in [Callers -> Pc]
    BY <1>1 DEF Pc, Typed
  <2> QED BY <1>2, <2>1, PlacesMove
<1>4. /\ my' \in [Callers -> MyRow]
      /\ \A d \in Callers \ {c} : my'[d] = my[d]
      /\ my'[c].version = my[c].version /\ my'[c].op = "retry" /\ my'[c].limit = 0
  <2> DEFINE row == [my[c] EXCEPT !.cur = 0, !.step = 0]
  <2>1. /\ row \in MyRow /\ row.version = my[c].version /\ row.op = "retry" /\ row.limit = 0
    BY <1>1, RowDone
  <2>2. my' = [my EXCEPT ![c] = row]
    BY <1>1, <1>2 DEF Typed
  <2> HIDE DEF row
  <2> QED BY <1>1, <2>1, <2>2, RowEdited
<1>5. /\ step' \in [Steps -> StepStatus] /\ step'[s] = "PENDING"
      /\ \A t \in Steps : t # s => step'[t] = step[t] \/ (step'[t] = "PENDING" /\ s < t)
  <2>1. "PENDING" \in StepStatus /\ step \in [Steps -> StepStatus]
    BY <1>1 DEF StepStatus, Typed
  <2>2. \A t \in Steps : t > s => s < t
    BY <1>1 DEF Steps
  <2> HIDE DEF Steps
  <2> QED BY <1>1, <1>2, <2>1, <2>2 DEF Reopened
<1>6. Typed'
  <2>1. plan' \in PlanStatus /\ cur' \in 0..NumSteps /\ outer' \in RunState
    BY <1>1, <1>2 DEF PlanStatus, RunState
  <2> QED BY <1>1, <1>2, <1>3, <1>4, <1>5, <2>1 DEF Typed
<1>7. PlacedAt(c)'
  BY <1>3, <1>4 DEF PlacedAt, Starting
<1>8. Placed'
  BY <1>1, <1>2, <1>3, <1>4, <1>7, PlacedKept
<1>9. ASSUME ~skipped' PROVE Sole'
  <2>1. Sole
    BY <1>2, <1>9 DEF PlanInv
  <2>2. Halted(s) /\ StandsAt(s) /\ ~Halted(s)'
    BY <1>2, <1>5 DEF Halted, StandsAt
  <2>3. my'[c].version
    BY <1>1, <1>4, <2>1 DEF Sole, VersionKnown
  <2>4. /\ ~Working(c) /\ ~Working(c)' /\ ~Executing(c)
        /\ pc'[c] \notin {"planning", "claim", "finalize"}
    BY <1>1, <1>3 DEF Working, Executing, Going
  <2>5. \A t \in Steps : \A n : Succeeded(t, n)' <=> Succeeded(t, n)
    BY <1>2 DEF Succeeded
  <2>6. \A n, m : Succeeded(s, n)' /\ Succeeded(s, m)' => n = m
    BY <1>1, <2>1, <2>5 DEF Sole, DoneOnce
  <2> QED BY <1>1, <1>2, <1>3, <1>4, <1>5, <2>1, <2>2, <2>3, <2>4, <2>5, <2>6, StepGivesWay
<1> QED BY <1>6, <1>8, <1>9 DEF PlanInv

(* The user's answer is taken.                                             *)
LEMMA ResolveKeeps ==
    ASSUME PlanInv, NEW c \in Callers, Resolve(c)
    PROVE  PlanInv'
<1>0. PICK s, w : s = my[c].step /\ w = my[c].wait
  OBVIOUS
<1>1. /\ Typed /\ Placed /\ my[c] \in MyRow /\ pc[c] = "resolve" /\ my[c].op = "resume"
      /\ s \in Steps /\ NumSteps \in Nat /\ my[c].limit = 0 /\ w \in DOMAIN waits
  <2>1. Typed /\ Placed /\ pc[c] = "resolve"
    BY DEF PlanInv, Resolve
  <2>2. my[c].op = "resume" /\ my[c].limit = 0
    BY <2>1 DEF Placed, PlacedAt, Starting
  <2>3. s # 0 /\ w \in DOMAIN waits
    BY <1>0, <2>1, <2>2 DEF Placed, PlacedAt
  <2> QED BY <1>0, <2>1, <2>2, <2>3, MyRowOf
<1>2. /\ step[s] = "WAITING" /\ tries[s] = <<>>
      /\ waits' = [waits EXCEPT ![w].status = "RESOLVED"]
      /\ tries' = [tries EXCEPT ![s] = Append(@, "SUCCEEDED")]
      /\ step' = [step EXCEPT ![s] = "SUCCEEDED"]
      /\ plan' = "RUNNING" /\ cur' = 0 /\ Goto(c, "show")
      /\ my' = [my EXCEPT ![c].cur = 0, ![c].step = 0, ![c].wait = 0]
      /\ UNCHANGED <<version, outer, registered, cancelled, answers, faults, skipped>>
  BY <1>0 DEF Resolve, Resolvable, Quiet
<1>3. /\ pc' \in [Callers -> Pc] /\ pc'[c] = "show"
      /\ \A d \in Callers \ {c} : pc'[d] = pc[d]
  <2>1. "show" \in Pc /\ pc \in [Callers -> Pc]
    BY <1>1 DEF Pc, Typed
  <2> QED BY <1>2, <2>1, PlacesMove
<1>4. /\ my' \in [Callers -> MyRow]
      /\ \A d \in Callers \ {c} : my'[d] = my[d]
      /\ my'[c].version = my[c].version /\ my'[c].op = "resume" /\ my'[c].limit = 0
  <2> DEFINE row == [my[c] EXCEPT !.cur = 0, !.step = 0, !.wait = 0]
  <2>1. /\ row \in MyRow /\ row.version = my[c].version /\ row.op = "resume" /\ row.limit = 0
    <3>1. PICK m : m = [my[c] EXCEPT !.cur = 0, !.step = 0]
      OBVIOUS
    <3>2. m \in MyRow /\ m.version = my[c].version /\ m.op = "resume" /\ m.limit = 0
      BY <1>1, <3>1, RowDone
    <3>3. PICK r : r = [m EXCEPT !.wait = 0]
      OBVIOUS
    <3>4. r \in MyRow /\ r.version = my[c].version /\ r.op = "resume" /\ r.limit = 0
      BY <3>2, <3>3 DEF MyRow
    <3> QED BY ONLY <3>1, <3>3, <3>4, Zenon
  <2>2. my' = [my EXCEPT ![c] = row]
    BY <1>1, <1>2 DEF Typed
  <2> HIDE DEF row
  <2> QED BY <1>1, <2>1, <2>2, RowEdited
<1>5. /\ step' \in [Steps -> StepStatus] /\ step'[s] = "SUCCEEDED"
      /\ \A t \in Steps : t # s => step'[t] = step[t]
  <2>1. "SUCCEEDED" \in StepStatus /\ step \in [Steps -> StepStatus]
    BY <1>1 DEF StepStatus, Typed
  <2> QED BY <1>1, <1>2, <2>1
<1>6. /\ tries' \in [Steps -> Seq(TryStatus)] /\ DOMAIN tries'[s] = {1}
      /\ \A t \in Steps : t # s => tries'[t] = tries[t]
  <2>1. "SUCCEEDED" \in TryStatus /\ tries \in [Steps -> Seq(TryStatus)]
    BY <1>1 DEF TryStatus, Typed
  <2>2. Append(tries[s], "SUCCEEDED") \in Seq(TryStatus) /\ Append(tries[s], "SUCCEEDED") = <<"SUCCEEDED">>
    BY <1>1, <1>2, <2>1
  <2>3. tries'[s] = Append(tries[s], "SUCCEEDED")
    BY <1>1, <1>2, <2>1
  <2>4. DOMAIN tries'[s] = {1}
    BY <2>2, <2>3
  <2>5. tries' = [tries EXCEPT ![s] = Append(tries[s], "SUCCEEDED")]
    BY <1>2
  <2> QED BY <1>1, <2>1, <2>2, <2>4, <2>5
<1>7. waits' \in Seq(WaitRow) /\ DOMAIN waits' = DOMAIN waits
  <2>1. waits \in Seq(WaitRow) /\ waits[w] \in WaitRow
    BY <1>1 DEF Typed
  <2>2. [waits[w] EXCEPT !.status = "RESOLVED"] \in WaitRow
    BY <2>1 DEF WaitRow
  <2>3. waits' = [waits EXCEPT ![w] = [waits[w] EXCEPT !.status = "RESOLVED"]]
    BY <1>2
  <2> QED BY <2>1, <2>2, <2>3, SeqEdited
<1>8. Typed'
  <2>1. plan' \in PlanStatus /\ cur' \in 0..NumSteps
    BY <1>1, <1>2 DEF PlanStatus
  <2> QED BY <1>1, <1>2, <1>3, <1>4, <1>5, <1>6, <1>7, <2>1 DEF Typed
<1>9. PlacedAt(c)'
  BY <1>3, <1>4 DEF PlacedAt, Starting
<1>10. Placed'
  BY <1>1, <1>2, <1>3, <1>4, <1>7, <1>9, PlacedKept
<1>11. ASSUME ~skipped' PROVE Sole'
  <2>1. Sole
    BY <1>2, <1>11 DEF PlanInv
  <2>2. Halted(s) /\ StandsAt(s) /\ ~Halted(s)'
    BY <1>2, <1>5 DEF Halted, StandsAt
  <2>3. my'[c].version
    BY <1>1, <1>4, <2>1 DEF Sole, VersionKnown
  <2>4. /\ ~Working(c) /\ ~Working(c)' /\ ~Executing(c)
        /\ pc'[c] \notin {"planning", "claim", "finalize"}
    BY <1>1, <1>3 DEF Working, Executing, Going
  <2>5. \A t \in Steps : \A n : Succeeded(t, n)' => Succeeded(t, n) \/ (t = s /\ step'[s] = "SUCCEEDED")
    BY <1>5, <1>6 DEF Succeeded
  <2>6. \A n, m : Succeeded(s, n)' /\ Succeeded(s, m)' => n = m
    BY <1>6 DEF Succeeded
  <2> QED BY <1>1, <1>2, <1>3, <1>4, <1>5, <2>1, <2>2, <2>3, <2>4, <2>5, <2>6, StepGivesWay
<1> QED BY <1>8, <1>10, <1>11 DEF PlanInv

(* The final answer takes the token with it.                               *)
LEMMA AnswerKeeps ==
    ASSUME PlanInv, NEW c \in Callers, Answer(c)
    PROVE  PlanInv'
<1>1. /\ Typed /\ Placed /\ pc[c] = "answer" /\ Goto(c, "report")
      /\ outer' = "finished" /\ answers' = answers + 1
      /\ UNCHANGED <<plan, cur, version, step, tries, waits, registered, cancelled, my, faults, skipped>>
  BY DEF PlanInv, Answer, rows
<1>2. /\ pc' \in [Callers -> Pc] /\ pc'[c] = "report"
      /\ \A d \in Callers \ {c} : pc'[d] = pc[d]
  <2>1. "report" \in Pc /\ pc \in [Callers -> Pc]
    BY <1>1 DEF Pc, Typed
  <2> QED BY <1>1, <2>1, PlacesMove
<1>3. Typed'
  BY <1>1, <1>2 DEF Typed, RunState
<1>4. PlacedAt(c)'
  BY <1>2 DEF PlacedAt, Starting
<1>5. Placed'
  BY <1>1, <1>2, <1>4, PlacedKept
<1>6. ASSUME ~skipped' PROVE Sole'
  <2>1. Sole
    BY <1>1, <1>6 DEF PlanInv
  <2>2. Executing(c) /\ ~Working(c)
    BY <1>1 DEF Executing, Going, Working
  <2>3. \A d \in Callers : ~Executing(d)' /\ ~Working(d)' /\ pc'[d] \notin {"planning", "claim", "finalize"}
    <3>1. \A d \in Callers \ {c} : ~Executing(d)
      BY <2>1, <2>2 DEF Sole, OneToken
    <3> QED BY <1>1, <1>2, <3>1 DEF Executing, Going, Working
  <2>4. \A s \in Steps : ~Halted(s) /\ ~Halted(s)'
    BY <1>1, <2>1, <2>2 DEF Sole, OneToken, Halted
  <2>5. \A s \in Steps : step'[s] # "RUNNING"
    BY <1>1, <2>1, <2>2 DEF Sole, SlotKept
  <2>6. answers' = 1
    BY <1>1, <2>1, <2>2 DEF Sole, OneToken
  <2>7. OneToken'
    BY <2>3, <2>4, <2>6 DEF OneToken
  <2>8. SlotKept'
    BY <2>5 DEF SlotKept
  <2>9. Ordered'
    BY <2>3, <2>4, <2>5 DEF Ordered, Halted
  <2>10. DoneOnce'
    BY <1>1, <2>1, <2>3 DEF Sole, DoneOnce, Succeeded
  <2>11. VersionKnown'
    BY <1>1, <1>2, <2>1, <2>3 DEF Sole, VersionKnown, Going
  <2> QED BY <2>7, <2>8, <2>9, <2>10, <2>11 DEF Sole
<1> QED BY <1>3, <1>5, <1>6 DEF PlanInv

(* A skip: from here on the types and places are all that is left.         *)
LEMMA SkipKeeps ==
    ASSUME PlanInv, NEW c \in Callers, SkipStep(c), Skippable(my[c].step)
    PROVE  PlanInv'
<1>0. PICK s : s = my[c].step
  OBVIOUS
<1>1. /\ Typed /\ Placed /\ my[c] \in MyRow /\ my[c].limit = 0 /\ my[c].op = "skip"
      /\ s \in Steps /\ NumSteps \in Nat
  <2>1. Typed /\ Placed /\ pc[c] = "skip"
    BY DEF PlanInv, SkipStep
  <2>2. s # 0 /\ my[c].limit = 0 /\ my[c].op = "skip"
    BY <1>0, <2>1 DEF Placed, PlacedAt, Starting
  <2> QED BY <1>0, <2>1, <2>2, MyRowOf
<1>2. /\ step' = [step EXCEPT ![s] = "SKIPPED"]
      /\ waits' = [i \in DOMAIN waits |->
           IF my[c].waiting /\ waits[i] = [step |-> s, status |-> "PENDING"]
           THEN [waits[i] EXCEPT !.status = "CANCELLED"] ELSE waits[i]]
      /\ plan' = "RUNNING" /\ cur' = 0 /\ outer' = "running" /\ Goto(c, "restore") /\ skipped'
      /\ skipped' \in BOOLEAN
      /\ my' = [my EXCEPT ![c].cur = 0, ![c].step = 0]
      /\ UNCHANGED <<version, tries, registered, cancelled, answers, faults>>
  BY <1>0 DEF SkipStep, Revived
<1>3. /\ pc' \in [Callers -> Pc] /\ pc'[c] = "restore"
      /\ \A d \in Callers \ {c} : pc'[d] = pc[d]
  <2>1. "restore" \in Pc /\ pc \in [Callers -> Pc]
    BY <1>1 DEF Pc, Typed
  <2> QED BY <1>2, <2>1, PlacesMove
<1>4. /\ my' \in [Callers -> MyRow]
      /\ \A d \in Callers \ {c} : my'[d] = my[d]
      /\ my'[c].op = my[c].op /\ my'[c].limit = 0
  <2> DEFINE row == [my[c] EXCEPT !.cur = 0, !.step = 0]
  <2>1. /\ row \in MyRow /\ row.op = my[c].op /\ row.limit = 0
    BY <1>1, RowDone
  <2>2. my' = [my EXCEPT ![c] = row]
    BY <1>1, <1>2 DEF Typed
  <2> HIDE DEF row
  <2> QED BY <1>1, <2>1, <2>2, RowEdited
<1>5. step' \in [Steps -> StepStatus]
  BY <1>1, <1>2 DEF StepStatus, Typed
<1>6. waits' \in Seq(WaitRow) /\ DOMAIN waits' = DOMAIN waits
  <2>1. \A v \in WaitRow : [v EXCEPT !.status = "CANCELLED"] \in WaitRow
    BY DEF WaitRow
  <2>2. waits \in Seq(WaitRow) /\ Len(waits) \in Nat /\ \A i \in 1..Len(waits) : waits[i] \in WaitRow
    BY <1>1 DEF Typed
  <2>3. waits' \in [1..Len(waits) -> WaitRow]
    BY <1>2, <2>1, <2>2
  <2> QED BY <2>2, <2>3
<1>7. Typed'
  <2>1. plan' \in PlanStatus /\ cur' \in 0..NumSteps /\ outer' \in RunState
    BY <1>1, <1>2 DEF PlanStatus, RunState
  <2> QED BY <1>1, <1>2, <1>3, <1>4, <1>5, <1>6, <2>1 DEF Typed
<1>8. PlacedAt(c)'
  BY <1>1, <1>2, <1>3, <1>4 DEF PlacedAt, Starting
<1>9. Placed'
  BY <1>1, <1>2, <1>3, <1>4, <1>6, <1>8, PlacedKept
<1> QED BY <1>2, <1>7, <1>9 DEF PlanInv

-----------------------------------------------------------------------------
(* Every step of every caller                                              *)

LEMMA PlanInit == Init => PlanInv
<1> SUFFICES ASSUME Init PROVE PlanInv
  OBVIOUS
<1>1. /\ plan = "PLANNING" /\ cur = 0 /\ version = FALSE /\ waits = <<>>
      /\ step = [s \in Steps |-> "ABSENT"] /\ tries = [s \in Steps |-> <<>>]
      /\ outer = "running" /\ registered = Runner /\ cancelled = {} /\ answers = 0
      /\ faults = 0 /\ skipped = FALSE
      /\ pc = [c \in Callers |-> IF c = Runner THEN "planning" ELSE "idle"]
      /\ my = [c \in Callers |-> IF c = Runner THEN [Fresh EXCEPT !.op = "run", !.begun = TRUE] ELSE Fresh]
  BY DEF Init
<1>2. PICK row : row = [Fresh EXCEPT !.op = "run", !.begun = TRUE]
  OBVIOUS
<1>3. /\ row \in MyRow /\ row.op = "run" /\ row.limit = 0 /\ Fresh.op = "none" /\ Fresh.limit = 0
      /\ Fresh \in MyRow
  BY <1>2, FreshRow DEF Fresh, MyRow, Orders
<1>4. my \in [Callers -> MyRow] /\ \A c \in Callers : my[c] \in {row, Fresh}
  BY <1>1, <1>2, <1>3
<1>5. pc \in [Callers -> Pc] /\ \A c \in Callers : pc[c] \in {"planning", "idle"} /\ (pc[c] = "planning" => c = Runner)
  BY <1>1 DEF Pc
<1>6. \A c \in Callers : my[c].op \in {"run", "none"} /\ my[c].limit = 0
  BY <1>3, <1>4
<1>7. Typed
  <2>1. MaxFaults \in Nat /\ NumSteps \in Nat /\ Runner \in Callers
    BY Assumptions
  <2>2. <<>> \in Seq(TryStatus) /\ <<>> \in Seq(WaitRow)
    OBVIOUS
  <2>3. step \in [Steps -> StepStatus] /\ tries \in [Steps -> Seq(TryStatus)]
    BY <1>1, <2>2 DEF StepStatus
  <2>4. plan \in PlanStatus /\ outer \in RunState
    BY <1>1 DEF PlanStatus, RunState
  <2>5. cur \in 0..NumSteps /\ faults \in 0..MaxFaults /\ answers \in Nat
    BY <1>1, <2>1
  <2>6. version \in BOOLEAN /\ skipped \in BOOLEAN /\ waits \in Seq(WaitRow)
    BY <1>1, <2>2
  <2>7. registered \in Callers \cup {Nobody} /\ cancelled \subseteq Callers
    BY <1>1, <2>1
  <2> QED BY <1>4, <1>5, <2>3, <2>4, <2>5, <2>6, <2>7 DEF Typed
<1>8. Placed
  BY <1>5, <1>6 DEF Placed, PlacedAt, Starting
<1>9. Sole
  <2>1. \A s \in Steps : step[s] = "ABSENT" /\ ~Halted(s) /\ tries[s] = <<>>
    BY <1>1 DEF Halted
  <2>2. \A c \in Callers : ~Working(c) /\ (Executing(c) => c = Runner)
    BY <1>5 DEF Working, Executing, Going
  <2>3. OneToken
    BY <1>1, <2>1, <2>2 DEF OneToken
  <2>4. SlotKept
    BY <2>1 DEF SlotKept
  <2>5. Ordered
    BY <1>5, <2>1, <2>2 DEF Ordered
  <2>6. DoneOnce
    BY <2>1, <2>2 DEF DoneOnce, Succeeded
  <2>7. VersionKnown
    BY <1>1, <1>5, <1>6, <2>1, <2>2 DEF VersionKnown, Going
  <2> QED BY <2>3, <2>4, <2>5, <2>6, <2>7 DEF Sole
<1> QED BY <1>7, <1>8, <1>9 DEF PlanInv

LEMMA PlanStep == PlanInv /\ [Next]_vars => PlanInv'
<1> SUFFICES ASSUME PlanInv, [Next]_vars PROVE PlanInv'
  OBVIOUS
<1>1. CASE UNCHANGED vars
  <2>1. cancelled' \subseteq Callers
    BY <1>1 DEF vars, PlanInv, Typed
  <2> QED BY <1>1, <2>1, NothingMoves DEF vars
<1>2. ASSUME NEW c \in Callers, Execute(c) PROVE PlanInv'
  BY <1>2, CallerEnds, StepsEnd, StartGoesOn, AttemptGoesOn, DraftKeeps, ClaimKeeps, WorkEndsKeeps, AnswerKeeps
     DEF Execute
<1>3. ASSUME NEW c \in Callers, WindUp(c) PROVE PlanInv'
  BY <1>3, CallerEnds, StepsEnd, CallerGone DEF WindUp
<1>4. ASSUME NEW c \in Callers, Command(c) PROVE PlanInv'
  BY <1>4, CallerEnds, CallerGone, StopGoesOn, RestoreGoesOn, RetryKeeps, SkipKeeps, ResolveKeeps
     DEF Command
<1>5. ASSUME NEW c \in Callers, User(c) PROVE PlanInv'
  BY <1>5, UserKeeps
<1>6. ASSUME NEW c \in Callers, ShowFails(c) \/ Fault(c) PROVE PlanInv'
  BY <1>6, CallerEnds
<1> QED BY <1>1, <1>2, <1>3, <1>4, <1>5, <1>6 DEF Next, Work

(* The invariant behind the theorems below.                                *)
THEOREM PlanInvHolds == Spec => []PlanInv
  BY PlanInit, PlanStep, PTL DEF Spec

-----------------------------------------------------------------------------
(* What it says of the plan                                                *)

(* The types hold, and an attempt stays within the limit its executor took. *)
THEOREM PlanTypesHold == Spec => []TypeOK
<1>1. PlanInv => TypeOK
  <2> SUFFICES ASSUME PlanInv PROVE TypeOK
    OBVIOUS
  <2>1. Typed /\ Placed
    BY DEF PlanInv
  <2>2. ASSUME NEW c \in Callers, pc[c] = "work"
        PROVE  my[c].step \in Steps /\ my[c].attempt \in 1..my[c].limit
    <3>1. my[c].step # 0 /\ my[c].attempt \in 1..my[c].limit
      BY <2>1, <2>2 DEF Placed, PlacedAt
    <3> QED BY <2>1, <3>1, MyRowOf
  <2>3. TryStatus = {"RUNNING", "SUCCEEDED", "FAILED", "CANCELLED"}
    BY DEF TryStatus
  <2>4. WaitRow = [step : Steps, status : {"PENDING", "RESOLVED", "CANCELLED"}]
    BY DEF WaitRow
  <2> QED BY <2>1, <2>2, <2>3, <2>4 DEF Typed, TypeOK
<1> QED BY <1>1, PlanInvHolds, PTL

LEMMA AtMostOne ==
    ASSUME NEW S, \A a, b \in S : a = b
    PROVE  Cardinality(S) <= 1
<1>1. CASE S = {}
  BY <1>1, FS_EmptySet
<1>2. CASE S # {}
  <2>1. PICK a \in S : S = {a}
    BY <1>2
  <2> QED BY <2>1, FS_Singleton
<1> QED BY <1>1, <1>2

(* Without a skip, resumes, retries, cancels, hang-ups and failures, in    *)
(* whatever order, leave at most one executor at work and one step RUNNING. *)
THEOREM OnlySkipOverlapsHolds == Spec => []OnlySkipOverlaps
<1>1. PlanInv => OnlySkipOverlaps
  <2> SUFFICES ASSUME PlanInv, ~skipped
               PROVE  OneRunningStep /\ \A c, d \in Callers : Working(c) /\ Working(d) => c = d
    BY DEF OnlySkipOverlaps
  <2>1. OneToken /\ SlotKept
    BY DEF PlanInv, Sole
  <2>2. \A c, d \in Callers : Working(c) /\ Working(d) => c = d
    BY <2>1 DEF OneToken, Working, Executing, Going
  <2>3. \A s, t \in {s \in Steps : step[s] = "RUNNING"} : s = t
    BY <2>1 DEF SlotKept
  <2>4. OneRunningStep
    BY <2>3, AtMostOne DEF OneRunningStep
  <2> QED BY <2>2, <2>4
<1> QED BY <1>1, PlanInvHolds, PTL

(* Unless a step is skipped, the work of a step succeeds once, and a       *)
(* user's answer is taken once.                                            *)
THEOREM SucceedsOnceHolds == Spec => []SucceedsOnce
<1>1. PlanInv => SucceedsOnce
  <2> SUFFICES ASSUME PlanInv, ~skipped, NEW s \in Steps
               PROVE  Cardinality({n \in DOMAIN tries[s] : tries[s][n] = "SUCCEEDED"}) <= 1
    BY DEF SucceedsOnce
  <2>1. \A n, m \in {n \in DOMAIN tries[s] : tries[s][n] = "SUCCEEDED"} : n = m
    BY DEF PlanInv, Sole, DoneOnce, Succeeded
  <2> QED BY <2>1, AtMostOne
<1> QED BY <1>1, PlanInvHolds, PTL

(* Unless a step is skipped, the session gets one final answer per plan.   *)
THEOREM AnsweredOnceHolds == Spec => []AnsweredOnce
<1>1. PlanInv => AnsweredOnce
  BY DEF PlanInv, Sole, OneToken, AnsweredOnce
<1> QED BY <1>1, PlanInvHolds, PTL

(* A step is started by a claim and the plan closed by a summary, and by   *)
(* nothing else.                                                           *)
LEMMA StartAndClose ==
    ASSUME Typed, NEW c \in Callers, Work(c) \/ User(c) \/ ShowFails(c) \/ Fault(c)
    PROVE  /\ Claim(c) \/ \A s \in Steps : step'[s] = "RUNNING" => step[s] = "RUNNING"
           /\ Summarize(c) \/ (plan' = "SUCCEEDED" => plan = "SUCCEEDED")
<1> USE DEF rows, Quiet
<1>1. step \in [Steps -> StepStatus]
  BY DEF Typed
<1>2. CASE Execute(c)
  BY <1>1, <1>2 DEF Execute, Draft, DraftFails, Show, Loop, LoopCancelled, ClaimConflict, Attempt, Succeed,
       AttemptFails, StepFails, Overtaken, AttemptCancelled, Pause, Paused, SummaryFails, Answer, Report,
       Summarize, Claim
<1>3. CASE WindUp(c)
  BY <1>1, <1>3 DEF WindUp, FailSteps, FailPlan, FailRun, CancelWait, CancelStep, CancelSteps, CancelPlan,
       CancelRun, Exit, CancelPending
<1>4. CASE Command(c)
  <2>1. step' = step \/ (\E s : step' = Reopened(s) \/ step' \in {[step EXCEPT ![s] = "SKIPPED"], [step EXCEPT ![s] = "SUCCEEDED"]})
    BY <1>4 DEF Command, RetryStep, SkipStep, Restore, Begin, Resolve, ResolveConflict, Stop, Rejected
  <2>2. plan' \in {plan, "RUNNING"}
    BY <1>4 DEF Command, RetryStep, SkipStep, Restore, Begin, Resolve, ResolveConflict, Stop, Rejected, Revived
  <2> QED BY <1>1, <2>1, <2>2 DEF Reopened
<1>5. CASE User(c) \/ ShowFails(c) \/ Fault(c)
  BY <1>5 DEF User, Resume, Retry, Skip, Cancel, CancelMessage, HangUp, Call, ShowFails, Fault
<1> QED BY <1>2, <1>3, <1>4, <1>5 DEF Work

(* Unless a step is skipped, steps are started in order: none while one    *)
(* before it has still to end.                                             *)
THEOREM InOrderAlways == Spec => InOrder
<1> DEFINE A == \A s \in Steps :
         step[s] = "PENDING" /\ step'[s] = "RUNNING" /\ ~skipped =>
            \A t \in Steps : t < s => step[t] \notin {"PENDING", "RUNNING", "WAITING"}
<1>1. PlanInv /\ [Next]_vars => [A]_vars
  <2> SUFFICES ASSUME PlanInv, Next, NEW s \in Steps, step[s] = "PENDING", step'[s] = "RUNNING",
                      ~skipped, NEW t \in Steps, t < s
               PROVE  step[t] \notin {"PENDING", "RUNNING", "WAITING"}
    OBVIOUS
  <2>1. PICK c \in Callers : Claim(c)
    <3>1. PICK c \in Callers : Work(c) \/ User(c) \/ ShowFails(c) \/ Fault(c)
      BY DEF Next
    <3> QED BY <3>1, StartAndClose DEF PlanInv
  <2>2. Typed /\ Sole
    BY DEF PlanInv
  <2>3. s = my[c].step /\ pc[c] = "claim" /\ cur = 0
    BY <2>1, <2>2 DEF Claim, Claimable, Typed
  <2>4. step[t] # "PENDING"
    BY <2>2, <2>3 DEF Sole, Ordered
  <2>5. step[t] \notin {"WAITING", "RUNNING"}
    BY <2>2, <2>3 DEF Sole, OneToken, SlotKept, Executing, Going, Working, Halted
  <2> QED BY <2>4, <2>5
<1> QED BY <1>1, PlanInvHolds, PTL DEF Spec, InOrder

(* Unless a step is skipped, a plan is closed as SUCCEEDED when none of    *)
(* its steps is left to end.                                               *)
THEOREM ClosedWhenDoneAlways == Spec => ClosedWhenDone
<1> DEFINE A == plan # "SUCCEEDED" /\ plan' = "SUCCEEDED" /\ ~skipped =>
                  \A s \in Steps : step[s] \notin {"PENDING", "RUNNING", "WAITING"}
<1>1. PlanInv /\ [Next]_vars => [A]_vars
  <2> SUFFICES ASSUME PlanInv, Next, plan # "SUCCEEDED", plan' = "SUCCEEDED", ~skipped, NEW s \in Steps
               PROVE  step[s] \notin {"PENDING", "RUNNING", "WAITING"}
    OBVIOUS
  <2>1. PICK c \in Callers : Summarize(c)
    <3>1. PICK c \in Callers : Work(c) \/ User(c) \/ ShowFails(c) \/ Fault(c)
      BY DEF Next
    <3> QED BY <3>1, StartAndClose DEF PlanInv
  <2>2. Typed /\ Sole /\ pc[c] = "finalize"
    BY <2>1 DEF PlanInv, Summarize
  <2>3. step[s] # "PENDING"
    BY <2>2 DEF Sole, Ordered
  <2>4. step[s] \notin {"WAITING", "RUNNING"}
    BY <2>2 DEF Sole, OneToken, SlotKept, Executing, Going, Working, Halted
  <2> QED BY <2>3, <2>4
<1> QED BY <1>1, PlanInvHolds, PTL DEF Spec, ClosedWhenDone

=============================================================================
