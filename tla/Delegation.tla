----------------------------- MODULE Delegation -----------------------------
(***************************************************************************)
(* Delegation: a run hands a task to a sub-run (delegate_agent), blocking  *)
(* until it ends or leaving it in the background; the sub-run does the     *)
(* same with others, down to a depth.  The tokens of a sub-run are added   *)
(* to its parent's row, the end of one in the background is announced      *)
(* through a row of the ledger and the parent's command box, and a parent  *)
(* sends messages down through the ledger (send_message).                  *)
(*                                                                         *)
(* Every run has a goroutine of its own, even a blocking one: its parent's *)
(* waits.  A step is what happens between two reads or writes of a row, of *)
(* the box or of a context that others touch as well.                      *)
(***************************************************************************)
EXTENDS Integers, Sequences, SequencesExt, FiniteSetsExt

CONSTANTS
    MaxSubs,        \* bound: runs that delegation creates
    MaxDepth,       \* subagent.max_depth
    MaxSpend,       \* bound: tokens of a sub-run
    MaxInputs,      \* bound: rows of the ledger that carry a user's or a parent's input
    MaxFailures     \* bound: failures of models and transactions

ASSUME DelegationAssumption == {MaxSubs, MaxDepth, MaxSpend, MaxInputs, MaxFailures} \subseteq Nat

\* Runs are numbered in the order of their creation; 0 is the outer one.
Outer == 0
Subs == 1..MaxSubs
Runs == 0..MaxSubs

VARIABLES
    runRow,     \* tblLlmReactRun: state, own tokens, delegated tokens
    up,         \* parent_run_id
    line,       \* the runs above, as agent_path names them
    behind,     \* delegated with background = true
    stands,     \* where the goroutine of a run stands
    cutOff,     \* the context of the run is done
    seen,       \* the highest number of the ledger its goroutine has read
    ledger,     \* tblLlmReactPendingInput
    box,        \* RuntimeCommandBox of each run: rows of the ledger
    failures
delegVars == <<runRow, up, line, behind, stands, cutOff, seen, ledger, box, failures>>

Active == {"running", "waiting"}
States == Active \cup {"none", "finished", "error", "cancelled"}

\* absent -> loop, and from there asking, waiting for a child (joined), sending; then
\* closing -> settling -> returned or failing, the accounts and notice, over.
Places == {"absent", "loop", "joined", "asking", "sending", "closing", "settling", "failing",
           "tallied", "returned", "accounted", "delivering", "pushing", "over", "replaced"}

DelegationTypeOK ==
    /\ runRow \in [Runs -> [state : States, own : 0..MaxSpend, delegated : Nat]]
    /\ up \in [Subs -> Runs] /\ line \in [Subs -> SUBSET Runs] /\ behind \in [Subs -> BOOLEAN]
    /\ stands \in [Runs -> Places] /\ cutOff \in [Runs -> BOOLEAN]
    /\ \A i \in 1..Len(ledger) :
         /\ ledger[i].to \in Runs /\ ledger[i].from \in Runs
         /\ ledger[i].kind \in {"notification", "user_input"}
         /\ ledger[i].status \in {"admitted", "guided", "discarded"}
    /\ \A r \in Runs : box[r] \in Seq(1..Len(ledger))

DelegationInit ==
    /\ runRow = [r \in Runs |-> [state |-> IF r = Outer THEN "running" ELSE "none",
                                 own |-> 0, delegated |-> 0]]
    /\ up = [c \in Subs |-> Outer] /\ line = [c \in Subs |-> {}]
    /\ behind = [c \in Subs |-> FALSE]
    /\ stands = [r \in Runs |-> IF r = Outer THEN "loop" ELSE "absent"]
    /\ cutOff = [r \in Runs |-> FALSE]
    /\ seen = [r \in Runs |-> 0]
    /\ ledger = <<>> /\ box = [r \in Runs |-> <<>>]
    /\ failures = 0

-----------------------------------------------------------------------------
Line(r) == IF r = Outer THEN {} ELSE line[r]
Below(r) == {d \in Subs : r \in line[d]}
OwnSum(S) == MapThenSumSet(LAMBDA d : runRow[d].own, S)
LastNumber == Max({0} \cup {ledger[i].number : i \in 1..Len(ledger)})

\* The row of a run is locked while a notification for it is numbered.
Unlocked(r) == ~\E c \in Subs : stands[c] = "delivering" /\ up[c] = r

Stand(r, place) == stands' = [stands EXCEPT ![r] = place]
SetState(r, state) == Unlocked(r) /\ runRow' = [runRow EXCEPT ![r].state = state]

\* cancel(): the context of the run and of all derived from it.
CutFrom(r) == [d \in Runs |-> cutOff[d] \/ d = r \/ d \in Below(r)]

NewInput(to, from, kind, number) ==
    [to |-> to, from |-> from, kind |-> kind, number |-> number, status |-> "admitted"]

\* status = 'admitted' is the guard of every statement that settles or claims.
Settled(readers) ==
    [i \in 1..Len(ledger) |-> IF ledger[i].status = "admitted" /\ ledger[i].to \in readers
                              THEN [ledger[i] EXCEPT !.status = "discarded"] ELSE ledger[i]]

-----------------------------------------------------------------------------
(* The loop of a run *)

\* One round of the model; what the outer run spends itself is left out.
Spend(r) ==
    /\ stands[r] = "loop" /\ ~cutOff[r] /\ Unlocked(r)
    /\ runRow[r].own < MaxSpend
    /\ runRow' = [runRow EXCEPT ![r].own = @ + 1]
    /\ UNCHANGED <<up, line, behind, stands, cutOff, seen, ledger, box, failures>>

\* executeDelegateAgent, launchBackgroundDelegate: a context derived from the
\* parent's; a round of calls may hold several.
Delegate(p, c) ==
    /\ stands[p] \in {"loop", "joined"}
    /\ \A d \in Subs : stands[d] = "absent" <=> d >= c
    /\ Cardinality(Line(p)) + 1 <= MaxDepth
    /\ up' = [up EXCEPT ![c] = p]
    /\ line' = [line EXCEPT ![c] = Line(p) \cup {p}]
    /\ \E later \in BOOLEAN :
         /\ behind' = [behind EXCEPT ![c] = later]
         /\ stands' = [stands EXCEPT ![c] = "loop", ![p] = IF later THEN @ ELSE "joined"]
    /\ runRow' = [runRow EXCEPT ![c].state = "running"]
    /\ cutOff' = [cutOff EXCEPT ![c] = cutOff[p]]
    /\ UNCHANGED <<seen, ledger, box, failures>>

\* A tool waits for the client, the row says so, and goes back to running.
Ask(r) ==
    /\ stands[r] = "loop" /\ Stand(r, "asking") /\ SetState(r, "waiting")
    /\ UNCHANGED <<up, line, behind, cutOff, seen, ledger, box, failures>>

Answered(r) ==
    /\ stands[r] = "asking" /\ ~cutOff[r]
    /\ Stand(r, "loop") /\ SetState(r, "running")
    /\ UNCHANGED <<up, line, behind, cutOff, seen, ledger, box, failures>>

\* drainRuntimeNotifications: the box is emptied, the rows that are still admitted
\* become a message.
TakeNotices(r) ==
    /\ stands[r] = "loop" /\ box[r] # <<>>
    /\ ledger' = [i \in 1..Len(ledger) |->
                    IF i \in ToSet(box[r]) /\ ledger[i].status = "admitted"
                    THEN [ledger[i] EXCEPT !.status = "guided"] ELSE ledger[i]]
    /\ box' = [box EXCEPT ![r] = <<>>]
    /\ UNCHANGED <<runRow, up, line, behind, stands, cutOff, seen, failures>>

\* drainPendingGuideBoundary: one input, the first.
TakeInput(r) ==
    /\ stands[r] = "loop"
    /\ \E i \in 1..Len(ledger) :
         LET Mine(j) == ledger[j].to = r /\ ledger[j].kind = "user_input" /\ ledger[j].status = "admitted"
         IN /\ Mine(i)
            /\ \A j \in 1..Len(ledger) : Mine(j) /\ j # i =>
                 ledger[i].number < ledger[j].number \/ (ledger[i].number = ledger[j].number /\ i < j)
            /\ ledger' = [ledger EXCEPT ![i].status = "guided"]
    /\ UNCHANGED <<runRow, up, line, behind, stands, cutOff, seen, box, failures>>

\* executeSendMessage: the state of the child is read, then the highest number, then
\* the row is written; no lock is taken.
SendStart(p) ==
    /\ stands[p] = "loop" /\ Stand(p, "sending")
    /\ \E c \in Subs : up[c] = p /\ runRow[c].state \in Active
    /\ seen' = [seen EXCEPT ![p] = LastNumber]
    /\ UNCHANGED <<runRow, up, line, behind, cutOff, ledger, box, failures>>

SendWrite(p) ==
    /\ stands[p] = "sending" /\ Stand(p, "loop")
    /\ \E c \in Subs : up[c] = p /\ stands[c] # "absent"
         /\ ledger' = Append(ledger, NewInput(c, p, "user_input", seen[p] + 1))
    /\ seen' = [seen EXCEPT ![p] = 0]
    /\ UNCHANGED <<runRow, up, line, behind, cutOff, box, failures>>

\* A user steers the outer run: under the lock of the session (module InputLedger).
Steer ==
    /\ runRow[Outer].state \in Active
    /\ ledger' = Append(ledger, NewInput(Outer, Outer, "user_input", LastNumber + 1))
    /\ UNCHANGED <<runRow, up, line, behind, stands, cutOff, seen, box, failures>>

\* The last look into the box finds it empty, or fails.
Close(r) ==
    /\ stands[r] = "loop" /\ Stand(r, "closing")
    /\ \/ box[r] = <<>> /\ UNCHANGED failures
       \/ box[r] # <<>> /\ failures < MaxFailures /\ failures' = failures + 1
    /\ UNCHANGED <<runRow, up, line, behind, cutOff, seen, ledger, box>>

\* finish(): the state first, the settlement after it.
Finish(r) ==
    /\ stands[r] = "closing" /\ Stand(r, "settling") /\ SetState(r, "finished")
    /\ UNCHANGED <<up, line, behind, cutOff, seen, ledger, box, failures>>

\* The model fails, or the context is done: in the loop, or in a wait.
LeaveLoop(r) ==
    /\ stands[r] \in {"loop", "asking"} /\ Stand(r, "failing")
    /\ \/ cutOff[r] /\ UNCHANGED failures
       \/ stands[r] = "loop" /\ failures < MaxFailures /\ failures' = failures + 1
    /\ UNCHANGED <<runRow, up, line, behind, cutOff, seen, ledger, box>>

\* run(): the outer run settles what it leaves behind, whatever its end.
FailOuter ==
    /\ stands[Outer] = "failing" /\ Stand(Outer, "settling")
    /\ SetState(Outer, IF cutOff[Outer] THEN "cancelled" ELSE "error")
    /\ UNCHANGED <<up, line, behind, cutOff, seen, ledger, box, failures>>

\* settleRunPendingInputs; the outer run returns with it, and cancels its context.
Settle(r) ==
    /\ stands[r] = "settling"
    /\ ledger' = Settled({r})
    /\ IF r = Outer THEN Stand(r, "over") /\ cutOff' = CutFrom(r)
                    ELSE Stand(r, "returned") /\ UNCHANGED cutOff
    /\ UNCHANGED <<runRow, up, line, behind, seen, box, failures>>

\* The user stops the outer run, or the connection is gone.
Cut(r) ==
    /\ stands[r] \notin {"absent", "over", "replaced"} /\ ~cutOff[r]
    /\ cutOff' = CutFrom(r)
    /\ UNCHANGED <<runRow, up, line, behind, stands, seen, ledger, box, failures>>

-----------------------------------------------------------------------------
(* The end of a sub-run *)

\* finalizeSubAgentRunError: after the accounts of a blocking one, before those of
\* one in the background.
FinalizeError(c) ==
    /\ \/ behind[c] /\ stands[c] = "failing" /\ Stand(c, "returned")
       \/ ~behind[c] /\ stands[c] = "tallied" /\ Stand(c, "accounted")
    /\ \/ cutOff[c] /\ SetState(c, "cancelled")
       \/ SetState(c, "error")     \* the model, the watchdog, a client that is gone
    /\ UNCHANGED <<up, line, behind, cutOff, seen, ledger, box, failures>>

\* Mutant: every run above pays, and passes it on.
PayersAbove(c) == line[c]
\* The runs whose delegated tokens grow.
Payers(c) == {up[c]}

\* accumulateDelegatedTokens
Accumulate(c) ==
    /\ \/ stands[c] = "returned" /\ Stand(c, "accounted")
       \/ stands[c] = "failing" /\ ~behind[c] /\ Stand(c, "tallied")
    /\ Unlocked(up[c])
    /\ runRow' = [r \in Runs |-> IF r \in Payers(c)
         THEN [runRow[r] EXCEPT !.delegated = @ + runRow[c].own + runRow[c].delegated] ELSE runRow[r]]
    /\ UNCHANGED <<up, line, behind, cutOff, seen, ledger, box, failures>>

\* A blocking one gives its result to the parent, which goes on when it has all of
\* the round; a cancellation goes up with it.
Return(c) ==
    /\ stands[c] = "accounted" /\ ~behind[c]
    /\ LET round == {d \in Subs : d # c /\ up[d] = up[c] /\ ~behind[d]}
       IN stands' = [stands EXCEPT ![c] = "over",
            ![up[c]] = IF \E d \in round : stands[d] \notin {"absent", "over"} THEN "joined"
                       ELSE IF \E d \in round \cup {c} : runRow[d].state = "cancelled" THEN "failing"
                       ELSE "loop"]
    /\ cutOff' = CutFrom(c)
    /\ UNCHANGED <<runRow, up, line, behind, seen, ledger, box, failures>>

\* Mutant: any parent is told.
ShouldDeliverAnyway(p) == TRUE
\* shouldDeliverBackgroundNotification
ShouldDeliver(p) == runRow[p].state = "running"

\* deliverBackgroundNotification: the parent's row is locked, and a parent that is
\* not running is not told.
Deliver(c) ==
    /\ stands[c] = "accounted" /\ behind[c] /\ Unlocked(up[c])
    /\ IF ShouldDeliver(up[c])
       THEN Stand(c, "delivering") /\ seen' = [seen EXCEPT ![c] = LastNumber] /\ UNCHANGED cutOff
       ELSE Stand(c, "over") /\ cutOff' = CutFrom(c) /\ UNCHANGED seen
    /\ UNCHANGED <<runRow, up, line, behind, ledger, box, failures>>

\* The row is committed, or the transaction fails and the notice is lost.
Commit(c) ==
    /\ stands[c] = "delivering"
    /\ \/ /\ ledger' = Append(ledger, NewInput(up[c], c, "notification", seen[c] + 1))
          /\ Stand(c, "pushing") /\ UNCHANGED <<cutOff, failures>>
       \/ /\ failures < MaxFailures /\ failures' = failures + 1
          /\ Stand(c, "over") /\ cutOff' = CutFrom(c) /\ UNCHANGED ledger
    /\ seen' = [seen EXCEPT ![c] = 0]
    /\ UNCHANGED <<runRow, up, line, behind, box>>

Push(c) ==
    /\ stands[c] = "pushing" /\ Stand(c, "over") /\ cutOff' = CutFrom(c)
    /\ \E i \in 1..Len(ledger) :
         /\ ledger[i].from = c /\ ledger[i].kind = "notification"
         /\ box' = [box EXCEPT ![up[c]] = Append(@, i)]
    /\ UNCHANGED <<runRow, up, line, behind, seen, ledger, failures>>

\* createReactRunContext: once no run of the session is active a new one begins, and
\* discards what is left.
NextRun ==
    /\ stands[Outer] = "over" /\ \A r \in Runs : runRow[r].state \notin Active
    /\ Stand(Outer, "replaced")
    /\ ledger' = Settled(Runs)
    /\ UNCHANGED <<runRow, up, line, behind, cutOff, seen, box, failures>>

-----------------------------------------------------------------------------
Going(r) ==
    \/ Answered(r) \/ TakeNotices(r) \/ TakeInput(r) \/ SendWrite(r) \/ Close(r) \/ Finish(r)
    \/ LeaveLoop(r) \/ Settle(r)

Ending(c) ==
    \/ FinalizeError(c) \/ Accumulate(c) \/ Return(c) \/ Deliver(c) \/ Commit(c) \/ Push(c)

Inputs == Cardinality({i \in 1..Len(ledger) : ledger[i].kind = "user_input"})

DelegationNext ==
    \/ \E r \in Runs : Ask(r) \/ Going(r) \/ Cut(r)
    \/ \E c \in Subs : Spend(c)
    \/ \E p \in Runs, c \in Subs : Delegate(p, c)
    \/ Inputs < MaxInputs /\ (Steer \/ \E p \in Runs : SendStart(p))
    \/ FailOuter \/ NextRun
    \/ \E c \in Subs : Ending(c)

\* Goroutines are scheduled; nobody has to answer, and no model to end its run.
DelegationFairness ==
    /\ \A r \in Runs : WF_delegVars(cutOff[r] /\ LeaveLoop(r)) /\ WF_delegVars(SendWrite(r))
                       /\ WF_delegVars(Finish(r)) /\ WF_delegVars(Settle(r))
    /\ WF_delegVars(FailOuter)
    /\ \A c \in Subs : WF_delegVars(Ending(c))

DelegationSpec == DelegationInit /\ [][DelegationNext]_delegVars

-----------------------------------------------------------------------------
\* When the next run of the session begins nothing admitted is left, and no
\* notification or message of an old sub-run turns up after it
\* (shouldDeliverBackgroundNotification, SettlePendingInputsBySession).
NothingOutlives ==
    stands[Outer] = "replaced" =>
      \A i \in 1..Len(ledger) : ledger[i].status # "admitted"

\* No token is counted twice on its way up, whatever the order in which runs of
\* several depths end: what a run was charged for its delegates is at most what
\* they have spent (accumulateDelegatedTokens).
CountedOnce ==
    \A r \in Runs : runRow[r].delegated <= OwnSum(Below(r))

\* A sub-run is not left working for nobody: when the outer run is over, all that
\* descend from it end, those in the background too (the context of a sub-run is
\* derived from its parent's).
OrphansEnd ==
    stands[Outer] = "over" ~> \A c \in Subs : stands[c] \in {"absent", "over"}

\* The numbers of the ledger are handed out one by one.
NumbersUnique ==
    \A i, j \in 1..Len(ledger) : i # j => ledger[i].number # ledger[j].number

\* A run that goes on is told of every sub-run that ended in the background.
Announced ==
    \A c \in Subs :
      stands[c] = "over" /\ behind[c] /\ stands[up[c]] \in {"loop", "asking", "joined", "sending"}
        /\ ~cutOff[up[c]] /\ failures = 0 =>
          \E i \in 1..Len(ledger) : ledger[i].from = c /\ ledger[i].kind = "notification"

\* Once all is over the outer run has been charged for everything below it.
TokensClosed ==
    (\A r \in Runs : stands[r] \in {"absent", "over"}) =>
      runRow[Outer].delegated = OwnSum(Below(Outer))
=============================================================================
