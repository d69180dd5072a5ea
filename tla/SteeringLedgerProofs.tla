------------------------ MODULE SteeringLedgerProofs ------------------------
(***************************************************************************)
(* The ledger of pending inputs: a row becomes one message, exactly once,  *)
(* and Steering implements InputLedger.                                    *)
(*                                                                         *)
(* The message of a drained row is built from the payload read without a   *)
(* lock by dequeueQueuedHeadForAutoDrain, so the invariant has to follow   *)
(* the row through the goroutine and the transaction that carry a copy.    *)
(*                                                                         *)
(* Then the order in which rows become messages, and that an input becomes *)
(* no more than one, with what each of the two has to exclude.             *)
(***************************************************************************)
EXTENDS SteeringProofs

(* A copy of a row agrees with the row it names.                           *)
CopyOf(i, input) == i # 0 => ledger[i].input = input /\ ledger[i].status # "free"
PayloadCopies == \A c \in Conns : CopyOf(g[c].promote, g[c].input)
TxCopies == tx.kind = "create" => CopyOf(tx.row, tx.input)

LedgerInv ==
    /\ Typing
    /\ PromoteAtomic
    /\ PayloadCopies
    /\ TxCopies

-----------------------------------------------------------------------------
(* What a step may do to a row that it does not turn into a message.       *)
RowQuiet(i) ==
    /\ ledger[i].status # "free" => ledger'[i].input = ledger[i].input
    /\ ledger[i].status = "guided" => ledger'[i].run = ledger[i].run
    /\ ledger[i].status = "queued" /\ ~ledger[i].old => ledger'[i].status # "discarded"
    /\ \/ ledger'[i].status = ledger[i].status
       \/ ledger[i].status = "free" /\ ledger'[i].status \in {"admitted", "queued"}
       \/ /\ ledger[i].status \in {"admitted", "queued"}
          /\ ledger'[i].status \in {"admitted", "queued", "discarded"}
       \/ ledger[i].status = "queued" /\ ledger'[i].status = "cancelled"

Quiet == UNCHANGED messages /\ \A i \in RowId : RowQuiet(i)

(* The client's message of a new run, taken from no row.                   *)
Direct ==
    /\ \E n \in 1..MaxInput, r \in RunId :
          messages' = Append(messages, [input |-> n, row |-> 0, run |-> r])
    /\ \A i \in RowId : RowQuiet(i)

(* Row i becomes a message of run r.                                       *)
Delivers(i, r) ==
    /\ ledger[i].status \in {"admitted", "queued"}
    /\ messages' = Append(messages, [input |-> ledger[i].input, row |-> i, run |-> r])
    /\ ledger'[i].status = "guided"
    /\ ledger'[i].run = r
    /\ ledger'[i].input = ledger[i].input
    /\ \A j \in RowId \ {i} : RowQuiet(j)

(* A payload is copied, dropped, or read anew from a row.                  *)
PayloadKept ==
    \A d \in Conns :
        \/ g'[d].promote = 0
        \/ g'[d].promote = g[d].promote /\ g'[d].input = g[d].input
        \/ g'[d].promote \in QueuedRows /\ g'[d].input = ledger[g'[d].promote].input
TxKept ==
    \/ UNCHANGED tx
    \/ tx'.kind # "create"
    \/ \E c \in Conns : tx'.row = g[c].promote /\ tx'.input = g[c].input

-----------------------------------------------------------------------------
LEMMA SameRows == ASSUME UNCHANGED ledger PROVE \A i \in RowId : RowQuiet(i)
  BY DEF RowQuiet

LEMMA AdmitQuiet ==
    ASSUME ledger \in [RowId -> NamedRow], Admit PROVE \A i \in RowId : RowQuiet(i)
<1>1. ASSUME NEW k \in RowId, IsNextRow(k), NEW delivery, NEW status \in {"admitted", "queued"},
             AddRow(k, delivery, status)
      PROVE  \A i \in RowId : RowQuiet(i)
  <2>1. ledger'[k].status = status /\ ledger[k].status = "free"
    BY <1>1 DEF AddRow, IsNextRow
  <2>2. \A i \in RowId \ {k} : ledger'[i] = ledger[i]
    BY <1>1 DEF AddRow
  <2>3. ASSUME NEW i \in RowId PROVE RowQuiet(i)
    BY <2>1, <2>2 DEF RowQuiet
  <2> QED BY <2>3
<1> QED BY <1>1, SameRows DEF Admit

LEMMA ResumedQuiet ==
    ASSUME ledger \in [RowId -> NamedRow], NEW i \in RowId
    PROVE  /\ Resumed[i].input = ledger[i].input
           /\ Resumed[i].run = ledger[i].run
           /\ Resumed[i].status = IF LeftOver(i) THEN "discarded" ELSE ledger[i].status
<1>1. ledger[i] \in Row
  BY DEF NamedRow
<1> QED BY <1>1 DEF Resumed, Row

LEMMA SettledQuiet ==
    ASSUME ledger \in [RowId -> NamedRow], NEW r, ledger' = Settled(r)
    PROVE  \A i \in RowId : RowQuiet(i)
<1> SUFFICES ASSUME NEW i \in RowId PROVE RowQuiet(i)
  OBVIOUS
<1>1. ledger[i] \in Row
  BY DEF NamedRow
<1>2. CASE ledger[i].status = "admitted" /\ ledger[i].run = r
  <2>1. ledger'[i].input = ledger[i].input /\ ledger'[i].status \in {"queued", "discarded"}
    BY <1>1, <1>2 DEF Settled, Row
  <2> QED BY <1>2, <2>1 DEF RowQuiet
<1>3. CASE ~(ledger[i].status = "admitted" /\ ledger[i].run = r)
  <2>1. ledger'[i] = ledger[i]
    BY <1>3 DEF Settled
  <2> QED BY <2>1 DEF RowQuiet
<1> QED BY <1>2, <1>3

(* Every step is quiet, or adds one message, from a row or from none.      *)
LEMMA CreateRunRows ==
    ASSUME LedgerInv, NEW c \in Conns, CreateRun(c)
    PROVE  Direct \/ \E i \in RowId, r \in RunId : Delivers(i, r)
<1> USE DEF LedgerInv, Typing
<1>1. tx.kind = "create" /\ tx.input \in 1..MaxInput /\ tx.row \in 0..MaxRow
  BY Bounds, TxFields DEF CreateRun, TxOwner
<1>2. PICK r \in RunId :
        /\ messages' = Append(messages, [input |-> tx.input, row |-> tx.row, run |-> r])
        /\ \/ tx.row = 0 /\ ledger' = Resumed
           \/ /\ tx.row # 0 /\ CanPromote(tx.row)
              /\ ledger' = [Resumed EXCEPT ![tx.row].status = "guided", ![tx.row].run = r]
  BY DEF CreateRun
<1>3. ASSUME NEW i \in RowId, ledger'[i] = Resumed[i] PROVE RowQuiet(i)
  BY <1>3, ResumedQuiet DEF RowQuiet, LeftOver
<1>4. CASE tx.row = 0 /\ ledger' = Resumed
  <2>1. \A i \in RowId : RowQuiet(i)
    BY <1>3, <1>4
  <2>2. messages' = Append(messages, [input |-> tx.input, row |-> 0, run |-> r])
    BY <1>2, <1>4
  <2> QED BY <1>1, <2>1, <2>2 DEF Direct
<1>5. CASE /\ tx.row # 0 /\ CanPromote(tx.row)
           /\ ledger' = [Resumed EXCEPT ![tx.row].status = "guided", ![tx.row].run = r]
  <2> DEFINE i == tx.row
  <2>1. i \in RowId
    BY <1>1, <1>5, Bounds DEF RowId
  <2>2. ledger[i].input = tx.input
    BY <1>1, <1>5 DEF TxCopies, CopyOf
  <2>3. ledger[i].status = "queued"
    BY <1>5, <2>1, ResumedQuiet DEF CanPromote
  <2>4. Resumed \in [RowId -> NamedRow] /\ Resumed[i] \in Row
    BY <2>1, ResumedTyping DEF NamedRow
  <2>5. /\ ledger'[i].status = "guided" /\ ledger'[i].run = r
        /\ ledger'[i].input = Resumed[i].input
        /\ \A j \in RowId \ {i} : ledger'[j] = Resumed[j]
    BY <1>5, <2>1, <2>4 DEF Row
  <2>6. ledger'[i].input = ledger[i].input
    BY <2>1, <2>5, ResumedQuiet
  <2>7. \A j \in RowId \ {i} : RowQuiet(j)
    BY <1>3, <2>5
  <2>8. Delivers(i, r)
    BY <1>2, <2>2, <2>3, <2>5, <2>6, <2>7 DEF Delivers
  <2> QED BY <2>1, <2>8
<1> QED BY <1>2, <1>4, <1>5

LEMMA DrainGuideRows ==
    ASSUME LedgerInv, NEW c \in Conns, DrainGuide(c)
    PROVE  \E i \in RowId, r \in RunId : Delivers(i, r)
<1> USE DEF LedgerInv, Typing
<1>1. PICK i \in RowId :
        /\ IsFirst(i, GuidesOf(g[c].run))
        /\ ledger' = [ledger EXCEPT ![i].status = "guided"]
        /\ messages' = Append(messages, [input |-> ledger[i].input, row |-> i, run |-> g[c].run])
  BY DEF DrainGuide
<1>2. ledger[i].status = "admitted" /\ ledger[i].run = g[c].run /\ ledger[i] \in Row
  BY <1>1 DEF IsFirst, GuidesOf, RowsIn, NamedRow
<1>3. /\ ledger'[i].status = "guided" /\ ledger'[i].run = g[c].run
      /\ ledger'[i].input = ledger[i].input
      /\ \A j \in RowId \ {i} : ledger'[j] = ledger[j]
  BY <1>1, <1>2 DEF Row
<1>4. \A j \in RowId \ {i} : RowQuiet(j)
  BY <1>3 DEF RowQuiet
<1>5. g[c].run \in RunId
  BY GoroutineFields DEF DrainGuide, At, WithRun, EnginePc
<1>6. Delivers(i, g[c].run)
  BY <1>1, <1>2, <1>3, <1>4 DEF Delivers
<1> QED BY <1>5, <1>6

LEMMA RowSteps ==
    ASSUME LedgerInv, [Next]_vars
    PROVE  Quiet \/ Direct \/ \E i \in RowId, r \in RunId : Delivers(i, r)
<1> USE DEF LedgerInv, Typing, Quiet, dbVars, memVars, envVars
<1>1. ASSUME NEW c \in Conns, Client(c) PROVE Quiet
  BY <1>1, SameRows DEF Client, Submit, SteerBegin, InjectBegin, QueueSendRun
<1>2. ASSUME NEW c \in Conns, Start(c) PROVE Quiet \/ CreateRun(c)
  BY <1>2, SameRows, AdmitQuiet DEF Start, CreateBegin, CreateAdmits, CreateRollback, Register
<1>3. ASSUME NEW c \in Conns, Engine(c) PROVE Quiet \/ DrainGuide(c)
  BY <1>3, SameRows DEF Engine, EndLoop, FinalAnswer, Exhausted, EnterSoftLanding, AskClient,
                        ClientAnswers, Delegate
<1>4. ASSUME NEW c \in Conns, Conclude(c) \/ Failure(c) PROVE Quiet
  BY <1>4, SameRows, SettledQuiet DEF Conclude, Finish, Settle, DrainHead, NothingToDrain,
              AbortSettle, Release, Reap, Failure, Fail, PrepareFails, DoneNotWritten
<1>5. ASSUME UserCancel \/ ShutdownHook \/ UNCHANGED vars \/ \E r \in RunId : ChildEnds(r)
      PROVE  Quiet
  BY <1>5, SameRows DEF UserCancel, CancelBegin, CancelWrite, Fail, ShutdownHook, ChildEnds, vars
<1>6. ASSUME SteerCommit PROVE Quiet
  BY <1>6, AdmitQuiet DEF SteerCommit
<1>7. ASSUME InjectCommit PROVE Quiet
  <2>1. CASE UNCHANGED ledger
    BY <1>7, <2>1, SameRows DEF InjectCommit
  <2>2. CASE /\ tx.row \in QueuedRows
             /\ ledger' = [ledger EXCEPT ![tx.row].status = "admitted",
                                         ![tx.row].delivery = "guide",
                                         ![tx.row].run = tx.target]
    <3>1. tx.row \in RowId /\ ledger[tx.row] \in Row /\ ledger[tx.row].status = "queued"
      BY <2>2 DEF QueuedRows, RowsIn, NamedRow
    <3>2. /\ ledger'[tx.row].status = "admitted"
          /\ ledger'[tx.row].input = ledger[tx.row].input
          /\ \A j \in RowId \ {tx.row} : ledger'[j] = ledger[j]
      BY <2>2, <3>1 DEF Row
    <3>3. \A i \in RowId : RowQuiet(i)
      BY <3>1, <3>2 DEF RowQuiet
    <3> QED BY <1>7, <3>3 DEF InjectCommit
  <2> QED BY <1>7, <2>1, <2>2 DEF InjectCommit
<1>8. ASSUME NEW k \in RowId, DeleteQueued(k) PROVE Quiet
  <2>1. ledger[k] \in Row /\ ledger[k].status = "queued"
    BY <1>8 DEF DeleteQueued, QueuedRows, RowsIn, NamedRow
  <2>2. /\ ledger'[k].status = "cancelled"
        /\ ledger'[k].input = ledger[k].input
        /\ \A j \in RowId \ {k} : ledger'[j] = ledger[j]
    BY <1>8, <2>1 DEF DeleteQueued, Row
  <2>3. \A i \in RowId : RowQuiet(i)
    BY <2>1, <2>2 DEF RowQuiet
  <2> QED BY <1>8, <2>3 DEF DeleteQueued
<1>9. ASSUME Reorder PROVE Quiet
  <2>1. PICK f : ledger' = [i \in RowId |-> IF i \in QueuedRows
                                THEN [ledger[i] EXCEPT !.seq = f[i]] ELSE ledger[i]]
    BY <1>9 DEF Reorder
  <2>2. ASSUME NEW i \in RowId PROVE RowQuiet(i)
    <3>1. ledger[i] \in Row
      BY DEF NamedRow
    <3>2. /\ ledger'[i].status = ledger[i].status
          /\ ledger'[i].input = ledger[i].input
          /\ ledger'[i].run = ledger[i].run
      BY <2>1, <3>1 DEF Row
    <3> QED BY <3>2 DEF RowQuiet
  <2> QED BY <1>9, <2>2 DEF Reorder
<1>10. ASSUME Restart PROVE Quiet
  <2>1. ASSUME NEW i \in RowId PROVE RowQuiet(i)
    <3>1. ledger[i] \in Row
      BY DEF NamedRow
    <3>2. /\ ledger'[i].status = ledger[i].status
          /\ ledger'[i].input = ledger[i].input
          /\ ledger'[i].run = ledger[i].run
      BY <1>10, <3>1 DEF Restart, Row
    <3> QED BY <3>2 DEF RowQuiet
  <2> QED BY <1>10, <2>1 DEF Restart
<1> QED
  BY <1>1, <1>2, <1>3, <1>4, <1>5, <1>6, <1>7, <1>8, <1>9, <1>10, CreateRunRows, DrainGuideRows
  DEF Next, Commit, Manage, Process

-----------------------------------------------------------------------------
(* Messages *)

LEMMA TakenBefore ==
    ASSUME messages \in Seq(Message), NEW i PROVE TakenFrom(i) \subseteq 1..Len(messages)
  BY DEF TakenFrom

LEMMA TakenAfter ==
    ASSUME messages \in Seq(Message), NEW m \in Message, messages' = Append(messages, m), NEW i
    PROVE  /\ TakenFrom(i)' = IF m.row = i THEN TakenFrom(i) \cup {Len(messages) + 1} ELSE TakenFrom(i)
           /\ Len(messages) + 1 \notin TakenFrom(i)
           /\ \A k \in TakenFrom(i) : messages'[k] = messages[k]
           /\ messages'[Len(messages) + 1] = m
<1>1. /\ Len(messages) \in Nat
      /\ DOMAIN messages = 1..Len(messages)
      /\ DOMAIN messages' = 1..(Len(messages) + 1)
      /\ \A k \in 1..Len(messages) : messages'[k] = messages[k]
      /\ messages'[Len(messages) + 1] = m
  OBVIOUS
<1> QED BY <1>1 DEF TakenFrom

LEMMA QuietKeepsPromotion ==
    ASSUME PromoteAtomic, NEW i \in RowId, RowQuiet(i),
           TakenFrom(i)' = TakenFrom(i), \A k \in TakenFrom(i) : messages'[k] = messages[k]
    PROVE  IF ledger'[i].status = "guided"
           THEN \E k \in TakenFrom(i)' : /\ TakenFrom(i)' = {k}
                                         /\ messages'[k].run = ledger'[i].run
                                         /\ messages'[k].input = ledger'[i].input
           ELSE TakenFrom(i)' = {}
<1>1. CASE ledger'[i].status = "guided"
  <2>1. ledger[i].status = "guided" /\ ledger'[i].run = ledger[i].run
                                    /\ ledger'[i].input = ledger[i].input
    BY <1>1 DEF RowQuiet
  <2> QED BY <1>1, <2>1 DEF PromoteAtomic
<1>2. CASE ledger'[i].status # "guided"
  <2>1. ledger[i].status # "guided"
    BY <1>2 DEF RowQuiet
  <2> QED BY <1>2, <2>1 DEF PromoteAtomic
<1> QED BY <1>1, <1>2

LEMMA PromoteStep ==
    ASSUME LedgerInv, [Next]_vars PROVE PromoteAtomic'
<1> USE DEF LedgerInv, Typing
<1>1. CASE Quiet
  <2>1. ASSUME NEW i \in RowId
        PROVE  TakenFrom(i)' = TakenFrom(i) /\ \A k \in TakenFrom(i) : messages'[k] = messages[k]
    BY <1>1 DEF Quiet, TakenFrom
  <2> QED BY <1>1, <2>1, QuietKeepsPromotion DEF Quiet, PromoteAtomic
<1>2. CASE Direct
  <2>1. PICK n \in 1..MaxInput, r \in RunId :
          messages' = Append(messages, [input |-> n, row |-> 0, run |-> r])
    BY <1>2 DEF Direct
  <2>2. [input |-> n, row |-> 0, run |-> r] \in Message
    BY Bounds DEF Message
  <2>3. ASSUME NEW i \in RowId
        PROVE  TakenFrom(i)' = TakenFrom(i) /\ \A k \in TakenFrom(i) : messages'[k] = messages[k]
    <3>1. i # 0
      BY Bounds DEF RowId
    <3> QED BY <2>1, <2>2, <3>1, TakenAfter
  <2> QED BY <1>2, <2>3, QuietKeepsPromotion DEF Direct, PromoteAtomic
<1>3. ASSUME NEW i \in RowId, NEW r \in RunId, Delivers(i, r) PROVE PromoteAtomic'
  <2> DEFINE m == [input |-> ledger[i].input, row |-> i, run |-> r]
  <2>1. m \in Message /\ m.row = i /\ m.run = r /\ m.input = ledger[i].input
    <3>1. ledger[i].status # "free"
      BY <1>3 DEF Delivers
    <3>2. ledger[i].input \in 1..MaxInput /\ i \in 0..MaxRow
      BY <3>1, Bounds, RowFields DEF RowId
    <3> QED BY <3>2 DEF Message
  <2>2. messages' = Append(messages, m)
    BY <1>3 DEF Delivers
  <2> HIDE DEF m
  <2>3. ASSUME NEW j \in RowId \ {i}
        PROVE  TakenFrom(j)' = TakenFrom(j) /\ \A k \in TakenFrom(j) : messages'[k] = messages[k]
    BY <2>1, <2>2, TakenAfter
  <2>4. TakenFrom(i)' = {Len(messages) + 1}
    <3>1. TakenFrom(i) = {}
      BY <1>3 DEF Delivers, PromoteAtomic
    <3> QED BY <2>1, <2>2, <3>1, TakenAfter
  <2>5. messages'[Len(messages) + 1] = m
    BY <2>1, <2>2, TakenAfter
  <2>6. /\ ledger'[i].status = "guided" /\ ledger'[i].run = r
        /\ ledger'[i].input = ledger[i].input
        /\ \A j \in RowId \ {i} : RowQuiet(j)
    BY <1>3 DEF Delivers
  <2>7. ASSUME NEW j \in RowId \ {i}
        PROVE  IF ledger'[j].status = "guided"
               THEN \E k \in TakenFrom(j)' : /\ TakenFrom(j)' = {k}
                                             /\ messages'[k].run = ledger'[j].run
                                             /\ messages'[k].input = ledger'[j].input
               ELSE TakenFrom(j)' = {}
    BY <2>3, <2>6, QuietKeepsPromotion
  <2>8. \E k \in TakenFrom(i)' : /\ TakenFrom(i)' = {k}
                                 /\ messages'[k].run = ledger'[i].run
                                 /\ messages'[k].input = ledger'[i].input
    BY <2>1, <2>4, <2>5, <2>6
  <2> QED BY <2>6, <2>7, <2>8 DEF PromoteAtomic
<1> QED BY <1>1, <1>2, <1>3, RowSteps

-----------------------------------------------------------------------------
(* The copies *)

LEMMA CopiesKept ==
    ASSUME LedgerInv, [Next]_vars PROVE PayloadKept /\ TxKept
<1> USE DEF LedgerInv, Typing, PayloadKept, TxKept, dbVars, memVars, envVars
<1>1. ASSUME NEW c \in Conns, NEW pc, Goto(c, pc) PROVE PayloadKept
  BY <1>1, GotoFields
<1>2. ASSUME NEW c \in Conns, NEW pc, NEW r, Drop(c, pc, r) PROVE PayloadKept
  BY <1>2, DropFields
<1>3. ASSUME NEW c \in Conns, NEW n, NEW f, StartGoroutine(c, n, f, 0) PROVE PayloadKept
  BY <1>3 DEF StartGoroutine
<1>4. ASSUME UNCHANGED g PROVE PayloadKept
  BY <1>4
<1>5. tx' = NoTx => TxKept
  BY NoTxKind
<1>6. ASSUME NEW c \in Conns, Client(c) PROVE PayloadKept /\ TxKept
  <2>1. ASSUME NEW f \in Flavors, Submit(c, f) PROVE PayloadKept /\ TxKept
    BY <1>3, <2>1 DEF Submit
  <2>2. ASSUME NEW f \in Flavors, SteerBegin(c, f) PROVE PayloadKept /\ TxKept
    BY <2>2 DEF SteerBegin
  <2>3. ASSUME NEW i \in RowId, InjectBegin(c, i) PROVE PayloadKept /\ TxKept
    <3>1. tx'.kind = "inject"
      BY <2>3, InjectBeginKind
    <3> QED BY <2>3, <3>1 DEF InjectBegin
  <2>4. ASSUME NEW i \in RowId, QueueSendRun(c, i) PROVE PayloadKept /\ TxKept
    BY <1>3, <2>4 DEF QueueSendRun
  <2> QED BY <1>6, <2>1, <2>2, <2>3, <2>4 DEF Client
<1>7. ASSUME NEW c \in Conns, Start(c) PROVE PayloadKept /\ TxKept
  <2>1. ASSUME CreateBegin(c) PROVE TxKept
    BY <2>1 DEF CreateBegin
  <2> QED BY <1>1, <1>2, <1>5, <1>7, <2>1
          DEF Start, CreateBegin, CreateAdmits, CreateRun, CreateRollback, Register
<1>8. ASSUME NEW c \in Conns, Engine(c) \/ Failure(c) PROVE PayloadKept /\ TxKept
  BY <1>1, <1>2, <1>4, <1>8 DEF Engine, DrainGuide, EndLoop, FinalAnswer, Exhausted,
     EnterSoftLanding, AskClient, ClientAnswers, Delegate, Failure, Fail, PrepareFails, DoneNotWritten
<1>9. ASSUME NEW c \in Conns, Conclude(c) PROVE PayloadKept /\ TxKept
  <2>1. ASSUME DrainHead(c) PROVE PayloadKept
    BY <2>1 DEF DrainHead, IsFirst
  <2>2. ASSUME Release(c) PROVE PayloadKept
    <3>1. \A d \in Conns : g[d] \in Goroutine
      BY DEF NamedGoroutine
    <3> QED BY <2>2, <3>1 DEF Release, Goroutine
  <2>3. ASSUME Reap(c) PROVE PayloadKept
    BY <2>3 DEF Reap, Idle
  <2> QED BY <1>1, <1>2, <1>9, <2>1, <2>2, <2>3
          DEF Conclude, Finish, Settle, DrainHead, NothingToDrain, AbortSettle, Release, Reap
<1>10. ASSUME Commit \/ ShutdownHook \/ UNCHANGED vars \/ Manage \/ \E r \in RunId : ChildEnds(r)
       PROVE  PayloadKept /\ TxKept
  BY <1>4, <1>5, <1>10 DEF Commit, SteerCommit, InjectCommit, ShutdownHook, vars, Manage,
     DeleteQueued, Reorder, ChildEnds
<1>11. ASSUME UserCancel PROVE PayloadKept /\ TxKept
  BY <1>1, <1>4, <1>11 DEF UserCancel, CancelBegin, CancelWrite, Fail
<1>12. ASSUME Restart PROVE PayloadKept /\ TxKept
  BY <1>5, <1>12 DEF Restart, Idle
<1> QED BY <1>6, <1>7, <1>8, <1>9, <1>10, <1>11, <1>12 DEF Next, Process

LEMMA CopiesStep ==
    ASSUME LedgerInv, [Next]_vars PROVE PayloadCopies' /\ TxCopies'
<1>1. \A i \in RowId : ledger[i].status # "free" =>
          ledger'[i].input = ledger[i].input /\ ledger'[i].status # "free"
  <2>1. ASSUME NEW i \in RowId, RowQuiet(i), ledger[i].status # "free"
        PROVE  ledger'[i].input = ledger[i].input /\ ledger'[i].status # "free"
    BY <2>1 DEF RowQuiet
  <2> QED BY <2>1, RowSteps DEF Quiet, Direct, Delivers
<1>2. ASSUME NEW i \in 0..MaxRow, NEW n, CopyOf(i, n) PROVE CopyOf(i, n)'
  <2>1. i # 0 => i \in RowId
    BY Bounds DEF RowId
  <2> QED BY <1>1, <1>2, <2>1 DEF CopyOf
<1>3. PayloadCopies'
  <2>1. ASSUME NEW d \in Conns PROVE CopyOf(g[d].promote, g[d].input)'
    <3>1. CASE g'[d].promote = 0
      BY <3>1 DEF CopyOf
    <3>2. CASE g'[d].promote = g[d].promote /\ g'[d].input = g[d].input
      <4>1. g[d].promote \in 0..MaxRow /\ CopyOf(g[d].promote, g[d].input)
        BY GoroutineFields DEF LedgerInv, Typing, PayloadCopies
      <4> QED BY <1>2, <3>2, <4>1 DEF CopyOf
    <3>3. CASE g'[d].promote \in QueuedRows /\ g'[d].input = ledger[g'[d].promote].input
      <4>1. g'[d].promote \in RowId /\ ledger[g'[d].promote].status # "free"
        BY <3>3 DEF QueuedRows, RowsIn
      <4> QED BY <1>1, <3>3, <4>1 DEF CopyOf
    <3> QED BY <3>1, <3>2, <3>3, CopiesKept DEF PayloadKept
  <2> QED BY <2>1 DEF PayloadCopies, CopyOf
<1>4. TxCopies'
  <2>1. CASE UNCHANGED tx
    <3>1. tx.row \in 0..MaxRow
      BY TxFields DEF LedgerInv, Typing
    <3> QED BY <1>2, <2>1, <3>1 DEF LedgerInv, TxCopies, CopyOf
  <2>2. CASE tx'.kind # "create"
    BY <2>2 DEF TxCopies
  <2>3. ASSUME NEW c \in Conns, tx'.row = g[c].promote, tx'.input = g[c].input PROVE TxCopies'
    <3>1. g[c].promote \in 0..MaxRow /\ CopyOf(g[c].promote, g[c].input)
      BY GoroutineFields DEF LedgerInv, Typing, PayloadCopies
    <3> QED BY <1>2, <2>3, <3>1 DEF TxCopies, CopyOf
  <2> QED BY <2>1, <2>2, <2>3, CopiesKept DEF TxKept
<1> QED BY <1>3, <1>4

-----------------------------------------------------------------------------
LEMMA LedgerInit == Init => LedgerInv
<1> SUFFICES ASSUME Init PROVE LedgerInv
  OBVIOUS
<1>1. Typing
  BY TypingInit
<1>2. \A i \in RowId : TakenFrom(i) = {}
  BY DEF Init, TakenFrom
<1>3. PromoteAtomic
  BY <1>2 DEF Init, PromoteAtomic, FreeRow
<1>4. PayloadCopies /\ TxCopies
  BY NoTxKind DEF Init, PayloadCopies, TxCopies, CopyOf, Idle
<1> QED BY <1>1, <1>3, <1>4 DEF LedgerInv

LEMMA LedgerStep == LedgerInv /\ [Next]_vars => LedgerInv'
  BY TypingStep, PromoteStep, CopiesStep DEF LedgerInv

LEMMA LedgerInvHolds == Spec => []LedgerInv
  BY LedgerInit, LedgerStep, PTL DEF Spec

(* A row of the ledger is guided if and only if exactly one message of the *)
(* transcript was taken from it, and that message is its content, in the   *)
(* run it names: in no interleaving of drains, promotions, settlements,    *)
(* queue operations and restarts is a row told twice or marked in vain.    *)
THEOREM PromoteAtomicHolds == Spec => []PromoteAtomic
<1>1. LedgerInv => PromoteAtomic
  BY DEF LedgerInv
<1> QED BY <1>1, LedgerInvHolds, PTL

(* No step discards an input queued in this process.                       *)
THEOREM QueuedSurvivesHolds == Spec => QueuedSurvives
<1> DEFINE Survives == \A i \in RowId :
                          (ledger[i].status = "queued" /\ ~ledger[i].old) =>
                              ledger'[i].status # "discarded"
<1>1. ASSUME LedgerInv, [Next]_vars PROVE [Survives]_vars
  <2>1. ASSUME NEW i \in RowId, RowQuiet(i), ledger[i].status = "queued", ~ledger[i].old
        PROVE  ledger'[i].status # "discarded"
    BY <2>1 DEF RowQuiet
  <2> QED BY <1>1, <2>1, RowSteps DEF Quiet, Direct, Delivers
<1> QED BY <1>1, LedgerInvHolds, PTL DEF Spec, QueuedSurvives

-----------------------------------------------------------------------------
(* The refinement *)

LEMMA LedgerInitMaps == Init => Ledger!Init
<1> SUFFICES ASSUME Init PROVE Ledger!Init
  OBVIOUS
<1>1. \A i \in RowId : ledger[i].status = "free"
  BY DEF Init, FreeRow
<1>2. \A i \in RowId : TakenFrom(i) = {}
  BY DEF Init, TakenFrom
<1> QED BY <1>1, <1>2 DEF Ledger!Init

LEMMA QuietMaps ==
    ASSUME NEW i \in RowId, RowQuiet(i), TakenFrom(i)' = TakenFrom(i)
    PROVE  Ledger!Keep(i) \/ Ledger!Accept(i) \/ Ledger!Move(i) \/ Ledger!Withdraw(i) \/ Ledger!Discard(i)
<1>1. [k \in RowId |-> ledger[k].status][i] = ledger[i].status
  OBVIOUS
<1>2. [k \in RowId |-> ledger[k].status]'[i] = ledger'[i].status
  OBVIOUS
<1>3. [k \in RowId |-> TakenFrom(k)]'[i] = [k \in RowId |-> TakenFrom(k)][i]
  OBVIOUS
<1> QED BY <1>1, <1>2, <1>3 DEF RowQuiet, Ledger!Keep, Ledger!Accept, Ledger!Move,
           Ledger!Withdraw, Ledger!Discard, Ledger!Waiting

LEMMA DeliversMaps ==
    ASSUME LedgerInv, NEW i \in RowId, NEW r \in RunId, Delivers(i, r)
    PROVE  /\ Ledger!Deliver(i)
           /\ \A j \in RowId \ {i} : RowQuiet(j) /\ TakenFrom(j)' = TakenFrom(j)
<1> USE DEF LedgerInv, Typing
<1> DEFINE m == [input |-> ledger[i].input, row |-> i, run |-> r]
           n == Len(messages) + 1
<1>1. m \in Message /\ m.row = i
  <2>1. ledger[i].status # "free"
    BY DEF Delivers
  <2>2. ledger[i].input \in 1..MaxInput /\ i \in 0..MaxRow
    BY <2>1, Bounds, RowFields DEF RowId
  <2> QED BY <2>2 DEF Message
<1>2. messages' = Append(messages, m)
  BY DEF Delivers
<1> HIDE DEF m, n
<1>3. TakenFrom(i) = {} /\ ledger[i].status \in {"admitted", "queued"} /\ ledger'[i].status = "guided"
  BY DEF Delivers, PromoteAtomic
<1>4. TakenFrom(i)' = {n}
  BY <1>1, <1>2, <1>3, TakenAfter DEF n
<1>5. \A j \in RowId \ {i} : TakenFrom(j)' = TakenFrom(j) /\ n \notin TakenFrom(j)
  BY <1>1, <1>2, TakenAfter DEF n
<1>6. \A j \in RowId \ {i} : RowQuiet(j)
  BY DEF Delivers
<1>7. Ledger!Deliver(i)
  <2> DEFINE status == [k \in RowId |-> ledger[k].status]
             bound  == [k \in RowId |-> TakenFrom(k)]
  <2>1. status[i] = ledger[i].status /\ status'[i] = ledger'[i].status
    OBVIOUS
  <2>2. bound[i] = {} /\ bound'[i] = {n}
    BY <1>3, <1>4
  <2>3. \A j \in RowId \ {i} : n \notin bound[j] /\ n \notin bound'[j]
    BY <1>5
  <2> QED BY <1>3, <2>1, <2>2, <2>3 DEF Ledger!Deliver, Ledger!Waiting
<1> QED BY <1>5, <1>6, <1>7

LEMMA LedgerStepMaps ==
    ASSUME LedgerInv, [Next]_vars PROVE Ledger!Next
<1> USE DEF LedgerInv, Typing
<1>1. CASE \A i \in RowId : RowQuiet(i) /\ TakenFrom(i)' = TakenFrom(i)
  BY <1>1, QuietMaps DEF Ledger!Next
<1>2. CASE Quiet
  <2>1. \A i \in RowId : TakenFrom(i)' = TakenFrom(i)
    BY <1>2 DEF Quiet, TakenFrom
  <2> QED BY <1>1, <1>2, <2>1 DEF Quiet
<1>3. CASE Direct
  <2>1. PICK n \in 1..MaxInput, r \in RunId :
          messages' = Append(messages, [input |-> n, row |-> 0, run |-> r])
    BY <1>3 DEF Direct
  <2>2. [input |-> n, row |-> 0, run |-> r] \in Message
    BY Bounds DEF Message
  <2>3. ASSUME NEW i \in RowId PROVE TakenFrom(i)' = TakenFrom(i)
    <3>1. i # 0
      BY Bounds DEF RowId
    <3> QED BY <2>1, <2>2, <3>1, TakenAfter
  <2> QED BY <1>1, <1>3, <2>3 DEF Direct
<1>4. ASSUME NEW i \in RowId, NEW r \in RunId, Delivers(i, r) PROVE Ledger!Next
  <2>1. Ledger!Deliver(i)
    BY <1>4, DeliversMaps
  <2>2. ASSUME NEW j \in RowId \ {i}
        PROVE  Ledger!Keep(j) \/ Ledger!Accept(j) \/ Ledger!Move(j) \/ Ledger!Withdraw(j) \/ Ledger!Discard(j)
    BY <1>4, DeliversMaps, QuietMaps
  <2> QED BY <2>1, <2>2 DEF Ledger!Next
<1> QED BY <1>2, <1>3, <1>4, RowSteps

(* The pending-input table with its transcript implements the ledger: an   *)
(* input waits, is withdrawn, discarded, or delivered in one message that  *)
(* no other input is delivered in.                                         *)
THEOREM LedgerImplemented == Spec => LedgerSpec
<1>1. Init => Ledger!Init
  BY LedgerInitMaps
<1>2. LedgerInv /\ [Next]_vars =>
        [Ledger!Next]_<<[i \in RowId |-> ledger[i].status], [i \in RowId |-> TakenFrom(i)]>>
  BY LedgerStepMaps
<1> QED BY <1>1, <1>2, LedgerInvHolds, PTL DEF Spec, LedgerSpec, Ledger!Spec

-----------------------------------------------------------------------------
(* The order of delivery.  Rows are numbered under the session lock, so    *)
(* that numbers ascend with the rows unless the user reorders the queue;   *)
(* what is injected comes in front of what was admitted before.            *)
NoJumps == "inject" \notin Ops /\ "reorder" \notin Ops

Ascending ==
    /\ \A i, j \in RowId :
         i < j /\ ledger[j].status # "free" => ledger[i].status # "free" /\ ledger[i].seq < ledger[j].seq
    /\ tx.kind # "inject" /\ (tx.kind # "none" => \A i \in RowId : ledger[i].seq <= tx.seq)
AdmittedGuides == \A i \in RowId : ledger[i].status = "admitted" => ledger[i].delivery = "guide"
ToldRuns == \A k \in DOMAIN messages : runs[messages[k].run] # "none"

(* A run has been told nothing that was admitted after one of its guides.  *)
GuidesFollow ==
    \A k \in DOMAIN messages, i \in RowId :
        ledger[i].status = "admitted" /\ ledger[i].run = messages[k].run => messages[k].row < i
RowsInOrder ==
    \A j, k \in DOMAIN messages :
        j < k /\ messages[j].run = messages[k].run => messages[j].row < messages[k].row

GuideInv == Ascending /\ AdmittedGuides /\ ToldRuns /\ GuidesFollow /\ RowsInOrder

(* A settlement is due. *)
Settling == \E c \in Conns : g[c].pc \in {"settle", "abort"}

RowMoves(i) ==
    /\ ledger'[i].seq = ledger[i].seq
    /\ ledger'[i].status = "free" <=> ledger[i].status = "free"
    /\ ledger'[i].status = "admitted" =>
         /\ ledger[i].status = "admitted"
         /\ ledger'[i].run = ledger[i].run /\ ledger'[i].delivery = ledger[i].delivery
    /\ ledger'[i].status = "queued" =>
         ledger[i].status = "queued" \/ (ledger[i].status = "admitted" /\ Settling)
RowsMove == \A i \in RowId : RowMoves(i)

AddedAs(i) ==
    /\ ledger[i].status = "free" /\ \A j \in RowId : j < i => ledger[j].status # "free"
    /\ ledger'[i].status \in {"admitted", "queued"} /\ ledger'[i].seq = tx.seq + 1
    /\ ledger'[i].status = "admitted" => ledger'[i].delivery = "guide"
    /\ \A j \in RowId \ {i} : ledger'[j] = ledger[j]
RowAdded ==
    /\ \E i \in RowId : AddedAs(i)
    /\ tx.kind \in {"steer", "create"} /\ tx' = NoTx /\ UNCHANGED messages

TxNumbered ==
    \/ UNCHANGED tx
    \/ tx'.kind = "none"
    \/ UNCHANGED ledger /\ tx'.kind # "inject" /\ \A i \in RowId : ledger[i].seq <= tx'.seq

LEMMA SameMoves == ASSUME UNCHANGED ledger PROVE RowsMove
  BY DEF RowsMove, RowMoves

LEMMA AdmitMoves ==
    ASSUME Typing, Admit, tx.kind \in {"steer", "create"}, tx' = NoTx, UNCHANGED messages
    PROVE  RowsMove \/ RowAdded
<1>1. ASSUME NEW i \in RowId, IsNextRow(i), NEW d \in {"guide", "queue"}, NEW s \in {"admitted", "queued"},
             s = "admitted" => d = "guide", ledger \in [RowId -> NamedRow], AddRow(i, d, s)
      PROVE  AddedAs(i)
  <2>1. ledger'[i].status = s /\ ledger'[i].delivery = d /\ ledger'[i].seq = tx.seq + 1
    BY <1>1 DEF AddRow
  <2>2. \A j \in RowId \ {i} : ledger'[j] = ledger[j]
    BY <1>1 DEF AddRow
  <2> QED BY <1>1, <2>1, <2>2 DEF AddedAs, IsNextRow
<1>2. CASE UNCHANGED ledger
  BY <1>2, SameMoves
<1>3. CASE \E i \in RowId : IsNextRow(i) /\ (AddRow(i, "guide", "admitted") \/ AddRow(i, "queue", "queued"))
  BY <1>1, <1>3 DEF RowAdded, Typing
<1> QED BY <1>2, <1>3 DEF Admit

LEMMA ResumedMoves ==
    ASSUME ledger \in [RowId -> NamedRow], NEW i \in RowId
    PROVE  /\ Resumed[i].seq = ledger[i].seq
           /\ Resumed[i].status = "free" <=> ledger[i].status = "free"
           /\ Resumed[i].status # "admitted"
           /\ Resumed[i].status = "queued" => ledger[i].status = "queued"
<1>1. ledger[i] \in Row
  BY DEF NamedRow
<1> QED BY <1>1 DEF Resumed, LeftOver, Row

LEMMA SettledMoves ==
    ASSUME ledger \in [RowId -> NamedRow], NEW r, ledger' = Settled(r), Settling
    PROVE  RowsMove
<1> SUFFICES ASSUME NEW i \in RowId PROVE RowMoves(i)
  BY DEF RowsMove
<1>1. ledger[i] \in Row
  BY DEF NamedRow
<1>2. CASE ledger[i].status = "admitted" /\ ledger[i].run = r
  <2>1. ledger'[i].seq = ledger[i].seq /\ ledger'[i].status \in {"queued", "discarded"}
    BY <1>1, <1>2 DEF Settled, Row
  <2> QED BY <1>2, <2>1 DEF RowMoves
<1>3. CASE ~(ledger[i].status = "admitted" /\ ledger[i].run = r)
  <2>1. ledger'[i] = ledger[i]
    BY <1>3 DEF Settled
  <2> QED BY <2>1 DEF RowMoves
<1> QED BY <1>2, <1>3

(* A claim of the creation of a run: what was admitted is discarded.       *)
LEMMA CreateMoves ==
    ASSUME Typing, NEW c \in Conns, CreateRun(c)
    PROVE  /\ RowsMove /\ \A i \in RowId : ledger'[i].status # "admitted"
           /\ \A i \in RowId : ledger'[i].status = "queued" => ledger[i].status = "queued" /\ i # tx.row
           /\ tx.row # 0 => tx.row \in RowId /\ ledger[tx.row].status = "queued"
<1> USE DEF Typing
<1>1. tx.row \in 0..MaxRow
  BY TxFields
<1>2. PICK r \in RunId :
        \/ tx.row = 0 /\ ledger' = Resumed
        \/ /\ tx.row # 0 /\ CanPromote(tx.row)
           /\ ledger' = [Resumed EXCEPT ![tx.row].status = "guided", ![tx.row].run = r]
  BY DEF CreateRun
<1>3. tx.row # 0 => tx.row \in RowId
  BY <1>1, Bounds DEF RowId
<1>4. tx.row # 0 => ledger[tx.row].status = "queued"
  BY <1>2, <1>3, ResumedMoves DEF CanPromote
<1>5. \A i \in RowId : Resumed[i] \in Row
  BY ResumedTyping DEF NamedRow
<1>6. \A i \in RowId : i # tx.row => ledger'[i] = Resumed[i]
  BY <1>2, <1>3, ResumedTyping
<1>7. ASSUME tx.row # 0 PROVE ledger'[tx.row].status = "guided" /\ ledger'[tx.row].seq = Resumed[tx.row].seq
  <2>1. ledger' = [Resumed EXCEPT ![tx.row].status = "guided", ![tx.row].run = r]
    BY <1>2, <1>7
  <2>2. tx.row \in RowId /\ Resumed \in [RowId -> NamedRow] /\ Resumed[tx.row] \in Row
    BY <1>3, <1>5, <1>7, ResumedTyping
  <2> QED BY <2>1, <2>2 DEF Row
<1>8. ASSUME NEW i \in RowId
      PROVE  /\ RowMoves(i) /\ ledger'[i].status # "admitted"
             /\ ledger'[i].status = "queued" => ledger[i].status = "queued" /\ i # tx.row
  <2>1. CASE i # tx.row
    BY <1>6, <2>1, ResumedMoves DEF RowMoves
  <2>2. CASE i = tx.row
    <3>1. tx.row # 0
      BY <2>2, Bounds DEF RowId
    <3> QED BY <1>4, <1>7, <2>2, <3>1, ResumedMoves DEF RowMoves
  <2> QED BY <2>1, <2>2
<1> QED BY <1>3, <1>4, <1>8 DEF RowsMove

LEMMA RowChanges ==
    ASSUME Typing, NEW i \in RowId, NEW s \in RowStatus,
           ledger' = [ledger EXCEPT ![i].status = s]
    PROVE  /\ ledger'[i].status = s /\ ledger'[i].seq = ledger[i].seq /\ ledger'[i].run = ledger[i].run
           /\ \A j \in RowId \ {i} : ledger'[j] = ledger[j]
<1>1. ledger[i] \in Row
  BY RowFields DEF Typing, NamedRow
<1> QED BY <1>1 DEF Typing, Row

LEMMA RowsStep ==
    ASSUME Typing, NoJumps, tx.kind # "inject", [Next]_vars
    PROVE  RowsMove \/ RowAdded
<1> USE DEF Typing, dbVars, memVars, envVars
<1>1. ASSUME NEW c \in Conns, Client(c) PROVE RowsMove
  BY <1>1, SameMoves DEF Client, Submit, SteerBegin, InjectBegin, QueueSendRun
<1>2. ASSUME NEW c \in Conns, Start(c) PROVE RowsMove \/ RowAdded
  <2>1. ASSUME CreateAdmits(c) PROVE RowsMove \/ RowAdded
    BY <2>1, AdmitMoves DEF CreateAdmits, TxOwner
  <2> QED BY <1>2, <2>1, SameMoves, CreateMoves DEF Start, CreateBegin, CreateRollback, Register
<1>3. ASSUME NEW c \in Conns, DrainGuide(c) PROVE RowsMove
  <2>1. PICK i \in RowId : ledger[i].status = "admitted" /\ ledger' = [ledger EXCEPT ![i].status = "guided"]
    BY <1>3 DEF DrainGuide, IsFirst, GuidesOf, RowsIn
  <2>2. /\ ledger'[i].status = "guided" /\ ledger'[i].seq = ledger[i].seq
        /\ \A j \in RowId \ {i} : ledger'[j] = ledger[j]
    BY <2>1, RowChanges DEF RowStatus
  <2> QED BY <2>1, <2>2 DEF RowsMove, RowMoves
<1>4. ASSUME NEW c \in Conns, Engine(c) PROVE RowsMove
  BY <1>3, <1>4, SameMoves DEF Engine, EndLoop, FinalAnswer, Exhausted, EnterSoftLanding, AskClient,
     ClientAnswers, Delegate
<1>5. ASSUME NEW c \in Conns, Conclude(c) \/ Failure(c) PROVE RowsMove
  <2>1. Settle(c) \/ AbortSettle(c) => Settling
    BY DEF Settle, AbortSettle, At, Settling
  <2> QED BY <1>5, <2>1, SameMoves, SettledMoves DEF Conclude, Finish, Settle, DrainHead, NothingToDrain,
              AbortSettle, Release, Reap, Failure, Fail, PrepareFails, DoneNotWritten
<1>6. ASSUME UserCancel \/ ShutdownHook \/ UNCHANGED vars \/ \E r \in RunId : ChildEnds(r)
      PROVE  RowsMove
  BY <1>6, SameMoves DEF UserCancel, CancelBegin, CancelWrite, Fail, ShutdownHook, ChildEnds, vars
<1>7. ASSUME SteerCommit PROVE RowsMove \/ RowAdded
  BY <1>7, AdmitMoves DEF SteerCommit
<1>8. ~InjectCommit
  BY DEF InjectCommit
<1>9. ASSUME NEW k \in RowId, DeleteQueued(k) PROVE RowsMove
  <2>1. ledger[k].status = "queued" /\ ledger' = [ledger EXCEPT ![k].status = "cancelled"]
    BY <1>9 DEF DeleteQueued, QueuedRows, RowsIn
  <2>2. /\ ledger'[k].status = "cancelled" /\ ledger'[k].seq = ledger[k].seq
        /\ \A j \in RowId \ {k} : ledger'[j] = ledger[j]
    BY <2>1, RowChanges DEF RowStatus
  <2> QED BY <2>1, <2>2 DEF RowsMove, RowMoves
<1>10. ASSUME Restart PROVE RowsMove
  <2>1. ASSUME NEW i \in RowId PROVE RowMoves(i)
    <3>1. ledger[i] \in Row
      BY DEF NamedRow
    <3>2. /\ ledger'[i].status = ledger[i].status /\ ledger'[i].seq = ledger[i].seq
          /\ ledger'[i].run = ledger[i].run /\ ledger'[i].delivery = ledger[i].delivery
      BY <1>10, <3>1 DEF Restart, Row
    <3> QED BY <3>2 DEF RowMoves
  <2> QED BY <2>1 DEF RowsMove
<1> QED
  BY <1>1, <1>2, <1>4, <1>5, <1>6, <1>7, <1>8, <1>9, <1>10
  DEF Next, Commit, Manage, Process, Can, NoJumps

LEMMA NumbersStep ==
    ASSUME Typing, NoJumps, [Next]_vars
    PROVE  TxNumbered
<1> USE NoTxKind DEF TxNumbered, dbVars, memVars, envVars
<1>1. ASSUME NEW s, IsMaxSeq(s) PROVE \A i \in RowId : ledger[i].seq <= s
  BY <1>1 DEF IsMaxSeq, Seqs
<1>2. ASSUME NEW c \in Conns, NEW f \in Flavors, SteerBegin(c, f) PROVE TxNumbered
  <2>1. PICK t \in 0..MaxRun, s \in Seqs :
          /\ IsMaxSeq(s)
          /\ tx' = [kind |-> "steer", conn |-> c, target |-> t,
                    verdict |-> SteerVerdict(t, f), seq |-> s,
                    input |-> sent + 1, flavor |-> f, row |-> 0]
    BY <1>2 DEF SteerBegin
  <2>2. tx'.kind = "steer" /\ tx'.seq = s
    BY <2>1
  <2> QED BY <1>1, <1>2, <2>1, <2>2 DEF SteerBegin
<1>3. ASSUME NEW c \in Conns, CreateBegin(c) PROVE TxNumbered
  <2>1. PICK t \in 0..MaxRun, s \in Seqs :
          /\ IsMaxSeq(s)
          /\ tx' = [kind |-> "create", conn |-> c, target |-> t,
                    verdict |-> CreateVerdict(t, g[c].flavor), seq |-> s,
                    input |-> g[c].input, flavor |-> g[c].flavor, row |-> g[c].promote]
    BY <1>3 DEF CreateBegin
  <2>2. tx'.kind = "create" /\ tx'.seq = s
    BY <2>1
  <2> QED BY <1>1, <1>3, <2>1, <2>2 DEF CreateBegin
<1>4. ASSUME NEW c \in Conns, Client(c) PROVE TxNumbered
  BY <1>2, <1>4 DEF Client, Submit, QueueSendRun, Can, NoJumps
<1>5. ASSUME NEW c \in Conns, Start(c) PROVE TxNumbered
  BY <1>3, <1>5 DEF Start, CreateAdmits, CreateRun, CreateRollback, Register
<1>6. ASSUME NEW c \in Conns, Engine(c) \/ Conclude(c) \/ Failure(c) PROVE TxNumbered
  BY <1>6 DEF Engine, DrainGuide, EndLoop, FinalAnswer, Exhausted, EnterSoftLanding, AskClient,
     ClientAnswers, Delegate, Conclude, Finish, Settle, DrainHead, NothingToDrain,
     AbortSettle, Release, Reap, Failure, Fail, PrepareFails, DoneNotWritten
<1>7. ASSUME Commit \/ UserCancel \/ Manage \/ Process \/ UNCHANGED vars \/ \E r \in RunId : ChildEnds(r)
      PROVE  TxNumbered
  BY <1>7 DEF Commit, SteerCommit, InjectCommit, UserCancel, CancelBegin, CancelWrite, Fail, Manage,
     DeleteQueued, Reorder, Process, ShutdownHook, Restart, ChildEnds, vars
<1> QED BY <1>4, <1>5, <1>6, <1>7 DEF Next

LEMMA NewRow ==
    ASSUME Ascending, NEW i \in RowId, AddedAs(i), NEW k \in RowId, ledger[k].status # "free"
    PROVE  k < i
  BY DEF Ascending, AddedAs, RowId

LEMMA AscendingStep ==
    ASSUME Typing, NoJumps, Ascending, [Next]_vars PROVE Ascending'
<1>1. \A i \in RowId : ledger[i].seq \in Nat
  BY RowFields DEF Typing
<1>2. CASE RowsMove
  <2>1. tx'.kind # "none" => tx'.kind # "inject" /\ \A i \in RowId : ledger[i].seq <= tx'.seq
    BY NumbersStep DEF TxNumbered, Ascending
  <2>2. \A i \in RowId : ledger'[i].seq = ledger[i].seq /\ (ledger'[i].status = "free" <=> ledger[i].status = "free")
    BY <1>2 DEF RowsMove, RowMoves
  <2>3. tx'.kind # "inject"
    BY <2>1
  <2> QED BY <2>1, <2>2, <2>3 DEF Ascending
<1>3. CASE RowAdded
  <2>1. PICK i \in RowId : AddedAs(i)
    BY <1>3 DEF RowAdded
  <2>2. /\ ledger'[i].status # "free" /\ ledger'[i].seq = tx.seq + 1 /\ tx.seq \in Nat
        /\ \A j \in RowId \ {i} : ledger'[j] = ledger[j]
        /\ \A j \in RowId : ledger[j].seq <= tx.seq
        /\ \A j \in RowId : j < i => ledger[j].status # "free"
    BY <1>3, <2>1, TxFields DEF AddedAs, RowAdded, Ascending, Typing
  <2>3. \A k \in RowId : ledger[k].status # "free" => k < i
    BY <2>1, NewRow
  <2>4. tx'.kind = "none"
    BY <1>3, NoTxKind DEF RowAdded
  <2>5. ASSUME NEW j \in RowId, NEW k \in RowId, j < k, ledger'[k].status # "free"
        PROVE  ledger'[j].status # "free" /\ ledger'[j].seq < ledger'[k].seq
    <3>1. CASE k = i
      BY <1>1, <2>2, <2>5, <3>1 DEF RowId
    <3>2. CASE k # i
      <4>1. k < i /\ ledger[k].status # "free"
        BY <2>2, <2>3, <2>5, <3>2
      <4>2. j # i
        BY <2>5, <4>1 DEF RowId
      <4> QED BY <2>2, <2>5, <3>2, <4>1, <4>2 DEF Ascending
    <3> QED BY <3>1, <3>2
  <2> QED BY <2>4, <2>5 DEF Ascending
<1> QED BY <1>2, <1>3, RowsStep DEF Ascending

-----------------------------------------------------------------------------
(* Messages and the rows they were taken from *)

LEMMA MessageRow ==
    ASSUME LedgerInv, NEW k \in DOMAIN messages
    PROVE  /\ messages[k].run \in RunId
           /\ messages[k].row # 0 => messages[k].row \in RowId /\ ledger[messages[k].row].status = "guided"
           /\ messages[k].row \in 0..MaxRow
<1>1. messages[k] \in Message
  BY DEF LedgerInv, Typing
<1>2. messages[k].row \in 0..MaxRow /\ messages[k].run \in RunId
  BY <1>1 DEF Message
<1>3. ASSUME messages[k].row # 0 PROVE messages[k].row \in RowId /\ ledger[messages[k].row].status = "guided"
  <2>1. messages[k].row \in RowId
    BY <1>2, <1>3, Bounds DEF RowId
  <2>2. k \in TakenFrom(messages[k].row)
    BY DEF TakenFrom
  <2> QED BY <2>1, <2>2 DEF LedgerInv, PromoteAtomic
<1> QED BY <1>2, <1>3

LEMMA LastMessage ==
    ASSUME messages \in Seq(Message), NEW m \in Message, messages' = Append(messages, m)
    PROVE  /\ DOMAIN messages' = DOMAIN messages \cup {Len(messages) + 1}
           /\ DOMAIN messages \subseteq Nat /\ Len(messages) \in Nat
           /\ \A k \in DOMAIN messages : 1 <= k /\ k < Len(messages) + 1 /\ messages'[k] = messages[k]
           /\ DOMAIN messages = 1..Len(messages)
           /\ messages'[Len(messages) + 1] = m
  OBVIOUS

LEMMA RunsGrow ==
    ASSUME EngineInv, [Next]_vars PROVE \A r \in RunId : runs[r] # "none" => runs'[r] # "none"
<1> DEFINE Grows == \A r \in RunId : runs[r] # "none" => runs'[r] # "none"
<1> USE DEF dbVars, memVars, envVars
<1>1. UNCHANGED runs => Grows
  OBVIOUS
<1>2. ASSUME NEW r, NEW st, st # "none", SetState(r, st) PROVE Grows
  BY <1>2 DEF SetState, EngineInv, Typing
<1>3. ASSUME NEW S, runs' = Expired(S) PROVE Grows
  BY <1>3 DEF Expired
<1> HIDE DEF Grows
<1>4. ASSUME NEW c \in Conns, Client(c) \/ Start(c) PROVE Grows
  <2>1. ASSUME CreateRun(c) PROVE Grows
    BY <1>2, <2>1 DEF CreateRun, SetState
  <2> QED BY <1>1, <1>4, <2>1 DEF Client, Submit, SteerBegin, InjectBegin, QueueSendRun,
             Start, CreateBegin, CreateAdmits, CreateRollback, Register
<1>5. ASSUME NEW c \in Conns, Engine(c) \/ Conclude(c) PROVE Grows
  BY <1>1, <1>2, <1>5 DEF Engine, DrainGuide, EndLoop, FinalAnswer, Exhausted, EnterSoftLanding, AskClient,
     ClientAnswers, Delegate, Conclude, Finish, Settle, DrainHead, NothingToDrain, AbortSettle, Release, Reap
<1>6. ASSUME NEW c \in Conns, NEW st, Fail(c, st) PROVE Grows
  BY <1>2, <1>6 DEF Fail
<1>7. ASSUME NEW c \in Conns, Failure(c) PROVE Grows
  BY <1>1, <1>2, <1>6, <1>7 DEF Failure, PrepareFails, DoneNotWritten
<1>8. ASSUME UserCancel \/ Process PROVE Grows
  BY <1>1, <1>2, <1>3, <1>6, <1>8 DEF UserCancel, CancelBegin, CancelWrite, Process, ShutdownHook, Restart
<1>9. ASSUME Commit \/ Manage \/ UNCHANGED vars \/ \E r \in RunId : ChildEnds(r) PROVE Grows
  BY <1>1, <1>9 DEF Commit, SteerCommit, InjectCommit, Manage, DeleteQueued, Reorder, ChildEnds, vars
<1> QED BY <1>4, <1>5, <1>7, <1>8, <1>9 DEF Next, Grows

(* A guide that is told is the first of its run.                           *)
LEMMA GuideTold ==
    ASSUME EngineInv, LedgerInv, GuideInv, NEW c \in Conns, DrainGuide(c)
    PROVE  \E i \in RowId :
              /\ ledger[i].status = "admitted" /\ ledger[i].run = g[c].run
              /\ \E m \in Message : m.row = i /\ m.run = g[c].run /\ messages' = Append(messages, m)
              /\ \A x \in RowId : ledger'[x].status = "admitted" =>
                    ledger[x].status = "admitted" /\ ledger'[x].run = ledger[x].run /\ x # i
              /\ \A x \in RowId : ledger'[x].status = "admitted" /\ ledger'[x].run = g[c].run => i < x
<1>1. PICK i \in RowId :
        /\ IsFirst(i, GuidesOf(g[c].run))
        /\ ledger' = [ledger EXCEPT ![i].status = "guided"]
        /\ messages' = Append(messages, [input |-> ledger[i].input, row |-> i, run |-> g[c].run])
  BY DEF DrainGuide
<1>2. ledger[i].status = "admitted" /\ ledger[i].run = g[c].run
  BY <1>1 DEF IsFirst, GuidesOf, RowsIn
<1>3. /\ ledger'[i].status = "guided"
      /\ \A j \in RowId \ {i} : ledger'[j] = ledger[j]
  BY <1>1, RowChanges DEF LedgerInv, RowStatus
<1>4. g[c].run \in RunId
  BY GoroutineFields DEF DrainGuide, At, WithRun, EnginePc, LedgerInv, Typing
<1>5. [input |-> ledger[i].input, row |-> i, run |-> g[c].run] \in Message
  <2>1. ledger[i].input \in 1..MaxInput /\ i \in 0..MaxRow
    BY <1>2, Bounds, RowFields DEF RowId, LedgerInv, Typing
  <2> QED BY <1>4, <2>1 DEF Message
<1>6. ASSUME NEW x \in RowId, ledger'[x].status = "admitted", ledger'[x].run = g[c].run PROVE i < x
  <2>1. x # i /\ ledger[x].status = "admitted" /\ ledger[x].run = g[c].run
    BY <1>3, <1>6
  <2>2. x \in GuidesOf(g[c].run)
    BY <2>1 DEF GuidesOf, RowsIn, GuideInv, AdmittedGuides
  <2>3. Precedes(i, x)
    BY <1>1, <2>1, <2>2 DEF IsFirst
  <2>4. x < i => ledger[x].seq < ledger[i].seq
    BY <1>2 DEF GuideInv, Ascending
  <2>5. ledger[x].seq \in Nat /\ ledger[i].seq \in Nat
    BY RowFields DEF LedgerInv, Typing
  <2> QED BY <2>1, <2>3, <2>4, <2>5 DEF Precedes, RowId
<1> WITNESS i \in RowId
<1> QED BY <1>1, <1>2, <1>3, <1>5, <1>6

(* The first message of a run is the one that created it.                  *)
LEMMA RunBegins ==
    ASSUME EngineInv, LedgerInv, GuideInv, NEW c \in Conns, CreateRun(c)
    PROVE  \E m \in Message :
              /\ m.row = tx.row /\ messages' = Append(messages, m)
              /\ runs'[m.run] # "none" /\ g'[c].run = m.run
              /\ \A k \in DOMAIN messages : messages[k].run # m.run
<1>1. PICK r \in RunId :
        /\ IsNextRun(r) /\ runs' = [runs EXCEPT ![r] = "running"]
        /\ messages' = Append(messages, [input |-> tx.input, row |-> tx.row, run |-> r])
        /\ Drop(c, "created", r)
  BY DEF CreateRun
<1>2. [input |-> tx.input, row |-> tx.row, run |-> r] \in Message
  BY Bounds, TxFields DEF CreateRun, TxOwner, LedgerInv, Typing, Message
<1>3. runs'[r] # "none" /\ runs[r] = "none"
  BY <1>1 DEF IsNextRun, LedgerInv, Typing
<1>4. \A k \in DOMAIN messages : messages[k].run # r
  BY <1>3 DEF GuideInv, ToldRuns
<1>5. g'[c].run = r
  BY <1>1, DropFields DEF LedgerInv, Typing
<1> QED BY <1>1, <1>2, <1>3, <1>4, <1>5

LEMMA GuideStep ==
    ASSUME EngineInv, LedgerInv, GuideInv, NoJumps, [Next]_vars PROVE GuideInv'
<1>1. Ascending'
  BY AscendingStep DEF GuideInv, LedgerInv
<1>2. RowsMove \/ RowAdded
  BY RowsStep DEF GuideInv, Ascending, LedgerInv
<1>3. AdmittedGuides'
  <2>1. CASE RowsMove
    BY <2>1 DEF RowsMove, RowMoves, GuideInv, AdmittedGuides
  <2>2. ASSUME NEW i \in RowId, AddedAs(i) PROVE AdmittedGuides'
    BY <2>2 DEF AddedAs, GuideInv, AdmittedGuides
  <2> QED BY <1>2, <2>1, <2>2 DEF RowAdded
<1>4. CASE UNCHANGED messages
  <2>1. ToldRuns' /\ RowsInOrder'
    BY <1>4, RunsGrow, MessageRow DEF GuideInv, ToldRuns, RowsInOrder
  <2>2. GuidesFollow'
    <3>1. CASE RowsMove
      BY <1>4, <3>1 DEF RowsMove, RowMoves, GuideInv, GuidesFollow
    <3>2. ASSUME NEW i \in RowId, AddedAs(i) PROVE GuidesFollow'
      <4>1. ASSUME NEW k \in DOMAIN messages PROVE messages[k].row < i
        BY <3>2, <4>1, MessageRow, NewRow DEF GuideInv, RowId
      <4>2. \A j \in RowId \ {i} : ledger'[j] = ledger[j]
        BY <3>2 DEF AddedAs
      <4> QED BY <1>4, <4>1, <4>2 DEF GuideInv, GuidesFollow
    <3> QED BY <1>2, <3>1, <3>2 DEF RowAdded
  <2> QED BY <1>1, <1>3, <2>1, <2>2 DEF GuideInv
<1>5. ASSUME NEW c \in Conns, DrainGuide(c) PROVE GuideInv'
  <2>1. PICK i \in RowId :
          /\ ledger[i].status = "admitted" /\ ledger[i].run = g[c].run
          /\ \E m \in Message : m.row = i /\ m.run = g[c].run /\ messages' = Append(messages, m)
          /\ \A x \in RowId : ledger'[x].status = "admitted" =>
                ledger[x].status = "admitted" /\ ledger'[x].run = ledger[x].run /\ x # i
          /\ \A x \in RowId : ledger'[x].status = "admitted" /\ ledger'[x].run = g[c].run => i < x
    BY <1>5, GuideTold
  <2>2. PICK m \in Message : m.row = i /\ m.run = g[c].run /\ messages' = Append(messages, m)
    BY <2>1
  <2> DEFINE n == Len(messages) + 1
  <2>3. /\ DOMAIN messages' = DOMAIN messages \cup {n} /\ messages'[n] = m
        /\ \A k \in DOMAIN messages : k < n /\ messages'[k] = messages[k] /\ k \in Nat /\ n \in Nat
    BY <2>2, LastMessage DEF LedgerInv, Typing
  <2> HIDE DEF n
  <2>4. g[c].run # 0 /\ g[c].run \in RunId
    BY <1>5, GoroutineFields DEF DrainGuide, At, WithRun, EnginePc, LedgerInv, Typing
  <2>5. ToldRuns'
    BY <2>2, <2>3, <2>4, RunsGrow, MessageRow DEF GuideInv, ToldRuns, EngineInv, RunsKnown
  <2>6. GuidesFollow'
    BY <2>1, <2>2, <2>3 DEF GuideInv, GuidesFollow
  <2>7. RowsInOrder'
    <3>1. ASSUME NEW j \in DOMAIN messages, messages[j].run = g[c].run PROVE messages[j].row < i
      BY <2>1, <3>1 DEF GuideInv, GuidesFollow
    <3> QED BY <2>2, <2>3, <3>1 DEF GuideInv, RowsInOrder
  <2> QED BY <1>1, <1>3, <2>5, <2>6, <2>7 DEF GuideInv
<1>6. ASSUME NEW c \in Conns, CreateRun(c) PROVE GuideInv'
  <2>1. PICK m \in Message :
          /\ m.row = tx.row /\ messages' = Append(messages, m)
          /\ runs'[m.run] # "none" /\ \A k \in DOMAIN messages : messages[k].run # m.run
    BY <1>6, RunBegins
  <2> DEFINE n == Len(messages) + 1
  <2>2. /\ DOMAIN messages' = DOMAIN messages \cup {n} /\ messages'[n] = m
        /\ \A k \in DOMAIN messages : k < n /\ messages'[k] = messages[k] /\ k \in Nat /\ n \in Nat
    BY <2>1, LastMessage DEF LedgerInv, Typing
  <2> HIDE DEF n
  <2>3. ToldRuns'
    BY <2>1, <2>2, RunsGrow, MessageRow DEF GuideInv, ToldRuns
  <2>4. GuidesFollow'
    BY <1>6, CreateMoves DEF LedgerInv, GuidesFollow
  <2>5. RowsInOrder'
    BY <2>1, <2>2 DEF GuideInv, RowsInOrder
  <2> QED BY <1>1, <1>3, <2>3, <2>4, <2>5 DEF GuideInv
<1> QED BY <1>4, <1>5, <1>6, MessageWriters

LEMMA GuideInit == Init => GuideInv
  BY NoTxKind DEF Init, GuideInv, Ascending, AdmittedGuides, ToldRuns, GuidesFollow, RowsInOrder, FreeRow

(* The guides of a run reach the model in the order of their admission,    *)
(* however many connections admit, settle and cancel, when nothing is      *)
(* injected from the queue and the queue is not reordered.                 *)
THEOREM GuidesInOrderHolds == ASSUME NoJumps PROVE Spec => []GuidesInOrder
<1>1. Init => EngineInv /\ LedgerInv /\ GuideInv
  BY EngineInit, LedgerInit, GuideInit
<1>2. EngineInv /\ LedgerInv /\ GuideInv /\ [Next]_vars => (EngineInv /\ LedgerInv /\ GuideInv)'
  BY EngineStep, LedgerStep, GuideStep
<1>3. LedgerInv /\ GuideInv => GuidesInOrder
  <2> SUFFICES ASSUME LedgerInv, GuideInv, NEW j \in DOMAIN messages, NEW k \in DOMAIN messages,
                      j < k, messages[j].row # 0, messages[k].row # 0, messages[j].run = messages[k].run
               PROVE  AdmittedBefore(j, k)
    BY DEF GuidesInOrder, Injected
  <2>1. messages[j].row < messages[k].row
    BY DEF GuideInv, RowsInOrder
  <2> QED BY <2>1, MessageRow DEF GuideInv, Ascending, AdmittedBefore
<1> QED BY <1>1, <1>2, <1>3, PTL DEF Spec

-----------------------------------------------------------------------------
(* The order of the queue.  The head is read without a lock by a goroutine *)
(* that settled its run; that nothing older comes back into the queue      *)
(* before the head is claimed takes one connection: then nobody settles    *)
(* while a payload is on its way.                                          *)
OneConnection == \A c, d \in Conns : c = d

OnItsWay == {"release", "prepare", "create"}
PayloadPlaced == \A c \in Conns : g[c].promote # 0 => g[c].pc \in OnItsWay
TxPayload == \A c \in Conns : At(c, "create") => tx.row = g[c].promote /\ tx.input = g[c].input
RunsBegun == \A c \in Conns : Holding(c) => \E k \in DOMAIN messages : messages[k].run = g[c].run

(* The head on its way is the oldest of the queue, what was promoted is    *)
(* older than what may still be, and was promoted in order.                *)
HeadFirst ==
    \A c \in Conns, i \in RowId : g[c].promote # 0 /\ ledger[i].status = "queued" => g[c].promote <= i
PromotedFirst ==
    \A k \in DOMAIN messages, i \in RowId :
        Promoted(k) /\ ledger[i].status \in {"queued", "admitted"} => messages[k].row < i
PromotedInOrder ==
    \A j, k \in DOMAIN messages : j < k /\ Promoted(j) /\ Promoted(k) => messages[j].row < messages[k].row

PayloadInv == PayloadPlaced /\ TxPayload
QueueInv == RunsBegun /\ HeadFirst /\ PromotedFirst /\ PromotedInOrder

(* What a step does with a payload, and with the transaction it is in.     *)
PayloadMoves(d) ==
    /\ g'[d].promote # 0 =>
         \/ g'[d].promote = g[d].promote /\ (g[d].pc \in OnItsWay => g'[d].pc \in OnItsWay)
         \/ UNCHANGED ledger /\ g'[d].pc = "release" /\ IsFirst(g'[d].promote, QueuedRows)
    /\ At(d, "create")' =>
         \/ At(d, "create") /\ g'[d] = g[d] /\ UNCHANGED tx
         \/ CreateBegin(d) /\ tx'.row = g'[d].promote /\ tx'.input = g'[d].input

LEMMA SameMovesPayload ==
    ASSUME NEW d \in Conns, g'[d] = g[d], At(d, "create") => UNCHANGED tx PROVE PayloadMoves(d)
  BY DEF PayloadMoves, At

LEMMA GotoMovesPayload ==
    ASSUME Typing, NEW c \in Conns, NEW pc, Goto(c, pc), g[c].pc \notin OnItsWay, pc # "create"
    PROVE  PayloadMoves(c)
  BY GotoFields DEF PayloadMoves, Typing, At

LEMMA DropMovesPayload ==
    ASSUME Typing, NEW c \in Conns, NEW pc, NEW r, Drop(c, pc, r), pc # "create"
    PROVE  PayloadMoves(c)
  BY DropFields DEF PayloadMoves, Typing, At

LEMMA PayloadStep ==
    ASSUME Typing, [Next]_vars, NEW d \in Conns PROVE PayloadMoves(d)
<1> USE DEF Typing, dbVars, memVars, envVars
<1>1. At(d, "create") => tx.kind = "create" /\ tx.conn = d
  BY DEF TxOwner
<1>2. ASSUME UNCHANGED <<g, tx>> PROVE PayloadMoves(d)
  BY <1>2, SameMovesPayload
<1>3. ASSUME UNCHANGED g, tx.kind # "create" PROVE PayloadMoves(d)
  BY <1>1, <1>3, SameMovesPayload
<1>4. ASSUME NEW c \in Conns, c # d, \A e \in Conns \ {c} : g'[e] = g[e],
             UNCHANGED tx \/ LockFree \/ At(c, "create")
      PROVE  PayloadMoves(d)
  BY <1>1, <1>4, SameMovesPayload DEF LockFree, TxOwner
<1>5. ASSUME NEW c \in Conns, NEW n, NEW f, StartGoroutine(c, n, f, 0), UNCHANGED tx PROVE PayloadMoves(d)
  <2>1. (\A e \in Conns \ {c} : g'[e] = g[e]) /\ g'[c].pc = "prepare" /\ g'[c].promote = 0
    BY <1>5 DEF StartGoroutine
  <2>2. CASE c = d
    BY <2>1, <2>2 DEF PayloadMoves, At
  <2> QED BY <1>4, <1>5, <2>1, <2>2
<1>6. ASSUME NEW c \in Conns, NEW pc, Goto(c, pc), g[c].pc \notin OnItsWay, pc # "create", UNCHANGED tx
      PROVE  PayloadMoves(d)
  <2>1. \A e \in Conns \ {c} : g'[e] = g[e]
    BY <1>6, GotoFields
  <2> QED BY <1>4, <1>6, <2>1, GotoMovesPayload
<1>7. ASSUME NEW c \in Conns, NEW pc, NEW r, Drop(c, pc, r), pc # "create", UNCHANGED tx \/ At(c, "create")
      PROVE  PayloadMoves(d)
  <2>1. \A e \in Conns \ {c} : g'[e] = g[e]
    BY <1>7, DropFields
  <2> QED BY <1>4, <1>7, <2>1, DropMovesPayload
<1>8. ASSUME NEW c \in Conns, Client(c) PROVE PayloadMoves(d)
  <2>1. LockFree => tx.kind # "create"
    BY DEF LockFree
  <2> QED BY <1>3, <1>5, <1>8, <2>1 DEF Client, Submit, SteerBegin, InjectBegin, QueueSendRun
<1>9. ASSUME NEW c \in Conns, CreateBegin(c) PROVE PayloadMoves(d)
  <2>1. /\ \A e \in Conns \ {c} : g'[e] = g[e]
        /\ g'[c].pc = "create" /\ g'[c].promote = g[c].promote /\ g'[c].input = g[c].input
        /\ tx'.row = g[c].promote /\ tx'.input = g[c].input
    BY <1>9, GotoFields DEF CreateBegin
  <2>2. CASE c = d
    BY <1>9, <2>1, <2>2 DEF PayloadMoves, OnItsWay
  <2> QED BY <1>4, <1>9, <2>1, <2>2 DEF CreateBegin
<1>10. ASSUME NEW c \in Conns, Start(c) PROVE PayloadMoves(d)
  <2>1. ASSUME Register(c) PROVE PayloadMoves(d)
    BY <1>6, <2>1 DEF Register, At, OnItsWay
  <2>2. ASSUME CreateAdmits(c) \/ CreateRollback(c) PROVE PayloadMoves(d)
    BY <1>7, <2>2 DEF CreateAdmits, CreateRollback
  <2>3. ASSUME CreateRun(c) PROVE PayloadMoves(d)
    BY <1>7, <2>3 DEF CreateRun
  <2> QED BY <1>9, <1>10, <2>1, <2>2, <2>3 DEF Start
<1>11. ASSUME NEW c \in Conns, Engine(c) PROVE PayloadMoves(d)
  <2>1. ASSUME FinalAnswer(c) \/ Exhausted(c) \/ AskClient(c) \/ ClientAnswers(c) PROVE PayloadMoves(d)
    BY <1>6, <2>1 DEF FinalAnswer, Exhausted, AskClient, ClientAnswers, At, OnItsWay
  <2> QED BY <1>2, <1>11, <2>1 DEF Engine, EndLoop, DrainGuide, EnterSoftLanding, Delegate
<1>12. ASSUME NEW c \in Conns, NEW st, Fail(c, st) PROVE PayloadMoves(d)
  BY <1>6, <1>12 DEF Fail, EnginePc, OnItsWay
<1>13. ASSUME NEW c \in Conns, Failure(c) PROVE PayloadMoves(d)
  <2>1. ASSUME PrepareFails(c) PROVE PayloadMoves(d)
    BY <1>7, <2>1 DEF PrepareFails
  <2>2. ASSUME DoneNotWritten(c) PROVE PayloadMoves(d)
    BY <1>6, <2>2 DEF DoneNotWritten, At, OnItsWay
  <2> QED BY <1>12, <1>13, <2>1, <2>2 DEF Failure
<1>14. ASSUME NEW c \in Conns, Conclude(c) PROVE PayloadMoves(d)
  <2>1. ASSUME Finish(c) \/ Settle(c) PROVE PayloadMoves(d)
    BY <1>6, <2>1 DEF Finish, Settle, At, OnItsWay
  <2>2. ASSUME NothingToDrain(c) \/ AbortSettle(c) PROVE PayloadMoves(d)
    BY <1>7, <2>2 DEF NothingToDrain, AbortSettle
  <2>3. ASSUME DrainHead(c) PROVE PayloadMoves(d)
    <3>1. PICK i \in RowId :
            /\ IsFirst(i, QueuedRows)
            /\ g' = [g EXCEPT ![c] = [pc |-> "release", run |-> @.run, input |-> ledger[i].input,
                                      flavor |-> ledger[i].flavor, promote |-> i]]
      BY <2>3 DEF DrainHead
    <3>2. (\A e \in Conns \ {c} : g'[e] = g[e]) /\ g'[c].pc = "release" /\ g'[c].promote = i
      BY <3>1
    <3>3. CASE c = d
      BY <2>3, <3>1, <3>2, <3>3 DEF PayloadMoves, DrainHead, At
    <3> QED BY <1>4, <2>3, <3>2, <3>3 DEF DrainHead
  <2>4. ASSUME Release(c) PROVE PayloadMoves(d)
    <3>1. g[c] \in Goroutine
      BY DEF NamedGoroutine
    <3>2. /\ \A e \in Conns \ {c} : g'[e] = g[e]
          /\ g'[c].promote = g[c].promote /\ g'[c].pc = IF g[c].promote # 0 THEN "prepare" ELSE "done"
      BY <2>4, <3>1 DEF Release, Goroutine
    <3>3. CASE c = d
      BY <3>2, <3>3 DEF PayloadMoves, At, OnItsWay
    <3> QED BY <1>4, <2>4, <3>2, <3>3 DEF Release
  <2>5. ASSUME Reap(c) PROVE PayloadMoves(d)
    <3>1. (\A e \in Conns \ {c} : g'[e] = g[e]) /\ g'[c].pc = "idle" /\ g'[c].promote = 0
      BY <2>5 DEF Reap, Idle
    <3>2. CASE c = d
      BY <3>1, <3>2 DEF PayloadMoves, At
    <3> QED BY <1>4, <2>5, <3>1, <3>2 DEF Reap
  <2> QED BY <1>14, <2>1, <2>2, <2>3, <2>4, <2>5 DEF Conclude
<1>15. ASSUME Commit PROVE PayloadMoves(d)
  BY <1>3, <1>15 DEF Commit, SteerCommit, InjectCommit
<1>16. ASSUME UserCancel PROVE PayloadMoves(d)
  BY <1>2, <1>12, <1>16 DEF UserCancel, CancelBegin, CancelWrite
<1>17. ASSUME Manage \/ ShutdownHook \/ UNCHANGED vars \/ \E r \in RunId : ChildEnds(r) PROVE PayloadMoves(d)
  BY <1>2, <1>17 DEF Manage, DeleteQueued, Reorder, ShutdownHook, ChildEnds, vars
<1>18. ASSUME Restart PROVE PayloadMoves(d)
  BY <1>18 DEF Restart, Idle, PayloadMoves, At
<1> QED BY <1>8, <1>10, <1>11, <1>13, <1>14, <1>15, <1>16, <1>17, <1>18 DEF Next, Process

LEMMA PayloadInvStep ==
    ASSUME Typing, PayloadInv, [Next]_vars PROVE PayloadInv'
<1>1. PayloadPlaced'
  <2>1. "release" \in OnItsWay
    BY DEF OnItsWay
  <2> QED BY <2>1, PayloadStep DEF PayloadInv, PayloadPlaced, PayloadMoves
<1>2. TxPayload'
  BY PayloadStep DEF PayloadInv, TxPayload, PayloadMoves, At
<1> QED BY <1>1, <1>2 DEF PayloadInv

-----------------------------------------------------------------------------
LEMMA PromotedBefore ==
    ASSUME messages \in Seq(Message), NEW m \in Message, messages' = Append(messages, m),
           NEW n, n = Len(messages) + 1
    PROVE  /\ \A k \in DOMAIN messages : Promoted(k)' = Promoted(k)
           /\ Promoted(n)' => m.row # 0 /\ \A k \in DOMAIN messages : messages[k].run # m.run
<1>1. /\ n \in Nat /\ messages'[n] = m /\ DOMAIN messages = 1..(n - 1)
      /\ \A k \in 1..(n - 1) : messages'[k] = messages[k]
  BY LastMessage
<1>2. ASSUME NEW k \in 1..(n - 1) PROVE Promoted(k)' = Promoted(k)
  <2>1. \A j \in 1..(k - 1) : messages'[j] = messages[j]
    BY <1>1
  <2> QED BY <1>1, <2>1 DEF Promoted
<1>3. ASSUME Promoted(n)' PROVE m.row # 0 /\ \A k \in 1..(n - 1) : messages[k].run # m.run
  <2>1. messages'[n].row # 0 /\ \A k \in 1..(n - 1) : messages'[k].run # messages'[n].run
    BY <1>3 DEF Promoted
  <2> QED BY <1>1, <2>1
<1> QED BY <1>1, <1>2, <1>3

LEMMA HeadStep ==
    ASSUME LedgerInv, GuideInv, PayloadInv, QueueInv, OneConnection, NoJumps, [Next]_vars
    PROVE  HeadFirst'
<1> SUFFICES ASSUME NEW d \in Conns, NEW i \in RowId, g'[d].promote # 0, ledger'[i].status = "queued"
             PROVE  g'[d].promote <= i
  BY DEF HeadFirst
<1>1. CASE g'[d].promote = g[d].promote
  <2>1. g[d].promote \in RowId /\ ledger[g[d].promote].status # "free" /\ g[d].pc \in OnItsWay
    BY <1>1, Bounds, GoroutineFields DEF LedgerInv, Typing, PayloadCopies, CopyOf, RowId, PayloadInv, PayloadPlaced
  <2>2. ledger[i].status = "queued" => g[d].promote <= i
    BY <1>1 DEF QueueInv, HeadFirst
  <2>3. ~Settling
    BY <2>1 DEF Settling, OneConnection, OnItsWay
  <2>4. CASE RowsMove
    BY <1>1, <2>2, <2>3, <2>4 DEF RowsMove, RowMoves
  <2>5. ASSUME NEW x \in RowId, AddedAs(x) PROVE g[d].promote <= i
    <3>1. CASE x = i
      BY <2>1, <2>5, <3>1, NewRow DEF GuideInv, RowId
    <3>2. CASE x # i
      BY <2>2, <2>5, <3>2 DEF AddedAs
    <3> QED BY <3>1, <3>2
  <2> QED BY <1>1, <2>4, <2>5, RowsStep DEF RowAdded, GuideInv, Ascending, LedgerInv
<1>2. CASE UNCHANGED ledger /\ IsFirst(g'[d].promote, QueuedRows)
  <2> DEFINE p == g'[d].promote
  <2>1. p \in RowId /\ ledger[p].status = "queued" /\ i \in QueuedRows
    BY <1>2 DEF IsFirst, QueuedRows, RowsIn
  <2>2. p = i \/ Precedes(p, i)
    BY <1>2, <2>1 DEF IsFirst
  <2>3. i < p => ledger[i].seq < ledger[p].seq
    BY <2>1 DEF GuideInv, Ascending
  <2>4. ledger[i].seq \in Nat /\ ledger[p].seq \in Nat
    BY <2>1, RowFields DEF LedgerInv, Typing
  <2> HIDE DEF p
  <2>5. p <= i
    BY <2>1, <2>2, <2>3, <2>4 DEF Precedes, RowId
  <2> QED BY <2>5 DEF p
<1> QED BY <1>1, <1>2, PayloadStep DEF PayloadMoves, LedgerInv

LEMMA QueueStep ==
    ASSUME EngineInv, LedgerInv, GuideInv, PayloadInv, QueueInv, OneConnection, NoJumps, [Next]_vars
    PROVE  QueueInv'
<1>1. HeadFirst'
  BY HeadStep
<1>2. RowsMove \/ RowAdded
  BY RowsStep DEF GuideInv, Ascending, LedgerInv
<1>3. CASE UNCHANGED messages
  <2>1. \A k \in DOMAIN messages : Promoted(k)' = Promoted(k)
    BY <1>3 DEF Promoted
  <2>2. PromotedInOrder'
    BY <1>3, <2>1 DEF QueueInv, PromotedInOrder
  <2>3. PromotedFirst'
    <3>1. ASSUME NEW k \in DOMAIN messages, NEW i \in RowId, Promoted(k), ledger'[i].status \in {"queued", "admitted"}
          PROVE  messages[k].row < i
      <4>1. ledger[i].status \in {"queued", "admitted"} => messages[k].row < i
        BY <3>1 DEF QueueInv, PromotedFirst
      <4>2. CASE RowsMove
        BY <3>1, <4>1, <4>2 DEF RowsMove, RowMoves
      <4>3. ASSUME NEW x \in RowId, AddedAs(x) PROVE messages[k].row < i
        <5>1. CASE x = i
          BY <3>1, <4>3, <5>1, MessageRow, NewRow DEF GuideInv, Promoted
        <5>2. CASE x # i
          BY <3>1, <4>1, <4>3, <5>2 DEF AddedAs
        <5> QED BY <5>1, <5>2
      <4> QED BY <1>2, <4>2, <4>3 DEF RowAdded
    <3> QED BY <1>3, <2>1, <3>1 DEF PromotedFirst
  <2>4. RunsBegun'
    <3>1. ASSUME NEW c \in Conns, CreateRun(c) PROVE FALSE
      <4>1. PICK m \in Message : messages' = Append(messages, m)
        BY <3>1, RunBegins
      <4>2. Len(messages') = Len(messages) + 1 /\ Len(messages) \in Nat
        BY <4>1 DEF LedgerInv, Typing
      <4> QED BY <1>3, <4>2
    <3> QED BY <1>3, <3>1, HoldingKept DEF QueueInv, RunsBegun
  <2> QED BY <1>1, <2>2, <2>3, <2>4 DEF QueueInv
<1>4. ASSUME NEW c \in Conns, DrainGuide(c) PROVE QueueInv'
  <2>1. PICK m \in Message : m.run = g[c].run /\ messages' = Append(messages, m)
    BY <1>4, GuideTold
  <2> PICK n : n = Len(messages) + 1
    OBVIOUS
  <2>2. /\ DOMAIN messages' = DOMAIN messages \cup {n} /\ messages'[n] = m
        /\ \A k \in DOMAIN messages : k < n /\ messages'[k] = messages[k] /\ k \in Nat /\ n \in Nat
    BY <2>1, LastMessage DEF LedgerInv, Typing
  <2>3. PICK k \in DOMAIN messages : messages[k].run = m.run
    BY <1>4, <2>1 DEF DrainGuide, At, Holding, EnginePc, QueueInv, RunsBegun
  <2>4. ~Promoted(n)' /\ \A j \in DOMAIN messages : Promoted(j)' = Promoted(j)
    BY <2>1, <2>3, PromotedBefore DEF LedgerInv, Typing
  <2>5. RowsMove
    <3>1. ~RowAdded
      <4>1. Len(messages') = Len(messages) + 1 /\ Len(messages) \in Nat
        BY <2>1 DEF LedgerInv, Typing
      <4> QED BY <4>1 DEF RowAdded
    <3> QED BY <1>2, <3>1
  <2>6. PromotedInOrder' /\ PromotedFirst'
    BY <2>2, <2>4, <2>5 DEF QueueInv, PromotedInOrder, PromotedFirst, RowsMove, RowMoves
  <2>7. RunsBegun'
    <3>1. UNCHANGED g
      BY <1>4 DEF DrainGuide
    <3> QED BY <2>2, <3>1 DEF QueueInv, RunsBegun, Holding
  <2> QED BY <1>1, <2>6, <2>7 DEF QueueInv
<1>5. ASSUME NEW c \in Conns, CreateRun(c) PROVE QueueInv'
  <2>1. PICK m \in Message : m.row = tx.row /\ messages' = Append(messages, m) /\ g'[c].run = m.run
    BY <1>5, RunBegins
  <2> PICK n : n = Len(messages) + 1
    OBVIOUS
  <2>2. /\ DOMAIN messages' = DOMAIN messages \cup {n} /\ messages'[n] = m
        /\ \A k \in DOMAIN messages : k < n /\ messages'[k] = messages[k] /\ k \in Nat /\ n \in Nat
    BY <2>1, LastMessage DEF LedgerInv, Typing
  <2>3. (Promoted(n)' => m.row # 0) /\ \A j \in DOMAIN messages : Promoted(j)' = Promoted(j)
    BY <2>1, PromotedBefore DEF LedgerInv, Typing
  <2>4. /\ \A i \in RowId : ledger'[i].status # "admitted"
        /\ \A i \in RowId : ledger'[i].status = "queued" => ledger[i].status = "queued" /\ i # tx.row
        /\ tx.row # 0 => tx.row \in RowId /\ ledger[tx.row].status = "queued"
    BY <1>5, CreateMoves DEF LedgerInv
  <2>5. tx.row = g[c].promote
    BY <1>5 DEF CreateRun, PayloadInv, TxPayload
  <2>6. ASSUME tx.row # 0, NEW i \in RowId, ledger'[i].status = "queued" PROVE tx.row < i
    <3>1. tx.row <= i /\ i # tx.row
      BY <2>4, <2>5, <2>6 DEF QueueInv, HeadFirst
    <3> QED BY <2>4, <2>6, <3>1 DEF RowId
  <2>7. PromotedFirst'
    BY <2>1, <2>2, <2>3, <2>4, <2>6 DEF QueueInv, PromotedFirst
  <2>8. ASSUME tx.row # 0, NEW j \in DOMAIN messages, Promoted(j) PROVE messages[j].row < tx.row
    BY <2>4, <2>8 DEF QueueInv, PromotedFirst
  <2>9. PromotedInOrder'
    BY <2>1, <2>2, <2>3, <2>8 DEF QueueInv, PromotedInOrder
  <2>10. RunsBegun'
    BY <2>1, <2>2 DEF RunsBegun, OneConnection
  <2> QED BY <1>1, <2>7, <2>9, <2>10 DEF QueueInv
<1> QED BY <1>3, <1>4, <1>5, MessageWriters

LEMMA QueueInit == Init => PayloadInv /\ QueueInv
<1> SUFFICES ASSUME Init PROVE PayloadInv /\ QueueInv
  OBVIOUS
<1>1. \A c \in Conns : g[c].promote = 0 /\ g[c].pc = "idle"
  BY DEF Init, Idle
<1>2. DOMAIN messages = {}
  BY DEF Init
<1> QED BY <1>1, <1>2 DEF PayloadInv, PayloadPlaced, TxPayload, QueueInv, RunsBegun, HeadFirst,
           PromotedFirst, PromotedInOrder, Holding, EnginePc, At

(* On one connection inputs become messages in the order of admission,     *)
(* guides and promoted rows alike, whatever is settled, deleted, cancelled *)
(* and restarted meanwhile.                                                *)
THEOREM FirstInFirstOutHolds == ASSUME NoJumps, OneConnection PROVE Spec => []FirstInFirstOut
<1> DEFINE Inv == EngineInv /\ LedgerInv /\ GuideInv /\ PayloadInv /\ QueueInv
<1>1. Init => Inv
  BY EngineInit, LedgerInit, GuideInit, QueueInit
<1>2. Inv /\ [Next]_vars => Inv'
  <2> SUFFICES ASSUME Inv, [Next]_vars PROVE Inv'
    OBVIOUS
  <2>1. PayloadInv'
    BY PayloadInvStep DEF LedgerInv
  <2> QED BY <2>1, EngineStep, LedgerStep, GuideStep, QueueStep
<1>3. Inv => QueueInOrder
  <2> SUFFICES ASSUME Inv, NEW j \in DOMAIN messages, NEW k \in DOMAIN messages,
                      j < k, Promoted(j), Promoted(k)
               PROVE  AdmittedBefore(j, k)
    BY DEF QueueInOrder
  <2>1. messages[j].row < messages[k].row
    BY DEF QueueInv, PromotedInOrder
  <2> QED BY <2>1, MessageRow DEF GuideInv, Ascending, AdmittedBefore, Promoted
<1> HIDE DEF Inv
<1>4. Spec => []QueueInOrder
  BY <1>1, <1>2, <1>3, PTL DEF Spec
<1> QED BY <1>4, GuidesInOrderHolds, PTL DEF FirstInFirstOut

-----------------------------------------------------------------------------
(* Once per input.  A payload is copied into a new row when the creation   *)
(* of its run meets an active one, so that a row that is promoted must     *)
(* meet none: on one connection the promotion follows the end of the run,  *)
(* unless a late write makes that run active again.  Rows that are sent    *)
(* from the queue (queue_send) are copied at once.                         *)
NoCopies == OneConnection /\ NoLateWrites /\ "queue_send" \notin Ops

(* Where an input is kept: in a row, in a message that came from no row,   *)
(* in a goroutine that brings it from the client, in an open admission.    *)
Fresh(c) == g[c].pc \in {"prepare", "create"} /\ g[c].promote = 0
FromNoRow(k) == messages[k].row = 0
InRow(n) == \E i \in RowId : ledger[i].status # "free" /\ ledger[i].input = n
Told(n) == \E k \in DOMAIN messages : FromNoRow(k) /\ messages[k].input = n
Kept(n) == InRow(n) \/ Told(n)
Pending(n) == (\E c \in Conns : Fresh(c) /\ g[c].input = n) \/ (tx.kind = "steer" /\ tx.input = n)

KeptOnce ==
    /\ \A i, j \in RowId :
         ledger[i].status # "free" /\ ledger[j].status # "free" /\ ledger[i].input = ledger[j].input => i = j
    /\ \A j, k \in DOMAIN messages :
         FromNoRow(j) /\ FromNoRow(k) /\ messages[j].input = messages[k].input => j = k
    /\ \A n : ~(InRow(n) /\ Told(n))
PendingOnce ==
    /\ \A n : Pending(n) => ~Kept(n)
    /\ tx.kind = "steer" => \A c \in Conns : Fresh(c) => g[c].input # tx.input
SentBefore == \A n \in Nat : Kept(n) \/ Pending(n) => n <= sent

(* Between the end of a run and the next one on the way no run is active.  *)
Over(c) == g[c].promote # 0 \/ g[c].pc \in {"settle", "settled", "abort", "release"}
QuietBetween == \A c \in Conns : Over(c) => \A r \in RunId : ~Active(r)
ClaimsOnly == \A c \in Conns : At(c, "create") /\ g[c].promote # 0 => tx.verdict \in {"create", "busy"}

InputInv == KeptOnce /\ PendingOnce /\ SentBefore
BetweenInv == QuietBetween /\ ClaimsOnly

-----------------------------------------------------------------------------
(* Who adds a row, a message from no row, a goroutine from the client, an  *)
(* admission.                                                              *)
RowNew(n) ==
    \E i \in RowId : /\ ledger[i].status = "free" /\ ledger'[i].status # "free" /\ ledger'[i].input = n
                     /\ \A j \in RowId \ {i} : ledger'[j] = ledger[j]
RowsKept ==
    \A i \in RowId : /\ ledger'[i].status = "free" <=> ledger[i].status = "free"
                     /\ ledger[i].status # "free" => ledger'[i].input = ledger[i].input
NoneTold ==
    UNCHANGED messages \/ \E m \in Message : m.row # 0 /\ messages' = Append(messages, m)

LEMMA AdmitAdds ==
    ASSUME Typing, Admit
    PROVE  UNCHANGED ledger \/ (tx.verdict \in {"guide", "queue"} /\ RowNew(tx.input))
<1>1. ASSUME NEW i \in RowId, IsNextRow(i), NEW d, NEW s \in {"admitted", "queued"}, AddRow(i, d, s)
      PROVE  RowNew(tx.input)
  <2>1. ledger'[i].status = s /\ ledger'[i].input = tx.input /\ \A j \in RowId \ {i} : ledger'[j] = ledger[j]
    BY <1>1 DEF AddRow, Typing
  <2> QED BY <1>1, <2>1 DEF RowNew, IsNextRow
<1> QED BY <1>1 DEF Admit

(* Only an admission turns a free row into one that is not.                *)
LEMMA FreeStays ==
    ASSUME Typing, [Next]_vars, ~SteerCommit, \A c \in Conns : ~CreateAdmits(c),
           NEW i \in RowId, ledger[i].status = "free"
    PROVE  ledger'[i].status = "free"
<1> USE DEF Typing, dbVars, memVars, envVars
<1>1. ASSUME NEW c \in Conns, Client(c) PROVE UNCHANGED ledger
  BY <1>1 DEF Client, Submit, SteerBegin, InjectBegin, QueueSendRun
<1>2. ASSUME NEW c \in Conns, Start(c) PROVE ledger'[i].status = "free"
  BY <1>2, CreateMoves DEF Start, CreateBegin, CreateRollback, Register, RowsMove, RowMoves
<1>3. ASSUME NEW c \in Conns, DrainGuide(c) PROVE ledger'[i].status = "free"
  BY <1>3 DEF DrainGuide, IsFirst, GuidesOf, RowsIn
<1>4. ASSUME NEW c \in Conns, Engine(c) PROVE ledger'[i].status = "free"
  BY <1>3, <1>4 DEF Engine, EndLoop, FinalAnswer, Exhausted, EnterSoftLanding, AskClient,
     ClientAnswers, Delegate
<1>5. ASSUME NEW r, ledger' = Settled(r) PROVE ledger'[i].status = "free"
  BY <1>5 DEF Settled
<1>6. ASSUME NEW c \in Conns, Conclude(c) \/ Failure(c) PROVE ledger'[i].status = "free"
  BY <1>5, <1>6 DEF Conclude, Finish, Settle, DrainHead, NothingToDrain, AbortSettle, Release, Reap,
     Failure, Fail, PrepareFails, DoneNotWritten
<1>7. ASSUME UserCancel \/ ShutdownHook \/ UNCHANGED vars \/ \E r \in RunId : ChildEnds(r)
      PROVE  UNCHANGED ledger
  BY <1>7 DEF UserCancel, CancelBegin, CancelWrite, Fail, ShutdownHook, ChildEnds, vars
<1>8. ASSUME InjectCommit PROVE ledger'[i].status = "free"
  <2>1. CASE UNCHANGED ledger
    BY <2>1
  <2>2. CASE /\ tx.row \in QueuedRows
             /\ ledger' = [ledger EXCEPT ![tx.row].status = "admitted",
                                         ![tx.row].delivery = "guide",
                                         ![tx.row].run = tx.target]
    <3>1. tx.row # i
      BY <2>2 DEF QueuedRows, RowsIn
    <3>2. ledger'[i] = ledger[i]
      BY <2>2, <3>1
    <3> QED BY <3>2
  <2> QED BY <1>8, <2>1, <2>2 DEF InjectCommit
<1>9. ASSUME NEW k \in RowId, DeleteQueued(k) PROVE ledger'[i].status = "free"
  BY <1>9 DEF DeleteQueued, QueuedRows, RowsIn
<1>10. ASSUME Reorder PROVE ledger'[i].status = "free"
  BY <1>10 DEF Reorder, QueuedRows, RowsIn
<1>11. ASSUME Restart PROVE ledger'[i].status = "free"
  <2>1. ledger[i] \in Row
    BY DEF NamedRow
  <2> QED BY <1>11, <2>1 DEF Restart, Row
<1> QED BY <1>1, <1>2, <1>4, <1>6, <1>7, <1>8, <1>9, <1>10, <1>11 DEF Next, Commit, Manage, Process

LEMMA KeptRows ==
    ASSUME LedgerInv, [Next]_vars,
           \A i \in RowId : ledger[i].status = "free" => ledger'[i].status = "free"
    PROVE  RowsKept
<1>1. ASSUME NEW i \in RowId, RowQuiet(i) \/ (\E r \in RunId : Delivers(i, r)), ledger[i].status # "free"
      PROVE  ledger'[i].status # "free" /\ ledger'[i].input = ledger[i].input
  BY <1>1 DEF RowQuiet, Delivers
<1>2. \A i \in RowId : RowQuiet(i) \/ \E r \in RunId : Delivers(i, r)
  BY RowSteps DEF Quiet, Direct, Delivers
<1> QED BY <1>1, <1>2 DEF RowsKept

LEMMA MessageFromRow ==
    ASSUME LedgerInv, [Next]_vars, \A c \in Conns : CreateRun(c) => tx.row # 0
    PROVE  NoneTold
<1> USE DEF LedgerInv, Typing
<1>1. ASSUME NEW c \in Conns, DrainGuide(c) PROVE NoneTold
  <2>1. PICK i \in RowId, r \in RunId : Delivers(i, r)
    BY <1>1, DrainGuideRows
  <2>2. [input |-> ledger[i].input, row |-> i, run |-> r] \in Message /\ i # 0
    BY <2>1, Bounds, RowFields DEF Delivers, Message, RowId
  <2> QED BY <2>1, <2>2 DEF NoneTold, Delivers
<1>2. ASSUME NEW c \in Conns, CreateRun(c) PROVE NoneTold
  <2>1. PICK r \in RunId : messages' = Append(messages, [input |-> tx.input, row |-> tx.row, run |-> r])
    BY <1>2 DEF CreateRun
  <2>2. [input |-> tx.input, row |-> tx.row, run |-> r] \in Message
    BY <1>2, Bounds, TxFields DEF CreateRun, TxOwner, Message
  <2> QED BY <1>2, <2>1, <2>2 DEF NoneTold
<1> QED BY <1>1, <1>2, MessageWriters DEF NoneTold

LEMMA AdmissionsOpen ==
    ASSUME [Next]_vars, tx'.kind = "steer", tx' # tx
    PROVE  \E c \in Conns, f \in Flavors :
              SteerBegin(c, f) /\ tx'.input = sent + 1
<1> USE NoTxKind DEF dbVars, memVars, envVars
<1>1. ASSUME NEW c \in Conns, NEW f \in Flavors, SteerBegin(c, f) PROVE tx'.input = sent + 1
  <2>1. PICK t \in 0..MaxRun, s \in Seqs :
          tx' = [kind |-> "steer", conn |-> c, target |-> t,
                 verdict |-> SteerVerdict(t, f), seq |-> s,
                 input |-> sent + 1, flavor |-> f, row |-> 0]
    BY <1>1 DEF SteerBegin
  <2> QED BY <2>1
<1>2. ASSUME NEW c \in Conns, CreateBegin(c) PROVE FALSE
  <2>1. tx'.kind = "create"
    BY <1>2 DEF CreateBegin
  <2> QED BY <2>1
<1>3. ASSUME NEW c \in Conns, NEW i \in RowId, InjectBegin(c, i) PROVE FALSE
  BY <1>3, InjectBeginKind
<1>4. ASSUME NEW c \in Conns, Client(c) PROVE \E f \in Flavors : SteerBegin(c, f)
  BY <1>3, <1>4 DEF Client, Submit, QueueSendRun
<1>5. ~\E c \in Conns : Start(c)
  BY <1>2 DEF Start, CreateAdmits, CreateRun, CreateRollback, Register
<1>6. ASSUME NEW c \in Conns, Engine(c) \/ Conclude(c) \/ Failure(c) PROVE FALSE
  BY <1>6 DEF Engine, DrainGuide, EndLoop, FinalAnswer, Exhausted, EnterSoftLanding, AskClient,
     ClientAnswers, Delegate, Conclude, Finish, Settle, DrainHead, NothingToDrain,
     AbortSettle, Release, Reap, Failure, Fail, PrepareFails, DoneNotWritten
<1>7. ASSUME Commit \/ UserCancel \/ Manage \/ Process \/ UNCHANGED vars \/ \E r \in RunId : ChildEnds(r)
      PROVE  FALSE
  BY <1>7 DEF Commit, SteerCommit, InjectCommit, UserCancel, CancelBegin, CancelWrite, Fail, Manage,
     DeleteQueued, Reorder, Process, ShutdownHook, Restart, ChildEnds, vars
<1> QED BY <1>1, <1>4, <1>5, <1>6, <1>7 DEF Next

LEMMA FreshFrom ==
    ASSUME Typing, "queue_send" \notin Ops, [Next]_vars, NEW d \in Conns, Fresh(d)'
    PROVE  \/ Fresh(d) /\ g'[d].input = g[d].input
           \/ \E f \in Flavors : Submit(d, f) /\ g'[d].input = sent + 1
<1> DEFINE Same == Fresh(d) /\ g'[d].input = g[d].input
<1> USE DEF Typing, dbVars, memVars, envVars
<1>1. UNCHANGED g => Same
  BY DEF Fresh
<1>2. ASSUME NEW c \in Conns, c # d, \A e \in Conns \ {c} : g'[e] = g[e] PROVE Same
  BY <1>2 DEF Fresh
<1>3. ASSUME NEW c \in Conns, NEW pc, Goto(c, pc), pc \in {"prepare", "create"} => g[c].pc \in {"prepare", "create"}
      PROVE  Same
  <2>1. /\ \A e \in Conns \ {c} : g'[e] = g[e]
        /\ g'[c].pc = pc /\ g'[c].promote = g[c].promote /\ g'[c].input = g[c].input
    BY <1>3, GotoFields
  <2> QED BY <1>2, <1>3, <2>1 DEF Fresh
<1>4. ASSUME NEW c \in Conns, NEW pc, NEW r, Drop(c, pc, r), pc \notin {"prepare", "create"} PROVE Same
  <2>1. (\A e \in Conns \ {c} : g'[e] = g[e]) /\ g'[c].pc = pc
    BY <1>4, DropFields
  <2> QED BY <1>2, <1>4, <2>1 DEF Fresh
<1> HIDE DEF Same
<1>5. ASSUME NEW c \in Conns, NEW f \in Flavors, Submit(c, f)
      PROVE  Same \/ (c = d /\ g'[d].input = sent + 1)
  <2>1. (\A e \in Conns \ {c} : g'[e] = g[e]) /\ g'[c].input = sent + 1
    BY <1>5 DEF Submit, StartGoroutine
  <2> QED BY <1>2, <2>1
<1>6. ASSUME NEW c \in Conns, Client(c)
      PROVE  Same \/ \E f \in Flavors : Submit(d, f) /\ g'[d].input = sent + 1
  BY <1>1, <1>5, <1>6 DEF Client, SteerBegin, InjectBegin, Can
<1>7. ASSUME NEW c \in Conns, Start(c) PROVE Same
  <2>1. ASSUME NEW r \in RunId, Drop(c, "created", r) PROVE Same
    BY <1>4, <2>1
  <2> QED BY <1>3, <1>4, <1>7, <2>1 DEF Start, CreateBegin, CreateAdmits, CreateRun, CreateRollback, Register, At
<1>8. ASSUME NEW c \in Conns, Engine(c) PROVE Same
  BY <1>1, <1>3, <1>8 DEF Engine, DrainGuide, EndLoop, FinalAnswer, Exhausted, EnterSoftLanding, AskClient,
     ClientAnswers, Delegate
<1>9. ASSUME NEW c \in Conns, NEW st, Fail(c, st) PROVE Same
  BY <1>3, <1>9 DEF Fail
<1>10. ASSUME NEW c \in Conns, Failure(c) PROVE Same
  BY <1>3, <1>4, <1>9, <1>10 DEF Failure, PrepareFails, DoneNotWritten
<1>11. ASSUME NEW c \in Conns, Conclude(c) PROVE Same
  <2>1. ASSUME DrainHead(c) PROVE Same
    <3>1. (\A e \in Conns \ {c} : g'[e] = g[e]) /\ g'[c].pc = "release"
      BY <2>1 DEF DrainHead
    <3> QED BY <1>2, <3>1 DEF Fresh
  <2>2. ASSUME Release(c) PROVE Same
    <3>1. g[c] \in Goroutine
      BY DEF NamedGoroutine
    <3>2. /\ \A e \in Conns \ {c} : g'[e] = g[e]
          /\ g'[c].promote = g[c].promote /\ g'[c].pc = IF g[c].promote # 0 THEN "prepare" ELSE "done"
      BY <2>2, <3>1 DEF Release, Goroutine
    <3> QED BY <1>2, <3>2 DEF Fresh
  <2>3. ASSUME Reap(c) PROVE Same
    <3>1. (\A e \in Conns \ {c} : g'[e] = g[e]) /\ g'[c].pc = "idle"
      BY <2>3 DEF Reap, Idle
    <3> QED BY <1>2, <3>1 DEF Fresh
  <2> QED BY <1>3, <1>4, <1>11, <2>1, <2>2, <2>3 DEF Conclude, Finish, Settle, NothingToDrain, AbortSettle
<1>12. ASSUME UserCancel PROVE Same
  BY <1>1, <1>9, <1>12 DEF UserCancel, CancelBegin, CancelWrite
<1>13. ASSUME Commit \/ Manage \/ ShutdownHook \/ UNCHANGED vars \/ \E r \in RunId : ChildEnds(r) PROVE Same
  BY <1>1, <1>13 DEF Commit, SteerCommit, InjectCommit, Manage, DeleteQueued, Reorder, ShutdownHook, ChildEnds, vars
<1>14. ~Restart
  BY DEF Restart, Idle, Fresh
<1> QED BY <1>6, <1>7, <1>8, <1>10, <1>11, <1>12, <1>13, <1>14 DEF Next, Process, Same

LEMMA SentStep ==
    ASSUME [Next]_vars
    PROVE  UNCHANGED sent \/ \E c \in Conns, f \in Flavors : (Submit(c, f) \/ SteerBegin(c, f)) /\ sent' = sent + 1
<1> USE DEF dbVars, memVars, envVars
<1>1. ASSUME NEW c \in Conns, Client(c)
      PROVE  UNCHANGED sent \/ \E f \in Flavors : (Submit(c, f) \/ SteerBegin(c, f)) /\ sent' = sent + 1
  BY <1>1 DEF Client, Submit, SteerBegin, InjectBegin, QueueSendRun
<1>2. ASSUME NEW c \in Conns, Start(c) \/ Engine(c) \/ Conclude(c) \/ Failure(c) PROVE UNCHANGED sent
  BY <1>2 DEF Start, CreateBegin, CreateAdmits, CreateRun, CreateRollback, Register,
     Engine, DrainGuide, EndLoop, FinalAnswer, Exhausted, EnterSoftLanding, AskClient,
     ClientAnswers, Delegate, Conclude, Finish, Settle, DrainHead, NothingToDrain,
     AbortSettle, Release, Reap, Failure, Fail, PrepareFails, DoneNotWritten
<1>3. ASSUME Commit \/ UserCancel \/ Manage \/ Process \/ UNCHANGED vars \/ \E r \in RunId : ChildEnds(r)
      PROVE  UNCHANGED sent
  BY <1>3 DEF Commit, SteerCommit, InjectCommit, UserCancel, CancelBegin, CancelWrite, Fail, Manage,
     DeleteQueued, Reorder, Process, ShutdownHook, Restart, ChildEnds, vars
<1> QED BY <1>1, <1>2, <1>3 DEF Next

-----------------------------------------------------------------------------
(* What such a step does to the inputs that are kept.                      *)
LEMMA NothingKept ==
    ASSUME LedgerInv, KeptOnce, RowsKept, NoneTold
    PROVE  KeptOnce' /\ \A n : Kept(n)' = Kept(n)
<1>1. \A n : InRow(n)' = InRow(n)
  BY DEF InRow, RowsKept
<1>2. ASSUME NEW m \in Message, m.row # 0, messages' = Append(messages, m)
      PROVE  \A k : k \in DOMAIN messages' /\ FromNoRow(k)' <=> k \in DOMAIN messages /\ FromNoRow(k)
  BY <1>2, LastMessage DEF FromNoRow, LedgerInv, Typing
<1>3. \A k : k \in DOMAIN messages' /\ FromNoRow(k)' <=> k \in DOMAIN messages /\ FromNoRow(k)
  BY <1>2 DEF NoneTold, FromNoRow
<1>4. \A k \in DOMAIN messages : messages'[k] = messages[k]
  BY LastMessage DEF NoneTold, LedgerInv, Typing
<1>5. \A n : Told(n)' = Told(n)
  BY <1>3, <1>4 DEF Told
<1>6. \A i, j \in RowId :
        ledger'[i].status # "free" /\ ledger'[j].status # "free" /\ ledger'[i].input = ledger'[j].input => i = j
  BY DEF KeptOnce, RowsKept
<1>7. \A j, k \in DOMAIN messages' :
        FromNoRow(j)' /\ FromNoRow(k)' /\ messages'[j].input = messages'[k].input => j = k
  BY <1>3, <1>4 DEF KeptOnce
<1> QED BY <1>1, <1>5, <1>6, <1>7 DEF KeptOnce, Kept

LEMMA RowKept ==
    ASSUME KeptOnce, UNCHANGED messages, NEW m, ~Kept(m), RowNew(m)
    PROVE  KeptOnce' /\ \A n : Kept(n)' <=> Kept(n) \/ n = m
<1>1. \A n : Told(n)' = Told(n)
  BY DEF Told, FromNoRow
<1>2. PICK i \in RowId :
        /\ ledger[i].status = "free" /\ ledger'[i].status # "free" /\ ledger'[i].input = m
        /\ \A j \in RowId \ {i} : ledger'[j] = ledger[j]
  BY DEF RowNew
<1>3. \A n : InRow(n)' <=> InRow(n) \/ n = m
  BY <1>2 DEF InRow
<1>4. \A j \in RowId : ledger[j].status # "free" => ledger[j].input # m
  BY DEF Kept, InRow
<1>5. \A j, k \in RowId :
        ledger'[j].status # "free" /\ ledger'[k].status # "free" /\ ledger'[j].input = ledger'[k].input => j = k
  BY <1>2, <1>4 DEF KeptOnce
<1>6. \A j, k \in DOMAIN messages' :
        FromNoRow(j)' /\ FromNoRow(k)' /\ messages'[j].input = messages'[k].input => j = k
  BY DEF KeptOnce, FromNoRow
<1>7. ~Told(m)
  BY DEF Kept
<1> QED BY <1>1, <1>3, <1>5, <1>6, <1>7 DEF KeptOnce, Kept

LEMMA MessageKept ==
    ASSUME LedgerInv, KeptOnce, RowsKept, NEW m, ~Kept(m),
           NEW x \in Message, x.row = 0, x.input = m, messages' = Append(messages, x)
    PROVE  KeptOnce' /\ \A n : Kept(n)' <=> Kept(n) \/ n = m
<1>1. \A n : InRow(n)' = InRow(n)
  BY DEF InRow, RowsKept
<1>2. PICK l : l = Len(messages) + 1
  OBVIOUS
<1>3. /\ DOMAIN messages' = DOMAIN messages \cup {l} /\ messages'[l] = x /\ l \notin DOMAIN messages
      /\ \A k \in DOMAIN messages : messages'[k] = messages[k]
  BY <1>2, LastMessage DEF LedgerInv, Typing
<1>4. FromNoRow(l)' /\ \A k \in DOMAIN messages : FromNoRow(k)' = FromNoRow(k)
  BY <1>3 DEF FromNoRow
<1>5. \A n : Told(n)' <=> Told(n) \/ n = m
  BY <1>3, <1>4 DEF Told
<1>6. \A k \in DOMAIN messages : FromNoRow(k) => messages[k].input # m
  BY DEF Kept, Told
<1>7. \A j, k \in DOMAIN messages' :
        FromNoRow(j)' /\ FromNoRow(k)' /\ messages'[j].input = messages'[k].input => j = k
  BY <1>3, <1>4, <1>6 DEF KeptOnce
<1>8. \A j, k \in RowId :
        ledger'[j].status # "free" /\ ledger'[k].status # "free" /\ ledger'[j].input = ledger'[k].input => j = k
  BY DEF KeptOnce, RowsKept
<1>9. ~InRow(m)
  BY DEF Kept
<1> QED BY <1>1, <1>5, <1>7, <1>8, <1>9 DEF KeptOnce, Kept

-----------------------------------------------------------------------------
LEMMA OverFrom ==
    ASSUME Typing, [Next]_vars, NEW d \in Conns, Over(d)', ~Over(d)
    PROVE  Finish(d) \/ \E st \in TerminalState : Fail(d, st)
<1> USE DEF Typing, dbVars, memVars, envVars
<1>1. UNCHANGED g => Over(d)' = Over(d)
  BY DEF Over
<1>2. ASSUME NEW c \in Conns, c # d PROVE ~(\A e \in Conns \ {c} : g'[e] = g[e])
  BY <1>2 DEF Over
<1>3. ASSUME NEW c \in Conns, NEW pc, Goto(c, pc), pc \in {"settle", "settled", "abort", "release"} => Over(c)
      PROVE  FALSE
  <2>1. /\ \A e \in Conns \ {c} : g'[e] = g[e]
        /\ g'[c].pc = pc /\ g'[c].promote = g[c].promote
    BY <1>3, GotoFields
  <2> QED BY <1>2, <1>3, <2>1 DEF Over
<1>4. ASSUME NEW c \in Conns, NEW pc, NEW r, Drop(c, pc, r), pc = "release" => Over(c),
             pc \notin {"settle", "settled", "abort"}
      PROVE  FALSE
  <2>1. (\A e \in Conns \ {c} : g'[e] = g[e]) /\ g'[c].pc = pc /\ g'[c].promote = 0
    BY <1>4, DropFields
  <2> QED BY <1>2, <1>4, <2>1 DEF Over
<1>5. ASSUME NEW c \in Conns, NEW n, NEW f, StartGoroutine(c, n, f, 0) PROVE FALSE
  <2>1. (\A e \in Conns \ {c} : g'[e] = g[e]) /\ g'[c].pc = "prepare" /\ g'[c].promote = 0
    BY <1>5 DEF StartGoroutine
  <2> QED BY <1>2, <2>1 DEF Over
<1>6. ASSUME NEW c \in Conns, Client(c) PROVE FALSE
  BY <1>1, <1>5, <1>6 DEF Client, Submit, SteerBegin, InjectBegin, QueueSendRun
<1>7. ASSUME NEW c \in Conns, Start(c) PROVE FALSE
  BY <1>3, <1>4, <1>7 DEF Start, CreateBegin, CreateAdmits, CreateRun, CreateRollback, Register
<1>8. ASSUME NEW c \in Conns, Engine(c) PROVE FALSE
  BY <1>1, <1>3, <1>8 DEF Engine, DrainGuide, EndLoop, FinalAnswer, Exhausted, EnterSoftLanding, AskClient,
     ClientAnswers, Delegate
<1>9. ASSUME NEW c \in Conns, NEW st, Fail(c, st) \/ Finish(c) PROVE c = d
  <2>1. \A e \in Conns \ {c} : g'[e] = g[e]
    BY <1>9, GotoFields DEF Fail, Finish
  <2> QED BY <1>2, <2>1
<1>10. {"error", "timeout", "cancelled"} \subseteq TerminalState
  BY DEF TerminalState
<1>11. ASSUME NEW c \in Conns, Failure(c) PROVE \E st \in TerminalState : Fail(d, st)
  <2>1. ~PrepareFails(c)
    BY <1>4 DEF PrepareFails
  <2>2. ~DoneNotWritten(c)
    BY <1>3 DEF DoneNotWritten, At, Over
  <2> QED BY <1>9, <1>10, <1>11, <2>1, <2>2 DEF Failure
<1>12. ASSUME NEW c \in Conns, Conclude(c) PROVE Finish(d)
  <2>1. ~DrainHead(c)
    <3>1. ASSUME DrainHead(c) PROVE (\A e \in Conns \ {c} : g'[e] = g[e]) /\ Over(c)
      BY <3>1 DEF DrainHead, At, Over
    <3> QED BY <1>2, <3>1
  <2>2. ~Release(c)
    <3>1. ASSUME Release(c) PROVE (\A e \in Conns \ {c} : g'[e] = g[e]) /\ Over(c)
      BY <3>1 DEF Release, At, Over
    <3> QED BY <1>2, <3>1
  <2>3. ~Reap(c)
    <3>1. ASSUME Reap(c) PROVE (\A e \in Conns \ {c} : g'[e] = g[e]) /\ g'[c] = Idle
      BY <3>1 DEF Reap
    <3> QED BY <1>2, <3>1 DEF Over, Idle
  <2>4. ~Settle(c)
    BY <1>3 DEF Settle, At, Over
  <2>5. ~NothingToDrain(c) /\ ~AbortSettle(c)
    BY <1>4 DEF NothingToDrain, AbortSettle, At, Over
  <2> QED BY <1>9, <1>12, <2>1, <2>2, <2>3, <2>4, <2>5 DEF Conclude
<1>13. ASSUME UserCancel PROVE \E st \in TerminalState : Fail(d, st)
  BY <1>1, <1>9, <1>10, <1>13 DEF UserCancel, CancelBegin, CancelWrite
<1>14. ~(Commit \/ Manage \/ ShutdownHook \/ UNCHANGED vars \/ \E r \in RunId : ChildEnds(r))
  BY <1>1 DEF Commit, SteerCommit, InjectCommit, Manage, DeleteQueued, Reorder, ShutdownHook, ChildEnds, vars
<1>15. ~Restart
  BY DEF Restart, Idle, Over
<1> QED BY <1>6, <1>7, <1>8, <1>11, <1>12, <1>13, <1>14, <1>15 DEF Next, Process

LEMMA BetweenStep ==
    ASSUME EngineInv, ActiveInv, PayloadInv, BetweenInv, NoCopies, [Next]_vars
    PROVE  BetweenInv'
<1> USE DEF EngineInv, NoCopies
<1>1. ASSUME NEW d \in Conns, Over(d)', NEW r \in RunId PROVE ~Active(r)'
  <2>1. CASE Over(d)
    <3>1. \A q \in RunId : ~Active(q)
      BY <2>1 DEF BetweenInv, QuietBetween
    <3>2. ASSUME NEW c \in Conns, CreateRun(c) PROVE FALSE
      <4>1. g'[c].pc = "created" /\ g'[c].promote = 0
        BY <3>2, DropFields DEF CreateRun, Typing
      <4> QED BY <1>1, <4>1 DEF OneConnection, Over
    <3>3. ASSUME NEW c \in Conns, CreateBegin(c) PROVE ~Active(r)'
      BY <3>1, <3>3 DEF CreateBegin, dbVars, Active
    <3> QED BY <3>1, <3>2, <3>3, StepSubsides DEF ActiveInv, Subsides, NoneRises
  <2>2. CASE ~Over(d)
    <3>1. PICK st \in TerminalState : SetState(g[d].run, st) /\ g[d].pc \in EnginePc
      BY <1>1, <2>2, OverFrom DEF Finish, Fail, At, EnginePc, TerminalState
    <3>2. g[d].run \in RunId /\ Active(g[d].run)
      BY <3>1, GoroutineFields DEF HoldingActive, ActiveInv, Holding, Typing, WithRun
    <3>3. runs'[r] = IF r = g[d].run THEN st ELSE runs[r]
      BY <3>1, <3>2 DEF SetState, Typing
    <3> QED BY <3>1, <3>2, <3>3 DEF ActiveInv, OneActiveRun, Active, ActiveState, TerminalState
  <2> QED BY <2>1, <2>2
<1>2. ASSUME NEW d \in Conns, At(d, "create")', g'[d].promote # 0 PROVE tx'.verdict \in {"create", "busy"}
  <2>1. CASE At(d, "create") /\ g'[d] = g[d] /\ UNCHANGED tx
    BY <1>2, <2>1 DEF BetweenInv, ClaimsOnly
  <2>2. CASE CreateBegin(d)
    <3>2. g'[d].promote = g[d].promote
      BY <2>2, GotoFields DEF CreateBegin, Typing
    <3>3. PICK t \in 0..MaxRun, s \in Seqs :
            /\ IsActiveOuter(t)
            /\ tx' = [kind |-> "create", conn |-> d, target |-> t,
                      verdict |-> CreateVerdict(t, g[d].flavor), seq |-> s,
                      input |-> g[d].input, flavor |-> g[d].flavor, row |-> g[d].promote]
      BY <2>2 DEF CreateBegin
    <3>4. \A q \in RunId : ~Active(q)
      BY <1>2, <3>2 DEF BetweenInv, QuietBetween, Over
    <3>5. t = 0
      BY <3>3, <3>4 DEF IsActiveOuter
    <3> QED BY <3>3, <3>5 DEF CreateVerdict
  <2> QED BY <1>2, <2>1, <2>2, PayloadStep DEF PayloadMoves
<1> QED BY <1>1, <1>2 DEF BetweenInv, QuietBetween, ClaimsOnly

-----------------------------------------------------------------------------
(* A step brings in one input that nobody had sent, moves one that was     *)
(* pending to where inputs are kept, or does neither.                      *)
LEMMA PendingFrom ==
    ASSUME Typing, NoCopies, [Next]_vars, NEW n, Pending(n)'
    PROVE  Pending(n) \/ (n = sent + 1 /\ sent' = sent + 1)
<1>1. ASSUME NEW c \in Conns, Fresh(c)', g'[c].input = n PROVE Pending(n) \/ (n = sent + 1 /\ sent' = sent + 1)
  BY <1>1, FreshFrom DEF Pending, NoCopies, Submit
<1>2. ASSUME tx'.kind = "steer", tx'.input = n PROVE Pending(n) \/ (n = sent + 1 /\ sent' = sent + 1)
  <2>1. CASE UNCHANGED tx
    BY <1>2, <2>1 DEF Pending
  <2>2. CASE ~UNCHANGED tx
    BY <1>2, <2>2, AdmissionsOpen DEF SteerBegin
  <2> QED BY <2>1, <2>2
<1> QED BY <1>1, <1>2 DEF Pending

(* The client's new input is neither kept nor pending.                     *)
LEMMA NewInput ==
    ASSUME Typing, SentBefore PROVE sent + 1 \in Nat /\ ~Kept(sent + 1) /\ ~Pending(sent + 1)
<1>1. sent \in Nat
  BY Bounds DEF Typing, EnvTyping
<1> QED BY <1>1 DEF SentBefore

LEMMA ApartStep ==
    ASSUME Typing, NoCopies, InputInv, [Next]_vars, tx'.kind = "steer", NEW c \in Conns, Fresh(c)'
    PROVE  g'[c].input # tx'.input
<1>1. \/ Fresh(c) /\ g'[c].input = g[c].input
      \/ \E f \in Flavors : Submit(c, f) /\ g'[c].input = sent + 1
  BY FreshFrom DEF NoCopies
<1>2. CASE UNCHANGED tx
  <2>1. Pending(tx.input)
    BY <1>2 DEF Pending
  <2> QED BY <1>1, <1>2, <2>1, NewInput DEF InputInv, PendingOnce
<1>3. CASE ~UNCHANGED tx
  <2>1. PICK d \in Conns, f \in Flavors : SteerBegin(d, f) /\ tx'.input = sent + 1
    BY <1>3, AdmissionsOpen
  <2>2. g' = g
    BY <2>1 DEF SteerBegin
  <2>3. Pending(g'[c].input)
    BY <2>2 DEF Pending, Fresh
  <2> QED BY <2>1, <2>3, NewInput DEF InputInv
<1> QED BY <1>2, <1>3

(* What is kept after a step, and what of it was pending.                  *)
LEMMA KeptStep ==
    ASSUME LedgerInv, PayloadInv, BetweenInv, InputInv, NoCopies, [Next]_vars
    PROVE  /\ KeptOnce'
           /\ \A n : Kept(n)' => Kept(n) \/ (Pending(n) /\ ~Pending(n)')
<1> USE DEF LedgerInv, Typing
<1>1. ASSUME RowsKept, NoneTold
      PROVE  KeptOnce' /\ \A n : Kept(n)' => Kept(n) \/ (Pending(n) /\ ~Pending(n)')
  BY <1>1, NothingKept DEF InputInv
<1>2. ASSUME NEW m, Pending(m), ~Pending(m)', KeptOnce', \A n : Kept(n)' <=> Kept(n) \/ n = m
      PROVE  KeptOnce' /\ \A n : Kept(n)' => Kept(n) \/ (Pending(n) /\ ~Pending(n)')
  BY <1>2
<1>3. ASSUME SteerCommit PROVE KeptOnce' /\ \A n : Kept(n)' => Kept(n) \/ (Pending(n) /\ ~Pending(n)')
  <2>1. UNCHANGED <<messages, g>> /\ tx' = NoTx /\ tx.kind = "steer"
    BY <1>3 DEF SteerCommit
  <2>2. CASE UNCHANGED ledger
    BY <1>1, <2>1, <2>2 DEF RowsKept, NoneTold
  <2>3. CASE RowNew(tx.input)
    <3>1. Pending(tx.input)
      BY <2>1 DEF Pending
    <3>2. \A c \in Conns : Fresh(c)' => g'[c].input # tx.input
      BY <2>1 DEF Fresh, InputInv, PendingOnce
    <3>3. PICK m : m = tx.input
      OBVIOUS
    <3>4. ~Pending(m)'
      BY <2>1, <3>2, <3>3, NoTxKind DEF Pending
    <3>5. Pending(m)
      BY <3>1, <3>3
    <3>6. KeptOnce' /\ \A n : Kept(n)' <=> Kept(n) \/ n = m
      BY <2>1, <2>3, <3>3, <3>5, RowKept DEF InputInv, PendingOnce
    <3> QED BY <1>2, <3>4, <3>5, <3>6
  <2> QED BY <1>3, <2>2, <2>3, AdmitAdds DEF SteerCommit
<1>4. ASSUME NEW c \in Conns, CreateAdmits(c)
      PROVE  KeptOnce' /\ \A n : Kept(n)' => Kept(n) \/ (Pending(n) /\ ~Pending(n)')
  <2>1. UNCHANGED messages /\ tx'.kind = "none" /\ At(c, "create") /\ tx.kind = "create" /\ g'[c].pc = "done"
    BY <1>4, DropFields, NoTxKind DEF CreateAdmits, TxOwner
  <2>2. CASE UNCHANGED ledger
    BY <1>1, <2>1, <2>2 DEF RowsKept, NoneTold
  <2>3. CASE tx.verdict \in {"guide", "queue"} /\ RowNew(tx.input)
    <3>1. g[c].promote = 0
      BY <2>1, <2>3 DEF BetweenInv, ClaimsOnly
    <3>2. PICK m : m = tx.input
      OBVIOUS
    <3>3. Fresh(c) /\ g[c].input = m
      BY <2>1, <3>1, <3>2 DEF PayloadInv, TxPayload, Fresh, At
    <3>4. \A d \in Conns : ~Fresh(d)'
      BY <2>1 DEF NoCopies, OneConnection, Fresh
    <3>5. Pending(m) /\ ~Pending(m)'
      BY <2>1, <3>3, <3>4 DEF Pending
    <3>6. KeptOnce' /\ \A n : Kept(n)' <=> Kept(n) \/ n = m
      BY <2>1, <2>3, <3>2, <3>5, RowKept DEF InputInv, PendingOnce
    <3> QED BY <1>2, <3>5, <3>6
  <2> QED BY <1>4, <2>2, <2>3, AdmitAdds DEF CreateAdmits
<1>5. CASE ~SteerCommit /\ \A c \in Conns : ~CreateAdmits(c)
  <2>1. RowsKept
    BY <1>5, FreeStays, KeptRows
  <2>2. CASE \A c \in Conns : CreateRun(c) => tx.row # 0
    BY <1>1, <2>1, <2>2, MessageFromRow
  <2>3. ASSUME NEW c \in Conns, CreateRun(c), tx.row = 0
        PROVE  KeptOnce' /\ \A n : Kept(n)' => Kept(n) \/ (Pending(n) /\ ~Pending(n)')
    <3>1. PICK r \in RunId :
            /\ messages' = Append(messages, [input |-> tx.input, row |-> tx.row, run |-> r])
            /\ Drop(c, "created", r)
      BY <2>3 DEF CreateRun
    <3>2. tx'.kind = "none" /\ At(c, "create") /\ tx.kind = "create" /\ g'[c].pc = "created"
      BY <2>3, <3>1, DropFields, NoTxKind DEF CreateRun, TxOwner
    <3>3. PICK m, x : m = tx.input /\ x = [input |-> tx.input, row |-> tx.row, run |-> r]
      OBVIOUS
    <3>4. x \in Message /\ x.row = 0 /\ x.input = m /\ messages' = Append(messages, x)
      BY <2>3, <3>1, <3>2, <3>3, Bounds, TxFields DEF Message
    <3>5. Fresh(c) /\ g[c].input = m
      BY <2>3, <3>2, <3>3 DEF PayloadInv, TxPayload, Fresh, At
    <3>6. \A d \in Conns : ~Fresh(d)'
      BY <3>2 DEF NoCopies, OneConnection, Fresh
    <3>7. Pending(m) /\ ~Pending(m)'
      BY <3>2, <3>5, <3>6 DEF Pending
    <3>8. KeptOnce' /\ \A n : Kept(n)' <=> Kept(n) \/ n = m
      BY <2>1, <3>4, <3>7, MessageKept DEF InputInv, PendingOnce
    <3> QED BY <1>2, <3>7, <3>8
  <2> QED BY <2>2, <2>3
<1> QED BY <1>3, <1>4, <1>5

LEMMA InputStep ==
    ASSUME LedgerInv, PayloadInv, BetweenInv, InputInv, NoCopies, [Next]_vars
    PROVE  InputInv'
<1>1. Typing
  BY DEF LedgerInv
<1>2. KeptOnce' /\ \A n : Kept(n)' => Kept(n) \/ (Pending(n) /\ ~Pending(n)')
  BY KeptStep
<1>3. ASSUME NEW n, Pending(n)' PROVE ~Kept(n)'
  <2>1. Pending(n) \/ n = sent + 1
    BY <1>1, <1>3, PendingFrom
  <2> QED BY <1>1, <1>2, <1>3, <2>1, NewInput DEF InputInv, PendingOnce
<1>4. sent \in Nat /\ sent' \in {sent, sent + 1}
  BY <1>1, Bounds, SentStep DEF Typing, EnvTyping
<1>5. ASSUME NEW n \in Nat, Kept(n)' \/ Pending(n)' PROVE n <= sent'
  <2>1. CASE Kept(n) \/ Pending(n)
    BY <1>4, <2>1 DEF InputInv, SentBefore
  <2>2. CASE ~Kept(n) /\ ~Pending(n)
    <3>1. Pending(n)'
      BY <1>2, <1>5, <2>2
    <3>2. sent' = sent + 1 /\ n = sent + 1
      BY <2>2, <3>1, <1>1, PendingFrom
    <3> QED BY <1>4, <3>2
  <2> QED BY <2>1, <2>2
<1>6. PendingOnce'
  BY <1>1, <1>3, ApartStep DEF PendingOnce
<1>7. SentBefore'
  BY <1>5 DEF SentBefore
<1> QED BY <1>2, <1>6, <1>7 DEF InputInv

LEMMA InputInit == Init => BetweenInv /\ InputInv
<1> SUFFICES ASSUME Init PROVE BetweenInv /\ InputInv
  OBVIOUS
<1>1. \A c \in Conns : g[c].promote = 0 /\ g[c].pc = "idle" /\ ~Fresh(c)
  BY DEF Init, Idle, Fresh
<1>2. DOMAIN messages = {} /\ tx.kind = "none" /\ \A i \in RowId : ledger[i].status = "free"
  BY NoTxKind DEF Init, FreeRow
<1>3. \A n : ~Kept(n) /\ ~Pending(n) /\ ~InRow(n)
  BY <1>1, <1>2 DEF Kept, InRow, Told, Pending
<1>4. BetweenInv
  BY <1>1 DEF BetweenInv, QuietBetween, ClaimsOnly, Over, At
<1>5. InputInv
  BY <1>2, <1>3 DEF InputInv, KeptOnce, PendingOnce, SentBefore
<1> QED BY <1>4, <1>5

(* On one connection, and without late writes and queue_send, an input is  *)
(* told to the model at most once (runtime.go), whether it came directly,  *)
(* as a guide or out of the queue, and whatever is injected, reordered,    *)
(* deleted, settled and restarted meanwhile.                               *)
THEOREM DeliveredOnceHolds == ASSUME NoCopies PROVE Spec => []DeliveredOnce
<1> DEFINE Inv == EngineInv /\ LedgerInv /\ ActiveInv /\ PayloadInv /\ BetweenInv /\ InputInv
<1>1. Init => Inv
  BY EngineInit, LedgerInit, ActiveInit, QueueInit, InputInit
<1>2. Inv /\ [Next]_vars => Inv'
  <2> SUFFICES ASSUME Inv, [Next]_vars PROVE Inv'
    OBVIOUS
  <2>1. PayloadInv'
    BY PayloadInvStep DEF LedgerInv
  <2>2. ActiveInv'
    BY ActiveStep DEF NoCopies
  <2> QED BY <2>1, <2>2, EngineStep, LedgerStep, BetweenStep, InputStep
<1>3. Inv => DeliveredOnce
  <2> SUFFICES ASSUME Inv, NEW j \in DOMAIN messages, NEW k \in DOMAIN messages,
                      messages[j].input = messages[k].input
               PROVE  j = k
    BY DEF DeliveredOnce
  <2>1. ASSUME NEW l \in DOMAIN messages, ~FromNoRow(l)
        PROVE  /\ messages[l].row \in RowId /\ ledger[messages[l].row].status = "guided"
               /\ TakenFrom(messages[l].row) = {l}
               /\ ledger[messages[l].row].input = messages[l].input
    <3>1. messages[l].row \in RowId /\ ledger[messages[l].row].status = "guided" /\ l \in TakenFrom(messages[l].row)
      BY <2>1, MessageRow DEF FromNoRow, TakenFrom
    <3> QED BY <3>1 DEF LedgerInv, PromoteAtomic
  <2>2. CASE FromNoRow(j) /\ FromNoRow(k)
    BY <2>2 DEF InputInv, KeptOnce
  <2>3. CASE FromNoRow(j) /\ ~FromNoRow(k)
    BY <2>1, <2>3 DEF InputInv, KeptOnce, InRow, Told
  <2>4. CASE ~FromNoRow(j) /\ FromNoRow(k)
    BY <2>1, <2>4 DEF InputInv, KeptOnce, InRow, Told
  <2>5. CASE ~FromNoRow(j) /\ ~FromNoRow(k)
    <3>1. messages[j].row = messages[k].row
      BY <2>1, <2>5 DEF InputInv, KeptOnce
    <3> QED BY <2>1, <2>5, <3>1
  <2> QED BY <2>2, <2>3, <2>4, <2>5
<1> HIDE DEF Inv
<1> QED BY <1>1, <1>2, <1>3, PTL DEF Spec
=============================================================================
