--------------------------- MODULE SteeringProofs ---------------------------
(***************************************************************************)
(* Proofs about Steering, for every number of connections, rows, runs and  *)
(* messages, every configuration and every choice of operations.           *)
(***************************************************************************)
EXTENDS SteeringProps, SequenceTheorems, FiniteSetTheorems, TLAPS

(* Pcs of a goroutine that owns a run, and of one that holds a payload.    *)
WithRun     == EnginePc \cup {"created", "settle", "settled", "abort"}
WithPayload == {"prepare", "create"}

(* What has content names its input, and what has a run names it.          *)
NamedRow == {x \in Row : x.status # "free" => x.input # 0}
NamedGoroutine ==
    {x \in Goroutine : /\ x.pc \in WithRun => x.run # 0
                       /\ x.pc \in WithPayload \/ x.promote # 0 => x.input # 0}
NamedTx ==
    {x \in Tx : /\ x.kind \in {"steer", "create"} => x.input # 0
                /\ x.kind = "inject" => x.row # 0}

(* The transaction that creates a run is the one of its connection.        *)
TxOwner == \A c \in Conns : At(c, "create") => tx.kind = "create" /\ tx.conn = c

MemTyping == /\ registry \subseteq RunId
             /\ soft \subseteq RunId
             /\ ctxCancelled \subseteq RunId
             /\ cancelling \subseteq RunId
EnvTyping == /\ children \subseteq 0..MaxRun
             /\ stopping \in BOOLEAN
             /\ restarts \in 0..MaxRestart
             /\ sent \in 0..MaxInput

Typing ==
    /\ runs \in [RunId -> RunState]
    /\ ledger \in [RowId -> NamedRow]
    /\ messages \in Seq(Message)
    /\ g \in [Conns -> NamedGoroutine]
    /\ tx \in NamedTx
    /\ MemTyping
    /\ EnvTyping
    /\ TxOwner

-----------------------------------------------------------------------------
(* Constants and records *)

LEMMA Bounds == /\ MaxRow \in Nat \ {0} /\ MaxRun \in Nat \ {0}
                /\ MaxInput \in Nat /\ MaxRestart \in Nat
                /\ NoConn \notin Conns
                /\ Flavors \subseteq Flavor
  BY Assumptions DEF Assumptions, ConnAssumption, BoundAssumption, ConfigAssumption, Flavor

LEMMA Null == Idle \in NamedGoroutine /\ FreeRow \in NamedRow /\ NoTx \in NamedTx
<1>1. Idle \in NamedGoroutine
  BY Bounds DEF Idle, NamedGoroutine, Goroutine, Pc, EnginePc, Flavor, WithRun, WithPayload
<1>2. FreeRow \in NamedRow
  BY Bounds DEF FreeRow, NamedRow, Row, RowStatus, Flavor
<1>3. NoTx \in NamedTx
  BY Bounds DEF NoTx, NamedTx, Tx, Verdict, Flavor
<1> QED BY <1>1, <1>2, <1>3

LEMMA GoroutineFields ==
    ASSUME g \in [Conns -> NamedGoroutine], NEW c \in Conns
    PROVE  /\ g[c] \in NamedGoroutine
           /\ g[c].pc \in Pc
           /\ g[c].run \in 0..MaxRun
           /\ g[c].input \in 0..MaxInput
           /\ g[c].flavor \in Flavor
           /\ g[c].promote \in 0..MaxRow
           /\ g[c].pc \in WithRun => g[c].run \in RunId /\ g[c].run # 0
           /\ g[c].pc \in WithPayload \/ g[c].promote # 0 => g[c].input # 0
  BY Bounds DEF NamedGoroutine, Goroutine, RunId

LEMMA RowFields ==
    ASSUME ledger \in [RowId -> NamedRow], NEW i \in RowId
    PROVE  /\ ledger[i] \in NamedRow
           /\ ledger[i].status \in RowStatus
           /\ ledger[i].delivery \in {"guide", "queue"}
           /\ ledger[i].run \in 0..MaxRun
           /\ ledger[i].seq \in Nat
           /\ ledger[i].input \in 0..MaxInput
           /\ ledger[i].flavor \in Flavor
           /\ ledger[i].old \in BOOLEAN
           /\ ledger[i].status # "free" => ledger[i].input # 0
  BY DEF NamedRow, Row

LEMMA TxFields ==
    ASSUME tx \in NamedTx
    PROVE  /\ tx.kind \in {"none", "steer", "inject", "create"}
           /\ tx.conn \in Conns \cup {NoConn}
           /\ tx.target \in 0..MaxRun
           /\ tx.verdict \in Verdict
           /\ tx.seq \in Nat
           /\ tx.input \in 0..MaxInput
           /\ tx.flavor \in Flavor
           /\ tx.row \in 0..MaxRow
           /\ tx.kind \in {"steer", "create"} => tx.input # 0
           /\ tx.kind = "inject" => tx.row # 0
  BY DEF NamedTx, Tx

(* A goroutine that moves keeps its run and its payload.                   *)
LEMMA GotoEffect ==
    ASSUME g \in [Conns -> NamedGoroutine], NEW c \in Conns, NEW pc \in Pc, Goto(c, pc),
           pc \in WithRun => g[c].run # 0,
           pc \in WithPayload => g[c].input # 0
    PROVE  /\ g' \in [Conns -> NamedGoroutine]
           /\ \A d \in Conns \ {c} : g'[d] = g[d]
           /\ g'[c].pc = pc
           /\ g'[c].run = g[c].run
           /\ g'[c].input = g[c].input
           /\ g'[c].flavor = g[c].flavor
           /\ g'[c].promote = g[c].promote
<1>1. [g[c] EXCEPT !.pc = pc] \in NamedGoroutine
  BY GoroutineFields DEF NamedGoroutine, Goroutine
<1>2. g' = [g EXCEPT ![c] = [g[c] EXCEPT !.pc = pc]]
  BY DEF Goto
<1>3. g[c] \in [pc : Pc, run : 0..MaxRun, input : 0..MaxInput, flavor : Flavor, promote : 0..MaxRow]
  BY DEF NamedGoroutine, Goroutine
<1> QED BY <1>1, <1>2, <1>3

(* Dropping a payload and starting a goroutine replace its record.         *)
LEMMA ReplaceEffect ==
    ASSUME g \in [Conns -> NamedGoroutine], NEW c \in Conns, NEW x \in NamedGoroutine,
           g' = [g EXCEPT ![c] = x]
    PROVE  /\ g' \in [Conns -> NamedGoroutine]
           /\ \A d \in Conns \ {c} : g'[d] = g[d]
           /\ g'[c] = x
  OBVIOUS

LEMMA DropEffect ==
    ASSUME g \in [Conns -> NamedGoroutine], NEW c \in Conns, NEW pc \in Pc, NEW r \in 0..MaxRun,
           pc \in WithRun => r # 0, pc \notin WithPayload, Drop(c, pc, r)
    PROVE  /\ g' \in [Conns -> NamedGoroutine]
           /\ \A d \in Conns \ {c} : g'[d] = g[d]
           /\ g'[c].pc = pc
           /\ g'[c].run = r
           /\ g'[c].promote = 0
<1> DEFINE x == [Idle EXCEPT !.pc = pc, !.run = r]
<1>0. Idle \in Goroutine /\ Idle.promote = 0
  BY Null DEF NamedGoroutine, Idle
<1>1. x \in Goroutine /\ x.pc = pc /\ x.run = r /\ x.promote = 0
  BY <1>0 DEF Goroutine
<1>2. x \in NamedGoroutine
  BY <1>1 DEF NamedGoroutine
<1>3. g' = [g EXCEPT ![c] = x]
  BY DEF Drop
<1> HIDE DEF x
<1>4. /\ g' \in [Conns -> NamedGoroutine]
      /\ \A d \in Conns \ {c} : g'[d] = g[d]
      /\ g'[c] = x
  BY <1>2, <1>3, ReplaceEffect
<1> QED BY <1>1, <1>4

LEMMA StartEffect ==
    ASSUME g \in [Conns -> NamedGoroutine], NEW c \in Conns, NEW input \in 1..MaxInput,
           NEW f \in Flavor, NEW i \in 0..MaxRow, StartGoroutine(c, input, f, i)
    PROVE  /\ g' \in [Conns -> NamedGoroutine]
           /\ \A d \in Conns \ {c} : g'[d] = g[d]
           /\ g'[c].pc = "prepare"
           /\ g'[c].run = 0
           /\ g'[c].input = input
           /\ g'[c].promote = i
<1> DEFINE x == [pc |-> "prepare", run |-> 0, input |-> input, flavor |-> f, promote |-> i]
<1>1. x \in NamedGoroutine
  BY Bounds DEF NamedGoroutine, Goroutine, Pc, EnginePc, WithRun
<1>2. g' = [g EXCEPT ![c] = x]
  BY DEF StartGoroutine
<1>3. /\ x.pc = "prepare" /\ x.run = 0 /\ x.input = input /\ x.promote = i
  OBVIOUS
<1> HIDE DEF x
<1>4. /\ g' \in [Conns -> NamedGoroutine]
      /\ \A d \in Conns \ {c} : g'[d] = g[d]
      /\ g'[c] = x
  BY <1>1, <1>2, ReplaceEffect
<1> QED BY <1>3, <1>4

LEMMA SetStateEffect ==
    ASSUME runs \in [RunId -> RunState], NEW r \in RunId, NEW st \in RunState, SetState(r, st)
    PROVE  /\ runs' \in [RunId -> RunState]
           /\ \A q \in RunId : runs'[q] = IF q = r THEN st ELSE runs[q]
  BY DEF SetState

(* When one goroutine moves and the transaction stays, its owner stays.    *)
LEMMA OwnerFrame ==
    ASSUME TxOwner, NEW c \in Conns, UNCHANGED tx,
           \A d \in Conns \ {c} : g'[d] = g[d], g'[c].pc # "create"
    PROVE  TxOwner'
  BY DEF TxOwner, At

-----------------------------------------------------------------------------
(* What the operators on the tables return *)

LEMMA AdmitTyping ==
    ASSUME Typing, Admit, tx.kind \in {"steer", "create"}
    PROVE  ledger' \in [RowId -> NamedRow]
<1> USE DEF Typing
<1>1. ASSUME NEW i \in RowId, NEW delivery \in {"guide", "queue"}, NEW status \in RowStatus,
             AddRow(i, delivery, status)
      PROVE  ledger' \in [RowId -> NamedRow]
  <2> DEFINE x == [status |-> status, delivery |-> delivery, run |-> tx.target,
                   seq |-> tx.seq + 1, input |-> tx.input, flavor |-> tx.flavor, old |-> FALSE]
  <2>1. x \in NamedRow
    BY TxFields DEF NamedRow, Row
  <2>2. ledger' = [ledger EXCEPT ![i] = x]
    BY <1>1 DEF AddRow
  <2> HIDE DEF x
  <2> QED BY <2>1, <2>2
<1>2. CASE \E i \in RowId : AddRow(i, "guide", "admitted")
  BY <1>1, <1>2 DEF RowStatus
<1>3. CASE \E i \in RowId : AddRow(i, "queue", "queued")
  BY <1>1, <1>3 DEF RowStatus
<1>4. CASE UNCHANGED ledger
  BY <1>4
<1> QED BY <1>2, <1>3, <1>4 DEF Admit

LEMMA ResumedTyping ==
    ASSUME ledger \in [RowId -> NamedRow]
    PROVE  Resumed \in [RowId -> NamedRow]
<1>1. ASSUME NEW i \in RowId, LeftOver(i)
      PROVE  [ledger[i] EXCEPT !.status = "discarded"] \in NamedRow
  <2>1. ledger[i].input # 0 /\ ledger[i] \in Row
    BY <1>1, RowFields DEF LeftOver, NamedRow
  <2> QED BY <2>1 DEF NamedRow, Row, RowStatus
<1> QED BY <1>1 DEF Resumed

LEMMA SettledTyping ==
    ASSUME ledger \in [RowId -> NamedRow], NEW r \in RunId
    PROVE  Settled(r) \in [RowId -> NamedRow]
<1>1. ASSUME NEW i \in RowId, ledger[i].status = "admitted"
      PROVE  /\ [ledger[i] EXCEPT !.status = "discarded"] \in NamedRow
             /\ [ledger[i] EXCEPT !.status = "queued", !.delivery = "queue"] \in NamedRow
  <2>1. ledger[i].input # 0 /\ ledger[i] \in Row
    BY <1>1, RowFields DEF NamedRow
  <2> QED BY <2>1 DEF NamedRow, Row, RowStatus
<1> QED BY <1>1 DEF Settled

LEMMA ExpiredTyping ==
    ASSUME runs \in [RunId -> RunState], NEW S
    PROVE  Expired(S) \in [RunId -> RunState]
  BY DEF Expired, RunState, TerminalState

LEMMA MessageTyping ==
    ASSUME messages \in Seq(Message), NEW n \in 1..MaxInput, NEW i \in 0..MaxRow, NEW r \in RunId
    PROVE  Append(messages, [input |-> n, row |-> i, run |-> r]) \in Seq(Message)
<1>1. [input |-> n, row |-> i, run |-> r] \in Message
  BY DEF Message
<1> QED BY <1>1, AppendProperties

-----------------------------------------------------------------------------
(* Types *)

LEMMA TypingInit == Init => Typing
<1> SUFFICES ASSUME Init PROVE Typing
  OBVIOUS
<1>1. runs \in [RunId -> RunState]
  BY DEF Init, RunState
<1>2. ledger \in [RowId -> NamedRow] /\ g \in [Conns -> NamedGoroutine] /\ tx \in NamedTx
  BY Null DEF Init
<1>3. messages \in Seq(Message)
  BY EmptySeq DEF Init
<1>4. MemTyping
  BY DEF Init, MemTyping
<1>6. stopping \in BOOLEAN
  BY DEF Init
<1>7. EnvTyping
  BY <1>6, Bounds DEF Init, EnvTyping
<1>5. TxOwner
  BY DEF Init, TxOwner, At, Idle
<1> QED BY <1>1, <1>2, <1>3, <1>4, <1>5, <1>7 DEF Typing

LEMMA TypingStep == Typing /\ [Next]_vars => Typing'
<1> SUFFICES ASSUME Typing, [Next]_vars PROVE Typing'
  OBVIOUS
<1> USE DEF Typing, dbVars, memVars, envVars

<1>1. ASSUME NEW c \in Conns, NEW f \in Flavors, Submit(c, f) PROVE Typing'
  <2>1. sent + 1 \in 1..MaxInput
    BY <1>1, Bounds DEF Submit, EnvTyping
  <2>2. g' \in [Conns -> NamedGoroutine] /\ (\A d \in Conns \ {c} : g'[d] = g[d]) /\ g'[c].pc = "prepare"
    BY <1>1, <2>1, Bounds, StartEffect DEF Submit
  <2>3. TxOwner'
    BY <1>1, <2>2, OwnerFrame DEF Submit
  <2> QED BY <1>1, <2>1, <2>2, <2>3 DEF Submit, MemTyping, EnvTyping

<1>2. ASSUME NEW c \in Conns, NEW f \in Flavors, SteerBegin(c, f) PROVE Typing'
  <2>1. sent + 1 \in 1..MaxInput
    BY <1>2, Bounds DEF SteerBegin, EnvTyping
  <2>2. PICK t \in 0..MaxRun, s \in Seqs :
            tx' = [kind |-> "steer", conn |-> c, target |-> t,
                   verdict |-> SteerVerdict(t, f), seq |-> s,
                   input |-> sent + 1, flavor |-> f, row |-> 0]
    BY <1>2 DEF SteerBegin
  <2>3. s \in Nat
    BY RowFields DEF Seqs
  <2>4. SteerVerdict(t, f) \in Verdict
    BY DEF SteerVerdict, Admission, Verdict
  <2>5. tx' \in NamedTx
    BY <2>1, <2>2, <2>3, <2>4, Bounds DEF NamedTx, Tx
  <2>6. TxOwner'
    BY <1>2 DEF SteerBegin, LockFree, TxOwner, At
  <2> QED BY <1>2, <2>1, <2>5, <2>6 DEF SteerBegin, MemTyping, EnvTyping

<1>3. ASSUME NEW c \in Conns, NEW i \in RowId, InjectBegin(c, i) PROVE Typing'
  <2>1. PICK t \in 0..MaxRun :
            tx' = [NoTx EXCEPT !.kind = "inject", !.conn = c, !.target = t,
                               !.verdict = InjectVerdict(t), !.row = i]
    BY <1>3 DEF InjectBegin
  <2>2. InjectVerdict(t) \in Verdict
    BY DEF InjectVerdict, Verdict
  <2>3. NoTx \in Tx /\ i \in 0..MaxRow /\ i # 0
    BY Null, Bounds DEF NamedTx, RowId
  <2>4. tx' \in NamedTx
    BY <2>1, <2>2, <2>3 DEF NamedTx, Tx
  <2>5. TxOwner'
    BY <1>3 DEF InjectBegin, LockFree, TxOwner, At
  <2> QED BY <1>3, <2>4, <2>5 DEF InjectBegin, MemTyping, EnvTyping

<1>4. ASSUME NEW c \in Conns, NEW i \in RowId, QueueSendRun(c, i) PROVE Typing'
  <2>1. ledger[i].input \in 1..MaxInput /\ ledger[i].flavor \in Flavor
    BY <1>4, Bounds, RowFields DEF QueueSendRun, QueuedRows, RowsIn
  <2>2. g' \in [Conns -> NamedGoroutine] /\ (\A d \in Conns \ {c} : g'[d] = g[d]) /\ g'[c].pc = "prepare"
    BY <1>4, <2>1, Bounds, StartEffect DEF QueueSendRun
  <2>3. TxOwner'
    BY <1>4, <2>2, OwnerFrame DEF QueueSendRun
  <2> QED BY <1>4, <2>2, <2>3 DEF QueueSendRun, MemTyping, EnvTyping

<1>5. ASSUME SteerCommit PROVE Typing'
  <2>1. ledger' \in [RowId -> NamedRow]
    BY <1>5, AdmitTyping DEF SteerCommit
  <2>2. TxOwner'
    BY <1>5 DEF SteerCommit, TxOwner, At
  <2> QED BY <1>5, <2>1, <2>2, Null DEF SteerCommit, MemTyping, EnvTyping

<1>6. ASSUME InjectCommit PROVE Typing'
  <2>1. CASE UNCHANGED ledger
    <3>1. TxOwner'
      BY <1>6 DEF InjectCommit, TxOwner, At
    <3> QED BY <1>6, <2>1, <3>1, Null DEF InjectCommit, MemTyping, EnvTyping
  <2>2. CASE /\ tx.row \in QueuedRows
             /\ ledger' = [ledger EXCEPT ![tx.row].status = "admitted",
                                         ![tx.row].delivery = "guide",
                                         ![tx.row].run = tx.target]
    <3> DEFINE i == tx.row
               x == [ledger[i] EXCEPT !.status = "admitted", !.delivery = "guide", !.run = tx.target]
    <3>1. i \in RowId /\ ledger[i].input # 0 /\ ledger[i] \in Row
      BY <2>2, RowFields DEF QueuedRows, RowsIn, NamedRow
    <3>2. x \in NamedRow
      BY <3>1, TxFields DEF NamedRow, Row, RowStatus
    <3>3. ledger' = [ledger EXCEPT ![i] = x]
      BY <2>2, <3>1
    <3>4. ledger' \in [RowId -> NamedRow]
      <4> HIDE DEF x, i
      <4> QED BY <3>1, <3>2, <3>3
    <3>5. TxOwner'
      BY <1>6 DEF InjectCommit, TxOwner, At
    <3> QED BY <1>6, <3>4, <3>5, Null DEF InjectCommit, MemTyping, EnvTyping
  <2> QED BY <1>6, <2>1, <2>2 DEF InjectCommit

<1>7. ASSUME NEW c \in Conns, CreateBegin(c) PROVE Typing'
  <2>1. g' \in [Conns -> NamedGoroutine] /\ \A d \in Conns \ {c} : g'[d] = g[d]
    BY <1>7, GoroutineFields, GotoEffect DEF CreateBegin, At, Pc, EnginePc, WithRun, WithPayload
  <2>2. PICK t \in 0..MaxRun, s \in Seqs :
            tx' = [kind |-> "create", conn |-> c, target |-> t,
                   verdict |-> CreateVerdict(t, g[c].flavor), seq |-> s,
                   input |-> g[c].input, flavor |-> g[c].flavor, row |-> g[c].promote]
    BY <1>7 DEF CreateBegin
  <2>3. s \in Nat
    BY RowFields DEF Seqs
  <2>4. CreateVerdict(t, g[c].flavor) \in Verdict
    BY DEF CreateVerdict, Admission, Verdict
  <2>5. g[c].input # 0
    BY <1>7, GoroutineFields DEF CreateBegin, At, WithPayload
  <2>6. tx' \in NamedTx
    BY <2>2, <2>3, <2>4, <2>5, GoroutineFields DEF NamedTx, Tx
  <2>7. TxOwner'
    BY <1>7, <2>1, <2>2 DEF CreateBegin, LockFree, TxOwner, At
  <2> QED BY <1>7, <2>1, <2>6, <2>7 DEF CreateBegin, MemTyping, EnvTyping

<1>8. ASSUME NEW c \in Conns, CreateAdmits(c) PROVE Typing'
  <2>1. tx.kind = "create" /\ tx.conn = c
    BY <1>8 DEF CreateAdmits, TxOwner
  <2>2. g' \in [Conns -> NamedGoroutine] /\ (\A d \in Conns \ {c} : g'[d] = g[d]) /\ g'[c].pc = "done"
    BY <1>8, Bounds, DropEffect DEF CreateAdmits, Pc, EnginePc, WithRun, WithPayload
  <2>3. TxOwner'
    BY <1>8, <2>1, <2>2 DEF TxOwner, At
  <2>4. ledger' \in [RowId -> NamedRow]
    BY <1>8, <2>1, AdmitTyping DEF CreateAdmits
  <2> QED BY <1>8, <2>2, <2>3, <2>4, Null DEF CreateAdmits, MemTyping, EnvTyping

<1>9. ASSUME NEW c \in Conns, CreateRollback(c) PROVE Typing'
  <2>1. tx.kind = "create" /\ tx.conn = c
    BY <1>9 DEF CreateRollback, TxOwner
  <2>2. g' \in [Conns -> NamedGoroutine] /\ (\A d \in Conns \ {c} : g'[d] = g[d]) /\ g'[c].pc = "done"
    BY <1>9, Bounds, DropEffect DEF CreateRollback, Pc, EnginePc, WithRun, WithPayload
  <2>3. TxOwner'
    BY <1>9, <2>1, <2>2 DEF TxOwner, At
  <2> QED BY <1>9, <2>2, <2>3, Null DEF CreateRollback, MemTyping, EnvTyping

<1>10. ASSUME NEW c \in Conns, CreateRun(c) PROVE Typing'
  <2>1. tx.kind = "create" /\ tx.conn = c /\ tx.input \in 1..MaxInput /\ tx.row \in 0..MaxRow
    BY <1>10, Bounds, TxFields DEF CreateRun, TxOwner
  <2>2. PICK r \in RunId :
          /\ runs' = [runs EXCEPT ![r] = "running"]
          /\ messages' = Append(messages, [input |-> tx.input, row |-> tx.row, run |-> r])
          /\ \/ tx.row = 0 /\ ledger' = Resumed
             \/ /\ tx.row # 0 /\ CanPromote(tx.row)
                /\ ledger' = [Resumed EXCEPT ![tx.row].status = "guided", ![tx.row].run = r]
          /\ Drop(c, "created", r)
    BY <1>10 DEF CreateRun
  <2>3. r \in 0..MaxRun /\ r # 0
    BY Bounds DEF RunId
  <2>4. g' \in [Conns -> NamedGoroutine] /\ (\A d \in Conns \ {c} : g'[d] = g[d]) /\ g'[c].pc = "created"
    BY <2>2, <2>3, DropEffect DEF Pc, EnginePc, WithRun, WithPayload
  <2>5. TxOwner'
    BY <1>10, <2>1, <2>4 DEF TxOwner, At
  <2>6. runs' \in [RunId -> RunState]
    BY <2>2 DEF RunState, ActiveState
  <2>7. messages' \in Seq(Message)
    BY <2>1, <2>2, MessageTyping
  <2>8. ledger' \in [RowId -> NamedRow]
    <3>1. CASE ledger' = Resumed
      BY <3>1, ResumedTyping
    <3>2. CASE /\ tx.row # 0 /\ CanPromote(tx.row)
               /\ ledger' = [Resumed EXCEPT ![tx.row].status = "guided", ![tx.row].run = r]
      <4> DEFINE x == [Resumed[tx.row] EXCEPT !.status = "guided", !.run = r]
      <4>1. tx.row \in RowId
        BY <2>1, <3>2, Bounds DEF RowId
      <4>2. Resumed[tx.row] \in Row /\ Resumed[tx.row].input # 0
        BY <3>2, <4>1, ResumedTyping DEF CanPromote, NamedRow
      <4>3. x \in NamedRow
        BY <2>3, <4>2 DEF NamedRow, Row, RowStatus
      <4>4. ledger' = [Resumed EXCEPT ![tx.row] = x]
        BY <3>2
      <4> HIDE DEF x
      <4> QED BY <4>1, <4>3, <4>4, ResumedTyping
    <3> QED BY <2>2, <3>1, <3>2
  <2> QED BY <1>10, <2>4, <2>5, <2>6, <2>7, <2>8, Null DEF CreateRun, MemTyping, EnvTyping

<1>11. ASSUME NEW c \in Conns, Register(c) PROVE Typing'
  <2>1. "loop" \in Pc /\ "loop" \notin WithPayload /\ g[c].run # 0 /\ Goto(c, "loop")
    BY <1>11, GoroutineFields DEF Register, At, Pc, EnginePc, WithRun, WithPayload
  <2>2. g' \in [Conns -> NamedGoroutine] /\ (\A d \in Conns \ {c} : g'[d] = g[d]) /\ g'[c].pc = "loop"
    BY <2>1, GotoEffect
  <2>3. TxOwner'
    BY <1>11, <2>2, OwnerFrame DEF Register
  <2>4. registry' \subseteq RunId
    BY <1>11, GoroutineFields DEF Register, At, WithRun, MemTyping
  <2> QED BY <1>11, <2>2, <2>3, <2>4 DEF Register, MemTyping, EnvTyping

<1>12. ASSUME NEW c \in Conns, DrainGuide(c) PROVE Typing'
  <2>1. PICK i \in RowId :
          /\ IsFirst(i, GuidesOf(g[c].run))
          /\ ledger' = [ledger EXCEPT ![i].status = "guided"]
          /\ messages' = Append(messages, [input |-> ledger[i].input, row |-> i, run |-> g[c].run])
    BY <1>12 DEF DrainGuide
  <2>2. ledger[i].input \in 1..MaxInput /\ ledger[i].input # 0 /\ ledger[i] \in Row /\ i \in 0..MaxRow
    BY <2>1, Bounds, RowFields DEF IsFirst, GuidesOf, RowsIn, NamedRow, RowId
  <2>3. [ledger[i] EXCEPT !.status = "guided"] \in NamedRow
    BY <2>2 DEF NamedRow, Row, RowStatus
  <2>4. ledger' \in [RowId -> NamedRow]
    BY <2>1, <2>3
  <2>5. g[c].run \in RunId
    BY <1>12, GoroutineFields DEF DrainGuide, At, WithRun, EnginePc
  <2>6. messages' \in Seq(Message)
    BY <2>1, <2>2, <2>5, MessageTyping
  <2>7. TxOwner'
    BY <1>12 DEF DrainGuide, TxOwner, At
  <2> QED BY <1>12, <2>4, <2>6, <2>7 DEF DrainGuide, MemTyping, EnvTyping

<1>13. ASSUME NEW c \in Conns, EnterSoftLanding(c) PROVE Typing'
  <2>1. TxOwner'
    BY <1>13 DEF EnterSoftLanding, TxOwner, At
  <2> QED BY <1>13, <2>1 DEF EnterSoftLanding, MemTyping, EnvTyping

<1>14. ASSUME NEW c \in Conns, AskClient(c) PROVE Typing'
  <2>1. "wait" \in Pc /\ "wait" \notin WithPayload /\ g[c].run # 0 /\ Goto(c, "wait")
    BY <1>14, GoroutineFields DEF AskClient, At, Pc, EnginePc, WithRun, WithPayload
  <2>2. g' \in [Conns -> NamedGoroutine] /\ (\A d \in Conns \ {c} : g'[d] = g[d]) /\ g'[c].pc = "wait"
    BY <2>1, GotoEffect
  <2>3. TxOwner'
    BY <1>14, <2>2, OwnerFrame DEF AskClient
  <2>4. runs' \in [RunId -> RunState]
    BY <1>14, GoroutineFields, SetStateEffect DEF AskClient, At, WithRun, EnginePc, RunState, ActiveState, TerminalState
  <2> QED BY <1>14, <2>2, <2>3, <2>4 DEF AskClient, MemTyping, EnvTyping

<1>15. ASSUME NEW c \in Conns, ClientAnswers(c) PROVE Typing'
  <2>1. "loop" \in Pc /\ "loop" \notin WithPayload /\ g[c].run # 0 /\ Goto(c, "loop")
    BY <1>15, GoroutineFields DEF ClientAnswers, At, Pc, EnginePc, WithRun, WithPayload
  <2>2. g' \in [Conns -> NamedGoroutine] /\ (\A d \in Conns \ {c} : g'[d] = g[d]) /\ g'[c].pc = "loop"
    BY <2>1, GotoEffect
  <2>3. TxOwner'
    BY <1>15, <2>2, OwnerFrame DEF ClientAnswers
  <2>4. runs' \in [RunId -> RunState]
    BY <1>15, GoroutineFields, SetStateEffect DEF ClientAnswers, At, WithRun, EnginePc, RunState, ActiveState, TerminalState
  <2> QED BY <1>15, <2>2, <2>3, <2>4 DEF ClientAnswers, MemTyping, EnvTyping

<1>16. ASSUME NEW c \in Conns, Delegate(c) PROVE Typing'
  <2>1. g[c].run \in 0..MaxRun
    BY GoroutineFields
  <2>2. TxOwner'
    BY <1>16 DEF Delegate, TxOwner, At
  <2> QED BY <1>16, <2>1, <2>2 DEF Delegate, MemTyping, EnvTyping

<1>17. ASSUME NEW r \in RunId, ChildEnds(r) PROVE Typing'
  <2>1. TxOwner'
    BY <1>17 DEF ChildEnds, TxOwner, At
  <2> QED BY <1>17, <2>1 DEF ChildEnds, MemTyping, EnvTyping

<1>18. ASSUME NEW c \in Conns, FinalAnswer(c) PROVE Typing'
  <2>1. "ending" \in Pc /\ "ending" \notin WithPayload /\ g[c].run # 0 /\ Goto(c, "ending")
    BY <1>18, GoroutineFields DEF FinalAnswer, At, Pc, EnginePc, WithRun, WithPayload
  <2>2. g' \in [Conns -> NamedGoroutine] /\ (\A d \in Conns \ {c} : g'[d] = g[d]) /\ g'[c].pc = "ending"
    BY <2>1, GotoEffect
  <2>3. TxOwner'
    BY <1>18, <2>2, OwnerFrame DEF FinalAnswer
  <2> QED BY <1>18, <2>2, <2>3 DEF FinalAnswer, MemTyping, EnvTyping

<1>19. ASSUME NEW c \in Conns, Exhausted(c) PROVE Typing'
  <2>1. "ending" \in Pc /\ "ending" \notin WithPayload /\ g[c].run # 0 /\ Goto(c, "ending")
    BY <1>19, GoroutineFields DEF Exhausted, At, Pc, EnginePc, WithRun, WithPayload
  <2>2. g' \in [Conns -> NamedGoroutine] /\ (\A d \in Conns \ {c} : g'[d] = g[d]) /\ g'[c].pc = "ending"
    BY <2>1, GotoEffect
  <2>3. TxOwner'
    BY <1>19, <2>2, OwnerFrame DEF Exhausted
  <2> QED BY <1>19, <2>2, <2>3 DEF Exhausted, MemTyping, EnvTyping

<1>20. ASSUME NEW c \in Conns, Finish(c) PROVE Typing'
  <2>1. "settle" \in Pc /\ "settle" \notin WithPayload /\ g[c].run # 0 /\ Goto(c, "settle")
    BY <1>20, GoroutineFields DEF Finish, At, Pc, EnginePc, WithRun, WithPayload
  <2>2. g' \in [Conns -> NamedGoroutine] /\ (\A d \in Conns \ {c} : g'[d] = g[d]) /\ g'[c].pc = "settle"
    BY <2>1, GotoEffect
  <2>3. TxOwner'
    BY <1>20, <2>2, OwnerFrame DEF Finish
  <2>4. runs' \in [RunId -> RunState]
    BY <1>20, GoroutineFields, SetStateEffect DEF Finish, At, WithRun, EnginePc, RunState, ActiveState, TerminalState
  <2> QED BY <1>20, <2>2, <2>3, <2>4 DEF Finish, MemTyping, EnvTyping

<1>21. ASSUME NEW c \in Conns, Settle(c) PROVE Typing'
  <2>1. "settled" \in Pc /\ "settled" \notin WithPayload /\ g[c].run # 0 /\ Goto(c, "settled")
    BY <1>21, GoroutineFields DEF Settle, At, Pc, EnginePc, WithRun, WithPayload
  <2>2. g' \in [Conns -> NamedGoroutine] /\ (\A d \in Conns \ {c} : g'[d] = g[d]) /\ g'[c].pc = "settled"
    BY <2>1, GotoEffect
  <2>3. TxOwner'
    BY <1>21, <2>2, OwnerFrame DEF Settle
  <2>4. ledger' \in [RowId -> NamedRow]
    BY <1>21, GoroutineFields, SettledTyping DEF Settle, At, WithRun
  <2> QED BY <1>21, <2>2, <2>3, <2>4 DEF Settle, MemTyping, EnvTyping

<1>22. ASSUME NEW c \in Conns, DrainHead(c) PROVE Typing'
  <2>1. PICK i \in RowId :
          /\ IsFirst(i, QueuedRows)
          /\ g' = [g EXCEPT ![c] = [pc |-> "release", run |-> @.run, input |-> ledger[i].input,
                                    flavor |-> ledger[i].flavor, promote |-> i]]
    BY <1>22 DEF DrainHead
  <2> DEFINE x == [pc |-> "release", run |-> g[c].run, input |-> ledger[i].input,
                   flavor |-> ledger[i].flavor, promote |-> i]
  <2>2. ledger[i].input # 0 /\ i \in 0..MaxRow
    BY <2>1, Bounds, RowFields DEF IsFirst, QueuedRows, RowsIn, RowId
  <2>3. x \in NamedGoroutine /\ x.pc = "release"
    BY <2>2, GoroutineFields, RowFields DEF NamedGoroutine, Goroutine, Pc, EnginePc, WithRun, WithPayload
  <2>4. g' = [g EXCEPT ![c] = x]
    BY <2>1
  <2> HIDE DEF x
  <2>5. g' \in [Conns -> NamedGoroutine] /\ (\A d \in Conns \ {c} : g'[d] = g[d]) /\ g'[c].pc = "release"
    BY <2>3, <2>4, ReplaceEffect
  <2>6. TxOwner'
    BY <1>22, <2>5, OwnerFrame DEF DrainHead
  <2> QED BY <1>22, <2>5, <2>6 DEF DrainHead, MemTyping, EnvTyping

<1>23. ASSUME NEW c \in Conns, NothingToDrain(c) PROVE Typing'
  <2>1. g' \in [Conns -> NamedGoroutine] /\ (\A d \in Conns \ {c} : g'[d] = g[d]) /\ g'[c].pc = "release"
    BY <1>23, Bounds, GoroutineFields, DropEffect DEF NothingToDrain, At, Pc, EnginePc, WithRun, WithPayload
  <2>2. TxOwner'
    BY <1>23, <2>1, OwnerFrame DEF NothingToDrain
  <2> QED BY <1>23, <2>1, <2>2 DEF NothingToDrain, MemTyping, EnvTyping

<1>24. ASSUME NEW c \in Conns, DoneNotWritten(c) PROVE Typing'
  <2>1. "abort" \in Pc /\ "abort" \notin WithPayload /\ g[c].run # 0 /\ Goto(c, "abort")
    BY <1>24, GoroutineFields DEF DoneNotWritten, At, Pc, EnginePc, WithRun, WithPayload
  <2>2. g' \in [Conns -> NamedGoroutine] /\ (\A d \in Conns \ {c} : g'[d] = g[d]) /\ g'[c].pc = "abort"
    BY <2>1, GotoEffect
  <2>3. TxOwner'
    BY <1>24, <2>2, OwnerFrame DEF DoneNotWritten
  <2>4. runs' \in [RunId -> RunState]
    BY <1>24, GoroutineFields, SetStateEffect DEF DoneNotWritten, At, WithRun, EnginePc, RunState, ActiveState, TerminalState
  <2> QED BY <1>24, <2>2, <2>3, <2>4 DEF DoneNotWritten, MemTyping, EnvTyping

<1>25. ASSUME NEW c \in Conns, NEW st, Fail(c, st) PROVE Typing'
  <2>1. "abort" \in Pc /\ "abort" \notin WithPayload /\ g[c].run # 0 /\ Goto(c, "abort")
    BY <1>25, GoroutineFields DEF Fail, At, Pc, EnginePc, WithRun, WithPayload
  <2>2. g' \in [Conns -> NamedGoroutine] /\ (\A d \in Conns \ {c} : g'[d] = g[d]) /\ g'[c].pc = "abort"
    BY <2>1, GotoEffect
  <2>3. TxOwner'
    BY <1>25, <2>2, OwnerFrame DEF Fail
  <2>4. runs' \in [RunId -> RunState]
    BY <1>25, GoroutineFields, SetStateEffect DEF Fail, At, WithRun, EnginePc, RunState, ActiveState, TerminalState
  <2> QED BY <1>25, <2>2, <2>3, <2>4 DEF Fail, MemTyping, EnvTyping

<1>26. ASSUME NEW c \in Conns, AbortSettle(c) PROVE Typing'
  <2>1. g' \in [Conns -> NamedGoroutine] /\ (\A d \in Conns \ {c} : g'[d] = g[d]) /\ g'[c].pc = "release"
    BY <1>26, Bounds, GoroutineFields, DropEffect DEF AbortSettle, At, Pc, EnginePc, WithRun, WithPayload
  <2>2. TxOwner'
    BY <1>26, <2>1, OwnerFrame DEF AbortSettle
  <2>3. ledger' \in [RowId -> NamedRow]
    BY <1>26, GoroutineFields, SettledTyping DEF AbortSettle, At, WithRun
  <2> QED BY <1>26, <2>1, <2>2, <2>3 DEF AbortSettle, MemTyping, EnvTyping

<1>27. ASSUME NEW c \in Conns, PrepareFails(c) PROVE Typing'
  <2>1. g' \in [Conns -> NamedGoroutine] /\ (\A d \in Conns \ {c} : g'[d] = g[d]) /\ g'[c].pc = "done"
    BY <1>27, Bounds, GoroutineFields, DropEffect DEF PrepareFails, At, Pc, EnginePc, WithRun, WithPayload
  <2>2. TxOwner'
    BY <1>27, <2>1, OwnerFrame DEF PrepareFails
  <2> QED BY <1>27, <2>1, <2>2 DEF PrepareFails, MemTyping, EnvTyping

<1>28. ASSUME NEW c \in Conns, Release(c) PROVE Typing'
  <2> DEFINE p == IF g[c].promote # 0 THEN "prepare" ELSE "done"
             x == [g[c] EXCEPT !.pc = p, !.run = 0]
  <2>1. p \in {"prepare", "done"} /\ p \in Pc /\ p \notin WithRun /\ (p \in WithPayload => g[c].input # 0)
    BY GoroutineFields DEF Pc, EnginePc, WithRun, WithPayload
  <2>2. g[c] \in Goroutine /\ (g[c].promote # 0 => g[c].input # 0)
    BY GoroutineFields DEF NamedGoroutine
  <2>3. g' = [g EXCEPT ![c] = x]
    BY <1>28 DEF Release
  <2> HIDE DEF p
  <2>4. /\ x \in Goroutine
        /\ x.pc = p /\ x.input = g[c].input /\ x.promote = g[c].promote
    <3>1. p \in Pc /\ 0 \in 0..MaxRun
      BY <2>1, Bounds
    <3> QED BY <2>2, <3>1 DEF Goroutine
  <2>5. x \in NamedGoroutine /\ x.pc = p
    BY <2>1, <2>2, <2>4 DEF NamedGoroutine
  <2> HIDE DEF x
  <2>6. g' \in [Conns -> NamedGoroutine] /\ (\A d \in Conns \ {c} : g'[d] = g[d]) /\ g'[c].pc = p
    BY <2>3, <2>5, ReplaceEffect
  <2>7. TxOwner'
    BY <1>28, <2>1, <2>6, OwnerFrame DEF Release
  <2> QED BY <1>28, <2>6, <2>7 DEF Release, MemTyping, EnvTyping

<1>29. ASSUME NEW c \in Conns, Reap(c) PROVE Typing'
  <2>1. g' \in [Conns -> NamedGoroutine] /\ (\A d \in Conns \ {c} : g'[d] = g[d]) /\ g'[c] = Idle
    BY <1>29, Null, ReplaceEffect DEF Reap
  <2>2. TxOwner'
    BY <1>29, <2>1, OwnerFrame DEF Reap, Idle
  <2> QED BY <1>29, <2>1, <2>2 DEF Reap, MemTyping, EnvTyping

<1>30. ASSUME NEW r \in RunId, CancelBegin(r) PROVE Typing'
  <2>1. TxOwner'
    BY <1>30 DEF CancelBegin, TxOwner, At
  <2> QED BY <1>30, <2>1 DEF CancelBegin, MemTyping, EnvTyping

<1>31. ASSUME NEW r \in RunId, CancelWrite(r) PROVE Typing'
  <2>1. TxOwner'
    BY <1>31 DEF CancelWrite, TxOwner, At
  <2>2. runs' \in [RunId -> RunState]
    BY <1>31, SetStateEffect DEF CancelWrite, RunState, ActiveState
  <2> QED BY <1>31, <2>1, <2>2 DEF CancelWrite, MemTyping, EnvTyping

<1>32. ASSUME NEW i \in RowId, DeleteQueued(i) PROVE Typing'
  <2>1. ledger[i] \in Row /\ ledger[i].input # 0
    BY <1>32, RowFields DEF DeleteQueued, QueuedRows, RowsIn, NamedRow
  <2>2. [ledger[i] EXCEPT !.status = "cancelled"] \in NamedRow
    BY <2>1 DEF NamedRow, Row, RowStatus
  <2>3. ledger' \in [RowId -> NamedRow]
    BY <1>32, <2>2 DEF DeleteQueued
  <2>4. TxOwner'
    BY <1>32 DEF DeleteQueued, TxOwner, At
  <2> QED BY <1>32, <2>3, <2>4 DEF DeleteQueued, MemTyping, EnvTyping

<1>33. ASSUME Reorder PROVE Typing'
  <2>1. PICK lo \in {ledger[i].seq : i \in QueuedRows} :
          \E f \in [QueuedRows -> lo .. (lo + Cardinality(QueuedRows) - 1)] :
              ledger' = [i \in RowId |->
                  IF i \in QueuedRows THEN [ledger[i] EXCEPT !.seq = f[i]] ELSE ledger[i]]
    BY <1>33 DEF Reorder
  <2>2. PICK f \in [QueuedRows -> lo .. (lo + Cardinality(QueuedRows) - 1)] :
              ledger' = [i \in RowId |->
                  IF i \in QueuedRows THEN [ledger[i] EXCEPT !.seq = f[i]] ELSE ledger[i]]
    BY <2>1
  <2>3. QueuedRows \subseteq RowId
    BY DEF QueuedRows, RowsIn
  <2>4. Cardinality(QueuedRows) \in Nat
    <3>1. 1 \in Int /\ MaxRow \in Int
      BY Bounds
    <3>2. IsFiniteSet(1..MaxRow)
      BY ONLY <3>1, FS_Interval, Zenon
    <3>3. IsFiniteSet(RowId)
      BY <3>2 DEF RowId
    <3> QED BY <2>3, <3>3, FS_Subset, FS_CardinalityType
  <2>5. lo \in Nat
    BY <2>1, <2>3, RowFields
  <2>6. ASSUME NEW i \in QueuedRows PROVE f[i] \in Nat
    BY <2>2, <2>4, <2>5
  <2>7. ASSUME NEW i \in QueuedRows PROVE [ledger[i] EXCEPT !.seq = f[i]] \in NamedRow
    <3>1. ledger[i] \in Row /\ (ledger[i].status # "free" => ledger[i].input # 0)
      BY <2>3, RowFields DEF NamedRow
    <3> QED BY <2>6, <3>1 DEF NamedRow, Row
  <2>8. ledger' \in [RowId -> NamedRow]
    BY <2>2, <2>7
  <2>9. TxOwner'
    BY <1>33 DEF Reorder, TxOwner, At
  <2> QED BY <1>33, <2>8, <2>9 DEF Reorder, MemTyping, EnvTyping

<1>34. ASSUME ShutdownHook PROVE Typing'
  <2>1. TxOwner'
    BY <1>34 DEF ShutdownHook, TxOwner, At
  <2>2. runs' \in [RunId -> RunState]
    BY <1>34, ExpiredTyping DEF ShutdownHook
  <2>3. MemTyping' /\ EnvTyping'
    BY <1>34 DEF ShutdownHook, MemTyping, EnvTyping
  <2> QED BY <1>34, <2>1, <2>2, <2>3 DEF ShutdownHook

<1>35. ASSUME Restart PROVE Typing'
  <2>1. runs' \in [RunId -> RunState]
    BY <1>35, ExpiredTyping DEF Restart
  <2>2. ledger' \in [RowId -> NamedRow]
    <3>1. ASSUME NEW i \in RowId, NEW b \in BOOLEAN PROVE [ledger[i] EXCEPT !.old = b] \in NamedRow
      BY RowFields DEF NamedRow, Row
    <3>2. \A i \in RowId : (ledger[i].status # "free") \in BOOLEAN
      OBVIOUS
    <3>3. ledger' = [i \in RowId |-> [ledger[i] EXCEPT !.old = (ledger[i].status # "free")]]
      BY <1>35 DEF Restart
    <3> QED BY <3>1, <3>2, <3>3
  <2>3. g' \in [Conns -> NamedGoroutine] /\ tx' \in NamedTx
    BY <1>35, Null DEF Restart
  <2>4. TxOwner'
    BY <1>35 DEF Restart, TxOwner, At, Idle
  <2>5. MemTyping'
    BY <1>35 DEF Restart, MemTyping
  <2>6. stopping' \in BOOLEAN /\ sent' \in 0..MaxInput
    BY <1>35 DEF Restart, EnvTyping
  <2>7. children' \subseteq 0..MaxRun /\ restarts' \in 0..MaxRestart
    BY <1>35, Bounds DEF Restart, EnvTyping
  <2>8. EnvTyping'
    BY <2>6, <2>7 DEF EnvTyping
  <2>9. messages' \in Seq(Message)
    BY <1>35 DEF Restart
  <2> QED BY <2>1, <2>2, <2>3, <2>4, <2>5, <2>8, <2>9

<1>36. ASSUME UNCHANGED vars PROVE Typing'
  BY <1>36 DEF vars, MemTyping, EnvTyping, TxOwner, At

<1> QED
  BY <1>1, <1>2, <1>3, <1>4, <1>5, <1>6, <1>7, <1>8, <1>9, <1>10, <1>11, <1>12, <1>13, <1>14, <1>15, <1>16, <1>17, <1>18, <1>19, <1>20, <1>21, <1>22, <1>23, <1>24, <1>25, <1>26, <1>27, <1>28, <1>29, <1>30, <1>31, <1>32, <1>33, <1>34, <1>35, <1>36
  DEF Next, Client, Start, Engine, Conclude, Failure, Commit, UserCancel, Manage, Process, EndLoop

LEMMA TypingTypeOK == Typing => TypeOK
<1> SUFFICES ASSUME Typing PROVE TypeOK
  OBVIOUS
<1>1. NamedRow \subseteq Row /\ NamedGoroutine \subseteq Goroutine /\ NamedTx \subseteq Tx
  BY DEF NamedRow, NamedGoroutine, NamedTx
<1> QED BY <1>1 DEF Typing, TypeOK, MemTyping, EnvTyping

(* Every variable keeps its type, in every configuration.                  *)
THEOREM TypeCorrect == Spec => []TypeOK
<1>1. Init => Typing
  BY TypingInit
<1>2. Typing /\ [Next]_vars => Typing'
  BY TypingStep
<1>3. Typing => TypeOK
  BY TypingTypeOK
<1> QED BY <1>1, <1>2, <1>3, PTL DEF Spec

-----------------------------------------------------------------------------
(***************************************************************************)
(* At most one engine works on a session, and what follows from it.        *)
(*                                                                         *)
(* The check and the insertion of createReactRunContext are one            *)
(* transaction, but the runs it found inactive are changed by statements   *)
(* that take no lock.  The inductive invariant therefore relates the run   *)
(* table, the goroutines and the open transaction: while an engine holds   *)
(* its run the table calls it active, so that a transaction that saw no    *)
(* active run runs beside no engine, and nobody can start one before it    *)
(* commits.  The last section is about one active run: what writes the     *)
(* state of a run without being its engine or its creation breaks it.      *)
(***************************************************************************)

(* A transaction that decided to create a run runs beside no engine.       *)
CreatesAlone ==
    (~stopping /\ tx.kind = "create" /\ tx.verdict = "create") => \A d \in Conns : ~Holding(d)

(* The run of an engine is active in the table.                            *)
HoldingActive == ~stopping => \A d \in Conns : Holding(d) => Active(g[d].run)

(* A run belongs to one goroutine, and has a row.                          *)
RunsDistinct == \A c, d \in Conns : (g[c].run # 0 /\ g[c].run = g[d].run) => c = d
RunsKnown == \A c \in Conns : g[c].run # 0 => runs[g[c].run] # "none"

EngineInv ==
    /\ Typing
    /\ OneEngine
    /\ CreatesAlone
    /\ HoldingActive
    /\ RunsDistinct
    /\ RunsKnown

-----------------------------------------------------------------------------
(* A step of one goroutine that neither creates nor keeps a run wrongly:   *)
(* it keeps its run or gives it up, may change the state of that run only, *)
(* and goes on as an engine only from an engine, with an active run.       *)
Moves(c) ==
    /\ \A d \in Conns \ {c} : g'[d] = g[d]
    /\ g'[c].run \in {0, g[c].run}
    /\ \A r \in RunId : r # g[c].run => runs'[r] = runs[r]
    /\ g'[c].run # 0 => runs'[g[c].run] # "none"
    /\ Holding(c)' => Holding(c) /\ g'[c].run = g[c].run /\ (Active(g[c].run) => Active(g[c].run)')
    /\ UNCHANGED stopping
    /\ UNCHANGED tx \/ tx' = NoTx

(* A step that leaves the goroutines and the states of the runs alone, and *)
(* opens no transaction that creates a run.                                *)
Stays ==
    /\ UNCHANGED <<g, runs, stopping>>
    /\ UNCHANGED tx \/ tx'.kind # "create"

LEMMA GotoFields ==
    ASSUME g \in [Conns -> NamedGoroutine], NEW c \in Conns, NEW pc, Goto(c, pc)
    PROVE  /\ \A d \in Conns \ {c} : g'[d] = g[d]
           /\ g'[c].pc = pc
           /\ g'[c].run = g[c].run
           /\ g'[c].input = g[c].input
           /\ g'[c].promote = g[c].promote
<1>1. g[c] \in [pc : Pc, run : 0..MaxRun, input : 0..MaxInput, flavor : Flavor, promote : 0..MaxRow]
  BY DEF NamedGoroutine, Goroutine
<1>2. g' = [g EXCEPT ![c] = [g[c] EXCEPT !.pc = pc]]
  BY DEF Goto
<1> QED BY <1>1, <1>2

LEMMA DropFields ==
    ASSUME g \in [Conns -> NamedGoroutine], NEW c \in Conns, NEW pc, NEW r, Drop(c, pc, r)
    PROVE  /\ \A d \in Conns \ {c} : g'[d] = g[d]
           /\ g'[c].pc = pc
           /\ g'[c].run = r
           /\ g'[c].promote = 0
<1>1. Idle \in Goroutine /\ Idle.promote = 0
  BY Null DEF NamedGoroutine, Idle
<1>2. g' = [g EXCEPT ![c] = [Idle EXCEPT !.pc = pc, !.run = r]]
  BY DEF Drop
<1> QED BY <1>1, <1>2 DEF Goroutine

LEMMA NoTxKind == NoTx.kind = "none"
  BY DEF NoTx

LEMMA MovesEngine ==
    ASSUME EngineInv, NEW c \in Conns, Moves(c)
    PROVE  /\ OneEngine' /\ CreatesAlone' /\ HoldingActive' /\ RunsDistinct' /\ RunsKnown'
<1> USE DEF EngineInv
<1>1. \A d \in Conns : Holding(d)' => Holding(d) /\ g'[d].run = g[d].run
  BY DEF Moves, Holding
<1>2. OneEngine'
  BY <1>1 DEF OneEngine, Moves
<1>3. CreatesAlone'
  BY <1>1, NoTxKind DEF CreatesAlone, Moves
<1>4. RunsDistinct'
  BY DEF RunsDistinct, Moves
<1>5. RunsKnown'
  <2>1. ASSUME NEW d \in Conns, g'[d].run # 0 PROVE runs'[g'[d].run] # "none"
    <3>1. CASE d = c
      BY <2>1, <3>1 DEF Moves
    <3>2. CASE d # c
      <4>1. g'[d].run = g[d].run /\ g[d].run # g[c].run
        BY <2>1, <3>2 DEF Moves, RunsDistinct
      <4>2. g[d].run \in RunId
        BY <2>1, <4>1, GoroutineFields, Bounds DEF Typing, RunId
      <4> QED BY <2>1, <4>1, <4>2 DEF Moves, RunsKnown
    <3> QED BY <3>1, <3>2
  <2> QED BY <2>1 DEF RunsKnown
<1>6. HoldingActive'
  <2>1. ASSUME ~stopping', NEW d \in Conns, Holding(d)' PROVE Active(g[d].run)'
    <3>1. Active(g[d].run) /\ g'[d].run = g[d].run /\ g[d].run \in RunId
      BY <1>1, <2>1, GoroutineFields DEF HoldingActive, Moves, Typing, Holding, WithRun
    <3>2. CASE d = c
      BY <2>1, <3>1, <3>2 DEF Moves, Active
    <3>3. CASE d # c
      <4>1. g[d].run # g[c].run
        BY <3>1, <3>3, Bounds DEF RunsDistinct, RunId
      <4> QED BY <3>1, <4>1 DEF Moves, Active
    <3> QED BY <3>2, <3>3
  <2> QED BY <2>1 DEF HoldingActive
<1> QED BY <1>2, <1>3, <1>4, <1>5, <1>6

LEMMA StaysEngine ==
    ASSUME EngineInv, Stays
    PROVE  /\ OneEngine' /\ CreatesAlone' /\ HoldingActive' /\ RunsDistinct' /\ RunsKnown'
<1> USE DEF EngineInv, Stays
<1>1. OneEngine' /\ HoldingActive'
  BY DEF OneEngine, HoldingActive, Holding, Active
<1>2. CreatesAlone'
  BY DEF CreatesAlone, Holding
<1>3. RunsDistinct' /\ RunsKnown'
  BY DEF RunsDistinct, RunsKnown
<1> QED BY <1>1, <1>2, <1>3


LEMMA GoroutineMoves ==
    ASSUME EngineInv, NEW c \in Conns,
           \/ \E f \in Flavors : Submit(c, f)
           \/ \E i \in RowId : QueueSendRun(c, i)
           \/ CreateAdmits(c) \/ CreateRollback(c) \/ Register(c)
           \/ AskClient(c) \/ ClientAnswers(c) \/ EndLoop(c)
           \/ Conclude(c) \/ DoneNotWritten(c) \/ PrepareFails(c)
           \/ \E st \in TerminalState : Fail(c, st)
    PROVE  Moves(c)
<1> USE GoroutineFields DEF EngineInv, Typing, Moves, Holding, dbVars, memVars, envVars

<1>1. ASSUME NEW f \in Flavors, Submit(c, f) PROVE Moves(c)
  <2>1. (\A d \in Conns \ {c} : g'[d] = g[d]) /\ g'[c].pc = "prepare" /\ g'[c].run = 0
    BY <1>1 DEF Submit, StartGoroutine
  <2> QED BY <1>1, <2>1 DEF Submit, EnginePc, At, Active, RunsKnown, NoTx, StartGoroutine

<1>2. ASSUME NEW i \in RowId, QueueSendRun(c, i) PROVE Moves(c)
  <2>1. (\A d \in Conns \ {c} : g'[d] = g[d]) /\ g'[c].pc = "prepare" /\ g'[c].run = 0
    BY <1>2 DEF QueueSendRun, StartGoroutine
  <2> QED BY <1>2, <2>1 DEF QueueSendRun, EnginePc, At, Active, RunsKnown, NoTx, StartGoroutine

<1>3. ASSUME CreateAdmits(c) PROVE Moves(c)
  <2>1. (\A d \in Conns \ {c} : g'[d] = g[d]) /\ g'[c].pc = "done" /\ g'[c].run = 0
    BY <1>3, DropFields DEF CreateAdmits
  <2> QED BY <1>3, <2>1 DEF CreateAdmits, EnginePc, At, Active, RunsKnown, NoTx

<1>4. ASSUME CreateRollback(c) PROVE Moves(c)
  <2>1. (\A d \in Conns \ {c} : g'[d] = g[d]) /\ g'[c].pc = "done" /\ g'[c].run = 0
    BY <1>4, DropFields DEF CreateRollback
  <2> QED BY <1>4, <2>1 DEF CreateRollback, EnginePc, At, Active, RunsKnown, NoTx

<1>5. ASSUME PrepareFails(c) PROVE Moves(c)
  <2>1. (\A d \in Conns \ {c} : g'[d] = g[d]) /\ g'[c].pc = "done" /\ g'[c].run = 0
    BY <1>5, DropFields DEF PrepareFails
  <2> QED BY <1>5, <2>1 DEF PrepareFails, EnginePc, At, Active, RunsKnown, NoTx

<1>6. ASSUME NothingToDrain(c) PROVE Moves(c)
  <2>1. (\A d \in Conns \ {c} : g'[d] = g[d]) /\ g'[c].pc = "release" /\ g'[c].run = g[c].run
    BY <1>6, DropFields DEF NothingToDrain
  <2> QED BY <1>6, <2>1 DEF NothingToDrain, EnginePc, At, Active, RunsKnown, NoTx

<1>7. ASSUME AbortSettle(c) PROVE Moves(c)
  <2>1. (\A d \in Conns \ {c} : g'[d] = g[d]) /\ g'[c].pc = "release" /\ g'[c].run = g[c].run
    BY <1>7, DropFields DEF AbortSettle
  <2> QED BY <1>7, <2>1 DEF AbortSettle, EnginePc, At, Active, RunsKnown, NoTx

<1>8. ASSUME Register(c) PROVE Moves(c)
  <2>1. (\A d \in Conns \ {c} : g'[d] = g[d]) /\ g'[c].pc = "loop" /\ g'[c].run = g[c].run
    BY <1>8, GotoFields DEF Register
  <2> QED BY <1>8, <2>1 DEF Register, EnginePc, At, Active, RunsKnown, NoTx

<1>9. ASSUME FinalAnswer(c) PROVE Moves(c)
  <2>1. (\A d \in Conns \ {c} : g'[d] = g[d]) /\ g'[c].pc = "ending" /\ g'[c].run = g[c].run
    BY <1>9, GotoFields DEF FinalAnswer
  <2> QED BY <1>9, <2>1 DEF FinalAnswer, EnginePc, At, Active, RunsKnown, NoTx

<1>10. ASSUME Exhausted(c) PROVE Moves(c)
  <2>1. (\A d \in Conns \ {c} : g'[d] = g[d]) /\ g'[c].pc = "ending" /\ g'[c].run = g[c].run
    BY <1>10, GotoFields DEF Exhausted
  <2> QED BY <1>10, <2>1 DEF Exhausted, EnginePc, At, Active, RunsKnown, NoTx

<1>11. ASSUME Settle(c) PROVE Moves(c)
  <2>1. (\A d \in Conns \ {c} : g'[d] = g[d]) /\ g'[c].pc = "settled" /\ g'[c].run = g[c].run
    BY <1>11, GotoFields DEF Settle
  <2> QED BY <1>11, <2>1 DEF Settle, EnginePc, At, Active, RunsKnown, NoTx

<1>12. ASSUME AskClient(c) PROVE Moves(c)
  <2>1. (\A d \in Conns \ {c} : g'[d] = g[d]) /\ g'[c].pc = "wait" /\ g'[c].run = g[c].run
    BY <1>12, GotoFields DEF AskClient
  <2>2. g[c].run \in RunId /\ At(c, "loop")
    BY <1>12 DEF AskClient, At, WithRun, EnginePc
  <2>3. \A q \in RunId : runs'[q] = IF q = g[c].run THEN "waiting" ELSE runs[q]
    BY <1>12, <2>2, SetStateEffect DEF AskClient, RunState, ActiveState, TerminalState
  <2> QED BY <1>12, <2>1, <2>2, <2>3 DEF AskClient, EnginePc, At, Active, ActiveState

<1>13. ASSUME ClientAnswers(c) PROVE Moves(c)
  <2>1. (\A d \in Conns \ {c} : g'[d] = g[d]) /\ g'[c].pc = "loop" /\ g'[c].run = g[c].run
    BY <1>13, GotoFields DEF ClientAnswers
  <2>2. g[c].run \in RunId /\ At(c, "wait")
    BY <1>13 DEF ClientAnswers, At, WithRun, EnginePc
  <2>3. \A q \in RunId : runs'[q] = IF q = g[c].run THEN "running" ELSE runs[q]
    BY <1>13, <2>2, SetStateEffect DEF ClientAnswers, RunState, ActiveState, TerminalState
  <2> QED BY <1>13, <2>1, <2>2, <2>3 DEF ClientAnswers, EnginePc, At, Active, ActiveState

<1>14. ASSUME Finish(c) PROVE Moves(c)
  <2>1. (\A d \in Conns \ {c} : g'[d] = g[d]) /\ g'[c].pc = "settle" /\ g'[c].run = g[c].run
    BY <1>14, GotoFields DEF Finish
  <2>2. g[c].run \in RunId /\ At(c, "ending")
    BY <1>14 DEF Finish, At, WithRun, EnginePc
  <2>3. \A q \in RunId : runs'[q] = IF q = g[c].run THEN "finished" ELSE runs[q]
    BY <1>14, <2>2, SetStateEffect DEF Finish, RunState, ActiveState, TerminalState
  <2> QED BY <1>14, <2>1, <2>2, <2>3 DEF Finish, EnginePc, At, Active, ActiveState

<1>15. ASSUME DoneNotWritten(c) PROVE Moves(c)
  <2>1. (\A d \in Conns \ {c} : g'[d] = g[d]) /\ g'[c].pc = "abort" /\ g'[c].run = g[c].run
    BY <1>15, GotoFields DEF DoneNotWritten
  <2>2. g[c].run \in RunId /\ At(c, "settled")
    BY <1>15 DEF DoneNotWritten, At, WithRun, EnginePc
  <2>3. \A q \in RunId : runs'[q] = IF q = g[c].run THEN "error" ELSE runs[q]
    BY <1>15, <2>2, SetStateEffect DEF DoneNotWritten, RunState, ActiveState, TerminalState
  <2> QED BY <1>15, <2>1, <2>2, <2>3 DEF DoneNotWritten, EnginePc, At, Active, ActiveState

<1>16. ASSUME NEW st \in TerminalState, Fail(c, st) PROVE Moves(c)
  <2>1. (\A d \in Conns \ {c} : g'[d] = g[d]) /\ g'[c].pc = "abort" /\ g'[c].run = g[c].run
    BY <1>16, GotoFields DEF Fail
  <2>2. g[c].run \in RunId
    BY <1>16 DEF Fail, WithRun
  <2>3. st # "none" /\ \A q \in RunId : runs'[q] = IF q = g[c].run THEN st ELSE runs[q]
    BY <1>16, <2>2, SetStateEffect DEF Fail, RunState, ActiveState, TerminalState
  <2> QED BY <1>16, <2>1, <2>2, <2>3 DEF Fail, EnginePc, At, Active, ActiveState

<1>17. ASSUME DrainHead(c) PROVE Moves(c)
  <2>1. (\A d \in Conns \ {c} : g'[d] = g[d]) /\ g'[c].pc = "release" /\ g'[c].run = g[c].run
    BY <1>17 DEF DrainHead, Idle
  <2> QED BY <1>17, <2>1 DEF DrainHead, EnginePc, RunsKnown

<1>18. ASSUME Reap(c) PROVE Moves(c)
  <2>1. (\A d \in Conns \ {c} : g'[d] = g[d]) /\ g'[c].pc = "idle" /\ g'[c].run = 0
    BY <1>18 DEF Reap, Idle
  <2> QED BY <1>18, <2>1 DEF Reap, EnginePc, RunsKnown

<1>19. ASSUME Release(c) PROVE Moves(c)
  <2>1. g[c] \in Goroutine
    BY DEF NamedGoroutine
  <2>2. /\ \A d \in Conns \ {c} : g'[d] = g[d]
        /\ g'[c].pc \in {"prepare", "done"} /\ g'[c].run = 0
    BY <1>19, <2>1 DEF Release, Goroutine
  <2> QED BY <1>19, <2>2 DEF Release, EnginePc

<1> QED
  BY <1>1, <1>2, <1>3, <1>4, <1>5, <1>6, <1>7, <1>8, <1>9, <1>10, <1>11, <1>12, <1>13, <1>14, <1>15, <1>16, <1>17, <1>18, <1>19 DEF EndLoop, Conclude


LEMMA InjectBeginKind ==
    ASSUME NEW c \in Conns, NEW i \in RowId, InjectBegin(c, i) PROVE tx'.kind = "inject"
<1>1. PICK t \in 0..MaxRun :
          tx' = [NoTx EXCEPT !.kind = "inject", !.conn = c, !.target = t,
                             !.verdict = InjectVerdict(t), !.row = i]
  BY DEF InjectBegin
<1>2. NoTx \in Tx
  BY Null DEF NamedTx
<1> QED BY <1>1, <1>2 DEF Tx

LEMMA TableStays ==
    ASSUME EngineInv,
           \/ \E c \in Conns : \/ \E f \in Flavors : SteerBegin(c, f)
                               \/ \E i \in RowId : InjectBegin(c, i)
                               \/ DrainGuide(c) \/ EnterSoftLanding(c) \/ Delegate(c)
           \/ Commit
           \/ \E r \in RunId : ChildEnds(r) \/ CancelBegin(r)
           \/ Manage
           \/ UNCHANGED vars
    PROVE  Stays
<1> USE DEF Stays, dbVars, memVars, envVars
<1>1. ASSUME NEW c \in Conns, NEW f \in Flavors, SteerBegin(c, f) PROVE Stays
  BY <1>1 DEF SteerBegin
<1>2. ASSUME NEW c \in Conns, NEW i \in RowId, InjectBegin(c, i) PROVE Stays
  BY <1>2, InjectBeginKind DEF InjectBegin
<1>3. ASSUME Commit PROVE Stays
  BY <1>3, NoTxKind DEF Commit, SteerCommit, InjectCommit
<1>4. ASSUME NEW c \in Conns, DrainGuide(c) \/ EnterSoftLanding(c) \/ Delegate(c) PROVE Stays
  BY <1>4 DEF DrainGuide, EnterSoftLanding, Delegate
<1>5. ASSUME NEW r \in RunId, ChildEnds(r) \/ CancelBegin(r) PROVE Stays
  BY <1>5 DEF ChildEnds, CancelBegin
<1>6. ASSUME Manage PROVE Stays
  BY <1>6 DEF Manage, DeleteQueued, Reorder
<1>7. ASSUME UNCHANGED vars PROVE Stays
  BY <1>7 DEF vars
<1> QED BY <1>1, <1>2, <1>3, <1>4, <1>5, <1>6, <1>7

-----------------------------------------------------------------------------
(* The transaction that creates a run *)

LEMMA CreateBeginEngine ==
    ASSUME EngineInv, NEW c \in Conns, CreateBegin(c)
    PROVE  /\ OneEngine' /\ CreatesAlone' /\ HoldingActive' /\ RunsDistinct' /\ RunsKnown'
<1> USE DEF EngineInv
<1>1. /\ \A d \in Conns \ {c} : g'[d] = g[d]
      /\ g'[c].pc = "create" /\ g'[c].run = g[c].run
  BY GotoFields DEF CreateBegin, Typing
<1>2. UNCHANGED <<runs, stopping>> /\ At(c, "prepare")
  BY DEF CreateBegin, dbVars, envVars
<1>3. \A d \in Conns : (Holding(d)' <=> Holding(d)) /\ g'[d].run = g[d].run
  BY <1>1, <1>2 DEF Holding, At, EnginePc
<1>4. OneEngine' /\ RunsDistinct' /\ RunsKnown'
  BY <1>2, <1>3 DEF OneEngine, RunsDistinct, RunsKnown
<1>5. HoldingActive'
  BY <1>2, <1>3 DEF HoldingActive, Active
<1>6. CreatesAlone'
  <2>1. PICK t \in 0..MaxRun, s \in Seqs :
          /\ IsActiveOuter(t)
          /\ tx' = [kind |-> "create", conn |-> c, target |-> t,
                    verdict |-> CreateVerdict(t, g[c].flavor), seq |-> s,
                    input |-> g[c].input, flavor |-> g[c].flavor, row |-> g[c].promote]
    BY DEF CreateBegin
  <2>2. ASSUME tx'.verdict = "create" PROVE t = 0
    BY <2>1, <2>2 DEF CreateVerdict, Admission
  <2>3. ASSUME t = 0, NEW d \in Conns, Holding(d), ~stopping PROVE FALSE
    <3>1. g[d].run \in RunId /\ Active(g[d].run)
      BY <2>3, GoroutineFields DEF HoldingActive, Typing, Holding, WithRun
    <3> QED BY <2>1, <2>3, <3>1, Bounds DEF IsActiveOuter, RunId
  <2> QED BY <1>2, <1>3, <2>2, <2>3 DEF CreatesAlone
<1> QED BY <1>4, <1>5, <1>6

LEMMA CreateRunEngine ==
    ASSUME EngineInv, NEW c \in Conns, CreateRun(c)
    PROVE  /\ OneEngine' /\ CreatesAlone' /\ HoldingActive' /\ RunsDistinct' /\ RunsKnown'
<1> USE DEF EngineInv
<1>1. PICK r \in RunId : /\ IsNextRun(r)
                         /\ runs' = [runs EXCEPT ![r] = "running"]
                         /\ Drop(c, "created", r)
  BY DEF CreateRun
<1>2. /\ \A d \in Conns \ {c} : g'[d] = g[d]
      /\ g'[c].pc = "created" /\ g'[c].run = r
  BY <1>1, DropFields DEF Typing
<1>3. /\ tx.kind = "create" /\ tx.verdict = "create" /\ tx' = NoTx
      /\ UNCHANGED stopping
  BY DEF CreateRun, Typing, TxOwner, envVars
<1>4. ~stopping => \A d \in Conns : ~Holding(d)
  BY <1>3 DEF CreatesAlone
<1>5. \A d \in Conns \ {c} : ~stopping' => ~Holding(d)'
  BY <1>2, <1>3, <1>4 DEF Holding
<1>6. /\ runs'[r] = "running"
      /\ \A q \in RunId : q # r => runs'[q] = runs[q]
      /\ runs[r] = "none"
      /\ r # 0
  BY <1>1, Bounds DEF Typing, IsNextRun, RunId
<1>7. OneEngine'
  BY <1>5 DEF OneEngine
<1>8. HoldingActive'
  BY <1>2, <1>5, <1>6 DEF HoldingActive, Active, ActiveState
<1>9. CreatesAlone'
  BY <1>3, NoTxKind DEF CreatesAlone
<1>10. \A d \in Conns \ {c} : g[d].run # r /\ g[d].run \in 0..MaxRun
  BY <1>6, GoroutineFields DEF RunsKnown, Typing
<1>11. RunsDistinct'
  BY <1>2, <1>10 DEF RunsDistinct
<1>12. RunsKnown'
  BY <1>2, <1>6, <1>10, Bounds DEF RunsKnown, RunId
<1> QED BY <1>7, <1>8, <1>9, <1>11, <1>12

-----------------------------------------------------------------------------
(* The user's cancel and the process *)

LEMMA CancelWriteEngine ==
    ASSUME EngineInv, NEW r \in RunId, CancelWrite(r)
    PROVE  /\ OneEngine' /\ CreatesAlone' /\ HoldingActive' /\ RunsDistinct' /\ RunsKnown'
<1> USE DEF EngineInv
<1>1. UNCHANGED <<g, tx, stopping>>
  BY DEF CancelWrite, envVars
<1>2. \A q \in RunId : runs'[q] = IF q = r THEN "cancelling" ELSE runs[q]
  BY SetStateEffect DEF CancelWrite, Typing, RunState, ActiveState
<1>3. OneEngine' /\ CreatesAlone' /\ RunsDistinct'
  BY <1>1 DEF OneEngine, CreatesAlone, RunsDistinct, Holding
<1>4. HoldingActive'
  <2>1. ASSUME NEW d \in Conns, Holding(d) PROVE g[d].run \in RunId
    BY <2>1, GoroutineFields DEF Typing, Holding, WithRun
  <2> QED BY <1>1, <1>2, <2>1 DEF HoldingActive, Holding, Active, ActiveState
<1>5. RunsKnown'
  <2>1. ASSUME NEW d \in Conns, g[d].run # 0 PROVE g[d].run \in RunId
    BY <2>1, GoroutineFields, Bounds DEF Typing, RunId
  <2> QED BY <1>1, <1>2, <2>1 DEF RunsKnown
<1> QED BY <1>3, <1>4, <1>5

LEMMA ShutdownEngine ==
    ASSUME EngineInv, ShutdownHook
    PROVE  /\ OneEngine' /\ CreatesAlone' /\ HoldingActive' /\ RunsDistinct' /\ RunsKnown'
<1> USE DEF EngineInv
<1>1. stopping' /\ UNCHANGED g /\ runs' = Expired(registry)
  BY DEF ShutdownHook
<1>2. OneEngine' /\ CreatesAlone' /\ HoldingActive' /\ RunsDistinct'
  BY <1>1 DEF OneEngine, CreatesAlone, HoldingActive, RunsDistinct
<1>3. RunsKnown'
  <2>1. ASSUME NEW d \in Conns, g[d].run # 0 PROVE g[d].run \in RunId
    BY <2>1, GoroutineFields, Bounds DEF Typing, RunId
  <2> QED BY <1>1, <2>1 DEF RunsKnown, Expired
<1> QED BY <1>2, <1>3

LEMMA RestartEngine ==
    ASSUME EngineInv, Restart
    PROVE  /\ OneEngine' /\ CreatesAlone' /\ HoldingActive' /\ RunsDistinct' /\ RunsKnown'
<1>1. \A c \in Conns : g'[c].pc = "idle" /\ g'[c].run = 0
  BY DEF Restart, Idle
<1>2. tx'.kind = "none"
  BY NoTxKind DEF Restart
<1>3. \A c \in Conns : ~Holding(c)'
  BY <1>1 DEF Holding, EnginePc
<1> QED BY <1>1, <1>2, <1>3 DEF OneEngine, CreatesAlone, HoldingActive, RunsDistinct, RunsKnown

-----------------------------------------------------------------------------
LEMMA EngineInit == Init => EngineInv
<1> SUFFICES ASSUME Init PROVE EngineInv
  OBVIOUS
<1>1. \A c \in Conns : ~Holding(c) /\ g[c].run = 0
  BY DEF Init, Holding, EnginePc, Idle
<1>2. tx.kind = "none"
  BY NoTxKind DEF Init
<1>3. Typing
  BY TypingInit
<1> QED BY <1>1, <1>2, <1>3 DEF EngineInv, OneEngine, CreatesAlone, HoldingActive,
                                RunsDistinct, RunsKnown

(* What kinds of steps there are for the engines.                          *)
LEMMA StepKinds ==
    ASSUME EngineInv, [Next]_vars
    PROVE  \/ \E c \in Conns : Moves(c) \/ CreateBegin(c) \/ CreateRun(c)
           \/ Stays \/ (\E r \in RunId : CancelWrite(r)) \/ ShutdownHook \/ Restart
<1>1. ASSUME NEW c \in Conns, Client(c) PROVE Moves(c) \/ Stays
  BY <1>1, GoroutineMoves, TableStays DEF Client
<1>2. ASSUME NEW c \in Conns, Start(c) PROVE Moves(c) \/ CreateBegin(c) \/ CreateRun(c)
  BY <1>2, GoroutineMoves DEF Start
<1>3. ASSUME NEW c \in Conns, Engine(c) PROVE Moves(c) \/ Stays
  BY <1>3, GoroutineMoves, TableStays DEF Engine
<1>4. ASSUME NEW c \in Conns, Conclude(c) PROVE Moves(c)
  BY <1>4, GoroutineMoves
<1>5. ASSUME NEW c \in Conns, Failure(c) PROVE Moves(c)
  <2>1. "error" \in TerminalState /\ "timeout" \in TerminalState
    BY DEF TerminalState
  <2> QED BY <1>5, <2>1, GoroutineMoves DEF Failure
<1>6. ASSUME UserCancel
      PROVE  Stays \/ (\E c \in Conns : Moves(c)) \/ (\E r \in RunId : CancelWrite(r))
  <2>1. "cancelled" \in TerminalState
    BY DEF TerminalState
  <2> QED BY <1>6, <2>1, GoroutineMoves, TableStays DEF UserCancel
<1>7. ASSUME Commit \/ (\E r \in RunId : ChildEnds(r)) \/ Manage \/ UNCHANGED vars PROVE Stays
  BY <1>7, TableStays
<1>8. ASSUME Process PROVE ShutdownHook \/ Restart
  BY <1>8 DEF Process
<1> QED BY <1>1, <1>2, <1>3, <1>4, <1>5, <1>6, <1>7, <1>8 DEF Next

LEMMA EngineStep == EngineInv /\ [Next]_vars => EngineInv'
<1> SUFFICES ASSUME EngineInv, [Next]_vars
             PROVE  /\ OneEngine' /\ CreatesAlone' /\ HoldingActive'
                    /\ RunsDistinct' /\ RunsKnown'
  BY TypingStep DEF EngineInv
<1> QED
  BY StepKinds, MovesEngine, StaysEngine, CreateBeginEngine, CreateRunEngine, CancelWriteEngine,
     ShutdownEngine, RestartEngine

(* Only a creation makes a goroutine hold a run.                           *)
LEMMA HoldingKept ==
    ASSUME EngineInv, [Next]_vars, NEW d \in Conns, Holding(d)', \A c \in Conns : ~CreateRun(c)
    PROVE  Holding(d) /\ g'[d].run = g[d].run
<1>1. ASSUME NEW c \in Conns, Moves(c) PROVE Holding(d) /\ g'[d].run = g[d].run
  BY <1>1 DEF Moves, Holding
<1>2. ASSUME NEW c \in Conns, CreateBegin(c) PROVE Holding(d) /\ g'[d].run = g[d].run
  <2>1. (\A e \in Conns \ {c} : g'[e] = g[e]) /\ g'[c].pc = "create"
    BY <1>2, GotoFields DEF CreateBegin, EngineInv, Typing
  <2> QED BY <2>1 DEF Holding, EnginePc
<1>3. ASSUME UNCHANGED g PROVE Holding(d) /\ g'[d].run = g[d].run
  BY <1>3 DEF Holding
<1>4. ~Restart
  BY DEF Restart, Holding, EnginePc, Idle
<1> QED BY <1>1, <1>2, <1>3, <1>4, StepKinds DEF Stays, CancelWrite, ShutdownHook

(* At most one engine works on the session, however many connections       *)
(* serve it and whatever cancels, failures, restarts and background runs   *)
(* come between the check of createReactRunContext and the end of a run.   *)
THEOREM OneEngineHolds == Spec => []OneEngine
<1>1. Init => EngineInv
  BY EngineInit
<1>2. EngineInv /\ [Next]_vars => EngineInv'
  BY EngineStep
<1>3. EngineInv => OneEngine
  BY DEF EngineInv
<1> QED BY <1>1, <1>2, <1>3, PTL DEF Spec

-----------------------------------------------------------------------------
(* Only the boundary of an engine and the creation of a run add a message. *)
LEMMA MessageWriters ==
    ASSUME [Next]_vars, messages' # messages
    PROVE  \E c \in Conns : DrainGuide(c) \/ CreateRun(c)
<1> USE DEF dbVars, memVars, envVars
<1>1. ASSUME NEW c \in Conns, Client(c) PROVE UNCHANGED messages
  BY <1>1 DEF Client, Submit, SteerBegin, InjectBegin, QueueSendRun
<1>2. ASSUME NEW c \in Conns, Start(c) PROVE CreateRun(c) \/ UNCHANGED messages
  BY <1>2 DEF Start, CreateBegin, CreateAdmits, CreateRollback, Register
<1>3. ASSUME NEW c \in Conns, Engine(c) PROVE DrainGuide(c) \/ UNCHANGED messages
  BY <1>3 DEF Engine, EndLoop, FinalAnswer, Exhausted, EnterSoftLanding, AskClient,
              ClientAnswers, Delegate
<1>4. ASSUME NEW c \in Conns, Conclude(c) \/ Failure(c) PROVE UNCHANGED messages
  BY <1>4 DEF Conclude, Finish, Settle, DrainHead, NothingToDrain, AbortSettle, Release,
              Reap, Failure, Fail, PrepareFails, DoneNotWritten
<1>5. ASSUME \/ Commit \/ UserCancel \/ Manage \/ Process \/ UNCHANGED vars
             \/ \E r \in RunId : ChildEnds(r)
      PROVE UNCHANGED messages
  BY <1>5 DEF Commit, SteerCommit, InjectCommit, UserCancel, CancelBegin, CancelWrite, Fail,
              Manage, DeleteQueued, Reorder, Process, ShutdownHook, Restart, ChildEnds, vars
<1> QED BY <1>1, <1>2, <1>3, <1>4, <1>5 DEF Next

(* No message is added to a run that is over.                              *)
THEOREM NoMessageAfterEndHolds == Spec => NoMessageAfterEnd
<1> DEFINE Live == (messages' # messages /\ ~stopping) =>
                       runs'[messages'[Len(messages')].run] \in ActiveState
<1>1. ASSUME EngineInv, [Next]_vars PROVE [Live]_vars
  <2> SUFFICES ASSUME messages' # messages, ~stopping
               PROVE  runs'[messages'[Len(messages')].run] \in ActiveState
    OBVIOUS
  <2>1. PICK c \in Conns : DrainGuide(c) \/ CreateRun(c)
    BY <1>1, MessageWriters
  <2>2. ASSUME NEW m, messages' = Append(messages, m) PROVE messages'[Len(messages')] = m
    BY <1>1, <2>2 DEF EngineInv, Typing
  <2>3. CASE DrainGuide(c)
    <3>1. PICK i \in RowId :
            messages' = Append(messages, [input |-> ledger[i].input, row |-> i, run |-> g[c].run])
      BY <2>3 DEF DrainGuide
    <3>2. messages'[Len(messages')].run = g[c].run
      BY <2>2, <3>1
    <3>3. UNCHANGED runs /\ Active(g[c].run)
      BY <1>1, <2>3 DEF DrainGuide, EngineInv, HoldingActive, Holding, At, EnginePc
    <3> QED BY <3>2, <3>3 DEF Active
  <2>4. CASE CreateRun(c)
    <3>1. PICK r \in RunId :
            /\ runs' = [runs EXCEPT ![r] = "running"]
            /\ messages' = Append(messages, [input |-> tx.input, row |-> tx.row, run |-> r])
      BY <2>4 DEF CreateRun
    <3>2. messages'[Len(messages')].run = r
      BY <2>2, <3>1
    <3>3. runs'[r] = "running"
      BY <1>1, <3>1 DEF EngineInv, Typing
    <3> QED BY <3>2, <3>3 DEF ActiveState
  <2> QED BY <2>1, <2>3, <2>4
<1>2. Spec => []EngineInv
  BY EngineInit, EngineStep, PTL DEF Spec
<1> QED BY <1>1, <1>2, PTL DEF Spec, NoMessageAfterEnd

-----------------------------------------------------------------------------
(* One active run.  A cancel writes over a run that ended, and the hook    *)
(* ends a run whose engine goes on to write its state; without the two,    *)
(* only a creation makes a run active.                                     *)
NoLateWrites == "cancel" \notin Ops /\ "shutdown" \notin Ops

ActiveInv ==
    /\ OneActiveRun
    /\ (tx.kind = "create" /\ tx.verdict = "create") => \A r \in RunId : ~Active(r)
    /\ ~stopping

NoneRises == \A r \in RunId : Active(r)' => Active(r)
Subsides ==
    /\ NoneRises
    /\ UNCHANGED tx \/ tx'.kind # "create"
    /\ stopping' => stopping

LEMMA StateRises ==
    ASSUME EngineInv, ~stopping, NEW c \in Conns, NEW st \in RunState, SetState(g[c].run, st),
           g[c].pc \in WithRun, st \in TerminalState \/ Holding(c)
    PROVE  NoneRises
<1>1. g[c].run \in RunId
  BY GoroutineFields DEF EngineInv, Typing
<1>2. \A q \in RunId : runs'[q] = IF q = g[c].run THEN st ELSE runs[q]
  BY <1>1, SetStateEffect DEF EngineInv, Typing
<1>3. CASE st \in TerminalState
  BY <1>2, <1>3 DEF NoneRises, Active, TerminalState, ActiveState
<1>4. CASE Holding(c)
  BY <1>2, <1>4 DEF NoneRises, Active, EngineInv, HoldingActive
<1> QED BY <1>3, <1>4

LEMMA StepSubsides ==
    ASSUME EngineInv, ~stopping, NoLateWrites, [Next]_vars
    PROVE  Subsides \/ \E c \in Conns : CreateBegin(c) \/ CreateRun(c)
<1> USE DEF Subsides, dbVars, memVars, envVars
<1>1. UNCHANGED runs => NoneRises
  BY DEF NoneRises, Active
<1>2. {"finished", "error", "timeout", "cancelled", "waiting", "running"} \subseteq RunState
      /\ {"finished", "error", "timeout", "cancelled"} \subseteq TerminalState
  BY DEF RunState, TerminalState, ActiveState
<1>3. ASSUME NEW c \in Conns, Client(c) PROVE Subsides
  <2>1. ASSUME NEW i \in RowId, InjectBegin(c, i) PROVE Subsides
    BY <1>1, <2>1, InjectBeginKind DEF InjectBegin
  <2>2. ASSUME NEW f \in Flavors, SteerBegin(c, f) PROVE Subsides
    BY <1>1, <2>2 DEF SteerBegin
  <2> QED BY <1>1, <1>3, <2>1, <2>2 DEF Client, Submit, QueueSendRun
<1>4. ASSUME NEW c \in Conns, Start(c) PROVE Subsides \/ CreateBegin(c) \/ CreateRun(c)
  BY <1>1, <1>4, NoTxKind DEF Start, CreateAdmits, CreateRollback, Register
<1>5. ASSUME NEW c \in Conns, Engine(c) PROVE Subsides
  <2>1. ASSUME AskClient(c) PROVE NoneRises
    BY <1>2, <2>1, StateRises DEF AskClient, At, WithRun, EnginePc, Holding
  <2>2. ASSUME ClientAnswers(c) PROVE NoneRises
    BY <1>2, <2>2, StateRises DEF ClientAnswers, At, WithRun, EnginePc, Holding
  <2> QED BY <1>1, <1>5, <2>1, <2>2 DEF Engine, DrainGuide, EndLoop, FinalAnswer, Exhausted,
             EnterSoftLanding, AskClient, ClientAnswers, Delegate
<1>6. ASSUME NEW c \in Conns, Conclude(c) PROVE Subsides
  <2>1. ASSUME Finish(c) PROVE NoneRises
    BY <1>2, <2>1, StateRises DEF Finish, At, WithRun, EnginePc
  <2> QED BY <1>1, <1>6, <2>1 DEF Conclude, Finish, Settle, DrainHead, NothingToDrain,
             AbortSettle, Release, Reap
<1>7. ASSUME NEW c \in Conns, Failure(c) PROVE Subsides
  <2>1. ASSUME NEW st \in {"error", "timeout"}, Fail(c, st) PROVE NoneRises
    BY <1>2, <2>1, StateRises DEF Fail, WithRun
  <2>2. ASSUME DoneNotWritten(c) PROVE NoneRises
    BY <1>2, <2>2, StateRises DEF DoneNotWritten, At, WithRun
  <2> QED BY <1>1, <1>7, <2>1, <2>2 DEF Failure, Fail, PrepareFails, DoneNotWritten
<1>8. ASSUME Commit \/ UNCHANGED vars \/ Manage \/ \E r \in RunId : ChildEnds(r) PROVE Subsides
  BY <1>1, <1>8, NoTxKind DEF Commit, SteerCommit, InjectCommit, vars, Manage, DeleteQueued,
     Reorder, ChildEnds
<1>9. ASSUME Process PROVE Subsides
  <2>1. Restart
    BY <1>9 DEF Process, Can, NoLateWrites
  <2>2. PICK S \in SUBSET RunId : runs' = Expired(S)
    BY <2>1 DEF Restart
  <2>3. NoneRises
    BY <2>2 DEF NoneRises, Expired, Active, ActiveState
  <2> QED BY <2>1, <2>3, NoTxKind DEF Restart
<1>10. ~UserCancel
  BY DEF UserCancel, Can, NoLateWrites
<1> QED BY <1>3, <1>4, <1>5, <1>6, <1>7, <1>8, <1>9, <1>10 DEF Next

LEMMA ActiveStep ==
    ASSUME EngineInv, ActiveInv, NoLateWrites, [Next]_vars PROVE ActiveInv'
<1>1. CASE Subsides
  BY <1>1 DEF ActiveInv, Subsides, NoneRises, OneActiveRun
<1>2. ASSUME NEW c \in Conns, CreateBegin(c) PROVE ActiveInv'
  <2>1. PICK t \in 0..MaxRun, s \in Seqs :
          /\ IsActiveOuter(t)
          /\ tx' = [kind |-> "create", conn |-> c, target |-> t,
                    verdict |-> CreateVerdict(t, g[c].flavor), seq |-> s,
                    input |-> g[c].input, flavor |-> g[c].flavor, row |-> g[c].promote]
    BY <1>2 DEF CreateBegin
  <2>2. ASSUME tx'.verdict = "create" PROVE \A r \in RunId : ~Active(r)
    <3>1. t = 0
      BY <2>1, <2>2 DEF CreateVerdict, Admission
    <3> QED BY <2>1, <3>1, Bounds DEF IsActiveOuter, RunId
  <2>3. UNCHANGED <<runs, stopping>>
    BY <1>2 DEF CreateBegin, dbVars, envVars
  <2> QED BY <2>2, <2>3 DEF ActiveInv, OneActiveRun, Active
<1>3. ASSUME NEW c \in Conns, CreateRun(c) PROVE ActiveInv'
  <2>1. PICK r \in RunId : runs' = [runs EXCEPT ![r] = "running"]
    BY <1>3 DEF CreateRun
  <2>2. \A q \in RunId : ~Active(q)
    BY <1>3 DEF CreateRun, ActiveInv, EngineInv, Typing, TxOwner
  <2>3. \A q \in RunId : Active(q)' => q = r
    BY <2>1, <2>2 DEF Active, EngineInv, Typing
  <2>4. tx'.kind = "none" /\ UNCHANGED stopping
    BY <1>3, NoTxKind DEF CreateRun, envVars
  <2> QED BY <2>3, <2>4 DEF ActiveInv, OneActiveRun
<1> QED BY <1>1, <1>2, <1>3, StepSubsides DEF ActiveInv

LEMMA ActiveInit == Init => ActiveInv
<1> SUFFICES ASSUME Init PROVE ActiveInv
  OBVIOUS
<1>1. \A r \in RunId : ~Active(r)
  BY DEF Init, Active, ActiveState
<1> QED BY <1>1, NoTxKind DEF Init, ActiveInv, OneActiveRun

(* One session has one active outer run (runtime.go), whatever connections *)
(* serve it and whatever fails, restarts or waits, as long as no cancel    *)
(* and no shutdown hook writes over the state of a run.                    *)
THEOREM OneActiveRunHolds == ASSUME NoLateWrites PROVE Spec => []OneActiveRun
<1>1. Init => EngineInv /\ ActiveInv
  BY EngineInit, ActiveInit
<1>2. EngineInv /\ ActiveInv /\ [Next]_vars => (EngineInv /\ ActiveInv)'
  BY EngineStep, ActiveStep
<1>3. EngineInv /\ ActiveInv => OneActiveRun
  BY DEF ActiveInv
<1> QED BY <1>1, <1>2, <1>3, PTL DEF Spec
=============================================================================
