------------------------- MODULE ConversationProofs -------------------------
(***************************************************************************)
(* What the engine tells the model and the client: the verdicts of a round *)
(* of calls are true, the client sees the answer that is stored, no        *)
(* message of an old sub-run outlives its outer run and no token of one is *)
(* counted twice, the web client continues a run that was cut off once,    *)
(* and whoever wrote last to a chat is heard there.                        *)
(***************************************************************************)
EXTENDS Conversation, Delegation, ModelRound, WebClient, Gateway, SequenceTheorems, FiniteSetTheorems, WellFoundedInduction, TLAPS

-----------------------------------------------------------------------------
(* Induction over the natural numbers, in terms of a set: of the library's *)
(* theorems this takes WFMin, which has no operator as a parameter.        *)
LEMMA NatInducts ==
  ASSUME NEW S, 0 \in S, \A n \in Nat : n \in S => n + 1 \in S
  PROVE  Nat \subseteq S
<1>1. SUFFICES ASSUME Nat \ S # {} PROVE FALSE
  OBVIOUS
<1>2. PICK n \in Nat \ S : \A m \in Nat \ S : ~ (<<m, n>> \in OpToRel(<, Nat))
  <2>1. Nat \ S \subseteq Nat  OBVIOUS
  <2> QED BY <1>1, <2>1, NatLessThanWellFounded, WFMin
<1>3. \A m \in Nat \ S : ~ (m < n)
  BY <1>2 DEF OpToRel
<1>4. n # 0
  OBVIOUS
<1>5. n - 1 \in Nat /\ n - 1 < n
  BY <1>4
<1>6. n - 1 \in S
  BY <1>3, <1>5
<1> QED BY <1>5, <1>6

-----------------------------------------------------------------------------
(* Rows are appended to a table, or rewritten in place.                    *)
LEMMA AppendedRow ==
    ASSUME NEW s, s \in Seq(ToSet(s)), NEW e
    PROVE  /\ Append(s, e) \in Seq(ToSet(Append(s, e)))
           /\ Len(Append(s, e)) = Len(s) + 1
           /\ \A i \in 1..Len(s) : Append(s, e)[i] = s[i]
           /\ Append(s, e)[Len(s) + 1] = e
<1>1. s \in Seq(ToSet(s) \cup {e}) /\ e \in ToSet(s) \cup {e}
  OBVIOUS
<1>2. Append(s, e) \in Seq(ToSet(s) \cup {e}) /\ Len(Append(s, e)) = Len(s) + 1
  BY <1>1
<1> QED BY <1>1, <1>2 DEF ToSet

LEMMA RewrittenRows ==
    ASSUME NEW s, s \in Seq(ToSet(s)), NEW t, DOMAIN t = 1..Len(s), t = [i \in 1..Len(s) |-> t[i]]
    PROVE  t \in Seq(ToSet(t)) /\ Len(t) = Len(s)
  BY DEF ToSet

LEMMA OwnRange ==
    ASSUME NEW S, NEW s \in Seq(S)
    PROVE  s \in Seq(ToSet(s))
<1>1. Len(s) \in Nat /\ DOMAIN s = 1..Len(s) /\ s = [i \in 1..Len(s) |-> s[i]]
  OBVIOUS
<1>2. s \in [1..Len(s) -> ToSet(s)]
  BY <1>1 DEF ToSet
<1> QED BY <1>1, <1>2, SeqDef

LEMMA JoinedRows ==
    ASSUME NEW s, s \in Seq(ToSet(s)), NEW t, t \in Seq(ToSet(t))
    PROVE  /\ s \o t \in Seq(ToSet(s \o t)) /\ Len(s \o t) = Len(s) + Len(t)
           /\ \A i \in 1..Len(s) : (s \o t)[i] = s[i]
           /\ \A i \in 1..Len(t) : (s \o t)[Len(s) + i] = t[i]
<1>1. s \in Seq(ToSet(s) \cup ToSet(t)) /\ t \in Seq(ToSet(s) \cup ToSet(t))
  OBVIOUS
<1> DEFINE all == s \o t
<1>2. all \in Seq(ToSet(s) \cup ToSet(t)) /\ Len(all) = Len(s) + Len(t)
  BY <1>1
<1>3. /\ \A i \in 1..Len(s) : all[i] = s[i]
      /\ \A i \in 1..Len(t) : all[Len(s) + i] = t[i]
  BY <1>1
<1>4. all \in Seq(ToSet(all))
  BY <1>2, OwnRange
<1> QED BY <1>2, <1>3, <1>4

-----------------------------------------------------------------------------
(* The rows of a conversation (module Conversation)                        *)

(* What a row says of its calls is true.                                   *)
RowTrue(row) ==
    \A i \in 1..Len(row.verdicts) :
      /\ row.verdicts[i] \in Verdicts \ {"none"}
      /\ row.began[i] => row.verdicts[i] # "unexecuted"
      /\ row.verdicts[i] \in {"answer", "interrupted", "unknown"} => row.began[i]

(* A call that has a result has begun, or never will.                      *)
RoundTyped ==
    /\ calls \in Seq([id : Nat, safe : BOOLEAN])
    /\ slots \in [1..Len(calls) -> Verdicts \ {"unexecuted", "unknown"}]
    /\ going \in [1..Len(calls) -> {"ready", "running", "over"}]
    /\ \A i \in 1..Len(calls) : going[i] = "ready" => slots[i] = "none"

VerdictsInv == rows \in Seq(ToSet(rows)) /\ RoundTyped /\ VerdictsTrue

Adds(new) == new \in Seq(ToSet(new)) /\ \A n \in 1..Len(new) : RowTrue(new[n])

LEMMA PlainRow == \A kind : RowTrue(Row(kind)) /\ RowTrue([Row(kind) EXCEPT !.turn = turn + 1])
  BY DEF RowTrue, Row

LEMMA PlainRows ==
    ASSUME NEW row, RowTrue(row), NEW other, RowTrue(other)
    PROVE  Adds(<<>>) /\ Adds(<<row>>) /\ Adds(<<row, other>>)
  BY DEF Adds, ToSet

LEMMA AddedTo ==
    ASSUME NEW table, Adds(table), NEW new, Adds(new)
    PROVE  Adds(table \o new)
<1> DEFINE all == table \o new
<1>1. /\ all \in Seq(ToSet(all)) /\ Len(all) = Len(table) + Len(new)
      /\ \A i \in 1..Len(table) : all[i] = table[i]
      /\ \A i \in 1..Len(new) : all[Len(table) + i] = new[i]
  BY JoinedRows DEF Adds
<1>2. Len(table) \in Nat /\ Len(new) \in Nat
  BY DEF Adds
<1> HIDE DEF all
<1>3. ASSUME NEW n \in 1..Len(all) PROVE RowTrue(all[n])
  <2>1. CASE n \in 1..Len(table)
    BY <1>1, <2>1 DEF Adds
  <2>2. CASE n \notin 1..Len(table)
    <3>1. n - Len(table) \in 1..Len(new) /\ n = Len(table) + (n - Len(table))
      BY <1>1, <1>2, <2>2
    <3> QED BY <1>1, <3>1 DEF Adds
  <2> QED BY <2>1, <2>2
<1>4. Adds(all)
  BY <1>1, <1>3 DEF Adds
<1> QED BY <1>4 DEF all

LEMMA RowsGrow ==
    ASSUME VerdictsInv, NEW new, Adds(new), rows' = rows \o new
    PROVE  rows' \in Seq(ToSet(rows')) /\ VerdictsTrue'
<1>1. Adds(rows)
  BY DEF VerdictsInv, VerdictsTrue, Adds, RowTrue
<1>2. Adds(rows')
  BY <1>1, AddedTo
<1> QED BY <1>2 DEF VerdictsTrue, Adds, RowTrue

LEMMA StoredRow ==
    ASSUME VerdictsInv, NEW row, RowTrue(row), rows' = Append(rows, row)
    PROVE  rows' \in Seq(ToSet(rows')) /\ VerdictsTrue'
<1>1. /\ rows' \in Seq(ToSet(rows')) /\ Len(rows') = Len(rows) + 1
      /\ \A i \in 1..Len(rows) : rows'[i] = rows[i]
      /\ rows'[Len(rows) + 1] = row
  BY AppendedRow DEF VerdictsInv
<1>2. \A n \in 1..Len(rows) : RowTrue(rows[n])
  BY DEF VerdictsInv, VerdictsTrue, RowTrue
<1>3. \A n \in 1..Len(rows') : RowTrue(rows'[n])
  BY <1>1, <1>2 DEF VerdictsInv
<1> QED BY <1>1, <1>3 DEF VerdictsTrue, RowTrue

LEMMA NoRoundTyped == NoRound => RoundTyped'
  BY DEF NoRound, RoundTyped

LEMMA SameRound == RoundTyped /\ UNCHANGED <<calls, slots, going>> => RoundTyped'
  BY DEF RoundTyped

LEMMA VerdictsStep ==
    ASSUME ConversationAssumption, VerdictsInv, [ConversationNext]_convVars
    PROVE  VerdictsInv'
<1> USE DEF VerdictsInv
<1>0. ASSUME UNCHANGED rows PROVE rows' \in Seq(ToSet(rows')) /\ VerdictsTrue'
  BY <1>0 DEF VerdictsTrue
<1>1. CASE BeginTurn
  <2>1. RowTrue([Row("user") EXCEPT !.turn = turn + 1])
    BY PlainRow
  <2> QED BY <1>1, <2>1, StoredRow, SameRound DEF BeginTurn
<1>2. CASE TakeNotice
  BY <1>2, PlainRow, StoredRow, SameRound DEF TakeNotice
<1>3. CASE Compact
  <2>1. PICK covers, holds :
           rows' = Append(rows, [Row("summary") EXCEPT !.covers = covers, !.holds = holds])
    BY <1>3 DEF Compact
  <2>2. RowTrue([Row("summary") EXCEPT !.covers = covers, !.holds = holds])
    BY DEF RowTrue, Row
  <2>3. rows' \in Seq(ToSet(rows')) /\ VerdictsTrue'
    BY <2>1, <2>2, StoredRow
  <2>4. RoundTyped'
    BY <1>3, NoRoundTyped, SameRound DEF Compact, Ends
  <2> QED BY <2>3, <2>4
<1>4. CASE CallModel
  BY <1>4, <1>0, SameRound DEF CallModel
<1>5. CASE AnswerText
  <2>1. RoundTyped'
    BY <1>5, NoRoundTyped, SameRound DEF AnswerText, Ends
  <2>2. CASE rows' = Append(rows, Row("text"))
    BY <2>1, <2>2, PlainRow, StoredRow
  <2>3. CASE rows' = rows \o <<Row("text"), Row("user")>>
    <3>1. Adds(<<Row("text"), Row("user")>>)
      BY PlainRow, PlainRows
    <3> QED BY <2>1, <2>3, <3>1, RowsGrow
  <2> QED BY <1>5, <2>2, <2>3 DEF AnswerText
<1>6. CASE AnswerFails
  <2>1. RoundTyped'
    BY <1>6, NoRoundTyped DEF AnswerFails, Ends
  <2>2. CASE rows' = Append(rows, Row("partial"))
    BY <2>1, <2>2, PlainRow, StoredRow
  <2> QED BY <1>6, <1>0, <2>1, <2>2 DEF AnswerFails
<1>7. ASSUME NEW round \in Rounds, AnswerCalls(round) PROVE VerdictsInv'
  <2>1. RowTrue(UseRow(round))
    BY DEF RowTrue, UseRow, Row
  <2>2. rows' \in Seq(ToSet(rows')) /\ VerdictsTrue'
    BY <1>7, <2>1, StoredRow DEF AnswerCalls
  <2>3. calls' = round /\ calls' \in Seq([id : Nat, safe : BOOLEAN])
    BY <1>7 DEF AnswerCalls, ConversationAssumption
  <2>4. /\ slots' = [i \in 1..Len(calls') |-> IF Duplicate(round, i) THEN "duplicate" ELSE "none"]
        /\ going' = [i \in 1..Len(calls') |-> IF Duplicate(round, i) THEN "over" ELSE "ready"]
    BY <1>7, <2>3 DEF AnswerCalls
  <2>5. RoundTyped'
    BY <2>3, <2>4 DEF RoundTyped, Verdicts
  <2> QED BY <2>2, <2>5
<1>8. ASSUME NEW round \in Rounds, AnswerOverBudget(round) PROVE VerdictsInv'
  <2>1. RoundTyped'
    BY <1>8, NoRoundTyped DEF AnswerOverBudget, Ends
  <2>2. RowTrue(UseRow(round))
    BY DEF RowTrue, UseRow, Row
  <2> DEFINE refused == ResultRow(round, [i \in 1..Len(round) |-> "unexecuted"], [i \in 1..Len(round) |-> FALSE])
  <2>3. Len(round) \in Nat
    BY DEF ConversationAssumption
  <2>4. RowTrue(refused)
    BY <2>3 DEF RowTrue, ResultRow, Row, Verdicts
  <2>5. rows' = Append(rows, UseRow(round)) \/ rows' = rows \o <<UseRow(round), refused>>
    BY <1>8 DEF AnswerOverBudget
  <2>6. Adds(<<UseRow(round), refused>>)
    <3> HIDE DEF refused
    <3> QED BY <2>2, <2>4, PlainRows
  <2> HIDE DEF refused
  <2> QED BY <2>1, <2>2, <2>5, <2>6, StoredRow, RowsGrow
<1>9. ASSUME NEW i \in 1..Len(calls), StartCall(i) PROVE VerdictsInv'
  BY <1>0, <1>9 DEF StartCall, RoundTyped
<1>10. ASSUME NEW i \in 1..Len(calls), FinishCall(i) PROVE VerdictsInv'
  <2>1. PICK verdict \in {"answer", "interrupted", "none"} : slots' = [slots EXCEPT ![i] = verdict]
    BY <1>10 DEF FinishCall
  <2>2. going' = [going EXCEPT ![i] = "over"] /\ UNCHANGED <<rows, calls>>
    BY <1>10 DEF FinishCall
  <2>3. RoundTyped'
    BY <2>1, <2>2 DEF RoundTyped, Verdicts
  <2> QED BY <1>0, <2>2, <2>3
<1>11. CASE CloseRound
  <2> DEFINE began == [i \in 1..Len(calls) |-> going[i] # "ready"]
             result == ResultRow(calls, Completed, began)
  <2>1. RoundTyped'
    BY <1>11, NoRoundTyped DEF CloseRound
  <2>2. RowTrue(result)
    <3>1. Len(calls) \in Nat
      BY DEF RoundTyped
    <3>2. result.verdicts = Completed /\ result.began = began
      BY DEF ResultRow, Row
    <3>3. Len(Completed) = Len(calls)
      BY <3>1 DEF Completed
    <3>4. ASSUME NEW i \in 1..Len(calls)
          PROVE  /\ Completed[i] \in Verdicts \ {"none"}
                 /\ began[i] => Completed[i] # "unexecuted"
                 /\ Completed[i] \in {"answer", "interrupted", "unknown"} => began[i]
      BY <3>4 DEF Completed, RoundTyped, Verdicts
    <3> QED BY <3>2, <3>3, <3>4 DEF RowTrue
  <2>3. \/ UNCHANGED rows
        \/ \E guided \in {<<>>, <<Row("user")>>} : rows' = rows \o <<result>> \o guided
    BY <1>11 DEF CloseRound
  <2> HIDE DEF result
  <2>4. ASSUME NEW guided \in {<<>>, <<Row("user")>>}, rows' = rows \o <<result>> \o guided
        PROVE  rows' \in Seq(ToSet(rows')) /\ VerdictsTrue'
    <3>1. Adds(rows) /\ Adds(<<result>>) /\ Adds(guided)
      <4>1. Adds(rows)
        BY DEF VerdictsTrue, Adds, RowTrue
      <4>2. Adds(<<result>>) /\ Adds(<<Row("user")>>) /\ Adds(<<>>)
        BY <2>2, PlainRow, PlainRows
      <4> QED BY <4>1, <4>2
    <3>2. Adds(rows')
      BY <2>4, <3>1, AddedTo
    <3> QED BY <3>2 DEF VerdictsTrue, Adds, RowTrue
  <2> QED BY <1>0, <2>1, <2>3, <2>4
<1>12. CASE TurnStops
  BY <1>0, <1>12, NoRoundTyped DEF TurnStops, Ends
<1>13. CASE UNCHANGED convVars
  BY <1>0, <1>13, SameRound DEF convVars
<1> QED
  BY <1>1, <1>2, <1>3, <1>4, <1>5, <1>6, <1>7, <1>8, <1>9, <1>10, <1>11, <1>12, <1>13
  DEF ConversationNext

(* What the stored results say of the calls is true: every call has a      *)
(* verdict, "not executed" is said only of calls that never began, and an  *)
(* answer, an interruption or an unknown result only of calls that did     *)
(* (completeToolRoundResults, fillUnexecutedSerialSuffix).                 *)
THEOREM VerdictsTrueHolds == ConversationSpec => []VerdictsTrue
<1>1. ConversationInit => VerdictsInv
  BY DEF ConversationInit, VerdictsInv, RoundTyped, VerdictsTrue, ToSet
<1>2. VerdictsInv => VerdictsTrue
  BY DEF VerdictsInv
<1> QED BY <1>1, <1>2, VerdictsStep, ConversationAssumption, PTL DEF ConversationSpec

-----------------------------------------------------------------------------
(* The greatest element of a bounded set of numbers, and the rows of a run *)
(* up to a place in the table.                                             *)
LEMMA MaxOf ==
    ASSUME NEW S, NEW b \in Nat, S \subseteq 0..b, S # {}
    PROVE  Max(S) \in S /\ \A x \in S : Max(S) >= x
<1> DEFINE Bounds == {n \in Nat : \A x \in S : x <= n}
<1>1. Bounds \subseteq Nat /\ b \in Bounds
  OBVIOUS
<1>2. PICK n \in Bounds : \A m \in Bounds : ~ (<<m, n>> \in OpToRel(<, Nat))
  <2>1. Bounds # {}  BY <1>1
  <2> HIDE DEF Bounds
  <2> QED BY <1>1, <2>1, NatLessThanWellFounded, WFMin
<1>3. \A m \in Bounds : ~ (m < n)
  BY <1>2 DEF OpToRel
<1>4. n \in S
  <2>1. SUFFICES ASSUME n \notin S PROVE FALSE
    OBVIOUS
  <2>2. \A x \in S : x <= n - 1
    BY <2>1
  <2>3. n - 1 \in Nat
    <3>1. PICK x \in S : TRUE
      OBVIOUS
    <3>2. x <= n - 1 /\ n \in Nat
      BY <2>2
    <3>3. x \in Nat
      OBVIOUS
    <3> QED BY ONLY <3>2, <3>3
  <2>4. n - 1 \in Bounds /\ n - 1 < n
    BY <2>2, <2>3
  <2> QED BY <1>3, <2>4
<1>5. \A x \in S : n >= x
  OBVIOUS
<1> QED BY <1>4, <1>5 DEF Max

CountOf(table, t, n) == Cardinality({k \in 1..n : table[k].turn = t})

LEMMA CountIsNat ==
    ASSUME NEW table, NEW t, NEW n \in Nat
    PROVE  CountOf(table, t, n) \in Nat /\ IsFiniteSet({k \in 1..n : table[k].turn = t})
<1>1. IsFiniteSet(1..n)
  BY FS_Interval
<1>2. {k \in 1..n : table[k].turn = t} \subseteq 1..n
  OBVIOUS
<1> QED BY <1>1, <1>2, FS_Subset, FS_CardinalityType DEF CountOf

LEMMA CountNext ==
    ASSUME NEW table, NEW n \in Nat
    PROVE  CountOf(table, table[n+1].turn, n + 1) = CountOf(table, table[n+1].turn, n) + 1
<1> DEFINE S == {k \in 1..n : table[k].turn = table[n+1].turn}
<1>1. IsFiniteSet(S)
  BY CountIsNat
<1>2. {k \in 1..n+1 : table[k].turn = table[n+1].turn} = S \cup {n + 1} /\ n + 1 \notin S
  OBVIOUS
<1>3. Cardinality(S \cup {n + 1}) = Cardinality(S) + 1
  BY <1>1, <1>2, FS_AddElement
<1> QED BY <1>2, <1>3 DEF CountOf

LEMMA CountGrows ==
    ASSUME NEW table, NEW t, NEW m \in Nat, NEW n \in Nat, m <= n
    PROVE  CountOf(table, t, m) <= CountOf(table, t, n)
<1> DEFINE S == {k \in 1..m : table[k].turn = t}
           T == {k \in 1..n : table[k].turn = t}
<1>1. S \subseteq T
  OBVIOUS
<1>2. IsFiniteSet(T)
  BY CountIsNat
<1>3. CountOf(table, t, m) = Cardinality(S) /\ CountOf(table, t, n) = Cardinality(T)
  BY DEF CountOf
<1> HIDE DEF S, T
<1> QED BY <1>1, <1>2, <1>3, FS_Subset

LEMMA CountAbove ==
    ASSUME NEW table, NEW m \in Nat, NEW n \in Nat, m < n
    PROVE  CountOf(table, table[n].turn, m) < CountOf(table, table[n].turn, n)
<1>1. n - 1 \in Nat /\ m <= n - 1 /\ (n - 1) + 1 = n
  OBVIOUS
<1>2. CountOf(table, table[n].turn, n) = CountOf(table, table[n].turn, n - 1) + 1
  BY <1>1, CountNext
<1>3. CountOf(table, table[n].turn, m) <= CountOf(table, table[n].turn, n - 1)
  BY <1>1, CountGrows
<1>4. CountOf(table, table[n].turn, m) \in Nat /\ CountOf(table, table[n].turn, n - 1) \in Nat
  BY <1>1, CountIsNat
<1> QED BY ONLY <1>2, <1>3, <1>4

LEMMA CountSame ==
    ASSUME NEW table, NEW other, NEW t, NEW n \in Nat, \A k \in 1..n : table[k] = other[k]
    PROVE  CountOf(table, t, n) = CountOf(other, t, n)
<1>1. {k \in 1..n : table[k].turn = t} = {k \in 1..n : other[k].turn = t}
  OBVIOUS
<1> QED BY <1>1 DEF CountOf

-----------------------------------------------------------------------------
(* A row of results stands right after the row of its calls, and a summary *)
(* covers only rows before it, and no row of calls without its results.    *)
RowFits(table, n) ==
    /\ table[n].kind = "result" =>
         /\ n > 1 /\ table[n-1].kind = "use"
         /\ table[n-1].ids = table[n].ids /\ table[n-1].turn = table[n].turn
    /\ \A c \in table[n].covers :
         /\ table[n].kind = "summary" /\ c[2] \in Nat
         /\ c[2] <= CountOf(table, c[1], n-1)
         /\ \A k \in 1..n-1 : table[k].kind = "result" /\ table[k].turn = c[1] =>
              CountOf(table, c[1], k-1) # c[2]

TableFits(table) == table \in Seq(ToSet(table)) /\ \A n \in 1..Len(table) : RowFits(table, n)

LEMMA RowStillFits ==
    ASSUME NEW table, NEW other, NEW n \in Nat \ {0}, RowFits(table, n), \A k \in 1..n : other[k] = table[k]
    PROVE  RowFits(other, n)
<1>1. other[n] = table[n]
  OBVIOUS
<1>2. n > 1 => n - 1 \in 1..n /\ other[n-1] = table[n-1]
  OBVIOUS
<1>3. \A t : \A m \in 0..n-1 : CountOf(other, t, m) = CountOf(table, t, m)
  BY CountSame
<1>4. \A k \in 1..n-1 : k - 1 \in 0..n-1 /\ other[k] = table[k]
  OBVIOUS
<1>5. n - 1 \in 0..n-1
  OBVIOUS
<1> QED BY <1>1, <1>2, <1>3, <1>4, <1>5 DEF RowFits

LEMMA TableGrows ==
    ASSUME NEW table, TableFits(table), NEW row, RowFits(Append(table, row), Len(table) + 1)
    PROVE  TableFits(Append(table, row))
<1> DEFINE all == Append(table, row)
<1>1. all \in Seq(ToSet(all)) /\ Len(all) = Len(table) + 1 /\ \A i \in 1..Len(table) : all[i] = table[i]
  BY AppendedRow DEF TableFits
<1>2. Len(table) \in Nat
  BY DEF TableFits
<1>3. ASSUME NEW n \in 1..Len(all) PROVE RowFits(all, n)
  <2>1. CASE n = Len(table) + 1
    BY <2>1
  <2>2. CASE n \in 1..Len(table)
    <3>1. RowFits(table, n) /\ n \in Nat \ {0}
      BY <2>2 DEF TableFits
    <3>2. \A k \in 1..n : all[k] = table[k]
      BY <1>1, <1>2, <2>2
    <3> HIDE DEF all
    <3> QED BY <3>1, <3>2, RowStillFits
  <2> HIDE DEF all
  <2> QED BY <1>1, <1>2, <2>1, <2>2
<1> QED BY <1>1, <1>3 DEF TableFits

(* A row that covers nothing and is not a result fits everywhere.          *)
LEMMA PlainGrows ==
    ASSUME NEW table, TableFits(table), NEW row, row.kind # "result", row.covers = {}
    PROVE  TableFits(Append(table, row))
<1>1. Append(table, row)[Len(table) + 1] = row
  BY AppendedRow DEF TableFits
<1>2. RowFits(Append(table, row), Len(table) + 1)
  BY <1>1 DEF RowFits
<1> QED BY <1>2, TableGrows

LEMMA ResultGrows ==
    ASSUME NEW table, TableFits(table), NEW row, row.kind = "result", row.covers = {},
           Len(table) > 0, table[Len(table)].kind = "use",
           table[Len(table)].ids = row.ids, table[Len(table)].turn = row.turn
    PROVE  TableFits(Append(table, row))
<1> DEFINE all == Append(table, row)
<1>1. all[Len(table) + 1] = row /\ \A i \in 1..Len(table) : all[i] = table[i]
  BY AppendedRow DEF TableFits
<1>2. Len(table) \in Nat /\ (Len(table) + 1) - 1 = Len(table) /\ Len(table) + 1 > 1
  BY DEF TableFits
<1> HIDE DEF all
<1>3. all[Len(table)] = table[Len(table)]
  <2>1. Len(table) \in 1..Len(table)
    BY <1>2
  <2> QED BY <1>1, <2>1
<1>4. RowFits(all, Len(table) + 1)
  BY <1>1, <1>2, <1>3 DEF RowFits
<1> QED BY <1>4, TableGrows DEF all

(* A summary covers rows before it only.                                   *)
CoveredBy(table, n, c) == table[n].turn = c[1] /\ CountOf(table, table[n].turn, n) <= c[2]

LEMMA CoveredSays ==
    ASSUME NEW table, NEW n
    PROVE  Covered(table, n) <=> \E m \in 1..Len(table) : \E c \in table[m].covers : CoveredBy(table, n, c)
  BY DEF Covered, CoveredBy, CountOf

LEMMA CoversBefore ==
    ASSUME NEW table, TableFits(table), NEW m \in 1..Len(table), NEW c \in table[m].covers,
           NEW n \in 1..Len(table), CoveredBy(table, n, c)
    PROVE  n < m
<1>1. SUFFICES ASSUME m <= n PROVE FALSE
  BY DEF TableFits
<1>2. m \in Nat /\ n \in Nat /\ m - 1 \in Nat /\ m - 1 < n
  BY <1>1 DEF TableFits
<1>3. c[2] \in Nat /\ c[2] <= CountOf(table, c[1], m - 1)
  BY DEF TableFits, RowFits
<1>4. c[1] = table[n].turn /\ CountOf(table, table[n].turn, n) <= c[2]
  BY DEF CoveredBy
<1>5. CountOf(table, table[n].turn, m - 1) < CountOf(table, table[n].turn, n)
  BY <1>2, CountAbove
<1>6. CountOf(table, table[n].turn, m - 1) \in Nat /\ CountOf(table, table[n].turn, n) \in Nat
  BY <1>2, CountIsNat
<1> QED BY ONLY <1>3, <1>4, <1>5, <1>6

(* Results are left out together with their calls.                         *)
LEMMA KeptTogether ==
    ASSUME NEW table, TableFits(table), NEW n \in 1..Len(table), table[n].kind = "result"
    PROVE  /\ n - 1 \in 1..Len(table) /\ table[n-1].kind = "use"
           /\ Kept(table, n) <=> Kept(table, n - 1)
<1>1. /\ n \in Nat /\ n - 1 \in Nat /\ n - 1 \in 1..Len(table) /\ (n - 1) + 1 = n
      /\ table[n-1].kind = "use" /\ table[n-1].turn = table[n].turn
  BY DEF TableFits, RowFits
<1>2. CountOf(table, table[n].turn, n) = CountOf(table, table[n].turn, n - 1) + 1
  BY <1>1, CountNext
<1>3. CountOf(table, table[n].turn, n - 1) \in Nat
  BY <1>1, CountIsNat
<1>4. ASSUME NEW m \in 1..Len(table), NEW c \in table[m].covers
      PROVE  CoveredBy(table, n, c) <=> CoveredBy(table, n - 1, c)
  <2>1. CASE c[1] # table[n].turn
    BY <1>1, <2>1 DEF CoveredBy
  <2>2. CASE c[1] = table[n].turn
    <3>1. c[2] \in Nat /\ table[m].kind = "summary"
      BY DEF TableFits, RowFits
    <3>2. ASSUME CoveredBy(table, n, c) PROVE CoveredBy(table, n - 1, c)
      BY <1>1, <1>2, <1>3, <3>1, <3>2 DEF CoveredBy
    <3>3. ASSUME CoveredBy(table, n - 1, c) PROVE CoveredBy(table, n, c)
      <4>1. n - 1 < m
        BY <1>1, <3>3, CoversBefore
      <4>2. n # m
        BY <3>1
      <4>3. n \in 1..m-1
        BY <1>1, <4>1, <4>2 DEF TableFits
      <4>4. CountOf(table, table[n].turn, n - 1) # c[2]
        BY <2>2, <4>3 DEF TableFits, RowFits
      <4>5. CountOf(table, table[n].turn, n - 1) <= c[2]
        BY <1>1, <3>3 DEF CoveredBy
      <4>6. CountOf(table, table[n].turn, n) <= c[2]
        BY ONLY <1>2, <1>3, <3>1, <4>4, <4>5
      <4> QED BY <2>2, <4>6 DEF CoveredBy
    <3> QED BY <3>2, <3>3
  <2> QED BY <2>1, <2>2
<1>5. Covered(table, n) <=> Covered(table, n - 1)
  BY <1>4, CoveredSays
<1> QED BY <1>1, <1>5 DEF Kept

ResultIn(table, n) == n \in 1..Len(table) /\ table[n].kind = "result"
UseIn(table, n) == n \in 1..Len(table) /\ table[n].kind = "use"

(* Calls without results are those with no row of results next to them.    *)
LEMMA OrphanIs ==
    ASSUME NEW table, TableFits(table), NEW n, UseIn(table, n), Kept(table, n)
    PROVE  Orphan(table, n) <=> ~ResultIn(table, n + 1)
<1>0. n \in Nat /\ n \in 1..Len(table) /\ Len(table) \in Nat
  BY DEF UseIn, TableFits
<1>1. ASSUME ResultIn(table, n + 1) PROVE ~Orphan(table, n)
  <2>1. n + 1 \in 1..Len(table) /\ table[n+1].kind = "result" /\ (n + 1) - 1 = n
    BY <1>0, <1>1 DEF ResultIn
  <2>2. Kept(table, n + 1)
    BY <2>1, KeptTogether
  <2>3. n + 1 \in n+1..Len(table) /\ \A k \in n+1..(n+1)-1 : ~Kept(table, k)
    BY <1>0, <2>1
  <2> QED BY <2>1, <2>2, <2>3 DEF Orphan
<1>2. ASSUME ~Orphan(table, n) PROVE ResultIn(table, n + 1)
  <2>1. PICK m \in n+1..Len(table) : /\ table[m].kind = "result" /\ Kept(table, m)
                                     /\ \A k \in n+1..m-1 : ~Kept(table, k)
    BY <1>2 DEF Orphan, UseIn
  <2>2. m \in 1..Len(table) /\ m \in Nat
    BY <1>0, <2>1
  <2>3. Kept(table, m - 1)
    BY <2>1, <2>2, KeptTogether
  <2>4. m - 1 \notin n+1..m-1
    BY <2>1, <2>3
  <2>5. m = n + 1
    BY <1>0, <2>2, <2>4
  <2> QED BY <2>1, <2>2, <2>5 DEF ResultIn
<1> QED BY <1>1, <1>2

-----------------------------------------------------------------------------
(* What flattening a sequence of sequences returns, from one to the next.  *)
FlattensTo(seqs, F, n) ==
    F = [i \in 1..n |-> IF i = 1 THEN seqs[i] ELSE F[i-1] \o seqs[i]]

LEMMA FlatExists ==
    ASSUME NEW seqs
    PROVE  \A n \in Nat : \E F : FlattensTo(seqs, F, n)
<1> DEFINE S == {n \in Nat : \E F : FlattensTo(seqs, F, n)}
<1>1. 0 \in S
  <2>1. FlattensTo(seqs, <<>>, 0)
    BY DEF FlattensTo
  <2> QED BY <2>1
<1>2. ASSUME NEW n \in Nat, n \in S PROVE n + 1 \in S
  <2>1. PICK F : FlattensTo(seqs, F, n)
    BY <1>2
  <2> DEFINE step(G, i) == IF i = 1 THEN seqs[i] ELSE G[i-1] \o seqs[i]
             G == [i \in 1..n+1 |-> IF i = n + 1 THEN step(F, i) ELSE F[i]]
  <2>2. ASSUME NEW i \in 1..n+1 PROVE G[i] = step(G, i)
    <3>1. CASE i = n + 1
      <4>1. G[i] = step(F, i)
        BY <3>1
      <4>2. i # 1 => i - 1 \in 1..n+1 /\ i - 1 # n + 1 /\ G[i-1] = F[i-1]
        BY <3>1
      <4> HIDE DEF G
      <4> QED BY <4>1, <4>2
    <3>2. CASE i # n + 1
      <4>1. i \in 1..n /\ G[i] = F[i]
        BY <3>2
      <4>2. F[i] = step(F, i)
        BY <2>1, <4>1 DEF FlattensTo
      <4>3. i # 1 => i - 1 \in 1..n+1 /\ i - 1 # n + 1 /\ G[i-1] = F[i-1]
        BY <3>2
      <4> HIDE DEF G
      <4> QED BY <4>1, <4>2, <4>3
    <3> QED BY <3>1, <3>2
  <2>3. G = [i \in 1..n+1 |-> G[i]]
    OBVIOUS
  <2>4. G = [i \in 1..n+1 |-> step(G, i)]
    <3> HIDE DEF G
    <3> SUFFICES [i \in 1..n+1 |-> G[i]] = [i \in 1..n+1 |-> step(G, i)]
      BY <2>3
    <3> QED BY <2>2
  <2>5. FlattensTo(seqs, G, n + 1)
    <3> HIDE DEF G
    <3> QED BY <2>4 DEF FlattensTo
  <2> HIDE DEF G
  <2> QED BY <2>5
<1>3. Nat \subseteq S
  <2> HIDE DEF S
  <2> QED BY <1>1, <1>2, NatInducts
<1> QED BY <1>3

LEMMA Flattened ==
    ASSUME NEW seqs, Len(seqs) \in Nat, Len(seqs) # 0
    PROVE  \E F : FlattensTo(seqs, F, Len(seqs)) /\ FlattenSeq(seqs) = F[Len(seqs)]
<1> DEFINE F == CHOOSE f : FlattensTo(seqs, f, Len(seqs))
<1>1. FlattensTo(seqs, F, Len(seqs))
  BY FlatExists
<1>2. FlattenSeq(seqs) = F[Len(seqs)]
  BY DEF FlattenSeq, FlattensTo
<1> HIDE DEF F
<1> QED BY <1>1, <1>2

-----------------------------------------------------------------------------
(* What the first rows are loaded into: the rows kept, in order, calls     *)
(* followed by their results or by what stands for them, except that the   *)
(* results of the last row may still be to come.                           *)
PairedAt(table, s, p) ==
    /\ p < Len(s)
    /\ \/ s[p+1] = s[p] + 1 /\ ResultIn(table, s[p] + 1)
       \/ s[p+1] = -s[p] /\ ~ResultIn(table, s[p] + 1)

Asked(table, s, p) == p > 1 /\ UseIn(table, s[p-1])

EntryFits(table, i, s, p) ==
    /\ s[p] \in 1..i \/ -s[p] \in 1..i
    /\ s[p] > 0 => Kept(table, s[p])
    /\ UseIn(table, s[p]) => PairedAt(table, s, p) \/ (p = Len(s) /\ s[p] = i /\ ResultIn(table, i + 1))
    /\ s[p] < 0 \/ ResultIn(table, s[p]) => Asked(table, s, p)

AllKept(table, s) == \A p \in 1..Len(s) : s[p] > 0 => Kept(table, s[p])
Ascends(s) == \A p, q \in 1..Len(s) : p < q /\ s[p] > 0 /\ s[q] > 0 => s[p] < s[q]

LoadsTo(table, i, s) ==
    /\ s \in Seq(Int)
    /\ \A p \in 1..Len(s) : EntryFits(table, i, s, p)
    /\ UseIn(table, i) /\ Kept(table, i) /\ ResultIn(table, i + 1) => Len(s) > 0 /\ s[Len(s)] = i
    /\ \A n \in 1..i : Kept(table, n) => \E p \in 1..Len(s) : s[p] = n
    /\ Ascends(s)

LEMMA LoadsNothing == ASSUME NEW table PROVE LoadsTo(table, 0, <<>>)
  BY DEF LoadsTo, Ascends, UseIn

LEMMA LoadsSkipped ==
    ASSUME NEW table, TableFits(table), NEW i \in Nat, i + 1 \in 1..Len(table), ~Kept(table, i + 1),
           NEW s, LoadsTo(table, i, s)
    PROVE  LoadsTo(table, i + 1, s)
<1>0. s \in Seq(Int) /\ Len(s) \in Nat
  BY DEF LoadsTo
<1>1. ASSUME NEW p \in 1..Len(s) PROVE EntryFits(table, i + 1, s, p)
  <2>1. EntryFits(table, i, s, p) /\ s[p] \in Int
    BY <1>0 DEF LoadsTo
  <2>2. s[p] \in 1..i+1 \/ -s[p] \in 1..i+1
    BY <2>1 DEF EntryFits
  <2>3. ~(p = Len(s) /\ s[p] = i /\ UseIn(table, s[p]) /\ ResultIn(table, i + 1))
    <3>1. SUFFICES ASSUME s[p] = i, UseIn(table, i), ResultIn(table, i + 1) PROVE FALSE
      BY <2>1
    <3>2. Kept(table, i)
      BY <2>1, <3>1 DEF EntryFits, UseIn
    <3>3. (i + 1) - 1 = i
      OBVIOUS
    <3> QED BY <3>1, <3>2, <3>3, KeptTogether DEF ResultIn
  <2> QED BY <2>1, <2>2, <2>3 DEF EntryFits
<1>2. \A n \in 1..i+1 : Kept(table, n) => n \in 1..i
  <2>1. \A n \in 1..i+1 : n = i + 1 \/ n \in 1..i
    OBVIOUS
  <2> QED BY <2>1
<1> QED BY <1>1, <1>2 DEF LoadsTo

(* A row is loaded.                                                        *)
LEMMA LoadsRow ==
    ASSUME NEW table, TableFits(table), NEW i \in Nat, i + 1 \in 1..Len(table), Kept(table, i + 1),
           UseIn(table, i + 1) => ResultIn(table, i + 2),
           NEW s, LoadsTo(table, i, s)
    PROVE  LoadsTo(table, i + 1, s \o <<i + 1>>)
<1> DEFINE n == i + 1
           t == s \o <<n>>
<1>0. s \in Seq(Int) /\ Len(s) \in Nat /\ n \in Nat
  BY DEF LoadsTo
<1>1. /\ t \in Seq(Int) /\ Len(t) = Len(s) + 1 /\ t[Len(s) + 1] = n
      /\ \A p \in 1..Len(s) : t[p] = s[p]
  BY <1>0
<1>2. n + 1 = i + 2 /\ n - 1 = i
  OBVIOUS
<1>3. n \in 1..Len(table) /\ Kept(table, n) /\ (UseIn(table, n) => ResultIn(table, n + 1))
  BY <1>2
<1>4. n = i + 1
  OBVIOUS
<1> HIDE DEF n, t
<1>5. ASSUME NEW p \in 1..Len(s) PROVE EntryFits(table, n, t, p)
  <2>1. EntryFits(table, i, s, p) /\ s[p] \in Int /\ t[p] = s[p]
    BY <1>0, <1>1 DEF LoadsTo
  <2>2. t[p] \in 1..n \/ -t[p] \in 1..n
    BY <2>1, <1>4 DEF EntryFits
  <2>3. Asked(table, s, p) => Asked(table, t, p)
    <3>1. p > 1 => p - 1 \in 1..Len(s)
      BY <1>0
    <3> QED BY <1>1, <3>1 DEF Asked
  <2>4. ASSUME PairedAt(table, s, p) PROVE PairedAt(table, t, p)
    <3>1. p + 1 \in 1..Len(s) /\ p < Len(t)
      <4>1. p < Len(s) /\ p \in Nat /\ Len(s) < Len(t) /\ Len(s) \in Nat /\ Len(t) \in Nat
        BY <1>0, <1>1, <2>4 DEF PairedAt
      <4>2. p \in 1..Len(s)
        OBVIOUS
      <4> QED BY ONLY <4>1, <4>2
    <3>2. t[p+1] = s[p+1]
      BY <1>1, <3>1
    <3> QED BY <2>1, <2>4, <3>1, <3>2 DEF PairedAt
  <2>5. ASSUME p = Len(s), s[p] = i, ResultIn(table, i + 1) PROVE PairedAt(table, t, p)
    <3>1. t[p+1] = t[p] + 1 /\ p < Len(t)
      BY <1>0, <1>1, <1>4, <2>1, <2>5
    <3> QED BY <2>1, <2>5, <3>1 DEF PairedAt
  <2> QED BY <2>1, <2>2, <2>3, <2>4, <2>5 DEF EntryFits
<1>6. EntryFits(table, n, t, Len(s) + 1)
  <2>1. UseIn(table, n) => Len(s) + 1 = Len(t) /\ ResultIn(table, n + 1)
    BY <1>1, <1>3
  <2>2. ASSUME ResultIn(table, n) PROVE Asked(table, t, Len(s) + 1)
    <3>1. i \in 1..Len(table) /\ table[i].kind = "use" /\ Kept(table, i)
      BY <1>2, <1>3, <2>2, KeptTogether DEF ResultIn
    <3>2. Len(s) > 0 /\ s[Len(s)] = i
      BY <1>4, <2>2, <3>1 DEF LoadsTo, UseIn
    <3>3. Len(s) + 1 > 1 /\ (Len(s) + 1) - 1 = Len(s) /\ t[Len(s)] = i
      BY <1>0, <1>1, <3>2
    <3> QED BY <3>1, <3>3 DEF Asked, UseIn
  <2>3. n \in 1..n /\ ~(n < 0)
    BY <1>0, <1>4
  <2> QED BY <1>1, <1>3, <2>1, <2>2, <2>3 DEF EntryFits
<1>7. \A p \in 1..Len(t) : p \in 1..Len(s) \/ p = Len(s) + 1
  BY <1>0, <1>1
<1>8. ASSUME NEW k \in 1..n, Kept(table, k) PROVE \E p \in 1..Len(t) : t[p] = k
  <2>1. CASE k = n
    <3>1. Len(s) + 1 \in 1..Len(t)
      BY <1>0, <1>1
    <3> QED BY <1>1, <2>1, <3>1
  <2>2. CASE k # n
    <3>1. k \in 1..i
      BY <1>4, <2>2
    <3>2. PICK p \in 1..Len(s) : s[p] = k
      BY <1>8, <3>1 DEF LoadsTo
    <3>3. p \in 1..Len(t) /\ t[p] = k
      BY <1>0, <1>1, <3>2
    <3> QED BY <3>3
  <2> QED BY <2>1, <2>2
<1>9. Ascends(t)
  <2>1. ASSUME NEW p \in 1..Len(t), NEW q \in 1..Len(t), p < q, t[p] > 0, t[q] > 0 PROVE t[p] < t[q]
    <3>1. p \in 1..Len(s) /\ t[p] = s[p] /\ s[p] \in Int
      <4>1. Len(s) \in Nat /\ Len(t) = Len(s) + 1
        BY <1>0, <1>1
      <4>2. p \in Nat /\ q \in Nat /\ 1 <= p /\ q <= Len(t)
        BY <4>1
      <4>3. p \in 1..Len(s)
        BY ONLY <2>1, <4>1, <4>2
      <4>4. s[p] \in Int
        BY <1>0, <4>3
      <4> QED BY <1>1, <4>3, <4>4
    <3>2. CASE q \in 1..Len(s)
      BY <1>1, <2>1, <3>1, <3>2 DEF LoadsTo, Ascends
    <3>3. CASE q = Len(s) + 1
      <4>1. t[q] = n
        BY <1>1, <3>3
      <4>2. s[p] \in 1..i
        <5>1. s[p] \in 1..i \/ -s[p] \in 1..i
          BY <3>1 DEF LoadsTo, EntryFits
        <5> QED BY <2>1, <3>1, <5>1
      <4> QED BY <1>4, <3>1, <4>1, <4>2
    <3> QED BY <1>7, <3>2, <3>3
  <2> QED BY <2>1 DEF Ascends
<1>10. Len(t) > 0 /\ t[Len(t)] = n
  BY <1>0, <1>1
<1>11. LoadsTo(table, n, t)
  BY <1>1, <1>5, <1>6, <1>7, <1>8, <1>9, <1>10 DEF LoadsTo
<1> QED BY <1>11 DEF n, t

(* Calls without results are loaded, with what stands for their results.   *)
LEMMA LoadsOrphan ==
    ASSUME NEW table, TableFits(table), NEW i \in Nat, i + 1 \in 1..Len(table), Kept(table, i + 1),
           UseIn(table, i + 1), ~ResultIn(table, i + 2),
           NEW s, LoadsTo(table, i, s)
    PROVE  LoadsTo(table, i + 1, s \o <<i + 1, -(i + 1)>>)
<1> DEFINE n == i + 1
           t == s \o <<n, -n>>
<1>0. s \in Seq(Int) /\ Len(s) \in Nat /\ n \in Nat
  BY DEF LoadsTo
<1>1. /\ t \in Seq(Int) /\ Len(t) = Len(s) + 2 /\ t[Len(s) + 1] = n /\ t[Len(s) + 2] = -n
      /\ \A p \in 1..Len(s) : t[p] = s[p]
  BY <1>0
<1>2. n + 1 = i + 2 /\ n - 1 = i
  OBVIOUS
<1>3. n \in 1..Len(table) /\ Kept(table, n) /\ UseIn(table, n) /\ ~ResultIn(table, n + 1)
  BY <1>2
<1>4. n = i + 1
  OBVIOUS
<1> HIDE DEF n, t
<1>5. ASSUME NEW p \in 1..Len(s) PROVE EntryFits(table, n, t, p)
  <2>1. EntryFits(table, i, s, p) /\ s[p] \in Int /\ t[p] = s[p]
    BY <1>0, <1>1 DEF LoadsTo
  <2>2. t[p] \in 1..n \/ -t[p] \in 1..n
    BY <2>1, <1>4 DEF EntryFits
  <2>3. Asked(table, s, p) => Asked(table, t, p)
    <3>1. p > 1 => p - 1 \in 1..Len(s)
      BY <1>0
    <3> QED BY <1>1, <3>1 DEF Asked
  <2>4. ASSUME PairedAt(table, s, p) PROVE PairedAt(table, t, p)
    <3>1. p + 1 \in 1..Len(s) /\ p < Len(t)
      <4>1. p < Len(s) /\ p \in Nat /\ Len(s) < Len(t) /\ Len(s) \in Nat /\ Len(t) \in Nat
        BY <1>0, <1>1, <2>4 DEF PairedAt
      <4>2. p \in 1..Len(s)
        OBVIOUS
      <4> QED BY ONLY <4>1, <4>2
    <3>2. t[p+1] = s[p+1]
      BY <1>1, <3>1
    <3> QED BY <2>1, <2>4, <3>1, <3>2 DEF PairedAt
  <2>5. ~ResultIn(table, i + 1)
    BY <1>3, <1>4 DEF ResultIn, UseIn
  <2> QED BY <2>1, <2>2, <2>3, <2>4, <2>5 DEF EntryFits
<1>6. EntryFits(table, n, t, Len(s) + 1)
  <2>1. PairedAt(table, t, Len(s) + 1)
    <3>1. Len(s) + 1 < Len(t) /\ (Len(s) + 1) + 1 = Len(s) + 2
      BY <1>0, <1>1
    <3> QED BY <1>1, <1>3, <3>1 DEF PairedAt
  <2>2. n \in 1..n /\ ~(n < 0) /\ ~ResultIn(table, n)
    BY <1>0, <1>3, <1>4 DEF UseIn, ResultIn
  <2> QED BY <1>1, <1>3, <2>1, <2>2 DEF EntryFits
<1>7. EntryFits(table, n, t, Len(s) + 2)
  <2>1. Asked(table, t, Len(s) + 2)
    <3>1. Len(s) + 2 > 1 /\ (Len(s) + 2) - 1 = Len(s) + 1
      BY <1>0
    <3> QED BY <1>1, <1>3, <3>1 DEF Asked
  <2>2. -t[Len(s) + 2] \in 1..n /\ ~(t[Len(s) + 2] > 0) /\ t[Len(s) + 2] \notin 1..Len(table)
    BY <1>0, <1>1, <1>4
  <2> QED BY <2>1, <2>2 DEF EntryFits, UseIn
<1>8. \A p \in 1..Len(t) : p \in 1..Len(s) \/ p = Len(s) + 1 \/ p = Len(s) + 2
  BY <1>0, <1>1
<1>9. ASSUME NEW k \in 1..n, Kept(table, k) PROVE \E p \in 1..Len(t) : t[p] = k
  <2>1. CASE k = n
    <3>1. Len(s) + 1 \in 1..Len(t)
      BY <1>0, <1>1
    <3> QED BY <1>1, <2>1, <3>1
  <2>2. CASE k # n
    <3>1. k \in 1..i
      BY <1>4, <2>2
    <3>2. PICK p \in 1..Len(s) : s[p] = k
      BY <1>9, <3>1 DEF LoadsTo
    <3>3. p \in 1..Len(t) /\ t[p] = k
      BY <1>0, <1>1, <3>2
    <3> QED BY <3>3
  <2> QED BY <2>1, <2>2
<1>10. Ascends(t)
  <2>1. ASSUME NEW p \in 1..Len(t), NEW q \in 1..Len(t), p < q, t[p] > 0, t[q] > 0 PROVE t[p] < t[q]
    <3>0. q # Len(s) + 2
      BY <1>0, <1>1, <2>1
    <3>1. p \in 1..Len(s) /\ t[p] = s[p] /\ s[p] \in Int
      <4>1. p \in Nat /\ q \in Nat /\ q <= Len(s) + 2 /\ p >= 1 /\ p < q /\ Len(s) \in Nat
        BY <1>0, <1>1, <2>1
      <4>2. p \in 1..Len(s)
        BY ONLY <3>0, <4>1
      <4>3. s[p] \in Int
        BY <1>0, <4>2
      <4> QED BY <1>1, <4>2, <4>3
    <3>2. CASE q \in 1..Len(s)
      BY <1>1, <2>1, <3>1, <3>2 DEF LoadsTo, Ascends
    <3>3. CASE q = Len(s) + 1
      <4>1. t[q] = n
        BY <1>1, <3>3
      <4>2. s[p] \in 1..i
        <5>1. s[p] \in 1..i \/ -s[p] \in 1..i
          BY <3>1 DEF LoadsTo, EntryFits
        <5> QED BY <2>1, <3>1, <5>1
      <4> QED BY <1>4, <3>1, <4>1, <4>2
    <3> QED BY <1>8, <3>0, <3>2, <3>3
  <2> QED BY <2>1 DEF Ascends
<1>11. LoadsTo(table, n, t)
  BY <1>1, <1>3, <1>5, <1>6, <1>7, <1>8, <1>9, <1>10 DEF LoadsTo
<1> QED BY <1>11 DEF n, t

(* What a table is loaded into.                                            *)
LEMMA Loaded ==
    ASSUME NEW table, TableFits(table)
    PROVE  LoadsTo(table, Len(table), Load(table))
<1> DEFINE piece(n) == IF ~Kept(table, n) THEN <<>> ELSE IF Orphan(table, n) THEN <<n, -n>> ELSE <<n>>
           pieces == [n \in 1..Len(table) |-> piece(n)]
<1>0. Len(table) \in Nat
  BY DEF TableFits
<1>1. Len(pieces) = Len(table) /\ Load(table) = FlattenSeq(pieces)
  BY <1>0 DEF Load
<1>2. CASE Len(table) = 0
  <2>1. Load(table) = pieces
    <3> HIDE DEF pieces
    <3> QED BY <1>1, <1>2 DEF FlattenSeq
  <2>2. pieces = <<>>
    BY <1>2
  <2> QED BY <1>2, <2>1, <2>2, LoadsNothing
<1>3. CASE Len(table) # 0
  <2>1. PICK F : FlattensTo(pieces, F, Len(table)) /\ Load(table) = F[Len(table)]
    <3> HIDE DEF pieces
    <3> QED BY <1>0, <1>1, <1>3, Flattened
  <2>2. ASSUME NEW i \in 1..Len(table)
        PROVE  F[i] = IF i = 1 THEN piece(i) ELSE F[i-1] \o piece(i)
    <3>1. F = [j \in 1..Len(table) |-> IF j = 1 THEN pieces[j] ELSE F[j-1] \o pieces[j]]
      <4> HIDE DEF pieces
      <4> QED BY <2>1 DEF FlattensTo
    <3>2. F[i] = IF i = 1 THEN pieces[i] ELSE F[i-1] \o pieces[i]
      <4> HIDE DEF pieces
      <4> QED BY <3>1
    <3>3. pieces[i] = piece(i)
      OBVIOUS
    <3> HIDE DEF pieces, piece
    <3> QED BY <3>2, <3>3
  <2> HIDE DEF pieces
  <2> DEFINE before(i) == IF i = 0 THEN <<>> ELSE F[i]
             S == {i \in Nat : i <= Len(table) => LoadsTo(table, i, before(i))}
  <2>3. 0 \in S
    BY LoadsNothing
  <2>4. ASSUME NEW i \in Nat, i \in S PROVE i + 1 \in S
    <3>1. SUFFICES ASSUME i + 1 <= Len(table) PROVE LoadsTo(table, i + 1, before(i + 1))
      OBVIOUS
    <3>2. i + 1 \in 1..Len(table) /\ i <= Len(table) /\ (i + 1) - 1 = i /\ (i + 1) + 1 = i + 2
      BY <1>0, <3>1
    <3>3. PICK s : s = before(i)
      OBVIOUS
    <3>4. LoadsTo(table, i, s)
      BY <2>4, <3>2, <3>3
    <3>5. s \in Seq(Int)
      BY <3>4 DEF LoadsTo
    <3>6. before(i + 1) = s \o piece(i + 1)
      <4>1. CASE i = 0
        <5>1. before(i + 1) = piece(i + 1) /\ s = <<>>
          <6> HIDE DEF piece
          <6> QED BY <2>2, <3>2, <3>3, <4>1
        <5>2. piece(i + 1) \in Seq(Int)
          BY <3>2
        <5> HIDE DEF piece, before
        <5> QED BY <5>1, <5>2
      <4>2. CASE i # 0
        <5>1. before(i + 1) = F[i + 1] /\ s = F[i] /\ i + 1 # 1
          BY <3>3, <4>2
        <5> HIDE DEF piece, before
        <5>2. F[i + 1] = F[(i + 1) - 1] \o piece(i + 1)
          BY <2>2, <3>2, <5>1
        <5> QED BY <3>2, <5>1, <5>2
      <4> QED BY <4>1, <4>2
    <3>7. CASE ~Kept(table, i + 1)
      <4>1. s \o piece(i + 1) = s
        BY <3>5, <3>7
      <4> HIDE DEF before, piece
      <4> QED BY <3>2, <3>4, <3>6, <3>7, <4>1, LoadsSkipped
    <3>8. CASE Kept(table, i + 1) /\ ~Orphan(table, i + 1)
      <4>1. piece(i + 1) = <<i + 1>>
        BY <3>8
      <4>2. UseIn(table, i + 1) => ResultIn(table, i + 2)
        BY <3>2, <3>8, OrphanIs
      <4> HIDE DEF before, piece
      <4> QED BY <3>2, <3>4, <3>6, <3>8, <4>1, <4>2, LoadsRow
    <3>9. CASE Kept(table, i + 1) /\ Orphan(table, i + 1)
      <4>1. piece(i + 1) = <<i + 1, -(i + 1)>>
        BY <3>9
      <4>2. UseIn(table, i + 1)
        BY <3>2, <3>9 DEF Orphan, UseIn
      <4>3. ~ResultIn(table, i + 2)
        BY <3>2, <3>9, <4>2, OrphanIs
      <4> HIDE DEF before, piece
      <4> QED BY <3>2, <3>4, <3>6, <3>9, <4>1, <4>2, <4>3, LoadsOrphan
    <3> QED BY <3>7, <3>8, <3>9
  <2>5. Nat \subseteq S
    <3> HIDE DEF S
    <3> QED BY <2>3, <2>4, NatInducts
  <2>6. Len(table) \in S
    <3> HIDE DEF S
    <3> QED BY <1>0, <2>5
  <2>7. LoadsTo(table, Len(table), before(Len(table))) /\ before(Len(table)) = Load(table)
    BY <1>0, <1>3, <2>1, <2>6
  <2> QED BY <2>7
<1> QED BY <1>2, <1>3

-----------------------------------------------------------------------------
(* A context that a provider accepts, and that stays so when rows are      *)
(* added: calls are followed by their results, or by what stands for them  *)
(* when their row is not the last and no row of results follows it.        *)
ContextFits(table, s) ==
    /\ s \in Seq(Int)
    /\ \A p \in 1..Len(s) :
         /\ s[p] \in 1..Len(table) \/ -s[p] \in 1..Len(table)
         /\ UseIn(table, s[p]) => PairedAt(table, s, p) /\ s[p] < Len(table)
         /\ s[p] < 0 \/ ResultIn(table, s[p]) => Asked(table, s, p)

Plain(row) == row.kind \notin {"use", "result"}

LEMMA ContextGrows ==
    ASSUME NEW table, Len(table) \in Nat, NEW s, ContextFits(table, s),
           NEW other, Len(other) \in Nat, Len(table) <= Len(other),
           \A k \in 1..Len(table) : other[k] = table[k]
    PROVE  ContextFits(other, s)
<1>1. \A k \in 1..Len(table) : /\ UseIn(other, k) <=> UseIn(table, k)
                               /\ ResultIn(other, k) <=> ResultIn(table, k)
  BY DEF UseIn, ResultIn
<1>2. s \in Seq(Int) /\ Len(s) \in Nat
  BY DEF ContextFits
<1>3. ASSUME NEW p \in 1..Len(s)
      PROVE  /\ s[p] \in 1..Len(other) \/ -s[p] \in 1..Len(other)
             /\ UseIn(other, s[p]) => PairedAt(other, s, p) /\ s[p] < Len(other)
             /\ s[p] < 0 \/ ResultIn(other, s[p]) => Asked(other, s, p)
  <2>0. s[p] \in Int
    BY <1>2
  <2>1. s[p] \in 1..Len(table) \/ -s[p] \in 1..Len(table)
    BY DEF ContextFits
  <2>2. s[p] \in 1..Len(other) \/ -s[p] \in 1..Len(other)
    BY <2>0, <2>1
  <2>3. ASSUME UseIn(other, s[p]) PROVE PairedAt(other, s, p) /\ s[p] < Len(other)
    <3>1. s[p] \in 1..Len(table) /\ UseIn(table, s[p])
      BY <1>1, <2>0, <2>1, <2>3 DEF UseIn
    <3>2. PairedAt(table, s, p) /\ s[p] < Len(table)
      BY <3>1 DEF ContextFits
    <3>3. s[p] + 1 \in 1..Len(table) /\ s[p] < Len(other)
      BY <3>1, <3>2
    <3> QED BY <1>1, <3>2, <3>3 DEF PairedAt
  <2>4. ASSUME s[p] < 0 \/ ResultIn(other, s[p]) PROVE Asked(other, s, p)
    <3>1. s[p] < 0 \/ ResultIn(table, s[p])
      BY <1>1, <2>0, <2>1, <2>4
    <3>2. Asked(table, s, p)
      BY <3>1 DEF ContextFits
    <3> QED BY <1>1, <3>2 DEF Asked, UseIn
  <2> QED BY <2>2, <2>3, <2>4
<1> QED BY <1>2, <1>3 DEF ContextFits

LEMMA LoadFits ==
    ASSUME NEW table, TableFits(table), NEW row, Plain(row)
    PROVE  ContextFits(Append(table, row), Load(table)) /\ AllKept(table, Load(table)) /\ Ascends(Load(table))
<1>1. PICK s : s = Load(table)
  OBVIOUS
<1>2. PICK other : other = Append(table, row)
  OBVIOUS
<1>3. LoadsTo(table, Len(table), s)
  BY <1>1, Loaded
<1>4. s \in Seq(Int) /\ Len(s) \in Nat /\ Len(table) \in Nat
  BY <1>3 DEF LoadsTo, TableFits
<1>5. /\ Len(other) = Len(table) + 1 /\ other[Len(table) + 1] = row
      /\ \A k \in 1..Len(table) : other[k] = table[k]
  BY <1>2, AppendedRow DEF TableFits
<1>6. \A k : /\ UseIn(other, k) <=> UseIn(table, k)
             /\ ResultIn(other, k) <=> ResultIn(table, k)
  <2>1. \A k : k \in 1..Len(other) <=> k \in 1..Len(table) \/ k = Len(table) + 1
    BY <1>4, <1>5
  <2>2. Len(table) + 1 \notin 1..Len(table)
    BY <1>4
  <2> QED BY <1>5, <2>1, <2>2 DEF UseIn, ResultIn, Plain
<1>7. ASSUME NEW p \in 1..Len(s)
      PROVE  /\ s[p] \in 1..Len(other) \/ -s[p] \in 1..Len(other)
             /\ UseIn(other, s[p]) => PairedAt(other, s, p) /\ s[p] < Len(other)
             /\ s[p] < 0 \/ ResultIn(other, s[p]) => Asked(other, s, p)
  <2>1. EntryFits(table, Len(table), s, p) /\ s[p] \in Int
    BY <1>3, <1>4 DEF LoadsTo
  <2>2. s[p] \in 1..Len(table) \/ -s[p] \in 1..Len(table)
    BY <2>1 DEF EntryFits
  <2>3. s[p] \in 1..Len(other) \/ -s[p] \in 1..Len(other)
    BY <1>4, <1>5, <2>1, <2>2
  <2>4. ~ResultIn(table, Len(table) + 1)
    BY <1>4 DEF ResultIn
  <2>5. ASSUME UseIn(other, s[p]) PROVE PairedAt(other, s, p) /\ s[p] < Len(other)
    <3>1. UseIn(table, s[p])
      BY <1>6, <2>5
    <3>2. PairedAt(table, s, p)
      BY <2>1, <2>4, <3>1 DEF EntryFits
    <3>3. s[p] < Len(other)
      BY <1>4, <1>5, <3>1 DEF UseIn
    <3> QED BY <1>6, <3>2, <3>3 DEF PairedAt
  <2>6. s[p] < 0 \/ ResultIn(other, s[p]) => Asked(other, s, p)
    BY <1>6, <2>1 DEF EntryFits, Asked
  <2> QED BY <2>3, <2>5, <2>6
<1>8. ContextFits(other, s)
  BY <1>4, <1>7 DEF ContextFits
<1>9. AllKept(table, s) /\ Ascends(s)
  BY <1>3 DEF LoadsTo, EntryFits, AllKept
<1> QED BY <1>1, <1>2, <1>8, <1>9

LEMMA ContextPlain ==
    ASSUME NEW table, Len(table) \in Nat, NEW s, ContextFits(table, s), NEW k \in 1..Len(table), Plain(table[k])
    PROVE  ContextFits(table, Append(s, k))
<1> DEFINE t == Append(s, k)
<1>0. s \in Seq(Int) /\ Len(s) \in Nat /\ k \in Int
  BY DEF ContextFits
<1>1. /\ t \in Seq(Int) /\ Len(t) = Len(s) + 1 /\ t[Len(s) + 1] = k
      /\ \A p \in 1..Len(s) : t[p] = s[p]
  BY <1>0
<1> HIDE DEF t
<1>2. ASSUME NEW p \in 1..Len(t)
      PROVE  /\ t[p] \in 1..Len(table) \/ -t[p] \in 1..Len(table)
             /\ UseIn(table, t[p]) => PairedAt(table, t, p) /\ t[p] < Len(table)
             /\ t[p] < 0 \/ ResultIn(table, t[p]) => Asked(table, t, p)
  <2>1. CASE p = Len(s) + 1
    <3>1. t[p] = k /\ ~(k < 0) /\ ~UseIn(table, k) /\ ~ResultIn(table, k)
      BY <1>1, <2>1 DEF Plain, UseIn, ResultIn
    <3> QED BY <3>1
  <2>2. CASE p # Len(s) + 1
    <3>1. p \in 1..Len(s) /\ t[p] = s[p] /\ (p > 1 => p - 1 \in 1..Len(s) /\ t[p-1] = s[p-1])
      <4>1. p \in 1..Len(s)
        BY <1>0, <1>1, <2>2
      <4>2. p > 1 => p - 1 \in 1..Len(s)
        BY <1>0, <4>1
      <4> QED BY <1>1, <4>1, <4>2
    <3>2. Asked(table, s, p) => Asked(table, t, p)
      BY <3>1 DEF Asked
    <3>3. ASSUME PairedAt(table, s, p) PROVE PairedAt(table, t, p)
      <4>1. p < Len(s)
        BY <3>3 DEF PairedAt
      <4>2. p + 1 \in 1..Len(s) /\ p < Len(t)
        <5>1. p \in Nat /\ p >= 1 /\ Len(s) \in Nat /\ Len(t) \in Nat /\ Len(s) < Len(t)
          BY <1>0, <1>1, <3>1
        <5> QED BY ONLY <4>1, <5>1
      <4>3. t[p+1] = s[p+1]
        BY <1>1, <4>2
      <4> QED BY <3>1, <3>3, <4>2, <4>3 DEF PairedAt
    <3> QED BY <3>1, <3>2, <3>3 DEF ContextFits
  <2> QED BY <2>1, <2>2
<1> QED BY <1>1, <1>2 DEF ContextFits, t

LEMMA ContextRound ==
    ASSUME NEW table, Len(table) \in Nat, NEW s, ContextFits(table, s), NEW u, UseIn(table, u), ResultIn(table, u + 1)
    PROVE  ContextFits(table, s \o <<u, u + 1>>)
<1> DEFINE t == s \o <<u, u + 1>>
<1>0. s \in Seq(Int) /\ Len(s) \in Nat /\ u \in Int /\ u > 0
  BY DEF ContextFits, UseIn
<1>1. /\ t \in Seq(Int) /\ Len(t) = Len(s) + 2 /\ t[Len(s) + 1] = u /\ t[Len(s) + 2] = u + 1
      /\ \A p \in 1..Len(s) : t[p] = s[p]
  BY <1>0
<1> HIDE DEF t
<1>2. ASSUME NEW p \in 1..Len(t)
      PROVE  /\ t[p] \in 1..Len(table) \/ -t[p] \in 1..Len(table)
             /\ UseIn(table, t[p]) => PairedAt(table, t, p) /\ t[p] < Len(table)
             /\ t[p] < 0 \/ ResultIn(table, t[p]) => Asked(table, t, p)
  <2>1. CASE p = Len(s) + 1
    <3>1. t[p] = u /\ ~(u < 0) /\ ~ResultIn(table, u) /\ u \in 1..Len(table)
      BY <1>0, <1>1, <2>1 DEF UseIn, ResultIn
    <3>2. u < Len(table)
      BY <1>0 DEF ResultIn
    <3>3. p < Len(t) /\ p + 1 = Len(s) + 2
      BY <1>0, <1>1, <2>1
    <3>4. PairedAt(table, t, p)
      BY <1>1, <3>1, <3>3 DEF PairedAt
    <3> QED BY <3>1, <3>2, <3>4
  <2>2. CASE p = Len(s) + 2
    <3>1. t[p] = u + 1 /\ u + 1 \in 1..Len(table) /\ ~UseIn(table, u + 1)
      BY <1>1, <2>2 DEF UseIn, ResultIn
    <3>2. p > 1 /\ p - 1 = Len(s) + 1
      BY <1>0, <2>2
    <3>3. Asked(table, t, p)
      BY <1>1, <3>2 DEF Asked
    <3> QED BY <3>1, <3>3
  <2>3. CASE p # Len(s) + 1 /\ p # Len(s) + 2
    <3>1. p \in 1..Len(s) /\ t[p] = s[p] /\ (p > 1 => p - 1 \in 1..Len(s) /\ t[p-1] = s[p-1])
      <4>1. p \in 1..Len(s)
        BY <1>0, <1>1, <2>3
      <4>2. p > 1 => p - 1 \in 1..Len(s)
        BY <1>0, <4>1
      <4> QED BY <1>1, <4>1, <4>2
    <3>2. Asked(table, s, p) => Asked(table, t, p)
      BY <3>1 DEF Asked
    <3>3. ASSUME PairedAt(table, s, p) PROVE PairedAt(table, t, p)
      <4>1. p < Len(s)
        BY <3>3 DEF PairedAt
      <4>2. p + 1 \in 1..Len(s) /\ p < Len(t)
        <5>1. p \in Nat /\ p >= 1 /\ Len(s) \in Nat /\ Len(t) \in Nat /\ Len(s) < Len(t)
          BY <1>0, <1>1, <3>1
        <5> QED BY ONLY <4>1, <5>1
      <4>3. t[p+1] = s[p+1]
        BY <1>1, <4>2
      <4> QED BY <3>1, <3>3, <4>2, <4>3 DEF PairedAt
    <3> QED BY <3>1, <3>2, <3>3 DEF ContextFits
  <2> QED BY <2>1, <2>2, <2>3
<1> QED BY <1>1, <1>2 DEF ContextFits, t

LEMMA PutFirst ==
    ASSUME NEW k \in Int, NEW s \in Seq(Int)
    PROVE  /\ <<k>> \o s \in Seq(Int) /\ Len(<<k>> \o s) = 1 + Len(s) /\ (<<k>> \o s)[1] = k
           /\ \A p \in 1..Len(s) : (<<k>> \o s)[p + 1] = s[p]
<1> DEFINE head == <<k>>
           all == head \o s
<1>1. head \in Seq(Int) /\ Len(head) = 1 /\ head[1] = k
  OBVIOUS
<1> HIDE DEF head
<1>2. /\ all \in Seq(Int) /\ Len(all) = Len(head) + Len(s)
      /\ \A p \in 1..Len(head)+Len(s) : all[p] = IF p <= Len(head) THEN head[p] ELSE s[p - Len(head)]
  BY <1>1, ConcatProperties
<1>3. Len(s) \in Nat
  OBVIOUS
<1> HIDE DEF all
<1>4. all[1] = k
  BY <1>1, <1>2, <1>3
<1>5. ASSUME NEW p \in 1..Len(s) PROVE all[p + 1] = s[p]
  <2>1. p + 1 \in 1..Len(head)+Len(s) /\ ~(p + 1 <= Len(head)) /\ (p + 1) - Len(head) = p
    BY <1>1, <1>3
  <2> QED BY <1>2, <2>1
<1> QED BY <1>1, <1>2, <1>4, <1>5 DEF all, head

(* What is left after a cut between two rounds, behind a summary.          *)
LEMMA ContextCut ==
    ASSUME NEW table, Len(table) \in Nat, NEW s, ContextFits(table, s), NEW cut \in 2..Len(s),
           ~(s[cut] < 0 \/ ResultIn(table, s[cut])), NEW k \in 1..Len(table), Plain(table[k])
    PROVE  /\ ContextFits(table, <<k>> \o SubSeq(s, cut, Len(s)))
           /\ Len(<<k>> \o SubSeq(s, cut, Len(s))) = Len(s) - cut + 2
           /\ (<<k>> \o SubSeq(s, cut, Len(s)))[1] = k
           /\ \A p \in 2..Len(s)-cut+2 : (<<k>> \o SubSeq(s, cut, Len(s)))[p] = s[p + cut - 2]
<1> DEFINE rest == SubSeq(s, cut, Len(s))
           t == <<k>> \o rest
<1>0. s \in Seq(Int) /\ Len(s) \in Nat /\ k \in Int /\ cut \in Nat /\ cut >= 2 /\ cut <= Len(s)
  BY DEF ContextFits
<1>1. /\ rest \in Seq(Int) /\ Len(rest) = Len(s) - cut + 1
      /\ \A p \in 1..Len(s)-cut+1 : rest[p] = s[cut + p - 1]
  BY <1>0
<1> HIDE DEF rest
<1>2. /\ t \in Seq(Int) /\ Len(t) = Len(s) - cut + 2 /\ t[1] = k
      /\ \A p \in 1..Len(rest) : t[p + 1] = rest[p]
  <2>3. /\ t \in Seq(Int) /\ Len(t) = 1 + Len(rest) /\ t[1] = k
        /\ \A p \in 1..Len(rest) : t[p + 1] = rest[p]
    BY <1>0, <1>1, PutFirst
  <2>5. 1 + Len(rest) = Len(s) - cut + 2
    BY <1>0, <1>1
  <2> QED BY <2>3, <2>5
<1>3. ASSUME NEW p \in 2..Len(s)-cut+2 PROVE t[p] = s[p + cut - 2]
  <2>1. p - 1 \in 1..Len(rest) /\ p - 1 \in 1..Len(s)-cut+1 /\ (p - 1) + 1 = p /\ cut + (p - 1) - 1 = p + cut - 2
    BY <1>0, <1>1
  <2> HIDE DEF t
  <2> QED BY <1>1, <1>2, <2>1
<1> HIDE DEF t
<1>4. ASSUME NEW p \in 1..Len(t)
      PROVE  /\ t[p] \in 1..Len(table) \/ -t[p] \in 1..Len(table)
             /\ UseIn(table, t[p]) => PairedAt(table, t, p) /\ t[p] < Len(table)
             /\ t[p] < 0 \/ ResultIn(table, t[p]) => Asked(table, t, p)
  <2>1. CASE p = 1
    <3>1. t[p] = k /\ ~(k < 0) /\ ~UseIn(table, k) /\ ~ResultIn(table, k)
      BY <1>2, <2>1 DEF Plain, UseIn, ResultIn
    <3> QED BY <3>1
  <2>2. CASE p # 1
    <3>0. p \in 2..Len(s)-cut+2 /\ p \in Nat
      BY <1>0, <1>2, <2>2
    <3>1. PICK q : q = p + cut - 2
      OBVIOUS
    <3>2. q \in 1..Len(s) /\ q \in Nat /\ cut <= q /\ t[p] = s[q]
      BY <1>0, <1>3, <3>0, <3>1
    <3>3. /\ s[q] \in 1..Len(table) \/ -s[q] \in 1..Len(table)
          /\ UseIn(table, s[q]) => PairedAt(table, s, q) /\ s[q] < Len(table)
          /\ s[q] < 0 \/ ResultIn(table, s[q]) => Asked(table, s, q)
      BY <3>2 DEF ContextFits
    <3>4. ASSUME PairedAt(table, s, q) PROVE PairedAt(table, t, p)
      <4>1. q < Len(s)
        BY <3>4 DEF PairedAt
      <4>2. p + 1 \in 2..Len(s)-cut+2 /\ (p + 1) + cut - 2 = q + 1 /\ p < Len(t)
        BY <1>0, <1>2, <3>0, <3>1, <4>1
      <4>3. t[p+1] = s[q+1]
        BY <1>3, <4>2
      <4> QED BY <3>2, <3>4, <4>2, <4>3 DEF PairedAt
    <3>5. ASSUME s[q] < 0 \/ ResultIn(table, s[q]) PROVE Asked(table, t, p)
      <4>1. Asked(table, s, q) /\ q # cut
        BY <3>3, <3>5
      <4>2. p - 1 \in 2..Len(s)-cut+2 /\ (p - 1) + cut - 2 = q - 1 /\ p > 1
        BY <1>0, <3>0, <3>1, <3>2, <4>1
      <4>3. t[p-1] = s[q-1]
        BY <1>3, <4>2
      <4> QED BY <4>1, <4>2, <4>3 DEF Asked
    <3> QED BY <3>2, <3>3, <3>4, <3>5
  <2> QED BY <2>1, <2>2
<1>5. ContextFits(table, t)
  BY <1>2, <1>4 DEF ContextFits
<1> QED BY <1>2, <1>3, <1>5 DEF t, rest

-----------------------------------------------------------------------------
(* A summary covers, of each run, the rows up to the last one told to it.  *)
LEMMA CoveredThroughSays ==
    ASSUME Len(rows) \in Nat, NEW S, S \subseteq 1..Len(rows), NEW c \in CoveredThrough(S)
    PROVE  /\ \E n \in S : rows[n].turn = c[1] /\ CountOf(rows, c[1], n) = c[2]
           /\ \A n \in S : rows[n].turn = c[1] => CountOf(rows, c[1], n) <= c[2]
<1> DEFINE number(n) == CountOf(rows, rows[n].turn, n)
           own(t) == {m \in S : rows[m].turn = t}
           numbers(t) == {number(n) : n \in own(t)}
<1>1. \A n : NumberOf(n) = number(n)
  BY DEF NumberOf, CountOf
<1>2. PICK k \in S : c = <<rows[k].turn, Max(numbers(rows[k].turn))>>
  <2>1. PICK t \in {rows[n].turn : n \in S} : c = <<t, Max({NumberOf(n) : n \in {m \in S : rows[m].turn = t}})>>
    BY DEF CoveredThrough
  <2>2. {NumberOf(n) : n \in {m \in S : rows[m].turn = t}} = numbers(t)
    <3> HIDE DEF number
    <3> QED BY <1>1
  <2>3. PICK k \in S : t = rows[k].turn
    BY <2>1
  <2> HIDE DEF numbers
  <2> QED BY <2>1, <2>2, <2>3
<1>3. PICK t : t = rows[k].turn
  OBVIOUS
<1>4. c[1] = t /\ c[2] = Max(numbers(t))
  <2> HIDE DEF numbers
  <2> QED BY <1>2, <1>3
<1>5. PICK b : b = CountOf(rows, t, Len(rows))
  OBVIOUS
<1>6. b \in Nat
  BY <1>5, CountIsNat
<1>7. ASSUME NEW n \in own(t) PROVE number(n) \in 0..b /\ number(n) = CountOf(rows, t, n)
  <2>1. n \in Nat /\ n <= Len(rows) /\ rows[n].turn = t
    OBVIOUS
  <2>2. CountOf(rows, t, n) \in Nat /\ CountOf(rows, t, n) <= b
    BY <1>5, <2>1, CountIsNat, CountGrows
  <2> QED BY <1>6, <2>1, <2>2
<1>8. numbers(t) \subseteq 0..b /\ k \in own(t) /\ numbers(t) # {}
  <2>1. k \in own(t)
    BY <1>3
  <2> HIDE DEF number, own
  <2> QED BY <1>7, <2>1
<1>9. PICK N : N = numbers(t)
  OBVIOUS
<1>10. Max(N) \in N /\ \A x \in N : Max(N) >= x
  <2>1. N \subseteq 0..b /\ N # {}
    BY <1>8, <1>9
  <2> QED BY <1>6, <2>1, MaxOf
<1>11. c[2] = Max(N)
  <2> HIDE DEF numbers
  <2> QED BY <1>4, <1>9
<1>12. \E n \in own(t) : number(n) = c[2]
  <2> HIDE DEF number, own
  <2> QED BY <1>9, <1>10, <1>11
<1>13. \A n \in own(t) : number(n) <= c[2]
  <2>1. \A n \in own(t) : number(n) \in N
    <3> HIDE DEF number, own
    <3> QED BY <1>9
  <2>2. \A n \in own(t) : c[2] >= number(n)
    <3> HIDE DEF number, own
    <3> QED BY <1>10, <1>11, <2>1
  <2>3. c[2] \in Nat
    <3> HIDE DEF number, own
    <3> QED BY <1>7, <1>12
  <2>4. \A n \in own(t) : number(n) \in Nat
    <3> HIDE DEF number, own
    <3> QED BY <1>7
  <2> HIDE DEF number, own
  <2> QED BY <2>2, <2>3, <2>4
<1>14. \A n \in own(t) : n \in S /\ rows[n].turn = t /\ number(n) = CountOf(rows, t, n)
  BY <1>7
<1>15. \A n \in S : rows[n].turn = t => n \in own(t)
  OBVIOUS
<1> HIDE DEF number, own
<1> QED BY <1>4, <1>12, <1>13, <1>14, <1>15

(* The engine's round is the last row while its calls run.                 *)
RoundStored ==
    phase = "tools" => /\ UseIn(rows, Len(rows)) /\ rows[Len(rows)].turn = turn
                       /\ rows[Len(rows)].ids = {calls[i].id : i \in 1..Len(calls)}

LEMMA CutIsSafe ==
    ASSUME NEW p \in 2..Len(mem), AlignedCut(p) > 0
    PROVE  AlignedCut(p) \in 2..p /\ SafeCut(AlignedCut(p))
<1> DEFINE S == {0} \cup {q \in 2..p : SafeCut(q)}
<1>1. S \subseteq 0..p /\ S # {} /\ p \in Nat
  OBVIOUS
<1>2. AlignedCut(p) \in S
  <2>1. AlignedCut(p) = Max(S)
    BY DEF AlignedCut
  <2> HIDE DEF S
  <2> QED BY <1>1, <2>1, MaxOf
<1> QED BY <1>2

Told(cut) == {n \in 1..Len(rows) : \E p \in 1..cut-1 : mem[p] = n}
Summary(covers, holds) == [Row("summary") EXCEPT !.covers = covers, !.holds = holds]

LEMMA CompactSays ==
    ASSUME ContextFits(rows, mem), Compact
    PROVE  \E cut \in 2..Len(mem) :
             /\ ~(mem[cut] < 0 \/ ResultIn(rows, mem[cut])) /\ ~UseIn(rows, mem[cut-1])
             /\ rows' = Append(rows, Summary(CoveredThrough(Told(cut)), Content(rows, SubSeq(mem, 1, cut - 1))))
             /\ mem' = <<Len(rows) + 1>> \o SubSeq(mem, cut, Len(mem))
<1>1. PICK p \in 2..Len(mem) :
        /\ AlignedCut(p) > 0
        /\ rows' = Append(rows,
                 [Row("summary") EXCEPT !.covers = CoveredThrough(ToSet(SubSeq(mem, 1, AlignedCut(p) - 1)) \cap (1..Len(rows))),
                                        !.holds = Content(rows, SubSeq(mem, 1, AlignedCut(p) - 1))])
        /\ mem' = <<Len(rows) + 1>> \o SubSeq(mem, AlignedCut(p), Len(mem))
  BY DEF Compact
<1>2. PICK cut : cut = AlignedCut(p)
  OBVIOUS
<1>3. cut \in 2..p /\ SafeCut(cut)
  BY <1>1, <1>2, CutIsSafe
<1>4. mem \in Seq(Int) /\ Len(mem) \in Nat /\ cut \in 2..Len(mem)
  BY <1>3 DEF ContextFits
<1>5. ~(mem[cut] < 0 \/ ResultIn(rows, mem[cut])) /\ ~UseIn(rows, mem[cut-1])
  BY <1>3 DEF SafeCut, IsResult, IsUse, ResultIn, UseIn
<1>6. PICK told : told = SubSeq(mem, 1, cut - 1)
  OBVIOUS
<1>7. Len(told) = cut - 1 /\ DOMAIN told = 1..cut-1 /\ \A q \in 1..cut-1 : told[q] = mem[q]
  <2>1. cut - 1 \in Nat /\ 1 <= cut - 1 /\ cut - 1 <= Len(mem)
    BY <1>4
  <2> QED BY <1>4, <1>6, <2>1, SubSeqProperties
<1>8. ToSet(told) \cap (1..Len(rows)) = Told(cut)
  BY <1>7 DEF Told, ToSet
<1> QED BY <1>1, <1>2, <1>4, <1>5, <1>6, <1>8 DEF Summary

LEMMA SummaryFits ==
    ASSUME TableFits(rows), ContextFits(rows, mem), NEW cut \in 2..Len(mem), ~UseIn(rows, mem[cut-1]),
           NEW holds
    PROVE  TableFits(Append(rows, Summary(CoveredThrough(Told(cut)), holds)))
<1>1. PICK row : row = Summary(CoveredThrough(Told(cut)), holds)
  OBVIOUS
<1>2. row.kind = "summary" /\ row.covers = CoveredThrough(Told(cut))
  BY <1>1 DEF Summary, Row
<1>3. PICK all : all = Append(rows, row)
  OBVIOUS
<1>4. /\ Len(rows) \in Nat /\ all[Len(rows) + 1] = row /\ \A k \in 1..Len(rows) : all[k] = rows[k]
  BY <1>3, AppendedRow DEF TableFits
<1>5. mem \in Seq(Int) /\ Len(mem) \in Nat
  BY DEF ContextFits
<1>6. ASSUME NEW c \in row.covers
      PROVE  /\ c[2] \in Nat /\ c[2] <= CountOf(rows, c[1], Len(rows))
             /\ \A k \in 1..Len(rows) : rows[k].kind = "result" /\ rows[k].turn = c[1] =>
                  CountOf(rows, c[1], k-1) # c[2]
  <2>1. Told(cut) \subseteq 1..Len(rows)
    BY DEF Told
  <2>2. /\ \E n \in Told(cut) : rows[n].turn = c[1] /\ CountOf(rows, c[1], n) = c[2]
        /\ \A n \in Told(cut) : rows[n].turn = c[1] => CountOf(rows, c[1], n) <= c[2]
    BY <1>2, <1>4, <1>6, <2>1, CoveredThroughSays
  <2>3. PICK n \in Told(cut) : rows[n].turn = c[1] /\ CountOf(rows, c[1], n) = c[2]
    BY <2>2
  <2>4. n \in 1..Len(rows) /\ n \in Nat /\ n <= Len(rows)
    BY <2>1, <2>3
  <2>5. c[2] \in Nat /\ c[2] <= CountOf(rows, c[1], Len(rows))
    <3>1. CountOf(rows, c[1], n) \in Nat
      BY <2>4, CountIsNat
    <3>2. CountOf(rows, c[1], n) <= CountOf(rows, c[1], Len(rows))
      BY <1>4, <2>4, CountGrows
    <3> QED BY <2>3, <3>1, <3>2
  <2>6. ASSUME NEW k \in 1..Len(rows), rows[k].kind = "result", rows[k].turn = c[1],
               CountOf(rows, c[1], k - 1) = c[2]
        PROVE  FALSE
    <3>1. /\ k \in Nat /\ k - 1 \in Nat /\ (k - 1) + 1 = k /\ k - 1 \in 1..Len(rows)
          /\ rows[k-1].kind = "use" /\ rows[k-1].turn = c[1]
      BY <1>4, <2>6 DEF TableFits, RowFits
    <3>2. n = k - 1
      <4>1. n < k - 1 => CountOf(rows, rows[k-1].turn, n) < CountOf(rows, rows[k-1].turn, k - 1)
        BY <2>4, <3>1, CountAbove
      <4>2. k - 1 < n => CountOf(rows, rows[n].turn, k - 1) < CountOf(rows, rows[n].turn, n)
        BY <2>4, <3>1, CountAbove
      <4>3. rows[n].turn = c[1] /\ rows[k-1].turn = c[1]
        BY <2>3, <3>1
      <4>4. (n < k - 1 => c[2] < c[2]) /\ (k - 1 < n => c[2] < c[2])
        BY <2>3, <2>6, <4>1, <4>2, <4>3
      <4>5. c[2] \in Nat /\ n \in Nat /\ k - 1 \in Nat
        BY <2>4, <2>5, <3>1
      <4> QED BY ONLY <4>4, <4>5
    <3>3. PICK p \in 1..cut-1 : mem[p] = n
      BY <2>3 DEF Told
    <3>4. p \in 1..Len(mem) /\ p \in Nat /\ UseIn(rows, mem[p]) /\ ResultIn(rows, mem[p] + 1)
      <4>1. p \in 1..Len(mem) /\ p \in Nat
        BY <1>5
      <4>2. n + 1 = k
        BY <3>1, <3>2
      <4> QED BY <2>4, <2>6, <3>1, <3>2, <3>3, <4>1, <4>2 DEF UseIn, ResultIn
    <3>5. PairedAt(rows, mem, p)
      BY <3>4 DEF ContextFits
    <3>6. mem[p+1] = k
      BY <3>1, <3>2, <3>3, <3>4, <3>5 DEF PairedAt
    <3>7. p # cut - 1
      BY <3>4
    <3>8. p + 1 \in 1..cut-1
      <4>1. cut \in Nat /\ p \in Nat /\ p >= 1 /\ p <= cut - 1
        BY <1>5
      <4> QED BY ONLY <3>7, <4>1
    <3>9. k \in Told(cut)
      BY <3>6, <3>8 DEF Told
    <3>10. CountOf(rows, c[1], k) <= c[2]
      BY <2>2, <2>6, <3>9
    <3>11. CountOf(rows, c[1], k) = CountOf(rows, c[1], k - 1) + 1
      BY <2>6, <3>1, CountNext
    <3> QED BY ONLY <2>5, <2>6, <3>10, <3>11
  <2> QED BY <2>5, <2>6
<1>7. \A t : \A k \in 0..Len(rows) : CountOf(all, t, k) = CountOf(rows, t, k)
  <2>1. ASSUME NEW t, NEW k \in 0..Len(rows) PROVE CountOf(all, t, k) = CountOf(rows, t, k)
    <3>1. k \in Nat /\ \A j \in 1..k : all[j] = rows[j]
      BY <1>4
    <3> QED BY <3>1, CountSame
  <2> QED BY <2>1
<1>8. RowFits(all, Len(rows) + 1)
  <2>1. (Len(rows) + 1) - 1 = Len(rows) /\ Len(rows) \in 0..Len(rows)
    BY <1>4
  <2>2. \A k \in 1..Len(rows) : k - 1 \in 0..Len(rows)
    BY <1>4
  <2> QED BY <1>2, <1>4, <1>6, <1>7, <2>1, <2>2 DEF RowFits
<1> QED BY <1>1, <1>3, <1>8, TableGrows

-----------------------------------------------------------------------------
(* The context of a run that was compacted n times.  Its last summary is   *)
(* its head; behind that head it is in order, and holds no other summary   *)
(* of the run.  The next run loads all of its rows, but for those that     *)
(* were overtaken; until a second compaction there are none.               *)
OvertakenIn(table, k) ==
    \E m \in k+1..Len(table) : /\ table[m].kind = "summary" /\ table[m].turn = table[k].turn
                               /\ Covered(table, m)
Spared(table, k) == Kept(table, k) \/ (table[k].kind # "summary" /\ OvertakenIn(table, k))
OwnSummary(table, k, t) == table[k].kind = "summary" /\ table[k].turn = t

Behind(n) == IF n = 0 THEN 1 ELSE 2
Rises(s, i) == \A p, q \in i..Len(s) : p < q /\ s[p] > 0 /\ s[q] > 0 => s[p] < s[q]
Headed(table, s, n, t) ==
    /\ n > 0 => Len(s) > 0 /\ s[1] > 0 /\ OwnSummary(table, s[1], t)
    /\ \A p \in Behind(n)..Len(s) : s[p] > 0 => ~OwnSummary(table, s[p], t)
Dated(table, t) == t \in Nat /\ \A k \in 1..Len(table) : table[k].turn \in Nat /\ table[k].turn <= t

Standing(table, s, n, t) ==
    /\ \A p \in 1..Len(s) : s[p] > 0 => Spared(table, s[p])
    /\ n <= 1 => AllKept(table, s)
    /\ Rises(s, Behind(n)) /\ Headed(table, s, n, t)
ContextInv(table, s, n, t) == ContextFits(table, s) /\ Dated(table, t) /\ Standing(table, s, n, t)

LEMMA CoveredStill ==
    ASSUME NEW table, TableFits(table), NEW row, NEW k \in 1..Len(table), Covered(table, k)
    PROVE  Covered(Append(table, row), k)
<1>1. PICK all : all = Append(table, row)
  OBVIOUS
<1>2. /\ Len(table) \in Nat /\ Len(all) = Len(table) + 1
      /\ \A j \in 1..Len(table) : all[j] = table[j]
  BY <1>1, AppendedRow DEF TableFits
<1>3. k \in Nat /\ all[k] = table[k] /\ \A j \in 1..k : all[j] = table[j]
  BY <1>2
<1>4. CountOf(all, table[k].turn, k) = CountOf(table, table[k].turn, k)
  BY <1>3, CountSame
<1>5. PICK m \in 1..Len(table) : \E c \in table[m].covers : CoveredBy(table, k, c)
  BY CoveredSays
<1>6. m \in 1..Len(all) /\ \E c \in all[m].covers : CoveredBy(all, k, c)
  BY <1>2, <1>3, <1>4, <1>5 DEF CoveredBy
<1> QED BY <1>1, <1>6, CoveredSays

LEMMA OvertakenStill ==
    ASSUME NEW table, TableFits(table), NEW row, NEW k \in 1..Len(table), OvertakenIn(table, k)
    PROVE  OvertakenIn(Append(table, row), k)
<1>1. PICK all : all = Append(table, row)
  OBVIOUS
<1>2. /\ Len(table) \in Nat /\ Len(all) = Len(table) + 1
      /\ \A j \in 1..Len(table) : all[j] = table[j]
  BY <1>1, AppendedRow DEF TableFits
<1>3. PICK m \in k+1..Len(table) :
        table[m].kind = "summary" /\ table[m].turn = table[k].turn /\ Covered(table, m)
  BY DEF OvertakenIn
<1>4. m \in k+1..Len(all) /\ m \in 1..Len(table)
  BY <1>2
<1>5. Covered(all, m)
  BY <1>1, <1>3, <1>4, CoveredStill
<1>6. OvertakenIn(all, k)
  BY <1>2, <1>3, <1>4, <1>5 DEF OvertakenIn
<1> QED BY <1>1, <1>6

LEMMA KeptStill ==
    ASSUME NEW table, TableFits(table), NEW row, NEW k \in 1..Len(table), Kept(table, k),
           \A c \in row.covers : ~CoveredBy(table, k, c)
    PROVE  Kept(Append(table, row), k)
<1>1. PICK all : all = Append(table, row)
  OBVIOUS
<1>2. /\ Len(table) \in Nat /\ Len(all) = Len(table) + 1 /\ all[Len(table) + 1] = row
      /\ \A j \in 1..Len(table) : all[j] = table[j]
  BY <1>1, AppendedRow DEF TableFits
<1>3. k \in Nat /\ all[k] = table[k] /\ \A j \in 1..k : all[j] = table[j]
  BY <1>2
<1>4. CountOf(all, table[k].turn, k) = CountOf(table, table[k].turn, k)
  BY <1>3, CountSame
<1>5. \A c : CoveredBy(all, k, c) <=> CoveredBy(table, k, c)
  BY <1>3, <1>4 DEF CoveredBy
<1>6. ~Covered(all, k)
  <2>1. ASSUME NEW m \in 1..Len(all), NEW c \in all[m].covers PROVE ~CoveredBy(all, k, c)
    <3>1. CASE m = Len(table) + 1
      BY <1>2, <1>5, <2>1, <3>1
    <3>2. CASE m # Len(table) + 1
      <4>1. m \in 1..Len(table) /\ c \in table[m].covers
        BY <1>2, <2>1, <3>2
      <4>2. ~Covered(table, k)
        BY DEF Kept
      <4>3. ~CoveredBy(table, k, c)
        BY <4>1, <4>2, CoveredSays
      <4> QED BY <1>5, <4>3
    <3> QED BY <3>1, <3>2
  <2> QED BY <2>1, CoveredSays
<1> QED BY <1>1, <1>3, <1>6 DEF Kept

LEMMA SparedStill ==
    ASSUME NEW table, TableFits(table), NEW row, row.covers = {}, NEW k \in 1..Len(table), Spared(table, k)
    PROVE  Spared(Append(table, row), k)
<1>1. Append(table, row)[k] = table[k]
  BY AppendedRow DEF TableFits
<1>2. Kept(table, k) => Kept(Append(table, row), k)
  BY KeptStill
<1>3. OvertakenIn(table, k) => OvertakenIn(Append(table, row), k)
  BY OvertakenStill
<1> QED BY <1>1, <1>2, <1>3 DEF Spared

LEMMA NewRowKept ==
    ASSUME NEW table, TableFits(table), Len(table) > 0, table[Len(table)].kind # "partial"
    PROVE  Kept(table, Len(table))
<1>1. Len(table) \in Nat /\ Len(table) \in 1..Len(table)
  BY DEF TableFits
<1>2. ~Covered(table, Len(table))
  <2>1. ASSUME NEW m \in 1..Len(table), NEW c \in table[m].covers, CoveredBy(table, Len(table), c) PROVE FALSE
    <3>1. Len(table) < m
      BY <1>1, <2>1, CoversBefore
    <3> QED BY <1>1, <3>1
  <2> QED BY <2>1, CoveredSays
<1> QED BY <1>2 DEF Kept

LEMMA EntryPlaced ==
    ASSUME NEW table, NEW s, ContextFits(table, s), NEW p \in 1..Len(s), s[p] > 0
    PROVE  s[p] \in 1..Len(table)
<1>1. s[p] \in Int /\ (s[p] \in 1..Len(table) \/ -s[p] \in 1..Len(table))
  BY DEF ContextFits
<1> QED BY <1>1

(* Rows that cover nothing are stored, and the run is not told of them.    *)
LEMMA NotTold ==
    ASSUME NEW table, TableFits(table), NEW s, NEW n \in Nat, NEW t, ContextInv(table, s, n, t),
           NEW row, row.covers = {}, row.turn = t
    PROVE  ContextInv(Append(table, row), s, n, t)
<1>1. PICK all : all = Append(table, row)
  OBVIOUS
<1>2. /\ Len(table) \in Nat /\ Len(all) = Len(table) + 1 /\ \A j \in 1..Len(table) : all[j] = table[j]
      /\ all[Len(table) + 1] = row
  BY <1>1, AppendedRow DEF TableFits
<1>3. ContextFits(all, s)
  <2>1. ContextFits(table, s) /\ Len(all) \in Nat /\ Len(table) <= Len(all)
    BY <1>2 DEF ContextInv
  <2> QED BY <1>2, <2>1, ContextGrows
<1>4. \A p \in 1..Len(s) : s[p] > 0 => s[p] \in 1..Len(table)
  BY EntryPlaced DEF ContextInv
<1>5. ASSUME AllKept(table, s) PROVE AllKept(all, s)
  <2>1. ASSUME NEW p \in 1..Len(s), s[p] > 0 PROVE Kept(all, s[p])
    <3>1. s[p] \in 1..Len(table) /\ Kept(table, s[p])
      BY <1>4, <1>5, <2>1 DEF AllKept
    <3> QED BY <1>1, <3>1, KeptStill
  <2> QED BY <2>1 DEF AllKept
<1>6. ASSUME NEW p \in 1..Len(s), s[p] > 0 PROVE Spared(all, s[p])
  <2>1. s[p] \in 1..Len(table) /\ Spared(table, s[p])
    BY <1>4, <1>6 DEF ContextInv, Standing
  <2> QED BY <1>1, <2>1, SparedStill
<1>7. Dated(all, t)
  BY <1>2 DEF ContextInv, Dated
<1>8. Headed(all, s, n, t)
  <2>1. Headed(table, s, n, t) /\ s \in Seq(Int) /\ Len(s) \in Nat
    BY DEF ContextInv, ContextFits, Standing
  <2>2. \A p \in 1..Len(s) : s[p] > 0 => (OwnSummary(all, s[p], t) <=> OwnSummary(table, s[p], t))
    BY <1>2, <1>4 DEF OwnSummary
  <2>3. Len(s) > 0 => 1 \in 1..Len(s)
    BY <2>1
  <2>4. \A p \in Behind(n)..Len(s) : p \in 1..Len(s)
    BY <2>1 DEF Behind
  <2> QED BY <2>1, <2>2, <2>3, <2>4 DEF Headed
<1> QED BY <1>1, <1>3, <1>5, <1>6, <1>7, <1>8 DEF ContextInv, Standing

LEMMA LastOfContext ==
    ASSUME NEW s \in Seq(Int), NEW k \in Int
    PROVE  /\ Append(s, k) \in Seq(Int) /\ Len(Append(s, k)) = Len(s) + 1 /\ Append(s, k)[Len(s) + 1] = k
           /\ \A p \in 1..Len(s) : Append(s, k)[p] = s[p]
  OBVIOUS

(* An element that is kept and above all others comes last.                *)
LEMMA ComesLast ==
    ASSUME NEW table, NEW s \in Seq(Int), NEW n \in Nat, NEW t, Standing(table, s, n, t), NEW k \in Int,
           Kept(table, k), ~OwnSummary(table, k, t), \A p \in 1..Len(s) : s[p] < k
    PROVE  Standing(table, Append(s, k), n, t)
<1>1. PICK w : w = Append(s, k)
  OBVIOUS
<1>0. Len(s) \in Nat
  OBVIOUS
<1>2. /\ Len(w) = Len(s) + 1 /\ w[Len(s) + 1] = k
      /\ \A p \in 1..Len(s) : w[p] = s[p]
  BY <1>0, <1>1, LastOfContext
<1>3. \A p \in 1..Len(w) : p \in 1..Len(s) \/ p = Len(s) + 1
  BY <1>0, <1>2
<1>4. AllKept(table, s) => AllKept(table, w)
  BY <1>2, <1>3 DEF AllKept
<1>5. \A p \in 1..Len(w) : w[p] > 0 => Spared(table, w[p])
  BY <1>2, <1>3 DEF Standing, Spared
<1>6. Behind(n) \in {1, 2} /\ \A p \in Behind(n)..Len(w) : p \in 1..Len(w)
  BY <1>0, <1>2 DEF Behind
<1>7. Rises(w, Behind(n))
  <2>1. ASSUME NEW p \in Behind(n)..Len(w), NEW q \in Behind(n)..Len(w), p < q, w[p] > 0, w[q] > 0
        PROVE  w[p] < w[q]
    <3>1. p \in 1..Len(s) /\ p \in Behind(n)..Len(s)
      <4>1. p # Len(s) + 1
        BY <1>0, <1>2, <1>6, <2>1
      <4> QED BY <1>0, <1>2, <1>6, <4>1
    <3>2. CASE q \in 1..Len(s)
      <4>1. q \in Behind(n)..Len(s)
        BY <1>0, <1>6, <3>2
      <4>2. w[p] = s[p] /\ w[q] = s[q]
        BY <1>2, <3>1, <3>2
      <4> QED BY <2>1, <3>1, <4>1, <4>2 DEF Standing, Rises
    <3>3. CASE q = Len(s) + 1
      BY <1>2, <3>1, <3>3
    <3> QED BY <1>3, <1>6, <3>2, <3>3
  <2> QED BY <2>1 DEF Rises
<1>8. Headed(table, w, n, t)
  <2>1. Headed(table, s, n, t)
    BY DEF Standing
  <2>2. ASSUME n > 0 PROVE Len(w) > 0 /\ w[1] > 0 /\ OwnSummary(table, w[1], t)
    <3>1. 1 \in 1..Len(s) /\ s[1] > 0 /\ OwnSummary(table, s[1], t)
      BY <1>0, <2>1, <2>2 DEF Headed
    <3> QED BY <1>0, <1>2, <3>1
  <2>3. ASSUME NEW p \in Behind(n)..Len(w), w[p] > 0 PROVE ~OwnSummary(table, w[p], t)
    <3>1. CASE p = Len(s) + 1
      BY <1>2, <3>1
    <3>2. CASE p # Len(s) + 1
      <4>1. p \in 1..Len(s) /\ p \in Behind(n)..Len(s)
        BY <1>0, <1>2, <1>6, <3>2
      <4>2. w[p] = s[p]
        BY <1>2, <4>1
      <4> QED BY <2>1, <2>3, <4>1, <4>2 DEF Headed
    <3> QED BY <3>1, <3>2
  <2> QED BY <2>2, <2>3 DEF Headed
<1> QED BY <1>1, <1>4, <1>5, <1>7, <1>8 DEF Standing

(* A row that is neither calls nor results is stored and told.             *)
LEMMA ToldPlain ==
    ASSUME NEW table, TableFits(table), NEW s, NEW n \in Nat, NEW t, ContextInv(table, s, n, t),
           NEW row, Plain(row), row.kind \notin {"partial", "summary"}, row.covers = {}, row.turn = t
    PROVE  ContextInv(Append(table, row), Append(s, Len(table) + 1), n, t)
<1>1. PICK all : all = Append(table, row)
  OBVIOUS
<1>2. PICK k : k = Len(table) + 1
  OBVIOUS
<1>3. Len(table) \in Nat /\ Len(all) = k /\ all[k] = row /\ k \in Nat /\ k > 0
  BY <1>1, <1>2, AppendedRow DEF TableFits
<1>4. TableFits(all)
  BY <1>1, PlainGrows DEF Plain
<1>5. ContextInv(all, s, n, t)
  BY <1>1, NotTold
<1>6. ContextFits(all, Append(s, k))
  <2>1. k \in 1..Len(all) /\ Plain(all[k]) /\ Len(all) \in Nat /\ ContextFits(all, s)
    BY <1>3, <1>5 DEF ContextInv
  <2> QED BY <2>1, ContextPlain
<1>7. s \in Seq(Int) /\ k \in Int
  BY <1>3, <1>5 DEF ContextInv, ContextFits
<1>8. Kept(all, k) /\ ~OwnSummary(all, k, t)
  BY <1>3, <1>4, NewRowKept DEF OwnSummary
<1>9. \A p \in 1..Len(s) : s[p] < k
  <2>1. \A p \in 1..Len(s) : s[p] \in Int /\ (s[p] \in 1..Len(table) \/ -s[p] \in 1..Len(table))
    BY <1>7 DEF ContextInv, ContextFits
  <2> QED BY <1>2, <1>3, <2>1
<1>10. Standing(all, Append(s, k), n, t)
  BY <1>5, <1>7, <1>8, <1>9, ComesLast DEF ContextInv
<1> QED BY <1>1, <1>2, <1>5, <1>6, <1>10 DEF ContextInv

(* The results of a round are stored, and the round is told.               *)
LEMMA ToldRound ==
    ASSUME NEW table, TableFits(table), NEW s, NEW n \in Nat, NEW t, ContextInv(table, s, n, t),
           UseIn(table, Len(table)), NEW row, row.kind = "result", row.covers = {},
           table[Len(table)].ids = row.ids, table[Len(table)].turn = row.turn, row.turn = t
    PROVE  /\ TableFits(Append(table, row))
           /\ ContextInv(Append(table, row), s \o <<Len(table), Len(table) + 1>>, n, t)
<1>1. PICK all : all = Append(table, row)
  OBVIOUS
<1>2. PICK u : u = Len(table)
  OBVIOUS
<1>3. /\ u \in Nat /\ u > 0 /\ Len(all) = u + 1 /\ all[u+1] = row
      /\ \A j \in 1..u : all[j] = table[j]
  BY <1>1, <1>2, AppendedRow DEF TableFits, UseIn
<1>4. TableFits(all)
  BY <1>1, <1>2, <1>3, ResultGrows DEF UseIn
<1>5. ContextInv(all, s, n, t)
  BY <1>1, NotTold
<1>6. UseIn(all, u) /\ ResultIn(all, u + 1) /\ Len(all) \in Nat
  <2>1. u \in 1..Len(all) /\ u + 1 \in 1..Len(all) /\ u \in 1..u
    BY <1>3
  <2> QED BY <1>2, <1>3, <2>1 DEF UseIn, ResultIn
<1>7. ContextFits(all, s \o <<u, u + 1>>)
  BY <1>5, <1>6, ContextRound DEF ContextInv
<1>8. s \in Seq(Int) /\ u \in Int /\ u + 1 \in Int
  BY <1>3, <1>5 DEF ContextInv, ContextFits
<1>9. s \o <<u, u + 1>> = Append(Append(s, u), u + 1)
  BY <1>8
<1>10. PICK w : w = Append(s, u)
  OBVIOUS
<1>11. /\ w \in Seq(Int) /\ Len(w) = Len(s) + 1 /\ w[Len(s) + 1] = u
       /\ \A p \in 1..Len(s) : w[p] = s[p]
  BY <1>8, <1>10, LastOfContext
<1>12. Kept(all, u + 1) /\ Kept(all, u)
  <2>1. Kept(all, u + 1)
    BY <1>3, <1>4, NewRowKept
  <2>2. u + 1 \in 1..Len(all) /\ all[u+1].kind = "result" /\ (u + 1) - 1 = u
    BY <1>3, <1>6 DEF ResultIn
  <2> QED BY <1>4, <2>1, <2>2, KeptTogether
<1>13. ~OwnSummary(all, u, t) /\ ~OwnSummary(all, u + 1, t)
  BY <1>6 DEF OwnSummary, UseIn, ResultIn
<1>14. \A p \in 1..Len(s) : s[p] < u
  <2>1. ASSUME NEW p \in 1..Len(s) PROVE s[p] < u
    <3>1. s[p] \in Int /\ (s[p] \in 1..u \/ -s[p] \in 1..u)
      BY <1>2, <1>8 DEF ContextInv, ContextFits
    <3>2. s[p] # u
      BY <1>2, <1>3 DEF ContextInv, ContextFits
    <3> QED BY <1>3, <3>1, <3>2
  <2> QED BY <2>1
<1>15. Standing(all, w, n, t)
  BY <1>5, <1>8, <1>10, <1>12, <1>13, <1>14, ComesLast DEF ContextInv
<1>16. \A p \in 1..Len(w) : w[p] < u + 1
  <2>1. Len(s) \in Nat /\ \A p \in 1..Len(w) : p \in 1..Len(s) \/ p = Len(s) + 1
    BY <1>8, <1>11
  <2>2. \A p \in 1..Len(s) : w[p] < u /\ w[p] \in Int
    <3>1. \A p \in 1..Len(s) : s[p] \in Int
      BY <1>8
    <3> QED BY <1>11, <1>14, <3>1
  <2>3. \A p \in 1..Len(s) : w[p] < u + 1
    BY <1>3, <2>2
  <2>4. w[Len(s) + 1] < u + 1
    BY <1>3, <1>11
  <2> QED BY <2>1, <2>3, <2>4
<1>17. Standing(all, Append(w, u + 1), n, t)
  BY <1>8, <1>11, <1>12, <1>13, <1>15, <1>16, ComesLast
<1> QED BY <1>1, <1>2, <1>4, <1>5, <1>7, <1>9, <1>10, <1>17 DEF ContextInv

(* The summary takes the place of what was told to it.  What is left was   *)
(* stored later than anything told but the summary at the head: it is      *)
(* loaded still, or that summary overtakes it, as it is covered now.       *)
LEMMA SummaryTold ==
    ASSUME TableFits(rows), NEW n \in Nat, ContextInv(rows, mem, n, turn), NEW cut \in 2..Len(mem),
           ~(mem[cut] < 0 \/ ResultIn(rows, mem[cut])), ~UseIn(rows, mem[cut-1]), NEW holds
    PROVE  ContextInv(Append(rows, Summary(CoveredThrough(Told(cut)), holds)),
                      <<Len(rows) + 1>> \o SubSeq(mem, cut, Len(mem)), n + 1, turn)
<1>1. PICK row : row = Summary(CoveredThrough(Told(cut)), holds)
  OBVIOUS
<1>2. row.kind = "summary" /\ row.covers = CoveredThrough(Told(cut)) /\ Plain(row) /\ row.turn = turn
  BY <1>1 DEF Summary, Row, Plain
<1>3. PICK all : all = Append(rows, row)
  OBVIOUS
<1>4. PICK k : k = Len(rows) + 1
  OBVIOUS
<1>5. /\ Len(rows) \in Nat /\ Len(all) = k /\ all[k] = row /\ k \in Nat /\ k > 0
      /\ \A j \in 1..Len(rows) : all[j] = rows[j]
  BY <1>3, <1>4, AppendedRow DEF TableFits
<1>6. ContextFits(rows, mem) /\ mem \in Seq(Int) /\ Len(mem) \in Nat
  BY DEF ContextInv, ContextFits
<1>7. TableFits(all)
  BY <1>1, <1>3, <1>6, SummaryFits
<1>8. ContextFits(all, mem)
  <2>1. Len(all) \in Nat /\ Len(rows) <= Len(all)
    BY <1>4, <1>5
  <2> QED BY <1>5, <1>6, <2>1, ContextGrows
<1>9. ~(mem[cut] < 0 \/ ResultIn(all, mem[cut]))
  <2>1. mem[cut] \in Int /\ (mem[cut] \in 1..Len(rows) \/ -mem[cut] \in 1..Len(rows))
    <3>1. cut \in 1..Len(mem)
      BY <1>6
    <3> QED BY <1>6, <3>1 DEF ContextFits
  <2>2. mem[cut] \in 1..Len(rows)
    BY <2>1
  <2> QED BY <1>5, <2>2 DEF ResultIn
<1>10. PICK t : t = <<k>> \o SubSeq(mem, cut, Len(mem))
  OBVIOUS
<1>11. /\ ContextFits(all, t) /\ Len(t) = Len(mem) - cut + 2 /\ t[1] = k
       /\ \A p \in 2..Len(mem)-cut+2 : t[p] = mem[p + cut - 2]
  <2>1. k \in 1..Len(all) /\ Plain(all[k]) /\ Len(all) \in Nat
    BY <1>2, <1>5
  <2> QED BY <1>8, <1>9, <1>10, <2>1, ContextCut
<1>12. Kept(all, k) /\ OwnSummary(all, k, turn)
  BY <1>2, <1>5, <1>7, NewRowKept DEF OwnSummary
<1>13. Rises(mem, Behind(n)) /\ Headed(rows, mem, n, turn) /\ Dated(rows, turn) /\ Behind(n) \in {1, 2}
  BY DEF ContextInv, Standing, Behind
<1>14. ASSUME NEW p \in 2..Len(t), t[p] > 0
       PROVE  \E q \in cut..Len(mem) :
                 q = p + cut - 2 /\ t[p] = mem[q] /\ mem[q] \in 1..Len(rows)
                 /\ q \in 1..Len(mem) /\ q \in Behind(n)..Len(mem)
  <2>1. PICK q : q = p + cut - 2
    OBVIOUS
  <2>2. p \in 2..Len(mem)-cut+2 /\ q \in cut..Len(mem) /\ q \in 1..Len(mem) /\ q \in Behind(n)..Len(mem)
    BY <1>6, <1>11, <1>13, <2>1
  <2>3. t[p] = mem[q]
    BY <1>11, <2>1, <2>2
  <2>4. mem[q] \in 1..Len(rows)
    BY <1>6, <1>14, <2>2, <2>3, EntryPlaced
  <2> QED BY <2>1, <2>2, <2>3, <2>4
<1>15. ASSUME NEW q \in cut..Len(mem), q \in Behind(n)..Len(mem), NEW j \in 1..Len(rows), j = mem[q],
              NEW c \in row.covers, CoveredBy(rows, j, c)
       PROVE  n > 0 /\ all[j].kind # "summary" /\ OvertakenIn(all, j)
  <2>1. Told(cut) \subseteq 1..Len(rows)
    BY DEF Told
  <2>2. PICK m \in Told(cut) : rows[m].turn = c[1] /\ CountOf(rows, c[1], m) = c[2]
    BY <1>2, <1>5, <1>15, <2>1, CoveredThroughSays
  <2>3. PICK i \in 1..cut-1 : mem[i] = m
    BY <2>2 DEF Told
  <2>4. i \in 1..Len(mem) /\ i < q /\ i \in Nat /\ i >= 1 /\ q \in Nat
    <3>1. cut \in Nat /\ cut <= Len(mem) /\ i \in Nat /\ 1 <= i /\ i <= cut - 1
      BY <1>6
    <3>2. Len(mem) \in Nat /\ cut <= q /\ q \in Nat
      BY <1>6
    <3> QED BY ONLY <3>1, <3>2
  <2>5. m \in Nat /\ m > 0 /\ m \in 1..Len(rows) /\ j \in Nat /\ j > 0
    BY <2>1
  <2>6. rows[j].turn = c[1] /\ CountOf(rows, c[1], j) <= c[2]
    BY <1>15 DEF CoveredBy
  <2>7. ~(m < j)
    <3>1. m < j => CountOf(rows, c[1], m) < CountOf(rows, c[1], j)
      BY <2>5, <2>6, CountAbove
    <3>2. CountOf(rows, c[1], m) \in Nat /\ CountOf(rows, c[1], j) \in Nat
      BY <2>5, CountIsNat
    <3> QED BY ONLY <2>2, <2>6, <3>1, <3>2
  <2>8. i \notin Behind(n)..Len(mem)
    BY <1>13, <1>15, <2>3, <2>4, <2>5, <2>7 DEF Rises
  <2>9. n > 0 /\ i = 1
    BY <1>13, <2>4, <2>8 DEF Behind
  <2>10. OwnSummary(rows, m, turn) /\ ~OwnSummary(rows, j, turn)
    BY <1>13, <1>15, <2>3, <2>5, <2>9 DEF Headed
  <2>11. rows[j].turn = turn /\ rows[j].kind # "summary"
    BY <2>2, <2>6, <2>10 DEF OwnSummary
  <2>12. m \in j+1..Len(rows)
    <3>1. m # j
      BY <2>10
    <3> QED BY <2>5, <2>7, <3>1
  <2>13. CountOf(all, c[1], m) = c[2]
    <3>1. \A x \in 1..m : all[x] = rows[x]
      BY <1>5, <2>5
    <3> QED BY <2>2, <2>5, <3>1, CountSame
  <2>14. CoveredBy(all, m, c)
    <3>1. all[m].turn = c[1]
      BY <1>5, <2>2, <2>5
    <3>2. c[2] \in Nat
      BY <2>2, <2>5, CountIsNat
    <3> QED BY <2>13, <3>1, <3>2 DEF CoveredBy
  <2>15. Covered(all, m)
    BY <1>5, <1>15, <2>14, CoveredSays
  <2>16. OvertakenIn(all, j)
    <3>1. m \in j+1..Len(all)
      BY <1>4, <1>5, <2>5, <2>12
    <3>2. all[m] = rows[m] /\ all[j] = rows[j]
      BY <1>5, <2>5
    <3>3. all[m].kind = "summary" /\ all[m].turn = all[j].turn
      BY <2>10, <2>11, <3>2 DEF OwnSummary
    <3> QED BY <2>15, <3>1, <3>3 DEF OvertakenIn
  <2> QED BY <1>5, <2>9, <2>11, <2>16
<1>16. ASSUME NEW p \in 2..Len(t), t[p] > 0
       PROVE  Spared(all, t[p]) /\ (n = 0 => Kept(all, t[p])) /\ ~OwnSummary(all, t[p], turn)
  <2>1. PICK q \in cut..Len(mem) : /\ t[p] = mem[q] /\ mem[q] \in 1..Len(rows)
                                   /\ q \in 1..Len(mem) /\ q \in Behind(n)..Len(mem)
    BY <1>14, <1>16
  <2>2. PICK j \in 1..Len(rows) : j = mem[q]
    BY <2>1
  <2>3. Spared(rows, j) /\ (n = 0 => Kept(rows, j)) /\ j > 0
    <3>1. j > 0
      BY <1>5
    <3> QED BY <2>1, <2>2, <3>1 DEF ContextInv, Standing, AllKept
  <2>4. CASE \E c \in row.covers : CoveredBy(rows, j, c)
    <3>1. n > 0 /\ all[j].kind # "summary" /\ OvertakenIn(all, j)
      BY <1>15, <2>1, <2>2, <2>4
    <3> QED BY <1>5, <2>1, <2>2, <3>1 DEF Spared, OwnSummary
  <2>5. CASE \A c \in row.covers : ~CoveredBy(rows, j, c)
    <3>1. Kept(rows, j) => Kept(all, j)
      BY <1>3, <2>5, KeptStill
    <3>2. OvertakenIn(rows, j) => OvertakenIn(all, j)
      BY <1>3, OvertakenStill
    <3>3. all[j] = rows[j]
      BY <1>5
    <3>4. ~OwnSummary(all, j, turn)
      BY <1>13, <2>1, <2>2, <2>3, <3>3 DEF Headed, OwnSummary
    <3> QED BY <2>1, <2>2, <2>3, <3>1, <3>2, <3>3, <3>4 DEF Spared
  <2> QED BY <2>4, <2>5
<1>17. \A p \in 1..Len(t) : p = 1 \/ p \in 2..Len(t)
  BY <1>6, <1>11
<1>18. \A p \in 1..Len(t) : t[p] > 0 => Spared(all, t[p])
  BY <1>11, <1>12, <1>16, <1>17 DEF Spared
<1>19. n + 1 <= 1 => AllKept(all, t)
  BY <1>11, <1>12, <1>16, <1>17 DEF AllKept
<1>20. Behind(n + 1) = 2 /\ n + 1 > 0
  BY DEF Behind
<1>21. Rises(t, 2)
  <2>1. ASSUME NEW x \in 2..Len(t), NEW y \in 2..Len(t), x < y, t[x] > 0, t[y] > 0
        PROVE  t[x] < t[y]
    <3>1. PICK v \in cut..Len(mem) : v = x + cut - 2 /\ t[x] = mem[v] /\ v \in Behind(n)..Len(mem)
      BY <1>14, <2>1
    <3>2. PICK z \in cut..Len(mem) : z = y + cut - 2 /\ t[y] = mem[z] /\ z \in Behind(n)..Len(mem)
      BY <1>14, <2>1
    <3>3. v < z
      BY <1>6, <2>1, <3>1, <3>2
    <3> QED BY <1>13, <2>1, <3>1, <3>2, <3>3 DEF Rises
  <2> QED BY <2>1 DEF Rises
<1>22. Headed(all, t, n + 1, turn)
  <2>1. Len(t) > 0 /\ t[1] > 0 /\ OwnSummary(all, t[1], turn)
    BY <1>5, <1>6, <1>11, <1>12
  <2>2. \A p \in 2..Len(t) : t[p] > 0 => ~OwnSummary(all, t[p], turn)
    BY <1>16
  <2> QED BY <1>20, <2>1, <2>2 DEF Headed
<1>23. Dated(all, turn)
  <2>1. \A i \in 1..Len(all) : i \in 1..Len(rows) \/ i = k
    BY <1>4, <1>5
  <2>2. turn \in Nat /\ all[k].turn = turn
    BY <1>2, <1>5, <1>13 DEF Dated
  <2>3. \A i \in 1..Len(rows) : all[i].turn \in Nat /\ all[i].turn <= turn
    BY <1>5, <1>13 DEF Dated
  <2> QED BY <2>1, <2>2, <2>3 DEF Dated
<1>24. ContextInv(all, t, n + 1, turn)
  BY <1>11, <1>18, <1>19, <1>20, <1>21, <1>22, <1>23 DEF ContextInv, Standing
<1> QED BY <1>1, <1>3, <1>4, <1>10, <1>24

ConvInv ==
    /\ TableFits(rows) /\ RoundStored
    /\ compacted \in Nat /\ ContextInv(rows, mem, compacted, turn)

LEMMA ConvFirst == ConversationInit => ConvInv
  BY DEF ConversationInit, ConvInv, TableFits, RoundStored, ContextInv, ContextFits, Dated, Standing,
         AllKept, Rises, Headed, Behind, ToSet

LEMMA RowIs ==
    \A kind : /\ Row(kind).kind = kind /\ Row(kind).covers = {} /\ Row(kind).turn = turn
              /\ [Row(kind) EXCEPT !.turn = turn + 1].kind = kind
              /\ [Row(kind) EXCEPT !.turn = turn + 1].covers = {}
              /\ [Row(kind) EXCEPT !.turn = turn + 1].turn = turn + 1
  BY DEF Row

IdsOf(round) == {round[i].id : i \in 1..Len(round)}

LEMMA UseRowIs ==
    ASSUME NEW round
    PROVE  /\ UseRow(round).kind = "use" /\ UseRow(round).covers = {} /\ UseRow(round).turn = turn
           /\ UseRow(round).ids = IdsOf(round)
  BY DEF Row, UseRow, IdsOf

LEMMA ResultRowIs ==
    ASSUME NEW round, NEW verdicts, NEW began, NEW row, row = ResultRow(round, verdicts, began)
    PROVE  row.kind = "result" /\ row.covers = {} /\ row.turn = turn /\ row.ids = IdsOf(round)
  BY DEF Row, ResultRow, IdsOf

LEMMA ThreeMore ==
    ASSUME NEW s \in Seq(Int), NEW a \in Int, NEW b \in Int, NEW c \in Int
    PROVE  s \o <<a, b, c>> = Append(s \o <<a, b>>, c)
  OBVIOUS

LEMMA TwoRows ==
    ASSUME NEW table, TableFits(table), NEW a, NEW b
    PROVE  table \o <<a, b>> = Append(Append(table, a), b) /\ table \o <<a>> = Append(table, a) /\ table \o <<>> = table
<1>1. table \in Seq(ToSet(table) \cup {a, b}) /\ a \in ToSet(table) \cup {a, b} /\ b \in ToSet(table) \cup {a, b}
  BY DEF TableFits
<1> QED BY <1>1

LEMMA ConvStep == ConvInv /\ [ConversationNext]_convVars => ConvInv'
<1> SUFFICES ASSUME ConvInv, [ConversationNext]_convVars PROVE ConvInv'
  OBVIOUS
<1>0. TableFits(rows) /\ RoundStored /\ compacted \in Nat /\ ContextInv(rows, mem, compacted, turn)
  BY DEF ConvInv
<1>a. Len(rows) \in Nat
  BY <1>0 DEF TableFits
<1>b. ASSUME UNCHANGED <<rows, mem, compacted, turn>>, phase' # "tools" PROVE ConvInv'
  BY <1>0, <1>b DEF ConvInv, RoundStored
<1>c. ASSUME UNCHANGED <<rows, calls, turn, phase>> PROVE RoundStored'
  BY <1>0, <1>c DEF RoundStored
<1>d. ASSUME phase' # "tools" PROVE RoundStored'
  BY <1>d DEF RoundStored
<1>e. ASSUME NEW row, Plain(row), row.covers = {}, row.turn = turn
      PROVE  TableFits(Append(rows, row)) /\ ContextInv(Append(rows, row), mem, compacted, turn)
  <2>1. TableFits(Append(rows, row))
    BY <1>0, <1>e, PlainGrows DEF Plain
  <2>2. ContextInv(Append(rows, row), mem, compacted, turn)
    BY <1>0, <1>e, NotTold
  <2> QED BY <2>1, <2>2
<1>f. ASSUME NEW row, Plain(row), row.kind \notin {"partial", "summary"}, row.covers = {}, row.turn = turn
      PROVE  TableFits(Append(rows, row)) /\ ContextInv(Append(rows, row), Append(mem, Len(rows) + 1), compacted, turn)
  <2>1. TableFits(Append(rows, row))
    BY <1>f, <1>e
  <2>2. ContextInv(Append(rows, row), Append(mem, Len(rows) + 1), compacted, turn)
    BY <1>0, <1>f, ToldPlain
  <2> QED BY <2>1, <2>2
<1>1. CASE BeginTurn
  <2>1. PICK row : row = [Row("user") EXCEPT !.turn = turn + 1]
    OBVIOUS
  <2>2. Plain(row) /\ row.kind = "user" /\ row.covers = {} /\ row.turn = turn + 1
    BY <2>1, RowIs DEF Plain
  <2>3. /\ rows' = Append(rows, row) /\ mem' = Append(Load(rows), Len(rows) + 1)
        /\ compacted' = 0 /\ phase' = "top" /\ turn' = turn + 1
    BY <1>1, <2>1 DEF BeginTurn
  <2>4. PICK all : all = rows'
    OBVIOUS
  <2>5. PICK s : s = Load(rows)
    OBVIOUS
  <2>6. ContextFits(all, s) /\ AllKept(rows, s) /\ Ascends(s)
    BY <1>0, <2>2, <2>3, <2>4, <2>5, LoadFits
  <2>7. /\ Len(all) = Len(rows) + 1 /\ all[Len(rows) + 1] = row
        /\ \A j \in 1..Len(rows) : all[j] = rows[j]
    BY <1>0, <2>3, <2>4, AppendedRow DEF TableFits
  <2>8. TableFits(all)
    BY <1>0, <2>2, <2>3, <2>4, PlainGrows
  <2>9. PICK k : k = Len(rows) + 1
    OBVIOUS
  <2>10. ContextFits(all, Append(s, k))
    <3>1. k \in 1..Len(all) /\ Plain(all[k]) /\ Len(all) \in Nat
      BY <1>a, <2>2, <2>7, <2>9
    <3> QED BY <2>6, <3>1, ContextPlain
  <2>11. s \in Seq(Int) /\ k \in Int
    BY <1>a, <2>6, <2>9 DEF ContextFits
  <2>12. \A p \in 1..Len(s) : s[p] <= Len(rows) /\ (s[p] > 0 => s[p] \in 1..Len(rows))
    <3>1. ASSUME NEW p \in 1..Len(s) PROVE s[p] <= Len(rows) /\ (s[p] > 0 => s[p] \in 1..Len(rows))
      <4>1. LoadsTo(rows, Len(rows), s)
        BY <1>0, <2>5, Loaded
      <4>2. s[p] \in Int /\ (s[p] \in 1..Len(rows) \/ -s[p] \in 1..Len(rows))
        BY <2>11, <4>1 DEF LoadsTo, EntryFits
      <4> QED BY <1>a, <4>2
    <3> QED BY <3>1
  <2>13. AllKept(all, s)
    <3>1. ASSUME NEW p \in 1..Len(s), s[p] > 0 PROVE Kept(all, s[p])
      <4>1. s[p] \in 1..Len(rows) /\ Kept(rows, s[p])
        BY <2>6, <2>12, <3>1 DEF AllKept
      <4> QED BY <1>0, <2>2, <2>3, <2>4, <4>1, KeptStill
    <3> QED BY <3>1 DEF AllKept
  <2>14. Kept(all, k) /\ ~OwnSummary(all, k, turn + 1)
    <3>1. Kept(all, k)
      BY <1>a, <2>2, <2>7, <2>8, <2>9, NewRowKept
    <3> QED BY <2>2, <2>7, <2>9, <3>1 DEF OwnSummary
  <2>15. \A p \in 1..Len(s) : s[p] < k
    <3>1. \A p \in 1..Len(s) : s[p] \in Int
      BY <2>11
    <3> QED BY <1>a, <2>9, <2>12, <3>1
  <2>16. Dated(rows, turn)
    BY <1>0 DEF ContextInv
  <2>17. Standing(all, s, 0, turn + 1)
    <3>1. \A p \in 1..Len(s) : s[p] > 0 => ~OwnSummary(all, s[p], turn + 1)
      BY <2>7, <2>12, <2>16 DEF Dated, OwnSummary
    <3>2. Behind(0) = 1
      BY DEF Behind
    <3>3. Rises(s, 1)
      BY <2>6 DEF Rises, Ascends
    <3>4. \A p \in 1..Len(s) : s[p] > 0 => Spared(all, s[p])
      BY <2>13 DEF AllKept, Spared
    <3>5. Headed(all, s, 0, turn + 1)
      BY <3>1, <3>2 DEF Headed
    <3> QED BY <2>13, <3>2, <3>3, <3>4, <3>5 DEF Standing
  <2>18. Standing(all, Append(s, k), 0, turn + 1)
    BY <2>11, <2>14, <2>15, <2>17, ComesLast
  <2>19. Dated(all, turn + 1)
    BY <1>a, <2>2, <2>7, <2>16 DEF Dated
  <2>20. ContextInv(all, Append(s, k), 0, turn + 1)
    BY <2>10, <2>18, <2>19 DEF ContextInv
  <2>21. RoundStored'
    BY <1>d, <2>3
  <2> QED BY <2>3, <2>4, <2>5, <2>8, <2>9, <2>20, <2>21 DEF ConvInv
<1>2. CASE TakeNotice
  <2>1. Plain(Row("user")) /\ Row("user").kind = "user" /\ Row("user").covers = {} /\ Row("user").turn = turn
    BY RowIs DEF Plain
  <2>2. /\ rows' = Append(rows, Row("user")) /\ mem' = Append(mem, Len(rows) + 1)
        /\ UNCHANGED <<compacted, turn>> /\ phase' # "tools"
    BY <1>2 DEF TakeNotice
  <2>3. TableFits(rows') /\ ContextInv(rows', mem', compacted', turn')
    BY <1>f, <2>1, <2>2
  <2> QED BY <1>0, <1>d, <2>2, <2>3 DEF ConvInv
<1>3. CASE Compact
  <2>1. compacted' = compacted + 1 /\ turn' = turn /\ phase' # "tools"
    BY <1>3 DEF Compact, Ends
  <2>2. ContextFits(rows, mem)
    BY <1>0 DEF ContextInv
  <2>3. PICK cut \in 2..Len(mem) :
          /\ ~(mem[cut] < 0 \/ ResultIn(rows, mem[cut])) /\ ~UseIn(rows, mem[cut-1])
          /\ rows' = Append(rows, Summary(CoveredThrough(Told(cut)), Content(rows, SubSeq(mem, 1, cut - 1))))
          /\ mem' = <<Len(rows) + 1>> \o SubSeq(mem, cut, Len(mem))
    BY <1>3, <2>2, CompactSays
  <2>4. PICK holds : holds = Content(rows, SubSeq(mem, 1, cut - 1))
    OBVIOUS
  <2>5. rows' = Append(rows, Summary(CoveredThrough(Told(cut)), holds))
    BY <2>3, <2>4
  <2>6. TableFits(rows')
    BY <1>0, <2>2, <2>3, <2>5, SummaryFits
  <2>7. ContextInv(rows', mem', compacted + 1, turn)
    BY <1>0, <2>3, <2>5, SummaryTold
  <2>8. compacted' \in Nat
    BY <1>0, <2>1
  <2> QED BY <1>d, <2>1, <2>6, <2>7, <2>8 DEF ConvInv
<1>4. CASE CallModel
  BY <1>4, <1>b DEF CallModel
<1>5. CASE AnswerText
  <2>1. phase' # "tools" /\ UNCHANGED <<compacted, turn>>
    BY <1>5 DEF AnswerText, Ends
  <2>2. Plain(Row("text")) /\ Row("text").kind = "text" /\ Row("text").covers = {} /\ Row("text").turn = turn
    BY RowIs DEF Plain
  <2>3. CASE rows' = Append(rows, Row("text")) /\ mem' = mem
    <3>1. TableFits(rows') /\ ContextInv(rows', mem', compacted', turn')
      BY <1>e, <2>1, <2>2, <2>3
    <3> QED BY <1>0, <1>d, <2>1, <3>1 DEF ConvInv
  <2>4. CASE rows' = Append(rows, Row("text")) /\ mem' = Append(mem, Len(rows) + 1)
    <3>1. TableFits(rows') /\ ContextInv(rows', mem', compacted', turn')
      BY <1>f, <2>1, <2>2, <2>4
    <3> QED BY <1>0, <1>d, <2>1, <3>1 DEF ConvInv
  <2>5. CASE rows' = rows \o <<Row("text"), Row("user")>> /\ mem' = Append(mem, Len(rows) + 2)
    <3>1. PICK first : first = Append(rows, Row("text"))
      OBVIOUS
    <3>2. TableFits(first) /\ ContextInv(first, mem, compacted, turn) /\ Len(first) = Len(rows) + 1
      BY <1>0, <1>e, <2>2, <3>1, AppendedRow DEF TableFits
    <3>3. rows' = Append(first, Row("user"))
      BY <1>0, <2>5, <3>1, TwoRows
    <3>4. Plain(Row("user")) /\ Row("user").kind = "user" /\ Row("user").covers = {} /\ Row("user").turn = turn
      BY RowIs DEF Plain
    <3>5. TableFits(rows')
      BY <3>2, <3>3, <3>4, PlainGrows DEF Plain
    <3>6. ContextInv(rows', Append(mem, Len(first) + 1), compacted, turn)
      BY <1>0, <3>2, <3>3, <3>4, ToldPlain
    <3>7. Len(first) + 1 = Len(rows) + 2
      BY <1>a, <3>2
    <3> QED BY <1>0, <1>d, <2>1, <2>5, <3>5, <3>6, <3>7 DEF ConvInv
  <2>6. \/ rows' = Append(rows, Row("text")) /\ mem' = mem
        \/ rows' = Append(rows, Row("text")) /\ mem' = Append(mem, Len(rows) + 1)
        \/ rows' = rows \o <<Row("text"), Row("user")>> /\ mem' = Append(mem, Len(rows) + 2)
    BY <1>5 DEF AnswerText
  <2> QED BY <2>3, <2>4, <2>5, <2>6
<1>6. CASE AnswerFails
  <2>1. phase' # "tools" /\ UNCHANGED <<mem, compacted, turn>>
    BY <1>6 DEF AnswerFails, Ends
  <2>2. CASE rows' = Append(rows, Row("partial"))
    <3>1. Plain(Row("partial")) /\ Row("partial").covers = {} /\ Row("partial").turn = turn
      BY RowIs DEF Plain
    <3>2. TableFits(rows') /\ ContextInv(rows', mem', compacted', turn')
      BY <1>e, <2>1, <2>2, <3>1
    <3> QED BY <1>0, <1>d, <2>1, <3>2 DEF ConvInv
  <2> QED BY <1>6, <1>b, <2>1, <2>2 DEF AnswerFails
<1>g. ASSUME NEW round
      PROVE  /\ TableFits(Append(rows, UseRow(round)))
             /\ ContextInv(Append(rows, UseRow(round)), mem, compacted, turn)
             /\ Len(Append(rows, UseRow(round))) = Len(rows) + 1
             /\ Append(rows, UseRow(round))[Len(rows) + 1] = UseRow(round)
             /\ UseIn(Append(rows, UseRow(round)), Len(rows) + 1)
  <2>1. UseRow(round).kind = "use" /\ UseRow(round).covers = {} /\ UseRow(round).turn = turn
    BY UseRowIs
  <2>2. TableFits(Append(rows, UseRow(round)))
    BY <1>0, <2>1, PlainGrows
  <2>3. ContextInv(Append(rows, UseRow(round)), mem, compacted, turn)
    BY <1>0, <2>1, NotTold
  <2>4. /\ Len(Append(rows, UseRow(round))) = Len(rows) + 1
        /\ Append(rows, UseRow(round))[Len(rows) + 1] = UseRow(round)
    BY <1>0, AppendedRow DEF TableFits
  <2>5. Len(rows) + 1 \in 1..Len(rows)+1
    BY <1>a
  <2>6. UseIn(Append(rows, UseRow(round)), Len(rows) + 1)
    BY <2>1, <2>4, <2>5 DEF UseIn
  <2> QED BY <2>2, <2>3, <2>4, <2>6
<1>7. ASSUME NEW round \in Rounds, AnswerCalls(round) PROVE ConvInv'
  <2>1. /\ rows' = Append(rows, UseRow(round)) /\ UNCHANGED <<mem, compacted, turn>>
        /\ calls' = round
    BY <1>7 DEF AnswerCalls
  <2>2. TableFits(rows') /\ ContextInv(rows', mem', compacted', turn')
    BY <1>g, <2>1
  <2>3. /\ UseIn(rows', Len(rows')) /\ rows'[Len(rows')].turn = turn'
        /\ rows'[Len(rows')].ids = {calls'[i].id : i \in 1..Len(calls')}
    <3>1. Len(rows') = Len(rows) + 1 /\ UseIn(rows', Len(rows) + 1) /\ rows'[Len(rows) + 1] = UseRow(round)
      BY <1>g, <2>1
    <3>2. {calls'[i].id : i \in 1..Len(calls')} = IdsOf(round)
      BY <2>1 DEF IdsOf
    <3>3. rows'[Len(rows')].ids = IdsOf(round) /\ rows'[Len(rows')].turn = turn'
      BY <2>1, <3>1, UseRowIs
    <3> QED BY <3>1, <3>2, <3>3
  <2> QED BY <1>0, <2>1, <2>2, <2>3 DEF ConvInv, RoundStored
<1>8. ASSUME NEW round \in Rounds, AnswerOverBudget(round) PROVE ConvInv'
  <2>1. phase' # "tools" /\ UNCHANGED <<mem, compacted, turn>>
    BY <1>8 DEF AnswerOverBudget, Ends
  <2>2. PICK first : first = Append(rows, UseRow(round))
    OBVIOUS
  <2>3. /\ TableFits(first) /\ ContextInv(first, mem, compacted, turn) /\ Len(first) = Len(rows) + 1
        /\ first[Len(first)] = UseRow(round) /\ Len(first) > 0
    BY <1>a, <1>g, <2>2
  <2>4. CASE rows' = first
    BY <1>0, <1>d, <2>1, <2>3, <2>4 DEF ConvInv
  <2>5. ASSUME NEW verdicts, NEW began, rows' = rows \o <<UseRow(round), ResultRow(round, verdicts, began)>>
        PROVE  ConvInv'
    <3>1. PICK row : row = ResultRow(round, verdicts, began)
      OBVIOUS
    <3>2. /\ row.kind = "result" /\ row.covers = {} /\ first[Len(first)].kind = "use"
          /\ first[Len(first)].ids = row.ids /\ first[Len(first)].turn = row.turn /\ row.turn = turn
      <4>1. first[Len(first)].kind = "use" /\ first[Len(first)].turn = turn /\ first[Len(first)].ids = IdsOf(round)
        BY <2>3, UseRowIs
      <4>2. row.kind = "result" /\ row.covers = {} /\ row.turn = turn /\ row.ids = IdsOf(round)
        BY <3>1, ResultRowIs
      <4> QED BY <4>1, <4>2
    <3>3. rows' = Append(first, row)
      BY <1>0, <2>2, <2>5, <3>1, TwoRows
    <3>4. TableFits(rows')
      BY <2>3, <3>2, <3>3, ResultGrows
    <3>5. ContextInv(rows', mem, compacted, turn)
      BY <1>0, <2>3, <3>2, <3>3, NotTold
    <3> QED BY <1>0, <1>d, <2>1, <3>4, <3>5 DEF ConvInv
  <2>6. \/ rows' = first
        \/ rows' = rows \o <<UseRow(round), ResultRow(round, [i \in 1..Len(round) |-> "unexecuted"],
                                                      [i \in 1..Len(round) |-> FALSE])>>
    BY <1>8, <2>2 DEF AnswerOverBudget
  <2> QED BY <2>4, <2>5, <2>6
<1>9. ASSUME NEW i \in 1..Len(calls), StartCall(i) \/ FinishCall(i) PROVE ConvInv'
  <2>1. UNCHANGED <<rows, mem, compacted, calls, turn, phase>>
    BY <1>9 DEF StartCall, FinishCall
  <2> QED BY <1>0, <1>c, <2>1 DEF ConvInv
<1>10. CASE CloseRound
  <2>1. phase' # "tools" /\ UNCHANGED <<compacted, turn>>
    BY <1>10 DEF CloseRound
  <2>2. CASE UNCHANGED <<rows, mem>>
    BY <1>b, <2>1, <2>2
  <2>3. ASSUME NEW verdicts, NEW began, NEW guided \in {<<>>, <<Row("user")>>},
               rows' = rows \o <<ResultRow(calls, verdicts, began)>> \o guided,
               mem' = mem \o [k \in 1..2 + Len(guided) |-> Len(rows) + k - 1]
        PROVE  ConvInv'
    <3>1. phase = "tools"
      BY <1>10 DEF CloseRound, RoundOver
    <3>2. PICK row : row = ResultRow(calls, verdicts, began)
      OBVIOUS
    <3>3. /\ row.kind = "result" /\ row.covers = {} /\ UseIn(rows, Len(rows))
          /\ rows[Len(rows)].ids = row.ids /\ rows[Len(rows)].turn = row.turn /\ row.turn = turn
      <4>1. row.kind = "result" /\ row.covers = {} /\ row.turn = turn /\ row.ids = IdsOf(calls)
        BY <3>2, ResultRowIs
      <4>2. UseIn(rows, Len(rows)) /\ rows[Len(rows)].turn = turn /\ rows[Len(rows)].ids = IdsOf(calls)
        BY <1>0, <3>1 DEF RoundStored, IdsOf
      <4> QED BY <4>1, <4>2
    <3>4. PICK all : all = Append(rows, row)
      OBVIOUS
    <3>5. PICK s : s = mem \o <<Len(rows), Len(rows) + 1>>
      OBVIOUS
    <3>6. TableFits(all) /\ ContextInv(all, s, compacted, turn)
      BY <1>0, <3>3, <3>4, <3>5, ToldRound
    <3>7. rows \o <<row>> = all /\ Len(all) = Len(rows) + 1
      BY <1>0, <3>4, TwoRows, AppendedRow DEF TableFits
    <3>8. mem \in Seq(Int) /\ s \in Seq(Int)
      BY <1>0, <1>a, <3>5 DEF ContextInv, ContextFits
    <3>9. CASE guided = <<>>
      <4>1. rows' = all
        BY <2>3, <3>2, <3>6, <3>7, <3>9, TwoRows
      <4>2. [k \in 1..2 + Len(guided) |-> Len(rows) + k - 1] = <<Len(rows), Len(rows) + 1>>
        BY <1>a, <3>9
      <4>3. mem' = s
        BY <2>3, <3>5, <4>2
      <4> QED BY <1>0, <1>d, <2>1, <3>6, <4>1, <4>3 DEF ConvInv
    <3>10. CASE guided = <<Row("user")>>
      <4>1. rows' = Append(all, Row("user"))
        BY <2>3, <3>2, <3>6, <3>7, <3>10, TwoRows
      <4>2. PICK next : next = [k \in 1..2 + Len(guided) |-> Len(rows) + k - 1]
        OBVIOUS
      <4>3. next = <<Len(rows), Len(rows) + 1, Len(rows) + 2>>
        BY <1>a, <3>10, <4>2
      <4>4. mem' = Append(s, Len(rows) + 2)
        <5>1. mem' = mem \o <<Len(rows), Len(rows) + 1, Len(rows) + 2>>
          BY <2>3, <4>2, <4>3
        <5>2. Len(rows) \in Int /\ Len(rows) + 1 \in Int /\ Len(rows) + 2 \in Int
          BY <1>a
        <5> QED BY <3>5, <3>8, <5>1, <5>2, ThreeMore
      <4>5. Plain(Row("user")) /\ Row("user").kind = "user" /\ Row("user").covers = {} /\ Row("user").turn = turn
        BY RowIs DEF Plain
      <4>6. TableFits(rows')
        BY <3>6, <4>1, <4>5, PlainGrows DEF Plain
      <4>7. ContextInv(rows', Append(s, Len(all) + 1), compacted, turn)
        BY <1>0, <3>6, <4>1, <4>5, ToldPlain
      <4>8. Len(all) + 1 = Len(rows) + 2
        BY <1>a, <3>7
      <4> QED BY <1>0, <1>d, <2>1, <4>4, <4>6, <4>7, <4>8 DEF ConvInv
    <3> QED BY <3>9, <3>10
  <2>4. \/ UNCHANGED <<rows, mem>>
        \/ \E guided \in {<<>>, <<Row("user")>>} :
             /\ rows' = rows \o <<ResultRow(calls, Completed, [i \in 1..Len(calls) |-> going[i] # "ready"])>> \o guided
             /\ mem' = mem \o [k \in 1..2 + Len(guided) |-> Len(rows) + k - 1]
    BY <1>10 DEF CloseRound
  <2> QED BY <2>2, <2>3, <2>4
<1>11. CASE TurnStops
  BY <1>11, <1>b DEF TurnStops, Ends
<1>12. CASE UNCHANGED convVars
  BY <1>0, <1>12, <1>c DEF convVars, ConvInv
<1> QED
  BY <1>1, <1>2, <1>3, <1>4, <1>5, <1>6, <1>7, <1>8, <1>9, <1>10, <1>11, <1>12
  DEF ConversationNext

(* Every request is one a provider accepts: a message with calls is        *)
(* followed at once by the results of just these calls, and no result      *)
(* stands alone, after compactions, failed writes and crashes alike        *)
(* (executeToolCalls, backfillOrphanToolResults,                           *)
(* alignKeepStartToTurnBoundary).                                          *)
THEOREM RequestsPairedHolds == ConversationSpec => []RequestsPaired
<1>1. ASSUME ConvInv PROVE RequestsPaired
  <2>1. TableFits(rows) /\ ContextFits(rows, mem)
    BY <1>1 DEF ConvInv, ContextInv
  <2>2. ASSUME NEW p \in 1..Len(mem), IsUse(mem[p])
        PROVE  /\ p < Len(mem) /\ IsResult(mem[p+1])
               /\ mem[p+1] > 0 => rows[mem[p+1]].ids = rows[mem[p]].ids
    <3>1. mem[p] \in Int /\ (mem[p] \in 1..Len(rows) \/ -mem[p] \in 1..Len(rows))
      BY <2>1 DEF ContextFits
    <3>2. UseIn(rows, mem[p]) /\ mem[p] > 0
      BY <2>2, <3>1 DEF IsUse, UseIn
    <3>3. PairedAt(rows, mem, p)
      BY <2>1, <3>2 DEF ContextFits
    <3>4. CASE mem[p+1] = mem[p] + 1 /\ ResultIn(rows, mem[p] + 1)
      <4>1. (mem[p] + 1) - 1 = mem[p]
        BY <3>1
      <4>2. rows[mem[p]].ids = rows[mem[p] + 1].ids
        BY <2>1, <3>4, <4>1 DEF ResultIn, TableFits, RowFits
      <4> QED BY <3>3, <3>4, <4>2 DEF PairedAt, IsResult, ResultIn
    <3>5. CASE mem[p+1] = -mem[p]
      <4>1. mem[p+1] < 0
        BY <3>1, <3>2, <3>5
      <4>2. ~(mem[p+1] > 0)
        BY <3>1, <3>2, <3>5
      <4> QED BY <3>3, <4>1, <4>2 DEF PairedAt, IsResult
    <3> QED BY <3>3, <3>4, <3>5 DEF PairedAt
  <2>3. ASSUME NEW p \in 1..Len(mem), IsResult(mem[p]) PROVE p > 1 /\ IsUse(mem[p-1])
    <3>1. mem[p] \in Int /\ (mem[p] \in 1..Len(rows) \/ -mem[p] \in 1..Len(rows))
      BY <2>1 DEF ContextFits
    <3>2. mem[p] < 0 \/ ResultIn(rows, mem[p])
      BY <2>3, <3>1 DEF IsResult, ResultIn
    <3>3. Asked(rows, mem, p)
      BY <2>1, <3>2 DEF ContextFits
    <3> QED BY <3>3 DEF Asked, UseIn, IsUse
  <2> QED BY <2>2, <2>3 DEF RequestsPaired
<1> QED BY <1>1, ConvFirst, ConvStep, PTL DEF ConversationSpec

LEMMA KeptIsLoaded ==
    ASSUME TableFits(rows), NEW n \in 1..Len(rows), Kept(rows, n)
    PROVE  n \in ToSet(Load(rows))
<1>1. PICK s : s = Load(rows)
  OBVIOUS
<1>2. LoadsTo(rows, Len(rows), s)
  BY <1>1, Loaded
<1>3. s \in Seq(Int) /\ \E q \in 1..Len(s) : s[q] = n
  BY <1>2 DEF LoadsTo
<1> QED BY <1>1, <1>3 DEF ToSet

LEMMA ToldBy ==
    ASSUME NEW s, NEW x \in Content(rows, s)
    PROVE  \E n \in ToSet(s) \cap (1..Len(rows)) :
             x \in IF rows[n].kind = "summary" THEN rows[n].holds ELSE {n}
  BY DEF Content

LEMMA Tells ==
    ASSUME NEW s, NEW n \in ToSet(s) \cap (1..Len(rows)),
           NEW x \in IF rows[n].kind = "summary" THEN rows[n].holds ELSE {n}
    PROVE  x \in Content(rows, s)
  BY DEF Content

(* A row of the memory that is kept is loaded, and so is what it tells; a  *)
(* row that is not kept is no summary, and was overtaken.                  *)
LEMMA MemoryLoads ==
    ASSUME TableFits(rows), ContextFits(rows, mem), NEW x \in Content(rows, mem)
    PROVE  /\ AllKept(rows, mem) => x \in Content(rows, Load(rows))
           /\ (\A p \in 1..Len(mem) : mem[p] > 0 => Spared(rows, mem[p])) =>
                x \in Content(rows, Load(rows)) \/ (x \in ToSet(mem) /\ Overtaken(x))
<1>1. PICK n \in ToSet(mem) \cap (1..Len(rows)) :
        x \in IF rows[n].kind = "summary" THEN rows[n].holds ELSE {n}
  BY ToldBy
<1>2. PICK p \in 1..Len(mem) : mem[p] = n
  BY <1>1 DEF ToSet, ContextFits
<1>3. n > 0
  BY DEF TableFits
<1>4. Kept(rows, n) => x \in Content(rows, Load(rows))
  <2>1. Kept(rows, n) => n \in ToSet(Load(rows)) \cap (1..Len(rows))
    BY KeptIsLoaded
  <2> QED BY <1>1, <2>1, Tells
<1>5. ASSUME rows[n].kind # "summary", OvertakenIn(rows, n)
      PROVE  x \in ToSet(mem) /\ Overtaken(x)
  <2>1. x = n
    BY <1>1, <1>5
  <2> QED BY <1>5, <2>1 DEF OvertakenIn, Overtaken
<1> QED BY <1>2, <1>3, <1>4, <1>5 DEF AllKept, Spared

(* What a run has in its context, the next run has too, in full or in a    *)
(* summary, however often the run is compacted, but for rows that were     *)
(* overtaken: that were left standing by a compaction whose summary was    *)
(* told to the next (createReactRunContext, compactContextNow,             *)
(* filterCoveredReactMessages).                                            *)
THEOREM ContextSurvivesHolds == ConversationSpec => []ContextSurvives
<1>1. ConvInv => ContextSurvives
  BY MemoryLoads DEF ConvInv, ContextInv, Standing, ContextSurvives
<1> QED BY <1>1, ConvFirst, ConvStep, PTL DEF ConversationSpec

(* Until the context of a run is compacted a second time, nothing at all   *)
(* is lost (compactContextNow, compactCoveredThrough).                     *)
THEOREM SurvivesOneCompaction ==
    ConversationSpec => [](compacted <= 1 => Content(rows, mem) \subseteq Content(rows, Load(rows)))
<1>1. ConvInv => (compacted <= 1 => Content(rows, mem) \subseteq Content(rows, Load(rows)))
  BY MemoryLoads DEF ConvInv, ContextInv, Standing
<1> QED BY <1>1, ConvFirst, ConvStep, PTL DEF ConversationSpec

-----------------------------------------------------------------------------
(* A round of the model (module ModelRound)                                *)

(* Nothing is shown between two attempts, and in the middle of one only    *)
(* what it has written, which is by the first model of the round.          *)
ClearedBetween == standing \in {"building", "asking", "pausing"} => screen = {}
ShowsItself ==
    standing = "streaming" => /\ screen \subseteq IF drawn THEN {Output} ELSE {}
                              /\ index # 1 => screen = {}

RoundInv == SeenIsStored /\ ClearedBetween /\ ShowsItself

LEMMA RoundStep == RoundInv /\ [ModelRoundNext]_roundVars => RoundInv'
<1> SUFFICES ASSUME RoundInv, [ModelRoundNext]_roundVars PROVE RoundInv'
  OBVIOUS
<1> USE DEF RoundInv, SeenIsStored, ClearedBetween, ShowsItself, Output
<1>1. CASE StartModelRound
  BY <1>1 DEF StartModelRound
<1>2. CASE BuildClient
  BY <1>2 DEF BuildClient, Failover, ClearIf
<1>3. CASE Request
  BY <1>3 DEF Request, AfterFailure, Failover, ClearIf
<1>4. CASE Chunk
  BY <1>4 DEF Chunk
<1>5. CASE StreamDone
  BY <1>5 DEF StreamDone
<1>6. CASE StreamFails
  BY <1>6 DEF StreamFails, AfterFailure, Failover, ClearIf
<1>7. CASE RoundCut
  BY <1>7 DEF RoundCut
<1>8. CASE Retry
  BY <1>8 DEF Retry
<1>9. CASE CutRun
  BY <1>9 DEF CutRun
<1>10. CASE UNCHANGED roundVars
  BY <1>10 DEF roundVars
<1> QED
  BY <1>1, <1>2, <1>3, <1>4, <1>5, <1>6, <1>7, <1>8, <1>9, <1>10 DEF ModelRoundNext

(* The client shows the answer that is stored, and of a run that was cut   *)
(* off nothing that is not (callModelRound, persistPartialAssistant).      *)
THEOREM SeenIsStoredHolds == ModelRoundSpec => []SeenIsStored
<1>1. ModelRoundInit => RoundInv
  BY DEF ModelRoundInit, RoundInv, SeenIsStored, ClearedBetween, ShowsItself
<1>2. RoundInv => SeenIsStored
  BY DEF RoundInv
<1> QED BY <1>1, <1>2, RoundStep, PTL DEF ModelRoundSpec

-----------------------------------------------------------------------------
(* Sub-runs (module Delegation)                                            *)

(* While the goroutine of a run works, its row says that it is active.     *)
OrdinaryWork == {"loop", "joined", "asking", "sending", "closing", "failing", "tallied"}
WorkingActive == \A r \in Runs : stands[r] \in OrdinaryWork => runRow[r].state \in Active

(* A parent waits as long as a sub-run in the foreground is not over.      *)
ParentWaits ==
    \A c \in Subs : stands[c] \notin {"absent", "over"} /\ ~behind[c] => stands[up[c]] = "joined"

(* The parent of a run that exists exists, and is another run.             *)
ParentThere == \A c \in Subs : stands[c] # "absent" => stands[up[c]] # "absent" /\ up[c] # c

(* The row of a parent does not change while a notice for it is written.   *)
ParentHeld == \A c \in Subs : stands[c] = "delivering" => runRow[up[c]].state = "running"

(* The next run begins when no run of the session is active.               *)
NobodyActive == stands[Outer] = "replaced" => \A r \in Runs : runRow[r].state \notin Active

RowsTyped ==
    /\ runRow \in [Runs -> [state : States, own : Nat, delegated : Nat]]
    /\ up \in [Subs -> Runs] /\ behind \in [Subs -> BOOLEAN]
    /\ stands \in [Runs -> Places]
    /\ stands[Outer] # "absent"

RowTyped(row) == row.to \in Runs /\ {"to", "status"} \subseteq DOMAIN row

LedgerTyped == ledger \in Seq(ToSet(ledger)) /\ \A i \in 1..Len(ledger) : RowTyped(ledger[i])

FamilyPlaced ==
    /\ up \in [Subs -> Runs] /\ behind \in [Subs -> BOOLEAN]
    /\ stands \in [Runs -> Places] /\ stands[Outer] # "absent"
    /\ ParentWaits /\ ParentThere

FamilyRows ==
    /\ RowsTyped
    /\ WorkingActive /\ ParentWaits /\ ParentThere /\ ParentHeld /\ NobodyActive

FamilyInv == FamilyRows /\ LedgerTyped /\ NothingOutlives

LEMMA FamilyFacts == Outer \in Runs /\ Subs \subseteq Runs /\ \A c \in Subs : c # Outer
  BY DelegationAssumption DEF Outer, Subs, Runs

LEMMA FamilyRowsStep == FamilyInv /\ [DelegationNext]_delegVars => FamilyRows'
<1> SUFFICES ASSUME FamilyInv, [DelegationNext]_delegVars PROVE FamilyRows'
  OBVIOUS
<1> USE DEF FamilyInv, FamilyRows, FamilyPlaced, RowsTyped, WorkingActive, ParentWaits, ParentThere, ParentHeld, NobodyActive,
        OrdinaryWork, Active, States, Places
<1>1. ASSUME NEW r \in Runs, Ask(r) PROVE FamilyRows'
  BY <1>1, FamilyFacts DEF Ask, Stand, SetState, Unlocked
<1>2. ASSUME NEW r \in Runs, Answered(r) PROVE FamilyRows'
  BY <1>2, FamilyFacts DEF Answered, Stand, SetState, Unlocked
<1>3. ASSUME NEW r \in Runs, SendWrite(r) PROVE FamilyRows'
  BY <1>3, FamilyFacts DEF SendWrite, Stand
<1>4. ASSUME NEW r \in Runs, Close(r) PROVE FamilyRows'
  BY <1>4, FamilyFacts DEF Close, Stand
<1>5. ASSUME NEW r \in Runs, Finish(r) PROVE FamilyRows'
  BY <1>5, FamilyFacts DEF Finish, Stand, SetState, Unlocked
<1>6. ASSUME NEW r \in Runs, LeaveLoop(r) PROVE FamilyRows'
  BY <1>6, FamilyFacts DEF LeaveLoop, Stand
<1>7. ASSUME NEW r \in Runs, Settle(r) PROVE FamilyRows'
  BY <1>7, FamilyFacts DEF Settle, Stand
<1>8. ASSUME NEW r \in Runs, SendStart(r) PROVE FamilyRows'
  BY <1>8, FamilyFacts DEF SendStart, Stand
<1>9. ASSUME NEW c \in Subs, Spend(c) PROVE FamilyRows'
  BY <1>9, FamilyFacts DEF Spend, Unlocked
<1>10. ASSUME NEW c \in Subs, FinalizeError(c) PROVE FamilyRows'
  <2>1. PICK place \in {"returned", "accounted"} : stands' = [stands EXCEPT ![c] = place]
    BY <1>10 DEF FinalizeError, Stand
  <2>2. PICK state \in {"cancelled", "error"} : runRow' = [runRow EXCEPT ![c].state = state]
    BY <1>10 DEF FinalizeError, SetState
  <2>3. UNCHANGED <<up, behind>> /\ stands[c] \in {"failing", "tallied"} /\ Unlocked(c)
    BY <1>10 DEF FinalizeError, SetState
  <2>4. FamilyPlaced'
    BY <2>1, <2>3, FamilyFacts
  <2>5. /\ runRow' \in [Runs -> [state : States, own : Nat, delegated : Nat]]
        /\ runRow'[c].state = state /\ \A d \in Runs \ {c} : runRow'[d].state = runRow[d].state
    BY <2>2, FamilyFacts
  <2>6. WorkingActive' /\ NobodyActive'
    BY <2>1, <2>3, <2>5, FamilyFacts
  <2>7. ParentHeld'
    BY <2>1, <2>3, <2>5, FamilyFacts DEF Unlocked
  <2> QED BY <2>4, <2>5, <2>6, <2>7
<1>11. ASSUME NEW c \in Subs, Accumulate(c) PROVE FamilyRows'
  <2>1. PICK place \in {"accounted", "tallied"} :
          /\ stands' = [stands EXCEPT ![c] = place]
          /\ place = "tallied" => stands[c] = "failing"
    BY <1>11 DEF Accumulate, Stand
  <2>2. UNCHANGED <<up, behind>> /\ stands[c] \in {"returned", "failing"}
    BY <1>11 DEF Accumulate
  <2>3. runRow' = [r \in Runs |-> IF r = up[c]
          THEN [runRow[r] EXCEPT !.delegated = @ + runRow[c].own + runRow[c].delegated] ELSE runRow[r]]
    BY <1>11 DEF Accumulate, Payers
  <2>4. runRow' \in [Runs -> [state : States, own : Nat, delegated : Nat]]
    BY <2>3, FamilyFacts
  <2>5. \A r \in Runs : runRow'[r].state = runRow[r].state
    BY <2>3
  <2>6. FamilyPlaced'
    BY <2>1, <2>2, FamilyFacts
  <2>7. WorkingActive' /\ NobodyActive'
    BY <2>1, <2>2, <2>5, FamilyFacts
  <2>8. ParentHeld'
    BY <2>1, <2>2, <2>5, FamilyFacts
  <2> QED BY <2>4, <2>6, <2>7, <2>8
<1>12. ASSUME NEW c \in Subs, Return(c) PROVE FamilyRows'
  <2> DEFINE round == {d \in Subs : d # c /\ up[d] = up[c] /\ ~behind[d]}
  <2>1. PICK place \in {"joined", "failing", "loop"} :
          /\ stands' = [stands EXCEPT ![c] = "over", ![up[c]] = place]
          /\ place # "joined" => \A d \in round : stands[d] \in {"absent", "over"}
    BY <1>12 DEF Return
  <2>2. /\ UNCHANGED <<runRow, up, behind>>
        /\ stands[c] = "accounted" /\ ~behind[c] /\ stands[up[c]] = "joined"
        /\ up[c] \in Runs /\ up[c] # c /\ c \in Runs
    BY <1>12, FamilyFacts DEF Return
  <2>3. /\ stands' \in [Runs -> Places] /\ stands'[c] = "over" /\ stands'[up[c]] = place
        /\ \A d \in Runs \ {c, up[c]} : stands'[d] = stands[d]
    BY <2>1, <2>2
  <2>4. ParentWaits'
    <3> SUFFICES ASSUME NEW d \in Subs, stands'[d] \notin {"absent", "over"}, ~behind[d]
                 PROVE  stands'[up[d]] = "joined"
      BY <2>2
    <3>1. d # c /\ stands[d] \notin {"absent", "over"} /\ stands[up[d]] = "joined" /\ up[d] # c
      BY <2>2, <2>3, FamilyFacts
    <3>2. CASE up[d] = up[c]
      BY <2>1, <2>2, <2>3, <3>1, <3>2
    <3>3. CASE up[d] # up[c]
      BY <2>3, <3>1, <3>3
    <3> QED BY <3>2, <3>3
  <2>5. WorkingActive' /\ NobodyActive' /\ ParentHeld'
    <3>1. WorkingActive' /\ NobodyActive'
      BY <2>2, <2>3, FamilyFacts
    <3>2. ParentHeld'
      BY <2>2, <2>3, FamilyFacts
    <3> QED BY <3>1, <3>2
  <2>6. ParentThere'
    BY <2>2, <2>3, FamilyFacts
  <2>7. RowsTyped'
    BY <2>2, <2>3, FamilyFacts
  <2> QED BY <2>4, <2>5, <2>6, <2>7
<1>13. ASSUME NEW c \in Subs, Deliver(c) PROVE FamilyRows'
  <2>1. PICK place \in {"delivering", "over"} :
          /\ stands' = [stands EXCEPT ![c] = place]
          /\ place = "delivering" => runRow[up[c]].state = "running"
    BY <1>13 DEF Deliver, Stand, ShouldDeliver
  <2>2. UNCHANGED <<runRow, up, behind>> /\ stands[c] = "accounted"
    BY <1>13 DEF Deliver
  <2>3. FamilyPlaced'
    BY <2>1, <2>2, FamilyFacts
  <2>4. WorkingActive' /\ NobodyActive' /\ ParentHeld'
    BY <2>1, <2>2, FamilyFacts
  <2> QED BY <2>2, <2>3, <2>4
<1>14. ASSUME NEW c \in Subs, Commit(c) PROVE FamilyRows'
  <2>1. PICK place \in {"pushing", "over"} : stands' = [stands EXCEPT ![c] = place]
    BY <1>14 DEF Commit, Stand
  <2>2. UNCHANGED <<runRow, up, behind>> /\ stands[c] = "delivering"
    BY <1>14 DEF Commit
  <2> QED BY <2>1, <2>2, FamilyFacts
<1>15. ASSUME NEW c \in Subs, Push(c) PROVE FamilyRows'
  BY <1>15, FamilyFacts DEF Push, Stand
<1>16. ASSUME NEW p \in Runs, NEW c \in Subs, Delegate(p, c) PROVE FamilyRows'
  <2>1. PICK later \in BOOLEAN :
          /\ behind' = [behind EXCEPT ![c] = later]
          /\ stands' = [stands EXCEPT ![c] = "loop", ![p] = IF later THEN @ ELSE "joined"]
    BY <1>16 DEF Delegate
  <2>2. /\ stands[p] \in {"loop", "joined"} /\ stands[c] = "absent" /\ p # c /\ c \in Runs
        /\ up' = [up EXCEPT ![c] = p] /\ runRow' = [runRow EXCEPT ![c].state = "running"]
    BY <1>16, FamilyFacts DEF Delegate, Subs
  <2>3. /\ stands' \in [Runs -> Places] /\ stands'[c] = "loop"
        /\ stands'[p] \in {"loop", "joined"} /\ (~later => stands'[p] = "joined")
        /\ stands[p] = "joined" => stands'[p] = "joined"
        /\ \A d \in Runs \ {c, p} : stands'[d] = stands[d]
    BY <2>1, <2>2
  <2>4. /\ runRow' \in [Runs -> [state : States, own : Nat, delegated : Nat]]
        /\ runRow'[c].state = "running" /\ \A d \in Runs \ {c} : runRow'[d].state = runRow[d].state
    BY <2>2
  <2>5. /\ up' \in [Subs -> Runs] /\ behind' \in [Subs -> BOOLEAN] /\ up'[c] = p /\ behind'[c] = later
        /\ \A d \in Subs \ {c} : up'[d] = up[d] /\ behind'[d] = behind[d]
    BY <2>1, <2>2
  <2>6. RowsTyped' /\ WorkingActive' /\ NobodyActive'
    BY <2>2, <2>3, <2>4, <2>5, FamilyFacts
  <2>7. \A d \in Subs : stands[d] # "absent" => up'[d] = up[d] /\ behind'[d] = behind[d] /\ up[d] # c
    BY <2>2, <2>5
  <2>8. ParentWaits'
    <3> SUFFICES ASSUME NEW d \in Subs, stands'[d] \notin {"absent", "over"}, ~behind'[d]
                 PROVE  stands'[up'[d]] = "joined"
      OBVIOUS
    <3>1. CASE d = c
      BY <2>3, <2>5, <3>1
    <3>2. CASE d # c
      <4>1. stands[d] \notin {"absent", "over"}
        BY <2>2, <2>3, <3>2, FamilyFacts
      <4>2. ~behind[d] /\ up'[d] = up[d] /\ up[d] # c /\ up[d] \in Runs /\ stands[up[d]] = "joined"
        BY <2>7, <4>1
      <4> QED BY <2>3, <4>2
    <3> QED BY <3>1, <3>2
  <2>9. ParentThere'
    BY <2>2, <2>3, <2>5, <2>7, FamilyFacts
  <2>10. ParentHeld'
    BY <2>2, <2>3, <2>4, <2>5, <2>7, FamilyFacts
  <2> QED BY <2>6, <2>8, <2>9, <2>10
<1>17. CASE FailOuter
  BY <1>17, FamilyFacts DEF FailOuter, Stand, SetState, Unlocked
<1>18. CASE NextRun
  BY <1>18, FamilyFacts DEF NextRun, Stand
<1>19. CASE UNCHANGED <<runRow, up, behind, stands>>
  BY <1>19
<1>20. ASSUME NEW r \in Runs, TakeNotices(r) \/ TakeInput(r) \/ Cut(r) PROVE UNCHANGED <<runRow, up, behind, stands>>
  BY <1>20 DEF TakeNotices, TakeInput, Cut
<1>21. Steer \/ UNCHANGED delegVars => UNCHANGED <<runRow, up, behind, stands>>
  BY DEF Steer, delegVars
<1> QED
  BY <1>1, <1>2, <1>3, <1>4, <1>5, <1>6, <1>7, <1>8, <1>9, <1>10, <1>11, <1>12, <1>13, <1>14, <1>15, <1>16, <1>17, <1>18, <1>19, <1>20, <1>21 DEF DelegationNext, Going, Ending

(* Rows of the ledger keep whom they are for, and none is admitted again.  *)
Rewritten ==
    /\ DOMAIN ledger' = 1..Len(ledger) /\ ledger' = [i \in 1..Len(ledger) |-> ledger'[i]]
    /\ \A i \in 1..Len(ledger) :
         /\ RowTyped(ledger[i]) => RowTyped(ledger'[i])
         /\ ledger'[i].status = "admitted" => ledger[i].status = "admitted"

Appended ==
    /\ \E row : RowTyped(row) /\ ledger' = Append(ledger, row)
    /\ stands[Outer] # "replaced"

NotReplacedNow == stands'[Outer] = "replaced" => stands[Outer] = "replaced"

(* Notices, messages and inputs are written for runs that are active.      *)
LEMMA LedgerWriters ==
    ASSUME FamilyInv, [DelegationNext]_delegVars, ~NextRun
    PROVE  NotReplacedNow /\ (UNCHANGED ledger \/ Rewritten \/ Appended)
<1> USE DEF FamilyInv, FamilyRows, RowsTyped, NotReplacedNow
<1>1. ASSUME NEW r \in Runs, Ask(r) \/ Answered(r) \/ Close(r) \/ Finish(r) \/ LeaveLoop(r) \/ SendStart(r)
      PROVE  UNCHANGED ledger /\ NotReplacedNow
  BY <1>1, FamilyFacts DEF Ask, Answered, Close, Finish, LeaveLoop, SendStart, Stand
<1>2. ASSUME NEW c \in Subs, FinalizeError(c) \/ Accumulate(c) \/ Deliver(c) \/ Push(c)
      PROVE  UNCHANGED ledger /\ NotReplacedNow
  BY <1>2, FamilyFacts DEF FinalizeError, Accumulate, Deliver, Push, Stand
<1>3. ASSUME NEW c \in Subs, Return(c) PROVE UNCHANGED ledger /\ NotReplacedNow
  BY <1>3, FamilyFacts DEF Return
<1>4. ASSUME NEW p \in Runs, NEW c \in Subs, Delegate(p, c) PROVE UNCHANGED ledger /\ NotReplacedNow
  BY <1>4, FamilyFacts DEF Delegate
<1>5. ASSUME NEW r \in Runs, Spend(r) \/ Cut(r) PROVE UNCHANGED ledger /\ NotReplacedNow
  BY <1>5 DEF Spend, Cut
<1>6. CASE FailOuter
  BY <1>6, FamilyFacts DEF FailOuter, Stand
<1>7. CASE UNCHANGED delegVars
  BY <1>7 DEF delegVars
<1>8. ASSUME NEW r \in Runs, TakeNotices(r) PROVE Rewritten /\ NotReplacedNow
  BY <1>8 DEF TakeNotices, Rewritten, LedgerTyped, RowTyped
<1>9. ASSUME NEW r \in Runs, TakeInput(r) PROVE Rewritten /\ NotReplacedNow
  <2>1. PICK i \in 1..Len(ledger) : ledger' = [ledger EXCEPT ![i].status = "guided"]
    BY <1>9 DEF TakeInput
  <2>2. Len(ledger) \in Nat /\ DOMAIN ledger = 1..Len(ledger)
    BY DEF LedgerTyped
  <2>3. \A j \in 1..Len(ledger) : ledger'[j] = IF j = i THEN [ledger[i] EXCEPT !.status = "guided"] ELSE ledger[j]
    BY <2>1, <2>2
  <2>4. DOMAIN ledger' = 1..Len(ledger) /\ ledger' = [j \in 1..Len(ledger) |-> ledger'[j]]
    BY <2>1, <2>2
  <2>5. \A j \in 1..Len(ledger) :
         /\ RowTyped(ledger[j]) => RowTyped(ledger'[j])
         /\ ledger'[j].status = "admitted" => ledger[j].status = "admitted"
    BY <2>3 DEF LedgerTyped, RowTyped
  <2> QED BY <1>9, <2>4, <2>5 DEF TakeInput, Rewritten
<1>10. ASSUME NEW r \in Runs, Settle(r) PROVE Rewritten /\ NotReplacedNow
  <2>1. Rewritten
    BY <1>10 DEF Settle, Settled, Rewritten, LedgerTyped, RowTyped
  <2>2. NotReplacedNow
    BY <1>10, FamilyFacts DEF Settle, Stand
  <2> QED BY <2>1, <2>2
<1>11. ASSUME NEW r \in Runs, SendWrite(r) PROVE Appended /\ NotReplacedNow
  <2>1. stands[Outer] # "replaced"
    BY <1>11 DEF SendWrite, NobodyActive, WorkingActive, OrdinaryWork
  <2>2. PICK c \in Subs : ledger' = Append(ledger, NewInput(c, r, "user_input", seen[r] + 1))
    BY <1>11 DEF SendWrite
  <2>3. \E row : RowTyped(row) /\ ledger' = Append(ledger, row)
    <3> WITNESS NewInput(c, r, "user_input", seen[r] + 1)
    <3> QED BY <2>2, FamilyFacts DEF NewInput, RowTyped
  <2>4. NotReplacedNow
    BY <1>11, FamilyFacts DEF SendWrite, Stand
  <2> QED BY <2>1, <2>3, <2>4 DEF Appended
<1>12. CASE Steer
  <2>1. stands[Outer] # "replaced" /\ UNCHANGED stands
    BY <1>12, FamilyFacts DEF Steer, NobodyActive
  <2>2. \E row : RowTyped(row) /\ ledger' = Append(ledger, row)
    <3> WITNESS NewInput(Outer, Outer, "user_input", LastNumber + 1)
    <3> QED BY <1>12, FamilyFacts DEF Steer, NewInput, RowTyped
  <2> QED BY <2>1, <2>2 DEF Appended
<1>13. ASSUME NEW c \in Subs, Commit(c) PROVE (UNCHANGED ledger \/ Appended) /\ NotReplacedNow
  <2>1. stands[Outer] # "replaced"
    BY <1>13 DEF Commit, NobodyActive, ParentHeld, Active
  <2>2. ASSUME ledger' = Append(ledger, NewInput(up[c], c, "notification", seen[c] + 1)) PROVE Appended
    <3>1. \E row : RowTyped(row) /\ ledger' = Append(ledger, row)
      <4> WITNESS NewInput(up[c], c, "notification", seen[c] + 1)
      <4> QED BY <2>2 DEF NewInput, RowTyped
    <3> QED BY <2>1, <3>1 DEF Appended
  <2>3. NotReplacedNow
    BY <1>13, FamilyFacts DEF Commit, Stand
  <2>4. ledger' = Append(ledger, NewInput(up[c], c, "notification", seen[c] + 1)) \/ UNCHANGED ledger
    BY <1>13 DEF Commit
  <2> QED BY <2>2, <2>3, <2>4
<1> QED
  BY <1>1, <1>2, <1>3, <1>4, <1>5, <1>6, <1>7, <1>8, <1>9, <1>10, <1>11, <1>12, <1>13, FamilyFacts
     DEF DelegationNext, Going, Ending

LEMMA FamilyStep == FamilyInv /\ [DelegationNext]_delegVars => FamilyInv'
<1> SUFFICES ASSUME FamilyInv, [DelegationNext]_delegVars PROVE (LedgerTyped /\ NothingOutlives)'
  BY FamilyRowsStep DEF FamilyInv
<1> USE DEF FamilyInv, LedgerTyped, NothingOutlives
<1>1. CASE NextRun
  <2>1. ledger' = Settled(Runs) /\ Rewritten
    BY <1>1 DEF NextRun, Settled, Rewritten, RowTyped
  <2>2. ledger' \in Seq(ToSet(ledger')) /\ Len(ledger') = Len(ledger)
    BY <2>1, RewrittenRows DEF Rewritten
  <2>3. \A i \in 1..Len(ledger) : RowTyped(ledger'[i]) /\ ledger'[i].status # "admitted"
    BY <2>1 DEF Settled, Rewritten, RowTyped
  <2> QED BY <2>2, <2>3
<1>2. CASE ~NextRun /\ UNCHANGED ledger
  BY <1>2, LedgerWriters DEF NotReplacedNow
<1>3. CASE ~NextRun /\ Rewritten
  <2>1. ledger' \in Seq(ToSet(ledger')) /\ Len(ledger') = Len(ledger)
    BY <1>3, RewrittenRows DEF Rewritten
  <2> QED BY <1>3, <2>1, LedgerWriters DEF Rewritten, NotReplacedNow
<1>4. CASE ~NextRun /\ Appended
  <2>1. PICK row : RowTyped(row) /\ ledger' = Append(ledger, row)
    BY <1>4 DEF Appended
  <2>2. /\ ledger' \in Seq(ToSet(ledger')) /\ Len(ledger') = Len(ledger) + 1
        /\ \A i \in 1..Len(ledger) : ledger'[i] = ledger[i]
        /\ ledger'[Len(ledger) + 1] = row
    BY <2>1, AppendedRow
  <2>3. stands'[Outer] # "replaced"
    BY <1>4, LedgerWriters DEF Appended, NotReplacedNow
  <2>4. \A i \in 1..Len(ledger') : RowTyped(ledger'[i])
    BY <2>1, <2>2
  <2> QED BY <2>2, <2>3, <2>4
<1> QED BY <1>1, <1>2, <1>3, <1>4, LedgerWriters

LEMMA FamilyFirst == DelegationInit => FamilyInv
<1> SUFFICES ASSUME DelegationInit PROVE FamilyInv
  OBVIOUS
<1>1. LedgerTyped /\ NothingOutlives
  BY DEF DelegationInit, LedgerTyped, NothingOutlives, ToSet
<1>2. FamilyRows
  BY FamilyFacts DEF DelegationInit, FamilyRows, RowsTyped, WorkingActive, ParentWaits, ParentThere,
                     ParentHeld, NobodyActive, OrdinaryWork, Active, States, Places
<1> QED BY <1>1, <1>2 DEF FamilyInv

(* When the next run of the session begins nothing admitted is left, and   *)
(* no notice or message of an old sub-run turns up after it: who writes    *)
(* one has an active run to write it for (deliverBackgroundNotification,   *)
(* executeSendMessage, createReactRunContext).                             *)
THEOREM NothingOutlivesHolds == DelegationSpec => []NothingOutlives
<1>1. DelegationInit => FamilyInv
  BY FamilyFirst
<1>2. FamilyInv => NothingOutlives
  BY DEF FamilyInv
<1> QED BY <1>1, <1>2, FamilyStep, PTL DEF DelegationSpec

-----------------------------------------------------------------------------
(* Sums over a finite set of rows, by the recursion of MapThenSumSet: what *)
(* one row, a part of the set and larger rows make of a sum.  The provers  *)
(* recognise a set inside of an application only behind a name: Drop.      *)
Drop(s, x) == s \ {x}
One(s) == CHOOSE x \in s : TRUE
Sums(table, A) ==
  CHOOSE it : it = [s \in SUBSET A |-> IF s = {} THEN 0 ELSE table[One(s)].own + it[Drop(s, One(s))]]

(* The subsets of A with at most n elements.                               *)
Small(A, n) == {s \in SUBSET A : Cardinality(s) <= n}

LEMMA OneOf == ASSUME NEW s, s # {} PROVE One(s) \in s
BY DEF One

LEMMA OneLess ==
  ASSUME NEW A, IsFiniteSet(A), NEW s \in SUBSET A, NEW x \in s
  PROVE  /\ Drop(s, x) \in SUBSET A
         /\ Cardinality(s) \in Nat /\ Cardinality(Drop(s, x)) \in Nat
         /\ Cardinality(Drop(s, x)) = Cardinality(s) - 1
<1>1. IsFiniteSet(s)
  BY FS_Subset
<1> QED BY <1>1, FS_RemoveElement, FS_CardinalityType DEF Drop

(* There is a function as the recursion describes it: on the sets of at    *)
(* most n elements for every n, by induction over n.                       *)
LEMMA SumsExist ==
  ASSUME NEW table, NEW A, IsFiniteSet(A)
  PROVE  /\ Sums(table, A)[{}] = 0
         /\ \A s \in SUBSET A : s # {} =>
              Sums(table, A)[s] = table[One(s)].own + Sums(table, A)[Drop(s, One(s))]
<1> DEFINE IsSum(f, n) ==
      f = [s \in Small(A, n) |-> IF s = {} THEN 0 ELSE table[One(s)].own + f[Drop(s, One(s))]]
           N == {n \in Nat : \E f : IsSum(f, n)}
<1>1. 0 \in N
  <2> DEFINE f == [s \in Small(A, 0) |-> 0]
  <2>1. \A s \in Small(A, 0) : s = {}
    <3> SUFFICES ASSUME NEW s \in Small(A, 0) PROVE s = {}
      OBVIOUS
    <3>1. IsFiniteSet(s) /\ Cardinality(s) <= 0
      BY FS_Subset DEF Small
    <3> QED BY <3>1, FS_EmptySet, FS_CardinalityType
  <2>2. IsSum(f, 0)
    BY <2>1
  <2> QED BY <2>2
<1>2. \A n \in Nat : n \in N => n + 1 \in N
  <2> HIDE DEF IsSum
  <2> SUFFICES ASSUME NEW n \in Nat, NEW f, IsSum(f, n) PROVE \E g : IsSum(g, n + 1)
    OBVIOUS
  <2> USE DEF IsSum
  <2> DEFINE g == [s \in Small(A, n + 1) |-> IF s = {} THEN 0 ELSE table[One(s)].own + f[Drop(s, One(s))]]
  <2>1. \A s \in Small(A, n + 1) : s # {} =>
          /\ Drop(s, One(s)) \in Small(A, n) /\ Drop(s, One(s)) \in Small(A, n + 1)
    BY OneOf, OneLess DEF Small
  <2>2. \A s \in Small(A, n) : s \in Small(A, n + 1)
    BY FS_Subset, FS_CardinalityType DEF Small
  <2>3. \A s \in Small(A, n) : g[s] = f[s]
    <3> SUFFICES ASSUME NEW s \in Small(A, n) PROVE g[s] = f[s]
      OBVIOUS
    <3>1. g[s] = IF s = {} THEN 0 ELSE table[One(s)].own + f[Drop(s, One(s))]
      BY <2>2
    <3>2. f[s] = IF s = {} THEN 0 ELSE table[One(s)].own + f[Drop(s, One(s))]
      OBVIOUS
    <3> QED BY <3>1, <3>2
  <2>4. \A s \in Small(A, n + 1) : s # {} => g[Drop(s, One(s))] = f[Drop(s, One(s))]
    BY <2>1, <2>3
  <2>5. IsSum(g, n + 1)
    BY <2>4
  <2> QED BY <2>5
<1>3. Cardinality(A) \in N
  <2> HIDE DEF N
  <2> QED BY <1>1, <1>2, NatInducts, FS_CardinalityType
<1>4. Small(A, Cardinality(A)) = SUBSET A
  BY FS_Subset DEF Small
<1>5. PICK f : IsSum(f, Cardinality(A))
  BY <1>3
<1>6. f = [s \in SUBSET A |-> IF s = {} THEN 0 ELSE table[One(s)].own + f[Drop(s, One(s))]]
  BY <1>4, <1>5
<1>7. PICK F : F = Sums(table, A)
  OBVIOUS
<1>8. F = [s \in SUBSET A |-> IF s = {} THEN 0 ELSE table[One(s)].own + F[Drop(s, One(s))]]
  BY ONLY <1>6, <1>7 DEF Sums
<1>9. F[{}] = 0 /\ \A s \in SUBSET A : s # {} => F[s] = table[One(s)].own + F[Drop(s, One(s))]
  BY <1>8
<1> QED BY <1>7, <1>9

LEMMA SumsStep ==
  ASSUME NEW table, NEW A, IsFiniteSet(A), NEW s \in SUBSET A, s # {}
  PROVE  Sums(table, A)[s] = table[One(s)].own + Sums(table, A)[Drop(s, One(s))]
BY SumsExist

LEMMA SumsOfNone ==
  ASSUME NEW table, NEW A, IsFiniteSet(A)
  PROVE  Sums(table, A)[{}] = 0
BY SumsExist

LEMMA CountedOut ==
  ASSUME NEW A, IsFiniteSet(A), NEW s \in SUBSET A, NEW n \in Nat
  PROVE  /\ Cardinality(s) = 0 => s = {}
         /\ Cardinality(s) = n + 1 => s # {} /\ One(s) \in s
<1>1. IsFiniteSet(s)
  BY FS_Subset
<1>2. Cardinality(s) = 0 <=> s = {}
  BY <1>1, FS_EmptySet
<1> QED BY <1>2, OneOf

(* What is added up does not depend on the set the recursion began with.   *)
LEMMA SumsAgree ==
  ASSUME NEW table, NEW A, IsFiniteSet(A), NEW B \in SUBSET A, NEW s \in SUBSET B
  PROVE  Sums(table, B)[s] = Sums(table, A)[s]
<1> DEFINE N == {n \in Nat : \A t \in SUBSET B :
                    Cardinality(t) = n => Sums(table, B)[t] = Sums(table, A)[t]}
<1>0. IsFiniteSet(B)
  BY FS_Subset
<1>1. 0 \in N
  <2> SUFFICES ASSUME NEW t \in SUBSET B, Cardinality(t) = 0
               PROVE  Sums(table, B)[t] = Sums(table, A)[t]
    OBVIOUS
  <2>1. t = {}
    BY <1>0, CountedOut
  <2> QED BY <1>0, <2>1, SumsOfNone
<1>2. \A n \in Nat : n \in N => n + 1 \in N
  <2> SUFFICES ASSUME NEW n \in Nat, n \in N, NEW t \in SUBSET B, Cardinality(t) = n + 1
               PROVE  Sums(table, B)[t] = Sums(table, A)[t]
    OBVIOUS
  <2>1. t # {} /\ One(t) \in t
    BY <1>0, CountedOut
  <2>2. Drop(t, One(t)) \in SUBSET B /\ Cardinality(Drop(t, One(t))) = n
    BY <1>0, <2>1, OneLess
  <2>3. Sums(table, B)[Drop(t, One(t))] = Sums(table, A)[Drop(t, One(t))]
    BY <2>2
  <2>4. Sums(table, B)[t] = table[One(t)].own + Sums(table, B)[Drop(t, One(t))]
    BY <1>0, <2>1, SumsStep, Zenon
  <2>5. t \in SUBSET A
    OBVIOUS
  <2>6. Sums(table, A)[t] = table[One(t)].own + Sums(table, A)[Drop(t, One(t))]
    BY <2>1, <2>5, SumsStep, Zenon
  <2> QED BY <2>3, <2>4, <2>6
<1>3. Nat \subseteq N
  <2> HIDE DEF N
  <2> QED BY <1>1, <1>2, NatInducts
<1>4. Cardinality(s) \in Nat
  BY <1>0, FS_Subset, FS_CardinalityType
<1> QED BY <1>3, <1>4

(* The runs whose own tokens are counted, with their rows. *)
Counted(table, A) == IsFiniteSet(A) /\ \A d \in A : table[d].own \in Nat

LEMMA OwnIsNat ==
  ASSUME NEW table, NEW A, Counted(table, A), NEW S \in SUBSET A
  PROVE  Sums(table, A)[S] \in Nat
<1> DEFINE N == {n \in Nat : \A t \in SUBSET A : Cardinality(t) = n => Sums(table, A)[t] \in Nat}
<1>0. IsFiniteSet(A)
  BY DEF Counted
<1>1. 0 \in N
  <2> SUFFICES ASSUME NEW t \in SUBSET A, Cardinality(t) = 0 PROVE Sums(table, A)[t] \in Nat
    OBVIOUS
  <2>1. t = {}
    BY <1>0, CountedOut
  <2> QED BY <1>0, <2>1, SumsOfNone
<1>2. \A n \in Nat : n \in N => n + 1 \in N
  <2> SUFFICES ASSUME NEW n \in Nat, n \in N, NEW t \in SUBSET A, Cardinality(t) = n + 1
               PROVE  Sums(table, A)[t] \in Nat
    OBVIOUS
  <2>1. t # {} /\ One(t) \in t
    BY <1>0, CountedOut
  <2>2. Drop(t, One(t)) \in SUBSET A /\ Cardinality(Drop(t, One(t))) = n
    BY <1>0, <2>1, OneLess
  <2>3. Sums(table, A)[Drop(t, One(t))] \in Nat
    BY <2>2
  <2>4. Sums(table, A)[t] = table[One(t)].own + Sums(table, A)[Drop(t, One(t))]
    BY <1>0, <2>1, SumsStep
  <2> QED BY <2>1, <2>3, <2>4 DEF Counted
<1>3. Nat \subseteq N
  <2> HIDE DEF N
  <2> QED BY <1>1, <1>2, NatInducts
<1>4. Cardinality(S) \in Nat
  BY <1>0, FS_Subset, FS_CardinalityType
<1> QED BY <1>3, <1>4

(* The order in which the runs are added up makes no difference. *)
LEMMA OwnOfAny ==
  ASSUME NEW table, NEW A, Counted(table, A), NEW S \in SUBSET A, NEW x \in S
  PROVE  Sums(table, A)[S] = table[x].own + Sums(table, A)[Drop(S, x)]
<1> DEFINE P(n) == \A t \in SUBSET A : \A y \in t :
              Cardinality(t) = n => Sums(table, A)[t] = table[y].own + Sums(table, A)[Drop(t, y)]
           N == {n \in Nat : P(n)}
<1>0. IsFiniteSet(A)
  BY DEF Counted
<1>1. 0 \in N
  <2> SUFFICES ASSUME NEW t \in SUBSET A, Cardinality(t) = 0 PROVE t = {}
    OBVIOUS
  <2> QED BY <1>0, CountedOut
<1>2. \A n \in Nat : n \in N => n + 1 \in N
  <2> HIDE DEF P
  <2> SUFFICES ASSUME NEW n \in Nat, P(n) PROVE P(n + 1)
    OBVIOUS
  <2> USE DEF P
  <2> SUFFICES ASSUME NEW t \in SUBSET A, NEW y \in t, Cardinality(t) = n + 1
               PROVE  Sums(table, A)[t] = table[y].own + Sums(table, A)[Drop(t, y)]
    OBVIOUS
  <2>1. t # {} /\ One(t) \in t
    BY OneOf
  <2>2. Sums(table, A)[t] = table[One(t)].own + Sums(table, A)[Drop(t, One(t))]
    BY <1>0, <2>1, SumsStep
  <2>3. CASE y = One(t)
    BY <2>2, <2>3
  <2>4. CASE y # One(t)
    <3> DEFINE c == One(t)
    <3>1. c \in t /\ c # y
      BY <2>1, <2>4
    <3> HIDE DEF c
    <3>2. Drop(t, c) \in SUBSET A /\ Cardinality(Drop(t, c)) = n /\ y \in Drop(t, c)
      BY <1>0, <3>1, OneLess DEF Drop
    <3>3. Drop(t, y) \in SUBSET A /\ Cardinality(Drop(t, y)) = n /\ c \in Drop(t, y)
      BY <1>0, <3>1, OneLess DEF Drop
    <3>4. Sums(table, A)[Drop(t, c)] = table[y].own + Sums(table, A)[Drop(Drop(t, c), y)]
      BY <3>2
    <3>5. Sums(table, A)[Drop(t, y)] = table[c].own + Sums(table, A)[Drop(Drop(t, y), c)]
      BY <3>3
    <3>6. Drop(Drop(t, c), y) = Drop(Drop(t, y), c)
      BY DEF Drop
    <3>7. Sums(table, A)[t] = table[c].own + Sums(table, A)[Drop(t, c)]
      BY <2>2 DEF c
    <3>8. Drop(Drop(t, y), c) \in SUBSET A
      BY DEF Drop
    <3>9. Sums(table, A)[Drop(Drop(t, y), c)] \in Nat
      BY <3>8, OwnIsNat
    <3>10. table[y].own \in Nat /\ table[c].own \in Nat
      BY <3>1 DEF Counted
    <3> QED BY ONLY <3>4, <3>5, <3>6, <3>7, <3>9, <3>10
  <2> QED BY <2>3, <2>4
<1>3. Nat \subseteq N
  <2> HIDE DEF N
  <2> QED BY <1>1, <1>2, NatInducts
<1>4. Cardinality(S) \in Nat
  BY <1>0, FS_Subset, FS_CardinalityType
<1> QED BY <1>3, <1>4

(* The sum over two sets without a common element; over a part of a set;   *)
(* over larger values.                                                     *)
LEMMA OwnAdds ==
  ASSUME NEW table, NEW A, Counted(table, A), NEW S \in SUBSET A, NEW T \in SUBSET A, S \cap T = {},
         NEW U, U = S \cup T
  PROVE  Sums(table, A)[U] = Sums(table, A)[S] + Sums(table, A)[T]
<1> DEFINE P(n) == \A t, u \in SUBSET A : Cardinality(t) = n /\ S \cap t = {} /\ u = S \cup t =>
              Sums(table, A)[u] = Sums(table, A)[S] + Sums(table, A)[t]
           N == {n \in Nat : P(n)}
<1>0. IsFiniteSet(A)
  BY DEF Counted
<1>1. 0 \in N
  <2> SUFFICES ASSUME NEW t \in SUBSET A, NEW u \in SUBSET A, Cardinality(t) = 0, u = S \cup t
               PROVE  Sums(table, A)[u] = Sums(table, A)[S] + Sums(table, A)[t]
    OBVIOUS
  <2>1. t = {} /\ u = S
    BY <1>0, CountedOut
  <2>2. Sums(table, A)[t] = 0 /\ Sums(table, A)[S] \in Nat
    BY <1>0, <2>1, SumsOfNone, OwnIsNat
  <2> QED BY ONLY <2>1, <2>2
<1>2. \A n \in Nat : n \in N => n + 1 \in N
  <2> HIDE DEF P
  <2> SUFFICES ASSUME NEW n \in Nat, P(n) PROVE P(n + 1)
    OBVIOUS
  <2> USE DEF P
  <2> SUFFICES ASSUME NEW t \in SUBSET A, NEW u \in SUBSET A, Cardinality(t) = n + 1, S \cap t = {},
                      u = S \cup t
               PROVE  Sums(table, A)[u] = Sums(table, A)[S] + Sums(table, A)[t]
    OBVIOUS
  <2>1. PICK y \in t : TRUE
    BY <1>0, CountedOut
  <2>2. Drop(t, y) \in SUBSET A /\ Cardinality(Drop(t, y)) = n /\ S \cap Drop(t, y) = {}
    BY <1>0, OneLess DEF Drop
  <2>3. Drop(u, y) = S \cup Drop(t, y) /\ Drop(u, y) \in SUBSET A
    BY DEF Drop
  <2>4. Sums(table, A)[Drop(u, y)] = Sums(table, A)[S] + Sums(table, A)[Drop(t, y)]
    BY <2>2, <2>3
  <2>5. y \in u /\ y \in A
    OBVIOUS
  <2>6. Sums(table, A)[u] = table[y].own + Sums(table, A)[Drop(u, y)]
    BY <2>5, OwnOfAny
  <2>7. Sums(table, A)[t] = table[y].own + Sums(table, A)[Drop(t, y)]
    BY OwnOfAny
  <2>8. Sums(table, A)[Drop(t, y)] \in Nat /\ Sums(table, A)[S] \in Nat
    BY <2>2, OwnIsNat
  <2>9. table[y].own \in Nat
    BY <2>5 DEF Counted
  <2> QED BY ONLY <2>4, <2>6, <2>7, <2>8, <2>9
<1>3. Nat \subseteq N
  <2> HIDE DEF N
  <2> QED BY <1>1, <1>2, NatInducts
<1>4. Cardinality(T) \in Nat /\ U \in SUBSET A
  BY <1>0, FS_Subset, FS_CardinalityType
<1> QED BY <1>3, <1>4

LEMMA OwnWithin ==
  ASSUME NEW table, NEW A, Counted(table, A), NEW T \in SUBSET A, NEW S \in SUBSET T
  PROVE  Sums(table, A)[S] <= Sums(table, A)[T]
<1>1. PICK R \in SUBSET A : R = T \ S
  OBVIOUS
<1>2. S \in SUBSET A /\ S \cap R = {} /\ T = S \cup R
  BY <1>1
<1>3. Sums(table, A)[T] = Sums(table, A)[S] + Sums(table, A)[R]
  BY <1>2, OwnAdds
<1>4. Sums(table, A)[S] \in Nat /\ Sums(table, A)[R] \in Nat
  BY <1>2, OwnIsNat
<1> QED BY ONLY <1>3, <1>4

LEMMA OwnGrows ==
  ASSUME NEW table, NEW later, NEW A, Counted(table, A), Counted(later, A),
         \A d \in A : table[d].own <= later[d].own, NEW S \in SUBSET A
  PROVE  Sums(table, A)[S] <= Sums(later, A)[S]
<1> DEFINE P(n) == \A t \in SUBSET A : Cardinality(t) = n =>
              Sums(table, A)[t] <= Sums(later, A)[t]
           N == {n \in Nat : P(n)}
<1>0. IsFiniteSet(A)
  BY DEF Counted
<1>1. 0 \in N
  <2> SUFFICES ASSUME NEW t \in SUBSET A, Cardinality(t) = 0
               PROVE  Sums(table, A)[t] <= Sums(later, A)[t]
    OBVIOUS
  <2>1. t = {}
    BY <1>0, CountedOut
  <2>2. Sums(table, A)[t] = 0 /\ Sums(later, A)[t] = 0
    BY <1>0, <2>1, SumsOfNone
  <2> QED BY ONLY <2>2
<1>2. \A n \in Nat : n \in N => n + 1 \in N
  <2> HIDE DEF P
  <2> SUFFICES ASSUME NEW n \in Nat, P(n) PROVE P(n + 1)
    OBVIOUS
  <2> USE DEF P
  <2> SUFFICES ASSUME NEW t \in SUBSET A, Cardinality(t) = n + 1
               PROVE  Sums(table, A)[t] <= Sums(later, A)[t]
    OBVIOUS
  <2>1. PICK y \in t : TRUE
    BY <1>0, CountedOut
  <2>2. Drop(t, y) \in SUBSET A /\ Cardinality(Drop(t, y)) = n
    BY <1>0, OneLess DEF Drop
  <2>3. Sums(table, A)[Drop(t, y)] <= Sums(later, A)[Drop(t, y)]
    BY <2>2
  <2>4. Sums(table, A)[t] = table[y].own + Sums(table, A)[Drop(t, y)]
    BY OwnOfAny
  <2>5. Sums(later, A)[t] = later[y].own + Sums(later, A)[Drop(t, y)]
    BY OwnOfAny
  <2>6. Sums(table, A)[Drop(t, y)] \in Nat /\ Sums(later, A)[Drop(t, y)] \in Nat
    BY <2>2, OwnIsNat
  <2>7. table[y].own \in Nat /\ later[y].own \in Nat /\ table[y].own <= later[y].own
    BY DEF Counted
  <2> QED BY ONLY <2>3, <2>4, <2>5, <2>6, <2>7
<1>3. Nat \subseteq N
  <2> HIDE DEF N
  <2> QED BY <1>1, <1>2, NatInducts
<1>4. Cardinality(S) \in Nat
  BY <1>0, FS_Subset, FS_CardinalityType
<1> QED BY <1>3, <1>4
-----------------------------------------------------------------------------
(* The accounts of sub-runs                                                *)

(* The runs above a sub-run form a chain, and are older.                   *)
Above(c) ==
    /\ \A r \in line[c] : r < c /\ (r # Outer => stands[r] # "absent" /\ line[r] \subseteq line[c])
    /\ \A x, y \in line[c] : x < y => x \in line[y]
LineInv ==
    /\ line \in [Subs -> SUBSET Runs]
    /\ \A c \in Subs :
         /\ stands[c] = "absent" => line[c] = {}
         /\ stands[c] # "absent" => up[c] < c /\ line[c] = Line(up[c]) \cup {up[c]}
         /\ Above(c)

(* A sub-run that has given its tokens to its parent.                      *)
Paid(c) == stands[c] \in {"tallied", "accounted", "delivering", "pushing", "over"}
(* The runs below r whose tokens can have come up to it.                   *)
Arrived(r) == {d \in Subs : \E c \in Subs : up[c] = r /\ Paid(c) /\ (c = d \/ c \in line[d])}

AccountsInv == \A r \in Runs : runRow[r].delegated <= Sums(runRow, Subs)[Arrived(r)]

CountInv == FamilyInv /\ LineInv /\ AccountsInv

(* Every step but a delegation leaves the family as it is: nobody is       *)
(* created, and who has paid has paid.                                     *)
FamilyStays ==
    /\ UNCHANGED <<up, line>>
    /\ \A c \in Subs : (stands'[c] = "absent" <=> stands[c] = "absent") /\ (Paid(c) => Paid(c)')

LEMMA FamilyStaysStep ==
    ASSUME FamilyInv, [DelegationNext]_delegVars, ~\E p \in Runs, c \in Subs : Delegate(p, c)
    PROVE  FamilyStays
<1> USE DEF FamilyStays, Paid
<1>0. RowsTyped /\ ParentWaits
  BY DEF FamilyInv, FamilyRows
<1> USE <1>0 DEF RowsTyped
<1>1. ASSUME NEW r \in Runs, Ask(r) PROVE FamilyStays
  BY <1>1, FamilyFacts DEF Ask, Stand
<1>2. ASSUME NEW r \in Runs, Answered(r) PROVE FamilyStays
  BY <1>2, FamilyFacts DEF Answered, Stand
<1>3. ASSUME NEW r \in Runs, SendWrite(r) PROVE FamilyStays
  BY <1>3, FamilyFacts DEF SendWrite, Stand
<1>4. ASSUME NEW r \in Runs, Close(r) PROVE FamilyStays
  BY <1>4, FamilyFacts DEF Close, Stand
<1>5. ASSUME NEW r \in Runs, Finish(r) PROVE FamilyStays
  BY <1>5, FamilyFacts DEF Finish, Stand
<1>6. ASSUME NEW r \in Runs, LeaveLoop(r) PROVE FamilyStays
  BY <1>6, FamilyFacts DEF LeaveLoop, Stand
<1>7. ASSUME NEW r \in Runs, Settle(r) PROVE FamilyStays
  BY <1>7, FamilyFacts DEF Settle, Stand
<1>8. ASSUME NEW r \in Runs, SendStart(r) PROVE FamilyStays
  BY <1>8, FamilyFacts DEF SendStart, Stand
<1>9. ASSUME NEW c \in Subs, Spend(c) PROVE FamilyStays
  BY <1>9 DEF Spend
<1>10. ASSUME NEW c \in Subs, FinalizeError(c) PROVE FamilyStays
  BY <1>10, FamilyFacts DEF FinalizeError, Stand
<1>11. ASSUME NEW c \in Subs, Accumulate(c) PROVE FamilyStays
  BY <1>11, FamilyFacts DEF Accumulate, Stand
<1>12. ASSUME NEW c \in Subs, Return(c) PROVE FamilyStays
  <2>1. PICK place \in {"joined", "failing", "loop"} :
          stands' = [stands EXCEPT ![c] = "over", ![up[c]] = place]
    BY <1>12 DEF Return
  <2>2. stands[up[c]] = "joined" /\ stands[c] = "accounted" /\ UNCHANGED <<up, line>>
    BY <1>12 DEF Return, ParentWaits
  <2>3. up[c] \in Runs /\ c \in Runs
    BY FamilyFacts
  <2> QED BY <2>1, <2>2, <2>3, FamilyFacts
<1>13. ASSUME NEW c \in Subs, Deliver(c) PROVE FamilyStays
  BY <1>13, FamilyFacts DEF Deliver, Stand
<1>14. ASSUME NEW c \in Subs, Commit(c) PROVE FamilyStays
  BY <1>14, FamilyFacts DEF Commit, Stand
<1>15. ASSUME NEW c \in Subs, Push(c) PROVE FamilyStays
  BY <1>15, FamilyFacts DEF Push, Stand
<1>16. ASSUME FailOuter PROVE FamilyStays
  BY <1>16, FamilyFacts DEF FailOuter, Stand
<1>17. ASSUME NextRun PROVE FamilyStays
  BY <1>17, FamilyFacts DEF NextRun, Stand
<1>18. ASSUME NEW r \in Runs, TakeNotices(r) \/ TakeInput(r) \/ Cut(r) PROVE FamilyStays
  BY <1>18 DEF TakeNotices, TakeInput, Cut
<1>19. ASSUME Steer PROVE FamilyStays
  BY <1>19 DEF Steer
<1>20. ASSUME UNCHANGED delegVars PROVE FamilyStays
  BY <1>20 DEF delegVars
<1> QED
  BY <1>1, <1>2, <1>3, <1>4, <1>5, <1>6, <1>7, <1>8, <1>9, <1>10, <1>11, <1>12, <1>13, <1>14, <1>15, <1>16,
     <1>17, <1>18, <1>19, <1>20 DEF DelegationNext, Going, Ending

LEMMA LineStays == LineInv /\ RowsTyped /\ FamilyStays => LineInv'
<1> SUFFICES ASSUME LineInv, RowsTyped, FamilyStays PROVE LineInv'
  OBVIOUS
<1>1. \A r \in Runs : Line(r)' = Line(r)
  BY DEF FamilyStays, Line
<1>2. ASSUME NEW c \in Subs PROVE Above(c)'
  <2>1. Above(c) /\ line[c] \subseteq Runs
    BY DEF LineInv
  <2>2. \A r \in line[c] : r # Outer => r \in Subs
    BY <2>1, DelegationAssumption DEF Outer, Subs, Runs
  <2> QED BY <2>1, <2>2 DEF Above, FamilyStays
<1>3. \A c \in Subs : Line(up[c])' = Line(up[c])
  BY DEF FamilyStays, Line
<1> QED BY <1>2, <1>3 DEF LineInv, FamilyStays

(* A delegation adds the run to the chains as their youngest.              *)
LEMMA Delegated ==
    ASSUME NEW p \in Runs, NEW c \in Subs, FamilyInv, LineInv, Delegate(p, c)
    PROVE  /\ p < c /\ stands[p] # "absent" /\ stands[c] = "absent" /\ p # c
           /\ \A d \in Subs : stands[d] # "absent" => d < c
           /\ up' = [up EXCEPT ![c] = p] /\ line' = [line EXCEPT ![c] = Line(p) \cup {p}]
           /\ Line(p) \subseteq Runs
           /\ \A d \in Subs : d # c => (stands'[d] = "absent" <=> stands[d] = "absent")
           /\ stands'[c] = "loop" /\ \A d \in Subs : Paid(d)' <=> Paid(d)
<1>0. RowsTyped
  BY DEF FamilyInv, FamilyRows
<1>1. stands[p] \in {"loop", "joined"} /\ \A d \in Subs : stands[d] = "absent" <=> d >= c
  BY DEF Delegate
<1>2. p \in Int /\ c \in Int /\ Subs \subseteq Int /\ c >= c /\ c > 0 /\ (p # 0 => p \in Subs)
  BY DelegationAssumption DEF Runs, Subs
<1>3. stands[c] = "absent" /\ p # c
  BY <1>1, <1>2
<1>4. p < c
  BY <1>1, <1>2
<1>5. \A d \in Subs : stands[d] # "absent" => d < c
  BY <1>1, <1>2
<1>6. PICK later \in BOOLEAN :
        stands' = [stands EXCEPT ![c] = "loop", ![p] = IF later THEN stands[p] ELSE "joined"]
  BY <1>3 DEF Delegate
<1>7. PICK place \in {"loop", "joined"} : stands' = [stands EXCEPT ![c] = "loop", ![p] = place]
  BY <1>1, <1>6
<1>8. \A d \in Subs : d # c => (stands'[d] = "absent" <=> stands[d] = "absent")
  BY <1>0, <1>1, <1>7, FamilyFacts DEF RowsTyped
<1>9. stands'[c] = "loop"
  BY <1>0, <1>3, <1>7, FamilyFacts DEF RowsTyped
<1>10. \A d \in Subs : Paid(d)' <=> Paid(d)
  BY <1>0, <1>1, <1>3, <1>7, FamilyFacts DEF RowsTyped, Paid
<1>11. Line(p) \subseteq Runs
  BY <1>2 DEF Line, LineInv, Outer
<1> QED BY <1>1, <1>3, <1>4, <1>5, <1>8, <1>9, <1>10, <1>11 DEF Delegate

LEMMA LineDelegated ==
    ASSUME NEW p \in Runs, NEW c \in Subs, FamilyInv, LineInv, Delegate(p, c)
    PROVE  LineInv'
<1>0. RowsTyped /\ ParentThere
  BY DEF FamilyInv, FamilyRows
<1>1. /\ p < c /\ stands[p] # "absent" /\ stands[c] = "absent" /\ p # c
      /\ \A d \in Subs : stands[d] # "absent" => d < c
      /\ up' = [up EXCEPT ![c] = p] /\ line' = [line EXCEPT ![c] = Line(p) \cup {p}]
      /\ Line(p) \subseteq Runs
      /\ \A d \in Subs : d # c => (stands'[d] = "absent" <=> stands[d] = "absent")
      /\ stands'[c] = "loop"
  BY Delegated
<1>2. /\ line' \in [Subs -> SUBSET Runs] /\ line'[c] = Line(p) \cup {p} /\ up'[c] = p
      /\ \A d \in Subs : d # c => line'[d] = line[d] /\ up'[d] = up[d]
  BY <1>0, <1>1 DEF LineInv, RowsTyped
<1>3. \A d \in Runs : d # Outer => d \in Subs
  BY DelegationAssumption DEF Outer, Subs, Runs
<1>4. \A d \in Runs : d # c => Line(d)' = Line(d)
  BY <1>2, <1>3 DEF Line
<1>5. \A d \in Subs : \A r \in line[d] : r < c
  <2> SUFFICES ASSUME NEW d \in Subs, NEW r \in line[d] PROVE r < c
    OBVIOUS
  <2>1. stands[d] # "absent"
    BY DEF LineInv
  <2>2. r < d /\ d < c
    BY <1>1, <2>1 DEF LineInv, Above
  <2>3. r \in Int /\ d \in Int /\ c \in Int
    BY DEF LineInv, Runs, Subs
  <2> QED BY <2>2, <2>3
<1>6. \A d \in Subs : \A r \in line[d] : r # c
  <2>1. ~(c < c)
    BY DEF Subs
  <2> QED BY <1>5, <2>1
<1>7. \A r \in Line(p) : /\ r < p /\ r \in Runs /\ r # c /\ (r # Outer => stands[r] # "absent")
                         /\ (r # Outer => line[r] \subseteq Line(p))
  <2>1. CASE p = Outer
    BY <2>1 DEF Line
  <2>2. CASE p # Outer
    <3>1. Line(p) = line[p] /\ p \in Subs
      BY <1>3, <2>2 DEF Line
    <3> QED BY <1>6, <3>1 DEF LineInv, Above
  <2> QED BY <2>1, <2>2
<1>8. \A x, y \in Line(p) : x < y => x \in line[y]
  <2>1. CASE p = Outer
    BY <2>1 DEF Line
  <2>2. CASE p # Outer
    <3>1. Line(p) = line[p] /\ p \in Subs
      BY <1>3, <2>2 DEF Line
    <3> QED BY <3>1 DEF LineInv, Above
  <2> QED BY <2>1, <2>2
<1>9. Above(c)'
  <2>1. ASSUME NEW r \in line'[c] PROVE r < c /\ (r # Outer => stands'[r] # "absent" /\ line'[r] \subseteq line'[c])
    <3>1. CASE r = p
      <4>1. ASSUME r # Outer PROVE r \in Subs /\ line'[r] = line[r] /\ line[r] = Line(p)
        BY <1>1, <1>2, <1>3, <3>1, <4>1 DEF Line
      <4> QED BY <1>1, <1>2, <3>1, <4>1
    <3>2. CASE r \in Line(p)
      <4>1. r < p /\ p < c /\ r \in Int /\ p \in Int /\ c \in Int
        BY <1>1, <1>7, <3>2 DEF Runs, Subs
      <4>2. ASSUME r # Outer PROVE stands'[r] # "absent" /\ line'[r] = line[r] /\ line[r] \subseteq Line(p)
        BY <1>1, <1>2, <1>3, <1>7, <3>2, <4>2
      <4> QED BY <1>2, <4>1, <4>2
    <3> QED BY <1>2, <3>1, <3>2
  <2>2. ASSUME NEW x \in line'[c], NEW y \in line'[c], x < y PROVE x \in line'[y]
    <3>0. x \in Int /\ y \in Int /\ p \in Int /\ y \in Runs /\ x \in Runs
      BY <1>1, <1>2 DEF Runs
    <3>1. y # Outer /\ y # c
      <4>1. y # c
        BY <1>1, <1>2, <1>7
      <4> QED BY <2>2, <3>0, <4>1 DEF Outer, Runs
    <3>2. y \in Subs /\ line'[y] = line[y]
      BY <1>2, <1>3, <3>0, <3>1
    <3>3. CASE y = p
      <4>1. x # p /\ x \in Line(p)
        BY <1>2, <2>2, <3>0, <3>3
      <4> QED BY <3>1, <3>2, <3>3, <4>1 DEF Line
    <3>4. CASE y # p
      <4>1. y \in Line(p) /\ y < p
        BY <1>2, <1>7, <3>4
      <4>2. x # p
        BY <2>2, <3>0, <4>1
      <4>3. x \in Line(p)
        BY <1>2, <4>2
      <4> QED BY <1>8, <2>2, <3>2, <4>1, <4>3
    <3> QED BY <3>3, <3>4
  <2> QED BY <2>1, <2>2 DEF Above
<1>10. ASSUME NEW d \in Subs, d # c PROVE Above(d)'
  <2>1. Above(d) /\ line'[d] = line[d] /\ line[d] \subseteq Runs
    BY <1>2, <1>10 DEF LineInv
  <2>2. \A r \in line[d] : r # Outer => r \in Subs /\ r # c
    BY <1>3, <1>6, <2>1
  <2>3. \A x, y \in line[d] : x < y => y # Outer
    BY <2>1 DEF Runs, Outer
  <2> QED BY <1>1, <1>2, <2>1, <2>2, <2>3 DEF Above
<1>11. ASSUME NEW d \in Subs PROVE
         /\ stands'[d] = "absent" => line'[d] = {}
         /\ stands'[d] # "absent" => up'[d] < d /\ line'[d] = Line(up[d])' \cup {up'[d]}
  <2>1. CASE d = c
    <3>1. Line(p)' = Line(p)
      BY <1>1, <1>4
    <3>2. Line(up[d])' = Line(p)'
      BY <1>2, <2>1 DEF Line
    <3> QED BY <1>1, <1>2, <2>1, <3>1, <3>2
  <2>2. CASE d # c
    <3>1. stands'[d] = "absent" => line'[d] = {}
      BY <1>1, <1>2, <2>2 DEF LineInv
    <3>2. ASSUME stands'[d] # "absent" PROVE up'[d] < d /\ line'[d] = Line(up[d])' \cup {up'[d]}
      <4>1. stands[d] # "absent" /\ up'[d] = up[d]
        BY <1>1, <1>2, <2>2, <3>2
      <4>2. up[d] < d /\ line[d] = Line(up[d]) \cup {up[d]} /\ up[d] \in Runs
        BY <1>0, <4>1 DEF LineInv, RowsTyped
      <4>3. up[d] \in line[d] /\ up[d] # c
        BY <1>6, <4>2
      <4>4. Line(up[d])' = Line(up[d])
        BY <1>2, <1>3, <4>1, <4>2, <4>3 DEF Line
      <4> QED BY <1>2, <2>2, <4>1, <4>2, <4>4
    <3> QED BY <3>1, <3>2
  <2> QED BY <2>1, <2>2
<1>12. \A d \in Subs : Above(d)'
  BY <1>9, <1>10
<1> QED BY <1>2, <1>11, <1>12 DEF LineInv

LEMMA SubsCounted == RowsTyped => Counted(runRow, Subs)
<1>1. IsFiniteSet(Subs)
  BY FS_Interval, DelegationAssumption DEF Subs
<1>2. RowsTyped => \A d \in Subs : runRow[d].own \in Nat
  BY FamilyFacts DEF RowsTyped
<1> QED BY <1>1, <1>2 DEF Counted

(* No row is charged more, and what can have come up only grows.           *)
RowsMove ==
    \A d \in Runs : runRow[d].own <= runRow'[d].own /\ runRow'[d].delegated = runRow[d].delegated

LEMMA AccountsKept ==
    ASSUME RowsTyped, RowsTyped', AccountsInv, RowsMove, \A r \in Runs : Arrived(r) \subseteq Arrived(r)'
    PROVE  AccountsInv'
<1> SUFFICES ASSUME NEW r \in Runs
             PROVE  runRow'[r].delegated <= Sums(runRow', Subs)[Arrived(r)']
  BY DEF AccountsInv
<1>1. Counted(runRow, Subs) /\ Counted(runRow', Subs)
  <2>1. Counted(runRow, Subs)
    BY SubsCounted
  <2>2. IsFiniteSet(Subs) /\ \A d \in Subs : runRow'[d].own \in Nat
    BY <2>1, FamilyFacts DEF RowsTyped, Counted
  <2> QED BY <2>1, <2>2 DEF Counted
<1>2. PICK S \in SUBSET Subs : S = Arrived(r)
  BY DEF Arrived
<1>3. PICK T \in SUBSET Subs : T = Arrived(r)'
  BY DEF Arrived
<1>4. S \in SUBSET T
  BY <1>2, <1>3
<1>5. \A d \in Subs : runRow[d].own <= runRow'[d].own
  BY FamilyFacts DEF RowsMove
<1>6. Sums(runRow, Subs)[S] <= Sums(runRow', Subs)[S]
  BY <1>1, <1>5, OwnGrows
<1>7. Sums(runRow', Subs)[S] <= Sums(runRow', Subs)[T]
  BY <1>1, <1>4, OwnWithin
<1>8. runRow[r].delegated <= Sums(runRow, Subs)[S] /\ runRow'[r].delegated = runRow[r].delegated
  BY <1>2 DEF AccountsInv, RowsMove
<1>9. /\ Sums(runRow, Subs)[S] \in Nat /\ Sums(runRow', Subs)[S] \in Nat /\ Sums(runRow', Subs)[T] \in Nat
      /\ runRow[r].delegated \in Nat
  BY <1>1, OwnIsNat DEF RowsTyped
<1>10. runRow'[r].delegated <= Sums(runRow', Subs)[T]
  BY ONLY <1>6, <1>7, <1>8, <1>9
<1> QED BY <1>3, <1>10

LEMMA ArrivedStays == FamilyStays => \A r \in Runs : Arrived(r) \subseteq Arrived(r)'
  BY DEF FamilyStays, Arrived

LEMMA ArrivedDelegated ==
    ASSUME NEW p \in Runs, NEW c \in Subs, FamilyInv, LineInv, Delegate(p, c)
    PROVE  \A r \in Runs : Arrived(r) \subseteq Arrived(r)'
<1> SUFFICES ASSUME NEW r \in Runs, NEW d \in Subs, NEW e \in Subs, up[e] = r, Paid(e), e = d \/ e \in line[d]
             PROVE  up'[e] = r /\ Paid(e)' /\ (e = d \/ e \in line'[d])
  BY DEF Arrived
<1>0. RowsTyped
  BY DEF FamilyInv, FamilyRows
<1>1. /\ stands[c] = "absent" /\ up' = [up EXCEPT ![c] = p] /\ line' = [line EXCEPT ![c] = Line(p) \cup {p}]
      /\ Paid(e)' <=> Paid(e)
  BY Delegated
<1>2. e # c /\ line[c] = {}
  BY <1>1 DEF Paid, LineInv
<1>3. d # c
  BY <1>2
<1> QED BY <1>0, <1>1, <1>2, <1>3 DEF RowsTyped, LineInv

LEMMA RowsMoveStep ==
    ASSUME FamilyInv, [DelegationNext]_delegVars, ~\E c \in Subs : Accumulate(c)
    PROVE  RowsMove
<1>0. RowsTyped
  BY DEF FamilyInv, FamilyRows
<1> USE <1>0 DEF RowsTyped
<1>1. ASSUME NEW r \in Runs, NEW state, SetState(r, state) PROVE RowsMove
  BY <1>1 DEF SetState, RowsMove
<1>2. ASSUME UNCHANGED runRow PROVE RowsMove
  BY <1>2 DEF RowsMove
<1>3. ASSUME NEW c \in Subs, Spend(c) PROVE RowsMove
  BY <1>3, FamilyFacts DEF Spend, RowsMove
<1>4. ASSUME NEW p \in Runs, NEW c \in Subs, Delegate(p, c) PROVE RowsMove
  BY <1>4, FamilyFacts DEF Delegate, RowsMove
<1>5. ASSUME NEW r \in Runs, Ask(r) \/ Answered(r) \/ Finish(r) PROVE RowsMove
  BY <1>1, <1>5 DEF Ask, Answered, Finish
<1>6. ASSUME NEW c \in Subs, FinalizeError(c) PROVE RowsMove
  BY <1>1, <1>6, FamilyFacts DEF FinalizeError
<1>7. ASSUME FailOuter PROVE RowsMove
  BY <1>1, <1>7, FamilyFacts DEF FailOuter
<1>8. ASSUME NEW r \in Runs,
             SendStart(r) \/ SendWrite(r) \/ Close(r) \/ LeaveLoop(r) \/ Settle(r) \/ TakeNotices(r)
               \/ TakeInput(r) \/ Cut(r)
      PROVE  UNCHANGED runRow
  BY <1>8 DEF SendStart, SendWrite, Close, LeaveLoop, Settle, TakeNotices, TakeInput, Cut
<1>9. ASSUME NEW c \in Subs, Return(c) \/ Deliver(c) \/ Commit(c) \/ Push(c) PROVE UNCHANGED runRow
  BY <1>9 DEF Return, Deliver, Commit, Push
<1>10. NextRun \/ Steer \/ UNCHANGED delegVars => UNCHANGED runRow
  BY DEF NextRun, Steer, delegVars
<1> QED
  BY <1>2, <1>3, <1>4, <1>5, <1>6, <1>7, <1>8, <1>9, <1>10 DEF DelegationNext, Going, Ending

(* A sub-run that has not paid brings what came up to it, and its own: of  *)
(* these, nothing has reached its parent before.                           *)
LEMMA FirstTime ==
    ASSUME RowsTyped, LineInv, NEW c \in Subs, stands[c] # "absent", ~Paid(c)
    PROVE  Arrived(up[c]) \cap ({c} \cup Below(c)) = {}
<1> SUFFICES ASSUME NEW d \in Subs, NEW e \in Subs, up[e] = up[c], Paid(e), e = d \/ e \in line[d],
                    d = c \/ c \in line[d]
             PROVE  FALSE
  BY DEF Arrived, Below
<1>0. /\ c \in Int /\ e \in Int /\ d \in Int /\ up[c] \in Int /\ e # c
      /\ c # Outer /\ e # Outer /\ stands[e] # "absent"
  BY DelegationAssumption, FamilyFacts DEF Runs, Subs, RowsTyped, Paid
<1>1. /\ up[c] < c /\ up[e] < e
      /\ line[c] = Line(up[c]) \cup {up[c]} /\ line[e] = Line(up[e]) \cup {up[e]}
  BY <1>0 DEF LineInv
<1>2. \A x \in Line(up[c]) : x < up[c]
  BY <1>0, DelegationAssumption DEF Line, LineInv, Above, RowsTyped, Outer, Runs, Subs
<1>3. ASSUME NEW x \in Subs, up[x] = up[c], up[x] < x PROVE x \notin Line(up[c]) \cup {up[c]}
  <2>1. x \in Int
    BY DEF Subs
  <2> QED BY <1>0, <1>2, <1>3, <2>1
<1>4. e \notin line[c] /\ c \notin line[e]
  BY <1>1, <1>3
<1>5. CASE d = c
  BY <1>0, <1>4, <1>5
<1>6. CASE d = e
  BY <1>0, <1>4, <1>6
<1>7. CASE d # c /\ d # e
  <2>1. e \in line[d] /\ c \in line[d] /\ Above(d)
    BY <1>7 DEF LineInv
  <2>2. e < c \/ c < e
    BY <1>0
  <2> QED BY <1>4, <2>1, <2>2 DEF Above
<1> QED BY <1>5, <1>6, <1>7

LEMMA AccountsPaid ==
    ASSUME CountInv, FamilyStays, RowsTyped', NEW c \in Subs, Accumulate(c)
    PROVE  AccountsInv'
<1>0. RowsTyped /\ LineInv /\ AccountsInv
  BY DEF CountInv, FamilyInv, FamilyRows
<1>1. PICK p \in Runs : p = up[c]
  BY <1>0 DEF RowsTyped
<1>2. /\ stands[c] \in {"returned", "failing"}
      /\ \E place \in {"accounted", "tallied"} : stands' = [stands EXCEPT ![c] = place]
      /\ runRow' = [r \in Runs |-> IF r \in {p}
           THEN [runRow[r] EXCEPT !.delegated = @ + runRow[c].own + runRow[c].delegated] ELSE runRow[r]]
  BY <1>1 DEF Accumulate, Payers, Stand
<1>3. ~Paid(c) /\ stands[c] # "absent" /\ Paid(c)'
  BY <1>0, <1>2, FamilyFacts DEF Paid, RowsTyped
<1>4. p < c /\ p # c
  BY <1>0, <1>1, <1>3 DEF LineInv, Subs, Runs
<1>5. /\ \A r \in Runs : runRow'[r].own = runRow[r].own
      /\ \A r \in Runs : r # p => runRow'[r].delegated = runRow[r].delegated
      /\ runRow'[p].delegated = runRow[p].delegated + runRow[c].own + runRow[c].delegated
  BY <1>0, <1>2, FamilyFacts DEF RowsTyped
<1>6. Counted(runRow, Subs) /\ Counted(runRow', Subs)
  <2>1. Counted(runRow, Subs)
    BY <1>0, SubsCounted
  <2>2. IsFiniteSet(Subs) /\ \A d \in Subs : runRow'[d].own \in Nat
    BY <2>1, FamilyFacts DEF RowsTyped, Counted
  <2> QED BY <2>1, <2>2 DEF Counted
<1>7. \A S \in SUBSET Subs : Sums(runRow, Subs)[S] <= Sums(runRow', Subs)[S]
  <2>1. \A d \in Subs : runRow[d].own <= runRow'[d].own
    BY <1>0, <1>5, FamilyFacts DEF RowsTyped
  <2> QED BY <1>6, <2>1, OwnGrows
<1>8. ASSUME NEW r \in Runs, r # p PROVE runRow'[r].delegated <= Sums(runRow', Subs)[Arrived(r)']
  <2>1. PICK S \in SUBSET Subs : S = Arrived(r)
    BY DEF Arrived
  <2>2. PICK T \in SUBSET Subs : T = Arrived(r)'
    BY DEF Arrived
  <2>3. S \in SUBSET T
    BY <2>1, <2>2, ArrivedStays
  <2>4. Sums(runRow', Subs)[S] <= Sums(runRow', Subs)[T]
    BY <1>6, <2>3, OwnWithin
  <2>5. runRow'[r].delegated = runRow[r].delegated /\ runRow[r].delegated <= Sums(runRow, Subs)[S]
    BY <1>0, <1>5, <1>8, <2>1 DEF AccountsInv
  <2>6. Sums(runRow, Subs)[S] <= Sums(runRow', Subs)[S]
    BY <1>7
  <2>7. /\ Sums(runRow, Subs)[S] \in Nat /\ Sums(runRow', Subs)[S] \in Nat /\ Sums(runRow', Subs)[T] \in Nat
        /\ runRow[r].delegated \in Nat
    BY <1>0, <1>6, OwnIsNat DEF RowsTyped
  <2>8. runRow'[r].delegated <= Sums(runRow', Subs)[T]
    BY ONLY <2>4, <2>5, <2>6, <2>7
  <2> QED BY <2>2, <2>8
<1>9. runRow'[p].delegated <= Sums(runRow', Subs)[Arrived(p)']
  <2>1. PICK S \in SUBSET Subs : S = Arrived(p)
    BY DEF Arrived
  <2>2. PICK T \in SUBSET Subs : T = Arrived(p)'
    BY DEF Arrived
  <2>3. PICK B \in SUBSET Subs : B = Below(c)
    BY DEF Below
  <2>4. PICK D \in SUBSET Subs : D = {c} \cup B
    OBVIOUS
  <2>5. PICK U \in SUBSET Subs : U = S \cup D
    OBVIOUS
  <2>6. PICK C \in SUBSET Subs : C = {c}
    OBVIOUS
  <2>7. PICK A \in SUBSET Subs : A = Arrived(c)
    BY DEF Arrived
  <2>8. c \notin B
    BY <1>0, <2>3 DEF Below, LineInv, Above, Subs
  <2>9. A \in SUBSET B
    <3> SUFFICES ASSUME NEW d \in Subs, NEW e \in Subs, up[e] = c, Paid(e), e = d \/ e \in line[d]
                 PROVE  c \in line[d]
      BY <2>3, <2>7 DEF Arrived, Below
    <3>1. c \in line[e]
      BY <1>0 DEF LineInv, Paid
    <3>2. e \in line[d] => line[e] \subseteq line[d]
      BY <1>0, FamilyFacts DEF LineInv, Above
    <3> QED BY <3>1, <3>2
  <2>10. U \in SUBSET T
    <3>1. S \subseteq T
      BY <2>1, <2>2, ArrivedStays
    <3>2. c \in T /\ B \subseteq T
      BY <1>1, <1>3, <2>2, <2>3 DEF Arrived, Below, FamilyStays
    <3> QED BY <2>4, <2>5, <3>1, <3>2
  <2>11. S \cap D = {}
    BY <1>0, <1>1, <1>3, <2>1, <2>3, <2>4, FirstTime
  <2>12. Sums(runRow, Subs)[U] = Sums(runRow, Subs)[S] + Sums(runRow, Subs)[D]
    BY <1>6, <2>5, <2>11, OwnAdds
  <2>13. Sums(runRow, Subs)[D] = runRow[c].own + Sums(runRow, Subs)[B]
    <3>1. c \in D /\ Drop(D, c) = B
      BY <2>4, <2>8 DEF Drop
    <3> QED BY <1>6, <3>1, OwnOfAny
  <2>14. Sums(runRow, Subs)[A] <= Sums(runRow, Subs)[B]
    BY <1>6, <2>9, OwnWithin
  <2>15. Sums(runRow', Subs)[U] <= Sums(runRow', Subs)[T]
    BY <1>6, <2>10, OwnWithin
  <2>16. Sums(runRow, Subs)[U] <= Sums(runRow', Subs)[U]
    BY <1>7
  <2>17. runRow[p].delegated <= Sums(runRow, Subs)[S] /\ runRow[c].delegated <= Sums(runRow, Subs)[A]
    BY <1>0, <2>1, <2>7, FamilyFacts DEF AccountsInv
  <2>18. /\ Sums(runRow, Subs)[S] \in Nat /\ Sums(runRow, Subs)[A] \in Nat /\ Sums(runRow, Subs)[B] \in Nat
         /\ Sums(runRow, Subs)[D] \in Nat /\ Sums(runRow, Subs)[U] \in Nat
         /\ Sums(runRow', Subs)[U] \in Nat /\ Sums(runRow', Subs)[T] \in Nat
    BY <1>6, OwnIsNat
  <2>19. runRow[p].delegated \in Nat /\ runRow[c].delegated \in Nat /\ runRow[c].own \in Nat
    BY <1>0, FamilyFacts DEF RowsTyped
  <2>20. runRow'[p].delegated = runRow[p].delegated + runRow[c].own + runRow[c].delegated
    BY <1>5
  <2>21. runRow'[p].delegated <= Sums(runRow', Subs)[T]
    BY ONLY <2>12, <2>13, <2>14, <2>15, <2>16, <2>17, <2>18, <2>19, <2>20
  <2> QED BY <2>2, <2>21
<1> QED BY <1>8, <1>9 DEF AccountsInv

LEMMA CountStep == CountInv /\ [DelegationNext]_delegVars => CountInv'
<1> SUFFICES ASSUME CountInv, [DelegationNext]_delegVars PROVE CountInv'
  OBVIOUS
<1>1. FamilyInv /\ LineInv /\ AccountsInv /\ FamilyInv'
  BY FamilyStep DEF CountInv
<1>2. RowsTyped /\ RowsTyped'
  BY <1>1 DEF FamilyInv, FamilyRows
<1>3. CASE \E p \in Runs, c \in Subs : Delegate(p, c)
  <2>1. PICK p \in Runs, c \in Subs : Delegate(p, c)
    BY <1>3
  <2>2. LineInv' /\ \A r \in Runs : Arrived(r) \subseteq Arrived(r)'
    BY <1>1, <2>1, LineDelegated, ArrivedDelegated
  <2>3. RowsMove
    <3>1. ~\E d \in Subs : Accumulate(d)
      <4> SUFFICES ASSUME NEW d \in Subs, Accumulate(d) PROVE FALSE
        OBVIOUS
      <4>1. UNCHANGED up /\ UNCHANGED line
        BY DEF Accumulate
      <4>2. up' = [up EXCEPT ![c] = p] /\ line'[c] = Line(p) \cup {p} /\ line[c] = {}
        BY <1>1, <2>1, Delegated DEF LineInv
      <4> QED BY <4>1, <4>2
    <3> QED BY <1>1, <3>1, RowsMoveStep
  <2> QED BY <1>1, <1>2, <2>2, <2>3, AccountsKept DEF CountInv
<1>4. CASE ~\E p \in Runs, c \in Subs : Delegate(p, c)
  <2>1. FamilyStays
    BY <1>1, <1>4, FamilyStaysStep
  <2>2. LineInv' /\ \A r \in Runs : Arrived(r) \subseteq Arrived(r)'
    BY <1>1, <1>2, <2>1, LineStays, ArrivedStays
  <2>3. CASE \E c \in Subs : Accumulate(c)
    <3>1. AccountsInv'
      BY <1>2, <2>1, <2>3, AccountsPaid
    <3> QED BY <1>1, <2>2, <3>1 DEF CountInv
  <2>4. CASE ~\E c \in Subs : Accumulate(c)
    <3>1. RowsMove
      BY <1>1, <2>4, RowsMoveStep
    <3> QED BY <1>1, <1>2, <2>2, <3>1, AccountsKept DEF CountInv
  <2> QED BY <2>3, <2>4
<1> QED BY <1>3, <1>4

LEMMA OwnSums == ASSUME RowsTyped, NEW S \in SUBSET Subs PROVE OwnSum(S) = Sums(runRow, Subs)[S]
<1>1. OwnSum(S) = Sums(runRow, S)[S]
  BY DEF OwnSum, MapThenSumSet, MapThenFoldSet, Sums, One, Drop
<1>2. IsFiniteSet(Subs)
  BY SubsCounted DEF Counted
<1>3. Sums(runRow, S)[S] = Sums(runRow, Subs)[S]
  BY <1>2, SumsAgree
<1> QED BY <1>1, <1>3

LEMMA CountFirst == DelegationInit => CountInv
<1> SUFFICES ASSUME DelegationInit PROVE CountInv
  OBVIOUS
<1>1. FamilyInv
  BY FamilyFirst
<1>2. RowsTyped
  BY <1>1 DEF FamilyInv, FamilyRows
<1>3. LineInv
  BY FamilyFacts DEF DelegationInit, LineInv, Above
<1>4. AccountsInv
  <2> SUFFICES ASSUME NEW r \in Runs PROVE runRow[r].delegated <= Sums(runRow, Subs)[Arrived(r)]
    BY DEF AccountsInv
  <2>1. runRow[r].delegated = 0
    BY DEF DelegationInit
  <2>2. PICK S \in SUBSET Subs : S = Arrived(r)
    BY DEF Arrived
  <2>3. Sums(runRow, Subs)[S] \in Nat
    BY <1>2, SubsCounted, OwnIsNat
  <2> QED BY <2>1, <2>2, <2>3
<1> QED BY <1>1, <1>3, <1>4 DEF CountInv

(* No token is counted twice on its way up, in whatever order the runs of  *)
(* a family end: what a run was charged for its delegates is at most what  *)
(* the runs below it have spent (accumulateDelegatedTokens).               *)
THEOREM CountedOnceHolds == DelegationSpec => []CountedOnce
<1>1. DelegationInit => CountInv
  BY CountFirst
<1>2. CountInv => CountedOnce
  <2> SUFFICES ASSUME CountInv, NEW r \in Runs PROVE runRow[r].delegated <= OwnSum(Below(r))
    BY DEF CountedOnce
  <2>1. RowsTyped /\ LineInv /\ AccountsInv
    BY DEF CountInv, FamilyInv, FamilyRows
  <2>2. PICK B \in SUBSET Subs : B = Below(r)
    BY DEF Below
  <2>3. PICK S \in SUBSET B : S = Arrived(r)
    <3> SUFFICES ASSUME NEW d \in Subs, NEW e \in Subs, up[e] = r, Paid(e), e = d \/ e \in line[d]
                 PROVE  r \in line[d]
      BY <2>2 DEF Arrived, Below
    <3>1. r \in line[e]
      BY <2>1 DEF LineInv, Paid
    <3>2. e \in line[d] => line[e] \subseteq line[d]
      BY <2>1, FamilyFacts DEF LineInv, Above
    <3> QED BY <3>1, <3>2
  <2>4. Counted(runRow, Subs) /\ S \in SUBSET Subs
    BY <2>1, SubsCounted
  <2>5. Sums(runRow, Subs)[S] <= Sums(runRow, Subs)[B]
    BY <2>4, OwnWithin
  <2>6. runRow[r].delegated <= Sums(runRow, Subs)[S]
    BY <2>1, <2>3 DEF AccountsInv
  <2>7. OwnSum(B) = Sums(runRow, Subs)[B]
    BY <2>1, OwnSums
  <2>8. runRow[r].delegated \in Nat /\ Sums(runRow, Subs)[S] \in Nat /\ Sums(runRow, Subs)[B] \in Nat
    BY <2>1, <2>4, OwnIsNat DEF RowsTyped
  <2>9. runRow[r].delegated <= OwnSum(B)
    BY ONLY <2>5, <2>6, <2>7, <2>8
  <2> QED BY <2>2, <2>9
<1> QED BY <1>1, <1>2, CountStep, PTL DEF DelegationSpec

-----------------------------------------------------------------------------
(* Which run the web client knows, and which it has continued (module      *)
(* WebClient)                                                              *)

WebMessages == [kind : {"run", "cancel"}, of : Nat]
WebOuts == [message : WebMessages, number : Nat]
WebServerRuns ==
    [number : Nat, state : {"running"} \cup Terminal, told : {"nothing", "some", "end"},
     joined : BOOLEAN]

WebLinks == [state : {"none", "connecting", "open", "closing"}, number : Nat,
             buffer : Seq(WebMessages), retry : BOOLEAN]
WebViews == [status : {"idle", "running", "recovering"}, run : Nat, version : Nat]
WebRescues == [run : Nat, polls : Nat, timer : BOOLEAN, aborted : BOOLEAN, continued : Nat]
WebPendings == [ask : Nat, waiting : BOOLEAN, resend : BOOLEAN, reconnects : Nat]
WebServers == [read : Nat, runs : Seq(WebServerRuns), queue : Nat,
               receipts : SUBSET [number : Nat, run : Nat]]

WebTyped ==
    /\ asks \in Seq(Nat) /\ lookup \in Nat /\ sent \in Seq(WebOuts)
    /\ link \in WebLinks /\ view \in WebViews /\ rescue \in WebRescues /\ server \in WebServers
    /\ pending \in WebPendings

(* A run that no connection tells the events of any more.                  *)
PastOn(number, l) == number < l.number \/ (number = l.number /\ l.state = "none")
Past(r) == PastOn(server.runs[r].number, link)
WebRunsThen == 1..Len(server'.runs)
PastThen(r) == PastOn(server'.runs[r].number, link')

NumbersPast ==
    /\ \A r \in WebRuns : server.runs[r].number <= link.number
    /\ \A k \in 1..Len(sent) : sent[k].number <= link.number

ReceiptsTell ==
    \A receipt \in server.receipts : receipt.run \in WebRuns /\ server.runs[receipt.run].joined

QueueBehind == server.queue > 0 => Len(server.runs) > 0

RunsKnown == \A r \in {view.run, rescue.run, lookup} : r # 0 => r \in WebRuns

RecoversLost == \A r \in {rescue.run, lookup} : r # 0 => Past(r)

(* A run that was continued is not what is shown, recovered or looked up,  *)
(* unless a receipt may have brought it back.                              *)
LeftAlone(r) == server.runs[r].joined \/ r \notin {view.run, rescue.run, lookup}
LeftAloneThen(r) == server'.runs[r].joined \/ r \notin {view'.run, rescue'.run, lookup'}
ContinuedBehind ==
    \A i \in 1..Len(asks) : asks[i] # 0 =>
      asks[i] \in WebRuns /\ Past(asks[i]) /\ LeftAlone(asks[i])

WebInv ==
    /\ WebTyped /\ NumbersPast /\ ReceiptsTell /\ QueueBehind
    /\ RunsKnown /\ RecoversLost /\ ContinuedBehind /\ ContinuedOnce

-----------------------------------------------------------------------------
(* What a step does with what the invariant speaks of: connections only    *)
(* grow older, runs keep their number and their error, and a run comes     *)
(* back only by an event, by a receipt or from the view that was cut off.  *)
LinkAges ==
    /\ link'.number >= link.number
    /\ link'.number = link.number /\ link.state = "none" => link'.state = "none"

Keeps(old, new) ==
    /\ new.number = old.number
    /\ old.state = "error" => new.state = "error"
    /\ old.joined => new.joined

RunsStay ==
    /\ Len(server.runs) <= Len(server'.runs)
    /\ \A r \in WebRuns : Keeps(server.runs[r], server'.runs[r])
    /\ \A r \in 1..Len(server'.runs) : server'.runs[r].number <= link'.number
    /\ \A k \in 1..Len(sent') : sent'[k].number <= link'.number
    /\ ReceiptsTell' /\ QueueBehind'

Known(r, r2) == r2 = r \/ r2 = 0

ViewMoves ==
    \/ Known(view.run, view'.run)
    \/ view'.run \in WebRuns /\ (~Past(view'.run) \/ server.runs[view'.run].joined)

RescueMoves ==
    \/ Known(rescue.run, rescue'.run)
    \/ rescue'.run = view.run /\ link'.state = "none"

LookupMoves == Known(lookup, lookup') \/ lookup' = rescue.run

AsksMove ==
    \/ asks' = asks
    \/ asks' = Append(asks, 0)
    \/ /\ asks' = Append(asks, lookup) /\ server.runs[lookup].state = "error" /\ lookup # 0
       /\ lookup' = 0 /\ rescue'.run = 0 /\ view'.run = 0

WebMoves == WebTyped' /\ LinkAges /\ RunsStay /\ ViewMoves /\ RescueMoves /\ LookupMoves /\ AsksMove

LEMMA WebMoveKeeps == WebInv /\ WebMoves => WebInv'
<1> SUFFICES ASSUME WebInv, WebMoves PROVE WebInv'
  OBVIOUS
<1>1. WebTyped /\ WebTyped'
  BY DEF WebInv, WebMoves
<1>2. /\ link.number \in Nat /\ link'.number \in Nat
      /\ Len(server.runs) \in Nat /\ Len(server'.runs) \in Nat
      /\ \A r \in 1..Len(server.runs) : server.runs[r] \in WebServerRuns
      /\ \A r \in 1..Len(server'.runs) : server'.runs[r] \in WebServerRuns
      /\ view'.run \in Nat /\ rescue'.run \in Nat /\ lookup' \in Nat
  <2>1. /\ link.number \in Nat /\ server.runs \in Seq(WebServerRuns)
    BY <1>1 DEF WebTyped, WebLinks, WebServers
  <2>2. /\ link'.number \in Nat /\ server'.runs \in Seq(WebServerRuns)
        /\ view'.run \in Nat /\ rescue'.run \in Nat /\ lookup' \in Nat
    BY <1>1 DEF WebTyped, WebLinks, WebServers, WebViews, WebRescues
  <2> QED BY <2>1, <2>2
<1>3. /\ \A r \in 1..Len(server.runs) : server.runs[r].number \in Nat
      /\ \A r \in 1..Len(server'.runs) : server'.runs[r].number \in Nat
  BY <1>2 DEF WebServerRuns
<1>4. \A r \in WebRuns : r \in WebRunsThen /\ (Past(r) => PastThen(r))
  <2> SUFFICES ASSUME NEW r \in WebRuns PROVE r \in WebRunsThen /\ (Past(r) => PastThen(r))
    OBVIOUS
  <2>1. server'.runs[r].number = server.runs[r].number /\ LinkAges
        /\ Len(server.runs) <= Len(server'.runs)
    BY DEF WebMoves, RunsStay, Keeps
  <2> QED BY <2>1, <1>2, <1>3 DEF Past, PastThen, PastOn, LinkAges, WebRuns, WebRunsThen
<1>5. NumbersPast' /\ ReceiptsTell' /\ QueueBehind'
  BY DEF WebMoves, RunsStay, NumbersPast, WebRuns
<1>6. /\ \A r \in {view.run, rescue.run, lookup} : r # 0 => r \in WebRuns
      /\ \A r \in {rescue.run, lookup} : r # 0 => Past(r)
      /\ ViewMoves /\ RescueMoves /\ LookupMoves
  BY DEF WebInv, WebMoves, RunsKnown, RecoversLost
<1>7. RunsKnown'
  BY <1>6, <1>4 DEF RunsKnown, WebRuns, WebRunsThen, ViewMoves, RescueMoves, LookupMoves, Known
<1>8. RecoversLost'
  <2>1. ASSUME rescue'.run # 0 PROVE PastThen(rescue'.run)
    <3>1. CASE Known(rescue.run, rescue'.run)
      BY <3>1, <2>1, <1>6, <1>4 DEF Known
    <3>2. CASE rescue'.run = view.run /\ link'.state = "none"
      <4>1. rescue'.run \in WebRuns
        BY <3>2, <2>1, <1>6
      <4>2. server'.runs[rescue'.run].number <= link'.number
        BY <4>1, <1>4 DEF WebMoves, RunsStay, Keeps, WebRuns
      <4> QED BY <4>1, <4>2, <3>2, <1>2, <1>3, <1>4 DEF PastThen, PastOn, WebRuns, WebRunsThen
    <3> QED BY <3>1, <3>2, <1>6 DEF RescueMoves
  <2>2. ASSUME lookup' # 0 PROVE PastThen(lookup')
    BY <2>2, <1>6, <1>4 DEF LookupMoves, Known
  <2> QED BY <2>1, <2>2 DEF RecoversLost, Past, PastThen
(* What has been continued stays that way.                                 *)
<1>9. ASSUME NEW r \in WebRuns, r # 0, Past(r), LeftAlone(r), server.runs[r].state = "error"
      PROVE  r \in WebRunsThen /\ PastThen(r) /\ LeftAloneThen(r) /\ server'.runs[r].state = "error"
  <2>1. /\ server.runs[r].state = "error" => server'.runs[r].state = "error"
        /\ server.runs[r].joined => server'.runs[r].joined
    BY DEF WebMoves, RunsStay, Keeps
  <2>2. ASSUME ~server'.runs[r].joined PROVE r \notin {view'.run, rescue'.run, lookup'}
    <3>1. r \notin {view.run, rescue.run, lookup} /\ ~server.runs[r].joined
      BY <2>1, <2>2, <1>9 DEF LeftAlone
    <3>2. r # view'.run
      BY <3>1, <1>6, <1>9 DEF ViewMoves, Known
    <3>3. r # rescue'.run /\ r # lookup'
      BY <3>1, <1>6, <1>9 DEF RescueMoves, LookupMoves, Known
    <3> QED BY <3>2, <3>3
  <2> QED BY <2>1, <2>2, <1>9, <1>4 DEF LeftAloneThen
<1>10. /\ asks \in Seq(Nat) /\ Len(asks) \in Nat
       /\ \A i \in 1..Len(asks) : asks[i] # 0 =>
            /\ asks[i] \in WebRuns /\ Past(asks[i]) /\ LeftAlone(asks[i])
            /\ server.runs[asks[i]].state = "error"
            /\ ~server.runs[asks[i]].joined => \A j \in 1..(i - 1) : asks[j] # asks[i]
  <2>1. asks \in Seq(Nat) /\ Len(asks) \in Nat
    BY <1>1 DEF WebTyped
  <2>2. ContinuedBehind /\ ContinuedOnce
    BY DEF WebInv
  <2> QED BY <2>1, <2>2 DEF ContinuedBehind, ContinuedOnce
<1>11. \A i \in 1..Len(asks) : asks[i] # 0 =>
         /\ asks[i] \in WebRunsThen /\ PastThen(asks[i]) /\ LeftAloneThen(asks[i])
         /\ server'.runs[asks[i]].state = "error"
  BY <1>9, <1>10
<1>12. \A i \in 1..Len(asks) : asks[i] # 0 /\ ~server'.runs[asks[i]].joined =>
         \A j \in 1..(i - 1) : asks[j] # asks[i]
  BY <1>10 DEF WebMoves, RunsStay, Keeps
<1>13. ContinuedBehind' /\ ContinuedOnce'
  <2>1. CASE asks' = asks
    <3>1. ContinuedBehind'
      BY <2>1, <1>11 DEF ContinuedBehind, Past, PastThen, LeftAlone, LeftAloneThen, WebRuns, WebRunsThen
    <3>2. ContinuedOnce'
      BY <2>1, <1>11, <1>12 DEF ContinuedOnce
    <3> QED BY <3>1, <3>2
  <2>2. CASE asks' = Append(asks, 0)
    <3>1. /\ Len(asks') = Len(asks) + 1 /\ asks'[Len(asks) + 1] = 0
          /\ \A i \in 1..Len(asks) : asks'[i] = asks[i]
          /\ \A i \in 1..Len(asks') : i \in 1..Len(asks) \/ i = Len(asks) + 1
      BY <2>2, <1>10
    <3>2. ContinuedBehind'
      BY <3>1, <1>11 DEF ContinuedBehind, Past, PastThen, LeftAlone, LeftAloneThen, WebRuns, WebRunsThen
    <3>3. \A i \in 1..Len(asks) : \A j \in 1..(i - 1) : asks'[j] = asks[j]
      BY <3>1, <1>10
    <3>4. ContinuedOnce'
      BY <3>1, <3>3, <1>11, <1>12 DEF ContinuedOnce
    <3> QED BY <3>2, <3>4
  <2>3. CASE /\ asks' = Append(asks, lookup) /\ server.runs[lookup].state = "error" /\ lookup # 0
             /\ lookup' = 0 /\ rescue'.run = 0 /\ view'.run = 0
    <3>1. /\ Len(asks') = Len(asks) + 1 /\ asks'[Len(asks) + 1] = lookup
          /\ \A i \in 1..Len(asks) : asks'[i] = asks[i]
          /\ \A i \in 1..Len(asks') : i \in 1..Len(asks) \/ i = Len(asks) + 1
      <4>1. asks \in Seq(Nat) /\ lookup \in Nat
        BY <1>1 DEF WebTyped
      <4> QED BY <4>1, <2>3
    <3>2. /\ lookup \in WebRuns /\ lookup \in WebRunsThen /\ PastThen(lookup)
          /\ lookup \notin {view'.run, rescue'.run, lookup'}
          /\ server'.runs[lookup].state = "error"
      BY <2>3, <1>6, <1>4 DEF WebMoves, RunsStay, Keeps
    <3>3. ASSUME ~server'.runs[lookup].joined, NEW j \in 1..Len(asks) PROVE asks[j] # lookup
      <4>1. ~server.runs[lookup].joined
        BY <3>2, <3>3 DEF WebMoves, RunsStay, Keeps
      <4>2. ~LeftAlone(lookup)
        BY <4>1 DEF LeftAlone
      <4> QED BY <4>2, <2>3, <1>10
    <3>4. LeftAloneThen(lookup)
      BY <3>2 DEF LeftAloneThen
    <3>5. ContinuedBehind'
      BY <3>1, <3>2, <3>4, <1>11 DEF ContinuedBehind, Past, PastThen, LeftAlone, LeftAloneThen, WebRuns, WebRunsThen
    <3>6. /\ \A i \in 1..Len(asks) : \A j \in 1..(i - 1) : asks'[j] = asks[j]
          /\ \A j \in 1..(Len(asks) + 1 - 1) : j \in 1..Len(asks)
      BY <3>1, <1>10
    <3>7. ContinuedOnce'
      BY <3>1, <3>2, <3>3, <3>6, <1>11, <1>12 DEF ContinuedOnce
    <3> QED BY <3>5, <3>7
  <2> QED BY <2>1, <2>2, <2>3 DEF WebMoves, AsksMove
<1> QED BY <1>1, <1>5, <1>7, <1>8, <1>13 DEF WebInv

(* The fields of what the invariant types. *)
LEMMA WebFields ==
    ASSUME WebInv
    PROVE  /\ asks \in Seq(Nat) /\ lookup \in Nat
           /\ sent \in Seq(WebOuts) /\ server.runs \in Seq(WebServerRuns)
           /\ link \in WebLinks /\ view \in WebViews /\ rescue \in WebRescues
           /\ server \in WebServers /\ pending \in WebPendings
           /\ link.number \in Nat /\ link.buffer \in Seq(WebMessages)
           /\ \A r \in WebRuns : /\ server.runs[r] \in WebServerRuns
                                 /\ server.runs[r].number \in 0..link.number
           /\ \A k \in 1..Len(sent) : /\ sent[k] \in WebOuts
                                      /\ sent[k].number \in 0..link.number
<1>1. /\ asks \in Seq(Nat) /\ lookup \in Nat /\ sent \in Seq(WebOuts) /\ link \in WebLinks
      /\ view \in WebViews /\ rescue \in WebRescues /\ server \in WebServers
      /\ pending \in WebPendings
  BY DEF WebInv, WebTyped
<1>2. server.runs \in Seq(WebServerRuns) /\ link.number \in Nat /\ link.buffer \in Seq(WebMessages)
  BY <1>1 DEF WebServers, WebLinks
<1>3. /\ \A r \in WebRuns : server.runs[r] \in WebServerRuns
      /\ \A k \in 1..Len(sent) : sent[k] \in WebOuts
  BY <1>1, <1>2 DEF WebRuns
<1>4. /\ \A r \in WebRuns : server.runs[r].number \in Nat
      /\ \A k \in 1..Len(sent) : sent[k].number \in Nat
  BY <1>3 DEF WebServerRuns, WebOuts
<1>5. NumbersPast
  BY DEF WebInv
<1> QED BY <1>1, <1>2, <1>3, <1>4, <1>5 DEF NumbersPast

(* The requests and the connection. *)
LEMMA ConnectedAges ==
    ASSUME NEW l \in WebLinks
    PROVE  /\ Connected(l) \in WebLinks /\ Connected(l).number >= l.number
           /\ Connected(l).number = l.number /\ l.state = "none" => Connected(l).state = "none"
           /\ l.state = "open" => Connected(l) = l
<1>1. CASE l.state \in {"open", "connecting"}
  <2>1. Connected(l) = l
    BY <1>1 DEF Connected
  <2>2. l.number \in Nat /\ l.state # "none"
    BY <1>1 DEF WebLinks
  <2> QED BY <2>1, <2>2
<1>2. CASE l.state \notin {"open", "connecting"}
  <2>1. Connected(l) = [l EXCEPT !.state = "connecting", !.number = l.number + 1]
    BY <1>2 DEF Connected
  <2>2. /\ Connected(l) \in WebLinks /\ Connected(l).number = l.number + 1 /\ l.number \in Nat
    <3>1. PICK m : m = [l EXCEPT !.state = "connecting"]
      OBVIOUS
    <3>2. m \in WebLinks /\ m.number = l.number /\ l.number \in Nat
      BY <3>1 DEF WebLinks
    <3>3. Connected(l) = [m EXCEPT !.number = l.number + 1]
      BY <2>1, <3>1
    <3> QED BY <3>2, <3>3 DEF WebLinks
  <2> QED BY <2>2, <1>2
<1> QED BY <1>1, <1>2

(* The step leaves the server and what it was sent on older connections.   *)
ClientOnly ==
    /\ link' \in WebLinks /\ LinkAges
    /\ sent' \in Seq(WebOuts) /\ \A k \in 1..Len(sent') : sent'[k].number <= link'.number

LEMMA ServerStays ==
    ASSUME WebInv, ClientOnly, server' = server
    PROVE  RunsStay
<1>1. link.number \in Nat /\ link'.number \in Nat /\ Len(server.runs) \in Nat
  BY WebFields DEF WebLinks, ClientOnly
<1>2. \A r \in WebRuns : server.runs[r].number \in 0..link.number
  BY WebFields
<1>3. \A r \in WebRuns : server.runs[r].number <= link'.number
  BY <1>1, <1>2 DEF ClientOnly, LinkAges
<1>4. ReceiptsTell' /\ QueueBehind'
  BY DEF WebInv, ReceiptsTell, QueueBehind, WebRuns
<1> QED BY <1>1, <1>3, <1>4 DEF RunsStay, Keeps, WebRuns, ClientOnly

LEMMA SendEffect ==
    ASSUME WebInv, NEW message \in WebMessages, NEW l \in WebLinks, Send(l, message),
           l = link \/ l = Connected(link)
    PROVE  ClientOnly /\ link'.state = l.state
<1>0. /\ link \in WebLinks /\ sent \in Seq(WebOuts)
      /\ \A k \in 1..Len(sent) : sent[k].number \in 0..link.number
  BY WebFields
<1>1. /\ l.number >= link.number
      /\ l.number = link.number /\ link.state = "none" => l.state = "none"
      /\ l.number \in Nat /\ link.number \in Nat /\ l.buffer \in Seq(WebMessages)
  BY <1>0, ConnectedAges DEF WebLinks
<1>2. CASE l.state = "open"
  <2>1. link' = l /\ sent' = Append(sent, Out(message))
    BY <1>2 DEF Send
  <2>2. Out(message) \in WebOuts /\ Out(message).number = link.number
    BY <1>1 DEF Out, WebOuts
  <2>3. /\ sent' \in Seq(WebOuts) /\ Len(sent') = Len(sent) + 1
        /\ \A k \in 1..Len(sent) : sent'[k] = sent[k]
        /\ sent'[Len(sent) + 1] = Out(message)
        /\ \A k \in 1..Len(sent') : k \in 1..Len(sent) \/ k = Len(sent) + 1
    BY <2>1, <2>2, <1>0
  <2>5. \A k \in 1..Len(sent') : sent'[k].number <= link'.number
    BY <2>1, <2>2, <2>3, <1>0, <1>1
  <2> QED BY <2>1, <2>3, <2>5, <1>1 DEF ClientOnly, LinkAges
<1>3. CASE l.state # "open"
  <2>1. link' = [l EXCEPT !.buffer = Append(@, message)] /\ sent' = sent
    BY <1>3 DEF Send
  <2>2. link' \in WebLinks /\ link'.number = l.number /\ link'.state = l.state
    <3>1. Append(l.buffer, message) \in Seq(WebMessages)
      BY <1>1
    <3> QED BY <3>1, <2>1 DEF WebLinks
  <2> QED BY <2>1, <2>2, <1>0, <1>1 DEF ClientOnly, LinkAges
<1> QED BY <1>2, <1>3

LEMMA SendRunEffect ==
    ASSUME WebInv, NEW continues \in Nat, SendRun(continues)
    PROVE  /\ ClientOnly /\ asks' = Append(asks, continues) /\ asks' \in Seq(Nat)
           /\ view' \in WebViews /\ view'.run = 0 /\ pending' \in WebPendings
<1>1. asks \in Seq(Nat) /\ link \in WebLinks /\ view \in WebViews
  BY WebFields
<1>5. pending' \in WebPendings
  BY <1>1 DEF SendRun, NewPending, WebPendings
<1>2. asks' = Append(asks, continues) /\ Send(Connected(link), RunMessage(Len(asks')))
      /\ view' = [status |-> IF link.state \in {"none", "closing"} THEN "recovering" ELSE "running",
                  run |-> 0, version |-> view.version + 1]
  BY DEF SendRun
<1>3. asks' \in Seq(Nat) /\ RunMessage(Len(asks')) \in WebMessages
  BY <1>1, <1>2 DEF RunMessage, WebMessages
<1>4. ClientOnly
  BY <1>1, <1>2, <1>3, ConnectedAges, SendEffect
<1> QED BY <1>1, <1>2, <1>3, <1>4, <1>5 DEF WebViews

(* The steps of the connection. *)
LEMMA WebQuiet ==
    ASSUME WebInv, ClientOnly, server' = server, asks' = asks, view' = view, rescue' = rescue,
           LookupMoves, lookup' \in Nat, pending' \in WebPendings
    PROVE  WebMoves
<1>1. RunsStay
  BY ServerStays
<1>2. WebTyped'
  BY WebFields DEF WebTyped, ClientOnly
<1> QED BY <1>1, <1>2 DEF WebMoves, ClientOnly, ViewMoves, RescueMoves, AsksMove, Known

LEMMA LinkOnly ==
    ASSUME WebInv, link' \in WebLinks, LinkAges, sent' = sent
    PROVE  ClientOnly
  BY WebFields DEF ClientOnly, LinkAges, WebLinks

LEMMA ConnectingMoves == WebInv /\ (Show \/ Reconnect \/ HeartbeatLate \/ IdleDisconnect) => WebMoves
<1> SUFFICES ASSUME WebInv, Show \/ Reconnect \/ HeartbeatLate \/ IdleDisconnect PROVE WebMoves
  OBVIOUS
<1>1. link \in WebLinks /\ link.number \in Nat /\ lookup \in Nat /\ pending \in WebPendings
  BY WebFields
<1>2. UNCHANGED <<asks, view, pending, rescue, lookup, sent, server>>
  BY DEF Show, Reconnect, HeartbeatLate, IdleDisconnect
<1>3. link' \in WebLinks /\ LinkAges
  <2>1. CASE Show
    BY <2>1, <1>1, ConnectedAges DEF Show, LinkAges
  <2>2. CASE Reconnect
    <3>1. PICK l : l = [link EXCEPT !.retry = FALSE]
      OBVIOUS
    <3>2. l \in WebLinks /\ l.number = link.number /\ l.state = link.state
      BY <3>1, <1>1 DEF WebLinks
    <3> QED BY <3>1, <3>2, <2>2, ConnectedAges DEF Reconnect, LinkAges
  <2>3. CASE HeartbeatLate
    BY <2>3, <1>1 DEF HeartbeatLate, LinkAges, WebLinks
  <2>4. CASE IdleDisconnect
    <3>1. link.state # "none" /\ link' = [link EXCEPT !.state = "none", !.buffer = <<>>, !.retry = FALSE]
      BY <2>4 DEF IdleDisconnect
    <3>2. PICK l : l = [link EXCEPT !.state = "none", !.buffer = <<>>]
      OBVIOUS
    <3>3. <<>> \in Seq(WebMessages)
      OBVIOUS
    <3>4. PICK k : k = [link EXCEPT !.state = "none"]
      OBVIOUS
    <3>5. k \in WebLinks /\ k.number = link.number
      BY <3>4, <1>1 DEF WebLinks
    <3>6. l = [k EXCEPT !.buffer = <<>>]
      BY <3>2, <3>4
    <3>7. l \in WebLinks /\ l.number = link.number
      BY <3>3, <3>5, <3>6 DEF WebLinks
    <3>8. link' = [l EXCEPT !.retry = FALSE]
      BY <3>1, <3>2
    <3>9. link' \in WebLinks /\ link'.number = link.number
      BY ONLY <3>7, <3>8 DEF WebLinks
    <3> QED BY <3>1, <3>9, <1>1 DEF LinkAges
  <2> QED BY <2>1, <2>2, <2>3, <2>4
<1> QED BY <1>1, <1>2, <1>3, LinkOnly, WebQuiet DEF LookupMoves, Known

LEMMA OpenedMoves == WebInv /\ Opened => WebMoves
<1> SUFFICES ASSUME WebInv, Opened PROVE WebMoves
  OBVIOUS
<1>1. /\ link \in WebLinks /\ link.number \in Nat /\ lookup \in Nat /\ rescue.run \in Nat
      /\ sent \in Seq(WebOuts) /\ \A k \in 1..Len(sent) : sent[k].number \in 0..link.number
  BY WebFields DEF WebRescues
<1>2. /\ UNCHANGED <<asks, view, rescue, server>> /\ link.state = "connecting"
      /\ link' = [link EXCEPT !.state = "open", !.buffer = <<>>]
      /\ lookup' = lookup \/ lookup' = rescue.run
  BY DEF Opened
<1>3. link' \in WebLinks /\ link'.number = link.number
  <2>1. <<>> \in Seq(WebMessages)
    OBVIOUS
  <2>2. PICK k : k = [link EXCEPT !.state = "open"]
    OBVIOUS
  <2>3. k \in WebLinks /\ k.number = link.number
    BY <2>2, <1>1 DEF WebLinks
  <2>4. link' = [k EXCEPT !.buffer = <<>>]
    BY <1>2, <2>2
  <2> QED BY <2>1, <2>3, <2>4 DEF WebLinks
<1>4. sent' \in Seq(WebOuts) /\ \A k \in 1..Len(sent') : sent'[k].number <= link'.number
  <2>1. PICK again : again = (IF pending.resend /\ pending.waiting /\ pending.ask # 0
                              THEN <<RunMessage(pending.ask)>> ELSE <<>>)
    OBVIOUS
  <2>2. pending.ask \in Nat /\ link.buffer \in Seq(WebMessages)
    BY WebFields DEF WebPendings
  <2>3. again \in Seq(WebMessages)
    <3>1. PICK m : m = RunMessage(pending.ask)
      OBVIOUS
    <3>2. m \in WebMessages
      BY <3>1, <2>2 DEF RunMessage, WebMessages
    <3>3. <<m>> \in Seq(WebMessages) /\ <<>> \in Seq(WebMessages)
      BY <3>2
    <3> QED BY <3>1, <3>3, <2>1
  <2>4. PICK messages : messages = link.buffer \o again
    OBVIOUS
  <2>5. messages \in Seq(WebMessages)
    BY <2>2, <2>3, <2>4
  <2>6. PICK outs : outs = [i \in 1..Len(messages) |-> Out(messages[i])]
    OBVIOUS
  <2>7. sent' = sent \o outs
    BY <2>1, <2>4, <2>6 DEF Opened
  <2>8. /\ \A i \in 1..Len(messages) : Out(messages[i]) \in WebOuts
        /\ \A i \in 1..Len(messages) : Out(messages[i]).number = link.number
    BY <2>5, <1>1 DEF Out, WebOuts
  <2>9. outs \in Seq(WebOuts) /\ \A i \in 1..Len(outs) : outs[i].number = link.number
    BY <2>5, <2>6, <2>8
  <2>10. sent' \in Seq(WebOuts)
    BY <2>7, <2>9, <1>1
  <2>11. \A k \in 1..Len(sent') : sent'[k].number <= link.number
    <3> SUFFICES ASSUME NEW k \in 1..Len(sent') PROVE sent'[k].number <= link.number
      OBVIOUS
    <3>1. /\ k <= Len(sent) => sent'[k] = sent[k]
          /\ k > Len(sent) => sent'[k] = outs[k - Len(sent)] /\ k - Len(sent) \in 1..Len(outs)
      BY <2>7, <2>9, <1>1
    <3> QED BY <3>1, <2>9, <1>1
  <2> QED BY <2>10, <2>11, <1>3
<1>5. pending' \in WebPendings
  <2>1. pending \in WebPendings /\ pending'.resend \in BOOLEAN /\ pending' = [pending EXCEPT !.resend = pending'.resend]
    BY WebFields DEF Opened, WebPendings
  <2> QED BY <2>1 DEF WebPendings
<1> QED BY <1>1, <1>2, <1>3, <1>4, <1>5, WebQuiet DEF ClientOnly, LinkAges, LookupMoves, Known

LEMMA ClearedRescue ==
    ASSUME NEW r \in WebRescues
    PROVE  Cleared(r) \in WebRescues /\ Cleared(r).run = 0 /\ Cleared(r).continued = r.continued
<1>1. PICK a : a = [r EXCEPT !.run = 0]
  OBVIOUS
<1>2. PICK b : b = [a EXCEPT !.polls = 0]
  OBVIOUS
<1>3. Cleared(r) = [b EXCEPT !.timer = FALSE]
  BY <1>1, <1>2 DEF Cleared
<1>4. a \in WebRescues /\ a.run = 0 /\ a.continued = r.continued
  BY <1>1 DEF WebRescues
<1>5. b \in WebRescues /\ b.run = 0 /\ b.continued = r.continued
  BY ONLY <1>2, <1>4 DEF WebRescues
<1> QED BY ONLY <1>3, <1>5 DEF WebRescues

LEMMA PendingNothing == NothingPending \in WebPendings
  BY DEF NothingPending, WebPendings

LEMMA DisconnectedMoves == WebInv /\ Disconnected => WebMoves
<1> SUFFICES ASSUME WebInv, Disconnected PROVE WebMoves
  OBVIOUS
<1>1. /\ link \in WebLinks /\ link.number \in Nat /\ lookup \in Nat /\ rescue \in WebRescues
      /\ view \in WebViews /\ pending \in WebPendings /\ asks \in Seq(Nat)
  BY WebFields
<1>2. UNCHANGED <<asks, lookup, sent, server>>
  BY DEF Disconnected
<1>3. PICK lost, unheard, waits, givesUp \in BOOLEAN :
         /\ rescue' = IF lost THEN [Cleared(rescue) EXCEPT !.run = view.run, !.aborted = FALSE]
                      ELSE rescue
         /\ pending' = IF givesUp THEN NothingPending
                       ELSE [pending EXCEPT !.waiting = pending.waiting \/ unheard,
                                            !.resend = pending.resend \/ unheard,
                                            !.reconnects = IF waits THEN pending.reconnects + 1
                                                           ELSE pending.reconnects]
         /\ view' = [view EXCEPT !.status = IF givesUp THEN "idle"
                                            ELSE IF lost \/ unheard THEN "recovering"
                                            ELSE view.status]
         /\ link' = [link EXCEPT !.state = "none", !.retry = TRUE,
                                 !.buffer = IF givesUp THEN <<>> ELSE link.buffer]
  BY Zenon DEF Disconnected
<1>4. link' \in WebLinks /\ link'.number = link.number /\ link'.state = "none"
  <2>1. PICK a : a = [link EXCEPT !.state = "none"]
    OBVIOUS
  <2>2. PICK b : b = [a EXCEPT !.retry = TRUE]
    OBVIOUS
  <2>3. PICK buffer : buffer = (IF givesUp THEN <<>> ELSE link.buffer)
    OBVIOUS
  <2>4. link' = [b EXCEPT !.buffer = buffer]
    BY <1>3, <2>1, <2>2, <2>3
  <2>5. buffer \in Seq(WebMessages)
    BY <2>3, WebFields
  <2>6. a \in WebLinks /\ a.number = link.number /\ a.state = "none"
    BY <2>1, <1>1 DEF WebLinks
  <2>7. b \in WebLinks /\ b.number = link.number /\ b.state = "none"
    BY ONLY <2>2, <2>6 DEF WebLinks
  <2> QED BY ONLY <2>4, <2>5, <2>7 DEF WebLinks
<1>5. pending' \in WebPendings
  <2>1. CASE givesUp
    BY <2>1, <1>3, PendingNothing
  <2>2. CASE ~givesUp
    <3>1. PICK a : a = [pending EXCEPT !.waiting = pending.waiting \/ unheard]
      OBVIOUS
    <3>2. PICK b : b = [a EXCEPT !.resend = pending.resend \/ unheard]
      OBVIOUS
    <3>3. PICK n : n = (IF waits THEN pending.reconnects + 1 ELSE pending.reconnects)
      OBVIOUS
    <3>4. pending' = [b EXCEPT !.reconnects = n]
      BY <1>3, <2>2, <3>1, <3>2, <3>3
    <3>5. n \in Nat
      BY <3>3, <1>1 DEF WebPendings
    <3>6. (pending.waiting \/ unheard) \in BOOLEAN /\ (pending.resend \/ unheard) \in BOOLEAN
      OBVIOUS
    <3>7. a \in WebPendings
      BY ONLY <3>1, <3>6, <1>1 DEF WebPendings
    <3>8. b \in WebPendings
      BY ONLY <3>2, <3>6, <3>7 DEF WebPendings
    <3> QED BY ONLY <3>4, <3>5, <3>8 DEF WebPendings
  <2> QED BY <2>1, <2>2
<1>6. view' \in WebViews /\ view'.run = view.run
  BY <1>1, <1>3 DEF WebViews
<1>7. rescue' \in WebRescues /\ (rescue'.run = rescue.run \/ rescue'.run = view.run)
  <2>1. CASE lost
    <3>1. PICK a : a = [Cleared(rescue) EXCEPT !.run = view.run]
      OBVIOUS
    <3>2. rescue' = [a EXCEPT !.aborted = FALSE]
      BY <1>3, <2>1, <3>1
    <3>3. Cleared(rescue) \in WebRescues /\ view.run \in Nat
      BY <1>1, ClearedRescue DEF WebViews
    <3>4. a \in WebRescues /\ a.run = view.run
      BY ONLY <3>1, <3>3 DEF WebRescues
    <3>5. rescue' \in WebRescues /\ rescue'.run = view.run
      BY ONLY <3>2, <3>4 DEF WebRescues
    <3> QED BY <3>5
  <2>2. CASE ~lost
    BY <2>2, <1>1, <1>3
  <2> QED BY <2>1, <2>2
<1>8. ClientOnly
  BY <1>1, <1>2, <1>4, LinkOnly DEF LinkAges
<1>9. WebTyped'
  BY <1>1, <1>2, <1>4, <1>5, <1>6, <1>7, WebFields DEF WebTyped
<1> QED BY <1>2, <1>4, <1>6, <1>7, <1>8, <1>9, ServerStays
        DEF WebMoves, ClientOnly, ViewMoves, RescueMoves, LookupMoves, AsksMove, Known

(* What the user does. *)
LEMMA SubmitMoves == WebInv /\ Submit => WebMoves
<1> SUFFICES ASSUME WebInv, Submit PROVE WebMoves
  OBVIOUS
<1>1. /\ link \in WebLinks /\ lookup \in Nat /\ rescue \in WebRescues
      /\ view \in WebViews /\ pending \in WebPendings /\ asks \in Seq(Nat)
  BY WebFields
<1>2. /\ rescue' = [rescue EXCEPT !.continued = 0] /\ UNCHANGED <<lookup, resyncs, server>>
      /\ \/ SendRun(0)
         \/ /\ asks' = Append(asks, 0) /\ Send(link, RunMessage(Len(asks')))
            /\ UNCHANGED <<view, pending>>
  BY DEF Submit
<1>3. rescue' \in WebRescues /\ rescue'.run = rescue.run
  BY <1>1, <1>2 DEF WebRescues
<1>4. /\ ClientOnly /\ asks' = Append(asks, 0) /\ asks' \in Seq(Nat)
      /\ view' \in WebViews /\ view'.run \in {0, view.run} /\ pending' \in WebPendings
  <2>1. CASE SendRun(0)
    BY <2>1, SendRunEffect
  <2>2. CASE /\ asks' = Append(asks, 0) /\ Send(link, RunMessage(Len(asks')))
             /\ UNCHANGED <<view, pending>>
    <3>1. asks' \in Seq(Nat) /\ RunMessage(Len(asks')) \in WebMessages
      BY <2>2, <1>1 DEF RunMessage, WebMessages
    <3>2. ClientOnly
      BY <3>1, <2>2, <1>1, SendEffect
    <3> QED BY <3>1, <3>2, <2>2, <1>1
  <2> QED BY <1>2, <2>1, <2>2
<1>5. WebTyped'
  BY <1>1, <1>2, <1>3, <1>4, WebFields DEF WebTyped, ClientOnly
<1> QED BY <1>2, <1>3, <1>4, <1>5, ServerStays
        DEF WebMoves, ClientOnly, ViewMoves, RescueMoves, LookupMoves, AsksMove, Known

LEMMA CancelRunMoves == WebInv /\ CancelRun => WebMoves
<1> SUFFICES ASSUME WebInv, CancelRun PROVE WebMoves
  OBVIOUS
<1>1. /\ link \in WebLinks /\ lookup \in Nat /\ rescue \in WebRescues
      /\ view \in WebViews /\ pending \in WebPendings /\ asks \in Seq(Nat)
  BY WebFields
<1>2. /\ Send(link, CancelMessage(view.run)) /\ rescue' = [rescue EXCEPT !.continued = 0]
      /\ UNCHANGED <<asks, view, pending, lookup, resyncs, server>>
  BY DEF CancelRun
<1>3. rescue' \in WebRescues /\ rescue'.run = rescue.run
  BY <1>1, <1>2 DEF WebRescues
<1>4. CancelMessage(view.run) \in WebMessages
  BY <1>1 DEF CancelMessage, WebMessages, WebViews
<1>5. ClientOnly
  BY <1>1, <1>2, <1>4, SendEffect
<1>6. WebTyped'
  BY <1>1, <1>2, <1>3, <1>5, WebFields DEF WebTyped, ClientOnly
<1> QED BY <1>2, <1>3, <1>5, <1>6, ServerStays
        DEF WebMoves, ClientOnly, ViewMoves, RescueMoves, LookupMoves, AsksMove, Known

(* The connection and what was sent stay, but for what waits to be sent.   *)
LEMMA StandingMoves ==
    ASSUME WebInv, link' \in WebLinks, link'.number = link.number, link'.state = link.state,
           sent' = sent, server' = server, asks' = asks, lookup' \in Nat, LookupMoves,
           view' \in WebViews, Known(view.run, view'.run), pending' \in WebPendings,
           rescue' \in WebRescues, Known(rescue.run, rescue'.run)
    PROVE  WebMoves
<1>1. ClientOnly
  <2>1. LinkAges
    BY WebFields DEF LinkAges
  <2> QED BY <2>1, LinkOnly
<1>2. WebTyped'
  BY WebFields DEF WebTyped
<1> QED BY <1>1, <1>2, ServerStays DEF WebMoves, ClientOnly, ViewMoves, RescueMoves, AsksMove

LEMMA StopRecoveryMoves == WebInv /\ StopRecovery => WebMoves
<1> SUFFICES ASSUME WebInv, StopRecovery PROVE WebMoves
  OBVIOUS
<1>1. /\ link \in WebLinks /\ lookup \in Nat /\ rescue \in WebRescues
      /\ view \in WebViews /\ pending \in WebPendings
  BY WebFields
<1>2. UNCHANGED <<asks, lookup, sent, server>>
  BY DEF StopRecovery
<1>3. link' \in WebLinks /\ link'.number = link.number /\ link'.state = link.state
  <2>1. <<>> \in Seq(WebMessages) /\ link' = [link EXCEPT !.buffer = <<>>]
    BY DEF StopRecovery
  <2> QED BY <2>1, <1>1 DEF WebLinks
<1>4. view' \in WebViews /\ view'.run = 0
  <2>1. PICK a : a = [view EXCEPT !.status = "idle"]
    OBVIOUS
  <2>2. view' = [a EXCEPT !.run = 0]
    BY <2>1 DEF StopRecovery
  <2>3. a \in WebViews
    BY <2>1, <1>1 DEF WebViews
  <2> QED BY ONLY <2>2, <2>3 DEF WebViews
<1>5. pending' \in WebPendings
  <2>1. PICK a : a = [pending EXCEPT !.waiting = FALSE]
    OBVIOUS
  <2>2. PICK b : b = [a EXCEPT !.reconnects = 0]
    OBVIOUS
  <2>3. pending' = [b EXCEPT !.ask = 0]
    BY <2>1, <2>2 DEF StopRecovery
  <2>4. a \in WebPendings
    BY <2>1, <1>1 DEF WebPendings
  <2>5. b \in WebPendings
    BY ONLY <2>2, <2>4 DEF WebPendings
  <2> QED BY ONLY <2>3, <2>5 DEF WebPendings
<1>6. rescue' \in WebRescues /\ rescue'.run = 0
  <2>1. PICK a : a = [Cleared(rescue) EXCEPT !.aborted = TRUE]
    OBVIOUS
  <2>2. rescue' = [a EXCEPT !.continued = 0]
    BY <2>1 DEF StopRecovery
  <2>3. Cleared(rescue) \in WebRescues /\ Cleared(rescue).run = 0
    BY <1>1, ClearedRescue
  <2>4. a \in WebRescues /\ a.run = 0
    BY ONLY <2>1, <2>3 DEF WebRescues
  <2> QED BY ONLY <2>2, <2>4 DEF WebRescues
<1> QED BY <1>1, <1>2, <1>3, <1>4, <1>5, <1>6, StandingMoves DEF Known, LookupMoves

(* The recovery. *)
LEMMA LookAgainMoves == WebInv /\ LookAgain => WebMoves
<1> SUFFICES ASSUME WebInv, LookAgain PROVE WebMoves
  OBVIOUS
<1>1. /\ link \in WebLinks /\ lookup \in Nat /\ rescue \in WebRescues /\ rescue.run \in Nat
      /\ view \in WebViews /\ pending \in WebPendings
  BY WebFields DEF WebRescues
<1>2. /\ UNCHANGED <<asks, link, view, pending, sent, server>>
      /\ rescue' = [rescue EXCEPT !.timer = FALSE]
      /\ lookup' = lookup \/ lookup' = rescue.run
  BY DEF LookAgain
<1>3. rescue' \in WebRescues /\ rescue'.run = rescue.run
  BY <1>1, <1>2 DEF WebRescues
<1> QED BY <1>1, <1>2, <1>3, StandingMoves DEF Known, LookupMoves

LEMMA LookupMovesOn == WebInv /\ LookupReturns => WebMoves
<1> SUFFICES ASSUME WebInv, LookupReturns PROVE WebMoves
  OBVIOUS
<1>1. /\ link \in WebLinks /\ lookup \in Nat /\ rescue \in WebRescues /\ rescue.run \in Nat
      /\ view \in WebViews /\ pending \in WebPendings
  BY WebFields DEF WebRescues
<1>2. Cleared(rescue) \in WebRescues /\ Cleared(rescue).run = 0
      /\ Cleared(rescue).continued = rescue.continued
  BY <1>1, ClearedRescue
<1>3. lookup # 0 /\ lookup' = 0 /\ server' = server
      /\ \/ UNCHANGED <<asks, link, view, pending, rescue, sent>>
         \/ TryLater \/ ShowOutcome
         \/ server.runs[lookup].state = "error" /\ Continue
  BY DEF LookupReturns
<1>4. CASE UNCHANGED <<asks, link, view, pending, rescue, sent>>
  BY <1>1, <1>3, <1>4, StandingMoves DEF Known, LookupMoves
<1>5. CASE TryLater
  <2>1. UNCHANGED <<asks, link, pending, sent>>
    BY <1>5 DEF TryLater
  <2>2. view' \in WebViews /\ view'.run = view.run
    BY <1>5, <1>1 DEF TryLater, WebViews
  <2>3. rescue' \in WebRescues /\ rescue'.run \in {0, rescue.run}
    <3>1. PICK a : a = [rescue EXCEPT !.polls = rescue.polls + 1]
      OBVIOUS
    <3>2. rescue' = [a EXCEPT !.timer = TRUE] \/ rescue' = Cleared(rescue)
      BY <1>5, <3>1 DEF TryLater
    <3>3. a \in WebRescues /\ a.run = rescue.run
      BY <3>1, <1>1 DEF WebRescues
    <3>4. CASE rescue' = [a EXCEPT !.timer = TRUE]
      <4>1. rescue' \in WebRescues /\ rescue'.run = rescue.run
        BY ONLY <3>3, <3>4 DEF WebRescues
      <4> QED BY <4>1
    <3> QED BY <3>2, <3>4, <1>2
  <2> QED BY <1>1, <1>3, <2>1, <2>2, <2>3, StandingMoves DEF Known, LookupMoves
<1>6. CASE ShowOutcome
  <2>1. UNCHANGED <<asks, link, pending, sent>>
    BY <1>6 DEF ShowOutcome
  <2>2. view' \in WebViews /\ view'.run = 0
    <3>1. PICK a : a = [view EXCEPT !.status = "idle"]
      OBVIOUS
    <3>2. view' = [a EXCEPT !.run = 0]
      BY <1>6, <3>1 DEF ShowOutcome
    <3>3. a \in WebViews
      BY <3>1, <1>1 DEF WebViews
    <3> QED BY ONLY <3>2, <3>3 DEF WebViews
  <2>3. rescue' \in WebRescues /\ rescue'.run = 0
    <3>1. rescue' = [Cleared(rescue) EXCEPT !.continued = 0]
      BY <1>6 DEF ShowOutcome
    <3> QED BY ONLY <3>1, <1>2 DEF WebRescues
  <2> QED BY <1>1, <1>3, <2>1, <2>2, <2>3, StandingMoves DEF Known, LookupMoves
<1>7. CASE server.runs[lookup].state = "error" /\ Continue
  <2>1. CASE rescue.continued < MaxContinuations
    <3>1. rescue' = [Cleared(rescue) EXCEPT !.continued = Cleared(rescue).continued + 1]
          /\ SendRun(lookup)
      BY <1>7, <2>1 DEF Continue
    <3>2. rescue' \in WebRescues /\ rescue'.run = 0
      BY ONLY <3>1, <1>2 DEF WebRescues
    <3>3. /\ ClientOnly /\ asks' = Append(asks, lookup) /\ asks' \in Seq(Nat)
          /\ view' \in WebViews /\ view'.run = 0 /\ pending' \in WebPendings
      BY <3>1, <1>1, SendRunEffect
    <3>4. WebTyped'
      BY <1>1, <1>3, <3>2, <3>3, WebFields DEF WebTyped, ClientOnly
    <3> QED BY <1>3, <1>7, <3>2, <3>3, <3>4, ServerStays
            DEF WebMoves, ClientOnly, ViewMoves, RescueMoves, LookupMoves, AsksMove, Known
  <2>2. CASE ~(rescue.continued < MaxContinuations)
    <3>1. /\ UNCHANGED <<asks, link, pending, sent>> /\ rescue' = Cleared(rescue)
          /\ view' = [view EXCEPT !.status = "idle"]
      BY <1>7, <2>2 DEF Continue
    <3>2. view' \in WebViews /\ view'.run = view.run
      BY <3>1, <1>1 DEF WebViews
    <3> QED BY <1>1, <1>2, <1>3, <3>1, <3>2, StandingMoves DEF Known, LookupMoves
  <2> QED BY <2>1, <2>2
<1> QED BY <1>3, <1>4, <1>5, <1>6, <1>7

LEMMA ReplayMoves == ASSUME NEW version, WebInv, Replay(version) PROVE WebMoves
<1>1. /\ link \in WebLinks /\ lookup \in Nat /\ rescue \in WebRescues
      /\ view \in WebViews /\ pending \in WebPendings
  BY WebFields
<1>2. UNCHANGED <<asks, link, pending, rescue, lookup, sent, server>>
  BY DEF Replay
<1>3. view' \in WebViews /\ view'.run \in {0, view.run}
  <2>1. PICK a : a = [view EXCEPT !.status = "idle"]
    OBVIOUS
  <2>2. view' = [a EXCEPT !.run = 0] \/ view' = view
    BY <2>1 DEF Replay
  <2>3. a \in WebViews
    BY <2>1, <1>1 DEF WebViews
  <2>4. CASE view' = [a EXCEPT !.run = 0]
    <3>1. view' \in WebViews /\ view'.run = 0
      BY ONLY <2>3, <2>4 DEF WebViews
    <3> QED BY <3>1
  <2> QED BY <2>2, <2>4, <1>1
<1> QED BY <1>1, <1>2, <1>3, StandingMoves DEF Known, LookupMoves

(* The server, and what is heard of it. *)
LEMMA RunRewritten ==
    ASSUME NEW runs \in Seq(WebServerRuns), NEW r, NEW e,
           r \in 1..Len(runs) => e \in WebServerRuns /\ Keeps(runs[r], e)
    PROVE  /\ [runs EXCEPT ![r] = e] \in Seq(WebServerRuns)
           /\ Len([runs EXCEPT ![r] = e]) = Len(runs)
           /\ r \in 1..Len(runs) => [runs EXCEPT ![r] = e][r] = e
           /\ \A q \in 1..Len(runs) : Keeps(runs[q], [runs EXCEPT ![r] = e][q])
<1>1. \A q \in 1..Len(runs) : Keeps(runs[q], runs[q])
  BY DEF Keeps
<1>2. /\ DOMAIN runs = 1..Len(runs) /\ runs = [q \in 1..Len(runs) |-> runs[q]]
  BY ElementOfSeq
<1>3. CASE r \in 1..Len(runs)
  <2>1. e \in WebServerRuns /\ Keeps(runs[r], e)
    BY <1>3
  <2>2. [runs EXCEPT ![r] = e] \in Seq(WebServerRuns) /\ Len([runs EXCEPT ![r] = e]) = Len(runs)
    BY <2>1, <1>3, ExceptSeq
  <2>3. /\ [runs EXCEPT ![r] = e][r] = e
        /\ \A q \in 1..Len(runs) : q # r => [runs EXCEPT ![r] = e][q] = runs[q]
    BY <1>2, <1>3
  <2> QED BY <2>1, <2>2, <2>3, <1>1
<1>4. CASE r \notin 1..Len(runs)
  <2>1. [runs EXCEPT ![r] = e] = runs
    BY <1>2, <1>4, Zenon
  <2> QED BY <2>1, <1>1, <1>4
<1> QED BY <1>3, <1>4

(* A step that leaves the connection and the requests. *)
LEMMA HeardMoves ==
    ASSUME WebInv, UNCHANGED <<asks, link, sent, lookup>>, server' \in WebServers,
           view' \in WebViews, ViewMoves, pending' \in WebPendings,
           rescue' \in WebRescues, Known(rescue.run, rescue'.run),
           Len(server.runs) <= Len(server'.runs),
           \A r \in WebRuns : Keeps(server.runs[r], server'.runs[r]),
           \A r \in 1..Len(server'.runs) : r \notin WebRuns => server'.runs[r].number <= link.number,
           ReceiptsTell', QueueBehind'
    PROVE  WebMoves
<1>1. LinkAges
  BY WebFields DEF LinkAges
<1>2. /\ \A r \in WebRuns : server.runs[r].number <= link.number
      /\ \A k \in 1..Len(sent) : sent[k].number <= link.number
  BY DEF WebInv, NumbersPast
<1>3. \A r \in 1..Len(server'.runs) : server'.runs[r].number <= link.number
  BY <1>2 DEF Keeps
<1>4. RunsStay
  BY <1>2, <1>3 DEF RunsStay
<1>5. WebTyped'
  BY WebFields DEF WebTyped
<1> QED BY <1>1, <1>4, <1>5 DEF WebMoves, RescueMoves, LookupMoves, AsksMove, Known

(* The runs are as they were or rewritten, and so are the receipts. *)
LEMMA RewrittenMoves ==
    ASSUME WebInv, UNCHANGED <<asks, link, sent, lookup>>, server' \in WebServers,
           view' \in WebViews, ViewMoves, pending' \in WebPendings,
           rescue' \in WebRescues, Known(rescue.run, rescue'.run),
           Len(server'.runs) = Len(server.runs),
           \A r \in WebRuns : Keeps(server.runs[r], server'.runs[r]),
           server'.receipts \subseteq server.receipts, server'.queue = server.queue
    PROVE  WebMoves
<1>1. Len(server.runs) \in Nat
  BY WebFields
<1>2. ReceiptsTell' /\ QueueBehind'
  BY DEF WebInv, ReceiptsTell, QueueBehind, WebRuns, Keeps
<1> QED BY <1>1, <1>2, HeardMoves DEF WebRuns

LEMMA ServerRecord ==
    ASSUME NEW s \in WebServers
    PROVE  /\ s.read \in Nat /\ s.runs \in Seq(WebServerRuns) /\ s.queue \in Nat
           /\ s.receipts \subseteq [number : Nat, run : Nat]
           /\ \A runs \in Seq(WebServerRuns) :
                /\ [s EXCEPT !.runs = runs] \in WebServers
                /\ [s EXCEPT !.runs = runs].runs = runs
                /\ [s EXCEPT !.runs = runs].receipts = s.receipts
                /\ [s EXCEPT !.runs = runs].queue = s.queue
           /\ \A n \in Nat :
                /\ [s EXCEPT !.read = n] \in WebServers
                /\ [s EXCEPT !.read = n].runs = s.runs
                /\ [s EXCEPT !.read = n].receipts = s.receipts
                /\ [s EXCEPT !.read = n].queue = s.queue
           /\ \A n \in Nat :
                /\ [s EXCEPT !.queue = n] \in WebServers
                /\ [s EXCEPT !.queue = n].runs = s.runs
                /\ [s EXCEPT !.queue = n].receipts = s.receipts
           /\ \A R \in SUBSET [number : Nat, run : Nat] :
                /\ [s EXCEPT !.receipts = R] \in WebServers
                /\ [s EXCEPT !.receipts = R].runs = s.runs
                /\ [s EXCEPT !.receipts = R].receipts = R
                /\ [s EXCEPT !.receipts = R].queue = s.queue
  BY DEF WebServers

(* A field of a run is set that neither numbers it nor takes an error back. *)
LEMMA RunSet ==
    ASSUME NEW s \in WebServers, NEW r, NEW e,
           r \in 1..Len(s.runs) => e \in WebServerRuns /\ Keeps(s.runs[r], e)
    PROVE  /\ [s EXCEPT !.runs[r] = e] \in WebServers
           /\ [s EXCEPT !.runs[r] = e].receipts = s.receipts
           /\ [s EXCEPT !.runs[r] = e].queue = s.queue
           /\ Len([s EXCEPT !.runs[r] = e].runs) = Len(s.runs)
           /\ r \in 1..Len(s.runs) => [s EXCEPT !.runs[r] = e].runs[r] = e
           /\ \A q \in 1..Len(s.runs) : Keeps(s.runs[q], [s EXCEPT !.runs[r] = e].runs[q])
<1>1. PICK runs : runs = [s.runs EXCEPT ![r] = e]
  OBVIOUS
<1>2. [s EXCEPT !.runs[r] = e] = [s EXCEPT !.runs = runs]
  BY <1>1
<1>3. s.runs \in Seq(WebServerRuns)
  BY ServerRecord
<1>4. /\ runs \in Seq(WebServerRuns)
      /\ Len(runs) = Len(s.runs) /\ (r \in 1..Len(s.runs) => runs[r] = e)
      /\ \A q \in 1..Len(s.runs) : Keeps(s.runs[q], runs[q])
  BY <1>1, <1>3, RunRewritten
<1>5. PICK new : new = [s EXCEPT !.runs = runs]
  OBVIOUS
<1>6. new \in WebServers /\ new.runs = runs /\ new.receipts = s.receipts /\ new.queue = s.queue
  BY <1>4, <1>5, ServerRecord
<1>7. [s EXCEPT !.runs[r] = e] = new
  BY <1>2, <1>5
<1> QED BY <1>4, <1>6, <1>7

LEMMA ServerEndsMoves == ASSUME NEW r \in WebRuns, WebInv, ServerEnds(r) PROVE WebMoves
<1>1. /\ server \in WebServers /\ view \in WebViews /\ pending \in WebPendings
      /\ rescue \in WebRescues /\ server.runs[r] \in WebServerRuns
  BY WebFields
<1>2. PICK end \in {"done", "error"} :
        /\ server.runs[r].state = "running" /\ server' = [server EXCEPT !.runs[r].state = end]
        /\ UNCHANGED <<asks, link, view, pending, rescue, lookup, resyncs, sent>>
  BY DEF ServerEnds
<1>3. PICK e : e = [server.runs[r] EXCEPT !.state = end]
  OBVIOUS
<1>4. e \in WebServerRuns /\ Keeps(server.runs[r], e)
  BY <1>1, <1>2, <1>3 DEF WebServerRuns, Terminal, Keeps
<1>5. server' = [server EXCEPT !.runs[r] = e]
  BY <1>2, <1>3
<1>6. /\ server' \in WebServers /\ server'.receipts = server.receipts
      /\ server'.queue = server.queue /\ Len(server'.runs) = Len(server.runs)
      /\ \A q \in WebRuns : Keeps(server.runs[q], server'.runs[q])
  BY <1>1, <1>4, <1>5, RunSet DEF WebRuns
<1> QED BY <1>1, <1>2, <1>6, RewrittenMoves DEF ViewMoves, Known

(* The run that is heard of has the number of the connection, which is open. *)
LEMMA RunEventMoves == ASSUME NEW r \in WebRuns, WebInv, RunEvent(r) PROVE WebMoves
<1>1. /\ server \in WebServers /\ view \in WebViews /\ pending \in WebPendings
      /\ rescue \in WebRescues /\ server.runs[r] \in WebServerRuns /\ r \in Nat
      /\ link.number \in Nat
  BY WebFields DEF WebRuns
<1>2. /\ link.state = "open" /\ server.runs[r].number = link.number
      /\ server' = [server EXCEPT !.runs[r].told = "some"]
      /\ pending' \in {NothingPending, pending}
      /\ view' = [view EXCEPT !.status = "running", !.run = r]
      /\ UNCHANGED <<asks, link, rescue, lookup, resyncs, sent>>
  BY DEF RunEvent, Heard
<1>3. PICK e : e = [server.runs[r] EXCEPT !.told = "some"]
  OBVIOUS
<1>4. e \in WebServerRuns /\ Keeps(server.runs[r], e)
  BY <1>1, <1>3 DEF WebServerRuns, Keeps
<1>5. server' = [server EXCEPT !.runs[r] = e]
  BY <1>2, <1>3
<1>6. /\ server' \in WebServers /\ server'.receipts = server.receipts
      /\ server'.queue = server.queue /\ Len(server'.runs) = Len(server.runs)
      /\ \A q \in WebRuns : Keeps(server.runs[q], server'.runs[q])
  BY <1>1, <1>4, <1>5, RunSet DEF WebRuns
<1>7. view' \in WebViews /\ view'.run = r
  <2>1. PICK a : a = [view EXCEPT !.status = "running"]
    OBVIOUS
  <2>2. view' = [a EXCEPT !.run = r]
    BY <1>2, <2>1
  <2>3. a \in WebViews
    BY <2>1, <1>1 DEF WebViews
  <2> QED BY ONLY <2>2, <2>3, <1>1 DEF WebViews
<1>8. ~Past(r)
  BY <1>1, <1>2 DEF Past, PastOn
<1> QED BY <1>1, <1>2, <1>6, <1>7, <1>8, PendingNothing, RewrittenMoves DEF ViewMoves, Known

LEMMA EndEventMoves == ASSUME NEW r \in WebRuns, WebInv, EndEvent(r) PROVE WebMoves
<1>1. /\ server \in WebServers /\ view \in WebViews /\ pending \in WebPendings
      /\ rescue \in WebRescues /\ server.runs[r] \in WebServerRuns /\ r \in Nat
      /\ link.number \in Nat
  BY WebFields DEF WebRuns
<1>2. /\ link.state = "open" /\ server.runs[r].number = link.number
      /\ server' = [server EXCEPT !.runs[r].told = "end"]
      /\ pending' \in {NothingPending, pending}
      /\ view' = [view EXCEPT !.status = "idle", !.run = r]
      /\ rescue' \in {[rescue EXCEPT !.continued = 0], rescue}
      /\ UNCHANGED <<asks, link, lookup, sent>>
  BY DEF EndEvent, Heard
<1>3. PICK e : e = [server.runs[r] EXCEPT !.told = "end"]
  OBVIOUS
<1>4. e \in WebServerRuns /\ Keeps(server.runs[r], e)
  BY <1>1, <1>3 DEF WebServerRuns, Keeps
<1>5. server' = [server EXCEPT !.runs[r] = e]
  BY <1>2, <1>3
<1>6. /\ server' \in WebServers /\ server'.receipts = server.receipts
      /\ server'.queue = server.queue /\ Len(server'.runs) = Len(server.runs)
      /\ \A q \in WebRuns : Keeps(server.runs[q], server'.runs[q])
  BY <1>1, <1>4, <1>5, RunSet DEF WebRuns
<1>7. view' \in WebViews /\ view'.run = r
  <2>1. PICK a : a = [view EXCEPT !.status = "idle"]
    OBVIOUS
  <2>2. view' = [a EXCEPT !.run = r]
    BY <1>2, <2>1
  <2>3. a \in WebViews
    BY <2>1, <1>1 DEF WebViews
  <2> QED BY ONLY <2>2, <2>3, <1>1 DEF WebViews
<1>8. ~Past(r)
  BY <1>1, <1>2 DEF Past, PastOn
<1>9. rescue' \in WebRescues /\ rescue'.run = rescue.run
  BY <1>1, <1>2 DEF WebRescues
<1> QED BY <1>1, <1>2, <1>6, <1>7, <1>8, <1>9, PendingNothing, RewrittenMoves DEF ViewMoves, Known

(* The run that a receipt names was joined. *)
LEMMA ReceiptMoves == ASSUME NEW receipt \in server.receipts, WebInv, Receipt(receipt) PROVE WebMoves
<1>1. /\ server \in WebServers /\ view \in WebViews /\ pending \in WebPendings
      /\ rescue \in WebRescues
  BY WebFields
<1>2. /\ server' = [server EXCEPT !.receipts = server.receipts \ {receipt}]
      /\ pending' \in {NothingPending, pending}
      /\ view' = [view EXCEPT !.run = receipt.run]
      /\ UNCHANGED <<asks, link, rescue, lookup, resyncs, sent>>
  BY DEF Receipt
<1>3. receipt.run \in WebRuns /\ server.runs[receipt.run].joined /\ receipt.run \in Nat
  BY DEF WebInv, ReceiptsTell, WebRuns
<1>4. view' \in WebViews /\ view'.run = receipt.run
  BY <1>1, <1>2, <1>3 DEF WebViews
<1>5. PICK R : R = server.receipts \ {receipt}
  OBVIOUS
<1>6. R \in SUBSET [number : Nat, run : Nat]
  BY <1>1, <1>5, ServerRecord
<1>7. server' = [server EXCEPT !.receipts = R]
  BY <1>2, <1>5
<1>8. /\ server' \in WebServers /\ server'.runs = server.runs /\ server'.receipts = R
      /\ server'.queue = server.queue
  BY <1>1, <1>6, <1>7, ServerRecord
<1>9. \A q \in WebRuns : Keeps(server.runs[q], server'.runs[q])
  BY <1>8 DEF Keeps
<1> QED BY <1>1, <1>2, <1>3, <1>4, <1>5, <1>8, <1>9, PendingNothing, RewrittenMoves DEF ViewMoves, Known

LEMMA RunAppended ==
    ASSUME WebInv, NEW s \in WebServers, s.runs = server.runs, s.receipts = server.receipts,
           NEW number \in 0..link.number, server' = [s EXCEPT !.runs = Append(s.runs, StartedRun(number))],
           UNCHANGED <<asks, link, view, pending, rescue, lookup, sent>>
    PROVE  WebMoves
<1>1. /\ server.runs \in Seq(WebServerRuns) /\ Len(server.runs) \in Nat /\ link.number \in Nat
      /\ view \in WebViews /\ pending \in WebPendings /\ rescue \in WebRescues
  BY WebFields
<1>2. PICK e : e = StartedRun(number)
  OBVIOUS
<1>3. e \in WebServerRuns /\ e.number = number
  BY <1>1, <1>2 DEF StartedRun, WebServerRuns, Terminal
<1>4. PICK runs : runs = Append(server.runs, e)
  OBVIOUS
<1>5. /\ runs \in Seq(WebServerRuns) /\ Len(runs) = Len(server.runs) + 1
      /\ \A q \in 1..Len(server.runs) : runs[q] = server.runs[q]
      /\ runs[Len(server.runs) + 1] = e
      /\ \A q \in 1..Len(runs) : q \in 1..Len(server.runs) \/ q = Len(server.runs) + 1
  BY <1>1, <1>3, <1>4
<1>6. server' = [s EXCEPT !.runs = runs]
  BY <1>2, <1>4
<1>7. server' \in WebServers /\ server'.runs = runs /\ server'.receipts = server.receipts
  <2>1. PICK new : new = [s EXCEPT !.runs = runs]
    OBVIOUS
  <2>2. new \in WebServers /\ new.runs = runs /\ new.receipts = s.receipts
    BY <1>5, <2>1, ServerRecord
  <2> QED BY <1>6, <2>1, <2>2
<1>8. \A q \in WebRuns : Keeps(server.runs[q], server'.runs[q])
  BY <1>5, <1>7 DEF Keeps, WebRuns
<1>9. \A q \in 1..Len(server'.runs) : q \notin WebRuns => server'.runs[q].number <= link.number
  BY <1>1, <1>3, <1>5, <1>7 DEF WebRuns
<1>10. ReceiptsTell'
  <2>1. ReceiptsTell
    BY DEF WebInv
  <2> QED BY <2>1, <1>1, <1>5, <1>7 DEF ReceiptsTell, WebRuns
<1>11. QueueBehind' /\ Len(server.runs) <= Len(server'.runs)
  BY <1>1, <1>5, <1>7 DEF QueueBehind
<1>12. ViewMoves /\ Known(rescue.run, rescue'.run)
  BY DEF ViewMoves, Known
<1> QED BY <1>1, <1>7, <1>8, <1>9, <1>10, <1>11, <1>12, HeardMoves

LEMMA ServerDrainsMoves == WebInv /\ ServerDrains => WebMoves
<1> SUFFICES ASSUME WebInv, ServerDrains PROVE WebMoves
  OBVIOUS
<1>1. /\ server \in WebServers /\ server.runs \in Seq(WebServerRuns) /\ link.number \in Nat
      /\ \A q \in WebRuns : server.runs[q].number \in 0..link.number
  BY WebFields
<1>2. /\ server.queue > 0 /\ Last(server.runs).state = "done"
      /\ server' = [server EXCEPT !.queue = server.queue - 1,
                                  !.runs = Append(server.runs, StartedRun(Last(server.runs).number))]
      /\ UNCHANGED <<asks, link, view, pending, rescue, lookup, resyncs, sent>>
  BY DEF ServerDrains
<1>3. PICK n : n = server.queue - 1
  OBVIOUS
<1>4. n \in Nat
  BY <1>1, <1>2, <1>3, ServerRecord
<1>5. PICK s : s = [server EXCEPT !.queue = n]
  OBVIOUS
<1>6. s \in WebServers /\ s.runs = server.runs /\ s.receipts = server.receipts
  BY <1>1, <1>4, <1>5, ServerRecord
<1>7. PICK number : number = Last(server.runs).number
  OBVIOUS
<1>8. server' = [s EXCEPT !.runs = Append(s.runs, StartedRun(number))]
  BY <1>2, <1>3, <1>5, <1>6, <1>7
<1>9. number \in 0..link.number
  <2>1. Len(server.runs) > 0
    BY <1>2 DEF WebInv, QueueBehind
  <2>2. Len(server.runs) \in WebRuns
    BY <2>1, <1>1 DEF WebRuns
  <2> QED BY <2>2, <1>1, <1>7 DEF Last
<1> QED BY <1>2, <1>6, <1>8, <1>9, RunAppended

(* The next message is read; only a request that is admitted adds a        *)
(* receipt, of a run that it joins.                                        *)
LEMMA AdmittedMoves ==
    ASSUME WebInv, NEW s \in WebServers, s.runs = server.runs, s.receipts = server.receipts,
           NEW number \in Nat, Working, server' \in Admitted(s, number),
           UNCHANGED <<asks, link, view, pending, rescue, lookup, sent>>
    PROVE  WebMoves
<1>1. /\ server.runs \in Seq(WebServerRuns) /\ Len(server.runs) \in Nat
      /\ view \in WebViews /\ pending \in WebPendings /\ rescue \in WebRescues
      /\ \A q \in WebRuns : server.runs[q] \in WebServerRuns
  BY WebFields
<1>2. PICK r : r = Len(server.runs)
  OBVIOUS
<1>3. r \in WebRuns /\ r \in Nat
  BY <1>1, <1>2 DEF Working, WebRuns
<1>4. PICK more \in {0, 1} :
        server' = [s EXCEPT !.queue = s.queue + more, !.runs[r].joined = TRUE,
                            !.receipts = s.receipts \cup {[number |-> number, run |-> r]}]
  BY <1>2 DEF Admitted
<1>5. PICK R : R = server.receipts \cup {[number |-> number, run |-> r]}
  OBVIOUS
<1>6. PICK n : n = s.queue + more
  OBVIOUS
<1>7. PICK a : a = [s EXCEPT !.queue = n]
  OBVIOUS
<1>8. n \in Nat /\ a \in WebServers /\ a.runs = server.runs /\ a.receipts = server.receipts
  <2>1. n \in Nat
    BY <1>6, ServerRecord
  <2> QED BY <2>1, <1>7, ServerRecord
<1>9. PICK e : e = [server.runs[r] EXCEPT !.joined = TRUE]
  OBVIOUS
<1>10. e \in WebServerRuns /\ Keeps(server.runs[r], e) /\ e.joined
  BY <1>1, <1>3, <1>9 DEF WebServerRuns, Keeps
<1>11. PICK b : b = [a EXCEPT !.runs[r] = e]
  OBVIOUS
<1>12. /\ b \in WebServers /\ Len(b.runs) = Len(server.runs) /\ b.receipts = server.receipts
       /\ b.runs[r] = e /\ \A q \in WebRuns : Keeps(server.runs[q], b.runs[q])
  <2>1. r \in 1..Len(a.runs) /\ Keeps(a.runs[r], e)
    BY <1>3, <1>8, <1>10 DEF WebRuns
  <2>2. /\ b \in WebServers /\ Len(b.runs) = Len(a.runs) /\ b.receipts = a.receipts
        /\ b.runs[r] = e /\ \A q \in 1..Len(a.runs) : Keeps(a.runs[q], b.runs[q])
    BY <2>1, <1>8, <1>10, <1>11, RunSet
  <2> QED BY <2>2, <1>8 DEF WebRuns
<1>13. server' = [b EXCEPT !.receipts = R]
  <2>1. server' = [[a EXCEPT !.runs[r].joined = TRUE] EXCEPT !.receipts = R]
    BY <1>4, <1>5, <1>6, <1>7
  <2>2. b = [a EXCEPT !.runs[r].joined = TRUE]
    BY <1>8, <1>9, <1>11
  <2> QED BY <2>1, <2>2
<1>14. R \in SUBSET [number : Nat, run : Nat]
  <2>1. server.receipts \in SUBSET [number : Nat, run : Nat]
    BY ServerRecord
  <2> QED BY <2>1, <1>3, <1>5
<1>15. server' \in WebServers /\ server'.runs = b.runs /\ server'.receipts = R
  BY <1>12, <1>13, <1>14, ServerRecord
<1>16. ReceiptsTell'
  <2>1. ReceiptsTell
    BY DEF WebInv
  <2>2. \A receipt \in R : receipt \in server.receipts \/ receipt.run = r
    BY <1>5
  <2> QED BY <2>1, <2>2, <1>3, <1>10, <1>12, <1>15 DEF ReceiptsTell, WebRuns, Keeps
<1>17. /\ QueueBehind' /\ Len(server.runs) <= Len(server'.runs)
       /\ \A q \in WebRuns : Keeps(server.runs[q], server'.runs[q])
       /\ \A q \in 1..Len(server'.runs) : q \notin WebRuns => server'.runs[q].number <= link.number
  BY <1>1, <1>3, <1>12, <1>15 DEF QueueBehind, WebRuns
<1>18. ViewMoves /\ Known(rescue.run, rescue'.run)
  BY DEF ViewMoves, Known
<1> QED BY <1>1, <1>15, <1>16, <1>17, <1>18, HeardMoves

LEMMA ServerReadsMoves == WebInv /\ ServerReads => WebMoves
<1> SUFFICES ASSUME WebInv, ServerReads PROVE WebMoves
  OBVIOUS
<1>1. /\ server \in WebServers /\ sent \in Seq(WebOuts) /\ link.number \in Nat
      /\ view \in WebViews /\ pending \in WebPendings /\ rescue \in WebRescues
      /\ server.runs \in Seq(WebServerRuns) /\ server.read \in Nat
      /\ \A k \in 1..Len(sent) : sent[k].number \in 0..link.number
  BY WebFields, ServerRecord
<1>2. PICK next : next = sent[server.read + 1]
  OBVIOUS
<1>3. PICK read : read = [server EXCEPT !.read = server.read + 1]
  OBVIOUS
<1>4. /\ server.read < Len(sent)
      /\ \/ Working /\ server' \in Admitted(read, next.number)
         \/ server' = [read EXCEPT !.runs = Append(read.runs, StartedRun(next.number))]
         \/ server' = read
         \/ /\ server.runs[next.message.of].state = "running"
            /\ server' = [read EXCEPT !.runs[next.message.of].state = "cancelled"]
      /\ UNCHANGED <<asks, link, view, pending, rescue, lookup, resyncs, sent>>
  BY <1>2, <1>3 DEF ServerReads
<1>5. next.number \in 0..link.number
  <2>1. Len(sent) \in Nat /\ server.read \in Nat /\ server.read < Len(sent)
    BY <1>1, <1>4
  <2>2. server.read + 1 \in 1..Len(sent)
    BY ONLY <2>1
  <2> QED BY ONLY <2>2, <1>1, <1>2
<1>6. /\ read \in WebServers /\ read.runs = server.runs /\ read.receipts = server.receipts
      /\ read.queue = server.queue
  <2>1. PICK n : n = server.read + 1
    OBVIOUS
  <2>2. n \in Nat /\ read = [server EXCEPT !.read = n]
    BY <1>1, <1>3, <2>1
  <2> QED BY <1>1, <2>2, ServerRecord
<1>7. CASE Working /\ server' \in Admitted(read, next.number)
  BY <1>4, <1>5, <1>6, <1>7, AdmittedMoves
<1>8. CASE server' = [read EXCEPT !.runs = Append(read.runs, StartedRun(next.number))]
  BY <1>4, <1>5, <1>6, <1>8, RunAppended
<1>9. CASE server' = read
  <2>1. \A q \in WebRuns : Keeps(server.runs[q], server'.runs[q])
    BY <1>6, <1>9 DEF Keeps
  <2> QED BY <2>1, <1>1, <1>4, <1>6, <1>9, RewrittenMoves DEF ViewMoves, Known
<1>10. CASE /\ server.runs[next.message.of].state = "running"
            /\ server' = [read EXCEPT !.runs[next.message.of].state = "cancelled"]
  <2>1. PICK r : r = next.message.of
    OBVIOUS
  <2>2. PICK e : e = [server.runs[r] EXCEPT !.state = "cancelled"]
    OBVIOUS
  <2>3. r \in 1..Len(server.runs) => e \in WebServerRuns /\ Keeps(server.runs[r], e)
    <3>1. r \in 1..Len(server.runs) => server.runs[r] \in WebServerRuns
      BY WebFields DEF WebRuns
    <3> QED BY <3>1, <2>1, <2>2, <1>10 DEF WebServerRuns, Terminal, Keeps
  <2>4. server' = [read EXCEPT !.runs[r] = e]
    BY <1>6, <1>10, <2>1, <2>2
  <2>5. r \in 1..Len(read.runs) => e \in WebServerRuns /\ Keeps(read.runs[r], e)
    BY <1>6, <2>3
  <2>6. /\ server' \in WebServers /\ server'.receipts = read.receipts
        /\ server'.queue = read.queue /\ Len(server'.runs) = Len(read.runs)
        /\ \A q \in 1..Len(read.runs) : Keeps(read.runs[q], server'.runs[q])
    <3>1. PICK new : new = [read EXCEPT !.runs[r] = e]
      OBVIOUS
    <3>2. /\ new \in WebServers /\ new.receipts = read.receipts
          /\ new.queue = read.queue /\ Len(new.runs) = Len(read.runs)
          /\ \A q \in 1..Len(read.runs) : Keeps(read.runs[q], new.runs[q])
      <4>1. CASE r \in 1..Len(read.runs)
        <5>1. e \in WebServerRuns /\ Keeps(read.runs[r], e)
          BY <4>1, <2>5
        <5> QED BY ONLY <1>6, <4>1, <5>1, <3>1, RunSet
      <4>2. CASE r \notin 1..Len(read.runs)
        BY ONLY <1>6, <4>2, <3>1, RunSet
      <4> QED BY <4>1, <4>2
    <3>3. server' = new
      BY <2>4, <3>1
    <3> QED BY <3>2, <3>3
  <2>7. /\ server'.receipts = server.receipts
        /\ server'.queue = server.queue /\ Len(server'.runs) = Len(server.runs)
        /\ \A q \in WebRuns : Keeps(server.runs[q], server'.runs[q])
    BY <1>6, <2>6 DEF WebRuns
  <2>8. ViewMoves /\ Known(rescue.run, rescue'.run)
    BY <1>4 DEF ViewMoves, Known
  <2> QED BY <2>6, <2>7, <2>8, <1>1, <1>4, RewrittenMoves
<1> QED BY <1>4, <1>7, <1>8, <1>9, <1>10

LEMMA WebInvStep == WebInv /\ [WebNext]_webVars => WebInv'
<1> SUFFICES ASSUME WebInv, [WebNext]_webVars PROVE WebMoves
  BY WebMoveKeeps
<1>1. CASE UNCHANGED webVars
  <2>1. /\ link \in WebLinks /\ lookup \in Nat /\ rescue \in WebRescues
        /\ view \in WebViews /\ pending \in WebPendings
    BY WebFields
  <2> QED BY <1>1, <2>1, StandingMoves DEF webVars, Known, LookupMoves
<1>2. CASE Connecting
  BY <1>2, ConnectingMoves, OpenedMoves, DisconnectedMoves DEF Connecting
<1>3. CASE Answering
  BY <1>3, ServerReadsMoves, ServerDrainsMoves, ServerEndsMoves, RunEventMoves, EndEventMoves,
     ReceiptMoves, ReplayMoves DEF Answering
<1>4. CASE Submit \/ StopRecovery \/ CancelRun
  BY <1>4, SubmitMoves, StopRecoveryMoves, CancelRunMoves
<1>5. CASE LookupReturns \/ LookAgain
  BY <1>5, LookupMovesOn, LookAgainMoves
<1> QED BY <1>1, <1>2, <1>3, <1>4, <1>5 DEF WebNext

(* The client continues a run by itself only when it was cut off, and once *)
(* unless a request was admitted to it, whatever is lost, late, sent or    *)
(* stopped meanwhile (pollRecovery, startRecovery).                        *)
THEOREM ContinuedOnceHolds == WebSpec => []ContinuedOnce
<1>1. WebInit => WebInv
  <2> SUFFICES ASSUME WebInit PROVE WebInv
    OBVIOUS
  <2>1. /\ asks = <<>> /\ lookup = 0 /\ sent = <<>>
        /\ link = [state |-> "none", number |-> 0, buffer |-> <<>>, retry |-> FALSE]
        /\ view = [status |-> "idle", run |-> 0, version |-> 0]
        /\ pending = NothingPending
        /\ rescue = [run |-> 0, polls |-> 0, timer |-> FALSE, aborted |-> FALSE, continued |-> 0]
        /\ server = [read |-> 0, runs |-> <<>>, queue |-> 0, receipts |-> {}]
    BY DEF WebInit
  <2>2. asks \in Seq(Nat) /\ lookup \in Nat /\ sent \in Seq(WebOuts)
    BY <2>1
  <2>3. link \in WebLinks /\ view \in WebViews /\ rescue \in WebRescues /\ pending \in WebPendings
    BY <2>1, PendingNothing DEF WebLinks, WebViews, WebRescues
  <2>4. server \in WebServers
    <3>1. <<>> \in Seq(WebServerRuns) /\ {} \in SUBSET [number : Nat, run : Nat]
      OBVIOUS
    <3> QED BY <2>1, <3>1 DEF WebServers
  <2>5. /\ Len(asks) = 0 /\ Len(sent) = 0 /\ Len(server.runs) = 0 /\ server.receipts = {}
        /\ server.queue = 0 /\ view.run = 0 /\ rescue.run = 0
    BY <2>1
  <2> QED BY <2>1, <2>2, <2>3, <2>4, <2>5
          DEF WebInv, WebTyped, NumbersPast, ReceiptsTell, QueueBehind, RunsKnown, RecoversLost, ContinuedBehind,
              ContinuedOnce, WebRuns
<1>2. WebInv => ContinuedOnce
  BY DEF WebInv
<1> QED BY <1>1, <1>2, WebInvStep, PTL DEF WebSpec
-----------------------------------------------------------------------------
(* Who is heard in a chat (module Gateway)                                 *)

TalkShaped(talk) == {"chat", "place"} \subseteq DOMAIN talk /\ talk.chat \in Chats

ChatsInv ==
    /\ talks \in Seq(ToSet(talks)) /\ \A a \in 1..Len(talks) : TalkShaped(talks[a])
    /\ boss \in [Chats -> 0..Len(talks)] /\ newest \in [Chats -> 0..Len(talks)]
    /\ NewestIsHeard

(* A talk may change in any way, but one that is over stays over.          *)
TalkGoesOn(old, new) == TalkShaped(new) /\ (old.place = "over" => new.place = "over")
TalksMove ==
    /\ talks' \in Seq(ToSet(talks')) /\ Len(talks) <= Len(talks')
    /\ \A a \in 1..Len(talks') : TalkShaped(talks'[a])
    /\ \A a \in 1..Len(talks) : TalkGoesOn(talks[a], talks'[a])

(* The talks but one are as they were. *)
OnlyTalk(a) ==
    /\ DOMAIN talks' = 1..Len(talks) /\ talks' = [b \in 1..Len(talks) |-> talks'[b]]
    /\ \A b \in 1..Len(talks) : b # a => talks'[b] = talks[b]

LEMMA TalkRewritten ==
    ASSUME ChatsInv, NEW a \in 1..Len(talks), OnlyTalk(a), TalkGoesOn(talks[a], talks'[a])
    PROVE  TalksMove
<1>1. talks' \in Seq(ToSet(talks')) /\ Len(talks') = Len(talks) /\ Len(talks) \in Nat
  BY RewrittenRows DEF ChatsInv, OnlyTalk
<1>2. \A b \in 1..Len(talks) : TalkGoesOn(talks[b], talks'[b])
  BY DEF ChatsInv, TalkGoesOn, OnlyTalk
<1> QED BY <1>1, <1>2 DEF TalksMove, TalkGoesOn

LEMMA TalkUntouched == ChatsInv /\ UNCHANGED talks => TalksMove
  BY DEF ChatsInv, TalksMove, TalkGoesOn

(* The steps that register nobody. *)
LEMMA ChatMoves ==
    ASSUME ChatsInv, NEW chat \in Chats, Reply(chat) \/ Arrive(chat) \/ NewSession(chat) \/ CancelChat(chat)
    PROVE  TalksMove /\ UNCHANGED <<boss, newest>>
<1>1. /\ DOMAIN talks = 1..Len(talks) /\ Len(talks) \in Nat
      /\ \A a \in 1..Len(talks) : TalkShaped(talks[a])
      /\ boss[chat] # 0 => boss[chat] \in 1..Len(talks)
  BY DEF ChatsInv
<1>2. UNCHANGED <<boss, newest>>
  BY DEF Reply, Arrive, NewSession, CancelChat
<1>3. CASE Reply(chat)
  <2>1. boss[chat] \in 1..Len(talks)
    BY <1>1, <1>3 DEF Reply, Questioned
  <2>2. OnlyTalk(boss[chat]) /\ TalkGoesOn(talks[boss[chat]], talks'[boss[chat]])
    BY <1>1, <1>3, <2>1 DEF Reply, OnlyTalk, TalkGoesOn, TalkShaped
  <2> QED BY <1>2, <2>1, <2>2, TalkRewritten
<1>4. CASE Arrive(chat)
  <2>1. PICK talk : talks' = Append(talks, talk) /\ TalkShaped(talk)
    <3>1. PICK parent, forced : talks' = Append(talks, Talk(chat, parent, forced))
      BY <1>4 DEF Arrive
    <3> QED BY <3>1 DEF Talk, TalkShaped
  <2>2. /\ talks' \in Seq(ToSet(talks')) /\ Len(talks') = Len(talks) + 1
        /\ \A b \in 1..Len(talks) : talks'[b] = talks[b]
        /\ talks'[Len(talks) + 1] = talk
    BY <2>1, AppendedRow DEF ChatsInv
  <2> QED BY <1>1, <1>2, <2>1, <2>2 DEF TalksMove, TalkGoesOn
<1>5. CASE NewSession(chat)
  BY <1>2, <1>5, TalkUntouched DEF NewSession
<1>6. CASE CancelChat(chat)
  <2>1. boss[chat] \in 1..Len(talks)
    BY <1>1, <1>6 DEF CancelChat
  <2>2. OnlyTalk(boss[chat]) /\ TalkGoesOn(talks[boss[chat]], talks'[boss[chat]])
    BY <1>1, <1>6, <2>1 DEF CancelChat, OnlyTalk, TalkGoesOn, TalkShaped
  <2> QED BY <1>2, <2>1, <2>2, TalkRewritten
<1> QED BY <1>3, <1>4, <1>5, <1>6

LEMMA TalkingMoves ==
    ASSUME ChatsInv, NEW a \in 1..Len(talks),
           \/ Route(a) \/ Bind(a) \/ Start(a) \/ AskChat(a) \/ ReadReply(a) \/ AskEnds(a)
           \/ End(a) \/ CrossDeliver(a)
    PROVE  TalksMove /\ UNCHANGED <<boss, newest>>
<1>1. /\ DOMAIN talks = 1..Len(talks) /\ Len(talks) \in Nat /\ TalkShaped(talks[a])
  BY DEF ChatsInv
<1>2. UNCHANGED <<boss, newest>>
  BY DEF Route, Bind, Start, AskChat, ReadReply, AskEnds, End, CrossDeliver
<1>3. OnlyTalk(a) /\ TalkGoesOn(talks[a], talks'[a])
  <2> USE <1>1 DEF OnlyTalk, TalkGoesOn, TalkShaped, Is
  <2>1. CASE Route(a)
    BY <2>1 DEF Route
  <2>2. CASE Bind(a)
    BY <2>2 DEF Bind
  <2>3. CASE Start(a)
    BY <2>3 DEF Start
  <2>4. CASE AskChat(a)
    BY <2>4 DEF AskChat
  <2>5. CASE ReadReply(a)
    BY <2>5 DEF ReadReply
  <2>6. CASE AskEnds(a)
    BY <2>6 DEF AskEnds
  <2>7. CASE End(a)
    BY <2>7 DEF End
  <2>8. CASE CrossDeliver(a)
    BY <2>8 DEF CrossDeliver
  <2> QED BY <2>1, <2>2, <2>3, <2>4, <2>5, <2>6, <2>7, <2>8
<1> QED BY <1>2, <1>3, TalkRewritten

LEMMA ChatsStep == ChatsInv /\ [GatewayNext]_gwVars => ChatsInv'
<1> SUFFICES ASSUME ChatsInv, [GatewayNext]_gwVars PROVE ChatsInv'
  OBVIOUS
<1>1. /\ DOMAIN talks = 1..Len(talks) /\ Len(talks) \in Nat /\ boss \in [Chats -> 0..Len(talks)] /\ newest \in [Chats -> 0..Len(talks)]
      /\ \A a \in 1..Len(talks) : TalkShaped(talks[a]) /\ talks[a].chat \in Chats
      /\ NewestIsHeard
  BY DEF ChatsInv, TalkShaped
<1>2. CASE TalksMove /\ UNCHANGED <<boss, newest>>
  BY <1>1, <1>2 DEF ChatsInv, TalksMove, TalkGoesOn, NewestIsHeard
<1>3. ASSUME NEW a \in 1..Len(talks), Mount(a) PROVE ChatsInv'
  <2>1. /\ boss' = [boss EXCEPT ![talks[a].chat] = a] /\ newest' = [newest EXCEPT ![talks[a].chat] = a]
        /\ OnlyTalk(a) /\ TalkGoesOn(talks[a], talks'[a])
    BY <1>1, <1>3 DEF Mount, Is, OnlyTalk, TalkGoesOn, TalkShaped
  <2>2. TalksMove
    BY <2>1, TalkRewritten
  <2>3. /\ boss' \in [Chats -> 0..Len(talks)] /\ newest' \in [Chats -> 0..Len(talks)]
        /\ \A c \in Chats : \/ boss'[c] = newest'[c]
                            \/ boss'[c] = boss[c] /\ newest'[c] = newest[c]
    BY <1>1, <2>1
  <2> QED BY <1>1, <2>2, <2>3 DEF ChatsInv, TalksMove, TalkGoesOn, NewestIsHeard
<1>4. ASSUME NEW a \in 1..Len(talks), Unmount(a) PROVE ChatsInv'
  <2>1. /\ boss' = Unmounted(a) /\ newest' = newest /\ talks'[a].place = "over"
        /\ OnlyTalk(a) /\ TalkGoesOn(talks[a], talks'[a])
    BY <1>1, <1>4 DEF Unmount, OnlyTalk, TalkGoesOn, TalkShaped
  <2>2. TalksMove
    BY <2>1, TalkRewritten
  <2>3. boss' \in [Chats -> 0..Len(talks)] /\ \A c \in Chats : boss[c] # a => boss'[c] = boss[c]
    BY <1>1, <2>1 DEF Unmounted
  <2>4. ASSUME NEW c \in Chats, newest[c] # 0, talks'[newest[c]].place # "over"
        PROVE  boss'[c] = newest[c]
    <3>1. newest[c] \in 1..Len(talks) /\ newest[c] # a
      BY <1>1, <2>1, <2>4
    <3>2. talks[newest[c]].place # "over"
      BY <2>4, <3>1, <2>2 DEF TalksMove, TalkGoesOn
    <3>3. boss[c] = newest[c]
      BY <1>1, <2>4, <3>2 DEF NewestIsHeard
    <3> QED BY <2>3, <3>1, <3>3
  <2>5. NewestIsHeard'
    BY <2>1, <2>4 DEF NewestIsHeard
  <2>6. Len(talks') \in Nat /\ Len(talks) <= Len(talks')
    BY <2>2, <1>1 DEF TalksMove
  <2>7. boss' \in [Chats -> 0..Len(talks')] /\ newest' \in [Chats -> 0..Len(talks')]
    BY <1>1, <2>1, <2>3, <2>6
  <2> QED BY <2>2, <2>5, <2>7 DEF ChatsInv, TalksMove
<1>5. CASE UNCHANGED gwVars
  BY <1>2, <1>5, TalkUntouched DEF gwVars
<1> QED BY <1>2, <1>3, <1>4, <1>5, ChatMoves, TalkingMoves DEF GatewayNext

(* Whoever wrote to a chat last is heard there until its run returns: a    *)
(* run that ends late takes no other registration with it (mountAdapter,   *)
(* unmountAdapter).                                                        *)
THEOREM NewestIsHeardHolds == GatewaySpec => []NewestIsHeard
<1>1. GatewayInit => ChatsInv
  <2> SUFFICES ASSUME GatewayInit PROVE ChatsInv
    OBVIOUS
  <2>1. talks = <<>> /\ boss = [c \in Chats |-> 0] /\ newest = [c \in Chats |-> 0]
    BY DEF GatewayInit
  <2>2. talks \in Seq(ToSet(talks)) /\ Len(talks) = 0
    BY <2>1
  <2> QED BY <2>1, <2>2 DEF ChatsInv, NewestIsHeard
<1>2. ChatsInv => NewestIsHeard
  BY DEF ChatsInv
<1> QED BY <1>1, <1>2, ChatsStep, PTL DEF GatewaySpec
=============================================================================
