----------------------------- MODULE ViewProofs -----------------------------
(***************************************************************************)
(* What is shown of a run is what is stored of it, for any session, number *)
(* of steps, attempts, pieces of text and calls: the inductive invariant   *)
(* says what each cell of a view knows of its run and of its rows, and     *)
(* what the rows of a run look like.  The history, a recursive function    *)
(* over the rows, is followed by induction over them.                      *)
(***************************************************************************)
EXTENDS EventView, FunctionTheorems, SequenceTheorems, FiniteSetTheorems, WellFoundedInduction, TLAPS

(* Induction over the numbers, for a set.                                  *)
LEMMA NatInducts ==
  ASSUME NEW S, 0 \in S, \A n \in Nat : n \in S => n + 1 \in S
  PROVE  Nat \subseteq S
<1>1. SUFFICES ASSUME Nat \ S # {} PROVE FALSE
  OBVIOUS
<1>2. PICK n \in Nat \ S : \A m \in Nat \ S : ~ (<<m, n>> \in OpToRel(<, Nat))
  <2>1. Nat \ S \subseteq Nat  OBVIOUS
  <2> QED BY <1>1, <2>1, NatLessThanWellFounded, WFMin
<1>3. \A m \in Nat \ S : ~ (m < n)
  BY <1>2 DEF OpToRel
<1>4. n # 0
  OBVIOUS
<1>5. n - 1 \in Nat /\ n - 1 < n
  BY <1>4
<1>6. n - 1 \in S
  BY <1>3, <1>5
<1> QED BY <1>5, <1>6

-----------------------------------------------------------------------------
(* What a cell of a view, the step i of run r, knows of the run t and of   *)
(* the rows rr.                                                            *)
OpenModel(t, i) == t.state = "running" /\ t.stage = "model" /\ i = t.step
OpenTools(t, i) == t.state = "running" /\ t.stage = "tools" /\ i = t.step

UseAt(rr, n, r, i) == n \in 1..Len(rr) /\ rr[n].kind = "assistant" /\ rr[n].run = r /\ rr[n].step = i
ResultAt(rr, n, r, i) == n \in 1..Len(rr) /\ rr[n].kind = "tool_result" /\ rr[n].run = r /\ rr[n].step = i

(* The text of a step is that of its row; before there is one it is empty, *)
(* but for what an attempt that goes on has shown: of that only what is    *)
(* live, and not closed, knows.                                            *)
TextFits(closed, t, rr, r, i, c) ==
    /\ \A n \in 1..Len(rr) : UseAt(rr, n, r, i) => c.text = rr[n].text
    /\ (\A n \in 1..Len(rr) : ~UseAt(rr, n, r, i)) /\ ~OpenModel(t, i) => c.text = <<>>
    /\ OpenModel(t, i) /\ (closed \/ t.text = <<>>) => c.text = <<>>

(* A call that has its result has one card, with the status of it, or none *)
(* when it was given up; one that is under way has a card that the index   *)
(* knows; one that is due has none.                                        *)
UnderWay(c, k) == k \in c.index /\ c.cards[k] \in {<<"running">>, <<"waiting">>, <<"cancelled">>}
CardFits(t, rr, r, i, c, k) ==
    /\ \A n \in 1..Len(rr) : ResultAt(rr, n, r, i) =>
         c.cards[k] = <<>> \/ (k \in DOMAIN rr[n].tools /\ c.cards[k] = <<rr[n].tools[k]>>)
    /\ (\A n \in 1..Len(rr) : ~ResultAt(rr, n, r, i)) /\ ~OpenTools(t, i) => c.cards[k] = <<>>
    /\ OpenTools(t, i) =>
         /\ k \notin DOMAIN t.tools => c.cards[k] = <<>>
         /\ k \in DOMAIN t.tools /\ t.tools[k] = "due" => c.cards[k] = <<>>
         /\ k \in DOMAIN t.tools /\ t.tools[k] = "running" => UnderWay(c, k)
         /\ k \in DOMAIN t.tools /\ t.tools[k] \in {"success", "error"} => c.cards[k] = <<t.tools[k]>>

CellFits(closed, t, rr, r, i, c) ==
    TextFits(closed, t, rr, r, i, c) /\ \A k \in 1..MaxTools : CardFits(t, rr, r, i, c, k)

Claimed == {"none", "running", "finished"}
RunFits(closed, t, rr, r, v) ==
    t.state \in Claimed => \A i \in StepsOf(r) : CellFits(closed, t, rr, r, i, v.steps[<<r, i>>])

-----------------------------------------------------------------------------
(* The rows of a run: none before it begins; each step has one row with    *)
(* its calls, and then one with their results; the step it is in has the   *)
(* first when the calls are under way, and a step of a run that was not    *)
(* cut off has both or no calls.                                           *)
Placed(t, w) ==
    /\ t.state # "none" /\ w.step \in 0..t.step
    /\ w.kind = "assistant" => ~OpenModel(t, w.step)
    /\ w.kind = "assistant_partial" => t.state \notin Claimed
    /\ w.kind = "tool_result" /\ t.state = "running" => w.step # t.step
    /\ w.kind \in {"user_input", "assistant_partial"} => w.tools = <<>>
FollowsUse(rr, n) ==
    rr[n].kind = "tool_result" =>
        /\ rr[n].tools \in Seq({"success", "error", "cancelled"})
        /\ \E m \in 1..(n - 1) : UseAt(rr, m, rr[n].run, rr[n].step) /\ Len(rr[m].tools) = Len(rr[n].tools)
Followed(t, rr, w) ==
    w.kind = "assistant" /\ w.tools # <<>> /\ t.state \in Claimed /\ ~OpenTools(t, w.step) =>
        \E m \in 1..Len(rr) : ResultAt(rr, m, w.run, w.step)

RowFits(tt, rr, n) ==
    Placed(tt[rr[n].run], rr[n]) /\ FollowsUse(rr, n) /\ Followed(tt[rr[n].run], rr, rr[n])

RowsFit(tt, rr) ==
    /\ \A n \in 1..Len(rr) : RowFits(tt, rr, n)
    /\ \A n, m \in 1..Len(rr) : \A r \in Turns : \A i \in StepsOf(r) :
         /\ UseAt(rr, n, r, i) /\ UseAt(rr, m, r, i) => n = m
         /\ ResultAt(rr, n, r, i) /\ ResultAt(rr, m, r, i) => n = m
    /\ \A r \in Turns : OpenTools(tt[r], tt[r].step) =>
         \E n \in 1..Len(rr) : UseAt(rr, n, r, tt[r].step) /\ Len(rr[n].tools) = Len(tt[r].tools)

TurnFits(t) ==
    /\ t.tools \in Seq({"due", "running", "success", "error"})
    /\ t.state = "none" => t = Fresh

OnItsWay == {"read", "reads"}

Claims ==
    /\ \A r \in Turns \ torn.shown : RunFits(FALSE, turns[r], rows, r, shown)
    /\ \A r \in Turns \ torn.kept : RunFits(TRUE, turns[r], rows, r, kept)
    /\ \A s \in Turns : syncs[s].stage \in OnItsWay =>
         \A r \in Turns \ syncs[s].lacks : RunFits(TRUE, turns[r], rows, r, syncs[s].view)

ViewInv ==
    /\ ViewTypeOK
    /\ \A r \in Turns : TurnFits(turns[r])
    /\ RowsFit(turns, rows)
    /\ Claims

-----------------------------------------------------------------------------
(* Views.                                                                  *)
Cell == [text : Seq(Nat), cards : [1..MaxTools -> Seq(CardStates)], index : SUBSET Nat]

EventFits(e) ==
    \/ e.type = "none"
    \/ /\ e.run \in Turns
       /\ e.type \notin Ends => e.step \in StepsOf(e.run)
       /\ \/ e.type \in Ends \cup {"content_start", "model_fallback"}
          \/ e.type \in {"content_delta", "content_end"} /\ e.load \in Seq(Nat)
          \/ e.type \in Starts /\ DOMAIN e.load \subseteq Nat
          \/ e.type \in Stops /\ \A k \in DOMAIN e.load : e.load[k] \in CardStates

LEMMA ViewConstants ==
    /\ Len(Talks) \in Nat /\ \A r \in Turns : Talks[r] \in Nat /\ OuterOf(r) \in Turns
    /\ \A r \in Turns : MaxSteps[r] \in Nat \ {0} /\ 0 \in StepsOf(r) /\ StepsOf(r) \subseteq Nat
    /\ MaxTries \in Nat \ {0} /\ MaxTexts \in Nat /\ MaxTools \in Nat
<1>1. Len(Talks) \in Nat /\ \A r \in Turns : Talks[r] \in Nat /\ Talks[r] < r
  BY ViewAssumption DEF Turns
<1>2. \A r \in Turns : OuterOf(r) \in Turns
  BY <1>1 DEF OuterOf, IsSub, Turns
<1>3. \A r \in Turns : MaxSteps[r] \in Nat \ {0}
  BY ViewAssumption DEF Turns
<1>4. \A r \in Turns : 0 \in StepsOf(r) /\ StepsOf(r) \subseteq Nat
  BY <1>3 DEF StepsOf
<1> QED BY <1>1, <1>2, <1>3, <1>4, ViewAssumption

LEMMA StepIdsAre ==
    /\ \A r \in Turns : \A i : i \in StepsOf(r) => <<r, i>> \in StepIds
    /\ \A p \in StepIds : p[1] \in Turns /\ p[2] \in StepsOf(p[1]) /\ p = <<p[1], p[2]>>
  BY DEF StepIds

LEMMA SettledCardsType ==
    ASSUME NEW c \in [1..MaxTools -> Seq(CardStates)]
    PROVE  /\ SettledCards(c) \in [1..MaxTools -> Seq(CardStates)]
           /\ \A k \in 1..MaxTools : /\ Len(SettledCards(c)[k]) = Len(c[k])
                                     /\ \A i \in 1..Len(c[k]) : SettledCards(c)[k][i] =
                                          IF c[k][i] \in {"running", "waiting"} THEN "cancelled" ELSE c[k][i]
<1>1. ASSUME NEW k \in 1..MaxTools
      PROVE  /\ SettledCards(c)[k] \in Seq(CardStates) /\ Len(SettledCards(c)[k]) = Len(c[k])
             /\ \A i \in 1..Len(c[k]) : SettledCards(c)[k][i] =
                   IF c[k][i] \in {"running", "waiting"} THEN "cancelled" ELSE c[k][i]
  <2> DEFINE s == [i \in DOMAIN c[k] |-> IF c[k][i] \in {"running", "waiting"} THEN "cancelled" ELSE c[k][i]]
  <2>1. SettledCards(c)[k] = s
    BY DEF SettledCards
  <2>2. Len(c[k]) \in Nat /\ DOMAIN c[k] = 1..Len(c[k]) /\ \A i \in 1..Len(c[k]) : c[k][i] \in CardStates
    BY ElementOfSeq
  <2>3. s \in [1..Len(c[k]) -> CardStates]
    BY <2>2 DEF CardStates
  <2>4. s \in Seq(CardStates) /\ Len(s) = Len(c[k])
    <3> HIDE DEF s
    <3> QED BY <2>2, <2>3
  <2> QED BY <2>1, <2>2, <2>4
<1> QED BY <1>1 DEF SettledCards

LEMMA SettledType ==
    ASSUME NEW v \in Views, NEW R
    PROVE  /\ Settled(v, R) \in Views /\ Settled(v, R).status = v.status
           /\ \A p \in StepIds : Settled(v, R).steps[p] =
                IF p[1] \in R THEN SettledStep(v.steps[p]) ELSE v.steps[p]
<1>1. \A p \in StepIds : v.steps[p] \in Cell
  BY DEF Views, Cell
<1>2. \A p \in StepIds : SettledStep(v.steps[p]) \in Cell
  BY <1>1, SettledCardsType DEF SettledStep, Cell
<1>3. v.status \in Busy \cup {"idle", "done", "error", "cancelled"} /\ v = [steps |-> v.steps, status |-> v.status]
  BY DEF Views
<1>4. Settled(v, R).steps = [p \in StepIds |-> IF p[1] \in R THEN SettledStep(v.steps[p]) ELSE v.steps[p]]
  BY <1>3 DEF Settled, SettledStep
<1>5. Settled(v, R).steps \in [StepIds -> Cell]
  BY <1>1, <1>2, <1>4
<1>6. Settled(v, R).status = v.status /\ Settled(v, R) = [steps |-> Settled(v, R).steps, status |-> v.status]
  BY <1>3 DEF Settled
<1> QED BY <1>3, <1>4, <1>5, <1>6 DEF Views, Cell

LEMMA WithLastType ==
    ASSUME NEW S, NEW s \in Seq(S), NEW x \in S
    PROVE  /\ WithLast(s, x) \in Seq(S) /\ Len(WithLast(s, x)) = Len(s)
           /\ \A i \in 1..Len(s) : WithLast(s, x)[i] = IF i = Len(s) THEN x ELSE s[i]
<1>1. Len(s) \in Nat /\ s \in [1..Len(s) -> S]
  OBVIOUS
<1>2. WithLast(s, x) \in [1..Len(s) -> S]
  BY <1>1 DEF WithLast
<1>3. \A i \in 1..Len(s) : WithLast(s, x)[i] = IF i = Len(s) THEN x ELSE s[i]
  BY <1>1 DEF WithLast
<1>4. \A z \in [1..Len(s) -> S] : z \in Seq(S) /\ Len(z) = Len(s)
  BY <1>1
<1> QED BY <1>2, <1>3, <1>4

LEMMA CardsAfterType ==
    ASSUME NEW c \in Cell, NEW e, EventFits(e), e.type # "none"
    PROVE  CardsAfter(c, e) \in [1..MaxTools -> Seq(CardStates)]
<1>1. SUFFICES ASSUME NEW k \in 1..MaxTools
               PROVE  CardsAfter(c, e)[k] \in Seq(CardStates)
  BY DEF CardsAfter
<1>2. c.cards[k] \in Seq(CardStates)
  BY DEF Cell
<1>3. CASE e.type \in Starts /\ k \in DOMAIN e.load
  <2>1. CardsAfter(c, e)[k] = Append(c.cards[k], IF e.type = "tool_use_start" THEN "running" ELSE "waiting")
    BY <1>3 DEF CardsAfter, Starts, Stops
  <2> QED BY <1>2, <2>1 DEF CardStates
<1>4. CASE e.type \in Stops /\ k \in DOMAIN e.load \cap c.index
  <2>1. CardsAfter(c, e)[k] = [c.cards[k] EXCEPT ![Len(c.cards[k])] = e.load[k]]
    BY <1>4 DEF CardsAfter, WithLast, Starts, Stops
  <2>2. e.load[k] \in CardStates
    BY <1>4 DEF EventFits, Starts, Stops, Ends
  <2> QED BY <1>2, <2>1, <2>2, WithLastType DEF WithLast
<1>5. CASE ~(e.type \in Starts /\ k \in DOMAIN e.load) /\ ~(e.type \in Stops /\ k \in DOMAIN e.load \cap c.index)
  <2>1. CardsAfter(c, e)[k] = c.cards[k]
    BY <1>5 DEF CardsAfter
  <2> QED BY <1>2, <2>1
<1> QED BY <1>3, <1>4, <1>5

LEMMA StepAfterType ==
    ASSUME NEW c \in Cell, NEW e, EventFits(e), e.type # "none"
    PROVE  StepAfter(c, e) \in Cell
<1>1. TextAfter(c.text, e) \in Seq(Nat)
  BY DEF TextAfter, Cell, EventFits, Starts, Stops, Ends
<1>2. CardsAfter(c, e) \in [1..MaxTools -> Seq(CardStates)]
  BY CardsAfterType
<1>3. (IF e.type \in Starts THEN c.index \cup DOMAIN e.load ELSE c.index) \in SUBSET Nat
  BY DEF Cell, EventFits, Starts, Stops, Ends
<1> QED BY <1>1, <1>2, <1>3 DEF StepAfter, Cell

(* An event changes its own step, or settles.                              *)
LEMMA ReducedType ==
    ASSUME NEW v \in Views, NEW e, EventFits(e)
    PROVE  /\ Reduced(v, e) \in Views
           /\ e.type = "none" => Reduced(v, e) = v
           /\ e.type \notin Ends \cup {"none"} => \A p \in StepIds :
                Reduced(v, e).steps[p] = IF p = <<e.run, e.step>> THEN StepAfter(v.steps[p], e) ELSE v.steps[p]
           /\ e.type \in Ends => \A p \in StepIds :
                Reduced(v, e).steps[p] = v.steps[p] \/ Reduced(v, e).steps[p] = SettledStep(v.steps[p])
<1>0. v.steps \in [StepIds -> Cell] /\ v.status \in Busy \cup {"idle", "done", "error", "cancelled"}
  BY DEF Views, Cell
<1>1. CASE e.type = "none"
  BY <1>1 DEF Reduced, Ends
<1>2. CASE e.type \in Ends
  <2>1. PICK w : w = Settled(v, Settles(e))
    OBVIOUS
  <2>2. w \in Views /\ w.status = v.status
        /\ \A p \in StepIds : w.steps[p] = v.steps[p] \/ w.steps[p] = SettledStep(v.steps[p])
    BY <2>1, SettledType
  <2>3. Reduced(v, e) = [w EXCEPT !.status = IF e.type = "timeout" \/ IsSub(e.run) THEN @ ELSE e.type]
    BY <1>2, <2>1 DEF Reduced, Ends
  <2>4. Reduced(v, e).steps = w.steps
        /\ Reduced(v, e) = [steps |-> w.steps, status |-> Reduced(v, e).status]
        /\ (Reduced(v, e).status = w.status \/ (Reduced(v, e).status = e.type /\ e.type # "timeout"))
    BY <2>2, <2>3 DEF Views
  <2>5. Reduced(v, e) \in Views
    BY <1>0, <1>2, <2>2, <2>4 DEF Views, Ends
  <2> QED BY <1>2, <2>2, <2>4, <2>5 DEF Ends
<1>3. CASE e.type \notin Ends \cup {"none"}
  <2>1. e.run \in Turns /\ e.step \in StepsOf(e.run) /\ <<e.run, e.step>> \in StepIds
    BY <1>3, StepIdsAre DEF EventFits
  <2>2. PICK q \in StepIds : q = <<e.run, e.step>>
    BY <2>1
  <2>3. Reduced(v, e) = [steps |-> [v.steps EXCEPT ![q] = StepAfter(@, e)], status |-> StatusAfter(v.status, e)]
    BY <1>3, <2>2 DEF Reduced
  <2>4. StepAfter(v.steps[q], e) \in Cell
    BY <1>0, <1>3, StepAfterType
  <2>5. [v.steps EXCEPT ![q] = StepAfter(@, e)] \in [StepIds -> Cell]
    BY <1>0, <2>4
  <2>6. StatusAfter(v.status, e) \in Busy \cup {"idle", "done", "error", "cancelled"}
    BY <1>0 DEF StatusAfter, Busy
  <2>7. Reduced(v, e) \in Views
    BY <2>3, <2>5, <2>6 DEF Views, Cell
  <2>8. \A p \in StepIds : Reduced(v, e).steps[p] = IF p = q THEN StepAfter(v.steps[p], e) ELSE v.steps[p]
    BY <1>0, <2>3
  <2> QED BY <1>3, <2>2, <2>7, <2>8
<1> QED BY <1>1, <1>2, <1>3

LEMMA NothingShownType ==
    /\ NothingShown \in Views /\ Empty \in Cell
    /\ \A p \in StepIds : NothingShown.steps[p] = Empty
<1>1. Empty \in Cell
  BY DEF Empty, Cell
<1> QED BY <1>1 DEF NothingShown, Views, Cell

-----------------------------------------------------------------------------
(* Settling changes no claim.                                              *)
LEMMA SettledOne ==
    ASSUME NEW c \in Cell, NEW k \in 1..MaxTools
    PROVE  /\ c.cards[k] = <<>> => SettledStep(c).cards[k] = <<>>
           /\ \A x : c.cards[k] = <<x>> => SettledStep(c).cards[k] =
                                           <<IF x \in {"running", "waiting"} THEN "cancelled" ELSE x>>
           /\ SettledStep(c).text = c.text /\ SettledStep(c).index = c.index
           /\ SettledStep(c) \in Cell
<1>1. PICK s : s = SettledCards(c.cards)[k]
  OBVIOUS
<1>2. SettledStep(c).cards = SettledCards(c.cards) /\ SettledStep(c).text = c.text /\ SettledStep(c).index = c.index
  BY DEF SettledStep, Cell
<1>3. /\ SettledCards(c.cards) \in [1..MaxTools -> Seq(CardStates)] /\ Len(s) = Len(c.cards[k])
      /\ \A i \in 1..Len(c.cards[k]) : s[i] =
           IF c.cards[k][i] \in {"running", "waiting"} THEN "cancelled" ELSE c.cards[k][i]
  BY <1>1, SettledCardsType DEF Cell
<1>4. s \in Seq(CardStates) /\ SettledStep(c) \in Cell
  BY <1>1, <1>2, <1>3 DEF SettledStep, Cell
<1>5. c.cards[k] = <<>> => s = <<>>
  BY <1>3, <1>4
<1>6. ASSUME NEW x, c.cards[k] = <<x>>
      PROVE  s = <<IF x \in {"running", "waiting"} THEN "cancelled" ELSE x>>
  <2>1. Len(s) = 1 /\ s[1] = IF x \in {"running", "waiting"} THEN "cancelled" ELSE x
    BY <1>3, <1>6
  <2>2. s = <<s[1]>>
    BY <1>4, <2>1
  <2> QED BY <2>1, <2>2
<1> QED BY <1>1, <1>2, <1>4, <1>5, <1>6

ResultStates == {"success", "error", "cancelled"}

LEMMA SettledFits ==
    ASSUME NEW closed, NEW t, NEW rr, NEW r, NEW i, NEW c \in Cell, CellFits(closed, t, rr, r, i, c),
           \A n \in 1..Len(rr) : ResultAt(rr, n, r, i) =>
              \A k \in DOMAIN rr[n].tools : rr[n].tools[k] \in {"success", "error", "cancelled"}
    PROVE  CellFits(closed, t, rr, r, i, SettledStep(c))
<1> DEFINE d == SettledStep(c)
<1>1. TextFits(closed, t, rr, r, i, d)
  <2>1. MaxTools = 0 \/ 1 \in 1..MaxTools
    BY ViewConstants
  <2>2. d.text = c.text
    BY DEF SettledStep, Cell
  <2> QED BY <2>2 DEF CellFits, TextFits
<1>2. ASSUME NEW k \in 1..MaxTools
      PROVE  CardFits(t, rr, r, i, d, k)
  <2>0. CardFits(t, rr, r, i, c, k)
    BY DEF CellFits
  <2>1. /\ c.cards[k] = <<>> => d.cards[k] = <<>>
        /\ \A x : c.cards[k] = <<x>> => d.cards[k] =
                    <<IF x \in {"running", "waiting"} THEN "cancelled" ELSE x>>
        /\ d.index = c.index
    BY SettledOne
  <2>2. \A x \in ResultStates : c.cards[k] = <<x>> => d.cards[k] = <<x>>
    BY <2>1 DEF ResultStates
  <2>3. UnderWay(c, k) => UnderWay(d, k)
    BY <2>1 DEF UnderWay
  <2> HIDE DEF d
  <2>4. ASSUME NEW n \in 1..Len(rr), ResultAt(rr, n, r, i)
        PROVE  d.cards[k] = <<>> \/ (k \in DOMAIN rr[n].tools /\ d.cards[k] = <<rr[n].tools[k]>>)
    <3>1. c.cards[k] = <<>> \/ (k \in DOMAIN rr[n].tools /\ c.cards[k] = <<rr[n].tools[k]>>)
      BY <2>0, <2>4 DEF CardFits
    <3>2. k \in DOMAIN rr[n].tools => rr[n].tools[k] \in ResultStates
      BY <2>4 DEF ResultStates
    <3> QED BY <2>1, <2>2, <3>1, <3>2
  <2>5. (\A n \in 1..Len(rr) : ~ResultAt(rr, n, r, i)) /\ ~OpenTools(t, i) => d.cards[k] = <<>>
    BY <2>0, <2>1 DEF CardFits
  <2>6. OpenTools(t, i) =>
         /\ k \notin DOMAIN t.tools => d.cards[k] = <<>>
         /\ k \in DOMAIN t.tools /\ t.tools[k] = "due" => d.cards[k] = <<>>
         /\ k \in DOMAIN t.tools /\ t.tools[k] = "running" => UnderWay(d, k)
         /\ k \in DOMAIN t.tools /\ t.tools[k] \in {"success", "error"} => d.cards[k] = <<t.tools[k]>>
    BY <2>0, <2>1, <2>2, <2>3 DEF CardFits, ResultStates
  <2> QED BY <2>4, <2>5, <2>6 DEF CardFits
<1> QED BY <1>1, <1>2 DEF CellFits

-----------------------------------------------------------------------------
(* The history: what the first n rows give.                                *)
RowType == [kind : {"user_input", "assistant", "assistant_partial", "tool_result"},
            run : Turns, step : Nat, text : Seq(Nat), tools : Seq(CallStates)]

StoredText(rr, n, r, i, c) ==
    /\ \A m \in 1..n : UseAt(rr, m, r, i) => c.text = rr[m].text
    /\ (\A m \in 1..n : ~UseAt(rr, m, r, i)) => c.text = <<>>
StoredCard(rr, n, r, i, c, k) ==
    /\ \A m \in 1..n : ResultAt(rr, m, r, i) =>
         c.cards[k] = IF k \in DOMAIN rr[m].tools THEN <<rr[m].tools[k]>> ELSE <<>>
    /\ (\A m \in 1..n : ~ResultAt(rr, m, r, i)) =>
         \A m \in 1..n : UseAt(rr, m, r, i) => IF k \in DOMAIN rr[m].tools THEN UnderWay(c, k) ELSE c.cards[k] = <<>>
    /\ (\A m \in 1..n : ~UseAt(rr, m, r, i)) => c.cards[k] = <<>>
Stored(rr, n, r, i, c) ==
    StoredText(rr, n, r, i, c) /\ \A k \in 1..MaxTools : StoredCard(rr, n, r, i, c, k)

After(c, e) == IF e.type = "none" THEN c ELSE StepAfter(c, e)

LEMMA SettledStored ==
    ASSUME NEW rr \in Seq(RowType), NEW n \in 0..Len(rr), NEW r, NEW i, NEW c \in Cell, Stored(rr, n, r, i, c),
           \A m \in 1..n : ResultAt(rr, m, r, i) => rr[m].tools \in Seq(ResultStates)
    PROVE  Stored(rr, n, r, i, SettledStep(c))
<1> DEFINE d == SettledStep(c)
<1>1. d.text = c.text /\ d.index = c.index
  BY DEF SettledStep, Cell
<1>2. ASSUME NEW k \in 1..MaxTools
      PROVE  StoredCard(rr, n, r, i, d, k)
  <2>0. StoredCard(rr, n, r, i, c, k)
    BY DEF Stored
  <2>1. /\ c.cards[k] = <<>> => d.cards[k] = <<>>
        /\ \A x : c.cards[k] = <<x>> => d.cards[k] =
                    <<IF x \in {"running", "waiting"} THEN "cancelled" ELSE x>>
    BY SettledOne
  <2>2. \A x \in ResultStates : c.cards[k] = <<x>> => d.cards[k] = <<x>>
    BY <2>1 DEF ResultStates
  <2>3. UnderWay(c, k) => UnderWay(d, k)
    BY <1>1, <2>1 DEF UnderWay
  <2> HIDE DEF d
  <2>4. ASSUME NEW m \in 1..n, ResultAt(rr, m, r, i)
        PROVE  d.cards[k] = IF k \in DOMAIN rr[m].tools THEN <<rr[m].tools[k]>> ELSE <<>>
    <3>1. c.cards[k] = IF k \in DOMAIN rr[m].tools THEN <<rr[m].tools[k]>> ELSE <<>>
      BY <2>0, <2>4 DEF StoredCard
    <3>2. k \in DOMAIN rr[m].tools => rr[m].tools[k] \in ResultStates
      BY <2>4
    <3> QED BY <2>1, <2>2, <3>1, <3>2
  <2>5. ASSUME \A m \in 1..n : ~ResultAt(rr, m, r, i), NEW m \in 1..n, UseAt(rr, m, r, i)
        PROVE  IF k \in DOMAIN rr[m].tools THEN UnderWay(d, k) ELSE d.cards[k] = <<>>
    BY <2>0, <2>1, <2>3, <2>5 DEF StoredCard
  <2>6. (\A m \in 1..n : ~UseAt(rr, m, r, i)) => d.cards[k] = <<>>
    BY <2>0, <2>1 DEF StoredCard
  <2> QED BY <2>4, <2>5, <2>6 DEF StoredCard
<1> QED BY <1>1, <1>2 DEF Stored, StoredText

(* One row more, for the cell it is about.                                 *)
LEMMA RowStored ==
    ASSUME NEW tt, NEW rr \in Seq(RowType), RowsFit(tt, rr), NEW n \in 1..Len(rr),
           rr[n].step \in StepsOf(rr[n].run), tt[rr[n].run].state \in Claimed,
           NEW c \in Cell, Stored(rr, n - 1, rr[n].run, rr[n].step, c)
    PROVE  Stored(rr, n, rr[n].run, rr[n].step, After(After(c, TextOf(rr[n])), ToolsOf(rr[n])))
<1> DEFINE w == rr[n]
           r == w.run
           i == w.step
           d == After(c, TextOf(w))
           g == After(d, ToolsOf(w))
<1> SUFFICES Stored(rr, n, r, i, g)
  OBVIOUS
<1>00. \A m \in 1..Len(rr) : rr[m] \in RowType
  OBVIOUS
<1>01. n \in Nat /\ Len(rr) \in Nat /\ n \in 1..n /\ n \notin 1..(n - 1)
       /\ (\A m \in 1..n : m = n \/ m \in 1..(n - 1)) /\ (\A m \in 1..(n - 1) : m \in 1..n /\ m \in 1..Len(rr))
  OBVIOUS
<1>0. r \in Turns /\ i \in Nat /\ w.text \in Seq(Nat) /\ w.tools \in Seq(CallStates)
      /\ w.kind \in {"user_input", "assistant", "assistant_partial", "tool_result"}
  BY <1>00 DEF RowType
<1>02. i \in StepsOf(r) /\ Stored(rr, n - 1, r, i, c)
  OBVIOUS
<1>1. /\ \A m \in 1..Len(rr) : UseAt(rr, n, r, i) /\ UseAt(rr, m, r, i) => n = m
      /\ \A m \in 1..Len(rr) : ResultAt(rr, n, r, i) /\ ResultAt(rr, m, r, i) => n = m
      /\ \A m, l \in 1..Len(rr) : UseAt(rr, l, r, i) /\ UseAt(rr, m, r, i) => l = m
  BY <1>0, <1>01, <1>02 DEF RowsFit
<1>2. \A m \in 1..Len(rr) : RowFits(tt, rr, m)
  BY DEF RowsFit
<1>3. w.kind \in {"user_input", "assistant", "tool_result"}
  BY <1>0, <1>01, <1>2 DEF RowFits, Placed, FollowsUse, Followed
<1>4. CASE w.kind = "user_input"
  <2>1. w.tools = <<>>
    BY <1>01, <1>2, <1>4 DEF RowFits, Placed, FollowsUse, Followed
  <2>2. g = c
    BY <1>4, <2>1 DEF TextOf, ToolsOf, After, NoEvent, Ev
  <2>3. ~UseAt(rr, n, r, i) /\ ~ResultAt(rr, n, r, i)
    BY <1>4 DEF UseAt, ResultAt
  <2> HIDE DEF g
  <2>4. StoredText(rr, n, r, i, c)
    BY <1>0, <1>01, <1>02, <2>3 DEF Stored, StoredText
  <2>5. ASSUME NEW k \in 1..MaxTools PROVE StoredCard(rr, n, r, i, c, k)
    <3>1. StoredCard(rr, n - 1, r, i, c, k)
      BY <1>02 DEF Stored
    <3> QED BY <1>0, <1>01, <2>3, <3>1 DEF StoredCard
  <2> QED BY <2>2, <2>4, <2>5 DEF Stored
<1>5. CASE w.kind = "assistant"
  <2>1. UseAt(rr, n, r, i) /\ ~ResultAt(rr, n, r, i)
    BY <1>5 DEF UseAt, ResultAt
  <2>2. \A m \in 1..(n - 1) : ~UseAt(rr, m, r, i)
    BY <1>0, <1>01, <1>1, <2>1
  <2>3. ASSUME NEW m \in 1..(n - 1) PROVE ~ResultAt(rr, m, r, i)
    <3>1. SUFFICES ASSUME ResultAt(rr, m, r, i) PROVE FALSE
      OBVIOUS
    <3>2. PICK l \in 1..(m - 1) : UseAt(rr, l, r, i)
      BY <1>0, <1>01, <1>2, <3>1 DEF RowFits, Placed, FollowsUse, Followed, ResultAt
    <3>3. l \in 1..(n - 1)
      BY <1>01
    <3> QED BY <2>2, <3>2, <3>3
  <2>4. c.text = <<>> /\ \A k \in 1..MaxTools : c.cards[k] = <<>>
    BY <1>02, <2>2, <2>3 DEF Stored, StoredText, StoredCard
  <2>5. d.text = w.text /\ d.cards = c.cards /\ d.index = c.index /\ d \in Cell
    <3>1. CASE w.text = <<>>
      BY <1>5, <2>4, <3>1 DEF TextOf, After, NoEvent, Ev
    <3>2. CASE w.text # <<>>
      <4>1. TextOf(w) = Ev("content_end", r, i, w.text)
        BY <1>5, <3>2 DEF TextOf
      <4>2. d = StepAfter(c, TextOf(w)) /\ TextOf(w).type = "content_end" /\ TextOf(w).load = w.text
        BY <4>1 DEF After, Ev
      <4>3. d.text = w.text /\ d.cards = CardsAfter(c, TextOf(w)) /\ d.index = c.index
        BY <4>2 DEF StepAfter, TextAfter, Starts
      <4>4. c.cards = [k \in 1..MaxTools |-> c.cards[k]]
        BY DEF Cell
      <4>5. CardsAfter(c, TextOf(w)) = c.cards
        BY <4>2, <4>4 DEF CardsAfter, Starts, Stops
      <4>6. d \in Cell
        BY <1>0, <4>2, <4>3, <4>5 DEF Cell, StepAfter, RowType
      <4> QED BY <4>3, <4>5, <4>6
    <3> QED BY <3>1, <3>2
  <2> HIDE DEF d
  <2>6. g.text = w.text /\ \A k \in 1..MaxTools :
          IF k \in DOMAIN w.tools THEN UnderWay(g, k) ELSE g.cards[k] = <<>>
    <3>1. CASE w.tools = <<>>
      BY <2>4, <2>5, <3>1 DEF ToolsOf, After, NoEvent, Ev
    <3>2. CASE w.tools # <<>>
      <4>1. ToolsOf(w) = Ev(ToolStart(r), r, i, w.tools)
        BY <1>5, <3>2 DEF ToolsOf
      <4>2. PICK e : e = ToolsOf(w)
        OBVIOUS
      <4>3. e.type \in Starts /\ e.load = w.tools /\ e.type \notin Stops
        BY <4>1, <4>2 DEF Ev, ToolStart, Starts, Stops
      <4>4. g = StepAfter(d, e)
        BY <4>2, <4>3 DEF After, Starts
      <4>5. g.text = TextAfter(d.text, e) /\ g.cards = CardsAfter(d, e) /\ g.index = d.index \cup DOMAIN w.tools
        BY <4>3, <4>4 DEF StepAfter
      <4>6. TextAfter(d.text, e) = d.text
        BY <4>3 DEF TextAfter, Starts
      <4>7. \A k \in 1..MaxTools : IF k \in DOMAIN w.tools THEN g.cards[k] \in {<<"running">>, <<"waiting">>}
                                   ELSE g.cards[k] = <<>>
        <5> HIDE DEF g
        <5>1. ASSUME NEW k \in 1..MaxTools
              PROVE  g.cards[k] = IF k \in DOMAIN w.tools
                        THEN Append(c.cards[k], IF e.type = "tool_use_start" THEN "running" ELSE "waiting") ELSE c.cards[k]
          BY <2>5, <4>3, <4>5 DEF CardsAfter
        <5>2. \A x : Append(<<>>, x) = <<x>>
          OBVIOUS
        <5> QED BY <2>4, <5>1, <5>2
      <4> HIDE DEF g
      <4> QED BY <2>5, <4>5, <4>6, <4>7 DEF UnderWay
    <3> QED BY <3>1, <3>2
  <2> HIDE DEF g
  <2>7. StoredText(rr, n, r, i, g)
    BY <1>0, <1>01, <2>1, <2>2, <2>6 DEF StoredText
  <2>8. \A k \in 1..MaxTools : StoredCard(rr, n, r, i, g, k)
    BY <1>0, <1>01, <2>1, <2>2, <2>3, <2>6 DEF StoredCard
  <2> QED BY <2>7, <2>8 DEF Stored
<1>6. CASE w.kind = "tool_result"
  <2>1. ~UseAt(rr, n, r, i) /\ ResultAt(rr, n, r, i)
    BY <1>6 DEF UseAt, ResultAt
  <2>2. \A m \in 1..(n - 1) : ~ResultAt(rr, m, r, i)
    BY <1>0, <1>01, <1>1, <2>1
  <2>3. w.tools \in Seq(ResultStates) /\ \E m \in 1..(n - 1) : UseAt(rr, m, r, i) /\ Len(rr[m].tools) = Len(w.tools)
    BY <1>01, <1>2, <1>6 DEF RowFits, Placed, FollowsUse, Followed, ResultStates
  <2>4. PICK u \in 1..(n - 1) : UseAt(rr, u, r, i) /\ Len(rr[u].tools) = Len(w.tools)
    BY <2>3
  <2>5. rr[u].tools \in Seq(CallStates) /\ DOMAIN rr[u].tools = DOMAIN w.tools
    <3>1. rr[u].tools \in Seq(CallStates)
      BY <1>00, <1>01 DEF RowType
    <3> HIDE DEF w
    <3> QED BY <2>3, <2>4, <3>1
  <2>6. \A k \in 1..MaxTools : IF k \in DOMAIN w.tools THEN UnderWay(c, k) ELSE c.cards[k] = <<>>
    BY <1>02, <2>2, <2>4, <2>5 DEF Stored, StoredCard
  <2>7. d = c
    BY <1>6 DEF TextOf, After, NoEvent, Ev
  <2>8. g.text = c.text /\ \A k \in 1..MaxTools :
          g.cards[k] = IF k \in DOMAIN w.tools THEN <<w.tools[k]>> ELSE <<>>
    <3>1. CASE w.tools = <<>>
      BY <2>6, <2>7, <3>1 DEF ToolsOf, After, NoEvent, Ev
    <3>2. CASE w.tools # <<>>
      <4>1. ToolsOf(w) = Ev(ToolEnd(r), r, i, w.tools)
        BY <1>6, <3>2 DEF ToolsOf
      <4>2. PICK e : e = ToolsOf(w)
        OBVIOUS
      <4>3. e.type \notin Starts /\ e.load = w.tools /\ e.type \in Stops
        BY <4>1, <4>2 DEF Ev, ToolEnd, Starts, Stops
      <4>4. g = StepAfter(c, e)
        BY <2>7, <4>2, <4>3 DEF After, Stops
      <4>5. g.text = TextAfter(c.text, e) /\ g.cards = CardsAfter(c, e)
        BY <4>3, <4>4 DEF StepAfter
      <4>6. TextAfter(c.text, e) = c.text
        BY <4>3 DEF TextAfter, Stops
      <4>7. ASSUME NEW k \in 1..MaxTools
            PROVE  g.cards[k] = IF k \in DOMAIN w.tools THEN <<w.tools[k]>> ELSE <<>>
        <5>1. CASE k \in DOMAIN w.tools
          <6>1. k \in c.index /\ c.cards[k] \in {<<"running">>, <<"waiting">>, <<"cancelled">>}
            BY <2>6, <5>1 DEF UnderWay
          <6>2. g.cards[k] = WithLast(c.cards[k], w.tools[k])
            BY <4>3, <4>5, <5>1, <6>1 DEF CardsAfter
          <6>3. \A x, y : WithLast(<<x>>, y) = <<y>>
            BY DEF WithLast
          <6> QED BY <5>1, <6>1, <6>2, <6>3
        <5>2. CASE k \notin DOMAIN w.tools
          <6>1. g.cards[k] = c.cards[k]
            BY <4>3, <4>5, <5>2 DEF CardsAfter
          <6> QED BY <2>6, <5>2, <6>1
        <5> QED BY <5>1, <5>2
      <4> QED BY <4>5, <4>6, <4>7
    <3> QED BY <3>1, <3>2
  <2> HIDE DEF g
  <2>9. StoredText(rr, n, r, i, g)
    BY <1>0, <1>01, <1>02, <2>1, <2>8 DEF Stored, StoredText
  <2>10. \A k \in 1..MaxTools : StoredCard(rr, n, r, i, g, k)
    <3>1. n \in 1..n
      BY <1>01
    <3>2. \A m \in 1..n : ResultAt(rr, m, r, i) => m = n
      BY <1>0, <1>01, <2>2
    <3>3. u \in 1..n
      BY <1>01
    <3> QED BY <2>1, <2>4, <2>8, <3>1, <3>2, <3>3 DEF StoredCard
  <2> QED BY <2>9, <2>10 DEF Stored
<1> QED BY <1>3, <1>4, <1>5, <1>6

-----------------------------------------------------------------------------
(* What the rows give, from one to the next.                               *)
NoRow == [current |-> 0, over |-> {}, view |-> NothingShown]
Builds(F, n) == F = [i \in 0..n |-> IF i = 0 THEN NoRow ELSE RowAdded(F[i-1], rows[i])]

LEMMA BuildsExists == \A n \in Nat : \E F : Builds(F, n)
<1> DEFINE S == {n \in Nat : \E F : Builds(F, n)}
<1>1. 0 \in S
  <2> DEFINE F == [i \in 0..0 |-> NoRow]
  <2>1. F = [i \in 0..0 |-> IF i = 0 THEN NoRow ELSE RowAdded(F[i-1], rows[i])]
    OBVIOUS
  <2>2. Builds(F, 0)
    BY <2>1 DEF Builds
  <2> HIDE DEF F
  <2> QED BY <2>2
<1>2. ASSUME NEW n \in Nat, n \in S PROVE n + 1 \in S
  <2>1. PICK F : Builds(F, n)
    BY <1>2
  <2> DEFINE step(G, i) == IF i = 0 THEN NoRow ELSE RowAdded(G[i-1], rows[i])
             G == [i \in 0..n+1 |-> IF i = n + 1 THEN step(F, i) ELSE F[i]]
  <2>2. ASSUME NEW i \in 0..n+1 PROVE G[i] = step(G, i)
    <3>0. i # 0 => i - 1 \in 0..n+1 /\ i - 1 # n + 1 /\ G[i-1] = F[i-1]
      OBVIOUS
    <3>1. CASE i = n + 1
      <4>1. G[i] = step(F, i)
        BY <3>1
      <4> HIDE DEF G
      <4> QED BY <3>0, <4>1
    <3>2. CASE i # n + 1
      <4>1. i \in 0..n /\ G[i] = F[i]
        BY <3>2
      <4>2. F[i] = step(F, i)
        BY <2>1, <4>1 DEF Builds
      <4> HIDE DEF G
      <4> QED BY <3>0, <4>1, <4>2
    <3> QED BY <3>1, <3>2
  <2>3. G = [i \in 0..n+1 |-> G[i]]
    OBVIOUS
  <2>4. G = [i \in 0..n+1 |-> step(G, i)]
    <3> HIDE DEF G
    <3> SUFFICES [i \in 0..n+1 |-> G[i]] = [i \in 0..n+1 |-> step(G, i)]
      BY <2>3
    <3> QED BY <2>2
  <2>5. Builds(G, n + 1)
    <3> HIDE DEF G
    <3> QED BY <2>4 DEF Builds
  <2> HIDE DEF G
  <2> QED BY <2>5
<1>3. Nat \subseteq S
  <2> HIDE DEF S
  <2> QED BY <1>1, <1>2, NatInducts
<1> QED BY <1>3

LEMMA HistoryIs ==
    ASSUME Len(rows) \in Nat
    PROVE  \E F, R : Builds(F, Len(rows)) /\ HistoryView = Settled(F[Len(rows)].view, R)
<1> DEFINE F == CHOOSE f : Builds(f, Len(rows))
           left == {r \in Turns \ F[Len(rows)].over :
                       turns[r].state \in Terminal /\ \E n \in DOMAIN rows : rows[n].run = r}
<1>1. Builds(F, Len(rows))
  BY BuildsExists
<1>2. HistoryView = Settled(F[Len(rows)].view, UNION {Settles(EndOf(r)) : r \in left})
  BY DEF HistoryView, Builds, NoRow
<1> HIDE DEF F
<1> QED BY <1>1, <1>2

RowsHold ==
    /\ rows \in Seq(RowType) /\ RowsFit(turns, rows)
    /\ \A r \in Turns : turns[r].step \in StepsOf(r)

AccFits(acc, n) ==
    /\ acc = [current |-> acc.current, over |-> acc.over, view |-> acc.view]
    /\ acc.current \in 0..Len(Talks) /\ acc.view \in Views
    /\ \A r \in Turns : turns[r].state \in Claimed =>
         \A i \in StepsOf(r) : Stored(rows, n, r, i, acc.view.steps[<<r, i>>])

(* Ends only settle.                                                       *)
LEMMA TerminatedFits ==
    ASSUME RowsHold, NEW n \in 0..Len(rows), NEW acc, AccFits(acc, n), NEW q \in Turns
    PROVE  AccFits(Terminated(acc, q), n)
<1>1. CASE q \in acc.over
  BY <1>1 DEF Terminated
<1>2. CASE q \notin acc.over
  <2> DEFINE e == EndOf(q)
             v == Reduced(acc.view, e)
  <2>1. EventFits(e) /\ (e.type = "none" \/ e.type \in Ends)
    BY DEF EndOf, EventFits, NoEvent, Ev, Terminal, Ends
  <2>2. v \in Views /\ \A p \in StepIds :
          v.steps[p] = acc.view.steps[p] \/ v.steps[p] = SettledStep(acc.view.steps[p])
    BY <2>1, ReducedType DEF AccFits
  <2>3. Terminated(acc, q) = [current |-> acc.current, over |-> acc.over \cup {q}, view |-> v]
    BY <1>2 DEF Terminated, AccFits
  <2> HIDE DEF v
  <2>4. ASSUME NEW r \in Turns, turns[r].state \in Claimed, NEW i \in StepsOf(r)
        PROVE  Stored(rows, n, r, i, v.steps[<<r, i>>])
    <3>1. <<r, i>> \in StepIds /\ acc.view.steps[<<r, i>>] \in Cell
      BY StepIdsAre DEF AccFits, Views, Cell
    <3>2. Stored(rows, n, r, i, acc.view.steps[<<r, i>>])
      BY <2>4 DEF AccFits
    <3>3. \A m \in 1..n : ResultAt(rows, m, r, i) => rows[m].tools \in Seq(ResultStates)
      BY DEF RowsHold, RowsFit, RowFits, Placed, FollowsUse, Followed, ResultAt, ResultStates
    <3>4. Stored(rows, n, r, i, SettledStep(acc.view.steps[<<r, i>>]))
      BY <3>1, <3>2, <3>3, SettledStored DEF RowsHold
    <3> QED BY <2>2, <3>1, <3>2, <3>4
  <2>5. acc.current \in 0..Len(Talks)
    BY DEF AccFits
  <2> QED BY <2>2, <2>3, <2>4, <2>5 DEF AccFits
<1> QED BY <1>1, <1>2

LEMMA RowEvents ==
    ASSUME RowsHold, NEW n \in 1..Len(rows)
    PROVE  /\ rows[n].run \in Turns /\ rows[n].step \in StepsOf(rows[n].run)
           /\ EventFits(TextOf(rows[n])) /\ EventFits(ToolsOf(rows[n]))
           /\ \A e \in {TextOf(rows[n]), ToolsOf(rows[n])} :
                e.type = "none" \/ (e.type \notin Ends /\ e.run = rows[n].run /\ e.step = rows[n].step)
<1> DEFINE w == rows[n]
<1>1. w.run \in Turns /\ w.step \in Nat /\ w.text \in Seq(Nat) /\ w.tools \in Seq(CallStates)
  <2>1. w \in RowType
    BY DEF RowsHold
  <2> QED BY <2>1 DEF RowType
<1>2. w.step \in StepsOf(w.run)
  <2>1. turns[w.run].step \in 0..(MaxSteps[w.run] - 1) /\ w.step \in 0..turns[w.run].step /\ MaxSteps[w.run] \in Nat
    BY <1>1, ViewConstants DEF RowsHold, RowsFit, RowFits, Placed, FollowsUse, Followed, StepsOf
  <2> QED BY <1>1, <2>1 DEF StepsOf
<1>3. EventFits(TextOf(w)) /\ (TextOf(w).type = "none"
        \/ (TextOf(w).type \notin Ends /\ TextOf(w).run = w.run /\ TextOf(w).step = w.step))
  BY <1>1, <1>2 DEF TextOf, EventFits, NoEvent, Ev, Ends
<1>4. EventFits(ToolsOf(w)) /\ (ToolsOf(w).type = "none"
        \/ (ToolsOf(w).type \notin Ends /\ ToolsOf(w).run = w.run /\ ToolsOf(w).step = w.step))
  <2>1. CASE w.tools = <<>>
    BY <2>1 DEF ToolsOf, NoEvent, Ev, EventFits
  <2>2. CASE w.tools # <<>> /\ w.kind = "tool_result"
    <3>1. w.tools \in Seq(ResultStates)
      BY <2>2 DEF RowsHold, RowsFit, RowFits, Placed, FollowsUse, Followed, ResultStates
    <3>2. \A k \in DOMAIN w.tools : w.tools[k] \in CardStates
      BY <3>1 DEF ResultStates, CardStates
    <3>3. ToolsOf(w) = Ev(ToolEnd(w.run), w.run, w.step, w.tools) /\ ToolEnd(w.run) \in Stops
      BY <2>2 DEF ToolsOf, ToolEnd, Stops
    <3> QED BY <1>1, <1>2, <3>2, <3>3 DEF EventFits, Ev, Ends, Stops
  <2>3. CASE w.tools # <<>> /\ w.kind # "tool_result"
    <3>2. DOMAIN w.tools \subseteq Nat
      BY <1>1
    <3>3. ToolsOf(w) = Ev(ToolStart(w.run), w.run, w.step, w.tools) /\ ToolStart(w.run) \in Starts
      BY <2>3 DEF ToolsOf, ToolStart, Starts
    <3> QED BY <1>1, <1>2, <3>2, <3>3 DEF EventFits, Ev, Ends, Starts
  <2> QED BY <2>1, <2>2, <2>3
<1> QED BY <1>1, <1>2, <1>3, <1>4

LEMMA CellAfter ==
    ASSUME NEW v \in Views, NEW e, EventFits(e), e.type \notin Ends, NEW p \in StepIds
    PROVE  /\ Reduced(v, e) \in Views /\ v.steps[p] \in Cell
           /\ Reduced(v, e).steps[p] = IF e.type # "none" /\ p = <<e.run, e.step>> THEN After(v.steps[p], e) ELSE v.steps[p]
<1>1. v.steps[p] \in Cell
  BY DEF Views, Cell
<1>2. e.type = "none" => Reduced(v, e) = v
  BY ReducedType
<1>3. e.type # "none" => Reduced(v, e).steps[p] = IF p = <<e.run, e.step>> THEN StepAfter(v.steps[p], e) ELSE v.steps[p]
  BY ReducedType
<1> QED BY <1>1, <1>2, <1>3, ReducedType DEF After

LEMMA RowAddedFits ==
    ASSUME RowsHold, NEW n \in 1..Len(rows), NEW acc, AccFits(acc, n - 1)
    PROVE  AccFits(RowAdded(acc, rows[n]), n)
<1> DEFINE w == rows[n]
           leaves == acc.current # 0 /\ w.run # acc.current /\ Talks[w.run] # acc.current
           b == IF leaves THEN Terminated(acc, acc.current) ELSE acc
           e == TextOf(w)
           f == ToolsOf(w)
           v == Reduced(b.view, e)
           u == Reduced(v, f)
<1>1. n \in Nat /\ n - 1 \in 0..Len(rows) /\ Len(rows) \in Nat
      /\ \A m \in 1..n : m = n \/ m \in 1..(n - 1)
  BY DEF RowsHold
<1>2. AccFits(b, n - 1)
  <2>1. acc.current # 0 => acc.current \in Turns
    BY ViewConstants DEF AccFits, Turns
  <2> QED BY <1>1, <2>1, TerminatedFits
<1>3. /\ w.run \in Turns /\ w.step \in StepsOf(w.run) /\ EventFits(e) /\ EventFits(f)
      /\ e.type = "none" \/ (e.type \notin Ends /\ e.run = w.run /\ e.step = w.step)
      /\ f.type = "none" \/ (f.type \notin Ends /\ f.run = w.run /\ f.step = w.step)
  BY RowEvents
<1>4. RowAdded(acc, w) = [b EXCEPT !.current = w.run, !.view = u]
  BY DEF RowAdded
<1>5. RowAdded(acc, w) = [current |-> w.run, over |-> b.over, view |-> u]
  <2> HIDE DEF b, w, u
  <2> QED BY <1>2, <1>4 DEF AccFits
<1> HIDE DEF b, e, f, v, u
<1>6. b.view \in Views /\ e.type \notin Ends /\ f.type \notin Ends
  BY <1>2, <1>3 DEF AccFits, Ends
<1>7. /\ v \in Views /\ u \in Views
      /\ \A p \in StepIds : b.view.steps[p] \in Cell /\ u.steps[p] =
           IF p = <<w.run, w.step>> THEN After(After(b.view.steps[p], e), f) ELSE b.view.steps[p]
  <2>0. <<w.run, w.step>> \in StepIds
    BY <1>3, StepIdsAre
  <2>1. v \in Views /\ \A p \in StepIds : b.view.steps[p] \in Cell /\ v.steps[p] =
           IF p = <<w.run, w.step>> THEN After(b.view.steps[p], e) ELSE b.view.steps[p]
    BY <1>3, <1>6, <2>0, CellAfter DEF v, After
  <2>2. u \in Views /\ \A p \in StepIds : u.steps[p] =
           IF p = <<w.run, w.step>> THEN After(v.steps[p], f) ELSE v.steps[p]
    BY <1>3, <1>6, <2>0, <2>1, CellAfter DEF u, After
  <2> QED BY <2>1, <2>2
<1>8. ASSUME NEW r \in Turns, turns[r].state \in Claimed, NEW i \in StepsOf(r)
      PROVE  Stored(rows, n, r, i, u.steps[<<r, i>>])
  <2>1. <<r, i>> \in StepIds
    BY StepIdsAre
  <2>2. Stored(rows, n - 1, r, i, b.view.steps[<<r, i>>])
    BY <1>2, <1>8 DEF AccFits
  <2>3. CASE r = w.run /\ i = w.step
    <3>1. u.steps[<<r, i>>] = After(After(b.view.steps[<<r, i>>], e), f) /\ b.view.steps[<<r, i>>] \in Cell
      BY <1>7, <2>1, <2>3
    <3> QED BY <1>8, <1>3, <2>2, <2>3, <3>1, RowStored DEF e, f, RowsHold
  <2>4. CASE ~(r = w.run /\ i = w.step)
    <3>1. u.steps[<<r, i>>] = b.view.steps[<<r, i>>]
      BY <1>7, <2>1, <2>4
    <3>2. ~UseAt(rows, n, r, i) /\ ~ResultAt(rows, n, r, i)
      BY <2>4 DEF UseAt, ResultAt
    <3>3. StoredText(rows, n, r, i, b.view.steps[<<r, i>>])
      BY <1>1, <2>2, <3>2 DEF Stored, StoredText
    <3>4. ASSUME NEW k \in 1..MaxTools PROVE StoredCard(rows, n, r, i, b.view.steps[<<r, i>>], k)
      <4>1. StoredCard(rows, n - 1, r, i, b.view.steps[<<r, i>>], k)
        BY <2>2 DEF Stored
      <4>2. \A m \in 1..(n - 1) : m \in 1..n
        BY <1>1
      <4> QED BY <1>1, <3>2, <4>1, <4>2 DEF StoredCard
    <3> QED BY <3>1, <3>3, <3>4 DEF Stored
  <2> QED BY <2>3, <2>4
<1>9. w.run \in 0..Len(Talks)
  BY <1>3, ViewConstants DEF Turns
<1> QED BY <1>5, <1>7, <1>8, <1>9 DEF AccFits

LEMMA HistoryStores ==
    ASSUME RowsHold
    PROVE  /\ HistoryView \in Views
           /\ \A r \in Turns : turns[r].state \in Claimed =>
                \A i \in StepsOf(r) : Stored(rows, Len(rows), r, i, HistoryView.steps[<<r, i>>])
<1>1. Len(rows) \in Nat
  BY DEF RowsHold
<1>2. PICK F, R : Builds(F, Len(rows)) /\ HistoryView = Settled(F[Len(rows)].view, R)
  BY <1>1, HistoryIs
<1> DEFINE S == {n \in Nat : n <= Len(rows) => AccFits(F[n], n)}
<1>3. 0 \in S
  <2>1. F[0] = NoRow
    BY <1>1, <1>2 DEF Builds
  <2>2. ASSUME NEW r \in Turns, NEW i \in StepsOf(r)
        PROVE  Stored(rows, 0, r, i, NothingShown.steps[<<r, i>>])
    <3>1. NothingShown.steps[<<r, i>>] = Empty
      BY StepIdsAre, NothingShownType
    <3>2. Stored(rows, 0, r, i, Empty)
      BY DEF Stored, StoredText, StoredCard, Empty
    <3> QED BY <3>1, <3>2
  <2>3. NothingShown \in Views /\ 0 \in 0..Len(Talks)
    BY NothingShownType, ViewConstants
  <2>4. AccFits(NoRow, 0)
    BY <2>2, <2>3 DEF AccFits, NoRow
  <2> QED BY <2>1, <2>4
<1>4. ASSUME NEW n \in Nat, n \in S PROVE n + 1 \in S
  <2>1. SUFFICES ASSUME n + 1 <= Len(rows) PROVE AccFits(F[n + 1], n + 1)
    OBVIOUS
  <2>2. AccFits(F[n], n) /\ n + 1 \in 1..Len(rows) /\ n + 1 \in 0..Len(rows) /\ (n + 1) - 1 = n /\ n + 1 # 0
    BY <1>1, <1>4, <2>1
  <2>3. F[n + 1] = RowAdded(F[n], rows[n + 1])
    BY <1>2, <2>2 DEF Builds
  <2> QED BY <2>2, <2>3, RowAddedFits
<1>5. AccFits(F[Len(rows)], Len(rows))
  <2>1. Nat \subseteq S
    <3> HIDE DEF S
    <3> QED BY <1>3, <1>4, NatInducts
  <2> QED BY <1>1, <2>1
<1> DEFINE v == F[Len(rows)].view
<1>6. v \in Views /\ HistoryView \in Views
      /\ \A p \in StepIds : HistoryView.steps[p] = IF p[1] \in R THEN SettledStep(v.steps[p]) ELSE v.steps[p]
  BY <1>2, <1>5, SettledType DEF AccFits
<1>7. ASSUME NEW r \in Turns, turns[r].state \in Claimed, NEW i \in StepsOf(r)
      PROVE  Stored(rows, Len(rows), r, i, HistoryView.steps[<<r, i>>])
  <2>0. <<r, i>> \in StepIds /\ v.steps \in [StepIds -> Cell]
    BY <1>6, StepIdsAre DEF Views, Cell
  <2>1. <<r, i>> \in StepIds /\ v.steps[<<r, i>>] \in Cell /\ Len(rows) \in 0..Len(rows)
    <3> HIDE DEF v
    <3> QED BY <1>1, <2>0
  <2>2. Stored(rows, Len(rows), r, i, v.steps[<<r, i>>])
    BY <1>5, <1>7 DEF AccFits
  <2>3. \A m \in 1..Len(rows) : ResultAt(rows, m, r, i) => rows[m].tools \in Seq(ResultStates)
    BY DEF RowsHold, RowsFit, RowFits, Placed, FollowsUse, Followed, ResultAt, ResultStates
  <2>4. Stored(rows, Len(rows), r, i, SettledStep(v.steps[<<r, i>>]))
    BY <2>1, <2>2, <2>3, SettledStored DEF RowsHold
  <2> HIDE DEF v
  <2> QED BY <1>6, <2>1, <2>2, <2>4
<1> QED BY <1>6, <1>7

-----------------------------------------------------------------------------
(* A history knows a run whole, unless it is read when some calls of a     *)
(* round have their results and some do not.                               *)
LEMMA HistoryWhole ==
    ASSUME RowsHold, NEW r \in Turns, turns[r].tools \in Seq(CallStates),
           ~(InTools(r) /\ \E k \in DOMAIN turns[r].tools : turns[r].tools[k] # "running")
    PROVE  RunFits(TRUE, turns[r], rows, r, HistoryView)
<1> DEFINE t == turns[r]
           H == HistoryView
<1>0. Len(rows) \in Nat
  BY DEF RowsHold
<1>1. ASSUME t.state \in Claimed, NEW i \in StepsOf(r)
      PROVE  CellFits(TRUE, t, rows, r, i, H.steps[<<r, i>>])
  <2> DEFINE c == H.steps[<<r, i>>]
  <2>1. Stored(rows, Len(rows), r, i, c)
    BY <1>1, HistoryStores
  <2> HIDE DEF c
  <2>2. OpenModel(t, i) => \A n \in 1..Len(rows) : ~UseAt(rows, n, r, i)
    BY DEF RowsHold, RowsFit, RowFits, Placed, FollowsUse, Followed, UseAt
  <2>3. OpenModel(t, i) => c.text = <<>>
    BY <2>1, <2>2 DEF Stored, StoredText
  <2>4. TextFits(TRUE, t, rows, r, i, c)
    BY <2>1, <2>3 DEF Stored, StoredText, TextFits
  <2>5. ASSUME NEW k \in 1..MaxTools
        PROVE  CardFits(t, rows, r, i, c, k)
    <3>1. StoredCard(rows, Len(rows), r, i, c, k)
      BY <2>1 DEF Stored
    <3>2. \A n \in 1..Len(rows) : ResultAt(rows, n, r, i) =>
            c.cards[k] = <<>> \/ (k \in DOMAIN rows[n].tools /\ c.cards[k] = <<rows[n].tools[k]>>)
      BY <3>1 DEF StoredCard
    <3>3. ASSUME \A n \in 1..Len(rows) : ~ResultAt(rows, n, r, i), ~OpenTools(t, i)
          PROVE  c.cards[k] = <<>>
      <4>1. CASE \A n \in 1..Len(rows) : ~UseAt(rows, n, r, i)
        BY <3>1, <4>1 DEF StoredCard
      <4>2. CASE \E n \in 1..Len(rows) : UseAt(rows, n, r, i)
        <5>1. PICK n \in 1..Len(rows) : UseAt(rows, n, r, i)
          BY <4>2
        <5>2. rows[n].tools = <<>>
          BY <1>1, <3>3, <5>1 DEF RowsHold, RowsFit, RowFits, Placed, FollowsUse, Followed, UseAt, ResultAt
        <5>3. k \notin DOMAIN rows[n].tools
          BY <5>2
        <5> QED BY <3>1, <3>3, <5>1, <5>3 DEF StoredCard
      <4> QED BY <4>1, <4>2
    <3>4. ASSUME OpenTools(t, i)
          PROVE  IF k \in DOMAIN t.tools THEN UnderWay(c, k) /\ t.tools[k] = "running" ELSE c.cards[k] = <<>>
      <4>1. PICK n \in 1..Len(rows) : UseAt(rows, n, r, i) /\ Len(rows[n].tools) = Len(t.tools)
        BY <3>4 DEF RowsHold, RowsFit, OpenTools
      <4>2. \A m \in 1..Len(rows) : ~ResultAt(rows, m, r, i)
        BY <3>4 DEF RowsHold, RowsFit, RowFits, Placed, FollowsUse, Followed, ResultAt, OpenTools
      <4>3. IF k \in DOMAIN rows[n].tools THEN UnderWay(c, k) ELSE c.cards[k] = <<>>
        BY <3>1, <4>1, <4>2 DEF StoredCard
      <4>4. \A j \in DOMAIN t.tools : t.tools[j] = "running"
        BY <3>4 DEF InTools, OpenTools
      <4>5. k \in DOMAIN t.tools <=> k \in DOMAIN rows[n].tools
        <5>1. rows[n].tools \in Seq(CallStates) /\ t.tools \in Seq(CallStates)
          <6>1. rows[n] \in RowType
            BY DEF RowsHold
          <6> QED BY <6>1 DEF RowType
        <5> HIDE DEF t
        <5> QED BY <4>1, <5>1
      <4> QED BY <4>3, <4>4, <4>5
    <3> QED BY <3>2, <3>3, <3>4 DEF CardFits
  <2> QED BY <2>4, <2>5 DEF CellFits, c
<1> HIDE DEF H
<1> QED BY <1>1 DEF RunFits, H

(* What a run that finished has to be shown is what the history shows.     *)
LEMMA FinishedSame ==
    ASSUME RowsHold, NEW r \in Turns, turns[r].state = "finished", NEW closed, NEW v \in Views,
           RunFits(closed, turns[r], rows, r, v)
    PROVE  SameAsStored(v, r)
<1> DEFINE S == Replayed(HistoryView)
<1>1. HistoryView \in Views /\ Len(rows) \in Nat
  BY HistoryStores DEF RowsHold
<1>2. \A p \in StepIds : S.steps[p] = SettledStep(HistoryView.steps[p])
  <2>1. \A p \in StepIds : Settled(HistoryView, Turns).steps[p] = SettledStep(HistoryView.steps[p])
    BY <1>1, SettledType, StepIdsAre
  <2> QED BY <1>1, <2>1, SettledType DEF Replayed, Views
<1>3. ASSUME NEW i \in StepsOf(r)
      PROVE  /\ v.steps[<<r, i>>].text = S.steps[<<r, i>>].text
             /\ \A k \in 1..MaxTools : v.steps[<<r, i>>].cards[k] \in {<<>>, S.steps[<<r, i>>].cards[k]}
  <2> DEFINE c == HistoryView.steps[<<r, i>>]
             d == S.steps[<<r, i>>]
             a == v.steps[<<r, i>>]
  <2>1. <<r, i>> \in StepIds /\ c \in Cell
    BY <1>1, StepIdsAre DEF Views, Cell
  <2>2. Stored(rows, Len(rows), r, i, c)
    BY HistoryStores DEF Claimed
  <2>3. Stored(rows, Len(rows), r, i, d)
    <3>1. \A m \in 1..Len(rows) : ResultAt(rows, m, r, i) => rows[m].tools \in Seq(ResultStates)
      BY DEF RowsHold, RowsFit, RowFits, Placed, FollowsUse, Followed, ResultAt, ResultStates
    <3>2. d = SettledStep(c) /\ Len(rows) \in 0..Len(rows)
      BY <1>1, <1>2, <2>1
    <3> HIDE DEF c, d
    <3> QED BY <2>1, <2>2, <3>1, <3>2, SettledStored DEF RowsHold
  <2>4. CellFits(closed, turns[r], rows, r, i, a)
    BY DEF RunFits, Claimed
  <2> HIDE DEF c, d, a
  <2>5. ~OpenModel(turns[r], i) /\ ~OpenTools(turns[r], i)
    BY DEF OpenModel, OpenTools
  <2>6. a.text = d.text
    BY <2>3, <2>4, <2>5 DEF Stored, StoredText, CellFits, TextFits
  <2>7. ASSUME NEW k \in 1..MaxTools PROVE a.cards[k] \in {<<>>, d.cards[k]}
    <3>1. StoredCard(rows, Len(rows), r, i, d, k) /\ CardFits(turns[r], rows, r, i, a, k)
      BY <2>3, <2>4 DEF Stored, CellFits
    <3> QED BY <2>5, <3>1 DEF StoredCard, CardFits
  <2> QED BY <2>6, <2>7 DEF a, d
<1> QED BY <1>3 DEF SameAsStored

LEMMA RowsHolds ==
    ASSUME ViewTypeOK, RowsFit(turns, rows)
    PROVE  RowsHold
<1>1. rows \in Seq(RowType)
  BY DEF ViewTypeOK, RowType
<1>2. \A r \in Turns : turns[r].step \in StepsOf(r)
  BY DEF ViewTypeOK
<1> QED BY <1>1, <1>2 DEF RowsHold

LEMMA ResultsFit ==
    ASSUME RowsHold, NEW r, NEW i
    PROVE  \A n \in 1..Len(rows) : ResultAt(rows, n, r, i) =>
              \A k \in DOMAIN rows[n].tools : rows[n].tools[k] \in {"success", "error", "cancelled"}
<1>1. \A n \in 1..Len(rows) : ResultAt(rows, n, r, i) => rows[n].tools \in Seq({"success", "error", "cancelled"})
  BY DEF RowsHold, RowsFit, RowFits, Placed, FollowsUse, Followed, ResultAt
<1> QED BY <1>1

(* Replaying a list of events changes no claim.                            *)
LEMMA ReplayedFits ==
    ASSUME RowsHold, NEW r \in Turns, NEW closed, NEW v \in Views
    PROVE  /\ Replayed(v) \in Views
           /\ RunFits(closed, turns[r], rows, r, v) => RunFits(closed, turns[r], rows, r, Replayed(v))
<1>1. \A p \in StepIds : Settled(v, Turns).steps[p] = SettledStep(v.steps[p])
  BY SettledType, StepIdsAre
<1>2. Replayed(v) \in Views /\ \A p \in StepIds : Replayed(v).steps[p] = SettledStep(v.steps[p])
  BY <1>1, SettledType DEF Replayed, Views
<1>3. ASSUME RunFits(closed, turns[r], rows, r, v), turns[r].state \in Claimed, NEW i \in StepsOf(r)
      PROVE  CellFits(closed, turns[r], rows, r, i, Replayed(v).steps[<<r, i>>])
  <2>1. <<r, i>> \in StepIds /\ v.steps[<<r, i>>] \in Cell /\ CellFits(closed, turns[r], rows, r, i, v.steps[<<r, i>>])
    BY <1>3, StepIdsAre DEF Views, Cell, RunFits
  <2>2. CellFits(closed, turns[r], rows, r, i, SettledStep(v.steps[<<r, i>>]))
    BY <2>1, ResultsFit, SettledFits
  <2> QED BY <1>2, <2>1, <2>2
<1> QED BY <1>2, <1>3 DEF RunFits

LEMMA InvShows == ViewInv => ShownAsStored
<1> SUFFICES ASSUME ViewInv, NEW r \in ToSet(ended), turns[r].state = "finished"
             PROVE  /\ r \notin torn.shown => SameAsStored(shown, r)
                    /\ r \notin torn.kept => SameAsStored(Replayed(kept), r)
  BY DEF ShownAsStored
<1>1. RowsHold
  BY RowsHolds DEF ViewInv
<1>2. r \in Turns /\ shown \in Views /\ kept \in Views
  BY DEF ViewInv, ViewTypeOK, ToSet
<1>3. r \notin torn.shown => SameAsStored(shown, r)
  BY <1>1, <1>2, FinishedSame DEF ViewInv, Claims
<1>4. r \notin torn.kept => RunFits(TRUE, turns[r], rows, r, Replayed(kept)) /\ Replayed(kept) \in Views
  BY <1>1, <1>2, ReplayedFits DEF ViewInv, Claims
<1>5. r \notin torn.kept => SameAsStored(Replayed(kept), r)
  BY <1>1, <1>2, <1>4, FinishedSame
<1> QED BY <1>3, <1>5

-----------------------------------------------------------------------------
(* A run moves, and appends a row or none.                                 *)
Appended(rr, rr2) ==
    /\ Len(rr) \in Nat /\ Len(rr2) \in {Len(rr), Len(rr) + 1}
    /\ \A n \in 1..Len(rr) : rr2[n] = rr[n]

OthersStay(tt, tt2, r) == \A q \in Turns : q # r => tt2[q] = tt[q]

LEMMA RowsAdvance ==
    ASSUME NEW tt, NEW tt2, NEW rr, NEW rr2, NEW r \in Turns, RowsFit(tt, rr), Appended(rr, rr2),
           OthersStay(tt, tt2, r), \A n \in 1..Len(rr2) : rr2[n].run \in Turns,
           \A n \in 1..Len(rr) : rr[n].run = r => RowFits(tt2, rr2, n),
           \A n \in 1..Len(rr2) : n > Len(rr) =>
              /\ RowFits(tt2, rr2, n) /\ rr2[n].run = r
              /\ rr2[n].kind = "assistant" => \A m \in 1..Len(rr) : ~UseAt(rr, m, r, rr2[n].step)
              /\ rr2[n].kind = "tool_result" => \A m \in 1..Len(rr) : ~ResultAt(rr, m, r, rr2[n].step),
           OpenTools(tt2[r], tt2[r].step) =>
              \E n \in 1..Len(rr2) : UseAt(rr2, n, r, tt2[r].step) /\ Len(rr2[n].tools) = Len(tt2[r].tools)
    PROVE  RowsFit(tt2, rr2)
<1>1. /\ \A n \in 1..Len(rr2) : n \in 1..Len(rr) \/ n = Len(rr) + 1
      /\ \A n \in 1..Len(rr) : n \in 1..Len(rr2) /\ rr2[n] = rr[n]
      /\ Len(rr) \in Nat /\ \A n \in 1..Len(rr) : ~(n > Len(rr))
  BY DEF Appended
<1>2. /\ \A n \in 1..Len(rr) : \A q, i : UseAt(rr2, n, q, i) <=> UseAt(rr, n, q, i)
      /\ \A n \in 1..Len(rr) : \A q, i : ResultAt(rr2, n, q, i) <=> ResultAt(rr, n, q, i)
  BY <1>1 DEF UseAt, ResultAt
<1>3. ASSUME NEW n \in 1..Len(rr2)
      PROVE  RowFits(tt2, rr2, n)
  <2>1. CASE n \in 1..Len(rr) /\ rr2[n].run # r
    <3>1. RowFits(tt, rr, n) /\ rr2[n] = rr[n] /\ tt2[rr2[n].run] = tt[rr[n].run]
      BY <1>1, <2>1 DEF RowsFit, OthersStay
    <3>2. \A m \in 1..(n - 1) : m \in 1..Len(rr)
      BY <1>1, <2>1
    <3>3. ASSUME NEW q, NEW i, \E m \in 1..Len(rr) : ResultAt(rr, m, q, i)
          PROVE  \E m \in 1..Len(rr2) : ResultAt(rr2, m, q, i)
      BY <1>1, <1>2, <3>3
    <3>5. Placed(tt2[rr2[n].run], rr2[n])
      BY <3>1 DEF RowFits
    <3>6. FollowsUse(rr2, n)
      <4>1. FollowsUse(rr, n)
        BY <3>1 DEF RowFits
      <4>2. SUFFICES ASSUME rr[n].kind = "tool_result"
                     PROVE  /\ rr[n].tools \in Seq({"success", "error", "cancelled"})
                            /\ \E m \in 1..(n - 1) :
                                 UseAt(rr2, m, rr[n].run, rr[n].step) /\ Len(rr2[m].tools) = Len(rr[n].tools)
        BY <3>1 DEF FollowsUse
      <4>3. PICK m \in 1..(n - 1) : UseAt(rr, m, rr[n].run, rr[n].step) /\ Len(rr[m].tools) = Len(rr[n].tools)
        BY <4>1, <4>2 DEF FollowsUse
      <4>4. UseAt(rr2, m, rr[n].run, rr[n].step) /\ rr2[m] = rr[m]
        BY <1>1, <3>2, <4>3 DEF UseAt
      <4> QED BY <4>1, <4>2, <4>3, <4>4 DEF FollowsUse
    <3>7. Followed(tt2[rr2[n].run], rr2, rr2[n])
      BY <3>1, <3>3 DEF RowFits, Followed
    <3> QED BY <3>5, <3>6, <3>7 DEF RowFits
  <2>2. CASE n \in 1..Len(rr) /\ rr2[n].run = r
    BY <1>1, <2>2
  <2>3. CASE n \notin 1..Len(rr)
    BY <1>1, <2>3
  <2> QED BY <2>1, <2>2, <2>3
<1>4. ASSUME NEW n \in 1..Len(rr2), NEW m \in 1..Len(rr2), NEW q \in Turns, NEW i \in StepsOf(q)
      PROVE  /\ UseAt(rr2, n, q, i) /\ UseAt(rr2, m, q, i) => n = m
             /\ ResultAt(rr2, n, q, i) /\ ResultAt(rr2, m, q, i) => n = m
  <2>1. CASE n \in 1..Len(rr) /\ m \in 1..Len(rr)
    BY <1>2, <2>1 DEF RowsFit
  <2>2. CASE n \notin 1..Len(rr) /\ m \in 1..Len(rr)
    <3>1. n > Len(rr)
      BY <1>1, <2>2
    <3>2. /\ rr2[n].run = r
          /\ rr2[n].kind = "assistant" => \A l \in 1..Len(rr) : ~UseAt(rr, l, r, rr2[n].step)
          /\ rr2[n].kind = "tool_result" => \A l \in 1..Len(rr) : ~ResultAt(rr, l, r, rr2[n].step)
      BY <3>1
    <3>3. ~(UseAt(rr2, n, q, i) /\ UseAt(rr2, m, q, i))
      BY <1>2, <2>2, <3>2 DEF UseAt
    <3>4. ~(ResultAt(rr2, n, q, i) /\ ResultAt(rr2, m, q, i))
      BY <1>2, <2>2, <3>2 DEF ResultAt
    <3> QED BY <3>3, <3>4
  <2>3. CASE n \in 1..Len(rr) /\ m \notin 1..Len(rr)
    <3>1. m > Len(rr)
      BY <1>1, <2>3
    <3>2. /\ rr2[m].run = r
          /\ rr2[m].kind = "assistant" => \A l \in 1..Len(rr) : ~UseAt(rr, l, r, rr2[m].step)
          /\ rr2[m].kind = "tool_result" => \A l \in 1..Len(rr) : ~ResultAt(rr, l, r, rr2[m].step)
      BY <3>1
    <3>3. ~(UseAt(rr2, n, q, i) /\ UseAt(rr2, m, q, i))
      BY <1>2, <2>3, <3>2 DEF UseAt
    <3>4. ~(ResultAt(rr2, n, q, i) /\ ResultAt(rr2, m, q, i))
      BY <1>2, <2>3, <3>2 DEF ResultAt
    <3> QED BY <3>3, <3>4
  <2>4. CASE n \notin 1..Len(rr) /\ m \notin 1..Len(rr)
    BY <1>1, <2>4
  <2> QED BY <2>1, <2>2, <2>3, <2>4
<1>5. ASSUME NEW q \in Turns, OpenTools(tt2[q], tt2[q].step)
      PROVE  \E n \in 1..Len(rr2) : UseAt(rr2, n, q, tt2[q].step) /\ Len(rr2[n].tools) = Len(tt2[q].tools)
  <2>1. CASE q = r
    BY <1>5, <2>1
  <2>2. CASE q # r
    <3>1. tt2[q] = tt[q]
      BY <2>2 DEF OthersStay
    <3>2. PICK n \in 1..Len(rr) : UseAt(rr, n, q, tt[q].step) /\ Len(rr[n].tools) = Len(tt[q].tools)
      BY <1>5, <3>1 DEF RowsFit
    <3> QED BY <1>1, <1>2, <3>1, <3>2
  <2> QED BY <2>1, <2>2
<1> QED BY <1>3, <1>4, <1>5 DEF RowsFit

(* No row.                                                                 *)
LEMMA RowsStay ==
    ASSUME NEW tt, NEW tt2, NEW rr \in Seq(RowType), NEW r \in Turns, RowsFit(tt, rr), OthersStay(tt, tt2, r),
           tt[r].state # "none" => tt2[r].state # "none" /\ tt2[r].step = tt[r].step,
           tt[r].state # "none" => (tt2[r].state \in Claimed => tt[r].state \in Claimed),
           tt[r].state # "none" => \A i : OpenModel(tt2[r], i) => OpenModel(tt[r], i),
           tt2[r].state = "running" => tt[r].state \in {"none", "running"},
           \A i : OpenTools(tt[r], i) /\ tt2[r].state \in Claimed => OpenTools(tt2[r], i),
           \A i : OpenTools(tt2[r], i) => OpenTools(tt[r], i) /\ Len(tt2[r].tools) = Len(tt[r].tools)
    PROVE  RowsFit(tt2, rr)
<1>1. Appended(rr, rr)
  BY DEF Appended
<1>2. \A n \in 1..Len(rr) : rr[n].run \in Turns /\ ~(n > Len(rr))
  <2>1. \A n \in 1..Len(rr) : rr[n] \in RowType /\ ~(n > Len(rr))
    OBVIOUS
  <2> QED BY <2>1 DEF RowType
<1>3. ASSUME NEW n \in 1..Len(rr), rr[n].run = r
      PROVE  RowFits(tt2, rr, n)
  <2>1. RowFits(tt, rr, n) /\ tt[r].state # "none"
    BY <1>3 DEF RowsFit, RowFits, Placed, FollowsUse, Followed
  <2> QED BY <1>3, <2>1 DEF RowFits, Placed, FollowsUse, Followed
<1>4. OpenTools(tt2[r], tt2[r].step) => \E n \in 1..Len(rr) :
          UseAt(rr, n, r, tt2[r].step) /\ Len(rr[n].tools) = Len(tt2[r].tools)
  <2>1. OpenTools(tt2[r], tt2[r].step) => OpenTools(tt[r], tt2[r].step) /\ tt2[r].step = tt[r].step
    BY DEF OpenTools
  <2> QED BY <2>1 DEF RowsFit
<1> QED BY <1>1, <1>2, <1>3, <1>4, RowsAdvance

LEMMA RowAppended ==
    ASSUME NEW rr \in Seq(RowType), NEW w \in RowType
    PROVE  /\ Append(rr, w) \in Seq(RowType) /\ Appended(rr, Append(rr, w)) /\ Append(rr, w)[Len(rr) + 1] = w
           /\ Len(Append(rr, w)) = Len(rr) + 1 /\ Len(rr) \in Nat
           /\ \A n \in 1..Len(Append(rr, w)) : Append(rr, w)[n].run \in Turns
           /\ \A n \in 1..Len(Append(rr, w)) : n > Len(rr) => n = Len(rr) + 1
<1>1. /\ Append(rr, w) \in Seq(RowType) /\ Append(rr, w)[Len(rr) + 1] = w
      /\ Len(Append(rr, w)) = Len(rr) + 1 /\ Len(rr) \in Nat
      /\ \A n \in 1..Len(rr) : Append(rr, w)[n] = rr[n]
  OBVIOUS
<1>2. \A n \in 1..Len(Append(rr, w)) : Append(rr, w)[n] \in RowType
  BY <1>1
<1>3. \A n \in 1..Len(Append(rr, w)) : Append(rr, w)[n].run \in Turns
  BY <1>2 DEF RowType
<1>4. Appended(rr, Append(rr, w))
  BY <1>1 DEF Appended
<1>5. \A n \in 1..Len(Append(rr, w)) : n > Len(rr) => n = Len(rr) + 1
  BY <1>1
<1> QED BY <1>1, <1>3, <1>4, <1>5

(* The first row of a run.                                                 *)
LEMMA RowsBegin ==
    ASSUME NEW tt, NEW tt2, NEW rr \in Seq(RowType), NEW r \in Turns, RowsFit(tt, rr), OthersStay(tt, tt2, r),
           NEW w \in RowType, w.run = r, w.kind = "user_input", w.tools = <<>>, w.step = 0,
           tt[r].state = "none", tt2[r].state = "running", tt2[r].stage = "model", tt2[r].step = 0
    PROVE  RowsFit(tt2, Append(rr, w))
<1>1. \A n \in 1..Len(rr) : rr[n].run # r
  BY DEF RowsFit, RowFits, Placed, FollowsUse, Followed
<1>2. RowFits(tt2, Append(rr, w), Len(rr) + 1)
  BY RowAppended DEF RowFits, Placed, FollowsUse, Followed
<1>3. ~OpenTools(tt2[r], tt2[r].step)
  BY DEF OpenTools
<1>4. w.kind # "assistant" /\ w.kind # "tool_result"
  OBVIOUS
<1> QED BY <1>1, <1>2, <1>3, <1>4, RowAppended, RowsAdvance

(* The row of a round; its calls follow, unless it has none.               *)
LEMMA RowsSpoken ==
    ASSUME NEW tt, NEW tt2, NEW rr \in Seq(RowType), NEW r \in Turns, RowsFit(tt, rr), OthersStay(tt, tt2, r),
           NEW w \in RowType, w.run = r, w.step = tt[r].step, OpenModel(tt[r], tt[r].step),
           tt[r].step \in Nat, tt2[r].step = tt[r].step, tt2[r].state # "none",
           \/ w.kind = "assistant_partial" /\ w.tools = <<>> /\ tt2[r].state \notin Claimed
           \/ w.kind = "assistant" /\ w.tools = <<>> /\ tt2[r].state # "running"
           \/ w.kind = "assistant" /\ OpenTools(tt2[r], tt2[r].step) /\ Len(w.tools) = Len(tt2[r].tools)
    PROVE  RowsFit(tt2, Append(rr, w))
<1> DEFINE s == tt[r].step
           rr2 == Append(rr, w)
<1>1. \A i : ~OpenModel(tt2[r], i) /\ (OpenTools(tt2[r], i) => i = s)
  BY DEF OpenModel, OpenTools, Claimed
<1>2. \A i : ~OpenTools(tt[r], i) /\ tt[r].state \in Claimed
  BY DEF OpenModel, OpenTools, Claimed
<1>3. \A m \in 1..Len(rr) : ~UseAt(rr, m, r, s)
  BY DEF RowsFit, RowFits, Placed, FollowsUse, Followed, UseAt
<1>4. tt[r].state = "running" /\ (tt2[r].state = "running" => OpenTools(tt2[r], s))
  BY DEF OpenModel, Claimed
<1>5. \A m \in 1..Len(rr) : m \in 1..Len(rr2) /\ rr2[m] = rr[m]
  BY RowAppended DEF Appended
<1>6. ASSUME NEW n \in 1..Len(rr), rr[n].run = r
      PROVE  RowFits(tt2, rr2, n)
  <2>1. RowFits(tt, rr, n) /\ rr2[n] = rr[n]
    BY <1>5 DEF RowsFit
  <2>2. \A m \in 1..(n - 1) : m \in 1..Len(rr)
    BY RowAppended
  <2>3. ASSUME NEW i, \E m \in 1..Len(rr) : ResultAt(rr, m, r, i)
        PROVE  \E m \in 1..Len(rr2) : ResultAt(rr2, m, r, i)
    BY <1>5, <2>3 DEF ResultAt
  <2>5. rr[n].kind # "assistant_partial"
    BY <1>2, <1>6, <2>1 DEF RowFits, Placed, FollowsUse, Followed
  <2> HIDE DEF rr2
  <2>6. Placed(tt2[r], rr[n])
    BY <1>1, <1>4, <1>6, <2>1, <2>5 DEF RowFits, Placed, OpenTools
  <2>7. FollowsUse(rr2, n)
    <3>1. FollowsUse(rr, n)
      BY <2>1 DEF RowFits
    <3>2. SUFFICES ASSUME rr[n].kind = "tool_result"
                   PROVE  /\ rr[n].tools \in Seq({"success", "error", "cancelled"})
                          /\ \E m \in 1..(n - 1) :
                               UseAt(rr2, m, rr[n].run, rr[n].step) /\ Len(rr2[m].tools) = Len(rr[n].tools)
      BY <2>1 DEF FollowsUse
    <3>3. PICK m \in 1..(n - 1) : UseAt(rr, m, rr[n].run, rr[n].step) /\ Len(rr[m].tools) = Len(rr[n].tools)
      BY <3>1, <3>2 DEF FollowsUse
    <3>4. UseAt(rr2, m, rr[n].run, rr[n].step) /\ rr2[m] = rr[m]
      BY <1>5, <2>2, <3>3 DEF UseAt
    <3> QED BY <3>1, <3>2, <3>3, <3>4 DEF FollowsUse
  <2>8. Followed(tt2[r], rr2, rr[n])
    BY <1>2, <1>4, <1>6, <2>1, <2>3 DEF RowFits, Followed
  <2> QED BY <1>6, <2>1, <2>6, <2>7, <2>8 DEF RowFits
<1>7. RowFits(tt2, rr2, Len(rr) + 1)
  <2>1. rr2[Len(rr) + 1] = w
    BY RowAppended
  <2>2. s \in 0..s
    OBVIOUS
  <2> HIDE DEF rr2
  <2> QED BY <1>1, <2>1, <2>2 DEF RowFits, Placed, FollowsUse, Followed, Claimed, OpenTools
<1>8. ASSUME OpenTools(tt2[r], tt2[r].step)
      PROVE  \E n \in 1..Len(rr2) : UseAt(rr2, n, r, tt2[r].step) /\ Len(rr2[n].tools) = Len(tt2[r].tools)
  <2>1. rr2[Len(rr) + 1] = w /\ Len(rr) + 1 \in 1..Len(rr2)
    BY RowAppended
  <2>2. w.kind = "assistant" /\ Len(w.tools) = Len(tt2[r].tools)
    BY <1>8 DEF OpenTools, Claimed
  <2> HIDE DEF rr2
  <2> QED BY <2>1, <2>2 DEF UseAt
<1>9. /\ w.kind # "tool_result" /\ rr2[Len(rr) + 1] = w
      /\ Appended(rr, rr2) /\ \A n \in 1..Len(rr2) : rr2[n].run \in Turns
      /\ \A n \in 1..Len(rr2) : n > Len(rr) => n = Len(rr) + 1
  BY RowAppended
<1> HIDE DEF rr2
<1>10. RowsFit(tt2, rr2)
  BY <1>3, <1>6, <1>7, <1>8, <1>9, RowsAdvance
<1> QED BY <1>10 DEF rr2

(* The row of the results of a round.                                      *)
LEMMA RowsResults ==
    ASSUME NEW tt, NEW tt2, NEW rr \in Seq(RowType), NEW r \in Turns, RowsFit(tt, rr), OthersStay(tt, tt2, r),
           NEW w \in RowType, w.run = r, w.step = tt[r].step, OpenTools(tt[r], tt[r].step),
           w.kind = "tool_result", w.tools \in Seq({"success", "error", "cancelled"}),
           Len(w.tools) = Len(tt[r].tools), tt[r].step \in Nat, tt2[r].state # "none",
           \/ tt2[r].state # "running" /\ tt2[r].step = tt[r].step
           \/ tt2[r].state = "running" /\ tt2[r].stage = "model" /\ tt2[r].step = tt[r].step + 1
    PROVE  RowsFit(tt2, Append(rr, w))
<1> DEFINE s == tt[r].step
           rr2 == Append(rr, w)
<1>1. \A i : (OpenModel(tt2[r], i) => i = s + 1) /\ ~OpenTools(tt2[r], i) /\ ~OpenModel(tt[r], i)
  BY DEF OpenModel, OpenTools
<1>2. tt[r].state = "running" /\ tt[r].state \in Claimed /\ \A i : OpenTools(tt[r], i) => i = s
  BY DEF OpenTools, Claimed
<1>3. \A m \in 1..Len(rr) : ~ResultAt(rr, m, r, s)
  BY <1>2 DEF RowsFit, RowFits, Placed, FollowsUse, Followed, ResultAt
<1>5. \A m \in 1..Len(rr) : m \in 1..Len(rr2) /\ rr2[m] = rr[m]
  BY RowAppended DEF Appended
<1>9. /\ rr2[Len(rr) + 1] = w /\ Len(rr) + 1 \in 1..Len(rr2) /\ Len(rr) \in Nat
      /\ Appended(rr, rr2) /\ \A n \in 1..Len(rr2) : rr2[n].run \in Turns
      /\ \A n \in 1..Len(rr2) : n > Len(rr) => n = Len(rr) + 1
  BY RowAppended
<1> HIDE DEF rr2
<1>10. ResultAt(rr2, Len(rr) + 1, r, s)
  BY <1>9 DEF ResultAt
<1>6. ASSUME NEW n \in 1..Len(rr), rr[n].run = r
      PROVE  RowFits(tt2, rr2, n)
  <2>1. RowFits(tt, rr, n) /\ rr2[n] = rr[n]
    BY <1>5 DEF RowsFit
  <2>2. \A m \in 1..(n - 1) : m \in 1..Len(rr)
    BY RowAppended
  <2>3. ASSUME NEW i, (\E m \in 1..Len(rr) : ResultAt(rr, m, r, i)) \/ i = s
        PROVE  \E m \in 1..Len(rr2) : ResultAt(rr2, m, r, i)
    BY <1>5, <1>9, <1>10, <2>3 DEF ResultAt
  <2>5. rr[n].kind # "assistant_partial" /\ rr[n].step \in 0..s
    BY <1>2, <1>6, <2>1 DEF RowFits, Placed, FollowsUse, Followed
  <2>6. rr[n].step \in 0..tt2[r].step /\ rr[n].step # s + 1
    BY <2>5
  <2>7. ~OpenModel(tt2[r], rr[n].step)
    BY <1>1, <2>6
  <2>8. ~OpenTools(tt[r], rr[n].step) \/ rr[n].step = s
    BY <1>2
  <2>9. rr[n].kind = "tool_result" /\ tt2[r].state = "running" => rr[n].step # tt2[r].step
    BY <2>6
  <2>10. Placed(tt2[r], rr[n])
    BY <1>6, <2>1, <2>5, <2>6, <2>7, <2>9 DEF RowFits, Placed
  <2>11. FollowsUse(rr2, n)
    <3>1. FollowsUse(rr, n)
      BY <2>1 DEF RowFits
    <3>2. SUFFICES ASSUME rr[n].kind = "tool_result"
                   PROVE  /\ rr[n].tools \in Seq({"success", "error", "cancelled"})
                          /\ \E m \in 1..(n - 1) :
                               UseAt(rr2, m, rr[n].run, rr[n].step) /\ Len(rr2[m].tools) = Len(rr[n].tools)
      BY <2>1 DEF FollowsUse
    <3>3. PICK m \in 1..(n - 1) : UseAt(rr, m, rr[n].run, rr[n].step) /\ Len(rr[m].tools) = Len(rr[n].tools)
      BY <3>1, <3>2 DEF FollowsUse
    <3>4. UseAt(rr2, m, rr[n].run, rr[n].step) /\ rr2[m] = rr[m]
      BY <1>5, <2>2, <3>3 DEF UseAt
    <3> QED BY <3>1, <3>2, <3>3, <3>4 DEF FollowsUse
  <2>12. Followed(tt2[r], rr2, rr[n])
    BY <1>2, <1>6, <2>1, <2>3, <2>8 DEF RowFits, Followed
  <2> QED BY <1>6, <2>1, <2>10, <2>11, <2>12 DEF RowFits
<1>7. RowFits(tt2, rr2, Len(rr) + 1)
  <2>1. PICK n \in 1..Len(rr) : UseAt(rr, n, r, s) /\ Len(rr[n].tools) = Len(tt[r].tools)
    BY DEF RowsFit
  <2>2. n \in 1..(Len(rr) + 1 - 1) /\ UseAt(rr2, n, r, s) /\ Len(rr2[n].tools) = Len(w.tools)
    BY <1>5, <1>9, <2>1 DEF UseAt
  <2>3. s \in 0..tt2[r].step /\ (tt2[r].state = "running" => s # tt2[r].step)
    OBVIOUS
  <2> QED BY <1>9, <2>2, <2>3 DEF RowFits, Placed, FollowsUse, Followed
<1>11. RowsFit(tt2, rr2)
  BY <1>1, <1>3, <1>6, <1>7, <1>9, RowsAdvance
<1> QED BY <1>11 DEF rr2

-----------------------------------------------------------------------------
(* What events do to the claims: those of run r in its step i0, the second *)
(* of which may be an end, which only settles.                             *)
Told(f) == IF f.type \in Ends THEN NoEvent ELSE f
AfterBoth(c, e, f) == After(After(c, e), Told(f))
Concerns(e, r, i0) == e.type \notin Ends \cup {"none"} => e.run = r /\ e.step = i0

LEMMA TwoReduced ==
    ASSUME NEW v \in Views, NEW e, NEW f, EventFits(e), EventFits(f), e.type \notin Ends,
           NEW r \in Turns, NEW i0 \in StepsOf(r), Concerns(e, r, i0), Concerns(f, r, i0)
    PROVE  /\ Reduced(v, e) \in Views /\ Reduced(Reduced(v, e), f) \in Views
           /\ \A p \in StepIds : \E x \in Cell :
                /\ v.steps[p] \in Cell /\ x = IF p = <<r, i0>> THEN AfterBoth(v.steps[p], e, f) ELSE v.steps[p]
                /\ Reduced(Reduced(v, e), f).steps[p] \in {x, SettledStep(x)}
<1> DEFINE u == Reduced(v, e)
           w == Reduced(u, f)
<1>1. u \in Views /\ w \in Views
  BY ReducedType
<1>2. ASSUME NEW p \in StepIds
      PROVE  \E x \in Cell :
                /\ v.steps[p] \in Cell /\ x = IF p = <<r, i0>> THEN AfterBoth(v.steps[p], e, f) ELSE v.steps[p]
                /\ w.steps[p] \in {x, SettledStep(x)}
  <2>1. v.steps[p] \in Cell /\ u.steps[p] \in Cell /\ w.steps[p] \in Cell
    BY <1>1 DEF Views, Cell
  <2>2. u.steps[p] = IF p = <<r, i0>> THEN After(v.steps[p], e) ELSE v.steps[p]
    BY CellAfter DEF Concerns, After
  <2> HIDE DEF u
  <2>3. CASE f.type \in Ends
    <3>1. w.steps[p] \in {u.steps[p], SettledStep(u.steps[p])}
      BY <1>1, <2>3, ReducedType
    <3>2. Told(f).type = "none"
      BY <2>3 DEF Told, NoEvent, Ev
    <3>3. AfterBoth(v.steps[p], e, f) = After(v.steps[p], e)
      BY <3>2 DEF AfterBoth, After
    <3> HIDE DEF w
    <3> QED BY <2>1, <2>2, <3>1, <3>3
  <2>4. CASE f.type \notin Ends
    <3>1. w.steps[p] = IF p = <<r, i0>> THEN After(u.steps[p], f) ELSE u.steps[p]
      BY <1>1, <2>4, CellAfter DEF Concerns, After
    <3>2. Told(f) = f
      BY <2>4 DEF Told
    <3> HIDE DEF w
    <3> QED BY <2>1, <2>2, <3>1, <3>2 DEF AfterBoth
  <2> QED BY <2>3, <2>4
<1> QED BY <1>1, <1>2

(* How the cells of the run that moves change with it.                     *)
Moves(closed, t, t2, rr, rr2, r, i0, e, f) ==
    t2.state \in Claimed =>
        /\ t.state \in Claimed
        /\ \A i \in StepsOf(r) : \A c \in Cell : CellFits(closed, t, rr, r, i, c) =>
              CellFits(closed, t2, rr2, r, i, IF i = i0 THEN AfterBoth(c, e, f) ELSE c)

(* Rows of other runs say nothing of a run.                                *)
LEMMA OtherRows ==
    ASSUME NEW closed, NEW t, NEW rr, NEW rr2, NEW q, NEW i, NEW c, Appended(rr, rr2),
           \A n \in 1..Len(rr2) : n > Len(rr) => ~UseAt(rr2, n, q, i) /\ ~ResultAt(rr2, n, q, i),
           CellFits(closed, t, rr, q, i, c)
    PROVE  CellFits(closed, t, rr2, q, i, c)
<1>1. /\ \A n \in 1..Len(rr2) : UseAt(rr2, n, q, i) => n \in 1..Len(rr) /\ UseAt(rr, n, q, i) /\ rr2[n] = rr[n]
      /\ \A n \in 1..Len(rr2) : ResultAt(rr2, n, q, i) => n \in 1..Len(rr) /\ ResultAt(rr, n, q, i) /\ rr2[n] = rr[n]
  <2>1. \A n \in 1..Len(rr2) : n > Len(rr) \/ n \in 1..Len(rr)
    BY DEF Appended
  <2> QED BY <2>1 DEF Appended, UseAt, ResultAt
<1>2. /\ \A n \in 1..Len(rr) : UseAt(rr, n, q, i) => n \in 1..Len(rr2) /\ UseAt(rr2, n, q, i)
      /\ \A n \in 1..Len(rr) : ResultAt(rr, n, q, i) => n \in 1..Len(rr2) /\ ResultAt(rr2, n, q, i)
  BY DEF Appended, UseAt, ResultAt
<1>3. TextFits(closed, t, rr2, q, i, c)
  BY <1>1, <1>2 DEF CellFits, TextFits
<1>4. ASSUME NEW k \in 1..MaxTools PROVE CardFits(t, rr2, q, i, c, k)
  <2>1. CardFits(t, rr, q, i, c, k)
    BY DEF CellFits
  <2> QED BY <1>1, <1>2, <2>1 DEF CardFits
<1> QED BY <1>3, <1>4 DEF CellFits

RunMoved(r) ==
    /\ RowsHold' /\ OthersStay(turns, turns', r) /\ Appended(rows, rows')
    /\ \A n \in 1..Len(rows') : n > Len(rows) => rows'[n].run = r

LEMMA AllFit ==
    ASSUME NEW closed, NEW v \in Views, NEW e, NEW f, EventFits(e), EventFits(f), e.type \notin Ends,
           NEW r \in Turns, NEW i0 \in StepsOf(r), Concerns(e, r, i0), Concerns(f, r, i0), RunMoved(r),
           Moves(closed, turns[r], turns'[r], rows, rows', r, i0, e, f),
           NEW q \in Turns, RunFits(closed, turns[q], rows, q, v)
    PROVE  RunFits(closed, turns'[q], rows', q, Reduced(Reduced(v, e), f))
<1> SUFFICES ASSUME turns'[q].state \in Claimed, NEW i \in StepsOf(q)
             PROVE  CellFits(closed, turns'[q], rows', q, i, Reduced(Reduced(v, e), f).steps[<<q, i>>])
  BY DEF RunFits
<1>1. <<q, i>> \in StepIds
  BY StepIdsAre
<1>2. PICK x \in Cell :
        /\ v.steps[<<q, i>>] \in Cell
        /\ x = IF <<q, i>> = <<r, i0>> THEN AfterBoth(v.steps[<<q, i>>], e, f) ELSE v.steps[<<q, i>>]
        /\ Reduced(Reduced(v, e), f).steps[<<q, i>>] \in {x, SettledStep(x)}
  <2>1. PICK p \in StepIds : p = <<q, i>>
    BY <1>1
  <2>2. \E x \in Cell :
           /\ v.steps[p] \in Cell /\ x = IF p = <<r, i0>> THEN AfterBoth(v.steps[p], e, f) ELSE v.steps[p]
           /\ Reduced(Reduced(v, e), f).steps[p] \in {x, SettledStep(x)}
    BY TwoReduced
  <2> QED BY <2>1, <2>2
<1>3. CellFits(closed, turns'[q], rows', q, i, x)
  <2>1. CASE q = r
    <3>1. turns[r].state \in Claimed
      BY <2>1 DEF Moves
    <3>2. CellFits(closed, turns[r], rows, r, i, v.steps[<<q, i>>])
      BY <2>1, <3>1 DEF RunFits
    <3>3. x = IF i = i0 THEN AfterBoth(v.steps[<<q, i>>], e, f) ELSE v.steps[<<q, i>>]
      BY <1>2, <2>1
    <3> QED BY <1>2, <2>1, <3>2, <3>3 DEF Moves
  <2>2. CASE q # r
    <3>1. x = v.steps[<<q, i>>] /\ turns'[q] = turns[q]
      BY <1>2, <2>2 DEF RunMoved, OthersStay
    <3>2. CellFits(closed, turns[q], rows, q, i, x)
      BY <3>1 DEF RunFits
    <3>3. \A n \in 1..Len(rows') : n > Len(rows) => ~UseAt(rows', n, q, i) /\ ~ResultAt(rows', n, q, i)
      BY <2>2 DEF RunMoved, UseAt, ResultAt
    <3> QED BY <3>1, <3>2, <3>3, OtherRows DEF RunMoved
  <2> QED BY <2>1, <2>2
<1>4. \A n \in 1..Len(rows') : ResultAt(rows', n, q, i) =>
         \A k \in DOMAIN rows'[n].tools : rows'[n].tools[k] \in {"success", "error", "cancelled"}
  <2>1. \A n \in 1..Len(rows') : ResultAt(rows', n, q, i) => rows'[n].tools \in Seq({"success", "error", "cancelled"})
    BY DEF RunMoved, RowsHold, RowsFit, RowFits, FollowsUse, ResultAt
  <2> QED BY <2>1
<1>5. CellFits(closed, turns'[q], rows', q, i, SettledStep(x))
  BY <1>3, <1>4, SettledFits
<1> QED BY <1>2, <1>3, <1>5

LEMMA NothingReduced ==
    EventFits(NoEvent) /\ NoEvent.type = "none" /\ \A v : Reduced(v, NoEvent) = v
  BY DEF EventFits, NoEvent, Ev, Reduced

(* A step that the client hears.                                           *)
LEMMA HeardClaims ==
    ASSUME ViewTypeOK, Claims, NEW e, NEW f, EventFits(e), EventFits(f), e.type \notin Ends,
           NEW r \in Turns, NEW i0 \in StepsOf(r), Concerns(e, r, i0), Concerns(f, r, i0), RunMoved(r), Heard(e, f),
           Moves(FALSE, turns[r], turns'[r], rows, rows', r, i0, e, f),
           Moves(TRUE, turns[r], turns'[r], rows, rows', r, i0, Assembled(e), Assembled(f)),
           r \notin News(e) \cup News(f) => Moves(TRUE, turns[r], turns'[r], rows, rows', r, i0, NoEvent, NoEvent)
    PROVE  Claims'
<1>1. /\ EventFits(Assembled(e)) /\ EventFits(Assembled(f)) /\ Assembled(e).type \notin Ends
      /\ Concerns(Assembled(e), r, i0) /\ Concerns(Assembled(f), r, i0) /\ Concerns(NoEvent, r, i0)
      /\ NoEvent.type \notin Ends
  BY NothingReduced DEF Assembled, Concerns, NoEvent, Ev, Ends
<1>2. shown \in Views /\ kept \in Views /\ \A s \in Turns : syncs[s].view \in Views
  BY DEF ViewTypeOK
<1>3. torn' = torn /\ shown' = Reduced(Reduced(shown, e), f)
      /\ kept' = Reduced(Reduced(kept, Assembled(e)), Assembled(f))
  BY DEF Heard
<1>4. ASSUME NEW q \in Turns \ torn'.shown PROVE RunFits(FALSE, turns'[q], rows', q, shown')
  <2>1. RunFits(FALSE, turns[q], rows, q, shown)
    BY <1>3, <1>4 DEF Claims
  <2> QED BY <1>2, <1>3, <2>1, AllFit
<1>5. ASSUME NEW q \in Turns \ torn'.kept PROVE RunFits(TRUE, turns'[q], rows', q, kept')
  <2>1. RunFits(TRUE, turns[q], rows, q, kept)
    BY <1>3, <1>5 DEF Claims
  <2> QED BY <1>1, <1>2, <1>3, <2>1, AllFit
<1>6. ASSUME NEW s \in Turns, syncs'[s].stage \in OnItsWay, NEW q \in Turns \ syncs'[s].lacks
      PROVE  RunFits(TRUE, turns'[q], rows', q, syncs'[s].view)
  <2>1. /\ syncs[s].stage \in OnItsWay
        /\ syncs'[s] = [syncs[s] EXCEPT !.lacks = @ \cup News(e) \cup News(f)]
    BY <1>6 DEF Heard, OnItsWay, NoSync
  <2>2. syncs[s] \in [stage : {"none", "asked", "read", "answered", "reads"}, version : Nat,
                      view : Views, lacks : SUBSET Turns]
    BY DEF ViewTypeOK
  <2>3. syncs'[s].lacks = syncs[s].lacks \cup News(e) \cup News(f) /\ syncs'[s].view = syncs[s].view
    BY <2>1, <2>2
  <2>4. RunFits(TRUE, turns[q], rows, q, syncs[s].view)
    BY <2>1, <2>3 DEF Claims
  <2>5. CASE q = r
    <3>1. Moves(TRUE, turns[r], turns'[r], rows, rows', r, i0, NoEvent, NoEvent)
      BY <1>6, <2>3, <2>5
    <3>2. RunFits(TRUE, turns'[q], rows', q, Reduced(Reduced(syncs[s].view, NoEvent), NoEvent))
      BY <1>1, <1>2, <2>4, <3>1, AllFit, NothingReduced
    <3> QED BY <2>3, <3>2, NothingReduced
  <2>6. CASE q # r
    <3>1. turns'[q] = turns[q] /\ Appended(rows, rows')
      BY <2>6 DEF RunMoved, OthersStay
    <3>2. ASSUME NEW i \in StepsOf(q), turns[q].state \in Claimed
          PROVE  CellFits(TRUE, turns'[q], rows', q, i, syncs'[s].view.steps[<<q, i>>])
      <4>1. CellFits(TRUE, turns[q], rows, q, i, syncs[s].view.steps[<<q, i>>])
        BY <2>4, <3>2 DEF RunFits
      <4>2. \A n \in 1..Len(rows') : n > Len(rows) => ~UseAt(rows', n, q, i) /\ ~ResultAt(rows', n, q, i)
        BY <2>6 DEF RunMoved, UseAt, ResultAt
      <4> QED BY <2>3, <3>1, <4>1, <4>2, OtherRows
    <3> QED BY <3>1, <3>2 DEF RunFits
  <2> QED BY <2>5, <2>6
<1> QED BY <1>4, <1>5, <1>6 DEF Claims

(* A step that changes no list of events.                                  *)
LEMMA SilentClaims ==
    ASSUME ViewTypeOK, Claims, NEW r \in Turns, NEW i0 \in StepsOf(r), RunMoved(r),
           Moves(TRUE, turns[r], turns'[r], rows, rows', r, i0, NoEvent, NoEvent),
           UNCHANGED <<kept, syncs>>, torn'.kept = torn.kept,
           \A q \in Turns \ torn'.shown : RunFits(FALSE, turns'[q], rows', q, shown')
    PROVE  Claims'
<1>1. Concerns(NoEvent, r, i0) /\ NoEvent.type \notin Ends
  BY DEF Concerns, NoEvent, Ev, Ends
<1>2. kept \in Views /\ \A s \in Turns : syncs[s].view \in Views
  BY DEF ViewTypeOK
<1>3. \A q \in Turns, v \in Views : RunFits(TRUE, turns[q], rows, q, v) => RunFits(TRUE, turns'[q], rows', q, v)
  BY <1>1, AllFit, NothingReduced
<1> QED BY <1>2, <1>3 DEF Claims

-----------------------------------------------------------------------------
(* Types, in the parts that a step changes together.                       *)
TurnType == [state : {"none", "running"} \cup Terminal, cut : BOOLEAN, step : Nat, stage : {"model", "tools"},
             attempt : 1..(MaxTries + 1), text : Seq(Nat), tools : Seq(CallStates)]
SyncType == [stage : {"none", "asked", "read", "answered", "reads"}, version : Nat, view : Views, lacks : SUBSET Turns]

TurnOK(r, t) == t \in TurnType /\ t.step \in StepsOf(r) /\ Len(t.tools) <= MaxTools /\ TurnFits(t)
SeenOK ==
    /\ shown \in Views /\ kept \in Views /\ ended \in Seq(Turns)
    /\ syncs \in [Turns -> SyncType]
    /\ torn \in [shown : SUBSET Turns, kept : SUBSET Turns]

TurnsOK == turns \in [Turns -> TurnType] /\ \A r \in Turns : TurnOK(r, turns[r])

LEMMA InvParts == ViewInv <=> TurnsOK /\ RowsHold /\ SeenOK /\ Claims
<1>1. ViewTypeOK <=> /\ turns \in [Turns -> TurnType]
                     /\ \A r \in Turns : turns[r].step \in StepsOf(r) /\ Len(turns[r].tools) <= MaxTools
                     /\ rows \in Seq(RowType) /\ SeenOK
  BY DEF ViewTypeOK, TurnType, RowType, SeenOK, SyncType
<1>2. ViewInv <=> ViewTypeOK /\ (\A r \in Turns : TurnFits(turns[r])) /\ RowsFit(turns, rows) /\ Claims
  BY DEF ViewInv
<1>3. turns \in [Turns -> TurnType] => \A r \in Turns : turns[r] \in TurnType
  OBVIOUS
<1>4. RowsHold <=> rows \in Seq(RowType) /\ RowsFit(turns, rows) /\ \A r \in Turns : turns[r].step \in StepsOf(r)
  BY DEF RowsHold
<1> QED BY <1>1, <1>2, <1>3, <1>4 DEF TurnOK, TurnsOK

LEMMA LatestType == Latest \in Nat
<1>1. IsFiniteSet(Turns)
  BY ViewConstants, FS_Interval DEF Turns
<1>2. {r \in Turns : turns[r].state # "none" /\ ~IsSub(r)} \subseteq Turns
  OBVIOUS
<1> QED BY <1>1, <1>2, FS_Subset, FS_CardinalityType DEF Latest

LEMMA NoSyncType == NoSync \in SyncType
  BY NothingShownType DEF NoSync, SyncType

LEMMA HeardTypes ==
    ASSUME SeenOK, NEW e, NEW f, EventFits(e), EventFits(f), Heard(e, f)
    PROVE  SeenOK'
<1>1. EventFits(Assembled(e)) /\ EventFits(Assembled(f))
  BY NothingReduced DEF Assembled
<1>2. shown' \in Views /\ kept' \in Views
  BY <1>1, ReducedType DEF Heard, SeenOK
<1>3. ended' \in Seq(Turns)
  BY DEF Heard, SeenOK, EventFits, Ends
<1>4. News(e) \subseteq Turns /\ News(f) \subseteq Turns
  BY DEF News, EventFits, Starts, Stops
<1>5. syncs' \in [Turns -> SyncType]
  <2>1. ASSUME NEW r \in Turns, NEW b \in {"answered", "asked"}
        PROVE  /\ [NoSync EXCEPT !.stage = b, !.version = Latest] \in SyncType
               /\ [syncs[r] EXCEPT !.lacks = @ \cup News(e) \cup News(f)] \in SyncType
               /\ syncs[r] \in SyncType
    BY <1>4, LatestType, NoSyncType DEF SeenOK, SyncType
  <2> QED BY <2>1 DEF Heard
<1>6. torn' \in [shown : SUBSET Turns, kept : SUBSET Turns]
  BY DEF Heard, SeenOK
<1> QED BY <1>2, <1>3, <1>5, <1>6 DEF SeenOK

(* A run moves, appends a row or none, and the client hears of it.         *)
LEMMA TurnMoves ==
    ASSUME ViewInv, NEW r \in Turns, NEW t2, turns' = [turns EXCEPT ![r] = t2], TurnOK(r, t2),
           rows' \in Seq(RowType), RowsFit(turns', rows'), Appended(rows, rows'),
           \A n \in 1..Len(rows') : n > Len(rows) => rows'[n].run = r
    PROVE  /\ RunMoved(r) /\ turns'[r] = t2 /\ turns[r].step \in StepsOf(r)
           /\ SeenOK' /\ Claims' => ViewInv'
<1>1. turns \in [Turns -> TurnType] /\ \A q \in Turns : TurnOK(q, turns[q])
  BY InvParts DEF TurnsOK
<1>2. /\ turns' \in [Turns -> TurnType] /\ turns'[r] = t2 /\ \A q \in Turns : TurnOK(q, turns'[q])
      /\ OthersStay(turns, turns', r)
  BY <1>1 DEF TurnOK, OthersStay
<1>3. RowsHold'
  BY <1>2 DEF RowsHold, TurnOK
<1>4. (TurnOK(r, turns[r]) => turns[r].step \in StepsOf(r))
  BY DEF TurnOK
<1>5. TurnsOK'
  BY <1>2 DEF TurnsOK, TurnOK, TurnFits, TurnType, StepsOf
<1>6. TurnsOK' /\ RowsHold' /\ SeenOK' /\ Claims' => ViewInv'
  BY InvParts, PTL
<1> QED BY <1>1, <1>2, <1>3, <1>4, <1>5, <1>6 DEF RunMoved

LEMMA HeardStep ==
    ASSUME ViewInv, NEW r \in Turns, NEW t2, turns' = [turns EXCEPT ![r] = t2], TurnOK(r, t2),
           rows' \in Seq(RowType), RowsFit(turns', rows'), Appended(rows, rows'),
           \A n \in 1..Len(rows') : n > Len(rows) => rows'[n].run = r,
           NEW e, NEW f, EventFits(e), EventFits(f), e.type \notin Ends, Heard(e, f),
           Concerns(e, r, turns[r].step), Concerns(f, r, turns[r].step),
           Moves(FALSE, turns[r], t2, rows, rows', r, turns[r].step, e, f),
           Moves(TRUE, turns[r], t2, rows, rows', r, turns[r].step, Assembled(e), Assembled(f)),
           r \notin News(e) \cup News(f) =>
              Moves(TRUE, turns[r], t2, rows, rows', r, turns[r].step, NoEvent, NoEvent)
    PROVE  ViewInv'
<1>1. RunMoved(r) /\ turns'[r] = t2 /\ turns[r].step \in StepsOf(r)
  BY TurnMoves
<1>2. ViewTypeOK /\ Claims /\ SeenOK
  BY InvParts DEF ViewInv
<1>3. SeenOK'
  BY <1>2, HeardTypes
<1>4. Claims'
  BY <1>1, <1>2, HeardClaims
<1> QED BY <1>3, <1>4, TurnMoves

-----------------------------------------------------------------------------
(* A run moves within its step: the other cells of it stay.                *)
LEMMA OtherSteps ==
    ASSUME NEW closed, NEW t, NEW t2, NEW rr, NEW rr2, NEW r, NEW i, NEW c, Appended(rr, rr2),
           i # t.step, i # t2.step, \A n \in 1..Len(rr2) : n > Len(rr) => rr2[n].step # i,
           CellFits(closed, t, rr, r, i, c)
    PROVE  CellFits(closed, t2, rr2, r, i, c)
<1>1. CellFits(closed, t, rr2, r, i, c)
  BY OtherRows DEF UseAt, ResultAt
<1>2. ~OpenModel(t, i) /\ ~OpenModel(t2, i) /\ ~OpenTools(t, i) /\ ~OpenTools(t2, i)
  BY DEF OpenModel, OpenTools
<1>3. TextFits(closed, t2, rr2, r, i, c)
  BY <1>1, <1>2 DEF CellFits, TextFits
<1>4. ASSUME NEW k \in 1..MaxTools PROVE CardFits(t2, rr2, r, i, c, k)
  <2>1. CardFits(t, rr2, r, i, c, k)
    BY <1>1 DEF CellFits
  <2> QED BY <1>2, <2>1 DEF CardFits
<1> QED BY <1>3, <1>4 DEF CellFits

LEMMA MovesWithin ==
    ASSUME NEW closed, NEW t, NEW t2, NEW rr, NEW rr2, NEW r, NEW e, NEW f, Appended(rr, rr2),
           t2.step = t.step, \A n \in 1..Len(rr2) : n > Len(rr) => rr2[n].step = t.step,
           t.state \in Claimed,
           \A c \in Cell : t2.state \in Claimed /\ CellFits(closed, t, rr, r, t.step, c) =>
               CellFits(closed, t2, rr2, r, t.step, AfterBoth(c, e, f))
    PROVE  Moves(closed, t, t2, rr, rr2, r, t.step, e, f)
<1> SUFFICES ASSUME t2.state \in Claimed, NEW i \in StepsOf(r), NEW c \in Cell, CellFits(closed, t, rr, r, i, c)
             PROVE  CellFits(closed, t2, rr2, r, i, IF i = t.step THEN AfterBoth(c, e, f) ELSE c)
  BY DEF Moves
<1>1. CASE i = t.step
  BY <1>1
<1>2. CASE i # t.step
  <2>1. CellFits(closed, t2, rr2, r, i, c)
    BY <1>2, OtherSteps
  <2> QED BY <1>2, <2>1
<1> QED BY <1>1, <1>2

LEMMA NothingClaimed ==
    ASSUME NEW closed, NEW t, NEW t2, t2.state \notin Claimed, NEW rr, NEW rr2, NEW r, NEW i, NEW e, NEW f
    PROVE  Moves(closed, t, t2, rr, rr2, r, i, e, f)
  BY DEF Moves

(* Events of text leave the cards.                                         *)
LEMMA TextOnly ==
    ASSUME NEW c \in Cell, NEW e, e.type \notin Starts \cup Stops
    PROVE  After(c, e).cards = c.cards /\ After(c, e).index = c.index
           /\ After(c, e).text = IF e.type = "none" THEN c.text ELSE TextAfter(c.text, e)
<1>1. CASE e.type = "none"
  BY <1>1 DEF After
<1>2. CASE e.type # "none"
  <2>1. c.cards = [k \in 1..MaxTools |-> c.cards[k]]
    BY DEF Cell
  <2>2. CardsAfter(c, e) = c.cards
    BY <2>1 DEF CardsAfter
  <2> QED BY <1>2, <2>2 DEF After, StepAfter
<1> QED BY <1>1, <1>2

LEMMA UnheardCell == \A c : AfterBoth(c, NoEvent, NoEvent) = c
  BY DEF AfterBoth, After, Told, NoEvent, Ev, Ends

(* While a run is at the model its step has no row, and no card.           *)
LEMMA ModelCell ==
    ASSUME RowsHold, NEW r \in Turns, OpenModel(turns[r], turns[r].step)
    PROVE  LET i == turns[r].step
           IN /\ \A n \in 1..Len(rows) : ~UseAt(rows, n, r, i) /\ ~ResultAt(rows, n, r, i)
              /\ \A closed, c : CellFits(closed, turns[r], rows, r, i, c) =>
                    /\ \A k \in 1..MaxTools : c.cards[k] = <<>>
                    /\ closed \/ turns[r].text = <<>> => c.text = <<>>
<1> DEFINE i == turns[r].step
<1>1. \A n \in 1..Len(rows) : ~UseAt(rows, n, r, i) /\ ~ResultAt(rows, n, r, i)
  BY DEF RowsHold, RowsFit, RowFits, Placed, UseAt, ResultAt, OpenModel
<1>2. ~OpenTools(turns[r], i)
  BY DEF OpenTools, OpenModel
<1>3. ASSUME NEW closed, NEW c, CellFits(closed, turns[r], rows, r, i, c)
      PROVE  /\ \A k \in 1..MaxTools : c.cards[k] = <<>>
             /\ closed \/ turns[r].text = <<>> => c.text = <<>>
  <2>1. \A k \in 1..MaxTools : CardFits(turns[r], rows, r, i, c, k)
    BY <1>3 DEF CellFits
  <2> QED BY <1>1, <1>2, <1>3, <2>1 DEF CellFits, TextFits, CardFits
<1> QED BY <1>1, <1>3

LEMMA ModelCellFits ==
    ASSUME NEW closed, NEW t, NEW rr, NEW r, NEW i, NEW c, OpenModel(t, i),
           \A n \in 1..Len(rr) : ~UseAt(rr, n, r, i) /\ ~ResultAt(rr, n, r, i),
           \A k \in 1..MaxTools : c.cards[k] = <<>>, closed \/ t.text = <<>> => c.text = <<>>
    PROVE  CellFits(closed, t, rr, r, i, c)
<1>1. ~OpenTools(t, i)
  BY DEF OpenTools, OpenModel
<1>2. TextFits(closed, t, rr, r, i, c)
  BY DEF TextFits
<1>3. \A k \in 1..MaxTools : CardFits(t, rr, r, i, c, k)
  BY <1>1 DEF CardFits
<1> QED BY <1>2, <1>3 DEF CellFits

LEMMA RowsSame ==
    ASSUME rows \in Seq(RowType), rows' = rows
    PROVE  /\ rows' \in Seq(RowType) /\ Appended(rows, rows')
           /\ \A n \in 1..Len(rows') : n > Len(rows) => rows'[n].run = 0
           /\ \A n \in 1..Len(rows') : ~(n > Len(rows))
  BY DEF Appended

LEMMA ModelFacts ==
    ASSUME ViewInv, NEW r \in Turns, Streams(r)
    PROVE  /\ turns \in [Turns -> TurnType] /\ turns[r] \in TurnType /\ TurnOK(r, turns[r]) /\ RowsHold
           /\ rows \in Seq(RowType) /\ RowsFit(turns, rows) /\ turns[r].step \in StepsOf(r) /\ turns[r].step \in Nat
           /\ OpenModel(turns[r], turns[r].step) /\ turns[r].state = "running" /\ turns[r].stage = "model"
           /\ turns[r].state \in Claimed
<1>1. turns \in [Turns -> TurnType] /\ TurnOK(r, turns[r]) /\ RowsHold
  BY InvParts DEF TurnsOK
<1> QED BY <1>1 DEF TurnOK, TurnType, RowsHold, Streams, OpenModel, Claimed

LEMMA SpeakStep ==
    ASSUME ViewInv, NEW r \in Turns, Speak(r)
    PROVE  ViewInv'
<1> DEFINE t == turns[r]
           t2 == [t EXCEPT !.text = @ \o Piece(r)]
           i == t.step
           e == Spoken(r, IF t.text = <<>> THEN Ev("content_start", r, i, <<>>) ELSE NoEvent)
           f == Spoken(r, Ev("content_delta", r, i, Piece(r)))
<1>1. Streams(r) /\ turns' = [turns EXCEPT ![r].text = @ \o Piece(r)] /\ Heard(e, f) /\ rows' = rows
  BY DEF Speak
<1>2. /\ turns \in [Turns -> TurnType] /\ t \in TurnType /\ TurnOK(r, t) /\ RowsHold /\ rows \in Seq(RowType)
      /\ RowsFit(turns, rows) /\ i \in StepsOf(r) /\ OpenModel(t, i) /\ t.state = "running" /\ t.stage = "model"
      /\ t.state \in Claimed
  BY <1>1, ModelFacts
<1>3. Piece(r) \in Seq(Nat) /\ t2.text = t.text \o Piece(r) /\ t2.text \in Seq(Nat) /\ t2.text # <<>>
  <2>1. Piece(r) = <<t.attempt>> /\ t.attempt \in Nat /\ t.text \in Seq(Nat)
    BY <1>2, ViewConstants DEF Piece, TurnType
  <2>2. t2.text = t.text \o Piece(r)
    BY <1>2 DEF TurnType
  <2>3. Len(t.text \o Piece(r)) # 0 /\ t.text \o Piece(r) \in Seq(Nat)
    BY <2>1
  <2> QED BY <2>1, <2>2, <2>3
<1>4. turns' = [turns EXCEPT ![r] = t2]
  BY <1>1, <1>2
<1>5. /\ t2 \in TurnType /\ t2.state = t.state /\ t2.stage = t.stage /\ t2.step = t.step /\ t2.tools = t.tools
  BY <1>2, <1>3 DEF TurnType
<1> HIDE DEF t2
<1>6. TurnOK(r, t2)
  BY <1>2, <1>5 DEF TurnOK, TurnFits
<1>7. /\ turns'[r] = t2 /\ OthersStay(turns, turns', r) /\ OpenModel(t2, i)
      /\ \A j : (OpenModel(t2, j) <=> OpenModel(t, j)) /\ ~OpenTools(t2, j) /\ ~OpenTools(t, j)
  BY <1>2, <1>4, <1>5 DEF OthersStay, OpenModel, OpenTools
<1>8. RowsFit(turns', rows')
  BY <1>1, <1>2, <1>5, <1>7, RowsStay
<1>9. /\ EventFits(e) /\ EventFits(f) /\ e.type \in {"none", "content_start"} /\ f.type \in {"none", "content_delta"}
      /\ Concerns(e, r, i) /\ Concerns(f, r, i) /\ Assembled(e) = NoEvent /\ Assembled(f) = NoEvent
  BY <1>2, <1>3 DEF Spoken, EventFits, Ev, NoEvent, Concerns, Assembled, Ends, Starts, Stops
<1> HIDE DEF e, f
<1>10. Appended(rows, rows') /\ \A n \in 1..Len(rows') : ~(n > Len(rows))
  BY <1>1, <1>2, RowsSame
<1>11. ASSUME NEW closed \in BOOLEAN, NEW c \in Cell, CellFits(closed, t, rows, r, i, c), NEW d,
              d.cards = c.cards, closed => d.text = c.text
       PROVE  CellFits(closed, t2, rows', r, i, d)
  <2>1. \A k \in 1..MaxTools : c.cards[k] = <<>>
    BY <1>2, <1>11, ModelCell
  <2>2. closed => c.text = <<>>
    BY <1>2, <1>11, ModelCell
  <2>3. \A n \in 1..Len(rows) : ~UseAt(rows, n, r, i) /\ ~ResultAt(rows, n, r, i)
    BY <1>2, ModelCell
  <2> HIDE DEF i
  <2> QED BY <1>1, <1>3, <1>7, <1>11, <2>1, <2>2, <2>3, ModelCellFits
<1>12. Moves(FALSE, t, t2, rows, rows', r, i, e, f)
  <2>1. ASSUME NEW c \in Cell, CellFits(FALSE, t, rows, r, i, c)
        PROVE  CellFits(FALSE, t2, rows', r, i, AfterBoth(c, e, f))
    <3>1. e.type \notin Starts \cup Stops \cup Ends /\ f.type \notin Starts \cup Stops \cup Ends /\ Told(f) = f
      BY <1>9 DEF Starts, Stops, Ends, Told
    <3>2. After(c, e) \in Cell
      BY <1>9, StepAfterType DEF After
    <3>3. AfterBoth(c, e, f).cards = c.cards
      BY <3>1, <3>2, TextOnly DEF AfterBoth
    <3> QED BY <1>11, <2>1, <3>3
  <2> QED BY <1>2, <1>5, <1>10, <2>1, MovesWithin
<1>13. Moves(TRUE, t, t2, rows, rows', r, i, NoEvent, NoEvent)
  <2>1. ASSUME NEW c \in Cell, CellFits(TRUE, t, rows, r, i, c)
        PROVE  CellFits(TRUE, t2, rows', r, i, AfterBoth(c, NoEvent, NoEvent))
    <3>1. AfterBoth(c, NoEvent, NoEvent) = c
      BY UnheardCell
    <3> QED BY <1>11, <2>1, <3>1
  <2> QED BY <1>2, <1>5, <1>10, <2>1, MovesWithin
<1>14. e.type \notin Ends
  BY <1>9 DEF Ends
<1>15. rows' \in Seq(RowType) /\ \A n \in 1..Len(rows') : n > Len(rows) => rows'[n].run = r
  BY <1>1, <1>2, <1>10
<1> QED BY <1>1, <1>4, <1>6, <1>8, <1>9, <1>10, <1>12, <1>13, <1>14, <1>15, HeardStep

-----------------------------------------------------------------------------
(* The actions of the engine that the client hears.                        *)
LEMMA HeardWithin ==
    ASSUME ViewInv, NEW r \in Turns, NEW t2, turns' = [turns EXCEPT ![r] = t2], TurnOK(r, t2),
           turns[r].state = "running", t2.step = turns[r].step,
           rows' \in Seq(RowType), RowsFit(turns', rows'), Appended(rows, rows'),
           \A n \in 1..Len(rows') : n > Len(rows) => rows'[n].run = r /\ rows'[n].step = turns[r].step,
           NEW e, NEW f, EventFits(e), EventFits(f), e.type \notin Ends, Heard(e, f),
           Concerns(e, r, turns[r].step), Concerns(f, r, turns[r].step),
           e.type \notin {"content_start", "content_delta"},
           f.type \notin {"content_start", "content_delta"},
           f.type = "timeout" => t2.state \notin Claimed,
           \A closed \in BOOLEAN : \A c \in Cell :
              t2.state \in Claimed /\ CellFits(closed, turns[r], rows, r, turns[r].step, c) =>
                 CellFits(closed, t2, rows', r, turns[r].step, AfterBoth(c, e, f)),
           \A c \in Cell :
              t2.state \in Claimed /\ CellFits(TRUE, turns[r], rows, r, turns[r].step, c) /\ r \notin News(e) \cup News(f) =>
                 CellFits(TRUE, t2, rows', r, turns[r].step, c)
    PROVE  ViewInv'
<1>1. turns[r].state \in Claimed
  BY DEF Claimed
<1>2. Moves(FALSE, turns[r], t2, rows, rows', r, turns[r].step, e, f)
  <2>1. \A c \in Cell :
           t2.state \in Claimed /\ CellFits(FALSE, turns[r], rows, r, turns[r].step, c) =>
              CellFits(FALSE, t2, rows', r, turns[r].step, AfterBoth(c, e, f))
    OBVIOUS
  <2> QED BY <1>1, <2>1, MovesWithin
<1>3. Moves(TRUE, turns[r], t2, rows, rows', r, turns[r].step, Assembled(e), Assembled(f))
  <2>1. CASE f.type # "timeout"
    <3>1. Assembled(e) = e /\ Assembled(f) = f
      BY <2>1 DEF Assembled, Ends
    <3>2. \A c \in Cell :
             t2.state \in Claimed /\ CellFits(TRUE, turns[r], rows, r, turns[r].step, c) =>
                CellFits(TRUE, t2, rows', r, turns[r].step, AfterBoth(c, e, f))
      OBVIOUS
    <3> QED BY <1>1, <3>1, <3>2, MovesWithin
  <2>2. CASE f.type = "timeout"
    BY <2>2, NothingClaimed
  <2> QED BY <2>1, <2>2
<1>4. ASSUME r \notin News(e) \cup News(f)
      PROVE  Moves(TRUE, turns[r], t2, rows, rows', r, turns[r].step, NoEvent, NoEvent)
  <2>1. \A c \in Cell :
           t2.state \in Claimed /\ CellFits(TRUE, turns[r], rows, r, turns[r].step, c) =>
              CellFits(TRUE, t2, rows', r, turns[r].step, AfterBoth(c, NoEvent, NoEvent))
    BY <1>4, UnheardCell
  <2> QED BY <1>1, <2>1, MovesWithin
<1> QED BY <1>2, <1>3, <1>4, HeardStep

(* Text that is closed, or that a fallback takes back.                     *)
LEMMA TextClosedFits ==
    ASSUME NEW r \in Turns, turns[r].step \in StepsOf(r), turns[r].text \in Seq(Nat)
    PROVE  /\ EventFits(TextClosed(r)) /\ Concerns(TextClosed(r), r, turns[r].step)
           /\ TextClosed(r).type \in {"none", "content_end"} /\ TextClosed(r).type \notin Ends
           /\ r \notin News(TextClosed(r)) => turns[r].text = <<>>
           /\ \A c \in Cell : /\ After(c, TextClosed(r)) \in Cell
                              /\ After(c, TextClosed(r)).cards = c.cards
                              /\ (turns[r].text = <<>> => c.text = <<>>) =>
                                    After(c, TextClosed(r)).text = turns[r].text
<1> DEFINE e == TextClosed(r)
<1>1. CASE turns[r].text = <<>>
  <2>1. e = NoEvent
    BY <1>1 DEF TextClosed
  <2>2. \A c \in Cell : After(c, e) = c
    BY <2>1 DEF After, NoEvent, Ev
  <2> QED BY <1>1, <2>1, <2>2 DEF EventFits, Concerns, NoEvent, Ev, Ends, News
<1>2. CASE turns[r].text # <<>>
  <2>1. e.type = "content_end" /\ e.run = r /\ e.step = turns[r].step /\ e.load = turns[r].text
    BY <1>2 DEF TextClosed, ContentEnd, Ev
  <2> HIDE DEF e
  <2>2. EventFits(e) /\ Concerns(e, r, turns[r].step) /\ e.type \notin Ends /\ News(e) = {r}
    BY <2>1 DEF EventFits, Concerns, Ends, News
  <2>3. ASSUME NEW c \in Cell
        PROVE  After(c, e) \in Cell /\ After(c, e).cards = c.cards /\ After(c, e).text = turns[r].text
    <3>1. After(c, e) = StepAfter(c, e)
      BY <2>1 DEF After
    <3>2. TextAfter(c.text, e) = turns[r].text
      BY <2>1 DEF TextAfter
    <3> QED BY <2>1, <2>2, <3>1, <3>2, TextOnly, StepAfterType DEF Starts, Stops
  <2> QED BY <2>1, <2>2, <2>3 DEF e
<1> QED BY <1>1, <1>2

LEMMA AttemptFailsStep ==
    ASSUME ViewInv, NEW r \in Turns, AttemptFails(r)
    PROVE  ViewInv'
<1> DEFINE t == turns[r]
           t2 == [t EXCEPT !.attempt = @ + 1, !.text = <<>>]
           i == t.step
<1>1. Streams(r) /\ turns' = [turns EXCEPT ![r].attempt = @ + 1, ![r].text = <<>>] /\ rows' = rows /\ t.attempt <= MaxTries
  BY DEF AttemptFails, Live
<1>2. /\ turns \in [Turns -> TurnType] /\ t \in TurnType /\ TurnOK(r, t) /\ RowsHold /\ rows \in Seq(RowType)
      /\ RowsFit(turns, rows) /\ i \in StepsOf(r) /\ OpenModel(t, i) /\ t.state = "running" /\ t.stage = "model"
      /\ t.state \in Claimed
  BY <1>1, ModelFacts
<1>3. PICK eof \in BOOLEAN :
         Heard(IF eof THEN TextClosed(r) ELSE NoEvent, IF t.text = <<>> THEN NoEvent ELSE Reset(r))
  BY DEF AttemptFails
<1> DEFINE e == IF eof THEN TextClosed(r) ELSE NoEvent
           f == IF t.text = <<>> THEN NoEvent ELSE Reset(r)
<1>4. turns' = [turns EXCEPT ![r] = t2]
  BY <1>1, <1>2
<1>5. t2 \in TurnType /\ t2.state = t.state /\ t2.stage = t.stage /\ t2.step = t.step /\ t2.tools = t.tools /\ t2.text = <<>>
  <2>1. t.attempt + 1 \in 1..(MaxTries + 1) /\ <<>> \in Seq(Nat)
    BY <1>1, <1>2, ViewConstants DEF TurnType
  <2> QED BY <1>2, <2>1 DEF TurnType
<1> HIDE DEF t2
<1>6. TurnOK(r, t2)
  BY <1>2, <1>5 DEF TurnOK, TurnFits
<1>7. /\ turns'[r] = t2 /\ OthersStay(turns, turns', r) /\ OpenModel(t2, i)
      /\ \A j : (OpenModel(t2, j) <=> OpenModel(t, j)) /\ ~OpenTools(t2, j) /\ ~OpenTools(t, j)
  BY <1>2, <1>4, <1>5 DEF OthersStay, OpenModel, OpenTools
<1>8. RowsFit(turns', rows')
  BY <1>1, <1>2, <1>5, <1>7, RowsStay
<1>9. /\ EventFits(e) /\ e.type \in {"none", "content_end"} /\ Concerns(e, r, i) /\ e.type \notin Ends
  BY <1>2, TextClosedFits DEF TurnType, EventFits, NoEvent, Ev, Concerns, Ends
<1>10. /\ EventFits(f) /\ f.type \in {"none", "model_fallback"} /\ Concerns(f, r, i)
       /\ f.type = "none" <=> t.text = <<>>
  BY <1>2 DEF Reset, EventFits, NoEvent, Ev, Concerns, Ends
<1>11. r \notin News(e) \cup News(f) => e.type = "none"
  BY <1>9, TextClosedFits DEF News, TextClosed, ContentEnd, Ev, NoEvent, Starts, Stops
<1>12. Appended(rows, rows') /\ \A n \in 1..Len(rows') : ~(n > Len(rows))
  BY <1>1, <1>2, RowsSame
<1>13. Heard(e, f)
  BY <1>3
<1>14. t.text = <<>> => e.type = "none"
  BY DEF TextClosed, NoEvent, Ev
<1> HIDE DEF e, f
<1>15. ASSUME NEW closed \in BOOLEAN, NEW c \in Cell, CellFits(closed, t, rows, r, i, c), NEW d,
              d.cards = c.cards, d.text = <<>>
       PROVE  CellFits(closed, t2, rows', r, i, d)
  <2>1. \A k \in 1..MaxTools : c.cards[k] = <<>>
    BY <1>2, <1>15, ModelCell
  <2>2. \A n \in 1..Len(rows) : ~UseAt(rows, n, r, i) /\ ~ResultAt(rows, n, r, i)
    BY <1>2, ModelCell
  <2> HIDE DEF i
  <2> QED BY <1>1, <1>7, <1>15, <2>1, <2>2, ModelCellFits
<1>16. ASSUME NEW closed \in BOOLEAN, NEW c \in Cell, CellFits(closed, t, rows, r, i, c)
       PROVE  CellFits(closed, t2, rows', r, i, AfterBoth(c, e, f))
  <2>1. e.type \notin Starts \cup Stops \cup Ends /\ f.type \notin Starts \cup Stops \cup Ends /\ Told(f) = f
    BY <1>9, <1>10 DEF Starts, Stops, Ends, Told
  <2>2. After(c, e) \in Cell
    BY <1>9, StepAfterType DEF After
  <2>3. AfterBoth(c, e, f).cards = c.cards
    BY <2>1, <2>2, TextOnly DEF AfterBoth
  <2>4. CASE t.text = <<>>
    <3>1. AfterBoth(c, e, f) = c
      BY <1>10, <1>14, <2>1, <2>4 DEF AfterBoth, After
    <3>2. c.text = <<>>
      BY <1>2, <1>16, <2>4, ModelCell
    <3> QED BY <1>15, <1>16, <3>1, <3>2
  <2>5. CASE t.text # <<>>
    <3>1. f.type = "model_fallback"
      BY <1>10, <2>5
    <3>2. AfterBoth(c, e, f).text = <<>>
      BY <2>1, <2>2, <3>1, TextOnly DEF AfterBoth, TextAfter
    <3> QED BY <1>15, <1>16, <2>3, <3>2
  <2> QED BY <2>4, <2>5
<1>17. ASSUME NEW c \in Cell, CellFits(TRUE, t, rows, r, i, c)
       PROVE  CellFits(TRUE, t2, rows', r, i, c)
  <2>1. c.text = <<>>
    BY <1>2, <1>17, ModelCell
  <2> QED BY <1>15, <1>17, <2>1
<1>18. /\ f.type # "timeout" /\ rows' \in Seq(RowType)
       /\ e.type \notin {"content_start", "content_delta"} /\ f.type \notin {"content_start", "content_delta"}
       /\ \A n \in 1..Len(rows') : n > Len(rows) => rows'[n].run = r /\ rows'[n].step = i
  BY <1>1, <1>2, <1>9, <1>10, <1>12
<1> QED BY <1>2, <1>4, <1>5, <1>6, <1>8, <1>9, <1>10, <1>12, <1>13, <1>16, <1>17, <1>18, HeardWithin

LEMMA RoundFailsStep ==
    ASSUME ViewInv, NEW r \in Turns, RoundFails(r)
    PROVE  ViewInv'
<1> DEFINE t == turns[r]
           t2 == [t EXCEPT !.state = "error", !.text = <<>>, !.tools = <<>>]
           i == t.step
           f == IF IsSub(r) THEN NoEvent ELSE Ev("error", r, i, <<>>)
<1>1. /\ Streams(r) /\ turns' = [turns EXCEPT ![r].state = "error", ![r].text = <<>>, ![r].tools = <<>>]
      /\ Heard(NoEvent, f) /\ rows' = rows
  BY DEF RoundFails, Over
<1>2. /\ turns \in [Turns -> TurnType] /\ t \in TurnType /\ TurnOK(r, t) /\ RowsHold /\ rows \in Seq(RowType)
      /\ RowsFit(turns, rows) /\ i \in StepsOf(r) /\ OpenModel(t, i) /\ t.state = "running" /\ t.stage = "model"
      /\ t.state \in Claimed
  BY <1>1, ModelFacts
<1>3. turns' = [turns EXCEPT ![r] = t2]
  BY <1>1, <1>2
<1>4. /\ t2 \in TurnType /\ t2.state = "error" /\ t2.step = t.step /\ t2.tools = <<>>
      /\ t2.state \notin Claimed
  <2>1. <<>> \in Seq(CallStates) /\ <<>> \in Seq(Nat)
    OBVIOUS
  <2> QED BY <1>2, <2>1 DEF TurnType, Terminal, Claimed
<1> HIDE DEF t2
<1>5. TurnOK(r, t2)
  BY <1>2, <1>4, ViewConstants DEF TurnOK, TurnFits
<1>6. /\ turns'[r] = t2 /\ OthersStay(turns, turns', r)
      /\ \A j : ~OpenModel(t2, j) /\ ~OpenTools(t2, j) /\ ~OpenTools(t, j)
  BY <1>2, <1>3, <1>4 DEF OthersStay, OpenModel, OpenTools
<1>7. RowsFit(turns', rows')
  BY <1>1, <1>2, <1>4, <1>6, RowsStay
<1>8. /\ EventFits(NoEvent) /\ EventFits(f) /\ Concerns(NoEvent, r, i) /\ Concerns(f, r, i)
      /\ NoEvent.type \notin Ends \cup {"content_start", "content_delta"} /\ f.type \in {"none", "error"}
  BY DEF EventFits, NoEvent, Ev, Concerns, Ends
<1>9. Appended(rows, rows') /\ rows' \in Seq(RowType) /\ \A n \in 1..Len(rows') : ~(n > Len(rows))
  BY <1>1, <1>2, RowsSame
<1> HIDE DEF f
<1> QED BY <1>1, <1>2, <1>3, <1>4, <1>5, <1>7, <1>8, <1>9, HeardWithin

(* The row of a round: what it says of its step.                           *)
LEMMA SpokenRow ==
    ASSUME RowsHold, NEW r \in Turns, OpenModel(turns[r], turns[r].step), NEW w \in RowType, w.run = r,
           w.kind = "assistant", w.step = turns[r].step, w.text = turns[r].text, NEW t2, t2.step = turns[r].step,
           \/ t2.state # "running"
           \/ t2.stage = "tools" /\ \A k \in DOMAIN t2.tools : t2.tools[k] = "due",
           NEW closed \in BOOLEAN, NEW c, CellFits(closed, turns[r], rows, r, turns[r].step, c),
           NEW d, d.cards = c.cards, d.text = turns[r].text
    PROVE  CellFits(closed, t2, Append(rows, w), r, turns[r].step, d)
<1> DEFINE i == turns[r].step
           rr2 == Append(rows, w)
<1>1. /\ \A n \in 1..Len(rows) : ~UseAt(rows, n, r, i) /\ ~ResultAt(rows, n, r, i)
      /\ \A k \in 1..MaxTools : c.cards[k] = <<>>
  BY ModelCell
<1>2. /\ \A n \in 1..Len(rows) : rr2[n] = rows[n] /\ n \in 1..Len(rr2)
      /\ rr2[Len(rows) + 1] = w /\ Len(rows) + 1 \in 1..Len(rr2)
      /\ \A n \in 1..Len(rr2) : n \in 1..Len(rows) \/ n = Len(rows) + 1
  BY RowAppended DEF RowsHold, Appended
<1> HIDE DEF rr2
<1>3. /\ \A n \in 1..Len(rr2) : UseAt(rr2, n, r, i) => n = Len(rows) + 1
      /\ UseAt(rr2, Len(rows) + 1, r, i)
      /\ \A n \in 1..Len(rr2) : ~ResultAt(rr2, n, r, i)
  BY <1>1, <1>2 DEF UseAt, ResultAt
<1>4. ~OpenModel(t2, i)
  BY DEF OpenModel
<1>5. TextFits(closed, t2, rr2, r, i, d)
  BY <1>2, <1>3, <1>4 DEF TextFits
<1>6. ASSUME NEW k \in 1..MaxTools PROVE CardFits(t2, rr2, r, i, d, k)
  <2>1. d.cards[k] = <<>>
    BY <1>1
  <2>2. OpenTools(t2, i) => \A j \in DOMAIN t2.tools : t2.tools[j] = "due"
    BY DEF OpenTools
  <2> QED BY <1>3, <2>1, <2>2 DEF CardFits
<1>7. CellFits(closed, t2, rr2, r, i, d)
  BY <1>5, <1>6 DEF CellFits
<1> QED BY <1>7 DEF rr2

LEMMA AnswerStep ==
    ASSUME ViewInv, NEW r \in Turns, Answer(r)
    PROVE  ViewInv'
<1> DEFINE t == turns[r]
           t2 == [t EXCEPT !.state = "finished", !.text = <<>>, !.tools = <<>>]
           i == t.step
           e == TextClosed(r)
           f == Ev("done", r, i, <<>>)
           w == Row("assistant", r, t.text, <<>>)
<1>1. /\ Streams(r) /\ turns' = [turns EXCEPT ![r].state = "finished", ![r].text = <<>>, ![r].tools = <<>>]
      /\ Heard(e, f) /\ rows' = Append(rows, w)
  BY DEF Answer, Over, Assistant
<1>2. /\ turns \in [Turns -> TurnType] /\ t \in TurnType /\ TurnOK(r, t) /\ RowsHold /\ rows \in Seq(RowType)
      /\ RowsFit(turns, rows) /\ i \in StepsOf(r) /\ i \in Nat /\ OpenModel(t, i) /\ t.state = "running"
      /\ t.state \in Claimed
  BY <1>1, ModelFacts
<1>3. turns' = [turns EXCEPT ![r] = t2]
  BY <1>1, <1>2
<1>4. t2 \in TurnType /\ t2.state = "finished" /\ t2.step = t.step /\ t2.tools = <<>> /\ t.text \in Seq(Nat)
  <2>1. <<>> \in Seq(CallStates) /\ <<>> \in Seq(Nat)
    OBVIOUS
  <2> QED BY <1>2, <2>1 DEF TurnType, Terminal
<1> HIDE DEF t2
<1>5. TurnOK(r, t2)
  BY <1>2, <1>4, ViewConstants DEF TurnOK, TurnFits
<1>6. turns'[r] = t2 /\ OthersStay(turns, turns', r)
  BY <1>2, <1>3 DEF OthersStay
<1>7. /\ w \in RowType /\ w.kind = "assistant" /\ w.run = r /\ w.step = i /\ w.text = t.text /\ w.tools = <<>>
  BY <1>2, <1>4 DEF Row, RowType
<1> HIDE DEF w
<1>8. RowsFit(turns', rows')
  BY <1>1, <1>2, <1>4, <1>6, <1>7, RowsSpoken
<1>9. /\ rows' \in Seq(RowType) /\ Appended(rows, rows')
      /\ \A n \in 1..Len(rows') : n > Len(rows) => rows'[n].run = r /\ rows'[n].step = i
  BY <1>1, <1>2, <1>7, RowAppended
<1>10. /\ EventFits(f) /\ Concerns(f, r, i) /\ f.type = "done" /\ Told(f) = NoEvent
  BY DEF EventFits, Ev, Concerns, Ends, Told
<1>11. /\ EventFits(e) /\ Concerns(e, r, i) /\ e.type \notin Ends /\ e.type \in {"none", "content_end"}
       /\ r \notin News(e) => t.text = <<>>
       /\ \A c \in Cell : /\ After(c, e).cards = c.cards
                          /\ (t.text = <<>> => c.text = <<>>) => After(c, e).text = t.text
  BY <1>2, <1>4, TextClosedFits
<1> HIDE DEF e, f
<1>12. ASSUME NEW closed \in BOOLEAN, NEW c \in Cell, CellFits(closed, t, rows, r, i, c)
       PROVE  /\ CellFits(closed, t2, rows', r, i, AfterBoth(c, e, f))
              /\ r \notin News(e) => CellFits(closed, t2, rows', r, i, c)
  <2>1. AfterBoth(c, e, f) = After(c, e)
    BY <1>10 DEF AfterBoth, After, NoEvent, Ev
  <2>2. t.text = <<>> => c.text = <<>>
    BY <1>2, <1>12, ModelCell
  <2>3. t2.state # "running"
    BY <1>4
  <2>4. CellFits(closed, t2, Append(rows, w), r, i, AfterBoth(c, e, f))
    BY <1>2, <1>4, <1>7, <1>11, <1>12, <2>1, <2>2, <2>3, SpokenRow
  <2>5. r \notin News(e) => CellFits(closed, t2, Append(rows, w), r, i, c)
    BY <1>2, <1>4, <1>7, <1>11, <1>12, <2>2, <2>3, SpokenRow
  <2> QED BY <1>1, <2>4, <2>5
<1>13. \A c \in Cell : CellFits(TRUE, t, rows, r, i, c) /\ r \notin News(e) => CellFits(TRUE, t2, rows', r, i, c)
  BY <1>12
<1> QED BY <1>1, <1>2, <1>3, <1>4, <1>5, <1>8, <1>9, <1>10, <1>11, <1>12, <1>13, HeardWithin

LEMMA CallsStep ==
    ASSUME ViewInv, NEW r \in Turns, Call(r)
    PROVE  ViewInv'
<1> DEFINE t == turns[r]
           i == t.step
           f == TextClosed(r)
<1>0. Streams(r) /\ Heard(NoEvent, f)
  BY DEF Call
<1> PICK n \in 1..MaxTools :
        /\ rows' = Assistant(r, "assistant", [k \in 1..n |-> "due"])
        /\ turns' = [turns EXCEPT ![r].stage = "tools", ![r].tools = [k \in 1..n |-> "due"], ![r].text = <<>>]
  BY DEF Call
<1> DEFINE due == [k \in 1..n |-> "due"]
           t2 == [t EXCEPT !.stage = "tools", !.tools = due, !.text = <<>>]
           w == Row("assistant", r, t.text, due)
<1>1. rows' = Append(rows, w)
  BY DEF Assistant
<1>2. /\ turns \in [Turns -> TurnType] /\ t \in TurnType /\ TurnOK(r, t) /\ RowsHold /\ rows \in Seq(RowType)
      /\ RowsFit(turns, rows) /\ i \in StepsOf(r) /\ i \in Nat /\ OpenModel(t, i) /\ t.state = "running"
      /\ t.state \in Claimed
  BY <1>0, ModelFacts
<1>3. turns' = [turns EXCEPT ![r] = t2]
  BY <1>2
<1>30. /\ due \in Seq({"due", "running", "success", "error"}) /\ due \in Seq(CallStates) /\ Len(due) = n /\ n <= MaxTools
       /\ \A k \in DOMAIN due : due[k] = "due"
  <2>1. n \in Nat /\ n <= MaxTools
    BY ViewConstants
  <2> QED BY <2>1 DEF CallStates
<1> HIDE DEF due
<1>4. /\ t2 \in TurnType /\ t2.state = "running" /\ t2.stage = "tools" /\ t2.step = t.step /\ t2.tools = due
      /\ t.text \in Seq(Nat)
  <2>1. <<>> \in Seq(Nat)
    OBVIOUS
  <2> QED BY <1>2, <1>30, <2>1 DEF TurnType
<1> HIDE DEF t2
<1>5. TurnOK(r, t2)
  BY <1>2, <1>4, <1>30 DEF TurnOK, TurnFits
<1>6. turns'[r] = t2 /\ OthersStay(turns, turns', r) /\ OpenTools(t2, i)
  BY <1>2, <1>3, <1>4 DEF OthersStay, OpenTools
<1>7. /\ w \in RowType /\ w.kind = "assistant" /\ w.run = r /\ w.step = i /\ w.text = t.text /\ w.tools = due
  BY <1>2, <1>4, <1>30 DEF Row, RowType
<1> HIDE DEF w
<1>8. RowsFit(turns', rows')
  <2>1. OpenTools(turns'[r], turns'[r].step) /\ Len(w.tools) = Len(turns'[r].tools) /\ turns'[r].step = i
        /\ turns'[r].state # "none"
    BY <1>4, <1>6, <1>7
  <2>2. RowsFit(turns, rows) /\ w.step = turns[r].step /\ OpenModel(turns[r], turns[r].step) /\ turns[r].step \in Nat
        /\ turns'[r].step = turns[r].step
    BY <1>2, <1>7, <2>1
  <2>3. \/ w.kind = "assistant_partial" /\ w.tools = <<>> /\ turns'[r].state \notin Claimed
        \/ w.kind = "assistant" /\ w.tools = <<>> /\ turns'[r].state # "running"
        \/ w.kind = "assistant" /\ OpenTools(turns'[r], turns'[r].step) /\ Len(w.tools) = Len(turns'[r].tools)
    BY <1>7, <2>1
  <2>4. RowsFit(turns', Append(rows, w))
    BY <1>2, <1>6, <1>7, <2>1, <2>2, <2>3, RowsSpoken
  <2> QED BY <1>1, <2>4
<1>9. /\ rows' \in Seq(RowType) /\ Appended(rows, rows')
      /\ \A m \in 1..Len(rows') : m > Len(rows) => rows'[m].run = r /\ rows'[m].step = i
  BY <1>1, <1>2, <1>7, RowAppended
<1>10. /\ EventFits(NoEvent) /\ Concerns(NoEvent, r, i) /\ News(NoEvent) = {}
       /\ NoEvent.type \notin Ends \cup {"content_start", "content_delta"}
  BY DEF EventFits, Ev, Concerns, Ends, NoEvent, News, Starts, Stops
<1>11. /\ EventFits(f) /\ Concerns(f, r, i) /\ f.type \notin Ends /\ f.type \in {"none", "content_end"}
       /\ r \notin News(f) => t.text = <<>>
       /\ \A c \in Cell : /\ After(c, f).cards = c.cards
                          /\ (t.text = <<>> => c.text = <<>>) => After(c, f).text = t.text
  BY <1>2, <1>4, TextClosedFits
<1> HIDE DEF f
<1>12. ASSUME NEW closed \in BOOLEAN, NEW c \in Cell, CellFits(closed, t, rows, r, i, c)
       PROVE  /\ CellFits(closed, t2, rows', r, i, AfterBoth(c, NoEvent, f))
              /\ r \notin News(f) => CellFits(closed, t2, rows', r, i, c)
  <2>1. AfterBoth(c, NoEvent, f) = After(c, f)
    BY <1>11 DEF AfterBoth, After, NoEvent, Ev, Told
  <2>2. t.text = <<>> => c.text = <<>>
    BY <1>2, <1>12, ModelCell
  <2>3. t2.stage = "tools" /\ \A k \in DOMAIN t2.tools : t2.tools[k] = "due"
    BY <1>4, <1>30
  <2>4. CellFits(closed, t2, Append(rows, w), r, i, AfterBoth(c, NoEvent, f))
    <3>1. AfterBoth(c, NoEvent, f).cards = c.cards /\ AfterBoth(c, NoEvent, f).text = t.text
      BY <1>11, <2>1, <2>2
    <3> QED BY <1>2, <1>4, <1>7, <1>12, <2>3, <3>1, SpokenRow
  <2>5. r \notin News(f) => CellFits(closed, t2, Append(rows, w), r, i, c)
    BY <1>2, <1>4, <1>7, <1>11, <1>12, <2>2, <2>3, SpokenRow
  <2> QED BY <1>1, <2>4, <2>5
<1>13. \A c \in Cell : CellFits(TRUE, t, rows, r, i, c) /\ r \notin News(f) => CellFits(TRUE, t2, rows', r, i, c)
  BY <1>12
<1> QED BY <1>0, <1>1, <1>2, <1>3, <1>4, <1>5, <1>8, <1>9, <1>10, <1>11, <1>12, <1>13, HeardWithin

-----------------------------------------------------------------------------
(* A round of tools.                                                       *)
LEMMA ToolFacts ==
    ASSUME ViewInv, NEW r \in Turns, InTools(r)
    PROVE  /\ turns \in [Turns -> TurnType] /\ turns[r] \in TurnType /\ TurnOK(r, turns[r]) /\ RowsHold
           /\ rows \in Seq(RowType) /\ RowsFit(turns, rows) /\ turns[r].step \in StepsOf(r) /\ turns[r].step \in Nat
           /\ OpenTools(turns[r], turns[r].step) /\ turns[r].state = "running" /\ turns[r].stage = "tools"
           /\ turns[r].state \in Claimed
           /\ turns[r].tools \in Seq({"due", "running", "success", "error"})
           /\ \A k \in DOMAIN turns[r].tools : k \in 1..MaxTools
<1>1. turns \in [Turns -> TurnType] /\ TurnOK(r, turns[r]) /\ RowsHold
  BY InvParts DEF TurnsOK
<1>2. turns[r].tools \in Seq({"due", "running", "success", "error"}) /\ Len(turns[r].tools) <= MaxTools
  BY <1>1 DEF TurnOK, TurnFits
<1>3. \A k \in DOMAIN turns[r].tools : k \in 1..MaxTools
  BY <1>2, ViewConstants
<1> QED BY <1>1, <1>2, <1>3 DEF TurnOK, TurnType, RowsHold, InTools, OpenTools, Claimed

ToolCards(t, c) ==
    \A k \in 1..MaxTools :
        /\ k \notin DOMAIN t.tools => c.cards[k] = <<>>
        /\ k \in DOMAIN t.tools /\ t.tools[k] = "due" => c.cards[k] = <<>>
        /\ k \in DOMAIN t.tools /\ t.tools[k] = "running" => UnderWay(c, k)
        /\ k \in DOMAIN t.tools /\ t.tools[k] \in {"success", "error"} => c.cards[k] = <<t.tools[k]>>

LEMMA ToolCell ==
    ASSUME RowsHold, NEW r \in Turns, OpenTools(turns[r], turns[r].step), NEW closed, NEW c,
           CellFits(closed, turns[r], rows, r, turns[r].step, c)
    PROVE  /\ \A n \in 1..Len(rows) : ~ResultAt(rows, n, r, turns[r].step)
           /\ ToolCards(turns[r], c)
<1>1. \A n \in 1..Len(rows) : ~ResultAt(rows, n, r, turns[r].step)
  BY DEF RowsHold, RowsFit, RowFits, Placed, ResultAt, OpenTools
<1>2. \A k \in 1..MaxTools : CardFits(turns[r], rows, r, turns[r].step, c, k)
  BY DEF CellFits
<1> QED BY <1>1, <1>2 DEF CardFits, ToolCards

LEMMA ToolCellFits ==
    ASSUME RowsHold, NEW r \in Turns, OpenTools(turns[r], turns[r].step), NEW t2, OpenTools(t2, turns[r].step),
           NEW closed, NEW c, CellFits(closed, turns[r], rows, r, turns[r].step, c),
           NEW d, d.text = c.text, ToolCards(t2, d)
    PROVE  CellFits(closed, t2, rows, r, turns[r].step, d)
<1> DEFINE i == turns[r].step
<1>1. \A n \in 1..Len(rows) : ~ResultAt(rows, n, r, i)
  BY ToolCell
<1>2. ~OpenModel(t2, i) /\ ~OpenModel(turns[r], i)
  BY DEF OpenModel, OpenTools
<1>3. TextFits(closed, t2, rows, r, i, d)
  BY <1>2 DEF CellFits, TextFits
<1>4. \A k \in 1..MaxTools : CardFits(t2, rows, r, i, d, k)
  BY <1>1 DEF ToolCards, CardFits
<1> QED BY <1>3, <1>4 DEF CellFits

(* A call begins or ends.                                                  *)
CallMoves(r, k, s) ==
    \E t2 :
        /\ turns' = [turns EXCEPT ![r] = t2] /\ TurnOK(r, t2) /\ t2.step = turns[r].step
        /\ OpenTools(t2, turns[r].step) /\ DOMAIN t2.tools = DOMAIN turns[r].tools
        /\ \A j \in DOMAIN turns[r].tools : t2.tools[j] = IF j = k THEN s ELSE turns[r].tools[j]
        /\ (rows' = rows => RowsFit(turns', rows'))
LEMMA OneCall ==
    ASSUME ViewInv, NEW r \in Turns, InTools(r), NEW k \in DOMAIN turns[r].tools,
           NEW s \in {"running", "success", "error"}, turns' = [turns EXCEPT ![r].tools[k] = s]
    PROVE  CallMoves(r, k, s)
<1> DEFINE t == turns[r]
           t2 == [t EXCEPT !.tools[k] = s]
           i == t.step
<1>1. /\ turns \in [Turns -> TurnType] /\ t \in TurnType /\ TurnOK(r, t) /\ OpenTools(t, i)
      /\ rows \in Seq(RowType) /\ RowsFit(turns, rows) /\ t.state = "running" /\ t.state \in Claimed
      /\ t.tools \in Seq({"due", "running", "success", "error"})
  BY ToolFacts
<1>2. turns' = [turns EXCEPT ![r] = t2]
  BY <1>1
<1>3. PICK z : z = [t.tools EXCEPT ![k] = s]
  OBVIOUS
<1>4. /\ z \in Seq({"due", "running", "success", "error"}) /\ z \in Seq(CallStates) /\ Len(z) = Len(t.tools)
      /\ DOMAIN z = DOMAIN t.tools /\ \A j \in DOMAIN t.tools : z[j] = IF j = k THEN s ELSE t.tools[j]
  <2> DEFINE A == {"due", "running", "success", "error"}
  <2>1. Len(t.tools) \in Nat /\ DOMAIN t.tools = 1..Len(t.tools) /\ \A j \in 1..Len(t.tools) : t.tools[j] \in A
    BY <1>1
  <2>2. z \in [1..Len(t.tools) -> A]
    BY <1>3, <2>1
  <2>3. z \in Seq(A) /\ Len(z) = Len(t.tools)
    <3> HIDE DEF A
    <3> QED BY <2>1, <2>2
  <2>4. z \in Seq(CallStates)
    BY <2>3 DEF CallStates
  <2> QED BY <1>3, <2>1, <2>3, <2>4
<1>5. /\ t2 \in TurnType /\ t2.state = t.state /\ t2.stage = t.stage /\ t2.step = t.step /\ t2.tools = z
  BY <1>1, <1>3, <1>4 DEF TurnType
<1> HIDE DEF t2
<1>6. TurnOK(r, t2)
  BY <1>1, <1>4, <1>5 DEF TurnOK, TurnFits
<1>7. /\ turns'[r] = t2 /\ OthersStay(turns, turns', r)
      /\ \A j : (OpenTools(t2, j) <=> OpenTools(t, j)) /\ ~OpenModel(t2, j)
  BY <1>1, <1>2, <1>5 DEF OthersStay, OpenModel, OpenTools
<1>8. rows' = rows => RowsFit(turns', rows')
  BY <1>1, <1>4, <1>5, <1>7, RowsStay
<1> QED BY <1>1, <1>2, <1>4, <1>5, <1>6, <1>7, <1>8 DEF CallMoves

LEMMA ToolStartsStep ==
    ASSUME ViewInv, NEW r \in Turns, NEW k \in DOMAIN turns[r].tools, ToolStarts(r, k)
    PROVE  ViewInv'
<1> DEFINE t == turns[r]
           i == t.step
           f == Ev(ToolStart(r), r, i, [j \in {k} |-> "running"])
<1>1. /\ InTools(r) /\ t.tools[k] = "due" /\ turns' = [turns EXCEPT ![r].tools[k] = "running"]
      /\ Heard(NoEvent, f) /\ rows' = rows
  BY DEF ToolStarts
<1>2. /\ t \in TurnType /\ RowsHold /\ rows \in Seq(RowType) /\ i \in StepsOf(r) /\ OpenTools(t, i) /\ t.state = "running"
      /\ \A j \in DOMAIN t.tools : j \in 1..MaxTools
  BY <1>1, ToolFacts
<1>3. PICK t2 :
      /\ turns' = [turns EXCEPT ![r] = t2] /\ TurnOK(r, t2) /\ t2.step = i /\ OpenTools(t2, i)
      /\ DOMAIN t2.tools = DOMAIN t.tools
      /\ \A j \in DOMAIN t.tools : t2.tools[j] = IF j = k THEN "running" ELSE t.tools[j]
      /\ RowsFit(turns', rows')
  <2>1. CallMoves(r, k, "running")
    BY <1>1, OneCall
  <2> QED BY <1>1, <2>1 DEF CallMoves
<1>4. /\ f.type \in Starts /\ f.type \notin Stops \cup Ends \cup {"none"} /\ f.run = r /\ f.step = i /\ DOMAIN f.load = {k}
      /\ f.type \notin {"timeout", "content_start", "content_delta", "content_end", "model_fallback"}
  BY DEF Ev, ToolStart, Starts, Stops, Ends
<1> HIDE DEF f
<1>5. k \in Nat /\ EventFits(f) /\ Concerns(f, r, i) /\ News(f) = {r} /\ Told(f) = f
  <2>1. k \in Nat
    BY <1>2, ViewConstants
  <2> QED BY <1>2, <1>4, <2>1 DEF EventFits, Concerns, News, Told
<1>6. /\ EventFits(NoEvent) /\ Concerns(NoEvent, r, i) /\ NoEvent.type \notin Ends \cup {"content_start", "content_delta"}
  BY DEF EventFits, Ev, Concerns, Ends, NoEvent
<1>7. ASSUME NEW closed \in BOOLEAN, NEW c \in Cell, CellFits(closed, t, rows, r, i, c)
      PROVE  CellFits(closed, t2, rows', r, i, AfterBoth(c, NoEvent, f))
  <2>1. PICK d : d = AfterBoth(c, NoEvent, f)
    OBVIOUS
  <2>2. d = StepAfter(c, f)
    BY <1>4, <1>5, <2>1 DEF AfterBoth, After, NoEvent, Ev
  <2>3. d.text = c.text /\ d.index = c.index \cup {k} /\ d.cards = CardsAfter(c, f)
    BY <1>4, <2>2 DEF StepAfter, TextAfter
  <2>4. ToolCards(t, c)
    BY <1>2, <1>7, ToolCell
  <2>5. ASSUME NEW j \in 1..MaxTools
        PROVE  d.cards[j] = IF j = k THEN Append(c.cards[j], IF f.type = "tool_use_start" THEN "running" ELSE "waiting")
                            ELSE c.cards[j]
    BY <1>4, <2>3 DEF CardsAfter
  <2>6. \A x : Append(<<>>, x) = <<x>>
    OBVIOUS
  <2>7. UnderWay(d, k)
    <3>1. c.cards[k] = <<>> /\ k \in 1..MaxTools
      BY <1>1, <1>2, <2>4 DEF ToolCards
    <3>2. d.cards[k] = Append(<<>>, IF f.type = "tool_use_start" THEN "running" ELSE "waiting")
      BY <2>5, <3>1
    <3>3. d.cards[k] \in {<<"running">>, <<"waiting">>}
      BY <2>6, <3>2
    <3> QED BY <2>3, <3>3 DEF UnderWay
  <2>8. \A j \in 1..MaxTools : j # k => d.cards[j] = c.cards[j] /\ (UnderWay(c, j) => UnderWay(d, j))
    BY <2>3, <2>5 DEF UnderWay
  <2>9. ToolCards(t2, d)
    BY <1>3, <2>4, <2>7, <2>8 DEF ToolCards
  <2>10. CellFits(closed, t2, rows, r, i, d)
    BY <1>2, <1>3, <1>7, <2>3, <2>9, ToolCellFits
  <2> QED BY <1>1, <2>1, <2>10
<1>8. Appended(rows, rows') /\ rows' \in Seq(RowType) /\ \A n \in 1..Len(rows') : ~(n > Len(rows))
  BY <1>1, <1>2, RowsSame
<1>9. r \in News(NoEvent) \cup News(f) /\ f.type # "timeout" /\ f.type \notin {"content_start", "content_delta"}
      /\ \A n \in 1..Len(rows') : n > Len(rows) => rows'[n].run = r /\ rows'[n].step = i
  BY <1>4, <1>5, <1>8
<1>10. Heard(NoEvent, f)
  BY <1>1
<1>11. \A closed \in BOOLEAN : \A c \in Cell :
           t2.state \in Claimed /\ CellFits(closed, t, rows, r, i, c) =>
              CellFits(closed, t2, rows', r, i, AfterBoth(c, NoEvent, f))
  BY <1>7
<1>12. \A c \in Cell :
           t2.state \in Claimed /\ CellFits(TRUE, t, rows, r, i, c) /\ r \notin News(NoEvent) \cup News(f) =>
              CellFits(TRUE, t2, rows', r, i, c)
  BY <1>9
<1>13. NoEvent.type \notin Ends /\ NoEvent.type \notin {"content_start", "content_delta"}
  BY <1>6
<1>21. turns' = [turns EXCEPT ![r] = t2] /\ TurnOK(r, t2) /\ turns[r].state = "running" /\ t2.step = turns[r].step
  BY <1>2, <1>3
<1>22. rows' \in Seq(RowType) /\ RowsFit(turns', rows') /\ Appended(rows, rows')
  BY <1>3, <1>8
<1>23. EventFits(NoEvent) /\ EventFits(f) /\ Heard(NoEvent, f)
       /\ Concerns(NoEvent, r, turns[r].step) /\ Concerns(f, r, turns[r].step)
  BY <1>5, <1>6, <1>10
<1>24. (\A n \in 1..Len(rows') : n > Len(rows) => rows'[n].run = r /\ rows'[n].step = turns[r].step)
       /\ f.type \notin {"content_start", "content_delta"} /\ (f.type = "timeout" => t2.state \notin Claimed)
  BY <1>9
<1> HIDE DEF t, i
<1> QED BY <1>21, <1>22, <1>23, <1>24, <1>11, <1>12, <1>13, HeardWithin DEF t, i

LEMMA ToolEndsStep ==
    ASSUME ViewInv, NEW r \in Turns, NEW k \in DOMAIN turns[r].tools, ToolEnds(r, k)
    PROVE  ViewInv'
<1> DEFINE t == turns[r]
           i == t.step
<1>0. PICK s \in {"success", "error"} :
        /\ turns' = [turns EXCEPT ![r].tools[k] = s]
        /\ Heard(NoEvent, Ev(ToolEnd(r), r, i, [j \in {k} |-> s]))
  BY DEF ToolEnds
<1> DEFINE f == Ev(ToolEnd(r), r, i, [j \in {k} |-> s])
<1>1. /\ InTools(r) /\ t.tools[k] = "running" /\ turns' = [turns EXCEPT ![r].tools[k] = s]
      /\ Heard(NoEvent, f) /\ rows' = rows
  BY <1>0 DEF ToolEnds
<1>2. /\ t \in TurnType /\ RowsHold /\ rows \in Seq(RowType) /\ i \in StepsOf(r) /\ OpenTools(t, i) /\ t.state = "running"
      /\ \A j \in DOMAIN t.tools : j \in 1..MaxTools
  BY <1>1, ToolFacts
<1>3. PICK t2 :
      /\ turns' = [turns EXCEPT ![r] = t2] /\ TurnOK(r, t2) /\ t2.step = i /\ OpenTools(t2, i)
      /\ DOMAIN t2.tools = DOMAIN t.tools
      /\ \A j \in DOMAIN t.tools : t2.tools[j] = IF j = k THEN s ELSE t.tools[j]
      /\ RowsFit(turns', rows')
  <2>1. s \in {"running", "success", "error"}
    OBVIOUS
  <2>2. CallMoves(r, k, s)
    <3>1. InTools(r) /\ turns' = [turns EXCEPT ![r].tools[k] = s]
      BY <1>1
    <3> HIDE DEF t, i, f
    <3> QED BY <2>1, <3>1, OneCall
  <2> QED BY <1>1, <2>2 DEF CallMoves
<1>4. /\ f.type \in Stops /\ f.type \notin Starts \cup Ends \cup {"none"} /\ f.run = r /\ f.step = i /\ f.load = [j \in {k} |-> s]
      /\ f.type \notin {"timeout", "content_start", "content_delta", "content_end", "model_fallback"}
  BY DEF Ev, ToolEnd, Starts, Stops, Ends
<1> HIDE DEF f
<1>5. EventFits(f) /\ Concerns(f, r, i) /\ News(f) = {r} /\ Told(f) = f
  BY <1>2, <1>4 DEF EventFits, Concerns, News, Told, CardStates
<1>6. /\ EventFits(NoEvent) /\ Concerns(NoEvent, r, i) /\ NoEvent.type \notin Ends \cup {"content_start", "content_delta"}
  BY DEF EventFits, Ev, Concerns, Ends, NoEvent
<1>7. ASSUME NEW closed \in BOOLEAN, NEW c \in Cell, CellFits(closed, t, rows, r, i, c)
      PROVE  CellFits(closed, t2, rows', r, i, AfterBoth(c, NoEvent, f))
  <2>1. PICK d : d = AfterBoth(c, NoEvent, f)
    OBVIOUS
  <2>2. d = StepAfter(c, f)
    BY <1>4, <1>5, <2>1 DEF AfterBoth, After, NoEvent, Ev
  <2>3. d.text = c.text /\ d.index = c.index /\ d.cards = CardsAfter(c, f)
    BY <1>4, <2>2 DEF StepAfter, TextAfter
  <2>4. ToolCards(t, c) /\ k \in 1..MaxTools
    BY <1>2, <1>7, ToolCell
  <2>5. UnderWay(c, k)
    BY <1>1, <2>4 DEF ToolCards
  <2>6. d.cards[k] = <<s>>
    <3>1. d.cards[k] = WithLast(c.cards[k], s)
      BY <1>4, <2>3, <2>4, <2>5 DEF CardsAfter, UnderWay
    <3>2. \A x, y : WithLast(<<x>>, y) = <<y>>
      BY DEF WithLast
    <3> QED BY <2>5, <3>1, <3>2 DEF UnderWay
  <2>7. \A j \in 1..MaxTools : j # k => d.cards[j] = c.cards[j]
    BY <1>4, <2>3 DEF CardsAfter
  <2>8. \A j \in 1..MaxTools : j # k => (UnderWay(c, j) => UnderWay(d, j))
    BY <2>3, <2>7 DEF UnderWay
  <2>9. ToolCards(t2, d)
    BY <1>3, <2>4, <2>6, <2>7, <2>8 DEF ToolCards
  <2>10. CellFits(closed, t2, rows, r, i, d)
    BY <1>2, <1>3, <1>7, <2>3, <2>9, ToolCellFits
  <2> QED BY <1>1, <2>1, <2>10
<1>8. Appended(rows, rows') /\ rows' \in Seq(RowType) /\ \A n \in 1..Len(rows') : ~(n > Len(rows))
  BY <1>1, <1>2, RowsSame
<1>9. r \in News(NoEvent) \cup News(f) /\ f.type # "timeout" /\ f.type \notin {"content_start", "content_delta"}
      /\ \A n \in 1..Len(rows') : n > Len(rows) => rows'[n].run = r /\ rows'[n].step = i
  BY <1>4, <1>5, <1>8
<1>10. Heard(NoEvent, f)
  BY <1>1
<1>11. \A closed \in BOOLEAN : \A c \in Cell :
           t2.state \in Claimed /\ CellFits(closed, t, rows, r, i, c) =>
              CellFits(closed, t2, rows', r, i, AfterBoth(c, NoEvent, f))
  BY <1>7
<1>12. \A c \in Cell :
           t2.state \in Claimed /\ CellFits(TRUE, t, rows, r, i, c) /\ r \notin News(NoEvent) \cup News(f) =>
              CellFits(TRUE, t2, rows', r, i, c)
  BY <1>9
<1>13. NoEvent.type \notin Ends /\ NoEvent.type \notin {"content_start", "content_delta"}
  BY <1>6
<1>21. turns' = [turns EXCEPT ![r] = t2] /\ TurnOK(r, t2) /\ turns[r].state = "running" /\ t2.step = turns[r].step
  BY <1>2, <1>3
<1>22. rows' \in Seq(RowType) /\ RowsFit(turns', rows') /\ Appended(rows, rows')
  BY <1>3, <1>8
<1>23. EventFits(NoEvent) /\ EventFits(f) /\ Heard(NoEvent, f)
       /\ Concerns(NoEvent, r, turns[r].step) /\ Concerns(f, r, turns[r].step)
  BY <1>5, <1>6, <1>10
<1>24. (\A n \in 1..Len(rows') : n > Len(rows) => rows'[n].run = r /\ rows'[n].step = turns[r].step)
       /\ f.type \notin {"content_start", "content_delta"} /\ (f.type = "timeout" => t2.state \notin Claimed)
  BY <1>9
<1> HIDE DEF t, i
<1> QED BY <1>21, <1>22, <1>23, <1>24, <1>11, <1>12, <1>13, HeardWithin DEF t, i

-----------------------------------------------------------------------------
(* A run ends, or its round does.                                          *)
BecomesOver(r, state, t2) ==
    /\ turns' = [turns EXCEPT ![r] = t2] /\ TurnOK(r, t2)
    /\ t2.state = state /\ t2.step = turns[r].step /\ t2.tools = <<>>

LEMMA OverTurn ==
    ASSUME ViewInv, NEW r \in Turns, NEW state \in Terminal,
           turns' = [turns EXCEPT ![r].state = state, ![r].text = <<>>, ![r].tools = <<>>]
    PROVE  \E t2 : BecomesOver(r, state, t2)
<1> DEFINE t == turns[r]
           t2 == [t EXCEPT !.state = state, !.text = <<>>, !.tools = <<>>]
<1>1. turns \in [Turns -> TurnType] /\ t \in TurnType /\ TurnOK(r, t)
  BY InvParts DEF TurnsOK
<1>2. turns' = [turns EXCEPT ![r] = t2]
  BY <1>1
<1>3. t2 \in TurnType /\ t2.state = state /\ t2.step = t.step /\ t2.tools = <<>> /\ state # "none"
  <2>1. <<>> \in Seq(CallStates) /\ <<>> \in Seq(Nat)
    OBVIOUS
  <2> QED BY <1>1, <2>1 DEF TurnType, Terminal
<1> HIDE DEF t2
<1>4. TurnOK(r, t2)
  <2>1. Len(<<>>) = 0 /\ <<>> \in Seq({"due", "running", "success", "error"})
    OBVIOUS
  <2> QED BY <1>1, <1>3, <2>1, ViewConstants DEF TurnOK, TurnFits
<1> QED BY <1>2, <1>3, <1>4 DEF BecomesOver

(* The row of the results: what it says of its step.                       *)
ResultRow(r, w) ==
    /\ w \in RowType /\ w.run = r /\ w.step = turns[r].step /\ w.kind = "tool_result"
    /\ w.tools \in Seq({"success", "error", "cancelled"}) /\ Len(w.tools) = Len(turns[r].tools)

LEMMA ResultCell ==
    ASSUME RowsHold, NEW r \in Turns, OpenTools(turns[r], turns[r].step), NEW w, ResultRow(r, w),
           NEW t2, ~OpenModel(t2, turns[r].step), ~OpenTools(t2, turns[r].step),
           NEW closed \in BOOLEAN, NEW c, CellFits(closed, turns[r], rows, r, turns[r].step, c),
           \A k \in 1..MaxTools : c.cards[k] = <<>> \/ (k \in DOMAIN w.tools /\ c.cards[k] = <<w.tools[k]>>)
    PROVE  CellFits(closed, t2, Append(rows, w), r, turns[r].step, c)
<1> DEFINE i == turns[r].step
           rr2 == Append(rows, w)
<1>1. \A n \in 1..Len(rows) : ~ResultAt(rows, n, r, i)
  BY ToolCell
<1>2. /\ \A n \in 1..Len(rows) : rr2[n] = rows[n] /\ n \in 1..Len(rr2)
      /\ rr2[Len(rows) + 1] = w /\ Len(rows) + 1 \in 1..Len(rr2)
      /\ \A n \in 1..Len(rr2) : n \in 1..Len(rows) \/ n = Len(rows) + 1
  BY RowAppended DEF RowsHold, Appended, ResultRow
<1> HIDE DEF rr2
<1>3. /\ \A n \in 1..Len(rr2) : ResultAt(rr2, n, r, i) => n = Len(rows) + 1
      /\ ResultAt(rr2, Len(rows) + 1, r, i)
      /\ \A n \in 1..Len(rr2) : UseAt(rr2, n, r, i) => n \in 1..Len(rows) /\ UseAt(rows, n, r, i) /\ rr2[n] = rows[n]
      /\ \A n \in 1..Len(rows) : UseAt(rows, n, r, i) => n \in 1..Len(rr2) /\ UseAt(rr2, n, r, i)
  BY <1>1, <1>2 DEF UseAt, ResultAt, ResultRow
<1>4. ~OpenModel(turns[r], i)
  BY DEF OpenModel, OpenTools
<1>5. TextFits(closed, t2, rr2, r, i, c)
  BY <1>3, <1>4 DEF CellFits, TextFits
<1>6. ASSUME NEW k \in 1..MaxTools PROVE CardFits(t2, rr2, r, i, c, k)
  BY <1>2, <1>3 DEF CardFits
<1>7. CellFits(closed, t2, rr2, r, i, c)
  BY <1>5, <1>6 DEF CellFits
<1> QED BY <1>7 DEF rr2

(* The end of a run in a round of tools.                                   *)
LEMMA ResultsHeard ==
    ASSUME ViewInv, NEW r \in Turns, InTools(r), NEW w, ResultRow(r, w), rows' = Append(rows, w),
           NEW t2, NEW state \in Terminal, BecomesOver(r, state, t2),
           NEW e, NEW f, EventFits(e), EventFits(f), Heard(e, f), e.type \in {"none"} \cup Stops,
           f.type \in {"none"} \cup Ends, Concerns(e, r, turns[r].step), Concerns(f, r, turns[r].step),
           f.type = "timeout" => state \notin Claimed,
           state \in Claimed => /\ e.type = "none"
                                /\ \A k \in DOMAIN turns[r].tools :
                                      \/ turns[r].tools[k] = "due"
                                      \/ turns[r].tools[k] \in {"success", "error"} /\ w.tools[k] = turns[r].tools[k]
    PROVE  ViewInv'
<1> DEFINE t == turns[r]
           i == t.step
<1>1. /\ t \in TurnType /\ RowsHold /\ rows \in Seq(RowType) /\ i \in StepsOf(r) /\ i \in Nat /\ OpenTools(t, i)
      /\ t.state = "running" /\ RowsFit(turns, rows) /\ turns \in [Turns -> TurnType]
      /\ t.tools \in Seq({"due", "running", "success", "error"})
  BY ToolFacts
<1>2. /\ turns' = [turns EXCEPT ![r] = t2] /\ TurnOK(r, t2) /\ t2.step = i /\ t2.state = state
      /\ turns'[r] = t2 /\ OthersStay(turns, turns', r) /\ state \notin {"none", "running"}
      /\ ~OpenModel(t2, i) /\ ~OpenTools(t2, i)
  BY <1>1 DEF BecomesOver, OthersStay, OpenModel, OpenTools, Terminal
<1>3. w \in RowType /\ w.run = r /\ w.step = i
  BY DEF ResultRow
<1>4. RowsFit(turns', rows')
  <2>1. /\ w.kind = "tool_result" /\ w.tools \in Seq({"success", "error", "cancelled"})
        /\ Len(w.tools) = Len(turns[r].tools) /\ turns'[r].state # "none"
        /\ turns'[r].state # "running" /\ turns'[r].step = turns[r].step
    BY <1>2 DEF ResultRow
  <2>2. OpenTools(turns[r], turns[r].step) /\ w.step = turns[r].step /\ turns[r].step \in Nat
    BY <1>1, <1>3
  <2> HIDE DEF t, i
  <2>3. RowsFit(turns', Append(rows, w))
    BY <1>1, <1>2, <1>3, <2>1, <2>2, RowsResults
  <2> QED BY <2>3
<1>5. /\ rows' \in Seq(RowType) /\ Appended(rows, rows')
      /\ \A n \in 1..Len(rows') : n > Len(rows) => rows'[n].run = r /\ rows'[n].step = i
  BY <1>1, <1>3, RowAppended
<1>6. e.type \notin Ends \cup {"content_start", "content_delta"} /\ f.type \notin {"content_start", "content_delta"}
  BY DEF Ends, Stops
<1>7. ASSUME NEW closed \in BOOLEAN, NEW c \in Cell, state \in Claimed, CellFits(closed, t, rows, r, i, c)
      PROVE  CellFits(closed, t2, rows', r, i, c) /\ AfterBoth(c, e, f) = c
  <2>1. ToolCards(t, c)
    BY <1>1, <1>7, ToolCell
  <2>2. DOMAIN w.tools = DOMAIN t.tools
    <3>1. w.tools \in Seq({"success", "error", "cancelled"}) /\ Len(w.tools) = Len(t.tools)
      BY DEF ResultRow
    <3> QED BY <1>1, <3>1
  <2>3. \A k \in 1..MaxTools : c.cards[k] = <<>> \/ (k \in DOMAIN w.tools /\ c.cards[k] = <<w.tools[k]>>)
    BY <1>7, <2>1, <2>2 DEF ToolCards
  <2>4. CellFits(closed, t2, Append(rows, w), r, i, c)
    BY <1>1, <1>2, <1>7, <2>3, ResultCell
  <2>5. AfterBoth(c, e, f) = c
    BY <1>7 DEF AfterBoth, After, Told, NoEvent, Ev
  <2> QED BY <2>4, <2>5
<1>11. \A closed \in BOOLEAN : \A c \in Cell :
           t2.state \in Claimed /\ CellFits(closed, t, rows, r, i, c) =>
              CellFits(closed, t2, rows', r, i, AfterBoth(c, e, f))
  BY <1>2, <1>7
<1>12. \A c \in Cell :
           t2.state \in Claimed /\ CellFits(TRUE, t, rows, r, i, c) /\ r \notin News(e) \cup News(f) =>
              CellFits(TRUE, t2, rows', r, i, c)
  BY <1>2, <1>7
<1>13. e.type \notin Ends /\ e.type \notin {"content_start", "content_delta"}
  BY <1>6
<1>21. turns' = [turns EXCEPT ![r] = t2] /\ TurnOK(r, t2) /\ turns[r].state = "running" /\ t2.step = turns[r].step
  BY <1>1, <1>2
<1>22. rows' \in Seq(RowType) /\ RowsFit(turns', rows') /\ Appended(rows, rows')
  BY <1>4, <1>5
<1>24. (\A n \in 1..Len(rows') : n > Len(rows) => rows'[n].run = r /\ rows'[n].step = turns[r].step)
       /\ f.type \notin {"content_start", "content_delta"} /\ (f.type = "timeout" => t2.state \notin Claimed)
  BY <1>2, <1>5, <1>6
<1> HIDE DEF t, i
<1> QED BY <1>21, <1>22, <1>24, <1>11, <1>12, <1>13, HeardWithin DEF t, i

(* What the client is told at the end of a run.                            *)
LEMMA EndEvent ==
    ASSUME NEW r \in Turns, NEW i, NEW state \in {"finished", "cancelled", "timeout"}, NEW f,
           f = IF state = "finished" THEN Ev("done", r, i, <<>>)
               ELSE IF IsSub(r) THEN NoEvent ELSE Ev(state, r, i, <<>>)
    PROVE  /\ EventFits(f) /\ Concerns(f, r, i) /\ f.type \in {"none"} \cup Ends
           /\ f.type = "timeout" => state \notin Claimed
           /\ EventFits(NoEvent) /\ Concerns(NoEvent, r, i) /\ NoEvent.type = "none"
           /\ state \in Terminal
  BY DEF EventFits, Concerns, NoEvent, Ev, Ends, Claimed, Terminal

LEMMA BudgetSpentStep ==
    ASSUME ViewInv, NEW r \in Turns, BudgetSpent(r)
    PROVE  ViewInv'
<1> DEFINE i == turns[r].step
           z == [k \in DOMAIN turns[r].tools |-> "error"]
           w == Row("tool_result", r, <<>>, z)
           f == Ev("done", r, i, <<>>)
<1>1. /\ InTools(r) /\ \A k \in DOMAIN turns[r].tools : turns[r].tools[k] = "due"
      /\ rows' = Append(rows, w) /\ Heard(NoEvent, f)
      /\ turns' = [turns EXCEPT ![r].state = "finished", ![r].text = <<>>, ![r].tools = <<>>]
  BY DEF BudgetSpent, Over, Results
<1>2. ResultRow(r, w)
  <2>1. i \in Nat /\ turns[r].tools \in Seq({"due", "running", "success", "error"})
    BY <1>1, ToolFacts
  <2>2. z \in Seq({"success", "error", "cancelled"}) /\ z \in Seq(CallStates) /\ Len(z) = Len(turns[r].tools)
    <3>1. Len(turns[r].tools) \in Nat /\ DOMAIN turns[r].tools = 1..Len(turns[r].tools)
      BY <2>1
    <3> QED BY <3>1 DEF CallStates
  <2>3. <<>> \in Seq(Nat)
    OBVIOUS
  <2> HIDE DEF z
  <2> QED BY <2>1, <2>2, <2>3 DEF ResultRow, Row, RowType
<1>3. PICK t2 : BecomesOver(r, "finished", t2)
  <2>1. "finished" \in Terminal
    BY DEF Terminal
  <2> QED BY <1>1, <2>1, OverTurn
<1>4. f = IF "finished" = "finished" THEN Ev("done", r, i, <<>>)
          ELSE IF IsSub(r) THEN NoEvent ELSE Ev("finished", r, i, <<>>)
  OBVIOUS
<1> HIDE DEF w, f
<1>5. /\ EventFits(f) /\ Concerns(f, r, i) /\ f.type \in {"none"} \cup Ends
      /\ f.type = "timeout" => "finished" \notin Claimed
      /\ EventFits(NoEvent) /\ Concerns(NoEvent, r, i) /\ NoEvent.type = "none" /\ "finished" \in Terminal
  BY <1>4, EndEvent
<1> QED BY <1>1, <1>2, <1>3, <1>5, ResultsHeard

(* A step that the client does not hear.                                   *)
LEMMA SilentStep ==
    ASSUME ViewInv, NEW r \in Turns, NEW t2, turns' = [turns EXCEPT ![r] = t2], TurnOK(r, t2),
           rows' \in Seq(RowType), RowsFit(turns', rows'), Appended(rows, rows'),
           \A n \in 1..Len(rows') : n > Len(rows) => rows'[n].run = r,
           UNCHANGED <<shown, kept, ended, syncs, torn>>,
           \A closed \in BOOLEAN : \A i \in StepsOf(r) : \A c \in Cell :
              t2.state \in Claimed /\ CellFits(closed, turns[r], rows, r, i, c) => CellFits(closed, t2, rows', r, i, c),
           t2.state \in Claimed => turns[r].state \in Claimed
    PROVE  ViewInv'
<1> DEFINE i0 == turns[r].step
<1>1. RunMoved(r) /\ turns'[r] = t2 /\ i0 \in StepsOf(r)
  BY TurnMoves
<1>2. ViewTypeOK /\ Claims /\ SeenOK /\ shown \in Views
  BY InvParts DEF ViewInv, SeenOK
<1>3. ASSUME NEW closed \in BOOLEAN
      PROVE  Moves(closed, turns[r], turns'[r], rows, rows', r, i0, NoEvent, NoEvent)
  <2>1. SUFFICES ASSUME t2.state \in Claimed, NEW i \in StepsOf(r), NEW c \in Cell, CellFits(closed, turns[r], rows, r, i, c)
                 PROVE  CellFits(closed, t2, rows', r, i, IF i = i0 THEN AfterBoth(c, NoEvent, NoEvent) ELSE c)
    BY <1>1 DEF Moves
  <2>2. (IF i = i0 THEN AfterBoth(c, NoEvent, NoEvent) ELSE c) = c
    BY UnheardCell
  <2>3. CellFits(closed, t2, rows', r, i, c)
    BY <2>1
  <2> QED BY <2>2, <2>3
<1>4. Concerns(NoEvent, r, i0) /\ NoEvent.type \notin Ends /\ EventFits(NoEvent)
  BY NothingReduced DEF Concerns, NoEvent, Ev, Ends
<1>5. ASSUME NEW q \in Turns \ torn'.shown PROVE RunFits(FALSE, turns'[q], rows', q, shown')
  <2>1. RunFits(FALSE, turns[q], rows, q, shown) /\ shown' = shown
    BY <1>2, <1>5 DEF Claims
  <2>2. Moves(FALSE, turns[r], turns'[r], rows, rows', r, i0, NoEvent, NoEvent)
    BY <1>3
  <2>3. RunFits(FALSE, turns'[q], rows', q, Reduced(Reduced(shown, NoEvent), NoEvent))
    BY <1>1, <1>2, <1>4, <2>1, <2>2, AllFit
  <2> QED BY <2>1, <2>3, NothingReduced
<1>6. Claims'
  <2>1. Moves(TRUE, turns[r], turns'[r], rows, rows', r, i0, NoEvent, NoEvent)
    BY <1>3
  <2> QED BY <1>1, <1>2, <1>5, <2>1, SilentClaims
<1>7. SeenOK'
  BY <1>2 DEF SeenOK
<1> QED BY <1>6, <1>7, TurnMoves

(* The cell of a step that a run has not come to.                          *)
LEMMA NextCell ==
    ASSUME RowsHold, NEW r \in Turns, turns[r].state = "running", turns[r].step \in Nat, NEW i, i = turns[r].step + 1,
           NEW rr2, Appended(rows, rr2), \A n \in 1..Len(rr2) : n > Len(rows) => rr2[n].step # i,
           NEW t2, ~OpenTools(t2, i),
           NEW closed \in BOOLEAN, NEW c, CellFits(closed, turns[r], rows, r, i, c)
    PROVE  CellFits(closed, t2, rr2, r, i, c)
<1>1. CellFits(closed, turns[r], rr2, r, i, c)
  BY OtherRows DEF UseAt, ResultAt
<1>2. ~OpenModel(turns[r], i) /\ ~OpenTools(turns[r], i)
  BY DEF OpenModel, OpenTools
<1>3. \A n \in 1..Len(rr2) : ~UseAt(rr2, n, r, i) /\ ~ResultAt(rr2, n, r, i)
  <2>1. \A n \in 1..Len(rows) : rows[n].run = r => rows[n].step \in 0..turns[r].step
    BY DEF RowsHold, RowsFit, RowFits, Placed
  <2>2. \A n \in 1..Len(rows) : rows[n].run = r => rows[n].step # i
    BY <2>1
  <2>3. \A n \in 1..Len(rr2) : n > Len(rows) \/ (n \in 1..Len(rows) /\ rr2[n] = rows[n])
    BY DEF Appended
  <2> QED BY <2>2, <2>3 DEF UseAt, ResultAt
<1>4. TextFits(closed, t2, rr2, r, i, c)
  BY <1>1, <1>2, <1>3 DEF CellFits, TextFits
<1>5. ASSUME NEW k \in 1..MaxTools PROVE CardFits(t2, rr2, r, i, c, k)
  <2>1. CardFits(turns[r], rr2, r, i, c, k)
    BY <1>1 DEF CellFits
  <2> QED BY <1>2, <1>3, <2>1 DEF CardFits
<1> QED BY <1>4, <1>5 DEF CellFits

LEMMA ToolsOverStep ==
    ASSUME ViewInv, NEW r \in Turns, ToolsOver(r)
    PROVE  ViewInv'
<1> DEFINE t == turns[r]
           i == t.step
           w == Row("tool_result", r, <<>>, t.tools)
           f == Ev("done", r, i, <<>>)
           t3 == [t EXCEPT !.step = @ + 1, !.stage = "model", !.attempt = 1, !.tools = <<>>]
<1>1. /\ InTools(r) /\ \A k \in DOMAIN t.tools : t.tools[k] \in {"success", "error"}
      /\ rows' = Append(rows, w)
  BY DEF ToolsOver, Results
<1>2. \/ /\ Heard(NoEvent, f)
         /\ turns' = [turns EXCEPT ![r].state = "finished", ![r].text = <<>>, ![r].tools = <<>>]
      \/ /\ i + 1 # MaxSteps[r]
         /\ turns' = [turns EXCEPT ![r].step = @ + 1, ![r].stage = "model", ![r].attempt = 1, ![r].tools = <<>>]
         /\ UNCHANGED <<shown, kept, ended, syncs, torn>>
  BY DEF ToolsOver, Over
<1>3. /\ t \in TurnType /\ TurnOK(r, t) /\ RowsHold /\ rows \in Seq(RowType) /\ i \in StepsOf(r) /\ i \in Nat
      /\ OpenTools(t, i) /\ t.state = "running" /\ t.stage = "tools" /\ RowsFit(turns, rows)
      /\ turns \in [Turns -> TurnType] /\ t.tools \in Seq({"due", "running", "success", "error"}) /\ t.state \in Claimed
  BY <1>1, ToolFacts
<1>4. ResultRow(r, w)
  <2>1. t.tools \in Seq({"success", "error", "cancelled"}) /\ t.tools \in Seq(CallStates)
    <3>1. PICK z : z = t.tools
      OBVIOUS
    <3>2. z \in Seq({"due", "running", "success", "error"}) /\ \A k \in DOMAIN z : z[k] \in {"success", "error"}
      BY <1>1, <1>3, <3>1
    <3>3. Len(z) \in Nat /\ z \in [1..Len(z) -> {"due", "running", "success", "error"}] /\ DOMAIN z = 1..Len(z)
      BY <3>2
    <3>4. z \in [1..Len(z) -> {"success", "error", "cancelled"}]
      BY <3>2, <3>3
    <3>5. z \in Seq({"success", "error", "cancelled"})
      BY <3>3, <3>4
    <3> QED BY <1>3, <3>1, <3>5 DEF TurnType
  <2>2. <<>> \in Seq(Nat)
    OBVIOUS
  <2> QED BY <1>3, <2>1, <2>2 DEF ResultRow, Row, RowType
<1>5. w.tools = t.tools
  BY DEF Row
<1> HIDE DEF w
<1>6. CASE /\ Heard(NoEvent, f)
           /\ turns' = [turns EXCEPT ![r].state = "finished", ![r].text = <<>>, ![r].tools = <<>>]
  <2>1. PICK t2 : BecomesOver(r, "finished", t2)
    <3>1. "finished" \in Terminal
      BY DEF Terminal
    <3> QED BY <1>6, <3>1, OverTurn
  <2>2. f = IF "finished" = "finished" THEN Ev("done", r, i, <<>>)
            ELSE IF IsSub(r) THEN NoEvent ELSE Ev("finished", r, i, <<>>)
    OBVIOUS
  <2> HIDE DEF f
  <2>3. /\ EventFits(f) /\ Concerns(f, r, i) /\ f.type \in {"none"} \cup Ends
        /\ f.type = "timeout" => "finished" \notin Claimed
        /\ EventFits(NoEvent) /\ Concerns(NoEvent, r, i) /\ NoEvent.type = "none" /\ "finished" \in Terminal
    BY <2>2, EndEvent
  <2> QED BY <1>1, <1>4, <1>5, <1>6, <2>1, <2>3, ResultsHeard
<1>7. CASE /\ i + 1 # MaxSteps[r]
           /\ turns' = [turns EXCEPT ![r].step = @ + 1, ![r].stage = "model", ![r].attempt = 1, ![r].tools = <<>>]
           /\ UNCHANGED <<shown, kept, ended, syncs, torn>>
  <2>1. turns' = [turns EXCEPT ![r] = t3]
    BY <1>3, <1>7
  <2>2. t3 \in TurnType /\ t3.state = "running" /\ t3.stage = "model" /\ t3.step = i + 1 /\ t3.tools = <<>>
    <3>1. <<>> \in Seq(CallStates) /\ 1 \in 1..(MaxTries + 1) /\ i + 1 \in Nat
      BY <1>3, ViewConstants
    <3> QED BY <1>3, <3>1 DEF TurnType
  <2> HIDE DEF t3
  <2>3. TurnOK(r, t3)
    <3>1. Len(<<>>) = 0 /\ <<>> \in Seq({"due", "running", "success", "error"})
      OBVIOUS
    <3>2. i + 1 \in StepsOf(r)
      BY <1>3, <1>7, ViewConstants DEF StepsOf
    <3> QED BY <2>2, <3>1, <3>2, ViewConstants DEF TurnOK, TurnFits
  <2>4. turns'[r] = t3 /\ OthersStay(turns, turns', r)
    BY <1>3, <2>1 DEF OthersStay
  <2>5. w \in RowType /\ w.run = r /\ w.step = i /\ w.kind = "tool_result"
        /\ w.tools \in Seq({"success", "error", "cancelled"}) /\ Len(w.tools) = Len(turns[r].tools)
    BY <1>4 DEF ResultRow
  <2>6. RowsFit(turns', rows')
    <3>1. /\ OpenTools(turns[r], turns[r].step) /\ w.step = turns[r].step /\ turns[r].step \in Nat
          /\ turns'[r].state # "none" /\ turns'[r].state = "running" /\ turns'[r].stage = "model"
          /\ turns'[r].step = turns[r].step + 1
      BY <1>3, <2>2, <2>4, <2>5
    <3> HIDE DEF t, i
    <3>2. RowsFit(turns', Append(rows, w))
      BY <1>3, <2>4, <2>5, <3>1, RowsResults
    <3> QED BY <1>1, <3>2
  <2>7. /\ rows' \in Seq(RowType) /\ Appended(rows, rows')
        /\ \A n \in 1..Len(rows') : n > Len(rows) => rows'[n].run = r /\ rows'[n].step = i
    BY <1>1, <1>3, <2>5, RowAppended
  <2>8. ASSUME NEW closed \in BOOLEAN, NEW j \in StepsOf(r), NEW c \in Cell, CellFits(closed, t, rows, r, j, c)
        PROVE  CellFits(closed, t3, rows', r, j, c)
    <3>1. CASE j = i
      <4>1. CellFits(closed, t, rows, r, i, c)
        BY <2>8, <3>1
      <4>2. ToolCards(t, c)
        BY <1>3, <4>1, ToolCell
      <4>3. \A k \in 1..MaxTools : c.cards[k] = <<>> \/ (k \in DOMAIN w.tools /\ c.cards[k] = <<w.tools[k]>>)
        BY <1>1, <1>5, <4>2 DEF ToolCards
      <4>4. ~OpenModel(t3, i) /\ ~OpenTools(t3, i)
        BY <1>3, <2>2 DEF OpenModel, OpenTools
      <4>5. CellFits(closed, t3, Append(rows, w), r, i, c)
        BY <1>3, <1>4, <4>1, <4>3, <4>4, ResultCell
      <4> QED BY <1>1, <3>1, <4>5
    <3>2. CASE j = i + 1
      <4>1. ~OpenTools(t3, j)
        BY <2>2 DEF OpenTools
      <4>2. \A n \in 1..Len(rows') : n > Len(rows) => rows'[n].step # j
        BY <1>3, <2>7, <3>2
      <4> QED BY <1>3, <2>7, <2>8, <3>2, <4>1, <4>2, NextCell
    <3>3. CASE j # i /\ j # i + 1
      <4>1. \A n \in 1..Len(rows') : n > Len(rows) => rows'[n].step # j
        BY <2>7, <3>3
      <4>2. j # t.step /\ j # t3.step
        BY <2>2, <3>3
      <4> HIDE DEF t, i
      <4> QED BY <2>7, <2>8, <4>1, <4>2, OtherSteps
    <3> QED BY <3>1, <3>2, <3>3
  <2>9. UNCHANGED <<shown, kept, ended, syncs, torn>>
    BY <1>7
  <2>10. \A n \in 1..Len(rows') : n > Len(rows) => rows'[n].run = r
    BY <2>7
  <2>11. turns[r].state \in Claimed
    BY <1>3
  <2>12. \A closed \in BOOLEAN : \A j \in StepsOf(r) : \A c \in Cell :
           t3.state \in Claimed /\ CellFits(closed, turns[r], rows, r, j, c) => CellFits(closed, t3, rows', r, j, c)
    BY <2>8
  <2> HIDE DEF t, i
  <2> QED BY <2>1, <2>3, <2>6, <2>7, <2>9, <2>10, <2>11, <2>12, SilentStep
<1> QED BY <1>2, <1>6, <1>7

-----------------------------------------------------------------------------
(* The context of a run is done.                                           *)
LEMMA CutOffStep ==
    ASSUME ViewInv, NEW r \in Turns, NEW state \in {"cancelled", "timeout"}, CutOff(r, state)
    PROVE  ViewInv'
<1> DEFINE t == turns[r]
           i == t.step
           begun == {k \in DOMAIN t.tools : t.tools[k] = "running"}
           closed == [k \in DOMAIN t.tools |->
                        IF t.tools[k] \in {"running", "due"} THEN "cancelled" ELSE t.tools[k]]
           w == Row("tool_result", r, <<>>, closed)
           p == Row("assistant_partial", r, t.text, <<>>)
           e == IF begun = {} THEN NoEvent ELSE Ev(ToolEnd(r), r, i, [k \in begun |-> "cancelled"])
           f == IF IsSub(r) THEN NoEvent ELSE Ev(state, r, i, <<>>)
<1>1. /\ t.state = "running" /\ Heard(e, f)
      /\ turns' = [turns EXCEPT ![r].state = state, ![r].text = <<>>, ![r].tools = <<>>]
      /\ rows' = IF InTools(r) THEN Append(rows, w) ELSE IF t.text # <<>> THEN Append(rows, p) ELSE rows
  BY DEF CutOff, Over, Results, Assistant
<1>2. /\ turns \in [Turns -> TurnType] /\ t \in TurnType /\ TurnOK(r, t) /\ RowsHold /\ rows \in Seq(RowType)
      /\ RowsFit(turns, rows) /\ i \in StepsOf(r) /\ i \in Nat /\ t.text \in Seq(Nat)
      /\ t.tools \in Seq({"due", "running", "success", "error"})
  BY InvParts DEF TurnsOK, TurnOK, TurnType, TurnFits, RowsHold
<1>3. state \in Terminal /\ state \notin Claimed /\ state # "finished" /\ state \in {"finished", "cancelled", "timeout"}
  BY DEF Terminal, Claimed
<1>4. PICK t2 : BecomesOver(r, state, t2)
  BY <1>1, <1>3, OverTurn
<1>5. /\ EventFits(e) /\ Concerns(e, r, i) /\ e.type \in {"none"} \cup Stops
  BY <1>2 DEF EventFits, Concerns, NoEvent, Ev, Ends, Stops, ToolEnd, CardStates
<1>6. f = IF state = "finished" THEN Ev("done", r, i, <<>>)
          ELSE IF IsSub(r) THEN NoEvent ELSE Ev(state, r, i, <<>>)
  BY <1>3
<1> HIDE DEF e, f
<1>7. /\ EventFits(f) /\ Concerns(f, r, i) /\ f.type \in {"none"} \cup Ends
  BY <1>3, <1>6, EndEvent
<1>8. CASE InTools(r)
  <2>1. ResultRow(r, w)
    <3>1. closed \in Seq({"success", "error", "cancelled"}) /\ closed \in Seq(CallStates) /\ Len(closed) = Len(t.tools)
      <4>1. Len(t.tools) \in Nat /\ DOMAIN t.tools = 1..Len(t.tools)
            /\ \A k \in 1..Len(t.tools) : t.tools[k] \in {"due", "running", "success", "error"}
        BY <1>2
      <4>2. closed \in [1..Len(t.tools) -> {"success", "error", "cancelled"}]
        BY <4>1
      <4>3. closed \in Seq({"success", "error", "cancelled"}) /\ Len(closed) = Len(t.tools)
        <5> HIDE DEF closed
        <5> QED BY <4>1, <4>2
      <4>4. closed \in Seq(CallStates)
        BY <4>3 DEF CallStates
      <4> QED BY <4>3, <4>4
    <3>2. <<>> \in Seq(Nat)
      OBVIOUS
    <3> HIDE DEF closed
    <3> QED BY <1>2, <3>1, <3>2 DEF ResultRow, Row, RowType
  <2>2. rows' = Append(rows, w)
    BY <1>1, <1>8
  <2> HIDE DEF w, t, i
  <2> QED BY <1>1, <1>3, <1>4, <1>5, <1>7, <1>8, <2>1, <2>2, ResultsHeard DEF i, t
<1>9. CASE ~InTools(r)
  <2>1. t.stage = "model" /\ OpenModel(t, i)
    BY <1>1, <1>2, <1>9 DEF InTools, TurnType, OpenModel
  <2>2. /\ turns' = [turns EXCEPT ![r] = t2] /\ TurnOK(r, t2) /\ t2.step = i /\ t2.state = state
        /\ turns'[r] = t2 /\ OthersStay(turns, turns', r)
        /\ \A j : ~OpenModel(t2, j) /\ ~OpenTools(t2, j) /\ ~OpenTools(t, j)
    BY <1>2, <1>4, <2>1 DEF BecomesOver, OthersStay, OpenModel, OpenTools
  <2>3. /\ p \in RowType /\ p.run = r /\ p.step = i /\ p.kind = "assistant_partial" /\ p.tools = <<>>
    <3>1. <<>> \in Seq(CallStates)
      OBVIOUS
    <3> QED BY <1>2, <3>1 DEF Row, RowType
  <2>4. rows' \in {rows, Append(rows, p)}
    BY <1>1, <1>9
  <2> HIDE DEF p
  <2>5. RowsFit(turns', rows)
    BY <1>1, <1>2, <1>3, <2>2, RowsStay DEF Claimed
  <2>6. RowsFit(turns', Append(rows, p))
    <3>1. /\ p.step = turns[r].step /\ OpenModel(turns[r], turns[r].step) /\ turns[r].step \in Nat
          /\ turns'[r].step = turns[r].step /\ turns'[r].state # "none"
          /\ p.kind = "assistant_partial" /\ p.tools = <<>> /\ turns'[r].state \notin Claimed
      BY <1>2, <1>3, <2>1, <2>2, <2>3
    <3> HIDE DEF t, i
    <3> QED BY <1>2, <2>2, <2>3, <3>1, RowsSpoken
  <2>7. /\ rows' \in Seq(RowType) /\ Appended(rows, rows')
        /\ \A n \in 1..Len(rows') : n > Len(rows) => rows'[n].run = r /\ rows'[n].step = i
    <3>1. CASE rows' = rows
      BY <1>2, <3>1, RowsSame
    <3>2. CASE rows' = Append(rows, p)
      BY <1>2, <2>3, <3>2, RowAppended
    <3> QED BY <2>4, <3>1, <3>2
  <2>8. t2.state \notin Claimed /\ RowsFit(turns', rows')
    BY <1>3, <2>2, <2>4, <2>5, <2>6
  <2>9. /\ e.type \notin Ends /\ e.type \notin {"content_start", "content_delta"}
        /\ f.type \notin {"content_start", "content_delta"}
    BY <1>5, <1>7 DEF Ends, Stops
  <2>10. turns[r].state = "running" /\ t2.step = turns[r].step /\ Heard(e, f)
    BY <1>1, <2>2
  <2>11. /\ EventFits(e) /\ EventFits(f) /\ Concerns(e, r, turns[r].step) /\ Concerns(f, r, turns[r].step)
    BY <1>5, <1>7
  <2>12. \A n \in 1..Len(rows') : n > Len(rows) => rows'[n].run = r /\ rows'[n].step = turns[r].step
    BY <2>7
  <2> HIDE DEF t, i
  <2> QED BY <2>2, <2>7, <2>8, <2>9, <2>10, <2>11, <2>12, HeardWithin
<1> QED BY <1>8, <1>9

-----------------------------------------------------------------------------
(* The beginnings, and the return of the outer run.                        *)
LEMMA ReturnStep ==
    ASSUME ViewInv, NEW r \in Turns, Return(r)
    PROVE  ViewInv'
<1> DEFINE t == turns[r]
           t2 == [t EXCEPT !.cut = TRUE]
<1>1. /\ t.state \notin {"none", "running"} /\ turns' = [turns EXCEPT ![r].cut = TRUE]
      /\ UNCHANGED <<rows, shown, kept, ended, syncs, torn>>
  BY DEF Return
<1>2. /\ turns \in [Turns -> TurnType] /\ t \in TurnType /\ TurnOK(r, t) /\ RowsHold /\ rows \in Seq(RowType)
      /\ RowsFit(turns, rows)
  BY InvParts DEF TurnsOK, RowsHold
<1>3. turns' = [turns EXCEPT ![r] = t2]
  BY <1>1, <1>2
<1>4. /\ t2 \in TurnType /\ t2.state = t.state /\ t2.step = t.step /\ t2.tools = t.tools
  BY <1>2 DEF TurnType
<1> HIDE DEF t2
<1>5. TurnOK(r, t2)
  BY <1>1, <1>2, <1>4 DEF TurnOK, TurnFits
<1>6. /\ turns'[r] = t2 /\ OthersStay(turns, turns', r)
      /\ \A j : ~OpenModel(t2, j) /\ ~OpenTools(t2, j) /\ ~OpenTools(t, j) /\ ~OpenModel(t, j)
  BY <1>1, <1>2, <1>3, <1>4 DEF OthersStay, OpenModel, OpenTools
<1>7. RowsFit(turns', rows)
  BY <1>1, <1>2, <1>4, <1>6, RowsStay
<1>8. Appended(rows, rows') /\ rows' \in Seq(RowType) /\ \A n \in 1..Len(rows') : ~(n > Len(rows))
  BY <1>1, <1>2, RowsSame
<1>9. ASSUME NEW closed \in BOOLEAN, NEW i \in StepsOf(r), NEW c \in Cell, CellFits(closed, t, rows, r, i, c)
      PROVE  CellFits(closed, t2, rows', r, i, c)
  <2>1. TextFits(closed, t2, rows, r, i, c)
    BY <1>6, <1>9 DEF CellFits, TextFits
  <2>2. ASSUME NEW k \in 1..MaxTools PROVE CardFits(t2, rows, r, i, c, k)
    <3>1. CardFits(t, rows, r, i, c, k)
      BY <1>9 DEF CellFits
    <3> QED BY <1>6, <3>1 DEF CardFits
  <2> QED BY <1>1, <2>1, <2>2 DEF CellFits
<1>10. \A n \in 1..Len(rows') : n > Len(rows) => rows'[n].run = r
  BY <1>8
<1>11. RowsFit(turns', rows') /\ (t2.state \in Claimed => turns[r].state \in Claimed)
       /\ UNCHANGED <<shown, kept, ended, syncs, torn>>
  BY <1>1, <1>4, <1>7
<1>12. \A closed \in BOOLEAN : \A i \in StepsOf(r) : \A c \in Cell :
           t2.state \in Claimed /\ CellFits(closed, turns[r], rows, r, i, c) => CellFits(closed, t2, rows', r, i, c)
  BY <1>9
<1> HIDE DEF t
<1> QED BY <1>3, <1>5, <1>8, <1>10, <1>11, <1>12, SilentStep

Begins(r, t2, w) ==
    /\ turns' = [turns EXCEPT ![r] = t2] /\ TurnOK(r, t2) /\ turns'[r] = t2 /\ rows' = Append(rows, w)
    /\ turns \in [Turns -> TurnType] /\ turns[r].state = "none" /\ t2.state = "running"
    /\ t2.stage = "model" /\ t2.step = 0 /\ t2.text = <<>>
    /\ OthersStay(turns, turns', r) /\ RowsFit(turns', rows') /\ rows' \in Seq(RowType) /\ Appended(rows, rows')
    /\ \A n \in 1..Len(rows') : n > Len(rows) => rows'[n].run = r /\ rows'[n].kind = "user_input"

LEMMA BeginsTurn ==
    ASSUME ViewInv, NEW r \in Turns, turns[r].state = "none", turns' = [turns EXCEPT ![r].state = "running"],
           rows' = Append(rows, Row("user_input", r, <<>>, <<>>))
    PROVE  \E t2, w : Begins(r, t2, w)
<1> DEFINE t == turns[r]
           t2 == [t EXCEPT !.state = "running"]
           w == Row("user_input", r, <<>>, <<>>)
<1>1. /\ turns \in [Turns -> TurnType] /\ t \in TurnType /\ TurnOK(r, t) /\ RowsHold /\ rows \in Seq(RowType)
      /\ RowsFit(turns, rows)
  BY InvParts DEF TurnsOK, RowsHold
<1>2. t = Fresh /\ t.step = 0 /\ t.stage = "model" /\ t.text = <<>> /\ t.state = "none" /\ t.tools = <<>>
  BY <1>1 DEF TurnOK, TurnFits, Fresh
<1>3. turns' = [turns EXCEPT ![r] = t2]
  BY <1>1
<1>4. /\ t2 \in TurnType /\ t2.state = "running" /\ t2.step = 0 /\ t2.stage = "model" /\ t2.text = <<>>
      /\ t2.tools = t.tools
  BY <1>1, <1>2 DEF TurnType
<1> HIDE DEF t2
<1>5. TurnOK(r, t2)
  BY <1>1, <1>2, <1>4 DEF TurnOK, TurnFits
<1>6. turns'[r] = t2 /\ OthersStay(turns, turns', r)
  BY <1>1, <1>3 DEF OthersStay
<1>7. w \in RowType /\ w.run = r /\ w.step = 0 /\ w.kind = "user_input" /\ w.tools = <<>>
  <2>1. <<>> \in Seq(Nat) /\ <<>> \in Seq(CallStates)
    OBVIOUS
  <2> QED BY <1>2, <2>1 DEF Row, RowType
<1>8. rows' = Append(rows, w)
  OBVIOUS
<1> HIDE DEF w
<1>9. RowsFit(turns', Append(rows, w))
  <2>1. turns'[r].state = "running" /\ turns'[r].stage = "model" /\ turns'[r].step = 0
    BY <1>4, <1>6
  <2> QED BY <1>1, <1>6, <1>7, <2>1, RowsBegin
<1>10. /\ rows' \in Seq(RowType) /\ Appended(rows, rows')
       /\ \A n \in 1..Len(rows') : n > Len(rows) => rows'[n].run = r /\ rows'[n].kind = "user_input"
  BY <1>1, <1>7, <1>8, RowAppended
<1>11. RowsFit(turns', rows') /\ t2.text = <<>>
  BY <1>2, <1>4, <1>8, <1>9
<1> HIDE DEF t
<1>12. Begins(r, t2, w)
  BY <1>1, <1>3, <1>4, <1>5, <1>6, <1>8, <1>10, <1>11 DEF Begins
<1> QED BY <1>12

(* A cell of the run that begins is empty and stays so; its index is of no *)
(* importance.                                                             *)
LEMMA BeginsCell ==
    ASSUME NEW r \in Turns, NEW t2, NEW w, Begins(r, t2, w), NEW closed \in BOOLEAN, NEW i \in StepsOf(r), NEW c,
           CellFits(closed, turns[r], rows, r, i, c), NEW d, d.text = c.text, d.cards = c.cards
    PROVE  CellFits(closed, t2, rows', r, i, d)
<1>1. CellFits(closed, turns[r], rows', r, i, c)
  <2>1. \A n \in 1..Len(rows') : n > Len(rows) => ~UseAt(rows', n, r, i) /\ ~ResultAt(rows', n, r, i)
    BY DEF Begins, UseAt, ResultAt
  <2>2. Appended(rows, rows')
    BY DEF Begins
  <2> QED BY <2>1, <2>2, OtherRows
<1>2. /\ ~OpenModel(turns[r], i) /\ ~OpenTools(turns[r], i) /\ ~OpenTools(t2, i)
  BY DEF Begins, OpenModel, OpenTools
<1>3. \A n \in 1..Len(rows') : OpenModel(t2, i) => ~UseAt(rows', n, r, i)
  BY DEF Begins, RowsFit, RowFits, Placed, UseAt
<1>4. TextFits(closed, t2, rows', r, i, d)
  BY <1>1, <1>2, <1>3 DEF CellFits, TextFits
<1>5. ASSUME NEW k \in 1..MaxTools PROVE CardFits(t2, rows', r, i, d, k)
  <2>1. CardFits(turns[r], rows', r, i, c, k)
    BY <1>1 DEF CellFits
  <2> QED BY <1>2, <2>1 DEF CardFits
<1> QED BY <1>4, <1>5 DEF CellFits

LEMMA BeginSubStep ==
    ASSUME ViewInv, NEW r \in Turns, BeginSub(r)
    PROVE  ViewInv'
<1>1. /\ turns[r].state = "none" /\ turns' = [turns EXCEPT ![r].state = "running"]
      /\ rows' = Append(rows, Row("user_input", r, <<>>, <<>>))
      /\ UNCHANGED <<shown, kept, ended, syncs, torn>>
  BY DEF BeginSub
<1>2. PICK t2, w : Begins(r, t2, w)
  BY <1>1, BeginsTurn
<1>3. \A closed \in BOOLEAN : \A i \in StepsOf(r) : \A c \in Cell :
           t2.state \in Claimed /\ CellFits(closed, turns[r], rows, r, i, c) => CellFits(closed, t2, rows', r, i, c)
  BY <1>2, BeginsCell
<1>4. turns[r].state \in Claimed
  BY <1>1 DEF Claimed
<1>5. /\ turns' = [turns EXCEPT ![r] = t2] /\ TurnOK(r, t2) /\ rows' \in Seq(RowType) /\ RowsFit(turns', rows')
      /\ Appended(rows, rows') /\ \A n \in 1..Len(rows') : n > Len(rows) => rows'[n].run = r
  BY <1>2 DEF Begins
<1> QED BY <1>1, <1>3, <1>4, <1>5, SilentStep

(* A cell whose index is lost: it matters for calls under way.             *)
LEMMA IndexLost ==
    ASSUME NEW closed, NEW t, NEW rr, NEW r, NEW i, NEW c, CellFits(closed, t, rr, r, i, c),
           OpenTools(t, i) => \A k \in DOMAIN t.tools : t.tools[k] # "running",
           NEW d, d.text = c.text, d.cards = c.cards
    PROVE  CellFits(closed, t, rr, r, i, d)
<1>1. TextFits(closed, t, rr, r, i, d)
  BY DEF CellFits, TextFits
<1>2. ASSUME NEW k \in 1..MaxTools PROVE CardFits(t, rr, r, i, d, k)
  <2>1. CardFits(t, rr, r, i, c, k)
    BY DEF CellFits
  <2> QED BY <2>1 DEF CardFits
<1> QED BY <1>1, <1>2 DEF CellFits

LEMMA BeginOuterStep ==
    ASSUME ViewInv, NEW r \in Turns, BeginOuter(r)
    PROVE  ViewInv'
<1> DEFINE worked == {q \in Turns : InTools(q) /\ \E k \in DOMAIN turns[q].tools : turns[q].tools[k] = "running"}
<1>1. /\ turns[r].state = "none" /\ turns' = [turns EXCEPT ![r].state = "running"]
      /\ rows' = Append(rows, Row("user_input", r, <<>>, <<>>))
      /\ shown' = [steps |-> [p \in StepIds |-> [shown.steps[p] EXCEPT !.index = {}]], status |-> "running"]
      /\ torn' = [torn EXCEPT !.shown = @ \cup worked]
      /\ UNCHANGED <<kept, ended, syncs>>
  BY DEF BeginOuter
<1>2. PICK t2, w : Begins(r, t2, w)
  BY <1>1, BeginsTurn
<1>3. /\ ViewTypeOK /\ Claims /\ SeenOK /\ shown \in Views
      /\ torn \in [shown : SUBSET Turns, kept : SUBSET Turns]
  BY InvParts DEF ViewInv, SeenOK
<1>4. torn'.shown = torn.shown \cup worked /\ torn'.kept = torn.kept /\ torn' \in [shown : SUBSET Turns, kept : SUBSET Turns]
  BY <1>1, <1>3
<1>5. ASSUME NEW p \in StepIds
      PROVE  /\ shown.steps[p] \in Cell /\ shown'.steps[p] \in Cell
             /\ shown'.steps[p].text = shown.steps[p].text /\ shown'.steps[p].cards = shown.steps[p].cards
  <2>1. shown.steps[p] \in Cell
    BY <1>3 DEF Views, Cell
  <2>2. shown'.steps[p] = [shown.steps[p] EXCEPT !.index = {}]
    BY <1>1
  <2> QED BY <2>1, <2>2 DEF Cell
<1>6. shown' \in Views
  <2>1. shown'.status = "running" /\ DOMAIN shown' = {"steps", "status"}
    BY <1>1
  <2>2. shown'.steps \in [StepIds -> Cell]
    <3>1. shown'.steps = [p \in StepIds |-> [shown.steps[p] EXCEPT !.index = {}]]
      BY <1>1
    <3> QED BY <1>5, <3>1
  <2>3. shown' = [steps |-> shown'.steps, status |-> "running"]
    BY <1>1
  <2>4. PICK z : z = shown'.steps
    OBVIOUS
  <2>5. [steps |-> z, status |-> "running"] \in Views
    BY <2>2, <2>4 DEF Views, Cell, Busy
  <2> QED BY <2>3, <2>4, <2>5
<1>7. SeenOK'
  BY <1>1, <1>3, <1>4, <1>6 DEF SeenOK
<1>8. /\ turns' = [turns EXCEPT ![r] = t2] /\ TurnOK(r, t2) /\ rows' \in Seq(RowType) /\ RowsFit(turns', rows')
      /\ Appended(rows, rows') /\ (\A n \in 1..Len(rows') : n > Len(rows) => rows'[n].run = r)
      /\ OthersStay(turns, turns', r) /\ turns'[r] = t2
  BY <1>2 DEF Begins
<1>9. RunMoved(r) /\ turns[r].step \in StepsOf(r)
  BY <1>8, TurnMoves
<1>10. Moves(TRUE, turns[r], turns'[r], rows, rows', r, turns[r].step, NoEvent, NoEvent)
  <2>1. turns[r].state \in Claimed
    BY <1>1 DEF Claimed
  <2>2. \A i \in StepsOf(r) : \A c \in Cell :
           CellFits(TRUE, turns[r], rows, r, i, c) => CellFits(TRUE, t2, rows', r, i, c)
    BY <1>2, BeginsCell
  <2>3. \A i, c : (IF i = turns[r].step THEN AfterBoth(c, NoEvent, NoEvent) ELSE c) = c
    BY UnheardCell
  <2> QED BY <1>8, <2>1, <2>2, <2>3 DEF Moves
<1>11. ASSUME NEW q \in Turns \ torn'.shown, NEW i \in StepsOf(q), turns'[q].state \in Claimed
       PROVE  CellFits(FALSE, turns'[q], rows', q, i, shown'.steps[<<q, i>>])
  <2>1. RunFits(FALSE, turns[q], rows, q, shown) /\ q \notin worked
    BY <1>3, <1>4, <1>11 DEF Claims
  <2>2. PICK p \in StepIds : p = <<q, i>>
    BY StepIdsAre
  <2>3. shown'.steps[<<q, i>>].text = shown.steps[<<q, i>>].text /\ shown'.steps[<<q, i>>].cards = shown.steps[<<q, i>>].cards
    BY <1>5, <2>2
  <2>4. CASE q = r
    <3>1. CellFits(FALSE, turns[r], rows, r, i, shown.steps[<<r, i>>])
      BY <1>1, <2>1, <2>4 DEF RunFits, Claimed
    <3> QED BY <1>2, <1>8, <2>3, <2>4, <3>1, BeginsCell
  <2>5. CASE q # r
    <3>1. turns'[q] = turns[q]
      BY <1>8, <2>5 DEF OthersStay
    <3>2. CellFits(FALSE, turns[q], rows, q, i, shown.steps[<<q, i>>])
      BY <1>11, <2>1, <3>1 DEF RunFits
    <3>3. \A n \in 1..Len(rows') : n > Len(rows) => ~UseAt(rows', n, q, i) /\ ~ResultAt(rows', n, q, i)
      BY <1>8, <2>5 DEF UseAt, ResultAt
    <3>4. CellFits(FALSE, turns[q], rows', q, i, shown.steps[<<q, i>>])
      BY <1>8, <3>2, <3>3, OtherRows
    <3>5. OpenTools(turns[q], i) => \A k \in DOMAIN turns[q].tools : turns[q].tools[k] # "running"
      BY <2>1 DEF OpenTools, InTools
    <3> QED BY <2>3, <3>1, <3>4, <3>5, IndexLost
  <2> QED BY <2>4, <2>5
<1>12. \A q \in Turns \ torn'.shown : RunFits(FALSE, turns'[q], rows', q, shown')
  BY <1>11 DEF RunFits
<1>13. Claims'
  BY <1>1, <1>3, <1>4, <1>9, <1>10, <1>12, SilentClaims
<1> QED BY <1>7, <1>8, <1>13, TurnMoves

-----------------------------------------------------------------------------
(* The client and the server.                                              *)
SameTurns == UNCHANGED <<turns, rows>>

LEMMA SameTurnsStep ==
    ASSUME ViewInv, SameTurns, SeenOK', Claims'
    PROVE  ViewInv'
<1>1. TurnsOK /\ RowsHold
  BY InvParts
<1>2. TurnsOK' /\ RowsHold'
  BY <1>1 DEF TurnsOK, TurnOK, TurnFits, TurnType, StepsOf, RowsHold, SameTurns
<1>3. TurnsOK' /\ RowsHold' /\ SeenOK' /\ Claims' => ViewInv'
  BY InvParts, PTL
<1> QED BY <1>2, <1>3

LEMMA SyncFacts ==
    ASSUME ViewInv, NEW r \in Turns
    PROVE  /\ SeenOK /\ Claims /\ RowsHold /\ syncs \in [Turns -> SyncType] /\ syncs[r] \in SyncType
           /\ shown \in Views /\ kept \in Views /\ torn \in [shown : SUBSET Turns, kept : SUBSET Turns]
           /\ \A q \in Turns : turns[q].tools \in Seq(CallStates)
  BY InvParts DEF SeenOK, TurnsOK, TurnType

(* What the syncs on their way claim, when one of them changes.            *)
SyncClaims(s, q) == s.stage \in OnItsWay => q \in s.lacks \/ RunFits(TRUE, turns[q], rows, q, s.view)

LEMMA SyncMoves ==
    ASSUME ViewInv, SameTurns, NEW r \in Turns, NEW s \in SyncType, syncs' = [syncs EXCEPT ![r] = s],
           \A q \in Turns : SyncClaims(s, q), ended' = ended,
           shown' \in Views, kept' \in Views, torn' \in [shown : SUBSET Turns, kept : SUBSET Turns],
           \A q \in Turns \ torn'.shown : RunFits(FALSE, turns[q], rows, q, shown'),
           \A q \in Turns \ torn'.kept : RunFits(TRUE, turns[q], rows, q, kept')
    PROVE  ViewInv'
<1>1. SeenOK /\ Claims /\ syncs \in [Turns -> SyncType]
  BY SyncFacts
<1>2. syncs' \in [Turns -> SyncType] /\ syncs'[r] = s /\ \A q \in Turns : q # r => syncs'[q] = syncs[q]
  BY <1>1
<1>3. SeenOK'
  BY <1>1, <1>2 DEF SeenOK
<1>4. turns' = turns /\ rows' = rows
  BY DEF SameTurns
<1>5. ASSUME NEW p \in Turns, syncs'[p].stage \in OnItsWay, NEW q \in Turns \ syncs'[p].lacks
      PROVE  RunFits(TRUE, turns[q], rows, q, syncs'[p].view)
  <2>1. CASE p = r
    <3>1. SyncClaims(s, q)
      OBVIOUS
    <3> QED BY <1>2, <1>5, <2>1, <3>1 DEF SyncClaims
  <2>2. CASE p # r
    BY <1>1, <1>2, <1>5, <2>2 DEF Claims
  <2> QED BY <2>1, <2>2
<1>6. Claims'
  BY <1>4, <1>5 DEF Claims
<1> QED BY <1>3, <1>6, SameTurnsStep

LEMMA SyncReadStep ==
    ASSUME ViewInv, NEW r \in Turns, SyncRead(r)
    PROVE  ViewInv'
<1> DEFINE L == {q \in Turns : InTools(q) /\ \E k \in DOMAIN turns[q].tools : turns[q].tools[k] # "running"}
           s == [syncs[r] EXCEPT !.stage = "read", !.view = HistoryView, !.lacks = L]
<1>1. /\ syncs' = [syncs EXCEPT ![r].stage = "read", ![r].view = HistoryView, ![r].lacks = L]
      /\ UNCHANGED <<turns, rows, shown, kept, ended, torn>>
  BY DEF SyncRead
<1>2. /\ SeenOK /\ Claims /\ RowsHold /\ syncs \in [Turns -> SyncType] /\ syncs[r] \in SyncType
      /\ shown \in Views /\ kept \in Views /\ torn \in [shown : SUBSET Turns, kept : SUBSET Turns]
      /\ \A q \in Turns : turns[q].tools \in Seq(CallStates)
  BY SyncFacts
<1>3. HistoryView \in Views /\ L \subseteq Turns
  BY <1>2, HistoryStores DEF RowsHold
<1>4. s \in SyncType /\ s.stage = "read" /\ s.view = HistoryView /\ s.lacks = L
  BY <1>2, <1>3 DEF SyncType
<1>5. syncs' = [syncs EXCEPT ![r] = s]
  BY <1>1, <1>2
<1> HIDE DEF s
<1>6. ASSUME NEW q \in Turns PROVE SyncClaims(s, q)
  <2>1. q \notin L => RunFits(TRUE, turns[q], rows, q, HistoryView)
    BY <1>2, HistoryWhole
  <2> QED BY <1>4, <2>1 DEF SyncClaims
<1>7. /\ \A q \in Turns \ torn'.shown : RunFits(FALSE, turns[q], rows, q, shown')
      /\ \A q \in Turns \ torn'.kept : RunFits(TRUE, turns[q], rows, q, kept')
  BY <1>1, <1>2 DEF Claims
<1>8. SameTurns /\ ended' = ended /\ shown' \in Views /\ kept' \in Views /\ torn' \in [shown : SUBSET Turns, kept : SUBSET Turns]
  BY <1>1, <1>2 DEF SameTurns
<1> QED BY <1>4, <1>5, <1>6, <1>7, <1>8, SyncMoves

LEMMA SyncAnsweredStep ==
    ASSUME ViewInv, NEW r \in Turns, SyncAnswered(r)
    PROVE  ViewInv'
<1> DEFINE s == [NoSync EXCEPT !.stage = "answered", !.version = syncs[r].version]
<1>1. /\ syncs[r].stage = "read" /\ syncs' = [syncs EXCEPT ![r] = s]
      /\ UNCHANGED <<turns, rows, shown, ended>>
      /\ \/ UNCHANGED <<kept, torn>>
         \/ kept' = syncs[r].view /\ torn' = [torn EXCEPT !.kept = syncs[r].lacks]
  BY DEF SyncAnswered
<1>2. /\ SeenOK /\ Claims /\ RowsHold /\ syncs \in [Turns -> SyncType] /\ syncs[r] \in SyncType
      /\ shown \in Views /\ kept \in Views /\ torn \in [shown : SUBSET Turns, kept : SUBSET Turns]
  BY SyncFacts
<1>3. s \in SyncType /\ s.stage = "answered"
  BY <1>2, NoSyncType DEF SyncType
<1> HIDE DEF s
<1>4. \A q \in Turns : SyncClaims(s, q)
  BY <1>3 DEF SyncClaims, OnItsWay
<1>5. syncs[r].view \in Views /\ syncs[r].lacks \subseteq Turns
  BY <1>2 DEF SyncType
<1>6. /\ torn' \in [shown : SUBSET Turns, kept : SUBSET Turns] /\ torn'.shown = torn.shown /\ kept' \in Views
      /\ \/ torn' = torn /\ kept' = kept
         \/ torn'.kept = syncs[r].lacks /\ kept' = syncs[r].view
  BY <1>1, <1>2, <1>5
<1>7. \A q \in Turns \ torn'.kept : RunFits(TRUE, turns[q], rows, q, kept')
  BY <1>1, <1>2, <1>6 DEF Claims, OnItsWay
<1>8. \A q \in Turns \ torn'.shown : RunFits(FALSE, turns[q], rows, q, shown')
  BY <1>1, <1>2, <1>6 DEF Claims
<1>9. SameTurns /\ ended' = ended /\ shown' \in Views
  BY <1>1, <1>2 DEF SameTurns
<1> QED BY <1>1, <1>3, <1>4, <1>6, <1>7, <1>8, <1>9, SyncMoves

LEMMA SyncCheckedStep ==
    ASSUME ViewInv, NEW r \in Turns, SyncChecked(r)
    PROVE  ViewInv'
<1> DEFINE s == IF syncs[r].version # Latest \/ shown.status \in Busy THEN NoSync
                ELSE [syncs[r] EXCEPT !.stage = "reads", !.view = kept, !.lacks = torn.kept]
<1>1. /\ syncs' = [syncs EXCEPT ![r] = IF syncs[r].version # Latest \/ shown.status \in Busy THEN NoSync
                                       ELSE [@ EXCEPT !.stage = "reads", !.view = kept, !.lacks = torn.kept]]
      /\ UNCHANGED <<turns, rows, shown, kept, ended, torn>>
  BY DEF SyncChecked
<1>2. /\ SeenOK /\ Claims /\ RowsHold /\ syncs \in [Turns -> SyncType] /\ syncs[r] \in SyncType
      /\ shown \in Views /\ kept \in Views /\ torn \in [shown : SUBSET Turns, kept : SUBSET Turns]
  BY SyncFacts
<1>3. syncs' = [syncs EXCEPT ![r] = s]
  BY <1>1, <1>2
<1>4. s \in SyncType /\ (s.stage \in OnItsWay => s.view = kept /\ s.lacks = torn.kept)
  BY <1>2, NoSyncType DEF SyncType, OnItsWay, NoSync
<1> HIDE DEF s
<1>5. \A q \in Turns : SyncClaims(s, q)
  BY <1>2, <1>4 DEF SyncClaims, Claims
<1>6. /\ \A q \in Turns \ torn'.shown : RunFits(FALSE, turns[q], rows, q, shown')
      /\ \A q \in Turns \ torn'.kept : RunFits(TRUE, turns[q], rows, q, kept')
  BY <1>1, <1>2 DEF Claims
<1>7. SameTurns /\ ended' = ended /\ shown' \in Views /\ kept' \in Views /\ torn' \in [shown : SUBSET Turns, kept : SUBSET Turns]
  BY <1>1, <1>2 DEF SameTurns
<1> QED BY <1>3, <1>4, <1>5, <1>6, <1>7, SyncMoves

(* What is whole without the text that is open is so with it, where        *)
(* nothing of it is shown.                                                 *)
LEMMA ClosedFits ==
    ASSUME NEW t, NEW rr, NEW r, NEW v, RunFits(TRUE, t, rr, r, v)
    PROVE  RunFits(FALSE, t, rr, r, v)
  BY DEF RunFits, CellFits, TextFits

LEMMA SyncReplayedStep ==
    ASSUME ViewInv, NEW r \in Turns, SyncReplayed(r)
    PROVE  ViewInv'
<1>1. /\ syncs[r].stage = "reads" /\ syncs' = [syncs EXCEPT ![r] = NoSync]
      /\ shown' = Replayed(syncs[r].view) /\ torn' = [torn EXCEPT !.shown = syncs[r].lacks]
      /\ UNCHANGED <<turns, rows, kept, ended>>
  BY DEF SyncReplayed
<1>2. /\ SeenOK /\ Claims /\ RowsHold /\ syncs \in [Turns -> SyncType] /\ syncs[r] \in SyncType
      /\ shown \in Views /\ kept \in Views /\ torn \in [shown : SUBSET Turns, kept : SUBSET Turns]
  BY SyncFacts
<1>3. syncs[r].view \in Views /\ syncs[r].lacks \subseteq Turns
  BY <1>2 DEF SyncType
<1>4. torn' \in [shown : SUBSET Turns, kept : SUBSET Turns] /\ torn'.shown = syncs[r].lacks /\ torn'.kept = torn.kept
  BY <1>1, <1>2, <1>3
<1>5. ASSUME NEW q \in Turns \ torn'.shown PROVE RunFits(FALSE, turns[q], rows, q, shown')
  <2>1. RunFits(TRUE, turns[q], rows, q, syncs[r].view)
    BY <1>1, <1>2, <1>4, <1>5 DEF Claims, OnItsWay
  <2>2. RunFits(FALSE, turns[q], rows, q, syncs[r].view)
    BY <2>1, ClosedFits
  <2> QED BY <1>1, <1>2, <1>3, <2>2, ReplayedFits
<1>6. shown' \in Views
  BY <1>1, <1>2, <1>3, ReplayedFits
<1>7. \A q \in Turns \ torn'.kept : RunFits(TRUE, turns[q], rows, q, kept')
  BY <1>1, <1>2, <1>4 DEF Claims
<1>8. NoSync \in SyncType /\ \A q \in Turns : SyncClaims(NoSync, q)
  BY NoSyncType DEF SyncClaims, NoSync, OnItsWay
<1>9. SameTurns /\ ended' = ended /\ kept' \in Views
  BY <1>1, <1>2 DEF SameTurns
<1> QED BY <1>1, <1>4, <1>5, <1>6, <1>7, <1>8, <1>9, SyncMoves

-----------------------------------------------------------------------------
LEMMA ViewInitially == ViewInit => ViewInv
<1> SUFFICES ASSUME ViewInit PROVE ViewInv
  OBVIOUS
<1>1. \A r \in Turns : turns[r] = Fresh
  BY DEF ViewInit
<1>2. Fresh \in TurnType /\ TurnFits(Fresh) /\ Fresh.step = 0 /\ Fresh.tools = <<>> /\ Fresh.state = "none" /\ Fresh.text = <<>>
  <2>1. <<>> \in Seq(Nat) /\ <<>> \in Seq(CallStates) /\ <<>> \in Seq({"due", "running", "success", "error"})
    OBVIOUS
  <2>2. 1 \in 1..(MaxTries + 1)
    BY ViewConstants
  <2> QED BY <2>1, <2>2 DEF TurnType, Fresh, TurnFits
<1>3. \A r \in Turns : TurnOK(r, Fresh)
  <2>1. Len(<<>>) = 0
    OBVIOUS
  <2> QED BY <1>2, <2>1, ViewConstants DEF TurnOK
<1>4. TurnsOK
  BY <1>1, <1>2, <1>3 DEF TurnsOK, ViewInit
<1>5. rows = <<>> /\ Len(rows) = 0 /\ rows \in Seq(RowType)
  BY DEF ViewInit
<1>6. RowsHold
  BY <1>1, <1>2, <1>5, ViewConstants DEF RowsHold, RowsFit, OpenTools
<1>7. SeenOK
  <2>1. shown = NothingShown /\ kept = NothingShown /\ ended = <<>> /\ torn = [shown |-> {}, kept |-> {}]
        /\ syncs = [r \in Turns |-> NoSync]
    BY DEF ViewInit
  <2>2. <<>> \in Seq(Turns)
    OBVIOUS
  <2> QED BY <2>1, <2>2, NothingShownType, NoSyncType DEF SeenOK
<1>8. ASSUME NEW closed, NEW r \in Turns PROVE RunFits(closed, turns[r], rows, r, NothingShown)
  <2>1. SUFFICES ASSUME NEW i \in StepsOf(r) PROVE CellFits(closed, turns[r], rows, r, i, NothingShown.steps[<<r, i>>])
    BY DEF RunFits
  <2>2. NothingShown.steps[<<r, i>>] = Empty
    BY StepIdsAre DEF NothingShown
  <2>3. Empty.text = <<>> /\ \A k \in 1..MaxTools : Empty.cards[k] = <<>>
    BY DEF Empty
  <2>4. \A n \in 1..Len(rows) : FALSE
    BY <1>5
  <2>5. ~OpenTools(turns[r], i)
    BY <1>1, <1>2 DEF OpenTools
  <2>6. TextFits(closed, turns[r], rows, r, i, Empty)
    BY <2>3, <2>4 DEF TextFits
  <2>7. \A k \in 1..MaxTools : CardFits(turns[r], rows, r, i, Empty, k)
    BY <2>3, <2>4, <2>5 DEF CardFits
  <2> QED BY <2>2, <2>6, <2>7 DEF CellFits
<1>9. Claims
  <2>1. shown = NothingShown /\ kept = NothingShown /\ \A s \in Turns : syncs[s].stage \notin OnItsWay
    BY DEF ViewInit, NoSync, OnItsWay
  <2> QED BY <1>8, <2>1 DEF Claims
<1> QED BY <1>4, <1>6, <1>7, <1>9, InvParts

LEMMA ViewSteps == ViewInv /\ [ViewNext]_viewVars => ViewInv'
<1> SUFFICES ASSUME ViewInv, [ViewNext]_viewVars PROVE ViewInv'
  OBVIOUS
<1>1. CASE UNCHANGED viewVars
  <2>1. SeenOK /\ Claims /\ SameTurns /\ UNCHANGED <<shown, kept, ended, syncs, torn>>
    BY <1>1, InvParts DEF viewVars, SameTurns
  <2>2. SeenOK' /\ Claims'
    BY <2>1 DEF SeenOK, Claims, SameTurns
  <2> QED BY <2>1, <2>2, SameTurnsStep
<1>2. ASSUME NEW r \in Turns, SyncRead(r) \/ SyncAnswered(r) \/ SyncChecked(r) \/ SyncReplayed(r)
      PROVE  ViewInv'
  BY <1>2, SyncReadStep, SyncAnsweredStep, SyncCheckedStep, SyncReplayedStep
<1>3. ASSUME NEW r \in Turns, BeginOuter(r) \/ BeginSub(r) \/ Return(r)
      PROVE  ViewInv'
  BY <1>3, BeginOuterStep, BeginSubStep, ReturnStep
<1>4. ASSUME NEW r \in Turns, Speak(r) \/ AttemptFails(r) \/ RoundFails(r) \/ Answer(r) \/ Call(r)
      PROVE  ViewInv'
  BY <1>4, SpeakStep, AttemptFailsStep, RoundFailsStep, AnswerStep, CallsStep
<1>5. ASSUME NEW r \in Turns, ToolsOver(r) \/ BudgetSpent(r)
      PROVE  ViewInv'
  BY <1>5, ToolsOverStep, BudgetSpentStep
<1>6. ASSUME NEW r \in Turns, NEW k \in DOMAIN turns[r].tools, ToolStarts(r, k) \/ ToolEnds(r, k)
      PROVE  ViewInv'
  BY <1>6, ToolStartsStep, ToolEndsStep
<1>7. ASSUME NEW r \in Turns, NEW state \in Cuts, CutOff(r, IF IsSub(r) THEN "cancelled" ELSE state)
      PROVE  ViewInv'
  <2>1. (IF IsSub(r) THEN "cancelled" ELSE state) \in {"cancelled", "timeout"}
    BY ViewAssumption
  <2> QED BY <1>7, <2>1, CutOffStep
<1> QED BY <1>1, <1>2, <1>3, <1>4, <1>5, <1>6, <1>7 DEF ViewNext

(* In every state the views and the lists on their way know each run as    *)
(* the rows do, but for those in which something is torn, and those that   *)
(* were cut off (Claims; reduceEvent, historyEventBuilder).                *)
THEOREM ViewInvariant == ViewSpec => []ViewInv
<1>1. ViewInit => ViewInv
  BY ViewInitially
<1>2. ViewInv /\ [ViewNext]_viewVars => ViewInv'
  BY ViewSteps
<1> QED BY <1>1, <1>2, PTL DEF ViewSpec

(* A run that finished is shown, live and out of the ledger, as it was     *)
(* stored, for every shape of session: whatever attempts fail, whatever    *)
(* runs beside it are cut off, and whatever the server answers when.       *)
THEOREM ViewShownAsStored == ViewSpec => []ShownAsStored
<1>1. ViewInv => ShownAsStored
  BY InvShows
<1> QED BY <1>1, ViewInvariant, PTL

(* The variables of the model keep their types.                            *)
THEOREM ViewTypesHold == ViewSpec => []ViewTypeOK
<1>1. ViewInv => ViewTypeOK
  BY DEF ViewInv
<1> QED BY <1>1, ViewInvariant, PTL
=============================================================================
