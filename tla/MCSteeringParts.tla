--------------------------- MODULE MCSteeringParts ---------------------------
(***************************************************************************)
(* Two small instances of Steering for TLC, one per behaviour: one         *)
(* connection with every operation but waits, failures and cancels, and    *)
(* two connections with these and without what only adds rows and runs.    *)
(***************************************************************************)
EXTENDS SteeringProps

CONSTANTS c1, c2

VARIABLE part   \* the instance that moves

PartsInit == part \in {"queue", "interleave"} /\ Init

Loop(c) == DrainGuide(c) \/ EndLoop(c) \/ EnterSoftLanding(c)

QueueStep ==
    \/ Client(c1) \/ Start(c1) \/ Conclude(c1) \/ Loop(c1) \/ Delegate(c1)
    \/ \E r \in RunId : ChildEnds(r)
    \/ Commit \/ Manage \/ Process

InterleaveStep ==
    \/ \E c \in Conns :
         \/ \E f \in Flavors \ {"files"} : Submit(c, f) \/ SteerBegin(c, f)
         \/ \E i \in RowId : InjectBegin(c, i)
         \/ Start(c) \/ Conclude(c) \/ Loop(c) \/ AskClient(c) \/ ClientAnswers(c) \/ Failure(c)
    \/ \E i \in RowId : DeleteQueued(i)
    \/ Commit \/ UserCancel

PartsNext ==
    /\ UNCHANGED part
    /\ \/ part = "queue" /\ QueueStep
       \/ part = "interleave" /\ InterleaveStep /\ sent' <= 2

PartsSpec == PartsInit /\ [][PartsNext]_<<part, vars>>
=============================================================================
