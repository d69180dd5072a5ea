------------------------------ MODULE Gateway ------------------------------
(***************************************************************************)
(* The gateway to instant messengers: every message of a chat is handled   *)
(* in a goroutine of its own.  It answers the question that the run of the *)
(* chat waits with, or is routed to a session (of the message it replies   *)
(* to, of the chat, or a new one) and run there under an adapter that is   *)
(* registered for the chat; the result is pushed, bound to the session,    *)
(* and delivered to the other chats of the user.                           *)
(*                                                                         *)
(* All chats here are of one user, on a channel each.  That a session has  *)
(* at most one run is what createReactRunContext sees to (module           *)
(* InputLedger); `holder' stands for it.                                   *)
(***************************************************************************)
EXTENDS Integers, Sequences, SequencesExt, FiniteSetsExt

CONSTANTS
    Chats,
    ReplyBuffer,    \* the capacity of imAdapter.replies
    MaxTalks,       \* bound: messages that are routed
    MaxSessions,    \* bound: session ids
    MaxQuestions    \* bound: questions of a run

ASSUME GatewayAssumption ==
    /\ IsFiniteSet(Chats)
    /\ {MaxTalks, MaxSessions, MaxQuestions} \subseteq Nat /\ ReplyBuffer \in Nat \ {0}

VARIABLES
    bound,      \* tblLlmChannelSession: the session of a chat, or 0
    results,    \* tblLlmChannelMessage: pushed results, by number
    talks,      \* the messages under way: handler, imAdapter and run
    boss,       \* service.adapters: the talk registered for a chat, or 0
    holder,     \* the talk whose run is active in a session, or 0
    ids,        \* session ids generated so far
    newest      \* the talk mounted last, by chat
gwVars == <<bound, results, talks, boss, holder, ids, newest>>

Sessions == 1..MaxSessions
TalkPlaces == {"routing", "binding", "mounting", "starting", "running", "asking", "returned", "over"}

GatewayTypeOK ==
    /\ bound \in [Chats -> 0..MaxSessions] /\ ids \in 0..MaxSessions
    /\ \A m \in 1..Len(results) : results[m].chat \in Chats /\ results[m].session \in Sessions
    /\ \A a \in 1..Len(talks) :
         /\ talks[a].place \in TalkPlaces /\ talks[a].session \in 0..MaxSessions
         /\ talks[a].pending \in 0..MaxQuestions /\ talks[a].asked \in 0..MaxQuestions
         /\ Len(talks[a].replies) <= ReplyBuffer
    /\ boss \in [Chats -> 0..Len(talks)] /\ newest \in [Chats -> 0..Len(talks)]
    /\ holder \in [Sessions -> 0..Len(talks)]

GatewayInit ==
    /\ bound = [c \in Chats |-> 0] /\ results = <<>> /\ talks = <<>>
    /\ boss = [c \in Chats |-> 0] /\ newest = [c \in Chats |-> 0]
    /\ holder = [s \in Sessions |-> 0] /\ ids = 0

-----------------------------------------------------------------------------
Is(a, place) == talks[a].place = place
Questioned(chat) == boss[chat] # 0 /\ talks[boss[chat]].pending # 0

Talk(chat, parent, forced) ==
    [chat |-> chat, parent |-> parent, forced |-> forced, session |-> 0, place |-> "routing",
     pending |-> 0, asked |-> 0, replies |-> <<>>, spread |-> FALSE, cut |-> FALSE]

\* Mutant: the buffer is not bounded.
BufferedUnbounded(replies, reply) == Append(replies, reply)
\* deliverReply: a full buffer loses its oldest reply.
Buffered(replies, reply) ==
    Append(IF Len(replies) = ReplyBuffer THEN Tail(replies) ELSE replies, reply)

\* A message, /new with a text too, that comes while the adapter of the chat has a
\* question open is its answer.
Reply(chat) ==
    /\ Questioned(chat)
    /\ LET a == boss[chat]
       IN talks' = [talks EXCEPT ![a].replies = Buffered(talks[a].replies, talks[a].pending)]
    /\ UNCHANGED <<bound, results, boss, holder, ids, newest>>

\* A message to be run, perhaps in reply to a result; /new with a text is forced.
Arrive(chat) ==
    /\ Len(talks) < MaxTalks /\ ~Questioned(chat)
    /\ \E parent \in {0} \cup {m \in 1..Len(results) : results[m].chat = chat}, forced \in BOOLEAN :
         talks' = Append(talks, Talk(chat, parent, forced))
    /\ UNCHANGED <<bound, results, boss, holder, ids, newest>>

\* /new alone: the chat is bound to a new session.
NewSession(chat) ==
    /\ ids < MaxSessions
    /\ ids' = ids + 1 /\ bound' = [bound EXCEPT ![chat] = ids + 1]
    /\ UNCHANGED <<results, talks, boss, holder, newest>>

\* routeSession: a bound result leads to the session of its chat, as the chat does
\* itself; otherwise an id is generated.
SessionOf(a) ==
    LET chat == IF talks[a].parent # 0 THEN results[talks[a].parent].chat ELSE talks[a].chat
    IN IF talks[a].forced THEN 0
       ELSE IF talks[a].parent # 0 /\ bound[chat] = 0 THEN results[talks[a].parent].session
       ELSE bound[chat]

Route(a) ==
    /\ Is(a, "routing")
    /\ IF SessionOf(a) # 0
       THEN /\ talks' = [talks EXCEPT ![a].session = SessionOf(a), ![a].place = "mounting"]
            /\ UNCHANGED ids
       ELSE /\ ids < MaxSessions /\ ids' = ids + 1
            /\ talks' = [talks EXCEPT ![a].session = ids + 1, ![a].place = "binding"]
    /\ UNCHANGED <<bound, results, boss, holder, newest>>

\* snapshotFromConfig: the row is created, or, when there is one, /new changes it and
\* any other message takes what it says (the unique key of the chat).
Bind(a) ==
    /\ Is(a, "binding")
    /\ LET chat == talks[a].chat
           taken == bound[chat] # 0 /\ ~talks[a].forced
       IN /\ bound' = IF taken THEN bound ELSE [bound EXCEPT ![chat] = talks[a].session]
          /\ talks' = [talks EXCEPT ![a].place = "mounting",
                                    ![a].session = IF taken THEN bound[chat] ELSE @]
    /\ UNCHANGED <<results, boss, holder, ids, newest>>

\* mountAdapter: whoever was registered for the chat no longer is.
Mount(a) ==
    /\ Is(a, "mounting")
    /\ boss' = [boss EXCEPT ![talks[a].chat] = a]
    /\ newest' = [newest EXCEPT ![talks[a].chat] = a]
    /\ talks' = [talks EXCEPT ![a].place = "starting"]
    /\ UNCHANGED <<bound, results, holder, ids>>

\* The run begins, or the session has one: the message is taken in by it (steering), or
\* refused.
Start(a) ==
    /\ Is(a, "starting")
    /\ IF holder[talks[a].session] = 0
       THEN /\ talks' = [talks EXCEPT ![a].place = "running"]
            /\ holder' = [holder EXCEPT ![talks[a].session] = a]
       ELSE talks' = [talks EXCEPT ![a].place = "returned"] /\ UNCHANGED holder
    /\ UNCHANGED <<bound, results, boss, ids, newest>>

\* onAskQuestion, onToolConfirm: one question is pending at a time, the last.
AskChat(a) ==
    /\ Is(a, "running") /\ talks[a].asked < MaxQuestions /\ ~talks[a].cut
    /\ talks' = [talks EXCEPT ![a].asked = @ + 1, ![a].pending = talks[a].asked + 1,
                             ![a].place = "asking"]
    /\ UNCHANGED <<bound, results, boss, holder, ids, newest>>

\* formatReply: the text answers whatever is pending now, or is a stray.
ReadReply(a) ==
    /\ Is(a, "asking") /\ talks[a].replies # <<>>
    /\ talks' = [talks EXCEPT ![a].replies = Tail(@), ![a].pending = 0,
                             ![a].place = IF talks[a].pending # 0 THEN "running" ELSE @]
    /\ UNCHANGED <<bound, results, boss, holder, ids, newest>>

\* The wait of the engine is over; the adapter is not told.
AskEnds(a) ==
    /\ Is(a, "asking") /\ talks' = [talks EXCEPT ![a].place = "running"]
    /\ UNCHANGED <<bound, results, boss, holder, ids, newest>>

\* Done or an error: the result is pushed and bound.  A cancelled run pushes nothing.
End(a) ==
    /\ talks[a].place \in {"running", "asking"}
    /\ holder' = [holder EXCEPT ![talks[a].session] = 0]
    /\ \/ /\ Is(a, "running") /\ ~talks[a].cut
          /\ talks' = [talks EXCEPT ![a].pending = 0, ![a].replies = <<>>,
                                   ![a].place = "returned", ![a].spread = TRUE]
          /\ results' = Append(results, [chat |-> talks[a].chat, session |-> talks[a].session])
       \/ /\ talks[a].cut
          /\ talks' = [talks EXCEPT ![a].replies = <<>>, ![a].place = "returned"] /\ UNCHANGED results
    /\ UNCHANGED <<bound, boss, ids, newest>>

\* crossDeliver: in a goroutine, to the other chats that have a session.
CrossDeliver(a) ==
    /\ talks[a].spread /\ talks' = [talks EXCEPT ![a].spread = FALSE]
    /\ results' = results \o SetToSeq({[chat |-> c, session |-> talks[a].session] :
                                       c \in {d \in Chats \ {talks[a].chat} : bound[d] # 0}})
    /\ UNCHANGED <<bound, boss, holder, ids, newest>>

\* Mutant: whoever is registered is removed.
UnmountedAnyway(a) == [boss EXCEPT ![talks[a].chat] = 0]
\* unmountAdapter: only its own registration.
Unmounted(a) == IF boss[talks[a].chat] = a THEN [boss EXCEPT ![talks[a].chat] = 0] ELSE boss

Unmount(a) ==
    /\ Is(a, "returned") /\ talks' = [talks EXCEPT ![a].place = "over", ![a].pending = 0]
    /\ boss' = Unmounted(a)
    /\ UNCHANGED <<bound, results, holder, ids, newest>>

\* /cancel reaches the registered adapter.
CancelChat(chat) ==
    /\ boss[chat] # 0 /\ ~talks[boss[chat]].cut
    /\ talks' = [talks EXCEPT ![boss[chat]].cut = TRUE]
    /\ UNCHANGED <<bound, results, boss, holder, ids, newest>>

-----------------------------------------------------------------------------
GatewayNext ==
    \/ \E chat \in Chats : Reply(chat) \/ Arrive(chat) \/ NewSession(chat) \/ CancelChat(chat)
    \/ \E a \in 1..Len(talks) :
         \/ Route(a) \/ Bind(a) \/ Mount(a) \/ Start(a) \/ AskChat(a) \/ ReadReply(a) \/ AskEnds(a)
         \/ End(a) \/ CrossDeliver(a) \/ Unmount(a)

GatewaySpec == GatewayInit /\ [][GatewayNext]_gwVars

-----------------------------------------------------------------------------
\* Whoever wrote to a chat last is heard there until its run returns: a run that ends
\* late takes no other run's registration with it (unmountAdapter).
NewestIsHeard ==
    \A c \in Chats : newest[c] # 0 /\ talks[newest[c]].place # "over" => boss[c] = newest[c]

\* The run that is active in a chat is the one that /cancel and answers reach.
RunReachable ==
    \A a \in 1..Len(talks) : talks[a].place \in {"running", "asking"} => boss[talks[a].chat] = a

\* A reply to a result goes on in the session of that result.
ReplyContinues ==
    \A a \in 1..Len(talks) :
      talks[a].parent # 0 /\ ~talks[a].forced /\ talks[a].session # 0 =>
        talks[a].session = results[talks[a].parent].session
=============================================================================
