------------------------- MODULE CorrelationProofs -------------------------
(***************************************************************************)
(* Proofs about QueryCorrelation for every set of calls, every assignment  *)
(* of methods to them and every pair of capacities, against a board that   *)
(* may answer late or never.                                               *)
(*                                                                         *)
(* Nothing is counted in the invariant.  It says that queries are written  *)
(* one at a time, that responses leave in the order of the writes, and     *)
(* that therefore of two queries of a type the later one gets the later    *)
(* response.  The bound on staleness follows: the queries answered before  *)
(* a query took as many of the older responses.                            *)
(***************************************************************************)
EXTENDS QueryCorrelation, TokioActorProofs, FiniteSetTheorems

-----------------------------------------------------------------------------
(* The inductive invariant. *)

\* A call whose bytes may still be written: it is not yet in the channel, or still
\* in one of the places before the write.
ToCome(c) ==
  call[c] \in {"idle", "sending"} \/ c \in ToSet(chan) \cup ToSet(queued) \/ c = current

\* A query that the actor has waited for to the end.
Resolved(c) == answer[c] # NoCall \/ c \in gaveUp

\* What is written was written once, and asks for a response; the active query is
\* among it and still open.
WrittenInv ==
  /\ \A c \in ToSet(written) : ~ToCome(c) /\ AsksFor(c) \in QueryKinds /\ (IsQuery(c) \/ c \in Sends)
  /\ pending # NoCall => pending \in ToSet(written) /\ ~Resolved(pending)
  /\ gaveUp \subseteq ToSet(written) /\ clean \subseteq ToSet(written)
  /\ \A c \in gaveUp : IsQuery(c) /\ answer[c] = NoCall
  /\ \A c \in clean : IsQuery(c)

\* One query at a time: no query is written before the actor has done with the
\* ones written before it.
TurnInv ==
  /\ chanOpen => \A c \in ToSet(written) : IsQuery(c) => Resolved(c) \/ c = pending
  /\ \A c, d \in ToSet(written) : Before(c, d) /\ IsQuery(c) /\ IsQuery(d) => Resolved(c)

\* The responses of one type leave in the order of the writes.
LinkInv ==
  \A d \in inflight, e \in ToSet(written) :
    AsksFor(e) = AsksFor(d) /\ Before(d, e) => e \in inflight

\* A response is used once, for a query of its type; of two queries of a type the
\* later one gets the later response.
AnswerInv ==
  \A c \in Calls : answer[c] # NoCall =>
    /\ c \in ToSet(written) /\ IsQuery(c)
    /\ answer[c] \in ToSet(written) \ inflight /\ AsksFor(answer[c]) = AsksFor(c)
    /\ Before(c, answer[c]) => answer[c] \in Sends
    /\ \A e \in Calls : answer[e] # NoCall /\ AsksFor(e) = AsksFor(c) /\ Before(e, c) =>
          Before(answer[e], answer[c])

\* No older response of its type can reach a query that was written on a quiet line.
CleanInv ==
  \A c \in clean :
    /\ \A e \in inflight : AsksFor(e) = AsksFor(c) => ~Before(e, c)
    /\ answer[c] # NoCall => ~Before(answer[c], c)

CorrelationInv ==
  /\ IInv
  /\ CorrelationTypeOK
  /\ WrittenInv
  /\ TurnInv
  /\ LinkInv
  /\ AnswerInv
  /\ CleanInv

-----------------------------------------------------------------------------
(* The actor beneath. *)

\* Every step of the composition is a step of the actor or invisible to it.
LEMMA ActorStep == CorrelationInv /\ [CorrelationNext]_correlationVars => [Next]_vars
<1> SUFFICES ASSUME CorrelationInv, [CorrelationNext]_correlationVars PROVE [Next]_vars
  OBVIOUS
<1>1. WriteQuery \/ WriteRaw => Next
  BY DEF WriteQuery, WriteRaw, Write, Next
<1>2. ASSUME NEW c \in Calls, Answered(c) \/ Stray(c) PROVE Next
  <2>1. AsksFor(c) \in QueryKinds
    BY <1>2 DEF Answered, Stray, Consume, CorrelationInv, CorrelationTypeOK, WrittenInv
  <2> QED
    BY <1>2, <2>1 DEF Answered, Stray, Notified, Next
<1>3. \A c \in Calls : Corrupted(c) => Next
  BY DEF Corrupted, Unsolicited, Notified, Next
<1>4. \A c \in Calls : Lose(c) => UNCHANGED vars
  BY DEF Lose
<1>5. Unprompted => Next
  BY DEF Unprompted, Unsolicited, Notified, Next
<1>6. GiveUp => Next
  BY DEF GiveUp, Next
<1>7. Unaffected => Next
  BY DEF Unaffected, Write, Notified, Next
<1>8. UNCHANGED correlationVars => UNCHANGED vars
  BY DEF correlationVars
<1> QED
  BY <1>1, <1>2, <1>3, <1>4, <1>5, <1>6, <1>7, <1>8 DEF CorrelationNext

\* A call that is past its write never comes before it again.
LEMMA ToComeShrinks ==
  ASSUME IInv, [Next]_vars, NEW c \in Calls, ~ToCome(c)
  PROVE  ~ToCome(c)'
<1>a. /\ chan \in Seq(Calls) /\ queued \in Seq(Calls) /\ call \in [Calls -> CallStates]
      /\ c # NoCall /\ c # current /\ c \notin ToSet(chan) /\ c \notin ToSet(queued)
      /\ call[c] \notin {"idle", "sending"}
  BY ConstantsAssumption DEF IInv, TypeOK, ToCome
<1>b. chan # <<>> => ToSet(chan) = {Head(chan)} \cup ToSet(Tail(chan))
  BY TakeHead DEF IInv, TypeOK
<1>c. queued # <<>> => ToSet(queued) = {Head(queued)} \cup ToSet(Tail(queued))
  BY TakeHead DEF IInv, TypeOK
<1>1. call'[c] \notin {"idle", "sending"}
  <2>1. ASSUME NEW d \in Calls, Caller(d) PROVE call'[c] \notin {"idle", "sending"}
    BY <1>a, <2>1 DEF Caller, Begin, Enqueue, FindClosed, Cancel
  <2>2. ASSUME NEW d, NEW r, r \notin {"idle", "sending"}, call' = Answer(d, r)
        PROVE  call'[c] \notin {"idle", "sending"}
    BY <1>a, <2>2 DEF Answer
  <2>3. ASSUME NEW S, NEW r, r \notin {"idle", "sending"}, call' = AnswerAll(S, r)
        PROVE  call'[c] \notin {"idle", "sending"}
    BY <1>a, <2>3 DEF AnswerAll
  <2>4. CASE Reject
    <3>1. PICK late \in Late :
             call' = [d \in Calls |-> IF d \in ToSet(late) THEN "waiting"
                                      ELSE AnswerAll(Outstanding, "ShuttingDown")[d]]
      BY <2>4 DEF Reject
    <3> QED
      BY <1>a, <3>1 DEF AnswerAll
  <2>5. DropHandles \/ Startup \/ LoopTop \/ DeadlinePasses \/ Terminated \/ UNCHANGED vars
          => UNCHANGED call
    BY DEF DropHandles, Startup, SubscribePosition, EnableRealtime, SubscribeResponse,
       StartupFails, LoopTop, StartQueued, EnterSelect, DeadlinePasses, Terminated, vars, callVars
  <2>6. Receive \/ Write => UNCHANGED call \/ \E d, r : r \notin {"idle", "sending"} /\ call' = Answer(d, r)
    BY DEF Receive, ReceiveSend, ReceiveQueryStarts, ReceiveQueryQueues, ReceiveQueryRefused,
       ReceiveSubscribe, ReceiveShutdown, ReceiveNone, Write, FinishSend, FinishQueryWrite,
       WriteFails, callVars
  <2>7. Notified \/ Timeout => UNCHANGED call \/ \E d, r : r \notin {"idle", "sending"} /\ call' = Answer(d, r)
    BY DEF Notified, ReceiveResponse, ReceiveOther, NotificationFails, Timeout, callVars
  <2>8. Leave \/ Abort => Reject \/ UNCHANGED call
                          \/ \E S, r : r \notin {"idle", "sending"} /\ call' = AnswerAll(S, r)
    BY DEF Leave, Announce, UnsubscribeResponse, UnsubscribePosition, CloseTransport,
       CleanupFails, Finish, ReplyShutdown, Exit, Abort, callVars
  <2> QED
    BY <1>a, <2>1, <2>2, <2>3, <2>4, <2>5, <2>6, <2>7, <2>8 DEF Next
<1>2. c # current' /\ c \notin ToSet(chan') /\ c \notin ToSet(queued')
  <2>1. CASE UNCHANGED <<chan, queued, current>>
    BY <1>a, <2>1
  <2>2. ASSUME NEW d \in Calls, Enqueue(d) PROVE c # current' /\ c \notin ToSet(chan') /\ c \notin ToSet(queued')
    <3>1. d # c /\ ToSet(Append(chan, d)) = ToSet(chan) \cup {d}
      BY <1>a, <2>2, AddLast DEF Enqueue
    <3> QED
      BY <1>a, <2>2, <3>1 DEF Enqueue, queryVars
  <2>3. CASE StartQueued
    BY <1>a, <1>c, <2>3 DEF StartQueued, chanVars
  <2>4. CASE ReceiveSend \/ ReceiveQueryStarts
    BY <1>a, <1>b, <2>4 DEF ReceiveSend, ReceiveQueryStarts, Received
  <2>5. CASE ReceiveQueryQueues
    <3>1. Head(chan) \in Calls /\ chan # <<>>
      BY <2>5, TakeHead DEF ReceiveQueryQueues, Received, IInv, TypeOK
    <3>2. ToSet(Append(queued, Head(chan))) = ToSet(queued) \cup {Head(chan)}
      BY <1>a, <3>1, AddLast
    <3> QED
      BY <1>a, <1>b, <2>5, <3>1, <3>2 DEF ReceiveQueryQueues, Received
  <2>6. CASE ReceiveQueryRefused \/ ReceiveSubscribe \/ ReceiveShutdown
    BY <1>a, <1>b, <2>6 DEF ReceiveQueryRefused, ReceiveSubscribe, ReceiveShutdown, Received, queryVars
  <2>7. CASE FinishSend \/ WriteFails \/ FinishQueryWrite
    BY <1>a, <2>7 DEF FinishSend, WriteFails, FinishQueryWrite, chanVars
  <2>8. CASE Reject
    <3>1. PICK late \in Late : chan' = late
      BY <2>8 DEF Reject
    <3>2. c \notin ToSet(late)
      BY <1>a, LateFacts DEF IInv
    <3> QED
      BY <1>a, <2>8, <3>1, <3>2, EmptySet DEF Reject
  <2>9. CASE Exit
    BY <1>a, <2>9, EmptySet DEF Exit, queryVars
  <2>10. CASE Abort
    BY <1>a, <2>10, EmptySet DEF Abort
  <2>11. \A d \in Calls : Begin(d) \/ FindClosed(d) \/ Cancel(d) => UNCHANGED <<chan, queued, current>>
    BY DEF Begin, FindClosed, Cancel, chanVars, queryVars
  <2>12. DropHandles \/ Startup \/ EnterSelect \/ ReceiveNone \/ NotificationFails \/ DeadlinePasses
           \/ Timeout \/ Terminated \/ UNCHANGED vars => UNCHANGED <<chan, queued, current>>
    BY DEF DropHandles, Startup, SubscribePosition, EnableRealtime, SubscribeResponse, StartupFails,
           EnterSelect, ReceiveNone, NotificationFails, DeadlinePasses, Timeout, Terminated, vars,
           chanVars, queryVars
  <2>13. \A k : ReceiveOther(k) \/ ReceiveResponse(k) => UNCHANGED <<chan, queued, current>>
    BY DEF ReceiveOther, ReceiveResponse, chanVars, queryVars
  <2>14. Announce \/ UnsubscribeResponse \/ UnsubscribePosition \/ CloseTransport \/ CleanupFails
           \/ Finish \/ ReplyShutdown => UNCHANGED <<chan, queued, current>>
    BY DEF Announce, UnsubscribeResponse, UnsubscribePosition, CloseTransport, CleanupFails,
           Finish, ReplyShutdown, chanVars, queryVars
  <2> QED
    BY <2>1, <2>2, <2>3, <2>4, <2>5, <2>6, <2>7, <2>8, <2>9, <2>10, <2>11, <2>12, <2>13, <2>14, Zenon
       DEF Next, Caller, LoopTop, Receive, Write, Notified, Leave
<1> QED
  BY <1>1, <1>2 DEF ToCome

\* Apart from the writes and answers, the active query is dropped only together
\* with the channel.
BoardStill ==
  /\ UNCHANGED boardVars
  /\ pending' = pending \/ (pending' = NoCall /\ ~chanOpen')
  /\ chanOpen' => chanOpen

\* The steps that concern neither the board nor an answer leave it so.
LEMMA UnaffectedStill ==
  ASSUME Unaffected \/ Unprompted \/ UNCHANGED correlationVars
  PROVE  BoardStill
<1> USE DEF BoardStill
<1>1. CASE UNCHANGED <<pending, chanOpen, boardVars>>
  BY <1>1
<1>2. CASE (Reject \/ Abort) /\ UNCHANGED boardVars
  BY <1>2 DEF Reject, Abort
<1>3. (\E c \in Calls : Caller(c)) \/ DropHandles \/ Startup \/ LoopTop => UNCHANGED <<pending, chanOpen>>
  BY DEF Caller, Begin, Enqueue, FindClosed, Cancel, DropHandles, Startup, SubscribePosition,
         EnableRealtime, SubscribeResponse, StartupFails, LoopTop, StartQueued, EnterSelect,
         chanVars, queryVars
<1>4. Receive \/ WriteFails \/ NotificationFails \/ DeadlinePasses \/ Terminated
        => UNCHANGED <<pending, chanOpen>>
  BY DEF Receive, ReceiveSend, ReceiveQueryStarts, ReceiveQueryQueues, ReceiveQueryRefused,
         ReceiveSubscribe, ReceiveShutdown, ReceiveNone, WriteFails, NotificationFails,
         DeadlinePasses, Terminated, vars, chanVars, queryVars
<1>5. Leave => Reject \/ UNCHANGED <<pending, chanOpen>>
  BY DEF Leave, Announce, UnsubscribeResponse, UnsubscribePosition, CloseTransport, CleanupFails,
         Finish, ReplyShutdown, Exit, chanVars, queryVars
<1>6. \A k : ReceiveOther(k) => UNCHANGED <<pending, chanOpen>>
  BY DEF ReceiveOther, chanVars, queryVars
<1>7. UNCHANGED correlationVars => UNCHANGED <<pending, chanOpen, boardVars>>
  BY DEF correlationVars, vars, chanVars, queryVars
<1> QED
  BY <1>1, <1>2, <1>3, <1>4, <1>5, <1>6, <1>7 DEF Unaffected, Unprompted

-----------------------------------------------------------------------------
(* The kinds of steps, and that each preserves what is said of the board. *)

\* The writes are in a total order.
LEMMA WriteOrder ==
  ASSUME CorrelationTypeOK
  PROVE  /\ \A c, d : Before(c, d) => /\ c # d /\ ~Before(d, c)
                                      /\ c \in ToSet(written) /\ d \in ToSet(written)
         /\ \A c, d \in ToSet(written) : c = d \/ Before(c, d) \/ Before(d, c)
         /\ \A c, d, e : Before(c, d) /\ Before(d, e) => Before(c, e)
         /\ ToSet(written) \subseteq Calls
<1>1. written \in Seq(Calls) /\ IsInjective(written)
  BY DEF CorrelationTypeOK
<1>2. /\ \A c, d : Before(c, d) => c # d /\ ~Before(d, c)
      /\ \A c, d \in ToSet(written) : c = d \/ Before(c, d) \/ Before(d, c)
      /\ \A c, d, e : Before(c, d) /\ Before(d, e) => Before(c, e)
  BY <1>1, OrderTotal DEF Before
<1>3. \A c, d : Before(c, d) => c \in ToSet(written) /\ d \in ToSet(written)
  BY OrderFacts DEF Before
<1>4. ToSet(written) \subseteq Calls
  BY <1>1 DEF ToSet
<1> QED
  BY <1>2, <1>3, <1>4

\* The order of the writes and what they ask for stay as they are.
LinesStill ==
  /\ UNCHANGED <<carries, written>>
  /\ \A c : AsksFor(c)' = AsksFor(c)
  /\ \A c, d : Before(c, d)' <=> Before(c, d)

\* Only a write changes the lines.
LEMMA LinesKept == UNCHANGED <<carries, written>> => LinesStill
BY DEF LinesStill, AsksFor, Before, InOrder

\* The calls past their write stay there.
PastWrite == \A c \in Calls : ~ToCome(c) => ~ToCome(c)'

\* The bytes of c are written, behind all others.
Wrote(c) ==
  /\ c \in Calls \ ToSet(written) /\ AsksFor(c) \in QueryKinds /\ ~ToCome(c)'
  /\ written' \in Seq(Calls) /\ IsInjective(written')
  /\ ToSet(written') = ToSet(written) \cup {c}
  /\ \A d, e : Before(d, e)' <=> Before(d, e) \/ (d \in ToSet(written) /\ e = c)
  /\ \A d : AsksFor(d)' = AsksFor(d)
  /\ inflight' = inflight \cup {c}
  /\ UNCHANGED <<carries, answer, gaveUp>>

WroteQuery(c) ==
  /\ Wrote(c) /\ IsQuery(c)
  /\ pending = NoCall /\ pending' = c
  /\ chanOpen
  /\ clean' \subseteq clean \cup {c}
  /\ c \in clean' => \A d \in inflight : AsksFor(d) # AsksFor(c)

WroteRaw(c) == Wrote(c) /\ c \in Sends /\ UNCHANGED <<pending, chanOpen, clean>>

\* A response leaves the link and completes nothing.
Consumed(c) == Consume(c) /\ UNCHANGED <<carries, written, answer, gaveUp, clean, pending, chanOpen>>

\* A response leaves the link and completes the active query p.
Completed(c, p) ==
  /\ Consume(c)
  /\ p = pending /\ p \in Calls /\ IsQuery(p) /\ AsksFor(p) = AsksFor(c)
  /\ answer' = [answer EXCEPT ![p] = c]
  /\ pending' = NoCall
  /\ UNCHANGED <<carries, written, gaveUp, clean, chanOpen>>

\* The active query p is given up.
Expired(p) ==
  /\ p = pending /\ p \in Calls /\ IsQuery(p)
  /\ gaveUp' = gaveUp \cup {p}
  /\ pending' = NoCall
  /\ UNCHANGED <<carries, written, inflight, answer, clean, chanOpen>>

BoardInv ==
  /\ CorrelationTypeOK
  /\ WrittenInv
  /\ TurnInv
  /\ LinkInv
  /\ AnswerInv
  /\ CleanInv

\* A step that the board does not see keeps what is said of it.
LEMMA StillStep ==
  ASSUME CorrelationInv, PastWrite, BoardStill
  PROVE  BoardInv'
<1>1. /\ UNCHANGED <<carries, written, inflight, answer, gaveUp, clean>>
      /\ LinesStill
      /\ \A c : Resolved(c)' <=> Resolved(c)
  BY LinesKept DEF BoardStill, boardVars, Resolved
<1>2. CorrelationTypeOK'
  BY <1>1 DEF CorrelationInv, CorrelationTypeOK
<1>3. WrittenInv'
  <2>1. ToSet(written) \subseteq Calls
    BY WriteOrder DEF CorrelationInv
  <2> QED
    BY <1>1, <2>1 DEF CorrelationInv, WrittenInv, LinesStill, PastWrite, BoardStill
<1>4. TurnInv'
  BY <1>1 DEF CorrelationInv, TurnInv, LinesStill, BoardStill
<1>5. LinkInv'
  BY <1>1 DEF CorrelationInv, LinkInv, LinesStill
<1>6. AnswerInv'
  BY <1>1 DEF CorrelationInv, AnswerInv, LinesStill
<1>7. CleanInv'
  BY <1>1 DEF CorrelationInv, CleanInv, LinesStill
<1> QED
  BY <1>2, <1>3, <1>4, <1>5, <1>6, <1>7 DEF BoardInv

\* The responses that are left are still in the order of the writes.
LEMMA ConsumeInOrder ==
  ASSUME CorrelationInv, NEW c, Consume(c), LinesStill
  PROVE  LinkInv'
<1> SUFFICES ASSUME NEW d \in inflight', NEW e \in ToSet(written'),
                    AsksFor(e)' = AsksFor(d)', Before(d, e)'
             PROVE  e \in inflight'
  BY DEF LinkInv
<1>1. d \in inflight /\ AsksFor(e) = AsksFor(d) /\ Before(d, e) /\ e \in ToSet(written)
  BY DEF Consume, LinesStill
<1>2. e \in inflight
  BY <1>1 DEF CorrelationInv, LinkInv
<1>3. e # c
  BY <1>1 DEF Consume
<1> QED
  BY <1>2, <1>3 DEF Consume

\* A response that completes nothing leaves the answers as they are.
LEMMA ConsumedStep ==
  ASSUME CorrelationInv, PastWrite, NEW c \in Calls, Consumed(c)
  PROVE  BoardInv'
<1>1. /\ UNCHANGED <<carries, written, answer, gaveUp, clean, pending, chanOpen>>
      /\ inflight' \subseteq inflight
      /\ LinesStill
      /\ \A d : Resolved(d)' <=> Resolved(d)
  BY LinesKept DEF Consumed, Consume, Resolved
<1>2. CorrelationTypeOK'
  BY <1>1 DEF CorrelationInv, CorrelationTypeOK
<1>3. WrittenInv'
  <2>1. ToSet(written) \subseteq Calls
    BY WriteOrder DEF CorrelationInv
  <2> QED
    BY <1>1, <2>1 DEF CorrelationInv, WrittenInv, LinesStill, PastWrite
<1>4. TurnInv'
  BY <1>1 DEF CorrelationInv, TurnInv, LinesStill
<1>5. LinkInv'
  BY <1>1, ConsumeInOrder DEF Consumed
<1>6. AnswerInv'
  BY <1>1 DEF CorrelationInv, AnswerInv, LinesStill
<1>7. CleanInv'
  BY <1>1 DEF CorrelationInv, CleanInv, LinesStill
<1> QED
  BY <1>2, <1>3, <1>4, <1>5, <1>6, <1>7 DEF BoardInv

\* A query that is given up is resolved without an answer.
LEMMA ExpiredStep ==
  ASSUME CorrelationInv, PastWrite, NEW p, Expired(p)
  PROVE  BoardInv'
<1>a. p # NoCall /\ p \in Calls
  BY ConstantsAssumption DEF Expired
<1>b. p \in ToSet(written) /\ ~Resolved(p)
  BY <1>a DEF Expired, CorrelationInv, WrittenInv
<1>1. /\ UNCHANGED <<carries, written, inflight, answer, clean, chanOpen>>
      /\ gaveUp' = gaveUp \cup {p} /\ pending' = NoCall /\ pending = p /\ IsQuery(p)
      /\ LinesStill
      /\ \A d : Resolved(d)' <=> Resolved(d) \/ d = p
  BY LinesKept DEF Expired, Resolved
<1>2. CorrelationTypeOK'
  BY <1>1, <1>a DEF CorrelationInv, CorrelationTypeOK
<1>3. WrittenInv'
  <2>1. ToSet(written) \subseteq Calls
    BY WriteOrder DEF CorrelationInv
  <2>2. answer[p] = NoCall
    BY <1>b DEF Resolved
  <2> QED
    BY <1>1, <1>b, <2>1, <2>2 DEF CorrelationInv, WrittenInv, LinesStill, PastWrite
<1>4. TurnInv'
  BY <1>1 DEF CorrelationInv, TurnInv, LinesStill
<1>5. LinkInv'
  BY <1>1 DEF CorrelationInv, LinkInv, LinesStill
<1>6. AnswerInv'
  BY <1>1 DEF CorrelationInv, AnswerInv, LinesStill
<1>7. CleanInv'
  BY <1>1 DEF CorrelationInv, CleanInv, LinesStill
<1> QED
  BY <1>2, <1>3, <1>4, <1>5, <1>6, <1>7 DEF BoardInv

\* The active query is the last one written, and the response is the oldest of its
\* type: both orders are kept.
LEMMA CompletedStep ==
  ASSUME CorrelationInv, PastWrite, NEW c \in Calls, NEW p, Completed(c, p)
  PROVE  BoardInv'
<1>a. /\ p # NoCall /\ p \in Calls /\ pending = p /\ IsQuery(p) /\ AsksFor(p) = AsksFor(c)
      /\ c # NoCall
  BY ConstantsAssumption DEF Completed
<1>b. p \in ToSet(written) /\ ~Resolved(p)
  BY <1>a DEF CorrelationInv, WrittenInv
<1>c. c \in inflight /\ c \in ToSet(written)
  BY DEF Completed, Consume, CorrelationInv, CorrelationTypeOK
<1>d. answer \in [Calls -> Calls \cup {NoCall}]
  BY DEF CorrelationInv, CorrelationTypeOK
<1>1. /\ UNCHANGED <<carries, written, gaveUp, clean, chanOpen>>
      /\ inflight' = inflight \ {c} /\ pending' = NoCall
      /\ answer'[p] = c /\ \A d \in Calls : d # p => answer'[d] = answer[d]
      /\ answer' \in [Calls -> Calls \cup {NoCall}]
      /\ LinesStill
  BY <1>a, <1>d, LinesKept DEF Completed, Consume
<1>2. \A d \in Calls : Resolved(d)' <=> Resolved(d) \/ d = p
  BY <1>1, <1>a DEF Resolved
<1>3. /\ ToSet(written) \subseteq Calls
      /\ \A x, y : Before(x, y) => /\ x # y /\ ~Before(y, x)
                                   /\ x \in ToSet(written) /\ y \in ToSet(written)
      /\ \A x, y \in ToSet(written) : x = y \/ Before(x, y) \/ Before(y, x)
  BY WriteOrder DEF CorrelationInv
\* No query is written behind the active one.
<1>4. ASSUME NEW x, Before(p, x) PROVE ~IsQuery(x)
  BY <1>4, <1>a, <1>b, <1>3 DEF CorrelationInv, TurnInv
<1>5. CorrelationTypeOK'
  BY <1>1 DEF CorrelationInv, CorrelationTypeOK
<1>6. WrittenInv'
  <2>1. p \notin gaveUp
    BY <1>b DEF Resolved
  <2>2. \A x \in gaveUp : answer'[x] = NoCall /\ IsQuery(x) /\ x \in ToSet(written)
    BY <1>1, <1>3, <2>1 DEF CorrelationInv, WrittenInv
  <2> QED
    BY <1>1, <1>3, <2>2 DEF CorrelationInv, WrittenInv, LinesStill, PastWrite
<1>7. TurnInv'
  BY <1>1, <1>2, <1>3, <1>a DEF CorrelationInv, TurnInv, LinesStill
<1>8. LinkInv'
  BY <1>1, ConsumeInOrder DEF Completed
<1>9. AnswerInv'
  <2> SUFFICES ASSUME NEW x \in Calls, answer'[x] # NoCall
               PROVE  /\ x \in ToSet(written) /\ IsQuery(x)
                      /\ answer'[x] \in ToSet(written) \ inflight'
                      /\ AsksFor(answer'[x]) = AsksFor(x)
                      /\ Before(x, answer'[x]) => answer'[x] \in Sends
                      /\ \A e \in Calls : answer'[e] # NoCall /\ AsksFor(e) = AsksFor(x) /\ Before(e, x) =>
                            Before(answer'[e], answer'[x])
    BY <1>1 DEF AnswerInv, LinesStill
  <2>1. CASE x = p
    <3>1. Before(x, c) => c \in Sends
      BY <2>1, <1>4, <1>c DEF CorrelationInv, WrittenInv
    <3>2. ASSUME NEW e \in Calls, answer'[e] # NoCall, AsksFor(e) = AsksFor(x), Before(e, x)
          PROVE  Before(answer'[e], c)
      <4>1. e # p /\ answer'[e] = answer[e]
        BY <1>1, <1>3, <2>1, <3>2
      <4>2. answer[e] \in ToSet(written) \ inflight /\ AsksFor(answer[e]) = AsksFor(c)
        BY <1>a, <2>1, <3>2, <4>1 DEF CorrelationInv, AnswerInv
      <4>3. ~Before(c, answer[e])
        BY <1>c, <4>2 DEF CorrelationInv, LinkInv
      <4> QED
        BY <1>3, <1>c, <4>1, <4>2, <4>3
    <3> QED
      BY <1>1, <1>a, <1>b, <1>c, <2>1, <3>1, <3>2
  <2>2. CASE x # p
    <3>1. answer'[x] = answer[x]
      BY <1>1, <2>2
    <3>2. IsQuery(x)
      BY <3>1 DEF CorrelationInv, AnswerInv
    <3>3. ASSUME NEW e \in Calls, answer'[e] # NoCall, AsksFor(e) = AsksFor(x), Before(e, x)
          PROVE  Before(answer'[e], answer[x])
      <4>1. e # p /\ answer'[e] = answer[e]
        BY <1>1, <1>4, <3>2, <3>3
      <4> QED
        BY <3>1, <3>3, <4>1 DEF CorrelationInv, AnswerInv
    <3> QED
      BY <1>1, <3>1, <3>3 DEF CorrelationInv, AnswerInv
  <2> QED
    BY <2>1, <2>2
<1>10. CleanInv'
  <2>1. p \in clean => ~Before(c, p)
    BY <1>a, <1>c DEF CorrelationInv, CleanInv
  <2>2. \A x \in clean : answer'[x] # NoCall => ~Before(answer'[x], x)
    <3> SUFFICES ASSUME NEW x \in clean, answer'[x] # NoCall PROVE ~Before(answer'[x], x)
      OBVIOUS
    <3>1. x \in Calls
      BY DEF CorrelationInv, CorrelationTypeOK
    <3>2. CASE x = p
      BY <1>1, <2>1, <3>2
    <3>3. CASE x # p
      BY <1>1, <3>1, <3>3 DEF CorrelationInv, CleanInv
    <3> QED
      BY <3>2, <3>3
  <2> QED
    BY <1>1, <2>2 DEF CorrelationInv, CleanInv, LinesStill
<1> QED
  BY <1>5, <1>6, <1>7, <1>8, <1>9, <1>10 DEF BoardInv

\* A write disturbs nothing that is said of the earlier ones.
LEMMA WroteStep ==
  ASSUME CorrelationInv, PastWrite, NEW c \in Calls, WroteQuery(c) \/ WroteRaw(c)
  PROVE  BoardInv'
<1>1. /\ c \notin ToSet(written) /\ AsksFor(c) \in QueryKinds /\ ~ToCome(c)'
      /\ written' \in Seq(Calls) /\ IsInjective(written')
      /\ ToSet(written') = ToSet(written) \cup {c}
      /\ \A d, e : Before(d, e)' <=> Before(d, e) \/ (d \in ToSet(written) /\ e = c)
      /\ \A d : AsksFor(d)' = AsksFor(d)
      /\ inflight' = inflight \cup {c}
      /\ UNCHANGED <<carries, answer, gaveUp>>
      /\ c # NoCall
  BY ConstantsAssumption DEF WroteQuery, WroteRaw, Wrote
<1>2. \A d : Resolved(d)' <=> Resolved(d)
  BY <1>1 DEF Resolved
<1>3. /\ ToSet(written) \subseteq Calls
      /\ \A x, y : Before(x, y) => x # y /\ x \in ToSet(written) /\ y \in ToSet(written)
  BY WriteOrder DEF CorrelationInv
<1>4. answer[c] = NoCall /\ c \notin gaveUp /\ ~Resolved(c)
  BY <1>1 DEF CorrelationInv, WrittenInv, AnswerInv, Resolved
<1>5. inflight \subseteq ToSet(written) /\ clean \subseteq ToSet(written) /\ gaveUp \subseteq ToSet(written)
  BY DEF CorrelationInv, CorrelationTypeOK, WrittenInv
<1>6. /\ clean' \subseteq clean \cup {c}
      /\ c \in clean' => IsQuery(c) /\ \A d \in inflight : AsksFor(d) # AsksFor(c)
  BY <1>1, <1>5 DEF WroteQuery, WroteRaw
<1>7. CorrelationTypeOK'
  BY <1>1, <1>5, <1>6 DEF CorrelationInv, CorrelationTypeOK
<1>8. WrittenInv'
  <2>1. \A d \in ToSet(written') : ~ToCome(d)' /\ AsksFor(d)' \in QueryKinds /\ (IsQuery(d) \/ d \in Sends)
    <3>1. IsQuery(c) \/ c \in Sends
      BY DEF WroteQuery, WroteRaw
    <3> QED
      BY <1>1, <1>3, <3>1 DEF CorrelationInv, WrittenInv, PastWrite
  <2>2. pending' # NoCall => pending' \in ToSet(written') /\ ~Resolved(pending')
    <3>1. CASE WroteQuery(c)
      BY <1>1, <1>4, <3>1 DEF WroteQuery
    <3>2. CASE WroteRaw(c)
      BY <1>1, <3>2 DEF WroteRaw, CorrelationInv, WrittenInv
    <3> QED
      BY <3>1, <3>2
  <2>3. ~Resolved(pending') <=> ~Resolved(pending)'
    BY <1>1 DEF Resolved
  <2>4. \A d \in clean' : IsQuery(d) /\ d \in ToSet(written')
    BY <1>1, <1>5, <1>6 DEF CorrelationInv, WrittenInv
  <2>5. \A d \in gaveUp' : IsQuery(d) /\ answer'[d] = NoCall /\ d \in ToSet(written')
    BY <1>1, <1>5 DEF CorrelationInv, WrittenInv
  <2> QED
    BY <2>1, <2>2, <2>3, <2>4, <2>5 DEF WrittenInv
<1>9. TurnInv'
  <2>1. CASE WroteQuery(c)
    <3>1. \A d \in ToSet(written) : IsQuery(d) => Resolved(d)
      BY <1>3, <2>1, ConstantsAssumption DEF WroteQuery, CorrelationInv, TurnInv
    <3>2. pending' = c
      BY <2>1 DEF WroteQuery
    <3> QED
      BY <1>1, <1>2, <1>3, <3>1, <3>2 DEF CorrelationInv, TurnInv
  <2>2. CASE WroteRaw(c)
    <3>1. ~IsQuery(c) /\ UNCHANGED <<pending, chanOpen>>
      BY <2>2 DEF WroteRaw, Sends, IsQuery, QueryKinds
    <3> QED
      BY <1>1, <1>2, <1>3, <3>1 DEF CorrelationInv, TurnInv
  <2> QED
    BY <2>1, <2>2
<1>10. LinkInv'
  BY <1>1, <1>3, <1>5 DEF CorrelationInv, LinkInv
<1>11. AnswerInv'
  <2> SUFFICES ASSUME NEW x \in Calls, answer[x] # NoCall
               PROVE  /\ x \in ToSet(written') /\ IsQuery(x)
                      /\ answer[x] \in ToSet(written') \ inflight'
                      /\ AsksFor(answer[x]) = AsksFor(x)
                      /\ Before(x, answer[x])' => answer[x] \in Sends
                      /\ \A e \in Calls : answer[e] # NoCall /\ AsksFor(e) = AsksFor(x) /\ Before(e, x)' =>
                            Before(answer[e], answer[x])'
    <3>1. \A x : AsksFor(answer'[x]) = AsksFor(answer[x])
      BY <1>1
    <3> QED
      BY <1>1 DEF AnswerInv
  <2>1. /\ x \in ToSet(written) /\ IsQuery(x)
        /\ answer[x] \in ToSet(written) \ inflight /\ AsksFor(answer[x]) = AsksFor(x)
        /\ Before(x, answer[x]) => answer[x] \in Sends
        /\ \A e \in Calls : answer[e] # NoCall /\ AsksFor(e) = AsksFor(x) /\ Before(e, x) =>
              Before(answer[e], answer[x])
    BY DEF CorrelationInv, AnswerInv
  <2>2. x # c /\ answer[x] # c
    BY <1>1, <2>1
  <2> QED
    BY <1>1, <2>1, <2>2
<1>12. CleanInv'
  <2> SUFFICES ASSUME NEW x \in clean'
               PROVE  /\ \A e \in inflight' : AsksFor(e) = AsksFor(x) => ~Before(e, x)'
                      /\ answer[x] # NoCall => ~Before(answer[x], x)'
    BY <1>1 DEF CleanInv
  <2>1. CASE x = c
    BY <1>1, <1>3, <1>4, <1>6, <2>1
  <2>2. CASE x # c
    <3>1. x \in clean
      BY <1>6, <2>2
    <3> QED
      BY <1>1, <1>3, <2>2, <3>1 DEF CorrelationInv, CleanInv
  <2> QED
    BY <2>1, <2>2
<1> QED
  BY <1>7, <1>8, <1>9, <1>10, <1>11, <1>12 DEF BoardInv

\* What the actor writes is written for the first time.
LEMMA WriteFacts ==
  ASSUME CorrelationInv, PastWrite, NEW c \in Calls, c = current, Written(c),
         current' = NoCall, AsksFor(c) \in QueryKinds, call[c] \notin {"idle", "sending"},
         call'[c] \notin {"idle", "sending"},
         UNCHANGED <<chan, queued, carries, answer, gaveUp>>
  PROVE  Wrote(c)
<1>1. written \in Seq(Calls) /\ IsInjective(written)
  BY DEF CorrelationInv, CorrelationTypeOK
<1>2. c \notin ToSet(written)
  BY DEF CorrelationInv, WrittenInv, ToCome
<1>3. /\ written' = Append(written, c) /\ inflight' = inflight \cup {c}
      /\ written' \in Seq(Calls) /\ IsInjective(written') /\ ToSet(written') = ToSet(written) \cup {c}
  BY <1>1, <1>2, AddLast DEF Written
<1>4. \A d, e : Before(d, e)' <=> Before(d, e) \/ (d \in ToSet(written) /\ e = c)
  BY <1>1, <1>3, OrderAppend DEF Before
<1>5. \A d : AsksFor(d)' = AsksFor(d)
  BY DEF AsksFor
<1>6. ~ToCome(c)'
  <2>1. c \notin ToSet(chan) \cup ToSet(queued) /\ c # NoCall
    BY ConstantsAssumption DEF CorrelationInv, IInv, HeldOnce
  <2> QED
    BY <2>1 DEF ToCome
<1> QED
  BY <1>2, <1>3, <1>4, <1>5, <1>6 DEF Wrote

\* The call that is being written has been accepted.
LEMMA CurrentFacts ==
  ASSUME IInv, pc = "write"
  PROVE  /\ current \in Calls /\ current # NoCall /\ chanOpen
         /\ call \in [Calls -> CallStates] /\ call[current] \in {"waiting", "cancelled"}
<1>1. current # NoCall /\ current \in Calls /\ chanOpen /\ call \in [Calls -> CallStates]
  BY DEF IInv, TypeOK, ControlInv, ClosedPoints, CleanupPoints, Ended
<1>2. current \in Held
  BY <1>1 DEF Held
<1> QED
  BY <1>1, <1>2 DEF IInv, HeldOnce

\* Each step of the composition is of one of these kinds.
LEMMA StepKinds ==
  ASSUME CorrelationInv, PastWrite, [CorrelationNext]_correlationVars
  PROVE  \/ BoardStill
         \/ \E c \in Calls : WroteQuery(c) \/ WroteRaw(c) \/ Consumed(c)
         \/ \E c \in Calls : \E p : Completed(c, p)
         \/ \E p : Expired(p)
<1> USE DEF CorrelationInv
<1>1. ASSUME WriteQuery PROVE \E c \in Calls : WroteQuery(c)
  <2>1. pc = "write" /\ IsQuery(current) /\ pending' = current /\ current' = NoCall
        /\ UNCHANGED <<call, chan, queued, chanOpen, carries, answer, gaveUp>> /\ Written(current)
    BY <1>1 DEF WriteQuery, FinishQueryWrite, callVars, chanVars
  <2>2. /\ current \in Calls /\ chanOpen /\ call[current] \in {"waiting", "cancelled"}
        /\ pending = NoCall
    BY <2>1, CurrentFacts DEF IInv, OneQueryAtATime
  <2>3. PICK c \in Calls : c = current
    BY <2>2
  <2>4. AsksFor(c) = Kind[c] /\ Kind[c] \in QueryKinds
    BY <2>1, <2>3 DEF AsksFor, IsQuery
  <2>5. Wrote(c)
    <3>1. /\ Written(c) /\ current' = NoCall /\ call[c] \notin {"idle", "sending"} /\ call'[c] = call[c]
          /\ UNCHANGED <<chan, queued, carries, answer, gaveUp>>
      BY <2>1, <2>2, <2>3
    <3> QED
      BY <2>3, <2>4, <3>1, WriteFacts
  <2>6. clean' = IF \E d \in inflight : AsksFor(d) = AsksFor(c) THEN clean ELSE clean \cup {c}
    BY <1>1, <2>3, <2>4 DEF WriteQuery
  <2>7. c \notin clean
    BY <2>5 DEF Wrote, WrittenInv
  <2>8. clean' \subseteq clean \cup {c} /\ (c \in clean' => \A d \in inflight : AsksFor(d) # AsksFor(c))
    BY <2>6, <2>7
  <2> QED
    BY <2>1, <2>2, <2>3, <2>4, <2>5, <2>8 DEF WroteQuery, IsQuery
<1>2. ASSUME WriteRaw PROVE BoardStill \/ \E c \in Calls : WroteRaw(c)
  <2>1. pc = "write" /\ Kind[current] = "send" /\ call' = Answer(current, "Ok") /\ current' = NoCall
        /\ UNCHANGED <<chan, chanOpen, pending, queued, carries, answer, gaveUp, clean>>
    BY <1>2 DEF WriteRaw, FinishSend, chanVars
  <2>2. current \in Calls /\ call \in [Calls -> CallStates] /\ call[current] \in {"waiting", "cancelled"}
    BY <2>1, CurrentFacts
  <2>3. CASE carries[current] = "none"
    BY <1>2, <2>1, <2>3 DEF WriteRaw, BoardStill, boardVars
  <2>4. CASE carries[current] # "none"
    <3>1. PICK c \in Calls : c = current
      BY <2>2
    <3>2. c \in Sends /\ ~IsQuery(c)
      BY <2>1, <3>1 DEF Sends, IsQuery, QueryKinds
    <3>3. AsksFor(c) = carries[c] /\ carries[c] \in QueryKinds
      BY <2>4, <3>1, <3>2 DEF AsksFor, CorrelationTypeOK
    <3>4. Written(c)
      BY <1>2, <2>4, <3>1 DEF WriteRaw
    <3>5. call[c] \notin {"idle", "sending"} /\ call'[c] \notin {"idle", "sending"}
      BY <2>1, <2>2, <3>1 DEF Answer
    <3>6. Wrote(c)
      BY <2>1, <3>1, <3>3, <3>4, <3>5, WriteFacts
    <3> QED
      BY <2>1, <3>2, <3>6 DEF WroteRaw
  <2> QED
    BY <2>3, <2>4
<1>3. ASSUME NEW c \in Calls, Answered(c) PROVE \E p : Completed(c, p)
  <2>1. PICK p : p = pending
    OBVIOUS
  <2>2. pending # NoCall /\ Kind[pending] = AsksFor(c) /\ pending' = NoCall
        /\ UNCHANGED chanOpen
    BY <1>3 DEF Answered, ReceiveResponse, chanVars
  <2>3. p \in Calls /\ IsQuery(p)
    BY <2>1, <2>2 DEF IInv, TypeOK, ControlInv, IsQuery
  <2>4. AsksFor(p) = AsksFor(c)
    BY <2>1, <2>2, <2>3 DEF AsksFor
  <2> QED
    BY <1>3, <2>1, <2>2, <2>3, <2>4 DEF Answered, Completed
<1>4. ASSUME NEW c \in Calls, Stray(c) \/ Corrupted(c) \/ Lose(c) PROVE Consumed(c)
  BY <1>4 DEF Stray, Corrupted, Lose, ReceiveOther, Consumed, vars, chanVars, queryVars
<1>5. ASSUME GiveUp PROVE \E p : Expired(p)
  <2>1. PICK p : p = pending
    OBVIOUS
  <2>2. pending # NoCall /\ pending' = NoCall /\ UNCHANGED chanOpen
    BY <1>5 DEF GiveUp, Timeout, chanVars
  <2>3. p \in Calls /\ IsQuery(p)
    BY <2>1, <2>2 DEF IInv, TypeOK, ControlInv, IsQuery
  <2> QED
    BY <1>5, <2>1, <2>2, <2>3 DEF GiveUp, Expired
<1> QED
  BY <1>1, <1>2, <1>3, <1>4, <1>5, UnaffectedStill, Zenon DEF CorrelationNext

\* The actor's own invariant carries over, and with it the board's.
LEMMA CorrelationInvNext ==
  CorrelationInv /\ IInv' /\ [CorrelationNext]_correlationVars => CorrelationInv'
<1> SUFFICES ASSUME CorrelationInv, IInv', [CorrelationNext]_correlationVars PROVE CorrelationInv'
  OBVIOUS
<1>1. PastWrite
  BY ActorStep, ToComeShrinks DEF PastWrite, CorrelationInv
<1>2. BoardInv'
  BY <1>1, StepKinds, StillStep, WroteStep, ConsumedStep, CompletedStep, ExpiredStep
<1> QED
  BY <1>2 DEF BoardInv, CorrelationInv

\* At first nothing is written.
LEMMA CorrelationInvInit == CorrelationInit => CorrelationInv
<1> SUFFICES ASSUME CorrelationInit PROVE CorrelationInv
  OBVIOUS
<1>1. /\ written = <<>> /\ ToSet(written) = {} /\ IsInjective(written)
      /\ inflight = {} /\ gaveUp = {} /\ clean = {} /\ pending = NoCall
      /\ answer = [c \in Calls |-> NoCall] /\ carries \in [Sends -> QueryKinds \cup {"none"}]
  BY EmptySet DEF CorrelationInit, Init
<1>2. IInv
  BY IInvInit DEF CorrelationInit
<1>3. CorrelationTypeOK
  <2>1. written \in Seq(Calls)
    BY <1>1
  <2> QED
    BY <1>1, <2>1 DEF CorrelationTypeOK
<1>4. WrittenInv /\ TurnInv /\ LinkInv /\ AnswerInv /\ CleanInv
  BY <1>1 DEF WrittenInv, TurnInv, LinkInv, AnswerInv, CleanInv
<1> QED
  BY <1>2, <1>3, <1>4 DEF CorrelationInv

-----------------------------------------------------------------------------
(* What follows for the answers. *)

\* The writes before c that ask for the same as c.
Earlier(c) == {e \in Calls : Before(e, c) /\ AsksFor(e) = AsksFor(c)}

\* Only so much has been written.
LEMMA EarlierFinite ==
  ASSUME CorrelationTypeOK, NEW c
  PROVE  IsFiniteSet(Earlier(c))
<1>1. written \in Seq(Calls)
  BY DEF CorrelationTypeOK
<1>2. Len(written) \in Nat /\ DOMAIN written = 1 .. Len(written)
  BY <1>1
<1>3. written \in Surjection(1 .. Len(written), ToSet(written))
  <2>1. written \in [1 .. Len(written) -> ToSet(written)]
    <3>1. \A i \in DOMAIN written : written[i] \in ToSet(written)
      BY DEF ToSet
    <3> QED
      BY <1>1, <1>2, <3>1
  <2> QED
    BY <1>2, <2>1 DEF Surjection, ToSet
<1>4. IsFiniteSet(1 .. Len(written))
  BY <1>2, FS_Interval
<1>5. IsFiniteSet(ToSet(written))
  BY <1>3, <1>4, FS_Surjection
<1>6. Earlier(c) \subseteq ToSet(written)
  BY WriteOrder DEF Earlier
<1> QED
  BY <1>5, <1>6, FS_Subset

\* Two ways of splitting a finite set, one part of each no larger than the other's:
\* the remaining parts compare the other way.
LEMMA SplitTwice ==
  ASSUME NEW P, IsFiniteSet(P),
         NEW A \in SUBSET P, NEW B \in SUBSET P,
         NEW f \in Injection(P \ B, P \ A)
  PROVE  Cardinality(A) <= Cardinality(B)
<1>1. /\ IsFiniteSet(A) /\ IsFiniteSet(B) /\ IsFiniteSet(P \ A) /\ IsFiniteSet(P \ B)
  BY FS_Subset
<1>2. Cardinality(P \ B) <= Cardinality(P \ A)
  BY <1>1, FS_Injection
<1>3. /\ Cardinality(P \ A) = Cardinality(P) - Cardinality(P \cap A)
      /\ Cardinality(P \ B) = Cardinality(P) - Cardinality(P \cap B)
  BY FS_Difference, Zenon
<1>4. P \cap A = A /\ P \cap B = B
  OBVIOUS
<1>5. Cardinality(P) \in Nat /\ Cardinality(A) \in Nat /\ Cardinality(B) \in Nat
  BY <1>1, FS_CardinalityType
<1> QED
  BY <1>2, <1>3, <1>4, <1>5

\* The queries written before c and answered took responses that are older still
\* than that of c: there are no more of them than of such responses.
LEMMA BoundFollows == CorrelationInv => StalenessBounded
<1> SUFFICES ASSUME CorrelationInv, NEW c \in Calls, answer[c] # NoCall, answer[c] # c
             PROVE  \/ Before(answer[c], c)
                       /\ Cardinality(Since(answer[c], c)) <= Cardinality(Abandoned(c))
                    \/ SentAfter(answer[c], c)
  BY DEF StalenessBounded
<1> DEFINE a == answer[c]
<1>1. /\ c \in ToSet(written) /\ IsQuery(c) /\ a \in ToSet(written) /\ a # c
      /\ AsksFor(a) = AsksFor(c) /\ (Before(c, a) => a \in Sends)
      /\ \A e \in Calls : answer[e] # NoCall /\ AsksFor(e) = AsksFor(c) /\ Before(e, c) =>
            Before(answer[e], a)
  BY DEF CorrelationInv, AnswerInv
<1>2. /\ ToSet(written) \subseteq Calls
      /\ \A x, y : Before(x, y) => /\ x # y /\ ~Before(y, x)
                                   /\ x \in ToSet(written) /\ y \in ToSet(written)
      /\ \A x, y \in ToSet(written) : x = y \/ Before(x, y) \/ Before(y, x)
      /\ \A x, y, z : Before(x, y) /\ Before(y, z) => Before(x, z)
  BY WriteOrder DEF CorrelationInv
<1>3. CASE Before(c, a)
  BY <1>1, <1>3 DEF SentAfter
<1>4. CASE Before(a, c)
  <2> DEFINE P == Earlier(c)
  <2> DEFINE A == Since(a, c)
  <2> DEFINE B == Abandoned(c)
  <2> DEFINE f == [e \in P \ B |-> answer[e]]
  <2>1. IsFiniteSet(P)
    BY EarlierFinite DEF CorrelationInv
  <2>2. A \subseteq P /\ B \subseteq P
    BY DEF Since, Abandoned, Earlier, CorrelationInv, CorrelationTypeOK, Sends
  <2>3. ASSUME NEW e \in P \ B PROVE answer[e] # NoCall /\ e \in Calls /\ Before(e, c) /\ AsksFor(e) = AsksFor(c)
    <3>1. e \in Calls /\ Before(e, c) /\ AsksFor(e) = AsksFor(c) /\ e \notin gaveUp \cup Sends
      BY <2>3 DEF Earlier, Abandoned
    <3>2. e \in ToSet(written) /\ IsQuery(e)
      BY <1>2, <3>1 DEF CorrelationInv, WrittenInv
    <3>3. Resolved(e)
      BY <1>1, <3>1, <3>2 DEF CorrelationInv, TurnInv
    <3> QED
      BY <3>1, <3>3 DEF Resolved
  <2>4. ASSUME NEW e \in P \ B PROVE answer[e] \in P \ A
    <3>1. Before(answer[e], a) /\ AsksFor(answer[e]) = AsksFor(e)
      BY <1>1, <2>3 DEF CorrelationInv, AnswerInv
    <3>2. answer[e] \in Calls /\ Before(answer[e], c) /\ answer[e] # a /\ ~Before(a, answer[e])
      BY <1>2, <1>4, <3>1
    <3> QED
      BY <2>3, <3>1, <3>2 DEF Earlier, Since
  <2>5. ASSUME NEW e \in P \ B, NEW g \in P \ B, answer[e] = answer[g] PROVE e = g
    <3>1. /\ answer[e] # NoCall /\ answer[g] # NoCall /\ e \in Calls /\ g \in Calls
          /\ AsksFor(e) = AsksFor(g) /\ e \in ToSet(written) /\ g \in ToSet(written)
      BY <1>2, <2>3
    <3>2. ~Before(e, g) /\ ~Before(g, e)
      BY <1>2, <2>5, <3>1 DEF CorrelationInv, AnswerInv
    <3> QED
      BY <1>2, <3>1, <3>2
  <2> HIDE DEF P, A, B
  <2>6. f \in Injection(P \ B, P \ A)
    <3>1. f \in [P \ B -> P \ A]
      BY <2>4
    <3> QED
      BY <2>5, <3>1 DEF Injection, IsInjective
  <2> HIDE DEF f
  <2>7. Cardinality(A) <= Cardinality(B)
    BY <2>1, <2>2, <2>6, SplitTwice
  <2> QED
    BY <1>4, <2>7 DEF A, B
<1> QED
  BY <1>1, <1>2, <1>3, <1>4

\* Nothing older than the query can reach it, and of what is younger only the
\* answer to a plain command.
LEMMA HealingFollows == CorrelationInv => QuietLineHeals
<1> SUFFICES ASSUME CorrelationInv, NEW c \in clean, answer[c] # NoCall, answer[c] # c
             PROVE  SentAfter(answer[c], c)
  BY DEF QuietLineHeals
<1>1. c \in Calls /\ ~Before(answer[c], c)
  BY DEF CorrelationInv, CorrelationTypeOK, CleanInv
<1>2. /\ c \in ToSet(written) /\ answer[c] \in ToSet(written) /\ AsksFor(answer[c]) = AsksFor(c)
      /\ Before(c, answer[c]) => answer[c] \in Sends
  BY <1>1 DEF CorrelationInv, AnswerInv
<1>3. Before(c, answer[c])
  BY <1>1, <1>2, WriteOrder DEF CorrelationInv
<1> QED
  BY <1>2, <1>3 DEF SentAfter

-----------------------------------------------------------------------------
(* The theorems. *)

\* The inductive invariant holds in every reachable state.
THEOREM CorrelationInvariance == CorrelationSpec => []CorrelationInv
<1>1. CorrelationInv => IInv
  BY DEF CorrelationInv
<1> QED
  BY <1>1, CorrelationInvInit, ActorStep, IInvNext, CorrelationInvNext, PTL DEF CorrelationSpec

\* With a board at its other end the actor is still the one that was proved, and
\* still implements the abstract service.
THEOREM ActorWithin == CorrelationSpec => Spec /\ ImplementsService
<1>1. CorrelationInit => Init
  BY DEF CorrelationInit
<1> QED
  BY <1>1, ActorStep, CorrelationInvariance, Refinement, PTL DEF CorrelationSpec, Spec

\* Every variable of the board always holds a value of its type, and no call is
\* written twice.
THEOREM CorrelationTypeCorrect == CorrelationSpec => []CorrelationTypeOK
<1>1. CorrelationInv => CorrelationTypeOK
  BY DEF CorrelationInv
<1> QED
  BY <1>1, CorrelationInvariance, PTL

\* A response is never further behind its query than there were timeouts and raw
\* queries of its type before.
THEOREM StalenessIsBounded == CorrelationSpec => []StalenessBounded
BY BoundFollows, CorrelationInvariance, PTL

\* A query written while none of its type was due gets its own response.
THEOREM QuietLinesHeal == CorrelationSpec => []QuietLineHeals
BY HealingFollows, CorrelationInvariance, PTL

=============================================================================
