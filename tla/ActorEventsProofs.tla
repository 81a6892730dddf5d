------------------------- MODULE ActorEventsProofs -------------------------
(***************************************************************************)
(* Proofs about ActorEvents: event streams for every set of calls, every   *)
(* capacity of the event channel and any number of items.                  *)
(*                                                                         *)
(* A step of ActorEvents is a step of TokioActor or leaves it alone, so    *)
(* what TokioActorProofs proves of the actor holds here.  The streams need *)
(* in addition that a stream belongs to a call that has returned, for such *)
(* a call cannot be given a second one.                                    *)
(***************************************************************************)
EXTENDS ActorEvents, TokioActorProofs

Items == QueryKinds \cup {"position", "malformed"}
Entries == [item : Items \cup {"lagged"}, at : Nat, steps : Nat]
Streams ==
  [state : {"none", "open", "closed", "dropped"}, start : Nat, cursor : Nat,
   received : Seq(Entries)]

\* A call that has returned, or whose future was dropped.
Settled(c) == call[c] \notin {"idle", "sending", "waiting"}

\* What holds of the stream s of a subscriber c.
StreamInv(c, s) ==
  /\ s.start <= s.cursor /\ s.cursor <= Len(log)
  /\ s.state = "none" => s.received = <<>>
  /\ s.state # "none" => Settled(c)
  /\ s.state = "closed" => pc \in Ended /\ s.cursor = Len(log)

EventInv ==
  /\ IInv
  /\ log \in Seq(Items)
  /\ streams \in [Subscribers -> Streams]
  /\ \A c \in Subscribers : StreamInv(c, streams[c])

-----------------------------------------------------------------------------
(* The actor beneath. *)

\* Every step of the composition is a step of the actor or invisible to it.
LEMMA ActorStep == [EventNext]_allVars => [Next]_vars
<1>1. PublishNotification => Next
  BY DEF PublishNotification, Notified, Next, Unsolicited
<1>2. Subscribe => Next
  BY DEF Subscribe, Receive, Next
<1>3. Unrelated => Next
  BY DEF Unrelated, Receive, Next
<1>4. ASSUME NEW c \in Subscribers, Poll(c) \/ DropStream(c) PROVE UNCHANGED vars
  BY <1>4 DEF Poll, Deliver, Lag, Close, DropStream
<1>5. EventsTerminated \/ UNCHANGED allVars => UNCHANGED vars
  BY DEF EventsTerminated, allVars
<1> QED
  BY <1>1, <1>2, <1>3, <1>4, <1>5 DEF EventNext

\* A call that is over stays as it is.
LEMMA SettledStays ==
  ASSUME TypeOK, [Next]_vars, NEW c \in Calls, Settled(c)
  PROVE  Settled(c)'
<1> USE DEF Settled, TypeOK
<1>1. ASSUME UNCHANGED call PROVE Settled(c)'
  BY <1>1
<1>2. ASSUME NEW d \in Calls, Caller(d) PROVE Settled(c)'
  BY <1>2 DEF Caller, Begin, Enqueue, FindClosed, Cancel, InProgress
<1>3. ASSUME NEW d, NEW r, call' = Answer(d, r) PROVE Settled(c)'
  BY <1>3 DEF Answer
<1>4. ASSUME NEW S, NEW r, call' = AnswerAll(S, r) PROVE Settled(c)'
  BY <1>4 DEF AnswerAll
<1>5. CASE Reject
  <2>1. PICK late \in Late :
           call' = [d \in Calls |-> IF d \in ToSet(late) THEN "waiting"
                                    ELSE AnswerAll(Outstanding, "ShuttingDown")[d]]
    BY <1>5 DEF Reject
  <2>2. c \notin ToSet(late)
    BY DEF Late, ToSet
  <2> QED
    BY <2>1, <2>2 DEF AnswerAll
<1>6. DropHandles \/ Startup \/ LoopTop \/ DeadlinePasses \/ Terminated \/ UNCHANGED vars
        => UNCHANGED call
  BY DEF DropHandles, Startup, SubscribePosition, EnableRealtime, SubscribeResponse,
     StartupFails, LoopTop, StartQueued, EnterSelect, DeadlinePasses, Terminated, vars,
     callVars
<1>7. Receive \/ Write => UNCHANGED call \/ \E d, r : call' = Answer(d, r)
  BY DEF Receive, ReceiveSend, ReceiveQueryStarts, ReceiveQueryQueues, ReceiveQueryRefused,
     ReceiveSubscribe, ReceiveShutdown, ReceiveNone, Write, FinishSend, FinishQueryWrite,
     WriteFails, callVars
<1>8. Notified \/ Timeout => UNCHANGED call \/ \E d, r : call' = Answer(d, r)
  BY DEF Notified, ReceiveResponse, ReceiveOther, NotificationFails, Timeout, callVars
<1>9. Leave \/ Abort => Reject \/ UNCHANGED call \/ \E S, r : call' = AnswerAll(S, r)
  BY DEF Leave, Announce, UnsubscribeResponse, UnsubscribePosition, CloseTransport,
     CleanupFails, Finish, ReplyShutdown, Exit, Abort, callVars
<1> QED
  BY <1>1, <1>2, <1>3, <1>4, <1>5, <1>6, <1>7, <1>8, <1>9 DEF Next

\* An actor that is over stays over.
LEMMA EndedStays ==
  ASSUME [Next]_vars, pc \in Ended
  PROVE  pc' \in Ended
<1> USE DEF Ended, StartupPoints, CleanupPoints, AwaitPoints
<1>1. (\E c \in Calls : Caller(c)) \/ DropHandles \/ DeadlinePasses \/ Terminated
        \/ UNCHANGED vars => pc' = pc
  BY DEF Caller, Begin, Enqueue, FindClosed, Cancel, DropHandles, DeadlinePasses,
     Terminated, vars
<1>2. ~(Startup \/ LoopTop \/ Receive \/ Write)
  BY DEF Startup, SubscribePosition, EnableRealtime, SubscribeResponse, StartupFails,
     LoopTop, StartQueued, EnterSelect, Receive, Received, ReceiveSend,
     ReceiveQueryStarts, ReceiveQueryQueues, ReceiveQueryRefused, ReceiveSubscribe,
     ReceiveShutdown, ReceiveNone, Write, FinishSend, FinishQueryWrite, WriteFails
<1>3. ~(Notified \/ Timeout \/ Abort)
  BY DEF Notified, ReceiveResponse, ReceiveOther, NotificationFails, Timeout, Abort
<1>4. ~Leave
  BY DEF Leave, Announce, Reject, UnsubscribeResponse, UnsubscribePosition,
     CloseTransport, CleanupFails, Finish, ReplyShutdown, Exit
<1> QED
  BY <1>1, <1>2, <1>3, <1>4 DEF Next

-----------------------------------------------------------------------------
(* The streams. *)

LEMMA EventInvInit == EventInit => EventInv
<1> SUFFICES ASSUME EventInit PROVE EventInv
  OBVIOUS
<1>1. IInv /\ log \in Seq(Items) /\ Len(log) = 0
  BY IInvInit DEF EventInit
<1>2. NoStream \in Streams
  BY DEF NoStream, Streams
<1>3. streams \in [Subscribers -> Streams]
  BY <1>2 DEF EventInit
<1>4. \A c \in Subscribers : streams[c] = NoStream
  BY DEF EventInit
<1> QED
  BY <1>1, <1>3, <1>4 DEF EventInv, StreamInv, NoStream

\* A stream that is left alone stays in order whatever the actor does, if nothing is
\* published once the actor is over.
LEMMA StreamKept ==
  ASSUME EventInv, [Next]_vars, NEW c \in Subscribers, streams'[c] = streams[c],
         Len(log') \in Nat, Len(log) <= Len(log'),
         Len(log') = Len(log) \/ pc \notin Ended
  PROVE  StreamInv(c, streams[c])'
<1>1. c \in Calls /\ TypeOK /\ StreamInv(c, streams[c]) /\ streams[c] \in Streams
      /\ Len(log) \in Nat
  BY DEF Subscribers, EventInv, IInv
<1>2. Settled(c) => Settled(c)'
  BY <1>1, SettledStays
<1>3. pc \in Ended => pc' \in Ended
  BY EndedStays
<1> QED
  BY <1>1, <1>2, <1>3 DEF StreamInv, Streams

\* If the log and all streams stay as they are, nothing else matters.
LEMMA ActorKeeps ==
  ASSUME EventInv, [Next]_vars, UNCHANGED eventVars
  PROVE  EventInv'
<1>1. IInv'
  BY IInvNext DEF EventInv
<1>2. Len(log) \in Nat
  BY DEF EventInv
<1>3. ASSUME NEW c \in Subscribers PROVE StreamInv(c, streams[c])'
  BY <1>2, StreamKept DEF eventVars
<1> QED
  BY <1>1, <1>3 DEF EventInv, eventVars

LEMMA PublishKeeps ==
  ASSUME EventInv, PublishNotification
  PROVE  EventInv'
<1>1. [Next]_vars
  BY ActorStep DEF EventNext
<1>2. CASE UNCHANGED eventVars
  BY <1>1, <1>2, ActorKeeps
<1>3. ASSUME NEW k \in Items, Publish(k), pc = "select" PROVE EventInv'
  <2>1. IInv' /\ streams' = streams
    BY <1>1, <1>3, IInvNext DEF EventInv, Publish
  <2>2. log \in Seq(Items) /\ log' \in {log, Append(log, k)}
    BY <1>3 DEF EventInv, Publish
  <2>3. log' \in Seq(Items) /\ Len(log') \in Nat /\ Len(log) <= Len(log')
    BY <2>2
  <2>4. pc \notin Ended
    BY <1>3 DEF Ended
  <2>5. ASSUME NEW c \in Subscribers PROVE StreamInv(c, streams[c])'
    BY <1>1, <2>1, <2>3, <2>4, StreamKept
  <2> QED
    BY <2>1, <2>3, <2>5 DEF EventInv
<1>4. \/ UNCHANGED eventVars
      \/ \E k \in Items : Publish(k) /\ pc = "select"
  BY DEF PublishNotification, ReceiveResponse, ReceiveOther, Items
<1> QED
  BY <1>2, <1>3, <1>4

LEMMA SubscribeKeeps ==
  ASSUME EventInv, Subscribe
  PROVE  EventInv'
<1> DEFINE d == Head(chan)
<1>1. [Next]_vars /\ log' = log /\ Len(log) \in Nat
  BY ActorStep DEF EventNext, Subscribe, EventInv
<1>2. d \in Subscribers
  <2>1. d \in Calls
    BY TakeHead DEF Subscribe, ReceiveSubscribe, Received, EventInv, IInv, TypeOK
  <2> QED
    BY <2>1 DEF Subscribe, ReceiveSubscribe, Received, Subscribers
<1>3. streams' = IF call[d] = "waiting"
                 THEN [streams EXCEPT ![d] = OpenAtEnd(d)] ELSE streams
  BY DEF Subscribe
<1>4. call' = Answer(d, "Ok")
  BY DEF Subscribe, ReceiveSubscribe
<1>5. IInv'
  BY <1>1, IInvNext DEF EventInv
<1> HIDE DEF d
<1>6. OpenAtEnd(d) \in Streams
  BY <1>1 DEF OpenAtEnd, Streams, EventInv
<1>7. streams' \in [Subscribers -> Streams]
  BY <1>2, <1>3, <1>6 DEF EventInv
<1>8. ASSUME NEW c \in Subscribers PROVE StreamInv(c, streams[c])'
  <2>1. CASE c = d /\ call[d] = "waiting"
    <3>1. streams'[c] = OpenAtEnd(d)
      BY <1>2, <1>3, <2>1 DEF EventInv
    <3>2. Settled(c)'
      BY <1>4, <2>1 DEF Answer, Settled, EventInv, IInv, TypeOK, Subscribers
    <3> QED
      BY <1>1, <3>1, <3>2 DEF StreamInv, OpenAtEnd
  <2>2. CASE ~(c = d /\ call[d] = "waiting")
    <3>1. streams'[c] = streams[c]
      BY <1>2, <1>3, <2>2 DEF EventInv
    <3> QED
      BY <1>1, <3>1, StreamKept
  <2> QED
    BY <2>1, <2>2
<1> QED
  BY <1>1, <1>5, <1>7, <1>8 DEF EventInv

\* Where the oldest item that is left stands.
LEMMA OldestFacts ==
  ASSUME EventInv
  PROVE  /\ Len(log) \in Nat /\ Oldest \in 0 .. Len(log)
         /\ \A n \in Nat : n < Oldest => /\ Len(log) - n > EventCapacity
                                         /\ Len(log) - Oldest >= EventCapacity
<1>1. Len(log) \in Nat
  BY DEF EventInv
<1>2. Retained \in Nat /\ Retained >= EventCapacity /\ EventCapacity \in Nat
  BY EventAssumption
<1> QED
  BY <1>1, <1>2 DEF Oldest

\* What poll_next yields keeps the stream in its bounds.
LEMMA YieldKeeps ==
  ASSUME EventInv, NEW d \in Subscribers, Open(d), UNCHANGED <<vars, log>>,
         NEW item \in Items \cup {"lagged"}, NEW steps \in Nat, Yield(d, item, steps),
         streams[d].cursor + steps <= Len(log)
  PROVE  EventInv'
<1>1. IInv' /\ [Next]_vars
  BY IInvNext DEF EventInv
<1>2. streams[d] \in Streams /\ StreamInv(d, streams[d]) /\ Len(log) \in Nat
  BY DEF EventInv
<1> DEFINE entry == [item |-> item, at |-> streams[d].cursor, steps |-> steps]
<1> DEFINE s == [streams[d] EXCEPT !.received = Append(@, entry), !.cursor = @ + steps]
<1>3. streams' = [streams EXCEPT ![d] = s]
  BY DEF Yield, EventInv, Streams
<1>4. entry \in Entries
  BY <1>2 DEF Entries, Streams
<1>5. /\ s \in Streams /\ s.start = streams[d].start /\ s.state = "open"
      /\ s.cursor = streams[d].cursor + steps
  <2>1. /\ streams[d].received \in Seq(Entries) /\ streams[d].cursor \in Nat
        /\ streams[d].state = "open"
    BY <1>2 DEF Streams, Open
  <2>2. Append(streams[d].received, entry) \in Seq(Entries) /\ streams[d].cursor + steps \in Nat
    BY <1>4, <2>1
  <2> HIDE DEF entry
  <2> QED
    BY <1>2, <2>1, <2>2 DEF Streams
<1> HIDE DEF s
<1>6. streams' \in [Subscribers -> Streams]
  BY <1>3, <1>5 DEF EventInv
<1>7. ASSUME NEW c \in Subscribers PROVE StreamInv(c, streams[c])'
  <2>1. CASE c = d
    <3>1. streams'[c] = s
      BY <1>3, <2>1 DEF EventInv
    <3>2. Settled(c)'
      BY <1>2, <2>1 DEF StreamInv, Settled, Open, vars, callVars
    <3> QED
      BY <1>2, <1>5, <2>1, <3>1, <3>2 DEF StreamInv, Streams
  <2>2. CASE c # d
    <3>1. streams'[c] = streams[c]
      BY <1>3, <2>2 DEF EventInv
    <3> QED
      BY <1>1, <1>2, <3>1, StreamKept
  <2> QED
    BY <2>1, <2>2
<1> QED
  BY <1>1, <1>6, <1>7 DEF EventInv

LEMMA DeliverKeeps ==
  ASSUME EventInv, NEW d \in Subscribers, Deliver(d)
  PROVE  EventInv'
<1>1. /\ Len(log) \in Nat /\ streams[d].cursor \in Nat /\ Oldest \in Nat
      /\ log \in Seq(Items)
  BY OldestFacts DEF EventInv, Streams
<1>2. streams[d].cursor + 1 \in 1 .. Len(log)
  BY <1>1 DEF Deliver
<1>3. log[streams[d].cursor + 1] \in Items
  BY <1>1, <1>2
<1> QED
  BY <1>2, <1>3, YieldKeeps DEF Deliver

LEMMA LagKeeps ==
  ASSUME EventInv, NEW d \in Subscribers, Lag(d)
  PROVE  EventInv'
<1>1. Len(log) \in Nat /\ streams[d].cursor \in Nat /\ Oldest \in 0 .. Len(log)
  BY OldestFacts DEF EventInv, Streams
<1>2. Oldest - streams[d].cursor \in Nat
  BY <1>1 DEF Lag
<1>3. streams[d].cursor + (Oldest - streams[d].cursor) <= Len(log)
  BY <1>1
<1> QED
  BY <1>2, <1>3, YieldKeeps DEF Lag

\* The end of a stream, and dropping it.
LEMMA EndKeeps ==
  ASSUME EventInv, NEW d \in Subscribers, Close(d) \/ DropStream(d)
  PROVE  EventInv'
<1>1. IInv' /\ [Next]_vars /\ UNCHANGED <<vars, log>> /\ Open(d)
  BY IInvNext DEF EventInv, Close, DropStream
<1>2. streams[d] \in Streams /\ StreamInv(d, streams[d]) /\ Len(log) \in Nat
  BY DEF EventInv
<1>3. PICK state \in {"closed", "dropped"} :
         streams' = [streams EXCEPT ![d].state = state]
         /\ (state = "closed" => pc \in Ended /\ streams[d].cursor = Len(log))
  BY DEF Close, DropStream
<1> DEFINE s == [streams[d] EXCEPT !.state = state]
<1>4. s \in Streams /\ s.start = streams[d].start /\ s.cursor = streams[d].cursor
      /\ s.state = state
  BY <1>2 DEF Streams
<1>5. streams' = [streams EXCEPT ![d] = s]
  BY <1>3 DEF EventInv, Streams
<1> HIDE DEF s
<1>6. streams' \in [Subscribers -> Streams]
  BY <1>4, <1>5 DEF EventInv
<1>7. ASSUME NEW c \in Subscribers PROVE StreamInv(c, streams[c])'
  <2>1. CASE c = d
    <3>1. streams'[c] = s
      BY <1>5, <2>1 DEF EventInv
    <3>2. Settled(c)' /\ pc' = pc /\ log' = log
      BY <1>1, <1>2, <2>1 DEF StreamInv, Settled, Open, vars, callVars
    <3> QED
      BY <1>2, <1>3, <1>4, <2>1, <3>1, <3>2 DEF StreamInv, Streams
  <2>2. CASE c # d
    <3>1. streams'[c] = streams[c]
      BY <1>5, <2>2 DEF EventInv
    <3> QED
      BY <1>1, <1>2, <3>1, StreamKept
  <2> QED
    BY <2>1, <2>2
<1> QED
  BY <1>1, <1>6, <1>7 DEF EventInv

LEMMA EventInvNext == EventInv /\ [EventNext]_allVars => EventInv'
<1> SUFFICES ASSUME EventInv, [EventNext]_allVars PROVE EventInv'
  OBVIOUS
<1>1. CASE Unrelated \/ EventsTerminated \/ UNCHANGED allVars
  BY <1>1, ActorStep, ActorKeeps DEF Unrelated, EventsTerminated, allVars
<1>2. CASE \E c \in Subscribers : Poll(c) \/ DropStream(c)
  BY <1>2, DeliverKeeps, LagKeeps, EndKeeps DEF Poll
<1> QED
  BY <1>1, <1>2, PublishKeeps, SubscribeKeeps DEF EventNext

-----------------------------------------------------------------------------
(* What the streams have yielded. *)

\* What the stream s has yielded is exact, and each item of it is in the log.
Replayed(s) ==
  /\ Exact(s)
  /\ \A i \in DOMAIN s.received : s.received[i].item # "lagged" => s.received[i].at < Len(log)

ReplayInv == \A c \in Subscribers : Replayed(streams[c])

\* An item that is published leaves those in their places that were yielded before.
LEMMA ReplayedStays ==
  ASSUME EventInv, NEW s \in Streams, Replayed(s),
         UNCHANGED log \/ \E item \in Items : log' = Append(log, item)
  PROVE  \A i \in DOMAIN s.received : s.received[i].item # "lagged" =>
            /\ s.received[i].at < Len(log')
            /\ log'[s.received[i].at + 1] = log[s.received[i].at + 1]
<1>1. log \in Seq(Items) /\ Len(log) \in Nat
  BY DEF EventInv
<1>2. Len(log') \in Nat /\ Len(log) <= Len(log') /\ \A n \in 1 .. Len(log) : log'[n] = log[n]
  BY <1>1
<1> SUFFICES ASSUME NEW i \in DOMAIN s.received, s.received[i].item # "lagged"
             PROVE  /\ s.received[i].at < Len(log')
                    /\ log'[s.received[i].at + 1] = log[s.received[i].at + 1]
  OBVIOUS
<1>3. s.received[i] \in Entries
  BY DEF Streams
<1>4. s.received[i].at \in Nat /\ s.received[i].at < Len(log)
  BY <1>3 DEF Entries, Replayed
<1>5. s.received[i].at + 1 \in 1 .. Len(log)
  BY <1>1, <1>4
<1> QED
  BY <1>1, <1>2, <1>4, <1>5

\* One more entry, put where the receiver stood, keeps the account exact.
LEMMA ReplayedGrows ==
  ASSUME NEW s \in Streams, Replayed(s), Len(log) \in Nat, NEW entry \in Entries,
         entry.at = s.cursor,
         entry.item # "lagged" =>
            entry.item = log[entry.at + 1] /\ entry.steps = 1 /\ entry.at < Len(log),
         NEW t, t.start = s.start, t.cursor = s.cursor + entry.steps,
         t.received = Append(s.received, entry)
  PROVE  Replayed(t)
<1> DEFINE n == Len(s.received)
<1>1. /\ n \in Nat /\ DOMAIN s.received = 1 .. n
      /\ Len(t.received) = n + 1 /\ DOMAIN t.received = 1 .. (n + 1)
      /\ \A i \in 1 .. n : t.received[i] = s.received[i]
      /\ t.received[n + 1] = entry
  BY DEF Streams
<1> HIDE DEF n
<1>2. \A i \in 0 .. n : Reached(t, i) = Reached(s, i)
  BY <1>1 DEF Reached
<1>3. Reached(s, n) = s.cursor
  BY DEF Replayed, Exact, n
<1>4. Reached(t, n + 1) = t.cursor
  BY <1>1 DEF Reached
<1>5. ASSUME NEW i \in 1 .. n
      PROVE  /\ t.received[i].at = Reached(t, i - 1)
             /\ t.received[i].item # "lagged" =>
                   /\ t.received[i].item = log[t.received[i].at + 1]
                   /\ t.received[i].steps = 1
                   /\ t.received[i].at < Len(log)
  <2>1. i - 1 \in 0 .. n
    BY <1>1
  <2>2. t.received[i] = s.received[i] /\ Reached(t, i - 1) = Reached(s, i - 1)
    BY <1>1, <1>2, <2>1
  <2> QED
    BY <1>1, <2>2 DEF Replayed, Exact
<1>6. entry.at = Reached(t, (n + 1) - 1)
  <2>1. n \in 0 .. n /\ (n + 1) - 1 = n
    BY <1>1
  <2> QED
    BY <1>2, <1>3, <2>1
<1>7. ASSUME NEW i \in 1 .. (n + 1)
      PROVE  /\ t.received[i].at = Reached(t, i - 1)
             /\ t.received[i].item # "lagged" =>
                   /\ t.received[i].item = log[t.received[i].at + 1]
                   /\ t.received[i].steps = 1
                   /\ t.received[i].at < Len(log)
  <2>1. i \in 1 .. n \/ i = n + 1
    BY <1>1
  <2> QED
    BY <1>1, <1>5, <1>6, <2>1
<1> QED
  BY <1>1, <1>4, <1>7 DEF Replayed, Exact

\* poll_next keeps the account of the stream it is called on, and of all others.
LEMMA YieldReplays ==
  ASSUME EventInv, ReplayInv, NEW d \in Subscribers, UNCHANGED log,
         NEW item \in Items \cup {"lagged"}, NEW steps \in Nat, Yield(d, item, steps),
         item # "lagged" =>
            /\ item = log[streams[d].cursor + 1]
            /\ steps = 1
            /\ streams[d].cursor < Len(log)
  PROVE  ReplayInv'
<1>1. streams[d] \in Streams /\ Replayed(streams[d]) /\ Len(log) \in Nat /\ log' = log
  BY DEF EventInv, ReplayInv
<1> DEFINE entry == [item |-> item, at |-> streams[d].cursor, steps |-> steps]
<1> DEFINE s == [streams[d] EXCEPT !.received = Append(@, entry), !.cursor = @ + steps]
<1>2. streams' = [streams EXCEPT ![d] = s]
  BY DEF Yield, EventInv, Streams
<1>3. entry \in Entries /\ entry.at = streams[d].cursor /\ entry.steps = steps /\ entry.item = item
  BY <1>1 DEF Entries, Streams
<1>4. /\ s.start = streams[d].start /\ s.cursor = streams[d].cursor + steps
      /\ s.received = Append(streams[d].received, entry)
  BY <1>1 DEF Streams
<1> HIDE DEF s, entry
<1>5. Replayed(s)
  BY <1>1, <1>3, <1>4, ReplayedGrows
<1>6. ASSUME NEW c \in Subscribers PROVE Replayed(streams[c])'
  <2>1. Replayed(streams'[c])
    BY <1>2, <1>5 DEF EventInv, ReplayInv
  <2> QED
    BY <1>1, <2>1 DEF Replayed, Exact
<1> QED
  BY <1>6 DEF ReplayInv

LEMMA DeliverReplays ==
  ASSUME EventInv, ReplayInv, NEW d \in Subscribers, Deliver(d)
  PROVE  ReplayInv'
<1>1. /\ Len(log) \in Nat /\ streams[d].cursor \in Nat /\ Oldest \in Nat
      /\ log \in Seq(Items)
  BY OldestFacts DEF EventInv, Streams
<1>2. streams[d].cursor + 1 \in 1 .. Len(log) /\ streams[d].cursor < Len(log)
  BY <1>1 DEF Deliver
<1>3. log[streams[d].cursor + 1] \in Items
  BY <1>1, <1>2
<1> QED
  BY <1>2, <1>3, YieldReplays DEF Deliver

LEMMA LagReplays ==
  ASSUME EventInv, ReplayInv, NEW d \in Subscribers, Lag(d)
  PROVE  ReplayInv'
<1>1. Len(log) \in Nat /\ streams[d].cursor \in Nat /\ Oldest \in 0 .. Len(log)
  BY OldestFacts DEF EventInv, Streams
<1>2. Oldest - streams[d].cursor \in Nat
  BY <1>1 DEF Lag
<1> QED
  BY <1>2, YieldReplays DEF Lag

\* Streams that are left alone, or only change their state, keep their account.
LEMMA ReplayKept ==
  ASSUME EventInv, ReplayInv,
         UNCHANGED log \/ \E item \in Items : log' = Append(log, item),
         \A c \in Subscribers :
            /\ streams'[c].start = streams[c].start
            /\ streams'[c].cursor = streams[c].cursor
            /\ streams'[c].received = streams[c].received
  PROVE  ReplayInv'
<1> SUFFICES ASSUME NEW c \in Subscribers PROVE Replayed(streams[c])'
  BY DEF ReplayInv
<1>1. streams[c] \in Streams /\ Replayed(streams[c])
  BY DEF EventInv, ReplayInv
<1>2. \A i \in DOMAIN streams[c].received : streams[c].received[i].item # "lagged" =>
            /\ streams[c].received[i].at < Len(log')
            /\ log'[streams[c].received[i].at + 1] = log[streams[c].received[i].at + 1]
  BY <1>1, ReplayedStays
<1> QED
  BY <1>1, <1>2 DEF Replayed, Exact, Reached

\* A stream begins with nothing yielded, at the end of the log.
LEMMA SubscribeReplays ==
  ASSUME EventInv, ReplayInv, Subscribe
  PROVE  ReplayInv'
<1> DEFINE d == Head(chan)
<1>1. /\ log' = log /\ Len(log) \in Nat
      /\ streams' = IF call[d] = "waiting" THEN [streams EXCEPT ![d] = OpenAtEnd(d)] ELSE streams
  BY DEF Subscribe, EventInv
<1> HIDE DEF d
<1> SUFFICES ASSUME NEW c \in Subscribers PROVE Replayed(streams[c])'
  BY DEF ReplayInv
<1>2. CASE streams'[c] = streams[c]
  BY <1>1, <1>2 DEF ReplayInv, Replayed, Exact, Reached
<1>3. CASE streams'[c] = OpenAtEnd(d)
  BY <1>1, <1>3 DEF OpenAtEnd, Replayed, Exact, Reached
<1> QED
  BY <1>1, <1>2, <1>3 DEF EventInv

LEMMA ReplayInit == EventInit => ReplayInv
BY DEF EventInit, NoStream, ReplayInv, Replayed, Exact, Reached

LEMMA ReplayNext == EventInv /\ ReplayInv /\ [EventNext]_allVars => ReplayInv'
<1> SUFFICES ASSUME EventInv, ReplayInv, [EventNext]_allVars PROVE ReplayInv'
  OBVIOUS
<1>1. CASE Unrelated \/ EventsTerminated \/ UNCHANGED allVars
  <2>1. UNCHANGED <<log, streams>>
    BY <1>1 DEF Unrelated, EventsTerminated, allVars, eventVars
  <2> QED
    BY <2>1, ReplayKept
<1>2. CASE PublishNotification
  <2>1. UNCHANGED streams /\ (UNCHANGED log \/ \E item \in Items : log' = Append(log, item))
    <3>1. CASE UNCHANGED eventVars
      BY <3>1 DEF eventVars
    <3>2. CASE \E k \in Items : Publish(k)
      BY <3>2 DEF Publish
    <3> QED
      BY <1>2, <3>1, <3>2 DEF PublishNotification, Items
  <2> QED
    BY <2>1, ReplayKept
<1>3. ASSUME NEW d \in Subscribers, Close(d) \/ DropStream(d) PROVE ReplayInv'
  <2>1. PICK state : streams' = [streams EXCEPT ![d].state = state]
    BY <1>3 DEF Close, DropStream
  <2>2. ASSUME NEW c \in Subscribers
        PROVE  /\ streams'[c].start = streams[c].start
               /\ streams'[c].cursor = streams[c].cursor
               /\ streams'[c].received = streams[c].received
    <3>1. streams \in [Subscribers -> Streams] /\ streams[c] \in Streams
      BY DEF EventInv
    <3>2. streams'[c] = IF c = d THEN [streams[c] EXCEPT !.state = state] ELSE streams[c]
      BY <2>1, <3>1
    <3> QED
      BY <3>1, <3>2 DEF Streams
  <2>3. UNCHANGED log
    BY <1>3 DEF Close, DropStream
  <2> QED
    BY <2>2, <2>3, ReplayKept
<1> QED
  BY <1>1, <1>2, <1>3, SubscribeReplays, DeliverReplays, LagReplays DEF EventNext, Poll

-----------------------------------------------------------------------------
(* The theorems. *)

\* The streams' inductive invariant holds in every reachable state, and with it
\* everything that is proved of the actor.
THEOREM EventInvariance == EventSpec => [](EventInv /\ ReplayInv)
BY EventInvInit, EventInvNext, ReplayInit, ReplayNext, PTL DEF EventSpec

\* Every item published since the subscription was yielded in its place or counted
\* as lost there, whatever was published, polled and lost in between.
THEOREM ReplayCorrect == EventSpec => []ReplayIsExact
<1>1. ReplayInv => ReplayIsExact
  BY DEF ReplayInv, Replayed, ReplayIsExact
<1> QED
  BY <1>1, EventInvariance, PTL

\* The log holds items, and every stream stands inside it.
THEOREM EventTypeCorrect == EventSpec => []EventTypeOK
<1>1. EventInv => EventTypeOK
  BY DEF EventInv, StreamInv, EventTypeOK, Items, Streams
<1> QED
  BY <1>1, EventInvariance, PTL

\* No stream ends before the actor, or before everything was read.
THEOREM TheEndIsLast == EventSpec => []EndIsLast
<1>1. EventInv => EndIsLast
  BY DEF EventInv, StreamInv, EndIsLast
<1> QED
  BY <1>1, EventInvariance, PTL

\* A stream reports a lag only when it is reported to a consumer that has fallen
\* behind by more than the capacity.
LEMMA LagStep ==
  ASSUME EventInv, [EventNext]_allVars, NEW c \in Subscribers,
         streams'[c].received # streams[c].received,
         Last(streams'[c].received).item = "lagged"
  PROVE  /\ Len(log) - streams[c].cursor > EventCapacity
         /\ Len(log) - streams'[c].cursor >= EventCapacity
<1>1. streams \in [Subscribers -> Streams] /\ streams[c] \in Streams
      /\ streams[c].received \in Seq(Entries) /\ streams[c].cursor \in Nat
  BY DEF EventInv, Streams
<1>2. streams' # streams
  OBVIOUS
<1>3. ~(PublishNotification \/ Unrelated \/ EventsTerminated \/ UNCHANGED allVars)
  BY <1>2 DEF PublishNotification, Publish, Unrelated, EventsTerminated, allVars, eventVars
<1>4. ~Subscribe
  <2>1. SUFFICES ASSUME Subscribe PROVE FALSE
    OBVIOUS
  <2> DEFINE d == Head(chan)
  <2>2. call[d] = "waiting" /\ streams' = [streams EXCEPT ![d] = OpenAtEnd(d)]
    BY <1>2, <2>1 DEF Subscribe
  <2> HIDE DEF d
  <2>3. c = d
    BY <1>1, <2>2
  <2>4. streams'[c].received = <<>>
    BY <1>1, <2>2, <2>3 DEF OpenAtEnd
  <2>5. streams[c].state = "none" /\ streams[c].received = <<>>
    BY <1>1, <2>2, <2>3 DEF EventInv, StreamInv, Settled, Streams
  <2> QED
    BY <2>4, <2>5
<1>5. PICK d \in Subscribers : Deliver(d) \/ Lag(d) \/ Close(d) \/ DropStream(d)
  BY <1>3, <1>4 DEF EventNext, Poll
<1>6. ~(Close(d) \/ DropStream(d))
  <2>1. SUFFICES ASSUME NEW state, streams' = [streams EXCEPT ![d].state = state] PROVE FALSE
    BY DEF Close, DropStream
  <2>2. streams'[c] = IF c = d THEN [streams[c] EXCEPT !.state = state] ELSE streams[c]
    BY <1>1, <2>1
  <2>3. streams'[c].received = streams[c].received
    BY <1>1, <2>2 DEF Streams
  <2> QED
    BY <2>3
<1>7. ASSUME NEW item, NEW steps \in Int, Yield(d, item, steps)
      PROVE  item = "lagged" /\ streams'[c].cursor = streams[c].cursor + steps
  <2> DEFINE entry == [item |-> item, at |-> streams[d].cursor, steps |-> steps]
  <2> DEFINE s == [streams[d] EXCEPT !.received = Append(@, entry), !.cursor = @ + steps]
  <2>1. streams' = [streams EXCEPT ![d] = s]
    BY <1>1, <1>7 DEF Yield, Streams
  <2>2. c = d
    BY <1>1, <2>1
  <2>3. streams'[c] = s
    BY <1>1, <2>1, <2>2
  <2>4. streams'[c].received = Append(streams[c].received, entry)
        /\ streams'[c].cursor = streams[c].cursor + steps
    BY <1>1, <2>2, <2>3 DEF Streams
  <2> HIDE DEF s, entry
  <2>5. Last(streams'[c].received) = entry
    BY <1>1, <2>4 DEF Last
  <2> QED
    BY <2>4, <2>5 DEF entry
<1>8. ~Deliver(d)
  <2>1. SUFFICES ASSUME Deliver(d) PROVE FALSE
    OBVIOUS
  <2>2. log[streams[d].cursor + 1] \in Items
    <3>1. /\ Len(log) \in Nat /\ streams[d].cursor \in Nat /\ Oldest \in Nat
          /\ log \in Seq(Items)
      BY OldestFacts DEF EventInv, Streams
    <3> QED
      BY <2>1, <3>1 DEF Deliver
  <2>3. log[streams[d].cursor + 1] = "lagged"
    BY <1>7, <2>1 DEF Deliver
  <2> QED
    BY <2>2, <2>3 DEF Items, QueryKinds
<1>9. c = d /\ streams[d].cursor < Oldest /\ Oldest \in Nat
  BY <1>1, <1>5, <1>6, <1>8, OldestFacts DEF Lag, Yield
<1>10. streams'[c].cursor = Oldest
  <2>1. Oldest - streams[d].cursor \in Int
    BY <1>1, <1>9
  <2> QED
    BY <1>1, <1>5, <1>6, <1>7, <1>8, <1>9, <2>1 DEF Lag
<1> QED
  BY <1>1, <1>9, <1>10, OldestFacts

\* Lag is reported only to a consumer that fell behind by more than the capacity,
\* and leaves it that many items to read.
THEOREM LagsAreEarned == EventSpec => LagIsEarned
<1>1. EventInv /\ [EventNext]_allVars =>
        [\A c \in Subscribers :
          /\ streams'[c].received # streams[c].received
          /\ Last(streams'[c].received).item = "lagged"
          => /\ Len(log) - streams[c].cursor > EventCapacity
             /\ Len(log) - streams'[c].cursor >= EventCapacity]_allVars
  BY LagStep
<1> QED
  BY <1>1, EventInvariance, PTL DEF EventSpec, LagIsEarned

-----------------------------------------------------------------------------
(* The actor and the service above it. *)

\* With its event channel the actor is still the one that was proved, and still
\* implements the abstract service.
THEOREM ActorWithin == EventSpec => Spec /\ ImplementsService
<1>1. EventInit => Init
  BY DEF EventInit
<1> QED
  BY <1>1, ActorStep, Refinement, PTL DEF EventSpec, Spec

=============================================================================
