------------------------- MODULE TokioActorProofs -------------------------
(***************************************************************************)
(* Proofs about TokioActor for every set of calls, every assignment of     *)
(* methods to them and every pair of capacities.                           *)
(*                                                                         *)
(* The safety invariants are not inductive by themselves: they follow from *)
(* IInv, which adds what the position of the actor task says about the     *)
(* channel, the lifecycle and the transport.  One lemma per conjunct of    *)
(* IInv shows that every action preserves it.                              *)
(***************************************************************************)
EXTENDS TokioActor, TLAPS

-----------------------------------------------------------------------------
(* The inductive invariant. *)

ClosedPoints == CleanupPoints \cup {"finish", "reply", "exit"} \cup Ended
LoopPoints == {"loop", "select", "write"}

\* Where the actor stands decides whether the channel is open, what it may hold,
\* and which calls occupy the three places that keep one call each.
ControlInv ==
  /\ chanOpen = (pc \notin ClosedPoints)
  /\ pc \in ClosedPoints => queued = <<>> /\ pending = NoCall
  /\ pc \in Ended => chan = <<>>
  /\ current # NoCall <=> pc = "write"
  /\ current # NoCall => Kind[current] \in QueryKinds \cup {"send"}
  /\ pending # NoCall => Kind[pending] \in QueryKinds
  /\ \A i \in DOMAIN queued : Kind[queued[i]] \in QueryKinds
  /\ shutdownReply # NoCall =>
        /\ Kind[shutdownReply] = "shutdown"
        /\ pc \in {"announce", "reject", "finish", "reply"} \cup CleanupPoints

\* Where the actor stands decides what the lifecycle shows and which results
\* are possible.
LifecycleInv ==
  /\ pc \in StartupPoints => lifecycle = "Starting"
  /\ pc \in LoopPoints => lifecycle = "Running"
  /\ pc \in StartupPoints \cup LoopPoints => result = "Ok"
  /\ pc = "announce" => lifecycle \in {"Starting", "Running"}
  /\ pc \in CleanupPoints \cup {"reject", "finish"} => lifecycle = "ShuttingDown"
  /\ pc \in {"reply", "exit", "done"} =>
        lifecycle = IF result = "Ok" THEN "Stopped" ELSE "Faulted"
  /\ pc = "aborted" => lifecycle \notin FinalStates

\* How far startup and cleanup have come shows in the transport.
TransportInv ==
  /\ "CommandResponse" \in subscribed => realtime
  /\ pc \in {"enableRealtime", "subscribeResponse"} => "Position" \in subscribed
  /\ pc = "subscribeResponse" => realtime
  /\ lifecycle = "Running" => subscribed = Sources /\ realtime
  /\ pc = "unsubscribePosition" => "CommandResponse" \notin subscribed
  /\ pc = "close" => subscribed = {}
  /\ pc \in {"finish", "reply", "exit", "done"} /\ result = "Ok" => subscribed = {} /\ closed

IInv ==
  /\ TypeOK
  /\ ControlInv
  /\ LifecycleInv
  /\ TransportInv
  /\ OneQueryAtATime
  /\ Bounded
  /\ NoLostReply
  /\ HeldOnce
  /\ ErrorsAreTrue
  /\ ShutdownSeesFinalState

-----------------------------------------------------------------------------
(* Facts about sequences. *)

\* Nothing is in the empty sequence.
LEMMA EmptySet == ToSet(<<>>) = {} /\ IsInjective(<<>>)
BY DEF ToSet, IsInjective

\* Taking the head splits the elements of a sequence in two.
LEMMA TakeHead ==
  ASSUME NEW S, NEW s \in Seq(S), s # <<>>
  PROVE  /\ Head(s) \in S
         /\ Tail(s) \in Seq(S)
         /\ ToSet(s) = {Head(s)} \cup ToSet(Tail(s))
         /\ IsInjective(s) => IsInjective(Tail(s)) /\ Head(s) \notin ToSet(Tail(s))
<1>1. /\ Len(s) \in Nat \ {0}
      /\ Len(Tail(s)) = Len(s) - 1
      /\ Head(s) = s[1]
      /\ DOMAIN s = 1 .. Len(s)
      /\ DOMAIN Tail(s) = 1 .. (Len(s) - 1)
      /\ \A i \in 1 .. (Len(s) - 1) : Tail(s)[i] = s[i + 1]
  OBVIOUS
<1>2. Head(s) \in S /\ Tail(s) \in Seq(S)
  OBVIOUS
<1>3. ASSUME NEW i \in DOMAIN s PROVE s[i] \in {Head(s)} \cup ToSet(Tail(s))
  <2>1. CASE i = 1
    BY <1>1, <2>1
  <2>2. CASE i # 1
    <3>1. i - 1 \in DOMAIN Tail(s) /\ Tail(s)[i - 1] = s[i]
      BY <1>1, <2>2
    <3> QED
      BY <3>1 DEF ToSet
  <2> QED
    BY <2>1, <2>2
<1>4. ASSUME NEW i \in DOMAIN Tail(s) PROVE i + 1 \in DOMAIN s /\ Tail(s)[i] = s[i + 1]
  BY <1>1
<1>5. ToSet(s) = {Head(s)} \cup ToSet(Tail(s))
  <2>1. ToSet(s) \subseteq {Head(s)} \cup ToSet(Tail(s))
    BY <1>3 DEF ToSet
  <2>2. ToSet(Tail(s)) \subseteq ToSet(s)
    BY <1>4 DEF ToSet
  <2>3. Head(s) \in ToSet(s)
    BY <1>1 DEF ToSet
  <2> QED
    BY <2>1, <2>2, <2>3
<1>6. ASSUME IsInjective(s)
      PROVE  IsInjective(Tail(s)) /\ Head(s) \notin ToSet(Tail(s))
  BY <1>1, <1>6 DEF IsInjective, ToSet
<1> QED
  BY <1>2, <1>5, <1>6

\* Appending adds one element, and keeps the elements distinct if it is new.
LEMMA AddLast ==
  ASSUME NEW S, NEW s \in Seq(S), NEW e \in S
  PROVE  /\ Append(s, e) \in Seq(S)
         /\ ToSet(Append(s, e)) = ToSet(s) \cup {e}
         /\ IsInjective(s) /\ e \notin ToSet(s) => IsInjective(Append(s, e))
<1>1. /\ Len(s) \in Nat
      /\ Len(Append(s, e)) = Len(s) + 1
      /\ DOMAIN s = 1 .. Len(s)
      /\ DOMAIN Append(s, e) = 1 .. (Len(s) + 1)
      /\ \A i \in 1 .. Len(s) : Append(s, e)[i] = s[i]
      /\ Append(s, e)[Len(s) + 1] = e
  OBVIOUS
<1>2. ToSet(Append(s, e)) = ToSet(s) \cup {e}
  BY <1>1 DEF ToSet
<1>3. ASSUME IsInjective(s), e \notin ToSet(s) PROVE IsInjective(Append(s, e))
  BY <1>1, <1>3 DEF IsInjective, ToSet
<1> QED
  BY <1>2, <1>3


\* What stands in order in a sequence is in it.
LEMMA OrderFacts ==
  ASSUME NEW s, NEW c, NEW d, InOrder(s, c, d)
  PROVE  c \in ToSet(s) /\ d \in ToSet(s)
BY DEF InOrder, ToSet

\* In a sequence without repetition, the order is a total one.
LEMMA OrderTotal ==
  ASSUME NEW S, NEW s \in Seq(S), IsInjective(s)
  PROVE  /\ \A c, d : InOrder(s, c, d) => c # d /\ ~InOrder(s, d, c)
         /\ \A c, d \in ToSet(s) : c = d \/ InOrder(s, c, d) \/ InOrder(s, d, c)
         /\ \A c, d, e : InOrder(s, c, d) /\ InOrder(s, d, e) => InOrder(s, c, e)
<1>1. /\ Len(s) \in Nat /\ DOMAIN s = 1 .. Len(s)
      /\ \A i, j \in 1 .. Len(s) : s[i] = s[j] => i = j
  BY DEF IsInjective
<1>2. \A c, d : InOrder(s, c, d) <=> \E i, j \in 1 .. Len(s) : i < j /\ s[i] = c /\ s[j] = d
  BY <1>1 DEF InOrder
<1>3. ASSUME NEW c, NEW d, InOrder(s, c, d) PROVE c # d /\ ~InOrder(s, d, c)
  <2>1. PICK i, j \in 1 .. Len(s) : i < j /\ s[i] = c /\ s[j] = d
    BY <1>2, <1>3
  <2>2. c # d
    BY <1>1, <2>1
  <2>3. ASSUME NEW k \in 1 .. Len(s), NEW l \in 1 .. Len(s), k < l, s[k] = d, s[l] = c PROVE FALSE
    <3>1. k = j /\ l = i
      BY <1>1, <2>1, <2>3
    <3> QED
      BY <1>1, <2>1, <2>3, <3>1
  <2> QED
    BY <1>2, <2>2, <2>3
<1>4. ASSUME NEW c \in ToSet(s), NEW d \in ToSet(s), c # d
      PROVE  InOrder(s, c, d) \/ InOrder(s, d, c)
  <2>1. PICK i \in 1 .. Len(s), j \in 1 .. Len(s) : s[i] = c /\ s[j] = d
    BY <1>1 DEF ToSet
  <2>2. i < j \/ j < i
    BY <1>1, <1>4, <2>1
  <2> QED
    BY <1>2, <2>1, <2>2
<1>5. ASSUME NEW c, NEW d, NEW e, InOrder(s, c, d), InOrder(s, d, e)
      PROVE  InOrder(s, c, e)
  <2>1. PICK i, j \in 1 .. Len(s) : i < j /\ s[i] = c /\ s[j] = d
    BY <1>2, <1>5
  <2>2. PICK k, l \in 1 .. Len(s) : k < l /\ s[k] = d /\ s[l] = e
    BY <1>2, <1>5
  <2>3. j = k
    BY <1>1, <2>1, <2>2
  <2>4. i < l
    BY <1>1, <2>1, <2>2, <2>3
  <2> QED
    BY <1>2, <2>1, <2>2, <2>4
<1> QED
  BY <1>3, <1>4, <1>5

\* What is appended stands behind all that was there, and changes no order.
LEMMA OrderAppend ==
  ASSUME NEW S, NEW s \in Seq(S), NEW x \in S
  PROVE  \A c, d : InOrder(Append(s, x), c, d) <=> InOrder(s, c, d) \/ (c \in ToSet(s) /\ d = x)
<1> DEFINE n == Len(s)
<1> DEFINE t == Append(s, x)
<1>1. /\ n \in Nat /\ DOMAIN s = 1 .. n /\ DOMAIN t = 1 .. (n + 1)
      /\ \A i \in 1 .. n : t[i] = s[i]
      /\ t[n + 1] = x
  OBVIOUS
<1> HIDE DEF n, t
<1> SUFFICES ASSUME NEW c, NEW d
             PROVE  InOrder(t, c, d) <=> InOrder(s, c, d) \/ (c \in ToSet(s) /\ d = x)
  BY Zenon DEF t
<1>2. ASSUME InOrder(t, c, d) PROVE InOrder(s, c, d) \/ (c \in ToSet(s) /\ d = x)
  <2>1. PICK i \in 1 .. (n + 1), j \in 1 .. (n + 1) : i < j /\ t[i] = c /\ t[j] = d
    BY <1>1, <1>2 DEF InOrder
  <2>2. i \in 1 .. n /\ (j \in 1 .. n \/ j = n + 1)
    BY <1>1, <2>1
  <2>3. s[i] = c
    BY <1>1, <2>1, <2>2
  <2>4. CASE j \in 1 .. n
    BY <1>1, <2>1, <2>2, <2>3, <2>4 DEF InOrder
  <2>5. CASE j = n + 1
    BY <1>1, <2>1, <2>2, <2>3, <2>5 DEF ToSet
  <2> QED
    BY <2>2, <2>4, <2>5
<1>3. ASSUME InOrder(s, c, d) PROVE InOrder(t, c, d)
  <2>1. PICK i \in 1 .. n, j \in 1 .. n : i < j /\ s[i] = c /\ s[j] = d
    BY <1>1, <1>3 DEF InOrder
  <2>2. i \in DOMAIN t /\ j \in DOMAIN t /\ t[i] = c /\ t[j] = d
    BY <1>1, <2>1
  <2> QED
    BY <2>1, <2>2 DEF InOrder
<1>4. ASSUME c \in ToSet(s), d = x PROVE InOrder(t, c, d)
  <2>1. PICK i \in 1 .. n : s[i] = c
    BY <1>1, <1>4 DEF ToSet
  <2>2. i \in DOMAIN t /\ n + 1 \in DOMAIN t /\ i < n + 1 /\ t[i] = c /\ t[n + 1] = d
    BY <1>1, <1>4, <2>1
  <2> QED
    BY <2>2 DEF InOrder
<1> QED
  BY <1>2, <1>3, <1>4

\* The head stands before all others; without it the order stays.
LEMMA OrderTail ==
  ASSUME NEW S, NEW s \in Seq(S), s # <<>>, NEW c, NEW d, InOrder(s, c, d)
  PROVE  (c = Head(s) /\ d \in ToSet(Tail(s))) \/ InOrder(Tail(s), c, d)
<1> DEFINE n == Len(s)
<1> DEFINE t == Tail(s)
<1>1. /\ n \in Nat \ {0} /\ DOMAIN s = 1 .. n /\ DOMAIN t = 1 .. (n - 1)
      /\ \A i \in 1 .. (n - 1) : t[i] = s[i + 1]
      /\ Head(s) = s[1]
  OBVIOUS
<1> HIDE DEF n, t
<1>2. PICK i \in 1 .. n, j \in 1 .. n : i < j /\ s[i] = c /\ s[j] = d
  BY <1>1 DEF InOrder
<1>3. j - 1 \in 1 .. (n - 1) /\ t[j - 1] = d
  BY <1>1, <1>2
<1>4. CASE i = 1
  BY <1>1, <1>2, <1>3, <1>4 DEF ToSet, t
<1>5. CASE i # 1
  <2>1. i - 1 \in 1 .. (n - 1) /\ t[i - 1] = c /\ i - 1 < j - 1
    BY <1>1, <1>2, <1>5
  <2> QED
    BY <1>1, <1>3, <2>1 DEF InOrder, t
<1> QED
  BY <1>4, <1>5

-----------------------------------------------------------------------------
(* Type correctness. *)

\* The initial state is of the right type.
LEMMA TypeInit == Init => TypeOK
<1> SUFFICES ASSUME Init PROVE TypeOK
  OBVIOUS
<1>1. call \in [Calls -> CallStates]
  BY DEF Init, CallStates
<1>2. /\ handles \in BOOLEAN /\ chanOpen \in BOOLEAN /\ expired \in BOOLEAN
      /\ realtime \in BOOLEAN /\ closed \in BOOLEAN
  BY DEF Init
<1>3. chan \in Seq(Calls) /\ queued \in Seq(Calls)
  BY DEF Init
<1>4. subscribed \in SUBSET Sources /\ result \in ActorErrors \cup {"Ok"}
  BY DEF Init
<1>5. /\ current \in Calls \cup {NoCall} /\ pending \in Calls \cup {NoCall}
      /\ shutdownReply \in Calls \cup {NoCall}
  BY DEF Init
<1>6. pc \in ActorPoints /\ lifecycle \in LifecycleStates
  BY DEF Init, ActorPoints, AwaitPoints, StartupPoints, LifecycleStates
<1> QED
  BY <1>1, <1>2, <1>3, <1>4, <1>5, <1>6 DEF TypeOK

\* The late messages are distinct, fit into the channel, and come from senders
\* that were still sending.
LEMMA LateFacts ==
  ASSUME TypeOK, Bounded, NEW late \in Late
  PROVE  /\ late \in Seq(Calls)
         /\ Len(late) <= CommandCapacity
         /\ IsInjective(late)
         /\ \A c \in ToSet(late) : c \in Calls /\ call[c] = "sending"
<1> DEFINE room == CommandCapacity - Len(chan)
<1>1. room \in Nat /\ room <= CommandCapacity
  BY ConstantsAssumption DEF TypeOK, Bounded
<1>2. PICK m \in 0 .. room : late \in [1 .. m -> Calls]
  BY DEF Late, BoundedSeq, SeqOf
<1>3. late \in Seq(Calls) /\ Len(late) = m
  BY <1>1, <1>2
<1>4. \A i \in DOMAIN late : late[i] \in Calls /\ call[late[i]] = "sending"
  BY <1>2 DEF Late
<1> QED
  BY <1>1, <1>2, <1>3, <1>4, ConstantsAssumption DEF Late, ToSet

\* AnswerAll leaves every call in a legal state.
LEMMA AnswerAllType ==
  ASSUME TypeOK, NEW S, NEW r \in Returned
  PROVE  AnswerAll(S, r) \in [Calls -> CallStates]
BY DEF TypeOK, AnswerAll, CallStates

\* Every step keeps the types.
LEMMA TypeNext ==
  ASSUME TypeOK, Bounded, [Next]_vars
  PROVE  TypeOK'
<1> USE DEF TypeOK, CallStates, InProgress, Returned, HandleErrors,
        ActorPoints, AwaitPoints, callVars, chanVars, queryVars, transportVars
<1>1. ASSUME NEW c \in Calls, Begin(c) PROVE TypeOK'
  BY <1>1 DEF Begin, Checked, LifecycleStates, FinalStates
<1>2. ASSUME NEW c \in Calls, Enqueue(c) PROVE TypeOK'
  BY <1>2 DEF Enqueue
<1>3. ASSUME NEW c \in Calls, FindClosed(c) PROVE TypeOK'
  BY <1>3 DEF FindClosed
<1>4. ASSUME NEW c \in Calls, Cancel(c) PROVE TypeOK'
  BY <1>4 DEF Cancel
<1>5. CASE DropHandles
  BY <1>5 DEF DropHandles
<1>6. CASE SubscribePosition
  BY <1>6 DEF SubscribePosition, StartupPoints, LifecycleStates, Sources,
     ActorErrors
<1>7. CASE EnableRealtime
  BY <1>7 DEF EnableRealtime, StartupPoints, LifecycleStates, Sources,
     ActorErrors
<1>8. CASE SubscribeResponse
  BY <1>8 DEF SubscribeResponse, StartupPoints, LifecycleStates, Sources,
     ActorErrors
<1>9. CASE StartupFails
  BY <1>9 DEF StartupFails, StartupPoints, LifecycleStates, Sources,
     ActorErrors
<1>10. CASE StartQueued
  BY <1>10 DEF StartQueued
<1>11. CASE EnterSelect
  BY <1>11 DEF EnterSelect
<1>12. CASE ReceiveSend
  BY <1>12 DEF ReceiveSend, Received
<1>13. CASE ReceiveQueryStarts
  BY <1>13 DEF ReceiveQueryStarts, Received, NoQueryOutstanding
<1>14. CASE ReceiveQueryQueues
  BY <1>14 DEF ReceiveQueryQueues, Received
<1>15. CASE ReceiveQueryRefused
  BY <1>15 DEF ReceiveQueryRefused, Received, Answer
<1>16. CASE ReceiveSubscribe
  BY <1>16 DEF ReceiveSubscribe, Received, Answer
<1>17. CASE ReceiveShutdown
  BY <1>17 DEF ReceiveShutdown, Received
<1>18. CASE ReceiveNone
  BY <1>18 DEF ReceiveNone
<1>19. CASE FinishSend
  BY <1>19 DEF FinishSend, Answer
<1>20. CASE FinishQueryWrite
  BY <1>20 DEF FinishQueryWrite
<1>21. CASE WriteFails
  BY <1>21 DEF WriteFails, Answer, ActorErrors
<1>22. ASSUME NEW k \in QueryKinds, ReceiveResponse(k) PROVE TypeOK'
  BY <1>22 DEF ReceiveResponse, Answer
<1>23. ASSUME NEW k, ReceiveOther(k) PROVE TypeOK'
  BY <1>23 DEF ReceiveOther
<1>24. CASE NotificationFails
  BY <1>24 DEF NotificationFails, ActorErrors
<1>25. CASE DeadlinePasses
  BY <1>25 DEF DeadlinePasses
<1>26. CASE Timeout
  BY <1>26 DEF Timeout, Answer
<1>27. CASE Announce
  BY <1>27 DEF Announce, LifecycleStates, ActorErrors, CleanupPoints, Ended
<1>28. CASE Reject
  <2>1. PICK late \in Late :
           /\ chan' = late
           /\ call' = [c \in Calls |-> IF c \in ToSet(late) THEN "waiting"
                                      ELSE AnswerAll(Outstanding, "ShuttingDown")[c]]
    BY <1>28 DEF Reject
  <2>2. call' \in [Calls -> CallStates]
    <3>1. AnswerAll(Outstanding, "ShuttingDown") \in [Calls -> CallStates]
      BY AnswerAllType DEF Returned, HandleErrors
    <3> QED
      BY <2>1, <3>1
  <2>3. pc' \in ActorPoints
    BY <1>28 DEF Reject, ActorPoints, AwaitPoints, CleanupPoints
  <2>4. chan' \in Seq(Calls) /\ queued' \in Seq(Calls)
    BY <1>28, <2>1, LateFacts DEF Reject
  <2> QED
    BY <1>28, <2>2, <2>3, <2>4 DEF Reject
<1>29. CASE UnsubscribeResponse
  BY <1>29 DEF UnsubscribeResponse, LifecycleStates, ActorErrors,
     CleanupPoints, Ended
<1>30. CASE UnsubscribePosition
  BY <1>30 DEF UnsubscribePosition, LifecycleStates, ActorErrors,
     CleanupPoints, Ended
<1>31. CASE CloseTransport
  BY <1>31 DEF CloseTransport, LifecycleStates, ActorErrors, CleanupPoints,
     Ended
<1>32. CASE CleanupFails
  BY <1>32 DEF CleanupFails, KeepFirst, LifecycleStates, ActorErrors,
     CleanupPoints, Ended
<1>33. CASE Finish
  BY <1>33 DEF Finish, LifecycleStates, ActorErrors, CleanupPoints, Ended
<1>34. CASE ReplyShutdown
  BY <1>34 DEF ReplyShutdown, AnswerAll, LifecycleStates, ActorErrors,
     CleanupPoints, Ended
<1>35. CASE Exit
  BY <1>35 DEF Exit, AnswerAll, LifecycleStates, ActorErrors, CleanupPoints,
     Ended
<1>36. CASE Abort
  <2>1. call' \in [Calls -> CallStates]
    BY <1>36, AnswerAllType DEF Abort, Returned, HandleErrors
  <2>2. pc' \in ActorPoints
    BY <1>36 DEF Abort, ActorPoints, AwaitPoints, Ended
  <2>3. chan' \in Seq(Calls) /\ queued' \in Seq(Calls)
    BY <1>36 DEF Abort
  <2> QED
    BY <1>36, <2>1, <2>2, <2>3 DEF Abort
<1>37. CASE Terminated \/ UNCHANGED vars
  BY <1>37 DEF Terminated, vars
<1> QED
  BY <1>1, <1>2, <1>3, <1>4, <1>5, <1>6, <1>7, <1>8, <1>9, <1>10, <1>11,
     <1>12, <1>13, <1>14, <1>15, <1>16, <1>17, <1>18, <1>19, <1>20, <1>21,
     <1>22, <1>23, <1>24, <1>25, <1>26, <1>27, <1>28, <1>29, <1>30, <1>31,
     <1>32, <1>33, <1>34, <1>35, <1>36, <1>37 DEF Next, Caller, Startup,
     LoopTop, Receive, Write, Notified, Leave


-----------------------------------------------------------------------------
(* Where the actor stands. *)

\* Every step keeps the channel and the single places in line with the position.
LEMMA ControlInvNext ==
  ASSUME TypeOK, ControlInv, LifecycleInv, OneQueryAtATime, [Next]_vars
  PROVE  ControlInv'
<1> USE ConstantsAssumption DEF ControlInv, ClosedPoints, LoopPoints,
        StartupPoints, CleanupPoints, Ended, callVars, chanVars, queryVars,
        transportVars
<1>1. ASSUME NEW c \in Calls, Begin(c) PROVE ControlInv'
  BY <1>1 DEF Begin, Checked
<1>2. ASSUME NEW c \in Calls, Enqueue(c) PROVE ControlInv'
  BY <1>2 DEF Enqueue
<1>3. ASSUME NEW c \in Calls, FindClosed(c) PROVE ControlInv'
  BY <1>3 DEF FindClosed
<1>4. ASSUME NEW c \in Calls, Cancel(c) PROVE ControlInv'
  BY <1>4 DEF Cancel
<1>5. CASE DropHandles
  BY <1>5 DEF DropHandles
<1>6. CASE SubscribePosition
  BY <1>6 DEF SubscribePosition
<1>7. CASE EnableRealtime
  BY <1>7 DEF EnableRealtime
<1>8. CASE SubscribeResponse
  BY <1>8 DEF SubscribeResponse
<1>9. CASE StartupFails
  BY <1>9 DEF StartupFails
<1>10. CASE StartQueued
  <2>1. queued \in Seq(Calls)
    BY DEF TypeOK
  <2>2. Head(queued) = queued[1] /\ 1 \in DOMAIN queued
    BY <1>10, <2>1 DEF StartQueued
  <2>3. /\ Head(queued) \in Calls /\ Head(queued) # NoCall
        /\ Kind[Head(queued)] \in QueryKinds
    BY <1>10, <2>1, <2>2, TakeHead DEF StartQueued
  <2>4. \A i \in DOMAIN queued' : Kind[queued'[i]] \in QueryKinds
    <3> SUFFICES ASSUME NEW i \in DOMAIN queued' PROVE Kind[queued'[i]] \in QueryKinds
      OBVIOUS
    <3>1. i + 1 \in DOMAIN queued /\ queued'[i] = queued[i + 1]
      BY <1>10, <2>1 DEF StartQueued
    <3> QED
      BY <3>1
  <2> QED
    BY <1>10, <2>3, <2>4 DEF StartQueued
<1>11. CASE EnterSelect
  BY <1>11 DEF EnterSelect
<1>12. CASE ReceiveSend
  <2>1. Head(chan) \in Calls /\ Head(chan) # NoCall
    BY <1>12, TakeHead DEF ReceiveSend, Received, TypeOK
  <2> QED
    BY <1>12, <2>1 DEF ReceiveSend, Received
<1>13. CASE ReceiveQueryStarts
  <2>1. Head(chan) \in Calls /\ Head(chan) # NoCall
    BY <1>13, TakeHead DEF ReceiveQueryStarts, Received, TypeOK
  <2> QED
    BY <1>13, <2>1 DEF ReceiveQueryStarts, Received
<1>14. CASE ReceiveQueryQueues
  BY <1>14 DEF ReceiveQueryQueues, Received
<1>15. CASE ReceiveQueryRefused
  BY <1>15 DEF ReceiveQueryRefused, Received, Answer
<1>16. CASE ReceiveSubscribe
  BY <1>16 DEF ReceiveSubscribe, Received, Answer
<1>17. CASE ReceiveShutdown
  BY <1>17 DEF ReceiveShutdown, Received
<1>18. CASE ReceiveNone
  BY <1>18 DEF ReceiveNone
<1>19. CASE FinishSend
  BY <1>19 DEF FinishSend, Answer
<1>20. CASE FinishQueryWrite
  BY <1>20 DEF FinishQueryWrite, IsQuery, TypeOK
<1>21. CASE WriteFails
  BY <1>21 DEF WriteFails, Answer
<1>22. ASSUME NEW k \in QueryKinds, ReceiveResponse(k) PROVE ControlInv'
  BY <1>22 DEF ReceiveResponse, Answer
<1>23. ASSUME NEW k, ReceiveOther(k) PROVE ControlInv'
  BY <1>23 DEF ReceiveOther
<1>24. CASE NotificationFails
  BY <1>24 DEF NotificationFails
<1>25. CASE DeadlinePasses
  BY <1>25 DEF DeadlinePasses
<1>26. CASE Timeout
  BY <1>26 DEF Timeout, Answer
<1>27. CASE Announce
  BY <1>27 DEF Announce
<1>28. CASE Reject
  <2>1. DOMAIN queued' = {}
    BY <1>28 DEF Reject
  <2> QED
    BY <1>28, <2>1 DEF Reject
<1>29. CASE UnsubscribeResponse
  BY <1>29 DEF UnsubscribeResponse
<1>30. CASE UnsubscribePosition
  BY <1>30 DEF UnsubscribePosition
<1>31. CASE CloseTransport
  BY <1>31 DEF CloseTransport
<1>32. CASE CleanupFails
  BY <1>32 DEF CleanupFails, KeepFirst
<1>33. CASE Finish
  BY <1>33 DEF Finish
<1>34. CASE ReplyShutdown
  BY <1>34 DEF ReplyShutdown, AnswerAll
<1>35. CASE Exit
  BY <1>35 DEF Exit, AnswerAll
<1>36. CASE Abort
  <2>1. DOMAIN queued' = {}
    BY <1>36 DEF Abort
  <2>2. pc' = "aborted" /\ current' = NoCall /\ pending' = NoCall /\ shutdownReply' = NoCall
    BY <1>36 DEF Abort
  <2>3. chanOpen' = FALSE /\ chan' = <<>> /\ queued' = <<>>
    BY <1>36 DEF Abort
  <2> QED
    BY <2>1, <2>2, <2>3
<1>37. CASE Terminated \/ UNCHANGED vars
  BY <1>37 DEF Terminated, vars
<1> QED
  BY <1>1, <1>2, <1>3, <1>4, <1>5, <1>6, <1>7, <1>8, <1>9, <1>10, <1>11,
     <1>12, <1>13, <1>14, <1>15, <1>16, <1>17, <1>18, <1>19, <1>20, <1>21,
     <1>22, <1>23, <1>24, <1>25, <1>26, <1>27, <1>28, <1>29, <1>30, <1>31,
     <1>32, <1>33, <1>34, <1>35, <1>36, <1>37 DEF Next, Caller, Startup,
     LoopTop, Receive, Write, Notified, Leave

\* Every step keeps the lifecycle and the result in line with the position.
LEMMA LifecycleInvNext ==
  ASSUME TypeOK, ControlInv, LifecycleInv, [Next]_vars
  PROVE  LifecycleInv'
<1> USE DEF LifecycleInv, LoopPoints, StartupPoints, CleanupPoints,
        FinalStates, AwaitPoints, callVars, chanVars, queryVars, transportVars
<1>1. ASSUME NEW c \in Calls, Begin(c) PROVE LifecycleInv'
  BY <1>1 DEF Begin, Checked
<1>2. ASSUME NEW c \in Calls, Enqueue(c) PROVE LifecycleInv'
  BY <1>2 DEF Enqueue
<1>3. ASSUME NEW c \in Calls, FindClosed(c) PROVE LifecycleInv'
  BY <1>3 DEF FindClosed
<1>4. ASSUME NEW c \in Calls, Cancel(c) PROVE LifecycleInv'
  BY <1>4 DEF Cancel
<1>5. CASE DropHandles
  BY <1>5 DEF DropHandles
<1>6. CASE SubscribePosition
  BY <1>6 DEF SubscribePosition
<1>7. CASE EnableRealtime
  BY <1>7 DEF EnableRealtime
<1>8. CASE SubscribeResponse
  BY <1>8 DEF SubscribeResponse
<1>9. CASE StartupFails
  BY <1>9 DEF StartupFails
<1>10. CASE StartQueued
  BY <1>10 DEF StartQueued
<1>11. CASE EnterSelect
  BY <1>11 DEF EnterSelect
<1>12. CASE ReceiveSend
  BY <1>12 DEF ReceiveSend, Received
<1>13. CASE ReceiveQueryStarts
  BY <1>13 DEF ReceiveQueryStarts, Received, NoQueryOutstanding
<1>14. CASE ReceiveQueryQueues
  BY <1>14 DEF ReceiveQueryQueues, Received
<1>15. CASE ReceiveQueryRefused
  BY <1>15 DEF ReceiveQueryRefused, Received, Answer
<1>16. CASE ReceiveSubscribe
  BY <1>16 DEF ReceiveSubscribe, Received, Answer
<1>17. CASE ReceiveShutdown
  BY <1>17 DEF ReceiveShutdown, Received
<1>18. CASE ReceiveNone
  BY <1>18 DEF ReceiveNone
<1>19. CASE FinishSend
  BY <1>19 DEF FinishSend, Answer
<1>20. CASE FinishQueryWrite
  BY <1>20 DEF FinishQueryWrite
<1>21. CASE WriteFails
  BY <1>21 DEF WriteFails, Answer
<1>22. ASSUME NEW k \in QueryKinds, ReceiveResponse(k) PROVE LifecycleInv'
  BY <1>22 DEF ReceiveResponse, Answer
<1>23. ASSUME NEW k, ReceiveOther(k) PROVE LifecycleInv'
  BY <1>23 DEF ReceiveOther
<1>24. CASE NotificationFails
  BY <1>24 DEF NotificationFails
<1>25. CASE DeadlinePasses
  BY <1>25 DEF DeadlinePasses
<1>26. CASE Timeout
  BY <1>26 DEF Timeout, Answer
<1>27. CASE Announce
  BY <1>27 DEF Announce
<1>28. CASE Reject
  BY <1>28 DEF Reject, AnswerAll
<1>29. CASE UnsubscribeResponse
  BY <1>29 DEF UnsubscribeResponse
<1>30. CASE UnsubscribePosition
  BY <1>30 DEF UnsubscribePosition
<1>31. CASE CloseTransport
  BY <1>31 DEF CloseTransport
<1>32. CASE CleanupFails
  BY <1>32 DEF CleanupFails, KeepFirst
<1>33. CASE Finish
  BY <1>33 DEF Finish
<1>34. CASE ReplyShutdown
  BY <1>34 DEF ReplyShutdown, AnswerAll
<1>35. CASE Exit
  BY <1>35 DEF Exit, AnswerAll
<1>36. CASE Abort
  BY <1>36 DEF Abort, AnswerAll
<1>37. CASE Terminated \/ UNCHANGED vars
  BY <1>37 DEF Terminated, vars
<1> QED
  BY <1>1, <1>2, <1>3, <1>4, <1>5, <1>6, <1>7, <1>8, <1>9, <1>10, <1>11,
     <1>12, <1>13, <1>14, <1>15, <1>16, <1>17, <1>18, <1>19, <1>20, <1>21,
     <1>22, <1>23, <1>24, <1>25, <1>26, <1>27, <1>28, <1>29, <1>30, <1>31,
     <1>32, <1>33, <1>34, <1>35, <1>36, <1>37 DEF Next, Caller, Startup,
     LoopTop, Receive, Write, Notified, Leave

\* Every step keeps the transport in line with the position.
LEMMA TransportInvNext ==
  ASSUME TypeOK, LifecycleInv, TransportInv, [Next]_vars
  PROVE  TransportInv'
<1> USE DEF TransportInv, LifecycleInv, LoopPoints, StartupPoints,
        CleanupPoints, Ended, Sources, AwaitPoints, callVars, chanVars,
        queryVars, transportVars
<1>1. ASSUME NEW c \in Calls, Begin(c) PROVE TransportInv'
  BY <1>1 DEF Begin, Checked
<1>2. ASSUME NEW c \in Calls, Enqueue(c) PROVE TransportInv'
  BY <1>2 DEF Enqueue
<1>3. ASSUME NEW c \in Calls, FindClosed(c) PROVE TransportInv'
  BY <1>3 DEF FindClosed
<1>4. ASSUME NEW c \in Calls, Cancel(c) PROVE TransportInv'
  BY <1>4 DEF Cancel
<1>5. CASE DropHandles
  BY <1>5 DEF DropHandles
<1>6. CASE SubscribePosition
  BY <1>6 DEF SubscribePosition
<1>7. CASE EnableRealtime
  BY <1>7 DEF EnableRealtime
<1>8. CASE SubscribeResponse
  <2>1. subscribed' = Sources
    BY <1>8 DEF SubscribeResponse, TypeOK
  <2> QED
    BY <1>8, <2>1 DEF SubscribeResponse
<1>9. CASE StartupFails
  BY <1>9 DEF StartupFails
<1>10. CASE StartQueued
  BY <1>10 DEF StartQueued
<1>11. CASE EnterSelect
  BY <1>11 DEF EnterSelect
<1>12. CASE ReceiveSend
  BY <1>12 DEF ReceiveSend, Received
<1>13. CASE ReceiveQueryStarts
  BY <1>13 DEF ReceiveQueryStarts, Received, NoQueryOutstanding
<1>14. CASE ReceiveQueryQueues
  BY <1>14 DEF ReceiveQueryQueues, Received
<1>15. CASE ReceiveQueryRefused
  BY <1>15 DEF ReceiveQueryRefused, Received, Answer
<1>16. CASE ReceiveSubscribe
  BY <1>16 DEF ReceiveSubscribe, Received, Answer
<1>17. CASE ReceiveShutdown
  BY <1>17 DEF ReceiveShutdown, Received
<1>18. CASE ReceiveNone
  BY <1>18 DEF ReceiveNone
<1>19. CASE FinishSend
  BY <1>19 DEF FinishSend, Answer
<1>20. CASE FinishQueryWrite
  BY <1>20 DEF FinishQueryWrite
<1>21. CASE WriteFails
  BY <1>21 DEF WriteFails, Answer
<1>22. ASSUME NEW k \in QueryKinds, ReceiveResponse(k) PROVE TransportInv'
  BY <1>22 DEF ReceiveResponse, Answer
<1>23. ASSUME NEW k, ReceiveOther(k) PROVE TransportInv'
  BY <1>23 DEF ReceiveOther
<1>24. CASE NotificationFails
  BY <1>24 DEF NotificationFails
<1>25. CASE DeadlinePasses
  BY <1>25 DEF DeadlinePasses
<1>26. CASE Timeout
  BY <1>26 DEF Timeout, Answer
<1>27. CASE Announce
  BY <1>27 DEF Announce
<1>28. CASE Reject
  BY <1>28 DEF Reject, AnswerAll
<1>29. CASE UnsubscribeResponse
  BY <1>29 DEF UnsubscribeResponse
<1>30. CASE UnsubscribePosition
  <2>1. subscribed' = {}
    BY <1>30 DEF UnsubscribePosition, TypeOK
  <2>2. pc' = "close" /\ lifecycle' = "ShuttingDown"
    BY <1>30 DEF UnsubscribePosition
  <2> QED
    BY <2>1, <2>2
<1>31. CASE CloseTransport
  BY <1>31 DEF CloseTransport
<1>32. CASE CleanupFails
  BY <1>32 DEF CleanupFails, KeepFirst
<1>33. CASE Finish
  BY <1>33 DEF Finish
<1>34. CASE ReplyShutdown
  BY <1>34 DEF ReplyShutdown, AnswerAll
<1>35. CASE Exit
  BY <1>35 DEF Exit, AnswerAll
<1>36. CASE Abort
  BY <1>36 DEF Abort, AnswerAll
<1>37. CASE Terminated \/ UNCHANGED vars
  BY <1>37 DEF Terminated, vars
<1> QED
  BY <1>1, <1>2, <1>3, <1>4, <1>5, <1>6, <1>7, <1>8, <1>9, <1>10, <1>11,
     <1>12, <1>13, <1>14, <1>15, <1>16, <1>17, <1>18, <1>19, <1>20, <1>21,
     <1>22, <1>23, <1>24, <1>25, <1>26, <1>27, <1>28, <1>29, <1>30, <1>31,
     <1>32, <1>33, <1>34, <1>35, <1>36, <1>37 DEF Next, Caller, Startup,
     LoopTop, Receive, Write, Notified, Leave

\* Every step keeps the queries serialized.
LEMMA OneQueryAtATimeNext ==
  ASSUME TypeOK, ControlInv, OneQueryAtATime, [Next]_vars
  PROVE  OneQueryAtATime'
<1> USE DEF OneQueryAtATime, ControlInv, IsQuery, callVars, chanVars,
        queryVars, transportVars
<1>1. ASSUME NEW c \in Calls, Begin(c) PROVE OneQueryAtATime'
  BY <1>1 DEF Begin, Checked
<1>2. ASSUME NEW c \in Calls, Enqueue(c) PROVE OneQueryAtATime'
  BY <1>2 DEF Enqueue
<1>3. ASSUME NEW c \in Calls, FindClosed(c) PROVE OneQueryAtATime'
  BY <1>3 DEF FindClosed
<1>4. ASSUME NEW c \in Calls, Cancel(c) PROVE OneQueryAtATime'
  BY <1>4 DEF Cancel
<1>5. CASE DropHandles
  BY <1>5 DEF DropHandles
<1>6. CASE SubscribePosition
  BY <1>6 DEF SubscribePosition
<1>7. CASE EnableRealtime
  BY <1>7 DEF EnableRealtime
<1>8. CASE SubscribeResponse
  BY <1>8 DEF SubscribeResponse
<1>9. CASE StartupFails
  BY <1>9 DEF StartupFails
<1>10. CASE StartQueued
  BY <1>10 DEF StartQueued
<1>11. CASE EnterSelect
  BY <1>11 DEF EnterSelect
<1>12. CASE ReceiveSend
  <2>1. Kind[current'] = "send" /\ pc' = "write"
    BY <1>12 DEF ReceiveSend, Received
  <2> QED
    BY <2>1 DEF QueryKinds
<1>13. CASE ReceiveQueryStarts
  BY <1>13 DEF ReceiveQueryStarts, Received, NoQueryOutstanding
<1>14. CASE ReceiveQueryQueues
  BY <1>14 DEF ReceiveQueryQueues, Received
<1>15. CASE ReceiveQueryRefused
  BY <1>15 DEF ReceiveQueryRefused, Received, Answer
<1>16. CASE ReceiveSubscribe
  BY <1>16 DEF ReceiveSubscribe, Received, Answer
<1>17. CASE ReceiveShutdown
  BY <1>17 DEF ReceiveShutdown, Received
<1>18. CASE ReceiveNone
  BY <1>18 DEF ReceiveNone
<1>19. CASE FinishSend
  BY <1>19 DEF FinishSend, Answer
<1>20. CASE FinishQueryWrite
  BY <1>20 DEF FinishQueryWrite
<1>21. CASE WriteFails
  BY <1>21 DEF WriteFails, Answer
<1>22. ASSUME NEW k \in QueryKinds, ReceiveResponse(k) PROVE OneQueryAtATime'
  BY <1>22 DEF ReceiveResponse, Answer
<1>23. ASSUME NEW k, ReceiveOther(k) PROVE OneQueryAtATime'
  BY <1>23 DEF ReceiveOther
<1>24. CASE NotificationFails
  BY <1>24 DEF NotificationFails
<1>25. CASE DeadlinePasses
  BY <1>25 DEF DeadlinePasses
<1>26. CASE Timeout
  BY <1>26 DEF Timeout, Answer
<1>27. CASE Announce
  BY <1>27 DEF Announce
<1>28. CASE Reject
  BY <1>28 DEF Reject, AnswerAll
<1>29. CASE UnsubscribeResponse
  BY <1>29 DEF UnsubscribeResponse
<1>30. CASE UnsubscribePosition
  BY <1>30 DEF UnsubscribePosition
<1>31. CASE CloseTransport
  BY <1>31 DEF CloseTransport
<1>32. CASE CleanupFails
  BY <1>32 DEF CleanupFails, KeepFirst
<1>33. CASE Finish
  BY <1>33 DEF Finish
<1>34. CASE ReplyShutdown
  BY <1>34 DEF ReplyShutdown, AnswerAll
<1>35. CASE Exit
  BY <1>35 DEF Exit, AnswerAll
<1>36. CASE Abort
  BY <1>36 DEF Abort, AnswerAll
<1>37. CASE Terminated \/ UNCHANGED vars
  BY <1>37 DEF Terminated, vars
<1> QED
  BY <1>1, <1>2, <1>3, <1>4, <1>5, <1>6, <1>7, <1>8, <1>9, <1>10, <1>11,
     <1>12, <1>13, <1>14, <1>15, <1>16, <1>17, <1>18, <1>19, <1>20, <1>21,
     <1>22, <1>23, <1>24, <1>25, <1>26, <1>27, <1>28, <1>29, <1>30, <1>31,
     <1>32, <1>33, <1>34, <1>35, <1>36, <1>37 DEF Next, Caller, Startup,
     LoopTop, Receive, Write, Notified, Leave

\* Every step keeps both queues within their capacity.
LEMMA BoundedNext ==
  ASSUME TypeOK, ControlInv, Bounded, [Next]_vars
  PROVE  Bounded'
<1> USE ConstantsAssumption DEF Bounded, ControlInv, TypeOK, callVars,
        chanVars, queryVars, transportVars
<1>1. ASSUME NEW c \in Calls, Begin(c) PROVE Bounded'
  BY <1>1 DEF Begin, Checked
<1>2. ASSUME NEW c \in Calls, Enqueue(c) PROVE Bounded'
  BY <1>2 DEF Enqueue
<1>3. ASSUME NEW c \in Calls, FindClosed(c) PROVE Bounded'
  BY <1>3 DEF FindClosed
<1>4. ASSUME NEW c \in Calls, Cancel(c) PROVE Bounded'
  BY <1>4 DEF Cancel
<1>5. CASE DropHandles
  BY <1>5 DEF DropHandles
<1>6. CASE SubscribePosition
  BY <1>6 DEF SubscribePosition
<1>7. CASE EnableRealtime
  BY <1>7 DEF EnableRealtime
<1>8. CASE SubscribeResponse
  BY <1>8 DEF SubscribeResponse
<1>9. CASE StartupFails
  BY <1>9 DEF StartupFails
<1>10. CASE StartQueued
  BY <1>10 DEF StartQueued
<1>11. CASE EnterSelect
  BY <1>11 DEF EnterSelect
<1>12. CASE ReceiveSend
  BY <1>12 DEF ReceiveSend, Received
<1>13. CASE ReceiveQueryStarts
  BY <1>13 DEF ReceiveQueryStarts, Received, NoQueryOutstanding
<1>14. CASE ReceiveQueryQueues
  BY <1>14 DEF ReceiveQueryQueues, Received, QueueHasRoom
<1>15. CASE ReceiveQueryRefused
  BY <1>15 DEF ReceiveQueryRefused, Received, Answer
<1>16. CASE ReceiveSubscribe
  BY <1>16 DEF ReceiveSubscribe, Received, Answer
<1>17. CASE ReceiveShutdown
  BY <1>17 DEF ReceiveShutdown, Received
<1>18. CASE ReceiveNone
  BY <1>18 DEF ReceiveNone
<1>19. CASE FinishSend
  BY <1>19 DEF FinishSend, Answer
<1>20. CASE FinishQueryWrite
  BY <1>20 DEF FinishQueryWrite
<1>21. CASE WriteFails
  BY <1>21 DEF WriteFails, Answer
<1>22. ASSUME NEW k \in QueryKinds, ReceiveResponse(k) PROVE Bounded'
  BY <1>22 DEF ReceiveResponse, Answer
<1>23. ASSUME NEW k, ReceiveOther(k) PROVE Bounded'
  BY <1>23 DEF ReceiveOther
<1>24. CASE NotificationFails
  BY <1>24 DEF NotificationFails
<1>25. CASE DeadlinePasses
  BY <1>25 DEF DeadlinePasses
<1>26. CASE Timeout
  BY <1>26 DEF Timeout, Answer
<1>27. CASE Announce
  BY <1>27 DEF Announce
<1>28. CASE Reject
  <2>1. PICK late \in Late : chan' = late
    BY <1>28 DEF Reject
  <2>2. Len(chan') <= CommandCapacity
    BY <2>1, LateFacts
  <2>3. Len(queued') <= QueryCapacity
    BY <1>28 DEF Reject
  <2> QED
    BY <2>2, <2>3
<1>29. CASE UnsubscribeResponse
  BY <1>29 DEF UnsubscribeResponse
<1>30. CASE UnsubscribePosition
  BY <1>30 DEF UnsubscribePosition
<1>31. CASE CloseTransport
  BY <1>31 DEF CloseTransport
<1>32. CASE CleanupFails
  BY <1>32 DEF CleanupFails, KeepFirst
<1>33. CASE Finish
  BY <1>33 DEF Finish
<1>34. CASE ReplyShutdown
  BY <1>34 DEF ReplyShutdown, AnswerAll
<1>35. CASE Exit
  BY <1>35 DEF Exit, AnswerAll
<1>36. CASE Abort
  BY <1>36 DEF Abort, AnswerAll
<1>37. CASE Terminated \/ UNCHANGED vars
  BY <1>37 DEF Terminated, vars
<1> QED
  BY <1>1, <1>2, <1>3, <1>4, <1>5, <1>6, <1>7, <1>8, <1>9, <1>10, <1>11,
     <1>12, <1>13, <1>14, <1>15, <1>16, <1>17, <1>18, <1>19, <1>20, <1>21,
     <1>22, <1>23, <1>24, <1>25, <1>26, <1>27, <1>28, <1>29, <1>30, <1>31,
     <1>32, <1>33, <1>34, <1>35, <1>36, <1>37 DEF Next, Caller, Startup,
     LoopTop, Receive, Write, Notified, Leave


-----------------------------------------------------------------------------
(* Who holds a call. *)

\* Every step answers the calls it lets go of.
LEMMA NoLostReplyNext ==
  ASSUME TypeOK, ControlInv, OneQueryAtATime, HeldOnce, NoLostReply,
         [Next]_vars
  PROVE  NoLostReply'
<1>a. chan # <<>> => ToSet(chan) = {Head(chan)} \cup ToSet(Tail(chan))
  BY TakeHead DEF TypeOK
<1>b. queued # <<>> => ToSet(queued) = {Head(queued)} \cup ToSet(Tail(queued))
  BY TakeHead DEF TypeOK
<1>c. \A c \in Calls : ToSet(Append(chan, c)) = ToSet(chan) \cup {c}
  BY AddLast DEF TypeOK
<1>d. \A c \in Calls : ToSet(Append(queued, c)) = ToSet(queued) \cup {c}
  BY AddLast DEF TypeOK
<1>t. call \in [Calls -> CallStates]
  BY DEF TypeOK
<1> USE ConstantsAssumption DEF NoLostReply, callVars, chanVars, queryVars,
        transportVars
<1>1. ASSUME NEW c \in Calls, Begin(c) PROVE NoLostReply'
  <2>1. Held' = Held
    BY <1>1 DEF Begin, Held
  <2>2. Checked(lifecycle) # "waiting"
    BY DEF Checked, FinalStates, TypeOK, LifecycleStates
  <2>3. \A d \in Calls : call'[d] = "waiting" => call[d] = "waiting"
    BY <1>1, <1>t, <2>2 DEF Begin
  <2> QED
    BY <2>1, <2>3
<1>2. ASSUME NEW c \in Calls, Enqueue(c) PROVE NoLostReply'
  <2>1. Held' = Held \cup {c}
    BY <1>2, <1>c DEF Enqueue, Held
  <2> QED
    BY <1>2, <1>t, <2>1 DEF Enqueue
<1>3. ASSUME NEW c \in Calls, FindClosed(c) PROVE NoLostReply'
  BY <1>3, <1>t DEF FindClosed, TypeOK, Held
<1>4. ASSUME NEW c \in Calls, Cancel(c) PROVE NoLostReply'
  BY <1>4, <1>t DEF Cancel, TypeOK, Held
<1>5. CASE DropHandles
  BY <1>5, <1>t DEF DropHandles, TypeOK, Held
<1>6. CASE SubscribePosition
  BY <1>6, <1>t DEF SubscribePosition, TypeOK, Held
<1>7. CASE EnableRealtime
  BY <1>7, <1>t DEF EnableRealtime, TypeOK, Held
<1>8. CASE SubscribeResponse
  BY <1>8, <1>t DEF SubscribeResponse, TypeOK, Held
<1>9. CASE StartupFails
  BY <1>9, <1>t DEF StartupFails, TypeOK, Held
<1>10. CASE StartQueued
  <2>1. Held' = Held
    BY <1>10, <1>b DEF StartQueued, Held, ControlInv, TypeOK
  <2> QED
    BY <1>10, <2>1 DEF StartQueued
<1>11. CASE EnterSelect
  BY <1>11, <1>t DEF EnterSelect, TypeOK, Held
<1>12. CASE ReceiveSend
  <2>1. Held' = Held
    BY <1>12, <1>a, TakeHead DEF ReceiveSend, Held, Received, ControlInv, TypeOK
  <2> QED
    BY <1>12, <2>1 DEF ReceiveSend
<1>13. CASE ReceiveQueryStarts
  <2>1. Held' = Held
    BY <1>13, <1>a, TakeHead DEF ReceiveQueryStarts, Held, Received, ControlInv, TypeOK
  <2> QED
    BY <1>13, <2>1 DEF ReceiveQueryStarts
<1>14. CASE ReceiveQueryQueues
  <2>1. Held' = Held
    BY <1>14, <1>a, <1>d, TakeHead DEF ReceiveQueryQueues, Held, Received, TypeOK
  <2> QED
    BY <1>14, <2>1 DEF ReceiveQueryQueues
<1>15. CASE ReceiveQueryRefused
  BY <1>15, <1>t, <1>a DEF ReceiveQueryRefused, Received, Answer, TypeOK, Held
<1>16. CASE ReceiveSubscribe
  BY <1>16, <1>t, <1>a DEF ReceiveSubscribe, Received, Answer, TypeOK, Held
<1>17. CASE ReceiveShutdown
  <2>1. Held' = Held
    BY <1>17, <1>a, TakeHead DEF ReceiveShutdown, Held, Received, ControlInv, CleanupPoints, TypeOK
  <2> QED
    BY <1>17, <2>1 DEF ReceiveShutdown
<1>18. CASE ReceiveNone
  BY <1>18, <1>t DEF ReceiveNone, TypeOK, Held
<1>19. CASE FinishSend
  BY <1>19, <1>t DEF FinishSend, Answer, TypeOK, Held
<1>20. CASE FinishQueryWrite
  <2>1. Held' = Held
    BY <1>20 DEF FinishQueryWrite, Held, OneQueryAtATime
  <2> QED
    BY <1>20, <2>1 DEF FinishQueryWrite
<1>21. CASE WriteFails
  BY <1>21, <1>t DEF WriteFails, Answer, TypeOK, Held
<1>22. ASSUME NEW k \in QueryKinds, ReceiveResponse(k) PROVE NoLostReply'
  BY <1>22, <1>t DEF ReceiveResponse, Answer, TypeOK, Held
<1>23. ASSUME NEW k, ReceiveOther(k) PROVE NoLostReply'
  BY <1>23, <1>t DEF ReceiveOther, TypeOK, Held
<1>24. CASE NotificationFails
  BY <1>24, <1>t DEF NotificationFails, TypeOK, Held
<1>25. CASE DeadlinePasses
  BY <1>25, <1>t DEF DeadlinePasses, TypeOK, Held
<1>26. CASE Timeout
  BY <1>26, <1>t DEF Timeout, Answer, TypeOK, Held
<1>27. CASE Announce
  BY <1>27, <1>t DEF Announce, TypeOK, Held
<1>28. CASE Reject
  BY <1>28, <1>t, EmptySet DEF Reject, AnswerAll, ControlInv, Outstanding,
     TypeOK, Held
<1>29. CASE UnsubscribeResponse
  BY <1>29, <1>t DEF UnsubscribeResponse, TypeOK, Held
<1>30. CASE UnsubscribePosition
  BY <1>30, <1>t DEF UnsubscribePosition, TypeOK, Held
<1>31. CASE CloseTransport
  BY <1>31, <1>t DEF CloseTransport, TypeOK, Held
<1>32. CASE CleanupFails
  BY <1>32, <1>t DEF CleanupFails, KeepFirst, TypeOK, Held
<1>33. CASE Finish
  BY <1>33, <1>t DEF Finish, TypeOK, Held
<1>34. CASE ReplyShutdown
  BY <1>34, <1>t DEF ReplyShutdown, AnswerAll, ControlInv, Held
<1>35. CASE Exit
  BY <1>35, <1>t DEF Exit, AnswerAll, TypeOK, Held
<1>36. CASE Abort
  BY <1>36, <1>t, EmptySet DEF Abort, AnswerAll, ControlInv, Held
<1>37. CASE Terminated \/ UNCHANGED vars
  BY <1>37 DEF Terminated, vars, Held
<1> QED
  BY <1>1, <1>2, <1>3, <1>4, <1>5, <1>6, <1>7, <1>8, <1>9, <1>10, <1>11,
     <1>12, <1>13, <1>14, <1>15, <1>16, <1>17, <1>18, <1>19, <1>20, <1>21,
     <1>22, <1>23, <1>24, <1>25, <1>26, <1>27, <1>28, <1>29, <1>30, <1>31,
     <1>32, <1>33, <1>34, <1>35, <1>36, <1>37 DEF Next, Caller, Startup,
     LoopTop, Receive, Write, Notified, Leave

\* Every step moves a call from one holder to the next.
LEMMA HeldOnceNext ==
  ASSUME TypeOK, ControlInv, Bounded, HeldOnce, NoLostReply, [Next]_vars
  PROVE  HeldOnce'
<1>a. chan # <<>> =>
        /\ Head(chan) \in Calls
        /\ ToSet(chan) = {Head(chan)} \cup ToSet(Tail(chan))
        /\ IsInjective(Tail(chan))
        /\ Head(chan) \notin ToSet(Tail(chan))
  BY TakeHead DEF TypeOK, HeldOnce
<1>b. queued # <<>> =>
        /\ Head(queued) \in Calls
        /\ ToSet(queued) = {Head(queued)} \cup ToSet(Tail(queued))
        /\ IsInjective(Tail(queued))
        /\ Head(queued) \notin ToSet(Tail(queued))
  BY TakeHead DEF TypeOK, HeldOnce
<1>c. \A c \in Calls :
        /\ ToSet(Append(chan, c)) = ToSet(chan) \cup {c}
        /\ c \notin ToSet(chan) => IsInjective(Append(chan, c))
  BY AddLast DEF TypeOK, HeldOnce
<1>d. \A c \in Calls :
        /\ ToSet(Append(queued, c)) = ToSet(queued) \cup {c}
        /\ c \notin ToSet(queued) => IsInjective(Append(queued, c))
  BY AddLast DEF TypeOK, HeldOnce
<1>t. call \in [Calls -> CallStates]
  BY DEF TypeOK
<1> USE ConstantsAssumption DEF HeldOnce, Held, callVars, chanVars, queryVars,
        transportVars
<1>1. ASSUME NEW c \in Calls, Begin(c) PROVE HeldOnce'
  BY <1>1, <1>t DEF Begin, Checked
<1>2. ASSUME NEW c \in Calls, Enqueue(c) PROVE HeldOnce'
  <2>1. c \notin Held
    BY <1>2 DEF Enqueue
  <2>2. chan' = Append(chan, c) /\ c # NoCall
    BY <1>2 DEF Enqueue
  <2>3. ToSet(chan') = ToSet(chan) \cup {c} /\ IsInjective(chan')
    BY <1>c, <2>1, <2>2
  <2>4. Held' = Held \cup {c}
    BY <1>2, <2>3 DEF Enqueue
  <2>5. \A d \in Held' : call'[d] \in {"waiting", "cancelled"}
    BY <1>2, <2>4, <1>t DEF Enqueue, TypeOK
  <2> QED
    BY <1>2, <2>1, <2>2, <2>3, <2>5 DEF Enqueue
<1>3. ASSUME NEW c \in Calls, FindClosed(c) PROVE HeldOnce'
  BY <1>3, <1>t DEF FindClosed
<1>4. ASSUME NEW c \in Calls, Cancel(c) PROVE HeldOnce'
  BY <1>4, <1>t DEF Cancel
<1>5. CASE DropHandles
  BY <1>5, <1>t DEF DropHandles, ControlInv
<1>6. CASE SubscribePosition
  BY <1>6, <1>t DEF SubscribePosition, ControlInv
<1>7. CASE EnableRealtime
  BY <1>7, <1>t DEF EnableRealtime, ControlInv
<1>8. CASE SubscribeResponse
  BY <1>8, <1>t DEF SubscribeResponse, ControlInv
<1>9. CASE StartupFails
  BY <1>9, <1>t DEF StartupFails, ControlInv
<1>10. CASE StartQueued
  BY <1>10, <1>t, <1>b DEF StartQueued, ControlInv
<1>11. CASE EnterSelect
  BY <1>11, <1>t DEF EnterSelect, ControlInv
<1>12. CASE ReceiveSend
  BY <1>12, <1>t, <1>a DEF ReceiveSend, Received, ControlInv
<1>13. CASE ReceiveQueryStarts
  BY <1>13, <1>t, <1>a DEF ReceiveQueryStarts, Received, NoQueryOutstanding,
     ControlInv
<1>14. CASE ReceiveQueryQueues
  <2>1. chan # <<>> /\ chan' = Tail(chan) /\ queued' = Append(queued, Head(chan))
    BY <1>14 DEF ReceiveQueryQueues, Received
  <2>2. Head(chan) \notin ToSet(queued)
    BY <2>1, <1>a
  <2>3. ToSet(queued') = ToSet(queued) \cup {Head(chan)} /\ IsInjective(queued')
    BY <2>1, <2>2, <1>a, <1>d
  <2>4. Held' = Held
    BY <1>14, <1>a, <2>1, <2>3 DEF ReceiveQueryQueues
  <2> QED
    BY <1>14, <1>a, <2>1, <2>3, <2>4 DEF ReceiveQueryQueues
<1>15. CASE ReceiveQueryRefused
  BY <1>15, <1>t, <1>a DEF ReceiveQueryRefused, Received, Answer, ControlInv
<1>16. CASE ReceiveSubscribe
  BY <1>16, <1>t, <1>a DEF ReceiveSubscribe, Received, Answer, ControlInv
<1>17. CASE ReceiveShutdown
  BY <1>17, <1>t, <1>a DEF ReceiveShutdown, Received, ControlInv
<1>18. CASE ReceiveNone
  BY <1>18, <1>t DEF ReceiveNone, ControlInv
<1>19. CASE FinishSend
  BY <1>19, <1>t DEF FinishSend, Answer, ControlInv
<1>20. CASE FinishQueryWrite
  BY <1>20, <1>t DEF FinishQueryWrite, ControlInv
<1>21. CASE WriteFails
  BY <1>21, <1>t DEF WriteFails, Answer, ControlInv
<1>22. ASSUME NEW k \in QueryKinds, ReceiveResponse(k) PROVE HeldOnce'
  BY <1>22, <1>t DEF ReceiveResponse, Answer, ControlInv
<1>23. ASSUME NEW k, ReceiveOther(k) PROVE HeldOnce'
  BY <1>23, <1>t DEF ReceiveOther, ControlInv
<1>24. CASE NotificationFails
  BY <1>24, <1>t DEF NotificationFails, ControlInv
<1>25. CASE DeadlinePasses
  BY <1>25, <1>t DEF DeadlinePasses, ControlInv
<1>26. CASE Timeout
  BY <1>26, <1>t DEF Timeout, Answer, ControlInv
<1>27. CASE Announce
  BY <1>27, <1>t DEF Announce, ControlInv
<1>28. CASE Reject
  <2>1. PICK late \in Late :
           /\ chan' = late
           /\ call' = [c \in Calls |-> IF c \in ToSet(late) THEN "waiting"
                                      ELSE AnswerAll(Outstanding, "ShuttingDown")[c]]
    BY <1>28 DEF Reject
  <2>2. /\ IsInjective(chan') /\ NoCall \notin ToSet(chan')
        /\ \A c \in ToSet(chan') : c \in Calls /\ call[c] = "sending"
    BY <2>1, LateFacts
  <2>3. /\ queued' = <<>> /\ ToSet(queued') = {} /\ IsInjective(queued')
        /\ current = NoCall /\ current' = NoCall
        /\ pending' = NoCall /\ shutdownReply' = shutdownReply
    BY <1>28, EmptySet DEF Reject, ControlInv
  <2>4. shutdownReply \notin ToSet(chan')
    BY <2>2
  <2>5. ASSUME NEW c \in Held' PROVE call'[c] \in {"waiting", "cancelled"}
    <3>1. CASE c \in ToSet(chan')
      BY <2>1, <2>2, <3>1
    <3>2. CASE c \notin ToSet(chan')
      <4>1. c = shutdownReply /\ c # NoCall /\ c \in Calls
        BY <2>3, <3>2, <2>5 DEF TypeOK
      <4>2. c \in Held /\ c \notin Outstanding
        BY <4>1 DEF Outstanding
      <4>3. call'[c] = call[c]
        BY <2>1, <3>2, <4>1, <4>2 DEF AnswerAll
      <4> QED
        BY <4>2, <4>3
    <3> QED
      BY <3>1, <3>2
  <2> QED
    BY <2>2, <2>3, <2>4, <2>5
<1>29. CASE UnsubscribeResponse
  BY <1>29, <1>t DEF UnsubscribeResponse, ControlInv
<1>30. CASE UnsubscribePosition
  BY <1>30, <1>t DEF UnsubscribePosition, ControlInv
<1>31. CASE CloseTransport
  BY <1>31, <1>t DEF CloseTransport, ControlInv
<1>32. CASE CleanupFails
  BY <1>32, <1>t DEF CleanupFails, KeepFirst, ControlInv
<1>33. CASE Finish
  BY <1>33, <1>t DEF Finish, ControlInv
<1>34. CASE ReplyShutdown
  <2>1. queued = <<>> /\ current = NoCall /\ pending = NoCall
    BY <1>34 DEF ReplyShutdown, ControlInv, ClosedPoints
  <2>2. Held' = ToSet(chan)
    BY <1>34, <2>1, EmptySet DEF ReplyShutdown
  <2>3. \A c \in ToSet(chan) : c \in Calls /\ c # shutdownReply /\ call[c] \in {"waiting", "cancelled"}
    BY DEF TypeOK, ToSet
  <2>4. \A c \in Held' : call'[c] \in {"waiting", "cancelled"}
    BY <1>34, <2>2, <2>3 DEF ReplyShutdown, AnswerAll
  <2> QED
    BY <1>34, <2>1, <2>4, EmptySet DEF ReplyShutdown
<1>35. CASE Exit
  <2>1. /\ queued = <<>> /\ current = NoCall /\ pending = NoCall
        /\ shutdownReply = NoCall
    BY <1>35 DEF Exit, ControlInv, ClosedPoints, CleanupPoints
  <2>2. Held' = {}
    BY <1>35, <2>1, EmptySet DEF Exit
  <2> QED
    BY <1>35, <2>1, <2>2, EmptySet DEF Exit
<1>36. CASE Abort
  BY <1>36, <1>t, EmptySet DEF Abort, AnswerAll, ControlInv
<1>37. CASE Terminated \/ UNCHANGED vars
  BY <1>37 DEF Terminated, vars
<1> QED
  BY <1>1, <1>2, <1>3, <1>4, <1>5, <1>6, <1>7, <1>8, <1>9, <1>10, <1>11,
     <1>12, <1>13, <1>14, <1>15, <1>16, <1>17, <1>18, <1>19, <1>20, <1>21,
     <1>22, <1>23, <1>24, <1>25, <1>26, <1>27, <1>28, <1>29, <1>30, <1>31,
     <1>32, <1>33, <1>34, <1>35, <1>36, <1>37 DEF Next, Caller, Startup,
     LoopTop, Receive, Write, Notified, Leave


-----------------------------------------------------------------------------
(* What the answers say. *)

\* Every step keeps the errors handed out true.
LEMMA ErrorsAreTrueNext ==
  ASSUME TypeOK, ControlInv, LifecycleInv, ErrorsAreTrue, [Next]_vars
  PROVE  ErrorsAreTrue'
<1> USE ConstantsAssumption DEF ErrorsAreTrue, TypeOK, ControlInv,
        LifecycleInv, ClosedPoints, LoopPoints, StartupPoints, CleanupPoints,
        Ended, FinalStates, LifecycleStates, callVars, chanVars, queryVars,
        transportVars
<1>1. ASSUME NEW c \in Calls, Begin(c) PROVE ErrorsAreTrue'
  <2>1. /\ Checked(lifecycle) = "ActorStopped" => lifecycle \in FinalStates
        /\ Checked(lifecycle) = "ShuttingDown" => lifecycle = "ShuttingDown"
        /\ Checked(lifecycle) # "TransportFailed"
    BY DEF Checked
  <2>2. lifecycle \in FinalStates => ~chanOpen
    BY DEF ActorPoints, AwaitPoints
  <2>3. \A d \in Calls : d # c => call'[d] = call[d]
    BY <1>1 DEF Begin
  <2>4. call'[c] = Checked(lifecycle)
    BY <1>1 DEF Begin
  <2> QED
    BY <1>1, <2>1, <2>2, <2>3, <2>4 DEF Begin
<1>2. ASSUME NEW c \in Calls, Enqueue(c) PROVE ErrorsAreTrue'
  BY <1>2 DEF Enqueue
<1>3. ASSUME NEW c \in Calls, FindClosed(c) PROVE ErrorsAreTrue'
  BY <1>3 DEF FindClosed
<1>4. ASSUME NEW c \in Calls, Cancel(c) PROVE ErrorsAreTrue'
  BY <1>4 DEF Cancel
<1>5. CASE DropHandles
  BY <1>5 DEF DropHandles
<1>6. CASE SubscribePosition
  BY <1>6 DEF SubscribePosition
<1>7. CASE EnableRealtime
  BY <1>7 DEF EnableRealtime
<1>8. CASE SubscribeResponse
  BY <1>8 DEF SubscribeResponse
<1>9. CASE StartupFails
  BY <1>9 DEF StartupFails
<1>10. CASE StartQueued
  BY <1>10 DEF StartQueued
<1>11. CASE EnterSelect
  BY <1>11 DEF EnterSelect
<1>12. CASE ReceiveSend
  BY <1>12 DEF ReceiveSend, Received
<1>13. CASE ReceiveQueryStarts
  BY <1>13 DEF ReceiveQueryStarts, Received, NoQueryOutstanding
<1>14. CASE ReceiveQueryQueues
  BY <1>14 DEF ReceiveQueryQueues, Received
<1>15. CASE ReceiveQueryRefused
  BY <1>15 DEF ReceiveQueryRefused, Received, Answer
<1>16. CASE ReceiveSubscribe
  BY <1>16 DEF ReceiveSubscribe, Received, Answer
<1>17. CASE ReceiveShutdown
  BY <1>17 DEF ReceiveShutdown, Received
<1>18. CASE ReceiveNone
  BY <1>18 DEF ReceiveNone
<1>19. CASE FinishSend
  BY <1>19 DEF FinishSend, Answer
<1>20. CASE FinishQueryWrite
  BY <1>20 DEF FinishQueryWrite
<1>21. CASE WriteFails
  BY <1>21 DEF WriteFails, Answer
<1>22. ASSUME NEW k \in QueryKinds, ReceiveResponse(k) PROVE ErrorsAreTrue'
  BY <1>22 DEF ReceiveResponse, Answer
<1>23. ASSUME NEW k, ReceiveOther(k) PROVE ErrorsAreTrue'
  BY <1>23 DEF ReceiveOther
<1>24. CASE NotificationFails
  BY <1>24 DEF NotificationFails
<1>25. CASE DeadlinePasses
  BY <1>25 DEF DeadlinePasses
<1>26. CASE Timeout
  BY <1>26 DEF Timeout, Answer
<1>27. CASE Announce
  BY <1>27 DEF Announce
<1>28. CASE Reject
  BY <1>28 DEF Reject, AnswerAll
<1>29. CASE UnsubscribeResponse
  BY <1>29 DEF UnsubscribeResponse
<1>30. CASE UnsubscribePosition
  BY <1>30 DEF UnsubscribePosition
<1>31. CASE CloseTransport
  BY <1>31 DEF CloseTransport
<1>32. CASE CleanupFails
  BY <1>32 DEF CleanupFails, KeepFirst
<1>33. CASE Finish
  BY <1>33 DEF Finish
<1>34. CASE ReplyShutdown
  BY <1>34 DEF ReplyShutdown, AnswerAll
<1>35. CASE Exit
  BY <1>35 DEF Exit, AnswerAll
<1>36. CASE Abort
  BY <1>36 DEF Abort, AnswerAll
<1>37. CASE Terminated \/ UNCHANGED vars
  BY <1>37 DEF Terminated, vars
<1> QED
  BY <1>1, <1>2, <1>3, <1>4, <1>5, <1>6, <1>7, <1>8, <1>9, <1>10, <1>11,
     <1>12, <1>13, <1>14, <1>15, <1>16, <1>17, <1>18, <1>19, <1>20, <1>21,
     <1>22, <1>23, <1>24, <1>25, <1>26, <1>27, <1>28, <1>29, <1>30, <1>31,
     <1>32, <1>33, <1>34, <1>35, <1>36, <1>37 DEF Next, Caller, Startup,
     LoopTop, Receive, Write, Notified, Leave

\* Every step keeps the answers to shutdown calls true.
LEMMA ShutdownNext ==
  ASSUME TypeOK, ControlInv, LifecycleInv, ShutdownSeesFinalState, [Next]_vars
  PROVE  ShutdownSeesFinalState'
<1> USE ConstantsAssumption DEF ShutdownSeesFinalState, QueryKinds, TypeOK,
        ControlInv, LifecycleInv, ClosedPoints, LoopPoints, StartupPoints,
        CleanupPoints, Ended, FinalStates, LifecycleStates, callVars,
        chanVars, queryVars, transportVars
<1>1. ASSUME NEW c \in Calls, Begin(c) PROVE ShutdownSeesFinalState'
  BY <1>1 DEF Begin, Checked
<1>2. ASSUME NEW c \in Calls, Enqueue(c) PROVE ShutdownSeesFinalState'
  BY <1>2 DEF Enqueue
<1>3. ASSUME NEW c \in Calls, FindClosed(c) PROVE ShutdownSeesFinalState'
  BY <1>3 DEF FindClosed
<1>4. ASSUME NEW c \in Calls, Cancel(c) PROVE ShutdownSeesFinalState'
  BY <1>4 DEF Cancel
<1>5. CASE DropHandles
  BY <1>5 DEF DropHandles
<1>6. CASE SubscribePosition
  BY <1>6 DEF SubscribePosition
<1>7. CASE EnableRealtime
  BY <1>7 DEF EnableRealtime
<1>8. CASE SubscribeResponse
  BY <1>8 DEF SubscribeResponse
<1>9. CASE StartupFails
  BY <1>9 DEF StartupFails
<1>10. CASE StartQueued
  BY <1>10 DEF StartQueued
<1>11. CASE EnterSelect
  BY <1>11 DEF EnterSelect
<1>12. CASE ReceiveSend
  BY <1>12 DEF ReceiveSend, Received
<1>13. CASE ReceiveQueryStarts
  BY <1>13 DEF ReceiveQueryStarts, Received, NoQueryOutstanding
<1>14. CASE ReceiveQueryQueues
  BY <1>14 DEF ReceiveQueryQueues, Received
<1>15. CASE ReceiveQueryRefused
  BY <1>15 DEF ReceiveQueryRefused, Received, Answer
<1>16. CASE ReceiveSubscribe
  BY <1>16 DEF ReceiveSubscribe, Received, Answer
<1>17. CASE ReceiveShutdown
  BY <1>17 DEF ReceiveShutdown, Received
<1>18. CASE ReceiveNone
  BY <1>18 DEF ReceiveNone
<1>19. CASE FinishSend
  BY <1>19 DEF FinishSend, Answer
<1>20. CASE FinishQueryWrite
  BY <1>20 DEF FinishQueryWrite
<1>21. CASE WriteFails
  BY <1>21 DEF WriteFails, Answer
<1>22. ASSUME NEW k \in QueryKinds, ReceiveResponse(k) PROVE
      ShutdownSeesFinalState'
  BY <1>22 DEF ReceiveResponse, Answer
<1>23. ASSUME NEW k, ReceiveOther(k) PROVE ShutdownSeesFinalState'
  BY <1>23 DEF ReceiveOther
<1>24. CASE NotificationFails
  BY <1>24 DEF NotificationFails
<1>25. CASE DeadlinePasses
  BY <1>25 DEF DeadlinePasses
<1>26. CASE Timeout
  BY <1>26 DEF Timeout, Answer
<1>27. CASE Announce
  BY <1>27 DEF Announce
<1>28. CASE Reject
  BY <1>28 DEF Reject, AnswerAll
<1>29. CASE UnsubscribeResponse
  BY <1>29 DEF UnsubscribeResponse
<1>30. CASE UnsubscribePosition
  BY <1>30 DEF UnsubscribePosition
<1>31. CASE CloseTransport
  BY <1>31 DEF CloseTransport
<1>32. CASE CleanupFails
  BY <1>32 DEF CleanupFails, KeepFirst
<1>33. CASE Finish
  BY <1>33 DEF Finish
<1>34. CASE ReplyShutdown
  BY <1>34 DEF ReplyShutdown, AnswerAll
<1>35. CASE Exit
  BY <1>35 DEF Exit, AnswerAll
<1>36. CASE Abort
  BY <1>36 DEF Abort, AnswerAll
<1>37. CASE Terminated \/ UNCHANGED vars
  BY <1>37 DEF Terminated, vars
<1> QED
  BY <1>1, <1>2, <1>3, <1>4, <1>5, <1>6, <1>7, <1>8, <1>9, <1>10, <1>11,
     <1>12, <1>13, <1>14, <1>15, <1>16, <1>17, <1>18, <1>19, <1>20, <1>21,
     <1>22, <1>23, <1>24, <1>25, <1>26, <1>27, <1>28, <1>29, <1>30, <1>31,
     <1>32, <1>33, <1>34, <1>35, <1>36, <1>37 DEF Next, Caller, Startup,
     LoopTop, Receive, Write, Notified, Leave


-----------------------------------------------------------------------------
(* The invariant holds. *)

\* The initial state satisfies the inductive invariant.
LEMMA IInvInit == Init => IInv
<1> SUFFICES ASSUME Init PROVE IInv
  OBVIOUS
<1>1. TypeOK
  BY TypeInit
<1>2. ControlInv
  <2>1. DOMAIN queued = {}
    BY DEF Init
  <2>2. chanOpen = (pc \notin ClosedPoints) /\ pc \notin ClosedPoints
    BY DEF Init, ClosedPoints, CleanupPoints, Ended
  <2> QED
    BY <2>1, <2>2 DEF Init, ControlInv
<1>3. LifecycleInv /\ TransportInv
  BY DEF Init, LifecycleInv, TransportInv, StartupPoints, LoopPoints, CleanupPoints
<1>4. OneQueryAtATime /\ Bounded
  BY ConstantsAssumption DEF Init, OneQueryAtATime, Bounded
<1>5. NoLostReply
  BY DEF Init, NoLostReply
<1>6. HeldOnce
  <2>1. Held = {}
    BY EmptySet DEF Init, Held
  <2> QED
    BY <2>1, EmptySet DEF Init, HeldOnce
<1>7. ErrorsAreTrue /\ ShutdownSeesFinalState
  BY DEF Init, ErrorsAreTrue, ShutdownSeesFinalState
<1> QED
  BY <1>1, <1>2, <1>3, <1>4, <1>5, <1>6, <1>7 DEF IInv

\* Every step preserves it.
LEMMA IInvNext == IInv /\ [Next]_vars => IInv'
BY TypeNext, ControlInvNext, LifecycleInvNext, TransportInvNext,
   OneQueryAtATimeNext, BoundedNext, NoLostReplyNext, HeldOnceNext,
   ErrorsAreTrueNext, ShutdownNext DEF IInv

\* The inductive invariant holds in every reachable state.
THEOREM Invariance == Spec => []IInv
BY IInvInit, IInvNext, PTL DEF Spec

\* Every variable always holds a value of its type.
THEOREM TypeCorrect == Spec => []TypeOK
<1>1. IInv => TypeOK
  BY DEF IInv
<1> QED
  BY <1>1, Invariance, PTL

\* No caller is ever left waiting for a reply that nobody will send.
THEOREM NoReplyIsLost == Spec => []NoLostReply
<1>1. IInv => NoLostReply
  BY DEF IInv
<1> QED
  BY <1>1, Invariance, PTL

\* No call is answered or written twice: a message is in one place at a time.
THEOREM EveryCallIsHeldOnce == Spec => []HeldOnce
<1>1. IInv => HeldOnce
  BY DEF IInv
<1> QED
  BY <1>1, Invariance, PTL

\* Queries are serialized and the actor is never idle over a queued one.
THEOREM QueriesAreSerialized == Spec => []OneQueryAtATime
<1>1. IInv => OneQueryAtATime
  BY DEF IInv
<1> QED
  BY <1>1, Invariance, PTL

\* Both queues keep to their capacities.
THEOREM QueuesAreBounded == Spec => []Bounded
<1>1. IInv => Bounded
  BY DEF IInv
<1> QED
  BY <1>1, Invariance, PTL

\* Running means an initialised transport with an ordered startup behind it.
THEOREM RunningIsTrue == Spec => []RunningIsInitialised
<1>1. IInv => RunningIsInitialised
  BY DEF IInv, TransportInv, RunningIsInitialised
<1> QED
  BY <1>1, Invariance, PTL

\* The final lifecycle states tell the truth about result and transport.
THEOREM FinalStatesAreTrue == Spec => []FinalStateIsTrue
<1>1. IInv => FinalStateIsTrue
  BY DEF IInv, TypeOK, LifecycleInv, TransportInv, FinalStateIsTrue, ActorPoints,
     AwaitPoints, StartupPoints, CleanupPoints, LoopPoints, Ended, FinalStates
<1> QED
  BY <1>1, Invariance, PTL

\* A shutdown call returns only after the final lifecycle state shows.
THEOREM ShutdownIsTrue == Spec => []ShutdownSeesFinalState
<1>1. IInv => ShutdownSeesFinalState
  BY DEF IInv
<1> QED
  BY <1>1, Invariance, PTL

\* Every error a handle returned is true of the actor.
THEOREM ErrorsTellTheTruth == Spec => []ErrorsAreTrue
<1>1. IInv => ErrorsAreTrue
  BY DEF IInv
<1> QED
  BY <1>1, Invariance, PTL

\* When the actor is over nobody waits for it, and in a final state only the
\* caller of shutdown still may, and a sender whose message came late.
THEOREM NobodyWaits == Spec => []NobodyLeftWaiting
<1>1. ASSUME IInv, NEW c \in Calls, call[c] = "waiting"
      PROVE  /\ pc \notin Ended
             /\ lifecycle \in FinalStates => c \in ToSet(chan) \cup {shutdownReply}
  <2>1. c \in Held
    BY <1>1 DEF IInv, NoLostReply
  <2>2. lifecycle \in FinalStates => pc \in {"reply", "exit", "done"}
    BY <1>1 DEF IInv, TypeOK, LifecycleInv, ActorPoints, AwaitPoints, StartupPoints,
       CleanupPoints, LoopPoints, Ended, FinalStates
  <2>3. ASSUME pc \in Ended \cup {"reply", "exit"}
        PROVE  c \in ToSet(chan) \cup {shutdownReply} /\ c # NoCall
    <3>1. queued = <<>> /\ pending = NoCall /\ current = NoCall
      BY <1>1, <2>3 DEF IInv, ControlInv, ClosedPoints, Ended
    <3> QED
      BY <2>1, <3>1, EmptySet, ConstantsAssumption DEF Held
  <2>4. pc \in Ended => chan = <<>> /\ shutdownReply = NoCall
    BY <1>1 DEF IInv, ControlInv, CleanupPoints, Ended
  <2>5. pc \notin Ended
    BY <2>3, <2>4, EmptySet
  <2> QED
    BY <2>2, <2>3, <2>5 DEF Ended
<1>2. IInv => NobodyLeftWaiting
  BY <1>1 DEF NobodyLeftWaiting
<1> QED
  BY <1>2, Invariance, PTL

\* The actor waits idle only when nobody waits for it.
THEOREM IdleActorOwesNothing == Spec => []IdleOwesNothing
<1>1. ASSUME IInv, pc = "select", pending = NoCall, chan = <<>>
      PROVE  chanOpen /\ \A c \in Calls : call[c] # "waiting"
  <2>1. queued = <<>> /\ current = NoCall /\ shutdownReply = NoCall /\ chanOpen
    BY <1>1 DEF IInv, TypeOK, ControlInv, OneQueryAtATime, ClosedPoints, CleanupPoints, Ended
  <2>2. Held = {}
    BY <1>1, <2>1, EmptySet DEF Held
  <2> QED
    BY <1>1, <2>1, <2>2 DEF IInv, NoLostReply
<1>2. IInv => IdleOwesNothing
  BY <1>1 DEF IdleOwesNothing
<1> QED
  BY <1>2, Invariance, PTL

-----------------------------------------------------------------------------
(* Action properties. *)

\* No step replaces an error.
LEMMA FirstErrorStep ==
  ASSUME IInv, [Next]_vars
  PROVE  [result # "Ok" => result' = result]_vars
<1> USE DEF IInv, LifecycleInv, LoopPoints, StartupPoints, callVars, chanVars,
        queryVars, transportVars
<1>1. ASSUME NEW c \in Calls, Begin(c) PROVE [result # "Ok" => result' =
      result]_vars
  BY <1>1 DEF Begin, Checked
<1>2. ASSUME NEW c \in Calls, Enqueue(c) PROVE [result # "Ok" => result' =
      result]_vars
  BY <1>2 DEF Enqueue
<1>3. ASSUME NEW c \in Calls, FindClosed(c) PROVE [result # "Ok" => result' =
      result]_vars
  BY <1>3 DEF FindClosed
<1>4. ASSUME NEW c \in Calls, Cancel(c) PROVE [result # "Ok" => result' =
      result]_vars
  BY <1>4 DEF Cancel
<1>5. CASE DropHandles
  BY <1>5 DEF DropHandles
<1>6. CASE SubscribePosition
  BY <1>6 DEF SubscribePosition
<1>7. CASE EnableRealtime
  BY <1>7 DEF EnableRealtime
<1>8. CASE SubscribeResponse
  BY <1>8 DEF SubscribeResponse
<1>9. CASE StartupFails
  BY <1>9 DEF StartupFails
<1>10. CASE StartQueued
  BY <1>10 DEF StartQueued
<1>11. CASE EnterSelect
  BY <1>11 DEF EnterSelect
<1>12. CASE ReceiveSend
  BY <1>12 DEF ReceiveSend, Received
<1>13. CASE ReceiveQueryStarts
  BY <1>13 DEF ReceiveQueryStarts, Received, NoQueryOutstanding
<1>14. CASE ReceiveQueryQueues
  BY <1>14 DEF ReceiveQueryQueues, Received
<1>15. CASE ReceiveQueryRefused
  BY <1>15 DEF ReceiveQueryRefused, Received, Answer
<1>16. CASE ReceiveSubscribe
  BY <1>16 DEF ReceiveSubscribe, Received, Answer
<1>17. CASE ReceiveShutdown
  BY <1>17 DEF ReceiveShutdown, Received
<1>18. CASE ReceiveNone
  BY <1>18 DEF ReceiveNone
<1>19. CASE FinishSend
  BY <1>19 DEF FinishSend, Answer
<1>20. CASE FinishQueryWrite
  BY <1>20 DEF FinishQueryWrite
<1>21. CASE WriteFails
  BY <1>21 DEF WriteFails, Answer
<1>22. ASSUME NEW k \in QueryKinds, ReceiveResponse(k) PROVE [result # "Ok" =>
      result' = result]_vars
  BY <1>22 DEF ReceiveResponse, Answer
<1>23. ASSUME NEW k, ReceiveOther(k) PROVE [result # "Ok" => result' =
      result]_vars
  BY <1>23 DEF ReceiveOther
<1>24. CASE NotificationFails
  BY <1>24 DEF NotificationFails
<1>25. CASE DeadlinePasses
  BY <1>25 DEF DeadlinePasses
<1>26. CASE Timeout
  BY <1>26 DEF Timeout, Answer
<1>27. CASE Announce
  BY <1>27 DEF Announce
<1>28. CASE Reject
  BY <1>28 DEF Reject, AnswerAll
<1>29. CASE UnsubscribeResponse
  BY <1>29 DEF UnsubscribeResponse
<1>30. CASE UnsubscribePosition
  BY <1>30 DEF UnsubscribePosition
<1>31. CASE CloseTransport
  BY <1>31 DEF CloseTransport
<1>32. CASE CleanupFails
  BY <1>32 DEF CleanupFails, KeepFirst
<1>33. CASE Finish
  BY <1>33 DEF Finish
<1>34. CASE ReplyShutdown
  BY <1>34 DEF ReplyShutdown, AnswerAll
<1>35. CASE Exit
  BY <1>35 DEF Exit, AnswerAll
<1>36. CASE Abort
  BY <1>36 DEF Abort, AnswerAll
<1>37. CASE Terminated \/ UNCHANGED vars
  BY <1>37 DEF Terminated, vars
<1> QED
  BY <1>1, <1>2, <1>3, <1>4, <1>5, <1>6, <1>7, <1>8, <1>9, <1>10, <1>11,
     <1>12, <1>13, <1>14, <1>15, <1>16, <1>17, <1>18, <1>19, <1>20, <1>21,
     <1>22, <1>23, <1>24, <1>25, <1>26, <1>27, <1>28, <1>29, <1>30, <1>31,
     <1>32, <1>33, <1>34, <1>35, <1>36, <1>37 DEF Next, Caller, Startup,
     LoopTop, Receive, Write, Notified, Leave

\* No step moves the lifecycle backwards or past ShuttingDown.
LEMMA LifecycleAdvances ==
  ASSUME IInv, [Next]_vars
  PROVE  [LifecycleStep]_vars
<1> USE DEF IInv, LifecycleStep, LifecycleInv, CleanupPoints, LoopPoints,
        StartupPoints, callVars, chanVars, queryVars, transportVars
<1>1. ASSUME NEW c \in Calls, Begin(c) PROVE [LifecycleStep]_vars
  BY <1>1 DEF Begin, Checked
<1>2. ASSUME NEW c \in Calls, Enqueue(c) PROVE [LifecycleStep]_vars
  BY <1>2 DEF Enqueue
<1>3. ASSUME NEW c \in Calls, FindClosed(c) PROVE [LifecycleStep]_vars
  BY <1>3 DEF FindClosed
<1>4. ASSUME NEW c \in Calls, Cancel(c) PROVE [LifecycleStep]_vars
  BY <1>4 DEF Cancel
<1>5. CASE DropHandles
  BY <1>5 DEF DropHandles
<1>6. CASE SubscribePosition
  BY <1>6 DEF SubscribePosition
<1>7. CASE EnableRealtime
  BY <1>7 DEF EnableRealtime
<1>8. CASE SubscribeResponse
  BY <1>8 DEF SubscribeResponse
<1>9. CASE StartupFails
  BY <1>9 DEF StartupFails
<1>10. CASE StartQueued
  BY <1>10 DEF StartQueued
<1>11. CASE EnterSelect
  BY <1>11 DEF EnterSelect
<1>12. CASE ReceiveSend
  BY <1>12 DEF ReceiveSend, Received
<1>13. CASE ReceiveQueryStarts
  BY <1>13 DEF ReceiveQueryStarts, Received, NoQueryOutstanding
<1>14. CASE ReceiveQueryQueues
  BY <1>14 DEF ReceiveQueryQueues, Received
<1>15. CASE ReceiveQueryRefused
  BY <1>15 DEF ReceiveQueryRefused, Received, Answer
<1>16. CASE ReceiveSubscribe
  BY <1>16 DEF ReceiveSubscribe, Received, Answer
<1>17. CASE ReceiveShutdown
  BY <1>17 DEF ReceiveShutdown, Received
<1>18. CASE ReceiveNone
  BY <1>18 DEF ReceiveNone
<1>19. CASE FinishSend
  BY <1>19 DEF FinishSend, Answer
<1>20. CASE FinishQueryWrite
  BY <1>20 DEF FinishQueryWrite
<1>21. CASE WriteFails
  BY <1>21 DEF WriteFails, Answer
<1>22. ASSUME NEW k \in QueryKinds, ReceiveResponse(k) PROVE
      [LifecycleStep]_vars
  BY <1>22 DEF ReceiveResponse, Answer
<1>23. ASSUME NEW k, ReceiveOther(k) PROVE [LifecycleStep]_vars
  BY <1>23 DEF ReceiveOther
<1>24. CASE NotificationFails
  BY <1>24 DEF NotificationFails
<1>25. CASE DeadlinePasses
  BY <1>25 DEF DeadlinePasses
<1>26. CASE Timeout
  BY <1>26 DEF Timeout, Answer
<1>27. CASE Announce
  BY <1>27 DEF Announce
<1>28. CASE Reject
  BY <1>28 DEF Reject, AnswerAll
<1>29. CASE UnsubscribeResponse
  BY <1>29 DEF UnsubscribeResponse
<1>30. CASE UnsubscribePosition
  BY <1>30 DEF UnsubscribePosition
<1>31. CASE CloseTransport
  BY <1>31 DEF CloseTransport
<1>32. CASE CleanupFails
  BY <1>32 DEF CleanupFails, KeepFirst
<1>33. CASE Finish
  BY <1>33 DEF Finish
<1>34. CASE ReplyShutdown
  BY <1>34 DEF ReplyShutdown, AnswerAll
<1>35. CASE Exit
  BY <1>35 DEF Exit, AnswerAll
<1>36. CASE Abort
  BY <1>36 DEF Abort, AnswerAll
<1>37. CASE Terminated \/ UNCHANGED vars
  BY <1>37 DEF Terminated, vars
<1> QED
  BY <1>1, <1>2, <1>3, <1>4, <1>5, <1>6, <1>7, <1>8, <1>9, <1>10, <1>11,
     <1>12, <1>13, <1>14, <1>15, <1>16, <1>17, <1>18, <1>19, <1>20, <1>21,
     <1>22, <1>23, <1>24, <1>25, <1>26, <1>27, <1>28, <1>29, <1>30, <1>31,
     <1>32, <1>33, <1>34, <1>35, <1>36, <1>37 DEF Next, Caller, Startup,
     LoopTop, Receive, Write, Notified, Leave

\* No step after the announcement serves a call.
LEMMA ServiceStep ==
  ASSUME IInv, [Next]_vars
  PROVE  [ServedStep]_vars
<1> USE DEF IInv, TypeOK, ServedStep, LifecycleInv, CleanupPoints, LoopPoints,
        StartupPoints, LifecycleStates, FinalStates, callVars, chanVars,
        queryVars, transportVars
<1>1. ASSUME NEW c \in Calls, Begin(c) PROVE [ServedStep]_vars
  BY <1>1 DEF Begin, Checked
<1>2. ASSUME NEW c \in Calls, Enqueue(c) PROVE [ServedStep]_vars
  BY <1>2 DEF Enqueue
<1>3. ASSUME NEW c \in Calls, FindClosed(c) PROVE [ServedStep]_vars
  BY <1>3 DEF FindClosed
<1>4. ASSUME NEW c \in Calls, Cancel(c) PROVE [ServedStep]_vars
  BY <1>4 DEF Cancel
<1>5. CASE DropHandles
  BY <1>5 DEF DropHandles
<1>6. CASE SubscribePosition
  BY <1>6 DEF SubscribePosition
<1>7. CASE EnableRealtime
  BY <1>7 DEF EnableRealtime
<1>8. CASE SubscribeResponse
  BY <1>8 DEF SubscribeResponse
<1>9. CASE StartupFails
  BY <1>9 DEF StartupFails
<1>10. CASE StartQueued
  BY <1>10 DEF StartQueued
<1>11. CASE EnterSelect
  BY <1>11 DEF EnterSelect
<1>12. CASE ReceiveSend
  BY <1>12 DEF ReceiveSend, Received
<1>13. CASE ReceiveQueryStarts
  BY <1>13 DEF ReceiveQueryStarts, Received, NoQueryOutstanding
<1>14. CASE ReceiveQueryQueues
  BY <1>14 DEF ReceiveQueryQueues, Received
<1>15. CASE ReceiveQueryRefused
  BY <1>15 DEF ReceiveQueryRefused, Received, Answer
<1>16. CASE ReceiveSubscribe
  BY <1>16 DEF ReceiveSubscribe, Received, Answer
<1>17. CASE ReceiveShutdown
  BY <1>17 DEF ReceiveShutdown, Received
<1>18. CASE ReceiveNone
  BY <1>18 DEF ReceiveNone
<1>19. CASE FinishSend
  BY <1>19 DEF FinishSend, Answer
<1>20. CASE FinishQueryWrite
  BY <1>20 DEF FinishQueryWrite
<1>21. CASE WriteFails
  BY <1>21 DEF WriteFails, Answer
<1>22. ASSUME NEW k \in QueryKinds, ReceiveResponse(k) PROVE [ServedStep]_vars
  BY <1>22 DEF ReceiveResponse, Answer
<1>23. ASSUME NEW k, ReceiveOther(k) PROVE [ServedStep]_vars
  BY <1>23 DEF ReceiveOther
<1>24. CASE NotificationFails
  BY <1>24 DEF NotificationFails
<1>25. CASE DeadlinePasses
  BY <1>25 DEF DeadlinePasses
<1>26. CASE Timeout
  BY <1>26 DEF Timeout, Answer
<1>27. CASE Announce
  BY <1>27 DEF Announce
<1>28. CASE Reject
  BY <1>28 DEF Reject, AnswerAll
<1>29. CASE UnsubscribeResponse
  BY <1>29 DEF UnsubscribeResponse
<1>30. CASE UnsubscribePosition
  BY <1>30 DEF UnsubscribePosition
<1>31. CASE CloseTransport
  BY <1>31 DEF CloseTransport
<1>32. CASE CleanupFails
  BY <1>32 DEF CleanupFails, KeepFirst
<1>33. CASE Finish
  BY <1>33 DEF Finish
<1>34. CASE ReplyShutdown
  BY <1>34 DEF ReplyShutdown, AnswerAll
<1>35. CASE Exit
  BY <1>35 DEF Exit, AnswerAll
<1>36. CASE Abort
  BY <1>36 DEF Abort, AnswerAll
<1>37. CASE Terminated \/ UNCHANGED vars
  BY <1>37 DEF Terminated, vars
<1> QED
  BY <1>1, <1>2, <1>3, <1>4, <1>5, <1>6, <1>7, <1>8, <1>9, <1>10, <1>11,
     <1>12, <1>13, <1>14, <1>15, <1>16, <1>17, <1>18, <1>19, <1>20, <1>21,
     <1>22, <1>23, <1>24, <1>25, <1>26, <1>27, <1>28, <1>29, <1>30, <1>31,
     <1>32, <1>33, <1>34, <1>35, <1>36, <1>37 DEF Next, Caller, Startup,
     LoopTop, Receive, Write, Notified, Leave

\* No step refuses a query without a full queue behind an active query.
LEMMA RefusalNext ==
  ASSUME IInv, [Next]_vars
  PROVE  [RefusalStep]_vars
<1> USE DEF IInv, TypeOK, RefusalStep, FinalStates, LifecycleStates, callVars,
        chanVars, queryVars, transportVars
<1>1. ASSUME NEW c \in Calls, Begin(c) PROVE [RefusalStep]_vars
  BY <1>1 DEF Begin, Checked
<1>2. ASSUME NEW c \in Calls, Enqueue(c) PROVE [RefusalStep]_vars
  BY <1>2 DEF Enqueue
<1>3. ASSUME NEW c \in Calls, FindClosed(c) PROVE [RefusalStep]_vars
  BY <1>3 DEF FindClosed
<1>4. ASSUME NEW c \in Calls, Cancel(c) PROVE [RefusalStep]_vars
  BY <1>4 DEF Cancel
<1>5. CASE DropHandles
  BY <1>5 DEF DropHandles
<1>6. CASE SubscribePosition
  BY <1>6 DEF SubscribePosition
<1>7. CASE EnableRealtime
  BY <1>7 DEF EnableRealtime
<1>8. CASE SubscribeResponse
  BY <1>8 DEF SubscribeResponse
<1>9. CASE StartupFails
  BY <1>9 DEF StartupFails
<1>10. CASE StartQueued
  BY <1>10 DEF StartQueued
<1>11. CASE EnterSelect
  BY <1>11 DEF EnterSelect
<1>12. CASE ReceiveSend
  BY <1>12 DEF ReceiveSend, Received
<1>13. CASE ReceiveQueryStarts
  BY <1>13 DEF ReceiveQueryStarts, Received, NoQueryOutstanding
<1>14. CASE ReceiveQueryQueues
  BY <1>14 DEF ReceiveQueryQueues, Received
<1>15. CASE ReceiveQueryRefused
  <2>1. ~(Len(queued) < QueryCapacity) /\ Len(queued) <= QueryCapacity /\ Len(queued) \in Nat
    BY <1>15 DEF ReceiveQueryRefused, QueueHasRoom, Bounded
  <2>2. Len(queued) = QueryCapacity
    BY <2>1, ConstantsAssumption
  <2>3. pending # NoCall
    BY <1>15 DEF ReceiveQueryRefused, Received, NoQueryOutstanding, OneQueryAtATime
  <2> QED
    BY <2>2, <2>3
<1>16. CASE ReceiveSubscribe
  BY <1>16 DEF ReceiveSubscribe, Received, Answer
<1>17. CASE ReceiveShutdown
  BY <1>17 DEF ReceiveShutdown, Received
<1>18. CASE ReceiveNone
  BY <1>18 DEF ReceiveNone
<1>19. CASE FinishSend
  BY <1>19 DEF FinishSend, Answer
<1>20. CASE FinishQueryWrite
  BY <1>20 DEF FinishQueryWrite
<1>21. CASE WriteFails
  BY <1>21 DEF WriteFails, Answer
<1>22. ASSUME NEW k \in QueryKinds, ReceiveResponse(k) PROVE
      [RefusalStep]_vars
  BY <1>22 DEF ReceiveResponse, Answer
<1>23. ASSUME NEW k, ReceiveOther(k) PROVE [RefusalStep]_vars
  BY <1>23 DEF ReceiveOther
<1>24. CASE NotificationFails
  BY <1>24 DEF NotificationFails
<1>25. CASE DeadlinePasses
  BY <1>25 DEF DeadlinePasses
<1>26. CASE Timeout
  BY <1>26 DEF Timeout, Answer
<1>27. CASE Announce
  BY <1>27 DEF Announce
<1>28. CASE Reject
  BY <1>28 DEF Reject, AnswerAll
<1>29. CASE UnsubscribeResponse
  BY <1>29 DEF UnsubscribeResponse
<1>30. CASE UnsubscribePosition
  BY <1>30 DEF UnsubscribePosition
<1>31. CASE CloseTransport
  BY <1>31 DEF CloseTransport
<1>32. CASE CleanupFails
  BY <1>32 DEF CleanupFails, KeepFirst
<1>33. CASE Finish
  BY <1>33 DEF Finish
<1>34. CASE ReplyShutdown
  BY <1>34 DEF ReplyShutdown, AnswerAll
<1>35. CASE Exit
  BY <1>35 DEF Exit, AnswerAll
<1>36. CASE Abort
  BY <1>36 DEF Abort, AnswerAll
<1>37. CASE Terminated \/ UNCHANGED vars
  BY <1>37 DEF Terminated, vars
<1> QED
  BY <1>1, <1>2, <1>3, <1>4, <1>5, <1>6, <1>7, <1>8, <1>9, <1>10, <1>11,
     <1>12, <1>13, <1>14, <1>15, <1>16, <1>17, <1>18, <1>19, <1>20, <1>21,
     <1>22, <1>23, <1>24, <1>25, <1>26, <1>27, <1>28, <1>29, <1>30, <1>31,
     <1>32, <1>33, <1>34, <1>35, <1>36, <1>37 DEF Next, Caller, Startup,
     LoopTop, Receive, Write, Notified, Leave


\* The first error is the one the exit reports.
THEOREM FirstErrorIsKept == Spec => FirstErrorKept
BY FirstErrorStep, Invariance, PTL DEF Spec, FirstErrorKept

\* The lifecycle only moves forward.
THEOREM LifecycleMovesForward == Spec => LifecycleForward
BY LifecycleAdvances, Invariance, PTL DEF Spec, LifecycleForward

\* Nothing but the accepted shutdown succeeds once shutdown is announced.
THEOREM NoServiceAfterAnnounce == Spec => NothingServedAfterAnnounce
BY ServiceStep, Invariance, PTL DEF Spec, NothingServedAfterAnnounce

\* A query is refused only for a full queue.
THEOREM RefusalsAreFair == Spec => RefusedOnlyWhenFull
BY RefusalNext, Invariance, PTL DEF Spec, RefusedOnlyWhenFull

-----------------------------------------------------------------------------
(* The way to the end. *)

\* How many steps of its own the actor may still take, the rounds of the loop
\* counted as one.
Remaining ==
  [p \in ActorPoints |->
     CASE p = "subscribePosition"   -> 12
       [] p = "enableRealtime"      -> 11
       [] p = "subscribeResponse"   -> 10
       [] p \in LoopPoints          -> 9
       [] p = "announce"            -> 8
       [] p = "reject"              -> 7
       [] p = "unsubscribeResponse" -> 6
       [] p = "unsubscribePosition" -> 5
       [] p = "close"               -> 4
       [] p = "finish"              -> 3
       [] p = "reply"               -> 2
       [] p = "exit"                -> 1
       [] p \in Ended               -> 0]

OneWay ==
  /\ Remaining[pc'] <= Remaining[pc]
  /\ pc \notin LoopPoints => pc' = pc \/ Remaining[pc'] < Remaining[pc]

LEMMA OneWayStep == TypeOK /\ [Next]_vars => [OneWay]_vars
<1> SUFFICES ASSUME TypeOK, Next PROVE OneWay
  OBVIOUS
<1> USE DEF OneWay, Remaining, LoopPoints, ActorPoints, AwaitPoints, StartupPoints, CleanupPoints, Ended
<1>1. CASE UNCHANGED pc
  BY <1>1 DEF TypeOK
<1>2. CASE Startup
  BY <1>2 DEF Startup, SubscribePosition, EnableRealtime, SubscribeResponse, StartupFails
<1>3. CASE LoopTop \/ Write
  BY <1>3 DEF LoopTop, StartQueued, EnterSelect, Write, FinishSend, FinishQueryWrite, WriteFails
<1>4. CASE Receive
  BY <1>4 DEF Receive, ReceiveSend, ReceiveQueryStarts, ReceiveQueryQueues, ReceiveQueryRefused,
         ReceiveSubscribe, ReceiveShutdown, ReceiveNone, Received
<1>5. CASE Notified \/ Timeout
  BY <1>5 DEF Notified, ReceiveResponse, ReceiveOther, NotificationFails, Timeout
<1>6. CASE Leave
  BY <1>6 DEF Leave, Announce, Reject, UnsubscribeResponse, UnsubscribePosition, CloseTransport,
         CleanupFails, Finish, ReplyShutdown, Exit
<1>7. CASE Abort
  BY <1>7 DEF Abort
<1>8. (\E c \in Calls : Caller(c)) \/ DropHandles \/ DeadlinePasses \/ Terminated => UNCHANGED pc
  BY DEF Caller, Begin, Enqueue, FindClosed, Cancel, DropHandles, DeadlinePasses, Terminated, vars
<1> QED
  BY <1>1, <1>2, <1>3, <1>4, <1>5, <1>6, <1>7, <1>8 DEF Next

\* The actor never goes back: startup runs once, no cleanup operation is tried twice,
\* and from the end of the loop eight steps of its own lead to its end, whatever
\* fails and whatever the callers do meanwhile.
THEOREM EndIsNear == Spec => [][OneWay]_vars
<1>1. IInv => TypeOK
  BY DEF IInv
<1> QED
  BY <1>1, OneWayStep, Invariance, PTL DEF Spec

-----------------------------------------------------------------------------
(* The order of service. *)

\* The places between the channel and the response.
InLine(c) == c \in {pending, current} \cup ToSet(queued) \cup ToSet(chan)

\* Of two queries in the line, only one is ahead of the other.
AheadOnce ==
  \A c, d \in Calls : Ahead(c, d) => ~Ahead(d, c) /\ InLine(c) /\ InLine(d)

LEMMA LineOrdered == IInv => AheadOnce
<1> SUFFICES ASSUME IInv, NEW c \in Calls, NEW d \in Calls, Ahead(c, d)
             PROVE  ~Ahead(d, c) /\ InLine(c) /\ InLine(d)
  BY DEF AheadOnce
<1>1. /\ chan \in Seq(Calls) /\ queued \in Seq(Calls) /\ IsInjective(chan) /\ IsInjective(queued)
      /\ ToSet(chan) \cap ToSet(queued) = {}
      /\ current # NoCall => current \notin ToSet(chan) \cup ToSet(queued) /\ current # pending
      /\ pending # NoCall => pending \notin ToSet(chan) \cup ToSet(queued)
  BY DEF IInv, TypeOK, HeldOnce
<1>2. c # NoCall /\ d # NoCall
  BY ConstantsAssumption
<1>3. /\ InOrder(chan, c, d) => ~InOrder(chan, d, c) /\ c \in ToSet(chan) /\ d \in ToSet(chan)
      /\ InOrder(queued, c, d) => ~InOrder(queued, d, c) /\ c \in ToSet(queued) /\ d \in ToSet(queued)
      /\ InOrder(chan, d, c) => c \in ToSet(chan) /\ d \in ToSet(chan)
      /\ InOrder(queued, d, c) => c \in ToSet(queued) /\ d \in ToSet(queued)
  BY <1>1, OrderTotal, OrderFacts
<1>4. InLine(c) /\ InLine(d)
  BY <1>3 DEF Ahead, InLine
<1>5. ~Ahead(d, c)
  BY <1>1, <1>2, <1>3 DEF Ahead
<1> QED
  BY <1>4, <1>5

\* The order is kept, or one of the two has left the line.
Kept(c, d) == Ahead(c, d)' \/ ~InLine(c)' \/ ~InLine(d)'

LEMMA OrderKept ==
  ASSUME IInv, Next, NEW c \in Calls, NEW d \in Calls, Ahead(c, d)
  PROVE  Kept(c, d)
<1>a. /\ chan \in Seq(Calls) /\ queued \in Seq(Calls)
      /\ ToSet(chan) \cap ToSet(queued) = {}
      /\ current # NoCall => current \notin ToSet(chan) \cup ToSet(queued) /\ current # pending
      /\ pending # NoCall => pending \notin ToSet(chan) \cup ToSet(queued)
      /\ c # NoCall /\ d # NoCall /\ IsQuery(c) /\ IsQuery(d)
  BY ConstantsAssumption DEF IInv, TypeOK, HeldOnce, Ahead
<1>b. chan # <<>> =>
        /\ ToSet(chan) = {Head(chan)} \cup ToSet(Tail(chan)) /\ Head(chan) \notin ToSet(Tail(chan))
        /\ Head(chan) \in Calls
        /\ InOrder(chan, c, d) => (c = Head(chan) /\ d \in ToSet(Tail(chan))) \/ InOrder(Tail(chan), c, d)
  BY TakeHead, OrderTail DEF IInv, TypeOK, HeldOnce
<1>c. queued # <<>> =>
        /\ ToSet(queued) = {Head(queued)} \cup ToSet(Tail(queued))
        /\ Head(queued) \in Calls
        /\ InOrder(queued, c, d) =>
              (c = Head(queued) /\ d \in ToSet(Tail(queued))) \/ InOrder(Tail(queued), c, d)
  BY TakeHead, OrderTail DEF IInv, TypeOK, HeldOnce
<1>d. current # NoCall <=> pc = "write"
  BY DEF IInv, ControlInv
<1>e. InLine(c) /\ InLine(d)
  BY LineOrdered DEF AheadOnce
<1>1. CASE UNCHANGED <<chanVars, queryVars>>
  BY <1>1 DEF Kept, Ahead, chanVars, queryVars
<1>2. ASSUME NEW x \in Calls, Enqueue(x) PROVE Kept(c, d)
  <2>1. /\ InOrder(chan, c, d) => InOrder(Append(chan, x), c, d)
        /\ ToSet(Append(chan, x)) = ToSet(chan) \cup {x}
    BY <1>a, OrderAppend, AddLast
  <2> QED
    BY <1>2, <2>1 DEF Enqueue, Kept, Ahead, queryVars
<1>3. CASE StartQueued
  BY <1>3, <1>a, <1>c, <1>d DEF StartQueued, Kept, Ahead, chanVars
<1>4. CASE ReceiveSend
  <2>1. Head(chan) # c /\ Head(chan) # d
    BY <1>4, <1>a DEF ReceiveSend, Received, IsQuery, QueryKinds
  <2> QED
    BY <1>4, <1>a, <1>b, <1>d, <2>1 DEF ReceiveSend, Received, Kept, Ahead
<1>5. CASE ReceiveQueryStarts
  <2>1. ToSet(queued) = {}
    BY <1>5, EmptySet DEF ReceiveQueryStarts, NoQueryOutstanding
  <2>2. ~InOrder(queued, c, d)
    BY <2>1, OrderFacts
  <2> QED
    BY <1>5, <1>a, <1>b, <1>d, <2>1, <2>2 DEF ReceiveQueryStarts, NoQueryOutstanding, Received, Kept, Ahead
<1>6. CASE ReceiveQueryQueues
  <2> DEFINE x == Head(chan)
  <2>1. /\ chan # <<>> /\ x \in Calls /\ chan' = Tail(chan) /\ queued' = Append(queued, x)
        /\ UNCHANGED <<pending, current>> /\ current = NoCall
    BY <1>6, <1>b, <1>d DEF ReceiveQueryQueues, Received
  <2> HIDE DEF x
  <2>2. /\ InOrder(queued, c, d) => InOrder(queued', c, d)
        /\ c \in ToSet(queued) => InOrder(queued', c, x)
        /\ ToSet(queued') = ToSet(queued) \cup {x}
    BY <1>a, <2>1, OrderAppend, AddLast
  <2> QED
    BY <1>a, <1>b, <2>1, <2>2 DEF Kept, Ahead, x
<1>7. CASE ReceiveQueryRefused \/ ReceiveSubscribe \/ ReceiveShutdown
  <2>1. /\ chan # <<>> /\ chan' = Tail(chan) /\ UNCHANGED <<pending, current, queued>>
    BY <1>7 DEF ReceiveQueryRefused, ReceiveSubscribe, ReceiveShutdown, Received, queryVars
  <2>2. CASE Head(chan) \in {c, d}
    <3>1. /\ Head(chan) \notin ToSet(chan') \cup ToSet(queued')
          /\ Head(chan) # pending' /\ Head(chan) # current'
      BY <1>a, <1>b, <2>1, <2>2
    <3> QED
      BY <2>2, <3>1 DEF Kept, InLine
  <2>3. CASE Head(chan) \notin {c, d}
    BY <1>b, <2>1, <2>3 DEF Kept, Ahead
  <2> QED
    BY <2>2, <2>3
<1>8. CASE FinishSend \/ WriteFails
  <2>1. current # NoCall /\ current' = NoCall /\ UNCHANGED <<pending, queued, chan>>
    BY <1>8, <1>d DEF FinishSend, WriteFails, chanVars
  <2>2. CASE current \in {c, d}
    BY <1>a, <2>1, <2>2 DEF Kept, InLine
  <2>3. CASE current \notin {c, d}
    BY <2>1, <2>3 DEF Kept, Ahead
  <2> QED
    BY <2>2, <2>3
<1>9. CASE FinishQueryWrite
  <2>1. /\ current # NoCall /\ pending = NoCall /\ pending' = current
        /\ current' = NoCall /\ UNCHANGED <<queued, chan>>
    BY <1>9, <1>d DEF FinishQueryWrite, chanVars, IInv, OneQueryAtATime
  <2> QED
    BY <1>a, <2>1 DEF Kept, Ahead
<1>10. CASE Timeout \/ \E k \in QueryKinds : ReceiveResponse(k)
  <2>1. pending # NoCall /\ pending' = NoCall /\ UNCHANGED <<current, queued, chan>>
    BY <1>10 DEF Timeout, ReceiveResponse, chanVars
  <2>2. CASE pending \in {c, d}
    BY <1>a, <2>1, <2>2 DEF Kept, InLine
  <2>3. CASE pending \notin {c, d}
    BY <2>1, <2>3 DEF Kept, Ahead
  <2> QED
    BY <2>2, <2>3
<1>11. CASE Reject
  <2>1. PICK late \in Late : chan' = late
    BY <1>11 DEF Reject
  <2>2. queued' = <<>> /\ pending' = NoCall /\ current' = current /\ current = NoCall
    BY <1>11, <1>d DEF Reject
  <2>3. c \notin ToSet(late)
    <3>1. c \in Held
      BY <1>a, <1>e DEF InLine, Held
    <3>2. call[c] # "sending"
      BY <3>1 DEF IInv, HeldOnce
    <3> QED
      BY <3>2, LateFacts DEF IInv
  <2> QED
    BY <1>a, <2>1, <2>2, <2>3, EmptySet DEF Kept, InLine
<1>12. CASE Exit
  <2>1. queued = <<>> /\ pending = NoCall /\ current = NoCall
    BY <1>12, <1>d DEF Exit, IInv, ControlInv, ClosedPoints
  <2> QED
    BY <1>12, <1>a, <2>1, EmptySet DEF Exit, Kept, InLine, queryVars
<1>13. CASE Abort
  BY <1>13, <1>a, EmptySet DEF Abort, Kept, InLine
<1>14. \A x \in Calls : Begin(x) \/ FindClosed(x) \/ Cancel(x) => UNCHANGED <<chanVars, queryVars>>
  BY DEF Begin, FindClosed, Cancel
<1>15. DropHandles \/ Startup \/ EnterSelect \/ ReceiveNone \/ NotificationFails
         \/ Terminated => UNCHANGED <<chanVars, queryVars>>
  BY DEF DropHandles, Startup, SubscribePosition, EnableRealtime, SubscribeResponse, StartupFails,
         EnterSelect, ReceiveNone, NotificationFails, Terminated, vars
<1>16. \A k : ReceiveOther(k) => UNCHANGED <<chanVars, queryVars>>
  BY DEF ReceiveOther
<1>17. Announce \/ UnsubscribeResponse \/ UnsubscribePosition \/ CloseTransport \/ CleanupFails
         \/ Finish \/ ReplyShutdown => UNCHANGED <<chanVars, queryVars>>
  BY DEF Announce, UnsubscribeResponse, UnsubscribePosition, CloseTransport, CleanupFails,
         Finish, ReplyShutdown
<1>18. CASE DeadlinePasses
  BY <1>18 DEF DeadlinePasses, Kept, Ahead, chanVars
<1> QED
  BY <1>1, <1>2, <1>3, <1>4, <1>5, <1>6, <1>7, <1>8, <1>9, <1>10, <1>11, <1>12, <1>13, <1>14,
     <1>15, <1>16, <1>17, <1>18, Zenon
     DEF Next, Caller, LoopTop, Receive, Write, Notified, Leave

\* Only a response that answers the active query completes a query.
LEMMA QueryCompleted ==
  ASSUME IInv, Next, NEW d \in Calls, IsQuery(d), d # pending, call'[d] = "Ok"
  PROVE  call[d] = "Ok"
<1> USE DEF IInv, TypeOK
<1>1. ASSUME UNCHANGED call PROVE call[d] = "Ok"
  BY <1>1
<1>2. ASSUME NEW e \in Calls, Caller(e) PROVE call[d] = "Ok"
  BY <1>2 DEF Caller, Begin, Checked, FinalStates, LifecycleStates, Enqueue, FindClosed, Cancel
<1>3. ASSUME NEW e, NEW r, call' = Answer(e, r), r # "Ok" \/ e # d PROVE call[d] = "Ok"
  BY <1>3 DEF Answer
<1>4. ASSUME NEW S, NEW r, call' = AnswerAll(S, r), r # "Ok" \/ d \notin S PROVE call[d] = "Ok"
  BY <1>4 DEF AnswerAll
<1>5. CASE Reject
  <2>1. PICK late \in Late :
           call' = [c \in Calls |-> IF c \in ToSet(late) THEN "waiting"
                                    ELSE AnswerAll(Outstanding, "ShuttingDown")[c]]
    BY <1>5 DEF Reject
  <2> QED
    BY <2>1 DEF AnswerAll
<1>6. CASE FinishSend \/ ReceiveSubscribe
  <2>1. PICK e : call' = Answer(e, "Ok") /\ Kind[e] \notin QueryKinds
    BY <1>6 DEF FinishSend, ReceiveSubscribe, Received, QueryKinds
  <2> QED
    BY <2>1, <1>3 DEF IsQuery
<1>7. CASE WriteFails \/ ReceiveQueryRefused \/ Timeout
  BY <1>7, <1>3 DEF WriteFails, ReceiveQueryRefused, Timeout
<1>8. ASSUME NEW k, ReceiveResponse(k) PROVE call[d] = "Ok"
  BY <1>8, <1>3 DEF ReceiveResponse
<1>9. CASE ReplyShutdown
  <2>1. shutdownReply # d
    BY ConstantsAssumption DEF ControlInv, IsQuery, QueryKinds
  <2> QED
    BY <1>9, <2>1, <1>4 DEF ReplyShutdown
<1>10. CASE Exit \/ Abort
  BY <1>10, <1>4 DEF Exit, Abort
<1>11. DropHandles \/ Startup \/ LoopTop \/ ReceiveSend \/ ReceiveQueryStarts \/ ReceiveQueryQueues
         \/ ReceiveShutdown \/ ReceiveNone => UNCHANGED call
  BY DEF DropHandles, Startup, SubscribePosition, EnableRealtime, SubscribeResponse, StartupFails,
         LoopTop, StartQueued, EnterSelect, ReceiveSend, ReceiveQueryStarts, ReceiveQueryQueues,
         ReceiveShutdown, ReceiveNone, callVars
<1>12. FinishQueryWrite \/ NotificationFails \/ DeadlinePasses \/ Terminated
         \/ Announce \/ UnsubscribeResponse \/ UnsubscribePosition \/ CloseTransport \/ CleanupFails
         \/ Finish => UNCHANGED call
  BY DEF FinishQueryWrite, NotificationFails, DeadlinePasses, Terminated, Announce,
         UnsubscribeResponse, UnsubscribePosition, CloseTransport, CleanupFails, Finish, callVars, vars
<1>13. \A k : ReceiveOther(k) => UNCHANGED call
  BY DEF ReceiveOther, callVars
<1> QED
  BY <1>1, <1>2, <1>5, <1>6, <1>7, <1>8, <1>9, <1>10, <1>11, <1>12, <1>13, Zenon
     DEF Next, Receive, Write, Notified, Leave

LEMMA OrderNext == IInv /\ AheadOnce' /\ [Next]_vars => [OrderStep]_vars
<1> SUFFICES ASSUME IInv, AheadOnce', Next, NEW c \in Calls, NEW d \in Calls, Ahead(c, d)
             PROVE  ~Ahead(d, c)' /\ (call'[d] = "Ok" => call[d] = "Ok")
  BY DEF OrderStep
<1>1. ~Ahead(d, c)'
  <2>1. Kept(c, d)
    BY OrderKept
  <2>2. Ahead(d, c)' => ~Ahead(c, d)' /\ InLine(c)' /\ InLine(d)'
    BY DEF AheadOnce
  <2> QED
    BY <2>1, <2>2 DEF Kept
<1>2. d # pending /\ IsQuery(d)
  <2>1. /\ pending # NoCall => pending \notin ToSet(chan) \cup ToSet(queued) /\ pending # current
    BY DEF IInv, HeldOnce
  <2> QED
    BY <2>1, OrderFacts, ConstantsAssumption DEF Ahead
<1> QED
  BY <1>1, <1>2, QueryCompleted

\* Queries are served in the order in which the channel accepted them.
THEOREM ServedInOrder == Spec => QueriesInOrder
BY LineOrdered, OrderNext, Invariance, PTL DEF Spec, QueriesInOrder

-----------------------------------------------------------------------------
(* TokioActor implements BoardService, for every value of the constants: each *)
(* step of the actor or of a handle is a step of the service, or changes      *)
(* nothing that its callers can see.                                          *)

\* What a step of the actor has to be for its callers.
Refined == [Service!Next]_(Service!serviceVars)

Serving == lifecycle \in {"Starting", "Running"}

-----------------------------------------------------------------------------
(* The refinement mapping. *)

\* The initial state is an initial state of the service.
LEMMA ServiceInit == Init => Service!Init
BY DEF Init, Service!Init, PublicCall, Phase, InProgress

\* The phase of a type-correct state.
LEMMA PhaseValue ==
  ASSUME TypeOK
  PROVE  /\ pc = "aborted" => Phase = "gone"
         /\ pc # "aborted" =>
              /\ Serving => Phase = "open"
              /\ lifecycle = "ShuttingDown" => Phase = "closing"
              /\ lifecycle = "Stopped" => Phase = "stopped"
              /\ lifecycle = "Faulted" => Phase = "faulted"
BY DEF Phase, Serving, TypeOK, LifecycleStates

\* What callers see of one call.
LEMMA PublicValue ==
  /\ \A c \in Calls : PublicCall[c] = IF call[c] \in InProgress THEN "pending" ELSE call[c]
  /\ TypeOK => \A c \in Calls : PublicCall[c] = "pending" <=> call[c] \in InProgress
BY DEF PublicCall, TypeOK, CallStates, InProgress, Returned, HandleErrors

\* A step that neither aborts the actor nor changes a call, and leaves the phase,
\* is invisible.
LEMMA StutterRefines ==
  ASSUME TypeOK, TypeOK',
         pc' = "aborted" <=> pc = "aborted",
         Serving' <=> Serving,
         ~Serving => lifecycle' = lifecycle,
         handles' = handles,
         call' = call
  PROVE  Refined
<1>1. PublicCall' = PublicCall
  BY DEF PublicCall
<1>2. Phase' = Phase
  <2>1. CASE Serving
    BY <2>1 DEF Phase, Serving
  <2>2. CASE ~Serving
    BY <2>2 DEF Phase, Serving
  <2> QED
    BY <2>1, <2>2
<1> QED
  BY <1>1, <1>2 DEF Refined, Service!serviceVars

\* Every kind of call has its outcomes, and an outcome is not a call in progress.
LEMMA OutcomeFacts ==
  ASSUME NEW k \in Kinds
  PROVE  /\ k = "send" => Service!Outcomes(k) = {"Ok", "TransportFailed"}
         /\ k \in QueryKinds => Service!Outcomes(k) =
               {"Ok", "TransportFailed", "RequestTimedOut", "QueryQueueFull"}
         /\ k = "subscribe" => Service!Outcomes(k) = {"Ok"}
BY DEF Kinds, QueryKinds, Service!Outcomes

\* Answering one call while the service is open serves it, or is invisible because
\* the caller has gone.
LEMMA ServeRefines ==
  ASSUME TypeOK, TypeOK', NEW c \in Calls,
         NEW r \in Returned, r \in Service!Outcomes(Kind[c]),
         call' = Answer(c, r), handles' = handles,
         pc # "aborted", pc' # "aborted", Serving, lifecycle' = lifecycle
  PROVE  Refined
<1>1. CASE call[c] = "waiting"
  <2>1. call' = [call EXCEPT ![c] = r] /\ r \notin InProgress
    BY <1>1 DEF Answer, TypeOK, Returned, HandleErrors, InProgress
  <2>2. PublicCall' = [PublicCall EXCEPT ![c] = r]
    BY <2>1 DEF PublicCall, TypeOK
  <2>3. PublicCall[c] = "pending"
    BY <1>1 DEF PublicCall, InProgress
  <2>4. Phase = "open" /\ Phase' = Phase
    BY PhaseValue DEF Phase, Serving
  <2>5. Service!Serve(c)
    BY <2>2, <2>3, <2>4 DEF Service!Serve
  <2> QED
    BY <2>5 DEF Refined, Service!Next
<1>2. CASE call[c] # "waiting"
  <2>1. call' = call
    BY <1>2 DEF Answer, TypeOK
  <2> QED
    BY <2>1, StutterRefines DEF Serving
<1> QED
  BY <1>1, <1>2

\* Some calls in progress get an error, and no other changes for its caller.
LEMMA FailSomeHolds ==
  ASSUME TypeOK, TypeOK', NEW S \in SUBSET Calls, NEW e \in Returned,
         \A c \in S : call[c] \in InProgress /\ call'[c] = e,
         \A c \in Calls \ S :
             call'[c] = call[c] \/ (call[c] \in InProgress /\ call'[c] \in InProgress)
  PROVE  Service!FailSome(e)
<1>1. e \notin InProgress
  BY DEF Returned, HandleErrors, InProgress
<1>2. S \in SUBSET {c \in Calls : PublicCall[c] = "pending"}
  BY DEF PublicCall
<1>3. PublicCall' = [c \in Calls |-> IF c \in S THEN e ELSE PublicCall[c]]
  BY <1>1 DEF PublicCall
<1> QED
  BY <1>2, <1>3 DEF Service!FailSome

-----------------------------------------------------------------------------
(* Every step. *)

\* Each action is an action of the service, or invisible.
LEMMA ServiceNext ==
  ASSUME IInv, IInv', [Next]_vars
  PROVE  Refined
<1> USE DEF callVars, chanVars, queryVars, transportVars
<1>t. TypeOK /\ TypeOK' /\ ControlInv /\ ControlInv' /\ LifecycleInv /\ LifecycleInv'
  BY DEF IInv
<1>h. chan # <<>> => Head(chan) \in Calls
  BY <1>t, TakeHead DEF TypeOK
<1>k. \A c \in Calls : Kind[c] \in Kinds
  BY ConstantsAssumption

<1>1. ASSUME NEW c \in Calls, Begin(c) PROVE Refined
  <2> DEFINE s == IF Checked(lifecycle) = "sending" THEN "pending" ELSE Checked(lifecycle)
  <2>1. Checked(lifecycle) \in {"sending", "ShuttingDown", "ActorStopped"}
    BY <1>t DEF Checked, TypeOK, LifecycleStates, FinalStates
  <2>2. PublicCall' = [PublicCall EXCEPT ![c] = s]
    BY <1>1, <1>t, <2>1 DEF Begin, PublicCall, TypeOK, InProgress
  <2>3. Phase' = Phase /\ handles' = handles /\ handles /\ PublicCall[c] = "idle"
    BY <1>1 DEF Begin, Phase, PublicCall, InProgress
  <2>4. s \in Service!FirstStep(Phase)
    <3>1. CASE pc = "aborted"
      <4>1. Phase = "gone" /\ lifecycle \notin FinalStates
        BY <1>t, <3>1, PhaseValue DEF LifecycleInv
      <4> QED
        BY <1>t, <4>1 DEF Checked, Service!FirstStep, TypeOK, LifecycleStates, FinalStates
    <3>2. CASE pc # "aborted" /\ Serving
      <4>1. Phase = "open"
        BY <1>t, <3>2, PhaseValue
      <4>2. s = "pending"
        BY <3>2 DEF Checked, Serving, FinalStates
      <4> QED
        BY <4>1, <4>2 DEF Service!FirstStep
    <3>3. CASE pc # "aborted" /\ lifecycle = "ShuttingDown"
      <4>1. Phase = "closing"
        BY <1>t, <3>3, PhaseValue
      <4>2. s = "ShuttingDown"
        BY <3>3 DEF Checked, FinalStates
      <4> QED
        BY <4>1, <4>2 DEF Service!FirstStep
    <3>4. CASE pc # "aborted" /\ lifecycle \in FinalStates
      BY <1>t, <3>4, PhaseValue DEF Checked, Service!FirstStep, FinalStates
    <3> QED
      BY <1>t, <3>1, <3>2, <3>3, <3>4 DEF TypeOK, LifecycleStates, FinalStates, Serving
  <2>5. Service!Ask(c)
    BY <2>2, <2>3, <2>4 DEF Service!Ask
  <2> QED
    BY <2>5 DEF Refined, Service!Next
<1>2. ASSUME NEW c \in Calls, Enqueue(c) PROVE Refined
  <2>1. PublicCall' = PublicCall /\ Phase' = Phase /\ handles' = handles
    BY <1>2, <1>t DEF Enqueue, PublicCall, Phase, TypeOK, InProgress
  <2> QED
    BY <2>1 DEF Refined, Service!serviceVars
<1>3. ASSUME NEW c \in Calls, FindClosed(c) PROVE Refined
  <2>1. Phase # "open"
    <3>1. pc \in ClosedPoints
      BY <1>3, <1>t DEF FindClosed, ControlInv
    <3>2. pc # "aborted" => ~Serving
      BY <1>t, <3>1 DEF ClosedPoints, CleanupPoints, Ended, LifecycleInv, Serving, FinalStates
    <3> QED
      BY <1>t, <3>2, PhaseValue DEF TypeOK, LifecycleStates, Serving
  <2>2. Phase' = Phase /\ handles' = handles
    BY <1>3 DEF FindClosed, Phase
  <2>3. Service!FailSome("ActorStopped")
    <3> DEFINE S == {c}
    <3>1. /\ \A d \in S : call[d] \in InProgress /\ call'[d] = "ActorStopped"
          /\ \A d \in Calls \ S : call'[d] = call[d]
      BY <1>3, <1>t DEF FindClosed, TypeOK, InProgress
    <3>2. S \in SUBSET Calls
      OBVIOUS
    <3> HIDE DEF S
    <3> QED
      BY <1>t, <3>1, <3>2, FailSomeHolds DEF Returned, HandleErrors
  <2>4. Service!TurnAway
    BY <2>1, <2>2, <2>3 DEF Service!TurnAway
  <2> QED
    BY <2>4 DEF Refined, Service!Next
<1>4. ASSUME NEW c \in Calls, Cancel(c) PROVE Refined
  <2>1. Service!GiveUp(c)
    BY <1>4, <1>t DEF Cancel, Service!GiveUp, PublicCall, Phase, TypeOK, InProgress
  <2> QED
    BY <2>1 DEF Refined, Service!Next
<1>5. CASE DropHandles
  <2>1. Service!DropHandles
    BY <1>5, <1>t, PublicValue DEF DropHandles, Service!DropHandles, PublicCall, Phase
  <2> QED
    BY <2>1 DEF Refined, Service!Next
<1>6. CASE SubscribePosition
  <2>1. Serving /\ Serving' /\ pc # "aborted" /\ pc' # "aborted"
    BY <1>6, <1>t DEF SubscribePosition, LifecycleInv, StartupPoints, LoopPoints, Serving
  <2>2. call' = call /\ handles' = handles
    BY <1>6 DEF SubscribePosition
  <2> QED
    BY <1>t, <2>1, <2>2, StutterRefines
<1>7. CASE EnableRealtime
  <2>1. Serving /\ Serving' /\ pc # "aborted" /\ pc' # "aborted"
    BY <1>7, <1>t DEF EnableRealtime, LifecycleInv, StartupPoints, LoopPoints, Serving
  <2>2. call' = call /\ handles' = handles
    BY <1>7 DEF EnableRealtime
  <2> QED
    BY <1>t, <2>1, <2>2, StutterRefines
<1>8. CASE SubscribeResponse
  <2>1. Serving /\ Serving' /\ pc # "aborted" /\ pc' # "aborted"
    BY <1>8, <1>t DEF SubscribeResponse, LifecycleInv, StartupPoints, LoopPoints, Serving
  <2>2. call' = call /\ handles' = handles
    BY <1>8 DEF SubscribeResponse
  <2> QED
    BY <1>t, <2>1, <2>2, StutterRefines
<1>9. CASE StartupFails
  <2>1. Serving /\ Serving' /\ pc # "aborted" /\ pc' # "aborted"
    BY <1>9, <1>t DEF StartupFails, LifecycleInv, StartupPoints, LoopPoints, Serving
  <2>2. call' = call /\ handles' = handles
    BY <1>9 DEF StartupFails
  <2> QED
    BY <1>t, <2>1, <2>2, StutterRefines
<1>10. CASE StartQueued
  BY <1>10, <1>t, StutterRefines DEF StartQueued, Serving
<1>11. CASE EnterSelect
  BY <1>11, <1>t, StutterRefines DEF EnterSelect, Serving
<1>12. CASE ReceiveSend
  BY <1>12, <1>t, StutterRefines DEF ReceiveSend, Serving, Received
<1>13. CASE ReceiveQueryStarts
  BY <1>13, <1>t, StutterRefines DEF ReceiveQueryStarts, Serving, Received,
     NoQueryOutstanding
<1>14. CASE ReceiveQueryQueues
  BY <1>14, <1>t, StutterRefines DEF ReceiveQueryQueues, Serving, Received
<1>15. CASE ReceiveQueryRefused
  <2>1. Head(chan) \in Calls /\ Kind[Head(chan)] \in QueryKinds
    BY <1>15, <1>t, <1>h DEF ReceiveQueryRefused, Received
  <2>2. "QueryQueueFull" \in Service!Outcomes(Kind[Head(chan)]) /\ "QueryQueueFull" \in Returned
    BY <2>1, <1>k, OutcomeFacts DEF Returned, HandleErrors, QueryKinds
  <2>3. call' = Answer(Head(chan), "QueryQueueFull") /\ handles' = handles /\ lifecycle' = lifecycle
    BY <1>15 DEF ReceiveQueryRefused
  <2>4. Serving /\ pc # "aborted" /\ pc' # "aborted"
    BY <1>15, <1>t DEF ReceiveQueryRefused, Received, LifecycleInv, LoopPoints, Serving
  <2> QED
    BY <1>t, <2>1, <2>2, <2>3, <2>4, ServeRefines
<1>16. CASE ReceiveSubscribe
  <2>1. Head(chan) \in Calls /\ Kind[Head(chan)] = "subscribe"
    BY <1>16, <1>t, <1>h DEF ReceiveSubscribe, Received
  <2>2. "Ok" \in Service!Outcomes(Kind[Head(chan)]) /\ "Ok" \in Returned
    BY <2>1, <1>k, OutcomeFacts DEF Returned, HandleErrors, QueryKinds
  <2>3. call' = Answer(Head(chan), "Ok") /\ handles' = handles /\ lifecycle' = lifecycle
    BY <1>16 DEF ReceiveSubscribe
  <2>4. Serving /\ pc # "aborted" /\ pc' # "aborted"
    BY <1>16, <1>t DEF ReceiveSubscribe, Received, LifecycleInv, LoopPoints, Serving
  <2> QED
    BY <1>t, <2>1, <2>2, <2>3, <2>4, ServeRefines
<1>17. CASE ReceiveShutdown
  BY <1>17, <1>t, StutterRefines DEF ReceiveShutdown, Serving, Received
<1>18. CASE ReceiveNone
  BY <1>18, <1>t, StutterRefines DEF ReceiveNone, Serving
<1>19. CASE FinishSend
  <2>1. current \in Calls /\ Kind[current] = "send"
    BY <1>19, <1>t, <1>h, ConstantsAssumption DEF FinishSend, ControlInv, TypeOK
  <2>2. "Ok" \in Service!Outcomes(Kind[current]) /\ "Ok" \in Returned
    BY <2>1, <1>k, OutcomeFacts DEF Returned, HandleErrors, QueryKinds
  <2>3. call' = Answer(current, "Ok") /\ handles' = handles /\ lifecycle' = lifecycle
    BY <1>19 DEF FinishSend
  <2>4. Serving /\ pc # "aborted" /\ pc' # "aborted"
    BY <1>19, <1>t DEF FinishSend, Received, LifecycleInv, LoopPoints, Serving
  <2> QED
    BY <1>t, <2>1, <2>2, <2>3, <2>4, ServeRefines
<1>20. CASE FinishQueryWrite
  BY <1>20, <1>t, StutterRefines DEF FinishQueryWrite, Serving
<1>21. CASE WriteFails
  <2>1. current \in Calls /\ Kind[current] \in QueryKinds \cup {"send"}
    BY <1>21, <1>t, <1>h, ConstantsAssumption DEF WriteFails, ControlInv, TypeOK
  <2>2. "TransportFailed" \in Service!Outcomes(Kind[current]) /\ "TransportFailed" \in Returned
    BY <2>1, <1>k, OutcomeFacts DEF Returned, HandleErrors, QueryKinds
  <2>3. call' = Answer(current, "TransportFailed") /\ handles' = handles /\ lifecycle' = lifecycle
    BY <1>21 DEF WriteFails
  <2>4. Serving /\ pc # "aborted" /\ pc' # "aborted"
    BY <1>21, <1>t DEF WriteFails, Received, LifecycleInv, LoopPoints, Serving
  <2> QED
    BY <1>t, <2>1, <2>2, <2>3, <2>4, ServeRefines
<1>22. ASSUME NEW k \in QueryKinds, ReceiveResponse(k) PROVE Refined
  <2>1. pending \in Calls /\ Kind[pending] \in QueryKinds
    BY <1>22, <1>t, <1>h DEF ReceiveResponse, ControlInv, TypeOK
  <2>2. "Ok" \in Service!Outcomes(Kind[pending]) /\ "Ok" \in Returned
    BY <2>1, <1>k, OutcomeFacts DEF Returned, HandleErrors, QueryKinds
  <2>3. call' = Answer(pending, "Ok") /\ handles' = handles /\ lifecycle' = lifecycle
    BY <1>22 DEF ReceiveResponse
  <2>4. Serving /\ pc # "aborted" /\ pc' # "aborted"
    BY <1>22, <1>t DEF ReceiveResponse, Received, LifecycleInv, LoopPoints, Serving
  <2> QED
    BY <1>t, <2>1, <2>2, <2>3, <2>4, ServeRefines
<1>23. ASSUME NEW k, ReceiveOther(k) PROVE Refined
  BY <1>23, <1>t, StutterRefines DEF ReceiveOther, Serving
<1>24. CASE NotificationFails
  BY <1>24, <1>t, StutterRefines DEF NotificationFails, Serving
<1>25. CASE DeadlinePasses
  BY <1>25, <1>t, StutterRefines DEF DeadlinePasses, Serving
<1>26. CASE Timeout
  <2>1. pending \in Calls /\ Kind[pending] \in QueryKinds
    BY <1>26, <1>t, <1>h DEF Timeout, ControlInv, TypeOK
  <2>2. "RequestTimedOut" \in Service!Outcomes(Kind[pending]) /\ "RequestTimedOut" \in Returned
    BY <2>1, <1>k, OutcomeFacts DEF Returned, HandleErrors, QueryKinds
  <2>3. call' = Answer(pending, "RequestTimedOut") /\ handles' = handles /\ lifecycle' = lifecycle
    BY <1>26 DEF Timeout
  <2>4. Serving /\ pc # "aborted" /\ pc' # "aborted"
    BY <1>26, <1>t DEF Timeout, Received, LifecycleInv, LoopPoints, Serving
  <2> QED
    BY <1>t, <2>1, <2>2, <2>3, <2>4, ServeRefines
<1>27. CASE Announce
  <2>1. Phase = "open" /\ Phase' = "closing"
    <3>1. Serving /\ pc # "aborted" /\ pc' # "aborted" /\ lifecycle' = "ShuttingDown"
      BY <1>27, <1>t DEF Announce, LifecycleInv, Serving
    <3> QED
      BY <1>t, <3>1, PhaseValue DEF Phase
  <2>2. PublicCall' = PublicCall /\ handles' = handles
    BY <1>27 DEF Announce, PublicCall
  <2>3. Service!BeginClosing
    BY <2>1, <2>2 DEF Service!BeginClosing
  <2> QED
    BY <2>3 DEF Refined, Service!Next
<1>28. CASE Reject
  <2>1. PICK late \in Late :
           call' = [c \in Calls |-> IF c \in ToSet(late) THEN "waiting"
                                    ELSE AnswerAll(Outstanding, "ShuttingDown")[c]]
    BY <1>28 DEF Reject
  <2>2. \A c \in ToSet(late) : c \in Calls /\ call[c] = "sending"
    BY LateFacts DEF IInv
  <2> DEFINE S == {c \in Outstanding : c \in Calls /\ call[c] = "waiting"}
  <2>3. \A c \in S : call[c] \in InProgress /\ call'[c] = "ShuttingDown"
    BY <2>1, <2>2 DEF AnswerAll, InProgress
  <2>4. \A c \in Calls \ S :
           call'[c] = call[c] \/ (call[c] \in InProgress /\ call'[c] \in InProgress)
    BY <2>1, <2>2 DEF AnswerAll, InProgress
  <2>5. Service!FailSome("ShuttingDown")
    <3> HIDE DEF S
    <3>1. S \in SUBSET Calls
      BY DEF S
    <3> QED
      BY <1>t, <2>3, <2>4, <3>1, FailSomeHolds DEF Returned, HandleErrors
  <2>6. Phase = "closing" /\ Phase' = Phase /\ handles' = handles
    <3>1. /\ pc = "reject" /\ pc' = "unsubscribeResponse"
          /\ lifecycle = "ShuttingDown" /\ lifecycle' = lifecycle
      BY <1>28, <1>t DEF Reject, LifecycleInv
    <3> QED
      BY <1>28, <1>t, <3>1, PhaseValue DEF Phase, Reject
  <2>7. Service!Refuse
    BY <2>5, <2>6 DEF Service!Refuse
  <2> QED
    BY <2>7 DEF Refined, Service!Next
<1>29. CASE UnsubscribeResponse
  BY <1>29, <1>t, StutterRefines DEF UnsubscribeResponse, Serving
<1>30. CASE UnsubscribePosition
  BY <1>30, <1>t, StutterRefines DEF UnsubscribePosition, Serving
<1>31. CASE CloseTransport
  BY <1>31, <1>t, StutterRefines DEF CloseTransport, Serving
<1>32. CASE CleanupFails
  <2>1. pc # "aborted" /\ pc' # "aborted"
    BY <1>32 DEF CleanupFails, CleanupPoints
  <2>2. call' = call /\ handles' = handles /\ lifecycle' = lifecycle
    BY <1>32 DEF CleanupFails
  <2> QED
    BY <1>t, <2>1, <2>2, StutterRefines DEF Serving
<1>33. CASE Finish
  <2>1. Phase = "closing" /\ Phase' \in {"stopped", "faulted"}
    <3>1. /\ pc # "aborted" /\ pc' # "aborted"
          /\ lifecycle = "ShuttingDown" /\ lifecycle' \in FinalStates
      BY <1>33, <1>t DEF Finish, LifecycleInv, FinalStates
    <3> QED
      BY <1>t, <3>1, PhaseValue DEF Phase, FinalStates
  <2>2. PublicCall' = PublicCall /\ handles' = handles
    BY <1>33 DEF Finish, PublicCall
  <2>3. Service!End
    BY <2>1, <2>2 DEF Service!End
  <2> QED
    BY <2>3 DEF Refined, Service!Next
<1>34. CASE ReplyShutdown
  <2> DEFINE r == IF result = "Ok" THEN "Ok" ELSE "TransportFailed"
  <2>1. /\ pc # "aborted" /\ pc' # "aborted" /\ lifecycle' = lifecycle
        /\ lifecycle = IF result = "Ok" THEN "Stopped" ELSE "Faulted"
        /\ handles' = handles /\ call' = AnswerAll({shutdownReply}, r)
    BY <1>34, <1>t DEF ReplyShutdown, LifecycleInv
  <2>2. CASE shutdownReply \in Calls /\ call[shutdownReply] = "waiting"
    <3>1. call' = [call EXCEPT ![shutdownReply] = r]
      BY <1>t, <2>1, <2>2 DEF AnswerAll, TypeOK
    <3>2. PublicCall' = [PublicCall EXCEPT ![shutdownReply] = r]
      BY <1>t, <2>2, <3>1 DEF PublicCall, TypeOK, InProgress
    <3>3. PublicCall[shutdownReply] = "pending" /\ Kind[shutdownReply] = "shutdown"
      BY <1>t, <2>2, ConstantsAssumption DEF PublicCall, InProgress, ControlInv
    <3>4. /\ Phase' = Phase
          /\ Phase = IF result = "Ok" THEN "stopped" ELSE "faulted"
      BY <1>t, <2>1, PhaseValue DEF Phase
    <3>5. Service!Confirm(shutdownReply)
      <4>1. CASE result = "Ok"
        <5>1. /\ Phase = "stopped"
              /\ PublicCall' = [PublicCall EXCEPT ![shutdownReply] = "Ok"]
          BY <3>2, <3>4, <4>1
        <5> QED
          BY <2>1, <3>3, <3>4, <5>1 DEF Service!Confirm
      <4>2. CASE result # "Ok"
        <5>1. /\ Phase = "faulted"
              /\ PublicCall' = [PublicCall EXCEPT ![shutdownReply] = "TransportFailed"]
          BY <3>2, <3>4, <4>2
        <5> QED
          BY <2>1, <3>3, <3>4, <5>1 DEF Service!Confirm
      <4> QED
        BY <4>1, <4>2
    <3> QED
      BY <2>2, <3>5 DEF Refined, Service!Next
  <2>3. CASE ~(shutdownReply \in Calls /\ call[shutdownReply] = "waiting")
    <3>1. call' = call
      BY <1>t, <2>1, <2>3 DEF AnswerAll, TypeOK
    <3> QED
      BY <1>t, <2>1, <3>1, StutterRefines DEF Serving
  <2> QED
    BY <2>2, <2>3
<1>35. CASE Exit
  <2>1. Phase # "open" /\ Phase' = Phase /\ handles' = handles
    <3>1. pc # "aborted" /\ pc' # "aborted" /\ ~Serving /\ lifecycle' = lifecycle
      BY <1>35, <1>t DEF Exit, LifecycleInv, Serving
    <3> QED
      BY <1>35, <1>t, <3>1 DEF Exit, Phase, Serving, TypeOK, LifecycleStates
  <2> DEFINE S == {c \in ToSet(chan) : c \in Calls /\ call[c] = "waiting"}
  <2>2. /\ \A c \in S : call[c] \in InProgress /\ call'[c] = "ActorStopped"
        /\ \A c \in Calls \ S : call'[c] = call[c]
    BY <1>35 DEF Exit, AnswerAll, InProgress
  <2>3. Service!FailSome("ActorStopped")
    <3> HIDE DEF S
    <3>1. S \in SUBSET Calls
      BY DEF S
    <3> QED
      BY <1>t, <2>2, <3>1, FailSomeHolds DEF Returned, HandleErrors
  <2>4. Service!TurnAway
    BY <2>1, <2>3 DEF Service!TurnAway
  <2> QED
    BY <2>4 DEF Refined, Service!Next
<1>36. CASE Abort
  <2>1. Phase \in {"open", "closing"} /\ Phase' = "gone" /\ handles' = handles
    <3>1. pc # "aborted" /\ lifecycle \notin FinalStates /\ pc' = "aborted"
      BY <1>36, <1>t DEF Abort, AwaitPoints, StartupPoints, CleanupPoints, LifecycleInv,
         LoopPoints, FinalStates
    <3> QED
      BY <1>36, <1>t, <3>1, PhaseValue DEF Abort, Phase, Serving, TypeOK, LifecycleStates,
         FinalStates
  <2> DEFINE S == {c \in Held : c \in Calls /\ call[c] = "waiting"}
  <2>2. /\ \A c \in S : call[c] \in InProgress /\ call'[c] = "ActorStopped"
        /\ \A c \in Calls \ S : call'[c] = call[c]
    BY <1>36 DEF Abort, AnswerAll, InProgress
  <2>3. Service!FailSome("ActorStopped")
    <3> HIDE DEF S
    <3>1. S \in SUBSET Calls
      BY DEF S
    <3> QED
      BY <1>t, <2>2, <3>1, FailSomeHolds DEF Returned, HandleErrors
  <2>4. Service!Vanish
    BY <2>1, <2>3 DEF Service!Vanish
  <2> QED
    BY <2>4 DEF Refined, Service!Next
<1>37. CASE Terminated \/ UNCHANGED vars
  BY <1>37, <1>t, StutterRefines DEF Terminated, Serving, vars
<1> QED
  BY <1>1, <1>2, <1>3, <1>4, <1>5, <1>6, <1>7, <1>8, <1>9, <1>10, <1>11,
     <1>12, <1>13, <1>14, <1>15, <1>16, <1>17, <1>18, <1>19, <1>20, <1>21,
     <1>22, <1>23, <1>24, <1>25, <1>26, <1>27, <1>28, <1>29, <1>30, <1>31,
     <1>32, <1>33, <1>34, <1>35, <1>36, <1>37 DEF Next, Caller, Startup,
     LoopTop, Receive, Write, Notified, Leave

\* The actor, its channel and its queue implement the abstract service.
THEOREM Refinement == Spec => ImplementsService
<1>1. IInv /\ IInv' /\ [Next]_vars => [Service!Next]_(Service!serviceVars)
  BY ServiceNext DEF Refined
<1> QED
  BY ServiceInit, <1>1, Invariance, PTL DEF Spec, ImplementsService, Service!Spec
=============================================================================
