---------------------------- MODULE TokioActor ----------------------------
(***************************************************************************)
(* The board actor of src/src/transport/tokio.rs: one Tokio task that owns *)
(* the transport, and any number of BoardHandle clones whose async methods *)
(* enqueue a message and await a one-shot reply.                           *)
(*                                                                         *)
(* A call is one invocation of a handle method.  The actor is split at its *)
(* await points, where other tasks run and where an abort takes effect,    *)
(* and between the writes that another thread can observe one by one: the  *)
(* lifecycle watch, the request channel and the replies.                   *)
(*                                                                         *)
(* What is written to the event channel is read by no step of the actor;   *)
(* ActorEvents.tla adds it to these actions.                               *)
(***************************************************************************)
EXTENDS Integers, Sequences, SequencesExt

CONSTANTS
    Calls,            \* the calls made on the handle clones
    Kind,             \* the method each call invokes
    CommandCapacity,  \* ActorConfig::command_capacity
    QueryCapacity,    \* ActorConfig::query_capacity, which may be zero
    NoCall            \* Option::None where a call is expected

QueryKinds == {"battery", "pieces"}
Kinds == QueryKinds \cup {"send", "subscribe", "shutdown"}

\* Of the two capacities spawn() rejects only a command capacity of zero.
ASSUME ConstantsAssumption ==
    /\ NoCall \notin Calls
    /\ Kind \in [Calls -> Kinds]
    /\ CommandCapacity \in Nat \ {0}
    /\ QueryCapacity \in Nat

VARIABLES
    call,           \* per call: where its future stands, or what it returned
    handles,        \* does a BoardHandle clone still exist?
    chan,           \* the bounded request channel, oldest message first
    chanOpen,       \* is the receiver open?
    pc,             \* the step the actor task is about to take
    lifecycle,      \* the value of the lifecycle watch
    current,        \* the call whose command is being written
    pending,        \* pending_query
    expired,        \* has the deadline of the pending query passed?
    queued,         \* queued_queries
    shutdownReply,  \* shutdown_reply
    result,         \* the actor's result: "Ok" or the first fatal error
    realtime,       \* has the realtime-enable command been written?
    subscribed,     \* the sources the transport is subscribed to
    closed          \* has the transport been closed?

callVars == <<call, handles>>
chanVars == <<chan, chanOpen>>
queryVars == <<current, pending, expired, queued>>
transportVars == <<realtime, subscribed, closed>>
vars == <<callVars, chanVars, queryVars, transportVars,
          pc, lifecycle, shutdownReply, result>>

-----------------------------------------------------------------------------

HandleErrors == {"ActorStopped", "ShuttingDown", "TransportFailed",
                 "RequestTimedOut", "QueryQueueFull"}
Returned == HandleErrors \cup {"Ok"}

\* A call is "sending" while it awaits room in the channel and "waiting" while
\* it awaits its reply; "cancelled" once its future was dropped at either.
InProgress == {"sending", "waiting"}
CallStates == InProgress \cup Returned \cup {"idle", "cancelled"}

LifecycleStates == {"Starting", "Running", "ShuttingDown", "Stopped", "Faulted"}
FinalStates == {"Stopped", "Faulted"}

Sources == {"Position", "CommandResponse"}
ActorErrors == {"InitializeFailed", "WriteFailed", "NotificationFailed",
                "CleanupFailed"}

\* The transport operations the actor awaits, with the select among them.
StartupPoints == {"subscribePosition", "enableRealtime", "subscribeResponse"}
CleanupPoints == {"unsubscribeResponse", "unsubscribePosition", "close"}
AwaitPoints == StartupPoints \cup CleanupPoints \cup {"select", "write"}
Ended == {"done", "aborted"}
ActorPoints == AwaitPoints \cup Ended
               \cup {"loop", "announce", "reject", "finish", "reply", "exit"}

IsQuery(c) == Kind[c] \in QueryKinds

\* `let _ = reply.send(r)`: the reply of a call whose future is gone is lost.
Answer(c, r) == [call EXCEPT ![c] = IF @ = "waiting" THEN r ELSE @]

\* The same error sent to, or found by, every call of a set.
AnswerAll(S, r) ==
    [c \in Calls |-> IF c \in S /\ call[c] = "waiting" THEN r ELSE call[c]]

\* Every place where the actor side keeps the reply sender of a call.
Held == ToSet(chan) \cup ToSet(queued) \cup ({current, pending, shutdownReply} \ {NoCall})

Init ==
    /\ call = [c \in Calls |-> "idle"]
    /\ handles = TRUE
    /\ chan = <<>>
    /\ chanOpen = TRUE
    /\ pc = "subscribePosition"
    /\ lifecycle = "Starting"
    /\ current = NoCall
    /\ pending = NoCall
    /\ expired = FALSE
    /\ queued = <<>>
    /\ shutdownReply = NoCall
    /\ result = "Ok"
    /\ realtime = FALSE
    /\ subscribed = {}
    /\ closed = FALSE

-----------------------------------------------------------------------------
(* The handle's side. *)

\* Mutant: the state that was read is handed back instead of an error.
CheckedPassesThrough(state) ==
    IF state \in {"Starting", "Running"} THEN "sending" ELSE state

\* What send_message makes of the lifecycle it has just read.
Checked(state) ==
    CASE state \in {"Starting", "Running"} -> "sending"
      [] state = "ShuttingDown"            -> "ShuttingDown"
      [] state \in FinalStates             -> "ActorStopped"

Begin(c) ==
    /\ handles
    /\ call[c] = "idle"
    /\ call' = [call EXCEPT ![c] = Checked(lifecycle)]
    /\ UNCHANGED <<handles, chanVars, queryVars, transportVars,
                   pc, lifecycle, shutdownReply, result>>

\* The channel has room and is open: the message is in, whatever the lifecycle
\* has become since it was read.
Enqueue(c) ==
    /\ call[c] = "sending"
    /\ chanOpen
    /\ Len(chan) < CommandCapacity
    /\ chan' = Append(chan, c)
    /\ call' = [call EXCEPT ![c] = "waiting"]
    /\ UNCHANGED <<handles, chanOpen, queryVars, transportVars,
                   pc, lifecycle, shutdownReply, result>>

FindClosed(c) ==
    /\ call[c] = "sending"
    /\ ~chanOpen
    /\ call' = [call EXCEPT ![c] = "ActorStopped"]
    /\ UNCHANGED <<handles, chanVars, queryVars, transportVars,
                   pc, lifecycle, shutdownReply, result>>

\* The caller drops the future.  A message that was enqueued stays enqueued.
Cancel(c) ==
    /\ call[c] \in InProgress
    /\ call' = [call EXCEPT ![c] = "cancelled"]
    /\ UNCHANGED <<handles, chanVars, queryVars, transportVars,
                   pc, lifecycle, shutdownReply, result>>

\* The last clone is dropped; a future in progress borrows one.
DropHandles ==
    /\ handles
    /\ \A c \in Calls : call[c] \notin InProgress
    /\ handles' = FALSE
    /\ UNCHANGED <<call, chanVars, queryVars, transportVars,
                   pc, lifecycle, shutdownReply, result>>

-----------------------------------------------------------------------------
(* initialize_transport: stops at the first error and undoes nothing. *)

\* Mutant: a failed startup has nothing to shut down.
StartupFailsSkipsCleanup ==
    /\ pc \in StartupPoints
    /\ result' = "InitializeFailed"
    /\ pc' = "finish"
    /\ UNCHANGED <<callVars, chanVars, queryVars, transportVars,
                   lifecycle, shutdownReply>>

StartupFails ==
    /\ pc \in StartupPoints
    /\ result' = "InitializeFailed"
    /\ pc' = "announce"
    /\ UNCHANGED <<callVars, chanVars, queryVars, transportVars,
                   lifecycle, shutdownReply>>

\* Mutant: both subscriptions come before the realtime-enable write.
SubscribePositionOnly ==
    /\ pc = "subscribePosition"
    /\ subscribed' = subscribed \cup {"Position"}
    /\ pc' = "subscribeResponse"
    /\ UNCHANGED <<callVars, chanVars, queryVars, realtime, closed,
                   lifecycle, shutdownReply, result>>

SubscribePosition ==
    /\ pc = "subscribePosition"
    /\ subscribed' = subscribed \cup {"Position"}
    /\ pc' = "enableRealtime"
    /\ UNCHANGED <<callVars, chanVars, queryVars, realtime, closed,
                   lifecycle, shutdownReply, result>>

EnableRealtime ==
    /\ pc = "enableRealtime"
    /\ realtime' = TRUE
    /\ pc' = "subscribeResponse"
    /\ UNCHANGED <<callVars, chanVars, queryVars, subscribed, closed,
                   lifecycle, shutdownReply, result>>

SubscribeResponse ==
    /\ pc = "subscribeResponse"
    /\ subscribed' = subscribed \cup {"CommandResponse"}
    /\ lifecycle' = "Running"
    /\ pc' = "loop"
    /\ UNCHANGED <<callVars, chanVars, queryVars, realtime, closed,
                   shutdownReply, result>>

-----------------------------------------------------------------------------
(* The top of the loop: the next queued query starts once none is active. *)

\* Mutant: the query is read from the front of the queue but left in it.
StartQueuedPeeks ==
    /\ pc = "loop"
    /\ pending = NoCall
    /\ queued # <<>>
    /\ current' = Head(queued)
    /\ pc' = "write"
    /\ UNCHANGED <<callVars, chanVars, queued, pending, expired, transportVars,
                   lifecycle, shutdownReply, result>>

\* Mutant: the query is popped from the back.
StartQueuedNewest ==
    /\ pc = "loop"
    /\ pending = NoCall
    /\ queued # <<>>
    /\ current' = Last(queued)
    /\ queued' = Front(queued)
    /\ pc' = "write"
    /\ UNCHANGED <<callVars, chanVars, pending, expired, transportVars,
                   lifecycle, shutdownReply, result>>

StartQueued ==
    /\ pc = "loop"
    /\ pending = NoCall
    /\ queued # <<>>
    /\ current' = Head(queued)
    /\ queued' = Tail(queued)
    /\ pc' = "write"
    /\ UNCHANGED <<callVars, chanVars, pending, expired, transportVars,
                   lifecycle, shutdownReply, result>>

\* Mutant: the deadline is computed anew in each round of the loop.
EnterSelectRearms ==
    /\ pc = "loop"
    /\ pending # NoCall \/ queued = <<>>
    /\ expired' = FALSE
    /\ pc' = "select"
    /\ UNCHANGED <<callVars, chanVars, current, pending, queued, transportVars,
                   lifecycle, shutdownReply, result>>

\* Mutant: a queued query does not keep the actor from waiting.
EnterSelectIdles ==
    /\ pc = "loop"
    /\ pc' = "select"
    /\ UNCHANGED <<callVars, chanVars, queryVars, transportVars,
                   lifecycle, shutdownReply, result>>

EnterSelect ==
    /\ pc = "loop"
    /\ pending # NoCall \/ queued = <<>>
    /\ pc' = "select"
    /\ UNCHANGED <<callVars, chanVars, queryVars, transportVars,
                   lifecycle, shutdownReply, result>>

-----------------------------------------------------------------------------
(* The request branch of select!. *)

Received(k) ==
    /\ pc = "select"
    /\ chan # <<>>
    /\ Kind[Head(chan)] \in k
    /\ chan' = Tail(chan)

ReceiveSend ==
    /\ Received({"send"})
    /\ current' = Head(chan)
    /\ pc' = "write"
    /\ UNCHANGED <<callVars, chanOpen, pending, expired, queued, transportVars,
                   lifecycle, shutdownReply, result>>

\* Mutant: the active query is forgotten.
NoQueryQueued == queued = <<>>

NoQueryOutstanding == pending = NoCall /\ queued = <<>>

ReceiveQueryStarts ==
    /\ Received(QueryKinds)
    /\ NoQueryOutstanding
    /\ current' = Head(chan)
    /\ pc' = "write"
    /\ UNCHANGED <<callVars, chanOpen, pending, expired, queued, transportVars,
                   lifecycle, shutdownReply, result>>

\* Mutants: the capacity is off by one, to either side.
QueueHasOneMore == Len(queued) <= QueryCapacity
QueueHasOneLess == Len(queued) + 1 < QueryCapacity

QueueHasRoom == Len(queued) < QueryCapacity

ReceiveQueryQueues ==
    /\ Received(QueryKinds)
    /\ ~NoQueryOutstanding
    /\ QueueHasRoom
    /\ queued' = Append(queued, Head(chan))
    /\ pc' = "loop"
    /\ UNCHANGED <<callVars, chanOpen, current, pending, expired, transportVars,
                   lifecycle, shutdownReply, result>>

ReceiveQueryRefused ==
    /\ Received(QueryKinds)
    /\ ~NoQueryOutstanding
    /\ ~QueueHasRoom
    /\ call' = Answer(Head(chan), "QueryQueueFull")
    /\ pc' = "loop"
    /\ UNCHANGED <<handles, chanOpen, queryVars, transportVars,
                   lifecycle, shutdownReply, result>>

ReceiveSubscribe ==
    /\ Received({"subscribe"})
    /\ call' = Answer(Head(chan), "Ok")
    /\ pc' = "loop"
    /\ UNCHANGED <<handles, chanOpen, queryVars, transportVars,
                   lifecycle, shutdownReply, result>>

\* Mutant: the shutdown is acknowledged when it is received.
ReceiveShutdownAcknowledges ==
    /\ Received({"shutdown"})
    /\ call' = Answer(Head(chan), "Ok")
    /\ pc' = "announce"
    /\ UNCHANGED <<handles, chanOpen, queryVars, transportVars,
                   lifecycle, shutdownReply, result>>

ReceiveShutdown ==
    /\ Received({"shutdown"})
    /\ shutdownReply' = Head(chan)
    /\ pc' = "announce"
    /\ UNCHANGED <<callVars, chanOpen, queryVars, transportVars,
                   lifecycle, result>>

\* Mutant: the end of the channel is taken for an empty one.
ReceiveNoneContinues ==
    /\ pc = "select"
    /\ chan = <<>>
    /\ ~handles
    /\ pc' = "loop"
    /\ UNCHANGED <<callVars, chanVars, queryVars, transportVars,
                   lifecycle, shutdownReply, result>>

\* recv() yields None: no sender is left and the channel is drained.
ReceiveNone ==
    /\ pc = "select"
    /\ chan = <<>>
    /\ ~handles
    /\ pc' = "announce"
    /\ UNCHANGED <<callVars, chanVars, queryVars, transportVars,
                   lifecycle, shutdownReply, result>>

-----------------------------------------------------------------------------
(* Awaiting write_command; nothing else of the actor runs meanwhile. *)

FinishSend ==
    /\ pc = "write"
    /\ Kind[current] = "send"
    /\ call' = Answer(current, "Ok")
    /\ current' = NoCall
    /\ pc' = "loop"
    /\ UNCHANGED <<handles, chanVars, pending, expired, queued, transportVars,
                   lifecycle, shutdownReply, result>>

\* Mutant: a query whose caller has gone is not waited for.
FinishQueryWriteSkipsGone ==
    /\ pc = "write"
    /\ IsQuery(current)
    /\ pending' = IF call[current] = "waiting" THEN current ELSE NoCall
    /\ expired' = FALSE
    /\ current' = NoCall
    /\ pc' = "loop"
    /\ UNCHANGED <<callVars, chanVars, queued, transportVars,
                   lifecycle, shutdownReply, result>>

\* start_query: the deadline is taken when the write has finished.
FinishQueryWrite ==
    /\ pc = "write"
    /\ IsQuery(current)
    /\ pending' = current
    /\ expired' = FALSE
    /\ current' = NoCall
    /\ pc' = "loop"
    /\ UNCHANGED <<callVars, chanVars, queued, transportVars,
                   lifecycle, shutdownReply, result>>

WriteFails ==
    /\ pc = "write"
    /\ call' = Answer(current, "TransportFailed")
    /\ current' = NoCall
    /\ result' = "WriteFailed"
    /\ pc' = "announce"
    /\ UNCHANGED <<handles, chanVars, pending, expired, queued, transportVars,
                   lifecycle, shutdownReply>>

-----------------------------------------------------------------------------
(* The notification and timer branches of select!. *)

\* Mutant: the type of the response is not compared with the query.
ReceiveResponseOfAny(k) ==
    /\ pc = "select"
    /\ pending # NoCall
    /\ call' = Answer(pending, "Ok")
    /\ pending' = NoCall
    /\ expired' = FALSE
    /\ pc' = "loop"
    /\ UNCHANGED <<handles, chanVars, current, queued, transportVars,
                   lifecycle, shutdownReply, result>>

\* A response of the active query's type completes it.
ReceiveResponse(k) ==
    /\ pc = "select"
    /\ pending # NoCall
    /\ Kind[pending] = k
    /\ call' = Answer(pending, "Ok")
    /\ pending' = NoCall
    /\ expired' = FALSE
    /\ pc' = "loop"
    /\ UNCHANGED <<handles, chanVars, current, queued, transportVars,
                   lifecycle, shutdownReply, result>>

\* Any other notification: an event that answers no query, the realtime
\* acknowledgement, or bytes that do not decode.
Unsolicited == {"position", "acknowledged", "malformed"}

ReceiveOther(k) ==
    /\ pc = "select"
    /\ pending # NoCall => Kind[pending] # k
    /\ pc' = "loop"
    /\ UNCHANGED <<callVars, chanVars, queryVars, transportVars,
                   lifecycle, shutdownReply, result>>

NotificationFails ==
    /\ pc = "select"
    /\ result' = "NotificationFailed"
    /\ pc' = "announce"
    /\ UNCHANGED <<callVars, chanVars, queryVars, transportVars,
                   lifecycle, shutdownReply>>

\* Time passes whatever the actor is doing.
DeadlinePasses ==
    /\ pending # NoCall
    /\ ~expired
    /\ expired' = TRUE
    /\ UNCHANGED <<callVars, chanVars, current, pending, queued, transportVars,
                   pc, lifecycle, shutdownReply, result>>

Timeout ==
    /\ pc = "select"
    /\ pending # NoCall
    /\ expired
    /\ call' = Answer(pending, "RequestTimedOut")
    /\ pending' = NoCall
    /\ expired' = FALSE
    /\ pc' = "loop"
    /\ UNCHANGED <<handles, chanVars, current, queued, transportVars,
                   lifecycle, shutdownReply, result>>

-----------------------------------------------------------------------------
(* After the loop, however it ended. *)

\* Mutant: shutdown goes on without telling the handles.
AnnounceNothing ==
    /\ pc = "announce"
    /\ pc' = "reject"
    /\ UNCHANGED <<callVars, chanVars, queryVars, transportVars,
                   lifecycle, shutdownReply, result>>

\* Mutant: the messages already in the channel are served first.
AnnounceKeepsServing ==
    /\ pc = "announce"
    /\ lifecycle' = "ShuttingDown"
    /\ pc' = IF chan = <<>> THEN "reject" ELSE "loop"
    /\ UNCHANGED <<callVars, chanVars, queryVars, transportVars,
                   shutdownReply, result>>

Announce ==
    /\ pc = "announce"
    /\ lifecycle' = "ShuttingDown"
    /\ pc' = "reject"
    /\ UNCHANGED <<callVars, chanVars, queryVars, transportVars,
                   shutdownReply, result>>

\* Mutant: only the queries are failed, the channel is not drained.
OutstandingQueries == ToSet(queued) \cup {pending}

\* The calls that shutdown fails: active, queued, or still in the channel.
Outstanding == ToSet(chan) \cup ToSet(queued) \cup {pending}

\* A sender that got its permit before close() may still push its message: here
\* those whose message comes when try_recv has found the channel empty.
Late ==
    {s \in BoundedSeq(Calls, CommandCapacity - Len(chan)) :
        /\ \A i \in DOMAIN s : call[s[i]] = "sending"
        /\ IsInjective(s)}

\* request_rx.close(), then every query and every message left is failed.
Reject ==
    /\ pc = "reject"
    /\ chanOpen' = FALSE
    /\ \E late \in Late :
          /\ chan' = late
          /\ call' = [c \in Calls |-> IF c \in ToSet(late) THEN "waiting"
                                     ELSE AnswerAll(Outstanding, "ShuttingDown")[c]]
    /\ queued' = <<>>
    /\ pending' = NoCall
    /\ expired' = FALSE
    /\ pc' = "unsubscribeResponse"
    /\ UNCHANGED <<handles, current, transportVars,
                   lifecycle, shutdownReply, result>>

UnsubscribeResponse ==
    /\ pc = "unsubscribeResponse"
    /\ subscribed' = subscribed \ {"CommandResponse"}
    /\ pc' = "unsubscribePosition"
    /\ UNCHANGED <<callVars, chanVars, queryVars, realtime, closed,
                   lifecycle, shutdownReply, result>>

UnsubscribePosition ==
    /\ pc = "unsubscribePosition"
    /\ subscribed' = subscribed \ {"Position"}
    /\ pc' = "close"
    /\ UNCHANGED <<callVars, chanVars, queryVars, realtime, closed,
                   lifecycle, shutdownReply, result>>

CloseTransport ==
    /\ pc = "close"
    /\ closed' = TRUE
    /\ pc' = "finish"
    /\ UNCHANGED <<callVars, chanVars, queryVars, realtime, subscribed,
                   lifecycle, shutdownReply, result>>

\* Mutants: the cleanup's error replaces the first one, or is dropped.
KeepLast(error) == error
KeepNone(error) == result

\* The error that ended the loop outlives an error of the cleanup.
KeepFirst(error) == IF result = "Ok" THEN error ELSE result

\* Mutant: a failing cleanup operation is tried again.
CleanupRetries ==
    /\ pc \in CleanupPoints
    /\ result' = KeepFirst("CleanupFailed")
    /\ pc' = "unsubscribeResponse"
    /\ UNCHANGED <<callVars, chanVars, queryVars, transportVars,
                   lifecycle, shutdownReply>>

\* shutdown_transport stops at the first error.
CleanupFails ==
    /\ pc \in CleanupPoints
    /\ result' = KeepFirst("CleanupFailed")
    /\ pc' = "finish"
    /\ UNCHANGED <<callVars, chanVars, queryVars, transportVars,
                   lifecycle, shutdownReply>>

Finish ==
    /\ pc = "finish"
    /\ lifecycle' = IF result = "Ok" THEN "Stopped" ELSE "Faulted"
    /\ pc' = "reply"
    /\ UNCHANGED <<callVars, chanVars, queryVars, transportVars,
                   shutdownReply, result>>

ReplyShutdown ==
    /\ pc = "reply"
    /\ call' = AnswerAll({shutdownReply},
                         IF result = "Ok" THEN "Ok" ELSE "TransportFailed")
    /\ shutdownReply' = NoCall
    /\ pc' = "exit"
    /\ UNCHANGED <<handles, chanVars, queryVars, transportVars,
                   lifecycle, result>>

\* Mutant: the receiver outlives the actor, and the late messages with it.
ExitKeepsReceiver ==
    /\ pc = "exit"
    /\ pc' = "done"
    /\ UNCHANGED <<callVars, chanVars, queryVars, transportVars,
                   lifecycle, shutdownReply, result>>

\* run_actor returns; a late message is dropped with the receiver, and its caller
\* finds the reply sender gone.
Exit ==
    /\ pc = "exit"
    /\ call' = AnswerAll(ToSet(chan), "ActorStopped")
    /\ chan' = <<>>
    /\ pc' = "done"
    /\ UNCHANGED <<handles, chanOpen, queryVars, transportVars,
                   lifecycle, shutdownReply, result>>

\* BoardTask::abort drops the future at an await, with all that it owns; the
\* lifecycle watch keeps its last value.
Abort ==
    /\ pc \in AwaitPoints
    /\ call' = AnswerAll(Held, "ActorStopped")
    /\ chan' = <<>>
    /\ chanOpen' = FALSE
    /\ current' = NoCall
    /\ pending' = NoCall
    /\ expired' = FALSE
    /\ queued' = <<>>
    /\ shutdownReply' = NoCall
    /\ pc' = "aborted"
    /\ UNCHANGED <<handles, transportVars, lifecycle, result>>

\* Nobody is left who could take a step.
Terminated ==
    /\ pc \in Ended
    /\ ~handles
    /\ UNCHANGED vars

-----------------------------------------------------------------------------

Caller(c) == Begin(c) \/ Enqueue(c) \/ FindClosed(c) \/ Cancel(c)

Startup == SubscribePosition \/ EnableRealtime \/ SubscribeResponse \/ StartupFails

LoopTop == StartQueued \/ EnterSelect

Receive ==
    \/ ReceiveSend
    \/ ReceiveQueryStarts \/ ReceiveQueryQueues \/ ReceiveQueryRefused
    \/ ReceiveSubscribe
    \/ ReceiveShutdown \/ ReceiveNone

Write == FinishSend \/ FinishQueryWrite \/ WriteFails

Notified ==
    \/ \E k \in QueryKinds : ReceiveResponse(k)
    \/ \E k \in QueryKinds \cup Unsolicited : ReceiveOther(k)
    \/ NotificationFails

Leave ==
    \/ Announce \/ Reject
    \/ UnsubscribeResponse \/ UnsubscribePosition \/ CloseTransport \/ CleanupFails
    \/ Finish \/ ReplyShutdown \/ Exit

Next ==
    \/ \E c \in Calls : Caller(c)
    \/ DropHandles
    \/ Startup \/ LoopTop \/ Receive \/ Write \/ Notified \/ Timeout \/ Leave
    \/ DeadlinePasses
    \/ Abort
    \/ Terminated

Spec == Init /\ [][Next]_vars

-----------------------------------------------------------------------------
(* Fairness.  Every transport operation the actor awaits completes, the task  *)
(* is scheduled, and time passes.  select! polls its branches in a random     *)
(* order, so a branch that is ready again and again is taken: the request     *)
(* branch and the timer get strong fairness, the notifications none, for a    *)
(* board may stay silent.  The channel serves its waiting senders in order,   *)
(* hence strong fairness of Enqueue.  No caller has to do anything.           *)

Fairness ==
    /\ WF_vars(Startup)
    /\ WF_vars(LoopTop)
    /\ WF_vars(Write)
    /\ WF_vars(Leave)
    /\ WF_vars(DeadlinePasses)
    /\ SF_vars(Receive)
    /\ SF_vars(Timeout)
    /\ \A c \in Calls : SF_vars(Enqueue(c)) /\ WF_vars(FindClosed(c))

FairSpec == Spec /\ Fairness

-----------------------------------------------------------------------------
(* Properties. *)

\* Every variable holds a value the program can give it.
TypeOK ==
    /\ call \in [Calls -> CallStates]
    /\ handles \in BOOLEAN
    /\ chan \in Seq(Calls)
    /\ chanOpen \in BOOLEAN
    /\ pc \in ActorPoints
    /\ lifecycle \in LifecycleStates
    /\ current \in Calls \cup {NoCall}
    /\ pending \in Calls \cup {NoCall}
    /\ expired \in BOOLEAN
    /\ queued \in Seq(Calls)
    /\ shutdownReply \in Calls \cup {NoCall}
    /\ result \in ActorErrors \cup {"Ok"}
    /\ realtime \in BOOLEAN
    /\ subscribed \in SUBSET Sources
    /\ closed \in BOOLEAN

\* No reply is lost: a caller that awaits a reply is in the channel, in the
\* query queue, active, being written, or kept as the shutdown reply.
NoLostReply ==
    \A c \in Calls : call[c] = "waiting" => c \in Held

\* No call is held in two places, or held although it was answered: none is
\* answered twice or written twice.
HeldOnce ==
    LET one == {current, pending, shutdownReply} \ {NoCall}
    IN  /\ \A c \in Held : call[c] \in {"waiting", "cancelled"}
        /\ IsInjective(chan) /\ IsInjective(queued)
        /\ ToSet(chan) \cap ToSet(queued) = {}
        /\ one \cap (ToSet(chan) \cup ToSet(queued)) = {}
        /\ current # NoCall => current \notin {pending, shutdownReply}
        /\ pending # NoCall => pending # shutdownReply

\* Move responses carry no request id: the next query is written only when no
\* query is active, and the actor never waits idle on a queue of queries.
OneQueryAtATime ==
    /\ pc = "write" /\ IsQuery(current) => pending = NoCall
    /\ pc = "select" /\ pending = NoCall => queued = <<>>

\* Actor and callers never wait for each other: when only a message or the board can
\* wake the actor, it owes nobody an answer and its channel takes the next message.
IdleOwesNothing ==
    pc = "select" /\ pending = NoCall /\ chan = <<>> =>
        chanOpen /\ \A c \in Calls : call[c] # "waiting"

\* The two bounded queues keep to the configured capacities.
Bounded ==
    /\ Len(chan) <= CommandCapacity
    /\ Len(queued) <= QueryCapacity

\* Running is announced only once both sources are subscribed and realtime
\* updates enabled, and command responses are never subscribed before that.
RunningIsInitialised ==
    /\ lifecycle = "Running" => subscribed = Sources /\ realtime
    /\ "CommandResponse" \in subscribed => realtime

\* Stopped is reported only of a transport that is unsubscribed and closed,
\* and Faulted only with an error in the actor's result.
FinalStateIsTrue ==
    /\ lifecycle = "Stopped" => result = "Ok" /\ closed /\ subscribed = {}
    /\ lifecycle = "Faulted" => result # "Ok"

\* A shutdown call that returns finds the lifecycle final: Ok means a clean
\* stop, TransportFailed a fault.
ShutdownSeesFinalState ==
    \A c \in Calls : Kind[c] = "shutdown" =>
        /\ call[c] = "Ok" => lifecycle = "Stopped"
        /\ call[c] = "TransportFailed" => lifecycle = "Faulted"

\* Once a final state shows, only the shutdown caller can still be waiting, and a
\* sender whose message came behind the drain; once the task is over, by itself or
\* by an abort, nobody is.
NobodyLeftWaiting ==
    \A c \in Calls : call[c] = "waiting" =>
        /\ pc \notin Ended
        /\ lifecycle \in FinalStates => c \in ToSet(chan) \cup {shutdownReply}

\* An error tells the caller something true: a closed channel, a shutdown that
\* has been announced, a transport error kept in the actor's result.
ErrorsAreTrue ==
    \A c \in Calls :
        /\ call[c] = "ActorStopped" => ~chanOpen
        /\ call[c] = "ShuttingDown" => lifecycle \notin {"Starting", "Running"}
        /\ call[c] = "TransportFailed" => result # "Ok"

\* HandleError::ShuttingDown is documented as "Graceful shutdown has started.":
\* it is never the answer to a call that a transport failure brought down.
ShuttingDownMeansGraceful ==
    \A c \in Calls : call[c] = "ShuttingDown" =>
        result \notin {"InitializeFailed", "WriteFailed", "NotificationFailed"}

\* LifecycleState::Running is documented as "Initialization completed and handle
\* requests are accepted.": the channel is open while it shows.
RunningAcceptsRequests == lifecycle = "Running" => chanOpen

\* c stands before d in the sequence s.
InOrder(s, c, d) == \E i, j \in DOMAIN s : i < j /\ s[i] = c /\ s[j] = d

\* The query c was accepted before the query d, and both are still to be answered:
\* a query goes from the channel through the queue and the write to the active one.
Ahead(c, d) ==
    /\ IsQuery(c) /\ IsQuery(d)
    /\ \/ c = pending /\ d \in {current} \cup ToSet(queued) \cup ToSet(chan)
       \/ c = current /\ d \in ToSet(queued) \cup ToSet(chan)
       \/ c \in ToSet(queued) /\ d \in ToSet(chan)
       \/ InOrder(queued, c, d)
       \/ InOrder(chan, c, d)

\* Queries are served in the order in which the channel accepted them: none
\* passes an earlier one or is completed by a response before it is gone.
OrderStep ==
    \A c, d \in Calls : Ahead(c, d) =>
        /\ ~Ahead(d, c)'
        /\ call'[d] = "Ok" => call[d] = "Ok"

QueriesInOrder == [][OrderStep]_vars

\* A query is refused for a full queue only while another one is active and
\* the queue is full: with nothing outstanding, even capacity 0 serves it.
RefusalStep ==
    \A c \in Calls : call[c] = "waiting" /\ call'[c] = "QueryQueueFull" =>
        pending # NoCall /\ Len(queued) = QueryCapacity

RefusedOnlyWhenFull == [][RefusalStep]_vars

\* After the announcement nothing is served any more, only the shutdown that
\* was accepted can succeed, although messages still get into the channel.
ServedStep ==
    lifecycle \notin {"Starting", "Running"} =>
        \A c \in Calls : call'[c] = "Ok" /\ call[c] # "Ok" => c = shutdownReply

NothingServedAfterAnnounce == [][ServedStep]_vars

\* The error that stopped the actor is the one its exit reports.
FirstErrorKept ==
    [][result # "Ok" => result' = result]_vars

\* The lifecycle only moves forward, and Running never directly to a final state.
LifecycleStep ==
    lifecycle' # lifecycle =>
        <<lifecycle, lifecycle'>> \in
            {<<"Starting", "Running">>, <<"Starting", "ShuttingDown">>,
             <<"Running", "ShuttingDown">>,
             <<"ShuttingDown", "Stopped">>, <<"ShuttingDown", "Faulted">>}

LifecycleForward == [][LifecycleStep]_vars

\* What the callers see of a call, and of the actor.
PublicCall == [c \in Calls |-> IF call[c] \in InProgress THEN "pending" ELSE call[c]]

Phase ==
    CASE pc = "aborted"                                         -> "gone"
      [] pc # "aborted" /\ lifecycle \in {"Starting", "Running"} -> "open"
      [] pc # "aborted" /\ lifecycle = "ShuttingDown"            -> "closing"
      [] pc # "aborted" /\ lifecycle = "Stopped"                 -> "stopped"
      [] pc # "aborted" /\ lifecycle = "Faulted"                 -> "faulted"

Service == INSTANCE BoardService WITH call <- PublicCall, phase <- Phase

\* The actor, its channel and its queue keep the promises of BoardService: each
\* call is answered at most once, served only while the service is open, refused
\* with the error of the phase, and a shutdown is confirmed only by its outcome.
ImplementsService == Service!Spec

\* Every call returns, however silent the board, unless its caller drops it.
EveryCallReturns ==
    \A c \in Calls : call[c] \in InProgress ~> call[c] \notin InProgress

\* Dropping the last handle ends the actor, and so does an announced shutdown.
DroppedHandlesEndActor == ~handles ~> pc \in Ended

AnnouncedShutdownEnds == lifecycle = "ShuttingDown" ~> pc \in Ended
=============================================================================
