---------------------------- MODULE ActorEvents ----------------------------
(***************************************************************************)
(* The board actor together with its event channel: what run_actor puts    *)
(* into the broadcast channel, and what the EventStream of each subscribe  *)
(* call makes of it (src/src/transport/tokio.rs).                          *)
(*                                                                         *)
(* The broadcast channel is Tokio's.  It is modelled by the log of all     *)
(* items published since somebody listens: a receiver is a position in the *)
(* log, and only the last Retained items can still be read.                *)
(***************************************************************************)
EXTENDS TokioActor, FiniteSets

CONSTANTS
    EventCapacity,  \* ActorConfig::event_capacity
    Retained,       \* how many items the channel retains
    MaxPublished    \* bound: how many items are published

\* spawn() rejects an event capacity of zero; broadcast::channel rounds its capacity
\* up to a power of two.
ASSUME EventAssumption ==
    /\ EventCapacity \in Nat \ {0}
    /\ Retained \in EventCapacity .. 2 * EventCapacity - 1
    /\ \E k \in 0 .. EventCapacity : Retained = 2 ^ k
    /\ MaxPublished \in Nat

VARIABLES
    log,      \* the items published, oldest first
    streams   \* per subscribe call: the EventStream it returned

eventVars == <<log, streams>>
allVars == <<vars, eventVars>>

Subscribers == {c \in Calls : Kind[c] = "subscribe"}

\* The position of the oldest item that can still be read.
Oldest == IF Len(log) > Retained THEN Len(log) - Retained ELSE 0

NoStream == [state |-> "none", start |-> 0, cursor |-> 0, received |-> <<>>]

Open(c) == streams[c].state = "open"

EventInit ==
    /\ Init
    /\ log = <<>>
    /\ streams = [c \in Subscribers |-> NoStream]

-----------------------------------------------------------------------------
(* What the actor does to the channel. *)

\* `let _ = event_tx.send(item)`: without a receiver the item is dropped.
Publish(item) ==
    /\ Len(log) < MaxPublished
    /\ log' = IF \E c \in Subscribers : Open(c) THEN Append(log, item) ELSE log
    /\ UNCHANGED streams

\* A notification that answers the active query is published all the same; a
\* decode error is published as such; an acknowledgement is not published.
PublishNotification ==
    \/ \E k \in QueryKinds : ReceiveResponse(k) /\ Publish(k)
    \/ \E k \in QueryKinds \cup {"position", "malformed"} : ReceiveOther(k) /\ Publish(k)
    \/ ReceiveOther("acknowledged") /\ UNCHANGED eventVars
    \/ NotificationFails /\ UNCHANGED eventVars

\* Mutant: a new stream starts with what the channel still retains.
OpenFromOldest(c) ==
    [state |-> "open", start |-> Len(log), cursor |-> Oldest, received |-> <<>>]

\* event_tx.subscribe(): the stream starts behind the last item published.
OpenAtEnd(c) ==
    [state |-> "open", start |-> Len(log), cursor |-> Len(log), received |-> <<>>]

\* If the caller has gone, the reply fails and the stream is dropped with it.
Subscribe ==
    /\ ReceiveSubscribe
    /\ LET c == Head(chan)
       IN  streams' = IF call[c] = "waiting"
                      THEN [streams EXCEPT ![c] = OpenAtEnd(c)] ELSE streams
    /\ UNCHANGED log

Unrelated ==
    /\ \/ \E c \in Calls : Caller(c)
       \/ DropHandles
       \/ Startup \/ LoopTop \/ Write \/ Timeout \/ Leave
       \/ ReceiveSend
       \/ ReceiveQueryStarts \/ ReceiveQueryQueues \/ ReceiveQueryRefused
       \/ ReceiveShutdown \/ ReceiveNone
       \/ DeadlinePasses
       \/ Abort
    /\ UNCHANGED eventVars

-----------------------------------------------------------------------------
(* EventStream::poll_next, for an item that is ready. *)

\* What poll_next returns, where it found the receiver, and how far it moves it.
Yield(c, item, steps) ==
    LET entry == [item |-> item, at |-> streams[c].cursor, steps |-> steps]
    IN  streams' = [streams EXCEPT ![c].received = Append(@, entry), ![c].cursor = @ + steps]

Deliver(c) ==
    /\ Open(c)
    /\ streams[c].cursor \in Oldest .. (Len(log) - 1)
    /\ Yield(c, log[streams[c].cursor + 1], 1)
    /\ UNCHANGED <<vars, log>>

\* Mutant: the receiver is moved on without a word to the consumer.
LagSilently(c) ==
    /\ Open(c)
    /\ streams[c].cursor < Oldest
    /\ streams' = [streams EXCEPT ![c].cursor = Oldest]
    /\ UNCHANGED <<vars, log>>

\* Mutant: the items still in the channel are skipped together with the lost ones.
LagToEnd(c) ==
    /\ Open(c)
    /\ streams[c].cursor < Oldest
    /\ Yield(c, "lagged", Len(log) - streams[c].cursor)
    /\ UNCHANGED <<vars, log>>

\* Lagged(n): the receiver moves to the oldest item that is left.
Lag(c) ==
    /\ Open(c)
    /\ streams[c].cursor < Oldest
    /\ Yield(c, "lagged", Oldest - streams[c].cursor)
    /\ UNCHANGED <<vars, log>>

\* Mutant: the stream ends as soon as the sender is gone.
CloseEarly(c) ==
    /\ Open(c)
    /\ pc \in Ended
    /\ streams' = [streams EXCEPT ![c].state = "closed"]
    /\ UNCHANGED <<vars, log>>

\* Mutant: the end of the channel is not noticed.
CloseNever(c) == FALSE /\ UNCHANGED allVars

\* The sender is dropped with the actor; what is left in the channel is read first.
Close(c) ==
    /\ Open(c)
    /\ pc \in Ended
    /\ streams[c].cursor = Len(log)
    /\ streams' = [streams EXCEPT ![c].state = "closed"]
    /\ UNCHANGED <<vars, log>>

DropStream(c) ==
    /\ Open(c)
    /\ streams' = [streams EXCEPT ![c].state = "dropped"]
    /\ UNCHANGED <<vars, log>>

Poll(c) == Deliver(c) \/ Lag(c) \/ Close(c)

\* Nobody is left who could take a step.
EventsTerminated ==
    /\ pc \in Ended /\ ~handles
    /\ \A c \in Subscribers : ~Open(c)
    /\ UNCHANGED allVars

EventNext ==
    \/ PublishNotification
    \/ Subscribe
    \/ Unrelated
    \/ \E c \in Subscribers : Poll(c) \/ DropStream(c)
    \/ EventsTerminated

EventSpec == EventInit /\ [][EventNext]_allVars

\* A consumer that keeps polling, beside an actor about which nothing is assumed.
EventFairSpec == EventSpec /\ \A c \in Subscribers : WF_allVars(Poll(c))

-----------------------------------------------------------------------------
(* Properties. *)

\* Where the stream s stands after the first n entries it has yielded.
Reached(s, n) == IF n = 0 THEN s.start ELSE s.received[n].at + s.received[n].steps

\* The log holds items, and every stream stands inside it.
EventTypeOK ==
    /\ log \in Seq(QueryKinds \cup {"position", "malformed"})
    /\ \A c \in Subscribers :
          /\ streams[c].state \in {"none", "open", "closed", "dropped"}
          /\ streams[c].start <= streams[c].cursor
          /\ streams[c].cursor <= Len(log)

\* The entries that the stream s has yielded fill the log from its start to its
\* cursor without a gap; each is the item at its place, or a count of lost ones.
Exact(s) ==
    /\ Reached(s, Len(s.received)) = s.cursor
    /\ \A i \in DOMAIN s.received :
          LET entry == s.received[i]
          IN  /\ entry.at = Reached(s, i - 1)
              /\ entry.item # "lagged" => entry.item = log[entry.at + 1] /\ entry.steps = 1

\* Everything published since the subscription reaches the consumer in order, or
\* is counted in a Lagged(n) at the place where it is missing: no item is lost
\* silently, repeated or reordered, and none from before the subscription shows.
ReplayIsExact ==
    \A c \in Subscribers : streams[c].state # "none" => Exact(streams[c])

\* Lag is reported only to a consumer that fell behind by more than the
\* capacity, and leaves it at least that many items to read.
LagIsEarned ==
    [][\A c \in Subscribers :
          /\ streams'[c].received # streams[c].received
          /\ Last(streams'[c].received).item = "lagged"
          => /\ Len(log) - streams[c].cursor > EventCapacity
             /\ Len(log) - streams'[c].cursor >= EventCapacity]_allVars

\* A stream ends only after the actor, and only when everything was read.
EndIsLast ==
    \A c \in Subscribers : streams[c].state = "closed" =>
        pc \in Ended /\ streams[c].cursor = Len(log)

\* Once the actor is over, however it ended, every stream that is polled ends.
StreamsEnd ==
    \A c \in Subscribers : (Open(c) /\ pc \in Ended) ~> ~Open(c)
=============================================================================
