# TLA+ verification of chessnut-move-rs

The crate talks to a Chessnut Move board over Bluetooth LE. It has three layers, and
so have the specifications here:

* the **board actor** of `src/src/transport/tokio.rs`: one Tokio task that owns the
  transport, and cloneable handles that send it messages and wait for replies;
* the **sessions** without a runtime, asynchronous and blocking, and the btleplug
  **adapter** beneath them;
* the **protocol**: the bytes of commands and notifications.

TLC checks each on small instances, and TLAPS proves every safety property for every value
of the constants; liveness is left to TLC.

## 1. The system

| Component | Source | State it keeps | Operations | Talks to |
|---|---|---|---|---|
| Board actor | `transport/tokio.rs` | pending query, queued queries, shutdown reply, result, lifecycle watch | startup, select loop, cleanup | handles (bounded mpsc, one-shot replies, watch), transport (awaited calls), event channel (broadcast) |
| `BoardHandle` | `transport/tokio.rs` | clone of the sender and of the watch | `send`, `battery_status`, `piece_status`, `subscribe_events`, `shutdown`, `lifecycle`, drop | the actor |
| `BoardTask` | `transport/tokio.rs` | join handle | `abort`, await | the runtime |
| `EventStream` | `transport/tokio.rs` | position in the broadcast channel | `poll_next`, `recv`, drop | event channel |
| Sessions `AsyncBoard`, `BlockingBoard` | `transport/asynchronous.rs`, `blocking.rs` | transport, notification buffer | `initialize`, `send`, `next_event`, `shutdown` | transport |
| btleplug adapter | `transport/btleplug.rs` | peripheral, three characteristics, notification stream | subscribe, unsubscribe, write, receive | Bluetooth library |
| Notification routing | `transport/mod.rs` | none | `decode_notification` | sessions and actor |
| Protocol | `protocol/` | none | decode position, battery, pieces; build commands; pack squares | routing, commands |
| GATT constants, instrumentation, examples | | none | | |

What makes each correct, and what is hard about it:

* **Actor and handles.** Every accepted call is answered exactly once, whatever ends
  the actor: a shutdown, the last handle dropped, a transport error, an abort. Queries
  are serialized, because responses carry no request id; they are served in order and
  refused only behind a full queue. The lifecycle tells the truth. The difficulty is
  concurrency: a handle reads the lifecycle and enqueues later; a message arrives when
  the channel has just been drained; deadlines, responses, messages and faults meet in
  one `select!`; callers drop their futures; an abort takes effect at any await.
* **Event streams.** Every event after the subscription is delivered in order or
  counted as missed; the stream ends after the actor and not before it is read out.
* **Sessions.** Startup and shutdown stop at the first failure, and the caller may go on.
* **Adapter.** Each value of the peripheral's one stream is tagged by characteristic or
  is a fatal error.
* **Protocol.** Encoding and decoding agree on the reversed square order and on the
  nibbles; decoders accept what is documented and nothing else.

`PROJECT.json` lists the hazards of this code line by line with the properties that
cover them.

## 2. Modules

| Module | What it is |
|---|---|
| `TokioActor` | The actor, the request channel and the callers. |
| `BoardService` | The abstract service: what callers may observe, with no channel, no queue and no transport. |
| `ActorEvents` | `TokioActor` composed with the broadcast channel and the streams. |
| `QueryCorrelation` | `TokioActor` composed with the board that answers its queries: which response completes which query. |
| `BtleplugTransport` | The btleplug adapter, and the peripheral behind it, as operators. |
| `AsyncSession` | `AsyncBoard` on `BtleplugTransport`, split at its awaits. |
| `BlockingClient` | `BlockingBoard` in the program of `examples/blocking_no_std.rs`, and a board that sends what it likes. |
| `Squares`, `Wire` | Square arithmetic and notation; piece codes, and squares packed two to a byte. |
| `Commands`, `Notifications` | The bytes of every command; every decoder, check by check. |
| `BoardLink` | A program that sends `Commands` and decodes `Notifications`, a board that reads and writes them in its own terms, and a link that damages notifications. |
| `TokioActorProofs` | What is proved of the actor: its invariants, the order of service, and that it implements `BoardService`. |
| `ActorEventsProofs`, `CorrelationProofs` | What is proved of the actor's streams, and of the actor with its board. |
| `AsyncSessionProofs`, `BlockingClientProofs` | What is proved of the sessions. |
| `CodecProofs`, `BoardLinkProofs`, `DamageProofs` | What is proved of packing and decoding, of program and board, and of damage on the link. |
| `MC...` | Small sets of calls, values and positions for TLC. |

`QueryCorrelation` and `ActorEvents` EXTEND `TokioActor`; `AsyncSession` EXTENDS
`BtleplugTransport`; `BoardLink` EXTENDS `Commands` and `Notifications`, which EXTEND
`Wire` and `Squares`. The layers are not composed with each other: the actor sees only
the kind of a notification, the session only its source and first byte, and the bytes are
those of `BoardLink`.

### TokioActor

A *call* is one invocation of a handle method. `call[c]` is where its future stands:
`idle`, `sending` (between the lifecycle check and room in the channel), `waiting` (for
the one-shot reply), `cancelled` (future dropped), or the value it returned. `Kind[c]`
is the method. Calls to `battery_status` and `piece_status` differ only in the kind of
response that completes them.

`pc` is where the actor task stands. It is split at every await, since other tasks run
there and an abort takes effect there, and between writes that another thread sees one
by one: lifecycle value, channel, replies. `chan` is the mpsc channel, `queued`
`queued_queries`, `pending` `pending_query`, `expired` whether its deadline has passed,
`current` the call whose command is being written, `shutdownReply` and `result` the
variables of that name. `subscribed`, `realtime` and `closed` record what was done to
the transport.

| Code | Actions |
|---|---|
| `send_message`, `receive_reply`, dropping a future or a handle | `Begin`, `Enqueue`, `FindClosed`, `Cancel`, `DropHandles` |
| `initialize_transport` | `SubscribePosition`, `EnableRealtime`, `SubscribeResponse`, `StartupFails` |
| top of the loop | `StartQueued`, `EnterSelect` |
| `request_rx.recv()` branch | `ReceiveSend`, `ReceiveQueryStarts`, `ReceiveQueryQueues`, `ReceiveQueryRefused`, `ReceiveSubscribe`, `ReceiveShutdown`, `ReceiveNone` |
| awaiting `write_command` | `FinishSend`, `FinishQueryWrite`, `WriteFails` |
| `next_notification` branch | `ReceiveResponse`, `ReceiveOther`, `NotificationFails` |
| `sleep_until` branch | `DeadlinePasses`, `Timeout` |
| after the loop | `Announce`, `Reject`, `UnsubscribeResponse`, `UnsubscribePosition`, `CloseTransport`, `CleanupFails`, `Finish`, `ReplyShutdown`, `Exit` |
| `BoardTask::abort` | `Abort` |

A response may arrive in any round of the loop, asked for or not, so late answers and
answers to raw commands are covered as far as the callers' outcomes go; which write a
response belongs to is recorded in `QueryCorrelation`.

What is assumed of Tokio, whose code is not in the repository:

* The mpsc channel is FIFO; `send` waits for a permit and then pushes; `close()` fails
  senders that have no permit. A sender that took its permit before `close()` may push
  after `try_recv` found the channel empty; `Late` in `Reject` is the messages that do.
  Their callers get `ActorStopped` when the receiver is dropped (`Exit`). A push is
  assumed not to race with the drop of the receiver itself.
* Dropping a one-shot sender wakes its receiver with an error.
* An aborted task is dropped at an await with everything it owns. Unwinding by a panic
  has the same effect and is not a separate action.
* `select!` polls its branches in random order.
* A failing transport operation leaves the recorded subscriptions as they were.

### BoardService

It has the outcome of each call and one of five phases: open, closing, stopped,
faulted, gone. Calls are served only while it is open, refused with the error of the
phase, and a shutdown is confirmed only by the phase it led to.
`TokioActor!ImplementsService` states the refinement: `sending` and `waiting` are both
*pending*, and the phase follows from the lifecycle and from an abort.

### ActorEvents

The broadcast channel is the log of items published while anybody listens, of which
the last `Retained` can be read: the capacity rounded up to a power of two, as Tokio
does, which is what `EventAssumption` says of that constant. A stream is its start, its
position, and what `poll_next` yielded: the item or `lagged`, where the receiver stood, and
by how many items it moved. Every action of `TokioActor` is taken over and extended
by what it publishes. A poll that finds nothing ready is a stuttering step.

### QueryCorrelation

A response carries its type and no request id, so `resolve_query` gives it to whatever
query of that type is active. `written` is the calls whose query bytes reached the board,
`inflight` the set of those whose response is still to come, and `answer[c]` the write whose response
completed `c`. The board (external) answers the queries of one type in order, late or
never, and it also answers query bytes that a caller sent with `send()`: the actor does
not look into them, `carries` says what they ask for. `WriteQuery`, `WriteRaw`,
`Answered`, `Stray`, `Corrupted` and `GiveUp` are the actions of `TokioActor` that write
and receive, with what they do on the link; `Lose` is the board's silence.

### BtleplugTransport and AsyncSession

A *value* is what btleplug yields: a characteristic and bytes, of which only those matter
that the decoders tell apart (`ack`, `data`, `bad`). `Received` is `receive`: the tag, the
two errors in their order, and the reused buffer, whose tail keeps older bytes. `sent` is
every value that entered the one stream of the peripheral; `stream` what it still holds;
`seen` what `next_event` returned, with the number (`at`) of the value it was made of.

| Code | Actions |
|---|---|
| `BtleplugTransport::new`, `AsyncBoard::new` | `Discovered`, `StreamOpened`, `NewFails` |
| entering a method | `Call` |
| an awaited operation that succeeds, fails, or is dropped with its future | `Succeed`, `Fail`, `Drop`, per operation; `NextStep` is the order within a call |
| `next_event` | `NextAcknowledged` (its loop), `NextReturns`, `NextEnds`, `DropNext` |
| drop, `into_transport` | `DropSession` |
| the peripheral (external) | `Notify`, `Disconnect` |

The program is any: it calls the four methods in any order, as often as it likes, also
after errors. An operation that failed or was dropped may have taken effect, but if so,
before the next one starts.

### BlockingClient

A blocking call is one action, since nothing of the program runs inside it; each call
that fails leaves any prefix of its operations done. The waiting notifications of all
sources form one queue; each remembers (`after`) which queries the board had answered
when it was sent. `After` is the order of steps of `run` and `use_board`. `ShutTo` and
`InitializedTo` are `shutdown` and `initialize` cut at any operation.

### Squares, Wire, Commands, Notifications, BoardLink

A square is its index, a packed array a sequence of bytes, a decoder a function of source
and bytes whose result is a record with either an `event` or an `error`, whose other
fields are those of the Rust variant. Fallible conversions return the set of what they
may yield, empty for an error. The order of the checks in every decoder is the order of
the code, so that the first error is the reported one.

`BoardLink` confronts these with a board that has its own idea of the layout, square by
square (h8 first, low nibble first, records by index), and not by calling the same
operators: `BoardReads`, `BoardPacks`, `Understood`, `PieceStatusBytes`. One frame at a
time is on the link. `meant` is what its sender means, `outcome` what the receiver makes
of it. `DamageByte` changes one byte of a notification, `CutShort` drops its end; a
command arrives as it was sent. The program remembers the last position it decoded
(`known`) and asks for moves from it, so that decoded positions are encoded again.

## 3. What is checked

| Run | Instance | What it shows |
|---|---|---|
| `actor_queries` | 3 battery queries, 1 piece query; channel 2, queue 2 | `TypeOK`, `HeldOnce`, `OneQueryAtATime`, `IdleOwesNothing`, `Bounded`, `QueriesInOrder`, `RefusedOnlyWhenFull` |
| `actor_mixed` | one query, send, subscription, two shutdowns; channel 1, queue 0 | `NoLostReply`, `NobodyLeftWaiting`, `ErrorsAreTrue`, `ShutdownSeesFinalState`, `RunningIsInitialised`, `FinalStateIsTrue`, `NothingServedAfterAnnounce`, `FirstErrorKept`, `LifecycleForward`, `ImplementsService` |
| `actor_liveness` | two queries, one shutdown; channel 1, queue 1 | `EveryCallReturns`, `DroppedHandlesEndActor`, `AnnouncedShutdownEnds` |
| `events` | two subscriptions; capacity 2, up to 3 items | `EventTypeOK`, `ReplayIsExact`, `LagIsEarned`, `EndIsLast` |
| `events_liveness` | one subscription, one query; capacity 1, up to 2 items | `StreamsEnd` |
| `correlation` | two battery queries, one raw command; channel 1, queue 1 | `CorrelationTypeOK`, `StalenessBounded`, `QuietLineHeals` |
| `session` | six values, a buffer of 2, up to 4 notifications | `TypeOK`, `Layered`, `EventsAreExact`, `OutcomesAreTrue` |
| `blocking` | up to 3 notifications waiting | `ResultIsTrue`, `MoveIsFresh`, `ReturnsOnceSilent` |
| `codec` | 64 squares, 34 records, one damaged notification | `FramesFit`, `CommandsAreUnderstood`, `IntactIsExact`, `DamageIsContained`, `ErrorsPointAtDamage` |
| `actor_graceful` | two queries, one shutdown | finding: `ShuttingDownMeansGraceful` is violated |
| `actor_running` | two queries, one shutdown | finding: `RunningAcceptsRequests` is violated |
| `codec_relabel` | as `codec` | finding: `NoPieceIsRelabelled` is violated |

What `correlation` shows of the query path needs a word. The code gives a late
response to the next query of its type, so "a query gets its own answer" is false, and
the code does not claim it. True is that the error is bounded by its causes
(`StalenessBounded`: an answer is at most as many writes too old as there were timeouts
and raw queries of its type before; a cancelled caller causes none) and that it does not
last (`QuietLineHeals`: a query written while no response of its type is due gets its own,
raw queries sent meanwhile aside).

**Bounds.** The set of calls is finite and each call is made once; there is no other
bound on the actor. Four queries are the least that fill a queue of two behind an active
query and overflow it. A channel of one makes the second sender wait, a channel of two
has an order. A queue capacity of zero is allowed by `spawn` and is the edge case of the
queue check. `MaxPublished` bounds the items published; three items on a channel of two
make a lag possible and leave more than one item to read after it. Interchangeable calls
are a symmetry set in the runs that check safety only.

In `correlation`, two queries and a raw command that may carry query bytes are the least
that let one answer be taken for another after a timeout and after a raw query. `MaxSent`
is the number of values a peripheral puts into the stream; four leave room for the
initial position twice (a repeated `initialize`) and for two others, and the six values of
`MCAsyncSession` are one of each case that `receive` and `decode_notification`
distinguish. The buffer of two is shorter than one of them and longer than another.
`MaxPending = 3` lets the initial position, an answer and a later position wait at once.
In `codec`, sizes are the real ones; bounded are the positions the board starts with
(crowded, nearly empty, empty; every piece code in both nibbles), the squares touched (the
corners), the LED patterns, and the damage: `Offsets` are the headers and the first, second
and last bytes of squares and records, `Damages` the bytes at which a decoder changes
course. `MaxFaults = 1` is one damaged notification in a behaviour; the frame is forgotten
before the next one, so a second fault would meet the same states.

**Fairness.** The actor task is scheduled and every transport operation it awaits
completes (weak fairness of the steps between awaits); nothing in the code bounds a
transport operation, and a write that hangs hangs the actor. `select!` picks at random
among ready branches, so a message or an expired deadline that is ready in every round
is taken eventually: strong fairness of `Receive` and `Timeout`. Time passes. The
channel grants room in the order of arrival: strong fairness of `Enqueue`. Nothing is
assumed of the board, which may stay silent for ever, of the callers, or of abort.

In `BlockingClient` the program runs and each of its calls returns (weak fairness of
`Run`): a blocking transport has to return from `receive`, with a timeout if need be, and
the board owes nothing. That is enough only once the board is silent: a board that keeps
notifying without ever answering keeps the example in its loop for ever, so
`ReturnsOnceSilent` starts from silence. The other specifications state safety only.

**Deadlock** is checked in every run; the actor may stop only when it is over and no
handle is left, the sessions only when the program is gone or done.

**Findings.** Two doc comments and a code comment promise more than the code does.

* `HandleError::ShuttingDown`, "Graceful shutdown has started." (`tokio.rs:236`): it is
  also the answer to outstanding calls after a write error, a failed notification or a
  failed startup.
* `LifecycleState::Running`, "Initialization completed and handle requests are
  accepted." (`tokio.rs:216`): after `BoardTask::abort` the watch keeps showing Running
  while every call returns `ActorStopped`.
* `decode_tracked_piece`, "... so firmware changes or corrupt frames cannot silently relabel
  a piece." (`protocol/mod.rs:252-254`): the identity is checked to be one of twelve codes
  and not against its index, so one changed byte turns a pawn into a rook without an error.

Every property has a mutant of the code's model, written next to the definition it
replaces, that violates it: a dropped guard, an off-by-one, a missing reset, a swapped
order, a cleanup that is forgotten.

## 4. What is proved

`TokioActorProofs` proves, from `ConstantsAssumption` alone (a positive channel
capacity, any queue capacity, any set of calls, finite or not), the type invariant, all
the safety invariants of the actor and six action properties.

The safety properties are not inductive. That a waiting caller is held somewhere, for
instance, says nothing about which places are empty when the channel is drained.
`IInv` adds three parts:

* `ControlInv`: what the actor's position says about the channel being open, about the
  places that keep a call, and about the kinds of call in them;
* `LifecycleInv`: what the position says about the lifecycle and the result;
* `TransportInv`: how far startup or cleanup has come, as seen in the transport.

Each conjunct has a lemma with one step per action, and `IInvNext` puts them together.
The action properties have lemmas of the same shape under `IInv`. `LateFacts` bounds
the messages that come behind the drain; `TakeHead` and `AddLast` say what the queue
operations do to the set of elements.

`QueriesInOrder` speaks of pairs: `Ahead(c, d)` says that of two queries in the line from
the channel to the response, `c` comes first. `LineOrdered` shows from `HeldOnce` that this
is an order; `OrderKept`, one step per action, that no step turns a pair around: the pair
stays in order or one of the two has left the line. `OrderTotal`, `OrderAppend` and
`OrderTail` say what the queue operations do to the order of elements (`InOrder`).

Two theorems are the safety half of liveness. `IdleActorOwesNothing`: when only a message
or the board can wake the actor, no caller waits for it, so actor and callers never wait for
each other. `EndIsNear`: the actor never goes back (`Remaining` decreases with each of its
steps outside the loop, whatever fails), so eight steps lead from the end of the loop to the
end of the task. What they leave to TLC is that a step that can be taken is taken.

`Refinement` is `Spec => ImplementsService`, from the same invariant, which fixes the phase
a step starts in: one step per action, each an action of the service or a stutter.
`ServeRefines` covers the actions that answer one call, `FailSomeHolds` those that fail
several at once, `StutterRefines` those a caller cannot see.

`ActorEventsProofs` first shows that a step of `ActorEvents` is a step of `TokioActor` or
leaves it alone (`ActorStep`), so that `IInv` holds of the composition and it implements the
service (`ActorWithin`). `EventInv` adds
that a stream stands inside the log, that it belongs to a call that is over, for such a
call can never be given a second stream, and that it is closed only at the end of a log
that nobody can append to any more. `ReplayInv` states `ReplayIsExact` for all streams;
an entry once yielded stays exact, because the log only grows (`ReplayedStays`), and what is
appended to `received` starts where the last entry ended. `EventAssumption` is all that is
used of the capacities.

`CorrelationProofs` does the same for the actor and its board (`ActorStep`, whose corollary
`ActorWithin` carries the service over). Neither property of the answers is
inductive, and counting along the writes would not make them so. `CorrelationInv` counts
nothing:

* `WrittenInv`: what is written was written once and is past the places where it could be
  written again (`ToCome`);
* `TurnInv`: no query is written before the actor has done with the ones before it,
  by an answer or by giving up;
* `LinkInv`: responses of one type leave in the order of the writes;
* `AnswerInv`: a response is used once, for a query of its type, and of two queries of a
  type the later one gets the later response;
* `CleanInv`: no older response of its type can reach a query written on a quiet line.

Every step is of one of six kinds (`StepKinds`) with a lemma each. The bound follows
without induction (`BoundFollows`): of the earlier writes of a type, those that were
neither given up nor raw were answered, by `TurnInv`, and `AnswerInv` maps them one to one
into the writes older than the answer in question. The rest is arithmetic of finite sets
(`SplitTwice`): what the answer is behind by is no more than what was given up or raw.

`AsyncSessionProofs` proves `TypeOK`, `Layered`, `EventsAreExact` and `OutcomesAreTrue`
from `TransportAssumption`, for every buffer, every set of values and any number of them.
`EventsAreExact` needs `StreamInv`: what waits in the stream is the end of what was sent, so
that the value taken next is the one numbered `Taken + 1`.
`StepInv` records, at each await, what the operations already passed have done to a
peripheral that is still connected; whatever fails or is dropped, the next call starts at
the first operation of its sequence, where nothing is presupposed.

`BlockingClientProofs` proves `MoveIsFresh` and `ResultIsTrue` for any number of waiting
notifications. Freshness is not inductive: `AnswerInv` says that what the board had
answered grows along the queue, so that behind an answer stands nothing older than it.

`CodecProofs` holds for every even width up to 8 (`WidthAssumption`): packing and
unpacking are inverse, a position survives whatever surrounds it, and what is decoded is
always a position. `BoardLinkProofs` takes the real sizes (`SizeAssumption`) and any
boards, patterns, levels, offsets and damages (`LinkAssumption`). The board's order of squares, nibbles
and records is shown to be the program's (`WireOrder`, `BoardPacksSame`, the lemmas on the
records); its invariant says of a frame on the link that its bytes are those of what is
meant, or damaged; and each command and each notification has a lemma that it is
understood. `FramesFit`, `CommandsAreUnderstood` and `IntactIsExact` follow.

`DamageProofs` proves `DamageIsContained` and `ErrorsPointAtDamage` for every byte at every
offset and for every length a notification may be cut to, where the run takes a few of
each. A notification on the link is genuine (`Genuine`: accepted, and with the header and
length that the board gives it) or has been hurt once, and `LinkInv` says of the second
kind already what the properties say of the decoded one. `PositionHurt`, `BatteryHurt`,
`PiecesHurt` and `AcknowledgementHurt` compare two frames that agree but for one byte,
`PositionCut` and `ResponseCut` a frame and its beginning; the `Fine...` lemmas say that
each result a decoder can return is as it should be.

Model-checked only: liveness (`EveryCallReturns`, `DroppedHandlesEndActor`,
`AnnouncedShutdownEnds`, `StreamsEnd`, `ReturnsOnceSilent`), which TLAPS does not prove
under fairness. Every invariant and every action property of the passing runs is a theorem.

## 5. What is not modelled

* Logging and the instrumentation macros, which keep no state; the crate root and feature
  gates; the UUID strings of the GATT constants.
* The two `SpawnError` results, which start nothing; the accepted configurations are
  assumptions on the constants. The `lifecycle()` and `subscribe_lifecycle()` reads, which
  change nothing; the result of awaiting `BoardTask`, beyond `result` itself.
* The wording of errors, and conversions between error types.
* Of the examples, `basic.rs`: it discovers a peripheral and then uses a handle as any
  caller of `TokioActor`. `async_without_tokio.rs` is `blocking_no_std.rs` with awaits.
* Transports other than btleplug; a transport operation that never completes.

What is left out of the environment, and how the statements depend on it:

* The board answers the queries of one type in the order they were written. Were it to
  swap them, `StalenessBounded` would not hold and nothing in the code could restore it.
* btleplug's own notification buffer is unbounded in the model. If it drops values when
  nobody polls, `EventsAreExact` holds of those that it kept.
* The stream of a peripheral outlives `shutdown`: values that wait in it are delivered
  after a second `initialize`, in the model and in the code. A reconnection after a
  disconnection is not modelled, since the adapter has no operation for it.
* The transport of `BlockingClient` keeps the order across characteristics.
* The board of `BoardLink` follows a move at once and takes one command at a time.

## 6. Plan

Done: every module of section 2. What remains, in the order of what it adds:

1. The composition of actor and adapter: a fatal stream error as the `NotificationFails`
   of `TokioActor`, and the actor's startup and cleanup as instances of the session's.
2. What the abstract service promises by itself (an answer is final, nothing is served
   after the first refusal), proved of `BoardService` and carried over by the refinement.
