------------------------- MODULE BtleplugTransport -------------------------
(***************************************************************************)
(* The btleplug adapter of src/src/transport/btleplug.rs, and the btleplug *)
(* peripheral and board behind it as the adapter uses them (external).     *)
(*                                                                         *)
(* Its operations are operators: AsyncSession.tla awaits them.  A value is *)
(* what btleplug yields: the characteristic it came from, and its bytes.   *)
(***************************************************************************)
EXTENDS Integers, Sequences, SequencesExt

CONSTANTS
    BufferLen,  \* the length of the receive buffer
    Values,     \* what the peripheral may notify
    Position,   \* the one of them that the board sends when it is enabled
    MaxSent     \* bound: how many values the peripheral notifies

Bytes == {"ack", "data", "bad"}
Sources == {"Position", "CommandResponse"}

\* gatt.rs: the characteristics the adapter needs, in the order it looks them up.
Required == <<"CommandWrite", "PositionNotification", "CommandResponse">>

\* notification_characteristic
CharacteristicOf ==
    [Position |-> "PositionNotification", CommandResponse |-> "CommandResponse"]

\* receive: which source a value of a characteristic is tagged with.
SourceOf ==
    [PositionNotification |-> "Position", CommandResponse |-> "CommandResponse"]

Notifiable == DOMAIN SourceOf

ASSUME TransportAssumption ==
    /\ BufferLen \in Nat \ {0}
    /\ Values \subseteq [from : Notifiable \cup {"Foreign"}, bytes : Seq(Bytes) \ {<<>>}]
    /\ Position \in Values /\ Position.from = "PositionNotification"
    /\ MaxSent \in Nat

VARIABLES
    connected,  \* is the peripheral connected?
    exposed,    \* the characteristics that its services expose
    notifying,  \* the characteristics it notifies
    realtime,   \* has the board been told to send positions?
    streamOpen, \* has the notification stream been opened?
    stream,     \* the values that the stream still holds, oldest first
    sent,       \* every value that was put into the stream
    missed      \* was a position sent to nobody when the board was enabled?

peripheralVars == <<connected, exposed, notifying, realtime, missed>>
streamVars == <<streamOpen, stream, sent>>
transportVars == <<peripheralVars, streamVars>>

\* An application hands a connected peripheral to the adapter.
TransportInit ==
    /\ connected = TRUE
    /\ exposed \in SUBSET ToSet(Required)
    /\ notifying = {}
    /\ realtime = FALSE
    /\ streamOpen = FALSE
    /\ stream = <<>>
    /\ sent = <<>>
    /\ missed = FALSE

-----------------------------------------------------------------------------
(* The peripheral. *)

\* A value enters the stream if somebody has opened it.
Put(v) ==
    /\ stream' = IF streamOpen THEN Append(stream, v) ELSE stream
    /\ sent' = IF streamOpen THEN Append(sent, v) ELSE sent
    /\ UNCHANGED streamOpen

\* The board notifies, positions only when enabled; another part of the
\* application may have subscribed to a foreign characteristic.
Notify(v) ==
    /\ connected
    /\ Len(sent) < MaxSent
    /\ v.from \in notifying \cup {"Foreign"}
    /\ v = Position => realtime
    /\ Put(v)
    /\ UNCHANGED peripheralVars

Disconnect ==
    /\ connected
    /\ connected' = FALSE
    /\ notifying' = {}
    /\ realtime' = FALSE
    /\ UNCHANGED <<exposed, missed, streamVars>>

-----------------------------------------------------------------------------
(* BtleplugTransport::new. *)

\* find(...)?: the first required characteristic that was not discovered.
Missing == {i \in DOMAIN Required : Required[i] \notin exposed}

MissingCharacteristic ==
    Required[CHOOSE i \in Missing : \A j \in Missing : i <= j]

OpenStream ==
    /\ streamOpen' = TRUE
    /\ UNCHANGED <<peripheralVars, stream, sent>>

-----------------------------------------------------------------------------
(* The operations.  They take effect only while the peripheral is connected. *)

SubscribeSource(source) ==
    /\ notifying' = notifying \cup {CharacteristicOf[source]}
    /\ UNCHANGED <<connected, exposed, realtime, missed, streamVars>>

UnsubscribeSource(source) ==
    /\ notifying' = notifying \ {CharacteristicOf[source]}
    /\ UNCHANGED <<connected, exposed, realtime, missed, streamVars>>

\* enable_realtime_updates: the board sends its current position at once.
WriteEnable ==
    /\ Len(sent) < MaxSent
    /\ realtime' = TRUE
    /\ IF Position.from \in notifying /\ streamOpen
       THEN Put(Position) /\ UNCHANGED missed
       ELSE missed' = TRUE /\ UNCHANGED streamVars
    /\ UNCHANGED <<connected, exposed, notifying>>

\* Any other command: what the board does about it is not modelled.
WriteOther == UNCHANGED transportVars

\* AsyncTransport::close is not overridden.
CloseTransport == UNCHANGED transportVars

-----------------------------------------------------------------------------
(* receive. *)

Notification(source, bytes) == [outcome |-> "Ok", source |-> source, bytes |-> bytes]
Error(name) == [outcome |-> name, source |-> "none", bytes |-> <<>>]

\* copy_from_slice: the tail of the buffer keeps what an earlier value left there.
Copied(buffer, bytes) ==
    [i \in DOMAIN buffer |-> IF i <= Len(bytes) THEN bytes[i] ELSE buffer[i]]

\* &buffer[..actual]
Filled(buffer, n) == SubSeq(buffer, 1, n)

Fits(v) == Len(v.bytes) <= BufferLen

\* What receive makes of the value it took from the stream: checks in this order.
Received(v, buffer) ==
    IF v.from \notin Notifiable
    THEN Error("UnexpectedNotificationCharacteristic")
    ELSE IF ~Fits(v)
    THEN Error("NotificationTooLong")
    ELSE Notification(SourceOf[v.from],
                      Filled(Copied(buffer, v.bytes), Len(v.bytes)))

\* Mutant: the buffer is cut to the length of the notification.
BufferAfterCut(v, buffer) ==
    IF v.from \in Notifiable /\ Fits(v) THEN v.bytes ELSE buffer

BufferAfter(v, buffer) ==
    IF v.from \in Notifiable /\ Fits(v) THEN Copied(buffer, v.bytes) ELSE buffer

TakeValue ==
    /\ stream # <<>>
    /\ stream' = Tail(stream)
    /\ UNCHANGED <<streamOpen, sent, peripheralVars>>

\* next() yields None: the backend has given up the stream.
StreamEnded == stream = <<>> /\ ~connected
=============================================================================
