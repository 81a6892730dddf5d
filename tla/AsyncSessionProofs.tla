------------------------ MODULE AsyncSessionProofs ------------------------
(***************************************************************************)
(* Proofs about AsyncSession for every buffer length, every set of values  *)
(* and any number of notifications.                                        *)
(*                                                                         *)
(* Layered and ReturnIsTrue hold because a session that fails half way     *)
(* can only be taken up at the first operation of a call: StepInv records  *)
(* what the operations already passed have done to the peripheral.         *)
(***************************************************************************)
EXTENDS AsyncSession, TLAPS

-----------------------------------------------------------------------------
(* The inductive invariant. *)

\* What is known of the peripheral where a call waits for an operation.
StepInv ==
  /\ ~connected => notifying = {} /\ ~realtime
  /\ pc \notin Construction \cup {"gone"} => streamOpen
  /\ connected /\ pc = "enableRealtime" => "PositionNotification" \in notifying
  /\ connected /\ pc = "subscribeResponse" =>
        /\ "PositionNotification" \in notifying
        /\ realtime
        /\ Position \in ToSet(sent)
  /\ pc = "unsubscribePosition" => "CommandResponse" \notin notifying
  /\ pc = "close" => notifying = {}

Buffers == [1 .. BufferLen -> Bytes \cup {"zero"}]

\* The events that next_event can return.
Events == {EventOf(Received(v, b)) : v \in Values, b \in Buffers}
Entries == [at : Nat, event : Events]

SeenInv == seen \in Seq(Entries)

\* The stream holds the values sent last, in the order they were sent.
StreamInv ==
  /\ Len(stream) <= Len(sent)
  /\ \A i \in 1 .. Len(stream) : stream[i] = sent[Taken + i]

IInv ==
  /\ TypeOK
  /\ SeenInv
  /\ StreamInv
  /\ EventsAreExact
  /\ StepInv
  /\ Layered

-----------------------------------------------------------------------------
(* The stream. *)

\* What is appended to a sequence is in it, and so is all that was in it before.
LEMMA AppendedSet ==
  ASSUME NEW S, NEW s \in Seq(S), NEW e \in S
  PROVE  /\ Append(s, e) \in Seq(S)
         /\ e \in ToSet(Append(s, e))
         /\ ToSet(s) \subseteq ToSet(Append(s, e))
<1>1. /\ Len(s) \in Nat
      /\ DOMAIN s = 1 .. Len(s)
      /\ DOMAIN Append(s, e) = 1 .. (Len(s) + 1)
      /\ \A i \in 1 .. Len(s) : Append(s, e)[i] = s[i]
      /\ Append(s, e)[Len(s) + 1] = e
  OBVIOUS
<1>2. e \in ToSet(Append(s, e))
  BY <1>1 DEF ToSet
<1>3. ASSUME NEW i \in DOMAIN s PROVE s[i] \in ToSet(Append(s, e))
  BY <1>1 DEF ToSet
<1>4. ToSet(s) \subseteq ToSet(Append(s, e))
  BY <1>3 DEF ToSet
<1> QED
  BY <1>2, <1>4

\* A value put into the stream keeps what was sent, and is sent if it is open.
LEMMA PutSent ==
  ASSUME NEW v \in Values, TypeOK, Put(v)
  PROVE  /\ stream' \in Seq(Values) /\ sent' \in Seq(Values) /\ streamOpen' = streamOpen
         /\ ToSet(sent) \subseteq ToSet(sent')
         /\ streamOpen => v \in ToSet(sent')
BY AppendedSet DEF TypeOK, Put

\* An event is tagged with a source, or is an error of the transport.
LEMMA EventSource == \A e \in Events : e.source \in Sources \cup {"none"}
<1> SUFFICES ASSUME NEW v \in Values, NEW b \in Buffers
             PROVE  EventOf(Received(v, b)).source \in Sources \cup {"none"}
  BY DEF Events
<1>1. CASE v.from \notin Notifiable \/ ~Fits(v)
  <2>1. PICK name \in {"UnexpectedNotificationCharacteristic", "NotificationTooLong"} :
              Received(v, b) = Error(name)
    BY <1>1 DEF Received
  <2> QED
    BY <2>1 DEF Error, EventOf
<1>2. CASE v.from \in Notifiable /\ Fits(v)
  <2> DEFINE n == Notification(SourceOf[v.from], Filled(Copied(b, v.bytes), Len(v.bytes)))
  <2>1. Received(v, b) = n
    BY <1>2 DEF Received
  <2>2. n.source = SourceOf[v.from] /\ SourceOf[v.from] \in Sources
    BY <1>2 DEF Notification, Notifiable, SourceOf, Sources
  <2>3. EventOf(n).source = n.source
    BY DEF EventOf, Notification
  <2> QED
    BY <2>1, <2>2, <2>3
<1> QED
  BY <1>1, <1>2

\* Copying a value into the buffer keeps its length.
LEMMA BufferType ==
  ASSUME NEW v \in Values, NEW b \in Buffers
  PROVE  BufferAfter(v, b) \in Buffers
<1>1. /\ v.bytes \in Seq(Bytes)
      /\ Len(v.bytes) \in Nat
      /\ \A i \in 1 .. Len(v.bytes) : v.bytes[i] \in Bytes
  BY TransportAssumption
<1>2. Copied(b, v.bytes) \in Buffers
  BY <1>1, TransportAssumption DEF Copied, Buffers
<1> QED
  BY <1>2 DEF BufferAfter

-----------------------------------------------------------------------------
(* Types. *)

LEMMA TypeInit == Init => TypeOK /\ SeenInv
<1>1. Init => SeenInv
  BY DEF Init, SeenInv
<1>2. Init => buffer \in [1 .. BufferLen -> Bytes \cup {"zero"}] /\ DOMAIN seen = {}
  BY DEF Init
<1>3. Init => TypeOK
  <2>1. Init => /\ connected \in BOOLEAN /\ realtime \in BOOLEAN /\ streamOpen \in BOOLEAN
                /\ missed \in BOOLEAN
                /\ exposed \subseteq ToSet(Required)
                /\ notifying \subseteq Notifiable
    BY Zenon DEF Init, TransportInit
  <2>2. Init => stream \in Seq(Values) /\ sent \in Seq(Values)
    BY DEF Init, TransportInit
  <2>3. Init => pc \in Awaits
    BY DEF Init, Awaits, Construction
  <2> QED
    BY <1>2, <2>1, <2>2, <2>3 DEF TypeOK
<1> QED
  BY <1>1, <1>3

\* The operations keep the types of the peripheral and the stream.
LEMMA EffectTypes ==
  ASSUME TypeOK, NEW op \in Operations, Effect(op) \/ UNCHANGED transportVars
  PROVE  /\ connected' \in BOOLEAN /\ realtime' \in BOOLEAN /\ streamOpen' \in BOOLEAN
         /\ missed' \in BOOLEAN
         /\ exposed' \subseteq ToSet(Required)
         /\ notifying' \subseteq Notifiable
         /\ stream' \in Seq(Values) /\ sent' \in Seq(Values)
<1>1. CASE UNCHANGED transportVars
  BY <1>1 DEF TypeOK, transportVars, peripheralVars, streamVars
<1>2. CASE op \in {"subscribePosition", "subscribeResponse"} /\ Effect(op)
  BY <1>2 DEF TypeOK, Effect, SubscribeSource, streamVars, CharacteristicOf, Notifiable, SourceOf
<1>3. CASE op \in {"unsubscribePosition", "unsubscribeResponse"} /\ Effect(op)
  BY <1>3 DEF TypeOK, Effect, UnsubscribeSource, streamVars
<1>4. CASE op = "enableRealtime" /\ Effect(op)
  <2>1. WriteEnable
    BY <1>4 DEF Effect
  <2>2. Position \in Values
    BY TransportAssumption
  <2> QED
    BY <2>1, <2>2, PutSent DEF TypeOK, WriteEnable, streamVars
<1>5. CASE op \in {"write", "close"} /\ Effect(op)
  BY <1>5 DEF TypeOK, Effect, WriteOther, CloseTransport, transportVars, peripheralVars, streamVars
<1> QED
  BY <1>1, <1>2, <1>3, <1>4, <1>5 DEF Operations, InitializeOps, ShutdownOps

\* The environment keeps them too.
LEMMA PeripheralTypes ==
  ASSUME TypeOK, Peripheral
  PROVE  TypeOK'
<1>1. CASE Disconnect
  BY <1>1 DEF TypeOK, Peripheral, Disconnect, sessionVars, streamVars
<1>2. ASSUME NEW v \in Values, Notify(v) PROVE TypeOK'
  BY <1>2, PutSent DEF TypeOK, Peripheral, Notify, sessionVars, peripheralVars
<1> QED
  BY <1>1, <1>2 DEF Peripheral

LEMMA TypeNext == TypeOK /\ SeenInv /\ StreamInv /\ [Next]_vars => TypeOK' /\ SeenInv'
<1> SUFFICES ASSUME TypeOK, SeenInv, StreamInv, [Next]_vars PROVE TypeOK' /\ SeenInv'
  OBVIOUS
<1> USE DEF TypeOK, SeenInv, Awaits, Construction
<1>1. CASE Discovered
  BY <1>1 DEF Discovered, transportVars, peripheralVars, streamVars
<1>2. CASE StreamOpened
  BY <1>2 DEF StreamOpened, OpenStream, peripheralVars
<1>3. CASE NewFails
  BY <1>3 DEF NewFails, transportVars, peripheralVars, streamVars
<1>4. ASSUME NEW m \in Methods, Call(m) PROVE TypeOK' /\ SeenInv'
  BY <1>4 DEF Call, Methods, FirstStep, transportVars, peripheralVars, streamVars, Operations,
              InitializeOps, ShutdownOps
<1>5. ASSUME NEW op \in Operations, Succeed(op) PROVE TypeOK' /\ SeenInv'
  <2>1. pc' \in Operations \cup {"idle"}
    BY <1>5 DEF Succeed, NextStep, Operations, InitializeOps, ShutdownOps
  <2> QED
    BY <1>5, <2>1, EffectTypes DEF Succeed
<1>6. ASSUME NEW op \in Operations, Fail(op) \/ Drop(op) PROVE TypeOK' /\ SeenInv'
  <2>1. Effect(op) \/ UNCHANGED transportVars
    BY <1>6 DEF Fail, Drop, MayTakeEffect
  <2> QED
    BY <1>6, <2>1, EffectTypes DEF Fail, Drop
<1>7. CASE NextAcknowledged \/ NextReturns
  <2>1. Head(stream) \in Values /\ stream' \in Seq(Values)
    <3>1. stream # <<>> /\ stream' = Tail(stream)
      BY <1>7 DEF NextAcknowledged, NextReturns, TakeValue
    <3>2. stream \in Seq(Values)
      OBVIOUS
    <3> QED
      BY <3>1, <3>2
  <2> DEFINE event == EventOf(Received(Head(stream), buffer))
  <2> DEFINE e == [at |-> Taken + 1, event |-> event]
  <2>2. /\ buffer \in Buffers
        /\ e \in Entries
        /\ BufferAfter(Head(stream), buffer) \in Buffers
    <3>1. buffer \in Buffers
      BY DEF Buffers
    <3>2. event \in Events
      BY <2>1, <3>1 DEF Events
    <3>3. Taken + 1 \in Nat
      BY DEF StreamInv, Taken
    <3>4. e \in Entries
      BY <3>2, <3>3 DEF Entries
    <3> QED
      BY <2>1, <3>1, <3>4, BufferType
  <2> HIDE DEF e, event
  <2>3. seen' = seen \/ seen' = Append(seen, e)
    BY <1>7 DEF e, event, NextAcknowledged, NextReturns, Kept
  <2>4. seen' \in Seq(Entries)
    <3>1. seen \in Seq(Entries)
      OBVIOUS
    <3> QED
      BY <2>2, <2>3, <3>1, AppendedSet, Zenon
  <2>5. \A i \in DOMAIN seen' : seen'[i] \in Entries
    BY <2>4
  <2>6. \A i \in DOMAIN seen' : seen'[i].event.source \in Sources \cup {"none"}
    BY <2>5, EventSource DEF Entries
  <2> QED
    BY <1>7, <2>1, <2>2, <2>4, <2>6 DEF Buffers, NextAcknowledged, NextReturns, TakeValue, peripheralVars
<1>8. CASE NextEnds \/ DropNext
  BY <1>8 DEF NextEnds, DropNext, transportVars, peripheralVars, streamVars
<1>9. CASE DropSession
  BY <1>9 DEF DropSession, transportVars, peripheralVars, streamVars
<1>10. CASE Peripheral
  BY <1>10, PeripheralTypes DEF Peripheral, sessionVars
<1>11. CASE Gone \/ UNCHANGED vars
  BY <1>11 DEF Gone, vars, sessionVars, transportVars, peripheralVars, streamVars
<1> QED
  BY <1>1, <1>2, <1>3, <1>4, <1>5, <1>6, <1>7, <1>8, <1>9, <1>10, <1>11 DEF Next

-----------------------------------------------------------------------------
(* The steps of a call. *)

\* What one operation does, whether or not its call learns of it, keeps the layers.
LEMMA EffectLayers ==
  ASSUME IInv, NEW op \in Operations, pc = op, (connected /\ Effect(op)) \/ UNCHANGED transportVars
  PROVE  /\ Layered'
         /\ ~connected' => notifying' = {} /\ ~realtime'
         /\ streamOpen'
<1>1. CASE UNCHANGED transportVars
  BY <1>1 DEF IInv, StepInv, Layered, transportVars, peripheralVars, streamVars, Operations,
              InitializeOps, ShutdownOps, Construction
<1>2. CASE connected /\ Effect(op)
  <2> USE <1>2 DEF IInv, StepInv, Layered
  <2>1. streamOpen
    BY DEF Operations, InitializeOps, ShutdownOps, Construction
  <2>2. CASE op = "subscribePosition"
    BY <2>1, <2>2 DEF Effect, SubscribeSource, streamVars, CharacteristicOf
  <2>3. CASE op = "subscribeResponse"
    BY <2>1, <2>3 DEF Effect, SubscribeSource, streamVars, CharacteristicOf
  <2>4. CASE op = "unsubscribePosition"
    BY <2>1, <2>4 DEF Effect, UnsubscribeSource, streamVars, CharacteristicOf
  <2>5. CASE op = "unsubscribeResponse"
    BY <2>1, <2>5 DEF Effect, UnsubscribeSource, streamVars, CharacteristicOf
  <2>6. CASE op = "enableRealtime"
    BY <2>1, <2>6 DEF Effect, WriteEnable, Put, streamVars
  <2>7. CASE op \in {"write", "close"}
    BY <2>1, <2>7 DEF Effect, WriteOther, CloseTransport, transportVars, peripheralVars, streamVars
  <2> QED
    BY <2>2, <2>3, <2>4, <2>5, <2>6, <2>7 DEF Operations, InitializeOps, ShutdownOps
<1> QED
  BY <1>1, <1>2

\* An operation that succeeds brings about what the next one relies on.
LEMMA SucceedStep ==
  ASSUME IInv, NEW op \in Operations, Succeed(op)
  PROVE  StepInv' /\ Layered'
<1>1. /\ Layered'
      /\ ~connected' => notifying' = {} /\ ~realtime'
      /\ streamOpen'
  BY EffectLayers DEF Succeed, Effect, CloseTransport
<1> USE DEF IInv, StepInv, Construction
<1>2. CASE op = "subscribePosition"
  BY <1>1, <1>2 DEF Succeed, NextStep, Effect, SubscribeSource, CharacteristicOf
<1>3. CASE op = "enableRealtime"
  <2>1. connected /\ "PositionNotification" \in notifying /\ WriteEnable /\ pc' = "subscribeResponse"
    BY <1>3 DEF Succeed, NextStep, Effect
  <2>2. streamOpen
    BY <1>3 DEF Succeed
  <2>3. Position \in Values /\ Position.from = "PositionNotification"
    BY TransportAssumption
  <2>4. Put(Position) /\ notifying' = notifying /\ realtime'
    BY <2>1, <2>2, <2>3 DEF WriteEnable
  <2>5. Position \in ToSet(sent')
    BY <2>2, <2>3, <2>4, PutSent
  <2> QED
    BY <1>1, <2>1, <2>4, <2>5
<1>4. CASE op \in {"subscribeResponse", "write", "close"}
  BY <1>1, <1>4 DEF Succeed, NextStep
<1>5. CASE op = "unsubscribeResponse"
  BY <1>1, <1>5 DEF Succeed, NextStep, Effect, UnsubscribeSource, CharacteristicOf
<1>6. CASE op = "unsubscribePosition"
  <2>1. /\ notifying' = notifying \ {"PositionNotification"}
        /\ "CommandResponse" \notin notifying
        /\ pc' = "close"
    BY <1>6 DEF Succeed, NextStep, Effect, UnsubscribeSource, CharacteristicOf
  <2>2. notifying \subseteq {"PositionNotification", "CommandResponse"}
    BY DEF TypeOK, Notifiable, SourceOf
  <2>3. notifying' = {}
    BY <2>1, <2>2
  <2> QED
    BY <1>1, <2>1, <2>3
<1> QED
  BY <1>2, <1>3, <1>4, <1>5, <1>6 DEF Operations, InitializeOps, ShutdownOps

\* A value or a lost connection leaves what was done as it was, or undoes it all.
LEMMA PeripheralStep ==
  ASSUME IInv, Peripheral
  PROVE  StepInv' /\ Layered'
<1>1. CASE Disconnect
  BY <1>1 DEF IInv, StepInv, Layered, Peripheral, Disconnect, sessionVars, streamVars
<1>2. ASSUME NEW v \in Values, Notify(v) PROVE StepInv' /\ Layered'
  <2>1. /\ ToSet(sent) \subseteq ToSet(sent')
        /\ streamOpen' = streamOpen
        /\ UNCHANGED <<peripheralVars, pc>>
    BY <1>2, PutSent DEF IInv, Notify, Peripheral, sessionVars
  <2> QED
    BY <2>1 DEF IInv, StepInv, Layered, peripheralVars
<1> QED
  BY <1>1, <1>2 DEF Peripheral

LEMMA StepNext == IInv /\ [Next]_vars => StepInv' /\ Layered'
<1> SUFFICES ASSUME IInv, [Next]_vars PROVE StepInv' /\ Layered'
  OBVIOUS
<1>1. CASE Discovered \/ NewFails
  BY <1>1 DEF Discovered, NewFails, IInv, StepInv, Layered, Construction, transportVars,
              peripheralVars, streamVars
<1>2. CASE StreamOpened
  BY <1>2 DEF StreamOpened, OpenStream, IInv, StepInv, Layered, Construction, peripheralVars
<1>3. ASSUME NEW m \in Methods, Call(m) PROVE StepInv' /\ Layered'
  <2>1. pc = "idle" /\ pc' \in {"subscribePosition", "write", "next", "unsubscribeResponse"}
    BY <1>3 DEF Call, Methods, FirstStep
  <2> QED
    BY <1>3, <2>1 DEF Call, IInv, StepInv, Layered, Construction, transportVars, peripheralVars,
                      streamVars
<1>4. ASSUME NEW op \in Operations, Succeed(op) PROVE StepInv' /\ Layered'
  BY <1>4, SucceedStep
<1>5. ASSUME NEW op \in Operations, Fail(op) \/ Drop(op) PROVE StepInv' /\ Layered'
  BY <1>5, EffectLayers DEF Fail, Drop, MayTakeEffect, StepInv
<1>6. CASE NextAcknowledged \/ NextReturns
  BY <1>6 DEF NextAcknowledged, NextReturns, TakeValue, IInv, StepInv, Layered, Construction,
              peripheralVars
<1>7. CASE NextEnds \/ DropNext \/ DropSession
  BY <1>7 DEF NextEnds, DropNext, DropSession, IInv, StepInv, Layered, Construction,
              transportVars, peripheralVars, streamVars
<1>8. CASE Peripheral
  BY <1>8, PeripheralStep
<1>9. CASE Gone \/ UNCHANGED vars
  BY <1>9 DEF Gone, vars, IInv, StepInv, Layered, sessionVars, transportVars, peripheralVars,
              streamVars
<1> QED
  BY <1>1, <1>2, <1>3, <1>4, <1>5, <1>6, <1>7, <1>8, <1>9 DEF Next

-----------------------------------------------------------------------------
(* What next_event makes of the stream. *)

\* The bytes that receive hands on are the bytes of the value, whatever the buffer
\* held before.
LEMMA BytesExact ==
  ASSUME NEW v \in Values, NEW b \in Buffers, Fits(v)
  PROVE  Filled(Copied(b, v.bytes), Len(v.bytes)) = v.bytes
<1> DEFINE n == Len(v.bytes)
<1> DEFINE c == Copied(b, v.bytes)
<1>1. v.bytes \in Seq(Bytes) /\ n \in Nat /\ n <= BufferLen /\ BufferLen \in Nat
  BY TransportAssumption DEF Fits
<1>2. \A i \in 1 .. n : c[i] = v.bytes[i]
  BY <1>1 DEF Copied, Buffers
<1> HIDE DEF c
<1>3. SubSeq(c, 1, n) = [i \in 1 .. n |-> c[i]]
  BY <1>1
<1>4. v.bytes = [i \in 1 .. n |-> v.bytes[i]]
  BY <1>1
<1> HIDE DEF n
<1> QED
  BY <1>2, <1>3, <1>4 DEF Filled, c, n

\* The event made of a value is the one the caller has to see, and a value is kept
\* from the caller exactly when it is an acknowledgement that can be received.
LEMMA EventFaithful ==
  ASSUME NEW v \in Values, NEW b \in Buffers
  PROVE  /\ Faithful(EventOf(Received(v, b)), v)
         /\ Visible(v) <=> ~(Received(v, b).outcome = "Ok" /\ IsAcknowledgement(Received(v, b)))
<1>1. CASE v.from \notin Notifiable
  BY <1>1 DEF Received, Error, EventOf, Faithful, Visible, Notifiable, SourceOf
<1>2. CASE v.from \in Notifiable /\ ~Fits(v)
  BY <1>2 DEF Received, Error, EventOf, Faithful, Visible
<1>3. CASE v.from \in Notifiable /\ Fits(v)
  <2> DEFINE n == Notification(SourceOf[v.from], v.bytes)
  <2>1. Received(v, b) = n
    BY <1>3, BytesExact DEF Received
  <2>2. n.outcome = "Ok" /\ n.source = SourceOf[v.from] /\ n.bytes = v.bytes
    BY DEF Notification
  <2>3. /\ EventOf(n).outcome = IF Head(v.bytes) = "bad" THEN "Decode" ELSE "Ok"
        /\ EventOf(n).source = n.source /\ EventOf(n).bytes = n.bytes
    BY DEF EventOf, Notification
  <2>4. /\ CharacteristicOf[SourceOf[v.from]] = v.from
        /\ v.from = "CommandResponse" <=> SourceOf[v.from] = "CommandResponse"
    BY <1>3 DEF CharacteristicOf, SourceOf, Notifiable
  <2> HIDE DEF n
  <2> QED
    BY <1>3, <2>1, <2>2, <2>3, <2>4 DEF Faithful, Visible, IsAcknowledgement
<1> QED
  BY <1>1, <1>2, <1>3

\* The value at the head of the stream is the next one sent.
LEMMA TakeFacts ==
  ASSUME TypeOK, StreamInv, TakeValue
  PROVE  /\ Taken \in Nat /\ Taken + 1 \in 1 .. Len(sent)
         /\ sent' = sent /\ Taken' = Taken + 1
         /\ Head(stream) \in Values /\ Head(stream) = sent[Taken + 1]
         /\ StreamInv'
<1>1. stream \in Seq(Values) /\ sent \in Seq(Values) /\ stream # <<>> /\ stream' = Tail(stream)
      /\ sent' = sent
  BY DEF TypeOK, TakeValue
<1> DEFINE m == Len(stream)
<1> DEFINE n == Len(sent)
<1>2. /\ m \in Nat /\ n \in Nat /\ m > 0 /\ m <= n /\ Len(stream') = m - 1
      /\ Head(stream) = stream[1] /\ Head(stream) \in Values
      /\ \A i \in 1 .. (m - 1) : stream'[i] = stream[i + 1]
  BY <1>1 DEF StreamInv
<1>3. \A i \in 1 .. m : stream[i] = sent[(n - m) + i]
  BY DEF StreamInv, Taken
<1>4. Taken = n - m /\ Taken' = n - (m - 1)
  BY <1>1, <1>2 DEF Taken
<1> HIDE DEF m, n
<1>5. Taken \in Nat /\ Taken + 1 \in 1 .. n /\ Taken' = Taken + 1
  BY <1>2, <1>4
<1>6. 1 \in 1 .. m
  BY <1>2
<1>7. ASSUME NEW i \in 1 .. (m - 1) PROVE stream'[i] = sent[Taken' + i]
  <2>1. i + 1 \in 1 .. m /\ (n - m) + (i + 1) = (n - (m - 1)) + i
    BY <1>2
  <2> QED
    BY <1>2, <1>3, <1>4, <2>1
<1>8. StreamInv'
  BY <1>1, <1>2, <1>7 DEF StreamInv, n
<1> QED
  BY <1>1, <1>2, <1>3, <1>4, <1>5, <1>6, <1>8 DEF n

\* A value put into the stream goes behind all others, here and in what was sent.
LEMMA PutFacts ==
  ASSUME TypeOK, StreamInv, NEW v \in Values, Put(v)
  PROVE  /\ StreamInv' /\ Taken' = Taken
         /\ \A k \in 1 .. Taken : sent'[k] = sent[k]
<1> DEFINE m == Len(stream)
<1> DEFINE n == Len(sent)
<1>1. stream \in Seq(Values) /\ sent \in Seq(Values) /\ m \in Nat /\ n \in Nat /\ m <= n
  BY DEF TypeOK, StreamInv
<1>2. \A i \in 1 .. m : stream[i] = sent[(n - m) + i]
  BY DEF StreamInv, Taken
<1>3. CASE ~streamOpen
  BY <1>1, <1>2, <1>3 DEF Put, StreamInv, Taken
<1>4. CASE streamOpen
  <2>1. stream' = Append(stream, v) /\ sent' = Append(sent, v)
    BY <1>4 DEF Put
  <2>2. /\ Len(stream') = m + 1 /\ Len(sent') = n + 1
        /\ \A i \in 1 .. m : stream'[i] = stream[i]
        /\ \A i \in 1 .. n : sent'[i] = sent[i]
        /\ stream'[m + 1] = v /\ sent'[n + 1] = v
    BY <1>1, <2>1
  <2>3. Taken = n - m /\ Taken' = n - m
    BY <1>1, <2>2 DEF Taken
  <2> HIDE DEF m, n
  <2>4. ASSUME NEW i \in 1 .. (m + 1) PROVE stream'[i] = sent'[(n - m) + i]
    <3>1. CASE i = m + 1
      <4>1. (n - m) + i = n + 1
        BY <1>1, <3>1
      <4> QED
        BY <2>2, <3>1, <4>1
    <3>2. CASE i \in 1 .. m
      <4>1. (n - m) + i \in 1 .. n
        BY <1>1, <3>2
      <4> QED
        BY <1>2, <2>2, <3>2, <4>1
    <3> QED
      BY <1>1, <3>1, <3>2
  <2>5. StreamInv'
    BY <1>1, <2>2, <2>3, <2>4 DEF StreamInv
  <2>6. \A k \in 1 .. Taken : k \in 1 .. n
    BY <1>1, <2>3
  <2> QED
    BY <2>2, <2>3, <2>5, <2>6
<1> QED
  BY <1>3, <1>4

\* While nothing is taken, what was seen stays exact.
LEMMA ExactKept ==
  ASSUME EventsAreExact, seen' = seen, Taken' = Taken, \A k \in 1 .. Taken : sent'[k] = sent[k]
  PROVE  EventsAreExact'
<1>1. \A i \in DOMAIN seen : seen[i].at \in 1 .. Taken
  BY DEF EventsAreExact
<1>2. {k \in 1 .. Taken : Visible(sent[k])}' = {k \in 1 .. Taken : Visible(sent[k])}
  BY DEF Visible
<1>3. \A i \in DOMAIN seen : sent'[seen[i].at] = sent[seen[i].at]
  BY <1>1
<1> QED
  BY <1>2, <1>3 DEF EventsAreExact

\* Values enter the stream only by Put, and leave it only by TakeValue.
LEMMA StreamMoves ==
  ASSUME [Next]_vars
  PROVE  \/ NextAcknowledged \/ NextReturns
         \/ UNCHANGED <<seen, stream, sent>>
         \/ UNCHANGED seen /\ \E v \in Values : Put(v)
<1> DEFINE Moved == UNCHANGED <<stream, sent>> \/ \E v \in Values : Put(v)
<1>1. ASSUME NEW op \in Operations, Effect(op) \/ UNCHANGED transportVars PROVE Moved
  <2>1. Position \in Values
    BY TransportAssumption
  <2>2. CASE op = "enableRealtime"
    BY <1>1, <2>1, <2>2 DEF Effect, WriteEnable, transportVars, streamVars
  <2>3. CASE op # "enableRealtime"
    BY <1>1, <2>3 DEF Effect, SubscribeSource, UnsubscribeSource, WriteOther, CloseTransport,
                      transportVars, streamVars, Operations, InitializeOps, ShutdownOps
  <2> QED
    BY <2>2, <2>3
<1>2. ASSUME NEW op \in Operations, Succeed(op) \/ Fail(op) \/ Drop(op)
      PROVE  UNCHANGED seen /\ Moved
  <2>1. UNCHANGED seen /\ (Effect(op) \/ UNCHANGED transportVars)
    BY <1>2 DEF Succeed, Fail, Drop, MayTakeEffect
  <2> QED
    BY <1>1, <2>1
<1>3. ASSUME NEW m \in Methods, Call(m) PROVE UNCHANGED <<seen, stream, sent>>
  BY <1>3 DEF Call, transportVars, streamVars
<1>4. Discovered \/ StreamOpened \/ NewFails \/ NextEnds \/ DropNext \/ DropSession \/ Gone
        \/ UNCHANGED vars => UNCHANGED <<seen, stream, sent>>
  BY DEF Discovered, StreamOpened, OpenStream, NewFails, NextEnds, DropNext, DropSession, Gone,
         vars, sessionVars, transportVars, streamVars
<1>5. Peripheral => UNCHANGED seen /\ Moved
  BY DEF Peripheral, Notify, Disconnect, sessionVars, streamVars
<1> QED
  BY <1>2, <1>3, <1>4, <1>5 DEF Next

LEMMA StreamNext == IInv /\ [Next]_vars => StreamInv'
<1> SUFFICES ASSUME IInv, [Next]_vars PROVE StreamInv'
  OBVIOUS
<1>1. CASE NextAcknowledged \/ NextReturns
  BY <1>1, TakeFacts DEF IInv, NextAcknowledged, NextReturns
<1>2. CASE UNCHANGED <<stream, sent>>
  BY <1>2 DEF IInv, StreamInv, Taken
<1>3. CASE \E v \in Values : Put(v)
  BY <1>3, PutFacts DEF IInv
<1> QED
  BY <1>1, <1>2, <1>3, StreamMoves

\* Of a value that is taken, next_event either returns its event, or it is an
\* acknowledgement.
LEMMA TakenExact ==
  ASSUME IInv, NextAcknowledged \/ NextReturns
  PROVE  EventsAreExact'
<1> DEFINE t == Taken
<1> DEFINE v == Head(stream)
<1> DEFINE event == EventOf(Received(v, buffer))
<1> DEFINE e == [at |-> t + 1, event |-> event]
<1>1. /\ t \in Nat /\ t + 1 \in 1 .. Len(sent) /\ sent' = sent /\ Taken' = t + 1
      /\ v \in Values /\ v = sent[t + 1]
  BY TakeFacts DEF IInv, NextAcknowledged, NextReturns
<1>2. buffer \in Buffers
  BY DEF IInv, TypeOK, Buffers
<1>3. Faithful(event, v)
  BY <1>1, <1>2, EventFaithful
<1>4. \/ ~Visible(v) /\ seen' = seen
      \/ Visible(v) /\ seen' = Append(seen, e)
  <2>1. Visible(v) <=> ~(Received(v, buffer).outcome = "Ok" /\ IsAcknowledgement(Received(v, buffer)))
    BY <1>1, <1>2, EventFaithful
  <2>2. CASE NextAcknowledged
    BY <2>1, <2>2 DEF NextAcknowledged
  <2>3. CASE NextReturns
    BY <2>1, <2>3 DEF NextReturns, Kept
  <2> QED
    BY <2>2, <2>3
<1>5. e.at = t + 1 /\ e.event = event
  OBVIOUS
<1> HIDE DEF e, event, v
<1>6. /\ seen \in Seq(Entries)
      /\ {seen[i].at : i \in DOMAIN seen} = {k \in 1 .. t : Visible(sent[k])}
      /\ \A i, j \in DOMAIN seen : i < j => seen[i].at < seen[j].at
      /\ \A i \in DOMAIN seen : Faithful(seen[i].event, sent[seen[i].at])
  BY DEF IInv, SeenInv, EventsAreExact
<1> HIDE DEF t
<1>7. 1 .. (t + 1) = (1 .. t) \cup {t + 1}
  BY <1>1
<1>8. CASE ~Visible(v) /\ seen' = seen
  <2>1. {k \in 1 .. (t + 1) : Visible(sent[k])} = {k \in 1 .. t : Visible(sent[k])}
    BY <1>1, <1>7, <1>8
  <2> QED
    BY <1>1, <1>6, <1>8, <2>1 DEF EventsAreExact
<1>9. CASE Visible(v) /\ seen' = Append(seen, e)
  <2> DEFINE n == Len(seen)
  <2>1. /\ n \in Nat /\ DOMAIN seen = 1 .. n /\ DOMAIN seen' = 1 .. (n + 1)
        /\ \A i \in 1 .. n : seen'[i] = seen[i]
        /\ seen'[n + 1] = e
    BY <1>6, <1>9
  <2> HIDE DEF n
  <2>2. \A i \in DOMAIN seen' : i \in 1 .. n \/ i = n + 1
    BY <2>1
  <2>3. \A i \in 1 .. n : seen[i].at \in 1 .. t
    BY <1>6, <2>1
  <2>4. {seen'[i].at : i \in DOMAIN seen'} = {seen[i].at : i \in DOMAIN seen} \cup {t + 1}
    <3>1. ASSUME NEW i \in DOMAIN seen'
          PROVE  seen'[i].at \in {seen[j].at : j \in DOMAIN seen} \cup {t + 1}
      BY <1>5, <2>1, <2>2
    <3>2. ASSUME NEW i \in DOMAIN seen PROVE seen[i].at \in {seen'[j].at : j \in DOMAIN seen'}
      <4>1. i \in DOMAIN seen' /\ seen'[i] = seen[i]
        BY <2>1
      <4> QED
        BY <4>1
    <3>3. t + 1 \in {seen'[j].at : j \in DOMAIN seen'}
      <4>1. n + 1 \in DOMAIN seen' /\ seen'[n + 1].at = t + 1
        BY <1>5, <2>1
      <4> QED
        BY <4>1
    <3> QED
      BY <3>1, <3>2, <3>3
  <2>5. {k \in 1 .. (t + 1) : Visible(sent[k])} = {k \in 1 .. t : Visible(sent[k])} \cup {t + 1}
    BY <1>1, <1>7, <1>9
  <2>6. ASSUME NEW i \in DOMAIN seen', NEW j \in DOMAIN seen', i < j
        PROVE  seen'[i].at < seen'[j].at
    <3>1. i \in 1 .. n
      BY <2>1, <2>6
    <3>2. CASE j = n + 1
      BY <1>1, <1>5, <2>1, <2>3, <3>1, <3>2
    <3>3. CASE j \in 1 .. n
      BY <1>6, <2>1, <2>6, <3>1, <3>3
    <3> QED
      BY <2>2, <3>2, <3>3
  <2>7. \A i \in DOMAIN seen' : Faithful(seen'[i].event, sent[seen'[i].at])
    <3>1. Faithful(e.event, sent[e.at])
      BY <1>1, <1>3, <1>5
    <3> QED
      BY <1>6, <2>1, <2>2, <3>1
  <2> QED
    BY <1>1, <1>6, <2>4, <2>5, <2>6, <2>7 DEF EventsAreExact
<1> QED
  BY <1>4, <1>8, <1>9

LEMMA ExactNext == IInv /\ [Next]_vars => EventsAreExact'
<1> SUFFICES ASSUME IInv, [Next]_vars PROVE EventsAreExact'
  OBVIOUS
<1>1. CASE NextAcknowledged \/ NextReturns
  BY <1>1, TakenExact
<1>2. CASE UNCHANGED <<seen, stream, sent>>
  BY <1>2, ExactKept DEF IInv, Taken
<1>3. CASE UNCHANGED seen /\ \E v \in Values : Put(v)
  BY <1>3, PutFacts, ExactKept DEF IInv
<1> QED
  BY <1>1, <1>2, <1>3, StreamMoves

LEMMA IInvInit == Init => IInv
<1>1. Init => StepInv /\ Layered
  BY DEF Init, TransportInit, StepInv, Layered, Construction
<1>2. Init => StreamInv /\ EventsAreExact
  BY DEF Init, TransportInit, StreamInv, EventsAreExact, Taken
<1> QED
  BY <1>1, <1>2, TypeInit DEF IInv

LEMMA IInvNext == IInv /\ [Next]_vars => IInv'
BY TypeNext, StepNext, StreamNext, ExactNext DEF IInv

-----------------------------------------------------------------------------
(* The theorems. *)

\* The inductive invariant holds in every reachable state.
THEOREM Invariance == Spec => []IInv
BY IInvInit, IInvNext, PTL DEF Spec

\* Every variable always holds a value of its type; the buffer keeps its length.
THEOREM TypeCorrect == Spec => []TypeOK
<1>1. IInv => TypeOK
  BY DEF IInv
<1> QED
  BY <1>1, Invariance, PTL

\* No order of calls, failures and dropped futures leaves command responses
\* subscribed without the layers below them.
THEOREM LayersHold == Spec => []Layered
<1>1. IInv => Layered
  BY DEF IInv
<1> QED
  BY <1>1, Invariance, PTL

\* Every value of the stream comes out of next_event once, in order and unchanged,
\* acknowledgements left out, however many futures were dropped in between.
THEOREM EventsExact == Spec => []EventsAreExact
<1>1. IInv => EventsAreExact
  BY DEF IInv
<1> QED
  BY <1>1, Invariance, PTL

\* Only the last operation of a call reports success, when all have been passed.
LEMMA ReturnStep == IInv /\ IInv' /\ [Next]_vars => [ReturnIsTrue]_vars
<1> SUFFICES ASSUME IInv, IInv', Next PROVE ReturnIsTrue
  OBVIOUS
<1>1. ASSUME NEW op \in Operations, Succeed(op) PROVE ReturnIsTrue
  <2>1. CASE op = "subscribeResponse"
    <3>1. /\ notifying' = notifying \cup {"CommandResponse"}
          /\ UNCHANGED <<realtime, sent>>
          /\ returned'.call = "initialize"
      BY <1>1, <2>1 DEF Succeed, Effect, SubscribeSource, CharacteristicOf, streamVars, NextStep,
                        Ended, CallOf, InitializeOps, ShutdownOps, Construction
    <3>2. "PositionNotification" \in notifying /\ realtime /\ Position \in ToSet(sent)
      BY <1>1, <2>1 DEF Succeed, IInv, StepInv
    <3>3. notifying \subseteq Notifiable /\ Notifiable = {"PositionNotification", "CommandResponse"}
      BY DEF IInv, TypeOK, Notifiable, SourceOf
    <3> QED
      BY <3>1, <3>2, <3>3 DEF ReturnIsTrue
  <2>2. CASE op = "close"
    BY <1>1, <2>2 DEF Succeed, Effect, CloseTransport, transportVars, peripheralVars, IInv, StepInv,
                      NextStep, Ended, CallOf, InitializeOps, ShutdownOps, Construction, ReturnIsTrue
  <2>3. CASE op = "write"
    BY <1>1, <2>3 DEF Succeed, NextStep, Ended, CallOf, InitializeOps, ShutdownOps, Construction,
                      ReturnIsTrue
  <2>4. CASE op \in {"subscribePosition", "enableRealtime", "unsubscribeResponse",
                     "unsubscribePosition"}
    BY <1>1, <2>4 DEF Succeed, NextStep, ReturnIsTrue
  <2> QED
    BY <2>1, <2>2, <2>3, <2>4 DEF Operations, InitializeOps, ShutdownOps
<1>2. ASSUME NEW op \in Operations, Fail(op) \/ Drop(op) PROVE ReturnIsTrue
  BY <1>2 DEF Fail, Drop, Ended, ReturnIsTrue
<1>3. CASE StreamOpened \/ NextReturns
  BY <1>3 DEF StreamOpened, NextReturns, Ended, CallOf, InitializeOps, ShutdownOps, Construction,
              ReturnIsTrue
<1>4. CASE NextEnds \/ DropNext
  BY <1>4 DEF NextEnds, DropNext, Ended, ReturnIsTrue
<1>5. CASE Discovered \/ NewFails \/ NextAcknowledged \/ DropSession \/ Peripheral \/ Gone
  BY <1>5 DEF Discovered, NewFails, NextAcknowledged, DropSession, Peripheral, Gone, sessionVars,
              vars, Construction, ReturnIsTrue
<1>6. ASSUME NEW m \in Methods, Call(m) PROVE ReturnIsTrue
  BY <1>6 DEF Call, ReturnIsTrue
<1> QED
  BY <1>1, <1>2, <1>3, <1>4, <1>5, <1>6 DEF Next

\* An Ok of initialize or of shutdown means what it says, however often the call
\* failed or was dropped before.
THEOREM OutcomesTrue == Spec => OutcomesAreTrue
BY ReturnStep, Invariance, PTL DEF Spec, OutcomesAreTrue
=============================================================================
