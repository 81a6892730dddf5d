--------------------------- MODULE AsyncSession ---------------------------
(***************************************************************************)
(* AsyncBoard of src/src/transport/asynchronous.rs on the btleplug         *)
(* adapter: a session that owns the transport and one receive buffer.      *)
(*                                                                         *)
(* A call is split at its awaits.  At each of them the operation may fail, *)
(* and the caller may drop the future; whether an operation that failed or *)
(* was dropped took effect is not known, but if it does, then before the   *)
(* next one.  The caller may make any call at any time, and repeat it.     *)
(***************************************************************************)
EXTENDS BtleplugTransport

VARIABLES
    pc,        \* the operation that is awaited, "idle" between calls, or "gone"
    returned,  \* between calls: which one ended, and how
    buffer,    \* notification_buffer
    seen       \* what the next_event calls returned, oldest first, and of which value

sessionVars == <<pc, returned, buffer, seen>>
vars == <<transportVars, sessionVars>>

InitializeOps == {"subscribePosition", "enableRealtime", "subscribeResponse"}
ShutdownOps == {"unsubscribeResponse", "unsubscribePosition", "close"}
Operations == InitializeOps \cup ShutdownOps \cup {"write"}
Construction == {"discover", "openStream"}
Awaits == Operations \cup Construction \cup {"next"}

\* The first operation of each call.
FirstStep ==
    [initialize |-> "subscribePosition", send |-> "write",
     next_event |-> "next", shutdown |-> "unsubscribeResponse"]

Methods == DOMAIN FirstStep
Outcomes == {"Ok", "Transport", "Decode", "Dropped"}

\* Mutant: initialize forgets to enable the realtime updates.
NextStepSkipsEnable ==
    [subscribePosition |-> "subscribeResponse", enableRealtime |-> "subscribeResponse",
     subscribeResponse |-> "idle", write |-> "idle",
     unsubscribeResponse |-> "unsubscribePosition", unsubscribePosition |-> "close",
     close |-> "idle"]

\* What a call awaits once an operation has succeeded.
NextStep ==
    [subscribePosition |-> "enableRealtime", enableRealtime |-> "subscribeResponse",
     subscribeResponse |-> "idle", write |-> "idle",
     unsubscribeResponse |-> "unsubscribePosition", unsubscribePosition |-> "close",
     close |-> "idle"]

CallOf(step) ==
    CASE step \in InitializeOps -> "initialize"
      [] step \in ShutdownOps   -> "shutdown"
      [] step = "write"         -> "send"
      [] step = "next"          -> "next_event"
      [] step \in Construction  -> "new"

Nothing == [call |-> "none", outcome |-> "Ok"]
Ended(step, outcome) == [call |-> CallOf(step), outcome |-> outcome]

Init ==
    /\ TransportInit
    /\ pc = "discover"
    /\ returned = Nothing
    /\ buffer = [i \in 1 .. BufferLen |-> "zero"]
    /\ seen = <<>>

-----------------------------------------------------------------------------
(* BtleplugTransport::new, then AsyncBoard::new, which does no I/O. *)

Discovered ==
    /\ pc = "discover"
    /\ Missing = {}
    /\ pc' = "openStream"
    /\ UNCHANGED <<transportVars, returned, buffer, seen>>

StreamOpened ==
    /\ pc = "openStream"
    /\ OpenStream
    /\ pc' = "idle"
    /\ returned' = Ended(pc, "Ok")
    /\ UNCHANGED <<buffer, seen>>

\* A characteristic is missing, the backend fails, or the future is dropped.
NewFails ==
    /\ pc \in Construction
    /\ \/ /\ pc = "discover" /\ Missing # {}
          /\ returned' = Ended(pc, MissingCharacteristic)
       \/ returned' = Ended(pc, "Backend")
       \/ returned' = Ended(pc, "Dropped")
    /\ pc' = "gone"
    /\ UNCHANGED <<transportVars, buffer, seen>>

-----------------------------------------------------------------------------
(* initialize, send and shutdown. *)

Call(m) ==
    /\ pc = "idle"
    /\ pc' = FirstStep[m]
    /\ returned' = Nothing
    /\ UNCHANGED <<transportVars, buffer, seen>>

Effect(op) ==
    CASE op = "subscribePosition"   -> SubscribeSource("Position")
      [] op = "subscribeResponse"   -> SubscribeSource("CommandResponse")
      [] op = "unsubscribeResponse" -> UnsubscribeSource("CommandResponse")
      [] op = "unsubscribePosition" -> UnsubscribeSource("Position")
      [] op = "enableRealtime"      -> WriteEnable
      [] op = "write"               -> WriteOther
      [] op = "close"               -> CloseTransport

MayTakeEffect(op) == (connected /\ Effect(op)) \/ UNCHANGED transportVars

Succeed(op) ==
    /\ pc = op
    /\ connected \/ op = "close"
    /\ Effect(op)
    /\ pc' = NextStep[op]
    /\ returned' = IF pc' = "idle" THEN Ended(op, "Ok") ELSE returned
    /\ UNCHANGED <<buffer, seen>>

\* Mutant: shutdown goes on after an error.
FailGoesOn(op) ==
    /\ pc = op
    /\ op # "close"
    /\ MayTakeEffect(op)
    /\ pc' = IF op \in ShutdownOps THEN NextStep[op] ELSE "idle"
    /\ returned' = Ended(op, "Transport")
    /\ UNCHANGED <<buffer, seen>>

\* The first error ends the call, and nothing is undone.
Fail(op) ==
    /\ pc = op
    /\ op # "close"
    /\ MayTakeEffect(op)
    /\ pc' = "idle"
    /\ returned' = Ended(op, "Transport")
    /\ UNCHANGED <<buffer, seen>>

\* The caller drops the future while the operation is awaited.
Drop(op) ==
    /\ pc = op
    /\ MayTakeEffect(op)
    /\ pc' = "idle"
    /\ returned' = Ended(op, "Dropped")
    /\ UNCHANGED <<buffer, seen>>

-----------------------------------------------------------------------------
(* next_event. *)

IsAcknowledgement(n) == n.source = "CommandResponse" /\ Head(n.bytes) = "ack"

\* What next_event returns of a notification, or of the transport's error.
EventOf(n) ==
    IF n.outcome = "Ok" /\ Head(n.bytes) = "bad"
    THEN [n EXCEPT !.outcome = "Decode"] ELSE n

\* How many of the values sent have been taken from the stream.
Taken == Len(sent) - Len(stream)

Kept(n) == seen' = Append(seen, [at |-> Taken + 1, event |-> EventOf(n)])

\* An acknowledgement keeps the loop of next_event going.
NextAcknowledged ==
    /\ pc = "next"
    /\ TakeValue
    /\ LET n == Received(Head(stream), buffer)
       IN  n.outcome = "Ok" /\ IsAcknowledgement(n)
    /\ buffer' = BufferAfter(Head(stream), buffer)
    /\ UNCHANGED <<pc, returned, seen>>

NextReturns ==
    /\ pc = "next"
    /\ TakeValue
    /\ LET n == Received(Head(stream), buffer)
       IN  /\ ~(n.outcome = "Ok" /\ IsAcknowledgement(n))
           /\ Kept(n)
           /\ returned' = Ended(pc, IF EventOf(n).outcome \in {"Ok", "Decode"}
                                    THEN EventOf(n).outcome ELSE "Transport")
    /\ buffer' = BufferAfter(Head(stream), buffer)
    /\ pc' = "idle"

NextEnds ==
    /\ pc = "next"
    /\ StreamEnded
    /\ returned' = Ended(pc, "Transport")
    /\ pc' = "idle"
    /\ UNCHANGED <<transportVars, buffer, seen>>

\* Mutant: the value at hand is taken from the stream before the next await.
DropNextLosesValue ==
    /\ pc = "next"
    /\ IF stream # <<>> THEN TakeValue ELSE UNCHANGED transportVars
    /\ returned' = Ended(pc, "Dropped")
    /\ pc' = "idle"
    /\ UNCHANGED <<buffer, seen>>

\* The only await is the one for the next value: nothing has been taken.
DropNext ==
    /\ pc = "next"
    /\ returned' = Ended(pc, "Dropped")
    /\ pc' = "idle"
    /\ UNCHANGED <<transportVars, buffer, seen>>

-----------------------------------------------------------------------------

\* Dropping the session, or into_transport(), cleans nothing up.
DropSession ==
    /\ pc = "idle"
    /\ pc' = "gone"
    /\ UNCHANGED <<transportVars, returned, buffer, seen>>

Peripheral ==
    /\ pc # "gone"
    /\ (\E v \in Values : Notify(v)) \/ Disconnect
    /\ UNCHANGED sessionVars

Gone == pc = "gone" /\ UNCHANGED vars

Next ==
    \/ Discovered \/ StreamOpened \/ NewFails
    \/ \E m \in Methods : Call(m)
    \/ \E op \in Operations : Succeed(op) \/ Fail(op) \/ Drop(op)
    \/ NextAcknowledged \/ NextReturns \/ NextEnds \/ DropNext
    \/ DropSession
    \/ Peripheral
    \/ Gone

Spec == Init /\ [][Next]_vars

-----------------------------------------------------------------------------
(* Properties. *)

\* Every variable holds a value the program can give it.
TypeOK ==
    /\ connected \in BOOLEAN /\ realtime \in BOOLEAN /\ streamOpen \in BOOLEAN
    /\ missed \in BOOLEAN
    /\ exposed \subseteq ToSet(Required)
    /\ notifying \subseteq Notifiable
    /\ stream \in Seq(Values) /\ sent \in Seq(Values)
    /\ pc \in Awaits \cup {"idle", "gone"}
    /\ buffer \in [1 .. BufferLen -> Bytes \cup {"zero"}]
    /\ \A i \in DOMAIN seen : seen[i].event.source \in Sources \cup {"none"}

\* Whatever fails, is dropped half way, or is repeated, in any order of calls:
\* command responses are subscribed only while positions are, with realtime
\* updates enabled.
Layered ==
    "CommandResponse" \in notifying => "PositionNotification" \in notifying /\ realtime

Visible(v) == ~(v.from = "CommandResponse" /\ Fits(v) /\ Head(v.bytes) = "ack")

\* v as the caller has to see it.
Faithful(e, v) ==
    CASE v.from \notin Notifiable -> e.outcome = "UnexpectedNotificationCharacteristic"
      [] v.from \in Notifiable /\ ~Fits(v) -> e.outcome = "NotificationTooLong"
      [] v.from \in Notifiable /\ Fits(v) ->
            /\ e.outcome = IF Head(v.bytes) = "bad" THEN "Decode" ELSE "Ok"
            /\ CharacteristicOf[e.source] = v.from
            /\ e.bytes = v.bytes

\* next_event returns every value of the stream once, in order, with the source
\* and the bytes it was sent with, acknowledgements left out: none is lost when a
\* future is dropped or an error is returned, and no byte of an earlier one shows.
EventsAreExact ==
    /\ {seen[i].at : i \in DOMAIN seen} = {k \in 1 .. Taken : Visible(sent[k])}
    /\ \A i, j \in DOMAIN seen : i < j => seen[i].at < seen[j].at
    /\ \A i \in DOMAIN seen : Faithful(seen[i].event, sent[seen[i].at])

\* When initialize returns Ok, however often it was tried before, both sources are
\* subscribed and enabled and the initial position is among the values to read;
\* when shutdown returns Ok, nothing is subscribed any more.
ReturnIsTrue ==
    pc # "idle" /\ pc' = "idle" /\ returned'.outcome = "Ok" =>
        /\ returned'.call = "initialize" =>
              notifying' = Notifiable /\ realtime' /\ Position \in ToSet(sent')
        /\ returned'.call = "shutdown" => notifying' = {}

OutcomesAreTrue == [][ReturnIsTrue]_vars
=============================================================================
