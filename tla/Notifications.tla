--------------------------- MODULE Notifications ---------------------------
(***************************************************************************)
(* src/src/protocol/mod.rs and decode_notification of                      *)
(* src/src/transport/mod.rs: what the decoders make of a notification.     *)
(* Every decoder checks in the order of the code, the first error decides. *)
(***************************************************************************)
EXTENDS Wire, SequencesExt

CONSTANT TrackedPieceCount  \* 34 in the code

ASSUME TrackedAssumption == TrackedPieceCount \in Nat \ {0}

BoardStateOffset == 2
ResponseHeader == 65         \* 0x41
ResponseHeaderLength == 3
BatteryResponseLength == 5
BatteryResponsePayload == 3
BatteryResponseType == 12    \* 0x0c
PieceStatusPayload == 137    \* 0x89
PieceStatusType == 11        \* 0x0b
TrackedPieceBytes == 4
PieceStatusLength == ResponseHeaderLength + TrackedPieceCount * TrackedPieceBytes
Acknowledgement == 35        \* 0x23

\* Mutant: the queens that pawns may become are forgotten.
MaxNotificationLenOf32 == 3 + 32 * 4

\* MAX_NOTIFICATION_LEN is spelled out, apart from PIECE_STATUS_RESPONSE_LENGTH.
MaxNotificationLen == 3 + 34 * 4

\* The errors.
TooShort(expected, bytes) ==
    [error |-> "NotificationTooShort", expected |-> expected, actual |-> Len(bytes)]
InvalidHeader(offset, expected, bytes) ==
    [error |-> "InvalidNotificationHeader", offset |-> offset,
     expected |-> expected, actual |-> At(bytes, offset)]
BadField(name, value) == [error |-> name, value |-> value]
BadFieldAt(name, where, value) == [error |-> name, where |-> where, value |-> value]

\* The events.
PositionChanged(squares) == [event |-> "PositionChanged", squares |-> squares]
BatteryStatus(charging, percentage) ==
    [event |-> "BatteryStatus", charging |-> charging, percentage |-> percentage]
PieceStatus(pieces) == [event |-> "PieceStatus", pieces |-> pieces]
Acknowledged == [event |-> "RealtimeUpdatesAcknowledged"]

-----------------------------------------------------------------------------

\* Bytes after the packed squares are ignored.
DecodePosition(bytes) ==
    IF Len(bytes) < BoardStateOffset + PackedBytes
    THEN TooShort(BoardStateOffset + PackedBytes, bytes)
    ELSE LET packed == SubSeq(bytes, BoardStateOffset + 1, BoardStateOffset + PackedBytes)
         IN  IF BadNibbles(packed) # {}
             THEN BadFieldAt("InvalidPiece", PositionIndex(FirstBad(packed)),
                             NibbleAt(packed, FirstBad(packed)))
             ELSE PositionChanged(UnpackedPieces(packed))

DecodeBatteryStatus(bytes) ==
    IF Len(bytes) < BatteryResponseLength
    THEN TooShort(BatteryResponseLength, bytes)
    ELSE IF At(bytes, 1) # BatteryResponsePayload
    THEN InvalidHeader(1, BatteryResponsePayload, bytes)
    ELSE IF At(bytes, 3) \notin {0, 1}
    THEN BadField("InvalidChargingFlag", At(bytes, 3))
    ELSE IF At(bytes, 4) > 100
    THEN BadField("InvalidBatteryPercentage", At(bytes, 4))
    ELSE BatteryStatus(At(bytes, 3) = 1, At(bytes, 4))

-----------------------------------------------------------------------------
(* Tracked pieces. *)

Records == 0 .. TrackedPieceCount - 1

\* decode_tracked_piece
TrackedPiece ==
    <<"WP", "WR", "WN", "WB", "WQ", "WK", "BP", "BR", "BN", "BB", "BQ", "BK">>

\* The offset of a field of a record: identity, x, y, battery.
FieldOffset(index, field) == ResponseHeaderLength + index * TrackedPieceBytes + field

Identity(bytes, index) == At(bytes, FieldOffset(index, 0))
Battery(bytes, index) == At(bytes, FieldOffset(index, 3))

BadIdentity(bytes, index) == Identity(bytes, index) \notin DOMAIN TrackedPiece

BadBattery(bytes, index) == Battery(bytes, index) \in 101 .. 254

\* validate_tracked_piece_battery: 0xff is None.
BatteryOf(value) == IF value = 255 THEN {} ELSE {value}

Tracked(bytes, index) ==
    [piece |-> TrackedPiece[Identity(bytes, index)],
     x |-> At(bytes, FieldOffset(index, 1)),
     y |-> At(bytes, FieldOffset(index, 2)),
     battery |-> BatteryOf(Battery(bytes, index))]

BadRecords(bytes) ==
    {index \in Records : BadIdentity(bytes, index) \/ BadBattery(bytes, index)}

\* The identity of a record is checked before its battery.
RecordError(bytes, index) ==
    IF BadIdentity(bytes, index)
    THEN BadFieldAt("InvalidTrackedPiece", index, Identity(bytes, index))
    ELSE BadFieldAt("InvalidTrackedPieceBattery", index, Battery(bytes, index))

DecodePieceStatus(bytes) ==
    IF Len(bytes) < PieceStatusLength
    THEN TooShort(PieceStatusLength, bytes)
    ELSE IF At(bytes, 1) # PieceStatusPayload
    THEN InvalidHeader(1, PieceStatusPayload, bytes)
    ELSE IF BadRecords(bytes) # {}
    THEN RecordError(bytes, Min(BadRecords(bytes)))
    ELSE PieceStatus([index \in Records |-> Tracked(bytes, index)])

-----------------------------------------------------------------------------

DecodeResponse(bytes) ==
    IF Len(bytes) < ResponseHeaderLength
    THEN TooShort(ResponseHeaderLength, bytes)
    ELSE IF At(bytes, 0) # ResponseHeader
    THEN InvalidHeader(0, ResponseHeader, bytes)
    ELSE CASE At(bytes, 2) = BatteryResponseType -> DecodeBatteryStatus(bytes)
           [] At(bytes, 2) = PieceStatusType -> DecodePieceStatus(bytes)
           [] OTHER -> BadField("UnexpectedNotification", At(bytes, 2))

\* Mutant: the acknowledgement is looked for on either source.
DecodeNotificationOfAny(source, bytes) ==
    IF bytes # <<>> /\ At(bytes, 0) = Acknowledgement THEN Acknowledged
    ELSE IF source = "Position" THEN DecodePosition(bytes)
    ELSE DecodeResponse(bytes)

DecodeNotification(source, bytes) ==
    IF source = "Position" THEN DecodePosition(bytes)
    ELSE IF bytes # <<>> /\ At(bytes, 0) = Acknowledgement THEN Acknowledged
    ELSE DecodeResponse(bytes)
=============================================================================
