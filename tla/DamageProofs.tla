---------------------------- MODULE DamageProofs ----------------------------
(***************************************************************************)
(* Proofs about a damaged notification of BoardLink, for every byte it may *)
(* become, every offset and every length it may be cut to: what the damage *)
(* can do to an event, and what an error says about it.                    *)
(*                                                                         *)
(* The argument is about two frames that agree but for one byte.  The one  *)
(* that was sent decodes without an error; every decoder looks at a byte   *)
(* for one square pair, one record or one field only.                      *)
(***************************************************************************)
EXTENDS BoardLinkProofs

-----------------------------------------------------------------------------
(* Two frames. *)

ByteHurt(offset) == [kind |-> "byte", at |-> offset]

\* The two frames differ in one byte at most.
Agree(sent, received, offset) ==
  /\ sent \in Seq(Byte) /\ received \in Seq(Byte)
  /\ offset \in 0 .. Len(sent) - 1
  /\ Len(received) = Len(sent)
  /\ \A k \in 0 .. Len(sent) - 1 : k # offset => At(received, k) = At(sent, k)

-----------------------------------------------------------------------------
(* Positions. *)

\* Where the nibble of a place on the wire is found in the frame.
LEMMA NibbleOfFrame ==
  ASSUME NEW bytes \in Seq(Byte), Len(bytes) >= 34, NEW w \in WireIndexes
  PROVE  /\ w \div 2 + 2 \in 2 .. 33
         /\ At(bytes, w \div 2 + 2) \in Byte
         /\ NibbleAt(SubSeq(bytes, 3, 34), w)
               = IF w % 2 = 0 THEN At(bytes, w \div 2 + 2) % 16 ELSE At(bytes, w \div 2 + 2) \div 16
         /\ NibbleAt(SubSeq(bytes, 3, 34), w) \in Nibble
<1>1. w \in 0 .. 63 /\ w \div 2 \in 0 .. 31 /\ w \div 2 + 2 \in 2 .. 33
  BY RealSizes
<1>2. At(SubSeq(bytes, 3, 34), w \div 2) = At(bytes, w \div 2 + 2) /\ At(bytes, w \div 2 + 2) \in Byte
  <2> DEFINE k == w \div 2
  <2>1. k \in 0 .. 31
    BY <1>1
  <2> HIDE DEF k
  <2>2. \A i \in 3 .. 34 : bytes[i] \in Byte
    OBVIOUS
  <2>3. \A i \in 1 .. 34 - 3 + 1 : SubSeq(bytes, 3, 34)[i] = bytes[3 + i - 1]
    BY <2>2, SubSeqProperties
  <2>4. /\ k + 1 \in 1 .. 34 - 3 + 1 /\ 3 + (k + 1) - 1 = k + 3 /\ k + 3 \in 3 .. 34
        /\ (k + 2) + 1 = k + 3
    BY <2>1
  <2>5. SubSeq(bytes, 3, 34)[k + 1] = bytes[k + 3]
    BY <2>3, <2>4, Zenon
  <2>6. bytes[k + 3] \in Byte
    BY <2>2, <2>4, Zenon
  <2>7. At(SubSeq(bytes, 3, 34), k) = bytes[k + 3] /\ At(bytes, k + 2) = bytes[k + 3]
    BY <2>4, <2>5 DEF At
  <2> QED
    BY <2>6, <2>7 DEF k
<1>3. \A b \in Byte : b % 16 \in Nibble /\ b \div 16 \in Nibble
  BY DEF Byte, Nibble
<1> QED
  BY <1>1, <1>2, <1>3 DEF NibbleAt

\* The notation of a square is read back as that square.
LEMMA NotationReadBack ==
  ASSUME NEW s \in Squares
  PROVE  Parsed(Notation(s)) = {s}
<1>1. s \in 0 .. 63 /\ FileOf(s) \in 0 .. 7 /\ RankOf(s) \in 0 .. 7 /\ s = NewSquare(FileOf(s), RankOf(s))
  BY RealSizes, SizeAssumption DEF FileOf, RankOf, NewSquare
<1>2. \A f \in 0 .. 7 : FileFromAscii(FileLetters[f + 1]) = {f}
  BY SizeAssumption DEF FileFromAscii, FileLetters, FileCapitals, Coordinates
<1>3. \A r \in 0 .. 7 : RankFromAscii(RankDigits[r + 1]) = {r}
  BY SizeAssumption DEF RankFromAscii, RankDigits, Coordinates
<1>4. /\ Len(Notation(s)) = 2 /\ Notation(s)[1] = FileLetters[FileOf(s) + 1]
      /\ Notation(s)[2] = RankDigits[RankOf(s) + 1]
  BY DEF Notation
<1> QED
  BY <1>1, <1>2, <1>3, <1>4 DEF Parsed

\* A least element is found among places that share a byte.
LEMMA LeastOfTwo ==
  ASSUME NEW S \in SUBSET (0 .. 63), S # {}, NEW n \in Int, \A w \in S : w \div 2 = n
  PROVE  Min(S) \in S /\ \A w \in S : Min(S) <= w
<1>1. PICK x \in S : TRUE
  OBVIOUS
<1>2. \A w \in S : w \in 2 * n .. 2 * n + 1
  OBVIOUS
<1>3. \E m \in S : \A w \in S : m <= w
  <2>1. CASE 2 * n \in S
    BY <1>2, <2>1
  <2>2. CASE 2 * n \notin S
    <3>1. \A w \in S : w = 2 * n + 1
      BY <1>2, <2>2
    <3> QED
      BY <1>1, <3>1
  <2> QED
    BY <2>1, <2>2
<1> QED
  BY <1>3, Zenon DEF Min

LEMMA PositionHurt ==
  ASSUME NEW sent, NEW received, NEW offset, Agree(sent, received, offset),
         Len(sent) >= 34, BadNibbles(SubSeq(sent, 3, 34)) = {}
  PROVE  /\ Contained(DecodePosition(sent), DecodePosition(received), "Position", ByteHurt(offset))
         /\ Blamed(DecodePosition(sent), DecodePosition(received), received, ByteHurt(offset))
<1> DEFINE po == SubSeq(sent, 3, 34)
           pd == SubSeq(received, 3, 34)
           result == DecodePosition(received)
<1>1. /\ sent \in Seq(Byte) /\ received \in Seq(Byte) /\ Len(received) >= 34
      /\ Len(sent) \in Nat /\ Len(received) \in Nat
      /\ BoardStateOffset + 1 = 3 /\ BoardStateOffset + PackedBytes = 34
  BY RealSizes DEF Agree, BoardStateOffset
<1>2. ASSUME NEW w \in WireIndexes, w \div 2 + 2 # offset
      PROVE  NibbleAt(pd, w) = NibbleAt(po, w)
  <2>1. w \div 2 + 2 \in 0 .. Len(sent) - 1
    <3>1. w \in 0 .. 63
      BY RealSizes
    <3> DEFINE k == w \div 2 + 2
    <3>2. k \in 2 .. 33
      BY <3>1
    <3> HIDE DEF k
    <3>3. k \in 0 .. Len(sent) - 1
      BY <1>1, <3>2
    <3> QED
      BY <3>3 DEF k
  <2>2. At(received, w \div 2 + 2) = At(sent, w \div 2 + 2)
    BY <1>2, <2>1 DEF Agree
  <2>3. NibbleAt(pd, w) = IF w % 2 = 0 THEN At(received, w \div 2 + 2) % 16
                                       ELSE At(received, w \div 2 + 2) \div 16
    BY <1>1, NibbleOfFrame
  <2>4. NibbleAt(po, w) = IF w % 2 = 0 THEN At(sent, w \div 2 + 2) % 16
                                       ELSE At(sent, w \div 2 + 2) \div 16
    BY <1>1, NibbleOfFrame
  <2> QED
    BY <2>2, <2>3, <2>4
<1>3. DecodePosition(sent) = PositionChanged(UnpackedPieces(po))
  BY <1>1 DEF DecodePosition
<1>4. DecodePosition(received) =
         IF BadNibbles(pd) # {}
         THEN BadFieldAt("InvalidPiece", PositionIndex(FirstBad(pd)), NibbleAt(pd, FirstBad(pd)))
         ELSE PositionChanged(UnpackedPieces(pd))
  BY <1>1 DEF DecodePosition
<1>5. \A w \in WireIndexes : NibbleAt(pd, w) \in Nibble
  BY <1>1, NibbleOfFrame
<1>6. DOMAIN DecodedPiece = 0 .. 12
  BY DEF DecodedPiece
<1>7. BadNibbles(pd) \subseteq WireIndexes
      /\ \A w \in BadNibbles(pd) : w \div 2 + 2 = offset
  BY <1>2 DEF BadNibbles
<1> HIDE DEF po, pd
<1>8. CASE BadNibbles(pd) = {}
  <2>1. ASSUME NEW s \in Squares, UnpackedPieces(pd)[s] # UnpackedPieces(po)[s]
        PROVE  OffsetOfSquare(s) = offset
    <3>1. WireIndex(s) = PositionIndex(s) /\ PositionIndex(s) \in WireIndexes
      BY WireOrder
    <3>2. NibbleAt(pd, PositionIndex(s)) # NibbleAt(po, PositionIndex(s))
      BY <2>1 DEF UnpackedPieces
    <3> DEFINE w == PositionIndex(s)
    <3>3. w \div 2 + 2 = offset
      BY <1>2, <3>1, <3>2
    <3>4. w \in 0 .. 63
      BY <3>1, RealSizes
    <3>5. OffsetOfSquare(s) = 2 + w \div 2
      BY <3>1, Zenon DEF OffsetOfSquare
    <3> HIDE DEF w
    <3>6. 2 + w \div 2 = offset
      BY <3>3, <3>4
    <3> QED
      BY <3>5, <3>6
  <2>2. /\ result.event = "PositionChanged" /\ result.squares = UnpackedPieces(pd)
        /\ DecodePosition(sent).event = "PositionChanged"
        /\ DecodePosition(sent).squares = UnpackedPieces(po)
        /\ "error" \notin DOMAIN result
    BY <1>3, <1>4, <1>8 DEF PositionChanged
  <2>3. ByteHurt(offset).kind = "byte" /\ ByteHurt(offset).at = offset
    BY DEF ByteHurt
  <2> HIDE DEF result
  <2>4. Contained(DecodePosition(sent), result, "Position", ByteHurt(offset))
    BY <2>1, <2>2, <2>3 DEF Contained
  <2>5. Blamed(DecodePosition(sent), result, received, ByteHurt(offset))
    BY <2>2 DEF Blamed
  <2> QED
    BY <2>4, <2>5 DEF result
<1>9. CASE BadNibbles(pd) # {}
  <2> DEFINE w == FirstBad(pd)
             where == PositionIndex(w)
  <2>1. w \in BadNibbles(pd) /\ \A x \in BadNibbles(pd) : w <= x
    <3>1. BadNibbles(pd) \in SUBSET (0 .. 63)
      BY <1>7, RealSizes
    <3>2. offset - 2 \in Int
      BY DEF Agree
    <3>3. \A x \in BadNibbles(pd) : x \div 2 = offset - 2
      <4>1. ASSUME NEW x \in BadNibbles(pd) PROVE x \div 2 = offset - 2
        <5>1. x \in 0 .. 63 /\ x \div 2 + 2 = offset
          BY <1>7, <3>1
        <5> QED
          BY <5>1
      <4> QED
        BY <4>1
    <3> QED
      BY <1>9, <3>1, <3>2, <3>3, LeastOfTwo DEF FirstBad
  <2> HIDE DEF w
  <2>2. w \in WireIndexes /\ w \div 2 + 2 = offset /\ w \in 0 .. 63
    BY <1>7, <2>1, RealSizes
  <2>3. where \in Squares /\ WireIndex(where) = w
    <3>1. where \in Squares /\ PositionIndex(where) = w
      BY <2>2, IndexInvolution
    <3> QED
      BY <3>1, WireOrder
  <2>4. OffsetOfSquare(where) = offset
    BY <2>2, <2>3 DEF OffsetOfSquare
  <2>5. NibbleAt(pd, w) \in 13 .. 15
    BY <1>5, <1>6, <2>1, <2>2 DEF BadNibbles, Nibble
  <2>6. ASSUME w % 2 = 1 PROVE At(received, offset) % 16 <= 12
    <3>1. w - 1 \in WireIndexes /\ (w - 1) % 2 = 0 /\ (w - 1) \div 2 + 2 = offset /\ w - 1 < w
      BY <2>2, <2>6, RealSizes
    <3>2. w - 1 \notin BadNibbles(pd)
      <4>1. w - 1 \in BadNibbles(pd) => w <= w - 1
        BY <2>1
      <4> QED
        BY <2>2, <4>1
    <3>3. NibbleAt(pd, w - 1) \in 0 .. 12
      BY <1>6, <3>1, <3>2 DEF BadNibbles
    <3>4. NibbleAt(pd, w - 1) = At(received, offset) % 16
      BY <1>1, <3>1, NibbleOfFrame DEF pd
    <3> QED
      BY <3>3, <3>4
  <2>7. Parsed(Notation(where)) = {where}
    BY <2>3, NotationReadBack
  <2> HIDE DEF where
  <2>8. result = BadFieldAt("InvalidPiece", where, NibbleAt(pd, w))
    BY <1>4, <1>9 DEF where, w
  <2>9. /\ "event" \notin DOMAIN result /\ result.error = "InvalidPiece"
        /\ result.where = where /\ result.value = NibbleAt(pd, w)
    BY <2>8 DEF BadFieldAt
  <2>10. ByteHurt(offset).at = offset /\ ByteHurt(offset) = [kind |-> "byte", at |-> offset]
    BY DEF ByteHurt
  <2> HIDE DEF result
  <2>11. Contained(DecodePosition(sent), result, "Position", ByteHurt(offset))
    BY <2>9 DEF Contained
  <2>12. Blamed(DecodePosition(sent), result, received, ByteHurt(offset))
    BY <2>3, <2>4, <2>5, <2>6, <2>7, <2>9, <2>10 DEF Blamed
  <2> QED
    BY <2>11, <2>12 DEF result
<1> QED
  BY <1>8, <1>9

-----------------------------------------------------------------------------
(* What a decoder may return. *)

\* Both properties.
Fine(event, result, source, bytes, hurt) ==
  Contained(event, result, source, hurt) /\ Blamed(event, result, bytes, hurt)

\* An event that is meant is no error.
IsEvent(event) == "event" \in DOMAIN event /\ "error" \notin DOMAIN event

LEMMA FineSame ==
  ASSUME NEW event, IsEvent(event), NEW source, NEW bytes, NEW hurt
  PROVE  Fine(event, event, source, bytes, hurt)
BY DEF Fine, Contained, Blamed, IsEvent

LEMMA FineAcknowledged ==
  ASSUME NEW event, NEW bytes
  PROVE  Fine(event, Acknowledged, "CommandResponse", bytes, ByteHurt(0))
BY DEF Fine, Contained, Blamed, ByteHurt, Acknowledged

LEMMA FineHeader ==
  ASSUME NEW event, NEW source, NEW bytes, NEW where, NEW expected, NEW offset,
         offset \in {where, 2}
  PROVE  Fine(event, InvalidHeader(where, expected, bytes), source, bytes, ByteHurt(offset))
BY DEF Fine, Contained, Blamed, ByteHurt, InvalidHeader

LEMMA FineShort ==
  ASSUME NEW event, NEW source, NEW bytes, NEW expected, Len(bytes) < expected, NEW hurt,
         hurt.kind = "cut" \/ hurt.at = 2
  PROVE  Fine(event, TooShort(expected, bytes), source, bytes, hurt)
BY DEF Fine, Contained, Blamed, TooShort

LEMMA FineUnexpected ==
  ASSUME NEW event, NEW source, NEW bytes, NEW value, NEW offset,
         offset = IF event = Acknowledged THEN 0 ELSE 2
  PROVE  Fine(event, BadField("UnexpectedNotification", value), source, bytes,
              ByteHurt(offset))
BY DEF Fine, Contained, Blamed, ByteHurt, BadField

LEMMA FineField ==
  ASSUME NEW event, NEW source, NEW bytes, NEW value
  PROVE  /\ Fine(event, BadField("InvalidChargingFlag", value), source, bytes, ByteHurt(3))
         /\ Fine(event, BadField("InvalidBatteryPercentage", value), source, bytes, ByteHurt(4))
BY DEF Fine, Contained, Blamed, ByteHurt, BadField

LEMMA FineBattery ==
  ASSUME NEW source, NEW bytes, NEW offset, NEW c, NEW d, NEW p, NEW q,
         d # c => offset = 3, q # p => offset = 4
  PROVE  Fine(BatteryStatus(c, p), BatteryStatus(d, q), source, bytes, ByteHurt(offset))
BY DEF Fine, Contained, Blamed, ByteHurt, BatteryStatus

LEMMA FineRecord ==
  ASSUME NEW event, NEW source, NEW bytes, NEW value, NEW index
  PROVE  /\ Fine(event, BadFieldAt("InvalidTrackedPiece", index, value), source, bytes,
                 ByteHurt(3 + 4 * index))
         /\ Fine(event, BadFieldAt("InvalidTrackedPieceBattery", index, value), source, bytes,
                 ByteHurt(3 + 4 * index + 3))
BY DEF Fine, Contained, Blamed, ByteHurt, BadFieldAt

LEMMA FinePieces ==
  ASSUME NEW source, NEW bytes, NEW offset, NEW pieces, NEW others,
         \A i \in Records : others[i] # pieces[i] => offset \in OffsetsOfRecord(i)
  PROVE  Fine(PieceStatus(pieces), PieceStatus(others), source, bytes, ByteHurt(offset))
BY DEF Fine, Contained, Blamed, ByteHurt, PieceStatus

-----------------------------------------------------------------------------
(* A damaged byte of a response. *)

LEMMA AtType ==
  ASSUME NEW bytes \in Seq(Byte), NEW k \in Nat, k < Len(bytes)
  PROVE  At(bytes, k) \in Byte
<1>1. k + 1 \in 1 .. Len(bytes)
  OBVIOUS
<1> QED
  BY <1>1 DEF At

\* The order in which a response is looked at.
LEMMA ResponseOrder ==
  ASSUME NEW bytes \in Seq(Byte), Len(bytes) >= 3
  PROVE  DecodeNotification("CommandResponse", bytes) =
            IF At(bytes, 0) = 35 THEN Acknowledged
            ELSE IF At(bytes, 0) # 65 THEN InvalidHeader(0, 65, bytes)
            ELSE IF At(bytes, 2) = 12 THEN DecodeBatteryStatus(bytes)
            ELSE IF At(bytes, 2) = 11 THEN DecodePieceStatus(bytes)
            ELSE BadField("UnexpectedNotification", At(bytes, 2))
<1>1. bytes # <<>>
  <2>1. bytes = <<>> => Len(bytes) = 0
    OBVIOUS
  <2> QED
    BY <2>1
<1>2. ~(Len(bytes) < 3)
  OBVIOUS
<1> QED
  BY <1>1, <1>2
     DEF DecodeNotification, DecodeResponse, Acknowledgement, ResponseHeader,
         ResponseHeaderLength, BatteryResponseType, PieceStatusType

LEMMA BatteryHurt ==
  ASSUME NEW sent, NEW received, NEW offset, Agree(sent, received, offset), Len(sent) = 5,
         At(sent, 0) = 65, At(sent, 1) = 3, At(sent, 2) = 12,
         At(sent, 3) \in {0, 1}, At(sent, 4) <= 100
  PROVE  Fine(BatteryStatus(At(sent, 3) = 1, At(sent, 4)),
              DecodeNotification("CommandResponse", received), "CommandResponse", received,
              ByteHurt(offset))
<1> DEFINE r0 == At(received, 0)
           r1 == At(received, 1)
           r2 == At(received, 2)
           r3 == At(received, 3)
           r4 == At(received, 4)
           event == BatteryStatus(At(sent, 3) = 1, At(sent, 4))
           result == DecodeNotification("CommandResponse", received)
<1>1. /\ received \in Seq(Byte) /\ Len(received) = 5 /\ offset \in 0 .. 4
      /\ \A k \in 0 .. 4 : k # offset => At(received, k) = At(sent, k)
      /\ sent \in Seq(Byte)
  BY DEF Agree
<1>2. /\ 0 # offset => r0 = 65
      /\ 1 # offset => r1 = 3
      /\ 2 # offset => r2 = 12
      /\ 3 # offset => r3 = At(sent, 3)
      /\ 4 # offset => r4 = At(sent, 4)
  BY <1>1
<1>3. result = IF r0 = 35 THEN Acknowledged
               ELSE IF r0 # 65 THEN InvalidHeader(0, 65, received)
               ELSE IF r2 = 12 THEN DecodeBatteryStatus(received)
               ELSE IF r2 = 11 THEN DecodePieceStatus(received)
               ELSE BadField("UnexpectedNotification", r2)
  <2>1. received \in Seq(Byte) /\ Len(received) >= 3
    BY <1>1
  <2> QED
    BY <2>1, ResponseOrder, Zenon
<1>4. DecodeBatteryStatus(received) =
         IF r1 # 3 THEN InvalidHeader(1, 3, received)
         ELSE IF r3 \notin {0, 1} THEN BadField("InvalidChargingFlag", r3)
         ELSE IF r4 > 100 THEN BadField("InvalidBatteryPercentage", r4)
         ELSE BatteryStatus(r3 = 1, r4)
  BY <1>1 DEF DecodeBatteryStatus, BatteryResponseLength, BatteryResponsePayload
<1>5. DecodePieceStatus(received) = TooShort(139, received)
  BY <1>1, RealSizes DEF DecodePieceStatus
<1>6. event # Acknowledged
  BY DEF BatteryStatus, Acknowledged
<1>7. r4 \in Byte /\ At(sent, 4) \in Byte
  <2>1. 4 \in Nat /\ 4 < Len(sent) /\ 4 < Len(received)
    BY <1>1
  <2> QED
    BY <1>1, <2>1, AtType, Zenon
<1> SUFFICES Fine(event, result, "CommandResponse", received, ByteHurt(offset))
  OBVIOUS
<1> HIDE DEF result, r0, r1, r2, r3, r4, event
<1>8. CASE r0 = 35
  <2>1. offset = 0
    BY <1>2, <1>8
  <2> QED
    BY <1>3, <1>8, <2>1, FineAcknowledged
<1>9. CASE r0 \notin {35, 65}
  <2>1. offset = 0 /\ result = InvalidHeader(0, 65, received)
    BY <1>2, <1>3, <1>9
  <2> QED
    BY <2>1, FineHeader
<1>10. CASE r0 = 65 /\ r2 # 12
  <2>1. offset = 2
    BY <1>2, <1>10
  <2>2. CASE r2 = 11
    <3>1. result = TooShort(139, received)
      BY <1>3, <1>5, <1>10, <2>2
    <3>2. ByteHurt(offset).at = 2 /\ Len(received) < 139
      BY <1>1, <2>1 DEF ByteHurt
    <3> QED
      BY <3>1, <3>2, FineShort
  <2>3. CASE r2 # 11
    <3>1. result = BadField("UnexpectedNotification", r2)
      BY <1>3, <1>10, <2>3
    <3> QED
      BY <1>6, <2>1, <3>1, FineUnexpected
  <2> QED
    BY <2>2, <2>3
<1>11. CASE r0 = 65 /\ r2 = 12
  <2>1. result = DecodeBatteryStatus(received)
    BY <1>3, <1>11
  <2>2. CASE r1 # 3
    <3>1. offset = 1 /\ result = InvalidHeader(1, 3, received)
      BY <1>2, <1>4, <2>1, <2>2
    <3> QED
      BY <3>1, FineHeader
  <2>3. CASE r1 = 3 /\ r3 \notin {0, 1}
    <3>1. offset = 3 /\ result = BadField("InvalidChargingFlag", r3)
      BY <1>2, <1>4, <2>1, <2>3
    <3> QED
      BY <3>1, FineField
  <2>4. CASE r1 = 3 /\ r3 \in {0, 1} /\ r4 > 100
    <3>1. offset = 4 /\ result = BadField("InvalidBatteryPercentage", r4)
      BY <1>2, <1>4, <1>7, <2>1, <2>4 DEF Byte
    <3> QED
      BY <3>1, FineField
  <2>5. CASE r1 = 3 /\ r3 \in {0, 1} /\ ~(r4 > 100)
    <3>1. result = BatteryStatus(r3 = 1, r4)
      BY <1>4, <2>1, <2>5
    <3>2. /\ (r3 = 1) # (At(sent, 3) = 1) => offset = 3
          /\ r4 # At(sent, 4) => offset = 4
      BY <1>2
    <3> QED
      BY <3>1, <3>2, FineBattery DEF event
  <2> QED
    BY <2>2, <2>3, <2>4, <2>5
<1> QED
  BY <1>8, <1>9, <1>10, <1>11 DEF result, event

LEMMA AcknowledgementHurt ==
  ASSUME NEW received, NEW offset, Agree(<<35, 1, 0>>, received, offset)
  PROVE  Fine(Acknowledged, DecodeNotification("CommandResponse", received),
              "CommandResponse", received, ByteHurt(offset))
<1> DEFINE r0 == At(received, 0)
           r2 == At(received, 2)
           result == DecodeNotification("CommandResponse", received)
<1>1. /\ received \in Seq(Byte) /\ Len(received) = 3 /\ offset \in 0 .. 2
      /\ 0 # offset => r0 = 35
      /\ 2 # offset => r2 = 0
  <2> DEFINE sent == <<35, 1, 0>>
  <2>1. Len(sent) = 3 /\ At(sent, 0) = 35 /\ At(sent, 2) = 0
    BY DEF At
  <2> HIDE DEF sent
  <2>2. Agree(sent, received, offset)
    BY DEF sent
  <2> QED
    BY <2>1, <2>2 DEF Agree
<1>2. result = IF r0 = 35 THEN Acknowledged
               ELSE IF r0 # 65 THEN InvalidHeader(0, 65, received)
               ELSE IF r2 = 12 THEN DecodeBatteryStatus(received)
               ELSE IF r2 = 11 THEN DecodePieceStatus(received)
               ELSE BadField("UnexpectedNotification", r2)
  <2>1. received \in Seq(Byte) /\ Len(received) >= 3
    BY <1>1
  <2> QED
    BY <2>1, ResponseOrder, Zenon
<1> SUFFICES Fine(Acknowledged, result, "CommandResponse", received, ByteHurt(offset))
  OBVIOUS
<1> HIDE DEF result, r0, r2
<1>3. CASE r0 = 35
  <2>1. result = Acknowledged /\ IsEvent(Acknowledged)
    BY <1>2, <1>3 DEF IsEvent, Acknowledged
  <2> QED
    BY <2>1, FineSame
<1>4. CASE r0 \notin {35, 65}
  <2>1. offset = 0 /\ result = InvalidHeader(0, 65, received)
    BY <1>1, <1>2, <1>4
  <2> QED
    BY <2>1, FineHeader
<1>5. CASE r0 = 65
  <2>1. offset = 0 /\ r2 = 0
    BY <1>1, <1>5
  <2>2. result = BadField("UnexpectedNotification", r2)
    BY <1>2, <1>5, <2>1
  <2> QED
    BY <2>1, <2>2, FineUnexpected
<1> QED
  BY <1>3, <1>4, <1>5

\* A record whose bytes are not hurt is read as before.
LEMMA RecordUnhurt ==
  ASSUME NEW sent, NEW received, NEW offset, Agree(sent, received, offset), Len(sent) = 139,
         NEW index \in 0 .. 33, NEW field \in 0 .. 3, offset # 3 + 4 * index + field
  PROVE  At(received, FieldOffset(index, field)) = At(sent, FieldOffset(index, field))
<1> DEFINE k == 3 + 4 * index + field
<1>1. FieldOffset(index, field) = k
  BY DEF FieldOffset, ResponseHeaderLength, TrackedPieceBytes
<1>2. k \in 0 .. 138
  OBVIOUS
<1>3. k # offset
  OBVIOUS
<1> HIDE DEF k
<1>4. k \in 0 .. Len(sent) - 1
  BY <1>2
<1> QED
  BY <1>1, <1>3, <1>4, Zenon DEF Agree

LEMMA PiecesHurt ==
  ASSUME NEW sent, NEW received, NEW offset, Agree(sent, received, offset), Len(sent) = 139,
         At(sent, 0) = 65, At(sent, 1) = 137, At(sent, 2) = 11, BadRecords(sent) = {}
  PROVE  Fine(PieceStatus([index \in Records |-> Tracked(sent, index)]),
              DecodeNotification("CommandResponse", received), "CommandResponse", received,
              ByteHurt(offset))
<1> DEFINE r0 == At(received, 0)
           r1 == At(received, 1)
           r2 == At(received, 2)
           event == PieceStatus([index \in Records |-> Tracked(sent, index)])
           bad == BadRecords(received)
           result == DecodeNotification("CommandResponse", received)
<1>1. /\ received \in Seq(Byte) /\ Len(received) = 139 /\ offset \in 0 .. 138
      /\ 0 # offset => r0 = 65
      /\ 1 # offset => r1 = 137
      /\ 2 # offset => r2 = 11
  BY DEF Agree
<1>2. Records = 0 .. 33
  BY SizeAssumption DEF Records
<1>3. result = IF r0 = 35 THEN Acknowledged
               ELSE IF r0 # 65 THEN InvalidHeader(0, 65, received)
               ELSE IF r2 = 12 THEN DecodeBatteryStatus(received)
               ELSE IF r2 = 11 THEN DecodePieceStatus(received)
               ELSE BadField("UnexpectedNotification", r2)
  <2>1. received \in Seq(Byte) /\ Len(received) >= 3
    BY <1>1
  <2> QED
    BY <2>1, ResponseOrder, Zenon
<1>4. r1 # 3 => DecodeBatteryStatus(received) = InvalidHeader(1, 3, received)
  BY <1>1 DEF DecodeBatteryStatus, BatteryResponseLength, BatteryResponsePayload
<1>5. DecodePieceStatus(received) =
         IF r1 # 137 THEN InvalidHeader(1, 137, received)
         ELSE IF bad # {} THEN RecordError(received, Min(bad))
         ELSE PieceStatus([index \in Records |-> Tracked(received, index)])
  BY <1>1, RealSizes DEF DecodePieceStatus, PieceStatusPayload
<1>6. event # Acknowledged
  BY DEF PieceStatus, Acknowledged
\* What is read of a record differs only where the damaged byte is read.
<1>7. ASSUME NEW i \in 0 .. 33
      PROVE  /\ Identity(received, i) # Identity(sent, i) => offset = 3 + 4 * i
             /\ Battery(received, i) # Battery(sent, i) => offset = 3 + 4 * i + 3
             /\ Tracked(received, i) # Tracked(sent, i) => offset \in OffsetsOfRecord(i)
  <2> DEFINE R(f) == At(received, FieldOffset(i, f))
             S(f) == At(sent, FieldOffset(i, f))
  <2>1. /\ offset # 3 + 4 * i + 0 => R(0) = S(0)
        /\ offset # 3 + 4 * i + 1 => R(1) = S(1)
        /\ offset # 3 + 4 * i + 2 => R(2) = S(2)
        /\ offset # 3 + 4 * i + 3 => R(3) = S(3)
    BY RecordUnhurt
  <2>2. 3 + 4 * i + 0 = 3 + 4 * i
    OBVIOUS
  <2>3. offset \in OffsetsOfRecord(i) \/
           (R(0) = S(0) /\ R(1) = S(1) /\ R(2) = S(2) /\ R(3) = S(3))
    BY <2>1 DEF OffsetsOfRecord
  <2> QED
    BY <2>1, <2>2, <2>3 DEF Identity, Battery, Tracked
<1>8. ASSUME NEW i \in 0 .. 33 PROVE ~BadIdentity(sent, i) /\ ~BadBattery(sent, i)
  BY <1>2 DEF BadRecords
<1>9. ASSUME NEW i \in bad
      PROVE  /\ i \in 0 .. 33
             /\ BadIdentity(received, i) => offset = 3 + 4 * i
             /\ ~BadIdentity(received, i) => offset = 3 + 4 * i + 3
  <2>1. i \in 0 .. 33 /\ (BadIdentity(received, i) \/ BadBattery(received, i))
    BY <1>2 DEF BadRecords
  <2>2. BadIdentity(received, i) => offset = 3 + 4 * i
    BY <1>7, <1>8, <2>1, Zenon DEF BadIdentity
  <2>3. BadBattery(received, i) => offset = 3 + 4 * i + 3
    BY <1>7, <1>8, <2>1, Zenon DEF BadBattery
  <2> QED
    BY <2>1, <2>2, <2>3
<1> SUFFICES Fine(event, result, "CommandResponse", received, ByteHurt(offset))
  OBVIOUS
<1> HIDE DEF result, r0, r1, r2, bad, event
<1>10. CASE r0 = 35
  <2>1. offset = 0 /\ result = Acknowledged
    BY <1>1, <1>3, <1>10
  <2> QED
    BY <2>1, FineAcknowledged
<1>11. CASE r0 \notin {35, 65}
  <2>1. offset = 0 /\ result = InvalidHeader(0, 65, received)
    BY <1>1, <1>3, <1>11
  <2> QED
    BY <2>1, FineHeader
<1>12. CASE r0 = 65 /\ r2 # 11
  <2>1. offset = 2 /\ r1 = 137
    BY <1>1, <1>12
  <2>2. CASE r2 = 12
    <3>1. result = InvalidHeader(1, 3, received)
      BY <1>3, <1>4, <1>12, <2>1, <2>2
    <3> QED
      BY <2>1, <3>1, FineHeader
  <2>3. CASE r2 # 12
    <3>1. result = BadField("UnexpectedNotification", r2)
      BY <1>3, <1>12, <2>3
    <3> QED
      BY <1>6, <2>1, <3>1, FineUnexpected
  <2> QED
    BY <2>2, <2>3
<1>13. CASE r0 = 65 /\ r2 = 11
  <2>1. result = DecodePieceStatus(received)
    BY <1>3, <1>13
  <2>2. CASE r1 # 137
    <3>1. offset = 1 /\ result = InvalidHeader(1, 137, received)
      BY <1>1, <1>5, <2>1, <2>2
    <3> QED
      BY <3>1, FineHeader
  <2>3. CASE r1 = 137 /\ bad = {}
    <3>1. result = PieceStatus([index \in Records |-> Tracked(received, index)])
      BY <1>5, <2>1, <2>3
    <3> DEFINE pieces == [index \in Records |-> Tracked(sent, index)]
               others == [index \in Records |-> Tracked(received, index)]
    <3>2. \A i \in Records : others[i] # pieces[i] => offset \in OffsetsOfRecord(i)
      BY <1>2, <1>7
    <3>3. result = PieceStatus(others) /\ event = PieceStatus(pieces)
      BY <3>1 DEF event
    <3> HIDE DEF pieces, others
    <3> QED
      BY <3>2, <3>3, FinePieces
  <2>4. CASE r1 = 137 /\ bad # {}
    <3>1. PICK i \in bad : TRUE
      BY <2>4
    <3>2. \A j \in bad : j = i
      BY <1>9
    <3>3. Min(bad) = i
      <4>1. bad = {i} /\ i <= i
        BY <1>9, <3>2
      <4> QED
        BY <4>1 DEF Min
    <3>4. result = RecordError(received, i)
      BY <1>5, <2>1, <2>4, <3>3
    <3>5. CASE BadIdentity(received, i)
      <4>1. result = BadFieldAt("InvalidTrackedPiece", i, Identity(received, i))
        BY <3>4, <3>5 DEF RecordError
      <4>2. offset = 3 + 4 * i
        BY <1>9, <3>5
      <4> QED
        BY <4>1, <4>2, FineRecord
    <3>6. CASE ~BadIdentity(received, i)
      <4>1. result = BadFieldAt("InvalidTrackedPieceBattery", i, Battery(received, i))
        BY <3>4, <3>6 DEF RecordError
      <4>2. offset = 3 + 4 * i + 3
        BY <1>9, <3>6
      <4> QED
        BY <4>1, <4>2, FineRecord
    <3> QED
      BY <3>5, <3>6
  <2> QED
    BY <2>2, <2>3, <2>4
<1> QED
  BY <1>10, <1>11, <1>12, <1>13 DEF result, event

-----------------------------------------------------------------------------
(* A notification that is cut short. *)

\* What is left of the bytes that were sent.
Cut(sent, length) == SubSeq(sent, 1, length)
CutTo(length) == [kind |-> "cut", at |-> length]

LEMMA CutFacts ==
  ASSUME NEW sent \in Seq(Byte), NEW length \in Nat, length < Len(sent)
  PROVE  /\ Cut(sent, length) \in Seq(Byte) /\ Len(Cut(sent, length)) = length
         /\ \A k \in 0 .. length - 1 : At(Cut(sent, length), k) = At(sent, k)
<1>1. Cut(sent, length) \in Seq(Byte) /\ Len(Cut(sent, length)) = length
  BY CutBytes DEF Cut
<1>2. \A i \in 1 .. length : Cut(sent, length)[i] = sent[i]
  BY DEF Cut
<1>3. ASSUME NEW k \in 0 .. length - 1 PROVE At(Cut(sent, length), k) = At(sent, k)
  <2>1. k + 1 \in 1 .. length
    OBVIOUS
  <2> QED
    BY <1>2, <2>1, Zenon DEF At
<1> QED
  BY <1>1, <1>3

\* Cutting off the bytes behind the squares changes nothing.
LEMMA PositionCut ==
  ASSUME NEW sent \in Seq(Byte), NEW length \in Nat, length < Len(sent),
         IsEvent(DecodePosition(sent))
  PROVE  Fine(DecodePosition(sent), DecodePosition(Cut(sent, length)), "Position",
              Cut(sent, length), CutTo(length))
<1> DEFINE received == Cut(sent, length)
<1>1. received \in Seq(Byte) /\ Len(received) = length
  BY CutFacts
<1>2. BoardStateOffset + PackedBytes = 34 /\ BoardStateOffset + 1 = 3
  BY RealSizes DEF BoardStateOffset
<1>3. CASE length < 34
  <2>1. DecodePosition(received) = TooShort(34, received)
    BY <1>1, <1>2, <1>3 DEF DecodePosition
  <2>2. CutTo(length).kind = "cut" /\ Len(received) < 34
    BY <1>1, <1>3 DEF CutTo
  <2> HIDE DEF received
  <2>3. Fine(DecodePosition(sent), DecodePosition(received), "Position", received, CutTo(length))
    BY <2>1, <2>2, FineShort
  <2> QED
    BY <2>3 DEF received
<1>4. CASE length >= 34
  <2>1. SubSeq(received, 3, 34) = SubSeq(sent, 3, 34)
    <3>1. \A i \in 1 .. length : received[i] = sent[i]
      BY DEF Cut
    <3>2. \A i \in 3 .. 34 : received[i] \in Byte /\ sent[i] \in Byte /\ received[i] = sent[i]
      BY <1>1, <1>4, <3>1
    <3> HIDE DEF received
    <3>3. /\ SubSeq(received, 3, 34) \in Seq(Byte) /\ SubSeq(sent, 3, 34) \in Seq(Byte)
          /\ Len(SubSeq(received, 3, 34)) = 32 /\ Len(SubSeq(sent, 3, 34)) = 32
          /\ \A i \in 1 .. 32 : SubSeq(received, 3, 34)[i] = received[3 + i - 1]
          /\ \A i \in 1 .. 32 : SubSeq(sent, 3, 34)[i] = sent[3 + i - 1]
      <4>1. 34 - 3 + 1 = 32 /\ 3 \in Int /\ 34 \in Int /\ 3 <= 34
        OBVIOUS
      <4> QED
        BY <1>1, <3>2, <4>1, SubSeqProperties
    <3>4. \A i \in 1 .. 32 : SubSeq(received, 3, 34)[i] = SubSeq(sent, 3, 34)[i]
      <4>1. ASSUME NEW i \in 1 .. 32
            PROVE  received[3 + i - 1] = sent[3 + i - 1]
        <5>1. 3 + i - 1 \in 3 .. 34
          OBVIOUS
        <5> QED
          BY <3>2, <5>1, Zenon
      <4>2. ASSUME NEW i \in 1 .. 32
            PROVE  SubSeq(received, 3, 34)[i] = SubSeq(sent, 3, 34)[i]
        <5>1. SubSeq(received, 3, 34)[i] = received[3 + i - 1]
          BY <3>3, Zenon
        <5>2. SubSeq(sent, 3, 34)[i] = sent[3 + i - 1]
          BY <3>3, Zenon
        <5> QED
          BY <4>1, <5>1, <5>2, Zenon
      <4> QED
        BY <4>2, Zenon
    <3> QED
      BY <3>3, <3>4, SeqEqual
  <2>2. ~(Len(received) < 34) /\ ~(Len(sent) < 34)
    BY <1>1, <1>4
  <2> HIDE DEF received
  <2>3. DecodePosition(received) = DecodePosition(sent)
    BY <1>2, <2>1, <2>2 DEF DecodePosition
  <2>4. Fine(DecodePosition(sent), DecodePosition(received), "Position", received, CutTo(length))
    BY <2>3, FineSame
  <2> QED
    BY <2>4 DEF received
<1> QED
  BY <1>3, <1>4

\* A response that was not short of bytes is, once it is cut.
LEMMA ResponseCut ==
  ASSUME NEW sent \in Seq(Byte), NEW length \in Nat, length < Len(sent), NEW event, IsEvent(event),
         \/ Len(sent) = 3 /\ At(sent, 0) = 35 /\ event = Acknowledged
         \/ Len(sent) = 5 /\ At(sent, 0) = 65 /\ At(sent, 2) = 12
         \/ Len(sent) = 139 /\ At(sent, 0) = 65 /\ At(sent, 2) = 11
  PROVE  Fine(event, DecodeNotification("CommandResponse", Cut(sent, length)),
              "CommandResponse", Cut(sent, length), CutTo(length))
<1> DEFINE received == Cut(sent, length)
           result == DecodeNotification("CommandResponse", received)
<1>1. /\ received \in Seq(Byte) /\ Len(received) = length
      /\ length > 0 => At(received, 0) = At(sent, 0)
      /\ length > 2 => At(received, 2) = At(sent, 2)
  BY CutFacts
<1>2. CutTo(length).kind = "cut"
  BY DEF CutTo
<1> SUFFICES Fine(event, result, "CommandResponse", received, CutTo(length))
  OBVIOUS
<1>3. length = 0 <=> received = <<>>
  BY <1>1
<1> HIDE DEF received
<1>4. CASE length > 0 /\ At(sent, 0) = 35
  <2>1. result = Acknowledged /\ event = Acknowledged
    BY <1>1, <1>3, <1>4 DEF DecodeNotification, Acknowledgement
  <2> HIDE DEF result
  <2> QED
    BY <2>1, FineSame
<1>5. CASE length = 0 \/ (length < 3 /\ At(sent, 0) # 35)
  <2>1. result = TooShort(3, received)
    BY <1>1, <1>3, <1>5
       DEF DecodeNotification, DecodeResponse, Acknowledgement, ResponseHeaderLength
  <2> HIDE DEF result
  <2>2. Len(received) < 3
    BY <1>1, <1>5
  <2> QED
    BY <1>2, <2>1, <2>2, FineShort
<1>6. CASE length >= 3 /\ At(sent, 0) # 35
  <2>1. /\ At(received, 0) = 65 /\ Len(received) >= 3
        /\ \/ length < 5 /\ At(received, 2) = 12
           \/ length < 139 /\ At(received, 2) = 11
    <3>1. length > 0 /\ length > 2
      BY <1>6
    <3>2. \/ length < 5 /\ At(sent, 0) = 65 /\ At(sent, 2) = 12
          \/ length < 139 /\ At(sent, 0) = 65 /\ At(sent, 2) = 11
      BY <1>6
    <3> QED
      BY <1>1, <1>6, <3>1, <3>2
  <2>2 result = IF At(received, 2) = 12 THEN DecodeBatteryStatus(received)
                 ELSE IF At(received, 2) = 11 THEN DecodePieceStatus(received)
                 ELSE BadField("UnexpectedNotification", At(received, 2))
    BY <1>1, <2>1, ResponseOrder
  <2> HIDE DEF result
  <2>3. CASE At(received, 2) = 12
    <3>1. result = DecodeBatteryStatus(received)
      BY <2>3, <2>2
    <3>2. Len(received) < 5
      BY <1>1, <2>1, <2>3
    <3>3. DecodeBatteryStatus(received) = TooShort(5, received)
      BY <3>2 DEF DecodeBatteryStatus, BatteryResponseLength
    <3> QED
      BY <1>2, <3>1, <3>2, <3>3, FineShort
  <2>4. CASE At(received, 2) = 11
    <3>1. result = DecodePieceStatus(received)
      BY <2>4, <2>2
    <3>2. Len(received) < 139
      BY <1>1, <2>1, <2>4
    <3>3. DecodePieceStatus(received) = TooShort(139, received)
      BY <3>2, RealSizes DEF DecodePieceStatus
    <3> QED
      BY <1>2, <3>1, <3>2, <3>3, FineShort
  <2> QED
    BY <2>1, <2>3, <2>4
<1> QED
  BY <1>4, <1>5, <1>6

-----------------------------------------------------------------------------
(* The inductive invariant. *)

\* A notification as the board sends it.
Genuine(event, source, bytes) ==
  /\ IsEvent(event)
  /\ bytes \in Seq(Byte)
  /\ event = DecodeNotification(source, bytes)
  /\ \/ source = "Position"
     \/ source = "CommandResponse" /\ event = Acknowledged /\ bytes = <<35, 1, 0>>
     \/ /\ source = "CommandResponse" /\ Len(bytes) = 5
        /\ At(bytes, 0) = 65 /\ At(bytes, 2) = 12
     \/ /\ source = "CommandResponse" /\ Len(bytes) = 139
        /\ At(bytes, 0) = 65 /\ At(bytes, 2) = 11

LinkInv ==
  link = "notification" =>
     /\ damage = Undamaged => Genuine(meant, frame.source, frame.bytes)
     /\ damage # Undamaged => Fine(meant, DecodeNotification(frame.source, frame.bytes),
                                   frame.source, frame.bytes, damage)

DamageInv == IInv /\ LinkInv /\ DamageIsContained /\ ErrorsPointAtDamage

\* One byte of a genuine notification is changed.
LEMMA GenuineHurt ==
  ASSUME NEW event, NEW source, NEW sent, Genuine(event, source, sent),
         NEW received, NEW offset, Agree(sent, received, offset)
  PROVE  Fine(event, DecodeNotification(source, received), source, received, ByteHurt(offset))
<1>1. CASE source = "Position"
  <2>1. /\ DecodeNotification(source, sent) = DecodePosition(sent)
        /\ DecodeNotification(source, received) = DecodePosition(received)
    BY <1>1 DEF DecodeNotification
  <2>2. event = DecodePosition(sent) /\ "event" \in DOMAIN DecodePosition(sent)
    BY <2>1 DEF Genuine, IsEvent
  <2>3. Len(sent) >= 34 /\ BadNibbles(SubSeq(sent, 3, 34)) = {}
    <3>1. BoardStateOffset + PackedBytes = 34 /\ BoardStateOffset + 1 = 3
      BY RealSizes DEF BoardStateOffset
    <3>2. ~(Len(sent) < 34)
      <4>1. Len(sent) < 34 => DecodePosition(sent) = TooShort(34, sent)
        BY <3>1 DEF DecodePosition
      <4> QED
        BY <2>2, <4>1 DEF TooShort
    <3>3. BadNibbles(SubSeq(sent, 3, 34)) = {}
      <4>1. BadNibbles(SubSeq(sent, 3, 34)) # {} =>
               \E w, v : DecodePosition(sent) = BadFieldAt("InvalidPiece", w, v)
        BY <3>1, <3>2 DEF DecodePosition
      <4> QED
        BY <2>2, <4>1 DEF BadFieldAt
    <3>4. Len(sent) \in Nat
      BY DEF Genuine
    <3> QED
      BY <3>2, <3>3, <3>4
  <2> QED
    BY <1>1, <2>1, <2>2, <2>3, PositionHurt DEF Fine
<1>2. CASE source = "CommandResponse" /\ event = Acknowledged /\ sent = <<35, 1, 0>>
  BY <1>2, AcknowledgementHurt
<1>3. CASE /\ source = "CommandResponse" /\ Len(sent) = 5
           /\ At(sent, 0) = 65 /\ At(sent, 2) = 12
  <2>1. sent \in Seq(Byte) /\ Len(sent) >= 3
    BY <1>3 DEF Genuine
  <2>2. event = DecodeBatteryStatus(sent) /\ "event" \in DOMAIN event
    <3>1. event = DecodeNotification("CommandResponse", sent)
      BY <1>3 DEF Genuine
    <3>2. DecodeNotification("CommandResponse", sent) = DecodeBatteryStatus(sent)
      <4>1. DecodeNotification("CommandResponse", sent) =
               IF At(sent, 0) = 35 THEN Acknowledged
               ELSE IF At(sent, 0) # 65 THEN InvalidHeader(0, 65, sent)
               ELSE IF At(sent, 2) = 12 THEN DecodeBatteryStatus(sent)
               ELSE IF At(sent, 2) = 11 THEN DecodePieceStatus(sent)
               ELSE BadField("UnexpectedNotification", At(sent, 2))
        BY <2>1, ResponseOrder, Zenon
      <4> QED
        BY <1>3, <4>1
    <3>3. "event" \in DOMAIN event
      BY DEF Genuine, IsEvent
    <3> QED
      BY <3>1, <3>2, <3>3
  <2>3. At(sent, 4) \in Byte
    <3>1. 4 \in Nat /\ 4 < Len(sent)
      BY <1>3
    <3> QED
      BY <2>1, <3>1, AtType
  <2>4. event = IF At(sent, 1) # 3 THEN InvalidHeader(1, 3, sent)
                ELSE IF At(sent, 3) \notin {0, 1}
                     THEN BadField("InvalidChargingFlag", At(sent, 3))
                ELSE IF At(sent, 4) > 100
                     THEN BadField("InvalidBatteryPercentage", At(sent, 4))
                ELSE BatteryStatus(At(sent, 3) = 1, At(sent, 4))
    BY <1>3, <2>2 DEF DecodeBatteryStatus, BatteryResponseLength, BatteryResponsePayload
  <2>5. At(sent, 1) = 3 /\ At(sent, 3) \in {0, 1} /\ ~(At(sent, 4) > 100)
    BY <2>2, <2>4 DEF InvalidHeader, BadField
  <2>6. At(sent, 4) <= 100
    BY <2>3, <2>5 DEF Byte
  <2> QED
    BY <1>3, <2>4, <2>5, <2>6, BatteryHurt
<1>4. CASE /\ source = "CommandResponse" /\ Len(sent) = 139
           /\ At(sent, 0) = 65 /\ At(sent, 2) = 11
  <2>1. sent \in Seq(Byte) /\ Len(sent) >= 3
    BY <1>4 DEF Genuine
  <2>2. event = DecodePieceStatus(sent) /\ "event" \in DOMAIN event
    <3>1. event = DecodeNotification("CommandResponse", sent)
      BY <1>4 DEF Genuine
    <3>2. DecodeNotification("CommandResponse", sent) = DecodePieceStatus(sent)
      <4>1. DecodeNotification("CommandResponse", sent) =
               IF At(sent, 0) = 35 THEN Acknowledged
               ELSE IF At(sent, 0) # 65 THEN InvalidHeader(0, 65, sent)
               ELSE IF At(sent, 2) = 12 THEN DecodeBatteryStatus(sent)
               ELSE IF At(sent, 2) = 11 THEN DecodePieceStatus(sent)
               ELSE BadField("UnexpectedNotification", At(sent, 2))
        BY <2>1, ResponseOrder, Zenon
      <4> QED
        BY <1>4, <4>1
    <3>3. "event" \in DOMAIN event
      BY DEF Genuine, IsEvent
    <3> QED
      BY <3>1, <3>2, <3>3
  <2>3. event = IF At(sent, 1) # 137 THEN InvalidHeader(1, 137, sent)
                ELSE IF BadRecords(sent) # {} THEN RecordError(sent, Min(BadRecords(sent)))
                ELSE PieceStatus([index \in Records |-> Tracked(sent, index)])
    BY <1>4, <2>2, RealSizes DEF DecodePieceStatus, PieceStatusPayload
  <2>4. At(sent, 1) = 137
    BY <2>2, <2>3 DEF InvalidHeader
  <2>5. BadRecords(sent) = {}
    <3>1. \A i : "event" \notin DOMAIN RecordError(sent, i)
      BY DEF RecordError, BadFieldAt
    <3> QED
      BY <2>2, <2>3, <2>4, <3>1, Zenon
  <2> QED
    BY <1>4, <2>3, <2>4, <2>5, PiecesHurt
<1> QED
  BY <1>1, <1>2, <1>3, <1>4 DEF Genuine

\* A genuine notification is cut short.
LEMMA GenuineCut ==
  ASSUME NEW event, NEW source, NEW sent, Genuine(event, source, sent),
         NEW length \in Nat, length < Len(sent)
  PROVE  Fine(event, DecodeNotification(source, Cut(sent, length)), source, Cut(sent, length),
              CutTo(length))
<1>1. sent \in Seq(Byte) /\ IsEvent(event)
  BY DEF Genuine
<1>2. CASE source = "Position"
  <2>1. \A bytes : DecodeNotification(source, bytes) = DecodePosition(bytes)
    BY <1>2 DEF DecodeNotification
  <2>2. event = DecodePosition(sent)
    BY <2>1 DEF Genuine
  <2> QED
    BY <1>1, <1>2, <2>1, <2>2, PositionCut
<1>3. CASE source = "CommandResponse" /\ event = Acknowledged /\ sent = <<35, 1, 0>>
  <2>1. Len(sent) = 3 /\ At(sent, 0) = 35
    BY <1>3 DEF At
  <2> QED
    BY <1>1, <1>3, <2>1, ResponseCut
<1>4. CASE /\ source = "CommandResponse" /\ At(sent, 0) = 65
           /\ \/ Len(sent) = 5 /\ At(sent, 2) = 12
              \/ Len(sent) = 139 /\ At(sent, 2) = 11
  BY <1>1, <1>4, ResponseCut
<1> QED
  BY <1>2, <1>3, <1>4 DEF Genuine

LEMMA DamageInit == Init => DamageInv
BY IInvInit
   DEF Init, DamageInv, LinkInv, DamageIsContained, ErrorsPointAtDamage, IsDelivered

\* Nothing is claimed of a state in which no notification is on the link or delivered.
LEMMA QuietKeeps ==
  ASSUME link' # "notification", link' = "delivered" => "source" \notin DOMAIN frame'
  PROVE  LinkInv' /\ DamageIsContained' /\ ErrorsPointAtDamage'
BY DEF LinkInv, DamageIsContained, ErrorsPointAtDamage, IsDelivered

LEMMA OnLinkKeeps ==
  ASSUME link' = "notification", LinkInv'
  PROVE  DamageIsContained' /\ ErrorsPointAtDamage'
BY DEF DamageIsContained, ErrorsPointAtDamage, IsDelivered

LEMMA ReplyIsGenuine ==
  ASSUME NEW event, NEW source, NEW bytes, Genuine(event, source, bytes),
         Reply(event, source, bytes)
  PROVE  LinkInv' /\ DamageIsContained' /\ ErrorsPointAtDamage'
<1>1. /\ link' = "notification" /\ meant' = event
      /\ frame' = [source |-> source, bytes |-> bytes]
  BY DEF Reply
<1>2. frame'.source = source /\ frame'.bytes = bytes
  BY <1>1
<1>3. DecodeNotification(source, bytes) = event /\ IsEvent(event)
  BY DEF Genuine
<1>4. Fine(event, event, source, bytes, damage')
  BY <1>3, FineSame
<1>5. LinkInv'
  BY <1>1, <1>2, <1>3, <1>4 DEF LinkInv
<1> QED
  BY <1>1, <1>5, OnLinkKeeps

LEMMA FollowIsGenuine ==
  ASSUME IInv, Follow
  PROVE  LinkInv' /\ DamageIsContained' /\ ErrorsPointAtDamage'
<1>1. link = "command" /\ Clear(meant, frame) /\ outcome' = Understood(frame.bytes)
  BY DEF Follow, IInv, CommandInv
<1>2. /\ Enable # Report("battery") /\ Enable # Report("pieces")
      /\ Report("battery") # Report("pieces")
  BY DEF Enable, Report
<1>3. CASE outcome' = Enable
  <2>1. Reply(Acknowledged, "CommandResponse", <<35, 1, 0>>)
    BY <1>2, <1>3 DEF Follow
  <2>2. Genuine(Acknowledged, "CommandResponse", <<35, 1, 0>>)
    BY AcknowledgementExact DEF Genuine, IsEvent, Acknowledged
  <2> QED
    BY <2>1, <2>2, ReplyIsGenuine
<1>4. CASE outcome' = Report("battery")
  <2>1. PICK charging \in BOOLEAN, percentage \in {0, 100} :
              Reply(BatteryStatus(charging, percentage), "CommandResponse",
                    <<65, 3, 12, IF charging THEN 1 ELSE 0, percentage>>)
    BY <1>2, <1>4 DEF Follow
  <2> DEFINE bytes == <<65, 3, 12, IF charging THEN 1 ELSE 0, percentage>>
  <2>2. percentage \in 0 .. 100
    OBVIOUS
  <2>3. /\ bytes \in Seq(Byte) /\ Len(bytes) = 5
        /\ DecodeNotification("CommandResponse", bytes) = BatteryStatus(charging, percentage)
    BY <2>2, BatteryExact
  <2>4. At(bytes, 0) = 65 /\ At(bytes, 2) = 12
    BY DEF At
  <2>5. Reply(BatteryStatus(charging, percentage), "CommandResponse", bytes)
    BY <2>1
  <2>6. IsEvent(BatteryStatus(charging, percentage))
    BY DEF IsEvent, BatteryStatus
  <2> HIDE DEF bytes
  <2>7. Genuine(BatteryStatus(charging, percentage), "CommandResponse", bytes)
    BY <2>3, <2>4, <2>6, Zenon DEF Genuine
  <2> QED
    BY <2>5, <2>7, ReplyIsGenuine
<1>5. CASE outcome' = Report("pieces")
  <2>1. PICK level \in Levels :
              Reply(PieceStatus([index \in Records |-> Sensed(index, level)]),
                    "CommandResponse", PieceStatusBytes(level))
    BY <1>2, <1>5 DEF Follow
  <2> DEFINE bytes == PieceStatusBytes(level)
             event == PieceStatus([index \in Records |-> Sensed(index, level)])
  <2>2. bytes \in Seq(Byte) /\ Len(bytes) = 139 /\ bytes[1] = 65 /\ bytes[3] = 11
    BY PieceStatusBytesType
  <2>3. DecodeNotification("CommandResponse", bytes) = event
    BY PiecesExact
  <2>4. IsEvent(event)
    BY DEF IsEvent, PieceStatus
  <2>5. Reply(event, "CommandResponse", bytes)
    BY <2>1
  <2> HIDE DEF bytes, event
  <2>6. At(bytes, 0) = 65 /\ At(bytes, 2) = 11
    BY <2>2 DEF At
  <2>7. Genuine(event, "CommandResponse", bytes)
    BY <2>2, <2>3, <2>4, <2>6, Zenon DEF Genuine
  <2> QED
    BY <2>5, <2>7, ReplyIsGenuine
<1>6. CASE outcome' \notin {Enable, Report("battery"), Report("pieces")}
  <2>1. link' = "delivered" /\ frame' = frame
    BY <1>6 DEF Follow
  <2>2. "source" \notin DOMAIN frame'
    BY <1>1, <2>1 DEF Clear, Command
  <2> QED
    BY <2>1, <2>2, QuietKeeps
<1> QED
  BY <1>3, <1>4, <1>5, <1>6

LEMMA SendPositionIsGenuine ==
  ASSUME IInv, SendPosition
  PROVE  LinkInv' /\ DamageIsContained' /\ ErrorsPointAtDamage'
<1> DEFINE bytes == <<1, 36>> \o BoardPacks(board) \o <<7, 7>>
<1>1. Reply(PositionChanged(board), "Position", bytes)
  BY DEF SendPosition
<1>2. /\ bytes \in Seq(Byte)
      /\ DecodeNotification("Position", bytes) = PositionChanged(board)
  BY PositionExact DEF IInv
<1> HIDE DEF bytes
<1>3. Genuine(PositionChanged(board), "Position", bytes)
  BY <1>2 DEF Genuine, IsEvent, PositionChanged
<1> QED
  BY <1>1, <1>3, ReplyIsGenuine

LEMMA FaultIsFine ==
  ASSUME IInv, LinkInv,
         \/ \E offset \in Offsets, value \in Damages : DamageByte(offset, value)
         \/ \E length \in Offsets : CutShort(length)
  PROVE  LinkInv' /\ DamageIsContained' /\ ErrorsPointAtDamage'
<1> DEFINE source == frame.source
           sent == frame.bytes
<1>1. /\ link = "notification" /\ link' = link /\ meant' = meant
      /\ Genuine(meant, source, sent)
  BY DEF LinkInv, DamageByte, CutShort
<1>2. frame = [source |-> source, bytes |-> sent] /\ sent \in Seq(Byte)
  BY <1>1 DEF IInv, NotificationInv
<1>3. ASSUME NEW bytes, frame' = [frame EXCEPT !.bytes = bytes], damage' # Undamaged,
             Fine(meant, DecodeNotification(source, bytes), source, bytes, damage')
      PROVE  LinkInv'
  <2>1. frame'.source = source /\ frame'.bytes = bytes
    <3>1. frame' = [source |-> source, bytes |-> bytes]
      BY <1>2, <1>3
    <3> QED
      BY <3>1
  <2> QED
    BY <1>1, <1>3, <2>1 DEF LinkInv
<1> HIDE DEF source, sent
<1>4. ASSUME NEW offset \in Offsets, NEW value \in Damages, DamageByte(offset, value)
      PROVE  LinkInv'
  <2> DEFINE received == [sent EXCEPT ![offset + 1] = value]
  <2>1. /\ offset < Len(sent)
        /\ frame' = [frame EXCEPT !.bytes = received]
        /\ damage' = ByteHurt(offset)
    BY <1>4 DEF DamageByte, ByteHurt, sent
  <2>2. offset \in Nat /\ value \in Byte /\ Len(sent) \in Nat
    BY <1>2, LinkAssumption
  <2>3. received \in Seq(Byte) /\ Len(received) = Len(sent)
    <3>1. offset + 1 \in 1 .. Len(sent)
      BY <2>1, <2>2
    <3> QED
      BY <1>2, <2>2, <3>1, ChangedByte
  <2>4. ASSUME NEW k \in 0 .. Len(sent) - 1, k # offset
        PROVE  At(received, k) = At(sent, k)
    <3>1. k + 1 \in 1 .. Len(sent) /\ k + 1 # offset + 1
      BY <2>2, <2>4
    <3> QED
      BY <1>2, <3>1 DEF At
  <2> HIDE DEF received
  <2>5. Agree(sent, received, offset)
    BY <1>2, <2>1, <2>2, <2>3, <2>4 DEF Agree
  <2>6. damage' # Undamaged
    BY <2>1 DEF ByteHurt, Undamaged
  <2>7. Fine(meant, DecodeNotification(source, received), source, received, damage')
    BY <1>1, <2>1, <2>5, GenuineHurt
  <2> QED
    BY <1>3, <2>1, <2>6, <2>7
<1>5. ASSUME NEW length \in Offsets, CutShort(length) PROVE LinkInv'
  <2>1. /\ length < Len(sent)
        /\ frame' = [frame EXCEPT !.bytes = Cut(sent, length)]
        /\ damage' = CutTo(length)
    BY <1>5 DEF CutShort, CutTo, Cut, sent
  <2>2. length \in Nat
    BY LinkAssumption
  <2>3. damage' # Undamaged
    BY <2>1 DEF CutTo, Undamaged
  <2>4. Fine(meant, DecodeNotification(source, Cut(sent, length)), source, Cut(sent, length),
             damage')
    BY <1>1, <2>1, <2>2, GenuineCut
  <2> QED
    BY <1>3, <2>1, <2>3, <2>4
<1>6. LinkInv'
  BY <1>4, <1>5
<1> QED
  BY <1>1, <1>6, OnLinkKeeps

LEMMA DecodeIsFine ==
  ASSUME LinkInv, Decode
  PROVE  LinkInv' /\ DamageIsContained' /\ ErrorsPointAtDamage'
<1>1. /\ link = "notification" /\ link' = "delivered"
      /\ outcome' = DecodeNotification(frame.source, frame.bytes)
      /\ UNCHANGED <<meant, frame, damage>>
  BY DEF Decode
<1>2. Fine(meant, outcome', frame.source, frame.bytes, damage)
  <2>1. CASE damage = Undamaged
    <3>1. outcome' = meant /\ IsEvent(meant)
      BY <1>1, <2>1 DEF LinkInv, Genuine
    <3> QED
      BY <3>1, FineSame
  <2>2. CASE damage # Undamaged
    BY <1>1, <2>2 DEF LinkInv
  <2> QED
    BY <2>1, <2>2
<1>3. /\ Contained(meant', outcome', frame'.source, damage')
      /\ Blamed(meant', outcome', frame'.bytes, damage')
  BY <1>1, <1>2 DEF Fine
<1>4. DamageIsContained' /\ ErrorsPointAtDamage'
  BY <1>3 DEF DamageIsContained, ErrorsPointAtDamage
<1>5. LinkInv'
  BY <1>1 DEF LinkInv
<1> QED
  BY <1>4, <1>5

LEMMA DamageNext == DamageInv /\ [Next]_vars => DamageInv'
<1> SUFFICES ASSUME DamageInv, [Next]_vars
             PROVE  LinkInv' /\ DamageIsContained' /\ ErrorsPointAtDamage'
  BY IInvNext DEF DamageInv
<1>1. CASE link' \in {"idle", "command"}
  BY <1>1, QuietKeeps
<1>2. CASE Follow
  BY <1>2, FollowIsGenuine DEF DamageInv
<1>3. CASE SendPosition
  BY <1>3, SendPositionIsGenuine DEF DamageInv
<1>4. CASE \/ \E offset \in Offsets, value \in Damages : DamageByte(offset, value)
           \/ \E length \in Offsets : CutShort(length)
  BY <1>4, FaultIsFine DEF DamageInv
<1>5. CASE Decode
  BY <1>5, DecodeIsFine DEF DamageInv
<1>6. CASE UNCHANGED vars
  BY <1>6 DEF vars, DamageInv, LinkInv, DamageIsContained, ErrorsPointAtDamage,
              IsDelivered
<1>7. CASE \/ \E from, to \in Touched, mode \in DOMAIN ModeFlag : RequestMove(from, to, mode)
           \/ RequestStop \/ RequestEnable \/ RequestBattery \/ RequestPieces
           \/ \E pattern \in Lit : RequestLeds(pattern)
           \/ \E from, to \in Touched : Touch(from, to)
           \/ Settle
  <2>1. link' \in {"idle", "command"}
    BY <1>7 DEF RequestMove, RequestStop, RequestEnable, RequestBattery, RequestPieces,
                RequestLeds, Send, Touch, Settle
  <2> QED
    BY <1>1, <2>1
<1> QED
  BY <1>2, <1>3, <1>4, <1>5, <1>6, <1>7 DEF Next

-----------------------------------------------------------------------------
(* The theorems. *)

\* The invariant about damage holds in every reachable state.
THEOREM DamageInvariance == Spec => []DamageInv
BY DamageInit, DamageNext, PTL DEF Spec

\* Damage that goes unnoticed changes only what the damaged byte holds, for every
\* board, every byte, every offset and every length.
THEOREM DamageStaysContained == Spec => []DamageIsContained
<1>1. DamageInv => DamageIsContained
  BY DEF DamageInv
<1> QED
  BY <1>1, DamageInvariance, PTL

\* No error is raised without damage, and every error names its place.
THEOREM ErrorsArePlaced == Spec => []ErrorsPointAtDamage
<1>1. DamageInv => ErrorsPointAtDamage
  BY DEF DamageInv
<1> QED
  BY <1>1, DamageInvariance, PTL
=============================================================================
