---------------------------- MODULE CodecProofs ----------------------------
(***************************************************************************)
(* Proofs about the codec: what the squares hold survives packing and      *)
(* unpacking, for every content and every even board width, and a position *)
(* is decoded to what was encoded whatever surrounds it.                   *)
(***************************************************************************)
EXTENDS Commands, Notifications, SequenceTheorems, TLAPS

-----------------------------------------------------------------------------
(* Squares on the wire. *)

\* The sizes are those of a board with an even width.
LEMMA Sizes ==
  /\ SquareCount \in Nat /\ PackedBytes \in Nat
  /\ SquareCount = 2 * PackedBytes
  /\ SquareCount \in {4, 16, 36, 64}
BY WidthAssumption DEF SquareCount, PackedBytes

\* The order on the wire is the canonical order backwards, and the same both ways.
LEMMA IndexInvolution ==
  ASSUME NEW w \in WireIndexes
  PROVE  /\ PositionIndex(w) \in Squares
         /\ PositionIndex(PositionIndex(w)) = w
BY Sizes DEF WireIndexes, Squares, PositionIndex

LEMMA PackedType ==
  ASSUME NEW D, NEW squares \in [Squares -> D], NEW code \in [D -> Nibble]
  PROVE  /\ Packed(squares, code) \in Seq(Byte)
         /\ Len(Packed(squares, code)) = PackedBytes
<1>1. ASSUME NEW b \in 1 .. PackedBytes
      PROVE  /\ PositionIndex(2 * (b - 1)) \in Squares
             /\ PositionIndex(2 * (b - 1) + 1) \in Squares
  BY Sizes DEF Squares, PositionIndex
<1>2. ASSUME NEW b \in 1 .. PackedBytes
      PROVE  code[squares[PositionIndex(2 * (b - 1))]]
                + 16 * code[squares[PositionIndex(2 * (b - 1) + 1)]] \in Byte
  <2>1. /\ code[squares[PositionIndex(2 * (b - 1))]] \in Nibble
        /\ code[squares[PositionIndex(2 * (b - 1) + 1)]] \in Nibble
    BY <1>1
  <2> QED
    BY <2>1 DEF Nibble, Byte
<1>3. Packed(squares, code) \in [1 .. PackedBytes -> Byte]
  BY <1>2 DEF Packed
<1> QED
  BY <1>3, Sizes

\* What is packed at a place of the wire is read back there.
LEMMA NibbleRoundTrip ==
  ASSUME NEW D, NEW squares \in [Squares -> D], NEW code \in [D -> Nibble],
         NEW w \in WireIndexes
  PROVE  NibbleAt(Packed(squares, code), w) = code[squares[PositionIndex(w)]]
<1> DEFINE low == code[squares[PositionIndex(2 * (w \div 2))]]
           high == code[squares[PositionIndex(2 * (w \div 2) + 1)]]
<1>1. /\ w \div 2 + 1 \in 1 .. PackedBytes
      /\ w \in Nat /\ w \div 2 \in Nat
      /\ w = IF w % 2 = 0 THEN 2 * (w \div 2) ELSE 2 * (w \div 2) + 1
      /\ PositionIndex(2 * (w \div 2)) \in Squares
      /\ PositionIndex(2 * (w \div 2) + 1) \in Squares
  BY Sizes DEF WireIndexes, Squares, PositionIndex
<1>2. At(Packed(squares, code), w \div 2) = low + 16 * high
  <2>1. 2 * ((w \div 2 + 1) - 1) = 2 * (w \div 2)
    BY <1>1
  <2> QED
    BY <1>1, <2>1 DEF At, Packed
<1>3. low \in Nibble /\ high \in Nibble
  BY <1>1
<1> HIDE DEF low, high
<1>4. (low + 16 * high) % 16 = low /\ (low + 16 * high) \div 16 = high
  BY <1>3 DEF Nibble
<1>5. NibbleAt(Packed(squares, code), w) = IF w % 2 = 0 THEN low ELSE high
  BY <1>2, <1>4 DEF NibbleAt
<1> QED
  BY <1>1, <1>5 DEF low, high

\* The two tables of piece codes are inverse to each other.
LEMMA PieceTables ==
  /\ PieceCode \in [Contents -> Nibble]
  /\ DOMAIN DecodedPiece = 0 .. 12
  /\ \A p \in Contents : PieceCode[p] \in 0 .. 12 /\ DecodedPiece[PieceCode[p]] = p
  /\ \A n \in 0 .. 12 : DecodedPiece[n] \in Contents /\ PieceCode[DecodedPiece[n]] = n
<1>1. \A n \in 0 .. 12 : DecodedPiece[n] \in Contents /\ PieceCode[DecodedPiece[n]] = n
  <2> TAKE n \in 0 .. 12
  <2>1. n \in {0, 1, 2, 3, 4, 5, 6, 7, 8, 9, 10, 11, 12}
    OBVIOUS
  <2> QED
    BY <2>1 DEF DecodedPiece, PieceCode, Contents, Pieces
<1>2. \A p \in Contents : PieceCode[p] \in 0 .. 12 /\ DecodedPiece[PieceCode[p]] = p
  BY DEF DecodedPiece, PieceCode, Contents, Pieces
<1>3. PieceCode \in [Contents -> Nibble]
  <2>1. DOMAIN PieceCode = Contents
    BY DEF PieceCode, Contents, Pieces
  <2>2. PieceCode = [p \in Contents |-> PieceCode[p]]
    BY <2>1 DEF PieceCode
  <2> QED
    BY <1>2, <2>1, <2>2 DEF Nibble
<1>4. DOMAIN DecodedPiece = 0 .. 12
  BY DEF DecodedPiece
<1> QED
  BY <1>1, <1>2, <1>3, <1>4

\* Every position is read back from its packed squares, and nothing in it is bad.
LEMMA UnpackPacked ==
  ASSUME NEW position \in Positions
  PROVE  /\ BadNibbles(Packed(position, PieceCode)) = {}
         /\ UnpackedPieces(Packed(position, PieceCode)) = position
<1>1. position \in [Squares -> Contents] /\ PieceCode \in [Contents -> Nibble]
  BY PieceTables DEF Positions
<1>2. ASSUME NEW w \in WireIndexes
      PROVE  NibbleAt(Packed(position, PieceCode), w) \in DOMAIN DecodedPiece
  BY <1>1, <1>2, NibbleRoundTrip, IndexInvolution, PieceTables
<1>3. ASSUME NEW s \in Squares
      PROVE  DecodedPiece[NibbleAt(Packed(position, PieceCode), PositionIndex(s))] = position[s]
  <2>1. s \in WireIndexes
    BY DEF Squares, WireIndexes
  <2>2. PositionIndex(s) \in WireIndexes /\ PositionIndex(PositionIndex(s)) = s
    BY <2>1, IndexInvolution DEF Squares, WireIndexes
  <2> QED
    BY <1>1, <2>2, NibbleRoundTrip, PieceTables
<1>4. BadNibbles(Packed(position, PieceCode)) = {}
  BY <1>2 DEF BadNibbles
<1>5. UnpackedPieces(Packed(position, PieceCode)) = [s \in Squares |-> position[s]]
  BY <1>3 DEF UnpackedPieces
<1> QED
  BY <1>1, <1>4, <1>5

-----------------------------------------------------------------------------
(* Positions in notifications. *)

\* What stands between a prefix and the rest of a frame can be cut out again.
LEMMA Framed ==
  ASSUME NEW prefix \in Seq(Byte), NEW middle \in Seq(Byte), NEW rest \in Seq(Byte)
  PROVE  /\ prefix \o middle \o rest \in Seq(Byte)
         /\ Len(prefix \o middle \o rest) = Len(prefix) + Len(middle) + Len(rest)
         /\ SubSeq(prefix \o middle \o rest, Len(prefix) + 1, Len(prefix) + Len(middle)) = middle
         /\ \A i \in 1 .. Len(prefix) : (prefix \o middle \o rest)[i] = prefix[i]
         /\ \A i \in 1 .. Len(rest) :
               (prefix \o middle \o rest)[Len(prefix) + Len(middle) + i] = rest[i]
<1> DEFINE frame == prefix \o middle \o rest
           m == Len(prefix) + 1
           n == Len(prefix) + Len(middle)
<1>1. /\ Len(prefix) \in Nat /\ Len(middle) \in Nat /\ Len(rest) \in Nat
      /\ frame \in Seq(Byte)
      /\ Len(frame) = Len(prefix) + Len(middle) + Len(rest)
  OBVIOUS
<1>2. /\ \A i \in 1 .. Len(prefix) : frame[i] = prefix[i]
      /\ \A i \in 1 .. Len(middle) : frame[Len(prefix) + i] = middle[i]
      /\ \A i \in 1 .. Len(rest) : frame[Len(prefix) + Len(middle) + i] = rest[i]
  <2>1. /\ prefix \o middle \in Seq(Byte)
        /\ Len(prefix \o middle) = Len(prefix) + Len(middle)
        /\ \A i \in 1 .. Len(prefix) : (prefix \o middle)[i] = prefix[i]
        /\ \A i \in 1 .. Len(middle) : (prefix \o middle)[Len(prefix) + i] = middle[i]
    OBVIOUS
  <2>2. /\ \A i \in 1 .. Len(prefix \o middle) : frame[i] = (prefix \o middle)[i]
        /\ \A i \in 1 .. Len(rest) : frame[Len(prefix \o middle) + i] = rest[i]
    BY <2>1
  <2> QED
    BY <1>1, <2>1, <2>2
<1> HIDE DEF frame
<1>3. /\ SubSeq(frame, m, n) \in Seq(Byte)
      /\ Len(SubSeq(frame, m, n)) = Len(middle)
      /\ \A i \in 1 .. Len(middle) : SubSeq(frame, m, n)[i] = frame[Len(prefix) + i]
  <2>1. \A i \in m .. n : frame[i] \in Byte
    BY <1>1
  <2>2. /\ SubSeq(frame, m, n) \in Seq(Byte)
        /\ Len(SubSeq(frame, m, n)) = IF m <= n THEN n - m + 1 ELSE 0
        /\ \A i \in 1 .. n - m + 1 : SubSeq(frame, m, n)[i] = frame[m + i - 1]
    BY <1>1, <2>1, SubSeqProperties
  <2>3. n - m + 1 = Len(middle) /\ (m > n => Len(middle) = 0)
    BY <1>1
  <2>4. \A i \in 1 .. Len(middle) : m + i - 1 = Len(prefix) + i
    BY <1>1
  <2> QED
    BY <1>1, <2>2, <2>3, <2>4
<1>4. SubSeq(frame, m, n) = middle
  BY <1>2, <1>3, SeqEqual
<1> QED
  BY <1>1, <1>2, <1>4 DEF frame

\* A position is decoded to what was encoded, whatever precedes and follows it.
THEOREM PositionSurvives ==
  ASSUME NEW position \in Positions, NEW header \in Seq(Byte), NEW rest \in Seq(Byte),
         Len(header) = BoardStateOffset
  PROVE  DecodeNotification("Position", header \o Packed(position, PieceCode) \o rest)
            = PositionChanged(position)
<1> DEFINE bytes == header \o Packed(position, PieceCode) \o rest
           packed == SubSeq(bytes, BoardStateOffset + 1, BoardStateOffset + PackedBytes)
<1>1. /\ Packed(position, PieceCode) \in Seq(Byte)
      /\ Len(Packed(position, PieceCode)) = PackedBytes
  BY PackedType, PieceTables DEF Positions
<1>2. /\ Len(bytes) = BoardStateOffset + PackedBytes + Len(rest)
      /\ packed = Packed(position, PieceCode)
  BY <1>1, Framed
<1>3. ~(Len(bytes) < BoardStateOffset + PackedBytes)
  BY <1>2, Sizes DEF BoardStateOffset
<1>4. BadNibbles(packed) = {} /\ UnpackedPieces(packed) = position
  BY <1>2, UnpackPacked
<1> HIDE DEF bytes
<1>5. DecodePosition(bytes) = PositionChanged(position)
  BY <1>3, <1>4 DEF DecodePosition
<1> QED
  BY <1>5 DEF DecodeNotification, bytes

\* Squares without a bad nibble are a position.
LEMMA UnpackedType ==
  ASSUME NEW packed, BadNibbles(packed) = {}
  PROVE  UnpackedPieces(packed) \in Positions
<1>1. ASSUME NEW s \in Squares
      PROVE  DecodedPiece[NibbleAt(packed, PositionIndex(s))] \in Contents
  <2>1. PositionIndex(s) \in WireIndexes
    BY IndexInvolution DEF Squares, WireIndexes
  <2> QED
    BY <2>1, PieceTables DEF BadNibbles
<1> QED
  BY <1>1 DEF UnpackedPieces, Positions

\* Whatever is received, the squares of an event are a position: no other event
\* and no error has squares.
THEOREM DecodedSquares ==
  ASSUME NEW source, NEW bytes,
         "squares" \in DOMAIN DecodeNotification(source, bytes)
  PROVE  DecodeNotification(source, bytes).squares \in Positions
<1> DEFINE HasSquares(r) == "squares" \in DOMAIN r
<1>1. /\ \A e, b : ~HasSquares(TooShort(e, b))
      /\ \A o, e, b : ~HasSquares(InvalidHeader(o, e, b))
      /\ \A n, v : ~HasSquares(BadField(n, v))
      /\ \A n, w, v : ~HasSquares(BadFieldAt(n, w, v))
      /\ \A c, p : ~HasSquares(BatteryStatus(c, p))
      /\ \A p : ~HasSquares(PieceStatus(p))
      /\ ~HasSquares(Acknowledged)
  BY DEF TooShort, InvalidHeader, BadField, BadFieldAt, BatteryStatus, PieceStatus, Acknowledged
<1> HIDE DEF HasSquares
<1>2. ~HasSquares(DecodeBatteryStatus(bytes))
  BY <1>1, Zenon DEF DecodeBatteryStatus
<1>3. ~HasSquares(DecodePieceStatus(bytes))
  BY <1>1, Zenon DEF DecodePieceStatus, RecordError
<1>4. ~HasSquares(DecodeResponse(bytes))
  <2>1. DecodeResponse(bytes) \in
           {TooShort(ResponseHeaderLength, bytes), InvalidHeader(0, ResponseHeader, bytes),
            DecodeBatteryStatus(bytes), DecodePieceStatus(bytes),
            BadField("UnexpectedNotification", At(bytes, 2))}
    BY DEF DecodeResponse
  <2> QED
    BY <1>1, <1>2, <1>3, <2>1
<1>5. source = "Position"
  BY <1>1, <1>4, Zenon DEF DecodeNotification, HasSquares
<1>6. HasSquares(DecodePosition(bytes)) /\ DecodeNotification(source, bytes) = DecodePosition(bytes)
  BY <1>5 DEF DecodeNotification, HasSquares
<1> DEFINE packed == SubSeq(bytes, BoardStateOffset + 1, BoardStateOffset + PackedBytes)
<1>7. DecodePosition(bytes) = PositionChanged(UnpackedPieces(packed)) /\ BadNibbles(packed) = {}
  BY <1>1, <1>6, Zenon DEF DecodePosition
<1> QED
  BY <1>6, <1>7, UnpackedType DEF PositionChanged
=============================================================================
