-------------------------------- MODULE Wire --------------------------------
(***************************************************************************)
(* src/src/protocol/wire: piece codes, and squares packed two to a byte.   *)
(* What the squares hold is a function on Squares, an array of bytes is a  *)
(* sequence, and the offsets of the code count from zero.                  *)
(***************************************************************************)
EXTENDS Squares, FiniteSetsExt

Byte == 0 .. 255
Nibble == 0 .. 15

\* bytes[offset]
At(bytes, offset) == bytes[offset + 1]

\* encode_piece: the code of what stands on a square.
PieceCode ==
    [none |-> 0, BQ |-> 1, BK |-> 2, BB |-> 3, BP |-> 4, BN |-> 5, WR |-> 6,
     WP |-> 7, BR |-> 8, WB |-> 9, WN |-> 10, WQ |-> 11, WK |-> 12]

\* Position: what stands on each square.
Pieces == {"WP", "WR", "WN", "WB", "WQ", "WK", "BP", "BR", "BN", "BB", "BQ", "BK"}
Contents == Pieces \cup {"none"}
Positions == [Squares -> Contents]

\* decode_piece: what a code stands for; the other nibbles are errors.
DecodedPiece ==
    [n \in 0 .. 12 |->
        <<"none", "BQ", "BK", "BB", "BP", "BN", "WR", "WP", "BR", "WB", "WN", "WQ",
          "WK">>[n + 1]]

\* LedColor::encoded
LedCode == [Off |-> 0, Red |-> 1, Green |-> 2, Blue |-> 3]
LedPatterns == [Squares -> DOMAIN LedCode]

PackedBytes == SquareCount \div 2
WireIndexes == 0 .. SquareCount - 1

\* Mutant: the squares are not reversed.
PositionIndexSame(w) == w

\* position_index, and the square that Square::ALL holds there.
PositionIndex(w) == SquareCount - 1 - w

\* PackedSquares::encode, which panics unless every code fits in a nibble.
Packed(squares, code) ==
    [b \in 1 .. PackedBytes |->
        code[squares[PositionIndex(2 * (b - 1))]]
            + 16 * code[squares[PositionIndex(2 * (b - 1) + 1)]]]

EncodePanics(squares, code) == \E s \in Squares : code[squares[s]] \notin Nibble

\* The code of the w-th square on the wire.
NibbleAt(packed, w) ==
    IF w % 2 = 0 THEN At(packed, w \div 2) % 16 ELSE At(packed, w \div 2) \div 16

\* PackedSquares::decode with decode_piece.
BadNibbles(packed) == {w \in WireIndexes : NibbleAt(packed, w) \notin DOMAIN DecodedPiece}

\* Mutant: the last bad square is reported.
FirstBadLast(packed) == Max(BadNibbles(packed))

\* The loop ends at the first bad nibble in wire order.
FirstBad(packed) == Min(BadNibbles(packed))

UnpackedPieces(packed) ==
    [s \in Squares |-> DecodedPiece[NibbleAt(packed, PositionIndex(s))]]
=============================================================================
