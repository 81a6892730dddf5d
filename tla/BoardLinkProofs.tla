------------------------- MODULE BoardLinkProofs -------------------------
(***************************************************************************)
(* Proofs about BoardLink at the real sizes, for every position on the     *)
(* board, every LED pattern and every damage: the program and the board    *)
(* understand each other.                                                  *)
(***************************************************************************)
EXTENDS BoardLink, CodecProofs

-----------------------------------------------------------------------------
(* The board's order of the squares is the program's. *)

LEMMA RealSizes ==
  /\ SquareCount = 64 /\ PackedBytes = 32
  /\ Squares = 0 .. 63 /\ WireIndexes = 0 .. 63
  /\ AutoMoveCommandLength = 35 /\ SetLedCommandLength = 34
  /\ PieceStatusLength = 139 /\ MaxNotificationLen = 139
BY SizeAssumption
   DEF SquareCount, PackedBytes, Squares, WireIndexes, AutoMoveCommandLength,
       SetLedCommandLength, PieceStatusLength, ResponseHeaderLength, TrackedPieceBytes,
       MaxNotificationLen

LEMMA WireOrder ==
  /\ \A s \in Squares : WireIndex(s) = PositionIndex(s) /\ WireIndex(s) \in WireIndexes
  /\ \A w \in WireIndexes : WireSquare(w) = PositionIndex(w)
<1>1. ASSUME NEW s \in 0 .. 63 PROVE (7 - s \div 8) * 8 + (7 - (s % 8)) = 63 - s
  OBVIOUS
<1>2. \A s \in Squares : WireIndex(s) = PositionIndex(s) /\ WireIndex(s) \in WireIndexes
  BY <1>1, RealSizes, SizeAssumption DEF WireIndex, Mirror, RankOf, FileOf, PositionIndex
<1>3. \A w \in WireIndexes : WireSquare(w) = PositionIndex(w)
  BY <1>1, RealSizes, SizeAssumption DEF WireSquare, NewSquare, Mirror, PositionIndex
<1> QED
  BY <1>2, <1>3

\* The board packs its squares as the program would.
LEMMA BoardPacksSame ==
  ASSUME NEW position \in Positions
  PROVE  BoardPacks(position) = Packed(position, PieceCode)
<1>1. ASSUME NEW b \in 1 .. PackedBytes
      PROVE  /\ WireSquare(2 * b - 2) = PositionIndex(2 * (b - 1))
             /\ WireSquare(2 * b - 1) = PositionIndex(2 * (b - 1) + 1)
  <2>1. /\ 2 * b - 2 \in WireIndexes /\ 2 * b - 1 \in WireIndexes
        /\ 2 * (b - 1) = 2 * b - 2 /\ 2 * (b - 1) + 1 = 2 * b - 1
    BY RealSizes
  <2> QED
    BY <2>1, WireOrder
<1>2. ASSUME NEW b \in 1 .. PackedBytes
      PROVE  /\ PieceCode[position[PositionIndex(2 * (b - 1))]] \in Int
             /\ PieceCode[position[PositionIndex(2 * (b - 1) + 1)]] \in Int
  BY RealSizes, PieceTables DEF PositionIndex, Positions, Nibble
<1> QED
  BY <1>1, <1>2 DEF BoardPacks, Packed

\* The board reads what the program packed, whatever the squares hold.
LEMMA BoardReadsPacked ==
  ASSUME NEW D, NEW squares \in [Squares -> D], NEW code \in [D -> Nibble], NEW name,
         \A d \in D : name[code[d]] = d
  PROVE  BoardReads(Packed(squares, code), name) = squares
<1>1. ASSUME NEW s \in Squares
      PROVE  name[(At(Packed(squares, code), WireIndex(s) \div 2)
                     \div (IF WireIndex(s) % 2 = 0 THEN 1 ELSE 16)) % 16] = squares[s]
  <2> DEFINE w == WireIndex(s)
             byte == At(Packed(squares, code), w \div 2)
  <2>1. w \in WireIndexes /\ PositionIndex(w) = s
    BY WireOrder, IndexInvolution DEF Squares, WireIndexes
  <2>2. NibbleAt(Packed(squares, code), w) = code[squares[s]]
    BY <2>1, NibbleRoundTrip
  <2>3. byte \in Byte
    <3>1. w \div 2 + 1 \in 1 .. PackedBytes
      BY <2>1, RealSizes
    <3> QED
      BY <3>1, PackedType DEF At
  <2> HIDE DEF byte, w
  <2>4. (byte \div (IF w % 2 = 0 THEN 1 ELSE 16)) % 16
           = IF w % 2 = 0 THEN byte % 16 ELSE byte \div 16
    BY <2>3 DEF Byte
  <2>5. (byte \div (IF w % 2 = 0 THEN 1 ELSE 16)) % 16 = code[squares[s]]
    BY <2>2, <2>4 DEF NibbleAt, byte
  <2> QED
    BY <2>5 DEF byte, w
<1> QED
  BY <1>1 DEF BoardReads

-----------------------------------------------------------------------------
(* Commands. *)

\* The one pair of instructions that share a command.
Ambiguous(instruction, reading) == instruction = Move(Empty, "Force") /\ reading = Stop

\* A command that fits its buffer and is read as the instruction it stands for.
Clear(instruction, command) ==
  /\ command = Command(command.bytes, command.writeKind)
  /\ command.bytes \in Seq(Byte)
  /\ Len(command.bytes) <= MaxCommandLen
  /\ \/ Understood(command.bytes) = instruction
     \/ Ambiguous(instruction, Understood(command.bytes))
  /\ instruction.do = "move" => instruction.target \in Positions

LEMMA CommandFits == MaxCommandLen = 35
<1>1. AutoMoveCommandLength = 35 /\ SetLedCommandLength = 34
  BY RealSizes
<1>2. Max({35, 34}) = 35
  <2>1. \A x \in {35, 34} : (\A y \in {35, 34} : x >= y) <=> x = 35
    OBVIOUS
  <2> QED
    BY <2>1 DEF Max
<1> QED
  BY <1>1, <1>2 DEF MaxCommandLen

\* A short command is told by its bytes.
LEMMA ShortClear ==
  /\ Clear(Enable, EnableRealtimeUpdates)
  /\ Clear(Report("battery"), ReadBatteryLevel)
  /\ Clear(Report("pieces"), ReadPieceStatus)
<1>1. /\ <<33, 1, 0>> \in Seq(Byte) /\ Len(<<33, 1, 0>>) = 3
      /\ <<65, 1, 12>> \in Seq(Byte) /\ Len(<<65, 1, 12>>) = 3
      /\ <<65, 1, 11>> \in Seq(Byte) /\ Len(<<65, 1, 11>>) = 3
  BY DEF Byte
<1>2. /\ <<33, 1, 0>> # <<65, 1, 12>> /\ <<33, 1, 0>> # <<65, 1, 11>>
      /\ <<65, 1, 12>> # <<65, 1, 11>>
  OBVIOUS
<1>3. Clear(Enable, EnableRealtimeUpdates)
  <2>1. Understood(<<33, 1, 0>>) = Enable
    BY <1>1, <1>2 DEF Understood
  <2> QED
    BY <1>1, <2>1, CommandFits DEF Clear, EnableRealtimeUpdates, Command, Enable
<1>4. Clear(Report("battery"), ReadBatteryLevel)
  <2>1. Understood(<<65, 1, 12>>) = Report("battery")
    BY <1>1, <1>2 DEF Understood
  <2> QED
    BY <1>1, <2>1, CommandFits DEF Clear, ReadBatteryLevel, QueryCommand, Command, Report
<1>5. Clear(Report("pieces"), ReadPieceStatus)
  <2>1. Understood(<<65, 1, 11>>) = Report("pieces")
    BY <1>1, <1>2 DEF Understood
  <2> QED
    BY <1>1, <2>1, CommandFits DEF Clear, ReadPieceStatus, QueryCommand, Command, Report
<1> QED
  BY <1>3, <1>4, <1>5

\* The first two bytes of a frame.
LEMMA FirstTwo ==
  ASSUME NEW bytes \in Seq(Byte), Len(bytes) >= 2
  PROVE  SubSeq(bytes, 1, 2) = <<bytes[1], bytes[2]>>
<1>1. /\ Len(bytes) \in Nat
      /\ \A i \in 1 .. Len(bytes) : bytes[i] \in Byte
  OBVIOUS
<1>2. \A i \in 1 .. 2 : bytes[i] \in Byte
  BY <1>1
<1>3. /\ SubSeq(bytes, 1, 2) \in Seq(Byte)
      /\ Len(SubSeq(bytes, 1, 2)) = 2
      /\ \A i \in 1 .. 2 : SubSeq(bytes, 1, 2)[i] = bytes[i]
  <2>1. /\ SubSeq(bytes, 1, 2) \in Seq(Byte)
        /\ Len(SubSeq(bytes, 1, 2)) = IF 1 <= 2 THEN 2 - 1 + 1 ELSE 0
        /\ \A i \in 1 .. 2 - 1 + 1 : SubSeq(bytes, 1, 2)[i] = bytes[1 + i - 1]
    BY <1>2, SubSeqProperties
  <2> QED
    BY <2>1
<1>4. /\ <<bytes[1], bytes[2]>> \in Seq(Byte)
      /\ Len(<<bytes[1], bytes[2]>>) = 2
      /\ \A i \in 1 .. 2 : <<bytes[1], bytes[2]>>[i] = bytes[i]
  BY <1>2
<1> QED
  BY <1>3, <1>4, SeqEqual

\* What the board makes of a frame of 35 bytes.
LEMMA LongUnderstood ==
  ASSUME NEW bytes \in Seq(Byte), Len(bytes) = 35, bytes[1] = 66, bytes[2] = 33
  PROVE  Understood(bytes) =
            IF \A i \in 3 .. 35 : bytes[i] = 0 THEN Stop
            ELSE Move(BoardReads(SubSeq(bytes, 3, 2 + PackedBytes), DecodedPiece),
                      IF bytes[35] = 0 THEN "Force" ELSE "Normal")
<1>1. bytes # <<33, 1, 0>> /\ bytes # <<65, 1, 12>> /\ bytes # <<65, 1, 11>>
  OBVIOUS
<1>2. SubSeq(bytes, 1, 2) = <<66, 33>>
  BY FirstTwo
<1> QED
  BY <1>1, <1>2 DEF Understood

LEMMA Modes ==
  \A mode \in DOMAIN ModeFlag :
     /\ mode \in {"Force", "Normal"}
     /\ ModeFlag[mode] \in {0, 1}
     /\ ModeFlag[mode] = 0 <=> mode = "Force"
BY DEF ModeFlag

LEMMA PositionRead ==
  ASSUME NEW position \in Positions
  PROVE  /\ Packed(position, PieceCode) \in Seq(Byte)
         /\ Len(Packed(position, PieceCode)) = 32
         /\ BoardReads(Packed(position, PieceCode), DecodedPiece) = position
<1>1. /\ position \in [Squares -> Contents] /\ PieceCode \in [Contents -> Nibble]
      /\ \A d \in Contents : DecodedPiece[PieceCode[d]] = d
  BY PieceTables DEF Positions
<1>2. /\ Packed(position, PieceCode) \in Seq(Byte)
      /\ Len(Packed(position, PieceCode)) = 32
  BY <1>1, PackedType, RealSizes
<1>3. BoardReads(Packed(position, PieceCode), DecodedPiece) = position
  BY <1>1, BoardReadsPacked
<1> QED
  BY <1>2, <1>3

\* Nothing but zeros is packed of an empty board only.
LEMMA ZerosAreEmpty ==
  ASSUME NEW position \in Positions,
         \A i \in 1 .. 32 : Packed(position, PieceCode)[i] = 0
  PROVE  position = Empty
<1> DEFINE packed == Packed(position, PieceCode)
<1>1. /\ position \in [Squares -> Contents] /\ PieceCode \in [Contents -> Nibble]
      /\ \A d \in Contents : DecodedPiece[PieceCode[d]] = d
  BY PieceTables DEF Positions
<1>2. ASSUME NEW s \in Squares PROVE position[s] = "none"
  <2>1. s \in WireIndexes /\ PositionIndex(s) \in WireIndexes
        /\ PositionIndex(PositionIndex(s)) = s
    BY IndexInvolution DEF Squares, WireIndexes
  <2>2. NibbleAt(packed, PositionIndex(s)) = PieceCode[position[s]]
    BY <1>1, <2>1, NibbleRoundTrip
  <2>3. PositionIndex(s) \div 2 + 1 \in 1 .. 32
    BY <2>1, RealSizes
  <2>4. NibbleAt(packed, PositionIndex(s)) = 0
    BY <2>3 DEF NibbleAt, At
  <2>5. position[s] = DecodedPiece[0]
    BY <1>1, <2>2, <2>4
  <2> QED
    BY <2>5 DEF DecodedPiece
<1> QED
  BY <1>1, <1>2 DEF Empty

LEMMA PayloadAt ==
  ASSUME NEW bytes \in Seq(Byte), Len(bytes) >= 34
  PROVE  \A i \in 1 .. 32 : SubSeq(bytes, 3, 34)[i] = bytes[3 + i - 1]
<1>1. \A j \in 3 .. 34 : bytes[j] \in Byte
  <2>1. Len(bytes) \in Nat /\ \A j \in 1 .. Len(bytes) : bytes[j] \in Byte
    OBVIOUS
  <2>2. \A j \in 3 .. 34 : j \in 1 .. Len(bytes)
    BY <2>1
  <2> QED
    BY <2>1, <2>2, Zenon
<1>2. \A i \in 1 .. 34 - 3 + 1 : SubSeq(bytes, 3, 34)[i] = bytes[3 + i - 1]
  BY <1>1, SubSeqProperties
<1> QED
  BY <1>2

LEMMA ZerosBehind ==
  ASSUME NEW bytes \in Seq(Byte), Len(bytes) = 35, \A i \in 3 .. 35 : bytes[i] = 0
  PROVE  \A i \in 1 .. 32 : SubSeq(bytes, 3, 34)[i] = 0
<1>1. \A i \in 1 .. 32 : SubSeq(bytes, 3, 34)[i] = bytes[3 + i - 1]
  BY PayloadAt
<1>2. ASSUME NEW i \in 1 .. 32 PROVE SubSeq(bytes, 3, 34)[i] = 0
  <2>1. 3 + i - 1 \in 3 .. 35
    OBVIOUS
  <2> QED
    BY <1>1, <2>1, Zenon
<1> QED
  BY <1>2

\* A move command is read as the move, or as a stop where that is ambiguous.
LEMMA MoveRead ==
  ASSUME NEW position \in Positions, NEW mode \in DOMAIN ModeFlag, NEW bytes \in Seq(Byte)
  PROVE  /\ Len(bytes) = 35 /\ bytes[1] = 66 /\ bytes[2] = 33
         /\ bytes[35] = ModeFlag[mode]
         /\ SubSeq(bytes, 3, 34) = Packed(position, PieceCode)
         => \/ Understood(bytes) = Move(position, mode)
            \/ Ambiguous(Move(position, mode), Understood(bytes))
<1> DEFINE packed == Packed(position, PieceCode)
           reading == SubSeq(bytes, 3, 34)
<1>1. CASE ~(Len(bytes) = 35 /\ bytes[1] = 66 /\ bytes[2] = 33)
  BY <1>1
<1>2. CASE Len(bytes) = 35 /\ bytes[1] = 66 /\ bytes[2] = 33
  <2>1. Understood(bytes) =
           IF \A i \in 3 .. 35 : bytes[i] = 0 THEN Stop
           ELSE Move(BoardReads(reading, DecodedPiece),
                     IF bytes[35] = 0 THEN "Force" ELSE "Normal")
    <3>1. 2 + PackedBytes = 34
      BY RealSizes
    <3>2. SubSeq(bytes, 3, 2 + PackedBytes) = reading
      BY <3>1 DEF reading
    <3>3. Understood(bytes) =
             IF \A i \in 3 .. 35 : bytes[i] = 0 THEN Stop
             ELSE Move(BoardReads(SubSeq(bytes, 3, 2 + PackedBytes), DecodedPiece),
                       IF bytes[35] = 0 THEN "Force" ELSE "Normal")
      BY <1>2, LongUnderstood
    <3> HIDE DEF reading
    <3> QED
      BY <3>2, <3>3
  <2>2. BoardReads(packed, DecodedPiece) = position
    BY PositionRead
  <2>3. (\A i \in 3 .. 35 : bytes[i] = 0) => \A i \in 1 .. 32 : reading[i] = 0
    BY <1>2, ZerosBehind
  <2>4. (\A i \in 1 .. 32 : packed[i] = 0) => position = Empty
    BY ZerosAreEmpty
  <2>5. /\ mode \in {"Force", "Normal"}
        /\ ModeFlag[mode] \in {0, 1}
        /\ ModeFlag[mode] = 0 <=> mode = "Force"
    BY Modes
  <2> HIDE DEF packed, reading
  <2>6. ASSUME bytes[35] = ModeFlag[mode], reading = packed
        PROVE  \/ Understood(bytes) = Move(position, mode)
               \/ Ambiguous(Move(position, mode), Understood(bytes))
    <3>1. CASE \A i \in 3 .. 35 : bytes[i] = 0
      <4>1. position = Empty
        BY <2>3, <2>4, <2>6, <3>1
      <4>2. bytes[35] = 0
        BY <3>1
      <4>3. mode = "Force"
        BY <2>5, <2>6, <4>2
      <4> QED
        BY <2>1, <3>1, <4>1, <4>3 DEF Ambiguous
    <3>2. CASE ~(\A i \in 3 .. 35 : bytes[i] = 0)
      BY <2>1, <2>2, <2>5, <2>6, <3>2
    <3> QED
      BY <3>1, <3>2
  <2> QED
    BY <2>6 DEF packed, reading
<1> QED
  BY <1>1, <1>2

\* Every position asked for is the position understood, but for the empty one.
LEMMA MoveClear ==
  ASSUME NEW position \in Positions, NEW mode \in DOMAIN ModeFlag
  PROVE  Clear(Move(position, mode), AutoMove(position, mode))
<1> DEFINE packed == Packed(position, PieceCode)
           flag == <<ModeFlag[mode]>>
           bytes == AutoMovePrefix \o packed \o flag
<1>1. packed \in Seq(Byte) /\ Len(packed) = 32
  BY PositionRead DEF packed
<1>2. /\ AutoMovePrefix \in Seq(Byte) /\ Len(AutoMovePrefix) = 2
      /\ AutoMovePrefix[1] = 66 /\ AutoMovePrefix[2] = 33
  BY DEF AutoMovePrefix, Byte
<1>3. flag \in Seq(Byte) /\ Len(flag) = 1 /\ flag[1] = ModeFlag[mode]
  <2>1. ModeFlag[mode] \in Byte
    BY Modes DEF Byte
  <2> QED
    BY <2>1 DEF flag
<1> HIDE DEF packed, flag
<1>4. /\ bytes \in Seq(Byte)
      /\ Len(bytes) = Len(AutoMovePrefix) + Len(packed) + Len(flag)
      /\ SubSeq(bytes, Len(AutoMovePrefix) + 1, Len(AutoMovePrefix) + Len(packed)) = packed
      /\ \A i \in 1 .. Len(AutoMovePrefix) : bytes[i] = AutoMovePrefix[i]
      /\ \A i \in 1 .. Len(flag) : bytes[Len(AutoMovePrefix) + Len(packed) + i] = flag[i]
  <2>1. AutoMovePrefix \in Seq(Byte) /\ packed \in Seq(Byte) /\ flag \in Seq(Byte)
    BY <1>1, <1>2, <1>3
  <2> QED
    BY <2>1, Framed DEF bytes
<1> HIDE DEF bytes
<1>5. /\ bytes \in Seq(Byte) /\ Len(bytes) = 35
      /\ bytes[1] = 66 /\ bytes[2] = 33 /\ bytes[35] = ModeFlag[mode]
      /\ SubSeq(bytes, 3, 34) = packed
  BY <1>1, <1>2, <1>3, <1>4
<1>6. \/ Understood(bytes) = Move(position, mode)
      \/ Ambiguous(Move(position, mode), Understood(bytes))
  BY <1>5, MoveRead DEF packed
<1>7. AutoMove(position, mode) = Command(bytes, "WithoutResponse")
  BY DEF AutoMove, bytes, packed, flag
<1>8. bytes \in Seq(Byte) /\ Len(bytes) <= MaxCommandLen
  BY <1>5, CommandFits
<1> QED
  BY <1>6, <1>7, <1>8 DEF Clear, Command, Move

LEMMA StopClear == Clear(Stop, StopAutoMove)
<1> DEFINE zeros == [i \in 1 .. AutoMoveCommandLength - 2 |-> 0]
           bytes == AutoMovePrefix \o zeros
<1>1. zeros = [i \in 1 .. 33 |-> 0]
  BY RealSizes
<1> HIDE DEF zeros
<1>2. zeros \in Seq(Byte) /\ Len(zeros) = 33 /\ \A i \in 1 .. 33 : zeros[i] = 0
  <2>1. \A i \in 1 .. 33 : zeros[i] = 0
    BY <1>1
  <2>2. zeros \in [1 .. 33 -> Byte]
    BY <1>1 DEF Byte
  <2>3. zeros \in Seq(Byte)
    BY <2>2, SeqDef
  <2>4. Len(zeros) = 33
    BY <2>2, <2>3, LenProperties
  <2> QED
    BY <2>1, <2>3, <2>4
<1>3. /\ AutoMovePrefix \in Seq(Byte) /\ Len(AutoMovePrefix) = 2
      /\ AutoMovePrefix[1] = 66 /\ AutoMovePrefix[2] = 33
  BY DEF AutoMovePrefix, Byte
<1>4. /\ bytes \in Seq(Byte) /\ Len(bytes) = 35
      /\ bytes[1] = 66 /\ bytes[2] = 33
      /\ \A i \in 3 .. 35 : bytes[i] = 0
  <2>1. /\ bytes \in Seq(Byte)
        /\ Len(bytes) = Len(AutoMovePrefix) + Len(zeros)
        /\ \A i \in 1 .. Len(AutoMovePrefix) + Len(zeros) :
              bytes[i] = IF i <= Len(AutoMovePrefix) THEN AutoMovePrefix[i]
                         ELSE zeros[i - Len(AutoMovePrefix)]
    <3>1. AutoMovePrefix \in Seq(Byte) /\ zeros \in Seq(Byte)
      BY <1>2, <1>3
    <3> QED
      BY <3>1, ConcatProperties DEF bytes
  <2> HIDE DEF bytes
  <2> QED
    BY <1>2, <1>3, <2>1
<1> HIDE DEF bytes
<1>5. Understood(bytes) = Stop
  BY <1>2, <1>3, <1>4, LongUnderstood
<1> QED
  <2>1. StopAutoMove = Command(bytes, "WithoutResponse")
    BY DEF StopAutoMove, bytes, zeros
  <2>2. bytes \in Seq(Byte) /\ Len(bytes) <= MaxCommandLen
    BY <1>4, CommandFits
  <2> QED
    BY <1>5, <2>1, <2>2 DEF Clear, Command, Stop

\* A frame of 34 bytes is read as an LED pattern.
LEMMA DarkUnderstood ==
  ASSUME NEW bytes \in Seq(Byte), Len(bytes) = 34, bytes[1] = 67, bytes[2] = 32
  PROVE  Understood(bytes) = Light(BoardReads(SubSeq(bytes, 3, 2 + PackedBytes), LedName))
<1>1. bytes # <<33, 1, 0>> /\ bytes # <<65, 1, 12>> /\ bytes # <<65, 1, 11>>
  OBVIOUS
<1>2. SubSeq(bytes, 1, 2) = <<67, 32>>
  BY FirstTwo
<1> QED
  BY <1>1, <1>2 DEF Understood

LEMMA PatternRead ==
  ASSUME NEW pattern \in LedPatterns
  PROVE  /\ Packed(pattern, LedCode) \in Seq(Byte)
         /\ Len(Packed(pattern, LedCode)) = 32
         /\ BoardReads(Packed(pattern, LedCode), LedName) = pattern
<1>1. /\ LedCode \in [DOMAIN LedCode -> Nibble]
      /\ \A d \in DOMAIN LedCode : LedName[LedCode[d]] = d
  <2>1. \A d \in DOMAIN LedCode : LedCode[d] \in 0 .. 3 /\ LedName[LedCode[d]] = d
    BY DEF LedCode, LedName
  <2>2. LedCode = [d \in DOMAIN LedCode |-> LedCode[d]]
    BY DEF LedCode
  <2> QED
    BY <2>1, <2>2 DEF Nibble
<1>2. pattern \in [Squares -> DOMAIN LedCode]
  BY DEF LedPatterns
<1>3. Packed(pattern, LedCode) \in Seq(Byte) /\ Len(Packed(pattern, LedCode)) = 32
  BY <1>1, <1>2, PackedType, RealSizes
<1>4. BoardReads(Packed(pattern, LedCode), LedName) = pattern
  BY <1>1, <1>2, BoardReadsPacked
<1> QED
  BY <1>3, <1>4

\* Every LED pattern is the pattern understood.
LEMMA LedsClear ==
  ASSUME NEW pattern \in LedPatterns
  PROVE  Clear(Light(pattern), SetLeds(pattern))
<1> DEFINE packed == Packed(pattern, LedCode)
           rest == <<>>
           bytes == SetLedPrefix \o packed
<1>1. packed \in Seq(Byte) /\ Len(packed) = 32 /\ BoardReads(packed, LedName) = pattern
  BY PatternRead DEF packed
<1>2. /\ SetLedPrefix \in Seq(Byte) /\ Len(SetLedPrefix) = 2
      /\ SetLedPrefix[1] = 67 /\ SetLedPrefix[2] = 32
  BY DEF SetLedPrefix, Byte
<1>3. rest \in Seq(Byte) /\ Len(rest) = 0
  BY DEF rest
<1>4. SetLedPrefix \o packed \o rest = bytes
  BY <1>1, <1>2 DEF bytes, rest
<1> HIDE DEF packed, rest
<1>5. /\ SetLedPrefix \o packed \o rest \in Seq(Byte)
      /\ Len(SetLedPrefix \o packed \o rest) = Len(SetLedPrefix) + Len(packed) + Len(rest)
      /\ SubSeq(SetLedPrefix \o packed \o rest, Len(SetLedPrefix) + 1,
                Len(SetLedPrefix) + Len(packed)) = packed
      /\ \A i \in 1 .. Len(SetLedPrefix) :
            (SetLedPrefix \o packed \o rest)[i] = SetLedPrefix[i]
  <2>1. SetLedPrefix \in Seq(Byte) /\ packed \in Seq(Byte) /\ rest \in Seq(Byte)
    BY <1>1, <1>2, <1>3
  <2> QED
    BY <2>1, Framed
<1> HIDE DEF bytes
<1>6. /\ bytes \in Seq(Byte) /\ Len(bytes) = 34
      /\ bytes[1] = 67 /\ bytes[2] = 32
      /\ SubSeq(bytes, 3, 34) = packed
  BY <1>1, <1>2, <1>3, <1>4, <1>5
<1>7. Understood(bytes) = Light(pattern)
  <2>1. Understood(bytes) = Light(BoardReads(SubSeq(bytes, 3, 2 + PackedBytes), LedName))
    BY <1>6, DarkUnderstood
  <2>2. SubSeq(bytes, 3, 2 + PackedBytes) = packed
    BY <1>6, RealSizes
  <2> QED
    BY <1>1, <2>1, <2>2
<1>8. SetLeds(pattern) = Command(bytes, "WithoutResponse")
  BY DEF SetLeds, bytes, packed
<1>9. bytes \in Seq(Byte) /\ Len(bytes) <= MaxCommandLen
  BY <1>6, CommandFits
<1> QED
  BY <1>7, <1>8, <1>9 DEF Clear, Command, Light

-----------------------------------------------------------------------------
(* Notifications. *)

\* The position that the board sends is the position decoded.
LEMMA PositionExact ==
  ASSUME NEW position \in Positions
  PROVE  /\ <<1, 36>> \o BoardPacks(position) \o <<7, 7>> \in Seq(Byte)
         /\ Len(<<1, 36>> \o BoardPacks(position) \o <<7, 7>>) = 36
         /\ DecodeNotification("Position", <<1, 36>> \o BoardPacks(position) \o <<7, 7>>)
               = PositionChanged(position)
<1> DEFINE header == <<1, 36>>
           rest == <<7, 7>>
           packed == Packed(position, PieceCode)
<1>1. header \in Seq(Byte) /\ Len(header) = 2
  BY DEF header, Byte
<1>2. rest \in Seq(Byte) /\ Len(rest) = 2
  BY DEF rest, Byte
<1>3. packed \in Seq(Byte) /\ Len(packed) = 32
  BY PositionRead DEF packed
<1>4. BoardPacks(position) = packed
  BY BoardPacksSame DEF packed
<1>5. DecodeNotification("Position", header \o packed \o rest) = PositionChanged(position)
  BY <1>1, <1>2, PositionSurvives DEF BoardStateOffset, packed
<1> HIDE DEF header, rest, packed
<1>6. /\ header \o packed \o rest \in Seq(Byte)
      /\ Len(header \o packed \o rest) = Len(header) + Len(packed) + Len(rest)
  <2>1. header \in Seq(Byte) /\ packed \in Seq(Byte) /\ rest \in Seq(Byte)
    BY <1>1, <1>2, <1>3
  <2> QED
    BY <2>1, Framed
<1>7. Len(header \o packed \o rest) = 36
  BY <1>1, <1>2, <1>3, <1>6
<1> QED
  BY <1>4, <1>5, <1>6, <1>7 DEF header, rest

LEMMA AcknowledgementExact ==
  /\ <<35, 1, 0>> \in Seq(Byte) /\ Len(<<35, 1, 0>>) = 3
  /\ DecodeNotification("CommandResponse", <<35, 1, 0>>) = Acknowledged
BY DEF Byte, DecodeNotification, At, Acknowledgement

LEMMA BatteryExact ==
  ASSUME NEW charging \in BOOLEAN, NEW percentage \in 0 .. 100
  PROVE  LET bytes == <<65, 3, 12, IF charging THEN 1 ELSE 0, percentage>>
         IN  /\ bytes \in Seq(Byte) /\ Len(bytes) = 5
             /\ DecodeNotification("CommandResponse", bytes)
                   = BatteryStatus(charging, percentage)
<1> DEFINE flag == IF charging THEN 1 ELSE 0
           bytes == <<65, 3, 12, flag, percentage>>
<1>1. flag \in {0, 1} /\ charging = (flag = 1)
  BY DEF flag
<1> HIDE DEF flag
<1>2. bytes \in Seq(Byte) /\ Len(bytes) = 5
  BY <1>1 DEF Byte
<1>3. /\ At(bytes, 0) = 65 /\ At(bytes, 1) = 3 /\ At(bytes, 2) = 12
      /\ At(bytes, 3) = flag /\ At(bytes, 4) = percentage
      /\ bytes # <<>>
  BY DEF At
<1> HIDE DEF bytes
<1>4. DecodeBatteryStatus(bytes) = BatteryStatus(charging, percentage)
  BY <1>1, <1>2, <1>3 DEF DecodeBatteryStatus, BatteryResponseLength, BatteryResponsePayload
<1>5. DecodeResponse(bytes) = DecodeBatteryStatus(bytes)
  BY <1>2, <1>3 DEF DecodeResponse, ResponseHeader, ResponseHeaderLength, BatteryResponseType,
                    PieceStatusType
<1>6. DecodeNotification("CommandResponse", bytes) = DecodeResponse(bytes)
  BY <1>3 DEF DecodeNotification, Acknowledgement
<1> QED
  BY <1>2, <1>4, <1>5, <1>6 DEF bytes, flag

-----------------------------------------------------------------------------
(* Tracked pieces. *)

LEMMA Repeated ==
  ASSUME NEW S, NEW e \in S, NEW n \in Nat
  PROVE  [i \in 1 .. n |-> e] \in Seq(S) /\ Len([i \in 1 .. n |-> e]) = n
<1> DEFINE s == [i \in 1 .. n |-> e]
<1>1. s \in [1 .. n -> S]
  OBVIOUS
<1>2. DOMAIN s = 1 .. n
  OBVIOUS
<1> HIDE DEF s
<1>3. s \in Seq(S)
  BY <1>1, SeqDef
<1>4. Len(s) = n
  BY <1>2, <1>3, LenProperties
<1> QED
  BY <1>3, <1>4 DEF s

LEMMA Joined ==
  ASSUME NEW S, NEW s \in Seq(S), NEW t \in Seq(S)
  PROVE  s \o t \in Seq(S) /\ Len(s \o t) = Len(s) + Len(t)
BY ConcatProperties

\* There are 34 tracked pieces, and each has an identity byte.
LEMMA Order == \A i \in 1 .. 34 : PieceOrder[i] \in Pieces
<1>1. ASSUME NEW pawn \in Pieces, NEW rest \in Seq(Pieces), Len(rest) = 9
      PROVE  /\ [i \in 1 .. 8 |-> pawn] \o rest \in Seq(Pieces)
             /\ Len([i \in 1 .. 8 |-> pawn] \o rest) = 17
  <2> DEFINE pawns == [i \in 1 .. 8 |-> pawn]
  <2>1. pawns \in Seq(Pieces) /\ Len(pawns) = 8
    BY Repeated
  <2> HIDE DEF pawns
  <2>2. pawns \o rest \in Seq(Pieces) /\ Len(pawns \o rest) = Len(pawns) + Len(rest)
    BY <2>1, Joined
  <2> QED
    BY <1>1, <2>1, <2>2 DEF pawns
<1> DEFINE whites == [i \in 1 .. 8 |-> "WP"] \o
                        <<"WR", "WR", "WN", "WN", "WB", "WB", "WQ", "WQ", "WK">>
           blacks == [i \in 1 .. 8 |-> "BP"] \o
                        <<"BR", "BR", "BN", "BN", "BB", "BB", "BQ", "BQ", "BK">>
<1>2. whites \in Seq(Pieces) /\ Len(whites) = 17
  <2>1. /\ <<"WR", "WR", "WN", "WN", "WB", "WB", "WQ", "WQ", "WK">> \in Seq(Pieces)
        /\ Len(<<"WR", "WR", "WN", "WN", "WB", "WB", "WQ", "WQ", "WK">>) = 9
        /\ "WP" \in Pieces
    BY DEF Pieces
  <2> QED
    BY <1>1, <2>1 DEF whites
<1>3. blacks \in Seq(Pieces) /\ Len(blacks) = 17
  <2>1. /\ <<"BR", "BR", "BN", "BN", "BB", "BB", "BQ", "BQ", "BK">> \in Seq(Pieces)
        /\ Len(<<"BR", "BR", "BN", "BN", "BB", "BB", "BQ", "BQ", "BK">>) = 9
        /\ "BP" \in Pieces
    BY DEF Pieces
  <2> QED
    BY <1>1, <2>1 DEF blacks
<1>4. PieceOrder = whites \o blacks
  BY DEF PieceOrder, whites, blacks
<1> HIDE DEF whites, blacks
<1>5. /\ whites \o blacks \in Seq(Pieces)
      /\ Len(whites \o blacks) = Len(whites) + Len(blacks)
  <2>1. whites \in Seq(Pieces) /\ blacks \in Seq(Pieces)
    BY <1>2, <1>3
  <2> QED
    BY <2>1, Joined
<1>6. PieceOrder \in Seq(Pieces) /\ Len(PieceOrder) = 34
  BY <1>2, <1>3, <1>4, <1>5
<1>7. ASSUME NEW i \in 1 .. 34 PROVE PieceOrder[i] \in Pieces
  <2>1. i \in 1 .. Len(PieceOrder)
    BY <1>6
  <2>2. PieceOrder \in Seq(Pieces)
    BY <1>6
  <2> QED
    BY <2>1, <2>2, ElementOfSeq
<1> QED
  BY <1>7

LEMMA Identities ==
  ASSUME NEW p \in Pieces
  PROVE  IdentityByte(p) \in 1 .. 12 /\ TrackedPiece[IdentityByte(p)] = p
<1>1. DOMAIN TrackedPiece = 1 .. 12
  BY DEF TrackedPiece
<1>2. \E n \in 1 .. 12 : TrackedPiece[n] = p
  BY DEF TrackedPiece, Pieces
<1> QED
  BY <1>1, <1>2 DEF IdentityByte

\* The field of a record, as the board writes it.
FieldOf(level, index, field) ==
  <<IdentityByte(Sensed(index, level).piece), index, 255 - index,
    IF index % 2 = 0 THEN level ELSE 255>>[field + 1]

LEMMA Fields ==
  ASSUME NEW level \in Levels, NEW index \in 0 .. 33
  PROVE  /\ FieldOf(level, index, 0) = IdentityByte(PieceOrder[index + 1])
         /\ FieldOf(level, index, 0) \in 1 .. 12
         /\ TrackedPiece[FieldOf(level, index, 0)] = PieceOrder[index + 1]
         /\ FieldOf(level, index, 1) = index
         /\ FieldOf(level, index, 2) = 255 - index
         /\ FieldOf(level, index, 3) = IF index % 2 = 0 THEN level ELSE 255
<1>1. FieldOf(level, index, 0) = IdentityByte(PieceOrder[index + 1])
  BY DEF FieldOf, Sensed
<1>2. PieceOrder[index + 1] \in Pieces
  BY Order
<1> QED
  BY <1>1, <1>2, Identities DEF FieldOf

LEMMA PieceStatusBytesType ==
  ASSUME NEW level \in Levels
  PROVE  /\ /\ PieceStatusBytes(level) \in Seq(Byte)
            /\ Len(PieceStatusBytes(level)) = 139
            /\ PieceStatusBytes(level)[1] = 65
            /\ PieceStatusBytes(level)[2] = 137
            /\ PieceStatusBytes(level)[3] = 11
         /\ \A index \in 0 .. 33, field \in 0 .. 3 :
               PieceStatusBytes(level)[3 + index * 4 + field + 1] = FieldOf(level, index, field)
<1> DEFINE bytes == PieceStatusBytes(level)
<1>1. bytes = [i \in 1 .. 139 |->
                  IF i <= 3 THEN <<65, 137, 11>>[i]
                  ELSE FieldOf(level, (i - 4) \div 4, (i - 4) % 4)]
  BY RealSizes DEF PieceStatusBytes, FieldOf
<1> HIDE DEF bytes
<1>2. /\ bytes[1] = 65 /\ bytes[2] = 137 /\ bytes[3] = 11
      /\ \A i \in 4 .. 139 : bytes[i] = FieldOf(level, (i - 4) \div 4, (i - 4) % 4)
  BY <1>1
<1>3. ASSUME NEW i \in 4 .. 139 PROVE bytes[i] \in Byte
  <2> DEFINE index == (i - 4) \div 4
             field == (i - 4) % 4
  <2>1. index \in 0 .. 33 /\ field \in {0, 1, 2, 3}
    OBVIOUS
  <2>2. bytes[i] = FieldOf(level, index, field)
    BY <1>2
  <2> HIDE DEF index, field
  <2>3. FieldOf(level, index, field) \in Byte
    <3>1. level \in 0 .. 255
      BY LinkAssumption
    <3>2. /\ FieldOf(level, index, 0) \in 1 .. 12
          /\ FieldOf(level, index, 1) = index
          /\ FieldOf(level, index, 2) = 255 - index
          /\ FieldOf(level, index, 3) \in {level, 255}
      BY <2>1, Fields
    <3>3. CASE field = 0
      BY <3>2, <3>3 DEF Byte
    <3>4. CASE field = 1
      BY <2>1, <3>2, <3>4 DEF Byte
    <3>5. CASE field = 2
      BY <2>1, <3>2, <3>5 DEF Byte
    <3>6. CASE field = 3
      BY <3>1, <3>2, <3>6 DEF Byte
    <3> QED
      BY <2>1, <3>3, <3>4, <3>5, <3>6
  <2> QED
    BY <2>2, <2>3
<1>4. bytes \in [1 .. 139 -> Byte]
  <2>1. ASSUME NEW i \in 1 .. 139 PROVE bytes[i] \in Byte
    <3>1. i \in 4 .. 139 \/ i \in {1, 2, 3}
      OBVIOUS
    <3>2. bytes[1] \in Byte /\ bytes[2] \in Byte /\ bytes[3] \in Byte
      BY <1>2 DEF Byte
    <3> QED
      BY <1>3, <3>1, <3>2
  <2> QED
    BY <1>1, <2>1
<1>5. bytes \in Seq(Byte)
  BY <1>4, SeqDef
<1>6. Len(bytes) = 139
  BY <1>4, <1>5, LenProperties
<1>7. ASSUME NEW index \in 0 .. 33, NEW field \in 0 .. 3
      PROVE  bytes[3 + index * 4 + field + 1] = FieldOf(level, index, field)
  <2>1. /\ 3 + index * 4 + field + 1 \in 4 .. 139
        /\ ((3 + index * 4 + field + 1) - 4) \div 4 = index
        /\ ((3 + index * 4 + field + 1) - 4) % 4 = field
    OBVIOUS
  <2> QED
    BY <1>2, <2>1
<1> QED
  BY <1>2, <1>5, <1>6, <1>7 DEF bytes

\* What the board reports of its pieces is what is decoded.
LEMMA PiecesExact ==
  ASSUME NEW level \in Levels
  PROVE  DecodeNotification("CommandResponse", PieceStatusBytes(level))
            = PieceStatus([index \in Records |-> Sensed(index, level)])
<1> DEFINE bytes == PieceStatusBytes(level)
<1>1. /\ Len(bytes) = 139
      /\ At(bytes, 0) = 65 /\ At(bytes, 1) = 137 /\ At(bytes, 2) = 11
      /\ bytes # <<>>
  <2>1. /\ Len(bytes) = 139
        /\ bytes[1] = 65 /\ bytes[2] = 137 /\ bytes[3] = 11
    BY PieceStatusBytesType
  <2> HIDE DEF bytes
  <2>2. At(bytes, 0) = bytes[1] /\ At(bytes, 1) = bytes[2] /\ At(bytes, 2) = bytes[3]
    BY DEF At
  <2>3. bytes # <<>>
    <3>1. Len(bytes) = 139
      BY <2>1, Zenon
    <3>2. bytes = <<>> => Len(bytes) = 0
      OBVIOUS
    <3> QED
      BY <3>1, <3>2
  <2> QED
    BY <2>1, <2>2, <2>3, Zenon
<1>2. Records = 0 .. 33
  BY SizeAssumption DEF Records
<1>3. ASSUME NEW index \in 0 .. 33, NEW field \in 0 .. 3
      PROVE  At(bytes, FieldOffset(index, field)) = FieldOf(level, index, field)
  <2>1. FieldOffset(index, field) = 3 + index * 4 + field
    BY DEF FieldOffset, ResponseHeaderLength, TrackedPieceBytes
  <2>2. bytes[3 + index * 4 + field + 1] = FieldOf(level, index, field)
    <3>1. \A i \in 0 .. 33, f \in 0 .. 3 : bytes[3 + i * 4 + f + 1] = FieldOf(level, i, f)
      BY PieceStatusBytesType, Zenon
    <3> QED
      BY <3>1, Zenon
  <2> QED
    BY <2>1, <2>2 DEF At
<1> HIDE DEF bytes
<1>4. level \in (0 .. 100) \cup {255}
  BY LinkAssumption
<1>5. ASSUME NEW index \in 0 .. 33
      PROVE  /\ ~BadIdentity(bytes, index) /\ ~BadBattery(bytes, index)
             /\ Tracked(bytes, index) = Sensed(index, level)
  <2>1. /\ Identity(bytes, index) \in 1 .. 12
        /\ TrackedPiece[Identity(bytes, index)] = PieceOrder[index + 1]
        /\ At(bytes, FieldOffset(index, 1)) = index
        /\ At(bytes, FieldOffset(index, 2)) = 255 - index
        /\ Battery(bytes, index) = IF index % 2 = 0 THEN level ELSE 255
    BY <1>3, Fields DEF Identity, Battery
  <2>2. ~BadIdentity(bytes, index)
    BY <2>1 DEF BadIdentity, TrackedPiece
  <2>3. ~BadBattery(bytes, index)
    BY <1>4, <2>1 DEF BadBattery
  <2>4. BatteryOf(Battery(bytes, index)) = IF index % 2 = 0 THEN {level} \ {255} ELSE {}
    BY <1>4, <2>1 DEF BatteryOf
  <2>5. Tracked(bytes, index) = Sensed(index, level)
    BY <2>1, <2>4 DEF Tracked, Sensed
  <2> QED
    BY <2>2, <2>3, <2>5
<1>6. BadRecords(bytes) = {}
  BY <1>2, <1>5 DEF BadRecords
<1>7. DecodePieceStatus(bytes) = PieceStatus([index \in Records |-> Tracked(bytes, index)])
  BY <1>1, <1>6, RealSizes DEF DecodePieceStatus, PieceStatusPayload
<1>8. [index \in Records |-> Tracked(bytes, index)] = [index \in Records |-> Sensed(index, level)]
  BY <1>2, <1>5
<1>9. DecodeResponse(bytes) = DecodePieceStatus(bytes)
  BY <1>1 DEF DecodeResponse, ResponseHeader, ResponseHeaderLength, BatteryResponseType,
              PieceStatusType
<1>10. DecodeNotification("CommandResponse", bytes) = DecodeResponse(bytes)
  BY <1>1 DEF DecodeNotification, Acknowledgement
<1> QED
  BY <1>7, <1>8, <1>9, <1>10 DEF bytes

-----------------------------------------------------------------------------
(* The inductive invariant. *)

\* What is on the link, while its receiver has still to read it.
CommandInv == link = "command" => Clear(meant, frame)

NotificationInv ==
  link = "notification" =>
     /\ frame = [source |-> frame.source, bytes |-> frame.bytes]
     /\ frame.bytes \in Seq(Byte)
     /\ Len(frame.bytes) <= MaxNotificationLen
     /\ damage = Undamaged => DecodeNotification(frame.source, frame.bytes) = meant

IInv ==
  /\ board \in Positions
  /\ known \subseteq Positions
  /\ CommandInv
  /\ NotificationInv
  /\ CommandsAreUnderstood
  /\ IntactIsExact

LEMMA IInvInit == Init => IInv
BY LinkAssumption
   DEF Init, IInv, CommandInv, NotificationInv, CommandsAreUnderstood, IntactIsExact, IsDelivered

\* Whatever clear command is sent.
LEMMA SendKeeps ==
  ASSUME IInv, NEW instruction, NEW command, Clear(instruction, command),
         Send(instruction, command)
  PROVE  IInv'
<1>1. /\ link' = "command" /\ meant' = instruction /\ frame' = command
      /\ board' = board /\ known' = known
  BY DEF Send
<1>2. CommandInv'
  BY <1>1 DEF CommandInv
<1>3. NotificationInv' /\ CommandsAreUnderstood' /\ IntactIsExact'
  BY <1>1 DEF NotificationInv, CommandsAreUnderstood, IntactIsExact, IsDelivered
<1> QED
  BY <1>1, <1>2, <1>3 DEF IInv

LEMMA RequestKeeps ==
  ASSUME IInv,
         \/ \E from, to \in Touched, mode \in DOMAIN ModeFlag : RequestMove(from, to, mode)
         \/ RequestStop \/ RequestEnable \/ RequestBattery \/ RequestPieces
         \/ \E pattern \in Lit : RequestLeds(pattern)
  PROVE  IInv'
<1>1. ASSUME NEW from \in Touched, NEW to \in Touched, NEW mode \in DOMAIN ModeFlag,
             RequestMove(from, to, mode)
      PROVE  IInv'
  <2>1. PICK position \in known :
               Send(Move([position EXCEPT ![from] = "none", ![to] = position[from]], mode),
                    AutoMove([position EXCEPT ![from] = "none", ![to] = position[from]], mode))
    BY <1>1 DEF RequestMove
  <2> DEFINE target == [position EXCEPT ![from] = "none", ![to] = position[from]]
  <2>2. target \in Positions
    <3>1. position \in [Squares -> Contents] /\ from \in Squares /\ "none" \in Contents
      BY LinkAssumption DEF IInv, Positions, Contents
    <3> QED
      BY <3>1 DEF Positions
  <2> HIDE DEF target
  <2>3. Clear(Move(target, mode), AutoMove(target, mode))
    BY <2>2, MoveClear
  <2> QED
    BY <2>1, <2>3, SendKeeps DEF target
<1>2. CASE RequestStop
  BY <1>2, StopClear, SendKeeps DEF RequestStop
<1>3. CASE RequestEnable \/ RequestBattery \/ RequestPieces
  BY <1>3, ShortClear, SendKeeps DEF RequestEnable, RequestBattery, RequestPieces
<1>4. ASSUME NEW pattern \in Lit, RequestLeds(pattern) PROVE IInv'
  <2>1. pattern \in LedPatterns
    BY LinkAssumption
  <2> QED
    BY <1>4, <2>1, LedsClear, SendKeeps DEF RequestLeds
<1> QED
  BY <1>1, <1>2, <1>3, <1>4

\* Whatever exact notification is sent.
LEMMA ReplyKeeps ==
  ASSUME IInv, NEW event, NEW source, NEW bytes \in Seq(Byte), Reply(event, source, bytes),
         Len(bytes) <= MaxNotificationLen,
         DecodeNotification(source, bytes) = event
  PROVE  IInv'
<1>1. /\ link' = "notification" /\ meant' = event
      /\ frame' = [source |-> source, bytes |-> bytes]
      /\ board' = board /\ known' = known
  BY DEF Reply
<1>2. NotificationInv'
  <2>1. frame'.source = source /\ frame'.bytes = bytes
    BY <1>1
  <2> QED
    BY <1>1, <2>1 DEF NotificationInv
<1>3. CommandInv' /\ CommandsAreUnderstood' /\ IntactIsExact'
  BY <1>1 DEF CommandInv, CommandsAreUnderstood, IntactIsExact, IsDelivered
<1> QED
  BY <1>1, <1>2, <1>3 DEF IInv

LEMMA FollowKeeps ==
  ASSUME IInv, Follow
  PROVE  IInv'
<1>1. link = "command" /\ Clear(meant, frame) /\ outcome' = Understood(frame.bytes)
  BY DEF Follow, IInv, CommandInv
<1>2. /\ Enable # Report("battery") /\ Enable # Report("pieces")
      /\ Report("battery") # Report("pieces")
  BY DEF Enable, Report
<1>3. CASE outcome' = Enable
  <2>1. Reply(Acknowledged, "CommandResponse", <<35, 1, 0>>)
    BY <1>2, <1>3 DEF Follow
  <2>2. Len(<<35, 1, 0>>) <= MaxNotificationLen
    BY AcknowledgementExact, RealSizes
  <2> QED
    BY <2>1, <2>2, AcknowledgementExact, ReplyKeeps
<1>4. CASE outcome' = Report("battery")
  <2>1. PICK charging \in BOOLEAN, percentage \in {0, 100} :
              Reply(BatteryStatus(charging, percentage), "CommandResponse",
                    <<65, 3, 12, IF charging THEN 1 ELSE 0, percentage>>)
    BY <1>2, <1>4 DEF Follow
  <2> DEFINE bytes == <<65, 3, 12, IF charging THEN 1 ELSE 0, percentage>>
  <2>2. percentage \in 0 .. 100
    OBVIOUS
  <2>3. /\ bytes \in Seq(Byte) /\ Len(bytes) = 5
        /\ DecodeNotification("CommandResponse", bytes) = BatteryStatus(charging, percentage)
    BY <2>2, BatteryExact
  <2>4. Reply(BatteryStatus(charging, percentage), "CommandResponse", bytes)
    BY <2>1
  <2> HIDE DEF bytes
  <2>5. Len(bytes) <= MaxNotificationLen
    BY <2>3, RealSizes
  <2> QED
    BY <2>3, <2>4, <2>5, ReplyKeeps
<1>5. CASE outcome' = Report("pieces")
  <2>1. PICK level \in Levels :
              Reply(PieceStatus([index \in Records |-> Sensed(index, level)]),
                    "CommandResponse", PieceStatusBytes(level))
    BY <1>2, <1>5 DEF Follow
  <2>2. PieceStatusBytes(level) \in Seq(Byte) /\ Len(PieceStatusBytes(level)) = 139
    BY PieceStatusBytesType
  <2>3. Len(PieceStatusBytes(level)) <= MaxNotificationLen
    BY <2>2, RealSizes
  <2> QED
    BY <2>1, <2>2, <2>3, PiecesExact, ReplyKeeps
<1>6. CASE outcome' \notin {Enable, Report("battery"), Report("pieces")}
  <2>1. /\ board' = IF outcome'.do = "move" THEN outcome'.target ELSE board
        /\ link' = "delivered"
        /\ UNCHANGED <<known, meant, frame>>
    BY <1>6 DEF Follow
  <2>2. outcome' = meant \/ Ambiguous(meant, outcome')
    BY <1>1 DEF Clear
  <2>3. board' \in Positions
    BY <1>1, <2>1, <2>2 DEF IInv, Clear, Ambiguous, Stop
  <2>4. "source" \notin DOMAIN frame
    BY <1>1 DEF Clear, Command
  <2>5. CommandsAreUnderstood' /\ IntactIsExact'
    BY <2>1, <2>2, <2>4 DEF CommandsAreUnderstood, IntactIsExact, IsDelivered, Ambiguous
  <2>6. CommandInv' /\ NotificationInv'
    BY <2>1 DEF CommandInv, NotificationInv
  <2> QED
    BY <2>1, <2>3, <2>5, <2>6 DEF IInv
<1> QED
  BY <1>3, <1>4, <1>5, <1>6

LEMMA DamageKeeps ==
  ASSUME IInv, NEW bytes \in Seq(Byte), Len(bytes) <= Len(frame.bytes),
         link = "notification", damage' # Undamaged,
         frame' = [frame EXCEPT !.bytes = bytes], UNCHANGED <<board, known, link>>
  PROVE  IInv'
<1>1. /\ frame = [source |-> frame.source, bytes |-> frame.bytes]
      /\ frame.bytes \in Seq(Byte)
      /\ Len(frame.bytes) <= MaxNotificationLen
  BY DEF IInv, NotificationInv
<1>2. frame' = [source |-> frame.source, bytes |-> bytes]
  BY <1>1
<1>3. frame'.bytes = bytes /\ frame'.source = frame.source
  BY <1>2
<1>4. Len(bytes) <= MaxNotificationLen
  BY <1>1, RealSizes
<1>5. NotificationInv'
  BY <1>2, <1>3, <1>4 DEF NotificationInv
<1>6. CommandInv' /\ CommandsAreUnderstood' /\ IntactIsExact'
  BY DEF CommandInv, CommandsAreUnderstood, IntactIsExact, IsDelivered
<1> QED
  BY <1>5, <1>6 DEF IInv

LEMMA ChangedByte ==
  ASSUME NEW bytes \in Seq(Byte), NEW i \in 1 .. Len(bytes), NEW value \in Byte
  PROVE  /\ [bytes EXCEPT ![i] = value] \in Seq(Byte)
         /\ Len([bytes EXCEPT ![i] = value]) = Len(bytes)
BY ExceptSeq

LEMMA CutBytes ==
  ASSUME NEW bytes \in Seq(Byte), NEW n \in Nat, n < Len(bytes)
  PROVE  SubSeq(bytes, 1, n) \in Seq(Byte) /\ Len(SubSeq(bytes, 1, n)) = n
<1>1. \A i \in 1 .. n : bytes[i] \in Byte
  OBVIOUS
<1>2. /\ SubSeq(bytes, 1, n) \in Seq(Byte)
      /\ Len(SubSeq(bytes, 1, n)) = IF 1 <= n THEN n - 1 + 1 ELSE 0
  BY <1>1, SubSeqProperties
<1> QED
  BY <1>2

LEMMA FaultKeeps ==
  ASSUME IInv,
         \/ \E offset \in Offsets, value \in Damages : DamageByte(offset, value)
         \/ \E length \in Offsets : CutShort(length)
  PROVE  IInv'
<1>1. link = "notification" => frame.bytes \in Seq(Byte) /\ Len(frame.bytes) \in Nat
  BY DEF IInv, NotificationInv
<1>2. ASSUME NEW offset \in Offsets, NEW value \in Damages, DamageByte(offset, value)
      PROVE  IInv'
  <2> DEFINE bytes == [frame.bytes EXCEPT ![offset + 1] = value]
  <2>1. /\ link = "notification" /\ offset < Len(frame.bytes)
        /\ frame' = [frame EXCEPT !.bytes = bytes]
        /\ damage' = [kind |-> "byte", at |-> offset]
        /\ UNCHANGED <<board, known, link>>
    BY <1>2 DEF DamageByte
  <2>2. offset + 1 \in 1 .. Len(frame.bytes) /\ value \in Byte
    BY <1>1, <2>1, LinkAssumption
  <2>3. bytes \in Seq(Byte) /\ Len(bytes) = Len(frame.bytes)
    BY <1>1, <2>1, <2>2, ChangedByte
  <2>4. damage' # Undamaged
    BY <2>1 DEF Undamaged
  <2> HIDE DEF bytes
  <2>5. Len(bytes) <= Len(frame.bytes)
    BY <1>1, <2>1, <2>3
  <2> QED
    BY <2>1, <2>3, <2>4, <2>5, DamageKeeps
<1>3. ASSUME NEW length \in Offsets, CutShort(length) PROVE IInv'
  <2> DEFINE bytes == SubSeq(frame.bytes, 1, length)
  <2>1. /\ link = "notification" /\ length < Len(frame.bytes)
        /\ frame' = [frame EXCEPT !.bytes = bytes]
        /\ damage' = [kind |-> "cut", at |-> length]
        /\ UNCHANGED <<board, known, link>>
    BY <1>3 DEF CutShort
  <2>2. length \in Nat
    BY LinkAssumption
  <2>3. bytes \in Seq(Byte) /\ Len(bytes) = length
    BY <1>1, <2>1, <2>2, CutBytes
  <2>4. damage' # Undamaged
    BY <2>1 DEF Undamaged
  <2> HIDE DEF bytes
  <2>5. Len(bytes) <= Len(frame.bytes)
    BY <1>1, <2>1, <2>2, <2>3
  <2> QED
    BY <2>1, <2>3, <2>4, <2>5, DamageKeeps
<1> QED
  BY <1>2, <1>3

LEMMA DecodeKeeps ==
  ASSUME IInv, Decode
  PROVE  IInv'
<1>1. /\ link = "notification" /\ link' = "delivered"
      /\ outcome' = DecodeNotification(frame.source, frame.bytes)
      /\ known' = IF "squares" \in DOMAIN outcome' THEN {outcome'.squares} ELSE known
      /\ UNCHANGED <<board, meant, frame, damage>>
  BY DEF Decode
<1>2. known' \subseteq Positions
  <2>1. "squares" \in DOMAIN outcome' => outcome'.squares \in Positions
    BY <1>1, DecodedSquares
  <2> QED
    BY <1>1, <2>1 DEF IInv
<1>3. "writeKind" \notin DOMAIN frame
  BY <1>1 DEF IInv, NotificationInv
<1>4. CommandsAreUnderstood' /\ IntactIsExact'
  BY <1>1, <1>3 DEF CommandsAreUnderstood, IntactIsExact, IInv, NotificationInv
<1>5. CommandInv' /\ NotificationInv'
  BY <1>1 DEF CommandInv, NotificationInv
<1> QED
  BY <1>1, <1>2, <1>4, <1>5 DEF IInv

LEMMA IInvNext == IInv /\ [Next]_vars => IInv'
<1> SUFFICES ASSUME IInv, [Next]_vars PROVE IInv'
  OBVIOUS
<1>1. CASE \/ \E from, to \in Touched, mode \in DOMAIN ModeFlag : RequestMove(from, to, mode)
           \/ RequestStop \/ RequestEnable \/ RequestBattery \/ RequestPieces
           \/ \E pattern \in Lit : RequestLeds(pattern)
  BY <1>1, RequestKeeps
<1>2. CASE Follow
  BY <1>2, FollowKeeps
<1>3. ASSUME NEW from \in Touched, NEW to \in Touched, Touch(from, to) PROVE IInv'
  <2>1. board' \in Positions
    <3>1. board \in [Squares -> Contents] /\ from \in Squares /\ "none" \in Contents
      BY LinkAssumption DEF IInv, Positions, Contents
    <3>2. board' = [board EXCEPT ![from] = "none",
                                 ![to] = IF to = from THEN "none" ELSE board[from]]
      BY <1>3 DEF Touch
    <3> QED
      BY <3>1, <3>2 DEF Positions
  <2>2. link = "idle" /\ link' = "idle" /\ known' = known
    BY <1>3 DEF Touch
  <2> QED
    BY <2>1, <2>2 DEF IInv, CommandInv, NotificationInv, CommandsAreUnderstood, IntactIsExact,
                      IsDelivered
<1>4. CASE SendPosition
  <2> DEFINE bytes == <<1, 36>> \o BoardPacks(board) \o <<7, 7>>
  <2>1. Reply(PositionChanged(board), "Position", bytes)
    BY <1>4 DEF SendPosition
  <2>2. /\ bytes \in Seq(Byte) /\ Len(bytes) = 36
        /\ DecodeNotification("Position", bytes) = PositionChanged(board)
    BY PositionExact DEF IInv
  <2> HIDE DEF bytes
  <2>3. Len(bytes) <= MaxNotificationLen
    BY <2>2, RealSizes
  <2> QED
    BY <2>1, <2>2, <2>3, ReplyKeeps
<1>5. CASE \/ \E offset \in Offsets, value \in Damages : DamageByte(offset, value)
           \/ \E length \in Offsets : CutShort(length)
  BY <1>5, FaultKeeps
<1>6. CASE Decode
  BY <1>6, DecodeKeeps
<1>7. CASE Settle
  BY <1>7 DEF Settle, IInv, CommandInv, NotificationInv, CommandsAreUnderstood, IntactIsExact,
              IsDelivered
<1>8. CASE UNCHANGED vars
  BY <1>8 DEF vars, IInv, CommandInv, NotificationInv, CommandsAreUnderstood, IntactIsExact,
              IsDelivered
<1> QED
  BY <1>1, <1>2, <1>3, <1>4, <1>5, <1>6, <1>7, <1>8 DEF Next

-----------------------------------------------------------------------------
(* The theorems. *)

\* The inductive invariant holds in every reachable state.
THEOREM Invariance == Spec => []IInv
BY IInvInit, IInvNext, PTL DEF Spec

\* The board follows every instruction as the program meant it, from every
\* position and for every LED pattern; only forcing an empty board is a stop.
THEOREM InstructionsArrive == Spec => []CommandsAreUnderstood
<1>1. IInv => CommandsAreUnderstood
  BY DEF IInv
<1> QED
  BY <1>1, Invariance, PTL

\* Every undamaged notification is decoded to what the board meant by it.
THEOREM EventsArrive == Spec => []IntactIsExact
<1>1. IInv => IntactIsExact
  BY DEF IInv
<1> QED
  BY <1>1, Invariance, PTL

\* Every frame fits its buffer and no encoder panics.
THEOREM FramesAlwaysFit == Spec => []FramesFit
<1>1. IInv => FramesFit
  <2> SUFFICES ASSUME IInv PROVE FramesFit
    OBVIOUS
  <2>1. link = "command" => /\ Len(frame.bytes) <= MaxCommandLen
                            /\ \A i \in DOMAIN frame.bytes : frame.bytes[i] \in Byte
    BY DEF IInv, CommandInv, Clear
  <2>2. link = "notification" => Len(frame.bytes) <= MaxNotificationLen
    BY DEF IInv, NotificationInv
  <2>3. ~EncodePanics(board, PieceCode)
    <3>1. ASSUME NEW s \in Squares PROVE PieceCode[board[s]] \in Nibble
      BY PieceTables DEF IInv, Positions
    <3> QED
      BY <3>1 DEF EncodePanics
  <2> QED
    BY <2>1, <2>2, <2>3 DEF FramesFit, IInv
<1> QED
  BY <1>1, Invariance, PTL
=============================================================================
