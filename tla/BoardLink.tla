----------------------------- MODULE BoardLink -----------------------------
(***************************************************************************)
(* The byte level of a session: a program that builds Commands and decodes *)
(* Notifications, a board that reads and writes the same bytes in its own  *)
(* terms (external), and one frame at a time on the link between them,     *)
(* which may damage a byte of a notification or cut it short.              *)
(***************************************************************************)
EXTENDS Commands, Notifications

CONSTANTS
    InitialBoards, \* what may stand on the board at first
    Touched,       \* the squares on which players and the program move pieces
    Lit,           \* the LED patterns that the program sets
    Levels,        \* the battery bytes that the board reports of a piece
    Offsets,       \* bound: the offsets at which a byte may be damaged
    Damages,       \* bound: what a damaged byte may become
    MaxFaults      \* bound: how many notifications are damaged

\* The sizes of the code.
ASSUME SizeAssumption == BoardWidth = 8 /\ TrackedPieceCount = 34

ASSUME LinkAssumption ==
    /\ InitialBoards \subseteq Positions
    /\ Touched \subseteq Squares
    /\ Lit \subseteq LedPatterns
    /\ Levels \subseteq (0 .. 100) \cup {255}
    /\ Offsets \subseteq Nat /\ Damages \subseteq Byte
    /\ MaxFaults \in Nat

VARIABLES
    board,   \* the contents of each square
    known,   \* the positions the program has decoded last, at most one
    link,    \* what is on the link: "idle", "command", "notification", "delivered"
    meant,   \* what the sender of the frame means by it
    frame,   \* the frame: a command, or the source and bytes of a notification
    damage,  \* the offset that was damaged, the length it was cut to, or neither
    outcome, \* what the receiver of the last frame made of it
    faults   \* how many notifications have been damaged

vars == <<board, known, link, meant, frame, damage, outcome, faults>>

Nothing == [event |-> "nothing"]
Undamaged == [kind |-> "none", at |-> 0]

Init ==
    /\ board \in InitialBoards
    /\ known = {}
    /\ link = "idle"
    /\ meant = Nothing /\ frame = Nothing /\ damage = Undamaged /\ outcome = Nothing
    /\ faults = 0

-----------------------------------------------------------------------------
(* How the board reads and writes squares: h8 first, then g8 and so on down *)
(* to a1, the first of two squares in the low nibble.                       *)

Mirror(c) == BoardWidth - 1 - c
WireSquare(w) == NewSquare(Mirror(w % BoardWidth), Mirror(w \div BoardWidth))
WireIndex(square) == Mirror(RankOf(square)) * BoardWidth + Mirror(FileOf(square))

BoardReads(packed, name) ==
    [s \in Squares |->
        name[(At(packed, WireIndex(s) \div 2) \div (IF WireIndex(s) % 2 = 0 THEN 1 ELSE 16))
                % 16]]

BoardPacks(position) ==
    [b \in 1 .. PackedBytes |->
        PieceCode[position[WireSquare(2 * b - 2)]]
            + PieceCode[position[WireSquare(2 * b - 1)]] * 16]

LedName == [n \in 0 .. 3 |-> <<"Off", "Red", "Green", "Blue">>[n + 1]]

\* The instructions of the board.
Move(target, mode) == [do |-> "move", target |-> target, mode |-> mode]
Stop == [do |-> "stop"]
Light(pattern) == [do |-> "light", pattern |-> pattern]
Enable == [do |-> "enable"]
Report(kind) == [do |-> "report", kind |-> kind]

\* What the board takes a command for, by its first bytes and its length.
Understood(bytes) ==
    LET payload == SubSeq(bytes, 3, 2 + PackedBytes)
    IN  CASE bytes = <<33, 1, 0>>  -> Enable
          [] bytes = <<65, 1, 12>> -> Report("battery")
          [] bytes = <<65, 1, 11>> -> Report("pieces")
          [] Len(bytes) = 35 /\ SubSeq(bytes, 1, 2) = <<66, 33>> ->
                IF \A i \in 3 .. 35 : bytes[i] = 0 THEN Stop
                ELSE Move(BoardReads(payload, DecodedPiece),
                          IF bytes[35] = 0 THEN "Force" ELSE "Normal")
          [] Len(bytes) = 34 /\ SubSeq(bytes, 1, 2) = <<67, 32>> ->
                Light(BoardReads(payload, LedName))

\* The order of the records: eight pawns, two rooks, knights, bishops and queens
\* and a king of each colour.  Half of the pieces report no battery level.
PieceOrder ==
    LET Side(pawn, rook, knight, bishop, queen, king) ==
            [i \in 1 .. 8 |-> pawn] \o <<rook, rook, knight, knight, bishop, bishop,
                                         queen, queen, king>>
    IN  Side("WP", "WR", "WN", "WB", "WQ", "WK")
            \o Side("BP", "BR", "BN", "BB", "BQ", "BK")

Sensed(index, level) ==
    [piece |-> PieceOrder[index + 1], x |-> index, y |-> 255 - index,
     battery |-> IF index % 2 = 0 THEN {level} \ {255} ELSE {}]

IdentityByte(piece) == CHOOSE n \in DOMAIN TrackedPiece : TrackedPiece[n] = piece

PieceStatusBytes(level) ==
    [i \in 1 .. PieceStatusLength |->
        IF i <= 3 THEN <<65, 137, 11>>[i]
        ELSE LET index == (i - 4) \div 4
             IN  <<IdentityByte(Sensed(index, level).piece), index, 255 - index,
                   IF index % 2 = 0 THEN level ELSE 255>>[((i - 4) % 4) + 1]]

-----------------------------------------------------------------------------
(* The program sends a command; the board follows it. *)

Send(instruction, command) ==
    /\ link = "idle"
    /\ link' = "command"
    /\ meant' = instruction
    /\ frame' = command
    /\ UNCHANGED <<board, known, damage, outcome, faults>>

\* Position::set_piece on the position known last, then auto_move to it.
RequestMove(from, to, mode) ==
    \E position \in known :
        LET target == [position EXCEPT ![from] = "none", ![to] = position[from]]
        IN  Send(Move(target, mode), AutoMove(target, mode))

RequestStop == Send(Stop, StopAutoMove)
RequestLeds(pattern) == Send(Light(pattern), SetLeds(pattern))
RequestEnable == Send(Enable, EnableRealtimeUpdates)
RequestBattery == Send(Report("battery"), ReadBatteryLevel)
RequestPieces == Send(Report("pieces"), ReadPieceStatus)

Reply(event, source, bytes) ==
    /\ link' = "notification"
    /\ meant' = event
    /\ frame' = [source |-> source, bytes |-> bytes]
    /\ UNCHANGED <<board, known, damage, faults>>

\* The board reads the command, and follows it at once.
Follow ==
    /\ link = "command"
    /\ outcome' = Understood(frame.bytes)
    /\ CASE outcome' = Enable -> Reply(Acknowledged, "CommandResponse", <<35, 1, 0>>)
         [] outcome' = Report("battery") ->
                \E charging \in BOOLEAN, percentage \in {0, 100} :
                    Reply(BatteryStatus(charging, percentage), "CommandResponse",
                          <<65, 3, 12, IF charging THEN 1 ELSE 0, percentage>>)
         [] outcome' = Report("pieces") ->
                \E level \in Levels :
                    Reply(PieceStatus([index \in Records |-> Sensed(index, level)]),
                          "CommandResponse", PieceStatusBytes(level))
         [] OTHER ->
                /\ board' = IF outcome'.do = "move" THEN outcome'.target ELSE board
                /\ link' = "delivered"
                /\ UNCHANGED <<known, meant, frame, damage, faults>>

-----------------------------------------------------------------------------
(* The board notifies positions; the link may damage a notification. *)

\* A player moves a piece, or takes it off the board.
Touch(from, to) ==
    /\ link = "idle"
    /\ board[from] # "none"
    /\ board' = [board EXCEPT ![from] = "none", ![to] = IF to = from THEN "none" ELSE board[from]]
    /\ UNCHANGED <<known, link, meant, frame, damage, outcome, faults>>

\* Two bytes before the squares and two behind them carry something else.
SendPosition ==
    /\ link = "idle"
    /\ Reply(PositionChanged(board), "Position", <<1, 36>> \o BoardPacks(board) \o <<7, 7>>)
    /\ UNCHANGED outcome

DamageByte(offset, value) ==
    /\ link = "notification" /\ damage = Undamaged /\ faults < MaxFaults
    /\ faults' = faults + 1
    /\ offset < Len(frame.bytes) /\ At(frame.bytes, offset) # value
    /\ frame' = [frame EXCEPT !.bytes[offset + 1] = value]
    /\ damage' = [kind |-> "byte", at |-> offset]
    /\ UNCHANGED <<board, known, link, meant, outcome>>

CutShort(length) ==
    /\ link = "notification" /\ damage = Undamaged /\ faults < MaxFaults
    /\ faults' = faults + 1
    /\ length < Len(frame.bytes)
    /\ frame' = [frame EXCEPT !.bytes = SubSeq(frame.bytes, 1, length)]
    /\ damage' = [kind |-> "cut", at |-> length]
    /\ UNCHANGED <<board, known, link, meant, outcome>>

\* The program decodes the notification, and remembers a position.
Decode ==
    /\ link = "notification"
    /\ outcome' = DecodeNotification(frame.source, frame.bytes)
    /\ known' = IF "squares" \in DOMAIN outcome' THEN {outcome'.squares} ELSE known
    /\ link' = "delivered"
    /\ UNCHANGED <<board, meant, frame, damage, faults>>

\* The frame is forgotten.
Settle ==
    /\ link = "delivered"
    /\ link' = "idle"
    /\ meant' = Nothing /\ frame' = Nothing /\ damage' = Undamaged /\ outcome' = Nothing
    /\ UNCHANGED <<board, known, faults>>

Next ==
    \/ \E from, to \in Touched, mode \in DOMAIN ModeFlag : RequestMove(from, to, mode)
    \/ RequestStop \/ RequestEnable \/ RequestBattery \/ RequestPieces
    \/ \E pattern \in Lit : RequestLeds(pattern)
    \/ Follow
    \/ \E from, to \in Touched : Touch(from, to)
    \/ SendPosition
    \/ \E offset \in Offsets, value \in Damages : DamageByte(offset, value)
    \/ \E length \in Offsets : CutShort(length)
    \/ Decode
    \/ Settle

Spec == Init /\ [][Next]_vars

-----------------------------------------------------------------------------
(* Properties. *)

Empty == [s \in Squares |-> "none"]

IsDelivered == link = "delivered" /\ "source" \in DOMAIN frame
Accepted == IsDelivered /\ "event" \in DOMAIN outcome

\* Every frame fits the buffer that the crate provides for it, every byte is a
\* byte, and no encoder panics on a value that does not fit in a nibble.
FramesFit ==
    /\ link = "command" =>
          /\ Len(frame.bytes) <= MaxCommandLen
          /\ \A i \in DOMAIN frame.bytes : frame.bytes[i] \in Byte
    /\ link = "notification" => Len(frame.bytes) <= MaxNotificationLen
    /\ board \in Positions /\ known \subseteq Positions
    /\ ~EncodePanics(board, PieceCode)

\* The board follows the instruction that the program meant, square by square, and
\* takes no command for another, but for one: to force the pieces of an empty board
\* away is, byte for byte, to stop.
CommandsAreUnderstood ==
    link = "delivered" /\ "writeKind" \in DOMAIN frame =>
        \/ outcome = meant
        \/ meant = Move(Empty, "Force") /\ outcome = Stop

\* A notification that arrives as it was sent is decoded to what the board meant.
IntactIsExact == IsDelivered /\ damage = Undamaged => outcome = meant

\* The offsets whose damage can bear on a value of the event.
OffsetOfSquare(square) == 2 + WireIndex(square) \div 2
OffsetsOfRecord(index) == {3 + 4 * index + field : field \in 0 .. 3}

\* Where event was meant, the result of decoding differs from it only in the
\* squares, fields or records that the damaged byte holds.
Contained(event, result, source, hurt) ==
    "event" \in DOMAIN result =>
        \/ result = event
        \/ result = Acknowledged /\ source = "CommandResponse" /\ hurt.at = 0
        \/ /\ hurt.kind = "byte"
           /\ result.event = event.event
           /\ CASE result.event = "PositionChanged" ->
                     \A s \in Squares : result.squares[s] # event.squares[s] =>
                                            OffsetOfSquare(s) = hurt.at
                [] result.event = "BatteryStatus" ->
                     /\ result.charging # event.charging => hurt.at = 3
                     /\ result.percentage # event.percentage => hurt.at = 4
                [] result.event = "PieceStatus" ->
                     \A i \in Records : result.pieces[i] # event.pieces[i] =>
                                            hurt.at \in OffsetsOfRecord(i)

\* An error of decoding bytes names the place that was hurt.
Blamed(event, result, bytes, hurt) ==
    "error" \in DOMAIN result =>
        CASE result.error = "NotificationTooShort" ->
                /\ hurt.kind = "cut" \/ hurt.at = 2
                /\ result.actual = Len(bytes) /\ result.actual < result.expected
          [] result.error = "InvalidNotificationHeader" ->
                hurt.kind = "byte" /\ hurt.at \in {result.offset, 2}
          [] result.error = "UnexpectedNotification" ->
                hurt.at = IF event = Acknowledged THEN 0 ELSE 2
          [] result.error = "InvalidChargingFlag" -> hurt.at = 3
          [] result.error = "InvalidBatteryPercentage" -> hurt.at = 4
          [] result.error = "InvalidPiece" ->
                /\ Parsed(Notation(result.where)) = {result.where}
                /\ hurt = [kind |-> "byte", at |-> OffsetOfSquare(result.where)]
                /\ result.value \in 13 .. 15
                /\ WireIndex(result.where) % 2 = 1 => At(bytes, hurt.at) % 16 <= 12
          [] result.error = "InvalidTrackedPiece" ->
                hurt = [kind |-> "byte", at |-> 3 + 4 * result.where]
          [] result.error = "InvalidTrackedPieceBattery" ->
                hurt = [kind |-> "byte", at |-> 3 + 4 * result.where + 3]

\* Damage that is not noticed is contained: it changes no square, field or record
\* but those its byte holds, cutting off the bytes behind the squares changes
\* nothing, and no other kind of event appears but an acknowledgement, for its byte.
DamageIsContained == IsDelivered => Contained(meant, outcome, frame.source, damage)

\* An error is never raised without damage, and it names the place: the first bad
\* square on the wire (in a notation that reads back as that square), the record,
\* the header byte or the length.  Only a damaged type, or an acknowledgement that
\* turned into a response, is blamed on the bytes that do not go with it.
ErrorsPointAtDamage == IsDelivered => Blamed(meant, outcome, frame.bytes, damage)

\* The comment on decode_tracked_piece: the identity of every record is validated
\* "so firmware changes or corrupt frames cannot silently relabel a piece".
NoPieceIsRelabelled ==
    Accepted /\ outcome.event = "PieceStatus" =>
        \A i \in Records : outcome.pieces[i].piece = PieceOrder[i + 1]
=============================================================================
