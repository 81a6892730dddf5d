------------------------------ MODULE Commands ------------------------------
(***************************************************************************)
(* src/src/protocol/command.rs: the bytes of every command, and how each   *)
(* has to be written.                                                      *)
(***************************************************************************)
EXTENDS Wire, SequencesExt

AutoMovePrefix == <<66, 33>>  \* 0x42 0x21
SetLedPrefix == <<67, 32>>    \* 0x43 0x20

AutoMoveCommandLength == 2 + PackedBytes + 1
SetLedCommandLength == 2 + PackedBytes
MaxCommandLen == Max({AutoMoveCommandLength, SetLedCommandLength})

ModeFlag == [Force |-> 0, Normal |-> 1]

Command(bytes, writeKind) == [bytes |-> bytes, writeKind |-> writeKind]

\* Mutant: the mode is left out.
AutoMoveWithoutMode(position, mode) ==
    Command(AutoMovePrefix \o Packed(position, PieceCode) \o <<0>>, "WithoutResponse")

AutoMove(position, mode) ==
    Command(AutoMovePrefix \o Packed(position, PieceCode) \o <<ModeFlag[mode]>>,
            "WithoutResponse")

StopAutoMove ==
    Command(AutoMovePrefix \o [i \in 1 .. AutoMoveCommandLength - 2 |-> 0],
            "WithoutResponse")

EnableRealtimeUpdates == Command(<<33, 1, 0>>, "WithResponse")

QueryCommand(register) == Command(<<65, 1, register>>, "WithResponse")
ReadBatteryLevel == QueryCommand(12)
ReadPieceStatus == QueryCommand(11)

SetLeds(pattern) == Command(SetLedPrefix \o Packed(pattern, LedCode), "WithoutResponse")
=============================================================================
