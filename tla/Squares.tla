------------------------------ MODULE Squares ------------------------------
(***************************************************************************)
(* src/src/protocol/square.rs: squares in canonical A1-to-H8 order and     *)
(* their notation.  A square is its index; a text is a sequence of         *)
(* characters.                                                             *)
(***************************************************************************)
EXTENDS Integers, Sequences

CONSTANT BoardWidth  \* 8 in the code; even, or squares could not be packed in pairs

ASSUME WidthAssumption == BoardWidth \in {2, 4, 6, 8}

SquareCount == BoardWidth * BoardWidth
Squares == 0 .. SquareCount - 1
Coordinates == 0 .. BoardWidth - 1

NewSquare(file, rank) == rank * BoardWidth + file
FileOf(square) == square % BoardWidth
RankOf(square) == square \div BoardWidth

FileLetters == <<"a", "b", "c", "d", "e", "f", "g", "h">>
FileCapitals == <<"A", "B", "C", "D", "E", "F", "G", "H">>
RankDigits == <<"1", "2", "3", "4", "5", "6", "7", "8">>

\* File::from_ascii and Rank::from_ascii: the coordinates a character may stand for.
FileFromAscii(c) == {f \in Coordinates : c \in {FileLetters[f + 1], FileCapitals[f + 1]}}
RankFromAscii(c) == {r \in Coordinates : c = RankDigits[r + 1]}

\* Display
Notation(square) == <<FileLetters[FileOf(square) + 1], RankDigits[RankOf(square) + 1]>>

\* FromStr: the squares a text may stand for, none if it is not a notation.
Parsed(text) ==
    IF Len(text) # 2 THEN {}
    ELSE {NewSquare(f, r) : f \in FileFromAscii(text[1]), r \in RankFromAscii(text[2])}
=============================================================================
