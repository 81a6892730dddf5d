---------------------------- MODULE MCBoardLink ----------------------------
(***************************************************************************)
(* The real sizes, 64 squares and 34 records, with boards on which every   *)
(* piece code occurs, and the bytes at which the decoders change course.   *)
(***************************************************************************)
EXTENDS BoardLink

\* All twelve pieces, in both nibbles of bytes all over the board.
Crowded ==
    [s \in Squares |->
        IF s \div 8 \in {0, 3, 7}
        THEN <<"none", "WR", "BQ", "WN", "BK", "WB", "BB", "WP", "BP", "WQ", "BN", "WK",
               "BR">>[(s % 11) + ((s \div 8) % 3) + 1]
        ELSE "none"]

LonePawn == [Empty EXCEPT ![63] = "WP"]

Boards == {Crowded, LonePawn, Empty}
Corners == {0, 63}

Patterns ==
    {[s \in Squares |-> IF s = 28 THEN "Green" ELSE IF s = 63 THEN "Red" ELSE "Off"],
     [s \in Squares |-> "Blue"]}

BatteryLevels == {0, 100, 255}

\* The headers, the first, second and last bytes of the squares and the records.
Places == (0 .. 9) \cup (32 .. 38) \cup {137, 138, 139}

\* No piece; one bad code, in the low or in the high nibble; two of them; an
\* acknowledgement; the response header; the types; the edges of an identity and of
\* a battery level.
Corruptions == {0, 1, 2, 11, 12, 13, 29, 35, 65, 100, 101, 209, 221, 254, 255}
=============================================================================
