-------------------------- MODULE MCAsyncSession --------------------------
(***************************************************************************)
(* A few values for AsyncSession: one of each case that receive and        *)
(* decode_notification tell apart.  The position starts with the byte of   *)
(* an acknowledgement, and the buffer holds two bytes.                     *)
(***************************************************************************)
EXTENDS AsyncSession

Value(from, bytes) == [from |-> from, bytes |-> bytes]

PositionValue == Value("PositionNotification", <<"ack", "data">>)

ChosenValues ==
    {PositionValue,
     Value("CommandResponse", <<"ack">>),
     Value("CommandResponse", <<"data">>),
     Value("CommandResponse", <<"bad", "data">>),
     Value("CommandResponse", <<"data", "data", "data">>),
     Value("Foreign", <<"data">>)}
=============================================================================
