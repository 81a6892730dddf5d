-------------------------- MODULE BlockingClient --------------------------
(***************************************************************************)
(* The blocking session of src/src/transport/blocking.rs in the program    *)
(* that src/examples/blocking_no_std.rs makes of it: connect, initialize,  *)
(* ask for the battery and the pieces, wait for a position, shut down.     *)
(*                                                                         *)
(* A blocking call is one action: nothing else of the program runs in it,  *)
(* and what the board sends meanwhile waits in the transport.  Every       *)
(* transport operation may fail, with or without having taken effect.      *)
(***************************************************************************)
EXTENDS Integers, Sequences, SequencesExt

CONSTANT MaxPending  \* bound: how many notifications wait in the transport

ASSUME ClientAssumption == MaxPending \in Nat \ {0}

VARIABLES
    pc,          \* what run is about to do
    operation,   \* what use_board returned
    result,      \* what run returned
    observed,    \* what the observer was given, oldest first
    subscribed,  \* the sources the board notifies
    realtime,    \* has the board been told to send positions?
    closed,      \* has the transport been closed?
    asked,       \* the queries written and not answered
    answered,    \* the queries the board has answered
    pending,     \* the notifications that wait in the transport, oldest first
    silent       \* has the board fallen silent for good?

clientVars == <<pc, operation, result, observed>>
linkVars == <<subscribed, realtime, closed>>
boardVars == <<asked, answered, pending, silent>>
vars == <<clientVars, linkVars, boardVars>>

Kinds == {"position", "battery", "pieces", "ack", "bad"}
Queries == {"battery", "pieces"}
SourceOf(kind) == IF kind = "position" THEN "Position" ELSE "CommandResponse"

Init ==
    /\ pc = "connect" /\ operation = "none" /\ result = "none" /\ observed = <<>>
    /\ subscribed = {} /\ realtime = FALSE /\ closed = FALSE
    /\ asked = {} /\ answered = {} /\ pending = <<>> /\ silent = FALSE

-----------------------------------------------------------------------------
(* The board and the transport. *)

\* A notification remembers which queries had been answered when it was sent.
BoardSends(kind) ==
    /\ ~silent /\ ~closed
    /\ Len(pending) < MaxPending
    /\ SourceOf(kind) \in subscribed
    /\ kind = "position" => realtime
    /\ kind \in Queries => kind \in asked
    /\ pending' = Append(pending, [kind |-> kind, after |-> answered])
    /\ asked' = asked \ {kind}
    /\ answered' = answered \cup ({kind} \cap Queries)
    /\ UNCHANGED <<silent, clientVars, linkVars>>

FallSilent ==
    /\ ~silent
    /\ silent' = TRUE
    /\ UNCHANGED <<asked, answered, pending, clientVars, linkVars>>

-----------------------------------------------------------------------------
(* BlockingBoard. *)

\* initialize has carried out its first k operations.
InitializedTo(k) ==
    /\ subscribed' = {source \in {"Position", "CommandResponse"} :
                        k >= (IF source = "Position" THEN 1 ELSE 3)}
    /\ realtime' = (k >= 2)
    /\ UNCHANGED <<closed, boardVars>>

\* shutdown has carried out its first k operations.
ShutTo(k) ==
    /\ subscribed' = subscribed \ {source \in subscribed :
                        k >= (IF source = "CommandResponse" THEN 1 ELSE 2)}
    /\ closed' = (k >= 3)
    /\ UNCHANGED <<realtime, boardVars>>

Written(query) ==
    /\ asked' = asked \cup {query}
    /\ UNCHANGED <<answered, pending, silent, linkVars>>

-----------------------------------------------------------------------------
(* run and use_board. *)

\* Mutant: the pieces are awaited after the position.
AfterPositionFirst ==
    [connect |-> "initialize", initialize |-> "askBattery",
     askBattery |-> "awaitBattery", awaitBattery |-> "askPieces",
     askPieces |-> "awaitPosition", awaitPosition |-> "awaitPieces",
     awaitPieces |-> "shutdown"]

\* What follows a step that succeeded.
After ==
    [connect |-> "initialize", initialize |-> "askBattery",
     askBattery |-> "awaitBattery", awaitBattery |-> "askPieces",
     askPieces |-> "awaitPieces", awaitPieces |-> "awaitPosition",
     awaitPosition |-> "shutdown"]

\* The kind of event that a loop of use_board waits for, and the query it sent.
Wanted == [awaitBattery |-> "battery", awaitPieces |-> "pieces", awaitPosition |-> "position"]
QueryOf == [askBattery |-> "battery", askPieces |-> "pieces"]

Proceed ==
    /\ pc' = After[pc]
    /\ operation' = IF pc' = "shutdown" THEN "Ok" ELSE operation

\* use_board returns the error with `?'.
Abort(error) == pc' = "shutdown" /\ operation' = error

Connect ==
    /\ pc = "connect"
    /\ \/ Proceed /\ UNCHANGED result
       \/ pc' = "done" /\ result' = "Connect" /\ UNCHANGED operation
    /\ UNCHANGED <<observed, linkVars, boardVars>>

Initialize ==
    /\ pc = "initialize"
    /\ \/ InitializedTo(3) /\ Proceed
       \/ (\E k \in 0 .. 3 : InitializedTo(k)) /\ Abort("Transport")
    /\ UNCHANGED <<result, observed>>

Ask ==
    /\ pc \in DOMAIN QueryOf
    /\ \/ Written(QueryOf[pc]) /\ Proceed
       \/ Written(QueryOf[pc]) /\ Abort("Transport")
       \/ UNCHANGED <<linkVars, boardVars>> /\ Abort("Transport")
    /\ UNCHANGED <<result, observed>>

\* next_event takes the next notification out of the transport.
Taken ==
    /\ pc \in DOMAIN Wanted
    /\ pending # <<>>
    /\ pending' = Tail(pending)
    /\ UNCHANGED <<asked, answered, silent, linkVars, result>>

\* The event that the loop waits for goes to the observer.
Observe ==
    /\ Taken
    /\ Head(pending).kind = Wanted[pc]
    /\ observed' = Append(observed, Head(pending))
    /\ Proceed

\* Another event: the loop of use_board drops it and calls next_event again.
DropEvent ==
    /\ Taken
    /\ Head(pending).kind \notin {Wanted[pc], "ack", "bad"}
    /\ UNCHANGED <<pc, operation, observed>>

\* An acknowledgement: next_event itself goes on to the next notification.
Acknowledged ==
    /\ Taken
    /\ Head(pending).kind = "ack"
    /\ UNCHANGED <<pc, operation, observed>>

DecodeFails ==
    /\ Taken
    /\ Head(pending).kind = "bad"
    /\ Abort("Decode")
    /\ UNCHANGED observed

\* Mutant: an error of the transport is taken for a quiet moment.
ReceiveFailsRetries ==
    /\ pc \in DOMAIN Wanted
    /\ UNCHANGED <<pc, operation, result, observed, linkVars, boardVars>>

\* The transport's receive timeout, a lost connection, the end of its stream.
ReceiveFails ==
    /\ pc \in DOMAIN Wanted
    /\ Abort("Transport")
    /\ UNCHANGED <<result, observed, linkVars, boardVars>>

\* Mutant: the result of shutdown replaces that of the operation.
ReturnedShutdown(shutdown) == shutdown

\* operation?; shutdown
Returned(shutdown) == IF operation = "Ok" THEN shutdown ELSE operation

Shutdown ==
    /\ pc = "shutdown"
    /\ \/ ShutTo(3) /\ result' = Returned("Ok")
       \/ (\E k \in 0 .. 3 : ShutTo(k)) /\ result' = Returned("Transport")
    /\ pc' = "done"
    /\ UNCHANGED <<operation, observed>>

Done == pc = "done" /\ UNCHANGED vars

Run ==
    \/ Connect \/ Initialize \/ Ask
    \/ Observe \/ DropEvent \/ Acknowledged \/ DecodeFails \/ ReceiveFails
    \/ Shutdown

Next ==
    \/ Run
    \/ \E kind \in Kinds : BoardSends(kind)
    \/ FallSilent
    \/ Done

\* Every blocking call returns: a transport has timeouts.  The board owes nothing.
Spec == Init /\ [][Next]_vars /\ WF_vars(Run)

-----------------------------------------------------------------------------
(* Properties. *)

\* What run returned tells what happened: Ok only if the observer was given all
\* three values and nothing is left subscribed or open, and an error of use_board
\* is never replaced by one of the cleanup.
ResultIsTrue ==
    pc = "done" =>
        /\ result = "Ok" =>
              /\ subscribed = {} /\ closed
              /\ [i \in DOMAIN observed |-> observed[i].kind] =
                    <<"battery", "pieces", "position">>
        /\ operation \notin {"none", "Ok"} => result = operation
        /\ result = "Connect" => operation = "none" /\ subscribed = {}

\* The position given to the observer was sent after the board had answered both
\* queries: the initial position, and those that came while an answer was awaited,
\* are never taken for the move the program waits for.
MoveIsFresh ==
    \A i \in DOMAIN observed :
        observed[i].kind = "position" => observed[i].after = Queries

\* Once the board has fallen silent, run returns, whatever it was waiting for.
ReturnsOnceSilent == silent ~> (pc = "done")
=============================================================================
