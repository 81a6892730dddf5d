------------------------- MODULE QueryCorrelation -------------------------
(***************************************************************************)
(* The board actor together with the board that answers its queries: which *)
(* response completes which query (src/src/transport/tokio.rs).            *)
(*                                                                         *)
(* A response carries its type and no request id, so resolve_query gives   *)
(* it to whatever query of that type is active.  The board is external: it *)
(* may answer late or never, it may answer the query bytes that a caller   *)
(* sent with send(), and it answers queries of one type in order.          *)
(***************************************************************************)
EXTENDS TokioActor, FiniteSets

VARIABLES
    carries,   \* per send() call: the response its bytes ask for, if any
    written,   \* the calls whose query bytes were written, oldest first
    inflight,  \* those of them whose response is still to come
    answer,    \* per call: the write whose response completed it
    gaveUp,    \* the queries that the actor timed out
    clean      \* the queries written while no response of their type was due

boardVars == <<carries, written, inflight, answer, gaveUp, clean>>
correlationVars == <<vars, boardVars>>

Sends == {c \in Calls : Kind[c] = "send"}

\* The response that the bytes written for a call ask for.
AsksFor(c) == IF IsQuery(c) THEN Kind[c] ELSE carries[c]

\* c was written before d.
Before(c, d) == InOrder(written, c, d)

CorrelationInit ==
    /\ Init
    /\ carries \in [Sends -> QueryKinds \cup {"none"}]
    /\ written = <<>>
    /\ inflight = {}
    /\ answer = [c \in Calls |-> NoCall]
    /\ gaveUp = {}
    /\ clean = {}

-----------------------------------------------------------------------------
(* Writes. *)

Written(c) ==
    /\ written' = Append(written, c)
    /\ inflight' = inflight \cup {c}

WriteQuery ==
    /\ FinishQueryWrite
    /\ Written(current)
    /\ clean' = IF \E d \in inflight : AsksFor(d) = Kind[current]
                THEN clean ELSE clean \cup {current}
    /\ UNCHANGED <<carries, answer, gaveUp>>

\* The actor does not look into the bytes of a command it was told to send.
WriteRaw ==
    /\ FinishSend
    /\ IF carries[current] # "none" THEN Written(current) ELSE UNCHANGED <<written, inflight>>
    /\ UNCHANGED <<carries, answer, gaveUp, clean>>

-----------------------------------------------------------------------------
(* Responses. *)

\* The response to the write of c leaves the link: the oldest one of its type.
Consume(c) ==
    /\ c \in inflight
    /\ \A d \in inflight : AsksFor(d) = AsksFor(c) => ~Before(d, c)
    /\ inflight' = inflight \ {c}

Answered(c) ==
    /\ Consume(c)
    /\ ReceiveResponse(AsksFor(c))
    /\ answer' = [answer EXCEPT ![pending] = c]
    /\ UNCHANGED <<carries, written, gaveUp, clean>>

\* Nobody waits for it: the response is an event and nothing more.
Stray(c) ==
    /\ Consume(c)
    /\ ReceiveOther(AsksFor(c))
    /\ UNCHANGED <<carries, written, answer, gaveUp, clean>>

\* A response that does not decode completes nothing either.
Corrupted(c) ==
    /\ Consume(c)
    /\ ReceiveOther("malformed")
    /\ UNCHANGED <<carries, written, answer, gaveUp, clean>>

Unprompted ==
    /\ \E k \in {"position", "acknowledged"} : ReceiveOther(k)
    /\ UNCHANGED boardVars

\* The board does not answer, or the answer is lost.
Lose(c) ==
    /\ Consume(c)
    /\ UNCHANGED <<vars, carries, written, answer, gaveUp, clean>>

GiveUp ==
    /\ Timeout
    /\ gaveUp' = gaveUp \cup {pending}
    /\ UNCHANGED <<carries, written, inflight, answer, clean>>

Unaffected ==
    /\ \/ \E c \in Calls : Caller(c)
       \/ DropHandles
       \/ Startup \/ LoopTop \/ Receive \/ WriteFails \/ NotificationFails \/ Leave
       \/ DeadlinePasses
       \/ Abort
       \/ Terminated
    /\ UNCHANGED boardVars

CorrelationNext ==
    \/ WriteQuery \/ WriteRaw
    \/ \E c \in Calls : Answered(c) \/ Stray(c) \/ Corrupted(c) \/ Lose(c)
    \/ Unprompted
    \/ GiveUp
    \/ Unaffected

CorrelationSpec == CorrelationInit /\ [][CorrelationNext]_correlationVars

-----------------------------------------------------------------------------
(* Properties. *)

\* The writes of c's type from d on that precede c.
Since(d, c) ==
    {e \in Calls : Before(e, c) /\ AsksFor(e) = AsksFor(c) /\ (e = d \/ Before(d, e))}

\* The writes before c whose response the actor did not wait for to the end: a
\* timed out query, or query bytes sent as a plain command.
Abandoned(c) ==
    {e \in gaveUp \cup Sends : Before(e, c) /\ AsksFor(e) = AsksFor(c)}

SentAfter(d, c) == d \in Sends /\ Before(c, d) /\ AsksFor(d) = AsksFor(c)

\* Every variable of the board holds a value it can have.
CorrelationTypeOK ==
    /\ carries \in [Sends -> QueryKinds \cup {"none"}]
    /\ written \in Seq(Calls) /\ IsInjective(written)
    /\ inflight \subseteq ToSet(written)
    /\ answer \in [Calls -> Calls \cup {NoCall}]
    /\ gaveUp \subseteq Calls /\ clean \subseteq Calls

\* A query is completed by its own response; a response can only be as many
\* writes too old as there were timeouts and raw queries of its type before.  A
\* caller that has gone shifts nobody else's answer: its query keeps its turn.
StalenessBounded ==
    \A c \in Calls : answer[c] # NoCall =>
        \/ answer[c] = c
        \/ Before(answer[c], c)
           /\ Cardinality(Since(answer[c], c)) <= Cardinality(Abandoned(c))
        \/ SentAfter(answer[c], c)

\* A late response does not shift the answers for good: a query that is written
\* when no response of its type is due gets its own, unless that one is lost and
\* a raw query of the type, sent meanwhile, is answered in its place.
QuietLineHeals ==
    \A c \in clean : answer[c] # NoCall =>
        answer[c] = c \/ SentAfter(answer[c], c)
=============================================================================
