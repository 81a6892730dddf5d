--------------------------- MODULE BoardService ---------------------------
(***************************************************************************)
(* What BoardHandle promises its callers, without saying how: the outcome  *)
(* of each call and the phase of the service.  There is no channel, no     *)
(* query queue, no transport and no order of service here.  TokioActor     *)
(* implements it.                                                          *)
(***************************************************************************)
CONSTANTS Calls, Kind

VARIABLES
    call,     \* per call: "idle", "pending", "cancelled", or what it returned
    handles,  \* does a BoardHandle clone still exist?
    phase     \* "open", "closing", "stopped", "faulted", or "gone" by an abort

serviceVars == <<call, handles, phase>>

Phases == {"open", "closing", "stopped", "faulted", "gone"}

\* What a call may be answered while the service is open.
Outcomes(kind) ==
    CASE kind = "send"                    -> {"Ok", "TransportFailed"}
      [] kind \in {"battery", "pieces"}   -> {"Ok", "TransportFailed", "RequestTimedOut",
                                              "QueryQueueFull"}
      [] kind = "subscribe"               -> {"Ok"}
      [] kind = "shutdown"                -> {}

\* What a call may find when it is made.
FirstStep(p) ==
    CASE p = "open"                   -> {"pending"}
      [] p = "closing"                -> {"ShuttingDown"}
      [] p \in {"stopped", "faulted"} -> {"ActorStopped"}
      [] p = "gone"                   -> {"pending", "ShuttingDown"}

\* Some pending calls fail with the same error at once.
FailSome(error) ==
    \E S \in SUBSET {c \in Calls : call[c] = "pending"} :
        call' = [c \in Calls |-> IF c \in S THEN error ELSE call[c]]

Init ==
    /\ call = [c \in Calls |-> "idle"]
    /\ handles = TRUE
    /\ phase = "open"

Ask(c) ==
    /\ handles
    /\ call[c] = "idle"
    /\ \E s \in FirstStep(phase) : call' = [call EXCEPT ![c] = s]
    /\ UNCHANGED <<handles, phase>>

GiveUp(c) ==
    /\ call[c] = "pending"
    /\ call' = [call EXCEPT ![c] = "cancelled"]
    /\ UNCHANGED <<handles, phase>>

DropHandles ==
    /\ handles
    /\ \A c \in Calls : call[c] # "pending"
    /\ handles' = FALSE
    /\ UNCHANGED <<call, phase>>

\* Only while the service is open is a call served.
Serve(c) ==
    /\ phase = "open"
    /\ call[c] = "pending"
    /\ \E r \in Outcomes(Kind[c]) : call' = [call EXCEPT ![c] = r]
    /\ UNCHANGED <<handles, phase>>

BeginClosing ==
    /\ phase = "open"
    /\ phase' = "closing"
    /\ UNCHANGED <<call, handles>>

Refuse ==
    /\ phase = "closing"
    /\ FailSome("ShuttingDown")
    /\ UNCHANGED <<handles, phase>>

\* A call finds the channel closed, or its message is dropped with the channel.
TurnAway ==
    /\ phase # "open"
    /\ FailSome("ActorStopped")
    /\ UNCHANGED <<handles, phase>>

End ==
    /\ phase = "closing"
    /\ phase' \in {"stopped", "faulted"}
    /\ UNCHANGED <<call, handles>>

\* The shutdown call learns how it ended, and not before it has.
Confirm(c) ==
    /\ Kind[c] = "shutdown"
    /\ call[c] = "pending"
    /\ \/ phase = "stopped" /\ call' = [call EXCEPT ![c] = "Ok"]
       \/ phase = "faulted" /\ call' = [call EXCEPT ![c] = "TransportFailed"]
    /\ UNCHANGED <<handles, phase>>

Vanish ==
    /\ phase \in {"open", "closing"}
    /\ phase' = "gone"
    /\ FailSome("ActorStopped")
    /\ UNCHANGED handles

Next ==
    \/ \E c \in Calls : Ask(c) \/ GiveUp(c) \/ Serve(c) \/ Confirm(c)
    \/ DropHandles
    \/ BeginClosing \/ Refuse \/ TurnAway \/ End \/ Vanish

Spec == Init /\ [][Next]_serviceVars
=============================================================================
