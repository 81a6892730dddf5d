--------------------------- MODULE MCActorEvents ---------------------------
(***************************************************************************)
(* Small sets of calls for ActorEvents.                                    *)
(***************************************************************************)
EXTENDS ActorEvents

CONSTANTS b1, e1, e2

\* Two subscribers, of which one may come after the first events.
TwoStreams == {e1, e2}
TwoStreamsKind == (e1 :> "subscribe") @@ (e2 :> "subscribe")
StreamSymmetry == Permutations({e1, e2})

\* A subscriber, and a query whose response is published as well.
StreamAndQuery == {b1, e1}
StreamAndQueryKind == (b1 :> "battery") @@ (e1 :> "subscribe")
=============================================================================
