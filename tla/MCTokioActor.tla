--------------------------- MODULE MCTokioActor ---------------------------
(***************************************************************************)
(* Small sets of calls for TokioActor.  The calls are model values; two    *)
(* calls of the same kind are interchangeable.                             *)
(***************************************************************************)
EXTENDS TokioActor, FiniteSets

CONSTANTS b1, b2, b3, p1, s1, e1, d1, d2

KindOf ==
    (b1 :> "battery") @@ (b2 :> "battery") @@ (b3 :> "battery") @@ (p1 :> "pieces")
    @@ (s1 :> "send") @@ (e1 :> "subscribe") @@ (d1 :> "shutdown") @@ (d2 :> "shutdown")

KindsOf(S) == [c \in S |-> KindOf[c]]

\* Queries of both kinds compete for the queue.
QueryCalls == {b1, b2, b3, p1}
QueryKindOf == KindsOf(QueryCalls)
QuerySymmetry == Permutations({b1, b2, b3})

\* One call of each kind and a second shutdown.
MixedCalls == {b1, s1, e1, d1, d2}
MixedKindOf == KindsOf(MixedCalls)
MixedSymmetry == Permutations({d1, d2})

\* Two queries and a shutdown, few enough for the temporal properties.
FewCalls == {b1, p1, d1}
FewKindOf == KindsOf(FewCalls)
=============================================================================
