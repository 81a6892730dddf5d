------------------------ MODULE MCQueryCorrelation ------------------------
(***************************************************************************)
(* A small set of calls for QueryCorrelation.                              *)
(***************************************************************************)
EXTENDS QueryCorrelation

CONSTANTS b1, b2, s1

\* Two battery queries and a send() call, whose bytes may be a query as well.
SmallCalls == {b1, b2, s1}
SmallKind == (b1 :> "battery") @@ (b2 :> "battery") @@ (s1 :> "send")
SmallSymmetry == Permutations({b1, b2})
=============================================================================
