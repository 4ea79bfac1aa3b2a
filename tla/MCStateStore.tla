---------------------------- MODULE MCStateStore ----------------------------
(***************************************************************************)
(* An instance of StateStore for TLC: two processes that add an endpoint  *)
(* each, and one that removes the first endpoint.                          *)
(***************************************************************************)
EXTENDS StateStore, TLC

CONSTANTS p1, p2, p3

ThreeAdds == (p1 :> {"e1"}) @@ (p2 :> {"e2"}) @@ (p3 :> {})
ThreeDels == (p1 :> {}) @@ (p2 :> {}) @@ (p3 :> {"e1"})

=============================================================================
