-------------------------- MODULE MCReviewSession ---------------------------
(* Instances of ReviewSession for TLC. *)
EXTENDS ReviewSession, TLC

CONSTANTS ra, rb, adj, k1, k2, w1, w2

\* Every actor has an order of its own.
Orders == ra :> <<k1, k2>> @@ rb :> <<k2, k1>> @@ adj :> <<k2, k1>>
=============================================================================
