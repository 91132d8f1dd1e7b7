---------------------------- MODULE MCLiveCache -----------------------------
(* Instances of LiveCache for TLC. *)
EXTENDS LiveCache, TLC

CONSTANTS l1, l2, l3, fires1, fires2, orders

\* Two boxes of one layer and one of another.
Layers == fires1 :> "fires" @@ fires2 :> "fires" @@ orders :> "orders"

Callers == Permutations({l1, l2, l3})
=============================================================================
