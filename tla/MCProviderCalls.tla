--------------------------- MODULE MCProviderCalls --------------------------
(* Instances of ProviderCalls for TLC. *)
EXTENDS ProviderCalls, TLC

CONSTANTS c1, c2, c3, c4, s1, s2

\* Three callers of one stage and one of another, for what crosses stages.
TwoStages == c1 :> s1 @@ c2 :> s1 @@ c3 :> s1 @@ c4 :> s2
\* All callers in one stage, for what crosses calls.
OneStage == c1 :> s1 @@ c2 :> s1 @@ c3 :> s1
\* Two callers in one stage and one in another.
SplitStages == c1 :> s1 @@ c2 :> s1 @@ c3 :> s2

Callers == Permutations({c1, c2, c3})
=============================================================================
