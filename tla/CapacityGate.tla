---------------------------- MODULE CapacityGate ----------------------------
(***************************************************************************)
(* What the provider promises its upstream about load, without saying how: *)
(* a call enters its stage only while fewer calls than the stage's current *)
(* limit are inside, at most MaxConcurrency calls of all stages together   *)
(* are on the wire, and a limit moves one up, one down or to its half,     *)
(* only when a call of that stage leaves, between floor and ceiling.       *)
(***************************************************************************)
EXTENDS Integers, FiniteSets

CONSTANTS Calls, Stages, StageOf, MaxConcurrency, MinConcurrency

VARIABLES
    inside,  \* the calls that hold capacity of their stage
    wire,    \* those of them whose HTTP request is in flight
    limit    \* how many calls each stage may hold

gateVars == <<inside, wire, limit>>

InStage(s) == {c \in inside : StageOf[c] = s}

Init ==
    /\ inside = {}
    /\ wire = {}
    /\ limit = [s \in Stages |-> MaxConcurrency]

WireHasRoom == Cardinality(wire) < MaxConcurrency

Enter(c) ==
    /\ c \notin inside
    /\ Cardinality(InStage(StageOf[c])) < limit[StageOf[c]]
    /\ inside' = inside \union {c}
    /\ \/ wire' = wire
       \/ WireHasRoom /\ wire' = wire \union {c}
    /\ UNCHANGED limit

Dispatch(c) ==
    /\ c \in inside \ wire
    /\ WireHasRoom
    /\ wire' = wire \union {c}
    /\ UNCHANGED <<inside, limit>>

\* The values a limit may take when a call of its stage leaves.
Adjusted(n) ==
    {m \in MinConcurrency..MaxConcurrency :
        \/ m \in {n - 1, n, n + 1, n \div 2}
        \/ m = MinConcurrency /\ (n \div 2 < m \/ n - 1 < m)}

Leave(c) ==
    /\ c \in inside
    /\ inside' = inside \ {c}
    /\ wire' = wire \ {c}
    /\ \E n \in Adjusted(limit[StageOf[c]]) : limit' = [limit EXCEPT ![StageOf[c]] = n]

Next == \E c \in Calls : Enter(c) \/ Dispatch(c) \/ Leave(c)

Spec == Init /\ [][Next]_gateVars
=============================================================================
