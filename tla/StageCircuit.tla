---------------------------- MODULE StageCircuit ----------------------------
(***************************************************************************)
(* The circuit breaker of one provider stage: the CircuitState record of   *)
(* openrouter_support.py and what each method of OpenRouterProvider does   *)
(* to it.  Every method runs under _circuit_lock without suspending, so    *)
(* its effect is one operator from the record before to the record after.  *)
(*                                                                         *)
(* Time is counted in ticks.  open_until_monotonic is kept as two fields:  *)
(* `opened` (it is not 0.0) and `remaining` (the ticks until it passes).   *)
(* consecutive_failures is kept up to FailureThreshold: the code only asks *)
(* whether it has got there.                                               *)
(***************************************************************************)
EXTENDS Integers

CONSTANTS
    FailureThreshold,  \* config.provider_circuit_failure_threshold
    Cooldown,          \* config.provider_circuit_cooldown_seconds, in ticks
    RetryAfters        \* Retry-After delays an error may carry; 0 when it has none

ASSUME CircuitAssumption ==
    /\ FailureThreshold \in Nat /\ FailureThreshold >= 2
    /\ Cooldown \in Nat \ {0}
    /\ RetryAfters \subseteq Nat

Larger(a, b) == IF a >= b THEN a ELSE b

Circuit ==
    [failures : 0..FailureThreshold, opened : BOOLEAN, remaining : Nat, probe : BOOLEAN]

ClosedCircuit == [failures |-> 0, opened |-> FALSE, remaining |-> 0, probe |-> FALSE]

\* _admit_stage raises while the cooldown runs, and while a probe is out.
Admits(k) ==
    /\ k.remaining = 0
    /\ k.opened => ~k.probe

\* The first call let through after the cooldown carries the probe flag.
AfterAdmit(k) == IF k.opened THEN [k EXCEPT !.probe = TRUE] ELSE k

AfterSuccess(k) == ClosedCircuit

\* An error that does not count: it says nothing of the stage's health, but
\* it does end a probe.
AfterRefusal(k) == IF k.probe THEN ClosedCircuit ELSE k

\* Mutants of AfterFailure: it opens one failure late; it leaves the flag up.
AfterFailureLate(k, wait) ==
    LET failures == IF k.failures < FailureThreshold THEN k.failures + 1 ELSE k.failures
        opens    == k.probe \/ k.opened \/ k.failures >= FailureThreshold
    IN  [failures  |-> failures,
         opened    |-> opens,
         remaining |-> IF opens THEN Larger(Cooldown, wait) ELSE k.remaining,
         probe     |-> FALSE]

AfterFailureKeepsFlag(k, wait) ==
    LET failures == IF k.failures < FailureThreshold THEN k.failures + 1 ELSE k.failures
        opens    == k.probe \/ k.opened \/ failures >= FailureThreshold
    IN  [failures  |-> failures,
         opened    |-> opens,
         remaining |-> IF opens THEN Larger(Cooldown, wait) ELSE k.remaining,
         probe     |-> k.probe]

\* A counted error with its Retry-After delay.
AfterFailure(k, wait) ==
    LET failures == IF k.failures < FailureThreshold THEN k.failures + 1 ELSE k.failures
        opens    == k.probe \/ k.opened \/ failures >= FailureThreshold
    IN  [failures  |-> failures,
         opened    |-> opens,
         remaining |-> IF opens THEN Larger(Cooldown, wait) ELSE k.remaining,
         probe     |-> FALSE]

\* Mutants of AfterAbandon: it forgets the flag; it closes the circuit.
AfterAbandonForgets(k) == k
AfterAbandonCloses(k) == IF k.probe THEN ClosedCircuit ELSE k

\* A cancelled call lowers the flag whether or not it raised it.
AfterAbandon(k) == [k EXCEPT !.probe = FALSE]

AfterTick(k) == [k EXCEPT !.remaining = IF @ > 0 THEN @ - 1 ELSE 0]

(***************************************************************************)
(* The circuit is open exactly when the failures have reached the          *)
(* threshold, and the flag is up only in the half-open window, after the   *)
(* cooldown and before the circuit closes or opens again.                  *)
(***************************************************************************)
OpenAtThreshold(k) == k.opened <=> k.failures = FailureThreshold
ProbeIsHalfOpen(k) == k.probe => k.opened /\ k.remaining = 0
=============================================================================
