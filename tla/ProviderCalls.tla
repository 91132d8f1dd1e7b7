---------------------------- MODULE ProviderCalls ---------------------------
(***************************************************************************)
(* The calls of OpenRouterProvider (providers/openrouter.py) to the        *)
(* upstream: every call is admitted by its stage's circuit, waits for its  *)
(* stage's adaptive capacity and for the global semaphore, posts, and may  *)
(* be retried; its outcome moves the circuit and the limit of its stage.   *)
(*                                                                         *)
(* asyncio switches tasks only where a coroutine suspends, and the locks   *)
(* here are never held across a suspension, so a step of a call runs from  *)
(* one such point to the next: waiting for the condition, waiting for the  *)
(* semaphore, waiting for the upstream, sleeping before a retry.           *)
(***************************************************************************)
EXTENDS StageCircuit, StagePressure, FiniteSets

CONSTANTS
    Calls,        \* slots of callers; a slot makes one call after another
    Stages,       \* PROVIDER_STAGES
    StageOf,      \* the stage whose operation a slot calls
    MaxAttempts,  \* config.provider_max_attempts
    Outcomes      \* the ways a post may end

ASSUME CallsAssumption ==
    /\ IsFiniteSet(Calls)
    /\ StageOf \in [Calls -> Stages]
    /\ MaxAttempts \in Nat \ {0}
    /\ Outcomes \subseteq {"validated", "invalid", "refused", "escape"} \union Overload

VARIABLES
    circuit,   \* _circuits
    pressure,  \* _stage_pressure
    permits,   \* the value of _semaphore
    pc,        \* where each slot's call is suspended; "idle" between calls
    attempt,   \* the attempt a call is making
    prober,    \* history: whether the call was admitted as a half-open probe
    cleared    \* history: the last step was an answer of the upstream, and one
               \* that does not count as a failure of it

vars == <<circuit, pressure, permits, pc, attempt, prober, cleared>>

\* "waiting" in Condition.wait, "woken" by notify_all, "queued" in
\* Semaphore.acquire, "posting" in client.post, "backoff" in asyncio.sleep.
Points == {"idle", "waiting", "woken", "queued", "posting", "backoff"}

Holding(c) == pc[c] \in {"queued", "posting"}
Inside(s) == {c \in Calls : StageOf[c] = s /\ Holding(c)}
OnWire == {c \in Calls : pc[c] = "posting"}

TypeOK ==
    /\ circuit \in [Stages -> Circuit]
    /\ pressure \in [Stages -> Pressure]
    /\ permits \in 0..MaxConcurrency
    /\ pc \in [Calls -> Points]
    /\ attempt \in [Calls -> 1..MaxAttempts]
    /\ prober \in [Calls -> BOOLEAN]
    /\ cleared \in BOOLEAN

Init ==
    /\ circuit = [s \in Stages |-> ClosedCircuit]
    /\ pressure = [s \in Stages |-> FullPressure]
    /\ permits = MaxConcurrency
    /\ pc = [c \in Calls |-> "idle"]
    /\ attempt = [c \in Calls |-> 1]
    /\ prober = [c \in Calls |-> FALSE]
    /\ cleared = FALSE
-----------------------------------------------------------------------------
(***************************************************************************)
(* Entering: _acquire_stage_capacity, then the semaphore.                  *)
(***************************************************************************)
SemaphoreLocked == permits = 0 \/ \E c \in Calls : pc[c] = "queued"

AcquireStageCapacity(c) ==
    \/ /\ ~HasRoom(pressure[StageOf[c]])
       /\ pc' = [pc EXCEPT ![c] = "waiting"]
       /\ UNCHANGED <<pressure, permits>>
    \/ /\ HasRoom(pressure[StageOf[c]])
       /\ pressure' = [pressure EXCEPT ![StageOf[c]] = Acquired(@)]
       /\ \/ /\ SemaphoreLocked
             /\ pc' = [pc EXCEPT ![c] = "queued"]
             /\ UNCHANGED permits
          \/ /\ ~SemaphoreLocked
             /\ pc' = [pc EXCEPT ![c] = "posting"]
             /\ permits' = permits - 1

\* A call of _post that the circuit turns away: it raises UNAVAILABLE at once.
Reject(c) ==
    /\ pc[c] = "idle"
    /\ ~Admits(circuit[StageOf[c]])
    /\ UNCHANGED vars

\* A call of _post that the circuit lets through.
AdmitStage(c) ==
    /\ pc[c] = "idle"
    /\ Admits(circuit[StageOf[c]])
    /\ circuit' = [circuit EXCEPT ![StageOf[c]] = AfterAdmit(@)]
    /\ prober' = [prober EXCEPT ![c] = circuit[StageOf[c]].opened]
    /\ AcquireStageCapacity(c)
    /\ cleared' = FALSE
    /\ UNCHANGED attempt

\* wait_for evaluates its predicate again once its task runs.
Recheck(c) ==
    /\ pc[c] = "woken"
    /\ AcquireStageCapacity(c)
    /\ cleared' = FALSE
    /\ UNCHANGED <<circuit, attempt, prober>>

\* Semaphore.release has handed a permit to a queued call.
TakePermit(c) ==
    /\ pc[c] = "queued"
    /\ permits > 0
    /\ permits' = permits - 1
    /\ pc' = [pc EXCEPT ![c] = "posting"]
    /\ cleared' = FALSE
    /\ UNCHANGED <<circuit, pressure, attempt, prober>>

\* The retry of _post_with_retries goes straight to its next attempt: the
\* circuit is asked only once for a call.
Retry(c) ==
    /\ pc[c] = "backoff"
    /\ attempt' = [attempt EXCEPT ![c] = @ + 1]
    /\ AcquireStageCapacity(c)
    /\ cleared' = FALSE
    /\ UNCHANGED <<circuit, prober>>
-----------------------------------------------------------------------------
(***************************************************************************)
(* Leaving: the `finally` of _post_attempt gives the capacity back and     *)
(* notifies every waiter of the stage.                                     *)
(***************************************************************************)
\* Mutant of NotifyAll: a release that wakes nobody, as if notify were dropped.
NotifyNone(s) == pc

NotifyAll(s) == [d \in Calls |-> IF StageOf[d] = s /\ pc[d] = "waiting" THEN "woken" ELSE pc[d]]

\* Call c's attempt ends with its stage's pressure at p; c goes to `next`.
EndAttempt(c, p, next) ==
    /\ pressure' = [pressure EXCEPT ![StageOf[c]] = Released(p)]
    /\ pc' = [NotifyAll(StageOf[c]) EXCEPT ![c] = next]
    /\ permits' = permits + 1

\* The call returns or raises to its caller, leaving the circuit at k.
EndCall(c, k) ==
    /\ circuit' = [circuit EXCEPT ![StageOf[c]] = k]
    /\ attempt' = [attempt EXCEPT ![c] = 1]
    /\ prober' = [prober EXCEPT ![c] = FALSE]

\* The operation validated the body: _record_stage_success.
Validated(c) ==
    /\ EndAttempt(c, AfterValidated(pressure[StageOf[c]]), "idle")
    /\ EndCall(c, AfterSuccess(circuit[StageOf[c]]))
    /\ cleared' = TRUE

\* INVALID_RESPONSE, from _post_attempt or from the operation's own parsing:
\* it counts against the circuit and says nothing of load.
Invalid(c) ==
    /\ EndAttempt(c, pressure[StageOf[c]], "idle")
    /\ EndCall(c, AfterFailure(circuit[StageOf[c]], 0))
    /\ cleared' = FALSE

\* Neither retryable nor INVALID_RESPONSE: a refused request, or an upstream
\* status the adapter does not know.
Refused(c) ==
    /\ EndAttempt(c, pressure[StageOf[c]], "idle")
    /\ EndCall(c, AfterRefusal(circuit[StageOf[c]]))
    /\ cleared' = TRUE

\* A retryable error and its Retry-After.  The delay may not fit the public
\* deadline, which ends the call before its last attempt.
Overloaded(c, kind) ==
    LET p == AfterOverload(pressure[StageOf[c]], kind)
    IN  /\ cleared' = FALSE
        /\ \/ /\ attempt[c] < MaxAttempts
              /\ EndAttempt(c, p, "backoff")
              /\ UNCHANGED <<circuit, attempt, prober>>
           \/ \E wait \in RetryAfters :
                 /\ EndAttempt(c, p, "idle")
                 /\ EndCall(c, AfterFailure(circuit[StageOf[c]], wait))

\* Any other exception (a body that is not UTF-8, a Retry-After no float can
\* hold) leaves through `finally`, and _post handles neither.
Escape(c) ==
    /\ EndAttempt(c, pressure[StageOf[c]], "idle")
    /\ EndCall(c, circuit[StageOf[c]])
    /\ cleared' = FALSE

Answer(c) ==
    /\ pc[c] = "posting"
    /\ \/ "validated" \in Outcomes /\ Validated(c)
       \/ "invalid" \in Outcomes /\ Invalid(c)
       \/ "refused" \in Outcomes /\ Refused(c)
       \/ \E kind \in Overload \intersect Outcomes : Overloaded(c, kind)
       \/ "escape" \in Outcomes /\ Escape(c)

\* Mutant of Cancel: a call cancelled in the semaphore's queue keeps its
\* stage capacity.
CancelLeaks(c) ==
    /\ \/ /\ pc[c] = "posting"
          /\ EndAttempt(c, pressure[StageOf[c]], "idle")
       \/ /\ pc[c] \in {"waiting", "woken", "queued", "backoff"}
          /\ pc' = [pc EXCEPT ![c] = "idle"]
          /\ UNCHANGED <<pressure, permits>>
    /\ EndCall(c, AfterAbandon(circuit[StageOf[c]]))
    /\ cleared' = FALSE

\* The caller's task is cancelled, by its deadline or by its client, wherever
\* it is suspended: what it holds is released, then _abandon_stage_probe.
Cancel(c) ==
    /\ \/ /\ pc[c] = "posting"
          /\ EndAttempt(c, pressure[StageOf[c]], "idle")
       \/ /\ pc[c] = "queued"
          /\ pressure' = [pressure EXCEPT ![StageOf[c]] = Released(@)]
          /\ pc' = [NotifyAll(StageOf[c]) EXCEPT ![c] = "idle"]
          /\ UNCHANGED permits
       \/ /\ pc[c] \in {"waiting", "woken", "backoff"}
          /\ pc' = [pc EXCEPT ![c] = "idle"]
          /\ UNCHANGED <<pressure, permits>>
    /\ EndCall(c, AfterAbandon(circuit[StageOf[c]]))
    /\ cleared' = FALSE

Tick ==
    /\ \E s \in Stages : circuit[s].remaining > 0
    /\ circuit' = [s \in Stages |-> AfterTick(circuit[s])]
    /\ cleared' = FALSE
    /\ UNCHANGED <<pressure, permits, pc, attempt, prober>>

Next ==
    \/ \E c \in Calls :
          \/ Reject(c)
          \/ AdmitStage(c)
          \/ Recheck(c)
          \/ TakePermit(c)
          \/ Retry(c)
          \/ Answer(c)
          \/ Cancel(c)
    \/ Tick

Spec == Init /\ [][Next]_vars

(***************************************************************************)
(* The event loop runs a task that can run; the client's timeout ends a    *)
(* post, a sleep ends, and the semaphore serves its queue in order, so a   *)
(* call is not overtaken for ever.  Nobody has to call, or to cancel.      *)
(***************************************************************************)
Fairness ==
    /\ WF_vars(Tick)
    /\ \A c \in Calls :
          /\ WF_vars(Recheck(c))
          /\ SF_vars(TakePermit(c))
          /\ WF_vars(Retry(c))
          /\ WF_vars(Answer(c))

FairSpec == Spec /\ Fairness
-----------------------------------------------------------------------------
\* A closed circuit has not reached its threshold and an open one has, after
\* any order of late failures, abandoned probes and refusals.
OpenExactlyAtThreshold == \A s \in Stages : OpenAtThreshold(circuit[s])

\* The probe flag is up only between the end of a cooldown and the next
\* verdict on the stage: a late failure that opens the circuit again must
\* not leave it behind.
ProbeOnlyHalfOpen == \A s \in Stages : ProbeIsHalfOpen(circuit[s])

\* While the flag is up, and so turns every other caller away, a call that
\* was admitted as the probe is still on its way: a flag nobody will lower
\* would shut the stage for good.
ProbeFlagOwned ==
    \A s \in Stages : circuit[s].probe =>
        \E c \in Calls : StageOf[c] = s /\ pc[c] # "idle" /\ prober[c]

\* The counters agree with the calls: what a cancelled, failed or answered
\* call held has been given back exactly once.
AccountedFor ==
    /\ \A s \in Stages : pressure[s].active = Cardinality(Inside(s))
    /\ permits = MaxConcurrency - Cardinality(OnWire)

\* No call sleeps on the condition of a stage that has room: every step that
\* makes room, a release or a raised limit, wakes the waiters.
NoLostWakeup ==
    \A c \in Calls : pc[c] = "waiting" => ~HasRoom(pressure[StageOf[c]])

\* An open circuit closes only in the step in which a call of the same stage
\* gets an answer of the upstream, a validated body or a refusal.  A post that
\* is cancelled, times out, answers with an error that counts, or ends in an
\* exception nobody handles never closes it, though the slot goes idle as well;
\* neither does a call that never posted, nor time.
ClosesOnlyOnAnswer ==
    [][\A s \in Stages : circuit[s].opened /\ ~circuit'[s].opened =>
          /\ cleared'
          /\ \E c \in Calls : StageOf[c] = s /\ pc[c] = "posting" /\ pc'[c] = "idle"]_vars

Gate == INSTANCE CapacityGate WITH
    inside <- {c \in Calls : Holding(c)},
    wire   <- OnWire,
    limit  <- [s \in Stages |-> pressure[s].limit]

\* The calls keep the promise of CapacityGate.
GateSpec == Gate!Spec

\* However often a stage fails, it admits a call again and again.
StageReopens == \A s \in Stages : []<>Admits(circuit[s])

\* However far a limit has shrunk, its stage has room again and again.
CapacityRecurs == \A s \in Stages : []<>HasRoom(pressure[s])
=============================================================================
