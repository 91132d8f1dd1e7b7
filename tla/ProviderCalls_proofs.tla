------------------------ MODULE ProviderCalls_proofs ------------------------
(***************************************************************************)
(* Proofs about ProviderCalls, for every number of calls and stages and    *)
(* every setting that config.py accepts.                                   *)
(***************************************************************************)
EXTENDS ProviderCalls, FiniteSetTheorems, TLAPS

\* What a circuit record satisfies after any number of verdicts.
Coherent(k) == k \in Circuit /\ OpenAtThreshold(k) /\ ProbeIsHalfOpen(k)

\* A call that sleeps before a retry has an attempt left.
RetriesLeft == \A c \in Calls : pc[c] = "backoff" => attempt[c] < MaxAttempts

\* The inductive invariant: the counters are typed only because they agree
\* with the calls, and a retry is typed only because an attempt is left.
IInv ==
    /\ TypeOK
    /\ \A s \in Stages : Coherent(circuit[s])
    /\ AccountedFor
    /\ NoLostWakeup
    /\ RetriesLeft
-----------------------------------------------------------------------------
(***************************************************************************)
(* The circuit's methods keep its record coherent.                         *)
(***************************************************************************)
LEMMA ClosedCoherent == Coherent(ClosedCircuit)
  BY CircuitAssumption
     DEF Coherent, Circuit, ClosedCircuit, OpenAtThreshold, ProbeIsHalfOpen

LEMMA AdmitCoherent ==
  ASSUME NEW k, Coherent(k), Admits(k)
  PROVE  Coherent(AfterAdmit(k))
  BY DEF Coherent, Admits, AfterAdmit, Circuit, OpenAtThreshold, ProbeIsHalfOpen

LEMMA FailureCoherent ==
  ASSUME NEW k, Coherent(k), NEW wait \in Nat
  PROVE  Coherent(AfterFailure(k, wait))
<1> DEFINE failures == IF k.failures < FailureThreshold THEN k.failures + 1 ELSE k.failures
<1> DEFINE opens == k.probe \/ k.opened \/ failures >= FailureThreshold
<1>1. failures \in 1..FailureThreshold /\ (k.opened => failures = FailureThreshold)
  BY CircuitAssumption DEF Coherent, Circuit, OpenAtThreshold
<1>2. opens \in BOOLEAN /\ (opens <=> failures = FailureThreshold)
  BY <1>1, CircuitAssumption DEF Coherent, Circuit, ProbeIsHalfOpen
<1>3. Larger(Cooldown, wait) \in Nat
  BY CircuitAssumption DEF Larger
<1>4. PICK remaining \in Nat :
        AfterFailure(k, wait) = [failures  |-> failures, opened |-> opens,
                                 remaining |-> remaining, probe |-> FALSE]
  BY <1>3 DEF AfterFailure, Coherent, Circuit
<1> HIDE DEF failures, opens
<1> QED
  BY <1>1, <1>2, <1>4, CircuitAssumption
     DEF Coherent, Circuit, OpenAtThreshold, ProbeIsHalfOpen

LEMMA AbandonCoherent ==
  ASSUME NEW k, Coherent(k)
  PROVE  Coherent(AfterAbandon(k))
  BY DEF Coherent, AfterAbandon, Circuit, OpenAtThreshold, ProbeIsHalfOpen

LEMMA RefusalCoherent ==
  ASSUME NEW k, Coherent(k)
  PROVE  Coherent(AfterRefusal(k))
  BY ClosedCoherent DEF AfterRefusal

LEMMA TickCoherent ==
  ASSUME NEW k, Coherent(k)
  PROVE  Coherent(AfterTick(k))
  BY DEF Coherent, AfterTick, Circuit, OpenAtThreshold, ProbeIsHalfOpen
-----------------------------------------------------------------------------
(***************************************************************************)
(* The pressure's methods keep its record typed, its limit moves as the    *)
(* gate allows, and its active count is left alone by the verdicts.        *)
(***************************************************************************)
Gated(p, q) == q \in Pressure /\ q.active = p.active /\ q.limit \in Gate!Adjusted(p.limit)

LEMMA UntouchedGated ==
  ASSUME NEW p \in Pressure
  PROVE  Gated(p, p)
  BY PressureAssumption DEF Gated, Pressure, Gate!Adjusted

LEMMA AdjustedGated ==
  ASSUME NEW p \in Pressure, NEW n \in Gate!Adjusted(p.limit), NEW m \in 0..(SuccessWindow - 1)
  PROVE  Gated(p, [p EXCEPT !.limit = n, !.successes = m])
<1>1. n \in MinConcurrency..MaxConcurrency
  BY DEF Gate!Adjusted
<1> QED
  BY <1>1 DEF Gated, Pressure

LEMMA OverloadGated ==
  ASSUME NEW p \in Pressure, NEW kind \in Overload
  PROVE  Gated(p, AfterOverload(p, kind))
<1>1. PICK n \in {p.limit \div 2, p.limit - 1} :
        AfterOverload(p, kind) = [p EXCEPT !.limit = AtLeastFloor(n), !.successes = 0]
  BY DEF AfterOverload, Overload
<1>2. n \in Int /\ n <= MaxConcurrency
  BY PressureAssumption DEF Pressure
<1>3. AtLeastFloor(n) \in MinConcurrency..MaxConcurrency
  BY <1>2, PressureAssumption DEF AtLeastFloor
<1>4. AtLeastFloor(n) \in Gate!Adjusted(p.limit)
  BY <1>1, <1>2, <1>3, PressureAssumption DEF AtLeastFloor, Gate!Adjusted, Pressure
<1>5. 0 \in 0..(SuccessWindow - 1)
  BY PressureAssumption
<1> QED
  BY <1>1, <1>4, <1>5, AdjustedGated

LEMMA ValidatedGated ==
  ASSUME NEW p \in Pressure
  PROVE  Gated(p, AfterValidated(p))
<1>1. /\ p.limit \in Gate!Adjusted(p.limit)
      /\ 0 \in 0..(SuccessWindow - 1)
  BY PressureAssumption DEF Gate!Adjusted, Pressure
<1>3. CASE p.limit >= MaxConcurrency
  <2>1. AfterValidated(p) = [p EXCEPT !.successes = 0]
    BY <1>3, PressureAssumption DEF AfterValidated, Restores, Pressure
  <2> QED
    BY <2>1, <1>1 DEF Gated, Pressure
<1>4. CASE Restores(p)
  <2>1. p.limit + 1 \in Gate!Adjusted(p.limit)
    BY <1>4, PressureAssumption DEF Restores, Gate!Adjusted, Pressure
  <2>2. AfterValidated(p) = [p EXCEPT !.limit = p.limit + 1, !.successes = 0]
    BY <1>4, PressureAssumption DEF AfterValidated, Restores, Pressure
  <2> QED
    BY <2>1, <2>2, <1>1, AdjustedGated
<1>5. CASE p.limit < MaxConcurrency /\ ~Restores(p)
  <2>1. p.successes + 1 \in 0..(SuccessWindow - 1)
    BY <1>5, PressureAssumption DEF Restores, Pressure
  <2>2. AfterValidated(p) = [p EXCEPT !.successes = p.successes + 1]
    BY <1>5, PressureAssumption DEF AfterValidated, Restores, Pressure
  <2> QED
    BY <2>1, <2>2, <1>1 DEF Gated, Pressure
<1> QED
  BY <1>3, <1>4, <1>5, PressureAssumption DEF Pressure
-----------------------------------------------------------------------------
(***************************************************************************)
(* Counting the calls inside a stage and on the wire.                      *)
(***************************************************************************)
LEMMA CountsFinite ==
  /\ \A s : IsFiniteSet(Inside(s))
  /\ IsFiniteSet(OnWire)
  BY CallsAssumption, FS_Subset DEF Inside, OnWire

LEMMA CountIn ==
  ASSUME NEW S, IsFiniteSet(S), NEW c, c \notin S
  PROVE  Cardinality(S \union {c}) = Cardinality(S) + 1 /\ Cardinality(S) \in Nat
  BY FS_AddElement, FS_CardinalityType

LEMMA CountOut ==
  ASSUME NEW S, IsFiniteSet(S), NEW c \in S
  PROVE  /\ Cardinality(S \ {c}) = Cardinality(S) - 1
         /\ Cardinality(S) \in Nat \ {0}
<1>1. IsFiniteSet(S \ {c}) /\ Cardinality(S \ {c}) = Cardinality(S) - 1
  BY FS_RemoveElement
<1>2. Cardinality(S \ {c}) \in Nat /\ Cardinality(S) \in Nat
  BY <1>1, FS_CardinalityType
<1> QED
  BY <1>1, <1>2
-----------------------------------------------------------------------------
(***************************************************************************)
(* The part of the invariant that entering and leaving can disturb.        *)
(***************************************************************************)
CapacityInv ==
    /\ pressure \in [Stages -> Pressure]
    /\ permits \in 0..MaxConcurrency
    /\ pc \in [Calls -> Points]
    /\ AccountedFor
    /\ NoLostWakeup

\* A call that sleeps, or that leaves without holding anything, changes
\* nobody's count.
LEMMA OutsideStep ==
  ASSUME CapacityInv, NEW c \in Calls, ~Holding(c),
         NEW next \in {"idle", "waiting"},
         next = "waiting" => ~HasRoom(pressure[StageOf[c]]),
         pc' = [pc EXCEPT ![c] = next], UNCHANGED <<pressure, permits>>
  PROVE  CapacityInv'
<1>1. pc' \in [Calls -> Points]
  BY DEF CapacityInv, Points
<1>2. \A s \in Stages : Inside(s)' = Inside(s)
  BY DEF CapacityInv, Inside, Holding
<1>3. OnWire' = OnWire
  BY DEF CapacityInv, OnWire, Holding
<1>4. AccountedFor'
  BY <1>2, <1>3 DEF CapacityInv, AccountedFor
<1>5. NoLostWakeup'
  BY DEF CapacityInv, NoLostWakeup
<1> QED
  BY <1>1, <1>4, <1>5 DEF CapacityInv

\* A call enters its stage, and goes to the wire or to the semaphore's queue.
LEMMA EnterStep ==
  ASSUME CapacityInv, NEW c \in Calls, ~Holding(c), HasRoom(pressure[StageOf[c]]),
         pressure' = [pressure EXCEPT ![StageOf[c]] = Acquired(@)],
         \/ pc' = [pc EXCEPT ![c] = "queued"] /\ permits' = permits
         \/ /\ pc' = [pc EXCEPT ![c] = "posting"]
            /\ permits' = permits - 1
            /\ permits > 0
  PROVE  CapacityInv'
<1> DEFINE s == StageOf[c]
<1>1. s \in Stages
  BY CallsAssumption
<1>2. pc' \in [Calls -> Points] /\ permits' \in 0..MaxConcurrency
  BY PressureAssumption DEF CapacityInv, Points
<1>3. /\ Acquired(pressure[s]) \in Pressure
      /\ Acquired(pressure[s]).active = pressure[s].active + 1
  BY <1>1, PressureAssumption DEF CapacityInv, Pressure, Acquired, HasRoom
<1>4. pressure' \in [Stages -> Pressure]
  BY <1>1, <1>3 DEF CapacityInv
<1>5. Inside(s)' = Inside(s) \union {c} /\ c \notin Inside(s)
  BY DEF CapacityInv, Inside, Holding
<1>6. \A t \in Stages \ {s} : Inside(t)' = Inside(t) /\ pressure'[t] = pressure[t]
  BY DEF CapacityInv, Inside, Holding
<1>7. pressure'[s].active = Cardinality(Inside(s)')
  BY <1>1, <1>3, <1>5, CountsFinite, CountIn DEF CapacityInv, AccountedFor
<1>8. permits' = MaxConcurrency - Cardinality(OnWire')
  <2>1. CASE pc' = [pc EXCEPT ![c] = "queued"] /\ permits' = permits
    <3>1. OnWire' = OnWire
      BY <2>1 DEF CapacityInv, OnWire, Holding
    <3> QED
      BY <2>1, <3>1 DEF CapacityInv, AccountedFor
  <2>2. CASE pc' = [pc EXCEPT ![c] = "posting"] /\ permits' = permits - 1
    <3>1. OnWire' = OnWire \union {c} /\ c \notin OnWire
      BY <2>2 DEF CapacityInv, OnWire, Holding
    <3>2. Cardinality(OnWire') = Cardinality(OnWire) + 1 /\ Cardinality(OnWire) \in Nat
      BY <3>1, CountsFinite, CountIn
    <3> QED
      BY <2>2, <3>2, PressureAssumption DEF CapacityInv, AccountedFor
  <2> QED
    BY <2>1, <2>2
<1>9. AccountedFor'
  BY <1>6, <1>7, <1>8 DEF CapacityInv, AccountedFor
<1>10. NoLostWakeup'
  <2> SUFFICES ASSUME NEW d \in Calls, pc'[d] = "waiting"
               PROVE  ~HasRoom(pressure'[StageOf[d]])
    BY DEF NoLostWakeup, HasRoom
  <2>1. pc[d] = "waiting"
    BY DEF CapacityInv
  <2>2. StageOf[d] # s /\ StageOf[d] \in Stages
    BY <2>1, CallsAssumption DEF CapacityInv, NoLostWakeup
  <2> QED
    BY <1>6, <2>1, <2>2 DEF CapacityInv, NoLostWakeup
<1> QED
  BY <1>2, <1>4, <1>9, <1>10 DEF CapacityInv

\* A call leaves its stage: what it held comes back and its waiters wake.
LEMMA LeaveStep ==
  ASSUME CapacityInv, NEW c \in Calls, Holding(c),
         NEW p, Gated(pressure[StageOf[c]], p),
         NEW next \in {"idle", "backoff"},
         pressure' = [pressure EXCEPT ![StageOf[c]] = Released(p)],
         pc' = [NotifyAll(StageOf[c]) EXCEPT ![c] = next],
         permits' = IF pc[c] = "posting" THEN permits + 1 ELSE permits
  PROVE  CapacityInv'
<1> DEFINE s == StageOf[c]
<1>1. s \in Stages
  BY CallsAssumption
<1>2. \A d \in Calls : pc'[d] = IF d = c THEN next
                                ELSE IF StageOf[d] = s /\ pc[d] = "waiting" THEN "woken"
                                ELSE pc[d]
  BY DEF NotifyAll
<1>3. pc' \in [Calls -> Points]
  BY <1>2 DEF CapacityInv, NotifyAll, Points
<1>4. Inside(s)' = Inside(s) \ {c} /\ c \in Inside(s)
  BY <1>2 DEF Inside, Holding
<1>5. \A t \in Stages \ {s} : Inside(t)' = Inside(t) /\ pressure'[t] = pressure[t]
  BY <1>2 DEF CapacityInv, Inside, Holding
<1>6. /\ Cardinality(Inside(s)') = Cardinality(Inside(s)) - 1
      /\ Cardinality(Inside(s)) \in Nat \ {0}
  BY <1>4, CountsFinite, CountOut
<1>7. /\ Released(p) \in Pressure
      /\ Released(p).active = pressure[s].active - 1
  <2>1. pressure[s] \in Pressure /\ pressure[s].active = Cardinality(Inside(s))
    BY <1>1 DEF CapacityInv, AccountedFor
  <2>2. p \in Pressure /\ p.active = pressure[s].active /\ p.active \in 1..MaxConcurrency
    BY <2>1, <1>6, PressureAssumption DEF Gated, Pressure
  <2>3. p.active - 1 \in 0..MaxConcurrency
    BY <2>2, PressureAssumption
  <2> QED
    BY <2>2, <2>3 DEF Pressure, Released
<1>8. pressure' \in [Stages -> Pressure] /\ pressure'[s] = Released(p)
  BY <1>1, <1>7 DEF CapacityInv
<1>9. permits' \in 0..MaxConcurrency /\ permits' = MaxConcurrency - Cardinality(OnWire')
  <2>1. CASE pc[c] = "posting"
    <3>1. OnWire' = OnWire \ {c} /\ c \in OnWire
      BY <1>2, <2>1 DEF OnWire
    <3>2. /\ Cardinality(OnWire') = Cardinality(OnWire) - 1
          /\ Cardinality(OnWire) \in Nat \ {0}
      BY <3>1, CountsFinite, CountOut
    <3> QED
      BY <2>1, <3>2, PressureAssumption DEF CapacityInv, AccountedFor
  <2>2. CASE pc[c] # "posting"
    <3>1. OnWire' = OnWire
      BY <1>2, <2>2 DEF OnWire
    <3> QED
      BY <2>2, <3>1 DEF CapacityInv, AccountedFor
  <2> QED
    BY <2>1, <2>2
<1>10. AccountedFor'
  BY <1>1, <1>5, <1>6, <1>7, <1>8, <1>9 DEF CapacityInv, AccountedFor
<1>11. NoLostWakeup'
  <2> SUFFICES ASSUME NEW d \in Calls, pc'[d] = "waiting"
               PROVE  ~HasRoom(pressure'[StageOf[d]])
    BY DEF NoLostWakeup, HasRoom
  <2>1. pc[d] = "waiting" /\ StageOf[d] # s /\ StageOf[d] \in Stages
    BY <1>2, CallsAssumption
  <2> QED
    BY <1>5, <2>1 DEF CapacityInv, NoLostWakeup
<1> QED
  BY <1>3, <1>8, <1>9, <1>10, <1>11 DEF CapacityInv
-----------------------------------------------------------------------------
(***************************************************************************)
(* The steps of a call, each reduced to one of the lemmas above.           *)
(***************************************************************************)
LEMMA AcquireStep ==
  ASSUME CapacityInv, NEW c \in Calls, ~Holding(c), AcquireStageCapacity(c)
  PROVE  CapacityInv' /\ pc'[c] \in {"waiting", "queued", "posting"}
                      /\ \A d \in Calls \ {c} : pc'[d] = pc[d]
<1>1. CASE ~HasRoom(pressure[StageOf[c]])
  BY <1>1, OutsideStep DEF AcquireStageCapacity, CapacityInv
<1>2. CASE HasRoom(pressure[StageOf[c]])
  <2>1. ~SemaphoreLocked => permits > 0
    BY DEF SemaphoreLocked, CapacityInv
  <2> QED
    BY <1>2, <2>1, EnterStep DEF AcquireStageCapacity, CapacityInv
<1> QED
  BY <1>1, <1>2

LEMMA AttemptStep ==
  ASSUME CapacityInv, NEW c \in Calls, pc[c] = "posting",
         NEW p, Gated(pressure[StageOf[c]], p),
         NEW next \in {"idle", "backoff"}, EndAttempt(c, p, next)
  PROVE  CapacityInv' /\ pc'[c] = next
                      /\ \A d \in Calls \ {c} : pc'[d] = "backoff" => pc[d] = "backoff"
<1>1. CapacityInv'
  BY LeaveStep DEF EndAttempt, Holding
<1> QED
  BY <1>1 DEF EndAttempt, NotifyAll

LEMMA EndCallStep ==
  ASSUME TypeOK, \A s \in Stages : Coherent(circuit[s]),
         NEW c \in Calls, NEW k, Coherent(k), EndCall(c, k)
  PROVE  /\ circuit' \in [Stages -> Circuit]
         /\ \A s \in Stages : Coherent(circuit'[s])
         /\ attempt' \in [Calls -> 1..MaxAttempts]
         /\ prober' \in [Calls -> BOOLEAN]
         /\ \A d \in Calls \ {c} : attempt'[d] = attempt[d]
<1>1. k \in Circuit /\ StageOf[c] \in Stages
  BY CallsAssumption DEF Coherent
<1> QED
  BY <1>1, CallsAssumption DEF TypeOK, EndCall

\* A step after which the call is back with its caller.
LEMMA FinishStep ==
  ASSUME IInv, NEW c \in Calls, NEW k, Coherent(k), EndCall(c, k),
         CapacityInv', pc'[c] = "idle", cleared' \in BOOLEAN,
         \A d \in Calls \ {c} : pc'[d] = "backoff" => pc[d] = "backoff"
  PROVE  IInv'
<1>1. /\ circuit' \in [Stages -> Circuit]
      /\ \A s \in Stages : Coherent(circuit'[s])
      /\ attempt' \in [Calls -> 1..MaxAttempts]
      /\ prober' \in [Calls -> BOOLEAN]
      /\ \A d \in Calls \ {c} : attempt'[d] = attempt[d]
  BY EndCallStep DEF IInv
<1>2. RetriesLeft'
  BY <1>1 DEF IInv, RetriesLeft
<1>3. (\A s \in Stages : Coherent(circuit[s]))'
  BY <1>1 DEF Coherent, OpenAtThreshold, ProbeIsHalfOpen
<1> QED
  BY <1>1, <1>2, <1>3 DEF IInv, TypeOK, CapacityInv

LEMMA AnswerStep ==
  ASSUME IInv, NEW c \in Calls, Answer(c)
  PROVE  IInv'
<1> DEFINE s == StageOf[c]
<1>1. /\ CapacityInv /\ pc[c] = "posting" /\ s \in Stages
      /\ pressure[s] \in Pressure /\ Coherent(circuit[s])
  BY CallsAssumption DEF IInv, TypeOK, CapacityInv, Answer
<1>2. CASE Validated(c)
  BY <1>1, <1>2, ValidatedGated, AttemptStep, ClosedCoherent, FinishStep
     DEF Validated, AfterSuccess
<1>3. CASE Invalid(c)
  BY <1>1, <1>3, UntouchedGated, AttemptStep, FailureCoherent, FinishStep DEF Invalid
<1>4. CASE Refused(c)
  BY <1>1, <1>4, UntouchedGated, AttemptStep, RefusalCoherent, FinishStep DEF Refused
<1>5. CASE Escape(c)
  BY <1>1, <1>5, UntouchedGated, AttemptStep, FinishStep DEF Escape
<1>6. ASSUME NEW kind \in Overload, Overloaded(c, kind)
      PROVE  IInv'
  <2> DEFINE p == AfterOverload(pressure[s], kind)
  <2>1. Gated(pressure[s], p)
    BY <1>1, OverloadGated
  <2>2. CASE /\ attempt[c] < MaxAttempts
             /\ EndAttempt(c, p, "backoff")
             /\ UNCHANGED <<circuit, attempt, prober>>
    <3>1. /\ CapacityInv' /\ pc'[c] = "backoff"
          /\ \A d \in Calls \ {c} : pc'[d] = "backoff" => pc[d] = "backoff"
      BY <1>1, <2>1, <2>2, AttemptStep
    <3>2. RetriesLeft'
      BY <2>2, <3>1 DEF IInv, RetriesLeft
    <3>3. (\A t \in Stages : Coherent(circuit[t]))'
      BY <2>2 DEF IInv, Coherent, OpenAtThreshold, ProbeIsHalfOpen
    <3> QED
      BY <1>6, <2>2, <3>1, <3>2, <3>3 DEF Overloaded, IInv, TypeOK, CapacityInv
  <2>3. CASE \E wait \in RetryAfters :
                EndAttempt(c, p, "idle") /\ EndCall(c, AfterFailure(circuit[s], wait))
    <3>1. PICK wait \in RetryAfters :
             EndAttempt(c, p, "idle") /\ EndCall(c, AfterFailure(circuit[s], wait))
      BY <2>3
    <3>2. wait \in Nat
      BY CircuitAssumption
    <3>3. cleared' \in BOOLEAN
      BY <1>6 DEF Overloaded
    <3> QED
      BY <1>1, <2>1, <3>1, <3>2, <3>3, AttemptStep, FailureCoherent, FinishStep
  <2> QED
    BY <1>6, <2>2, <2>3 DEF Overloaded
<1> QED
  BY <1>2, <1>3, <1>4, <1>5, <1>6 DEF Answer

LEMMA CancelStep ==
  ASSUME IInv, NEW c \in Calls, Cancel(c)
  PROVE  IInv'
<1> DEFINE s == StageOf[c]
<1>1. /\ CapacityInv /\ s \in Stages
      /\ pressure[s] \in Pressure /\ Coherent(AfterAbandon(circuit[s]))
  BY CallsAssumption, AbandonCoherent DEF IInv, TypeOK, CapacityInv
<1>2. /\ CapacityInv' /\ pc'[c] = "idle"
      /\ \A d \in Calls \ {c} : pc'[d] = "backoff" => pc[d] = "backoff"
  <2>1. CASE pc[c] = "posting" /\ EndAttempt(c, pressure[s], "idle")
    BY <1>1, <2>1, UntouchedGated, AttemptStep
  <2>2. CASE /\ pc[c] = "queued"
             /\ pressure' = [pressure EXCEPT ![s] = Released(@)]
             /\ pc' = [NotifyAll(s) EXCEPT ![c] = "idle"]
             /\ UNCHANGED permits
    <3>1. CapacityInv'
      BY <1>1, <2>2, UntouchedGated, LeaveStep DEF Holding, CapacityInv
    <3> QED
      BY <2>2, <3>1 DEF NotifyAll
  <2>3. CASE /\ pc[c] \in {"waiting", "woken", "backoff"}
             /\ pc' = [pc EXCEPT ![c] = "idle"]
             /\ UNCHANGED <<pressure, permits>>
    <3>1. CapacityInv'
      BY <1>1, <2>3, OutsideStep DEF Holding
    <3> QED
      BY <1>1, <2>3, <3>1 DEF CapacityInv
  <2> QED
    BY <2>1, <2>2, <2>3 DEF Cancel
<1> QED
  BY <1>1, <1>2, FinishStep DEF Cancel

LEMMA InitInvariant == Init => IInv
<1> SUFFICES ASSUME Init
             PROVE  IInv
  OBVIOUS
<1>1. ClosedCircuit \in Circuit /\ FullPressure \in Pressure
  BY ClosedCoherent, PressureAssumption DEF Coherent, FullPressure, Pressure
<1>2. TypeOK
  <2>1. circuit \in [Stages -> Circuit] /\ pressure \in [Stages -> Pressure]
    BY <1>1 DEF Init
  <2>2. permits \in 0..MaxConcurrency /\ attempt \in [Calls -> 1..MaxAttempts]
    BY PressureAssumption, CallsAssumption DEF Init
  <2>3. pc \in [Calls -> Points] /\ prober \in [Calls -> BOOLEAN] /\ cleared \in BOOLEAN
    BY DEF Init, Points
  <2> QED
    BY <2>1, <2>2, <2>3 DEF TypeOK
<1>3. (\A s \in Stages : Inside(s) = {}) /\ OnWire = {} /\ Cardinality({}) = 0
  BY FS_EmptySet DEF Init, Inside, OnWire, Holding
<1>4. AccountedFor
  BY <1>3, PressureAssumption DEF Init, AccountedFor, FullPressure
<1> QED
  BY <1>2, <1>4, ClosedCoherent DEF Init, IInv, NoLostWakeup, RetriesLeft

LEMMA NextInvariant == IInv /\ [Next]_vars => IInv'
<1> SUFFICES ASSUME IInv, [Next]_vars
             PROVE  IInv'
  OBVIOUS
<1>1. CapacityInv /\ TypeOK
  BY DEF IInv, TypeOK, CapacityInv
<1>2. CASE UNCHANGED vars
  BY <1>2 DEF IInv, vars, TypeOK, Coherent, OpenAtThreshold, ProbeIsHalfOpen, AccountedFor,
              Inside, OnWire, Holding, NoLostWakeup, HasRoom, RetriesLeft
<1>3. ASSUME NEW c \in Calls, AdmitStage(c)
      PROVE  IInv'
  <2> DEFINE k == AfterAdmit(circuit[StageOf[c]])
  <2>1. /\ CapacityInv' /\ pc'[c] # "backoff"
        /\ \A d \in Calls \ {c} : pc'[d] = pc[d]
    BY <1>1, <1>3, AcquireStep DEF AdmitStage, Holding
  <2>2. StageOf[c] \in Stages /\ Coherent(k)
    BY <1>3, AdmitCoherent, CallsAssumption DEF IInv, AdmitStage
  <2>3. /\ circuit' \in [Stages -> Circuit]
        /\ (\A s \in Stages : Coherent(circuit[s]))'
    BY <1>1, <1>3, <2>2
       DEF IInv, TypeOK, AdmitStage, Coherent, OpenAtThreshold, ProbeIsHalfOpen
  <2>4. prober' \in [Calls -> BOOLEAN] /\ attempt' = attempt /\ cleared' \in BOOLEAN
    BY <1>1, <1>3, <2>2 DEF TypeOK, AdmitStage, Circuit
  <2>5. RetriesLeft'
    BY <2>1, <2>4 DEF IInv, RetriesLeft
  <2> QED
    BY <1>1, <2>1, <2>3, <2>4, <2>5 DEF IInv, TypeOK, CapacityInv
<1>4. ASSUME NEW c \in Calls, Recheck(c) \/ TakePermit(c) \/ Retry(c)
      PROVE  IInv'
  <2>1. CASE TakePermit(c)
    <3>1. /\ pc[c] = "queued" /\ permits > 0 /\ permits' = permits - 1
          /\ pc' = [pc EXCEPT ![c] = "posting"]
          /\ UNCHANGED <<circuit, pressure, attempt, prober>> /\ cleared' = FALSE
      BY <2>1 DEF TakePermit
    <3>2. pc' \in [Calls -> Points] /\ permits' \in 0..MaxConcurrency
      BY <1>1, <3>1, PressureAssumption DEF CapacityInv, Points
    <3>3. \A s \in Stages : Inside(s)' = Inside(s)
      BY <1>1, <3>1 DEF CapacityInv, Inside, Holding
    <3>4. OnWire' = OnWire \union {c} /\ c \notin OnWire
      BY <1>1, <3>1 DEF CapacityInv, OnWire
    <3>5. Cardinality(OnWire') = Cardinality(OnWire) + 1 /\ Cardinality(OnWire) \in Nat
      BY <3>4, CountsFinite, CountIn
    <3>6. AccountedFor'
      BY <1>1, <3>1, <3>3, <3>5, PressureAssumption DEF CapacityInv, AccountedFor
    <3>7. NoLostWakeup' /\ RetriesLeft' /\ (\A s \in Stages : Coherent(circuit[s]))'
      BY <1>1, <3>1 DEF IInv, CapacityInv, NoLostWakeup, HasRoom, RetriesLeft, Coherent,
                        OpenAtThreshold, ProbeIsHalfOpen
    <3> QED
      BY <1>1, <3>1, <3>2, <3>6, <3>7 DEF IInv, TypeOK
  <2>2. CASE Recheck(c) \/ Retry(c)
    <3>1. /\ CapacityInv' /\ pc'[c] # "backoff"
          /\ \A d \in Calls \ {c} : pc'[d] = pc[d]
      BY <1>1, <2>2, AcquireStep DEF Recheck, Retry, Holding
    <3>2. UNCHANGED <<circuit, prober>> /\ cleared' = FALSE
      BY <2>2 DEF Recheck, Retry
    <3>3. /\ attempt' \in [Calls -> 1..MaxAttempts]
          /\ \A d \in Calls \ {c} : attempt'[d] = attempt[d]
      BY <1>1, <2>2, CallsAssumption DEF IInv, TypeOK, RetriesLeft, Recheck, Retry
    <3>4. RetriesLeft' /\ (\A s \in Stages : Coherent(circuit[s]))'
      BY <3>1, <3>2, <3>3 DEF IInv, RetriesLeft, Coherent, OpenAtThreshold, ProbeIsHalfOpen
    <3> QED
      BY <1>1, <3>1, <3>2, <3>3, <3>4 DEF IInv, TypeOK, CapacityInv
  <2> QED
    BY <1>4, <2>1, <2>2
<1>5. ASSUME NEW c \in Calls, Reject(c)
      PROVE  IInv'
  BY <1>2, <1>5 DEF Reject
<1>6. CASE Tick
  <2>1. /\ circuit' \in [Stages -> Circuit]
        /\ (\A s \in Stages : Coherent(circuit[s]))'
    BY <1>6, TickCoherent DEF IInv, Tick, Coherent, OpenAtThreshold, ProbeIsHalfOpen
  <2> QED
    BY <1>6, <2>1 DEF IInv, TypeOK, Tick, AccountedFor, Inside, OnWire, Holding,
                      NoLostWakeup, HasRoom, RetriesLeft
<1> QED
  BY <1>2, <1>3, <1>4, <1>5, <1>6, AnswerStep, CancelStep DEF Next

\* The inductive invariant holds in every reachable state.
THEOREM Invariance == Spec => []IInv
  BY InitInvariant, NextInvariant, PTL DEF Spec

\* Every variable keeps its type: in particular no release takes a stage's
\* active count below zero, whatever is cancelled, and no permit is minted.
THEOREM TypeCorrect == Spec => []TypeOK
  BY Invariance, PTL DEF IInv

\* A circuit is open exactly when its failures have reached the threshold.
THEOREM OpenExactly == Spec => []OpenExactlyAtThreshold
<1>1. IInv => OpenExactlyAtThreshold
  BY DEF IInv, Coherent, OpenExactlyAtThreshold
<1> QED
  BY <1>1, Invariance, PTL

\* The probe flag is up only in the half-open window.
THEOREM HalfOpenProbes == Spec => []ProbeOnlyHalfOpen
<1>1. IInv => ProbeOnlyHalfOpen
  BY DEF IInv, Coherent, ProbeOnlyHalfOpen
<1> QED
  BY <1>1, Invariance, PTL

\* Capacity and permits are given back exactly once, on every path.
THEOREM Accounting == Spec => []AccountedFor
  BY Invariance, PTL DEF IInv

\* No call sleeps on a stage that has room.
THEOREM WakeupsArrive == Spec => []NoLostWakeup
  BY Invariance, PTL DEF IInv
-----------------------------------------------------------------------------
(***************************************************************************)
(* What a step does to a circuit and to where the calls are.               *)
(***************************************************************************)

\* A verdict on a call of one stage leaves the other stages' circuits alone,
\* and nobody else's call ends with it.
LEMMA EndCallOthers ==
  ASSUME TypeOK, NEW c \in Calls, NEW k, EndCall(c, k)
  PROVE  /\ circuit'[StageOf[c]] = k
         /\ \A s \in Stages \ {StageOf[c]} : circuit'[s] = circuit[s]
         /\ \A d \in Calls \ {c} : prober'[d] = prober[d]
  BY CallsAssumption DEF TypeOK, EndCall

LEMMA OthersStay ==
  ASSUME TypeOK, NEW c \in Calls, NEW p, NEW next,
         \/ EndAttempt(c, p, next)
         \/ AcquireStageCapacity(c)
         \/ TakePermit(c)
         \/ Cancel(c)
  PROVE  \A d \in Calls \ {c} : pc'[d] = "idle" => pc[d] = "idle"
  BY DEF TypeOK, EndAttempt, NotifyAll, AcquireStageCapacity, TakePermit, Cancel

\* An answered call either ends, with a verdict that lowers the probe flag
\* unless an exception escaped, or goes to sleep before its next attempt.
LEMMA AnswerVerdict ==
  ASSUME IInv, NEW c \in Calls, Answer(c), "escape" \notin Outcomes
  PROVE  \/ /\ UNCHANGED <<circuit, prober>>
            /\ pc'[c] = "backoff"
         \/ \E k : EndCall(c, k) /\ k.probe = FALSE /\ pc'[c] = "idle"
<1> DEFINE s == StageOf[c]
<1>1. s \in Stages /\ circuit[s] \in Circuit /\ pc \in [Calls -> Points]
  BY CallsAssumption DEF IInv, TypeOK
<1>2. \A p, next : EndAttempt(c, p, next) => pc'[c] = next
  BY DEF EndAttempt, NotifyAll
<1>3. CASE Validated(c)
  BY <1>2, <1>3 DEF Validated, AfterSuccess, ClosedCircuit
<1>4. CASE Invalid(c)
  BY <1>2, <1>4 DEF Invalid, AfterFailure
<1>5. CASE Refused(c)
  BY <1>1, <1>2, <1>5 DEF Refused, AfterRefusal, ClosedCircuit, Circuit
<1>6. ASSUME NEW kind \in Overload, Overloaded(c, kind)
      PROVE  \/ UNCHANGED <<circuit, prober>> /\ pc'[c] = "backoff"
             \/ \E k : EndCall(c, k) /\ k.probe = FALSE /\ pc'[c] = "idle"
  BY <1>2, <1>6 DEF Overloaded, AfterFailure
<1> QED
  BY <1>3, <1>4, <1>5, <1>6 DEF Answer

LEMMA ProbeOwnedStep ==
  ASSUME IInv, ProbeFlagOwned, Next, "escape" \notin Outcomes
  PROVE  ProbeFlagOwned'
<1> SUFFICES ASSUME NEW s \in Stages, circuit'[s].probe
             PROVE  \E c \in Calls : StageOf[c] = s /\ pc'[c] # "idle" /\ prober'[c]
  BY DEF ProbeFlagOwned
<1>1. TypeOK /\ circuit[s] \in Circuit /\ Coherent(circuit[s])
  BY DEF IInv, TypeOK
<1> DEFINE Owner(c) == StageOf[c] = s /\ pc[c] # "idle" /\ prober[c]
<1>2. circuit[s].probe => \E c \in Calls : Owner(c)
  BY DEF ProbeFlagOwned
\* The owner stays the owner unless the step ends its call.
<1>3. ASSUME NEW c \in Calls, circuit[s].probe,
             \A d \in Calls \ {c} : pc'[d] = "idle" => pc[d] = "idle",
             \A d \in Calls \ {c} : prober'[d] = prober[d],
             Owner(c) => pc'[c] # "idle" /\ prober'[c]
      PROVE  \E d \in Calls : StageOf[d] = s /\ pc'[d] # "idle" /\ prober'[d]
  BY <1>2, <1>3
\* A verdict with the flag down cannot be on s.
<1>4. ASSUME NEW c \in Calls, NEW k, EndCall(c, k), k.probe = FALSE,
             \A d \in Calls \ {c} : pc'[d] = "idle" => pc[d] = "idle"
      PROVE  \E d \in Calls : StageOf[d] = s /\ pc'[d] # "idle" /\ prober'[d]
  <2>1. StageOf[c] # s /\ circuit'[s] = circuit[s]
    BY <1>1, <1>4, EndCallOthers
  <2>2. \A d \in Calls \ {c} : prober'[d] = prober[d]
    BY <1>1, <1>4, EndCallOthers
  <2> QED
    BY <1>3, <1>4, <2>1, <2>2
<1>5. ASSUME NEW c \in Calls, AdmitStage(c)
      PROVE  \E d \in Calls : StageOf[d] = s /\ pc'[d] # "idle" /\ prober'[d]
  <2>1. /\ pc[c] = "idle" /\ pc'[c] # "idle"
        /\ \A d \in Calls \ {c} : pc'[d] = pc[d] /\ prober'[d] = prober[d]
    BY <1>1, <1>5 DEF AdmitStage, AcquireStageCapacity, TypeOK
  <2>2. CASE StageOf[c] = s /\ circuit[s].opened
    <3>1. prober'[c]
      BY <1>1, <1>5, <2>2 DEF AdmitStage, TypeOK
    <3> QED
      BY <2>1, <2>2, <3>1
  <2>3. CASE ~(StageOf[c] = s /\ circuit[s].opened)
    <3>1. circuit'[s] = circuit[s]
      BY <1>1, <1>5, <2>3, CallsAssumption DEF AdmitStage, AfterAdmit, TypeOK
    <3> QED
      BY <1>3, <2>1, <3>1
  <2> QED
    BY <2>2, <2>3
<1>6. ASSUME NEW c \in Calls, Recheck(c) \/ TakePermit(c) \/ Retry(c)
      PROVE  \E d \in Calls : StageOf[d] = s /\ pc'[d] # "idle" /\ prober'[d]
  <2>1. UNCHANGED <<circuit, prober>>
    BY <1>6 DEF Recheck, TakePermit, Retry
  <2>2. pc'[c] # "idle"
    BY <1>1, <1>6 DEF Recheck, TakePermit, Retry, AcquireStageCapacity, TypeOK
  <2>3. \A d \in Calls \ {c} : pc'[d] = "idle" => pc[d] = "idle"
    BY <1>1, <1>6, OthersStay DEF Recheck, Retry
  <2> QED
    BY <1>3, <2>1, <2>2, <2>3
<1>7. ASSUME NEW c \in Calls, Answer(c)
      PROVE  \E d \in Calls : StageOf[d] = s /\ pc'[d] # "idle" /\ prober'[d]
  <2>1. \A d \in Calls \ {c} : pc'[d] = "idle" => pc[d] = "idle"
    BY <1>1, <1>7, OthersStay
       DEF Answer, Validated, Invalid, Refused, Overloaded, Escape
  <2>2. CASE UNCHANGED <<circuit, prober>> /\ pc'[c] = "backoff"
    BY <1>3, <2>1, <2>2
  <2>3. CASE \E k : EndCall(c, k) /\ k.probe = FALSE /\ pc'[c] = "idle"
    BY <1>4, <2>1, <2>3
  <2> QED
    BY <1>7, <2>2, <2>3, AnswerVerdict
<1>8. ASSUME NEW c \in Calls, Cancel(c)
      PROVE  \E d \in Calls : StageOf[d] = s /\ pc'[d] # "idle" /\ prober'[d]
  <2>1. \A d \in Calls \ {c} : pc'[d] = "idle" => pc[d] = "idle"
    BY <1>1, <1>8, OthersStay
  <2>2. circuit[StageOf[c]] \in Circuit
    BY <1>1, CallsAssumption DEF TypeOK
  <2>3. AfterAbandon(circuit[StageOf[c]]).probe = FALSE
    BY <2>2 DEF AfterAbandon, Circuit
  <2> QED
    BY <1>4, <1>8, <2>1, <2>3 DEF Cancel
<1>9. CASE Tick \/ UNCHANGED vars
  <2>1. circuit'[s].probe = circuit[s].probe /\ UNCHANGED <<pc, prober>>
    BY <1>1, <1>9 DEF Tick, AfterTick, vars, Circuit
  <2> QED
    BY <1>2, <2>1
<1> QED
  BY <1>5, <1>6, <1>7, <1>8, <1>9 DEF Next, Reject

\* While a stage turns callers away for a probe, that probe is on its way,
\* provided no exception escapes the handlers of _post.
THEOREM ProbesAreOwned ==
  ASSUME "escape" \notin Outcomes
  PROVE  Spec => []ProbeFlagOwned
<1>1. Init => ProbeFlagOwned
  BY DEF Init, ProbeFlagOwned, ClosedCircuit
<1>2. IInv /\ ProbeFlagOwned /\ [Next]_vars => ProbeFlagOwned'
  <2>1. ProbeFlagOwned /\ UNCHANGED vars => ProbeFlagOwned'
    BY DEF ProbeFlagOwned, vars
  <2> QED
    BY <2>1, ProbeOwnedStep
<1> QED
  BY <1>1, <1>2, Invariance, PTL DEF Spec
-----------------------------------------------------------------------------
\* An open circuit closes only on an answer that is not a failure: neither a
\* cancelled, a timed-out nor an escaped post closes it, nor does time.
THEOREM ClosingNeedsAnswer == Spec => ClosesOnlyOnAnswer
<1> DEFINE Answered(s) ==
      /\ cleared'
      /\ \E c \in Calls : StageOf[c] = s /\ pc[c] = "posting" /\ pc'[c] = "idle"
<1>1. ASSUME IInv, [Next]_vars, NEW s \in Stages, circuit[s].opened, ~circuit'[s].opened
      PROVE  Answered(s)
  <2>1. TypeOK /\ circuit[s] \in Circuit /\ Coherent(circuit[s])
    BY <1>1 DEF IInv, TypeOK
  <2>2. ASSUME NEW c \in Calls, AdmitStage(c)
        PROVE  circuit'[s].opened
    BY <1>1, <2>1, <2>2, CallsAssumption DEF TypeOK, AdmitStage, AfterAdmit, Circuit
\* A verdict that leaves an opened circuit opened is none of those that close it.
  <2>3. ASSUME NEW c \in Calls, NEW k, EndCall(c, k), circuit[StageOf[c]].opened => k.opened
        PROVE  circuit'[s].opened
    BY <1>1, <2>1, <2>3, EndCallOthers
  <2>4. ASSUME NEW c \in Calls
        PROVE  circuit[StageOf[c]] \in Circuit
    BY <2>1, CallsAssumption DEF TypeOK
  <2>5. ASSUME NEW c \in Calls, Cancel(c)
        PROVE  circuit'[s].opened
    <3>1. circuit[StageOf[c]].opened => AfterAbandon(circuit[StageOf[c]]).opened
      BY <2>4 DEF AfterAbandon, Circuit
    <3> QED
      BY <2>3, <2>5, <3>1 DEF Cancel
  <2>6. ASSUME NEW c \in Calls, Answer(c)
        PROVE  Answered(s)
    <3>1. ASSUME NEW wait
          PROVE  circuit[StageOf[c]].opened => AfterFailure(circuit[StageOf[c]], wait).opened
      BY <2>4 DEF AfterFailure
    <3>2. ~Invalid(c)
      BY <1>1, <2>3, <3>1 DEF Invalid
    <3>3. ~Escape(c)
      BY <1>1, <2>3 DEF Escape
    <3>4. \A kind : ~Overloaded(c, kind)
      BY <1>1, <2>3, <3>1 DEF Overloaded
    <3>5. pc[c] = "posting" /\ (Validated(c) \/ Refused(c))
      BY <2>6, <3>2, <3>3, <3>4 DEF Answer
    <3>6. cleared' /\ pc'[c] = "idle" /\ \E k : EndCall(c, k)
      BY <2>1, <3>5 DEF Validated, Refused, EndAttempt, NotifyAll, TypeOK
    <3>7. StageOf[c] = s
      BY <1>1, <2>1, <3>6, EndCallOthers
    <3> QED
      BY <3>5, <3>6, <3>7
  <2>7. CASE Tick \/ UNCHANGED vars
    BY <1>1, <2>1, <2>7 DEF Tick, AfterTick, vars, Circuit
  <2> QED
    BY <1>1, <2>2, <2>5, <2>6, <2>7 DEF Next, Reject, Recheck, TakePermit, Retry
<1>2. IInv /\ [Next]_vars
        => [\A s \in Stages : circuit[s].opened /\ ~circuit'[s].opened => Answered(s)]_vars
  BY <1>1
<1> QED
  BY <1>2, Invariance, PTL DEF Spec, ClosesOnlyOnAnswer
-----------------------------------------------------------------------------
(***************************************************************************)
(* The refinement: every step of a call enters, dispatches, leaves, or     *)
(* stutters, as CapacityGate allows.                                       *)
(***************************************************************************)
HeldCalls == {c \in Calls : Holding(c)}
Limits == [s \in Stages |-> pressure[s].limit]

LEMMA GateInStage ==
  ASSUME NEW s
  PROVE  Gate!InStage(s) = Inside(s)
  BY DEF Gate!InStage, Inside

LEMMA LimitsOnly ==
  ASSUME TypeOK, NEW s \in Stages, NEW p, pressure' = [pressure EXCEPT ![s] = p]
  PROVE  Limits' = [Limits EXCEPT ![s] = p.limit]
  BY DEF Limits, TypeOK

LEMMA GateCardinality ==
  ASSUME NEW S
  PROVE  Gate!Cardinality(S) = Cardinality(S)
  BY DEF Gate!Cardinality, Cardinality

LEMMA WireRoom ==
  ASSUME IInv, permits > 0
  PROVE  Gate!WireHasRoom
<1>1. Cardinality(OnWire) \in Nat
  BY CountsFinite, FS_CardinalityType
<1>2. permits = MaxConcurrency - Cardinality(OnWire)
  BY DEF IInv, AccountedFor
<1>3. Cardinality(OnWire) < MaxConcurrency
  BY <1>1, <1>2, PressureAssumption
<1> QED
  BY <1>3, GateCardinality DEF Gate!WireHasRoom

LEMMA AcquireRefines ==
  ASSUME IInv, NEW c \in Calls, ~Holding(c), AcquireStageCapacity(c)
  PROVE  Gate!Enter(c) \/ UNCHANGED Gate!gateVars
<1> DEFINE s == StageOf[c]
<1>1. s \in Stages /\ TypeOK /\ pressure[s] \in Pressure
  BY CallsAssumption DEF IInv, TypeOK
<1>2. CASE /\ pc' = [pc EXCEPT ![c] = "waiting"]
           /\ UNCHANGED <<pressure, permits>>
  <2>1. HeldCalls' = HeldCalls /\ OnWire' = OnWire /\ Limits' = Limits
    BY <1>1, <1>2 DEF HeldCalls, OnWire, Limits, Holding, TypeOK
  <2> QED
    BY <2>1 DEF Gate!gateVars, HeldCalls, Limits
<1>3. CASE /\ HasRoom(pressure[s])
           /\ pressure' = [pressure EXCEPT ![s] = Acquired(@)]
           /\ \/ pc' = [pc EXCEPT ![c] = "queued"]
              \/ permits > 0 /\ pc' = [pc EXCEPT ![c] = "posting"]
  <2>1. HeldCalls' = HeldCalls \union {c} /\ c \notin HeldCalls
    BY <1>1, <1>3 DEF HeldCalls, Holding, TypeOK
  <2>2. \/ OnWire' = OnWire
        \/ Gate!WireHasRoom /\ OnWire' = OnWire \union {c}
    BY <1>1, <1>3, WireRoom DEF OnWire, Holding, TypeOK
  <2>3. Acquired(pressure[s]).limit = pressure[s].limit
    BY <1>1 DEF Acquired, Pressure
  <2>4. Limits' = Limits
    BY <1>1, <1>3, <2>3, LimitsOnly DEF Limits
  <2>5. Cardinality(Gate!InStage(s)) < Limits[s]
    BY <1>1, <1>3, GateInStage DEF IInv, AccountedFor, HasRoom, Limits
  <2> QED
    BY <2>1, <2>2, <2>4, <2>5, GateCardinality DEF Gate!Enter, HeldCalls, Limits
<1>4. ~SemaphoreLocked => permits > 0
  BY <1>1 DEF SemaphoreLocked, TypeOK
<1> QED
  BY <1>2, <1>3, <1>4 DEF AcquireStageCapacity

LEMMA LeaveRefines ==
  ASSUME IInv, NEW c \in Calls, Holding(c),
         NEW p, Gated(pressure[StageOf[c]], p),
         NEW next \in {"idle", "backoff"},
         pressure' = [pressure EXCEPT ![StageOf[c]] = Released(p)],
         pc' = [NotifyAll(StageOf[c]) EXCEPT ![c] = next]
  PROVE  Gate!Leave(c)
<1> DEFINE s == StageOf[c]
<1>1. s \in Stages /\ TypeOK
  BY CallsAssumption DEF IInv
<1>2. HeldCalls' = HeldCalls \ {c} /\ OnWire' = OnWire \ {c} /\ c \in HeldCalls
  BY <1>1 DEF HeldCalls, OnWire, Holding, NotifyAll, TypeOK
<1>3. Released(p).limit = p.limit
  BY DEF Released, Gated, Pressure
<1>4. Limits' = [Limits EXCEPT ![s] = p.limit]
  BY <1>1, <1>3, LimitsOnly
<1>5. p.limit \in Gate!Adjusted(Limits[s])
  BY <1>1 DEF Gated, Limits
<1> QED
  BY <1>2, <1>4, <1>5 DEF Gate!Leave, HeldCalls, Limits

LEMMA StepRefines ==
  ASSUME IInv, [Next]_vars
  PROVE  [Gate!Next]_Gate!gateVars
<1>1. TypeOK
  BY DEF IInv
<1>2. ASSUME NEW c \in Calls, AdmitStage(c) \/ Recheck(c) \/ Retry(c)
      PROVE  Gate!Enter(c) \/ UNCHANGED Gate!gateVars
  BY <1>2, AcquireRefines DEF AdmitStage, Recheck, Retry, Holding
<1>3. ASSUME NEW c \in Calls, TakePermit(c)
      PROVE  Gate!Dispatch(c)
  <2>1. /\ HeldCalls' = HeldCalls /\ c \in HeldCalls /\ c \notin OnWire
        /\ OnWire' = OnWire \union {c} /\ Limits' = Limits
    BY <1>1, <1>3 DEF TakePermit, HeldCalls, OnWire, Limits, Holding, TypeOK
  <2> QED
    BY <1>3, <2>1, WireRoom DEF Gate!Dispatch, TakePermit, HeldCalls, Limits
<1>4. ASSUME NEW c \in Calls, Answer(c)
      PROVE  Gate!Leave(c)
  <2>1. pressure[StageOf[c]] \in Pressure /\ Holding(c)
    BY <1>1, <1>4, CallsAssumption DEF TypeOK, Answer, Holding
  <2>2. ASSUME NEW p, Gated(pressure[StageOf[c]], p), NEW next \in {"idle", "backoff"},
               EndAttempt(c, p, next)
        PROVE  Gate!Leave(c)
    BY <2>1, <2>2, LeaveRefines DEF EndAttempt
  <2> QED
    BY <1>4, <2>1, <2>2, UntouchedGated, ValidatedGated, OverloadGated
       DEF Answer, Validated, Invalid, Refused, Overloaded, Escape
<1>5. ASSUME NEW c \in Calls, Cancel(c)
      PROVE  Gate!Leave(c) \/ UNCHANGED Gate!gateVars
  <2>1. pressure[StageOf[c]] \in Pressure /\ Gated(pressure[StageOf[c]], pressure[StageOf[c]])
    BY <1>1, UntouchedGated, CallsAssumption DEF TypeOK
  <2>2. CASE Holding(c)
    BY <1>5, <2>1, <2>2, LeaveRefines DEF Cancel, EndAttempt, Holding
  <2>3. CASE ~Holding(c)
    <3>1. HeldCalls' = HeldCalls /\ OnWire' = OnWire /\ Limits' = Limits
      BY <1>1, <1>5, <2>3 DEF Cancel, HeldCalls, OnWire, Limits, Holding, TypeOK
    <3> QED
      BY <3>1 DEF Gate!gateVars, HeldCalls, Limits
  <2> QED
    BY <2>2, <2>3
<1>6. CASE UNCHANGED <<pressure, pc>>
  BY <1>6 DEF Gate!gateVars, Holding, OnWire
<1> QED
  BY <1>2, <1>3, <1>4, <1>5, <1>6 DEF Next, Gate!Next, Reject, Tick, vars

\* The provider keeps the load promise of CapacityGate to its upstream.
THEOREM KeepsGate == Spec => GateSpec
<1>1. Init => Gate!Init
  <2> SUFFICES ASSUME Init
               PROVE  Gate!Init
    OBVIOUS
  <2>1. HeldCalls = {} /\ OnWire = {}
    BY DEF Init, HeldCalls, OnWire, Holding
  <2>2. Limits = [s \in Stages |-> MaxConcurrency]
    BY DEF Init, Limits, FullPressure
  <2> QED
    BY <2>1, <2>2 DEF Gate!Init, HeldCalls, Limits
<1>2. IInv /\ [Next]_vars => [Gate!Next]_Gate!gateVars
  BY StepRefines
<1> QED
  BY <1>1, <1>2, Invariance, PTL DEF Spec, GateSpec, Gate!Spec
=============================================================================
