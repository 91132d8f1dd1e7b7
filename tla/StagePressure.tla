---------------------------- MODULE StagePressure ---------------------------
(***************************************************************************)
(* The adaptive concurrency limit of one provider stage: the               *)
(* StagePressureState record of openrouter_support.py and what the methods *)
(* of OpenRouterProvider do to it under its condition's lock.  Additive    *)
(* increase after SuccessWindow validated answers, halving on a 429, one   *)
(* less on a timeout or an unavailable upstream.                           *)
(***************************************************************************)
EXTENDS Integers

CONSTANTS
    MaxConcurrency,  \* config.provider_max_concurrency
    MinConcurrency,  \* config.provider_adaptive_min_concurrency
    SuccessWindow    \* config.provider_adaptive_success_window

ASSUME PressureAssumption ==
    /\ MaxConcurrency \in Nat
    /\ MinConcurrency \in 1..MaxConcurrency
    /\ SuccessWindow \in Nat \ {0}

\* The error kinds that say the upstream is overloaded: RATE_LIMIT, and
\* TIMEOUT or UNAVAILABLE.
Overload == {"rate_limit", "outage"}

Pressure ==
    [limit     : MinConcurrency..MaxConcurrency,
     active    : 0..MaxConcurrency,
     successes : 0..(SuccessWindow - 1)]

FullPressure == [limit |-> MaxConcurrency, active |-> 0, successes |-> 0]

\* Mutant of HasRoom: off by one.
HasRoomForOneMore(p) == p.active <= p.limit

HasRoom(p) == p.active < p.limit

Acquired(p) == [p EXCEPT !.active = @ + 1]

\* The code also guards against active < 0; AccountedFor in ProviderCalls
\* says the guard never fires.
Released(p) == [p EXCEPT !.active = @ - 1]

\* Mutant of AtLeastFloor: no floor.
NoFloor(n) == n

AtLeastFloor(n) == IF n > MinConcurrency THEN n ELSE MinConcurrency

AfterOverload(p, kind) ==
    [p EXCEPT !.limit = AtLeastFloor(IF kind = "rate_limit" THEN @ \div 2 ELSE @ - 1),
              !.successes = 0]

Restores(p) == p.limit < MaxConcurrency /\ p.successes + 1 >= SuccessWindow

AfterValidated(p) ==
    CASE p.limit >= MaxConcurrency -> [p EXCEPT !.successes = 0]
      [] Restores(p)               -> [p EXCEPT !.limit = @ + 1, !.successes = 0]
      [] OTHER                     -> [p EXCEPT !.successes = @ + 1]
=============================================================================
