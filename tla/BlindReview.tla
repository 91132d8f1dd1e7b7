----------------------------- MODULE BlindReview ----------------------------
(***************************************************************************)
(* What a blind review session promises, without files or processes: every *)
(* actor is shown every case once and rules on it once, having first said  *)
(* that it saw the display; a reviewer sees nobody's ruling; the           *)
(* adjudicator sees the rulings of reviewers who can no longer change      *)
(* them; an actor that closed its review adds nothing to it.               *)
(***************************************************************************)
EXTENDS Naturals

CONSTANTS Reviewers, Adjudicator, Cases, Verdicts

Actors == Reviewers \union {Adjudicator}

VARIABLES
    rulings,  \* the <<case, verdict>> pairs of each actor
    screen,   \* the displays an actor has open: none, or one
    closed    \* the actors whose review is over

reviewVars == <<rulings, screen, closed>>

Ruled(a, c) == \E v \in Verdicts : <<c, v>> \in rulings[a]

Display(c, shown, seen) == [case |-> c, shown |-> shown, seen |-> seen]

\* What actor a is shown beside the case itself.
RulingsOn(a, c) ==
    IF a = Adjudicator
    THEN {p \in Reviewers \X Verdicts : <<c, p[2]>> \in rulings[p[1]]}
    ELSE {}

Init ==
    /\ rulings = [a \in Actors |-> {}]
    /\ screen = [a \in Actors |-> {}]
    /\ closed = {}

Show(a, c) ==
    /\ a \notin closed /\ screen[a] = {} /\ ~Ruled(a, c)
    /\ a = Adjudicator => Reviewers \subseteq closed
    /\ screen' = [screen EXCEPT ![a] = {Display(c, RulingsOn(a, c), FALSE)}]
    /\ UNCHANGED <<rulings, closed>>

See(a) ==
    /\ \E d \in screen[a] :
          /\ ~d.seen
          /\ screen' = [screen EXCEPT ![a] = {[d EXCEPT !.seen = TRUE]}]
    /\ UNCHANGED <<rulings, closed>>

Rule(a, v) ==
    /\ \E d \in screen[a] :
          /\ d.seen
          /\ rulings' = [rulings EXCEPT ![a] = @ \union {<<d.case, v>>}]
    /\ screen' = [screen EXCEPT ![a] = {}]
    /\ UNCHANGED closed

Close(a) ==
    /\ a \notin closed
    /\ \A c \in Cases : Ruled(a, c)
    /\ closed' = closed \union {a}
    /\ UNCHANGED <<rulings, screen>>

Next ==
    \E a \in Actors :
        \/ \E c \in Cases : Show(a, c)
        \/ See(a)
        \/ \E v \in Verdicts : Rule(a, v)
        \/ Close(a)

Spec == Init /\ [][Next]_reviewVars
=============================================================================
