----------------------------- MODULE MCAnswering -----------------------------
(* Instances of Answering for TLC. *)
EXTENDS Answering

CONSTANTS s1, s2

TwoSections == {s1, s2}

Claim(supported, highRisk, cites) ==
    [supported |-> supported, highRisk |-> highRisk, exact |-> highRisk, cites |-> cites]

\* One for all sections, one for each of them, the second of which is exact
\* wording of high risk, and one that is not supported.
SomeClaims ==
    {Claim(TRUE, FALSE, {s1, s2}), Claim(TRUE, FALSE, {s1}), Claim(TRUE, TRUE, {s2}),
     Claim(FALSE, FALSE, {s1, s2})}

\* The readings of a question that asks for no source, attributes without a
\* name, is found before it is planned, after, or both times, uses the wording
\* of the corpus for papers to pack or otherwise, or names a source.
SomeReadings ==
    {{}, {"attributed"}, {"found"}, {"held"}, {"found", "held"}, {"wording"},
     {"wording", "attributed"}, {"named", "attributed"}, {"named", "found", "held", "attributed"}}

\* What the readers can find together: only a related question has a lane, a
\* bound question is about the corpus, a guided one is not about general
\* knowledge, and only for a planned one does it matter what is found before.
SomeQuestions ==
    {q \in [route : Routes, lane : Lanes, asksFor : SomeReadings,
            unknown : BOOLEAN, general : BOOLEAN, particular : BOOLEAN, why : BOOLEAN] :
        /\ q.route # "related" => /\ q.lane = "planned" /\ ~q.general /\ ~q.why
                                 /\ q.asksFor \cap {"found", "wording"} = {}
        /\ q.unknown => q.asksFor = {"attributed"} /\ ~q.why
        /\ q.lane # "planned" => ~q.general /\ q.asksFor \cap {"found", "wording"} = {}
        /\ q.lane = "bound" => q.asksFor = {} /\ ~q.why}
=============================================================================
