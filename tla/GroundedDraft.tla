---------------------------- MODULE GroundedDraft ----------------------------
(***************************************************************************)
(* What may be published of a generated draft (answering/validate.py and   *)
(* the end of GroundedAnswerEngine.answer).                                *)
(*                                                                         *)
(* A claim is what the validator finds out about it: whether its quotes    *)
(* and the policy support it, whether its text carries a quantity, status  *)
(* or action (Tier A or B), whether that text is the exact wording of a    *)
(* quote, and which enumerated sections of the evidence its quotes cite.   *)
(* A draft is the set of its claims: no check depends on their order.      *)
(***************************************************************************)
EXTENDS FiniteSets, Naturals

CONSTANTS
    Claims,    \* the claims a draft may make
    Sections,  \* the sections of a source that enumerates
    MaxWhole   \* bound: the claims that fit into a rendered answer

ASSUME DraftAssumption ==
    /\ Claims \subseteq [supported : BOOLEAN, highRisk : BOOLEAN, exact : BOOLEAN,
                         cites : SUBSET Sections]
    /\ MaxWhole \in Nat

\* The contract of the provider's answer: a grounded draft has a claim.
Drafts == SUBSET Claims \ {{}}

Cited(draft) == UNION {c.cites : c \in draft}

\* validate_draft against a packet that enumerates these sections.
Accepted(draft, sections) ==
    /\ draft # {}
    /\ Cardinality(draft) <= MaxWhole
    /\ \A c \in draft : c.supported
    /\ sections \subseteq Cited(draft)

\* salvage_valid_grounded_claims: the claims to keep, none if nothing can be
\* salvaged.  It only removes claims, at least one, and validates what is left.
Valid(draft, sections) ==
    {c \in draft : (c.highRisk => c.exact) /\ Accepted({c}, sections)}

Salvage(draft, sections) ==
    LET kept == Valid(draft, sections)
    IN  IF kept # draft /\ Accepted(kept, sections) THEN kept ELSE {}

\* Mutant of Publishable: exact wording passes whatever its tier.
PublishableIfExact(draft) == {c \in draft : c.highRisk => c.exact}

\* Generated prose is published only as an ordinary, Tier C explanation.
Publishable(draft) == {c \in draft : ~c.highRisk}
=============================================================================
