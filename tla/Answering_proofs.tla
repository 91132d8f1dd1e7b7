-------------------------- MODULE Answering_proofs --------------------------
(***************************************************************************)
(* Proofs about Answering, for all claims, sections and questions, and     *)
(* with one cycle of search or two.                                        *)
(***************************************************************************)
EXTENDS Answering, TLAPS

Required == {"plan", "embed", "rerank"}
Evident == {"grounded", "partial", "conflict"}

\* A search that lost a call is not complete, and what is not complete never
\* comes to a draft or to evidence.
Honest ==
    /\ failed \cap Required # {} => ~complete
    /\ at \in {"asked", "plan"} => complete
    /\ at \in {"embed", "rerank"} /\ cycle = 1 => complete
    /\ ~complete => at \notin {"generate", "repair"} /\ response.kind \notin Evident

\* Where a question stands bounds what it has cost so far.
Cost ==
    /\ at \in {"asked", "plan"} => calls = 0 /\ packet = {} /\ cycle = 1
    /\ at = "embed" => calls <= 2 * cycle - 1
    /\ at = "rerank" => calls <= 2 * cycle
    /\ at \in {"found", "generate"} => calls <= 2 * cycle + 1
    /\ at = "repair" => calls <= 2 * cycle + 2
    /\ at = "background" => calls <= 2 * cycle + 3
    /\ calls <= 2 * cycle + 4
    /\ at \in {"generate", "repair"} => packet # {}
    /\ at \in {"found", "background"} /\ packet = {} => calls <= 1
    /\ at = "done" /\ packet = {} => calls <= 2
    /\ cycle = 2 => Adaptive

\* Who may be told general knowledge.
Entitled ==
    /\ Explicit \/ question.particular => plan.route = "tangent"
    /\ question.asksFor \cap {"found", "wording"} # {} =>
           packet # {} \/ plan.mixed \/ question.route = "tangent"

Guarded ==
    /\ "plan" \notin failed =>
          /\ at = "background" \/ response.kind = "background" => Entitled
          /\ at = "found" /\ packet = {} => plan.route # "related"
    /\ at \in {"asked", "plan"} => plan.route = question.route
    /\ plan.route = "tangent" /\ question.asksFor \cap {"found", "wording"} # {} =>
           plan.mixed \/ question.route = "tangent"

\* Nothing is shown before the end.
Silent == at # "done" => response = Nothing

\* The evidence answers the question; or it answers a part of it, at least,
\* which is what it takes to ask for a draft.
Answerable == \A p \in packet : Support(p).status = "answerable"
Sufficient == \A p \in packet : Support(p).status \in {"partial", "answerable"}
Drafting == at \in {"generate", "repair"} => Sufficient

IInv ==
    /\ TypeOK /\ Silent /\ Honest /\ Cost /\ Guarded /\ Drafting
    /\ PublishedStands /\ PartialIsSaid
-----------------------------------------------------------------------------
(***************************************************************************)
(* How a step may come to an answer.                                       *)
(***************************************************************************)
\* It says something that is not of a draft,
Says ==
    \E kind \in Kinds \ {"background"} :
        /\ at' = "done" /\ draft' = {} /\ handoff' = handoff
        /\ response' = [kind |-> kind, claims |-> {}, of |-> {}]
        /\ kind \in Evident => complete
        /\ kind = "grounded" => plan.relation = "adjacent" \/ Answerable

\* leaves the answer to general knowledge,
Leaves ==
    /\ at' = "background" /\ draft' = {} /\ response' = response
    /\ handoff' \in BOOLEAN
    /\ ~Explicit /\ ~question.particular

\* asks for a draft,
Drafted ==
    /\ at' = "generate"
    /\ complete /\ Sufficient
    /\ UNCHANGED <<response, handoff, draft>>

\* or publishes one.
Stands(r) ==
    /\ r.claims # {}
    /\ \A c \in r.claims : c.supported /\ ~c.highRisk
    /\ TheSections \subseteq Cited({c \in r.of : c.highRisk} \cup r.claims)
    /\ r.kind = "grounded" => \A c \in r.of \ r.claims : c.highRisk

Publishes ==
    /\ at' = "done" /\ draft' = {} /\ handoff' = handoff
    /\ response' \in [kind : {"grounded", "partial"}, claims : SUBSET Claims, of : SUBSET Claims]
    /\ Stands(response')
    /\ response'.kind = "grounded" => ~IsPartial

LEMMA CompilesSays ==
  ASSUME NEW force, Compiles(force), complete, force \/ plan.relation = "adjacent" \/ Answerable
  PROVE  Says
<1>1. PICK kind \in {"grounded", "partial"} :
         Respond(Labelled(kind, force), {}, {}) /\ handoff' = handoff
  BY DEF Compiles, Say
<1>2. Labelled(kind, force) \in {"grounded", "partial"}
      /\ (Labelled(kind, force) = "grounded" => ~force)
  BY DEF Labelled
<1> QED
  BY <1>1, <1>2 DEF Says, Respond, Kinds

LEMMA SaySays ==
  ASSUME NEW kind \in Kinds \ {"background", "grounded"}, Say(kind), UNCHANGED handoff,
         kind \in Evident => complete
  PROVE  Says
  BY DEF Says, Say, Respond

LEMMA WithoutClaimsMoves ==
  ASSUME NEW kind \in {"handoff", "sources"}, WithoutClaims(kind)
  PROVE  Says \/ Leaves
<1>1. CASE FallsBack
  BY <1>1 DEF WithoutClaims, FallsBack, Background, Leaves
<1>2. CASE ~FallsBack
  <2>1. Say(kind) /\ UNCHANGED handoff
    BY <1>2 DEF WithoutClaims
  <2> QED
    BY <2>1, SaySays DEF Kinds, Evident
<1> QED
  BY <1>1, <1>2

LEMMA CompilesOrMoves ==
  ASSUME NEW kind \in {"handoff", "sources"}, NEW force, CompilesOr(force, kind), complete,
         force \/ plan.relation = "adjacent" \/ Answerable
  PROVE  Says \/ Leaves
  BY CompilesSays, WithoutClaimsMoves DEF CompilesOr

LEMMA UnlessDeclinedMoves ==
  ASSUME NEW force, NEW withPacket \in BOOLEAN, CompilesUnlessDeclined(force, withPacket), complete,
         force \/ plan.relation = "adjacent" \/ Answerable,
         ~Explicit, ~question.particular
  PROVE  Says \/ Leaves
<1>1. CASE Compiles(force)
  BY <1>1, CompilesSays
<1>2. CASE Say("handoff") /\ UNCHANGED handoff
  BY <1>2, SaySays DEF Kinds, Evident
<1>3. CASE Background(withPacket)
  BY <1>3 DEF Background, Leaves
<1> QED
  BY <1>1, <1>2, <1>3 DEF CompilesUnlessDeclined
-----------------------------------------------------------------------------
(***************************************************************************)
(* What is left of a draft is valid, and what is published of it stands.   *)
(***************************************************************************)
LEMMA SalvageAccepted ==
  ASSUME NEW d, NEW sections, Salvage(d, sections) # {}
  PROVE  Accepted(Salvage(d, sections), sections) /\ Salvage(d, sections) \subseteq d
  BY DEF Salvage, Valid

\* Claims that are withheld for their risk still count as coverage.
LEMMA CitedBySplit ==
  ASSUME NEW valid, NEW of, valid \subseteq of
  PROVE  Cited(valid) \subseteq Cited({c \in of : c.highRisk} \cup Publishable(valid))
<1> SUFFICES ASSUME NEW s \in Cited(valid)
             PROVE  s \in Cited({c \in of : c.highRisk} \cup Publishable(valid))
  OBVIOUS
<1>1. PICK c \in valid : s \in c.cites
  BY DEF Cited
<1>2. c \in {x \in of : x.highRisk} \cup Publishable(valid)
  BY DEF Publishable
<1> QED
  BY <1>1, <1>2 DEF Cited

\* Evidence that is enough for a draft is a part of the answer or all of it.
LEMMA SufficientSplit ==
  ASSUME Sufficient
  PROVE  IsPartial \/ Answerable
  BY DEF Sufficient, Answerable, IsPartial

LEMMA PublishMoves ==
  ASSUME NEW valid, NEW of \in SUBSET Claims, valid \subseteq of,
         Accepted(valid, TheSections), Publish(valid, of), complete, Sufficient
  PROVE  Says \/ Leaves \/ Publishes
<1>1. CASE Publishable(valid) = {}
  BY <1>1, CompilesOrMoves, SufficientSplit DEF Publish
<1>2. CASE Publishable(valid) # {}
  <2> DEFINE kind == Labelled("grounded", IsPartial \/ valid # of)
  <2>1. /\ at' = "done" /\ draft' = {} /\ handoff' = handoff
        /\ response' = [kind |-> kind, claims |-> Publishable(valid), of |-> of]
    BY <1>2 DEF Publish, Respond
  <2>2. kind \in {"grounded", "partial"} /\ (kind = "grounded" => ~IsPartial /\ valid = of)
    BY DEF Labelled
  <2>3. Publishable(valid) \subseteq Claims
    BY DEF Publishable
  <2>4. TheSections \subseteq Cited({c \in of : c.highRisk} \cup Publishable(valid))
    BY CitedBySplit DEF Accepted
  <2>5. \A c \in Publishable(valid) : c.supported /\ ~c.highRisk
    BY DEF Publishable, Accepted
  <2>6. kind = "grounded" => \A c \in of \ Publishable(valid) : c.highRisk
    BY <2>2 DEF Publishable
  <2> HIDE DEF kind
  <2>7. Stands(response')
    BY <1>2, <2>1, <2>4, <2>5, <2>6 DEF Stands
  <2> QED
    BY <2>1, <2>2, <2>3, <2>7 DEF Publishes
<1> QED
  BY <1>1, <1>2
-----------------------------------------------------------------------------
(***************************************************************************)
(* The decision, and what follows a draft.                                 *)
(***************************************************************************)
LEMMA SupportOfPacket ==
  ASSUME TypeOK, NEW p \in packet
  PROVE  /\ IsPartial <=> Support(p).status = "partial"
         /\ Answerable <=> Support(p).status = "answerable"
         /\ Support(p).status \notin {"conflict", "insufficient"} => Sufficient
<1>1. packet = {p}
  BY DEF TypeOK
<1>2. Support(p).status \in {"insufficient", "conflict", "partial", "answerable"}
  BY DEF Support, Judged
<1> QED
  BY <1>1, <1>2 DEF IsPartial, Answerable, Sufficient

LEMMA DecidedMoves ==
  ASSUME TypeOK, NEW p \in packet, NEW q, Decided(Support(p), q)
  PROVE  Says \/ Leaves \/ Drafted
<1> DEFINE support == Support(p)
<1>1. /\ IsPartial <=> support.status = "partial"
      /\ support.status \notin {"conflict", "insufficient"} => Sufficient
  BY SupportOfPacket
<1>2. ~complete => support.status = "insufficient" /\ ~support.noEvidence
  BY DEF Support, Judged
<1> HIDE DEF support
<1>3. ASSUME NEW kind \in {"abstention", "unavailable", "sources", "handoff"},
             Say(kind), UNCHANGED handoff
      PROVE  Says
  BY <1>3, SaySays DEF Kinds, Evident
<1> DEFINE Rationale == question.why /\ q.rationale = "topic" /\ support.noEvidence
<1> DEFINE Conflict == support.status = "conflict" /\ q.conflicts
<1> DEFINE Adjacent == plan.relation = "adjacent" /\ ~Explicit /\ ~question.particular
<1>4. CASE Rationale
  BY <1>3, <1>4 DEF Decided, support
<1>5. CASE ~Rationale /\ ~complete
  BY <1>3, <1>5 DEF Decided, support
<1> DEFINE Whole == ~Rationale /\ complete
<1>6. CASE Whole /\ Conflict
  <2>1. Say("conflict") /\ UNCHANGED handoff
    BY <1>6 DEF Decided, support
  <2> QED
    BY <1>6, <2>1, SaySays DEF Kinds
<1> DEFINE Fallback == FallsBack /\ support.status # "answerable"
<1>7. CASE Whole /\ ~Conflict /\ Fallback
  <2>1. Background(FALSE)
    BY <1>7 DEF Decided, support
  <2> QED
    BY <1>7, <2>1 DEF Background, Leaves, FallsBack
<1>8. CASE Whole /\ ~Conflict /\ ~Fallback /\ Adjacent
  <2>1. CompilesUnlessDeclined(FALSE, FALSE)
    BY <1>8 DEF Decided, support
  <2> QED
    BY <1>8, <2>1, UnlessDeclinedMoves
<1> DEFINE Rest == Whole /\ ~Conflict /\ ~Fallback /\ ~Adjacent
<1>9. CASE Rest /\ support.status = "conflict"
  <2>1. Say("abstention") /\ UNCHANGED handoff
    BY <1>9 DEF Decided, support
  <2> QED
    BY <1>3, <2>1
<1>10. CASE Rest /\ support.status \notin {"conflict", "insufficient"}
  <2>1. Generates(support.status = "partial")
    BY <1>10 DEF Decided, support
  <2>2. CASE CompilesOr(support.status = "partial", "handoff")
    BY <1>1, <1>10, <2>2, CompilesOrMoves, SufficientSplit
  <2>3. CASE at' = "generate" /\ UNCHANGED <<response, handoff, draft>>
    BY <1>1, <1>10, <2>3 DEF Drafted
  <2> QED
    BY <2>1, <2>2, <2>3 DEF Generates
<1>11. CASE Rest /\ support.status = "insufficient" /\ (Explicit \/ question.particular)
  <2>1. \E kind \in {"abstention", "sources", "handoff"} : Say(kind) /\ UNCHANGED handoff
    BY <1>11 DEF Decided, support
  <2> QED
    BY <1>3, <2>1
<1>12. CASE Rest /\ support.status = "insufficient" /\ ~Explicit /\ ~question.particular
  <2>1. CompilesUnlessDeclined(TRUE, TRUE)
    BY <1>12 DEF Decided, support
  <2> QED
    BY <1>12, <2>1, UnlessDeclinedMoves
<1> QED
  BY <1>4, <1>5, <1>6, <1>7, <1>8, <1>9, <1>10, <1>11, <1>12

LEMMA DecideMoves ==
  ASSUME TypeOK, Decide
  PROVE  Says \/ Leaves \/ Drafted
<1>1. PICK p \in packet :
         \/ Say("abstention") /\ UNCHANGED handoff
         \/ \E q \in Confined(p) : Decided(Support(p), q)
         \/ Decided(Support(p), p)
  BY DEF Decide
<1>2. CASE Say("abstention") /\ UNCHANGED handoff
  BY <1>2, SaySays DEF Kinds, Evident
<1> QED
  BY <1>1, <1>2, DecidedMoves

LEMMA GenerateMoves ==
  ASSUME TypeOK, complete, Sufficient, GenerateAnswers
  PROVE  \/ Says \/ Leaves \/ Publishes
         \/ at' = "repair" /\ draft' \in SUBSET Claims /\ UNCHANGED <<response, handoff>>
<1>1. PICK d \in Drafts \cup {{}} :
         IF d = {} THEN WithoutClaims("sources")
         ELSE IF Accepted(d, TheSections) THEN Publish(d, d)
         ELSE at' = "repair" /\ draft' = d /\ UNCHANGED <<response, handoff>>
  BY DEF GenerateAnswers
<1>2. d \in SUBSET Claims
  BY DEF Drafts
<1>3. CASE d = {}
  BY <1>1, <1>3, WithoutClaimsMoves
<1>4. CASE d # {} /\ Accepted(d, TheSections)
  <2>1. Publish(d, d)
    BY <1>1, <1>4
  <2> QED
    BY <1>2, <1>4, <2>1, PublishMoves
<1>5. CASE d # {} /\ ~Accepted(d, TheSections)
  BY <1>1, <1>2, <1>5
<1> QED
  BY <1>3, <1>4, <1>5

LEMMA RescueMoves ==
  ASSUME TypeOK, complete, Sufficient, NEW repaired \in SUBSET Claims, Rescue(repaired)
  PROVE  Says \/ Leaves \/ Publishes
<1>1. draft \in SUBSET Claims
  BY DEF TypeOK
<1>2. CASE Salvage(repaired, TheSections) # {}
  <2>1. Publish(Salvage(repaired, TheSections), repaired)
    BY <1>2 DEF Rescue
  <2> QED
    BY <1>2, <2>1, SalvageAccepted, PublishMoves
<1>3. CASE Salvage(repaired, TheSections) = {} /\ Salvage(draft, TheSections) # {}
  <2>1. Publish(Salvage(draft, TheSections), draft)
    BY <1>3 DEF Rescue
  <2> QED
    BY <1>1, <1>3, <2>1, SalvageAccepted, PublishMoves
<1>4. CASE Salvage(repaired, TheSections) = {} /\ Salvage(draft, TheSections) = {}
  <2>1. CompilesOr(IsPartial, "sources")
    BY <1>4 DEF Rescue
  <2> QED
    BY <2>1, CompilesOrMoves, SufficientSplit
<1> QED
  BY <1>2, <1>3, <1>4

LEMMA RepairMoves ==
  ASSUME TypeOK, complete, Sufficient, RepairAnswers \/ RepairFails
  PROVE  Says \/ Leaves \/ Publishes
<1>1. CASE RepairFails
  BY <1>1, RescueMoves DEF RepairFails
<1>2. CASE RepairAnswers
  <2>1. PICK d \in Drafts \cup {{}} :
           IF Accepted(d, TheSections) THEN Publish(d, d) ELSE Rescue(d)
    BY <1>2 DEF RepairAnswers
  <2>2. d \in SUBSET Claims
    BY DEF Drafts
  <2>3. CASE Accepted(d, TheSections)
    BY <2>1, <2>2, <2>3, PublishMoves
  <2>4. CASE ~Accepted(d, TheSections)
    BY <2>1, <2>2, <2>4, RescueMoves
  <2> QED
    BY <2>3, <2>4
<1> QED
  BY <1>1, <1>2
-----------------------------------------------------------------------------
(***************************************************************************)
(* The search keeps the invariant.                                         *)
(***************************************************************************)
LEMMA InitInvariant == Init => IInv
<1> SUFFICES ASSUME Init
             PROVE  IInv
  OBVIOUS
<1>1. question.route \in Routes
  <2>1. question \in [route : Routes, lane : Lanes, asksFor : SUBSET Sources, unknown : BOOLEAN,
                      general : BOOLEAN, particular : BOOLEAN, why : BOOLEAN]
    BY AnsweringAssumption DEF Init
  <2> QED
    BY <2>1
<1>2. TypeOK
  <2>1. response \in [kind : Kinds, claims : SUBSET Claims, of : SUBSET Claims]
    BY DEF Init, Nothing, Kinds
  <2>2. plan \in [route : Routes, relation : {"none", "grounded", "adjacent", "tangent"},
                  mixed : BOOLEAN]
    BY <1>1 DEF Init
  <2>3. draft \subseteq Claims /\ packet \in {{}} \cup {{p} : p \in Packets}
    BY DEF Init
  <2>4. publication \in {{}} \cup {{p} : p \in Packets}
    BY DEF Init
  <2>5. question \in Questions /\ at = "asked" /\ failed = {}
        /\ complete \in BOOLEAN /\ handoff \in BOOLEAN
    BY DEF Init
  <2>6. cycle = 1 /\ calls = 0
    BY DEF Init
  <2>7. cycle \in 1..2 /\ calls \in Nat
    BY <2>6
  <2> QED
    BY <2>1, <2>2, <2>3, <2>4, <2>5, <2>7 DEF TypeOK
<1>3. Silent /\ Honest /\ Cost /\ Drafting /\ PublishedStands /\ PartialIsSaid
  BY DEF Init, Silent, Honest, Cost, Drafting, PublishedStands, PartialIsSaid, Nothing,
         Required, Evident
<1>4. Guarded
  <2>1. question.route = "tangent" => plan.route = question.route
    BY DEF Init
  <2> QED
    BY <2>1 DEF Init, Guarded, Nothing
<1> QED
  BY <1>2, <1>3, <1>4 DEF IInv

LEMMA QuietStands ==
  ASSUME response' = Nothing
  PROVE  PublishedStands' /\ PartialIsSaid'
  BY DEF PublishedStands, PartialIsSaid, Nothing

LEMMA RouteKeeps ==
  ASSUME IInv, Route
  PROVE  IInv'
<1>1. at = "asked" /\ response = Nothing /\ complete /\ plan.route = question.route
  BY DEF Route, IInv, Silent, Honest, Guarded
<1>2. UNCHANGED <<question, cycle, complete, packet, publication, handoff, failed, calls>>
  BY DEF Route
<1>3. CASE question.unknown
  <2>1. /\ at' = "done" /\ draft' = {} /\ plan' = plan
        /\ response' = [kind |-> "unknown_source", claims |-> {}, of |-> {}]
    BY <1>3 DEF Route, Say, Respond
  <2>2. TypeOK'
    BY <1>1, <1>2, <2>1 DEF IInv, TypeOK, Kinds
  <2>3. Silent' /\ Honest' /\ Cost' /\ Drafting'
    BY <1>1, <1>2, <2>1 DEF IInv, Silent, Honest, Cost, Drafting, Evident, Required
  <2>4. Guarded'
    BY <1>1, <1>2, <2>1 DEF IInv, Guarded, Entitled, Explicit
  <2>5. PublishedStands' /\ PartialIsSaid'
    BY <2>1 DEF PublishedStands, PartialIsSaid
  <2> QED
    BY <2>2, <2>3, <2>4, <2>5 DEF IInv
<1>4. CASE ~question.unknown
  <2>1. /\ response' = response /\ draft' = draft
        /\ \/ plan.route # "related" /\ at' = "found" /\ plan' = plan
           \/ plan.route = "related" /\ at' = "plan" /\ plan' = plan
           \/ /\ plan.route = "related" /\ at' = "embed"
              /\ plan' = [plan EXCEPT !.relation = "grounded"]
    BY <1>4 DEF Route
  <2>2. plan'.route = plan.route /\ plan'.mixed = plan.mixed /\
        plan' \in [route : Routes, relation : {"none", "grounded", "adjacent", "tangent"},
                   mixed : BOOLEAN]
    BY <2>1 DEF IInv, TypeOK
  <2>3. TypeOK'
    BY <1>1, <1>2, <2>1, <2>2 DEF IInv, TypeOK
  <2>4. Silent' /\ Honest' /\ Cost' /\ Drafting'
    BY <1>1, <1>2, <2>1 DEF IInv, Silent, Honest, Cost, Drafting, Evident, Required, Nothing, TypeOK
  <2>5. Guarded'
    BY <1>1, <1>2, <2>1, <2>2 DEF IInv, Guarded, Entitled, Explicit, Nothing
  <2> QED
    BY <1>1, <2>1, <2>3, <2>4, <2>5, QuietStands DEF IInv
<1> QED
  BY <1>3, <1>4

LEMMA PlanKeeps ==
  ASSUME IInv, PlanAnswers \/ PlanFails
  PROVE  IInv'
<1>1. /\ at = "plan" /\ response = Nothing /\ complete /\ plan.route = question.route
      /\ calls = 0 /\ packet = {} /\ cycle = 1
  BY DEF PlanAnswers, PlanFails, Answers, Fails, Ends, IInv, Silent, Honest, Guarded, Cost
<1>2. UNCHANGED <<question, cycle, packet, publication, draft, handoff, response>> /\ calls' = 1
  <2>1. calls' = calls + 1
    BY DEF PlanAnswers, PlanFails, Answers, Fails, Ends
  <2>2. UNCHANGED <<question, cycle, packet, publication, draft, handoff, response>>
    BY DEF PlanAnswers, PlanFails
  <2> QED
    BY <1>1, <2>1, <2>2
<1>3. CASE PlanAnswers
  <2>1. PICK relation \in {"grounded", "adjacent", "tangent"}, mixed \in BOOLEAN :
          LET final == IF mixed THEN "tangent" ELSE IF Flips(relation) THEN "grounded" ELSE relation
          IN  /\ plan' = [plan EXCEPT !.route = IF final = "tangent" THEN "tangent" ELSE @,
                                      !.relation = final, !.mixed = mixed]
              /\ at' = IF final = "tangent" THEN "found" ELSE "embed"
    BY <1>3 DEF PlanAnswers
  <2> DEFINE final == IF mixed THEN "tangent" ELSE IF Flips(relation) THEN "grounded" ELSE relation
  <2>2. final \in {"grounded", "adjacent", "tangent"}
    OBVIOUS
  <2>3. final = "tangent" =>
           mixed \/ (relation = "tangent" /\ ~Flips(relation))
    OBVIOUS
  <2>4. final = "tangent" => mixed \/ question.asksFor \cap {"found", "wording"} = {}
    BY <2>3 DEF Flips
  <2> HIDE DEF final
  <2>5. plan' = [route |-> IF final = "tangent" THEN "tangent" ELSE plan.route,
                 relation |-> final, mixed |-> mixed]
    BY <2>1 DEF IInv, TypeOK, final
  <2>6. at' = IF final = "tangent" THEN "found" ELSE "embed"
    BY <2>1 DEF final
  <2>7. complete' = complete /\ failed' = failed
    BY <1>3 DEF PlanAnswers, Answers, Ends
  <2>8. TypeOK'
    BY <1>1, <1>2, <2>2, <2>5, <2>6, <2>7 DEF IInv, TypeOK, Routes
  <2>9. Silent' /\ Honest' /\ Cost' /\ Drafting'
    BY <1>1, <1>2, <2>6, <2>7 DEF IInv, Silent, Honest, Cost, Drafting, Evident, Required, Nothing
  <2>10. Guarded'
    <3>1. plan'.route = "tangent" => final = "tangent" \/ question.route = "tangent"
      BY <1>1, <2>5
    <3>2. at' \in {"found", "embed"} /\ (at' = "found" => plan'.route = "tangent")
      BY <2>5, <2>6
    <3>3. plan'.mixed = mixed
      BY <2>5
    <3> QED
      BY <1>1, <1>2, <2>4, <3>1, <3>2, <3>3 DEF Guarded, Nothing
  <2> QED
    BY <1>1, <1>2, <2>8, <2>9, <2>10, QuietStands DEF IInv
<1>4. CASE PlanFails
  <2>1. /\ complete' = FALSE /\ at' = "found" /\ plan' = plan
        /\ failed' = failed \cup {"plan"}
    BY <1>4 DEF PlanFails, Fails, Ends
  <2>2. TypeOK'
    BY <1>1, <1>2, <2>1 DEF IInv, TypeOK
  <2>3. Silent' /\ Honest' /\ Cost' /\ Drafting'
    BY <1>1, <1>2, <2>1 DEF IInv, Silent, Honest, Cost, Drafting, Evident, Required, Nothing
  <2>4. Guarded'
    BY <1>1, <1>2, <2>1 DEF IInv, Guarded
  <2> QED
    BY <1>1, <1>2, <2>2, <2>3, <2>4, QuietStands DEF IInv
<1> QED
  BY <1>3, <1>4

\* A cycle of search ends, and a second one may follow.
CycleEnds ==
    /\ at \in {"embed", "rerank"}
    /\ \E p \in Packets : packet' = {p}
    /\ \/ at' = "found" /\ cycle' = cycle
       \/ Adaptive /\ cycle = 1 /\ at' = "embed" /\ cycle' = 2
    /\ UNCHANGED <<question, plan, publication, draft, handoff, response>>

LEMMA RetrievedEnds ==
  ASSUME IInv, at \in {"embed", "rerank"}, NEW ok \in BOOLEAN, NEW hits, Retrieved(ok, hits)
  PROVE  CycleEnds /\ complete' \in BOOLEAN /\ (complete' <=> complete /\ ok)
<1>1. CycleEnds /\ complete' = Merged(ok)
  BY DEF Retrieved, Selected, CycleEnds
<1>2. complete \in BOOLEAN /\ (cycle = 1 => complete)
  BY DEF IInv, TypeOK, Honest
<1>3. Merged(ok) \in BOOLEAN /\ (Merged(ok) <=> complete /\ ok)
  BY <1>2 DEF Merged
<1> QED
  BY <1>1, <1>3

LEMMA CycleKeeps ==
  ASSUME IInv, CycleEnds, calls' \in Nat, calls' <= 2 * cycle + 1, complete' \in BOOLEAN,
         \/ failed' = failed /\ (complete' <=> complete)
         \/ failed' = failed \cup {at} /\ ~complete'
  PROVE  IInv'
<1>1. response = Nothing /\ response' = Nothing
  BY DEF IInv, Silent, CycleEnds
<1>2. TypeOK'
  BY <1>1 DEF IInv, TypeOK, CycleEnds
<1>3. Silent' /\ Honest' /\ Drafting'
  BY <1>1 DEF IInv, Silent, Honest, Drafting, Required, Evident, Nothing, CycleEnds, TypeOK
<1>4. Cost'
  BY DEF IInv, TypeOK, Cost, CycleEnds
<1>5. Guarded'
  BY <1>1 DEF IInv, Guarded, Nothing, Entitled, Explicit, CycleEnds
<1> QED
  BY <1>1, <1>2, <1>3, <1>4, <1>5, QuietStands DEF IInv

LEMMA SearchKeeps ==
  ASSUME IInv, Bind \/ EmbedAnswers \/ EmbedFails \/ RerankAnswers \/ RerankFails
  PROVE  IInv'
<1>1. /\ at = "embed" => calls <= 2 * cycle - 1
      /\ at = "rerank" => calls <= 2 * cycle
      /\ cycle \in 1..2 /\ calls \in Nat
  BY DEF IInv, Cost, TypeOK
<1>2. ASSUME CycleEnds, complete' \in BOOLEAN, complete' <=> complete, failed' = failed,
             calls' = calls \/ calls' = calls + 1
      PROVE  IInv'
  BY <1>1, <1>2, CycleKeeps DEF CycleEnds
<1>3. ASSUME CycleEnds, complete' \in BOOLEAN, ~complete', failed' = failed \cup {at},
             calls' = calls + 1
      PROVE  IInv'
  BY <1>1, <1>3, CycleKeeps DEF CycleEnds
<1>4. CASE Bind
  <2>1. at = "embed" /\ Retrieved(TRUE, TRUE) /\ failed' = failed /\ calls' = calls
    BY <1>4 DEF Bind
  <2> QED
    BY <1>2, <2>1, RetrievedEnds
<1>5. CASE RerankAnswers
  <2>1. at = "rerank" /\ Retrieved(TRUE, TRUE) /\ failed' = failed /\ calls' = calls + 1
    BY <1>5 DEF RerankAnswers, Answers, Ends
  <2> QED
    BY <1>2, <2>1, RetrievedEnds
<1>6. CASE EmbedFails
  <2>1. at = "embed" /\ Retrieved(FALSE, FALSE) /\ failed' = failed \cup {at}
        /\ calls' = calls + 1
    BY <1>6 DEF EmbedFails, Fails, Ends
  <2> QED
    BY <1>3, <2>1, RetrievedEnds
<1>7. CASE RerankFails
  <2>1. at = "rerank" /\ Retrieved(FALSE, TRUE) /\ failed' = failed \cup {at}
        /\ calls' = calls + 1
    BY <1>7 DEF RerankFails, Fails, Ends
  <2> QED
    BY <1>3, <2>1, RetrievedEnds
<1>8. CASE EmbedAnswers
  <2>1. at = "embed" /\ calls' = calls + 1 /\ failed' = failed
    BY <1>8 DEF EmbedAnswers, Answers, Ends
  <2>2. CASE Retrieved(TRUE, FALSE)
    BY <1>2, <2>1, <2>2, RetrievedEnds
  <2>3. CASE /\ at' = "rerank"
             /\ UNCHANGED <<question, plan, cycle, complete, packet, publication, draft, handoff,
                            response>>
    <3>1. TypeOK'
      BY <1>1, <2>1, <2>3 DEF IInv, TypeOK
    <3>2. Silent' /\ Honest' /\ Drafting'
      BY <2>1, <2>3 DEF IInv, Silent, Honest, Drafting
    <3>3. Cost'
      BY <1>1, <2>1, <2>3 DEF IInv, Cost
    <3>4. Guarded'
      BY <2>1, <2>3 DEF IInv, Guarded, Entitled, Explicit
    <3>5. response' = Nothing
      BY <2>1, <2>3 DEF IInv, Silent
    <3> QED
      BY <3>1, <3>2, <3>3, <3>4, <3>5, QuietStands DEF IInv
  <2> QED
    BY <1>8, <2>2, <2>3 DEF EmbedAnswers
<1> QED
  BY <1>4, <1>5, <1>6, <1>7, <1>8
-----------------------------------------------------------------------------
(***************************************************************************)
(* The steps after the search keep the invariant.                          *)
(***************************************************************************)
\* The packet stays, what of it may be published is decided at once, and the
\* call that was awaited, if any, has ended.
AfterSearch ==
    /\ at \in {"found", "generate", "repair", "background"}
    /\ UNCHANGED <<question, plan, cycle, complete, packet>>
    /\ publication' \in {{}} \cup {{p} : p \in Packets}
    /\ at # "found" => publication' = publication
    /\ \/ failed' = failed
       \/ at \in {"generate", "repair", "background"} /\ failed' = failed \cup {at}
    /\ \/ calls' = calls
       \/ at # "found" /\ calls' = calls + 1

LEMMA AfterSearchFacts ==
  ASSUME IInv, AfterSearch
  PROVE  /\ response = Nothing
         /\ failed' \cap Required = failed \cap Required
         /\ failed' \subseteq {"plan", "embed", "rerank", "generate", "repair", "background"}
         /\ "plan" \in failed' <=> "plan" \in failed
         /\ calls' \in Nat /\ calls' <= 2 * cycle + 4
         /\ packet = {} => calls' <= 2
         /\ at = "found" => calls' = calls
         /\ at \in {"generate", "repair"} => complete /\ packet # {}
<1>1. response = Nothing
  BY DEF IInv, Silent, AfterSearch
<1>2. /\ failed' \cap Required = failed \cap Required
      /\ failed' \subseteq {"plan", "embed", "rerank", "generate", "repair", "background"}
      /\ "plan" \in failed' <=> "plan" \in failed
  BY DEF IInv, TypeOK, AfterSearch, Required
<1>3. /\ at \in {"generate", "repair"} => complete /\ packet # {}
      /\ at = "found" => calls' = calls
  BY DEF IInv, Honest, Cost, AfterSearch
<1>4. calls' \in Nat /\ calls' <= 2 * cycle + 4 /\ (packet = {} => calls' <= 2)
  BY DEF IInv, TypeOK, Cost, AfterSearch
<1> QED
  BY <1>1, <1>2, <1>3, <1>4

LEMMA SupportStays ==
  ASSUME UNCHANGED <<complete, packet>>
  PROVE  (Answerable' <=> Answerable) /\ (Sufficient' <=> Sufficient)
  BY DEF Answerable, Sufficient, Support, Judged

\* An answer that is not of a draft.
LEMMA SaysKeeps ==
  ASSUME IInv, AfterSearch, Says
  PROVE  IInv'
<1>1. PICK kind \in Kinds \ {"background"} :
        /\ at' = "done" /\ draft' = {} /\ handoff' = handoff
        /\ response' = [kind |-> kind, claims |-> {}, of |-> {}]
        /\ kind \in Evident => complete
        /\ kind = "grounded" => plan.relation = "adjacent" \/ Answerable
  BY DEF Says
<1>2. response' \in [kind : Kinds, claims : SUBSET Claims, of : SUBSET Claims]
      /\ response'.kind = kind /\ response'.of = {}
  BY <1>1
<1>3. TypeOK'
  BY <1>1, <1>2, AfterSearchFacts DEF IInv, TypeOK, AfterSearch
<1>4. Silent' /\ Honest' /\ Drafting'
  BY <1>1, <1>2, AfterSearchFacts DEF IInv, Silent, Honest, Drafting, AfterSearch
<1>5. Cost'
  BY <1>1, AfterSearchFacts DEF IInv, Cost, AfterSearch
<1>6. Guarded'
  BY <1>1, <1>2, AfterSearchFacts DEF IInv, Guarded, AfterSearch
<1>7. PublishedStands' /\ PartialIsSaid'
  BY <1>1, <1>2, SupportStays DEF PublishedStands, PartialIsSaid, Answerable, AfterSearch
<1> QED
  BY <1>3, <1>4, <1>5, <1>6, <1>7 DEF IInv

\* An answer that is left to general knowledge.
LEMMA BackgroundKeeps ==
  ASSUME IInv, AfterSearch, at # "background",
         at' = "background", draft' = {}, response' = response, handoff' \in BOOLEAN,
         "plan" \notin failed => Entitled
  PROVE  IInv'
<1>1. response' = Nothing
  BY AfterSearchFacts
<1>2. TypeOK'
  BY AfterSearchFacts DEF IInv, TypeOK, AfterSearch
<1>3. Silent' /\ Honest' /\ Drafting'
  BY <1>1, AfterSearchFacts DEF IInv, Silent, Honest, Drafting, AfterSearch, Nothing, Evident
<1>4. Cost'
  BY AfterSearchFacts DEF IInv, TypeOK, Cost, AfterSearch
<1>5. Guarded'
  BY <1>1, AfterSearchFacts
     DEF IInv, Guarded, Entitled, Explicit, AfterSearch, Nothing
<1> QED
  BY <1>1, <1>2, <1>3, <1>4, <1>5, QuietStands DEF IInv

LEMMA LeavesKeeps ==
  ASSUME IInv, AfterSearch, at # "background", packet # {}, Leaves
  PROVE  IInv'
<1>1. Entitled
  BY DEF Leaves, Entitled
<1> QED
  BY <1>1, BackgroundKeeps DEF Leaves

\* A draft that is published.
LEMMA PublishesKeeps ==
  ASSUME IInv, AfterSearch, at # "found", complete, Sufficient, Publishes
  PROVE  IInv'
<1>1. response'.kind \in {"grounded", "partial"}
      /\ response' \in [kind : Kinds, claims : SUBSET Claims, of : SUBSET Claims]
  BY DEF Publishes, Kinds
<1>2. TypeOK'
  BY <1>1, AfterSearchFacts DEF IInv, TypeOK, AfterSearch, Publishes
<1>3. Silent' /\ Honest' /\ Drafting'
  BY AfterSearchFacts DEF IInv, Silent, Honest, Drafting, AfterSearch, Publishes
<1>4. Cost'
  BY AfterSearchFacts DEF IInv, Cost, AfterSearch, Publishes
<1>5. Guarded'
  BY <1>1, AfterSearchFacts DEF IInv, Guarded, AfterSearch, Publishes
<1>6. TheSections' = TheSections
  BY DEF TheSections, AfterSearch
<1>7. PublishedStands'
  BY <1>6 DEF Publishes, Stands, PublishedStands
<1>8. PartialIsSaid'
  BY SupportStays, SufficientSplit DEF Publishes, PartialIsSaid, Answerable, AfterSearch
<1> QED
  BY <1>2, <1>3, <1>4, <1>5, <1>7, <1>8 DEF IInv

\* A draft, or its repair, is asked for.
LEMMA DraftingKeeps ==
  ASSUME IInv, AfterSearch, complete, packet # {}, Sufficient,
         response' = response, handoff' = handoff, draft' \subseteq Claims,
         \/ at = "found" /\ at' = "generate"
         \/ at = "generate" /\ at' = "repair"
  PROVE  IInv'
<1>1. response' = Nothing
  BY AfterSearchFacts
<1>2. TypeOK'
  BY AfterSearchFacts DEF IInv, TypeOK, AfterSearch
<1>3. Silent' /\ Honest'
  BY <1>1, AfterSearchFacts DEF IInv, Silent, Honest, AfterSearch
<1>4. Drafting'
  BY SupportStays DEF Drafting, AfterSearch
<1>5. Cost'
  BY AfterSearchFacts DEF IInv, TypeOK, Cost, AfterSearch
<1>6. Guarded'
  BY <1>1, AfterSearchFacts DEF IInv, Guarded, AfterSearch, Nothing
<1> QED
  BY <1>1, <1>2, <1>3, <1>4, <1>5, <1>6, QuietStands DEF IInv

LEMMA DecideWithoutSearchKeeps ==
  ASSUME IInv, DecideWithoutSearch
  PROVE  IInv'
<1>1. at = "found" /\ packet = {} /\ AfterSearch
  BY DEF DecideWithoutSearch, AfterSearch, IInv, TypeOK
<1>2. CASE \E kind \in {"capability", "abstention"} : Say(kind) /\ UNCHANGED handoff
  BY <1>1, <1>2, SaySays, SaysKeeps DEF Kinds, Evident
<1>3. CASE plan.route \in {"tangent", "related"} /\ Background(FALSE)
  <2>1. "plan" \notin failed => plan.route = "tangent"
    BY <1>1, <1>3 DEF IInv, Guarded
  <2>2. "plan" \notin failed => Entitled
    BY <2>1 DEF IInv, Guarded, Entitled
  <2>3. at' = "background" /\ draft' = {} /\ response' = response /\ handoff' \in BOOLEAN
    BY <1>3 DEF Background
  <2> QED
    BY <1>1, <2>2, <2>3, BackgroundKeeps
<1> QED
  BY <1>2, <1>3 DEF DecideWithoutSearch

LEMMA DecideKeeps ==
  ASSUME IInv, Decide
  PROVE  IInv'
<1>1. at = "found" /\ packet # {}
  BY DEF Decide
<1>2. publication' \in {{}} \cup {{p} : p \in Packets}
  <2>1. \A p \in packet : p \in Packets
    BY DEF IInv, TypeOK
  <2> QED
    BY <2>1 DEF Decide, Confined, IInv, TypeOK
<1>3. AfterSearch
  BY <1>1, <1>2 DEF Decide, AfterSearch
<1>4. Says \/ Leaves \/ Drafted
  BY DecideMoves DEF IInv
<1>5. CASE Drafted
  BY <1>1, <1>3, <1>5, DraftingKeeps DEF Drafted, IInv, TypeOK
<1> QED
  BY <1>1, <1>3, <1>4, <1>5, SaysKeeps, LeavesKeeps

LEMMA GenerateKeeps ==
  ASSUME IInv, GenerateAnswers \/ GenerateFails
  PROVE  IInv'
<1>1. at = "generate" /\ AfterSearch
  BY DEF GenerateAnswers, GenerateFails, Answers, Fails, Ends, AfterSearch, Unsearched, IInv, TypeOK
<1>2. complete /\ packet # {} /\ Sufficient
  BY <1>1, AfterSearchFacts DEF IInv, Drafting
<1>3. CASE GenerateFails
  BY <1>1, <1>3, SaySays, SaysKeeps DEF GenerateFails, Kinds, Evident
<1>4. CASE GenerateAnswers
  <2>1. \/ Says \/ Leaves \/ Publishes
        \/ at' = "repair" /\ draft' \in SUBSET Claims /\ UNCHANGED <<response, handoff>>
    BY <1>2, <1>4, GenerateMoves DEF IInv
  <2> QED
    BY <1>1, <1>2, <2>1, SaysKeeps, LeavesKeeps, PublishesKeeps, DraftingKeeps
<1> QED
  BY <1>3, <1>4

LEMMA RepairKeeps ==
  ASSUME IInv, RepairAnswers \/ RepairFails
  PROVE  IInv'
<1>1. at = "repair" /\ AfterSearch
  BY DEF RepairAnswers, RepairFails, Answers, Fails, Ends, AfterSearch, Unsearched, IInv, TypeOK
<1>2. complete /\ packet # {} /\ Sufficient
  BY <1>1, AfterSearchFacts DEF IInv, Drafting
<1>3. Says \/ Leaves \/ Publishes
  BY <1>2, RepairMoves DEF IInv
<1> QED
  BY <1>1, <1>2, <1>3, SaysKeeps, LeavesKeeps, PublishesKeeps

LEMMA BackgroundEndsKeeps ==
  ASSUME IInv, BackgroundAnswers \/ BackgroundFails
  PROVE  IInv'
<1>1. at = "background" /\ AfterSearch /\ handoff' = handoff
  BY DEF BackgroundAnswers, BackgroundFails, Answers, Fails, Ends, AfterSearch, Unsearched,
         IInv, TypeOK
<1>2. CASE \E kind \in {"abstention", "sources"} : Say(kind)
  BY <1>1, <1>2, SaySays, SaysKeeps DEF Kinds, Evident
<1>3. CASE Say("background")
  <2>1. /\ at' = "done" /\ draft' = {}
        /\ response' = [kind |-> "background", claims |-> {}, of |-> {}]
    BY <1>3 DEF Say, Respond
  <2>2. TypeOK'
    BY <1>1, <2>1, AfterSearchFacts DEF IInv, TypeOK, AfterSearch, Kinds
  <2>3. Silent' /\ Honest' /\ Drafting'
    BY <1>1, <2>1, AfterSearchFacts
       DEF IInv, Silent, Honest, Drafting, AfterSearch, Evident
  <2>4. Cost'
    BY <1>1, <2>1, AfterSearchFacts DEF IInv, Cost, AfterSearch
  <2>5. Guarded'
    BY <1>1, <2>1, AfterSearchFacts
       DEF IInv, Guarded, Entitled, Explicit, AfterSearch
  <2>6. PublishedStands' /\ PartialIsSaid'
    BY <2>1 DEF PublishedStands, PartialIsSaid
  <2> QED
    BY <2>2, <2>3, <2>4, <2>5, <2>6 DEF IInv
<1> QED
  BY <1>2, <1>3 DEF BackgroundAnswers, BackgroundFails

LEMMA StutterKeeps ==
  ASSUME IInv, UNCHANGED vars
  PROVE  IInv'
<1>1. /\ question' = question /\ at' = at /\ plan' = plan /\ cycle' = cycle
      /\ complete' = complete /\ packet' = packet /\ publication' = publication
      /\ draft' = draft /\ handoff' = handoff
      /\ response' = response /\ failed' = failed /\ calls' = calls
  BY DEF vars
<1>2. TypeOK' /\ Silent' /\ Honest' /\ Cost'
  BY <1>1 DEF IInv, TypeOK, Silent, Honest, Cost
<1>3. Guarded'
  BY <1>1 DEF IInv, Guarded, Entitled, Explicit
<1>4. PublishedStands' /\ PartialIsSaid' /\ Drafting'
  BY <1>1, SupportStays
     DEF IInv, PublishedStands, PartialIsSaid, Drafting, Answerable, TheSections
<1> QED
  BY <1>2, <1>3, <1>4 DEF IInv
-----------------------------------------------------------------------------
(***************************************************************************)
(* What holds of every answer.                                             *)
(***************************************************************************)
\* The invariant from which everything below follows.
THEOREM AnswerInvariance == Spec => []IInv
<1>1. IInv /\ [Next]_vars => IInv'
  <2> SUFFICES ASSUME IInv, [Next]_vars
               PROVE  IInv'
    OBVIOUS
  <2>1. CASE Route
    BY <2>1, RouteKeeps
  <2>2. CASE PlanAnswers \/ PlanFails
    BY <2>2, PlanKeeps
  <2>3. CASE Bind \/ EmbedAnswers \/ EmbedFails \/ RerankAnswers \/ RerankFails
    BY <2>3, SearchKeeps
  <2>4. CASE DecideWithoutSearch
    BY <2>4, DecideWithoutSearchKeeps
  <2>5. CASE Decide
    BY <2>5, DecideKeeps
  <2>6. CASE GenerateAnswers \/ GenerateFails
    BY <2>6, GenerateKeeps
  <2>7. CASE RepairAnswers \/ RepairFails
    BY <2>7, RepairKeeps
  <2>8. CASE BackgroundAnswers \/ BackgroundFails
    BY <2>8, BackgroundEndsKeeps
  <2>9. CASE UNCHANGED vars
    BY <2>9, StutterKeeps
  <2> QED
    BY <2>1, <2>2, <2>3, <2>4, <2>5, <2>6, <2>7, <2>8, <2>9 DEF Next, Answered
<1> QED
  BY <1>1, InitInvariant, PTL DEF Spec

\* Every state of a question is well typed.
THEOREM AnswerTypes == Spec => []TypeOK
  BY AnswerInvariance, PTL DEF IInv

\* No reviewed evidence after a search or a plan that failed.
THEOREM EvidenceWasRetrieved == Spec => []EvidenceNeedsRetrieval
<1>1. IInv => EvidenceNeedsRetrieval
  BY DEF IInv, Honest, EvidenceNeedsRetrieval, Required, Evident
<1> QED
  BY <1>1, AnswerInvariance, PTL

\* Unless the planner failed: no general knowledge for a question about what is
\* current or personal, or explicit about its source, that was not judged
\* tangent; and none without a search for one the preflight found in the corpus
\* or in the wording of its patterns, if the planner alone called it tangent.
THEOREM BackgroundIsGuarded == Spec => []GeneralKnowledgeIsBounded
<1>1. IInv => GeneralKnowledgeIsBounded
  BY DEF IInv, Guarded, Entitled, GeneralKnowledgeIsBounded
<1> QED
  BY <1>1, AnswerInvariance, PTL

\* What is published of a draft is supported, not of high risk, and as whole
\* as it says, whatever was repaired and salvaged.
THEOREM PublicationStands == Spec => []PublishedStands
  BY AnswerInvariance, PTL DEF IInv

\* An answer not called partial rests on evidence that was judged to answer the
\* question, unless the question is adjacent.
THEOREM PartsAreLabelled == Spec => []PartialIsSaid
  BY AnswerInvariance, PTL DEF IInv

\* No path of failures and rejections costs more calls than the longest plan.
THEOREM CallsStayBounded == Spec => []CallsAreBounded
<1>1. IInv => CallsAreBounded
  <2> SUFFICES ASSUME IInv
               PROVE  CallsAreBounded
    OBVIOUS
  <2>1. calls <= 2 * cycle + 4 /\ (at = "done" /\ packet = {} => calls <= 2)
        /\ calls \in Nat /\ cycle \in 1..2 /\ (cycle = 2 => Adaptive)
    BY DEF IInv, Cost, TypeOK
  <2>2. CASE Adaptive
    BY <2>1, <2>2 DEF CallsAreBounded
  <2>3. CASE ~Adaptive
    BY <2>1, <2>3 DEF CallsAreBounded
  <2> QED
    BY <2>2, <2>3
<1> QED
  BY <1>1, AnswerInvariance, PTL
=============================================================================
