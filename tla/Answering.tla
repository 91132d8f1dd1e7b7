----------------------------- MODULE Answering ------------------------------
(***************************************************************************)
(* One question to the reviewed corpus (answering/service.py with          *)
(* intent.py, context_support.py, adaptive_retrieval.py, grounded.py and   *)
(* retrieval/pipeline.py): it is routed, planned, searched for, judged,    *)
(* and answered, in exact wording, by generation or with labelled general  *)
(* knowledge.  Every call of the provider may fail, and a step ends where  *)
(* the service awaits one.                                                 *)
(*                                                                         *)
(* A question is what the deterministic readers find in it, a packet what  *)
(* its evidence amounts to for the question.  Questions that run at the    *)
(* same time share nothing here.                                           *)
(***************************************************************************)
EXTENDS GroundedDraft

CONSTANTS
    Questions,  \* the questions asked
    Adaptive    \* retrieval_strategy = "adaptive_v1"

Routes == {"prohibited", "live", "capability", "tangent", "related"}
\* How a related question is planned: an approved capability binds it, a
\* reviewed-guidance intent guides it (in its own words, or only resolved
\* against the conversation), or the provider plans it.
Lanes == {"bound", "reviewed", "resolved", "planned"}
\* How a question asks for sources, as five readers see it.  Two decide how it
\* is planned: the preflight found it in the corpus, and its wording matches
\* the corpus patterns.  Three decide what may be published: it names a source;
\* the corpus holds what it refers to, by a search of its own; and
\* explicit_corpus_attribution, which passes over the wording of a question
\* that only asks what papers to pack.
Sources == {"found", "wording", "named", "held", "attributed"}
Kinds == {"none", "capability", "unknown_source", "abstention", "unavailable", "handoff",
          "sources", "conflict", "background", "grounded", "partial"}

ASSUME AnsweringAssumption ==
    /\ Adaptive \in BOOLEAN
    /\ Questions \subseteq
          [route : Routes, lane : Lanes, asksFor : SUBSET Sources, unknown : BOOLEAN,
           general : BOOLEAN,     \* GENERAL_ALLOWED and Tier C
           particular : BOOLEAN,  \* current, personal, or about a selected record
           why : BOOLEAN]         \* is_significance_followup

\* What the evidence covers: nothing of the question; all of it, but not by a
\* required authority; too little; some topics of several; the question though
\* not every planned aspect; every aspect.
Coverage == {"off", "barred", "lacking", "some", "direct", "full"}
\* For a why question: no topic, a topic, a topic and a quote that explains it.
Rationales == {"none", "topic", "quoted"}
Packets == [items : BOOLEAN, coverage : Coverage, conflicts : BOOLEAN,
            rationale : Rationales, sections : SUBSET Sections]
\* A why question may name its topic itself.
Empties == [items : {FALSE}, coverage : {"off"}, conflicts : {FALSE},
            rationale : {"none", "topic"}, sections : {{}}]

VARIABLES
    question,
    at,        \* the call that is awaited, or "asked", "found", "done"
    plan,      \* [route, relation, mixed]; mixed is history: why it is tangent
    cycle,     \* the retrieval cycle under way
    complete,  \* RetrievalBundle.complete of the first cycle, then of both
    packet,    \* {}, or {the evidence packet}
    publication, \* publication_packet: {}, or {what of it may be published}
    draft,     \* the draft that was rejected
    handoff,   \* _background_answer was given the evidence packet
    response,
    failed,    \* history: the calls that failed,
    calls      \* and the number of those that ended

vars == <<question, at, plan, cycle, complete, packet, publication, draft, handoff, response,
          failed, calls>>

Nothing == [kind |-> "none", claims |-> {}, of |-> {}]
\* explicit_corpus_request
Explicit == question.asksFor \cap {"held", "attributed"} # {} \/ question.lane = "bound"

TypeOK ==
    /\ question \in Questions
    /\ at \in {"asked", "plan", "embed", "rerank", "found", "generate", "repair",
               "background", "done"}
    /\ plan \in [route : Routes, relation : {"none", "grounded", "adjacent", "tangent"},
                 mixed : BOOLEAN]
    /\ cycle \in 1..2 /\ complete \in BOOLEAN /\ handoff \in BOOLEAN
    /\ packet \in {{}} \cup {{p} : p \in Packets}
    /\ publication \in {{}} \cup {{p} : p \in Packets}
    /\ draft \subseteq Claims
    /\ response \in [kind : Kinds, claims : SUBSET Claims, of : SUBSET Claims]
    /\ calls \in Nat
    /\ failed \subseteq {"plan", "embed", "rerank", "generate", "repair", "background"}

Init ==
    /\ question \in Questions
    /\ at = "asked"
    /\ plan = [route |-> question.route, relation |-> "none", mixed |-> FALSE]
    /\ cycle = 1 /\ complete = TRUE /\ packet = {} /\ publication = {}
    /\ draft = {} /\ handoff = FALSE
    /\ response = Nothing /\ failed = {} /\ calls = 0

\* The outcome of a call that was begun.
Ends(call, failures) == at = call /\ calls' = calls + 1 /\ failed' = failed \cup failures
Fails(call) == Ends(call, {call})
Answers(call) == Ends(call, {})

\* _record_ask: the one way out.
Respond(kind, claims, of) ==
    /\ response' = [kind |-> kind, claims |-> claims, of |-> of]
    /\ at' = "done"
    /\ draft' = {}
Say(kind) == Respond(kind, {}, {})
-----------------------------------------------------------------------------
(***************************************************************************)
(* plan_query and execute_search.                                          *)
(***************************************************************************)
Route ==
    /\ at = "asked"
    /\ IF question.unknown
       THEN Say("unknown_source") /\ UNCHANGED plan
       ELSE /\ UNCHANGED <<response, draft>>
            /\ IF plan.route # "related" THEN at' = "found" /\ UNCHANGED plan
               ELSE IF question.lane = "planned" THEN at' = "plan" /\ UNCHANGED plan
               ELSE at' = "embed" /\ plan' = [plan EXCEPT !.relation = "grounded"]
    /\ UNCHANGED <<question, cycle, complete, packet, publication, handoff, failed, calls>>

\* Mutant of Flips: the corpus preflight is left out.
FlipsNever(relation) == FALSE

\* The preflight of execute_search, then apply_planning_decision.
Flips(relation) ==
    \/ relation \in {"tangent", "adjacent"} /\ "found" \in question.asksFor
    \/ relation = "tangent" /\ "wording" \in question.asksFor

PlanAnswers ==
    /\ Answers("plan")
    /\ \E relation \in {"grounded", "adjacent", "tangent"}, mixed \in BOOLEAN :
          LET final == IF mixed THEN "tangent"
                       ELSE IF Flips(relation) THEN "grounded" ELSE relation
          IN  /\ plan' = [plan EXCEPT !.route = IF final = "tangent" THEN "tangent" ELSE @,
                                      !.relation = final, !.mixed = mixed]
              /\ at' = IF final = "tangent" THEN "found" ELSE "embed"
    /\ UNCHANGED <<question, cycle, complete, packet, publication, draft, handoff, response>>

PlanFails ==
    /\ Fails("plan")
    /\ complete' = FALSE
    /\ at' = "found"
    /\ UNCHANGED <<question, plan, cycle, packet, publication, draft, handoff, response>>

\* A bound question is not searched for, its chunks are known.
SearchIsBound == question.lane = "bound" /\ cycle = 1

\* What build_evidence_packet may select: nothing without hits, and with more
\* hits more.
Selected(hits) ==
    {p \in Packets :
        /\ p.sections \in {{}, Sections}
        /\ ~p.items => p \in Empties
        /\ p.rationale # "none" => question.why
        /\ p.items => hits \/ p \in packet
        /\ \A q \in packet : q.items => p.items}

\* Mutant of Merged: the first cycle decides.
MergedFirst(ok) == IF cycle = 1 THEN ok ELSE complete

Merged(ok) == IF cycle = 1 THEN ok ELSE complete /\ ok

\* A cycle of search ends; a second one follows at most once, and not if no
\* aspect is missing.
Retrieved(ok, hits) ==
    \E p \in Selected(hits) :
       /\ packet' = {p}
       /\ complete' = Merged(ok)
       /\ \/ at' = "found" /\ cycle' = cycle
          \/ /\ Adaptive /\ cycle = 1 /\ p.coverage # "full"
             /\ at' = "embed" /\ cycle' = 2
       /\ UNCHANGED <<question, plan, publication, draft, handoff, response>>

Bind == SearchIsBound /\ at = "embed" /\ Retrieved(TRUE, TRUE) /\ UNCHANGED <<failed, calls>>

EmbedAnswers ==
    /\ ~SearchIsBound /\ Answers("embed")
    /\ \/ at' = "rerank"
          /\ UNCHANGED <<question, plan, cycle, complete, packet, publication, draft, handoff,
                         response>>
       \/ Retrieved(TRUE, FALSE)  \* nothing is fused, and nothing reranked
EmbedFails == ~SearchIsBound /\ Fails("embed") /\ Retrieved(FALSE, FALSE)

RerankAnswers == Answers("rerank") /\ Retrieved(TRUE, TRUE)
\* The fused hits may still be reserved for the packet.
RerankFails == Fails("rerank") /\ Retrieved(FALSE, TRUE)
-----------------------------------------------------------------------------
(***************************************************************************)
(* decide_support, for a related question that has a packet.               *)
(***************************************************************************)
Judged(status, noEvidence) == [status |-> status, noEvidence |-> noEvidence]

Support(p) ==
    IF ~complete THEN Judged("insufficient", FALSE)
    ELSE IF ~p.items \/ p.coverage = "off" THEN Judged("insufficient", TRUE)
    ELSE IF p.conflicts THEN Judged("conflict", FALSE)
    ELSE IF p.coverage = "barred" THEN Judged("insufficient", FALSE)
    ELSE IF p.rationale = "quoted" THEN Judged("answerable", FALSE)
    ELSE IF p.rationale = "topic" THEN Judged("partial", TRUE)
    ELSE IF p.coverage = "lacking" THEN Judged("insufficient", TRUE)
    ELSE IF p.coverage = "some" THEN Judged("partial", FALSE)
    ELSE Judged("answerable", FALSE)
-----------------------------------------------------------------------------
(***************************************************************************)
(* The ways to an answer.                                                  *)
(***************************************************************************)
Background(withPacket) ==
    /\ at' = "background"
    /\ handoff' = withPacket
    /\ draft' = {}
    /\ UNCHANGED response

\* _allows_general_background_fallback, but for the support decision.
FallsBack ==
    /\ plan.route = "related" /\ question.lane = "planned"
    /\ question.general /\ ~question.particular /\ ~Explicit

\* Mutant of Labelled: _force_partial_response is forgotten.
LabelledAsIs(kind, force) == kind

Labelled(kind, force) == IF force /\ kind = "grounded" THEN "partial" ELSE kind

\* compile_high_risk_answer in exact wording: it publishes claims, all that is
\* asked or a part of it, or it has none.
Compiles(force) ==
    \E kind \in {"grounded", "partial"} :
       Say(Labelled(kind, force)) /\ UNCHANGED handoff

\* Nothing could be generated or compiled.
WithoutClaims(kind) ==
    IF FallsBack THEN Background(TRUE) ELSE Say(kind) /\ UNCHANGED handoff

CompilesOr(force, kind) == Compiles(force) \/ WithoutClaims(kind)

\* compile_without_generation: it declines unless the question or the packet
\* asks for exact wording.
CompilesUnlessDeclined(force, withPacket) ==
    \/ Compiles(force)
    \/ Say("handoff") /\ UNCHANGED handoff
    \/ question.lane # "reviewed" /\ Background(withPacket)
-----------------------------------------------------------------------------
(***************************************************************************)
(* _ask_with_trace, after the search.                                      *)
(***************************************************************************)
DecideWithoutSearch ==
    /\ at = "found" /\ packet = {}
    /\ \/ plan.route = "capability" /\ Say("capability") /\ UNCHANGED handoff
       \/ plan.route \in {"live", "prohibited"} /\ Say("abstention") /\ UNCHANGED handoff
       \/ /\ plan.route = "tangent"
          /\ (Say("capability") /\ UNCHANGED handoff) \/ Background(FALSE)
       \/ plan.route = "related" /\ Background(FALSE)  \* the planner failed
    /\ UNCHANGED <<question, plan, cycle, complete, packet, publication, failed, calls>>

\* GroundedAnswerEngine.answer: a packet that gives instructions, or a bound
\* question, is only ever compiled.
Generates(force) ==
    \/ CompilesOr(force, "handoff")
    \/ question.lane # "bound" /\ at' = "generate" /\ UNCHANGED <<response, handoff, draft>>

\* support was decided on the whole packet; p is what of it may be published.
Decided(support, p) ==
    LET end(kind) == Say(kind) /\ UNCHANGED handoff
    IN  IF question.why /\ p.rationale = "topic" /\ support.noEvidence THEN end("abstention")
        ELSE IF ~complete THEN end("unavailable")
        ELSE IF support.status = "conflict" /\ p.conflicts THEN end("conflict")
        ELSE IF FallsBack /\ support.status # "answerable" THEN Background(FALSE)
        ELSE IF plan.relation = "adjacent" /\ ~Explicit /\ ~question.particular
             THEN CompilesUnlessDeclined(FALSE, FALSE)
        ELSE IF support.status = "conflict" THEN end("abstention")
        ELSE IF support.status # "insufficient" THEN Generates(support.status = "partial")
        ELSE IF Explicit THEN end("abstention") \/ (p.items /\ end("sources"))
        ELSE IF question.particular THEN end("handoff")
        ELSE CompilesUnlessDeclined(TRUE, TRUE)

\* _source_matched_packet: the items, quotes and conflicts of the named source.
\* A topic, its rationale, a conflict and the sections may be lost with the rest.
Confined(p) ==
    {q \in Packets :
        /\ q.items = p.items /\ q.coverage = p.coverage
        /\ q.conflicts => p.conflicts
        /\ q.rationale \in {"none", p.rationale} \/ p.rationale = "quoted"
        /\ q.sections \subseteq p.sections}

\* A source that is named must be among the evidence, and only what is of that
\* source is published.
Decide ==
    /\ at = "found"
    /\ \E p \in packet :
          IF "named" \in question.asksFor
          THEN \/ Say("abstention") /\ UNCHANGED <<handoff, publication>>
               \/ /\ p.items
                  /\ \E q \in Confined(p) : publication' = {q} /\ Decided(Support(p), q)
          ELSE publication' = {p} /\ Decided(Support(p), p)
    /\ UNCHANGED <<question, plan, cycle, complete, packet, failed, calls>>
-----------------------------------------------------------------------------
(***************************************************************************)
(* GroundedAnswerEngine.answer: generate once, repair at most once.        *)
(***************************************************************************)
TheSections == UNION {p.sections : p \in publication}
IsPartial == \E p \in packet : Support(p).status = "partial"
Unsearched == UNCHANGED <<question, plan, cycle, complete, packet, publication>>

\* What is left of a valid draft is published; of is the draft as returned.
Publish(valid, of) ==
    IF Publishable(valid) = {} THEN CompilesOr(IsPartial, "handoff")
    ELSE /\ Respond(Labelled("grounded", IsPartial \/ valid # of), Publishable(valid), of)
         /\ UNCHANGED handoff

\* {} stands for an answer which is no grounded draft.
GenerateAnswers ==
    /\ Answers("generate")
    /\ \E d \in Drafts \cup {{}} :
          IF d = {} THEN WithoutClaims("sources")
          ELSE IF Accepted(d, TheSections) THEN Publish(d, d)
          ELSE at' = "repair" /\ draft' = d /\ UNCHANGED <<response, handoff>>
    /\ Unsearched

GenerateFails == Fails("generate") /\ Say("sources") /\ UNCHANGED handoff /\ Unsearched

\* Mutant of Rescue: the repair is asked for until it is valid.
RescueByRepair(repaired) == at' = "repair" /\ UNCHANGED <<draft, response, handoff>>

\* Claims that stand alone are kept, of the repair first; else the compiler is
\* tried, and at last the sources are handed off.
Rescue(repaired) ==
    LET ofRepair == Salvage(repaired, TheSections)
        ofDraft == Salvage(draft, TheSections)
    IN  IF ofRepair # {} THEN Publish(ofRepair, repaired)
        ELSE IF ofDraft # {} THEN Publish(ofDraft, draft)
        ELSE CompilesOr(IsPartial, "sources")

RepairAnswers ==
    /\ Answers("repair")
    /\ \E d \in Drafts \cup {{}} :
          IF Accepted(d, TheSections) THEN Publish(d, d) ELSE Rescue(d)
    /\ Unsearched

RepairFails == Fails("repair") /\ Rescue({}) /\ Unsearched

\* _background_answer: the draft passes its own validation, or none is shown.
BackgroundAnswers ==
    /\ Answers("background")
    /\ Say("background") \/ Say("abstention") \/ (handoff /\ Say("sources"))
    /\ UNCHANGED handoff /\ Unsearched

BackgroundFails ==
    /\ Fails("background")
    /\ Say(IF handoff THEN "sources" ELSE "abstention")
    /\ UNCHANGED handoff /\ Unsearched

Answered == at = "done" /\ UNCHANGED vars

Next ==
    \/ Answered
    \/ Route \/ PlanAnswers \/ PlanFails
    \/ Bind \/ EmbedAnswers \/ EmbedFails \/ RerankAnswers \/ RerankFails
    \/ DecideWithoutSearch \/ Decide
    \/ GenerateAnswers \/ GenerateFails \/ RepairAnswers \/ RepairFails
    \/ BackgroundAnswers \/ BackgroundFails

Spec == Init /\ [][Next]_vars
-----------------------------------------------------------------------------
\* Reviewed evidence is shown only after a search in which no call failed, of
\* either cycle, and never after the planner failed.
EvidenceNeedsRetrieval ==
    response.kind \in {"grounded", "partial", "conflict"} =>
        failed \cap {"plan", "embed", "rerank"} = {}

\* Unless the planner failed (then any question may be left to it), a question
\* about what is current or personal, or one that asks for sources, gets general
\* knowledge only when it was judged tangent; and the planner's word alone does
\* not make it so: a question the preflight found in the corpus, or in the
\* wording of its patterns, gets it only after the corpus was searched, unless
\* it mixed that with something else or was tangent before it was planned.
GeneralKnowledgeIsBounded ==
    response.kind = "background" /\ "plan" \notin failed =>
        /\ Explicit \/ question.particular => plan.route = "tangent"
        /\ question.asksFor \cap {"found", "wording"} # {} =>
               packet # {} \/ plan.mixed \/ question.route = "tangent"

\* Whatever was repaired, salvaged and withheld: what is published of a draft
\* is supported prose of Tier C; sections that are not covered were at least
\* covered by a claim withheld for its risk; and an answer not marked partial
\* withholds nothing else.
PublishedStands ==
    LET withheld == response.of \ response.claims IN
    response.of # {} =>
        /\ response.claims # {}
        /\ \A c \in response.claims : c.supported /\ ~c.highRisk
        /\ TheSections \subseteq Cited({c \in response.of : c.highRisk} \cup response.claims)
        /\ response.kind = "grounded" => \A c \in withheld : c.highRisk

\* An answer that is not called partial is one whose evidence was judged to
\* answer the question, not a part of it and not too little, on every way to it
\* but that of the adjacent questions, which are compiled without regard to it.
\* This is about the evidence: what is left out of a draft is the business of
\* PublishedStands, and claims withheld for their risk are not announced.
PartialIsSaid ==
    response.kind = "grounded" =>
        \/ plan.relation = "adjacent"
        \/ \A p \in packet : Support(p).status = "answerable"

\* However calls fail and drafts are rejected, a question costs no more than its
\* plan, its cycles of search, a draft, one repair and a background answer; and
\* one that is not searched for no more than a plan and a background answer.
CallsAreBounded ==
    /\ calls <= 1 + (IF Adaptive THEN 4 ELSE 2) + 3
    /\ at = "done" /\ packet = {} => calls <= 2

\* docs/static_rag_v1.md:47, "A required provider failure becomes a typed
\* incomplete search or service error", and docs/TECHNICAL_HANDBOOK.md:238, "A
\* planner failure is a typed unavailable result".
FailureIsTyped ==
    at = "done" /\ failed \cap {"plan", "embed", "rerank"} # {} =>
        response.kind = "unavailable"
=============================================================================
