---------------------------- MODULE PlannedTools ----------------------------
(***************************************************************************)
(* The tool calls of one Ask: the calls of the frozen plan are prefetched  *)
(* together (agent/prefetch.py), their isolated packets are merged, and    *)
(* then either the chat provider's tool loop or the offline loop           *)
(* (agent/loop.py) may call tools again, all under one request policy      *)
(* (agent/budget.py) and inside one deadline (api/answer_routes.py).       *)
(*                                                                         *)
(* A call is a tool, its arguments up to PlannedToolCall.matches (which    *)
(* drops null entries) and the way they are written: the fingerprint of    *)
(* tool_fingerprint is taken from what is written, nulls included.         *)
(***************************************************************************)
EXTENDS Integers, Sequences, FiniteSets, SequencesExt

CONSTANTS Plans,    \* the sequences of tools a plan may list
          Budget,   \* MAX_TOOL_CALLS_PER_REQUEST
          Rounds    \* MAX_TOOL_ROUNDS

LiveTools == {"fires", "evacuations"}
Tools == LiveTools \union {"guidance"}

ASSUME PlannedToolsAssumption == Budget \in Nat /\ Rounds \in Nat /\ Plans \subseteq Seq(Tools)

Call == [tool : Tools, args : {"planned", "other"}, written : {"plain", "null"}]
Planned(t) == [tool |-> t, args |-> "planned", written |-> "plain"]

(* How one dispatch can end.  Live tools turn an unavailable source into a *)
(* fact of the packet; the guidance service raises.  "crash" stands for    *)
(* every exception outside EXPECTED_TOOL_FAILURES.  The list of fires asks *)
(* for two layers, and one of them may be out while the other has records. *)
Outcomes(t) ==
  CASE t = "fires" ->
         {"records", "staleRecords", "partial", "empty", "staleEmpty", "unavailable", "crash"}
    [] t = "evacuations" ->
         {"records", "staleRecords", "empty", "staleEmpty", "unavailable", "crash"}
    [] OTHER -> {"grounded", "abstained", "failed", "crash"}
AllOutcomes == UNION {Outcomes(t) : t \in Tools}

Nothing == [live |-> {}, stale |-> {}, notes |-> {}, names |-> {},
            unavailable |-> {}, static |-> "none", reason |-> "none"]

VARIABLES plan, phase,
          left,    \* packet.policy.tool_calls_remaining
          rounds,  \* packet.policy.tool_rounds_remaining
          seen,    \* packet.tool_fingerprints
          tasks,   \* the prefetch task of each planned call
          packet,  \* the facts of the request's packet
          todo,    \* what the offline loop still has to try
          busy,    \* <<c>> while the request's own coroutine awaits call c, or <<>>
          served,  \* history: the calls dispatched to a service, in order
          heard    \* history: what each tool's service has answered
vars == <<plan, phase, left, rounds, seen, tasks, packet, todo, busy, served, heard>>

Mode ==
  IF ToSet(plan) \intersect LiveTools = {} THEN "static"
  ELSE IF "guidance" \in ToSet(plan) THEN "mixed" ELSE "live"
Authorizes(c) == c.args = "planned" /\ c.tool \in ToSet(plan)
Awaited == {i \in DOMAIN tasks : tasks[i] \in {"running", "cancelling"}}
Settled == phase \in {"Answered", "Raised"}

Init ==
  /\ plan \in Plans
  /\ phase = "Prefetch"
  /\ left = Budget
  /\ rounds = Rounds
  /\ seen = {}
  /\ tasks = <<>>
  /\ packet = Nothing
  /\ todo = <<>>
  /\ busy = <<>>
  /\ served = <<>>
  /\ heard = {}

-----------------------------------------------------------------------------
(* What one dispatch adds to the packet it is given.  The two tools that   *)
(* LiveTools and guidance leave out, get_official_fire and                 *)
(* answer_general_background, have branches of their own in execute_tool.  *)
(* Except for "partial", a call ends in one way at a time: two layers of   *)
(* one call that are stale and unavailable are not told apart from either. *)
Absorb(p, t, o) ==
  [live |-> IF o \in {"records", "staleRecords", "partial"} THEN p.live \union {t} ELSE p.live,
   stale |-> IF o = "staleRecords" THEN p.stale \union {t} ELSE p.stale,
   notes |-> IF o \in {"staleRecords", "staleEmpty"} THEN p.notes \union {t} ELSE p.notes,
   names |-> IF o = "failed" THEN p.names ELSE p.names \union {t},
   unavailable |-> IF o \in {"unavailable", "partial"} THEN p.unavailable \union {t} ELSE p.unavailable,
   static |-> IF o \in {"grounded", "abstained"} THEN o ELSE p.static,
   reason |-> IF o = "failed" THEN "tool_failure" ELSE p.reason]

\* A merge that takes over what was found, not what was unavailable.
MergeDropsOutages(p, q) ==
  [live |-> p.live \union q.live,
   stale |-> p.stale \union q.stale,
   notes |-> p.notes,
   names |-> p.names \union q.names,
   unavailable |-> p.unavailable,
   static |-> IF q.static = "none" THEN p.static ELSE q.static,
   reason |-> IF q.reason = "none" THEN p.reason ELSE q.reason]

(* _merge_isolated_packet: everything but live_limitations comes over. *)
MergeIsolated(p, q) ==
  [live |-> p.live \union q.live,
   stale |-> p.stale \union q.stale,
   notes |-> p.notes,
   names |-> p.names \union q.names,
   unavailable |-> p.unavailable \union q.unavailable,
   static |-> IF q.static = "none" THEN p.static ELSE q.static,
   reason |-> IF q.reason = "none" THEN p.reason ELSE q.reason]

(* One turn of the loop over plan.tool_calls, before anything is awaited: *)
(* s holds what the loop has done so far.                                 *)
PlanCall(s, t) ==
  LET c == Planned(t)
      Skip == [s EXCEPT !.tasks = Append(@, "skipped")]
  IN IF c \in s.seen THEN Skip
     ELSE IF s.left = 0
          THEN [Skip EXCEPT !.reason = IF @ = "none" THEN "budget_exhausted" ELSE @]
          ELSE [seen |-> s.seen \union {c}, left |-> s.left - 1, reason |-> s.reason,
                tasks |-> Append(s.tasks, "running"), served |-> Append(s.served, c)]

\* What the loop has done after each of its turns.
Looped[n \in 0..Len(plan)] ==
  IF n = 0
  THEN [seen |-> seen, left |-> left, reason |-> "none", tasks |-> tasks, served |-> served]
  ELSE PlanCall(Looped[n - 1], plan[n])

\* The packet after the packets of the first n tasks were merged into it.
Merged[n \in 0..Len(tasks)] ==
  IF n = 0 THEN packet
  ELSE IF tasks[n] = "skipped" THEN Merged[n - 1]
  ELSE MergeIsolated(Merged[n - 1], Absorb(Nothing, plan[n], tasks[n]))

-----------------------------------------------------------------------------
(* prefetch_evidence: the planned calls are counted, fingerprinted and     *)
(* started together, each on a packet of its own.                          *)
Launch ==
  /\ phase = "Prefetch"
  /\ LET s == Looped[Len(plan)]
     IN /\ seen' = s.seen
        /\ left' = s.left
        /\ tasks' = s.tasks
        /\ served' = s.served
        /\ packet' = [packet EXCEPT !.reason = s.reason]
  /\ phase' = "Gather"
  /\ UNCHANGED <<plan, rounds, todo, busy, heard>>

(* A prefetch task ends by itself, unless it was told to stop. *)
TaskAnswers(i) ==
  /\ tasks[i] = "running"
  /\ \E o \in Outcomes(plan[i]) :
       /\ tasks' = [tasks EXCEPT ![i] = o]
       /\ heard' = heard \union {<<plan[i], o>>}
  /\ UNCHANGED <<plan, phase, left, rounds, seen, packet, todo, busy, served>>

TaskUnwinds(i) ==
  /\ tasks[i] = "cancelling"
  /\ tasks' = [tasks EXCEPT ![i] = "cancelled"]
  /\ UNCHANGED <<plan, phase, left, rounds, seen, packet, todo, busy, served, heard>>

CancelNobody == tasks' = tasks /\ phase' = "Unwind"
(* The except branch of _gather_cancel_on_error, entered by a failure or   *)
(* by the deadline: every sibling is cancelled ...                         *)
CancelSiblings ==
  /\ tasks' = [i \in DOMAIN tasks |-> IF tasks[i] = "running" THEN "cancelling" ELSE tasks[i]]
  /\ phase' = "Unwind"

GatherFails ==
  /\ phase = "Gather"
  /\ \E i \in DOMAIN tasks : tasks[i] = "crash"
  /\ CancelSiblings
  /\ UNCHANGED <<plan, left, rounds, seen, packet, todo, busy, served, heard>>

(* ... and awaited before the exception goes on. *)
UnwoundOne == \E i \in DOMAIN tasks : i \notin Awaited
UnwoundAll == Awaited = {}
Unwound ==
  /\ phase = "Unwind"
  /\ UnwoundAll
  /\ phase' = "Raised"
  /\ UNCHANGED <<plan, left, rounds, seen, tasks, packet, todo, busy, served, heard>>

Merge ==
  /\ phase = "Gather"
  /\ \A i \in DOMAIN tasks : tasks[i] \notin {"running", "crash"}
  /\ packet' = Merged[Len(tasks)]
  /\ phase' = "Ready"
  /\ UNCHANGED <<plan, left, rounds, seen, tasks, todo, busy, served, heard>>

-----------------------------------------------------------------------------
(* heuristic_tool_calls: some of the tools, in this order, on arguments    *)
(* read from the question, which may differ from the plan's.               *)
OfflineCalls ==
  LET Of(t, S, a) == IF t \in S THEN <<[tool |-> t, args |-> a, written |-> "plain"]>> ELSE <<>>
  IN {Of("fires", S, a) \o Of("evacuations", S, a) \o Of("guidance", S, a) :
        S \in SUBSET Tools, a \in {"planned", "other"}}

SkipsProvider ==
  \/ Mode = "live"
  \/ Mode = "mixed" /\ packet.live # {}
  \/ Mode = "static" /\ plan = <<>>

(* terminal_significance_gap, or guidance accepted as it stands. *)
AnswersAtOnce ==
  /\ phase = "Ready"
  /\ packet.live = {}
  /\ packet.static \in {"abstained", "grounded"}
  /\ packet.static = "grounded" => ~SkipsProvider
  /\ phase' = "Answered"
  /\ UNCHANGED <<plan, left, rounds, seen, tasks, packet, todo, busy, served, heard>>

(* Without a provider, or with an answer the application owns. *)
GoesOffline ==
  /\ phase = "Ready"
  /\ phase' = "Offline"
  /\ todo' \in OfflineCalls
  /\ UNCHANGED <<plan, left, rounds, seen, tasks, packet, busy, served, heard>>

AsksProvider ==
  /\ phase = "Ready"
  /\ ~SkipsProvider
  /\ packet.live # {} \/ packet.static # "grounded"
  /\ phase' = IF packet.live # {} \/ packet.static # "none" THEN "Write" ELSE "Turn"
  /\ UNCHANGED <<plan, left, rounds, seen, tasks, packet, todo, busy, served, heard>>

ProviderWrites ==
  /\ phase \in {"Write", "Turn"}
  /\ phase' = "Answered"
  /\ rounds' = IF phase = "Turn" /\ rounds > 0 THEN rounds - 1 ELSE rounds
  /\ UNCHANGED <<plan, left, seen, tasks, packet, todo, busy, served, heard>>

ProviderAsksForTools ==
  /\ phase = "Turn"
  /\ rounds > 0
  /\ rounds' = rounds - 1
  /\ phase' = "Tools"
  /\ UNCHANGED <<plan, left, seen, tasks, packet, todo, busy, served, heard>>

ProviderFails ==
  /\ phase \in {"Write", "Turn"}
  /\ rounds' = IF phase = "Turn" /\ rounds > 0 THEN rounds - 1 ELSE rounds
  /\ phase' = "Offline"
  /\ todo' \in OfflineCalls
  /\ packet' = [packet EXCEPT !.reason = "provider_error"]
  /\ UNCHANGED <<plan, left, seen, tasks, busy, served, heard>>

-----------------------------------------------------------------------------
\* Anything the provider proposes is called.
ExecuteUnplanned(c) ==
  IF left = 0 THEN UNCHANGED <<left, seen, packet, busy, served>>
  ELSE /\ left' = left - 1
       /\ packet' = packet
       /\ IF c \in seen THEN UNCHANGED <<seen, busy, served>>
          ELSE seen' = seen \union {c} /\ busy' = <<c>> /\ served' = Append(served, c)

(* execute_tool up to its first await: plan, then budget, then repetition. *)
Execute(c) ==
  IF ~Authorizes(c) THEN UNCHANGED <<left, seen, packet, busy, served>>
  ELSE IF left = 0
       THEN /\ packet' = [packet EXCEPT !.reason = IF @ = "none" THEN "budget_exhausted" ELSE @]
            /\ UNCHANGED <<left, seen, busy, served>>
  ELSE /\ left' = left - 1
       /\ packet' = packet
       /\ IF c \in seen THEN UNCHANGED <<seen, busy, served>>
          ELSE /\ seen' = seen \union {c}
               /\ busy' = <<c>>
               /\ served' = Append(served, c)

(* The provider's calls of one turn, one after another. *)
ToolRound ==
  /\ phase = "Tools"
  /\ busy = <<>>
  /\ \/ /\ \E c \in Call : Execute(c)
        /\ phase' = phase
     \/ /\ phase' = "Turn"
        /\ UNCHANGED <<left, seen, packet, busy, served>>
  /\ UNCHANGED <<plan, rounds, tasks, todo, heard>>

OfflineStep ==
  /\ phase = "Offline"
  /\ busy = <<>>
  /\ IF todo = <<>>
     THEN phase' = "Answered" /\ UNCHANGED <<todo, left, seen, packet, busy, served>>
     ELSE /\ phase' = phase
          /\ todo' = Tail(todo)
          /\ LET c == Head(todo)
             IN IF c.tool \in packet.names \/ (c.tool = "guidance" /\ packet.static # "none")
                THEN UNCHANGED <<left, seen, packet, busy, served>>
                ELSE Execute(c)
  /\ UNCHANGED <<plan, rounds, tasks, heard>>

ToolAnswers ==
  /\ busy # <<>>
  /\ phase \in {"Tools", "Offline"}
  /\ \E o \in Outcomes(busy[1].tool) :
       /\ heard' = heard \union {<<busy[1].tool, o>>}
       /\ IF o = "crash" THEN phase' = "Raised" /\ packet' = packet
          ELSE phase' = phase /\ packet' = Absorb(packet, busy[1].tool, o)
  /\ busy' = <<>>
  /\ UNCHANGED <<plan, left, rounds, seen, tasks, todo, served>>

(* asyncio.timeout cancels the request at whatever it is awaiting. *)
Deadline ==
  \/ /\ phase = "Gather"
     /\ CancelSiblings
     /\ UNCHANGED <<plan, left, rounds, seen, packet, todo, busy, served, heard>>
  \/ /\ phase \in {"Write", "Turn"} \/ busy # <<>>
     /\ phase' = "Raised"
     /\ busy' = <<>>
     /\ UNCHANGED <<plan, left, rounds, seen, tasks, packet, todo, served, heard>>

-----------------------------------------------------------------------------
Next ==
  \/ Launch
  \/ \E i \in DOMAIN tasks : TaskAnswers(i) \/ TaskUnwinds(i)
  \/ GatherFails \/ Unwound \/ Merge
  \/ AnswersAtOnce \/ GoesOffline \/ AsksProvider
  \/ ProviderWrites \/ ProviderAsksForTools \/ ProviderFails
  \/ ToolRound \/ OfflineStep \/ ToolAnswers
  \/ Deadline

Spec == Init /\ [][Next]_vars

(* The event loop runs what is ready: synchronous stretches and cancelled  *)
(* tasks proceed, and the deadline fires.  Nothing obliges a tool, or the  *)
(* provider, ever to answer.                                               *)
Proceeds ==
  \/ Launch \/ GatherFails \/ Unwound \/ Merge
  \/ AnswersAtOnce \/ GoesOffline \/ AsksProvider
  \/ (ToolRound /\ phase' # phase) \/ OfflineStep
FairSpec ==
  /\ Spec
  /\ WF_vars(Proceeds)
  /\ WF_vars(Deadline)
  /\ \A i \in 1..Budget : WF_vars(i \in DOMAIN tasks /\ TaskUnwinds(i))

-----------------------------------------------------------------------------
Phases == {"Prefetch", "Gather", "Unwind", "Ready", "Write", "Turn", "Tools", "Offline",
           "Answered", "Raised"}

(* The state of one request stays within its types; the two budgets never  *)
(* go below zero.                                                          *)
TypeOK ==
  /\ plan \in Seq(Tools)
  /\ phase \in Phases
  /\ left \in 0..Budget
  /\ rounds \in 0..Rounds
  /\ seen \subseteq Call
  /\ tasks \in Seq({"running", "skipped", "cancelling", "cancelled"} \union AllOutcomes)
  /\ packet \in [live : SUBSET LiveTools, stale : SUBSET LiveTools, notes : SUBSET LiveTools,
                 names : SUBSET Tools, unavailable : SUBSET LiveTools,
                 static : {"none", "grounded", "abstained"},
                 reason : {"none", "budget_exhausted", "tool_failure", "provider_error"}]
  /\ todo \in Seq(Call)
  /\ busy \in Seq(Call) /\ Len(busy) <= 1
  /\ served \in Seq(Call)
  /\ heard \subseteq Tools \X AllOutcomes

(* Whatever the provider proposes and whatever the offline heuristics read *)
(* from the question, a service only ever sees calls of the frozen plan,   *)
(* and never twice the same call as written, a failed one included; nor    *)
(* more than MAX_TOOL_CALLS_PER_REQUEST calls in all phases together.      *)
PlannedAndOnce ==
  /\ Len(served) + left <= Budget
  /\ \A k \in DOMAIN served : Authorizes(served[k])
  /\ IsInjective(served)

(* Nothing a service said is lost on the way to the answer: records, an    *)
(* outage and a failure of any call, prefetched or not, are in the packet  *)
(* the answer is composed from, and stale records are there as stale.      *)
NothingLost ==
  phase = "Answered" =>
    \A h \in heard :
      /\ h[2] \in {"records", "staleRecords", "partial"} => h[1] \in packet.live
      /\ h[2] = "staleRecords" => h[1] \in packet.stale
      /\ h[2] \in {"unavailable", "partial"} => h[1] \in packet.unavailable
      /\ h[2] = "failed" => packet.reason # "none"

(* When the request is over, answered or given up, nothing it started is   *)
(* still running.                                                          *)
NoOrphans == Settled => Awaited = {} /\ busy = <<>>

(* Every request ends, a service that never answers notwithstanding. *)
EventuallySettled == <>Settled

-----------------------------------------------------------------------------
(* 06-official-live-data.md says a cached observation returned after a     *)
(* failed refresh comes with an explicit limitation.  The composer adds    *)
(* one when records it shows are stale, and those of the packet's notes.   *)
StaleIsSaid ==
  phase = "Answered" =>
    \A h \in heard : h[2] \in {"staleRecords", "staleEmpty"} =>
      packet.stale # {} \/ packet.notes # {}
=============================================================================
