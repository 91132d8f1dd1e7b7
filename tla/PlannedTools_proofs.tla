------------------------ MODULE PlannedTools_proofs -------------------------
(***************************************************************************)
(* Proofs about PlannedTools, for any plans, budgets and rounds.           *)
(***************************************************************************)
EXTENDS PlannedTools, SequenceTheorems, WellFoundedInduction, TLAPS

-----------------------------------------------------------------------------
(***************************************************************************)
(* The inductive invariant.                                                *)
(***************************************************************************)
Marks == {"running", "skipped", "cancelling", "cancelled"}

\* What the history of dispatches owes to the budget and the fingerprints.
Accounts(calls, rest, known) ==
  /\ Len(calls) + rest <= Budget
  /\ \A k \in DOMAIN calls : calls[k] \in known /\ Authorizes(calls[k])
  /\ IsInjective(calls)

\* A packet p says what a service answered.
Tells(p, h) ==
  /\ h[2] \in {"records", "staleRecords", "partial"} => h[1] \in p.live
  /\ h[2] = "staleRecords" => h[1] \in p.stale
  /\ h[2] \in {"unavailable", "partial"} => h[1] \in p.unavailable
  /\ h[2] = "failed" => p.reason # "none"

\* The tasks are those of the plan, and answer as their tools do.
OfPlan ==
  /\ phase = "Prefetch" => tasks = <<>> /\ heard = {} /\ served = <<>>
  /\ phase # "Prefetch" => Len(tasks) = Len(plan)
  /\ \A i \in DOMAIN tasks : tasks[i] \in Marks \union Outcomes(plan[i])

\* Until the gather ends nobody is cancelled, and the tasks hold every answer.
InTasks ==
  phase = "Gather" =>
    /\ \A i \in DOMAIN tasks : tasks[i] \notin {"cancelling", "cancelled"}
    /\ \A h \in heard : \E i \in DOMAIN tasks : h = <<plan[i], tasks[i]>>

InPacket ==
  phase \in {"Ready", "Write", "Turn", "Tools", "Offline", "Answered"} =>
    \A h \in heard : Tells(packet, h)

Alone ==
  /\ phase \notin {"Gather", "Unwind"} => Awaited = {}
  /\ busy # <<>> => phase \in {"Tools", "Offline"}

ToolsInv ==
  /\ TypeOK /\ Accounts(served, left, seen) /\ OfPlan /\ InTasks /\ InPacket /\ Alone

-----------------------------------------------------------------------------
(***************************************************************************)
(* Dispatches, one at a time and in the loop over the plan.                *)
(***************************************************************************)

\* A planned call that was not made before is made out of the budget.
LEMMA CallIsCounted ==
  ASSUME NEW calls \in Seq(Call), NEW rest \in Nat \ {0}, NEW known, NEW c \in Call,
         Accounts(calls, rest, known), c \notin known, Authorizes(c)
  PROVE  /\ Append(calls, c) \in Seq(Call)
         /\ Accounts(Append(calls, c), rest - 1, known \union {c})
<1> DEFINE n == Len(calls)
           new == Append(calls, c)
<1>1. n \in Nat /\ DOMAIN calls = 1..n
  BY LenProperties
<1>2. /\ new \in Seq(Call) /\ Len(new) = n + 1 /\ new[n + 1] = c
      /\ \A k \in 1..n : new[k] = calls[k]
  BY AppendProperties
<1>3. DOMAIN new = 1..(n + 1)
  BY <1>2, LenProperties
<1> HIDE DEF new
<1>4. Len(new) + (rest - 1) <= Budget
  BY <1>1, <1>2, PlannedToolsAssumption DEF Accounts
<1>5. ASSUME NEW k \in DOMAIN new PROVE new[k] \in known \union {c} /\ Authorizes(new[k])
  <2>1. k \in 1..n \/ k = n + 1
    BY <1>1, <1>3
  <2> QED
    BY <1>1, <1>2, <2>1 DEF Accounts
<1>6. IsInjective(new)
  <2> SUFFICES ASSUME NEW k \in DOMAIN new, NEW l \in DOMAIN new, new[k] = new[l] PROVE k = l
    BY DEF IsInjective
  <2>1. (k \in 1..n \/ k = n + 1) /\ (l \in 1..n \/ l = n + 1)
    BY <1>1, <1>3
  <2> QED
    BY <1>1, <1>2, <2>1 DEF Accounts, IsInjective
<1> QED
  BY <1>2, <1>4, <1>5, <1>6 DEF Accounts, new

\* The first n turns of the loop of prefetch_evidence.
Going(s, n) ==
  /\ s = [seen |-> s.seen, left |-> s.left, reason |-> s.reason, tasks |-> s.tasks, served |-> s.served]
  /\ s.seen \subseteq Call /\ s.left \in 0..Budget /\ s.reason \in {"none", "budget_exhausted"}
  /\ s.tasks \in Seq({"running", "skipped"}) /\ Len(s.tasks) = n
  /\ s.served \in Seq(Call) /\ Accounts(s.served, s.left, s.seen)

LEMMA PlanCallKeeps ==
  ASSUME NEW s, NEW n \in Nat, Going(s, n), NEW t \in Tools, t \in ToSet(plan)
  PROVE  Going(PlanCall(s, t), n + 1)
<1> DEFINE c == Planned(t)
           Skip == [s EXCEPT !.tasks = Append(@, "skipped")]
<1>1. c \in Call /\ Authorizes(c)
  BY DEF Planned, Call, Authorizes
<1>2. ASSUME NEW mark \in {"running", "skipped"}
      PROVE  Append(s.tasks, mark) \in Seq({"running", "skipped"}) /\ Len(Append(s.tasks, mark)) = n + 1
  BY AppendProperties DEF Going
<1>3. /\ Skip = [seen |-> s.seen, left |-> s.left, reason |-> s.reason,
                 tasks |-> Append(s.tasks, "skipped"), served |-> s.served]
      /\ Going(Skip, n + 1)
  <2> DEFINE q == Append(s.tasks, "skipped")
  <2>1. q \in Seq({"running", "skipped"}) /\ Len(q) = n + 1
    BY <1>2
  <2>2. Skip = [s EXCEPT !.tasks = q]
    OBVIOUS
  <2> HIDE DEF q, Skip
  <2>3. Skip = [seen |-> s.seen, left |-> s.left, reason |-> s.reason, tasks |-> q, served |-> s.served]
    BY <2>2 DEF Going
  <2>4. Going(Skip, n + 1)
    BY <2>1, <2>3 DEF Going
  <2> QED
    BY <2>3, <2>4 DEF q
<1> HIDE DEF c, Skip
<1>4. CASE c \in s.seen
  BY <1>3, <1>4 DEF PlanCall, c, Skip
<1>5. CASE c \notin s.seen /\ s.left = 0
  <2> DEFINE reason == IF Skip.reason = "none" THEN "budget_exhausted" ELSE Skip.reason
  <2>1. PlanCall(s, t) = [Skip EXCEPT !.reason = reason]
    BY <1>5 DEF PlanCall, c, Skip
  <2>2. reason \in {"none", "budget_exhausted"}
    BY <1>3 DEF Going
  <2> HIDE DEF reason
  <2> QED
    BY <1>3, <2>1, <2>2 DEF Going
<1>6. CASE c \notin s.seen /\ s.left # 0
  <2>1. PlanCall(s, t) = [seen |-> s.seen \union {c}, left |-> s.left - 1, reason |-> s.reason,
                          tasks |-> Append(s.tasks, "running"), served |-> Append(s.served, c)]
    BY <1>6 DEF PlanCall, c
  <2>2. s.left \in Nat \ {0} /\ s.left - 1 \in 0..Budget
    BY <1>6, PlannedToolsAssumption DEF Going
  <2>3. /\ Append(s.served, c) \in Seq(Call)
        /\ Accounts(Append(s.served, c), s.left - 1, s.seen \union {c})
    BY <1>1, <1>6, <2>2, CallIsCounted DEF Going
  <2> QED
    BY <1>1, <1>2, <2>1, <2>2, <2>3 DEF Going
<1> QED
  BY <1>4, <1>5, <1>6

\* Induction, about a set of numbers.
LEMMA Induction ==
    ASSUME NEW T \in SUBSET Nat, 0 \in T, \A n \in T : n + 1 \in T
    PROVE  T = Nat
<1> DEFINE U == Nat \ T
<1> SUFFICES ASSUME U # {} PROVE FALSE
    OBVIOUS
<1>1. PICK x \in U : \A y \in U : ~ (<<y, x>> \in OpToRel(<, Nat))
    BY WFMin, NatLessThanWellFounded
<1>2. x # 0 /\ x - 1 \in Nat /\ x - 1 < x
    OBVIOUS
<1>3. x - 1 \in T
    BY <1>1, <1>2 DEF OpToRel
<1> QED
    BY <1>2, <1>3


LEMMA LoopedIs ==
  ASSUME plan \in Seq(Tools)
  PROVE  Looped = [n \in 0..Len(plan) |->
                     IF n = 0
                     THEN [seen |-> seen, left |-> left, reason |-> "none",
                           tasks |-> tasks, served |-> served]
                     ELSE PlanCall(Looped[n - 1], plan[n])]
<1> DEFINE start == [seen |-> seen, left |-> left, reason |-> "none", tasks |-> tasks, served |-> served]
           Run(m, g) == g = [n \in 0..m |-> IF n = 0 THEN start ELSE PlanCall(g[n - 1], plan[n])]
           T == {m \in Nat : \E g : Run(m, g)}
<1> HIDE DEF start
<1>1. 0 \in T
  <2>1. Run(0, [n \in 0..0 |-> start])
    OBVIOUS
  <2> QED
    BY <2>1
<1>2. ASSUME NEW m \in T PROVE m + 1 \in T
  <2>1. PICK g : Run(m, g)
    OBVIOUS
  <2> DEFINE h == [n \in 0..(m + 1) |-> IF n <= m THEN g[n] ELSE PlanCall(g[m], plan[m + 1])]
  <2>2. ASSUME NEW n \in 0..(m + 1)
        PROVE  h[n] = IF n = 0 THEN start ELSE PlanCall(h[n - 1], plan[n])
    <3>1. CASE n <= m
      <4>1. g[n] = IF n = 0 THEN start ELSE PlanCall(g[n - 1], plan[n])
        BY <2>1, <3>1
      <4>2. h[n] = g[n] /\ (n # 0 => h[n - 1] = g[n - 1])
        BY <3>1
      <4> QED
        BY <4>1, <4>2
    <3>2. CASE n = m + 1
      BY <3>2
    <3> QED
      BY <3>1, <3>2
  <2>3. Run(m + 1, h)
    BY <2>2
  <2> HIDE DEF h
  <2>4. \E f : Run(m + 1, f)
    BY <2>3
  <2> QED
    BY <2>4
<1>3. Len(plan) \in T
  <2>1. Len(plan) \in Nat
    BY LenProperties
  <2> HIDE DEF T
  <2>2. T = Nat
    BY <1>1, <1>2, Induction DEF T
  <2> QED
    BY <2>1, <2>2
<1>4. PICK g : Run(Len(plan), g)
  BY <1>3
<1>5. Looped = CHOOSE f : Run(Len(plan), f)
  BY DEF Looped, start
<1> QED
  BY <1>4, <1>5 DEF start

\* The loop ends with every call counted, fingerprinted and planned.
LEMMA LoopKeeps ==
  ASSUME ToolsInv, phase = "Prefetch"
  PROVE  Going(Looped[Len(plan)], Len(plan))
<1>1. plan \in Seq(Tools) /\ Len(plan) \in Nat /\ DOMAIN plan = 1..Len(plan)
  BY LenProperties DEF ToolsInv, TypeOK
<1> DEFINE T == {n \in Nat : n <= Len(plan) => Going(Looped[n], n)}
<1>2. 0 \in T
  <2>1. Looped[0] = [seen |-> seen, left |-> left, reason |-> "none", tasks |-> tasks, served |-> served]
    BY <1>1, LoopedIs
  <2>2. tasks = <<>> /\ tasks \in Seq({"running", "skipped"}) /\ Len(tasks) = 0
    BY EmptySeq DEF ToolsInv, OfPlan
  <2>3. /\ seen \subseteq Call /\ left \in 0..Budget /\ served \in Seq(Call)
        /\ Accounts(served, left, seen)
    BY DEF ToolsInv, TypeOK
  <2> DEFINE start == [seen |-> seen, left |-> left, reason |-> "none", tasks |-> tasks, served |-> served]
  <2>4. /\ start.seen = seen /\ start.left = left /\ start.reason = "none"
        /\ start.tasks = tasks /\ start.served = served
    OBVIOUS
  <2>5. Going(start, 0)
    <3>1. start = [seen |-> start.seen, left |-> start.left, reason |-> start.reason,
                   tasks |-> start.tasks, served |-> start.served]
      OBVIOUS
    <3> HIDE DEF start
    <3> QED
      BY <2>2, <2>3, <2>4, <3>1 DEF Going
  <2> QED
    BY <2>1, <2>5
<1>3. ASSUME NEW n \in T PROVE n + 1 \in T
  <2> SUFFICES ASSUME n + 1 <= Len(plan) PROVE Going(Looped[n + 1], n + 1)
    OBVIOUS
  <2>1. n \in Nat /\ n + 1 \in 1..Len(plan) /\ Going(Looped[n], n)
    BY <1>1
  <2>2. Looped[n + 1] = PlanCall(Looped[n], plan[n + 1])
    BY <1>1, <2>1, LoopedIs
  <2>3. plan[n + 1] \in Tools /\ plan[n + 1] \in ToSet(plan)
    BY <1>1, <2>1, ElementOfSeq DEF ToSet
  <2> HIDE DEF T
  <2> QED
    BY <2>1, <2>2, <2>3, PlanCallKeeps
<1>4. T = Nat
  <2> HIDE DEF T
  <2> QED
    BY <1>2, <1>3, Induction DEF T
<1> QED
  BY <1>1, <1>4

-----------------------------------------------------------------------------
(***************************************************************************)
(* What a packet is told, it keeps.                                        *)
(***************************************************************************)
Packets == [live : SUBSET LiveTools, stale : SUBSET LiveTools, notes : SUBSET LiveTools,
            names : SUBSET Tools, unavailable : SUBSET LiveTools,
            static : {"none", "grounded", "abstained"},
            reason : {"none", "budget_exhausted", "tool_failure", "provider_error"}]

LEMMA OutcomesAre ==
  /\ \A t \in Tools : Outcomes(t) \subseteq AllOutcomes
  /\ \A o \in AllOutcomes : o \notin Marks
BY DEF AllOutcomes, Outcomes, Tools, LiveTools, Marks

LEMMA AbsorbIs ==
  ASSUME NEW p \in Packets, NEW t \in Tools, NEW o \in Outcomes(t), o # "crash"
  PROVE  /\ Absorb(p, t, o) \in Packets
         /\ Tells(Absorb(p, t, o), <<t, o>>)
         /\ \A h : Tells(p, h) => Tells(Absorb(p, t, o), h)
<1>1. /\ p.live \subseteq LiveTools /\ p.stale \subseteq LiveTools /\ p.notes \subseteq LiveTools
      /\ p.names \subseteq Tools /\ p.unavailable \subseteq LiveTools
      /\ p.static \in {"none", "grounded", "abstained"}
      /\ p.reason \in {"none", "budget_exhausted", "tool_failure", "provider_error"}
  BY DEF Packets
<1>2. /\ o \in {"records", "staleRecords", "partial", "empty", "staleEmpty", "unavailable"} => t \in LiveTools
      /\ o \in {"records", "staleRecords", "partial", "empty", "staleEmpty", "unavailable",
                "grounded", "abstained", "failed"}
  BY DEF Outcomes, Tools, LiveTools
<1> DEFINE q == Absorb(p, t, o)
<1>3. /\ q.live = IF o \in {"records", "staleRecords", "partial"} THEN p.live \union {t} ELSE p.live
      /\ q.stale = IF o = "staleRecords" THEN p.stale \union {t} ELSE p.stale
      /\ q.notes = IF o \in {"staleRecords", "staleEmpty"} THEN p.notes \union {t} ELSE p.notes
      /\ q.names = IF o = "failed" THEN p.names ELSE p.names \union {t}
      /\ q.unavailable = IF o \in {"unavailable", "partial"} THEN p.unavailable \union {t} ELSE p.unavailable
      /\ q.static = IF o \in {"grounded", "abstained"} THEN o ELSE p.static
      /\ q.reason = IF o = "failed" THEN "tool_failure" ELSE p.reason
      /\ q = [live |-> q.live, stale |-> q.stale, notes |-> q.notes, names |-> q.names,
              unavailable |-> q.unavailable, static |-> q.static, reason |-> q.reason]
  BY DEF Absorb
<1> HIDE DEF q
<1>4. /\ q.live \subseteq LiveTools /\ q.stale \subseteq LiveTools /\ q.notes \subseteq LiveTools
      /\ q.names \subseteq Tools /\ q.unavailable \subseteq LiveTools
  BY <1>1, <1>2, <1>3
<1>5. /\ q.static \in {"none", "grounded", "abstained"}
      /\ q.reason \in {"none", "budget_exhausted", "tool_failure", "provider_error"}
  BY <1>1, <1>3
<1>6. q \in Packets
  BY <1>3, <1>4, <1>5 DEF Packets
<1>7. Tells(q, <<t, o>>)
  BY <1>2, <1>3 DEF Tells
<1>8. ASSUME NEW h, Tells(p, h) PROVE Tells(q, h)
  BY <1>3, <1>8 DEF Tells
<1> QED
  BY <1>6, <1>7, <1>8 DEF q

LEMMA MergeIs ==
  ASSUME NEW p \in Packets, NEW q \in Packets
  PROVE  /\ MergeIsolated(p, q) \in Packets
         /\ \A h : Tells(p, h) \/ Tells(q, h) => Tells(MergeIsolated(p, q), h)
<1> DEFINE m == MergeIsolated(p, q)
<1>1. /\ m.live = p.live \union q.live /\ m.stale = p.stale \union q.stale /\ m.notes = p.notes
      /\ m.names = p.names \union q.names /\ m.unavailable = p.unavailable \union q.unavailable
      /\ m.static = IF q.static = "none" THEN p.static ELSE q.static
      /\ m.reason = IF q.reason = "none" THEN p.reason ELSE q.reason
      /\ m = [live |-> m.live, stale |-> m.stale, notes |-> m.notes, names |-> m.names,
              unavailable |-> m.unavailable, static |-> m.static, reason |-> m.reason]
  BY DEF MergeIsolated
<1> HIDE DEF m
<1>2. m \in Packets
  <2>1. /\ m.live \subseteq LiveTools /\ m.stale \subseteq LiveTools /\ m.notes \subseteq LiveTools
        /\ m.names \subseteq Tools /\ m.unavailable \subseteq LiveTools
    BY <1>1 DEF Packets
  <2>2. /\ m.static \in {"none", "grounded", "abstained"}
        /\ m.reason \in {"none", "budget_exhausted", "tool_failure", "provider_error"}
    BY <1>1 DEF Packets
  <2> QED
    BY <1>1, <2>1, <2>2 DEF Packets
<1>3. ASSUME NEW h, Tells(p, h) \/ Tells(q, h) PROVE Tells(m, h)
  BY <1>1, <1>3 DEF Tells
<1> QED
  BY <1>2, <1>3 DEF m

LEMMA MergedIs ==
  ASSUME Len(tasks) \in Nat
  PROVE  Merged = [n \in 0..Len(tasks) |->
                     IF n = 0 THEN packet
                     ELSE IF tasks[n] = "skipped" THEN Merged[n - 1]
                     ELSE MergeIsolated(Merged[n - 1], Absorb(Nothing, plan[n], tasks[n]))]
<1> DEFINE Turn(p, n) == IF tasks[n] = "skipped" THEN p
                         ELSE MergeIsolated(p, Absorb(Nothing, plan[n], tasks[n]))
           Run(m, g) == g = [n \in 0..m |-> IF n = 0 THEN packet ELSE Turn(g[n - 1], n)]
           Runs(m) == \E g : Run(m, g)
           T == {m \in Nat : Runs(m)}
<1> HIDE DEF Turn
<1>1. 0 \in T
  <2>1. Run(0, [n \in 0..0 |-> packet])
    OBVIOUS
  <2> QED
    BY <2>1
<1>2. ASSUME NEW m \in T PROVE m + 1 \in T
  <2>1. PICK g : Run(m, g)
    OBVIOUS
  <2> DEFINE h == [n \in 0..(m + 1) |-> IF n <= m THEN g[n] ELSE Turn(g[m], m + 1)]
  <2>2. ASSUME NEW n \in 0..(m + 1)
        PROVE  h[n] = IF n = 0 THEN packet ELSE Turn(h[n - 1], n)
    <3>1. CASE n <= m
      <4>1. g[n] = IF n = 0 THEN packet ELSE Turn(g[n - 1], n)
        BY <2>1, <3>1
      <4>2. h[n] = g[n] /\ (n # 0 => h[n - 1] = g[n - 1])
        BY <3>1
      <4> QED
        BY <4>1, <4>2
    <3>2. CASE n = m + 1
      BY <3>2
    <3> QED
      BY <3>1, <3>2
  <2>3. Run(m + 1, h)
    BY <2>2
  <2> HIDE DEF h
  <2>4. Runs(m + 1)
    BY <2>3
  <2> HIDE DEF Runs
  <2> QED
    BY <2>4
<1>3. Len(tasks) \in T
  <2> HIDE DEF T
  <2>1. T = Nat
    BY <1>1, <1>2, Induction DEF T
  <2> QED
    BY <2>1
<1>4. PICK g : Run(Len(tasks), g)
  BY <1>3
<1>5. Merged = CHOOSE f : Run(Len(tasks), f)
  BY DEF Merged, Turn
<1>6. Run(Len(tasks), Merged)
  BY <1>4, <1>5
<1> QED
  BY <1>6 DEF Turn

LEMMA TasksAre ==
  ASSUME ToolsInv
  PROVE  /\ plan \in Seq(Tools) /\ tasks \in Seq(Marks \union AllOutcomes)
         /\ Len(tasks) \in Nat /\ DOMAIN tasks = 1..Len(tasks)
         /\ \A i \in DOMAIN tasks : plan[i] \in Tools
<1>1. plan \in Seq(Tools) /\ tasks \in Seq(Marks \union AllOutcomes)
  BY DEF ToolsInv, TypeOK, Marks
<1>2. /\ Len(tasks) \in Nat /\ DOMAIN tasks = 1..Len(tasks)
      /\ Len(plan) \in Nat /\ DOMAIN plan = 1..Len(plan)
  BY <1>1, LenProperties
<1>3. tasks = <<>> \/ Len(tasks) = Len(plan)
  BY DEF ToolsInv, OfPlan
<1>4. ASSUME NEW i \in DOMAIN tasks PROVE plan[i] \in Tools
  <2>1. Len(tasks) # 0
    BY <1>2
  <2>2. Len(tasks) = Len(plan)
    <3>1. CASE tasks = <<>>
      BY <2>1, <3>1, EmptySeq
    <3> QED
      BY <1>3, <3>1
  <2>3. i \in 1..Len(plan)
    BY <1>2, <2>2
  <2> QED
    BY <1>1, <2>3, ElementOfSeq
<1> QED
  BY <1>1, <1>2, <1>4

\* The merge takes over the answer of every task.
LEMMA MergeTells ==
  ASSUME ToolsInv, phase = "Gather", \A i \in DOMAIN tasks : tasks[i] \notin {"running", "crash"}
  PROVE  /\ Merged[Len(tasks)] \in Packets
         /\ \A i \in DOMAIN tasks : Tells(Merged[Len(tasks)], <<plan[i], tasks[i]>>)
<1>1. /\ Len(tasks) \in Nat /\ DOMAIN tasks = 1..Len(tasks)
      /\ \A i \in DOMAIN tasks : plan[i] \in Tools
  BY TasksAre
<1>2. \A i \in DOMAIN tasks : tasks[i] = "skipped" \/ (tasks[i] \in Outcomes(plan[i]) /\ tasks[i] # "crash")
  BY DEF ToolsInv, OfPlan, InTasks, Marks
<1>3. packet \in Packets /\ Nothing \in Packets
  BY DEF ToolsInv, TypeOK, Packets, Nothing
<1> DEFINE Holds(n) == /\ Merged[n] \in Packets
                       /\ \A i \in 1..n : Tells(Merged[n], <<plan[i], tasks[i]>>)
           T == {n \in Nat : n <= Len(tasks) => Holds(n)}
<1>4. 0 \in T
  BY <1>1, <1>3, MergedIs
<1>5. ASSUME NEW n \in T PROVE n + 1 \in T
  <2> SUFFICES ASSUME n + 1 <= Len(tasks) PROVE Holds(n + 1)
    OBVIOUS
  <2> DEFINE k == n + 1
             before == Merged[n]
             q == Absorb(Nothing, plan[k], tasks[k])
  <2>1. k \in DOMAIN tasks /\ k - 1 = n /\ k # 0 /\ k \in 0..Len(tasks)
        /\ before \in Packets /\ (\A i \in 1..n : Tells(before, <<plan[i], tasks[i]>>))
    BY <1>1
  <2>2. Merged[k] = IF tasks[k] = "skipped" THEN before ELSE MergeIsolated(before, q)
    BY <1>1, <2>1, MergedIs
  <2>3. \A i \in 1..k : i \in 1..n \/ i = k
    OBVIOUS
  <2> HIDE DEF k, before, q, T
  <2>4. CASE tasks[k] = "skipped"
    <3>1. Tells(before, <<plan[k], tasks[k]>>)
      BY <2>4 DEF Tells
    <3> QED
      BY <2>1, <2>2, <2>3, <2>4, <3>1 DEF k
  <2>5. CASE tasks[k] # "skipped"
    <3>1. q \in Packets /\ Tells(q, <<plan[k], tasks[k]>>)
      BY <1>1, <1>2, <1>3, <2>1, <2>5, AbsorbIs DEF q
    <3>2. MergeIsolated(before, q) \in Packets
          /\ \A h : Tells(before, h) \/ Tells(q, h) => Tells(MergeIsolated(before, q), h)
      BY <2>1, <3>1, MergeIs
    <3> QED
      BY <2>1, <2>2, <2>3, <2>5, <3>1, <3>2 DEF k
  <2> QED
    BY <2>4, <2>5
<1>6. T = Nat
  <2> HIDE DEF T
  <2> QED
    BY <1>4, <1>5, Induction DEF T
<1> QED
  BY <1>1, <1>6

-----------------------------------------------------------------------------
(***************************************************************************)
(* The steps: the prefetch.                                                *)
(***************************************************************************)

\* Nothing is said of the plan but that it stays.
LEMMA AccountsStay ==
  ASSUME plan' = plan, Accounts(served', left', seen')
  PROVE  Accounts(served, left, seen)'
BY DEF Accounts, Authorizes

LEMMA LaunchKeeps == ToolsInv /\ Launch => ToolsInv'
<1> SUFFICES ASSUME ToolsInv, Launch PROVE ToolsInv'
  OBVIOUS
<1> DEFINE s == Looped[Len(plan)]
<1>1. /\ phase = "Prefetch" /\ phase' = "Gather"
      /\ seen' = s.seen /\ left' = s.left /\ tasks' = s.tasks /\ served' = s.served
      /\ packet' = [packet EXCEPT !.reason = s.reason]
      /\ plan' = plan /\ rounds' = rounds /\ todo' = todo /\ busy' = busy /\ heard' = heard
  BY DEF Launch
<1>2. Going(s, Len(plan))
  BY <1>1, LoopKeeps
<1> HIDE DEF s
<1>3. /\ seen' \subseteq Call /\ left' \in 0..Budget /\ served' \in Seq(Call)
      /\ s.reason \in {"none", "budget_exhausted"}
      /\ tasks' \in Seq({"running", "skipped"}) /\ Len(tasks') = Len(plan)
      /\ Accounts(served', left', seen')
  BY <1>1, <1>2 DEF Going
<1>4. packet' \in Packets
  BY <1>1, <1>3 DEF ToolsInv, TypeOK, Packets
<1>5. \A i \in DOMAIN tasks' : tasks'[i] \in {"running", "skipped"}
  BY <1>3, ElementOfSeq, LenProperties
<1>6. tasks' \in Seq(Marks \union AllOutcomes)
  <2>1. {"running", "skipped"} \subseteq Marks \union AllOutcomes
    BY DEF Marks
  <2>2. tasks' \in [1..Len(tasks') -> Marks \union AllOutcomes] /\ Len(tasks') \in Nat
    BY <1>3, <1>5, <2>1, LenProperties
  <2> QED
    BY <2>2, SeqDef
<1>7. TypeOK'
  BY <1>1, <1>3, <1>4, <1>6 DEF ToolsInv, TypeOK, Phases, Packets, Marks
<1>8. heard' = {}
  BY <1>1 DEF ToolsInv, OfPlan
<1>9. OfPlan'
  BY <1>1, <1>3, <1>5 DEF OfPlan, Marks
<1>10. InTasks' /\ InPacket' /\ Alone'
  BY <1>1, <1>5, <1>8 DEF ToolsInv, InTasks, InPacket, Alone
<1>11. Accounts(served, left, seen)'
  BY <1>1, <1>3, AccountsStay
<1> QED
  BY <1>7, <1>9, <1>10, <1>11 DEF ToolsInv

\* Steps that leave budget, fingerprints and dispatches alone.
LEMMA AccountsKept ==
  ASSUME ToolsInv, UNCHANGED <<plan, left, seen, served>>
  PROVE  Accounts(served, left, seen)'
BY AccountsStay DEF ToolsInv

LEMMA TaskAnswersKeeps ==
  ASSUME ToolsInv, NEW i \in DOMAIN tasks, TaskAnswers(i)
  PROVE  ToolsInv'
<1>1. PICK o \in Outcomes(plan[i]) :
        tasks' = [tasks EXCEPT ![i] = o] /\ heard' = heard \union {<<plan[i], o>>}
  BY DEF TaskAnswers
<1>2. /\ tasks[i] = "running"
      /\ UNCHANGED <<plan, phase, left, rounds, seen, packet, todo, busy, served>>
  BY DEF TaskAnswers
<1>3. /\ tasks \in Seq(Marks \union AllOutcomes) /\ Len(tasks) \in Nat /\ DOMAIN tasks = 1..Len(tasks)
      /\ plan[i] \in Tools
  BY TasksAre
<1>4. o \in AllOutcomes /\ o \notin Marks
  BY <1>3, OutcomesAre
<1>5. /\ tasks' \in Seq(Marks \union AllOutcomes) /\ Len(tasks') = Len(tasks) /\ DOMAIN tasks' = DOMAIN tasks
      /\ tasks'[i] = o /\ \A j \in DOMAIN tasks : j # i => tasks'[j] = tasks[j]
  BY <1>1, <1>3, <1>4, ExceptSeq
<1>6. phase \in {"Gather", "Unwind"}
  BY <1>2 DEF ToolsInv, Alone, Awaited
<1>7. TypeOK'
  BY <1>1, <1>2, <1>3, <1>4, <1>5 DEF ToolsInv, TypeOK, Marks
<1>8. OfPlan'
  BY <1>2, <1>5, <1>6 DEF ToolsInv, OfPlan
<1>9. InTasks'
  <2> SUFFICES ASSUME phase = "Gather"
               PROVE  /\ \A j \in DOMAIN tasks : tasks'[j] \notin {"cancelling", "cancelled"}
                      /\ \A h \in heard' : \E j \in DOMAIN tasks : h = <<plan[j], tasks'[j]>>
    BY <1>2, <1>5 DEF InTasks
  <2>1. \A j \in DOMAIN tasks : tasks'[j] \notin {"cancelling", "cancelled"}
    BY <1>4, <1>5 DEF ToolsInv, InTasks, Marks
  <2>2. ASSUME NEW h \in heard PROVE \E j \in DOMAIN tasks : h = <<plan[j], tasks'[j]>>
    <3>1. PICK j \in DOMAIN tasks : h = <<plan[j], tasks[j]>>
      BY DEF ToolsInv, InTasks
    <3>2. h \in Tools \X AllOutcomes
      BY DEF ToolsInv, TypeOK
    <3>3. tasks[j] \in AllOutcomes
      BY <3>1, <3>2
    <3>4. j # i
      BY <1>2, <3>3, OutcomesAre DEF Marks
    <3> QED
      BY <1>5, <3>1, <3>4
  <2> QED
    BY <1>1, <1>5, <2>1, <2>2
<1>10. InPacket' /\ Alone'
  BY <1>2, <1>6 DEF ToolsInv, InPacket, Alone
<1>11. Accounts(served, left, seen)'
  BY <1>2, AccountsKept
<1> QED
  BY <1>7, <1>8, <1>9, <1>10, <1>11 DEF ToolsInv

LEMMA TaskUnwindsKeeps ==
  ASSUME ToolsInv, NEW i \in DOMAIN tasks, TaskUnwinds(i)
  PROVE  ToolsInv'
<1>1. /\ tasks[i] = "cancelling" /\ tasks' = [tasks EXCEPT ![i] = "cancelled"]
      /\ UNCHANGED <<plan, phase, left, rounds, seen, packet, todo, busy, served, heard>>
  BY DEF TaskUnwinds
<1>2. tasks \in Seq(Marks \union AllOutcomes) /\ Len(tasks) \in Nat /\ DOMAIN tasks = 1..Len(tasks)
  BY TasksAre
<1>3. /\ tasks' \in Seq(Marks \union AllOutcomes) /\ Len(tasks') = Len(tasks) /\ DOMAIN tasks' = DOMAIN tasks
      /\ tasks'[i] = "cancelled" /\ \A j \in DOMAIN tasks : j # i => tasks'[j] = tasks[j]
  BY <1>1, <1>2, ExceptSeq DEF Marks
<1>4. phase = "Unwind"
  BY <1>1 DEF ToolsInv, Alone, Awaited, InTasks
<1>5. TypeOK'
  BY <1>1, <1>3 DEF ToolsInv, TypeOK, Marks
<1>6. OfPlan'
  BY <1>1, <1>3, <1>4 DEF ToolsInv, OfPlan, Marks
<1>7. InTasks' /\ InPacket' /\ Alone'
  BY <1>1, <1>4 DEF ToolsInv, InTasks, InPacket, Alone
<1>8. Accounts(served, left, seen)'
  BY <1>1, AccountsKept
<1> QED
  BY <1>5, <1>6, <1>7, <1>8 DEF ToolsInv

\* The gather is left with an exception.
LEMMA CancelSiblingsKeeps ==
  ASSUME ToolsInv, phase = "Gather", CancelSiblings,
         UNCHANGED <<plan, left, rounds, seen, packet, todo, busy, served, heard>>
  PROVE  ToolsInv'
<1>1. /\ tasks' = [i \in DOMAIN tasks |-> IF tasks[i] = "running" THEN "cancelling" ELSE tasks[i]]
      /\ phase' = "Unwind"
  BY DEF CancelSiblings
<1>2. tasks \in Seq(Marks \union AllOutcomes) /\ Len(tasks) \in Nat /\ DOMAIN tasks = 1..Len(tasks)
  BY TasksAre
<1>3. \A i \in DOMAIN tasks : tasks'[i] = IF tasks[i] = "running" THEN "cancelling" ELSE tasks[i]
  BY <1>1
<1>4. tasks' \in Seq(Marks \union AllOutcomes) /\ Len(tasks') = Len(tasks) /\ DOMAIN tasks' = DOMAIN tasks
  <2>1. \A i \in 1..Len(tasks) : tasks[i] \in Marks \union AllOutcomes
    BY <1>2, ElementOfSeq
  <2>2. tasks' \in [1..Len(tasks) -> Marks \union AllOutcomes]
    BY <1>1, <1>2, <2>1 DEF Marks
  <2> QED
    BY <1>2, <2>2, SeqDef, LenProperties
<1>5. TypeOK'
  BY <1>1, <1>4 DEF ToolsInv, TypeOK, Phases, Marks
<1>6. OfPlan'
  BY <1>1, <1>3, <1>4 DEF ToolsInv, OfPlan, Marks
<1>7. InTasks' /\ InPacket' /\ Alone'
  BY <1>1 DEF ToolsInv, InTasks, InPacket, Alone
<1>8. Accounts(served, left, seen)'
  BY AccountsKept
<1> QED
  BY <1>5, <1>6, <1>7, <1>8 DEF ToolsInv

LEMMA UnwoundKeeps == ToolsInv /\ Unwound => ToolsInv'
<1> SUFFICES ASSUME ToolsInv, Unwound PROVE ToolsInv'
  OBVIOUS
<1>1. /\ phase = "Unwind" /\ phase' = "Raised" /\ Awaited = {}
      /\ UNCHANGED <<plan, left, rounds, seen, tasks, packet, todo, busy, served, heard>>
  BY DEF Unwound, UnwoundAll
<1>2. TypeOK'
  BY <1>1 DEF ToolsInv, TypeOK, Phases
<1>3. OfPlan' /\ InTasks' /\ InPacket' /\ Alone'
  BY <1>1 DEF ToolsInv, OfPlan, InTasks, InPacket, Alone, Awaited
<1>4. Accounts(served, left, seen)'
  BY <1>1, AccountsKept
<1> QED
  BY <1>2, <1>3, <1>4 DEF ToolsInv

LEMMA MergeKeeps == ToolsInv /\ Merge => ToolsInv'
<1> SUFFICES ASSUME ToolsInv, Merge PROVE ToolsInv'
  OBVIOUS
<1>1. /\ phase = "Gather" /\ phase' = "Ready" /\ packet' = Merged[Len(tasks)]
      /\ \A i \in DOMAIN tasks : tasks[i] \notin {"running", "crash"}
      /\ UNCHANGED <<plan, left, rounds, seen, tasks, todo, busy, served, heard>>
  BY DEF Merge
<1>2. packet' \in Packets /\ \A i \in DOMAIN tasks : Tells(packet', <<plan[i], tasks[i]>>)
  BY <1>1, MergeTells
<1>3. TypeOK'
  BY <1>1, <1>2 DEF ToolsInv, TypeOK, Phases, Packets
<1>4. InPacket'
  <2>1. \A h \in heard : Tells(packet', h)
    BY <1>1, <1>2 DEF ToolsInv, InTasks
  <2> QED
    BY <1>1, <2>1 DEF InPacket, Tells
<1>5. OfPlan' /\ InTasks'
  BY <1>1 DEF ToolsInv, OfPlan, InTasks
<1>6. Alone'
  <2>1. Awaited = {}
    BY <1>1 DEF ToolsInv, InTasks, Awaited
  <2> QED
    BY <1>1, <2>1 DEF ToolsInv, Alone, Awaited
<1>7. Accounts(served, left, seen)'
  BY <1>1, AccountsKept
<1> QED
  BY <1>3, <1>4, <1>5, <1>6, <1>7 DEF ToolsInv

-----------------------------------------------------------------------------
(***************************************************************************)
(* The steps: after the prefetch.                                          *)
(***************************************************************************)
Later == {"Ready", "Write", "Turn", "Tools", "Offline", "Answered", "Raised"}

\* Once the gather is over its tasks are, whatever goes on.
LEMMA TasksStay ==
  ASSUME ToolsInv, phase \in Later, phase' \in Later, UNCHANGED <<plan, tasks>>
  PROVE  OfPlan' /\ InTasks' /\ Awaited' = {}
<1>1. Awaited = {}
  BY DEF ToolsInv, Alone, Later
<1>2. OfPlan' /\ InTasks'
  BY DEF ToolsInv, OfPlan, InTasks, Later
<1> QED
  BY <1>1, <1>2 DEF Awaited

\* Steps that call no tool: they move on, spend a round, say why or choose
\* what to try offline.
LEMMA MovesOn ==
  ASSUME ToolsInv, phase \in Later, phase' \in Later, phase \in {"Ready", "Write", "Turn", "Tools"},
         busy = <<>> \/ phase' = phase,
         UNCHANGED <<plan, left, seen, tasks, busy, served, heard>>,
         rounds' \in 0..Rounds, todo' \in Seq(Call), packet' \in Packets,
         \A h : Tells(packet, h) => Tells(packet', h)
  PROVE  ToolsInv'
<1>1. OfPlan' /\ InTasks' /\ Awaited' = {}
  BY TasksStay
<1>2. TypeOK'
  BY DEF ToolsInv, TypeOK, Phases, Packets, Later
<1>3. InPacket'
  <2>1. \A h \in heard : Tells(packet', h)
    BY DEF ToolsInv, InPacket
  <2> QED
    BY <2>1 DEF InPacket, Tells
<1>4. Alone'
  BY <1>1 DEF ToolsInv, Alone
<1>5. Accounts(served, left, seen)'
  BY AccountsKept
<1> QED
  BY <1>1, <1>2, <1>3, <1>4, <1>5 DEF ToolsInv

LEMMA OfflineCallsAre == OfflineCalls \subseteq Seq(Call)
<1> DEFINE Of(t, S, a) == IF t \in S THEN <<[tool |-> t, args |-> a, written |-> "plain"]>> ELSE <<>>
<1>1. ASSUME NEW t \in Tools, NEW S, NEW a \in {"planned", "other"}
      PROVE  Of(t, S, a) \in Seq(Call)
  <2> DEFINE c == [tool |-> t, args |-> a, written |-> "plain"]
  <2>1. c \in Call
    BY DEF Call
  <2> HIDE DEF c
  <2>2. <<c>> \in Seq(Call)
    BY <2>1
  <2> QED
    BY <2>2, EmptySeq DEF c
<1>2. "fires" \in Tools /\ "evacuations" \in Tools /\ "guidance" \in Tools
  BY DEF Tools, LiveTools
<1>3. ASSUME NEW S \in SUBSET Tools, NEW a \in {"planned", "other"}
      PROVE  Of("fires", S, a) \o Of("evacuations", S, a) \o Of("guidance", S, a) \in Seq(Call)
  <2>1. /\ Of("fires", S, a) \in Seq(Call) /\ Of("evacuations", S, a) \in Seq(Call)
        /\ Of("guidance", S, a) \in Seq(Call)
    BY <1>1, <1>2
  <2> HIDE DEF Of
  <2>2. Of("fires", S, a) \o Of("evacuations", S, a) \in Seq(Call)
    BY <2>1, ConcatProperties
  <2> QED
    BY <2>1, <2>2, ConcatProperties
<1> QED
  BY <1>3 DEF OfflineCalls

LEMMA PacketIs ==
  ASSUME ToolsInv
  PROVE  /\ packet \in Packets /\ todo \in Seq(Call) /\ rounds \in 0..Rounds
         /\ (phase \in {"Ready", "Write", "Turn"} => busy = <<>>)
BY DEF ToolsInv, TypeOK, Packets, Alone

LEMMA RoundsGoDown ==
  ASSUME rounds \in 0..Rounds, rounds > 0
  PROVE  rounds - 1 \in 0..Rounds
BY PlannedToolsAssumption

\* A reason that is given stands for the failure that gave the one before.
LEMMA ReasonTells ==
  ASSUME NEW p \in Packets, NEW reason \in {"budget_exhausted", "provider_error"}
  PROVE  /\ [p EXCEPT !.reason = reason] \in Packets
         /\ \A h : Tells(p, h) => Tells([p EXCEPT !.reason = reason], h)
BY DEF Packets, Tells

LEMMA QuietStepKeeps ==
  ASSUME ToolsInv,
         \/ AnswersAtOnce \/ GoesOffline \/ AsksProvider
         \/ ProviderWrites \/ ProviderAsksForTools \/ ProviderFails
  PROVE  ToolsInv'
<1>1. /\ packet \in Packets /\ todo \in Seq(Call) /\ rounds \in 0..Rounds
      /\ phase \in {"Ready", "Write", "Turn"} => busy = <<>>
  BY PacketIs
<1>2. CASE AnswersAtOnce
  BY <1>1, <1>2, MovesOn DEF AnswersAtOnce, Later
<1>3. CASE GoesOffline
  <2>1. todo' \in Seq(Call)
    BY <1>3, OfflineCallsAre DEF GoesOffline
  <2> QED
    BY <1>1, <1>3, <2>1, MovesOn DEF GoesOffline, Later
<1>4. CASE AsksProvider
  BY <1>1, <1>4, MovesOn DEF AsksProvider, Later
<1>5. CASE ProviderWrites
  <2>1. rounds' \in 0..Rounds
    BY <1>1, <1>5, RoundsGoDown DEF ProviderWrites
  <2> QED
    BY <1>1, <1>5, <2>1, MovesOn DEF ProviderWrites, Later
<1>6. CASE ProviderAsksForTools
  <2>1. rounds' \in 0..Rounds
    BY <1>1, <1>6, RoundsGoDown DEF ProviderAsksForTools
  <2> QED
    BY <1>1, <1>6, <2>1, MovesOn DEF ProviderAsksForTools, Later
<1>7. CASE ProviderFails
  <2>1. rounds' \in 0..Rounds
    BY <1>1, <1>7, RoundsGoDown DEF ProviderFails
  <2>2. todo' \in Seq(Call)
    BY <1>7, OfflineCallsAre DEF ProviderFails
  <2>3. packet' = [packet EXCEPT !.reason = "provider_error"]
    BY <1>7 DEF ProviderFails
  <2>4. packet' \in Packets /\ \A h : Tells(packet, h) => Tells(packet', h)
    BY <1>1, <2>3, ReasonTells
  <2> QED
    BY <1>1, <1>7, <2>1, <2>2, <2>4, MovesOn DEF ProviderFails, Later
<1> QED
  BY <1>2, <1>3, <1>4, <1>5, <1>6, <1>7

\* Every call of a tool passes the plan, the budget and the fingerprints.
LEMMA ExecuteIs ==
  ASSUME ToolsInv, busy = <<>>, NEW c \in Call, Execute(c)
  PROVE  /\ left' \in 0..Budget /\ seen' \subseteq Call /\ served' \in Seq(Call)
         /\ busy' \in Seq(Call) /\ Len(busy') <= 1
         /\ packet' \in Packets /\ \A h : Tells(packet, h) => Tells(packet', h)
         /\ Accounts(served', left', seen')
<1>1. /\ left \in 0..Budget /\ seen \subseteq Call /\ served \in Seq(Call)
      /\ packet \in Packets /\ Accounts(served, left, seen)
      /\ busy \in Seq(Call) /\ Len(busy) <= 1
  BY DEF ToolsInv, TypeOK, Packets
<1>2. CASE UNCHANGED <<left, seen, packet, busy, served>>
  BY <1>1, <1>2
<1>3. CASE /\ packet' = [packet EXCEPT !.reason = IF @ = "none" THEN "budget_exhausted" ELSE @]
           /\ UNCHANGED <<left, seen, busy, served>>
  <2>1. CASE packet.reason = "none"
    <3>1. packet' = [packet EXCEPT !.reason = "budget_exhausted"]
      BY <1>3, <2>1
    <3> QED
      BY <1>1, <1>3, <3>1, ReasonTells
  <2>2. CASE packet.reason # "none"
    <3>1. packet' = packet
      BY <1>1, <1>3, <2>2 DEF Packets
    <3> QED
      BY <1>1, <1>3, <3>1
  <2> QED
    BY <2>1, <2>2
<1>4. CASE left # 0 /\ left' = left - 1 /\ packet' = packet /\ UNCHANGED <<seen, busy, served>>
  <2>1. left' \in 0..Budget
    BY <1>1, <1>4, PlannedToolsAssumption
  <2>2. Accounts(served, left - 1, seen)
    <3>1. Len(served) \in Nat
      BY <1>1, LenProperties
    <3> QED
      BY <1>1, <1>4, <3>1, PlannedToolsAssumption DEF Accounts
  <2> QED
    BY <1>1, <1>4, <2>1, <2>2
<1>5. CASE /\ Authorizes(c) /\ left # 0 /\ c \notin seen
           /\ left' = left - 1 /\ packet' = packet
           /\ seen' = seen \union {c} /\ busy' = <<c>> /\ served' = Append(served, c)
  <2>1. left' \in 0..Budget /\ left \in Nat \ {0}
    BY <1>1, <1>5, PlannedToolsAssumption
  <2>2. served' \in Seq(Call) /\ Accounts(served', left', seen')
    BY <1>1, <1>5, <2>1, CallIsCounted
  <2> QED
    BY <1>1, <1>5, <2>1, <2>2
<1> QED
  BY <1>2, <1>3, <1>4, <1>5 DEF Execute

\* Steps of the two loops, in which a call may go out.
LEMMA CallsKeep ==
  ASSUME ToolsInv, phase \in {"Tools", "Offline"}, busy = <<>>,
         phase' \in Later, phase' = phase \/ busy' = <<>>,
         UNCHANGED <<plan, rounds, tasks, heard>>, todo' \in Seq(Call),
         (\E c \in Call : Execute(c)) \/ UNCHANGED <<left, seen, packet, busy, served>>
  PROVE  ToolsInv'
<1>1. /\ left' \in 0..Budget /\ seen' \subseteq Call /\ served' \in Seq(Call)
      /\ busy' \in Seq(Call) /\ Len(busy') <= 1
      /\ packet' \in Packets /\ \A h : Tells(packet, h) => Tells(packet', h)
      /\ Accounts(served', left', seen')
  <2>1. CASE \E c \in Call : Execute(c)
    BY <2>1, ExecuteIs
  <2>2. CASE UNCHANGED <<left, seen, packet, busy, served>>
    BY <2>2 DEF ToolsInv, TypeOK, Packets
  <2> QED
    BY <2>1, <2>2
<1>2. phase \in Later
  BY DEF Later
<1>3. OfPlan' /\ InTasks' /\ Awaited' = {}
  BY <1>2, TasksStay
<1>4. TypeOK'
  BY <1>1 DEF ToolsInv, TypeOK, Phases, Packets, Later
<1>5. InPacket'
  <2>1. \A h \in heard : Tells(packet', h)
    BY <1>1 DEF ToolsInv, InPacket
  <2> QED
    BY <2>1 DEF InPacket, Tells
<1>6. Alone'
  BY <1>3 DEF Alone
<1>7. Accounts(served, left, seen)'
  BY <1>1, AccountsStay
<1> QED
  BY <1>3, <1>4, <1>5, <1>6, <1>7 DEF ToolsInv

LEMMA ToolRoundKeeps == ToolsInv /\ ToolRound => ToolsInv'
<1> SUFFICES ASSUME ToolsInv, ToolRound PROVE ToolsInv'
  OBVIOUS
<1>1. /\ phase = "Tools" /\ busy = <<>> /\ UNCHANGED <<plan, rounds, tasks, todo, heard>>
      /\ todo \in Seq(Call)
  BY PacketIs DEF ToolRound
<1>2. CASE (\E c \in Call : Execute(c)) /\ phase' = phase
  BY <1>1, <1>2, CallsKeep DEF Later
<1>3. CASE phase' = "Turn" /\ UNCHANGED <<left, seen, packet, busy, served>>
  BY <1>1, <1>3, CallsKeep DEF Later
<1> QED
  BY <1>2, <1>3 DEF ToolRound

LEMMA OfflineStepKeeps == ToolsInv /\ OfflineStep => ToolsInv'
<1> SUFFICES ASSUME ToolsInv, OfflineStep PROVE ToolsInv'
  OBVIOUS
<1>1. /\ phase = "Offline" /\ busy = <<>> /\ UNCHANGED <<plan, rounds, tasks, heard>>
      /\ todo \in Seq(Call)
  BY PacketIs DEF OfflineStep
<1>2. CASE todo = <<>>
  BY <1>1, <1>2, CallsKeep DEF OfflineStep, Later
<1>3. CASE todo # <<>>
  <2>1. Head(todo) \in Call /\ Tail(todo) \in Seq(Call)
    BY <1>1, <1>3, HeadTailProperties
  <2>2. /\ phase' = phase /\ todo' = Tail(todo)
        /\ UNCHANGED <<left, seen, packet, busy, served>> \/ Execute(Head(todo))
    BY <1>3 DEF OfflineStep
  <2> QED
    BY <1>1, <2>1, <2>2, CallsKeep DEF Later
<1> QED
  BY <1>2, <1>3

LEMMA ToolAnswersKeeps == ToolsInv /\ ToolAnswers => ToolsInv'
<1> SUFFICES ASSUME ToolsInv, ToolAnswers PROVE ToolsInv'
  OBVIOUS
<1> DEFINE t == busy[1].tool
<1>1. PICK o \in Outcomes(t) :
        /\ heard' = heard \union {<<t, o>>}
        /\ IF o = "crash" THEN phase' = "Raised" /\ packet' = packet
           ELSE phase' = phase /\ packet' = Absorb(packet, t, o)
  BY DEF ToolAnswers
<1>2. /\ phase \in {"Tools", "Offline"} /\ busy' = <<>> /\ busy # <<>>
      /\ UNCHANGED <<plan, left, rounds, seen, tasks, todo, served>>
  BY DEF ToolAnswers
<1>3. t \in Tools
  <2>1. busy \in Seq(Call) /\ Len(busy) \in Nat \ {0}
    BY <1>2, EmptySeq, LenProperties DEF ToolsInv, TypeOK
  <2>2. busy[1] \in Call
    BY <2>1, ElementOfSeq
  <2> QED
    BY <2>2 DEF Call
<1> HIDE DEF t
<1>4. packet \in Packets /\ o \in AllOutcomes /\ phase \in Later /\ phase' \in Later
  BY <1>1, <1>2, <1>3, PacketIs, OutcomesAre DEF Later
<1>5. o # "crash" => /\ packet' \in Packets /\ Tells(packet', <<t, o>>)
                     /\ \A h : Tells(packet, h) => Tells(packet', h)
  BY <1>1, <1>3, <1>4, AbsorbIs
<1>6. OfPlan' /\ InTasks' /\ Awaited' = {}
  BY <1>2, <1>4, TasksStay
<1>7. packet' \in Packets
  BY <1>1, <1>4, <1>5
<1>8. heard' \subseteq Tools \X AllOutcomes
  BY <1>1, <1>3, <1>4 DEF ToolsInv, TypeOK
<1>9. busy' \in Seq(Call) /\ Len(busy') <= 1
  BY <1>2, EmptySeq
<1>10. TypeOK'
  BY <1>2, <1>4, <1>7, <1>8, <1>9 DEF ToolsInv, TypeOK, Phases, Packets, Later
<1>11. InPacket'
  <2>1. ASSUME phase' # "Raised", NEW h \in heard' PROVE Tells(packet', h)
    <3>1. o # "crash"
      BY <1>1, <2>1
    <3>2. CASE h = <<t, o>>
      BY <1>5, <3>1, <3>2
    <3>3. CASE h \in heard
      BY <1>2, <1>5, <3>1, <3>3 DEF ToolsInv, InPacket
    <3> QED
      BY <1>1, <2>1, <3>2, <3>3
  <2> QED
    BY <2>1 DEF InPacket, Tells
<1>12. Alone'
  BY <1>2, <1>6 DEF Alone
<1>13. Accounts(served, left, seen)'
  BY <1>2, AccountsKept
<1> QED
  BY <1>6, <1>10, <1>11, <1>12, <1>13 DEF ToolsInv

LEMMA DeadlineKeeps == ToolsInv /\ Deadline => ToolsInv'
<1> SUFFICES ASSUME ToolsInv, Deadline PROVE ToolsInv'
  OBVIOUS
<1>1. CASE phase = "Gather" /\ CancelSiblings
           /\ UNCHANGED <<plan, left, rounds, seen, packet, todo, busy, served, heard>>
  BY <1>1, CancelSiblingsKeeps
<1>2. CASE /\ phase \in {"Write", "Turn"} \/ busy # <<>>
           /\ phase' = "Raised" /\ busy' = <<>>
           /\ UNCHANGED <<plan, left, rounds, seen, tasks, packet, todo, served, heard>>
  <2>1. phase \in Later /\ phase' \in Later
    BY <1>2 DEF ToolsInv, Alone, Later
  <2>2. OfPlan' /\ InTasks' /\ Awaited' = {}
    BY <1>2, <2>1, TasksStay
  <2>3. busy' \in Seq(Call) /\ Len(busy') <= 1
    BY <1>2, EmptySeq
  <2>4. TypeOK'
    BY <1>2, <2>3 DEF ToolsInv, TypeOK, Phases
  <2>5. InPacket' /\ Alone'
    BY <1>2, <2>2 DEF InPacket, Alone
  <2>6. Accounts(served, left, seen)'
    BY <1>2, AccountsKept
  <2> QED
    BY <2>2, <2>4, <2>5, <2>6 DEF ToolsInv
<1> QED
  BY <1>1, <1>2 DEF Deadline

LEMMA ToolsInvHolds == Init => ToolsInv
<1> SUFFICES ASSUME Init PROVE ToolsInv
  OBVIOUS
<1>1. plan \in Seq(Tools)
  BY PlannedToolsAssumption DEF Init
<1>2. /\ <<>> \in Seq(Marks \union AllOutcomes) /\ <<>> \in Seq(Call)
      /\ Len(<<>>) = 0 /\ DOMAIN <<>> = {}
  BY EmptySeq
<1>3. Nothing \in Packets
  BY DEF Nothing, Packets
<1>4. TypeOK
  BY <1>1, <1>2, <1>3, PlannedToolsAssumption DEF Init, TypeOK, Phases, Packets, Marks
<1>5. Accounts(served, left, seen)
  BY <1>2, PlannedToolsAssumption DEF Init, Accounts, IsInjective
<1>6. OfPlan /\ InTasks /\ InPacket /\ Alone
  BY <1>2 DEF Init, OfPlan, InTasks, InPacket, Alone, Awaited
<1> QED
  BY <1>4, <1>5, <1>6 DEF ToolsInv

LEMMA ToolsInvStays == ToolsInv /\ [Next]_vars => ToolsInv'
<1> SUFFICES ASSUME ToolsInv, [Next]_vars PROVE ToolsInv'
  OBVIOUS
<1>1. CASE Launch
  BY <1>1, LaunchKeeps
<1>2. ASSUME NEW i \in DOMAIN tasks, TaskAnswers(i) \/ TaskUnwinds(i) PROVE ToolsInv'
  BY <1>2, TaskAnswersKeeps, TaskUnwindsKeeps
<1>3. CASE GatherFails
  BY <1>3, CancelSiblingsKeeps DEF GatherFails
<1>4. CASE Unwound
  BY <1>4, UnwoundKeeps
<1>5. CASE Merge
  BY <1>5, MergeKeeps
<1>6. CASE \/ AnswersAtOnce \/ GoesOffline \/ AsksProvider
           \/ ProviderWrites \/ ProviderAsksForTools \/ ProviderFails
  BY <1>6, QuietStepKeeps
<1>7. CASE ToolRound
  BY <1>7, ToolRoundKeeps
<1>8. CASE OfflineStep
  BY <1>8, OfflineStepKeeps
<1>9. CASE ToolAnswers
  BY <1>9, ToolAnswersKeeps
<1>10. CASE Deadline
  BY <1>10, DeadlineKeeps
<1>11. CASE UNCHANGED vars
  BY <1>11 DEF vars, ToolsInv, TypeOK, Accounts, Authorizes, OfPlan, InTasks, InPacket, Tells, Alone, Awaited
<1> QED
  BY <1>1, <1>2, <1>3, <1>4, <1>5, <1>6, <1>7, <1>8, <1>9, <1>10, <1>11 DEF Next

-----------------------------------------------------------------------------
(***************************************************************************)
(* The theorems.                                                           *)
(***************************************************************************)

\* The inductive invariant: what the budget, the fingerprints, the tasks and
\* the packet say of one another, phase by phase.
THEOREM ToolsInvariance == Spec => []ToolsInv
<1> QED
  BY ToolsInvHolds, ToolsInvStays, PTL DEF Spec

\* The state of one request stays within its types.
THEOREM ToolTypes == Spec => []TypeOK
<1>1. ToolsInv => TypeOK
  BY DEF ToolsInv
<1> QED
  BY ToolsInvariance, <1>1, PTL

\* Prefetch, provider and offline loop together call only what the plan has,
\* nothing twice as written, and never more than the budget.
THEOREM OnlyPlannedAndOnce == Spec => []PlannedAndOnce
<1>1. ToolsInv => PlannedAndOnce
  BY DEF ToolsInv, Accounts, PlannedAndOnce
<1> QED
  BY ToolsInvariance, <1>1, PTL

\* Records, outages and failures that any service reported are in the packet
\* from which the request is answered.
THEOREM AnswersAreTold == Spec => []NothingLost
<1>1. ToolsInv => NothingLost
  BY DEF ToolsInv, InPacket, Tells, NothingLost
<1> QED
  BY ToolsInvariance, <1>1, PTL

\* A request that is over has left no task and no call behind.
THEOREM NothingRunsOn == Spec => []NoOrphans
<1>1. ToolsInv => NoOrphans
  BY DEF ToolsInv, Alone, NoOrphans, Settled
<1> QED
  BY ToolsInvariance, <1>1, PTL
=============================================================================
