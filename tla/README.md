# FireLens BC: TLA+ models, checks and proofs

FireLens answers questions about wildfires in British Columbia from official
live layers (ArcGIS), from a reviewed corpus, and with a language model reached
through OpenRouter. This directory models the parts of it whose correctness
depends on the order in which things happen: calls that share a provider,
lookups that share a cache, a roster fetched in pages while it is edited, tool
calls that share a request, processes that share a review workspace or an index
directory and may die at any write, a question that passes a dozen decisions while
any provider call may fail, and a browser session whose answers come late.

Paths below are those of the repository; the Python package is `src/firelens`
(`src/src/firelens` in `PROJECT.json`, whose paths start at its parent).

## 1. The system

| Component | State it keeps | Operations | What is hard | What makes it correct |
| --- | --- | --- | --- | --- |
| Provider resilience: `providers/openrouter.py`, `openrouter_support.py`, `openrouter_operations.py` | per stage a circuit (failures, open until, probe flag) and an adaptive limit (limit, active, successes); a global semaphore | `_post` = admit, then attempts with retries; success, failure and abandonment are recorded | calls interleave at every await; late outcomes of calls admitted under an earlier state of the circuit; cancellation anywhere; unexpected exceptions | the circuit opens at its threshold and only an answer that is no failure closes it; capacity and permits are exactly those held; a waiter is woken; a stage always reopens |
| Live record cache: `live.py` `_features`, `_cache_get`, `_cache_put` | LRU entries, a feature counter, a lock for every layer | lookup, fetch under the lock, stale-if-error | herd of lookups, stale values computed before an await, cancellation in the queue | one fetch at a time and none that is needless; counters match; stale only within its limits; never an older roster over a newer one |
| Live layer refresh: `live.py` `_refresh`, `_fetch_page`, `_published_count`, `arcgis_geometry.py` | the pages of one fetch | count and first page together, further pages by offset | the source is edited between two requests; it may give short pages | what is accepted as complete is complete |
| Live query composition: `live.py` `map_results`, `nearby_page`; `live_admission.py`, `live_answering.py` | none beyond the cache | compose layers that are fresh, stale, partial or unavailable | one of several layers fails; orphaned requests on the upstream semaphore | a degraded layer is always named |
| Agent tool loop: `agent/prefetch.py`, `loop.py`, `loop_support.py`, `budget.py`, `runtime_tools.py`, `packet.py`, `failures.py` | the packet and the policy of one Ask | prefetch the plan together, merge, tool rounds, offline loop | three phases spend one budget; siblings of a failed task; the deadline at any await | only planned calls, none twice, at most four; nothing found is lost; no task outlives the request |
| Query planning and composition: `agent/query_plan.py`, `compose.py`, `coordinator.py` | none | classify a question, render an answer | phrase grammars | exact authority of the plan |
| Blind review session: `review_workspace/session*.py`, `journal.py` | journals, receipts, locks, finalization on disk | create, present, acknowledge, decide, lock, finalize, progress, evidence | several processes; a crash or failed write between any two files; torn files | reviewers are blind; adjudication only after both locks; one order of events; the files agree |
| Review tools: `review_workspace/api.py`, `cli.py`, exports | none of their own | HTTP and CLI over the session | | |
| Request guard: `request_guard.py`, `api/middleware.py` | fixed windows per client, at most `max_clients` | check | window boundary, eviction | bounded requests per window |
| Retrieval index: `corpus.py`, `ingestion/chunking.py`, `retrieval/embeddings.py`, `vector.py`, `storage.py`, `runtime.py` | the corpus and its manifest; matrix, cache, index manifest | publish; build under a file lock; load with checks | crash between two files; a corpus published under a build; a load under a build | a load pairs parts of two builds only if something moved under it or under the build; what is built undisturbed loads; no vector in the cache file is paid for twice |
| Retrieval pipeline: `retrieval/pipeline.py`, `answering/adaptive_retrieval.py`, `context_packet.py`, `context_support.py` | none across requests | embed, rank, rerank, a second cycle, judge the evidence | a failed call in either cycle | no evidence after a failed search |
| Reviewed answering: `answering/service.py`, `service_support.py`, `intent.py`, `grounded.py`, `validate.py`, `publication/` | none across requests | route, plan, generate, repair, salvage, compile, fall back | the error paths of every stage, a dozen early returns | nothing unvalidated is published; an answer from partial support says so; general knowledge only where it is allowed; bounded calls |
| API runtime: `runtime.py`, `api/factory.py`, `api/answer_routes.py` | the loaded runtime | routes, one public deadline | deadline | typed errors |
| Ask session of the web client: `features/ask/useFireLensSession.ts`, `roster.ts`, `askContinuation.ts` | view, history, roster, selection, location, the active request, the location generation | ask, submit a location, prompt for one, reset, select | aborted, late and superseded answers; a prompt granted after a reset; closures of an old render | only the latest request changes the view; a reset is a boundary |
| Province map of the web client: `features/near-me/useProvinceMap.ts` | one controller, a generation, a timer, when the next request is due | poll, pause, refresh, start again at a boundary | hiding, navigation and the button against answers and the timer | one owner of the spinner; nothing taken across a boundary; it keeps polling |

How they interact: a route of the API enters the agent under one
`asyncio.timeout`; the agent calls `LiveDataService` and the reviewed answering
service, both of which may be under way for many requests at once; the answering
service, the planner and the chat loop call the one `OpenRouterProvider`. The
review workspace is a separate program over its own directory, and so are the
programs that publish the corpus and build the index, which meet the server only in
files. The web client meets the API only through requests that it may abort.

## 2. Modules

| Module | Models |
| --- | --- |
| `StageCircuit` | the circuit of a stage as pure operators: admission, success, failure, refusal, abandonment, the passing of time |
| `StagePressure` | the adaptive limit of a stage as pure operators: acquire, release, overload, validated success |
| `CapacityGate` | abstract: what the provider promises about load |
| `ProviderCalls` | the calls over both, the condition of a stage, the global semaphore, retries, cancellation; refines `CapacityGate` |
| `LiveCache` | lookups, the lock of a layer, the LRU cache, stale-if-error |
| `LiveRefresh` | one paged fetch against a source that is edited |
| `PlannedTools` | one Ask: prefetch, merge, provider rounds, offline loop, deadline |
| `BlindReview` | abstract: what a blind review promises, without files |
| `ReviewSession` | journals, receipts, locks and finalization with processes that die; refines `BlindReview` |
| `ProvinceMap` | the hook of the province map: its effect and everything that calls into it |
| `AskSession` | the session of the web client; extends `ProvinceMap`, whose boundaries are its questions and resets |
| `IndexBuild` | publication of the corpus, builders under the lock, a server that loads |
| `GroundedDraft` | what of a generated draft validates, is salvaged and may be published, as pure operators |
| `Answering` | one question to the reviewed corpus, over `GroundedDraft` |
| `ProviderCalls_proofs`, `LiveCache_proofs`, `LiveRefresh_proofs`, `PlannedTools_proofs`, `ReviewSession_proofs`, `IndexBuild_proofs`, `Answering_proofs` | the theorems of each |
| `AskSession_proofs` | the theorems of `ProvinceMap` and of `AskSession`, which contains it |
| `MC...` | the values of constants for TLC |

### Provider calls

asyncio switches tasks only where a coroutine suspends, and the two asyncio locks
here never span a suspension, so a step of `ProviderCalls` runs from one
suspension to the next. `pc` says where a call is suspended: `waiting` or `woken`
in the condition of its stage, `queued` for the semaphore, `posting`, `backoff`
before a retry. `AdmitStage` is `_admit_stage` up to the first suspension of the
first attempt; `Answer` is everything from the arrival of an answer to the next
suspension or the end of the call, the settling of circuit and limit included.
`Cancel` may strike at every suspension. The outcome `escape` is an exception that
`_post` handles nowhere (malformed bytes in `response.json()`, a `Retry-After`
beyond a float). Time is `remaining`, which `Tick` lowers; a `Retry-After` longer
than the cooldown is one of `RetryAfters`.

Half-open probes have no owner in the code: `probe_in_flight` is a flag of the
stage. The history variable `prober` remembers which call was admitted as one,
which lets `ProbeFlagOwned` be said. `cleared` says of the last step that the upstream
answered with something that is no failure (`Validated`, `Refused`). A post leaves the
wire in many ways, a cancellation, a timeout and an escape among them, so
`ClosesOnlyOnAnswer` asks for `cleared` and not only for a post that ended.

### Live cache and refresh

`LiveCache` counts time in ticks and keeps the age of every entry's observation
(`age`, from the end of its fetch) and of its data (`data`, from the start). The
lock of a layer is the queue of those who want it. `stale` collects the ages at
which records were handed out as stale.

`LiveRefresh` is one call of `_refresh`. The publisher inserts and deletes records
between the answers (`MaxEdits` bounds how often), and gives pages of at most
`cap` records. `always`, `inserted`, `deleted` and `between` are history. The page
loop, the rejections of a repeated page, of an offset that does not move and of
the page and record limits, and the final count test are the code's. Two adjacent
answers of `gather` may come in either order; `between` records a deletion after
the first page and before the count.

### Tool calls of one Ask

A call is a tool, its arguments after the normalization of
`PlannedToolCall.matches`, and whether nulls were written, because the fingerprint
is taken before that normalization. `Launch` is the synchronous loop over the plan;
each task fills a packet of its own, `Merge` folds `MergeIsolated` over them in plan
order. `GatherFails` and the first disjunct of `Deadline` enter the `except` branch
of `_gather_cancel_on_error`; `Unwound` leaves it. Then the provider writes, asks for
tools in at most `Rounds` rounds, or fails into the offline loop. Live tools turn an
unavailable source into a fact of the packet, the guidance service raises; `crash`
stands for every exception outside `EXPECTED_TOOL_FAILURES`. `heard` and `served`
are history.

`Absorb` is `execute_tool` for the two lists of official records and for the search of
reviewed guidance. `get_official_fire`, which may answer from the packet without a
request, and `answer_general_background`, which is the guidance service again, are left
out. A call ends in one way at a time, but for `partial`: the list of fires asks for two
layers, and one may be out while the other has records. A layer that is stale beside one
that is out is not told apart from either.

### Blind review

An operation replays and checks everything under the `flock` (`Begin`), then writes
the journal event, its receipt and perhaps a third file, one action per file.
`Stop` is a death or a failed write between two of them, `Tear` a write that leaves
part of its bytes. A hash is what it commits to: a receipt holds the event, the
finalization the journals. `doing` says what each worker still has to write.

### Ask session and province map

The browser runs one callback at a time, so an action is a callback with everything it
calls. A fetch of the map occupies a slot from its start to its settlement; the checks
`token === generation.current` and `signal.aborted` are the flags `current` and
`aborted` of that slot, so no counter grows. `Rerun` is the cleanup of the effect and
its next body, which React runs when the navigation epoch or `enabled` changes.

A handler sees the state of the render that made it. For a click that is the current
state (`Screen`); the success callback of `getCurrentPosition` keeps what was on screen
when the button was pressed, which is `seen` of its prompt. `Submit` is
`submitQuestionWithContext` up to its `await`, `SettleAsk` the rest, in the three ways
it can go: the answer of the request that owns the view, its failure, or anything that
comes for a request that no longer does. A turn is the number of its request; `resets`
in a request, `asked`, `resets` and `waiting` in a prompt, and `answered` are history.
The roster is its set of records. What `nextRoster` keeps beside them, the merge of
`partial_layers` into a roster that stays included, is left out, and no property
speaks of it.

### Index build

Three kinds of process share files. `build_corpus` writes the chunks in place
(`OpenCorpus` leaves a proper prefix) and replaces its manifest afterwards. A builder
reads the manifest of the corpus, then the chunks, *before* it takes the lock, embeds what the cache lacks batch by batch,
and writes matrix, cache and manifest; the manifest hashes the files as they then are.
`BuilderDies` and `PublisherDies` may come anywhere. The server reads one file at a time
and opens the matrix twice, once to hash and once to load it. A hash is the content it
was taken of. `crossed` is history: a file moved while a server was loading, or the
corpus while a builder held chunks of it. `fresh` is history too: the last thing that
happened to the files is a build that was *not* crossed. A crossed build says it is built as
well, and what it leaves need not load, so `BuiltIsLoadable` says nothing of it; that a
server can then serve a mixed index is the boundary drawn by `MixedNeedsOverlap`.

### Answering

`at` names the provider call that is awaited, so a step runs from one `await` of the
service to the next. A question is what the deterministic readers find in it (its
route, how it asks for sources, whether it is about something particular), a packet is
what the evidence amounts to (coverage, conflicts, rationale, enumerated sections), a
claim is what the validator finds (`GroundedDraft`); the texts themselves are data.
`Decided` keeps the order of the early returns of `_ask_with_trace`, which is what
decides the outcome when several conditions hold at once. Where the code tries the
compiler of exact wording, `Compiles` may or may not succeed, since that depends on
text.

How a question asks for sources is read five times, by readers that do not agree, and
`asksFor` has a member for each. The planning preflight of `execute_search` looks for the
question in the corpus (`found`) and `apply_planning_decision` at the wording of the corpus
patterns (`wording`); both override the planner. At publication the service asks whether a source is
`named`, whether the corpus holds what is referred to, by a second search (`held`), and
whether the attribution is explicit (`attributed`). The last uses the same patterns but
passes over the wording of a question about papers to pack: "what documents should I bring"
has the wording and is not `Explicit`. No member implies another.

The support decision is made on the whole packet. If a source is named, `Confined` says what
of that packet is then published: items of the source, and with the others a rationale, a
conflict and sections may go; rationale, conflicts and sections are read from what is left
(`publication`), the support is not decided again.

## 3. What the runs check

| Run | Instance | Shows |
| --- | --- | --- |
| `ProviderSafety` | 4 slots, 3 in one stage, 2 permits, threshold 2, 2 attempts, every outcome | types; a circuit is open exactly at its threshold; the probe flag is up only half open; counters match holders; no lost wakeup; only an answer closes a circuit; refinement of `CapacityGate` |
| `ProviderRecovery` | 3 slots in 2 stages, no escape | a raised flag is owned; every stage admits again and again, and has room again and again |
| `ProviderEscape` | 3 slots, 1 stage, with escapes | **violated**: a stage that never admits again |
| `LiveCache` | 3 lookups, 3 keys of 2 layers, 2 entries | counters and limits; no needless fetch; stale within its limits; never older over newer |
| `LiveRefresh` | ids 1..6, pages of 1 or 2, 4 pages, 5 records, 3 edits | a quiet source is read exactly; a missing record costs a deletion, and the count catches it unless the deletion came between page and count or an insertion made up for it |
| `PlannedTools` | plans of every mode, budget 4, 2 rounds | budget and plan bind every phase; findings survive to the answer; no orphans; every request ends |
| `PlannedToolsStale` | same | **violated**: a stale empty layer without its limitation |
| `ReviewCrashes` | 2 workers, 2 reviewers, 1 adjudicator, 2 cases, 2 verdicts | at most one event without receipt; whole unless interrupted; evidence stands; refinement of `BlindReview`; a session ends unless interrupted |
| `AskSession` | 2 questions, 1 prompt, 1 reset, 1 record, 1 turn kept, 2 slots of the map | one owner of the view; a reset is a boundary; a location is spent on its own question and a question carries the latest turns; waiting ends; the map's spinner is owned, nothing crosses a boundary, and it keeps polling |
| `IndexBuild` | 2 revisions, 2 publications, 2 builders, 3 builds | mixed only if something moved under a load or a build; what is built with no publication under it loads; no vector in the cache file is lost |
| `Answering` | every route and lane with nine combinations of the five readings, 2 sections, 4 claims, adaptive | evidence only after a search without failure; general knowledge bounded; what is published stands; partial support says so; calls bounded |
| `AnsweringFailure` | same, one cycle | **violated**: a failed planner, or a failed search for a named source, without a typed failure |

Each violated run states what a document of the repository says and is a finding in
`PROJECT.json`, with the quotation and the line:

1. A bounded cooldown: an exception of an unexpected type leaves the probe flag up, and
   the stage is shut until the process restarts.
2. A stale observation comes with an explicit limitation: `_merge_isolated_packet`
   drops `live_limitations`, and nothing else says it when no record matched.
3. A planner or retrieval failure is a typed failure: the service answers from general
   knowledge after the former, and abstains after the latter when a source is named.

### Other divergences, and where the properties draw the line

These were met while modelling. No run of their own states them; a property that
holds says exactly how far the code goes.

- *One half-open probe is admitted* (`V1_5_2_FULL_IMPROVEMENT_PLAN.md:420-424`): a
  straggler, cancelled or failing late, lowers the flag of a probe that is not its own,
  and a second one is admitted. `ProbeOnlyHalfOpen` and `ClosesOnlyOnAnswer` hold anyway,
  and no property forbids the second probe.
- *Partial is not complete* (`01-product-contract.md:15`): count and pages are separate
  requests, so a deletion between the first page and the count hides a record that was
  there throughout. `MissingNeedsDeletion` names that gap (`between`).
- *Deduplicated by normalized arguments* (`adr/0013`): the fingerprint keeps nulls which
  authorization drops. `PlannedAndOnce` holds for calls as written.
- *Session status rechecks every receipt* (`V1_5_2_HUMAN_REVIEW_RUNBOOK.md:158-160`):
  `progress` reports final without `finalization.json`; `EvidenceStands` still holds.
- *The most recent six turns are sent* (`10-conversation-and-state.md:13`): the callback
  of a location prompt has the history of the click, and lacks an answer that came
  while the prompt was open. The history kept is built on what was sent, so that turn is
  lost for later questions too. `PromptIsLatest` asks for the exact turns only as long as
  no granted prompt was opened over a request in flight (`Overlapped`).
- *An index never mixes builds* (`TECHNICAL_HANDBOOK.md:282-283`): hashes are taken at
  the end of a build and the load opens files one by one, so a corpus published meanwhile
  is not noticed if it keeps its ids. `MixedNeedsOverlap` is the boundary.
- A *grounded* answer drops claims of Tier A and B without a word, and with them sections
  that were enumerated; `PublishedStands` asks only that they were covered before. An
  *adjacent* question is compiled without regard to partial support; `PartialIsSaid` exempts it,
  and is about the judged evidence only, not about what is left out of a draft.
- Papers to pack: the wording of a question about
  papers to pack sends it to the corpus, and it may then be answered from general knowledge when the
  corpus has nothing. `GeneralKnowledgeIsBounded` therefore has two parts, one for each way
  of reading, and both exempt a planner that failed (finding 3).
- A failed second cycle of `adaptive_v1` discards a usable first one; a corpus vector
  batch that fails loses the batches before it, since the cache is written at the end.

### Why the bounds are enough

- Provider: three slots of one stage are a call admitted before the circuit opened, a
  probe, and a third caller; a fourth in another stage contends for the global permits.
  A threshold and a success window of 2 separate the first from the last; two attempts
  give a retry; `MinConcurrency` 1 under 2 or 3 permits lets a limit fall and climb.
- Cache: three lookups are one that fetches, one that waits and one that is cancelled or
  meets the entry later; two keys share a layer's lock and three keys overflow two
  entries; sizes 0 and 2 under 3 features overflow the features.
- Refresh: six records in pages of one or two give up to four pages, the record limit of
  5 and the page limit of 4 are both reached, and three edits are enough for a deletion
  hidden by an insertion with one to spare.
- Tools: seven plans cover the modes and the repeated call of the repository's own test;
  two rounds and four calls are the code's constants.
- Review: two workers race for every guard; two cases make an order per actor; two
  verdicts make a ruling distinguishable.
- Session: two questions are one and the one that supersedes it; a prompt and a reset may
  fall before, between and after them. One turn kept makes the cut of the history happen.
  Two slots of the map hold a current fetch and an aborted one that has not settled; a
  third would be another aborted one.
- Index: two revisions with the same ids and a common text are the hard case, where only
  hashes tell them apart; two publications come and go; two builders race for the lock, and
  a third build follows a death.
- Answering: the readings combine as none, each that can stand alone, and those that the
  disagreements of the readers make; a claim for all sections, one for
  each and one that fails are enough for every verdict of the validator and of salvage.

### Fairness

- `ProviderCalls`: a task that can run does; a post ends because the HTTP client has a
  timeout; a sleep ends; strong fairness of `TakePermit` because `asyncio.Semaphore`
  serves its waiters in order. Nobody is obliged to call or to cancel.
- `PlannedTools`: synchronous stretches run, a cancelled task unwinds, and the deadline
  fires (`asyncio.timeout`). No tool and no provider has to answer, so a request ends
  because of the deadline and the cancellation of siblings, not because services behave.
- `ReviewSession`: a worker that is not stopped goes on writing; an operation that is
  tried again and again appends its event in the end; actors keep asking for their next
  step. The property allows for interruptions, which wedge a session on purpose.

- `AskSession` and `ProvinceMap`: a request settles, by its answer, a failure or the
  client's deadline (`fetchWithTimeout`); time passes `dueAt` and the browser runs an armed
  timer. Nobody has to ask, to press Refresh or to come back to the page, and
  `KeepsRefreshing` speaks only of a page that stays visible with the map enabled.

`CHECK_DEADLOCK FALSE` is said only where the system may stop: a fetch or a request that
ended, a session that is final or refuses, a browser in which nobody clicks any more.
`LiveCache`, `IndexBuild` and `Answering` are checked for deadlock.

## 4. What is proved

`ProviderCalls_proofs` holds for every finite set of calls, every set of stages, every
assignment of calls to stages, and every threshold, cooldown, number of permits, floor
and window within the named assumptions: `CircuitAssumption` (a threshold of two or more, a
positive cooldown), `PressureAssumption` (a floor no higher than the ceiling, a positive
window) and `CallsAssumption`.

The inductive invariant `IInv` is the type invariant and

- *coherence* of every circuit: open exactly at the threshold, the flag only half open.
  Neither half is inductive alone, since a failure with the flag up opens the circuit
  whatever the count;
- *gating* of every limit: between floor and ceiling;
- the *accounts*: `active` is the number of calls of the stage that hold capacity, the
  permits are what the calls on the wire left over;
- *no lost wakeup*, and that a call in backoff has an attempt left.

The operators of `StageCircuit` and `StagePressure` are shown to preserve coherence and
gating once, as lemmas; entering and leaving a stage are lemmas about cardinalities; each
action then has one step. `Invariance` gives `TypeCorrect`, `OpenExactly`,
`HalfOpenProbes`, `Accounting` and `WakeupsArrive`. `ClosingNeedsAnswer` and `ProbesAreOwned`
argue about steps; the latter assumes that no outcome escapes, which is exactly finding 1,
and strengthens ownership with who may lower the flag. `KeepsGate` is the refinement:
initial states map to initial states, every step to a step of `CapacityGate` or a stutter.

`Answering_proofs` holds for every set of questions, packets and drafts within the
assumptions of `Answering`. Its `IInv` says what is known at each await of the service:
the types; that a question on its way has answered nothing (`Silent`); that a search that
lost a call is not complete, and never comes to a draft or to evidence (`Honest`); what a
question has cost at most where it stands (`Cost`); who may be told general knowledge
(`Guarded`); that a draft is only asked for when the evidence answers the question at least
in part (`Drafting`); and with that `PublishedStands` and `PartialIsSaid`. What salvage returns and what a
publication needs are lemmas about the operators of `GroundedDraft`, so drafts of any
number of claims are covered. From it follow `EvidenceWasRetrieved`, `BackgroundIsGuarded`,
`PublicationStands`, `PartsAreLabelled` and `CallsStayBounded`.

The first part of `AskSession_proofs` is about `ProvinceMap` and holds for any number of unsettled requests and any navigation at
all. `MapInv` says that the refs agree: the only live request is that of the controller, it
has crossed nothing, and it alone keeps the spinner up. Each function of the effect keeps
`Sane`, as a lemma on values of `map`; the actions are made of them.

The second part builds on it: every step of the session is a navigation, a step of the
map, or none, so `MapInv` carries over. `SessionInv` adds the owner of the view and
`Boundary`: turns, location and the request in flight are of this side of the reset, and a
prompt of the current generation, the only kind that can still submit, saw only such
turns. `ResetIsBoundary` is not inductive without the prompts. `PromptsAreSpentOnce` needs a
second layer, `Turns`: a valid prompt is the last one, opened since the last question, and
the history is the last turns answered unless a prompt overlapped; it rests on two lemmas
about keeping the last turns (`LastOfLast`, `LastOfAppend`).

`LiveCache_proofs` holds for any lookups, layers, keys, ages, limits and sizes of answers
(`CacheAssumption`; `MaxFeatures` is a natural number). `CacheInv` adds to the types and to
`StaleIsBetween`: `Counted`, the counter is the sum of the entries, within both limits and one
entry for each key; `OneFetch`, at most one fetch for each layer; `InLine`, a lookup that
waits does so once, for the lock of its layer, and fetches nothing; and `FetchIsNeeded`, what is cached for
a key that is being fetched is no longer fresh and its data are as old as the fetch or older.
Without `OneFetch` and `InLine` neither `NoNeedlessFetch` nor `NeverOlder` can be carried
over a step, since another fetch could end meanwhile. Most of the proof is arithmetic of
segments of the LRU list: what `Held` is after an entry moves to the end, is taken out or is
evicted.

`LiveRefresh_proofs` holds for any number of records, of edits, and any page sizes and limits
(`RefreshAssumption`). It first shows of any finite set of numbers that the place of a
record in the order is one of a bijection (`PlacesAreTaken`), so a page covers as many places
as it holds records and an empty or uncut page leaves nothing. `RefreshInv` then says, while
the fetch is under way: `Overlooked`, the lasting records behind the offset which no page
holds, are at most as many as the deletions, because a deletion moves each record forward by one
place at most, so only one passes the offset; `Covered`, without an insertion and outside the gap the count bounds what was
read and what the source holds together; and `Prefix`, as long as nobody edits what was read
is the beginning of the source. The two properties of the run follow where a last page is
accepted, and are not inductive by themselves, since they speak only of the end.

`PlannedTools_proofs` holds for any tools, plans, budget and number of rounds
(`PlannedToolsAssumption`). `ToolsInv` is the types and: the account of the budget with the
calls served so far, which are planned and distinct (`Accounts`); that the tasks are those of the
plan and answer as their tools can (`OfPlan`); that what the services said is in the tasks until
the merge (`InTasks`) and in the packet after it (`InPacket`); and that outside their phase no task
and no call is under way (`Alone`). The loops of `Launch` and `Merge` are the functions
`Looped` and `Merged`, about which the lemmas go by induction on the plan.

`IndexBuild_proofs` holds for any revisions, any number of builders and builds, and deaths
anywhere. Its `IInv` says who holds the lock (`Exclusive`), what a builder knows of the files
where it stands (`Building`: as long as nothing crossed it, its chunks are the corpus, and its
matrix and cache are those on disk), that a manifest of a build which nothing crossed is of
one piece, and what a load has compared so far (`Serving`). `OneBuilder` is a theorem without a
run: the lock does exclude.

`ReviewSession_proofs` holds for any reviewers, cases, verdicts and workers, with a death or a
torn file at any write. `SessionAssumption` is about the cast; `AbsenceAssumption` says that the
two markers for a file that is not there or not readable are no journals. The invariant
`IInv` has: what a journal tells is a chain of events in the order of its actor (`Telling`,
`Script`); the adjudicator has begun only after both locks; one worker in the guard; what that worker may rely on at each of its writes (`Working`); receipts behind
their journal for one actor only and by one event only (`Receipted`); what is whole unless
interrupted (`Unbroken`); and a finalization commits to the journals as they are (`Sealed`).
From it follow the three invariants, by counting where they speak of cardinalities, and
`TellsABlindReview`, the refinement of `BlindReview`: the mapping reads the journals
without a torn end, so a write of a journal is the step of the abstract review and every
other write, death or torn file is a stutter.

Where a model folds over a sequence in a way that a theorem needs (`Held`, `Looped`, `Merged`)
it is a recursive function, for which the provers know only a CHOOSE. That such a function
exists, and what it computes, is shown by an induction made by hand: the lemma `Induction`
about sets of natural numbers (from `WFMin` and `NatLessThanWellFounded` of the library) applied
to the set of lengths for which the claim holds.

Only model-checked: liveness (`StageReopens`, `CapacityRecurs`, `EventuallySettled`,
`EventuallyFinalized`, `WaitingEnds`, `KeepsRefreshing`), which needs fairness and ENABLED; and
what the three violated runs refute (`StaleIsSaid`, `FailureIsTyped` and, with escapes,
`StageReopens`). Every safety property of a passing run is a theorem, `TypeOK` included, which
in most modules is no property of a run but serves the proofs; every inductive invariant was
checked by TLC on the instance of its run before it was proved. The two refinements
and the two action properties are among them.

## 5. Not modelled, and why

- Phrase grammars, prose, rails and the readers of text: pure functions of text. Where
  their outcome steers control it is a field of a question, a packet or a claim.
- Live query composition and the upstream semaphore of `LiveDataService`; the metadata
  request of a refresh only fails a fetch, which `Fail` allows anyway.
- The request guard: one synchronous function over a dictionary.
- The cache of query vectors (`pipeline.py`), which stores a vector before the index
  has accepted it; the bound-candidate check of `runtime_artifact.py`.
- In the web client: the status refresh, selecting a record on the map, unmounting.
- Traces and logs: nothing reads them back. Ingestion, evaluation and release scripts:
  batch programs, most of the repository's lines.

## 6. Plan

1. *Done*: provider resilience with proofs; cache; refresh; tool loop; review session;
   ask session with the province map; index build; answering.
2. Next to model: `LiveMap` (layers, upstream semaphore, orphans of `gather`; composes
   `LiveCache`) and `RequestGuard` (windows against an abstract bound per interval).
3. Proofs done: every safety property of every passing run, and both refinements.
   Next: the properties of what point 2 adds.
4. Abstract specifications worth stating: a single-flight cache for `LiveCache`, an
   at-most-once dispatcher for `PlannedTools`.

## 7. Running

In this directory: `tlc -config ProviderSafety.cfg MCProviderCalls.tla` and likewise for
the other runs (the module of each is in `PROJECT.json`), `tlapm ProviderCalls_proofs.tla`
and likewise for the other `_proofs` modules.
