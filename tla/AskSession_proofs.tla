------------------------- MODULE AskSession_proofs --------------------------
(***************************************************************************)
(* Proofs about AskSession and the ProvinceMap inside it.  The map comes   *)
(* first, for any number of requests not yet settled and any navigation,   *)
(* so whatever the session around it does.  Then the session, for any      *)
(* number of questions, prompts, resets, records, replies and turns kept:  *)
(* who owns the view, what a reset cuts off, which prompt may still ask    *)
(* and which turns a question carries.                                     *)
(***************************************************************************)
EXTENDS AskSession, SequenceTheorems, TLAPS

-----------------------------------------------------------------------------
(***************************************************************************)
(* The map.                                                                *)
(***************************************************************************)
MapValues ==
    [controller : Slots \cup {NoSlot}, fetches : [Slots -> Fetches], due : BOOLEAN,
     timer : BOOLEAN, loading : BOOLEAN, data : {"none", "own", "crossed"}]

\* The request of slot s passes the check of its callbacks.
Live(m, s) == m.fetches[s].out /\ ~m.fetches[s].aborted /\ m.fetches[s].current

\* The refs and the state of the hook agree: the one live request is that of
\* the controller, it has crossed nothing, and it alone keeps the spinner up.
Sane(m) ==
    /\ m \in MapValues
    /\ m.loading <=> m.controller # NoSlot
    /\ \A s \in Slots : Live(m, s) <=> s = m.controller
    /\ \A s \in Slots : s = m.controller => ~m.fetches[s].crossed
    /\ m.data # "crossed"

MapInv == enabled \in BOOLEAN /\ visible \in BOOLEAN /\ Sane(map)
-----------------------------------------------------------------------------
LEMMA FetchingIsLive ==
  /\ Fetching \in Fetches
  /\ Fetching.out /\ ~Fetching.aborted /\ Fetching.current /\ ~Fetching.crossed
<1>1. Idle \in Fetches
  BY DEF Idle, Fetches
<1>2. Fetching \in Fetches
  BY <1>1 DEF Fetching, Fetches
<1>3. Fetching.out = TRUE /\ Fetching.current = TRUE
  BY <1>1 DEF Fetching, Fetches
<1>4. Fetching.aborted = FALSE /\ Fetching.crossed = FALSE
  BY DEF Fetching, Idle
<1> QED
  BY <1>2, <1>3, <1>4

LEMMA ScheduledSane ==
  ASSUME NEW m, Sane(m), NEW seen \in BOOLEAN
  PROVE  Sane(Scheduled(m, seen))
  BY DEF Sane, Scheduled, MapValues, Live

\* Pausing lets go of the request, whoever it belonged to.
LEMMA PausedSane ==
  ASSUME NEW m, Sane(m)
  PROVE  Sane(Paused(m)) /\ Paused(m).controller = NoSlot
<1>1. m \in MapValues /\ \A s \in Slots : m.fetches[s] \in Fetches
  BY DEF Sane, MapValues
<1>2. \A s \in Slots :
         /\ Crossed(m)[s].out = m.fetches[s].out
         /\ Crossed(m)[s].aborted = m.fetches[s].aborted
         /\ Crossed(m)[s].current = m.fetches[s].current
  BY <1>1 DEF Crossed, Fetches
<1>3. Crossed(m) \in [Slots -> Fetches]
  BY <1>1 DEF Crossed, Fetches
<1>4. CASE m.controller = NoSlot
  <2>1. Paused(m) = [m EXCEPT !.timer = FALSE, !.fetches = Crossed(m)]
    BY <1>4 DEF Paused
  <2>2. Paused(m) \in MapValues /\ Paused(m).controller = NoSlot /\ Paused(m).loading = m.loading
        /\ Paused(m).fetches = Crossed(m) /\ Paused(m).data = m.data
    BY <1>1, <1>3, <1>4, <2>1 DEF MapValues
  <2>3. ASSUME NEW s \in Slots
        PROVE  Live(Paused(m), s) <=> Live(m, s)
    <3>1. /\ Paused(m).fetches[s].out = m.fetches[s].out
          /\ Paused(m).fetches[s].aborted = m.fetches[s].aborted
          /\ Paused(m).fetches[s].current = m.fetches[s].current
      BY <1>2, <2>2
    <3> QED
      BY <3>1 DEF Live
  <2>4. \A s \in Slots : s # NoSlot
    BY SlotsAssumption
  <2> QED
    BY <1>4, <2>2, <2>3, <2>4 DEF Sane
<1>5. CASE m.controller # NoSlot
  <2> DEFINE paused == [s \in Slots |-> [Crossed(m)[s] EXCEPT !.current = FALSE,
                                            !.aborted = @ \/ s = m.controller]]
  <2>1. Paused(m) = [m EXCEPT !.timer = FALSE, !.controller = NoSlot, !.due = TRUE,
                              !.loading = FALSE, !.fetches = paused]
    BY <1>5 DEF Paused
  <2>2. paused \in [Slots -> Fetches] /\ \A s \in Slots : ~paused[s].current
    BY <1>3 DEF Fetches
  <2> HIDE DEF paused
  <2>3. Paused(m) \in MapValues /\ Paused(m).controller = NoSlot /\ Paused(m).loading = FALSE
        /\ Paused(m).fetches = paused /\ Paused(m).data = m.data
    BY <1>1, <2>1, <2>2 DEF MapValues
  <2>4. \A s \in Slots : ~Live(Paused(m), s) /\ s # NoSlot
    BY <2>2, <2>3, SlotsAssumption DEF Live
  <2> QED
    BY <2>3, <2>4 DEF Sane
<1> QED
  BY <1>4, <1>5

\* A request begins in a slot only if none is under way.
LEMMA RequestedSane ==
  ASSUME NEW m, Sane(m), NEW s \in Slots, NEW seen \in BOOLEAN
  PROVE  Sane(Requested(m, s, seen))
<1>1. CASE ~seen \/ m.controller # NoSlot
  BY <1>1 DEF Requested
<1>2. CASE seen /\ m.controller = NoSlot
  <2> DEFINE fetches == [t \in Slots |-> IF t = s THEN Fetching
                                         ELSE [m.fetches[t] EXCEPT !.current = FALSE]]
  <2>1. Requested(m, s, seen) =
           [m EXCEPT !.timer = FALSE, !.controller = s, !.loading = TRUE, !.fetches = fetches]
    BY <1>2 DEF Requested
  <2>2. Fetching \in Fetches
        /\ Fetching.out /\ ~Fetching.aborted /\ Fetching.current /\ ~Fetching.crossed
    BY FetchingIsLive
  <2>3. /\ fetches \in [Slots -> Fetches]
        /\ fetches[s] = Fetching
        /\ \A t \in Slots : t # s => ~fetches[t].current
    BY <2>2 DEF Sane, MapValues, Fetches
  <2> HIDE DEF fetches
  <2>4. /\ Requested(m, s, seen) \in MapValues /\ Requested(m, s, seen).controller = s
        /\ Requested(m, s, seen).loading = TRUE /\ Requested(m, s, seen).fetches = fetches
        /\ Requested(m, s, seen).data = m.data
    BY <2>1, <2>3 DEF Sane, MapValues
  <2>5. Live(Requested(m, s, seen), s)
    BY <2>2, <2>3, <2>4 DEF Live
  <2>6. ASSUME NEW t \in Slots, t # s
        PROVE  ~Live(Requested(m, s, seen), t)
    BY <2>3, <2>4, <2>6 DEF Live
  <2>7. s # NoSlot
    BY SlotsAssumption
  <2> QED
    BY <2>2, <2>3, <2>4, <2>5, <2>6, <2>7 DEF Sane
<1> QED
  BY <1>1, <1>2

LEMMA VisibilitySane ==
  ASSUME NEW m, Sane(m), NEW s \in Slots, NEW seen \in BOOLEAN
  PROVE  Sane(VisibilityChanged(m, s, seen))
  BY PausedSane, RequestedSane, ScheduledSane DEF VisibilityChanged

LEMMA RerunSane ==
  ASSUME NEW m, Sane(m), NEW s \in Slots, NEW on \in BOOLEAN, visible \in BOOLEAN
  PROVE  Sane(Rerun(m, on, s))
<1> DEFINE after == [Paused(m) EXCEPT !.controller = NoSlot]
<1>1. Sane(Paused(m)) /\ Paused(m).controller = NoSlot
  BY PausedSane
<1>2. after = Paused(m)
  BY <1>1 DEF Sane, MapValues
<1>3. Sane(VisibilityChanged(Paused(m), s, visible))
  BY <1>1, VisibilitySane
<1> QED
  BY <1>1, <1>2, <1>3 DEF Rerun

\* An answer is taken, or a failure shown, only for the live request.
LEMMA SettleSane ==
  ASSUME MapInv, NEW s \in Slots, Settle(s)
  PROVE  Sane(map')
<1>1. Sane(map) /\ map \in MapValues /\ visible \in BOOLEAN
  BY DEF MapInv, Sane
<1>2. Idle \in Fetches /\ ~Idle.out /\ ~Idle.crossed
  BY DEF Idle, Fetches
<1>3. /\ Ended(s) \in MapValues
      /\ Ended(s).controller = map.controller /\ Ended(s).loading = map.loading
      /\ Ended(s).data = map.data
      /\ Ended(s).fetches = [map.fetches EXCEPT ![s] = Idle]
  BY <1>1, <1>2 DEF Ended, MapValues
<1>4. \A t \in Slots : Live(Ended(s), t) <=> t # s /\ Live(map, t)
  BY <1>1, <1>2, <1>3 DEF Live, MapValues
<1>5. \A t \in Slots : t # s => Ended(s).fetches[t] = map.fetches[t]
  BY <1>1, <1>3 DEF MapValues
<1>6. CASE ~Owned(s)
  <2>1. map' = Ended(s)
    BY <1>6 DEF Settle
  <2>2. s # map.controller
    BY <1>1, <1>6 DEF Sane, Live, Owned
  <2> QED
    BY <1>1, <1>3, <1>4, <1>5, <2>1, <2>2 DEF Sane
<1>7. CASE Owned(s)
  <2>1. s = map.controller /\ ~map.fetches[s].crossed
    BY <1>1, <1>7 DEF Sane, Live, Owned, Settle
  <2>2. PICK data \in {map.data, "own"} :
           map' = Scheduled([Ended(s) EXCEPT !.controller = NoSlot, !.due = FALSE,
                                !.loading = FALSE, !.data = data], visible)
    BY <1>3, <1>7, <2>1 DEF Settle
  <2> DEFINE m == [Ended(s) EXCEPT !.controller = NoSlot, !.due = FALSE, !.loading = FALSE,
                                   !.data = data]
  <2>3. /\ m \in MapValues /\ m.controller = NoSlot /\ m.loading = FALSE /\ m.data = data
        /\ m.fetches = Ended(s).fetches
    BY <1>1, <1>3 DEF MapValues
  <2> HIDE DEF m
  <2>4. \A t \in Slots : Live(m, t) <=> t # s /\ Live(map, t)
    BY <1>4, <2>3 DEF Live
  <2>5. \A t \in Slots : ~Live(m, t) /\ t # NoSlot
    BY <1>1, <2>1, <2>4, SlotsAssumption DEF Sane
  <2>6. data # "crossed"
    BY <1>1 DEF Sane
  <2>7. Sane(m)
    BY <2>3, <2>5, <2>6 DEF Sane
  <2> QED
    BY <1>1, <2>2, <2>7, ScheduledSane DEF m
<1> QED
  BY <1>6, <1>7
-----------------------------------------------------------------------------
LEMMA MapInitSane == MapInit => MapInv
<1> SUFFICES ASSUME MapInit
             PROVE  MapInv
  OBVIOUS
<1>1. Idle \in Fetches /\ ~Idle.out
  BY DEF Idle, Fetches
<1>2. map \in MapValues
  BY <1>1 DEF MapInit, MapValues
<1>3. \A s \in Slots : ~Live(map, s) /\ s # NoSlot
  BY <1>1, SlotsAssumption DEF MapInit, Live
<1> QED
  BY <1>2, <1>3 DEF MapInit, MapInv, Sane

LEMMA MapStepSane ==
  ASSUME MapInv, MapStep \/ \E on \in BOOLEAN : Navigate(on)
  PROVE  MapInv'
<1>1. Sane(map) /\ enabled \in BOOLEAN /\ visible \in BOOLEAN
  BY DEF MapInv
<1>2. ASSUME NEW on \in BOOLEAN, Navigate(on)
      PROVE  MapInv'
  BY <1>1, <1>2, RerunSane DEF Navigate, MapInv
<1>3. CASE ChangeVisibility
  <2>1. PICK s \in Slots : map' = IF enabled THEN VisibilityChanged(map, s, ~visible) ELSE map
    BY <1>3 DEF ChangeVisibility
  <2>2. Sane(VisibilityChanged(map, s, ~visible))
    BY <1>1, VisibilitySane
  <2> QED
    BY <1>1, <1>3, <2>1, <2>2 DEF ChangeVisibility, MapInv
<1>4. CASE FallDue
  <2>1. Sane([map EXCEPT !.due = TRUE])
    BY <1>1 DEF Sane, MapValues, Live
  <2> QED
    BY <1>1, <1>4, <2>1 DEF FallDue, MapInv
<1>5. CASE TimerFires
  <2>1. Sane([map EXCEPT !.timer = FALSE])
    BY <1>1 DEF Sane, MapValues, Live
  <2> QED
    BY <1>1, <1>5, <2>1, RequestedSane DEF TimerFires, MapInv
<1>6. CASE Refresh
  BY <1>1, <1>6, RequestedSane DEF Refresh, MapInv
<1>7. ASSUME NEW s \in Slots, Settle(s)
      PROVE  MapInv'
  <2>1. Sane(map') /\ enabled' = enabled /\ visible' = visible
    BY <1>7, SettleSane DEF Settle
  <2> QED
    BY <1>1, <2>1 DEF MapInv
<1> QED
  BY <1>2, <1>3, <1>4, <1>5, <1>6, <1>7 DEF MapStep

\* The refs of useProvinceMap agree after every callback, whatever navigates.
THEOREM MapInvariance == MapSpec => []MapInv
<1>1. MapInv /\ [MapStep \/ \E on \in BOOLEAN : Navigate(on)]_mapVars => MapInv'
  <2>1. MapInv /\ UNCHANGED mapVars => MapInv'
    BY DEF MapInv, mapVars
  <2> QED
    BY <2>1, MapStepSane
<1> QED
  BY <1>1, MapInitSane, PTL DEF MapSpec

\* The refs and the state of the hook stay well typed.
THEOREM MapTypes == MapSpec => []MapTypeOK
<1>1. MapInv => MapTypeOK
  BY DEF MapInv, Sane, MapValues, MapTypeOK
<1> QED
  BY <1>1, MapInvariance, PTL

\* The spinner belongs to the one request that will take it down.
THEOREM SpinnerIsOwned == MapSpec => []LoadingIsOwned
<1>1. MapInv => LoadingIsOwned
  BY DEF MapInv, Sane, Live, Owned, LoadingIsOwned
<1> QED
  BY <1>1, MapInvariance, PTL

\* No answer is taken across a boundary.
THEOREM NoAnswerCrosses == MapSpec => []NothingCrosses
<1>1. MapInv => NothingCrosses
  BY DEF MapInv, Sane, NothingCrosses
<1> QED
  BY <1>1, MapInvariance, PTL
-----------------------------------------------------------------------------
(***************************************************************************)
(* The session.                                                            *)
(***************************************************************************)
AskStates == {"flying", "aborted", "settled"}
AskValues == [state : AskStates, history : Seq(Nat), place : Nat, resets : Nat, from : Nat]
ScreenValues == [history : Seq(Nat), roster : SUBSET Records, selected : Records \cup {NoOne}]
PromptValues == [pending : BOOLEAN, generation : Nat, seen : ScreenValues, asked : Nat,
                 resets : Nat, waiting : BOOLEAN]

\* The questions asked since the last reset.
Now == {n \in DOMAIN asks : asks[n].resets = resets}

Shapes ==
    /\ asks \in Seq(AskValues) /\ prompts \in Seq(PromptValues)
    /\ active \in Nat /\ generation \in Nat /\ resets \in Nat
    /\ roster \subseteq Records /\ selected \in Records \cup {NoOne}

\* Only a prompt of the current generation can still submit what it has seen,
\* and that is of this side of the reset.
Boundary ==
    /\ history \in Seq(Now) /\ view.ask \in Now \cup {0}
    /\ place \in {NoPlace, Here}
    /\ active # 0 => asks[active].place \in {NoPlace, Here} /\ asks[active].history \in Seq(Now)
    /\ \A p \in DOMAIN prompts :
          /\ prompts[p].generation <= generation
          /\ prompts[p].pending /\ prompts[p].generation = generation =>
                prompts[p].seen.history \in Seq(Now)

SessionInv == MapInv /\ Shapes /\ ViewHasOneOwner /\ Boundary
-----------------------------------------------------------------------------
LEMMA SeqGrows == ASSUME NEW S, NEW T, S \subseteq T, NEW s \in Seq(S) PROVE s \in Seq(T)
  OBVIOUS

\* The turns kept are turns of the list.
LEMMA LastOfSeq ==
  ASSUME NEW S, NEW s \in Seq(S), NEW n \in Nat \ {0}
  PROVE  LastOf(s, n) \in Seq(S)
<1> DEFINE from == IF Len(s) > n THEN Len(s) - n + 1 ELSE 1
<1>1. Len(s) \in Nat /\ from \in Nat /\ from >= 1
  BY LenProperties
<1>2. \A i \in from..Len(s) : i \in 1..Len(s)
  BY <1>1
<1>3. \A i \in from..Len(s) : s[i] \in S
  BY <1>2, ElementOfSeq
<1> HIDE DEF from
<1>4. SubSeq(s, from, Len(s)) \in Seq(S)
  BY <1>1, <1>2, <1>3, SubSeqProperties
<1> QED
  BY <1>4 DEF LastOf, from

LEMMA AbandonedProperties ==
  ASSUME Shapes, ViewHasOneOwner
  PROVE  /\ Abandoned \in Seq(AskValues) /\ Len(Abandoned) = Len(asks)
         /\ \A n \in DOMAIN asks : /\ Abandoned[n].resets = asks[n].resets
                                   /\ Abandoned[n].from = asks[n].from
                                   /\ Abandoned[n].state # "flying"
<1> DEFINE Dropped(a) ==
             [a EXCEPT !.state = "aborted", !.history = <<>>, !.place = NoPlace]
<1>1. \A n \in DOMAIN asks : asks[n] \in AskValues
  BY DEF Shapes
<1>2. ASSUME NEW a \in AskValues
      PROVE  /\ Dropped(a) \in AskValues /\ Dropped(a).state = "aborted"
             /\ Dropped(a).resets = a.resets /\ Dropped(a).from = a.from
  <2>1. <<>> \in Seq(Nat) /\ NoPlace \in Nat
    BY DEF NoPlace
  <2> QED
    BY <2>1 DEF AskValues, AskStates
<1>3. \A n \in DOMAIN asks : Abandoned[n] = IF n = active THEN Dropped(asks[n]) ELSE asks[n]
  BY DEF Abandoned
<1> HIDE DEF Dropped
<1>4. \A n \in DOMAIN asks : /\ Abandoned[n] \in AskValues
                            /\ Abandoned[n].resets = asks[n].resets
                            /\ Abandoned[n].from = asks[n].from
  BY <1>1, <1>2, <1>3
<1>5. \A n \in DOMAIN asks : Abandoned[n].state # "flying"
  BY <1>1, <1>2, <1>3 DEF ViewHasOneOwner
<1>6. Len(asks) \in Nat /\ DOMAIN asks = 1..Len(asks) /\ DOMAIN Abandoned = 1..Len(asks)
  BY DEF Abandoned, Shapes
<1>7. Abandoned = [i \in 1..Len(asks) |-> Abandoned[i]]
  BY <1>6 DEF Abandoned
<1>8. Abandoned \in Seq(AskValues) /\ Len(Abandoned) = Len(asks)
  <2> DEFINE f == [i \in 1..Len(asks) |-> Abandoned[i]]
  <2>1. f \in [1..Len(asks) -> AskValues]
    BY <1>4, <1>6
  <2>2. f \in Seq(AskValues) /\ Len(f) = Len(asks)
    BY <1>6, <2>1, SeqDef, LenProperties
  <2> QED
    BY <1>7, <2>2
<1> QED
  BY <1>4, <1>5, <1>8

LEMMA PromptProperties ==
  ASSUME Shapes, NEW p \in DOMAIN prompts
  PROVE  /\ prompts[p] \in PromptValues /\ prompts[p].generation \in Nat
         /\ prompts[p].seen \in ScreenValues /\ prompts[p].pending \in BOOLEAN
<1>1. prompts[p] \in PromptValues
  BY DEF Shapes
<1>2. \A q \in PromptValues : q.generation \in Nat /\ q.seen \in ScreenValues /\ q.pending \in BOOLEAN
  BY DEF PromptValues
<1> QED
  BY <1>1, <1>2

\* Closing a prompt leaves the others as they are, and it can submit no more.
LEMMA ClosedProperties ==
  ASSUME Shapes, NEW p \in DOMAIN prompts
  PROVE  /\ Closed(p) \in Seq(PromptValues) /\ DOMAIN Closed(p) = DOMAIN prompts
         /\ \A q \in DOMAIN prompts :
               /\ Closed(p)[q].generation = prompts[q].generation
               /\ Closed(p)[q].asked = prompts[q].asked
               /\ Closed(p)[q].resets = prompts[q].resets
               /\ Closed(p)[q].waiting = prompts[q].waiting
               /\ q # p => Closed(p)[q] = prompts[q]
         /\ Closed(p)[p].pending = FALSE
<1> DEFINE Shut(q) == [q EXCEPT !.pending = FALSE, !.seen = NoScreen]
<1>1. NoScreen \in ScreenValues
  <2>1. <<>> \in Seq(Nat)
    OBVIOUS
  <2> QED
    BY <2>1 DEF NoScreen, ScreenValues
<1>2. \A q \in PromptValues :
         /\ Shut(q) \in PromptValues /\ Shut(q).pending = FALSE
         /\ Shut(q).generation = q.generation /\ Shut(q).asked = q.asked
         /\ Shut(q).resets = q.resets /\ Shut(q).waiting = q.waiting
  BY <1>1 DEF PromptValues
<1>3. prompts \in Seq(PromptValues) /\ prompts[p] \in PromptValues
  BY PromptProperties DEF Shapes
<1>4. Closed(p) = [prompts EXCEPT ![p] = Shut(prompts[p])]
  BY DEF Closed
<1> HIDE DEF Shut
<1>5. Closed(p) \in Seq(PromptValues) /\ DOMAIN Closed(p) = DOMAIN prompts
  BY <1>2, <1>3, <1>4, ExceptSeq
<1> QED
  BY <1>2, <1>3, <1>4, <1>5

\* What a handler submits is of this side of the reset if what it saw is.
LEMMA SubmitKeeps ==
  ASSUME SessionInv,
         NEW seen \in ScreenValues, seen.history \in Seq(Now),
         NEW located \in BOOLEAN, NEW record \in Records \cup {NoOne}, NEW from \in Nat,
         Submit(seen, located, record, from),
         prompts' \in Seq(PromptValues), DOMAIN prompts' = DOMAIN prompts,
         \A p \in DOMAIN prompts : prompts'[p].generation = prompts[p].generation
  PROVE  SessionInv'
<1> DEFINE effective == IF located \/ (place = NoPlace /\ label) THEN Here ELSE place
           Sent == [state |-> "flying", history |-> LastOf(seen.history, KeptTurns),
                    place |-> effective, resets |-> resets, from |-> from]
           n == Len(asks) + 1
<1>1. /\ generation' = generation + 1 /\ active' = n /\ place' = effective
      /\ view' = [kind |-> "loading", ask |-> n, reply |-> NoReply]
      /\ selected' \in SelectedFor(seen, record)
      /\ asks' = Append(Abandoned, Sent)
      /\ history' = history /\ roster' = roster /\ resets' = resets
  BY DEF Submit, Bumped
<1>2. Len(asks) \in Nat /\ resets \in Nat /\ effective \in {NoPlace, Here} /\ effective \in Nat
  BY DEF SessionInv, Shapes, Boundary, NoPlace, Here
<1>3. KeptTurns \in Nat \ {0}
  BY SessionAssumption
<1>4. LastOf(seen.history, KeptTurns) \in Seq(Now) /\ LastOf(seen.history, KeptTurns) \in Seq(Nat)
  BY <1>3, LastOfSeq DEF ScreenValues
<1>5. Sent \in AskValues
  BY <1>2, <1>4 DEF AskValues, AskStates
<1>6. /\ Abandoned \in Seq(AskValues) /\ Len(Abandoned) = Len(asks)
      /\ \A i \in DOMAIN asks : Abandoned[i].resets = asks[i].resets /\ Abandoned[i].state # "flying"
  BY AbandonedProperties DEF SessionInv
<1> HIDE DEF Sent, effective
<1>7. /\ asks' \in Seq(AskValues) /\ DOMAIN asks' = 1..n
      /\ asks'[n] = Sent /\ \A i \in 1..Len(asks) : asks'[i] = Abandoned[i]
  BY <1>1, <1>2, <1>5, <1>6, AppendProperties
<1>8. DOMAIN asks = 1..Len(asks) /\ 1..Len(asks) \subseteq 1..n /\ n \in 1..n /\ n # 0
  BY <1>2 DEF SessionInv, Shapes
<1>9. Now \subseteq Now' /\ n \in Now'
  <2>1. Sent.resets = resets
    BY DEF Sent
  <2> QED
    BY <1>1, <1>6, <1>7, <1>8, <2>1 DEF Now
<1>10. Shapes'
  <2>1. selected' \in Records \cup {NoOne}
    BY <1>1 DEF SelectedFor, ScreenValues
  <2> QED
    BY <1>1, <1>2, <1>7, <2>1 DEF SessionInv, Shapes
<1>11. ViewHasOneOwner'
  <2>1. Sent.state = "flying"
    BY DEF Sent
  <2>2. \A i \in DOMAIN asks' : asks'[i].state = "flying" <=> i = n
    BY <1>2, <1>6, <1>7, <1>8, <2>1
  <2> QED
    BY <1>1, <1>8, <2>2 DEF ViewHasOneOwner
<1>12. Boundary'
  <2>1. history' \in Seq(Now') /\ LastOf(seen.history, KeptTurns) \in Seq(Now')
    BY <1>1, <1>4, <1>9, SeqGrows DEF SessionInv, Boundary
  <2>2. Here' = Here
    BY <1>1 DEF Here
  <2>3. Sent.place = effective /\ Sent.history = LastOf(seen.history, KeptTurns)
    BY DEF Sent
  <2>4. \A p \in DOMAIN prompts' :
           prompts'[p].generation <= generation' /\ prompts'[p].generation # generation'
    <3>1. \A p \in DOMAIN prompts : prompts[p].generation \in Nat
      BY PromptProperties DEF SessionInv
    <3> QED
      BY <1>1, <3>1 DEF SessionInv, Shapes, Boundary
  <2> QED
    BY <1>1, <1>2, <1>7, <1>9, <2>1, <2>2, <2>3, <2>4 DEF Boundary
<1>13. MapInv'
  <2>1. Navigate(MapEnabled(mapVisible, context, "loading"))
    BY DEF Submit
  <2>2. MapEnabled(mapVisible, context, "loading") \in BOOLEAN
    BY DEF MapEnabled
  <2> QED
    BY <2>1, <2>2, MapStepSane DEF SessionInv
<1> QED
  BY <1>10, <1>11, <1>12, <1>13 DEF SessionInv
-----------------------------------------------------------------------------
LEMMA ScreenProperties ==
  ASSUME SessionInv
  PROVE  Screen \in ScreenValues /\ Screen.history \in Seq(Now)
<1>1. history \in Seq(Now) /\ Now \subseteq Nat
  BY DEF SessionInv, Boundary, Now, Shapes
<1>2. history \in Seq(Nat)
  BY <1>1, SeqGrows
<1> QED
  BY <1>1, <1>2 DEF Screen, ScreenValues, SessionInv, Shapes

LEMMA SessionInit == Init => SessionInv
<1> SUFFICES ASSUME Init PROVE SessionInv
  OBVIOUS
<1>1. MapInv
  BY MapInitSane DEF Init
<1>2. \A S : <<>> \in Seq(S)
  BY EmptySeq
<1>3. Shapes /\ ViewHasOneOwner /\ Boundary
  BY <1>2 DEF Init, Shapes, ViewHasOneOwner, Boundary, NoPlace, Here
<1> QED
  BY <1>1, <1>3 DEF SessionInv

LEMMA AskKeeps == ASSUME SessionInv, Ask PROVE SessionInv'
<1>1. Screen \in ScreenValues /\ Screen.history \in Seq(Now)
  BY ScreenProperties
<1>2. prompts' = prompts /\ prompts \in Seq(PromptValues)
  BY DEF Ask, SessionInv, Shapes
<1>3. PICK located \in BOOLEAN, record \in Records \cup {NoOne} : Submit(Screen, located, record, 0)
  BY DEF Ask, SessionInv, Shapes
<1> QED
  BY <1>1, <1>2, <1>3, SubmitKeeps

LEMMA SubmitLocationKeeps == ASSUME SessionInv, SubmitLocation PROVE SessionInv'
<1>1. Screen \in ScreenValues /\ Screen.history \in Seq(Now)
  BY ScreenProperties
<1>2. prompts' = prompts /\ prompts \in Seq(PromptValues)
  BY DEF SubmitLocation, SessionInv, Shapes
<1> QED
  BY <1>1, <1>2, SubmitKeeps DEF SubmitLocation

LEMMA SettleAskKeeps ==
  ASSUME SessionInv, NEW n \in DOMAIN asks, SettleAsk(n)
  PROVE  SessionInv'
<1> DEFINE Done(a) == [a EXCEPT !.state = "settled", !.history = <<>>, !.place = NoPlace]
<1>1. /\ asks' = [asks EXCEPT ![n] = Done(asks[n])]
      /\ place' = place /\ generation' = generation /\ prompts' = prompts /\ resets' = resets
      /\ UNCHANGED mapVars
  BY DEF SettleAsk, Settled
<1>2. asks \in Seq(AskValues) /\ asks[n] \in AskValues /\ n \in Nat
  BY DEF SessionInv, Shapes
<1>3. ASSUME NEW a \in AskValues
      PROVE  Done(a) \in AskValues /\ Done(a).state = "settled" /\ Done(a).resets = a.resets
  <2>1. <<>> \in Seq(Nat) /\ NoPlace \in Nat
    BY DEF NoPlace
  <2> QED
    BY <2>1 DEF AskValues, AskStates
<1> HIDE DEF Done
<1>4. /\ asks' \in Seq(AskValues) /\ DOMAIN asks' = DOMAIN asks
      /\ asks'[n].state = "settled" /\ asks'[n].resets = asks[n].resets
      /\ \A i \in DOMAIN asks : i # n => asks'[i] = asks[i]
  BY <1>1, <1>2, <1>3, ExceptSeq
<1>5. Now' = Now
  BY <1>1, <1>4 DEF Now
<1>6. MapInv'
  BY <1>1 DEF SessionInv, MapInv, mapVars
<1>7. CASE Answer(n) \/ Fail(n)
  <2>1. asks[n].state = "flying" /\ active = n /\ active' = 0
    BY <1>7 DEF Answer, Fail, OwnsView
  <2>2. view.ask = n /\ n # 0 /\ n \in Now /\ view'.ask = n /\ view'.kind # "loading"
    <3>1. n # 0
      BY DEF SessionInv, Shapes
    <3>2. view'.ask = n /\ view'.kind # "loading"
      BY <1>7, SessionAssumption DEF Answer, Fail
    <3> QED
      BY <2>1, <3>1, <3>2 DEF SessionInv, ViewHasOneOwner, Boundary
  <2>3. history' \in Seq(Now)
    <3>1. CASE Answer(n)
      <4>1. Append(asks[n].history, n) \in Seq(Now)
        BY <2>1, <2>2, AppendProperties DEF SessionInv, Boundary
      <4> QED
        BY <3>1, <4>1, LastOfSeq, SessionAssumption DEF Answer
    <3>2. CASE Fail(n)
      BY <3>2 DEF Fail, SessionInv, Boundary
    <3> QED
      BY <1>7, <3>1, <3>2
  <2>4. roster' \subseteq Records /\ selected' \in Records \cup {NoOne}
    BY <1>7, SessionAssumption DEF Answer, Fail, nextRoster, SessionInv, Shapes
  <2>5. Shapes'
    BY <1>1, <1>4, <2>1, <2>4 DEF SessionInv, Shapes
  <2>6. ViewHasOneOwner'
    BY <1>4, <2>1, <2>2 DEF SessionInv, ViewHasOneOwner, Shapes
  <2>7. Boundary'
    BY <1>1, <1>5, <2>1, <2>2, <2>3 DEF SessionInv, Boundary, Here
  <2> QED
    BY <1>6, <2>5, <2>6, <2>7 DEF SessionInv
<1>8. CASE IgnoreLate(n)
  <2>1. /\ n # active
        /\ view' = view /\ history' = history /\ roster' = roster /\ selected' = selected
        /\ active' = active
    BY <1>8 DEF IgnoreLate, OwnsView, SessionInv, ViewHasOneOwner
  <2>2. asks[n].state # "flying"
    BY <2>1 DEF SessionInv, ViewHasOneOwner
  <2>3. Shapes' /\ ViewHasOneOwner'
    BY <1>1, <1>4, <2>1, <2>2 DEF SessionInv, Shapes, ViewHasOneOwner
  <2>4. active # 0 => asks'[active] = asks[active]
    BY <1>4, <2>1 DEF SessionInv, Boundary, ViewHasOneOwner, Now
  <2>5. Boundary'
    BY <1>1, <1>5, <2>1, <2>4 DEF SessionInv, Boundary, Here
  <2> QED
    BY <1>6, <2>3, <2>5 DEF SessionInv
<1> QED
  BY <1>7, <1>8 DEF SettleAsk

\* No prompt keeps the generation of the reset.
LEMMA ResetKeeps == ASSUME SessionInv, Reset PROVE SessionInv'
<1>1. /\ resets' = resets + 1 /\ generation' = generation + 1 /\ asks' = Abandoned
      /\ active' = 0 /\ view' = Cleared /\ history' = <<>> /\ roster' = {} /\ selected' = NoOne
      /\ place' = NoPlace /\ prompts' = prompts
  BY DEF Reset, Bumped
<1>2. MapInv'
  <2>1. Navigate(MapEnabled(mapVisible, FALSE, "idle")) /\ MapEnabled(mapVisible, FALSE, "idle") \in BOOLEAN
    BY DEF Reset, MapEnabled
  <2> QED
    BY <2>1, MapStepSane DEF SessionInv
<1>3. /\ Abandoned \in Seq(AskValues) /\ Len(Abandoned) = Len(asks)
      /\ \A i \in DOMAIN asks : Abandoned[i].state # "flying"
      /\ DOMAIN Abandoned = DOMAIN asks
  BY AbandonedProperties DEF SessionInv, Abandoned
<1>4. \A S : <<>> \in Seq(S)
  BY EmptySeq
<1>5. Shapes'
  BY <1>1, <1>3 DEF SessionInv, Shapes
<1>6. ViewHasOneOwner'
  <2>1. \A i \in DOMAIN asks' : asks'[i].state # "flying" /\ i # 0
    BY <1>1, <1>3 DEF SessionInv, Shapes
  <2> QED
    BY <1>1, <2>1 DEF ViewHasOneOwner, Cleared
<1>7. \A p \in DOMAIN prompts :
         prompts[p].generation <= generation' /\ prompts[p].generation # generation'
  BY <1>1, PromptProperties DEF SessionInv, Shapes, Boundary
<1>8. Boundary'
  BY <1>1, <1>4, <1>7 DEF Boundary, Cleared
<1> QED
  BY <1>2, <1>5, <1>6, <1>8 DEF SessionInv

LEMMA OpenPromptKeeps == ASSUME SessionInv, OpenPrompt PROVE SessionInv'
<1> DEFINE opened == [pending |-> TRUE, generation |-> generation + 1, seen |-> Screen,
                      asked |-> Len(asks), resets |-> resets, waiting |-> active # 0]
<1>1. /\ generation' = generation + 1 /\ prompts' = Append(prompts, opened)
      /\ UNCHANGED <<uiVars, active, asks, resets, mapVars>>
  BY DEF OpenPrompt
<1>2. Screen \in ScreenValues /\ Screen.history \in Seq(Now)
  BY ScreenProperties
<1>3. prompts \in Seq(PromptValues) /\ opened \in PromptValues
  <2>1. Len(asks) \in Nat /\ resets \in Nat /\ generation + 1 \in Nat /\ (active # 0) \in BOOLEAN
    BY LenProperties DEF SessionInv, Shapes
  <2> QED
    BY <1>2, <2>1 DEF SessionInv, Shapes, PromptValues
<1>4. opened.generation = generation + 1 /\ opened.seen = Screen
  OBVIOUS
<1> HIDE DEF opened
<1>5. /\ prompts' \in Seq(PromptValues) /\ DOMAIN prompts' = DOMAIN prompts \cup {Len(prompts) + 1}
      /\ \A p \in DOMAIN prompts : prompts'[p] = prompts[p]
      /\ prompts'[Len(prompts) + 1] = opened
  BY <1>1, <1>3, AppendProperties, LenProperties
<1>6. Now' = Now /\ MapInv' /\ Shapes' /\ ViewHasOneOwner'
  BY <1>1, <1>5 DEF SessionInv, Now, MapInv, mapVars, uiVars, Shapes, ViewHasOneOwner
<1>7. \A p \in DOMAIN prompts :
         prompts[p].generation <= generation' /\ prompts[p].generation # generation'
  BY <1>1, PromptProperties DEF SessionInv, Shapes, Boundary
<1>8. \A p \in DOMAIN prompts' :
         /\ prompts'[p].generation <= generation'
         /\ prompts'[p].pending /\ prompts'[p].generation = generation' =>
               prompts'[p].seen.history \in Seq(Now)
  BY <1>1, <1>2, <1>4, <1>5, <1>7 DEF SessionInv, Shapes
<1>9. Boundary'
  BY <1>1, <1>6, <1>8 DEF SessionInv, Boundary, Here, uiVars
<1> QED
  BY <1>6, <1>9 DEF SessionInv

\* A prompt that is closed without a question.
LEMMA CloseKeeps ==
  ASSUME SessionInv, NEW p \in DOMAIN prompts, prompts' = Closed(p),
         UNCHANGED <<uiVars, active, generation, asks, resets, answered, mapVars>>
  PROVE  SessionInv'
<1>1. /\ prompts' \in Seq(PromptValues) /\ DOMAIN prompts' = DOMAIN prompts
      /\ \A q \in DOMAIN prompts : /\ prompts'[q].generation = prompts[q].generation
                                   /\ q # p => prompts'[q] = prompts[q]
      /\ prompts'[p].pending = FALSE
  BY ClosedProperties DEF SessionInv
<1>2. Now' = Now /\ MapInv' /\ Shapes' /\ ViewHasOneOwner'
  BY <1>1 DEF SessionInv, Now, MapInv, mapVars, uiVars, Shapes, ViewHasOneOwner
<1>3. Boundary'
  BY <1>1, <1>2 DEF SessionInv, Boundary, Here, uiVars
<1> QED
  BY <1>2, <1>3 DEF SessionInv

LEMMA GrantedKeeps ==
  ASSUME SessionInv, NEW p \in DOMAIN prompts, Granted(p)
  PROVE  SessionInv'
<1>1. CASE PromptIsValid(p)
  <2>1. /\ prompts[p].seen \in ScreenValues /\ prompts[p].seen.history \in Seq(Now)
        /\ p \in Nat /\ NoOne \in Records \cup {NoOne}
    BY <1>1, PromptProperties DEF Granted, PromptIsValid, SessionInv, Boundary, Shapes
  <2>2. Submit(prompts[p].seen, TRUE, NoOne, p) /\ prompts' = Closed(p)
    BY <1>1 DEF Granted
  <2>3. /\ prompts' \in Seq(PromptValues) /\ DOMAIN prompts' = DOMAIN prompts
        /\ \A q \in DOMAIN prompts : prompts'[q].generation = prompts[q].generation
    BY <2>2, ClosedProperties DEF SessionInv
  <2> QED
    BY <2>1, <2>2, <2>3, SubmitKeeps
<1>2. CASE ~PromptIsValid(p)
  BY <1>2, CloseKeeps DEF Granted
<1> QED
  BY <1>1, <1>2

\* The steps that only change what is on screen around the view.
LEMMA ScreenKeeps ==
  ASSUME SessionInv, SelectRecord \/ TypeLocation \/ ShowMap
  PROVE  SessionInv'
<1>1. UNCHANGED <<view, history, roster, place, requestVars>> /\ selected' \in Records \cup {NoOne}
  BY DEF SelectRecord, TypeLocation, ShowMap, SessionInv, Shapes
<1>2. MapInv'
  <2>1. CASE UNCHANGED mapVars
    BY <2>1 DEF SessionInv, MapInv, mapVars
  <2>2. CASE ShowMap /\ ~UNCHANGED mapVars
    <3>1. PICK on \in BOOLEAN : Navigate(on)
      BY <2>2 DEF ShowMap, MapEnabled
    <3> QED
      BY <3>1, MapStepSane DEF SessionInv
  <2> QED
    BY <2>1, <2>2 DEF SelectRecord, TypeLocation
<1>3. Now' = Now /\ Shapes' /\ ViewHasOneOwner'
  BY <1>1 DEF requestVars, SessionInv, Now, Shapes, ViewHasOneOwner
<1>4. Boundary'
  BY <1>1, <1>3 DEF requestVars, SessionInv, Boundary, Here
<1> QED
  BY <1>2, <1>3, <1>4 DEF SessionInv

LEMMA MapKeeps ==
  ASSUME SessionInv, MapInv', UNCHANGED <<uiVars, requestVars>>
  PROVE  SessionInv'
<1>1. Now' = Now /\ Shapes' /\ ViewHasOneOwner'
  BY DEF uiVars, requestVars, SessionInv, Now, Shapes, ViewHasOneOwner
<1>2. Boundary'
  BY <1>1 DEF uiVars, requestVars, SessionInv, Boundary, Here
<1> QED
  BY <1>1, <1>2 DEF SessionInv

\* The session keeps one owner of its view and its side of the reset, through
\* every callback of useFireLensSession and of the map.
THEOREM SessionInvariance == Spec => []SessionInv
<1>1. SessionInv /\ [Next]_vars => SessionInv'
  <2> SUFFICES ASSUME SessionInv, [Next]_vars PROVE SessionInv'
    OBVIOUS
  <2>1. CASE Ask
    BY <2>1, AskKeeps
  <2>2. CASE SubmitLocation
    BY <2>2, SubmitLocationKeeps
  <2>3. ASSUME NEW n \in DOMAIN asks, SettleAsk(n) PROVE SessionInv'
    BY <2>3, SettleAskKeeps
  <2>4. CASE Reset
    BY <2>4, ResetKeeps
  <2>5. CASE OpenPrompt
    BY <2>5, OpenPromptKeeps
  <2>6. ASSUME NEW p \in DOMAIN prompts, Granted(p) PROVE SessionInv'
    BY <2>6, GrantedKeeps
  <2>7. ASSUME NEW p \in DOMAIN prompts, Refused(p) PROVE SessionInv'
    BY <2>7, CloseKeeps DEF Refused
  <2>8. CASE SelectRecord \/ TypeLocation \/ ShowMap
    BY <2>8, ScreenKeeps
  <2>9. CASE MapStep /\ UNCHANGED <<uiVars, requestVars>>
    <3>1. MapInv'
      BY <2>9, MapStepSane DEF SessionInv
    <3> QED
      BY <2>9, <3>1, MapKeeps
  <2>10. CASE UNCHANGED vars
    <3>1. UNCHANGED <<uiVars, requestVars>> /\ UNCHANGED mapVars
      BY <2>10 DEF vars
    <3>2. MapInv'
      BY <3>1 DEF SessionInv, MapInv, mapVars
    <3> QED
      BY <3>1, <3>2, MapKeeps
  <2> QED
    BY <2>1, <2>2, <2>3, <2>4, <2>5, <2>6, <2>7, <2>8, <2>9, <2>10 DEF Next
<1> QED
  BY <1>1, SessionInit, PTL DEF Spec

\* The view waits for exactly the request that may still change it, however
\* many are superseded, aborted or answered late.
THEOREM ViewIsOwned == Spec => []ViewHasOneOwner
<1>1. SessionInv => ViewHasOneOwner
  BY DEF SessionInv
<1> QED
  BY <1>1, SessionInvariance, PTL

\* Nothing of before a reset is shown, kept or sent after it.
THEOREM ResetCutsOff == Spec => []ResetIsBoundary
<1>1. ASSUME SessionInv PROVE ResetIsBoundary
  <2>1. \A S : \A s \in Seq(S) : \A i \in DOMAIN s : s[i] \in S
    OBVIOUS
  <2> QED
    BY <1>1, <2>1 DEF SessionInv, Boundary, ResetIsBoundary, Now
<1> QED
  BY <1>1, SessionInvariance, PTL

\* The map theorems hold of the session, which is one way of navigating.
THEOREM SessionSpinnerIsOwned == Spec => []LoadingIsOwned
<1>1. SessionInv => LoadingIsOwned
  BY DEF SessionInv, MapInv, Sane, Live, Owned, LoadingIsOwned
<1> QED
  BY <1>1, SessionInvariance, PTL

\* No answer about the official layers crosses a question, a reset or a pause.
THEOREM SessionNothingCrosses == Spec => []NothingCrosses
<1>1. SessionInv => NothingCrosses
  BY DEF SessionInv, MapInv, Sane, NothingCrosses
<1> QED
  BY <1>1, SessionInvariance, PTL
-----------------------------------------------------------------------------
(***************************************************************************)
(* The turns a question carries, and the prompt that sends it.             *)
(***************************************************************************)

\* The prompt that can still submit was opened last, since the last question
\* and the last reset; the history is that of the answers given.
Turns ==
    /\ answered \in Seq(Nat)
    /\ \A n \in DOMAIN asks : asks[n].from # 0 =>
          /\ asks[n].from \in DOMAIN prompts
          /\ prompts[asks[n].from].asked = n - 1
          /\ prompts[asks[n].from].resets = asks[n].resets
          /\ \A q \in DOMAIN prompts : q > asks[n].from => prompts[q].asked >= n
    /\ \A p \in DOMAIN prompts : prompts[p].pending /\ prompts[p].generation = generation =>
          /\ p = Len(prompts)
          /\ prompts[p].asked = Len(asks) /\ prompts[p].resets = resets
          /\ ~prompts[p].waiting => active = 0 /\ prompts[p].seen.history = history
    /\ ~Overlapped =>
          /\ history = LastOf(answered, KeptTurns)
          /\ active # 0 => asks[active].history = history

\* LastOf element by element.
LEMMA LastOfElements ==
  ASSUME NEW S, NEW s \in Seq(S), NEW k \in Nat \ {0}
  PROVE  /\ LastOf(s, k) \in Seq(S)
         /\ Len(LastOf(s, k)) = IF Len(s) > k THEN k ELSE Len(s)
         /\ \A i \in 1..Len(LastOf(s, k)) :
               LastOf(s, k)[i] = s[i + (Len(s) - Len(LastOf(s, k)))]
<1> DEFINE from == IF Len(s) > k THEN Len(s) - k + 1 ELSE 1
<1>1. Len(s) \in Nat /\ from \in Int /\ from >= 1 /\ Len(s) \in Int
  BY LenProperties
<1>2. \A i \in from..Len(s) : s[i] \in S
  BY <1>1, ElementOfSeq
<1>3. /\ Len(SubSeq(s, from, Len(s))) = IF from <= Len(s) THEN Len(s) - from + 1 ELSE 0
      /\ \A i \in 1..(Len(s) - from + 1) : SubSeq(s, from, Len(s))[i] = s[from + i - 1]
  <2> HIDE DEF from
  <2> QED
    BY <1>1, <1>2, SubSeqProperties
<1>4. LastOf(s, k) = SubSeq(s, from, Len(s))
  BY DEF LastOf
<1>5. Len(LastOf(s, k)) = IF Len(s) > k THEN k ELSE Len(s)
  <2>1. CASE Len(s) > k
    <3>1. from = Len(s) - k + 1 /\ from <= Len(s) /\ Len(s) - from + 1 = k
      BY <1>1, <2>1
    <3> HIDE DEF from
    <3> QED
      BY <1>3, <1>4, <2>1, <3>1
  <2>2. CASE ~(Len(s) > k)
    <3>1. from = 1 /\ Len(s) - from + 1 = Len(s) /\ (from <= Len(s) \/ Len(s) = 0)
      BY <1>1, <2>2
    <3> HIDE DEF from
    <3> QED
      BY <1>1, <1>3, <1>4, <2>2, <3>1
  <2> QED
    BY <2>1, <2>2
<1>6. from - 1 = Len(s) - Len(LastOf(s, k)) /\ Len(s) - from + 1 = Len(LastOf(s, k))
  BY <1>1, <1>5
<1>7. ASSUME NEW i \in 1..Len(LastOf(s, k))
      PROVE  LastOf(s, k)[i] = s[i + (Len(s) - Len(LastOf(s, k)))]
  <2>1. SubSeq(s, from, Len(s))[i] = s[from + i - 1]
    BY <1>3, <1>6
  <2>2. from + i - 1 = i + (Len(s) - Len(LastOf(s, k)))
    BY <1>1, <1>5, <1>6
  <2> QED
    BY <1>4, <2>1, <2>2
<1> QED
  BY <1>5, <1>7, LastOfSeq

\* Keeping the last turns of the last turns keeps them.
LEMMA LastOfLast ==
  ASSUME NEW s \in Seq(Nat), NEW k \in Nat \ {0}
  PROVE  LastOf(LastOf(s, k), k) = LastOf(s, k)
<1> DEFINE t == LastOf(s, k)
<1>1. t \in Seq(Nat) /\ Len(t) <= k /\ Len(t) \in Nat
  BY LastOfElements, LenProperties
<1> HIDE DEF t
<1>2. /\ LastOf(t, k) \in Seq(Nat) /\ Len(LastOf(t, k)) = Len(t)
      /\ \A i \in 1..Len(LastOf(t, k)) : LastOf(t, k)[i] = t[i + (Len(t) - Len(LastOf(t, k)))]
  BY <1>1, LastOfElements
<1>3. \A i \in 1..Len(t) : LastOf(t, k)[i] = t[i]
  BY <1>1, <1>2
<1>4. LastOf(t, k) = t
  BY <1>1, <1>2, <1>3, SeqEqual
<1> QED
  BY <1>4 DEF t

\* A turn appended to the turns kept is a turn appended to them all.
LEMMA LastOfAppend ==
  ASSUME NEW s \in Seq(Nat), NEW x \in Nat, NEW k \in Nat \ {0}
  PROVE  LastOf(Append(LastOf(s, k), x), k) = LastOf(Append(s, x), k)
<1> DEFINE t == LastOf(s, k)
           l == Append(t, x)
           r == Append(s, x)
<1>1. /\ t \in Seq(Nat) /\ Len(s) \in Nat /\ Len(t) = IF Len(s) > k THEN k ELSE Len(s)
      /\ \A i \in 1..Len(t) : t[i] = s[i + (Len(s) - Len(t))]
  BY LastOfElements, LenProperties
<1> HIDE DEF t
<1>2. /\ l \in Seq(Nat) /\ Len(l) = Len(t) + 1 /\ l[Len(t) + 1] = x
      /\ \A i \in 1..Len(t) : l[i] = t[i]
  BY <1>1, AppendProperties
<1>3. /\ r \in Seq(Nat) /\ Len(r) = Len(s) + 1 /\ r[Len(s) + 1] = x
      /\ \A i \in 1..Len(s) : r[i] = s[i]
  BY AppendProperties
<1> HIDE DEF l, r
<1>4. /\ Len(t) \in Nat /\ Len(t) <= Len(s) /\ Len(l) \in Nat /\ Len(r) \in Nat
      /\ Len(l) <= Len(r) /\ Len(s) - Len(t) \in Nat /\ Len(r) - Len(l) = Len(s) - Len(t)
      /\ Len(l) = Len(r) \/ (Len(l) = k + 1 /\ Len(r) > k)
  <2>1. Len(t) \in Nat /\ Len(t) <= Len(s) /\ (Len(t) = Len(s) \/ (Len(t) = k /\ Len(s) > k))
    BY <1>1
  <2>2. Len(l) = Len(t) + 1 /\ Len(r) = Len(s) + 1
    BY <1>2, <1>3
  <2> QED
    BY <1>1, <2>1, <2>2
<1>5. \A i \in 1..Len(l) : l[i] = r[i + (Len(r) - Len(l))]
  <2> SUFFICES ASSUME NEW i \in 1..Len(l) PROVE l[i] = r[i + (Len(r) - Len(l))]
    OBVIOUS
  <2>1. CASE i = Len(t) + 1
    <3>1. Len(t) + 1 + (Len(s) - Len(t)) = Len(s) + 1
      <4>1. Len(s) \in Nat /\ Len(t) \in Nat
        BY <1>1, <1>4
      <4> QED
        BY <4>1
    <3>2. i + (Len(r) - Len(l)) = Len(s) + 1
      BY <1>4, <2>1, <3>1
    <3> QED
      BY <1>2, <1>3, <2>1, <3>2
  <2>2. CASE i \in 1..Len(t)
    <3>1. i + (Len(r) - Len(l)) = i + (Len(s) - Len(t))
      BY <1>4
    <3>2. i + (Len(s) - Len(t)) \in 1..Len(s)
      <4>1. Len(s) \in Nat /\ Len(t) \in Nat /\ Len(t) <= Len(s)
        BY <1>1, <1>4
      <4> QED
        BY <2>2, <4>1
    <3> QED
      BY <1>1, <1>2, <1>3, <2>2, <3>1, <3>2
  <2>3. i = Len(t) + 1 \/ i \in 1..Len(t)
    BY <1>2, <1>4
  <2> QED
    BY <2>1, <2>2, <2>3
<1>6. /\ LastOf(l, k) \in Seq(Nat) /\ Len(LastOf(l, k)) = IF Len(l) > k THEN k ELSE Len(l)
      /\ \A i \in 1..Len(LastOf(l, k)) : LastOf(l, k)[i] = l[i + (Len(l) - Len(LastOf(l, k)))]
  BY <1>2, LastOfElements
<1>7. /\ LastOf(r, k) \in Seq(Nat) /\ Len(LastOf(r, k)) = IF Len(r) > k THEN k ELSE Len(r)
      /\ \A i \in 1..Len(LastOf(r, k)) : LastOf(r, k)[i] = r[i + (Len(r) - Len(LastOf(r, k)))]
  BY <1>3, LastOfElements
<1>8. Len(LastOf(l, k)) = Len(LastOf(r, k)) /\ Len(LastOf(l, k)) <= Len(l)
      /\ Len(LastOf(l, k)) \in Nat
  BY <1>6, <1>7, <1>4
<1>9. ASSUME NEW i \in 1..Len(LastOf(l, k))
      PROVE  LastOf(l, k)[i] = LastOf(r, k)[i]
  <2> DEFINE j == i + (Len(l) - Len(LastOf(l, k)))
  <2>1. Len(l) \in Nat /\ Len(r) \in Nat /\ Len(LastOf(l, k)) \in Nat
    BY <1>8, <1>4
  <2>2. j \in 1..Len(l) /\ j + (Len(r) - Len(l)) = i + (Len(r) - Len(LastOf(r, k)))
    BY <1>8, <2>1
  <2> HIDE DEF j
  <2>3. l[j] = r[j + (Len(r) - Len(l))]
    BY <1>5, <2>2
  <2> QED
    BY <1>6, <1>7, <1>8, <2>2, <2>3 DEF j
<1>10. LastOf(l, k) = LastOf(r, k)
  BY <1>6, <1>7, <1>8, <1>9, SeqEqual
<1> QED
  BY <1>10 DEF l, r, t
-----------------------------------------------------------------------------
LEMMA TurnsInit == Init => Turns
<1> SUFFICES ASSUME Init PROVE Turns
  OBVIOUS
<1>1. LastOf(<<>>, KeptTurns) = <<>>
  <2>1. Len(<<>>) = 0 /\ ~(0 > KeptTurns) /\ SubSeq(<<>>, 1, 0) = <<>>
    BY SessionAssumption, SubSeqEmpty
  <2> QED
    BY <2>1 DEF LastOf
<1> QED
  BY <1>1 DEF Init, Turns

\* The prompts referred to stay as they are, so Overlapped is stable.
LEMMA SubmitTurns ==
  ASSUME SessionInv, Turns,
         NEW seen, NEW located \in BOOLEAN, NEW record \in Records \cup {NoOne}, NEW from \in Nat,
         Submit(seen, located, record, from),
         seen \in ScreenValues, seen.history \in Seq(Now),
         prompts' \in Seq(PromptValues), DOMAIN prompts' = DOMAIN prompts,
         \A q \in DOMAIN prompts : /\ prompts'[q].generation = prompts[q].generation
                                   /\ prompts'[q].asked = prompts[q].asked
                                   /\ prompts'[q].resets = prompts[q].resets
                                   /\ prompts'[q].waiting = prompts[q].waiting,
         from = 0 => seen.history = history,
         from # 0 => /\ from \in DOMAIN prompts /\ from = Len(prompts)
                     /\ prompts[from].asked = Len(asks) /\ prompts[from].resets = resets
                     /\ ~prompts[from].waiting => seen.history = history
  PROVE  Turns'
<1> DEFINE effective == IF located \/ (place = NoPlace /\ label) THEN Here ELSE place
           Sent == [state |-> "flying", history |-> LastOf(seen.history, KeptTurns),
                    place |-> effective, resets |-> resets, from |-> from]
           n == Len(asks) + 1
<1>1. /\ generation' = generation + 1 /\ active' = n
      /\ asks' = Append(Abandoned, Sent)
      /\ history' = history /\ resets' = resets /\ answered' = answered
  BY DEF Submit, Bumped
<1>2. /\ Len(asks) \in Nat /\ resets \in Nat /\ effective \in Nat /\ n \in Nat /\ n # 0
      /\ KeptTurns \in Nat \ {0} /\ DOMAIN asks = 1..Len(asks)
      /\ DOMAIN prompts = 1..Len(prompts) /\ Len(prompts) \in Nat
  BY SessionAssumption DEF SessionInv, Shapes, Boundary, NoPlace, Here
<1>3. Sent \in AskValues
  <2>1. LastOf(seen.history, KeptTurns) \in Seq(Nat)
    BY <1>2, LastOfSeq DEF ScreenValues
  <2> QED
    BY <1>2, <2>1 DEF AskValues, AskStates
<1>4. Sent.from = from /\ Sent.resets = resets /\ Sent.history = LastOf(seen.history, KeptTurns)
  OBVIOUS
<1>5. /\ Abandoned \in Seq(AskValues) /\ Len(Abandoned) = Len(asks)
      /\ \A i \in DOMAIN asks : Abandoned[i].resets = asks[i].resets /\ Abandoned[i].from = asks[i].from
  BY AbandonedProperties DEF SessionInv
<1> HIDE DEF Sent, effective
<1>6. /\ DOMAIN asks' = DOMAIN asks \cup {n} /\ asks'[n] = Sent
      /\ \A i \in DOMAIN asks : asks'[i].resets = asks[i].resets /\ asks'[i].from = asks[i].from
  BY <1>1, <1>2, <1>3, <1>5, AppendProperties
<1>7. ASSUME NEW m \in DOMAIN asks', asks'[m].from # 0
      PROVE  /\ asks'[m].from \in DOMAIN prompts'
             /\ prompts'[asks'[m].from].asked = m - 1
             /\ prompts'[asks'[m].from].resets = asks'[m].resets
             /\ \A q \in DOMAIN prompts' : q > asks'[m].from => prompts'[q].asked >= m
  <2>1. CASE m = n
    <3>1. asks'[m].from = from /\ asks'[m].resets = resets /\ from # 0
      BY <1>4, <1>6, <1>7, <2>1
    <3>2. m - 1 = Len(asks)
      <4>1. Len(asks) \in Nat /\ m = Len(asks) + 1
        BY <1>2, <2>1
      <4> QED
        BY <4>1
    <3>3. \A q \in DOMAIN prompts' : ~(q > from)
      BY <1>2, <3>1
    <3> QED
      BY <3>1, <3>3, <3>2
  <2>2. CASE m \in DOMAIN asks
    <3>1. asks'[m].from = asks[m].from /\ asks'[m].resets = asks[m].resets /\ asks[m].from # 0
      BY <1>6, <1>7, <2>2
    <3>2. /\ asks[m].from \in DOMAIN prompts
          /\ prompts[asks[m].from].asked = m - 1
          /\ prompts[asks[m].from].resets = asks[m].resets
          /\ \A q \in DOMAIN prompts : q > asks[m].from => prompts[q].asked >= m
      BY <2>2, <3>1 DEF Turns
    <3> QED
      BY <3>1, <3>2
  <2> QED
    BY <1>6, <2>1, <2>2
<1>8. \A p \in DOMAIN prompts' : prompts'[p].generation # generation'
  <2>1. \A p \in DOMAIN prompts : prompts[p].generation # generation'
    BY <1>1, PromptProperties DEF SessionInv, Shapes, Boundary
  <2> QED
    BY <2>1
<1>9. ~Overlapped' => ~Overlapped /\ (from # 0 => ~prompts[from].waiting)
  BY <1>4, <1>6 DEF Overlapped, Turns
<1>10. ASSUME ~Overlapped'
       PROVE  history' = LastOf(answered', KeptTurns) /\ asks'[active'].history = history'
  <2>1. history = LastOf(answered, KeptTurns) /\ answered \in Seq(Nat)
    BY <1>9, <1>10 DEF Turns
  <2>2. seen.history = history
    BY <1>9, <1>10
  <2>3. LastOf(history, KeptTurns) = history
    BY <1>2, <2>1, LastOfLast
  <2> QED
    BY <1>1, <1>4, <1>6, <2>1, <2>2, <2>3
<1> QED
  BY <1>1, <1>7, <1>8, <1>10 DEF Turns

LEMMA AskTurns == ASSUME SessionInv, Turns, Ask \/ SubmitLocation PROVE Turns'
<1>1. Screen \in ScreenValues /\ Screen.history \in Seq(Now) /\ Screen.history = history
  BY ScreenProperties DEF Screen
<1>2. prompts' = prompts /\ prompts \in Seq(PromptValues)
  BY DEF Ask, SubmitLocation, SessionInv, Shapes
<1>3. PICK located \in BOOLEAN, record \in Records \cup {NoOne} : Submit(Screen, located, record, 0)
  BY DEF Ask, SubmitLocation, SessionInv, Shapes
<1> QED
  BY <1>1, <1>2, <1>3, SubmitTurns

LEMMA GrantedTurns ==
  ASSUME SessionInv, Turns, NEW p \in DOMAIN prompts, Granted(p), PromptIsValid(p)
  PROVE  Turns'
<1>1. /\ prompts[p].seen \in ScreenValues /\ prompts[p].seen.history \in Seq(Now)
      /\ p \in Nat /\ p # 0 /\ NoOne \in Records \cup {NoOne}
  BY PromptProperties DEF Granted, PromptIsValid, SessionInv, Boundary, Shapes
<1>2. Submit(prompts[p].seen, TRUE, NoOne, p) /\ prompts' = Closed(p)
  BY DEF Granted
<1>3. /\ prompts' \in Seq(PromptValues) /\ DOMAIN prompts' = DOMAIN prompts
      /\ \A q \in DOMAIN prompts : /\ prompts'[q].generation = prompts[q].generation
                                   /\ prompts'[q].asked = prompts[q].asked
                                   /\ prompts'[q].resets = prompts[q].resets
                                   /\ prompts'[q].waiting = prompts[q].waiting
  BY <1>2, ClosedProperties DEF SessionInv
<1>4. /\ p = Len(prompts) /\ prompts[p].asked = Len(asks) /\ prompts[p].resets = resets
      /\ ~prompts[p].waiting => prompts[p].seen.history = history
  BY DEF Granted, PromptIsValid, Turns
<1> QED
  BY <1>1, <1>2, <1>3, <1>4, SubmitTurns

LEMMA CloseTurns ==
  ASSUME SessionInv, Turns, NEW p \in DOMAIN prompts, prompts' = Closed(p),
         UNCHANGED <<uiVars, active, generation, asks, resets, answered, mapVars>>
  PROVE  Turns'
<1>1. /\ DOMAIN prompts' = DOMAIN prompts /\ Len(prompts') = Len(prompts)
      /\ \A q \in DOMAIN prompts : /\ prompts'[q].generation = prompts[q].generation
                                   /\ prompts'[q].asked = prompts[q].asked
                                   /\ prompts'[q].resets = prompts[q].resets
                                   /\ prompts'[q].waiting = prompts[q].waiting
                                   /\ q # p => prompts'[q] = prompts[q]
      /\ prompts'[p].pending = FALSE
  <2>1. prompts \in Seq(PromptValues) /\ prompts' \in Seq(PromptValues)
    BY ClosedProperties DEF SessionInv, Shapes
  <2>2. DOMAIN prompts' = DOMAIN prompts
    BY ClosedProperties DEF SessionInv
  <2>3. Len(prompts') = Len(prompts)
    BY <2>1, <2>2, LenProperties
  <2> QED
    BY <2>2, <2>3, ClosedProperties DEF SessionInv
<1>2. Overlapped' <=> Overlapped
  BY <1>1 DEF Overlapped, Turns
<1> QED
  BY <1>1, <1>2 DEF Turns, uiVars

LEMMA SettleTurns ==
  ASSUME SessionInv, Turns, NEW n \in DOMAIN asks, SettleAsk(n)
  PROVE  Turns'
<1> DEFINE Done(a) == [a EXCEPT !.state = "settled", !.history = <<>>, !.place = NoPlace]
<1>1. /\ asks' = [asks EXCEPT ![n] = Done(asks[n])]
      /\ generation' = generation /\ prompts' = prompts /\ resets' = resets
  BY DEF SettleAsk, Settled
<1>2. asks \in Seq(AskValues) /\ n \in Nat /\ n # 0 /\ KeptTurns \in Nat \ {0}
  BY SessionAssumption DEF SessionInv, Shapes
<1>3. \A a \in AskValues : Done(a).resets = a.resets /\ Done(a).from = a.from
  BY DEF AskValues
<1> HIDE DEF Done
<1>4. /\ DOMAIN asks' = DOMAIN asks /\ Len(asks') = Len(asks)
      /\ \A i \in DOMAIN asks : /\ asks'[i].resets = asks[i].resets /\ asks'[i].from = asks[i].from
                                /\ i # n => asks'[i] = asks[i]
  BY <1>1, <1>2, <1>3
<1>5. Overlapped' <=> Overlapped
  BY <1>1, <1>4 DEF Overlapped
<1>6. CASE Answer(n)
  <2>1. /\ active = n /\ active # 0 /\ active' = 0 /\ answered' = Append(answered, n)
        /\ history' = LastOf(Append(asks[n].history, n), KeptTurns)
    BY <1>2, <1>6 DEF Answer, OwnsView
  <2>2. answered' \in Seq(Nat)
    BY <1>2, <2>1, AppendProperties DEF Turns
  <2>3. ~Overlapped => history' = LastOf(answered', KeptTurns)
    BY <1>2, <2>1, LastOfAppend DEF Turns
  <2>4. \A p \in DOMAIN prompts : prompts[p].pending /\ prompts[p].generation = generation =>
           prompts[p].waiting
    BY <2>1 DEF Turns
  <2> QED
    BY <1>1, <1>4, <1>5, <2>1, <2>2, <2>3, <2>4 DEF Turns
<1>7. CASE Fail(n)
  <2>1. active' = 0 /\ answered' = answered /\ history' = history
    BY <1>7 DEF Fail
  <2> QED
    BY <1>1, <1>4, <1>5, <2>1 DEF Turns
<1>8. CASE IgnoreLate(n)
  <2>1. n # active /\ active' = active /\ answered' = answered /\ history' = history
    BY <1>8 DEF IgnoreLate, OwnsView, SessionInv, ViewHasOneOwner
  <2>2. active # 0 => asks'[active] = asks[active]
    BY <1>4, <2>1 DEF SessionInv, Boundary, ViewHasOneOwner, Now
  <2> QED
    BY <1>1, <1>4, <1>5, <2>1, <2>2 DEF Turns
<1> QED
  BY <1>6, <1>7, <1>8 DEF SettleAsk

LEMMA ResetTurns == ASSUME SessionInv, Turns, Reset PROVE Turns'
<1>1. /\ generation' = generation + 1 /\ asks' = Abandoned /\ active' = 0
      /\ history' = <<>> /\ answered' = <<>> /\ prompts' = prompts
  BY DEF Reset, Bumped
<1>2. /\ DOMAIN asks' = DOMAIN asks
      /\ \A i \in DOMAIN asks : asks'[i].resets = asks[i].resets /\ asks'[i].from = asks[i].from
  BY <1>1, AbandonedProperties DEF SessionInv, Abandoned
<1>3. \A p \in DOMAIN prompts' : prompts'[p].generation # generation'
  BY <1>1, PromptProperties DEF SessionInv, Shapes, Boundary
<1>4. history' = LastOf(answered', KeptTurns)
  <2>1. Len(<<>>) = 0 /\ ~(0 > KeptTurns) /\ SubSeq(<<>>, 1, 0) = <<>>
    BY SessionAssumption, SubSeqEmpty
  <2> QED
    BY <1>1, <2>1 DEF LastOf
<1> QED
  BY <1>1, <1>2, <1>3, <1>4 DEF Turns

LEMMA OpenTurns == ASSUME SessionInv, Turns, OpenPrompt PROVE Turns'
<1> DEFINE opened == [pending |-> TRUE, generation |-> generation + 1, seen |-> Screen,
                      asked |-> Len(asks), resets |-> resets, waiting |-> active # 0]
           last == Len(prompts) + 1
<1>1. /\ generation' = generation + 1 /\ prompts' = Append(prompts, opened)
      /\ history' = history /\ answered' = answered /\ asks' = asks /\ active' = active
      /\ resets' = resets
  BY DEF OpenPrompt, uiVars
<1>2. /\ opened.asked = Len(asks) /\ opened.resets = resets
      /\ ~opened.waiting => active = 0 /\ opened.seen.history = history
  BY DEF Screen
<1>3. prompts \in Seq(PromptValues) /\ opened \in PromptValues
  <2>1. Len(asks) \in Nat /\ resets \in Nat /\ generation + 1 \in Nat /\ (active # 0) \in BOOLEAN
    BY LenProperties DEF SessionInv, Shapes
  <2> QED
    BY <2>1, ScreenProperties DEF SessionInv, Shapes, PromptValues
<1> HIDE DEF opened
<1>4. /\ Len(prompts') = last /\ DOMAIN prompts' = DOMAIN prompts \cup {last}
      /\ \A p \in DOMAIN prompts : prompts'[p] = prompts[p]
      /\ prompts'[last] = opened /\ last \in Nat /\ last # 0
  BY <1>1, <1>3, AppendProperties, LenProperties
<1>5. \A p \in DOMAIN prompts : prompts[p].generation # generation'
  BY <1>1, PromptProperties DEF SessionInv, Shapes, Boundary
<1>6. Overlapped' <=> Overlapped
  BY <1>1, <1>4 DEF Overlapped, Turns
<1>7. ASSUME NEW m \in DOMAIN asks', asks'[m].from # 0
      PROVE  /\ asks'[m].from \in DOMAIN prompts'
             /\ prompts'[asks'[m].from].asked = m - 1
             /\ prompts'[asks'[m].from].resets = asks'[m].resets
             /\ \A q \in DOMAIN prompts' : q > asks'[m].from => prompts'[q].asked >= m
  <2>1. m <= Len(asks) /\ m \in DOMAIN asks
    BY <1>1 DEF SessionInv, Shapes
  <2> QED
    BY <1>1, <1>2, <1>4, <1>7, <2>1 DEF Turns
<1>8. \A p \in DOMAIN prompts' : prompts'[p].pending /\ prompts'[p].generation = generation' =>
         /\ p = Len(prompts')
         /\ prompts'[p].asked = Len(asks') /\ prompts'[p].resets = resets'
         /\ ~prompts'[p].waiting => active' = 0 /\ prompts'[p].seen.history = history'
  BY <1>1, <1>2, <1>4, <1>5
<1> QED
  BY <1>1, <1>6, <1>7, <1>8 DEF Turns

LEMMA OtherTurns ==
  ASSUME Turns, UNCHANGED <<history, requestVars>>
  PROVE  Turns'
  BY DEF requestVars, Turns, Overlapped

\* A prompt that may still ask is the last one, and the history is the last
\* turns answered unless a prompt overlapped a request.
THEOREM TurnsInvariance == Spec => []Turns
<1>1. SessionInv /\ Turns /\ [Next]_vars => Turns'
  <2> SUFFICES ASSUME SessionInv, Turns, [Next]_vars PROVE Turns'
    OBVIOUS
  <2>1. CASE Ask \/ SubmitLocation
    BY <2>1, AskTurns
  <2>2. ASSUME NEW n \in DOMAIN asks, SettleAsk(n) PROVE Turns'
    BY <2>2, SettleTurns
  <2>3. CASE Reset
    BY <2>3, ResetTurns
  <2>4. CASE OpenPrompt
    BY <2>4, OpenTurns
  <2>5. ASSUME NEW p \in DOMAIN prompts, Granted(p) PROVE Turns'
    BY <2>5, GrantedTurns, CloseTurns DEF Granted
  <2>6. ASSUME NEW p \in DOMAIN prompts, Refused(p) PROVE Turns'
    BY <2>6, CloseTurns DEF Refused
  <2>7. CASE SelectRecord \/ TypeLocation \/ ShowMap
    BY <2>7, OtherTurns DEF SelectRecord, TypeLocation, ShowMap
  <2>8. CASE MapStep /\ UNCHANGED <<uiVars, requestVars>>
    BY <2>8, OtherTurns DEF uiVars
  <2>9. CASE UNCHANGED vars
    BY <2>9, OtherTurns DEF vars, uiVars
  <2> QED
    BY <2>1, <2>2, <2>3, <2>4, <2>5, <2>6, <2>7, <2>8, <2>9 DEF Next
<1> QED
  BY <1>1, TurnsInit, SessionInvariance, PTL DEF Spec

\* A location answers its own question, and a question carries the latest
\* turns, whatever prompts are granted, however late.
THEOREM PromptsAreSpentOnce == Spec => []PromptIsLatest
<1>1. Turns => PromptIsLatest
  BY DEF Turns, PromptIsLatest
<1> QED
  BY <1>1, TurnsInvariance, PTL
=============================================================================
