----------------------------- MODULE AskSession -----------------------------
(***************************************************************************)
(* The ask session of the web client (useFireLensSession.ts): questions    *)
(* that are answered later or never, browser location prompts, the list of *)
(* records on screen (the roster) and the selection, around the province   *)
(* map, which every question and reset gives a new epoch.                  *)
(*                                                                         *)
(* A handler runs with what its render saw.  A click comes on the latest   *)
(* render, but the callback of a location prompt keeps what was on screen  *)
(* at the click.  A question and its answer are one turn, named by the     *)
(* number of the request; texts, counts and coordinates are left out, and  *)
(* so is the browser without geolocation, where the button does nothing.   *)
(***************************************************************************)
EXTENDS ProvinceMap, Sequences, FiniteSets

CONSTANTS
    Records,     \* the official records answers may show
    Replies,     \* the replies of the service
    KeptTurns,   \* the turns that history.slice(-6) keeps: three pairs
    MaxAsks,     \* bounds: the questions asked,
    MaxPrompts,  \* the location prompts opened
    MaxResets    \* and the resets

NoOne == "none"

ASSUME SessionAssumption ==
    /\ NoOne \notin Records
    /\ KeptTurns \in Nat \ {0} /\ MaxAsks \in Nat /\ MaxPrompts \in Nat /\ MaxResets \in Nat
    /\ \A r \in Replies :
          /\ r.status \in {"answer", "abstention"}
          /\ r.records \subseteq Records
          /\ r.layers \in BOOLEAN        \* requested_layers is not empty
          /\ r.selected \in Records \cup {NoOne}
          /\ r.needsPlace \in BOOLEAN    \* required_input is a location

VARIABLES
    view,        \* the kind of the view and the request it is about
    history,     \* the turns kept
    roster,      \* the records of the list on screen
    selected,    \* selectedLiveResultId
    label,       \* a community is typed in the location field
    place,       \* activeLocation
    context,     \* contextLayersEnabled
    mapVisible,  \* the map is on screen
    active,      \* activeRequest: its request, or 0
    generation,  \* locationGeneration
    asks,        \* the requests so far
    prompts,     \* the location prompts so far
    resets,      \* how often the session was reset
    answered     \* history: the turns answered since the last reset

uiVars == <<view, history, roster, selected, label, place, context, mapVisible>>
requestVars == <<active, generation, asks, prompts, resets, answered>>
vars == <<uiVars, requestVars, mapVars>>

\* activeLocation is named by the reset before it, to tell where it comes from.
NoPlace == 0
Here == resets + 1
Ids == 1..MaxAsks

LastOf(s, n) == SubSeq(s, IF Len(s) > n THEN Len(s) - n + 1 ELSE 1, Len(s))
NeedsPlace == view.kind \in {"answer", "abstention"} /\ view.reply.needsPlace
NoReply == [status |-> "none", records |-> {}, layers |-> FALSE, selected |-> NoOne,
            needsPlace |-> FALSE]

TypeOK ==
    /\ MapTypeOK
    /\ view \in [kind : {"idle", "loading", "answer", "abstention", "unavailable", "error"},
                 ask : 0..MaxAsks, reply : Replies \cup {NoReply}]
    /\ history \in Seq(Ids) /\ Len(history) <= KeptTurns
    /\ roster \subseteq Records
    /\ selected \in Records \cup {NoOne}
    /\ label \in BOOLEAN /\ context \in BOOLEAN /\ mapVisible \in BOOLEAN
    /\ place \in 0..MaxResets + 1
    /\ active \in 0..Len(asks)
    /\ generation \in Nat
    /\ Len(asks) <= MaxAsks /\ Len(prompts) <= MaxPrompts
    /\ resets \in 0..MaxResets

Init ==
    /\ MapInit
    /\ view = [kind |-> "idle", ask |-> 0, reply |-> NoReply]
    /\ history = <<>> /\ answered = <<>>
    /\ roster = {}
    /\ selected = NoOne
    /\ label = FALSE /\ context = FALSE /\ mapVisible = FALSE
    /\ place = NoPlace
    /\ active = 0 /\ generation = 0 /\ resets = 0
    /\ asks = <<>> /\ prompts = <<>>
-----------------------------------------------------------------------------
\* What a render hands to the handlers it creates.
Screen == [history |-> history, roster |-> roster, selected |-> selected]

\* useProvinceMap(mapVisible && (contextLayersEnabled || idle), epoch).
MapEnabled(onScreen, layers, kind) == onScreen /\ (layers \/ kind = "idle")

\* selectedResultIdForQuestion: a named record, one whose name the question
\* spells out, the selected one if the question points at it, or none.
SelectedFor(seen, override) ==
    IF override # NoOne THEN {override} ELSE seen.roster \cup {seen.selected, NoOne}

NoScreen == [history |-> <<>>, roster |-> {}, selected |-> NoOne]

\* Mutant of Abandoned: the superseded request is not aborted.
NotAbandoned == asks

\* activeRequest.current?.abort().  What was sent is needed no more.
Abandoned ==
    [i \in DOMAIN asks |->
        IF i = active THEN [asks[i] EXCEPT !.state = "aborted", !.history = <<>>, !.place = NoPlace]
        ELSE asks[i]]

\* Mutant of Bumped: the prompts stay valid.
NotBumped == generation

Bumped == generation + 1

\* submitQuestionWithContext up to the await, in the closure of the render
\* that saw seen; located says that it comes with a location of its own, and
\* from is the prompt whose callback it is, or 0.
Submit(seen, located, record, from) ==
    LET effective == IF located \/ (place = NoPlace /\ label) THEN Here ELSE place
    IN /\ Len(asks) < MaxAsks
       /\ generation' = Bumped
       /\ active' = Len(asks) + 1
       /\ view' = [kind |-> "loading", ask |-> Len(asks) + 1, reply |-> NoReply]
       /\ place' = effective
       /\ \E r \in SelectedFor(seen, record) :
             /\ selected' = r
             /\ asks' = Append(Abandoned,
                            [state |-> "flying", history |-> LastOf(seen.history, KeptTurns),
                             place |-> effective, resets |-> resets, from |-> from])
       /\ Navigate(MapEnabled(mapVisible, context, "loading"))
       /\ UNCHANGED <<history, roster, context, mapVisible, resets, answered>>

\* The composer, a suggestion, a retry or a record's question.  A community
\* typed into the composer where a location is asked for is the override.
Ask ==
    /\ \/ \E record \in {NoOne} \cup roster : Submit(Screen, FALSE, record, 0)
       \/ NeedsPlace /\ Submit(Screen, TRUE, NoOne, 0)
    /\ UNCHANGED <<label, prompts>>

\* submitLocation: the form that continues a question lacking a location.
SubmitLocation ==
    /\ NeedsPlace /\ label
    /\ label' = FALSE
    /\ Submit(Screen, TRUE, NoOne, 0)
    /\ UNCHANGED prompts

\* The reply to request n.  An aborted request may still be answered.  The
\* roster is its records: partial_layers, which a narrower reply merges into a
\* roster that is kept, and the rest of what is shown beside them are left out.
nextRoster(reply) ==
    LET focused == reply.selected # NoOne /\ reply.records \subseteq roster
    IN IF reply.records = {} /\ ~reply.layers THEN roster
       ELSE IF focused /\ Cardinality(reply.records) < Cardinality(roster) THEN roster
       ELSE reply.records

OwnsView(n) == asks[n].state = "flying" /\ active = n

Settled(n) == [asks EXCEPT ![n].state = "settled", ![n].history = <<>>, ![n].place = NoPlace]

Answer(n) ==
    /\ OwnsView(n)
    /\ \E reply \in Replies :
          /\ view' = [kind |-> reply.status, ask |-> n, reply |-> reply]
          /\ roster' = nextRoster(reply)
          /\ selected' = reply.selected
    /\ history' = LastOf(Append(asks[n].history, n), KeptTurns)
    /\ answered' = Append(answered, n)
    /\ active' = 0

\* Mutant of Fail: the handler returns before it has shown anything.
FailSilently(n) ==
    /\ OwnsView(n)
    /\ active' = 0
    /\ UNCHANGED <<view, history, roster, selected, answered>>

\* Every failure of a request that still owns the view is shown: only its own
\* controller and its deadline abort a fetch, and the deadline is a timeout.
Fail(n) ==
    /\ OwnsView(n)
    /\ \E kind \in {"unavailable", "error"} :
          view' = [kind |-> kind, ask |-> n, reply |-> NoReply]
    /\ active' = 0
    /\ UNCHANGED <<history, roster, selected, answered>>

IgnoreLate(n) ==
    /\ ~OwnsView(n)
    /\ UNCHANGED <<view, history, roster, selected, answered, active>>

SettleAsk(n) ==
    /\ asks[n].state # "settled"
    /\ Answer(n) \/ Fail(n) \/ IgnoreLate(n)
    /\ asks' = Settled(n)
    /\ UNCHANGED <<label, place, context, mapVisible, generation, prompts, resets, mapVars>>

\* clearHistory ("Clear conversation", and Home with it).
Cleared == [kind |-> "idle", ask |-> 0, reply |-> NoReply]

Reset ==
    /\ resets < MaxResets
    /\ resets' = resets + 1
    /\ generation' = Bumped
    /\ asks' = Abandoned
    /\ active' = 0
    /\ view' = Cleared
    /\ history' = <<>> /\ answered' = <<>>
    /\ roster' = {}
    /\ selected' = NoOne
    /\ label' = FALSE /\ context' = FALSE
    /\ place' = NoPlace
    /\ Navigate(MapEnabled(mapVisible, FALSE, "idle"))
    /\ UNCHANGED <<mapVisible, prompts>>

\* useApproximateLocation: the browser asks for permission.
OpenPrompt ==
    /\ Len(prompts) < MaxPrompts
    /\ generation' = generation + 1
    /\ prompts' = Append(prompts, [pending |-> TRUE, generation |-> generation + 1,
                                   seen |-> Screen, asked |-> Len(asks), resets |-> resets,
                                   waiting |-> active # 0])
    /\ UNCHANGED <<uiVars, active, asks, resets, answered, mapVars>>

Closed(p) == [prompts EXCEPT ![p].pending = FALSE, ![p].seen = NoScreen]

\* Mutant of PromptIsValid: the generation is not compared.
PromptIsAlwaysValid(p) == TRUE

PromptIsValid(p) == prompts[p].generation = generation

Granted(p) ==
    /\ prompts[p].pending
    /\ prompts' = Closed(p)
    /\ IF PromptIsValid(p)
       THEN label' = FALSE /\ Submit(prompts[p].seen, TRUE, NoOne, p)
       ELSE UNCHANGED <<uiVars, active, generation, asks, resets, answered, mapVars>>

\* Refused, unavailable or timed out: a message at most.
Refused(p) ==
    /\ prompts[p].pending
    /\ prompts' = Closed(p)
    /\ UNCHANGED <<uiVars, active, generation, asks, resets, answered, mapVars>>

SelectRecord ==
    /\ \E r \in roster \cup {NoOne} : r # selected /\ selected' = r
    /\ UNCHANGED <<view, history, roster, label, place, context, mapVisible, requestVars, mapVars>>

TypeLocation ==
    /\ label' = ~label
    /\ UNCHANGED <<view, history, roster, selected, place, context, mapVisible, requestVars, mapVars>>

\* setMapVisible and setContextLayersEnabled; the effect of the map runs
\* again only if its argument changes.
ShowMap ==
    /\ \/ mapVisible' = ~mapVisible /\ UNCHANGED context
       \/ context' = ~context /\ UNCHANGED mapVisible
    /\ LET on == MapEnabled(mapVisible', context', view.kind)
       IN IF on # enabled THEN Navigate(on) ELSE UNCHANGED mapVars
    /\ UNCHANGED <<view, history, roster, selected, label, place, requestVars>>
-----------------------------------------------------------------------------
Next ==
    \/ Ask
    \/ SubmitLocation
    \/ \E n \in DOMAIN asks : SettleAsk(n)
    \/ Reset
    \/ OpenPrompt
    \/ \E p \in DOMAIN prompts : Granted(p) \/ Refused(p)
    \/ SelectRecord
    \/ TypeLocation
    \/ ShowMap
    \/ MapStep /\ UNCHANGED <<uiVars, requestVars>>

\* A request settles, by its answer, a failure or the client's deadline.
Spec ==
    /\ Init
    /\ [][Next]_vars
    /\ \A n \in Ids : WF_vars(n \in DOMAIN asks /\ SettleAsk(n))
    /\ MapFairness
-----------------------------------------------------------------------------
\* The view waits exactly for the one request that may still change it:
\* neither a superseded request nor a reset leaves two of them, or a view
\* that waits for none.
ViewHasOneOwner ==
    /\ view.kind = "loading" <=> active # 0
    /\ active # 0 => view.ask = active
    /\ \A n \in DOMAIN asks : asks[n].state = "flying" <=> n = active

\* A reset is a boundary: what is shown, kept or sent since was asked or given
\* since, the location too.
ResetIsBoundary ==
    LET now == {n \in DOMAIN asks : asks[n].resets = resets}
    IN /\ view.ask \in now \cup {0}
       /\ \A i \in DOMAIN history : history[i] \in now
       /\ active # 0 =>
             /\ asks[active].place \in {NoPlace, Here}
             /\ \A i \in DOMAIN asks[active].history : asks[active].history[i] \in now

\* What a granted prompt sends is what was on screen at its click: the turn of a
\* request in flight then is not in it.
Overlapped == \E n \in DOMAIN asks : asks[n].from # 0 /\ prompts[asks[n].from].waiting

\* A location is spent on the question it was asked for: a prompt that is
\* granted late submits nothing once another question, prompt or reset has
\* come between.  And every question carries the turns answered last since the
\* reset, as long as no granted prompt was opened over a request in flight.
PromptIsLatest ==
    /\ \A n \in DOMAIN asks : asks[n].from # 0 =>
          LET p == prompts[asks[n].from]
          IN /\ p.asked = n - 1 /\ p.resets = asks[n].resets
             /\ \A q \in DOMAIN prompts : q > asks[n].from => prompts[q].asked >= n
    /\ active # 0 /\ ~Overlapped => asks[active].history = LastOf(answered, KeptTurns)

\* Nobody waits for ever.
WaitingEnds == view.kind = "loading" ~> view.kind # "loading"
=============================================================================
