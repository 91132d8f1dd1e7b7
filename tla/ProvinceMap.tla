---------------------------- MODULE ProvinceMap -----------------------------
(***************************************************************************)
(* The province map of the web client (useProvinceMap.ts): one owner of    *)
(* the requests for the official layers, which polls while the map is      *)
(* enabled and the page is visible, retries after a failure, and starts    *)
(* again at a navigation boundary (a question, Home, a reset).             *)
(*                                                                         *)
(* The browser runs one callback at a time, so an action is a callback     *)
(* with all it calls.  A request sits in a slot from fetch to settlement;  *)
(* token = generation.current and signal.aborted are flags of the slot.    *)
(* The time until dueAt is whether it is past.                             *)
(***************************************************************************)
EXTENDS Naturals

CONSTANT Slots  \* the bound on requests not yet settled, aborted ones included

NoSlot == 0

ASSUME SlotsAssumption == Slots \subseteq Nat \ {NoSlot}

VARIABLES
    enabled,  \* the argument of the hook
    visible,  \* document.visibilityState # "hidden"
    map       \* the refs and the state of the hook

mapVars == <<enabled, visible, map>>

\* crossed is history: a boundary or a pause has passed since the fetch.
Fetches == [out : BOOLEAN, aborted : BOOLEAN, current : BOOLEAN, crossed : BOOLEAN]
Idle == [out |-> FALSE, aborted |-> FALSE, current |-> FALSE, crossed |-> FALSE]
Fetching == [Idle EXCEPT !.out = TRUE, !.current = TRUE]

MapTypeOK ==
    /\ enabled \in BOOLEAN
    /\ visible \in BOOLEAN
    /\ map \in [controller : Slots \cup {NoSlot}, fetches : [Slots -> Fetches],
                due : BOOLEAN, timer : BOOLEAN, loading : BOOLEAN,
                data : {"none", "own", "crossed"}]
-----------------------------------------------------------------------------
(***************************************************************************)
(* The functions of the effect, on a value m of map.                       *)
(***************************************************************************)
\* Mutant of Scheduled: nothing is armed.
ScheduledNever(m, seen) == [m EXCEPT !.timer = FALSE]

Scheduled(m, seen) == [m EXCEPT !.timer = seen]

Requested(m, s, seen) ==
    IF ~seen \/ m.controller # NoSlot THEN m
    ELSE [m EXCEPT !.timer = FALSE, !.controller = s, !.loading = TRUE,
                   !.fetches = [t \in Slots |-> IF t = s THEN Fetching
                                                ELSE [m.fetches[t] EXCEPT !.current = FALSE]]]

Crossed(m) == [t \in Slots |-> [m.fetches[t] EXCEPT !.crossed = m.fetches[t].out]]

\* Mutant of Paused: the request in flight is not let go of.
PausedTimerOnly(m) == [m EXCEPT !.timer = FALSE, !.fetches = Crossed(m)]

\* Mutant of Paused: loading stays up.
PausedLoading(m) ==
    [m EXCEPT !.timer = FALSE, !.controller = NoSlot, !.due = TRUE,
              !.fetches = [t \in Slots |-> [Crossed(m)[t] EXCEPT !.current = FALSE, !.aborted = TRUE]]]

Paused(m) ==
    IF m.controller = NoSlot THEN [m EXCEPT !.timer = FALSE, !.fetches = Crossed(m)]
    ELSE [m EXCEPT !.timer = FALSE, !.controller = NoSlot, !.due = TRUE, !.loading = FALSE,
                   !.fetches = [t \in Slots |->
                       [Crossed(m)[t] EXCEPT !.current = FALSE,
                                             !.aborted = @ \/ t = m.controller]]]

VisibilityChanged(m, s, seen) ==
    IF ~seen THEN Paused(m)
    ELSE IF m.due THEN Requested(m, s, seen) ELSE Scheduled(m, seen)

\* The effect runs again: its cleanup, and then, if it is on, its body with a
\* controller of its own.
Rerun(m, on, s) ==
    LET after == [Paused(m) EXCEPT !.controller = NoSlot]
    IN  IF on THEN VisibilityChanged(after, s, visible) ELSE after

\* The slot of the next fetch.
Free(s) ==
    /\ ~map.fetches[s].out
    /\ \A t \in Slots : map.fetches[t].out \/ s <= t
-----------------------------------------------------------------------------
MapInit ==
    /\ enabled = FALSE
    /\ visible \in BOOLEAN
    /\ map = [controller |-> NoSlot, fetches |-> [s \in Slots |-> Idle], due |-> TRUE,
              timer |-> FALSE, loading |-> FALSE, data |-> "none"]

\* The epoch moves, or enabled changes to on.
Navigate(on) ==
    /\ enabled' = on
    /\ \E s \in Slots : Free(s) /\ map' = IF on \/ enabled THEN Rerun(map, on, s) ELSE map
    /\ UNCHANGED visible

\* The listener of visibilitychange, if the effect is on.
ChangeVisibility ==
    /\ visible' = ~visible
    /\ \E s \in Slots :
          /\ Free(s)
          /\ map' = IF enabled THEN VisibilityChanged(map, s, ~visible) ELSE map
    /\ UNCHANGED enabled

\* The clock passes dueAt.
FallDue ==
    /\ ~map.due
    /\ map' = [map EXCEPT !.due = TRUE]
    /\ UNCHANGED <<enabled, visible>>

TimerFires ==
    /\ map.timer /\ map.due
    /\ \E s \in Slots : Free(s) /\ map' = Requested([map EXCEPT !.timer = FALSE], s, visible)
    /\ UNCHANGED <<enabled, visible>>

\* The button: invoke.current().
Refresh ==
    /\ enabled
    /\ \E s \in Slots : Free(s) /\ map' = Requested(map, s, visible)
    /\ UNCHANGED <<enabled, visible>>

Ended(s) == [map EXCEPT !.fetches[s] = Idle]

\* disposed comes with aborted: the cleanup pauses, which aborts.
Owned(s) == ~map.fetches[s].aborted /\ map.fetches[s].current

\* A success sets dueAt a refresh period ahead and a failure a retry period;
\* either way the finally clause then schedules the next request.
Settle(s) ==
    /\ map.fetches[s].out
    /\ \E ok \in BOOLEAN :
          map' = IF ~Owned(s) THEN Ended(s)
                 ELSE Scheduled([Ended(s) EXCEPT
                          !.controller = NoSlot, !.due = FALSE, !.loading = FALSE,
                          !.data = IF ~ok THEN @
                                   ELSE IF map.fetches[s].crossed THEN "crossed" ELSE "own"],
                          visible)
    /\ UNCHANGED <<enabled, visible>>

MapStep ==
    \/ ChangeVisibility
    \/ FallDue
    \/ TimerFires
    \/ Refresh
    \/ \E s \in Slots : Settle(s)

\* The browser runs an armed timer, and a fetch settles or meets the client's
\* deadline.  Nothing obliges the person to press Refresh or to come back.
MapFairness ==
    /\ WF_mapVars(FallDue)
    /\ WF_mapVars(TimerFires)
    /\ \A s \in Slots : WF_mapVars(Settle(s))

MapSpec ==
    /\ MapInit
    /\ [][MapStep \/ \E on \in BOOLEAN : Navigate(on)]_mapVars
    /\ MapFairness
-----------------------------------------------------------------------------
\* A spinner is shown exactly while a request is out that will take it down:
\* one, not aborted and the latest, whatever timers, visibility, the button
\* and navigation do.
LoadingIsOwned ==
    /\ map.loading <=> map.controller # NoSlot
    /\ \A s \in Slots : (map.fetches[s].out /\ Owned(s)) <=> s = map.controller

\* No answer is taken that was asked for before the last question, reset,
\* Home or hiding of the page.
NothingCrosses == map.data # "crossed"

\* While the map stays enabled and visible it is asked for again and again,
\* and no spinner stays for good.
KeepsRefreshing ==
    <>[](enabled /\ visible) => []<>map.loading /\ []<>~map.loading
=============================================================================
