---------------------------- MODULE ReviewSession ---------------------------
(***************************************************************************)
(* BlindReviewSession (review_workspace/session.py): the journals,         *)
(* receipts and locks of one review session on disk, and the processes     *)
(* that serve it (the loopback API, the command line).                     *)
(*                                                                         *)
(* An operation runs under the session's flock: it replays every journal,  *)
(* checks every receipt, and only then writes, one file after another: the *)
(* journal event, its receipt, and for a lock or a finalization a third    *)
(* file.  A process may die, or a write may fail, at every one of them.    *)
(*                                                                         *)
(* Hashes bind contents to contents, so they are modelled by what they     *)
(* commit to: a receipt holds the event it is for, the finalization holds  *)
(* the journals whose heads it names, a presentation identifier stands for *)
(* its actor's case.  The bound input files are taken to stay what they    *)
(* were; where they change, every operation refuses before it writes.      *)
(***************************************************************************)
EXTENDS Naturals, Sequences, FiniteSets

CONSTANTS
    Workers,      \* processes (or threads) that serve requests
    Reviewers,    \* the two actors of role reviewer
    Adjudicator,  \* the actor of role adjudicator
    Cases,        \* session.case_ids
    CaseOrder,    \* deterministic_actor_case_order, per actor
    Verdicts,     \* the decisions _validate_decision accepts
    NoCase,       \* the case_id None of a closing event
    Missing,      \* a file that does not exist
    Torn          \* a file that exists with part of its bytes

Actors == Reviewers \union {Adjudicator}
CaseCount == Cardinality(Cases)

ASSUME SessionAssumption ==
    /\ IsFiniteSet(Cases) /\ Cases # {}
    /\ Adjudicator \notin Reviewers
    /\ NoCase \notin Cases
    /\ \A a \in Actors :
          /\ CaseOrder[a] \in [1..CaseCount -> Cases]
          /\ \A c \in Cases : \E i \in 1..CaseCount : CaseOrder[a][i] = c

VARIABLES
    genesis,       \* session/genesis.json
    journal,       \* journals/<actor>.jsonl
    receipts,      \* receipts/<actor>/<sequence>.json, in order
    locks,         \* locks/<actor>.json
    finalization,  \* session/finalization.json
    doing,         \* the operation each worker is in
    interrupted    \* history: an operation ended between its writes

vars == <<genesis, journal, receipts, locks, finalization, doing, interrupted>>

Types == {"opened", "acknowledged", "decided", "closed"}

Event(type, case, shown, verdict) ==
    [type |-> type, case |-> case, shown |-> shown, verdict |-> verdict]

Opened(c, shown) == Event("opened", c, shown, "none")
Acknowledged(c) == Event("acknowledged", c, {}, "none")
Decided(c, v) == Event("decided", c, {}, v)
Closed == Event("closed", NoCase, {}, "none")

\* The record, or the receipt, of which only a part reached the disk.
TornRecord == Event("torn", NoCase, {}, "none")

Events ==
    [type : Types \union {"torn"}, case : Cases \union {NoCase},
     shown : SUBSET (Reviewers \X Verdicts), verdict : Verdicts \union {"none"}]

ASSUME AbsenceAssumption == {Missing, Torn} \cap [Actors -> Seq(Events)] = {}

Idle == [at |-> "idle", actor |-> Adjudicator, event |-> TornRecord]

TypeOK ==
    /\ genesis \in {"missing", "torn", "written"}
    /\ journal \in [Actors -> Seq(Events)]
    /\ receipts \in [Actors -> Seq(Events)]
    /\ locks \in [Reviewers -> {"missing", "torn", "written"}]
    /\ finalization \in {Missing, Torn} \/ finalization \in [Actors -> Seq(Events)]
    /\ doing \in [Workers -> [at : {"idle", "append", "receipt", "seal"},
                              actor : Actors, event : Events]]
    /\ interrupted \in BOOLEAN

Init ==
    /\ genesis = "missing"
    /\ journal = [a \in Actors |-> <<>>]
    /\ receipts = [a \in Actors |-> <<>>]
    /\ locks = [r \in Reviewers |-> "missing"]
    /\ finalization = Missing
    /\ doing = [w \in Workers |-> Idle]
    /\ interrupted = FALSE
-----------------------------------------------------------------------------
(***************************************************************************)
(* Replaying a journal: what _derive_actor learns from its events, and     *)
(* which events it accepts after them.                                     *)
(***************************************************************************)
LastType(j) == IF j = <<>> THEN "none" ELSE j[Len(j)].type
Before(j) == SubSeq(j, 1, Len(j) - 1)

Decisions(j) == {i \in DOMAIN j : j[i].type = "decided"}
CurrentIndex(j) == Cardinality(Decisions(j))
IsClosed(j) == LastType(j) = "closed"
HasOpen(j) == LastType(j) \in {"opened", "acknowledged"}
OpenCase(j) == j[Len(j)].case

Rulings(j) == {<<j[i].case, j[i].verdict>> : i \in Decisions(j)}

ReviewersLocked == \A r \in Reviewers : IsClosed(journal[r])

\* The review_material of _presentation: a reviewer sees none.
Material(a, c) ==
    IF a = Adjudicator
    THEN {p \in Reviewers \X Verdicts : <<c, p[2]>> \in Rulings(journal[p[1]])}
    ELSE {}

NextCase(a, j) == CaseOrder[a][CurrentIndex(j) + 1]

Presents(a, j, e) ==
    /\ ~IsClosed(j) /\ ~HasOpen(j)
    /\ CurrentIndex(j) < CaseCount
    /\ a = Adjudicator => ReviewersLocked
    /\ e = Opened(NextCase(a, j), Material(a, NextCase(a, j)))

Acknowledges(j, e) == LastType(j) = "opened" /\ e = Acknowledged(OpenCase(j))

Decides(j, e) ==
    /\ LastType(j) = "acknowledged"
    /\ \E v \in Verdicts : e = Decided(OpenCase(j), v)

Closes(j, e) ==
    /\ ~IsClosed(j) /\ ~HasOpen(j)
    /\ CurrentIndex(j) = CaseCount
    /\ e = Closed

Follows(a, j, e) ==
    Presents(a, j, e) \/ Acknowledges(j, e) \/ Decides(j, e) \/ Closes(j, e)

Replays(a) ==
    \A i \in DOMAIN journal[a] : Follows(a, SubSeq(journal[a], 1, i - 1), journal[a][i])

\* Mutant of VerifyEventReceipts: the last events may lack their receipts.
ReceiptsAreAPrefix(a) == receipts[a] = SubSeq(journal[a], 1, Len(receipts[a]))

\* The receipt roster is the journal's, and each receipt is its event's.
VerifyEventReceipts(a) == receipts[a] = journal[a]

\* Mutant of VerifyReviewerLock: the lock is wanted too early.
LockWantedAlways(a) == locks[a] = "written"

VerifyReviewerLock(a) == IsClosed(journal[a]) => locks[a] = "written"

\* _verify_genesis and _states return.
Verified ==
    /\ genesis = "written"
    /\ \A a \in Actors : Replays(a) /\ VerifyEventReceipts(a)
    /\ \A r \in Reviewers : VerifyReviewerLock(r)
    /\ journal[Adjudicator] # <<>> => ReviewersLocked
-----------------------------------------------------------------------------
(***************************************************************************)
(* Operations.  The flock is taken and the checks pass in one step: nobody *)
(* writes meanwhile.  A request that is refused changes nothing.           *)
(***************************************************************************)
GuardFree == \A w \in Workers : doing[w].at = "idle"

Begin(w, a, e) ==
    /\ GuardFree
    /\ Verified
    /\ doing' = [doing EXCEPT ![w] = [at |-> "append", actor |-> a, event |-> e]]
    /\ UNCHANGED <<genesis, journal, receipts, locks, finalization, interrupted>>

\* Mutant of RequireReviewerLocks: one lock is enough.
RequireOneLock(a) == a = Adjudicator => \E r \in Reviewers : IsClosed(journal[r])

RequireReviewerLocks(a) == a = Adjudicator => ReviewersLocked

\* The session's files start with genesis.json, which is never overwritten.
Create ==
    /\ genesis = "missing"
    /\ genesis' \in {"torn", "written"}
    /\ UNCHANGED <<journal, receipts, locks, finalization, doing, interrupted>>

PresentNext(w, a) ==
    /\ RequireReviewerLocks(a)
    /\ ~IsClosed(journal[a]) /\ CurrentIndex(journal[a]) # CaseCount
    /\ ~HasOpen(journal[a])
    /\ LET c == NextCase(a, journal[a]) IN Begin(w, a, Opened(c, Material(a, c)))

\* The client names the presentation it means; it may be one of long ago.
RequireOpen(a, c) == HasOpen(journal[a]) /\ OpenCase(journal[a]) = c

AcknowledgeDisplay(w, a, c) ==
    /\ RequireReviewerLocks(a)
    /\ RequireOpen(a, c)
    /\ LastType(journal[a]) # "acknowledged"
    /\ Begin(w, a, Acknowledged(c))

RecordDecision(w, a, c, v) ==
    /\ RequireReviewerLocks(a)
    /\ RequireOpen(a, c)
    /\ LastType(journal[a]) = "acknowledged"
    /\ Begin(w, a, Decided(c, v))

DecidedAll(a) == CurrentIndex(journal[a]) = CaseCount /\ ~HasOpen(journal[a])

LockReviewer(w, r) ==
    /\ ~IsClosed(journal[r])
    /\ DecidedAll(r)
    /\ Begin(w, r, Closed)

FinalizeAdjudication(w) ==
    /\ ReviewersLocked
    /\ ~IsClosed(journal[Adjudicator])
    /\ DecidedAll(Adjudicator)
    /\ Begin(w, Adjudicator, Closed)
-----------------------------------------------------------------------------
(***************************************************************************)
(* The writes of an operation.                                             *)
(***************************************************************************)
EndOf(w) == doing' = [doing EXCEPT ![w] = Idle]
GoOn(w, to) == doing' = [doing EXCEPT ![w].at = to]

AppendEvent(w) ==
    LET a == doing[w].actor IN
    /\ doing[w].at = "append"
    /\ journal' = [journal EXCEPT ![a] = Append(@, doing[w].event)]
    /\ GoOn(w, "receipt")
    /\ UNCHANGED <<genesis, receipts, locks, finalization, interrupted>>

\* Mutant of WriteEventReceipt: the operation ends before its last file.
WriteEventReceiptOnly(w) ==
    LET a == doing[w].actor IN
    /\ doing[w].at = "receipt"
    /\ receipts' = [receipts EXCEPT ![a] = Append(@, doing[w].event)]
    /\ EndOf(w)
    /\ UNCHANGED <<genesis, journal, locks, finalization, interrupted>>

WriteEventReceipt(w) ==
    LET a == doing[w].actor IN
    /\ doing[w].at = "receipt"
    /\ receipts' = [receipts EXCEPT ![a] = Append(@, doing[w].event)]
    /\ IF doing[w].event = Closed THEN GoOn(w, "seal") ELSE EndOf(w)
    /\ UNCHANGED <<genesis, journal, locks, finalization, interrupted>>

WriteLockReceipt(w) ==
    /\ doing[w].at = "seal" /\ doing[w].actor \in Reviewers
    /\ locks[doing[w].actor] = "missing"
    /\ locks' = [locks EXCEPT ![doing[w].actor] = "written"]
    /\ EndOf(w)
    /\ UNCHANGED <<genesis, journal, receipts, finalization, interrupted>>

\* Mutant of WriteFinalization: the heads are those from before the event.
WriteStaleFinalization(w) ==
    /\ doing[w].at = "seal" /\ doing[w].actor = Adjudicator
    /\ Verified
    /\ finalization = Missing
    /\ finalization' = [journal EXCEPT ![Adjudicator] = Before(@)]
    /\ EndOf(w)
    /\ UNCHANGED <<genesis, journal, receipts, locks, interrupted>>

\* The heads are read again after the finalization event went in.
WriteFinalization(w) ==
    /\ doing[w].at = "seal" /\ doing[w].actor = Adjudicator
    /\ Verified
    /\ finalization = Missing
    /\ finalization' = journal
    /\ EndOf(w)
    /\ UNCHANGED <<genesis, journal, receipts, locks, interrupted>>

\* The process dies between two writes, or the next write fails and leaves
\* nothing: a clock that did not advance, a full disk, a short write undone.
Stop(w) ==
    /\ doing[w].at # "idle"
    /\ EndOf(w)
    /\ interrupted' = (interrupted \/ doing[w].at # "append")
    /\ UNCHANGED <<genesis, journal, receipts, locks, finalization>>

\* The process dies in the middle of a write.
Tear(w) ==
    LET a == doing[w].actor IN
    /\ doing[w].at # "idle"
    /\ \/ /\ doing[w].at = "append"
          /\ journal' = [journal EXCEPT ![a] = Append(@, TornRecord)]
          /\ UNCHANGED <<receipts, locks, finalization>>
       \/ /\ doing[w].at = "receipt"
          /\ receipts' = [receipts EXCEPT ![a] = Append(@, TornRecord)]
          /\ UNCHANGED <<journal, locks, finalization>>
       \/ /\ doing[w].at = "seal" /\ a \in Reviewers
          /\ locks' = [locks EXCEPT ![a] = "torn"]
          /\ UNCHANGED <<journal, receipts, finalization>>
       \/ /\ doing[w].at = "seal" /\ a = Adjudicator
          /\ finalization' = Torn
          /\ UNCHANGED <<journal, receipts, locks>>
    /\ EndOf(w)
    /\ interrupted' = TRUE
    /\ UNCHANGED genesis

Operation(w) ==
    \/ \E a \in Actors :
          \/ PresentNext(w, a)
          \/ \E c \in Cases : AcknowledgeDisplay(w, a, c)
          \/ \E c \in Cases, v \in Verdicts : RecordDecision(w, a, c, v)
    \/ \E r \in Reviewers : LockReviewer(w, r)
    \/ FinalizeAdjudication(w)

Write(w) ==
    AppendEvent(w) \/ WriteEventReceipt(w) \/ WriteLockReceipt(w) \/ WriteFinalization(w)

Next ==
    \/ Create
    \/ \E w \in Workers : Operation(w) \/ Write(w) \/ Stop(w) \/ Tear(w)

Spec == Init /\ [][Next]_vars

(***************************************************************************)
(* A worker that is not stopped goes on writing, a write that is tried     *)
(* again and again succeeds in the end, and the people keep asking for     *)
(* their next step for as long as they have one.                           *)
(***************************************************************************)
NextStepOf(a) ==
    \E w \in Workers :
        \/ PresentNext(w, a)
        \/ \E c \in Cases : AcknowledgeDisplay(w, a, c)
        \/ \E c \in Cases, v \in Verdicts : RecordDecision(w, a, c, v)
        \/ a \in Reviewers /\ LockReviewer(w, a)
        \/ a = Adjudicator /\ FinalizeAdjudication(w)

Fairness ==
    /\ \A w \in Workers : SF_vars(AppendEvent(w)) /\ WF_vars(Write(w))
    /\ \A a \in Actors : WF_vars(NextStepOf(a))

FairSpec == Spec /\ Fairness
-----------------------------------------------------------------------------
(***************************************************************************)
(* What the session's readers see when they hold the guard.                *)
(***************************************************************************)
Finalized == finalization \notin {Missing, Torn}

\* progress, and the session-status command, report "finalized".
ReportsFinalized == Verified /\ IsClosed(journal[Adjudicator])

\* finalized_evidence returns; it compares the receipt with itself only.
YieldsEvidence == ReportsFinalized /\ Finalized
-----------------------------------------------------------------------------
Receipt(a, i) == i \in DOMAIN receipts[a] /\ receipts[a][i] = journal[a][i]

Unreceipted ==
    {p \in Actors \X (1..(3 * CaseCount + 1)) :
        p[2] \in DOMAIN journal[p[1]] /\ ~Receipt(p[1], p[2])}

\* However many processes die, and wherever, at most one event of the whole
\* session is ever without its receipt: a damaged session takes no more.
AtMostOneUnreceipted == Cardinality(Unreceipted) <= 1

\* Between operations the files agree, and the session can go on, unless an
\* operation was cut short after its first write; one that failed before it
\* (a clock that stood still, a full disk) has left no trace.
WholeUnlessInterrupted ==
    GuardFree /\ genesis = "written" /\ ~interrupted =>
        /\ Verified
        /\ IsClosed(journal[Adjudicator]) <=> Finalized

\* Evidence that is handed out names the journals as they are, and holds one
\* ruling of every actor on every case.
EvidenceStands ==
    GuardFree /\ YieldsEvidence =>
        /\ finalization = journal
        /\ \A a \in Actors, c \in Cases :
              Cardinality({v \in Verdicts : <<c, v>> \in Rulings(journal[a])}) = 1

\* The events of a journal: a record that was cut short is none, and nothing
\* ever follows it.
Told(a) == IF LastType(journal[a]) = "torn" THEN Before(journal[a]) ELSE journal[a]

OnScreen(j) ==
    IF HasOpen(j)
    THEN LET opened == j[1 + 3 * CurrentIndex(j)] IN
         {[case |-> opened.case, shown |-> opened.shown, seen |-> LastType(j) = "acknowledged"]}
    ELSE {}

Review == INSTANCE BlindReview WITH
    rulings <- [a \in Actors |-> Rulings(Told(a))],
    screen  <- [a \in Actors |-> OnScreen(Told(a))],
    closed  <- {a \in Actors : IsClosed(Told(a))}

\* The journals, through any interleaving of workers and any crash, tell a
\* review that BlindReview allows.
ReviewPromise == Review!Spec

\* Nothing but an interruption keeps a session from its finalization.
EventuallyFinalized == genesis = "written" ~> Finalized \/ interrupted
=============================================================================
