---------------------------- MODULE LiveRefresh -----------------------------
(***************************************************************************)
(* One fetch of a layer by LiveDataService (live.py, _refresh): the        *)
(* published count and the first page are asked together, the other pages  *)
(* one after another by offset, while the publisher edits the layer.       *)
(*                                                                         *)
(* A record is its OBJECTID, by which the pages are ordered.  The service  *)
(* asks for Asked records a page (1000 in the code); the source may give   *)
(* fewer, and then says that the limit cut the page.                       *)
(***************************************************************************)
EXTENDS Naturals, FiniteSets

CONSTANTS
    MaxId,       \* OBJECTIDs are 1..MaxId
    Asked,       \* resultRecordCount
    MaxPages,    \* max_pages
    MaxRecords,  \* max_records
    MaxEdits     \* bound: edits during the fetch

ASSUME RefreshAssumption ==
    /\ MaxId \in Nat /\ MaxEdits \in Nat
    /\ Asked \in Nat \ {0} /\ MaxPages \in Nat \ {0} /\ MaxRecords \in Nat \ {0}

VARIABLES
    source,    \* the records the source holds
    cap,       \* the most records the source puts in a page
    first,     \* the answer to the first page, in a set: {} before it
    count,     \* published, in a set: {} before the answer
    got,       \* features
    seen,      \* seen_pages
    offset,
    verdict,   \* what became of the fetch
    always,    \* history: the records the source held all through the fetch
    inserted,  \* history: the records inserted during the fetch
    deleted,   \* history: the number of deletions during the fetch
    between    \* history: a deletion came after the first page, before the count

answers == <<first, count>>
progress == <<got, seen, offset, verdict>>
edits == <<source, always, inserted, deleted, between>>
vars == <<answers, progress, edits, cap>>

Ids == 1..MaxId
Pages == [ids : SUBSET Ids, exceeded : BOOLEAN]
Verdicts == {"none", "ok", "repeated", "stalled", "limit", "mismatch", "error"}

TypeOK ==
    /\ source \subseteq Ids /\ always \subseteq source /\ inserted \subseteq Ids
    /\ cap \in 1..Asked
    /\ first \subseteq Pages /\ Cardinality(first) <= 1
    /\ count \subseteq 0..MaxId /\ Cardinality(count) <= 1
    /\ got \subseteq Ids /\ Cardinality(got) <= MaxRecords
    /\ seen \subseteq SUBSET Ids /\ Cardinality(seen) <= MaxPages
    /\ offset \in 0..(Asked * MaxPages)
    /\ verdict \in Verdicts
    /\ deleted \in 0..MaxEdits /\ between \in BOOLEAN

Init ==
    /\ source \in SUBSET Ids
    /\ cap \in 1..Asked
    /\ first = {} /\ count = {} /\ got = {} /\ seen = {} /\ offset = 0
    /\ verdict = "none"
    /\ always = source /\ inserted = {} /\ deleted = 0 /\ between = FALSE

Running == verdict = "none"
-----------------------------------------------------------------------------
(***************************************************************************)
(* The source.  A record that is moved into the box, or reopened, appears  *)
(* at its place in the order, which need not be the last.                  *)
(***************************************************************************)
Rank(i) == Cardinality({j \in source : j <= i})

Page(o) ==
    [ids |-> {i \in source : Rank(i) \in (o + 1)..(o + cap)},
     exceeded |-> Cardinality(source) > o + cap]

MayEdit == Running /\ Cardinality(inserted) + deleted < MaxEdits

Insert(i) ==
    /\ MayEdit
    /\ i \in Ids \ source /\ i \notin inserted
    /\ source' = source \union {i}
    /\ inserted' = inserted \union {i}
    /\ UNCHANGED <<answers, progress, cap, always, deleted, between>>

Delete(i) ==
    /\ MayEdit
    /\ i \in source
    /\ source' = source \ {i}
    /\ always' = always \ {i}
    /\ deleted' = deleted + 1
    /\ between' = (between \/ (first # {} /\ count = {}))
    /\ UNCHANGED <<answers, progress, cap, inserted>>
-----------------------------------------------------------------------------
(***************************************************************************)
(* The fetch.                                                              *)
(***************************************************************************)
\* _published_count answers.
CountAnswers ==
    /\ Running /\ count = {}
    /\ count' = {Cardinality(source)}
    /\ UNCHANGED <<first, progress, edits, cap>>

\* The first page answers; _refresh looks at it when the gather is complete.
FirstAnswers ==
    /\ Running /\ first = {}
    /\ first' = {Page(0)}
    /\ UNCHANGED <<count, progress, edits, cap>>

\* Mutants of NextOffset and CountAgrees.
NextOffsetAsked(p) == offset + Asked
AnyCountAgrees(features) == TRUE

NextOffset(p) == offset + Cardinality(p.ids)
IsWithinRecords(new) == Cardinality(got) + Cardinality(new) <= MaxRecords
CountAgrees(features) == count = {Cardinality(features)}

IsLast(p) == p.ids = {} \/ (~p.exceeded /\ Cardinality(p.ids) < Asked)

\* What the loop of _refresh makes of page p: it ends the fetch, or goes on.
Judge(p, new) ==
    IF p.ids # {} /\ p.ids \in seen THEN "repeated"
    ELSE IF p.ids # {} /\ new = {} THEN "stalled"
    ELSE IF ~IsWithinRecords(new) THEN "limit"
    ELSE IF IsLast(p) THEN IF CountAgrees(got \union new) THEN "ok" ELSE "mismatch"
    ELSE IF Cardinality(seen) + 1 = MaxPages THEN "limit"
    ELSE "none"

TakePage(p) ==
    LET new == p.ids \ got IN
    /\ verdict' = Judge(p, new)
    /\ IF verdict' \in {"ok", "none"}
       THEN /\ got' = got \union new
            /\ seen' = seen \union {p.ids}
            /\ offset' = NextOffset(p)
       ELSE UNCHANGED <<got, seen, offset>>
    /\ UNCHANGED <<answers, edits, cap>>

TakeFirst ==
    /\ Running /\ count # {} /\ seen = {}
    /\ \E p \in first : TakePage(p)

NextPage ==
    /\ Running /\ seen # {}
    /\ TakePage(Page(offset))

\* An HTTP error, a malformed answer, a metadata mismatch, a geometry limit.
Fail ==
    /\ Running
    /\ verdict' = "error"
    /\ UNCHANGED <<answers, got, seen, offset, edits, cap>>

Next ==
    \/ \E i \in Ids : Insert(i) \/ Delete(i)
    \/ CountAnswers
    \/ FirstAnswers
    \/ TakeFirst
    \/ NextPage
    \/ Fail

Spec == Init /\ [][Next]_vars
-----------------------------------------------------------------------------
Missing == IF verdict = "ok" THEN always \ got ELSE {}

\* A source that nobody edits is read exactly, whatever its page size, and
\* is never refused for what only an edit can cause.
QuietIsExact ==
    inserted = {} /\ deleted = 0 =>
        /\ verdict = "ok" => got = source
        /\ verdict \notin {"repeated", "stalled", "mismatch"}

\* An accepted fetch misses at most one lasting record for every deletion:
\* insertions move records to later pages and can hide none.  And the count
\* catches every page that a deletion shifted, unless insertions made up for
\* it or the deletion came before the count was taken.
MissingNeedsDeletion ==
    /\ Cardinality(Missing) <= deleted
    /\ Missing # {} => inserted # {} \/ between
=============================================================================
