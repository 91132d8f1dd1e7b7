------------------------ MODULE ReviewSession_proofs ------------------------
(***************************************************************************)
(* Proofs about ReviewSession, for any number of reviewers, cases and      *)
(* workers, any interleaving of their operations and a crash at any write: *)
(* its three invariants, and that its journals tell a review BlindReview   *)
(* allows.                                                                 *)
(***************************************************************************)
EXTENDS ReviewSession, FiniteSetTheorems, SequenceTheorems, TLAPS

(***************************************************************************)
(* What the events of a journal look like: three of each case ruled on, in *)
(* the order of the actor, then what is under way.                         *)
(***************************************************************************)
ChainFrom(a, j) == \A i \in DOMAIN j : Follows(a, SubSeq(j, 1, i - 1), j[i])

Script(a, j) ==
    LET n == CurrentIndex(j)
        last == j[Len(j)]
    IN
    /\ j \in Seq(Events) /\ n \in 0..CaseCount
    /\ Decisions(j) = {3 * m : m \in 1..n}
    /\ \A m \in 1..n : j[3 * m].case = CaseOrder[a][m] /\ j[3 * m].verdict \in Verdicts
    /\ \/ /\ Len(j) = 3 * n /\ LastType(j) \in {"none", "decided"}
       \/ /\ Len(j) = 3 * n + 1 /\ n < CaseCount
          /\ last = Opened(CaseOrder[a][n + 1], last.shown)
       \/ /\ Len(j) = 3 * n + 2 /\ n < CaseCount
          /\ last = Acknowledged(CaseOrder[a][n + 1])
          /\ j[3 * n + 1].type = "opened" /\ j[3 * n + 1].case = CaseOrder[a][n + 1]
       \/ /\ Len(j) = 3 * n + 1 /\ n = CaseCount /\ last = Closed

Telling ==
    \A a \in Actors :
        /\ ChainFrom(a, Told(a)) /\ Script(a, Told(a))
        /\ LastType(journal[a]) = "torn" => ~IsClosed(Told(a))

AdjudicatorWaits == journal[Adjudicator] # <<>> => ReviewersLocked

OneWorker == \A v, w \in Workers : doing[v].at # "idle" /\ doing[w].at # "idle" => v = w

\* What the worker in the guard may rely on, at each of its writes.
Working(w) ==
    LET a == doing[w].actor
        e == doing[w].event
    IN
    /\ doing[w].at = "append" => Verified /\ Follows(a, journal[a], e)
    /\ doing[w].at = "receipt" =>
          /\ journal[a] # <<>> /\ journal[a][Len(journal[a])] = e
          /\ e.type # "torn"
          /\ e.type = "closed" => e = Closed
          /\ receipts[a] = Before(journal[a])
          /\ \A b \in Actors \ {a} : receipts[b] = journal[b]
    /\ doing[w].at = "seal" => e = Closed /\ IsClosed(journal[a]) /\ receipts = journal

\* The receipts of one actor, and of no other, may be behind its journal.
Receipted ==
    /\ \A a \in Actors :
          \/ receipts[a] = journal[a]
          \/ /\ journal[a] # <<>>
             /\ \/ receipts[a] = Before(journal[a])
                \/ receipts[a] = Append(Before(journal[a]), TornRecord)
    /\ \A a, b \in Actors : receipts[a] # journal[a] /\ receipts[b] # journal[b] => a = b

UnderWay(a) ==
    \E w \in Workers : doing[w].at \in {"receipt", "seal"} /\ doing[w].actor = a

\* Only a worker at its writes leaves a file behind another.
Unbroken ==
    ~interrupted =>
        /\ \A a \in Actors : LastType(journal[a]) # "torn"
        /\ (\A w \in Workers : doing[w].at # "receipt") => receipts = journal
        /\ \A r \in Reviewers : IsClosed(journal[r]) /\ ~UnderWay(r) => locks[r] = "written"
        /\ IsClosed(journal[Adjudicator]) /\ ~UnderWay(Adjudicator) => Finalized

Sealed == Finalized => finalization = journal /\ IsClosed(journal[Adjudicator])

IInv ==
    /\ TypeOK /\ Telling /\ AdjudicatorWaits /\ OneWorker
    /\ \A w \in Workers : Working(w)
    /\ Receipted /\ Unbroken /\ Sealed
-----------------------------------------------------------------------------
(***************************************************************************)
(* Journals that grow by an event, and journals without their last one.    *)
(***************************************************************************)
LEMMA Appended ==
    ASSUME NEW S, NEW j \in Seq(S), NEW e \in S
    PROVE  LET k == Append(j, e) IN
           /\ k \in Seq(S) /\ k # <<>>
           /\ Len(j) \in Nat /\ Len(k) = Len(j) + 1 /\ DOMAIN k = 1..(Len(j) + 1)
           /\ DOMAIN j = 1..Len(j)
           /\ k[Len(j) + 1] = e /\ \A i \in 1..Len(j) : k[i] = j[i]
           /\ Before(k) = j
           /\ \A i \in 1..(Len(j) + 1) : SubSeq(k, 1, i - 1) = SubSeq(j, 1, i - 1)
<1> DEFINE k == Append(j, e)
<1>1. /\ k \in Seq(S) /\ k # <<>> /\ Len(k) = Len(j) + 1 /\ k[Len(j) + 1] = e
      /\ \A i \in 1..Len(j) : k[i] = j[i]
    BY AppendProperties, LenProperties
<1>2. Len(j) \in Nat /\ Len(k) \in Nat
    BY <1>1, LenProperties
<1>3. DOMAIN k = 1..(Len(j) + 1) /\ DOMAIN j = 1..Len(j)
    BY <1>1, LenProperties
<1> HIDE DEF k
<1>4. ASSUME NEW i \in 1..(Len(j) + 1) PROVE SubSeq(k, 1, i - 1) = SubSeq(j, 1, i - 1)
    <2>1. \A m \in 1..(i - 1) : m \in 1..Len(j) /\ m \in 1..Len(k)
        BY <1>1, <1>2
    <2>2. \A m \in 1..(i - 1) : k[m] \in S /\ j[m] \in S
        BY <1>1, <2>1, ElementOfSeq
    <2>3. /\ SubSeq(k, 1, i - 1) \in Seq(S) /\ SubSeq(j, 1, i - 1) \in Seq(S)
          /\ Len(SubSeq(k, 1, i - 1)) = i - 1 /\ Len(SubSeq(j, 1, i - 1)) = i - 1
          /\ \A m \in 1..(i - 1) : SubSeq(k, 1, i - 1)[m] = k[m]
          /\ \A m \in 1..(i - 1) : SubSeq(j, 1, i - 1)[m] = j[m]
        BY <1>1, <1>2, <2>1, <2>2, SubSeqProperties
    <2>4. \A m \in 1..(i - 1) : SubSeq(k, 1, i - 1)[m] = SubSeq(j, 1, i - 1)[m]
        BY <1>1, <2>1, <2>3
    <2> QED BY <1>2, <2>3, <2>4, SeqEqual
<1>5. Before(k) = j
    <2>1. Before(k) = SubSeq(j, 1, Len(j))
        BY <1>1, <1>2, <1>4 DEF Before
    <2> QED BY <2>1, SubSeqFull
<1> QED BY <1>1, <1>2, <1>3, <1>4, <1>5 DEF k

LEMMA BeforeLast ==
    ASSUME NEW S, NEW j \in Seq(S), j # <<>>
    PROVE  /\ Before(j) \in Seq(S) /\ Len(j) \in Nat \ {0} /\ Len(Before(j)) = Len(j) - 1
           /\ j[Len(j)] \in S /\ j = Append(Before(j), j[Len(j)]) /\ Before(j) # j
           /\ \A i \in 1..(Len(j) - 1) : Before(j)[i] = j[i]
<1>1. Len(j) \in Nat \ {0}
    BY EmptySeq
<1>2. j[Len(j)] \in S
    BY <1>1, ElementOfSeq
<1>3. \A i \in 1..(Len(j) - 1) : i \in 1..Len(j)
    BY <1>1
<1>4. \A i \in 1..(Len(j) - 1) : j[i] \in S
    BY <1>3, ElementOfSeq
<1>5. /\ Before(j) \in Seq(S) /\ Len(Before(j)) = Len(j) - 1
      /\ \A i \in 1..(Len(j) - 1) : Before(j)[i] = j[i]
    <2>1. \A i \in 1..(Len(j) - 1) : i \in 1..Len(j) /\ 1 + i - 1 = i
        BY <1>1
    <2>2. Len(j) - 1 \in (1 - 1)..Len(j) /\ Len(j) - 1 - 1 + 1 = Len(j) - 1
        BY <1>1
    <2>3. /\ Before(j) \in Seq(S) /\ Len(Before(j)) = Len(j) - 1
          /\ \A i \in 1..(Len(j) - 1) : Before(j)[i] = j[1 + i - 1]
        BY <1>1, <1>4, <2>2, SubSeqProperties DEF Before
    <2> QED BY <2>1, <2>3
<1> DEFINE k == Append(Before(j), j[Len(j)])
<1>6. k \in Seq(S) /\ Len(k) = Len(j) /\ k[Len(j)] = j[Len(j)]
      /\ \A i \in 1..(Len(j) - 1) : k[i] = j[i]
    BY <1>1, <1>2, <1>5, Appended
<1> HIDE DEF k
<1>7. \A i \in 1..Len(j) : k[i] = j[i]
    BY <1>1, <1>6
<1>8. k = j
    BY <1>6, <1>7, SeqEqual
<1> QED BY <1>1, <1>2, <1>5, <1>8 DEF k

LEMMA IndexOfDecisions ==
    ASSUME NEW j \in Seq(Events)
    PROVE  IsFiniteSet(Decisions(j)) /\ CurrentIndex(j) \in Nat
<1>1. DOMAIN j = 1..Len(j) /\ Len(j) \in Nat
    BY LenProperties
<1>2. IsFiniteSet(1..Len(j))
    BY <1>1, FS_Interval
<1>3. IsFiniteSet(Decisions(j))
    BY <1>1, <1>2, FS_Subset DEF Decisions
<1> QED BY <1>3, FS_CardinalityType DEF CurrentIndex

LEMMA DecisionsAppended ==
    ASSUME NEW j \in Seq(Events), NEW e \in Events
    PROVE  LET k == Append(j, e) IN
           /\ e.type # "decided" => Decisions(k) = Decisions(j)
           /\ e.type # "decided" => CurrentIndex(k) = CurrentIndex(j)
           /\ e.type # "decided" => Rulings(k) = Rulings(j)
           /\ e.type = "decided" => Decisions(k) = Decisions(j) \cup {Len(j) + 1}
           /\ e.type = "decided" => CurrentIndex(k) = CurrentIndex(j) + 1
           /\ e.type = "decided" => Rulings(k) = Rulings(j) \cup {<<e.case, e.verdict>>}
<1> DEFINE k == Append(j, e)
<1>1. /\ Len(j) \in Nat /\ DOMAIN k = 1..(Len(j) + 1) /\ DOMAIN j = 1..Len(j)
      /\ k[Len(j) + 1] = e /\ \A i \in 1..Len(j) : k[i] = j[i]
    BY Appended
<1>2. IsFiniteSet(Decisions(j)) /\ CurrentIndex(j) \in Nat
    BY IndexOfDecisions
<1> HIDE DEF k
<1>3. Decisions(j) \subseteq 1..Len(j) /\ Len(j) + 1 \notin 1..Len(j)
    BY <1>1 DEF Decisions
<1>4. \A i \in Decisions(j) : k[i] = j[i]
    BY <1>1, <1>3
<1>5. CASE e.type # "decided"
    <2>1. Decisions(k) = Decisions(j)
        BY <1>1, <1>5 DEF Decisions
    <2> QED BY <1>4, <1>5, <2>1 DEF CurrentIndex, Rulings, k
<1>6. CASE e.type = "decided"
    <2>1. Decisions(k) = Decisions(j) \cup {Len(j) + 1}
        BY <1>1, <1>6 DEF Decisions
    <2>2. CurrentIndex(k) = CurrentIndex(j) + 1
        BY <1>2, <1>3, <2>1, FS_AddElement DEF CurrentIndex
    <2>3. Rulings(k) = Rulings(j) \cup {<<e.case, e.verdict>>}
        BY <1>1, <1>4, <2>1 DEF Rulings
    <2> QED BY <1>6, <2>1, <2>2, <2>3 DEF k
<1> QED BY <1>5, <1>6
-----------------------------------------------------------------------------
(***************************************************************************)
(* The order in which an actor is shown the cases leaves none out, hence   *)
(* shows none twice.                                                       *)
(***************************************************************************)
LEMMA Counted == CaseCount \in Nat \ {0}
<1>1. CaseCount \in Nat /\ (CaseCount = 0 <=> Cases = {})
    BY SessionAssumption, FS_CardinalityType, FS_EmptySet DEF CaseCount
<1> QED BY <1>1, SessionAssumption

LEMMA Ordered ==
    ASSUME NEW a \in Actors
    PROVE  /\ CaseOrder[a] \in [1..CaseCount -> Cases]
           /\ \A c \in Cases : \E i \in 1..CaseCount : CaseOrder[a][i] = c
           /\ \A i, k \in 1..CaseCount : CaseOrder[a][i] = CaseOrder[a][k] => i = k
<1>1. /\ CaseOrder[a] \in [1..CaseCount -> Cases]
      /\ \A c \in Cases : \E i \in 1..CaseCount : CaseOrder[a][i] = c
    BY SessionAssumption
<1>2. CaseOrder[a] \in Surjection(1..CaseCount, Cases)
    BY <1>1 DEF Surjection
<1>3. IsFiniteSet(1..CaseCount) /\ Cardinality(1..CaseCount) = CaseCount
    BY Counted, FS_Interval
<1>4. CaseOrder[a] \in Injection(1..CaseCount, Cases)
    BY <1>2, <1>3, FS_Surjection DEF CaseCount
<1> QED BY <1>1, <1>4 DEF Injection, IsInjective

\* What a journal that follows the script tells at a glance.
LEMMA ScriptTells ==
    ASSUME NEW a \in Actors, NEW j, Script(a, j)
    PROVE  LET n == CurrentIndex(j) IN
           /\ j \in Seq(Events) /\ n \in 0..CaseCount /\ Len(j) \in Nat
           /\ LastType(j) # "torn"
           /\ IsClosed(j) => n = CaseCount /\ j # <<>>
           /\ ~HasOpen(j) /\ ~IsClosed(j) => Len(j) = 3 * n
           /\ LastType(j) = "opened" =>
                 Len(j) = 3 * n + 1 /\ n < CaseCount /\ j # <<>>
                 /\ j[Len(j)].type = "opened" /\ OpenCase(j) = CaseOrder[a][n + 1]
           /\ LastType(j) = "acknowledged" =>
                 Len(j) = 3 * n + 2 /\ n < CaseCount /\ j # <<>>
                 /\ OpenCase(j) = CaseOrder[a][n + 1]
                 /\ j[3 * n + 1].type = "opened" /\ j[3 * n + 1].case = CaseOrder[a][n + 1]
<1> DEFINE n == CurrentIndex(j)
<1>1. j \in Seq(Events) /\ n \in 0..CaseCount
    BY DEF Script
<1>2. Len(j) \in Nat /\ n \in Nat
    BY <1>1, LenProperties, Counted
<1>3. j = <<>> => Len(j) = 0
    BY EmptySeq
<1> HIDE DEF n
<1>4. CASE Len(j) = 3 * n /\ LastType(j) \in {"none", "decided"}
    BY <1>1, <1>2, <1>4 DEF n, IsClosed, HasOpen
<1>5. CASE /\ Len(j) = 3 * n + 1 /\ n < CaseCount
           /\ j[Len(j)] = Opened(CaseOrder[a][n + 1], j[Len(j)].shown)
    <2>1. j # <<>> /\ LastType(j) = "opened" /\ j[Len(j)].type = "opened"
          /\ OpenCase(j) = CaseOrder[a][n + 1]
        BY <1>2, <1>3, <1>5 DEF LastType, Opened, Event, OpenCase
    <2> QED BY <1>1, <1>2, <1>5, <2>1 DEF n, IsClosed, HasOpen
<1>6. CASE /\ Len(j) = 3 * n + 2 /\ n < CaseCount
           /\ j[Len(j)] = Acknowledged(CaseOrder[a][n + 1])
           /\ j[3 * n + 1].type = "opened" /\ j[3 * n + 1].case = CaseOrder[a][n + 1]
    <2>1. j # <<>> /\ LastType(j) = "acknowledged" /\ OpenCase(j) = CaseOrder[a][n + 1]
        BY <1>2, <1>3, <1>6 DEF LastType, Acknowledged, Event, OpenCase
    <2> QED BY <1>1, <1>2, <1>6, <2>1 DEF n, IsClosed, HasOpen
<1>7. CASE Len(j) = 3 * n + 1 /\ n = CaseCount /\ j[Len(j)] = Closed
    <2>1. j # <<>> /\ LastType(j) = "closed"
        BY <1>2, <1>3, <1>7 DEF LastType, Closed, Event
    <2> QED BY <1>1, <1>2, <1>7, <2>1 DEF n, IsClosed, HasOpen
<1> QED BY <1>4, <1>5, <1>6, <1>7 DEF Script, n

LEMMA FollowsTypes ==
    ASSUME NEW a \in Actors, NEW j, NEW e, Follows(a, j, e)
    PROVE  /\ e.type \in Types /\ e.type # "torn" /\ ~IsClosed(j)
           /\ e.type = "closed" => e = Closed
BY DEF Follows, Presents, Acknowledges, Decides, Closes, Types, Opened, Acknowledged, Decided,
       Closed, Event, IsClosed

LEMMA ScriptOfNothing ==
    ASSUME NEW a \in Actors
    PROVE  Script(a, <<>>) /\ ChainFrom(a, <<>>) /\ CurrentIndex(<<>>) = 0
<1>1. <<>> \in Seq(Events) /\ Len(<<>>) = 0 /\ Decisions(<<>>) = {}
    BY EmptySeq DEF Decisions
<1>2. CurrentIndex(<<>>) = 0
    BY <1>1, FS_EmptySet DEF CurrentIndex
<1>3. Script(a, <<>>)
    <2>1. 0 \in 0..CaseCount /\ 1..0 = {} /\ 3 * 0 = 0
        BY Counted
    <2>2. LastType(<<>>) = "none"
        BY DEF LastType
    <2> QED BY <1>1, <1>2, <2>1, <2>2 DEF Script
<1> QED BY <1>1, <1>2, <1>3 DEF ChainFrom

LEMMA ChainGrows ==
    ASSUME NEW a \in Actors, NEW j \in Seq(Events), NEW e \in Events, ChainFrom(a, j),
           Follows(a, j, e)
    PROVE  ChainFrom(a, Append(j, e))
<1> DEFINE k == Append(j, e)
<1>1. /\ Len(j) \in Nat /\ DOMAIN k = 1..(Len(j) + 1) /\ DOMAIN j = 1..Len(j)
      /\ k[Len(j) + 1] = e /\ \A i \in 1..Len(j) : k[i] = j[i]
      /\ \A i \in 1..(Len(j) + 1) : SubSeq(k, 1, i - 1) = SubSeq(j, 1, i - 1)
    BY Appended
<1> HIDE DEF k
<1>2. ASSUME NEW i \in 1..Len(j) PROVE Follows(a, SubSeq(k, 1, i - 1), k[i])
    <2>1. Follows(a, SubSeq(j, 1, i - 1), j[i])
        BY <1>1 DEF ChainFrom
    <2>2. i \in 1..(Len(j) + 1)
        BY <1>1
    <2> QED BY <1>1, <2>1, <2>2
<1>3. Follows(a, SubSeq(k, 1, Len(j) + 1 - 1), k[Len(j) + 1])
    <2>1. SubSeq(k, 1, Len(j) + 1 - 1) = SubSeq(j, 1, Len(j))
        <3>1. Len(j) + 1 \in 1..(Len(j) + 1) /\ Len(j) + 1 - 1 = Len(j)
            BY <1>1
        <3> QED BY <1>1, <3>1
    <2>2. SubSeq(j, 1, Len(j)) = j
        BY SubSeqFull
    <2> QED BY <1>1, <2>1, <2>2
<1>4. ASSUME NEW i \in DOMAIN k PROVE Follows(a, SubSeq(k, 1, i - 1), k[i])
    <2>1. i \in 1..Len(j) \/ i = Len(j) + 1
        BY <1>1
    <2> QED BY <1>2, <1>3, <2>1
<1> QED BY <1>4 DEF ChainFrom, k

\* An event that is accepted keeps the journal to the script.
LEMMA ScriptGoesOn ==
    ASSUME NEW a \in Actors, NEW j, NEW e \in Events, Script(a, j), Follows(a, j, e)
    PROVE  Script(a, Append(j, e))
<1> DEFINE k == Append(j, e)
           n == CurrentIndex(j)
<1>1. /\ j \in Seq(Events) /\ n \in 0..CaseCount /\ Decisions(j) = {3 * m : m \in 1..n}
      /\ \A m \in 1..n : j[3 * m].case = CaseOrder[a][m] /\ j[3 * m].verdict \in Verdicts
    BY DEF Script
<1>2. Len(j) \in Nat /\ n \in Nat /\ CaseCount \in Nat \ {0}
    BY <1>1, LenProperties, Counted
<1>3. /\ k \in Seq(Events) /\ k # <<>> /\ Len(k) = Len(j) + 1
      /\ k[Len(j) + 1] = e /\ \A i \in 1..Len(j) : k[i] = j[i]
    BY <1>1, Appended
<1>4. LastType(k) = e.type
    BY <1>3 DEF LastType
<1>5. /\ e.type # "decided" => Decisions(k) = Decisions(j) /\ CurrentIndex(k) = n
      /\ e.type = "decided" =>
             Decisions(k) = Decisions(j) \cup {Len(j) + 1} /\ CurrentIndex(k) = n + 1
    BY <1>1, DecisionsAppended
<1>6. /\ ~HasOpen(j) /\ ~IsClosed(j) => Len(j) = 3 * n
      /\ LastType(j) = "opened" =>
            Len(j) = 3 * n + 1 /\ n < CaseCount /\ j[Len(j)].type = "opened"
            /\ OpenCase(j) = CaseOrder[a][n + 1]
      /\ LastType(j) = "acknowledged" =>
            Len(j) = 3 * n + 2 /\ n < CaseCount /\ OpenCase(j) = CaseOrder[a][n + 1]
    BY ScriptTells
<1>7. \A m \in 1..n : 3 * m \in 1..Len(j)
    <2>1. Decisions(j) \subseteq 1..Len(j)
        BY <1>1, LenProperties DEF Decisions
    <2> QED BY <1>1, <2>1
<1>8. \A m \in 1..n : k[3 * m].case = CaseOrder[a][m] /\ k[3 * m].verdict \in Verdicts
    BY <1>1, <1>3, <1>7
<1> HIDE DEF k, n
<1>9. CASE Presents(a, j, e)
    <2>1. /\ Len(j) = 3 * n /\ n < CaseCount
          /\ e = Opened(CaseOrder[a][n + 1], Material(a, CaseOrder[a][n + 1]))
        BY <1>6, <1>9 DEF Presents, NextCase, n
    <2>2. e.type = "opened" /\ e = Opened(CaseOrder[a][n + 1], e.shown)
        BY <2>1 DEF Opened, Event
    <2>3. CurrentIndex(k) = n /\ Len(k) = 3 * n + 1 /\ k[Len(k)] = e
        BY <1>2, <1>3, <1>5, <2>1, <2>2
    <2> QED BY <1>1, <1>3, <1>5, <1>8, <2>1, <2>2, <2>3 DEF Script, k
<1>10. CASE Acknowledges(j, e)
    <2>1. /\ Len(j) = 3 * n + 1 /\ n < CaseCount /\ e = Acknowledged(CaseOrder[a][n + 1])
          /\ j[Len(j)].type = "opened" /\ j[Len(j)].case = CaseOrder[a][n + 1]
        BY <1>6, <1>10 DEF Acknowledges, OpenCase
    <2>2. e.type = "acknowledged"
        BY <2>1 DEF Acknowledged, Event
    <2>3. CurrentIndex(k) = n /\ Len(k) = 3 * n + 2 /\ k[Len(k)] = e
        BY <1>2, <1>3, <1>5, <2>1, <2>2
    <2>4. k[3 * n + 1] = j[Len(j)]
        BY <1>2, <1>3, <2>1
    <2> QED BY <1>1, <1>3, <1>5, <1>8, <2>1, <2>2, <2>3, <2>4 DEF Script, k
<1>11. CASE Decides(j, e)
    <2>1. /\ Len(j) = 3 * n + 2 /\ n < CaseCount
          /\ \E v \in Verdicts : e = Decided(CaseOrder[a][n + 1], v)
        BY <1>6, <1>11 DEF Decides
    <2>2. e.type = "decided" /\ e.case = CaseOrder[a][n + 1] /\ e.verdict \in Verdicts
        BY <2>1 DEF Decided, Event
    <2>3. Decisions(k) = Decisions(j) \cup {3 * (n + 1)} /\ CurrentIndex(k) = n + 1
          /\ Len(k) = 3 * (n + 1) /\ k[3 * (n + 1)] = e
        BY <1>2, <1>3, <1>5, <2>1, <2>2
    <2>4. 1..(n + 1) = 1..n \cup {n + 1}
        BY <1>2
    <2>5. Decisions(k) = {3 * m : m \in 1..(n + 1)}
        BY <1>1, <2>3, <2>4
    <2>6. \A m \in 1..(n + 1) :
              k[3 * m].case = CaseOrder[a][m] /\ k[3 * m].verdict \in Verdicts
        BY <1>8, <2>2, <2>3, <2>4
    <2>7. n + 1 \in 0..CaseCount
        BY <1>1, <1>2, <2>1
    <2> QED BY <1>3, <1>4, <2>2, <2>3, <2>5, <2>6, <2>7 DEF Script, k
<1>12. CASE Closes(j, e)
    <2>1. Len(j) = 3 * n /\ n = CaseCount /\ e = Closed
        BY <1>6, <1>12 DEF Closes, n
    <2>2. e.type = "closed"
        BY <2>1 DEF Closed, Event
    <2>3. CurrentIndex(k) = n /\ Len(k) = 3 * n + 1 /\ k[Len(k)] = e
        BY <1>2, <1>3, <1>5, <2>1, <2>2
    <2> QED BY <1>1, <1>3, <1>5, <1>8, <2>1, <2>2, <2>3 DEF Script, k
<1> QED BY <1>9, <1>10, <1>11, <1>12 DEF Follows
-----------------------------------------------------------------------------
\* Before the session is created there is no file, and the invariant holds.
THEOREM Initial == Init => IInv
<1> SUFFICES ASSUME Init PROVE IInv
    OBVIOUS
<1>1. <<>> \in Seq(Events) /\ LastType(<<>>) = "none"
    BY EmptySeq DEF LastType
<1>2. TypeOK
    <2>1. Idle \in [at : {"idle", "append", "receipt", "seal"}, actor : Actors, event : Events]
        BY DEF Idle, Actors, TornRecord, Event, Events
    <2> QED BY <1>1, <2>1 DEF Init, TypeOK
<1>3. \A a \in Actors : journal[a] = <<>> /\ Told(a) = <<>> /\ receipts[a] = <<>>
    BY <1>1 DEF Init, Told
<1>4. Telling
    BY <1>1, <1>3, ScriptOfNothing DEF Telling
<1>5. AdjudicatorWaits /\ Receipted
    BY <1>3 DEF AdjudicatorWaits, Receipted, Actors
<1>6. OneWorker /\ \A w \in Workers : Working(w)
    BY DEF Init, OneWorker, Working, Idle
<1>7. Unbroken
    BY <1>1, <1>3 DEF Init, Unbroken, IsClosed, Actors
<1>8. Sealed
    BY DEF Init, Sealed, Finalized
<1> QED BY <1>2, <1>4, <1>5, <1>6, <1>7, <1>8 DEF IInv
-----------------------------------------------------------------------------
(***************************************************************************)
(* What the files tell a worker.                                           *)
(***************************************************************************)
LEMMA ToldIs ==
    ASSUME TypeOK, NEW a \in Actors
    PROVE  /\ journal[a] \in Seq(Events) /\ receipts[a] \in Seq(Events)
           /\ LastType(journal[a]) # "torn" => Told(a) = journal[a]
           /\ LastType(journal[a]) = "torn" => journal[a] # <<>> /\ Told(a) = Before(journal[a])
           /\ IsClosed(journal[a]) => Told(a) = journal[a] /\ journal[a] # <<>>
BY DEF TypeOK, Told, LastType, IsClosed

LEMMA VerifiedIsClean ==
    ASSUME TypeOK, Verified, NEW a \in Actors
    PROVE  /\ LastType(journal[a]) # "torn" /\ Told(a) = journal[a]
           /\ receipts[a] = journal[a] /\ ChainFrom(a, journal[a])
<1>1. Replays(a) /\ receipts[a] = journal[a] /\ journal[a] \in Seq(Events)
    BY ToldIs DEF Verified, VerifyEventReceipts
<1>2. LastType(journal[a]) # "torn"
    <2>1. CASE journal[a] = <<>>
        BY <2>1 DEF LastType
    <2>2. CASE journal[a] # <<>>
        <3>1. Len(journal[a]) \in DOMAIN journal[a]
            BY <1>1, <2>2, EmptySeq, LenProperties
        <3>2. journal[a][Len(journal[a])].type # "torn"
            BY <1>1, <3>1, FollowsTypes DEF Replays
        <3> QED BY <2>2, <3>2 DEF LastType
    <2> QED BY <2>1, <2>2
<1> QED BY <1>1, <1>2, ToldIs DEF Replays, ChainFrom

LEMMA AllReceipted ==
    ASSUME TypeOK, \A a \in Actors : receipts[a] = journal[a]
    PROVE  receipts = journal
BY DEF TypeOK

\* The adjudicator moves only once the reviewers are locked.
LEMMA AdjudicatorFollows ==
    ASSUME TypeOK, AdjudicatorWaits, NEW e, Follows(Adjudicator, journal[Adjudicator], e)
    PROVE  ReviewersLocked
<1>1. CASE journal[Adjudicator] # <<>>
    BY <1>1 DEF AdjudicatorWaits
<1>2. CASE journal[Adjudicator] = <<>>
    <2>1. CurrentIndex(<<>>) = 0
        BY ScriptOfNothing DEF Actors
    <2>2. LastType(<<>>) = "none"
        BY DEF LastType
    <2> QED BY <1>2, <2>1, <2>2, Counted
            DEF Follows, Presents, Acknowledges, Decides, Closes
<1> QED BY <1>1, <1>2

\* What was accepted stays acceptable: the rulings an adjudicator is shown
\* are those of journals that are closed.
LEMMA StillFollows ==
    ASSUME NEW b \in Actors, NEW j, NEW e, Follows(b, j, e),
           b = Adjudicator => ReviewersLocked,
           ReviewersLocked => \A r \in Reviewers : journal'[r] = journal[r]
    PROVE  Follows(b, j, e)'
<1>1. CASE b # Adjudicator
    BY <1>1 DEF Follows, Presents, Acknowledges, Decides, Closes, Material
<1>2. CASE b = Adjudicator
    <2>1. \A r \in Reviewers : journal'[r] = journal[r]
        BY <1>2
    <2>2. ReviewersLocked'
        BY <1>2, <2>1 DEF ReviewersLocked
    <2>3. \A c : Material(b, c)' = Material(b, c)
        BY <2>1 DEF Material
    <2> QED BY <2>2, <2>3 DEF Follows, Presents, Acknowledges, Decides, Closes
<1> QED BY <1>1, <1>2

LEMMA FollowsSame ==
    ASSUME UNCHANGED journal, NEW b, NEW j, NEW e, Follows(b, j, e)
    PROVE  Follows(b, j, e)'
BY DEF Follows, Presents, Acknowledges, Decides, Closes, Material, ReviewersLocked

LEMMA VerifiedStays ==
    ASSUME Verified, UNCHANGED <<genesis, journal, receipts, locks>>
    PROVE  Verified'
<1>1. ReviewersLocked' = ReviewersLocked
    BY DEF ReviewersLocked
<1>2. ASSUME NEW b \in Actors PROVE Replays(b)' /\ VerifyEventReceipts(b)'
    <2>1. Replays(b) /\ VerifyEventReceipts(b)
        BY DEF Verified
    <2>2. \A i : SubSeq(journal[b], 1, i - 1)' = SubSeq(journal[b], 1, i - 1)
        OBVIOUS
    <2>3. Replays(b)'
        BY <2>1, <2>2, FollowsSame DEF Replays
    <2> QED BY <2>1, <2>3 DEF VerifyEventReceipts
<1> QED BY <1>1, <1>2 DEF Verified, VerifyReviewerLock

LEMMA StillTelling ==
    ASSUME IInv, NEW b \in Actors, journal'[b] = journal[b],
           ReviewersLocked => \A r \in Reviewers : journal'[r] = journal[r]
    PROVE  /\ ChainFrom(b, Told(b))' /\ Script(b, Told(b))'
           /\ (LastType(journal[b]) = "torn" => ~IsClosed(Told(b)))'
<1>1. Told(b)' = Told(b) /\ ChainFrom(b, Told(b)) /\ Script(b, Told(b))
      /\ (LastType(journal[b]) = "torn" => ~IsClosed(Told(b)))
    BY DEF IInv, Telling, Told
<1>2. Script(b, Told(b))'
    BY <1>1 DEF Script
<1>3. ChainFrom(b, Told(b))'
    <2> DEFINE j == Told(b)
    <2>1. ASSUME NEW i \in DOMAIN j PROVE Follows(b, SubSeq(j, 1, i - 1), j[i])'
        <3>1. Follows(b, SubSeq(j, 1, i - 1), j[i])
            BY <1>1 DEF ChainFrom
        <3>2. b = Adjudicator => ReviewersLocked
            <4>1. j # <<>>
                OBVIOUS
            <4>2. journal[b] # <<>>
                BY <4>1 DEF Told, LastType
            <4> QED BY <4>2 DEF IInv, AdjudicatorWaits
        <3> HIDE DEF j
        <3>3. j' = j
            BY <1>1 DEF j
        <3> QED BY <3>1, <3>2, <3>3, StillFollows
    <2> QED BY <1>1, <2>1 DEF ChainFrom
<1> QED BY <1>1, <1>2, <1>3
-----------------------------------------------------------------------------
(***************************************************************************)
(* Beginning an operation.                                                 *)
(***************************************************************************)
Doings == [at : {"idle", "append", "receipt", "seal"}, actor : Actors, event : Events]

LEMMA Beginning ==
    ASSUME IInv, NEW w \in Workers, NEW a \in Actors, NEW e \in Events, Begin(w, a, e),
           Follows(a, journal[a], e)
    PROVE  IInv'
<1> DEFINE d == [at |-> "append", actor |-> a, event |-> e]
<1>1. /\ GuardFree /\ Verified /\ TypeOK /\ doing' = [doing EXCEPT ![w] = d]
      /\ UNCHANGED <<genesis, journal, receipts, locks, finalization, interrupted>>
    BY DEF Begin, IInv
<1>2. d \in Doings /\ d.at = "append" /\ d.actor = a /\ d.event = e
    BY DEF Doings
<1> HIDE DEF d
<1>3. /\ doing'[w] = d /\ \A v \in Workers \ {w} : doing'[v] = doing[v]
      /\ doing' \in [Workers -> Doings]
    BY <1>1, <1>2 DEF TypeOK, Doings
<1>4. \A v \in Workers : doing[v].at = "idle"
    BY <1>1 DEF GuardFree
<1>5. TypeOK'
    BY <1>1, <1>3 DEF TypeOK, Doings
<1>6. Telling'
    BY <1>1, StillTelling DEF Telling
<1>7. AdjudicatorWaits' /\ Receipted' /\ Sealed'
    BY <1>1 DEF IInv, AdjudicatorWaits, ReviewersLocked, Receipted, Sealed, Finalized
<1>8. OneWorker'
    BY <1>3, <1>4 DEF OneWorker
<1>9. Verified'
    BY <1>1, VerifiedStays
<1>10. Follows(a, journal[a], e)'
    BY <1>1 DEF Follows, Presents, Acknowledges, Decides, Closes, Material, ReviewersLocked
<1>11. (\A v \in Workers : Working(v))'
    <2>1. Working(w)'
        BY <1>2, <1>3, <1>9, <1>10 DEF Working
    <2>2. ASSUME NEW v \in Workers, v # w PROVE Working(v)'
        BY <1>3, <1>4, <2>2 DEF Working
    <2> QED BY <2>1, <2>2
<1>12. Unbroken'
    <2>1. /\ \A b : ~UnderWay(b)
          /\ \A v \in Workers : doing[v].at # "receipt"
        BY <1>4 DEF UnderWay
    <2> QED BY <1>1, <2>1 DEF IInv, Unbroken, Finalized
<1> QED BY <1>5, <1>6, <1>7, <1>8, <1>11, <1>12 DEF IInv

LEMMA EventsOf ==
    /\ Closed \in Events
    /\ \A c \in Cases : Acknowledged(c) \in Events
    /\ \A c \in Cases, v \in Verdicts : Decided(c, v) \in Events
    /\ \A c \in Cases : \A shown \in SUBSET (Reviewers \X Verdicts) : Opened(c, shown) \in Events
BY DEF Closed, Acknowledged, Decided, Opened, Event, Events, Types

\* Before an operation every journal is whole, and is what it tells.
LEMMA WhenVerified ==
    ASSUME IInv, Verified, NEW a \in Actors
    PROVE  Script(a, journal[a])
BY VerifiedIsClean DEF IInv, Telling

LEMMA Presenting ==
    ASSUME IInv, NEW w \in Workers, NEW a \in Actors, PresentNext(w, a) PROVE IInv'
<1> DEFINE c == NextCase(a, journal[a])
<1>1. Begin(w, a, Opened(c, Material(a, c))) /\ Verified
    BY DEF PresentNext, Begin
<1>2. CurrentIndex(journal[a]) \in 0..CaseCount /\ CurrentIndex(journal[a]) # CaseCount
    BY <1>1, WhenVerified, ScriptTells DEF PresentNext
<1>3. CurrentIndex(journal[a]) + 1 \in 1..CaseCount /\ CurrentIndex(journal[a]) < CaseCount
    BY <1>2, Counted
<1>4. c \in Cases
    BY <1>3, Ordered DEF NextCase
<1>5. Opened(c, Material(a, c)) \in Events
    BY <1>4, EventsOf DEF Material
<1>6. Follows(a, journal[a], Opened(c, Material(a, c)))
    BY <1>3 DEF PresentNext, RequireReviewerLocks, Follows, Presents
<1> QED BY <1>1, <1>5, <1>6, Beginning

LEMMA Acknowledging ==
    ASSUME IInv, NEW w \in Workers, NEW a \in Actors, NEW c \in Cases,
           AcknowledgeDisplay(w, a, c)
    PROVE  IInv'
<1>1. Begin(w, a, Acknowledged(c)) /\ Acknowledged(c) \in Events
    BY EventsOf DEF AcknowledgeDisplay
<1>2. Follows(a, journal[a], Acknowledged(c))
    BY DEF AcknowledgeDisplay, RequireOpen, HasOpen, Follows, Acknowledges
<1> QED BY <1>1, <1>2, Beginning

LEMMA Deciding ==
    ASSUME IInv, NEW w \in Workers, NEW a \in Actors, NEW c \in Cases, NEW v \in Verdicts,
           RecordDecision(w, a, c, v)
    PROVE  IInv'
<1>1. Begin(w, a, Decided(c, v)) /\ Decided(c, v) \in Events
    BY EventsOf DEF RecordDecision
<1>2. Follows(a, journal[a], Decided(c, v))
    BY DEF RecordDecision, RequireOpen, Follows, Decides
<1> QED BY <1>1, <1>2, Beginning

LEMMA Closing ==
    ASSUME IInv, NEW w \in Workers, NEW a \in Actors, ~IsClosed(journal[a]), DecidedAll(a),
           Begin(w, a, Closed)
    PROVE  IInv'
BY EventsOf, Beginning DEF DecidedAll, Follows, Closes

LEMMA Operating == ASSUME IInv, NEW w \in Workers, Operation(w) PROVE IInv'
BY Presenting, Acknowledging, Deciding, Closing
   DEF Operation, LockReviewer, FinalizeAdjudication, Actors
-----------------------------------------------------------------------------
(***************************************************************************)
(* The writes.  Whoever writes is alone in the guard.                      *)
(***************************************************************************)
LEMMA Alone ==
    ASSUME OneWorker, NEW w \in Workers, doing[w].at # "idle"
    PROVE  \A v \in Workers \ {w} : doing[v].at = "idle"
BY DEF OneWorker

\* Going on to the next write.
LEMMA GoesOn ==
    ASSUME IInv, NEW w \in Workers, doing[w].at # "idle",
           NEW to \in {"receipt", "seal"}, GoOn(w, to)
    PROVE  /\ doing' \in [Workers -> Doings] /\ doing'[w].at = to
           /\ doing'[w].actor = doing[w].actor /\ doing'[w].event = doing[w].event
           /\ \A v \in Workers \ {w} : doing'[v].at = "idle" /\ Working(v)'
           /\ OneWorker'
           /\ \A b : UnderWay(b)' <=> b = doing[w].actor
<1>1. /\ \A v \in Workers \ {w} : doing[v].at = "idle"
      /\ doing \in [Workers -> Doings]
    BY Alone DEF IInv, TypeOK, Doings
<1>2. doing' = [doing EXCEPT ![w] = [doing[w] EXCEPT !.at = to]]
    BY DEF GoOn
<1> DEFINE d == [doing[w] EXCEPT !.at = to]
<1>3. d \in Doings /\ d.at = to /\ d.actor = doing[w].actor /\ d.event = doing[w].event
    BY <1>1 DEF Doings
<1> HIDE DEF d
<1>4. /\ doing' \in [Workers -> Doings] /\ doing'[w] = d
      /\ \A v \in Workers \ {w} : doing'[v] = doing[v]
    BY <1>1, <1>2, <1>3 DEF d
<1>5. \A v \in Workers \ {w} : doing'[v].at = "idle" /\ Working(v)'
    BY <1>1, <1>4 DEF Working
<1>6. OneWorker'
    BY <1>5 DEF OneWorker
<1>7. \A b : UnderWay(b)' <=> b = doing[w].actor
    BY <1>3, <1>4, <1>5 DEF UnderWay
<1> QED BY <1>3, <1>4, <1>5, <1>6, <1>7

LEMMA Ends ==
    ASSUME IInv, NEW w \in Workers, doing[w].at # "idle", EndOf(w)
    PROVE  /\ doing' \in [Workers -> Doings]
           /\ \A v \in Workers : doing'[v].at = "idle" /\ Working(v)'
           /\ OneWorker' /\ \A b : ~UnderWay(b)'
<1>1. /\ \A v \in Workers \ {w} : doing[v].at = "idle"
      /\ doing \in [Workers -> Doings]
    BY Alone DEF IInv, TypeOK, Doings
<1>2. Idle \in Doings /\ Idle.at = "idle"
    BY DEF Idle, Doings, Actors, TornRecord, Event, Events
<1>3. /\ doing' \in [Workers -> Doings] /\ doing'[w] = Idle
      /\ \A v \in Workers \ {w} : doing'[v] = doing[v]
    BY <1>1, <1>2 DEF EndOf
<1>4. \A v \in Workers : doing'[v].at = "idle"
    BY <1>1, <1>2, <1>3
<1>5. \A v \in Workers : Working(v)'
    BY <1>4 DEF Working
<1>6. OneWorker' /\ \A b : ~UnderWay(b)'
    BY <1>4 DEF OneWorker, UnderWay
<1> QED BY <1>3, <1>4, <1>5, <1>6

\* An accepted event is appended to a journal nobody relies on being closed.
LEMMA BeforeAppend ==
    ASSUME IInv, NEW w \in Workers, doing[w].at = "append"
    PROVE  LET a == doing[w].actor IN
           /\ a \in Actors /\ doing[w].event \in Events /\ Verified
           /\ Follows(a, journal[a], doing[w].event)
           /\ a = Adjudicator => ReviewersLocked
           /\ ReviewersLocked => a \notin Reviewers
           /\ journal[Adjudicator] # <<>> => a = Adjudicator
           /\ ~IsClosed(journal[a]) /\ ~Finalized
           /\ \A b : ~UnderWay(b)
<1> DEFINE a == doing[w].actor
           e == doing[w].event
<1>1. /\ TypeOK /\ AdjudicatorWaits /\ OneWorker /\ Sealed
      /\ a \in Actors /\ e \in Events
      /\ Working(w)
    BY DEF IInv, TypeOK
<1>2. Verified /\ Follows(a, journal[a], e)
    BY <1>1 DEF Working
<1> HIDE DEF a, e
<1>3. ~IsClosed(journal[a])
    BY <1>1, <1>2, FollowsTypes
<1>4. a = Adjudicator => ReviewersLocked
    BY <1>1, <1>2, AdjudicatorFollows
<1>5. ReviewersLocked => a \notin Reviewers
    BY <1>3 DEF ReviewersLocked
<1>6. journal[Adjudicator] # <<>> => a = Adjudicator
    BY <1>1, <1>5 DEF AdjudicatorWaits, Actors
<1>7. ~Finalized
    <2>1. IsClosed(journal[Adjudicator]) => journal[Adjudicator] # <<>>
        BY DEF IsClosed, LastType
    <2> QED BY <1>1, <1>3, <1>6, <2>1 DEF Sealed
<1>8. \A b : ~UnderWay(b)
    <2>1. \A v \in Workers \ {w} : doing[v].at = "idle"
        BY <1>1, Alone
    <2> QED BY <2>1 DEF UnderWay
<1> QED BY <1>1, <1>2, <1>3, <1>4, <1>5, <1>6, <1>7, <1>8 DEF a, e

\* A journal grows by one record, accepted or torn.
LEMMA JournalGrows ==
    ASSUME IInv, NEW w \in Workers, doing[w].at = "append", NEW e \in Events,
           journal' = [journal EXCEPT ![doing[w].actor] = Append(@, e)],
           UNCHANGED <<receipts, locks, finalization>>
    PROVE  LET a == doing[w].actor IN
           /\ journal' \in [Actors -> Seq(Events)] /\ journal'[a] = Append(journal[a], e)
           /\ journal'[a] # <<>> /\ LastType(journal'[a]) = e.type
           /\ Before(journal'[a]) = journal[a]
           /\ journal'[a][Len(journal'[a])] = e
           /\ \A b \in Actors \ {a} : journal'[b] = journal[b]
           /\ ReviewersLocked => \A r \in Reviewers : journal'[r] = journal[r]
           /\ AdjudicatorWaits' /\ Receipted' /\ Sealed'
<1> DEFINE a == doing[w].actor
           k == Append(journal[a], e)
<1>1. /\ a \in Actors /\ Verified /\ TypeOK
      /\ a = Adjudicator => ReviewersLocked
      /\ ReviewersLocked => a \notin Reviewers
      /\ journal[Adjudicator] # <<>> => a = Adjudicator
      /\ ~Finalized
    BY BeforeAppend DEF IInv
<1>2. /\ journal[a] \in Seq(Events) /\ journal \in [Actors -> Seq(Events)]
      /\ journal' = [journal EXCEPT ![a] = k]
    BY <1>1 DEF TypeOK
<1>3. /\ k \in Seq(Events) /\ k # <<>> /\ Len(k) = Len(journal[a]) + 1
      /\ k[Len(journal[a]) + 1] = e /\ Before(k) = journal[a]
    BY <1>2, Appended
<1> HIDE DEF a, k
<1>4. /\ journal' \in [Actors -> Seq(Events)] /\ journal'[a] = k
      /\ \A b \in Actors \ {a} : journal'[b] = journal[b]
    BY <1>1, <1>2, <1>3
<1>5. k[Len(k)] = e
    BY <1>3
<1>6. LastType(k) = e.type
    BY <1>3, <1>5 DEF LastType
<1>7. ReviewersLocked => \A r \in Reviewers : journal'[r] = journal[r]
    BY <1>1, <1>4 DEF Actors
<1>8. AdjudicatorWaits'
    <2>1. CASE a = Adjudicator
        BY <1>1, <1>7, <2>1 DEF AdjudicatorWaits, ReviewersLocked
    <2>2. CASE a # Adjudicator
        BY <1>1, <1>4, <2>2 DEF AdjudicatorWaits, Actors
    <2> QED BY <2>1, <2>2
<1>9. Receipted'
    <2>1. \A b \in Actors : receipts[b] = journal[b]
        BY <1>1, VerifiedIsClean
    <2>2. \A b \in Actors \ {a} : receipts'[b] = journal'[b]
        BY <1>4, <2>1
    <2>3. receipts'[a] = Before(journal'[a]) /\ journal'[a] # <<>>
        BY <1>1, <1>3, <1>4, <2>1
    <2> QED BY <2>2, <2>3 DEF Receipted
<1>10. Sealed'
    BY <1>1 DEF Sealed, Finalized
<1> QED BY <1>3, <1>4, <1>5, <1>6, <1>7, <1>8, <1>9, <1>10 DEF a, k

\* An accepted event keeps telling what the script says.
LEMMA TellingGrows ==
    ASSUME IInv, Verified, NEW a \in Actors, NEW e \in Events, e.type # "torn",
           Follows(a, journal[a], e),
           a = Adjudicator => ReviewersLocked,
           ReviewersLocked => \A r \in Reviewers : journal'[r] = journal[r],
           journal'[a] = Append(journal[a], e)
    PROVE  /\ ChainFrom(a, Told(a))' /\ Script(a, Told(a))'
           /\ (LastType(journal[a]) = "torn" => ~IsClosed(Told(a)))'
<1>1. PICK k : k = Append(journal[a], e)
    OBVIOUS
<1>2. /\ journal[a] \in Seq(Events) /\ ChainFrom(a, journal[a]) /\ Script(a, journal[a])
    BY WhenVerified, VerifiedIsClean, ToldIs DEF IInv
<1>3. Script(a, k) /\ ChainFrom(a, k)
    BY <1>1, <1>2, ScriptGoesOn, ChainGrows
<1>4. LastType(k) # "torn"
    <2>1. k # <<>> /\ k[Len(k)] = e
        BY <1>1, <1>2, Appended
    <2> QED BY <2>1 DEF LastType
<1>5. (Told(a))' = k /\ (LastType(journal[a]))' # "torn"
    BY <1>1, <1>4 DEF Told
<1>6. Script(a, k)'
    BY <1>3 DEF Script
<1>7. ChainFrom(a, k)'
    <2>1. ASSUME NEW i \in DOMAIN k PROVE Follows(a, SubSeq(k, 1, i - 1), k[i])'
        BY <1>3, StillFollows DEF ChainFrom
    <2> QED BY <2>1 DEF ChainFrom
<1> QED BY <1>5, <1>6, <1>7

LEMMA Appending == ASSUME IInv, NEW w \in Workers, AppendEvent(w) PROVE IInv'
<1> DEFINE a == doing[w].actor
           e == doing[w].event
<1>1. /\ doing[w].at = "append" /\ GoOn(w, "receipt")
      /\ journal' = [journal EXCEPT ![a] = Append(@, e)]
      /\ UNCHANGED <<genesis, receipts, locks, finalization, interrupted>>
    BY DEF AppendEvent
<1>2. /\ a \in Actors /\ e \in Events /\ Verified /\ Follows(a, journal[a], e)
      /\ a = Adjudicator => ReviewersLocked
      /\ ~IsClosed(journal[a]) /\ ~Finalized /\ \A b : ~UnderWay(b)
    BY <1>1, BeforeAppend
<1>3. e.type # "torn" /\ (e.type = "closed" => e = Closed)
    BY <1>2, FollowsTypes
<1>4. /\ doing' \in [Workers -> Doings] /\ doing'[w].at = "receipt"
      /\ doing'[w].actor = a /\ doing'[w].event = e
      /\ \A v \in Workers \ {w} : doing'[v].at = "idle" /\ Working(v)'
      /\ OneWorker'
      /\ \A b : UnderWay(b)' <=> b = a
    BY <1>1, GoesOn
<1>5. /\ journal' \in [Actors -> Seq(Events)] /\ journal'[a] = Append(journal[a], e)
      /\ journal'[a] # <<>> /\ LastType(journal'[a]) = e.type
      /\ Before(journal'[a]) = journal[a]
      /\ journal'[a][Len(journal'[a])] = e
      /\ \A b \in Actors \ {a} : journal'[b] = journal[b]
      /\ ReviewersLocked => \A r \in Reviewers : journal'[r] = journal[r]
      /\ AdjudicatorWaits' /\ Receipted' /\ Sealed'
    BY <1>1, <1>2, JournalGrows
<1>7. /\ TypeOK /\ Telling /\ Unbroken
      /\ \A b \in Actors : /\ journal[b] \in Seq(Events) /\ Told(b) = journal[b]
                            /\ receipts[b] = journal[b] /\ LastType(journal[b]) # "torn"
    BY <1>2, VerifiedIsClean, ToldIs DEF IInv
<1>8. TypeOK'
    BY <1>1, <1>4, <1>5, <1>7 DEF TypeOK, Doings
<1> HIDE DEF a, e
<1>9. Telling'
    <2> SUFFICES ASSUME NEW b \in Actors
                 PROVE  /\ ChainFrom(b, Told(b))' /\ Script(b, Told(b))'
                        /\ (LastType(journal[b]) = "torn" => ~IsClosed(Told(b)))'
        BY DEF Telling
    <2>1. CASE b = a
        BY <1>2, <1>3, <1>5, <2>1, TellingGrows
    <2>2. CASE b # a
        BY <1>5, <2>2, StillTelling
    <2> QED BY <2>1, <2>2
<1>10. Working(w)'
    BY <1>1, <1>3, <1>4, <1>5, <1>7 DEF Working
<1>11. Unbroken'
    <2>1. ASSUME NEW b \in Actors PROVE LastType(journal'[b]) # "torn"
        BY <1>3, <1>5, <1>7
    <2>2. ASSUME NEW r \in Actors, IsClosed(journal'[r]), ~UnderWay(r)'
          PROVE  r # a /\ IsClosed(journal[r]) /\ ~UnderWay(r)
        BY <1>2, <1>4, <1>5, <2>2
    <2> QED BY <1>1, <1>2, <1>4, <1>7, <2>1, <2>2 DEF Unbroken, Finalized, Actors
<1> QED BY <1>4, <1>5, <1>8, <1>9, <1>10, <1>11 DEF IInv

\* A record cut short, where an event was to go.
LEMMA Tearing ==
    ASSUME IInv, NEW w \in Workers, doing[w].at = "append", EndOf(w),
           journal' = [journal EXCEPT ![doing[w].actor] = Append(@, TornRecord)],
           interrupted' = TRUE, UNCHANGED <<genesis, receipts, locks, finalization>>
    PROVE  IInv'
<1> DEFINE a == doing[w].actor
<1>1. /\ a \in Actors /\ Verified /\ TypeOK /\ ~IsClosed(journal[a])
    BY BeforeAppend DEF IInv
<1>2. TornRecord \in Events /\ TornRecord.type = "torn"
    BY DEF TornRecord, Event, Events
<1>3. /\ doing' \in [Workers -> Doings] /\ OneWorker'
      /\ \A v \in Workers : doing'[v].at = "idle" /\ Working(v)'
    BY Ends
<1>4. /\ journal' \in [Actors -> Seq(Events)]
      /\ journal'[a] # <<>> /\ LastType(journal'[a]) = "torn"
      /\ Before(journal'[a]) = journal[a]
      /\ \A b \in Actors \ {a} : journal'[b] = journal[b]
      /\ ReviewersLocked => \A r \in Reviewers : journal'[r] = journal[r]
      /\ AdjudicatorWaits' /\ Receipted' /\ Sealed'
    BY <1>2, JournalGrows
<1>5. TypeOK'
    BY <1>1, <1>3, <1>4 DEF TypeOK, Doings
<1> HIDE DEF a
<1>6. Telling'
    <2> SUFFICES ASSUME NEW b \in Actors
                 PROVE  /\ ChainFrom(b, Told(b))' /\ Script(b, Told(b))'
                        /\ (LastType(journal[b]) = "torn" => ~IsClosed(Told(b)))'
        BY DEF Telling
    <2>1. CASE b = a
        <3>1. /\ (Told(b))' = journal[b] /\ ~IsClosed(journal[b])
              /\ Script(b, journal[b]) /\ ChainFrom(b, journal[b])
              /\ b = Adjudicator => ReviewersLocked
            BY <1>1, <1>4, <2>1, WhenVerified, VerifiedIsClean, BeforeAppend DEF Told, a
        <3>2. PICK k : k = journal[b]
            OBVIOUS
        <3>3. Script(b, k)'
            BY <3>1, <3>2 DEF Script
        <3>4. ASSUME NEW i \in DOMAIN k PROVE Follows(b, SubSeq(k, 1, i - 1), k[i])'
            BY <1>4, <3>1, <3>2, StillFollows DEF ChainFrom
        <3>5. ChainFrom(b, k)'
            BY <3>4 DEF ChainFrom
        <3>6. ~IsClosed(k)'
            BY <3>1, <3>2 DEF IsClosed
        <3> QED BY <3>1, <3>2, <3>3, <3>5, <3>6
    <2>2. CASE b # a
        BY <1>4, <2>2, StillTelling
    <2> QED BY <2>1, <2>2
<1>7. Unbroken'
    BY DEF Unbroken
<1> QED BY <1>3, <1>4, <1>5, <1>6, <1>7 DEF IInv

LEMMA JournalsStay ==
    ASSUME IInv, UNCHANGED journal
    PROVE  Telling' /\ AdjudicatorWaits'
BY StillTelling DEF IInv, Telling, AdjudicatorWaits, ReviewersLocked

\* One file beside the journals is written, and the worker is at the guard's
\* last step or leaves it.
LEMMA WritingReceipt == ASSUME IInv, NEW w \in Workers, WriteEventReceipt(w) PROVE IInv'
<1> DEFINE a == doing[w].actor
           e == doing[w].event
<1>1. /\ doing[w].at = "receipt"
      /\ receipts' = [receipts EXCEPT ![a] = Append(@, e)]
      /\ UNCHANGED <<genesis, journal, locks, finalization, interrupted>>
      /\ TypeOK /\ Working(w) /\ Unbroken /\ Sealed
    BY DEF WriteEventReceipt, IInv
<1>2. /\ a \in Actors /\ e \in Events /\ receipts \in [Actors -> Seq(Events)]
      /\ journal[a] \in Seq(Events)
      /\ journal[a] # <<>> /\ journal[a][Len(journal[a])] = e
      /\ e.type # "torn" /\ (e.type = "closed" => e = Closed)
      /\ receipts[a] = Before(journal[a])
      /\ \A b \in Actors \ {a} : receipts[b] = journal[b]
    BY <1>1 DEF TypeOK, Working
<1>3. receipts'[a] = journal[a] /\ \A b \in Actors \ {a} : receipts'[b] = journal[b]
    <2>1. Append(Before(journal[a]), e) = journal[a]
        BY <1>2, BeforeLast
    <2> QED BY <1>1, <1>2, <2>1
<1>4. receipts' = journal'
    <2>1. \A b \in Actors : receipts'[b] = journal[b]
        BY <1>3
    <2>2. receipts' = [b \in Actors |-> receipts'[b]] /\ journal = [b \in Actors |-> journal[b]]
        BY <1>1, <1>2 DEF TypeOK
    <2> QED BY <1>1, <2>1, <2>2
<1>5. Telling' /\ AdjudicatorWaits' /\ Receipted' /\ Sealed'
    BY <1>1, <1>4, JournalsStay DEF Receipted, Sealed, Finalized
<1>6. UnderWay(a) /\ LastType(journal[a]) = e.type
    BY <1>1, <1>2 DEF UnderWay, LastType
<1> HIDE DEF a, e
<1>7. CASE e = Closed
    <2>1. GoOn(w, "seal")
        BY <1>7 DEF WriteEventReceipt, e
    <2>2. /\ doing' \in [Workers -> Doings] /\ doing'[w].at = "seal"
          /\ doing'[w].actor = a /\ doing'[w].event = e
          /\ \A v \in Workers \ {w} : doing'[v].at = "idle" /\ Working(v)'
          /\ OneWorker' /\ \A b : UnderWay(b)' <=> b = a
        BY <1>1, <2>1, GoesOn DEF a, e
    <2>3. TypeOK'
        BY <1>1, <1>4, <2>2 DEF TypeOK, Doings
    <2>4. Working(w)'
        BY <1>1, <1>4, <1>6, <1>7, <2>2 DEF Working, IsClosed, Closed, Event
    <2>5. \A b : UnderWay(b) => UnderWay(b)'
        <3>1. \A v \in Workers \ {w} : doing[v].at = "idle"
            BY <1>1, Alone DEF IInv
        <3> QED BY <2>2, <3>1 DEF UnderWay, a
    <2>6. Unbroken'
        BY <1>1, <1>4, <2>5 DEF Unbroken, Finalized
    <2> QED BY <1>5, <2>2, <2>3, <2>4, <2>6 DEF IInv
<1>8. CASE e # Closed
    <2>1. EndOf(w)
        BY <1>8 DEF WriteEventReceipt, e
    <2>2. /\ doing' \in [Workers -> Doings] /\ OneWorker' /\ \A b : ~UnderWay(b)'
          /\ \A v \in Workers : doing'[v].at = "idle" /\ Working(v)'
        BY <1>1, <2>1, Ends
    <2>3. TypeOK'
        BY <1>1, <1>4, <2>2 DEF TypeOK, Doings
    <2>4. ~IsClosed(journal[a])
        BY <1>2, <1>6, <1>8 DEF IsClosed
    <2>5. \A b \in Actors \ {a} : ~UnderWay(b)
        <3>1. \A v \in Workers \ {w} : doing[v].at = "idle"
            BY <1>1, Alone DEF IInv
        <3> QED BY <3>1 DEF UnderWay, a
    <2>6. Unbroken'
        BY <1>1, <1>4, <2>4, <2>5 DEF Unbroken, Finalized, Actors
    <2> QED BY <1>5, <2>2, <2>3, <2>6 DEF IInv
<1> QED BY <1>7, <1>8

LEMMA TearingReceipt ==
    ASSUME IInv, NEW w \in Workers, doing[w].at = "receipt", EndOf(w),
           receipts' = [receipts EXCEPT ![doing[w].actor] = Append(@, TornRecord)],
           interrupted' = TRUE, UNCHANGED <<genesis, journal, locks, finalization>>
    PROVE  IInv'
<1> DEFINE a == doing[w].actor
<1>1. TypeOK /\ Working(w) /\ Sealed
    BY DEF IInv
<1>2. /\ a \in Actors /\ receipts \in [Actors -> Seq(Events)] /\ journal[a] # <<>>
      /\ receipts[a] = Before(journal[a])
      /\ \A b \in Actors \ {a} : receipts[b] = journal[b]
    BY <1>1 DEF TypeOK, Working
<1>3. TornRecord \in Events
    BY DEF TornRecord, Event, Events
<1>4. /\ receipts' \in [Actors -> Seq(Events)]
      /\ receipts'[a] = Append(Before(journal[a]), TornRecord)
      /\ \A b \in Actors \ {a} : receipts'[b] = journal[b]
    <2>1. Append(receipts[a], TornRecord) \in Seq(Events)
        BY <1>2, <1>3, Appended
    <2> QED BY <1>2, <2>1
<1>5. /\ doing' \in [Workers -> Doings] /\ OneWorker'
      /\ \A v \in Workers : doing'[v].at = "idle" /\ Working(v)'
    BY Ends
<1>6. TypeOK'
    BY <1>1, <1>4, <1>5 DEF TypeOK, Doings
<1>7. Receipted'
    BY <1>2, <1>4 DEF Receipted
<1> QED BY <1>1, <1>5, <1>6, <1>7, JournalsStay DEF IInv, Unbroken, Sealed, Finalized

\* The process dies, or its last write is cut short: nobody's journal moves.
LEMMA Interrupting ==
    ASSUME IInv, NEW w \in Workers, doing[w].at # "idle", EndOf(w), TypeOK',
           UNCHANGED <<journal, receipts>>, Sealed', interrupted' = TRUE
    PROVE  IInv'
BY Ends, JournalsStay DEF IInv, Receipted, Unbroken

\* The process dies before it has written anything.
LEMMA GivingUp ==
    ASSUME IInv, NEW w \in Workers, doing[w].at = "append", EndOf(w),
           UNCHANGED <<genesis, journal, receipts, locks, finalization, interrupted>>
    PROVE  IInv'
<1>1. /\ doing' \in [Workers -> Doings] /\ OneWorker'
      /\ \A v \in Workers : doing'[v].at = "idle" /\ Working(v)'
    BY Ends
<1>2. TypeOK'
    BY <1>1 DEF IInv, TypeOK, Doings
<1>3. \A b : ~UnderWay(b)
    BY BeforeAppend
<1>4. receipts = journal
    BY BeforeAppend, VerifiedIsClean, AllReceipted DEF IInv
<1>5. Unbroken'
    BY <1>3, <1>4 DEF IInv, Unbroken, Finalized
<1> QED BY <1>1, <1>2, <1>5, JournalsStay DEF IInv, Receipted, Sealed, Finalized

LEMMA Stopping == ASSUME IInv, NEW w \in Workers, Stop(w) PROVE IInv'
<1>1. /\ doing[w].at # "idle" /\ EndOf(w)
      /\ interrupted' = (interrupted \/ doing[w].at # "append")
      /\ UNCHANGED <<genesis, journal, receipts, locks, finalization>>
    BY DEF Stop
<1>2. interrupted \in BOOLEAN
    BY DEF IInv, TypeOK
<1>3. CASE doing[w].at = "append"
    BY <1>1, <1>2, <1>3, GivingUp
<1>4. CASE doing[w].at # "append"
    <2>1. interrupted' = TRUE
        BY <1>1, <1>2, <1>4
    <2>2. TypeOK' /\ Sealed'
        BY <1>1, <2>1, Ends DEF IInv, TypeOK, Doings, Sealed, Finalized
    <2> QED BY <1>1, <2>1, <2>2, Interrupting
<1> QED BY <1>3, <1>4

LEMMA Cutting == ASSUME IInv, NEW w \in Workers, Tear(w) PROVE IInv'
<1> DEFINE a == doing[w].actor
<1>1. doing[w].at # "idle" /\ EndOf(w) /\ interrupted' = TRUE /\ UNCHANGED genesis
      /\ TypeOK /\ Sealed
    BY DEF Tear, IInv
<1>2. CASE /\ doing[w].at = "append"
           /\ journal' = [journal EXCEPT ![a] = Append(@, TornRecord)]
           /\ UNCHANGED <<receipts, locks, finalization>>
    BY <1>1, <1>2, Tearing
<1>3. CASE /\ doing[w].at = "receipt"
           /\ receipts' = [receipts EXCEPT ![a] = Append(@, TornRecord)]
           /\ UNCHANGED <<journal, locks, finalization>>
    BY <1>1, <1>3, TearingReceipt
<1>4. CASE /\ a \in Reviewers /\ locks' = [locks EXCEPT ![a] = "torn"]
           /\ UNCHANGED <<journal, receipts, finalization>>
    <2>1. TypeOK' /\ Sealed'
        BY <1>1, <1>4, Ends DEF TypeOK, Doings, Sealed, Finalized
    <2> QED BY <1>1, <1>4, <2>1, Interrupting
<1>5. CASE finalization' = Torn /\ UNCHANGED <<journal, receipts, locks>>
    <2>1. TypeOK' /\ Sealed'
        BY <1>1, <1>5, Ends DEF TypeOK, Doings, Sealed, Finalized
    <2> QED BY <1>1, <1>5, <2>1, Interrupting
<1> QED BY <1>2, <1>3, <1>4, <1>5 DEF Tear

LEMMA WritingLock == ASSUME IInv, NEW w \in Workers, WriteLockReceipt(w) PROVE IInv'
<1> DEFINE a == doing[w].actor
<1>1. /\ doing[w].at = "seal" /\ a \in Reviewers /\ EndOf(w)
      /\ locks' = [locks EXCEPT ![a] = "written"]
      /\ UNCHANGED <<genesis, journal, receipts, finalization, interrupted>>
      /\ TypeOK /\ Working(w) /\ Unbroken
    BY DEF WriteLockReceipt, IInv
<1>2. /\ doing' \in [Workers -> Doings] /\ OneWorker' /\ \A b : ~UnderWay(b)'
      /\ \A v \in Workers : doing'[v].at = "idle" /\ Working(v)'
    BY <1>1, Ends
<1>3. TypeOK'
    BY <1>1, <1>2 DEF TypeOK, Doings
<1>4. receipts = journal
    BY <1>1 DEF Working
<1>5. \A b \in Actors \ {a} : ~UnderWay(b)
    <2>1. \A v \in Workers \ {w} : doing[v].at = "idle"
        BY <1>1, Alone DEF IInv
    <2> QED BY <2>1 DEF UnderWay
<1>6. a # Adjudicator /\ locks'[a] = "written" /\ \A r \in Reviewers \ {a} : locks'[r] = locks[r]
    BY <1>1, SessionAssumption DEF TypeOK
<1> HIDE DEF a
<1>7. Unbroken'
    BY <1>1, <1>4, <1>5, <1>6 DEF Unbroken, Finalized, Actors
<1> QED BY <1>1, <1>2, <1>3, <1>7, JournalsStay DEF IInv, Receipted, Sealed, Finalized

LEMMA WritingFinalization == ASSUME IInv, NEW w \in Workers, WriteFinalization(w) PROVE IInv'
<1>1. /\ doing[w].at = "seal" /\ doing[w].actor = Adjudicator /\ EndOf(w)
      /\ finalization' = journal
      /\ UNCHANGED <<genesis, journal, receipts, locks, interrupted>>
      /\ TypeOK /\ Working(w) /\ Unbroken
    BY DEF WriteFinalization, IInv
<1>2. /\ doing' \in [Workers -> Doings] /\ OneWorker' /\ \A b : ~UnderWay(b)'
      /\ \A v \in Workers : doing'[v].at = "idle" /\ Working(v)'
    BY <1>1, Ends
<1>3. TypeOK'
    BY <1>1, <1>2 DEF TypeOK, Doings
<1>4. receipts = journal /\ IsClosed(journal[Adjudicator])
    BY <1>1 DEF Working
<1>5. \A b \in Actors \ {Adjudicator} : ~UnderWay(b)
    <2>1. \A v \in Workers \ {w} : doing[v].at = "idle"
        BY <1>1, Alone DEF IInv
    <2> QED BY <1>1, <2>1 DEF UnderWay
<1>6. Finalized'
    BY <1>1, AbsenceAssumption DEF TypeOK, Finalized
<1>7. Unbroken'
    BY <1>1, <1>4, <1>5, <1>6, SessionAssumption DEF Unbroken, Actors
<1>8. Sealed'
    BY <1>1, <1>4 DEF Sealed
<1> QED BY <1>1, <1>2, <1>3, <1>7, <1>8, JournalsStay DEF IInv, Receipted

LEMMA Creating == ASSUME IInv, Create PROVE IInv'
<1>1. /\ genesis' \in {"torn", "written"} /\ genesis = "missing"
      /\ UNCHANGED <<journal, receipts, locks, finalization, doing, interrupted>>
    BY DEF Create
<1>2. TypeOK'
    BY <1>1 DEF IInv, TypeOK
<1>3. (\A w \in Workers : Working(w))'
    <2> SUFFICES ASSUME NEW w \in Workers PROVE Working(w)'
        OBVIOUS
    <2>1. Working(w) /\ ~Verified
        BY <1>1 DEF IInv, Verified
    <2> QED BY <1>1, <2>1 DEF Working, IsClosed
<1>4. Unbroken'
    BY <1>1 DEF IInv, Unbroken, UnderWay, Finalized
<1> QED BY <1>1, <1>2, <1>3, <1>4, JournalsStay
        DEF IInv, OneWorker, Receipted, Sealed, Finalized

LEMMA NextStep == ASSUME IInv, Next PROVE IInv'
BY Creating, Operating, Appending, WritingReceipt, WritingLock, WritingFinalization, Stopping,
   Cutting DEF Next, Write

LEMMA Stuttering == ASSUME IInv, UNCHANGED vars PROVE IInv'
<1>1. UNCHANGED <<genesis, journal, receipts, locks, finalization, doing, interrupted>>
    BY DEF vars
<1>2. (\A w \in Workers : Working(w))'
    <2> SUFFICES ASSUME NEW w \in Workers PROVE Working(w)'
        OBVIOUS
    <2>1. Working(w)
        BY DEF IInv
    <2>2. Verified => Verified'
        BY <1>1, VerifiedStays
    <2> QED BY <1>1, <2>1, <2>2, FollowsSame DEF Working, IsClosed
<1> QED BY <1>1, <1>2, JournalsStay
        DEF IInv, TypeOK, OneWorker, Receipted, Unbroken, UnderWay, Sealed, Finalized

\* The invariant: what the journals tell, what the receipts lack, what the
\* worker in the guard relies on, and what an unbroken session has on disk.
THEOREM Invariance == Spec => []IInv
<1>1. IInv /\ [Next]_vars => IInv'
    BY NextStep, Stuttering
<1> QED BY <1>1, Initial, PTL DEF Spec
-----------------------------------------------------------------------------
\* The session of however many crashes: every operation checks every receipt
\* before it writes, so no second event joins one that lacks its receipt.
THEOREM OneUnreceipted == Spec => []AtMostOneUnreceipted
<1>1. ASSUME IInv PROVE AtMostOneUnreceipted
    <2>1. TypeOK /\ Receipted
        BY <1>1 DEF IInv
    <2>2. ASSUME NEW p \in Unreceipted
          PROVE  /\ p \in Actors \X Nat /\ receipts[p[1]] # journal[p[1]]
                 /\ p[2] = Len(journal[p[1]])
        <3>1. PICK a \in Actors, i \in 1..(3 * CaseCount + 1) : p = <<a, i>>
            BY DEF Unreceipted
        <3>2. i \in DOMAIN journal[a] /\ ~Receipt(a, i) /\ i \in Nat
            BY <3>1, Counted DEF Unreceipted
        <3>3. journal[a] \in Seq(Events)
            BY <2>1, ToldIs
        <3>4. i \in 1..Len(journal[a]) /\ Len(journal[a]) \in Nat
            BY <3>2, <3>3, LenProperties
        <3>5. receipts[a] # journal[a]
            BY <3>2 DEF Receipt
        <3>6. /\ journal[a] # <<>>
              /\ \/ receipts[a] = Before(journal[a])
                 \/ receipts[a] = Append(Before(journal[a]), TornRecord)
            BY <2>1, <3>5 DEF Receipted
        <3>7. /\ Before(journal[a]) \in Seq(Events) /\ Len(Before(journal[a])) = Len(journal[a]) - 1
              /\ \A k \in 1..(Len(journal[a]) - 1) : Before(journal[a])[k] = journal[a][k]
            <4>1. journal[a] # <<>>
                BY <3>6
            <4>2. PICK j : j = journal[a]
                OBVIOUS
            <4> QED BY <3>3, <4>1, <4>2, BeforeLast
        <3>8. TornRecord \in Events
            BY DEF TornRecord, Event, Events
        <3>9. \A k \in 1..(Len(journal[a]) - 1) :
                 k \in DOMAIN receipts[a] /\ receipts[a][k] = journal[a][k]
            <4>1. CASE receipts[a] = Before(journal[a])
                BY <3>7, <4>1, LenProperties
            <4>2. CASE receipts[a] = Append(Before(journal[a]), TornRecord)
                <5>1. /\ DOMAIN receipts[a] = 1..(Len(Before(journal[a])) + 1)
                      /\ \A k \in 1..Len(Before(journal[a])) :
                             receipts[a][k] = Before(journal[a])[k]
                    BY <3>7, <3>8, <4>2, Appended
                <5> QED BY <3>4, <3>7, <5>1
            <4> QED BY <3>6, <4>1, <4>2
        <3>10. i = Len(journal[a])
            BY <3>2, <3>4, <3>9 DEF Receipt
        <3> QED BY <3>1, <3>2, <3>5, <3>10
    <2>3. ASSUME NEW p \in Unreceipted, NEW q \in Unreceipted PROVE p = q
        <3>1. p[1] = q[1]
            BY <2>1, <2>2 DEF Receipted
        <3> QED BY <2>2, <3>1
    <2>4. CASE Unreceipted = {}
        BY <2>4, FS_EmptySet DEF AtMostOneUnreceipted
    <2>5. CASE Unreceipted # {}
        <3>1. PICK p : Unreceipted = {p}
            BY <2>3, <2>5
        <3> QED BY <3>1, FS_Singleton DEF AtMostOneUnreceipted
    <2> QED BY <2>4, <2>5
<1> QED BY <1>1, Invariance, PTL

\* BlindReviewSession._states: a session nobody interrupted between two writes
\* verifies whenever the guard is free, and its finalization is there exactly
\* when the adjudicator closed its review.
THEOREM WholeWithoutInterruption == Spec => []WholeUnlessInterrupted
<1>1. ASSUME IInv, GuardFree, genesis = "written", ~interrupted
      PROVE  Verified /\ (IsClosed(journal[Adjudicator]) <=> Finalized)
    <2>1. TypeOK /\ Telling /\ AdjudicatorWaits /\ Unbroken /\ Sealed
        BY <1>1 DEF IInv
    <2>2. /\ \A w \in Workers : doing[w].at # "receipt"
          /\ \A b : ~UnderWay(b)
        BY <1>1 DEF GuardFree, UnderWay
    <2>3. /\ \A a \in Actors : LastType(journal[a]) # "torn"
          /\ receipts = journal
          /\ \A r \in Reviewers : IsClosed(journal[r]) => locks[r] = "written"
          /\ IsClosed(journal[Adjudicator]) => Finalized
        BY <1>1, <2>1, <2>2 DEF Unbroken
    <2>4. \A a \in Actors : Replays(a)
        BY <2>1, <2>3, ToldIs DEF Telling, ChainFrom, Replays
    <2>5. Verified
        BY <1>1, <2>1, <2>3, <2>4
           DEF Verified, VerifyEventReceipts, VerifyReviewerLock, AdjudicatorWaits
    <2> QED BY <2>1, <2>3, <2>5 DEF Sealed
<1>2. IInv => WholeUnlessInterrupted
    BY <1>1 DEF WholeUnlessInterrupted
<1> QED BY <1>2, Invariance, PTL

\* The rulings of an actor are one for each case it has been through.
LEMMA RulingsOfScript ==
    ASSUME NEW a \in Actors, NEW j, Script(a, j), NEW i \in 1..CaseCount, NEW v
    PROVE  /\ <<CaseOrder[a][i], v>> \in Rulings(j) <=>
                  i <= CurrentIndex(j) /\ v = j[3 * i].verdict
           /\ i <= CurrentIndex(j) => j[3 * i].verdict \in Verdicts
<1> DEFINE n == CurrentIndex(j)
<1>1. /\ n \in 0..CaseCount /\ Decisions(j) = {3 * m : m \in 1..n}
      /\ \A m \in 1..n : j[3 * m].case = CaseOrder[a][m] /\ j[3 * m].verdict \in Verdicts
    BY DEF Script
<1>2. n \in Nat /\ CaseCount \in Nat /\ \A m \in 1..n : m \in 1..CaseCount
    BY <1>1, Counted
<1> HIDE DEF n
<1>3. Rulings(j) = {<<j[3 * m].case, j[3 * m].verdict>> : m \in 1..n}
    BY <1>1 DEF Rulings
<1>4. Rulings(j) = {<<CaseOrder[a][m], j[3 * m].verdict>> : m \in 1..n}
    BY <1>1, <1>3
<1>5. ASSUME <<CaseOrder[a][i], v>> \in Rulings(j) PROVE i \in 1..n /\ v = j[3 * i].verdict
    <2>1. PICK m \in 1..n : CaseOrder[a][i] = CaseOrder[a][m] /\ v = j[3 * m].verdict
        BY <1>4, <1>5
    <2>2. m = i
        BY <1>2, <2>1, Ordered
    <2> QED BY <2>1, <2>2
<1>6. i \in 1..n <=> i <= n
    BY <1>2
<1>7. i \in 1..n => <<CaseOrder[a][i], j[3 * i].verdict>> \in Rulings(j)
    BY <1>4
<1> QED BY <1>1, <1>5, <1>6, <1>7 DEF n

\* BlindReviewSession.finalized_evidence compares the receipt only with
\* itself; yet what it hands out names the journals as they are, and they hold
\* one ruling of every actor on every case.
THEOREM StandingEvidence == Spec => []EvidenceStands
<1>1. ASSUME IInv, YieldsEvidence
      PROVE  /\ finalization = journal
             /\ \A a \in Actors, c \in Cases :
                   Cardinality({v \in Verdicts : <<c, v>> \in Rulings(journal[a])}) = 1
    <2>1. TypeOK /\ Telling /\ AdjudicatorWaits /\ Sealed /\ Finalized
        BY <1>1 DEF IInv, YieldsEvidence
    <2>2. finalization = journal /\ IsClosed(journal[Adjudicator])
        BY <2>1 DEF Sealed
    <2>3. \A a \in Actors : IsClosed(journal[a])
        BY <2>1, <2>2 DEF AdjudicatorWaits, ReviewersLocked, Actors, IsClosed, LastType
    <2>4. ASSUME NEW a \in Actors, NEW c \in Cases
          PROVE  Cardinality({v \in Verdicts : <<c, v>> \in Rulings(journal[a])}) = 1
        <3>1. Script(a, journal[a]) /\ CurrentIndex(journal[a]) = CaseCount
            BY <2>1, <2>3, ToldIs, ScriptTells DEF Telling
        <3>2. PICK i \in 1..CaseCount : CaseOrder[a][i] = c
            BY Ordered
        <3>3. i <= CaseCount
            BY Counted
        <3> DEFINE v0 == journal[a][3 * i].verdict
        <3>4. v0 \in Verdicts /\ \A v : <<c, v>> \in Rulings(journal[a]) <=> v = v0
            <4>1. v0 \in Verdicts
                BY <3>1, <3>3, RulingsOfScript
            <4>2. ASSUME NEW v PROVE <<CaseOrder[a][i], v>> \in Rulings(journal[a]) <=> v = v0
                BY <3>1, <3>3, RulingsOfScript
            <4> QED BY <3>2, <4>1, <4>2
        <3>5. {v \in Verdicts : <<c, v>> \in Rulings(journal[a])} = {v0}
            BY <3>4
        <3> QED BY <3>5, FS_Singleton
    <2> QED BY <2>2, <2>4
<1>2. IInv => EvidenceStands
    BY <1>1 DEF EvidenceStands
<1> QED BY <1>2, Invariance, PTL
-----------------------------------------------------------------------------
(***************************************************************************)
(* The journals tell a review: an appended event is a step of BlindReview, *)
(* and everything else on disk is not seen there.                          *)
(***************************************************************************)
ruled == [a \in Actors |-> Rulings(Told(a))]
screens == [a \in Actors |-> OnScreen(Told(a))]
over == {a \in Actors : IsClosed(Told(a))}

LEMMA Screens ==
    ASSUME NEW j
    PROVE  LET opened == j[1 + 3 * CurrentIndex(j)] IN
           /\ ~HasOpen(j) => OnScreen(j) = {}
           /\ LastType(j) = "opened" =>
                 OnScreen(j) = {[case |-> opened.case, shown |-> opened.shown, seen |-> FALSE]}
           /\ LastType(j) = "acknowledged" =>
                 OnScreen(j) = {[case |-> opened.case, shown |-> opened.shown, seen |-> TRUE]}
<1> DEFINE opened == j[1 + 3 * CurrentIndex(j)]
           seen == LastType(j) = "acknowledged"
<1>1. HasOpen(j) => OnScreen(j) = {[case |-> opened.case, shown |-> opened.shown, seen |-> seen]}
    BY DEF OnScreen
<1>2. ~HasOpen(j) => OnScreen(j) = {}
    BY DEF OnScreen
<1>3. /\ LastType(j) = "opened" => seen = FALSE
      /\ LastType(j) = "acknowledged" => seen = TRUE
    OBVIOUS
<1>4. LastType(j) \in {"opened", "acknowledged"} => HasOpen(j)
    BY DEF HasOpen
<1> HIDE DEF opened, seen
<1> QED BY <1>1, <1>2, <1>3, <1>4 DEF opened

LEMMA Displays ==
    ASSUME NEW c, NEW material, NEW d
    PROVE  /\ d = [case |-> c, shown |-> material, seen |-> FALSE] =>
                 /\ ~d.seen /\ d.case = c
                 /\ [d EXCEPT !.seen = TRUE] = [case |-> c, shown |-> material, seen |-> TRUE]
           /\ d = [case |-> c, shown |-> material, seen |-> TRUE] => d.seen /\ d.case = c
<1>1. PICK f, t : f = FALSE /\ t = TRUE
    OBVIOUS
<1>2. \A b : /\ [case |-> c, shown |-> material, seen |-> b].seen = b
            /\ [case |-> c, shown |-> material, seen |-> b].case = c
    OBVIOUS
<1>3. [[case |-> c, shown |-> material, seen |-> f] EXCEPT !.seen = t]
         = [case |-> c, shown |-> material, seen |-> t]
    OBVIOUS
<1> QED BY <1>1, <1>2, <1>3

LEMMA SameTold ==
    ASSUME \A a \in Actors : Told(a)' = Told(a)
    PROVE  UNCHANGED <<ruled, screens, over>>
BY DEF ruled, screens, over

\* What one more event changes in what the journals tell.
LEMMA ToldMore ==
    ASSUME NEW a \in Actors, NEW k, Told(a)' = k,
           \A b \in Actors \ {a} : Told(b)' = Told(b)
    PROVE  /\ ruled' = [ruled EXCEPT ![a] = Rulings(k)]
           /\ screens' = [screens EXCEPT ![a] = OnScreen(k)]
           /\ over' = {b \in Actors : IF b = a THEN IsClosed(k) ELSE b \in over}
<1>1. ASSUME NEW b \in Actors \ {a}
      PROVE  /\ (Rulings(Told(b)))' = Rulings(Told(b))
             /\ (OnScreen(Told(b)))' = OnScreen(Told(b))
             /\ (IsClosed(Told(b)))' = IsClosed(Told(b))
    BY DEF Rulings, Decisions, OnScreen, HasOpen, LastType, CurrentIndex, IsClosed
<1>2. /\ (Rulings(Told(a)))' = Rulings(k)
      /\ (OnScreen(Told(a)))' = OnScreen(k)
      /\ (IsClosed(Told(a)))' = IsClosed(k)
    BY DEF Rulings, Decisions, OnScreen, HasOpen, LastType, CurrentIndex, IsClosed
<1>3. ruled' = [ruled EXCEPT ![a] = Rulings(k)]
    BY <1>1, <1>2 DEF ruled
<1>4. screens' = [screens EXCEPT ![a] = OnScreen(k)]
    BY <1>1, <1>2 DEF screens
<1>5. over' = {b \in Actors : IF b = a THEN IsClosed(k) ELSE b \in over}
    BY <1>1, <1>2 DEF over
<1> QED BY <1>3, <1>4, <1>5

LEMMA RuledOf ==
    ASSUME NEW a \in Actors, Script(a, Told(a)), NEW i \in 1..CaseCount
    PROVE  (\E v \in Verdicts : <<CaseOrder[a][i], v>> \in ruled[a])
              <=> i <= CurrentIndex(Told(a))
<1>1. PICK j : j = Told(a)
    OBVIOUS
<1>2. Script(a, j) /\ ruled[a] = Rulings(j)
    BY <1>1 DEF ruled
<1>3. \A v : <<CaseOrder[a][i], v>> \in Rulings(j) <=> i <= CurrentIndex(j) /\ v = j[3 * i].verdict
    BY <1>2, RulingsOfScript
<1>4. i <= CurrentIndex(j) => j[3 * i].verdict \in Verdicts
    BY <1>2, RulingsOfScript
<1> QED BY <1>1, <1>2, <1>3, <1>4

LEMMA AppendTellsAStep ==
    ASSUME IInv, NEW w \in Workers, AppendEvent(w)
    PROVE  Review!Next
<1>1. PICK a, e : a = doing[w].actor /\ e = doing[w].event
    OBVIOUS
<1>2. PICK j : j = journal[a]
    OBVIOUS
<1>3. PICK k : k = Append(j, e)
    OBVIOUS
<1>4. /\ doing[w].at = "append" /\ journal' = [journal EXCEPT ![a] = Append(@, e)]
      /\ UNCHANGED <<genesis, receipts, locks, finalization, interrupted>>
    BY <1>1 DEF AppendEvent
<1>5. /\ a \in Actors /\ e \in Events /\ Verified /\ Follows(a, j, e) /\ TypeOK
      /\ Script(a, j) /\ j \in Seq(Events) /\ ~IsClosed(j)
    BY <1>1, <1>2, <1>4, BeforeAppend, WhenVerified, ToldIs DEF IInv
<1>6. \A b \in Actors : Told(b) = journal[b]
    BY <1>5, VerifiedIsClean
<1>7. /\ journal'[a] = k /\ LastType(k) = e.type
      /\ \A b \in Actors \ {a} : journal'[b] = journal[b]
    BY <1>1, <1>2, <1>3, <1>4, <1>5, JournalGrows
<1>8. Told(a)' = k /\ \A b \in Actors \ {a} : Told(b)' = Told(b)
    BY <1>5, <1>7, FollowsTypes DEF Told
<1>9. /\ ruled' = [ruled EXCEPT ![a] = Rulings(k)]
      /\ screens' = [screens EXCEPT ![a] = OnScreen(k)]
      /\ over' = {b \in Actors : IF b = a THEN IsClosed(k) ELSE b \in over}
    BY <1>5, <1>8, ToldMore
<1>10. /\ ruled[a] = Rulings(j) /\ screens[a] = OnScreen(j) /\ a \notin over
       /\ Told(a) = j /\ over \subseteq Actors
    BY <1>2, <1>5, <1>6 DEF ruled, screens, over
<1> DEFINE n == CurrentIndex(j)
<1>11. /\ n \in 0..CaseCount /\ n \in Nat /\ CaseCount \in Nat \ {0} /\ Len(j) \in Nat
       /\ Len(k) = Len(j) + 1 /\ k[Len(j) + 1] = e /\ \A i \in 1..Len(j) : k[i] = j[i]
    BY <1>3, <1>5, Appended, Counted DEF Script
<1>12. /\ e.type # "decided" => CurrentIndex(k) = n /\ Rulings(k) = Rulings(j)
       /\ e.type = "decided" => Rulings(k) = Rulings(j) \cup {<<e.case, e.verdict>>}
    BY <1>3, <1>5, DecisionsAppended
<1> HIDE DEF n
<1>13. CASE Presents(a, j, e)
    <2>1. PICK c : c = CaseOrder[a][n + 1]
        OBVIOUS
    <2>2. /\ e = Opened(c, Material(a, c)) /\ Len(j) = 3 * n /\ n < CaseCount
          /\ ~HasOpen(j)
          /\ a = Adjudicator => ReviewersLocked
        BY <1>5, <1>13, <2>1, ScriptTells DEF Presents, NextCase, n
    <2>3. e.type = "opened" /\ e.case = c /\ e.shown = Material(a, c)
        BY <2>2 DEF Opened, Event
    <2>4. n + 1 \in 1..CaseCount /\ c \in Cases
        BY <1>5, <1>11, <2>1, <2>2, Ordered
    <2>5. screens[a] = {} /\ OnScreen(k) = {[case |-> c, shown |-> Material(a, c), seen |-> FALSE]}
        <3>1. k[1 + 3 * n] = e /\ CurrentIndex(k) = n
            BY <1>11, <1>12, <2>2, <2>3
        <3> QED BY <1>7, <1>10, <2>2, <2>3, <3>1, Screens
    <2>6. ~(\E v \in Verdicts : <<c, v>> \in ruled[a])
        <3>1. ~(n + 1 <= n) /\ n = CurrentIndex(Told(a))
            BY <1>10, <1>11 DEF n
        <3> QED BY <1>5, <1>10, <2>1, <2>4, <3>1, RuledOf
    <2>7. a = Adjudicator => Reviewers \subseteq over
        BY <1>6, <2>2 DEF ReviewersLocked, over, Actors
    <2>8. Material(a, c) = IF a = Adjudicator
                           THEN {p \in Reviewers \X Verdicts : <<c, p[2]>> \in ruled[p[1]]}
                           ELSE {}
        <3>1. \A p \in Reviewers \X Verdicts : ruled[p[1]] = Rulings(journal[p[1]])
            BY <1>6 DEF ruled, Actors
        <3> QED BY <3>1 DEF Material
    <2>9. ruled' = ruled
        BY <1>5, <1>9, <1>10, <1>12, <2>3 DEF ruled
    <2>10. over' = over
        BY <1>7, <1>9, <1>10, <2>3 DEF IsClosed
    <2>11. Review!RulingsOn(a, c) = Material(a, c)
        BY <2>8 DEF Review!RulingsOn, ruled
    <2>12. Review!Show(a, c)
        BY <1>9, <1>10, <2>5, <2>6, <2>7, <2>9, <2>10, <2>11
           DEF Review!Show, Review!Display, Review!Ruled, ruled, screens, over
    <2> QED BY <1>5, <2>4, <2>12 DEF Review!Next, Review!Actors, Actors
<1> DEFINE opened == j[1 + 3 * n]
<1>14. CASE Acknowledges(j, e)
    <2>1. Len(j) = 3 * n + 1 /\ LastType(j) = "opened"
        BY <1>5, <1>14, ScriptTells DEF Acknowledges, n
    <2>2. e.type = "acknowledged"
        BY <1>14 DEF Acknowledges, Acknowledged, Event
    <2>3. k[1 + 3 * n] = opened /\ CurrentIndex(k) = n
        BY <1>11, <1>12, <2>1, <2>2
    <2>4. /\ screens[a] = {[case |-> opened.case, shown |-> opened.shown, seen |-> FALSE]}
          /\ OnScreen(k) = {[case |-> opened.case, shown |-> opened.shown, seen |-> TRUE]}
        BY <1>7, <1>10, <2>1, <2>2, <2>3, Screens DEF n
    <2>5. PICK d : d = [case |-> opened.case, shown |-> opened.shown, seen |-> FALSE]
        OBVIOUS
    <2>8. /\ ~d.seen
          /\ [d EXCEPT !.seen = TRUE] = [case |-> opened.case, shown |-> opened.shown, seen |-> TRUE]
        BY ONLY <2>5, Displays
    <2>6. ruled' = ruled /\ over' = over
        BY <1>5, <1>7, <1>9, <1>10, <1>12, <2>2 DEF ruled, IsClosed
    <2>7. Review!See(a)
        <3>1. d \in screens[a] /\ ~d.seen
            BY <2>4, <2>5, <2>8
        <3>2. PICK x : x = [d EXCEPT !.seen = TRUE]
            OBVIOUS
        <3>3. screens' = [screens EXCEPT ![a] = {x}]
            BY <1>9, <2>4, <2>8, <3>2
        <3> QED BY <2>6, <3>1, <3>2, <3>3 DEF Review!See, ruled, screens, over
    <2> QED BY <1>5, <2>7 DEF Review!Next, Review!Actors, Actors
<1>15. CASE Decides(j, e)
    <2>1. LastType(j) = "acknowledged" /\ opened.case = OpenCase(j)
        BY <1>5, <1>11, <1>15, ScriptTells DEF Decides, n
    <2>2. PICK v \in Verdicts : e = Decided(OpenCase(j), v)
        BY <1>15 DEF Decides
    <2>3. e.type = "decided" /\ e.case = opened.case /\ e.verdict = v
        BY <2>1, <2>2 DEF Decided, Event
    <2>10. PICK d : d = [case |-> opened.case, shown |-> opened.shown, seen |-> TRUE]
        OBVIOUS
    <2>4. screens[a] = {d}
        BY <1>10, <2>1, <2>10, Screens DEF n
    <2>5. OnScreen(k) = {}
        BY <1>7, <2>3, Screens DEF HasOpen
    <2>6. d.seen /\ d.case = opened.case
        BY ONLY <2>10, Displays
    <2>7. over' = over
        BY <1>7, <1>9, <1>10, <2>3 DEF IsClosed
    <2>8. ruled' = [ruled EXCEPT ![a] = @ \cup {<<d.case, v>>}]
        BY <1>9, <1>10, <1>12, <2>3, <2>6
    <2>9. Review!Rule(a, v)
        BY <1>9, <2>4, <2>5, <2>6, <2>7, <2>8 DEF Review!Rule, ruled, screens, over
    <2> QED BY <1>5, <2>9 DEF Review!Next, Review!Actors, Actors
<1>16. CASE Closes(j, e)
    <2>1. n = CaseCount /\ ~HasOpen(j) /\ e = Closed
        BY <1>16 DEF Closes, n
    <2>2. e.type = "closed"
        BY <2>1 DEF Closed, Event
    <2>3. \A c \in Cases : \E v \in Verdicts : <<c, v>> \in ruled[a]
        <3> SUFFICES ASSUME NEW c \in Cases PROVE \E v \in Verdicts : <<c, v>> \in ruled[a]
            OBVIOUS
        <3>1. PICK i \in 1..CaseCount : CaseOrder[a][i] = c
            BY <1>5, Ordered
        <3>2. i <= CurrentIndex(Told(a))
            BY <1>10, <1>11, <2>1 DEF n
        <3> QED BY <1>5, <1>10, <3>1, <3>2, RuledOf
    <2>4. ruled' = ruled
        BY <1>5, <1>9, <1>10, <1>12, <2>2 DEF ruled
    <2>5. OnScreen(j) = {} /\ OnScreen(k) = {}
        BY <1>7, <2>1, <2>2, Screens DEF HasOpen
    <2>6. screens' = screens
        BY <1>5, <1>9, <1>10, <2>5 DEF screens
    <2>7. over' = over \cup {a}
        BY <1>5, <1>7, <1>9, <1>10, <2>2 DEF IsClosed
    <2>8. Review!Close(a)
        BY <1>10, <2>3, <2>4, <2>6, <2>7 DEF Review!Close, Review!Ruled, ruled, screens, over
    <2> QED BY <1>5, <2>8 DEF Review!Next, Review!Actors, Actors
<1> QED BY <1>5, <1>13, <1>14, <1>15, <1>16 DEF Follows

\* A record cut short tells nothing.
LEMMA TearTellsNothing ==
    ASSUME IInv, NEW w \in Workers, Tear(w)
    PROVE  \A b \in Actors : Told(b)' = Told(b)
<1> DEFINE a == doing[w].actor
<1>2. CASE /\ doing[w].at = "append"
           /\ journal' = [journal EXCEPT ![a] = Append(@, TornRecord)]
           /\ UNCHANGED <<receipts, locks, finalization>>
    <2>1. TornRecord \in Events /\ TornRecord.type = "torn"
        BY DEF TornRecord, Event, Events
    <2>2. /\ a \in Actors /\ Verified /\ TypeOK
        BY <1>2, BeforeAppend DEF IInv
    <2>3. /\ LastType(journal'[a]) = "torn" /\ Before(journal'[a]) = journal[a]
          /\ \A b \in Actors \ {a} : journal'[b] = journal[b]
        BY <1>2, <2>1, JournalGrows
    <2> HIDE DEF a
    <2>4. \A b \in Actors : Told(b) = journal[b] /\ LastType(journal[b]) # "torn"
        BY <2>2, VerifiedIsClean
    <2> QED BY <2>3, <2>4 DEF Told
<1>3. CASE UNCHANGED journal
    BY <1>3 DEF Told
<1> QED BY <1>2, <1>3 DEF Tear

LEMMA StepTellsAStep ==
    ASSUME IInv, [Next]_vars
    PROVE  [Review!Next]_(Review!reviewVars)
<1>1. CASE \E w \in Workers : AppendEvent(w)
    BY <1>1, AppendTellsAStep
<1>2. CASE UNCHANGED journal \/ \E w \in Workers : Tear(w)
    <2>1. \A b \in Actors : Told(b)' = Told(b)
        BY <1>2, TearTellsNothing DEF Told
    <2> QED BY <2>1, SameTold DEF Review!reviewVars, ruled, screens, over
<1>3. [Next]_vars =>
         \/ UNCHANGED journal
         \/ \E w \in Workers : AppendEvent(w) \/ Tear(w)
    BY DEF Next, vars, Create, Operation, PresentNext, AcknowledgeDisplay, RecordDecision,
           LockReviewer, FinalizeAdjudication, Begin, Write, WriteEventReceipt,
           WriteLockReceipt, WriteFinalization, Stop
<1> QED BY <1>1, <1>2, <1>3

\* The refinement: whatever the workers do and wherever they die, the journals
\* tell a review in which every actor rules once on each case, a reviewer sees
\* nobody's ruling, and the adjudicator only rulings that cannot change.
THEOREM TellsABlindReview == Spec => ReviewPromise
<1>1. Init => Review!Init
    <2> SUFFICES ASSUME Init PROVE Review!Init
        OBVIOUS
    <2>1. \A a \in Actors : Told(a) = <<>>
        BY DEF Init, Told, LastType
    <2>2. Rulings(<<>>) = {} /\ LastType(<<>>) = "none"
        BY DEF Rulings, Decisions, LastType
    <2>3. OnScreen(<<>>) = {} /\ ~IsClosed(<<>>)
        BY <2>2 DEF OnScreen, HasOpen, IsClosed
    <2> QED BY <2>1, <2>2, <2>3 DEF Review!Init, Review!Actors, Actors
<1>2. IInv /\ [Next]_vars => [Review!Next]_(Review!reviewVars)
    BY StepTellsAStep
<1> QED BY <1>1, <1>2, Invariance, PTL DEF Spec, ReviewPromise, Review!Spec
=============================================================================
