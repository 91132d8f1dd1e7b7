------------------------- MODULE LiveRefresh_proofs -------------------------
(***************************************************************************)
(* Proofs about LiveRefresh, for any number of records, page sizes, limits *)
(* and edits.                                                              *)
(***************************************************************************)
EXTENDS LiveRefresh, FiniteSetTheorems, TLAPS

\* The records of the pages that have answered, taken by _refresh or not.
Read == got \cup UNION {p.ids : p \in first}

\* How many places of the order those pages stand for.
Reach == IF seen = {} THEN Cardinality(Read) ELSE offset

\* The lasting records which no page holds, and no further page will.
Overlooked == {i \in always \ Read : Rank(i) <= Reach}

\* What the loop has to show for its pages.
Progress ==
    /\ seen = {} => got = {} /\ offset = 0
    /\ seen # {} => count # {} /\ first # {} /\ Read = got
    /\ {} \notin seen /\ \A s \in seen : s \subseteq got
    /\ Cardinality(seen) < MaxPages /\ offset <= Asked * Cardinality(seen)

\* A first page that was the last of the source held all that lasts.
WholeFirst ==
    \A p \in first :
        /\ Cardinality(p.ids) <= Asked
        /\ p.ids = {} \/ ~p.exceeded => always \subseteq p.ids

\* Without an insertion and outside the gap, the count covers what was read
\* and what the source holds.
Covered ==
    inserted = {} /\ ~between =>
        /\ count = {} => Read \subseteq source
        /\ \A c \in count : Cardinality(Read \cup source) <= c

\* As long as nobody edits, what was read is the beginning of the source.
Prefix ==
    inserted = {} /\ deleted = 0 =>
        /\ always = source
        /\ first \subseteq {Page(0)} /\ count \subseteq {Cardinality(source)}
        /\ Read \subseteq source /\ Reach = Cardinality(Read)
        /\ \A i \in Read, j \in source : j <= i => j \in Read

Reading ==
    /\ Progress
    /\ Cardinality(Overlooked) <= deleted
    /\ WholeFirst
    /\ Covered
    /\ Prefix

RefreshInv ==
    /\ TypeOK
    /\ between => deleted > 0
    /\ Running => Reading
    /\ QuietIsExact
    /\ MissingNeedsDeletion

\* What page p, taken now, has to be for the invariant to go on holding.
Suits(p) ==
    /\ p \in Pages /\ Cardinality(p.ids) <= Asked
    /\ Read \subseteq got \cup p.ids /\ got \cup p.ids \subseteq Read \cup source
    /\ \A i \in always \ (got \cup p.ids) :
          IsLast(p) \/ Rank(i) <= offset + Cardinality(p.ids) => i \in Overlooked
    /\ inserted = {} /\ deleted = 0 =>
          /\ p.ids \cap got = {} /\ p.ids \subseteq source
          /\ \A i \in p.ids, j \in source : j <= i => j \in got \cup p.ids
-----------------------------------------------------------------------------
(***************************************************************************)
(* Places in the order of a finite set of numbers.                         *)
(***************************************************************************)
Below(S, i) == {j \in S : j <= i}
Place(S, i) == Cardinality(Below(S, i))

\* The records of the places after o, at most c of them.
Window(S, o, c) == {i \in S : Place(S, i) \in (o + 1)..(o + c)}

LEMMA PlaceIsNat ==
    ASSUME NEW S, IsFiniteSet(S), NEW i
    PROVE  IsFiniteSet(Below(S, i)) /\ Place(S, i) \in 0..Cardinality(S)
<1>1. Below(S, i) \in SUBSET S
  BY DEF Below
<1> QED
  BY <1>1, FS_Subset, FS_CardinalityType DEF Place

LEMMA PlacesRise ==
    ASSUME NEW S \in SUBSET Nat, IsFiniteSet(S), NEW i \in Nat, NEW j \in S, i < j
    PROVE  Place(S, i) < Place(S, j)
<1>1. Below(S, i) \in SUBSET Below(S, j)
  <2>1. \A k \in S : k <= i => k <= j
    OBVIOUS
  <2> QED
    BY <2>1 DEF Below
<1>2. j \in Below(S, j) /\ j \notin Below(S, i)
  BY DEF Below
<1> QED
  BY <1>1, <1>2, FS_Subset, PlaceIsNat DEF Place

LEMMA PlacesDiffer ==
    ASSUME NEW S \in SUBSET Nat, IsFiniteSet(S), NEW i \in S, NEW j \in S,
           Place(S, i) = Place(S, j)
    PROVE  i = j
<1>1. Place(S, i) \in Nat /\ Place(S, j) \in Nat
  BY PlaceIsNat
<1>2. ~(i < j) /\ ~(j < i)
  BY <1>1, PlacesRise
<1> QED
  BY <1>2

LEMMA PlacesStart ==
    ASSUME NEW S \in SUBSET Nat, IsFiniteSet(S), NEW i \in S
    PROVE  Place(S, i) >= 1
<1>1. i \in Below(S, i)
  BY DEF Below
<1> QED
  BY <1>1, PlaceIsNat, FS_EmptySet DEF Place

\* No place of the order is vacant.
LEMMA PlacesAreTaken ==
    ASSUME NEW S \in SUBSET Nat, IsFiniteSet(S), NEW r \in 1..Cardinality(S)
    PROVE  \E i \in S : Place(S, i) = r
<1> DEFINE N == Cardinality(S)
           f == [i \in S |-> Place(S, i)]
<1>1. N \in Nat
  BY FS_CardinalityType
<1>2. f \in [S -> 1..N]
  BY PlaceIsNat, PlacesStart, <1>1
<1>3. f \in Injection(S, 1..N)
  BY <1>2, PlacesDiffer DEF Injection, IsInjective
<1>4. IsFiniteSet(1..N) /\ Cardinality(1..N) = N
  BY <1>1, FS_Interval
<1>5. f \in Surjection(S, 1..N)
  BY <1>3, <1>4, FS_Injection
<1> QED
  BY <1>5 DEF Surjection

LEMMA WindowIsNarrow ==
    ASSUME NEW S \in SUBSET Nat, IsFiniteSet(S), NEW o \in Nat, NEW c \in Nat
    PROVE  /\ IsFiniteSet(Window(S, o, c)) /\ Cardinality(Window(S, o, c)) \in 0..c
<1> DEFINE W == Window(S, o, c)
           I == (o + 1)..(o + c)
           f == [i \in W |-> Place(S, i)]
<1>1. f \in Injection(W, I)
  BY PlacesDiffer DEF Injection, IsInjective, Window
<1>2. IsFiniteSet(I) /\ Cardinality(I) = c
  BY FS_Interval
<1>3. IsFiniteSet(W) /\ Cardinality(W) <= c
  BY <1>1, <1>2, FS_Injection
<1> QED
  BY <1>3, FS_CardinalityType

\* A page covers as many places as it holds records.
LEMMA WindowCovers ==
    ASSUME NEW S \in SUBSET Nat, IsFiniteSet(S), NEW o \in Nat, NEW c \in Nat, NEW i \in S,
           Place(S, i) <= o + Cardinality(Window(S, o, c))
    PROVE  Place(S, i) <= o \/ i \in Window(S, o, c)
<1>1. Cardinality(Window(S, o, c)) \in 0..c
  BY WindowIsNarrow
<1>2. Place(S, i) \in Nat
  BY PlaceIsNat, FS_CardinalityType
<1>3. Place(S, i) <= o + c
  BY <1>1, <1>2
<1> QED
  BY <1>2, <1>3 DEF Window

\* After a page that is empty, or not cut, nothing is left.
LEMMA WindowEnds ==
    ASSUME NEW S \in SUBSET Nat, IsFiniteSet(S), NEW o \in Nat, NEW c \in Nat \ {0}, NEW i \in S,
           Window(S, o, c) = {} \/ ~(Cardinality(S) > o + c)
    PROVE  Place(S, i) <= o \/ i \in Window(S, o, c)
<1>1. Cardinality(S) \in Nat /\ Place(S, i) \in 0..Cardinality(S)
  BY PlaceIsNat, FS_CardinalityType
<1>2. CASE ~(Cardinality(S) > o + c)
  BY <1>1, <1>2 DEF Window
<1>3. CASE Window(S, o, c) = {} /\ Place(S, i) > o
  <2>1. o + 1 \in 1..Cardinality(S)
    BY <1>1, <1>3
  <2>2. PICK j \in S : Place(S, j) = o + 1
    BY <2>1, PlacesAreTaken
  <2>3. j \in Window(S, o, c)
    BY <2>2 DEF Window
  <2> QED
    BY <1>3, <2>3
<1> QED
  BY <1>1, <1>2, <1>3

\* An insertion moves no record forward, a deletion each at most by one.
LEMMA PlacesAfterInsert ==
    ASSUME NEW S, IsFiniteSet(S), NEW d, NEW i
    PROVE  Place(S, i) <= Place(S \cup {d}, i)
<1>1. IsFiniteSet(S \cup {d})
  BY FS_AddElement
<1>2. Below(S, i) \in SUBSET Below(S \cup {d}, i)
  BY DEF Below
<1> QED
  BY <1>1, <1>2, PlaceIsNat, FS_Subset DEF Place

LEMMA PlacesAfterDelete ==
    ASSUME NEW S, IsFiniteSet(S), NEW d, NEW i
    PROVE  Place(S, i) <= Place(S \ {d}, i) + 1
<1>1. IsFiniteSet(Below(S, i)) /\ Cardinality(Below(S, i)) \in Nat
  BY PlaceIsNat, FS_CardinalityType
<1>2. Below(S \ {d}, i) = Below(S, i) \ {d}
  BY DEF Below
<1>3. Cardinality(Below(S, i)) <= Cardinality(Below(S, i) \ {d}) + 1
  BY <1>1, FS_RemoveElement
<1>4. Place(S \ {d}, i) = Cardinality(Below(S, i) \ {d})
  BY <1>2 DEF Place
<1> QED
  BY <1>3, <1>4 DEF Place
-----------------------------------------------------------------------------
(***************************************************************************)
(* What the invariant says of a state.                                     *)
(***************************************************************************)
LEMMA Finite ==
    ASSUME TypeOK
    PROVE  /\ source \in SUBSET Nat /\ IsFiniteSet(source) /\ Cardinality(source) \in Nat
           /\ IsFiniteSet(inserted) /\ Cardinality(inserted) \in Nat
           /\ IsFiniteSet(always)
           /\ IsFiniteSet(got) /\ Cardinality(got) \in Nat
           /\ IsFiniteSet(seen) /\ Cardinality(seen) \in Nat
           /\ Read \in SUBSET Ids /\ IsFiniteSet(Read) /\ Cardinality(Read) \in Nat
           /\ IsFiniteSet(Read \cup source) /\ Reach \in Nat
           /\ IsFiniteSet(Overlooked) /\ Cardinality(Overlooked) \in Nat
<1>1. IsFiniteSet(Ids) /\ Ids \subseteq Nat
  BY FS_Interval, RefreshAssumption DEF Ids
<1>2. \A S \in SUBSET Ids : IsFiniteSet(S) /\ Cardinality(S) \in Nat
  BY <1>1, FS_Subset, FS_CardinalityType
<1>3. \A p \in first : p.ids \in SUBSET Ids
  BY DEF TypeOK, Pages
<1>4. Read \in SUBSET Ids
  BY <1>3 DEF TypeOK, Read
<1>5. source \in SUBSET Ids /\ inserted \in SUBSET Ids /\ always \in SUBSET Ids /\ got \in SUBSET Ids
  BY DEF TypeOK
<1>6. Read \cup source \in SUBSET Ids /\ Overlooked \in SUBSET Ids
  BY <1>4, <1>5 DEF Overlooked
<1>7. IsFiniteSet(SUBSET Ids)
  BY <1>1, FS_SUBSET
<1>8. IsFiniteSet(seen) /\ Cardinality(seen) \in Nat
  BY <1>7, FS_Subset, FS_CardinalityType DEF TypeOK
<1>9. Reach \in Nat
  BY <1>2, <1>4, RefreshAssumption DEF Reach, TypeOK
<1> QED
  BY <1>1, <1>2, <1>4, <1>5, <1>6, <1>8, <1>9

LEMMA RankIsPlace == \A i : Rank(i) = Place(source, i)
  BY DEF Rank, Place, Below

LEMMA PageIsWindow ==
    ASSUME NEW o \in Nat
    PROVE  /\ Page(o).ids = Window(source, o, cap)
           /\ Page(o).exceeded = (Cardinality(source) > o + cap)
  BY DEF Page, Window, Rank, Place, Below

LEMMA PageFits ==
    ASSUME TypeOK, NEW o \in Nat
    PROVE  /\ Page(o) \in Pages /\ Page(o).ids \subseteq source
           /\ Cardinality(Page(o).ids) \in 0..cap /\ Cardinality(Page(o).ids) <= Asked
           /\ cap \in Nat \ {0}
<1>1. cap \in Nat \ {0} /\ cap <= Asked
  BY RefreshAssumption DEF TypeOK
<1>2. Page(o).ids \subseteq source /\ Cardinality(Page(o).ids) \in 0..cap
  BY <1>1, Finite, PageIsWindow, WindowIsNarrow DEF Window
<1>3. Page(o) \in Pages
  BY <1>2 DEF Page, Pages, TypeOK
<1> QED
  BY <1>1, <1>2, <1>3, RefreshAssumption

\* There is one first page.
LEMMA FirstIsOne ==
    ASSUME TypeOK, NEW p \in first
    PROVE  first = {p} /\ Read = got \cup p.ids
<1>1. IsFiniteSet(first) /\ first # {}
  <2>1. IsFiniteSet(SUBSET Ids)
    <3>1. IsFiniteSet(Ids)
      BY FS_Interval, RefreshAssumption DEF Ids
    <3> QED
      BY <3>1, FS_SUBSET
  <2>2. IsFiniteSet((SUBSET Ids) \X BOOLEAN)
    <3>1. IsFiniteSet({TRUE} \cup {FALSE})
      BY FS_Singleton, FS_AddElement
    <3> QED
      BY <2>1, <3>1, FS_Product
  <2> DEFINE f == [q \in first |-> <<q.ids, q.exceeded>>]
  <2>3. f \in Injection(first, (SUBSET Ids) \X BOOLEAN)
    BY DEF Injection, IsInjective, TypeOK, Pages
  <2> QED
    BY <2>2, <2>3, FS_Injection
<1>2. Cardinality(first) = 1
  BY <1>1, FS_EmptySet, FS_CardinalityType DEF TypeOK
<1>3. first = {p}
  BY <1>1, <1>2, FS_Singleton
<1> QED
  BY <1>3 DEF Read

\* Without a deletion nothing is overlooked.
LEMMA NothingOverlooked ==
    ASSUME TypeOK, Cardinality(Overlooked) <= deleted, deleted = 0
    PROVE  Overlooked = {}
  BY Finite, FS_EmptySet
-----------------------------------------------------------------------------
(***************************************************************************)
(* The pages suit the loop.                                                *)
(***************************************************************************)
LEMMA FirstSuits ==
    ASSUME RefreshInv, Running, seen = {}, NEW p \in first
    PROVE  Suits(p)
<1>1. TypeOK /\ Reading
  BY DEF RefreshInv
<1>2. got = {} /\ offset = 0 /\ Read = p.ids /\ Reach = Cardinality(p.ids)
  BY <1>1, FirstIsOne DEF Reading, Progress, Reach
<1>3. p \in Pages /\ Cardinality(p.ids) <= Asked
  BY <1>1 DEF TypeOK, Reading, WholeFirst
<1>4. ASSUME NEW i \in always \ (got \cup p.ids),
             IsLast(p) \/ Rank(i) <= offset + Cardinality(p.ids)
      PROVE  i \in Overlooked
  <2>1. ~IsLast(p)
    BY <1>1, <1>4 DEF Reading, WholeFirst, IsLast
  <2>2. Cardinality(p.ids) \in Nat
    BY <1>1, <1>2, Finite
  <2>3. Rank(i) <= Reach
    BY <1>2, <1>4, <2>1, <2>2
  <2> QED
    BY <1>2, <1>4, <2>3 DEF Overlooked
<1>5. inserted = {} /\ deleted = 0 =>
          /\ p.ids \cap got = {} /\ p.ids \subseteq source
          /\ \A i \in p.ids, j \in source : j <= i => j \in got \cup p.ids
  BY <1>1, <1>2 DEF Reading, Prefix
<1> QED
  BY <1>2, <1>3, <1>4, <1>5 DEF Suits

LEMMA NextSuits ==
    ASSUME RefreshInv, Running, seen # {}
    PROVE  Suits(Page(offset))
<1> DEFINE p == Page(offset)
<1>1. TypeOK /\ Reading
  BY DEF RefreshInv
<1>2. Read = got /\ Reach = offset /\ offset \in Nat
  BY <1>1, RefreshAssumption DEF Reading, Progress, Reach, TypeOK
<1>3. /\ p \in Pages /\ p.ids \subseteq source
      /\ Cardinality(p.ids) \in Nat /\ Cardinality(p.ids) <= Asked /\ cap \in Nat \ {0}
  BY <1>1, <1>2, PageFits
<1>4. p.ids = Window(source, offset, cap) /\ p.exceeded = (Cardinality(source) > offset + cap)
  BY <1>2, PageIsWindow
<1>5. source \in SUBSET Nat /\ IsFiniteSet(source) /\ always \subseteq source
  BY <1>1, Finite DEF TypeOK
<1>6. \A i \in source : Place(source, i) \in Nat /\ Place(source, i) = Rank(i)
  BY <1>5, PlaceIsNat, FS_CardinalityType, RankIsPlace
<1> HIDE DEF p
<1>7. ASSUME NEW i \in always \ (got \cup p.ids),
             IsLast(p) \/ Rank(i) <= offset + Cardinality(p.ids)
      PROVE  i \in Overlooked
  <2>1. i \in source /\ i \notin Window(source, offset, cap)
    BY <1>4, <1>5, <1>7
  <2>2. CASE IsLast(p)
    <3>1. Window(source, offset, cap) = {} \/ ~(Cardinality(source) > offset + cap)
      BY <1>4, <2>2 DEF IsLast
    <3>2. Place(source, i) <= offset
      BY <1>2, <1>3, <1>5, <2>1, <3>1, WindowEnds
    <3> QED
      BY <1>2, <1>6, <1>7, <2>1, <3>2 DEF Overlooked
  <2>3. CASE Rank(i) <= offset + Cardinality(p.ids)
    <3>1. Place(source, i) <= offset
      BY <1>2, <1>3, <1>4, <1>5, <1>6, <2>1, <2>3, WindowCovers
    <3> QED
      BY <1>2, <1>6, <1>7, <2>1, <3>1 DEF Overlooked
  <2> QED
    BY <1>7, <2>2, <2>3
<1>8. ASSUME inserted = {}, deleted = 0
      PROVE  /\ p.ids \cap got = {}
             /\ \A i \in p.ids, j \in source : j <= i => j \in got \cup p.ids
  <2>1. /\ always = source /\ got \subseteq source /\ offset = Cardinality(got)
        /\ \A i \in got, j \in source : j <= i => j \in got
        /\ Overlooked = {}
    BY <1>1, <1>2, <1>8, NothingOverlooked DEF Reading, Prefix
  <2>2. ASSUME NEW i \in p.ids, i \in got PROVE FALSE
    <3>1. Below(source, i) \in SUBSET got
      BY <2>1, <2>2 DEF Below
    <3>2. Place(source, i) <= offset
      BY <1>1, <2>1, <3>1, Finite, FS_Subset DEF Place
    <3> QED
      BY <1>2, <1>3, <1>4, <1>6, <2>2, <3>2 DEF Window
  <2>3. ASSUME NEW i \in p.ids, NEW j \in source, j <= i PROVE j \in got \cup p.ids
    <3>1. i \in source /\ i \in Nat /\ j \in Nat
      BY <1>3, <1>5
    <3>2. Place(source, j) <= Place(source, i)
      BY <1>5, <1>6, <2>3, <3>1, PlacesRise
    <3>3. Place(source, i) <= offset + cap
      BY <1>4 DEF Window
    <3>4. CASE Place(source, j) <= offset
      BY <1>2, <1>6, <2>1, <3>4 DEF Overlooked
    <3>5. CASE Place(source, j) > offset
      BY <1>2, <1>3, <1>4, <1>6, <3>1, <3>2, <3>3, <3>5 DEF Window
    <3> QED
      BY <1>2, <1>6, <3>4, <3>5
  <2> QED
    BY <2>2, <2>3
<1>9. Suits(p)
  BY <1>2, <1>3, <1>7, <1>8 DEF Suits
<1> QED
  BY <1>9 DEF p
-----------------------------------------------------------------------------
(***************************************************************************)
(* A page is taken.                                                        *)
(***************************************************************************)
\* What the pages hold, with page p.
With(p) == got \cup p.ids

LEMMA TakenGrows ==
    ASSUME TypeOK, NEW p \in Pages
    PROVE  /\ got \cup (p.ids \ got) = With(p) /\ With(p) \in SUBSET Ids
           /\ IsFiniteSet(With(p)) /\ IsFiniteSet(p.ids)
           /\ Cardinality(p.ids) \in Nat /\ Cardinality(With(p)) \in Nat
           /\ Cardinality(With(p)) = Cardinality(got) + Cardinality(p.ids \ got)
<1>1. IsFiniteSet(Ids)
  BY FS_Interval, RefreshAssumption DEF Ids
<1>2. With(p) \in SUBSET Ids /\ p.ids \in SUBSET Ids /\ p.ids \ got \in SUBSET Ids
  BY DEF With, Pages, TypeOK
<1>3. /\ IsFiniteSet(With(p)) /\ IsFiniteSet(p.ids) /\ IsFiniteSet(p.ids \ got)
      /\ IsFiniteSet(got) /\ Cardinality(got) \in Nat /\ Cardinality(p.ids \ got) \in Nat
  BY <1>1, <1>2, Finite, FS_Subset, FS_CardinalityType
<1>4. got \cup (p.ids \ got) = With(p) /\ got \cap (p.ids \ got) = {}
  BY DEF With
<1>5. Cardinality(With(p)) = Cardinality(got) + Cardinality(p.ids \ got) - Cardinality({})
  BY <1>3, <1>4, FS_Union
<1> QED
  BY <1>2, <1>3, <1>4, <1>5, FS_EmptySet, FS_CardinalityType

\* A last page that suits leaves nothing to miss but what was overlooked, and
\* without an edit nothing at all.
LEMMA LastLeaves ==
    ASSUME TypeOK, Reading, NEW p, Suits(p), IsLast(p)
    PROVE  /\ always \ With(p) \subseteq Overlooked
           /\ inserted = {} /\ deleted = 0 => With(p) = source
<1>1. always \ With(p) \subseteq Overlooked
  BY DEF Suits, With
<1>2. ASSUME inserted = {}, deleted = 0 PROVE With(p) = source
  <2>1. Overlooked = {} /\ always = source /\ With(p) \subseteq source
    BY <1>2, NothingOverlooked DEF Reading, Prefix, Suits, With
  <2> QED
    BY <1>1, <2>1
<1> QED
  BY <1>1, <1>2

\* The count agrees with a last page that suits unless somebody edited.
LEMMA QuietIsNotRefused ==
    ASSUME TypeOK, Reading, count # {}, NEW p, Suits(p), inserted = {}, deleted = 0
    PROVE  Judge(p, p.ids \ got) \notin {"repeated", "stalled", "mismatch"}
<1> DEFINE new == p.ids \ got
<1>1. p \in Pages /\ p.ids \cap got = {}
  BY DEF Suits
<1>2. ~(p.ids # {} /\ p.ids \in seen)
  BY <1>1 DEF Reading, Progress
<1>3. ~(p.ids # {} /\ new = {})
  BY <1>1
<1>4. ASSUME IsLast(p) PROVE CountAgrees(got \cup new)
  <2>1. got \cup new = source
    BY <1>1, <1>4, LastLeaves, TakenGrows
  <2>2. count = {Cardinality(source)}
    BY DEF Reading, Prefix
  <2> QED
    BY <2>1, <2>2 DEF CountAgrees
<1> QED
  BY <1>2, <1>3, <1>4 DEF Judge

\* A count that agrees misses nothing without an insertion, outside the gap.
LEMMA CountCatches ==
    ASSUME TypeOK, Reading, count # {}, NEW p, Suits(p),
           count = {Cardinality(With(p))}, inserted = {}, ~between
    PROVE  always \ With(p) = {}
<1>1. With(p) \subseteq Read \cup source
  BY DEF Suits, With
<1>2. Cardinality(Read \cup source) <= Cardinality(With(p))
  BY DEF Reading, Covered
<1>3. IsFiniteSet(Read \cup source) /\ Cardinality(Read \cup source) \in Nat
  BY Finite, FS_CardinalityType
<1>4. Cardinality(With(p)) \in Nat /\ Cardinality(With(p)) <= Cardinality(Read \cup source)
  BY <1>1, <1>3, FS_Subset, FS_CardinalityType
<1>5. Read \cup source = With(p)
  BY <1>1, <1>2, <1>3, <1>4, FS_Subset
<1> QED
  BY <1>5 DEF TypeOK
LEMMA TakePageKeeps ==
    ASSUME RefreshInv, Running, count # {}, first # {}, NEW p, Suits(p), TakePage(p)
    PROVE  RefreshInv'
<1> DEFINE new == p.ids \ got
<1>1. TypeOK /\ Reading /\ (between => deleted > 0)
  BY DEF RefreshInv
<1>2. /\ p \in Pages /\ Cardinality(p.ids) <= Asked
      /\ got \cup new = With(p) /\ With(p) \in SUBSET Ids
      /\ Cardinality(p.ids) \in Nat /\ Cardinality(With(p)) \in Nat
      /\ Cardinality(With(p)) = Cardinality(got) + Cardinality(new)
  BY <1>1, TakenGrows DEF Suits
<1>3. verdict' = Judge(p, new) /\ UNCHANGED <<answers, edits, cap>>
  BY DEF TakePage
<1>4. UNCHANGED <<first, count, source, always, inserted, deleted, between, cap>>
  BY <1>3 DEF answers, edits
<1>5. verdict' \in Verdicts
  BY <1>3 DEF Judge, Verdicts
<1>6. inserted = {} /\ deleted = 0 => verdict' \notin {"repeated", "stalled", "mismatch"}
  BY <1>1, <1>3, QuietIsNotRefused
<1> HIDE DEF new
<1>7. CASE verdict' \notin {"ok", "none"}
  <2>1. UNCHANGED <<got, seen, offset>>
    BY <1>7 DEF TakePage
  <2>2. TypeOK'
    BY <1>1, <1>4, <1>5, <2>1 DEF TypeOK
  <2>3. ~Running' /\ Missing' = {}
    BY <1>7 DEF Running, Missing
  <2>4. QuietIsExact' /\ MissingNeedsDeletion'
    BY <1>1, <1>4, <1>6, <1>7, <2>3, FS_EmptySet DEF QuietIsExact, MissingNeedsDeletion, TypeOK
  <2> QED
    BY <1>1, <1>4, <2>2, <2>3, <2>4 DEF RefreshInv
<1>8. CASE verdict' \in {"ok", "none"}
  <2>1. /\ got' = With(p) /\ seen' = seen \cup {p.ids}
        /\ offset' = offset + Cardinality(p.ids)
    BY <1>2, <1>8 DEF TakePage, NextOffset, new
  <2>2. /\ Cardinality(got) + Cardinality(new) <= MaxRecords
        /\ ~(p.ids # {} /\ p.ids \in seen)
        /\ IF verdict' = "ok" THEN IsLast(p) /\ CountAgrees(got \cup new)
           ELSE ~IsLast(p) /\ Cardinality(seen) + 1 # MaxPages
    BY <1>3, <1>8 DEF Judge, IsWithinRecords
  <2>3. /\ Cardinality(seen) \in Nat /\ Cardinality(seen) < MaxPages
        /\ offset <= Asked * Cardinality(seen) /\ offset \in Nat
    BY <1>1, Finite, RefreshAssumption DEF Reading, Progress, TypeOK
  <2>4. Cardinality(seen') \in {Cardinality(seen), Cardinality(seen) + 1}
    BY <1>1, <2>1, Finite, FS_AddElement
  <2>5. offset' <= Asked * Cardinality(seen')
    <3>1. CASE p.ids \in seen
      <4>1. p.ids = {} /\ seen' = seen
        BY <2>1, <2>2, <3>1
      <4>2. offset' = offset
        BY <2>1, <2>3, <4>1, FS_EmptySet
      <4> QED
        BY <2>3, <4>1, <4>2
    <3>2. CASE p.ids \notin seen
      <4>1. Cardinality(seen') = Cardinality(seen) + 1
        BY <1>1, <2>1, <3>2, Finite, FS_AddElement
      <4>2. Asked * (Cardinality(seen) + 1) = Asked * Cardinality(seen) + Asked
        BY <2>3, RefreshAssumption
      <4>3. Asked * Cardinality(seen) \in Nat
        BY <2>3, RefreshAssumption
      <4> QED
        BY <1>2, <2>1, <2>3, <4>1, <4>2, <4>3, RefreshAssumption
    <3> QED
      BY <3>1, <3>2
  <2>6. TypeOK'
    <3>1. Asked * Cardinality(seen') <= Asked * MaxPages /\ Cardinality(seen') <= MaxPages
      <4>1. \A a, b, c \in Nat : b <= c => a * b <= a * c
        OBVIOUS
      <4> QED
        BY <2>3, <2>4, <4>1, RefreshAssumption
    <3>2. offset' \in 0..(Asked * MaxPages)
      <4>1. Asked * MaxPages \in Nat /\ Asked * Cardinality(seen') \in Nat
        BY <2>3, <2>4, RefreshAssumption
      <4> QED
        BY <1>2, <2>1, <2>3, <2>5, <3>1, <4>1
    <3>3. got' \subseteq Ids /\ Cardinality(got') <= MaxRecords
      BY <1>2, <2>1, <2>2
    <3>4. seen' \subseteq SUBSET Ids
      BY <1>1, <1>2, <2>1 DEF TypeOK, Pages
    <3> QED
      BY <1>1, <1>4, <1>5, <3>1, <3>2, <3>3, <3>4 DEF TypeOK
  <2>7. CASE verdict' = "ok"
    <3>1. /\ IsLast(p) /\ count = {Cardinality(With(p))}
      BY <1>2, <2>2, <2>7 DEF CountAgrees
    <3>2. Missing' = always \ With(p) /\ ~Running'
      BY <1>4, <2>1, <2>7 DEF Missing, Running
    <3>3. Cardinality(Missing') <= deleted
      <4>1. Missing' \subseteq Overlooked
        BY <1>1, <3>1, <3>2, LastLeaves
      <4>2. Cardinality(Missing') <= Cardinality(Overlooked) /\ Cardinality(Missing') \in Nat
        BY <1>1, <4>1, Finite, FS_Subset, FS_CardinalityType
      <4> QED
        BY <1>1, <4>2, Finite DEF Reading, TypeOK
    <3>4. Missing' # {} => inserted # {} \/ between
      BY <1>1, <3>1, <3>2, CountCatches
    <3>5. inserted = {} /\ deleted = 0 => got' = source
      BY <1>1, <2>1, <3>1, LastLeaves
    <3> QED
      BY <1>1, <1>4, <2>6, <2>7, <3>2, <3>3, <3>4, <3>5
         DEF RefreshInv, QuietIsExact, MissingNeedsDeletion
  <2>8. CASE verdict' = "none"
    <3>1. p.ids # {} /\ p.ids \notin seen /\ Cardinality(seen) + 1 # MaxPages
      BY <2>2, <2>8 DEF IsLast
    <3>2. Read' = With(p) /\ Reach' = offset'
      BY <1>4, <2>1 DEF Read, Reach, Suits, With
    <3>3. Progress'
      <4>1. Cardinality(seen') < MaxPages
        BY <2>3, <2>4, <3>1, RefreshAssumption
      <4>2. \A s \in seen' : s \subseteq got'
        BY <1>1, <2>1 DEF Reading, Progress, With
      <4>3. {} \notin seen' /\ seen' # {}
        BY <1>1, <2>1, <3>1 DEF Reading, Progress
      <4> QED
        BY <1>4, <2>1, <2>5, <3>2, <4>1, <4>2, <4>3 DEF Progress
    <3>4. Cardinality(Overlooked') <= deleted'
      <4>1. \A i : Rank(i)' = Rank(i)
        BY <1>4 DEF Rank
      <4>2. Overlooked' \subseteq Overlooked
        BY <1>4, <2>1, <3>2, <4>1 DEF Overlooked, Suits, With
      <4>3. Cardinality(Overlooked') <= Cardinality(Overlooked) /\ Cardinality(Overlooked') \in Nat
        BY <1>1, <4>2, Finite, FS_Subset, FS_CardinalityType
      <4> QED
        BY <1>1, <1>4, <4>3, Finite DEF Reading, TypeOK
    <3>5. WholeFirst'
      BY <1>1, <1>4 DEF Reading, WholeFirst
    <3>6. Covered'
      <4>1. Read' \cup source \subseteq Read \cup source
        BY <3>2 DEF Suits, With
      <4>2. /\ Cardinality(Read' \cup source) <= Cardinality(Read \cup source)
            /\ Cardinality(Read' \cup source) \in Nat /\ Cardinality(Read \cup source) \in Nat
        BY <1>1, <4>1, Finite, FS_Subset, FS_CardinalityType
      <4>3. \A c \in count : c \in Nat
        BY RefreshAssumption, <1>1 DEF TypeOK
      <4> QED
        BY <1>1, <1>4, <4>2, <4>3 DEF Covered, Reading
    <3>7. Prefix'
      <4> SUFFICES ASSUME inserted = {}, deleted = 0
                   PROVE  /\ always = source
                          /\ first \subseteq {Page(0)} /\ count \subseteq {Cardinality(source)}
                          /\ Read' \subseteq source /\ Reach' = Cardinality(Read')
                          /\ \A i \in Read', j \in source : j <= i => j \in Read'
        BY <1>4 DEF Prefix, Page, Rank
      <4>1. p.ids \cap got = {} /\ p.ids \subseteq source
        BY DEF Suits
      <4>2. /\ always = source /\ first \subseteq {Page(0)} /\ count \subseteq {Cardinality(source)}
            /\ Read \subseteq source /\ Reach = Cardinality(Read)
            /\ \A i \in Read, j \in source : j <= i => j \in Read
        BY <1>1 DEF Reading, Prefix
      <4>3. With(p) \subseteq source
        BY <4>1, <4>2 DEF Suits, With, Read
      <4>4. offset = Cardinality(got)
        BY <1>1, <4>2, FS_EmptySet DEF Reading, Progress, Reach
      <4>5. Reach' = Cardinality(Read')
        <5>1. p.ids \ got = p.ids
          BY <4>1
        <5> QED
          BY <1>2, <2>1, <3>2, <4>4, <5>1 DEF new
      <4>6. ASSUME NEW i \in With(p), NEW j \in source, j <= i PROVE j \in With(p)
        <5>1. CASE i \in p.ids
          BY <4>6, <5>1 DEF Suits, With
        <5>2. CASE i \in got
          <6>1. j \in Read
            BY <4>2, <4>6, <5>2 DEF Read
          <6> QED
            BY <6>1 DEF Suits, With
        <5> QED
          BY <4>6, <5>1, <5>2 DEF With
      <4> QED
        BY <3>2, <4>2, <4>3, <4>5, <4>6
    <3>8. QuietIsExact' /\ MissingNeedsDeletion'
      <4>1. Missing' = {} /\ verdict' = "none"
        BY <2>8 DEF Missing
      <4> QED
        BY <1>1, <1>4, <4>1, FS_EmptySet DEF QuietIsExact, MissingNeedsDeletion, TypeOK
    <3> QED
      BY <1>1, <1>4, <2>6, <3>3, <3>4, <3>5, <3>6, <3>7, <3>8 DEF RefreshInv, Reading
  <2> QED
    BY <1>8, <2>7, <2>8
<1> QED
  BY <1>7, <1>8
-----------------------------------------------------------------------------
(***************************************************************************)
(* The other steps.                                                        *)
(***************************************************************************)
\* While the fetch is under way its two properties say nothing yet.
LEMMA RunningIsSafe ==
    ASSUME TypeOK', Running'
    PROVE  QuietIsExact' /\ MissingNeedsDeletion'
  BY FS_EmptySet DEF Running, QuietIsExact, MissingNeedsDeletion, Missing, TypeOK

LEMMA InsertKeeps ==
    ASSUME RefreshInv, NEW i \in Ids, Insert(i)
    PROVE  RefreshInv'
<1>1. TypeOK /\ Reading /\ (between => deleted > 0) /\ Running /\ Running'
  BY DEF RefreshInv, Insert, MayEdit, Running, progress
<1>2. /\ UNCHANGED <<first, count, got, seen, offset, verdict, cap, always, deleted, between>>
      /\ source' = source \cup {i} /\ inserted' = inserted \cup {i}
  BY DEF Insert, answers, progress
<1>3. TypeOK'
  BY <1>1, <1>2 DEF TypeOK
<1>4. Read' = Read /\ Reach' = Reach
  BY <1>2 DEF Read, Reach
<1>5. Progress' /\ WholeFirst'
  BY <1>1, <1>2, <1>4 DEF Reading, Progress, WholeFirst
<1>6. Cardinality(Overlooked') <= deleted'
  <2>1. \A j \in source : Rank(j) \in Nat /\ Rank(j)' \in Nat /\ Rank(j) <= Rank(j)'
    <3> TAKE j \in source
    <3>1. Rank(j) = Place(source, j) /\ Rank(j)' = Place(source \cup {i}, j)
      BY <1>2 DEF Rank, Place, Below
    <3>2. IsFiniteSet(source) /\ IsFiniteSet(source \cup {i})
      BY <1>1, Finite, FS_AddElement
    <3>3. Place(source, j) \in Nat /\ Place(source \cup {i}, j) \in Nat
      BY <3>2, PlaceIsNat, FS_CardinalityType
    <3>4. Place(source, j) <= Place(source \cup {i}, j)
      BY <3>2, PlacesAfterInsert
    <3> QED
      BY <3>1, <3>3, <3>4
  <2>2. Overlooked' \subseteq Overlooked
    BY <1>1, <1>2, <1>4, <2>1, Finite DEF Overlooked, TypeOK
  <2>3. Cardinality(Overlooked') <= Cardinality(Overlooked) /\ Cardinality(Overlooked') \in Nat
    BY <1>1, <2>2, Finite, FS_Subset, FS_CardinalityType
  <2> QED
    BY <1>1, <1>2, <2>3, Finite DEF Reading, TypeOK
<1>7. Covered' /\ Prefix'
  BY <1>2 DEF Covered, Prefix
<1>8. QuietIsExact' /\ MissingNeedsDeletion'
  BY <1>1, <1>3, RunningIsSafe
<1> QED
  BY <1>1, <1>2, <1>3, <1>5, <1>6, <1>7, <1>8 DEF RefreshInv, Reading

\* Only the record of the place after the last one read is pushed out of
\* sight by a deletion.
LEMMA DeleteKeeps ==
    ASSUME RefreshInv, NEW i \in Ids, Delete(i)
    PROVE  RefreshInv'
<1>1. TypeOK /\ Reading /\ (between => deleted > 0) /\ Running /\ Running'
  BY DEF RefreshInv, Delete, MayEdit, Running, progress
<1>2. /\ UNCHANGED <<first, count, got, seen, offset, verdict, cap, inserted>>
      /\ source' = source \ {i} /\ always' = always \ {i} /\ deleted' = deleted + 1
      /\ between' = (between \/ (first # {} /\ count = {}))
  BY DEF Delete, answers, progress
<1>3. TypeOK'
  <2>1. Cardinality(inserted) + deleted < MaxEdits /\ Cardinality(inserted) \in Nat
    BY <1>1, Finite DEF Delete, MayEdit
  <2>2. deleted' \in 0..MaxEdits
    BY <1>1, <1>2, <2>1, RefreshAssumption DEF TypeOK
  <2> QED
    BY <1>1, <1>2, <2>2 DEF TypeOK
<1>4. Read' = Read /\ Reach' = Reach
  BY <1>2 DEF Read, Reach
<1>5. Progress' /\ WholeFirst'
  BY <1>1, <1>2, <1>4 DEF Reading, Progress, WholeFirst
<1>6. Cardinality(Overlooked') <= deleted'
  <2>1. \A j \in source : /\ Rank(j) = Place(source, j) /\ Rank(j) \in Nat
                          /\ Rank(j)' \in Nat /\ Rank(j) <= Rank(j)' + 1
    <3> TAKE j \in source
    <3>1. Rank(j) = Place(source, j) /\ Rank(j)' = Place(source \ {i}, j)
      BY <1>2 DEF Rank, Place, Below
    <3>2. IsFiniteSet(source) /\ IsFiniteSet(source \ {i})
      BY <1>1, Finite, FS_RemoveElement
    <3>3. Place(source, j) \in Nat /\ Place(source \ {i}, j) \in Nat
      BY <3>2, PlaceIsNat, FS_CardinalityType
    <3>4. Place(source, j) <= Place(source \ {i}, j) + 1
      BY <3>2, PlacesAfterDelete
    <3> QED
      BY <3>1, <3>3, <3>4
  <2>2. \A j \in Overlooked' \ Overlooked : j \in source /\ Place(source, j) = Reach + 1
    BY <1>1, <1>2, <1>4, <2>1, Finite DEF Overlooked, TypeOK
  <2>3. \A j, k \in Overlooked' \ Overlooked : j = k
    BY <1>1, <2>2, Finite, PlacesDiffer
  <2>4. PICK x : Overlooked' \subseteq Overlooked \cup {x}
    BY <2>3
  <2>5. /\ IsFiniteSet(Overlooked \cup {x})
        /\ Cardinality(Overlooked \cup {x}) \in {Cardinality(Overlooked), Cardinality(Overlooked) + 1}
    BY <1>1, Finite, FS_AddElement
  <2>6. /\ Cardinality(Overlooked') <= Cardinality(Overlooked \cup {x})
        /\ Cardinality(Overlooked') \in Nat /\ Cardinality(Overlooked \cup {x}) \in Nat
    BY <2>4, <2>5, FS_Subset, FS_CardinalityType
  <2> QED
    BY <1>1, <1>2, <2>5, <2>6, Finite DEF Reading, TypeOK
<1>7. Covered'
  <2> SUFFICES ASSUME inserted = {}, ~between'
               PROVE  /\ count = {} => Read \subseteq source'
                      /\ \A c \in count : Cardinality(Read \cup source') <= c
    BY <1>2, <1>4 DEF Covered
  <2>1. /\ ~between /\ (count = {} => first = {})
    BY <1>1, <1>2 DEF TypeOK
  <2>2. count = {} => Read = {}
    BY <1>1, <2>1 DEF Reading, Progress, Read
  <2>3. /\ Cardinality(Read \cup source') <= Cardinality(Read \cup source)
        /\ Cardinality(Read \cup source') \in Nat /\ Cardinality(Read \cup source) \in Nat
    BY <1>1, <1>2, Finite, FS_Subset, FS_CardinalityType
  <2>4. \A c \in count : c \in Nat
    BY <1>1, RefreshAssumption DEF TypeOK
  <2>5. \A c \in count : Cardinality(Read \cup source) <= c
    BY <1>1, <2>1 DEF Reading, Covered
  <2> QED
    BY <2>2, <2>3, <2>4, <2>5
<1>8. Prefix' /\ (between' => deleted' > 0)
  <2>1. deleted' > 0
    BY <1>1, <1>2, RefreshAssumption DEF TypeOK
  <2> QED
    BY <2>1 DEF Prefix
<1>9. QuietIsExact' /\ MissingNeedsDeletion'
  BY <1>1, <1>3, RunningIsSafe
<1> QED
  BY <1>3, <1>5, <1>6, <1>7, <1>8, <1>9 DEF RefreshInv, Reading

LEMMA CountAnswersKeeps ==
    ASSUME RefreshInv, CountAnswers
    PROVE  RefreshInv'
<1>1. TypeOK /\ Reading /\ (between => deleted > 0) /\ Running /\ Running'
  BY DEF RefreshInv, CountAnswers, Running, progress
<1>2. /\ UNCHANGED <<first, got, seen, offset, verdict, source, always, inserted, deleted, between, cap>>
      /\ count = {} /\ count' = {Cardinality(source)}
  BY DEF CountAnswers, progress, edits
<1>3. Cardinality(source) \in 0..MaxId
  <2>1. IsFiniteSet(1..MaxId) /\ Cardinality(1..MaxId) = MaxId
    BY FS_Interval, RefreshAssumption
  <2>2. source \in SUBSET (1..MaxId)
    BY <1>1 DEF TypeOK, Ids
  <2>3. Cardinality(source) <= MaxId /\ Cardinality(source) \in Nat
    BY <1>1, <2>1, <2>2, FS_Subset, Finite
  <2> QED
    BY <2>3, RefreshAssumption
<1>4. TypeOK'
  <2>1. Cardinality(count') = 1 /\ count' \subseteq 0..MaxId
    BY <1>2, <1>3, FS_Singleton
  <2> QED
    BY <1>1, <1>2, <2>1 DEF TypeOK
<1>5. /\ Read' = Read /\ Reach' = Reach /\ Overlooked' = Overlooked
      /\ \A o : Page(o)' = Page(o)
  BY <1>2 DEF Read, Reach, Overlooked, Rank, Page
<1>6. Progress' /\ WholeFirst' /\ Cardinality(Overlooked') <= deleted'
  BY <1>1, <1>2, <1>5 DEF Reading, Progress, WholeFirst
<1>7. Covered'
  <2>1. ASSUME inserted = {}, ~between PROVE Read \cup source = source
    BY <1>1, <1>2, <2>1 DEF Reading, Covered
  <2> QED
    BY <1>1, <1>2, <1>5, <2>1, Finite DEF Covered
<1>8. Prefix'
  BY <1>1, <1>2, <1>5 DEF Reading, Prefix
<1>9. QuietIsExact' /\ MissingNeedsDeletion'
  BY <1>1, <1>4, RunningIsSafe
<1> QED
  BY <1>1, <1>2, <1>4, <1>6, <1>7, <1>8, <1>9 DEF RefreshInv, Reading

LEMMA FirstAnswersKeeps ==
    ASSUME RefreshInv, FirstAnswers
    PROVE  RefreshInv'
<1> DEFINE p == Page(0)
<1>1. TypeOK /\ Reading /\ (between => deleted > 0) /\ Running /\ Running'
  BY DEF RefreshInv, FirstAnswers, Running, progress
<1>2. /\ UNCHANGED <<count, got, seen, offset, verdict, source, always, inserted, deleted, between, cap>>
      /\ first = {} /\ first' = {p}
  BY DEF FirstAnswers, progress, edits
<1>3. /\ p \in Pages /\ p.ids \subseteq source
      /\ Cardinality(p.ids) \in Nat /\ Cardinality(p.ids) <= Asked /\ cap \in Nat \ {0}
  BY <1>1, PageFits
<1>4. p.ids = Window(source, 0, cap) /\ p.exceeded = (Cardinality(source) > cap)
  <2>1. Cardinality(source) \in Nat /\ 0 + cap = cap
    BY <1>1, <1>3, Finite
  <2> QED
    BY <2>1, PageIsWindow
<1>5. source \in SUBSET Nat /\ IsFiniteSet(source) /\ always \subseteq source
  BY <1>1, Finite DEF TypeOK
<1>6. \A i \in source : Rank(i) = Place(source, i) /\ Rank(i) \in Nat /\ Rank(i) >= 1
  BY <1>5, PlaceIsNat, PlacesStart, FS_CardinalityType, RankIsPlace
<1>7. Page(0)' = p /\ \A i : Rank(i)' = Rank(i)
  BY <1>2 DEF Page, Rank
<1> HIDE DEF p
<1>8. TypeOK'
  BY <1>1, <1>2, <1>3, FS_Singleton DEF TypeOK
<1>9. /\ seen = {} /\ got = {} /\ offset = 0 /\ Read = {}
      /\ Read' = p.ids /\ Reach' = Cardinality(p.ids)
  BY <1>1, <1>2 DEF Reading, Progress, Read, Reach
<1>10. Progress'
  BY <1>1, <1>2, <1>9 DEF Reading, Progress
<1>11. Overlooked' = {}
  <2>1. ASSUME NEW i \in source, Rank(i) <= Cardinality(p.ids) PROVE i \in p.ids
    <3>1. Place(source, i) <= 0 + Cardinality(Window(source, 0, cap))
      BY <1>3, <1>4, <1>6, <2>1
    <3>2. ~(Place(source, i) <= 0)
      BY <1>6
    <3> QED
      BY <1>3, <1>4, <1>5, <3>1, <3>2, WindowCovers
  <2> QED
    BY <1>2, <1>5, <1>7, <1>9, <2>1 DEF Overlooked
<1>12. Cardinality(Overlooked') <= deleted'
  BY <1>1, <1>2, <1>11, FS_EmptySet DEF TypeOK
<1>13. WholeFirst'
  <2>1. ASSUME NEW i \in source, p.ids = {} \/ ~p.exceeded PROVE i \in p.ids
    <3>1. Window(source, 0, cap) = {} \/ ~(Cardinality(source) > 0 + cap)
      <4>1. 0 + cap = cap
        BY <1>3
      <4> QED
        BY <1>4, <2>1, <4>1
    <3>2. ~(Place(source, i) <= 0)
      BY <1>6
    <3> QED
      BY <1>3, <1>4, <1>5, <3>1, <3>2, WindowEnds
  <2> QED
    BY <1>2, <1>3, <1>5, <2>1 DEF WholeFirst
<1>14. Covered'
  <2>1. Read' \cup source = source /\ Read \cup source = source
    BY <1>3, <1>9
  <2> QED
    BY <1>1, <1>2, <1>3, <1>9, <2>1 DEF Reading, Covered
<1>15. Prefix'
  <2>1. ASSUME NEW i \in p.ids, NEW j \in source, j <= i PROVE j \in p.ids
    <3>1. i \in source /\ i \in Nat /\ j \in Nat
      BY <1>3, <1>5
    <3>2. Place(source, j) <= Place(source, i)
      BY <1>5, <1>6, <2>1, <3>1, PlacesRise
    <3>3. Place(source, i) <= 0 + cap
      BY <1>4 DEF Window
    <3> QED
      BY <1>3, <1>4, <1>6, <3>1, <3>2, <3>3 DEF Window
  <2> QED
    BY <1>1, <1>2, <1>3, <1>7, <1>9, <2>1 DEF Reading, Prefix
<1>16. QuietIsExact' /\ MissingNeedsDeletion'
  BY <1>1, <1>8, RunningIsSafe
<1> QED
  BY <1>1, <1>2, <1>8, <1>10, <1>12, <1>13, <1>14, <1>15, <1>16 DEF RefreshInv, Reading

LEMMA FailKeeps == ASSUME RefreshInv, Fail PROVE RefreshInv'
<1>1. /\ UNCHANGED <<first, count, got, seen, offset, source, always, inserted, deleted, between, cap>>
      /\ verdict' = "error"
  BY DEF Fail, answers, edits
<1>2. TypeOK'
  BY <1>1 DEF RefreshInv, TypeOK, Verdicts
<1>3. QuietIsExact' /\ MissingNeedsDeletion' /\ ~Running'
  BY <1>1, FS_EmptySet
     DEF QuietIsExact, MissingNeedsDeletion, Missing, Running, RefreshInv, TypeOK
<1> QED
  BY <1>1, <1>2, <1>3 DEF RefreshInv
-----------------------------------------------------------------------------
(***************************************************************************)
(* The theorems.                                                           *)
(***************************************************************************)
LEMMA RefreshStarts == Init => RefreshInv
<1> SUFFICES ASSUME Init PROVE RefreshInv
  OBVIOUS
<1>1. Cardinality({}) = 0
  BY FS_EmptySet
<1>2. TypeOK
  <2>1. 0 \in 0..(Asked * MaxPages) /\ 0 <= MaxRecords /\ 0 <= MaxPages /\ 0 \in 0..MaxEdits
    <3>1. Asked * MaxPages \in Nat
      BY RefreshAssumption
    <3> QED
      BY <3>1, RefreshAssumption
  <2>2. source \subseteq Ids /\ always \subseteq source /\ cap \in 1..Asked
    BY DEF Init
  <2>3. /\ first = {} /\ count = {} /\ got = {} /\ seen = {} /\ inserted = {}
        /\ offset = 0 /\ deleted = 0 /\ between = FALSE /\ verdict \in Verdicts
    BY DEF Init, Verdicts
  <2>4. /\ first \subseteq Pages /\ Cardinality(first) <= 1
        /\ count \subseteq 0..MaxId /\ Cardinality(count) <= 1
        /\ got \subseteq Ids /\ Cardinality(got) <= MaxRecords
        /\ seen \subseteq SUBSET Ids /\ Cardinality(seen) <= MaxPages
        /\ inserted \subseteq Ids
    BY <1>1, <2>1, <2>3
  <2>5. offset \in 0..(Asked * MaxPages) /\ deleted \in 0..MaxEdits /\ between \in BOOLEAN
    BY <2>1, <2>3
  <2> QED
    BY <2>2, <2>3, <2>4, <2>5 DEF TypeOK
<1>3. Read = {} /\ Reach = 0
  BY <1>1 DEF Init, Read, Reach
<1>4. Overlooked = {}
  <2>1. \A i \in source : Place(source, i) \in Nat /\ Place(source, i) >= 1
    BY <1>2, Finite, PlaceIsNat, PlacesStart, FS_CardinalityType
  <2> QED
    BY <1>2, <1>3, <2>1, RankIsPlace DEF Overlooked, TypeOK
<1>5. Progress
  BY <1>1, <1>3, RefreshAssumption DEF Init, Progress
<1>6. WholeFirst /\ Covered /\ Prefix
  BY <1>1, <1>3 DEF Init, WholeFirst, Covered, Prefix
<1>7. QuietIsExact /\ MissingNeedsDeletion
  BY <1>1 DEF Init, QuietIsExact, MissingNeedsDeletion, Missing
<1> QED
  BY <1>1, <1>2, <1>4, <1>5, <1>6, <1>7 DEF Init, RefreshInv, Reading

\* A step takes the first page, a further page, or none.
LEMMA RefreshSteps == RefreshInv /\ [Next]_vars => RefreshInv'
<1> SUFFICES ASSUME RefreshInv, [Next]_vars PROVE RefreshInv'
  OBVIOUS
<1>1. CASE \E i \in Ids : Insert(i) \/ Delete(i)
  BY <1>1, InsertKeeps, DeleteKeeps
<1>2. CASE CountAnswers
  BY <1>2, CountAnswersKeeps
<1>3. CASE FirstAnswers
  BY <1>3, FirstAnswersKeeps
<1>4. CASE TakeFirst
  <2>1. Running /\ count # {} /\ seen = {}
    BY <1>4 DEF TakeFirst
  <2>2. PICK p \in first : TakePage(p)
    BY <1>4 DEF TakeFirst
  <2> QED
    BY <2>1, <2>2, FirstSuits, TakePageKeeps
<1>5. CASE NextPage
  <2>1. Running /\ seen # {} /\ TakePage(Page(offset))
    BY <1>5 DEF NextPage
  <2>2. count # {} /\ first # {}
    BY <2>1 DEF RefreshInv, Reading, Progress
  <2> QED
    BY <2>1, <2>2, NextSuits, TakePageKeeps
<1>6. CASE Fail
  BY <1>6, FailKeeps
<1>7. CASE UNCHANGED vars
  <2>1. UNCHANGED <<first, count, got, seen, offset, verdict, source, always, inserted, deleted,
                    between, cap>>
    BY <1>7 DEF vars, answers, progress, edits
  <2>2. TypeOK' /\ (Running' <=> Running) /\ (between' => deleted' > 0)
    BY <2>1 DEF RefreshInv, TypeOK, Running
  <2>3. Read' = Read /\ Reach' = Reach /\ Overlooked' = Overlooked /\ Page(0)' = Page(0)
    BY <2>1 DEF Read, Reach, Overlooked, Page, Rank
  <2>4. Reading => Reading'
    BY <2>1, <2>3 DEF Reading, Progress, WholeFirst, Covered, Prefix
  <2>5. QuietIsExact' /\ MissingNeedsDeletion'
    BY <2>1 DEF RefreshInv, QuietIsExact, MissingNeedsDeletion, Missing
  <2> QED
    BY <2>2, <2>4, <2>5 DEF RefreshInv
<1> QED
  BY <1>1, <1>2, <1>3, <1>4, <1>5, <1>6, <1>7 DEF Next

\* The invariant that _refresh keeps while it reads a source under edit.
THEOREM RefreshInvariance == Spec => []RefreshInv
  BY RefreshStarts, RefreshSteps, PTL DEF Spec

\* Every state of a fetch is well typed: what it gathered, the pages it saw
\* and its offset stay within the limits of records and of pages.
THEOREM RefreshTypes == Spec => []TypeOK
<1>1. RefreshInv => TypeOK
  BY DEF RefreshInv
<1> QED
  BY <1>1, RefreshInvariance, PTL

\* A source that nobody edits is read exactly, however small its pages are.
THEOREM QuietSourceIsExact == Spec => []QuietIsExact
<1>1. RefreshInv => QuietIsExact
  BY DEF RefreshInv
<1> QED
  BY <1>1, RefreshInvariance, PTL

\* A record that lasted is missed only for a deletion, at most one for each,
\* and the count catches it unless an insertion made up for it or the
\* deletion came in the gap between the first page and the count.
THEOREM MissingCostsDeletion == Spec => []MissingNeedsDeletion
<1>1. RefreshInv => MissingNeedsDeletion
  BY DEF RefreshInv
<1> QED
  BY <1>1, RefreshInvariance, PTL
=============================================================================
