------------------------- MODULE IndexBuild_proofs --------------------------
(***************************************************************************)
(* Proofs about IndexBuild, for any corpora, any number of builders and    *)
(* builds, and deaths anywhere.                                            *)
(***************************************************************************)
EXTENDS IndexBuild, TLAPS

Locked == {"embedding", "matrix", "cached", "hashed"}
Loading == {"chunks", "manifest", "corpus", "matrix"}

\* What a chunk or a vector is does not matter here, only which fields the
\* records have.
IsManifest(m) == m = [corpus |-> m.corpus, matrix |-> m.matrix, ids |-> m.ids, crossed |-> m.crossed]

IsBuilder(r) ==
    /\ r = [at |-> r.at, count |-> r.count, chunks |-> r.chunks, vectors |-> r.vectors,
            manifest |-> r.manifest, crossed |-> r.crossed]
    /\ IsManifest(r.manifest) /\ r.crossed \in BOOLEAN
    /\ r.at \in Locked \cup {"idle", "counted", "read"}

IsServer(r) ==
    /\ r = [at |-> r.at, count |-> r.count, chunks |-> r.chunks, manifest |-> r.manifest,
            matrix |-> r.matrix, crossed |-> r.crossed]
    /\ IsManifest(r.manifest) /\ r.crossed \in BOOLEAN
    /\ r.at \in Loading \cup {"down", "counted", "serving"}

Shapes ==
    /\ builder = [b \in Builders |-> builder[b]]
    /\ \A b \in Builders : IsBuilder(builder[b])
    /\ IsServer(server) /\ IsManifest(manifest)

\* The lock is held by exactly the builder that is past it.
Exclusive == \A b \in Builders : builder[b].at \in Locked <=> lock = b

TextSet(vectors) == {v.text : v \in vectors}
OnePerText(vectors) == \A v, w \in vectors : v.text = w.text => v = w

\* What a builder has read and written still is what it will say it is.
Building(b) ==
    LET r == builder[b] IN
    /\ r.at \notin {"idle", "counted"} /\ ~r.crossed => r.chunks = corpus
    /\ r.at \in Locked => kept \subseteq TextSet(r.vectors) /\ OnePerText(r.vectors)
    /\ r.at \in {"matrix", "cached", "hashed"} => TextsOf(matrix) = TextsOf(r.chunks)
    /\ r.at = "hashed" =>
          /\ r.manifest.matrix = matrix /\ r.manifest.ids = IdsOf(r.chunks)
          /\ ~r.crossed => r.manifest.corpus = r.chunks

\* A manifest whose build nothing crossed is of one piece.
OfOnePiece(m) == ~m.crossed => TextsOf(m.matrix) = TextsOf(m.corpus)

\* As long as nothing crosses it, a load compares what is on disk.
Serving ==
    /\ OfOnePiece(server.manifest)
    /\ ~server.crossed =>
          /\ server.at \in Loading => server.chunks = corpus
          /\ server.at \in {"corpus", "matrix"} => server.manifest.corpus = corpus
          /\ server.at = "matrix" => server.manifest.matrix = matrix

IInv ==
    /\ Shapes /\ Exclusive
    /\ \A b \in Builders : Building(b)
    /\ OfOnePiece(manifest) /\ Serving
    /\ MixedNeedsOverlap /\ BuiltIsLoadable /\ NothingPaidTwice
-----------------------------------------------------------------------------
(***************************************************************************)
(* Records changed in one field, and functions changed at one builder.     *)
(***************************************************************************)
LEMMA BuilderExcept ==
    ASSUME NEW r, IsBuilder(r), NEW v
    PROVE  /\ [r EXCEPT !.at = v] = [at |-> v, count |-> r.count, chunks |-> r.chunks,
                                     vectors |-> r.vectors, manifest |-> r.manifest,
                                     crossed |-> r.crossed]
           /\ [r EXCEPT !.vectors = v] = [at |-> r.at, count |-> r.count,
                                          chunks |-> r.chunks, vectors |-> v,
                                          manifest |-> r.manifest,
                                          crossed |-> r.crossed]
           /\ [r EXCEPT !.crossed = v] = [at |-> r.at, count |-> r.count,
                                          chunks |-> r.chunks, vectors |-> r.vectors,
                                          manifest |-> r.manifest, crossed |-> v]
BY DEF IsBuilder

LEMMA BuilderExceptTwo ==
    ASSUME NEW r, IsBuilder(r), NEW v, NEW w
    PROVE  /\ [r EXCEPT !.at = v, !.vectors = w] =
                  [at |-> v, count |-> r.count, chunks |-> r.chunks, vectors |-> w,
                   manifest |-> r.manifest, crossed |-> r.crossed]
           /\ [r EXCEPT !.at = v, !.manifest = w] =
                  [at |-> v, count |-> r.count, chunks |-> r.chunks,
                   vectors |-> r.vectors, manifest |-> w, crossed |-> r.crossed]
           /\ [r EXCEPT !.at = v, !.count = w] =
                  [at |-> v, count |-> w, chunks |-> r.chunks, vectors |-> r.vectors,
                   manifest |-> r.manifest, crossed |-> r.crossed]
           /\ [r EXCEPT !.at = v, !.chunks = w] =
                  [at |-> v, count |-> r.count, chunks |-> w, vectors |-> r.vectors,
                   manifest |-> r.manifest, crossed |-> r.crossed]
<1> DEFINE s == [r EXCEPT !.at = v]
<1>1. s = [at |-> v, count |-> r.count, chunks |-> r.chunks, vectors |-> r.vectors,
           manifest |-> r.manifest, crossed |-> r.crossed]
    BY BuilderExcept
<1>2. /\ [r EXCEPT !.at = v, !.vectors = w] = [s EXCEPT !.vectors = w]
      /\ [r EXCEPT !.at = v, !.manifest = w] = [s EXCEPT !.manifest = w]
      /\ [r EXCEPT !.at = v, !.chunks = w] = [s EXCEPT !.chunks = w]
      /\ [r EXCEPT !.at = v, !.count = w] = [s EXCEPT !.count = w]
    BY <1>1 DEF IsBuilder
<1> HIDE DEF s
<1> QED BY <1>1, <1>2

LEMMA ServerExcept ==
    ASSUME NEW r, IsServer(r), NEW v
    PROVE  /\ [r EXCEPT !.at = v] =
                  [at |-> v, count |-> r.count, chunks |-> r.chunks,
                   manifest |-> r.manifest, matrix |-> r.matrix, crossed |-> r.crossed]
           /\ [r EXCEPT !.crossed = v] =
                  [at |-> r.at, count |-> r.count, chunks |-> r.chunks,
                   manifest |-> r.manifest, matrix |-> r.matrix, crossed |-> v]
BY DEF IsServer

LEMMA ServerExceptTwo ==
    ASSUME NEW r, IsServer(r), NEW v, NEW w
    PROVE  /\ [r EXCEPT !.at = v, !.chunks = w] =
                  [at |-> v, count |-> r.count, chunks |-> w, manifest |-> r.manifest,
                   matrix |-> r.matrix, crossed |-> r.crossed]
           /\ [r EXCEPT !.at = v, !.manifest = w] =
                  [at |-> v, count |-> r.count, chunks |-> r.chunks, manifest |-> w,
                   matrix |-> r.matrix, crossed |-> r.crossed]
           /\ [r EXCEPT !.at = v, !.matrix = w] =
                  [at |-> v, count |-> r.count, chunks |-> r.chunks,
                   manifest |-> r.manifest, matrix |-> w, crossed |-> r.crossed]
           /\ [r EXCEPT !.at = v, !.count = w] =
                  [at |-> v, count |-> w, chunks |-> r.chunks,
                   manifest |-> r.manifest, matrix |-> r.matrix, crossed |-> r.crossed]
<1> DEFINE s == [r EXCEPT !.at = v]
<1>1. s = [at |-> v, count |-> r.count, chunks |-> r.chunks, manifest |-> r.manifest,
           matrix |-> r.matrix, crossed |-> r.crossed]
    BY ServerExcept
<1>2. /\ [r EXCEPT !.at = v, !.chunks = w] = [s EXCEPT !.chunks = w]
      /\ [r EXCEPT !.at = v, !.manifest = w] = [s EXCEPT !.manifest = w]
      /\ [r EXCEPT !.at = v, !.matrix = w] = [s EXCEPT !.matrix = w]
      /\ [r EXCEPT !.at = v, !.count = w] = [s EXCEPT !.count = w]
    BY <1>1 DEF IsServer
<1> HIDE DEF s
<1> QED BY <1>1, <1>2

\* Records written with all their fields have the shape.
LEMMA BuilderShape ==
    ASSUME NEW a \in Locked \cup {"idle", "counted", "read"}, NEW c \in BOOLEAN, NEW n,
           NEW chunks, NEW vectors, NEW m, IsManifest(m)
    PROVE  IsBuilder([at |-> a, count |-> n, chunks |-> chunks, vectors |-> vectors,
                      manifest |-> m, crossed |-> c])
BY DEF IsBuilder

LEMMA ServerShape ==
    ASSUME NEW a \in Loading \cup {"down", "counted", "serving"}, NEW c \in BOOLEAN, NEW n,
           NEW chunks, NEW rows, NEW m, IsManifest(m)
    PROVE  IsServer([at |-> a, count |-> n, chunks |-> chunks, manifest |-> m,
                     matrix |-> rows, crossed |-> c])
BY DEF IsServer

LEMMA BecomesOne ==
    ASSUME Shapes, NEW b \in Builders, NEW r, Becomes(b, r)
    PROVE  /\ builder' = [c \in Builders |-> builder'[c]]
           /\ builder'[b] = r
           /\ \A c \in Builders \ {b} : builder'[c] = builder[c]
BY DEF Shapes, Becomes

\* Only one builder is past the lock.
LEMMA OneLocked ==
    ASSUME Exclusive, NEW b \in Builders, NEW c \in Builders,
           builder[b].at \in Locked, builder[c].at \in Locked
    PROVE  b = c
BY DEF Exclusive
-----------------------------------------------------------------------------
\* With a corpus and no index yet, nobody under way, the invariant holds.
THEOREM Initial == Init => IInv
<1> SUFFICES ASSUME Init PROVE IInv
    OBVIOUS
<1>1. Shapes
    BY DEF Init, Shapes, IsBuilder, IsServer, IsManifest, NotBuilding, NotServing,
           NoManifest, Locked, Loading
<1>2. Exclusive
    BY IndexAssumption DEF Init, Exclusive, NotBuilding, Locked, Free
<1>3. \A b \in Builders : Building(b)
    BY DEF Init, Building, NotBuilding, Locked
<1>4. OfOnePiece(NoManifest)
    BY DEF OfOnePiece, NoManifest, TextsOf
<1>5. OfOnePiece(manifest) /\ Serving
    BY <1>4 DEF Init, Serving, NotServing, Loading
<1>6. MixedNeedsOverlap /\ BuiltIsLoadable /\ NothingPaidTwice
    BY DEF Init, MixedNeedsOverlap, Mixed, BuiltIsLoadable, NothingPaidTwice, NotServing
<1> QED BY <1>1, <1>2, <1>3, <1>5, <1>6 DEF IInv
-----------------------------------------------------------------------------
(***************************************************************************)
(* The publisher.  Whatever is written, a corpus that moves crosses every  *)
(* build and every load under way.                                         *)
(***************************************************************************)
LEMMA CorpusMoved ==
    ASSUME IInv, CorpusMoves, UNCHANGED <<matrix, cache, manifest, lock, kept>>
    PROVE  IInv'
<1> USE DEF IInv
<1>1. ASSUME NEW b \in Builders
      PROVE  /\ builder'[b].at = builder[b].at /\ builder'[b].chunks = builder[b].chunks
             /\ builder'[b].vectors = builder[b].vectors
             /\ builder'[b].manifest = builder[b].manifest
             /\ builder'[b].crossed = (builder[b].at \notin {"idle", "counted"})
             /\ IsBuilder(builder'[b])
    <2> DEFINE c == builder[b].at \notin {"idle", "counted"}
    <2>1. builder'[b] = [builder[b] EXCEPT !.crossed = c]
        BY DEF CorpusMoves
    <2>2. IsBuilder(builder[b]) /\ c \in BOOLEAN
        BY DEF Shapes
    <2> HIDE DEF c
    <2>3. builder'[b] = [at |-> builder[b].at, count |-> builder[b].count,
                         chunks |-> builder[b].chunks, vectors |-> builder[b].vectors,
                         manifest |-> builder[b].manifest, crossed |-> c]
        BY <2>1, <2>2, BuilderExcept
    <2>4. IsBuilder(builder'[b])
        BY <2>2, <2>3, BuilderShape DEF IsBuilder
    <2>5. builder'[b].crossed = c
        BY <2>3
    <2> QED BY <2>3, <2>4, <2>5 DEF c
<1> DEFINE moved == server.crossed \/ server.at \notin {"down", "serving"}
<1>3. server' = [at |-> server.at, count |-> server.count, chunks |-> server.chunks,
                 manifest |-> server.manifest, matrix |-> server.matrix, crossed |-> moved]
    BY ServerExcept DEF CorpusMoves, Shapes, IsServer
<1>4. Shapes'
    <2>1. builder' = [b \in Builders |-> builder'[b]]
        BY DEF CorpusMoves
    <2>3. \A b \in Builders : IsBuilder(builder'[b])
        BY <1>1
    <2>4. IsServer(server)
        BY DEF Shapes
    <2>5. IsServer(server')
        BY <1>3, <2>4, ServerShape DEF IsServer
    <2> QED BY <2>1, <2>3, <2>5 DEF Shapes
<1>5. Exclusive'
    <2>1. \A b \in Builders : builder'[b].at = builder[b].at
        BY <1>1
    <2> QED BY <2>1 DEF Exclusive
<1>6. (\A b \in Builders : Building(b))'
    <2> SUFFICES ASSUME NEW b \in Builders PROVE Building(b)'
        OBVIOUS
    <2>2. Building(b)
        OBVIOUS
    <2> QED BY <1>1, <2>2 DEF Building, Locked
<1>7. OfOnePiece(manifest') /\ OfOnePiece(server'.manifest)
    BY <1>3 DEF Serving
<1>8. Serving'
    BY <1>3, <1>7 DEF Serving, Loading
<1>9. MixedNeedsOverlap'
    BY <1>3 DEF MixedNeedsOverlap, Mixed
<1>10. BuiltIsLoadable' /\ NothingPaidTwice'
    BY DEF BuiltIsLoadable, NothingPaidTwice, CorpusMoves
<1> QED BY <1>4, <1>5, <1>6, <1>7, <1>8, <1>9, <1>10

LEMMA Publishing ==
    ASSUME IInv, OpenCorpus \/ CloseCorpus \/ WriteCorpusManifest
    PROVE  IInv'
BY CorpusMoved DEF OpenCorpus, CloseCorpus, WriteCorpusManifest

\* Nothing of the invariant is about the publisher, the count and the bounds.
LEMMA Elsewhere ==
    ASSUME IInv,
           UNCHANGED <<corpus, matrix, cache, manifest, lock, builder, server, fresh, kept>>
    PROVE  IInv'
BY DEF IInv, Shapes, Exclusive, Building, Serving, MixedNeedsOverlap, Mixed,
       BuiltIsLoadable, NothingPaidTwice

LEMMA PublisherDying == ASSUME IInv, PublisherDies PROVE IInv'
BY Elsewhere DEF PublisherDies, files
-----------------------------------------------------------------------------
(***************************************************************************)
(* A builder whose step writes no file: what it says of itself is all that *)
(* has to be shown.  Its step to or from the lock is the one that changes  *)
(* the lock.                                                               *)
(***************************************************************************)
LEMMA BuilderAlone ==
    ASSUME IInv, NEW b \in Builders, NEW r, IsBuilder(r), Becomes(b, r),
           UNCHANGED <<corpus, matrix, cache, manifest, server, fresh, kept>>,
           Building(b)',
           \/ r.at \in Locked /\ lock' = b /\ lock \in {Free, b}
           \/ r.at \notin Locked /\ lock' = Unlocked(b)
    PROVE  IInv'
<1> USE DEF IInv
<1>1. /\ builder' = [c \in Builders |-> builder'[c]] /\ builder'[b] = r
      /\ \A c \in Builders \ {b} : builder'[c] = builder[c]
    BY BecomesOne
<1>2. Shapes'
    BY <1>1 DEF Shapes
<1>3. Exclusive'
    BY <1>1, IndexAssumption DEF Exclusive, Unlocked
<1>4. (\A c \in Builders : Building(c))'
    <2>1. ASSUME NEW c \in Builders, c # b PROVE Building(c)'
        BY <1>1, <2>1 DEF Building
    <2> QED BY <2>1
<1> QED BY <1>2, <1>3, <1>4
        DEF Serving, MixedNeedsOverlap, Mixed, BuiltIsLoadable, NothingPaidTwice

LEMMA Idle == IsBuilder(NotBuilding) /\ NotBuilding.at = "idle" /\ NotBuilding.crossed = FALSE
BY DEF NotBuilding, NoManifest, IsBuilder, IsManifest

LEMMA Idling ==
    ASSUME IInv, NEW b \in Builders, Becomes(b, NotBuilding), lock' = Unlocked(b),
           UNCHANGED <<files, server, fresh, kept>>
    PROVE  IInv'
<1>1. builder'[b] = NotBuilding
    BY BecomesOne DEF IInv
<1>2. Building(b)'
    BY <1>1, Idle DEF Building, Locked
<1> QED BY <1>2, Idle, BuilderAlone DEF files, Locked

LEMMA Counting == ASSUME IInv, NEW b \in Builders, ReadCorpusManifest(b) PROVE IInv'
<1> DEFINE r == [NotBuilding EXCEPT !.at = "counted", !.count = count]
<1>1. r = [at |-> "counted", count |-> count, chunks |-> NotBuilding.chunks,
           vectors |-> NotBuilding.vectors, manifest |-> NotBuilding.manifest,
           crossed |-> NotBuilding.crossed]
    BY Idle, BuilderExceptTwo
<1>2. IsManifest(NotBuilding.manifest) /\ NotBuilding.crossed \in BOOLEAN
    BY Idle DEF IsBuilder
<1> HIDE DEF r
<1>3. IsBuilder(r)
    BY <1>1, <1>2, BuilderShape DEF Locked
<1>4. Becomes(b, r) /\ UNCHANGED <<files, lock, server, fresh, kept>>
    BY DEF ReadCorpusManifest, r
<1>5. builder'[b] = r
    BY <1>4, BecomesOne DEF IInv
<1>6. Building(b)'
    BY <1>1, <1>5 DEF Building, Locked
<1>7. Unlocked(b) = lock
    BY DEF ReadCorpusManifest, AtStep, Unlocked, IInv, Exclusive, Locked
<1> QED BY <1>1, <1>3, <1>4, <1>6, <1>7, BuilderAlone DEF files, Locked

LEMMA Reading == ASSUME IInv, NEW b \in Builders, ReadCorpus(b) PROVE IInv'
<1> DEFINE r == [NotBuilding EXCEPT !.at = "read", !.chunks = corpus]
<1>0. UNCHANGED <<files, lock, server, fresh, kept>> /\ Unlocked(b) = lock
    BY DEF ReadCorpus, AtStep, Unlocked, IInv, Exclusive, Locked
<1>1. CASE Agrees(builder[b].count)
    <2>1. r = [at |-> "read", count |-> NotBuilding.count, chunks |-> corpus,
               vectors |-> NotBuilding.vectors, manifest |-> NotBuilding.manifest,
               crossed |-> NotBuilding.crossed]
        BY Idle, BuilderExceptTwo
    <2>2. IsManifest(NotBuilding.manifest) /\ NotBuilding.crossed \in BOOLEAN
        BY Idle DEF IsBuilder
    <2> HIDE DEF r
    <2>3. IsBuilder(r)
        BY <2>1, <2>2, BuilderShape DEF Locked
    <2>4. Becomes(b, r)
        BY <1>1 DEF ReadCorpus, r
    <2>5. builder'[b] = r
        BY <2>4, BecomesOne DEF IInv
    <2>6. Building(b)'
        BY <1>0, <2>1, <2>5 DEF Building, Locked, files
    <2> QED BY <1>0, <2>1, <2>3, <2>4, <2>6, BuilderAlone DEF files, Locked
<1>2. CASE ~Agrees(builder[b].count)
    BY <1>0, <1>2, Idling DEF ReadCorpus
<1> QED BY <1>1, <1>2

LEMMA Dying == ASSUME IInv, NEW b \in Builders, BuilderDies(b) PROVE IInv'
BY Idling DEF BuilderDies

LEMMA Locking == ASSUME IInv, NEW b \in Builders, Lock(b) PROVE IInv'
<1>1. CASE ~LockIsFree
    <2>1. Unlocked(b) = lock
        BY DEF Lock, AtStep, Unlocked, IInv, Exclusive, Locked
    <2> QED BY <1>1, <2>1, Idling DEF Lock
<1>2. CASE LockIsFree
    <2> DEFINE r == [builder[b] EXCEPT !.at = "embedding", !.vectors = cache]
    <2>1. IsBuilder(builder[b]) /\ builder[b].at = "read"
        BY DEF IInv, Shapes, Lock, AtStep
    <2>2. r = [at |-> "embedding", count |-> builder[b].count,
               chunks |-> builder[b].chunks, vectors |-> cache,
               manifest |-> builder[b].manifest, crossed |-> builder[b].crossed]
        BY <2>1, BuilderExceptTwo
    <2>3. IsBuilder(r)
        BY <2>1, <2>2, BuilderShape DEF IsBuilder, Locked
    <2> HIDE DEF r
    <2>4. /\ Becomes(b, r) /\ lock' = b /\ lock = Free
          /\ UNCHANGED <<files, server, fresh, kept>>
        BY <1>2 DEF Lock, LockIsFree, r
    <2>5. builder'[b] = r
        BY <2>4, BecomesOne DEF IInv
    <2>6. Building(b) /\ NothingPaidTwice
        BY DEF IInv
    <2>7. Building(b)'
        BY <2>1, <2>2, <2>4, <2>5, <2>6
           DEF Building, Locked, files, NothingPaidTwice, TextSet, OnePerText
    <2> QED BY <2>2, <2>3, <2>4, <2>7, BuilderAlone DEF files, Locked
<1> QED BY <1>1, <1>2

LEMMA Embedding == ASSUME IInv, NEW b \in Builders, EmbedBatch(b) PROVE IInv'
<1>1. IsBuilder(builder[b]) /\ builder[b].at = "embedding" /\ Building(b) /\ lock = b
    BY DEF IInv, Shapes, EmbedBatch, AtStep, Exclusive, Locked
<1>2. PICK t \in Misses(b) :
         Becomes(b, [builder[b] EXCEPT !.vectors = @ \cup {[text |-> t, by |-> b]}])
    BY DEF EmbedBatch
<1> DEFINE v == builder[b].vectors \cup {[text |-> t, by |-> b]}
           r == [builder[b] EXCEPT !.vectors = v]
<1>3. r = [at |-> "embedding", count |-> builder[b].count, chunks |-> builder[b].chunks,
           vectors |-> v, manifest |-> builder[b].manifest,
           crossed |-> builder[b].crossed]
    BY <1>1, BuilderExcept
<1>4. kept \subseteq TextSet(v) /\ OnePerText(v)
    BY <1>1, <1>2 DEF Building, Locked, TextSet, OnePerText, Misses
<1>5. Becomes(b, r)
    BY <1>2
<1>6. IsBuilder(r)
    BY <1>1, <1>3, BuilderShape DEF IsBuilder, Locked
<1> HIDE DEF r, v
<1>7. builder'[b] = r
    BY <1>5, BecomesOne DEF IInv
<1>8. UNCHANGED <<files, lock, server, fresh, kept>>
    BY DEF EmbedBatch
<1>9. Building(b)'
    BY <1>1, <1>3, <1>4, <1>7, <1>8 DEF Building, Locked, files
<1> QED BY <1>1, <1>3, <1>5, <1>6, <1>8, <1>9, BuilderAlone DEF files, Locked

LEMMA Hashing == ASSUME IInv, NEW b \in Builders, HashFiles(b) PROVE IInv'
<1> DEFINE m == [corpus |-> corpus, matrix |-> matrix, ids |-> IdsOf(builder[b].chunks),
                 crossed |-> FALSE]
           r == [builder[b] EXCEPT !.at = "hashed", !.manifest = m]
<1>1. IsBuilder(builder[b]) /\ builder[b].at = "cached" /\ Building(b) /\ lock = b
    BY DEF IInv, Shapes, HashFiles, AtStep, Exclusive, Locked
<1>2. r = [at |-> "hashed", count |-> builder[b].count, chunks |-> builder[b].chunks,
           vectors |-> builder[b].vectors, manifest |-> m,
           crossed |-> builder[b].crossed]
    <2> HIDE DEF m
    <2> QED BY <1>1, BuilderExceptTwo
<1>3. IsManifest(m) /\ m.corpus = corpus /\ m.matrix = matrix
      /\ m.ids = IdsOf(builder[b].chunks)
    BY DEF IsManifest
<1>4. Becomes(b, r) /\ UNCHANGED <<files, lock, server, fresh, kept>>
    BY DEF HashFiles
<1> HIDE DEF m
<1>5. IsBuilder(r)
    BY <1>1, <1>2, <1>3, BuilderShape DEF IsBuilder, Locked
<1> HIDE DEF r
<1>6. builder'[b] = r
    BY <1>4, BecomesOne DEF IInv
<1>7. Building(b)'
    BY <1>1, <1>2, <1>3, <1>4, <1>6 DEF Building, Locked, files
<1> QED BY <1>1, <1>2, <1>4, <1>5, <1>7, BuilderAlone DEF files, Locked
-----------------------------------------------------------------------------
(***************************************************************************)
(* The steps of a builder that write a file.  It holds the lock, so no     *)
(* other builder has anything to say about the files.                      *)
(***************************************************************************)
LEMMA OthersOutside ==
    ASSUME IInv, NEW b \in Builders, NEW c \in Builders \ {b}, builder[b].at \in Locked
    PROVE  builder[c].at \notin Locked
BY OneLocked DEF IInv

\* The step to "matrix" or "cached", which the lock and the corpus do not see.
LEMMA StepsOn ==
    ASSUME IInv, NEW b \in Builders, NEW step \in Locked, builder[b].at \in Locked,
           Becomes(b, [builder[b] EXCEPT !.at = step]), UNCHANGED <<corpus, lock>>
    PROVE  /\ builder' = [c \in Builders |-> builder'[c]]
           /\ \A c \in Builders : IsBuilder(builder'[c])
           /\ builder'[b] = [at |-> step, count |-> builder[b].count,
                             chunks |-> builder[b].chunks,
                             vectors |-> builder[b].vectors,
                             manifest |-> builder[b].manifest,
                             crossed |-> builder[b].crossed]
           /\ \A c \in Builders \ {b} : builder'[c] = builder[c] /\ Building(c)'
           /\ Exclusive'
<1> DEFINE r == [builder[b] EXCEPT !.at = step]
<1>1. IsBuilder(builder[b])
    BY DEF IInv, Shapes
<1>2. r = [at |-> step, count |-> builder[b].count, chunks |-> builder[b].chunks,
           vectors |-> builder[b].vectors, manifest |-> builder[b].manifest,
           crossed |-> builder[b].crossed]
    BY <1>1, BuilderExcept
<1> HIDE DEF r
<1>3. IsBuilder(r)
    BY <1>1, <1>2, BuilderShape DEF IsBuilder
<1>4. Becomes(b, r)
    BY DEF r
<1>5. /\ builder' = [c \in Builders |-> builder'[c]] /\ builder'[b] = r
      /\ \A c \in Builders \ {b} : builder'[c] = builder[c]
    BY <1>4, BecomesOne DEF IInv
<1>6. \A c \in Builders : IsBuilder(builder'[c])
    BY <1>3, <1>5 DEF IInv, Shapes
<1>7. ASSUME NEW c \in Builders \ {b} PROVE Building(c)'
    <2>1. Building(c) /\ builder[c].at \notin Locked
        BY OthersOutside DEF IInv
    <2> QED BY <1>5, <2>1 DEF Building, Locked
<1>8. Exclusive'
    BY <1>2, <1>5 DEF IInv, Exclusive
<1> QED BY <1>2, <1>5, <1>6, <1>7, <1>8

LEMMA TextsOfRows ==
    ASSUME NEW b \in Builders, Misses(b) = {}
    PROVE  TextsOf(Rows(b)) = TextsOf(builder[b].chunks)
<1> DEFINE chunks == builder[b].chunks
           vectors == builder[b].vectors
<1>1. ASSUME NEW i \in DOMAIN chunks PROVE Rows(b)[i].text = chunks[i].text
    <2>1. \E v \in vectors : v.text = chunks[i].text
        BY DEF Misses
    <2>2. Rows(b)[i] = CHOOSE v \in vectors : v.text = chunks[i].text
        BY DEF Rows
    <2> QED BY <2>1, <2>2
<1>2. DOMAIN Rows(b) = DOMAIN chunks
    BY DEF Rows
<1> QED BY <1>1, <1>2 DEF TextsOf

LEMMA WritingMatrix == ASSUME IInv, NEW b \in Builders, WriteMatrix(b) PROVE IInv'
<1> USE DEF IInv
<1>1. builder[b].at = "embedding" /\ Building(b) /\ "matrix" \in Locked
    BY DEF WriteMatrix, AtStep, Locked
<1>2. /\ matrix' = Rows(b) /\ Becomes(b, [builder[b] EXCEPT !.at = "matrix"]) /\ ~fresh'
      /\ UNCHANGED <<corpus, cache, manifest, lock, kept>>
    BY DEF WriteMatrix
<1>3. /\ builder' = [c \in Builders |-> builder'[c]]
      /\ \A c \in Builders : IsBuilder(builder'[c])
      /\ builder'[b] = [at |-> "matrix", count |-> builder[b].count,
                        chunks |-> builder[b].chunks, vectors |-> builder[b].vectors,
                        manifest |-> builder[b].manifest,
                        crossed |-> builder[b].crossed]
      /\ \A c \in Builders \ {b} : builder'[c] = builder[c] /\ Building(c)'
      /\ Exclusive'
    BY <1>1, <1>2, StepsOn DEF Locked
<1>4. TextsOf(matrix') = TextsOf(builder[b].chunks)
    BY <1>2, TextsOfRows DEF WriteMatrix
<1>5. Building(b)'
    BY <1>1, <1>2, <1>3, <1>4 DEF Building, Locked
<1> DEFINE moved == server.crossed \/ server.at \notin {"down", "serving"}
<1>6. /\ server' = [at |-> server.at, count |-> server.count, chunks |-> server.chunks,
                    manifest |-> server.manifest, matrix |-> server.matrix, crossed |-> moved]
      /\ IsServer(server')
    <2>1. IsServer(server) /\ moved \in BOOLEAN
        BY DEF Shapes, IsServer
    <2>2. server' = [server EXCEPT !.crossed = moved]
        BY DEF WriteMatrix
    <2> HIDE DEF moved
    <2> QED BY <2>1, <2>2, ServerExcept, ServerShape DEF IsServer
<1>7. Shapes'
    BY <1>2, <1>3, <1>6 DEF Shapes
<1>8. Serving'
    BY <1>6 DEF Serving, Loading
<1>9. MixedNeedsOverlap' /\ BuiltIsLoadable' /\ NothingPaidTwice'
    BY <1>2, <1>6 DEF MixedNeedsOverlap, Mixed, BuiltIsLoadable, NothingPaidTwice
<1> QED BY <1>2, <1>3, <1>5, <1>7, <1>8, <1>9

LEMMA WritingCache == ASSUME IInv, NEW b \in Builders, WriteCache(b) PROVE IInv'
<1> USE DEF IInv
<1>1. builder[b].at = "matrix" /\ Building(b) /\ "cached" \in Locked
    BY DEF WriteCache, AtStep, Locked
<1>2. /\ cache' = builder[b].vectors /\ kept' = kept \cup TextSet(builder[b].vectors)
      /\ Becomes(b, [builder[b] EXCEPT !.at = "cached"])
      /\ UNCHANGED <<corpus, matrix, manifest, lock, server, fresh>>
    BY DEF WriteCache, CacheOf, TextSet
<1>3. /\ builder' = [c \in Builders |-> builder'[c]]
      /\ \A c \in Builders : IsBuilder(builder'[c])
      /\ builder'[b] = [at |-> "cached", count |-> builder[b].count,
                        chunks |-> builder[b].chunks, vectors |-> builder[b].vectors,
                        manifest |-> builder[b].manifest,
                        crossed |-> builder[b].crossed]
      /\ \A c \in Builders \ {b} : builder'[c] = builder[c] /\ Building(c)'
      /\ Exclusive'
    BY <1>1, <1>2, StepsOn DEF Locked
<1>4. kept' \subseteq TextSet(builder[b].vectors) /\ OnePerText(builder[b].vectors)
    BY <1>1, <1>2 DEF Building, Locked
<1>5. Building(b)'
    BY <1>1, <1>2, <1>3, <1>4 DEF Building, Locked
<1>6. NothingPaidTwice'
    BY <1>2, <1>4 DEF NothingPaidTwice, TextSet, OnePerText
<1> QED BY <1>2, <1>3, <1>5, <1>6
        DEF Shapes, Serving, MixedNeedsOverlap, Mixed, BuiltIsLoadable

LEMMA WritingManifest == ASSUME IInv, NEW b \in Builders, WriteManifest(b) PROVE IInv'
<1> USE DEF IInv
<1> DEFINE m == builder[b].manifest
           crossed == builder[b].crossed
<1>1. builder[b].at = "hashed" /\ Building(b) /\ IsManifest(m) /\ crossed \in BOOLEAN
      /\ lock = b
    BY DEF WriteManifest, AtStep, Shapes, IsBuilder, Exclusive, Locked
<1>2. /\ manifest' = [m EXCEPT !.crossed = crossed] /\ fresh' = ~crossed
      /\ lock' = Unlocked(b) /\ Becomes(b, NotBuilding)
      /\ UNCHANGED <<corpus, matrix, cache, server, kept>>
    BY DEF WriteManifest
<1>3. manifest' = [corpus |-> m.corpus, matrix |-> m.matrix, ids |-> m.ids,
                   crossed |-> crossed]
    BY <1>1, <1>2 DEF IsManifest
<1>4. /\ m.matrix = matrix /\ m.ids = IdsOf(builder[b].chunks)
      /\ TextsOf(matrix) = TextsOf(builder[b].chunks)
      /\ ~crossed => builder[b].chunks = corpus /\ m.corpus = corpus
    BY <1>1 DEF Building, Locked
<1>5. /\ builder' = [c \in Builders |-> builder'[c]] /\ builder'[b] = NotBuilding
      /\ \A c \in Builders \ {b} : builder'[c] = builder[c]
    BY <1>2, BecomesOne
<1> HIDE DEF m, crossed
<1>6. Shapes'
    BY <1>2, <1>3, <1>5, Idle DEF Shapes, IsManifest
<1>7. Exclusive'
    BY <1>1, <1>2, <1>5, Idle, IndexAssumption, OthersOutside DEF Exclusive, Unlocked, Locked
<1>8. (\A c \in Builders : Building(c))'
    <2>1. Building(b)'
        BY <1>5, Idle DEF Building, Locked
    <2>2. ASSUME NEW c \in Builders, c # b PROVE Building(c)'
        BY <1>2, <1>5, <2>2 DEF Building
    <2> QED BY <2>1, <2>2
<1>9. OfOnePiece(manifest')
    BY <1>3, <1>4 DEF OfOnePiece
<1>10. BuiltIsLoadable'
    BY <1>2, <1>3, <1>4 DEF BuiltIsLoadable
<1> QED BY <1>2, <1>6, <1>7, <1>8, <1>9, <1>10
        DEF Serving, MixedNeedsOverlap, Mixed, NothingPaidTwice

LEMMA BuildStep == ASSUME IInv, NEW b \in Builders, Build(b) PROVE IInv'
BY Counting, Reading, Locking, Embedding, WritingMatrix, WritingCache, Hashing, WritingManifest,
   Dying DEF Build
-----------------------------------------------------------------------------
(***************************************************************************)
(* The server only reads.                                                  *)
(***************************************************************************)
LEMMA ServerAlone ==
    ASSUME IInv, NEW r, Serves(r), IsServer(r), Serving', MixedNeedsOverlap'
    PROVE  IInv'
BY DEF IInv, Serves, files, Shapes, Exclusive, Building, BuiltIsLoadable, NothingPaidTwice

LEMMA Down ==
    IsServer(NotServing) /\ NotServing.at = "down" /\ OfOnePiece(NotServing.manifest)
BY DEF NotServing, NoManifest, IsServer, IsManifest, OfOnePiece, TextsOf

LEMMA ServesDown == ASSUME IInv, Serves(NotServing) PROVE IInv'
<1>1. Serving' /\ MixedNeedsOverlap'
    BY Down DEF Serves, Serving, Loading, MixedNeedsOverlap, Mixed
<1> QED BY <1>1, Down, ServerAlone

LEMMA Starting == ASSUME IInv, StartServer PROVE IInv'
<1> DEFINE r == [NotServing EXCEPT !.at = "counted", !.count = count]
<1>1. r = [at |-> "counted", count |-> count, chunks |-> NotServing.chunks,
           manifest |-> NotServing.manifest, matrix |-> NotServing.matrix,
           crossed |-> NotServing.crossed]
    BY Down, ServerExceptTwo
<1>2. Serves(r)
    BY DEF StartServer
<1> HIDE DEF r
<1>3. IsServer(r)
    BY <1>1, Down, ServerShape DEF IsServer, Loading
<1>4. Serving' /\ MixedNeedsOverlap'
    BY <1>1, <1>2, Down DEF Serves, Serving, Loading, MixedNeedsOverlap, Mixed
<1> QED BY <1>2, <1>3, <1>4, ServerAlone

LEMMA LoadingChunks == ASSUME IInv, LoadChunks PROVE IInv'
<1> DEFINE r == [server EXCEPT !.at = "chunks", !.chunks = corpus]
<1>1. CASE Serves(r)
    <2>1. IsServer(server) /\ Serving /\ server.at = "counted"
        BY DEF IInv, Shapes, LoadChunks
    <2>2. r = [at |-> "chunks", count |-> server.count, chunks |-> corpus,
               manifest |-> server.manifest, matrix |-> server.matrix,
               crossed |-> server.crossed]
        BY <2>1, ServerExceptTwo
    <2> HIDE DEF r
    <2>3. IsServer(r)
        BY <2>1, <2>2, ServerShape DEF IsServer, Loading
    <2>4. Serving' /\ MixedNeedsOverlap'
        BY <1>1, <2>1, <2>2 DEF Serves, files, Serving, Loading, MixedNeedsOverlap, Mixed
    <2> QED BY <1>1, <2>3, <2>4, ServerAlone
<1> QED BY <1>1, ServesDown DEF LoadChunks, Checked

LEMMA ReadingManifest == ASSUME IInv, ReadManifest PROVE IInv'
<1> DEFINE r == [server EXCEPT !.at = "manifest", !.manifest = manifest]
<1>1. CASE Serves(r)
    <2>1. /\ IsServer(server) /\ Serving /\ server.at = "chunks"
          /\ IsManifest(manifest) /\ OfOnePiece(manifest)
        BY DEF IInv, Shapes, ReadManifest
    <2>2. r = [at |-> "manifest", count |-> server.count, chunks |-> server.chunks,
               manifest |-> manifest, matrix |-> server.matrix,
               crossed |-> server.crossed]
        BY <2>1, ServerExceptTwo
    <2> HIDE DEF r
    <2>3. IsServer(r)
        BY <2>1, <2>2, ServerShape DEF IsServer, Loading
    <2>4. Serving' /\ MixedNeedsOverlap'
        BY <1>1, <2>1, <2>2 DEF Serves, files, Serving, Loading, MixedNeedsOverlap, Mixed
    <2> QED BY <1>1, <2>3, <2>4, ServerAlone
<1> QED BY <1>1, ServesDown DEF ReadManifest, Checked

LEMMA CheckingCorpus == ASSUME IInv, CheckCorpus PROVE IInv'
<1> DEFINE r == [server EXCEPT !.at = "corpus"]
<1>1. CASE Serves(r) /\ CorpusMatches
    <2>1. IsServer(server) /\ Serving /\ server.at = "manifest"
        BY DEF IInv, Shapes, CheckCorpus
    <2>2. r = [at |-> "corpus", count |-> server.count, chunks |-> server.chunks,
               manifest |-> server.manifest, matrix |-> server.matrix,
               crossed |-> server.crossed]
        BY <2>1, ServerExcept
    <2> HIDE DEF r
    <2>3. IsServer(r)
        BY <2>1, <2>2, ServerShape DEF IsServer, Loading
    <2>4. Serving' /\ MixedNeedsOverlap'
        BY <1>1, <2>1, <2>2
           DEF Serves, files, CorpusMatches, Serving, Loading, MixedNeedsOverlap, Mixed
    <2> QED BY <1>1, <2>3, <2>4, ServerAlone
<1> QED BY <1>1, ServesDown DEF CheckCorpus, Checked

LEMMA CheckingMatrix == ASSUME IInv, CheckMatrix PROVE IInv'
<1> DEFINE r == [server EXCEPT !.at = "matrix"]
<1>1. CASE Serves(r) /\ MatrixMatches
    <2>1. IsServer(server) /\ Serving /\ server.at = "corpus"
        BY DEF IInv, Shapes, CheckMatrix
    <2>2. r = [at |-> "matrix", count |-> server.count, chunks |-> server.chunks,
               manifest |-> server.manifest, matrix |-> server.matrix,
               crossed |-> server.crossed]
        BY <2>1, ServerExcept
    <2> HIDE DEF r
    <2>3. IsServer(r)
        BY <2>1, <2>2, ServerShape DEF IsServer, Loading
    <2>4. Serving' /\ MixedNeedsOverlap'
        BY <1>1, <2>1, <2>2
           DEF Serves, files, MatrixMatches, Serving, Loading, MixedNeedsOverlap, Mixed
    <2> QED BY <1>1, <2>3, <2>4, ServerAlone
<1> QED BY <1>1, ServesDown DEF CheckMatrix, Checked

\* Here the manifest is of one piece, and what is loaded is what it names.
LEMMA LoadingMatrix == ASSUME IInv, LoadMatrix PROVE IInv'
<1> DEFINE r == [server EXCEPT !.at = "serving", !.matrix = matrix]
<1>1. CASE Serves(r)
    <2>1. IsServer(server) /\ Serving /\ server.at = "matrix"
        BY DEF IInv, Shapes, LoadMatrix
    <2>2. r = [at |-> "serving", count |-> server.count, chunks |-> server.chunks,
               manifest |-> server.manifest, matrix |-> matrix,
               crossed |-> server.crossed]
        <3> DEFINE s == [server EXCEPT !.at = "serving"]
        <3>1. s = [at |-> "serving", count |-> server.count, chunks |-> server.chunks,
                   manifest |-> server.manifest, matrix |-> server.matrix,
                   crossed |-> server.crossed]
            BY <2>1, ServerExcept
        <3>2. r = [s EXCEPT !.matrix = matrix]
            BY <2>1, <3>1 DEF IsServer
        <3> HIDE DEF s, r
        <3> QED BY <3>1, <3>2
    <2> HIDE DEF r
    <2>3. IsServer(r)
        BY <2>1, <2>2, ServerShape DEF IsServer, Loading
    <2>4. Serving'
        BY <1>1, <2>1, <2>2 DEF Serves, files, Serving, Loading
    <2>5. ~server.crossed /\ ~server.manifest.crossed => TextsOf(matrix) = TextsOf(server.chunks)
        BY <2>1 DEF Serving, Loading, OfOnePiece
    <2>6. MixedNeedsOverlap'
        BY <1>1, <2>2, <2>5 DEF Serves, MixedNeedsOverlap, Mixed
    <2> QED BY <1>1, <2>3, <2>4, <2>6, ServerAlone
<1> QED BY <1>1, ServesDown DEF LoadMatrix, Checked
-----------------------------------------------------------------------------
LEMMA NextStep == ASSUME IInv, Next PROVE IInv'
BY Publishing, PublisherDying, BuildStep, Starting, LoadingChunks, ReadingManifest,
   CheckingCorpus, CheckingMatrix, LoadingMatrix DEF Next, Load

\* The invariant: exclusion by the lock, what each builder and each load may
\* rely on, and the three properties.
THEOREM Invariance == Spec => []IInv
<1>1. Init => IInv
    BY Initial
<1>2. IInv /\ [Next]_vars => IInv'
    BY NextStep, Elsewhere DEF vars, files
<1> QED BY <1>1, <1>2, PTL DEF Spec

\* VectorIndex.load: chunks and vectors that do not belong together are served
\* only if a file moved during the load, or the corpus during the build that
\* wrote the manifest; whoever dies where, and however many builders try.
THEOREM NeverMixedAlone == Spec => []MixedNeedsOverlap
<1>1. IInv => MixedNeedsOverlap
    BY DEF IInv
<1> QED BY <1>1, Invariance, PTL

\* build_index: a build that ends without an error, and that no new corpus
\* overtook, leaves the four files in agreement.
THEOREM BuildsLoadable == Spec => []BuiltIsLoadable
<1>1. IInv => BuiltIsLoadable
    BY DEF IInv
<1> QED BY <1>1, Invariance, PTL

\* The embedding cache only grows, and holds one vector for a text: no builder
\* loses what another paid for and wrote.  What a build received and did not
\* live to write is not in the file, and not in the statement.
THEOREM PaidOnce == Spec => []NothingPaidTwice
<1>1. IInv => NothingPaidTwice
    BY DEF IInv
<1> QED BY <1>1, Invariance, PTL

\* exclusive_file_lock: two builders are never between the lock and the
\* manifest at once.
THEOREM OneBuilder ==
    Spec => [](\A b, c \in Builders :
                  builder[b].at \in Locked /\ builder[c].at \in Locked => b = c)
<1>1. IInv => \A b, c \in Builders :
                 builder[b].at \in Locked /\ builder[c].at \in Locked => b = c
    BY OneLocked DEF IInv
<1> QED BY <1>1, Invariance, PTL
=============================================================================
