----------------------------- MODULE IndexBuild ------------------------------
(***************************************************************************)
(* The dense index on disk (retrieval/embeddings.py, retrieval/vector.py,  *)
(* corpus.py, storage.py): the corpus is published, builders embed it and  *)
(* write matrix, embedding cache and manifest, and a server that starts    *)
(* checks what it finds and serves it.  They are processes of their own    *)
(* and share only files; the lock excludes builders from one another, and  *)
(* nobody else takes it.                                                   *)
(*                                                                         *)
(* A file is its content and a hash is the content it was taken of.  A     *)
(* chunk is its id and its text (the id comes from the record and the      *)
(* position, not from the text), a vector its text and who embedded it:    *)
(* the provider need not answer twice alike.  Model, dimensions and the    *)
(* retrieval text strategy are the configuration, one for all.             *)
(***************************************************************************)
EXTENDS Sequences, FiniteSets, Naturals, SequencesExt

CONSTANTS
    Revisions,     \* the corpora that may be published
    Builders,      \* build-index processes
    MaxPublishes,  \* bounds: the corpora published after the first,
    MaxBuilds      \* and the builds begun

Free == "free"

ASSUME IndexAssumption ==
    /\ Free \notin Builders
    /\ MaxPublishes \in Nat /\ MaxBuilds \in Nat
    /\ \A r \in Revisions :
          /\ r # <<>>
          /\ \A i, j \in DOMAIN r : r[i].id = r[j].id => i = j

VARIABLES
    corpus,    \* the chunks file
    count,     \* combined_chunk_count of its manifest
    matrix,    \* the matrix file; <<>> if it is missing
    cache,     \* the embedding cache file
    manifest,  \* the index manifest
    lock,      \* the builder that holds the lock file
    publisher, \* the process that publishes a corpus
    builder,   \* the builders
    server,    \* the process that starts and serves
    publishes, builds,
    fresh,     \* history: a build that no publication crossed is done, and
               \* nothing was written since
    kept       \* history: the texts whose vectors were ever in the cache

files == <<corpus, count, matrix, cache, manifest>>
vars == <<files, lock, publisher, builder, server, publishes, builds, fresh, kept>>

IdsOf(chunks) == [i \in DOMAIN chunks |-> chunks[i].id]
TextsOf(rows) == [i \in DOMAIN rows |-> rows[i].text]

NoManifest == [corpus |-> <<>>, matrix |-> <<>>, ids |-> <<>>, crossed |-> FALSE]
NotBuilding == [at |-> "idle", count |-> 0, chunks |-> <<>>, vectors |-> {},
                manifest |-> NoManifest, crossed |-> FALSE]
NotServing == [at |-> "down", count |-> 0, chunks |-> <<>>, manifest |-> NoManifest,
               matrix |-> <<>>, crossed |-> FALSE]

Init ==
    /\ corpus \in Revisions
    /\ count = Len(corpus)
    /\ matrix = <<>> /\ cache = {} /\ manifest = NoManifest
    /\ lock = Free
    /\ publisher = [at |-> "idle", revision |-> <<>>]
    /\ builder = [b \in Builders |-> NotBuilding]
    /\ server = NotServing
    /\ publishes = 0 /\ builds = 0
    /\ fresh = FALSE /\ kept = {}
-----------------------------------------------------------------------------
(***************************************************************************)
(* build_corpus: the chunks, which are written in place, and then their    *)
(* manifest, which is replaced atomically.                                 *)
(***************************************************************************)
\* History: who holds chunks, or is loading, when a file of the corpus changes.
CorpusMoves ==
    /\ builder' = [b \in Builders |->
           [builder[b] EXCEPT !.crossed = builder[b].at \notin {"idle", "counted"}]]
    /\ server' = [server EXCEPT !.crossed = @ \/ server.at \notin {"down", "serving"}]
    /\ fresh' = FALSE

OpenCorpus ==
    /\ publisher.at = "idle"
    /\ publishes < MaxPublishes
    /\ publishes' = publishes + 1
    /\ \E r \in Revisions :
          /\ publisher' = [at |-> "writing", revision |-> r]
          /\ corpus' \in Prefixes(r) \ {r}
    /\ CorpusMoves
    /\ UNCHANGED <<count, matrix, cache, manifest, lock, builds, kept>>

CloseCorpus ==
    /\ publisher.at = "writing"
    /\ publisher' = [publisher EXCEPT !.at = "written"]
    /\ corpus' = publisher.revision
    /\ CorpusMoves
    /\ UNCHANGED <<count, matrix, cache, manifest, lock, publishes, builds, kept>>

WriteCorpusManifest ==
    /\ publisher.at = "written"
    /\ count' = Len(publisher.revision)
    /\ publisher' = [at |-> "idle", revision |-> <<>>]
    /\ CorpusMoves
    /\ UNCHANGED <<corpus, matrix, cache, manifest, lock, publishes, builds, kept>>

PublisherDies ==
    /\ publisher.at # "idle"
    /\ publisher' = [at |-> "idle", revision |-> <<>>]
    /\ UNCHANGED <<files, lock, builder, server, publishes, builds, fresh, kept>>
-----------------------------------------------------------------------------
(***************************************************************************)
(* firelens build-index.                                                   *)
(***************************************************************************)
Becomes(b, record) == builder' = [builder EXCEPT ![b] = record]
AtStep(b, step) == builder[b].at = step

\* load_corpus_resources, which comes before the lock: the manifest of the
\* corpus, then the chunks, whose number must be the one it gives.
ReadCorpusManifest(b) ==
    /\ AtStep(b, "idle")
    /\ builds < MaxBuilds
    /\ builds' = builds + 1
    /\ Becomes(b, [NotBuilding EXCEPT !.at = "counted", !.count = count])
    /\ UNCHANGED <<files, lock, publisher, server, publishes, fresh, kept>>

Agrees(number) == corpus # <<>> /\ Len(corpus) = number

ReadCorpus(b) ==
    /\ AtStep(b, "counted")
    /\ Becomes(b, IF Agrees(builder[b].count)
                  THEN [NotBuilding EXCEPT !.at = "read", !.chunks = corpus]
                  ELSE NotBuilding)
    /\ UNCHANGED <<files, lock, publisher, server, publishes, builds, fresh, kept>>

\* Mutant of LockIsFree: LOCK_EX is left out.
LockIsShared == TRUE

LockIsFree == lock = Free

\* exclusive_file_lock fails fast; then load_embedding_cache.
Lock(b) ==
    /\ AtStep(b, "read")
    /\ IF LockIsFree
       THEN /\ lock' = b
            /\ Becomes(b, [builder[b] EXCEPT !.at = "embedding", !.vectors = cache])
       ELSE Becomes(b, NotBuilding) /\ UNCHANGED lock
    /\ UNCHANGED <<files, publisher, server, publishes, builds, fresh, kept>>

Misses(b) ==
    {builder[b].chunks[i].text : i \in DOMAIN builder[b].chunks}
        \ {v.text : v \in builder[b].vectors}

\* A batch: the build may await, fail or die between any two of them.
EmbedBatch(b) ==
    /\ AtStep(b, "embedding")
    /\ \E t \in Misses(b) :
          Becomes(b, [builder[b] EXCEPT !.vectors = @ \cup {[text |-> t, by |-> b]}])
    /\ UNCHANGED <<files, lock, publisher, server, publishes, builds, fresh, kept>>

Rows(b) ==
    [i \in DOMAIN builder[b].chunks |->
        CHOOSE v \in builder[b].vectors : v.text = builder[b].chunks[i].text]

WriteMatrix(b) ==
    /\ AtStep(b, "embedding")
    /\ Misses(b) = {}
    /\ matrix' = Rows(b)
    /\ Becomes(b, [builder[b] EXCEPT !.at = "matrix"])
    /\ server' = [server EXCEPT !.crossed = @ \/ server.at \notin {"down", "serving"}]
    /\ fresh' = FALSE
    /\ UNCHANGED <<corpus, count, cache, manifest, lock, publisher, publishes, builds, kept>>

\* Mutant of CacheOf: only what this corpus needs is kept.
CacheOfCorpus(b) == {v \in builder[b].vectors : \E i \in DOMAIN Rows(b) : Rows(b)[i] = v}

CacheOf(b) == builder[b].vectors

WriteCache(b) ==
    /\ AtStep(b, "matrix")
    /\ cache' = CacheOf(b)
    /\ kept' = kept \cup {v.text : v \in builder[b].vectors}
    /\ Becomes(b, [builder[b] EXCEPT !.at = "cached"])
    /\ UNCHANGED <<corpus, count, matrix, manifest, lock, publisher, server, publishes, builds,
                   fresh>>

\* The manifest is made: the files are hashed now, and the ids are those read
\* at the beginning.
HashFiles(b) ==
    /\ AtStep(b, "cached")
    /\ Becomes(b, [builder[b] EXCEPT !.at = "hashed",
                       !.manifest = [corpus |-> corpus, matrix |-> matrix,
                                     ids |-> IdsOf(builder[b].chunks), crossed |-> FALSE]])
    /\ UNCHANGED <<files, lock, publisher, server, publishes, builds, fresh, kept>>

Unlocked(b) == IF lock = b THEN Free ELSE lock

WriteManifest(b) ==
    /\ AtStep(b, "hashed")
    /\ manifest' = [builder[b].manifest EXCEPT !.crossed = builder[b].crossed]
    /\ fresh' = ~builder[b].crossed
    /\ lock' = Unlocked(b)
    /\ Becomes(b, NotBuilding)
    /\ UNCHANGED <<corpus, count, matrix, cache, publisher, server, publishes, builds, kept>>

\* A failed batch, or the process dies anywhere; the lock goes with it.
BuilderDies(b) ==
    /\ ~AtStep(b, "idle")
    /\ lock' = Unlocked(b)
    /\ Becomes(b, NotBuilding)
    /\ UNCHANGED <<files, publisher, server, publishes, builds, fresh, kept>>
-----------------------------------------------------------------------------
(***************************************************************************)
(* load_runtime: load_corpus_resources and then VectorIndex.load, a file   *)
(* at a time.  A check that fails leaves the server without an index.      *)
(***************************************************************************)
Serves(record) ==
    /\ server' = record
    /\ UNCHANGED <<files, lock, publisher, builder, publishes, builds, fresh, kept>>

Checked(holds, record) == IF holds THEN Serves(record) ELSE Serves(NotServing)

\* The manifest of the corpus; a server that serves is restarted.
StartServer ==
    /\ server.at \in {"down", "serving"}
    /\ Serves([NotServing EXCEPT !.at = "counted", !.count = count])

LoadChunks ==
    /\ server.at = "counted"
    /\ Checked(Agrees(server.count),
               [server EXCEPT !.at = "chunks", !.chunks = corpus])

ReadManifest ==
    /\ server.at = "chunks"
    /\ Checked(matrix # <<>> /\ manifest # NoManifest,
               [server EXCEPT !.at = "manifest", !.manifest = manifest])

\* Mutant of CorpusMatches: the constant corpus version is all that is compared.
CorpusVersionMatches == TRUE

CorpusMatches == server.manifest.corpus = corpus

CheckCorpus ==
    /\ server.at = "manifest"
    /\ Checked(CorpusMatches, [server EXCEPT !.at = "corpus"])

\* Mutant of MatrixMatches: the matrix is trusted if it has the right shape.
MatrixHasShape == Len(server.manifest.matrix) = Len(matrix)

MatrixMatches == server.manifest.matrix = matrix

CheckMatrix ==
    /\ server.at = "corpus"
    /\ Checked(MatrixMatches, [server EXCEPT !.at = "matrix"])

\* The file is opened a second time; the constructor checks shape and ids.
LoadMatrix ==
    /\ server.at = "matrix"
    /\ Checked(/\ Len(matrix) = Len(server.chunks)
               /\ IdsOf(server.chunks) = server.manifest.ids,
               [server EXCEPT !.at = "serving", !.matrix = matrix])
-----------------------------------------------------------------------------
Build(b) ==
    \/ ReadCorpusManifest(b) \/ ReadCorpus(b) \/ Lock(b) \/ EmbedBatch(b)
    \/ WriteMatrix(b) \/ WriteCache(b) \/ HashFiles(b) \/ WriteManifest(b)
    \/ BuilderDies(b)

Load ==
    \/ StartServer \/ LoadChunks \/ ReadManifest \/ CheckCorpus \/ CheckMatrix \/ LoadMatrix

Next ==
    \/ OpenCorpus \/ CloseCorpus \/ WriteCorpusManifest \/ PublisherDies
    \/ \E b \in Builders : Build(b)
    \/ Load

Spec == Init /\ [][Next]_vars
-----------------------------------------------------------------------------
Mixed == server.at = "serving" /\ TextsOf(server.matrix) # TextsOf(server.chunks)

\* Whatever dies between matrix, cache and manifest, and however often corpora
\* come and go, an index is mixed only if a file moved while the server loaded
\* it or the corpus moved under the build that wrote the manifest.
MixedNeedsOverlap == Mixed => server.crossed \/ server.manifest.crossed

\* A build that says it is built left an index which loads, though another
\* builder may have tried meanwhile.  Left out is the build whose chunks were
\* read before a file of the corpus changed: it too says it is built, and what
\* it leaves need not load (MixedNeedsOverlap is about that one).
BuiltIsLoadable ==
    fresh => /\ manifest.corpus = corpus /\ manifest.matrix = matrix
             /\ manifest.ids = IdsOf(corpus) /\ TextsOf(matrix) = TextsOf(corpus)

\* A vector once in the cache file is never paid for again.  That file is
\* written at the end of a build: the vectors a failed build has received die
\* with it, and the next build pays for them again.
NothingPaidTwice ==
    /\ kept \subseteq {v.text : v \in cache}
    /\ \A v, w \in cache : v.text = w.text => v = w
=============================================================================
