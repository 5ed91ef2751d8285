------------------------------ MODULE Indexer ------------------------------
(***************************************************************************)
(* The structures of one CodeIndexer among each other: the corpus (the map *)
(* `chunks'), the HNSW vectors, the BM25 postings, the LRU of embeddings,  *)
(* the entity lists and the symbol graph. Each has a lock of its own, and  *)
(* an operation takes them one after the other.                            *)
(*                                                                         *)
(* The indexer as a whole is behind an outer RwLock: index_file,           *)
(* remove_file, remove_chunk, rebuilds and searches hold it for reading    *)
(* and interleave; commit_parsed_batch holds it for writing, so that it is *)
(* one step here. VectorStore and Bm25Index model the insides of two of    *)
(* the structures; here each call on them is one step.                     *)
(*                                                                         *)
(* A structure maps every chunk id to the version of the content it holds, *)
(* 0 for none. Scores and ranks are left out: a search is taken to want at *)
(* least as many hits as there are.                                        *)
(***************************************************************************)
EXTENDS Naturals, FiniteSets

CONSTANTS Id, File, FileOf,  \* chunk ids, and the file of each
          Writer, Searcher,
          Cap,          \* max_chunks_per_index, also the cap of Bm25Index
          CacheCap,     \* embedding_cache_cap
          SnapshotCap,  \* twice max_kg_nodes
          MaxVersion,   \* bound on the contents of a file
          MaxOps,       \* bound on the operations begun
          MaxSearchOps, \* ... when there is a search among them
          MaxFaults     \* bound on failed calls of the embedder or the store

ASSUME IndexerAssumption ==
    /\ IsFiniteSet(Id) /\ IsFiniteSet(Writer) /\ Writer # {}
    /\ FileOf \in [Id -> File]
    /\ Cap \in Nat \ {0} /\ CacheCap \in Nat \ {0} /\ SnapshotCap \in Nat \ {0}
    /\ MaxVersion \in Nat /\ MaxOps \in Nat /\ MaxSearchOps \in Nat /\ MaxFaults \in Nat

VARIABLES
    corpus, vectors, postings, cache,   \* id to version
    entities,   \* file to version
    graph,      \* the chunks the installed symbol graph was built from
    pc, op,     \* of each writer
    spc, seen, hits,   \* of each searcher: ids its lanes returned, its result
    ops, faults,
    \* history
    contested,  \* ids two operations worked on at the same time
    torn,       \* ids a failed store call left with vectors of their own
    overlap,    \* two operations have been in flight at once
    raced,      \* ... since the last graph snapshot taken alone, or one is deferred
    settled     \* of each searcher: ids nobody worked on since it began

structures == <<corpus, vectors, postings, cache, entities, graph>>
writing    == <<pc, op>>
searching  == <<spc, seen, hits>>
history    == <<contested, torn, overlap>>
vars == <<structures, writing, searching, history, raced, settled, ops, faults>>

Version == 0..MaxVersion
Label == {"idle", "check", "vector", "cache", "postings", "corpus", "snapshot",
          "install", "entities", "rmVector", "rmCorpus", "rmCache", "rmPostings",
          "rmEntities"}
NoOp == [kind |-> "none", file |-> CHOOSE f \in File : TRUE, todo |-> {},
         ids |-> {}, ver |-> 0, snap |-> {}]

IndexerTypeOK ==
    /\ \A m \in {corpus, vectors, postings, cache} : m \in [Id -> Version]
    /\ entities \in [File -> Version] /\ graph \subseteq Id
    /\ pc \in [Writer -> Label]
    /\ \A w \in Writer : op[w].todo \subseteq op[w].ids /\ op[w].ids \subseteq Id
    /\ spc \in [Searcher -> {"idle", "hnsw", "bm25", "kg", "materialize", "done"}]
    /\ seen \in [Searcher -> SUBSET Id] /\ hits \in [Searcher -> SUBSET Id]
    /\ Cardinality({i \in Id : cache[i] # 0}) <= CacheCap
    /\ Cardinality(graph) <= SnapshotCap

Ids(m) == {i \in Id : m[i] # 0}
OfFile(f) == {i \in Id : FileOf[i] = f}
Goto(w, label) == pc' = [pc EXCEPT ![w] = label]
InFlight == {w \in Writer : pc[w] # "idle"}
Alone(w) == InFlight = {w}
OpBound == IF \A s \in Searcher : spc[s] = "idle" THEN MaxOps ELSE MaxSearchOps

Init ==
    /\ corpus = [i \in Id |-> 0] /\ vectors = corpus
    /\ postings = corpus /\ cache = corpus
    /\ entities = [f \in File |-> 0] /\ graph = {}
    /\ pc = [w \in Writer |-> "idle"] /\ op = [w \in Writer |-> NoOp]
    /\ spc = [s \in Searcher |-> "idle"]
    /\ seen = [s \in Searcher |-> {}] /\ hits = seen
    /\ settled = [s \in Searcher |-> {}]
    /\ ops = 0 /\ faults = 0
    /\ contested = {} /\ torn = {} /\ overlap = FALSE /\ raced = FALSE

\* An operation begins: what it works on and beside whom goes into the history.
Begin(w, label, kind, f, ids, v) ==
    /\ pc[w] = "idle" /\ ops < OpBound
    /\ ops' = ops + 1
    /\ Goto(w, label)
    /\ op' = [op EXCEPT ![w] = [kind |-> kind, file |-> f, todo |-> ids,
                                ids |-> ids, ver |-> v, snap |-> {}]]
    /\ contested' = contested \cup {i \in ids : \E v2 \in InFlight : i \in op[v2].ids}
    /\ overlap' = (overlap \/ InFlight # {})
    /\ raced' = (raced \/ InFlight # {})
    /\ settled' = [s \in Searcher |-> settled[s] \ ids]
    /\ UNCHANGED <<structures, searching, torn, faults>>

-----------------------------------------------------------------------------
(* index_file: add_chunk for each chunk of the file, then the entities.     *)

\* The chunks of a content are some of those the file can have.
IndexFile(w) ==
    \E f \in File, ids \in (SUBSET Id) \ {{}}, v \in 1..MaxVersion :
        /\ ids \subseteq OfFile(f)
        /\ Begin(w, "check", "index", f, ids, v)

Pick(ids) == CHOOSE i \in ids : TRUE
Current(w) == Pick(op[w].todo)
Advance(w) == op' = [op EXCEPT ![w].todo = @ \ {Current(w)}]

\* Updates always have room; the lock is released after the check.
RoomFor(i) == corpus[i] # 0 \/ Cardinality(Ids(corpus)) < Cap

AddCheck(w) ==
    /\ pc[w] = "check"
    /\ \/ /\ op[w].todo = {}
          /\ Goto(w, "entities") /\ UNCHANGED op
       \/ /\ op[w].todo # {} /\ ~RoomFor(Current(w))
          /\ Advance(w) /\ UNCHANGED pc
       \/ /\ op[w].todo # {} /\ RoomFor(Current(w))
          /\ Goto(w, "vector") /\ UNCHANGED op
    /\ UNCHANGED <<structures, searching, history, raced, settled, ops, faults>>

\* embed, then store.upsert.
AddVector(w) ==
    /\ pc[w] = "vector"
    /\ vectors' = [vectors EXCEPT ![Current(w)] = op[w].ver]
    /\ Goto(w, "cache")
    /\ UNCHANGED <<corpus, postings, cache, entities, graph, op, searching,
                   history, raced, settled, ops, faults>>

\* Either call fails: `?' leaves add_chunk and index_file before anything of
\* this chunk is changed; the chunks before it stay, the entities are not set.
AddFails(w) ==
    /\ pc[w] = "vector" /\ faults < MaxFaults
    /\ faults' = faults + 1
    /\ Goto(w, "idle")
    /\ op' = [op EXCEPT ![w] = NoOp]
    /\ UNCHANGED <<structures, searching, history, raced, settled, ops>>

\* LruCache::put; which entry it evicts when full is left open.
Put(m, i, v) ==
    LET full == [m EXCEPT ![i] = v]
    IN IF Cardinality(Ids(full)) <= CacheCap THEN {full}
       ELSE {[full EXCEPT ![e] = 0] : e \in Ids(full) \ {i}}

AddCache(w) ==
    /\ pc[w] = "cache"
    /\ cache' \in Put(cache, Current(w), op[w].ver)
    /\ Goto(w, "postings")
    /\ UNCHANGED <<corpus, vectors, postings, entities, graph, op, searching,
                   history, raced, settled, ops, faults>>

\* Bm25Index::upsert_document: a document it lacks is refused at its own cap.
Upsert(m, i, v) ==
    IF m[i] = 0 /\ Cardinality(Ids(m)) >= Cap THEN m ELSE [m EXCEPT ![i] = v]

AddPostings(w) ==
    /\ pc[w] = "postings"
    /\ postings' = Upsert(postings, Current(w), op[w].ver)
    /\ Goto(w, "corpus")
    /\ UNCHANGED <<corpus, vectors, cache, entities, graph, op, searching,
                   history, raced, settled, ops, faults>>

AddCorpus(w) ==
    /\ pc[w] = "corpus"
    /\ corpus' = [corpus EXCEPT ![Current(w)] = op[w].ver]
    /\ Goto(w, "snapshot")
    /\ UNCHANGED <<vectors, postings, cache, entities, graph, op, searching,
                   history, raced, settled, ops, faults>>

SetEntities(w) ==
    /\ pc[w] = "entities"
    /\ entities' = [entities EXCEPT ![op[w].file] = op[w].ver]
    /\ op' = [op EXCEPT ![w].kind = "last"]
    /\ Goto(w, "snapshot")
    /\ UNCHANGED <<corpus, vectors, postings, cache, graph, searching,
                   history, raced, settled, ops, faults>>

-----------------------------------------------------------------------------
(* rebuild_symbol_graph: the corpus is read under its lock, up to a cap, the  *)
(* graph built without one, and installed.                                   *)

RebuildNow(w) == Begin(w, "snapshot", "last", NoOp.file, {}, 0)

Least(a, b) == IF a < b THEN a ELSE b

TakeSnapshot(w) ==
    /\ pc[w] = "snapshot"
    /\ \E s \in SUBSET Ids(corpus) :
          /\ Cardinality(s) = Least(SnapshotCap, Cardinality(Ids(corpus)))
          /\ op' = [op EXCEPT ![w].snap = s]
    /\ Goto(w, "install")
    /\ raced' = (raced /\ ~Alone(w))
    /\ UNCHANGED <<structures, searching, history, settled, ops, faults>>

\* After the rebuild add_chunk is done with its chunk, the others with all.
InstallGraph(w) ==
    /\ pc[w] = "install"
    /\ graph' = op[w].snap
    /\ IF op[w].kind = "index"
       THEN Advance(w) /\ Goto(w, "check")
       ELSE op' = [op EXCEPT ![w] = NoOp] /\ Goto(w, "idle")
    /\ UNCHANGED <<corpus, vectors, postings, cache, entities, searching,
                   history, raced, settled, ops, faults>>

-----------------------------------------------------------------------------
(* remove_file and remove_chunk.                                             *)

\* The ids are those the corpus has of the file when the removal begins.
RemoveFile(w) ==
    \E f \in File : Begin(w, "rmVector", "remove", f, OfFile(f) \cap Ids(corpus), 0)

RemoveChunk(w) ==
    \E i \in Id : Begin(w, "rmVector", "drop", FileOf[i], {i}, 0)

\* store.remove for one id after the other; an error is swallowed.
RemoveVector(w) ==
    /\ pc[w] = "rmVector"
    /\ IF op[w].todo = {}
       THEN Goto(w, "rmCorpus") /\ UNCHANGED <<op, vectors, torn, faults>>
       ELSE /\ Advance(w) /\ UNCHANGED pc
            /\ \/ /\ vectors' = [vectors EXCEPT ![Current(w)] = 0]
                  /\ UNCHANGED <<torn, faults>>
               \/ /\ faults < MaxFaults
                  /\ faults' = faults + 1
                  /\ torn' = torn \cup {Current(w)}
                  /\ UNCHANGED vectors
    /\ UNCHANGED <<corpus, postings, cache, entities, graph, searching,
                   contested, overlap, raced, settled, ops>>

Without(m, ids) == [i \in Id |-> IF i \in ids THEN 0 ELSE m[i]]

RemoveFromCorpus(w) ==
    /\ pc[w] = "rmCorpus"
    /\ corpus' = Without(corpus, op[w].ids)
    /\ Goto(w, "rmCache")
    /\ UNCHANGED <<vectors, postings, cache, entities, graph, op, searching,
                   history, raced, settled, ops, faults>>

\* Mutant: the removal forgets the embedding cache.
RemoveFromCacheNot(w) ==
    /\ pc[w] = "rmCache"
    /\ Goto(w, "rmPostings")
    /\ UNCHANGED <<structures, op, searching, history, raced, settled, ops, faults>>

RemoveFromCache(w) ==
    /\ pc[w] = "rmCache"
    /\ cache' = Without(cache, op[w].ids)
    /\ Goto(w, "rmPostings")
    /\ UNCHANGED <<corpus, vectors, postings, entities, graph, op, searching,
                   history, raced, settled, ops, faults>>

\* remove_chunk leaves the entities of the file.
RemoveFromPostings(w) ==
    /\ pc[w] = "rmPostings"
    /\ postings' = Without(postings, op[w].ids)
    /\ Goto(w, IF op[w].kind = "remove" THEN "rmEntities" ELSE "snapshot")
    /\ UNCHANGED <<corpus, vectors, cache, entities, graph, op, searching,
                   history, raced, settled, ops, faults>>

RemoveEntities(w) ==
    /\ pc[w] = "rmEntities"
    /\ entities' = [entities EXCEPT ![op[w].file] = 0]
    /\ Goto(w, "snapshot")
    /\ UNCHANGED <<corpus, vectors, postings, cache, graph, op, searching,
                   history, raced, settled, ops, faults>>

-----------------------------------------------------------------------------
(* commit_parsed_batch, alone under the outer write lock.                    *)

\* What a cap lets through: every update, and new ids while there is room.
Capped(m, ids) ==
    {k \in SUBSET ids :
        /\ ids \cap Ids(m) \subseteq k
        /\ Cardinality(k \ Ids(m)) =
              LET n == Cardinality(Ids(m))
              IN Least(IF n >= Cap THEN 0 ELSE Cap - n, Cardinality(ids \ Ids(m)))}

\* The filter in front of everything else.
Kept(ids) == Capped(corpus, ids)

With(m, ids, v) == [i \in Id |-> IF i \in ids THEN v ELSE m[i]]

\* cache' after the puts of a batch: the batch's newest entries stay.
PutAll(m, ids, v) ==
    {c \in {With(m, e, 0) : e \in SUBSET Id} \cup {With(With(m, ids, v), e, 0) : e \in SUBSET Id} :
        /\ Cardinality(Ids(c)) = Least(CacheCap, Cardinality(Ids(m) \cup ids))
        /\ \A i \in ids : c[i] \in {0, v}
        /\ ids \subseteq Ids(c) \/ Ids(c) \subseteq ids}

OuterFree == InFlight = {} /\ \A s \in Searcher : spc[s] \in {"idle", "done"}

\* The graph is rebuilt later, by the reindex's RebuildNow (a batch outside of a
\* reindex rebuilds it at once).
Commit ==
    \E f \in File, ids \in (SUBSET Id) \ {{}}, v \in 1..MaxVersion, k \in SUBSET Id :
        /\ OuterFree /\ ops < OpBound /\ ids \subseteq OfFile(f) /\ k \in Kept(ids)
        /\ ops' = ops + 1
        /\ vectors' = With(vectors, k, v)
        /\ \E q \in Capped(postings, k) : postings' = With(postings, q, v)
        /\ cache' \in PutAll(cache, k, v)
        /\ \E q \in Capped(corpus, k) : corpus' = With(corpus, q, v)
        /\ entities' = [entities EXCEPT ![f] = v]
        /\ \/ /\ raced' = TRUE /\ UNCHANGED graph
           \/ /\ k # {} /\ raced' = FALSE
              /\ \E s \in SUBSET Ids(corpus') :
                    /\ Cardinality(s) = Least(SnapshotCap, Cardinality(Ids(corpus')))
                    /\ graph' = s
        /\ settled' = [s \in Searcher |-> settled[s] \ ids]
        /\ UNCHANGED <<writing, searching, history, faults>>

\* store.upsert_batch fails, perhaps after some of the vectors: nothing else is
\* touched, and nothing takes the vectors out again.
CommitFails ==
    \E f \in File, ids \in (SUBSET Id) \ {{}}, v \in 1..MaxVersion, k \in SUBSET Id :
        /\ OuterFree /\ ops < OpBound /\ ids \subseteq OfFile(f) /\ k \in Kept(ids)
        /\ faults < MaxFaults /\ k # {}
        /\ faults' = faults + 1 /\ ops' = ops + 1
        /\ \E part \in SUBSET k :
              /\ vectors' = With(vectors, part, v)
              /\ torn' = torn \cup part
        /\ settled' = [s \in Searcher |-> settled[s] \ ids]
        /\ UNCHANGED <<corpus, postings, cache, entities, graph, writing, searching,
                       contested, overlap, raced>>

-----------------------------------------------------------------------------
(* search: the vector lane, the lexical lane, the graph lane, and the corpus. *)

ToLane(s, label) == spc' = [spc EXCEPT ![s] = label]

SearchBegin(s) ==
    /\ spc[s] = "idle" /\ ops <= MaxSearchOps
    /\ ToLane(s, "hnsw")
    /\ settled' = [settled EXCEPT ![s] =
                     {i \in Id : \A w \in InFlight : i \notin op[w].ids}]
    /\ UNCHANGED <<structures, writing, seen, hits, history, raced, ops, faults>>

HnswLane(s) ==
    /\ spc[s] = "hnsw"
    /\ seen' = [seen EXCEPT ![s] = Ids(vectors)]
    /\ ToLane(s, "bm25")
    /\ UNCHANGED <<structures, writing, hits, history, raced, settled, ops, faults>>

\* The entity match adds a chunk of the corpus, whether or not a lane has it.
Bm25Lane(s) ==
    /\ spc[s] = "bm25"
    /\ \E match \in {{}} \cup {{i} : i \in {j \in Ids(corpus) : entities[FileOf[j]] # 0}} :
          seen' = [seen EXCEPT ![s] = @ \cup Ids(postings) \cup match]
    /\ ToLane(s, "kg")
    /\ UNCHANGED <<structures, writing, hits, history, raced, settled, ops, faults>>

KgLane(s) ==
    /\ spc[s] = "kg"
    /\ \E n \in {{}, graph} : seen' = [seen EXCEPT ![s] = @ \cup n]
    /\ ToLane(s, "materialize")
    /\ UNCHANGED <<structures, writing, hits, history, raced, settled, ops, faults>>

\* Mutant: a chunk without a cached embedding is dropped by the MMR pass.
MaterializeCached(s) ==
    /\ spc[s] = "materialize"
    /\ hits' = [hits EXCEPT ![s] = seen[s] \cap Ids(corpus) \cap Ids(cache)]
    /\ ToLane(s, "done")
    /\ UNCHANGED <<structures, writing, seen, history, raced, settled, ops, faults>>

\* Ids that are not in the corpus are skipped.
Materialize(s) ==
    /\ spc[s] = "materialize"
    /\ hits' = [hits EXCEPT ![s] = seen[s] \cap Ids(corpus)]
    /\ ToLane(s, "done")
    /\ UNCHANGED <<structures, writing, seen, history, raced, settled, ops, faults>>

-----------------------------------------------------------------------------
AddStep(w) ==
    \/ AddCheck(w) \/ AddVector(w) \/ AddFails(w) \/ AddCache(w) \/ AddPostings(w)
    \/ AddCorpus(w) \/ SetEntities(w)
RemoveStep(w) ==
    \/ RemoveVector(w) \/ RemoveFromCorpus(w) \/ RemoveFromCache(w)
    \/ RemoveFromPostings(w) \/ RemoveEntities(w)
RebuildStep(w) == TakeSnapshot(w) \/ InstallGraph(w)
SearchStep(s) ==
    SearchBegin(s) \/ HnswLane(s) \/ Bm25Lane(s) \/ KgLane(s) \/ Materialize(s)

Next ==
    \/ \E w \in Writer :
          \/ IndexFile(w) \/ RemoveFile(w) \/ RemoveChunk(w) \/ RebuildNow(w)
          \/ AddStep(w) \/ RemoveStep(w) \/ RebuildStep(w)
    \/ Commit \/ CommitFails
    \/ \E s \in Searcher : SearchStep(s)

Spec == Init /\ [][Next]_vars

-----------------------------------------------------------------------------
(* Properties.                                                             *)

AtRest == InFlight = {}

\* A chunk on which no two operations worked at once, and none of whose vectors
\* a failed store call left half-way, is the same everywhere once no operation
\* is in flight: the vector and the cached embedding are those of the content
\* that the corpus holds, and the postings are, unless the BM25 cap refused them.
StructuresAgree ==
    AtRest => \A i \in Id \ (contested \cup torn) :
        /\ vectors[i] = corpus[i]
        /\ cache[i] \in {0, corpus[i]}
        /\ postings[i] = corpus[i] \/ (overlap /\ postings[i] = 0)

\* "Failing fast here keeps HNSW / BM25 / corpus in sync" (ingest.rs:82): as long as
\* operations do not overlap, whatever fails, the cap holds and the postings are
\* those of the corpus.
SerialInSync ==
    AtRest /\ ~overlap =>
        /\ Cardinality(Ids(corpus)) <= Cap
        /\ postings = corpus

\* Chunks on their way into the corpus: their writers are past the check of the cap.
Adding ==
    {Current(w) : w \in {v \in Writer : pc[v] \in {"vector", "cache", "postings", "corpus"}}}

\* The check of the cap and the insertion are under separate locks; even so the
\* corpus, with all that is on its way into it, passes the cap by at most one
\* chunk for every other operation.
CapOvershoot ==
    Cardinality(Ids(corpus) \cup Adding) <= Cap + Cardinality(Writer) - 1

\* At rest the graph is of the current corpus, unless two operations overlapped
\* (the older snapshot may have been installed last) or a commit deferred the
\* rebuild, and no operation has rebuilt it alone since.
GraphCurrent ==
    AtRest /\ ~raced =>
        /\ graph \subseteq Ids(corpus)
        /\ Cardinality(graph) = Least(SnapshotCap, Cardinality(Ids(corpus)))

\* The structures of one index agree, whatever fails and whatever overlaps, and the
\* corpus passes its cap by no more than the race of its writers explains; at rest the
\* graph is of the current corpus.
StructuresInSync ==
    IndexerTypeOK /\ StructuresAgree /\ SerialInSync /\ CapOvershoot /\ GraphCurrent

\* A search reads its lanes and the corpus at different moments. For a chunk nobody
\* works on meanwhile, and whose structures agree, it is exact: found if and only
\* if the corpus has it.
SearchExact ==
    \A s \in Searcher : spc[s] = "done" =>
        \A i \in settled[s] \ (contested \cup torn) : i \in hits[s] <=> corpus[i] # 0
=============================================================================
