--------------------------- MODULE IndexerProofs ---------------------------
(***************************************************************************)
(* A CodeIndexer, for any chunks, files, operations in flight, caps and    *)
(* failures: at rest its structures agree about every chunk that no two    *)
(* operations worked on at once (StructuresInSync), and a search is exact  *)
(* about the chunks nobody works on meanwhile (SearchExact).               *)
(*                                                                         *)
(* StructuresInSync speaks of moments of rest. What makes it inductive:    *)
(* two operations share only contested chunks (Owners); between the locks  *)
(* of an operation, each structure holds what the stage of the operation   *)
(* says (Whole, During); with one operation at a time the room that was    *)
(* checked is still there, so that Bm25Index refuses nothing, and the      *)
(* postings are those of the corpus but for what is in progress (Serial);  *)
(* and a snapshot taken alone stays current until it is installed          *)
(* (Rebuilt). For SearchExact, what a search has seen of the chunks nobody *)
(* works on is complete from its vector lane on (Searched).                *)
(***************************************************************************)
EXTENDS Indexer, FiniteSetTheorems, TLAPS

Storing == {"vector", "cache", "postings", "corpus"}
NoCorpus == {"rmCache", "rmPostings"}   \* removed from the corpus, not from the postings

OpType == [kind : {"none", "index", "last", "remove", "drop"}, file : File \cup {NoOp.file},
           todo : SUBSET Id, ids : SUBSET Id, ver : Version, snap : SUBSET Id]

Maps ==
    /\ corpus \in [Id -> Version] /\ vectors \in [Id -> Version]
    /\ postings \in [Id -> Version] /\ cache \in [Id -> Version]
    /\ entities \in [File -> Version] /\ graph \in SUBSET Id
    /\ Cardinality(Ids(cache)) <= CacheCap /\ Cardinality(graph) <= SnapshotCap

Operation(w) ==
    /\ op[w].todo \subseteq op[w].ids
    /\ pc[w] = "idle" => op[w].ids = {}
    /\ pc[w] \in Storing => op[w].todo # {}
    /\ Cardinality(op[w].snap) <= SnapshotCap

Operations ==
    /\ pc \in [Writer -> Label] /\ op \in [Writer -> OpType]
    /\ \A w \in Writer : Operation(w)

Searches ==
    /\ spc \in [Searcher -> {"idle", "hnsw", "bm25", "kg", "materialize", "done"}]
    /\ seen \in [Searcher -> SUBSET Id] /\ hits \in [Searcher -> SUBSET Id]
    /\ settled \in [Searcher -> SUBSET Id]

Types ==
    /\ Maps /\ Operations /\ Searches
    /\ overlap \in BOOLEAN /\ raced \in BOOLEAN /\ ops \in Nat /\ faults \in Nat

\* Two operations that work on one chunk have contested it.
Owners == \A w, u \in Writer : w # u => op[w].ids \cap op[u].ids \subseteq contested

-----------------------------------------------------------------------------
(* A chunk nobody contested.                                               *)

Posted(i) == postings[i] = corpus[i] \/ (overlap /\ postings[i] = 0)
Whole(i) == vectors[i] = corpus[i] /\ cache[i] \in {0, corpus[i]} /\ Posted(i)

\* The chunk an index_file is at, by the lock it takes next.
Half(w, i) ==
    /\ vectors[i] = op[w].ver
    /\ pc[w] = "cache" => cache[i] \in {0, corpus[i]}
    /\ pc[w] # "cache" => cache[i] \in {0, op[w].ver}
    /\ pc[w] # "corpus" => Posted(i)
    /\ pc[w] = "corpus" => postings[i] = op[w].ver \/ (overlap /\ postings[i] = 0)

\* A chunk that is being removed.
Leaving(w, i) ==
    /\ vectors[i] = 0
    /\ pc[w] \in {"rmVector", "rmCorpus"} => cache[i] \in {0, corpus[i]} /\ Posted(i)
    /\ pc[w] \in NoCorpus => corpus[i] = 0
    /\ pc[w] = "rmPostings" => cache[i] = 0

During(w, i) ==
    IF pc[w] \in {"cache", "postings", "corpus"} /\ i = Current(w) THEN Half(w, i)
    ELSE IF pc[w] \in {"rmCorpus"} \cup NoCorpus \/ (pc[w] = "rmVector" /\ i \notin op[w].todo)
         THEN Leaving(w, i) ELSE Whole(i)

Chunk(i) ==
    /\ (\A w \in Writer : i \notin op[w].ids) => Whole(i)
    /\ \A w \in Writer : i \in op[w].ids => During(w, i)

ChunkInv == \A i \in Id \ (contested \cup torn) : Chunk(i)

-----------------------------------------------------------------------------
(* The corpus as a whole.                                                  *)

AtMostOne == \A w, u \in Writer : pc[w] # "idle" /\ pc[u] # "idle" => w = u

\* With one operation at a time, the corpus and the postings differ at most at the chunk
\* or chunks that are between the two, and the room that was checked is still there.
Progress(w) ==
    /\ pc[w] \in Storing => RoomFor(Current(w))
    /\ pc[w] = "corpus" => postings[Current(w)] = op[w].ver
    /\ pc[w] \in NoCorpus => \A i \in op[w].ids : corpus[i] = 0
    /\ \A i \in Id : \/ postings[i] = corpus[i]
                     \/ pc[w] = "corpus" /\ i = Current(w)
                     \/ pc[w] \in NoCorpus /\ i \in op[w].ids

Serial == ~overlap =>
    /\ AtMostOne /\ Cardinality(Ids(corpus)) <= Cap
    /\ InFlight = {} => postings = corpus
    /\ \A w \in InFlight : Progress(w)

Built(s) ==
    /\ s \subseteq Ids(corpus)
    /\ Cardinality(s) = Least(SnapshotCap, Cardinality(Ids(corpus)))

\* The graph is current until the operation that began last changes the corpus, and a
\* snapshot taken alone is until it is installed.
Ready(w) ==
    /\ pc[w] \in {"check", "vector"} => Built(graph)
    /\ pc[w] = "install" => Built(op[w].snap)

Rebuilt == ~raced =>
    /\ AtMostOne
    /\ InFlight = {} => Built(graph)
    /\ \A w \in InFlight : Ready(w)

SyncInv == Types /\ Owners /\ ChunkInv /\ Serial /\ CapOvershoot /\ Rebuilt

-----------------------------------------------------------------------------
(* A search.                                                               *)

\* Of the chunks nobody has worked on since a search began, it has seen those the corpus
\* has once the vector lane is through.
Searched(s) == \A i \in settled[s] :
    /\ \A w \in Writer : i \notin op[w].ids
    /\ i \notin contested \cup torn =>
          /\ spc[s] \in {"bm25", "kg", "materialize"} /\ corpus[i] # 0 => i \in seen[s]
          /\ spc[s] = "done" => (i \in hits[s] <=> corpus[i] # 0)

SearchInv == SyncInv /\ \A s \in Searcher : Searched(s)


-----------------------------------------------------------------------------
(* The operators on maps.                                                  *)

\* Pick gives a member, as long as there is one.
LEMMA PickIn == \A ids \in SUBSET Id : ids # {} => Pick(ids) \in ids
  BY DEF Pick

\* The ids of a map are finitely many.
LEMMA IdsFinite == \A ids \in SUBSET Id : IsFiniteSet(ids) /\ Cardinality(ids) \in Nat
  BY IndexerAssumption, FS_Subset, FS_CardinalityType

\* A subset has no more members.
LEMMA Fewer == \A a, b \in SUBSET Id : a \subseteq b => Cardinality(a) <= Cardinality(b)
  BY IdsFinite, FS_Subset

\* Least is the minimum.
LEMMA LeastIs == \A m, n \in Nat : Least(m, n) \in Nat /\ Least(m, n) <= m /\ Least(m, n) <= n
  BY DEF Least

\* A put into the cache stores the embedding or finds it at once evicted; no other entry
\* changes but to be evicted, and the cache is within its capacity.
LEMMA PutIs ==
    ASSUME NEW m \in [Id -> Version], NEW i \in Id, NEW v \in Version,
           Cardinality(Ids(m)) <= CacheCap, NEW c \in Put(m, i, v)
    PROVE  /\ c \in [Id -> Version] /\ Cardinality(Ids(c)) <= CacheCap
           /\ c[i] \in {0, v}
           /\ \A j \in Id \ {i} : c[j] \in {0, m[j]}
<1> DEFINE full == [m EXCEPT ![i] = v]
<1>1. full \in [Id -> Version] /\ full[i] = v /\ \A j \in Id \ {i} : full[j] = m[j]
  OBVIOUS
<1>2. Ids(full) \in SUBSET Id /\ Ids(m) \in SUBSET Id /\ Ids(full) \subseteq Ids(m) \cup {i}
  BY <1>1 DEF Ids
<1>3. /\ Cardinality(Ids(full)) \in Nat /\ Cardinality(Ids(m)) \in Nat
      /\ Cardinality(Ids(full)) <= Cardinality(Ids(m)) + 1
  <2>1. IsFiniteSet(Ids(m))
    BY <1>2, IdsFinite
  <2>2. /\ IsFiniteSet(Ids(m) \cup {i})
        /\ Cardinality(Ids(m) \cup {i}) \in {Cardinality(Ids(m)), Cardinality(Ids(m)) + 1}
    BY <2>1, FS_AddElement
  <2>3. Cardinality(Ids(full)) <= Cardinality(Ids(m) \cup {i})
    BY <1>2, <2>2, FS_Subset
  <2>4. Cardinality(Ids(full)) \in Nat /\ Cardinality(Ids(m)) \in Nat
    BY <1>2, IdsFinite
  <2> QED BY <2>2, <2>3, <2>4
<1> HIDE DEF full
<1>4. CASE Cardinality(Ids(full)) <= CacheCap
  <2>1. c = full
    BY <1>4 DEF Put, full
  <2> QED BY <1>1, <1>4, <2>1
<1>5. CASE ~(Cardinality(Ids(full)) <= CacheCap)
  <2>1. PICK e \in Ids(full) \ {i} : c = [full EXCEPT ![e] = 0]
    BY <1>5 DEF Put, full
  <2>2. e \in Id /\ e # i
    BY <1>2, <2>1
  <2>3. /\ c \in [Id -> Version] /\ c[e] = 0
        /\ \A j \in Id \ {e} : c[j] = full[j]
    BY <1>1, <2>1, <2>2, IndexerAssumption DEF Version
  <2>4. Ids(c) = Ids(full) \ {e}
    BY <2>2, <2>3 DEF Ids
  <2>5. Cardinality(Ids(c)) = Cardinality(Ids(full)) - 1
    <3>1. IsFiniteSet(Ids(full))
      BY <1>2, IdsFinite
    <3> QED BY <2>1, <2>4, <3>1, FS_RemoveElement
  <2>6. Cardinality(Ids(c)) <= CacheCap
    BY <1>3, <2>5, IndexerAssumption
  <2> QED BY <1>1, <2>2, <2>3, <2>6
<1> QED BY <1>4, <1>5

\* The same of the puts of a batch.
LEMMA PutAllIs ==
    ASSUME NEW m \in [Id -> Version], NEW ids \in SUBSET Id, NEW v \in Version,
           NEW c \in PutAll(m, ids, v)
    PROVE  /\ c \in [Id -> Version] /\ Cardinality(Ids(c)) <= CacheCap
           /\ \A i \in ids : c[i] \in {0, v}
           /\ \A i \in Id \ ids : c[i] \in {0, m[i]}
<1>1. /\ Cardinality(Ids(c)) = Least(CacheCap, Cardinality(Ids(m) \cup ids))
      /\ \A i \in ids : c[i] \in {0, v}
  BY DEF PutAll
<1>2. Cardinality(Ids(c)) <= CacheCap
  <2>1. Ids(m) \cup ids \in SUBSET Id
    BY DEF Ids
  <2>2. Cardinality(Ids(m) \cup ids) \in Nat
    BY <2>1, IdsFinite
  <2> QED BY <1>1, <2>2, LeastIs, IndexerAssumption
<1>3. /\ c \in [Id -> Version]
      /\ \A i \in Id \ ids : c[i] \in {0, m[i]}
  <2>1. PICK e \in SUBSET Id : c = With(m, e, 0) \/ c = With(With(m, ids, v), e, 0)
    BY DEF PutAll
  <2>2. CASE c = With(m, e, 0)
    BY <2>2, IndexerAssumption DEF With, Version
  <2>3. CASE c = With(With(m, ids, v), e, 0)
    BY <2>3, IndexerAssumption DEF With, Version
  <2> QED BY <2>1, <2>2, <2>3
<1> QED BY <1>1, <1>2, <1>3

\* A cap keeps every update and no more new ids than there is room for; what it kept once
\* it keeps again, which is why the second cap of a commit (ingest.rs) takes nothing.
LEMMA CappedIs ==
    ASSUME NEW m \in [Id -> Version], NEW ids \in SUBSET Id, NEW k \in Capped(m, ids)
    PROVE  /\ k \in SUBSET ids /\ ids \cap Ids(m) \subseteq k
           /\ \/ Cardinality(Ids(m) \cup k) <= Cap
              \/ k \subseteq Ids(m)
           /\ \A q \in Capped(m, k) : q = k
<1> DEFINE n == Cardinality(Ids(m))
           room == IF n >= Cap THEN 0 ELSE Cap - n
           new == k \ Ids(m)
<1>1. /\ k \in SUBSET ids /\ ids \cap Ids(m) \subseteq k
      /\ Cardinality(new) = Least(room, Cardinality(ids \ Ids(m)))
  BY DEF Capped
<1>2. /\ Ids(m) \in SUBSET Id /\ new \in SUBSET Id /\ ids \ Ids(m) \in SUBSET Id
      /\ Ids(m) \cup k = Ids(m) \cup new /\ Ids(m) \cap new = {}
  BY <1>1 DEF Ids
<1>3. /\ n \in Nat /\ Cardinality(new) \in Nat /\ Cardinality(ids \ Ids(m)) \in Nat
      /\ IsFiniteSet(new) /\ IsFiniteSet(Ids(m))
  BY <1>2, IdsFinite
<1>4. room \in Nat /\ Cap \in Nat
  BY <1>3, IndexerAssumption
<1>5. Cardinality(new) <= room
  BY <1>1, <1>3, <1>4, LeastIs
<1>6. Cardinality(Ids(m) \cup k) = n + Cardinality(new)
  <2>1. Cardinality(Ids(m) \cup new) = n + Cardinality(new) - Cardinality(Ids(m) \cap new)
    BY <1>3, FS_Union
  <2>2. Cardinality(Ids(m) \cap new) = 0
    BY <1>2, FS_EmptySet
  <2>3. Cardinality(Ids(m) \cup k) = Cardinality(Ids(m) \cup new)
    BY <1>2
  <2>4. \A a, b, d \in Nat : d = 0 => a + b - d = a + b
    OBVIOUS
  <2> HIDE DEF new, n
  <2> QED BY <1>3, <2>1, <2>2, <2>3, <2>4
<1>7. \/ Cardinality(Ids(m) \cup k) <= Cap
      \/ k \subseteq Ids(m)
  <2>1. CASE n >= Cap
    <3>1. Cardinality(new) = 0
      BY <1>3, <1>5, <2>1
    <3>2. new = {}
      BY <1>3, <3>1, FS_EmptySet
    <3> QED BY <3>2
  <2>2. CASE n < Cap
    <3> HIDE DEF new, n
    <3> QED BY <1>3, <1>4, <1>5, <1>6, <2>2
  <2> QED BY <1>3, <1>4, <2>1, <2>2
<1>8. ASSUME NEW q \in Capped(m, k) PROVE q = k
  <2>1. /\ q \in SUBSET k /\ k \cap Ids(m) \subseteq q
        /\ Cardinality(q \ Ids(m)) = Least(room, Cardinality(new))
    BY <1>8 DEF Capped
  <2>2. Cardinality(q \ Ids(m)) = Cardinality(new)
    BY <1>3, <1>4, <1>5, <2>1 DEF Least
  <2>3. q \ Ids(m) \in SUBSET new
    BY <2>1
  <2>4. q \ Ids(m) = new
    BY <1>3, <2>2, <2>3, FS_Subset
  <2> QED BY <2>1, <2>4
<1> QED BY <1>1, <1>7, <1>8

-----------------------------------------------------------------------------
(* Types.                                                                  *)

\* The parts make up the type invariant of the module.
LEMMA TypesSuffice == Types => IndexerTypeOK
<1> SUFFICES ASSUME Types PROVE IndexerTypeOK
  OBVIOUS
<1> USE DEF Types, Maps, Operations, Operation, Searches
<1>1. \A m \in {corpus, vectors, postings, cache} : m \in [Id -> Version]
  OBVIOUS
<1>2. \A w \in Writer : op[w].todo \subseteq op[w].ids /\ op[w].ids \subseteq Id
  BY DEF OpType
<1>3. Cardinality({i \in Id : cache[i] # 0}) <= CacheCap
  BY DEF Ids
<1> QED BY <1>1, <1>2, <1>3 DEF IndexerTypeOK

\* They hold in the empty indexer.
LEMMA InitTypes == Init => Types
<1> SUFFICES ASSUME Init PROVE Types
  OBVIOUS
<1> USE IndexerAssumption DEF Init
<1>1. 0 \in Version /\ Cardinality({}) = 0
  BY FS_EmptySet DEF Version
<1>2. Maps
  <2>1. Ids(cache) = {} /\ graph = {}
    BY DEF Ids
  <2>2. [i \in Id |-> 0] \in [Id -> Version] /\ [f \in File |-> 0] \in [File -> Version]
    BY ONLY <1>1
  <2>3. CacheCap >= 0 /\ SnapshotCap >= 0
    BY IndexerAssumption
  <2>4. /\ corpus \in [Id -> Version] /\ vectors \in [Id -> Version]
        /\ postings \in [Id -> Version] /\ cache \in [Id -> Version]
        /\ entities \in [File -> Version]
    BY <2>2
  <2> QED BY ONLY <1>1, <2>1, <2>3, <2>4 DEF Maps
<1>3. Operations
  <2>1. /\ NoOp \in OpType /\ NoOp.ids = {} /\ NoOp.todo = {}
        /\ Cardinality(NoOp.snap) <= SnapshotCap
    BY <1>1 DEF NoOp, OpType
  <2>2. \A w \in Writer : pc[w] = "idle" /\ op[w] = NoOp
    OBVIOUS
  <2>3. \A w \in Writer : Operation(w)
    BY <1>1, <2>1, <2>2 DEF Operation, Storing
  <2> QED BY <2>1, <2>3 DEF Operations, Label
<1>4. Searches
  BY DEF Searches
<1> QED BY <1>2, <1>3, <1>4 DEF Types

-----------------------------------------------------------------------------
(* What the steps of an operation have in common.                          *)

Others(w) ==
    /\ pc' \in [Writer -> Label] /\ op' \in [Writer -> OpType]
    /\ \A u \in Writer \ {w} : pc'[u] = pc[u] /\ op'[u] = op[u]

\* The operation of w goes on: what it has still to do, and the snapshot it took.
Moves(w, label, todo, snap) ==
    /\ Others(w) /\ pc'[w] = label
    /\ op'[w].ids = op[w].ids /\ op'[w].ver = op[w].ver
    /\ op'[w].todo = todo /\ op'[w].snap = snap

\* The operation of w ends.
Ends(w) == Others(w) /\ pc'[w] = "idle" /\ op'[w] = NoOp

\* A writer begins one.
Starts(w, label, ids, v) ==
    /\ Others(w) /\ pc'[w] = label
    /\ op'[w].ids = ids /\ op'[w].ver = v /\ op'[w].todo = ids /\ op'[w].snap = {}

\* An operation that goes on stays well-formed.
LEMMA MovesWell ==
    ASSUME Operations, NEW w \in Writer, NEW label \in Label, NEW todo, NEW snap,
           Moves(w, label, todo, snap), todo \subseteq op[w].todo, label # "idle",
           label \in Storing => todo # {}, Cardinality(snap) <= SnapshotCap
    PROVE  Operations'
<1>1. ASSUME NEW u \in Writer PROVE Operation(u)'
  <2>1. CASE u = w
    BY <2>1 DEF Operation, Moves, Operations
  <2>2. CASE u # w
    BY <2>2 DEF Operations, Operation, Moves, Others
  <2> QED BY <2>1, <2>2
<1> QED BY <1>1 DEF Operations, Moves, Others

\* No operation is a well-formed one.
LEMMA EndsWell == ASSUME Operations, NEW w \in Writer, Ends(w) PROVE Operations'
<1>1. NoOp.ids = {} /\ NoOp.todo = {} /\ Cardinality(NoOp.snap) <= SnapshotCap
  BY FS_EmptySet, IndexerAssumption DEF NoOp
<1>2. ASSUME NEW u \in Writer PROVE Operation(u)'
  <2>1. CASE u = w
    BY <1>1, <2>1 DEF Operation, Ends, Storing
  <2>2. CASE u # w
    BY <2>2 DEF Operations, Operation, Ends, Others
  <2> QED BY <2>1, <2>2
<1> QED BY <1>2 DEF Operations, Ends, Others

\* A new operation is well-formed.
LEMMA StartsWell ==
    ASSUME Operations, NEW w \in Writer, NEW label \in Label \ (Storing \cup {"idle"}),
           NEW ids \in SUBSET Id, NEW v, Starts(w, label, ids, v)
    PROVE  Operations'
<1>1. Cardinality({}) <= SnapshotCap
  BY FS_EmptySet, IndexerAssumption
<1>2. ASSUME NEW u \in Writer PROVE Operation(u)'
  <2>1. CASE u = w
    BY <1>1, <2>1 DEF Operation, Starts
  <2>2. CASE u # w
    BY <2>2 DEF Operations, Operation, Starts, Others
  <2> QED BY <2>1, <2>2
<1> QED BY <1>2 DEF Operations, Starts, Others

\* Who takes on no chunk contests none.
LEMMA OwnersNext ==
    ASSUME Owners, \A u \in Writer : op'[u].ids \subseteq op[u].ids, contested' = contested
    PROVE  Owners'
  BY DEF Owners

\* A step of w touches of another's chunk at most the cached embedding, which it may evict.
Spares(w) ==
    \A i \in Id \ op[w].ids :
        /\ corpus'[i] = corpus[i] /\ vectors'[i] = vectors[i] /\ postings'[i] = postings[i]
        /\ cache'[i] \in {0, cache[i]}

Clean(i) == i \in Id \ (contested \cup torn)

\* Every chunk keeps its promises in a step of w that keeps them for the chunks of w.
LEMMA ChunkNext ==
    ASSUME Operations, Owners, ChunkInv, NEW w \in Writer, Others(w), Spares(w),
           contested \subseteq contested', torn \subseteq torn', overlap => overlap',
           op'[w].ids \subseteq op[w].ids,
           \A i \in op[w].ids : Clean(i) /\ Clean(i)' =>
               IF i \in op'[w].ids THEN During(w, i)' ELSE Whole(i)'
    PROVE  ChunkInv'
<1> SUFFICES ASSUME NEW i \in Id, Clean(i)' PROVE Chunk(i)'
  BY DEF ChunkInv, Clean
<1>1. Clean(i) /\ Chunk(i)
  BY DEF ChunkInv, Clean
<1>2. CASE i \in op[w].ids
  <2>1. \A u \in Writer \ {w} : i \notin op'[u].ids
    BY <1>1, <1>2 DEF Owners, Clean, Others
  <2> QED BY <1>1, <1>2, <2>1 DEF Chunk
<1>3. CASE i \notin op[w].ids
  <2>1. i \notin op'[w].ids
    BY <1>3
  <2>2. /\ corpus'[i] = corpus[i] /\ vectors'[i] = vectors[i] /\ postings'[i] = postings[i]
        /\ cache'[i] \in {0, cache[i]}
    BY <1>3 DEF Spares
  <2>3. Whole(i) => Whole(i)'
    BY <2>2 DEF Whole, Posted
  <2>4. ASSUME NEW u \in Writer \ {w}, During(u, i) PROVE During(u, i)'
    <3>1. pc'[u] = pc[u] /\ op'[u] = op[u] /\ Current(u)' = Current(u)
      BY DEF Others, Current
    <3>2. Half(u, i) => Half(u, i)'
      BY <2>2, <3>1 DEF Half, Posted
    <3>3. Leaving(u, i) => Leaving(u, i)'
      BY <2>2, <3>1 DEF Leaving, Posted, NoCorpus
    <3> QED BY <2>3, <2>4, <3>1, <3>2, <3>3 DEF During
  <2>5. \A u \in Writer \ {w} : op'[u] = op[u]
    BY DEF Others
  <2> QED BY <1>1, <1>3, <2>1, <2>3, <2>4, <2>5 DEF Chunk
<1> QED BY <1>2, <1>3

\* With one operation in flight, the promises about corpus and postings are its own.
LEMMA SerialNext ==
    ASSUME Serial, NEW w \in Writer, Others(w), pc[w] # "idle", overlap' = overlap,
           ~overlap /\ Cardinality(Ids(corpus)) <= Cap /\ Progress(w) =>
               /\ Cardinality(Ids(corpus)') <= Cap
               /\ IF pc'[w] = "idle" THEN postings' = corpus' ELSE Progress(w)'
    PROVE  Serial'
<1> SUFFICES ASSUME ~overlap PROVE Serial'
  BY DEF Serial
<1>1. AtMostOne /\ Cardinality(Ids(corpus)) <= Cap /\ Progress(w)
  BY DEF Serial, InFlight
<1>2. \A u \in Writer \ {w} : pc'[u] = "idle"
  BY <1>1 DEF AtMostOne, Others
<1>3. CASE pc'[w] = "idle"
  BY <1>1, <1>2, <1>3 DEF Serial, AtMostOne, InFlight
<1>4. CASE pc'[w] # "idle"
  BY <1>1, <1>2, <1>4 DEF Serial, AtMostOne, InFlight
<1> QED BY <1>3, <1>4

\* The same for the graph.
LEMMA RebuiltNext ==
    ASSUME Rebuilt, NEW w \in Writer, Others(w), pc[w] # "idle", raced' = raced,
           Ready(w) => IF pc'[w] = "idle" THEN Built(graph)' ELSE Ready(w)'
    PROVE  Rebuilt'
<1> SUFFICES ASSUME ~raced PROVE Rebuilt'
  BY DEF Rebuilt
<1>1. AtMostOne /\ Ready(w)
  BY DEF Rebuilt, InFlight
<1>2. \A u \in Writer \ {w} : pc'[u] = "idle"
  BY <1>1 DEF AtMostOne, Others
<1>3. CASE pc'[w] = "idle"
  BY <1>1, <1>2, <1>3 DEF Rebuilt, AtMostOne, InFlight
<1>4. CASE pc'[w] # "idle"
  BY <1>1, <1>2, <1>4 DEF Rebuilt, AtMostOne, InFlight
<1> QED BY <1>3, <1>4

SmallAdding == Adding \in SUBSET Id /\ Cardinality(Adding) <= Cardinality(Writer)

\* The chunks on their way are no more than their writers.
LEMMA AddingSmall == Operations => SmallAdding
<1> SUFFICES ASSUME Operations PROVE SmallAdding
  OBVIOUS
<1> DEFINE S == {w \in Writer : pc[w] \in Storing}
           f == [w \in S |-> Current(w)]
<1>1. Adding = {Current(w) : w \in S}
  BY DEF Adding, Storing
<1>2. \A w \in S : Current(w) \in Id
  BY PickIn DEF Operations, Operation, OpType, Current
<1>3. f \in Surjection(S, Adding)
  BY <1>1 DEF Surjection
<1>4. IsFiniteSet(S) /\ Cardinality(S) <= Cardinality(Writer)
  BY IndexerAssumption, FS_Subset
<1>5. IsFiniteSet(Adding) /\ Cardinality(Adding) <= Cardinality(S)
  <2> HIDE DEF S, f
  <2> QED BY <1>3, <1>4, FS_Surjection
<1>6. Cardinality(Adding) \in Nat /\ Cardinality(S) \in Nat /\ Cardinality(Writer) \in Nat
  BY <1>4, <1>5, IndexerAssumption, FS_CardinalityType
<1> HIDE DEF S, f
<1>7. \A a, b, c \in Nat : a <= b /\ b <= c => a <= c
  OBVIOUS
<1> QED BY <1>1, <1>2, <1>4, <1>5, <1>6, <1>7 DEF SmallAdding

\* ... after a step, too.
LEMMA AddingSmallNext == Operations' => SmallAdding'
  BY AddingSmall, PTL

\* The corpus below its cap, and one chunk of every writer.
LEMMA RoomLeft ==
    ASSUME NEW stored \in SUBSET Id, NEW coming \in SUBSET Id,
           Cardinality(stored) < Cap, Cardinality(coming) <= Cardinality(Writer)
    PROVE  Cardinality(stored \cup coming) <= Cap + Cardinality(Writer) - 1
<1>1. /\ IsFiniteSet(stored) /\ IsFiniteSet(coming)
      /\ stored \cap coming \in SUBSET Id /\ stored \cup coming \in SUBSET Id
      /\ Cardinality(stored \cup coming)
            = Cardinality(stored) + Cardinality(coming) - Cardinality(stored \cap coming)
  BY IdsFinite, FS_Union
<1>2. /\ Cardinality(stored) \in Nat /\ Cardinality(coming) \in Nat
      /\ Cardinality(stored \cap coming) \in Nat /\ Cardinality(Writer) \in Nat
  BY <1>1, IdsFinite, IndexerAssumption, FS_CardinalityType
<1>3. \A a, b, c, d, n \in Nat : a < n /\ b <= d => a + b - c <= n + d - 1
  OBVIOUS
<1> QED BY <1>1, <1>2, <1>3, IndexerAssumption

\* What stores nothing new and begins to store nothing new stays within the cap.
LEMMA CapNext ==
    ASSUME CapOvershoot, Operations,
           Ids(corpus)' \cup Adding' \subseteq Ids(corpus) \cup Adding
    PROVE  CapOvershoot'
<1> DEFINE now == Ids(corpus) \cup Adding
           then == Ids(corpus)' \cup Adding'
<1>1. now \in SUBSET Id /\ then \in SUBSET Id
  BY AddingSmall DEF Ids, SmallAdding
<1>2. Cardinality(now) \in Nat /\ Cardinality(then) \in Nat /\ Cardinality(Writer) \in Nat
  BY <1>1, IdsFinite, IndexerAssumption, FS_CardinalityType
<1>3. Cardinality(then) <= Cardinality(now)
  BY <1>1, Fewer
<1>4. \A a, b, c, d \in Nat : a <= b /\ b <= c + d - 1 => a <= c + d - 1
  OBVIOUS
<1> HIDE DEF now, then
<1>5. Cardinality(then) <= Cap + Cardinality(Writer) - 1
  <2>1. Cardinality(now) <= Cap + Cardinality(Writer) - 1
    BY DEF CapOvershoot, now
  <2> QED BY <1>2, <1>3, <1>4, <2>1, IndexerAssumption
<1> QED BY <1>5 DEF CapOvershoot, then

\* Who is past the check was past it before.
LEMMA AddingNext ==
    ASSUME NEW w \in Writer, Others(w),
           pc'[w] \in Storing => pc[w] \in Storing /\ op'[w].todo = op[w].todo
    PROVE  Adding' \subseteq Adding
<1> SUFFICES ASSUME NEW u \in Writer, pc'[u] \in Storing
             PROVE  pc[u] \in Storing /\ Current(u)' = Current(u)
  BY DEF Adding, Storing
<1> QED BY DEF Others, Current

\* What the types say of one operation.
LEMMA OperationIs ==
    ASSUME Types, NEW w \in Writer
    PROVE  /\ pc[w] \in Label /\ op[w] \in OpType
           /\ op[w].todo \in SUBSET op[w].ids /\ op[w].ids \in SUBSET Id /\ op[w].ver \in Version
           /\ op[w].snap \in SUBSET Id /\ Cardinality(op[w].snap) <= SnapshotCap
           /\ pc[w] = "idle" => op[w].ids = {}
           /\ pc[w] \in Storing => Current(w) \in op[w].todo /\ Current(w) \in Id
<1>1. /\ pc[w] \in Label /\ op[w] \in OpType /\ Operation(w)
  BY DEF Types, Operations
<1>2. op[w].todo \in SUBSET Id /\ op[w].ids \in SUBSET Id
  BY <1>1 DEF Operation, OpType
<1> QED BY <1>1, <1>2, PickIn DEF Operation, OpType, Current

\* An operation on clean chunks knows what each structure holds of them.
LEMMA DuringIs ==
    ASSUME ChunkInv, NEW w \in Writer, NEW i \in op[w].ids, Clean(i)
    PROVE  During(w, i)
  BY DEF ChunkInv, Clean, Chunk

\* A step that leaves corpus, postings and graph, to a place with no new promise about them.
LEMMA StillSerial ==
    ASSUME SyncInv, NEW w \in Writer, Others(w), pc[w] # "idle",
           overlap' = overlap, raced' = raced, corpus' = corpus, postings' = postings,
           graph' = graph,
           op'[w].ids = op[w].ids,
           pc'[w] \in Label \ ({"idle", "corpus", "install"} \cup NoCorpus),
           pc[w] \notin {"corpus"} \cup NoCorpus,
           pc'[w] \in Storing => pc[w] \in Storing /\ op'[w].todo = op[w].todo,
           pc'[w] \in {"check", "vector"} => pc[w] \in {"check", "vector"}
    PROVE  Serial' /\ CapOvershoot' /\ Rebuilt'
<1>1. Progress(w) => Progress(w)'
  BY DEF Progress, RoomFor, Ids, NoCorpus, Storing, Current
<1>2. Serial'
  <2>1. Ids(corpus)' = Ids(corpus)
    BY DEF Ids
  <2> QED BY <1>1, <2>1, SerialNext DEF SyncInv
<1>3. CapOvershoot'
  <2>1. Ids(corpus)' = Ids(corpus) /\ Adding' \subseteq Adding
    BY AddingNext DEF Ids
  <2> QED BY <2>1, CapNext DEF SyncInv, Types
<1>4. Rebuilt'
  <2>1. Ready(w) => Ready(w)'
    BY DEF Ready, Built, Ids
  <2> QED BY <2>1, RebuiltNext DEF SyncInv
<1> QED BY <1>2, <1>3, <1>4

-----------------------------------------------------------------------------
(* index_file.                                                             *)

\* The vector is stored first.
LEMMA AddVectorStep == ASSUME SyncInv, NEW w \in Writer, AddVector(w) PROVE SyncInv'
<1> DEFINE c == Current(w)
<1>1. /\ Types /\ Operations /\ Owners /\ ChunkInv /\ pc[w] = "vector"
      /\ c \in op[w].todo /\ c \in Id /\ op[w].todo \in SUBSET op[w].ids /\ op[w].ver \in Version
  BY OperationIs DEF SyncInv, AddVector, Storing, Types
<1>2. Moves(w, "cache", op[w].todo, op[w].snap)
  BY <1>1 DEF AddVector, Goto, Moves, Others, Operations, Label
<1>3. Others(w) /\ pc'[w] = "cache" /\ Current(w)' = c /\ op'[w] = op[w]
  BY <1>1, <1>2 DEF Moves, Current, AddVector
<1>4. Types'
  <2>1. Operations'
    BY <1>1, <1>2, MovesWell DEF Label, Operations, Operation
  <2>2. vectors' \in [Id -> Version]
    BY <1>1 DEF AddVector, Types, Maps
  <2> QED BY <1>1, <2>1, <2>2 DEF AddVector, Types, Maps, Searches, searching, history, Ids
<1>5. Owners'
  BY <1>1, <1>3, OwnersNext DEF AddVector, history, Others
<1>6. ChunkInv'
  <2>1. Spares(w)
    BY <1>1 DEF AddVector, Spares, Types, Maps
  <2>2. ASSUME NEW i \in op[w].ids, Clean(i) PROVE During(w, i)'
    <3>1. Whole(i)
      BY <1>1, <2>2, DuringIs DEF During, NoCorpus
    <3>2. i \in Id
      BY <2>2 DEF Clean
    <3>3. CASE i = c
      BY <1>1, <1>3, <3>1, <3>2, <3>3 DEF AddVector, During, Half, Whole, Posted, history, Types, Maps
    <3>4. CASE i # c
      BY <1>1, <1>3, <3>1, <3>2, <3>4 DEF AddVector, During, Whole, Posted, history, Types, Maps, NoCorpus
    <3> QED BY <3>3, <3>4
  <2> QED BY <1>1, <1>3, <2>1, <2>2, ChunkNext DEF AddVector, history
<1>7. Serial' /\ CapOvershoot' /\ Rebuilt'
  BY <1>1, <1>3, StillSerial DEF AddVector, history, Label, Storing, NoCorpus
<1> QED BY <1>4, <1>5, <1>6, <1>7 DEF SyncInv

\* The check of the cap: room, no room, or no chunk left.
LEMMA AddCheckStep == ASSUME SyncInv, NEW w \in Writer, AddCheck(w) PROVE SyncInv'
<1> DEFINE c == Current(w)
<1>1. /\ Types /\ Operations /\ Owners /\ ChunkInv /\ pc[w] = "check"
      /\ op[w].todo \in SUBSET op[w].ids /\ op[w].ids \in SUBSET Id /\ op[w] \in OpType
      /\ op[w].todo # {} => c \in op[w].todo /\ c \in Id
      /\ Cardinality(op[w].snap) <= SnapshotCap
  BY OperationIs, PickIn DEF SyncInv, AddCheck, Types, Current
<1>2. \/ /\ op[w].todo = {} /\ Moves(w, "entities", op[w].todo, op[w].snap)
      \/ /\ op[w].todo # {} /\ ~RoomFor(c) /\ Moves(w, "check", op[w].todo \ {c}, op[w].snap)
      \/ /\ op[w].todo # {} /\ RoomFor(c) /\ Moves(w, "vector", op[w].todo, op[w].snap)
  <2>1. CASE op[w].todo = {}
    BY <1>1, <2>1 DEF AddCheck, Goto, Moves, Others, Operations, Label
  <2>2. CASE op[w].todo # {} /\ ~RoomFor(c)
    BY <1>1, <2>2 DEF AddCheck, Advance, Moves, Others, Operations, Label, OpType
  <2>3. CASE op[w].todo # {} /\ RoomFor(c)
    BY <1>1, <2>3 DEF AddCheck, Goto, Moves, Others, Operations, Label
  <2> QED BY <2>1, <2>2, <2>3
<1>3. /\ Others(w) /\ op'[w].ids = op[w].ids /\ pc'[w] \in {"entities", "check", "vector"}
      /\ op'[w].todo \in SUBSET op[w].todo
  BY <1>2 DEF Moves
<1>4. Types'
  <2>1. Operations'
    BY <1>1, <1>2, MovesWell DEF Label, Storing
  <2> QED BY <1>1, <2>1
          DEF AddCheck, Types, Maps, Searches, searching, history, structures, Ids
<1>5. Owners'
  BY <1>1, <1>3, OwnersNext DEF AddCheck, history, Others
<1>6. ChunkInv'
  <2>1. Spares(w)
    BY <1>1 DEF AddCheck, Spares, structures
  <2>2. ASSUME NEW i \in op[w].ids, Clean(i) PROVE During(w, i)'
    <3>1. Whole(i)
      BY <1>1, <2>2, DuringIs DEF During, NoCorpus
    <3> QED BY <1>3, <3>1 DEF AddCheck, During, Whole, Posted, structures, history, NoCorpus
  <2> QED BY <1>1, <1>3, <2>1, <2>2, ChunkNext DEF AddCheck, history
<1>7. CASE pc'[w] # "vector"
  <2>1. Serial' /\ CapOvershoot' /\ Rebuilt'
    BY <1>1, <1>3, <1>7, StillSerial
       DEF AddCheck, structures, history, Label, Storing, NoCorpus
  <2> QED BY <1>4, <1>5, <1>6, <2>1 DEF SyncInv
<1>8. CASE pc'[w] = "vector"
  <2>1. RoomFor(c) /\ c \in Id /\ op'[w].todo = op[w].todo /\ Current(w)' = c
    BY <1>1, <1>2, <1>8 DEF Moves, Current
  <2>2. Ids(corpus)' = Ids(corpus) /\ RoomFor(c)'
    BY <2>1 DEF AddCheck, structures, Ids, RoomFor
  <2>3. Serial'
    <3>1. Progress(w) => Progress(w)'
      BY <1>1, <1>8, <2>1, <2>2 DEF Progress, AddCheck, structures, Storing, NoCorpus
    <3> QED BY <1>1, <1>3, <1>8, <2>2, <3>1, SerialNext DEF SyncInv, AddCheck, history
  <2>4. Rebuilt'
    <3>1. Ready(w) => Ready(w)'
      BY <1>1, <1>8 DEF Ready, Built, Ids, AddCheck, structures
    <3> QED BY <1>1, <1>3, <1>8, <3>1, RebuiltNext DEF SyncInv, AddCheck
  <2>5. CapOvershoot'
    <3>1. Adding' \subseteq Adding \cup {c}
      BY <1>1, <1>3, <2>1 DEF Adding, Current, Others, Storing
    <3>2. CASE corpus[c] # 0
      <4>1. c \in Ids(corpus)
        BY <2>1, <3>2 DEF Ids
      <4> QED BY <1>1, <2>2, <3>1, <4>1, CapNext DEF SyncInv
    <3>3. CASE Cardinality(Ids(corpus)) < Cap
      <4>1. Adding' \in SUBSET Id /\ Cardinality(Adding') <= Cardinality(Writer)
        BY <1>4, AddingSmallNext DEF Types, SmallAdding
      <4>2. Ids(corpus) \in SUBSET Id
        BY DEF Ids
      <4> QED BY <2>2, <3>3, <4>1, <4>2, RoomLeft DEF CapOvershoot
    <3> QED BY <2>1, <3>2, <3>3 DEF RoomFor
  <2> QED BY <1>4, <1>5, <1>6, <2>3, <2>4, <2>5 DEF SyncInv
<1> QED BY <1>7, <1>8

\* The embedder or the store fails: the chunk is as it was.
LEMMA AddFailsStep == ASSUME SyncInv, NEW w \in Writer, AddFails(w) PROVE SyncInv'
<1>1. /\ Types /\ Operations /\ Owners /\ ChunkInv /\ pc[w] = "vector"
  BY DEF SyncInv, AddFails, Types
<1>2. Ends(w)
  <2>1. NoOp \in OpType
    BY IndexerAssumption DEF NoOp, OpType, Version
  <2> QED BY <1>1, <2>1 DEF AddFails, Goto, Ends, Others, Operations, Label
<1>3. Others(w) /\ pc'[w] = "idle" /\ op'[w].ids = {} /\ op'[w].todo = {}
  BY <1>2 DEF Ends, NoOp
<1>4. Types'
  <2>1. Operations'
    BY <1>1, <1>2, EndsWell
  <2>2. faults' \in Nat
    BY <1>1 DEF AddFails, Types
  <2> QED BY <1>1, <2>1, <2>2
          DEF AddFails, Types, Maps, Searches, searching, history, structures, Ids
<1>5. Owners'
  BY <1>1, <1>3, OwnersNext DEF AddFails, history, Others
<1>6. ChunkInv'
  <2>1. Spares(w)
    BY <1>1 DEF AddFails, Spares, structures
  <2>2. ASSUME NEW i \in op[w].ids, Clean(i) PROVE Whole(i)'
    BY <1>1, <2>2, DuringIs DEF AddFails, During, NoCorpus, Whole, Posted, structures, history
  <2> QED BY <1>1, <1>3, <2>1, <2>2, ChunkNext DEF AddFails, history
<1>7. Ids(corpus)' = Ids(corpus) /\ Adding' \subseteq Adding
  BY <1>3, AddingNext DEF AddFails, structures, Ids, Storing
<1>8. Serial'
  <2>1. Progress(w) => postings' = corpus'
    BY <1>1 DEF Progress, AddFails, structures, NoCorpus, Types, Maps
  <2> QED BY <1>1, <1>3, <1>7, <2>1, SerialNext DEF SyncInv, AddFails, history
<1>9. CapOvershoot'
  BY <1>1, <1>7, CapNext DEF SyncInv
<1>10. Rebuilt'
  <2>1. Ready(w) => Built(graph)'
    BY <1>1 DEF Ready, Built, Ids, AddFails, structures
  <2> QED BY <1>1, <1>3, <2>1, RebuiltNext DEF SyncInv, AddFails
<1> QED BY <1>4, <1>5, <1>6, <1>8, <1>9, <1>10 DEF SyncInv

\* The embedding goes into the cache, and may push out another.
LEMMA AddCacheStep == ASSUME SyncInv, NEW w \in Writer, AddCache(w) PROVE SyncInv'
<1> DEFINE c == Current(w)
<1>1. /\ Types /\ Operations /\ Owners /\ ChunkInv /\ pc[w] = "cache"
      /\ c \in op[w].todo /\ c \in Id /\ op[w].todo \in SUBSET op[w].ids /\ op[w].ver \in Version
      /\ Cardinality(op[w].snap) <= SnapshotCap
  BY OperationIs DEF SyncInv, AddCache, Storing, Types
<1>2. Moves(w, "postings", op[w].todo, op[w].snap)
  BY <1>1 DEF AddCache, Goto, Moves, Others, Operations, Label
<1>3. Others(w) /\ pc'[w] = "postings" /\ Current(w)' = c /\ op'[w] = op[w]
  BY <1>1, <1>2 DEF Moves, Current, AddCache
<1>4. /\ cache' \in [Id -> Version] /\ Cardinality(Ids(cache)') <= CacheCap
      /\ cache'[c] \in {0, op[w].ver}
      /\ \A j \in Id \ {c} : cache'[j] \in {0, cache[j]}
  BY <1>1, PutIs DEF AddCache, Types, Maps, Ids
<1>5. Types'
  <2>1. Operations'
    BY <1>1, <1>2, MovesWell DEF Label
  <2> QED BY <1>1, <1>4, <2>1 DEF AddCache, Types, Maps, Searches, searching, history
<1>6. Owners'
  BY <1>1, <1>3, OwnersNext DEF AddCache, history, Others
<1>7. ChunkInv'
  <2>1. Spares(w)
    BY <1>1, <1>4 DEF AddCache, Spares
  <2>2. ASSUME NEW i \in op[w].ids, Clean(i) PROVE During(w, i)'
    <3>1. i \in Id /\ During(w, i)
      BY <1>1, <2>2, DuringIs DEF Clean
    <3>2. CASE i = c
      BY <1>1, <1>3, <1>4, <3>1, <3>2 DEF AddCache, During, Half, Posted, history
    <3>3. CASE i # c
      BY <1>1, <1>3, <1>4, <3>1, <3>3 DEF AddCache, During, Whole, Posted, history, NoCorpus
    <3> QED BY <3>2, <3>3
  <2> QED BY <1>1, <1>3, <2>1, <2>2, ChunkNext DEF AddCache, history
<1>8. Serial' /\ CapOvershoot' /\ Rebuilt'
  BY <1>1, <1>3, StillSerial DEF AddCache, history, Label, Storing, NoCorpus
<1> QED BY <1>5, <1>6, <1>7, <1>8 DEF SyncInv

\* With one operation at a time the postings have room for what the corpus had room for.
LEMMA NotRefused ==
    ASSUME SyncInv, ~overlap, NEW w \in Writer, pc[w] = "postings"
    PROVE  Upsert(postings, Current(w), op[w].ver) = [postings EXCEPT ![Current(w)] = op[w].ver]
<1>1. Types /\ Progress(w) /\ RoomFor(Current(w)) /\ Current(w) \in Id
  BY OperationIs DEF SyncInv, Serial, InFlight, Progress, Storing
<1>2. \A i \in Id : postings[i] = corpus[i]
  BY <1>1 DEF Progress, NoCorpus
<1>3. Ids(postings) = Ids(corpus) /\ Ids(corpus) \in SUBSET Id
  BY <1>2 DEF Ids
<1>4. CASE corpus[Current(w)] # 0
  BY <1>1, <1>2, <1>4 DEF Upsert
<1>5. CASE Cardinality(Ids(corpus)) < Cap
  <2>1. ~(Cardinality(Ids(postings)) >= Cap)
    BY <1>3, <1>5, IdsFinite, IndexerAssumption
  <2> QED BY <2>1 DEF Upsert
<1> QED BY <1>1, <1>4, <1>5 DEF RoomFor

\* The postings take the chunk, or refuse it at their own cap.
LEMMA AddPostingsStep == ASSUME SyncInv, NEW w \in Writer, AddPostings(w) PROVE SyncInv'
<1> DEFINE c == Current(w)
<1>1. /\ Types /\ Operations /\ Owners /\ ChunkInv /\ pc[w] = "postings"
      /\ c \in op[w].todo /\ c \in Id /\ op[w].todo \in SUBSET op[w].ids /\ op[w].ver \in Version
      /\ Cardinality(op[w].snap) <= SnapshotCap
  BY OperationIs DEF SyncInv, AddPostings, Storing, Types
<1>2. Moves(w, "corpus", op[w].todo, op[w].snap)
  BY <1>1 DEF AddPostings, Goto, Moves, Others, Operations, Label
<1>3. Others(w) /\ pc'[w] = "corpus" /\ Current(w)' = c /\ op'[w] = op[w]
  BY <1>1, <1>2 DEF Moves, Current, AddPostings
<1>4. /\ postings' \in [Id -> Version]
      /\ postings'[c] = op[w].ver \/ (postings'[c] = 0 /\ overlap)
      /\ ~overlap => postings'[c] = op[w].ver
      /\ \A j \in Id \ {c} : postings'[j] = postings[j]
  <2>1. postings \in [Id -> Version] /\ postings' = Upsert(postings, c, op[w].ver)
    BY <1>1 DEF AddPostings, Types, Maps
  <2>2. CASE postings' = [postings EXCEPT ![c] = op[w].ver]
    BY <1>1, <2>1, <2>2
  <2>3. CASE postings' # [postings EXCEPT ![c] = op[w].ver]
    <3>1. overlap
      BY <1>1, <2>1, <2>3, NotRefused
    <3>2. postings' = postings /\ postings[c] = 0
      BY <2>1, <2>3 DEF Upsert
    <3> QED BY <2>1, <3>1, <3>2
  <2> QED BY <2>2, <2>3
<1>5. Types'
  <2>1. Operations'
    BY <1>1, <1>2, MovesWell DEF Label
  <2> QED BY <1>1, <1>4, <2>1 DEF AddPostings, Types, Maps, Searches, searching, history, Ids
<1>6. Owners'
  BY <1>1, <1>3, OwnersNext DEF AddPostings, history, Others
<1>7. ChunkInv'
  <2>1. Spares(w)
    BY <1>1, <1>4 DEF AddPostings, Spares
  <2>2. ASSUME NEW i \in op[w].ids, Clean(i) PROVE During(w, i)'
    <3>1. i \in Id /\ During(w, i)
      BY <1>1, <2>2, DuringIs DEF Clean
    <3>2. CASE i = c
      BY <1>1, <1>3, <1>4, <3>1, <3>2 DEF AddPostings, During, Half, Posted, history
    <3>3. CASE i # c
      BY <1>1, <1>3, <1>4, <3>1, <3>3 DEF AddPostings, During, Whole, Posted, history, NoCorpus
    <3> QED BY <3>2, <3>3
  <2> QED BY <1>1, <1>3, <2>1, <2>2, ChunkNext DEF AddPostings, history
<1>8. Ids(corpus)' = Ids(corpus) /\ Adding' \subseteq Adding
  BY <1>1, <1>3, AddingNext DEF AddPostings, Ids, Storing
<1>9. Serial'
  <2>1. ~overlap /\ Progress(w) => Progress(w)'
    BY <1>1, <1>3, <1>4, <1>8 DEF Progress, AddPostings, RoomFor, Storing, NoCorpus
  <2> QED BY <1>1, <1>3, <1>8, <2>1, SerialNext DEF SyncInv, AddPostings, history
<1>10. CapOvershoot'
  BY <1>1, <1>8, CapNext DEF SyncInv
<1>11. Rebuilt'
  <2>1. Ready(w)'
    BY <1>3 DEF Ready
  <2> QED BY <1>1, <1>3, <2>1, RebuiltNext DEF SyncInv, AddPostings
<1> QED BY <1>5, <1>6, <1>7, <1>9, <1>10, <1>11 DEF SyncInv

\* The chunk is in the corpus, and everywhere the same again.
LEMMA AddCorpusStep == ASSUME SyncInv, NEW w \in Writer, AddCorpus(w) PROVE SyncInv'
<1> DEFINE c == Current(w)
<1>1. /\ Types /\ Operations /\ Owners /\ ChunkInv /\ pc[w] = "corpus"
      /\ c \in op[w].todo /\ c \in Id /\ op[w].todo \in SUBSET op[w].ids /\ op[w].ver \in Version
      /\ Cardinality(op[w].snap) <= SnapshotCap
  BY OperationIs DEF SyncInv, AddCorpus, Storing, Types
<1>2. Moves(w, "snapshot", op[w].todo, op[w].snap)
  BY <1>1 DEF AddCorpus, Goto, Moves, Others, Operations, Label
<1>3. Others(w) /\ pc'[w] = "snapshot" /\ op'[w] = op[w]
  BY <1>1, <1>2 DEF Moves, AddCorpus
<1>4. /\ corpus' \in [Id -> Version] /\ corpus'[c] = op[w].ver
      /\ \A j \in Id \ {c} : corpus'[j] = corpus[j]
  BY <1>1 DEF AddCorpus, Types, Maps
<1>5. Types'
  <2>1. Operations'
    BY <1>1, <1>2, MovesWell DEF Label, Storing
  <2> QED BY <1>1, <1>4, <2>1 DEF AddCorpus, Types, Maps, Searches, searching, history, Ids
<1>6. Owners'
  BY <1>1, <1>3, OwnersNext DEF AddCorpus, history, Others
<1>7. ChunkInv'
  <2>1. Spares(w)
    BY <1>1, <1>4 DEF AddCorpus, Spares
  <2>2. ASSUME NEW i \in op[w].ids, Clean(i) PROVE During(w, i)'
    <3>1. i \in Id /\ During(w, i)
      BY <1>1, <2>2, DuringIs DEF Clean
    <3>2. CASE i = c
      BY <1>1, <1>3, <1>4, <3>1, <3>2 DEF AddCorpus, During, Half, Whole, Posted, history, NoCorpus
    <3>3. CASE i # c
      BY <1>1, <1>3, <1>4, <3>1, <3>3 DEF AddCorpus, During, Whole, Posted, history, NoCorpus
    <3> QED BY <3>2, <3>3
  <2> QED BY <1>1, <1>3, <2>1, <2>2, ChunkNext DEF AddCorpus, history
<1>8. /\ Ids(corpus)' \in SUBSET Id /\ Ids(corpus) \in SUBSET Id
      /\ Ids(corpus)' \subseteq Ids(corpus) \cup {c} /\ Adding' \subseteq Adding
  BY <1>1, <1>3, <1>4, AddingNext DEF Ids, Storing
<1>9. Serial'
  <2>1. ASSUME ~overlap, Progress(w), Cardinality(Ids(corpus)) <= Cap PROVE Progress(w)'
    BY <1>1, <1>3, <1>4, <2>1 DEF Progress, AddCorpus, Storing, NoCorpus
  <2>2. ASSUME RoomFor(c), Cardinality(Ids(corpus)) <= Cap PROVE Cardinality(Ids(corpus)') <= Cap
    <3>1. CASE corpus[c] # 0
      <4>1. Ids(corpus)' \subseteq Ids(corpus)
        BY <1>1, <1>8, <3>1 DEF Ids
      <4>2. /\ Cardinality(Ids(corpus)') <= Cardinality(Ids(corpus))
            /\ Cardinality(Ids(corpus)') \in Nat /\ Cardinality(Ids(corpus)) \in Nat
        BY <1>8, <4>1, Fewer, IdsFinite
      <4> QED BY <2>2, <4>2, IndexerAssumption
    <3>2. CASE Cardinality(Ids(corpus)) < Cap
      <4>1. /\ IsFiniteSet(Ids(corpus)) /\ Ids(corpus) \cup {c} \in SUBSET Id
        BY <1>1, <1>8, IdsFinite
      <4>2. Cardinality(Ids(corpus) \cup {c}) \in {Cardinality(Ids(corpus)), Cardinality(Ids(corpus)) + 1}
        BY <4>1, FS_AddElement
      <4>3. /\ Cardinality(Ids(corpus)') <= Cardinality(Ids(corpus) \cup {c})
            /\ Cardinality(Ids(corpus)') \in Nat /\ Cardinality(Ids(corpus)) \in Nat
        BY <1>8, <4>1, Fewer, IdsFinite
      <4> QED BY <3>2, <4>2, <4>3, IndexerAssumption
    <3> QED BY <2>2, <3>1, <3>2 DEF RoomFor
  <2>3. Progress(w) => RoomFor(c)
    BY <1>1 DEF Progress, Storing
  <2> QED BY <1>1, <1>3, <2>1, <2>2, <2>3, SerialNext DEF SyncInv, AddCorpus, history
<1>10. CapOvershoot'
  <2>1. c \in Adding
    BY <1>1 DEF Adding
  <2> QED BY <1>1, <1>8, <2>1, CapNext DEF SyncInv
<1>11. Rebuilt'
  <2>1. Ready(w)'
    BY <1>3 DEF Ready
  <2> QED BY <1>1, <1>3, <2>1, RebuiltNext DEF SyncInv, AddCorpus
<1> QED BY <1>5, <1>6, <1>7, <1>9, <1>10, <1>11 DEF SyncInv

\* The entities of the file are no structure of a chunk.
LEMMA SetEntitiesStep == ASSUME SyncInv, NEW w \in Writer, SetEntities(w) PROVE SyncInv'
<1>1. /\ Types /\ Operations /\ Owners /\ ChunkInv /\ pc[w] = "entities"
      /\ op[w] \in OpType /\ op[w].ver \in Version /\ Cardinality(op[w].snap) <= SnapshotCap
  BY OperationIs DEF SyncInv, SetEntities, Types
<1>2. Moves(w, "snapshot", op[w].todo, op[w].snap)
  BY <1>1 DEF SetEntities, Goto, Moves, Others, Operations, Label, OpType
<1>3. Others(w) /\ pc'[w] = "snapshot" /\ op'[w].ids = op[w].ids
  BY <1>1, <1>2 DEF Moves
<1>4. Types'
  <2>1. Operations'
    BY <1>1, <1>2, MovesWell DEF Label, Storing
  <2>2. entities' \in [File -> Version]
    BY <1>1 DEF SetEntities, Types, Maps
  <2> QED BY <1>1, <2>1, <2>2 DEF SetEntities, Types, Maps, Searches, searching, history, Ids
<1>5. Owners'
  BY <1>1, <1>3, OwnersNext DEF SetEntities, history, Others
<1>6. ChunkInv'
  <2>1. Spares(w)
    BY DEF SetEntities, Spares
  <2>2. ASSUME NEW i \in op[w].ids, Clean(i) PROVE During(w, i)'
    BY <1>1, <1>3, <2>2, DuringIs DEF SetEntities, During, NoCorpus, Whole, Posted, history
  <2> QED BY <1>1, <1>3, <2>1, <2>2, ChunkNext DEF SetEntities, history
<1>7. Serial' /\ CapOvershoot' /\ Rebuilt'
  BY <1>1, <1>3, StillSerial DEF SetEntities, history, Label, Storing, NoCorpus
<1> QED BY <1>4, <1>5, <1>6, <1>7 DEF SyncInv

-----------------------------------------------------------------------------
(* rebuild_symbol_graph.                                                   *)

\* A snapshot taken alone is of the corpus that stays until it is installed.
LEMMA TakeSnapshotStep == ASSUME SyncInv, NEW w \in Writer, TakeSnapshot(w) PROVE SyncInv'
<1>1. /\ Types /\ Operations /\ Owners /\ ChunkInv /\ pc[w] = "snapshot"
      /\ op[w] \in OpType
  BY OperationIs DEF SyncInv, TakeSnapshot, Types
<1>2. PICK s \in SUBSET Ids(corpus) :
         /\ Cardinality(s) = Least(SnapshotCap, Cardinality(Ids(corpus)))
         /\ op' = [op EXCEPT ![w].snap = s]
  BY DEF TakeSnapshot
<1>3. Ids(corpus) \in SUBSET Id /\ s \in SUBSET Id /\ Cardinality(s) <= SnapshotCap
  <2>1. Ids(corpus) \in SUBSET Id
    BY DEF Ids
  <2>2. Cardinality(Ids(corpus)) \in Nat
    BY <2>1, IdsFinite
  <2> QED BY <1>2, <2>1, <2>2, LeastIs, IndexerAssumption
<1>4. Moves(w, "install", op[w].todo, s)
  BY <1>1, <1>2, <1>3 DEF TakeSnapshot, Goto, Moves, Others, Operations, Label, OpType
<1>5. Others(w) /\ pc'[w] = "install" /\ op'[w].ids = op[w].ids /\ op'[w].snap = s
  BY <1>4 DEF Moves
<1>6. Types'
  <2>1. Operations'
    BY <1>1, <1>3, <1>4, MovesWell DEF Label, Storing
  <2>2. raced' \in BOOLEAN
    BY DEF TakeSnapshot
  <2> QED BY <1>1, <2>1, <2>2
          DEF TakeSnapshot, Types, Maps, Searches, searching, history, structures, Ids
<1>7. Owners'
  BY <1>1, <1>5, OwnersNext DEF TakeSnapshot, history, Others
<1>8. ChunkInv'
  <2>1. Spares(w)
    BY <1>1 DEF TakeSnapshot, Spares, structures
  <2>2. ASSUME NEW i \in op[w].ids, Clean(i) PROVE During(w, i)'
    BY <1>1, <1>5, <2>2, DuringIs
       DEF TakeSnapshot, During, NoCorpus, Whole, Posted, history, structures
  <2> QED BY <1>1, <1>5, <2>1, <2>2, ChunkNext DEF TakeSnapshot, history
<1>9. Ids(corpus)' = Ids(corpus) /\ Adding' \subseteq Adding
  BY <1>1, <1>5, AddingNext DEF TakeSnapshot, structures, Ids, Storing
<1>10. Serial'
  <2>1. Progress(w) => Progress(w)'
    BY <1>1, <1>5 DEF Progress, TakeSnapshot, structures, Storing, NoCorpus
  <2> QED BY <1>1, <1>5, <1>9, <2>1, SerialNext DEF SyncInv, TakeSnapshot, history
<1>11. CapOvershoot'
  BY <1>1, <1>9, CapNext DEF SyncInv
<1>12. Rebuilt'
  <2> SUFFICES ASSUME ~raced' PROVE Rebuilt'
    BY DEF Rebuilt
  <2>1. \A u \in Writer \ {w} : pc[u] = "idle"
    <3>1. CASE Alone(w)
      BY <3>1 DEF Alone, InFlight
    <3>2. CASE ~raced
      BY <1>1, <3>2 DEF SyncInv, Rebuilt, AtMostOne
    <3> QED BY <3>1, <3>2 DEF TakeSnapshot
  <2>2. \A u \in Writer \ {w} : pc'[u] = "idle"
    BY <1>5, <2>1 DEF Others
  <2>3. Built(s)'
    BY <1>2, <1>9 DEF Built
  <2> QED BY <1>5, <2>2, <2>3 DEF Rebuilt, AtMostOne, InFlight, Ready, Built
<1> QED BY <1>6, <1>7, <1>8, <1>10, <1>11, <1>12 DEF SyncInv

\* The rebuild is the end of an operation, but for an index_file with chunks left.
LEMMA InstallGraphStep == ASSUME SyncInv, NEW w \in Writer, InstallGraph(w) PROVE SyncInv'
<1> DEFINE rest == op[w].todo \ {Current(w)}
<1>1. /\ Types /\ Operations /\ Owners /\ ChunkInv /\ pc[w] = "install"
      /\ op[w] \in OpType /\ op[w].snap \in SUBSET Id /\ Cardinality(op[w].snap) <= SnapshotCap
  BY OperationIs DEF SyncInv, InstallGraph, Types
<1>2. Moves(w, "check", rest, op[w].snap) \/ Ends(w)
  <2>1. CASE op[w].kind = "index"
    BY <1>1, <2>1 DEF InstallGraph, Goto, Advance, Moves, Others, Operations, Label, OpType
  <2>2. CASE op[w].kind # "index"
    <3>1. NoOp \in OpType
      BY IndexerAssumption DEF NoOp, OpType, Version
    <3> QED BY <1>1, <2>2, <3>1 DEF InstallGraph, Goto, Ends, Others, Operations, Label
  <2> QED BY <2>1, <2>2
<1>3. /\ Others(w) /\ pc'[w] \in {"check", "idle"} /\ op'[w].ids \subseteq op[w].ids
  BY <1>2 DEF Moves, Ends, NoOp
<1>4. Types'
  <2>1. Operations'
    BY <1>1, <1>2, MovesWell, EndsWell DEF Label, Storing
  <2> QED BY <1>1, <2>1 DEF InstallGraph, Types, Maps, Searches, searching, history, Ids
<1>5. Owners'
  BY <1>1, <1>3, OwnersNext DEF InstallGraph, history, Others
<1>6. ChunkInv'
  <2>1. Spares(w)
    BY <1>1 DEF InstallGraph, Spares
  <2>2. ASSUME NEW i \in op[w].ids, Clean(i) PROVE Whole(i)' /\ During(w, i)'
    BY <1>1, <1>3, <2>2, DuringIs
       DEF InstallGraph, During, NoCorpus, Whole, Posted, history
  <2> QED BY <1>1, <1>3, <2>1, <2>2, ChunkNext DEF InstallGraph, history
<1>7. Ids(corpus)' = Ids(corpus) /\ Adding' \subseteq Adding
  BY <1>1, <1>3, AddingNext DEF InstallGraph, Ids, Storing
<1>8. Serial'
  <2>1. Progress(w) => Progress(w)' /\ postings' = corpus'
    BY <1>1, <1>3 DEF Progress, InstallGraph, Storing, NoCorpus, Types, Maps
  <2> QED BY <1>1, <1>3, <1>7, <2>1, SerialNext DEF SyncInv, InstallGraph, history
<1>9. CapOvershoot'
  BY <1>1, <1>7, CapNext DEF SyncInv
<1>10. Rebuilt'
  <2>1. Ready(w) => Built(graph)' /\ Ready(w)'
    BY <1>1, <1>3, <1>7 DEF Ready, Built, InstallGraph
  <2> QED BY <1>1, <1>3, <2>1, RebuiltNext DEF SyncInv, InstallGraph
<1> QED BY <1>4, <1>5, <1>6, <1>8, <1>9, <1>10 DEF SyncInv

-----------------------------------------------------------------------------
(* remove_file and remove_chunk.                                           *)

\* The vectors go one after the other; one the store would not remove is torn.
LEMMA RemoveVectorStep == ASSUME SyncInv, NEW w \in Writer, RemoveVector(w) PROVE SyncInv'
<1> DEFINE c == Current(w)
<1>1. /\ Types /\ Operations /\ Owners /\ ChunkInv /\ pc[w] = "rmVector"
      /\ op[w].todo \in SUBSET op[w].ids /\ op[w].ids \in SUBSET Id /\ op[w] \in OpType
      /\ op[w].todo # {} => c \in op[w].todo /\ c \in Id
      /\ Cardinality(op[w].snap) <= SnapshotCap
  BY OperationIs, PickIn DEF SyncInv, RemoveVector, Types, Current
<1>2. \/ /\ op[w].todo = {} /\ Moves(w, "rmCorpus", op[w].todo, op[w].snap)
         /\ UNCHANGED <<vectors, torn, faults>>
      \/ /\ op[w].todo # {} /\ Moves(w, "rmVector", op[w].todo \ {c}, op[w].snap)
         /\ \/ vectors' = [vectors EXCEPT ![c] = 0] /\ UNCHANGED <<torn, faults>>
            \/ vectors' = vectors /\ torn' = torn \cup {c} /\ faults' = faults + 1
  <2>1. CASE op[w].todo = {}
    BY <1>1, <2>1 DEF RemoveVector, Goto, Moves, Others, Operations, Label
  <2>2. CASE op[w].todo # {}
    <3>1. Moves(w, "rmVector", op[w].todo \ {c}, op[w].snap)
      BY <1>1, <2>2 DEF RemoveVector, Advance, Moves, Others, Operations, Label, OpType
    <3> QED BY <2>2, <3>1 DEF RemoveVector
  <2> QED BY <2>1, <2>2
<1>3. /\ Others(w) /\ op'[w].ids = op[w].ids /\ pc'[w] \in {"rmVector", "rmCorpus"}
      /\ op'[w].todo \in SUBSET op[w].todo
  BY <1>2 DEF Moves
<1>4. /\ vectors' \in [Id -> Version] /\ faults' \in Nat /\ torn \subseteq torn'
      /\ \A i \in Id : i \in op[w].todo \/ vectors'[i] = vectors[i]
  BY <1>1, <1>2, IndexerAssumption DEF Types, Maps, Version
<1>5. Types'
  <2>1. Operations'
    BY <1>1, <1>2, MovesWell DEF Label, Storing
  <2> QED BY <1>1, <1>4, <2>1
          DEF RemoveVector, Types, Maps, Searches, searching, history, Ids
<1>6. Owners'
  BY <1>1, <1>3, OwnersNext DEF RemoveVector, Others
<1>7. ChunkInv'
  <2>1. Spares(w)
    BY <1>1, <1>4 DEF RemoveVector, Spares
  <2>2. ASSUME NEW i \in op[w].ids, Clean(i), Clean(i)' PROVE During(w, i)'
    <3>1. i \in Id /\ During(w, i)
      BY <1>1, <2>2, DuringIs DEF Clean
    <3>2. CASE i \notin op[w].todo
      <4>1. Leaving(w, i)
        BY <1>1, <3>1, <3>2 DEF During
      <4>2. Leaving(w, i)' /\ i \notin op'[w].todo
        BY <1>1, <1>3, <1>4, <3>1, <3>2, <4>1 DEF RemoveVector, Leaving, Posted, NoCorpus
      <4> QED BY <1>3, <4>2 DEF During
    <3>3. CASE i \in op[w].todo
      <4>1. Whole(i) /\ op[w].todo # {} /\ op'[w].todo = op[w].todo \ {c} /\ pc'[w] = "rmVector"
        BY <1>1, <1>2, <3>1, <3>3 DEF During, NoCorpus, Moves
      <4>2. CASE i = c
        <5>1. vectors'[i] = 0
          BY <1>1, <1>2, <2>2, <3>3, <4>1, <4>2 DEF Clean, Types, Maps
        <5> QED BY <4>1, <4>2, <5>1
                DEF RemoveVector, During, Leaving, Whole, Posted, NoCorpus
      <4>3. CASE i # c
        <5>1. vectors'[i] = vectors[i]
          BY <1>1, <1>2, <3>1, <4>3 DEF Types, Maps
        <5> QED BY <3>3, <4>1, <4>3, <5>1
                DEF RemoveVector, During, Whole, Posted, NoCorpus
      <4> QED BY <4>2, <4>3
    <3> QED BY <3>2, <3>3
  <2> QED BY <1>1, <1>3, <1>4, <2>1, <2>2, ChunkNext DEF RemoveVector
<1>8. Serial' /\ CapOvershoot' /\ Rebuilt'
  BY <1>1, <1>3, StillSerial DEF RemoveVector, Label, Storing, NoCorpus
<1> QED BY <1>5, <1>6, <1>7, <1>8 DEF SyncInv

\* The corpus goes next; until the postings follow, they alone still have the chunks.
LEMMA RemoveFromCorpusStep == ASSUME SyncInv, NEW w \in Writer, RemoveFromCorpus(w) PROVE SyncInv'
<1>1. /\ Types /\ Operations /\ Owners /\ ChunkInv /\ pc[w] = "rmCorpus"
      /\ op[w].todo \in SUBSET op[w].ids /\ op[w].ids \in SUBSET Id /\ op[w] \in OpType
      /\ Cardinality(op[w].snap) <= SnapshotCap
  BY OperationIs DEF SyncInv, RemoveFromCorpus, Types
<1>2. Moves(w, "rmCache", op[w].todo, op[w].snap)
  BY <1>1 DEF RemoveFromCorpus, Goto, Moves, Others, Operations, Label
<1>3. Others(w) /\ pc'[w] = "rmCache" /\ op'[w] = op[w]
  BY <1>1, <1>2 DEF Moves, RemoveFromCorpus
<1>4. /\ corpus' \in [Id -> Version] /\ \A i \in op[w].ids : corpus'[i] = 0
      /\ \A i \in Id \ op[w].ids : corpus'[i] = corpus[i]
  BY <1>1, IndexerAssumption DEF RemoveFromCorpus, Without, Types, Maps, Version
<1>5. Types'
  <2>1. Operations'
    BY <1>1, <1>2, MovesWell DEF Label, Storing
  <2> QED BY <1>1, <1>4, <2>1
          DEF RemoveFromCorpus, Types, Maps, Searches, searching, history, Ids
<1>6. Owners'
  BY <1>1, <1>3, OwnersNext DEF RemoveFromCorpus, history, Others
<1>7. ChunkInv'
  <2>1. Spares(w)
    BY <1>1, <1>4 DEF RemoveFromCorpus, Spares
  <2>2. ASSUME NEW i \in op[w].ids, Clean(i) PROVE During(w, i)'
    <3>1. Leaving(w, i)
      BY <1>1, <2>2, DuringIs DEF During
    <3>2. Leaving(w, i)'
      BY <1>1, <1>3, <1>4, <2>2, <3>1 DEF RemoveFromCorpus, Leaving, NoCorpus
    <3> QED BY <1>3, <3>2 DEF During, NoCorpus
  <2> QED BY <1>1, <1>3, <2>1, <2>2, ChunkNext DEF RemoveFromCorpus, history
<1>8. /\ Ids(corpus)' \in SUBSET Id /\ Ids(corpus) \in SUBSET Id
      /\ Ids(corpus)' \subseteq Ids(corpus) /\ Adding' \subseteq Adding
  BY <1>1, <1>3, <1>4, AddingNext DEF Ids, Storing
<1>9. Serial'
  <2>1. Progress(w) => Progress(w)'
    BY <1>1, <1>3, <1>4 DEF Progress, RemoveFromCorpus, Storing, NoCorpus
  <2>2. /\ Cardinality(Ids(corpus)') <= Cardinality(Ids(corpus))
        /\ Cardinality(Ids(corpus)') \in Nat /\ Cardinality(Ids(corpus)) \in Nat
    BY <1>8, Fewer, IdsFinite
  <2>3. Cardinality(Ids(corpus)) <= Cap => Cardinality(Ids(corpus)') <= Cap
    BY <2>2, IndexerAssumption
  <2> QED BY <1>1, <1>3, <2>1, <2>3, SerialNext DEF SyncInv, RemoveFromCorpus, history
<1>10. CapOvershoot'
  BY <1>1, <1>8, CapNext DEF SyncInv
<1>11. Rebuilt'
  <2>1. Ready(w)'
    BY <1>3 DEF Ready
  <2> QED BY <1>1, <1>3, <2>1, RebuiltNext DEF SyncInv, RemoveFromCorpus
<1> QED BY <1>5, <1>6, <1>7, <1>9, <1>10, <1>11 DEF SyncInv

\* The cached embeddings.
LEMMA RemoveFromCacheStep == ASSUME SyncInv, NEW w \in Writer, RemoveFromCache(w) PROVE SyncInv'
<1>1. /\ Types /\ Operations /\ Owners /\ ChunkInv /\ pc[w] = "rmCache"
      /\ op[w].todo \in SUBSET op[w].ids /\ op[w].ids \in SUBSET Id /\ op[w] \in OpType
      /\ Cardinality(op[w].snap) <= SnapshotCap
  BY OperationIs DEF SyncInv, RemoveFromCache, Types
<1>2. Moves(w, "rmPostings", op[w].todo, op[w].snap)
  BY <1>1 DEF RemoveFromCache, Goto, Moves, Others, Operations, Label
<1>3. Others(w) /\ pc'[w] = "rmPostings" /\ op'[w] = op[w]
  BY <1>1, <1>2 DEF Moves, RemoveFromCache
<1>4. /\ cache' \in [Id -> Version] /\ \A i \in op[w].ids : cache'[i] = 0
      /\ \A i \in Id \ op[w].ids : cache'[i] = cache[i]
  BY <1>1, IndexerAssumption DEF RemoveFromCache, Without, Types, Maps, Version
<1>5. Types'
  <2>1. Operations'
    BY <1>1, <1>2, MovesWell DEF Label, Storing
  <2>2. Cardinality(Ids(cache)') <= CacheCap
    <3>1. /\ Ids(cache) \in SUBSET Id /\ Ids(cache)' \in SUBSET Id
          /\ Ids(cache)' \subseteq Ids(cache)
      BY <1>1, <1>4 DEF Ids
    <3>2. /\ Cardinality(Ids(cache)') <= Cardinality(Ids(cache))
          /\ Cardinality(Ids(cache)') \in Nat /\ Cardinality(Ids(cache)) \in Nat
      BY <3>1, Fewer, IdsFinite
    <3>3. Cardinality(Ids(cache)) <= CacheCap
      BY <1>1 DEF Types, Maps
    <3> QED BY <3>2, <3>3, IndexerAssumption
  <2> QED BY <1>1, <1>4, <2>1, <2>2
          DEF RemoveFromCache, Types, Maps, Searches, searching, history
<1>6. Owners'
  BY <1>1, <1>3, OwnersNext DEF RemoveFromCache, history, Others
<1>7. ChunkInv'
  <2>1. Spares(w)
    BY <1>1, <1>4 DEF RemoveFromCache, Spares
  <2>2. ASSUME NEW i \in op[w].ids, Clean(i) PROVE During(w, i)'
    <3>1. Leaving(w, i)
      BY <1>1, <2>2, DuringIs DEF During, NoCorpus
    <3>2. Leaving(w, i)'
      BY <1>1, <1>3, <1>4, <2>2, <3>1 DEF RemoveFromCache, Leaving, NoCorpus
    <3> QED BY <1>3, <3>2 DEF During, NoCorpus
  <2> QED BY <1>1, <1>3, <2>1, <2>2, ChunkNext DEF RemoveFromCache, history
<1>8. Ids(corpus)' = Ids(corpus) /\ Adding' \subseteq Adding
  BY <1>1, <1>3, AddingNext DEF RemoveFromCache, Ids, Storing
<1>9. Serial'
  <2>1. Progress(w) => Progress(w)'
    BY <1>1, <1>3 DEF Progress, RemoveFromCache, Storing, NoCorpus
  <2> QED BY <1>1, <1>3, <1>8, <2>1, SerialNext DEF SyncInv, RemoveFromCache, history
<1>10. CapOvershoot'
  BY <1>1, <1>8, CapNext DEF SyncInv
<1>11. Rebuilt'
  <2>1. Ready(w)'
    BY <1>3 DEF Ready
  <2> QED BY <1>1, <1>3, <2>1, RebuiltNext DEF SyncInv, RemoveFromCache
<1> QED BY <1>5, <1>6, <1>7, <1>9, <1>10, <1>11 DEF SyncInv

\* The postings: from here on no structure has the chunks.
LEMMA RemoveFromPostingsStep ==
    ASSUME SyncInv, NEW w \in Writer, RemoveFromPostings(w) PROVE SyncInv'
<1> DEFINE label == IF op[w].kind = "remove" THEN "rmEntities" ELSE "snapshot"
<1>1. /\ Types /\ Operations /\ Owners /\ ChunkInv /\ pc[w] = "rmPostings"
      /\ op[w].todo \in SUBSET op[w].ids /\ op[w].ids \in SUBSET Id /\ op[w] \in OpType
      /\ Cardinality(op[w].snap) <= SnapshotCap
  BY OperationIs DEF SyncInv, RemoveFromPostings, Types
<1>2. Moves(w, label, op[w].todo, op[w].snap)
  BY <1>1 DEF RemoveFromPostings, Goto, Moves, Others, Operations, Label
<1>3. Others(w) /\ pc'[w] = label /\ op'[w] = op[w]
  BY <1>1, <1>2 DEF Moves, RemoveFromPostings
<1>4. /\ postings' \in [Id -> Version] /\ \A i \in op[w].ids : postings'[i] = 0
      /\ \A i \in Id \ op[w].ids : postings'[i] = postings[i]
  BY <1>1, IndexerAssumption DEF RemoveFromPostings, Without, Types, Maps, Version
<1>5. Types'
  <2>1. Operations'
    BY <1>1, <1>2, MovesWell DEF Label, Storing
  <2> QED BY <1>1, <1>4, <2>1
          DEF RemoveFromPostings, Types, Maps, Searches, searching, history, Ids
<1>6. Owners'
  BY <1>1, <1>3, OwnersNext DEF RemoveFromPostings, history, Others
<1>7. ChunkInv'
  <2>1. Spares(w)
    BY <1>1, <1>4 DEF RemoveFromPostings, Spares
  <2>2. ASSUME NEW i \in op[w].ids, Clean(i) PROVE During(w, i)'
    <3>1. Leaving(w, i)
      BY <1>1, <2>2, DuringIs DEF During, NoCorpus
    <3>2. Whole(i)'
      BY <1>1, <1>4, <2>2, <3>1 DEF RemoveFromPostings, Leaving, Whole, Posted, NoCorpus
    <3> QED BY <1>3, <3>2 DEF During, NoCorpus
  <2> QED BY <1>1, <1>3, <2>1, <2>2, ChunkNext DEF RemoveFromPostings, history
<1>8. Ids(corpus)' = Ids(corpus) /\ Adding' \subseteq Adding
  BY <1>1, <1>3, AddingNext DEF RemoveFromPostings, Ids, Storing
<1>9. Serial'
  <2>1. Progress(w) => Progress(w)'
    BY <1>1, <1>3, <1>4 DEF Progress, RemoveFromPostings, Storing, NoCorpus
  <2> QED BY <1>1, <1>3, <1>8, <2>1, SerialNext DEF SyncInv, RemoveFromPostings, history
<1>10. CapOvershoot'
  BY <1>1, <1>8, CapNext DEF SyncInv
<1>11. Rebuilt'
  <2>1. Ready(w)'
    BY <1>3 DEF Ready
  <2> QED BY <1>1, <1>3, <2>1, RebuiltNext DEF SyncInv, RemoveFromPostings
<1> QED BY <1>5, <1>6, <1>7, <1>9, <1>10, <1>11 DEF SyncInv

\* The entities of the file.
LEMMA RemoveEntitiesStep == ASSUME SyncInv, NEW w \in Writer, RemoveEntities(w) PROVE SyncInv'
<1>1. /\ Types /\ Operations /\ Owners /\ ChunkInv /\ pc[w] = "rmEntities"
      /\ op[w] \in OpType /\ Cardinality(op[w].snap) <= SnapshotCap
  BY OperationIs DEF SyncInv, RemoveEntities, Types
<1>2. Moves(w, "snapshot", op[w].todo, op[w].snap)
  BY <1>1 DEF RemoveEntities, Goto, Moves, Others, Operations, Label
<1>3. Others(w) /\ pc'[w] = "snapshot" /\ op'[w].ids = op[w].ids
  BY <1>1, <1>2 DEF Moves
<1>4. Types'
  <2>1. Operations'
    BY <1>1, <1>2, MovesWell DEF Label, Storing
  <2>2. 0 \in Version
    BY IndexerAssumption DEF Version
  <2>3. entities' \in [File -> Version]
    BY <1>1, <2>2 DEF RemoveEntities, Types, Maps
  <2> QED BY <1>1, <2>1, <2>3 DEF RemoveEntities, Types, Maps, Searches, searching, history, Ids
<1>5. Owners'
  BY <1>1, <1>3, OwnersNext DEF RemoveEntities, history, Others
<1>6. ChunkInv'
  <2>1. Spares(w)
    BY DEF RemoveEntities, Spares
  <2>2. ASSUME NEW i \in op[w].ids, Clean(i) PROVE During(w, i)'
    BY <1>1, <1>3, <2>2, DuringIs DEF RemoveEntities, During, NoCorpus, Whole, Posted, history
  <2> QED BY <1>1, <1>3, <2>1, <2>2, ChunkNext DEF RemoveEntities, history
<1>7. Serial' /\ CapOvershoot' /\ Rebuilt'
  BY <1>1, <1>3, StillSerial DEF RemoveEntities, history, Label, Storing, NoCorpus
<1> QED BY <1>4, <1>5, <1>6, <1>7 DEF SyncInv

-----------------------------------------------------------------------------
(* An operation begins.                                                    *)

\* It works on clean chunks that no other operation has.
LEMMA BeginStep ==
    ASSUME SyncInv, NEW w \in Writer, NEW label \in {"check", "rmVector", "snapshot"},
           NEW kind \in {"index", "last", "remove", "drop"}, NEW f \in File \cup {NoOp.file},
           NEW ids \in SUBSET Id, NEW v \in Version, label = "snapshot" => ids = {},
           Begin(w, label, kind, f, ids, v)
    PROVE  SyncInv'
<1>1. /\ Types /\ Operations /\ Owners /\ ChunkInv /\ pc[w] = "idle" /\ op[w].ids = {}
  BY OperationIs DEF SyncInv, Begin, Types
<1>2. Starts(w, label, ids, v)
  <2> DEFINE begun == [kind |-> kind, file |-> f, todo |-> ids, ids |-> ids, ver |-> v, snap |-> {}]
  <2>1. /\ begun \in OpType /\ begun.ids = ids /\ begun.ver = v /\ begun.todo = ids
        /\ begun.snap = {}
    BY DEF OpType
  <2>2. pc' = [pc EXCEPT ![w] = label] /\ op' = [op EXCEPT ![w] = begun]
    BY DEF Begin, Goto
  <2> HIDE DEF begun
  <2> QED BY <1>1, <2>1, <2>2 DEF Starts, Others, Operations, Label
<1>3. Others(w) /\ pc'[w] = label /\ op'[w].ids = ids /\ op'[w].todo = ids
  BY <1>2 DEF Starts
<1>4. Types'
  <2>1. Operations'
    BY <1>1, <1>2, StartsWell DEF Label, Storing
  <2>2. ops' \in Nat /\ overlap' \in BOOLEAN /\ raced' \in BOOLEAN
    BY <1>1 DEF Begin, Types
  <2>3. settled' \in [Searcher -> SUBSET Id]
    BY <1>1 DEF Begin, Types, Searches
  <2> QED BY <1>1, <2>1, <2>2, <2>3 DEF Begin, Types, Maps, Searches, searching, structures, Ids
<1>5. \A u \in Writer : u \in InFlight \/ op[u].ids = {}
  BY <1>1, OperationIs DEF InFlight
<1>6. Owners'
  BY <1>1, <1>3, <1>5 DEF Begin, Owners, Others
<1>7. ChunkInv'
  <2> SUFFICES ASSUME NEW i \in Id, Clean(i)' PROVE Chunk(i)'
    BY DEF ChunkInv, Clean
  <2>1. Chunk(i)
    BY <1>1 DEF ChunkInv, Clean, Begin
  <2>2. Whole(i) => Whole(i)'
    BY DEF Begin, structures, Whole, Posted
  <2>3. CASE i \in ids
    <3>1. \A u \in Writer : i \notin op[u].ids
      BY <1>5, <2>3 DEF Clean, Begin
    <3>2. Whole(i)'
      BY <2>1, <2>2, <3>1 DEF Chunk
    <3> QED BY <1>3, <2>3, <3>1, <3>2 DEF Chunk, During, Others, NoCorpus
  <2>4. CASE i \notin ids
    <3>1. ASSUME NEW u \in Writer \ {w}, During(u, i) PROVE During(u, i)'
      <4>1. pc'[u] = pc[u] /\ op'[u] = op[u] /\ Current(u)' = Current(u)
        BY <1>3 DEF Others, Current
      <4>2. Half(u, i) => Half(u, i)'
        BY <4>1 DEF Begin, structures, Half, Posted
      <4>3. Leaving(u, i) => Leaving(u, i)'
        BY <4>1 DEF Begin, structures, Leaving, Posted, NoCorpus
      <4> QED BY <2>2, <3>1, <4>1, <4>2, <4>3 DEF During
    <3>2. \A u \in Writer \ {w} : op'[u] = op[u]
      BY <1>3 DEF Others
    <3> QED BY <1>1, <1>3, <2>1, <2>2, <2>4, <3>1, <3>2 DEF Chunk
  <2> QED BY <2>3, <2>4
<1>8. Ids(corpus)' = Ids(corpus) /\ Adding' \subseteq Adding
  BY <1>3, AddingNext DEF Begin, structures, Ids, Storing
<1>9. Serial'
  <2> SUFFICES ASSUME ~overlap' PROVE Serial'
    BY DEF Serial
  <2>1. ~overlap /\ InFlight = {}
    BY DEF Begin
  <2>2. \A u \in Writer \ {w} : pc'[u] = "idle"
    BY <1>3, <2>1 DEF InFlight, Others
  <2>3. postings' = corpus' /\ Cardinality(Ids(corpus)') <= Cap
    BY <1>8, <2>1 DEF SyncInv, Serial, Begin, structures
  <2>4. Progress(w)'
    BY <1>3, <2>3 DEF Progress, Storing, NoCorpus
  <2> QED BY <1>3, <2>2, <2>3, <2>4 DEF Serial, AtMostOne, InFlight
<1>10. CapOvershoot'
  BY <1>1, <1>8, CapNext DEF SyncInv
<1>11. Rebuilt'
  <2> SUFFICES ASSUME ~raced' PROVE Rebuilt'
    BY DEF Rebuilt
  <2>1. ~raced /\ InFlight = {}
    BY DEF Begin
  <2>2. \A u \in Writer \ {w} : pc'[u] = "idle"
    BY <1>3, <2>1 DEF InFlight, Others
  <2>3. Built(graph)'
    BY <1>8, <2>1 DEF SyncInv, Rebuilt, Built, Begin, structures
  <2> QED BY <1>3, <2>2, <2>3 DEF Rebuilt, AtMostOne, InFlight, Ready
<1> QED BY <1>4, <1>6, <1>7, <1>9, <1>10, <1>11 DEF SyncInv


-----------------------------------------------------------------------------
(* commit_parsed_batch.                                                    *)

\* Under the outer write lock no operation is in flight.
LEMMA NobodyElse ==
    ASSUME SyncInv, OuterFree
    PROVE  /\ \A w \in Writer : pc[w] = "idle" /\ op[w].ids = {}
           /\ InFlight = {} /\ Adding = {}
           /\ \A i \in Id : Clean(i) => Whole(i)
<1>1. \A w \in Writer : pc[w] = "idle" /\ op[w].ids = {}
  BY DEF OuterFree, InFlight, SyncInv, Types, Operations, Operation
<1> QED BY <1>1 DEF InFlight, Adding, SyncInv, ChunkInv, Chunk, Clean

\* A map with a batch in it.
LEMMA WithIs ==
    ASSUME NEW m \in [Id -> Version], NEW ids \in SUBSET Id, NEW v \in Version
    PROVE  /\ With(m, ids, v) \in [Id -> Version]
           /\ \A i \in ids : With(m, ids, v)[i] = v
           /\ \A i \in Id \ ids : With(m, ids, v)[i] = m[i]
  BY DEF With

\* A batch takes every structure from one content to the next, and only the caches may lack
\* some of it: those of embeddings always, the postings after an overlap.
LEMMA CommitStep == ASSUME SyncInv, Commit PROVE SyncInv'
<1>1. PICK f \in File, ids \in (SUBSET Id) \ {{}}, v \in 1..MaxVersion, k \in SUBSET Id :
        /\ OuterFree /\ ops < OpBound /\ ids \subseteq OfFile(f) /\ k \in Kept(ids)
        /\ ops' = ops + 1
        /\ vectors' = With(vectors, k, v)
        /\ \E q \in Capped(postings, k) : postings' = With(postings, q, v)
        /\ cache' \in PutAll(cache, k, v)
        /\ \E q \in Capped(corpus, k) : corpus' = With(corpus, q, v)
        /\ entities' = [entities EXCEPT ![f] = v]
        /\ \/ /\ raced' = TRUE /\ UNCHANGED graph
           \/ /\ k # {} /\ raced' = FALSE
              /\ \E s \in SUBSET Ids(corpus') :
                    /\ Cardinality(s) = Least(SnapshotCap, Cardinality(Ids(corpus')))
                    /\ graph' = s
        /\ settled' = [s \in Searcher |-> settled[s] \ ids]
        /\ UNCHANGED <<writing, searching, history, faults>>
  BY DEF Commit
<1>2. Types /\ Operations /\ Owners /\ v \in Version /\ v # 0
  BY IndexerAssumption DEF SyncInv, Types, Version
<1>3. /\ \A w \in Writer : pc[w] = "idle" /\ op[w].ids = {}
      /\ InFlight = {} /\ Adding = {}
      /\ \A i \in Id : Clean(i) => Whole(i)
  BY <1>1, NobodyElse
<1>4. pc' = pc /\ op' = op /\ contested' = contested /\ torn' = torn /\ overlap' = overlap
  BY <1>1 DEF writing, history
<1>5. /\ corpus' \in [Id -> Version] /\ \A i \in k : corpus'[i] = v
      /\ \A i \in Id \ k : corpus'[i] = corpus[i]
      /\ Cardinality(Ids(corpus) \cup k) <= Cap \/ k \subseteq Ids(corpus)
      /\ \A q \in Capped(corpus, k) : q = k
  <2>1. corpus \in [Id -> Version]
    BY <1>2 DEF Types, Maps
  <2>2. /\ \A q \in Capped(corpus, k) : q = k
        /\ Cardinality(Ids(corpus) \cup k) <= Cap \/ k \subseteq Ids(corpus)
    BY <1>1, <2>1, CappedIs DEF Kept
  <2>3. corpus' = With(corpus, k, v)
    BY <1>1, <2>2
  <2> QED BY <1>2, <2>1, <2>2, <2>3, WithIs
<1>6. /\ vectors' \in [Id -> Version] /\ \A i \in k : vectors'[i] = v
      /\ \A i \in Id \ k : vectors'[i] = vectors[i]
  <2>1. vectors \in [Id -> Version]
    BY <1>2 DEF Types, Maps
  <2> QED BY <1>1, <1>2, <2>1, WithIs
<1>7. /\ postings' \in [Id -> Version]
      /\ \A i \in k : postings'[i] = v \/ (overlap /\ postings'[i] = 0)
      /\ \A i \in Id \ k : postings'[i] = postings[i]
  <2>1. postings \in [Id -> Version] /\ corpus \in [Id -> Version]
    BY <1>2 DEF Types, Maps
  <2>2. PICK q \in Capped(postings, k) : postings' = With(postings, q, v)
    BY <1>1
  <2>3. q \in SUBSET k /\ k \cap Ids(postings) \subseteq q /\ q \in SUBSET Id
    BY <2>1, CappedIs
  <2>4. ~overlap => q = k
    <3>1. ~overlap => postings = corpus
      BY <1>3 DEF SyncInv, Serial
    <3> QED BY <1>5, <3>1
  <2>5. /\ postings' \in [Id -> Version] /\ \A i \in q : postings'[i] = v
        /\ \A i \in Id \ q : postings'[i] = postings[i]
    BY <1>2, <2>1, <2>2, <2>3, WithIs
  <2>6. \A i \in k \ q : postings[i] = 0
    BY <2>3 DEF Ids
  <2>7. overlap \in BOOLEAN
    BY <1>2 DEF Types
  <2> QED BY <2>3, <2>4, <2>5, <2>6, <2>7
<1>8. /\ cache' \in [Id -> Version] /\ Cardinality(Ids(cache')) <= CacheCap
      /\ \A i \in k : cache'[i] \in {0, v}
      /\ \A i \in Id \ k : cache'[i] \in {0, cache[i]}
  BY <1>1, <1>2, PutAllIs DEF Types, Maps
<1>9. /\ Ids(corpus)' = Ids(corpus) \cup k /\ Ids(corpus)' = Ids(corpus')
      /\ Ids(corpus') \in SUBSET Id
  BY <1>2, <1>5 DEF Ids
<1>10. Types'
  <2>1. Operations'
    BY <1>2, <1>4 DEF Operations, Operation
  <2>7. ops' \in Nat
    BY <1>1, <1>2 DEF Types
  <2>8. raced' \in BOOLEAN
    BY <1>1
  <2>2. entities' \in [File -> Version]
    BY <1>1, <1>2 DEF Types, Maps
  <2>3. graph' \in SUBSET Id /\ Cardinality(graph') <= SnapshotCap
    <3>1. CASE UNCHANGED graph
      BY <1>2, <3>1 DEF Types, Maps
    <3>2. CASE \E s \in SUBSET Ids(corpus') :
                  Cardinality(s) = Least(SnapshotCap, Cardinality(Ids(corpus'))) /\ graph' = s
      <4>1. SnapshotCap \in Nat /\ Cardinality(Ids(corpus')) \in Nat
        BY <1>9, IdsFinite, IndexerAssumption
      <4>2. Least(SnapshotCap, Cardinality(Ids(corpus'))) <= SnapshotCap
        BY ONLY <4>1, LeastIs
      <4> QED BY ONLY <1>9, <3>2, <4>2
    <3> QED BY <1>1, <3>1, <3>2
  <2>4. settled' \in [Searcher -> SUBSET Id]
    BY <1>1, <1>2 DEF Types, Searches
  <2>5. Maps'
    BY <1>5, <1>6, <1>7, <1>8, <2>2, <2>3 DEF Maps, Ids
  <2>6. Searches'
    BY <1>1, <1>2, <2>4 DEF Types, Searches, searching
  <2> QED BY <1>1, <1>2, <1>4, <2>1, <2>5, <2>6, <2>7, <2>8 DEF Types
<1>11. Owners'
  BY <1>2, <1>4 DEF Owners
<1>12. ChunkInv'
  <2> SUFFICES ASSUME NEW i \in Id, Clean(i)' PROVE Chunk(i)'
    BY DEF ChunkInv, Clean
  <2>1. Whole(i)
    BY <1>3, <1>4 DEF Clean
  <2>2. CASE i \in k
    <3>1. Whole(i)'
      BY <1>4, <1>5, <1>6, <1>7, <1>8, <2>2 DEF Whole, Posted
    <3> QED BY <1>3, <1>4, <3>1 DEF Chunk
  <2>3. CASE i \notin k
    <3>1. /\ corpus'[i] = corpus[i] /\ vectors'[i] = vectors[i]
          /\ postings'[i] = postings[i] /\ cache'[i] \in {0, cache[i]}
      BY <1>5, <1>6, <1>7, <1>8, <2>3
    <3>2. Whole(i)'
      BY <1>4, <2>1, <3>1 DEF Whole, Posted
    <3> QED BY <1>3, <1>4, <3>2 DEF Chunk
  <2> QED BY <2>2, <2>3
<1>13. Serial'
  <2> SUFFICES ASSUME ~overlap PROVE Serial'
    BY <1>4 DEF Serial
  <2>1. Cardinality(Ids(corpus)') <= Cap
    <3>1. Cardinality(Ids(corpus)) <= Cap
      BY DEF SyncInv, Serial
    <3> QED BY <1>5, <1>9, <3>1
  <2>2. postings' = corpus'
    <3>1. \A i \in k : postings'[i] = corpus'[i]
      BY <1>5, <1>7
    <3>2. \A i \in Id \ k : postings'[i] = corpus'[i]
      BY <1>3, <1>5, <1>7 DEF SyncInv, Serial
    <3> QED BY <1>5, <1>7, <3>1, <3>2
  <2> QED BY <1>3, <1>4, <2>1, <2>2 DEF Serial, AtMostOne, InFlight
<1>14. CapOvershoot'
  <2>1. Adding' = {}
    BY <1>3, <1>4 DEF Adding
  <2>2. CASE k \subseteq Ids(corpus)
    BY <1>2, <1>9, <2>1, <2>2, CapNext DEF SyncInv
  <2>3. CASE Cardinality(Ids(corpus) \cup k) <= Cap
    <3>1. Ids(corpus)' \cup Adding' = Ids(corpus) \cup k
      BY <1>9, <2>1
    <3>2. /\ Cardinality(Ids(corpus) \cup k) \in Nat /\ Cardinality(Writer) \in Nat
          /\ Cardinality(Writer) # 0
      BY <1>9, IdsFinite, IndexerAssumption, FS_CardinalityType, FS_EmptySet
    <3>3. Cardinality(Ids(corpus) \cup k) <= Cap + Cardinality(Writer) - 1
      BY <2>3, <3>2, IndexerAssumption
    <3> QED BY <3>1, <3>3 DEF CapOvershoot
  <2> QED BY <1>5, <2>2, <2>3
<1>15. Rebuilt'
  <2> SUFFICES ASSUME ~raced' PROVE Rebuilt'
    BY DEF Rebuilt
  <2>1. Built(graph)'
    BY <1>1, <1>9 DEF Built
  <2> QED BY <1>3, <1>4, <2>1 DEF Rebuilt, AtMostOne, InFlight
<1> QED BY <1>10, <1>11, <1>12, <1>13, <1>14, <1>15 DEF SyncInv

\* A batch that fails leaves vectors of chunks that count as torn from then on.
LEMMA CommitFailsStep == ASSUME SyncInv, CommitFails PROVE SyncInv'
<1>1. PICK v \in 1..MaxVersion, ids \in SUBSET Id, part \in SUBSET Id :
        /\ OuterFree /\ faults' = faults + 1 /\ ops' = ops + 1
        /\ vectors' = With(vectors, part, v) /\ torn' = torn \cup part
        /\ settled' = [s \in Searcher |-> settled[s] \ ids]
        /\ UNCHANGED <<corpus, postings, cache, entities, graph, writing, searching,
                       contested, overlap, raced>>
  BY DEF CommitFails
<1>2. Types /\ Operations /\ Owners /\ v \in Version
  BY IndexerAssumption DEF SyncInv, Types, Version
<1>3. /\ \A w \in Writer : pc[w] = "idle" /\ op[w].ids = {}
      /\ InFlight = {} /\ Adding = {}
      /\ \A i \in Id : Clean(i) => Whole(i)
  BY <1>1, NobodyElse
<1>4. pc' = pc /\ op' = op
  BY <1>1 DEF writing
<1>5. /\ vectors' \in [Id -> Version]
      /\ \A i \in Id \ part : vectors'[i] = vectors[i]
  <2>1. vectors \in [Id -> Version]
    BY <1>2 DEF Types, Maps
  <2>2. /\ With(vectors, part, v) \in [Id -> Version]
        /\ \A i \in Id \ part : With(vectors, part, v)[i] = vectors[i]
    BY <1>2, <2>1, WithIs
  <2> QED BY <1>1, <2>2
<1>6. Types'
  <2>1. Operations' /\ ops' \in Nat /\ faults' \in Nat
    BY <1>1, <1>2, <1>4 DEF Operations, Operation, Types
  <2>2. settled' \in [Searcher -> SUBSET Id]
    BY <1>1, <1>2 DEF Types, Searches
  <2>3. Maps' /\ Searches'
    BY <1>1, <1>2, <1>5, <2>2 DEF Types, Maps, Searches, searching, Ids
  <2> QED BY <1>1, <1>2, <2>1, <2>3 DEF Types
<1>7. Owners'
  BY <1>1, <1>2, <1>4 DEF Owners
<1>8. ChunkInv'
  <2> SUFFICES ASSUME NEW i \in Id, Clean(i)' PROVE Chunk(i)'
    BY DEF ChunkInv, Clean
  <2>1. Whole(i) /\ vectors'[i] = vectors[i]
    BY <1>1, <1>3, <1>5 DEF Clean
  <2>2. Whole(i)'
    BY <1>1, <2>1 DEF Whole, Posted
  <2> QED BY <1>3, <1>4, <2>2 DEF Chunk
<1>9. Ids(corpus)' = Ids(corpus) /\ Adding' = Adding
  BY <1>1, <1>4 DEF Ids, Adding, Current
<1>10. Serial'
  BY <1>1, <1>3, <1>4, <1>9 DEF SyncInv, Serial, AtMostOne, InFlight
<1>11. CapOvershoot'
  BY <1>9 DEF SyncInv, CapOvershoot
<1>12. Rebuilt'
  BY <1>1, <1>3, <1>4, <1>9 DEF SyncInv, Rebuilt, AtMostOne, InFlight, Built
<1> QED BY <1>6, <1>7, <1>8, <1>10, <1>11, <1>12 DEF SyncInv

-----------------------------------------------------------------------------
(* Every step.                                                             *)

\* The first step of an operation.
LEMMA BeginsStep ==
    ASSUME SyncInv, NEW w \in Writer,
           IndexFile(w) \/ RemoveFile(w) \/ RemoveChunk(w) \/ RebuildNow(w)
    PROVE  SyncInv'
<1>1. 0 \in Version /\ \A v \in 1..MaxVersion : v \in Version
  BY IndexerAssumption DEF Version
<1>2. CASE IndexFile(w)
  <2>1. PICK f \in File, ids \in (SUBSET Id) \ {{}}, v \in 1..MaxVersion :
           Begin(w, "check", "index", f, ids, v)
    BY <1>2 DEF IndexFile
  <2> QED BY <1>1, <2>1, BeginStep
<1>3. CASE RemoveFile(w)
  <2>1. PICK f \in File : Begin(w, "rmVector", "remove", f, OfFile(f) \cap Ids(corpus), 0)
    BY <1>3 DEF RemoveFile
  <2>2. OfFile(f) \cap Ids(corpus) \in SUBSET Id
    BY DEF Ids
  <2> QED BY <1>1, <2>1, <2>2, BeginStep
<1>4. CASE RemoveChunk(w)
  <2>1. PICK i \in Id : Begin(w, "rmVector", "drop", FileOf[i], {i}, 0)
    BY <1>4 DEF RemoveChunk
  <2>2. {i} \in SUBSET Id /\ FileOf[i] \in File
    BY IndexerAssumption
  <2> QED BY <1>1, <2>1, <2>2, BeginStep
<1>5. CASE RebuildNow(w)
  <2>1. Begin(w, "snapshot", "last", NoOp.file, {}, 0)
    BY <1>5 DEF RebuildNow
  <2> QED BY <1>1, <2>1, BeginStep
<1> QED BY <1>2, <1>3, <1>4, <1>5

Elsewhere == UNCHANGED <<structures, writing, history, raced, ops, faults>>

\* A search changes only what is its own.
LEMMA SearchesOnly ==
    ASSUME Types, NEW s \in Searcher, SearchStep(s)
    PROVE  Searches' /\ Elsewhere
<1> USE DEF Types, Searches, Elsewhere, ToLane
<1>1. CASE SearchBegin(s)
  BY <1>1 DEF SearchBegin
<1>2. CASE HnswLane(s)
  BY <1>2 DEF HnswLane, Ids
<1>3. CASE Bm25Lane(s)
  BY <1>3 DEF Bm25Lane, Ids
<1>4. CASE KgLane(s)
  BY <1>4 DEF KgLane, Maps
<1>5. CASE Materialize(s)
  BY <1>5 DEF Materialize
<1> QED BY <1>1, <1>2, <1>3, <1>4, <1>5 DEF SearchStep

\* What a writer left agrees as long as no writer moves.
LEMMA ElsewhereKeeps == ASSUME SyncInv, Searches', Elsewhere PROVE SyncInv'
<1>1. /\ structures' = structures /\ pc' = pc /\ op' = op /\ contested' = contested
      /\ torn' = torn /\ overlap' = overlap /\ raced' = raced /\ ops' = ops /\ faults' = faults
  BY DEF Elsewhere, writing, history
<1>2. Types'
  BY <1>1 DEF SyncInv, Types, Maps, Operations, Operation, structures, Ids
<1>3. Owners'
  BY <1>1 DEF SyncInv, Owners
<1>4. ChunkInv'
  <2>1. ASSUME NEW w \in Writer, NEW i \in Id, During(w, i) PROVE During(w, i)'
    BY <1>1, <2>1 DEF During, Half, Leaving, Whole, Posted, Current, structures
  <2>2. ASSUME NEW i \in Id, Chunk(i) PROVE Chunk(i)'
    BY <1>1, <2>1, <2>2 DEF Chunk, Whole, Posted, structures
  <2> QED BY <1>1, <2>2 DEF SyncInv, ChunkInv
<1>5. Serial'
  <2>1. ASSUME NEW w \in Writer, Progress(w) PROVE Progress(w)'
    BY <1>1, <2>1 DEF Progress, RoomFor, Current, Ids, structures
  <2> QED BY <1>1, <2>1 DEF SyncInv, Serial, AtMostOne, InFlight, Ids, structures
<1>6. CapOvershoot'
  BY <1>1 DEF SyncInv, CapOvershoot, Ids, Adding, Current, structures
<1>7. Rebuilt'
  BY <1>1 DEF SyncInv, Rebuilt, Ready, Built, AtMostOne, InFlight, Ids, structures
<1> QED BY <1>2, <1>3, <1>4, <1>5, <1>6, <1>7 DEF SyncInv

\* The empty indexer is in sync.
LEMMA InitSync == Init => SyncInv
<1> SUFFICES ASSUME Init PROVE SyncInv
  OBVIOUS
<1>1. Types
  BY InitTypes
<1>2. /\ \A w \in Writer : pc[w] = "idle" /\ op[w].ids = {}
      /\ InFlight = {} /\ Adding = {} /\ Ids(corpus) = {} /\ Cardinality({}) = 0
  BY FS_EmptySet DEF Init, NoOp, InFlight, Adding, Ids
<1>3. Owners
  BY <1>2 DEF Owners
<1>4. ChunkInv
  BY <1>2 DEF Init, ChunkInv, Chunk, Whole, Posted
<1>5. Serial
  <2>1. postings = corpus
    BY DEF Init
  <2>2. Cardinality(Ids(corpus)) <= Cap
    BY <1>2, IndexerAssumption
  <2> QED BY <1>2, <2>1, <2>2 DEF Serial, AtMostOne
<1>6. CapOvershoot
  <2>1. Cardinality(Writer) \in Nat
    BY IndexerAssumption, FS_CardinalityType
  <2> QED BY <1>2, <2>1, IndexerAssumption DEF CapOvershoot
<1>7. Rebuilt
  <2>1. graph = {}
    BY DEF Init
  <2>2. SnapshotCap \in Nat
    BY IndexerAssumption
  <2>3. Least(SnapshotCap, 0) = 0
    BY ONLY <2>2 DEF Least
  <2>4. Built({})
    BY ONLY <1>2, <2>3 DEF Built
  <2>5. Built(graph)
    BY <2>1, <2>4
  <2> QED BY <1>2, <2>5 DEF Rebuilt, AtMostOne
<1> QED BY <1>1, <1>3, <1>4, <1>5, <1>6, <1>7 DEF SyncInv

\* Every step keeps the indexer in sync.
LEMMA NextSync == SyncInv /\ [Next]_vars => SyncInv'
<1> SUFFICES ASSUME SyncInv, [Next]_vars PROVE SyncInv'
  OBVIOUS
<1>1. ASSUME NEW w \in Writer, AddStep(w) PROVE SyncInv'
  BY <1>1, AddCheckStep, AddVectorStep, AddFailsStep, AddCacheStep, AddPostingsStep,
     AddCorpusStep, SetEntitiesStep DEF AddStep
<1>2. ASSUME NEW w \in Writer, RemoveStep(w) PROVE SyncInv'
  BY <1>2, RemoveVectorStep, RemoveFromCorpusStep, RemoveFromCacheStep,
     RemoveFromPostingsStep, RemoveEntitiesStep DEF RemoveStep
<1>3. ASSUME NEW w \in Writer, RebuildStep(w) PROVE SyncInv'
  BY <1>3, TakeSnapshotStep, InstallGraphStep DEF RebuildStep
<1>4. ASSUME NEW s \in Searcher, SearchStep(s) PROVE SyncInv'
  BY <1>4, SearchesOnly, ElsewhereKeeps DEF SyncInv
<1>5. CASE UNCHANGED vars
  <2>1. Searches' /\ Elsewhere
    BY <1>5 DEF vars, searching, SyncInv, Types, Searches, Elsewhere
  <2> QED BY <2>1, ElsewhereKeeps
<1> QED BY <1>1, <1>2, <1>3, <1>4, <1>5, BeginsStep, CommitStep, CommitFailsStep DEF Next

\* At rest the structures of a CodeIndexer agree: of a chunk no two operations worked on at
\* once and no failed store call left half-way, all hold the same content, the postings are
\* those of the corpus unless operations overlapped, the corpus passes its cap by no more
\* than the race of its writers explains, and the graph is of the current corpus.
THEOREM InSync == Spec => []StructuresInSync
<1>1. SyncInv => StructuresInSync
  <2> SUFFICES ASSUME SyncInv PROVE StructuresInSync
    OBVIOUS
  <2>1. IndexerTypeOK
    BY TypesSuffice DEF SyncInv
  <2>2. StructuresAgree
    <3> SUFFICES ASSUME InFlight = {}, NEW i \in Id \ (contested \cup torn) PROVE Whole(i)
      BY DEF StructuresAgree, AtRest, Whole, Posted
    <3>1. \A w \in Writer : op[w].ids = {}
      BY DEF SyncInv, Types, Operations, Operation, InFlight
    <3> QED BY <3>1 DEF SyncInv, ChunkInv, Chunk
  <2>3. SerialInSync
    BY DEF SyncInv, Serial, SerialInSync, AtRest
  <2>4. GraphCurrent
    BY DEF SyncInv, Rebuilt, GraphCurrent, AtRest, Built
  <2> QED BY <2>1, <2>2, <2>3, <2>4 DEF StructuresInSync, SyncInv
<1> QED BY <1>1, InitSync, NextSync, PTL DEF Spec

-----------------------------------------------------------------------------
(* Searches.                                                               *)

\* A step of a writer leaves the chunks that are settled alone, or unsettles them.
Settles(touched) ==
    /\ UNCHANGED searching /\ contested \subseteq contested' /\ torn \subseteq torn'
    /\ \A w \in Writer : op'[w].ids \subseteq op[w].ids \cup touched
    /\ \A s \in Searcher : settled'[s] \subseteq settled[s] \ touched
    /\ \A i \in Id \ touched : (\A w \in Writer : i \notin op[w].ids) => corpus'[i] = corpus[i]

\* ... so that what the searches have seen stays complete.
LEMMA SettledKept ==
    ASSUME Searches, NEW s \in Searcher, Searched(s), NEW touched, Settles(touched)
    PROVE  Searched(s)'
<1> SUFFICES ASSUME NEW i \in settled'[s]
             PROVE  /\ \A w \in Writer : i \notin op'[w].ids
                    /\ i \notin contested' \cup torn' =>
                          /\ spc'[s] \in {"bm25", "kg", "materialize"} /\ corpus'[i] # 0
                                => i \in seen'[s]
                          /\ spc'[s] = "done" => (i \in hits'[s] <=> corpus'[i] # 0)
  BY DEF Searched
<1>1. i \in settled[s] /\ i \notin touched /\ i \in Id
  BY DEF Settles, Searches
<1>2. \A w \in Writer : i \notin op[w].ids
  BY <1>1 DEF Searched
<1>3. corpus'[i] = corpus[i] /\ \A w \in Writer : i \notin op'[w].ids
  BY <1>1, <1>2 DEF Settles
<1>4. spc' = spc /\ seen' = seen /\ hits' = hits
  BY DEF Settles, searching
<1>5. i \notin contested' \cup torn' => i \notin contested \cup torn
  BY DEF Settles
<1> QED BY <1>1, <1>3, <1>4, <1>5 DEF Searched

\* The step that begins an operation unsettles what it works on.
LEMMA BeginSettles ==
    ASSUME SyncInv, NEW w \in Writer,
           IndexFile(w) \/ RemoveFile(w) \/ RemoveChunk(w) \/ RebuildNow(w)
    PROVE  \E touched : Settles(touched)
<1>1. PICK label, kind, f, ids, v : Begin(w, label, kind, f, ids, v)
  BY DEF IndexFile, RemoveFile, RemoveChunk, RebuildNow
<1>2. \A u \in Writer : op'[u].ids \subseteq op[u].ids \cup ids
  BY <1>1 DEF Begin, SyncInv, Types, Operations
<1>3. Settles(ids)
  BY <1>1, <1>2 DEF Begin, Settles, structures, SyncInv, Types, Searches
<1> QED BY <1>3

\* So does a batch, committed or failed.
LEMMA CommitSettles ==
    ASSUME SyncInv, Commit \/ CommitFails
    PROVE  \E touched : Settles(touched)
<1>1. CASE Commit
  <2>1. PICK ids \in SUBSET Id, k \in SUBSET Id, q \in SUBSET Id, v \in Nat :
          /\ k \subseteq ids /\ q \subseteq k /\ corpus' = With(corpus, q, v)
          /\ settled' = [s \in Searcher |-> settled[s] \ ids]
          /\ UNCHANGED <<writing, searching, history, faults>>
    BY <1>1 DEF Commit, Kept, Capped
  <2>2. \A i \in Id \ ids : corpus'[i] = corpus[i]
    BY <2>1 DEF With
  <2>3. Settles(ids)
    BY <2>1, <2>2 DEF Settles, writing, history
  <2> QED BY <2>3
<1>2. CASE CommitFails
  <2>1. PICK ids \in SUBSET Id, part \in SUBSET Id :
          /\ torn' = torn \cup part
          /\ settled' = [s \in Searcher |-> settled[s] \ ids]
          /\ UNCHANGED <<corpus, writing, searching, contested>>
    BY <1>2 DEF CommitFails
  <2>2. Settles(ids)
    BY <2>1 DEF Settles, writing
  <2> QED BY <2>2
<1> QED BY <1>1, <1>2

\* The other steps touch only chunks of the operation.
LEMMA StepSettles ==
    ASSUME SyncInv, NEW w \in Writer, AddStep(w) \/ RemoveStep(w) \/ RebuildStep(w)
    PROVE  Settles({})
<1>1. /\ Operations /\ Maps /\ op[w].ids \in SUBSET Id /\ NoOp.ids = {}
      /\ pc[w] \in Storing => Current(w) \in op[w].ids
  BY OperationIs DEF SyncInv, Types, NoOp
<1>2. UNCHANGED <<searching, settled, contested>> /\ torn \subseteq torn'
  BY DEF AddStep, RemoveStep, RebuildStep, AddCheck, AddVector, AddFails, AddCache, AddPostings,
         AddCorpus, SetEntities, RemoveVector, RemoveFromCorpus, RemoveFromCache,
         RemoveFromPostings, RemoveEntities, TakeSnapshot, InstallGraph, history
<1>3. \A u \in Writer : op'[u].ids \subseteq op[u].ids
  BY <1>1 DEF AddStep, RemoveStep, RebuildStep, AddCheck, AddVector, AddFails, AddCache,
         AddPostings, AddCorpus, SetEntities, RemoveVector, RemoveFromCorpus, RemoveFromCache,
         RemoveFromPostings, RemoveEntities, TakeSnapshot, InstallGraph, Advance,
         Operations, OpType
<1>4. \A i \in Id \ op[w].ids : corpus'[i] = corpus[i]
  BY <1>1 DEF AddStep, RemoveStep, RebuildStep, AddCheck, AddVector, AddFails, AddCache,
         AddPostings, AddCorpus, SetEntities, RemoveVector, RemoveFromCorpus, RemoveFromCache,
         RemoveFromPostings, RemoveEntities, TakeSnapshot, InstallGraph, structures, Without,
         Maps, Storing
<1> QED BY <1>2, <1>3, <1>4 DEF Settles

\* Each lane adds to what the search has seen; the vector lane alone makes it complete about
\* the chunks that are settled, and the corpus takes out what was removed.
LEMMA SearchStepKeeps ==
    ASSUME SyncInv, \A s \in Searcher : Searched(s), NEW s \in Searcher, SearchStep(s)
    PROVE  \A u \in Searcher : Searched(u)'
<1>1. /\ Elsewhere /\ Searches
      /\ op' = op /\ corpus' = corpus /\ contested' = contested /\ torn' = torn
  BY SearchesOnly DEF SyncInv, Types, Elsewhere, structures, writing, history
<1>2. ASSUME NEW u \in Searcher \ {s} PROVE Searched(u)'
  <2>1. spc'[u] = spc[u] /\ seen'[u] = seen[u] /\ hits'[u] = hits[u] /\ settled'[u] = settled[u]
    BY <1>1 DEF SearchStep, SearchBegin, HnswLane, Bm25Lane, KgLane, Materialize, ToLane, Searches
  <2> QED BY <1>1, <2>1 DEF Searched
<1>3. Searched(s)
  OBVIOUS
<1>4. ASSUME NEW i \in settled[s], i \notin contested \cup torn
      PROVE  i \in Id /\ vectors[i] = corpus[i]
  BY <1>1, <1>3, <1>4 DEF Searched, SyncInv, ChunkInv, Chunk, Whole, Searches
<1>5. CASE SearchBegin(s)
  <2>1. \A w \in Writer : w \in InFlight \/ op[w].ids = {}
    BY DEF SyncInv, Types, Operations, Operation, InFlight
  <2>2. settled'[s] = {i \in Id : \A w \in InFlight : i \notin op[w].ids} /\ spc'[s] = "hnsw"
    BY <1>1, <1>5 DEF SearchBegin, ToLane, Searches
  <2>3. Searched(s)'
    BY <1>1, <2>1, <2>2 DEF Searched
  <2> QED BY <1>2, <2>3
<1>6. CASE HnswLane(s)
  <2>1. /\ spc'[s] = "bm25" /\ seen'[s] = Ids(vectors) /\ settled' = settled
    BY <1>1, <1>6 DEF HnswLane, ToLane, Searches
  <2>2. Searched(s)'
    BY <1>1, <1>3, <1>4, <2>1 DEF Searched, Ids
  <2> QED BY <1>2, <2>2
<1>7. CASE Bm25Lane(s)
  <2>1. spc[s] = "bm25" /\ spc'[s] = "kg" /\ seen[s] \subseteq seen'[s] /\ settled' = settled
    BY <1>1, <1>7 DEF Bm25Lane, ToLane, Searches
  <2>2. Searched(s)'
    BY <1>1, <1>3, <2>1 DEF Searched
  <2> QED BY <1>2, <2>2
<1>8. CASE KgLane(s)
  <2>1. /\ spc[s] = "kg" /\ spc'[s] = "materialize"
        /\ seen[s] \subseteq seen'[s] /\ settled' = settled
    BY <1>1, <1>8 DEF KgLane, ToLane, Searches
  <2>2. Searched(s)'
    BY <1>1, <1>3, <2>1 DEF Searched
  <2> QED BY <1>2, <2>2
<1>9. CASE Materialize(s)
  <2>1. /\ spc[s] = "materialize" /\ spc'[s] = "done"
        /\ hits'[s] = seen[s] \cap Ids(corpus) /\ settled' = settled
    BY <1>1, <1>9 DEF Materialize, ToLane, Searches
  <2>2. Searched(s)'
    BY <1>1, <1>3, <1>4, <2>1 DEF Searched, Ids
  <2> QED BY <1>2, <2>2
<1> QED BY <1>5, <1>6, <1>7, <1>8, <1>9 DEF SearchStep

\* No search has begun in the empty indexer.
LEMMA InitSearch == Init => SearchInv
<1> SUFFICES ASSUME Init PROVE SearchInv
  OBVIOUS
<1>1. SyncInv
  BY InitSync
<1>2. \A s \in Searcher : settled[s] = {}
  BY DEF Init
<1> QED BY <1>1, <1>2 DEF SearchInv, Searched

\* Every step keeps SearchInv.
LEMMA NextSearch == SearchInv /\ [Next]_vars => SearchInv'
<1> SUFFICES ASSUME SearchInv, [Next]_vars PROVE SearchInv'
  OBVIOUS
<1>1. SyncInv /\ Searches /\ \A s \in Searcher : Searched(s)
  BY DEF SearchInv, SyncInv, Types
<1>2. SyncInv'
  BY <1>1, NextSync
<1>3. \A s \in Searcher : Searched(s)'
  <2>1. ASSUME NEW touched, Settles(touched) PROVE \A s \in Searcher : Searched(s)'
    BY <1>1, <2>1, SettledKept
  <2>2. CASE \E w \in Writer : IndexFile(w) \/ RemoveFile(w) \/ RemoveChunk(w) \/ RebuildNow(w)
    BY <1>1, <2>1, <2>2, BeginSettles
  <2>3. CASE \E w \in Writer : AddStep(w) \/ RemoveStep(w) \/ RebuildStep(w)
    BY <1>1, <2>1, <2>3, StepSettles
  <2>4. CASE Commit \/ CommitFails
    BY <1>1, <2>1, <2>4, CommitSettles
  <2>5. CASE \E s \in Searcher : SearchStep(s)
    BY <1>1, <2>5, SearchStepKeeps
  <2>6. CASE UNCHANGED vars
    BY <1>1, <2>6 DEF vars, structures, writing, searching, history, Searched
  <2> QED BY <2>2, <2>3, <2>4, <2>5, <2>6 DEF Next
<1> QED BY <1>2, <1>3 DEF SearchInv

\* A search reads its lanes and the corpus at different moments; of a chunk nobody works on
\* meanwhile, and whose structures agree, it finds it if and only if the corpus has it.
THEOREM Exact == Spec => []SearchExact
<1>1. SearchInv => SearchExact
  BY DEF SearchInv, Searched, SearchExact
<1> QED BY <1>1, InitSearch, NextSearch, PTL DEF Spec
=============================================================================
