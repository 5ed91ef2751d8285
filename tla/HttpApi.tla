------------------------------- MODULE HttpApi -------------------------------
(***************************************************************************)
(* The handlers that read an index: pages of its chunks, chunks that are   *)
(* like a given one, questions to a language model about it. While clients *)
(* read, files are indexed and removed, indexes come and go, the daemon    *)
(* restarts.                                                               *)
(*                                                                         *)
(* A handle is one life of an index: a request keeps the handle it found.  *)
(* The corpus of a handle is a hash map, here a sequence in the order the  *)
(* map yields it, which an insertion or a restart may change. Chunks are   *)
(* records; a record stands for the chunk's id. Files are numbers.         *)
(***************************************************************************)
EXTENDS Naturals, FiniteSets, SequencesExt

CONSTANTS IndexName,         \* of indexes
          Files,             \* files to their contents, which are sets of chunks
          Endings,           \* what clients ask for: sets of the files that end so
          LruCap,            \* embeddings kept of a handle
          MAX_CHUNKS_LIMIT,
          MaxLimit, MaxTopK, \* bounds on what clients ask for
          MaxHandles, MaxUpdates

Nobody == "nobody"
Chunks == UNION UNION {Files[f] : f \in DOMAIN Files}
Handle == 1..MaxHandles

ASSUME ApiAssumption ==
    /\ DOMAIN Files \subseteq Nat
    /\ \A f \in DOMAIN Files : \A new \in Files[f] : IsFiniteSet(new)
    /\ \A c \in Chunks : c.file \in DOMAIN Files /\ {c.from, c.to} \subseteq Nat
    /\ \A s \in Endings : s \subseteq DOMAIN Files
    /\ {LruCap, MAX_CHUNKS_LIMIT, MaxLimit} \subseteq Nat \ {0}
    /\ MaxTopK \in Nat /\ MaxHandles \in Nat

VARIABLES
    live,        \* the registry: indexes to handles, 0 for none
    handles,     \* handles made
    table,       \* chunks of a handle, as its hash map yields them
    vectors,     \* chunks in the vector store
    embeddings,  \* chunks in the LRU of embeddings
    updates,     \* changes by other clients
    pager,       \* a client that pages through an index
    similar,     \* a request for similar chunks
    daemon_key,  \* the key in the daemon's environment
    local,       \* whether a local model server runs
    cell,        \* the provider chosen at first use
    chat         \* a request to the model

indexes == <<live, handles, table, vectors, embeddings>>
chatting == <<daemon_key, local, cell, chat>>
apivars == <<indexes, updates, pager, similar, chatting>>

Idle == [at |-> "idle"]

ApiInit ==
    /\ live = [i \in IndexName |-> 0] /\ handles = 0
    /\ table = [h \in Handle |-> <<>>]
    /\ vectors = [h \in Handle |-> {}] /\ embeddings = [h \in Handle |-> {}]
    /\ updates = 0 /\ pager = Idle /\ similar = Idle
    /\ daemon_key \in {Nobody, "env"} /\ local \in BOOLEAN /\ cell = "unset" /\ chat = Idle

ChunksOf(h) == ToSet(table[h])
Orders(set) == {s \in [1..Cardinality(set) -> set] : IsInjective(s)}
Smaller(a, b) == IF a < b THEN a ELSE b
FirstOf(n, s) == SubSeq(s, 1, Smaller(n, Len(s)))

\* What is at some positions of a sequence, in their order.
Picked(s, positions) ==
    LET Rank(n) == Cardinality({m \in positions : m <= n})
    IN [r \in 1..Cardinality(positions) |-> s[CHOOSE n \in positions : Rank(n) = r]]

------------------------------------------------------------------------------
(* Changes of an index (Indexer has their steps).                          *)

Register(i) ==
    /\ live[i] = 0 /\ handles < MaxHandles
    /\ handles' = handles + 1 /\ live' = [live EXCEPT ![i] = handles + 1]
    /\ UNCHANGED <<table, vectors, embeddings>>

Unregister(i) ==
    /\ live[i] # 0 /\ live' = [live EXCEPT ![i] = 0]
    /\ UNCHANGED <<handles, table, vectors, embeddings>>

\* The LRU keeps the newest; which of the older ones go is left open.
Insert(h, new) ==
    /\ table' \in IF new \subseteq ChunksOf(h) THEN {table}
                  ELSE {[table EXCEPT ![h] = s] : s \in Orders(ChunksOf(h) \cup new)}
    /\ \E kept \in SUBSET (embeddings[h] \cup new) :
           /\ Cardinality(kept) = Smaller(LruCap, Cardinality(embeddings[h] \cup new))
           /\ kept \subseteq new \/ new \subseteq kept
           /\ embeddings' = [embeddings EXCEPT ![h] = kept]
    /\ vectors' = [vectors EXCEPT ![h] = @ \cup new]
    /\ UNCHANGED <<live, handles>>

\* The store has the vectors, and the batch fails before the corpus has the chunks.
InsertFails(h, new) ==
    vectors' = [vectors EXCEPT ![h] = @ \cup new] /\ UNCHANGED <<live, handles, table, embeddings>>

Erase(h, f) ==
    LET Without(set) == {c \in set : c.file # f}
    IN /\ table' = [table EXCEPT ![h] = Picked(@, {n \in DOMAIN @ : @[n].file # f})]
       /\ vectors' = [vectors EXCEPT ![h] = Without(@)]
       /\ embeddings' = [embeddings EXCEPT ![h] = Without(@)]
       /\ UNCHANGED <<live, handles>>

\* ChunksOf and vectors come back from their files, the LRU does not.
Reload(h, order) ==
    /\ table' = [table EXCEPT ![h] = order] /\ embeddings' = [embeddings EXCEPT ![h] = {}]
    /\ UNCHANGED <<live, handles, vectors>>

Change(i) ==
    \/ Register(i)
    \/ Unregister(i)
    \/ \E f \in DOMAIN Files :
           /\ live[i] # 0
           /\ \/ \E new \in Files[f] : Insert(live[i], new) \/ InsertFails(live[i], new)
              \/ Erase(live[i], f)

\* Requests under way do not survive a restart; a client that pages asks again.
Reboot(i) ==
    /\ live[i] # 0 /\ similar.at \in {"idle", "done"} /\ chat.at \in {"idle", "done", "listed"}
    /\ \E order \in Orders(ChunksOf(live[i])) : Reload(live[i], order)
    /\ cell' = "unset" /\ UNCHANGED <<daemon_key, local, chat>>

Elsewhere ==
    /\ updates < MaxUpdates /\ updates' = updates + 1
    /\ \E i \in IndexName : \/ Change(i) /\ UNCHANGED chatting
                       \/ Reboot(i)
    /\ UNCHANGED <<pager, similar>>

------------------------------------------------------------------------------
(* A client takes page after page, by the limit each answer states.        *)

Precedes(a, b) ==
    \/ a.file < b.file
    \/ a.file = b.file /\ a.from < b.from
    \/ a.file = b.file /\ a.from = b.from /\ a.to < b.to

\* A stable sort by file, first line and last line.
Ordered(chunks) ==
    LET Ahead(m, n) == \/ Precedes(chunks[m], chunks[n])
                       \/ m < n /\ ~Precedes(chunks[n], chunks[m])
        Place(n) == 1 + Cardinality({m \in DOMAIN chunks : Ahead(m, n)})
    IN [p \in DOMAIN chunks |-> chunks[CHOOSE n \in DOMAIN chunks : Place(n) = p]]

enumerate_chunks(h, offset, limit) ==
    IF limit = 0 \/ offset >= Len(table[h]) THEN <<>>
    ELSE SubSeq(Ordered(table[h]), offset + 1, Smaller(offset + limit, Len(table[h])))

get_index_chunks(h, offset, limit) ==
    LET clamped == Smaller(limit, MAX_CHUNKS_LIMIT)
    IN [total |-> Len(table[h]), limit |-> clamped, chunks |-> enumerate_chunks(h, offset, clamped)]

PagerStart ==
    /\ pager.at \in {"idle", "done"}
    /\ \E i \in IndexName, limit \in 1..MaxLimit :
           /\ live[i] # 0
           /\ pager' = [at |-> "reading", index |-> i, limit |-> limit, offset |-> 0, got |-> <<>>,
                        corpus |-> ChunksOf(live[i]), same |-> TRUE]
    /\ UNCHANGED <<indexes, updates, similar, chatting>>

PagerRead ==
    /\ pager.at = "reading" /\ live[pager.index] # 0
    /\ LET h == live[pager.index]
           page == get_index_chunks(h, pager.offset, pager.limit)
       IN pager' = [pager EXCEPT !.at = IF page.chunks = <<>> THEN "done" ELSE @,
                                 !.offset = @ + page.limit, !.got = @ \o page.chunks,
                                 !.same = @ /\ ChunksOf(h) = pager.corpus]
    /\ UNCHANGED <<indexes, updates, similar, chatting>>

PagerNotFound ==
    /\ pager.at = "reading" /\ live[pager.index] = 0
    /\ pager' = Idle
    /\ UNCHANGED <<indexes, updates, similar, chatting>>

------------------------------------------------------------------------------
(* A request for chunks like one of a file or a function, by lock section. *)

\* The earliest chunk of a file that ends so; of several the one the map yields first.
find_chunk_id(h, suffix, function) ==
    LET Fits(c) == c.file \in suffix /\ function \in {Nobody, c.function}
        fitting == {n \in DOMAIN table[h] : Fits(table[h][n])}
        First(n) == \A m \in fitting \ {n} :
                        \/ table[h][n].from < table[h][m].from
                        \/ table[h][n].from = table[h][m].from /\ n < m
    IN {table[h][n] : n \in {n \in fitting : First(n)}}

NotFound(reason) == similar' = [similar EXCEPT !.at = "done", !.answer = 404, !.why = reason]

SimilarAsk ==
    /\ similar.at \in {"idle", "done"}
    /\ \E i \in IndexName, suffix \in Endings, top_k \in 0..MaxTopK,
          function \in {c.function : c \in Chunks} \cup {Nobody} :
           similar' = [at |-> "find", index |-> i, suffix |-> suffix, function |-> function,
                       top_k |-> top_k, h |-> live[i], began |-> updates, seed |-> {},
                       hits |-> <<>>, corpus |-> {}, results |-> <<>>, answer |-> 0, why |-> Nobody]
    /\ UNCHANGED <<indexes, updates, pager, chatting>>

SimilarFind ==
    /\ similar.at = "find"
    /\ LET seeds == IF similar.h = 0 THEN {}
                    ELSE find_chunk_id(similar.h, similar.suffix, similar.function)
       IN \/ seeds = {} /\ NotFound("chunk")
          \/ \E seed \in seeds : similar' = [similar EXCEPT !.at = "embed", !.seed = {seed}]
    /\ UNCHANGED <<indexes, updates, pager, chatting>>

\* The lock of the LRU is only tried: a writer at work makes it fail.
GetEmbedding ==
    /\ similar.at = "embed"
    /\ LET cached == similar.seed \subseteq embeddings[similar.h]
       IN \/ cached /\ similar' = [similar EXCEPT !.at = "search"]
          \/ NotFound(IF cached THEN "busy" ELSE "embedding")
    /\ UNCHANGED <<indexes, updates, pager, chatting>>

\* Mutant: as many hits as results wanted, of which the seed may be one.
WantExact(top_k) == top_k

Want(top_k) == top_k + 1

\* Distances are not modelled: the store ranks its chunks in any way.
VectorSearch ==
    /\ similar.at = "search"
    /\ \E ranking \in Orders(vectors[similar.h]) :
           similar' = [similar EXCEPT !.at = "collect",
                                      !.hits = FirstOf(Want(similar.top_k), ranking)]
    /\ UNCHANGED <<indexes, updates, pager, chatting>>

\* The loop looks at the number of results after it has added one.
Collect ==
    /\ similar.at = "collect"
    /\ LET hits == similar.hits
           wanted == {n \in DOMAIN hits : hits[n] \in ChunksOf(similar.h) \ similar.seed}
           most == IF similar.top_k = 0 THEN 1 ELSE similar.top_k
           taken == {n \in wanted : Cardinality({m \in wanted : m < n}) < most}
       IN similar' = [similar EXCEPT !.at = "done", !.answer = 200, !.corpus = ChunksOf(similar.h),
                                     !.results = Picked(hits, taken)]
    /\ UNCHANGED <<indexes, updates, pager, chatting>>

SimilarNext == SimilarAsk \/ SimilarFind \/ GetEmbedding \/ VectorSearch \/ Collect

------------------------------------------------------------------------------
(* Questions to a model: the provider is chosen once, a key in a request   *)
(* has its own; the search for context may fail; the answer is a stream.   *)

\* Probed by the first who asks, whatever the answer; everybody after has the same.
chat_provider ==
    IF cell # "unset" THEN cell
    ELSE IF local THEN "local" ELSE IF daemon_key = Nobody THEN Nobody ELSE "openrouter"

Provider(provider, key) ==
    [name |-> provider, key |-> IF provider = "openrouter" THEN key ELSE Nobody]

ResolveProvider(provider, own) ==
    IF provider # Nobody /\ own = Nobody THEN Provider(provider, daemon_key)
    ELSE LET key == IF own # Nobody THEN own ELSE daemon_key
         IN Provider(IF key = Nobody THEN Nobody ELSE "openrouter", key)

ChatAsk ==
    /\ chat.at \in {"idle", "done", "listed"}
    /\ \E i \in IndexName, message \in BOOLEAN, own \in {Nobody, "own"} :
           IF ~message
           THEN chat' = [at |-> "done", answer |-> 400] /\ UNCHANGED cell
           ELSE LET p == ResolveProvider(chat_provider, own)
                IN /\ cell' = chat_provider
                   /\ chat' = IF p.name = Nobody
                              THEN [at |-> "done", answer |-> 503, own |-> own]
                              ELSE [at |-> "context", index |-> i, h |-> live[i], provider |-> p,
                                    own |-> own, context |-> {}, reply |-> 0, said |-> 0,
                                    failed |-> FALSE, answer |-> 0]
    /\ UNCHANGED <<indexes, updates, pager, similar, daemon_key, local>>

\* No index, or a search that fails: the question goes out without context.
SearchForContext ==
    /\ chat.at = "context"
    /\ \E context \in IF chat.h = 0 THEN {{}} ELSE {{}} \cup {{c} : c \in ChunksOf(chat.h)} :
           chat' = [chat EXCEPT !.at = "stream", !.context = context]
    /\ UNCHANGED <<indexes, updates, pager, similar, daemon_key, local, cell>>

\* What the provider sends (external), and what the handler makes of it.
ChatEvent ==
    /\ chat.at = "stream" /\ ~chat.failed
    /\ \/ chat.said < 2 /\ chat' = [chat EXCEPT !.said = @ + 1, !.reply = @ + 1]
       \/ chat' = [chat EXCEPT !.failed = TRUE]
    /\ UNCHANGED <<indexes, updates, pager, similar, daemon_key, local, cell>>

\* A local server that is gone makes its task fail.
StreamEnds ==
    /\ chat.at = "stream"
    /\ \E result \in {"ok", "failed", "panicked"} :
           /\ result = "ok" => chat.provider.name # "local" \/ local
           /\ chat' = [chat EXCEPT !.at = "done",
                                   !.answer = IF result = "panicked" THEN 500
                                              ELSE IF result = "failed" \/ chat.failed THEN 502 ELSE 200]
    /\ UNCHANGED <<indexes, updates, pager, similar, daemon_key, local, cell>>

\* Asks the server anew, and shows the provider chosen at first use.
list_chat_providers ==
    /\ chat.at \in {"idle", "done", "listed"}
    /\ cell' = chat_provider
    /\ chat' = [at |-> "listed",
                available |-> (IF local THEN {"local"} ELSE {})
                              \cup (IF daemon_key = Nobody THEN {} ELSE {"openrouter"}),
                active |-> chat_provider]
    /\ UNCHANGED <<indexes, updates, pager, similar, daemon_key, local>>

LocalServer == local' = ~local /\ UNCHANGED <<indexes, updates, pager, similar, daemon_key, cell, chat>>

ChatNext ==
    ChatAsk \/ SearchForContext \/ ChatEvent \/ StreamEnds \/ list_chat_providers \/ LocalServer

ApiNext == Elsewhere \/ PagerStart \/ PagerRead \/ PagerNotFound \/ SimilarNext \/ ChatNext
ApiSpec == ApiInit /\ [][ApiNext]_apivars

------------------------------------------------------------------------------
(* Properties.                                                             *)

\* Pages of a corpus that was the same at every page have each chunk once, whatever the
\* order of the map meanwhile (re-indexed files, restarts); of chunks no two of which
\* have the same file, first and last line.
PagesExact ==
    (pager.at = "done" /\ pager.same
       /\ \A a, b \in pager.corpus : a = b \/ Precedes(a, b) \/ Precedes(b, a))
    => IsInjective(pager.got) /\ ToSet(pager.got) = pager.corpus

\* Similar chunks are other chunks of the corpus, each once, no more than asked for (one,
\* for zero), and as many as there are when nothing else was going on.
SimilarExact ==
    similar.at = "done" /\ similar.answer = 200
    => LET results == ToSet(similar.results)
       IN /\ IsInjective(similar.results) /\ results \subseteq similar.corpus \ similar.seed
          /\ Cardinality(results) <= similar.top_k + (IF similar.top_k = 0 THEN 1 ELSE 0)
          /\ (similar.began = updates /\ vectors[similar.h] = similar.corpus)
             => Cardinality(results) >= Smaller(similar.top_k, Cardinality(similar.corpus) - 1)

\* Nobody is shown a part of an answer as the whole, pays with another's key, or is told
\* that there is no provider while there is a key.
ChatHonest ==
    chat.at = "done" =>
        /\ chat.answer = 200 =>
               /\ ~chat.failed /\ chat.reply = chat.said
               /\ chat.provider.key = IF chat.own # Nobody THEN chat.own
                                      ELSE IF chat.provider.name = "local" THEN Nobody ELSE daemon_key
        /\ chat.answer = 503 => chat.own = Nobody /\ daemon_key = Nobody

\* The handlers that read, against indexes that change: pages, similar chunks, answers.
ApiSound == PagesExact /\ SimilarExact /\ ChatHonest

\* Refuted: files.rs:60 says that the order of the pages is total. Chunks with the same
\* lines are left in the order of the map.
PagesTotal ==
    pager.at = "done" /\ pager.same
    => IsInjective(pager.got) /\ ToSet(pager.got) = pager.corpus

\* Refuted: search.rs:83 says that a chunk has no embedding when it does not exist or was
\* indexed without an embedder. The LRU forgets, and so does a restart.
SimilarFound == similar.at = "done" /\ similar.answer = 404 => similar.why = "chunk"

\* Refuted: files.rs:88 says up to top_k chunks. For zero there may be one.
SimilarBounded ==
    similar.at = "done" /\ similar.answer = 200 => Len(similar.results) <= similar.top_k

\* Refuted: ui.rs:160 says of both keys, "uses env var". The key of the request goes first.
EnvKeyWins ==
    chat.at = "done" /\ chat.answer = 200 /\ chat.provider.name = "openrouter"
    => chat.provider.key = daemon_key \/ daemon_key = Nobody

\* Refuted: ui.rs:343 lets clients show the chat panel by what is configured. A provider
\* that became available after the first question is listed as available, and not used.
AvailableIsActive ==
    chat.at = "listed" /\ chat.available # {} => chat.active # Nobody
=============================================================================
