-------------------------------- MODULE Search --------------------------------
(***************************************************************************)
(* One search of one index, from the query to the results, over a corpus   *)
(* and the symbol graph built from it. What the two lanes find is any      *)
(* ranking of chunk ids; the vector lane may name a chunk that is no longer *)
(* in the corpus.                                                        *)
(***************************************************************************)
EXTENDS SymbolGraph, Classifier, Fusion, FiniteSets

CONSTANTS Corpora,     \* corpora: sequences of chunks
          Caps,        \* values of TRUSTY_MAX_KG_NODES
          Queries,     \* the requests made of an index with a corpus
          MaxLane,     \* bound on what a lane finds
          Multiplier,  \* weight of an edge's kind, in tenths
          MaxHops      \* bound on the walks asked for

\* A request, with what the index has for it: the files git names, the embeddings cached.
SearchQuery ==
    [text : SUBSET STRING, domain_terms : SUBSET STRING, word : Names, top_k : Nat,
     expand_graph : BOOLEAN, boost : Int, branch_files : SUBSET STRING,
     git_files : SUBSET STRING, cached : SUBSET Nat, embedder : BOOLEAN]

ASSUME SearchAssumption ==
    /\ Corpora \subseteq Seq(RawChunk)
    /\ {"CallsFunction", "Implements"} \subseteq DOMAIN Multiplier
    /\ \A k \in DOMAIN Multiplier : Multiplier[k] \in 1..10
    /\ \A c \in Corpora : Queries[c] \subseteq SearchQuery
    /\ Caps \subseteq Nat /\ MaxHops \in Nat
    /\ MaxLane \in Nat /\ RRF_K + MaxLane + 1 <= RankUnit

VARIABLES graph,   \* the symbol graph, with its corpus
          cap,     \* history: the cap it was built under
          stage,
          query,
          hnsw, bm25_lane,   \* the lanes: sequences of ids
          all,          \* candidates: sequence of [id, score]
          kg,           \* ids that came from the graph
          results

vars == <<graph, cap, stage, query, hnsw, bm25_lane, all, kg, results>>

Stale(g) == Len(g.corpus) + 1    \* an id without a chunk
NoGraph == [corpus |-> <<>>, nodes |-> <<>>, edges |-> <<>>]

-----------------------------------------------------------------------------
(* The stages of a search as functions.                                    *)

\* Chunks with an embedding in the cache; the vectors of chunks in one file are alike.
Alike(g, q, a, b) ==
    {a, b} \subseteq q.cached /\ g.corpus[a].file = g.corpus[b].file

\* lambda is one half: relevance less the greatest similarity, which is 0 or 1.
compute_mmr_score(g, q, c, selected) ==
    c.score - (IF \E s \in ToSet(selected) : Alike(g, q, c.id, s.id) THEN 100 * RankUnit ELSE 0)

\* The best of the candidates that are left; of equals the last.
NextBest(g, q, candidates, selected) ==
    LET rest == ToSet(candidates) \ ToSet(selected)
        Score(c) == compute_mmr_score(g, q, c, selected)
        Better == {cd \in rest \X rest :
                       \/ Score(cd[1]) > Score(cd[2])
                       \/ Score(cd[1]) = Score(cd[2]) /\ Ahead(candidates, cd[2], cd[1])}
    IN Arranged(rest, Better)[1]

\* Greedy.
mmr_rerank(g, q, candidates) ==
    LET Selected[n \in 0..Len(candidates)] ==
            IF n = 0 THEN <<>>
            ELSE Append(Selected[n - 1], NextBest(g, q, candidates, Selected[n - 1]))
    IN Selected[Len(candidates)]

\* Of these kinds a build makes only Implements and CallsFunction.
edge_kinds_for_intent(intent) ==
    CASE intent = "Definition" -> {"Implements", "Aliases", "UsesType"}
      [] intent = "Usage" -> {"CallsFunction", "CalledByFunction", "TestedBy", "CoOccursInTest"}
      [] intent = "Conceptual" -> {"ReferencesConcept", "Documents"}
      [] intent = "BugDebt" -> {"RaisesError", "ErrorDescribes", "Configures"}
      [] intent = "Unknown" -> {"CallsFunction", "CalledByFunction"}

KG_EXPAND_HOPS == 1

\* What the graph adds for one seed.
Expanded(g, seed, intent) ==
    IF seed.id \notin DOMAIN g.corpus THEN {}
    ELSE LET near == neighbors_by_edge(g, symbol_for_chunk(g, seed.id),
                                       edge_kinds_for_intent(intent), KG_EXPAND_HOPS)
         IN {[id |-> near[i].chunk, score |-> (seed.score \div 10) * Multiplier[near[i].kind]] :
                i \in DOMAIN near}

\* The best score of each neighbour that is not a seed itself.
kg_expand(g, seeds, intent) ==
    LET found == UNION {Expanded(g, seeds[i], intent) : i \in DOMAIN seeds}
        new == {x \in found : x.id \notin Ids(seeds)}
    IN Sorted({x \in new : \A y \in new : y.id = x.id => y.score <= x.score})

file_type_score_multiplier(file) == IF file = "doc" THEN 1 ELSE 2   \* halves

ClampedBoost(q) == IF q.boost < 10 THEN 10 ELSE IF q.boost > 30 THEN 30 ELSE q.boost

\* resolve_branch_set: the files given with the query win over those git finds for the
\* branch it names; no boost, no set.
BranchFiles(q) == IF q.branch_files # {} THEN q.branch_files ELSE q.git_files
resolve_branch_set(q) == IF ClampedBoost(q) = 10 THEN {} ELSE BranchFiles(q)

Adjusted(g, q, intent, c) ==
    LET known == c.id \in DOMAIN g.corpus
    IN [c EXCEPT !.score =
            @ * (IF known /\ intent = "Definition"
                 THEN file_type_score_multiplier(g.corpus[c.id].file) ELSE 2)
              * (IF known /\ g.corpus[c.id].file \in resolve_branch_set(q)
                 THEN ClampedBoost(q) ELSE 10)]

\* Mutant: what was changed is not sorted again.
AdjustInPlace(g, q, intent, candidates) ==
    [i \in DOMAIN candidates |-> Adjusted(g, q, intent, candidates[i])]

apply_score_adjustments(g, q, intent, candidates) ==
    Sorted({Adjusted(g, q, intent, candidates[i]) : i \in DOMAIN candidates})

compute_match_reason(in_v, in_b, in_kg) ==
    CASE in_v /\ in_b -> "hybrid" [] in_v /\ ~in_b -> "vector" [] ~in_v /\ in_b -> "bm25"
      [] ~in_v /\ ~in_b /\ in_kg -> "hybrid+kg" [] OTHER -> "fallback"

\* The first top_k candidates; those without a chunk leave a gap at the end.
materialize_search_results(g, q, candidates, in_hnsw, in_bm25, kg_ids) ==
    LET taken == Take(q.top_k, candidates)
        present == Kept(taken, {c \in ToSet(taken) : c.id \in DOMAIN g.corpus})
    IN [i \in DOMAIN present |->
            [id |-> present[i].id, score |-> present[i].score,
             reason |-> compute_match_reason(present[i].id \in in_hnsw, present[i].id \in in_bm25,
                                             present[i].id \in kg_ids),
             on_branch |-> g.corpus[present[i].id].file \in resolve_branch_set(q)]]

-----------------------------------------------------------------------------
SearchInit ==
    /\ graph = NoGraph /\ cap = 0 /\ stage = "build" /\ query = [text |-> {}]
    /\ hnsw = <<>> /\ bm25_lane = <<>> /\ all = <<>> /\ kg = {} /\ results = <<>>

Intention == classify_with_domain(query.text, query.domain_terms)

\* A rebuild of the graph from some corpus.
Build ==
    /\ stage = "build"
    /\ \E corpus \in Corpora, n \in Caps :
          /\ graph' \in Graphs_of(corpus, n) /\ cap' = n
    /\ stage' = "idle"
    /\ UNCHANGED <<query, hnsw, bm25_lane, all, kg, results>>

\* Rankings of ids without repetition.
Rankings(ids) == {s \in SeqOf(ids, MaxLane) : IsInjective(s)}

\* The chunks that entity_exact_match may find for a query of one word: those of a type
\* that has the word for a name.
Exact(g, q) ==
    IF Intention \notin {"Definition", "Unknown"} THEN {}
    ELSE {c \in DOMAIN g.corpus :
            g.corpus[c].container /\ g.corpus[c].name = q.word /\ q.word # <<>>}

\* inject_entity_exact_match: the hit becomes the first of the BM25 lane.
Inject(lane, hit) == <<hit>> \o Kept(lane, ToSet(lane) \ {hit})

\* Embedding and lanes. The vector lane is empty while no embedder is there.
Lanes ==
    /\ stage = "idle"
    /\ query' \in Queries[graph.corpus]
    /\ \E found \in Rankings(1..Stale(graph)), lexical \in Rankings(DOMAIN graph.corpus) :
          /\ hnsw' = IF query'.embedder THEN found ELSE <<>>
          /\ bm25_lane' = lexical
    /\ stage' = "lanes"
    /\ UNCHANGED <<graph, cap, all, kg, results>>

InjectExact ==
    /\ stage = "lanes"
    /\ IF Exact(graph, query) = {} THEN UNCHANGED bm25_lane
       ELSE \E hit \in Exact(graph, query) : bm25_lane' = Inject(bm25_lane, hit)
    /\ stage' = "fuse"
    /\ UNCHANGED <<graph, cap, query, hnsw, all, kg, results>>

\* Fusion and the diversity pass; the latter is left out if no embedding is cached.
Fuse ==
    /\ stage = "fuse"
    /\ LET w == weights(Intention)
           fused == rrf_fuse(hnsw, bm25_lane, w.alpha, w.beta, query.top_k)
       IN all' = IF query.cached = {} THEN fused ELSE mmr_rerank(graph, query, fused)
    /\ stage' = "expand"
    /\ UNCHANGED <<graph, cap, query, hnsw, bm25_lane, kg, results>>

\* expand_with_kg.
Expand ==
    /\ stage = "expand"
    /\ LET found == IF weights(Intention).kg /\ query.expand_graph
                    THEN kg_expand(graph, all, Intention) ELSE <<>>
       IN all' = all \o found /\ kg' = Ids(found)
    /\ stage' = "adjust"
    /\ UNCHANGED <<graph, cap, query, hnsw, bm25_lane, results>>

Adjust ==
    /\ stage = "adjust"
    /\ all' = apply_score_adjustments(graph, query, Intention, all)
    /\ stage' = "materialize"
    /\ UNCHANGED <<graph, cap, query, hnsw, bm25_lane, kg, results>>

Materialize ==
    /\ stage = "materialize"
    /\ results' = materialize_search_results(graph, query, all, ToSet(hnsw), ToSet(bm25_lane), kg)
    /\ stage' = "done"
    /\ UNCHANGED <<graph, cap, query, hnsw, bm25_lane, all, kg>>

SearchNext == Build \/ Lanes \/ InjectExact \/ Fuse \/ Expand \/ Adjust \/ Materialize
SearchSpec == SearchInit /\ [][SearchNext]_vars

-----------------------------------------------------------------------------
(* Properties.                                                             *)

SearchTypeOK ==
    /\ stage \in {"build", "idle", "lanes", "fuse", "expand", "adjust", "materialize", "done"}
    /\ IsInjective(hnsw) /\ IsInjective(bm25_lane)
    /\ kg \subseteq DOMAIN graph.corpus
    /\ \A i \in DOMAIN all : all[i].id \in 1..Stale(graph) /\ all[i].score > 0

\* The graph is within its cap, joins no symbol to itself, and each of its edges stands
\* for something a chunk of the first symbol's name says: a call or a parent that ends
\* in the other symbol's name, or a container in a file where that name occurs.
EdgesWitnessed ==
    stage = "idle" =>
    /\ cap > 0 => Len(graph.nodes) <= cap
    /\ LET Name(i) == Symbol(graph.corpus, graph.nodes, i)
           Named(n) == {c \in DOMAIN graph.corpus : graph.corpus[c].name = n}
           Says(targets, n) == \E i \in DOMAIN targets :
                                   Last(targets[i]) = Last(n)
       IN \A e \in ToSet(graph.edges) :
            /\ e.from # e.to
            /\ \E c \in Named(Name(e.from)) :
                  CASE e.kind = "CallsFunction" -> Says(graph.corpus[c].calls, Name(e.to))
                    [] e.kind = "Implements" -> Says(graph.corpus[c].inherits, Name(e.to))
                    [] OTHER -> /\ graph.corpus[c].container
                                /\ \E d \in Named(Name(e.to)) :
                                      graph.corpus[d].file = graph.corpus[c].file

\* A call of something the graph has a node for, under its full name or else under its
\* last part, is an edge to such a node, unless the caller is one itself.
CallsResolve ==
    stage = "idle" =>
        LET Name(i) == Symbol(graph.corpus, graph.nodes, i)
            Meant(t) ==
                LET exact == {i \in DOMAIN graph.nodes : Name(i) = t}
                IN IF exact # {} THEN exact
                   ELSE {i \in DOMAIN graph.nodes : <<Last(Name(i))>> = t}
        IN \A c \in DOMAIN graph.corpus, i \in DOMAIN graph.nodes :
              graph.corpus[c].name = Name(i) =>
                  \A t \in ToSet(graph.corpus[c].calls) :
                      Meant(t) # {} /\ i \notin Meant(t) =>
                          \E e \in ToSet(graph.edges) :
                              e.kind = "CallsFunction" /\ e.from = i /\ e.to \in Meant(t)

\* The symbols a walk of n steps along calls reaches, by definition.
CallsTo(i, j) == \E e \in ToSet(graph.edges) : e.kind = "CallsFunction" /\ e.from = i /\ e.to = j
Reached(i, hops) ==
    LET Level[n \in 0..hops] ==
            IF n = 0 THEN {i}
            ELSE Level[n - 1] \cup {k \in DOMAIN graph.nodes : \E j \in Level[n - 1] : CallsTo(j, k)}
    IN Level[hops]

\* A walk finds every symbol within its hops once, none beyond, not the start, and the
\* callers of a symbol are those it is a callee of.
WalksExact ==
    stage = "idle" => \A i \in DOMAIN graph.nodes, hops \in 0..MaxHops :
        LET Name(k) == Symbol(graph.corpus, graph.nodes, k)
            down == callees_of(graph, Name(i), hops)
            up == callers_of(graph, Name(i), hops)
        IN /\ IsInjective(down) /\ IsInjective(up)
           /\ ToSet(down) = {Name(k) : k \in Reached(i, hops) \ {i}}
           /\ ToSet(up) = {Name(k) : k \in {k \in DOMAIN graph.nodes \ {i} : i \in Reached(k, hops)}}

\* What the graph adds: exactly the defining chunks of the direct neighbours of what was
\* found, none of them found already, each at the best score a neighbour gives it.
GraphAdds ==
    stage = "adjust" /\ kg # {} =>
        LET seeds == {x \in ToSet(all) : x.id \notin kg}
            Node(id) == NodeOf(graph.corpus, graph.nodes, graph.corpus[id].name)
            Gives(s, id) == /\ s.id \in DOMAIN graph.corpus
                            /\ \/ CallsTo(Node(s.id), Node(id)) \/ CallsTo(Node(id), Node(s.id))
        IN /\ query.expand_graph
           /\ kg = {graph.nodes[k] : k \in {k \in DOMAIN graph.nodes :
                        \E s \in seeds : Gives(s, graph.nodes[k])}} \ {s.id : s \in seeds}
           /\ \A x \in ToSet(all) : x.id \in kg =>
                /\ \E s \in seeds : Gives(s, x.id)
                                    /\ x.score = (s.score \div 10) * Multiplier["CallsFunction"]
                /\ \A s \in seeds : Gives(s, x.id) =>
                        x.score >= (s.score \div 10) * Multiplier["CallsFunction"]

\* The results are in order of their final scores, without repetition, at most top_k,
\* and nothing that was found and left out beats one of them: neither where the graph
\* added it last, nor where the diversity pass had put it.
TopScores ==
    stage = "done" =>
        /\ Len(results) <= query.top_k
        /\ \A i, j \in DOMAIN results : i < j => Before(results[i], results[j])
        /\ \A c \in ToSet(all) : c.id \in DOMAIN graph.corpus /\ c.id \notin Ids(results) =>
                \A i \in DOMAIN results : Before(results[i], c)

\* A result names the lanes that found it; the graph only if none did; and never "fallback".
ReasonsTrue ==
    stage = "done" =>
        \A i \in DOMAIN results :
            LET r == results[i] IN
            /\ r.reason \in {"vector", "hybrid"} <=> r.id \in ToSet(hnsw)
            /\ r.reason \in {"bm25", "hybrid"} <=> r.id \in ToSet(bm25_lane)
            /\ r.reason = "hybrid+kg" => r.id \in kg
            /\ r.reason # "fallback"

\* What the search will return for its candidates under the request q.
Outcome(q) ==
    materialize_search_results(graph, q, apply_score_adjustments(graph, q, Intention, all),
                               ToSet(hnsw), ToSet(bm25_lane), kg)

\* The branch boost never takes a chunk of the branch out of the results, nor puts one
\* behind a chunk it was ahead of.
BoostNeverHurts ==
    stage = "adjust" =>
        LET plain == Outcome([query EXCEPT !.boost = 10])
            Place(id) == SelectInSeq(Outcome(query), LAMBDA r : r.id = id)
        IN \A i \in DOMAIN plain :
              graph.corpus[plain[i].id].file \in BranchFiles(query) =>
                  Place(plain[i].id) \in 1..i

\* "test_entity_exact_match_struct_ranks_first": a symbol asked for by its name is
\* returned. With top_k results that both lanes rank it may be pushed out.
ExactReturned ==
    stage = "done" /\ Exact(graph, query) # {} =>
        \E i \in DOMAIN results : results[i].id \in Exact(graph, query)

\* "an `impl` block contains its methods" (symbol_graph.rs:306, and the test of a leak
\* between files): containment joins symbols of one file. A name defined in two files
\* has one node, and the container of the second file is joined to it.
ContainsOwnFile ==
    stage = "idle" => \A e \in ToSet(graph.edges) : e.kind = "ModuleContains" =>
        graph.corpus[graph.nodes[e.from]].file = graph.corpus[graph.nodes[e.to]].file

\* The graph is what the corpus says: each edge is witnessed, each call that can be
\* resolved is an edge, and walks along the edges are exact.
GraphSound == EdgesWitnessed /\ CallsResolve /\ WalksExact

\* From the lanes to the results: what the graph adds are neighbours at their best score,
\* the best candidates survive in order, boosting never hurts the branch, and the reason
\* given for a result is the true one.
ResultsSound == SearchTypeOK /\ GraphAdds /\ TopScores /\ BoostNeverHurts /\ ReasonsTrue
=============================================================================
