---------------------------- MODULE GlobalSearch ----------------------------
(***************************************************************************)
(* A search of all indexes at once: the handler lists the indexes, weighs  *)
(* them by the likeness of their context to the query, chooses some, has   *)
(* each searched by a future of its own and fuses what comes back. Indexes *)
(* are deleted meanwhile, have no embedder or no context, or fail.         *)
(***************************************************************************)
EXTENDS Fusion

CONSTANTS Index,        \* numbers of indexes, in the order of their names
          Contexts,     \* functions from Index to tenths of likeness; NoContext for none
          GlobalQueries,\* requests
          RankedHits,   \* what the search of an index may bring: numbers of its chunks
          Room          \* more than the number of any chunk

NoContext == 99

\* Each step of the fusion keeps more than is asked for.
Oversample(q) == IF q.top_k * 4 < 10 THEN 10 ELSE q.top_k * 4

ASSUME GlobalAssumption ==
    /\ Index \subseteq Nat /\ IsFiniteSet(Index)
    /\ \A c \in Contexts : c \in [Index -> (-10..10) \cup {NoContext}]
    /\ \A q \in GlobalQueries :
          /\ q.top_k \in Nat /\ q.n \in Nat /\ q.threshold \in Int /\ q.indexes \subseteq Index
          /\ q.named \in BOOLEAN /\ q.embedder \in BOOLEAN
    /\ Room \in Nat \ {0} /\ \A hits \in RankedHits : hits \in Seq(0..Room - 1) /\ IsInjective(hits)

\* Two ranks that the fusion compares have two scores.
ASSUME RanksDiffer ==
    \A q \in GlobalQueries :
        10 * RankUnit >= (RRF_K + Oversample(q)) * (RRF_K + Oversample(q) + 1)

VARIABLES phase,
          registered, context,
          request,
          ids,      \* the indexes asked for, in the registry's order
          weight,   \* of each of them, in tenths
          active,   \* those chosen, in order
          found,    \* what the search of an index brought: a ranking of its chunks
          answer    \* ids of the results, in order

gvars == <<phase, registered, context, request, ids, weight, active, found, answer>>

None == [x \in {} |-> 0]

GlobalInit ==
    /\ phase = "listen" /\ registered \in SUBSET Index /\ context \in Contexts
    /\ request = [top_k |-> 0] /\ ids = <<>> /\ weight = None /\ active = <<>>
    /\ found = None /\ answer = <<>>

\* DELETE /indexes/{id}.
DeleteIndex ==
    /\ phase \in {"weigh", "route", "search"}
    /\ \E i \in registered : registered' = registered \ {i}
    /\ UNCHANGED <<phase, context, request, ids, weight, active, found, answer>>

\* Registered indexes in the arbitrary order of the map; of those a request names
\* explicitly only the ones it names, which may be none. An empty list is an answer.
GlobalBegin ==
    /\ phase = "listen"
    /\ request' \in GlobalQueries
    /\ ids' \in SetToSeqs(IF request'.named THEN registered \cap request'.indexes
                          ELSE registered)
    /\ phase' = IF ids' = <<>> THEN "done" ELSE "weigh"
    /\ UNCHANGED <<registered, context, weight, active, found, answer>>

\* An index without a context, or deleted, weighs 1, as do all if the query has no embedding.
Weight(i, embedded) ==
    IF ~embedded \/ i \notin registered \/ context[i] = NoContext THEN 10
    ELSE IF context[i] < 0 THEN 0 ELSE context[i]

\* compute_context_weights: any index that is still there lends its embedder.
compute_context_weights ==
    /\ phase = "weigh"
    /\ LET embedded == request.embedder /\ ToSet(ids) \cap registered # {}
       IN weight' = [i \in ToSet(ids) |-> Weight(i, embedded)]
    /\ phase' = "route"
    /\ UNCHANGED <<registered, context, request, ids, active, found, answer>>

\* RoutingMode::from_request: at least one index, whatever number was asked for.
TopN(q) == IF q.n = 0 THEN 1 ELSE q.n

\* RoutingMode::apply. The sort is stable.
Routed(q, order, w) ==
    LET Pairs == ToSet(order) \X ToSet(order)
        likely == {ij \in Pairs : \/ w[ij[1]] > w[ij[2]]
                                  \/ w[ij[1]] = w[ij[2]] /\ Ahead(order, ij[1], ij[2])}
    IN CASE q.routing = "top_n" -> Take(TopN(q), Arranged(ToSet(order), likely))
         [] q.routing = "threshold" -> Arranged({i \in ToSet(order) : w[i] >= q.threshold},
                                                {ij \in Pairs : Ahead(order, ij[1], ij[2])})
         [] OTHER -> order

Route ==
    /\ phase = "route"
    /\ active' = Routed(request, ids, weight)
    /\ phase' = "search"
    /\ UNCHANGED <<registered, context, request, ids, weight, found, answer>>

\* A chunk's id with its index in front.
Namespaced(i, lane) == [r \in DOMAIN lane |-> Room * i + lane[r]]
IndexOf(id) == id \div Room

\* The search of one index ends, with top_k chunks at most. One that is gone or fails
\* contributes no lane.
SearchOne ==
    /\ phase = "search"
    /\ \E i \in ToSet(active) \ DOMAIN found :
          \E lane \in RankedHits \cup {<<>>} :
              /\ Len(lane) <= request.top_k
              /\ i \notin registered => lane = <<>>
              /\ found' = [j \in DOMAIN found \cup {i} |->
                              IF j = i THEN Namespaced(i, lane) ELSE found[j]]
    /\ UNCHANGED <<phase, registered, context, request, ids, weight, active, answer>>

\* What was fused is one lane, ranked anew, the next index the other. The weights were
\* multiplied into scores, which the fusion does not read.
Merged(fused, lane, most) ==
    LET out == rrf_fuse(fused, lane, 1, 1, most) IN [r \in DOMAIN out |-> out[r].id]

\* The fusion of the first n lanes, one after the other.
FusedUpTo(lanes, most) ==
    LET Fused[n \in 0..Len(lanes)] ==
            IF n = 0 THEN <<>> ELSE Merged(Fused[n - 1], lanes[n], most)
    IN Fused

\* Mutant: a step of the fusion keeps fewer than are asked for.
FuseTight(q, lanes) == Take(q.top_k, FusedUpTo(lanes, 2)[Len(lanes)])

FuseLanes(q, lanes) == Take(q.top_k, FusedUpTo(lanes, Oversample(q))[Len(lanes)])

Merge ==
    /\ phase = "search" /\ DOMAIN found = ToSet(active)
    /\ answer' = FuseLanes(request, [p \in DOMAIN active |-> found[active[p]]])
    /\ phase' = "done"
    /\ UNCHANGED <<registered, context, request, ids, weight, active, found>>

GlobalNext ==
    DeleteIndex \/ GlobalBegin \/ compute_context_weights \/ Route \/ SearchOne \/ Merge

GlobalSpec == GlobalInit /\ [][GlobalNext]_gvars

-----------------------------------------------------------------------------
(* Properties.                                                             *)

GlobalTypeOK ==
    /\ phase \in {"listen", "weigh", "route", "search", "done"}
    /\ IsInjective(ids) /\ ToSet(active) \subseteq ToSet(ids) /\ DOMAIN found \subseteq ToSet(active)
    /\ DOMAIN weight \subseteq ToSet(ids) /\ \A i \in DOMAIN weight : weight[i] \in 0..10

LaneOf(id) == found[IndexOf(id)]

\* A merge of some lists: of nothing else, without repetition, each in its own order,
\* empty only if all are, and cut short only at n.
IsMerge(s, lists, n) ==
    LET members == UNION {ToSet(lists[i]) : i \in DOMAIN lists}
    IN /\ IsInjective(s) /\ ToSet(s) \subseteq members
       /\ \A p, r \in DOMAIN s :
             p < r /\ IndexOf(s[p]) = IndexOf(s[r]) =>
                 RankOf(lists[IndexOf(s[p])], s[p]) < RankOf(lists[IndexOf(s[r])], s[r])
       /\ Len(s) = IF n < Cardinality(members) THEN n ELSE Cardinality(members)

\* Whatever is deleted or fails while the request runs, the answer is a merge of the
\* lists that came back.
MergeOfLanes ==
    phase = "done" /\ ids # <<>> => IsMerge(answer, found, request.top_k)

\* No index is left out in favour of a less likely one; an index that says nothing about
\* its context is not left out by a threshold up to 1, nor if the query was not embedded.
RoutesToLikely ==
    phase = "search" =>
        LET out == ToSet(ids) \ ToSet(active)
        IN /\ \A i \in out, j \in ToSet(active) : weight[j] >= weight[i]
           /\ request.routing = "top_n" => active # <<>>
           /\ request.routing = "threshold" /\ request.threshold <= 10 =>
                 \A i \in out : request.embedder /\ context[i] < request.threshold

\* "Indexes missing a weight entry default to neutral 1.0, so threshold routing must not
\* silently drop them" (server.rs:2160, and 1168): whatever the threshold.
NeutralKept ==
    phase = "search" =>
        \A i \in ToSet(ids) \ ToSet(active) :
            request.routing = "threshold" => context[i] # NoContext

\* "every index lane contributes equally" (server.rs:1051): the best chunk of an index is
\* ahead of the second of any other. Only the last lane keeps its ranks.
LanesEqual ==
    phase = "done" =>
        \A p \in DOMAIN answer, i \in DOMAIN found : \A c \in ToSet(found[i]) :
            RankOf(LaneOf(answer[p]), answer[p]) > RankOf(found[i], c) =>
                c \in ToSet(Take(p, answer))

\* "each index's RRF lane is multiplied by its cosine similarity weight" (server.rs:896):
\* the best chunk of the likeliest index comes first.
WeightsCount ==
    phase = "done" /\ request.routing = "all" /\ answer # <<>> =>
        \A i \in DOMAIN found : found[i] # <<>> => weight[IndexOf(answer[1])] >= weight[i]

\* "When absent / empty, the daemon fans out to every registered index" (server.rs:883).
EmptyMeansAll ==
    phase = "done" /\ ids = <<>> /\ request.indexes = {} => registered = {}

\* The indexes asked are the likely ones, and the answer merges what they returned.
GlobalSound == GlobalTypeOK /\ RoutesToLikely /\ MergeOfLanes
=============================================================================
