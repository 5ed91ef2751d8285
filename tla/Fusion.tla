-------------------------------- MODULE Fusion --------------------------------
(***************************************************************************)
(* Reciprocal rank fusion of two ranked lists of ids. Scores are integers, *)
(* parts of one over RankUnit, where f32 rounds.                           *)
(***************************************************************************)
EXTENDS Integers, Sequences, SequencesExt, FiniteSets

CONSTANT RankUnit     \* a multiple of 61 * 62 * 63: the scores of three ranks are exact

ASSUME FusionAssumption == RankUnit \in Nat

RRF_K == 60

\* The members of S from the first to the last, R being the pairs in order.
Arranged(S, R) ==
    [n \in 1..Cardinality(S) |->
        CHOOSE x \in S : 1 + Cardinality({y \in S : <<y, x>> \in R}) = n]

\* One stands somewhere ahead of the other.
Ahead(s, x, y) == \E p, r \in DOMAIN s : p < r /\ s[p] = x /\ s[r] = y

\* Score descending, then id ascending.
Before(a, b) == a.score > b.score \/ (a.score = b.score /\ a.id < b.id)
Sorted(candidates) ==
    Arranged(candidates, {ab \in candidates \X candidates : Before(ab[1], ab[2])})
Take(n, s) == SubSeq(s, 1, IF n < Len(s) THEN n ELSE Len(s))
Ids(candidates) == {candidates[i].id : i \in DOMAIN candidates}

RankOf(lane, id) == SelectInSeq(lane, LAMBDA x : x = id)
LaneScore(lane, id, weight) ==
    IF RankOf(lane, id) = 0 THEN 0
    ELSE weight * ((10 * RankUnit) \div (RRF_K + RankOf(lane, id)))

\* Each id of the lanes once, with what it scores in both.
rrf_fuse(lane1, lane2, alpha, beta, top_k) ==
    Take(top_k, Sorted({[id |-> x, score |-> LaneScore(lane1, x, alpha) + LaneScore(lane2, x, beta)] :
                           x \in ToSet(lane1) \cup ToSet(lane2)}))
=============================================================================
