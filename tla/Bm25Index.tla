----------------------------- MODULE Bm25Index -----------------------------
(***************************************************************************)
(* The incremental BM25 index. A chunk lives in a slot; a removed chunk's  *)
(* slot goes to a free list and is handed out again, last in first out.    *)
(* The posting lists, document frequencies and lengths refer to slots, so  *)
(* a stale reference would credit one chunk with the terms of another.     *)
(*                                                                         *)
(* The index sits behind one RwLock, so a call is one step; the struct is  *)
(* a record and each &mut self method a function on it. tokenize sorts and *)
(* dedups, so a document is the set of its terms and the count in every    *)
(* posting is 1. Slots start at 1 here. Scores are left out: a query is    *)
(* abstracted to the chunks that get one.                                  *)
(***************************************************************************)
EXTENDS Naturals, FiniteSets, SequencesExt

CONSTANTS Id, Term,
          Cap,      \* bm25_corpus_cap()
          Absent    \* None in slot_to_id, doc_terms and doc_lengths

\* A document has finitely many terms; None is no id, no length and no set of terms.
ASSUME Bm25Assumption ==
    /\ Cap \in Nat /\ IsFiniteSet(Term)
    /\ Absent \notin Id /\ Absent \notin Nat
    /\ \A terms \in SUBSET Term : terms # Absent

VARIABLE bm25

\* avg_doc_len is kept as the total and the count it is the quotient of.
New == [id_to_slot  |-> [id \in Id |-> 0],
        slot_to_id  |-> <<>>,
        doc_terms   |-> <<>>,
        doc_lengths |-> <<>>,
        free_slots  |-> <<>>,
        doc_freqs   |-> [t \in Term |-> 0],
        inverted    |-> [t \in Term |-> <<>>],
        live_docs   |-> 0,
        avg_doc_len |-> <<0, 0>>]

Slots(ix) == DOMAIN ix.slot_to_id
LiveSlots(ix) == {s \in Slots(ix) : ix.slot_to_id[s] # Absent}

Total(lengths) == FoldFunction(+, 0, lengths)

refresh_avg_doc_len(ix) ==
    LET counted == {s \in Slots(ix) : ix.doc_lengths[s] # Absent}
    IN  [ix EXCEPT !.avg_doc_len =
            IF ix.live_docs = 0 THEN <<0, 0>>
            ELSE <<Total([s \in counted |-> ix.doc_lengths[s]]), ix.live_docs>>]

\* The slot to use, and the index with that slot taken.
allocate_slot(ix, id) ==
    IF ix.free_slots # <<>>
      THEN LET slot == Last(ix.free_slots)
           IN  [slot |-> slot,
                ix |-> [ix EXCEPT !.free_slots = Front(@),
                                  !.slot_to_id[slot] = id,
                                  !.doc_lengths[slot] = 0,
                                  !.doc_terms[slot] = {}]]
      ELSE [slot |-> Len(ix.slot_to_id) + 1,
            ix |-> [ix EXCEPT !.slot_to_id = Append(@, id),
                              !.doc_lengths = Append(@, 0),
                              !.doc_terms = Append(@, {})]]

\* Vec::retain of the postings of other slots: they keep their order.
retain_others(postings, slot) ==
    LET kept == {i \in DOMAIN postings : postings[i] # slot}
        at(n) == CHOOSE i \in kept : Cardinality({j \in kept : j <= i}) = n
    IN  [n \in 1..Cardinality(kept) |-> postings[at(n)]]

\* Mutant: the postings of the removed chunk stay behind.
remove_keeping_postings(ix, id) ==
    LET slot == ix.id_to_slot[id]
    IN  IF slot = 0 THEN ix
        ELSE refresh_avg_doc_len(
            [ix EXCEPT !.id_to_slot[id] = 0,
                       !.doc_freqs = [t \in Term |->
                           IF t \in ix.doc_terms[slot] THEN @[t] - 1 ELSE @[t]],
                       !.doc_terms[slot] = Absent,
                       !.doc_lengths[slot] = Absent,
                       !.slot_to_id[slot] = Absent,
                       !.free_slots = Append(@, slot),
                       !.live_docs = @ - 1])

remove_document(ix, id) ==
    LET slot == ix.id_to_slot[id]
        terms == ix.doc_terms[slot]
    IN  IF slot = 0 THEN ix
        ELSE refresh_avg_doc_len(
            [ix EXCEPT !.id_to_slot[id] = 0,
                       !.doc_freqs = [t \in Term |->
                           IF t \in terms /\ @[t] > 0 THEN @[t] - 1 ELSE @[t]],
                       !.inverted = [t \in Term |->
                           IF t \in terms THEN retain_others(@[t], slot) ELSE @[t]],
                       !.doc_terms[slot] = Absent,
                       !.doc_lengths[slot] = Absent,
                       !.slot_to_id[slot] = Absent,
                       !.free_slots = Append(@, slot),
                       !.live_docs = IF @ > 0 THEN @ - 1 ELSE 0])

\* The part of upsert_document after the cap.
insert_document(ix, id, terms) ==
    LET taken == allocate_slot(ix, id)
        slot == taken.slot
    IN  refresh_avg_doc_len(
            [taken.ix EXCEPT !.id_to_slot[id] = slot,
                             !.live_docs = @ + 1,
                             !.doc_lengths[slot] = Cardinality(terms),
                             !.doc_freqs = [t \in Term |->
                                 IF t \in terms THEN @[t] + 1 ELSE @[t]],
                             !.inverted = [t \in Term |->
                                 IF t \in terms THEN Append(@[t], slot) ELSE @[t]],
                             !.doc_terms[slot] = terms])

\* Mutant: one document more than the cap.
upsert_past_cap(ix, id, terms) ==
    IF ix.id_to_slot[id] # 0
      THEN insert_document(remove_document(ix, id), id, terms)
      ELSE IF ix.live_docs > Cap THEN ix ELSE insert_document(ix, id, terms)

upsert_document(ix, id, terms) ==
    IF ix.id_to_slot[id] # 0
      THEN insert_document(remove_document(ix, id), id, terms)
      ELSE IF ix.live_docs >= Cap THEN ix ELSE insert_document(ix, id, terms)

\* The chunks score_query_all accumulates a score for.
score_query_all(ix, query) ==
    IF ix.live_docs = 0 THEN {}
    ELSE LET touched == UNION {Range(ix.inverted[t]) : t \in {u \in query : ix.doc_freqs[u] > 0}}
             scored == {s \in touched : ix.doc_lengths[s] # Absent}
         IN  {ix.slot_to_id[s] : s \in {r \in scored : ix.slot_to_id[r] # Absent}}

UpsertDocument(id, terms) == bm25' = upsert_document(bm25, id, terms)
RemoveDocument(id) == bm25' = remove_document(bm25, id)

Init == bm25 = New
Next == \E id \in Id :
    RemoveDocument(id) \/ \E terms \in SUBSET Term : UpsertDocument(id, terms)
Spec == Init /\ [][Next]_bm25

-----------------------------------------------------------------------------
(* Properties.                                                             *)

TypeOK(ix) ==
    LET n == Len(ix.slot_to_id)
    IN  /\ ix.id_to_slot \in [Id -> 0..n]
        /\ ix.slot_to_id \in Seq(Id \cup {Absent})
        /\ ix.doc_terms \in Seq({Absent} \cup SUBSET Term) /\ Len(ix.doc_terms) = n
        /\ ix.doc_lengths \in Seq({Absent} \cup Nat) /\ Len(ix.doc_lengths) = n
        /\ ix.free_slots \in Seq(1..n)
        /\ ix.doc_freqs \in [Term -> Nat]
        /\ ix.inverted \in [Term -> Seq(1..n)]
        /\ ix.live_docs \in 0..Cap

\* After any sequence of upserts and removals each slot is live or free, never
\* both and never twice, and the id of a live slot leads back to it.
SlotsPartitioned(ix) ==
    /\ \A s \in LiveSlots(ix) : ix.id_to_slot[ix.slot_to_id[s]] = s
    /\ \A id \in Id : ix.id_to_slot[id] # 0 => ix.slot_to_id[ix.id_to_slot[id]] = id
    /\ Range(ix.free_slots) = Slots(ix) \ LiveSlots(ix)
    /\ IsInjective(ix.free_slots)
    /\ ix.live_docs = Cardinality(LiveSlots(ix))

\* The posting list of a term names each live slot whose document has the term
\* once, and no other slot; the document frequency is its length.
PostingsExact(ix) ==
    \A t \in Term :
        /\ Range(ix.inverted[t]) = {s \in LiveSlots(ix) : t \in ix.doc_terms[s]}
        /\ IsInjective(ix.inverted[t])
        /\ ix.doc_freqs[t] = Len(ix.inverted[t])

\* The corpus the slots stand for.
docs_of(ix) == [id \in Id |-> IF ix.id_to_slot[id] = 0 THEN Absent
                              ELSE ix.doc_terms[ix.id_to_slot[id]]]
docs == docs_of(bm25)
Docs == {id \in Id : docs[id] # Absent}

\* The average length is over the documents the index holds now: removed and
\* replaced documents have left no length behind.
AverageIsCurrent ==
    bm25.avg_doc_len =
        IF Docs = {} THEN <<0, 0>>
        ELSE <<Total([s \in LiveSlots(bm25) |-> Cardinality(bm25.doc_terms[s])]),
               Cardinality(Docs)>>

\* A query scores the chunks that hold one of its terms now.
QueryExact ==
    \A query \in SUBSET Term :
        score_query_all(bm25, query) = {id \in Docs : docs[id] \cap query # {}}

\* "Updates to existing chunks are always honoured": whatever the free slots and the
\* cap, an upsert of a known id leaves it with the new terms and leaves the other
\* documents as they were.
UpdatesHonoured ==
    \A id \in Docs, terms \in SUBSET Term :
        LET updated == upsert_document(bm25, id, terms)
        IN  /\ updated.doc_terms[updated.id_to_slot[id]] = terms
            /\ updated.live_docs = bm25.live_docs
            /\ \A other \in Docs \ {id} :
                  updated.doc_terms[updated.id_to_slot[other]] = docs[other]

\* Behind its slots the index is the capped map of Bm25Corpus.
Corpus == INSTANCE Bm25Corpus
ImplementsCorpus == Corpus!Spec

\* Whatever was upserted and removed, over recycled slots: the slots partition into live
\* and free ones, postings and lengths are those of the live documents, a query scores
\* exactly the matching ones, and an update of a known id is honoured.
IndexSound ==
    /\ TypeOK(bm25) /\ SlotsPartitioned(bm25) /\ PostingsExact(bm25)
    /\ AverageIsCurrent /\ QueryExact /\ UpdatesHonoured
=============================================================================
