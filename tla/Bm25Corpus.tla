----------------------------- MODULE Bm25Corpus -----------------------------
(***************************************************************************)
(* What Bm25Index promises: a map from chunk id to the terms of the chunk, *)
(* bounded by TRUSTY_BM25_CORPUS_CAP, where an upsert replaces, an update  *)
(* is honoured even at the cap and a new id at the cap is dropped.         *)
(***************************************************************************)
EXTENDS Naturals, FiniteSets

CONSTANTS Id, Term, Cap,
          Absent    \* the value of an id without a document

VARIABLE docs

Live == {id \in Id : docs[id] # Absent}

TypeOK == docs \in [Id -> SUBSET Term \cup {Absent}]

Init == docs = [id \in Id |-> Absent]

Upsert(id, terms) ==
    docs' = IF docs[id] = Absent /\ Cardinality(Live) >= Cap
              THEN docs
              ELSE [docs EXCEPT ![id] = terms]

Remove(id) == docs' = [docs EXCEPT ![id] = Absent]

Next == \E id \in Id : Remove(id) \/ \E terms \in SUBSET Term : Upsert(id, terms)

Spec == Init /\ [][Next]_docs
=============================================================================
